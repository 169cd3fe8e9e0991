# A TLA+ model of GhosttyKit

GhosttyKit lets programs control the Ghostty terminal: a daemon on the Mac
(`ghosttykitd`, Swift) drives Ghostty through Apple Events and serves a JSON
protocol on a Unix socket; a command line tool (`gty`, Go) and SDKs (Go, Lua,
TypeScript) are its clients; `gty ssh` carries a *bridge* socket of the daemon to
a remote host; plugins for herdr, Neovim and pi sit on top.

This directory holds a specification of the parts of that system that are hard
to test: what happens when connections, commands, user actions and failures come
in an order nobody tried. TLC checks the models on small instances, and TLAPS
proves the safety properties that the runs check for every value of the constants. `PROJECT.json`
lists components, runs, mutants, hazards and theorems, and maps every definition
to the source lines it stands for.

## How to run

    tlc -workers 2 -config BridgeSession.cfg MCBridgeSession
    tlapm BridgeSession_proofs.tla

and likewise for the other runs and proof modules listed below.

## Inventory

`D/` is `daemon/ghosttykitd/Sources/ghosttykitd/`.

| Component | State it keeps | Operations | Talks to | What is hard | What makes it correct |
|---|---|---|---|---|---|
| Bridge sessions (`D/Bridge.swift`) | `sessions`, each session's `BridgeLease` (`active`, `released`) and listener | create, lease, gate, release, remove, stop | listeners, `commandQueue`, `gty ssh` | lease requests racing each other and a release; teardown from inside its own connection; a client that dies at any point | one lease at a time, release is final, no command without a lease, nothing is left behind |
| Listener and connections (`D/UnixSocketDaemon.swift`) | server channel, socket path, one task per connection | bind, accept, read one request, reply, hold, stop | path monitor, dispatch | cancellation, bind failure, a reply that cannot be sent | every request is answered or its connection closed; a hold ends when its client goes |
| Socket path monitor (`D/SocketPathMonitor.swift`) | `idle`, `armed`, `waiting`, `finished`; the event source | start, wait, cancel, file-system event | listener's task group | file-system events and cancellation racing start and wait | the waiter is resumed exactly once, a changed path is never missed |
| Dispatch (`D/App.swift`) | serial `commandQueue`, no-ack tasks | dispatch | every connection | a thread pool of fixed width whose threads block | commands are serial; every request ends |
| Terminal binding (`D/Cache.swift`, `D/CommandContext.swift`, `D/GhosttyControl.swift`) | tty -> terminal cache with a 12 h life | lookup, verify, scan, store, clear | Ghostty, over Apple Events | the user opens, closes, moves terminals between two Apple Events; ptys are recycled | a command acts on the terminal that runs on its tty |
| Requests and replies (`D/Requests.swift`, `D/Replies.swift`) | none | decode, validate, run, encode | dispatch | reply modes, bridge-only rules | one reply per answered request |
| Framing (`D/UnixSocketDaemon.swift`, RequestReader, ReplyWriter) | read buffer | read a frame, write a frame or a stream | connections | frames split at any byte, the 64 KiB limit, the 30 s write timeout | exactly the frame that was sent |
| Pasteboard (`D/Pasteboard.swift`) | none | read text, image, files | paste request | a file that changes after its size was announced | header and bytes agree |
| Doctor, preflight (`D/Doctor.swift`) | none | report | | | |
| Go SDK (`sdk/go`) | connection per call | typed calls, `Bridge`, `Hold`, paste | daemon | partial paste, cancelled contexts | files announced are the files written |
| `gty ssh` (`cli/gty/internal/remote`) | lease connection, key table, ssh child, remote sockets | bootstrap, tunnel, wait, release | daemon, remote host | signals racing start and end, concurrent installs, dead sockets | key table and lease are released on every path |
| Navigation filter (`cli/gty/internal/osc/filter.go`) | state, buffer | Write, Close | herdr attach | sequences split over reads, overlong or malformed sequences | every other byte passes through unchanged |
| herdr attach and navigation (`cli/gty/internal/herdr`, `commands_herdr.go`) | key table, config file | attach, navigate, ensure bindings | herdr, daemon | exit paths, two runs appending the same bindings, answers that come late or never | the key table is released; running servers have the bindings; a key moves one layer |
| Neovim plugin (`nvim/lua`) | pending request, timer, key table | request, navigate, suspend/exit | herdr, daemon | timer racing a reply | one callback per request |
| Lua and TypeScript SDK (`sdk/lua`, `sdk/ts`) | connection per call, chunk reader | typed calls, paste | daemon | chunk boundaries, partial paste | as Go SDK |
| pi-paste, `gty` commands, scripts | none | call the SDK | | | |

The pieces meet in four places: every connection ends in `commandQueue`; a
`bridge-create` starts a listener from inside `commandQueue`; a hold's release
removes the session whose listener carries it; and `gty ssh` keeps the daemon's
bridge alive by holding its lease.

## Modules

| Module | Models | Proofs |
|---|---|---|
| `BridgeLifecycle` | what a bridge promises, seen from outside: absent, open, leased, gone | |
| `BridgeSession` | bridge sessions, leases, their listeners and connections; implements `BridgeLifecycle` | `BridgeSession_proofs` |
| `TerminalBinding` | the binding cache, verification, scan and the commands that use them, with Ghostty and its user as environment | `TerminalBinding_proofs` |
| `CommandPool` | the threads under `commandQueue`, no-ack tasks and `bridge-create` | `CommandPool_proofs` |
| `SocketPathMonitor` | the monitor that ends a listener whose path is gone, and the task that runs it | `SocketPathMonitor_proofs` |
| `NavigationFilter` | the byte automaton that takes navigation sentinels out of a stream | `NavigationFilter_proofs` |
| `RemoteInstall` | how a session comes by a gty of its own version on the remote host; several install at one path | in `SshSession_proofs` |
| `SshSession` | `gty ssh` and `gty herdr attach` from remote cleanup to the end of OpenSSH: extends `RemoteInstall` | `SshSession_proofs` |
| `ClientCall` | one call of the Go SDK and the connection handler that serves it, with the files of a paste | `ClientCall_proofs` |
| `HerdrSetup` | `gty herdr setup`, run by several attaches beside Herdr servers and the user | in `HerdrNavigation_proofs` |
| `HerdrNavigation` | the navigation ladder of a keypress and its requests to Herdr: extends `HerdrSetup` | `HerdrNavigation_proofs` |
| `MCBridgeSession`, `MCTerminalBinding`, `MCSshSession` | symmetry sets, requests and versions for TLC | |

Definitions whose comment begins with "Mutant" are wrong on purpose: each is what
a plausible bug would make of the definition below it, and `PROJECT.json` names
the property that catches it. No specification uses them.

### BridgeSession

State follows the code field by field: `registry` is
`BridgeSessionManager.sessions`; `active` and `released` are those of
`BridgeLease`; `startup` is the box that `startDetached` reads once its task signalled;
`listener` is `UnixSocketDaemon.serverChannel` with how far `run` has come: `bound`, then
`open` once the monitor is armed and connections are accepted, or `unserved` if `run` threw
before that; `cancelled` is the state of the listener's task. `creation` stands for where `createBridge` is, and
`pc`, `on`, `kind`, `client`, `outcome` describe one connection: where its handler
stands, which bridge it reached, what it asks, what its client did and what came
of it. A step is what the code does between two points where something else can
run: a lock release, an `await`, a `commandQueue.sync`.

| Actions | Code |
|---|---|
| `Register`, `ReplyCreated`, `CreateFails` | `createBridge`, `BridgeSession.start` |
| `Bind`, `BindFails`, `Serve`, `RunFails` | the task of `startDetached`: `bind`, `run`, and the `catch` of both |
| `GateAdmits`, `GateRejects` | the handler `BridgeSession.start` gives its listener |
| `AcceptLease`, `RejectLease` | `BridgeLeaseRequest.dispatch`, `BridgeLease.accept` |
| `RunCommand`, `SpawnCommand`, `RunSpawned` | `GhosttyKitDaemon.dispatch` |
| `AckHold`, `AckHoldFails`, `HoldEnds` | the hold branch of `ConnectionHandler.run` |
| `Release` ... `UnlinkPath` | `BridgeLease.release`, `removeSession`, `BridgeSession.stop`, `UnixSocketDaemon.stop` |
| `MonitorFires` | `UnixSocketDaemon.run` when its path monitor finishes |
| `Connect`, `ClientCloses`, `ClientSendsExtra`, `PathTakenAway` | clients and the file system |

`commandQueue` is not a variable here: a request waits while a `bridge-create` is
under way (`QueueFree`), and every other block on the queue is one step. Its
threads are the subject of `CommandPool`.

`run` may throw after a bind that succeeded (`SocketPathMonitor.init`), and the `catch` then
puts the failure over the success. If `createBridge` has not read the box it fails, removes
its session, and leaves the socket bound; if it has, the bridge is created and nobody serves
it. Connections to either are taken by the kernel and never read. What NIO does with the
channel that is dropped then, and an `accept` that throws later, are left out.

### TerminalBinding

Ghostty is `layout` (terminals of each place, in order) and `ttyOf`; the daemon
is `cache`, `queue` and a record of each command. Every Apple Event is a step, so
`UserOpens`, `UserCloses` and `UserMoves` may come between any two. `Lookup`,
`VerifyHit`, `VerifyMiss` are `boundTerminal`; `CountTabs`, `ReadTTYs`, `ReadIDs`,
`ReadPath` are the scan of `terminalContext(forTTY:)`; `Act`, `Split`, `Focus`,
`StoreSplit` and `Clear` the commands. `EventFails` is any Apple Event that fails.

Abstractions: a window and its tab are one place; the order of places is fixed,
so a tab that moves goes to another place; the counts of windows and of tabs are
read in one step, and so are a window's and a tab's id; which terminals share a
window is not told apart. The cache is a Swift dictionary without a lock, which a
no-ack task uses next to `commandQueue`: of two racing accesses either write may
be lost (`Write`), and that the race may crash the daemon is left out.

### CommandPool

`stage` and `task` say where each handler and each task it made stand; `blocked`,
`running` and `starting` keep a thread of the pool, and so does a no-ack command at
work. A task that suspends gives its thread back. The pool has a fixed number of
threads, as the cooperative pool of the Swift concurrency runtime has: a thread
that blocks in `commandQueue.sync` or in `semaphore.wait` is not replaced.

### SocketPathMonitor

`state`, `identity` and `sourceStarted` (as `resumes`) are the fields of the class.
`start`, the event source's queue and the cancellation handler all end in
`finish`; `at` and `took` say where each of these three threads stands in it. A
step is one critical section of the lock or one call between them. Directory
events that no directory on the path reports (a rename of a grandparent) are
outside of the model.

### NavigationFilter

`state` and `buffered` are the filter's fields; `out` collects what reached the
writer, with a `direction` where `onDirection` was called. A byte is one of six:
escape, bell, `]`, `\`, a complete title payload, anything else. `Filtered` is the
reference: the stream looked at as a whole, each sentinel replaced by a direction.
A writer that fails ends the stream and is left out.

### RemoteInstall and SshSession

`RemoteInstall` is `bootstrap.go`: `managed` is what the install path holds, `onPath` the
host owner's gty, and for each session `step` and `chosen` say where
`ensureRemoteGTY` stands and what it returns, `payload` which version the binary is that
it copies, `temps` its local temporary files. `upload` is `managedInstallScript`, a
process of its own on the host: it goes on when its client is gone.

| Actions | Code |
|---|---|
| `Find`, `Verify`, `RemoteCallFails` | `ensureRemoteGTY`, `ensureManagedRemoteGTY`, `installManagedRemoteGTY`, `captureSSH` |
| `UseOwn`, `BeginBuild`, `Built`, `Downloaded`, `Extracted`, `BuildFails` | the two `BinaryFor` and what they call |
| `BeginUpload`, `UploadReturns` | `bootstrapRemoteGTY` |
| `CatEnds`, `CatCut`, `ScriptFails`, `Rename` | the commands of `managedInstallScript` |

`SshSession` adds where each client stands (`at`), its run of `cleanupDeadSockets`
(`sweep`, `doomed`), its remote socket (`file`), the listener behind it (`tunnel`),
`remote-run` (`run`), its bridge in the local daemon (`bridge`), its end of the lease
connection (`link`) and the key table of its terminal (`table`). `found`, `missed` and
`lost` are history: what a listing had that was dead, whether a probe took a bound socket
for dead, and what was lost between the session and the daemon about the key table: the
reply to its activation, or the deactivation itself.

What the daemon does with a lease and what the client knows of it are told apart: `AskLease`
sends the request, `GrantLease` takes the lease, `AckLease` sends the reply, `Hold` reads it.
A client may fail or be killed between any two, and the daemon grants a request that it was
sent all the same. `AckFails` is the outcome of `bridge_lost_ack`: the bridge stays an
`orphan`, with an active lease that nothing releases.

| Actions | Code |
|---|---|
| `List`, `Probe`, `RemoveDead`, `RemoveFails`, `SweepEnds` | `PrepareRuntime`, `cleanupDeadSockets`, `socketAlive` |
| `CreateBridge`, `CreateFails`, `AskLease`, `Hold`, `HoldFails`, `CloseLease` | `Runner.Prepare`, `Client.Bridge`, `Hold`, `PreparedBridge.Close` |
| `GrantLease`, `AckLease`, `AckFails`, `BridgeDies` | `BridgeLease.accept`, the hold branch of `ConnectionHandler.run`, the end of the daemon |
| `Setup`, `ActivateKeyTable`, `DeactivateKeyTable` and their failures | `runHerdrAttach` |
| `StartSsh`, `SshReturns`, `AfterSsh` | `RunPreparedSSH`, `runForwardingSignals`, the deferred calls |
| `Bind`, `Listen`, `TunnelEnds` | OpenSSH and the host's sshd, with the options of `ManagedSSHArgs` |
| `RunStarts`, `RunEnds` | `Run` |
| `PrepareFails`, `Fallback`, `PlainEnds` | the fallback of `RunSSH` to plain SSH |

Of a session's bridge the daemon's own steps are those of the lease; that the end of an
acknowledged hold destroys the bridge is one step here (`CloseLink`) and the subject of
`HoldEndDestroysBridge` there. A call that is under way when the client is killed may still
be carried out: a bridge created, a key table activated or deactivated.
A signal that the attach forwards while OpenSSH runs (SIGINT, SIGTERM, SIGHUP) ends
OpenSSH, so it is a `SshReturns`; any other signal at any other time is `Killed`, and so
is a forwarded one before or after that. The random name of a remote socket
is taken to be fresh, so a socket is named by its session.

### ClientCall

The request frame is a number of pieces with a newline behind them; `sent` and
`arrived` count them, and a chunk is any number of what is on the way. `stage`
and `result` are the client, `daemon`, `taken` and `reply` the handler of its
connection. A paste's bytes come in the order of its files, so the connection is the
number of bytes of each file on the way (`wire`), up to a capacity. The handler
streams `from` and `offset`; the client writes file `complete + 1` while `open`. What a
byte says is left out, and which file it is of is kept: `foreign` tells that a byte of
another file was written to one.

`Refuse`, `Dial`, `Send`, `ReadReply`, `ReadData`, `ReadEnd` are `Call`, `Notify`, `Stream` and
`Hold`, which differ in what they do with the reply; `OpenFile` ... `Received` are
`receivePasteFiles`, `materializePasteFile` and `writeTextPaste`. `ReadChunk` and `ReadClosed`
are `RequestReader`, `Paste` the pasteboard reader, `StreamByte`, `StreamNext`, `ReadFails` and
`WriteFails` the `ReplyWriter`, whose writes end by their client's end or by their timeout.
A copy of the client ends early when the stream did (`CopyEnds`), or because what it writes
to fails (`CopyFails`), which may be at any time and need never be. `Die` ends the daemon, `Kill` the client, and
`FileChanges` is another program that writes a file after its size was read.

### HerdrSetup and HerdrNavigation

`HerdrSetup` keeps of the config how often it holds the bindings (`copies`) and whether
something else in it keeps Herdr from running them (`spoiled`). `EnsureBindings` is
`ReadConfig`, which stands for the check by `herdr config check` too, and `AppendBindings`;
`ListSessions` and `Reload` are the rest of `runHerdrSetup`. A server reads the config
and is up some time later; `loaded` says what it read. Whether Herdr runs a binding
that is there twice is its own affair: `DuplicatesRun`.

`HerdrNavigation` has a keypress wait for one request at a time (`step`). `asked` is what
Herdr has yet to perform, `answer` what it answered: `Fail` ends the ladder on an error
or a deadline, and leaves `asked`, so that the request may still be performed, or
dropped. `ReadInfo` ... `ReadLast` are `Navigate` and `signalOuterLayer`, `GiveInfo` ...
`ClearWindowTitle` the methods as Herdr performs them, each on the client that is in the
foreground then: `titled` are the clients with a navigation title, `carrier` is the one that
took a keypress's title, and `strayed` are the keypresses whose clear went to another. The
clients are the attach, which filters its stream, and a plain one. `FilterFocuses` the attach's filter
(whose bytes are `NavigationFilter`). Neovims, layout, clients and the server change at
any time; `disrupted` are the keypresses under which their pane changed.

## Runs

Deadlock is not checked: clients need not come back and bounds end, so the
system may stop.

| Run | Bounds | States | Checks |
|---|---|---|---|
| `bridge_session` | 1 bridge, 3 connections | 80 k | `LeaseExclusive`, `ReleasedIsFinal`, `RanOnlyIfLeased`, `BridgeInv`, refinement of `BridgeLifecycle` |
| `bridge_pair` | 2 bridges, 2 connections | 253 k | `RegistryAgrees`; under fairness `HoldEndDestroysBridge`, `RequestsComplete` |
| `bridge_lost_ack` | 1 bridge, 2 connections | violation | `ActiveLeaseHasHolder` |
| `terminal_binding` | 3 terminals, 2 ttys, 2 places, 2 commands, 2 changes | 1.6 M | `VerifiedHitUsesOwner`, `QuietScanUsesOwner`, `CacheNamesOwner`, `BindingInv`, `QuietScanComplete` |
| `terminal_binding_race` | the same with 1 command, 1 change | violation | `ActsOnOwner` |
| `command_pool` | 3 connections, 4 threads | 21 k | `PoolInv`; under fairness `EveryRequestEnds` |
| `command_pool_full` | 3 connections, 3 threads | violation | `EveryRequestEnds` |
| `socket_path_monitor` | 2 files, 3 changes | 7 k | `WaiterOwned`, `SourceBalanced`, `NoSpuriousEnd`, `MonitorInv`; under fairness `ChangeEndsListener`, `CancelEndsWaiter` |
| `navigation_filter` | streams of 7 bytes in chunks of 1 or 2, a buffer of 4 | 1.3 M | `FilterExact`, `FilterInv` |
| `ssh_session` | 1 attach, 1 gty ssh of another version | 276 k | `SshInv`, `WholeUnlessCut`, `ReadyHolds`, `ListenerKeepsPath`, `DeadSwept`, `Released`; under fairness `EndReleases` |
| `client_call` | frames of up to 3 pieces at a limit of 2, 2 files of up to 2 bytes, 2 bytes on the way, 2 changes | 142 k | `CallInv`, `TakenWhole`, `OkMeansTaken`, `PasteExact`, `NoPartialFile`; under fairness `CallEnds` |
| `herdr_navigation` | 1 keypress, 2 panes, 1 server, 1 setup, 3 changes | 486 k | `HerdrInv`, `OneMove`, `SetupReachesServers`; under fairness `PressEnds` |

Why the bounds are enough:

- A lease race needs two contenders, and a third connection for a command that
  was let in before the release. Two bridges interact only through the registry
  and `commandQueue`; two connections let one bridge be held while the other is
  created, fails or goes away. The pair run checks liveness, which rules out `SYMMETRY`; its
  `CONSTRAINT` `FirstComeFirst` lets the first bridge be created and the first connection
  made before the second ones. Bridges and connections are alike but for their names, so
  each behaviour that is cut has a renamed one that is not, and as fairness asks for no
  bridge and no connection to be made, none is unfair by the cut.
- Two terminals on two ttys and a third that opens are what a recycled pty and a
  shifted index need; two commands, of which one may be a no-ack one, share the
  cache. `MaxChanges` bounds the user, not the daemon. A terminal
  id is never reused, as in Ghostty.
- With as many requests as threads the pool can be exhausted, with one thread
  more it cannot: every connection keeps at most one thread and at most one
  `bridge-create` waits at a time, since it keeps `commandQueue`. A no-ack command
  keeps a thread only once its own handler is leaving. `PoolSuffices` proves this for any
  number of connections.
- Three changes take the path away, put it back and take it away again, with
  events of other bridges in between.
- A sentinel has four or five bytes, so seven leave two or three for what comes
  before, after or in the middle of it; five bytes of a sequence overflow the
  buffer.
- Two sessions of two versions are what an install over another, a cleanup beside a
  live tunnel and a plain or a required bridge need; each action names at most two
  sessions. The host starts with no gty, or with that of one of the versions.
- A frame of three pieces with a limit of two is refused or taken by the last piece;
  two files are what it takes for the bytes of one to reach the other, and two
  bytes for a file to shrink to something, or to grow.
- The ladder races panes, clients, the server and the config: three changes put a Neovim
  or a neighbour beside a pane, attach a client and change the pane again in any step
  of the ladder. The user's edit is the other writer of the config, and may add the
  bindings before the setup appends them. Keypresses only share the title and the
  panes, and setups only the config and the servers; the theorems cover any number of
  both, and TLC finds no error with two setups and one change either.

### What the violations show

- `bridge_lost_ack`: the lease is granted on `commandQueue`, then acknowledged. If
  that reply cannot be sent, `ConnectionHandler.run` leaves before
  `holdReply.hold.release()`. The lease stays active, no later lease request is
  accepted, and the session, its listener and its socket stay until the daemon
  exits. `docs/daemon.md:23` and `CONTEXT.md:7` say that the bridge is destroyed when
  its lease closes.
- `terminal_binding_race`: a scan reads a tab's ttys in one Apple Event and its ids
  in the next and pairs them by index. A terminal that opens left of the wanted
  one in between makes the command act on, and cache, the wrong terminal. The next
  use of that cache entry is verified, so the cache heals; the command that
  scanned has acted. `docs/daemon.md:17` says the scan finds the terminal whose tty
  matches.
- `command_pool_full`: `startDetached` blocks a pool thread, with `commandQueue`, for
  a task that needs one; with all threads in `commandQueue.sync` nothing can run.
  `docs/protocol.md` says of the requests that they always respond. The pool has as
  many threads as the machine has cores.

### What the passing runs leave open

Disagreements of code and docs that the properties' exceptions are about:

- `PasteExact` excepts files listed behind one that changed: when a file grew after
  its size was sent, its surplus is written to the next file, silently, and the
  sizes agree. `docs/protocol.md:120` has the daemon stream "each file payload in listed order".
- `CallEnds` says nothing of a handler that waits for a request: it has no deadline, so a
  client that connects and sends nothing keeps its handler for as long as it likes.
- `OkMeansTaken` excepts requests without reply: `waitForEOF` takes the end of a
  connection whose daemon died for success (`client.go:216`).
- `Released` excepts a lease that was granted and never acknowledged: the finding of
  `bridge_lost_ack`, met by a `gty ssh` that fails or is killed in `Hold`.
- `Released` excepts a client that was killed: a signal after `ActivateKeyTable` and before
  `signal.Notify`, or after `signal.Stop`, ends the attach by its default and leaves the key
  table active, and so does a lost reply to the activation, since `runHerdrAttach` returns
  before its `defer`, and a deactivation that is not carried out, whose error is dropped.
  `docs/ssh.md:125` promises the release on "handled `SIGINT`, `SIGTERM`, and `SIGHUP`", which
  are handled only while OpenSSH runs.
- `WholeUnlessCut` excepts a cut-off copy: `cat` ends without an error when its input does,
  and the script makes the part executable and renames it (`bootstrap.go:55`). That
  sessions share a half-written file, which the comment at `bootstrap.go:48` rules out, does
  not happen. The next session finds a gty that does not run, and installs again.
- `ReadyHolds` excepts another installer: `ensureManagedRemoteGTY`, which
  "guarantees this version" (`bootstrap.go:132`), may return just before a session of another
  version renames its own into place.
- `ListenerKeepsPath` excepts a probe that meets the socket between bind and listen, or
  with a full backlog: its file is removed though the tunnel is up. `docs/ssh.md:76` says
  that `remote-init` "preserves active sockets".
- `SetupReachesServers` excepts setups that another writer overtook: two that read the
  config before either appended add the bindings twice. It speaks of the servers that were
  running when the setup read the config: one that had read the old config and came
  up after `herdr session list` is not reloaded.
- `TitleRestored` excepts ladders that failed: a `SetWindowTitle` that misses its deadline
  may be performed after it, and nothing clears that title. It also excepts clients that
  leave the foreground between the two requests, though the ladder succeeds: Herdr sets and
  clears the title of whichever client is in the foreground then, so the first one keeps a
  navigation title. The comment at `navigation.go:69` says that the clear "restores the normal
  title everywhere else".

### Fairness

- `BridgeSession`: the task that binds and the `createBridge` that waits for it go on, and so
  do a bound listener (into `run`, out of it by an error, or out by its monitor), connection
  handlers and spawned tasks, each under weak fairness; clients and the file system owe
  nothing, and no bridge need be created. Neither a failed bind nor a failed `run` is counted
  on: each has a success beside it under the same `WF`. A `WF` for each connection is
  justified by one task for each connection. A hold's end does not depend on a
  client that stays: the antecedent of `HoldEndDestroysBridge` is that it went or sent data,
  or that the listener was cancelled.
- `CommandPool`: a free thread is given to a task that can run; Apple Events have a
  timeout, so a command ends; a bind ends. Weak fairness of each handler and task
  suffices because a finite number of requests compete for the threads.
- `SocketPathMonitor`: the listener's task, the waiting task, the event queue and
  each thread inside `finish` go on; the directory need not change, the accept
  loop need not end and nobody need cancel.

- `SshSession`: OpenSSH returns once its tunnel is down, the tunnel ends with the remote
  command, and the deferred calls run (with success or a failure). The remote side, the
  copy and the daemon owe nothing: `EndReleases` starts where the tunnel or the remote
  command ended.
- `ClientCall`: the specification is fair to the handler only, and the first half of
  `CallEnds` holds with a client that stops reading at any point: the writer's timeout
  (`withWriteIdleTimeout`) ends a write that waits for it. The second half, that the call
  returns, assumes that the client runs (`ClientRuns`). No failure that may never come is
  counted on: neither a disk error of the client, whose `io.CopyN` has no deadline, nor a
  file the handler cannot read. A client that holds a lease may hold it for ever.
- `HerdrNavigation`: a ladder takes a step when it can, which the deadline of each request
  always gives it; Herdr owes nothing.

## Proofs

Each `*_proofs` module proves, for every value of the constants that satisfies the
named assumption, an inductive invariant and what follows from it. The layout is
the same in all: the initial states satisfy the invariant, one lemma or step for
each action, and a temporal step.

- `BridgeSession_proofs` (`NoBridgeAssumption`). `LeaseExclusive` is not inductive:
  that two connections never hold one lease depends on `accept` finding neither
  `active` nor `released`, hence on those two telling whether any connection was
  ever granted. `LeaseInv` adds this (`LeaseAgrees`), what each stage of a
  connection implies (`ConnAgrees`), and that one connection at most was granted.
  `RegistryInv` adds the order of `stop` to `RegistryAgrees`, and two facts that say how
  far the finding of `bridge_lost_ack` reaches. `LostUnacknowledged`: an active lease has its
  holder, or was granted to a connection whose acknowledgement could not be sent,
  because its client had gone or its listener was cancelled; a lease is lost in no other
  way. `TornDown`: once a released bridge is no longer being torn down, its
  registration, its listener and its socket are gone; this is the safety half of
  `HoldEndDestroysBridge`. `BridgeInv` is both. The refinement of `BridgeLifecycle` maps each
  action to a step or a stutter.
- `TerminalBinding_proofs` (`BindingAssumption`). `ResolvedInv` says stage by stage
  what a command knows of its binding; the cache holds true bindings as long as
  no scan was disturbed. `VerifiedHits` does not need that: a verified hit is right
  whatever the cache holds. `SearchInv` says what a scan has ruled out: as long as nothing
  disturbs it Ghostty lists as many tabs as it counted, and none that it went past has
  the tty. `QuietScanComplete` follows since each listed place has a rank among the listed
  ones (`TabIndexed`) and no two have the same (`TabUnique`), so the indices from 1 to the
  count meet them all, for any finite number of places. `MisdirectedOnlyByScan`
  states `terminal_binding_race` exactly: a command acts on a terminal of another tty only if
  it scanned and Ghostty changed under its scan, never because of a cache entry,
  though entries are stale, of a recycled pty, lost or overwritten.
- `CommandPool_proofs` (`PoolAssumption`). `PoolInv`: the queue's owner and line agree
  with the handlers' stages, so `commandQueue` is serial even while `bridge-create`
  waits with it; each handler's stage tells where its task is (`TaskInv`), so a
  connection keeps one thread at most. Hence `PoolSuffices`: with more threads than
  connections one is always free, however many connections there are. And
  `NoCircularWait`: as long as anyone is not done, someone waits for nothing but a thread.
  The two together leave exhaustion of the pool, which `command_pool_full` shows, as the
  one way to a deadlock.
- `SocketPathMonitor_proofs` (`MonitorAssumption`). `FinishInv` ties state, waiter and
  threads: a suspended waiter's continuation is in the state or with the one
  thread that is past its critical section. `ChangeInv` follows the event source and the
  threads that have looked at the path, and gives `NoChangeMissed`: as long as a listener
  serves at a path that changed, an event is pending, a thread is about to
  finish, or the waiter is about to return. It is the safety half of `ChangeEndsListener`.
- `NavigationFilter_proofs` (`FilterAssumption`). `BufferInv`: the buffer holds an
  unterminated sequence of bounded length. `FilterExact` compares what reached the writer
  with `Filtered` of the stream, whatever the stream, its chunks and the size of the
  buffer. Alone it is not inductive: that a byte which completes no sentinel adds itself
  to `Filtered` depends on what stands before it. `ScanInv` says that much: in the state
  `text` the stream ends in no beginning of a sentinel, what is pending is its end,
  and an escape that is looked at again is not the one of a sentinel. The lemmas then
  say what one more byte does to `Filtered`: it joins it (`AppendPlain`), or it completes a
  sentinel and a direction stands for its last four or five bytes (`AppendSentinel`).
  `Filtered` flattens a sequence with a fold; the facts about it need an induction, and the
  library's induction theorems cannot be used here as they take an operator. They are
  proved with sets instead (`NatSetInduction`): numbers outside of a set that has 0 and each
  successor would be a finite set mapped one to one into itself by `k - 1`, hence onto
  itself (`FS_Injection`), though nothing maps to its greatest.
- `SshSession_proofs` (`InstallAssumption`). `SshInv` is `InstallInv`, by which a copy is
  cut off only when its client is gone and a client verifies only what it installed,
  with `SessionInv` (past `hold` the lease was acknowledged and is active until the client's
  end closes or the daemon dies; a lease that was not acknowledged is one whose client
  forwarded nothing; a key table is active only where the attach still gives it back, or a
  call about it was lost) and `SweepInv` (every
  dead socket of a listing is still to be probed or removed, and a socket on that list
  that came alive again was missed by a probe). The steps of `RemoteInstall` are proved
  apart from those of the session.
- `ClientCall_proofs` (`CallAssumption`). `PasteExact` is not inductive: that the next byte is
  one of the open file is a matter of counting. `ConserveInv` counts: of each file that
  neither changed nor follows one that did, the bytes written, on the way and still to be
  streamed add up to the announced size. `PhaseInv` ties the two sides' places. From
  both follows `PasteDelivers`: a paste that succeeds while nobody writes its files has
  delivered every one of them, and left no byte of them in the connection. `CallInv` adds
  `AnswerInv`, by which a request is taken only once all of it was sent and a hold is
  answered before it is held, to what is above (`CopyInv`). Hence `NotBothWaiting`: a client that
  waits for its reply or for bytes finds them, or the end of the connection, or a handler
  that has work to do.
- `HerdrNavigation_proofs` (`SetupAssumption`, `NavigationAssumption`). `HerdrInv`: what a
  keypress has asked bounds what it has moved, and as long as nothing changed under it
  its place in the ladder tells the layer of its pane. `TitleRestored` is part of it: each
  client with a navigation title got it from a keypress that has its clear ahead of it,
  failed, or cleared another client's. `SetupInv`: a setup that nobody
  overtook knows the config, and every server since its reading is loaded or still to be
  reloaded.

Every invariant, action property and refinement that a passing run checks is proved.
Only model-checked are the liveness properties (`HoldEndDestroysBridge`, `RequestsComplete`,
`EveryRequestEnds`, `ChangeEndsListener`, `CancelEndsWaiter`, `EndReleases`, `CallEnds`,
`PressEnds`): they need fairness and `ENABLED`, which the provers cannot handle. For
four of them the safety that they rest on is proved: `TornDown` (`HoldEndDestroysBridge`),
`NoChangeMissed` (`ChangeEndsListener`), `PoolSuffices` with `NoCircularWait`
(`EveryRequestEnds`), `NotBothWaiting` (`CallEnds`).

## Not modelled

- JSON decoding, error codes and their texts; the validation of requests beyond their
  reply mode.
- Which representation of the clipboard is pasted, file names and media types.
- Argument strings and quoting of the SSH commands, progress messages, the reset of
  the terminal after OpenSSH.
- The Neovim plugin: its callbacks run on one event loop, one after the other; its
  ladder repeats the two outer layers of `HerdrNavigation`.
- The Lua and TypeScript SDKs speak the protocol of `ClientCall`, each with a reader of its
  own; pi-paste calls the latter.
- Resize geometry and key encoding: arithmetic on AppKit values.
- Doctor, preflight, the `gty` commands, scripts: no state of their own.
- A crash of the daemon inside `BridgeSession`: it persists nothing, and its sockets are
  cleaned up when they are bound again; its clients see it in `SshSession` (`BridgeDies`) and
  `ClientCall` (`Die`).

## Plan

The modules planned first are written: `RemoteInstall` and `SshSession` for `gty ssh`,
`ClientCall` for framing and pastes, `HerdrSetup` and `HerdrNavigation`. What is left:

1. Proofs: that a file which grows shifts its own surplus into the next one and no more,
   which needs sums over files; the
   safety halves of `EndReleases` and `PressEnds`.
2. The Neovim plugin's timer, reply and key table over suspend and exit, should its
   requests ever run beside each other.

`BridgeSession`'s `MonitorFires` is the effect of `SocketPathMonitor` on its listener, the
bridge of `SshSession` what `BridgeLifecycle` shows of one, `SshSession`'s `Setup` a run of
`HerdrSetup`, and the signals of `HerdrNavigation` what `NavigationFilter` takes out of the
stream.
