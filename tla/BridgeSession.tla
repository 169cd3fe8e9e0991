---------------------------- MODULE BridgeSession ----------------------------
(***************************************************************************)
(* The bridge sessions of ghosttykitd: BridgeSessionManager, BridgeSession *)
(* and BridgeLease (Bridge.swift), the listener each session runs          *)
(* (UnixSocketDaemon), and the connections to those listeners              *)
(* (ConnectionHandler) from accept to close.                               *)
(*                                                                         *)
(* A step is what the code does between two points where another task or   *)
(* thread can run: a lock release, an await, a commandQueue.sync.  A       *)
(* bridge-create holds commandQueue from its registration to its reply, so *)
(* a request that needs the queue waits while one is under way.            *)
(***************************************************************************)
CONSTANTS Bridges,   \* bridge sessions that may ever be created
          Conns,     \* connections that may ever be made to a bridge listener
          NoBridge   \* the bridge of a connection that was not made yet

ASSUME NoBridgeAssumption == NoBridge \notin Bridges

VARIABLES
    creation,   \* progress of BridgeSessionManager.createBridge
    startup,    \* what startDetached's task has put in the startup box
    registry,   \* BridgeSessionManager.sessions
    listener,   \* UnixSocketDaemon.serverChannel of the session, and whether run serves it
    path,       \* whether the session's socket path exists
    cancelled,  \* whether the listener's task group was cancelled
    active,     \* BridgeLease.active
    released,   \* BridgeLease.released
    pc,         \* where the connection's handler stands
    on,         \* the bridge the connection was made to
    kind,       \* the request the connection carries
    client,     \* what the client's end of the connection has done
    outcome     \* what the daemon did with the connection's request

sessionVars == <<creation, registry>>
listenerVars == <<startup, listener, path, cancelled>>
leaseVars == <<active, released>>
connVars == <<pc, on, kind, client, outcome>>
vars == <<sessionVars, listenerVars, leaseVars, connVars>>

\* "lease" carries the lease token, "forged" another token; "sync" is a
\* command that is answered, "async" one sent with ack = false.
Kinds == {"lease", "forged", "sync", "async"}

\* The stages of the connection that holds the lease, in order.
GrantedStages == {"acking", "holding", "releasing"}
TeardownStages == {"removing", "stopping", "closing", "unlinking"}
HolderStages == GrantedStages \cup TeardownStages

Stages == {"idle", "reading", "queued", "replying", "done"} \cup HolderStages
Creations == {"absent", "registered", "failed", "created"}

\* "bound": bind is done and run has not begun; "open": the monitor is armed and
\* connections are accepted; "unserved": run threw before it did either.
Listeners == {"none", "bound", "open", "unserved", "closed"}
Outcomes == {"none", "admitted", "task", "ran", "granted"}

TypeOK ==
    /\ creation \in [Bridges -> Creations]
    /\ registry \in SUBSET Bridges
    /\ startup \in [Bridges -> {"none", "success", "failure"}]
    /\ listener \in [Bridges -> Listeners]
    /\ path \in [Bridges -> BOOLEAN]
    /\ cancelled \in [Bridges -> BOOLEAN]
    /\ active \in [Bridges -> BOOLEAN]
    /\ released \in [Bridges -> BOOLEAN]
    /\ pc \in [Conns -> Stages]
    /\ on \in [Conns -> Bridges \cup {NoBridge}]
    /\ kind \in [Conns -> Kinds]
    /\ client \in [Conns -> {"open", "extra", "closed"}]
    /\ outcome \in [Conns -> Outcomes]

Init ==
    /\ creation = [b \in Bridges |-> "absent"]
    /\ registry = {}
    /\ startup = [b \in Bridges |-> "none"]
    /\ listener = [b \in Bridges |-> "none"]
    /\ path = [b \in Bridges |-> FALSE]
    /\ cancelled = [b \in Bridges |-> FALSE]
    /\ active = [b \in Bridges |-> FALSE]
    /\ released = [b \in Bridges |-> FALSE]
    /\ pc = [c \in Conns |-> "idle"]
    /\ on = [c \in Conns |-> NoBridge]
    /\ kind = [c \in Conns |-> "sync"]
    /\ client = [c \in Conns |-> "open"]
    /\ outcome = [c \in Conns |-> "none"]

Goto(c, stage) == pc' = [pc EXCEPT ![c] = stage]

\* Mutant: startDetached does not signal a failed bind, which keeps commandQueue.
QueueFreeUnlessFailed == \A b \in Bridges : creation[b] \notin {"registered", "failed"}

\* No bridge-create holds commandQueue.
QueueFree == \A b \in Bridges : creation[b] # "registered"

-----------------------------------------------------------------------------
(* Creating a bridge: createBridge, session.start, startDetached.          *)

\* sessions[sessionID] = session, on commandQueue.
Register(b) ==
    /\ QueueFree
    /\ creation[b] = "absent"
    /\ creation' = [creation EXCEPT ![b] = "registered"]
    /\ registry' = registry \cup {b}
    /\ UNCHANGED <<listenerVars, leaseVars, connVars>>

\* The detached task binds the socket path and signals startup.
Bind(b) ==
    /\ creation[b] = "registered"
    /\ startup[b] = "none"
    /\ startup' = [startup EXCEPT ![b] = "success"]
    /\ listener' = [listener EXCEPT ![b] = "bound"]
    /\ path' = [path EXCEPT ![b] = TRUE]
    /\ UNCHANGED <<sessionVars, cancelled, leaseVars, connVars>>

\* bind throws: the task stores the failure and signals.
BindFails(b) ==
    /\ creation[b] = "registered"
    /\ startup[b] = "none"
    /\ startup' = [startup EXCEPT ![b] = "failure"]
    /\ UNCHANGED <<sessionVars, listener, path, cancelled, leaseVars, connVars>>

\* The task goes on into run: the path monitor is armed, the accept loop begins.
Serve(b) ==
    /\ listener[b] = "bound"
    /\ listener' = [listener EXCEPT ![b] = "open"]
    /\ UNCHANGED <<sessionVars, startup, path, cancelled, leaseVars, connVars>>

\* run throws before it serves (SocketPathMonitor.init): the task puts the failure
\* over its own success, which matters while createBridge has not read it, and nobody
\* closes the channel or unlinks the path.
RunFails(b) ==
    /\ listener[b] = "bound"
    /\ listener' = [listener EXCEPT ![b] = "unserved"]
    /\ startup' = IF creation[b] = "registered" THEN [startup EXCEPT ![b] = "failure"] ELSE startup
    /\ UNCHANGED <<sessionVars, path, cancelled, leaseVars, connVars>>

\* createBridge reads a success and returns the socket path and the lease token,
\* whatever becomes of the task after the read.
ReplyCreated(b) ==
    /\ creation[b] = "registered"
    /\ startup[b] = "success"
    /\ creation' = [creation EXCEPT ![b] = "created"]
    /\ UNCHANGED <<registry, listenerVars, leaseVars, connVars>>

\* createBridge reads a failure, of bind or, late, of run, and removes the session.
\* The session has no task and no daemon yet, so its stop closes and unlinks nothing.
CreateFails(b) ==
    /\ creation[b] = "registered"
    /\ startup[b] = "failure"
    /\ creation' = [creation EXCEPT ![b] = "failed"]
    /\ registry' = registry \ {b}
    /\ UNCHANGED <<listenerVars, leaseVars, connVars>>

-----------------------------------------------------------------------------
(* The clients and the file system, which owe the daemon nothing.          *)

\* The kernel takes the connection whether or not anybody accepts it.  Only the
\* client that read the bridge-create reply knows the lease token.
Connect(c, b, k) ==
    /\ pc[c] = "idle"
    /\ listener[b] \in {"bound", "open", "unserved"}
    /\ path[b]
    /\ k = "lease" => creation[b] = "created"
    /\ Goto(c, "reading")
    /\ on' = [on EXCEPT ![c] = b]
    /\ kind' = [kind EXCEPT ![c] = k]
    /\ UNCHANGED <<sessionVars, listenerVars, leaseVars, client, outcome>>

\* The client exits, is killed or gives up, at any moment.
ClientCloses(c) ==
    /\ pc[c] \notin {"idle", "done"}
    /\ client[c] # "closed"
    /\ client' = [client EXCEPT ![c] = "closed"]
    /\ UNCHANGED <<sessionVars, listenerVars, leaseVars, pc, on, kind, outcome>>

\* The client of a hold sends bytes after its request frame.
ClientSendsExtra(c) ==
    /\ pc[c] \in {"acking", "holding"}
    /\ client[c] = "open"
    /\ client' = [client EXCEPT ![c] = "extra"]
    /\ UNCHANGED <<sessionVars, listenerVars, leaseVars, pc, on, kind, outcome>>

\* Somebody removes or replaces the socket file of a listener whose monitor is armed.
\* (SocketPathMonitor has the changes before that.)
PathTakenAway(b) ==
    /\ path[b]
    /\ listener[b] = "open"
    /\ path' = [path EXCEPT ![b] = FALSE]
    /\ UNCHANGED <<sessionVars, startup, listener, cancelled, leaseVars, connVars>>

-----------------------------------------------------------------------------
(* A connection's request: readCommand, the session's gate, commandQueue.  *)

\* BridgeLease.isActive, read under the lease's lock.
IsActive(b) == active[b] /\ ~released[b]

IsLeaseRequest(c) == kind[c] \in {"lease", "forged"}

\* The connection's request is read: its listener was served and gave it a handler.
Reads(c) == pc[c] = "reading" /\ listener[on[c]] \notin {"bound", "unserved"}

\* Mutant: the gate forgets lease.isActive.
GateAdmitsAny(c) ==
    /\ Reads(c)
    /\ Goto(c, "queued")
    /\ outcome' = IF IsLeaseRequest(c) THEN outcome
                                       ELSE [outcome EXCEPT ![c] = "admitted"]
    /\ UNCHANGED <<sessionVars, listenerVars, leaseVars, on, kind, client>>

\* The session's handler lets the request through to the daemon's dispatch.
GateAdmits(c) ==
    /\ Reads(c)
    /\ IsLeaseRequest(c) \/ IsActive(on[c])
    /\ Goto(c, "queued")
    /\ outcome' = IF IsLeaseRequest(c) THEN outcome
                                       ELSE [outcome EXCEPT ![c] = "admitted"]
    /\ UNCHANGED <<sessionVars, listenerVars, leaseVars, on, kind, client>>

\* The lease is not active, the session is deallocated, or no request arrives
\* because the client hung up or the listener's task group was cancelled.
GateRejects(c) ==
    /\ Reads(c)
    /\ \/ ~(IsLeaseRequest(c) \/ IsActive(on[c]))
       \/ on[c] \notin registry
       \/ client[c] = "closed"
       \/ cancelled[on[c]]
    /\ Goto(c, "replying")
    /\ UNCHANGED <<sessionVars, listenerVars, leaseVars, on, kind, client, outcome>>

TakeLease(c) ==
    /\ pc[c] = "queued"
    /\ QueueFree
    /\ kind[c] = "lease"
    /\ active' = [active EXCEPT ![on[c]] = TRUE]
    /\ outcome' = [outcome EXCEPT ![c] = "granted"]
    /\ Goto(c, "acking")
    /\ UNCHANGED <<sessionVars, listenerVars, released, on, kind, client>>

\* Mutant: accept does not look at active.
AcceptLeaseTwice(c) == TakeLease(c) /\ ~released[on[c]]

\* Mutant: accept does not look at released.
AcceptLeaseAfterRelease(c) == TakeLease(c) /\ ~active[on[c]]

\* BridgeLeaseRequest on commandQueue: BridgeLease.accept takes the lease.
AcceptLease(c) == TakeLease(c) /\ ~active[on[c]] /\ ~released[on[c]]

\* accept throws "bridge lease rejected".
RejectLease(c) ==
    /\ pc[c] = "queued"
    /\ QueueFree
    /\ IsLeaseRequest(c)
    /\ kind[c] = "forged" \/ active[on[c]] \/ released[on[c]]
    /\ Goto(c, "replying")
    /\ UNCHANGED <<sessionVars, listenerVars, leaseVars, on, kind, client, outcome>>

\* An answered command runs on commandQueue.  The lease is not looked at again.
RunCommand(c) ==
    /\ pc[c] = "queued"
    /\ QueueFree
    /\ kind[c] = "sync"
    /\ outcome' = [outcome EXCEPT ![c] = "ran"]
    /\ Goto(c, "replying")
    /\ UNCHANGED <<sessionVars, listenerVars, leaseVars, on, kind, client>>

\* A command with ack = false becomes a task of its own, off the queue.
SpawnCommand(c) ==
    /\ pc[c] = "queued"
    /\ QueueFree
    /\ kind[c] = "async"
    /\ outcome' = [outcome EXCEPT ![c] = "task"]
    /\ Goto(c, "replying")
    /\ UNCHANGED <<sessionVars, listenerVars, leaseVars, on, kind, client>>

RunSpawned(c) ==
    /\ outcome[c] = "task"
    /\ outcome' = [outcome EXCEPT ![c] = "ran"]
    /\ UNCHANGED <<sessionVars, listenerVars, leaseVars, pc, on, kind, client>>

\* The reply is sent or fails; either way the connection is over.
FinishReply(c) ==
    /\ pc[c] = "replying"
    /\ Goto(c, "done")
    /\ UNCHANGED <<sessionVars, listenerVars, leaseVars, on, kind, client, outcome>>

-----------------------------------------------------------------------------
(* The connection that was granted the lease: hold, release, teardown.     *)

AckHold(c) ==
    /\ pc[c] = "acking"
    /\ client[c] # "closed"
    /\ Goto(c, "holding")
    /\ UNCHANGED <<sessionVars, listenerVars, leaseVars, on, kind, client, outcome>>

\* send(holdReply.frame) throws: run() leaves before holdReply.hold.release().
AckHoldFails(c) ==
    /\ pc[c] = "acking"
    /\ client[c] = "closed" \/ cancelled[on[c]]
    /\ Goto(c, "done")
    /\ UNCHANGED <<sessionVars, listenerVars, leaseVars, on, kind, client, outcome>>

\* waitForClientCloseRejectingData returns or throws.
HoldEnds(c) ==
    /\ pc[c] = "holding"
    /\ client[c] # "open" \/ cancelled[on[c]]
    /\ Goto(c, "releasing")
    /\ UNCHANGED <<sessionVars, listenerVars, leaseVars, on, kind, client, outcome>>

\* Mutant: release forgets active = false.
ReleaseKeepsActive(c) ==
    /\ pc[c] = "releasing"
    /\ released' = [released EXCEPT ![on[c]] = TRUE]
    /\ Goto(c, IF released[on[c]] THEN "done" ELSE "removing")
    /\ UNCHANGED <<sessionVars, listenerVars, active, on, kind, client, outcome>>

\* Mutant: release gives the lease back instead of ending it.
ReleaseReopens(c) ==
    /\ pc[c] = "releasing"
    /\ active' = [active EXCEPT ![on[c]] = FALSE]
    /\ Goto(c, "removing")
    /\ UNCHANGED <<sessionVars, listenerVars, released, on, kind, client, outcome>>

\* BridgeLease.release, which calls onRelease only the first time.
Release(c) ==
    /\ pc[c] = "releasing"
    /\ released' = [released EXCEPT ![on[c]] = TRUE]
    /\ active' = IF released[on[c]] THEN active ELSE [active EXCEPT ![on[c]] = FALSE]
    /\ Goto(c, IF released[on[c]] THEN "done" ELSE "removing")
    /\ UNCHANGED <<sessionVars, listenerVars, on, kind, client, outcome>>

\* Mutant: removeSession drops the session and does not stop it.
RemoveSessionOnly(c) ==
    /\ pc[c] = "removing"
    /\ registry' = registry \ {on[c]}
    /\ Goto(c, "done")
    /\ UNCHANGED <<creation, listenerVars, leaseVars, on, kind, client, outcome>>

\* BridgeSessionManager.removeSession.
RemoveSession(c) ==
    /\ pc[c] = "removing"
    /\ registry' = registry \ {on[c]}
    /\ Goto(c, IF on[c] \in registry THEN "stopping" ELSE "done")
    /\ UNCHANGED <<creation, listenerVars, leaseVars, on, kind, client, outcome>>

\* Mutant: stop cancels the task and leaves the rest to it.
CancelTaskOnly(c) ==
    /\ pc[c] = "stopping"
    /\ cancelled' = [cancelled EXCEPT ![on[c]] = TRUE]
    /\ Goto(c, "done")
    /\ UNCHANGED <<sessionVars, startup, listener, path, leaseVars, on, kind, client, outcome>>

\* BridgeSession.stop: daemonTask.cancel().
CancelTask(c) ==
    /\ pc[c] = "stopping"
    /\ cancelled' = [cancelled EXCEPT ![on[c]] = TRUE]
    /\ Goto(c, "closing")
    /\ UNCHANGED <<sessionVars, startup, listener, path, leaseVars, on, kind, client, outcome>>

\* UnixSocketDaemon.stop: channel.close(mode: .all).wait().
CloseListener(c) ==
    /\ pc[c] = "closing"
    /\ listener' = [listener EXCEPT ![on[c]] = "closed"]
    /\ Goto(c, "unlinking")
    /\ UNCHANGED <<sessionVars, startup, path, cancelled, leaseVars, on, kind, client, outcome>>

\* UnixSocketDaemon.stop: removeItem(atPath: socketPath).
UnlinkPath(c) ==
    /\ pc[c] = "unlinking"
    /\ path' = [path EXCEPT ![on[c]] = FALSE]
    /\ Goto(c, "done")
    /\ UNCHANGED <<sessionVars, startup, listener, cancelled, leaseVars, on, kind, client, outcome>>

\* UnixSocketDaemon.run: the path monitor ends the listener when its path is
\* gone or its task is cancelled, and the rest of the task group is cancelled.
MonitorFires(b) ==
    /\ listener[b] = "open"
    /\ ~path[b] \/ cancelled[b]
    /\ listener' = [listener EXCEPT ![b] = "closed"]
    /\ cancelled' = [cancelled EXCEPT ![b] = TRUE]
    /\ UNCHANGED <<sessionVars, startup, path, leaseVars, connVars>>

-----------------------------------------------------------------------------
CreateStep(b) == Register(b) \/ Bind(b) \/ BindFails(b) \/ ReplyCreated(b) \/ CreateFails(b)

ListenerStep(b) == Serve(b) \/ RunFails(b) \/ MonitorFires(b)

EnvStep(c) ==
    \/ \E b \in Bridges, k \in Kinds : Connect(c, b, k)
    \/ ClientCloses(c)
    \/ ClientSendsExtra(c)

RequestStep(c) ==
    \/ GateAdmits(c) \/ GateRejects(c)
    \/ AcceptLease(c) \/ RejectLease(c)
    \/ RunCommand(c) \/ SpawnCommand(c)
    \/ FinishReply(c)

HolderStep(c) ==
    \/ AckHold(c) \/ AckHoldFails(c) \/ HoldEnds(c) \/ Release(c)
    \/ RemoveSession(c) \/ CancelTask(c) \/ CloseListener(c) \/ UnlinkPath(c)

Next ==
    \/ \E b \in Bridges : CreateStep(b) \/ ListenerStep(b) \/ PathTakenAway(b)
    \/ \E c \in Conns : EnvStep(c) \/ RequestStep(c) \/ RunSpawned(c) \/ HolderStep(c)

\* The daemon's tasks and threads keep running; clients and the file system promise
\* nothing.  A bridge-create that started goes on, a new one need not come.
Fairness ==
    /\ \A b \in Bridges :
        /\ WF_vars(Bind(b) \/ BindFails(b) \/ ReplyCreated(b) \/ CreateFails(b))
        /\ WF_vars(Serve(b) \/ RunFails(b) \/ MonitorFires(b))
    /\ \A c \in Conns :
        /\ WF_vars(RequestStep(c) \/ HolderStep(c))
        /\ WF_vars(RunSpawned(c))

Spec == Init /\ [][Next]_vars
FairSpec == Spec /\ Fairness

-----------------------------------------------------------------------------
(* Properties *)

\* The connections to b whose request had one of these outcomes.
On(b, outcomes) == {c \in Conns : on[c] = b /\ outcome[c] \in outcomes}

Holds(c, b) == on[c] = b /\ pc[c] \in HolderStages

\* A bridge's lease belongs to at most one connection, from BridgeLease.accept
\* until that connection has torn the bridge down.
LeaseExclusive ==
    \A c, d \in Conns, b \in Bridges : Holds(c, b) /\ Holds(d, b) => c = d

\* After BridgeLease.release no connection is granted, holds or waits on the
\* lease, whatever lease requests were read or queued before it.
ReleasedIsFinal ==
    \A b \in Bridges : released[b] =>
        /\ ~active[b]
        /\ \A c \in Conns : on[c] = b => pc[c] \notin GrantedStages

\* Registry, lease and listener agree: a created session leaves the registry
\* only once its lease is released, and an unregistered session's listener is
\* not closed, or its path still there, only while BridgeSession.stop is at it.
RegistryAgrees ==
    \A b \in Bridges : creation[b] = "created" =>
        /\ b \notin registry => released[b]
        /\ b \in registry /\ released[b] =>
              \E c \in Conns : on[c] = b /\ pc[c] = "removing"
        /\ b \notin registry /\ (listener[b] # "closed" \/ path[b]) =>
              \E c \in Conns : on[c] = b /\ pc[c] \in TeardownStages \ {"removing"}

\* A command runs on a bridge only if its lease was granted to some connection
\* at or before the moment the gate let the command in.
RanOnlyIfLeased ==
    \A c \in Conns : outcome[c] \in {"admitted", "task", "ran"} =>
        \E d \in Conns : on[d] = on[c] /\ outcome[d] = "granted"

\* Every active lease has a connection that will release it.
ActiveLeaseHasHolder ==
    \A b \in Bridges : active[b] => \E c \in Conns : Holds(c, b)

\* Where a connection stands agrees with the lease of its bridge.
ConnAgrees(c) ==
    /\ pc[c] = "idle" <=> on[c] = NoBridge
    /\ pc[c] \in {"idle", "reading"} => outcome[c] = "none"
    /\ pc[c] = "queued" => outcome[c] = IF IsLeaseRequest(c) THEN "none" ELSE "admitted"
    /\ outcome[c] = "granted" => kind[c] = "lease"
    /\ pc[c] \in HolderStages => outcome[c] = "granted"
    /\ pc[c] \in GrantedStages => active[on[c]]
    /\ pc[c] \in TeardownStages => released[on[c]]
    /\ on[c] # NoBridge /\ kind[c] = "lease" => creation[on[c]] = "created"

\* A lease is active or released exactly when a connection was granted it, and
\* by then the bridge-create that made it has been answered.
LeaseAgrees(b) ==
    /\ ~(active[b] /\ released[b])
    /\ active[b] \/ released[b] <=> On(b, {"granted"}) # {}
    /\ active[b] \/ released[b] => creation[b] = "created"
    /\ b \in registry => creation[b] \in {"registered", "created"}
    /\ creation[b] = "registered" => b \in registry

\* One connection was ever granted a bridge's lease, and everything above: what is
\* behind LeaseExclusive, ReleasedIsFinal, RanOnlyIfLeased and the refinement
\* (Bridge.swift, BridgeLease and BridgeSession).
LeaseInv ==
    /\ TypeOK
    /\ \A c \in Conns : ConnAgrees(c)
    /\ \A b \in Bridges : LeaseAgrees(b)
    /\ \A b \in Bridges : \A c, d \in On(b, {"granted"}) : c = d
    /\ RanOnlyIfLeased

\* A lease is lost, as in ActiveLeaseHasHolder's counterexample, only before it was
\* acknowledged: its client had gone or the listener was cancelled when the reply was
\* to be sent (ConnectionHandler.run).
LostUnacknowledged ==
    \A b \in Bridges : active[b] =>
        \E c \in Conns :
            \/ Holds(c, b)
            \/ c \in On(b, {"granted"}) /\ pc[c] = "done" /\ (client[c] = "closed" \/ cancelled[b])

Destroyed(b) == b \notin registry /\ listener[b] = "closed" /\ ~path[b]

\* Once nobody tears a released bridge down any more, nothing of it is left: no
\* registration, no open listener, no socket file (removeSession, stop).
TornDown ==
    \A b \in Bridges :
        released[b] /\ (\A c \in Conns : on[c] = b => pc[c] \notin TeardownStages) => Destroyed(b)

\* RegistryAgrees and the two above with what makes them inductive:
\* BridgeSession.stop closes the listener before it unlinks the path.
RegistryInv ==
    /\ RegistryAgrees
    /\ LostUnacknowledged
    /\ TornDown
    /\ \A c \in Conns : pc[c] = "unlinking" => listener[on[c]] = "closed"

\* The inductive invariant of the bridge sessions.
BridgeInv == LeaseInv /\ RegistryInv

\* When the client of an acknowledged hold goes away or sends data, or the listener
\* under it is lost, the bridge is destroyed: unregistered, closed and unlinked.
HoldEndDestroysBridge ==
    \A b \in Bridges :
        (\E c \in Conns : on[c] = b /\ pc[c] = "holding" /\ (client[c] # "open" \/ cancelled[b]))
            ~> Destroyed(b)

\* A lease request read by the daemon ends in a hold or in a closed connection,
\* and a command that was let in runs, even when the bridge is torn down under it.
RequestsComplete ==
    \A c \in Conns :
        /\ pc[c] \in {"queued", "replying", "acking"} ~> pc[c] \in {"done", "holding"}
        /\ outcome[c] \in {"admitted", "task"} ~> outcome[c] = "ran"

-----------------------------------------------------------------------------
(* Refinement: the bridge's lifecycle, seen from the outside. *)

phaseBar ==
    [b \in Bridges |->
        IF released[b] THEN "gone"
        ELSE IF active[b] THEN "leased"
        ELSE IF creation[b] = "created" THEN "open"
        ELSE "absent"]

Lifecycle == INSTANCE BridgeLifecycle WITH
    phase <- phaseBar,
    grantees <- [b \in Bridges |-> On(b, {"granted"})],
    admitted <- [b \in Bridges |-> On(b, {"admitted", "task", "ran"})],
    ran <- {c \in Conns : outcome[c] = "ran"}

\* The bridge sessions implement BridgeLifecycle.
ImplementsLifecycle == Lifecycle!Spec
=============================================================================
