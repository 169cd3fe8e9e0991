------------------------------ MODULE SshSession ------------------------------
(***************************************************************************)
(* gty ssh and gty herdr attach (wrapper.go, init.go, run.go,              *)
(* commands_herdr.go): after RemoteInstall a session has the host clean up *)
(* its sockets, takes a bridge and its lease from the local daemon, and    *)
(* runs OpenSSH with the bridge forwarded; an attach also holds a Ghostty  *)
(* key table while OpenSSH runs.                                           *)
(*                                                                         *)
(* A session's client, the tunnel's listener on the host, remote-init and  *)
(* remote-run are processes of their own: each may end without the others. *)
(* So is the local daemon: it grants and acknowledges a lease in steps of  *)
(* its own, and a request that was sent stays with it when its client ends.*)
(***************************************************************************)
EXTENDS RemoteInstall

VARIABLES
    at,         \* where each client stands
    sweep,      \* the sockets its remote-init has yet to probe
    doomed,     \* the socket it found dead and will remove
    found,      \* the dead sockets its listing had
    missed,     \* whether a probe took the session's socket for dead while it was bound
    file,       \* whether the session's remote socket file is there
    tunnel,     \* its listener on the host
    run,        \* its remote-run
    bridge,     \* its bridge in the local daemon
    link,       \* its end of the connection that asks for the lease and keeps it
    table,      \* whether the key table is active in its terminal
    lost        \* what came between it and the daemon: the reply to its activation,
                \* or the deactivation itself

sweepVars == <<sweep, doomed, found, missed>>
remoteVars == <<file, tunnel, run>>
leaseVars == <<bridge, link>>
tableVars == <<table, lost>>
localVars == <<leaseVars, tableVars>>
sessionVars == <<at, sweepVars, remoteVars, localVars>>
vars == <<installVars, sessionVars>>

Leased == {"setup", "activate", "start", "ssh", "release", "close"}
Places == {"install", "sweeping", "create", "hold", "plain", "ended", "killed"} \cup Leased
Up == {"bound", "listening"}

\* "granted": the daemon took the lease for the session and has not acknowledged it;
\* "orphan": it could not, and keeps an active lease that nothing will release.
Bridges == {"none", "open", "granted", "held", "orphan", "closed"}

TypeOK ==
    /\ at \in [Sessions -> Places]
    /\ sweep \in [Sessions -> SUBSET Sessions]
    /\ doomed \in [Sessions -> SUBSET Sessions]
    /\ found \in [Sessions -> SUBSET Sessions]
    /\ missed \in [Sessions -> BOOLEAN]
    /\ file \in [Sessions -> BOOLEAN]
    /\ tunnel \in [Sessions -> {"none", "connecting", "down"} \cup Up]
    /\ run \in [Sessions -> {"none", "running", "exited", "hungup", "failed"}]
    /\ bridge \in [Sessions -> Bridges]
    /\ link \in [Sessions -> {"none", "open", "closed"}]
    /\ table \in [Sessions -> BOOLEAN]
    /\ lost \in [Sessions -> {"nothing", "reply", "request"}]

Init ==
    /\ InstallInit
    /\ at = [s \in Sessions |-> "install"]
    /\ sweep = [s \in Sessions |-> {}]
    /\ doomed = [s \in Sessions |-> {}]
    /\ found = [s \in Sessions |-> {}]
    /\ missed = [s \in Sessions |-> FALSE]
    /\ file = [s \in Sessions |-> FALSE]
    /\ tunnel = [s \in Sessions |-> "none"]
    /\ run = [s \in Sessions |-> "none"]
    /\ bridge = [s \in Sessions |-> "none"]
    /\ link = [s \in Sessions |-> "none"]
    /\ table = [s \in Sessions |-> FALSE]
    /\ lost = [s \in Sessions |-> "nothing"]

Go(s, place) == at' = [at EXCEPT ![s] = place]
SetBridge(s, b) == bridge' = [bridge EXCEPT ![s] = b]
SetTable(s, on) == table' = [table EXCEPT ![s] = on]
SetLost(s, what) == lost' = [lost EXCEPT ![s] = what]

\* The client's end closes, and the daemon releases a lease it has acknowledged and
\* destroys its bridge (BridgeSession's HoldEndDestroysBridge).
CloseLink(s) ==
    /\ link' = [link EXCEPT ![s] = IF @ = "open" THEN "closed" ELSE @]
    /\ SetBridge(s, IF bridge[s] = "held" THEN "closed" ELSE bridge[s])

\* The client is through, and holds what it has not given back.
Over(s) == at[s] \in {"ended", "killed"} \/ step[s] = "killed"

\* RunSSH after a preparation that failed: plain SSH, unless the bridge is required,
\* as it always is for an attach.
Fallback(s) == Go(s, "ended") \/ (s \notin Attaches /\ Go(s, "plain"))

-----------------------------------------------------------------------------
(* remote-init: the host removes dead sockets and names a new one *)

\* cleanupDeadSockets lists the bridge sockets of the account.
List(s) ==
    /\ at[s] = "install"
    /\ step[s] = "ready"
    /\ sweep' = [sweep EXCEPT ![s] = {t \in Sessions : file[t]}]
    /\ found' = [found EXCEPT ![s] = {t \in Sessions : file[t] /\ tunnel[t] = "down"}]
    /\ Go(s, "sweeping")
    /\ UNCHANGED <<installVars, doomed, missed, remoteVars, localVars>>

\* Mutant: a socket file is taken for a live bridge.
ProbeLooks(s, t) ==
    /\ t \in sweep[s]
    /\ doomed[s] = {}
    /\ sweep' = [sweep EXCEPT ![s] = @ \ {t}]
    /\ doomed' = [doomed EXCEPT ![s] = IF file[t] THEN {} ELSE {t}]
    /\ UNCHANGED <<installVars, at, found, missed, remoteVars, localVars>>

\* Mutant: every socket of the listing is removed.
ProbeNothing(s, t) ==
    /\ t \in sweep[s]
    /\ doomed[s] = {}
    /\ sweep' = [sweep EXCEPT ![s] = @ \ {t}]
    /\ doomed' = [doomed EXCEPT ![s] = {t}]
    /\ UNCHANGED <<installVars, at, found, missed, remoteVars, localVars>>

\* socketAlive: a listener answers.  Its probe also fails when the listener has
\* bound and does not listen yet, or is too busy to take a connection.
Probe(s, t) ==
    /\ t \in sweep[s]
    /\ doomed[s] = {}
    /\ sweep' = [sweep EXCEPT ![s] = @ \ {t}]
    /\ \/ file[t] /\ tunnel[t] = "listening" /\ UNCHANGED <<doomed, missed>>
       \/ /\ doomed' = [doomed EXCEPT ![s] = {t}]
          /\ missed' = [missed EXCEPT ![t] = @ \/ (file[t] /\ tunnel[t] \in Up)]
    /\ UNCHANGED <<installVars, at, found, remoteVars, localVars>>

\* The removal comes later than the probe; a file that is gone is no error.
RemoveDead(s) ==
    /\ doomed[s] # {}
    /\ file' = [t \in Sessions |-> file[t] /\ t \notin doomed[s]]
    /\ doomed' = [doomed EXCEPT ![s] = {}]
    /\ UNCHANGED <<installVars, at, sweep, found, missed, tunnel, run, localVars>>

\* Any other error of the removal ends remote-init.
RemoveFails(s) ==
    /\ doomed[s] # {}
    /\ sweep' = [sweep EXCEPT ![s] = {}]
    /\ doomed' = [doomed EXCEPT ![s] = {}]
    /\ IF at[s] = "sweeping" THEN Fallback(s) ELSE UNCHANGED at
    /\ UNCHANGED <<installVars, found, missed, remoteVars, localVars>>

\* The client has the path of its socket.
SweepEnds(s) ==
    /\ at[s] = "sweeping"
    /\ sweep[s] = {} /\ doomed[s] = {}
    /\ Go(s, "create")
    /\ UNCHANGED <<installVars, sweepVars, remoteVars, localVars>>

\* There is no remote gty, or remote-init does not answer, which may go on there.
PrepareFails(s) ==
    /\ at[s] = "sweeping" \/ (at[s] = "install" /\ step[s] \in {"ready", "failed"})
    /\ Fallback(s)
    /\ UNCHANGED <<installVars, sweepVars, remoteVars, localVars>>

-----------------------------------------------------------------------------
(* The bridge of the local daemon and its lease *)

CreateBridge(s) ==
    /\ at[s] = "create"
    /\ SetBridge(s, "open")
    /\ Go(s, "hold")
    /\ UNCHANGED <<installVars, sweepVars, remoteVars, link, tableVars>>

\* bridge-create fails, or its reply is lost and the bridge stays without a lease.
CreateFails(s) ==
    /\ at[s] = "create"
    /\ \E b \in {"none", "open"} : SetBridge(s, b)
    /\ Fallback(s)
    /\ UNCHANGED <<installVars, sweepVars, remoteVars, link, tableVars>>

\* Hold connects to the bridge and sends the lease request.
AskLease(s) ==
    /\ at[s] = "hold"
    /\ link[s] = "none"
    /\ link' = [link EXCEPT ![s] = "open"]
    /\ UNCHANGED <<installVars, at, sweepVars, remoteVars, bridge, tableVars>>

\* The daemon takes the lease for a request it was sent, be its client there or not.
GrantLease(s) ==
    /\ link[s] # "none"
    /\ bridge[s] = "open"
    /\ SetBridge(s, "granted")
    /\ UNCHANGED <<installVars, at, sweepVars, remoteVars, link, tableVars>>

\* The daemon sends the hold's reply, to a client that may not come to read it.
AckLease(s) ==
    /\ bridge[s] = "granted"
    /\ link[s] = "open"
    /\ SetBridge(s, "held")
    /\ UNCHANGED <<installVars, at, sweepVars, remoteVars, link, tableVars>>

\* The reply cannot be sent, for the client is gone or the bridge's listener is lost:
\* the daemon leaves the connection and does not release what it granted.
AckFails(s) ==
    /\ bridge[s] = "granted"
    /\ SetBridge(s, "orphan")
    /\ UNCHANGED <<installVars, at, sweepVars, remoteVars, link, tableVars>>

\* The client reads the reply.
Hold(s) ==
    /\ at[s] = "hold"
    /\ bridge[s] = "held"
    /\ Go(s, IF s \in Attaches THEN "setup" ELSE "start")
    /\ UNCHANGED <<installVars, sweepVars, remoteVars, localVars>>

\* Mutant: Hold leaves its connection open when the reply does not come.
HoldFailsOpen(s) ==
    /\ at[s] = "hold"
    /\ Fallback(s)
    /\ UNCHANGED <<installVars, sweepVars, remoteVars, localVars>>

\* The connection, the request or its reply fails, wherever the daemon is by then:
\* Hold closes its end.
HoldFails(s) ==
    /\ at[s] = "hold"
    /\ CloseLink(s)
    /\ Fallback(s)
    /\ UNCHANGED <<installVars, sweepVars, remoteVars, tableVars>>

\* The daemon ends, and all bridges with it; clients are not told.
BridgeDies(s) ==
    /\ bridge[s] \notin {"none", "closed"}
    /\ SetBridge(s, "closed")
    /\ UNCHANGED <<installVars, at, sweepVars, remoteVars, link, tableVars>>

-----------------------------------------------------------------------------
(* herdr attach: setup on the host, and the key table *)

Setup(s) ==
    /\ at[s] = "setup"
    /\ Go(s, "activate") \/ Go(s, "close")
    /\ UNCHANGED <<installVars, sweepVars, remoteVars, localVars>>

ActivateKeyTable(s) ==
    /\ at[s] = "activate"
    /\ SetTable(s, TRUE)
    /\ Go(s, "start")
    /\ UNCHANGED <<installVars, sweepVars, remoteVars, leaseVars, lost>>

\* The call fails before its deactivation is deferred: the daemon did not activate
\* the table, or it did and the reply was lost.
ActivateFails(s) ==
    /\ at[s] = "activate"
    /\ \/ UNCHANGED tableVars
       \/ SetTable(s, TRUE) /\ SetLost(s, "reply")
    /\ Go(s, "close")
    /\ UNCHANGED <<installVars, sweepVars, remoteVars, leaseVars>>

DeactivateKeyTable(s) ==
    /\ at[s] = "release"
    /\ SetTable(s, FALSE)
    /\ Go(s, "close")
    /\ UNCHANGED <<installVars, sweepVars, remoteVars, leaseVars, lost>>

\* The deferred call fails and its error is dropped: the daemon deactivated the table
\* and only the reply was lost, or it did not get or do what was asked.
DeactivateFails(s) ==
    /\ at[s] = "release"
    /\ \/ SetTable(s, FALSE) /\ UNCHANGED lost
       \/ SetLost(s, "request") /\ UNCHANGED table
    /\ Go(s, "close")
    /\ UNCHANGED <<installVars, sweepVars, remoteVars, leaseVars>>

-----------------------------------------------------------------------------
(* OpenSSH, its tunnel and remote-run *)

\* Mutant: an attach whose OpenSSH is over closes its lease only.
AfterSshCloses(s) == Go(s, "close")

\* The deferred calls: an attach gives its key table back first.
AfterSsh(s) == Go(s, IF s \in Attaches THEN "release" ELSE "close")

StartSsh(s) ==
    /\ at[s] = "start"
    /\ \/ Go(s, "ssh") /\ tunnel' = [tunnel EXCEPT ![s] = "connecting"]
       \/ AfterSsh(s) /\ UNCHANGED tunnel
    /\ UNCHANGED <<installVars, sweepVars, file, run, localVars>>

\* The host's sshd unlinks the path and binds it: StreamLocalBindUnlink.
Bind(s) ==
    /\ tunnel[s] = "connecting"
    /\ tunnel' = [tunnel EXCEPT ![s] = "bound"]
    /\ file' = [file EXCEPT ![s] = TRUE]
    /\ UNCHANGED <<installVars, at, sweepVars, run, localVars>>

Listen(s) ==
    /\ tunnel[s] = "bound"
    /\ tunnel' = [tunnel EXCEPT ![s] = "listening"]
    /\ UNCHANGED <<installVars, at, sweepVars, file, run, localVars>>

\* The remote command is the chosen gty, if that still runs.
RunStarts(s) ==
    /\ tunnel[s] = "listening"
    /\ run[s] = "none"
    /\ LET runs == chosen[s] = "path" \/ managed \in Versions
       IN  run' = [run EXCEPT ![s] = IF runs THEN "running" ELSE "failed"]
    /\ UNCHANGED <<installVars, at, sweepVars, file, tunnel, localVars>>

\* Run returns: the deferred removal of its socket, with or without a tunnel.
RunEnds(s) ==
    /\ run[s] = "running"
    /\ run' = [run EXCEPT ![s] = "exited"]
    /\ file' = [file EXCEPT ![s] = FALSE]
    /\ UNCHANGED <<installVars, at, sweepVars, tunnel, localVars>>

\* The forwarding is refused, the connection is lost, or the command is over.  The
\* listener leaves its file; a remote-run with a pty is hung up before it removes it.
TunnelEnds(s) ==
    /\ tunnel[s] \in {"connecting"} \cup Up
    /\ tunnel' = [tunnel EXCEPT ![s] = "down"]
    /\ \/ UNCHANGED run
       \/ run[s] = "running" /\ run' = [run EXCEPT ![s] = "hungup"]
    /\ UNCHANGED <<installVars, at, sweepVars, file, localVars>>

\* OpenSSH returns; the host may learn of it later.  A signal the attach handles
\* goes to OpenSSH, and ends it here too.
SshReturns(s) ==
    /\ at[s] = "ssh"
    /\ AfterSsh(s)
    /\ UNCHANGED <<installVars, sweepVars, remoteVars, localVars>>

\* Mutant: Close waits for a bridge that may be gone.
CloseLeaseOfBridge(s) ==
    /\ at[s] = "close"
    /\ bridge[s] = "held"
    /\ CloseLink(s)
    /\ Go(s, "ended")
    /\ UNCHANGED <<installVars, sweepVars, remoteVars, tableVars>>

\* PreparedBridge.Close.
CloseLease(s) ==
    /\ at[s] = "close"
    /\ CloseLink(s)
    /\ Go(s, "ended")
    /\ UNCHANGED <<installVars, sweepVars, remoteVars, tableVars>>

PlainEnds(s) ==
    /\ at[s] = "plain"
    /\ Go(s, "ended")
    /\ UNCHANGED <<installVars, sweepVars, remoteVars, localVars>>

\* A signal nobody handles: the system closes the client's connections.  A call that
\* is under way may have reached the daemon, which then does what it asks.
Killed(s) ==
    /\ at[s] \notin {"ended", "killed"}
    /\ at[s] = "install" => step[s] \in {"ready", "failed"}
    /\ \/ CloseLink(s)
       \/ at[s] = "create" /\ SetBridge(s, "open") /\ UNCHANGED link
    /\ \/ UNCHANGED table
       \/ at[s] = "activate" /\ SetTable(s, TRUE)
       \/ at[s] = "release" /\ SetTable(s, FALSE)
    /\ Go(s, "killed")
    /\ UNCHANGED <<installVars, sweepVars, remoteVars, lost>>

-----------------------------------------------------------------------------
Install(s) == InstallNext(s) /\ UNCHANGED sessionVars

Sweep(s) == \/ List(s) \/ RemoveDead(s) \/ RemoveFails(s) \/ SweepEnds(s) \/ PrepareFails(s)
            \/ \E t \in Sessions : Probe(s, t)
Lease(s) == CreateBridge(s) \/ CreateFails(s) \/ AskLease(s) \/ Hold(s) \/ HoldFails(s) \/ CloseLease(s)
Daemon(s) == GrantLease(s) \/ AckLease(s) \/ AckFails(s) \/ BridgeDies(s)
KeyTable(s) == \/ Setup(s) \/ ActivateKeyTable(s) \/ ActivateFails(s)
               \/ DeactivateKeyTable(s) \/ DeactivateFails(s)
Ssh(s) == StartSsh(s) \/ SshReturns(s) \/ PlainEnds(s) \/ Killed(s)
Remote(s) == Bind(s) \/ Listen(s) \/ RunStarts(s) \/ RunEnds(s) \/ TunnelEnds(s)

Next == \E s \in Sessions :
    \/ Install(s) \/ Sweep(s) \/ Lease(s) \/ Daemon(s)
    \/ KeyTable(s) \/ Ssh(s) \/ Remote(s)

Spec == Init /\ [][Next]_vars

\* OpenSSH returns once its tunnel is down, the tunnel ends with the remote command,
\* and the deferred calls run.  No other call need come back.
FairSpec ==
    /\ Spec
    /\ \A s \in Sessions :
        /\ WF_vars(tunnel[s] = "down" /\ SshReturns(s))
        /\ WF_vars(run[s] \in {"exited", "failed"} /\ TunnelEnds(s))
        /\ WF_vars(DeactivateKeyTable(s) \/ DeactivateFails(s))
        /\ WF_vars(CloseLease(s))

-----------------------------------------------------------------------------
(* Properties *)

\* A socket whose listener is up keeps its file until its own remote-run removes it,
\* however many sessions clean up, except for a probe that met it before it listened
\* or while it was busy.
ListenerKeepsPath ==
    \A t \in Sessions : tunnel[t] \in Up /\ ~file[t] => missed[t] \/ run[t] = "exited"

\* cleanupDeadSockets leaves no dead socket of its listing behind: a session that
\* goes on to its bridge has removed the sockets of every session that died before.
DeadSwept ==
    \A s \in Sessions : at[s] \in {"create", "hold"} \cup Leased => \A t \in found[s] : ~file[t]

\* The daemon runs commands for the session's bridge.
LeaseActive(s) == bridge[s] \in {"granted", "held", "orphan"}

\* A session that is over has closed its connection.  Its lease is active only if the
\* daemon never acknowledged it: granted, before or after the client's end, to a
\* client that had read no reply and forwarded nothing (Hold, ConnectionHandler.run).
\* Its key table is active only if the client was killed, if the reply to the
\* activation was lost and OpenSSH was not even started, or if the deactivation was not
\* carried out.
Released ==
    \A s \in Sessions : Over(s) =>
        /\ link[s] # "open"
        /\ LeaseActive(s) => bridge[s] # "held" /\ tunnel[s] = "none"
        /\ table[s] => \/ at[s] = "killed" \/ lost[s] = "request"
                       \/ lost[s] = "reply" /\ tunnel[s] = "none"

\* The client goes by the reply alone: past Hold its lease was acknowledged, and is
\* active until its connection closes or the daemon ends.
SessionInv(s) ==
    /\ at[s] # "install" => step[s] \in {"ready", "failed"}
    /\ at[s] = "hold" => bridge[s] # "none"
    /\ at[s] \in Leased => bridge[s] \in {"held", "closed"} /\ link[s] = "open"
    /\ bridge[s] = "held" => at[s] \in Leased \cup {"hold"} /\ link[s] = "open"
    /\ tunnel[s] # "none" => bridge[s] \in {"held", "closed"}
    /\ link[s] = "open" => at[s] \in Leased \cup {"hold"}
    /\ link[s] # "none" => bridge[s] # "none" /\ at[s] \notin {"install", "sweeping", "create"}
    /\ LeaseActive(s) => link[s] # "none"
    /\ bridge[s] # "none" => at[s] \notin {"install", "sweeping", "create"}
    /\ lost[s] = "reply" => at[s] \in {"close", "ended", "killed"} /\ tunnel[s] = "none"
    /\ lost[s] = "request" => at[s] \in {"close", "ended", "killed"}
    /\ at[s] \in {"setup", "activate", "release"} => s \in Attaches
    /\ table[s] => s \in Attaches /\ (at[s] \in {"start", "ssh", "release", "killed"} \/ lost[s] # "nothing")
    /\ at[s] \notin {"ssh", "release", "close", "ended", "killed"} => tunnel[s] = "none"
    /\ file[s] => tunnel[s] \in Up \cup {"down"}

SweepInv(s) ==
    /\ at[s] = "sweeping" => {t \in found[s] : file[t]} \subseteq sweep[s] \cup doomed[s]
    /\ \A t \in sweep[s] \cup doomed[s] : tunnel[t] \in Up \cup {"down"}
    /\ \A t \in doomed[s] : file[t] /\ tunnel[t] \in Up => missed[t]
    /\ \A t \in found[s] : tunnel[t] = "down"

\* What makes these inductive.
SshInv ==
    /\ TypeOK
    /\ InstallInv
    /\ ListenerKeepsPath
    /\ DeadSwept
    /\ Released
    /\ \A s \in Sessions : SessionInv(s) /\ SweepInv(s)

\* The end of the tunnel or of the remote command ends the session and frees its
\* lease, whichever of its replies are lost.
EndReleases ==
    \A s \in Sessions :
        (tunnel[s] = "down" \/ run[s] \in {"exited", "failed"}) ~> (Over(s) /\ ~LeaseActive(s))
=============================================================================
