-------------------------- MODULE SocketPathMonitor --------------------------
(***************************************************************************)
(* The monitor that ends a listener when its socket path is removed or     *)
(* replaced (SocketPathMonitor.swift), with the listener's task that makes *)
(* it, starts it and waits on it (UnixSocketDaemon.run).                   *)
(*                                                                         *)
(* Three threads may call finish at once: the listener's task from start,  *)
(* the event source's queue, and the cancellation handler of the waiting   *)
(* task.  A step is one critical section, or one call outside of it.       *)
(* Bridges keep their sockets in one directory, and the source reports     *)
(* every change of that directory.                                         *)
(***************************************************************************)
EXTENDS Naturals

CONSTANTS Files,       \* what the path may name; files are told apart by device and inode
          Gone,        \* the path names nothing
          MaxChanges   \* how often the directory changes

ASSUME MonitorAssumption ==
    /\ Gone \notin Files
    /\ MaxChanges \in Nat

VARIABLES
    path,       \* what the path names
    changes,    \* the changes of the directory so far
    touched,    \* whether the path changed since the monitor was made
    identity,   \* SocketPathMonitor.identity
    stage,      \* where UnixSocketDaemon.run stands
    listener,   \* the server channel
    cancelled,  \* whether the task that waits was cancelled
    state,      \* SocketPathMonitor.state
    resumes,    \* how often the event source was resumed; sourceStarted is resumes > 0
    source,     \* whether the event source was cancelled
    pending,    \* a directory event the source's queue has not handled
    waiter,     \* the task in waitUntilChanged
    wakes,      \* how often its continuation was resumed
    at,         \* where each thread stands in finishIfChanged and finish
    took        \* whether it took the continuation out of the state

world == <<path, changes, touched>>
runVars == <<identity, stage, listener, cancelled>>
sourceVars == <<resumes, source, pending>>
waitVars == <<waiter, wakes>>
vars == <<world, runVars, state, sourceVars, waitVars, at, took>>

Threads == {"start", "event", "cancel"}
States == {"idle", "armed", "waiting", "finished"}
FinishStages == {"resume", "cancel", "wake"}
ThreadStages == {"ready", "check", "claim", "resume", "cancel", "wake", "over"}

TypeOK ==
    /\ path \in Files \cup {Gone}
    /\ changes \in 0..MaxChanges
    /\ touched \in BOOLEAN
    /\ identity \in Files \cup {Gone}
    /\ stage \in {"bound", "made", "armed", "starting", "serving", "ended"}
    /\ listener \in {"open", "closed"}
    /\ cancelled \in BOOLEAN
    /\ state \in States
    /\ resumes \in Nat
    /\ source \in {"live", "cancelled"}
    /\ pending \in BOOLEAN
    /\ waiter \in {"none", "entering", "suspended", "resumed"}
    /\ wakes \in Nat
    /\ at \in [Threads -> ThreadStages]
    /\ took \in [Threads -> BOOLEAN]

Init ==
    /\ path \in Files
    /\ changes = 0
    /\ touched = FALSE
    /\ identity = Gone
    /\ stage = "bound"
    /\ listener = "open"
    /\ cancelled = FALSE
    /\ state = "idle"
    /\ resumes = 0
    /\ source = "live"
    /\ pending = FALSE
    /\ waiter = "none"
    /\ wakes = 0
    /\ at = [t \in Threads |-> "ready"]
    /\ took = [t \in Threads |-> FALSE]

Goto(t, place) == at' = [at EXCEPT ![t] = place]

-----------------------------------------------------------------------------
(* The environment *)

\* Something in the socket's directory changes; a source that runs has an event.
DirectoryChanges ==
    /\ changes < MaxChanges
    /\ changes' = changes + 1
    /\ pending' = (pending \/ (resumes > 0 /\ source = "live"))
    /\ UNCHANGED <<runVars, state, resumes, source, waitVars, at, took>>

\* The socket file is removed, replaced or put back.
PathChanges ==
    /\ DirectoryChanges
    /\ \E p \in (Files \cup {Gone}) \ {path} : path' = p
    /\ touched' = (touched \/ identity # Gone)

\* Another entry of the directory changes: the socket of another bridge.
NeighbourChanges == DirectoryChanges /\ UNCHANGED <<path, touched>>

\* BridgeSession.stop cancels the listener's task, at any moment.
CancelListener ==
    /\ ~cancelled
    /\ cancelled' = TRUE
    /\ UNCHANGED <<world, identity, stage, listener, state, sourceVars, waitVars, at, took>>

-----------------------------------------------------------------------------
(* UnixSocketDaemon.run *)

\* SocketPathMonitor.init reads the identity of what the path names now.
MakeMonitor ==
    /\ stage = "bound"
    /\ path # Gone
    /\ identity' = path
    /\ stage' = "made"
    /\ UNCHANGED <<world, listener, cancelled, state, sourceVars, waitVars, at, took>>

\* stat or open fails: run throws, and nobody closes the channel.
MakeMonitorFails ==
    /\ stage = "bound"
    /\ stage' = "ended"
    /\ UNCHANGED <<world, identity, listener, cancelled, state, sourceVars, waitVars, at, took>>

\* start: idle -> armed.
Start ==
    /\ stage = "made"
    /\ state = "idle"
    /\ state' = "armed"
    /\ stage' = "armed"
    /\ UNCHANGED <<world, identity, listener, cancelled, sourceVars, waitVars, at, took>>

\* Mutant: start looks at the path only before it resumes the source.
ArmWithoutCheck ==
    /\ stage = "armed"
    /\ resumes' = 1
    /\ stage' = "starting"
    /\ Goto("start", "over")
    /\ UNCHANGED <<world, identity, listener, cancelled, state, source, pending, waitVars, took>>

\* start: resumeOnce, then finishIfChanged.
Arm ==
    /\ stage = "armed"
    /\ resumes' = IF resumes = 0 THEN 1 ELSE resumes
    /\ stage' = "starting"
    /\ Goto("start", "check")
    /\ UNCHANGED <<world, identity, listener, cancelled, state, source, pending, waitVars, took>>

\* start returns stateIsActive(): the task group waits and accepts, or run ends.
Started ==
    /\ stage = "starting"
    /\ at["start"] = "over"
    /\ IF state = "finished"
       THEN stage' = "ended" /\ listener' = "closed" /\ UNCHANGED waiter
       ELSE stage' = "serving" /\ waiter' = "entering" /\ UNCHANGED listener
    /\ UNCHANGED <<world, identity, cancelled, state, sourceVars, wakes, at, took>>

\* wait(continuation): it is stored, or resumed at once.
Wait ==
    /\ waiter = "entering"
    /\ \/ /\ state = "armed"
          /\ state' = "waiting"
          /\ waiter' = "suspended"
          /\ UNCHANGED wakes
       \/ /\ state = "finished"
          /\ waiter' = "resumed"
          /\ wakes' = wakes + 1
          /\ UNCHANGED state
    /\ UNCHANGED <<world, runVars, sourceVars, at, took>>

\* The waiting task closes the channel; it ends, and so does the group.
WaiterCloses ==
    /\ stage = "serving"
    /\ waiter = "resumed"
    /\ listener' = "closed"
    /\ cancelled' = TRUE
    /\ stage' = "ended"
    /\ UNCHANGED <<world, identity, state, sourceVars, waitVars, at, took>>

\* acceptClients ends, cancelled or by an error: the channel closes and the
\* group cancels the waiting task.
AcceptEnds ==
    /\ stage = "serving"
    /\ listener = "open"
    /\ listener' = "closed"
    /\ cancelled' = TRUE
    /\ UNCHANGED <<world, identity, stage, state, sourceVars, waitVars, at, took>>

-----------------------------------------------------------------------------
(* finishIfChanged and finish, by any of the threads *)

\* The event handler runs on the source's queue, one at a time.
HandleEvent ==
    /\ at["event"] = "ready"
    /\ pending
    /\ pending' = FALSE
    /\ Goto("event", "check")
    /\ UNCHANGED <<world, runVars, state, resumes, source, waitVars, took>>

\* onCancel of the waiting task.
HandleCancel ==
    /\ at["cancel"] = "ready"
    /\ cancelled
    /\ waiter \in {"entering", "suspended"}
    /\ Goto("cancel", "claim")
    /\ UNCHANGED <<world, runVars, state, sourceVars, waitVars, took>>

\* The event handler's next call may come once this one is over.
Over(t) == Goto(t, IF t = "event" THEN "ready" ELSE "over")

\* Mutant: every event of the directory finishes the monitor.
CheckNothing(t) ==
    /\ at[t] = "check"
    /\ Goto(t, "claim")
    /\ UNCHANGED <<world, runVars, state, sourceVars, waitVars, took>>

\* pathChanged(), outside of the lock.
Check(t) ==
    /\ at[t] = "check"
    /\ IF path # identity THEN Goto(t, "claim") ELSE Over(t)
    /\ UNCHANGED <<world, runVars, state, sourceVars, waitVars, took>>

\* Mutant: finish leaves the continuation in the state.
ClaimKeepsState(t) ==
    /\ at[t] = "claim"
    /\ state' = IF state = "waiting" THEN state ELSE "finished"
    /\ IF state = "finished"
       THEN Over(t) /\ UNCHANGED took
       ELSE Goto(t, "resume") /\ took' = [took EXCEPT ![t] = (state = "waiting")]
    /\ UNCHANGED <<world, runVars, sourceVars, waitVars>>

\* Mutant: finish drops the continuation of a state it finishes.
ClaimDrops(t) ==
    /\ at[t] = "claim"
    /\ state' = "finished"
    /\ IF state = "finished" THEN Over(t) ELSE Goto(t, "resume")
    /\ UNCHANGED <<world, runVars, sourceVars, waitVars, took>>

\* finish under the lock: the first thread here takes the continuation.
Claim(t) ==
    /\ at[t] = "claim"
    /\ state' = "finished"
    /\ IF state = "finished"
       THEN Over(t) /\ UNCHANGED took
       ELSE Goto(t, "resume") /\ took' = [took EXCEPT ![t] = (state = "waiting")]
    /\ UNCHANGED <<world, runVars, sourceVars, waitVars>>

\* Mutant: resumeOnce does not look at sourceStarted.
ResumeAgain(t) ==
    /\ at[t] = "resume"
    /\ resumes' = resumes + 1
    /\ Goto(t, "cancel")
    /\ UNCHANGED <<world, runVars, state, source, pending, waitVars, took>>

\* resumeOnce: a source must run before it is cancelled and released.
ResumeSource(t) ==
    /\ at[t] = "resume"
    /\ resumes' = IF resumes = 0 THEN 1 ELSE resumes
    /\ Goto(t, "cancel")
    /\ UNCHANGED <<world, runVars, state, source, pending, waitVars, took>>

\* eventSource.cancel(): no event handler starts any more.
CancelSource(t) ==
    /\ at[t] = "cancel"
    /\ source' = "cancelled"
    /\ pending' = FALSE
    /\ Goto(t, "wake")
    /\ UNCHANGED <<world, runVars, state, resumes, waitVars, took>>

\* result.continuation?.resume()
Wake(t) ==
    /\ at[t] = "wake"
    /\ IF took[t] THEN waiter' = "resumed" /\ wakes' = wakes + 1 ELSE UNCHANGED waitVars
    /\ Over(t)
    /\ UNCHANGED <<world, runVars, state, sourceVars, took>>

-----------------------------------------------------------------------------
RunStep == MakeMonitor \/ MakeMonitorFails \/ Start \/ Arm \/ Started \/ WaiterCloses
FinishStep(t) == Check(t) \/ Claim(t) \/ ResumeSource(t) \/ CancelSource(t) \/ Wake(t)

Next ==
    \/ PathChanges \/ NeighbourChanges \/ CancelListener \/ AcceptEnds
    \/ RunStep \/ Wait
    \/ HandleEvent \/ HandleCancel
    \/ \E t \in Threads : FinishStep(t)

Spec == Init /\ [][Next]_vars

\* The tasks and the source's queue run; the directory need not change, and the
\* accept loop need not end.
FairSpec ==
    /\ Spec
    /\ WF_vars(RunStep) /\ WF_vars(Wait)
    /\ WF_vars(HandleEvent) /\ WF_vars(HandleCancel)
    /\ \A t \in Threads : WF_vars(FinishStep(t))

-----------------------------------------------------------------------------
(* Properties *)

Finishing(t) == at[t] \in FinishStages

\* The continuation is resumed once: while its task is suspended, the state
\* holds it or exactly one thread of finish does.
WaiterOwned ==
    /\ wakes = IF waiter = "resumed" THEN 1 ELSE 0
    /\ waiter = "suspended" => (state = "waiting" \/ \E t \in Threads : Finishing(t) /\ took[t])
    /\ \A t, u \in Threads : Finishing(t) /\ Finishing(u) => t = u

\* The source is resumed once, by start or by finish, and before it is
\* cancelled: libdispatch traps on the rest.
SourceBalanced ==
    /\ resumes <= 1
    /\ source = "cancelled" => resumes = 1

\* Only a change of the path itself, or a cancellation, finishes the monitor: the
\* sockets of other bridges come and go in the same directory.
NoSpuriousEnd == state = "finished" => touched \/ cancelled

ThreadInv(t) ==
    /\ at[t] = "claim" => touched \/ cancelled
    /\ Finishing(t) => state = "finished" /\ (took[t] => waiter = "suspended")
    /\ at[t] = "cancel" => resumes = 1

\* No change is missed on its way to the waiter, whether it comes before the source is
\* resumed, while an event is handled or while finish runs: a listener is not left
\* waiting at a path that is gone.
Noticing(t) == at[t] \in {"check", "claim"}
NoChangeMissed ==
    stage = "serving" /\ path # identity =>
        \/ pending \/ \E t \in Threads : Noticing(t) \/ (Finishing(t) /\ took[t])
        \/ waiter \in {"entering", "resumed"} /\ state = "finished"

\* Nothing runs before init; state, waiter and threads agree on who has the
\* continuation.
FinishInv ==
    /\ TypeOK
    /\ WaiterOwned
    /\ SourceBalanced
    /\ NoSpuriousEnd
    /\ \A t \in Threads : ThreadInv(t)
    /\ identity = Gone =>
          /\ stage \in {"bound", "ended"} /\ waiter = "none"
          /\ resumes = 0 /\ ~pending
          /\ \A t \in Threads : at[t] = "ready"
    /\ ~touched /\ identity # Gone => path = identity
    /\ stage \in {"bound", "made", "armed", "starting"} => waiter = "none"
    /\ stage \in {"armed", "starting", "serving"} => state # "idle"
    /\ pending => resumes > 0
    /\ waiter = "entering" => state \in {"armed", "finished"}
    /\ state = "waiting" => waiter = "suspended"

\* Once the source runs, a path that is not the one init read is an event to come, a
\* thread about to look or to finish, or a monitor that has finished.
ChangeInv ==
    /\ resumes > 0 /\ path # identity =>
          pending \/ state = "finished" \/ \E t \in Threads : Noticing(t)
    /\ stage \in {"starting", "serving"} => resumes > 0
    /\ stage = "serving" => waiter # "none"
    /\ source = "cancelled" => state = "finished"

\* The four properties above with what makes them inductive.
MonitorInv == FinishInv /\ ChangeInv /\ NoChangeMissed

\* A path that changes for good closes the listener, whenever after init it
\* changes: before start, between its steps, or under the waiter.
ChangeEndsListener == <>[](identity # Gone /\ path # identity) => <>(listener = "closed")

\* A cancelled waiter does not stay suspended: BridgeSession.stop ends the task.
CancelEndsWaiter == (cancelled /\ stage = "serving") ~> waiter = "resumed"
=============================================================================
