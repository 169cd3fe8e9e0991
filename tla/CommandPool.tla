----------------------------- MODULE CommandPool -----------------------------
(***************************************************************************)
(* The threads that serve ghosttykitd's connections.  Every connection     *)
(* handler, bridge listener and no-ack command is a Swift task, and tasks  *)
(* share a pool of a fixed number of threads.  A handler calls             *)
(* commandQueue.sync, which keeps its thread while it waits for the serial *)
(* queue (App.swift); bridge-create goes on to wait on a semaphore, with   *)
(* the queue and the thread, for a task that binds the bridge's socket     *)
(* (UnixSocketDaemon.startDetached) and needs a thread itself.             *)
(*                                                                         *)
(* A task that suspends (await) gives its thread back; work that neither   *)
(* blocks nor suspends is one step that needs a thread to be free.         *)
(***************************************************************************)
EXTENDS Naturals, Sequences, FiniteSets

CONSTANTS Conns,    \* connections, one request each
          Threads,  \* how many threads the pool has
          NoConn    \* commandQueue is idle

ASSUME PoolAssumption ==
    /\ IsFiniteSet(Conns)
    /\ Threads \in Nat \ {0}
    /\ NoConn \notin Conns

VARIABLES
    kind,     \* "sync" is answered, "async" has ack = false, "create" is bridge-create
    stage,    \* where the connection's handler stands
    waiting,  \* the handlers inside commandQueue.sync, in order
    owner,    \* the handler whose block runs on commandQueue
    task,     \* the task a request made: a no-ack command or a bridge's listener
    startup   \* what startDetached's task stored before it signalled

vars == <<kind, stage, waiting, owner, task, startup>>

Kinds == {"sync", "async", "create"}

\* "blocked", "running" and "starting" keep a thread, "starting" in semaphore.wait.
OnQueue == {"running", "starting"}
Stages == {"reading", "runnable", "blocked", "sending", "done"} \cup OnQueue
TaskStages == {"none", "runnable", "working", "binding", "bound", "done"}

TypeOK ==
    /\ kind \in [Conns -> Kinds]
    /\ stage \in [Conns -> Stages]
    /\ waiting \in Seq(Conns)
    /\ owner \in Conns \cup {NoConn}
    /\ task \in [Conns -> TaskStages]
    /\ startup \in [Conns -> {"none", "ok", "failed"}]

Init ==
    /\ kind \in [Conns -> Kinds]
    /\ stage = [c \in Conns |-> "reading"]
    /\ waiting = <<>>
    /\ owner = NoConn
    /\ task = [c \in Conns |-> "none"]
    /\ startup = [c \in Conns |-> "none"]

\* A thread of the pool is free.
Occupied == {c \in Conns : stage[c] \in OnQueue \cup {"blocked"}}
Working == {c \in Conns : task[c] = "working"}
ThreadFree == Cardinality(Occupied) + Cardinality(Working) < Threads

Goto(c, s) == stage' = [stage EXCEPT ![c] = s]
TaskTo(c, s) == task' = [task EXCEPT ![c] = s]
Leave(c) == Goto(c, "sending") /\ owner' = NoConn

-----------------------------------------------------------------------------
(* A connection's handler *)

\* The client's whole request frame is there: readCommand resumes.
RequestArrives(c) ==
    /\ stage[c] = "reading"
    /\ Goto(c, "runnable")
    /\ UNCHANGED <<kind, waiting, owner, task, startup>>

\* The handler gets a thread and calls commandQueue.sync.
CallSync(c) ==
    /\ stage[c] = "runnable"
    /\ ThreadFree
    /\ Goto(c, "blocked")
    /\ waiting' = Append(waiting, c)
    /\ UNCHANGED <<kind, owner, task, startup>>

\* Mutant: commandQueue is a concurrent queue.
EnterConcurrent(c) ==
    /\ stage[c] = "blocked"
    /\ c = Head(waiting)
    /\ waiting' = Tail(waiting)
    /\ owner' = c
    /\ Goto(c, "running")
    /\ UNCHANGED <<kind, task, startup>>

EnterQueue(c) ==
    /\ stage[c] = "blocked"
    /\ owner = NoConn
    /\ c = Head(waiting)
    /\ waiting' = Tail(waiting)
    /\ owner' = c
    /\ Goto(c, "running")
    /\ UNCHANGED <<kind, task, startup>>

\* An answered command runs on the queue, to its reply.
RunCommand(c) ==
    /\ stage[c] = "running"
    /\ kind[c] = "sync"
    /\ Leave(c)
    /\ UNCHANGED <<kind, waiting, task, startup>>

\* dispatch makes a task for a no-ack command and returns.
SpawnTask(c) ==
    /\ stage[c] = "running"
    /\ kind[c] = "async"
    /\ TaskTo(c, "runnable")
    /\ Leave(c)
    /\ UNCHANGED <<kind, waiting, startup>>

\* createBridge reaches startDetached, which makes a task and waits for it.
StartDetached(c) ==
    /\ stage[c] = "running"
    /\ kind[c] = "create"
    /\ TaskTo(c, "runnable")
    /\ Goto(c, "starting")
    /\ UNCHANGED <<kind, waiting, owner, startup>>

\* The semaphore was signalled: bridge-create replies, or fails with the bind.
StartupKnown(c) ==
    /\ stage[c] = "starting"
    /\ startup[c] # "none"
    /\ Leave(c)
    /\ UNCHANGED <<kind, waiting, task, startup>>

\* The reply is written, if there is one, and the connection closes.
Reply(c) ==
    /\ stage[c] = "sending"
    /\ ThreadFree
    /\ Goto(c, "done")
    /\ UNCHANGED <<kind, waiting, owner, task, startup>>

-----------------------------------------------------------------------------
(* The tasks requests make *)

\* A no-ack command runs off the queue, on a thread it keeps (Apple Events).
WorkStarts(c) ==
    /\ kind[c] = "async"
    /\ task[c] = "runnable"
    /\ ThreadFree
    /\ TaskTo(c, "working")
    /\ UNCHANGED <<kind, stage, waiting, owner, startup>>

WorkEnds(c) ==
    /\ task[c] = "working"
    /\ TaskTo(c, "done")
    /\ UNCHANGED <<kind, stage, waiting, owner, startup>>

\* The listener's task suspends in bind; an event loop thread binds the path.
BindStarts(c) ==
    /\ kind[c] = "create"
    /\ task[c] = "runnable"
    /\ ThreadFree
    /\ TaskTo(c, "binding")
    /\ UNCHANGED <<kind, stage, waiting, owner, startup>>

BindEnds(c) ==
    /\ task[c] = "binding"
    /\ TaskTo(c, "bound")
    /\ UNCHANGED <<kind, stage, waiting, owner, startup>>

\* Mutant: a bind that throws ends the task before it signals.
SignalSuccessOnly(c) ==
    /\ task[c] = "bound"
    /\ ThreadFree
    /\ startup' \in {startup, [startup EXCEPT ![c] = "ok"]}
    /\ TaskTo(c, "done")
    /\ UNCHANGED <<kind, stage, waiting, owner>>

\* Back on a thread, the task stores the result and signals, either way.
Signal(c) ==
    /\ task[c] = "bound"
    /\ ThreadFree
    /\ \E r \in {"ok", "failed"} : startup' = [startup EXCEPT ![c] = r]
    /\ TaskTo(c, "done")
    /\ UNCHANGED <<kind, stage, waiting, owner>>

-----------------------------------------------------------------------------
HandlerStep(c) ==
    \/ CallSync(c) \/ EnterQueue(c)
    \/ RunCommand(c) \/ SpawnTask(c) \/ StartDetached(c) \/ StartupKnown(c)
    \/ Reply(c)

TaskStep(c) == WorkStarts(c) \/ WorkEnds(c) \/ BindStarts(c) \/ BindEnds(c) \/ Signal(c)

Next == \E c \in Conns : RequestArrives(c) \/ HandlerStep(c) \/ TaskStep(c)

Spec == Init /\ [][Next]_vars

\* The pool gives a free thread to a task that can run, and Apple Events and
\* binds end; clients need not send their request.
FairSpec == Spec /\ \A c \in Conns : WF_vars(HandlerStep(c)) /\ WF_vars(TaskStep(c))

-----------------------------------------------------------------------------
(* Properties *)

InQueue(c) == c \in {waiting[i] : i \in DOMAIN waiting}

\* commandQueue is serial, a request is on it once, and it stays taken while a
\* bridge-create waits for its listener, whatever tasks run meanwhile.
QueueIsSerial ==
    /\ \A c \in Conns : stage[c] \in OnQueue <=> owner = c
    /\ \A c \in Conns : stage[c] = "blocked" <=> InQueue(c)
    /\ \A i, j \in DOMAIN waiting : waiting[i] = waiting[j] => i = j

\* A no-ack command works only once its handler has left the queue, so a connection
\* keeps one thread at most; a bridge-create that waits for its listener's startup has a
\* task that will tell it (dispatch, startDetached).
TaskInv(c) ==
    /\ task[c] = "working" => kind[c] = "async"
    /\ kind[c] = "async" /\ task[c] \in {"runnable", "working"} => stage[c] \in {"sending", "done"}
    /\ stage[c] = "starting" =>
          kind[c] = "create" /\ (startup[c] # "none" \/ task[c] \in {"runnable", "binding", "bound"})

\* With more threads than connections no task ever waits for a thread.
ThreadsSuffice == Cardinality(Conns) < Threads => ThreadFree

\* The handler, or the task it made, waits for nothing but a thread.
HandlerReady(c) ==
    \/ stage[c] \in {"runnable", "running", "sending"}
    \/ stage[c] = "blocked" /\ owner = NoConn /\ c = Head(waiting)
    \/ stage[c] = "starting" /\ startup[c] # "none"
TaskReady(c) == task[c] \in {"runnable", "working", "binding", "bound"}

\* The requests on commandQueue and the bridge-create that keeps it never all wait for
\* one another: whoever is not done, someone waits for nothing but a thread.
NotAllWaiting ==
    (\E c \in Conns : stage[c] \notin {"reading", "done"}) =>
        \E c \in Conns : HandlerReady(c) \/ TaskReady(c)

\* TypeOK, the three safety properties and what makes them inductive.
PoolInv ==
    /\ TypeOK
    /\ QueueIsSerial
    /\ ThreadsSuffice
    /\ NotAllWaiting
    /\ \A c \in Conns : TaskInv(c)

\* docs/protocol.md: a request that "always responds" is answered, and a no-ack
\* command that was taken runs (App.swift, dispatch; startDetached).
EveryRequestEnds ==
    \A c \in Conns :
        /\ stage[c] = "runnable" ~> stage[c] = "done"
        /\ task[c] = "runnable" ~> task[c] = "done"
=============================================================================
