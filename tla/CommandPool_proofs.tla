------------------------- MODULE CommandPool_proofs -------------------------
(* commandQueue is serial and its requests never all wait for one another, *)
(* for every number of connections and threads.                            *)
EXTENDS CommandPool, FiniteSetTheorems, TLAPS

\* The handlers blocked in commandQueue.sync are those of a sequence.
Entries(s) == {s[i] : i \in DOMAIN s}
Injective(s) == \A i, j \in DOMAIN s : s[i] = s[j] => i = j

\* A handler that joins the line is in it once, with those before it.
LEMMA AppendEntries ==
  ASSUME NEW S, NEW s \in Seq(S), NEW c \in S
  PROVE  /\ Append(s, c) \in Seq(S)
         /\ Entries(Append(s, c)) = Entries(s) \cup {c}
         /\ Injective(s) /\ c \notin Entries(s) => Injective(Append(s, c))
<1> DEFINE t == Append(s, c)
<1>1. /\ t \in Seq(S)
      /\ DOMAIN s = 1..Len(s)
      /\ DOMAIN t = 1..Len(s) + 1
      /\ Len(s) \in Nat
  OBVIOUS
<1>2. \A i \in 1..Len(s) : t[i] = s[i]
  OBVIOUS
<1>3. t[Len(s) + 1] = c
  OBVIOUS
<1>4. Entries(t) = Entries(s) \cup {c}
  BY <1>1, <1>2, <1>3 DEF Entries
<1>5. ASSUME Injective(s), c \notin Entries(s)
      PROVE  Injective(t)
  BY <1>1, <1>2, <1>3, <1>5 DEF Entries, Injective
<1> QED BY <1>1, <1>4, <1>5

\* When the head of the line enters the queue, the others keep their order.
LEMMA TailEntries ==
  ASSUME NEW S, NEW s \in Seq(S), s # <<>>, Injective(s)
  PROVE  /\ Head(s) \in S
         /\ Tail(s) \in Seq(S)
         /\ Entries(Tail(s)) = Entries(s) \ {Head(s)}
         /\ Injective(Tail(s))
<1> DEFINE t == Tail(s)
<1>1. /\ Len(s) \in Nat \ {0}
      /\ DOMAIN s = 1..Len(s)
      /\ t \in Seq(S)
      /\ DOMAIN t = 1..Len(s) - 1
      /\ Head(s) = s[1]
      /\ s[1] \in S
  OBVIOUS
<1>2. \A i \in 1..Len(s) - 1 : t[i] = s[i + 1]
  OBVIOUS
<1>3. Injective(t)
  BY <1>1, <1>2 DEF Injective
<1>4. Entries(t) = Entries(s) \ {s[1]}
  <2>1. ASSUME NEW x \in Entries(t)
        PROVE  x \in Entries(s) \ {s[1]}
    BY <1>1, <1>2 DEF Entries, Injective
  <2>2. ASSUME NEW x \in Entries(s), x # s[1]
        PROVE  x \in Entries(t)
    <3>1. PICK i \in 2..Len(s) : x = s[i]
      BY <1>1, <2>2 DEF Entries
    <3>2. i - 1 \in 1..Len(s) - 1 /\ t[i - 1] = s[i]
      BY <1>1, <1>2, <3>1
    <3> QED BY <1>1, <3>1, <3>2 DEF Entries
  <2> QED BY <2>1, <2>2
<1> QED BY <1>1, <1>3, <1>4

LEMMA SerialForm ==
  QueueIsSerial <=>
    /\ \A c \in Conns : stage[c] \in OnQueue <=> owner = c
    /\ \A c \in Conns : stage[c] = "blocked" <=> c \in Entries(waiting)
    /\ Injective(waiting)
BY DEF QueueIsSerial, InQueue, Entries, Injective

\* The part of the invariant that is about commandQueue.
SerialInv == TypeOK /\ QueueIsSerial

LEMMA InitSerial == Init => SerialInv
<1> SUFFICES ASSUME Init PROVE SerialInv
  OBVIOUS
<1>1. TypeOK
  BY DEF Init, TypeOK, Stages, OnQueue, TaskStages
<1>2. QueueIsSerial
  BY PoolAssumption DEF Init, QueueIsSerial, InQueue, OnQueue
<1> QED BY <1>1, <1>2 DEF SerialInv

\* One step for each action: what it does to the line, the queue and its owner.
LEMMA NextSerial == SerialInv /\ [Next]_vars => SerialInv'
<1> SUFFICES ASSUME SerialInv, [Next]_vars PROVE SerialInv'
  OBVIOUS
<1> USE DEF SerialInv
<1>s. /\ \A c \in Conns : stage[c] \in OnQueue <=> owner = c
      /\ \A c \in Conns : stage[c] = "blocked" <=> c \in Entries(waiting)
      /\ Injective(waiting)
  BY SerialForm
<1>g. ASSUME TypeOK',
             \A c \in Conns : stage'[c] \in OnQueue <=> owner' = c,
             \A c \in Conns : stage'[c] = "blocked" <=> c \in Entries(waiting'),
             Injective(waiting')
      PROVE  SerialInv'
  BY <1>g DEF QueueIsSerial, InQueue, Entries, Injective
<1>1. CASE UNCHANGED vars
  BY <1>1 DEF vars, TypeOK, QueueIsSerial, InQueue
<1>2. ASSUME NEW c \in Conns, RequestArrives(c)
      PROVE  SerialInv'
  <2>1. TypeOK'
    BY <1>2 DEF RequestArrives, Goto, TypeOK, Stages
  <2> QED BY <1>2, <1>s, <1>g, <2>1 DEF RequestArrives, Goto, TypeOK, OnQueue
<1>3. ASSUME NEW c \in Conns, CallSync(c)
      PROVE  SerialInv'
  <2>1. c \notin Entries(waiting)
    BY <1>3, <1>s DEF CallSync
  <2>2. /\ waiting' \in Seq(Conns)
        /\ Entries(waiting') = Entries(waiting) \cup {c}
        /\ Injective(waiting')
    BY <1>3, <1>s, <2>1, AppendEntries DEF CallSync, TypeOK
  <2>3. TypeOK'
    BY <1>3, <2>2 DEF CallSync, Goto, TypeOK, Stages
  <2> QED BY <1>3, <1>s, <1>g, <2>2, <2>3 DEF CallSync, Goto, TypeOK, OnQueue
<1>4. ASSUME NEW c \in Conns, EnterQueue(c)
      PROVE  SerialInv'
  <2>1. waiting # <<>>
    BY <1>4, <1>s DEF EnterQueue, Entries
  <2>2. /\ waiting' \in Seq(Conns)
        /\ Entries(waiting') = Entries(waiting) \ {c}
        /\ Injective(waiting')
    BY <1>4, <1>s, <2>1, TailEntries DEF EnterQueue, TypeOK
  <2>3. TypeOK'
    BY <1>4, <2>2 DEF EnterQueue, Goto, TypeOK, Stages, OnQueue
  <2> QED BY <1>4, <1>s, <1>g, <2>2, <2>3, PoolAssumption DEF EnterQueue, Goto, TypeOK, OnQueue
<1>5. ASSUME NEW c \in Conns, RunCommand(c) \/ SpawnTask(c) \/ StartupKnown(c)
      PROVE  SerialInv'
  <2>1. stage[c] \in OnQueue /\ Leave(c) /\ UNCHANGED waiting
    BY <1>5 DEF RunCommand, SpawnTask, StartupKnown, OnQueue
  <2>2. TypeOK'
    BY <1>5 DEF RunCommand, SpawnTask, StartupKnown, Leave, Goto, TaskTo, TypeOK, Stages, TaskStages
  <2> QED BY <1>s, <1>g, <2>1, <2>2, PoolAssumption DEF Leave, Goto, TypeOK, OnQueue
<1>6. ASSUME NEW c \in Conns, StartDetached(c)
      PROVE  SerialInv'
  <2>1. TypeOK'
    BY <1>6 DEF StartDetached, Goto, TaskTo, TypeOK, Stages, OnQueue, TaskStages
  <2> QED BY <1>6, <1>s, <1>g, <2>1 DEF StartDetached, Goto, TypeOK, OnQueue
<1>7. ASSUME NEW c \in Conns, Reply(c)
      PROVE  SerialInv'
  <2>1. TypeOK'
    BY <1>7 DEF Reply, Goto, TypeOK, Stages
  <2> QED BY <1>7, <1>s, <1>g, <2>1 DEF Reply, Goto, TypeOK, OnQueue
<1>8. ASSUME NEW c \in Conns, TaskStep(c)
      PROVE  SerialInv'
  <2>1. UNCHANGED <<stage, waiting, owner>>
    BY <1>8 DEF TaskStep, WorkStarts, WorkEnds, BindStarts, BindEnds, Signal
  <2>2. TypeOK'
    BY <1>8 DEF TaskStep, WorkStarts, WorkEnds, BindStarts, BindEnds, Signal, TaskTo, TypeOK, TaskStages
  <2> QED BY <1>s, <1>g, <2>1, <2>2
<1> QED
  BY <1>1, <1>2, <1>3, <1>4, <1>5, <1>6, <1>7, <1>8 DEF Next, HandlerStep

\* A step of one connection keeps what its stages tell of its task, and leaves the
\* others' alone.
LEMMA TasksKept ==
  ASSUME TypeOK, NEW c \in Conns, RequestArrives(c) \/ HandlerStep(c) \/ TaskStep(c),
         NEW d \in Conns, TaskInv(d)
  PROVE  TaskInv(d)'
<1> USE DEF TaskInv, Goto, TaskTo, Leave, TypeOK
<1>1. CASE RequestArrives(c)
  BY <1>1 DEF RequestArrives
<1>2. CASE CallSync(c) \/ EnterQueue(c)
  BY <1>2 DEF CallSync, EnterQueue
<1>3. CASE RunCommand(c) \/ SpawnTask(c)
  BY <1>3 DEF RunCommand, SpawnTask
<1>4. CASE StartDetached(c) \/ StartupKnown(c) \/ Reply(c)
  BY <1>4 DEF StartDetached, StartupKnown, Reply
<1>5. CASE WorkStarts(c) \/ WorkEnds(c)
  BY <1>5 DEF WorkStarts, WorkEnds
<1>6. CASE BindStarts(c) \/ BindEnds(c)
  BY <1>6 DEF BindStarts, BindEnds
<1>7. CASE Signal(c)
  BY <1>7 DEF Signal
<1> QED BY <1>1, <1>2, <1>3, <1>4, <1>5, <1>6, <1>7 DEF HandlerStep, TaskStep

\* A connection keeps one thread at most: its handler's, or that of the no-ack command
\* it left behind.
LEMMA OneThreadEach == (\A c \in Conns : TaskInv(c)) => ThreadsSuffice
<1> SUFFICES ASSUME \A c \in Conns : TaskInv(c) PROVE ThreadsSuffice
  OBVIOUS
<1>1. /\ Occupied \cap Working = {}
      /\ Occupied \subseteq Conns
      /\ Working \subseteq Conns
      /\ Occupied \cup Working \subseteq Conns
  BY DEF Occupied, Working, OnQueue, TaskInv
<1>2. IsFiniteSet(Occupied) /\ IsFiniteSet(Working) /\ IsFiniteSet(Conns)
  BY <1>1, PoolAssumption, FS_Subset
<1>3. Cardinality(Occupied \cup Working)
         = Cardinality(Occupied) + Cardinality(Working) - Cardinality(Occupied \cap Working)
  BY <1>2, FS_Union
<1>4. Cardinality(Occupied \cap Working) = 0
  BY <1>1, FS_EmptySet
<1>5. Cardinality(Occupied \cup Working) <= Cardinality(Conns)
  BY <1>1, <1>2, FS_Subset
<1>6. Cardinality(Occupied) \in Nat /\ Cardinality(Working) \in Nat /\ Cardinality(Conns) \in Nat
  BY <1>2, FS_CardinalityType
<1> QED BY <1>3, <1>4, <1>5, <1>6, PoolAssumption DEF ThreadsSuffice, ThreadFree

\* Follow the waits: a request in line waits for the owner of the queue or enters it, the
\* owner runs or waits for its listener's task, and that task waits for no request.
LEMMA WaitsEnd == SerialInv /\ (\A c \in Conns : TaskInv(c)) => NotAllWaiting
<1> SUFFICES ASSUME SerialInv, \A c \in Conns : TaskInv(c) PROVE NotAllWaiting
  OBVIOUS
<1> SUFFICES ASSUME NEW c \in Conns, stage[c] \notin {"reading", "done"}
             PROVE  \E d \in Conns : HandlerReady(d) \/ TaskReady(d)
  BY DEF NotAllWaiting
<1>s. /\ \A d \in Conns : stage[d] \in OnQueue <=> owner = d
      /\ \A d \in Conns : stage[d] = "blocked" <=> d \in Entries(waiting)
  BY SerialForm DEF SerialInv
<1>1. CASE owner = NoConn
  <2>1. stage[c] \in {"runnable", "sending"} \/ stage[c] = "blocked"
    BY <1>1, <1>s, PoolAssumption DEF SerialInv, TypeOK, Stages
  <2>2. CASE stage[c] = "blocked"
    <3>1. waiting \in Seq(Conns) /\ waiting # <<>>
      BY <1>s, <2>2 DEF SerialInv, TypeOK, Entries
    <3>2. Head(waiting) \in Conns /\ Head(waiting) \in Entries(waiting)
      BY <3>1 DEF Entries
    <3>3. HandlerReady(Head(waiting))
      BY <1>1, <1>s, <3>2 DEF HandlerReady
    <3> QED BY <3>2, <3>3
  <2> QED BY <2>1, <2>2 DEF HandlerReady
<1>2. CASE owner # NoConn
  <2>1. owner \in Conns /\ stage[owner] \in OnQueue
    BY <1>2, <1>s DEF SerialInv, TypeOK
  <2> QED BY <2>1 DEF OnQueue, TaskInv, HandlerReady, TaskReady
<1> QED BY <1>1, <1>2

\* The rest of PoolInv follows from these two parts.
CoreInv == SerialInv /\ \A c \in Conns : TaskInv(c)

LEMMA CoreSuffices == CoreInv => PoolInv
BY OneThreadEach, WaitsEnd DEF CoreInv, SerialInv, PoolInv

LEMMA InitCore == Init => CoreInv
BY InitSerial DEF CoreInv, Init, TaskInv

LEMMA NextCore == CoreInv /\ [Next]_vars => CoreInv'
<1> SUFFICES ASSUME CoreInv, [Next]_vars PROVE CoreInv'
  OBVIOUS
<1>1. SerialInv'
  BY NextSerial DEF CoreInv
<1>2. ASSUME NEW d \in Conns
      PROVE  TaskInv(d)'
  <2>1. CASE UNCHANGED vars
    BY <2>1 DEF CoreInv, TaskInv, vars
  <2>2. CASE Next
    BY <2>2, TasksKept DEF CoreInv, SerialInv, Next
  <2> QED BY <2>1, <2>2
<1> QED BY <1>1, <1>2 DEF CoreInv

\* The pool's invariant holds for every number of connections and threads, the ones
\* that starve the pool included.
THEOREM PoolInvariant == Spec => []PoolInv
BY InitCore, NextCore, CoreSuffices, PTL DEF Spec

\* commandQueue is serial, a request is on it once, and a bridge-create that
\* waits for its listener keeps it (App.swift, commandQueue.sync).
THEOREM QueueSerial == Spec => []QueueIsSerial
<1>1. PoolInv => QueueIsSerial
  BY DEF PoolInv
<1> QED BY <1>1, PoolInvariant, PTL

\* A pool with more threads than the daemon has connections is never exhausted
\* (App.swift, dispatch; startDetached): run command_pool_full shows that as many
\* threads as connections are too few.
THEOREM PoolSuffices ==
  ASSUME Cardinality(Conns) < Threads
  PROVE  Spec => []ThreadFree
<1>1. PoolInv => ThreadFree
  BY DEF PoolInv, ThreadsSuffice
<1> QED BY <1>1, PoolInvariant, PTL

\* No circle of requests waits: with a free thread someone goes on, however the queue,
\* its bridge-create and their tasks are interleaved (commandQueue.sync, semaphore.wait).
THEOREM NoCircularWait == Spec => []NotAllWaiting
<1>1. PoolInv => NotAllWaiting
  BY DEF PoolInv
<1> QED BY <1>1, PoolInvariant, PTL
=============================================================================
