----------------------- MODULE SocketPathMonitor_proofs -----------------------
(* What holds of every SocketPathMonitor, with any number of files and changes. *)
EXTENDS SocketPathMonitor, TLAPS

\* The invariant holds before the monitor is made (SocketPathMonitor.init).
LEMMA InitFinish == Init => FinishInv
  <1> SUFFICES ASSUME Init PROVE FinishInv
    OBVIOUS
  <1>1. TypeOK
    <2>1. changes \in 0..MaxChanges /\ resumes \in Nat /\ wakes \in Nat
      BY MonitorAssumption DEF Init
    <2>2. at \in [Threads -> ThreadStages]
      BY DEF Init, ThreadStages
    <2>3. took \in [Threads -> BOOLEAN]
      BY DEF Init
    <2> QED
      BY <2>1, <2>2, <2>3 DEF Init, TypeOK, States
  <1>2. WaiterOwned
    BY DEF Init, WaiterOwned, Finishing, FinishStages
  <1>3. SourceBalanced
    BY DEF Init, SourceBalanced
  <1>4. NoSpuriousEnd
    BY DEF Init, NoSpuriousEnd
  <1>5. \A t \in Threads : ThreadInv(t)
    BY DEF Init, ThreadInv, Finishing, FinishStages
  <1> QED
    BY <1>1, <1>2, <1>3, <1>4, <1>5 DEF Init, FinishInv

\* What the directory, the listener's task and its cancellation do keeps it.
LEMMA RunSteps ==
    ASSUME FinishInv,
           PathChanges \/ NeighbourChanges \/ CancelListener \/ AcceptEnds \/ RunStep \/ Wait
    PROVE  FinishInv'
  <1> USE MonitorAssumption DEF FinishInv, TypeOK, WaiterOwned, SourceBalanced, NoSpuriousEnd,
         ThreadInv, Finishing, FinishStages, ThreadStages, Threads, States,
         world, runVars, sourceVars, waitVars
  <1>1. CASE PathChanges
    <2>1. changes' \in 0..MaxChanges /\ touched' \in BOOLEAN /\ pending' \in BOOLEAN
      BY <1>1 DEF PathChanges, DirectoryChanges
    <2>2. pending' => resumes > 0
      BY <1>1 DEF PathChanges, DirectoryChanges
    <2>3. touched \/ identity # Gone <=> touched'
      BY <1>1 DEF PathChanges
    <2>4. path' \in Files \cup {Gone} /\ UNCHANGED <<runVars, state, resumes, source, waitVars, at, took>>
      BY <1>1 DEF PathChanges, DirectoryChanges
    <2> QED
      BY <2>1, <2>2, <2>3, <2>4
  <1>2. CASE NeighbourChanges
    BY <1>2 DEF NeighbourChanges, DirectoryChanges
  <1>3. CASE CancelListener
    BY <1>3 DEF CancelListener
  <1>4. CASE AcceptEnds
    BY <1>4 DEF AcceptEnds
  <1>5. CASE MakeMonitor
    BY <1>5 DEF MakeMonitor
  <1>6. CASE MakeMonitorFails
    BY <1>6 DEF MakeMonitorFails
  <1>7. CASE Start
    BY <1>7 DEF Start
  <1>8. CASE Arm
    BY <1>8 DEF Arm, Goto
  <1>9. CASE Started
    BY <1>9 DEF Started
  <1>10. CASE WaiterCloses
    BY <1>10 DEF WaiterCloses
  <1>11. CASE Wait
    BY <1>11 DEF Wait
  <1> QED
    BY <1>1, <1>2, <1>3, <1>4, <1>5, <1>6, <1>7, <1>8, <1>9, <1>10, <1>11 DEF RunStep

\* So does every step of finishIfChanged and finish, whichever thread takes it.
LEMMA FinishSteps ==
    ASSUME FinishInv,
           HandleEvent \/ HandleCancel \/ \E t \in Threads : FinishStep(t)
    PROVE  FinishInv'
  <1> USE DEF FinishInv, TypeOK, WaiterOwned, SourceBalanced, NoSpuriousEnd,
         ThreadInv, Finishing, FinishStages, ThreadStages, Threads, States,
         world, runVars, sourceVars, waitVars, Goto, Over
  <1>1. CASE HandleEvent
    <2>1. pending /\ pending' = FALSE /\ at' = [at EXCEPT !["event"] = "check"] /\ at["event"] = "ready"
      BY <1>1 DEF HandleEvent
    <2>2. UNCHANGED <<world, runVars, state, resumes, source, waitVars, took>>
      BY <1>1 DEF HandleEvent
    <2>3. \A t \in Threads : Finishing(t)' = Finishing(t) /\ (at'[t] = "claim" <=> at[t] = "claim")
                               /\ (at'[t] = "cancel" <=> at[t] = "cancel")
      BY <2>1
    <2>4. at' \in [Threads -> ThreadStages]
      BY <2>1
    <2>5. TypeOK'
      BY <2>1, <2>2, <2>4
    <2>6. WaiterOwned'
      BY <2>2, <2>3
    <2>7. SourceBalanced' /\ NoSpuriousEnd'
      BY <2>1, <2>2
    <2>8. \A u \in Threads : ThreadInv(u)'
      BY <2>2, <2>3
    <2> QED
      BY <2>1, <2>2, <2>3, <2>5, <2>6, <2>7, <2>8
  <1>2. CASE HandleCancel
    BY <1>2 DEF HandleCancel
  <1>3. ASSUME NEW t \in Threads, Check(t) PROVE FinishInv'
    BY <1>3 DEF Check
  <1>4. ASSUME NEW t \in Threads, Claim(t) PROVE FinishInv'
    <2>1. CASE state = "finished"
      BY <1>4, <2>1 DEF Claim
    <2>2. CASE state # "finished"
      <3>1. /\ at[t] = "claim" /\ at' = [at EXCEPT ![t] = "resume"]
            /\ state' = "finished"
            /\ took' = [took EXCEPT ![t] = (state = "waiting")]
            /\ UNCHANGED <<world, runVars, sourceVars, waitVars>>
        BY <1>4, <2>2 DEF Claim
      <3>2. \A u \in Threads : ~Finishing(u)
        BY <2>2
      <3>3. /\ TypeOK'
            /\ Finishing(t)' /\ \A u \in Threads \ {t} : ~Finishing(u)'
            /\ took'[t] <=> state = "waiting"
        BY <3>1, <3>2
      <3>4. WaiterOwned'
        BY <3>1, <3>2, <3>3
      <3>5. \A u \in Threads : ThreadInv(u)'
        BY <3>1, <3>2, <3>3
      <3> QED
        BY <3>1, <3>3, <3>4, <3>5
    <2> QED
      BY <2>1, <2>2
  <1>5. ASSUME NEW t \in Threads, ResumeSource(t) PROVE FinishInv'
    BY <1>5 DEF ResumeSource
  <1>6. ASSUME NEW t \in Threads, CancelSource(t) PROVE FinishInv'
    <2>1. pending' = FALSE /\ source' = "cancelled" /\ at[t] = "cancel" /\ at' = [at EXCEPT ![t] = "wake"]
      BY <1>6 DEF CancelSource
    <2>2. UNCHANGED <<world, runVars, state, resumes, waitVars, took>>
      BY <1>6 DEF CancelSource
    <2>3. \A u \in Threads : Finishing(u)' = Finishing(u) /\ (at'[u] = "claim" <=> at[u] = "claim")
                               /\ (at'[u] = "cancel" => at[u] = "cancel")
      BY <2>1
    <2>4. at' \in [Threads -> ThreadStages]
      BY <2>1
    <2>5. TypeOK'
      BY <2>1, <2>2, <2>4
    <2>6. WaiterOwned'
      BY <2>2, <2>3
    <2>7. SourceBalanced' /\ NoSpuriousEnd'
      BY <2>1, <2>2
    <2>8. \A u \in Threads : ThreadInv(u)'
      BY <2>2, <2>3
    <2> QED
      BY <2>1, <2>2, <2>3, <2>5, <2>6, <2>7, <2>8
  <1>7. ASSUME NEW t \in Threads, Wake(t) PROVE FinishInv'
    BY <1>7 DEF Wake
  <1> QED
    BY <1>1, <1>2, <1>3, <1>4, <1>5, <1>6, <1>7 DEF FinishStep

LEMMA NextFinish == FinishInv /\ [Next]_vars => FinishInv'
  <1> SUFFICES ASSUME FinishInv, [Next]_vars PROVE FinishInv'
    OBVIOUS
  <1>1. CASE Next
    BY <1>1, RunSteps, FinishSteps DEF Next
  <1>2. CASE UNCHANGED vars
    BY <1>2 DEF vars, world, runVars, sourceVars, waitVars, FinishInv, TypeOK, WaiterOwned,
       SourceBalanced, NoSpuriousEnd, ThreadInv, Finishing
  <1> QED
    BY <1>1, <1>2

\* A change stays noticed until the monitor has finished.
LEMMA NextChange == FinishInv /\ ChangeInv /\ [Next]_vars => ChangeInv'
  <1> SUFFICES ASSUME FinishInv, ChangeInv, [Next]_vars PROVE ChangeInv'
    OBVIOUS
  <1>0. /\ resumes \in Nat /\ at \in [Threads -> ThreadStages] /\ source \in {"live", "cancelled"}
        /\ pending => resumes > 0
        /\ \A t \in Threads : Finishing(t) => state = "finished"
        /\ "start" \in Threads /\ "event" \in Threads /\ "cancel" \in Threads
    BY DEF FinishInv, TypeOK, ThreadInv, Threads
  <1> USE <1>0 DEF ChangeInv, Noticing, world, runVars, sourceVars, waitVars, Goto
  <1>1. CASE UNCHANGED vars
    BY <1>1 DEF vars
  <1>2. CASE PathChanges \/ NeighbourChanges
    BY <1>2 DEF PathChanges, NeighbourChanges, DirectoryChanges
  <1>3. CASE CancelListener \/ AcceptEnds \/ WaiterCloses
    BY <1>3 DEF CancelListener, AcceptEnds, WaiterCloses
  <1>4. CASE MakeMonitor
    BY <1>4 DEF MakeMonitor, FinishInv
  <1>5. CASE MakeMonitorFails \/ Start
    BY <1>5 DEF MakeMonitorFails, Start
  <1>6. CASE Arm
    <2>1. at'["start"] = "check" /\ resumes' > 0
      BY <1>6 DEF Arm
    <2> QED
      BY <1>6, <2>1 DEF Arm
  <1>7. CASE Started
    BY <1>7 DEF Started
  <1>8. CASE Wait
    BY <1>8 DEF Wait
  <1>9. CASE HandleEvent
    <2>1. at'["event"] = "check"
      BY <1>9 DEF HandleEvent
    <2> QED
      BY <1>9, <2>1 DEF HandleEvent
  <1>10. CASE HandleCancel
    <2>1. at'["cancel"] = "claim"
      BY <1>10 DEF HandleCancel
    <2> QED
      BY <1>10, <2>1 DEF HandleCancel
  <1>11. ASSUME NEW t \in Threads, Check(t) PROVE ChangeInv'
    <2>1. CASE path # identity
      <3>1. at'[t] = "claim"
        BY <1>11, <2>1 DEF Check
      <3> QED
        BY <1>11, <3>1 DEF Check
    <2>2. CASE path = identity
      BY <1>11, <2>2 DEF Check
    <2> QED
      BY <2>1, <2>2
  <1>12. ASSUME NEW t \in Threads, Claim(t) PROVE ChangeInv'
    BY <1>12 DEF Claim
  <1>13. ASSUME NEW t \in Threads, ResumeSource(t) \/ CancelSource(t) \/ Wake(t) PROVE ChangeInv'
    <2>1. state = "finished" /\ UNCHANGED <<state, stage>>
      BY <1>13 DEF ResumeSource, CancelSource, Wake, Finishing, FinishStages
    <2>2. resumes' >= resumes
      BY <1>13 DEF ResumeSource, CancelSource, Wake
    <2>3. waiter' = waiter \/ waiter' = "resumed"
      BY <1>13 DEF ResumeSource, CancelSource, Wake
    <2>4. resumes' \in Nat
      BY <1>13 DEF ResumeSource, CancelSource, Wake
    <2> QED
      BY <2>1, <2>2, <2>3, <2>4
  <1> QED
    BY <1>1, <1>2, <1>3, <1>4, <1>5, <1>6, <1>7, <1>8, <1>9, <1>10, <1>11, <1>12, <1>13
       DEF Next, RunStep, FinishStep

\* A monitor that has finished wakes its waiter: who took the continuation is on the way.
LEMMA NoticedReachesWaiter == FinishInv /\ ChangeInv => NoChangeMissed
  <1> SUFFICES ASSUME FinishInv, ChangeInv, stage = "serving", path # identity
               PROVE  \/ pending \/ \E t \in Threads : Noticing(t) \/ (Finishing(t) /\ took[t])
                      \/ waiter \in {"entering", "resumed"} /\ state = "finished"
    BY DEF NoChangeMissed
  <1>1. pending \/ state = "finished" \/ \E t \in Threads : Noticing(t)
    BY DEF ChangeInv
  <1>2. ASSUME state = "finished", waiter = "suspended"
        PROVE  \E t \in Threads : Finishing(t) /\ took[t]
    BY <1>2 DEF FinishInv, WaiterOwned
  <1>3. waiter \in {"entering", "suspended", "resumed"}
    BY DEF FinishInv, ChangeInv, TypeOK
  <1> QED
    BY <1>1, <1>2, <1>3

\* Every reachable state satisfies the inductive invariant (SocketPathMonitor).
THEOREM MonitorInvariant == Spec => []MonitorInv
  <1>1. Init => ChangeInv
    BY DEF Init, ChangeInv
  <1>2. FinishInv /\ ChangeInv => MonitorInv
    BY NoticedReachesWaiter DEF MonitorInv
  <1> QED
    BY InitFinish, NextFinish, NextChange, <1>1, <1>2, PTL DEF Spec

\* The waiting task is resumed exactly once, whichever threads race in finish.
THEOREM WaiterResumedOnce == Spec => []WaiterOwned
  <1>1. MonitorInv => WaiterOwned
    BY DEF MonitorInv, FinishInv
  <1> QED
    BY MonitorInvariant, <1>1, PTL

\* The dispatch source is resumed once and cancelled only after that.
THEOREM SourceIsBalanced == Spec => []SourceBalanced
  <1>1. MonitorInv => SourceBalanced
    BY DEF MonitorInv, FinishInv
  <1> QED
    BY MonitorInvariant, <1>1, PTL

\* Sockets of other bridges in the directory never end a listener.
THEOREM NeighboursHarmless == Spec => []NoSpuriousEnd
  <1>1. MonitorInv => NoSpuriousEnd
    BY DEF MonitorInv, FinishInv
  <1> QED
    BY MonitorInvariant, <1>1, PTL

\* A change of the socket path is never lost between init, start, the event source and
\* the waiter (SocketPathMonitor.start, finishIfChanged, finish): the safety that
\* ChangeEndsListener rests on.
THEOREM ChangesAreNoticed == Spec => []NoChangeMissed
  <1>1. MonitorInv => NoChangeMissed
    BY DEF MonitorInv
  <1> QED
    BY MonitorInvariant, <1>1, PTL
=============================================================================
