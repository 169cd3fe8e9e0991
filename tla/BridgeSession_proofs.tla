------------------------ MODULE BridgeSession_proofs ------------------------
(* Theorems about BridgeSession for any bridges and any connections. *)
EXTENDS BridgeSession, TLAPS

\* Every variable of the bridge sessions keeps its type.
THEOREM TypeCorrect == Spec => []TypeOK
<1>1. Init => TypeOK
  BY DEF Init, TypeOK, Creations, Listeners, Stages, HolderStages, GrantedStages, TeardownStages, Kinds, Outcomes
<1>2. TypeOK /\ [Next]_vars => TypeOK'
  <2> SUFFICES ASSUME TypeOK, [Next]_vars
               PROVE  TypeOK'
    OBVIOUS
  <2> USE DEF TypeOK, Creations, Listeners, Stages, HolderStages, GrantedStages, TeardownStages, Kinds, Outcomes,
              sessionVars, listenerVars, leaseVars, connVars, Goto
  <2>1. ASSUME NEW b \in Bridges, CreateStep(b)
        PROVE  TypeOK'
    BY <2>1 DEF CreateStep, Register, Bind, BindFails, ReplyCreated, CreateFails
  <2>2. ASSUME NEW b \in Bridges, PathTakenAway(b) \/ ListenerStep(b)
        PROVE  TypeOK'
    <3>1. CASE RunFails(b)       BY <3>1 DEF RunFails
    <3>2. CASE PathTakenAway(b)  BY <3>2 DEF PathTakenAway
    <3>3. CASE Serve(b)          BY <3>3 DEF Serve
    <3>4. CASE MonitorFires(b)   BY <3>4 DEF MonitorFires
    <3>5. QED  BY <2>2, <3>1, <3>2, <3>3, <3>4 DEF ListenerStep
  <2>3. ASSUME NEW c \in Conns, EnvStep(c)
        PROVE  TypeOK'
    BY <2>3 DEF EnvStep, Connect, ClientCloses, ClientSendsExtra
  <2>4. ASSUME NEW c \in Conns, RequestStep(c)
        PROVE  TypeOK'
    <3>1. CASE GateAdmits(c)    BY <3>1 DEF GateAdmits
    <3>2. CASE GateRejects(c)   BY <3>2 DEF GateRejects
    <3>3. CASE AcceptLease(c)   BY <3>3 DEF AcceptLease, TakeLease
    <3>4. CASE RejectLease(c)   BY <3>4 DEF RejectLease
    <3>5. CASE RunCommand(c)    BY <3>5 DEF RunCommand
    <3>6. CASE SpawnCommand(c)  BY <3>6 DEF SpawnCommand
    <3>7. CASE FinishReply(c)   BY <3>7 DEF FinishReply
    <3>8. QED  BY <2>4, <3>1, <3>2, <3>3, <3>4, <3>5, <3>6, <3>7 DEF RequestStep
  <2>5. ASSUME NEW c \in Conns, RunSpawned(c)
        PROVE  TypeOK'
    BY <2>5 DEF RunSpawned
  <2>6. ASSUME NEW c \in Conns, HolderStep(c)
        PROVE  TypeOK'
    <3>1. CASE AckHold(c)        BY <3>1 DEF AckHold
    <3>2. CASE AckHoldFails(c)   BY <3>2 DEF AckHoldFails
    <3>3. CASE HoldEnds(c)       BY <3>3 DEF HoldEnds
    <3>4. CASE Release(c)        BY <3>4 DEF Release
    <3>5. CASE RemoveSession(c)  BY <3>5 DEF RemoveSession
    <3>6. CASE CancelTask(c)     BY <3>6 DEF CancelTask
    <3>7. CASE CloseListener(c)  BY <3>7 DEF CloseListener
    <3>8. CASE UnlinkPath(c)     BY <3>8 DEF UnlinkPath
    <3>9. QED  BY <2>6, <3>1, <3>2, <3>3, <3>4, <3>5, <3>6, <3>7, <3>8 DEF HolderStep
  <2>7. CASE UNCHANGED vars
    BY <2>7 DEF vars
  <2>8. QED
    BY <2>1, <2>2, <2>3, <2>4, <2>5, <2>6, <2>7 DEF Next
<1>3. QED
  BY <1>1, <1>2, PTL DEF Spec

-----------------------------------------------------------------------------
(***************************************************************************)
(* LeaseInv is inductive.  The lease flags say nothing by themselves of    *)
(* the connections; what carries the induction is LeaseAgrees: a lease is  *)
(* active or released exactly when some connection was granted it, so      *)
(* BridgeLease.accept, which needs both flags down, grants it to the first *)
(* and only one.                                                           *)
(***************************************************************************)
LEMMA InitInv == Init => LeaseInv
BY NoBridgeAssumption
DEF Init, LeaseInv, TypeOK, ConnAgrees, LeaseAgrees, RanOnlyIfLeased, On, IsLeaseRequest,
    Creations, Listeners, Stages, HolderStages, GrantedStages, TeardownStages, Kinds, Outcomes

\* Any step keeps LeaseInv.
LEMMA NextInv == LeaseInv /\ TypeOK' /\ [Next]_vars => LeaseInv'
<1> SUFFICES ASSUME LeaseInv, TypeOK', [Next]_vars
             PROVE  LeaseInv'
  OBVIOUS
<1> USE NoBridgeAssumption
    DEF LeaseInv, TypeOK, ConnAgrees, LeaseAgrees, RanOnlyIfLeased, On, IsLeaseRequest, Goto,
        HolderStages, GrantedStages, TeardownStages, sessionVars, listenerVars, leaseVars, connVars
<1>1. ASSUME NEW b \in Bridges, Register(b)
      PROVE  LeaseInv'
  BY <1>1 DEF Register
<1>2. ASSUME NEW b \in Bridges, Bind(b)
      PROVE  LeaseInv'
  BY <1>2 DEF Bind
<1>3. ASSUME NEW b \in Bridges, BindFails(b) \/ CreateFails(b)
      PROVE  LeaseInv'
  BY <1>3 DEF BindFails, CreateFails
<1>4. ASSUME NEW b \in Bridges, ReplyCreated(b)
      PROVE  LeaseInv'
  BY <1>4 DEF ReplyCreated
<1>5. ASSUME NEW b \in Bridges, PathTakenAway(b) \/ ListenerStep(b)
      PROVE  LeaseInv'
  BY <1>5 DEF PathTakenAway, ListenerStep, Serve, RunFails, MonitorFires
<1>6. ASSUME NEW c \in Conns, NEW b \in Bridges, NEW k \in Kinds, Connect(c, b, k)
      PROVE  LeaseInv'
  BY <1>6 DEF Connect
<1>7. ASSUME NEW c \in Conns, ClientCloses(c) \/ ClientSendsExtra(c)
      PROVE  LeaseInv'
  BY <1>7 DEF ClientCloses, ClientSendsExtra
<1>8. ASSUME NEW c \in Conns, GateAdmits(c)
      PROVE  LeaseInv'
  BY <1>8 DEF GateAdmits, Reads, IsActive
<1>9. ASSUME NEW c \in Conns, GateRejects(c) \/ RejectLease(c) \/ FinishReply(c)
      PROVE  LeaseInv'
  BY <1>9 DEF GateRejects, Reads, RejectLease, FinishReply
<1>10. ASSUME NEW c \in Conns, AcceptLease(c)
       PROVE  LeaseInv'
  BY <1>10 DEF AcceptLease, TakeLease
<1>11. ASSUME NEW c \in Conns, RunCommand(c) \/ SpawnCommand(c) \/ RunSpawned(c)
       PROVE  LeaseInv'
  BY <1>11 DEF RunCommand, SpawnCommand, RunSpawned
<1>12. ASSUME NEW c \in Conns, AckHold(c) \/ AckHoldFails(c) \/ HoldEnds(c)
       PROVE  LeaseInv'
  BY <1>12 DEF AckHold, AckHoldFails, HoldEnds
<1>13. ASSUME NEW c \in Conns, Release(c)
       PROVE  LeaseInv'
  BY <1>13 DEF Release
<1>14. ASSUME NEW c \in Conns, RemoveSession(c)
       PROVE  LeaseInv'
  BY <1>14 DEF RemoveSession
<1>15. ASSUME NEW c \in Conns, CancelTask(c) \/ CloseListener(c) \/ UnlinkPath(c)
       PROVE  LeaseInv'
  BY <1>15 DEF CancelTask, CloseListener, UnlinkPath
<1>16. CASE UNCHANGED vars
  BY <1>16 DEF vars
<1>17. QED
  BY <1>1, <1>2, <1>3, <1>4, <1>5, <1>6, <1>7, <1>8, <1>9, <1>10, <1>11, <1>12, <1>13, <1>14,
     <1>15, <1>16
  DEF Next, CreateStep, EnvStep, RequestStep, HolderStep

\* LeaseInv holds in every reachable state.
LEMMA LeaseInvariant == Spec => []LeaseInv
<1>1. Init => LeaseInv
  BY InitInv
<1>2. LeaseInv /\ TypeOK' /\ [Next]_vars => LeaseInv'
  BY NextInv
<1>3. QED
  BY <1>1, <1>2, TypeCorrect, PTL DEF Spec

\* What LeaseInv implies.
LEMMA InvImplies == LeaseInv => LeaseExclusive /\ ReleasedIsFinal /\ RanOnlyIfLeased
<1> SUFFICES ASSUME LeaseInv
             PROVE  LeaseExclusive /\ ReleasedIsFinal /\ RanOnlyIfLeased
  OBVIOUS
<1> USE DEF LeaseInv, ConnAgrees, LeaseAgrees, On, HolderStages, GrantedStages
<1>1. LeaseExclusive
  BY DEF LeaseExclusive, Holds
<1>2. ReleasedIsFinal
  BY DEF ReleasedIsFinal
<1>3. QED
  BY <1>1, <1>2

\* A bridge's lease belongs to at most one connection (BridgeLease.accept),
\* however many present its token and however the releases interleave.
THEOREM LeaseIsExclusive == Spec => []LeaseExclusive
BY LeaseInvariant, InvImplies, PTL

\* No connection is granted or keeps a lease after BridgeLease.release.
THEOREM ReleaseIsFinal == Spec => []ReleasedIsFinal
BY LeaseInvariant, InvImplies, PTL

\* A bridge runs no command before its lease was granted (the gate of
\* BridgeSession.start).
THEOREM RunsOnlyIfLeased == Spec => []RanOnlyIfLeased
BY LeaseInvariant, InvImplies, PTL

-----------------------------------------------------------------------------
\* The part of RegistryInv that is about the order of removeSession and stop.
StopInv ==
    /\ RegistryAgrees
    /\ \A c \in Conns : pc[c] = "unlinking" => listener[on[c]] = "closed"

\* Any step keeps StopInv.
LEMMA NextRegistry == LeaseInv /\ LeaseInv' /\ StopInv /\ [Next]_vars => StopInv'
<1> SUFFICES ASSUME LeaseInv, LeaseInv', StopInv, [Next]_vars
             PROVE  StopInv'
  OBVIOUS
<1> USE NoBridgeAssumption
    DEF LeaseInv, StopInv, RegistryAgrees, TypeOK, ConnAgrees, LeaseAgrees, On, Goto,
        HolderStages, GrantedStages, TeardownStages, sessionVars, listenerVars, leaseVars, connVars
<1>1. ASSUME NEW b \in Bridges, CreateStep(b)
      PROVE  StopInv'
  BY <1>1 DEF CreateStep, Register, Bind, BindFails, ReplyCreated, CreateFails
<1>2. ASSUME NEW b \in Bridges, PathTakenAway(b) \/ ListenerStep(b)
      PROVE  StopInv'
  BY <1>2 DEF PathTakenAway, ListenerStep, Serve, RunFails, MonitorFires
<1>3. ASSUME NEW c \in Conns, EnvStep(c)
      PROVE  StopInv'
  <2>1. ASSUME NEW b \in Bridges, NEW k \in Kinds, Connect(c, b, k)
        PROVE  StopInv'
    <3>1. \A d \in Conns : pc[d] \in HolderStages => d # c
      BY <2>1 DEF Connect
    <3>2. QED
      BY <2>1, <3>1 DEF Connect
  <2>2. CASE ClientCloses(c) \/ ClientSendsExtra(c)
    BY <2>2 DEF ClientCloses, ClientSendsExtra
  <2>3. QED
    BY <1>3, <2>1, <2>2 DEF EnvStep
<1>4. ASSUME NEW c \in Conns, RequestStep(c) \/ RunSpawned(c)
      PROVE  StopInv'
  <2>1. CASE GateAdmits(c) \/ GateRejects(c)
    BY <2>1 DEF GateAdmits, GateRejects, Reads
  <2>2. CASE AcceptLease(c)
    BY <2>2 DEF AcceptLease, TakeLease
  <2>3. CASE RejectLease(c) \/ FinishReply(c)
    BY <2>3 DEF RejectLease, FinishReply
  <2>4. CASE RunCommand(c) \/ SpawnCommand(c)
    BY <2>4 DEF RunCommand, SpawnCommand
  <2>5. CASE RunSpawned(c)
    BY <2>5 DEF RunSpawned
  <2>6. QED
    BY <1>4, <2>1, <2>2, <2>3, <2>4, <2>5 DEF RequestStep
<1>5. ASSUME NEW c \in Conns, AckHold(c) \/ AckHoldFails(c) \/ HoldEnds(c)
      PROVE  StopInv'
  BY <1>5 DEF AckHold, AckHoldFails, HoldEnds
<1>6. ASSUME NEW c \in Conns, Release(c)
      PROVE  StopInv'
  BY <1>6 DEF Release
<1>7. ASSUME NEW c \in Conns, RemoveSession(c)
      PROVE  StopInv'
  <2> SUFFICES ASSUME NEW b \in Bridges, creation'[b] = "created"
               PROVE  /\ b \notin registry' => released'[b]
                      /\ b \in registry' /\ released'[b] =>
                            \E d \in Conns : on'[d] = b /\ pc'[d] = "removing"
                      /\ b \notin registry' /\ (listener'[b] # "closed" \/ path'[b]) =>
                            \E d \in Conns : on'[d] = b /\ pc'[d] \in TeardownStages \ {"removing"}
    BY <1>7 DEF RemoveSession
  <2>1. released[on[c]] /\ on[c] \in Bridges
    BY <1>7 DEF RemoveSession
  <2>2. CASE b = on[c] /\ b \in registry
    BY <1>7, <2>1, <2>2 DEF RemoveSession
  <2>3. CASE ~(b = on[c] /\ b \in registry)
    <3>1. b \in registry' <=> b \in registry
      BY <1>7, <2>3 DEF RemoveSession
    <3>2. \A d \in Conns : d # c => pc'[d] = pc[d] /\ on'[d] = on[d]
      BY <1>7 DEF RemoveSession
    <3>3. b \in registry => b # on[c]
      BY <2>3
    <3>4. QED
      BY <1>7, <3>1, <3>2, <3>3 DEF RemoveSession
  <2>4. QED
    BY <2>2, <2>3
<1>8. ASSUME NEW c \in Conns, CancelTask(c) \/ CloseListener(c)
      PROVE  StopInv'
  <2>1. CASE CancelTask(c)
    BY <2>1 DEF CancelTask
  <2>2. CASE CloseListener(c)
    BY <2>2 DEF CloseListener
  <2>3. QED
    BY <1>8, <2>1, <2>2
<1>9. ASSUME NEW c \in Conns, UnlinkPath(c)
      PROVE  StopInv'
  BY <1>9 DEF UnlinkPath
<1>10. CASE UNCHANGED vars
  BY <1>10 DEF vars
<1>11. QED
  BY <1>1, <1>2, <1>3, <1>4, <1>5, <1>6, <1>7, <1>8, <1>9, <1>10 DEF Next, HolderStep

\* A lease that loses its holder was not acknowledged.
LEMMA NextLost == LeaseInv /\ LostUnacknowledged /\ [Next]_vars => LostUnacknowledged'
<1> SUFFICES ASSUME LeaseInv, LostUnacknowledged, [Next]_vars, NEW b \in Bridges, active'[b]
             PROVE  \E c \in Conns :
                       \/ Holds(c, b)'
                       \/ /\ c \in On(b, {"granted"})' /\ pc'[c] = "done"
                          /\ client'[c] = "closed" \/ cancelled'[b]
  BY DEF LostUnacknowledged
<1> USE NoBridgeAssumption
    DEF LeaseInv, TypeOK, ConnAgrees, On, Holds, Goto, HolderStages, GrantedStages, TeardownStages,
        sessionVars, listenerVars, leaseVars, connVars
<1>1. CASE \E d \in Conns : AcceptLease(d) /\ on[d] = b
  BY <1>1 DEF AcceptLease, TakeLease
<1>2. CASE ~\E d \in Conns : AcceptLease(d) /\ on[d] = b
  <2>1. active[b]
    <3>1. ASSUME NEW d \in Conns, AcceptLease(d)
          PROVE  active[b]
      <4>1. on[d] # b /\ active' = [active EXCEPT ![on[d]] = TRUE]
        BY <1>2, <3>1 DEF AcceptLease, TakeLease
      <4>2. QED
        BY <4>1
    <3>2. CASE \E d \in Conns : Release(d)
      BY <3>2 DEF Release
    <3>3. CASE UNCHANGED active
      BY <3>3
    <3>4. QED
      BY <3>1, <3>2, <3>3
      DEF Next, CreateStep, Register, Bind, BindFails, ReplyCreated, CreateFails, PathTakenAway,
          ListenerStep, Serve, RunFails, MonitorFires,
          EnvStep, Connect, ClientCloses, ClientSendsExtra, RequestStep, GateAdmits, GateRejects, Reads,
          RejectLease, RunCommand, SpawnCommand, RunSpawned, FinishReply, HolderStep, AckHold,
          AckHoldFails, HoldEnds, RemoveSession, CancelTask, CloseListener, UnlinkPath, vars
  <2>2. PICK c \in Conns :
           \/ Holds(c, b)
           \/ c \in On(b, {"granted"}) /\ pc[c] = "done" /\ (client[c] = "closed" \/ cancelled[b])
    BY <2>1 DEF LostUnacknowledged
  <2>3. pc[c] \in GrantedStages \/ pc[c] = "done"
    BY <2>1, <2>2 DEF LeaseAgrees
  <2>4. on'[c] = b /\ outcome'[c] = "granted"
    <3>1. on[c] = b /\ outcome[c] = "granted" /\ pc[c] \notin {"idle", "reading", "queued"}
      BY <2>2, <2>3
    <3>2. QED
      BY <3>1
      DEF Next, CreateStep, Register, Bind, BindFails, ReplyCreated, CreateFails, PathTakenAway,
          ListenerStep, Serve, RunFails, MonitorFires,
          EnvStep, Connect, ClientCloses, ClientSendsExtra, RequestStep, GateAdmits, GateRejects, Reads,
          AcceptLease, TakeLease, RejectLease, RunCommand, SpawnCommand, RunSpawned, FinishReply,
          HolderStep, AckHold, AckHoldFails, HoldEnds, Release, RemoveSession, CancelTask,
          CloseListener, UnlinkPath, vars
  <2>5. /\ client[c] = "closed" => client'[c] = "closed"
        /\ cancelled[b] => cancelled'[b]
    BY DEF Next, CreateStep, Register, Bind, BindFails, ReplyCreated, CreateFails, PathTakenAway,
          ListenerStep, Serve, RunFails, MonitorFires,
          EnvStep, Connect, ClientCloses, ClientSendsExtra, RequestStep, GateAdmits, GateRejects, Reads,
          AcceptLease, TakeLease, RejectLease, RunCommand, SpawnCommand, RunSpawned, FinishReply,
          HolderStep, AckHold, AckHoldFails, HoldEnds, Release, RemoveSession, CancelTask,
          CloseListener, UnlinkPath, vars
  <2>6. \/ pc'[c] \in HolderStages
        \/ pc'[c] = "done" /\ (pc[c] = "done" \/ client[c] = "closed" \/ cancelled[b])
    <3>1. CASE Release(c)
      BY <2>1, <2>4, <3>1, <2>2 DEF Release, LeaseAgrees
    <3>2. CASE ~Release(c)
      BY <2>2, <2>3, <3>2
      DEF Next, CreateStep, Register, Bind, BindFails, ReplyCreated, CreateFails, PathTakenAway,
          ListenerStep, Serve, RunFails, MonitorFires,
          EnvStep, Connect, ClientCloses, ClientSendsExtra, RequestStep, GateAdmits, GateRejects, Reads,
          AcceptLease, TakeLease, RejectLease, RunCommand, SpawnCommand, RunSpawned, FinishReply,
          HolderStep, AckHold, AckHoldFails, HoldEnds, Release, RemoveSession, CancelTask,
          CloseListener, UnlinkPath, vars
    <3>3. QED
      BY <3>1, <3>2
  <2>7. QED
    BY <2>2, <2>4, <2>5, <2>6
<1>3. QED
  BY <1>1, <1>2

\* What the registry's agreement says once nobody is in the teardown.
LEMMA TeardownComplete == LeaseInv /\ StopInv => TornDown
BY DEF LeaseInv, LeaseAgrees, StopInv, RegistryAgrees, TeardownStages, TornDown, Destroyed

\* BridgeInv holds in every reachable state.
THEOREM BridgeInvariant == Spec => []BridgeInv
<1>1. Init => StopInv /\ LostUnacknowledged
  BY DEF Init, StopInv, RegistryAgrees, LostUnacknowledged
<1>2. LeaseInv /\ LeaseInv' /\ StopInv /\ [Next]_vars => StopInv'
  BY NextRegistry
<1>3. LeaseInv /\ StopInv /\ LostUnacknowledged => BridgeInv
  BY TeardownComplete DEF BridgeInv, RegistryInv, StopInv
<1>4. QED
  BY <1>1, <1>2, <1>3, NextLost, LeaseInvariant, PTL DEF Spec

\* The session registry, the leases and the listeners never disagree, so a
\* listener that is out of the registry is being torn down (removeSession, stop).
THEOREM RegistryConsistent == Spec => []RegistryAgrees
<1>1. BridgeInv => RegistryAgrees
  BY DEF BridgeInv, RegistryInv
<1>2. QED
  BY <1>1, BridgeInvariant, PTL

\* A lease whose holder is gone was never acknowledged (ConnectionHandler.run): the
\* one way in which bridge_lost_ack leaves a bridge behind.
THEOREM LostOnlyUnacknowledged == Spec => []LostUnacknowledged
<1>1. BridgeInv => LostUnacknowledged
  BY DEF BridgeInv, RegistryInv
<1>2. QED
  BY <1>1, BridgeInvariant, PTL

\* When a released bridge's teardown is over the bridge is destroyed (removeSession,
\* BridgeSession.stop): the safety that HoldEndDestroysBridge rests on.
THEOREM TeardownLeavesNothing == Spec => []TornDown
<1>1. BridgeInv => TornDown
  BY DEF BridgeInv, RegistryInv
<1>2. QED
  BY <1>1, BridgeInvariant, PTL

-----------------------------------------------------------------------------
\* A function that differs from another at one point is an EXCEPT of it.
LEMMA UpdateAt ==
    ASSUME NEW S, NEW f, NEW g, NEW x \in S, NEW v,
           f = [y \in S |-> f[y]],
           g = [y \in S |-> g[y]],
           \A y \in S : g[y] = IF y = x THEN v ELSE f[y]
    PROVE  g = [f EXCEPT ![x] = v]
OBVIOUS

\* Each step of the bridge sessions is a step of BridgeLifecycle or none.
LEMMA NextRefines == LeaseInv /\ LeaseInv' /\ [Next]_vars => [Lifecycle!Next]_(Lifecycle!avars)
<1> SUFFICES ASSUME LeaseInv, LeaseInv', [Next]_vars
             PROVE  Lifecycle!Next \/ UNCHANGED Lifecycle!avars
  OBVIOUS
<1> USE NoBridgeAssumption
    DEF LeaseInv, TypeOK, ConnAgrees, LeaseAgrees, On, Goto, IsLeaseRequest,
        HolderStages, GrantedStages, TeardownStages, sessionVars, listenerVars, leaseVars, connVars,
        phaseBar, Lifecycle!avars
<1> DEFINE grants == [b \in Bridges |-> On(b, {"granted"})]
           lets == [b \in Bridges |-> On(b, {"admitted", "task", "ran"})]
<1>1. ASSUME NEW b \in Bridges, Register(b) \/ Bind(b) \/ BindFails(b) \/ CreateFails(b)
      PROVE  UNCHANGED Lifecycle!avars
  BY <1>1 DEF Register, Bind, BindFails, CreateFails
<1>2. ASSUME NEW b \in Bridges, ReplyCreated(b)
      PROVE  Lifecycle!Open(b)
  <2>1. phaseBar[b] = "absent"
    BY <1>2 DEF ReplyCreated
  <2>2. phaseBar' = [phaseBar EXCEPT ![b] = "open"]
    <3>1. ~active[b] /\ ~released[b] /\ b \in DOMAIN creation
      BY <1>2 DEF ReplyCreated
    <3>2. \A x \in Bridges : phaseBar'[x] = IF x = b THEN "open" ELSE phaseBar[x]
      BY <1>2, <3>1 DEF ReplyCreated
    <3>3. phaseBar = [x \in Bridges |-> phaseBar[x]] /\ phaseBar' = [x \in Bridges |-> phaseBar'[x]]
      OBVIOUS
    <3> HIDE DEF phaseBar
    <3>4. QED
      BY <3>2, <3>3, UpdateAt
  <2>3. UNCHANGED <<on, outcome>>
    BY <1>2 DEF ReplyCreated
  <2>4. QED
    BY <2>1, <2>2, <2>3 DEF Lifecycle!Open
<1>3. ASSUME NEW b \in Bridges, PathTakenAway(b) \/ ListenerStep(b)
      PROVE  UNCHANGED Lifecycle!avars
  BY <1>3 DEF PathTakenAway, ListenerStep, Serve, RunFails, MonitorFires
<1>4. ASSUME NEW c \in Conns, EnvStep(c)
      PROVE  UNCHANGED Lifecycle!avars
  BY <1>4 DEF EnvStep, Connect, ClientCloses, ClientSendsExtra
<1>5. ASSUME NEW c \in Conns, GateAdmits(c)
      PROVE  Lifecycle!Admit(on[c], c) \/ UNCHANGED Lifecycle!avars
  <2>1. CASE IsLeaseRequest(c)
    BY <1>5, <2>1 DEF GateAdmits
  <2>2. CASE ~IsLeaseRequest(c)
    <3>1. /\ phaseBar' = phaseBar
          /\ on[c] \in Bridges
          /\ phaseBar[on[c]] = "leased"
      BY <1>5, <2>2 DEF GateAdmits, Reads, IsActive
    <3>2. outcome' = [outcome EXCEPT ![c] = "admitted"] /\ outcome[c] = "none" /\ on' = on
      BY <1>5, <2>2 DEF GateAdmits, Reads
    <3>3. grants' = grants
      BY <3>2
    <3>4. lets' = [lets EXCEPT ![on[c]] = @ \cup {c}]
      <4>1. \A b \in Bridges : lets'[b] = IF b = on[c] THEN lets[b] \cup {c} ELSE lets[b]
        BY <3>2
      <4>2. lets = [b \in Bridges |-> lets[b]] /\ lets' = [b \in Bridges |-> lets'[b]]
        OBVIOUS
      <4> HIDE DEF lets
      <4>3. QED
        BY <3>1, <4>1, <4>2, UpdateAt
    <3>5. {d \in Conns : outcome'[d] = "ran"} = {d \in Conns : outcome[d] = "ran"}
      BY <3>2
    <3>6. QED
      BY <3>1, <3>3, <3>4, <3>5 DEF Lifecycle!Admit
  <2>3. QED
    BY <2>1, <2>2
<1>6. ASSUME NEW c \in Conns, AcceptLease(c)
      PROVE  Lifecycle!Grant(on[c], c)
  <2>1. /\ on[c] \in Bridges
        /\ phaseBar[on[c]] = "open"
        /\ On(on[c], {"granted"}) = {}
    BY <1>6 DEF AcceptLease, TakeLease
  <2>2. phaseBar' = [phaseBar EXCEPT ![on[c]] = "leased"]
    BY <1>6, <2>1 DEF AcceptLease, TakeLease
  <2>3. outcome' = [outcome EXCEPT ![c] = "granted"] /\ outcome[c] = "none" /\ on' = on
    BY <1>6 DEF AcceptLease, TakeLease
  <2>4. grants' = [grants EXCEPT ![on[c]] = {c}]
    <3>1. \A b \in Bridges : grants'[b] = IF b = on[c] THEN {c} ELSE grants[b]
      BY <2>1, <2>3
    <3>2. grants = [b \in Bridges |-> grants[b]] /\ grants' = [b \in Bridges |-> grants'[b]]
      OBVIOUS
    <3> HIDE DEF grants
    <3>3. QED
      BY <2>1, <3>1, <3>2, UpdateAt
  <2>5. lets' = lets
    BY <2>3
  <2>6. {d \in Conns : outcome'[d] = "ran"} = {d \in Conns : outcome[d] = "ran"}
    BY <2>3
  <2>7. QED
    BY <2>1, <2>2, <2>4, <2>5, <2>6 DEF Lifecycle!Grant
<1>7. ASSUME NEW c \in Conns, GateRejects(c) \/ RejectLease(c) \/ FinishReply(c)
      PROVE  UNCHANGED Lifecycle!avars
  BY <1>7 DEF GateRejects, RejectLease, FinishReply
<1>8. ASSUME NEW c \in Conns, SpawnCommand(c)
      PROVE  UNCHANGED Lifecycle!avars
  BY <1>8 DEF SpawnCommand
<1>9. ASSUME NEW c \in Conns, RunCommand(c) \/ RunSpawned(c)
      PROVE  Lifecycle!Serve(on[c], c)
  BY <1>9 DEF RunCommand, RunSpawned, Lifecycle!Serve
<1>10. ASSUME NEW c \in Conns, Release(c)
       PROVE  Lifecycle!Close(on[c])
  <2>1. on[c] \in Bridges /\ phaseBar[on[c]] = "leased"
    BY <1>10 DEF Release
  <2>2. phaseBar' = [phaseBar EXCEPT ![on[c]] = "gone"]
    BY <1>10, <2>1 DEF Release
  <2>3. UNCHANGED <<on, outcome>>
    BY <1>10 DEF Release
  <2>4. QED
    BY <2>1, <2>2, <2>3 DEF Lifecycle!Close
<1>11. ASSUME NEW c \in Conns, HolderStep(c), ~Release(c)
       PROVE  UNCHANGED Lifecycle!avars
  BY <1>11 DEF HolderStep, AckHold, AckHoldFails, HoldEnds, RemoveSession, CancelTask,
               CloseListener, UnlinkPath
<1>12. CASE UNCHANGED vars
  BY <1>12 DEF vars
<1>13. \A c \in Conns : GateAdmits(c) \/ AcceptLease(c) \/ RunCommand(c) \/ RunSpawned(c) \/ Release(c)
          => on[c] \in Bridges
  BY DEF GateAdmits, Reads, AcceptLease, TakeLease, RunCommand, RunSpawned, Release
<1> HIDE DEF LeaseInv, phaseBar, On, Lifecycle!avars
<1>14. ASSUME NEW b \in Bridges, CreateStep(b) \/ PathTakenAway(b) \/ ListenerStep(b)
       PROVE  Lifecycle!Next \/ UNCHANGED Lifecycle!avars
  BY <1>14, <1>1, <1>2, <1>3 DEF CreateStep, Lifecycle!Next
<1>15. ASSUME NEW c \in Conns, EnvStep(c) \/ RequestStep(c) \/ RunSpawned(c) \/ HolderStep(c)
       PROVE  Lifecycle!Next \/ UNCHANGED Lifecycle!avars
  <2>1. CASE \E b \in Bridges : \/ Lifecycle!Close(b) \/ Lifecycle!Admit(b, c)
                                \/ Lifecycle!Grant(b, c) \/ Lifecycle!Serve(b, c)
    BY <2>1 DEF Lifecycle!Next
  <2>2. QED
    BY <1>15, <1>4, <1>5, <1>6, <1>7, <1>8, <1>9, <1>10, <1>11, <1>13, <2>1 DEF RequestStep
<1>16. QED
  BY <1>12, <1>14, <1>15 DEF Next

\* The bridge sessions implement the lifecycle a bridge promises: opened once,
\* leased once, gone for good after the lease, no command let in outside the
\* lease, each command run at most once (Bridge.swift, App.swift dispatch).
THEOREM BridgeRefinement == Spec => ImplementsLifecycle
<1>1. Init => Lifecycle!Init
  BY DEF Init, Lifecycle!Init, phaseBar, On
<1>2. LeaseInv /\ LeaseInv' /\ [Next]_vars => [Lifecycle!Next]_(Lifecycle!avars)
  BY NextRefines
<1>3. QED
  BY <1>1, <1>2, LeaseInvariant, PTL DEF Spec, ImplementsLifecycle, Lifecycle!Spec
=============================================================================
