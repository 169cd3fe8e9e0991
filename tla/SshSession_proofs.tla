-------------------------- MODULE SshSession_proofs --------------------------
(* What holds of every number of gty ssh and herdr attach sessions on a host. *)
EXTENDS SshSession, TLAPS

\* Preparation starts with no gty installed by a session (bootstrap.go).
LEMMA InitInstall == InstallInit => InstallInv
  BY InstallAssumption DEF InstallInit, InstallInv, InstallTypeOK, WholeUnlessCut, ReadyHolds,
     NoTempLeft,
     InstallSteps, Building, UploadStates

\* Each step of ensureRemoteGTY and of the install script keeps its invariant.
LEMMA InstallKeeps ==
    ASSUME InstallInv, NEW s \in Sessions, InstallNext(s)
    PROVE  InstallInv'
  <1> USE InstallAssumption DEF InstallInv, InstallTypeOK, WholeUnlessCut, ReadyHolds, NoTempLeft,
         InstallSteps, Building, UploadStates, GoStep, SetTemps
  <1>1. CASE Find(s)
    BY <1>1 DEF Find, Usable
  <1>2. CASE RemoteCallFails(s)
    BY <1>2 DEF RemoteCallFails
  <1>3. CASE UseOwn(s)
    BY <1>3 DEF UseOwn
  <1>4. CASE BeginBuild(s)
    BY <1>4 DEF BeginBuild
  <1>5. CASE Built(s)
    BY <1>5 DEF Built
  <1>6. CASE Downloaded(s)
    BY <1>6 DEF Downloaded
  <1>7. CASE Extracted(s)
    BY <1>7 DEF Extracted
  <1>8. CASE BuildFails(s)
    BY <1>8 DEF BuildFails
  <1>9. CASE BeginUpload(s)
    BY <1>9 DEF BeginUpload
  <1>10. CASE UploadReturns(s)
    BY <1>10 DEF UploadReturns
  <1>11. CASE Verify(s)
    BY <1>11 DEF Verify
  <1>12. CASE CatEnds(s)
    BY <1>12 DEF CatEnds
  <1>13. CASE CatCut(s)
    BY <1>13 DEF CatCut
  <1>14. CASE ScriptFails(s)
    BY <1>14 DEF ScriptFails
  <1>15. CASE Rename(s)
    BY <1>15 DEF Rename
  <1>16. CASE InstallKilled(s)
    BY <1>16 DEF InstallKilled
  <1> QED
    BY <1>1, <1>2, <1>3, <1>4, <1>5, <1>6, <1>7, <1>8, <1>9, <1>10, <1>11, <1>12, <1>13, <1>14,
       <1>15, <1>16
       DEF InstallNext, ClientSteps, ScriptSteps

\* What the rest of a session does leaves preparations alone.
LEMMA InstallUnchanged == InstallInv /\ UNCHANGED installVars => InstallInv'
  BY DEF installVars, InstallInv, InstallTypeOK, WholeUnlessCut, ReadyHolds, NoTempLeft

\* A session starts with nothing on the host and nothing in the daemon.
LEMMA InitSsh == Init => SshInv
  <1> SUFFICES ASSUME Init PROVE SshInv
    OBVIOUS
  <1>1. InstallInv
    BY InitInstall DEF Init
  <1> QED
    BY <1>1 DEF Init, SshInv, TypeOK, ListenerKeepsPath, DeadSwept, Released, SessionInv,
       SweepInv, Over, LeaseActive, Places, Leased, Up, Bridges,
       InstallInit

\* Preparing leaves the session itself alone; a client that is killed there has
\* neither a lease nor a key table.
LEMMA InstallStepKeeps ==
    ASSUME SshInv, NEW s \in Sessions, Install(s)
    PROVE  SshInv'
  <1>1. InstallInv'
    BY InstallKeeps DEF SshInv, Install
  <1>2. UNCHANGED sessionVars
    BY DEF Install
  <1>3. step' \in [Sessions -> InstallSteps] /\ step \in [Sessions -> InstallSteps]
    BY <1>1 DEF SshInv, InstallInv, InstallTypeOK
  <1>4. \A t \in Sessions : step[t] \in {"ready", "failed"} => step'[t] = step[t]
    BY <1>3 DEF Install, InstallNext, ClientSteps, ScriptSteps, Find, RemoteCallFails, UseOwn,
       BeginBuild,
       Built, Downloaded, Extracted, BuildFails, BeginUpload, UploadReturns, Verify, CatEnds,
       CatCut,
       ScriptFails, Rename, InstallKilled, GoStep
  <1>5. \A t \in Sessions : Over(t)' => Over(t) \/ at[t] = "install"
    BY <1>2, <1>4 DEF Over, SshInv, SessionInv, sessionVars
  <1> QED
    BY <1>1, <1>2, <1>4, <1>5 DEF SshInv, TypeOK, ListenerKeepsPath, DeadSwept, Released,
       SessionInv, SweepInv, LeaseActive, Bridges, sessionVars,
       sweepVars, remoteVars, localVars, leaseVars, tableVars, Leased

\* Listing, probing and removing sockets (cleanupDeadSockets).
LEMMA SweepKeeps ==
    ASSUME SshInv, NEW s \in Sessions, Sweep(s)
    PROVE  SshInv'
  <1>0. InstallInv' /\ UNCHANGED step
    BY InstallUnchanged DEF SshInv, installVars, Sweep, List, Probe, RemoveDead, RemoveFails,
       SweepEnds, PrepareFails
  <1> USE DEF SshInv, TypeOK, ListenerKeepsPath, DeadSwept, Released, SessionInv, SweepInv,
         Over, LeaseActive, Places, Leased, Up, Bridges, Go, Fallback,
         sweepVars, remoteVars, localVars, leaseVars, tableVars
  <1>1. CASE List(s)
    BY <1>0, <1>1 DEF List
  <1>2. CASE RemoveDead(s)
    BY <1>0, <1>2 DEF RemoveDead
  <1>3. CASE RemoveFails(s)
    <2>1. TypeOK'
      BY <1>3 DEF RemoveFails
    <2>2. \A t \in Sessions : SessionInv(t)'
      BY <1>0, <1>3 DEF RemoveFails
    <2>3. ListenerKeepsPath' /\ DeadSwept'
      BY <1>3 DEF RemoveFails
    <2>4. Released'
      BY <1>0, <1>3 DEF RemoveFails
    <2>5. \A t \in Sessions : SweepInv(t)'
      BY <1>3 DEF RemoveFails
    <2> QED
      BY <1>0, <2>1, <2>2, <2>3, <2>4, <2>5
  <1>4. CASE SweepEnds(s)
    BY <1>0, <1>4 DEF SweepEnds
  <1>5. CASE PrepareFails(s)
    <2>1. TypeOK'
      BY <1>5 DEF PrepareFails
    <2>2. \A t \in Sessions : SessionInv(t)'
      BY <1>0, <1>5 DEF PrepareFails
    <2>3. ListenerKeepsPath' /\ DeadSwept'
      BY <1>5 DEF PrepareFails
    <2>4. Released'
      BY <1>0, <1>5 DEF PrepareFails
    <2>5. \A t \in Sessions : SweepInv(t)'
      BY <1>5 DEF PrepareFails
    <2> QED
      BY <1>0, <2>1, <2>2, <2>3, <2>4, <2>5
  <1>6. ASSUME NEW t \in Sessions, Probe(s, t) PROVE SshInv'
    <2>1. /\ t \in sweep[s] /\ doomed[s] = {}
          /\ sweep' = [sweep EXCEPT ![s] = sweep[s] \ {t}]
          /\ UNCHANGED <<at, found, remoteVars, localVars>>
      BY <1>6 DEF Probe
    <2>2. CASE file[t] /\ tunnel[t] = "listening" /\ UNCHANGED <<doomed, missed>>
      BY <1>0, <2>1, <2>2
    <2>3. CASE /\ doomed' = [doomed EXCEPT ![s] = {t}]
               /\ missed' = [missed EXCEPT ![t] = missed[t] \/ (file[t] /\ tunnel[t] \in Up)]
      <3>1. missed' \in [Sessions -> BOOLEAN]
        BY <2>3
      <3>2. \A u \in Sessions : missed[u] => missed'[u]
        BY <2>3
      <3>3. file[t] /\ tunnel[t] \in Up => missed'[t]
        BY <2>3
      <3>4. TypeOK'
        BY <2>1, <2>3, <3>1
      <3>5. \A u \in Sessions : SweepInv(u)'
        BY <2>1, <2>3, <3>2, <3>3
      <3>6. ListenerKeepsPath'
        BY <2>1, <3>2
      <3> QED
        BY <1>0, <2>1, <3>4, <3>5, <3>6
    <2> QED
      BY <1>6, <2>2, <2>3 DEF Probe
  <1> QED
    BY <1>1, <1>2, <1>3, <1>4, <1>5, <1>6 DEF Sweep

\* The client's bridge and lease (createBridgeLease, Hold, PreparedBridge.Close).
LEMMA LeaseKeeps ==
    ASSUME SshInv, NEW s \in Sessions, Lease(s)
    PROVE  SshInv'
  <1>0. InstallInv' /\ UNCHANGED step
    BY InstallUnchanged DEF SshInv, installVars, Lease,
       CreateBridge, CreateFails, AskLease, Hold, HoldFails, CloseLease
  <1> USE DEF SshInv, TypeOK, ListenerKeepsPath, DeadSwept, Released, SessionInv, SweepInv,
         Over, LeaseActive, Places, Leased, Up, Bridges, Go, Fallback, SetBridge, SetTable, SetLost,
         CloseLink, AfterSsh, sweepVars, remoteVars, localVars, leaseVars, tableVars
  <1>1. CASE CreateBridge(s)
    BY <1>0, <1>1 DEF CreateBridge
  <1>2. CASE CreateFails(s)
    <2>1. TypeOK'
      BY <1>2 DEF CreateFails
    <2>2. \A t \in Sessions : SessionInv(t)'
      BY <1>0, <1>2 DEF CreateFails
    <2>3. ListenerKeepsPath' /\ DeadSwept'
      BY <1>2 DEF CreateFails
    <2>4. Released'
      BY <1>0, <1>2 DEF CreateFails
    <2>5. \A t \in Sessions : SweepInv(t)'
      BY <1>2 DEF CreateFails
    <2> QED
      BY <1>0, <2>1, <2>2, <2>3, <2>4, <2>5
  <1>3. CASE AskLease(s)
    BY <1>0, <1>3 DEF AskLease
  <1>4. CASE Hold(s)
    <2>1. TypeOK'
      BY <1>4 DEF Hold
    <2>2. \A t \in Sessions : SessionInv(t)'
      BY <1>0, <1>4 DEF Hold
    <2>3. ListenerKeepsPath' /\ DeadSwept'
      BY <1>4 DEF Hold
    <2>4. Released'
      BY <1>0, <1>4 DEF Hold
    <2>5. \A t \in Sessions : SweepInv(t)'
      BY <1>4 DEF Hold
    <2> QED
      BY <1>0, <2>1, <2>2, <2>3, <2>4, <2>5
  <1>5. CASE HoldFails(s)
    <2>1. TypeOK'
      BY <1>5 DEF HoldFails
    <2>2. \A t \in Sessions : SessionInv(t)'
      BY <1>0, <1>5 DEF HoldFails
    <2>3. ListenerKeepsPath' /\ DeadSwept'
      BY <1>5 DEF HoldFails
    <2>4. Released'
      BY <1>0, <1>5 DEF HoldFails
    <2>5. \A t \in Sessions : SweepInv(t)'
      BY <1>5 DEF HoldFails
    <2> QED
      BY <1>0, <2>1, <2>2, <2>3, <2>4, <2>5
  <1>6. CASE CloseLease(s)
    <2>1. TypeOK'
      BY <1>6 DEF CloseLease
    <2>2. \A t \in Sessions : SessionInv(t)'
      BY <1>0, <1>6 DEF CloseLease
    <2>3. ListenerKeepsPath' /\ DeadSwept'
      BY <1>6 DEF CloseLease
    <2>4. Released'
      BY <1>0, <1>6 DEF CloseLease
    <2>5. \A t \in Sessions : SweepInv(t)'
      BY <1>6 DEF CloseLease
    <2> QED
      BY <1>0, <2>1, <2>2, <2>3, <2>4, <2>5
  <1> QED
    BY <1>1, <1>2, <1>3, <1>4, <1>5, <1>6
       DEF Lease

\* The local daemon's side of the lease.
LEMMA DaemonKeeps ==
    ASSUME SshInv, NEW s \in Sessions, Daemon(s)
    PROVE  SshInv'
  <1>0. InstallInv' /\ UNCHANGED step
    BY InstallUnchanged DEF SshInv, installVars, Daemon,
       GrantLease, AckLease, AckFails, BridgeDies
  <1> USE DEF SshInv, TypeOK, ListenerKeepsPath, DeadSwept, Released, SessionInv, SweepInv,
         Over, LeaseActive, Places, Leased, Up, Bridges, Go, Fallback, SetBridge, SetTable, SetLost,
         CloseLink, AfterSsh, sweepVars, remoteVars, localVars, leaseVars, tableVars
  <1>1. CASE GrantLease(s)
    <2>1. TypeOK'
      BY <1>1 DEF GrantLease
    <2>2. \A t \in Sessions : SessionInv(t)'
      BY <1>0, <1>1 DEF GrantLease
    <2>3. ListenerKeepsPath' /\ DeadSwept'
      BY <1>1 DEF GrantLease
    <2>4. Released'
      BY <1>0, <1>1 DEF GrantLease
    <2>5. \A t \in Sessions : SweepInv(t)'
      BY <1>1 DEF GrantLease
    <2> QED
      BY <1>0, <2>1, <2>2, <2>3, <2>4, <2>5
  <1>2. CASE AckLease(s)
    BY <1>0, <1>2 DEF AckLease
  <1>3. CASE AckFails(s)
    BY <1>0, <1>3 DEF AckFails
  <1>4. CASE BridgeDies(s)
    BY <1>0, <1>4 DEF BridgeDies
  <1> QED
    BY <1>1, <1>2, <1>3, <1>4
       DEF Daemon

\* The setup of an attach and its key table.
LEMMA TableKeeps ==
    ASSUME SshInv, NEW s \in Sessions, KeyTable(s)
    PROVE  SshInv'
  <1>0. InstallInv' /\ UNCHANGED step
    BY InstallUnchanged DEF SshInv, installVars, KeyTable,
       Setup, ActivateKeyTable, ActivateFails, DeactivateKeyTable, DeactivateFails
  <1> USE DEF SshInv, TypeOK, ListenerKeepsPath, DeadSwept, Released, SessionInv, SweepInv,
         Over, LeaseActive, Places, Leased, Up, Bridges, Go, Fallback, SetBridge, SetTable, SetLost,
         CloseLink, AfterSsh, sweepVars, remoteVars, localVars, leaseVars, tableVars
  <1>1. CASE Setup(s)
    <2>1. TypeOK'
      BY <1>1 DEF Setup
    <2>2. \A t \in Sessions : SessionInv(t)'
      BY <1>0, <1>1 DEF Setup
    <2>3. ListenerKeepsPath' /\ DeadSwept'
      BY <1>1 DEF Setup
    <2>4. Released'
      BY <1>0, <1>1 DEF Setup
    <2>5. \A t \in Sessions : SweepInv(t)'
      BY <1>1 DEF Setup
    <2> QED
      BY <1>0, <2>1, <2>2, <2>3, <2>4, <2>5
  <1>2. CASE ActivateKeyTable(s)
    <2>1. TypeOK'
      BY <1>2 DEF ActivateKeyTable
    <2>2. \A t \in Sessions : SessionInv(t)'
      BY <1>0, <1>2 DEF ActivateKeyTable
    <2>3. ListenerKeepsPath' /\ DeadSwept'
      BY <1>2 DEF ActivateKeyTable
    <2>4. Released'
      BY <1>0, <1>2 DEF ActivateKeyTable
    <2>5. \A t \in Sessions : SweepInv(t)'
      BY <1>2 DEF ActivateKeyTable
    <2> QED
      BY <1>0, <2>1, <2>2, <2>3, <2>4, <2>5
  <1>3. CASE ActivateFails(s)
    <2>1. TypeOK'
      <3>1. lost' \in [Sessions -> {"nothing", "reply", "request"}] /\ table' \in [Sessions -> BOOLEAN]
        <4>1. CASE UNCHANGED tableVars
          BY <4>1
        <4>2. CASE SetTable(s, TRUE) /\ SetLost(s, "reply")
          BY <4>2
        <4> QED
          BY <1>3, <4>1, <4>2 DEF ActivateFails
      <3> QED
        BY <1>3, <3>1 DEF ActivateFails
    <2>2. \A t \in Sessions : SessionInv(t)'
      BY <1>0, <1>3 DEF ActivateFails
    <2>3. ListenerKeepsPath' /\ DeadSwept'
      BY <1>3 DEF ActivateFails
    <2>4. Released'
      BY <1>0, <1>3 DEF ActivateFails
    <2>5. \A t \in Sessions : SweepInv(t)'
      BY <1>3 DEF ActivateFails
    <2> QED
      BY <1>0, <2>1, <2>2, <2>3, <2>4, <2>5
  <1>4. CASE DeactivateKeyTable(s)
    <2>1. TypeOK'
      BY <1>4 DEF DeactivateKeyTable
    <2>2. \A t \in Sessions : SessionInv(t)'
      BY <1>0, <1>4 DEF DeactivateKeyTable
    <2>3. ListenerKeepsPath' /\ DeadSwept'
      BY <1>4 DEF DeactivateKeyTable
    <2>4. Released'
      BY <1>0, <1>4 DEF DeactivateKeyTable
    <2>5. \A t \in Sessions : SweepInv(t)'
      BY <1>4 DEF DeactivateKeyTable
    <2> QED
      BY <1>0, <2>1, <2>2, <2>3, <2>4, <2>5
  <1>5. CASE DeactivateFails(s)
    <2>1. TypeOK'
      <3>1. lost' \in [Sessions -> {"nothing", "reply", "request"}] /\ table' \in [Sessions -> BOOLEAN]
        <4>1. CASE SetTable(s, FALSE) /\ UNCHANGED lost
          BY <4>1
        <4>2. CASE SetLost(s, "request") /\ UNCHANGED table
          BY <4>2
        <4> QED
          BY <1>5, <4>1, <4>2 DEF DeactivateFails
      <3> QED
        BY <1>5, <3>1 DEF DeactivateFails
    <2>2. \A t \in Sessions : SessionInv(t)'
      BY <1>0, <1>5 DEF DeactivateFails
    <2>3. ListenerKeepsPath' /\ DeadSwept'
      BY <1>5 DEF DeactivateFails
    <2>4. Released'
      BY <1>0, <1>5 DEF DeactivateFails
    <2>5. \A t \in Sessions : SweepInv(t)'
      BY <1>5 DEF DeactivateFails
    <2> QED
      BY <1>0, <2>1, <2>2, <2>3, <2>4, <2>5
  <1> QED
    BY <1>1, <1>2, <1>3, <1>4, <1>5
       DEF KeyTable

\* OpenSSH and the client's end.
LEMMA ClientKeeps ==
    ASSUME SshInv, NEW s \in Sessions, Ssh(s)
    PROVE  SshInv'
  <1>0. InstallInv' /\ UNCHANGED step
    BY InstallUnchanged DEF SshInv, installVars, Ssh,
       StartSsh, SshReturns, PlainEnds, Killed
  <1> USE DEF SshInv, TypeOK, ListenerKeepsPath, DeadSwept, Released, SessionInv, SweepInv,
         Over, LeaseActive, Places, Leased, Up, Bridges, Go, Fallback, SetBridge, SetTable, SetLost,
         CloseLink, AfterSsh, sweepVars, remoteVars, localVars, leaseVars, tableVars
  <1>1. CASE StartSsh(s)
    <2>1. TypeOK'
      BY <1>1 DEF StartSsh
    <2>2. \A t \in Sessions : SessionInv(t)'
      BY <1>0, <1>1 DEF StartSsh
    <2>3. ListenerKeepsPath' /\ DeadSwept'
      BY <1>1 DEF StartSsh
    <2>4. Released'
      BY <1>0, <1>1 DEF StartSsh
    <2>5. \A t \in Sessions : SweepInv(t)'
      <3>1. \A t \in Sessions : tunnel[t] # "none" => tunnel'[t] = tunnel[t]
        BY <1>1 DEF StartSsh
      <3>2. UNCHANGED <<sweep, doomed, found, missed, file>>
        BY <1>1 DEF StartSsh
      <3>3. at'[s] # "sweeping" /\ \A t \in Sessions : t # s => at'[t] = at[t]
        BY <1>1 DEF StartSsh
      <3>4. \A t \in Sessions : tunnel'[t] \in Up => tunnel[t] \in Up
        BY <1>1 DEF StartSsh
      <3> QED
        BY <3>1, <3>2, <3>3, <3>4
    <2> QED
      BY <1>0, <2>1, <2>2, <2>3, <2>4, <2>5
  <1>2. CASE SshReturns(s)
    BY <1>0, <1>2 DEF SshReturns
  <1>3. CASE PlainEnds(s)
    BY <1>0, <1>3 DEF PlainEnds
  <1>4. CASE Killed(s)
    <2>1. TypeOK'
      <3>1. bridge' \in [Sessions -> Bridges] /\ link' \in [Sessions -> {"none", "open", "closed"}]
        <4>1. CASE CloseLink(s)
          <5>1. link' = [link EXCEPT ![s] = IF link[s] = "open" THEN "closed" ELSE link[s]]
            BY <4>1
          <5>2. link' \in [Sessions -> {"none", "open", "closed"}]
            BY <5>1
          <5>3. bridge' \in [Sessions -> Bridges]
            BY <4>1
          <5> QED
            BY <5>2, <5>3
        <4>2. CASE SetBridge(s, "open") /\ UNCHANGED link
          BY <4>2
        <4> QED
          BY <1>4, <4>1, <4>2 DEF Killed
      <3>2. table' \in [Sessions -> BOOLEAN]
        <4>1. CASE UNCHANGED table
          BY <4>1
        <4>2. CASE SetTable(s, TRUE)
          BY <4>2
        <4>3. CASE SetTable(s, FALSE)
          BY <4>3
        <4> QED
          BY <1>4, <4>1, <4>2, <4>3 DEF Killed
      <3> QED
        BY <1>4, <3>1, <3>2 DEF Killed
    <2>2. \A t \in Sessions : SessionInv(t)'
      BY <1>0, <1>4 DEF Killed
    <2>3. ListenerKeepsPath' /\ DeadSwept'
      BY <1>4 DEF Killed
    <2>4. Released'
      BY <1>0, <1>4 DEF Killed
    <2>5. \A t \in Sessions : SweepInv(t)'
      BY <1>4 DEF Killed
    <2> QED
      BY <1>0, <2>1, <2>2, <2>3, <2>4, <2>5
  <1> QED
    BY <1>1, <1>2, <1>3, <1>4
       DEF Ssh

\* The tunnel's listener and remote-run on the host.
LEMMA RemoteKeeps ==
    ASSUME SshInv, NEW s \in Sessions, Remote(s)
    PROVE  SshInv'
  <1>0. InstallInv' /\ UNCHANGED step
    BY InstallUnchanged DEF SshInv, installVars, Remote, Bind, Listen, RunStarts, RunEnds,
       TunnelEnds
  <1> USE DEF SshInv, TypeOK, ListenerKeepsPath, DeadSwept, Released, SessionInv, SweepInv,
         Over, LeaseActive, Places, Leased, Up, Bridges,
         sweepVars, remoteVars, localVars, leaseVars, tableVars
  <1>1. CASE Bind(s)
    BY <1>0, <1>1 DEF Bind
  <1>2. CASE Listen(s)
    BY <1>0, <1>2 DEF Listen
  <1>3. CASE RunStarts(s)
    BY <1>0, <1>3 DEF RunStarts
  <1>4. CASE RunEnds(s)
    BY <1>0, <1>4 DEF RunEnds
  <1>5. CASE TunnelEnds(s)
    BY <1>0, <1>5 DEF TunnelEnds
  <1> QED
    BY <1>1, <1>2, <1>3, <1>4, <1>5 DEF Remote

\* Every reachable state of every set of sessions satisfies the invariant
\* (bootstrap.go, wrapper.go, init.go, run.go, commands_herdr.go).
THEOREM SshInvariant == Spec => []SshInv
  <1>1. SshInv /\ [Next]_vars => SshInv'
    <2> SUFFICES ASSUME SshInv, [Next]_vars PROVE SshInv'
      OBVIOUS
    <2>1. CASE Next
      BY <2>1, InstallStepKeeps, SweepKeeps, LeaseKeeps, DaemonKeeps, TableKeeps, ClientKeeps,
         RemoteKeeps DEF Next
    <2>2. CASE UNCHANGED vars
      BY <2>2, InstallUnchanged DEF vars, installVars, sessionVars, sweepVars, remoteVars,
         localVars, leaseVars, tableVars, LeaseActive, Bridges, SshInv, TypeOK,
         ListenerKeepsPath, DeadSwept, Released, SessionInv, SweepInv, Over
    <2> QED
      BY <2>1, <2>2
  <1> QED
    BY InitSsh, <1>1, PTL DEF Spec

\* The install path holds a gty that is not whole only after a copy was cut off.
THEOREM InstallsNeverMix == Spec => []WholeUnlessCut
  <1>1. SshInv => WholeUnlessCut
    BY DEF SshInv, InstallInv
  <1> QED
    BY SshInvariant, <1>1, PTL

\* A session keeps the managed gty it was given until another one replaces it.
THEOREM ManagedStaysVerified == Spec => []ReadyHolds
  <1>1. SshInv => ReadyHolds
    BY DEF SshInv, InstallInv
  <1> QED
    BY SshInvariant, <1>1, PTL

\* BootstrapSource's temporary files are removed on every return.
THEOREM TempsRemoved == Spec => []NoTempLeft
  <1>1. SshInv => NoTempLeft
    BY DEF SshInv, InstallInv
  <1> QED
    BY SshInvariant, <1>1, PTL

\* Only a probe in the wrong moment costs a live session its socket.
THEOREM SweepsSpareListeners == Spec => []ListenerKeepsPath
  <1>1. SshInv => ListenerKeepsPath
    BY DEF SshInv
  <1> QED
    BY SshInvariant, <1>1, PTL

\* cleanupDeadSockets removes every dead socket it lists.
THEOREM SweepIsComplete == Spec => []DeadSwept
  <1>1. SshInv => DeadSwept
    BY DEF SshInv
  <1> QED
    BY SshInvariant, <1>1, PTL

\* A session that is over leaves no lease that was acknowledged to it, and no key table
\* but by a kill or a call that failed (Hold, Close, runHerdrAttach).
THEOREM SessionsRelease == Spec => []Released
  <1>1. SshInv => Released
    BY DEF SshInv
  <1> QED
    BY SshInvariant, <1>1, PTL
=============================================================================
