------------------------ MODULE HerdrNavigation_proofs ------------------------
(* What holds of every number of keypresses, panes, setups and servers. *)
EXTENDS HerdrNavigation, TLAPS

\* No setup has begun and no server runs.
LEMMA InitSetup == SetupInit => SetupInv
  BY SetupAssumption DEF SetupInit, SetupInv, SetupTypeOK, SetupReachesServers, SetupSteps

\* EnsureBindings, the list of sessions and the reloads: only an append writes the
\* config, and it overtakes every other setup that has read it.
LEMMA SetupStepKeeps ==
    ASSUME SetupInv, NEW s \in Setups, SetupStep(s)
    PROVE  SetupInv'
  <1> USE SetupAssumption DEF SetupGo, configVars, serverVars, Overtake
  <1> DEFINE Known(t) ==
               /\ setup[t] = "checked" => copies = 0 /\ ~spoiled
               /\ setup[t] \in {"written", "reloading", "ok"} => Runs(copies, spoiled)
               /\ setup[t] = "reloading" => \A v \in since[t] \ toReload[t] : loaded[v]
               /\ setup[t] = "ok" => \A v \in since[t] : loaded[v]
  <1>1. SetupTypeOK'
    <2> USE DEF SetupInv, SetupTypeOK, SetupSteps
    <2>1. CASE ReadConfig(s)
      BY <2>1 DEF ReadConfig
    <2>2. CASE AppendBindings(s) \/ AppendFails(s)
      <3>0. copies' \in Nat /\ overtaken' \subseteq Setups
        BY <2>2 DEF AppendBindings, AppendFails
      <3>1. spoiled' \in BOOLEAN
        BY <2>2, Zenon DEF AppendBindings, AppendFails
      <3>2. setup' \in [Setups -> SetupSteps]
        BY <2>2 DEF AppendBindings, AppendFails
      <3>3. UNCHANGED <<changes, since, toReload, running, starting, loaded>>
        BY <2>2 DEF AppendBindings, AppendFails
      <3> QED
        BY <3>0, <3>1, <3>2, <3>3
    <2>3. CASE ListSessions(s) \/ SetupFails(s) \/ SetupEnds(s)
      BY <2>3 DEF ListSessions, SetupFails, SetupEnds
    <2>4. ASSUME NEW v \in Servers, Reload(s, v) PROVE SetupTypeOK'
      BY <2>4 DEF Reload, Runs
    <2> QED
      BY <2>1, <2>2, <2>3, <2>4 DEF SetupStep
  <1>2. /\ running' = running /\ starting' = starting
        /\ \A t \in Setups : since'[t] \subseteq running
    BY DEF SetupInv, SetupTypeOK, SetupStep, ReadConfig, AppendBindings, AppendFails,
       ListSessions, SetupFails,
       SetupEnds, Reload
  <1>3. ASSUME NEW t \in Setups, t \notin overtaken'
        PROVE  Known(t)'
    <2>1. CASE ReadConfig(s)
      BY <1>3, <2>1 DEF SetupInv, SetupTypeOK, SetupReachesServers, Runs, ReadConfig
    <2>2. CASE AppendBindings(s)
      BY <1>3, <2>2 DEF SetupInv, SetupTypeOK, SetupReachesServers, Runs, AppendBindings
    <2>3. CASE AppendFails(s)
      BY <1>3, <2>3 DEF SetupInv, SetupTypeOK, SetupReachesServers, Runs, AppendFails
    <2>4. CASE ListSessions(s)
      BY <1>3, <2>4 DEF SetupInv, SetupTypeOK, SetupReachesServers, Runs, ListSessions
    <2>5. CASE SetupFails(s)
      BY <1>3, <2>5 DEF SetupInv, SetupTypeOK, SetupReachesServers, Runs, SetupFails
    <2>6. CASE SetupEnds(s)
      BY <1>3, <2>6 DEF SetupInv, SetupTypeOK, SetupReachesServers, Runs, SetupEnds
    <2>7. ASSUME NEW v \in Servers, Reload(s, v) PROVE Known(t)'
      BY <1>3, <2>7 DEF SetupInv, SetupTypeOK, SetupReachesServers, Reload
    <2> HIDE DEF Known
    <2> QED
      BY <2>1, <2>2, <2>3, <2>4, <2>5, <2>6, <2>7 DEF SetupStep
  <1> QED
    BY <1>1, <1>2, <1>3 DEF SetupInv, SetupReachesServers, Runs

\* Servers start, stop and read the config as it is.
LEMMA ServerKeeps ==
    ASSUME SetupInv, NEW v \in Servers, ServerReads(v) \/ ServerUp(v) \/ ServerStops(v)
    PROVE  SetupInv'
  <1> USE SetupAssumption DEF configVars, setupVars
  <1>1. CASE ServerReads(v)
    BY <1>1 DEF SetupInv, SetupTypeOK, SetupReachesServers, Runs, ServerReads
  <1>2. CASE ServerUp(v)
    BY <1>2 DEF SetupInv, SetupTypeOK, SetupReachesServers, Runs, ServerUp
  <1>3. CASE ServerStops(v)
    BY <1>3 DEF SetupInv, SetupTypeOK, SetupReachesServers, Runs, ServerStops
  <1> QED
    BY <1>1, <1>2, <1>3

\* The user's edit overtakes every setup that has read the config.
LEMMA EditKeeps == SetupInv /\ UserEdits => SetupInv'
  BY SetupAssumption DEF SetupInv, SetupTypeOK, SetupReachesServers, UserEdits, setupVars,
     serverVars

\* Navigation leaves setups alone, but for the count of changes.
LEMMA SetupUnchanged == SetupInv /\ (UNCHANGED herdrVars \/ Change) => SetupInv'
  BY SetupAssumption DEF SetupInv, SetupTypeOK, SetupReachesServers, Runs, Change, herdrVars,
     configVars, setupVars, serverVars

\* The navigation's part of the invariant.
NavInv == NavTypeOK /\ TitleRestored /\ \A p \in Presses : MovedOnce(p) /\ PressInv(p)

\* No key is pressed yet.
LEMMA InitNav == Init => NavInv
  <1> SUFFICES ASSUME Init PROVE NavInv
    OBVIOUS
  <1>1. NavTypeOK
    BY DEF Init, NavTypeOK, Calls, Layers, Clients, titleVars
  <1>2. TitleRestored /\ \A p \in Presses : MovedOnce(p) /\ PressInv(p)
    BY DEF Init, TitleRestored, MovedOnce, PressInv, Calls, AtCall
  <1> QED
    BY <1>1, <1>2 DEF NavInv

\* What setups and other servers do leaves keypresses alone.
LEMMA NavUnchanged == NavInv /\ UNCHANGED navVars => NavInv'
  BY DEF NavInv, NavTypeOK, TitleRestored, MovedOnce, PressInv, AtCall, Layer, navVars, pressVars,
     callVars, paneVars, clientVars, titleVars

\* The ladder reads an answer, or fails (Navigate).
LEMMA LadderKeeps ==
    ASSUME NavInv, NEW p \in Presses,
           Press(p) \/ ReadInfo(p) \/ ReadNeighbor(p) \/ ReadTitle(p) \/ ReadLast(p) \/ Fail(p)
    PROVE  NavInv'
  <1> USE DEF pressVars, paneVars, clientVars, callVars, Calls, Layers, Clients, titleVars, Call, End
  <1>1. CASE Press(p)
    <2>1. NavTypeOK'
      <3>1. Layer(focused) \in Layers
        BY DEF Layer
      <3> QED
        BY <1>1, <3>1 DEF NavInv, NavTypeOK, Press
    <2>2. ASSUME NEW q \in Presses PROVE MovedOnce(q)' /\ PressInv(q)'
      <3>1. CASE q = p
        BY <1>1, <3>1 DEF NavInv, NavTypeOK, MovedOnce, PressInv, AtCall, Layer, Press
      <3>2. CASE q # p
        BY <1>1, <3>2 DEF NavInv, NavTypeOK, MovedOnce, PressInv, AtCall, Layer, Press
      <3> QED
        BY <3>1, <3>2
    <2>3. TitleRestored'
      BY <1>1 DEF NavInv, NavTypeOK, TitleRestored, PressInv, Press
    <2> QED
      BY <2>1, <2>2, <2>3 DEF NavInv
  <1>2. CASE ReadInfo(p)
    <2>1. NavTypeOK'
      BY <1>2 DEF NavInv, NavTypeOK, ReadInfo
    <2>2. ASSUME NEW q \in Presses PROVE MovedOnce(q)' /\ PressInv(q)'
      <3>1. CASE q = p
        BY <1>2, <3>1 DEF NavInv, NavTypeOK, MovedOnce, PressInv, AtCall, Layer, ReadInfo
      <3>2. CASE q # p
        BY <1>2, <3>2 DEF NavInv, NavTypeOK, MovedOnce, PressInv, AtCall, Layer, ReadInfo
      <3> QED
        BY <3>1, <3>2
    <2>3. TitleRestored'
      BY <1>2 DEF NavInv, NavTypeOK, TitleRestored, PressInv, ReadInfo
    <2> QED
      BY <2>1, <2>2, <2>3 DEF NavInv
  <1>3. CASE ReadNeighbor(p)
    <2>1. NavTypeOK'
      BY <1>3 DEF NavInv, NavTypeOK, ReadNeighbor
    <2>2. ASSUME NEW q \in Presses PROVE MovedOnce(q)' /\ PressInv(q)'
      <3>1. CASE q = p
        BY <1>3, <3>1 DEF NavInv, NavTypeOK, MovedOnce, PressInv, AtCall, Layer, ReadNeighbor
      <3>2. CASE q # p
        BY <1>3, <3>2 DEF NavInv, NavTypeOK, MovedOnce, PressInv, AtCall, Layer, ReadNeighbor
      <3> QED
        BY <3>1, <3>2
    <2>3. TitleRestored'
      BY <1>3 DEF NavInv, NavTypeOK, TitleRestored, PressInv, ReadNeighbor
    <2> QED
      BY <2>1, <2>2, <2>3 DEF NavInv
  <1>4. CASE ReadTitle(p)
    <2>1. NavTypeOK'
      BY <1>4 DEF NavInv, NavTypeOK, ReadTitle
    <2>2. ASSUME NEW q \in Presses PROVE MovedOnce(q)' /\ PressInv(q)'
      <3>1. CASE q = p
        BY <1>4, <3>1 DEF NavInv, NavTypeOK, MovedOnce, PressInv, AtCall, Layer, ReadTitle
      <3>2. CASE q # p
        BY <1>4, <3>2 DEF NavInv, NavTypeOK, MovedOnce, PressInv, AtCall, Layer, ReadTitle
      <3> QED
        BY <3>1, <3>2
    <2>3. TitleRestored'
      BY <1>4 DEF NavInv, NavTypeOK, TitleRestored, PressInv, ReadTitle
    <2> QED
      BY <2>1, <2>2, <2>3 DEF NavInv
  <1>5. CASE ReadLast(p)
    <2>1. NavTypeOK'
      BY <1>5 DEF NavInv, NavTypeOK, ReadLast
    <2>2. ASSUME NEW q \in Presses PROVE MovedOnce(q)' /\ PressInv(q)'
      <3>1. CASE q = p
        BY <1>5, <3>1 DEF NavInv, NavTypeOK, MovedOnce, PressInv, AtCall, Layer, ReadLast
      <3>2. CASE q # p
        BY <1>5, <3>2 DEF NavInv, NavTypeOK, MovedOnce, PressInv, AtCall, Layer, ReadLast
      <3> QED
        BY <3>1, <3>2
    <2>3. TitleRestored'
      BY <1>5 DEF NavInv, NavTypeOK, TitleRestored, PressInv, ReadLast
    <2> QED
      BY <2>1, <2>2, <2>3 DEF NavInv
  <1>6. CASE Fail(p)
    <2>1. NavTypeOK'
      BY <1>6 DEF NavInv, NavTypeOK, Fail
    <2>2. ASSUME NEW q \in Presses PROVE MovedOnce(q)' /\ PressInv(q)'
      <3>1. CASE q = p
        BY <1>6, <3>1 DEF NavInv, NavTypeOK, MovedOnce, PressInv, AtCall, Layer, Fail
      <3>2. CASE q # p
        BY <1>6, <3>2 DEF NavInv, NavTypeOK, MovedOnce, PressInv, AtCall, Layer, Fail
      <3> QED
        BY <3>1, <3>2
    <2>3. TitleRestored'
      BY <1>6 DEF NavInv, NavTypeOK, TitleRestored, PressInv, Fail
    <2> QED
      BY <2>1, <2>2, <2>3 DEF NavInv
  <1> QED
    BY <1>1, <1>2, <1>3, <1>4, <1>5, <1>6

\* Herdr performs a request or drops it.
LEMMA HerdrKeeps ==
    ASSUME NavInv, NEW p \in Presses,
           \/ GiveInfo(p) \/ SendKeys(p) \/ GiveNeighbor(p) \/ FocusDirection(p)
           \/ SetWindowTitle(p) \/ ClearWindowTitle(p) \/ Drop(p)
    PROVE  NavInv'
  <1> USE DEF pressVars, paneVars, clientVars, callVars, Calls, Layers, Clients, titleVars, Perform, YesNo
  <1>1. CASE GiveInfo(p)
    <2>1. NavTypeOK'
      BY <1>1 DEF NavInv, NavTypeOK, GiveInfo
    <2>2. ASSUME NEW q \in Presses PROVE MovedOnce(q)' /\ PressInv(q)'
      <3>1. CASE q = p
        BY <1>1, <3>1 DEF NavInv, NavTypeOK, MovedOnce, PressInv, AtCall, Layer, GiveInfo
      <3>2. CASE q # p
        BY <1>1, <3>2 DEF NavInv, NavTypeOK, MovedOnce, PressInv, AtCall, Layer, GiveInfo
      <3> QED
        BY <3>1, <3>2
    <2>3. TitleRestored'
      BY <1>1 DEF NavInv, NavTypeOK, TitleRestored, PressInv, GiveInfo
    <2> QED
      BY <2>1, <2>2, <2>3 DEF NavInv
  <1>2. CASE SendKeys(p)
    <2>1. NavTypeOK'
      BY <1>2 DEF NavInv, NavTypeOK, SendKeys
    <2>2. ASSUME NEW q \in Presses PROVE MovedOnce(q)' /\ PressInv(q)'
      <3>1. CASE q = p
        BY <1>2, <3>1 DEF NavInv, NavTypeOK, MovedOnce, PressInv, AtCall, Layer, SendKeys
      <3>2. CASE q # p
        BY <1>2, <3>2 DEF NavInv, NavTypeOK, MovedOnce, PressInv, AtCall, Layer, SendKeys
      <3> QED
        BY <3>1, <3>2
    <2>3. TitleRestored'
      BY <1>2 DEF NavInv, NavTypeOK, TitleRestored, PressInv, SendKeys
    <2> QED
      BY <2>1, <2>2, <2>3 DEF NavInv
  <1>3. CASE GiveNeighbor(p)
    <2>1. NavTypeOK'
      BY <1>3 DEF NavInv, NavTypeOK, GiveNeighbor
    <2>2. ASSUME NEW q \in Presses PROVE MovedOnce(q)' /\ PressInv(q)'
      <3>1. CASE q = p
        BY <1>3, <3>1 DEF NavInv, NavTypeOK, MovedOnce, PressInv, AtCall, Layer, GiveNeighbor
      <3>2. CASE q # p
        BY <1>3, <3>2 DEF NavInv, NavTypeOK, MovedOnce, PressInv, AtCall, Layer, GiveNeighbor
      <3> QED
        BY <3>1, <3>2
    <2>3. TitleRestored'
      BY <1>3 DEF NavInv, NavTypeOK, TitleRestored, PressInv, GiveNeighbor
    <2> QED
      BY <2>1, <2>2, <2>3 DEF NavInv
  <1>4. CASE FocusDirection(p)
    <2>1. NavTypeOK'
      BY <1>4 DEF NavInv, NavTypeOK, FocusDirection
    <2>2. ASSUME NEW q \in Presses PROVE MovedOnce(q)' /\ PressInv(q)'
      <3>1. CASE q = p
        BY <1>4, <3>1 DEF NavInv, NavTypeOK, MovedOnce, PressInv, AtCall, Layer, FocusDirection
      <3>2. CASE q # p
        BY <1>4, <3>2 DEF NavInv, NavTypeOK, MovedOnce, PressInv, AtCall, Layer, FocusDirection
      <3> QED
        BY <3>1, <3>2
    <2>3. TitleRestored'
      BY <1>4 DEF NavInv, NavTypeOK, TitleRestored, PressInv, FocusDirection
    <2> QED
      BY <2>1, <2>2, <2>3 DEF NavInv
  <1>5. CASE SetWindowTitle(p)
    <2>1. NavTypeOK'
      BY <1>5 DEF NavInv, NavTypeOK, SetWindowTitle
    <2>2. ASSUME NEW q \in Presses PROVE MovedOnce(q)' /\ PressInv(q)'
      <3>1. CASE q = p
        BY <1>5, <3>1 DEF NavInv, NavTypeOK, MovedOnce, PressInv, AtCall, Layer, SetWindowTitle
      <3>2. CASE q # p
        BY <1>5, <3>2 DEF NavInv, NavTypeOK, MovedOnce, PressInv, AtCall, Layer, SetWindowTitle
      <3> QED
        BY <3>1, <3>2
    <2>3. TitleRestored'
      <3>1. /\ carrier[p] = "none" /\ carrier' = [carrier EXCEPT ![p] = attached]
            /\ titled' = titled \cup ({attached} \ {"none"})
            /\ asked[p] = "set" /\ step' = step /\ strayed' = strayed
        BY <1>5 DEF NavInv, NavTypeOK, PressInv, SetWindowTitle
      <3>2. ASSUME NEW k \in titled
            PROVE  \E q \in Presses :
                      /\ carrier'[q] = k
                      /\ \/ step'[q] = "set" /\ answer'[q] = "yes"
                         \/ step'[q] = "clear" /\ asked'[q] = "clear"
                         \/ step'[q] = "failed"
                         \/ q \in strayed'
        BY <1>5, <3>1, <3>2 DEF NavInv, NavTypeOK, TitleRestored, SetWindowTitle
      <3>3. attached # "none" =>
               carrier'[p] = attached /\ (step'[p] = "failed" \/ (step'[p] = "set" /\ answer'[p] = "yes"))
        <4>1. step[p] \in {"set", "failed"}
          BY <3>1 DEF NavInv, NavTypeOK, PressInv
        <4> QED
          BY <1>5, <3>1, <4>1 DEF NavInv, NavTypeOK, SetWindowTitle
      <3> QED
        BY <3>1, <3>2, <3>3 DEF TitleRestored
    <2> QED
      BY <2>1, <2>2, <2>3 DEF NavInv
  <1>6. CASE ClearWindowTitle(p)
    <2>1. NavTypeOK'
      BY <1>6 DEF NavInv, NavTypeOK, ClearWindowTitle
    <2>2. ASSUME NEW q \in Presses PROVE MovedOnce(q)' /\ PressInv(q)'
      <3>1. CASE q = p
        BY <1>6, <3>1 DEF NavInv, NavTypeOK, MovedOnce, PressInv, AtCall, Layer, ClearWindowTitle
      <3>2. CASE q # p
        BY <1>6, <3>2 DEF NavInv, NavTypeOK, MovedOnce, PressInv, AtCall, Layer, ClearWindowTitle
      <3> QED
        BY <3>1, <3>2
    <2>3. TitleRestored'
      BY <1>6 DEF NavInv, NavTypeOK, TitleRestored, PressInv, ClearWindowTitle
    <2> QED
      BY <2>1, <2>2, <2>3 DEF NavInv
  <1>7. CASE Drop(p)
    <2>1. NavTypeOK'
      BY <1>7 DEF NavInv, NavTypeOK, Drop
    <2>2. ASSUME NEW q \in Presses PROVE MovedOnce(q)' /\ PressInv(q)'
      <3>1. CASE q = p
        BY <1>7, <3>1 DEF NavInv, NavTypeOK, MovedOnce, PressInv, AtCall, Layer, Drop
      <3>2. CASE q # p
        BY <1>7, <3>2 DEF NavInv, NavTypeOK, MovedOnce, PressInv, AtCall, Layer, Drop
      <3> QED
        BY <3>1, <3>2
    <2>3. TitleRestored'
      BY <1>7 DEF NavInv, NavTypeOK, TitleRestored, PressInv, Drop
    <2> QED
      BY <2>1, <2>2, <2>3 DEF NavInv
  <1> QED
    BY <1>1, <1>2, <1>3, <1>4, <1>5, <1>6, <1>7

\* The attach's filter takes a title from the stream.
LEMMA FilterKeeps ==
    ASSUME NavInv, NEW p \in Presses,
           FilterFocuses(p) \/ FilterFails(p)
    PROVE  NavInv'
  <1> USE DEF pressVars, paneVars, clientVars, callVars, Calls, Layers, Clients, titleVars, herdrVars
  <1>1. CASE FilterFocuses(p)
    <2>1. NavTypeOK'
      BY <1>1 DEF NavInv, NavTypeOK, FilterFocuses
    <2>2. ASSUME NEW q \in Presses PROVE MovedOnce(q)' /\ PressInv(q)'
      <3>1. CASE q = p
        BY <1>1, <3>1 DEF NavInv, NavTypeOK, MovedOnce, PressInv, AtCall, Layer, FilterFocuses
      <3>2. CASE q # p
        BY <1>1, <3>2 DEF NavInv, NavTypeOK, MovedOnce, PressInv, AtCall, Layer, FilterFocuses
      <3> QED
        BY <3>1, <3>2
    <2>3. TitleRestored'
      BY <1>1 DEF NavInv, NavTypeOK, TitleRestored, PressInv, FilterFocuses
    <2> QED
      BY <2>1, <2>2, <2>3 DEF NavInv
  <1>2. CASE FilterFails(p)
    <2>1. NavTypeOK'
      BY <1>2 DEF NavInv, NavTypeOK, FilterFails
    <2>2. ASSUME NEW q \in Presses PROVE MovedOnce(q)' /\ PressInv(q)'
      <3>1. CASE q = p
        BY <1>2, <3>1 DEF NavInv, NavTypeOK, MovedOnce, PressInv, AtCall, Layer, FilterFails
      <3>2. CASE q # p
        BY <1>2, <3>2 DEF NavInv, NavTypeOK, MovedOnce, PressInv, AtCall, Layer, FilterFails
      <3> QED
        BY <3>1, <3>2
    <2>3. TitleRestored'
      BY <1>2 DEF NavInv, NavTypeOK, TitleRestored, PressInv, FilterFails
    <2> QED
      BY <2>1, <2>2, <2>3 DEF NavInv
  <1> QED
    BY <1>1, <1>2

\* Panes and clients change: the keypresses of the pane are disrupted.
LEMMA ChangeKeeps ==
    ASSUME NavInv, \/ \E x \in Panes : NvimChanges(x) \/ LayoutChanges(x)
                   \/ ClientChanges \/ HomeStops
    PROVE  NavInv'
  <1> USE DEF pressVars, callVars, paneVars, clientVars, Calls, Layers, Clients, titleVars, From
  <1>1. ASSUME NEW x \in Panes, NvimChanges(x) PROVE NavInv'
    BY <1>1 DEF NavInv, NavTypeOK, TitleRestored, MovedOnce, PressInv, AtCall, Layer, NvimChanges
  <1>2. ASSUME NEW x \in Panes, LayoutChanges(x) PROVE NavInv'
    <2>1. NavTypeOK'
      BY <1>2 DEF NavInv, NavTypeOK, LayoutChanges
    <2>2. ASSUME NEW q \in Presses PROVE MovedOnce(q)' /\ PressInv(q)'
      BY <1>2 DEF NavInv, NavTypeOK, MovedOnce, PressInv, AtCall, Layer, LayoutChanges
    <2>3. TitleRestored'
      BY <1>2 DEF NavInv, TitleRestored, LayoutChanges
    <2> QED
      BY <2>1, <2>2, <2>3 DEF NavInv
  <1>3. CASE ClientChanges
    BY <1>3 DEF NavInv, NavTypeOK, TitleRestored, MovedOnce, PressInv, AtCall, Layer, ClientChanges
  <1>4. CASE HomeStops
    <2>1. NavTypeOK'
      BY <1>4 DEF NavInv, NavTypeOK, HomeStops
    <2>2. ASSUME NEW q \in Presses PROVE MovedOnce(q)' /\ PressInv(q)'
      BY <1>4 DEF NavInv, NavTypeOK, MovedOnce, PressInv, AtCall, HomeStops
    <2>3. TitleRestored'
      BY <1>4 DEF TitleRestored, HomeStops
    <2> QED
      BY <2>1, <2>2, <2>3 DEF NavInv
  <1> QED
    BY <1>1, <1>2, <1>3, <1>4

\* Every step of the composition keeps both parts.
LEMMA HerdrStepKeeps == SetupInv /\ NavInv /\ [Next]_vars => SetupInv' /\ NavInv'
  <1> SUFFICES ASSUME SetupInv, NavInv, [Next]_vars PROVE SetupInv' /\ NavInv'
    OBVIOUS
  <1>1. ASSUME NEW p \in Presses, Press(p) \/ ClientStep(p) \/ HerdrStep(p) \/ FilterStep(p)
        PROVE  SetupInv' /\ NavInv'
    <2>1. UNCHANGED herdrVars
      BY <1>1 DEF ClientStep, HerdrStep, FilterStep, Press, ReadInfo, ReadNeighbor, ReadTitle,
         ReadLast, Fail, GiveInfo,
         SendKeys, GiveNeighbor, FocusDirection, SetWindowTitle, ClearWindowTitle, Drop, Perform,
         FilterFocuses,
         FilterFails
    <2> QED
      BY <1>1, <2>1, SetupUnchanged, LadderKeeps, HerdrKeeps, FilterKeeps DEF ClientStep,
         HerdrStep, FilterStep
  <1>2. ASSUME NEW x \in Panes, NvimChanges(x) \/ LayoutChanges(x) PROVE SetupInv' /\ NavInv'
    <2>1. Change
      BY <1>2 DEF NvimChanges, LayoutChanges
    <2> QED
      BY <1>2, <2>1, SetupUnchanged, ChangeKeeps
  <1>3. CASE ClientChanges
    <2>1. Change
      BY <1>3 DEF ClientChanges
    <2> QED
      BY <1>3, <2>1, SetupUnchanged, ChangeKeeps
  <1>4. CASE HomeStops
    <2>1. ServerStops(Home)
      BY <1>4 DEF HomeStops
    <2> QED
      BY <1>4, <2>1, ServerKeeps, ChangeKeeps, NavigationAssumption
  <1>5. CASE HostStep
    BY <1>5, SetupStepKeeps, ServerKeeps, EditKeeps, NavUnchanged DEF HostStep
  <1>6. CASE UNCHANGED vars
    BY <1>6, SetupUnchanged, NavUnchanged DEF vars
  <1> QED
    BY <1>1, <1>2, <1>3, <1>4, <1>5, <1>6 DEF Next

LEMMA Inductive == Spec => [](SetupInv /\ NavInv)
  <1>1. Init => SetupInv /\ NavInv
    BY InitSetup, InitNav DEF Init
  <1> QED
    BY <1>1, HerdrStepKeeps, PTL DEF Spec

\* Every reachable state has the types and the invariant (navigation.go, setup.go).
THEOREM HerdrInvariant == Spec => []HerdrInv
  <1>1. SetupInv /\ NavInv => HerdrInv
    BY DEF NavInv, HerdrInv, OneMove
  <1> QED
    BY <1>1, Inductive, PTL

\* A keypress moves one layer at most, and unless its pane changes the innermost one
\* (Navigate).
THEOREM KeypressMovesOnce == Spec => []OneMove
  <1>1. NavInv => OneMove
    BY DEF NavInv, OneMove
  <1> QED
    BY <1>1, Inductive, PTL

\* A ladder that succeeds leaves a navigation title only at a client that left the
\* foreground between its two requests (signalOuterLayer).
THEOREM TitlesRestored == Spec => []TitleRestored
  <1>1. NavInv => TitleRestored
    BY DEF NavInv
  <1> QED
    BY <1>1, Inductive, PTL

\* A setup that succeeds and that nobody overtook leaves every server that ran
\* throughout with the bindings (runHerdrSetup).
THEOREM SetupsReachServers == Spec => []SetupReachesServers
  <1>1. SetupInv => SetupReachesServers
    BY DEF SetupInv
  <1> QED
    BY <1>1, Inductive, PTL
=============================================================================
