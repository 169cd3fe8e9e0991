----------------------- MODULE TerminalBinding_proofs -----------------------
(* What a resolved binding is worth, for every Ghostty and every set of    *)
(* commands: proofs of the properties of TerminalBinding.                  *)
EXTENDS TerminalBinding, SequenceTheorems, FiniteSetTheorems, TLAPS

\* Putting a terminal in a place, or taking one out, leaves a sequence of terminals.
LEMMA InsertType ==
  ASSUME NEW S, NEW s \in Seq(S), NEW e \in S, NEW i \in 1..Len(s) + 1
  PROVE  InsertAt(s, i, e) \in Seq(S)
<1>1. SubSeq(s, 1, i - 1) \in Seq(S)
  BY SubSeqProperties
<1>2. SubSeq(s, i, Len(s)) \in Seq(S)
  BY SubSeqProperties
<1> QED BY <1>1, <1>2 DEF InsertAt

LEMMA RemoveType ==
  ASSUME NEW S, NEW s \in Seq(S), NEW i \in DOMAIN s
  PROVE  RemoveAt(s, i) \in Seq(S)
<1>1. SubSeq(s, 1, i - 1) \in Seq(S)
  BY SubSeqProperties
<1>2. SubSeq(s, i + 1, Len(s)) \in Seq(S)
  BY SubSeqProperties
<1> QED BY <1>1, <1>2 DEF RemoveAt

\* No scan starts and no binding is held when the daemon starts.
LEMMA InitResolved == Init => ResolvedInv
<1> SUFFICES ASSUME Init PROVE ResolvedInv
  OBVIOUS
<1>1. layout \in [Places -> Seq(Terminals)]
  <2>1. ASSUME NEW S \in SUBSET Terminals, NEW s \in Arrangements(S)
        PROVE  s \in Seq(Terminals)
    <3>1. PICK n \in 0..Cardinality(S) : s \in [1..n -> S]
      BY <2>1 DEF Arrangements
    <3>2. CASE n \in Nat
      BY <3>1, <3>2
    <3>3. CASE n \notin Nat
      BY <3>1, <3>3
    <3> QED BY <3>2, <3>3
  <2> QED BY <2>1 DEF Init
<1>2. TypeOK
  BY <1>1, BindingAssumption DEF Init, TypeOK, Stages, RequestType, NoBinding, NoScan
<1>3. ASSUME NEW c \in Commands
      PROVE  CommandInv(c)
  BY DEF Init, CommandInv, Scanning, Holding, NoScan
<1>4. CacheNamesOwner
  BY DEF Init, CacheNamesOwner
<1> QED BY <1>2, <1>3, <1>4 DEF ResolvedInv

\* A terminal that has a tty keeps it.
TTYsKept == \A t \in Terminals : ttyOf[t] \in TTYs => ttyOf'[t] = ttyOf[t]

\* Opening a terminal gives a tty to a new one and takes none away.
LEMMA OpenKeeps ==
  ASSUME TypeOK, NEW t \in FreshTerminals, NEW p \in Places, NEW tty \in TTYs,
         NEW i \in 1..Len(layout[p]) + 1, OpenTerminal(t, p, i, tty)
  PROVE  /\ layout' \in [Places -> Seq(Terminals)]
         /\ ttyOf' \in [Terminals -> TTYs \cup {NoTTY}]
         /\ ttyOf'[t] = tty
         /\ TTYsKept
<1>1. t \in Terminals /\ ttyOf[t] = NoTTY
  BY DEF FreshTerminals
<1>2. InsertAt(layout[p], i, t) \in Seq(Terminals)
  BY <1>1, InsertType DEF TypeOK
<1> QED BY <1>1, <1>2, BindingAssumption DEF OpenTerminal, TypeOK, TTYsKept

\* What a command knows outlives the steps of others: a new terminal takes no
\* other's tty, and a change of the layout disturbs every scan.
LEMMA CommandKept ==
  ASSUME TypeOK, NEW d \in Commands, CommandInv(d), TTYsKept,
         pc'[d] = pc[d], req' = req, found'[d] = found[d], via'[d] = via[d], made'[d] = made[d],
         \/ scan'[d] = scan[d] /\ UNCHANGED <<layout, ttyOf>>
         \/ scan' = Disturb(InScan)
  PROVE  CommandInv(d)'
<1> USE DEF CommandInv, want, Owner, Binding
<1>1. CASE scan'[d] = scan[d] /\ UNCHANGED <<layout, ttyOf>>
  BY <1>1 DEF TabsAt, Listed
<1>2. CASE scan' = Disturb(InScan) /\ pc[d] \in Scanning
  <2>1. scan'[d].disturbed /\ pc[d] \notin Holding
    BY <1>2 DEF Disturb, InScan, TypeOK, Scanning, Holding
  <2> QED BY <1>2, <2>1 DEF TTYsKept, Scanning, Holding, TypeOK
<1>3. CASE scan' = Disturb(InScan) /\ pc[d] \notin Scanning
  <2>1. scan'[d] = scan[d]
    BY <1>3 DEF Disturb, InScan
  <2> QED BY <1>3, <2>1 DEF TTYsKept, Scanning, Holding
<1> QED BY <1>1, <1>2, <1>3

LEMMA CacheKept ==
  ASSUME TypeOK, CacheNamesOwner, TTYsKept, UNCHANGED cache,
         \A c \in Commands : ~scan'[c].disturbed => ~scan[c].disturbed
  PROVE  CacheNamesOwner'
BY BindingAssumption DEF CacheNamesOwner, TTYsKept, TypeOK, Binding, NoBinding

LEMMA DisturbType ==
  ASSUME TypeOK
  PROVE  /\ Disturb(InScan) \in [Commands -> [limit : Nat, index : Nat, slot : Nat, disturbed : BOOLEAN]]
         /\ \A c \in Commands : ~Disturb(InScan)[c].disturbed => ~scan[c].disturbed
BY DEF TypeOK, Disturb

\* The user opens, closes and moves terminals as they like.
LEMMA UserResolved == ResolvedInv /\ UserStep => ResolvedInv'
<1> SUFFICES ASSUME ResolvedInv, UserStep PROVE ResolvedInv'
  OBVIOUS
<1> USE DEF ResolvedInv
<1>1. UserChange
  BY DEF UserStep, UserOpens, UserCloses, UserMoves
<1>2. /\ layout' \in [Places -> Seq(Terminals)]
      /\ ttyOf' \in [Terminals -> TTYs \cup {NoTTY}]
      /\ TTYsKept
  <2>1. CASE UserOpens
    <3>1. PICK t \in FreshTerminals, p \in Places, tty \in FreeTTYs :
             \E i \in 1..Len(layout[p]) + 1 : OpenTerminal(t, p, i, tty)
      BY <2>1 DEF UserOpens
    <3>2. tty \in TTYs
      BY DEF FreeTTYs
    <3> QED BY <3>1, <3>2, OpenKeeps
  <2>2. CASE UserCloses
    <3> PICK p \in Places : \E i \in DOMAIN layout[p] : layout' = [layout EXCEPT ![p] = RemoveAt(@, i)]
      BY <2>2 DEF UserCloses
    <3>1. PICK i \in DOMAIN layout[p] : layout' = [layout EXCEPT ![p] = RemoveAt(@, i)]
      OBVIOUS
    <3>2. RemoveAt(layout[p], i) \in Seq(Terminals)
      BY <3>1, RemoveType DEF TypeOK
    <3> QED BY <2>2, <3>1, <3>2 DEF UserCloses, TypeOK, TTYsKept
  <2>3. CASE UserMoves
    <3> PICK p \in Places, q \in Places : \E i \in DOMAIN layout[p] :
             /\ p # q
             /\ layout' = [layout EXCEPT ![p] = RemoveAt(@, i), ![q] = Append(@, layout[p][i])]
      BY <2>3 DEF UserMoves
    <3>1. PICK i \in DOMAIN layout[p] :
             layout' = [layout EXCEPT ![p] = RemoveAt(@, i), ![q] = Append(@, layout[p][i])]
      OBVIOUS
    <3>2. RemoveAt(layout[p], i) \in Seq(Terminals)
      BY <3>1, RemoveType DEF TypeOK
    <3>3. Append(layout[q], layout[p][i]) \in Seq(Terminals)
      BY <3>1 DEF TypeOK
    <3> QED BY <2>3, <3>1, <3>2, <3>3 DEF UserMoves, TypeOK, TTYsKept
  <2> QED BY <2>1, <2>2, <2>3 DEF UserStep
<1>3. TypeOK'
  BY <1>1, <1>2, DisturbType, BindingAssumption DEF UserChange, TypeOK
<1>4. ASSUME NEW c \in Commands
      PROVE  CommandInv(c)'
  BY <1>1, <1>2, CommandKept DEF UserChange
<1>5. CacheNamesOwner'
  BY <1>1, <1>2, CacheKept, DisturbType DEF UserChange
<1> QED BY <1>3, <1>4, <1>5

\* The steps of a command that leave Ghostty as it is: ResolvedInv is left to
\* show for the command itself and for the cache.
LEMMA QuietStep ==
  ASSUME ResolvedInv, NEW c \in Commands, UNCHANGED <<world, req>>, TypeOK', CommandInv(c)',
         CacheNamesOwner',
         \A d \in Commands \ {c} :
            /\ pc'[d] = pc[d]
            /\ found'[d] = found[d]
            /\ via'[d] = via[d]
            /\ made'[d] = made[d]
            /\ scan'[d] = scan[d]
  PROVE  ResolvedInv'
<1>1. TTYsKept
  BY DEF TTYsKept, world
<1>2. ASSUME NEW d \in Commands \ {c}
      PROVE  CommandInv(d)'
  BY <1>1, CommandKept DEF ResolvedInv, world
<1> QED BY <1>2 DEF ResolvedInv

ScanType == [limit : Nat, index : Nat, slot : Nat, disturbed : BOOLEAN]

\* No two tabs have the same index.
LEMMA TabUnique ==
  ASSUME NEW i, NEW p \in TabsAt(i), NEW q \in TabsAt(i)
  PROVE  q = p
<1> DEFINE Upto(x) == {y \in Listed : y <= x}
<1>1. p \in Nat /\ q \in Nat /\ Listed \subseteq Nat /\ IsFiniteSet(Listed)
  BY BindingAssumption, FS_Subset DEF TabsAt, Listed
<1>2. p \in Upto(p) /\ q \in Upto(q) /\ Cardinality(Upto(p)) = Cardinality(Upto(q))
  BY <1>1 DEF TabsAt
<1>3. IsFiniteSet(Upto(p)) /\ IsFiniteSet(Upto(q))
  BY <1>1, FS_Subset
<1>4. Upto(p) \subseteq Upto(q) \/ Upto(q) \subseteq Upto(p)
  <2>1. \A y \in Nat : y <= p /\ p <= q => y <= q
    BY <1>1
  <2>2. \A y \in Nat : y <= q /\ q <= p => y <= p
    BY <1>1
  <2>3. p <= q \/ q <= p
    BY <1>1
  <2> QED BY <1>1, <2>1, <2>2, <2>3
<1>5. Upto(p) = Upto(q)
  BY <1>2, <1>3, <1>4, FS_Subset, FS_CardinalityType
<1> QED BY <1>1, <1>2, <1>5

\* What a step may do to a scan's counters, seen by the invariant.
ScanGoesOn(c) ==
    /\ scan' \in [Commands -> ScanType]
    /\ scan'[c].disturbed = scan[c].disturbed
    /\ \A d \in Commands \ {c} : scan'[d] = scan[d]

LEMMA ScanStep ==
  ASSUME TypeOK, NEW c \in Commands,
         NEW n \in Nat,
         \/ UNCHANGED scan
         \/ scan' = [scan EXCEPT ![c].index = n]
         \/ scan' = [scan EXCEPT ![c].slot = n]
  PROVE  ScanGoesOn(c)
<1>1. scan \in [Commands -> ScanType]
  BY DEF TypeOK, ScanType
<1>2. CASE UNCHANGED scan
  BY <1>1, <1>2 DEF ScanGoesOn
<1>3. CASE scan' = [scan EXCEPT ![c].index = n]
  <2>1. scan' = [scan EXCEPT ![c] = [scan[c] EXCEPT !.index = n]]
    BY <1>3
  <2>2. /\ [scan[c] EXCEPT !.index = n] \in ScanType
        /\ [scan[c] EXCEPT !.index = n].disturbed = scan[c].disturbed
    BY <1>1 DEF ScanType
  <2> QED BY <1>1, <2>1, <2>2 DEF ScanGoesOn
<1>4. CASE scan' = [scan EXCEPT ![c].slot = n]
  <2>1. scan' = [scan EXCEPT ![c] = [scan[c] EXCEPT !.slot = n]]
    BY <1>4
  <2>2. /\ [scan[c] EXCEPT !.slot = n] \in ScanType
        /\ [scan[c] EXCEPT !.slot = n].disturbed = scan[c].disturbed
    BY <1>1 DEF ScanType
  <2> QED BY <1>1, <2>1, <2>2 DEF ScanGoesOn
<1> QED BY <1>2, <1>3, <1>4

LEMMA NextTabStep ==
  ASSUME TypeOK, NEW c \in Commands, NextTab(c)
  PROVE  /\ ScanGoesOn(c)
         /\ \/ Goto(c, "ttys") /\ UNCHANGED <<result, queue>>
            \/ End(c, "notfound")
<1>1. scan[c].index + 1 \in Nat
  BY DEF TypeOK
<1>2. UNCHANGED scan \/ scan' = [scan EXCEPT ![c].index = scan[c].index + 1]
  BY DEF NextTab
<1>3. ScanGoesOn(c)
  BY <1>1, <1>2, ScanStep
<1> QED BY <1>3 DEF NextTab, Continue

\* Writing true entries, or losing the write to a no-ack command, keeps the cache true.
LEMMA WriteStep ==
  ASSUME TypeOK, CacheNamesOwner, NEW c \in Commands, NEW e \in [TTYs -> Binding \cup {NoBinding}],
         Write(c, e), UNCHANGED <<ttyOf, scan>>,
         (\A d \in Commands : ~scan[d].disturbed) =>
             \A tty \in TTYs : e[tty] # NoBinding => ttyOf[e[tty].term] = tty
  PROVE  /\ cache' \in [TTYs -> Binding \cup {NoBinding}]
         /\ CacheNamesOwner'
BY DEF Write, TypeOK, CacheNamesOwner

LEMMA CommandResolved ==
  ASSUME ResolvedInv, NEW c \in Commands, CommandStep(c)
  PROVE  ResolvedInv'
<1> USE DEF Goto, End, Continue, world, want
<1>0. TypeOK /\ CommandInv(c) /\ CacheNamesOwner
  BY DEF ResolvedInv
<1>k. ASSUME UNCHANGED <<cache, ttyOf>>,
             \A d \in Commands : ~scan'[d].disturbed => ~scan[d].disturbed
      PROVE  CacheNamesOwner'
  BY <1>0, <1>k, CacheKept DEF TTYsKept
<1>1. ASSUME Start(c)
      PROVE  ResolvedInv'
  <2>1. TypeOK'
    BY <1>0, <1>1 DEF Start, TypeOK, Stages, Scanning
  <2>2. CommandInv(c)'
    BY <1>0, <1>1 DEF Start, TypeOK, CommandInv, Owner, Scanning, Holding, Binding, NoBinding
  <2>3. CacheNamesOwner'
    BY <1>0, <1>k, <1>1 DEF Start, TypeOK
  <2> QED BY <1>1, <2>1, <2>2, <2>3, QuietStep DEF Start
<1>2. ASSUME NamesNoTerminal(c)
      PROVE  ResolvedInv'
  <2>1. TypeOK'
    BY <1>0, <1>2 DEF NamesNoTerminal, TypeOK, Stages, Scanning
  <2>2. CommandInv(c)'
    BY <1>0, <1>2 DEF NamesNoTerminal, TypeOK, CommandInv, Owner, Scanning, Holding, Binding, NoBinding
  <2>3. CacheNamesOwner'
    BY <1>0, <1>k, <1>2 DEF NamesNoTerminal, TypeOK
  <2> QED BY <1>2, <2>1, <2>2, <2>3, QuietStep DEF NamesNoTerminal
<1>3. ASSUME VerifyHit(c)
      PROVE  ResolvedInv'
  <2>1. TypeOK'
    BY <1>0, <1>3 DEF VerifyHit, IsBound, Resolved, TypeOK, Stages, Scanning
  <2>2. CommandInv(c)'
    BY <1>0, <1>3 DEF VerifyHit, IsBound, Resolved, TypeOK, CommandInv, Owner, Scanning, Holding, Binding, NoBinding
  <2>3. CacheNamesOwner'
    BY <1>0, <1>k, <1>3 DEF VerifyHit, IsBound, Resolved, TypeOK
  <2>4. /\ UNCHANGED <<world, req>>
        /\ \A d \in Commands \ {c} :
              pc'[d] = pc[d] /\ found'[d] = found[d] /\ via'[d] = via[d] /\ made'[d] = made[d] /\ scan'[d] = scan[d]
    BY <1>0, <1>3 DEF VerifyHit, Resolved, TypeOK
  <2> QED BY <2>1, <2>2, <2>3, <2>4, QuietStep
<1>4. ASSUME VerifyMiss(c)
      PROVE  ResolvedInv'
  <2>1. TypeOK'
    BY <1>0, <1>4 DEF VerifyMiss, TypeOK, Stages, Scanning
  <2>2. CommandInv(c)'
    BY <1>0, <1>4 DEF VerifyMiss, TypeOK, CommandInv, Owner, Scanning, Holding, Binding, NoBinding
  <2>3. CacheNamesOwner'
    BY <1>0, <1>k, <1>4 DEF VerifyMiss, TypeOK
  <2> QED BY <1>4, <2>1, <2>2, <2>3, QuietStep DEF VerifyMiss
<1>5. ASSUME CountTabs(c)
      PROVE  ResolvedInv'
  <2>1. Cardinality(Listed) \in Nat
    BY BindingAssumption, FS_Subset, FS_CardinalityType DEF Listed
  <2>2. /\ scan' \in [Commands -> ScanType]
        /\ \A d \in Commands \ {c} : scan'[d] = scan[d]
        /\ ~scan[c].disturbed
    BY <1>0, <1>5, <2>1 DEF CountTabs, NoScan, ScanType, TypeOK, CommandInv
  <2>3. TypeOK'
    <3>1. CASE Continue(c, "ttys")
      BY <1>0, <1>5, <2>2, <3>1 DEF CountTabs, TypeOK, Stages, Scanning, ScanType
    <3>2. CASE End(c, "notfound")
      BY <1>0, <1>5, <2>2, <3>2 DEF CountTabs, TypeOK, Stages, Scanning, ScanType
    <3> QED BY <1>5, <3>1, <3>2 DEF CountTabs
  <2>4. CommandInv(c)'
    BY <1>0, <1>5 DEF CountTabs, TypeOK, CommandInv, Owner, Scanning, Holding, Binding
  <2>5. CacheNamesOwner'
    BY <1>0, <1>k, <1>5, <2>2 DEF CountTabs
  <2>6. /\ UNCHANGED <<world, req>>
        /\ \A d \in Commands \ {c} :
              pc'[d] = pc[d] /\ found'[d] = found[d] /\ via'[d] = via[d] /\ made'[d] = made[d] /\ scan'[d] = scan[d]
    BY <1>0, <1>5, <2>2 DEF CountTabs, TypeOK
  <2> QED BY <2>3, <2>4, <2>5, <2>6, QuietStep
<1>6. ASSUME ReadTTYs(c)
      PROVE  ResolvedInv'
  <2> PICK p \in TabsAt(scan[c].index) :
           LET hits == {i \in DOMAIN layout[p] : ttyOf[layout[p][i]] = want(c)}
           IN  IF hits = {}
               THEN NextTab(c)
               ELSE /\ \E first \in hits :
                          /\ \A i \in hits : first <= i
                          /\ scan' = [scan EXCEPT ![c].slot = first]
                    /\ Continue(c, "ids")
    BY <1>6 DEF ReadTTYs
  <2>1. p \in Places /\ layout[p] \in Seq(Terminals)
    BY <1>0 DEF TabsAt, Listed, TypeOK
  <2>2. \A q \in TabsAt(scan[c].index) : q = p
    BY TabUnique
  <2>3. CASE NextTab(c)
    <3>1. ScanGoesOn(c) /\ pc'[c] \in {"ttys", "done"}
      BY <1>0, <2>3, NextTabStep DEF TypeOK
    <3>2. TypeOK'
      BY <1>0, <1>6, <2>3, NextTabStep DEF ReadTTYs, TypeOK, Stages, Scanning, ScanGoesOn, ScanType
    <3>3. CommandInv(c)'
      BY <1>0, <1>6, <3>1 DEF ReadTTYs, CommandInv, Owner, Scanning, Holding, Binding, ScanGoesOn
    <3>4. CacheNamesOwner'
      BY <1>6, <1>k, <3>1 DEF ReadTTYs, ScanGoesOn
    <3>5. /\ UNCHANGED <<world, req>>
          /\ \A d \in Commands \ {c} :
                pc'[d] = pc[d] /\ found'[d] = found[d] /\ via'[d] = via[d] /\ made'[d] = made[d] /\ scan'[d] = scan[d]
      BY <1>0, <1>6, <2>3, <3>1, NextTabStep DEF ReadTTYs, ScanGoesOn, TypeOK
    <3> QED BY <3>2, <3>3, <3>4, <3>5, QuietStep
  <2>4. ASSUME NEW first \in DOMAIN layout[p], ttyOf[layout[p][first]] = want(c),
               scan' = [scan EXCEPT ![c].slot = first], Continue(c, "ids")
        PROVE  ResolvedInv'
    <3>1. ScanGoesOn(c)
      <4>1. first \in Nat
        BY <2>1
      <4> QED BY <1>0, <2>4, <4>1, ScanStep
    <3>2. scan'[c].slot = first /\ scan'[c].index = scan[c].index
      BY <1>0, <2>4 DEF TypeOK
    <3>3. TypeOK'
      BY <1>0, <1>6, <2>4, <3>1 DEF ReadTTYs, TypeOK, Stages, Scanning, ScanGoesOn, ScanType
    <3>4. \A q \in TabsAt(scan[c].index)' : q = p
      BY <1>6, <2>2, <3>2 DEF ReadTTYs, TabsAt, Listed
    <3>5. CommandInv(c)'
      BY <1>0, <1>6, <2>4, <3>1, <3>2, <3>4
         DEF ReadTTYs, TypeOK, CommandInv, Owner, Scanning, Holding, Binding
    <3>6. CacheNamesOwner'
      BY <1>6, <1>k, <3>1 DEF ReadTTYs, ScanGoesOn
    <3> QED BY <1>0, <1>6, <2>4, <3>1, <3>3, <3>5, <3>6, QuietStep DEF ReadTTYs, ScanGoesOn, TypeOK
  <2> QED BY <2>3, <2>4
<1>7. ASSUME ReadIDs(c)
      PROVE  ResolvedInv'
  <2> PICK p \in TabsAt(scan[c].index) :
           IF scan[c].slot \in DOMAIN layout[p]
           THEN /\ found' = [found EXCEPT ![c] = [term |-> layout[p][scan[c].slot], place |-> 0]]
                /\ Continue(c, "path")
                /\ UNCHANGED scan
           ELSE NextTab(c) /\ UNCHANGED found
    BY <1>7 DEF ReadIDs, TakeID
  <2>1. p \in Places /\ layout[p] \in Seq(Terminals)
    BY <1>0 DEF TabsAt, Listed, TypeOK
  <2>2. pc[c] = "ids" /\ UNCHANGED <<world, cache, req, via, acted, made>>
    BY <1>7 DEF ReadIDs, TakeID
  <2>3. CASE scan[c].slot \in DOMAIN layout[p]
    <3>1. layout[p][scan[c].slot] \in Terminals
      BY <2>1, <2>3
    <3> DEFINE b == [term |-> layout[p][scan[c].slot], place |-> 0]
    <3>f. /\ found' = [found EXCEPT ![c] = b]
          /\ pc' = [pc EXCEPT ![c] = "path"]
          /\ UNCHANGED <<scan, result, queue>>
      BY <2>3
    <3>t. b \in [term : Terminals \cup {NoTerm}, place : Places \cup {0}] /\ b.term = layout[p][scan[c].slot]
      BY <3>1
    <3> HIDE DEF b
    <3>2. TypeOK'
      BY <1>0, <2>2, <3>f, <3>t DEF TypeOK, Stages, Scanning
    <3>o. ~scan[c].disturbed => ttyOf[b.term] = want(c)
      BY <1>0, <2>2, <3>t DEF CommandInv
    <3>3. CommandInv(c)'
      BY <1>0, <2>2, <3>1, <3>f, <3>t, <3>o DEF TypeOK, CommandInv, Owner, Scanning, Holding
    <3>4. CacheNamesOwner'
      BY <1>k, <2>2, <2>3
    <3> QED BY <1>0, <2>2, <2>3, <3>2, <3>3, <3>4, QuietStep DEF TypeOK
  <2>4. CASE scan[c].slot \notin DOMAIN layout[p]
    <3>1. NextTab(c) /\ UNCHANGED found
      BY <2>4
    <3>2. ScanGoesOn(c) /\ pc'[c] \in {"ttys", "done"}
      BY <1>0, <3>1, NextTabStep DEF TypeOK
    <3>3. TypeOK'
      BY <1>0, <2>2, <3>1, NextTabStep DEF TypeOK, Stages, Scanning, ScanGoesOn, ScanType
    <3>4. CommandInv(c)'
      BY <1>0, <2>2, <3>1, <3>2 DEF CommandInv, Owner, Scanning, Holding, Binding, ScanGoesOn
    <3>5. CacheNamesOwner'
      BY <1>k, <2>2, <3>2 DEF ScanGoesOn
    <3>6. /\ UNCHANGED <<world, req>>
          /\ \A d \in Commands \ {c} :
                pc'[d] = pc[d] /\ found'[d] = found[d] /\ via'[d] = via[d] /\ made'[d] = made[d] /\ scan'[d] = scan[d]
      BY <1>0, <2>2, <3>1, <3>2, NextTabStep DEF ScanGoesOn, TypeOK
    <3> QED BY <3>3, <3>4, <3>5, <3>6, QuietStep
  <2> QED BY <2>3, <2>4
<1>8. ASSUME Act(c)
      PROVE  ResolvedInv'
  <2>1. TypeOK'
    BY <1>0, <1>8 DEF Act, TypeOK, Stages, Scanning
  <2>2. CommandInv(c)'
    BY <1>0, <1>8 DEF Act, TypeOK, CommandInv, Owner, Scanning, Holding, Binding, NoBinding
  <2>3. CacheNamesOwner'
    BY <1>0, <1>k, <1>8 DEF Act, TypeOK
  <2> QED BY <1>8, <2>1, <2>2, <2>3, QuietStep DEF Act
<1>9. ASSUME Focus(c)
      PROVE  ResolvedInv'
  <2>1. TypeOK'
    BY <1>0, <1>9 DEF Focus, TypeOK, Stages, Scanning
  <2>2. CommandInv(c)'
    BY <1>0, <1>9 DEF Focus, TypeOK, CommandInv, Owner, Scanning, Holding, Binding, NoBinding
  <2>3. CacheNamesOwner'
    BY <1>0, <1>k, <1>9 DEF Focus, TypeOK
  <2> QED BY <1>9, <2>1, <2>2, <2>3, QuietStep DEF Focus
<1>10. ASSUME EventFails(c)
      PROVE  ResolvedInv'
  <2>1. TypeOK'
    BY <1>0, <1>10 DEF EventFails, TypeOK, Stages, Scanning
  <2>2. CommandInv(c)'
    BY <1>0, <1>10 DEF EventFails, TypeOK, CommandInv, Owner, Scanning, Holding, Binding, NoBinding
  <2>3. CacheNamesOwner'
    BY <1>0, <1>k, <1>10 DEF EventFails, TypeOK
  <2> QED BY <1>10, <2>1, <2>2, <2>3, QuietStep DEF EventFails
<1>11. ASSUME Clear(c)
      PROVE  ResolvedInv'
  <2> DEFINE e == IF req[c].kind = "clear-all" THEN [tty \in TTYs |-> NoBinding]
                  ELSE [cache EXCEPT ![want(c)] = NoBinding]
  <2>1. /\ Write(c, e)
        /\ UNCHANGED <<ttyOf, scan>>
        /\ req[c].kind # "clear-all" => want(c) \in TTYs
    BY <1>11 DEF Clear
  <2>2. e \in [TTYs -> Binding \cup {NoBinding}]
    BY <1>0 DEF TypeOK
  <2>3. (\A d \in Commands : ~scan[d].disturbed) =>
           \A tty \in TTYs : e[tty] # NoBinding => ttyOf[e[tty].term] = tty
    BY <1>0 DEF TypeOK, CacheNamesOwner
  <2> HIDE DEF e
  <2>4. cache' \in [TTYs -> Binding \cup {NoBinding}] /\ CacheNamesOwner'
    BY <1>0, <2>1, <2>2, <2>3, WriteStep
  <2>5. TypeOK'
    BY <1>0, <1>11, <2>4 DEF Clear, TypeOK, Stages
  <2>6. CommandInv(c)'
    BY <1>0, <1>11 DEF Clear, TypeOK, CommandInv, Owner, Scanning, Holding, RequestType
  <2>7. /\ UNCHANGED <<world, req>>
        /\ \A d \in Commands \ {c} :
              pc'[d] = pc[d] /\ found'[d] = found[d] /\ via'[d] = via[d] /\ made'[d] = made[d] /\ scan'[d] = scan[d]
    BY <1>0, <1>11 DEF Clear, TypeOK
  <2> QED BY <2>4, <2>5, <2>6, <2>7, QuietStep
<1>12. ASSUME Lookup(c)
      PROVE  ResolvedInv'
  <2> PICK expired \in SUBSET TTYs :
           Write(c, [tty \in TTYs |-> IF tty \in expired THEN NoBinding ELSE cache[tty]])
    BY <1>12 DEF Lookup
  <2> DEFINE e == [tty \in TTYs |-> IF tty \in expired THEN NoBinding ELSE cache[tty]]
  <2>1. e \in [TTYs -> Binding \cup {NoBinding}]
    BY <1>0 DEF TypeOK
  <2>2. (\A d \in Commands : ~scan[d].disturbed) =>
           \A tty \in TTYs : e[tty] # NoBinding => ttyOf[e[tty].term] = tty
    BY <1>0 DEF CacheNamesOwner
  <2>3. Write(c, e) /\ UNCHANGED <<ttyOf, scan>>
    BY <1>12 DEF Lookup
  <2> HIDE DEF e
  <2>4. cache' \in [TTYs -> Binding \cup {NoBinding}] /\ CacheNamesOwner'
    BY <1>0, <2>1, <2>2, <2>3, WriteStep
  <2> DEFINE b == cache'[want(c)]
  <2>5. /\ want(c) \in TTYs
        /\ pc[c] = "lookup"
        /\ found' = [found EXCEPT ![c] = b]
        /\ pc' = [pc EXCEPT ![c] = IF b = NoBinding THEN "count" ELSE "verify"]
        /\ UNCHANGED <<world, queue, req, scan, via, acted, made, result>>
    BY <1>12 DEF Lookup
  <2>6. b \in Binding \cup {NoBinding}
    BY <2>4, <2>5
  <2> HIDE DEF b
  <2>7. TypeOK'
    BY <1>0, <2>4, <2>5, <2>6 DEF TypeOK, Stages, Binding, NoBinding
  <2>8. CommandInv(c)'
    BY <1>0, <2>5, <2>6 DEF TypeOK, CommandInv, Owner, Scanning, Holding
  <2>9. /\ UNCHANGED <<world, req>>
        /\ \A d \in Commands \ {c} :
              pc'[d] = pc[d] /\ found'[d] = found[d] /\ via'[d] = via[d] /\ made'[d] = made[d] /\ scan'[d] = scan[d]
    BY <1>0, <2>5 DEF TypeOK
  <2> QED BY <2>4, <2>7, <2>8, <2>9, QuietStep
<1>13. ASSUME ReadPath(c)
      PROVE  ResolvedInv'
  <2> PICK p \in TabsAt(scan[c].index) : found' = [found EXCEPT ![c].place = p]
    BY <1>13 DEF ReadPath
  <2> DEFINE b == found'[c]
  <2>1. pc[c] = "path" /\ want(c) \in TTYs /\ found[c].term \in Terminals
    BY <1>0, <1>13 DEF ReadPath, CommandInv, Scanning
  <2>2. b \in Binding /\ b.term = found[c].term
    <3>1. p \in Places
      BY DEF TabsAt, Listed
    <3>2. found' = [found EXCEPT ![c] = [found[c] EXCEPT !.place = p]]
      OBVIOUS
    <3>3. [found[c] EXCEPT !.place = p] \in Binding /\ [found[c] EXCEPT !.place = p].term = found[c].term
      BY <1>0, <2>1, <3>1 DEF TypeOK, Binding
    <3> QED BY <1>0, <3>2, <3>3 DEF TypeOK
  <2>3. found' = [found EXCEPT ![c] = b]
    BY <1>0 DEF TypeOK
  <2> HIDE DEF b
  <2>4. /\ Write(c, [cache EXCEPT ![want(c)] = b])
        /\ UNCHANGED <<ttyOf, scan>>
    BY <1>13 DEF ReadPath, b
  <2>5. [cache EXCEPT ![want(c)] = b] \in [TTYs -> Binding \cup {NoBinding}]
    BY <1>0, <2>2 DEF TypeOK
  <2>6. ~scan[c].disturbed => ttyOf[b.term] = want(c)
    BY <1>0, <2>1, <2>2 DEF CommandInv, Owner
  <2>7. (\A d \in Commands : ~scan[d].disturbed) =>
           \A tty \in TTYs : [cache EXCEPT ![want(c)] = b][tty] # NoBinding =>
               ttyOf[[cache EXCEPT ![want(c)] = b][tty].term] = tty
    BY <1>0, <2>1, <2>6 DEF CacheNamesOwner, TypeOK
  <2>8. cache' \in [TTYs -> Binding \cup {NoBinding}] /\ CacheNamesOwner'
    BY <1>0, <2>4, <2>5, <2>7, WriteStep
  <2>9. /\ via' = [via EXCEPT ![c] = "scan"]
        /\ pc' = [pc EXCEPT ![c] = IF req[c].kind = "refresh" THEN "done" ELSE "act"]
        /\ UNCHANGED <<world, req, scan, acted, made>>
    BY <1>13 DEF ReadPath, Resolved
  <2>10. queue' \in Commands \cup {NoCommand}
         /\ result' \in [Commands -> {"none", "ok", "notfound", "failed"}]
    BY <1>0, <1>13 DEF ReadPath, Resolved, TypeOK
  <2>11. TypeOK'
    <3>1. b \in [term : Terminals \cup {NoTerm}, place : Places \cup {0}]
      BY <2>2 DEF Binding
    <3>2. found' \in [Commands -> [term : Terminals \cup {NoTerm}, place : Places \cup {0}]]
      BY <1>0, <2>3, <3>1 DEF TypeOK
    <3>3. pc' \in [Commands -> Stages] /\ via' \in [Commands -> {"none", "hit", "scan"}]
      BY <1>0, <2>9 DEF TypeOK, Stages
    <3> QED BY <1>0, <2>8, <2>9, <2>10, <3>2, <3>3 DEF TypeOK
  <2>12. CommandInv(c)'
    BY <1>0, <2>1, <2>2, <2>3, <2>6, <2>9 DEF TypeOK, CommandInv, Owner, Scanning, Holding
  <2>13. /\ UNCHANGED <<world, req>>
         /\ \A d \in Commands \ {c} :
              pc'[d] = pc[d] /\ found'[d] = found[d] /\ via'[d] = via[d] /\ made'[d] = made[d] /\ scan'[d] = scan[d]
    BY <1>0, <2>3, <2>9 DEF TypeOK
  <2> QED BY <2>8, <2>11, <2>12, <2>13, QuietStep
<1>14. ASSUME StoreSplit(c)
      PROVE  ResolvedInv'
  <2> DEFINE tty == ttyOf[made[c]]
             b == [term |-> made[c], place |-> found[c].place]
             e == [cache EXCEPT ![tty] = b]
  <2>1. pc[c] = "store" /\ made[c] \in Terminals /\ tty \in TTYs /\ found[c] \in Binding
    BY <1>0, <1>14 DEF StoreSplit, CommandInv, Holding
  <2>2. b \in Binding /\ b.term = made[c]
    BY <2>1 DEF Binding
  <2>3. Write(c, e) /\ UNCHANGED <<ttyOf, scan>>
    BY <1>14 DEF StoreSplit, CacheSplit
  <2> HIDE DEF b
  <2>4. e \in [TTYs -> Binding \cup {NoBinding}]
    BY <1>0, <2>2 DEF TypeOK
  <2>5. (\A d \in Commands : ~scan[d].disturbed) =>
           \A y \in TTYs : e[y] # NoBinding => ttyOf[e[y].term] = y
    BY <1>0, <2>1, <2>2 DEF CacheNamesOwner, TypeOK
  <2> HIDE DEF e
  <2>6. cache' \in [TTYs -> Binding \cup {NoBinding}] /\ CacheNamesOwner'
    BY <1>0, <2>3, <2>4, <2>5, WriteStep
  <2>7. TypeOK'
    BY <1>0, <1>14, <2>6 DEF StoreSplit, CacheSplit, TypeOK, Stages
  <2>8. CommandInv(c)'
    BY <1>0, <1>14 DEF StoreSplit, CacheSplit, TypeOK, CommandInv, Owner, Scanning, Holding
  <2>9. /\ UNCHANGED <<world, req>>
        /\ \A d \in Commands \ {c} :
              pc'[d] = pc[d] /\ found'[d] = found[d] /\ via'[d] = via[d] /\ made'[d] = made[d] /\ scan'[d] = scan[d]
    BY <1>0, <1>14 DEF StoreSplit, CacheSplit, TypeOK
  <2> QED BY <2>6, <2>7, <2>8, <2>9, QuietStep
<1>15. ASSUME Split(c)
      PROVE  ResolvedInv'
  <2> PICK p \in Places : \E at \in DOMAIN layout[p] :
           \E t \in FreshTerminals, tty \in FreeTTYs, i \in {at, at + 1} :
              OpenTerminal(t, p, i, tty) /\ made' = [made EXCEPT ![c] = t]
    BY <1>15 DEF Split
  <2> PICK at \in DOMAIN layout[p] :
           \E t \in FreshTerminals, tty \in FreeTTYs, i \in {at, at + 1} :
              OpenTerminal(t, p, i, tty) /\ made' = [made EXCEPT ![c] = t]
    OBVIOUS
  <2>1. PICK t \in FreshTerminals, tty \in FreeTTYs, i \in {at, at + 1} :
              OpenTerminal(t, p, i, tty) /\ made' = [made EXCEPT ![c] = t]
    OBVIOUS
  <2>2. tty \in TTYs /\ t \in Terminals /\ i \in 1..Len(layout[p]) + 1
    <3>1. layout[p] \in Seq(Terminals)
      BY <1>0 DEF TypeOK
    <3>2. at \in 1..Len(layout[p]) /\ Len(layout[p]) \in Nat
      BY <3>1
    <3> QED BY <3>2 DEF FreeTTYs, FreshTerminals
  <2>3. /\ layout' \in [Places -> Seq(Terminals)]
        /\ ttyOf' \in [Terminals -> TTYs \cup {NoTTY}]
        /\ ttyOf'[t] = tty
        /\ TTYsKept
    BY <1>0, <2>1, <2>2, OpenKeeps
  <2>4. /\ pc[c] = "act"
        /\ pc' = [pc EXCEPT ![c] = "focus"]
        /\ acted' = [acted EXCEPT ![c] = found[c].term]
        /\ scan' = Disturb(InScan)
        /\ UNCHANGED <<changes, result, queue, cache, req, found, via>>
    BY <1>15 DEF Split
  <2>5. scan'[c] = scan[c]
    BY <2>4 DEF Disturb, InScan, Scanning
  <2>6. found[c] \in Binding /\ want(c) \in TTYs /\ via[c] # "none"
    BY <1>0, <2>4 DEF CommandInv, Holding
  <2>7. TypeOK'
    BY <1>0, <2>1, <2>2, <2>3, <2>4, <2>6, DisturbType DEF TypeOK, Stages, Binding
  <2>8. CommandInv(c)'
    BY <1>0, <2>1, <2>2, <2>3, <2>4, <2>5, <2>6
       DEF TypeOK, CommandInv, Owner, Scanning, Holding, Binding, TTYsKept
  <2>9. ASSUME NEW d \in Commands \ {c}
        PROVE  CommandInv(d)'
    <3>1. pc'[d] = pc[d] /\ made'[d] = made[d] /\ CommandInv(d)
      BY <1>0, <2>1, <2>4 DEF TypeOK, ResolvedInv
    <3> QED BY <1>0, <2>3, <2>4, <3>1, CommandKept
  <2>10. CacheNamesOwner'
    BY <1>0, <2>3, <2>4, CacheKept, DisturbType
  <2> QED BY <2>7, <2>8, <2>9, <2>10 DEF ResolvedInv
<1> QED
  BY <1>1, <1>2, <1>3, <1>4, <1>5, <1>6, <1>7, <1>8, <1>9, <1>10, <1>11, <1>12, <1>13, <1>14, <1>15
     DEF CommandStep

LEMMA NextResolved == ResolvedInv /\ [Next]_vars => ResolvedInv'
<1> SUFFICES ASSUME ResolvedInv, [Next]_vars PROVE ResolvedInv'
  OBVIOUS
<1>1. CASE UNCHANGED vars
  <2>1. TypeOK' /\ CacheNamesOwner'
    BY <1>1 DEF ResolvedInv, TypeOK, CacheNamesOwner, vars, world
  <2>2. ASSUME NEW c \in Commands
        PROVE  CommandInv(c)'
    BY <1>1, <2>2, CommandKept DEF ResolvedInv, vars, world, TTYsKept
  <2> QED BY <2>1, <2>2 DEF ResolvedInv
<1> QED BY <1>1, UserResolved, CommandResolved DEF Next

\* Ghostty's indexes of the tabs it lists run up to their number.
LEMMA TabIndexed ==
  ASSUME NEW p \in Listed
  PROVE  \E i \in 1..Cardinality(Listed) : p \in TabsAt(i)
<1> DEFINE Upto == {q \in Listed : q <= p}
<1>1. p \in Nat /\ IsFiniteSet(Listed)
  BY BindingAssumption, FS_Subset DEF Listed
<1>2. IsFiniteSet(Upto) /\ Cardinality(Upto) <= Cardinality(Listed)
  BY <1>1, FS_Subset
<1>3. Upto # {}
  BY <1>1
<1>4. Cardinality(Upto) \in Nat /\ Cardinality(Listed) \in Nat
  BY <1>1, <1>2, FS_CardinalityType
<1>5. Cardinality(Upto) # 0
  BY <1>2, <1>3, FS_EmptySet
<1>6. Cardinality(Upto) \in 1..Cardinality(Listed)
  BY <1>2, <1>4, <1>5
<1> QED BY <1>6 DEF TabsAt

\* Every open terminal is in a tab that Ghostty lists.
LEMMA OpenListed ==
  ASSUME TypeOK, NEW t \in Open
  PROVE  \E p \in Listed : t \in At(p)
<1>1. PICK p \in Places : t \in At(p)
  BY DEF Open
<1>2. layout[p] # <<>>
  BY <1>1 DEF At, Range
<1> QED BY <1>1, <1>2 DEF Listed

\* When the scan has ruled out every tab, no open terminal has the tty.
LEMMA RuledOut ==
  ASSUME TypeOK, NEW c \in Commands,
         \A i \in 1..Cardinality(Listed) : \A p \in TabsAt(i) : want(c) \notin TTYsAt(p)
  PROVE  want(c) \notin {ttyOf[t] : t \in Open}
BY OpenListed, TabIndexed DEF TTYsAt

\* The tab at a scan's index has no terminal on the tty, and so have those before it.
LEMMA OneMoreTab ==
  ASSUME NEW c \in Commands, SearchInv(c), pc[c] = "ttys", ~scan[c].disturbed,
         NEW p \in TabsAt(scan[c].index),
         {i \in DOMAIN layout[p] : ttyOf[layout[p][i]] = want(c)} = {}
  PROVE  /\ scan[c].limit = Cardinality(Listed)
         /\ scan[c].index \in 1..scan[c].limit
         /\ \A i \in 1..scan[c].index : \A q \in TabsAt(i) : want(c) \notin TTYsAt(q)
<1>1. want(c) \notin TTYsAt(p)
  BY DEF TTYsAt, At, Range
<1>2. Cardinality(Listed) \in Nat
  BY BindingAssumption, FS_Subset, FS_CardinalityType DEF Listed
<1>3. /\ scan[c].limit = Cardinality(Listed)
      /\ scan[c].index \in 1..scan[c].limit
      /\ \A i \in 1..(scan[c].index - 1) : \A q \in TabsAt(i) : want(c) \notin TTYsAt(q)
  BY DEF SearchInv
<1>4. ASSUME NEW i \in 1..scan[c].index, NEW q \in TabsAt(i)
      PROVE  want(c) \notin TTYsAt(q)
  <2>1. CASE i = scan[c].index
    BY <1>1, <2>1, TabUnique
  <2>2. CASE i # scan[c].index
    <3>1. i \in 1..(scan[c].index - 1)
      BY <1>2, <1>3, <2>2
    <3> QED BY <1>3, <3>1
  <2> QED BY <2>1, <2>2
<1> QED BY <1>3, <1>4

\* What a scan has ruled out stays so until Ghostty changes, which disturbs it.
LEMMA SearchKept ==
  ASSUME TypeOK, NEW d \in Commands, SearchInv(d), pc'[d] = pc[d], req' = req,
         \/ scan'[d] = scan[d] /\ UNCHANGED <<layout, ttyOf>>
         \/ scan' = Disturb(InScan)
  PROVE  SearchInv(d)'
<1>1. CASE scan'[d] = scan[d] /\ UNCHANGED <<layout, ttyOf>>
  BY <1>1 DEF SearchInv, TabsAt, Listed, TTYsAt, At, want
<1>2. CASE scan' = Disturb(InScan) /\ pc[d] \in Scanning
  <2>1. scan'[d].disturbed
    BY <1>2 DEF Disturb, InScan, TypeOK
  <2> QED BY <2>1 DEF SearchInv
<1>3. CASE pc[d] \notin Scanning
  BY <1>3 DEF SearchInv, Scanning
<1> QED BY <1>1, <1>2, <1>3

\* NextTab goes to the next index, or there is none.
LEMMA NextTabCases ==
  ASSUME TypeOK, NEW c \in Commands, NextTab(c)
  PROVE  \/ /\ scan[c].index < scan[c].limit
            /\ scan' = [scan EXCEPT ![c].index = scan[c].index + 1]
            /\ pc' = [pc EXCEPT ![c] = "ttys"]
            /\ UNCHANGED result
         \/ /\ ~(scan[c].index < scan[c].limit)
            /\ UNCHANGED scan
            /\ pc' = [pc EXCEPT ![c] = "done"]
            /\ result' = [result EXCEPT ![c] = "notfound"]
BY DEF NextTab, Continue, End, Goto

\* A slot that a scan read while nothing disturbed it is still there.
LEMMA SlotThere ==
  ASSUME NEW c \in Commands, CommandInv(c), pc[c] = "ids", ~scan[c].disturbed,
         NEW p \in TabsAt(scan[c].index)
  PROVE  scan[c].slot \in DOMAIN layout[p]
BY DEF CommandInv

\* A tab without the tty is ruled out before the scan goes on.
LEMMA ReadTTYsSearches ==
  ASSUME BindingInv, NEW c \in Commands, ReadTTYs(c)
  PROVE  SearchInv(c)'
<1>0. TypeOK /\ SearchInv(c) /\ pc[c] = "ttys" /\ UNCHANGED <<layout, ttyOf, req>>
  BY DEF BindingInv, ResolvedInv, ReadTTYs, world
<1> PICK p \in TabsAt(scan[c].index) :
         LET hits == {i \in DOMAIN layout[p] : ttyOf[layout[p][i]] = want(c)}
         IN  IF hits = {}
             THEN NextTab(c)
             ELSE /\ \E first \in hits :
                        /\ \A i \in hits : first <= i
                        /\ scan' = [scan EXCEPT ![c].slot = first]
                  /\ Continue(c, "ids")
  BY DEF ReadTTYs
<1> DEFINE hits == {i \in DOMAIN layout[p] : ttyOf[layout[p][i]] = want(c)}
<1>s. scan \in [Commands -> ScanType] /\ pc \in [Commands -> Stages]
  BY <1>0 DEF TypeOK, ScanType
<1>t. \A i, q : TabsAt(i)' = TabsAt(i) /\ TTYsAt(q)' = TTYsAt(q) /\ want(c)' = want(c) /\ Listed' = Listed
  BY <1>0 DEF TabsAt, TTYsAt, At, Listed, want
<1> SUFFICES ASSUME ~scan'[c].disturbed, pc'[c] \in {"ttys", "ids"}
             PROVE  SearchInv(c)'
  BY DEF SearchInv
<1>1. CASE hits = {} /\ NextTab(c)
  <2>1. /\ scan[c].index < scan[c].limit
        /\ scan' = [scan EXCEPT ![c].index = scan[c].index + 1]
    BY <1>0, <1>1, <1>s, NextTabCases
  <2>2. /\ scan'[c].index = scan[c].index + 1
        /\ scan'[c].limit = scan[c].limit
        /\ ~scan[c].disturbed
    BY <2>1, <1>s DEF ScanType
  <2>3. /\ scan[c].limit = Cardinality(Listed)
        /\ scan[c].index \in 1..scan[c].limit
        /\ \A i \in 1..scan[c].index : \A q \in TabsAt(i) : want(c) \notin TTYsAt(q)
    BY <1>0, <1>1, <2>2, OneMoreTab
  <2>i. scan[c].index \in Nat /\ scan[c].limit \in Nat
    BY <1>s DEF ScanType
  <2>4. /\ scan'[c].index \in 1..scan'[c].limit
        /\ scan'[c].index - 1 = scan[c].index
    BY <2>1, <2>2, <2>3, <2>i
  <2>5. ASSUME NEW i \in 1..(scan'[c].index - 1), NEW q \in TabsAt(i)'
        PROVE  (want(c) \notin TTYsAt(q))'
    BY <1>t, <2>3, <2>4, <2>5
  <2>6. scan'[c].limit = Cardinality(Listed)'
    BY <1>0, <2>2, <2>3 DEF Listed
  <2> QED BY <2>4, <2>5, <2>6 DEF SearchInv
<1>2. ASSUME NEW first \in hits, scan' = [scan EXCEPT ![c].slot = first]
      PROVE  SearchInv(c)'
  <2>1. /\ scan'[c].index = scan[c].index
        /\ scan'[c].limit = scan[c].limit
        /\ ~scan[c].disturbed
    BY <1>2, <1>s DEF ScanType
  <2> QED BY <1>0, <1>t, <2>1 DEF SearchInv
<1> QED BY <1>1, <1>2

\* A command's own steps keep what its scan has ruled out.
LEMMA CommandSearches ==
  ASSUME BindingInv, NEW c \in Commands, CommandStep(c)
  PROVE  SearchInv(c)'
<1> USE DEF Goto, End, Continue
<1>0. TypeOK /\ CommandInv(c) /\ SearchInv(c)
  BY DEF BindingInv, ResolvedInv
<1>p. pc \in [Commands -> Stages]
  BY <1>0 DEF TypeOK
<1>1. CASE ReadTTYs(c)
  BY <1>1, ReadTTYsSearches
<1>2. CASE CountTabs(c)
  <2>1. Cardinality(Listed) \in Nat /\ (Listed # {} => Cardinality(Listed) # 0)
    BY BindingAssumption, FS_Subset, FS_CardinalityType, FS_EmptySet DEF Listed
  <2>2. /\ scan'[c].limit = Cardinality(Listed)
        /\ scan'[c].index = 1
        /\ pc'[c] \in {"ttys", "ids"} => Listed # {}
        /\ Cardinality(Listed)' = Cardinality(Listed)
    BY <1>0, <1>p, <1>2 DEF CountTabs, NoScan, TypeOK, Listed, world
  <2>3. \A i \in 1..(scan'[c].index - 1) : FALSE
    BY <2>2
  <2>4. pc'[c] \in {"ttys", "ids"} => scan'[c].index \in 1..scan'[c].limit
    BY <2>1, <2>2
  <2> QED BY <2>2, <2>3, <2>4 DEF SearchInv
<1>3. CASE ReadIDs(c)
  <2> PICK p \in TabsAt(scan[c].index) :
           IF scan[c].slot \in DOMAIN layout[p]
           THEN Continue(c, "path") /\ UNCHANGED scan
           ELSE NextTab(c)
    BY <1>3 DEF ReadIDs, TakeID
  <2>1. pc[c] = "ids"
    BY <1>3 DEF ReadIDs, TakeID
  <2>2. CASE ~scan[c].disturbed
    BY <1>0, <1>p, <2>1, <2>2, SlotThere DEF SearchInv
  <2>3. CASE scan[c].disturbed
    <3>1. scan \in [Commands -> ScanType]
      BY <1>0 DEF TypeOK, ScanType
    <3>2. UNCHANGED scan \/ scan' = [scan EXCEPT ![c].index = scan[c].index + 1]
      BY <1>0, NextTabCases
    <3>3. scan'[c].disturbed
      BY <2>3, <3>1, <3>2 DEF ScanType
    <3> QED BY <3>3 DEF SearchInv
  <2> QED BY <2>2, <2>3
<1>4. ASSUME pc'[c] \notin {"ttys", "ids"}
      PROVE  SearchInv(c)'
  BY <1>4 DEF SearchInv
<1>5. CASE Start(c)
  BY <1>4, <1>5, <1>p DEF Start
<1>6. CASE NamesNoTerminal(c) \/ Clear(c) \/ Lookup(c)
  BY <1>4, <1>6, <1>p DEF NamesNoTerminal, Clear, Lookup
<1>7. CASE VerifyHit(c) \/ VerifyMiss(c) \/ ReadPath(c)
  BY <1>4, <1>7, <1>p DEF VerifyHit, VerifyMiss, ReadPath, Resolved
<1>8. CASE Act(c) \/ Split(c) \/ Focus(c) \/ StoreSplit(c) \/ EventFails(c)
  BY <1>4, <1>8, <1>p DEF Act, Split, Focus, StoreSplit, CacheSplit, EventFails
<1> QED BY <1>1, <1>2, <1>3, <1>5, <1>6, <1>7, <1>8 DEF CommandStep

\* What a command's step leaves of the others.
LEMMA OthersGoOn ==
  ASSUME TypeOK, NEW c \in Commands, CommandStep(c), NEW d \in Commands \ {c}
  PROVE  /\ pc'[d] = pc[d] /\ result'[d] = result[d] /\ req' = req
         /\ \/ scan'[d] = scan[d] /\ UNCHANGED <<layout, ttyOf>>
            \/ scan' = Disturb(InScan)
<1> USE DEF Goto, End, Continue, world
<1>p. /\ pc \in [Commands -> Stages]
      /\ scan \in [Commands -> ScanType]
      /\ result \in [Commands -> {"none", "ok", "notfound", "failed"}]
  BY DEF TypeOK, ScanType
<1>1. CASE ReadTTYs(c)
  <2>1. UNCHANGED <<world, req>>
    BY <1>1 DEF ReadTTYs
  <2>2. \/ NextTab(c)
        \/ Continue(c, "ids") /\ \E n : scan' = [scan EXCEPT ![c].slot = n]
    BY <1>1 DEF ReadTTYs
  <2>3. CASE NextTab(c)
    BY <1>p, <2>1, <2>3, NextTabCases
  <2> QED BY <1>p, <2>1, <2>2, <2>3
<1>2. CASE CountTabs(c)
  <2>1. UNCHANGED <<world, req>> /\ scan'[d] = scan[d]
    BY <1>p, <1>2 DEF CountTabs
  <2> QED BY <1>p, <1>2, <2>1 DEF CountTabs
<1>3. CASE ReadIDs(c)
  <2>1. UNCHANGED <<world, req>>
    BY <1>3 DEF ReadIDs, TakeID
  <2>2. NextTab(c) \/ (Continue(c, "path") /\ UNCHANGED scan)
    BY <1>3 DEF ReadIDs, TakeID
  <2>3. CASE NextTab(c)
    BY <1>p, <2>1, <2>3, NextTabCases
  <2> QED BY <1>p, <2>1, <2>2, <2>3
<1>4. CASE Start(c)
  BY <1>4, <1>p DEF Start
<1>5. CASE NamesNoTerminal(c) \/ Clear(c) \/ Lookup(c)
  BY <1>5, <1>p DEF NamesNoTerminal, Clear, Lookup
<1>6. CASE VerifyHit(c) \/ VerifyMiss(c) \/ ReadPath(c)
  BY <1>6, <1>p DEF VerifyHit, VerifyMiss, ReadPath, Resolved
<1>7. CASE Act(c) \/ Split(c) \/ Focus(c) \/ StoreSplit(c) \/ EventFails(c)
  BY <1>7, <1>p DEF Act, Split, Focus, StoreSplit, CacheSplit, EventFails
<1> QED BY <1>1, <1>2, <1>3, <1>4, <1>5, <1>6, <1>7 DEF CommandStep

\* So does every step.
LEMMA NextSearches ==
  ASSUME BindingInv, [Next]_vars, NEW d \in Commands
  PROVE  SearchInv(d)'
<1>0. TypeOK /\ SearchInv(d)
  BY DEF BindingInv, ResolvedInv
<1>1. CASE UNCHANGED vars
  BY <1>0, <1>1, SearchKept DEF vars, world
<1>2. CASE UserStep
  BY <1>0, <1>2, SearchKept DEF UserStep, UserOpens, UserCloses, UserMoves, UserChange
<1>3. ASSUME NEW c \in Commands, CommandStep(c)
      PROVE  SearchInv(d)'
  <2>1. CASE d = c
    BY <1>3, <2>1, CommandSearches
  <2>2. CASE d # c
    BY <1>0, <1>3, <2>2, OthersGoOn, SearchKept
  <2> QED BY <2>1, <2>2
<1> QED BY <1>1, <1>2, <1>3 DEF Next

\* The two steps that report a terminal missing, and what the scan knows then.
LEMMA MissingStep ==
  ASSUME BindingInv, NEW c \in Commands, CommandStep(c),
         result'[c] = "notfound", result[c] = "none", ~scan[c].disturbed
  PROVE  want(c) \notin {ttyOf[t] : t \in Open}
<1> USE DEF Goto, End, Continue
<1>0. TypeOK /\ CommandInv(c) /\ SearchInv(c)
  BY DEF BindingInv, ResolvedInv
<1>r. result \in [Commands -> {"none", "ok", "notfound", "failed"}] /\ scan \in [Commands -> ScanType]
  BY <1>0 DEF TypeOK, ScanType
<1>1. CASE CountTabs(c)
  <2>1. Listed = {}
    BY <1>1, <1>r DEF CountTabs
  <2> QED BY <1>0, <2>1, OpenListed
<1>2. CASE ReadTTYs(c)
  <2>1. PICK p \in TabsAt(scan[c].index) :
           /\ {i \in DOMAIN layout[p] : ttyOf[layout[p][i]] = want(c)} = {}
           /\ NextTab(c)
    BY <1>2, <1>r DEF ReadTTYs
  <2>2. ~(scan[c].index < scan[c].limit)
    BY <1>0, <1>r, <2>1, NextTabCases
  <2>3. /\ scan[c].limit = Cardinality(Listed)
        /\ scan[c].index \in 1..scan[c].limit
        /\ \A i \in 1..scan[c].index : \A q \in TabsAt(i) : want(c) \notin TTYsAt(q)
    BY <1>0, <1>2, <2>1, OneMoreTab DEF ReadTTYs
  <2>4. scan[c].index = Cardinality(Listed)
    BY <1>r, <2>2, <2>3 DEF ScanType
  <2> QED BY <1>0, <2>3, <2>4, RuledOut
<1>3. CASE ReadIDs(c)
  <2>1. UNCHANGED result
    BY <1>0, <1>3, SlotThere DEF ReadIDs, TakeID
  <2> QED BY <2>1
<1>4. CASE Start(c)
  BY <1>4, <1>r DEF Start
<1>5. CASE NamesNoTerminal(c) \/ Clear(c) \/ Lookup(c)
  BY <1>5, <1>r DEF NamesNoTerminal, Clear, Lookup
<1>6. CASE VerifyHit(c) \/ VerifyMiss(c) \/ ReadPath(c)
  BY <1>6, <1>r DEF VerifyHit, VerifyMiss, ReadPath, Resolved
<1>7. CASE Act(c) \/ Split(c) \/ Focus(c) \/ StoreSplit(c) \/ EventFails(c)
  BY <1>7, <1>r DEF Act, Split, Focus, StoreSplit, CacheSplit, EventFails
<1> QED BY <1>1, <1>2, <1>3, <1>4, <1>5, <1>6, <1>7 DEF CommandStep

\* Only those two steps report it missing.
LEMMA MissingOnlyIfAbsent ==
  ASSUME BindingInv, [Next]_vars, NEW c \in Commands,
         result'[c] = "notfound", result[c] = "none", ~scan[c].disturbed
  PROVE  want(c) \notin {ttyOf[t] : t \in Open}
<1>0. TypeOK
  BY DEF BindingInv, ResolvedInv
<1>1. ~UNCHANGED result
  OBVIOUS
<1>2. PICK d \in Commands : CommandStep(d)
  BY <1>1 DEF Next, vars, UserStep, UserOpens, UserCloses, UserMoves, UserChange
<1>3. d = c
  BY <1>0, <1>2, OthersGoOn
<1> QED BY <1>2, <1>3, MissingStep

\* A command's own step makes use of a binding only after it resolved one.
LEMMA UsesResolved ==
  ASSUME BindingInv, NEW c \in Commands, CommandStep(c)
  PROVE  UsedInv(c)'
<1> USE DEF Goto, End, Continue, UsedInv, Used
<1>0. TypeOK /\ CommandInv(c) /\ UsedInv(c)
  BY DEF BindingInv, ResolvedInv
<1>t. /\ via \in [Commands -> {"none", "hit", "scan"}]
      /\ result \in [Commands -> {"none", "ok", "notfound", "failed"}]
      /\ acted \in [Commands -> Terminals \cup {NoTerm}]
  BY <1>0 DEF TypeOK
<1>1. CASE ReadTTYs(c) \/ ReadIDs(c)
  <2>1. UNCHANGED <<req, via, acted>>
    BY <1>1 DEF ReadTTYs, ReadIDs, TakeID
  <2>2. result' = [result EXCEPT ![c] = "notfound"] \/ UNCHANGED result
    BY <1>1 DEF ReadTTYs, ReadIDs, TakeID, NextTab
  <2>3. result'[c] = "ok" => result[c] = "ok"
    BY <1>t, <2>2
  <2> QED BY <1>0, <2>1, <2>3
<1>2. CASE VerifyHit(c) \/ ReadPath(c)
  BY <1>t, <1>2 DEF VerifyHit, ReadPath, Resolved
<1>3. CASE Act(c) \/ Split(c) \/ Focus(c) \/ StoreSplit(c)
  BY <1>0, <1>3 DEF Act, Split, Focus, StoreSplit, CacheSplit, CommandInv, Holding
<1>4. CASE Start(c) \/ VerifyMiss(c) \/ EventFails(c)
  BY <1>0, <1>t, <1>4 DEF Start, VerifyMiss, EventFails
<1>5. CASE NamesNoTerminal(c) \/ Lookup(c) \/ CountTabs(c)
  BY <1>0, <1>t, <1>5 DEF NamesNoTerminal, Lookup, CountTabs
<1>6. CASE Clear(c)
  BY <1>0, <1>t, <1>6 DEF Clear
<1> QED BY <1>1, <1>2, <1>3, <1>4, <1>5, <1>6 DEF CommandStep

\* No other step makes use of it.
LEMMA UseKept ==
  ASSUME TypeOK, NEW c \in Commands, CommandStep(c), NEW d \in Commands \ {c}
  PROVE  acted'[d] = acted[d] /\ via'[d] = via[d]
<1>t. /\ via \in [Commands -> {"none", "hit", "scan"}]
      /\ acted \in [Commands -> Terminals \cup {NoTerm}]
  BY DEF TypeOK
<1>1. CASE UNCHANGED <<via, acted>>
  BY <1>1
<1>2. CASE VerifyHit(c) \/ ReadPath(c)
  BY <1>t, <1>2 DEF VerifyHit, ReadPath, Resolved
<1>3. CASE Act(c) \/ Split(c)
  BY <1>t, <1>3 DEF Act, Split
<1> QED
  BY <1>1, <1>2, <1>3 DEF CommandStep, Start, NamesNoTerminal, Clear, Lookup, VerifyMiss, CountTabs,
     ReadTTYs, ReadIDs, TakeID, Focus, StoreSplit, CacheSplit, EventFails

LEMMA NextUses ==
  ASSUME BindingInv, [Next]_vars, NEW d \in Commands
  PROVE  UsedInv(d)'
<1>0. TypeOK /\ UsedInv(d)
  BY DEF BindingInv, ResolvedInv
<1>1. CASE UNCHANGED vars
  BY <1>0, <1>1 DEF UsedInv, Used, vars
<1>2. CASE UserStep
  BY <1>0, <1>2 DEF UsedInv, Used, UserStep, UserOpens, UserCloses, UserMoves, UserChange
<1>3. ASSUME NEW c \in Commands, CommandStep(c)
      PROVE  UsedInv(d)'
  <2>1. CASE d = c
    BY <1>3, <2>1, UsesResolved
  <2>2. CASE d # c
    BY <1>0, <1>3, <2>2, OthersGoOn, UseKept DEF UsedInv, Used
  <2> QED BY <2>1, <2>2
<1> QED BY <1>1, <1>2, <1>3 DEF Next

LEMMA InitBinding == Init => BindingInv
<1>1. Init => \A c \in Commands : SearchInv(c)
  BY DEF Init, SearchInv
<1>2. Init => \A c \in Commands : UsedInv(c)
  BY DEF Init, UsedInv, Used
<1> QED BY <1>1, <1>2, InitResolved DEF BindingInv

LEMMA NextBinding == BindingInv /\ [Next]_vars => BindingInv'
<1> SUFFICES ASSUME BindingInv, [Next]_vars PROVE BindingInv'
  OBVIOUS
<1>1. ResolvedInv'
  BY NextResolved DEF BindingInv
<1>2. ASSUME NEW c \in Commands
      PROVE  SearchInv(c)'
  BY <1>2, NextSearches
<1>3. ASSUME NEW c \in Commands
      PROVE  UsedInv(c)'
  BY <1>3, NextUses
<1> QED BY <1>1, <1>2, <1>3 DEF BindingInv

\* The type invariant, what a command knows of its binding at every stage,
\* what a scan has ruled out, and that only a resolved binding is used.
THEOREM BindingInvariant == Spec => []BindingInv
BY InitBinding, NextBinding, PTL DEF Spec

\* A command whose cached binding Ghostty confirmed acts on the terminal of the
\* tty it names (boundTerminal, isBound).
THEOREM VerifiedHits == Spec => []VerifiedHitUsesOwner
<1>1. BindingInv => VerifiedHitUsesOwner
  BY DEF BindingInv, ResolvedInv, CommandInv, VerifiedHitUsesOwner
<1> QED BY <1>1, BindingInvariant, PTL

\* So does a command whose scan nothing disturbed (terminalContext(forTTY:)).
THEOREM QuietScans == Spec => []QuietScanUsesOwner
<1>1. BindingInv => QuietScanUsesOwner
  BY DEF BindingInv, ResolvedInv, CommandInv, QuietScanUsesOwner
<1> QED BY <1>1, BindingInvariant, PTL

\* A command acts on a terminal of another tty only if it scanned and Ghostty
\* changed under that scan: the cache, however stale, never misdirects it
\* (boundTerminal, terminalContext(forTTY:)).
THEOREM MisdirectedByScan == Spec => []MisdirectedOnlyByScan
<1>1. BindingInv => MisdirectedOnlyByScan
  BY DEF BindingInv, ResolvedInv, TypeOK, CommandInv, UsedInv, MisdirectedOnlyByScan
<1> QED BY <1>1, BindingInvariant, PTL

\* Without disturbed scans the cache binds a tty to the terminal that runs or
\* ran on it (TerminalIDCache.store, SplitRequest.reply).
THEOREM CacheTrue == Spec => []CacheNamesOwner
<1>1. BindingInv => CacheNamesOwner
  BY DEF BindingInv, ResolvedInv
<1> QED BY <1>1, BindingInvariant, PTL

\* A scan that nothing disturbed reports a terminal missing only if none is open
\* on that tty: it skips no window and no tab (terminalContext(forTTY:)).
THEOREM QuietScansFind == Spec => QuietScanComplete
<1> DEFINE Complete ==
      \A c \in Commands :
          result'[c] = "notfound" /\ result[c] = "none" /\ ~scan[c].disturbed =>
              want(c) \notin {ttyOf[t] : t \in Open}
<1>1. BindingInv /\ [Next]_vars => [Complete]_vars
  <2> SUFFICES ASSUME BindingInv, [Next]_vars PROVE Complete
    OBVIOUS
  <2> QED BY MissingOnlyIfAbsent
<1>2. QuietScanComplete <=> [][Complete]_vars
  BY DEF QuietScanComplete
<1> QED BY <1>1, <1>2, BindingInvariant, PTL DEF Spec
=============================================================================
