----------------------- MODULE NavigationFilter_proofs -----------------------
(* The filter's buffer and its output, for every stream and every way of reading it. *)
EXTENDS NavigationFilter, FiniteSetTheorems, SequenceTheorems, TLAPS

\* A chunk is consumed from its front, and both parts are streams (Write's loop).
LEMMA ConsumeType ==
    ASSUME chunk \in Seq(Bytes), seen \in Seq(Bytes), NEW n \in 0..Len(chunk), Consume(n)
    PROVE  chunk' \in Seq(Bytes) /\ seen' \in Seq(Bytes) /\ closed' = closed
  <1>1. SubSeq(chunk, 1, n) \in Seq(Bytes) /\ SubSeq(chunk, n + 1, Len(chunk)) \in Seq(Bytes)
    OBVIOUS
  <1> QED
    BY <1>1 DEF Consume

\* The byte a step looks at.
LEMMA CurrentType ==
    ASSUME chunk \in Seq(Bytes), chunk # <<>>
    PROVE  Current \in Bytes /\ 1 \in 0..Len(chunk) /\ Len(chunk) \in 0..Len(chunk)
  BY DEF Current

\* What a step emits joins the output.
LEMMA EmitType ==
    ASSUME out \in Seq(Bytes \cup {"direction"}),
           NEW bytes \in Seq(Bytes \cup {"direction"}), Emit(bytes)
    PROVE  out' \in Seq(Bytes \cup {"direction"})
  BY DEF Emit

\* Bytes are output as they are.
LEMMA BytesAreOutput ==
    ASSUME NEW s \in Seq(Bytes) PROVE s \in Seq(Bytes \cup {"direction"})
  OBVIOUS

\* The invariant of the buffer is kept by each step: text,
LEMMA StepTextKeeps == BufferInv /\ StepText => BufferInv'
  <1> SUFFICES ASSUME BufferInv, StepText PROVE BufferInv'
    OBVIOUS
  <1> USE DEF BufferInv, TypeOK, InSequence, HoldsBackLittle
  <1>1. buffered' = buffered /\ state' \in {"text", "escape"} /\ state = "text" /\ chunk # <<>>
    BY DEF StepText
  <1>2. PICK n \in 0..Len(chunk), bytes \in Seq(Bytes) : Consume(n) /\ Emit(bytes)
    <2>1. CASE Contains(chunk, "escape")
      <3>1. PICK i \in DOMAIN chunk : Emit(SubSeq(chunk, 1, i - 1)) /\ Consume(i)
        BY <2>1 DEF StepText
      <3>2. i \in 0..Len(chunk) /\ SubSeq(chunk, 1, i - 1) \in Seq(Bytes)
        OBVIOUS
      <3> QED
        BY <3>1, <3>2
    <2>2. CASE ~Contains(chunk, "escape")
      BY <2>2, <1>1, CurrentType DEF StepText
    <2> QED
      BY <2>1, <2>2
  <1>3. chunk' \in Seq(Bytes) /\ seen' \in Seq(Bytes) /\ closed' = closed
    BY <1>2, ConsumeType
  <1>4. out' \in Seq(Bytes \cup {"direction"})
    BY <1>2, EmitType, BytesAreOutput
  <1>5. ~closed
    BY <1>1
  <1> QED
    BY <1>1, <1>3, <1>4, <1>5

\* the byte after an escape,
LEMMA StepEscapeKeeps == BufferInv /\ StepEscape => BufferInv'
  <1> SUFFICES ASSUME BufferInv, StepEscape PROVE BufferInv'
    OBVIOUS
  <1> USE DEF BufferInv, TypeOK, InSequence, HoldsBackLittle
  <1>1. chunk # <<>> /\ state = "escape" /\ Consume(1)
    BY DEF StepEscape
  <1>2. chunk' \in Seq(Bytes) /\ seen' \in Seq(Bytes) /\ closed' = closed /\ ~closed /\ Current \in Bytes
    BY <1>1, ConsumeType, CurrentType
  <1>3. CASE Current = "]"
    <2>1. buffered' = <<"escape", "]">> /\ state' = "sequence" /\ out' = out
      BY <1>3 DEF StepEscape
    <2>2. buffered' \in Seq(Bytes) /\ Len(buffered') = 2
      BY <2>1 DEF Bytes
    <2> QED
      BY <1>2, <2>1, <2>2, FilterAssumption
  <1>4. CASE Current # "]"
    <2>1. PICK bytes \in Seq(Bytes) : Emit(bytes) /\ state' \in {"escape", "text"} /\ buffered' = buffered
      <3>1. <<"escape">> \in Seq(Bytes) /\ <<"escape", Current>> \in Seq(Bytes)
        BY <1>2 DEF Bytes
      <3> QED
        BY <1>1, <1>4, <3>1 DEF StepEscape
    <2>2. out' \in Seq(Bytes \cup {"direction"})
      BY <2>1, EmitType, BytesAreOutput
    <2> QED
      BY <1>1, <1>2, <2>1, <2>2
  <1> QED
    BY <1>3, <1>4
\* a byte of a sequence, held back or too many,
LEMMA HoldBackKeeps == BufferInv /\ HoldBack => BufferInv'
  <1> SUFFICES ASSUME BufferInv, HoldBack PROVE BufferInv'
    OBVIOUS
  <1> USE DEF BufferInv, TypeOK, InSequence, HoldsBackLittle
  <1>1. chunk # <<>> /\ state = "sequence" /\ Consume(1) /\ Current \notin {"bell", "escape"}
    BY DEF HoldBack
  <1>2. chunk' \in Seq(Bytes) /\ seen' \in Seq(Bytes) /\ closed' = closed /\ ~closed /\ Current \in Bytes
    BY <1>1, ConsumeType, CurrentType
  <1> DEFINE longer == buffered \o <<Current>>
  <1>3. /\ longer \in Seq(Bytes)
        /\ Len(longer) = Len(buffered) + 1
        /\ \A i \in 1..Len(buffered) : longer[i] = buffered[i]
        /\ longer[Len(buffered) + 1] = Current
    BY <1>2
  <1>4. CASE Len(buffered) + 1 > MaxBuffered
    <2>1. state' = "text" /\ buffered' = <<>> /\ Emit(longer)
      BY <1>4 DEF HoldBack
    <2>2. out' \in Seq(Bytes \cup {"direction"})
      BY <1>3, <2>1, EmitType, BytesAreOutput
    <2> QED
      BY <1>2, <2>1, <2>2, FilterAssumption
  <1>5. CASE Len(buffered) + 1 <= MaxBuffered
    <2>1. state' = "sequence" /\ buffered' = longer /\ out' = out
      BY <1>1, <1>5, FilterAssumption DEF HoldBack, Hold
    <2> QED
      BY <1>1, <1>2, <1>3, <1>5, <2>1
  <1> QED
    BY <1>4, <1>5, FilterAssumption

\* A sequence that is complete leaves the buffer, as a direction or as it is.
LEMMA CompleteType ==
    ASSUME buffered \in Seq(Bytes), out \in Seq(Bytes \cup {"direction"}),
           NEW terminator \in Seq(Bytes), Complete(terminator)
    PROVE  buffered' = <<>> /\ out' \in Seq(Bytes \cup {"direction"})
  <1>1. PICK bytes \in Seq(Bytes \cup {"direction"}) : Emit(bytes)
    <2>1. buffered \o terminator \in Seq(Bytes)
      OBVIOUS
    <2>2. <<"direction">> \in Seq(Bytes \cup {"direction"})
      OBVIOUS
    <2> QED
      BY <2>1, <2>2, BytesAreOutput DEF Complete
  <1> QED
    BY <1>1, EmitType DEF Complete

\* the end of a sequence, or an escape in it,
LEMMA EndSequenceKeeps == BufferInv /\ EndSequence => BufferInv'
  <1> SUFFICES ASSUME BufferInv, EndSequence PROVE BufferInv'
    OBVIOUS
  <1> USE DEF BufferInv, TypeOK, InSequence, HoldsBackLittle
  <1>1. chunk # <<>> /\ state = "sequence" /\ Consume(1)
    BY DEF EndSequence
  <1>2. chunk' \in Seq(Bytes) /\ seen' \in Seq(Bytes) /\ closed' = closed /\ ~closed
    BY <1>1, ConsumeType, CurrentType
  <1>3. CASE Complete(<<"bell">>) /\ state' = "text"
    <2>1. <<"bell">> \in Seq(Bytes)
      BY DEF Bytes
    <2>2. buffered' = <<>> /\ out' \in Seq(Bytes \cup {"direction"})
      BY <1>3, <2>1, CompleteType
    <2> QED
      BY <1>2, <1>3, <2>2, FilterAssumption
  <1>4. CASE state' = "terminator" /\ UNCHANGED <<buffered, out>>
    BY <1>1, <1>2, <1>4
  <1> QED
    BY <1>3, <1>4 DEF EndSequence

\* the byte after that escape,
LEMMA StepTerminatorKeeps == BufferInv /\ StepTerminator => BufferInv'
  <1> SUFFICES ASSUME BufferInv, StepTerminator PROVE BufferInv'
    OBVIOUS
  <1> USE DEF BufferInv, TypeOK, InSequence, HoldsBackLittle
  <1>1. chunk # <<>> /\ state = "terminator"
    BY DEF StepTerminator
  <1>2. PICK n \in {0, 1} : Consume(n)
    BY DEF StepTerminator
  <1>3. chunk' \in Seq(Bytes) /\ seen' \in Seq(Bytes) /\ closed' = closed /\ ~closed
    BY <1>1, <1>2, ConsumeType, CurrentType
  <1>4. CASE Current = "\\"
    <2>1. <<"escape", "\\">> \in Seq(Bytes)
      BY DEF Bytes
    <2>2. buffered' = <<>> /\ out' \in Seq(Bytes \cup {"direction"}) /\ state' = "text"
      BY <1>4, <2>1, CompleteType DEF StepTerminator
    <2> QED
      BY <1>3, <2>2, FilterAssumption
  <1>5. CASE Current # "\\"
    <2>1. FlushBuffered /\ state' = "escape"
      BY <1>5 DEF StepTerminator
    <2>2. out' \in Seq(Bytes \cup {"direction"})
      BY <2>1, EmitType, BytesAreOutput DEF FlushBuffered
    <2> QED
      BY <1>3, <2>1, <2>2, FilterAssumption DEF FlushBuffered
  <1> QED
    BY <1>4, <1>5

\* a new chunk, and Close.
LEMMA WriteCloseKeep == BufferInv /\ (Write \/ Close) => BufferInv'
  <1> SUFFICES ASSUME BufferInv, Write \/ Close PROVE BufferInv'
    OBVIOUS
  <1> USE DEF BufferInv, TypeOK, InSequence, HoldsBackLittle
  <1>1. CASE Write
    <2>1. PICK n \in 1..MaxRead : chunk' \in [1..n -> Bytes]
      BY <1>1 DEF Write
    <2>2. chunk' \in Seq(Bytes)
      BY <2>1, FilterAssumption
    <2> QED
      BY <1>1, <2>2 DEF Write
  <1>2. CASE Close
    <2>1. <<"escape">> \in Seq(Bytes) /\ <<>> \in Seq(Bytes)
      BY DEF Bytes
    <2>2. Pending \in Seq(Bytes)
      BY <2>1 DEF Pending
    <2>3. out' \in Seq(Bytes \cup {"direction"})
      BY <1>2, <2>2, EmitType, BytesAreOutput DEF Close
    <2> QED
      BY <1>2, <2>3, FilterAssumption DEF Close
  <1> QED
    BY <1>1, <1>2

\* The invariant of the buffer holds at first,
LEMMA BufferInit == Init => BufferInv
  <1> SUFFICES ASSUME Init PROVE BufferInv
    OBVIOUS
  <1>1. <<>> \in Seq(Bytes) /\ <<>> \in Seq(Bytes \cup {"direction"}) /\ Len(<<>>) = 0
    OBVIOUS
  <1>2. TypeOK
    BY <1>1 DEF Init, TypeOK
  <1>3. HoldsBackLittle
    BY <1>1, FilterAssumption DEF Init, HoldsBackLittle
  <1> QED
    BY <1>2, <1>3 DEF Init, BufferInv, InSequence

\* and every step keeps it.
LEMMA BufferStep == BufferInv /\ [Next]_vars => BufferInv'
  <1> SUFFICES ASSUME BufferInv, [Next]_vars PROVE BufferInv'
    OBVIOUS
  <1>1. CASE Next
    BY <1>1, StepTextKeeps, StepEscapeKeeps, HoldBackKeeps, EndSequenceKeeps,
       StepTerminatorKeeps, WriteCloseKeep DEF Next
  <1>2. CASE UNCHANGED vars
    BY <1>2 DEF vars, BufferInv, TypeOK, HoldsBackLittle
  <1> QED
    BY <1>1, <1>2

\* A set of naturals with 0 and every successor is all of them: a gap would make
\* the finite set of numbers missing below it map into itself by k - 1, onto itself.
LEMMA NatSetInduction ==
    ASSUME NEW T, 0 \in T, \A n \in Nat \cap T : n + 1 \in T
    PROVE  Nat \subseteq T
  <1> SUFFICES ASSUME NEW m \in Nat \ T PROVE FALSE
    OBVIOUS
  <1> DEFINE D == {k \in 0..m : k \notin T}
             f == [k \in D |-> k - 1]
  <1>1. IsFiniteSet(D)
    <2>1. IsFiniteSet(0..m) /\ D \in SUBSET (0..m)
      BY FS_Interval
    <2> QED
      BY <2>1, FS_Subset
  <1>2. \A k \in D : k - 1 \in D
    OBVIOUS
  <1>3. f \in Injection(D, D)
    BY <1>2 DEF Injection, IsInjective
  <1>4. f \in Surjection(D, D)
    <2> HIDE DEF f, D
    <2> QED
      BY <1>1, <1>3, FS_Injection
  <1>5. PICK k \in D : k - 1 = m
    <2>1. m \in D
      OBVIOUS
    <2> QED
      BY <1>4, <2>1 DEF Surjection
  <1> QED
    BY <1>5

\* The function FlattenSeq folds with: of the first n parts of ss.
Flattens(f, ss, n) == f = [i \in 1..n |-> IF i = 1 THEN ss[i] ELSE f[i-1] \o ss[i]]

\* There is one, for every number of parts,
LEMMA FlattensExists ==
    ASSUME NEW ss, NEW n \in Nat
    PROVE  \E f : Flattens(f, ss, n)
  <1> DEFINE T == {k \in Nat : \E f : Flattens(f, ss, k)}
  <1>1. 0 \in T
    <2>1. Flattens([i \in 1..0 |-> 0], ss, 0)
      BY DEF Flattens
    <2> QED
      BY <2>1
  <1>2. ASSUME NEW k \in Nat \cap T PROVE k + 1 \in T
    <2>1. PICK f : Flattens(f, ss, k)
      OBVIOUS
    <2> DEFINE g == [i \in 1..k + 1 |-> IF i <= k THEN f[i] ELSE IF k = 0 THEN ss[1] ELSE f[k] \o ss[k + 1]]
    <2>2. ASSUME NEW i \in 1..k + 1 PROVE g[i] = IF i = 1 THEN ss[i] ELSE g[i-1] \o ss[i]
      <3>1. CASE i <= k
        <4>1. i \in 1..k /\ (i # 1 => i - 1 \in 1..k)
          BY <3>1
        <4>2. f[i] = IF i = 1 THEN ss[i] ELSE f[i-1] \o ss[i]
          BY <2>1, <4>1 DEF Flattens
        <4>3. g[i] = f[i] /\ (i # 1 => g[i-1] = f[i-1])
          BY <4>1
        <4> QED
          BY <4>2, <4>3
      <3>2. CASE i = k + 1
        BY <3>2
      <3> QED
        BY <3>1, <3>2
    <2>3. Flattens(g, ss, k + 1)
      BY <2>2 DEF Flattens
    <2> QED
      BY <2>3
  <1> HIDE DEF T
  <1>3. n \in T
    BY <1>1, <1>2, NatSetInduction
  <1> QED
    BY <1>3 DEF T

\* The first n elements are the same.
Agree(ss, tt, n) == \A i \in 1..n : ss[i] = tt[i]

\* it depends on those parts only,
LEMMA FlattensUnique ==
    ASSUME NEW ss, NEW tt, NEW m \in Nat, NEW k \in 0..m,
           Agree(ss, tt, k), NEW f, NEW g, Flattens(f, ss, m) /\ Flattens(g, tt, k)
    PROVE  Agree(f, g, k)
  <1> DEFINE T == {j \in Nat : j \in 1..k => f[j] = g[j]}
  <1>1. 0 \in T
    OBVIOUS
  <1>2. ASSUME NEW j \in Nat \cap T PROVE j + 1 \in T
    <2> SUFFICES ASSUME j + 1 \in 1..k PROVE f[j + 1] = g[j + 1]
      OBVIOUS
    <2>1. /\ f[j + 1] = IF j + 1 = 1 THEN ss[j + 1] ELSE f[(j + 1) - 1] \o ss[j + 1]
          /\ g[j + 1] = IF j + 1 = 1 THEN tt[j + 1] ELSE g[(j + 1) - 1] \o tt[j + 1]
      <3>1. j + 1 \in 1..m
        OBVIOUS
      <3> QED
        BY <3>1 DEF Flattens
    <2>2. (j + 1) - 1 = j /\ (j # 0 => f[j] = g[j])
      OBVIOUS
    <2> QED
      BY <2>1, <2>2 DEF Agree
  <1> HIDE DEF T
  <1>3. Nat \subseteq T
    BY <1>1, <1>2, NatSetInduction
  <1>4. \A i \in 1..k : i \in T
    BY <1>3
  <1> QED
    BY <1>4 DEF T, Agree

\* and its values are sequences.
LEMMA FlattensType ==
    ASSUME NEW A, NEW ss \in Seq(Seq(A)), NEW f, Flattens(f, ss, Len(ss))
    PROVE  \A i \in 1..Len(ss) : f[i] \in Seq(A)
  <1> DEFINE T == {j \in Nat : j \in 1..Len(ss) => f[j] \in Seq(A)}
  <1>1. 0 \in T
    OBVIOUS
  <1>2. ASSUME NEW j \in Nat \cap T PROVE j + 1 \in T
    <2> SUFFICES ASSUME j + 1 \in 1..Len(ss) PROVE f[j + 1] \in Seq(A)
      OBVIOUS
    <2>1. f[j + 1] = IF j + 1 = 1 THEN ss[j + 1] ELSE f[(j + 1) - 1] \o ss[j + 1]
      BY DEF Flattens
    <2>2. (j + 1) - 1 = j /\ (j # 0 => f[j] \in Seq(A)) /\ ss[j + 1] \in Seq(A)
      OBVIOUS
    <2> HIDE DEF T
    <2> QED
      BY <2>1, <2>2
  <1> HIDE DEF T
  <1>3. Nat \subseteq T
    BY <1>1, <1>2, NatSetInduction
  <1>4. \A i \in 1..Len(ss) : i \in T
    BY <1>3
  <1> QED
    BY <1>4 DEF T

\* FlattenSeq is the last value of that function.
LEMMA FlattenSeqDef ==
    ASSUME NEW ss, Len(ss) \in Nat \ {0}
    PROVE  \E f : Flattens(f, ss, Len(ss)) /\ FlattenSeq(ss) = f[Len(ss)]
  <1> DEFINE f == CHOOSE g : Flattens(g, ss, Len(ss))
  <1>1. Len(ss) \in Nat
    OBVIOUS
  <1>2. \E g : Flattens(g, ss, Len(ss))
    BY <1>1, FlattensExists
  <1>3. Flattens(f, ss, Len(ss))
    BY <1>2
  <1>4. FlattenSeq(ss) = f[Len(ss)]
    BY DEF FlattenSeq, Flattens
  <1> QED
    BY <1>3, <1>4

\* One more part is joined to what the parts before it make.
LEMMA FlattenSeqGrows ==
    ASSUME NEW A, NEW ss \in Seq(Seq(A)), NEW rr \in Seq(Seq(A)),
           Len(ss) = Len(rr) + 1, Agree(ss, rr, Len(rr))
    PROVE  FlattenSeq(ss) = FlattenSeq(rr) \o ss[Len(ss)]
  <1>0. Len(rr) \in 0..Len(ss) /\ Len(rr) \in Nat /\ Len(ss) \in Nat \ {0} /\ Len(ss) \in 1..Len(ss) /\ Len(ss) \in Nat /\ Len(rr) <= Len(ss)
    OBVIOUS
  <1>1. PICK f : Flattens(f, ss, Len(ss)) /\ FlattenSeq(ss) = f[Len(ss)]
    BY <1>0, FlattenSeqDef
  <1>2. f[Len(ss)] = IF Len(ss) = 1 THEN ss[Len(ss)] ELSE f[Len(ss) - 1] \o ss[Len(ss)]
    BY <1>0, <1>1 DEF Flattens
  <1>3. CASE Len(rr) = 0
    <2>1. FlattenSeq(rr) = <<>>
      BY <1>3 DEF FlattenSeq
    <2>2. ss[Len(ss)] \in Seq(A)
      BY <1>3
    <2> QED
      BY <1>1, <1>2, <1>3, <2>1, <2>2
  <1>4. CASE Len(rr) # 0
    <2>1. PICK g : Flattens(g, rr, Len(rr)) /\ FlattenSeq(rr) = g[Len(rr)]
      BY <1>0, <1>4, FlattenSeqDef
    <2>2. f[Len(rr)] = g[Len(rr)]
      <3>1. Agree(f, g, Len(rr))
        <4>1. Flattens(f, ss, Len(ss)) /\ Flattens(g, rr, Len(rr))
          BY <1>1, <2>1
        <4> QED
          BY <1>0, <4>1, FlattensUnique
      <3> QED
        BY <1>0, <1>4, <3>1 DEF Agree
    <2>3. Len(ss) - 1 = Len(rr) /\ Len(ss) # 1
      BY <1>0, <1>4
    <2> QED
      BY <1>1, <1>2, <2>1, <2>2, <2>3
  <1> QED
    BY <1>3, <1>4

\* Sequences over A make one over A.
LEMMA FlattenSeqType ==
    ASSUME NEW A, NEW ss \in Seq(Seq(A))
    PROVE  FlattenSeq(ss) \in Seq(A)
  <1>1. CASE Len(ss) = 0
    BY <1>1 DEF FlattenSeq
  <1>2. CASE Len(ss) # 0
    BY <1>2, FlattenSeqDef, FlattensType
  <1> QED
    BY <1>1, <1>2

\* What the filter puts out: bytes, and directions between them.
Output == Bytes \cup {"direction"}

\* A sentinel of either form stands at i, byte by byte.
BellAt(s, i) ==
    i + 3 <= Len(s) /\ s[i] = "escape" /\ s[i+1] = "]" /\ s[i+2] = "title" /\ s[i+3] = "bell"
StringAt(s, i) ==
    /\ i + 4 <= Len(s) /\ s[i] = "escape" /\ s[i+1] = "]" /\ s[i+2] = "title"
    /\ s[i+3] = "escape" /\ s[i+4] = "\\"
\* A sentinel at i, one at j that covers i, and one that begins at i or before.
SentinelAt(s, i) == BellAt(s, i) \/ StringAt(s, i)
Covers(s, j, i) == (BellAt(s, j) /\ i < j + 4) \/ (StringAt(s, j) /\ i < j + 5)
Inside(s, i) == \E j \in 1..i : Covers(s, j, i)
\* What Filtered makes of position i.
Piece(s, i) ==
    IF SentinelAt(s, i) THEN <<"direction">> ELSE IF Inside(s, i) THEN <<>> ELSE <<s[i]>>
Pieces(s) == [i \in 1..Len(s) |-> Piece(s, i)]

\* The bytes of w stand at i.
Matches(w, s, i) == \A k \in 1..Len(w) : s[i + k - 1] = w[k]

\* StandsAt, byte by byte.
LEMMA StandsAtIndex ==
    ASSUME NEW s \in Seq(Bytes), NEW i \in 1..Len(s), NEW w \in Seq(Bytes), w # <<>>
    PROVE  StandsAt(w, s, i) <=> i + Len(w) - 1 <= Len(s) /\ Matches(w, s, i)
  <1>1. CASE i + Len(w) - 1 <= Len(s)
    <2> DEFINE u == SubSeq(s, i, i + Len(w) - 1)
    <2>1. u \in Seq(Bytes) /\ Len(u) = Len(w) /\ \A k \in 1..Len(w) : u[k] = s[i + k - 1]
      BY <1>1
    <2> HIDE DEF u
    <2>2. u = w <=> \A k \in 1..Len(w) : u[k] = w[k]
      BY <2>1
    <2>3. u = w <=> \A k \in 1..Len(w) : s[i + k - 1] = w[k]
      BY <2>1, <2>2
    <2> QED
      BY <1>1, <2>3 DEF StandsAt, u, Matches
  <1>2. CASE ~(i + Len(w) - 1 <= Len(s))
    BY <1>2 DEF StandsAt
  <1> QED
    BY <1>1, <1>2

\* StandsAt, of the two sentinels.
LEMMA StandsAtBytes ==
    ASSUME NEW s \in Seq(Bytes), NEW i \in 1..Len(s)
    PROVE  /\ StandsAt(<<"escape", "]", "title", "bell">>, s, i) <=> BellAt(s, i)
           /\ StandsAt(<<"escape", "]", "title", "escape", "\\">>, s, i) <=> StringAt(s, i)
  <1>1. StandsAt(<<"escape", "]", "title", "bell">>, s, i) <=> BellAt(s, i)
    <2> DEFINE w == <<"escape", "]", "title", "bell">>
    <2>1. w \in Seq(Bytes) /\ w # <<>> /\ Len(w) = 4
      BY DEF Bytes
    <2>2. Matches(w, s, i) <=>
             s[i] = "escape" /\ s[i+1] = "]" /\ s[i+2] = "title" /\ s[i+3] = "bell"
      <3>1. 1..4 = {1, 2, 3, 4} /\ i + 1 - 1 = i /\ i + 2 - 1 = i + 1 /\ i + 3 - 1 = i + 2 /\ i + 4 - 1 = i + 3
        OBVIOUS
      <3> QED
        BY <2>1, <3>1 DEF Matches
    <2>3. i + 4 - 1 = i + 3
      OBVIOUS
    <2> HIDE DEF w
    <2>4. StandsAt(w, s, i) <=> i + Len(w) - 1 <= Len(s) /\ Matches(w, s, i)
      BY <2>1, StandsAtIndex
    <2>5. StandsAt(w, s, i) <=> BellAt(s, i)
      BY <2>1, <2>2, <2>3, <2>4 DEF BellAt
    <2> QED
      BY <2>5 DEF w
  <1>2. StandsAt(<<"escape", "]", "title", "escape", "\\">>, s, i) <=> StringAt(s, i)
    <2> DEFINE w == <<"escape", "]", "title", "escape", "\\">>
    <2>1. w \in Seq(Bytes) /\ w # <<>> /\ Len(w) = 5
      BY DEF Bytes
    <2>2. Matches(w, s, i) <=>
             s[i] = "escape" /\ s[i+1] = "]" /\ s[i+2] = "title" /\ s[i+3] = "escape" /\ s[i+4] = "\\"
      <3>1. /\ 1..5 = {1, 2, 3, 4, 5} /\ i + 1 - 1 = i /\ i + 2 - 1 = i + 1 /\ i + 3 - 1 = i + 2
            /\ i + 4 - 1 = i + 3 /\ i + 5 - 1 = i + 4
        OBVIOUS
      <3> QED
        BY <2>1, <3>1 DEF Matches
    <2>3. i + 5 - 1 = i + 4
      OBVIOUS
    <2> HIDE DEF w
    <2>4. StandsAt(w, s, i) <=> i + Len(w) - 1 <= Len(s) /\ Matches(w, s, i)
      BY <2>1, StandsAtIndex
    <2>5. StandsAt(w, s, i) <=> StringAt(s, i)
      BY <2>1, <2>2, <2>3, <2>4 DEF StringAt
    <2> QED
      BY <2>5 DEF w
  <1> QED
    BY <1>1, <1>2

\* Filtered joins the pieces.
LEMMA FilteredPieces ==
    ASSUME NEW s \in Seq(Bytes)
    PROVE  Filtered(s) = FlattenSeq(Pieces(s))
  <1> DEFINE P(i) == IF \E w \in Sentinels : StandsAt(w, s, i) THEN <<"direction">>
                     ELSE IF \E w \in Sentinels, j \in 1..i : i < j + Len(w) /\ StandsAt(w, s, j) THEN <<>>
                     ELSE <<s[i]>>
  <1>1. ASSUME NEW i \in 1..Len(s) PROVE P(i) = Piece(s, i)
    <2>1. (\E w \in Sentinels : StandsAt(w, s, i)) <=> SentinelAt(s, i)
      BY StandsAtBytes DEF Sentinels, SentinelAt
    <2>2. (\E w \in Sentinels, j \in 1..i : i < j + Len(w) /\ StandsAt(w, s, j)) <=> Inside(s, i)
      <3>1. \A j \in 1..i : j \in 1..Len(s)
        OBVIOUS
      <3>2. \A j \in 1..i : (\E w \in Sentinels : i < j + Len(w) /\ StandsAt(w, s, j)) <=> Covers(s, j, i)
        BY <3>1, StandsAtBytes DEF Sentinels, Covers
      <3> QED
        BY <3>2 DEF Inside
    <2> QED
      BY <2>1, <2>2 DEF Piece
  <1>2. [i \in 1..Len(s) |-> P(i)] = Pieces(s)
    BY <1>1 DEF Pieces
  <1> QED
    BY <1>2 DEF Filtered

\* The pieces are output.
LEMMA PiecesType ==
    ASSUME NEW s \in Seq(Bytes)
    PROVE  Pieces(s) \in Seq(Seq(Output)) /\ Len(Pieces(s)) = Len(s) /\ Filtered(s) \in Seq(Output)
  <1>1. \A i \in 1..Len(s) : Piece(s, i) \in Seq(Output)
    <2> TAKE i \in 1..Len(s)
    <2>1. s[i] \in Output /\ "direction" \in Output
      BY DEF Output
    <2>2. <<"direction">> \in Seq(Output) /\ <<>> \in Seq(Output) /\ <<s[i]>> \in Seq(Output)
      BY <2>1
    <2> QED
      BY <2>2 DEF Piece
  <1>2. Pieces(s) \in Seq(Seq(Output)) /\ Len(Pieces(s)) = Len(s)
    BY <1>1 DEF Pieces
  <1> QED
    BY <1>2, FlattenSeqType, FilteredPieces

\* Byte b makes the end of s a sentinel.
Completes(s, b) ==
    \/ b = "bell" /\ EndsWith(s, <<"escape", "]", "title">>)
    \/ b = "\\" /\ EndsWith(s, <<"escape", "]", "title", "escape">>)

\* A byte that completes no sentinel goes through.
LEMMA AppendPlain ==
    ASSUME NEW s \in Seq(Bytes), NEW b \in Bytes, ~Completes(s, b)
    PROVE  Filtered(s \o <<b>>) = Filtered(s) \o <<b>>
  <1> DEFINE t == s \o <<b>>
             n == Len(s)
  <1>1. /\ t \in Seq(Bytes) /\ Len(t) = n + 1 /\ n \in Nat
        /\ \A i \in 1..n : t[i] = s[i]
        /\ t[n + 1] = b
    OBVIOUS
  <1>2. \A j \in 1..n : (BellAt(t, j) <=> BellAt(s, j)) /\ (StringAt(t, j) <=> StringAt(s, j))
    <2> TAKE j \in 1..n
    <2>1. j + 3 = n + 1 => ~BellAt(t, j)
      BY <1>1 DEF BellAt, Completes, EndsWith
    <2>2. j + 4 = n + 1 => ~StringAt(t, j)
      BY <1>1 DEF StringAt, Completes, EndsWith
    <2> HIDE DEF t
    <2>3. BellAt(t, j) <=> BellAt(s, j)
      BY <1>1, <2>1 DEF BellAt
    <2>4. StringAt(t, j) <=> StringAt(s, j)
      BY <1>1, <2>2 DEF StringAt
    <2> QED
      BY <2>3, <2>4
  <1>3. \A i \in 1..n : Piece(t, i) = Piece(s, i)
    <2> TAKE i \in 1..n
    <2>1. Inside(t, i) <=> Inside(s, i)
      BY <1>2 DEF Inside, Covers
    <2> QED
      BY <1>1, <1>2, <2>1 DEF Piece, SentinelAt
  <1>4. Piece(t, n + 1) = <<b>>
    <2>1. ~SentinelAt(t, n + 1)
      BY <1>1 DEF SentinelAt, BellAt, StringAt
    <2>2. ASSUME NEW j \in 1..n + 1, Covers(t, j, n + 1) PROVE FALSE
      <3>1. j \in 1..n
        BY <2>1, <2>2 DEF Covers, SentinelAt
      <3>2. Covers(s, j, n + 1)
        BY <1>2, <2>2, <3>1 DEF Covers
      <3> QED
        BY <3>1, <3>2 DEF Covers, BellAt, StringAt
    <2> QED
      BY <1>1, <2>1, <2>2 DEF Piece, Inside
  <1> HIDE DEF t
  <1>5. /\ Pieces(t) \in Seq(Seq(Output)) /\ Pieces(s) \in Seq(Seq(Output))
        /\ Len(Pieces(t)) = n + 1 /\ Len(Pieces(s)) = n
    BY <1>1, PiecesType
  <1>6. Agree(Pieces(t), Pieces(s), n) /\ Pieces(t)[n + 1] = <<b>>
    BY <1>1, <1>3, <1>4 DEF Agree, Pieces
  <1>7. FlattenSeq(Pieces(t)) = FlattenSeq(Pieces(s)) \o Pieces(t)[n + 1]
    BY <1>5, <1>6, FlattenSeqGrows
  <1>8. Filtered(t) = Filtered(s) \o <<b>>
    BY <1>1, <1>6, <1>7, FilteredPieces
  <1> QED
    BY <1>8 DEF t

\* Empty parts at the end add nothing.
LEMMA FlattenSeqDrop ==
    ASSUME NEW A, NEW ss \in Seq(Seq(A)), NEW n \in 0..Len(ss),
           \A i \in n + 1..Len(ss) : ss[i] = <<>>
    PROVE  FlattenSeq(ss) = FlattenSeq(SubSeq(ss, 1, n))
  <1> DEFINE T == {k \in Nat : n + k <= Len(ss) =>
                     FlattenSeq(SubSeq(ss, 1, n + k)) = FlattenSeq(SubSeq(ss, 1, n))}
  <1>1. 0 \in T
    OBVIOUS
  <1>2. ASSUME NEW k \in Nat \cap T PROVE k + 1 \in T
    <2> SUFFICES ASSUME n + k + 1 <= Len(ss)
                 PROVE  FlattenSeq(SubSeq(ss, 1, n + k + 1)) = FlattenSeq(SubSeq(ss, 1, n))
      OBVIOUS
    <2> DEFINE r == SubSeq(ss, 1, n + k)
               t == SubSeq(ss, 1, n + k + 1)
    <2>1. /\ r \in Seq(Seq(A)) /\ t \in Seq(Seq(A)) /\ Len(t) = Len(r) + 1 /\ Agree(t, r, Len(r))
          /\ t[Len(t)] = <<>>
      BY DEF Agree
    <2>2. FlattenSeq(r) = FlattenSeq(SubSeq(ss, 1, n))
      OBVIOUS
    <2> HIDE DEF r, t
    <2>3. FlattenSeq(t) = FlattenSeq(r) \o <<>>
      BY <2>1, FlattenSeqGrows
    <2>4. FlattenSeq(r) \in Seq(A)
      BY <2>1, FlattenSeqType
    <2>5. FlattenSeq(t) = FlattenSeq(r)
      BY <2>3, <2>4
    <2> QED
      BY <2>2, <2>5 DEF t
  <1> HIDE DEF T
  <1>3. Nat \subseteq T
    BY <1>1, <1>2, NatSetInduction
  <1>4. Len(ss) - n \in T
    BY <1>3
  <1>5. n + (Len(ss) - n) = Len(ss) /\ SubSeq(ss, 1, Len(ss)) = ss /\ Len(ss) <= Len(ss)
    OBVIOUS
  <1>6. FlattenSeq(SubSeq(ss, 1, n + (Len(ss) - n))) = FlattenSeq(SubSeq(ss, 1, n))
    BY <1>4, <1>5 DEF T
  <1> QED
    BY <1>5, <1>6

\* A stream s, and t that is s with a sentinel behind it.
LEMMA SentinelPieces ==
    ASSUME NEW s \in Seq(Bytes), NEW t \in Seq(Bytes), NEW n \in Nat, NEW m \in Nat,
           Len(s) = n, Len(t) = m, m = n + 4 \/ m = n + 5, \A i \in 1..n : t[i] = s[i],
           t[n + 1] = "escape", t[n + 2] = "]", t[n + 3] = "title",
           m = n + 4 => t[n + 4] = "bell",
           m = n + 5 => t[n + 4] = "escape" /\ t[n + 5] = "\\"
    PROVE  Filtered(t) = Filtered(s) \o <<"direction">>
  <1>4. \A j \in 1..n : (BellAt(t, j) <=> BellAt(s, j)) /\ (StringAt(t, j) <=> StringAt(s, j))
    <2> TAKE j \in 1..n
    <2>1. BellAt(t, j) => j + 3 <= n
      <3> SUFFICES ASSUME BellAt(t, j), j + 3 > n PROVE FALSE
        OBVIOUS
      <3>1. j = n \/ j + 1 = n \/ j + 2 = n
        OBVIOUS
      <3> QED
        BY <3>1 DEF BellAt
    <2>2. StringAt(t, j) => j + 4 <= n
      <3> SUFFICES ASSUME StringAt(t, j), j + 4 > n PROVE FALSE
        OBVIOUS
      <3>1. j = n \/ j + 1 = n \/ j + 2 = n \/ j + 3 = n
        OBVIOUS
      <3> QED
        BY <3>1 DEF StringAt
    <2>3. BellAt(t, j) <=> BellAt(s, j)
      BY <2>1 DEF BellAt
    <2>4. StringAt(t, j) <=> StringAt(s, j)
      BY <2>2 DEF StringAt
    <2> QED
      BY <2>3, <2>4
  <1>5. \A i \in 1..n : Piece(t, i) = Piece(s, i)
    <2> TAKE i \in 1..n
    <2>1. Inside(t, i) <=> Inside(s, i)
      BY <1>4 DEF Inside, Covers
    <2> QED
      BY <1>4, <2>1 DEF Piece, SentinelAt
  <1>6. /\ m = n + 4 => BellAt(t, n + 1)
        /\ m = n + 5 => StringAt(t, n + 1)
    BY DEF BellAt, StringAt
  <1>7. Piece(t, n + 1) = <<"direction">>
    BY <1>6 DEF Piece, SentinelAt
  <1>8. \A i \in n + 2..m : Piece(t, i) = <<>>
    <2> TAKE i \in n + 2..m
    <2>1. Covers(t, n + 1, i) /\ n + 1 \in 1..i
      BY <1>6 DEF Covers
    <2>2. ~SentinelAt(t, i)
      <3>1. i = n + 2 \/ i = n + 3 \/ i = n + 4 \/ i = n + 5
        OBVIOUS
      <3> QED
        BY <3>1 DEF SentinelAt, BellAt, StringAt
    <2> QED
      BY <2>1, <2>2 DEF Piece, Inside
  <1>9. /\ Pieces(t) \in Seq(Seq(Output)) /\ Pieces(s) \in Seq(Seq(Output))
        /\ Len(Pieces(t)) = m /\ Len(Pieces(s)) = n
    BY PiecesType
  <1> DEFINE r == SubSeq(Pieces(t), 1, n + 1)
  <1>10. /\ \A i \in 1..n : Pieces(t)[i] = Pieces(s)[i]
         /\ Pieces(t)[n + 1] = <<"direction">>
         /\ \A i \in n + 2..m : Pieces(t)[i] = <<>>
    BY <1>5, <1>7, <1>8 DEF Pieces
  <1>11. FlattenSeq(Pieces(t)) = FlattenSeq(r)
    <2>1. n + 1 \in 0..Len(Pieces(t)) /\ \A i \in (n + 1) + 1..Len(Pieces(t)) : Pieces(t)[i] = <<>>
      BY <1>9, <1>10
    <2> QED
      BY <1>9, <2>1, FlattenSeqDrop
  <1>12. FlattenSeq(r) = FlattenSeq(Pieces(s)) \o <<"direction">>
    <2>0. n + 1 \in Nat /\ n + 1 <= Len(Pieces(t))
      BY <1>9
    <2>1. /\ r \in Seq(Seq(Output)) /\ Len(r) = n + 1
          /\ \A i \in 1..n + 1 : r[i] = Pieces(t)[i]
      BY <1>9, <2>0
    <2>3. r[n + 1] = <<"direction">> /\ \A i \in 1..n : r[i] = Pieces(s)[i]
      BY <1>10, <2>0, <2>1
    <2>2. Agree(r, Pieces(s), Len(Pieces(s))) /\ Len(r) = Len(Pieces(s)) + 1
      BY <1>9, <2>1, <2>3 DEF Agree
    <2> HIDE DEF r
    <2>4. FlattenSeq(r) = FlattenSeq(Pieces(s)) \o r[Len(r)]
      BY <1>9, <2>1, <2>2, FlattenSeqGrows
    <2> QED
      BY <2>1, <2>3, <2>4
  <1> QED
    BY <1>11, <1>12, FilteredPieces

\* A sentinel behind a stream is one direction.
LEMMA AppendSentinel ==
    ASSUME NEW s \in Seq(Bytes), NEW w \in Sentinels
    PROVE  Filtered(s \o w) = Filtered(s) \o <<"direction">>
  <1>1. /\ w \in Seq(Bytes) /\ (Len(w) = 4 \/ Len(w) = 5)
        /\ w[1] = "escape" /\ w[2] = "]" /\ w[3] = "title"
        /\ Len(w) = 4 => w[4] = "bell"
        /\ Len(w) = 5 => w[4] = "escape" /\ w[5] = "\\"
    <2>1. CASE w = <<"escape", "]", "title", "bell">>
      BY <2>1 DEF Bytes
    <2>2. CASE w = <<"escape", "]", "title", "escape", "\\">>
      BY <2>2 DEF Bytes
    <2> QED
      BY <2>1, <2>2 DEF Sentinels
  <1> DEFINE t == s \o w
             n == Len(s)
             m == Len(s) + Len(w)
  <1>2. t \in Seq(Bytes) /\ n \in Nat /\ m \in Nat /\ Len(t) = m
    BY <1>1
  <1>7. m = n + 4 \/ m = n + 5
    BY <1>1
  <1>3. \A i \in 1..n : t[i] = s[i]
    BY <1>1
  <1>4. /\ t[n + 1] = "escape" /\ t[n + 2] = "]" /\ t[n + 3] = "title"
        /\ m = n + 4 => t[n + 4] = "bell"
        /\ m = n + 5 => t[n + 4] = "escape" /\ t[n + 5] = "\\"
    BY <1>1
  <1>5. Len(s) = n
    OBVIOUS
  <1> HIDE DEF t, n, m
  <1>6. Filtered(t) = Filtered(s) \o <<"direction">>
    BY <1>2, <1>3, <1>4, <1>5, <1>7, SentinelPieces
  <1> QED
    BY <1>6 DEF t

\* Bytes none of which completes a sentinel go through.
LEMMA AppendPlainAll ==
    ASSUME NEW s \in Seq(Bytes), NEW p \in Seq(Bytes),
           \A k \in 0..Len(p) - 1 : ~Completes(s \o SubSeq(p, 1, k), p[k + 1])
    PROVE  Filtered(s \o p) = Filtered(s) \o p
  <1> DEFINE T == {k \in Nat : k <= Len(p) =>
                     Filtered(s \o SubSeq(p, 1, k)) = Filtered(s) \o SubSeq(p, 1, k)}
  <1>0. Filtered(s) \in Seq(Output) /\ \A q \in Seq(Bytes) : q \in Seq(Output)
    BY PiecesType DEF Output
  <1>1. 0 \in T
    <2>1. SubSeq(p, 1, 0) = <<>>
      OBVIOUS
    <2>2. s \o <<>> = s /\ Filtered(s) \o <<>> = Filtered(s)
      BY <1>0
    <2>3. Filtered(s \o SubSeq(p, 1, 0)) = Filtered(s) \o SubSeq(p, 1, 0)
      BY <2>1, <2>2
    <2> QED
      BY <2>3
  <1>2. ASSUME NEW k \in Nat \cap T PROVE k + 1 \in T
    <2> SUFFICES ASSUME k + 1 <= Len(p)
                 PROVE  Filtered(s \o SubSeq(p, 1, k + 1)) = Filtered(s) \o SubSeq(p, 1, k + 1)
      OBVIOUS
    <2> DEFINE q == SubSeq(p, 1, k)
               b == p[k + 1]
    <2>1. q \in Seq(Bytes) /\ b \in Bytes /\ SubSeq(p, 1, k + 1) = q \o <<b>>
      OBVIOUS
    <2>2. ~Completes(s \o q, b) /\ Filtered(s \o q) = Filtered(s) \o q
      OBVIOUS
    <2> HIDE DEF q, b
    <2>3. s \o q \in Seq(Bytes) /\ s \o (q \o <<b>>) = (s \o q) \o <<b>>
      BY <2>1
    <2>4. Filtered((s \o q) \o <<b>>) = Filtered(s \o q) \o <<b>>
      BY <2>1, <2>2, <2>3, AppendPlain
    <2>5. q \in Seq(Output) /\ <<b>> \in Seq(Output)
      BY <1>0, <2>1
    <2>6. (Filtered(s) \o q) \o <<b>> = Filtered(s) \o (q \o <<b>>)
      BY <1>0, <2>5
    <2> QED
      BY <2>1, <2>2, <2>3, <2>4, <2>6
  <1> HIDE DEF T
  <1>3. Nat \subseteq T
    BY <1>1, <1>2, NatSetInduction
  <1>4. Len(p) \in T
    BY <1>3
  <1>5. SubSeq(p, 1, Len(p)) = p /\ Len(p) <= Len(p)
    OBVIOUS
  <1>6. Filtered(s \o SubSeq(p, 1, Len(p))) = Filtered(s) \o SubSeq(p, 1, Len(p))
    BY <1>4, <1>5 DEF T
  <1> QED
    BY <1>5, <1>6

\* The byte that completes a sentinel takes back what was let through of it.
LEMMA ByteCompletesAnEnd ==
    ASSUME NEW s \in Seq(Bytes), NEW w \in {<<"escape", "]", "title">>, <<"escape", "]", "title", "escape">>},
           NEW b \in Bytes, w \o <<b>> \in Sentinels, EndsWith(s, w),
           NEW o \in Seq(Output), o \o w = Filtered(s)
    PROVE  Filtered(s \o <<b>>) = o \o <<"direction">>
  <1> DEFINE pre == SubSeq(s, 1, Len(s) - Len(w))
  <1>1. w \in Seq(Bytes) /\ w \in Seq(Output) /\ (Len(w) = 3 \/ Len(w) = 4) /\ \A i \in 1..Len(w) : w[i] \notin {"bell", "\\"}
    <2>1. CASE w = <<"escape", "]", "title">>
      BY <2>1 DEF Bytes, Output
    <2>2. CASE w = <<"escape", "]", "title", "escape">>
      BY <2>2 DEF Bytes, Output
    <2> QED
      BY <2>1, <2>2
  <1>2. pre \in Seq(Bytes) /\ s = pre \o w
    <2>1. Len(w) \in Nat /\ Len(s) \in Nat /\ Len(w) <= Len(s)
      BY <1>1 DEF EndsWith
    <2>2. Len(s) - Len(w) \in 0..Len(s)
      BY <2>1
    <2>3. pre \in Seq(Bytes) /\ Len(pre) = Len(s) - Len(w) /\ \A i \in 1..Len(s) - Len(w) : pre[i] = s[i]
      BY <2>2
    <2> HIDE DEF pre
    <2>4. pre \o w \in Seq(Bytes) /\ Len(pre \o w) = Len(s)
      BY <1>1, <2>1, <2>3
    <2>5. ASSUME NEW i \in 1..Len(s) PROVE (pre \o w)[i] = s[i]
      <3>1. CASE i <= Len(s) - Len(w)
        BY <1>1, <2>1, <2>3, <3>1
      <3>2. CASE i > Len(s) - Len(w)
        <4>1. i - (Len(s) - Len(w)) \in 1..Len(w) /\ (pre \o w)[i] = w[i - (Len(s) - Len(w))]
          BY <1>1, <2>1, <2>3, <3>2
        <4>2. s[Len(s) - Len(w) + (i - (Len(s) - Len(w)))] = w[i - (Len(s) - Len(w))]
          BY <4>1 DEF EndsWith
        <4>3. Len(s) - Len(w) + (i - (Len(s) - Len(w))) = i
          BY <2>1
        <4> QED
          BY <4>1, <4>2, <4>3
      <3>3. i <= Len(s) - Len(w) \/ i > Len(s) - Len(w)
        BY <2>2
      <3> QED
        BY <3>1, <3>2, <3>3
    <2>6. pre \o w = s
      BY <2>4, <2>5, SeqEqual
    <2> QED
      BY <2>3, <2>6
  <1> HIDE DEF pre
  <1>3. Filtered(pre) \in Seq(Output)
    BY <1>2, PiecesType
  <1>4. Filtered(s) = Filtered(pre) \o w
    <2>1. \A k \in 0..Len(w) - 1 : ~Completes(pre \o SubSeq(w, 1, k), w[k + 1])
      BY <1>1 DEF Completes
    <2> QED
      BY <1>1, <1>2, <2>1, AppendPlainAll
  <1>5. o = Filtered(pre)
    BY <1>1, <1>3, <1>4, ConcatSimplifications
  <1>6. <<b>> \in Seq(Bytes) /\ s \o <<b>> = pre \o (w \o <<b>>)
    BY <1>1, <1>2
  <1>7. Filtered(pre \o (w \o <<b>>)) = Filtered(pre) \o <<"direction">>
    BY <1>2, AppendSentinel
  <1> QED
    BY <1>5, <1>6, <1>7

\* The same byte behind a stream and behind its end.
LEMMA EndsWithGrows ==
    ASSUME NEW s \in Seq(Bytes), NEW w \in Seq(Bytes), NEW b \in Bytes, EndsWith(s, w)
    PROVE  EndsWith(s \o <<b>>, w \o <<b>>)
  <1>1. Len(s \o <<b>>) = Len(s) + 1 /\ Len(w \o <<b>>) = Len(w) + 1 /\ Len(s) \in Nat /\ Len(w) \in Nat
    OBVIOUS
  <1>2. Len(w) <= Len(s)
    BY DEF EndsWith
  <1>3. ASSUME NEW i \in 1..Len(w) + 1
        PROVE  (s \o <<b>>)[(Len(s) + 1) - (Len(w) + 1) + i] = (w \o <<b>>)[i]
    <2>1. CASE i \in 1..Len(w)
      <3>1. s[Len(s) - Len(w) + i] = w[i]
        BY <2>1 DEF EndsWith
      <3>2. (Len(s) + 1) - (Len(w) + 1) + i = Len(s) - Len(w) + i /\ Len(s) - Len(w) + i \in 1..Len(s)
        BY <1>1, <1>2, <2>1
      <3>3. (s \o <<b>>)[Len(s) - Len(w) + i] = s[Len(s) - Len(w) + i] /\ (w \o <<b>>)[i] = w[i]
        BY <2>1, <3>2
      <3> QED
        BY <3>1, <3>2, <3>3
    <2>2. CASE i = Len(w) + 1
      <3>1. (Len(s) + 1) - (Len(w) + 1) + i = Len(s) + 1
        BY <1>1, <2>2
      <3>2. (s \o <<b>>)[Len(s) + 1] = b /\ (w \o <<b>>)[Len(w) + 1] = b
        OBVIOUS
      <3> QED
        BY <2>2, <3>1, <3>2
    <2>3. i \in 1..Len(w) \/ i = Len(w) + 1
      BY <1>1
    <2> QED
      BY <2>1, <2>2, <2>3
  <1> QED
    BY <1>1, <1>2, <1>3 DEF EndsWith

\* A step that resumes one byte on has seen the current byte.
LEMMA ConsumeOne ==
    ASSUME chunk \in Seq(Bytes), chunk # <<>>, Consume(1)
    PROVE  seen' = seen \o <<Current>> /\ Current \in Bytes /\ closed' = closed
  <1>0. Len(chunk) \in Nat /\ Len(chunk) >= 1 /\ 1 \in 1..Len(chunk)
    OBVIOUS
  <1>1. Head(chunk) = chunk[1] /\ chunk[1] \in Bytes
    BY <1>0
  <1>2. SubSeq(chunk, 1, 1) = <<chunk[1]>>
    <2>1. /\ SubSeq(chunk, 1, 1) \in Seq(Bytes) /\ Len(SubSeq(chunk, 1, 1)) = 1
          /\ SubSeq(chunk, 1, 1)[1] = chunk[1]
      BY <1>0
    <2>2. <<chunk[1]>> \in Seq(Bytes) /\ Len(<<chunk[1]>>) = 1 /\ <<chunk[1]>>[1] = chunk[1]
      BY <1>1
    <2>3. \A i \in 1..1 : SubSeq(chunk, 1, 1)[i] = <<chunk[1]>>[i]
      BY <2>1, <2>2
    <2> QED
      BY <2>1, <2>2, <2>3, SeqEqual
  <1> QED
    BY <1>1, <1>2 DEF Consume, Current

\* What the end of the stream says of the buffer of an unterminated sequence.
LEMMA SequenceEnd ==
    ASSUME NEW s \in Seq(Bytes), NEW b \in Seq(Bytes), Len(b) >= 2, b[1] = "escape", b[2] = "]",
           \A i \in 3..Len(b) : b[i] \notin {"escape", "bell"}, EndsWith(s, b)
    PROVE  /\ Len(s) >= 2 /\ s[Len(s)] # "escape"
           /\ EndsWith(s, <<"escape", "]", "title">>) => b = <<"escape", "]", "title">>
           /\ Len(b) >= 4 => s[Len(s) - 1] # "escape"
  <1> DEFINE n == Len(s)
             m == Len(b)
  <1>1. n \in Nat /\ m \in Nat /\ m <= n /\ m >= 2 /\ \A i \in 1..m : s[n - m + i] = b[i]
    BY DEF EndsWith
  <1>2. \A i \in 2..m : b[i] # "escape"
    BY <1>1
  <1> HIDE DEF n, m
  <1>3. s[n] = b[m]
    <2>1. m \in 1..m /\ n - m + m = n
      BY <1>1
    <2> QED
      BY <1>1, <2>1
  <1>4. s[n - 1] = b[m - 1]
    <2>1. m - 1 \in 1..m /\ n - m + (m - 1) = n - 1
      BY <1>1
    <2> QED
      BY <1>1, <2>1
  <1>5. m >= 3 => s[n - 2] = b[m - 2]
    <2> SUFFICES ASSUME m >= 3 PROVE s[n - 2] = b[m - 2]
      OBVIOUS
    <2>1. m - 2 \in 1..m /\ n - m + (m - 2) = n - 2
      BY <1>1
    <2> QED
      BY <1>1, <2>1
  <1>6. ASSUME n >= 3, s[n - 2] = "escape", s[n - 1] = "]", s[n] = "title"
        PROVE  m = 3 /\ b[3] = "title"
    <2>1. m # 2
      BY <1>1, <1>3, <1>6
    <2>2. m >= 3
      BY <1>1, <2>1
    <2>3. b[m - 2] = "escape"
      BY <1>5, <1>6, <2>2
    <2>4. ~(m - 2 \in 2..m)
      BY <1>2, <2>3
    <2>5. m = 3
      BY <1>1, <2>2, <2>4
    <2> QED
      BY <1>3, <1>6, <2>5
  <1>7. EndsWith(s, <<"escape", "]", "title">>) => n >= 3 /\ s[n - 2] = "escape" /\ s[n - 1] = "]" /\ s[n] = "title"
    BY <1>1 DEF EndsWith, n
  <1>8. m = 3 /\ b[3] = "title" => b = <<"escape", "]", "title">>
    BY DEF m
  <1>9. b[m] # "escape" /\ (m >= 4 => b[m - 1] # "escape")
    BY <1>1, <1>2
  <1> QED
    BY <1>1, <1>3, <1>4, <1>6, <1>7, <1>8, <1>9 DEF n, m

\* The inductive invariant.
ExactInv == FilterInv /\ FilterExact

\* A stream ends in the beginning of a sentinel if its last bytes are one.
LEMMA BeginningBytes ==
    ASSUME NEW s \in Seq(Bytes), NEW n \in Nat, n = Len(s)
    PROVE  (\A w \in Beginnings : ~EndsWith(s, w)) <=>
              /\ n >= 1 => s[n] # "escape"
              /\ n >= 2 => ~(s[n - 1] = "escape" /\ s[n] = "]")
              /\ n >= 3 => ~(s[n - 2] = "escape" /\ s[n - 1] = "]" /\ s[n] = "title")
  <1>1. EndsWith(s, <<"escape">>) <=> n >= 1 /\ s[n] = "escape"
    BY DEF EndsWith
  <1>2. EndsWith(s, <<"escape", "]">>) <=> n >= 2 /\ s[n - 1] = "escape" /\ s[n] = "]"
    BY DEF EndsWith
  <1>3. EndsWith(s, <<"escape", "]", "title">>) <=>
           n >= 3 /\ s[n - 2] = "escape" /\ s[n - 1] = "]" /\ s[n] = "title"
    BY DEF EndsWith
  <1>4. EndsWith(s, <<"escape", "]", "title", "escape">>) => n >= 1 /\ s[n] = "escape"
    BY DEF EndsWith
  <1> QED
    BY <1>1, <1>2, <1>3, <1>4 DEF Beginnings

\* While the filter runs: what a step may use.
LEMMA Running ==
    ASSUME ExactInv, chunk # <<>>
    PROVE  /\ ~closed /\ chunk \in Seq(Bytes) /\ seen \in Seq(Bytes) /\ buffered \in Seq(Bytes)
           /\ out \in Seq(Output) /\ out \o Pending = Filtered(seen)
           /\ state = "text" => \A w \in Beginnings : ~EndsWith(seen, w)
           /\ EndsWith(seen, Pending)
           /\ state = "escape" /\ EndsWith(seen, <<"escape", "]", "title", "escape">>) => Current # "\\"
           /\ state \notin InSequence => buffered = <<>>
           /\ state \in InSequence =>
                 /\ Len(buffered) >= 2
                 /\ buffered[1] = "escape" /\ buffered[2] = "]"
                 /\ \A i \in 3..Len(buffered) : buffered[i] \notin {"escape", "bell"}
  BY DEF ExactInv, FilterInv, FilterExact, BufferInv, HoldsBackLittle, TypeOK, ScanInv, Output

\* Each step keeps the output exact: the byte after an escape,
LEMMA StepEscapeExact ==
    ASSUME ExactInv, StepEscape PROVE ScanInv' /\ FilterExact'
  <1>1. chunk # <<>> /\ state = "escape" /\ Consume(1)
    BY DEF StepEscape
  <1>2. /\ seen' = seen \o <<Current>> /\ Current \in Bytes /\ seen \in Seq(Bytes) /\ out \in Seq(Output)
        /\ buffered = <<>> /\ Current \in Output /\ "escape" \in Output /\ "escape" \in Bytes
    BY <1>1, Running, ConsumeOne DEF InSequence, Output, Bytes
  <1>3. Pending = <<"escape">>
    BY <1>1, <1>2 DEF Pending
  <1>4. Len(seen) \in Nat /\ Len(seen) >= 1 /\ seen[Len(seen)] = "escape"
    <2>1. EndsWith(seen, <<"escape">>)
      BY <1>1, <1>3, Running
    <2> QED
      BY <1>2, <2>1 DEF EndsWith
  <1>5. ~Completes(seen, Current)
    <2>1. ~EndsWith(seen, <<"escape", "]", "title">>)
      BY <1>2, <1>4 DEF EndsWith
    <2>2. EndsWith(seen, <<"escape", "]", "title", "escape">>) => Current # "\\"
      BY <1>1, Running
    <2> QED
      BY <2>1, <2>2 DEF Completes
  <1>6. Filtered(seen') = (out \o <<"escape">>) \o <<Current>>
    BY <1>1, <1>2, <1>3, <1>5, Running, AppendPlain
  <1>7. /\ Len(seen') = Len(seen) + 1 /\ seen'[Len(seen) + 1] = Current
        /\ seen'[Len(seen)] = "escape"
    BY <1>2, <1>4
  <1>8. CASE Current = "]"
    <2>1. buffered' = <<"escape", "]">> /\ state' = "sequence" /\ out' = out
      BY <1>8 DEF StepEscape
    <2>2. Pending' = <<"escape", "]">>
      BY <2>1 DEF Pending
    <2>3. EndsWith(seen', <<"escape", "]">>)
      BY <1>4, <1>7, <1>8 DEF EndsWith
    <2>4. (out \o <<"escape">>) \o <<"]">> = out \o <<"escape", "]">>
      BY <1>2, <1>8
    <2> QED
      BY <1>6, <1>8, <2>1, <2>2, <2>3, <2>4 DEF ScanInv, FilterExact
  <1>9. CASE Current = "escape"
    <2>1. buffered' = <<>> /\ state' = "escape" /\ out' = out \o <<"escape">>
      BY <1>1, <1>2, <1>9 DEF StepEscape, Emit
    <2>2. Pending' = <<"escape">>
      BY <2>1 DEF Pending
    <2>3. EndsWith(seen', <<"escape">>) /\ ~EndsWith(seen', <<"escape", "]", "title", "escape">>)
      BY <1>4, <1>7, <1>9 DEF EndsWith
    <2> QED
      BY <1>6, <1>9, <2>1, <2>2, <2>3 DEF ScanInv, FilterExact
  <1>10. CASE Current \notin {"]", "escape"}
    <2>1. buffered' = <<>> /\ state' = "text" /\ out' = out \o <<"escape", Current>>
      BY <1>1, <1>2, <1>10 DEF StepEscape, Emit
    <2>2. Pending' = <<>>
      BY <2>1 DEF Pending
    <2>3. \A w \in Beginnings : ~EndsWith(seen', w)
      <3>1. seen' \in Seq(Bytes) /\ Len(seen') \in Nat /\ Len(seen') - 1 = Len(seen)
        BY <1>2
      <3> QED
        BY <1>7, <1>10, <3>1, BeginningBytes
    <2>4. EndsWith(seen', <<>>)
      BY <1>4, <1>7 DEF EndsWith
    <2>5. (out \o <<"escape">>) \o <<Current>> = (out \o <<"escape", Current>>) \o <<>>
      <3>1. (out \o <<"escape">>) \o <<Current>> = out \o <<"escape", Current>>
        BY <1>2
      <3>2. out \o <<"escape", Current>> \in Seq(Output)
        BY <1>2
      <3>3. (out \o <<"escape", Current>>) \o <<>> = out \o <<"escape", Current>>
        BY <3>2, ConcatEmptySeq
      <3> QED
        BY <3>1, <3>3
    <2> QED
      BY <1>6, <2>1, <2>2, <2>3, <2>4, <2>5 DEF ScanInv, FilterExact
  <1> QED
    BY <1>8, <1>9, <1>10

\* a byte of a sequence,
LEMMA HoldBackExact ==
    ASSUME ExactInv, HoldBack PROVE ScanInv' /\ FilterExact'
  <1>1. chunk # <<>> /\ state = "sequence" /\ Consume(1) /\ Current \notin {"bell", "escape"}
    BY DEF HoldBack
  <1>2. /\ seen' = seen \o <<Current>> /\ Current \in Bytes /\ seen \in Seq(Bytes) /\ out \in Seq(Output)
        /\ buffered \in Seq(Bytes) /\ buffered \in Seq(Output) /\ Current \in Output
    <2>1. chunk \in Seq(Bytes) /\ seen \in Seq(Bytes) /\ out \in Seq(Output) /\ buffered \in Seq(Bytes)
      BY <1>1, Running
    <2>2. seen' = seen \o <<Current>> /\ Current \in Bytes
      BY <1>1, <2>1, ConsumeOne
    <2> QED
      BY <2>1, <2>2, BytesAreOutput DEF Output
  <1>3. Pending = buffered
    BY <1>1, <1>2 DEF Pending
  <1>4. /\ Len(seen) \in Nat /\ Len(seen) >= 2 /\ seen[Len(seen)] # "escape"
        /\ Len(buffered) >= 4 => seen[Len(seen) - 1] # "escape"
    <2>1. /\ EndsWith(seen, buffered) /\ Len(buffered) >= 2
          /\ buffered[1] = "escape" /\ buffered[2] = "]"
          /\ \A i \in 3..Len(buffered) : buffered[i] \notin {"escape", "bell"}
      BY <1>1, <1>3, Running DEF InSequence
    <2> QED
      BY <1>2, <2>1, SequenceEnd
  <1>5. ~Completes(seen, Current)
    BY <1>1, <1>2, <1>4 DEF Completes, EndsWith
  <1>6. Filtered(seen') = (out \o buffered) \o <<Current>>
    BY <1>1, <1>2, <1>3, <1>5, Running, AppendPlain
  <1>7. (out \o buffered) \o <<Current>> = out \o (buffered \o <<Current>>)
    BY <1>2
  <1>8. CASE Len(buffered) + 1 > MaxBuffered
    <2>1. buffered' = <<>> /\ state' = "text" /\ out' = out \o (buffered \o <<Current>>)
      BY <1>8 DEF HoldBack, Emit
    <2>2. Pending' = <<>> /\ out' \o <<>> = out'
      BY <1>2, <2>1 DEF Pending
    <2>3. Len(buffered) >= 4
      BY <1>2, <1>8, FilterAssumption
    <2>4. /\ Len(seen') = Len(seen) + 1 /\ seen'[Len(seen) + 1] = Current
          /\ seen'[Len(seen)] # "escape" /\ seen'[Len(seen) - 1] # "escape"
      BY <1>2, <1>4, <2>3
    <2>5. \A w \in Beginnings : ~EndsWith(seen', w)
      <3>1. /\ seen' \in Seq(Bytes) /\ Len(seen') \in Nat /\ Len(seen') - 1 = Len(seen)
            /\ Len(seen') - 2 = Len(seen) - 1
        BY <1>2
      <3> QED
        BY <1>1, <2>4, <3>1, BeginningBytes
    <2>6. EndsWith(seen', <<>>)
      BY <1>4, <2>4 DEF EndsWith
    <2> QED
      BY <1>6, <1>7, <2>1, <2>2, <2>5, <2>6 DEF ScanInv, FilterExact
  <1>9. CASE Len(buffered) + 1 <= MaxBuffered
    <2>1. buffered' = buffered \o <<Current>> /\ state' = "sequence" /\ out' = out
      BY <1>1, <1>2, <1>9, FilterAssumption DEF HoldBack, Hold
    <2>2. Pending' = buffered \o <<Current>>
      BY <1>2, <2>1 DEF Pending
    <2>3. EndsWith(seen', buffered \o <<Current>>)
      BY <1>1, <1>2, <1>3, Running, EndsWithGrows
    <2> QED
      BY <1>6, <1>7, <2>1, <2>2, <2>3 DEF ScanInv, FilterExact
  <1> QED
    BY <1>2, <1>8, <1>9, FilterAssumption

\* Sequences with a last byte are equal if both parts are.
LEMMA ConcatLast ==
    ASSUME NEW A, NEW s \in Seq(A), NEW t \in Seq(A), NEW a \in A, NEW b \in A
    PROVE  s \o <<a>> = t \o <<b>> <=> s = t /\ a = b
  BY AppendIsConcat, AppendInjective

\* The two sentinels, cut before their last byte.
LEMMA SentinelsCut ==
    /\ <<"escape", "]", "title">> \in Seq(Bytes)
    /\ <<"escape", "]", "title", "escape">> \in Seq(Bytes)
    /\ <<"escape", "]", "title">> \o <<"bell">> = <<"escape", "]", "title", "bell">>
    /\ <<"escape", "]", "title">> \o <<"escape">> = <<"escape", "]", "title", "escape">>
    /\ <<"escape", "]", "title", "escape">> \o <<"\\">> = <<"escape", "]", "title", "escape", "\\">>
  <1>1. <<"escape", "]", "title">> \in Seq(Bytes) /\ <<"escape", "]", "title", "escape">> \in Seq(Bytes)
    BY DEF Bytes
  <1>2. \A e \in Bytes : <<"escape", "]", "title">> \o <<e>> = <<"escape", "]", "title", e>>
    <2> TAKE e \in Bytes
    <2> DEFINE w == <<"escape", "]", "title">>
               x == w \o <<e>>
               v == <<"escape", "]", "title", e>>
    <2>1. w \in Seq(Bytes) /\ Len(w) = 3 /\ <<e>> \in Seq(Bytes) /\ Len(<<e>>) = 1
      BY <1>1
    <2>2. v \in Seq(Bytes) /\ Len(v) = 4
      BY DEF Bytes
    <2>3. /\ x \in Seq(Bytes) /\ Len(x) = 4
          /\ \A i \in 1..3 : x[i] = w[i]
          /\ x[4] = e
      BY <2>1, ConcatProperties
    <2>4. x[1] = v[1] /\ x[2] = v[2] /\ x[3] = v[3] /\ x[4] = v[4]
      BY <2>3
    <2>5. \A i \in 1..4 : i = 1 \/ i = 2 \/ i = 3 \/ i = 4
      OBVIOUS
    <2> HIDE DEF w, x, v
    <2>6. x = v
      BY <2>2, <2>3, <2>4, <2>5, SeqEqual
    <2> QED
      BY <2>6 DEF x, v, w
  <1>3. \A e \in Bytes : <<"escape", "]", "title", "escape">> \o <<e>> = <<"escape", "]", "title", "escape", e>>
    <2> TAKE e \in Bytes
    <2> DEFINE w == <<"escape", "]", "title", "escape">>
               x == w \o <<e>>
               v == <<"escape", "]", "title", "escape", e>>
    <2>1. w \in Seq(Bytes) /\ Len(w) = 4 /\ <<e>> \in Seq(Bytes) /\ Len(<<e>>) = 1
      BY <1>1
    <2>2. v \in Seq(Bytes) /\ Len(v) = 5
      BY DEF Bytes
    <2>3. /\ x \in Seq(Bytes) /\ Len(x) = 5
          /\ \A i \in 1..4 : x[i] = w[i]
          /\ x[5] = e
      BY <2>1, ConcatProperties
    <2>4. x[1] = v[1] /\ x[2] = v[2] /\ x[3] = v[3] /\ x[4] = v[4] /\ x[5] = v[5]
      BY <2>3
    <2>5. \A i \in 1..5 : i = 1 \/ i = 2 \/ i = 3 \/ i = 4 \/ i = 5
      OBVIOUS
    <2> HIDE DEF w, x, v
    <2>6. x = v
      BY <2>2, <2>3, <2>4, <2>5, SeqEqual
    <2> QED
      BY <2>6 DEF x, v, w
  <1> QED
    BY <1>1, <1>2, <1>3 DEF Bytes

\* What complete decides on: the buffer is a sentinel without its terminator.
LEMMA SentinelEnds ==
    ASSUME NEW b \in Seq(Bytes)
    PROVE  /\ IsSentinel(b \o <<"bell">>) <=> b = <<"escape", "]", "title">>
           /\ IsSentinel(b \o <<"escape", "\\">>) <=> b = <<"escape", "]", "title">>
           /\ b \o <<"escape", "\\">> = (b \o <<"escape">>) \o <<"\\">>
           /\ b = <<"escape", "]", "title">> =>
                 /\ b \o <<"bell">> \in Sentinels
                 /\ b \o <<"escape">> = <<"escape", "]", "title", "escape">>
                 /\ (b \o <<"escape">>) \o <<"\\">> \in Sentinels
  <1>1. /\ "escape" \in Bytes /\ "bell" \in Bytes /\ "\\" \in Bytes /\ b \o <<"escape">> \in Seq(Bytes)
    BY DEF Bytes
  <1>2. b \o <<"escape", "\\">> = (b \o <<"escape">>) \o <<"\\">>
    <2>1. <<"escape", "\\">> = <<"escape">> \o <<"\\">> /\ <<"escape">> \in Seq(Bytes) /\ <<"\\">> \in Seq(Bytes)
      <3>1. <<"escape">> \in Seq(Bytes) /\ <<"\\">> \in Seq(Bytes)
        BY <1>1
      <3>2. <<"escape">> \o <<"\\">> = Append(<<"escape">>, "\\")
        BY <1>1, <3>1, AppendIsConcat
      <3> QED
        BY <3>1, <3>2
    <2> QED
      BY <2>1, ConcatAssociative
  <1> DEFINE w3 == <<"escape", "]", "title">>
             w4 == <<"escape", "]", "title", "escape">>
             s4 == <<"escape", "]", "title", "bell">>
             s5 == <<"escape", "]", "title", "escape", "\\">>
  <1>3. w3 \in Seq(Bytes) /\ w4 \in Seq(Bytes) /\ w3 \o <<"bell">> = s4 /\ w3 \o <<"escape">> = w4 /\ w4 \o <<"\\">> = s5
    BY SentinelsCut
  <1>4. Sentinels = {s4, s5} /\ \A u : IsSentinel(u) <=> u = s4 \/ u = s5
    BY DEF Sentinels, IsSentinel
  <1> HIDE DEF w3, w4, s4, s5
  <1>5. b \o <<"bell">> = s4 <=> b = w3
    BY <1>1, <1>3, ConcatLast
  <1>6. b \o <<"bell">> # s5
    BY <1>1, <1>3, ConcatLast
  <1>7. (b \o <<"escape">>) \o <<"\\">> # s4
    BY <1>1, <1>3, ConcatLast
  <1>8. (b \o <<"escape">>) \o <<"\\">> = s5 <=> b \o <<"escape">> = w4
    BY <1>1, <1>3, ConcatLast
  <1>9. b \o <<"escape">> = w4 <=> b = w3
    BY <1>1, <1>3, ConcatLast
  <1>10. /\ IsSentinel(b \o <<"bell">>) <=> b = w3
         /\ IsSentinel(b \o <<"escape", "\\">>) <=> b = w3
         /\ b = w3 => /\ b \o <<"bell">> \in Sentinels
                      /\ b \o <<"escape">> = w4
                      /\ (b \o <<"escape">>) \o <<"\\">> \in Sentinels
    BY <1>2, <1>4, <1>5, <1>6, <1>7, <1>8, <1>9
  <1> QED
    BY <1>2, <1>10 DEF w3, w4

\* An unterminated sequence in the buffer, with the end of the stream.
LEMMA SequenceBuffered ==
    ASSUME ExactInv, chunk # <<>>, state \in InSequence, EndsWith(seen, buffered)
    PROVE  /\ Len(seen) \in Nat /\ Len(seen) >= 2 /\ seen[Len(seen)] # "escape"
           /\ EndsWith(seen, <<"escape", "]", "title">>) => buffered = <<"escape", "]", "title">>
  <1>1. /\ seen \in Seq(Bytes) /\ buffered \in Seq(Bytes) /\ Len(buffered) >= 2
        /\ buffered[1] = "escape" /\ buffered[2] = "]"
        /\ \A i \in 3..Len(buffered) : buffered[i] \notin {"escape", "bell"}
    BY Running
  <1> QED
    BY <1>1, SequenceEnd

\* a bell or an escape in a sequence,
LEMMA EndSequenceExact ==
    ASSUME ExactInv, EndSequence PROVE ScanInv' /\ FilterExact'
  <1>1. chunk # <<>> /\ state = "sequence" /\ Consume(1)
    BY DEF EndSequence
  <1>2. /\ seen' = seen \o <<Current>> /\ Current \in Bytes /\ seen \in Seq(Bytes) /\ out \in Seq(Output)
        /\ buffered \in Seq(Bytes) /\ buffered \in Seq(Output) /\ Current \in Output
    <2>1. chunk \in Seq(Bytes) /\ seen \in Seq(Bytes) /\ out \in Seq(Output) /\ buffered \in Seq(Bytes)
      BY <1>1, Running
    <2>2. seen' = seen \o <<Current>> /\ Current \in Bytes
      BY <1>1, <2>1, ConsumeOne
    <2> QED
      BY <2>1, <2>2, BytesAreOutput DEF Output
  <1>3. Pending = buffered
    BY <1>1, <1>2 DEF Pending
  <1>4. EndsWith(seen, buffered) /\ out \o buffered = Filtered(seen)
    BY <1>1, <1>3, Running
  <1>5. /\ Len(seen) \in Nat /\ Len(seen) >= 2 /\ seen[Len(seen)] # "escape"
        /\ EndsWith(seen, <<"escape", "]", "title">>) => buffered = <<"escape", "]", "title">>
    BY <1>1, <1>4, SequenceBuffered DEF InSequence
  <1>6. CASE Current = "bell" /\ Complete(<<"bell">>) /\ state' = "text"
    <2>1. buffered' = <<>> /\ Pending' = <<>>
      BY <1>6 DEF Complete, Pending
    <2>2. \A w \in Beginnings : ~EndsWith(seen', w)
      <3>1. /\ seen' \in Seq(Bytes) /\ Len(seen') \in Nat /\ Len(seen') >= 1
            /\ seen'[Len(seen')] = "bell"
        BY <1>2, <1>6
      <3> QED
        BY <3>1, BeginningBytes
    <2>3. EndsWith(seen', <<>>)
      BY <1>2 DEF EndsWith
    <2>4. Filtered(seen') = out'
      <3>1. CASE buffered = <<"escape", "]", "title">>
        <4>1. IsSentinel(buffered \o <<"bell">>) /\ buffered \o <<"bell">> \in Sentinels
          BY <1>2, <3>1, SentinelEnds
        <4>2. out' = out \o <<"direction">>
          BY <1>6, <4>1 DEF Complete, Emit
        <4>4. Filtered(seen \o <<"bell">>) = out \o <<"direction">>
          BY <1>2, <1>4, <1>5, <1>6, <3>1, <4>1, ByteCompletesAnEnd
        <4> QED
          BY <1>2, <1>6, <4>2, <4>4
      <3>2. CASE buffered # <<"escape", "]", "title">>
        <4>1. ~Completes(seen, Current)
          BY <1>5, <1>6, <3>2 DEF Completes
        <4>2. ~IsSentinel(buffered \o <<"bell">>)
          BY <1>2, <3>2, SentinelEnds
        <4>3. out' = out \o (buffered \o <<"bell">>)
          BY <1>6, <4>2 DEF Complete, Emit
        <4>4. Filtered(seen') = (out \o buffered) \o <<Current>>
          BY <1>2, <1>4, <4>1, AppendPlain
        <4>5. (out \o buffered) \o <<Current>> = out \o (buffered \o <<Current>>)
          BY <1>2
        <4> QED
          BY <1>6, <4>3, <4>4, <4>5
      <3> QED
        BY <3>1, <3>2
    <2>5. out' \o <<>> = out'
      <3>1. seen' \in Seq(Bytes)
        BY <1>2
      <3>2. Filtered(seen') \in Seq(Output)
        BY <3>1, PiecesType
      <3> QED
        BY <2>4, <3>2
    <2> QED
      BY <1>6, <2>1, <2>2, <2>3, <2>4, <2>5 DEF ScanInv, FilterExact
  <1>7. CASE Current = "escape" /\ state' = "terminator" /\ UNCHANGED <<buffered, out>>
    <2>1. Pending' = buffered \o <<"escape">>
      BY <1>7 DEF Pending
    <2>2. EndsWith(seen', buffered \o <<"escape">>)
      BY <1>2, <1>4, <1>7, EndsWithGrows
    <2>3. ~Completes(seen, Current)
      BY <1>7 DEF Completes
    <2>4. Filtered(seen') = (out \o buffered) \o <<Current>>
      BY <1>2, <1>4, <2>3, AppendPlain
    <2>5. (out \o buffered) \o <<Current>> = out \o (buffered \o <<Current>>)
      BY <1>2
    <2> QED
      BY <1>7, <2>1, <2>2, <2>4, <2>5 DEF ScanInv, FilterExact
  <1> QED
    BY <1>6, <1>7 DEF EndSequence

\* the byte after that escape,
LEMMA StepTerminatorExact ==
    ASSUME ExactInv, StepTerminator PROVE ScanInv' /\ FilterExact'
  <1>1. chunk # <<>> /\ state = "terminator"
    BY DEF StepTerminator
  <1>2. /\ seen \in Seq(Bytes) /\ out \in Seq(Output) /\ chunk \in Seq(Bytes)
        /\ buffered \in Seq(Bytes) /\ buffered \in Seq(Output) /\ Len(buffered) >= 2
    BY <1>1, Running, BytesAreOutput DEF Output, InSequence
  <1>3. Pending = buffered \o <<"escape">>
    BY <1>1 DEF Pending
  <1>4. EndsWith(seen, buffered \o <<"escape">>) /\ out \o (buffered \o <<"escape">>) = Filtered(seen)
    BY <1>1, <1>3, Running
  <1>5. /\ buffered \o <<"escape">> \in Seq(Bytes) /\ "escape" \in Bytes /\ "escape" \in Output /\ "\\" \in Bytes /\ "\\" \in Output
        /\ Len(buffered \o <<"escape">>) = Len(buffered) + 1
        /\ Len(buffered) \in Nat /\ Len(seen) \in Nat
        /\ \A i \in 1..Len(buffered) : (buffered \o <<"escape">>)[i] = buffered[i]
        /\ (buffered \o <<"escape">>)[Len(buffered) + 1] = "escape"
    BY <1>2 DEF Bytes, Output
  <1>6. CASE Current = "\\"
    <2>1. Complete(<<"escape", "\\">>) /\ state' = "text" /\ Consume(1)
      BY <1>6 DEF StepTerminator
    <2>2. seen' = seen \o <<"\\">>
      BY <1>1, <1>2, <1>6, <2>1, ConsumeOne
    <2>3. buffered' = <<>> /\ Pending' = <<>>
      BY <2>1 DEF Complete, Pending
    <2>4. \A w \in Beginnings : ~EndsWith(seen', w)
      <3>1. /\ seen' \in Seq(Bytes) /\ Len(seen') \in Nat /\ Len(seen') >= 1
            /\ seen'[Len(seen')] = "\\"
        BY <1>2, <1>5, <2>2
      <3> QED
        BY <3>1, BeginningBytes
    <2>5. EndsWith(seen', <<>>)
      BY <1>2, <1>5, <2>2 DEF EndsWith
    <2>6. Filtered(seen') = out'
      <3>1. CASE buffered = <<"escape", "]", "title">>
        <4>1. /\ IsSentinel(buffered \o <<"escape", "\\">>)
              /\ (buffered \o <<"escape">>) \o <<"\\">> \in Sentinels
              /\ buffered \o <<"escape">> = <<"escape", "]", "title", "escape">>
          BY <1>2, <3>1, SentinelEnds
        <4>2. out' = out \o <<"direction">>
          BY <2>1, <4>1 DEF Complete, Emit
        <4>4. Filtered(seen \o <<"\\">>) = out \o <<"direction">>
          <5>1. PICK e : e = buffered \o <<"escape">>
            OBVIOUS
          <5>2. e \in {<<"escape", "]", "title">>, <<"escape", "]", "title", "escape">>}
            BY <4>1, <5>1
          <5>3. e \o <<"\\">> \in Sentinels /\ EndsWith(seen, e) /\ out \o e = Filtered(seen)
            BY <1>4, <4>1, <5>1
          <5>4. out \in Seq(Output) /\ seen \in Seq(Bytes) /\ "\\" \in Bytes
            BY <1>2, <1>5
          <5> QED
            BY <5>2, <5>3, <5>4, ByteCompletesAnEnd
        <4> QED
          BY <2>2, <4>2, <4>4
      <3>2. CASE buffered # <<"escape", "]", "title">>
        <4>1. ~EndsWith(seen, <<"escape", "]", "title", "escape">>)
          <5> SUFFICES ASSUME EndsWith(seen, <<"escape", "]", "title", "escape">>) PROVE FALSE
            OBVIOUS
          <5> DEFINE n == Len(seen)
                     m == Len(buffered)
          <5>1. n \in Nat /\ m \in Nat /\ m >= 2 /\ m + 1 <= n /\ n >= 4
            BY <1>2, <1>4, <1>5 DEF EndsWith
          <5>2. seen[n - 3] = "escape" /\ seen[n - 2] = "]" /\ seen[n - 1] = "title"
            BY <5>1 DEF EndsWith
          <5>3. \A i \in 1..m : seen[n - (m + 1) + i] = buffered[i]
            <6> TAKE i \in 1..m
            <6>1. i \in 1..Len(buffered) + 1 /\ (buffered \o <<"escape">>)[i] = buffered[i]
              BY <1>5
            <6>2. seen[Len(seen) - (Len(buffered) + 1) + i] = (buffered \o <<"escape">>)[i]
              BY <1>4, <1>5, <6>1 DEF EndsWith
            <6> QED
              BY <6>1, <6>2
          <5>4. /\ buffered[1] = "escape" /\ buffered[2] = "]"
                /\ \A i \in 3..m : buffered[i] \notin {"escape", "bell"}
            BY <1>1, Running DEF InSequence
          <5> HIDE DEF n, m
          <5>5. m \in 1..m /\ n - (m + 1) + m = n - 1
            BY <5>1
          <5>6. buffered[m] = "title"
            BY <5>2, <5>3, <5>5
          <5>7. m >= 3
            BY <5>1, <5>4, <5>6
          <5>8. m - 2 \in 1..m /\ n - (m + 1) + (m - 2) = n - 3
            BY <5>1, <5>7
          <5>9. buffered[m - 2] = "escape"
            BY <5>2, <5>3, <5>8
          <5>10. m - 2 \notin 2..m
            BY <5>1, <5>4, <5>9
          <5>11. m = 3
            BY <5>1, <5>7, <5>10
          <5>12. buffered = <<"escape", "]", "title">>
            BY <1>2, <5>4, <5>6, <5>11 DEF m
          <5> QED
            BY <3>2, <5>12
        <4>2. ~Completes(seen, "\\")
          BY <4>1 DEF Completes
        <4>3. ~IsSentinel(buffered \o <<"escape", "\\">>)
          BY <1>2, <3>2, SentinelEnds
        <4>4. out' = out \o (buffered \o <<"escape", "\\">>)
          BY <2>1, <4>3 DEF Complete, Emit
        <4>5. Filtered(seen') = (out \o (buffered \o <<"escape">>)) \o <<"\\">>
          BY <1>2, <1>4, <1>5, <2>2, <4>2, AppendPlain
        <4>6. (out \o (buffered \o <<"escape">>)) \o <<"\\">> = out \o (buffered \o <<"escape", "\\">>)
          <5>1. (out \o (buffered \o <<"escape">>)) \o <<"\\">> = out \o ((buffered \o <<"escape">>) \o <<"\\">>)
            <6>1. PICK e, f : e = buffered \o <<"escape">> /\ f = <<"\\">>
              OBVIOUS
            <6>2. out \in Seq(Output) /\ e \in Seq(Output) /\ f \in Seq(Output)
              BY <1>2, <1>5, <6>1
            <6>3. (out \o e) \o f = out \o (e \o f)
              BY <6>2, ConcatAssociative
            <6> QED
              BY <6>1, <6>3
          <5> QED
            BY <1>2, <5>1, SentinelEnds
        <4> QED
          BY <4>4, <4>5, <4>6
      <3> QED
        BY <3>1, <3>2
    <2>7. out' \o <<>> = out'
      <3>1. seen' \in Seq(Bytes)
        BY <1>2, <1>5, <2>2
      <3>2. Filtered(seen') \in Seq(Output)
        BY <3>1, PiecesType
      <3> QED
        BY <2>6, <3>2
    <2> QED
      BY <2>1, <2>3, <2>4, <2>5, <2>6, <2>7 DEF ScanInv, FilterExact
  <1>7. CASE Current # "\\"
    <2>1. out' = out \o buffered /\ buffered' = <<>> /\ state' = "escape" /\ Consume(0)
      BY <1>7 DEF StepTerminator, FlushBuffered, Emit
    <2>2. seen' = seen /\ chunk' = chunk
      BY <1>2, <2>1 DEF Consume
    <2>3. Pending' = <<"escape">>
      BY <2>1 DEF Pending
    <2>4. EndsWith(seen', <<"escape">>)
      <3>1. seen[Len(seen)] = "escape" /\ Len(seen) >= 1
        <4>1. /\ Len(buffered) + 1 \in 1..Len(buffered) + 1
              /\ Len(seen) - (Len(buffered) + 1) + (Len(buffered) + 1) = Len(seen)
          BY <1>5
        <4> QED
          BY <1>4, <1>5, <4>1 DEF EndsWith
      <3> QED
        BY <1>5, <2>2, <3>1 DEF EndsWith
    <2>5. Current' = Current
      BY <2>2 DEF Current
    <2>6. (out \o buffered) \o <<"escape">> = out \o (buffered \o <<"escape">>)
      BY <1>2, <1>5
    <2> QED
      BY <1>1, <1>4, <1>7, <2>1, <2>2, <2>3, <2>4, <2>5, <2>6 DEF ScanInv, FilterExact
  <1> QED
    BY <1>6, <1>7

\* Text behind a stream that ends in no beginning of a sentinel: neither does the whole.
LEMMA TextGrows ==
    ASSUME NEW s \in Seq(Bytes), NEW q \in Seq(Bytes), \A w \in Beginnings : ~EndsWith(s, w),
           \A j \in 1..Len(q) : q[j] # "escape"
    PROVE  \A w \in Beginnings : ~EndsWith(s \o q, w)
  <1>1. PICK n, k, m, t : n = Len(s) /\ k = Len(q) /\ m = Len(s) + Len(q) /\ t = s \o q
    OBVIOUS
  <1>2. n \in Nat
    BY <1>1
  <1>3. k \in Nat
    BY <1>1
  <1>m. m \in Nat
    BY <1>1
  <1>a. m = n + k
    BY <1>1
  <1>4. /\ n >= 1 => s[n] # "escape"
        /\ n >= 2 => ~(s[n - 1] = "escape" /\ s[n] = "]")
        /\ n >= 3 => ~(s[n - 2] = "escape" /\ s[n - 1] = "]" /\ s[n] = "title")
    BY <1>1, <1>2, BeginningBytes
  <1>5. /\ t \in Seq(Bytes) /\ Len(t) = m
        /\ \A i \in 1..n : t[i] = s[i]
        /\ \A i \in 1..k : t[n + i] # "escape"
    BY <1>1
  <1>6. m >= 1 => t[m] # "escape"
    <2>1. CASE k = 0
      BY <1>a, <1>m, <1>2, <1>4, <1>5, <2>1
    <2>2. CASE k >= 1
      BY <1>a, <1>m, <1>3, <1>5, <2>2
    <2> QED
      BY <1>a, <1>m, <1>3, <2>1, <2>2
  <1>7. m >= 2 => ~(t[m - 1] = "escape" /\ t[m] = "]")
    <2>1. CASE k = 0
      BY <1>a, <1>m, <1>2, <1>4, <1>5, <2>1
    <2>2. CASE k = 1
      <3>1. m - 1 = n
        BY <1>a, <1>m, <1>2, <2>2
      <3> QED
        BY <1>a, <1>m, <1>2, <1>4, <1>5, <2>2, <3>1
    <2>3. CASE k >= 2
      <3>1. k - 1 \in 1..k /\ n + (k - 1) = m - 1
        BY <1>a, <1>m, <1>2, <1>3, <2>3
      <3> QED
        BY <1>a, <1>m, <1>5, <3>1
    <2> QED
      BY <1>a, <1>m, <1>3, <2>1, <2>2, <2>3
  <1>8. m >= 3 => ~(t[m - 2] = "escape" /\ t[m - 1] = "]" /\ t[m] = "title")
    <2>1. CASE k = 0
      BY <1>a, <1>m, <1>2, <1>4, <1>5, <2>1
    <2>2. CASE k = 1
      <3>1. m - 1 = n /\ m - 2 = n - 1
        BY <1>a, <1>m, <1>2, <2>2
      <3> QED
        BY <1>a, <1>m, <1>2, <1>4, <1>5, <2>2, <3>1
    <2>3. CASE k = 2
      <3>1. m - 2 = n
        BY <1>a, <1>m, <1>2, <2>3
      <3> QED
        BY <1>a, <1>m, <1>2, <1>4, <1>5, <2>3, <3>1
    <2>4. CASE k >= 3
      <3>1. k - 2 \in 1..k /\ n + (k - 2) = m - 2
        BY <1>a, <1>m, <1>2, <1>3, <2>4
      <3> QED
        BY <1>a, <1>m, <1>5, <3>1
    <2> QED
      BY <1>a, <1>m, <1>3, <2>1, <2>2, <2>3, <2>4
  <1>9. \A w \in Beginnings : ~EndsWith(t, w)
    BY <1>m, <1>5, <1>6, <1>7, <1>8, BeginningBytes
  <1> QED
    BY <1>1, <1>9

\* A byte behind such a stream completes no sentinel.
LEMMA NothingCompletes ==
    ASSUME NEW s, \A w \in Beginnings : ~EndsWith(s, w), NEW b
    PROVE  ~Completes(s, b)
  BY DEF Completes, Beginnings

\* Text up to and with the next escape goes through.
LEMMA AppendText ==
    ASSUME NEW s \in Seq(Bytes), NEW p \in Seq(Bytes), \A w \in Beginnings : ~EndsWith(s, w),
           \A j \in 1..Len(p) - 1 : p[j] # "escape"
    PROVE  Filtered(s \o p) = Filtered(s) \o p
  <1>1. ASSUME NEW k \in 0..Len(p) - 1 PROVE ~Completes(s \o SubSeq(p, 1, k), p[k + 1])
    <2>1. Len(p) \in Nat /\ k \in Nat /\ k <= Len(p)
      OBVIOUS
    <2>2. /\ SubSeq(p, 1, k) \in Seq(Bytes) /\ Len(SubSeq(p, 1, k)) = k
          /\ \A i \in 1..k : SubSeq(p, 1, k)[i] = p[i]
      BY <2>1
    <2>3. \A i \in 1..k : SubSeq(p, 1, k)[i] # "escape"
      BY <2>1, <2>2
    <2>4. \A w \in Beginnings : ~EndsWith(s \o SubSeq(p, 1, k), w)
      BY <2>2, <2>3, TextGrows
    <2> QED
      BY <2>4, NothingCompletes
  <1> QED
    BY <1>1, AppendPlainAll

\* The end of a stream without its last byte.
LEMMA EndsWithShrinks ==
    ASSUME NEW u \in Seq(Bytes), EndsWith(u \o <<"escape">>, <<"escape", "]", "title", "escape">>)
    PROVE  EndsWith(u, <<"escape", "]", "title">>)
  <1>1. PICK t, n : t = u \o <<"escape">> /\ n = Len(u)
    OBVIOUS
  <1>2. n \in Nat
    BY <1>1
  <1>3. Len(t) = n + 1 /\ \A i \in 1..n : t[i] = u[i]
    BY <1>1 DEF Bytes
  <1>4. 4 <= Len(t) /\ t[Len(t) - 4 + 1] = "escape" /\ t[Len(t) - 4 + 2] = "]" /\ t[Len(t) - 4 + 3] = "title"
    BY <1>1 DEF EndsWith
  <1>5. n >= 3 /\ Len(t) - 4 + 1 = n - 2 /\ Len(t) - 4 + 2 = n - 1 /\ Len(t) - 4 + 3 = n
    BY <1>2, <1>3, <1>4
  <1>6. u[n - 2] = "escape" /\ u[n - 1] = "]" /\ u[n] = "title"
    BY <1>2, <1>3, <1>4, <1>5
  <1> QED
    BY <1>1, <1>2, <1>5, <1>6 DEF EndsWith

\* text up to the next escape,
LEMMA StepTextExact ==
    ASSUME ExactInv, StepText PROVE ScanInv' /\ FilterExact'
  <1>1. chunk # <<>> /\ state = "text" /\ buffered' = buffered
    BY DEF StepText
  <1>2. /\ seen \in Seq(Bytes) /\ out \in Seq(Output) /\ chunk \in Seq(Bytes) /\ buffered = <<>>
        /\ \A w \in Beginnings : ~EndsWith(seen, w)
        /\ out \o Pending = Filtered(seen)
    BY <1>1, Running DEF InSequence
  <1>3. out = Filtered(seen)
    BY <1>1, <1>2 DEF Pending
  <1>4. "escape" \in Bytes /\ "escape" \in Output
    BY DEF Bytes, Output
  <1>5. CASE Contains(chunk, "escape")
    <2>1. PICK i \in DOMAIN chunk :
              /\ chunk[i] = "escape"
              /\ \A j \in 1..i - 1 : chunk[j] # "escape"
              /\ state' = "escape"
              /\ out' = out \o SubSeq(chunk, 1, i - 1)
              /\ Consume(i)
      BY <1>5 DEF StepText, Emit
    <2>2. i \in 1..Len(chunk) /\ i \in Nat /\ Len(chunk) \in Nat
      BY <1>2
    <2>3. PICK p, q : p = SubSeq(chunk, 1, i) /\ q = SubSeq(chunk, 1, i - 1)
      OBVIOUS
    <2>4. /\ p \in Seq(Bytes) /\ Len(p) = i /\ \A j \in 1..i : p[j] = chunk[j]
      BY <1>2, <2>2, <2>3
    <2>5. q \in Seq(Bytes) /\ Len(q) = i - 1 /\ \A j \in 1..i - 1 : q[j] = chunk[j]
      BY <1>2, <2>2, <2>3
    <2>6. p = q \o <<"escape">>
      <3>1. SubSeq(chunk, 1, i) = SubSeq(chunk, 1, i - 1) \o <<chunk[i]>>
        BY <1>2, <2>2, SubSeqRecursiveSecond
      <3> QED
        BY <2>1, <2>3, <3>1
    <2>7. seen' = seen \o p /\ out' = out \o q
      BY <2>1, <2>3 DEF Consume
    <2>8. Filtered(seen \o p) = Filtered(seen) \o p
      <3>1. \A j \in 1..Len(p) - 1 : p[j] # "escape"
        <4>1. Len(p) - 1 = i - 1 /\ \A j \in 1..i - 1 : j \in 1..i
          BY <2>2, <2>4
        <4> QED
          BY <2>1, <2>4, <4>1
      <3> QED
        BY <1>2, <2>4, <3>1, AppendText
    <2>9. Pending' = <<"escape">>
      BY <1>1, <1>2, <2>1 DEF Pending
    <2>10. out \o p = (out \o q) \o <<"escape">>
      <3>1. q \in Seq(Output) /\ <<"escape">> \in Seq(Output)
        BY <1>4, <2>5, BytesAreOutput DEF Output
      <3> QED
        BY <1>2, <2>6, <3>1, ConcatAssociative
    <2>11. seen' = (seen \o q) \o <<"escape">> /\ seen \o q \in Seq(Bytes)
      <3>1. <<"escape">> \in Seq(Bytes)
        BY <1>4
      <3>2. seen \o q \in Seq(Bytes)
        BY <1>2, <2>5
      <3>3. (seen \o q) \o <<"escape">> = seen \o (q \o <<"escape">>)
        BY <1>2, <2>5, <3>1
      <3> QED
        BY <2>6, <2>7, <3>2, <3>3
    <2>12. EndsWith(seen', <<"escape">>)
      BY <1>4, <2>11 DEF EndsWith
    <2>13. ~EndsWith(seen', <<"escape", "]", "title", "escape">>)
      <3>1. \A w \in Beginnings : ~EndsWith(seen \o q, w)
        <4>1. \A j \in 1..Len(q) : q[j] # "escape"
          BY <2>1, <2>2, <2>5
        <4> QED
          BY <1>2, <2>5, <4>1, TextGrows
      <3>2. ~EndsWith(seen \o q, <<"escape", "]", "title">>)
        BY <3>1 DEF Beginnings
      <3>3. PICK u : u = seen \o q
        OBVIOUS
      <3>4. u \in Seq(Bytes) /\ seen' = u \o <<"escape">> /\ ~EndsWith(u, <<"escape", "]", "title">>)
        BY <2>11, <3>2, <3>3
      <3> QED
        BY <1>4, <3>4, EndsWithShrinks
    <2> QED
      BY <1>3, <2>1, <2>7, <2>8, <2>9, <2>10, <2>12, <2>13 DEF ScanInv, FilterExact
  <1>6. CASE ~Contains(chunk, "escape")
    <2>1. state' = "text" /\ out' = out \o chunk /\ Consume(Len(chunk))
      BY <1>1, <1>6 DEF StepText, Emit
    <2>2. \A j \in 1..Len(chunk) : chunk[j] # "escape"
      BY <1>6 DEF Contains
    <2>3. seen' = seen \o chunk
      BY <1>2, <2>1 DEF Consume
    <2>4. \A w \in Beginnings : ~EndsWith(seen', w)
      BY <1>2, <2>2, <2>3, TextGrows
    <2>5. Filtered(seen \o chunk) = Filtered(seen) \o chunk
      <3>1. \A j \in 1..Len(chunk) - 1 : chunk[j] # "escape"
        BY <1>2, <2>2
      <3> QED
        BY <1>2, <3>1, AppendText
    <2>6. Pending' = <<>>
      BY <1>1, <1>2, <2>1 DEF Pending
    <2>7. EndsWith(seen', <<>>)
      BY <1>2, <2>3 DEF EndsWith
    <2>8. (out \o chunk) \o <<>> = out \o chunk
      <3>1. chunk \in Seq(Output)
        BY <1>2, BytesAreOutput DEF Output
      <3> QED
        BY <1>2, <3>1
    <2> QED
      BY <1>3, <2>1, <2>3, <2>4, <2>5, <2>6, <2>7, <2>8 DEF ScanInv, FilterExact
  <1> QED
    BY <1>5, <1>6

\* a new chunk, and Close, which flushes what is pending.
LEMMA WriteCloseExact ==
    ASSUME ExactInv, Write \/ Close PROVE ScanInv' /\ FilterExact'
  <1>1. CASE Write
    <2>1. ~closed /\ chunk = <<>> /\ UNCHANGED <<seen, state, buffered, out, closed>>
      BY <1>1 DEF Write
    <2>2. Pending' = Pending
      BY <2>1 DEF Pending
    <2>3. ~(state = "escape" /\ EndsWith(seen, <<"escape", "]", "title", "escape">>))
      BY <2>1 DEF ExactInv, FilterInv, ScanInv
    <2> QED
      BY <2>1, <2>2, <2>3 DEF ExactInv, FilterInv, ScanInv, FilterExact
  <1>2. CASE Close
    <2>1. closed' = TRUE /\ state' = "text" /\ out' = out \o Pending /\ buffered' = <<>> /\ seen' = seen
      BY <1>2 DEF Close, Emit
    <2>2. Pending' = <<>>
      BY <2>1 DEF Pending
    <2>3. out \o Pending = Filtered(seen) /\ seen \in Seq(Bytes)
      BY DEF ExactInv, FilterExact, FilterInv, BufferInv, TypeOK
    <2>4. Filtered(seen) \o <<>> = Filtered(seen)
      BY <2>3, PiecesType
    <2> QED
      BY <2>1, <2>2, <2>3, <2>4 DEF ScanInv, FilterExact
  <1> QED
    BY <1>1, <1>2

\* The output is exact at every step, for every stream, chunking and buffer size.
THEOREM ExactInvariant == Spec => []ExactInv
  <1>1. Init => ExactInv
    <2> SUFFICES ASSUME Init PROVE ExactInv
      OBVIOUS
    <2>1. seen = <<>> /\ seen \in Seq(Bytes) /\ Len(seen) = 0 /\ Pending = <<>> /\ out = <<>> /\ state = "text"
      BY DEF Init, Pending
    <2>2. \A w \in Beginnings : ~EndsWith(seen, w)
      BY <2>1 DEF EndsWith, Beginnings
    <2>3. EndsWith(seen, <<>>)
      BY <2>1 DEF EndsWith
    <2>4. Filtered(seen) = <<>>
      <3>1. Pieces(seen) \in Seq(Seq(Output)) /\ Len(Pieces(seen)) = 0
        BY <2>1, PiecesType
      <3>2. FlattenSeq(Pieces(seen)) = <<>>
        BY <3>1 DEF FlattenSeq
      <3> QED
        BY <2>1, <3>2, FilteredPieces
    <2>5. <<>> \o <<>> = <<>>
      OBVIOUS
    <2>6. BufferInv
      BY BufferInit
    <2> QED
      BY <2>1, <2>2, <2>3, <2>4, <2>5, <2>6 DEF ExactInv, FilterInv, ScanInv, FilterExact
  <1>2. ExactInv /\ [Next]_vars => ExactInv'
    <2> SUFFICES ASSUME ExactInv, [Next]_vars PROVE ExactInv'
      OBVIOUS
    <2>1. BufferInv'
      BY BufferStep DEF ExactInv, FilterInv
    <2>2. ScanInv' /\ FilterExact'
      <3>1. CASE Next
        BY <3>1, StepTextExact, StepEscapeExact, HoldBackExact, EndSequenceExact,
           StepTerminatorExact, WriteCloseExact DEF Next
      <3>2. CASE UNCHANGED vars
        BY <3>2 DEF vars, ExactInv, FilterInv, ScanInv, FilterExact, Pending, Current
      <3> QED
        BY <3>1, <3>2
    <2> QED
      BY <2>1, <2>2 DEF ExactInv, FilterInv
  <1> QED
    BY <1>1, <1>2, PTL DEF Spec

\* The invariant of the buffer and of the end of the stream holds for every stream.
THEOREM FilterInvariant == Spec => []FilterInv
  <1>1. ExactInv => FilterInv
    BY DEF ExactInv
  <1> QED
    BY ExactInvariant, <1>1, PTL

\* docs/ssh.md, for every stream, chunking and buffer size: each sentinel is a
\* direction in its place and every other byte comes out once, in order.
THEOREM FilterIsExact == Spec => []FilterExact
  <1>1. ExactInv => FilterExact
    BY DEF ExactInv
  <1> QED
    BY ExactInvariant, <1>1, PTL

\* The filter holds back at most maxBufferedSequence bytes, and no text.
THEOREM HoldBackBounded == Spec => []HoldsBackLittle
  <1>1. FilterInv => HoldsBackLittle
    BY DEF FilterInv, BufferInv
  <1> QED
    BY FilterInvariant, <1>1, PTL
=============================================================================
