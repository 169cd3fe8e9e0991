--------------------------- MODULE NavigationFilter ---------------------------
(***************************************************************************)
(* The filter of gty herdr attach that takes navigation sentinels out of   *)
(* the terminal stream (cli/gty/internal/osc/filter.go).  A step is one    *)
(* call of step; Write may be given any part of the stream at a time.      *)
(*                                                                         *)
(* Bytes are told apart as far as the filter does: "title" is a title      *)
(* selector ("0;" or "2;") followed by "gty-nav:v1:" and one of the four   *)
(* directions, a string of 15 to 18 bytes that counts as one here, and     *)
(* "other" is every byte that is none of the rest.                         *)
(***************************************************************************)
EXTENDS Naturals, SequencesExt

CONSTANTS MaxBuffered,   \* maxBufferedSequence
          MaxStream,     \* the length of the stream
          MaxRead        \* the length of one chunk

\* A sentinel fits into the buffer.
ASSUME FilterAssumption ==
    /\ MaxBuffered \in Nat /\ MaxBuffered >= 4
    /\ MaxStream \in Nat
    /\ MaxRead \in Nat

Bytes == {"escape", "bell", "]", "\\", "title", "other"}

VARIABLES
    chunk,      \* what is left of the chunk Write was given
    seen,       \* the stream up to there
    state,      \* NavigationFilter.state
    buffered,   \* NavigationFilter.buffered
    out,        \* what reached the writer, and where onDirection was called
    closed      \* Close was called

vars == <<chunk, seen, state, buffered, out, closed>>

InSequence == {"sequence", "terminator"}

TypeOK ==
    /\ chunk \in Seq(Bytes)
    /\ seen \in Seq(Bytes)
    /\ state \in {"text", "escape"} \cup InSequence
    /\ buffered \in Seq(Bytes)
    /\ out \in Seq(Bytes \cup {"direction"})
    /\ closed \in BOOLEAN

Init ==
    /\ chunk = <<>>
    /\ seen = <<>>
    /\ state = "text"
    /\ buffered = <<>>
    /\ out = <<>>
    /\ closed = FALSE

\* Write takes the next chunk of the stream.
Write ==
    /\ ~closed
    /\ chunk = <<>>
    /\ \E n \in 1..MaxRead :
          /\ Len(seen) + n <= MaxStream
          /\ chunk' \in [1..n -> Bytes]
    /\ UNCHANGED <<seen, state, buffered, out, closed>>

\* The step resumes n bytes on.
Consume(n) ==
    /\ seen' = seen \o SubSeq(chunk, 1, n)
    /\ chunk' = SubSeq(chunk, n + 1, Len(chunk))
    /\ UNCHANGED closed

Current == Head(chunk)
Emit(bytes) == out' = out \o bytes
Hold(bytes) == buffered' = buffered \o bytes /\ UNCHANGED out
FlushBuffered == Emit(buffered) /\ buffered' = <<>>

\* navigationDirection: the payload must match exactly.
IsSentinel(sequence) ==
    \/ sequence = <<"escape", "]", "title", "bell">>
    \/ sequence = <<"escape", "]", "title", "escape", "\\">>

\* complete, of the buffer with its terminator.
Complete(terminator) ==
    /\ buffered' = <<>>
    /\ IF IsSentinel(buffered \o terminator)
       THEN Emit(<<"direction">>)
       ELSE Emit(buffered \o terminator)

\* Everything up to the next escape goes out.
StepText ==
    /\ state = "text"
    /\ chunk # <<>>
    /\ IF Contains(chunk, "escape")
       THEN \E i \in DOMAIN chunk :
              /\ chunk[i] = "escape"
              /\ \A j \in 1..i - 1 : chunk[j] # "escape"
              /\ state' = "escape"
              /\ Emit(SubSeq(chunk, 1, i - 1))
              /\ Consume(i)
       ELSE /\ Emit(chunk)
            /\ Consume(Len(chunk))
            /\ UNCHANGED state
    /\ UNCHANGED buffered

\* stepEscape: a sequence begins, the escape is one of several, or it is plain.
StepEscape ==
    /\ state = "escape"
    /\ chunk # <<>>
    /\ Consume(1)
    /\ \/ /\ Current = "]"
          /\ buffered' = <<"escape", "]">>
          /\ state' = "sequence"
          /\ UNCHANGED out
       \/ /\ Current = "escape"
          /\ Emit(<<"escape">>)
          /\ UNCHANGED <<state, buffered>>
       \/ /\ Current \notin {"]", "escape"}
          /\ Emit(<<"escape", Current>>)
          /\ state' = "text"
          /\ UNCHANGED buffered

\* Mutant: a sequence that is too long stays in the buffer.
KeepLong ==
    /\ state = "sequence"
    /\ chunk # <<>>
    /\ Current \notin {"bell", "escape"}
    /\ Consume(1)
    /\ Hold(<<Current>>)
    /\ UNCHANGED state

\* stepSequence: any other byte is held back, unless there are too many.
HoldBack ==
    /\ state = "sequence"
    /\ chunk # <<>>
    /\ Current \notin {"bell", "escape"}
    /\ Consume(1)
    /\ IF Len(buffered) + 1 > MaxBuffered
       THEN /\ state' = "text"
            /\ Emit(buffered \o <<Current>>)
            /\ buffered' = <<>>
       ELSE /\ Hold(<<Current>>)
            /\ UNCHANGED state

\* stepSequence at a bell or an escape.
EndSequence ==
    /\ state = "sequence"
    /\ chunk # <<>>
    /\ Consume(1)
    /\ \/ Current = "bell" /\ Complete(<<"bell">>) /\ state' = "text"
       \/ Current = "escape" /\ state' = "terminator" /\ UNCHANGED <<buffered, out>>

\* Mutant: the byte after the escape is consumed with the malformed sequence.
TerminatorSwallows ==
    /\ state = "terminator"
    /\ chunk # <<>>
    /\ IF Current = "\\"
       THEN Complete(<<"escape", "\\">>) /\ state' = "text"
       ELSE FlushBuffered /\ state' = "escape"
    /\ Consume(1)

\* stepSequenceTerminator: a backslash ends the sequence, any other byte is
\* looked at again, after an escape that begins a new one.
StepTerminator ==
    /\ state = "terminator"
    /\ chunk # <<>>
    /\ IF Current = "\\"
       THEN Complete(<<"escape", "\\">>) /\ state' = "text" /\ Consume(1)
       ELSE FlushBuffered /\ state' = "escape" /\ Consume(0)

\* What Close flushes: an escape, a sequence, or a sequence and its escape.
Pending ==
    buffered \o (IF state \in {"escape", "terminator"} THEN <<"escape">> ELSE <<>>)

Close ==
    /\ ~closed
    /\ chunk = <<>>
    /\ closed' = TRUE
    /\ state' = "text"
    /\ Emit(Pending)
    /\ buffered' = <<>>
    /\ UNCHANGED <<chunk, seen>>

Next ==
    \/ Write \/ Close
    \/ StepText \/ StepEscape \/ HoldBack \/ EndSequence \/ StepTerminator

Spec == Init /\ [][Next]_vars

-----------------------------------------------------------------------------
(* Properties *)

\* The reference: where sentinels stand in a stream, looked at as a whole.
Sentinels ==
    {<<"escape", "]", "title", "bell">>, <<"escape", "]", "title", "escape", "\\">>}
StandsAt(w, s, i) == i + Len(w) - 1 <= Len(s) /\ SubSeq(s, i, i + Len(w) - 1) = w

\* The stream with a direction in the place of every sentinel.
Filtered(s) ==
    FlattenSeq([i \in 1..Len(s) |->
        IF \E w \in Sentinels : StandsAt(w, s, i) THEN <<"direction">>
        ELSE IF \E w \in Sentinels, j \in 1..i : i < j + Len(w) /\ StandsAt(w, s, j) THEN <<>>
        ELSE <<s[i]>>])

\* docs/ssh.md: the filter removes each sentinel, calls onDirection in its place
\* and passes every other byte on unchanged and in order, wherever the stream is
\* cut and whatever else surrounds the sentinel.
FilterExact == out \o Pending = Filtered(seen)

\* The filter never holds back more than maxBufferedSequence bytes of a sequence,
\* and nothing of a text (filter.go:194).
HoldsBackLittle ==
    /\ Len(buffered) <= MaxBuffered
    /\ state \notin InSequence => buffered = <<>>

\* The invariant of the buffer: an unterminated sequence, and nothing after Close.
BufferInv ==
    /\ TypeOK
    /\ HoldsBackLittle
    /\ state \in InSequence =>
          /\ Len(buffered) >= 2
          /\ buffered[1] = "escape" /\ buffered[2] = "]"
          /\ \A i \in 3..Len(buffered) : buffered[i] \notin {"escape", "bell"}
    /\ closed => state = "text" /\ chunk = <<>>

EndsWith(s, w) == Len(w) <= Len(s) /\ \A i \in 1..Len(w) : s[Len(s) - Len(w) + i] = w[i]

\* What begins a sentinel and does not end it.
Beginnings ==
    {<<"escape">>, <<"escape", "]">>, <<"escape", "]", "title">>, <<"escape", "]", "title", "escape">>}

\* What the state says of the end of the stream: a text ends in no beginning of a
\* sentinel, what is pending is where the stream ends, and an escape that is looked
\* at for the second time is not the one before the backslash of a sentinel.
ScanInv ==
    ~closed =>
        /\ state = "text" => \A w \in Beginnings : ~EndsWith(seen, w)
        /\ EndsWith(seen, Pending)
        /\ state = "escape" /\ EndsWith(seen, <<"escape", "]", "title", "escape">>) =>
              chunk # <<>> /\ Current # "\\"

\* The state, the buffer and the stream agree.
FilterInv == BufferInv /\ ScanInv
=============================================================================
