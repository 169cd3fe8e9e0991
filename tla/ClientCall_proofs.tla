-------------------------- MODULE ClientCall_proofs --------------------------
(* What holds of every call, whatever the frame limit, the files and their sizes. *)
EXTENDS ClientCall, TLAPS

\* A call starts unsent, with an untouched connection.
LEMMA InitCall == Init => CopyInv
  <1> SUFFICES ASSUME Init PROVE CopyInv
    OBVIOUS
  <1> USE CallAssumption DEF Init, Items, Modes, Count
  <1>1. TypeOK
    <2>1. 1 \in 1..NFiles + 1 /\ 0 \in 0..NFiles /\ 0 \in 0..MaxSize /\ 0 \in 0..MaxChanges
      OBVIOUS
    <2>2. length \in Nat /\ 0 \in 0..length + 1
      OBVIOUS
    <2> QED
      BY <2>1, <2>2 DEF TypeOK
  <1>2. TakenWhole /\ OkMeansTaken /\ PhaseInv
    BY DEF TakenWhole, OkMeansTaken, PhaseInv
  <1>3. NoPartialFile /\ StreamInv /\ ConserveInv
    BY DEF NoPartialFile, StreamInv, ConserveInv
  <1> QED
    BY <1>1, <1>2, <1>3 DEF CopyInv

\* The bytes of a paste and the files of both sides.
PasteVars == <<mode, fileVars, streamVars, wire, savedVars>>

\* A step that touches none of them keeps what is known of them, if it neither ends
\* the copy early nor answers for it.
LEMMA PasteUnchanged ==
    ASSUME CopyInv, UNCHANGED PasteVars,
           open => stage' \in {"reading", "killed"} \/ (stage' = "done" /\ kind = "text"),
           mode = "stream" /\ result' = "ok" => complete = Count /\ kind # "none" /\ stage' = "done"
    PROVE  NoPartialFile' /\ StreamInv' /\ ConserveInv'
  <1> USE DEF PasteVars, fileVars, streamVars, savedVars, Count
  <1>1. ConserveInv'
    BY DEF CopyInv, ConserveInv, Clean, Conserved, Rest, Items
  <1>2. StreamInv'
    BY DEF CopyInv, StreamInv, Items
  <1>3. NoPartialFile'
    BY DEF CopyInv, NoPartialFile
  <1> QED
    BY <1>1, <1>2, <1>3

\* The client's steps on its request and reply (client.go).
LEMMA ClientKeeps ==
    ASSUME CopyInv,
           \/ Refuse \/ Dial \/ Send \/ SendFails \/ ReadReply \/ ReadData
           \/ ReadEnd \/ CloseHold \/ Kill \/ OpenFails \/ Received
    PROVE  CopyInv'
  <1> USE CallAssumption DEF Return, ClientClosed, requestVars
  <1>1. CASE Refuse
    <2> USE <1>1 DEF Refuse
    <2>1. TypeOK'
      BY DEF CopyInv, TypeOK, PhaseInv, Modes, fileVars, streamVars, savedVars
    <2>2. TakenWhole' /\ OkMeansTaken' /\ PhaseInv'
      BY DEF CopyInv, TypeOK, TakenWhole, OkMeansTaken, PhaseInv, streamVars
    <2>3. NoPartialFile' /\ StreamInv' /\ ConserveInv'
      BY PasteUnchanged DEF CopyInv, TypeOK, NoPartialFile, StreamInv, PhaseInv, PasteVars,
         savedVars, Count
    <2> QED
      BY <2>1, <2>2, <2>3 DEF CopyInv
  <1>2. CASE Dial
    <2> USE <1>2 DEF Dial
    <2>1. TypeOK'
      BY DEF CopyInv, TypeOK, PhaseInv, Modes, fileVars, streamVars, savedVars
    <2>2. TakenWhole' /\ OkMeansTaken' /\ PhaseInv'
      BY DEF CopyInv, TypeOK, TakenWhole, OkMeansTaken, PhaseInv, streamVars
    <2>3. NoPartialFile' /\ StreamInv' /\ ConserveInv'
      BY PasteUnchanged DEF CopyInv, TypeOK, NoPartialFile, StreamInv, PhaseInv, PasteVars,
         savedVars, Count
    <2> QED
      BY <2>1, <2>2, <2>3 DEF CopyInv
  <1>3. CASE Send
    <2> USE <1>3 DEF Send
    <2>1. TypeOK'
      BY DEF CopyInv, TypeOK, PhaseInv, Modes, fileVars, streamVars, savedVars
    <2>2. TakenWhole' /\ OkMeansTaken' /\ PhaseInv'
      BY DEF CopyInv, TypeOK, TakenWhole, OkMeansTaken, PhaseInv, streamVars
    <2>3. NoPartialFile' /\ StreamInv' /\ ConserveInv'
      BY PasteUnchanged DEF CopyInv, TypeOK, NoPartialFile, StreamInv, PhaseInv, PasteVars,
         savedVars, Count
    <2> QED
      BY <2>1, <2>2, <2>3 DEF CopyInv
  <1>4. CASE SendFails
    <2> USE <1>4 DEF SendFails
    <2>1. TypeOK'
      BY DEF CopyInv, TypeOK, PhaseInv, Modes, fileVars, streamVars, savedVars
    <2>2. TakenWhole' /\ OkMeansTaken' /\ PhaseInv'
      BY DEF CopyInv, TypeOK, TakenWhole, OkMeansTaken, PhaseInv, streamVars
    <2>3. NoPartialFile' /\ StreamInv' /\ ConserveInv'
      BY PasteUnchanged DEF CopyInv, TypeOK, NoPartialFile, StreamInv, PhaseInv, PasteVars,
         savedVars, Count
    <2> QED
      BY <2>1, <2>2, <2>3 DEF CopyInv
  <1>5. CASE ReadReply
    <2> USE <1>5 DEF ReadReply
    <2>1. TypeOK'
      BY DEF CopyInv, TypeOK, PhaseInv, Modes, fileVars, streamVars, savedVars
    <2>2. TakenWhole' /\ OkMeansTaken' /\ PhaseInv'
      BY DEF CopyInv, TypeOK, TakenWhole, OkMeansTaken, PhaseInv, streamVars
    <2>3. NoPartialFile' /\ StreamInv' /\ ConserveInv'
      BY PasteUnchanged DEF CopyInv, TypeOK, NoPartialFile, StreamInv, PhaseInv, PasteVars,
         savedVars, Count
    <2> QED
      BY <2>1, <2>2, <2>3 DEF CopyInv
  <1>6. CASE ReadData
    <2> USE <1>6 DEF ReadData
    <2>1. TypeOK'
      BY DEF CopyInv, TypeOK, PhaseInv, Modes, fileVars, streamVars, savedVars
    <2>2. TakenWhole' /\ OkMeansTaken' /\ PhaseInv'
      BY DEF CopyInv, TypeOK, TakenWhole, OkMeansTaken, PhaseInv, streamVars
    <2>3. NoPartialFile' /\ StreamInv' /\ ConserveInv'
      BY PasteUnchanged DEF CopyInv, TypeOK, NoPartialFile, StreamInv, PhaseInv, PasteVars,
         savedVars, Count
    <2> QED
      BY <2>1, <2>2, <2>3 DEF CopyInv
  <1>7. CASE ReadEnd
    <2> USE <1>7 DEF ReadEnd
    <2>1. TypeOK'
      BY DEF CopyInv, TypeOK, PhaseInv, Modes, fileVars, streamVars, savedVars
    <2>2. TakenWhole' /\ OkMeansTaken' /\ PhaseInv'
      BY DEF CopyInv, TypeOK, TakenWhole, OkMeansTaken, PhaseInv, streamVars
    <2>3. NoPartialFile' /\ StreamInv' /\ ConserveInv'
      BY PasteUnchanged DEF CopyInv, TypeOK, NoPartialFile, StreamInv, PhaseInv, PasteVars,
         savedVars, Count
    <2> QED
      BY <2>1, <2>2, <2>3 DEF CopyInv
  <1>8. CASE CloseHold
    <2> USE <1>8 DEF CloseHold
    <2>1. TypeOK'
      BY DEF CopyInv, TypeOK, PhaseInv, Modes, fileVars, streamVars, savedVars
    <2>2. TakenWhole' /\ OkMeansTaken' /\ PhaseInv'
      BY DEF CopyInv, TypeOK, TakenWhole, OkMeansTaken, PhaseInv, streamVars
    <2>3. NoPartialFile' /\ StreamInv' /\ ConserveInv'
      BY PasteUnchanged DEF CopyInv, TypeOK, NoPartialFile, StreamInv, PhaseInv, PasteVars,
         savedVars, Count
    <2> QED
      BY <2>1, <2>2, <2>3 DEF CopyInv
  <1>9. CASE Kill
    <2> USE <1>9 DEF Kill
    <2>1. TypeOK'
      BY DEF CopyInv, TypeOK, PhaseInv, Modes, fileVars, streamVars, savedVars
    <2>2. TakenWhole' /\ OkMeansTaken' /\ PhaseInv'
      BY DEF CopyInv, TypeOK, TakenWhole, OkMeansTaken, PhaseInv, streamVars
    <2>3. NoPartialFile' /\ StreamInv' /\ ConserveInv'
      BY PasteUnchanged DEF CopyInv, TypeOK, NoPartialFile, StreamInv, PhaseInv, PasteVars,
         savedVars, Count
    <2> QED
      BY <2>1, <2>2, <2>3 DEF CopyInv
  <1>10. CASE OpenFails
    <2> USE <1>10 DEF OpenFails
    <2>1. TypeOK'
      BY DEF CopyInv, TypeOK, PhaseInv, Modes, fileVars, streamVars, savedVars
    <2>2. TakenWhole' /\ OkMeansTaken' /\ PhaseInv'
      BY DEF CopyInv, TypeOK, TakenWhole, OkMeansTaken, PhaseInv, streamVars
    <2>3. NoPartialFile' /\ StreamInv' /\ ConserveInv'
      BY PasteUnchanged DEF CopyInv, TypeOK, NoPartialFile, StreamInv, PhaseInv, PasteVars,
         savedVars, Count
    <2> QED
      BY <2>1, <2>2, <2>3 DEF CopyInv
  <1>11. CASE Received
    <2> USE <1>11 DEF Received
    <2>1. TypeOK'
      BY DEF CopyInv, TypeOK, PhaseInv, Modes, fileVars, streamVars, savedVars
    <2>2. TakenWhole' /\ OkMeansTaken' /\ PhaseInv'
      BY DEF CopyInv, TypeOK, TakenWhole, OkMeansTaken, PhaseInv, streamVars
    <2>3. NoPartialFile' /\ StreamInv' /\ ConserveInv'
      BY PasteUnchanged DEF CopyInv, TypeOK, NoPartialFile, StreamInv, PhaseInv, PasteVars,
         savedVars, Count
    <2> QED
      BY <2>1, <2>2, <2>3 DEF CopyInv
  <1> QED
    BY <1>1, <1>2, <1>3, <1>4, <1>5, <1>6, <1>7, <1>8, <1>9, <1>10, <1>11

\* The handler's steps on them (UnixSocketDaemon.swift).
LEMMA DaemonKeeps ==
    ASSUME CopyInv,
           \/ ReadClosed \/ Dispatch \/ PasteFails \/ Streamed \/ ReadFails \/ WriteFails
           \/ CloseOutput \/ Die
    PROVE  CopyInv'
  <1> USE CallAssumption DEF Return, ClientClosed, requestVars
  <1>1. CASE ReadClosed
    <2> USE <1>1 DEF ReadClosed, Take, Reject
    <2>1. TypeOK'
      BY DEF CopyInv, TypeOK, PhaseInv, Modes, fileVars, streamVars, savedVars
    <2>2. TakenWhole' /\ OkMeansTaken' /\ PhaseInv'
      BY DEF CopyInv, TypeOK, TakenWhole, OkMeansTaken, PhaseInv, streamVars
    <2>3. NoPartialFile' /\ StreamInv' /\ ConserveInv'
      BY PasteUnchanged DEF CopyInv, TypeOK, NoPartialFile, StreamInv, PhaseInv, PasteVars,
         savedVars, Count
    <2> QED
      BY <2>1, <2>2, <2>3 DEF CopyInv
  <1>2. CASE Dispatch
    <2> USE <1>2 DEF Dispatch
    <2>1. TypeOK'
      BY DEF CopyInv, TypeOK, PhaseInv, Modes, fileVars, streamVars, savedVars
    <2>2. TakenWhole' /\ OkMeansTaken' /\ PhaseInv'
      BY DEF CopyInv, TypeOK, TakenWhole, OkMeansTaken, PhaseInv, streamVars
    <2>3. NoPartialFile' /\ StreamInv' /\ ConserveInv'
      BY PasteUnchanged DEF CopyInv, TypeOK, NoPartialFile, StreamInv, PhaseInv, PasteVars,
         savedVars, Count
    <2> QED
      BY <2>1, <2>2, <2>3 DEF CopyInv
  <1>3. CASE PasteFails
    <2> USE <1>3 DEF PasteFails
    <2>1. TypeOK'
      BY DEF CopyInv, TypeOK, PhaseInv, Modes, fileVars, streamVars, savedVars
    <2>2. TakenWhole' /\ OkMeansTaken' /\ PhaseInv'
      BY DEF CopyInv, TypeOK, TakenWhole, OkMeansTaken, PhaseInv, streamVars
    <2>3. NoPartialFile' /\ StreamInv' /\ ConserveInv'
      BY PasteUnchanged DEF CopyInv, TypeOK, NoPartialFile, StreamInv, PhaseInv, PasteVars,
         savedVars, Count
    <2> QED
      BY <2>1, <2>2, <2>3 DEF CopyInv
  <1>4. CASE Streamed
    <2> USE <1>4 DEF Streamed
    <2>1. TypeOK'
      BY DEF CopyInv, TypeOK, PhaseInv, Modes, fileVars, streamVars, savedVars
    <2>2. TakenWhole' /\ OkMeansTaken' /\ PhaseInv'
      BY DEF CopyInv, TypeOK, TakenWhole, OkMeansTaken, PhaseInv, streamVars
    <2>3. NoPartialFile' /\ StreamInv' /\ ConserveInv'
      BY PasteUnchanged DEF CopyInv, TypeOK, NoPartialFile, StreamInv, PhaseInv, PasteVars,
         savedVars, Count
    <2> QED
      BY <2>1, <2>2, <2>3 DEF CopyInv
  <1>5. CASE ReadFails \/ WriteFails
    <2>0. StreamCloses
      BY <1>5 DEF ReadFails, WriteFails
    <2> USE <2>0 DEF StreamCloses
    <2>1. TypeOK'
      BY DEF CopyInv, TypeOK, PhaseInv, Modes, fileVars, streamVars, savedVars
    <2>2. TakenWhole' /\ OkMeansTaken' /\ PhaseInv'
      BY DEF CopyInv, TypeOK, TakenWhole, OkMeansTaken, PhaseInv, streamVars
    <2>3. NoPartialFile' /\ StreamInv' /\ ConserveInv'
      BY PasteUnchanged DEF CopyInv, TypeOK, NoPartialFile, StreamInv, PhaseInv, PasteVars,
         savedVars, Count
    <2> QED
      BY <2>1, <2>2, <2>3 DEF CopyInv
  <1>6. CASE CloseOutput
    <2> USE <1>6 DEF CloseOutput
    <2>1. TypeOK'
      BY DEF CopyInv, TypeOK, PhaseInv, Modes, fileVars, streamVars, savedVars
    <2>2. TakenWhole' /\ OkMeansTaken' /\ PhaseInv'
      BY DEF CopyInv, TypeOK, TakenWhole, OkMeansTaken, PhaseInv, streamVars
    <2>3. NoPartialFile' /\ StreamInv' /\ ConserveInv'
      BY PasteUnchanged DEF CopyInv, TypeOK, NoPartialFile, StreamInv, PhaseInv, PasteVars,
         savedVars, Count
    <2> QED
      BY <2>1, <2>2, <2>3 DEF CopyInv
  <1>7. CASE Die
    <2> USE <1>7 DEF Die
    <2>1. TypeOK'
      BY DEF CopyInv, TypeOK, PhaseInv, Modes, fileVars, streamVars, savedVars
    <2>2. TakenWhole' /\ OkMeansTaken' /\ PhaseInv'
      BY DEF CopyInv, TypeOK, TakenWhole, OkMeansTaken, PhaseInv, streamVars
    <2>3. NoPartialFile' /\ StreamInv' /\ ConserveInv'
      BY PasteUnchanged DEF CopyInv, TypeOK, NoPartialFile, StreamInv, PhaseInv, PasteVars,
         savedVars, Count
    <2> QED
      BY <2>1, <2>2, <2>3 DEF CopyInv
  <1> QED
    BY <1>1, <1>2, <1>3, <1>4, <1>5, <1>6, <1>7

\* A chunk of the request, of any size (appendFrameBytes).
LEMMA ChunkKeeps ==
    ASSUME CopyInv, NEW n \in 1..Limit + 2, ReadChunk(n)
    PROVE  CopyInv'
  <1> USE CallAssumption DEF ReadChunk, Take, Reject, requestVars
  <1>1. TypeOK'
    <2>1. arrived' \in 0..length + 1
      BY DEF CopyInv, TypeOK, PhaseInv
    <2>2. /\ daemon' \in {"reading", "taken", "closing"} /\ taken' \in BOOLEAN
          /\ reply' \in {"none", "error"}
      BY DEF CopyInv, TypeOK, PhaseInv
    <2>3. UNCHANGED <<mode, length, sent, stage, result, died, fileVars, streamVars, wire,
                      savedVars>>
      OBVIOUS
    <2> HIDE DEF ReadChunk
    <2> QED
      BY <2>1, <2>2, <2>3 DEF CopyInv, TypeOK, fileVars, streamVars, savedVars
  <1>2. TakenWhole' /\ OkMeansTaken' /\ PhaseInv'
    BY DEF CopyInv, TypeOK, TakenWhole, OkMeansTaken, PhaseInv, streamVars, ClientClosed
  <1>3. NoPartialFile' /\ StreamInv' /\ ConserveInv'
    BY PasteUnchanged DEF CopyInv, TypeOK, NoPartialFile, StreamInv, PhaseInv, PasteVars,
       savedVars, Count
  <1> QED
    BY <1>1, <1>2, <1>3 DEF CopyInv

\* The header of a paste says the sizes the files have then, and nothing of them is
\* on the way yet (Pasteboard.swift).
LEMMA PasteKeeps ==
    ASSUME CopyInv, Paste
    PROVE  CopyInv'
  <1> USE CallAssumption DEF Paste, requestVars, savedVars
  <1>1. TypeOK'
    BY DEF CopyInv, TypeOK
  <1>2. TakenWhole' /\ OkMeansTaken' /\ PhaseInv'
    BY DEF CopyInv, TypeOK, TakenWhole, OkMeansTaken, PhaseInv, ClientClosed
  <1>3. /\ kind = "none" /\ ~open /\ complete = 0 /\ from = 1 /\ offset = 0
        /\ \A i \in Items : len[i] = 0 /\ wire[i] = 0
    BY DEF CopyInv, PhaseInv, StreamInv
  <1>4. StreamInv' /\ NoPartialFile'
    BY <1>3 DEF CopyInv, TypeOK, StreamInv, NoPartialFile, PhaseInv, Count, Items
  <1>5. ASSUME NEW i \in Items, Clean(i)' PROVE Conserved(i)'
    <2>1. /\ len'[i] = 0 /\ wire'[i] = 0 /\ from' = 1 /\ offset' = 0 /\ announced' = size /\ size' = size
          /\ foreign' = foreign
      BY <1>3 DEF fileVars
    <2>2. ~foreign[i]
      BY <1>3 DEF CopyInv, StreamInv
    <2>3. size[i] \in Nat /\ i >= 1 /\ i \in Nat
      BY DEF CopyInv, TypeOK, Items
    <2>4. Rest(i)' = size[i]
      BY <2>1, <2>3 DEF Rest
    <2> QED
      BY <2>1, <2>2, <2>3, <2>4 DEF Conserved
  <1>6. ConserveInv'
    BY <1>5 DEF ConserveInv
  <1> QED
    BY <1>1, <1>2, <1>4, <1>6 DEF CopyInv

\* What the client does with its files: only Copy takes bytes.
LEMMA FilesKeep ==
    ASSUME CopyInv, OpenFile \/ CloseFile \/ LeaveFile
    PROVE  CopyInv'
  <1> USE CallAssumption DEF OpenFile, CloseFile, LeaveFile, Return, requestVars, Current
  <1>1. complete' \in 0..NFiles /\ open' \in BOOLEAN
    <2>1. complete \in 0..NFiles /\ open \in BOOLEAN /\ Count \in 1..NFiles
      BY DEF CopyInv, TypeOK, Count
    <2>2. open => complete < Count
      BY DEF CopyInv, StreamInv
    <2>3. complete' \in 0..NFiles
      BY <2>1, <2>2
    <2>4. open' \in BOOLEAN
      BY <2>1, Zenon
    <2> QED
      BY <2>3, <2>4
  <1>2. stage' \in {"reading", "done"} /\ result' \in {"none", "ok", "error", "empty"}
    BY DEF CopyInv, TypeOK
  <1>3. UNCHANGED <<requestVars, daemon, taken, died, reply, fileVars, streamVars, wire, len,
                    foreign>>
    OBVIOUS
  <1>4. TypeOK'
    <2> HIDE DEF OpenFile, CloseFile, LeaveFile
    <2> QED
      BY <1>1, <1>2, <1>3 DEF CopyInv, TypeOK, fileVars, streamVars
  <1>5. TakenWhole' /\ OkMeansTaken' /\ PhaseInv'
    BY DEF CopyInv, TypeOK, TakenWhole, OkMeansTaken, PhaseInv, ClientClosed, streamVars
  <1>6. NoPartialFile' /\ StreamInv'
    <2> USE DEF streamVars
    <2>1. CASE OpenFile
      BY <2>1 DEF CopyInv, TypeOK, StreamInv, NoPartialFile, PhaseInv, Count
    <2>2. CASE CloseFile
      <3>1. len[Current] = announced[Current] /\ Current \in Items
        BY <2>2 DEF CopyInv, TypeOK, StreamInv, Count, Items
      <3>2. complete' = complete + 1 /\ complete < Count /\ ~open'
        BY <2>2 DEF CopyInv, StreamInv
      <3>3. NoPartialFile'
        BY <2>2, <3>1, <3>2 DEF CopyInv, TypeOK, StreamInv, NoPartialFile, PhaseInv, Count
      <3>4. StreamInv'
        BY <2>2, <3>2 DEF CopyInv, TypeOK, StreamInv, PhaseInv, Count
      <3> QED
        BY <3>3, <3>4
    <2>3. CASE LeaveFile
      BY <2>3 DEF CopyInv, TypeOK, StreamInv, NoPartialFile, PhaseInv, Count
    <2> QED
      BY <2>1, <2>2, <2>3
  <1>7. ConserveInv'
    BY DEF CopyInv, ConserveInv, Clean, Conserved, Rest, Items, fileVars, streamVars
  <1> QED
    BY <1>4, <1>5, <1>6, <1>7 DEF CopyInv

\* io.CopyN takes a byte: it is of the client's current file, if that file is clean.
LEMMA CopyKeeps ==
    ASSUME CopyInv, Copy
    PROVE  CopyInv'
  <1> USE CallAssumption DEF requestVars, fileVars, streamVars, Items
  <1>1. PICK i \in Items :
          /\ IsNext(i)
          /\ wire' = [wire EXCEPT ![i] = @ - 1]
          /\ foreign' = [foreign EXCEPT ![Current] = @ \/ i # Current]
    BY DEF Copy
  <1>2. /\ open /\ stage = "reading" /\ len[Current] < announced[Current]
        /\ len' = [len EXCEPT ![Current] = @ + 1]
        /\ UNCHANGED <<requestVars, stage, result, daemon, taken, died, reply, fileVars, streamVars,
                       complete, open>>
    BY DEF Copy
  <1>3. Current \in Items /\ Current = complete + 1
    BY <1>2 DEF CopyInv, TypeOK, StreamInv, Current, Count
  <1>4. wire[i] > 0 /\ \A j \in Items : j < i => wire[j] = 0
    BY <1>1 DEF IsNext
  <1>5. TypeOK'
    <2>1. wire \in [Items -> Nat] /\ len \in [Items -> Nat] /\ foreign \in [Items -> BOOLEAN]
      BY DEF CopyInv, TypeOK
    <2>2. wire[i] - 1 \in Nat /\ wire' \in [Items -> Nat]
      BY <1>1, <1>4, <2>1
    <2>3. len[Current] + 1 \in Nat /\ len' \in [Items -> Nat]
      BY <1>2, <1>3, <2>1
    <2>4. foreign' \in [Items -> BOOLEAN]
      BY <1>1, <1>3, <2>1
    <2> QED
      BY <1>2, <2>2, <2>3, <2>4 DEF CopyInv, TypeOK
  <1>6. TakenWhole' /\ OkMeansTaken' /\ PhaseInv'
    BY <1>2 DEF CopyInv, TypeOK, TakenWhole, OkMeansTaken, PhaseInv, ClientClosed
  <1>7. NoPartialFile'
    BY <1>2, <1>3 DEF CopyInv, TypeOK, NoPartialFile, Count
  <1>8. StreamInv'
    <2>0. /\ len \in [Items -> Nat] /\ wire \in [Items -> Nat] /\ \A k \in Items : announced[k] \in 0..MaxSize
          /\ \A k \in Items : len[k] <= announced[k] /\ (k > from => wire[k] = 0)
      BY DEF CopyInv, TypeOK, StreamInv
    <2>1. \A k \in Items : len'[k] <= announced[k]
      BY <1>2, <1>3, <2>0
    <2>2. \A k \in Items : k > from => wire'[k] = 0
      BY <1>1, <1>4, <2>0
    <2>3. kind # "none"
      BY <1>2 DEF CopyInv, PhaseInv
    <2> QED
      BY <1>2, <2>1, <2>2, <2>3 DEF CopyInv, StreamInv, Count
  <1>9. ASSUME kind # "none", NEW k \in Items, Clean(k) PROVE Conserved(k)'
    <2>1. Conserved(k)
      BY <1>9 DEF CopyInv, ConserveInv
    <2>2. wire[k] \in Nat /\ len[k] \in Nat /\ announced[k] \in Nat /\ size[k] \in Nat /\ offset \in Nat
          /\ from \in Nat /\ complete \in Nat
      BY DEF CopyInv, TypeOK
    <2>3. CASE i = k /\ Current = k
      BY <1>1, <1>2, <2>1, <2>2, <2>3 DEF Conserved, Rest, CopyInv, TypeOK
    <2>4. CASE i # k /\ Current # k
      BY <1>1, <1>2, <1>3, <2>1, <2>2, <2>4 DEF Conserved, Rest, CopyInv, TypeOK
    <2>5. CASE i = k /\ Current < k
      <3>1. Clean(Current)
        BY <1>3, <1>9, <2>5 DEF Clean
      <3>2. Conserved(Current)
        BY <1>3, <1>9, <3>1 DEF CopyInv, ConserveInv
      <3>3. wire[Current] = 0
        BY <1>3, <1>4, <2>5
      <3>4. Rest(Current) > 0
        <4>1. len[Current] \in Nat /\ announced[Current] \in Nat /\ offset \in Nat
          BY <1>3 DEF CopyInv, TypeOK
        <4> QED
          BY <1>2, <3>2, <3>3, <4>1 DEF Conserved, Rest
      <3>5. from <= Current
        BY <1>3, <3>4 DEF Rest, CopyInv, TypeOK
      <3>6. wire[k] = 0
        BY <1>3, <2>2, <2>5, <3>5 DEF CopyInv, StreamInv
      <3> QED
        BY <1>4, <2>5, <3>6
    <2>6. CASE i = k /\ k < Current
      <3>1. len[k] = announced[k]
        BY <1>3, <2>2, <2>6 DEF CopyInv, NoPartialFile
      <3>2. Rest(k) \in Nat
        BY <2>1, <2>2 DEF Rest, Conserved
      <3> QED
        BY <1>4, <2>1, <2>2, <2>6, <3>1, <3>2 DEF Conserved
    <2>7. CASE i > k /\ Current = k
      <3>1. wire[k] = 0
        BY <1>4, <2>7
      <3>2. Rest(k) > 0
        BY <1>2, <2>1, <2>2, <2>7, <3>1 DEF Conserved, Rest
      <3>3. from <= k
        BY <2>2, <3>2 DEF Rest
      <3>4. wire[i] = 0
        BY <2>2, <2>7, <3>3 DEF CopyInv, StreamInv
      <3> QED
        BY <1>4, <3>4
    <2>8. CASE i < k /\ Current = k
      <3>1. Clean(i)
        BY <1>9, <2>8 DEF Clean
      <3>2. Conserved(i) /\ len[i] = announced[i]
        BY <1>3, <1>9, <2>2, <2>8, <3>1 DEF CopyInv, ConserveInv, NoPartialFile
      <3>3. wire[i] \in Nat /\ len[i] \in Nat /\ announced[i] \in Nat
        BY DEF CopyInv, TypeOK
      <3>4. Rest(i) \in Nat
        BY <2>2, <3>2, <3>3 DEF Rest, Conserved
      <3> QED
        BY <1>4, <3>2, <3>3, <3>4 DEF Conserved
    <2> QED
      BY <1>3, <2>3, <2>4, <2>5, <2>6, <2>7, <2>8 DEF Current
  <1>10. ConserveInv'
    BY <1>2, <1>9 DEF ConserveInv, Clean
  <1> QED
    BY <1>5, <1>6, <1>7, <1>8, <1>10 DEF CopyInv

\* What is left to show of a step of the stream that moves only its place and bytes.
LEMMA StreamStep ==
    ASSUME CopyInv, daemon = "streaming", kind # "none",
           UNCHANGED <<requestVars, stage, result, daemon, taken, died, reply, fileVars, kind,
                       announced, savedVars>>,
           from' \in 1..NFiles + 1, offset' \in Nat, wire' \in [Items -> Nat],
           \A i \in Items : i > from' => wire'[i] = 0,
           \A i \in Items : Conserved(i) => Conserved(i)'
    PROVE  CopyInv'
  <1> USE DEF requestVars, fileVars, savedVars
  <1>1. TypeOK'
    BY DEF CopyInv, TypeOK
  <1>2. TakenWhole' /\ OkMeansTaken' /\ PhaseInv'
    BY DEF CopyInv, TypeOK, TakenWhole, OkMeansTaken, PhaseInv, ClientClosed
  <1>3. NoPartialFile' /\ StreamInv'
    BY DEF CopyInv, NoPartialFile, StreamInv, Count
  <1>4. ConserveInv'
    BY DEF CopyInv, ConserveInv, Clean, Items
  <1> QED
    BY <1>1, <1>2, <1>3, <1>4 DEF CopyInv

\* The handler streams a byte, or goes on to the next file (sendFile).
LEMMA StreamKeeps ==
    ASSUME CopyInv, StreamByte \/ StreamNext
    PROVE  CopyInv'
  <1> USE CallAssumption DEF requestVars, fileVars, savedVars, Items
  <1>1. /\ daemon = "streaming" /\ from \in Items /\ from <= Count
        /\ UNCHANGED <<requestVars, stage, result, daemon, taken, died, reply, fileVars, kind,
                       announced, savedVars>>
    BY DEF CopyInv, TypeOK, Count, StreamByte, StreamNext
  <1>2. /\ kind # "none" => \A i \in Items : i > from => wire[i] = 0
        /\ wire \in [Items -> Nat] /\ offset \in Nat /\ from \in Nat
        /\ \A i \in Items : size[i] \in Nat /\ announced[i] \in Nat /\ len[i] \in Nat
    <2>1. \A i \in Items : size[i] \in 0..MaxSize /\ announced[i] \in 0..MaxSize
      BY DEF CopyInv, TypeOK
    <2>2. len \in [Items -> Nat] /\ wire \in [Items -> Nat] /\ offset \in Nat /\ from \in Nat
      BY DEF CopyInv, TypeOK
    <2> QED
      BY <1>1, <2>1, <2>2 DEF CopyInv, StreamInv
  <1>3. kind # "none"
    BY <1>1 DEF CopyInv, PhaseInv
  <1>4. CASE StreamByte
    <2>1. /\ offset < size[from] /\ offset' = offset + 1 /\ from' = from
          /\ wire' = [wire EXCEPT ![from] = @ + 1]
      BY <1>4 DEF StreamByte
    <2>2. wire' \in [Items -> Nat] /\ offset' \in Nat
      BY <1>1, <1>2, <2>1
    <2>3. \A i \in Items : i > from' => wire'[i] = 0
      BY <1>2, <1>3, <2>1
    <2>4. ASSUME NEW i \in Items, Conserved(i) PROVE Conserved(i)'
      <3>1. /\ size'[i] = size[i] /\ announced'[i] = announced[i] /\ len'[i] = len[i] /\ foreign'[i] = foreign[i]
        BY <1>1
      <3>2. CASE i = from
        <4>1. wire'[i] = wire[i] + 1 /\ offset < announced[i]
          BY <1>1, <1>2, <2>1, <2>4, <3>2 DEF Conserved
        <4>2. Rest(i) = announced[i] - offset /\ Rest(i)' = announced[i] - (offset + 1)
          BY <1>1, <2>1, <3>1, <3>2 DEF Rest
        <4>3. /\ wire[i] \in Nat /\ offset \in Nat /\ announced[i] \in Nat /\ len[i] \in Nat
              /\ offset' = offset + 1
          BY <1>2, <2>1
        <4>4. len[i] + wire[i] + (announced[i] - offset) = announced[i] /\ ~foreign[i] /\ size[i] = announced[i]
          BY <2>4, <4>2 DEF Conserved
        <4>5. len'[i] + wire'[i] + Rest(i)' = announced'[i] /\ offset' <= announced'[i]
          BY <3>1, <4>1, <4>2, <4>3, <4>4
        <4> QED
          BY <3>1, <4>4, <4>5 DEF Conserved
      <3>3. CASE i # from
        <4>1. wire'[i] = wire[i] /\ Rest(i)' = Rest(i)
          BY <1>1, <1>2, <2>1, <3>1, <3>3 DEF Rest
        <4> QED
          BY <2>1, <2>4, <3>1, <3>3, <4>1 DEF Conserved
      <3> QED
        BY <3>2, <3>3
    <2> QED
      BY <1>1, <1>3, <2>1, <2>2, <2>3, <2>4, StreamStep DEF CopyInv, TypeOK
  <1>5. CASE StreamNext
    <2>1. offset >= size[from] /\ offset' = 0 /\ from' = from + 1 /\ wire' = wire
      BY <1>5 DEF StreamNext
    <2>2. wire' \in [Items -> Nat] /\ offset' \in Nat
      BY <1>2, <2>1
    <2>3. \A i \in Items : i > from' => wire'[i] = 0
      BY <1>2, <1>3, <2>1
    <2>4. ASSUME NEW i \in Items, Conserved(i) PROVE Conserved(i)'
      <3>1. /\ size'[i] = size[i] /\ announced'[i] = announced[i] /\ wire'[i] = wire[i]
            /\ len'[i] = len[i] /\ foreign'[i] = foreign[i]
        BY <1>1, <2>1
      <3>2. i = from => offset = announced[i]
        BY <1>2, <2>1, <2>4 DEF Conserved
      <3>3. Rest(i)' = Rest(i)
        BY <1>2, <2>1, <3>1, <3>2 DEF Rest
      <3>4. from' = i => offset' <= announced'[i]
        BY <1>2, <2>1, <3>1
      <3> QED
        BY <2>4, <3>1, <3>3, <3>4 DEF Conserved
    <2>5. from' \in 1..NFiles + 1
      BY <1>1, <2>1
    <2> QED
      BY <1>1, <1>3, <2>2, <2>3, <2>4, <2>5, StreamStep DEF CopyInv, TypeOK
  <1> QED
    BY <1>4, <1>5

\* A file that changes is no longer clean, nor is any after it.
LEMMA ChangeKeeps ==
    ASSUME CopyInv, FileChanges
    PROVE  CopyInv'
  <1> USE CallAssumption DEF requestVars, streamVars, savedVars, Items
  <1>1. PICK i \in Items, n \in 0..MaxSize :
          size' = [size EXCEPT ![i] = n] /\ changed' = changed \cup {i}
    BY DEF FileChanges
  <1>2. /\ changes < MaxChanges /\ changes' = changes + 1
        /\ UNCHANGED <<requestVars, stage, result, daemon, taken, died, reply, streamVars, wire,
                       savedVars>>
    BY DEF FileChanges
  <1>3. TypeOK'
    <2>1. size' \in [Items -> 0..MaxSize] /\ changed' \subseteq Items
      BY <1>1 DEF CopyInv, TypeOK
    <2>2. changes' \in 0..MaxChanges
      BY <1>2 DEF CopyInv, TypeOK
    <2>3. UNCHANGED <<wire, offset, from, len, foreign, complete, open, kind, announced>>
      BY <1>2
    <2>4. UNCHANGED <<mode, length, sent, arrived, stage, result, daemon, taken, died, reply>>
      BY <1>2
    <2> HIDE DEF requestVars, streamVars, savedVars, Items
    <2> QED
      BY <2>1, <2>2, <2>3, <2>4 DEF CopyInv, TypeOK
  <1>4. TakenWhole' /\ OkMeansTaken' /\ PhaseInv'
    BY <1>2 DEF CopyInv, TypeOK, TakenWhole, OkMeansTaken, PhaseInv, ClientClosed
  <1>5. NoPartialFile' /\ StreamInv'
    BY <1>2 DEF CopyInv, NoPartialFile, StreamInv, Count
  <1>6. ASSUME kind # "none", NEW k \in Items, Clean(k)' PROVE Conserved(k)'
    <2>1. Clean(k) /\ k # i
      BY <1>1, <1>6 DEF Clean
    <2>2. Conserved(k) /\ size'[k] = size[k]
      BY <1>1, <1>6, <2>1 DEF CopyInv, TypeOK, ConserveInv
    <2> QED
      BY <1>2, <2>2 DEF Conserved, Rest
  <1>7. ConserveInv'
    BY <1>2, <1>6 DEF ConserveInv
  <1> QED
    BY <1>3, <1>4, <1>5, <1>7 DEF CopyInv

\* Every step of either side and of the files keeps the invariant.
LEMMA CopyInvKept == CopyInv /\ [Next]_vars => CopyInv'
  <1> SUFFICES ASSUME CopyInv, [Next]_vars PROVE CopyInv'
    OBVIOUS
  <1>1. CASE ClientStep \/ ClientFails
    BY <1>1, ClientKeeps, FilesKeep, CopyKeeps DEF ClientStep, ClientFails, CopyEnds, CopyFails
  <1>2. CASE DaemonStep \/ ReadFails
    BY <1>2, DaemonKeeps, ChunkKeeps, PasteKeeps, StreamKeeps DEF DaemonStep
  <1>3. CASE CloseHold \/ Kill \/ Die \/ FileChanges
    BY <1>3, ClientKeeps, DaemonKeeps, ChangeKeeps
  <1>4. CASE UNCHANGED vars
    <2> USE <1>4 DEF vars, requestVars, fileVars, streamVars, savedVars
    <2>1. TypeOK'
      BY DEF CopyInv, TypeOK
    <2>2. TakenWhole' /\ OkMeansTaken' /\ PhaseInv'
      BY DEF CopyInv, TakenWhole, OkMeansTaken, PhaseInv, ClientClosed
    <2>3. NoPartialFile' /\ StreamInv'
      BY DEF CopyInv, NoPartialFile, StreamInv, Count
    <2>4. ConserveInv'
      BY DEF CopyInv, ConserveInv, Clean, Conserved, Rest
    <2> QED
      BY <2>1, <2>2, <2>3, <2>4 DEF CopyInv
  <1> QED
    BY <1>1, <1>2, <1>3, <1>4 DEF Next

\* Nothing is read, and nothing held, before the call.
LEMMA InitAnswer == Init => AnswerInv
  BY DEF Init, AnswerInv

\* A client waits only with its request sent, and a hold is answered before it is held.
LEMMA AnswerKept == CopyInv /\ AnswerInv /\ [Next]_vars => AnswerInv'
  <1> SUFFICES ASSUME CopyInv, AnswerInv, [Next]_vars PROVE AnswerInv'
    OBVIOUS
  <1> USE DEF AnswerInv, Return, ClientClosed, requestVars
  <1>1. length \in Nat /\ sent \in Nat
    BY CallAssumption DEF CopyInv, TypeOK
  <1>p. /\ daemon = "holding" => taken
        /\ stage = "start" => sent = 0
        /\ stage = "sending" => sent <= length
        /\ daemon = "reading" => ~taken
        /\ arrived \in Nat
    BY CallAssumption DEF CopyInv, TypeOK, PhaseInv
  <1>2. CASE Refuse \/ Dial \/ Send \/ SendFails \/ CloseHold \/ Kill
    BY <1>1, <1>p, <1>2 DEF Refuse, Dial, Send, SendFails, CloseHold, Kill
  <1>3. CASE ReadReply \/ ReadData \/ ReadEnd
    BY <1>3 DEF ReadReply, ReadData, ReadEnd
  <1>4. CASE OpenFile \/ OpenFails \/ Copy \/ CloseFile \/ LeaveFile \/ Received
    BY <1>4 DEF OpenFile, OpenFails, Copy, CloseFile, LeaveFile, Received
  <1>5. CASE ReadClosed \/ Dispatch \/ Paste \/ PasteFails \/ StreamByte \/ StreamNext
    BY <1>p, <1>5 DEF ReadClosed, Take, Reject, Dispatch, Paste, PasteFails, StreamByte, StreamNext
  <1>6. CASE Streamed \/ StreamCloses \/ CloseOutput \/ Die \/ FileChanges
    BY <1>6 DEF Streamed, StreamCloses, CloseOutput, Die, FileChanges
  <1>7. ASSUME NEW n \in 1..Limit + 2, ReadChunk(n)
        PROVE  AnswerInv'
    BY <1>1, <1>p, <1>7 DEF ReadChunk, Take, Reject
  <1>8. CASE UNCHANGED vars
    BY <1>8 DEF vars
  <1> QED
    BY <1>2, <1>3, <1>4, <1>5, <1>6, <1>7, <1>8 DEF Next, ClientStep, ClientFails, DaemonStep, CopyEnds,
       CopyFails, ReadFails, WriteFails

\* Each wait of the client has its answer there, or a handler that works on it.
LEMMA CallWaits == CopyInv /\ AnswerInv => NotBothWaiting
  <1> SUFFICES ASSUME CopyInv, AnswerInv, stage \in {"waiting", "reading"}
               PROVE  ClientReady \/ DaemonReady
    BY DEF NotBothWaiting
  <1>1. length \in Nat /\ sent = length + 1 /\ arrived \in Nat
    BY CallAssumption DEF CopyInv, TypeOK, AnswerInv
  <1>2. CASE daemon = "reading"
    BY <1>1, <1>2 DEF CopyInv, PhaseInv, DaemonReady
  <1>3. CASE daemon = "holding"
    BY <1>3 DEF CopyInv, PhaseInv, AnswerInv, ClientReady
  <1>4. CASE daemon \in {"taken", "streaming", "closing"}
    BY <1>4 DEF DaemonReady
  <1>5. CASE daemon = "closed"
    BY <1>5 DEF ClientReady
  <1> QED
    BY <1>2, <1>3, <1>4, <1>5 DEF CopyInv, TypeOK

\* Every reachable state of a call has the types and the invariant (client.go,
\* paste.go, UnixSocketDaemon.swift).
THEOREM CallInvariant == Spec => []CallInv
  BY InitCall, CopyInvKept, InitAnswer, AnswerKept, CallWaits, PTL DEF Spec, CallInv

\* Requests are taken whole and within the limit, whatever their chunks
\* (appendFrameBytes).
THEOREM RequestsTakenWhole == Spec => []TakenWhole
  <1>1. CallInv => TakenWhole
    BY DEF CallInv, CopyInv, CopyInv
  <1> QED
    BY <1>1, CallInvariant, PTL

\* A call that reports success was dispatched, but for a notification whose daemon
\* ended (readReply, waitForEOF).
THEOREM SuccessWasTaken == Spec => []OkMeansTaken
  <1>1. CallInv => OkMeansTaken
    BY DEF CallInv, CopyInv, CopyInv
  <1> QED
    BY <1>1, CallInvariant, PTL

\* A file that kept its size, with those before it, is copied exactly: as a complete
\* file has all its bytes, none is left on the way (receivePasteFiles).
THEOREM FilesCopiedExactly == Spec => []PasteExact
  <1>1. CallInv => PasteExact
    BY CallAssumption DEF CallInv, CopyInv, TypeOK, StreamInv, NoPartialFile, ConserveInv, PasteExact,
       Clean, Conserved, Count, Items
  <1> QED
    BY <1>1, CallInvariant, PTL

\* A paste that is over leaves whole files only (materializePasteFile).
THEOREM NoPartialFiles == Spec => []NoPartialFile
  <1>1. CallInv => NoPartialFile
    BY DEF CallInv, CopyInv, CopyInv
  <1> QED
    BY <1>1, CallInvariant, PTL

\* A paste that succeeds while nobody writes its files delivers all of them: the end
\* of the last file is the end of the stream (receivePasteFiles, sendFile).
THEOREM PastesDeliver == Spec => []PasteDelivers
  <1>1. ASSUME CallInv, mode = "stream", result = "ok", changed = {}, NEW i \in 1..Count
        PROVE  len[i] = size[i] /\ ~foreign[i] /\ wire[i] = 0
    <2>1. kind # "none" /\ complete = Count
      BY <1>1 DEF CallInv, CopyInv, StreamInv, NoPartialFile
    <2>2. i \in Items /\ Clean(i)
      BY <1>1, CallAssumption DEF Count, Items, Clean
    <2>3. Conserved(i) /\ len[i] = announced[i]
      BY <1>1, <2>1, <2>2 DEF CallInv, CopyInv, ConserveInv, NoPartialFile
    <2>4. /\ len[i] \in Nat /\ wire[i] \in Nat /\ announced[i] \in Nat
          /\ from \in Nat /\ offset \in Nat
      BY <1>1, <2>2 DEF CallInv, CopyInv, TypeOK
    <2>5. Rest(i) \in Nat
      BY <2>3, <2>4 DEF Rest, Conserved
    <2> QED
      BY <2>3, <2>4, <2>5 DEF Conserved
  <1>2. CallInv => PasteDelivers
    BY <1>1 DEF PasteDelivers
  <1> QED
    BY <1>2, CallInvariant, PTL

\* A client and the handler of its connection never wait for one another: what
\* CallEnds rests on (readReply, waitForEOF, receivePasteFiles, ConnectionHandler.run).
THEOREM CallNeverStuck == Spec => []NotBothWaiting
  <1>1. CallInv => NotBothWaiting
    BY DEF CallInv
  <1> QED
    BY <1>1, CallInvariant, PTL
=============================================================================
