------------------------------ MODULE ClientCall ------------------------------
(***************************************************************************)
(* One call of the Go SDK to a daemon (client.go, paste.go, protocol.go)   *)
(* with the connection handler that serves it (UnixSocketDaemon.swift):    *)
(* the request frame, which arrives in pieces, the reply its mode asks     *)
(* for, and the files of a paste, whose sizes go ahead of their bytes.     *)
(*                                                                         *)
(* The bytes of a paste come in the order of its files, so that what is on *)
(* the way is how many bytes of each file are; a byte's file is kept to    *)
(* see which file the client writes it to.                                 *)
(***************************************************************************)
EXTENDS Naturals, Functions

CONSTANTS
    Limit,      \* maxFrameBytes, in pieces of a request
    NFiles,     \* the files on the clipboard
    MaxSize,    \* the largest size of a file
    Capacity,   \* how many bytes the connection holds
    MaxChanges  \* how often a file changes

ASSUME CallAssumption ==
    /\ Limit \in Nat \ {0} /\ NFiles \in Nat \ {0}
    /\ MaxSize \in Nat /\ Capacity \in Nat \ {0} /\ MaxChanges \in Nat

VARIABLES
    mode,       \* the request's reply mode
    length,     \* the length of its frame, without the newline
    sent,       \* what the client has sent of frame and newline
    stage,      \* where the client stands
    result,     \* what it returns
    arrived,    \* what the handler has read
    daemon,     \* where the handler stands
    taken,      \* whether the request was dispatched
    died,       \* whether the daemon ended first
    reply,      \* the reply frame or header that is on the way
    size,       \* the files' sizes
    changes,    \* how often one changed
    kind,       \* the paste's kind, once its header was sent
    announced,  \* the sizes in its header
    changed,    \* the files that are not of their announced size
    from,       \* the file the handler streams
    offset,     \* how far
    wire,       \* the bytes of each file that are on the way
    complete,   \* how many files the client has written
    open,       \* whether it is writing the next
    len,        \* the bytes in each file it wrote
    foreign     \* whether some of them are of another file

requestVars == <<mode, length, sent, arrived>>
fileVars == <<size, changes, changed>>
streamVars == <<kind, announced, from, offset>>
savedVars == <<complete, open, len, foreign>>
vars == <<requestVars, stage, result, daemon, taken, died, reply, fileVars, streamVars, wire,
          savedVars>>

Items == 1..NFiles
Modes == {"frame", "none", "stream", "hold"}

TypeOK ==
    /\ mode \in Modes
    /\ length \in 1..Limit + 1
    /\ sent \in 0..length + 1
    /\ stage \in {"start", "sending", "waiting", "reading", "held", "done", "killed"}
    /\ result \in {"none", "ok", "error", "empty"}
    /\ arrived \in 0..length + 1
    /\ daemon \in {"reading", "taken", "streaming", "closing", "holding", "closed"}
    /\ taken \in BOOLEAN
    /\ died \in BOOLEAN
    /\ reply \in {"none", "ok", "error", "empty"}
    /\ size \in [Items -> 0..MaxSize]
    /\ changes \in 0..MaxChanges
    /\ kind \in {"none", "text", "files"}
    /\ announced \in [Items -> 0..MaxSize]
    /\ changed \subseteq Items
    /\ from \in 1..NFiles + 1
    /\ offset \in Nat
    /\ wire \in [Items -> Nat]
    /\ complete \in 0..NFiles
    /\ open \in BOOLEAN
    /\ len \in [Items -> Nat]
    /\ foreign \in [Items -> BOOLEAN]

Init ==
    /\ mode \in Modes
    /\ length \in 1..Limit + 1
    /\ sent = 0
    /\ stage = "start"
    /\ result = "none"
    /\ arrived = 0
    /\ daemon = "reading"
    /\ taken = FALSE
    /\ died = FALSE
    /\ reply = "none"
    /\ size \in [Items -> 0..MaxSize]
    /\ changes = 0
    /\ kind = "none"
    /\ announced = [i \in Items |-> 0]
    /\ changed = {}
    /\ from = 1
    /\ offset = 0
    /\ wire = [i \in Items |-> 0]
    /\ complete = 0
    /\ open = FALSE
    /\ len = [i \in Items |-> 0]
    /\ foreign = [i \in Items |-> FALSE]

\* A text paste is one item.
Count == IF kind = "text" THEN 1 ELSE NFiles
Current == complete + 1
ClientClosed == stage \in {"done", "killed"}
Nothing == \A i \in Items : wire[i] = 0
Full == FoldFunction(+, 0, wire) >= Capacity

\* The next byte that the client reads is one of file i.
IsNext(i) == wire[i] > 0 /\ \A j \in Items : j < i => wire[j] = 0

Return(r) == stage' = "done" /\ result' = r

-----------------------------------------------------------------------------
(* The client: Call, Notify, Stream and Hold *)

\* requireReplyMode refuses a request of another mode; so does Validate, or Dial.
Refuse ==
    /\ stage = "start"
    /\ Return("error")
    /\ UNCHANGED <<requestVars, daemon, taken, died, reply, fileVars, streamVars, wire, savedVars>>

Dial ==
    /\ stage = "start"
    /\ stage' = "sending"
    /\ UNCHANGED <<requestVars, result, daemon, taken, died, reply, fileVars, streamVars, wire,
                   savedVars>>

\* Conn.send: one write, which the connection takes in pieces.
Send ==
    /\ stage = "sending"
    /\ daemon # "closed"
    /\ sent' = sent + 1
    /\ stage' = IF sent = length THEN "waiting" ELSE "sending"
    /\ UNCHANGED <<mode, length, arrived, result, daemon, taken, died, reply, fileVars,
                   streamVars, wire, savedVars>>

SendFails ==
    /\ stage = "sending"
    /\ daemon = "closed"
    /\ Return("error")
    /\ UNCHANGED <<requestVars, daemon, taken, died, reply, fileVars, streamVars, wire, savedVars>>

\* readReply: a frame with its code; Hold and Stream keep the connection.
ReadReply ==
    /\ stage = "waiting"
    /\ mode # "none"
    /\ reply # "none"
    /\ reply' = "none"
    /\ \/ (reply # "ok" \/ mode = "frame") /\ Return(reply)
       \/ reply = "ok" /\ mode = "hold" /\ stage' = "held" /\ UNCHANGED result
       \/ reply = "ok" /\ mode = "stream" /\ stage' = "reading" /\ UNCHANGED result
    /\ UNCHANGED <<requestVars, daemon, taken, died, fileVars, streamVars, wire, savedVars>>

\* Mutant: waitForEOF does not look at what it read.
ReadDataIgnored ==
    /\ stage = "waiting"
    /\ mode = "none"
    /\ reply # "none"
    /\ reply' = "none"
    /\ Return("ok")
    /\ UNCHANGED <<requestVars, daemon, taken, died, fileVars, streamVars, wire, savedVars>>

\* waitForEOF: a request that asks for no reply got one, an error.
ReadData ==
    /\ stage = "waiting"
    /\ mode = "none"
    /\ reply # "none"
    /\ reply' = "none"
    /\ Return("error")
    /\ UNCHANGED <<requestVars, daemon, taken, died, fileVars, streamVars, wire, savedVars>>

\* Mutant: only a request without reply looks for the end of the connection.
ReadEndOfNotify ==
    /\ stage = "waiting"
    /\ mode = "none"
    /\ daemon = "closed"
    /\ reply = "none"
    /\ Return("ok")
    /\ UNCHANGED <<requestVars, daemon, taken, died, reply, fileVars, streamVars, wire, savedVars>>

\* The connection ends without a reply.
ReadEnd ==
    /\ stage = "waiting"
    /\ daemon = "closed"
    /\ reply = "none"
    /\ Return(IF mode = "none" THEN "ok" ELSE "error")
    /\ UNCHANGED <<requestVars, daemon, taken, died, reply, fileVars, streamVars, wire, savedVars>>

\* The lease's owner closes it: PreparedBridge.Close.
CloseHold ==
    /\ stage = "held"
    /\ Return("ok")
    /\ UNCHANGED <<requestVars, daemon, taken, died, reply, fileVars, streamVars, wire, savedVars>>

Kill ==
    /\ stage \notin {"start", "done", "killed"}
    /\ stage' = "killed"
    /\ UNCHANGED <<requestVars, result, daemon, taken, died, reply, fileVars, streamVars, wire,
                   savedVars>>

-----------------------------------------------------------------------------
(* The client: a paste's files, or its text *)

\* materializePasteFile: the directory and a file of a fresh name.
OpenFile ==
    /\ stage = "reading"
    /\ ~open
    /\ complete < Count
    /\ open' = TRUE
    /\ UNCHANGED <<requestVars, stage, result, daemon, taken, died, reply, fileVars, streamVars,
                   wire, complete, len, foreign>>

OpenFails ==
    /\ stage = "reading"
    /\ kind = "files"
    /\ ~open
    /\ complete < Count
    /\ Return("error")
    /\ UNCHANGED <<requestVars, daemon, taken, died, reply, fileVars, streamVars, wire, savedVars>>

\* Mutant: a byte more than the header says.
CopyPast ==
    /\ open
    /\ stage = "reading"
    /\ len[Current] <= announced[Current]
    /\ \E i \in Items :
        /\ IsNext(i)
        /\ wire' = [wire EXCEPT ![i] = @ - 1]
        /\ foreign' = [foreign EXCEPT ![Current] = @ \/ i # Current]
    /\ len' = [len EXCEPT ![Current] = @ + 1]
    /\ UNCHANGED <<requestVars, stage, result, daemon, taken, died, reply, fileVars, streamVars,
                   complete, open>>

\* io.CopyN takes as many bytes as the header says, whichever they are.
Copy ==
    /\ open
    /\ stage = "reading"
    /\ len[Current] < announced[Current]
    /\ \E i \in Items :
        /\ IsNext(i)
        /\ wire' = [wire EXCEPT ![i] = @ - 1]
        /\ foreign' = [foreign EXCEPT ![Current] = @ \/ i # Current]
    /\ len' = [len EXCEPT ![Current] = @ + 1]
    /\ UNCHANGED <<requestVars, stage, result, daemon, taken, died, reply, fileVars, streamVars,
                   complete, open>>

CloseFile ==
    /\ open
    /\ stage = "reading"
    /\ len[Current] >= announced[Current]
    /\ open' = FALSE
    /\ complete' = complete + 1
    /\ UNCHANGED <<requestVars, stage, result, daemon, taken, died, reply, fileVars, streamVars,
                   wire, len, foreign>>

\* Mutant: a file that ends early is left as it is.
LeavePartial ==
    /\ open
    /\ stage = "reading"
    /\ Return("error")
    /\ UNCHANGED <<requestVars, daemon, taken, died, reply, fileVars, streamVars, wire, savedVars>>

\* The partial file is removed, the earlier ones stay.  Text that was written is not
\* taken back.
LeaveFile ==
    /\ open
    /\ stage = "reading"
    /\ open' = (kind = "text")
    /\ Return("error")
    /\ UNCHANGED <<requestVars, daemon, taken, died, reply, fileVars, streamVars, wire, complete,
                   len, foreign>>

\* What the copy writes to fails, at any time.
CopyFails == LeaveFile

\* io.CopyN has no deadline: only the end of the stream ends a copy that waits.
CopyEnds == LeaveFile /\ len[Current] < announced[Current] /\ Nothing /\ daemon = "closed"

Received ==
    /\ stage = "reading"
    /\ complete = Count
    /\ Return("ok")
    /\ UNCHANGED <<requestVars, daemon, taken, died, reply, fileVars, streamVars, wire, savedVars>>

-----------------------------------------------------------------------------
(* The daemon: RequestReader and the reply *)

\* responseForError, for a request that cannot be read.
Reject == daemon' = "closing" /\ reply' = "error" /\ UNCHANGED taken
Take == daemon' = "taken" /\ taken' = TRUE /\ UNCHANGED reply

\* Mutant: the limit is checked for each chunk by itself.
ReadChunkAlone(n) ==
    /\ daemon = "reading"
    /\ n <= sent - arrived
    /\ arrived' = arrived + n
    /\ LET bytes == IF arrived' = length + 1 THEN n - 1 ELSE n
       IN  \/ bytes > Limit /\ Reject
           \/ bytes <= Limit /\ arrived' = length + 1 /\ Take
           \/ bytes <= Limit /\ arrived' <= length /\ UNCHANGED <<daemon, reply, taken>>
    /\ UNCHANGED <<mode, length, sent, stage, result, died, fileVars, streamVars, wire, savedVars>>

\* appendFrameBytes refuses what exceeds the limit with the bytes before it; the
\* newline, which is not one of them, ends the frame.
ReadChunk(n) ==
    /\ daemon = "reading"
    /\ n <= sent - arrived
    /\ arrived' = arrived + n
    /\ LET frame == IF arrived' = length + 1 THEN length ELSE arrived'
       IN  \/ frame > Limit /\ Reject
           \/ frame <= Limit /\ arrived' = length + 1 /\ Take
           \/ frame <= Limit /\ arrived' <= length /\ UNCHANGED <<daemon, reply, taken>>
    /\ UNCHANGED <<mode, length, sent, stage, result, died, fileVars, streamVars, wire, savedVars>>

\* The client's end closes: what came is decoded, a whole frame without newline too.
ReadClosed ==
    /\ daemon = "reading"
    /\ ClientClosed /\ sent = arrived
    /\ \/ arrived = 0 /\ daemon' = "closing" /\ UNCHANGED <<reply, taken>>
       \/ arrived = length /\ Take
       \/ arrived \notin {0, length} /\ Reject
    /\ UNCHANGED <<requestVars, stage, result, died, fileVars, streamVars, wire, savedVars>>

\* The command answers as its mode says; errorReply is a frame or a header.
Dispatch ==
    /\ daemon = "taken"
    /\ mode # "stream"
    /\ \/ mode = "none" /\ daemon' = "closing" /\ UNCHANGED reply
       \/ mode = "frame" /\ daemon' = "closing" /\ reply' \in {"ok", "error"}
       \/ mode = "hold" /\ daemon' = "holding" /\ reply' = "ok"
       \/ mode = "hold" /\ daemon' = "closing" /\ reply' = "error"
    /\ UNCHANGED <<requestVars, stage, result, taken, died, fileVars, streamVars, wire, savedVars>>

\* readSystemPasteboardContent: the sizes are read and sent before any file is.
Paste ==
    /\ daemon = "taken"
    /\ mode = "stream"
    /\ daemon' = "streaming"
    /\ reply' = "ok"
    /\ kind' \in {"text", "files"}
    /\ announced' = size
    /\ changed' = {}
    /\ UNCHANGED <<requestVars, stage, result, taken, died, size, changes, from, offset, wire,
                   savedVars>>

PasteFails ==
    /\ daemon = "taken"
    /\ mode = "stream"
    /\ daemon' = "closing"
    /\ reply' \in {"error", "empty"}
    /\ UNCHANGED <<requestVars, stage, result, taken, died, fileVars, streamVars, wire, savedVars>>

\* sendFile and sendData: a byte that the file has now.
StreamByte ==
    /\ daemon = "streaming"
    /\ from <= Count
    /\ offset < size[from]
    /\ ~Full /\ ~ClientClosed
    /\ offset' = offset + 1
    /\ wire' = [wire EXCEPT ![from] = @ + 1]
    /\ UNCHANGED <<requestVars, stage, result, daemon, taken, died, reply, fileVars, kind,
                   announced, from, savedVars>>

\* Mutant: the next file is read from where this one ended.
StreamNextOffset ==
    /\ daemon = "streaming"
    /\ from <= Count
    /\ offset >= size[from]
    /\ from' = from + 1
    /\ UNCHANGED <<requestVars, stage, result, daemon, taken, died, reply, fileVars, kind,
                   announced, offset, wire, savedVars>>

\* The end of the file as it is now.
StreamNext ==
    /\ daemon = "streaming"
    /\ from <= Count
    /\ offset >= size[from]
    /\ from' = from + 1
    /\ offset' = 0
    /\ UNCHANGED <<requestVars, stage, result, daemon, taken, died, reply, fileVars, kind,
                   announced, wire, savedVars>>

Streamed ==
    /\ daemon = "streaming"
    /\ from > Count
    /\ daemon' = "closing"
    /\ UNCHANGED <<requestVars, stage, result, taken, died, reply, fileVars, streamVars, wire,
                   savedVars>>

\* The stream is given up, and its connection closed.
StreamCloses ==
    /\ daemon = "streaming"
    /\ from <= Count
    /\ daemon' = "closed"
    /\ UNCHANGED <<requestVars, stage, result, taken, died, reply, fileVars, streamVars, wire,
                   savedVars>>

\* sendFile: the file cannot be opened or read.
ReadFails == StreamCloses /\ kind = "files"

\* Mutant: a write waits for as long as the client is there.
WriteFailsOnly == StreamCloses /\ offset < size[from] /\ ClientClosed

\* A write fails, as the client is gone, or it waits for the client and is ended by
\* withWriteIdleTimeout.
WriteFails == StreamCloses /\ offset < size[from] /\ (ClientClosed \/ Full)

\* closeOutput; or a hold whose client closed.
CloseOutput ==
    /\ daemon = "closing" \/ (daemon = "holding" /\ ClientClosed)
    /\ daemon' = "closed"
    /\ UNCHANGED <<requestVars, stage, result, taken, died, reply, fileVars, streamVars, wire,
                   savedVars>>

Die ==
    /\ daemon # "closed"
    /\ daemon' = "closed"
    /\ died' = TRUE
    /\ UNCHANGED <<requestVars, stage, result, taken, reply, fileVars, streamVars, wire, savedVars>>

\* Another program writes one of the files; text is a copy in memory.
FileChanges ==
    /\ daemon = "streaming"
    /\ kind = "files"
    /\ changes < MaxChanges
    /\ \E i \in Items, n \in 0..MaxSize :
        /\ n # size[i]
        /\ size' = [size EXCEPT ![i] = n]
        /\ changed' = changed \cup {i}
    /\ changes' = changes + 1
    /\ UNCHANGED <<requestVars, stage, result, daemon, taken, died, reply, streamVars, wire,
                   savedVars>>

-----------------------------------------------------------------------------
ClientStep == \/ Refuse \/ Dial \/ Send \/ SendFails \/ ReadReply \/ ReadData \/ ReadEnd
              \/ OpenFile \/ Copy \/ CloseFile \/ CopyEnds \/ Received
ClientFails == OpenFails \/ CopyFails
DaemonStep == \/ ReadClosed \/ Dispatch \/ Paste \/ PasteFails \/ StreamByte \/ StreamNext
              \/ Streamed \/ WriteFails \/ CloseOutput
              \/ \E n \in 1..Limit + 2 : ReadChunk(n)

Next == \/ ClientStep \/ ClientFails \/ CloseHold \/ Kill
        \/ DaemonStep \/ ReadFails \/ Die \/ FileChanges

Spec == Init /\ [][Next]_vars

\* The handler runs.  The client need not: it may stop reading at any time.
FairSpec == Spec /\ WF_vars(DaemonStep)

\* The client runs.  No failure of its own, which may never come, is counted on, and a
\* lease may be held for ever.
ClientRuns == WF_vars(ClientStep)

-----------------------------------------------------------------------------
(* Properties *)

\* A request is dispatched only whole and within the frame limit, and a whole request
\* within the limit is never refused, into whichever chunks it was split.
TakenWhole ==
    /\ taken => arrived >= length /\ length <= Limit
    /\ reply = "error" /\ ~taken /\ stage # "killed" => length > Limit

\* A call that succeeds was dispatched: the one exception is a request without
\* reply whose daemon ended, which looks like one that was taken.
OkMeansTaken == result = "ok" => taken \/ (mode = "none" /\ died)

\* What the client wrote to a file is that file, of the announced size, as long as
\* neither it nor a file before it changed after the header was sent.
PasteExact ==
    \A i \in 1..complete :
        (\A j \in 1..i : j \notin changed) => len[i] = announced[i] /\ ~foreign[i]

\* A paste that is over leaves whole files only, the first of the listing; one that
\* succeeds leaves all of them.
NoPartialFile ==
    /\ stage = "done" /\ kind = "files" => ~open
    /\ \A i \in 1..complete : len[i] = announced[i]
    /\ mode = "stream" /\ result = "ok" => complete = Count

\* A paste that succeeds while nobody writes its files has delivered each of them as
\* the Mac has it, and no byte of them is left in the connection.
PasteDelivers ==
    mode = "stream" /\ result = "ok" /\ changed = {} =>
        \A i \in 1..Count : len[i] = size[i] /\ ~foreign[i] /\ wire[i] = 0

\* No file changed that is listed before file i, nor file i.
Clean(i) == \A j \in 1..i : j \notin changed

\* The bytes of file i that the handler has yet to stream, if it keeps its size.
Rest(i) == IF from < i THEN announced[i] ELSE IF from = i THEN announced[i] - offset ELSE 0

\* No byte of file i is lost, and none in the place of another file's.
Conserved(i) ==
    /\ ~foreign[i]
    /\ size[i] = announced[i]
    /\ from = i => offset <= announced[i]
    /\ len[i] + wire[i] + Rest(i) = announced[i]

\* Where the client and the handler can be, of one another.
PhaseInv ==
    /\ arrived <= sent
    /\ stage = "start" => sent = 0
    /\ stage = "sending" => sent <= length
    /\ stage = "done" /\ daemon = "reading" => sent = 0
    /\ daemon = "reading" => ~taken /\ arrived <= length /\ arrived <= Limit
    /\ daemon \in {"taken", "streaming", "holding"} => taken
    /\ daemon \in {"reading", "taken"} => reply = "none" /\ kind = "none"
    /\ daemon = "streaming" => kind # "none"
    /\ daemon \in {"closing", "closed"} => taken \/ died \/ reply = "error" \/ ClientClosed
    /\ reply = "ok" => taken
    /\ mode = "stream" /\ reply = "ok" => kind # "none"
    /\ stage = "held" => mode = "hold" /\ taken
    /\ stage = "reading" => mode = "stream" /\ taken /\ kind # "none"

\* The files of the client and the bytes on the way.
StreamInv ==
    /\ kind = "none" => ~open /\ complete = 0 /\ from = 1 /\ offset = 0
    /\ kind = "none" => \A i \in Items : len[i] = 0 /\ wire[i] = 0 /\ ~foreign[i]
    /\ mode = "stream" /\ result = "ok" => kind # "none" /\ stage = "done"
    /\ complete <= Count
    /\ open => /\ complete < Count
               /\ stage = "reading" \/ stage = "killed" \/ (stage = "done" /\ kind = "text")
    /\ \A i \in Items : len[i] <= announced[i]
    /\ \A i \in Items : i > from => wire[i] = 0

ConserveInv == kind # "none" => \A i \in Items : Clean(i) => Conserved(i)

\* What the client, and the handler, can go on with.
ClientReady ==
    \/ stage = "waiting" /\ (reply # "none" \/ daemon = "closed")
    \/ stage = "reading" /\ (open /\ len[Current] < announced[Current] => ~Nothing \/ daemon = "closed")
DaemonReady == (daemon = "reading" /\ arrived < sent) \/ daemon \in {"taken", "streaming", "closing"}

\* A client that waits for its reply or for bytes, and the handler of its connection,
\* never wait for one another, in any mode and whoever failed.
NotBothWaiting == stage \in {"waiting", "reading"} => ClientReady \/ DaemonReady

\* What a client that waits has sent, when a request is taken, and what a handler
\* that holds has answered.
AnswerInv ==
    /\ stage \in {"waiting", "held", "reading"} => sent = length + 1
    /\ taken => stage \notin {"start", "sending"}
    /\ daemon = "holding" => mode = "hold" /\ (stage = "waiting" => reply = "ok")

\* TypeOK, the safety properties and what makes them inductive.
CopyInv ==
    /\ TypeOK
    /\ TakenWhole
    /\ OkMeansTaken
    /\ NoPartialFile
    /\ PhaseInv
    /\ StreamInv
    /\ ConserveInv

CallInv == CopyInv /\ AnswerInv /\ NotBothWaiting

\* A handler that took a request closes its connection or holds its lease, also if the
\* client stops reading; and a call that was made returns or holds its lease if the
\* client runs, whoever ends first and with no failure to free it from a wait.
CallEnds ==
    /\ daemon \in {"taken", "streaming", "closing"} ~> daemon \in {"closed", "holding"}
    /\ ClientRuns => (stage = "start" ~> stage \in {"done", "killed", "held"})
=============================================================================
