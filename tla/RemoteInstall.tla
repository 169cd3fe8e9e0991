----------------------------- MODULE RemoteInstall -----------------------------
(***************************************************************************)
(* How gty ssh and gty herdr attach come by a gty of their own version on  *)
(* the remote host (bootstrap.go): they look for one, get a binary for the *)
(* host, copy it there and look again.                                     *)
(*                                                                         *)
(* Several sessions install at one path of one host.  The copy is made by  *)
(* a shell script on the host, a process of its own: it reads the binary   *)
(* until its input ends, whether the client sent all of it or went away.   *)
(***************************************************************************)
EXTENDS Naturals

CONSTANTS
    Sessions,   \* clients of one remote account
    Attaches,   \* those that are gty herdr attach
    Versions,   \* what "gty version" may print
    Version,    \* the version of each session's client
    Nothing,    \* no gty there
    Broken,     \* a gty that is not whole: it does not run
    AtFirst     \* what the host's two paths may hold at first

ASSUME InstallAssumption ==
    /\ Attaches \subseteq Sessions
    /\ Version \in [Sessions -> Versions]
    /\ Nothing \notin Versions /\ Broken \notin Versions /\ Nothing # Broken
    /\ AtFirst \subseteq Versions \cup {Nothing}

VARIABLES
    onPath,     \* the host owner's gty, found on PATH
    managed,    \* the gty at the bootstrap install path
    step,       \* where each client stands in ensureRemoteGTY
    chosen,     \* the remote gty it was given
    payload,    \* the version of the binary it copies
    temps,      \* its files in the local temporary directory
    upload      \* its managedInstallScript on the host

installVars == <<onPath, managed, step, chosen, payload, temps, upload>>

Building == {"building", "downloading", "extracting", "open", "uploading"}
InstallSteps == {"find", "target", "verify", "ready", "failed", "killed"} \cup Building
UploadStates == {"none", "writing", "whole", "part", "installed", "truncated", "gone"}

InstallTypeOK ==
    /\ onPath \in Versions \cup {Nothing}
    /\ managed \in Versions \cup {Nothing, Broken}
    /\ step \in [Sessions -> InstallSteps]
    /\ chosen \in [Sessions -> {"none", "path", "managed"}]
    /\ payload \in [Sessions -> Versions \cup {Nothing}]
    /\ temps \in [Sessions -> SUBSET {"archive", "binary"}]
    /\ upload \in [Sessions -> UploadStates]

InstallInit ==
    /\ onPath \in AtFirst
    /\ managed \in AtFirst
    /\ step = [s \in Sessions |-> "find"]
    /\ chosen = [s \in Sessions |-> "none"]
    /\ payload = [s \in Sessions |-> Nothing]
    /\ temps = [s \in Sessions |-> {}]
    /\ upload = [s \in Sessions |-> "none"]

GoStep(s, place) == step' = [step EXCEPT ![s] = place]
SetTemps(s, files) == temps' = [temps EXCEPT ![s] = files]

-----------------------------------------------------------------------------
(* Looking for a remote gty *)

\* An attach takes only the managed path, which Herdr's keybindings name.
Usable(s) ==
    CASE s \notin Attaches /\ onPath = Version[s] -> "path"
      [] managed = Version[s] -> "managed"
      [] OTHER -> "none"

\* ensureRemoteGTY and ensureManagedRemoteGTY; --debug-no-bootstrap ends here.
Find(s) ==
    /\ step[s] = "find"
    /\ chosen' = [chosen EXCEPT ![s] = Usable(s)]
    /\ IF Usable(s) # "none" THEN GoStep(s, "ready") ELSE GoStep(s, "target") \/ GoStep(s, "failed")
    /\ UNCHANGED <<onPath, managed, payload, temps, upload>>

\* captureSSH fails, or its output makes no sense.
RemoteCallFails(s) ==
    /\ step[s] \in {"find", "target", "verify"}
    /\ GoStep(s, "failed")
    /\ UNCHANGED <<onPath, managed, chosen, payload, temps, upload>>

-----------------------------------------------------------------------------
(* A binary for the host: BootstrapSource.BinaryFor *)

\* The host is of this client's kind: it copies its own executable.
UseOwn(s) ==
    /\ step[s] = "target"
    /\ payload' = [payload EXCEPT ![s] = Version[s]]
    /\ GoStep(s, "open")
    /\ UNCHANGED <<onPath, managed, chosen, temps, upload>>

\* A build from the source checkout, or a download, into a temporary file.
BeginBuild(s) ==
    /\ step[s] = "target"
    /\ \/ GoStep(s, "building") /\ SetTemps(s, {"binary"})
       \/ GoStep(s, "downloading") /\ SetTemps(s, {"archive"})
    /\ UNCHANGED <<onPath, managed, chosen, payload, upload>>

\* The checkout may have moved on: its build is of any version.
Built(s) ==
    /\ step[s] = "building"
    /\ \E v \in Versions : payload' = [payload EXCEPT ![s] = v]
    /\ GoStep(s, "open")
    /\ UNCHANGED <<onPath, managed, chosen, temps, upload>>

Downloaded(s) ==
    /\ step[s] = "downloading"
    /\ GoStep(s, "extracting")
    /\ SetTemps(s, {"archive", "binary"})
    /\ UNCHANGED <<onPath, managed, chosen, payload, upload>>

\* extractGTY returns the binary, and BinaryFor drops the archive.
Extracted(s) ==
    /\ step[s] = "extracting"
    /\ payload' = [payload EXCEPT ![s] = Version[s]]
    /\ SetTemps(s, {"binary"})
    /\ GoStep(s, "open")
    /\ UNCHANGED <<onPath, managed, chosen, upload>>

\* No source for this host, a failed build, download or extraction: BinaryFor
\* removes what it made.
BuildFails(s) ==
    /\ step[s] \in {"target", "building", "downloading", "extracting"}
    /\ SetTemps(s, {})
    /\ GoStep(s, "failed")
    /\ UNCHANGED <<onPath, managed, chosen, payload, upload>>

-----------------------------------------------------------------------------
(* The copy *)

\* Mutant: the script writes to the install path itself.
BeginUploadInPlace(s) ==
    /\ step[s] = "open"
    /\ upload' = [upload EXCEPT ![s] = "writing"]
    /\ managed' = Broken
    /\ GoStep(s, "uploading")
    /\ UNCHANGED <<onPath, chosen, payload, temps>>

\* bootstrapRemoteGTY starts ssh with the binary as its input; the script reads
\* it into a temporary sibling of the install path.
BeginUpload(s) ==
    /\ step[s] = "open"
    /\ upload' = [upload EXCEPT ![s] = "writing"]
    /\ GoStep(s, "uploading")
    /\ UNCHANGED <<onPath, managed, chosen, payload, temps>>

\* The script's cat has read all of the binary.  A client killed by itself leaves
\* an ssh that finishes the copy.
CatEnds(s) ==
    /\ upload[s] = "writing"
    /\ upload' = [upload EXCEPT ![s] = "whole"]
    /\ UNCHANGED <<onPath, managed, step, chosen, payload, temps>>

\* The connection went away: cat's input ends, which is not an error for it.
CatCut(s) ==
    /\ upload[s] = "writing"
    /\ step[s] # "uploading"
    /\ upload' = [upload EXCEPT ![s] = "part"]
    /\ UNCHANGED <<onPath, managed, step, chosen, payload, temps>>

\* A command of the script fails, or a signal ends it: the trap removes the file.
ScriptFails(s) ==
    /\ upload[s] \in {"writing", "whole", "part"}
    /\ upload' = [upload EXCEPT ![s] = "gone"]
    /\ UNCHANGED <<onPath, managed, step, chosen, payload, temps>>

\* chmod and mv: the rename replaces whatever the path held.
Rename(s) ==
    /\ upload[s] \in {"whole", "part"}
    /\ IF upload[s] = "whole"
       THEN managed' = payload[s] /\ upload' = [upload EXCEPT ![s] = "installed"]
       ELSE managed' = Broken /\ upload' = [upload EXCEPT ![s] = "truncated"]
    /\ UNCHANGED <<onPath, step, chosen, payload, temps>>

\* Mutant: a copy that succeeded is taken for a gty of this version.
UploadTrusted(s) ==
    /\ step[s] \in {"open", "uploading"}
    /\ SetTemps(s, {})
    /\ IF upload[s] = "installed"
       THEN GoStep(s, "ready") /\ chosen' = [chosen EXCEPT ![s] = "managed"]
       ELSE GoStep(s, "failed") /\ UNCHANGED chosen
    /\ UNCHANGED <<onPath, managed, payload, upload>>

\* The script's end is reported; or the connection or the script failed, or ssh
\* did not start.  Whichever way bootstrapRemoteGTY returns, cleanup runs.
UploadReturns(s) ==
    /\ step[s] \in {"open", "uploading"}
    /\ SetTemps(s, {})
    /\ \/ upload[s] = "installed" /\ GoStep(s, "verify")
       \/ GoStep(s, "failed")
    /\ UNCHANGED <<onPath, managed, chosen, payload, upload>>

\* installManagedRemoteGTY looks at what is there now.
Verify(s) ==
    /\ step[s] = "verify"
    /\ IF managed = Version[s]
       THEN GoStep(s, "ready") /\ chosen' = [chosen EXCEPT ![s] = "managed"]
       ELSE GoStep(s, "failed") /\ UNCHANGED chosen
    /\ UNCHANGED <<onPath, managed, payload, temps, upload>>

\* The client is killed while it prepares: no cleanup runs.
InstallKilled(s) ==
    /\ step[s] \notin {"ready", "failed", "killed"}
    /\ GoStep(s, "killed")
    /\ UNCHANGED <<onPath, managed, chosen, payload, temps, upload>>

-----------------------------------------------------------------------------
ClientSteps(s) ==
    \/ Find(s) \/ RemoteCallFails(s)
    \/ UseOwn(s) \/ BeginBuild(s) \/ Built(s) \/ Downloaded(s) \/ Extracted(s) \/ BuildFails(s)
    \/ BeginUpload(s) \/ UploadReturns(s) \/ Verify(s)

ScriptSteps(s) == CatEnds(s) \/ CatCut(s) \/ ScriptFails(s) \/ Rename(s)

InstallNext(s) == ClientSteps(s) \/ ScriptSteps(s) \/ InstallKilled(s)

-----------------------------------------------------------------------------
(* Properties *)

\* Concurrent installs never mix at the install path: what does not run there is
\* the one copy that was cut off, renamed into place by a script that did not know.
WholeUnlessCut == managed = Broken => \E s \in Sessions : upload[s] = "truncated"

\* A session that was given the managed gty finds its own version there, until
\* another session puts something else in its place.
ReadyHolds ==
    \A s \in Sessions :
        step[s] = "ready" /\ chosen[s] = "managed" /\ managed # Version[s] =>
            \E t \in Sessions \ {s} :
                upload[t] = "truncated" \/ (upload[t] = "installed" /\ payload[t] # Version[s])

\* Archive and binary are gone once a client is done preparing, whichever step
\* failed, unless it was killed.
NoTempLeft == \A s \in Sessions : temps[s] # {} => step[s] \in Building \cup {"killed"}

\* What makes the three inductive.
InstallInv ==
    /\ InstallTypeOK
    /\ WholeUnlessCut
    /\ ReadyHolds
    /\ NoTempLeft
    /\ \A s \in Sessions :
        /\ step[s] = "verify" => upload[s] = "installed"
        /\ step[s] = "ready" => upload[s] \in {"none", "installed"}
        /\ step[s] = "ready" => chosen[s] # "none"
        /\ upload[s] # "none" => payload[s] \in Versions
        /\ step[s] \in {"open", "uploading"} => payload[s] \in Versions
        /\ step[s] \in {"find", "target", "building", "downloading", "extracting", "open"} =>
               upload[s] = "none"
        /\ upload[s] \in {"part", "truncated"} => step[s] \in {"failed", "killed"}
=============================================================================
