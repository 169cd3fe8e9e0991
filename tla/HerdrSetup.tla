------------------------------ MODULE HerdrSetup ------------------------------
(***************************************************************************)
(* gty herdr setup on a host (herdr/setup.go, runHerdrSetup): each gty     *)
(* herdr attach runs it, so that several may run at once, beside the       *)
(* Herdr servers that read the config and the user who edits it.           *)
(*                                                                         *)
(* Of the config only what the four navigation bindings depend on is kept: *)
(* how many times it holds them, and whether anything else in it keeps     *)
(* Herdr from running them.                                                *)
(***************************************************************************)
EXTENDS Naturals

CONSTANTS
    Setups,         \* the runs of gty herdr setup
    Servers,        \* the Herdr servers of the host
    DuplicatesRun,  \* whether Herdr runs a binding that is there twice
    MaxChanges      \* how often the user changes something

ASSUME SetupAssumption == DuplicatesRun \in BOOLEAN /\ MaxChanges \in Nat

VARIABLES
    copies,     \* how many times the config holds the bindings
    spoiled,    \* whether a key is bound otherwise, or Herdr ignores the config
    changes,    \* how often the user changed something
    setup,      \* where each setup stands
    since,      \* the servers that have run since it read the config
    toReload,   \* the sessions it has yet to reload
    overtaken,  \* the setups after whose reading another wrote the config
    running,    \* the servers that herdr session list reports as running
    starting,   \* those that have read the config and are not up yet
    loaded      \* whether the config a server read runs the bindings

configVars == <<copies, spoiled, changes>>
setupVars == <<setup, toReload>>
serverVars == <<running, starting, loaded>>
herdrVars == <<configVars, setupVars, since, overtaken, serverVars>>

SetupSteps == {"start", "checked", "written", "reloading", "ok", "failed"}

SetupTypeOK ==
    /\ copies \in Nat
    /\ spoiled \in BOOLEAN
    /\ changes \in 0..MaxChanges
    /\ setup \in [Setups -> SetupSteps]
    /\ since \in [Setups -> SUBSET Servers]
    /\ toReload \in [Setups -> SUBSET Servers]
    /\ overtaken \subseteq Setups
    /\ running \subseteq Servers
    /\ starting \subseteq Servers
    /\ loaded \in [Servers -> BOOLEAN]

\* herdr config check: the keys run, and once each.
Runs(n, bad) == ~bad /\ (n = 1 \/ (n > 1 /\ DuplicatesRun))

SetupInit ==
    /\ copies = 0
    /\ spoiled \in BOOLEAN
    /\ changes = 0
    /\ setup = [s \in Setups |-> "start"]
    /\ since = [s \in Setups |-> {}]
    /\ toReload = [s \in Setups |-> {}]
    /\ overtaken = {}
    /\ running = {}
    /\ starting = {}
    /\ loaded = [v \in Servers |-> FALSE]

SetupGo(s, next) == setup' = [setup EXCEPT ![s] = next]

\* Every other setup that has read the config knows an older one.
Overtake(s) == overtaken' = overtaken \cup {t \in Setups \ {s} : setup[t] # "start"}

-----------------------------------------------------------------------------
(* EnsureBindings and the reloads *)

\* Mutant: a config that lacks nothing needs no reload.
ReadConfigEnds(s) ==
    /\ setup[s] = "start"
    /\ \/ copies = 0 /\ Runs(1, spoiled) /\ SetupGo(s, "checked")
       \/ copies > 0 /\ Runs(copies, spoiled) /\ SetupGo(s, "ok")
       \/ ~Runs(IF copies = 0 THEN 1 ELSE copies, spoiled) /\ SetupGo(s, "failed")
    /\ since' = [since EXCEPT ![s] = running]
    /\ UNCHANGED <<configVars, toReload, overtaken, serverVars>>

\* missingBindings and checkBindings: Herdr judges the config as it was read, with what
\* it lacks; one that lacks nothing is not written.
ReadConfig(s) ==
    /\ setup[s] = "start"
    /\ \/ copies = 0 /\ Runs(1, spoiled) /\ SetupGo(s, "checked")
       \/ copies > 0 /\ Runs(copies, spoiled) /\ SetupGo(s, "written")
       \/ ~Runs(IF copies = 0 THEN 1 ELSE copies, spoiled) /\ SetupGo(s, "failed")
    /\ since' = [since EXCEPT ![s] = running]
    /\ UNCHANGED <<configVars, toReload, overtaken, serverVars>>

\* The addition is appended to the config as it is now.
AppendBindings(s) ==
    /\ setup[s] = "checked"
    /\ SetupGo(s, "written")
    /\ copies' = copies + 1
    /\ Overtake(s)
    /\ UNCHANGED <<spoiled, changes, since, toReload, serverVars>>

\* The disk is full: a part of the addition may be in the config.
AppendFails(s) ==
    /\ setup[s] = "checked"
    /\ SetupGo(s, "failed")
    /\ spoiled' = TRUE
    /\ Overtake(s)
    /\ UNCHANGED <<copies, changes, since, toReload, serverVars>>

ListSessions(s) ==
    /\ setup[s] = "written"
    /\ SetupGo(s, "reloading")
    /\ toReload' = [toReload EXCEPT ![s] = running]
    /\ UNCHANGED <<configVars, since, overtaken, serverVars>>

Reload(s, v) ==
    /\ setup[s] = "reloading"
    /\ v \in toReload[s] \cap running
    /\ toReload' = [toReload EXCEPT ![s] = @ \ {v}]
    /\ loaded' = [loaded EXCEPT ![v] = Runs(copies, spoiled)]
    /\ UNCHANGED <<configVars, setup, since, overtaken, running, starting>>

\* A call of the config's file, or of herdr, fails: a session that ended is one.
SetupFails(s) ==
    /\ setup[s] \notin {"start", "ok", "failed"}
    /\ SetupGo(s, "failed")
    /\ UNCHANGED <<configVars, since, toReload, overtaken, serverVars>>

SetupEnds(s) ==
    /\ setup[s] = "reloading"
    /\ toReload[s] = {}
    /\ SetupGo(s, "ok")
    /\ UNCHANGED <<configVars, since, toReload, overtaken, serverVars>>

-----------------------------------------------------------------------------
(* The servers and the user *)

ServerReads(v) ==
    /\ v \notin running \cup starting
    /\ starting' = starting \cup {v}
    /\ loaded' = [loaded EXCEPT ![v] = Runs(copies, spoiled)]
    /\ UNCHANGED <<configVars, setupVars, since, overtaken, running>>

ServerUp(v) ==
    /\ v \in starting
    /\ starting' = starting \ {v}
    /\ running' = running \cup {v}
    /\ UNCHANGED <<configVars, setupVars, since, overtaken, loaded>>

ServerStops(v) ==
    /\ v \in running
    /\ running' = running \ {v}
    /\ since' = [s \in Setups |-> since[s] \ {v}]
    /\ UNCHANGED <<configVars, setupVars, overtaken, starting, loaded>>

UserEdits ==
    /\ changes < MaxChanges
    /\ changes' = changes + 1
    /\ copies' \in {0, 1}
    /\ spoiled' \in BOOLEAN
    /\ overtaken' = overtaken \cup {t \in Setups : setup[t] # "start"}
    /\ UNCHANGED <<setupVars, since, serverVars>>

SetupStep(s) ==
    \/ ReadConfig(s) \/ AppendBindings(s) \/ AppendFails(s)
    \/ ListSessions(s) \/ SetupFails(s) \/ SetupEnds(s)
    \/ \E v \in Servers : Reload(s, v)

-----------------------------------------------------------------------------
(* Properties *)

\* When a setup has succeeded and nobody else wrote the config since it read it, then
\* every server that has run since has loaded the bindings, whether the setup added
\* them or found them there.
SetupReachesServers ==
    \A s \in Setups : setup[s] = "ok" /\ s \notin overtaken => \A v \in since[s] : loaded[v]

\* What makes it inductive: a setup that nobody overtook knows the config.
SetupInv ==
    /\ SetupTypeOK
    /\ SetupReachesServers
    /\ running \cap starting = {}
    /\ \A s \in Setups :
        /\ since[s] \subseteq running
        /\ s \notin overtaken =>
            /\ setup[s] = "checked" => copies = 0 /\ ~spoiled
            /\ setup[s] \in {"written", "reloading", "ok"} => Runs(copies, spoiled)
            /\ setup[s] = "reloading" => \A v \in since[s] \ toReload[s] : loaded[v]
=============================================================================
