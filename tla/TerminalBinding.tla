--------------------------- MODULE TerminalBinding ---------------------------
(***************************************************************************)
(* How a ghosttykitd command finds the terminal it acts on: the binding    *)
(* cache (Cache.swift), boundTerminal (CommandContext.swift), the scan of  *)
(* Ghostty's windows and tabs and the check of a cached binding            *)
(* (GhosttyControl.swift), and the commands that use the result or write   *)
(* the cache themselves: split, terminal-id refresh, clear-cache.          *)
(*                                                                         *)
(* Every Apple Event is a step of its own, so the user may close, open or  *)
(* move terminals between any two.  Acknowledged commands run one at a     *)
(* time on commandQueue; a command with ack = false runs in a task next to *)
(* them.  A window and its tab are one place; places are listed in order,  *)
(* those that hold no terminal left out, as Ghostty's indexes count them.  *)
(***************************************************************************)
EXTENDS Naturals, FiniteSets, SequencesExt

CONSTANTS Terminals,   \* Ghostty terminal ids; an id names one terminal for ever
          TTYs,        \* ptys, reused once the terminal on them is closed
          Places,      \* window -> tab paths, numbered in Ghostty's order
          Commands,    \* command requests the daemon may receive
          Requests,    \* what they may ask: a kind, whether it is acknowledged, a tty
          MaxChanges,  \* how often the user opens, closes or moves a terminal
          NoTTY,       \* the tty of a terminal that was not opened yet
          NoTerm,      \* no terminal
          NoCommand    \* commandQueue is free

\* act: one Apple Event to the terminal (input, focus, zoom, key table, ...).
\* terminal-id is always answered, the others when their ack is true.
Kinds == {"act", "split", "refresh", "clear", "clear-all"}
RequestType ==
    {r \in [kind : Kinds, ack : BOOLEAN, want : TTYs \cup {NoTTY}] : r.kind = "refresh" => r.ack}

ASSUME BindingAssumption ==
    /\ Requests \subseteq RequestType
    /\ Places \subseteq Nat \ {0}
    /\ IsFiniteSet(Places)
    /\ MaxChanges \in Nat
    /\ NoTTY \notin TTYs
    /\ NoTerm \notin Terminals
    /\ NoCommand \notin Commands

VARIABLES
    layout,   \* Ghostty: the terminals of each place, in order
    ttyOf,    \* Ghostty: the pty a terminal runs on, for its whole life
    changes,  \* the changes the user made so far
    cache,    \* TerminalIDCache.entries
    queue,    \* the acknowledged command that runs on commandQueue
    pc,       \* where each command stands
    req,      \* what each command asks
    scan,     \* a scan's counters and whether Ghostty changed under it
    found,    \* the binding the command resolved
    via,      \* whether it came from the cache or from a scan
    acted,    \* the terminal Ghostty performed the command on
    made,     \* the terminal a split made
    result    \* how the command ended

world == <<layout, ttyOf, changes>>
vars == <<world, cache, queue, pc, req, scan, found, via, acted, made, result>>

Scanning == {"ttys", "ids", "path"}
Stages ==
    {"queued", "clear", "lookup", "verify", "count", "act", "focus", "store", "done"}
        \cup Scanning

Binding == [term : Terminals, place : Places]
NoBinding == [term |-> NoTerm, place |-> 0]
NoScan == [limit |-> 0, index |-> 0, slot |-> 0, disturbed |-> FALSE]

TypeOK ==
    /\ layout \in [Places -> Seq(Terminals)]
    /\ ttyOf \in [Terminals -> TTYs \cup {NoTTY}]
    /\ changes \in 0..MaxChanges
    /\ cache \in [TTYs -> Binding \cup {NoBinding}]
    /\ queue \in Commands \cup {NoCommand}
    /\ pc \in [Commands -> Stages]
    /\ req \in [Commands -> RequestType]
    /\ scan \in [Commands -> [limit : Nat, index : Nat, slot : Nat, disturbed : BOOLEAN]]
    /\ found \in [Commands -> [term : Terminals \cup {NoTerm}, place : Places \cup {0}]]
    /\ via \in [Commands -> {"none", "hit", "scan"}]
    /\ acted \in [Commands -> Terminals \cup {NoTerm}]
    /\ made \in [Commands -> Terminals \cup {NoTerm}]
    /\ result \in [Commands -> {"none", "ok", "notfound", "failed"}]

-----------------------------------------------------------------------------
(* Ghostty *)

At(p) == Range(layout[p])
Open == UNION {At(p) : p \in Places}
FreeTTYs == TTYs \ {ttyOf[t] : t \in Open}
FreshTerminals == {t \in Terminals : ttyOf[t] = NoTTY}

\* The tab at an index of Ghostty's listing, if there is one: the index-th
\* place that is not empty.
Listed == {p \in Places : layout[p] # <<>>}
TabsAt(i) == {p \in Listed : Cardinality({q \in Listed : q <= p}) = i}

\* Scans that are under way see Ghostty change.
Disturb(cs) == [c \in Commands |-> IF c \in cs THEN [scan[c] EXCEPT !.disturbed = TRUE] ELSE scan[c]]
InScan == {c \in Commands : pc[c] \in Scanning}

OpenTerminal(t, p, i, tty) ==
    /\ layout' = [layout EXCEPT ![p] = InsertAt(@, i, t)]
    /\ ttyOf' = [ttyOf EXCEPT ![t] = tty]

UserChange ==
    /\ changes < MaxChanges
    /\ changes' = changes + 1
    /\ scan' = Disturb(InScan)
    /\ UNCHANGED <<cache, queue, pc, req, found, via, acted, made, result>>

\* The user opens a terminal on a free, possibly recycled, pty.
UserOpens ==
    /\ UserChange
    /\ \E t \in FreshTerminals, p \in Places, tty \in FreeTTYs :
          \E i \in 1..Len(layout[p]) + 1 : OpenTerminal(t, p, i, tty)

UserCloses ==
    /\ UserChange
    /\ \E p \in Places : \E i \in DOMAIN layout[p] :
          layout' = [layout EXCEPT ![p] = RemoveAt(@, i)]
    /\ UNCHANGED ttyOf

\* A terminal, or the tab it is alone in, goes to another window or tab.
UserMoves ==
    /\ UserChange
    /\ \E p, q \in Places : \E i \in DOMAIN layout[p] :
          /\ p # q
          /\ layout' = [layout EXCEPT ![p] = RemoveAt(@, i), ![q] = Append(@, layout[p][i])]
    /\ UNCHANGED ttyOf

-----------------------------------------------------------------------------
(* The daemon's threads *)

\* The orders in which a place can show some of these terminals.
Arrangements(S) ==
    UNION {{s \in [1..n -> S] : IsInjective(s)} : n \in 0..Cardinality(S)}

\* The daemon starts with an empty cache; Ghostty may have terminals open.
Init ==
    /\ \E opened \in SUBSET Terminals, where \in [Terminals -> Places] :
          /\ layout \in [Places -> Arrangements(opened)]
          /\ \A p \in Places : At(p) = {t \in opened : where[t] = p}
          /\ ttyOf \in [Terminals -> TTYs \cup {NoTTY}]
          /\ \A t \in Terminals : ttyOf[t] = NoTTY <=> t \notin opened
          /\ \A t, u \in opened : t # u => ttyOf[t] # ttyOf[u]
    /\ changes = 0
    /\ cache = [tty \in TTYs |-> NoBinding]
    /\ queue = NoCommand
    /\ pc = [c \in Commands |-> "queued"]
    /\ req \in [Commands -> Requests]
    /\ scan = [c \in Commands |-> NoScan]
    /\ found = [c \in Commands |-> NoBinding]
    /\ via = [c \in Commands |-> "none"]
    /\ acted = [c \in Commands |-> NoTerm]
    /\ made = [c \in Commands |-> NoTerm]
    /\ result = [c \in Commands |-> "none"]

\* The cache is a dictionary without a lock: a no-ack command writes it next to
\* another command, and either write may be lost.
CacheStages == {"clear", "lookup", "path", "store"}
Races(c) ==
    \E d \in Commands \ {c} : pc[d] \in CacheStages /\ ~(req[c].ack /\ req[d].ack)
Write(c, entries) == cache' = entries \/ (Races(c) /\ UNCHANGED cache)

want(c) == req[c].want
Goto(c, stage) == pc' = [pc EXCEPT ![c] = stage]

\* The command returns, and commandQueue.sync with it.
End(c, r) ==
    /\ Goto(c, "done")
    /\ result' = [result EXCEPT ![c] = r]
    /\ queue' = IF queue = c THEN NoCommand ELSE queue

Continue(c, stage) == Goto(c, stage) /\ UNCHANGED <<result, queue>>

\* GhosttyKitDaemon.dispatch: on commandQueue, or in a task of its own.
Start(c) ==
    /\ pc[c] = "queued"
    /\ IF req[c].ack THEN queue = NoCommand /\ queue' = c ELSE UNCHANGED queue
    /\ Goto(c, IF req[c].kind \in {"refresh", "clear", "clear-all"} THEN "clear" ELSE "lookup")
    /\ UNCHANGED <<world, cache, req, scan, found, via, acted, made, result>>

\* target(explicitTTY:callerTTY:) throws: the request names no terminal.
NamesNoTerminal(c) ==
    /\ pc[c] \in {"clear", "lookup"}
    /\ want(c) = NoTTY
    /\ req[c].kind # "clear-all"
    /\ End(c, "failed")
    /\ UNCHANGED <<world, cache, req, scan, found, via, acted, made>>

\* TerminalIDCache.clear, for one tty or for all.
Clear(c) ==
    /\ pc[c] = "clear"
    /\ IF req[c].kind = "clear-all"
       THEN Write(c, [tty \in TTYs |-> NoBinding])
       ELSE want(c) \in TTYs /\ Write(c, [cache EXCEPT ![want(c)] = NoBinding])
    /\ IF req[c].kind = "refresh" THEN Continue(c, "lookup") ELSE End(c, "ok")
    /\ UNCHANGED <<world, req, scan, found, via, acted, made>>

\* TerminalIDCache.terminal(for:): the entries past their 12 hours go first.
Lookup(c) ==
    /\ pc[c] = "lookup"
    /\ want(c) \in TTYs
    /\ \E expired \in SUBSET TTYs :
          Write(c, [tty \in TTYs |-> IF tty \in expired THEN NoBinding ELSE cache[tty]])
    /\ found' = [found EXCEPT ![c] = cache'[want(c)]]
    /\ Goto(c, IF cache'[want(c)] = NoBinding THEN "count" ELSE "verify")
    /\ UNCHANGED <<world, queue, req, scan, via, acted, made, result>>

\* The command has its terminal: terminal-id replies it, the others use it.
Resolved(c, source) ==
    /\ via' = [via EXCEPT ![c] = source]
    /\ IF req[c].kind = "refresh" THEN End(c, "ok") ELSE Continue(c, "act")

\* Mutant: isBound checks that the path resolves, not the tty it reads.
IsBoundResolves(b, tty) == b.term \in At(b.place)

\* isBound: one Apple Event reads the tty through the cached path.
IsBound(b, tty) == b.term \in At(b.place) /\ ttyOf[b.term] = tty

VerifyHit(c) ==
    /\ pc[c] = "verify"
    /\ IsBound(found[c], want(c))
    /\ Resolved(c, "hit")
    /\ UNCHANGED <<world, cache, req, scan, found, acted, made>>

VerifyMiss(c) ==
    /\ pc[c] = "verify"
    /\ ~IsBound(found[c], want(c))
    /\ Continue(c, "count")
    /\ UNCHANGED <<world, cache, req, scan, found, via, acted, made>>

\* terminalContext(forTTY:) counts the windows and tabs it will walk.
CountTabs(c) ==
    /\ pc[c] = "count"
    /\ scan' = [scan EXCEPT ![c] = [NoScan EXCEPT !.limit = Cardinality(Listed), !.index = 1]]
    /\ IF Listed = {} THEN End(c, "notfound") ELSE Continue(c, "ttys")
    /\ UNCHANGED <<world, cache, req, found, via, acted, made>>

\* Mutant: the loop stops before the last tab.
NextTabButLast(c) ==
    IF scan[c].index + 1 < scan[c].limit
    THEN /\ scan' = [scan EXCEPT ![c].index = @ + 1]
         /\ Continue(c, "ttys")
    ELSE /\ End(c, "notfound")
         /\ UNCHANGED scan

\* The tab's terminals do not match: the next tab, or none.
NextTab(c) ==
    IF scan[c].index < scan[c].limit
    THEN /\ scan' = [scan EXCEPT ![c].index = @ + 1]
         /\ Continue(c, "ttys")
    ELSE /\ End(c, "notfound")
         /\ UNCHANGED scan

\* One Apple Event reads the ttys of the terminals of the tab at the index.
ReadTTYs(c) ==
    /\ pc[c] = "ttys"
    /\ \E p \in TabsAt(scan[c].index) :
          LET hits == {i \in DOMAIN layout[p] : ttyOf[layout[p][i]] = want(c)}
          IN  IF hits = {}
              THEN NextTab(c)
              ELSE /\ \E first \in hits :
                         /\ \A i \in hits : first <= i
                         /\ scan' = [scan EXCEPT ![c].slot = first]
                   /\ Continue(c, "ids")
    /\ UNCHANGED <<world, cache, req, found, via, acted, made>>

\* The id at a slot of the tab's terminals, if the tab has that many now.
TakeID(c, slot) ==
    /\ pc[c] = "ids"
    /\ \E p \in TabsAt(scan[c].index) :
          IF slot \in DOMAIN layout[p]
          THEN /\ found' = [found EXCEPT ![c] = [term |-> layout[p][slot], place |-> 0]]
               /\ Continue(c, "path")
               /\ UNCHANGED scan
          ELSE NextTab(c) /\ UNCHANGED found
    /\ UNCHANGED <<world, cache, req, via, acted, made>>

\* Mutant: the first list's index is one off in the second.
ReadIDsOneOff(c) == TakeID(c, scan[c].slot + 1)

\* Another reads their ids; the tty's place in the first list picks the id.
ReadIDs(c) == TakeID(c, scan[c].slot)

\* The last ones read the window's and the tab's id; the binding is cached.
ReadPath(c) ==
    /\ pc[c] = "path"
    /\ \E p \in TabsAt(scan[c].index) : found' = [found EXCEPT ![c].place = p]
    /\ Write(c, [cache EXCEPT ![want(c)] = found'[c]])
    /\ Resolved(c, "scan")
    /\ UNCHANGED <<world, req, scan, acted, made>>

\* Ghostty performs the command on the terminal of that id.
Act(c) ==
    /\ pc[c] = "act"
    /\ req[c].kind = "act"
    /\ found[c].term \in Open
    /\ acted' = [acted EXCEPT ![c] = found[c].term]
    /\ \E r \in {"ok", "failed"} : End(c, r)   \* performed, but the reply timed out
    /\ UNCHANGED <<world, cache, req, scan, found, via, made>>

\* Ghostty splits the terminal: a new one next to it, on a free pty.
Split(c) ==
    /\ pc[c] = "act"
    /\ req[c].kind = "split"
    /\ \E p \in Places : \E at \in DOMAIN layout[p] :
          /\ layout[p][at] = found[c].term
          /\ \E t \in FreshTerminals, tty \in FreeTTYs, i \in {at, at + 1} :
                /\ OpenTerminal(t, p, i, tty)
                /\ made' = [made EXCEPT ![c] = t]
    /\ UNCHANGED changes
    /\ acted' = [acted EXCEPT ![c] = found[c].term]
    /\ scan' = Disturb(InScan)
    /\ Continue(c, "focus")
    /\ UNCHANGED <<cache, req, found, via>>

\* The new terminal's id and tty are read and one of the two is focused.
Focus(c) ==
    /\ pc[c] = "focus"
    /\ made[c] \in Open
    /\ \E t \in {made[c], found[c].term} : t \in Open
    /\ Continue(c, "store")
    /\ UNCHANGED <<world, cache, req, scan, found, via, acted, made>>

CacheSplit(c, tty, place) ==
    /\ Write(c, [cache EXCEPT ![tty] = [term |-> made[c], place |-> place]])
    /\ End(c, "ok")
    /\ UNCHANGED <<world, req, scan, found, via, acted, made>>

\* Mutant: the new terminal is cached under the tty the split was asked for.
StoreSplitForOrigin(c) == pc[c] = "store" /\ CacheSplit(c, want(c), found[c].place)

\* Mutant: the new terminal is cached without its window and tab.
StoreSplitNoPath(c) == pc[c] = "store" /\ CacheSplit(c, ttyOf[made[c]], 0)

\* SplitRequest.reply caches the new terminal in the origin's window and tab.
StoreSplit(c) ==
    /\ pc[c] = "store"
    /\ CacheSplit(c, ttyOf[made[c]], found[c].place)

\* Any Apple Event may fail or time out: the terminal, tab or window is gone,
\* or Ghostty does not answer.  Nothing retries.
EventFails(c) ==
    /\ pc[c] \in {"verify", "count", "act", "focus"} \cup Scanning
    /\ End(c, "failed")
    /\ UNCHANGED <<world, cache, req, scan, found, via, acted, made>>

-----------------------------------------------------------------------------
CommandStep(c) ==
    \/ Start(c) \/ NamesNoTerminal(c) \/ Clear(c) \/ Lookup(c)
    \/ VerifyHit(c) \/ VerifyMiss(c)
    \/ CountTabs(c) \/ ReadTTYs(c) \/ ReadIDs(c) \/ ReadPath(c)
    \/ Act(c) \/ Split(c) \/ Focus(c) \/ StoreSplit(c)
    \/ EventFails(c)

UserStep == UserOpens \/ UserCloses \/ UserMoves

Next == UserStep \/ \E c \in Commands : CommandStep(c)

Spec == Init /\ [][Next]_vars

-----------------------------------------------------------------------------
(* Properties *)

\* The command acted on a terminal, or replied its id.
Used(c) == acted[c] # NoTerm \/ (req[c].kind = "refresh" /\ result[c] = "ok")
Owner(c) == ttyOf[found[c].term] = want(c)

\* A command whose cached binding Ghostty confirmed acts on the terminal that
\* runs on the tty it names, whatever is closed, moved or recycled meanwhile
\* and whichever stale or wrong binding the cache held (boundTerminal, isBound).
VerifiedHitUsesOwner ==
    \A c \in Commands : via[c] = "hit" /\ Used(c) => Owner(c)

\* So does a command that scanned, if no terminal was opened, closed or moved
\* while it scanned (terminalContext(forTTY:)).
QuietScanUsesOwner ==
    \A c \in Commands : via[c] = "scan" /\ ~scan[c].disturbed => Owner(c)

\* The cache holds no binding of a tty to a terminal that never ran on it, be it
\* through a split, an expiry or a recycled pty, unless a scan was disturbed.
CacheNamesOwner ==
    (\A c \in Commands : ~scan[c].disturbed) =>
        \A tty \in TTYs : cache[tty] # NoBinding => ttyOf[cache[tty].term] = tty

\* What a command knows of its binding, stage by stage.
Holding == {"act", "focus", "store"}
CommandInv(c) ==
    /\ pc[c] \in {"queued", "clear", "lookup", "verify", "count"} => ~scan[c].disturbed
    /\ pc[c] \in {"verify", "count"} \cup Scanning \cup Holding => want(c) \in TTYs
    /\ pc[c] = "verify" => found[c] \in Binding
    /\ pc[c] = "ids" /\ ~scan[c].disturbed =>
          \A p \in TabsAt(scan[c].index) :
              /\ scan[c].slot \in DOMAIN layout[p]
              /\ ttyOf[layout[p][scan[c].slot]] = want(c)
    /\ pc[c] = "path" => found[c].term \in Terminals /\ (~scan[c].disturbed => Owner(c))
    /\ pc[c] \in Holding => via[c] # "none"
    /\ via[c] # "none" =>
          /\ pc[c] \in Holding \cup {"done"}
          /\ want(c) \in TTYs
          /\ found[c] \in Binding
          /\ via[c] = "hit" \/ ~scan[c].disturbed => Owner(c)
    /\ pc[c] \in {"focus", "store"} => made[c] \in Terminals /\ ttyOf[made[c]] \in TTYs

\* The part of it that says what a resolved binding is worth.
ResolvedInv ==
    /\ TypeOK
    /\ \A c \in Commands : CommandInv(c)
    /\ CacheNamesOwner

\* The part of it that says what a scan has ruled out: while nothing disturbs it,
\* Ghostty lists as many tabs as it counted, and no tab it went past has the tty.
TTYsAt(p) == {ttyOf[t] : t \in At(p)}
SearchInv(c) ==
    pc[c] \in {"ttys", "ids"} /\ ~scan[c].disturbed =>
        /\ scan[c].limit = Cardinality(Listed)
        /\ scan[c].index \in 1..scan[c].limit
        /\ \A i \in 1..(scan[c].index - 1) : \A p \in TabsAt(i) : want(c) \notin TTYsAt(p)

\* A command acts only on a terminal that it verified or found by a scan.
UsedInv(c) == Used(c) => via[c] # "none"

\* The inductive invariant behind the three properties above and the one below
\* (boundTerminal, terminalContext(forTTY:), SplitRequest.reply).
BindingInv ==
    /\ ResolvedInv
    /\ \A c \in Commands : SearchInv(c) /\ UsedInv(c)

\* A scan that nothing disturbed reports a terminal missing only if none is
\* open on that tty: it skips no window and no tab.
QuietScanComplete ==
    [][\A c \in Commands :
          result'[c] = "notfound" /\ result[c] = "none" /\ ~scan[c].disturbed =>
              want(c) \notin {ttyOf[t] : t \in Open}]_vars

\* docs/daemon.md: a scan maps a tty to "the terminal whose tty AppleScript
\* property matches", and a recycled pty "never reaches a command".
ActsOnOwner == \A c \in Commands : Used(c) => Owner(c)

\* The only way to act on another terminal: a scan under which Ghostty changed.
\* No stale, recycled, lost or overwritten cache entry does it.
MisdirectedOnlyByScan ==
    \A c \in Commands : Used(c) /\ ~Owner(c) => via[c] = "scan" /\ scan[c].disturbed
=============================================================================
