---------------------------- MODULE HerdrNavigation ----------------------------
(***************************************************************************)
(* Navigation keys in Herdr (herdr/navigation.go, client.go): a key that a *)
(* server has bound runs gty herdr navigate, which asks Herdr what the     *)
(* pane runs and what is beside it, and moves Neovim, Herdr or, by the     *)
(* window title of the foreground client, the Ghostty split around it.     *)
(*                                                                         *)
(* Each question is a request of its own, which Herdr performs before or   *)
(* after its deadline, or never; panes and clients change between them.    *)
(* One direction stands for the four.                                      *)
(***************************************************************************)
EXTENDS HerdrSetup

CONSTANTS
    Presses,    \* the keypresses
    Panes,      \* the panes of the server
    Home,       \* the server they belong to
    Edge        \* what is beside a pane at the edge

ASSUME NavigationAssumption == Home \in Servers /\ Edge \notin Panes

VARIABLES
    step,       \* where each keypress stands: the request it waits for
    pane,       \* the pane it was pressed in
    layer,      \* the innermost layer that could move then
    asked,      \* its request that Herdr has yet to perform
    answer,     \* Herdr's answer
    moved,      \* the layers it moved
    disrupted,  \* the keypresses whose pane changed since
    nvim,       \* the panes that Neovim runs in
    right,      \* what is beside each pane
    focused,    \* the focused pane
    attached,   \* the foreground client
    signals,    \* the keypresses whose title is on the way to an attach's filter
    titled,     \* the clients whose window title is a navigation title
    carrier,    \* the client that took the title of each keypress
    strayed     \* the keypresses whose clear went to another client

pressVars == <<step, pane, layer>>
callVars == <<asked, answer>>
paneVars == <<nvim, right>>
titleVars == <<titled, carrier, strayed>>
clientVars == <<attached, signals, titleVars>>
navVars == <<pressVars, callVars, moved, disrupted, paneVars, focused, clientVars>>
vars == <<herdrVars, navVars>>

Calls == {"info", "keys", "neighbor", "focus", "set", "clear"}
Layers == {"nvim", "herdr", "outer"}

\* A gty herdr attach, and a Herdr client in a terminal of its own.
Clients == {"attach", "plain"}

NavTypeOK ==
    /\ step \in [Presses -> Calls \cup {"idle", "moved", "failed"}]
    /\ pane \in [Presses -> Panes]
    /\ layer \in [Presses -> Layers]
    /\ asked \in [Presses -> Calls \cup {"none"}]
    /\ answer \in [Presses -> {"none", "yes", "no"}]
    /\ moved \in [Presses -> SUBSET Layers]
    /\ disrupted \subseteq Presses
    /\ nvim \subseteq Panes
    /\ right \in [Panes -> Panes \cup {Edge}]
    /\ focused \in Panes
    /\ attached \in Clients \cup {"none"}
    /\ signals \subseteq Presses
    /\ titled \subseteq Clients
    /\ carrier \in [Presses -> Clients \cup {"none"}]
    /\ strayed \subseteq Presses

Init ==
    /\ SetupInit
    /\ step = [p \in Presses |-> "idle"]
    /\ pane \in [Presses -> Panes] /\ \A p, q \in Presses : pane[p] = pane[q]
    /\ layer = [p \in Presses |-> "outer"]
    /\ asked = [p \in Presses |-> "none"]
    /\ answer = [p \in Presses |-> "none"]
    /\ moved = [p \in Presses |-> {}]
    /\ disrupted = {}
    /\ nvim = {}
    /\ right = [x \in Panes |-> Edge]
    /\ focused \in Panes
    /\ attached = "none"
    /\ signals = {}
    /\ titled = {}
    /\ carrier = [p \in Presses |-> "none"]
    /\ strayed = {}

\* The innermost layer: a Neovim, a pane beside it, or the outer split.
Layer(x) == IF x \in nvim THEN "nvim" ELSE IF right[x] # Edge THEN "herdr" ELSE "outer"

-----------------------------------------------------------------------------
(* Navigate *)

Call(p, method) ==
    /\ step' = [step EXCEPT ![p] = method]
    /\ asked' = [asked EXCEPT ![p] = method]
    /\ answer' = [answer EXCEPT ![p] = "none"]

\* The ladder ends.
End(p, how) ==
    /\ step' = [step EXCEPT ![p] = how]
    /\ answer' = [answer EXCEPT ![p] = "none"]
    /\ UNCHANGED asked

\* Herdr runs the binding of a key, with the active pane in its environment.
Press(p) ==
    /\ step[p] = "idle"
    /\ Home \in running /\ loaded[Home]
    /\ pane' = [pane EXCEPT ![p] = focused]
    /\ layer' = [layer EXCEPT ![p] = Layer(focused)]
    /\ Call(p, "info")
    /\ UNCHANGED <<herdrVars, moved, disrupted, paneVars, focused, clientVars>>

\* RunsNvim: the key goes into Neovim, or the ladder goes on outward.
ReadInfo(p) ==
    /\ step[p] = "info"
    /\ answer[p] # "none"
    /\ Call(p, IF answer[p] = "yes" THEN "keys" ELSE "neighbor")
    /\ UNCHANGED <<herdrVars, pane, layer, moved, disrupted, paneVars, focused, clientVars>>

ReadNeighbor(p) ==
    /\ step[p] = "neighbor"
    /\ answer[p] # "none"
    /\ Call(p, IF answer[p] = "yes" THEN "focus" ELSE "set")
    /\ UNCHANGED <<herdrVars, pane, layer, moved, disrupted, paneVars, focused, clientVars>>

\* Mutant: the title is left for the client to restore.
ReadTitleKeeps(p) ==
    /\ step[p] = "set"
    /\ answer[p] # "none"
    /\ End(p, IF answer[p] = "yes" THEN "moved" ELSE "failed")
    /\ UNCHANGED <<herdrVars, pane, layer, moved, disrupted, paneVars, focused, clientVars>>

\* signalOuterLayer: the title that carried the direction is cleared again.
ReadTitle(p) ==
    /\ step[p] = "set"
    /\ answer[p] # "none"
    /\ \/ answer[p] = "yes" /\ Call(p, "clear")
       \/ answer[p] = "no" /\ End(p, "failed")
    /\ UNCHANGED <<herdrVars, pane, layer, moved, disrupted, paneVars, focused, clientVars>>

\* The last request of a layer: the focus must have changed.
ReadLast(p) ==
    /\ step[p] \in {"keys", "focus", "clear"}
    /\ answer[p] # "none"
    /\ End(p, IF step[p] = "focus" /\ answer[p] = "no" THEN "failed" ELSE "moved")
    /\ UNCHANGED <<herdrVars, pane, layer, moved, disrupted, paneVars, focused, clientVars>>

\* Mutant: a pane whose processes are not known runs no Neovim.
FailGoesOn(p) ==
    /\ step[p] \in Calls
    /\ \/ step[p] = "info" /\ Call(p, "neighbor")
       \/ step[p] # "info" /\ End(p, "failed")
    /\ UNCHANGED <<herdrVars, pane, layer, moved, disrupted, paneVars, focused, clientVars>>

\* Mutant: without a deadline only a connection that ends fails a call.
FailWithoutDeadline(p) ==
    /\ step[p] \in Calls
    /\ Home \notin running
    /\ End(p, "failed")
    /\ UNCHANGED <<herdrVars, pane, layer, moved, disrupted, paneVars, focused, clientVars>>

\* Every failure ends the ladder: no connection, an error, an answer that cannot be
\* read, or requestTimeout.  What Herdr was asked it may still do.
Fail(p) ==
    /\ step[p] \in Calls
    /\ End(p, "failed")
    /\ UNCHANGED <<herdrVars, pane, layer, moved, disrupted, paneVars, focused, clientVars>>

-----------------------------------------------------------------------------
(* Herdr, and the filter of gty herdr attach *)

\* A request is performed; the answer reaches the ladder if it still waits.
Perform(p, method, reply) ==
    /\ Home \in running
    /\ asked[p] = method
    /\ asked' = [asked EXCEPT ![p] = "none"]
    /\ answer' = [answer EXCEPT ![p] = IF step[p] = method THEN reply ELSE "none"]
    /\ UNCHANGED <<herdrVars, pressVars, disrupted, paneVars, attached>>

YesNo(holds) == IF holds THEN "yes" ELSE "no"

GiveInfo(p) ==
    /\ Perform(p, "info", YesNo(pane[p] \in nvim))
    /\ UNCHANGED <<moved, focused, signals, titleVars>>

SendKeys(p) ==
    /\ Perform(p, "keys", "yes")
    /\ moved' = [moved EXCEPT ![p] = @ \cup {"nvim"}]
    /\ UNCHANGED <<focused, signals, titleVars>>

GiveNeighbor(p) ==
    /\ Perform(p, "neighbor", YesNo(right[pane[p]] # Edge))
    /\ UNCHANGED <<moved, focused, signals, titleVars>>

FocusDirection(p) ==
    /\ Perform(p, "focus", YesNo(right[pane[p]] # Edge))
    /\ \/ /\ right[pane[p]] # Edge
          /\ focused' = right[pane[p]]
          /\ moved' = [moved EXCEPT ![p] = @ \cup {"herdr"}]
       \/ right[pane[p]] = Edge /\ UNCHANGED <<focused, moved>>
    /\ UNCHANGED <<signals, titleVars>>

\* The client in the foreground when Herdr performs the request carries the title.
SetWindowTitle(p) ==
    /\ Perform(p, "set", YesNo(attached # "none"))
    /\ titled' = titled \cup ({attached} \ {"none"})
    /\ carrier' = [carrier EXCEPT ![p] = attached]
    /\ signals' = IF attached = "attach" THEN signals \cup {p} ELSE signals
    /\ UNCHANGED <<moved, focused, strayed>>

\* The client in the foreground by now gets its own title back.  The ladder does not
\* look at what the clear changed.
ClearWindowTitle(p) ==
    /\ Perform(p, "clear", "yes")
    /\ titled' = titled \ {attached}
    /\ strayed' = IF attached = carrier[p] THEN strayed ELSE strayed \cup {p}
    /\ UNCHANGED <<moved, focused, signals, carrier>>

\* Herdr drops a request whose connection was closed.
Drop(p) ==
    /\ step[p] = "failed"
    /\ asked[p] # "none"
    /\ asked' = [asked EXCEPT ![p] = "none"]
    /\ UNCHANGED <<herdrVars, pressVars, answer, moved, disrupted, paneVars, focused, clientVars>>

\* The filter takes the title from the stream and asks the daemon for the focus.
FilterFocuses(p) ==
    /\ p \in signals
    /\ signals' = signals \ {p}
    /\ moved' = [moved EXCEPT ![p] = @ \cup {"outer"}]
    /\ UNCHANGED <<herdrVars, pressVars, callVars, disrupted, paneVars, focused, attached, titleVars>>

\* The focus fails, silently, or the attach ended before the title.
FilterFails(p) ==
    /\ p \in signals
    /\ signals' = signals \ {p}
    /\ UNCHANGED <<herdrVars, pressVars, callVars, moved, disrupted, paneVars, focused, attached,
                   titleVars>>

-----------------------------------------------------------------------------
(* What else changes *)

\* The keypresses whose ladder runs from pane x, or ran.
From(x) == {p \in Presses : step[p] # "idle" /\ pane[p] = x}

Change ==
    /\ Home \in running
    /\ changes < MaxChanges
    /\ changes' = changes + 1
    /\ UNCHANGED <<copies, spoiled, setupVars, since, overtaken, serverVars>>

NvimChanges(x) ==
    /\ Change
    /\ nvim' = IF x \in nvim THEN nvim \ {x} ELSE nvim \cup {x}
    /\ disrupted' = disrupted \cup From(x)
    /\ UNCHANGED <<pressVars, callVars, moved, right, focused, clientVars>>

LayoutChanges(x) ==
    /\ Change
    /\ \E y \in (Panes \cup {Edge}) \ {x, right[x]} : right' = [right EXCEPT ![x] = y]
    /\ disrupted' = disrupted \cup From(x)
    /\ UNCHANGED <<pressVars, callVars, moved, nvim, focused, clientVars>>

\* Another client comes to the foreground, or none is left; a title stays behind.
ClientChanges ==
    /\ Change
    /\ attached' \in (Clients \cup {"none"}) \ {attached}
    /\ UNCHANGED <<pressVars, callVars, moved, disrupted, paneVars, focused, signals, titleVars>>

\* The server ends, and its requests with it; another one starts with fresh panes.
HomeStops ==
    /\ ServerStops(Home)
    /\ asked' = [p \in Presses |-> "none"]
    /\ nvim' = {}
    /\ right' = [x \in Panes |-> Edge]
    /\ titled' = {}
    /\ attached' = "none"
    /\ disrupted' = disrupted \cup {p \in Presses : step[p] # "idle"}
    /\ UNCHANGED <<pressVars, answer, moved, focused, signals, carrier, strayed>>

-----------------------------------------------------------------------------
ClientStep(p) == ReadInfo(p) \/ ReadNeighbor(p) \/ ReadTitle(p) \/ ReadLast(p) \/ Fail(p)
HerdrStep(p) ==
    \/ GiveInfo(p) \/ SendKeys(p) \/ GiveNeighbor(p) \/ FocusDirection(p)
    \/ SetWindowTitle(p) \/ ClearWindowTitle(p) \/ Drop(p)
FilterStep(p) == FilterFocuses(p) \/ FilterFails(p)

HostStep ==
    /\ \/ \E s \in Setups : SetupStep(s)
       \/ \E v \in Servers : ServerReads(v) \/ ServerUp(v)
       \/ \E v \in Servers \ {Home} : ServerStops(v)
       \/ UserEdits
    /\ UNCHANGED navVars

Next ==
    \/ \E p \in Presses : Press(p) \/ ClientStep(p) \/ HerdrStep(p) \/ FilterStep(p)
    \/ \E x \in Panes : NvimChanges(x) \/ LayoutChanges(x)
    \/ ClientChanges
    \/ HomeStops
    \/ HostStep

Spec == Init /\ [][Next]_vars

\* gty runs, and its deadline expires; nothing is assumed of Herdr.
FairSpec == Spec /\ \A p \in Presses : WF_vars(ClientStep(p))

-----------------------------------------------------------------------------
(* Properties *)

MovedOnce(p) ==
    /\ \A a, b \in moved[p] : a = b
    /\ p \notin disrupted => moved[p] \subseteq {layer[p]}
    /\ step[p] = "moved" /\ p \notin disrupted /\ layer[p] # "outer" => moved[p] = {layer[p]}

\* A keypress moves one layer at most, whichever of its requests fail or are performed
\* late; unless its pane changed meanwhile, that layer is the innermost one, and a
\* ladder that succeeds in Neovim or Herdr has moved it.
OneMove == \A p \in Presses : MovedOnce(p)

\* A client shows a navigation title only while the ladder that gave it one is between
\* its two requests, when that ladder failed, or when its clear went to another client
\* that had come to the foreground (signalOuterLayer).
TitleRestored ==
    \A k \in titled : \E p \in Presses :
        /\ carrier[p] = k
        /\ \/ step[p] = "set" /\ answer[p] = "yes"
           \/ step[p] = "clear" /\ asked[p] = "clear"
           \/ step[p] = "failed"
           \/ p \in strayed

\* The request of p that Herdr has, or that it waits for, or that it has answered.
AtCall(p, method) == asked[p] = method \/ step[p] = method

\* What a keypress knows of its pane, and has moved.
PressInv(p) ==
    /\ step[p] \in Calls => asked[p] \in {"none", step[p]}
    /\ step[p] \in {"idle", "moved"} => asked[p] = "none"
    /\ answer[p] # "none" => asked[p] = "none" /\ step[p] \in Calls
    /\ step[p] = "idle" => p \notin disrupted
    /\ asked[p] \notin {"none", "clear"} \/ step[p] \in {"idle", "info", "neighbor"} =>
           moved[p] = {} /\ p \notin signals /\ carrier[p] = "none"
    /\ p \in signals => moved[p] = {}
    /\ AtCall(p, "clear") \/ AtCall(p, "set") => moved[p] \subseteq {"outer"}
    /\ p \in signals => step[p] \in {"set", "clear", "moved", "failed"}
    /\ AtCall(p, "keys") => moved[p] \subseteq {"nvim"}
    /\ AtCall(p, "focus") => moved[p] \subseteq {"herdr"}
    /\ p \notin disrupted /\ step[p] # "idle" =>
        /\ layer[p] = Layer(pane[p])
        /\ AtCall(p, "keys") => layer[p] = "nvim"
        /\ AtCall(p, "neighbor") => layer[p] # "nvim"
        /\ AtCall(p, "focus") => layer[p] = "herdr"
        /\ AtCall(p, "set") \/ AtCall(p, "clear") \/ p \in signals => layer[p] = "outer"
        /\ step[p] = "info" /\ answer[p] # "none" => (answer[p] = "yes" <=> layer[p] = "nvim")
        /\ step[p] = "neighbor" /\ answer[p] # "none" => (answer[p] = "yes" <=> layer[p] = "herdr")
        /\ step[p] \in {"keys", "focus"} /\ answer[p] = "yes" => moved[p] = {layer[p]}
        /\ step[p] = "keys" => answer[p] # "no"

\* The types, the safety properties and what makes them inductive; a navigation title
\* outlives a ladder that succeeds only at a client that left the foreground.
HerdrInv ==
    /\ SetupInv
    /\ NavTypeOK
    /\ OneMove
    /\ TitleRestored
    /\ \A p \in Presses : PressInv(p)

\* A keypress is answered: no request that Herdr never performs leaves its key dead.
PressEnds == \A p \in Presses : step[p] \in Calls ~> step[p] \in {"moved", "failed"}
=============================================================================
