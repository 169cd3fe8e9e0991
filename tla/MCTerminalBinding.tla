-------------------------- MODULE MCTerminalBinding --------------------------
(* Small instances of TerminalBinding for TLC. *)
EXTENDS TerminalBinding, TLC

CONSTANTS y1, y2

Ask(k, a, w) == [kind |-> k, ack |-> a, want |-> w]

\* Acknowledged commands and a no-ack one, on two ttys, or naming no terminal.
MixedRequests ==
    {Ask("act", TRUE, y1), Ask("act", FALSE, y1), Ask("split", TRUE, y1), Ask("refresh", TRUE, y2),
     Ask("clear-all", TRUE, NoTTY), Ask("clear", TRUE, NoTTY)}

ScanRequests == {Ask("act", TRUE, y1)}

Symmetry == Permutations(Terminals) \cup Permutations(Commands)
=============================================================================
