--------------------------- MODULE MCBridgeSession ---------------------------
(* Small instances of BridgeSession for TLC. *)
EXTENDS BridgeSession, TLC

Symmetry == Permutations(Bridges) \cup Permutations(Conns)

\* One behaviour of each class of behaviours that differ by the names of bridges and
\* connections, for the run whose liveness rules out SYMMETRY: the first bridge is
\* created first, the first connection made first.  Fairness asks for neither step.
FirstComeFirst ==
    LET firstBridge == CHOOSE b \in Bridges : TRUE
        firstConn == CHOOSE c \in Conns : TRUE
    IN  /\ (\E b \in Bridges : creation[b] # "absent") => creation[firstBridge] # "absent"
        /\ (\E c \in Conns : pc[c] # "idle") => pc[firstConn] # "idle"
=============================================================================
