--------------------------- MODULE BridgeLifecycle ---------------------------
(***************************************************************************)
(* What a remote bridge promises, with no listeners, locks or connections  *)
(* (CONTEXT.md "Remote bridge", "Bridge lease"; docs/daemon.md "Bridge     *)
(* sessions").  A bridge opens once, is leased to one connection, and is   *)
(* gone for good when that lease ends.  A command is admitted only while   *)
(* the bridge is leased, and an admitted command runs at most once.        *)
(***************************************************************************)
CONSTANTS Bridges,  \* bridge sessions, one per gty ssh
          Conns     \* connections made to bridge listeners

VARIABLES phase,     \* "absent" -> "open" -> "leased" -> "gone"
          grantees,  \* the connections a bridge's lease was granted to
          admitted,  \* the connections whose command a bridge let in
          ran        \* the connections whose command has run

avars == <<phase, grantees, admitted, ran>>

Phases == {"absent", "open", "leased", "gone"}

Init ==
    /\ phase = [b \in Bridges |-> "absent"]
    /\ grantees = [b \in Bridges |-> {}]
    /\ admitted = [b \in Bridges |-> {}]
    /\ ran = {}

Open(b) ==
    /\ phase[b] = "absent"
    /\ phase' = [phase EXCEPT ![b] = "open"]
    /\ UNCHANGED <<grantees, admitted, ran>>

Grant(b, c) ==
    /\ phase[b] = "open"
    /\ grantees[b] = {}
    /\ phase' = [phase EXCEPT ![b] = "leased"]
    /\ grantees' = [grantees EXCEPT ![b] = {c}]
    /\ UNCHANGED <<admitted, ran>>

Admit(b, c) ==
    /\ phase[b] = "leased"
    /\ admitted' = [admitted EXCEPT ![b] = @ \cup {c}]
    /\ UNCHANGED <<phase, grantees, ran>>

Serve(b, c) ==
    /\ c \in admitted[b] \ ran
    /\ ran' = ran \cup {c}
    /\ UNCHANGED <<phase, grantees, admitted>>

Close(b) ==
    /\ phase[b] = "leased"
    /\ phase' = [phase EXCEPT ![b] = "gone"]
    /\ UNCHANGED <<grantees, admitted, ran>>

Next ==
    \E b \in Bridges :
        \/ Open(b)
        \/ Close(b)
        \/ \E c \in Conns : Grant(b, c) \/ Admit(b, c) \/ Serve(b, c)

Spec == Init /\ [][Next]_avars
=============================================================================
