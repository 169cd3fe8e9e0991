----------------------------- MODULE MCSshSession -----------------------------
(* An attach and a gty ssh of another version, on one host. *)
EXTENDS SshSession, TLC

CONSTANTS a1, s1, v1, v2

MCVersion == (a1 :> v1) @@ (s1 :> v2)
=============================================================================
