-------------------------- MODULE MCSessionMembership --------------------------
(* Instances of SessionMembership for TLC. *)
EXTENDS SessionMembership

CONSTANTS c1, c2
================================================================================
