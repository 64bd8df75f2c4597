---------------------------- MODULE MCTransmissions ----------------------------
(* Instances of Transmissions for TLC: batches of one to three transmissions. *)
EXTENDS Transmissions

GreetingAndFour == <<1, 5, 2, 3, 6>>
================================================================================
