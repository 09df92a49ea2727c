---------------------------- MODULE MCResponder ----------------------------
(* An instance of Responder for TLC. *)
EXTENDS Responder, TLC

CONSTANTS r1, r2, r3, alice, bob

FromMC == r1 :> alice @@ r2 :> bob @@ r3 :> bob
=============================================================================
