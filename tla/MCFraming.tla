----------------------------- MODULE MCFraming ------------------------------
(***************************************************************************)
(* Two networks for Framing, with bytes of three bits.  The payloads: one  *)
(* for the controller; a broadcast with a delimiter in it, and longer than *)
(* a signed byte counts; a broadcast to a port that is not of management;  *)
(* one of another type; and one too short.                                 *)
(***************************************************************************)
EXTENDS Framing

MCPayloads == {<<6, 0>>, <<6, 1, 7, 1>>, <<6, 2>>, <<5>>, <<6>>}
=============================================================================
