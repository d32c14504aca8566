----------------------------- MODULE MCAlarms -----------------------------
(***************************************************************************)
(* A small house for Alarms: one lamp with its sensor, and one other node  *)
(* in its location.                                                        *)
(***************************************************************************)
EXTENDS Alarms

CONSTANTS lamp1, other1, room1

MCSteps == {-10, 10}
MCAt == [n \in {lamp1, other1} |-> room1]
=============================================================================
