------------------------------ MODULE NodeLife ------------------------------
(***************************************************************************)
(* What the registry of nodes promises of its rows, seen from outside: a   *)
(* row appears with the next id, may become described, and leaves.  An id  *)
(* is never given again, a row that left does not come back, and what is   *)
(* described stays so.  NodeRegistry, as built and between two restarts,   *)
(* implements it.                                                          *)
(***************************************************************************)
EXTENDS Naturals

VARIABLES
  unknown,     \* the ids of the rows whose logical type is not known
  described,   \* the ids of the rows whose logical type is known
  last         \* the last id that was given

vars == <<unknown, described, last>>

Given == {i \in Nat : i <= last}

Init ==
  /\ last \in Nat
  /\ unknown = {}
  /\ \A i \in described : i \in Given

\* A device that has no row is announced, discovered or added.
Appear ==
  /\ last' = last + 1
  /\ \/ unknown' = unknown \cup {last'} /\ UNCHANGED described
     \/ described' = described \cup {last'} /\ UNCHANGED unknown

\* The logical type of a node is learned.
Describe(i) ==
  /\ i \in unknown
  /\ unknown' = unknown \ {i}
  /\ described' = described \cup {i}
  /\ UNCHANGED last

\* Rows are deleted, or cleaned up together.
Leave(gone) ==
  /\ unknown' = unknown \ gone
  /\ described' = described \ gone
  /\ UNCHANGED last

Next ==
  \/ Appear
  \/ \E i \in unknown : Describe(i)
  \/ \E gone \in SUBSET (unknown \cup described) : Leave(gone)

Spec == Init /\ [][Next]_vars
=============================================================================
