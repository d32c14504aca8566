---------------------------- MODULE MCProcesses ----------------------------
(***************************************************************************)
(* Small sets of processes for Processes.                                  *)
(***************************************************************************)
EXTENDS Processes, TLC

CONSTANTS proc1, proc2, client1, client2

\* A request process that waits for events and one that only sleeps.
MCSleeper == (proc1 :> "events") @@ (proc2 :> "nothing")
=============================================================================
