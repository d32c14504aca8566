--------------------------- MODULE MCAcquisition ---------------------------
(***************************************************************************)
(* Small networks for Acquisition: a device, which may be a router or have *)
(* two endpoints.                                                          *)
(***************************************************************************)
EXTENDS Acquisition

CONSTANT device1
=============================================================================
