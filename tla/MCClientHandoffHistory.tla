------------------------ MODULE MCClientHandoffHistory ------------------------
(***************************************************************************)
(* The instance of MCClientHandoff, with the history of fetched plans.     *)
(***************************************************************************)
EXTENDS MCClientHandoff, ClientHandoffHistory
=============================================================================
