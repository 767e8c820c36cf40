-------------------------------- MODULE MCAbi --------------------------------
(***************************************************************************)
(* The guest's memory with six addresses: the three arguments and the two  *)
(* buffers of a host call are live at once, so one address is always free  *)
(* to be given out again.                                                  *)
(***************************************************************************)
EXTENDS Abi

=============================================================================
