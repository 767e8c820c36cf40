------------------------------ MODULE MCRelease ------------------------------
(***************************************************************************)
(* Instances of module Release for TLC.  The configurations give one       *)
(* version to release and differ in what may fail, in what the developer   *)
(* does between runs, and in the bounds.                                   *)
(***************************************************************************)
EXTENDS Release

=============================================================================
