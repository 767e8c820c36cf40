----------------------------- MODULE MCExecution -----------------------------
(***************************************************************************)
(* Instances of module Execution for TLC.  The contract is a cut of the    *)
(* vcn bundle: one mutable and one action-managed field.                   *)
(***************************************************************************)
EXTENDS Execution, TLC

MCField == {"displayName", "compartmentId"}

MCFieldOrder == <<"compartmentId", "displayName">>

MCPolicy == [displayName |-> "mutable", compartmentId |-> "action-managed"]

MCActionOf == [displayName |-> "none", compartmentId |-> "ChangeCompartment"]

MCRole == [Get |-> "read", Create |-> "create", Update |-> "update",
           Delete |-> "delete", ChangeCompartment |-> "action"]

MCOp == DOMAIN MCRole

Cfg(name, compartment) == [displayName |-> name, compartmentId |-> compartment]

MCIntents == {Cfg("y", "y")}

MCInitStates == {Cfg("x", "x")}

\* Plans of edits: of the action-managed field alone, and of both fields.
MCEditPlans == {<<"ChangeCompartment">>, <<"Update", "ChangeCompartment">>}

MCPlans == {<<"Update", "ChangeCompartment">>, <<"Delete", "Create">>}

MCSymmetry == Permutations(Session)

=============================================================================
