----------------------------- MODULE MCReconcile -----------------------------
(***************************************************************************)
(* Instances of module Reconcile for TLC.  The contract is a cut of the    *)
(* vcn bundle with one field of every policy: displayName (mutable),       *)
(* compartmentId (action-managed), cidrBlock (create-only) and             *)
(* isIpv6Enabled (input-only, read back through ipv6CidrBlocks).           *)
(***************************************************************************)
EXTENDS Reconcile

MCField == {"displayName", "compartmentId", "cidrBlock", "isIpv6Enabled"}

MCFieldOrder == <<"cidrBlock", "compartmentId", "displayName", "isIpv6Enabled">>

MCPolicy == [displayName |-> "mutable", compartmentId |-> "action-managed",
             cidrBlock |-> "create-only", isIpv6Enabled |-> "input-only"]

MCActionOf == [f \in MCField |-> IF f = "compartmentId" THEN "ChangeCompartment" ELSE "none"]

MCRole == [Get |-> "read", Create |-> "create", Update |-> "update",
           Delete |-> "delete", ChangeCompartment |-> "action"]

MCOp == DOMAIN MCRole

MCStateField == {"displayName", "compartmentId", "cidrBlock", "ipv6CidrBlocks"}

MCDerivation ==
  {[field |-> "isIpv6Enabled", from |-> "ipv6CidrBlocks", rule |-> "bool-from-nonempty"]}

Cfg(name, compartment, cidr, ipv6) ==
  [displayName |-> name, compartmentId |-> compartment,
   cidrBlock |-> cidr, isIpv6Enabled |-> ipv6]

St(name, compartment, cidr, blocks) ==
  [displayName |-> name, compartmentId |-> compartment,
   cidrBlock |-> cidr, ipv6CidrBlocks |-> blocks]

\* Every diff there is between one intent and a resource: any subset of the fields.
MCStates ==
  {St(n, c, k, b) : n, c, k \in {"x", "y"}, b \in {"some", EmptyShown}}

MCWanted == [s \in Session |-> Cfg("y", "y", "y", "true")]

\* Only the create-only field differs: every first plan is a replacement.
MCReplaceState == {St("y", "y", "x", "some")}

\* The runs are instances of what the theorems about them presuppose.
ASSUME MCInstance ==
  /\ DerivationsAreCreateTime /\ ActionsAreNamed /\ IntentsAreReadable
  /\ RepliesAreReadable /\ DeletesAreAnswered

=============================================================================
