------------------------------ MODULE MCSchema ------------------------------
(***************************************************************************)
(* Instance for TLC: two resources of core, cuts of Vcn and Instance with  *)
(* one field of every policy, and revisions an SDK may go through, each    *)
(* one edit away from the first.                                           *)
(***************************************************************************)
EXTENDS AdmittedPlans, TLC

MCResource == {"Vcn", "Instance"}

MCOpOrder == <<"ChangeInstanceCompartment", "ChangeVcnCompartment", "ChangeVcnLabel",
               "CreateVcn", "DeleteVcn", "GetInstance", "GetVcn", "LaunchInstance",
               "ListInstances", "ListVcns", "TerminateInstance", "UpdateInstance", "UpdateVcn">>

MCGetOf == [Vcn |-> "GetVcn", Instance |-> "GetInstance"]

\* Request type -> the model it is paired with; model -> its operation.
Pairs == {<<"ChangeInstanceCompartment", "ChangeInstanceCompartmentRequest", "ChangeInstanceCompartmentDetails">>,
          <<"ChangeVcnCompartment", "ChangeVcnCompartmentRequest", "ChangeVcnCompartmentDetails">>,
          <<"ChangeVcnLabel", "ChangeVcnLabelRequest", "ChangeVcnLabelDetails">>,
          <<"CreateVcn", "CreateVcnRequest", "CreateVcnDetails">>,
          <<"CreateVcn", "CreateVcnV2Request", "CreateVcnV2Details">>,
          <<"DeleteVcn", "DeleteVcnRequest", "DeleteVcnDetails">>,
          <<"GetInstance", "GetInstanceRequest", "GetInstanceDetails">>,
          <<"GetVcn", "GetVcnRequest", "GetVcnDetails">>,
          <<"LaunchInstance", "LaunchInstanceRequest", "LaunchInstanceDetails">>,
          <<"ListInstances", "ListInstancesRequest", "ListInstancesDetails">>,
          <<"ListVcns", "ListVcnsRequest", "ListVcnsDetails">>,
          <<"TerminateInstance", "TerminateInstanceRequest", "TerminateInstanceDetails">>,
          <<"UpdateInstance", "UpdateInstanceRequest", "UpdateInstanceDetails">>,
          <<"UpdateVcn", "UpdateVcnRequest", "UpdateVcnDetails">>}

MCDetailsOf == [q \in {p[2] : p \in Pairs} |-> (CHOOSE p \in Pairs : p[2] = q)[3]]

MCOperationOf == [m \in {p[3] : p \in Pairs} \cup {"none"} |->
                    IF m = "none" THEN "none" ELSE (CHOOSE p \in Pairs : p[3] = m)[1]]

MCCreateNamed == [Vcn |-> "CreateVcnDetails", Instance |-> "CreateInstanceDetails"]
MCUpdateNamed == [Vcn |-> "UpdateVcnDetails", Instance |-> "UpdateInstanceDetails"]
MCActionNamed == [Vcn |-> <<"ChangeVcnCompartmentDetails", "ChangeVcnLabelDetails">>,
                  Instance |-> <<"ChangeInstanceCompartmentDetails">>]
MCChangeNamed == {"ChangeVcnCompartmentDetails", "ChangeVcnLabelDetails",
                  "ChangeInstanceCompartmentDetails"}
MCClientOf == [Vcn |-> "virtualnetwork", Instance |-> "compute"]
MCClients == <<"compute", "virtualnetwork">>
MCSupplied ==
  [Vcn |-> {"CreateVcnDetails", "UpdateVcnDetails", "Vcn", "ChangeVcnCompartmentDetails"},
   Instance |-> {"LaunchInstanceDetails", "UpdateInstanceDetails", "Instance",
                 "ChangeInstanceCompartmentDetails"}]

-----------------------------------------------------------------------------
(* The first revision. *)

Vcns == <<"vcns">>
AVcn == <<"vcns", "{vcnId}">>
Instances == <<"instances">>
AnInstance == <<"instances", "{instanceId}">>
MCParam == {"{vcnId}", "{instanceId}"}
MCSegment == MCParam \cup {"vcns", "instances", "actions", "changeCompartment"}

Method(o) == [request |-> (CHOOSE p \in Pairs : p[1] = o /\ p[2] # "CreateVcnV2Request")[2],
              response |-> CASE o = "GetVcn"        -> "GetVcnResponse"
                             [] o = "ListVcns"      -> "ListVcnsResponse"
                             [] o = "GetInstance"   -> "GetInstanceResponse"
                             [] o = "ListInstances" -> "ListInstancesResponse"
                             [] OTHER               -> "Response"]

Http(verb, path) == [verb |-> verb, path |-> path]

VcnWire == [CreateVcn |-> Http("POST", Vcns), GetVcn |-> Http("GET", AVcn),
            ListVcns |-> Http("GET", Vcns),
            UpdateVcn |-> Http("PUT", AVcn), DeleteVcn |-> Http("DELETE", AVcn),
            ChangeVcnCompartment |-> Http("POST", AVcn \o <<"actions", "changeCompartment">>)]

InstanceWire ==
  [LaunchInstance |-> Http("POST", Instances), GetInstance |-> Http("GET", AnInstance),
   ListInstances |-> Http("GET", Instances),
   UpdateInstance |-> Http("POST", AnInstance), TerminateInstance |-> Http("DELETE", AnInstance),
   ChangeInstanceCompartment |-> Http("POST", AnInstance \o <<"actions", "changeCompartment">>)]

ClientFile(wire) == [public |-> [o \in DOMAIN wire |-> Method(o)], wire |-> wire]

Mandatory(t) == [type |-> t, mandatory |-> TRUE]
Optional(t) == [type |-> t, mandatory |-> FALSE]

Struct(fields) == [kind |-> "struct", fields |-> fields, body |-> "none"]
Wrapper(body) == [kind |-> "struct", fields |-> << >>, body |-> body]
Interface == [kind |-> "interface", fields |-> << >>, body |-> "none"]

Decl ==
  [Vcn |-> Struct([compartmentId |-> Optional("string"), displayName |-> Optional("string"),
                   cidrBlock |-> Optional("string"), lifecycleState |-> Mandatory("enum")]),
   CreateVcnDetails |-> Struct([compartmentId |-> Mandatory("string"),
                   displayName |-> Optional("string"), cidrBlock |-> Optional("string"),
                   isIpv6Enabled |-> Optional("bool")]),
   UpdateVcnDetails |-> Struct([displayName |-> Optional("string")]),
   ChangeVcnCompartmentDetails |-> Struct([compartmentId |-> Mandatory("string")]),
   Instance |-> Struct([compartmentId |-> Optional("string"), displayName |-> Optional("string"),
                   lifecycleState |-> Mandatory("enum")]),
   LaunchInstanceDetails |-> Struct([compartmentId |-> Mandatory("string"),
                   displayName |-> Optional("string")]),
   UpdateInstanceDetails |-> Struct([displayName |-> Optional("string")]),
   ChangeInstanceCompartmentDetails |-> Struct([compartmentId |-> Mandatory("string")]),
   CreateVcnRequest |-> Wrapper("CreateVcnDetails"),
   UpdateVcnRequest |-> Wrapper("UpdateVcnDetails"),
   ChangeVcnCompartmentRequest |-> Wrapper("ChangeVcnCompartmentDetails"),
   LaunchInstanceRequest |-> Wrapper("LaunchInstanceDetails"),
   UpdateInstanceRequest |-> Wrapper("UpdateInstanceDetails"),
   ChangeInstanceCompartmentRequest |-> Wrapper("ChangeInstanceCompartmentDetails"),
   GetVcnResponse |-> Wrapper("Vcn"),
   ListVcnsResponse |-> Wrapper("Vcn"),
   ListInstancesResponse |-> Wrapper("Instance"),
   GetInstanceResponse |-> Wrapper("Instance")]

Base == [client |-> [virtualnetwork |-> ClientFile(VcnWire), compute |-> ClientFile(InstanceWire)],
         decl |-> Decl]

-----------------------------------------------------------------------------
(* One edit away from it. *)

WithDecl(n, d) == [Base EXCEPT !.decl = (n :> d) @@ @]
WithoutDecl(n) == [Base EXCEPT !.decl = [m \in DOMAIN @ \ {n} |-> @[m]]]
WithField(n, f, d) == [Base EXCEPT !.decl[n].fields = (f :> d) @@ @]
WithoutField(n, f) == [Base EXCEPT !.decl[n].fields = [g \in DOMAIN @ \ {f} |-> @[g]]]
WithoutOp(o) ==
  [Base EXCEPT !.client.virtualnetwork =
     ClientFile([p \in DOMAIN @.wire \ {o} |-> @.wire[p]])]
WithoutWire(o) ==
  [Base EXCEPT !.client.virtualnetwork.wire = [p \in DOMAIN @ \ {o} |-> @[p]]]

Labels == [compartmentId |-> Mandatory("string"), dnsLabel |-> Mandatory("string")]

\* The revisions in which a body is the model that its name leads to.
NamedBodies ==
  [first       |-> Base,
   optional    |-> WithField("CreateVcnDetails", "dnsLabel", Optional("string")),
   demanded    |-> WithField("CreateVcnDetails", "dnsLabel", Mandatory("string")),
   mandatory   |-> WithField("CreateVcnDetails", "cidrBlock", Mandatory("string")),
   retyped     |-> WithField("Vcn", "cidrBlock", Optional("slice")),
   removed     |-> WithoutField("CreateVcnDetails", "isIpv6Enabled"),
   frozen      |-> WithoutField("UpdateInstanceDetails", "displayName"),
   updatable   |-> WithField("UpdateInstanceDetails", "compartmentId", Optional("string")),
   fixed       |-> WithoutField("ChangeVcnCompartmentDetails", "compartmentId"),
   polymorphic |-> WithDecl("CreateVcnDetails", Interface),
   unreadable  |-> WithDecl("Instance", Interface),
   moved       |-> WithoutDecl("LaunchInstanceDetails"),
   alias       |-> WithDecl("UpdateVcnDetails", [kind |-> "other", fields |-> << >>, body |-> "none"]),
   renamed     |-> [WithDecl("CreateVcnV2Request", Wrapper("CreateVcnDetails")) EXCEPT
                      !.client.virtualnetwork.public.CreateVcn.request = "CreateVcnV2Request"],
   unlaunched  |-> [Base EXCEPT !.client.compute =
                      ClientFile([p \in DOMAIN @.wire \ {"LaunchInstance"} |-> @.wire[p]])],
   unpaired    |-> WithoutWire("CreateVcn"),
   wireless    |-> [Base EXCEPT !.client.virtualnetwork.wire = << >>],
   orphaned    |-> [Base EXCEPT !.client.virtualnetwork.public =
                      [p \in DOMAIN @ \ {"UpdateVcn"} |-> @[p]]],
   undeletable |-> WithoutOp("DeleteVcn"),
   fixedName   |-> WithoutOp("UpdateVcn"),
   given       |-> WithoutOp("CreateVcn"),
   gone        |-> WithoutOp("GetVcn")]

(* Edits in files the recipe does not name. *)

\* The create operation sends another model; the one it is paired with stays.
Sending(model, declaration) ==
  [Base EXCEPT !.decl = (model :> declaration) @@ ("CreateVcnRequest" :> Wrapper(model)) @@ @]

\* Get<Resource> returns a view of the resource.
Viewed(contents, view) ==
  [contents EXCEPT !.decl = ("VcnView" :> view) @@ ("GetVcnResponse" :> Wrapper("VcnView")) @@ @]

OtherBodies ==
  [resent     |-> Sending("CreateVcnV2Details", Struct(Labels)),
   abstracted |-> Sending("CreateVcnBase", Interface),
   unsent     |-> WithDecl("CreateVcnRequest", Wrapper("CreateVcnV2Details")),
   silent     |-> WithoutDecl("GetVcnResponse"),
   viewed     |-> Viewed(Base, Struct(Labels)),
   unlisted   |-> Viewed(WithoutOp("ListVcns"), Interface),
   shown      |-> Viewed(WithoutOp("ListVcns"), Struct(Labels)),
   lost       |-> WithDecl("GetInstanceResponse", Wrapper("InstanceView"))]

-----------------------------------------------------------------------------

MCSdk == NamedBodies @@ OtherBodies

MCVersion == DOMAIN MCSdk

MCFirstVersion == {"first"}

MCGenOrder == <<"Vcn", "Instance">>

MCKind == {"Vcn", "Instance", "Bucket"}

Object(o) == [tags |-> Tag, encoding |-> "canonical-json", form |-> "object", object |-> o]

Compartment == [compartmentId |-> "string"]
Labelled == [compartmentId |-> "string", dnsLabel |-> "string"]
Routed == [compartmentId |-> "string", cidrBlock |-> "string"]
Everything == [compartmentId |-> "string", displayName |-> "null", cidrBlock |-> "string",
               isIpv6Enabled |-> "boolean"]
Named == [compartmentId |-> "string", displayName |-> "string"]

MCPayload == {Object(Named), Object(Labelled), Object(Routed), Object(Everything)}
  \cup {[Object(Compartment) EXCEPT !.encoding = "cbor", !.form = "scalar"],
        [Object(Compartment) EXCEPT !.tags = {"schema_id"}],
        [Object(Compartment) EXCEPT !.form = "null"],
        [Object(Compartment) EXCEPT !.encoding = "yaml", !.form = "none"],
        Object([displayName |-> "string"])}

MCFieldNames == <<"cidrBlock", "compartmentId", "displayName", "dnsLabel", "isIpv6Enabled",
                  "lifecycleState">>

MCSeen == {Object(<< >>), Object([compartmentId |-> "null"]),
           Object([compartmentId |-> "string", displayName |-> "null", cidrBlock |-> "string"]),
           Object([compartmentId |-> "null", displayName |-> "object", cidrBlock |-> "null"])}

\* What the theorems presuppose holds of this instance.
ASSUME MCInstance ==
  /\ CallsRespond /\ ClientsHaveMethods /\ ActionModelsAreNamed
  /\ RecipeNamesModels /\ OthersOnlyList /\ CollectionsAreKept

\* Every way in which recipe and sweep may disagree is there, and passes the audit
\* and the recipe.
ASSUME MCDisagreements ==
  /\ \A v \in DOMAIN OtherBodies : Usable(v)
  /\ Swept["resent"]["Vcn"] = "A" /\ Swept["abstracted"]["Vcn"] = "D"
  /\ Swept["silent"]["Vcn"] = "B" /\ Swept["viewed"]["Vcn"] = "B"
  /\ Swept["unlisted"]["Vcn"] = "D"

=============================================================================
