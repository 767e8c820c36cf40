---------------------------- MODULE BundleChecks ----------------------------
(***************************************************************************)
(* What reads a schema bundle.  The guest parses the bundles it embeds     *)
(* into contracts (module/contracts.go) and checks requests against them   *)
(* (checkEnvelope, Validate and the front of Plan in module/provider.go);  *)
(* the diff gate compares the bundles of two SDK revisions                 *)
(* (tools/oci-extract/diff.go).                                            *)
(*                                                                         *)
(* A payload is its envelope (the tags that are well-formed, the encoding) *)
(* and its data: nothing, JSON null, another scalar, or an object, which   *)
(* is a function from field names to the kinds of their JSON values.       *)
(***************************************************************************)
CONSTANT
  OperationOf  \* an action's model -> its name without the suffix Details

Tag == {"schema_id", "schema_version", "schema_hash"}

DataForm == {"none", "null", "scalar", "object"}

JsonKind == {"string", "boolean", "number", "array", "object", "null"}

-----------------------------------------------------------------------------
(* The guest. *)

\* Mutant of ContractOf: the action keeps the name of its model.
ContractOfRaw(bundle) ==
  [fields |-> bundle.config, required |-> bundle.required, operations |-> bundle.operations]

\* parseContractBundle: the action of a field is the operation, not its model.
ContractOf(bundle) ==
  [fields |-> [f \in DOMAIN bundle.config |->
                 [type   |-> bundle.config[f].type,
                  policy |-> bundle.config[f].policy,
                  action |-> OperationOf[bundle.config[f].action]]],
   required |-> bundle.required, operations |-> bundle.operations]

\* Validate and Plan know the kinds a bundle is embedded for, no other.
Contracts(bundles) == [k \in DOMAIN bundles |-> ContractOf(bundles[k])]

CheckEnvelope(payload) ==
  (Tag \ payload.tags)
    \cup {e \in {"encoding"} : payload.encoding \notin {"canonical-json", "cbor"}}
    \cup {e \in {"data"} : /\ payload.encoding \in {"canonical-json", "cbor"}
                           /\ payload.form = "none"}

\* JSON null decodes into an object without keys.
IsObject(payload) == payload.form \in {"object", "null"}

Keys(payload) == IF payload.form = "object" THEN DOMAIN payload.object ELSE {}

JsonKindMatches(type, kind) ==
  \/ kind = "null" \/ type = "" \/ type = kind
  \/ kind = "number" /\ type = "integer"

ConformIntent(contract, payload) ==
  /\ IsObject(payload)
  /\ contract.required \subseteq Keys(payload)
  /\ \A f \in Keys(payload) :
       f \in DOMAIN contract.fields /\ JsonKindMatches(contract.fields[f].type, payload.object[f])

\* The schema is checked for kinds with a contract, once the envelope is in order.
Validate(contracts, kind, payload) ==
  LET wellFormed == kind # "" /\ CheckEnvelope(payload) = {}
      conforms   == wellFormed /\ kind \in DOMAIN contracts
  IN  [admissible |-> wellFormed /\ (conforms => ConformIntent(contracts[kind], payload)),
       checked    |-> {"envelope.well-formed"} \cup {c \in {"schema-conformance"} : conforms}]

SameData(p, q) == p.form = q.form /\ (p.form = "object" => p.object = q.object)

\* Plan up to the diff: the error it returns, or that it plans.  Without a contract
\* only the data of the payloads are compared.
PlanFront(contracts, kind, desired, observed) ==
  CASE CheckEnvelope(desired) \cup CheckEnvelope(observed) # {} -> "schema"
    [] OTHER ->
       IF kind \notin DOMAIN contracts
         THEN IF SameData(desired, observed) THEN "noop" ELSE "PLAN_CONTRACT_UNAVAILABLE"
         ELSE IF IsObject(desired) /\ IsObject(observed) THEN "planned" ELSE "schema"

-----------------------------------------------------------------------------
(* The diff gate. *)

\* Mutant of Breaking: a field that became mandatory is let through.
BreakingButRequired(old, new) ==
  {f \in DOMAIN old.config :
     \/ f \notin DOMAIN new.config
     \/ f \in DOMAIN new.config /\ new.config[f].type # old.config[f].type}
  \cup {f \in DOMAIN new.config : f \notin DOMAIN old.config /\ f \in new.required}

\* Removed, of another type, now required, or added and required.
Breaking(old, new) ==
  {f \in DOMAIN old.config :
     \/ f \notin DOMAIN new.config
     \/ f \in DOMAIN new.config /\ new.config[f].type # old.config[f].type
     \/ f \in DOMAIN new.config /\ f \in new.required /\ f \notin old.required}
  \cup {f \in DOMAIN new.config : f \notin DOMAIN old.config /\ f \in new.required}

\* oci-extract -diff.
DiffExit(old, new) == IF Breaking(old, new) # {} THEN 3 ELSE 0

=============================================================================
