--------------------------- MODULE SchemaPipeline ---------------------------
(***************************************************************************)
(* From SDK revision to admitted intent.  The bundles the guest embeds are *)
(* generated from a pinned revision of the SDK.  On a bump the pipeline's  *)
(* specification (docs/design/specs/oci-schema-pipeline.md) has the        *)
(* operator audit the clients, run `make oci.generate`, which writes one   *)
(* resource's bundle after the other into the working tree and stops at    *)
(* the first failure (mk/golang.mk), and compare old and new bundle of     *)
(* every resource; breaking changes are reviewed before the new bundles    *)
(* are pinned.  Meanwhile hosts keep the intents Validate has admitted.    *)
(***************************************************************************)
EXTENDS Extraction, BundleChecks

CONSTANTS
  Version,      \* revisions of the SDK
  Sdk,          \* revision -> its contents
  FirstVersion, \* revisions the first pinned bundles may come from
  GenOrder,     \* the resources in the order of the recipe
  Clients,      \* the client files of the service, as the sweep lists them
  Kind,         \* kinds a request may name; the resources are among them
  Payload,      \* payloads a host may ask to validate
  MaxAdmitted   \* bound: intents a host keeps at a time

\* The recipe names every resource once.
ASSUME RecipeAssumption ==
  /\ GenOrder \in Seq(Resource)
  /\ \A r \in Resource : \E i \in 1..Len(GenOrder) :
       \A j \in 1..Len(GenOrder) : GenOrder[j] = r <=> j = i
  /\ FirstVersion \subseteq Version

\* The recipe's client files are among those of the service, which are all there,
\* paths are sequences of segments, and OpOrder lists every exported method once.
ASSUME SdkAssumption ==
  /\ NoName \notin Resource
  /\ Clients \in Seq(Range(Clients)) /\ \A r \in Resource : ClientOf[r] \in Range(Clients)
  /\ OpOrder \in Seq(Range(OpOrder)) /\ NoName \notin Range(OpOrder)
  /\ \A i, j \in DOMAIN OpOrder : OpOrder[i] = OpOrder[j] => i = j
  /\ \A v \in Version :
       /\ Range(Clients) \subseteq DOMAIN Sdk[v].client
       /\ \A c \in DOMAIN Sdk[v].client :
            /\ DOMAIN Sdk[v].client[c].public \subseteq Range(OpOrder)
            /\ \A n \in DOMAIN Sdk[v].client[c].wire :
                 Sdk[v].client[c].wire[n].path \in Seq(Segment)

VARIABLES
  sdk,       \* the revision OCI_SDK_VERSION names
  source,    \* the revision the pinned bundles were generated from
  tree,      \* resource -> the bundle in the working tree
  pinned,    \* resource -> the bundle the guest embeds
  audit,     \* exit status of oci-extract -audit
  recipe,    \* make oci.generate: resources done, and whether it has failed
  gate,      \* resource -> exit status of oci-extract -diff
  admitted   \* the requests Validate has admitted, as the hosts hold them

vars == <<sdk, source, tree, pinned, audit, recipe, gate, admitted>>

NotRun == -1

\* What each revision yields for each resource.
Extracted == [v \in Version |-> [r \in Resource |-> ExtractSchema(Sdk[v], r)]]

Swept == [v \in Version |-> [r \in Resource |-> SweepClass(Sdk[v], Clients, r)]]

Audited == [v \in Version |-> AuditExit(Sdk[v])]

Usable(v) == Audited[v] = 0 /\ \A r \in Resource : Extracted[v][r].exit = 0

NoGate == [r \in Resource |-> NotRun]

Init ==
  /\ source \in {v \in FirstVersion : Usable(v)}
  /\ sdk = source
  /\ pinned = [r \in Resource |-> Extracted[source][r].bundle]
  /\ tree = pinned
  /\ audit = NotRun /\ recipe = [done |-> 0, failed |-> FALSE] /\ gate = NoGate
  /\ admitted = {}

Restarted ==
  /\ audit' = NotRun /\ recipe' = [done |-> 0, failed |-> FALSE] /\ gate' = NoGate

Bump(v) ==
  /\ sdk = source /\ v # source
  /\ sdk' = v
  /\ Restarted
  /\ UNCHANGED <<source, tree, pinned, admitted>>

Audit ==
  /\ sdk # source /\ audit = NotRun
  /\ audit' = Audited[sdk]
  /\ UNCHANGED <<sdk, source, tree, pinned, recipe, gate, admitted>>

\* One resource of the recipe; its file is written whatever the exit status.
Generate ==
  /\ sdk # source /\ ~recipe.failed /\ recipe.done < Len(GenOrder)
  /\ LET r == GenOrder[recipe.done + 1]
         out == Extracted[sdk][r]
     IN  /\ tree' = [tree EXCEPT ![r] = out.bundle]
         /\ recipe' = IF out.exit = 0 THEN [recipe EXCEPT !.done = @ + 1]
                                      ELSE [recipe EXCEPT !.failed = TRUE]
  /\ UNCHANGED <<sdk, source, pinned, audit, gate, admitted>>

Diff(r) ==
  /\ recipe.done = Len(GenOrder) /\ gate[r] = NotRun
  /\ gate' = [gate EXCEPT ![r] = DiffExit(pinned[r], tree[r])]
  /\ UNCHANGED <<sdk, source, tree, pinned, audit, recipe, admitted>>

Pinned ==
  /\ pinned' = tree /\ source' = sdk
  /\ Restarted
  /\ UNCHANGED <<sdk, tree>>

\* Every tool came back clean: nobody looks further.
Pin ==
  /\ audit = 0 /\ \A r \in Resource : gate[r] = 0
  /\ Pinned
  /\ UNCHANGED admitted

StillAdmissible(a, bundles) == Validate(Contracts(bundles), a.kind, a.payload).admissible

\* Breaking changes: the review has the intents adapted that do not conform.
PinReviewed ==
  /\ audit = 0 /\ \A r \in Resource : gate[r] \in {0, 3}
  /\ \E r \in Resource : gate[r] = 3
  /\ Pinned
  /\ admitted' = {a \in admitted : StillAdmissible(a, tree)}

\* The bump is given up: the working tree goes back to what is pinned.
Discard ==
  /\ sdk # source
  /\ sdk' = source /\ tree' = pinned
  /\ Restarted
  /\ UNCHANGED <<source, pinned, admitted>>

Admit(k, p) ==
  /\ Cardinality(admitted) < MaxAdmitted
  /\ Validate(Contracts(pinned), k, p).admissible
  /\ admitted' = admitted \cup {[kind |-> k, payload |-> p]}
  /\ UNCHANGED <<sdk, source, tree, pinned, audit, recipe, gate>>

Next ==
  \/ \E v \in Version : Bump(v)
  \/ Audit
  \/ Generate
  \/ \E r \in Resource : Diff(r)
  \/ Pin
  \/ PinReviewed
  \/ Discard
  \/ \E k \in Kind, p \in Payload : Admit(k, p)

Spec == Init /\ [][Next]_vars

-----------------------------------------------------------------------------
(* Properties. *)

WellFormed(bundle) == bundle.required \subseteq DOMAIN bundle.config

\* Type invariant: a bundle demands only fields it has, the tools end with the exit
\* statuses they document, and outside a bump the working tree is what is pinned.
TypeOK ==
  /\ sdk \in Version /\ source \in Version
  /\ \A r \in Resource : WellFormed(pinned[r]) /\ (tree[r] # NoBundle => WellFormed(tree[r]))
  /\ audit \in {NotRun, 0, 4}
  /\ recipe \in [done : 0..Len(GenOrder), failed : BOOLEAN]
  /\ gate \in [Resource -> {NotRun, 0, 3}]
  /\ admitted \subseteq [kind : Kind, payload : Payload]
  /\ sdk = source => tree = pinned /\ recipe.done = 0 /\ gate = NoGate

\* The gate's promise over any history of bumps (diff.go, DiffConfigSchemas): an
\* intent that Validate admitted once stays admissible as long as no review
\* intervened, whatever passed as compatible since.
AdmittedStaysAdmissible == \A a \in admitted : StillAdmissible(a, pinned)

OpsInRole(bundle, role) == {o \in DOMAIN bundle.operations : bundle.operations[o] = role}

\* The model a request is paired with by name is, where declared, the body it declares.
BodyIsNamed(contents, q) ==
  q # NoName /\ DetailsOf[q] \in DOMAIN contents.decl
    => q \in DOMAIN contents.decl /\ contents.decl[q].body = DetailsOf[q]

CreateIsWhole(contents, r, bundle) ==
  LET methods == contents.client[ClientOf[r]]
      Body(o) == contents.decl[contents.decl[methods.public[o].request].body].fields
      Collects(n, o) ==
        LET path == methods.wire[o].path
        IN  /\ methods.wire[n].verb = "POST"
            /\ Len(path) > 1 /\ path[Len(path)] \in Param
            /\ methods.wire[n].path = Front(path)
  IN  /\ \A o \in OpsInRole(bundle, "create") :
           BodyIsNamed(contents, methods.public[o].request) =>
           /\ DOMAIN Body(o) \subseteq DOMAIN bundle.config
           /\ bundle.required = {f \in DOMAIN Body(o) : Body(o)[f].mandatory}
      /\ (\E n \in DOMAIN methods.wire, o \in OpsInRole(bundle, "read") : Collects(n, o))
           => OpsInRole(bundle, "create") # {}

\* No bundle that looks valid and is not (main.go, reportUnresolved): a pinned
\* bundle asks for what the body of its create operation, as its SDK declares it,
\* demands, admits every field of it, and has a create operation whenever the
\* SDK posts to the collection of the resource.  A body is found by its name
\* (requestBodyModel), so a create operation that declares another one is left out.
CreateSurfaceIsWhole == \A r \in Resource : CreateIsWhole(Sdk[source], r, pinned[r])

\* The files of the recipe have neither requests nor responses, so a body is found
\* by a name.  Redeclared: the response of Get<Resource>, or the request of the
\* create operation, declares another body than the one the name leads to.
Redeclared(contents, r, bundle) ==
  LET public == contents.client[ClientOf[r]].public
      Declares(t, b) == t \in DOMAIN contents.decl => contents.decl[t].body \in {b, NoName}
  IN  \/ GetOf[r] \in DOMAIN public /\ ~Declares(public[GetOf[r]].response, r)
      \/ \E o \in OpsInRole(bundle, "create") :
           LET q == public[o].request IN q # NoName /\ ~Declares(q, DetailsOf[q])

\* Generation and sweep read the SDK in different ways (the files the recipe
\* names, one client's operations; a whole directory).  Bodies declared otherwise
\* than named are all that can come between them: whatever else is pinned, the
\* sweep finds neither unreadable nor polymorphic (classes C and D of cmd/oci-sweep).
PinnedIsExtractable ==
  \A r \in Resource : Swept[source][r] \in {"A", "B"} \/ Redeclared(Sdk[source], r, pinned[r])

-----------------------------------------------------------------------------
(* What some of the theorems presuppose of the revisions. *)

\* What makes an HTTP call returns a response.
CallsRespond ==
  \A v \in Version : \A c \in DOMAIN Sdk[v].client :
    \A n \in DOMAIN Sdk[v].client[c].public \cap DOMAIN Sdk[v].client[c].wire :
      Sdk[v].client[c].public[n].response # NoName

\* No client file that the recipe names is empty.
ClientsHaveMethods ==
  \A v \in Version, r \in Resource :
    LET file == Sdk[v].client[ClientOf[r]]
    IN  \E n \in DOMAIN file.public : file.public[n].response # NoName

\* The recipe names model files and a client file, none that declares a response.
RecipeNamesModels ==
  \A v \in Version, r \in Resource :
    LET public == Sdk[v].client[ClientOf[r]].public
    IN  \A n \in DOMAIN public : public[n].response \notin Supplied[r]

\* Get<Resource> is of the client file of the resource.  Whatever else reads the
\* resource lists it, at a path that does not end in a parameter.
OthersOnlyList ==
  \A v \in Version, r \in Resource, c \in Range(Clients) :
    LET public == Sdk[v].client[c].public
        wire == Sdk[v].client[c].wire
        decl == Sdk[v].decl
        called == DOMAIN public \cap DOMAIN wire
    IN  /\ GetOf[r] \in called => c = ClientOf[r]
        /\ \A n \in called \ {GetOf[r]} :
             wire[n].verb = "GET" /\ CollectionPath(wire[n].path) # << >> =>
               ~(public[n].response \in DOMAIN decl /\ decl[public[n].response].body = r)

\* Nothing is posted to the collection of a resource from outside its client file.
CollectionsAreKept ==
  \A v \in Version, r \in Resource : \A c \in Range(Clients) \ {ClientOf[r]} :
    LET home == Sdk[v].client[ClientOf[r]].wire
        wire == Sdk[v].client[c].wire
    IN  GetOf[r] \in DOMAIN home /\ CollectionPath(home[GetOf[r]].path) # << >> =>
          \A n \in DOMAIN wire :
            wire[n].verb = "POST" => wire[n].path # CollectionPath(home[GetOf[r]].path)

=============================================================================
