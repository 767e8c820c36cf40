# TLA+ models of the Oracle Cloud provider module

This directory specifies, model-checks and partly proves the behaviour of the
repository: a WebAssembly guest (`module/`, Go) through which a relay host
observes, plans and changes Oracle Cloud resources, the tools that generate the
resource contracts the guest embeds (`tools/oci-extract/`, Go), and the tools
that sign and release the module (`tools/`, Python). Paths below are relative
to the repository's root; `PROJECT.json` maps every definition to its lines.

## The system

The guest is stateless and single-threaded. The host hands it a JSON envelope
through the module ABI (`module/abi.go`), `Call` dispatches on the function's
name, and the handlers of `module/provider.go` answer with a tagged result. A
handler that talks to Oracle builds an HTTP request, has the host sign it
(`cic-flow.sign`) and send it (`cic-flow.actuate`). Everything that lives longer
than a call is held by the host (the last observation with its etag, the approved
plan, the Work Requests to poll) or by Oracle.

| component | state it keeps | operations | who it talks to |
|---|---|---|---|
| resource contracts, planning (`contracts.go`, `provider.go`) | the embedded bundles: field policies, operation roles | Describe, Plan, renderBody | pure |
| correspondences (`correspondence.go`) | three rules per kind | effectiveConfig, applyDerivations | pure |
| sign+send operations (`provider.go`) | nothing between calls; inside Execute the steps so far | Observe, Execute, Destroy, Invoke, Poll | the host's sign and actuate, through them Oracle |
| validation and envelope checks (`provider.go`, `envelope.go`) | none | checkEnvelope, conformIntent, Validate | pure |
| guest ABI (`abi.go`, `cicflow_guest.go`) | buffers pinned for the host | allocate, deallocate, Call, hostCall | host memory |
| request signing (`oci_sign.go`) | none | ociCanonical, ociAuthorization | pure |
| the host's loop (outside the repository, `docs/design/specs/provider-abi.md`) | observation, plan, result | observe, plan, execute, poll | the guest |
| OCI and the relay (outside) | resources with etags, Work Requests | read, create, update, action, delete | - |
| operation resolution (`tools/oci-extract/resolve.go`) | method set of an SDK client | Resolve | pure |
| SDK parsing and sweep (`tools/oci-extract/client.go`, `extract.go`, `cmd/`) | a checkout of Oracle's Go SDK | ExtractClientFile, ExtractFile, AuditClientFile, -audit, the sweep's classes | files |
| policy derivation, diff gate (`tools/oci-extract/policy.go`, `diff.go`, `schema.go`) | two schema revisions | DeriveFieldPolicy, DiffConfigSchemas | files |
| the schema pipeline (`mk/golang.mk`, `docs/design/specs/oci-schema-pipeline.md`) | pinned SDK revision, bundles in the tree | bump, audit, `make oci.generate`, diff, review, pin | oci-extract, an operator |
| release manager (`tools/infra.py`, `tools/releaselib/`) | git repository, `project.yaml`, Vault | prepare, finalize, validate | git, Vault |
| release verification (`tools/verify_release.py`, `tools/compiler.py`) | the release's files | check the hash, the manifest, the signatures | files |

### What is hard here

* **Execute is not atomic.** A plan of several operations is several signed
  requests. Between two of them other sessions, Work Requests and people at the
  console change the same resource; any of them may fail after the ones before
  it took effect; the host may stop the guest.
* **Replies get lost.** `actuate` reports an error also for a request that
  Oracle carried out; a reply that does not decode has status 0 and no error.
* **Staleness.** The whole protection against a change decided on stale state is
  one etag in one If-Match header, the same for every request of a run.
* **Asynchrony.** Some operations answer with a Work Request that ends later,
  either way, while other steps of the same run are synchronous.
* **Two halves written apart.** Plan decides which operations a diff forces,
  renderBody decides which fields an operation carries, effectiveConfig decides
  how the result is read back. Reconciliation converges only if the three agree
  for every combination of field policies.
* **Generated contracts.** What the guest accepts and plans comes from bundles
  that a pipeline derives from somebody else's source code. An operation that cannot
  be paired is left out without a word, a model that was renamed is not found, the
  recipe can stop half-way with files already overwritten, and the gate compares two
  bundles while intents admitted under older ones are still with the hosts.
* **Guest memory.** Buffers cross the boundary in both directions; each is allocated
  by one side, written by another, read by a third and freed by a fourth, with early
  returns in between.
* **Release.** Preparation and finalization are long sequences of git and Vault
  calls, each of which can fail, with a clean-up for one of them only.

### What makes the components correct

* planning: nothing to plan exactly when nothing the intent sets differs; the
  planned operations carry every changed field; the most disruptive policy wins.
* read-back: what was written under a policy is read back as the same value.
* sign+send: a revision admits one change; no call changes a resource its
  session did not see; a verdict agrees with its steps; Execute ends.
* loop: an undisturbed run leaves nothing to plan; one intent never has two
  realizations; once others stop, the loop reaches the intent and stays there.
* pipeline: an admitted intent stays admissible over compatible bumps; a pinned bundle
  has the whole surface of the create operation; an admitted intent can be planned.
* memory: every live buffer has exactly one holder; every read sees the bytes of its
  own call.
* release: a tag holds what was signed; main gets nothing but what is tagged; a
  release that is seen through gets out.

## Modules

| module | models | variables |
|---|---|---|
| `ResourceContract` | contracts, Plan, renderBody, effectiveConfig as operators | none |
| `OciService` | Oracle and the host functions, as the provider relies on them | `cloud`, `jobs`, `rev` |
| `Execution` (extends `OciService`) | Observe, Execute, Destroy, Invoke, Poll for several sessions | `obs`, `run`, `polled` |
| `PlanRun` | abstract specification: what those calls promise a session | `plan`, `done`, `verdict` |
| `Reconcile` (extends `Execution`) | the host's loop, with plans computed by Plan | `phase`, `plan`, `stale` |
| `ExecutionProofs` | theorems about `Execution`, among them that it implements `PlanRun` | |
| `OrderLemmas` | lemmas about sets of naturals that several of the proofs need | |
| `PlanningProofs` | theorems about planning (`ResourceContract`) | |
| `ReconcileProofs`, `ConvergenceProofs` | theorems about `Reconcile`: types and one realization; convergence | |
| `Extraction` | oci-extract: pairing, models, Resolve, policies, bundles, the sweep's classes, as operators | none |
| `BundleChecks` | what reads a bundle: contracts, checkEnvelope, Validate, the front of Plan, the diff gate, as operators | none |
| `SchemaPipeline` (extends both) | SDK bumps, `make oci.generate`, the gates, pinning, the intents hosts hold | `sdk`, `source`, `tree`, `pinned`, `audit`, `recipe`, `gate`, `admitted` |
| `AdmittedPlans` (extends `SchemaPipeline`) | the pipeline composed with the planner of `ResourceContract` | |
| `SchemaProofs` | theorems about `SchemaPipeline` and `AdmittedPlans` | |
| `Abi` | the guest's heap across Call and the host calls inside it | `heap`, `ptrs`, `host`, `guest` |
| `AbiProofs` | theorems about `Abi` | |
| `Release` | preparation and finalization of a release over git and Vault, and the developer between runs | `commits`, `branch`, `tag`, `head`, `index`, `work`, `conflict`, `run`, `clock` |
| `ReleaseProofs` | theorems about `Release` | |
| `MCExecution`, `MCReconcile`, `MCSchema`, `MCAbi`, `MCRelease` | instances for TLC | |

### How the state and actions correspond to the code

*A configuration* is a function from the contract's fields to values, `Absent`
for a key that is not there: Plan tells nothing else apart (`valueEqual`).
`Changed`, `PlanOperation` and `PlanOps` are the loop, the escalation and
`planProviderOps` of Plan; the plan's hash is left out, since nothing in the
module reads it.

*A request* is one step, `ActuateSigned`: sign, send, decode. Its outcomes are
the code's: an error of either host function, a reply, or a reply that does not
decode (status 0, no error - `executeOne` takes it for a step done). Which of
them a run allows is the constant `Faults`: `sign` and `actuate` refuse and
leave Oracle alone; `lost` is an error of `actuate` for a request that was
carried out; `garbled` a reply that does not decode; `service` lets Oracle
answer 429 or 500 at any time; `stop` lets the host stop a guest.

*Execute* becomes an action that starts the run and one `ExecuteOne` per planned
operation, because other sessions run in between; `ExecuteReturns` computes the
verdict. Observe, Destroy, Invoke and Poll send a single request and are one
action each. `run[s]` is the `executionResult` of the session's last call
together with the plan and the binding it was called with; `obs[s]` the
observation the host holds; `polled[s]` the Work Requests it knows to have ended.
The status `error` stands for a provider error returned instead of a result.

*Oracle* is external code, modelled from the statuses, headers and conditions the
provider's code handles: every change moves the etag (`rev` counts them), a
conditional request on an older etag gets 412, a resource with a delete in
progress answers 409, one that is gone 404. Asynchronous operations (`Async`)
move the etag when they are accepted and when they end. A body's fields overwrite
and leave the others alone; a create sees only its own body.

*The loop* (`Reconcile`) is host policy. `HostObserves` finds the resource by the
identity of the intent, `HostPlans` calls Plan, `HostExecutes` submits the plan with
the intent and the observed coordinates, `HostConcludes` looks again, or submits the
same plan again after a failed or lost call (`Retried`). `stale[s]` is a history
variable: has anybody but the session changed anything since it observed?

*The pipeline* (`Extraction`, `BundleChecks`, `SchemaPipeline`). A revision of the SDK
is a record: its client files, each with the exported methods and the HTTP calls their
private halves make, and its type declarations. A path is the sequence of its segments,
a name a value; how names are related (`GetVcn` is Get plus Vcn, an action's model is
its operation plus Details) comes in as constant functions (`GetOf`, `DetailsOf`, ...).
Parsing Go source is abstracted to that record; what the extractors then drop, pair and
count is not. `ExtractSchema` is one `oci-extract -schema` of a resource: bundle and
exit status. `SweepClass` is the classification by `cmd/oci-sweep`, which reads the whole
directory instead of the files the recipe names. In `SchemaPipeline` every tool call
is an action: `Bump` moves `OCI_SDK_VERSION`, `Audit` is `oci-extract -audit`, `Generate`
one line of `make oci.generate` (the shell has opened the output file
before the tool fails, so the file changes whatever the exit status, and the recipe stops
there), `Diff` the gate for one resource. What the operator does with the exit statuses is
external and follows the pipeline's specification: everything clean (`Pin`), breaking
changes reviewed (`PinReviewed`, which has the intents adapted), given up (`Discard`).
`Admit` is Validate on the pinned bundles; a host keeps what was admitted. An intent's
values are represented by their JSON kinds, which is all that Validate looks at.
`AdmittedPlans` reads the contracts of the pinned bundles into the operators of
`ResourceContract`.

*Memory* (`Abi`). A buffer's content is a tag that names what was written, for which
call and which host call of it; a pointer is named by the variable that holds it (`op`,
`auth`, `data`, `result` on the host's side, `req`, `out` in hostCall). `allocate` takes any
free address, `deallocate` frees it, and loading from an address that is not live yields
`Garbage`. For no bytes malloc gives the null pointer, as in the C library the guest
is linked with, and freeing that is harmless. Call is `GuestReads` (the three copies and
the dispatch), any number of host calls, each `HostCallStarts`, `HostServes` and
`HostCallReturns`, and `GuestAnswers`. The host's half follows
`docs/contracts/en/host-expectations.md`. The envelope of a result is never empty, so the 0
that pack returns for no bytes is not reachable.

*A release* (`Release`). The repository is git's own state (`commits`, `branch`,
`tag`, `head`, `index`, `work`) over the two tracked files that matter:
project.yaml and the committed module.wasm. A metadata block is its
version, the stamp of its preparation (`build_timestamp` and `checksum`), its build
hash and what its signature covers. `make release` decides by the checked-out branch
alone whether it prepares (`StartPreparation`, on main, clean tree) or finalizes
(`StartFinalization`, on the release branch, valid project.yaml); from there every
call of git is an action (`CreateBranch`, `StageProject`, ..., `DeleteBranch`), since
each can fail on its own, and `run.at` says which comes next. `Git` is the common
form of such a call: it is carried out; it is carried out and reported as failed (the
60 second timeout of `_run_raw`); or it fails. A failed preparation goes on to
`UndoCheckout` and `DropBranch`, a failed finalization just ends. `Interrupt` ends a
run without clean-up, because the code catches `Exception` only. What git itself
refuses (switching over local changes, deleting the checked-out branch, empty
commits, second tags) is external and modelled from git's documented behaviour. The
developer's actions are what the Makefile and the messages of the preparation
ask for (`Build`, `CommitByHand`) and what developers do anyway
(`Switch`, `Restore`, `RemoveSpec`); `Habits` says which a run allows.

## Runs

`MCExecution` uses two fields (mutable and action-managed) of the vcn bundle,
`MCReconcile` one field of each of the four policies.

| run | configuration | what it shows |
|---|---|---|
| `calls` | `MCReplace` | `TypeOK`, `HonestVerdict`: no verdict contradicts its steps under signing errors, undecodable replies, stopped guests, throttling, asynchronous deletes that may fail, edits by others. `ExecuteComesBack`, `RunsPlanVerbatim`: Execute ends, and `Execution` implements `PlanRun` with its fairness |
| `race` | `MCRace` | `OneWinnerPerRevision`, `NoSilentOverwrite` for two sessions with lost replies and stopped guests |
| `loop` | `MCLoop` | from all 16 differences between intent and resource, two sessions with If-Match, an asynchronous action, a foreign writer: `CleanRunConverges`, and `Settles`: once the others stop, the loop reaches the intent and keeps it; `LoopTypeOK` |
| `one_realization` | `MCOneRealization` | `OneRealization` when replacements fail, get lost and are retried; `CleanRunConverges` there too, with and without If-Match |
| `own_conflict` | `MCConflict` | violation of `ApprovedPlanCompletes` |
| `never_created` | `MCProvision` | violation of `GetsProvisioned` |
| `schema` | `MCSchema` | over any history of bumps between 30 SDK revisions, runs of the tools and admissions: `AdmittedStaysAdmissible` (the gate keeps its promise), `CreateSurfaceIsWhole` (no bundle that looks valid and is not), `PinnedIsExtractable` (what is pinned the sweep can read, unless a body is declared otherwise than named), `AdmittedIsPlannable` (Validate and Plan agree); `TypeOK` |
| `abi` | `MCAbi` | `Ownership` (no leak, no double free, no aliasing on any path) and `RightBytes` (nobody reads freed memory or another call's bytes), with failing host calls and hosts that give up |
| `release` | `MCRelease` | `SignedAsTagged` under every failure and every habit: a tag's signature covers exactly the metadata beside it; `MergesOnlyTagged` although finalizations are run again after a failure between tag and merge; `TypeOK` |
| `release_gets_out` | `MCReleases` | `Releases` without failures, whatever of project.yaml is committed by hand on the way |
| `release_spec_key` | `MCSpecKey` | violation of `Releases` |
| `release_binary` | `MCBinary` | violation of `TagBindsBinary` |

### Where code and documents disagree

1. **A plan of several operations conflicts with itself.** `executeOne` sends the
   same If-Match with every operation. The first one moves the etag, so the second
   gets 412 and the run fails half-way, although Execute promises to run the
   approved plan verbatim and Plan produces such plans. The loop still gets there
   (`Settles`), one operation per round; a caller that plans once does not.
2. **Nothing is ever created.** Plan knows no `create`; with no resource the plan
   is a replacement, whose delete fails first.
3. **What the preparation writes fails the finalization.** The preparation copies the
   source spec to the top level of project.yaml, the schema admits no such key, and the
   finalization validates against that schema. Only an edit nobody asks for
   (`RemoveSpec`) gets a release out; `release_gets_out` therefore allows it.
4. **A tag need not hold the binary it signs.** Finalization commits project.yaml
   alone; a new build that was not committed by hand stays in the working tree.

Each of the four is a run that violates a property. A fifth one is not a run of its own:
the document of the pipeline (`docs/design/specs/oci-schema-pipeline.md:265-268`) says that
a body comes from the tag in its request struct, never from a name, but `make oci.generate`
passes no file that declares a request, so `requestBodyModel` always falls back to
`<Operation>Details`. A revision in which the create operation sends a new model while
the old one stays declared (`resent` in `MCSchema`) passes audit, extraction and gate, and
is pinned with the surface of the old one. The sweep, which reads the whole directory,
sees the new one; nothing compares the two. `CreateSurfaceIsWhole` leaves such an operation
out (`BodyIsNamed`); without that conjunct TLC finds the revision.

### What no property asks for

Behaviour worth knowing that is neither promised nor checked here:

* A replacement re-creates the resource from the intent; fields the intent leaves
  unmanaged are gone afterwards (`renderBody`).
* An input-only field without a correspondence is replaced for ever: no read shows
  it, so it differs in every observation. effectiveConfig leaves such fields out, and only
  `isIpv6Enabled` has a rule (`correspondence.go`); vcn's `isOracleGuaAllocationEnabled` has
  none. `updateOperationConstraint` of an instance is mutable and never read back: one
  update per round, for ever.
* A reply of actuate that does not decode has status 0 and no error; `executeOne` counts it
  as a step done. A delete answered like this is followed by the create although nothing
  may have been deleted.
* Execute and Plan are joined by the host alone: `plan_id` is not compared with
  plan, configuration and observation.
* `typeToSchema` gives named SDK types such as SDKTime the type "object" although they
  marshal to strings, so Validate refuses the value Oracle takes.
* `contracts.go` says that a bundle has exactly one operation per role. An extraction
  whose client has lost the update or delete operation exits with 0, and the diff gate
  does not look at operations.
* A missing *update* body model (renamed, an alias) is no gap, unlike a missing create model.
  Mutable fields then silently become create-only, the gate calls that compatible, and the next
  edit of such a field plans a replacement.
* A field's `x-cic-action` is the name of a model with Details trimmed; when several
  operations share a model it need not be the name of an operation.
* `oci-sweep -write-schemas` writes bundles whose update model is polymorphic.
* Create renders every field the intent sets, also those the create model lacks.
* Finalization changes project.yaml after the last moment at which MANIFEST.sha256
  could be updated.
* An interrupted preparation leaves a branch with main's project.yaml, which can be
  finalized; the branch's name is all that the next run looks at.
* A preparation run a second time fails on the existing branch, and its clean-up deletes
  that branch by force.

### Bounds

* `MaxRev`: requests that would move an etag past it are answered 429, an answer
  the code handles anyway, so the bound cuts no behaviour into a shape the
  program cannot see. Two changes are enough for two sessions to race on one
  etag with a foreign write first, three for a replacement next to one; the loop's runs allow six, enough for a
  foreign write, a replacement and the next round. `loop`
  allows twelve, so that the bound is not what ends a loop before it has settled.
* `ForeignRev`: others write while the etag is below it. In `loop` this is
  the "once others stop" of the property.
* `ResId`: a create without an unused id is answered 400. Three ids: the resource,
  its replacement, and the second one `OneRealization` forbids.
* `JobId`: one Work Request, in `loop` one per session; one more is throttled.
* `Conditional`: do hosts send the etag? Always in `loop`, both ways in
  `one_realization`; a session without it is not protected from the other, which is
  why `Settles` is asked of the first.
* `Session`: two wherever an interleaving matters; the properties speak of pairs.
* `Plans`: in `MCExecution` one edit of one and one of two operations, or an edit
  and a replacement; in `Reconcile` whatever Plan computes.
* `Sdk`: two resources (Vcn and Instance: different client files, PUT and POST
  updates, a create by another name, a List operation each) and 30 revisions. The
  first one and 21 others (`NamedBodies`), one for every way in which a single edit changes what the
  extractor sees: a field added, made mandatory, retyped, moved between policies, removed; a model
  polymorphic, unreadable, renamed, missing, an alias; an operation or one half of it gone.
  Eight more (`OtherBodies`) whose edit is in a file the recipe does not name: a request or response
  that is gone or declares another body, readable, polymorphic or not declared at all, with
  and without a List operation that still returns the resource; `MCDisagreements` says that
  all of them get through audit and recipe, and what the sweep makes of them. Bumps lead from
  any revision to any other, so differences of two edits occur between them.
* `MaxAdmitted`: one intent a host keeps, admitted under any of the bundles before; the
  properties speak of one at a time, and nothing a host does with one depends on another.
* `Ptr`: six addresses; no more than five buffers are live at once (three arguments,
  request and reply), so an allocation always has a choice. `MaxCalls`, `MaxHostCalls`: two
  each, for buffers that survive into the next one. After the last call the host stops,
  and only for that the run has `CHECK_DEADLOCK FALSE`.
* `MaxCommit`, `MaxStamp`: no run that needs a commit and no commit by hand is started
  past the bounds, so a run never fails because of them. Five commits are the first
  one, a preparation, two finalizations (a failed one and its repetition) or one and
  an edit by hand, and the merge. Two preparations are enough for a second one to
  meet the branch of the first. In `release_gets_out` the ten commits are never used
  up: without `Restore` there are only so many states of project.yaml.
* `Version`: one. Two releases share only main, whose other changes are the
  commits by hand. `Binary`: two builds in `release_binary`, where the binary matters.
* `Salt`: two signatures over the same data may differ; one where it does not matter.

### Fairness

`Fairness` asks that a guest inside Execute goes on. The guest is single-threaded
code between two host functions that return; nothing else can hold it up. It does not
ask that the host calls anything, that requests succeed, or that Work Requests end.
`LoopFairness`, for `Settles` and `GetsProvisioned` alone, adds that the host
keeps its loop going and that Work Requests end. `HostAborts`, foreign writes and
failures are never fair. Nothing is fair in `SchemaPipeline`, whose steps are an
operator's, and `Abi` asks for safety only. In `Release` a run goes on by itself and the developer
starts the next one while there is no tag, builds while there is no build hash and takes
the spec out; `Releases` is a property of releases somebody sees through. It is checked
without failures and with project.yaml as the only file edited: a module
that is dirty at the finalization makes git refuse the switch to main after the tag was
made, and since the tag then exists the finalization cannot be repeated.

## Proofs

`tlapm` checks every theorem for all values of the constants that satisfy the
named assumptions: `ContractAssumption` (what holds of the committed bundles: one
operation per role, action fields name operations), `ActionAssumption` (the operation a
field names is an action, none of the four roles; true of the three bundles, where
`compartmentId` is the only such field), `RecipeAssumption` (the recipe names
every resource once), `SdkAssumption` (every revision has the client files, paths are
sequences of segments, every method has one place in the string order),
`FieldOrderAssumption` and `NamesAssumption` (so has every field), `SeenAssumption`
(observations come in a proper envelope), `StandInAssumption` (the names that stand for a
missing operation are no operation's), `OciAssumption`, `ExecutionAssumption`, `ReconcileAssumption` and
`AbiAssumption` (the constants' types), `ReleaseAssumption` (types, and no release
branch is called main). TLC evaluates them in every run that uses them.

Some theorems presuppose more than that. These hypotheses are defined at the end of the
module they are about, and the instances assume them too (`MCInstance` in `MCReconcile`
and `MCSchema`), so that TLC finds them true of every instance it checks:

* `DerivationsAreCreateTime`, `ActionsAreNamed`: true of the committed bundles and
  correspondences.
* `IntentsAreReadable`: an intent sets only what a read shows. The bundles do have fields
  that no read shows (see below); an intent that sets one never converges, so the hypothesis
  says for which intents the loop works.
* `RepliesAreReadable`, `DeletesAreAnswered`: no reply of a request is lost in decoding; the
  delete of a replacement is not a Work Request. Without the first a run reports success
  for a request that failed, without the second the create overtakes the delete.
* `CallsRespond`, `ClientsHaveMethods`, `ActionModelsAreNamed`: how Oracle's
  generator names the models of actions and lays out client files. The guest and the extractor rely
  on them without checking.
* `RecipeNamesModels`: the files that `mk/golang.mk` names are models and clients; none declares
  a response.
* `OthersOnlyList`: Get<Resource> is of the client file the recipe names, and whatever else
  returns the resource has a path that does not end in a parameter, like List<Resource>,
  whose `[]<Resource>` `lastIdent` reduces to the resource too. The sweep takes the first
  reader by name and needs one whose path has a collection above it.
* `CollectionsAreKept`: what is posted to the collection of a resource is of the client file that
  reads it. Otherwise the first match in a whole directory may be another one than in one file.

| theorem | statement | argument |
|---|---|---|
| `TypeCorrect` | `Spec => []TypeOK` | inductive as it stands; one lemma per operator of the service and of the provider that gives the type of what it returns |
| `RevisionsAdmitOne` | `Spec => []OneWinnerPerRevision` | `OneWinnerPerRevision` is not inductive: nothing in it keeps a session from winning again under an etag that is current again. `RaceInv` adds `EtagsIssued` (no etag is ahead of `rev`, so a new one is really new) and `Consumed` (a resource has moved past every revision under which a step won). A second winner would need the resource at a revision it has left |
| `NeverOverwrites` | `Spec => NoSilentOverwrite` | an action property: every step that both changes a session's result and a resource is an `ActuateSigned`, and the service commits only what the request names and its If-Match allows |
| `VerdictsAreHonest` | `Spec => []HonestVerdict` | inductive with `TypeOK`; one step per action, one lemma for the single-request calls and one for a further step of Execute |
| `ImplementsPlanRun` | `Spec => PlanRunOf!Spec` | refinement: `done` is the prefix of steps without an error (`DoneOf`), and `HonestVerdict` is what makes `ExecuteReturns` a `Complete` and a failed step a `Fail` |
| `PlanCarriesDiff` | every field in which intent and observation differ is in the body of a planned operation, unless it has no operation to change it | no induction: the ranks of n fields in the name order are n different numbers below n (`PlaceFacts`), so `ActionOps` lists the operation of every changed field; the choice of the most disruptive operation is a case split over `Rank` |
| `LoopTypeCorrect` | `LoopSpec => []LoopTypeOK` | `PlanForFacts` gives the type of what Plan computes; all other steps are steps of `Execution` |
| `OneRealizationHolds` | `LoopSpec => []OneRealization`, if replies decode and the delete is synchronous (`DeletesAreAnswered`) | `OneRealization` alone is lost by any create. `OneClaim` hands one claim around: either a resource is live, or one run has deleted and not yet created (`Holding`). A delete passes the claim from the resource to the run, because it succeeds only on a live resource; the create passes it back. `PlansAreComputed` says that no other run contains a create (a plan is a replacement or edits only), `NothingPending` that no Work Request can bring a deleted resource back |
| `UndisturbedRunsConverge` | `LoopSpec => []CleanRunConverges`, for every set of faults without undecodable replies (`RepliesAreReadable`), and if `DerivationsAreCreateTime`, `ActionsAreNamed`, `IntentsAreReadable` | `CleanRunConverges` looks at the end of a run. `ConvergenceInv` says what is true on the way: as long as nobody else touches the resource, every field in which it still misses the intent is in the body of an operation that the plan has yet to send, or of a Work Request of this run that has not ended well. A step sends one operation and removes its fields from what is missing (`OverlayNears`, `ProvisionedFits`); a foreign step makes the session stale and ends the obligation. With nothing left to send and every Work Request succeeded nothing is missing, and `PlanCarriesDiff` is what establishes it when the plan is made |
| `GateKeepsAdmitted` | `Spec => []AdmittedStaysAdmissible` of `SchemaPipeline` | `GateInv` follows the recipe: what it has done is well-formed, gates exist only for a finished recipe, and a clean gate means that pinned and tree differ in nothing breaking. The lemma behind it: whoever conforms to a contract conforms to one that breaks nothing. Holds whatever the extractor yields |
| `PipelineTypeCorrect` | `Spec => []TypeOK` of `SchemaPipeline` | part of the same induction |
| `PinnedFromOneRevision` | `Spec => []Provenance`: the pinned bundles are all those of the revision `source`, which passed the audit and was extracted without a gap | what the recipe has done so far is from the revision the bump names, a gate runs only when it is through, and a pin needs every gate and the audit; so no mixture of two revisions is ever pinned |
| `CreateSurfacesAreWhole` | `Spec => []CreateSurfaceIsWhole`, if `CallsRespond` | by `Provenance` a statement about one extraction without a gap (`ExtractedIsWhole`): the operation with the role create is the one posted to the collection, since update, delete and actions are at other paths or other places (`CreateIsListed`), and its model, found by either way of `requestBodyModel`, is the declared body if that is the one its name leads to (`CreateModelIsBody`) |
| `PinnedAreExtractable` | `Spec => []PinnedIsExtractable`, if `ClientsHaveMethods`, `RecipeNamesModels`, `OthersOnlyList`, `CollectionsAreKept` | by `Provenance` again. Nothing is presupposed of the bodies that requests and responses declare: the theorem says that a redeclared one is all that may come between recipe and sweep. The sweep lists exactly the operations of the client files (`SweepIsComplete`). The recipe knows no response and reads by name (`RecipeReadsByName`); the sweep's reader is Get<Resource>, or a List operation, whose path has no collection above it, so that the resource is class B (`ReadOrListed`, `SweptReader`). The collectors are those of the recipe (`SweptCollectors`, `PicksAgree`), and a create model that is not redeclared is the one the recipe found (`CreateModelIsSwept`) |
| `PinnedArePlannable` | every policy of a pinned bundle finds the operation it calls for, and no role has two | by `Provenance`: an update model comes from an update operation, a create-only field from a create operation, an action field from the model its operation is named after |
| `AdmittedArePlannable` | `Spec => []AdmittedIsPlannable`, if `ClientsHaveMethods`, `ActionModelsAreNamed` | the gate's promise (the intent is admissible under what is pinned now) and `PinnedArePlannable` give the planner what it assumes of a contract. The planner is an instance of `ResourceContract` whose constants are the contract at hand, so the assumptions of that module, and with them `PlanCarriesDiff`, are not available; its definitions are unfolded one lemma each (`PlannerChanged` to `PlannerOps`) and the argument is made for the contract as a parameter |
| `BuffersOwned` | `Spec => []Ownership` of `Abi` | `Phases` says which pointer variables are in use where host and guest stand; `Ownership` alone does not exclude a step that overwrites a pointer in use |
| `BytesAreRight` | `Spec => []RightBytes` of `Abi` | `Contents` adds what every live buffer holds, so that a read finds what was written |
| `TagsAreSigned` | `Spec => []SignedAsTagged` of `Release` | `SignatureOnItsWay` follows the signature: at each place of a finalization it says which of working tree, index and head carries a signature that covers the metadata beside it, and the tag is put on that head. `Room` says that a run was only started where its commits fit the bounds |
| `OnlyTaggedIsMerged` | `Spec => MergesOnlyTagged` | an action property, from `TipIsTagged`: from the tag to the merge the tip of the release branch is the tagged commit |
| `ReleaseTypeCorrect` | `Spec => []TypeOK` of `Release` | part of the same induction |

Every invariant and action property of the passing runs is stated by one of these theorems.
Only model-checked: everything about liveness (`ExecuteComesBack`, `Settles`,
`Releases`, the fairness half of `RunsPlanVerbatim`), which is out of the prover's reach;
what happens in the instances when a hypothesis above does not hold of the code (undecodable
replies, asynchronous deletes: `calls`); and what the violation runs refute.

## Not modelled, and why

* `checkBinding` and the decoding of requests to the operations that sign and send: the
  modelled host fills these requests correctly. The provider errors of a missing binding
  are therefore not among the outcomes. checkEnvelope is modelled where it decides
  something: in Validate and Plan (`BundleChecks`).
* Parsing and encoding: JSON, Go syntax, signing text, plan hashes. `oci_sign.go` is a
  pure formatting function of one request; that signing can fail is part of `ActuateSigned`.
* Memory that runs out and a host that times out inside a call: the instance is not used
  again after either.
* The sweep's report and its `-write-schemas` output: it is a survey whose files nothing reads. Its classes
  are modelled (`SweepClass`).
* The schema library and the legacy release scripts and hooks: linear validators and shell
  scripts over one file, without state of their own.
* Statuses 3xx, which `executeOne` counts as done and Oracle does not answer.
* A contract without an operation for a role; the generated bundles have all four.
* Asynchronous deletes in `one_realization` and `OneRealizationHolds`: Execute does not wait between steps, so
  a create may be sent while the delete is only accepted. Two live resources are then
  possible when the Work Request fails; no document promises otherwise.

* Dry runs of the release manager and `run_validation`, which change nothing; the
  Vault protocol beyond success and failure; exports and provenance in
  `verify_release.py`, which only report.
* Local changes of untracked files, detached heads and remotes.

## Plan

In this order; done items first.

1. `ResourceContract`, `OciService`, `Execution`, `PlanRun` and their proofs - done.
2. `Reconcile` - done.
3. `Release` and what `verify_release.py` checks of a tag - done.
4. `Extraction`, `BundleChecks`, `SchemaPipeline`, `AdmittedPlans`: from SDK to admitted
   intent and its plan; `SchemaProofs` - done.
5. `Abi` and `AbiProofs` - done.
6. `ReleaseProofs` - done.
7. `PlanningProofs` and `ReconcileProofs` - done.
8. `CleanRunConverges` for every contract (`ConvergenceProofs`) - done.
9. What is pinned, for every SDK: the create surface, the sweep, the planner (`SchemaProofs`) - done.
10. `CreateSurfaceIsWhole` speaks of the create operation; the same for the update operation
    would state when a missing update body goes unnoticed.
11. `OneRealization` with asynchronous deletes: under which conditions on the Work Request a
    create cannot overtake the delete.
