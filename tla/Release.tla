------------------------------- MODULE Release -------------------------------
(***************************************************************************)
(* The release manager (tools/infra.py) at work on a git repository: a     *)
(* developer runs "make release" once on the main branch, which prepares a *)
(* release branch, builds the module there, and runs it again on that      *)
(* branch, which signs, tags and merges.  Between two runs the developer   *)
(* does what developers do; during a run every call of git or Vault may    *)
(* fail, a git call may time out although it took effect, and the process  *)
(* may be interrupted.                                                     *)
(*                                                                         *)
(* Two tracked files matter: project.yaml and the committed module.wasm.   *)
(* Each git call of a run is a step of its own.                            *)
(***************************************************************************)
EXTENDS Naturals, Sequences, FiniteSets

CONSTANTS
  Version,     \* versions that are released
  Template,    \* the version in project.yaml before the first release
  Binary,      \* builds of module.wasm, the first one committed already
  FirstBuild,
  Salt,        \* what may tell two signatures over the same metadata apart
  Faults,      \* what may go wrong during a run
  Habits,      \* what the developer does between runs
  MaxCommit,   \* bound: no run and no commit is started past it
  MaxStamp     \* bound: number of preparations

NoBuild == "none"

Main == "main"

ASSUME ReleaseAssumption ==
  /\ Template \notin Version /\ Main \notin Version
  /\ FirstBuild \in Binary /\ NoBuild \notin Binary
  /\ Salt # {} /\ Salt \subseteq Nat \ {0}
  /\ Faults \subseteq {"git", "late", "vault", "kill"}
  /\ Habits \subseteq {"build", "spec", "project", "all", "switch", "restore"}
  /\ MaxCommit \in Nat \ {0} /\ MaxStamp \in Nat

Branch == {Main} \cup Version

File == {"project", "wasm"}

VARIABLES
  commits,   \* every commit: its tree and the commits it descends from
  branch,    \* branch -> its tip, 0 without one
  tag,       \* version -> the tagged commit, 0 without one
  head,      \* the branch that is checked out
  index,     \* the staged tree
  work,      \* the working tree
  conflict,  \* is a merge waiting for the developer?
  run,       \* the run of "make release": its version and where it is
  clock      \* preparations so far: the build_timestamp

tree == <<head, index, work, conflict>>

vars == <<commits, branch, tag, head, index, work, conflict, run, clock>>

-----------------------------------------------------------------------------
(* Files. *)

\* The part of the metadata a signature covers.  A signature that leaves the
\* buildHash out covers NoBuild.
Payload == [version : Version \cup {Template}, stamp : 0 .. MaxStamp,
            buildHash : Binary \cup {NoBuild}]

\* The template's "TBD".
NoSignature == [over |-> [version |-> Template, stamp |-> 0, buildHash |-> NoBuild],
                salt |-> 0]

Signature == [over : Payload, salt : Salt] \cup {NoSignature}

\* stamp 0: build_timestamp and checksum are still the template's TBD.
Project == [version : Version \cup {Template}, stamp : 0 .. MaxStamp,
            buildHash : Binary \cup {NoBuild}, sign : Signature, spec : BOOLEAN]

SigningPayload(p) == [version |-> p.version, stamp |-> p.stamp, buildHash |-> p.buildHash]

Tree == [project : Project, wasm : Binary]

TemplateProject == [version |-> Template, stamp |-> 0, buildHash |-> FirstBuild,
                    sign |-> NoSignature, spec |-> FALSE]

FirstTree == [project |-> TemplateProject, wasm |-> FirstBuild]

\* What the preparation makes of project.yaml: the build hash is reset, the resolved
\* source spec is copied in, the signature covers the source's checksum only.
PreparedProject(v, stamp, salt) ==
  [version |-> v, stamp |-> stamp, buildHash |-> NoBuild, spec |-> TRUE,
   sign |-> [over |-> [version |-> v, stamp |-> stamp, buildHash |-> NoBuild],
             salt |-> salt]]

\* project.schema.yaml admits no further key at the top level.
SchemaValid(p) == ~p.spec

\* What the finalization demands of project.yaml.
Finalizable(p) == SchemaValid(p) /\ p.buildHash # NoBuild

-----------------------------------------------------------------------------
(* Git. *)

TreeOf(b) == commits[branch[b]].tree

PastOf(b) == commits[branch[b]].past

HeadTree == TreeOf(head)

IsDirty == conflict \/ work # HeadTree \/ index # HeadTree

\* A branch can be checked out if no locally changed file differs between the two.
CanCheckout(b) ==
  /\ branch[b] # 0 /\ ~conflict
  /\ \A f \in File :
       work[f] # HeadTree[f] \/ index[f] # HeadTree[f] => TreeOf(b)[f] = HeadTree[f]

Moved(t, from, to) == [f \in File |-> IF from[f] = to[f] THEN t[f] ELSE to[f]]

Checkout(b) ==
  /\ head' = b
  /\ work' = Moved(work, HeadTree, TreeOf(b))
  /\ index' = Moved(index, HeadTree, TreeOf(b))
  /\ UNCHANGED <<commits, branch, tag, conflict>>

Add(files) == [f \in File |-> IF f \in files THEN work[f] ELSE index[f]]

\* The staged tree becomes a commit on the current branch, with the given parents.
CommitTree(t, past) ==
  /\ commits' = Append(commits, [tree |-> t, past |-> past \cup {Len(commits) + 1}])
  /\ branch' = [branch EXCEPT ![head] = Len(commits) + 1]

CanCommit == ~conflict /\ index # HeadTree

Commit == CommitTree(index, PastOf(head)) /\ UNCHANGED <<tag, tree>>

\* The best common ancestor of two branches is the last one.
MergeBase(a, b) ==
  CHOOSE c \in PastOf(a) \cap PastOf(b) : \A d \in PastOf(a) \cap PastOf(b) : d <= c

Clashes(base, ours, theirs) ==
  {f \in File : ours[f] # base[f] /\ theirs[f] # base[f] /\ ours[f] # theirs[f]}

MergedTree(base, ours, theirs) ==
  [f \in File |-> IF ours[f] = base[f] THEN theirs[f] ELSE ours[f]]

-----------------------------------------------------------------------------
(* A run of "make release". *)

Idle == run.at = "idle"

At(place) == run.at = place

Goto(place) == run' = [run EXCEPT !.at = place]

\* Mutant of OnFailure: the clean-up does not go back to the base branch first.
OnFailureDrop == IF run.phase = "prepare" THEN "drop" ELSE "idle"

\* A failure of the preparation is followed by a clean-up; a failure of the
\* finalization just ends the run.
OnFailure == IF run.phase = "prepare" THEN "undo" ELSE "idle"

\* A git command that can be carried out is, or fails before or after; one that
\* cannot fails.
Git(can, effect, next, failed) ==
  \/ can /\ effect /\ Goto(next)
  \/ can /\ "late" \in Faults /\ effect /\ Goto(failed)
  \/ /\ ~can \/ "git" \in Faults
     /\ Goto(failed)
     /\ UNCHANGED <<commits, branch, tag, tree>>

\* Started on main, a run prepares the release, and only from a clean tree.
StartPreparation(v) ==
  /\ Idle /\ head = Main /\ ~IsDirty
  /\ clock < MaxStamp /\ Len(commits) < MaxCommit
  /\ run' = [version |-> v, phase |-> "prepare", at |-> "branch"]
  /\ UNCHANGED <<commits, branch, tag, tree, clock>>

\* Started on the release branch of its version, a run finalizes the release,
\* if project.yaml is valid as it stands in the working tree.
StartFinalization(v) ==
  /\ Idle /\ head = v
  /\ Finalizable(work.project)
  /\ Len(commits) + 2 <= MaxCommit
  /\ run' = [version |-> v, phase |-> "finalize", at |-> "sign"]
  /\ UNCHANGED <<commits, branch, tag, tree, clock>>

CreateBranch ==
  /\ At("branch")
  /\ Git(branch[run.version] = 0,
         /\ branch' = [branch EXCEPT ![run.version] = branch[head]]
         /\ head' = run.version
         /\ UNCHANGED <<commits, tag, index, work, conflict>>,
         "prepare", "undo")
  /\ UNCHANGED clock

\* Source, certificates and signature are there, or nothing is written.
PrepareProject ==
  /\ At("prepare")
  /\ clock' = clock + 1
  /\ \/ /\ \E salt \in Salt :
             work' = [work EXCEPT !.project = PreparedProject(run.version, clock', salt)]
        /\ Goto("stage")
     \/ "vault" \in Faults /\ Goto("undo") /\ UNCHANGED work
  /\ UNCHANGED <<commits, branch, tag, head, index, conflict>>

\* Mutant of ResignProject: the payload of the preparation is signed again.
ResignProjectAsPrepared ==
  /\ At("sign")
  /\ \/ /\ \E salt \in Salt :
             work' = [work EXCEPT !.project.sign =
                        [over |-> [SigningPayload(work.project) EXCEPT !.buildHash = NoBuild],
                         salt |-> salt]]
        /\ Goto("look")
     \/ "vault" \in Faults /\ Goto("idle") /\ UNCHANGED work
  /\ UNCHANGED <<commits, branch, tag, head, index, conflict, clock>>

\* The signature is renewed to cover the build hash as well.
ResignProject ==
  /\ At("sign")
  /\ \/ /\ \E salt \in Salt :
             work' = [work EXCEPT !.project.sign =
                        [over |-> SigningPayload(work.project), salt |-> salt]]
        /\ Goto("look")
     \/ "vault" \in Faults /\ Goto("idle") /\ UNCHANGED work
  /\ UNCHANGED <<commits, branch, tag, head, index, conflict, clock>>

\* Nothing to commit: the finalization goes on to the tag.
LookForChanges ==
  /\ At("look")
  /\ \/ Goto(IF IsDirty THEN "stage" ELSE "tag")
     \/ "git" \in Faults /\ Goto("idle")
  /\ UNCHANGED <<commits, branch, tag, tree, clock>>

StageProject ==
  /\ At("stage")
  /\ Git(TRUE, /\ index' = Add({"project"})
               /\ UNCHANGED <<commits, branch, tag, head, work, conflict>>,
         "commit", OnFailure)
  /\ UNCHANGED clock

CommitProject ==
  /\ At("commit")
  /\ Git(CanCommit, Commit, IF run.phase = "prepare" THEN "idle" ELSE "tag", OnFailure)
  /\ UNCHANGED clock

\* Mutant of CreateTag: a tag that is there already is taken for the release's own.
CreateTagIfMissing ==
  /\ At("tag")
  /\ IF tag[run.version] = 0
       THEN tag' = [tag EXCEPT ![run.version] = branch[head]]
       ELSE UNCHANGED tag
  /\ Goto("return")
  /\ UNCHANGED <<commits, branch, tree, clock>>

CreateTag ==
  /\ At("tag")
  /\ Git(tag[run.version] = 0,
         /\ tag' = [tag EXCEPT ![run.version] = branch[head]]
         /\ UNCHANGED <<commits, branch, tree>>,
         "return", "idle")
  /\ UNCHANGED clock

\* Mutant of ReturnToMain: the merge starts without going back to main.
StayOnBranch ==
  /\ At("return") /\ Goto("merge")
  /\ UNCHANGED <<commits, branch, tag, tree, clock>>

ReturnToMain ==
  /\ At("return")
  /\ Git(CanCheckout(Main), Checkout(Main), "merge", "idle")
  /\ UNCHANGED clock

\* merge --no-ff: refused over local changes, nothing to do, a conflict the
\* developer has to settle, or a commit with two parents.
MergeRelease ==
  /\ At("merge")
  /\ LET release == run.version
         base    == commits[MergeBase(head, release)].tree
         clashes == Clashes(base, HeadTree, TreeOf(release))
         merged  == MergedTree(base, HeadTree, TreeOf(release))
         free    == /\ ~conflict /\ index = HeadTree
                    /\ \A f \in File : work[f] # HeadTree[f] => merged[f] = HeadTree[f]
         already == branch[release] \in PastOf(head)
     IN  \/ /\ already
            /\ Git(TRUE, UNCHANGED <<commits, branch, tag, tree>>, "delete", "idle")
         \/ /\ ~already /\ free /\ clashes # {}
            /\ conflict' = TRUE /\ Goto("idle")
            /\ UNCHANGED <<commits, branch, tag, head, index, work>>
         \/ /\ ~already /\ (free => clashes = {})
            /\ Git(free, /\ CommitTree(merged, PastOf(head) \cup PastOf(release))
                         /\ work' = Moved(work, HeadTree, merged)
                         /\ index' = merged
                         /\ UNCHANGED <<tag, head, conflict>>,
                   "delete", "idle")
  /\ UNCHANGED clock

Deleted(b) ==
  branch' = [branch EXCEPT ![b] = 0] /\ UNCHANGED <<commits, tag, tree>>

DeleteBranch ==
  /\ At("delete")
  /\ Git(run.version # head /\ branch[run.version] \in PastOf(head),
         Deleted(run.version), "idle", "idle")
  /\ UNCHANGED clock

\* The clean-up of a failed preparation: back to the base branch, then the release
\* branch is deleted by force, whoever created it.
UndoCheckout ==
  /\ At("undo")
  /\ Git(CanCheckout(Main), Checkout(Main), "drop", "idle")
  /\ UNCHANGED clock

DropBranch ==
  /\ At("drop")
  /\ Git(branch[run.version] # 0 /\ run.version # head,
         Deleted(run.version), "idle", "idle")
  /\ UNCHANGED clock

\* An interrupt is no Exception: no clean-up follows.
Interrupt ==
  /\ ~Idle /\ "kill" \in Faults
  /\ Goto("idle")
  /\ UNCHANGED <<commits, branch, tag, tree, clock>>

RunStep ==
  \/ CreateBranch \/ PrepareProject \/ StageProject \/ CommitProject
  \/ ResignProject \/ LookForChanges \/ CreateTag \/ ReturnToMain
  \/ MergeRelease \/ DeleteBranch \/ UndoCheckout \/ DropBranch

-----------------------------------------------------------------------------
(* The developer between runs. *)

MayEdit(habit) == Idle /\ ~conflict /\ habit \in Habits

EditsOnly == UNCHANGED <<commits, branch, tag, head, index, conflict, run, clock>>

\* make wasm.build: the module is compiled and set-build-hash notes its hash.
Build(b) ==
  /\ MayEdit("build")
  /\ work' = [work EXCEPT !.wasm = b, !.project.buildHash = b]
  /\ EditsOnly

\* The key the schema does not admit is taken out of project.yaml by hand.
RemoveSpec ==
  /\ MayEdit("spec")
  /\ work' = [work EXCEPT !.project.spec = FALSE]
  /\ EditsOnly

\* project.yaml or everything is committed by hand.
CommitByHand(files) ==
  /\ Idle /\ ~conflict /\ Len(commits) < MaxCommit
  /\ \/ files = {"project"} /\ "project" \in Habits
     \/ files = File /\ "all" \in Habits
  /\ Add(files) # HeadTree
  /\ index' = Add(files)
  /\ CommitTree(Add(files), PastOf(head))
  /\ UNCHANGED <<tag, head, work, conflict, run, clock>>

Switch(b) ==
  /\ MayEdit("switch") /\ b # head /\ CanCheckout(b)
  /\ Checkout(b)
  /\ UNCHANGED <<run, clock>>

\* Local changes, or a merge that does not go through, are given up.
Restore ==
  /\ Idle /\ "restore" \in Habits /\ IsDirty
  /\ work' = HeadTree /\ index' = HeadTree /\ conflict' = FALSE
  /\ UNCHANGED <<commits, branch, tag, head, run, clock>>

-----------------------------------------------------------------------------

Init ==
  /\ commits = <<[tree |-> FirstTree, past |-> {1}]>>
  /\ branch = [b \in Branch |-> IF b = Main THEN 1 ELSE 0]
  /\ tag = [v \in Version |-> 0]
  /\ head = Main
  /\ index = FirstTree /\ work = FirstTree
  /\ conflict = FALSE
  /\ run \in [version : Version, phase : {"prepare"}, at : {"idle"}]
  /\ clock = 0

Starts(v) == StartPreparation(v) \/ StartFinalization(v)

Develops ==
  \/ \E b \in Binary : Build(b)
  \/ RemoveSpec \/ Restore
  \/ \E files \in {{"project"}, File} : CommitByHand(files)
  \/ \E b \in Branch : Switch(b)

Next == \/ \E v \in Version : Starts(v)
        \/ RunStep \/ Interrupt \/ Develops

Spec == Init /\ [][Next]_vars

\* A run goes on; the developer sees each release through: starts the runs, takes the
\* spec out if that is a habit, and builds while there is no build hash.
Fairness ==
  /\ WF_vars(RunStep)
  /\ WF_vars(RemoveSpec)
  /\ WF_vars(work.project.buildHash = NoBuild /\ \E b \in Binary : Build(b))
  /\ \A v \in Version : WF_vars(tag[v] = 0 /\ Starts(v))

FairSpec == Spec /\ Fairness

-----------------------------------------------------------------------------
(* What make verify-release checks of a tree (tools/verify_release.py). *)

CheckBuildHash(t) == t.project.buildHash = t.wasm

-----------------------------------------------------------------------------
(* Properties. *)

Place == {"idle", "branch", "prepare", "stage", "commit", "sign", "look", "tag",
          "return", "merge", "delete", "undo", "drop"}

\* Every variable is what git and the release manager can make of it, and a run is on
\* the branch its place presupposes: it commits and tags on the release branch, merges
\* and deletes on main (_execute_developer_preparation_phase,
\* _execute_finalization_phase).
TypeOK ==
  /\ commits \in Seq([tree : Tree, past : SUBSET (1 .. MaxCommit)])
  /\ Len(commits) \in 1 .. MaxCommit
  /\ branch \in [Branch -> 0 .. Len(commits)] /\ branch[Main] # 0
  /\ tag \in [Version -> 0 .. Len(commits)]
  /\ head \in Branch /\ branch[head] # 0
  /\ index \in Tree /\ work \in Tree
  /\ conflict \in BOOLEAN
  /\ run \in [version : Version, phase : {"prepare", "finalize"}, at : Place]
  /\ clock \in 0 .. MaxStamp
  /\ run.at \in {"prepare", "stage", "commit", "sign", "look", "tag", "return"}
       => head = run.version
  /\ run.at \in {"branch", "merge", "delete", "drop"} => head = Main

Tagged == {v \in Version : tag[v] # 0}

TaggedTree(v) == commits[tag[v]].tree

\* What is tagged is what was signed: the committed project.yaml of a tag is valid, names
\* a build, and its signature covers exactly the metadata beside it, whatever failed
\* before and whatever the developer did (_validate_final_project_yaml,
\* _resign_with_build_hash, then commit and tag).
SignedAsTagged ==
  \A v \in Tagged :
    LET p == TaggedTree(v).project
    IN  Finalizable(p) /\ p.sign.over = SigningPayload(p)

\* A run brings to main only what is tagged: when it moves main, the tip of the release
\* branch it merges is the tagged commit, no later one (_execute_finalization_phase).
MergesOnlyTagged ==
  [][~Idle /\ branch'[Main] # branch[Main]
       => branch[run.version] = tag[run.version]]_vars

Released(v) == tag[v] # 0 /\ tag[v] \in PastOf(Main) /\ branch[v] = 0

\* A release the developer sees through gets out: prepared, built and run again it is
\* tagged, merged into main and its branch is gone.
Releases == \A v \in Version : <>[]Released(v)

\* A tag binds the binary: the committed module.wasm is the one whose hash is signed.
TagBindsBinary == \A v \in Tagged : CheckBuildHash(TaggedTree(v))

=============================================================================
