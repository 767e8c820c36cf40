---------------------------- MODULE ReleaseProofs ----------------------------
(***************************************************************************)
(* Theorems about module Release: its types, and that a tag holds what was *)
(* signed.  The signature is followed from the working tree through the    *)
(* index into the commit and the tag.                                      *)
(***************************************************************************)
EXTENDS Release, TLAPS

Signed(p) == Finalizable(p) /\ p.sign.over = SigningPayload(p)

\* The place of a run goes with its phase.
PhaseOfPlace ==
  /\ run.at \in {"branch", "prepare", "undo", "drop"} => run.phase = "prepare"
  /\ run.at \in {"sign", "look", "tag", "return", "merge", "delete"} => run.phase = "finalize"

\* A run was started only where the commits and stamps it needs are within the bounds.
Room ==
  /\ run.at \in {"branch", "prepare"} => clock < MaxStamp
  /\ run.at \in {"branch", "prepare", "stage", "commit"} => Len(commits) < MaxCommit
  /\ run.at \in {"sign", "look", "stage", "commit"} /\ run.phase = "finalize"
       => Len(commits) + 1 < MaxCommit
  /\ run.at \in {"tag", "return", "merge"} => Len(commits) < MaxCommit

\* Where the signature of a finalization has got to.
SignatureOnItsWay ==
  run.phase = "finalize" =>
    /\ run.at = "sign" => Finalizable(work.project)
    /\ run.at \in {"look", "stage"} => Signed(work.project)
    /\ run.at = "commit" => Signed(index.project)
    /\ run.at = "tag" => Signed(HeadTree.project)

\* The branch that is merged is the one that was tagged.
TipIsTagged ==
  run.at \in {"return", "merge"} =>
    branch[run.version] = tag[run.version] /\ tag[run.version] # 0

IInv == TypeOK /\ PhaseOfPlace /\ Room /\ SignatureOnItsWay /\ TipIsTagged /\ SignedAsTagged

-----------------------------------------------------------------------------
(* The operators of git keep trees trees and histories histories. *)

Commits == [tree : Tree, past : SUBSET (1 .. MaxCommit)]

\* What TypeOK says of git and the clock.
RepoOK ==
  /\ commits \in Seq(Commits)
  /\ Len(commits) \in 1 .. MaxCommit
  /\ branch \in [Branch -> 0 .. Len(commits)] /\ branch[Main] # 0
  /\ tag \in [Version -> 0 .. Len(commits)]
  /\ head \in Branch /\ branch[head] # 0
  /\ index \in Tree /\ work \in Tree
  /\ conflict \in BOOLEAN
  /\ clock \in 0 .. MaxStamp

\* What TypeOK says of the run.
RunOK ==
  /\ run \in [version : Version, phase : {"prepare", "finalize"}, at : Place]
  /\ run.at \in {"prepare", "stage", "commit", "sign", "look", "tag", "return"}
       => head = run.version
  /\ run.at \in {"branch", "merge", "delete", "drop"} => head = Main

LEMMA TypeParts == TypeOK <=> RepoOK /\ RunOK
BY DEF TypeOK, RepoOK, RunOK, Commits

LEMMA MovedType ==
  ASSUME NEW t \in Tree, NEW from \in Tree, NEW to \in Tree
  PROVE  Moved(t, from, to) \in Tree
BY SMT DEF Tree, File, Moved

LEMMA AddType ==
  ASSUME NEW files \in SUBSET File, work \in Tree, index \in Tree
  PROVE  /\ Add(files) \in Tree
         /\ "project" \in files => Add(files).project = work.project
BY SMT DEF Tree, File, Add

\* Whatever the base is, each file comes from one of the two sides.
LEMMA MergedType ==
  ASSUME NEW base, NEW ours \in Tree, NEW theirs \in Tree
  PROVE  MergedTree(base, ours, theirs) \in Tree
BY SMT DEF Tree, File, MergedTree

LEMMA TipType ==
  ASSUME RepoOK, NEW b \in Branch, branch[b] # 0
  PROVE  /\ branch[b] \in 1 .. Len(commits)
         /\ TreeOf(b) \in Tree
         /\ PastOf(b) \in SUBSET (1 .. MaxCommit)
<1>1. branch[b] \in 1 .. Len(commits)
  BY DEF RepoOK
<1>2. commits[branch[b]] \in Commits
  BY <1>1 DEF RepoOK
<1> QED
  BY <1>1, <1>2 DEF TreeOf, PastOf, Commits

LEMMA CheckoutKeepsRepo ==
  ASSUME RepoOK, NEW b \in Branch, branch[b] # 0, Checkout(b), clock' = clock
  PROVE  RepoOK' /\ HeadTree' = TreeOf(b)
<1>1. HeadTree \in Tree /\ TreeOf(b) \in Tree
  BY TipType DEF RepoOK, HeadTree
<1>2. work' \in Tree /\ index' \in Tree
  BY <1>1, MovedType DEF RepoOK, Checkout
<1> QED
  BY <1>2 DEF RepoOK, Checkout, HeadTree, TreeOf

\* A commit on the branch that is checked out.
LEMMA CommitFacts ==
  ASSUME RepoOK, NEW t \in Tree, NEW past \in SUBSET (1 .. MaxCommit),
         Len(commits) < MaxCommit, CommitTree(t, past)
  PROVE  /\ commits' \in Seq(Commits) /\ Len(commits') = Len(commits) + 1
         /\ \A i \in 1 .. Len(commits) : commits'[i] = commits[i]
         /\ commits'[Len(commits) + 1].tree = t
         /\ branch' \in [Branch -> 0 .. Len(commits')]
         /\ branch'[head] = Len(commits) + 1
         /\ \A b \in Branch \ {head} : branch'[b] = branch[b]
<1> DEFINE c == [tree |-> t, past |-> past \cup {Len(commits) + 1}]
<1>1. c \in Commits
  <2>1. Len(commits) + 1 \in 1 .. MaxCommit
    BY ReleaseAssumption DEF RepoOK
  <2> QED
    BY <2>1 DEF Commits
<1>2. commits' = Append(commits, c) /\ branch' = [branch EXCEPT ![head] = Len(commits) + 1]
  BY DEF CommitTree
<1>3. c.tree = t
  OBVIOUS
<1> HIDE DEF c
<1>4. /\ commits' \in Seq(Commits) /\ Len(commits') = Len(commits) + 1
      /\ \A i \in 1 .. Len(commits) : commits'[i] = commits[i]
      /\ commits'[Len(commits) + 1] = c
  BY <1>1, <1>2 DEF RepoOK
<1>5. /\ branch' \in [Branch -> 0 .. Len(commits')]
      /\ branch'[head] = Len(commits) + 1
      /\ \A b \in Branch \ {head} : branch'[b] = branch[b]
  BY <1>2, <1>4 DEF RepoOK
<1> QED
  BY <1>3, <1>4, <1>5

LEMMA CommitKeepsRepo ==
  ASSUME RepoOK, NEW t \in Tree, NEW past \in SUBSET (1 .. MaxCommit),
         Len(commits) < MaxCommit, CommitTree(t, past),
         UNCHANGED <<tag, head, conflict, clock>>, index' \in Tree, work' \in Tree
  PROVE  RepoOK' /\ HeadTree' = t
<1>1. /\ commits' \in Seq(Commits) /\ Len(commits') = Len(commits) + 1
      /\ commits'[Len(commits) + 1].tree = t
      /\ branch' \in [Branch -> 0 .. Len(commits')]
      /\ branch'[head] = Len(commits) + 1
      /\ \A b \in Branch \ {head} : branch'[b] = branch[b]
  BY CommitFacts
<1>2. Len(commits) \in 1 .. MaxCommit /\ MaxCommit \in Nat /\ Len(commits') \in 1 .. MaxCommit
  BY <1>1, ReleaseAssumption DEF RepoOK
<1>3. branch'[Main] # 0 /\ branch'[head'] # 0 /\ head' \in Branch
  BY <1>1, <1>2 DEF RepoOK, Branch
<1>4. tag' \in [Version -> 0 .. Len(commits')]
  BY <1>1, <1>2 DEF RepoOK
<1>5. HeadTree' = t
  BY <1>1 DEF HeadTree, TreeOf
<1> QED
  BY <1>1, <1>2, <1>3, <1>4, <1>5 DEF RepoOK

-----------------------------------------------------------------------------
(* What every step keeps. *)

\* Nobody moves a tag, and commits stay what they are.
LEMMA TagsKept ==
  ASSUME RepoOK, SignedAsTagged, tag' = tag,
         \A i \in 1 .. Len(commits) : commits'[i] = commits[i]
  PROVE  SignedAsTagged'
<1> SUFFICES ASSUME NEW v \in Version, tag[v] # 0
             PROVE  commits'[tag[v]] = commits[tag[v]]
  BY Zenon DEF SignedAsTagged, Tagged, TaggedTree
<1> QED
  BY DEF RepoOK

LEMMA Parts ==
  ASSUME IInv
  PROVE  RepoOK /\ RunOK /\ PhaseOfPlace /\ Room /\ SignatureOnItsWay /\ TipIsTagged /\ SignedAsTagged
BY TypeParts DEF IInv

LEMMA PartsMake ==
  ASSUME RepoOK', RunOK', PhaseOfPlace', Room', SignatureOnItsWay', TipIsTagged', SignedAsTagged'
  PROVE  IInv'
<1>1. TypeOK'
  BY TypeParts, PTL
<1> QED
  BY <1>1 DEF IInv

LEMMA NothingMoves ==
  ASSUME RepoOK, SignedAsTagged, UNCHANGED <<commits, branch, tag, tree, clock>>
  PROVE  RepoOK' /\ SignedAsTagged' /\ HeadTree' = HeadTree
BY TagsKept DEF RepoOK, tree, HeadTree, TreeOf

\* A run that ends or turns to its clean-up, or that does not go on, has no more to show.
LEMMA Quiet ==
  ASSUME RepoOK', SignedAsTagged',
         run' \in [version : Version, phase : {"prepare", "finalize"}, at : {"idle", "undo"}],
         run'.at = "undo" => run'.phase = "prepare"
  PROVE  IInv'
<1>1. run' \in [version : Version, phase : {"prepare", "finalize"}, at : Place]
  BY DEF Place
<1>2. run'.at \in {"idle", "undo"}
  OBVIOUS
<1>3. RunOK'
  BY <1>1, <1>2 DEF RunOK
<1>4. PhaseOfPlace' /\ Room' /\ SignatureOnItsWay' /\ TipIsTagged'
  BY <1>2 DEF PhaseOfPlace, Room, SignatureOnItsWay, TipIsTagged
<1> QED
  BY <1>3, <1>4, PartsMake

LEMMA GoesQuiet ==
  ASSUME IInv, RepoOK', SignedAsTagged', NEW place \in {"idle", "undo"}, Goto(place),
         place = "undo" => run.phase = "prepare"
  PROVE  IInv'
<1>1. run' = [run EXCEPT !.at = place]
  BY DEF Goto
<1>2. run \in [version : Version, phase : {"prepare", "finalize"}, at : Place]
  BY Parts DEF RunOK
<1> QED
  BY <1>1, <1>2, Quiet

\* The step of a run to a place that only the working tree or git's state changed for.
LEMMA Went ==
  ASSUME IInv, NEW place \in Place, Goto(place)
  PROVE  /\ run' \in [version : Version, phase : {"prepare", "finalize"}, at : Place]
         /\ run'.at = place /\ run'.version = run.version /\ run'.phase = run.phase
         /\ run.version \in Version
BY Parts DEF RunOK, Goto

\* A failed call of git leaves everything as it is.
LEMMA Fails ==
  ASSUME IInv, NEW place \in {"idle", "undo"}, Goto(place),
         UNCHANGED <<commits, branch, tag, tree, clock>>,
         place = "undo" => run.phase = "prepare"
  PROVE  IInv'
BY Parts, NothingMoves, GoesQuiet

-----------------------------------------------------------------------------
(* The release manager's steps. *)

LEMMA StartPreparationInv ==
  ASSUME IInv, NEW v \in Version, StartPreparation(v)
  PROVE  IInv'
<1>1. RepoOK' /\ SignedAsTagged' /\ RepoOK
  BY Parts, NothingMoves DEF StartPreparation
<1>2. /\ run' = [version |-> v, phase |-> "prepare", at |-> "branch"]
      /\ head' = Main /\ clock' < MaxStamp /\ Len(commits') < MaxCommit
  BY DEF StartPreparation, tree
<1>3. RunOK'
  BY <1>2 DEF RunOK, Place
<1>4. PhaseOfPlace' /\ Room' /\ SignatureOnItsWay' /\ TipIsTagged'
  BY <1>2 DEF PhaseOfPlace, Room, SignatureOnItsWay, TipIsTagged
<1> QED
  BY <1>1, <1>3, <1>4, PartsMake

LEMMA StartFinalizationInv ==
  ASSUME IInv, NEW v \in Version, StartFinalization(v)
  PROVE  IInv'
<1>1. RepoOK' /\ SignedAsTagged' /\ RepoOK
  BY Parts, NothingMoves DEF StartFinalization
<1>2. /\ run' = [version |-> v, phase |-> "finalize", at |-> "sign"]
      /\ head' = v /\ work' = work /\ Finalizable(work.project)
      /\ commits' = commits /\ Len(commits) + 2 <= MaxCommit
  BY DEF StartFinalization, tree
<1>3. RunOK'
  BY <1>2 DEF RunOK, Place
<1>4. Room'
  BY <1>1, <1>2, ReleaseAssumption DEF Room, RepoOK
<1>5. PhaseOfPlace' /\ SignatureOnItsWay' /\ TipIsTagged'
  BY <1>2 DEF PhaseOfPlace, SignatureOnItsWay, TipIsTagged
<1> QED
  BY <1>1, <1>3, <1>4, <1>5, PartsMake

LEMMA CreateBranchInv ==
  ASSUME IInv, CreateBranch
  PROVE  IInv'
<1> DEFINE Effect == /\ branch' = [branch EXCEPT ![run.version] = branch[head]]
                     /\ head' = run.version
                     /\ UNCHANGED <<commits, tag, index, work, conflict>>
<1>1. run.at = "branch" /\ run.phase = "prepare" /\ clock' = clock /\ run.version \in Version
  BY Parts DEF CreateBranch, At, PhaseOfPlace, RunOK
<1>2. Effect => RepoOK' /\ SignedAsTagged'
  <2> SUFFICES ASSUME Effect PROVE RepoOK' /\ SignedAsTagged'
    OBVIOUS
  <2>1. branch' \in [Branch -> 0 .. Len(commits)] /\ branch'[Main] # 0 /\ branch'[head'] # 0
    BY <1>1, Parts, ReleaseAssumption DEF RepoOK, Branch
  <2>2. RepoOK'
    BY <1>1, <2>1, Parts DEF RepoOK, Branch
  <2> QED
    BY <2>2, Parts, TagsKept
<1>3. CASE Effect /\ Goto("prepare")
  <2>1. /\ run' \in [version : Version, phase : {"prepare", "finalize"}, at : Place]
        /\ run'.at = "prepare" /\ run'.version = run.version /\ run'.phase = "prepare"
    BY <1>1, <1>3, Went DEF Place
  <2>2. RunOK'
    BY <1>3, <2>1 DEF RunOK
  <2>3. Room'
    BY <1>1, <1>3, <2>1, Parts DEF Room
  <2>4. PhaseOfPlace' /\ SignatureOnItsWay' /\ TipIsTagged'
    BY <2>1 DEF PhaseOfPlace, SignatureOnItsWay, TipIsTagged
  <2> QED
    BY <1>2, <1>3, <2>2, <2>3, <2>4, PartsMake
<1>4. CASE Effect /\ Goto("undo")
  BY <1>1, <1>2, <1>4, GoesQuiet
<1>5. CASE Goto("undo") /\ UNCHANGED <<commits, branch, tag, tree>>
  BY <1>1, <1>5, Fails
<1> QED
  BY <1>3, <1>4, <1>5 DEF CreateBranch, Git

LEMMA ProjectChanged ==
  ASSUME NEW t \in Tree, NEW p \in Project
  PROVE  [t EXCEPT !.project = p] \in Tree /\ [t EXCEPT !.project = p].project = p
BY DEF Tree

LEMMA PreparedType ==
  ASSUME NEW v \in Version, NEW n \in 0 .. MaxStamp, NEW salt \in Salt
  PROVE  PreparedProject(v, n, salt) \in Project
BY DEF PreparedProject, Project, Signature, Payload

\* Signing again makes a project whose signature covers what it says of itself.
LEMMA ResignedType ==
  ASSUME NEW p \in Project, NEW salt \in Salt
  PROVE  LET q == [p EXCEPT !.sign = [over |-> SigningPayload(p), salt |-> salt]]
         IN  q \in Project /\ (Finalizable(p) => Signed(q))
<1> DEFINE over == SigningPayload(p)
           q == [p EXCEPT !.sign = [over |-> over, salt |-> salt]]
<1>1. over \in Payload
  BY DEF SigningPayload, Payload, Project
<1> HIDE DEF over
<1>2. [over |-> over, salt |-> salt] \in Signature
  BY <1>1 DEF Signature
<1>3. /\ q \in Project
      /\ q.sign = [over |-> over, salt |-> salt]
      /\ q.version = p.version /\ q.stamp = p.stamp
      /\ q.buildHash = p.buildHash /\ q.spec = p.spec
  BY <1>2 DEF Project
<1> HIDE DEF q
<1>4. SigningPayload(q) = SigningPayload(p)
  BY <1>3 DEF SigningPayload
<1>5. Finalizable(p) => Signed(q)
  BY <1>3, <1>4 DEF Signed, Finalizable, SchemaValid, over
<1> QED
  BY <1>3, <1>5 DEF q, over

LEMMA PrepareProjectInv ==
  ASSUME IInv, PrepareProject
  PROVE  IInv'
<1>1. /\ run.at = "prepare" /\ run.phase = "prepare" /\ run.version \in Version
      /\ head = run.version /\ clock < MaxStamp /\ Len(commits) < MaxCommit
      /\ clock' = clock + 1
      /\ UNCHANGED <<commits, branch, tag, head, index, conflict>>
  BY Parts DEF PrepareProject, At, PhaseOfPlace, RunOK, Room
<1>2. clock' \in 0 .. MaxStamp
  BY <1>1, Parts, ReleaseAssumption DEF RepoOK
<1>3. SignedAsTagged'
  BY <1>1, Parts, TagsKept
<1>4. ASSUME NEW salt \in Salt,
             work' = [work EXCEPT !.project = PreparedProject(run.version, clock', salt)],
             Goto("stage")
      PROVE  IInv'
  <2>1. work' \in Tree
    BY <1>1, <1>2, <1>4, PreparedType, ProjectChanged, Parts DEF RepoOK
  <2>2. RepoOK'
    BY <1>1, <1>2, <2>1, Parts DEF RepoOK
  <2>3. /\ run' \in [version : Version, phase : {"prepare", "finalize"}, at : Place]
        /\ run'.at = "stage" /\ run'.version = run.version /\ run'.phase = "prepare"
    BY <1>1, <1>4, Went DEF Place
  <2>4. RunOK'
    BY <1>1, <2>3 DEF RunOK
  <2>5. PhaseOfPlace' /\ Room' /\ SignatureOnItsWay' /\ TipIsTagged'
    BY <1>1, <2>3 DEF PhaseOfPlace, Room, SignatureOnItsWay, TipIsTagged
  <2> QED
    BY <1>3, <2>2, <2>4, <2>5, PartsMake
<1>5. CASE Goto("undo") /\ UNCHANGED work
  <2>1. RepoOK'
    BY <1>1, <1>2, <1>5, Parts DEF RepoOK
  <2> QED
    BY <1>1, <1>3, <1>5, <2>1, GoesQuiet
<1> QED
  BY <1>4, <1>5 DEF PrepareProject

LEMMA ResignProjectInv ==
  ASSUME IInv, ResignProject
  PROVE  IInv'
<1>1. /\ run.at = "sign" /\ run.phase = "finalize" /\ head = run.version
      /\ Len(commits) + 1 < MaxCommit /\ Finalizable(work.project)
      /\ UNCHANGED <<commits, branch, tag, head, index, conflict, clock>>
  BY Parts DEF ResignProject, At, PhaseOfPlace, RunOK, Room, SignatureOnItsWay
<1>2. SignedAsTagged'
  BY <1>1, Parts, TagsKept
<1>3. ASSUME NEW salt \in Salt,
             work' = [work EXCEPT !.project.sign =
                        [over |-> SigningPayload(work.project), salt |-> salt]],
             Goto("look")
      PROVE  IInv'
  <2> DEFINE q == [work.project EXCEPT !.sign =
                     [over |-> SigningPayload(work.project), salt |-> salt]]
  <2>1. work \in Tree /\ work.project \in Project
    BY Parts DEF RepoOK, Tree
  <2>2. q \in Project /\ Signed(q)
    BY <1>1, <2>1, ResignedType
  <2>3. work' = [work EXCEPT !.project = q]
    BY <1>3
  <2> HIDE DEF q
  <2>4. work' \in Tree /\ work'.project = q
    BY <2>1, <2>2, <2>3, ProjectChanged
  <2>5. RepoOK'
    BY <1>1, <2>4, Parts DEF RepoOK
  <2>6. /\ run' \in [version : Version, phase : {"prepare", "finalize"}, at : Place]
        /\ run'.at = "look" /\ run'.version = run.version /\ run'.phase = "finalize"
    BY <1>1, <1>3, Went DEF Place
  <2>7. RunOK'
    BY <1>1, <2>6 DEF RunOK
  <2>8. SignatureOnItsWay'
    <3>1. Signed(work.project)'
      BY <2>2, <2>4 DEF Signed, Finalizable, SchemaValid, SigningPayload
    <3> QED
      BY <2>6, <3>1 DEF SignatureOnItsWay
  <2>9. PhaseOfPlace' /\ Room' /\ TipIsTagged'
    BY <1>1, <2>6 DEF PhaseOfPlace, Room, TipIsTagged
  <2> QED
    BY <1>2, <2>5, <2>7, <2>8, <2>9, PartsMake
<1>4. CASE Goto("idle") /\ UNCHANGED work
  <2>1. RepoOK'
    BY <1>1, <1>4, Parts DEF RepoOK
  <2> QED
    BY <1>2, <1>4, <2>1, GoesQuiet
<1> QED
  BY <1>3, <1>4 DEF ResignProject

LEMMA LookForChangesInv ==
  ASSUME IInv, LookForChanges
  PROVE  IInv'
<1>1. /\ run.at = "look" /\ run.phase = "finalize" /\ head = run.version
      /\ Len(commits) + 1 < MaxCommit /\ Signed(work.project)
      /\ UNCHANGED <<commits, branch, tag, tree, clock>>
  BY Parts DEF LookForChanges, At, PhaseOfPlace, RunOK, Room, SignatureOnItsWay
<1>2. RepoOK' /\ SignedAsTagged' /\ HeadTree' = HeadTree /\ head' = head /\ work' = work
  BY <1>1, Parts, NothingMoves DEF tree
<1>3. ASSUME NEW place \in {"stage", "tag"}, Goto(place), place = "tag" => ~IsDirty
      PROVE  IInv'
  <2>1. /\ run' \in [version : Version, phase : {"prepare", "finalize"}, at : Place]
        /\ run'.at = place /\ run'.version = run.version /\ run'.phase = "finalize"
    BY <1>1, <1>3, Went DEF Place
  <2>2. RunOK'
    BY <1>1, <1>2, <1>3, <2>1 DEF RunOK
  <2>3. SignatureOnItsWay'
    <3>1. Signed(work.project)'
      BY <1>1, <1>2 DEF Signed, Finalizable, SchemaValid, SigningPayload
    <3>2. place = "tag" => HeadTree' = work'
      BY <1>2, <1>3 DEF IsDirty
    <3> QED
      BY <1>3, <2>1, <3>1, <3>2 DEF SignatureOnItsWay
  <2>4. Room'
    BY <1>1, <1>2, <1>3, <2>1, Parts, ReleaseAssumption DEF Room, RepoOK
  <2>5. PhaseOfPlace' /\ TipIsTagged'
    BY <1>3, <2>1 DEF PhaseOfPlace, TipIsTagged
  <2> QED
    BY <1>2, <2>2, <2>3, <2>4, <2>5, PartsMake
<1>4. CASE Goto("idle")
  BY <1>1, <1>4, Fails
<1> QED
  BY <1>3, <1>4 DEF LookForChanges

LEMMA StageProjectInv ==
  ASSUME IInv, StageProject
  PROVE  IInv'
<1> DEFINE Effect == /\ index' = Add({"project"})
                     /\ UNCHANGED <<commits, branch, tag, head, work, conflict>>
<1>1. /\ run.at = "stage" /\ head = run.version /\ clock' = clock
      /\ run.phase \in {"prepare", "finalize"} /\ Len(commits) < MaxCommit
      /\ run.phase = "finalize" => Signed(work.project) /\ Len(commits) + 1 < MaxCommit
  BY Parts DEF StageProject, At, RunOK, Room, SignatureOnItsWay
<1>2. OnFailure \in {"idle", "undo"} /\ (OnFailure = "undo" => run.phase = "prepare")
  BY DEF OnFailure
<1>3. Effect => RepoOK' /\ SignedAsTagged' /\ index'.project = work.project
  <2>1. Add({"project"}) \in Tree /\ Add({"project"}).project = work.project
    BY Parts, AddType DEF RepoOK, File
  <2> QED
    BY <1>1, <2>1, Parts, TagsKept DEF RepoOK
<1>4. CASE Effect /\ Goto("commit")
  <2>1. /\ run' \in [version : Version, phase : {"prepare", "finalize"}, at : Place]
        /\ run'.at = "commit" /\ run'.version = run.version /\ run'.phase = run.phase
    BY <1>4, Went DEF Place
  <2>2. RunOK'
    BY <1>1, <1>4, <2>1 DEF RunOK
  <2>3. SignatureOnItsWay'
    <3>1. run'.phase = "finalize" => Signed(index.project)'
      BY <1>1, <1>3, <1>4, <2>1 DEF Signed, Finalizable, SchemaValid, SigningPayload
    <3> QED
      BY <2>1, <3>1 DEF SignatureOnItsWay
  <2>4. PhaseOfPlace' /\ Room' /\ TipIsTagged'
    BY <1>1, <1>4, <2>1 DEF PhaseOfPlace, Room, TipIsTagged
  <2> QED
    BY <1>3, <1>4, <2>2, <2>3, <2>4, PartsMake
<1>5. CASE Effect /\ Goto(OnFailure)
  BY <1>2, <1>3, <1>5, GoesQuiet
<1>6. CASE Goto(OnFailure) /\ UNCHANGED <<commits, branch, tag, tree>>
  BY <1>1, <1>2, <1>6, Fails
<1> QED
  BY <1>4, <1>5, <1>6 DEF StageProject, Git

LEMMA CommitProjectInv ==
  ASSUME IInv, CommitProject
  PROVE  IInv'
<1> DEFINE next == IF run.phase = "prepare" THEN "idle" ELSE "tag"
<1>1. /\ run.at = "commit" /\ head = run.version /\ clock' = clock
      /\ run.phase \in {"prepare", "finalize"} /\ Len(commits) < MaxCommit
      /\ run.phase = "finalize" => Signed(index.project) /\ Len(commits) + 1 < MaxCommit
  BY Parts DEF CommitProject, At, RunOK, Room, SignatureOnItsWay
<1>2. OnFailure \in {"idle", "undo"} /\ (OnFailure = "undo" => run.phase = "prepare")
  BY DEF OnFailure
<1>3. Commit => /\ RepoOK' /\ SignedAsTagged' /\ HeadTree' = index
                /\ head' = head /\ Len(commits') = Len(commits) + 1
  <2> SUFFICES ASSUME Commit
               PROVE  /\ RepoOK' /\ SignedAsTagged' /\ HeadTree' = index
                      /\ head' = head /\ Len(commits') = Len(commits) + 1
    OBVIOUS
  <2>1. /\ CommitTree(index, PastOf(head))
        /\ UNCHANGED <<tag, head, index, work, conflict, clock>>
    BY <1>1 DEF Commit, tree
  <2>2. /\ RepoOK /\ SignedAsTagged /\ index \in Tree /\ index' \in Tree /\ work' \in Tree
        /\ PastOf(head) \in SUBSET (1 .. MaxCommit)
    BY <2>1, Parts, TipType DEF RepoOK
  <2>3. RepoOK' /\ HeadTree' = index
    BY <1>1, <2>1, <2>2, CommitKeepsRepo
  <2>4. Len(commits') = Len(commits) + 1 /\ \A i \in 1 .. Len(commits) : commits'[i] = commits[i]
    BY <1>1, <2>1, <2>2, CommitFacts
  <2> QED
    BY <2>1, <2>2, <2>3, <2>4, TagsKept
<1>4. CASE Commit /\ Goto("tag") /\ run.phase = "finalize"
  <2>1. /\ run' \in [version : Version, phase : {"prepare", "finalize"}, at : Place]
        /\ run'.at = "tag" /\ run'.version = run.version /\ run'.phase = "finalize"
    BY <1>4, Went DEF Place
  <2>2. RunOK'
    BY <1>1, <1>3, <1>4, <2>1 DEF RunOK
  <2>3. SignatureOnItsWay'
    <3>1. Signed(HeadTree.project)'
      BY <1>1, <1>3, <1>4 DEF Signed, Finalizable, SchemaValid, SigningPayload
    <3> QED
      BY <2>1, <3>1 DEF SignatureOnItsWay
  <2>4. PhaseOfPlace' /\ Room' /\ TipIsTagged'
    BY <1>1, <1>3, <1>4, <2>1 DEF PhaseOfPlace, Room, TipIsTagged
  <2> QED
    BY <1>3, <1>4, <2>2, <2>3, <2>4, PartsMake
<1>5. CASE Commit /\ Goto("idle")
  BY <1>3, <1>5, GoesQuiet
<1>6. CASE Commit /\ Goto(OnFailure)
  BY <1>2, <1>3, <1>6, GoesQuiet
<1>7. CASE Goto(OnFailure) /\ UNCHANGED <<commits, branch, tag, tree>>
  BY <1>1, <1>2, <1>7, Fails
<1> QED
  BY <1>1, <1>4, <1>5, <1>6, <1>7 DEF CommitProject, Git

LEMMA CreateTagInv ==
  ASSUME IInv, CreateTag
  PROVE  IInv'
<1> DEFINE Effect == /\ tag' = [tag EXCEPT ![run.version] = branch[head]]
                     /\ UNCHANGED <<commits, branch, tree>>
<1>1. /\ run.at = "tag" /\ run.phase = "finalize" /\ head = run.version
      /\ run.version \in Version /\ Len(commits) < MaxCommit
      /\ Signed(HeadTree.project) /\ clock' = clock
      /\ RepoOK /\ SignedAsTagged
  BY Parts DEF CreateTag, At, PhaseOfPlace, RunOK, Room, SignatureOnItsWay
<1>2. Effect => /\ RepoOK' /\ SignedAsTagged' /\ head' = head /\ branch' = branch
                /\ commits' = commits /\ tag'[run.version] = branch[head]
  <2> SUFFICES ASSUME Effect
               PROVE  /\ RepoOK' /\ SignedAsTagged' /\ head' = head /\ branch' = branch
                      /\ commits' = commits /\ tag'[run.version] = branch[head]
    OBVIOUS
  <2>1. /\ tag' \in [Version -> 0 .. Len(commits)]
        /\ tag'[run.version] = branch[head]
        /\ \A v \in Version \ {run.version} : tag'[v] = tag[v]
    BY <1>1 DEF RepoOK, Branch
  <2>2. RepoOK'
    BY <1>1, <2>1 DEF RepoOK, tree
  <2>3. SignedAsTagged'
    <3> SUFFICES ASSUME NEW v \in Version, tag'[v] # 0
                 PROVE  Signed(commits[tag'[v]].tree.project)
      BY DEF SignedAsTagged, Tagged, TaggedTree, Signed, Finalizable, SchemaValid, SigningPayload
    <3>1. CASE v = run.version
      BY <1>1, <2>1, <3>1 DEF HeadTree, TreeOf
    <3>2. CASE v # run.version
      BY <1>1, <2>1, <3>2 DEF SignedAsTagged, Tagged, TaggedTree, Signed
    <3> QED
      BY <3>1, <3>2
  <2> QED
    BY <2>1, <2>2, <2>3 DEF tree
<1>3. CASE Effect /\ Goto("return")
  <2>1. /\ run' \in [version : Version, phase : {"prepare", "finalize"}, at : Place]
        /\ run'.at = "return" /\ run'.version = run.version /\ run'.phase = "finalize"
    BY <1>1, <1>3, Went DEF Place
  <2>2. RunOK'
    BY <1>1, <1>2, <1>3, <2>1 DEF RunOK
  <2>3. TipIsTagged'
    BY <1>1, <1>2, <1>3, <2>1 DEF TipIsTagged, RepoOK
  <2>4. PhaseOfPlace' /\ Room' /\ SignatureOnItsWay'
    BY <1>1, <1>2, <1>3, <2>1 DEF PhaseOfPlace, Room, SignatureOnItsWay
  <2> QED
    BY <1>2, <1>3, <2>2, <2>3, <2>4, PartsMake
<1>4. CASE Effect /\ Goto("idle")
  BY <1>2, <1>4, GoesQuiet
<1>5. CASE Goto("idle") /\ UNCHANGED <<commits, branch, tag, tree>>
  BY <1>1, <1>5, Fails
<1> QED
  BY <1>3, <1>4, <1>5 DEF CreateTag, Git

LEMMA ReturnToMainInv ==
  ASSUME IInv, ReturnToMain
  PROVE  IInv'
<1>1. /\ run.at = "return" /\ run.phase = "finalize" /\ run.version \in Version
      /\ Len(commits) < MaxCommit /\ clock' = clock
      /\ branch[run.version] = tag[run.version] /\ tag[run.version] # 0
      /\ RepoOK /\ SignedAsTagged /\ Main \in Branch
  BY Parts DEF ReturnToMain, At, PhaseOfPlace, RunOK, Room, TipIsTagged, Branch
<1>2. Checkout(Main) => /\ RepoOK' /\ SignedAsTagged' /\ head' = Main
                        /\ UNCHANGED <<commits, branch, tag>>
  BY <1>1, CheckoutKeepsRepo, TagsKept DEF Checkout, RepoOK
<1>3. CASE Checkout(Main) /\ Goto("merge")
  <2>1. /\ run' \in [version : Version, phase : {"prepare", "finalize"}, at : Place]
        /\ run'.at = "merge" /\ run'.version = run.version /\ run'.phase = "finalize"
    BY <1>1, <1>3, Went DEF Place
  <2>2. RunOK'
    BY <1>2, <1>3, <2>1 DEF RunOK
  <2>3. PhaseOfPlace' /\ Room' /\ SignatureOnItsWay' /\ TipIsTagged'
    BY <1>1, <1>2, <1>3, <2>1 DEF PhaseOfPlace, Room, SignatureOnItsWay, TipIsTagged
  <2> QED
    BY <1>2, <1>3, <2>2, <2>3, PartsMake
<1>4. CASE Checkout(Main) /\ Goto("idle")
  BY <1>2, <1>4, GoesQuiet
<1>5. CASE Goto("idle") /\ UNCHANGED <<commits, branch, tag, tree>>
  BY <1>1, <1>5, Fails
<1> QED
  BY <1>3, <1>4, <1>5 DEF ReturnToMain, Git

LEMMA MergeReleaseInv ==
  ASSUME IInv, MergeRelease
  PROVE  IInv'
<1> DEFINE release == run.version
           base    == commits[MergeBase(head, release)].tree
           clashes == Clashes(base, HeadTree, TreeOf(release))
           merged  == MergedTree(base, HeadTree, TreeOf(release))
           Effect  == /\ CommitTree(merged, PastOf(head) \cup PastOf(release))
                      /\ work' = Moved(work, HeadTree, merged)
                      /\ index' = merged
                      /\ UNCHANGED <<tag, head, conflict>>
<1>1. /\ run.at = "merge" /\ run.phase = "finalize" /\ release \in Branch
      /\ head = Main /\ Len(commits) < MaxCommit /\ clock' = clock
      /\ branch[release] # 0 /\ RepoOK /\ SignedAsTagged
  BY Parts DEF MergeRelease, At, PhaseOfPlace, RunOK, Room, TipIsTagged, Branch
<1>2. Effect => RepoOK' /\ SignedAsTagged' /\ head' = Main
  <2> SUFFICES ASSUME Effect PROVE RepoOK' /\ SignedAsTagged' /\ head' = Main
    OBVIOUS
  <2>1. HeadTree \in Tree /\ TreeOf(release) \in Tree
    BY <1>1, TipType DEF HeadTree, RepoOK
  <2>2. PastOf(head) \cup PastOf(release) \in SUBSET (1 .. MaxCommit)
    BY <1>1, TipType DEF RepoOK
  <2>3. merged \in Tree
    BY <2>1, MergedType
  <2> HIDE DEF merged
  <2>4. work' \in Tree /\ index' \in Tree
    BY <1>1, <2>1, <2>3, MovedType DEF RepoOK
  <2>5. RepoOK'
    BY <1>1, <2>2, <2>3, <2>4, CommitKeepsRepo
  <2>6. \A i \in 1 .. Len(commits) : commits'[i] = commits[i]
    BY <1>1, <2>2, <2>3, CommitFacts
  <2> QED
    BY <1>1, <2>5, <2>6, TagsKept
<1>3. UNCHANGED <<commits, branch, tag, tree>> => RepoOK' /\ SignedAsTagged' /\ head' = Main
  BY <1>1, NothingMoves DEF tree
<1>4. ASSUME RepoOK', SignedAsTagged', head' = Main, Goto("delete")
      PROVE  IInv'
  <2>1. /\ run' \in [version : Version, phase : {"prepare", "finalize"}, at : Place]
        /\ run'.at = "delete" /\ run'.version = run.version /\ run'.phase = "finalize"
    BY <1>1, <1>4, Went DEF Place
  <2>2. RunOK'
    BY <1>4, <2>1 DEF RunOK
  <2>3. PhaseOfPlace' /\ Room' /\ SignatureOnItsWay' /\ TipIsTagged'
    BY <2>1 DEF PhaseOfPlace, Room, SignatureOnItsWay, TipIsTagged
  <2> QED
    BY <1>4, <2>2, <2>3, PartsMake
<1>5. CASE /\ conflict' = TRUE /\ Goto("idle")
           /\ UNCHANGED <<commits, branch, tag, head, index, work>>
  <2>1. RepoOK' /\ SignedAsTagged'
    BY <1>1, <1>5, TagsKept DEF RepoOK
  <2> QED
    BY <1>5, <2>1, GoesQuiet
<1>6. CASE (Effect \/ UNCHANGED <<commits, branch, tag, tree>>) /\ Goto("delete")
  BY <1>2, <1>3, <1>4, <1>6
<1>7. CASE (Effect \/ UNCHANGED <<commits, branch, tag, tree>>) /\ Goto("idle")
  BY <1>2, <1>3, <1>7, GoesQuiet
<1> HIDE DEF Effect, clashes
<1> QED
  BY Zenon, <1>5, <1>6, <1>7 DEF MergeRelease, Git, Effect, clashes

\* The release branch goes, by either of the two ways to delete it.
LEMMA DeletedInv ==
  ASSUME IInv, run.at \in {"delete", "drop"}, clock' = clock, NEW can,
         Git(can, Deleted(run.version), "idle", "idle"), can => run.version # head
  PROVE  IInv'
<1>1. /\ run.version \in Version /\ head = Main
      /\ RepoOK /\ SignedAsTagged
  BY Parts DEF RunOK
<1>2. CASE Deleted(run.version) /\ Goto("idle")
  <2>1. /\ branch' \in [Branch -> 0 .. Len(commits)] /\ branch'[Main] = branch[Main]
        /\ UNCHANGED <<commits, tag, head, index, work, conflict>>
    BY <1>1, <1>2, ReleaseAssumption DEF Deleted, RepoOK, Branch, tree
  <2>2. RepoOK' /\ SignedAsTagged'
    BY <1>1, <2>1, TagsKept DEF RepoOK
  <2> QED
    BY <1>2, <2>2, GoesQuiet
<1>3. CASE Goto("idle") /\ UNCHANGED <<commits, branch, tag, tree>>
  BY <1>3, Fails
<1> QED
  BY <1>2, <1>3 DEF Git

LEMMA DeleteBranchInv ==
  ASSUME IInv, DeleteBranch
  PROVE  IInv'
BY DeletedInv DEF DeleteBranch, At

LEMMA DropBranchInv ==
  ASSUME IInv, DropBranch
  PROVE  IInv'
BY DeletedInv DEF DropBranch, At

LEMMA UndoCheckoutInv ==
  ASSUME IInv, UndoCheckout
  PROVE  IInv'
<1>1. /\ run.at = "undo" /\ run.phase = "prepare" /\ clock' = clock
      /\ RepoOK /\ SignedAsTagged /\ Main \in Branch
  BY Parts DEF UndoCheckout, At, PhaseOfPlace, Branch
<1>2. Checkout(Main) => RepoOK' /\ SignedAsTagged' /\ head' = Main
  BY <1>1, CheckoutKeepsRepo, TagsKept DEF Checkout, RepoOK
<1>3. CASE Checkout(Main) /\ Goto("drop")
  <2>1. /\ run' \in [version : Version, phase : {"prepare", "finalize"}, at : Place]
        /\ run'.at = "drop" /\ run'.version = run.version /\ run'.phase = "prepare"
    BY <1>1, <1>3, Went DEF Place
  <2>2. RunOK'
    BY <1>2, <1>3, <2>1 DEF RunOK
  <2>3. PhaseOfPlace' /\ Room' /\ SignatureOnItsWay' /\ TipIsTagged'
    BY <2>1 DEF PhaseOfPlace, Room, SignatureOnItsWay, TipIsTagged
  <2> QED
    BY <1>2, <1>3, <2>2, <2>3, PartsMake
<1>4. CASE Checkout(Main) /\ Goto("idle")
  BY <1>2, <1>4, GoesQuiet
<1>5. CASE Goto("idle") /\ UNCHANGED <<commits, branch, tag, tree>>
  BY <1>1, <1>5, Fails
<1> QED
  BY <1>3, <1>4, <1>5 DEF UndoCheckout, Git

LEMMA InterruptInv ==
  ASSUME IInv, Interrupt
  PROVE  IInv'
BY Fails DEF Interrupt

-----------------------------------------------------------------------------
(* The developer's steps, between runs. *)

LEMMA BetweenRuns ==
  ASSUME IInv, RepoOK', SignedAsTagged', Idle, run' = run
  PROVE  IInv'
BY Parts, Quiet DEF RunOK, Idle

LEMMA EditInv ==
  ASSUME IInv, Idle, EditsOnly, work' \in Tree
  PROVE  IInv'
<1>1. RepoOK' /\ SignedAsTagged'
  BY Parts, TagsKept DEF EditsOnly, RepoOK
<1> QED
  BY <1>1, BetweenRuns DEF EditsOnly

LEMMA BuildInv ==
  ASSUME IInv, NEW b \in Binary, Build(b)
  PROVE  IInv'
<1>1. work \in Tree
  BY Parts DEF RepoOK
<1>2. work' \in Tree
  BY <1>1 DEF Build, Tree, Project
<1> QED
  BY <1>2, EditInv DEF Build, MayEdit

LEMMA RemoveSpecInv ==
  ASSUME IInv, RemoveSpec
  PROVE  IInv'
<1>1. work \in Tree
  BY Parts DEF RepoOK
<1>2. work' \in Tree
  BY <1>1 DEF RemoveSpec, Tree, Project
<1> QED
  BY <1>2, EditInv DEF RemoveSpec, MayEdit

LEMMA CommitByHandInv ==
  ASSUME IInv, NEW files \in SUBSET File, CommitByHand(files)
  PROVE  IInv'
<1>1. /\ Len(commits) < MaxCommit /\ CommitTree(Add(files), PastOf(head))
      /\ index' = Add(files) /\ UNCHANGED <<tag, head, work, conflict, run, clock>>
      /\ RepoOK /\ SignedAsTagged /\ Idle
  BY Parts DEF CommitByHand
<1>2. Add(files) \in Tree /\ PastOf(head) \in SUBSET (1 .. MaxCommit) /\ work' \in Tree
  BY <1>1, AddType, TipType DEF RepoOK
<1>3. RepoOK'
  BY <1>1, <1>2, CommitKeepsRepo
<1>4. SignedAsTagged'
  BY <1>1, <1>2, CommitFacts, TagsKept
<1> QED
  BY <1>1, <1>3, <1>4, BetweenRuns

LEMMA SwitchInv ==
  ASSUME IInv, NEW b \in Branch, Switch(b)
  PROVE  IInv'
<1>1. /\ Idle /\ branch[b] # 0 /\ Checkout(b) /\ UNCHANGED <<run, clock>>
      /\ RepoOK /\ SignedAsTagged
  BY Parts DEF Switch, MayEdit, CanCheckout
<1>2. RepoOK' /\ SignedAsTagged'
  BY <1>1, CheckoutKeepsRepo, TagsKept DEF Checkout
<1> QED
  BY <1>1, <1>2, BetweenRuns

LEMMA RestoreInv ==
  ASSUME IInv, Restore
  PROVE  IInv'
<1>1. HeadTree \in Tree /\ RepoOK /\ SignedAsTagged
  BY Parts, TipType DEF HeadTree, RepoOK
<1>2. RepoOK' /\ SignedAsTagged'
  BY <1>1, TagsKept DEF Restore, RepoOK
<1> QED
  BY <1>2, BetweenRuns DEF Restore

-----------------------------------------------------------------------------
(* The theorems. *)

LEMMA InitInv == Init => IInv
<1> SUFFICES ASSUME Init PROVE IInv
  OBVIOUS
<1>1. FirstTree \in Tree
  BY ReleaseAssumption DEF FirstTree, Tree, TemplateProject, Project, Signature, NoSignature
<1>2. [tree |-> FirstTree, past |-> {1}] \in Commits /\ 1 \in 1 .. MaxCommit
  BY <1>1, ReleaseAssumption DEF Commits
<1>3. commits \in Seq(Commits) /\ Len(commits) = 1
  BY <1>2 DEF Init
<1>4. RepoOK
  <2>1. /\ branch \in [Branch -> 0 .. 1] /\ branch[Main] = 1
        /\ tag \in [Version -> 0 .. 1] /\ head = Main /\ Main \in Branch
    BY DEF Init, Branch
  <2>2. index \in Tree /\ work \in Tree /\ conflict \in BOOLEAN /\ clock \in 0 .. MaxStamp
    <3>1. index = FirstTree /\ work = FirstTree /\ conflict = FALSE /\ clock = 0
      BY DEF Init
    <3>2. 0 \in 0 .. MaxStamp
      BY ReleaseAssumption
    <3> QED
      BY Zenon, <1>1, <3>1, <3>2
  <2>3. /\ Len(commits) \in 1 .. MaxCommit
        /\ branch \in [Branch -> 0 .. Len(commits)] /\ branch[Main] # 0
        /\ tag \in [Version -> 0 .. Len(commits)]
        /\ head \in Branch /\ branch[head] # 0
    BY <1>2, <1>3, <2>1
  <2> HIDE DEF Commits
  <2> QED
    BY <1>3, <2>2, <2>3 DEF RepoOK
<1>5. run.at = "idle" /\ RunOK
  BY DEF Init, RunOK, Place
<1>6. PhaseOfPlace /\ Room /\ SignatureOnItsWay /\ TipIsTagged
  BY <1>5 DEF PhaseOfPlace, Room, SignatureOnItsWay, TipIsTagged
<1>7. SignedAsTagged
  BY DEF Init, SignedAsTagged, Tagged
<1> QED
  BY <1>4, <1>5, <1>6, <1>7, TypeParts DEF IInv

LEMMA NextInv == IInv /\ [Next]_vars => IInv'
<1> SUFFICES ASSUME IInv, [Next]_vars PROVE IInv'
  OBVIOUS
<1>1. CASE \E v \in Version : Starts(v)
  BY <1>1, StartPreparationInv, StartFinalizationInv DEF Starts
<1>2. CASE RunStep
  BY <1>2, CreateBranchInv, PrepareProjectInv, StageProjectInv, CommitProjectInv,
     ResignProjectInv, LookForChangesInv, CreateTagInv, ReturnToMainInv, MergeReleaseInv,
     DeleteBranchInv, UndoCheckoutInv, DropBranchInv DEF RunStep
<1>3. CASE Interrupt
  BY <1>3, InterruptInv
<1>4. CASE Develops
  <2>1. \A files \in {{"project"}, File} : files \in SUBSET File
    BY DEF File
  <2> QED
    BY <1>4, <2>1, BuildInv, RemoveSpecInv, RestoreInv, CommitByHandInv, SwitchInv DEF Develops
<1>5. CASE UNCHANGED vars
  <2>1. RepoOK' /\ SignedAsTagged' /\ HeadTree' = HeadTree
    BY <1>5, Parts, NothingMoves DEF vars, tree
  <2>2. RunOK' /\ PhaseOfPlace' /\ Room' /\ TipIsTagged'
    BY <1>5, Parts DEF vars, RunOK, PhaseOfPlace, Room, TipIsTagged
  <2>3. SignatureOnItsWay'
    BY <1>5, <2>1, Parts
       DEF vars, SignatureOnItsWay, Signed, Finalizable, SchemaValid, SigningPayload
  <2> QED
    BY <2>1, <2>2, <2>3, PartsMake
<1> QED
  BY <1>1, <1>2, <1>3, <1>4, <1>5 DEF Next

THEOREM Invariance == Spec => []IInv
BY InitInv, NextInv, PTL DEF Spec

\* Every variable is what git and the release manager can make of it, and a run is on
\* the branch its place presupposes.
THEOREM ReleaseTypeCorrect == Spec => []TypeOK
<1>1. IInv => TypeOK
  BY DEF IInv
<1> QED
  BY <1>1, Invariance, PTL

\* A tag holds what was signed, whatever fails and whatever the developer does
\* (_resign_with_build_hash, then commit and tag).
THEOREM TagsAreSigned == Spec => []SignedAsTagged
<1>1. IInv => SignedAsTagged
  BY DEF IInv
<1> QED
  BY <1>1, Invariance, PTL

\* What moves main during a run is the merge, and the branch it merges has not moved
\* since it was tagged.
LEMMA MergeMovesMain ==
  ASSUME IInv, [Next]_vars, ~Idle, branch'[Main] # branch[Main]
  PROVE  branch[run.version] = tag[run.version]
<1>1. RepoOK /\ RunOK
  BY Parts
<1>2. run.version \in Version /\ run.version # Main /\ run.version \in Branch /\ Main \in Branch
  BY <1>1, ReleaseAssumption DEF RunOK, Branch
<1>3. CASE MergeRelease
  BY <1>3, Parts DEF MergeRelease, At, TipIsTagged
<1>4. CASE CommitProject
  <2>1. head = run.version /\ (branch' = branch \/ Commit)
    BY <1>1, <1>4 DEF CommitProject, At, RunOK, Git
  <2>2. branch' = branch \/ branch' = [branch EXCEPT ![run.version] = Len(commits) + 1]
    BY <2>1 DEF Commit, CommitTree
  <2> QED
    BY <1>1, <1>2, <2>2 DEF RepoOK
<1>5. CASE CreateBranch
  <2>1. branch' = branch \/ branch' = [branch EXCEPT ![run.version] = branch[head]]
    BY <1>5 DEF CreateBranch, Git
  <2> QED
    BY <1>1, <1>2, <2>1 DEF RepoOK
<1>6. CASE DeleteBranch \/ DropBranch
  <2>1. branch' = branch \/ branch' = [branch EXCEPT ![run.version] = 0]
    BY <1>6 DEF DeleteBranch, DropBranch, Git, Deleted
  <2> QED
    BY <1>1, <1>2, <2>1 DEF RepoOK
<1>7. CASE ReturnToMain \/ UndoCheckout
  BY <1>7 DEF ReturnToMain, UndoCheckout, Git, Checkout
<1>8. CASE PrepareProject \/ StageProject \/ ResignProject \/ LookForChanges \/ CreateTag
           \/ Interrupt \/ UNCHANGED vars
  BY <1>8 DEF PrepareProject, StageProject, ResignProject, LookForChanges, CreateTag,
              Interrupt, Git, vars
<1>9. CASE (\E v \in Version : Starts(v)) \/ Develops
  BY <1>9 DEF Starts, StartPreparation, StartFinalization, Develops, Build, RemoveSpec,
              Restore, CommitByHand, Switch, MayEdit
<1> QED
  BY <1>3, <1>4, <1>5, <1>6, <1>7, <1>8, <1>9 DEF Next, RunStep

\* A run brings to main only what is tagged (_execute_finalization_phase).
THEOREM OnlyTaggedIsMerged == Spec => MergesOnlyTagged
<1>1. IInv /\ [Next]_vars =>
        [~Idle /\ branch'[Main] # branch[Main] => branch[run.version] = tag[run.version]]_vars
  BY MergeMovesMain
<1> QED
  BY <1>1, Invariance, PTL DEF Spec, MergesOnlyTagged

=============================================================================
