------------------------------- MODULE Floors -------------------------------
(***************************************************************************)
(* The worktree floors of a workspace: src/src/workspaces/floors.rs, the   *)
(* Git boundary src/src/git.rs and src/src/git/integration.rs, and their   *)
(* user interface src/src/app/floors.rs and app/floors/integration.rs.     *)
(*                                                                         *)
(* A floor is a recorded Git checkout with its own canvas nodes.  Git work *)
(* runs on a worker with a copy of the workspace taken at submission; the  *)
(* main thread goes on editing, and applies the result unless the recorded *)
(* floors or the directory changed.  Meanwhile the user may work in Git,   *)
(* between any two Git commands of the worker, and the application may     *)
(* stop.  A floor is managed only while the checkout holds the ownership   *)
(* token that creating it wrote.                                           *)
(*                                                                         *)
(* A revision is a branch and the number of its commits; the original      *)
(* checkout's branch contains, of each branch, the first commits of it.    *)
(***************************************************************************)
EXTENDS Integers, Sequences, SequencesExt

CONSTANTS
  Paths,       \* checkout directories beside the original one
  Nodes,       \* agent nodes
  Branches, NewBranches,   \* all branches, and those of them floors are created on
  MaxFloors,   \* bound: recorded floors
  MaxChanges,  \* bound: changes the user makes in Git
  MaxSwitches, \* bound: other workspaces shown, other directories, restarts
  MaxEdits     \* bound: canvas edits, floor selections and previews

Main == 0           \* the original checkout
NoFloor == -1       \* a node that is not on the canvas
NoToken == 0
NoBranch == -1      \* a branch that does not exist
Original == "main"  \* the branch of the original checkout
Absent == [branch |-> "none", token |-> NoToken, dirty |-> FALSE]
Idle == [phase |-> "idle"]

VARIABLES
  checkouts,   \* Git: the registered worktree at each path
  branches,    \* Git: the number of commits on each branch
  head,        \* Git: how many of them the original checkout's branch contains
  entries,     \* Floors.entries: the recorded floors, never removed
  nodeFloors,  \* Floors.node_floors, with the nodes of the original checkout
  active,      \* Floors.active
  directory,   \* whether the workspace's directory is the repository
  terminals,   \* nodes with an active terminal
  job,         \* floor_ui.busy and its job
  merging,     \* integration work on the worker
  preview,     \* floor_ui.integration: its preview and busy flag
  tokens, changes, switches, edits   \* counters

git == <<checkouts, branches, head>>
floors == <<entries, nodeFloors, active, directory>>
ui == <<terminals, job, merging, preview>>
counters == <<tokens, changes, switches, edits>>
vars == <<git, floors, ui, counters>>

Ops == {[kind |-> "refresh"]}
  \cup [kind : {"create"}, path : Paths, branch : NewBranches]
  \cup [kind : {"remove"}, floor : 1..MaxFloors, discard : BOOLEAN]

NoPreview == [shown |-> FALSE, busy |-> FALSE]

Init ==
  /\ checkouts = [p \in Paths |-> Absent]
  /\ branches = [b \in Branches |-> NoBranch] /\ head = [b \in Branches \cup {Original} |-> 0]
  /\ entries = <<>> /\ nodeFloors = [n \in Nodes |-> NoFloor] /\ active = Main /\ directory = "repository"
  /\ terminals = {} /\ job = Idle /\ merging = {} /\ preview = NoPreview
  /\ tokens = 0 /\ changes = 0 /\ switches = 0 /\ edits = 0

-----------------------------------------------------------------------------
(* Git on the worker *)

Present(p) == p \in Paths /\ checkouts[p] # Absent
\* verify_checkout
Verified(floor) == Present(floor.path) /\ checkouts[floor.path].branch = floor.branch
\* Repository::owns
Owns(floor) ==
  /\ Verified(floor)
  /\ floor.token # NoToken /\ checkouts[floor.path].token = floor.token

Recorded(fs, p) == \E i \in DOMAIN fs : fs[i].path = p /\ fs[i].life # "removed"

\* Each worktree of Git is matched with the first recorded floor at its path
\* that was not removed; what changed in it loses its owner; what is not
\* recorded is added as the user's.
Refreshed(fs) ==
  LET Matches(p) == {i \in DOMAIN fs : fs[i].path = p /\ fs[i].life # "removed"}
      First(p) == CHOOSE i \in Matches(p) : \A j \in Matches(p) : i <= j
      Kept(i) ==
        IF fs[i].life = "removed" THEN fs[i]
        ELSE IF Present(fs[i].path) /\ First(fs[i].path) = i
        THEN [fs[i] EXCEPT !.life = "available", !.branch = checkouts[fs[i].path].branch,
                           !.managed = @ /\ Owns(fs[i]), !.token = IF Owns(fs[i]) THEN @ ELSE NoToken]
        ELSE [fs[i] EXCEPT !.life = "missing"]
      New == {p \in Paths : Present(p) /\ ~Recorded(fs, p)}
      Found(p) == [path |-> p, branch |-> checkouts[p].branch, managed |-> FALSE, token |-> NoToken, life |-> "available"]
  IN [i \in DOMAIN fs |-> Kept(i)] \o [k \in 1..Cardinality(New) |-> Found(SetToSeq(New)[k])]

Done(result, selected) ==
  [job EXCEPT !.phase = "done", !.ok = TRUE, !.result = result, !.selected = selected, !.op = [kind |-> "none"],
              !.revision = 0, !.since = 0]
Failed == [job EXCEPT !.phase = "done", !.ok = FALSE, !.op = [kind |-> "none"], !.entries = <<>>, !.revision = 0, !.since = 0]
\* floor_repository of the worker's copy of the workspace.
InRepository == job.directory = "repository"

RunRefresh ==
  /\ job.phase = "queued" /\ job.op.kind = "refresh"
  /\ job' = IF InRepository THEN Done(Refreshed(job.entries), job.active) ELSE Failed
  /\ UNCHANGED <<git, floors, terminals, merging, preview, counters>>

\* git worktree add -b; an existing path or branch is refused.
AddWorktree ==
  /\ job.phase = "queued" /\ job.op.kind = "create"
  /\ IF InRepository /\ ~Present(job.op.path) /\ branches[job.op.branch] = NoBranch
     THEN /\ checkouts' = [checkouts EXCEPT ![job.op.path].branch = job.op.branch]
          /\ branches' = [branches EXCEPT ![job.op.branch] = 0]
          /\ job' = [job EXCEPT !.phase = "added"]
     ELSE job' = Failed /\ UNCHANGED <<checkouts, branches>>
  /\ UNCHANGED <<head, floors, terminals, merging, preview, counters>>

\* Repository::claim: a new token in the private metadata of whatever checkout
\* has the path and the branch by now.
Claim ==
  /\ job.phase = "added"
  /\ LET op == job.op IN
     IF Verified(op)
     THEN /\ tokens' = tokens + 1
          /\ checkouts' = [checkouts EXCEPT ![op.path].token = tokens + 1]
          /\ job' = Done(Append(job.entries, [path |-> op.path, branch |-> op.branch, managed |-> TRUE,
                                               token |-> tokens + 1, life |-> "available"]),
                         Len(job.entries) + 1)
     ELSE job' = Failed /\ UNCHANGED <<checkouts, tokens>>
  /\ UNCHANGED <<branches, head, floors, terminals, merging, preview, changes, switches, edits>>

\* A check of a removal, one or two Git commands: the next step follows or the
\* operation has failed.  None of them holds a lock on the checkout.
Check(from, passed, next) ==
  /\ job.phase = from /\ job.op.kind = "remove"
  /\ job' = IF passed THEN next ELSE Failed
  /\ UNCHANGED <<git, floors, terminals, merging, preview, counters>>
Removing == job.entries[job.op.floor]

\* Faulty variant: path and branch are taken for ownership.
OwnableByPath(floor) == floor.managed /\ floor.life = "available" /\ Verified(floor)
\* floors.rs::remove: the checkout holds the floor's ownership token.
Ownable(floor) == floor.managed /\ floor.life = "available" /\ Owns(floor)
CheckOwned ==
  Check("queued", InRepository /\ Ownable(Removing), [job EXCEPT !.phase = "owned", !.since = changes])
\* Repository::remove reads the revision, asks whether the work is committed
\* (dirty verifies the checkout again) and whether the revision is merged.
ReadRevision == Check("owned", Verified(Removing), [job EXCEPT !.phase = "read", !.revision = branches[Removing.branch]])
CheckClean ==
  Check("read", Verified(Removing) /\ (job.op.discard \/ ~checkouts[Removing.path].dirty), [job EXCEPT !.phase = "clean"])
CheckMerged ==
  Check("clean", job.op.discard \/ job.revision <= head[Removing.branch], [job EXCEPT !.phase = "merged"])

\* git worktree remove, with --force only for work the user discards: it takes
\* whatever checkout has the path, and by itself refuses one with changes.
Forced == job.op.discard
RemoveWorktree ==
  /\ job.phase = "merged"
  /\ LET i == job.op.floor
     IN IF Present(Removing.path) /\ (Forced \/ ~checkouts[Removing.path].dirty)
        THEN /\ checkouts' = [checkouts EXCEPT ![Removing.path] = Absent]
             /\ job' = Done([job.entries EXCEPT ![i].life = "removed"], IF job.active = i THEN Main ELSE job.active)
        ELSE job' = Failed /\ checkouts' = checkouts
  /\ UNCHANGED <<branches, head, floors, terminals, merging, preview, counters>>

-----------------------------------------------------------------------------
(* The main thread *)

\* No terminal runs on the floor.
Quiet(f) == \A n \in terminals : nodeFloors[n] # f

Submit(op) ==
  /\ job = Idle
  /\ CASE op.kind = "remove" -> op.floor \in DOMAIN entries /\ Quiet(op.floor)
       [] op.kind = "create" -> Len(entries) < MaxFloors
       [] OTHER -> Len(entries) + Cardinality({p \in Paths : ~Recorded(entries, p)}) <= MaxFloors
  /\ job' = [phase |-> "queued", op |-> op, entries |-> entries, nodes |-> nodeFloors, active |-> active,
             directory |-> directory, ok |-> FALSE, result |-> <<>>, selected |-> Main,
             revision |-> 0, since |-> 0]   \* since: history, when the checks of a removal began
  /\ UNCHANGED <<git, floors, terminals, merging, preview, counters>>

\* Faulty variant: an operation that failed leaves the panel busy.
BusyAfterError == IF job.ok THEN Idle ELSE job
\* The operation is over, whatever its result.
NoLongerBusy == Idle

\* Faulty variant (breaks EditsSurvive): the nodes of the copy replace those of
\* now.
NodesOfCopy == job.nodes
\* The nodes after a result: those of now.
NodesOfNow == nodeFloors

\* finish_floor_operation: the selection the user changed meanwhile stays.
Complete ==
  /\ job.phase = "done"
  /\ job' = NoLongerBusy
  /\ IF job.ok /\ entries = job.entries /\ directory = job.directory
     THEN /\ entries' = job.result
          /\ nodeFloors' = NodesOfNow
          /\ active' = IF active # job.active THEN active ELSE job.selected
     ELSE UNCHANGED <<entries, nodeFloors, active>>
  /\ UNCHANGED <<git, directory, terminals, merging, preview, counters>>

Edit == edits < MaxEdits /\ edits' = edits + 1

SwitchFloor(f) ==
  /\ f \in {Main} \cup DOMAIN entries /\ f # active /\ Edit
  /\ active' = f
  /\ UNCHANGED <<git, entries, nodeFloors, directory, ui, tokens, changes, switches>>

AddNode(n) ==
  /\ nodeFloors[n] = NoFloor /\ Edit
  /\ nodeFloors' = [nodeFloors EXCEPT ![n] = active]
  /\ UNCHANGED <<git, entries, active, directory, ui, tokens, changes, switches>>

\* A card of the selected floor is removed, and its terminal with it.
RemoveNode(n) ==
  /\ nodeFloors[n] = active /\ Edit
  /\ nodeFloors' = [nodeFloors EXCEPT ![n] = NoFloor]
  /\ terminals' = terminals \ {n}
  /\ UNCHANGED <<git, entries, active, directory, job, merging, preview, tokens, changes, switches>>

\* is_busy
NotBusy == job = Idle /\ ~preview.busy

\* start_terminal: a node of the selected floor, in its own floor's checkout.
StartTerminal(n) ==
  /\ NotBusy
  /\ nodeFloors[n] = active /\ n \notin terminals
  /\ nodeFloors[n] # Main => entries[nodeFloors[n]].life = "available"
  /\ terminals' = terminals \cup {n}
  /\ UNCHANGED <<git, floors, job, merging, preview, counters>>
StopTerminal(n) ==
  /\ n \in terminals /\ terminals' = terminals \ {n}
  /\ UNCHANGED <<git, floors, job, merging, preview, counters>>

-----------------------------------------------------------------------------
(* Integration into the original checkout *)

\* What a preview records of a source: status_signature tells clean from dirty.
Seen(p) == [branch |-> checkouts[p].branch, revision |-> branches[checkouts[p].branch], dirty |-> checkouts[p].dirty]

\* Takes and shows the preview of a floor; its work on the worker is one step.
Preview(f) ==
  /\ ~preview.busy /\ f \in DOMAIN entries /\ entries[f].life = "available" /\ Edit
  /\ Present(entries[f].path)
  /\ preview' = [shown |-> TRUE, busy |-> FALSE, path |-> entries[f].path, seen |-> Seen(entries[f].path), head |-> head,
                 number |-> edits]
  /\ UNCHANGED <<git, floors, terminals, job, merging, tokens, changes, switches>>

\* blocker: the source has no commit that the target lacks.
Blocked(m) == m.seen.revision <= m.head[m.seen.branch]

\* The user chooses to merge what the preview showed.
ChooseMerge ==
  /\ preview.shown /\ ~preview.busy /\ ~Blocked(preview)
  /\ preview' = [preview EXCEPT !.busy = TRUE]
  /\ merging' = merging \cup {[preview |-> preview, stage |-> "chosen", since |-> 0]}
  /\ UNCHANGED <<git, floors, terminals, job, counters>>

\* verify_preview: both checkouts are as they were shown.
Current(m) == Present(m.path) /\ Seen(m.path) = m.seen /\ head = m.head

Moves(m, stage, since) ==
  merging' = (merging \ {m}) \cup {[preview |-> m.preview, stage |-> stage, since |-> since]}
VerifyPreview(m) ==
  /\ m.stage = "chosen"
  /\ IF Current(m.preview) /\ ~Blocked(m.preview)
     THEN Moves(m, "verified", changes)   \* since: history
     ELSE Moves(m, "done", 0)
  /\ UNCHANGED <<git, floors, terminals, job, preview, counters>>

\* git merge of the revision that was shown, whatever either branch contains by
\* now; a conflict leaves the branch as it is.
Merged(m) == m.preview.seen.revision
Merge(m) ==
  /\ m.stage = "verified"
  /\ \/ head' = [head EXCEPT ![m.preview.seen.branch] = IF @ < Merged(m) THEN Merged(m) ELSE @]
     \/ head' = head
  /\ Moves(m, "done", 0)
  /\ UNCHANGED <<checkouts, branches, floors, terminals, job, preview, counters>>

\* The panel shows the outcome, of this or of another integration by now.
Integrated(m) ==
  /\ m.stage = "done"
  /\ merging' = merging \ {m} /\ preview' = NoPreview
  /\ UNCHANGED <<git, floors, terminals, job, counters>>

-----------------------------------------------------------------------------
(* The user in Git, other workspaces, and restarts *)

Change == changes < MaxChanges /\ changes' = changes + 1

\* Edits or drops edits, commits, and removes a worktree.
UserWorks(p) ==
  /\ Change /\ Present(p)
  /\ LET b == checkouts[p].branch IN
     \/ checkouts' = [checkouts EXCEPT ![p].dirty = ~@] /\ UNCHANGED branches
     \/ checkouts' = [checkouts EXCEPT ![p].dirty = FALSE] /\ branches' = [branches EXCEPT ![b] = @ + 1]
     \/ checkouts' = [checkouts EXCEPT ![p] = Absent] /\ UNCHANGED branches
  /\ UNCHANGED <<head, floors, ui, tokens, switches, edits>>
\* A worktree on a new or existing branch that is free, or a switch to it.
UserTakes(p, b) ==
  /\ Change /\ \A q \in Paths : checkouts[q].branch # b
  /\ checkouts' = [checkouts EXCEPT ![p].branch = b]
  /\ branches' = [branches EXCEPT ![b] = IF @ = NoBranch THEN 0 ELSE @]
  /\ UNCHANGED <<head, floors, ui, tokens, switches, edits>>
\* A commit on the original branch, or a merge into it.
UserIntegrates(b) ==
  /\ Change
  /\ head' = [head EXCEPT ![b] = IF b = Original THEN @ + 1 ELSE branches[b]]
  /\ b # Original => head[b] < branches[b]
  /\ UNCHANGED <<checkouts, branches, floors, ui, tokens, switches, edits>>

Bounded == switches < MaxSwitches /\ switches' = switches + 1

\* Another directory in the workspace's settings.
ChangeDirectory ==
  /\ Bounded
  /\ directory' = IF directory = "repository" THEN "elsewhere" ELSE "repository"
  /\ UNCHANGED <<git, entries, nodeFloors, active, ui, tokens, changes, edits>>

\* Another workspace is shown and this one again: the panel starts anew.
WorkspaceChanged ==
  /\ Bounded /\ preview # NoPreview
  /\ preview' = NoPreview
  /\ UNCHANGED <<git, floors, terminals, job, merging, tokens, changes, edits>>

\* The application stops and starts: the recorded floors stay.
Restart ==
  /\ Bounded
  /\ terminals' = {} /\ job' = Idle /\ merging' = {} /\ preview' = NoPreview
  /\ UNCHANGED <<git, floors, tokens, changes, edits>>

Removal == CheckOwned \/ ReadRevision \/ CheckClean \/ CheckMerged \/ RemoveWorktree
FloorWorker == RunRefresh \/ AddWorktree \/ Claim \/ Removal
MergeWorker == \E m \in merging : VerifyPreview(m) \/ Merge(m) \/ Integrated(m)

Next ==
  \/ FloorWorker \/ MergeWorker \/ Complete \/ ChooseMerge
  \/ \E op \in Ops : Submit(op)
  \/ \E f \in 0..MaxFloors : SwitchFloor(f) \/ Preview(f)
  \/ \E n \in Nodes : AddNode(n) \/ RemoveNode(n) \/ StartTerminal(n) \/ StopTerminal(n)
  \/ \E p \in Paths : UserWorks(p) \/ \E b \in Branches : UserTakes(p, b)
  \/ \E b \in Branches \cup {Original} : UserIntegrates(b)
  \/ ChangeDirectory \/ WorkspaceChanged \/ Restart

Spec == Init /\ [][Next]_vars
\* The worker's threads run, and the main thread handles their results.
FairSpec == Spec /\ WF_vars(FloorWorker) /\ WF_vars(MergeWorker) /\ WF_vars(Complete)

-----------------------------------------------------------------------------
(* Properties *)

Removes(p) == Present(p) /\ checkouts'[p] = Absent /\ job' # job

\* A checkout the application deletes has no uncommitted work the user did not
\* discard, and no active terminal on its floor, whatever the user did in Git
\* meanwhile; the floor's token is in no other checkout.  Unless the user worked in
\* Git after the checks began, it is the floor's own, and merged or discarded.
OnlyOwnRemoved ==
  [][\A p \in Paths : Removes(p) =>
       /\ job.op.kind = "remove" /\ p = Removing.path
       /\ checkouts[p].dirty => job.op.discard
       /\ \A n \in terminals : nodeFloors[n] # job.op.floor
       /\ \A q \in Paths : checkouts[q].token = Removing.token => q = p
       /\ changes = job.since => Owns(Removing) /\ (job.op.discard \/ branches[Removing.branch] <= head[Removing.branch])]_vars

\* Cards that are added or removed while Git runs stay so, each on its floor.
EditsSurvive == [][job' # job => nodeFloors' = nodeFloors]_vars

\* What the application merges into the original branch is what the user was shown
\* and chose, never a commit made after it, and no less than there is unless the
\* user worked in Git after the preview was verified.
MergedAsShown ==
  [][(head' # head /\ changes' = changes) =>
       \E m \in merging :
         LET shown == m.preview.seen IN
         /\ head' = [head EXCEPT ![shown.branch] = shown.revision] /\ head[shown.branch] < shown.revision
         /\ changes = m.since => branches[shown.branch] = shown.revision]_vars

\* Checkouts, cards and merges are safe from work done meanwhile.
WorkKept == OnlyOwnRemoved /\ EditsSurvive /\ MergedAsShown

\* Documented (docs/worktrees.md:52-54), and not kept: replacing a checkout,
\* changing its branch or losing its marker revokes the authority to clean it up.
RevokedStays == [][\A p \in Paths : Removes(p) => Owns(Removing)]_vars

\* A Git operation ends, and the panel can be used again.
BusyEnds == (job # Idle ~> job = Idle) /\ (preview.busy ~> ~preview.busy)

\* Documented (docs/worktrees.md:57-58), and not kept: terminal launches are
\* blocked during Git operations.
LaunchesWait == [][terminals' \ terminals # {} => job = Idle /\ merging = {}]_vars
=============================================================================
