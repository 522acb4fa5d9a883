------------------------------- MODULE Replay -------------------------------
(***************************************************************************)
(* Checkpoints and replays: a checkpoint reads the workspace path by path  *)
(* and then its diff, while other programs go on editing; a replay builds  *)
(* a worktree from it, verifies it against the manifest, runs one command  *)
(* there, and tells the outcome in two rows, the replay and its run.       *)
(*                                                                         *)
(* Both are single synchronous calls of the daemon: no other handler runs  *)
(* in between, but other programs do, any step may throw and the daemon    *)
(* may die before any of them.  A tree maps each path to its content.      *)
(*                                                                         *)
(* The specification is ReplaySpec, its parts ReplayInit and ReplayNext:   *)
(* one module of proofs extends this one and Recording.                    *)
(***************************************************************************)
EXTENDS Naturals, FiniteSets

CONSTANTS
    Path, Content,
    Absent,       \* the content of a path that is not there
    Tracked,      \* the paths in the index of the workspace
    Base,         \* the tree of the base commit
    Order,        \* the order in which the paths are read
    MaxEdit,      \* bound: edits by other programs
    MaxCrash      \* bound: deaths of the daemon

Tree == [Path -> Content \cup {Absent}]

ASSUME ReplayAssumption ==
    /\ Absent \notin Content /\ IsFiniteSet(Path)
    /\ Tracked \subseteq Path /\ Base \in Tree
    /\ Order \in [1..Cardinality(Path) -> Path] /\ {Order[i] : i \in DOMAIN Order} = Path
    /\ MaxEdit \in Nat /\ MaxCrash \in Nat

VARIABLES
    source,       \* the workspace
    worktree,     \* the replay's worktree
    checkpoint,   \* what was recorded of the workspace
    run, replay,  \* the status of the target run and of the replay
    h,            \* the daemon's call: where it is and what it has read
    left,         \* why a replay was given up: "no", "died", "early", "catch"
    answer,       \* what the caller was told
    edits, crashes

replayVars == <<source, worktree, checkpoint, run, replay, h, left, answer, edits, crashes>>

records == <<checkpoint, run, replay, left, answer>>
world == <<source, edits, crashes>>

EmptyTree == [p \in Path |-> Absent]
NoCheckpoint == [made |-> FALSE, manifest |-> EmptyTree, diff |-> EmptyTree, quiet |-> TRUE]
Idle == [at |-> "idle", i |-> 1, listed |-> {}, draft |-> NoCheckpoint, before |-> EmptyTree]

Goto(at) == h' = [h EXCEPT !.at = at]

---------------------------------------------------------------------------
(* git, as the code calls it.                                              *)

(* ls-files --others: what is there and not in the index.                  *)
Untracked(tree) == {p \in Path \ Tracked : tree[p] # Absent}

(* diff against the base commit speaks of the paths of the index and of    *)
(* those of the commit; a path taken out of the index counts as deleted.   *)
Diffed_Bug(tree) == [p \in Path |-> IF p \in Tracked THEN tree[p] ELSE Base[p]]
Diffed(tree) == [p \in Path |-> IF p \in Tracked THEN tree[p] ELSE Absent]

(* A detached worktree of the base commit with the diff applied, then the  *)
(* untracked files written from their blobs.                               *)
Restored(cp) ==
    [p \in Path |-> IF p \notin Tracked /\ cp.manifest[p] # Absent
                    THEN cp.manifest[p] ELSE cp.diff[p]]

---------------------------------------------------------------------------
(* CheckpointManager.create                                                *)

StartCheckpoint ==
    /\ h.at = "idle" /\ ~checkpoint.made
    /\ h' = [Idle EXCEPT !.at = "read", !.listed = Tracked \cup Untracked(source)]
    /\ UNCHANGED <<worktree, records, world>>

(* A path that was listed and is gone is left out of the manifest.         *)
ReadPath ==
    /\ h.at = "read" /\ h.i \in DOMAIN Order
    /\ LET p == Order[h.i]
       IN  h' = [h EXCEPT !.i = @ + 1,
                          !.draft.manifest[p] = IF p \in h.listed THEN source[p] ELSE Absent]
    /\ UNCHANGED <<worktree, records, world>>

ReadDiff ==
    /\ h.at = "read" /\ h.i \notin DOMAIN Order
    /\ h' = [h EXCEPT !.at = "commit", !.draft.diff = Diffed(source)]
    /\ UNCHANGED <<worktree, records, world>>

CommitCheckpoint ==
    /\ h.at = "commit"
    /\ checkpoint' = [h.draft EXCEPT !.made = TRUE]
    /\ h' = Idle
    /\ UNCHANGED <<worktree, run, replay, left, answer, world>>

(* A limit, a secret, a file that is no file, a failing write.             *)
CheckpointFails ==
    /\ h.at \in {"read", "commit"}
    /\ h' = Idle
    /\ UNCHANGED <<worktree, records, world>>

---------------------------------------------------------------------------
(* ReplayManager.run                                                       *)

StartReplay ==
    /\ h.at = "idle" /\ checkpoint.made /\ replay = "none" /\ run = "none"
    /\ run' = "created"
    /\ Goto("row")
    /\ UNCHANGED <<worktree, checkpoint, replay, left, answer, world>>

createReplay ==
    /\ h.at = "row"
    /\ replay' = "queued"
    /\ Goto("fingerprint")
    /\ UNCHANGED <<worktree, checkpoint, run, left, answer, world>>

FingerprintBefore ==
    /\ h.at = "fingerprint"
    /\ h' = [h EXCEPT !.at = "restore", !.before = source]
    /\ UNCHANGED <<worktree, records, world>>

(* Before the try: the rows stay as they are.                              *)
FailsEarly ==
    /\ h.at \in {"row", "fingerprint"}
    /\ h' = Idle
    /\ left' = "early" /\ answer' = "error"
    /\ UNCHANGED <<worktree, checkpoint, run, replay, world>>

restoreCheckpoint ==
    /\ h.at = "restore"
    /\ worktree' = Restored(checkpoint)
    /\ Goto("verify")
    /\ UNCHANGED <<records, world>>

verifyCheckpointManifest ==
    /\ h.at = "verify"
    /\ Goto(IF worktree = checkpoint.manifest THEN "run" ELSE "catch")
    /\ UNCHANGED <<worktree, records, world>>

RunStarts ==
    /\ h.at = "run"
    /\ run' = "running"
    /\ Goto("replay")
    /\ UNCHANGED <<worktree, checkpoint, replay, left, answer, world>>

ReplayStarts ==
    /\ h.at = "replay"
    /\ replay' = "running"
    /\ Goto("execute")
    /\ UNCHANGED <<worktree, checkpoint, run, left, answer, world>>

(* The command may write anywhere in its worktree and nowhere else.        *)
execute ==
    /\ h.at = "execute"
    /\ \E p \in Path, c \in Content \cup {Absent} : worktree' = [worktree EXCEPT ![p] = c]
    /\ \E zero \in BOOLEAN : Goto(IF zero THEN "checkZero" ELSE "checkOther")
    /\ UNCHANGED <<records, world>>

CheckSource ==
    /\ h.at \in {"checkZero", "checkOther"}
    /\ Goto(IF source # h.before THEN "catch"
            ELSE IF h.at = "checkZero" THEN "recordZero" ELSE "recordOther")
    /\ UNCHANGED <<worktree, records, world>>

RunEnds ==
    /\ h.at \in {"recordZero", "recordOther"}
    /\ run' = IF h.at = "recordZero" THEN "completed" ELSE "failed"
    /\ Goto("compare")
    /\ UNCHANGED <<worktree, checkpoint, replay, left, answer, world>>

ReplayEnds ==
    /\ h.at = "compare"
    /\ replay' = run
    /\ Goto("final")
    /\ UNCHANGED <<worktree, checkpoint, run, left, answer, world>>

(* Anything inside the try may throw: the policy, git, the sandbox, the    *)
(* command's timeout, a write.                                             *)
Throws ==
    /\ h.at \in {"restore", "verify", "run", "replay", "execute", "checkZero", "checkOther",
                 "recordZero", "recordOther", "compare"}
    /\ Goto("catch")
    /\ UNCHANGED <<worktree, records, world>>

Terminal == {"completed", "failed"}

CatchRun_Bug ==
    /\ h.at = "catch"
    /\ run' = IF run \in Terminal THEN run ELSE "failed"
    /\ Goto("final")
    /\ UNCHANGED <<worktree, checkpoint, replay, left, answer, world>>

CatchRun ==
    /\ h.at = "catch"
    /\ run' = IF run \in Terminal THEN run ELSE "failed"
    /\ Goto("catchReplay")
    /\ UNCHANGED <<worktree, checkpoint, replay, left, answer, world>>

CatchReplay ==
    /\ h.at = "catchReplay"
    /\ replay' = "failed"
    /\ Goto("final")
    /\ UNCHANGED <<worktree, checkpoint, run, left, answer, world>>

CatchFails_Bug ==
    /\ h.at \in {"catch", "catchReplay"}
    /\ Goto("catch")
    /\ UNCHANGED <<worktree, records, world>>

CatchFails ==
    /\ h.at \in {"catch", "catchReplay"}
    /\ h' = Idle
    /\ left' = "catch" /\ answer' = "error"
    /\ UNCHANGED <<worktree, checkpoint, run, replay, world>>

(* The last look at the source decides only what the caller is told.       *)
Answer ==
    /\ h.at = "final"
    /\ \/ answer' = IF source # h.before THEN "source_changed" ELSE replay
       \/ answer' = "error"   \* the look itself failed
    /\ h' = Idle
    /\ UNCHANGED <<worktree, checkpoint, run, replay, left, world>>

---------------------------------------------------------------------------
(* Other programs and deaths.                                              *)

Edit ==
    /\ edits < MaxEdit
    /\ \E p \in Path, c \in Content \cup {Absent} :
           c # source[p] /\ source' = [source EXCEPT ![p] = c]
    /\ edits' = edits + 1
    /\ h' = [h EXCEPT !.draft.quiet = FALSE]
    /\ UNCHANGED <<worktree, records, crashes>>

(* Start-up looks at no replay, so the daemon is as good as up again.      *)
DaemonDies ==
    /\ h.at # "idle" /\ crashes < MaxCrash
    /\ crashes' = crashes + 1
    /\ left' = IF run # "none" THEN "died" ELSE left
    /\ h' = Idle
    /\ UNCHANGED <<source, worktree, checkpoint, run, replay, answer, edits>>

ReplayInit ==
    /\ source \in Tree
    /\ worktree = EmptyTree /\ checkpoint = NoCheckpoint
    /\ run = "none" /\ replay = "none" /\ left = "no" /\ answer = "none"
    /\ h = Idle /\ edits = 0 /\ crashes = 0

CheckpointStep == StartCheckpoint \/ ReadPath \/ ReadDiff \/ CommitCheckpoint \/ CheckpointFails

ReplayStep ==
    \/ createReplay \/ FingerprintBefore \/ FailsEarly \/ restoreCheckpoint
    \/ verifyCheckpointManifest \/ RunStarts \/ ReplayStarts \/ execute \/ CheckSource
    \/ RunEnds \/ ReplayEnds \/ Throws \/ CatchRun \/ CatchReplay \/ CatchFails \/ Answer

ReplayNext == CheckpointStep \/ StartReplay \/ ReplayStep \/ Edit \/ DaemonDies

ReplaySpec == ReplayInit /\ [][ReplayNext]_replayVars

(* A call goes on to its end; git and the command have timeouts.           *)
FairReplay == ReplaySpec /\ WF_replayVars(ReplayStep)

---------------------------------------------------------------------------
(* TYPE.  Every variable keeps to its values.                              *)
ReplayTypeOK ==
    /\ source \in Tree /\ worktree \in Tree
    /\ checkpoint.manifest \in Tree /\ checkpoint.diff \in Tree
    /\ run \in {"none", "created", "running", "completed", "failed"}
    /\ replay \in {"none", "queued", "running", "completed", "failed"}
    /\ left \in {"no", "died", "early", "catch"}

(* RESTORED.  The command starts only in a tree equal to the manifest,     *)
(* and a checkpoint nobody disturbed restores to exactly what it saw,      *)
(* paths deleted, staged or taken out of the index included.               *)
RunsInTheCheckpoint ==
    /\ h.at = "execute" => worktree = checkpoint.manifest
    /\ checkpoint.made /\ checkpoint.quiet => Restored(checkpoint) = checkpoint.manifest

(* OUTCOME.  Every variable keeps to its values; a replay whose call came  *)
(* to its end is over, and so is its run; a completed replay has a         *)
(* completed run, and of one given up neither row claims more than was     *)
(* reached.                                                                *)
ReplayTellsTheRun ==
    /\ ReplayTypeOK
    /\ replay = "completed" => run = "completed"
    /\ h.at = "idle" /\ run # "none" /\ left = "no" =>
           replay \in Terminal /\ run \in Terminal
    /\ replay = "running" => run # "created"
    /\ answer \in Terminal => replay = answer

(* SETTLES.  A replay ends, unless the daemon died in it, its rows were    *)
(* left before the try, or the catch itself failed: nothing looks for it.  *)
ReplaySettles == replay \in {"queued", "running"} ~> (replay \in Terminal \/ left # "no")
=============================================================================
