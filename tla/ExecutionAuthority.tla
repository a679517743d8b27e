------------------------- MODULE ExecutionAuthority -------------------------
(***************************************************************************)
(* Which plan a UUV-only scenario executes.  Two threads change it.        *)
(*                                                                         *)
(* The planning thread runs one background cycle at a time (cli.py,        *)
(* _run_background_cycle) and ends it in MissionEpochCommitPort.commit     *)
(* (runtime/mission_epoch_commit.py), which writes the epoch's plan into   *)
(* the audit table under the scenario's transition lock.  The physics      *)
(* thread runs the simulation step: it applies a finished cycle, moves the *)
(* controller with the physical world, refreshes the deterministic plan at *)
(* an observation, and commits region geometry the vehicles have reached.  *)
(* Each of these goes through ExecutionCoordinator.commit                  *)
(* (runtime/execution_coordinator.py), a compare-and-set under a lock of   *)
(* its own that installs a snapshot in the mission controller and the      *)
(* engine and then persists it (persistence/plans.py).                     *)
(*                                                                         *)
(* One revision number is kept in four places: the controller, the engine, *)
(* the coordinator and the audit table.  The module is about how far they  *)
(* drift apart.                                                            *)
(*                                                                         *)
(* The controller has no lock of its own.  The port copies and restores it *)
(* under the transition, a commit of the coordinator copies, changes and   *)
(* restores it under the coordinator's lock, each one attribute after the  *)
(* other, so the two overlap: the plan revision, which all of them read or *)
(* write first, and the rest are separate steps here.                      *)
(*                                                                         *)
(* Abstractions.  A plan is its revision; the regions the vehicles operate *)
(* in are one geometry number.  Which situation makes a refresh due, a     *)
(* source current or a snapshot stale is a choice.  A block that holds a   *)
(* lock from its first to its last step and is read by nobody without it   *)
(* is one action: the observation transition, the database transaction of  *)
(* a coordinator commit.  The copy the engine takes for itself inside an   *)
(* apply is not kept apart from the coordinator's.  Rejections only record *)
(* a row, and are left out.  What a call kept for itself is cleared when   *)
(* it returns.  Scenarios start after the deterministic baseline, at       *)
(* revision one.                                                           *)
(***************************************************************************)
EXTENDS Naturals, Sequences, FiniteSets

CONSTANTS
    MaxRevision,    \* bound: execution revisions
    MaxSituation,   \* bound: observed situations
    MaxProgress,    \* bound: physical transitions of the controller
    MaxCycles,      \* bound: background planning cycles
    MaxFaults       \* bound: database errors

ASSUME ExecutionAuthorityAssumption ==
    /\ {MaxRevision, MaxSituation, MaxProgress} \subseteq Nat \ {0}
    /\ {MaxCycles, MaxFaults} \subseteq Nat

VARIABLES
    \* shared memory
    situation,     \* snapshot_revision of the loop's latest situation
    controller,    \* MissionController
    missionPlan,   \* revision of the engine's _mission_plan
    current,       \* the coordinator's _current
    terminal,      \* the coordinator's _terminal_status
    transition,    \* active_kind of the scenario transition coordinator
    \* the database
    durable,       \* committed rows of execution_revisions, oldest first
    audit,         \* plans: who wrote the row of each revision
    activeAudit,   \* revision of the plan whose status is active
    stored,        \* snapshots.revision
    writeLock,     \* TRUE while the port holds the write transaction
    \* the planning thread
    planner, cycle, report, checkpoint, outcome,
    \* the physics thread
    physics, staged, saved,
    \* bounds
    cycles, faults

shared   == <<situation, controller, missionPlan, current, terminal>>
database == <<durable, audit, activeAudit, stored>>
locks    == <<transition, writeLock>>
planning == <<planner, cycle, report, checkpoint, outcome>>
stepping == <<physics, staged, saved>>
bounds   == <<cycles, faults>>
vars     == <<shared, database, locks, planning, stepping, bounds>>

(***************************************************************************)
(* Values                                                                  *)
(***************************************************************************)
\* "progress" counts the physical transitions, "geometry" is the geometry
\* revision of the regions the vehicles operate in.
Controller == [planRevision : Nat, progress : Nat, geometry : Nat]

\* "source" is source_snapshot_revision.
Snapshot == [revision : Nat, source : Nat, geometry : Nat]

\* A candidate of the coordinator: who proposes it, and the situation its
\* audit projection is based on.
Author == {"refresh", "semantic", "geometry"}
Candidate == [revision : Nat, source : Nat, geometry : Nat,
              auditBase : Nat, by : Author]
ExecutionRow == [revision : Nat, by : Author]

PlannerStep == {"idle", "ingest", "thinking", "invalid", "valid", "refused",
                "admission", "checkpoint", "copying", "prepare", "verified",
                "prepared", "failing", "restoring", "done"}

\* A commit of the coordinator runs from "proposed" to its answer.
CommitStep == {"proposed", "copied", "installing", "installed", "projecting",
               "projected", "undoing"}
PhysicsStep == {"apply", "reschedule", "lifecycle", "syncing", "observe",
                "observing", "situation", "start", "publish", "failed"}
               \cup CommitStep

TypeOK ==
    /\ situation \in Nat
    /\ controller \in Controller
    /\ missionPlan \in Nat
    /\ current \in Snapshot
    /\ terminal \in {"none", "failed", "expired"}
    /\ transition \in {"none", "plan"}
    /\ durable \in Seq(ExecutionRow)
    /\ DOMAIN audit \subseteq Nat
    /\ audit \in [DOMAIN audit -> {"execution", "epoch"}]
    /\ activeAudit \in Nat
    /\ stored \in Nat
    /\ writeLock \in BOOLEAN
    /\ planner \in PlannerStep
    /\ cycle \in [base : Nat, version : Nat, situation : Nat]
    /\ report \in Nat
    /\ checkpoint \in Controller
    /\ outcome \in {"none", "committed", "invalidated", "failed"}
    /\ physics \in PhysicsStep
    /\ staged \in Candidate
    /\ saved \in Controller
    /\ cycles \in Nat
    /\ faults \in Nat

(***************************************************************************)
(* Helpers.  An operator whose name begins with Bug is the helper after it *)
(* with a plausible mistake; no action uses it.                            *)
(***************************************************************************)
\* What the variables of a call hold before it and after it.
NoController == [planRevision |-> 0, progress |-> 0, geometry |-> 0]
NoCandidate == [revision |-> 0, source |-> 0, geometry |-> 0, auditBase |-> 0,
                by |-> "refresh"]
NoCycleInputs == [base |-> 0, version |-> 0, situation |-> 0]

\* Everything of a controller but its plan revision.
WithRest(c, d) == [c EXCEPT !.progress = d.progress, !.geometry = d.geometry]

Put(f, k, v) == [x \in DOMAIN f \cup {k} |-> IF x = k THEN v ELSE f[x]]

\* From its first to its last step a commit holds the coordinator's lock.
Committing == physics \in CommitStep

\* Where the physics thread goes on once the coordinator has answered.
After(by) == CASE by = "semantic" -> "reschedule"
               [] by = "refresh"  -> "start"
               [] by = "geometry" -> "apply"

\* _uuv_execution_admission: the snapshot may be executed and the audit table
\* is at its revision.  active_plan and the snapshot are two reads, but what a
\* read of the older plan decides, a source that is not current decides too.
BugAnyAudit == terminal = "none"
Admitted == terminal = "none" /\ activeAudit = current.revision

\* What keeps physical transitions away from the port's commit.
BugOtherKind == "none"
PlanTransition == "plan"

\* prepare: the active plan is the one the port found under its lock.
BugNotCompared == TRUE
ActiveUnchanged == activeAudit = report

\* A plan row the UNIQUE (scenario_id, revision) index refuses.
BugRowReplaced(r) == FALSE
RevisionTaken(r) == r \in DOMAIN audit

\* commit_semantic_optimization: the baseline is still the one of the cycle.
BugTerminalOnly == terminal = "none"
BugBaseOnly == current.revision = cycle.base
BaselineHolds == terminal = "none" /\ current.revision = cycle.base

\* What a health check may leave behind when no current source backs the
\* snapshot: an expired one is marked, a failed one stays failed.
BugReasonAsStatus == {terminal, "hard_stale"}
AfterSourceGap == IF terminal = "failed" THEN {"failed"}
                  ELSE {terminal, "expired"}

\* The audit projection is stored or is already there.
AuditAccepts ==
    RevisionTaken(staged.revision) \/ stored <= staged.auditBase

Init ==
    /\ situation = 1
    /\ controller = [planRevision |-> 1, progress |-> 0, geometry |-> 0]
    /\ missionPlan = 1
    /\ current = [revision |-> 1, source |-> 1, geometry |-> 0]
    /\ terminal = "none"
    /\ transition = "none"
    /\ durable = <<[revision |-> 1, by |-> "refresh"]>>
    /\ audit = [r \in {1} |-> "execution"]
    /\ activeAudit = 1
    /\ stored = 1
    /\ writeLock = FALSE
    /\ planner = "idle"
    /\ cycle = NoCycleInputs
    /\ report = 0
    /\ checkpoint = NoController
    /\ outcome = "none"
    /\ physics = "start"
    /\ staged = NoCandidate
    /\ saved = NoController
    /\ cycles = 0
    /\ faults = 0

(***************************************************************************)
(* The planning thread                                                     *)
(***************************************************************************)
\* The graph's ingest node records the situation the cycle was given, which
\* may be older than the one a refresh has recorded since.
Ingest ==
    /\ planner = "ingest"
    /\ planner' = "thinking"
    /\ stored' = cycle.situation
    /\ UNCHANGED <<shared, durable, audit, activeAudit, locks, cycle, report,
                   checkpoint, outcome, stepping, bounds>>

\* The brains answer with no plan, or not at all.
BrainsFail ==
    /\ planner = "thinking"
    /\ planner' = "done"
    /\ outcome' = "none"
    /\ UNCHANGED <<shared, database, locks, cycle, report, checkpoint,
                   stepping, bounds>>

\* commit: the mission is read and revalidated before the lock is taken.  A
\* plan newer than the epoch's invalidates it, and so may anything else the
\* revalidation looks at.
Revalidate ==
    /\ planner = "thinking"
    /\ report' = controller.planRevision
    /\ planner' \in {"invalid"} \cup
         (IF controller.planRevision > cycle.version THEN {} ELSE {"valid"})
    /\ UNCHANGED <<shared, database, locks, cycle, checkpoint, outcome,
                   stepping, bounds>>

\* The port's answer: the transition is left and the cycle is done.
Finish(o) ==
    /\ planner' = "done"
    /\ outcome' = o
    /\ report' = 0
    /\ checkpoint' = NoController
BugStillActive(o) == Finish(o) /\ UNCHANGED transition
Answer(o) == Finish(o) /\ transition' = "none"

FinishInvalid ==
    /\ planner = "invalid"
    /\ transition = "none"
    /\ Answer("invalidated")
    /\ UNCHANGED <<shared, database, writeLock, cycle,
                   stepping, bounds>>

\* Enter the plan transition and compare the locked mission to the report.
EnterTransition ==
    /\ planner = "valid"
    /\ transition = "none"
    /\ transition' = PlanTransition
    /\ planner' = IF controller.planRevision = report
                  THEN "admission" ELSE "refused"
    /\ UNCHANGED <<shared, database, writeLock, cycle, report, checkpoint,
                   outcome, stepping, bounds>>

RefuseAdvanced ==
    /\ planner = "refused"
    /\ Answer("failed")
    /\ UNCHANGED <<shared, database, writeLock, cycle,
                   stepping, bounds>>

\* The admission takes the coordinator's lock.
Admit ==
    /\ planner = "admission"
    /\ ~Committing
    /\ Admitted
    /\ planner' = "checkpoint"
    /\ UNCHANGED <<shared, database, locks, cycle, report, checkpoint,
                   outcome, stepping, bounds>>

\* A reason of Admitted, or a source that is no longer current.
NotAdmitted ==
    /\ planner = "admission"
    /\ ~Committing
    /\ Answer("invalidated")
    /\ UNCHANGED <<shared, database, writeLock, cycle,
                   stepping, bounds>>

\* MissionController.checkpoint copies attribute by attribute, and an apply of
\* the physics thread may replace them meanwhile: first the plan revision, ...
Checkpoint ==
    /\ planner = "checkpoint"
    /\ checkpoint' = [checkpoint EXCEPT !.planRevision = controller.planRevision]
    /\ planner' = "copying"
    /\ UNCHANGED <<shared, database, locks, cycle, report, outcome, stepping,
                   bounds>>

\* ... then the rest.
CheckpointRest ==
    /\ planner = "copying"
    /\ checkpoint' = WithRest(checkpoint, controller)
    /\ planner' = "prepare"
    /\ UNCHANGED <<shared, database, locks, cycle, report, outcome, stepping,
                   bounds>>

\* An apply removes entries of a dictionary that is being copied: the copy
\* raises out of commit, and the graph's node turns that into a failed epoch.
CheckpointRaises ==
    /\ planner = "copying"
    /\ physics \in {"installing", "installed"}
    /\ Answer("failed")
    /\ UNCHANGED <<shared, database, writeLock, cycle,
                   stepping, bounds>>

\* prepare: the active plan is compared to the locked revision, ...
CompareActive ==
    /\ planner = "prepare"
    /\ planner' = IF ActiveUnchanged THEN "verified" ELSE "failing"
    /\ UNCHANGED <<shared, database, locks, cycle, report, checkpoint,
                   outcome, stepping, bounds>>

\* ... then the write lock is taken and a draft row is inserted.  The draft is
\* seen by nobody before the transaction ends.
InsertDraft ==
    /\ planner = "verified"
    /\ IF RevisionTaken(report + 1)
       THEN planner' = "failing" /\ UNCHANGED writeLock
       ELSE planner' = "prepared" /\ writeLock' = TRUE
    /\ UNCHANGED <<shared, database, transition, cycle, report, checkpoint,
                   outcome, stepping, bounds>>

\* finish: the plan becomes the active one and the epoch's result is stored.
\* In UUV-only mode the port leaves the controller alone.
CommitEpoch ==
    /\ planner = "prepared"
    /\ audit' = Put(audit, report + 1, "epoch")
    /\ activeAudit' = report + 1
    /\ writeLock' = FALSE
    /\ Answer("committed")
    /\ UNCHANGED <<shared, durable, stored, cycle,
                   stepping, bounds>>

\* A database error, in prepare or in finish, releases the write lock.
BugLockKept == writeLock
LockAfterError == FALSE
PortFault ==
    /\ planner \in {"verified", "prepared"}
    /\ faults < MaxFaults
    /\ faults' = faults + 1
    /\ writeLock' = LockAfterError
    /\ planner' = "failing"
    /\ UNCHANGED <<shared, database, transition, cycle, report, checkpoint,
                   outcome, stepping, cycles>>

\* The exception handler of commit: the controller goes back to the
\* checkpoint, attribute by attribute, and the epoch fails.
AbandonCommit ==
    /\ planner = "failing"
    /\ controller' = [controller EXCEPT !.planRevision = checkpoint.planRevision]
    /\ planner' = "restoring"
    /\ UNCHANGED <<situation, missionPlan, current, terminal, database, locks,
                   cycle, report, checkpoint, outcome, stepping, bounds>>

AbandonRest ==
    /\ planner = "restoring"
    /\ controller' = WithRest(controller, checkpoint)
    /\ Answer("failed")
    /\ UNCHANGED <<situation, missionPlan, current, terminal, database,
                   writeLock, cycle,
                   stepping, bounds>>

Planning ==
    \/ Ingest \/ BrainsFail \/ Revalidate \/ FinishInvalid
    \/ EnterTransition \/ RefuseAdvanced \/ Admit \/ NotAdmitted
    \/ Checkpoint \/ CheckpointRest \/ CheckpointRaises \/ CompareActive
    \/ InsertDraft \/ CommitEpoch \/ PortFault \/ AbandonCommit \/ AbandonRest

(***************************************************************************)
(* The physics thread                                                      *)
(***************************************************************************)
\* commit: under the coordinator's lock the candidate becomes the next
\* revision, and the controller is copied: first the plan revision, ...
Propose(by, source, auditBase, geometry) ==
    /\ current.revision < MaxRevision
    /\ staged' = [revision |-> current.revision + 1, source |-> source,
                  geometry |-> geometry, auditBase |-> auditBase, by |-> by]
    /\ saved' = [saved EXCEPT !.planRevision = controller.planRevision]
    /\ physics' = "proposed"
    /\ UNCHANGED <<controller, missionPlan>>

\* The coordinator has answered.
Returned(by) ==
    /\ physics' = After(by)
    /\ staged' = NoCandidate
    /\ saved' = NoController

\* No candidate is committed: it is not due, or a guard refuses it.
Proceed(step) ==
    /\ physics' = step
    /\ UNCHANGED <<situation, controller, missionPlan, current, staged, saved>>

\* ... then the rest.
CopyController ==
    /\ physics = "proposed"
    /\ saved' = WithRest(saved, controller)
    /\ physics' = "copied"
    /\ UNCHANGED <<shared, database, locks, planning, staged, bounds>>

\* The engine refuses a plan older than the controller's, and the controller
\* installs the new one: first its revision, ...
Install ==
    /\ physics = "copied"
    /\ controller.planRevision <= staged.revision
    /\ controller' = [controller EXCEPT !.planRevision = staged.revision]
    /\ physics' = "installing"
    /\ UNCHANGED <<situation, missionPlan, current, terminal, database, locks,
                   planning, staged, saved, bounds>>

\* ... then its regions, which keep their geometry while vehicles on their way
\* replace those of an earlier one.  What the vehicles have done is kept.
InstallRest ==
    /\ physics = "installing"
    /\ \E geometry \in {controller.geometry, staged.geometry} :
         controller' = [controller EXCEPT !.geometry = geometry]
    /\ physics' = "installed"
    /\ UNCHANGED <<situation, missionPlan, current, terminal, database, locks,
                   planning, staged, saved, bounds>>

\* A candidate that fails.  The coordinator restores its own snapshot and the
\* controller: first the plan revision, ...
Installed == [revision |-> staged.revision, source |-> staged.source,
              geometry |-> staged.geometry]
BugNotRestored == controller
RestoredController == saved
BugStagedKept == Installed
RestoredCurrent == current
Undo ==
    /\ controller' = [controller EXCEPT
                         !.planRevision = RestoredController.planRevision]
    /\ current' = RestoredCurrent
    /\ physics' = "undoing"
    /\ UNCHANGED <<situation, terminal, staged, saved>>

\* ... then the rest.  A refresh that was not committed is marked failed.
Preserve ==
    /\ physics = "undoing"
    /\ controller' = WithRest(controller, RestoredController)
    /\ terminal' = IF staged.by = "refresh" THEN "failed" ELSE terminal
    /\ Returned(staged.by)
    /\ UNCHANGED <<situation, missionPlan, current, database, locks, planning,
                   bounds>>

\* The engine refuses the plan, or undoes what it began of it.
ApplyFails ==
    /\ physics \in {"copied", "installing", "installed"}
    /\ Undo
    /\ UNCHANGED <<missionPlan, database, locks, planning, bounds>>

\* The plan becomes the engine's, which nothing takes back.  Then
\* runtime_execution_snapshot compares the revision of the controller to the
\* candidate's and raises when they differ ...
Project ==
    /\ physics = "installed"
    /\ missionPlan' = staged.revision
    /\ controller.planRevision = staged.revision
    /\ physics' = "projecting"
    /\ UNCHANGED <<situation, controller, current, terminal, database, locks,
                   planning, staged, saved, bounds>>

ProjectionFails ==
    /\ physics = "installed"
    /\ missionPlan' = staged.revision
    /\ controller.planRevision # staged.revision
    /\ Undo
    /\ UNCHANGED <<database, locks, planning, bounds>>

\* ... and projects the regions onto it.
ProjectRest ==
    /\ physics = "projecting"
    /\ staged' = [staged EXCEPT !.geometry = controller.geometry]
    /\ physics' = "projected"
    /\ UNCHANGED <<shared, database, locks, planning, saved, bounds>>

\* save_execution_commit: the execution row, and an audit row unless its
\* revision is taken; the stored situation follows the audit row.
Persist ==
    /\ physics = "projected"
    /\ ~writeLock
    /\ AuditAccepts
    /\ durable' = Append(durable, [revision |-> staged.revision,
                                   by |-> staged.by])
    /\ IF RevisionTaken(staged.revision)
       THEN UNCHANGED <<audit, activeAudit, stored>>
       ELSE /\ audit' = Put(audit, staged.revision, "execution")
            /\ activeAudit' = staged.revision
            /\ stored' = staged.auditBase
    /\ current' = Installed
    /\ terminal' = "none"
    /\ Returned(staged.by)
    /\ UNCHANGED <<situation, controller, missionPlan, locks, planning, bounds>>

\* StaleSnapshotError: a newer situation is stored than the audit is based on.
PersistStale ==
    /\ physics = "projected"
    /\ ~writeLock
    /\ ~AuditAccepts
    /\ Undo
    /\ UNCHANGED <<missionPlan, database, locks, planning, bounds>>

PersistFault ==
    /\ physics = "projected"
    /\ ~writeLock
    /\ faults < MaxFaults
    /\ faults' = faults + 1
    /\ Undo
    /\ UNCHANGED <<missionPlan, database, locks, planning, cycles>>

\* apply_background_cycle.  A cycle that committed nothing is only ended.
NothingToApply ==
    /\ physics = "apply"
    /\ planner # "done"
    /\ Proceed("lifecycle")
    /\ UNCHANGED <<terminal, database, locks, planning, bounds>>

CycleTaken ==
    /\ planner' = "idle"
    /\ cycle' = NoCycleInputs
    /\ outcome' = "none"
    /\ UNCHANGED <<report, checkpoint>>

CycleDropped ==
    /\ physics = "apply"
    /\ planner = "done"
    /\ outcome # "committed"
    /\ CycleTaken
    /\ Proceed("reschedule")
    /\ UNCHANGED <<terminal, database, locks, bounds>>

CycleToApply ==
    /\ physics = "apply"
    /\ planner = "done"
    /\ outcome = "committed"
    /\ CycleTaken

\* _ensure_uuv_only_execution_snapshot without a current source.
CycleWithoutSource ==
    /\ CycleToApply
    /\ terminal' \in AfterSourceGap
    /\ Proceed("reschedule")
    /\ UNCHANGED <<database, locks, bounds>>

\* A newer baseline, a terminal snapshot or a geometry the vehicles have left:
\* the semantic optimization is dropped.
SemanticDropped ==
    /\ CycleToApply
    /\ Proceed("reschedule")
    /\ UNCHANGED <<terminal, database, locks, bounds>>

SemanticProposed ==
    /\ CycleToApply
    /\ controller.geometry = current.geometry
    /\ BaselineHolds
    /\ Propose("semantic", current.source, current.source, current.geometry)
    /\ UNCHANGED <<situation, current, terminal, database, locks, bounds>>

\* engine.step: deployment states that change are published to the controller
\* in a transition.  A plan transition in progress is an error, which ends the
\* run; one that begins after the test is waited for.
NoDeploymentChange ==
    /\ physics = "lifecycle"
    /\ Proceed("observe")
    /\ UNCHANGED <<terminal, database, locks, planning, bounds>>

DeploymentChanges ==
    /\ physics = "lifecycle"
    /\ controller.progress < MaxProgress
    /\ Proceed(IF transition = "none" THEN "syncing" ELSE "failed")
    /\ UNCHANGED <<terminal, database, locks, planning, bounds>>

\* The controller follows the physical world, inside a transition: a region's
\* geometry may be replaced by the later one its vehicles have reached.
AdvanceController ==
    /\ transition = "none"
    /\ \E reached \in {0, 1} :
         controller' = [controller EXCEPT !.progress = @ + 1,
                                          !.geometry = @ + reached]

SynchronizeLifecycle ==
    /\ physics = "syncing"
    /\ AdvanceController
    /\ physics' = "observe"
    /\ UNCHANGED <<situation, missionPlan, current, terminal, database, locks,
                   planning, staged, saved, bounds>>

NoObservation ==
    /\ physics = "observe"
    /\ Proceed("publish")
    /\ UNCHANGED <<terminal, database, locks, planning, bounds>>

ObservationDue ==
    /\ physics = "observe"
    /\ situation < MaxSituation
    /\ controller.progress < MaxProgress
    /\ Proceed("observing")
    /\ UNCHANGED <<terminal, database, locks, planning, bounds>>

\* The observation cycle, which ends with on_situation outside the transition.
ObservationCycle ==
    /\ physics = "observing"
    /\ AdvanceController
    /\ situation' = situation + 1
    /\ physics' = "situation"
    /\ UNCHANGED <<missionPlan, current, terminal, database, locks, planning,
                   staged, saved, bounds>>

\* _refresh_deterministic_mission.
RefreshNotDue ==
    /\ physics = "situation"
    /\ Proceed("start")
    /\ UNCHANGED <<terminal, database, locks, planning, bounds>>

RefreshWithoutSource ==
    /\ physics = "situation"
    /\ terminal' \in AfterSourceGap
    /\ Proceed("start")
    /\ UNCHANGED <<database, locks, planning, bounds>>

\* No candidate can be built.
RefreshFails ==
    /\ physics = "situation"
    /\ terminal' = "failed"
    /\ Proceed("start")
    /\ UNCHANGED <<database, locks, planning, bounds>>

\* The baseline is built on the regions of the snapshot, or moves them.
RefreshProposed ==
    /\ physics = "situation"
    /\ \E geometry \in {current.geometry, current.geometry + 1} :
         Propose("refresh", situation, situation, geometry)
    /\ UNCHANGED <<situation, current, terminal, database, locks, planning,
                   bounds>>

\* on_situation ends with _start_background_cycle, and so does the application
\* of a cycle when a newer situation has come in.  It captures the base of the
\* cycle, unless one is running, nothing triggers one or it has to wait.
StartOrNot ==
    \/ physics = "start" /\ Proceed("publish")
    \/ physics = "reschedule" /\ Proceed("lifecycle")

NoCycle ==
    /\ StartOrNot
    /\ UNCHANGED <<terminal, database, locks, planning, bounds>>

StartCycle ==
    /\ StartOrNot
    /\ planner = "idle"
    /\ cycles < MaxCycles
    /\ cycles' = cycles + 1
    /\ cycle' = [base |-> current.revision, situation |-> situation,
                 version |-> controller.planRevision]
    /\ planner' = "ingest"
    /\ UNCHANGED <<terminal, database, locks, report, checkpoint, outcome,
                   faults>>

\* _sync_runtime_execution_projection.  Nothing is committed when the plan
\* revisions differ or the geometry is the same; that the port restores the
\* controller between the comparison and the projection is only recorded.
PublishOnly ==
    /\ physics = "publish"
    /\ Proceed("apply")
    /\ UNCHANGED <<terminal, database, locks, planning, bounds>>

GeometryProposed ==
    /\ physics = "publish"
    /\ controller.planRevision = current.revision
    /\ controller.geometry > current.geometry
    /\ Propose("geometry", current.source, current.source, controller.geometry)
    /\ UNCHANGED <<situation, current, terminal, database, locks, planning,
                   bounds>>

Stepping ==
    \/ CopyController \/ Install \/ InstallRest \/ ApplyFails \/ Preserve
    \/ Project \/ ProjectionFails \/ ProjectRest
    \/ Persist \/ PersistStale \/ PersistFault
    \/ NothingToApply \/ CycleDropped \/ CycleWithoutSource
    \/ SemanticDropped \/ SemanticProposed
    \/ NoDeploymentChange \/ DeploymentChanges \/ SynchronizeLifecycle
    \/ NoObservation \/ ObservationDue \/ ObservationCycle
    \/ RefreshNotDue \/ RefreshWithoutSource \/ RefreshFails
    \/ RefreshProposed \/ NoCycle \/ StartCycle
    \/ PublishOnly \/ GeometryProposed

Next == Planning \/ Stepping

Spec == Init /\ [][Next]_vars

\* Both threads keep running and a call of a brain returns.  Waiting for the
\* coordinator's lock ends: the physics thread holds it for a part of a step.
FairSpec ==
    /\ Spec
    /\ WF_vars(Planning)
    /\ WF_vars(Stepping)
    /\ SF_vars(Admit \/ NotAdmitted)

(***************************************************************************)
(* Properties                                                              *)
(***************************************************************************)
\* The audit table has one plan for each revision and its active plan is at
\* most the one epoch ahead of the coordinator, never behind it, although the
\* port and the coordinator write it under different locks.
AuditTracksExecution ==
    /\ DOMAIN audit = 1..activeAudit
    /\ activeAudit \in {current.revision, current.revision + 1}

\* Every semantic execution revision is the revision of a committed epoch's
\* plan: the number the port gave the plan from the controller before the cycle
\* ended is the one the coordinator gives the snapshot afterwards.
SemanticHasEpoch ==
    \A i \in DOMAIN durable :
        durable[i].by = "semantic" =>
            /\ durable[i].revision \in DOMAIN audit
            /\ audit[durable[i].revision] = "epoch"

\* The coordinator's snapshot is the newest persisted one, and the persisted
\* revisions have no gap and no duplicate: a commit that fails after its apply
\* leaves no trace in either.
CurrentIsDurable ==
    /\ current.revision = Len(durable)
    /\ \A i \in DOMAIN durable : durable[i].revision = i

\* When a committed cycle is applied the controller is on the coordinator's
\* revision, so the projection of the baseline, which nothing guards, does not
\* raise out of the physics loop.
CommittedCycleProjects ==
    (physics = "apply" /\ planner = "done" /\ outcome = "committed") =>
        controller.planRevision = current.revision

\* No rollback, of the port or of the coordinator, takes a physical transition
\* out of the controller, although neither copy of it is taken or put back at
\* once and nothing keeps the two rollbacks apart.
ProgressIsKept == [][controller'.progress >= controller.progress]_vars

\* A terminal status is lifted by a physical plan, never by a semantic one.
SemanticNeverRecovers ==
    [][(terminal # "none" /\ terminal' = "none") =>
           durable'[Len(durable')].by # "semantic"]_vars

\* The threads, locks and tables together keep one ledger of revisions.
Ledger == INSTANCE RevisionLedger WITH
    ledger <- [i \in DOMAIN durable |->
                  IF durable[i].by = "semantic" THEN "semantic" ELSE "physics"],
    captured <- IF Committing /\ staged.by = "semantic"
                  THEN staged.revision - 1
                ELSE IF planner = "idle" THEN 0
                ELSE cycle.base

KeepsLedger == Ledger!Spec

\* The plan the controller executes is the one the coordinator has committed,
\* whenever no commit of the coordinator is in progress.
CommittedPlanStaysInstalled ==
    ~Committing => controller.planRevision = current.revision

\* A background cycle ends and is applied: the port never waits forever for
\* the transition or the coordinator, nor the physics thread for the database.
CycleEnds == planner # "idle" ~> (planner = "idle" \/ physics = "failed")

\* The physics thread comes around: a port that fails gives back its locks.
StepsEnd == []<>(physics \in {"apply", "failed"})
=============================================================================
