---------------------- MODULE ExecutionAuthorityProofs ----------------------
(***************************************************************************)
(* Proofs about ExecutionAuthority, for any number of revisions,           *)
(* situations, physical transitions, cycles and database errors, and the   *)
(* proof that it implements RevisionLedger.                                *)
(*                                                                         *)
(* The properties are not inductive.  That the audit table stays within    *)
(* one epoch of the coordinator rests on the port's admission surviving    *)
(* the commits the coordinator persists until the port holds the write     *)
(* lock (Admission); that a semantic revision is an epoch's, on the base   *)
(* of the cycle (CycleBase); that the rollbacks keep what the vehicles did *)
(* and the plan a committed cycle relies on, on what the port and the      *)
(* coordinator have saved to restore (PhysicalState, CommitInProgress,     *)
(* CommittedIsSettled).                                                    *)
(***************************************************************************)
EXTENDS ExecutionAuthority, TLAPS

\* While the port has put back its copy, wholly or in part, the plan revision of
\* the controller may be any older one.
PortRestored ==
    planner = "restoring" \/ (planner = "done" /\ outcome = "failed")

\* From the first to the last write of an apply that is not undone, the
\* controller is on the candidate's revision.
Holding == physics \in {"installing", "installed", "projecting", "projected"}

\* A commit of the coordinator holds the next revision, and what it would
\* restore has the physical progress of the controller; its plan revision is
\* the one the controller has before the apply and after its undoing.  A
\* semantic candidate rests on the epoch's plan in the audit.
CommitInProgress ==
    Committing =>
        /\ staged.revision = current.revision + 1
        /\ physics # "proposed" => saved.progress = controller.progress
        /\ ~PortRestored =>
             controller.planRevision = IF Holding THEN staged.revision
                                       ELSE saved.planRevision
        /\ staged.by = "semantic" =>
             /\ planner = "idle"
             /\ terminal = "none"
             /\ staged.revision \in DOMAIN audit
             /\ audit[staged.revision] = "epoch"

\* The port's progress: from its admission to the end of its transaction the
\* active plan is the coordinator's revision, whoever has persisted meanwhile.
Admission ==
    /\ planner \in {"checkpoint", "copying", "prepare", "verified",
                    "prepared"} => activeAudit = current.revision
    /\ planner = "verified" => report <= activeAudit
    /\ planner = "prepared" => report = activeAudit
    /\ writeLock <=> planner = "prepared"

\* What the port would restore has the physical progress of the controller,
\* for its transition keeps the physical ones out.
PhysicalState ==
    /\ planner \in {"admission", "checkpoint", "copying", "prepare",
                    "verified", "prepared", "failing", "restoring"} =>
         transition = "plan"
    /\ planner \in {"prepare", "verified", "prepared", "failing",
                    "restoring"} => checkpoint.progress = controller.progress

\* The cycle's base never runs ahead, and while it is still the newest
\* revision the plan a committed cycle has written is the next one.
CycleBase ==
    /\ cycle.base <= current.revision
    /\ (planner = "done" /\ outcome = "committed"
        /\ cycle.base = current.revision) =>
         /\ cycle.base + 1 \in DOMAIN audit
         /\ audit[cycle.base + 1] = "epoch"

\* The controller, and what a commit in progress would restore it to, is on
\* the coordinator's revision.
Settled ==
    /\ Committing => saved.planRevision = current.revision
    /\ ~Holding => controller.planRevision = current.revision

CommittedIsSettled ==
    /\ (planner \in {"admission", "checkpoint", "copying", "prepare",
                     "verified", "prepared"}
        /\ report = current.revision) => Settled
    /\ (planner = "done" /\ outcome = "committed") => Settled

IInv ==
    /\ TypeOK
    /\ AuditTracksExecution
    /\ SemanticHasEpoch
    /\ CurrentIsDurable
    /\ CommitInProgress
    /\ Admission
    /\ PhysicalState
    /\ CycleBase
    /\ CommittedIsSettled

-----------------------------------------------------------------------------
\* The numbers the steps count on.
LEMMA Numbers ==
    ASSUME TypeOK
    PROVE  /\ current.revision \in Nat /\ current.source \in Nat
           /\ current.geometry \in Nat
           /\ controller.planRevision \in Nat /\ controller.progress \in Nat
           /\ controller.geometry \in Nat
           /\ report \in Nat /\ cycle.base \in Nat
           /\ staged.revision \in Nat /\ staged.source \in Nat
           /\ staged.geometry \in Nat /\ staged.auditBase \in Nat
           /\ staged.by \in Author
           /\ saved.planRevision \in Nat /\ saved.progress \in Nat
           /\ saved.geometry \in Nat
           /\ checkpoint.planRevision \in Nat /\ checkpoint.progress \in Nat
           /\ checkpoint.geometry \in Nat
           /\ faults + 1 \in Nat /\ cycles + 1 \in Nat
           /\ report + 1 \in Nat
           /\ current.revision + 1 \in Nat
  <1>1. /\ current \in Snapshot /\ controller \in Controller
        /\ report \in Nat /\ staged \in Candidate
        /\ saved \in Controller /\ checkpoint \in Controller
        /\ faults \in Nat /\ cycles \in Nat
        /\ cycle \in [base : Nat, version : Nat, situation : Nat]
    BY DEF TypeOK
  <1> QED
    BY <1>1 DEF Snapshot, Controller, Candidate

\* The audit table after a row is written.
LEMMA AuditType ==
    ASSUME TypeOK, NEW r \in Nat, NEW v \in {"execution", "epoch"}
    PROVE  /\ DOMAIN Put(audit, r, v) \subseteq Nat
           /\ Put(audit, r, v)
                \in [DOMAIN Put(audit, r, v) -> {"execution", "epoch"}]
  BY DEF TypeOK, Put

\* A controller with another plan revision, or another geometry.
LEMMA PartsType ==
    ASSUME NEW c \in Controller, NEW n \in Nat
    PROVE  /\ [c EXCEPT !.planRevision = n] \in Controller
           /\ [c EXCEPT !.planRevision = n].planRevision = n
           /\ [c EXCEPT !.planRevision = n].progress = c.progress
           /\ [c EXCEPT !.geometry = n] \in Controller
           /\ [c EXCEPT !.geometry = n].planRevision = c.planRevision
           /\ [c EXCEPT !.geometry = n].progress = c.progress
  BY DEF Controller

\* A controller with the rest of another one.
LEMMA RestType ==
    ASSUME NEW c \in Controller, NEW d \in Controller
    PROVE  /\ WithRest(c, d) \in Controller
           /\ WithRest(c, d).planRevision = c.planRevision
           /\ WithRest(c, d).progress = d.progress
  BY DEF Controller, WithRest

\* What a call leaves behind has the type of what it used.
LEMMA ClearedType ==
    /\ NoController \in Controller
    /\ NoCandidate \in Candidate
    /\ NoCycleInputs \in [base : Nat, version : Nat, situation : Nat]
    /\ \A by \in Author : After(by) \in PhysicsStep /\ After(by) \notin CommitStep
  <1>1. \A by \in Author : After(by) \in PhysicsStep /\ After(by) \notin CommitStep
    <2>1. /\ After("semantic") = "reschedule" /\ After("refresh") = "start"
          /\ After("geometry") = "apply"
      BY DEF After
    <2> QED
      BY <2>1 DEF Author, PhysicsStep, CommitStep
  <1> QED
    BY <1>1 DEF NoController, NoCandidate, NoCycleInputs, Controller, Candidate,
       Author

\* A candidate of the coordinator.
LEMMA ProposeType ==
    ASSUME TypeOK, NEW by \in Author, NEW source \in Nat,
           NEW auditBase \in Nat, NEW geometry \in Nat,
           Propose(by, source, auditBase, geometry)
    PROVE  /\ staged' \in Candidate
           /\ saved' \in Controller
           /\ physics' \in PhysicsStep
           /\ UNCHANGED <<controller, missionPlan>>
  <1> DEFINE r == current.revision + 1
  <1>1. /\ r \in Nat /\ controller.planRevision \in Nat /\ saved \in Controller
    BY Numbers DEF TypeOK
  <1>2. /\ staged' = [revision |-> r, source |-> source, geometry |-> geometry,
                      auditBase |-> auditBase, by |-> by]
        /\ saved' = [saved EXCEPT !.planRevision = controller.planRevision]
        /\ physics' = "proposed"
        /\ UNCHANGED <<controller, missionPlan>>
    BY DEF Propose
  <1> HIDE DEF r
  <1>3. staged' \in Candidate
    BY <1>1, <1>2 DEF Candidate
  <1> QED
    BY <1>1, <1>2, <1>3, PartsType DEF PhysicsStep, CommitStep

\* The physical world moves the progress and the geometry, not the plan.
LEMMA AdvanceType ==
    ASSUME TypeOK, AdvanceController
    PROVE  /\ controller' \in Controller
           /\ controller'.planRevision = controller.planRevision
           /\ controller'.progress = controller.progress + 1
  <1>0. PICK reached \in {0, 1} :
        controller' = [controller EXCEPT !.progress = @ + 1,
                                         !.geometry = @ + reached]
    BY DEF AdvanceController
  <1> DEFINE next == controller.progress + 1
             where == controller.geometry + reached
  <1>1. next \in Nat /\ where \in Nat /\ controller.planRevision \in Nat
    BY Numbers
  <1>2. controller' = [planRevision |-> controller.planRevision,
                       progress |-> next, geometry |-> where]
    BY <1>0 DEF TypeOK, Controller
  <1>3. next = controller.progress + 1
    OBVIOUS
  <1> HIDE DEF next, where
  <1>4. controller' \in Controller
    BY <1>1, <1>2 DEF Controller
  <1> QED
    BY <1>1, <1>2, <1>3, <1>4

\* The first write of a commit that is undone.
LEMMA UndoType ==
    ASSUME TypeOK, Undo
    PROVE  /\ controller' \in Controller
           /\ controller'.planRevision = saved.planRevision
           /\ controller'.progress = controller.progress
           /\ physics' = "undoing"
           /\ UNCHANGED <<situation, current, terminal, staged, saved>>
  <1>1. controller' = [controller EXCEPT !.planRevision = saved.planRevision]
    BY DEF Undo, RestoredController
  <1>2. controller \in Controller /\ saved.planRevision \in Nat
    BY Numbers DEF TypeOK
  <1>3. /\ controller' \in Controller
        /\ controller'.planRevision = saved.planRevision
        /\ controller'.progress = controller.progress
    BY <1>1, <1>2, PartsType
  <1>4. /\ physics' = "undoing"
        /\ UNCHANGED <<situation, current, terminal, staged, saved>>
    BY DEF Undo, RestoredCurrent
  <1> QED
    BY <1>3, <1>4

\* The second one.
LEMMA PreserveType ==
    ASSUME TypeOK, Preserve
    PROVE  /\ controller' \in Controller
           /\ controller'.planRevision = controller.planRevision
           /\ controller'.progress = saved.progress
           /\ terminal' \in {"none", "failed", "expired"}
           /\ physics' \in PhysicsStep
           /\ physics' \notin CommitStep
           /\ staged' \in Candidate /\ saved' \in Controller
  <1>1. staged.by \in Author
    BY DEF TypeOK, Candidate
  <1>2. physics' = After(staged.by) /\ staged' = NoCandidate
        /\ saved' = NoController
    BY DEF Preserve, Returned
  <1>3. controller' = WithRest(controller, saved)
    BY DEF Preserve, RestoredController
  <1>4. controller \in Controller /\ saved \in Controller
        /\ terminal \in {"none", "failed", "expired"}
    BY DEF TypeOK
  <1>5. terminal' \in {"none", "failed", "expired"}
    BY <1>4 DEF Preserve
  <1> QED
    BY <1>1, <1>2, <1>3, <1>4, <1>5, RestType, ClearedType

-----------------------------------------------------------------------------
\* The scenario starts on the deterministic baseline.
LEMMA InitIInv == Init => IInv
  <1> SUFFICES ASSUME Init PROVE IInv
    OBVIOUS
  <1> USE DEF Init
  <1>1. DOMAIN audit = {1} /\ 1..1 = {1} /\ DOMAIN durable = {1}
    OBVIOUS
  <1>2. controller \in Controller /\ current \in Snapshot /\ staged \in
     Candidate
    BY ClearedType DEF Controller, Snapshot
  <1>3. durable \in Seq(ExecutionRow)
    BY DEF ExecutionRow, Author
  <1>4. /\ audit \in [DOMAIN audit -> {"execution", "epoch"}]
        /\ DOMAIN audit \subseteq Nat
        /\ report \in Nat /\ checkpoint \in Controller
        /\ saved \in Controller
        /\ cycle \in [base : Nat, version : Nat, situation : Nat]
    BY <1>1, <1>2, ClearedType
  <1>5. TypeOK
    BY <1>2, <1>3, <1>4 DEF TypeOK, PlannerStep, PhysicsStep
  <1>6. AuditTracksExecution /\ SemanticHasEpoch /\ CurrentIsDurable
    BY <1>1 DEF AuditTracksExecution, SemanticHasEpoch, CurrentIsDurable
  <1>7. /\ CommitInProgress /\ Admission /\ PhysicalState
        /\ CycleBase /\ CommittedIsSettled
    BY DEF CommitInProgress, Committing, CommitStep, Admission, PhysicalState,
       CycleBase, CommittedIsSettled, NoCycleInputs
  <1> QED
    BY <1>5, <1>6, <1>7 DEF IInv

-----------------------------------------------------------------------------
\* Every step keeps the types.
LEMMA NextTypeOK == TypeOK /\ [Next]_vars => TypeOK'
  <1> SUFFICES ASSUME TypeOK, [Next]_vars PROVE TypeOK'
    OBVIOUS
  <1> USE DEF TypeOK
  <1>1. ASSUME Ingest PROVE TypeOK'
    BY <1>1 DEF Ingest, shared, locks, stepping, bounds, PlannerStep
  <1>2. ASSUME BrainsFail PROVE TypeOK'
    BY <1>2 DEF BrainsFail, shared, database, locks, stepping, bounds,
       PlannerStep
  <1>3. ASSUME Revalidate PROVE TypeOK'
    BY <1>3 DEF Revalidate, shared, database, locks, stepping, bounds,
       PlannerStep, Controller
  <1>4. ASSUME FinishInvalid PROVE TypeOK'
    BY <1>4, ClearedType DEF FinishInvalid, Answer, Finish, shared, database, stepping, bounds,
       PlannerStep
  <1>5. ASSUME EnterTransition PROVE TypeOK'
    BY <1>5 DEF EnterTransition, PlanTransition, shared, database, stepping, bounds,
       PlannerStep
  <1>6. ASSUME RefuseAdvanced PROVE TypeOK'
    BY <1>6, ClearedType DEF RefuseAdvanced, Answer, Finish, shared, database, stepping, bounds,
       PlannerStep
  <1>7. ASSUME Admit PROVE TypeOK'
    BY <1>7 DEF Admit, Admitted, shared, database, locks, stepping, bounds,
       PlannerStep
  <1>8. ASSUME NotAdmitted PROVE TypeOK'
    BY <1>8, ClearedType DEF NotAdmitted, Answer, Finish, shared, database, stepping, bounds,
       PlannerStep
  <1>9. ASSUME Checkpoint PROVE TypeOK'
    <2>1. checkpoint' \in Controller
      BY <1>9, Numbers, PartsType DEF Checkpoint
    <2> QED
      BY <1>9, <2>1 DEF Checkpoint, shared, database, locks, stepping, bounds,
         PlannerStep
  <1>40. ASSUME CheckpointRest PROVE TypeOK'
    <2>1. checkpoint' \in Controller
      BY <1>40, RestType DEF CheckpointRest
    <2> QED
      BY <1>40, <2>1 DEF CheckpointRest, shared, database, locks, stepping,
         bounds, PlannerStep
  <1>41. ASSUME CheckpointRaises PROVE TypeOK'
    BY <1>41, ClearedType DEF CheckpointRaises, Answer, Finish, shared,
       database, stepping, bounds, PlannerStep
  <1>10. ASSUME CompareActive PROVE TypeOK'
    BY <1>10 DEF CompareActive, ActiveUnchanged, shared, database, locks,
       stepping, bounds, PlannerStep
  <1>11. ASSUME InsertDraft PROVE TypeOK'
    BY <1>11 DEF InsertDraft, RevisionTaken, shared, database, stepping,
       bounds, PlannerStep
  <1>12. ASSUME CommitEpoch PROVE TypeOK'
    <2>1. report + 1 \in Nat
      BY Numbers
    <2>2. /\ DOMAIN audit' \subseteq Nat
          /\ audit' \in [DOMAIN audit' -> {"execution", "epoch"}]
      BY <1>12, <2>1, AuditType DEF CommitEpoch
    <2> QED
      BY <1>12, <2>1, <2>2, ClearedType DEF CommitEpoch, Answer, Finish,
         shared, stepping, bounds,
         PlannerStep
  <1>13. ASSUME PortFault PROVE TypeOK'
    BY <1>13, Numbers DEF PortFault, LockAfterError, shared, database,
       stepping, PlannerStep
  <1>14. ASSUME AbandonCommit PROVE TypeOK'
    <2>1. controller' \in Controller
      BY <1>14, Numbers, PartsType DEF AbandonCommit
    <2> QED
      BY <1>14, <2>1 DEF AbandonCommit, database, locks, stepping, bounds,
         PlannerStep
  <1>42. ASSUME AbandonRest PROVE TypeOK'
    <2>1. controller' \in Controller
      BY <1>42, RestType DEF AbandonRest
    <2> QED
      BY <1>42, <2>1, ClearedType DEF AbandonRest, Answer, Finish, database,
         stepping, bounds, PlannerStep
  <1>43. ASSUME CopyController PROVE TypeOK'
    <2>1. saved' \in Controller
      BY <1>43, RestType DEF CopyController
    <2> QED
      BY <1>43, <2>1 DEF CopyController, shared, database, locks, planning,
         bounds, PhysicsStep, CommitStep
  <1>44. ASSUME Install PROVE TypeOK'
    <2>1. controller' \in Controller
      BY <1>44, Numbers, PartsType DEF Install
    <2> QED
      BY <1>44, <2>1 DEF Install, database, locks, planning, bounds,
         PhysicsStep, CommitStep
  <1>45. ASSUME InstallRest PROVE TypeOK'
    <2>0. PICK geometry \in {controller.geometry, staged.geometry} :
              controller' = [controller EXCEPT !.geometry = geometry]
      BY <1>45 DEF InstallRest
    <2>1. controller' \in Controller
      BY <2>0, Numbers, PartsType
    <2> QED
      BY <1>45, <2>1 DEF InstallRest, database, locks, planning, bounds,
         PhysicsStep, CommitStep
  <1>46. ASSUME ApplyFails PROVE TypeOK'
    BY <1>46, UndoType DEF ApplyFails, database, locks, planning, bounds,
       PhysicsStep, CommitStep
  <1>47. ASSUME Preserve PROVE TypeOK'
    BY <1>47, PreserveType DEF Preserve, database, locks, planning, bounds
  <1>15. ASSUME Project PROVE TypeOK'
    BY <1>15, Numbers DEF Project, database, locks, planning, bounds,
       PhysicsStep, CommitStep
  <1>16. ASSUME ProjectionFails PROVE TypeOK'
    BY <1>16, UndoType, Numbers DEF ProjectionFails, database, locks, planning,
       bounds, PhysicsStep, CommitStep
  <1>48. ASSUME ProjectRest PROVE TypeOK'
    <2>1. staged' \in Candidate
      BY <1>48, Numbers DEF ProjectRest, Candidate
    <2> QED
      BY <1>48, <2>1 DEF ProjectRest, shared, database, locks, planning,
         bounds, PhysicsStep, CommitStep
  <1>17. ASSUME Persist PROVE TypeOK'
    <2>1. /\ staged.revision \in Nat /\ staged.auditBase \in Nat
          /\ staged.by \in Author
      BY Numbers
    <2>2. physics' \in PhysicsStep /\ staged' \in Candidate
          /\ saved' \in Controller
      BY <1>17, <2>1, ClearedType DEF Persist, Returned
    <2>3. Installed \in Snapshot
      BY DEF Installed, Snapshot, Candidate
    <2>4. [revision |-> staged.revision, by |-> staged.by] \in ExecutionRow
      BY <2>1 DEF ExecutionRow
    <2>5. durable' \in Seq(ExecutionRow)
      BY <1>17, <2>4 DEF Persist
    <2>6. /\ DOMAIN audit' \subseteq Nat
          /\ audit' \in [DOMAIN audit' -> {"execution", "epoch"}]
      BY <1>17, <2>1, AuditType DEF Persist
    <2>7. activeAudit' \in Nat /\ stored' \in Nat
      BY <1>17, <2>1 DEF Persist
    <2> QED
      BY <1>17, <2>2, <2>3, <2>5, <2>6, <2>7 DEF Persist, locks, planning,
         bounds
  <1>18. ASSUME PersistStale PROVE TypeOK'
    BY <1>18, UndoType DEF PersistStale, database, locks, planning, bounds,
       PhysicsStep, CommitStep
  <1>19. ASSUME PersistFault PROVE TypeOK'
    BY <1>19, UndoType, Numbers DEF PersistFault, database, locks, planning,
       PhysicsStep, CommitStep
  <1>20. ASSUME NothingToApply PROVE TypeOK'
    BY <1>20 DEF NothingToApply, Proceed, database, locks, planning, bounds,
       PhysicsStep
  <1>21. ASSUME CycleDropped PROVE TypeOK'
    BY <1>21, ClearedType DEF CycleDropped, CycleTaken, Proceed, database,
       locks, bounds, PlannerStep, PhysicsStep
  <1>22. ASSUME CycleWithoutSource PROVE TypeOK'
    BY <1>22, ClearedType DEF CycleWithoutSource, CycleToApply, CycleTaken,
       AfterSourceGap, Proceed, database, locks, bounds, PlannerStep,
       PhysicsStep
  <1>23. ASSUME SemanticDropped PROVE TypeOK'
    BY <1>23, ClearedType DEF SemanticDropped, CycleToApply, CycleTaken,
       Proceed, database, locks, bounds, PlannerStep, PhysicsStep
  <1>24. ASSUME SemanticProposed PROVE TypeOK'
    <2>1. "semantic" \in Author /\ current.source \in Nat
          /\ current.geometry \in Nat
      BY DEF Author, Snapshot
    <2>2. Propose("semantic", current.source, current.source, current.geometry)
      BY <1>24 DEF SemanticProposed
    <2>3. /\ staged' \in Candidate /\ saved' \in Controller
          /\ physics' \in PhysicsStep /\ UNCHANGED <<controller, missionPlan>>
      BY <2>1, <2>2, ProposeType
    <2> QED
      BY <1>24, <2>3, ClearedType DEF SemanticProposed, CycleToApply,
         CycleTaken, database, locks, bounds, PlannerStep
  <1>25. ASSUME NoDeploymentChange PROVE TypeOK'
    BY <1>25 DEF NoDeploymentChange, Proceed, database, locks, planning,
       bounds, PhysicsStep
  <1>26. ASSUME DeploymentChanges PROVE TypeOK'
    BY <1>26 DEF DeploymentChanges, Proceed, database, locks, planning, bounds,
       PhysicsStep
  <1>27. ASSUME SynchronizeLifecycle PROVE TypeOK'
    BY <1>27, AdvanceType DEF SynchronizeLifecycle, database, locks, planning,
       bounds, PhysicsStep
  <1>28. ASSUME NoObservation PROVE TypeOK'
    BY <1>28 DEF NoObservation, Proceed, database, locks, planning, bounds,
       PhysicsStep
  <1>29. ASSUME ObservationDue PROVE TypeOK'
    BY <1>29 DEF ObservationDue, Proceed, database, locks, planning, bounds,
       PhysicsStep
  <1>30. ASSUME ObservationCycle PROVE TypeOK'
    BY <1>30, AdvanceType DEF ObservationCycle, database, locks, planning,
       bounds, PhysicsStep
  <1>31. ASSUME RefreshNotDue PROVE TypeOK'
    BY <1>31 DEF RefreshNotDue, Proceed, database, locks, planning, bounds,
       PhysicsStep
  <1>32. ASSUME RefreshWithoutSource PROVE TypeOK'
    BY <1>32 DEF RefreshWithoutSource, AfterSourceGap, Proceed, database,
       locks, planning, bounds, PhysicsStep
  <1>33. ASSUME RefreshFails PROVE TypeOK'
    BY <1>33 DEF RefreshFails, Proceed, database, locks, planning, bounds,
       PhysicsStep
  <1>34. ASSUME RefreshProposed PROVE TypeOK'
    <2>1. PICK geometry \in {current.geometry, current.geometry + 1} :
              Propose("refresh", situation, situation, geometry)
      BY <1>34 DEF RefreshProposed
    <2>2. /\ current.geometry \in Nat /\ current.geometry + 1 \in Nat
          /\ situation \in Nat
      <3>1. current.geometry \in Nat
        BY Numbers
      <3> QED
        BY <3>1
    <2>4. "refresh" \in Author /\ situation \in Nat /\ geometry \in Nat
      BY <2>2 DEF Author
    <2>3. /\ staged' \in Candidate /\ saved' \in Controller
          /\ physics' \in PhysicsStep /\ UNCHANGED <<controller, missionPlan>>
      BY <2>1, <2>4, ProposeType
    <2> QED
      BY <1>34, <2>3 DEF RefreshProposed, database, locks, planning, bounds
  <1>35. ASSUME NoCycle PROVE TypeOK'
    BY <1>35 DEF NoCycle, StartOrNot, Proceed, database, locks, planning,
       bounds, PhysicsStep
  <1>36. ASSUME StartCycle PROVE TypeOK'
    <2>1. cycle' \in [base : Nat, version : Nat, situation : Nat] /\ cycles'
       \in Nat
      BY <1>36, Numbers DEF StartCycle
    <2> QED
      BY <1>36, <2>1 DEF StartCycle, StartOrNot, Proceed, database, locks,
         PlannerStep, PhysicsStep
  <1>37. ASSUME PublishOnly PROVE TypeOK'
    BY <1>37 DEF PublishOnly, Proceed, database, locks, planning, bounds,
       PhysicsStep
  <1>38. ASSUME GeometryProposed PROVE TypeOK'
    <2>1. "geometry" \in Author /\ current.source \in Nat
          /\ controller.geometry \in Nat
      BY DEF Author, Snapshot, Controller
    <2>2. Propose("geometry", current.source, current.source,
                  controller.geometry)
      BY <1>38 DEF GeometryProposed
    <2>3. /\ staged' \in Candidate /\ saved' \in Controller
          /\ physics' \in PhysicsStep /\ UNCHANGED <<controller, missionPlan>>
      BY <2>1, <2>2, ProposeType
    <2> QED
      BY <1>38, <2>3 DEF GeometryProposed, database, locks, planning, bounds
  <1>39. ASSUME UNCHANGED vars PROVE TypeOK'
    BY <1>39 DEF vars, shared, database, locks, planning, stepping, bounds
  <1> QED
    BY <1>1, <1>2, <1>3, <1>4, <1>5, <1>6, <1>7, <1>8, <1>9, <1>10, <1>11,
       <1>12, <1>13, <1>14, <1>15, <1>16, <1>17, <1>18, <1>19, <1>20, <1>21,
       <1>22, <1>23, <1>24, <1>25, <1>26, <1>27, <1>28, <1>29, <1>30, <1>31,
       <1>32, <1>33, <1>34, <1>35, <1>36, <1>37, <1>38, <1>39, <1>40, <1>41,
       <1>42, <1>43, <1>44, <1>45, <1>46, <1>47, <1>48 DEF Next, Planning,
       Stepping
-----------------------------------------------------------------------------
\* A step that changes no variable.
LEMMA StutterKeeps == IInv /\ TypeOK' /\ UNCHANGED vars => IInv'
  <1> SUFFICES ASSUME IInv, TypeOK, TypeOK', UNCHANGED vars
               PROVE  IInv'
    BY DEF IInv
  <1> USE DEF vars, shared, database, locks, planning, stepping, bounds, IInv
  <1>1. AuditTracksExecution'
    BY DEF AuditTracksExecution
  <1>2. SemanticHasEpoch' /\ CurrentIsDurable'
    BY DEF SemanticHasEpoch, CurrentIsDurable
  <1>3. CommitInProgress' /\ CommittedIsSettled'
    BY DEF CommitInProgress, CommittedIsSettled, Settled, Committing, Holding,
       PortRestored
  <1>4. Admission' /\ PhysicalState' /\ CycleBase'
    BY DEF Admission, PhysicalState, CycleBase
  <1> QED
    BY <1>1, <1>2, <1>3, <1>4

\* Entering the transition, the port's mission is compared to its report: on
\* the coordinator's revision it cannot be that of a commit in progress.
LEMMA EnterTransitionKeeps == IInv /\ TypeOK' /\ EnterTransition => IInv'
  <1> SUFFICES ASSUME IInv, TypeOK, TypeOK', EnterTransition
               PROVE  IInv'
    BY DEF IInv
  <1>1. /\ planner = "valid" /\ ~PortRestored /\ ~PortRestored'
        /\ transition' = "plan"
        /\ planner' \in {"admission", "refused"}
        /\ planner' = "admission" =>
             controller.planRevision = report
    BY DEF EnterTransition, PlanTransition, PortRestored
  <1>2. UNCHANGED <<shared, database, writeLock, cycle, report, checkpoint,
                    outcome, stepping, bounds>>
    BY DEF EnterTransition
  <1> USE <1>1, <1>2 DEF shared, database, stepping, bounds, IInv
  <1>3. AuditTracksExecution' /\ SemanticHasEpoch' /\ CurrentIsDurable'
    BY DEF AuditTracksExecution, SemanticHasEpoch, CurrentIsDurable
  <1>4. CommitInProgress'
    BY DEF CommitInProgress, Committing, Holding
  <1>5. Admission' /\ PhysicalState' /\ CycleBase'
    BY DEF Admission, PhysicalState, CycleBase
  <1>6. CommittedIsSettled'
    <2>1. ASSUME controller.planRevision = current.revision
          PROVE  Settled
      <3>1. ~ (Committing /\ Holding)
        BY <2>1, Numbers DEF CommitInProgress
      <3>2. Committing => saved.planRevision = controller.planRevision
        BY <3>1 DEF CommitInProgress
      <3> QED
        BY <2>1, <3>1, <3>2 DEF Settled, Committing
    <2>2. Settled => Settled'
      BY DEF Settled, Committing, Holding
    <2> QED
      BY <2>1, <2>2 DEF CommittedIsSettled
  <1> QED
    BY <1>3, <1>4, <1>5, <1>6

\* The active plan that prepare found to be the report's may only have grown
\* since; no row of the next revision then means that it has not.
LEMMA PrepareKeeps ==
    IInv /\ TypeOK' /\ (CompareActive \/ InsertDraft) => IInv'
  <1> SUFFICES ASSUME IInv, TypeOK, TypeOK', CompareActive \/ InsertDraft
               PROVE  IInv'
    BY DEF IInv
  <1>1. /\ planner \in {"prepare", "verified"}
        /\ planner' \in {"verified", "prepared", "failing"}
    BY DEF CompareActive, InsertDraft
  <1>2. UNCHANGED <<shared, database, transition, cycle, report, checkpoint,
                    outcome, stepping, bounds>>
    BY DEF CompareActive, InsertDraft, locks
  <1>3. Admission'
    <2>1. activeAudit = current.revision
      BY <1>1 DEF IInv, Admission
    <2>2. CASE CompareActive
      <3>1. /\ planner' = "verified" => activeAudit = report
            /\ planner' # "prepared" /\ ~writeLock'
        BY <2>2 DEF CompareActive, ActiveUnchanged, locks, IInv, Admission
      <3> QED
        BY <1>2, <2>1, <3>1, Numbers
        DEF Admission, shared, database
    <2>3. CASE InsertDraft
      <3>1. report <= activeAudit
        BY <2>3 DEF InsertDraft, IInv, Admission
      <3>2. planner' = "prepared" => report + 1 \notin
         1..activeAudit
        BY <2>3 DEF InsertDraft, RevisionTaken, IInv, AuditTracksExecution
      <3>3. planner' = "prepared" => report = activeAudit
        BY <2>1, <3>1, <3>2, Numbers
      <3>4. (writeLock' <=> planner' = "prepared") /\ planner' # "verified"
        BY <2>3 DEF InsertDraft, IInv, Admission
      <3> QED
        BY <1>2, <2>1, <3>3, <3>4 DEF Admission, shared, database
    <2> QED
      BY <2>2, <2>3
  <1> USE <1>1, <1>2 DEF shared, database, stepping, bounds, IInv
  <1>4. AuditTracksExecution' /\ SemanticHasEpoch' /\ CurrentIsDurable'
    BY DEF AuditTracksExecution, SemanticHasEpoch, CurrentIsDurable
  <1>5. CommitInProgress' /\ CommittedIsSettled'
    BY DEF CommitInProgress, CommittedIsSettled, Settled, Committing, Holding,
       PortRestored
  <1>6. PhysicalState' /\ CycleBase'
    BY DEF PhysicalState, CycleBase
  <1> QED
    BY <1>3, <1>4, <1>5, <1>6

\* The epoch's plan is written one revision above the coordinator's.
LEMMA CommitEpochKeeps == IInv /\ TypeOK' /\ CommitEpoch => IInv'
  <1> SUFFICES ASSUME IInv, TypeOK, TypeOK', CommitEpoch
               PROVE  IInv'
    BY DEF IInv
  <1> DEFINE r == current.revision + 1
  <1>1. /\ planner = "prepared" /\ planner' = "done" /\ ~writeLock'
        /\ outcome' = "committed"
        /\ UNCHANGED <<shared, durable, stored, cycle, stepping, bounds>>
    BY DEF CommitEpoch, Answer, Finish
  <1>2. /\ report = current.revision
        /\ activeAudit = current.revision
        /\ DOMAIN audit = 1..activeAudit
    BY <1>1 DEF IInv, Admission, AuditTracksExecution
  <1>3. activeAudit' = r /\ audit' = Put(audit, r, "epoch")
    BY <1>2 DEF CommitEpoch
  <1>4. r \in Nat /\ r \notin DOMAIN audit /\ current.revision \in Nat
    <2>1. r \in Nat /\ current.revision \in Nat
      BY Numbers
    <2>2. r \notin 1..current.revision
      BY <2>1
    <2> QED
      BY <1>2, <2>1, <2>2
  <1>5. /\ DOMAIN audit' = DOMAIN audit \cup {r}
        /\ audit'[r] = "epoch"
        /\ \A x \in DOMAIN audit : audit'[x] = audit[x]
    BY <1>3, <1>4 DEF Put
  <1>6. AuditTracksExecution'
    <2>1. 1..r = (1..current.revision) \cup {r}
      BY <1>4
    <2> QED
      BY <1>1, <1>2, <1>3, <1>5, <2>1 DEF AuditTracksExecution, shared
  <1> HIDE DEF r
  <1>7. SemanticHasEpoch' /\ CurrentIsDurable'
    BY <1>1, <1>5 DEF SemanticHasEpoch, CurrentIsDurable, shared, IInv
  <1>8. CommitInProgress'
    BY <1>1, <1>5 DEF CommitInProgress, Committing, Holding, PortRestored,
       shared, stepping, IInv
  <1>9. Admission' /\ PhysicalState'
    BY <1>1 DEF Admission, PhysicalState, shared, IInv
  <1>10. CycleBase'
    BY <1>1, <1>5 DEF CycleBase, shared, IInv, r
  <1>11. CommittedIsSettled'
    BY <1>1, <1>2
    DEF CommittedIsSettled, Settled, Committing, Holding, shared, stepping, IInv
  <1> QED
    BY <1>6, <1>7, <1>8, <1>9, <1>10, <1>11 DEF IInv

\* The candidate is persisted as the next revision, and its plan is in the
\* audit table: the row an epoch has written, or else its own.
LEMMA PersistKeeps == IInv /\ TypeOK' /\ Persist => IInv'
  <1> SUFFICES ASSUME IInv, TypeOK, TypeOK', Persist
               PROVE  IInv'
    BY DEF IInv
  <1> DEFINE r == current.revision + 1
             row == [revision |-> r, by |-> staged.by]
  <1>1. /\ physics = "projected" /\ Committing /\ Holding
        /\ planner # "prepared" /\ staged.revision = r
    BY DEF Persist, Committing, CommitStep, Holding, IInv, CommitInProgress,
       Admission
  <1>2. /\ current'.revision = r
        /\ durable' = Append(durable, row)
        /\ UNCHANGED <<controller, locks, planning>>
    BY <1>1 DEF Persist, Installed
  <1>3. ~Committing' /\ ~Holding'
    <2>1. After(staged.by) \notin CommitStep
      BY Numbers, ClearedType
    <2> QED
      BY <2>1 DEF Persist, Returned, Committing, Holding, CommitStep
  <1>4. /\ DOMAIN audit = 1..activeAudit
        /\ activeAudit \in {current.revision, r}
        /\ current.revision \in Nat /\ r \in Nat
    BY Numbers DEF IInv, AuditTracksExecution
  <1>5. /\ activeAudit' = r
        /\ DOMAIN audit' = 1..r
        /\ \A x \in DOMAIN audit : audit'[x] = audit[x]
    <2>1. CASE r \in DOMAIN audit
      <3>1. UNCHANGED <<audit, activeAudit>>
        BY <1>1, <2>1 DEF Persist, RevisionTaken
      <3> QED
        BY <1>4, <2>1, <3>1
    <2>2. CASE r \notin DOMAIN audit
      <3>1. activeAudit' = r /\ audit' = Put(audit, r, "execution")
        BY <1>1, <2>2 DEF Persist, RevisionTaken
      <3>2. activeAudit = current.revision
        BY <1>4, <2>2
      <3>3. /\ DOMAIN audit' = DOMAIN audit \cup {r}
            /\ \A x \in DOMAIN audit : audit'[x] = audit[x]
        BY <2>2, <3>1 DEF Put
      <3>4. 1..r = (1..current.revision) \cup {r}
        BY <1>4
      <3> QED
        BY <1>4, <3>1, <3>2, <3>3, <3>4
    <2> QED
      BY <2>1, <2>2
  <1>6. /\ DOMAIN durable = 1..current.revision
        /\ DOMAIN durable' = 1..r
        /\ Len(durable') = r
        /\ \A i \in DOMAIN durable : durable'[i] = durable[i]
        /\ durable'[r] = row
    <2>1. durable \in Seq(ExecutionRow) /\ Len(durable) = current.revision
      BY DEF IInv, TypeOK, CurrentIsDurable
    <2> QED
      BY <1>2, <1>4, <2>1
  <1>7. staged.by = "semantic" => r \in DOMAIN audit /\ audit[r] = "epoch"
    BY <1>1 DEF IInv, CommitInProgress
  <1>8. row.revision = r /\ row.by = staged.by
    OBVIOUS
  <1>9. \A i \in DOMAIN durable' : i \in DOMAIN durable \/ i = r
    BY <1>4, <1>6
  <1> HIDE DEF r, row
  <1>10. AuditTracksExecution'
    BY <1>2, <1>5 DEF AuditTracksExecution
  <1>11. SemanticHasEpoch'
    <2> SUFFICES ASSUME NEW i \in DOMAIN durable', durable'[i].by = "semantic"
                 PROVE  /\ durable'[i].revision \in DOMAIN audit'
                        /\ audit'[durable'[i].revision] = "epoch"
      BY DEF SemanticHasEpoch
    <2>1. /\ DOMAIN audit \subseteq DOMAIN audit'
          /\ \A x \in DOMAIN audit : audit'[x] = audit[x]
      BY <1>4, <1>5 DEF r
    <2>2. CASE i \in DOMAIN durable
      BY <1>6, <2>1, <2>2 DEF SemanticHasEpoch, IInv
    <2>3. CASE i = r
      BY <1>6, <1>7, <1>8, <2>1, <2>3
    <2> QED
      BY <1>9, <2>2, <2>3
  <1>12. CurrentIsDurable'
    BY <1>2, <1>6, <1>8, <1>9 DEF CurrentIsDurable, IInv
  <1>13. CommitInProgress' /\ PhysicalState'
    BY <1>2, <1>3 DEF CommitInProgress, PhysicalState, locks, planning, IInv
  <1>14. Admission'
    <2>1. activeAudit <= activeAudit' /\ activeAudit' = current'.revision
      BY <1>2, <1>4, <1>5 DEF r
    <2>2. activeAudit \in Nat /\ activeAudit' \in Nat
      BY <1>4, <1>5
    <2> QED
      BY <1>1, <1>2, <2>1, <2>2, Numbers DEF Admission, locks, planning, IInv
  <1>15. CycleBase'
    <2>1. cycle.base <= current.revision /\ cycle.base \in Nat
      BY Numbers DEF IInv, CycleBase
    <2>2. cycle'.base < current'.revision
      BY <1>2, <1>4, <2>1 DEF r, planning
    <2> QED
      BY <1>2, <1>4, <2>1, <2>2 DEF CycleBase, planning
  <1>16. CommittedIsSettled'
    <2>1. ASSUME ~PortRestored PROVE Settled'
      <3>1. controller.planRevision = r
        BY <1>1, <2>1 DEF IInv, CommitInProgress
      <3> QED
        BY <1>2, <1>3, <3>1 DEF Settled
    <2>2. UNCHANGED <<planner, report, outcome>>
      BY <1>2 DEF planning
    <2> QED
      BY <2>1, <2>2 DEF CommittedIsSettled, PortRestored
  <1> QED
    BY <1>10, <1>11, <1>12, <1>13, <1>14, <1>15, <1>16 DEF IInv

\* A cycle starts from the coordinator's newest revision.
LEMMA StartCycleKeeps == IInv /\ TypeOK' /\ StartCycle => IInv'
  <1> SUFFICES ASSUME IInv, TypeOK, TypeOK', StartCycle
               PROVE  IInv'
    BY DEF IInv
  <1>1. /\ ~Committing /\ ~Committing'
        /\ cycle'.base = current.revision
        /\ planner = "idle" /\ planner' = "ingest"
    BY DEF StartCycle, StartOrNot, Proceed, Committing, CommitStep
  <1>2. UNCHANGED <<controller, current, terminal, database, locks>>
    BY DEF StartCycle, StartOrNot, Proceed
  <1> USE <1>1, <1>2 DEF database, locks, IInv
  <1>3. AuditTracksExecution' /\ SemanticHasEpoch' /\ CurrentIsDurable'
    BY DEF AuditTracksExecution, SemanticHasEpoch, CurrentIsDurable
  <1>4. CommitInProgress' /\ Admission' /\ PhysicalState'
    BY DEF CommitInProgress, Admission, PhysicalState
  <1>5. CycleBase' /\ CommittedIsSettled'
    BY Numbers DEF CycleBase, CommittedIsSettled
  <1> QED
    BY <1>3, <1>4, <1>5

\* The first step of a failed commit's undoing gives the controller the plan
\* revision it had.
LEMMA UndoKeeps ==
    ASSUME IInv, TypeOK',
           ApplyFails \/ ProjectionFails \/ PersistStale \/ PersistFault
    PROVE  IInv'
  <1> TypeOK
    BY DEF IInv
  <1>1. /\ Committing /\ physics # "proposed" /\ Undo
        /\ UNCHANGED <<database, locks, planning>>
    BY DEF ApplyFails, ProjectionFails, PersistStale, PersistFault, Committing,
           CommitStep
  <1>2. /\ controller'.planRevision = saved.planRevision
        /\ controller'.progress = controller.progress
        /\ physics' = "undoing"
        /\ UNCHANGED <<current, terminal, staged, saved>>
    BY <1>1, UndoType
  <1>3. Committing' /\ ~Holding'
    BY <1>2 DEF Committing, CommitStep, Holding
  <1> USE <1>1, <1>2, <1>3 DEF database, locks, planning, IInv
  <1>4. AuditTracksExecution' /\ SemanticHasEpoch' /\ CurrentIsDurable'
    BY DEF AuditTracksExecution, SemanticHasEpoch, CurrentIsDurable
  <1>5. CommitInProgress'
    BY DEF CommitInProgress, PortRestored
  <1>6. Admission' /\ CycleBase' /\ PhysicalState'
    BY DEF Admission, CycleBase, PhysicalState
  <1>7. CommittedIsSettled'
    BY DEF CommittedIsSettled, Settled
  <1> QED
    BY <1>4, <1>5, <1>6, <1>7

\* The second one gives it the rest, and the commit is over.
LEMMA PreserveKeeps ==
    ASSUME IInv, TypeOK', Preserve
    PROVE  IInv'
  <1> TypeOK
    BY DEF IInv
  <1>1. /\ physics = "undoing" /\ Committing /\ ~Holding
        /\ UNCHANGED <<current, database, locks, planning>>
    BY DEF Preserve, Committing, CommitStep, Holding
  <1>2. saved.progress = controller.progress
    BY <1>1 DEF IInv, CommitInProgress
  <1>3. /\ controller'.planRevision = controller.planRevision
        /\ controller'.progress = controller.progress
        /\ ~Committing' /\ ~Holding'
    BY <1>2, PreserveType DEF Committing, Holding, CommitStep
  <1> USE <1>1, <1>3 DEF database, locks, planning, IInv
  <1>4. AuditTracksExecution' /\ SemanticHasEpoch' /\ CurrentIsDurable'
    BY DEF AuditTracksExecution, SemanticHasEpoch, CurrentIsDurable
  <1>5. CommitInProgress' /\ Admission' /\ CycleBase'
    BY DEF CommitInProgress, Admission, CycleBase
  <1>6. PhysicalState' /\ CommittedIsSettled'
    BY DEF PhysicalState, CommittedIsSettled, Settled
  <1> QED
    BY <1>4, <1>5, <1>6

\* A proposed candidate is the next revision; a semantic one has its epoch.
LEMMA ProposeKeeps ==
    ASSUME IInv, TypeOK',
           SemanticProposed \/ RefreshProposed \/ GeometryProposed
    PROVE  IInv'
  <1> TypeOK
    BY DEF IInv
  <1>1. PICK by, source, auditBase, geometry :
            /\ Propose(by, source, auditBase, geometry)
            /\ by = "semantic" => SemanticProposed
    BY DEF SemanticProposed, RefreshProposed, GeometryProposed
  <1>2. /\ ~Committing
        /\ UNCHANGED <<current, terminal, database, locks>>
        /\ planner' # planner => planner = "done" /\ planner' = "idle"
        /\ planner' # "idle" =>
             UNCHANGED <<planner, cycle, report, checkpoint, outcome>>
    BY DEF SemanticProposed, RefreshProposed, GeometryProposed, CycleToApply,
           CycleTaken, Committing, CommitStep, planning
  <1>3. /\ staged'.revision = current.revision + 1 /\ staged'.by = by
        /\ saved'.planRevision = controller.planRevision
        /\ physics' = "proposed"
        /\ UNCHANGED controller
    <2>1. saved' = [saved EXCEPT !.planRevision = controller.planRevision]
      BY <1>1 DEF Propose
    <2>2. saved \in Controller /\ controller.planRevision \in Nat
      BY Numbers DEF TypeOK
    <2> QED
      BY <1>1, <2>1, <2>2, PartsType DEF Propose
  <1>4. by = "semantic" =>
          /\ planner = "done" /\ outcome = "committed" /\ planner' = "idle"
          /\ terminal = "none" /\ cycle.base = current.revision
    BY <1>1 DEF SemanticProposed, CycleToApply, CycleTaken, BaselineHolds
  <1>5. Committing' /\ ~Holding' /\ ~Holding
    BY <1>2, <1>3 DEF Committing, CommitStep, Holding
  <1>6. cycle'.base \in {0, cycle.base}
    BY DEF SemanticProposed, RefreshProposed, GeometryProposed, CycleToApply,
           CycleTaken, NoCycleInputs, planning
  <1> USE <1>2, <1>3, <1>5 DEF database, locks, IInv
  <1>7. AuditTracksExecution' /\ SemanticHasEpoch' /\ CurrentIsDurable'
    BY DEF AuditTracksExecution, SemanticHasEpoch, CurrentIsDurable
  <1>8. CommitInProgress'
    BY <1>4 DEF CommitInProgress, CycleBase
  <1>9. Admission'
    BY DEF Admission
  <1>10. PhysicalState'
    BY DEF PhysicalState
  <1>11. CycleBase'
    BY <1>6, Numbers DEF CycleBase
  <1>12. CommittedIsSettled'
    BY DEF CommittedIsSettled, Settled
  <1> QED
    BY <1>7, <1>8, <1>9, <1>10, <1>11, <1>12

\* The port writes its copy back: first the plan revision, ...
LEMMA AbandonKeeps ==
    ASSUME IInv, TypeOK', AbandonCommit \/ AbandonRest
    PROVE  IInv'
  <1> TypeOK
    BY DEF IInv
  <1>1. /\ planner \in {"failing", "restoring"}
        /\ PortRestored'
        /\ planner' \in {"restoring", "done"}
        /\ planner' = "done" => outcome' = "failed"
        /\ planner' = "restoring" => UNCHANGED <<transition, checkpoint>>
        /\ UNCHANGED <<current, terminal, database, writeLock, cycle, stepping>>
    BY DEF AbandonCommit, AbandonRest, Answer, Finish, PortRestored, locks
  <1>2. checkpoint.progress = controller.progress
    BY <1>1 DEF IInv, PhysicalState
  <1>3. controller'.progress = controller.progress
    <2>1. CASE AbandonCommit
      BY <2>1, PartsType, Numbers DEF AbandonCommit, TypeOK
    <2>2. CASE AbandonRest
      BY <1>2, <2>2, RestType DEF AbandonRest, TypeOK
    <2> QED
      BY <2>1, <2>2
  <1> USE <1>1, <1>2, <1>3 DEF database, stepping, IInv
  <1>4. AuditTracksExecution' /\ SemanticHasEpoch' /\ CurrentIsDurable'
    BY DEF AuditTracksExecution, SemanticHasEpoch, CurrentIsDurable
  <1>5. CommitInProgress'
    BY DEF CommitInProgress, Committing, Holding
  <1>6. Admission' /\ CycleBase' /\ PhysicalState'
    BY DEF Admission, CycleBase, PhysicalState
  <1>7. CommittedIsSettled'
    BY DEF CommittedIsSettled
  <1> QED
    BY <1>4, <1>5, <1>6, <1>7

\* The steps of an apply.
LEMMA ApplyKeeps ==
    ASSUME IInv, TypeOK',
           CopyController \/ Install \/ InstallRest \/ Project \/ ProjectRest
    PROVE  IInv'
  <1> TypeOK
    BY DEF IInv
  <1>1. /\ Committing /\ Committing'
        /\ physics' # "proposed"
        /\ UNCHANGED <<current, terminal, database, locks, planning>>
    BY DEF CopyController, Install, InstallRest, Project, ProjectRest,
           Committing, CommitStep, shared
  <1>2. /\ controller \in Controller /\ saved \in Controller
        /\ staged \in Candidate
    BY DEF TypeOK
  <1>3. /\ staged'.revision = staged.revision /\ staged'.by = staged.by
        /\ saved'.planRevision = saved.planRevision
        /\ controller'.progress = controller.progress
        /\ saved'.progress = controller.progress
        /\ Holding => Holding'
        /\ Holding' =>
             controller'.planRevision = IF Holding THEN controller.planRevision
                                        ELSE staged.revision
        /\ ~Holding' => ~Holding /\ controller' = controller
    <2>1. CASE CopyController
      BY <1>2, <2>1, RestType DEF CopyController, shared, Holding
    <2>2. CASE Install
      <3>1. /\ physics = "copied" /\ physics' = "installing"
            /\ controller' = [controller EXCEPT !.planRevision =
                                                  staged.revision]
            /\ UNCHANGED <<staged, saved>>
        BY <2>2 DEF Install
      <3> QED
        BY <1>1, <1>2, <3>1, PartsType, Numbers
           DEF Holding, IInv, CommitInProgress
    <2>3. CASE InstallRest
      <3>1. /\ physics = "installing" /\ physics' = "installed"
            /\ UNCHANGED <<staged, saved>>
        BY <2>3 DEF InstallRest
      <3>2. /\ controller'.planRevision = controller.planRevision
            /\ controller'.progress = controller.progress
        BY <1>2, <2>3, PartsType, Numbers DEF InstallRest
      <3> QED
        BY <1>1, <3>1, <3>2 DEF Holding, IInv, CommitInProgress
    <2>4. CASE Project
      BY <1>1, <2>4 DEF Project, Holding, IInv, CommitInProgress
    <2>5. CASE ProjectRest
      <3>1. /\ physics = "projecting" /\ physics' = "projected"
            /\ UNCHANGED <<controller, saved>>
        BY <2>5 DEF ProjectRest, shared
      <3>2. staged'.revision = staged.revision /\ staged'.by = staged.by
        BY <1>2, <2>5 DEF ProjectRest, Candidate
      <3> QED
        BY <1>1, <3>1, <3>2 DEF Holding, IInv, CommitInProgress
    <2> QED
      BY <2>1, <2>2, <2>3, <2>4, <2>5
  <1> USE <1>1, <1>3 DEF database, locks, planning, IInv
  <1>4. AuditTracksExecution' /\ SemanticHasEpoch' /\ CurrentIsDurable'
    BY DEF AuditTracksExecution, SemanticHasEpoch, CurrentIsDurable
  <1>5. CommitInProgress'
    BY DEF CommitInProgress, PortRestored
  <1>6. Admission' /\ CycleBase' /\ PhysicalState'
    BY DEF Admission, CycleBase, PhysicalState
  <1>7. CommittedIsSettled'
    BY DEF CommittedIsSettled, Settled
  <1> QED
    BY <1>4, <1>5, <1>6, <1>7

\* A cycle is taken from the planning thread, whatever becomes of its plan.
LEMMA TakenKeeps ==
    ASSUME IInv, TypeOK', CycleDropped \/ CycleWithoutSource \/ SemanticDropped
    PROVE  IInv'
  <1> TypeOK
    BY DEF IInv
  <1>1. /\ planner = "done" /\ planner' = "idle" /\ cycle'.base = 0
        /\ physics = "apply" /\ physics' = "reschedule"
        /\ UNCHANGED <<controller, current, database, locks, staged, saved>>
    BY DEF CycleDropped, CycleWithoutSource, SemanticDropped, CycleToApply,
           CycleTaken, NoCycleInputs, Proceed
  <1>2. ~Committing'
    BY <1>1 DEF Committing, CommitStep
  <1> USE <1>1, <1>2 DEF database, locks, IInv
  <1>3. AuditTracksExecution' /\ SemanticHasEpoch' /\ CurrentIsDurable'
    BY DEF AuditTracksExecution, SemanticHasEpoch, CurrentIsDurable
  <1>4. CommitInProgress' /\ Admission' /\ PhysicalState'
    BY DEF CommitInProgress, Admission, PhysicalState
  <1>5. CycleBase' /\ CommittedIsSettled'
    BY Numbers DEF CycleBase, CommittedIsSettled
  <1> QED
    BY <1>3, <1>4, <1>5

\* The controller follows the world while the port is not in its transition.
LEMMA AdvanceKeeps ==
    ASSUME IInv, TypeOK', SynchronizeLifecycle \/ ObservationCycle
    PROVE  IInv'
  <1> TypeOK
    BY DEF IInv
  <1>1. /\ physics \in {"syncing", "observing"} /\ transition = "none"
        /\ physics' \in {"observe", "situation"}
        /\ AdvanceController
        /\ UNCHANGED <<current, terminal, database, locks, planning>>
    BY DEF SynchronizeLifecycle, ObservationCycle, AdvanceController
  <1>2. controller'.planRevision = controller.planRevision
    BY <1>1, AdvanceType
  <1>3. ~Committing /\ ~Committing' /\ ~Holding /\ ~Holding'
    BY <1>1 DEF Committing, CommitStep, Holding
  <1> USE <1>1, <1>2, <1>3 DEF database, locks, planning, IInv
  <1>4. AuditTracksExecution' /\ SemanticHasEpoch' /\ CurrentIsDurable'
    BY DEF AuditTracksExecution, SemanticHasEpoch, CurrentIsDurable
  <1>5. CommitInProgress' /\ Admission' /\ PhysicalState'
    BY DEF CommitInProgress, Admission, PhysicalState
  <1>6. CycleBase' /\ CommittedIsSettled'
    BY DEF CycleBase, CommittedIsSettled, Settled
  <1> QED
    BY <1>4, <1>5, <1>6

\* The port takes its copy: the progress is the controller's until it answers.
LEMMA CheckpointKeeps ==
    ASSUME IInv, TypeOK', Checkpoint \/ CheckpointRest
    PROVE  IInv'
  <1> TypeOK
    BY DEF IInv
  <1>1. /\ planner \in {"checkpoint", "copying"}
        /\ planner' \in {"copying", "prepare"}
        /\ UNCHANGED <<shared, database, locks, cycle, report, outcome,
                       stepping>>
    BY DEF Checkpoint, CheckpointRest
  <1>2. planner' = "prepare" => checkpoint'.progress = controller.progress
    BY RestType DEF Checkpoint, CheckpointRest, TypeOK
  <1> USE <1>1, <1>2 DEF shared, database, locks, stepping, IInv
  <1>3. AuditTracksExecution' /\ SemanticHasEpoch' /\ CurrentIsDurable'
    BY DEF AuditTracksExecution, SemanticHasEpoch, CurrentIsDurable
  <1>4. CommitInProgress' /\ Admission' /\ PhysicalState'
    BY DEF CommitInProgress, Committing, Holding, PortRestored, Admission,
           PhysicalState
  <1>5. CycleBase' /\ CommittedIsSettled'
    BY DEF CycleBase, CommittedIsSettled, Settled, Committing, Holding
  <1> QED
    BY <1>3, <1>4, <1>5

-----------------------------------------------------------------------------
\* The invariant is inductive.  Persist, where the coordinator and the audit
\* table meet, and CommitEpoch, where the port and the audit table do, are the
\* steps that disturb most of it.
LEMMA NextIInv == IInv /\ TypeOK' /\ [Next]_vars => IInv'
  <1> SUFFICES ASSUME IInv, TypeOK', [Next]_vars PROVE IInv'
    OBVIOUS
  <1> USE DEF IInv, Committing, CommitStep, Settled, shared, database, locks,
     planning, stepping, bounds, AuditTracksExecution, SemanticHasEpoch,
     CurrentIsDurable, CommitInProgress, Admission, PhysicalState, CycleBase,
     CommittedIsSettled, Holding, PortRestored
  <1>1. ASSUME Ingest PROVE IInv'
    BY <1>1 DEF Ingest
  <1>2. ASSUME BrainsFail PROVE IInv'
    BY <1>2 DEF BrainsFail
  <1>3. ASSUME Revalidate PROVE IInv'
    BY <1>3 DEF Revalidate
  <1>4. ASSUME FinishInvalid PROVE IInv'
    BY <1>4 DEF FinishInvalid, Answer, Finish
  <1>5. ASSUME EnterTransition PROVE IInv'
    BY <1>5, EnterTransitionKeeps
  <1>6. ASSUME RefuseAdvanced PROVE IInv'
    BY <1>6 DEF RefuseAdvanced, Answer, Finish
  <1>7. ASSUME Admit PROVE IInv'
    BY <1>7 DEF Admit, Admitted
  <1>8. ASSUME NotAdmitted PROVE IInv'
    BY <1>8 DEF NotAdmitted, Answer, Finish
  <1>9. ASSUME Checkpoint PROVE IInv'
    BY <1>9, CheckpointKeeps
  <1>40. ASSUME CheckpointRest PROVE IInv'
    BY <1>40, CheckpointKeeps
  <1>41. ASSUME CheckpointRaises PROVE IInv'
    BY <1>41 DEF CheckpointRaises, Answer, Finish
  <1>10. ASSUME CompareActive PROVE IInv'
    BY <1>10, PrepareKeeps
  <1>11. ASSUME InsertDraft PROVE IInv'
    BY <1>11, PrepareKeeps
  <1>12. ASSUME CommitEpoch PROVE IInv'
    BY <1>12, CommitEpochKeeps
  <1>13. ASSUME PortFault PROVE IInv'
    BY <1>13 DEF PortFault, LockAfterError
  <1>14. ASSUME AbandonCommit PROVE IInv'
    BY <1>14, AbandonKeeps
  <1>42. ASSUME AbandonRest PROVE IInv'
    BY <1>42, AbandonKeeps
  <1>43. ASSUME CopyController PROVE IInv'
    BY <1>43, ApplyKeeps
  <1>44. ASSUME Install PROVE IInv'
    BY <1>44, ApplyKeeps
  <1>45. ASSUME InstallRest PROVE IInv'
    BY <1>45, ApplyKeeps
  <1>46. ASSUME ApplyFails PROVE IInv'
    BY <1>46, UndoKeeps
  <1>47. ASSUME Preserve PROVE IInv'
    BY <1>47, PreserveKeeps
  <1>15. ASSUME Project PROVE IInv'
    BY <1>15, ApplyKeeps
  <1>48. ASSUME ProjectRest PROVE IInv'
    BY <1>48, ApplyKeeps
  <1>16. ASSUME ProjectionFails PROVE IInv'
    BY <1>16, UndoKeeps
  <1>17. ASSUME Persist PROVE IInv'
    BY <1>17, PersistKeeps
  <1>18. ASSUME PersistStale PROVE IInv'
    BY <1>18, UndoKeeps
  <1>19. ASSUME PersistFault PROVE IInv'
    BY <1>19, UndoKeeps
  <1>20. ASSUME NothingToApply PROVE IInv'
    BY <1>20 DEF NothingToApply, Proceed
  <1>21. ASSUME CycleDropped PROVE IInv'
    BY <1>21, TakenKeeps
  <1>22. ASSUME CycleWithoutSource PROVE IInv'
    BY <1>22, TakenKeeps
  <1>23. ASSUME SemanticDropped PROVE IInv'
    BY <1>23, TakenKeeps
  <1>24. ASSUME SemanticProposed PROVE IInv'
    BY <1>24, ProposeKeeps
  <1>25. ASSUME NoDeploymentChange PROVE IInv'
    BY <1>25 DEF NoDeploymentChange, Proceed
  <1>26. ASSUME DeploymentChanges PROVE IInv'
    BY <1>26 DEF DeploymentChanges, Proceed
  <1>27. ASSUME SynchronizeLifecycle PROVE IInv'
    BY <1>27, AdvanceKeeps
  <1>28. ASSUME NoObservation PROVE IInv'
    BY <1>28 DEF NoObservation, Proceed
  <1>29. ASSUME ObservationDue PROVE IInv'
    BY <1>29 DEF ObservationDue, Proceed
  <1>30. ASSUME ObservationCycle PROVE IInv'
    BY <1>30, AdvanceKeeps
  <1>31. ASSUME RefreshNotDue PROVE IInv'
    BY <1>31 DEF RefreshNotDue, Proceed
  <1>32. ASSUME RefreshWithoutSource PROVE IInv'
    BY <1>32 DEF RefreshWithoutSource, AfterSourceGap, Proceed
  <1>33. ASSUME RefreshFails PROVE IInv'
    BY <1>33 DEF RefreshFails, Proceed
  <1>34. ASSUME RefreshProposed PROVE IInv'
    BY <1>34, ProposeKeeps
  <1>35. ASSUME NoCycle PROVE IInv'
    BY <1>35 DEF NoCycle, StartOrNot, Proceed
  <1>36. ASSUME StartCycle PROVE IInv'
    BY <1>36, StartCycleKeeps
  <1>37. ASSUME PublishOnly PROVE IInv'
    BY <1>37 DEF PublishOnly, Proceed
  <1>38. ASSUME GeometryProposed PROVE IInv'
    BY <1>38, ProposeKeeps
  <1>39. ASSUME UNCHANGED vars PROVE IInv'
    BY <1>39, StutterKeeps
  <1> QED
    BY <1>1, <1>2, <1>3, <1>4, <1>5, <1>6, <1>7, <1>8, <1>9, <1>10, <1>11,
       <1>12, <1>13, <1>14, <1>15, <1>16, <1>17, <1>18, <1>19, <1>20, <1>21,
       <1>22, <1>23, <1>24, <1>25, <1>26, <1>27, <1>28, <1>29, <1>30, <1>31,
       <1>32, <1>33, <1>34, <1>35, <1>36, <1>37, <1>38, <1>39, <1>40, <1>41,
       <1>42, <1>43, <1>44, <1>45, <1>46, <1>47, <1>48 DEF Next, Planning,
       Stepping

-----------------------------------------------------------------------------
\* The inductive invariant holds in every reachable state.
THEOREM Invariant == Spec => []IInv
  <1>1. Init => IInv
    BY InitIInv
  <1>2. IInv /\ [Next]_vars => IInv'
    <2>1. IInv /\ [Next]_vars => TypeOK'
      BY NextTypeOK DEF IInv
    <2> QED
      BY <2>1, NextIInv
  <1> QED
    BY <1>1, <1>2, PTL DEF Spec

\* Every variable keeps its type.
THEOREM TypeCorrect == Spec => []TypeOK
  <1>1. IInv => TypeOK
    BY DEF IInv
  <1> QED
    BY <1>1, Invariant, PTL

\* The audit table, which the port and the coordinator write under different
\* locks, has no gap and is at most one epoch ahead of the coordinator.
THEOREM AuditIsTracked == Spec => []AuditTracksExecution
  <1>1. IInv => AuditTracksExecution
    BY DEF IInv
  <1> QED
    BY <1>1, Invariant, PTL

\* A semantic execution revision is the revision of a committed epoch.
THEOREM SemanticIsEpoch == Spec => []SemanticHasEpoch
  <1>1. IInv => SemanticHasEpoch
    BY DEF IInv
  <1> QED
    BY <1>1, Invariant, PTL

\* The coordinator's snapshot is the newest persisted one, after any failure.
THEOREM CurrentSurvives == Spec => []CurrentIsDurable
  <1>1. IInv => CurrentIsDurable
    BY DEF IInv
  <1> QED
    BY <1>1, Invariant, PTL

\* The unguarded projection of a committed cycle's baseline does not raise.
THEOREM ProjectionIsSafe == Spec => []CommittedCycleProjects
  <1>1. IInv => CommittedCycleProjects
    BY DEF IInv, CommittedIsSettled, Settled, Holding, CommittedCycleProjects
  <1> QED
    BY <1>1, Invariant, PTL

-----------------------------------------------------------------------------
\* Who writes the progress of the controller.
LEMMA ProgressFrame ==
    ASSUME TypeOK, [Next]_vars
    PROVE  \/ AbandonRest
           \/ Preserve
           \/ AdvanceController
           \/ controller'.progress = controller.progress
  <1>1. /\ controller \in Controller /\ checkpoint \in Controller
        /\ controller.geometry \in Nat /\ staged.revision \in Nat
        /\ staged.geometry \in Nat /\ checkpoint.planRevision \in Nat
    BY Numbers DEF TypeOK
  <1>2. CASE AbandonCommit
    BY <1>1, <1>2, PartsType DEF AbandonCommit
  <1>3. CASE Install
    BY <1>1, <1>3, PartsType DEF Install
  <1>4. CASE InstallRest
    BY <1>1, <1>4, PartsType DEF InstallRest
  <1>5. CASE ApplyFails \/ ProjectionFails \/ PersistStale \/ PersistFault
    BY <1>5, UndoType DEF ApplyFails, ProjectionFails, PersistStale,
       PersistFault
  <1>6. CASE ~ (\/ AbandonCommit \/ Install \/ InstallRest \/ ApplyFails
                \/ ProjectionFails \/ PersistStale \/ PersistFault
                \/ AbandonRest \/ Preserve \/ AdvanceController)
    <2>1. UNCHANGED controller
      BY <1>6, Zenon DEF Next, Planning, Stepping, vars, shared, database,
         locks, planning, stepping, bounds, Ingest, BrainsFail, Revalidate,
         FinishInvalid, EnterTransition, RefuseAdvanced, Admit, NotAdmitted,
         Checkpoint, CheckpointRest, CheckpointRaises, CompareActive,
         InsertDraft, CommitEpoch, PortFault, CopyController, Project,
         ProjectRest, Persist, NothingToApply, Proceed, CycleDropped,
         CycleWithoutSource, SemanticDropped, SemanticProposed, Propose,
         NoDeploymentChange, DeploymentChanges, SynchronizeLifecycle,
         NoObservation, ObservationDue, ObservationCycle, RefreshNotDue,
         RefreshWithoutSource, RefreshFails, RefreshProposed, NoCycle,
         StartOrNot, StartCycle, PublishOnly, GeometryProposed
    <2> QED
      BY <2>1
  <1> QED
    BY <1>2, <1>3, <1>4, <1>5, <1>6

\* No rollback takes a physical transition back, although neither copies or
\* writes the controller at once.
THEOREM ProgressKept == Spec => ProgressIsKept
  <1>1. ASSUME IInv, [Next]_vars
        PROVE  controller'.progress >= controller.progress
    <2> TypeOK
      BY <1>1 DEF IInv
    <2>1. CASE AbandonRest
      <3>1. /\ controller' = WithRest(controller, checkpoint)
            /\ planner = "restoring"
        BY <2>1 DEF AbandonRest
      <3>2. controller'.progress = checkpoint.progress
        BY <3>1, RestType DEF TypeOK
      <3> QED
        BY <1>1, <3>1, <3>2, Numbers DEF IInv, PhysicalState
    <2>2. CASE Preserve
      <3>1. /\ controller'.progress = saved.progress
            /\ Committing /\ physics # "proposed"
        BY <2>2, PreserveType DEF Preserve, Committing, CommitStep
      <3> QED
        BY <1>1, <3>1, Numbers DEF IInv, CommitInProgress
    <2>3. CASE AdvanceController
      BY <2>3, AdvanceType, Numbers
    <2>4. CASE controller'.progress = controller.progress
      BY <2>4, Numbers
    <2> QED
      BY <1>1, <2>1, <2>2, <2>3, <2>4, ProgressFrame
  <1> QED
    BY <1>1, Invariant, PTL DEF Spec, ProgressIsKept

\* Who lifts a terminal status.
LEMMA TerminalFrame ==
    ASSUME [Next]_vars
    PROVE  \/ Persist
           \/ terminal' \in {terminal, "failed", "expired"}
  BY Zenon DEF Next, Planning, Stepping, vars, shared, database, locks,
     planning, stepping, bounds, Ingest, BrainsFail, Revalidate, FinishInvalid,
     Answer, Finish, EnterTransition, RefuseAdvanced, Admit, NotAdmitted, Checkpoint,
     CheckpointRest, CheckpointRaises, AbandonRest, CopyController, Install,
     InstallRest, ApplyFails, Undo, ProjectRest, CycleTaken,
     CompareActive, InsertDraft, CommitEpoch, PortFault, AbandonCommit,
     Project, ProjectionFails, Preserve, RestoredController, RestoredCurrent,
     PersistStale, PersistFault, NothingToApply, Proceed, CycleDropped,
     CycleWithoutSource, CycleToApply, AfterSourceGap, SemanticDropped,
     SemanticProposed, Propose, NoDeploymentChange, DeploymentChanges,
     SynchronizeLifecycle, NoObservation, ObservationDue, ObservationCycle,
     RefreshNotDue, RefreshWithoutSource, RefreshFails, RefreshProposed,
     NoCycle, StartOrNot, StartCycle, PublishOnly, GeometryProposed

\* A semantic candidate never makes a failed or expired plan executable.
THEOREM NeverRecovered == Spec => SemanticNeverRecovers
  <1>1. ASSUME IInv, [Next]_vars, terminal # "none", terminal' = "none"
        PROVE  durable'[Len(durable')].by # "semantic"
    <2>1. Persist
      BY <1>1, TerminalFrame
    <2>2. durable' = Append(durable, [revision |-> staged.revision,
                                      by |-> staged.by])
      BY <2>1 DEF Persist
    <2>3. durable'[Len(durable')].by = staged.by
      BY <1>1, <2>2 DEF IInv, TypeOK
    <2>4. staged.by # "semantic"
      BY <1>1, <2>1 DEF Persist, Committing, CommitStep, IInv, CommitInProgress
    <2> QED
      BY <2>3, <2>4
  <1> QED
    BY <1>1, Invariant, PTL DEF Spec, SemanticNeverRecovers

-----------------------------------------------------------------------------
(***************************************************************************)
(* The refinement.  The ledger is the persisted rows, the captured         *)
(* revision the base of the cycle, for as long as it may still be written. *)
(***************************************************************************)
Kind(row) == IF row.by = "semantic" THEN "semantic" ELSE "physics"
LedgerOf(rows) == [i \in DOMAIN rows |-> Kind(rows[i])]

InFlight == Committing /\ staged.by = "semantic"
Captured == IF InFlight THEN staged.revision - 1
            ELSE IF planner = "idle" THEN 0 ELSE cycle.base

LedgerStep ==
    \/ Captured = 0 /\ Captured' = Len(LedgerOf(durable))
       /\ LedgerOf(durable)' = LedgerOf(durable)
    \/ Captured' = 0 /\ LedgerOf(durable)' = LedgerOf(durable)
    \/ LedgerOf(durable)' = Append(LedgerOf(durable), "physics")
       /\ Captured' = Captured
    \/ Captured = Len(LedgerOf(durable))
       /\ LedgerOf(durable)' = Append(LedgerOf(durable), "semantic")
       /\ Captured' = 0
    \/ LedgerOf(durable)' = LedgerOf(durable) /\ Captured' = Captured

\* The ledger is as long as the table, and a persisted row is one entry of it.
LEMMA LedgerLength ==
    ASSUME NEW rows \in Seq(ExecutionRow)
    PROVE  /\ LedgerOf(rows) \in Seq({"semantic", "physics"})
           /\ Len(LedgerOf(rows)) = Len(rows)
  BY DEF LedgerOf, Kind

LEMMA LedgerGrows ==
    ASSUME NEW rows \in Seq(ExecutionRow), NEW row \in ExecutionRow
    PROVE  /\ LedgerOf(Append(rows, row)) = Append(LedgerOf(rows), Kind(row))
           /\ Len(LedgerOf(rows)) = Len(rows)
  BY LedgerLength DEF LedgerOf

\* How a step moves the ledger: by a persisted row, by a cycle that starts, by
\* one that ends, by one that becomes a candidate, or not at all.
LEMMA LedgerFrame ==
    ASSUME IInv, [Next]_vars
    PROVE  \/ Persist
           \/ StartCycle
           \/ SemanticProposed
           \/ durable' = durable /\ planner' = "idle" /\ ~InFlight'
           \/ /\ durable' = durable /\ cycle' = cycle
              /\ (planner' = "idle" <=> planner = "idle")
              /\ (InFlight' <=> InFlight)
              /\ InFlight => staged'.revision = staged.revision
  <1> DEFINE Same == /\ durable' = durable /\ cycle' = cycle
                     /\ (planner' = "idle" <=> planner = "idle")
                     /\ (InFlight' <=> InFlight)
                     /\ InFlight => staged'.revision = staged.revision
  <1> TypeOK
    BY DEF IInv
  <1>1. CASE Planning
    <2>1. UNCHANGED <<durable, cycle, physics, staged>>
      BY <1>1, Zenon DEF Planning, shared, database, locks, stepping, bounds,
         Ingest, BrainsFail, Revalidate, FinishInvalid,
         EnterTransition, RefuseAdvanced, Admit, NotAdmitted, Checkpoint,
         CheckpointRest, CheckpointRaises, CompareActive, InsertDraft,
         CommitEpoch, PortFault, AbandonCommit, AbandonRest
    <2>2. planner # "idle" /\ planner' # "idle"
      BY <1>1 DEF Planning, Ingest, BrainsFail, Revalidate, FinishInvalid,
         Answer, Finish, EnterTransition, RefuseAdvanced, Admit, NotAdmitted,
         Checkpoint, CheckpointRest, CheckpointRaises, CompareActive,
         InsertDraft, CommitEpoch, PortFault, AbandonCommit, AbandonRest
    <2> QED
      BY <2>1, <2>2 DEF InFlight, Committing
  <1>2. CASE Preserve
    <2>1. ~InFlight' /\ Committing /\ UNCHANGED <<durable, cycle, planner>>
      BY <1>2, PreserveType DEF Preserve, Committing, CommitStep, InFlight,
         database, planning
    <2>2. CASE staged.by = "semantic"
      <3>1. planner = "idle"
        BY <2>1, <2>2 DEF IInv, CommitInProgress
      <3> QED
        BY <2>1, <3>1
    <2>3. CASE staged.by # "semantic"
      BY <2>1, <2>3 DEF InFlight
    <2> QED
      BY <2>2, <2>3
  <1>3. CASE \/ CopyController \/ Install \/ InstallRest \/ ApplyFails
             \/ Project \/ ProjectionFails \/ ProjectRest \/ PersistStale
             \/ PersistFault
    <2>1. /\ Committing /\ Committing' /\ UNCHANGED <<durable, planning>>
      BY <1>3 DEF CopyController, Install, InstallRest, ApplyFails, Undo,
         Project, ProjectionFails, ProjectRest, PersistStale, PersistFault,
         Committing, CommitStep, database
    <2>2. staged'.by = staged.by /\ staged'.revision = staged.revision
      BY <1>3 DEF CopyController, Install, InstallRest, ApplyFails, Undo,
         Project, ProjectionFails, ProjectRest, PersistStale, PersistFault,
         TypeOK, Candidate
    <2> QED
      BY <2>1, <2>2 DEF InFlight, planning
  <1>4. CASE CycleDropped \/ CycleWithoutSource \/ SemanticDropped
    BY <1>4 DEF CycleDropped, CycleTaken, Proceed, CycleWithoutSource,
       CycleToApply, SemanticDropped, Committing, CommitStep, InFlight, database
  <1>5. CASE NothingToApply \/ NoDeploymentChange \/ DeploymentChanges \/
     SynchronizeLifecycle \/ NoObservation \/ ObservationDue \/
     ObservationCycle \/ RefreshNotDue \/ RefreshWithoutSource \/ RefreshFails
     \/ RefreshProposed \/ NoCycle \/ PublishOnly \/ GeometryProposed
    <2>1. ~Committing /\ UNCHANGED <<durable, planning>>
      BY <1>5 DEF NothingToApply, Proceed, NoDeploymentChange,
         DeploymentChanges, SynchronizeLifecycle, NoObservation,
         ObservationDue, ObservationCycle, RefreshNotDue, RefreshWithoutSource,
         RefreshFails, RefreshProposed, Propose, NoCycle, StartOrNot,
         PublishOnly, GeometryProposed, Committing, CommitStep, database,
         planning
    <2>2. ~Committing' \/ staged'.by # "semantic"
      BY <1>5 DEF NothingToApply, Proceed, NoDeploymentChange,
         DeploymentChanges, SynchronizeLifecycle, NoObservation,
         ObservationDue, ObservationCycle, RefreshNotDue, RefreshWithoutSource,
         RefreshFails, RefreshProposed, Propose, NoCycle, StartOrNot,
         PublishOnly, GeometryProposed, Committing, CommitStep
    <2> QED
      BY <2>1, <2>2 DEF InFlight, planning
  <1>6. CASE UNCHANGED vars
    BY <1>6 DEF vars, database, planning, stepping, InFlight, Committing
  <1> QED
    BY <1>1, <1>2, <1>3, <1>4, <1>5, <1>6 DEF Next, Stepping

\* The ledger after each of these.
LEMMA LedgerMoves == IInv /\ IInv' /\ [Next]_vars => LedgerStep
  <1> SUFFICES ASSUME IInv, IInv', [Next]_vars PROVE LedgerStep
    OBVIOUS
  <1> TypeOK
    BY DEF IInv
  <1>1. CASE Persist
    <2> DEFINE row == [revision |-> staged.revision, by |-> staged.by]
    <2>1. row \in ExecutionRow /\ durable \in Seq(ExecutionRow)
      BY Numbers DEF ExecutionRow, TypeOK
    <2>2. durable' = Append(durable, row) /\ UNCHANGED <<planner, cycle>>
      BY <1>1 DEF Persist, planning
    <2>3. LedgerOf(durable') = Append(LedgerOf(durable), Kind(row))
          /\ Len(LedgerOf(durable)) = current.revision
      BY <2>1, <2>2, LedgerGrows DEF IInv, CurrentIsDurable
    <2>4. /\ Committing /\ ~InFlight'
          /\ staged.revision = current.revision + 1
      <3>1. After(staged.by) \notin CommitStep
        BY Numbers, ClearedType
      <3> QED
        BY <1>1, <3>1 DEF Persist, Returned, Committing, CommitStep, InFlight,
           IInv, CommitInProgress
    <2>5. CASE staged.by = "semantic"
      <3>1. planner = "idle"
        BY <2>4, <2>5 DEF IInv, CommitInProgress
      <3>2. Captured = current.revision /\ Captured' = 0
        BY <2>2, <2>4, <2>5, <3>1, Numbers DEF Captured, InFlight
      <3>3. Kind(row) = "semantic"
        BY <2>5 DEF Kind
      <3> QED
        BY <2>3, <3>2, <3>3 DEF LedgerStep
    <2>6. CASE staged.by # "semantic"
      <3>1. Captured' = Captured
        BY <2>2, <2>4, <2>6 DEF Captured, InFlight
      <3>2. Kind(row) = "physics"
        BY <2>6 DEF Kind
      <3> QED
        BY <2>3, <3>1, <3>2 DEF LedgerStep
    <2> QED
      BY <2>5, <2>6
  <1>2. CASE StartCycle
    <2>1. /\ ~InFlight /\ ~InFlight' /\ planner = "idle" /\ planner' = "ingest"
          /\ cycle'.base = current.revision /\ durable' = durable
      BY <1>2 DEF StartCycle, StartOrNot, Proceed, Committing, CommitStep,
         InFlight, database
    <2>2. Captured = 0 /\ Captured' = current.revision
      BY <2>1 DEF Captured
    <2>3. Len(LedgerOf(durable)) = current.revision
      BY LedgerLength DEF IInv, TypeOK, CurrentIsDurable
    <2> QED
      BY <2>1, <2>2, <2>3 DEF LedgerStep
  <1>3. CASE SemanticProposed
    <2>1. /\ ~InFlight /\ InFlight' /\ planner = "done" /\ durable' = durable
          /\ staged'.revision = current.revision + 1
          /\ current.revision = cycle.base
      BY <1>3 DEF SemanticProposed, CycleToApply, BaselineHolds, Propose,
         Committing, CommitStep, InFlight, database
    <2>2. Captured = cycle.base /\ Captured' = cycle.base
      BY <2>1, Numbers DEF Captured
    <2> QED
      BY <2>1, <2>2 DEF LedgerStep
  <1>4. CASE durable' = durable /\ planner' = "idle" /\ ~InFlight'
    BY <1>4 DEF LedgerStep, Captured
  <1>5. CASE /\ durable' = durable /\ cycle' = cycle
             /\ (planner' = "idle" <=> planner = "idle")
             /\ (InFlight' <=> InFlight)
             /\ InFlight => staged'.revision = staged.revision
    BY <1>5 DEF LedgerStep, Captured
  <1> QED
    BY <1>1, <1>2, <1>3, <1>4, <1>5, LedgerFrame

\* The two threads, their locks and the tables implement one ledger.
THEOREM ImplementsLedger == Spec => KeepsLedger
  <1>1. Init => Ledger!Init
    BY DEF Init, Ledger!Init, Committing, CommitStep
  <1>2. LedgerStep => [Ledger!Next]_<<LedgerOf(durable), Captured>>
    BY DEF LedgerStep, Ledger!Next, Ledger!Capture, Ledger!Forget,
       Ledger!ExtendByPhysics, Ledger!ExtendByPlanning, LedgerOf, Kind,
       Captured, InFlight
  <1>3. IInv /\ IInv' /\ [Next]_vars => [Ledger!Next]_<<LedgerOf(durable),
     Captured>>
    BY <1>2, LedgerMoves
  <1> QED
    BY <1>1, <1>3, Invariant, PTL DEF Spec, KeepsLedger, Ledger!Spec, LedgerOf,
       Kind, Captured, InFlight

-----------------------------------------------------------------------------
(***************************************************************************)
(* The copies of the plan revision, and the locks                          *)
(***************************************************************************)
\* The engine's plan is never restored and may stay one revision ahead, the
\* controller's at most one.
CopiesDrift ==
    /\ missionPlan \in {current.revision, current.revision + 1}
    /\ controller.planRevision <= current.revision + 1

\* What a commit in progress installs or would restore, and the port's
\* checkpoint, are within the same bounds.
RestoreWithinBounds ==
    /\ Committing => saved.planRevision <= current.revision + 1
    /\ physics \in {"projecting", "projected"} => missionPlan = staged.revision
    /\ planner \in {"copying", "prepare", "verified", "prepared", "failing",
                    "restoring"} =>
         checkpoint.planRevision <= current.revision + 1

\* The plan transition is the port's from the comparison of the locked mission
\* to its answer, and whatever fails in between it is given back with it.
PortHolds == planner \in {"refused", "admission", "checkpoint", "copying",
                          "prepare", "verified", "prepared", "failing",
                          "restoring"}
TransitionIsThePorts == transition = "plan" <=> PortHolds

DInv == IInv /\ CopiesDrift /\ RestoreWithinBounds /\ TransitionIsThePorts

\* Where each thread waits for what the other holds: the transition, the
\* coordinator's lock or the database's write lock.
PlannerWaits ==
    \/ planner \in {"invalid", "valid"} /\ transition # "none"
    \/ planner = "admission" /\ Committing
PhysicsWaits ==
    \/ physics \in {"syncing", "observing"} /\ transition # "none"
    \/ physics = "projected" /\ writeLock

\* However transition, coordinator and database are locked, the two threads
\* never wait for each other.
NoCircularWait == ~(PlannerWaits /\ PhysicsWaits)

-----------------------------------------------------------------------------
\* Steps that move the planning thread and none of the copies.
LEMMA PortMoves ==
    ASSUME DInv, UNCHANGED <<shared, stepping>>,
           planner' \in {"copying", "prepare", "verified", "prepared",
                        "failing", "restoring"} =>
             \/ checkpoint'.planRevision = controller.planRevision
             \/ /\ planner \in {"copying", "prepare", "verified", "prepared",
                                "failing", "restoring"}
                /\ checkpoint'.planRevision = checkpoint.planRevision
    PROVE  CopiesDrift' /\ RestoreWithinBounds'
  BY DEF DInv, CopiesDrift, RestoreWithinBounds, shared, stepping, Committing

\* Steps of the physics thread, in a commit or outside, that leave the
\* engine's plan and the coordinator's snapshot alone.
LEMMA PhysicsMoves ==
    ASSUME DInv, UNCHANGED <<missionPlan, current>>,
           physics' \notin {"projecting", "projected"},
           planner' \in {"idle", "ingest"} \/ UNCHANGED <<planner, checkpoint>>,
           \/ controller'.planRevision \in {controller.planRevision,
                                           current.revision + 1}
           \/ Committing /\ controller'.planRevision = saved.planRevision,
           Committing' => \/ saved'.planRevision = controller.planRevision
                          \/ /\ Committing
                             /\ saved'.planRevision = saved.planRevision
    PROVE  CopiesDrift' /\ RestoreWithinBounds'
  <1>1. current.revision + 1 \in Nat /\ saved.planRevision \in Nat
        /\ controller.planRevision \in Nat
    BY Numbers DEF DInv, IInv
  <1> QED
    BY <1>1 DEF DInv, CopiesDrift, RestoreWithinBounds

\* A proposed candidate is one revision ahead.
LEMMA ProposeDrift ==
    ASSUME DInv, SemanticProposed \/ RefreshProposed \/ GeometryProposed
    PROVE  CopiesDrift' /\ RestoreWithinBounds'
  <1> TypeOK
    BY DEF DInv, IInv
  <1>1. PICK by, source, auditBase, geometry :
            Propose(by, source, auditBase, geometry)
    BY DEF SemanticProposed, RefreshProposed, GeometryProposed
  <1>2. /\ UNCHANGED current
        /\ planner' = "idle" \/ UNCHANGED <<planner, checkpoint>>
    BY DEF SemanticProposed, RefreshProposed, GeometryProposed, CycleToApply,
           CycleTaken, planning
  <1>3. saved'.planRevision = controller.planRevision
    BY <1>1, Numbers, PartsType DEF Propose, TypeOK
  <1>4. physics' = "proposed" /\ UNCHANGED <<controller, missionPlan>>
    BY <1>1 DEF Propose
  <1> QED
    BY <1>2, <1>3, <1>4, PhysicsMoves

\* A commit that is persisted makes its revision the coordinator's.
LEMMA PersistDrift ==
    ASSUME DInv, Persist
    PROVE  CopiesDrift' /\ RestoreWithinBounds'
  <1> TypeOK
    BY DEF DInv, IInv
  <1>1. /\ Committing
        /\ UNCHANGED <<controller, missionPlan, planner, checkpoint>>
        /\ physics' = After(staged.by)
    BY DEF Persist, Returned, Committing, CommitStep, planning
  <1>2. current'.revision = staged.revision
    BY DEF Persist, Installed
  <1>3. physics' \notin CommitStep
    BY <1>1, Numbers, ClearedType
  <1>4. /\ staged.revision = current.revision + 1
        /\ missionPlan = staged.revision
    BY <1>1 DEF DInv, IInv, CommitInProgress, RestoreWithinBounds, Persist
  <1> QED
    BY <1>1, <1>2, <1>3, <1>4, Numbers
       DEF DInv, CopiesDrift, RestoreWithinBounds, Committing, CommitStep

\* The steps of a commit before its answer.
LEMMA CommitDrift ==
    ASSUME DInv,
           \/ CopyController \/ Install \/ InstallRest \/ ApplyFails
           \/ Project \/ ProjectionFails \/ ProjectRest \/ PersistStale
           \/ PersistFault
    PROVE  CopiesDrift' /\ RestoreWithinBounds'
  <1> TypeOK
    BY DEF DInv, IInv
  <1>1. /\ Committing /\ UNCHANGED <<current, planning>>
        /\ staged.revision = current.revision + 1
    <2>1. Committing /\ UNCHANGED <<current, planning>>
      BY UndoType DEF CopyController, Install, InstallRest, ApplyFails,
         Project, ProjectionFails, ProjectRest, PersistStale, PersistFault,
         Committing, CommitStep, shared
    <2> QED
      BY <2>1 DEF DInv, IInv, CommitInProgress
  <1>2. /\ controller \in Controller /\ saved \in Controller
        /\ staged.revision \in Nat /\ staged.geometry \in Nat
        /\ controller.geometry \in Nat /\ saved.planRevision \in Nat
    BY Numbers DEF TypeOK
  <1>3. CASE CopyController
    <2>1. /\ saved'.planRevision = saved.planRevision /\ physics' = "copied"
          /\ UNCHANGED <<controller, missionPlan>>
      BY <1>2, <1>3, RestType DEF CopyController, shared
    <2> QED
      BY <1>1, <2>1, PhysicsMoves DEF planning
  <1>4. CASE Install
    <2>1. /\ controller'.planRevision = staged.revision
          /\ physics' = "installing" /\ UNCHANGED <<saved, missionPlan>>
      BY <1>2, <1>4, PartsType DEF Install
    <2> QED
      BY <1>1, <2>1, PhysicsMoves DEF planning
  <1>5. CASE InstallRest
    <2>1. /\ controller'.planRevision = controller.planRevision
          /\ physics' = "installed" /\ UNCHANGED <<saved, missionPlan>>
      BY <1>2, <1>5, PartsType DEF InstallRest
    <2> QED
      BY <1>1, <2>1, PhysicsMoves DEF planning
  <1>6. CASE ApplyFails \/ PersistStale \/ PersistFault
    <2>1. Undo /\ UNCHANGED missionPlan
      BY <1>6 DEF ApplyFails, PersistStale, PersistFault
    <2>2. /\ controller'.planRevision = saved.planRevision
          /\ physics' = "undoing" /\ UNCHANGED saved
      BY <2>1, UndoType
    <2> QED
      BY <1>1, <2>1, <2>2, PhysicsMoves DEF planning
  <1>7. CASE ProjectionFails
    <2>1. Undo /\ missionPlan' = staged.revision
      BY <1>7 DEF ProjectionFails
    <2>2. /\ controller'.planRevision = saved.planRevision
          /\ physics' = "undoing" /\ UNCHANGED saved
      BY <2>1, UndoType
    <2> QED
      BY <1>1, <2>1, <2>2
         DEF DInv, CopiesDrift, RestoreWithinBounds, planning
  <1>8. CASE Project
    <2>1. /\ missionPlan' = staged.revision /\ physics' = "projecting"
          /\ UNCHANGED <<controller, staged, saved>>
      BY <1>8 DEF Project
    <2> QED
      BY <1>1, <2>1 DEF DInv, CopiesDrift, RestoreWithinBounds, planning
  <1>9. CASE ProjectRest
    <2>1. /\ physics = "projecting" /\ UNCHANGED <<controller, missionPlan, saved>>
          /\ staged'.revision = staged.revision
      BY <1>9 DEF ProjectRest, shared, TypeOK, Candidate
    <2> QED
      BY <1>1, <2>1 DEF DInv, CopiesDrift, RestoreWithinBounds, planning
  <1> QED
    BY <1>3, <1>4, <1>5, <1>6, <1>7, <1>8, <1>9

LEMMA DriftStep ==
    ASSUME DInv, IInv', [Next]_vars
    PROVE  CopiesDrift' /\ RestoreWithinBounds'
  <1> TypeOK /\ TypeOK'
    BY DEF DInv, IInv
  <1>1. CASE \/ Ingest \/ BrainsFail \/ Revalidate \/ FinishInvalid
             \/ EnterTransition \/ RefuseAdvanced \/ Admit \/ NotAdmitted
             \/ CheckpointRaises \/ CompareActive \/ InsertDraft
             \/ CommitEpoch \/ PortFault
    <2>1. UNCHANGED <<shared, stepping>>
      BY <1>1 DEF Ingest, BrainsFail, Revalidate, FinishInvalid,
         EnterTransition, RefuseAdvanced, Admit, NotAdmitted, CheckpointRaises,
         CompareActive, InsertDraft, CommitEpoch, PortFault
    <2>2. \/ planner' \notin {"copying", "prepare", "verified", "prepared",
                              "failing", "restoring"}
          \/ /\ planner \in {"prepare", "verified", "prepared"}
             /\ UNCHANGED checkpoint
      BY <1>1 DEF Ingest, BrainsFail, Revalidate, FinishInvalid,
         EnterTransition, RefuseAdvanced, Admit, NotAdmitted, CheckpointRaises,
         CompareActive, InsertDraft, CommitEpoch, PortFault, Answer, Finish
    <2> QED
      BY <2>1, <2>2, PortMoves
  <1>2. CASE Checkpoint \/ CheckpointRest
    <2>1. UNCHANGED <<shared, stepping>>
      BY <1>2 DEF Checkpoint, CheckpointRest
    <2>2. \/ checkpoint'.planRevision = controller.planRevision
          \/ /\ planner = "copying"
             /\ checkpoint'.planRevision = checkpoint.planRevision
      <3>1. /\ controller \in Controller /\ checkpoint \in Controller
            /\ controller.planRevision \in Nat
        BY Numbers DEF TypeOK
      <3>2. CASE Checkpoint
        BY <3>1, <3>2, PartsType DEF Checkpoint
      <3>3. CASE CheckpointRest
        BY <3>1, <3>3, RestType DEF CheckpointRest
      <3> QED
        BY <1>2, <3>2, <3>3
    <2> QED
      BY <2>1, <2>2, PortMoves
  <1>3. CASE AbandonCommit
    <2>1. /\ planner = "failing" /\ planner' = "restoring"
          /\ controller'.planRevision = checkpoint.planRevision
          /\ UNCHANGED <<missionPlan, current, checkpoint, stepping>>
      BY <1>3, Numbers, PartsType DEF AbandonCommit, TypeOK
    <2> QED
      BY <2>1 DEF DInv, CopiesDrift, RestoreWithinBounds, stepping, Committing
  <1>4. CASE AbandonRest
    <2>1. /\ planner' = "done"
          /\ controller'.planRevision = controller.planRevision
          /\ UNCHANGED <<missionPlan, current, stepping>>
      BY <1>4, RestType DEF AbandonRest, Answer, Finish, TypeOK
    <2> QED
      BY <2>1 DEF DInv, CopiesDrift, RestoreWithinBounds, stepping, Committing
  <1>5. CASE Persist
    BY <1>5, PersistDrift
  <1>6. CASE SemanticProposed \/ RefreshProposed \/ GeometryProposed
    BY <1>6, ProposeDrift
  <1>7. CASE \/ CopyController \/ Install \/ InstallRest \/ ApplyFails
             \/ Project \/ ProjectionFails \/ ProjectRest \/ PersistStale
             \/ PersistFault
    BY <1>7, CommitDrift
  <1>8. CASE Preserve
    <2>1. /\ controller'.planRevision = controller.planRevision
          /\ physics' \notin CommitStep
      BY <1>8, PreserveType
    <2>2. UNCHANGED <<missionPlan, current, planning>>
      BY <1>8 DEF Preserve
    <2> QED
      BY <2>1, <2>2, PhysicsMoves DEF planning, Committing, CommitStep
  <1>9. CASE SynchronizeLifecycle \/ ObservationCycle
    <2>1. /\ AdvanceController /\ physics' \in {"observe", "situation"}
          /\ UNCHANGED <<missionPlan, current, planning>>
      BY <1>9 DEF SynchronizeLifecycle, ObservationCycle
    <2>2. controller'.planRevision = controller.planRevision
      BY <2>1, AdvanceType
    <2> QED
      BY <2>1, <2>2, PhysicsMoves DEF planning, Committing, CommitStep
  <1>10. CASE \/ NothingToApply \/ CycleDropped \/ CycleWithoutSource
              \/ SemanticDropped \/ NoDeploymentChange \/ DeploymentChanges
              \/ NoObservation \/ ObservationDue \/ RefreshNotDue
              \/ RefreshWithoutSource \/ RefreshFails \/ NoCycle
              \/ StartCycle \/ PublishOnly
    <2>1. UNCHANGED <<missionPlan, current, controller>>
      BY <1>10 DEF NothingToApply, CycleDropped, CycleWithoutSource,
         SemanticDropped, NoDeploymentChange, DeploymentChanges,
         NoObservation, ObservationDue, RefreshNotDue, RefreshWithoutSource,
         RefreshFails, NoCycle, StartCycle, StartOrNot, PublishOnly, Proceed
    <2>2. /\ physics' \notin CommitStep
          /\ \/ planner' \in {"idle", "ingest"}
             \/ UNCHANGED <<planner, checkpoint>>
      BY <1>10 DEF NothingToApply, CycleDropped, CycleWithoutSource,
         CycleToApply, CycleTaken, SemanticDropped, NoDeploymentChange,
         DeploymentChanges, NoObservation, ObservationDue, RefreshNotDue,
         RefreshWithoutSource, RefreshFails, NoCycle, StartCycle, StartOrNot,
         PublishOnly, Proceed, planning, CommitStep
    <2> QED
      BY <2>1, <2>2, PhysicsMoves DEF Committing, CommitStep
  <1>11. CASE UNCHANGED vars
    BY <1>11 DEF DInv, CopiesDrift, RestoreWithinBounds, Committing, vars,
       shared, planning, stepping
  <1> QED
    BY <1>1, <1>2, <1>3, <1>4, <1>5, <1>6, <1>7, <1>8, <1>9, <1>10, <1>11
       DEF Next, Planning, Stepping

\* Only the port's steps touch the transition.
LEMMA TransitionStep ==
    ASSUME DInv, [Next]_vars
    PROVE  TransitionIsThePorts'
  <1> TypeOK /\ TransitionIsThePorts
    BY DEF DInv, IInv
  <1>1. CASE Planning
    BY <1>1 DEF TransitionIsThePorts, PortHolds, Planning, Ingest, BrainsFail,
       Revalidate, FinishInvalid, Answer, Finish, EnterTransition,
       PlanTransition, RefuseAdvanced, Admit, NotAdmitted, Checkpoint,
       CheckpointRest, CheckpointRaises, CompareActive, InsertDraft,
       CommitEpoch, PortFault, AbandonCommit, AbandonRest, locks
  <1>2. CASE Stepping
    <2>1. UNCHANGED transition
      BY <1>2 DEF Stepping, CopyController, Install, InstallRest, ApplyFails,
         Preserve, ProjectRest, Project, ProjectionFails, Persist, PersistStale,
         PersistFault, NothingToApply, CycleDropped, CycleWithoutSource,
         SemanticDropped, SemanticProposed, NoDeploymentChange,
         DeploymentChanges, SynchronizeLifecycle, NoObservation,
         ObservationDue, ObservationCycle, RefreshNotDue,
         RefreshWithoutSource, RefreshFails, RefreshProposed, NoCycle,
         StartCycle, PublishOnly, GeometryProposed, locks
    <2>2. CASE \/ CycleDropped \/ CycleWithoutSource \/ SemanticDropped
               \/ SemanticProposed \/ StartCycle
      <3>1. planner \in {"idle", "done"} /\ planner' \in {"idle", "ingest"}
        BY <2>2 DEF CycleDropped, CycleWithoutSource, CycleToApply,
           CycleTaken, SemanticDropped, SemanticProposed, StartCycle
      <3> QED
        BY <2>1, <3>1 DEF TransitionIsThePorts, PortHolds
    <2>3. CASE ~ (\/ CycleDropped \/ CycleWithoutSource \/ SemanticDropped
                  \/ SemanticProposed \/ StartCycle)
      <3>1. UNCHANGED planner
        BY <1>2, <2>3 DEF Stepping, CopyController, Install, InstallRest,
           ApplyFails, Preserve, ProjectRest, Project, ProjectionFails, Persist,
           PersistStale, PersistFault, NothingToApply, NoDeploymentChange,
           DeploymentChanges, SynchronizeLifecycle, NoObservation,
           ObservationDue, ObservationCycle, RefreshNotDue,
           RefreshWithoutSource, RefreshFails, RefreshProposed, NoCycle,
           PublishOnly, GeometryProposed, planning
      <3> QED
        BY <2>1, <3>1 DEF TransitionIsThePorts, PortHolds
    <2> QED
      BY <2>2, <2>3
  <1>3. CASE UNCHANGED vars
    BY <1>3 DEF TransitionIsThePorts, PortHolds, vars, locks, planning
  <1> QED
    BY <1>1, <1>2, <1>3 DEF Next

LEMMA DriftInvariant == Spec => []DInv
  <1>1. Init => DInv
    <2> SUFFICES ASSUME Init PROVE DInv
      OBVIOUS
    <2>1. IInv
      BY InitIInv
    <2> QED
      BY <2>1 DEF Init, DInv, CopiesDrift, RestoreWithinBounds,
         TransitionIsThePorts, PortHolds, Committing, CommitStep
  <1>2. DInv /\ IInv' /\ [Next]_vars => DInv'
    BY DriftStep, TransitionStep DEF DInv
  <1> QED
    BY <1>1, <1>2, Invariant, PTL DEF Spec

\* runtime/execution_coordinator.py, preserve: the copies of the plan
\* revision that a failed commit leaves apart are at most one revision apart.
THEOREM CopiesStayClose == Spec => []CopiesDrift
  <1>1. DInv => CopiesDrift
    BY DEF DInv
  <1> QED
    BY <1>1, DriftInvariant, PTL

\* runtime/mission_epoch_commit.py, commit: whatever fails, the plan transition is
\* in progress exactly while the port has not answered.
THEOREM TransitionGivenBack == Spec => []TransitionIsThePorts
  <1>1. DInv => TransitionIsThePorts
    BY DEF DInv
  <1> QED
    BY <1>1, DriftInvariant, PTL

\* runtime/mission_epoch_commit.py, simulation/engine.py: the planning and the
\* physics thread, with three locks taken in different orders, never wait for
\* each other.
THEOREM NeverCircular == Spec => []NoCircularWait
  <1>1. DInv => NoCircularWait
    <2> SUFFICES ASSUME DInv, PlannerWaits, PhysicsWaits PROVE FALSE
      BY DEF NoCircularWait
    <2>1. /\ transition \in {"none", "plan"}
          /\ writeLock <=> planner = "prepared"
          /\ transition = "plan" <=> PortHolds
      BY DEF DInv, IInv, TypeOK, Admission, TransitionIsThePorts
    <2>2. CASE planner \in {"invalid", "valid"} /\ transition # "none"
      BY <2>1, <2>2 DEF PortHolds
    <2>3. CASE planner = "admission" /\ Committing
      BY <2>1, <2>3 DEF PhysicsWaits, Committing, CommitStep
    <2> QED
      BY <2>2, <2>3 DEF PlannerWaits
  <1> QED
    BY <1>1, DriftInvariant, PTL
=============================================================================
