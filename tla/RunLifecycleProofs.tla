------------------------- MODULE RunLifecycleProofs -------------------------
(***************************************************************************)
(* Theorems about RunLifecycle, for any pool of threads and any number of  *)
(* requests.  The inductive invariant says who holds the controller's lock *)
(* at each step of the main thread, and what phase, verdict and manifest   *)
(* status know of the worker although three writers take turns.            *)
(***************************************************************************)
EXTENDS RunLifecycle, TLAPS

(***************************************************************************)
(* The inductive invariant                                                 *)
(***************************************************************************)
InClose == main \in {"read", "mark", "join", "drain", "write", "release"}

\* close holds the lock from its first step to its last, except the one of an
\* interrupted start; the main thread holds it nowhere else.
LockOfClose ==
    /\ lock = "main" <=> InClose /\ closeOf # "start"
    /\ main = "acquire" => closeOf \in {"lifespan", "final"}
    /\ InClose => closeOf # "none"

GuardHolds == request = "guarded" => lock \in Pool

\* Before it serves requests the main thread has closed nothing.
Startable ==
    /\ main \in {"building", "starting", "installing"} =>
         resources = "open" /\ frameLogs = "open" /\ manifest = "none"
    /\ main = "building" => worker = "none" /\ ~ joinable
    /\ main = "installing" => joinable
    /\ bundle \in {"installed", "detached"} => joinable

\* close tells the worker to stop before it waits for it, and after its join it
\* deals with a worker that has ended.
JoinedBefore ==
    /\ main \in {"join", "drain", "write", "release"} => stop
    /\ main \in {"drain", "write", "release"} /\ joinable => worker \in Ended

\* What each copy of the run's outcome knows.
DidAll == worker \in {"publishing", "completed"}
Failed == errors \/ worker = "recording"
Outcome ==
    /\ phase = "COMPLETED" => DidAll
    /\ phase = "FAILED" => Failed
    /\ verdict = "completed" => DidAll
    /\ verdict = "failed" => Failed
    /\ manifestStatus = "completed" => DidAll
    /\ manifestStatus = "failed" => Failed

IInv ==
    /\ TypeOK
    /\ LockOfClose
    /\ GuardHolds
    /\ GuardedRunIsOpen
    /\ Startable
    /\ JoinedBefore
    /\ ClosedAfterWorker
    /\ Outcome
    /\ ManifestNeverOverstates

-----------------------------------------------------------------------------
(***************************************************************************)
(* The steps                                                               *)
(***************************************************************************)
\* An abort takes over an installed run only, whose worker was noted, and
\* installs none.
LEMMA AbortFacts ==
    ASSUME TypeOK, Startable, Abort
    PROVE  /\ aborted' \in BOOLEAN /\ stop' \in BOOLEAN
           /\ bundle' \in {"none", "candidate", "installed", "detached"}
           /\ bundle' \in {"installed", "detached"} => joinable
           /\ bundle' = "installed" => bundle = "installed"
           /\ stop => stop'
<1>1. CASE Takes("main") /\ bundle = "installed"
  BY <1>1 DEF Abort, Detached, TypeOK, Startable
<1>2. CASE ~ (Takes("main") /\ bundle = "installed")
  BY <1>2 DEF Abort, TypeOK, Startable
<1> QED BY <1>1, <1>2

USE RunLifecycleAssumption
USE DEF IInv, TypeOK, Phase, Status, Ended, LockOfClose, InClose, GuardHolds,
      GuardedRunIsOpen, Startable, JoinedBefore, ClosedAfterWorker, Outcome,
      DidAll, Failed, ManifestNeverOverstates, Outlived, closing, run, http,
      freed, SupervisorShutdown, elsewhere,
      Takes, GiveUp, AfterClose, Becomes, PhaseLock, StatusOf

LEMMA InitInvariant == Init => IInv
<1> SUFFICES ASSUME Init PROVE IInv
  OBVIOUS
<1>1. TypeOK
  <2>1. requests \in 0 .. MaxRequests
    BY DEF Init
  <2>2. lock \in Pool \cup {"free", "main"}
    BY DEF Init
  <2> QED BY <2>1, <2>2, Zenon DEF Init
<1>2. LockOfClose /\ GuardHolds /\ GuardedRunIsOpen /\ Startable /\ JoinedBefore
  BY DEF Init
<1>3. ClosedAfterWorker /\ Outcome /\ ManifestNeverOverstates
  BY DEF Init
<1> QED BY <1>1, <1>2, <1>3

\* Every step of start_run keeps the invariant.
LEMMA StartupKeeps == ASSUME IInv, Startup PROVE IInv'
<1>1. CASE BuildFails
  BY <1>1 DEF BuildFails
<1>2. CASE WorkerStarts
  BY <1>2 DEF WorkerStarts
<1>3. CASE NoteWorker
  BY <1>3 DEF NoteWorker
<1>4. CASE Install
  BY <1>4 DEF Install
<1>5. CASE InterruptStart
  BY <1>5 DEF InterruptStart
<1> QED BY <1>1, <1>2, <1>3, <1>4, <1>5 DEF Startup

\* Every step of the event loop keeps the invariant.
LEMMA LoopKeeps == ASSUME IInv, Loop PROVE IInv'
<1>1. CASE ReadRequest
  BY <1>1 DEF ReadRequest
<1>2. CASE MutatingRequest
  BY <1>2 DEF MutatingRequest
<1>3. CASE Handle
  BY <1>3 DEF Handle
<1>4. CASE Answer
  BY <1>4 DEF Answer
<1>5. CASE RejectBody
  BY <1>5 DEF RejectBody
<1>6. CASE ServerStops
  BY <1>6 DEF ServerStops
<1> QED BY <1>1, <1>2, <1>3, <1>4, <1>5, <1>6 DEF Loop

\* Every step of close keeps the invariant.
LEMMA CloseKeeps == ASSUME IInv, Close PROVE IInv'
<1>1. CASE EndLifespan
  <2>1. CASE aborted = TRUE
    <3>1. Abort
      BY <1>1, <2>1 DEF EndLifespan
    <3>2. /\ aborted' \in BOOLEAN /\ stop' \in BOOLEAN
          /\ bundle' \in {"none", "candidate", "installed", "detached"}
          /\ bundle' \in {"installed", "detached"} => joinable
          /\ bundle' = "installed" => bundle = "installed"
          /\ stop => stop'
      BY <3>1, AbortFacts
    <3> QED BY <1>1, <2>1, <3>2 DEF EndLifespan
  <2>2. CASE aborted = FALSE
    BY <1>1, <2>2 DEF EndLifespan
  <2> QED BY <2>1, <2>2
<1>2. CASE Unwind
  <2>1. CASE aborted = TRUE
    <3>1. Abort
      BY <1>2, <2>1 DEF Unwind
    <3>2. /\ aborted' \in BOOLEAN /\ stop' \in BOOLEAN
          /\ bundle' \in {"none", "candidate", "installed", "detached"}
          /\ bundle' \in {"installed", "detached"} => joinable
          /\ bundle' = "installed" => bundle = "installed"
          /\ stop => stop'
      BY <3>1, AbortFacts
    <3> QED BY <1>2, <2>1, <3>2 DEF Unwind
  <2>2. CASE aborted = FALSE
    BY <1>2, <2>2 DEF Unwind
  <2> QED BY <2>1, <2>2
<1>3. CASE AcquireForClose
  BY <1>3 DEF AcquireForClose
<1>4. CASE ReadPhase
  BY <1>4 DEF ReadPhase
<1>5. CASE MarkStopping
  BY <1>5 DEF MarkStopping
<1>6. CASE JoinReturns
  BY <1>6 DEF JoinReturns, Joined
<1>7. CASE JoinTimesOut
  BY <1>7 DEF JoinTimesOut
<1>8. CASE DrainReturns
  <2>1. CASE drained'
    BY <1>8, <2>1 DEF DrainReturns
  <2>2. CASE ~ drained'
    BY <1>8, <2>2 DEF DrainReturns
  <2> QED BY <2>1, <2>2
<1>9. CASE WriteManifest
  BY <1>9 DEF WriteManifest
<1>10. CASE CloseIncomplete
  BY <1>10 DEF CloseIncomplete
<1>11. CASE CloseComplete
  BY <1>11 DEF CloseComplete
<1> QED BY <1>1, <1>2, <1>3, <1>4, <1>5, <1>6, <1>7, <1>8, <1>9, <1>10, <1>11 DEF Close

\* Every step of the worker keeps the invariant.
LEMMA WorkerKeeps == ASSUME IInv, Worker PROVE IInv'
<1>1. CASE PlanArrives
  BY <1>1 DEF PlanArrives
<1>2. CASE AwaitFails
  BY <1>2 DEF AwaitFails
<1>3. CASE SetRunning
  BY <1>3 DEF SetRunning
<1>4. CASE StepFails
  BY <1>4 DEF StepFails
<1>5. CASE StepsDone
  BY <1>5 DEF StepsDone
<1>6. CASE SeesStop
  BY <1>6 DEF SeesStop
<1>7. CASE DrainEnds
  BY <1>7 DEF DrainEnds
<1>8. CASE DrainFails
  BY <1>8 DEF DrainFails
<1>9. CASE SetCompleted
  BY <1>9 DEF SetCompleted
<1>10. CASE Published
  BY <1>10 DEF Published
<1>11. CASE SetFailed
  BY <1>11 DEF SetFailed
<1>12. CASE RecordError
  BY <1>12 DEF RecordError
<1> QED BY <1>1, <1>2, <1>3, <1>4, <1>5, <1>6, <1>7, <1>8, <1>9, <1>10, <1>11, <1>12 DEF Worker

LEMMA GuardKeeps == ASSUME IInv, NEW thread \in Pool,
                           EnterGuard(thread) \/ LeaveGuard(thread)
                    PROVE  IInv'
<1>1. CASE EnterGuard(thread)
  BY <1>1 DEF EnterGuard
<1>2. CASE LeaveGuard(thread)
  BY <1>2 DEF LeaveGuard
<1> QED BY <1>1, <1>2

LEMMA SignalKeeps == ASSUME IInv, Signal PROVE IInv'
<1>1. Abort
  BY DEF Signal
<1>2. /\ aborted' \in BOOLEAN /\ stop' \in BOOLEAN
      /\ bundle' \in {"none", "candidate", "installed", "detached"}
      /\ bundle' \in {"installed", "detached"} => joinable
      /\ bundle' = "installed" => bundle = "installed"
      /\ stop => stop'
  BY <1>1, AbortFacts
<1> QED BY <1>2 DEF Signal

LEMMA Inductive == IInv /\ [Next]_vars => IInv'
<1> SUFFICES ASSUME IInv, [Next]_vars PROVE IInv'
  OBVIOUS
<1>1. CASE Startup \/ Loop \/ Signal \/ Close \/ Worker
  BY <1>1, StartupKeeps, LoopKeeps, SignalKeeps, CloseKeeps, WorkerKeeps
<1>2. CASE Guard
  BY <1>2, GuardKeeps DEF Guard
<1>3. CASE UNCHANGED vars
  BY <1>3 DEF vars
<1> QED BY <1>1, <1>2, <1>3 DEF Next

Released ==
    (bundle \in {"installed", "detached"} /\ bundle' = "none")
      => (resources' = "closed" /\ worker \in Ended)

\* Only a complete close ends all reference to an installed run.
LEMMA ReleasedStep == IInv /\ [Next]_vars => [Released]_vars
<1> SUFFICES ASSUME IInv, [Next]_vars,
                bundle \in {"installed", "detached"}, bundle' = "none"
             PROVE  resources' = "closed" /\ worker \in Ended
  BY DEF Released
<1>1. CASE CloseComplete
  BY <1>1 DEF CloseComplete
<1>2. CASE Abort
  BY <1>2 DEF Abort, Detached
<1>3. CASE Startup
  BY <1>3 DEF Startup, BuildFails, WorkerStarts, NoteWorker, Install,
     InterruptStart
<1>4. CASE Loop
  BY <1>4 DEF Loop, ReadRequest, MutatingRequest, Handle, Answer, RejectBody,
     ServerStops
<1>5. CASE Guard
  BY <1>5 DEF Guard, EnterGuard, LeaveGuard
<1>6. CASE Close /\ ~ CloseComplete /\ ~ Abort
  BY <1>6 DEF Close, EndLifespan, Unwind, AcquireForClose, ReadPhase,
     MarkStopping, JoinReturns, JoinTimesOut, DrainReturns, WriteManifest,
     CloseIncomplete
<1>7. CASE Worker
  BY <1>7 DEF Worker, PlanArrives, AwaitFails, SetRunning, StepFails,
     StepsDone, SeesStop, DrainEnds, DrainFails, SetCompleted, Published,
     SetFailed, RecordError
<1>8. CASE Signal
  BY <1>2, <1>8 DEF Signal
<1>9. CASE UNCHANGED vars
  BY <1>9 DEF vars
<1> QED BY <1>1, <1>3, <1>4, <1>5, <1>6, <1>2, <1>7, <1>8, <1>9 DEF Next

HIDE DEF IInv, TypeOK, GuardedRunIsOpen, ClosedAfterWorker,
         ManifestNeverOverstates

-----------------------------------------------------------------------------
(***************************************************************************)
(* The theorems                                                            *)
(***************************************************************************)
\* The invariant holds in every reachable state.
THEOREM Invariant == Spec => []IInv
<1>1. Init => IInv
  BY InitInvariant
<1>2. IInv /\ [Next]_vars => IInv'
  BY Inductive
<1> QED BY <1>1, <1>2, PTL DEF Spec

\* Types.
THEOREM TypeCorrect == Spec => []TypeOK
<1>1. IInv => TypeOK
  BY DEF IInv
<1> QED BY <1>1, Invariant, PTL

\* The manifest of a run never claims a completion or a failure that did not
\* take place (_close_bundle, _set_phase).
THEOREM ManifestIsHonest == Spec => []ManifestNeverOverstates
<1>1. IInv => ManifestNeverOverstates
  BY DEF IInv
<1> QED BY <1>1, Invariant, PTL

\* The clients and repositories of the noted worker are closed only when it has
\* ended, and its frame logs only then or after a join that waited for it in
\* vain (_close_bundle, ProcessSupervisor.shutdown).
THEOREM WorkerOutlived == Spec => []ClosedAfterWorker
<1>1. IInv => ClosedAfterWorker
  BY DEF IInv
<1> QED BY <1>1, Invariant, PTL

\* A run never becomes completed under an admitted request (mutation_guard).
THEOREM GuardedRunStaysOpen == Spec => []GuardedRunIsOpen
<1>1. IInv => GuardedRunIsOpen
  BY DEF IInv
<1> QED BY <1>1, Invariant, PTL

\* The controller lets go of an installed run only when it is released (close,
\* abort).
THEOREM ForgottenOnlyWhenReleased == Spec => ForgottenWhenReleased
<1>1. Spec => [][Released]_vars
  BY ReleasedStep, Invariant, PTL DEF Spec
<1> QED BY <1>1 DEF ForgottenWhenReleased, Released

-----------------------------------------------------------------------------
(***************************************************************************)
(* What a close leaves behind                                              *)
(***************************************************************************)
\* A run whose close was complete stays as it is: the second close of the
\* process, late signals, guards and requests, and its own worker change
\* nothing of it.
ReleasedIsFinal ==
    [][phase = "STOPPED" /\ joinable =>
         UNCHANGED <<phase, manifestStatus, manifest, freed, worker, bundle>>]_vars

\* When the process is done its worker has been told to stop, also when the
\* join timed out or the last close found no run any more.
WorkerToldToStop == main = "done" /\ joinable => stop

\* A complete close leaves a worker that has ended and a controller without a
\* run, of which the main thread closes nothing more.
ReleasedRun ==
    phase = "STOPPED" /\ joinable =>
        /\ bundle = "none" /\ worker \in Ended
        /\ main \in {"unwinding", "acquire", "done"}

\* Until its worker is noted a run is the candidate, and nothing has closed it.
NotClosedYet ==
    /\ main \in {"building", "starting"} => phase # "STOPPED"
    /\ main = "starting" => bundle = "candidate"

\* No run is forgotten before its worker has been told to stop.
StopBeforeJoin ==
    /\ bundle = "none" /\ joinable => stop
    /\ WorkerToldToStop

CloseFacts == NotClosedYet /\ ReleasedRun /\ StopBeforeJoin
CInv == IInv /\ CloseFacts

USE DEF IInv, TypeOK, GuardedRunIsOpen, ClosedAfterWorker,
        ManifestNeverOverstates, CInv, CloseFacts, NotClosedYet, ReleasedRun,
        StopBeforeJoin, WorkerToldToStop

\* An abort never forgets a run, and only sets the flag.
LEMMA AbortTells ==
    ASSUME IInv, Abort
    PROVE  /\ stop => stop'
           /\ bundle = "none" <=> bundle' = "none"
           /\ bundle = "candidate" => bundle' = "candidate"
<1>1. CASE Takes("main") /\ bundle = "installed"
  BY <1>1 DEF Abort, Detached
<1>2. CASE ~ (Takes("main") /\ bundle = "installed")
  BY <1>2 DEF Abort
<1> QED BY <1>1, <1>2

LEMMA StartupCloses == ASSUME CInv, Startup PROVE CloseFacts'
<1>1. CASE BuildFails
  BY <1>1 DEF BuildFails
<1>2. CASE WorkerStarts
  BY <1>2 DEF WorkerStarts
<1>3. CASE NoteWorker
  BY <1>3 DEF NoteWorker
<1>4. CASE Install
  BY <1>4 DEF Install
<1>5. CASE InterruptStart
  BY <1>5 DEF InterruptStart
<1> QED BY <1>1, <1>2, <1>3, <1>4, <1>5 DEF Startup

LEMMA LoopCloses == ASSUME CInv, Loop PROVE CloseFacts'
BY DEF Loop, ReadRequest, MutatingRequest, Handle, Answer, RejectBody, ServerStops

LEMMA CloseCloses == ASSUME CInv, Close PROVE CloseFacts'
<1>1. CASE EndLifespan
  <2>1. CASE aborted = TRUE
    BY <1>1, <2>1, AbortTells DEF EndLifespan
  <2>2. CASE aborted = FALSE
    BY <1>1, <2>2 DEF EndLifespan
  <2> QED BY <2>1, <2>2
<1>2. CASE Unwind
  <2>1. CASE aborted = TRUE
    BY <1>2, <2>1, AbortTells DEF Unwind
  <2>2. CASE aborted = FALSE
    BY <1>2, <2>2 DEF Unwind
  <2> QED BY <2>1, <2>2
<1>3. CASE AcquireForClose
  BY <1>3 DEF AcquireForClose
<1>4. CASE ReadPhase
  BY <1>4 DEF ReadPhase
<1>5. CASE MarkStopping
  BY <1>5 DEF MarkStopping
<1>6. CASE JoinReturns
  BY <1>6 DEF JoinReturns, Joined
<1>7. CASE JoinTimesOut
  BY <1>7 DEF JoinTimesOut
<1>8. CASE DrainReturns
  BY <1>8 DEF DrainReturns
<1>9. CASE WriteManifest
  BY <1>9 DEF WriteManifest
<1>10. CASE CloseIncomplete
  BY <1>10 DEF CloseIncomplete
<1>11. CASE CloseComplete
  BY <1>11 DEF CloseComplete
<1> QED BY <1>1, <1>2, <1>3, <1>4, <1>5, <1>6, <1>7, <1>8, <1>9, <1>10, <1>11 DEF Close

LEMMA WorkerCloses == ASSUME CInv, Worker PROVE CloseFacts'
BY DEF Worker, PlanArrives, AwaitFails, SetRunning, StepFails, StepsDone,
   SeesStop, DrainEnds, DrainFails, SetCompleted, Published, SetFailed,
   RecordError

LEMMA ClosedStep == CInv /\ IInv' /\ [Next]_vars => CInv'
<1> SUFFICES ASSUME CInv, IInv', [Next]_vars PROVE CloseFacts'
  OBVIOUS
<1>1. CASE Startup \/ Loop \/ Close \/ Worker
  BY <1>1, StartupCloses, LoopCloses, CloseCloses, WorkerCloses
<1>2. CASE Signal
  <2>1. Abort
    BY <1>2 DEF Signal
  <2> QED BY <1>2, <2>1, AbortTells DEF Signal
<1>3. CASE Guard
  BY <1>3 DEF Guard, EnterGuard, LeaveGuard
<1>4. CASE UNCHANGED vars
  BY <1>4 DEF vars
<1> QED BY <1>1, <1>2, <1>3, <1>4 DEF Next

LEMMA FinalStep ==
    ASSUME CInv, [Next]_vars, phase = "STOPPED", joinable
    PROVE  UNCHANGED <<phase, manifestStatus, manifest, freed, worker, bundle>>
<1>1. bundle = "none" /\ worker \in Ended /\ main \in {"unwinding", "acquire", "done"}
  OBVIOUS
<1> HIDE DEF CInv, ReleasedRun, StopBeforeJoin
<1>2. CASE Startup
  BY <1>1, <1>2 DEF Startup, BuildFails, WorkerStarts, NoteWorker, Install,
     InterruptStart
<1>3. CASE Loop \/ Guard
  BY <1>3 DEF Loop, ReadRequest, MutatingRequest, Handle, Answer, RejectBody,
     ServerStops, Guard, EnterGuard, LeaveGuard
<1>4. CASE Signal
  BY <1>1, <1>4 DEF Signal, Abort
<1>5. CASE Close
  BY <1>1, <1>5 DEF Close, EndLifespan, Unwind, AcquireForClose, ReadPhase,
     MarkStopping, JoinReturns, Joined, JoinTimesOut, DrainReturns,
     WriteManifest, CloseIncomplete, CloseComplete, Abort
<1>6. CASE Worker
  BY <1>1, <1>6 DEF Worker, PlanArrives, AwaitFails, SetRunning, StepFails,
     StepsDone, SeesStop, DrainEnds, DrainFails, SetCompleted, Published,
     SetFailed, RecordError
<1>7. CASE UNCHANGED vars
  BY <1>7 DEF vars
<1> QED BY <1>2, <1>3, <1>4, <1>5, <1>6, <1>7 DEF Next

LEMMA InitCloses == Init => CInv
BY InitInvariant DEF Init

HIDE DEF IInv, TypeOK, GuardedRunIsOpen, ClosedAfterWorker,
         ManifestNeverOverstates, CInv, WorkerToldToStop

LEMMA CloseInvariant == Spec => []CInv
<1>1. CInv /\ IInv' /\ [Next]_vars => CInv'
  BY ClosedStep
<1> QED BY <1>1, InitCloses, Invariant, PTL DEF Spec

\* Nothing changes a run that a complete close has released (_close_bundle,
\* then the second close of _serve).
THEOREM ReleasedForGood == Spec => ReleasedIsFinal
<1> DEFINE Kept == phase = "STOPPED" /\ joinable =>
         UNCHANGED <<phase, manifestStatus, manifest, freed, worker, bundle>>
<1>1. CInv /\ [Next]_vars => [Kept]_vars
  BY FinalStep
<1>2. Spec => [][Kept]_vars
  BY <1>1, CloseInvariant, PTL DEF Spec
<1> QED BY <1>2 DEF ReleasedIsFinal

\* The process does not end with a worker nobody has told to stop (close,
\* abort, and a join that times out).
THEOREM NoWorkerForgotten == Spec => []WorkerToldToStop
<1>1. CInv => WorkerToldToStop
  BY DEF CInv, CloseFacts, StopBeforeJoin
<1> QED BY <1>1, CloseInvariant, PTL
=============================================================================
