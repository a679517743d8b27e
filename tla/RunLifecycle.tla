---------------------------- MODULE RunLifecycle ----------------------------
(***************************************************************************)
(* One controller lifetime (runtime/run_controller.py) inside the serving  *)
(* process (cli.py, _serve; api/app.py, the lifespan and the guard of the  *)
(* mutating requests).                                                     *)
(*                                                                         *)
(* The main thread builds the run, starts its simulation worker, installs  *)
(* it, serves requests on its event loop, and closes the run: once in the  *)
(* lifespan of the server, unless the process was interrupted, and once    *)
(* more when the server has returned.  The signal handler runs on the main *)
(* thread too, between two steps of it or while it waits for a lock.  The  *)
(* worker steps the simulation and reports each phase.  A mutating request *)
(* enters and leaves its guard on threads of a pool, and its handler runs  *)
(* on the event loop.  One reentrant lock protects the run's phase; the    *)
(* worker holds it for one assignment, close for as long as it lasts, and  *)
(* the guard from before the handler until after it.                       *)
(*                                                                         *)
(* Abstractions.  Building is one step.  A join, a drain and the release   *)
(* of the loop's resources end with one of their outcomes.  One guarded    *)
(* request is under way at a time.  The acceptance fixture, whose worker   *)
(* is never started, the retry of the bootstrap, whose phase no code       *)
(* assigns, and a second interrupt during the last close are left out.     *)
(***************************************************************************)
EXTENDS Naturals

CONSTANTS
    Pool,         \* the threads on which guards are entered and left
    MaxRequests   \* bound: requests served

ASSUME RunLifecycleAssumption ==
    /\ MaxRequests \in Nat
    /\ "main" \notin Pool /\ "free" \notin Pool

VARIABLES
    main,            \* where the main thread is
    closeOf,         \* which of the three closes it is in
    completedRun,    \* what that close has read
    verdict,
    drained,
    worker,          \* where the simulation worker is
    joinable,        \* whether bundle.worker is set
    lock,            \* "free", or who holds the controller's lock
    bundle,          \* who refers to the run
    aborted,         \* controller.aborted
    phase,           \* bundle.phase
    stop,            \* bundle.stop
    errors,          \* whether bundle.worker_errors has one
    manifestStatus,  \* loop._manifest_status
    manifest,        \* the status in the manifest file
    resources,       \* the loop's clients and repositories
    frameLogs,       \* the frame logs of its publisher and of the engine
    request,         \* the guarded request under way
    requests         \* requests so far

closing == <<closeOf, completedRun, verdict, drained>>
run     == <<phase, stop, errors, manifestStatus>>
http    == <<request, requests>>
freed   == <<resources, frameLogs>>
vars    == <<main, closing, worker, joinable, lock, bundle, aborted, run,
             manifest, freed, http>>

Phase  == {"BOOTSTRAP_PLANNING", "RUNNING", "COMPLETED", "FAILED", "STOPPING",
           "STOPPED"}
Status == {"running", "completed", "failed", "stopped"}
Ended  == {"none", "halted", "completed", "failed"}

TypeOK ==
    /\ main \in {"building", "starting", "installing", "serving", "waiting",
                 "lifespan", "unwinding", "acquire", "read", "mark", "join",
                 "drain", "write", "release", "done"}
    /\ closeOf \in {"none", "start", "lifespan", "final"}
    /\ completedRun \in BOOLEAN
    /\ verdict \in Status
    /\ drained \in BOOLEAN
    /\ worker \in Ended \cup {"awaiting", "planned", "stepping", "draining",
                              "completing", "publishing", "failing", "recording"}
    /\ joinable \in BOOLEAN
    /\ lock \in Pool \cup {"free", "main"}
    /\ bundle \in {"none", "candidate", "installed", "detached"}
    /\ aborted \in BOOLEAN
    /\ phase \in Phase
    /\ stop \in BOOLEAN
    /\ errors \in BOOLEAN
    /\ manifestStatus \in Status
    /\ manifest \in Status \cup {"none"}
    /\ resources \in {"open", "closed"} /\ frameLogs \in {"open", "closed"}
    /\ request \in {"none", "entering", "guarded", "handled", "leaving"}
    /\ requests \in 0 .. MaxRequests

(***************************************************************************)
(* Helpers.  An operator whose name begins with Bug is the definition      *)
(* after it with a plausible mistake; no action uses it.                   *)
(***************************************************************************)
\* The lock is reentrant: its holder may take it again.
Takes(thread) == lock \in {"free", thread}

\* The manifest status of a phase, as _close_bundle maps it.
BugAnyEnd(p) == IF p \in {"COMPLETED", "RUNNING"} THEN "completed" ELSE "stopped"
BugPhaseItself(p) == p
StatusOf(p) == CASE p = "COMPLETED" -> "completed"
                 [] p = "FAILED"    -> "failed"
                 [] OTHER           -> "stopped"

\* What close still knows of the run once abort has taken it.
BugForgotten == "none"
Detached == "detached"

\* abort: without waiting for the lock.
Abort ==
    /\ aborted' = TRUE
    /\ IF Takes("main") /\ bundle = "installed"
       THEN /\ bundle' = Detached
            /\ stop' = TRUE
       ELSE UNCHANGED <<bundle, stop>>

Init ==
    /\ main = "building" /\ closeOf = "none"
    /\ completedRun = FALSE /\ verdict = "running" /\ drained = TRUE
    /\ worker = "none" /\ joinable = FALSE
    /\ lock = "free" /\ bundle = "none" /\ aborted = FALSE
    /\ phase \in {"BOOTSTRAP_PLANNING", "RUNNING"}
    /\ stop = FALSE /\ errors = FALSE /\ manifestStatus = "running" /\ manifest = "none"
    /\ resources = "open" /\ frameLogs = "open"
    /\ request = "none" /\ requests = 0

(***************************************************************************)
(* The main thread: start_run                                              *)
(***************************************************************************)
\* _build_bundle raises, of itself or interrupted: it releases what it has
\* built, and writes a manifest if it has got as far as the loop.
BuildFails ==
    /\ main = "building"
    /\ manifest' \in {"none", "failed"}
    /\ resources' = "closed" /\ frameLogs' \in {"open", "closed"}
    /\ aborted' \in BOOLEAN
    /\ main' = "unwinding"
    /\ UNCHANGED <<closing, worker, joinable, lock, bundle, run, http>>

\* The worker runs before start_run has noted it in the bundle.
WorkerStarts ==
    /\ main = "building"
    /\ main' = "starting"
    /\ bundle' = "candidate"
    /\ worker' = IF phase = "RUNNING" THEN "stepping" ELSE "awaiting"
    /\ UNCHANGED <<closing, joinable, lock, aborted, run, manifest, freed,
                   http>>

NoteWorker ==
    /\ main = "starting"
    /\ main' = "installing"
    /\ joinable' = TRUE
    /\ UNCHANGED <<closing, worker, lock, bundle, aborted, run, manifest,
                   freed, http>>

Install ==
    /\ main = "installing" /\ lock = "free"
    /\ main' = "serving"
    /\ bundle' = "installed"
    /\ UNCHANGED <<closing, worker, joinable, lock, aborted, run, manifest,
                   freed, http>>

\* Before the server has its handlers a signal raises KeyboardInterrupt:
\* start_run closes the candidate, without the lock.
InterruptStart ==
    /\ main \in {"starting", "installing"}
    /\ main' = "read"
    /\ closeOf' = "start"
    /\ aborted' = TRUE
    /\ UNCHANGED <<completedRun, verdict, drained, worker, joinable, lock,
                   bundle, run, manifest, freed, http>>

(***************************************************************************)
(* The main thread: the event loop                                         *)
(***************************************************************************)
\* A request without a guard, such as health, reads the run under the lock.
ReadRequest ==
    /\ main = "serving" /\ requests < MaxRequests
    /\ main' = "waiting"
    /\ requests' = requests + 1
    /\ UNCHANGED <<closing, worker, joinable, lock, bundle, aborted, run,
                   manifest, freed, request>>

MutatingRequest ==
    /\ main = "serving" /\ request = "none" /\ requests < MaxRequests
    /\ request' = "entering"
    /\ requests' = requests + 1
    /\ UNCHANGED <<main, closing, worker, joinable, lock, bundle, aborted, run,
                   manifest, freed>>

\* The guarded handler starts on the loop, and first reads the run.
Handle ==
    /\ main = "serving" /\ request = "guarded"
    /\ main' = "waiting"
    /\ request' = "handled"
    /\ UNCHANGED <<closing, worker, joinable, lock, bundle, aborted, run,
                   manifest, freed, requests>>

\* The loop has got the lock and let go of it again.
Answer ==
    /\ main = "waiting" /\ lock = "free"
    /\ main' = "serving"
    /\ request' = IF request = "handled" THEN "leaving" ELSE request
    /\ UNCHANGED <<closing, worker, joinable, lock, bundle, aborted, run,
                   manifest, freed, requests>>

\* The body does not validate: the handler is not called.
RejectBody ==
    /\ main = "serving" /\ request = "guarded"
    /\ request' = "leaving"
    /\ UNCHANGED <<main, closing, worker, joinable, lock, bundle, aborted, run,
                   manifest, freed, requests>>

\* handle_exit of the server, from its start to the end of its lifespan.
Signal ==
    /\ \/ main \in {"serving", "waiting", "lifespan"}
       \/ closeOf = "lifespan" /\ main # "unwinding"
    /\ Abort
    /\ UNCHANGED <<main, closing, worker, joinable, lock, phase, errors,
                   manifestStatus, manifest, freed, http>>

\* After a signal, or because the server could not bind its port.
ServerStops ==
    /\ main = "serving" /\ request = "none"
    /\ main' = "lifespan"
    /\ UNCHANGED <<closing, worker, joinable, lock, bundle, aborted, run,
                   manifest, freed, http>>

(***************************************************************************)
(* The guard of a mutating request                                         *)
(***************************************************************************)
EnterGuard(thread) ==
    /\ request = "entering" /\ lock = "free"
    /\ IF bundle = "installed" /\ phase = "COMPLETED"
       THEN request' = "none" /\ UNCHANGED lock
       ELSE request' = "guarded" /\ lock' = thread
    /\ UNCHANGED <<main, closing, worker, joinable, bundle, aborted, run,
                   manifest, freed, requests>>

\* A thread that does not own the lock raises instead of releasing it.
LeaveGuard(thread) ==
    /\ request = "leaving"
    /\ request' = "none"
    /\ lock' = IF lock = thread THEN "free" ELSE lock
    /\ UNCHANGED <<main, closing, worker, joinable, bundle, aborted, run,
                   manifest, freed, requests>>

(***************************************************************************)
(* The main thread: the lifespan's end, and the end of _serve              *)
(***************************************************************************)
EndLifespan ==
    /\ main = "lifespan"
    /\ IF aborted
       THEN /\ main' = "unwinding"
            /\ Abort
            /\ UNCHANGED closing
       ELSE /\ main' = "acquire"
            /\ closeOf' = "lifespan"
            /\ UNCHANGED <<completedRun, verdict, drained, bundle, aborted,
                           stop>>
    /\ UNCHANGED <<worker, joinable, lock, phase, errors, manifestStatus,
                   manifest, freed, http>>

\* An interrupt was noted or raised: _serve aborts once more, then closes.
Unwind ==
    /\ main = "unwinding"
    /\ main' = "acquire"
    /\ closeOf' = "final"
    /\ IF aborted THEN Abort ELSE UNCHANGED <<bundle, aborted, stop>>
    /\ UNCHANGED <<completedRun, verdict, drained, worker, joinable, lock,
                   phase, errors, manifestStatus, manifest, freed, http>>

(***************************************************************************)
(* The main thread: close and _close_bundle                                *)
(***************************************************************************)
AfterClose == IF closeOf = "final" THEN "done" ELSE "unwinding"

AcquireForClose ==
    /\ main = "acquire" /\ lock = "free"
    /\ IF bundle = "none"
       THEN main' = AfterClose /\ UNCHANGED lock
       ELSE main' = "read" /\ lock' = "main"
    /\ UNCHANGED <<closing, worker, joinable, bundle, aborted, run, manifest,
                   freed, http>>

ReadPhase ==
    /\ main = "read"
    /\ main' = "mark"
    /\ completedRun' = (phase = "COMPLETED")
    /\ verdict' = StatusOf(phase)
    /\ drained' = TRUE
    /\ UNCHANGED <<closeOf, worker, joinable, lock, bundle, aborted, run,
                   manifest, freed, http>>

MarkStopping ==
    /\ main = "mark" /\ Takes("main")
    /\ main' = "join"
    /\ manifestStatus' = verdict
    /\ phase' = "STOPPING"
    /\ stop' = TRUE
    /\ UNCHANGED <<closing, worker, joinable, lock, bundle, aborted, errors,
                   manifest, freed, http>>

BugNotJoined == main = "join"
Joined == main = "join" /\ (joinable => worker \in Ended)

JoinReturns ==
    /\ Joined
    /\ main' = IF completedRun THEN "drain" ELSE "write"
    /\ UNCHANGED <<closing, worker, joinable, lock, bundle, aborted, run,
                   manifest, freed, http>>

\* close gives up and lets go of the lock, the candidate or the bundle kept.
GiveUp ==
    /\ main' = AfterClose
    /\ lock' = IF lock = "main" THEN "free" ELSE lock
    /\ bundle' = IF bundle = "candidate" THEN "none" ELSE bundle

\* The supervisor waits for the registered threads what is left of the time, and
\* then closes the registered handles, those of both frame logs, in any case.
SupervisorShutdown == frameLogs' = "closed"

\* Nothing of the time is left for the supervisor: the worker is alive.
BugNoTimeout == FALSE
JoinTimesOut ==
    /\ main = "join" /\ joinable /\ worker \notin Ended
    /\ SupervisorShutdown
    /\ GiveUp
    /\ UNCHANGED <<closing, worker, joinable, aborted, run, manifest, resources,
                   http>>

DrainReturns ==
    /\ main = "drain"
    /\ main' = "write"
    /\ drained' \in BOOLEAN
    /\ IF drained'
       THEN UNCHANGED <<manifestStatus, errors>>
       ELSE manifestStatus' = "failed" /\ errors' = TRUE
    /\ UNCHANGED <<closeOf, completedRun, verdict, worker, joinable, lock,
                   bundle, aborted, phase, stop, manifest, freed, http>>

WriteManifest ==
    /\ main = "write"
    /\ main' = "release"
    /\ manifest' = IF manifest = "none" THEN manifestStatus ELSE manifest
    /\ UNCHANGED <<closing, worker, joinable, lock, bundle, aborted, run,
                   freed, http>>

\* The loop or the supervisor reports remaining resources, or the drain failed;
\* the supervisor has closed the frame logs all the same.
CloseIncomplete ==
    /\ main = "release"
    /\ resources' \in {resources, "closed"} /\ SupervisorShutdown
    /\ GiveUp
    /\ UNCHANGED <<closing, worker, joinable, aborted, run, manifest, http>>

CloseComplete ==
    /\ main = "release" /\ drained /\ Takes("main")
    /\ resources' = "closed" /\ SupervisorShutdown
    /\ phase' = "STOPPED"
    /\ bundle' = "none"
    /\ main' = AfterClose
    /\ lock' = "free"
    /\ UNCHANGED <<closing, worker, joinable, aborted, stop, errors, manifestStatus,
                   manifest, http>>

(***************************************************************************)
(* The simulation worker                                                   *)
(***************************************************************************)
Becomes(from, to) == worker = from /\ worker' = to

elsewhere == <<main, closing, joinable, lock, bundle, aborted, manifest,
               freed, http>>

\* _await_initial_llm_plan returns or raises; then the loop of steps.  A step
\* also fails because its frame log has been closed; a publication does not.
PlanArrives   == Becomes("awaiting", "planned") /\ UNCHANGED <<elsewhere, run>>
AwaitFails    == Becomes("awaiting", "failing") /\ UNCHANGED <<elsewhere, run>>
StepFails     == Becomes("stepping", "failing") /\ UNCHANGED <<elsewhere, run>>
StepsDone     == ~ stop /\ Becomes("stepping", "draining")
                        /\ UNCHANGED <<elsewhere, run>>
\* A drain that timed out does not fail the run; one that raised does.
DrainEnds     == Becomes("draining", "completing") /\ UNCHANGED <<elsewhere, run>>
DrainFails    == Becomes("draining", "failing") /\ UNCHANGED <<elsewhere, run>>
Published     == Becomes("publishing", "completed") /\ UNCHANGED <<elsewhere, run>>

SeesStop ==
    /\ stop
    /\ worker \in {"awaiting", "stepping"} /\ worker' = "halted"
    /\ UNCHANGED <<elsewhere, run>>

\* _set_phase, under the lock; the publication that follows is outside it.
SetRunning ==
    /\ lock = "free" /\ Becomes("planned", "stepping")
    /\ phase' = "RUNNING"
    /\ UNCHANGED <<elsewhere, stop, errors, manifestStatus>>

BugUnlocked == TRUE
PhaseLock == lock = "free"

SetCompleted ==
    /\ PhaseLock /\ Becomes("completing", "publishing")
    /\ phase' = "COMPLETED"
    /\ manifestStatus' = "completed"
    /\ UNCHANGED <<elsewhere, stop, errors>>

SetFailed ==
    /\ lock = "free" /\ Becomes("failing", "recording")
    /\ phase' = "FAILED"
    /\ manifestStatus' = "failed"
    /\ UNCHANGED <<elsewhere, stop, errors>>

RecordError ==
    /\ Becomes("recording", "failed")
    /\ stop' = TRUE
    /\ errors' = TRUE
    /\ UNCHANGED <<elsewhere, phase, manifestStatus>>

(***************************************************************************)
(* The system                                                              *)
(***************************************************************************)
Startup == BuildFails \/ WorkerStarts \/ NoteWorker \/ Install \/ InterruptStart
Loop    == ReadRequest \/ MutatingRequest \/ Handle \/ Answer \/ RejectBody
           \/ ServerStops
Guard   == \E thread \in Pool : EnterGuard(thread) \/ LeaveGuard(thread)
Close   == \/ EndLifespan \/ Unwind \/ AcquireForClose \/ ReadPhase
           \/ MarkStopping \/ JoinReturns \/ JoinTimesOut \/ DrainReturns
           \/ WriteManifest \/ CloseIncomplete \/ CloseComplete
Worker  == \/ PlanArrives \/ AwaitFails \/ SetRunning \/ StepFails \/ StepsDone
           \/ SeesStop \/ DrainEnds \/ DrainFails \/ SetCompleted \/ Published
           \/ SetFailed \/ RecordError

Next == Startup \/ Loop \/ Signal \/ Guard \/ Close \/ Worker

Spec == Init /\ [][Next]_vars

\* The threads are scheduled; an awaited plan, a step, a drain and a join end,
\* the last by its timeout.  An interrupted server leaves its loop.  Nobody is
\* obliged to send a request or a signal.
Fairness ==
    /\ WF_vars(WorkerStarts) /\ WF_vars(NoteWorker) /\ WF_vars(Install)
    /\ WF_vars(Handle) /\ WF_vars(Answer) /\ WF_vars(Guard)
    /\ WF_vars(ServerStops /\ aborted)
    /\ WF_vars(Close) /\ WF_vars(Worker)

FairSpec == Spec /\ Fairness

(***************************************************************************)
(* Properties                                                              *)
(***************************************************************************)
\* Where the main thread is after a join that timed out: on its way to the last
\* close, in it up to its own join, or at its end.
Outlived == {"unwinding", "acquire", "read", "mark", "join", "done"}

\* The manifest claims nothing that did not happen: "completed" only of a
\* worker that did all its steps, with nothing left undrained, and "failed"
\* only of a worker, a drain or a build that failed - although close and the
\* worker write the status in turn, and an interrupted start without the lock.
ManifestNeverOverstates ==
    /\ manifest = "completed" => worker \in {"publishing", "completed"}
    /\ manifest = "failed" => errors \/ worker \in {"none", "recording"}

\* While the worker runs, its loop's clients and repositories are open, and its
\* frame logs are closed only when it has been told to stop, a close has begun
\* and the server serves no requests on the run any more.  The start interrupted
\* before start_run had noted the thread is left out.
ClosedAfterWorker ==
    joinable /\ worker \notin Ended =>
        /\ resources = "open"
        /\ frameLogs = "closed" =>
             stop /\ closeOf # "none" /\ main \in Outlived

\* A run does not become completed under a request that its guard let in,
\* unless an abort has taken the run from the controller, whose guard then lets
\* every request pass.
GuardedRunIsOpen ==
    request = "guarded" /\ bundle = "installed" => phase # "COMPLETED"

\* The controller forgets an installed run only when its worker has ended and
\* its resources are closed, also when an abort took it away in the middle.
ForgottenWhenReleased ==
    [][(bundle \in {"installed", "detached"} /\ bundle' = "none")
         => (resources' = "closed" /\ worker \in Ended)]_vars

\* Once it is interrupted or its server stops, the process ends and its worker
\* too, though close holds the lock that the worker's last step needs - as
\* long as no guard has left the lock behind.
ShutdownEnds ==
    (aborted \/ main \in {"lifespan", "unwinding"})
        ~> (main = "done" /\ worker \in Ended) \/ lock \in Pool

\* api/dependencies.py: request handling is non-blocking.
LoopKeepsServing == main = "waiting" ~> main # "waiting"
=============================================================================
