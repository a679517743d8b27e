--------------------------- MODULE DirectiveQueue ---------------------------
(***************************************************************************)
(* An operator's directives, from the request to the carrier cycle that    *)
(* plans with them: RuntimeDirectiveQueue (api/hub.py), the directive part *)
(* of CarrierRuntime (agent/runtime.py) and the ledger's directive table.  *)
(*                                                                         *)
(* A request is previewed and, once the operator has confirmed the         *)
(* preview, applied, each by a task of an executor with a few threads.     *)
(* The queue keeps a bounded number of jobs in the order of their          *)
(* requests and makes room by evicting the first that is finished.  The    *)
(* ledger has one row per directive, whose id is a digest of the text (or  *)
(* the target and vehicles of an assignment): requests of the same text    *)
(* share it.  An applied directive is announced to the next cycle by an    *)
(* event that carries the id alone.                                        *)
(*                                                                         *)
(* The calls of the queue are made on the one event loop, so each is an    *)
(* action; the tasks run beside them, and each is divided where it lets go *)
(* of a lock.  A runtime call holds the runtime's lock, as a carrier cycle *)
(* does.                                                                   *)
(*                                                                         *)
(* Abstractions.  A directive is its text; whether a parse is applicable   *)
(* is a choice, made again when it is applied.  Requests are numbered.     *)
(* The frame and revision a request may carry, and reservations of         *)
(* vehicles, are left out.                                                 *)
(***************************************************************************)
EXTENDS Naturals, Sequences, FiniteSets

CONSTANTS
    Text,         \* texts of directives
    MaxJobs,      \* max_jobs
    Workers,      \* threads of the executor
    MaxRequests,  \* bound: requests accepted
    MaxVersion    \* bound: plan versions

ASSUME DirectiveQueueAssumption ==
    /\ MaxJobs \in Nat \ {0}
    /\ Workers \in Nat \ {0}
    /\ MaxRequests \in Nat
    /\ MaxVersion \in Nat \ {0}
    /\ Text # {}

VARIABLES
    jobs,      \* _jobs: the job of each request, or NoJob
    accepted,  \* requests accepted so far
    tasks,     \* the executor's queue
    running,   \* what the threads work on
    closed,    \* _closed
    ledger,    \* the row of each directive
    pending,   \* directives announced to the next cycle
    missing,   \* whether a cycle did not find an announced directive
    version,   \* the plan version
    effects    \* history: times a request has applied its directive

vars == <<jobs, accepted, tasks, running, closed, ledger, pending, missing,
          version, effects>>

Request == 1 .. MaxRequests

JobStatus == {"queued", "processing", "preview", "needs_clarification",
              "applying", "applied", "error"}
NoJob == [status |-> "none"]
Job   == [status : JobStatus, text : Text, expected : 1 .. MaxVersion]

RowStatus == {"none", "preview", "needs_clarification", "applied"}

\* A task is a call of _run_preview or _run_apply; a thread that runs one has
\* yet to call the runtime, or knows the status it has to record.
Task   == [kind : {"preview", "apply"}, id : Request]
Thread == [kind : {"preview", "apply"}, id : Request,
           outcome : JobStatus \cup {"none"}]

TypeOK ==
    /\ jobs \in [Request -> Job \cup {NoJob}]
    /\ accepted \in 0 .. MaxRequests
    /\ tasks \in Seq(Task)
    /\ running \in SUBSET Thread
    /\ closed \in BOOLEAN
    /\ ledger \in [Text -> RowStatus]
    /\ pending \in SUBSET Text
    /\ missing \in BOOLEAN
    /\ version \in 1 .. MaxVersion
    /\ effects \in [Request -> Nat]

(***************************************************************************)
(* Helpers.  An operator whose name begins with Bug is the definition      *)
(* after it with a plausible mistake; no action uses it.                   *)
(***************************************************************************)
Init ==
    /\ jobs = [id \in Request |-> NoJob]
    /\ accepted = 0
    /\ tasks = <<>>
    /\ running = {}
    /\ closed = FALSE
    /\ ledger = [t \in Text |-> "none"]
    /\ pending = {}
    /\ missing = FALSE
    /\ version = 1
    /\ effects = [id \in Request |-> 0]

Kept == {id \in Request : jobs[id] # NoJob}

\* _TERMINAL_STATUSES; a job that needs clarification is not among them.
BugNotWaiting == JobStatus \ {"queued", "processing"}
Terminal == {"preview", "applied", "error"}

\* The first job that may go.
Evictable == {id \in Kept : jobs[id].status \in Terminal}
Evicted(id) == id \in Evictable /\ \A other \in Evictable : id <= other

\* The status that apply asks of a job.
BugAnyDirective == {"preview", "needs_clarification", "applied"}
Applicable == {"preview"}

Record(id, status) == jobs' = [jobs EXCEPT ![id].status = status]

(***************************************************************************)
(* Calls of the queue, on the event loop                                   *)
(***************************************************************************)
\* The job a request of text t gets.
BugStatusLeft(t) == [status |-> "submitted", text |-> t, expected |-> version]
NewJob(t) == [status |-> "queued", text |-> t, expected |-> version]

Accept(t, others) ==
    /\ ~ closed /\ accepted < MaxRequests
    /\ accepted' = accepted + 1
    /\ jobs' = [others EXCEPT ![accepted + 1] = NewJob(t)]
    /\ tasks' = Append(tasks, [kind |-> "preview", id |-> accepted + 1])
    /\ UNCHANGED <<running, closed, ledger, pending, missing, version, effects>>

\* submit and submit_assignment: a full queue without a finished job refuses.
Submit(t) ==
    /\ Cardinality(Kept) < MaxJobs
    /\ Accept(t, jobs)

SubmitAndEvict(t) ==
    /\ Cardinality(Kept) >= MaxJobs
    /\ \E id \in Request :
         Evicted(id) /\ Accept(t, [jobs EXCEPT ![id] = NoJob])

Apply(id) ==
    /\ ~ closed
    /\ id \in Kept /\ jobs[id].status \in Applicable
    /\ jobs[id].expected = version
    /\ Record(id, "applying")
    /\ tasks' = Append(tasks, [kind |-> "apply", id |-> id])
    /\ UNCHANGED <<accepted, running, closed, ledger, pending, missing, version,
                   effects>>

\* close and abort: what no thread has begun is cancelled, its job untouched.
Close ==
    /\ ~ closed
    /\ closed' = TRUE
    /\ tasks' = <<>>
    /\ UNCHANGED <<jobs, accepted, running, ledger, pending, missing, version,
                   effects>>

(***************************************************************************)
(* The executor's threads                                                  *)
(***************************************************************************)
Begin ==
    /\ tasks # <<>> /\ Cardinality(running) < Workers
    /\ tasks' = Tail(tasks)
    /\ running' = running \cup
         {[kind |-> Head(tasks).kind, id |-> Head(tasks).id, outcome |-> "none"]}
    /\ IF Head(tasks).kind = "preview"
       THEN Record(Head(tasks).id, "processing")
       ELSE UNCHANGED jobs
    /\ UNCHANGED <<accepted, closed, ledger, pending, missing, version, effects>>

Calls(kind, thread) ==
    thread \in running /\ thread.kind = kind /\ thread.outcome = "none"

Returns(thread, status) ==
    running' = (running \ {thread}) \cup {[thread EXCEPT !.outcome = status]}

\* preview_directive, preview_assignment: the row is written whatever it was.
PreviewSaved(thread) ==
    /\ Calls("preview", thread)
    /\ \E status \in {"preview", "needs_clarification"} :
         /\ ledger' = [ledger EXCEPT ![jobs[thread.id].text] = status]
         /\ Returns(thread, status)
    /\ UNCHANGED <<jobs, accepted, tasks, closed, pending, missing, version,
                   effects>>

\* The provider, the answer's schema or the frame fails it.
PreviewFails(thread) ==
    /\ Calls("preview", thread)
    /\ Returns(thread, "error")
    /\ UNCHANGED <<jobs, accepted, tasks, closed, ledger, pending, missing,
                   version, effects>>

\* apply_directive finds a clean preview.
Applies(thread) ==
    LET text == jobs[thread.id].text IN
    /\ Calls("apply", thread)
    /\ ledger[text] = "preview"
    /\ ledger' = [ledger EXCEPT ![text] = "applied"]
    /\ pending' = pending \cup {text}
    /\ effects' = [effects EXCEPT ![thread.id] = @ + 1]
    /\ Returns(thread, "applied")
    /\ UNCHANGED <<jobs, accepted, tasks, closed, missing, version>>

\* The row is no preview, or is none any more against the present situation.
Rejects(thread) ==
    LET text == jobs[thread.id].text IN
    /\ Calls("apply", thread)
    /\ ledger' = IF ledger[text] = "preview"
                 THEN [ledger EXCEPT ![text] = "needs_clarification"]
                 ELSE ledger
    /\ Returns(thread, "error")
    /\ UNCHANGED <<jobs, accepted, tasks, closed, pending, missing, version,
                   effects>>

\* The rest of _run_preview and _run_apply.
BugErrorsLost(thread) ==
    IF thread.outcome = "error" THEN UNCHANGED jobs
                                ELSE Record(thread.id, thread.outcome)
Recorded(thread) == Record(thread.id, thread.outcome)

Finish(thread) ==
    /\ thread \in running /\ thread.outcome # "none"
    /\ running' = running \ {thread}
    /\ Recorded(thread)
    /\ UNCHANGED <<accepted, tasks, closed, ledger, pending, missing, version,
                   effects>>

(***************************************************************************)
(* The carrier                                                             *)
(***************************************************************************)
\* DirectiveNode: an announced directive is looked up among the applied.
CarrierCycle ==
    /\ pending # {}
    /\ pending' = {}
    /\ missing' = (missing \/ \E text \in pending : ledger[text] # "applied")
    /\ UNCHANGED <<jobs, accepted, tasks, running, closed, ledger, version,
                   effects>>

NewPlan ==
    /\ version < MaxVersion
    /\ version' = version + 1
    /\ UNCHANGED <<jobs, accepted, tasks, running, closed, ledger, pending,
                   missing, effects>>

(***************************************************************************)
(* The system                                                              *)
(***************************************************************************)
Work(thread) == \/ PreviewSaved(thread) \/ PreviewFails(thread)
                \/ Applies(thread) \/ Rejects(thread) \/ Finish(thread)

Next ==
    \/ \E t \in Text : Submit(t) \/ SubmitAndEvict(t)
    \/ \E id \in Request : Apply(id)
    \/ Close
    \/ Begin
    \/ \E thread \in running : Work(thread)
    \/ CarrierCycle
    \/ NewPlan

Spec == Init /\ [][Next]_vars

\* The executor's threads run and a runtime call ends, by the provider's
\* timeout at the latest.
FairSpec == Spec /\ WF_vars(Begin) /\ WF_vars(\E thread \in running : Work(thread))

(***************************************************************************)
(* Properties                                                              *)
(***************************************************************************)
Waiting == {tasks[i] : i \in 1 .. Len(tasks)}

\* Eviction never takes a job with work ahead of it, and no job has two tasks:
\* _run_apply looks its job up without asking whether it is still there.
TasksHaveJobs ==
    /\ \A i, j \in 1 .. Len(tasks) : tasks[i].id = tasks[j].id => i = j
    /\ \A t \in Waiting :
         /\ t.id \in Kept
         /\ jobs[t.id].status = IF t.kind = "preview" THEN "queued" ELSE "applying"
         /\ \A thread \in running : thread.id # t.id
    /\ \A thread \in running :
         /\ thread.id \in Kept
         /\ jobs[thread.id].status =
              IF thread.kind = "preview" THEN "processing" ELSE "applying"
         /\ \A other \in running : thread.id = other.id => thread = other

\* One confirmation applies a directive once, also when another request of the
\* same text makes its row a preview again.
AppliedAtMostOnce == \A id \in Request : effects[id] <= 1

\* While the queue is open every request is answered and every confirmation
\* settled, although the executor's threads are few.
JobsSettle ==
    \A id \in Request :
      (id \in Kept /\ jobs[id].status \in {"queued", "processing", "applying"})
        ~> closed \/ ~ (id \in Kept /\ jobs[id].status \in
                          {"queued", "processing", "applying"})

\* agent/runtime.py, _apply_directive_locked: the next cycle re-plans with the
\* applied directive.
EventFindsDirective == ~ missing
=============================================================================
