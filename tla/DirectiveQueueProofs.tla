------------------------ MODULE DirectiveQueueProofs ------------------------
(***************************************************************************)
(* Proofs about the directive queue: its types, that every task finds the  *)
(* job it was made for, that a confirmation applies at most once and the   *)
(* job says so, that no job is left without a task or a thread, and that   *)
(* the queue and the executor keep to their bounds.  The number of jobs,   *)
(* of threads and of texts is arbitrary.                                   *)
(***************************************************************************)
EXTENDS DirectiveQueue, FiniteSetTheorems, TLAPS

USE DirectiveQueueAssumption

-----------------------------------------------------------------------------
(***************************************************************************)
(* The inductive invariant.  A request that was not accepted yet has no    *)
(* history; a request that has applied its directive cannot ask again,     *)
(* because its job is finished, or gone, or its thread is about to say so. *)
(***************************************************************************)
Fresh == \A id \in Request : id > accepted => jobs[id] = NoJob /\ effects[id] = 0

AppliedIsSpent ==
    \A id \in Request : effects[id] # 0 =>
      /\ effects[id] = 1
      /\ \/ id \notin Kept
         \/ jobs[id].status = "applied"
         \/ \E thread \in running :
              thread.id = id /\ thread.kind = "apply" /\ thread.outcome = "applied"

IInv == TypeOK /\ TasksHaveJobs /\ Fresh /\ AppliedIsSpent

LEMMA InitOK == Init => IInv
<1>. SUFFICES ASSUME Init PROVE IInv
  OBVIOUS
<1>1. TypeOK
  <2>1. tasks \in Seq(Task) /\ running \in SUBSET Thread
    BY DEF Init
  <2>2. /\ jobs \in [Request -> Job \cup {NoJob}]
        /\ ledger \in [Text -> RowStatus]
        /\ effects \in [Request -> Nat]
    BY DEF Init, RowStatus
  <2>3. accepted \in 0 .. MaxRequests /\ version \in 1 .. MaxVersion
    BY DEF Init
  <2>. QED
    BY <2>1, <2>2, <2>3 DEF Init, TypeOK
<1>2. TasksHaveJobs
  BY DEF Init, TasksHaveJobs, Waiting
<1>3. Fresh /\ AppliedIsSpent
  BY DEF Init, Fresh, AppliedIsSpent
<1>. QED
  BY <1>1, <1>2, <1>3 DEF IInv

\* What the parts of the invariant say of one job.
LEMMA JobOf ==
  ASSUME TypeOK, NEW id \in Request, id \in Kept
  PROVE  jobs[id] \in Job
  BY DEF TypeOK, Kept

LEMMA NoJobIsNoJob == NoJob \notin Job
  BY DEF NoJob, Job, JobStatus

-----------------------------------------------------------------------------
(***************************************************************************)
(* The types                                                               *)
(***************************************************************************)
\* What is evicted or kept, an accepted request has a job.
LEMMA AcceptType ==
  ASSUME TypeOK, NEW t \in Text, NEW others \in [Request -> Job \cup {NoJob}],
         Accept(t, others)
  PROVE  TypeOK'
<1>1. accepted + 1 \in Request
  BY DEF Accept, TypeOK, Request
<1>2. NewJob(t) \in Job
  BY DEF NewJob, Job, JobStatus, TypeOK
<1>3. [kind |-> "preview", id |-> accepted + 1] \in Task
  BY <1>1 DEF Task
<1>4. tasks' \in Seq(Task)
  BY <1>3 DEF Accept, TypeOK
<1>5. jobs' \in [Request -> Job \cup {NoJob}]
  BY <1>1, <1>2 DEF Accept
<1>. QED
  BY <1>1, <1>4, <1>5 DEF Accept, TypeOK, Request

LEMMA RecordType ==
  ASSUME TypeOK, NEW id \in Request, id \in Kept, NEW status \in JobStatus,
         Record(id, status)
  PROVE  jobs' \in [Request -> Job \cup {NoJob}]
<1>1. [jobs[id] EXCEPT !.status = status] \in Job
  BY JobOf DEF Job
<1>. QED
  BY <1>1 DEF Record, TypeOK

LEMMA ReturnsType ==
  ASSUME TypeOK, NEW thread \in running, NEW status \in JobStatus,
         Returns(thread, status)
  PROVE  running' \in SUBSET Thread
  BY DEF Returns, TypeOK, Thread

LEMMA TextOf ==
  ASSUME TypeOK, TasksHaveJobs, NEW thread \in running
  PROVE  /\ thread \in Thread /\ thread.id \in Request /\ thread.id \in Kept
         /\ jobs[thread.id].text \in Text
  BY JobOf DEF TypeOK, TasksHaveJobs, Thread, Job

LEMMA HeadOf ==
  ASSUME TypeOK, TasksHaveJobs, tasks # <<>>
  PROVE  /\ Head(tasks) \in Task /\ Head(tasks).id \in Request
         /\ Head(tasks).kind \in {"preview", "apply"}
         /\ Head(tasks) = tasks[1] /\ Head(tasks).id \in Kept
         /\ Tail(tasks) \in Seq(Task)
<1>1. Head(tasks) \in Task /\ Head(tasks) = tasks[1] /\ 1 \in 1 .. Len(tasks)
      /\ Tail(tasks) \in Seq(Task)
  BY DEF TypeOK
<1>. QED
  BY <1>1 DEF TasksHaveJobs, Waiting, Task

LEMMA TypeStep ==
  ASSUME TypeOK, TasksHaveJobs, [Next]_vars
  PROVE  TypeOK'
<1>1. ASSUME NEW t \in Text, Submit(t) \/ SubmitAndEvict(t) PROVE TypeOK'
  <2>1. CASE Submit(t)
    BY <2>1, AcceptType DEF Submit, TypeOK
  <2>2. CASE SubmitAndEvict(t)
    <3>1. PICK id \in Request : Accept(t, [jobs EXCEPT ![id] = NoJob])
      BY <2>2 DEF SubmitAndEvict
    <3>2. [jobs EXCEPT ![id] = NoJob] \in [Request -> Job \cup {NoJob}]
      BY DEF TypeOK
    <3>. QED
      BY <3>1, <3>2, AcceptType
  <2>. QED
    BY <1>1, <2>1, <2>2
<1>2. ASSUME NEW id \in Request, Apply(id) PROVE TypeOK'
  <2>1. jobs' \in [Request -> Job \cup {NoJob}]
    BY <1>2, RecordType DEF Apply, JobStatus
  <2>2. tasks' \in Seq(Task)
    BY <1>2 DEF Apply, TypeOK, Task
  <2>. QED
    BY <1>2, <2>1, <2>2 DEF Apply, TypeOK
<1>3. CASE Close
  BY <1>3 DEF Close, TypeOK
<1>4. CASE Begin
  <2>1. /\ Head(tasks) \in Task /\ Head(tasks).id \in Request
        /\ Head(tasks).kind \in {"preview", "apply"} /\ Head(tasks).id \in Kept
        /\ Tail(tasks) \in Seq(Task)
    BY <1>4, HeadOf DEF Begin
  <2>2. jobs' \in [Request -> Job \cup {NoJob}]
    <3>1. CASE Head(tasks).kind = "preview"
      BY <1>4, <2>1, <3>1, RecordType DEF Begin, JobStatus
    <3>2. CASE Head(tasks).kind # "preview"
      BY <1>4, <3>2 DEF Begin, TypeOK
    <3>. QED
      BY <3>1, <3>2
  <2>3. running' \in SUBSET Thread
    BY <1>4, <2>1 DEF Begin, TypeOK, Thread
  <2>. QED
    BY <1>4, <2>1, <2>2, <2>3 DEF Begin, TypeOK
<1>5. ASSUME NEW thread \in running, Work(thread) PROVE TypeOK'
  <2>1. thread \in Thread /\ thread.id \in Request /\ thread.id \in Kept
        /\ jobs[thread.id].text \in Text
    BY TextOf
  <2>2. CASE PreviewSaved(thread)
    <3>1. PICK status \in {"preview", "needs_clarification"} :
            /\ ledger' = [ledger EXCEPT ![jobs[thread.id].text] = status]
            /\ Returns(thread, status)
      BY <2>2 DEF PreviewSaved
    <3>2. running' \in SUBSET Thread
      BY <3>1, ReturnsType DEF JobStatus
    <3>3. ledger' \in [Text -> RowStatus]
      BY <3>1 DEF TypeOK, RowStatus
    <3>. QED
      BY <2>2, <3>2, <3>3 DEF PreviewSaved, TypeOK
  <2>3. CASE PreviewFails(thread)
    BY <2>3, ReturnsType DEF PreviewFails, TypeOK, JobStatus
  <2>4. CASE Applies(thread)
    <3>1. running' \in SUBSET Thread
      BY <2>4, ReturnsType DEF Applies, JobStatus
    <3>2. ledger' \in [Text -> RowStatus] /\ pending' \in SUBSET Text
      BY <2>1, <2>4 DEF Applies, TypeOK, RowStatus
    <3>3. effects' \in [Request -> Nat]
      BY <2>1, <2>4 DEF Applies, TypeOK
    <3>. QED
      BY <2>4, <3>1, <3>2, <3>3 DEF Applies, TypeOK
  <2>5. CASE Rejects(thread)
    <3>1. running' \in SUBSET Thread
      BY <2>5, ReturnsType DEF Rejects, JobStatus
    <3>2. ledger' \in [Text -> RowStatus]
      BY <2>1, <2>5 DEF Rejects, TypeOK, RowStatus
    <3>. QED
      BY <2>5, <3>1, <3>2 DEF Rejects, TypeOK
  <2>6. CASE Finish(thread)
    <3>1. thread.outcome \in JobStatus
      BY <2>1, <2>6 DEF Finish, Thread
    <3>2. jobs' \in [Request -> Job \cup {NoJob}]
      BY <2>1, <2>6, <3>1, RecordType DEF Finish, Recorded
    <3>. QED
      BY <2>6, <3>2 DEF Finish, TypeOK
  <2>. QED
    BY <1>5, <2>2, <2>3, <2>4, <2>5, <2>6 DEF Work
<1>6. CASE CarrierCycle
  BY <1>6 DEF CarrierCycle, TypeOK
<1>7. CASE NewPlan
  BY <1>7 DEF NewPlan, TypeOK
<1>8. CASE UNCHANGED vars
  BY <1>8 DEF vars, TypeOK
<1>. QED
  BY <1>1, <1>2, <1>3, <1>4, <1>5, <1>6, <1>7, <1>8 DEF Next

-----------------------------------------------------------------------------
(***************************************************************************)
(* Tasks and their jobs                                                    *)
(***************************************************************************)
\* A step that changes neither the tasks nor whose threads run, nor a status.
LEMMA TasksKeepJobs ==
  ASSUME TypeOK, TasksHaveJobs, tasks' = tasks, running' = running,
         UNCHANGED jobs
  PROVE  TasksHaveJobs'
  BY DEF TasksHaveJobs, Waiting, Kept

\* A call that returns leaves the thread where it is.
LEMMA ReturnKeepsJobs ==
  ASSUME TypeOK, TasksHaveJobs, NEW thread \in running, NEW status \in JobStatus,
         Returns(thread, status), UNCHANGED <<jobs, tasks>>
  PROVE  TasksHaveJobs'
<1>. DEFINE after == [thread EXCEPT !.outcome = status]
<1>1. after.id = thread.id /\ after.kind = thread.kind
  BY DEF TypeOK, Thread
<1>3. running' = (running \ {thread}) \cup {after}
  BY DEF Returns
<1>. HIDE DEF after
<1>4. \A x, y \in running' : x.id = y.id => x = y
  BY <1>1, <1>3 DEF TasksHaveJobs
<1>5. \A other \in running' : \E before \in running :
        other.id = before.id /\ other.kind = before.kind
  BY <1>1, <1>3
<1>6. jobs' = jobs /\ tasks' = tasks /\ Waiting' = Waiting /\ Kept' = Kept
  BY DEF Waiting, Kept
<1>7. ASSUME NEW other \in running'
      PROVE  /\ other.id \in Kept
             /\ jobs[other.id].status =
                  IF other.kind = "preview" THEN "processing" ELSE "applying"
             /\ \A t \in Waiting : other.id # t.id
  <2>1. PICK before \in running : other.id = before.id /\ other.kind = before.kind
    BY <1>5
  <2>. QED
    BY <2>1 DEF TasksHaveJobs
<1>. QED
  BY <1>4, <1>6, <1>7 DEF TasksHaveJobs

\* A new task at the end of the queue, for a job that has none.
LEMMA AppendKeepsJobs ==
  ASSUME TypeOK, TasksHaveJobs, NEW new \in Task,
         tasks' = Append(tasks, new), UNCHANGED running,
         \A t \in Waiting : t.id # new.id,
         \A thread \in running : thread.id # new.id,
         new.id \in Kept',
         jobs'[new.id].status = IF new.kind = "preview" THEN "queued" ELSE "applying",
         \A id \in Kept : id # new.id /\ jobs[id].status \in
           {"queued", "processing", "applying"} => id \in Kept' /\ jobs'[id] = jobs[id]
  PROVE  TasksHaveJobs'
<1>1. tasks \in Seq(Task)
  BY DEF TypeOK
<1>2. Len(tasks') = Len(tasks) + 1 /\ Len(tasks) \in Nat
  BY <1>1
<1>3. \A i \in 1 .. Len(tasks) : tasks'[i] = tasks[i] /\ tasks[i] \in Waiting
  BY <1>1 DEF Waiting
<1>4. tasks'[Len(tasks) + 1] = new
  BY <1>1
<1>5. \A i \in 1 .. Len(tasks') : i \in 1 .. Len(tasks) \/ i = Len(tasks) + 1
  BY <1>2
<1>6. Waiting' = Waiting \cup {new}
  BY <1>2, <1>3, <1>4, <1>5 DEF Waiting
<1>7. \A i, j \in 1 .. Len(tasks') : tasks'[i].id = tasks'[j].id => i = j
  BY <1>3, <1>4, <1>5 DEF TasksHaveJobs
<1>8. \A t \in Waiting' :
        /\ t.id \in Kept'
        /\ jobs'[t.id].status = IF t.kind = "preview" THEN "queued" ELSE "applying"
        /\ \A thread \in running' : thread.id # t.id
  <2>1. ASSUME NEW t \in Waiting
        PROVE  /\ t.id \in Kept'
               /\ jobs'[t.id].status =
                    IF t.kind = "preview" THEN "queued" ELSE "applying"
               /\ \A thread \in running' : thread.id # t.id
    <3>1. /\ t.id \in Kept /\ \A thread \in running : thread.id # t.id
          /\ jobs[t.id].status = IF t.kind = "preview" THEN "queued" ELSE "applying"
      BY DEF TasksHaveJobs
    <3>2. t.id \in Kept' /\ jobs'[t.id] = jobs[t.id]
      BY <3>1
    <3>. QED
      BY <3>1, <3>2
  <2>. QED
    BY <1>6, <2>1
<1>9. \A thread \in running' :
        /\ thread.id \in Kept'
        /\ jobs'[thread.id].status =
             IF thread.kind = "preview" THEN "processing" ELSE "applying"
        /\ \A other \in running' : thread.id = other.id => thread = other
  <2>1. ASSUME NEW thread \in running
        PROVE  thread.id \in Kept' /\ jobs'[thread.id] = jobs[thread.id]
    BY DEF TasksHaveJobs
  <2>. QED
    BY <2>1 DEF TasksHaveJobs
<1>. QED
  BY <1>7, <1>8, <1>9 DEF TasksHaveJobs

LEMMA AcceptKeepsJobs ==
  ASSUME IInv, NEW t \in Text, NEW others, Accept(t, others),
         others = jobs \/ \E id \in Request : Evicted(id)
                              /\ others = [jobs EXCEPT ![id] = NoJob]
  PROVE  TasksHaveJobs'
<1>. DEFINE new == [kind |-> "preview", id |-> accepted + 1]
<1>. USE DEF IInv
<1>1. accepted + 1 \in Request
  BY DEF Accept, TypeOK, Request
<1>2. accepted + 1 \notin Kept
  BY <1>1 DEF Fresh, Kept, TypeOK
<1>3. new \in Task
  BY <1>1 DEF Task
<1>4. /\ \A w \in Waiting : w.id # accepted + 1
      /\ \A thread \in running : thread.id # accepted + 1
  BY <1>2 DEF TasksHaveJobs
<1>5. others \in [Request -> Job \cup {NoJob}]
  BY DEF TypeOK
<1>6. jobs' = [others EXCEPT ![accepted + 1] = NewJob(t)]
  BY DEF Accept
<1>7. jobs'[accepted + 1] = NewJob(t)
  BY <1>1, <1>5, <1>6
<1>8. accepted + 1 \in Kept' /\ jobs'[accepted + 1].status = "queued"
  <2>1. NewJob(t) \in Job
    BY DEF NewJob, Job, JobStatus, TypeOK
  <2>. QED
    BY <1>1, <1>7, <2>1, NoJobIsNoJob DEF Kept, NewJob
<1>9. ASSUME NEW id \in Kept, id # accepted + 1,
             jobs[id].status \in {"queued", "processing", "applying"}
      PROVE  id \in Kept' /\ jobs'[id] = jobs[id]
  <2>1. ~ Evicted(id)
    BY <1>9 DEF Evicted, Evictable, Terminal
  <2>2. others[id] = jobs[id]
    BY <2>1 DEF TypeOK, Kept
  <2>. QED
    BY <1>1, <1>5, <1>6, <1>9, <2>2 DEF Kept
<1>10. tasks' = Append(tasks, new) /\ UNCHANGED running
  BY DEF Accept
<1>11. new.id = accepted + 1 /\ new.kind = "preview"
  OBVIOUS
<1>. HIDE DEF new, IInv
<1>12. TypeOK /\ TasksHaveJobs
  BY DEF IInv
<1>. QED
  BY <1>3, <1>4, <1>8, <1>9, <1>10, <1>11, <1>12, AppendKeepsJobs

-----------------------------------------------------------------------------
(***************************************************************************)
(* The other steps                                                         *)
(***************************************************************************)
LEMMA ApplyKeepsJobs ==
  ASSUME IInv, NEW id \in Request, Apply(id)
  PROVE  TasksHaveJobs'
<1>. DEFINE new == [kind |-> "apply", id |-> id]
<1>1. TypeOK /\ TasksHaveJobs
  BY DEF IInv
<1>2. jobs[id] \in Job /\ id \in Kept /\ jobs[id].status = "preview"
  BY <1>1, JobOf DEF Apply, Applicable
<1>3. jobs' = [jobs EXCEPT ![id].status = "applying"]
  BY DEF Apply, Record
<1>4. jobs'[id] = [jobs[id] EXCEPT !.status = "applying"] /\ jobs'[id] \in Job
  BY <1>1, <1>2, <1>3 DEF TypeOK, Job, JobStatus
<1>5. id \in Kept' /\ jobs'[id].status = "applying"
  BY <1>2, <1>4, NoJobIsNoJob DEF Kept, Job
<1>6. /\ \A w \in Waiting : w.id # id
      /\ \A thread \in running : thread.id # id
  BY <1>1, <1>2 DEF TasksHaveJobs
<1>7. \A k \in Kept : k # id => k \in Kept' /\ jobs'[k] = jobs[k]
  BY <1>1, <1>3 DEF Kept, TypeOK
<1>8. new \in Task /\ new.id = id /\ new.kind = "apply"
  BY DEF Task
<1>9. tasks' = Append(tasks, new) /\ UNCHANGED running
  BY DEF Apply
<1>. HIDE DEF new
<1>. QED
  BY <1>1, <1>5, <1>6, <1>7, <1>8, <1>9, AppendKeepsJobs

LEMMA BeginKeepsJobs ==
  ASSUME IInv, Begin
  PROVE  TasksHaveJobs'
<1>. DEFINE task == Head(tasks)
            thread == [kind |-> task.kind, id |-> task.id, outcome |-> "none"]
<1>1. TypeOK /\ TasksHaveJobs /\ tasks # <<>> /\ tasks \in Seq(Task)
  BY DEF IInv, Begin, TypeOK
<1>2. /\ task \in Task /\ task.id \in Request /\ task.id \in Kept
      /\ task = tasks[1] /\ task.kind \in {"preview", "apply"}
  BY <1>1, HeadOf
<1>3. /\ Len(tasks) \in Nat /\ 1 \in 1 .. Len(tasks) /\ Len(tasks') = Len(tasks) - 1
      /\ \A i \in 1 .. Len(tasks') : tasks'[i] = tasks[i + 1] /\ i + 1 \in 1 .. Len(tasks)
  BY <1>1 DEF Begin
<1>4. /\ jobs[task.id].status = IF task.kind = "preview" THEN "queued" ELSE "applying"
      /\ \A other \in running : other.id # task.id
  BY <1>1, <1>2, <1>3 DEF TasksHaveJobs, Waiting
<1>5. ASSUME NEW w \in Waiting' PROVE w \in Waiting /\ w.id # task.id
  <2>1. PICK i \in 1 .. Len(tasks') : w = tasks'[i]
    BY DEF Waiting
  <2>2. i + 1 \in 1 .. Len(tasks) /\ w = tasks[i + 1] /\ i + 1 # 1
    BY <1>3, <2>1
  <2>3. w \in Waiting
    BY <2>2 DEF Waiting
  <2>4. tasks[i + 1].id # tasks[1].id
    BY <1>1, <1>3, <2>2 DEF TasksHaveJobs
  <2>. QED
    BY <1>2, <2>2, <2>3, <2>4
<1>6. /\ task.id \in Kept'
      /\ jobs'[task.id].status =
           IF task.kind = "preview" THEN "processing" ELSE "applying"
      /\ \A k \in Kept : k # task.id => k \in Kept' /\ jobs'[k] = jobs[k]
  <2>1. jobs[task.id] \in Job
    BY <1>1, <1>2, JobOf
  <2>2. CASE task.kind = "preview"
    <3>1. jobs' = [jobs EXCEPT ![task.id].status = "processing"]
      BY <2>2 DEF Begin, Record
    <3>2. /\ jobs'[task.id] = [jobs[task.id] EXCEPT !.status = "processing"]
          /\ jobs'[task.id] \in Job
      BY <1>1, <1>2, <2>1, <3>1 DEF TypeOK, Job, JobStatus
    <3>3. \A k \in Kept : k # task.id => k \in Kept' /\ jobs'[k] = jobs[k]
      BY <1>1, <3>1 DEF Kept, TypeOK
    <3>4. jobs'[task.id].status = "processing"
      BY <2>1, <3>2 DEF Job
    <3>. QED
      BY <1>2, <2>2, <3>2, <3>3, <3>4, NoJobIsNoJob DEF Kept
  <2>3. CASE task.kind # "preview"
    BY <1>2, <1>4, <2>3 DEF Begin, Kept
  <2>. QED
    BY <2>2, <2>3
<1>7. /\ running' = running \cup {thread}
      /\ thread.id = task.id /\ thread.kind = task.kind
  BY DEF Begin
<1>. HIDE DEF task, thread
<1>8. \A i, j \in 1 .. Len(tasks') : tasks'[i].id = tasks'[j].id => i = j
  <2>. SUFFICES ASSUME NEW i \in 1 .. Len(tasks'), NEW j \in 1 .. Len(tasks'),
                       tasks'[i].id = tasks'[j].id
                PROVE  i = j
    OBVIOUS
  <2>1. i + 1 = j + 1
    BY <1>1, <1>3 DEF TasksHaveJobs
  <2>. QED
    BY <2>1
<1>9. \A w \in Waiting' :
        /\ w.id \in Kept'
        /\ jobs'[w.id].status = IF w.kind = "preview" THEN "queued" ELSE "applying"
        /\ \A other \in running' : other.id # w.id
  <2>. SUFFICES ASSUME NEW w \in Waiting'
                PROVE  /\ w.id \in Kept'
                       /\ jobs'[w.id].status =
                            IF w.kind = "preview" THEN "queued" ELSE "applying"
                       /\ \A other \in running' : other.id # w.id
    OBVIOUS
  <2>1. w \in Waiting /\ w.id # task.id
    BY <1>5
  <2>2. w.id \in Kept /\ \A other \in running : other.id # w.id
    BY <1>1, <2>1 DEF TasksHaveJobs
  <2>3. w.id \in Kept' /\ jobs'[w.id] = jobs[w.id]
    BY <1>6, <2>1, <2>2
  <2>. QED
    BY <1>1, <1>7, <2>1, <2>2, <2>3 DEF TasksHaveJobs
<1>10. ASSUME NEW other \in running
       PROVE  /\ other.id \in Kept' /\ jobs'[other.id] = jobs[other.id]
              /\ other.id # task.id
  BY <1>1, <1>4, <1>6 DEF TasksHaveJobs
<1>11. \A x \in running' :
         /\ x.id \in Kept'
         /\ jobs'[x.id].status = IF x.kind = "preview" THEN "processing" ELSE "applying"
         /\ \A y \in running' : x.id = y.id => x = y
  <2>. SUFFICES ASSUME NEW x \in running'
                PROVE  /\ x.id \in Kept'
                       /\ jobs'[x.id].status =
                            IF x.kind = "preview" THEN "processing" ELSE "applying"
                       /\ \A y \in running' : x.id = y.id => x = y
    OBVIOUS
  <2>1. CASE x = thread
    BY <1>6, <1>7, <1>10, <2>1
  <2>2. CASE x \in running
    BY <1>1, <1>7, <1>10, <2>2 DEF TasksHaveJobs
  <2>. QED
    BY <1>7, <2>1, <2>2
<1>. QED
  BY <1>8, <1>9, <1>11 DEF TasksHaveJobs

LEMMA FinishKeepsJobs ==
  ASSUME IInv, NEW thread \in running, Finish(thread)
  PROVE  TasksHaveJobs'
<1>1. TypeOK /\ TasksHaveJobs
  BY DEF IInv
<1>2. thread.id \in Request /\ thread.id \in Kept
  BY <1>1, TextOf
<1>3. jobs' = [jobs EXCEPT ![thread.id].status = thread.outcome]
  BY DEF Finish, Recorded, Record
<1>4. \A k \in Kept : k # thread.id => k \in Kept' /\ jobs'[k] = jobs[k]
  BY <1>1, <1>3 DEF Kept, TypeOK
<1>5. /\ running' = running \ {thread} /\ tasks' = tasks /\ Waiting' = Waiting
      /\ \A w \in Waiting : w.id # thread.id
  BY <1>1 DEF Finish, Waiting, TasksHaveJobs
<1>6. \A other \in running' : other \in running /\ other.id # thread.id
  BY <1>1, <1>5 DEF TasksHaveJobs
<1>7. \A w \in Waiting : w.id \in Kept' /\ jobs'[w.id] = jobs[w.id]
  BY <1>1, <1>4, <1>5 DEF TasksHaveJobs
<1>8. \A other \in running' : other.id \in Kept' /\ jobs'[other.id] = jobs[other.id]
  BY <1>1, <1>4, <1>6 DEF TasksHaveJobs
<1>. QED
  BY <1>1, <1>5, <1>6, <1>7, <1>8 DEF TasksHaveJobs

LEMMA JobsStep ==
  ASSUME IInv, [Next]_vars
  PROVE  TasksHaveJobs'
<1>1. TypeOK /\ TasksHaveJobs
  BY DEF IInv
<1>2. ASSUME NEW t \in Text, Submit(t) \/ SubmitAndEvict(t) PROVE TasksHaveJobs'
  BY <1>2, AcceptKeepsJobs DEF Submit, SubmitAndEvict
<1>3. ASSUME NEW id \in Request, Apply(id) PROVE TasksHaveJobs'
  BY <1>3, ApplyKeepsJobs
<1>4. CASE Close
  <2>1. tasks' = <<>> /\ running' = running /\ jobs' = jobs /\ Kept' = Kept
    BY <1>4 DEF Close, Kept
  <2>2. Len(tasks') = 0 /\ Waiting' = {}
    BY <2>1 DEF Waiting
  <2>. QED
    BY <1>1, <2>1, <2>2 DEF TasksHaveJobs
<1>5. CASE Begin
  BY <1>5, BeginKeepsJobs
<1>6. ASSUME NEW thread \in running, Work(thread) PROVE TasksHaveJobs'
  <2>1. CASE Finish(thread)
    BY <2>1, FinishKeepsJobs
  <2>2. CASE ~ Finish(thread)
    <3>1. PICK status \in JobStatus : Returns(thread, status)
      BY <1>6, <2>2
         DEF Work, PreviewSaved, PreviewFails, Applies, Rejects, JobStatus
    <3>2. UNCHANGED <<jobs, tasks>>
      BY <1>6, <2>2 DEF Work, PreviewSaved, PreviewFails, Applies, Rejects
    <3>. QED
      BY <1>1, <3>1, <3>2, ReturnKeepsJobs
  <2>. QED
    BY <2>1, <2>2
<1>7. CASE CarrierCycle \/ NewPlan \/ UNCHANGED vars
  BY <1>1, <1>7, TasksKeepJobs DEF CarrierCycle, NewPlan, vars
<1>. QED
  BY <1>2, <1>3, <1>4, <1>5, <1>6, <1>7 DEF Next

-----------------------------------------------------------------------------
(***************************************************************************)
(* A confirmation applies at most once                                     *)
(***************************************************************************)
LEMMA FreshStep ==
  ASSUME IInv, [Next]_vars
  PROVE  Fresh'
<1>1. TypeOK /\ TasksHaveJobs /\ Fresh
  BY DEF IInv
<1>2. \A id \in Kept : id <= accepted
  BY <1>1 DEF Fresh, Kept, TypeOK, Request
<1>3. ASSUME NEW t \in Text, Submit(t) \/ SubmitAndEvict(t) PROVE Fresh'
  <2>1. PICK others \in [Request -> Job \cup {NoJob}] :
          /\ Accept(t, others)
          /\ \A id \in Request : others[id] = jobs[id] \/ others[id] = NoJob
    <3>1. CASE Submit(t)
      BY <1>1, <3>1 DEF Submit, TypeOK
    <3>2. CASE SubmitAndEvict(t)
      <4>1. PICK k \in Request : Accept(t, [jobs EXCEPT ![k] = NoJob])
        BY <3>2 DEF SubmitAndEvict
      <4>. QED
        BY <1>1, <4>1 DEF TypeOK
    <3>. QED
      BY <1>3, <3>1, <3>2
  <2>2. accepted' = accepted + 1 /\ effects' = effects
        /\ jobs' = [others EXCEPT ![accepted + 1] = NewJob(t)]
    BY <2>1 DEF Accept
  <2>. QED
    BY <1>1, <2>1, <2>2 DEF Fresh, TypeOK, Request
<1>4. ASSUME NEW id \in Request, Apply(id) PROVE Fresh'
  BY <1>1, <1>2, <1>4 DEF Apply, Record, Fresh, TypeOK, Request
<1>5. CASE Begin
  <2>1. Head(tasks).id \in Kept
    BY <1>1, <1>5, HeadOf DEF Begin
  <2>. QED
    BY <1>1, <1>2, <1>5, <2>1 DEF Begin, Record, Fresh, TypeOK, Request
<1>6. ASSUME NEW thread \in running, Work(thread) PROVE Fresh'
  <2>1. thread.id \in Kept /\ thread.id \in Request /\ thread.id <= accepted
    BY <1>1, <1>2, TextOf
  <2>2. accepted' = accepted
    BY <1>6 DEF Work, PreviewSaved, PreviewFails, Applies, Rejects, Finish
  <2>3. \A id \in Request : id # thread.id => jobs'[id] = jobs[id]
    BY <1>1, <1>6 DEF Work, PreviewSaved, PreviewFails, Applies, Rejects, Finish,
                      Recorded, Record, TypeOK
  <2>4. \A id \in Request : id # thread.id => effects'[id] = effects[id]
    BY <1>1, <1>6 DEF Work, PreviewSaved, PreviewFails, Applies, Rejects, Finish,
                      TypeOK
  <2>. QED
    BY <1>1, <2>1, <2>2, <2>3, <2>4 DEF Fresh, TypeOK, Request
<1>7. CASE Close \/ CarrierCycle \/ NewPlan \/ UNCHANGED vars
  BY <1>1, <1>7 DEF Close, CarrierCycle, NewPlan, vars, Fresh
<1>. QED
  BY <1>3, <1>4, <1>5, <1>6, <1>7 DEF Next

\* A job that is asked to apply, or is applying, has not applied yet.
LEMMA SpentStep ==
  ASSUME IInv, TypeOK', [Next]_vars
  PROVE  AppliedIsSpent'
<1>1. TypeOK /\ TasksHaveJobs /\ Fresh /\ AppliedIsSpent
  BY DEF IInv
<1>2. ASSUME NEW t \in Text, Submit(t) \/ SubmitAndEvict(t)
      PROVE  AppliedIsSpent'
  <2>1. PICK others \in [Request -> Job \cup {NoJob}] :
          /\ Accept(t, others)
          /\ \A id \in Request : others[id] = jobs[id] \/ others[id] = NoJob
    <3>1. CASE Submit(t)
      BY <1>1, <3>1 DEF Submit, TypeOK
    <3>2. CASE SubmitAndEvict(t)
      <4>1. PICK k \in Request : Accept(t, [jobs EXCEPT ![k] = NoJob])
        BY <3>2 DEF SubmitAndEvict
      <4>. QED
        BY <1>1, <4>1 DEF TypeOK
    <3>. QED
      BY <1>2, <3>1, <3>2
  <2>2. effects' = effects /\ running' = running
        /\ jobs' = [others EXCEPT ![accepted + 1] = NewJob(t)]
    BY <2>1 DEF Accept
  <2>3. accepted + 1 \in Request /\ effects[accepted + 1] = 0
    BY <1>1, <2>1 DEF Accept, Fresh, TypeOK, Request
  <2>4. \A id \in Request : effects[id] # 0 =>
          /\ id # accepted + 1 /\ effects'[id] = effects[id]
          /\ jobs'[id] = jobs[id] \/ jobs'[id] = NoJob
    BY <2>1, <2>2, <2>3
  <2>. QED
    BY <1>1, <2>2, <2>4 DEF AppliedIsSpent, Kept
<1>3. ASSUME NEW id \in Request, Apply(id)
      PROVE  AppliedIsSpent'
  <2>1. id \in Kept /\ jobs[id].status = "preview"
    BY <1>3 DEF Apply, Applicable
  <2>2. \A thread \in running : thread.id # id
    BY <1>1, <2>1 DEF TasksHaveJobs
  <2>3. effects[id] = 0
    BY <1>1, <2>1, <2>2 DEF AppliedIsSpent
  <2>4. /\ effects' = effects /\ running' = running
        /\ \A k \in Request : k # id => jobs'[k] = jobs[k]
    BY <1>1, <1>3 DEF Apply, Record, TypeOK
  <2>. QED
    BY <1>1, <2>3, <2>4 DEF AppliedIsSpent, Kept
<1>4. CASE Begin
  <2>1. /\ Head(tasks).id \in Kept /\ Head(tasks).id \in Request
        /\ \A thread \in running : thread.id # Head(tasks).id
        /\ jobs[Head(tasks).id].status # "applied"
    <3>1. /\ Head(tasks) = tasks[1] /\ 1 \in 1 .. Len(tasks)
          /\ Head(tasks).id \in Request
      BY <1>1, <1>4, HeadOf DEF Begin, TypeOK
    <3>2. Head(tasks) \in Waiting
      BY <3>1 DEF Waiting
    <3>. QED
      BY <1>1, <3>1, <3>2 DEF TasksHaveJobs
  <2>2. effects[Head(tasks).id] = 0
    BY <1>1, <2>1 DEF AppliedIsSpent
  <2>3. /\ effects' = effects /\ running \subseteq running'
        /\ \A k \in Request : k # Head(tasks).id => jobs'[k] = jobs[k]
    BY <1>1, <1>4 DEF Begin, Record, TypeOK
  <2>. QED
    BY <1>1, <2>2, <2>3 DEF AppliedIsSpent, Kept
<1>5. ASSUME NEW thread \in running, Work(thread)
      PROVE  AppliedIsSpent'
  <2>1. thread.id \in Kept /\ thread.id \in Request /\ thread \in Thread
    BY <1>1, TextOf
  <2>2. \A other \in running : other # thread => other.id # thread.id
    BY <1>1 DEF TasksHaveJobs
  <2>3. \A other \in running : other # thread => other \in running'
    BY <1>5 DEF Work, PreviewSaved, PreviewFails, Applies, Rejects, Finish, Returns
  <2>4. \A id \in Request : id # thread.id =>
          jobs'[id] = jobs[id] /\ effects'[id] = effects[id]
    <3>1. \A id \in Request : id # thread.id => jobs'[id] = jobs[id]
      BY <1>1, <1>5 DEF Work, PreviewSaved, PreviewFails, Applies, Rejects, Finish,
                        Recorded, Record, TypeOK
    <3>2. \A id \in Request : id # thread.id => effects'[id] = effects[id]
      BY <1>1, <1>5 DEF Work, PreviewSaved, PreviewFails, Applies, Rejects, Finish,
                        TypeOK
    <3>. QED
      BY <3>1, <3>2
  <2>5. ASSUME NEW id \in Request, id # thread.id, effects'[id] # 0
        PROVE  /\ effects'[id] = 1
               /\ \/ id \notin Kept'
                  \/ jobs'[id].status = "applied"
                  \/ \E other \in running' :
                       other.id = id /\ other.kind = "apply" /\ other.outcome = "applied"
    <3>1. effects[id] # 0 /\ effects'[id] = effects[id] /\ jobs'[id] = jobs[id]
      BY <2>4, <2>5
    <3>2. CASE \E other \in running :
                 other.id = id /\ other.kind = "apply" /\ other.outcome = "applied"
      BY <1>1, <2>3, <2>5, <3>1, <3>2 DEF AppliedIsSpent
    <3>3. CASE ~ \E other \in running :
                 other.id = id /\ other.kind = "apply" /\ other.outcome = "applied"
      BY <1>1, <3>1, <3>3 DEF AppliedIsSpent, Kept
    <3>. QED
      BY <3>2, <3>3
  <2>6. ASSUME effects'[thread.id] # 0
        PROVE  /\ effects'[thread.id] = 1
               /\ \/ jobs'[thread.id].status = "applied"
                  \/ \E other \in running' :
                       /\ other.id = thread.id
                       /\ other.kind = "apply" /\ other.outcome = "applied"
    <3>1. CASE thread.outcome = "none"
      <4>1. effects[thread.id] = 0
        <5>1. jobs[thread.id].status # "applied"
          BY <1>1 DEF TasksHaveJobs
        <5>. QED
          BY <1>1, <2>1, <2>2, <3>1, <5>1 DEF AppliedIsSpent
      <4>2. Applies(thread)
        BY <1>5, <2>6, <3>1, <4>1
           DEF Work, PreviewSaved, PreviewFails, Rejects, Finish
      <4>3. effects'[thread.id] = 1
        BY <1>1, <2>1, <4>1, <4>2 DEF Applies, TypeOK
      <4>4. [thread EXCEPT !.outcome = "applied"] \in running'
        BY <4>2 DEF Applies, Returns
      <4>5. /\ [thread EXCEPT !.outcome = "applied"].id = thread.id
            /\ [thread EXCEPT !.outcome = "applied"].kind = "apply"
            /\ [thread EXCEPT !.outcome = "applied"].outcome = "applied"
        BY <2>1, <4>2 DEF Applies, Calls, Thread
      <4>. QED
        BY <4>3, <4>4, <4>5
    <3>2. CASE thread.outcome # "none"
      <4>1. Finish(thread)
        BY <1>5, <3>2 DEF Work, PreviewSaved, PreviewFails, Applies, Rejects, Calls
      <4>2. effects' = effects
        BY <4>1 DEF Finish
      <4>3. jobs[thread.id].status # "applied"
        BY <1>1 DEF TasksHaveJobs
      <4>4. effects[thread.id] = 1 /\ thread.outcome = "applied"
        BY <1>1, <2>1, <2>2, <2>6, <4>2, <4>3 DEF AppliedIsSpent
      <4>5. jobs[thread.id] \in Job
        BY <1>1, <2>1, JobOf
      <4>6. jobs' = [jobs EXCEPT ![thread.id].status = "applied"]
        BY <4>1, <4>4 DEF Finish, Recorded, Record
      <4>7. jobs'[thread.id].status = "applied"
        BY <1>1, <2>1, <4>5, <4>6 DEF TypeOK, Job
      <4>. QED
        BY <4>2, <4>4, <4>7
    <3>. QED
      BY <3>1, <3>2
  <2>. QED
    BY <2>5, <2>6 DEF AppliedIsSpent
<1>6. CASE Close \/ CarrierCycle \/ NewPlan \/ UNCHANGED vars
  BY <1>1, <1>6 DEF Close, CarrierCycle, NewPlan, vars, AppliedIsSpent, Kept
<1>. QED
  BY <1>2, <1>3, <1>4, <1>5, <1>6 DEF Next

LEMMA StepOK ==
  ASSUME IInv, [Next]_vars
  PROVE  IInv'
<1>1. TypeOK'
  BY TypeStep DEF IInv
<1>. QED
  BY <1>1, JobsStep, FreshStep, SpentStep DEF IInv

-----------------------------------------------------------------------------
\* The strengthened invariant of every behaviour.
THEOREM Invariant == Spec => []IInv
<1>1. Init => IInv
  BY InitOK
<1>2. IInv /\ [Next]_vars => IInv'
  BY StepOK
<1>. HIDE DEF IInv
<1>. QED
  BY <1>1, <1>2, PTL DEF Spec

\* api/hub.py, agent/runtime.py: every variable keeps to its type; a job's status is one of those the operator is shown.
THEOREM TypeCorrect == Spec => []TypeOK
<1>1. IInv => TypeOK
  BY DEF IInv
<1>. HIDE DEF IInv, TypeOK
<1>. QED
  BY <1>1, Invariant, PTL

\* api/hub.py, _reserve_job_locked and _run_apply: whatever the bounds, eviction never takes the job of a task, and no job has two.
THEOREM TasksKept == Spec => []TasksHaveJobs
<1>1. IInv => TasksHaveJobs
  BY DEF IInv
<1>. HIDE DEF IInv, TasksHaveJobs
<1>. QED
  BY <1>1, Invariant, PTL

\* api/hub.py, apply: however requests of one text interleave, a confirmed request applies its directive at most once.
THEOREM AppliedOnce == Spec => []AppliedAtMostOnce
<1>1. IInv => AppliedAtMostOnce
  BY DEF IInv, AppliedIsSpent, AppliedAtMostOnce, TypeOK
<1>. HIDE DEF IInv, AppliedAtMostOnce
<1>. QED
  BY <1>1, Invariant, PTL

-----------------------------------------------------------------------------
(***************************************************************************)
(* The queue and the executor are bounded                                  *)
(***************************************************************************)
\* A full queue makes room before it takes a job in, and a thread takes a task
\* only when one is free.
Bounded == Cardinality(Kept) <= MaxJobs /\ Cardinality(running) <= Workers

BInv == IInv /\ Bounded /\ IsFiniteSet(running)

\* Cardinalities of a set with one element more and of one with one less.
LEMMA OneMore ==
  ASSUME NEW S, IsFiniteSet(S), NEW x
  PROVE  /\ IsFiniteSet(S \cup {x}) /\ Cardinality(S) \in Nat
         /\ Cardinality(S \cup {x}) \in Nat
         /\ Cardinality(S \cup {x}) <= Cardinality(S) + 1
<1>1. IsFiniteSet(S \cup {x}) /\ Cardinality(S) \in Nat
  BY FS_AddElement, FS_CardinalityType
<1>. QED
  BY <1>1, FS_AddElement, FS_CardinalityType

LEMMA OneLess ==
  ASSUME NEW S, IsFiniteSet(S), NEW x \in S
  PROVE  /\ IsFiniteSet(S \ {x}) /\ Cardinality(S) \in Nat
         /\ Cardinality(S \ {x}) \in Nat
         /\ Cardinality(S \ {x}) = Cardinality(S) - 1
<1>1. IsFiniteSet(S \ {x}) /\ Cardinality(S) \in Nat
  BY FS_RemoveElement, FS_CardinalityType
<1>. QED
  BY <1>1, FS_RemoveElement, FS_CardinalityType

\* One element in the place of another.
LEMMA OneForOne ==
  ASSUME NEW S, IsFiniteSet(S), NEW x \in S, NEW y
  PROVE  /\ IsFiniteSet((S \ {x}) \cup {y}) /\ Cardinality(S) \in Nat
         /\ Cardinality((S \ {x}) \cup {y}) \in Nat
         /\ Cardinality((S \ {x}) \cup {y}) <= Cardinality(S)
<1>. DEFINE T == S \ {x}
<1>1. IsFiniteSet(T) /\ Cardinality(T) = Cardinality(S) - 1 /\ Cardinality(S) \in Nat
  BY OneLess
<1>. HIDE DEF T
<1>2. /\ IsFiniteSet(T \cup {y}) /\ Cardinality(T \cup {y}) \in Nat
      /\ Cardinality(T \cup {y}) <= Cardinality(T) + 1
  BY <1>1, OneMore
<1>. QED
  BY <1>1, <1>2 DEF T

LEMMA KeptIsFinite == IsFiniteSet(Kept) /\ Cardinality(Kept) \in Nat
<1>1. IsFiniteSet(1 .. MaxRequests)
  BY FS_Interval
<1>2. Kept \in SUBSET (1 .. MaxRequests)
  BY DEF Kept, Request
<1>. QED
  BY <1>1, <1>2, FS_Subset, FS_CardinalityType

\* A job whose status changes stays, and no other comes or goes.
LEMMA RecordKeeps ==
  ASSUME TypeOK, NEW id \in Kept, NEW status, Record(id, status)
  PROVE  Kept' = Kept
<1>1. jobs[id] \in Job
  BY JobOf DEF Kept
<1>2. [jobs[id] EXCEPT !.status = status] # NoJob
  BY <1>1 DEF Job, NoJob
<1>. QED
  BY <1>2 DEF Record, Kept, TypeOK

LEMMA KeptStep ==
  ASSUME BInv, [Next]_vars
  PROVE  Cardinality(Kept') <= MaxJobs
<1>1. TypeOK /\ TasksHaveJobs /\ Fresh /\ Cardinality(Kept) <= MaxJobs
  BY DEF BInv, IInv, Bounded
<1>2. ASSUME NEW t \in Text, NEW others \in [Request -> Job \cup {NoJob}],
             Accept(t, others)
      PROVE  Kept' = {id \in Request : others[id] # NoJob} \cup {accepted + 1}
  <2>1. accepted + 1 \in Request
    BY <1>1, <1>2 DEF Accept, TypeOK, Request
  <2>2. NewJob(t) # NoJob
    BY DEF NewJob, NoJob
  <2>. QED
    BY <1>2, <2>1, <2>2 DEF Accept, Kept
<1>3. ASSUME NEW t \in Text, Submit(t) PROVE Cardinality(Kept') <= MaxJobs
  <2>1. Kept' = Kept \cup {accepted + 1}
    BY <1>1, <1>2, <1>3 DEF Submit, TypeOK, Kept
  <2>2. Cardinality(Kept) < MaxJobs
    BY <1>3 DEF Submit
  <2>3. /\ Cardinality(Kept') \in Nat /\ Cardinality(Kept) \in Nat
        /\ Cardinality(Kept') <= Cardinality(Kept) + 1
    BY <2>1, KeptIsFinite, OneMore
  <2>. QED
    BY <2>2, <2>3
<1>4. ASSUME NEW t \in Text, SubmitAndEvict(t) PROVE Cardinality(Kept') <= MaxJobs
  <2>1. PICK id \in Request : Evicted(id) /\ Accept(t, [jobs EXCEPT ![id] = NoJob])
    BY <1>4 DEF SubmitAndEvict
  <2>2. Kept' = (Kept \ {id}) \cup {accepted + 1}
    <3>1. [jobs EXCEPT ![id] = NoJob] \in [Request -> Job \cup {NoJob}]
      BY <1>1 DEF TypeOK
    <3>2. {k \in Request : [jobs EXCEPT ![id] = NoJob][k] # NoJob} = Kept \ {id}
      BY <1>1 DEF TypeOK, Kept
    <3>. QED
      BY <1>2, <2>1, <3>1, <3>2
  <2>3. id \in Kept
    BY <2>1 DEF Evicted, Evictable
  <2>4. /\ Cardinality(Kept') \in Nat /\ Cardinality(Kept) \in Nat
        /\ Cardinality(Kept') <= Cardinality(Kept)
    BY <2>2, <2>3, KeptIsFinite, OneForOne
  <2>. QED
    BY <1>1, <2>4
<1>5. ASSUME NEW id \in Request, Apply(id) PROVE Kept' = Kept
  BY <1>1, <1>5, RecordKeeps DEF Apply
<1>6. CASE Begin
  <2>1. Head(tasks).id \in Kept
    BY <1>1, <1>6, HeadOf DEF Begin
  <2>2. CASE Head(tasks).kind = "preview"
    BY <1>1, <1>6, <2>1, <2>2, RecordKeeps DEF Begin
  <2>3. CASE Head(tasks).kind # "preview"
    BY <1>1, <1>6, <2>3 DEF Begin, Kept
  <2>. QED
    BY <1>1, <2>2, <2>3
<1>7. ASSUME NEW thread \in running, Work(thread) PROVE Kept' = Kept
  <2>1. thread.id \in Kept
    BY <1>1, TextOf
  <2>2. CASE Finish(thread)
    BY <1>1, <2>1, <2>2, RecordKeeps DEF Finish, Recorded
  <2>3. CASE ~ Finish(thread)
    BY <1>7, <2>3 DEF Work, PreviewSaved, PreviewFails, Applies, Rejects, Kept
  <2>. QED
    BY <2>2, <2>3
<1>8. CASE Close \/ CarrierCycle \/ NewPlan \/ UNCHANGED vars
  BY <1>1, <1>8 DEF Close, CarrierCycle, NewPlan, vars, Kept
<1>. QED
  BY <1>1, <1>3, <1>4, <1>5, <1>6, <1>7, <1>8 DEF Next

LEMMA RunningStep ==
  ASSUME BInv, [Next]_vars
  PROVE  IsFiniteSet(running') /\ Cardinality(running') <= Workers
<1>1. /\ TypeOK /\ IsFiniteSet(running) /\ Cardinality(running) <= Workers
      /\ Cardinality(running) \in Nat
  BY FS_CardinalityType DEF BInv, IInv, Bounded
<1>2. CASE Begin
  <2>1. PICK thread : running' = running \cup {thread}
    BY <1>2 DEF Begin
  <2>2. Cardinality(running) < Workers
    BY <1>2 DEF Begin
  <2>3. /\ IsFiniteSet(running') /\ Cardinality(running') \in Nat
        /\ Cardinality(running') <= Cardinality(running) + 1
    BY <1>1, <2>1, OneMore
  <2>. QED
    BY <1>1, <2>2, <2>3
<1>3. ASSUME NEW thread \in running, Work(thread)
      PROVE  IsFiniteSet(running') /\ Cardinality(running') <= Workers
  <2>1. /\ IsFiniteSet(running \ {thread})
        /\ Cardinality(running \ {thread}) = Cardinality(running) - 1
        /\ Cardinality(running \ {thread}) \in Nat
    BY <1>1, OneLess
  <2>2. CASE Finish(thread)
    BY <1>1, <2>1, <2>2 DEF Finish
  <2>3. CASE ~ Finish(thread)
    <3>1. PICK after : running' = (running \ {thread}) \cup {after}
      BY <1>3, <2>3
         DEF Work, PreviewSaved, PreviewFails, Applies, Rejects, Returns
    <3>2. /\ IsFiniteSet(running') /\ Cardinality(running') \in Nat
          /\ Cardinality(running') <= Cardinality(running)
      BY <1>1, <3>1, OneForOne
    <3>. QED
      BY <1>1, <3>2
  <2>. QED
    BY <2>2, <2>3
<1>4. CASE UNCHANGED running
  BY <1>1, <1>4
<1>. QED
  BY <1>2, <1>3, <1>4
     DEF Next, Submit, SubmitAndEvict, Accept, Apply, Close, CarrierCycle,
         NewPlan, vars

\* api/hub.py, _reserve_job_locked and the executor: the queue never keeps more than max_jobs jobs, nor do more threads run than the executor has.
THEOREM QueueBounded == Spec => []Bounded
<1>1. Init => BInv
  <2>. SUFFICES ASSUME Init PROVE BInv
    OBVIOUS
  <2>1. Kept = {} /\ running = {}
    BY DEF Init, Kept
  <2>. QED
    BY <2>1, InitOK, FS_EmptySet DEF BInv, Bounded
<1>2. BInv /\ [Next]_vars => BInv'
  <2>. SUFFICES ASSUME BInv, [Next]_vars PROVE BInv'
    OBVIOUS
  <2>1. IInv'
    BY StepOK DEF BInv
  <2>. QED
    BY <2>1, KeptStep, RunningStep DEF BInv, Bounded
<1>3. BInv => Bounded
  BY DEF BInv
<1>. HIDE DEF BInv, Bounded
<1>. QED
  BY <1>1, <1>2, <1>3, PTL DEF Spec
-----------------------------------------------------------------------------
(***************************************************************************)
(* No job is stranded                                                      *)
(***************************************************************************)
Ahead(id, kind) == \E t \in Waiting : t.id = id /\ t.kind = kind
Under(id, kind) == \E thread \in running : thread.id = id /\ thread.kind = kind

\* A job that is not at rest has a task or a thread that will move it; only
\* closing the queue takes a task away.
Moving(id) ==
    /\ jobs[id].status = "queued" => closed \/ Ahead(id, "preview")
    /\ jobs[id].status = "processing" => Under(id, "preview")
    /\ jobs[id].status = "applying" =>
         closed \/ Ahead(id, "apply") \/ Under(id, "apply")
NoJobStranded == \A id \in Kept : Moving(id)

\* What a thread has to record is an outcome of its kind, and it reports an
\* effect only when there is one.
OutcomeIsTrue(thread) ==
    /\ thread.outcome \in {"none", "error"} \cup
         IF thread.kind = "preview" THEN {"preview", "needs_clarification"}
                                    ELSE {"applied"}
    /\ thread.outcome = "applied" => effects[thread.id] = 1
ThreadsTellTruth == \A thread \in running : OutcomeIsTrue(thread)

AppliedHasEffect == \A id \in Kept : jobs[id].status = "applied" => effects[id] = 1

\* A job says "applied" exactly when its confirmation has applied its directive
\* and no thread is left to say otherwise.
AppliedSays ==
    \A id \in Kept :
      jobs[id].status = "applied" <=>
        effects[id] = 1 /\ \A thread \in running : thread.id # id

SInv == IInv /\ NoJobStranded /\ ThreadsTellTruth /\ AppliedHasEffect

\* An append keeps what waits and adds the new task.
LEMMA Appended ==
  ASSUME TypeOK, NEW new \in Task, tasks' = Append(tasks, new)
  PROVE  Waiting' = Waiting \cup {new}
<1>1. tasks \in Seq(Task)
  BY DEF TypeOK
<1>2. Len(tasks') = Len(tasks) + 1 /\ Len(tasks) \in Nat
  BY <1>1
<1>3. /\ \A i \in 1 .. Len(tasks) : tasks'[i] = tasks[i]
      /\ tasks'[Len(tasks) + 1] = new
  BY <1>1
<1>4. \A i : i \in 1 .. Len(tasks') <=> i \in 1 .. Len(tasks) \/ i = Len(tasks) + 1
  BY <1>2
<1>. QED
  BY <1>3, <1>4 DEF Waiting

\* The head leaves, the others stay.
LEMMA Begun ==
  ASSUME TypeOK, tasks # <<>>, tasks' = Tail(tasks)
  PROVE  Waiting \subseteq Waiting' \cup {Head(tasks)}
<1>1. tasks \in Seq(Task)
  BY DEF TypeOK
<1>2. /\ Len(tasks') = Len(tasks) - 1 /\ Len(tasks) \in Nat /\ Head(tasks) = tasks[1]
      /\ \A i \in 1 .. Len(tasks') : tasks'[i] = tasks[i + 1]
  BY <1>1
<1>3. ASSUME NEW i \in 1 .. Len(tasks), i # 1
      PROVE  i - 1 \in 1 .. Len(tasks') /\ tasks'[i - 1] = tasks[i]
  <2>1. i - 1 \in 1 .. Len(tasks') /\ (i - 1) + 1 = i
    BY <1>2, <1>3
  <2>2. tasks'[i - 1] = tasks[(i - 1) + 1]
    BY <1>2, <2>1
  <2>. QED
    BY <2>1, <2>2
<1>4. ASSUME NEW i \in 1 .. Len(tasks)
      PROVE  tasks[i] \in Waiting' \cup {Head(tasks)}
  BY <1>2, <1>3 DEF Waiting
<1>. QED
  BY <1>4 DEF Waiting

\* A job that a step leaves as it is, and whose task and thread it does not
\* take, moves on.
LEMMA StillMoving ==
  ASSUME NEW id, Moving(id), jobs'[id] = jobs[id], closed => closed',
         closed' \/ \A t \in Waiting : t.id = id => t \in Waiting',
         \A thread \in running : thread.id = id => \E other \in running' :
            other.id = id /\ other.kind = thread.kind
  PROVE  Moving(id)'
  BY DEF Moving, Ahead, Under

LEMMA StrandedStep ==
  ASSUME SInv, [Next]_vars
  PROVE  NoJobStranded'
<1>1. TypeOK /\ TasksHaveJobs /\ Fresh /\ NoJobStranded /\ ThreadsTellTruth
  BY DEF SInv, IInv
<1>2. ASSUME NEW t \in Text, Submit(t) \/ SubmitAndEvict(t) PROVE NoJobStranded'
  <2>1. PICK others \in [Request -> Job \cup {NoJob}] :
          /\ Accept(t, others)
          /\ \A id \in Request : others[id] = jobs[id] \/ others[id] = NoJob
    <3>1. CASE Submit(t)
      BY <1>1, <3>1 DEF Submit, TypeOK
    <3>2. CASE SubmitAndEvict(t)
      <4>1. PICK k \in Request : Accept(t, [jobs EXCEPT ![k] = NoJob])
        BY <3>2 DEF SubmitAndEvict
      <4>. QED
        BY <1>1, <4>1 DEF TypeOK
    <3>. QED
      BY <1>2, <3>1, <3>2
  <2>. DEFINE new == [kind |-> "preview", id |-> accepted + 1]
  <2>2. accepted + 1 \in Request
    BY <1>1, <2>1 DEF Accept, TypeOK, Request
  <2>3. new \in Task
    BY <2>2 DEF Task
  <2>4. Waiting' = Waiting \cup {new} /\ running' = running /\ closed' = closed
    BY <1>1, <2>1, <2>3, Appended DEF Accept
  <2>5. /\ jobs'[accepted + 1] = NewJob(t)
        /\ \A id \in Request : id # accepted + 1 => jobs'[id] = others[id]
    BY <2>1, <2>2 DEF Accept
  <2>6. ASSUME NEW id \in Kept', id = accepted + 1 PROVE Moving(id)'
    <3>1. jobs'[id].status = "queued"
      BY <2>5, <2>6 DEF NewJob
    <3>2. new.id = id /\ new.kind = "preview"
      BY <2>6
    <3>. HIDE DEF new
    <3>. QED
      BY <2>4, <3>1, <3>2 DEF Moving, Ahead
  <2>7. ASSUME NEW id \in Kept', id # accepted + 1 PROVE Moving(id)'
    <3>1. id \in Request /\ jobs'[id] # NoJob
      BY <2>7 DEF Kept
    <3>2. id \in Kept /\ jobs'[id] = jobs[id]
      BY <2>1, <2>5, <2>7, <3>1 DEF Kept
    <3>3. Moving(id)
      BY <1>1, <3>2 DEF NoJobStranded
    <3>. HIDE DEF new
    <3>. QED
      BY <2>4, <3>2, <3>3, StillMoving
  <2>. QED
    BY <2>6, <2>7 DEF NoJobStranded
<1>3. ASSUME NEW id \in Request, Apply(id) PROVE NoJobStranded'
  <2>. DEFINE new == [kind |-> "apply", id |-> id]
  <2>1. new \in Task
    BY DEF Task
  <2>2. Waiting' = Waiting \cup {new} /\ running' = running /\ closed' = closed
    BY <1>1, <1>3, <2>1, Appended DEF Apply
  <2>3. jobs' = [jobs EXCEPT ![id].status = "applying"] /\ jobs[id] \in Job
    BY <1>1, <1>3, JobOf DEF Apply, Record
  <2>4. jobs'[id].status = "applying"
    BY <1>1, <2>3 DEF TypeOK, Job
  <2>5. new.id = id /\ new.kind = "apply"
    OBVIOUS
  <2>. HIDE DEF new
  <2>6. Moving(id)'
    BY <2>2, <2>4, <2>5 DEF Moving, Ahead
  <2>7. ASSUME NEW k \in Kept', k # id PROVE Moving(k)'
    <3>1. k \in Kept /\ jobs'[k] = jobs[k]
      BY <1>1, <2>3, <2>7 DEF Kept, TypeOK
    <3>2. Moving(k)
      BY <1>1, <3>1 DEF NoJobStranded
    <3>. QED
      BY <2>2, <3>1, <3>2, StillMoving
  <2>. QED
    BY <2>6, <2>7 DEF NoJobStranded
<1>4. CASE Close
  <2>1. closed' /\ jobs' = jobs /\ running' = running /\ Kept' = Kept
    BY <1>4 DEF Close, Kept
  <2>. QED
    BY <1>1, <2>1, StillMoving DEF NoJobStranded
<1>5. CASE Begin
  <2>. DEFINE task == Head(tasks)
              thread == [kind |-> task.kind, id |-> task.id, outcome |-> "none"]
  <2>1. /\ task.id \in Request /\ task.id \in Kept /\ tasks # <<>>
        /\ task.kind \in {"preview", "apply"} /\ jobs[task.id] \in Job
    BY <1>1, <1>5, HeadOf, JobOf DEF Begin
  <2>2. jobs[task.id].status = IF task.kind = "preview" THEN "queued" ELSE "applying"
    <3>1. task = tasks[1] /\ 1 \in 1 .. Len(tasks)
      BY <1>1, <2>1, HeadOf DEF TypeOK
    <3>. QED
      BY <1>1, <3>1 DEF TasksHaveJobs, Waiting
  <2>3. Waiting \subseteq Waiting' \cup {task} /\ closed' = closed
    BY <1>1, <1>5, <2>1, Begun DEF Begin
  <2>4. running' = running \cup {thread}
    BY <1>5 DEF Begin
  <2>5. thread.id = task.id /\ thread.kind = task.kind
    OBVIOUS
  <2>6. \A k \in Request : k # task.id => jobs'[k] = jobs[k]
    BY <1>1, <1>5 DEF Begin, Record, TypeOK
  <2>7. jobs'[task.id].status = IF task.kind = "preview" THEN "processing" ELSE "applying"
    BY <1>1, <1>5, <2>1, <2>2 DEF Begin, Record, TypeOK, Job
  <2>. HIDE DEF task, thread
  <2>8. ASSUME NEW k \in Kept', k = task.id PROVE Moving(k)'
    <3>1. jobs'[k].status = IF task.kind = "preview" THEN "processing" ELSE "applying"
      BY <2>7, <2>8
    <3>2. thread \in running' /\ thread.id = k
      BY <2>4, <2>5, <2>8
    <3>. QED
      BY <2>1, <2>5, <3>1, <3>2 DEF Moving, Under
  <2>9. ASSUME NEW k \in Kept', k # task.id PROVE Moving(k)'
    <3>1. k \in Kept /\ jobs'[k] = jobs[k]
      BY <2>6, <2>9 DEF Kept
    <3>2. Moving(k)
      BY <1>1, <3>1 DEF NoJobStranded
    <3>. QED
      BY <2>3, <2>4, <2>9, <3>1, <3>2, StillMoving
  <2>. QED
    BY <2>8, <2>9 DEF NoJobStranded
<1>6. ASSUME NEW thread \in running, Work(thread) PROVE NoJobStranded'
  <2>1. thread.id \in Kept /\ thread.id \in Request /\ thread \in Thread
    BY <1>1, TextOf
  <2>2. closed' = closed /\ Waiting' = Waiting
    BY <1>6 DEF Work, PreviewSaved, PreviewFails, Applies, Rejects, Finish, Waiting
  <2>3. CASE Finish(thread)
    <3>1. jobs' = [jobs EXCEPT ![thread.id].status = thread.outcome]
      BY <2>3 DEF Finish, Recorded, Record
    <3>2. thread.outcome \notin {"queued", "processing", "applying"}
      BY <1>1 DEF ThreadsTellTruth, OutcomeIsTrue
    <3>3. jobs'[thread.id].status = thread.outcome
      BY <1>1, <2>1, <3>1, JobOf DEF TypeOK, Job
    <3>4. Moving(thread.id)'
      BY <3>2, <3>3 DEF Moving
    <3>5. ASSUME NEW k \in Kept', k # thread.id PROVE Moving(k)'
      <4>1. k \in Kept /\ jobs'[k] = jobs[k]
        BY <1>1, <3>1, <3>5 DEF Kept, TypeOK
      <4>2. Moving(k)
        BY <1>1, <4>1 DEF NoJobStranded
      <4>3. running' = running \ {thread}
        BY <2>3 DEF Finish
      <4>. QED
        BY <2>2, <3>5, <4>1, <4>2, <4>3, StillMoving
    <3>. QED
      BY <3>4, <3>5 DEF NoJobStranded
  <2>4. CASE ~ Finish(thread)
    <3>1. PICK status \in JobStatus : Returns(thread, status)
      BY <1>6, <2>4
         DEF Work, PreviewSaved, PreviewFails, Applies, Rejects, JobStatus
    <3>2. UNCHANGED jobs /\ Kept' = Kept
      BY <1>6, <2>4 DEF Work, PreviewSaved, PreviewFails, Applies, Rejects, Kept
    <3>3. \A other \in running : \E x \in running' :
            x.id = other.id /\ x.kind = other.kind
      <4>1. /\ [thread EXCEPT !.outcome = status].id = thread.id
            /\ [thread EXCEPT !.outcome = status].kind = thread.kind
        BY <2>1 DEF Thread
      <4>2. running' = (running \ {thread}) \cup {[thread EXCEPT !.outcome = status]}
        BY <3>1 DEF Returns
      <4>. QED
        BY <4>1, <4>2
    <3>. QED
      BY <1>1, <2>2, <3>2, <3>3, StillMoving DEF NoJobStranded
  <2>. QED
    BY <2>3, <2>4
<1>7. CASE CarrierCycle \/ NewPlan \/ UNCHANGED vars
  <2>1. jobs' = jobs /\ running' = running /\ closed' = closed /\ tasks' = tasks
    BY <1>7 DEF CarrierCycle, NewPlan, vars
  <2>2. Kept' = Kept /\ Waiting' = Waiting
    BY <2>1 DEF Kept, Waiting
  <2>. QED
    BY <1>1, <2>1, <2>2, StillMoving DEF NoJobStranded
<1>. QED
  BY <1>2, <1>3, <1>4, <1>5, <1>6, <1>7 DEF Next

LEMMA TruthStep ==
  ASSUME SInv, [Next]_vars
  PROVE  ThreadsTellTruth'
<1>1. TypeOK /\ TasksHaveJobs /\ AppliedIsSpent /\ ThreadsTellTruth
  BY DEF SInv, IInv
<1>2. CASE Begin
  BY <1>1, <1>2 DEF Begin, ThreadsTellTruth, OutcomeIsTrue
<1>3. ASSUME NEW thread \in running, Work(thread) PROVE ThreadsTellTruth'
  <2>1. thread.id \in Kept /\ thread.id \in Request /\ thread \in Thread
    BY <1>1, TextOf
  <2>2. \A other \in running : other # thread => other.id # thread.id
    BY <1>1 DEF TasksHaveJobs
  <2>3. \A other \in running : other # thread => OutcomeIsTrue(other)'
    <3>1. \A id \in Request : id # thread.id => effects'[id] = effects[id]
      BY <1>1, <1>3 DEF Work, PreviewSaved, PreviewFails, Applies, Rejects, Finish,
                        TypeOK
    <3>2. \A other \in running : other.id \in Request
      BY <1>1 DEF TypeOK, Thread
    <3>. QED
      BY <1>1, <2>2, <3>1, <3>2 DEF ThreadsTellTruth, OutcomeIsTrue
  <2>4. CASE Finish(thread)
    <3>1. running' = running \ {thread}
      BY <2>4 DEF Finish
    <3>. QED
      BY <2>3, <3>1 DEF ThreadsTellTruth
  <2>5. CASE ~ Finish(thread)
    <3>1. PICK status :
            /\ running' = (running \ {thread}) \cup {[thread EXCEPT !.outcome = status]}
            /\ status \in {"error"} \cup
                 IF thread.kind = "preview" THEN {"preview", "needs_clarification"}
                                            ELSE {"applied"}
            /\ status = "applied" => Applies(thread)
      BY <1>3, <2>5
         DEF Work, PreviewSaved, PreviewFails, Applies, Rejects, Returns, Calls
    <3>. DEFINE after == [thread EXCEPT !.outcome = status]
    <3>2. after.id = thread.id /\ after.kind = thread.kind /\ after.outcome = status
      BY <2>1 DEF Thread
    <3>3. status = "applied" => effects'[thread.id] = 1
      <4>. SUFFICES ASSUME status = "applied" PROVE effects'[thread.id] = 1
        OBVIOUS
      <4>1. Applies(thread) /\ thread.outcome = "none"
        BY <3>1 DEF Applies, Calls
      <4>2. jobs[thread.id].status # "applied"
        BY <1>1 DEF TasksHaveJobs
      <4>3. effects[thread.id] = 0
        BY <1>1, <2>1, <2>2, <4>1, <4>2 DEF AppliedIsSpent
      <4>. QED
        BY <1>1, <2>1, <4>1, <4>3 DEF Applies, TypeOK
    <3>. HIDE DEF after
    <3>4. OutcomeIsTrue(after)'
      BY <3>1, <3>2, <3>3 DEF OutcomeIsTrue
    <3>. QED
      BY <2>3, <3>1, <3>4 DEF ThreadsTellTruth, after
  <2>. QED
    BY <2>4, <2>5
<1>4. CASE UNCHANGED <<running, effects>>
  BY <1>1, <1>4 DEF ThreadsTellTruth, OutcomeIsTrue
<1>. QED
  BY <1>2, <1>3, <1>4
     DEF Next, Submit, SubmitAndEvict, Accept, Apply, Close, CarrierCycle,
         NewPlan, vars

LEMMA EffectStep ==
  ASSUME SInv, [Next]_vars
  PROVE  AppliedHasEffect'
<1>1. TypeOK /\ TasksHaveJobs /\ Fresh /\ ThreadsTellTruth /\ AppliedHasEffect
  BY DEF SInv, IInv
<1>2. ASSUME NEW id \in Kept', jobs'[id].status = "applied",
             id \in Kept, jobs'[id] = jobs[id], effects'[id] = effects[id]
      PROVE  effects'[id] = 1
  BY <1>1, <1>2 DEF AppliedHasEffect
<1>3. ASSUME NEW t \in Text, Submit(t) \/ SubmitAndEvict(t) PROVE AppliedHasEffect'
  <2>1. PICK others \in [Request -> Job \cup {NoJob}] :
          /\ Accept(t, others)
          /\ \A id \in Request : others[id] = jobs[id] \/ others[id] = NoJob
    <3>1. CASE Submit(t)
      BY <1>1, <3>1 DEF Submit, TypeOK
    <3>2. CASE SubmitAndEvict(t)
      <4>1. PICK k \in Request : Accept(t, [jobs EXCEPT ![k] = NoJob])
        BY <3>2 DEF SubmitAndEvict
      <4>. QED
        BY <1>1, <4>1 DEF TypeOK
    <3>. QED
      BY <1>3, <3>1, <3>2
  <2>2. accepted + 1 \in Request
    BY <1>1, <2>1 DEF Accept, TypeOK, Request
  <2>3. /\ jobs'[accepted + 1].status = "queued" /\ effects' = effects
        /\ \A id \in Request : id # accepted + 1 => jobs'[id] = others[id]
    BY <2>1, <2>2 DEF Accept, NewJob
  <2>4. ASSUME NEW id \in Kept', jobs'[id].status = "applied" PROVE effects'[id] = 1
    <3>1. id \in Request /\ jobs'[id] # NoJob /\ id # accepted + 1
      BY <2>3, <2>4 DEF Kept
    <3>2. id \in Kept /\ jobs'[id] = jobs[id]
      BY <2>1, <2>3, <3>1 DEF Kept
    <3>. QED
      BY <1>2, <2>3, <2>4, <3>2
  <2>. QED
    BY <2>4 DEF AppliedHasEffect
<1>4. ASSUME NEW k \in Request, NEW status, Record(k, status), k \in Kept,
             UNCHANGED effects, status = "applied" => effects[k] = 1
      PROVE  AppliedHasEffect'
  <2>1. ASSUME NEW id \in Kept', jobs'[id].status = "applied" PROVE effects'[id] = 1
    <3>1. CASE id = k
      <4>1. jobs'[id].status = status
        BY <1>1, <1>4, <3>1, JobOf DEF Record, TypeOK, Job
      <4>. QED
        BY <1>4, <2>1, <3>1, <4>1
    <3>2. CASE id # k
      BY <1>1, <1>2, <1>4, <2>1, <3>2 DEF Record, TypeOK, Kept
    <3>. QED
      BY <3>1, <3>2
  <2>. QED
    BY <2>1 DEF AppliedHasEffect
<1>5. ASSUME NEW id \in Request, Apply(id) PROVE AppliedHasEffect'
  BY <1>4, <1>5 DEF Apply
<1>6. CASE Begin /\ Head(tasks).kind = "preview"
  <2>1. Head(tasks).id \in Kept /\ Head(tasks).id \in Request
    BY <1>1, <1>6, HeadOf DEF Begin
  <2>. QED
    BY <1>4, <1>6, <2>1 DEF Begin
<1>7. ASSUME NEW thread \in running, Finish(thread) PROVE AppliedHasEffect'
  <2>1. thread.id \in Kept /\ thread.id \in Request
    BY <1>1, TextOf
  <2>2. thread.outcome = "applied" => effects[thread.id] = 1
    BY <1>1 DEF ThreadsTellTruth, OutcomeIsTrue
  <2>. QED
    BY <1>4, <1>7, <2>1, <2>2 DEF Finish, Recorded
<1>8. ASSUME NEW thread \in running, Applies(thread) PROVE AppliedHasEffect'
  <2>1. thread.id \in Request /\ jobs[thread.id].status # "applied"
    BY <1>1, TextOf DEF TasksHaveJobs
  <2>2. jobs' = jobs /\ Kept' = Kept
    BY <1>8 DEF Applies, Kept
  <2>3. \A id \in Request : id # thread.id => effects'[id] = effects[id]
    BY <1>1, <1>8 DEF Applies, TypeOK
  <2>. QED
    BY <1>1, <2>1, <2>2, <2>3 DEF AppliedHasEffect, Kept
<1>9. CASE UNCHANGED <<jobs, effects>>
  BY <1>1, <1>9 DEF AppliedHasEffect, Kept
<1>. QED
  BY <1>3, <1>5, <1>6, <1>7, <1>8, <1>9
     DEF Next, Work, Begin, PreviewSaved, PreviewFails, Rejects, Close,
         CarrierCycle, NewPlan, vars

\* The strengthened invariant with the fate of the jobs.
LEMMA FateInvariant == Spec => []SInv
<1>1. Init => SInv
  <2>. SUFFICES ASSUME Init PROVE SInv
    OBVIOUS
  <2>1. Kept = {} /\ running = {}
    BY DEF Init, Kept
  <2>. QED
    BY <2>1, InitOK DEF SInv, NoJobStranded, ThreadsTellTruth, AppliedHasEffect
<1>2. SInv /\ [Next]_vars => SInv'
  BY StepOK, StrandedStep, TruthStep, EffectStep DEF SInv
<1>. HIDE DEF SInv
<1>. QED
  BY <1>1, <1>2, PTL DEF Spec

\* api/hub.py, _run_preview and _run_apply: no job is left behind: while the queue is open, every job not at rest has the task or the thread that will move it on.
THEOREM NothingStranded == Spec => []NoJobStranded
<1>1. SInv => NoJobStranded
  BY DEF SInv
<1>. HIDE DEF SInv, NoJobStranded
<1>. QED
  BY <1>1, FateInvariant, PTL

\* api/hub.py, _run_apply: the operator reads "applied" of a job exactly when its directive has been applied once and its task has ended.
THEOREM AppliedIsSaid == Spec => []AppliedSays
<1>1. SInv => AppliedSays
  <2>. SUFFICES ASSUME SInv, NEW id \in Kept
                PROVE  jobs[id].status = "applied" <=>
                         effects[id] = 1 /\ \A thread \in running : thread.id # id
    BY DEF AppliedSays
  <2>1. TypeOK /\ TasksHaveJobs /\ AppliedIsSpent /\ AppliedHasEffect
        /\ id \in Request
    BY DEF SInv, IInv, Kept
  <2>2. ASSUME jobs[id].status = "applied"
        PROVE  effects[id] = 1 /\ \A thread \in running : thread.id # id
    BY <2>1, <2>2 DEF TasksHaveJobs, AppliedHasEffect
  <2>3. ASSUME effects[id] = 1, \A thread \in running : thread.id # id
        PROVE  jobs[id].status = "applied"
    BY <2>1, <2>3 DEF AppliedIsSpent
  <2>. QED
    BY <2>2, <2>3
<1>. HIDE DEF SInv, AppliedSays
<1>. QED
  BY <1>1, FateInvariant, PTL
=============================================================================
