--------------------------- MODULE MemoryPipeline ---------------------------
(***************************************************************************)
(* From a runtime event to the long-term memory: MemoryWorker              *)
(* (memory/worker.py) over the source reader (memory/source_reader.py),    *)
(* the service's episodes (memory/service.py) and the work, cursor and     *)
(* version tables of LongTermMemoryRepository (persistence/memory.py).     *)
(*                                                                         *)
(* A worker polls: it claims one work item for the time of a lease, or,    *)
(* when there is none, reads the events behind the source cursor, queues   *)
(* an item for every eligible one, merges the tracking transitions into    *)
(* the episode and moves the cursor.  A claimed item is decided by a provider *)
(* and may found a family of memories or supersede its active version.     *)
(* The user may delete a family meanwhile, and maintenance archive it.     *)
(* Every operation of the repository is one transaction; a worker may be   *)
(* interrupted between any two, by a database error or a stop.             *)
(*                                                                         *)
(* Abstractions.  One user and one scenario; runtime events alone (the     *)
(* decisions and the plan are read with cursors of their own); work        *)
(* without a conversation, hence without compression.  Embeddings, scores, *)
(* texts and stream notifications are left out.  The transitions are those *)
(* of one episode, where they can meet; their simulation times are in the  *)
(* order of the log.  A deadline is a flag that time changes.              *)
(***************************************************************************)
EXTENDS Naturals, Sequences, FiniteSets

CONSTANTS
    Worker,         \* worker_ids; the process starts one, the tables admit more
    Kind,           \* the kinds of events published
    BatchLimit,     \* batch_limit
    MaxAttempts,    \* max_attempts
    Rooms,          \* how many ids the episode may still take: 128 at most
    Named,          \* the families that a provider names
    MaxEvents,      \* bound: events
    MaxDisturbances \* bound: interruptions, deletions and archivings together

ASSUME MemoryPipelineAssumption ==
    /\ {BatchLimit, MaxAttempts} \subseteq Nat \ {0}
    /\ Rooms \subseteq Nat
    /\ {MaxEvents, MaxDisturbances} \subseteq Nat
    /\ Named \subseteq 1 .. MaxEvents
    /\ Kind \subseteq [eligible : BOOLEAN, tracking : BOOLEAN]

VARIABLES
    log,         \* the runtime events
    cursor,      \* the source cursor of runtime events
    work,        \* the work item of each event
    memories,    \* the versions of memories
    told,        \* source_event_ids of the episode
    room,        \* how many it may hold
    overlapped,  \* whether two workers were merging into it at once
    worker,      \* what each worker is doing
    interrupts,  \* interruptions of workers
    deletes      \* families deleted and versions archived

episode == <<told, room, overlapped>>
vars == <<log, cursor, work, memories, episode, worker, interrupts, deletes>>

Event == 1 .. MaxEvents

\* An item: due when it waits and its backoff has elapsed, held while its lease
\* runs.
Item == [status : {"none", "pending", "processing", "completed", "degraded"},
         attempts : 0 .. MaxAttempts, by : SUBSET Worker,
         due : BOOLEAN, held : BOOLEAN]
NoItem == [status |-> "none", attempts |-> 0, by |-> {}, due |-> FALSE,
           held |-> FALSE]

\* A family is named after the item that founded it, or by the provider.
Memory == [work : Event, family : Event, version : Nat \ {0},
           status : {"active", "superseded", "archived", "deleted"}]

\* A worker that reads sources has queued those up to next of those up to last,
\* of whose transitions some are left to merge.  One that merges a transition
\* holds the ids it has read; one that creates a version, what it has seen of
\* the last.
Idle     == [at |-> "idle"]
Reading  == [at : {"reading", "merging"}, next : 0 .. MaxEvents,
             last : 0 .. MaxEvents, left : SUBSET Event,
             event : 0 .. MaxEvents, ids : SUBSET Event]
Handling == [at : {"deciding", "completing", "failing"}, item : Event]
Creating == [at : {"creating"}, item : Event, family : Event,
             previous : Nat]

TypeOK ==
    /\ log \in Seq(Kind) /\ Len(log) <= MaxEvents
    /\ cursor \in 0 .. MaxEvents
    /\ work \in [Event -> Item]
    /\ memories \in SUBSET Memory
    /\ told \in SUBSET Event
    /\ room \in Nat
    /\ overlapped \in BOOLEAN
    /\ worker \in [Worker -> {Idle} \cup Reading \cup Handling \cup Creating]
    /\ interrupts \in 0 .. MaxDisturbances
    /\ deletes \in 0 .. MaxDisturbances

(***************************************************************************)
(* Helpers.  An operator whose name begins with Bug is the definition      *)
(* after it with a plausible mistake; no action uses it.                   *)
(***************************************************************************)
Init ==
    /\ log = <<>>
    /\ cursor = 0
    /\ work = [e \in Event |-> NoItem]
    /\ memories = {}
    /\ told = {}
    /\ room \in Rooms
    /\ overlapped = FALSE
    /\ worker = [w \in Worker |-> Idle]
    /\ interrupts = 0
    /\ deletes = 0

Published == 1 .. Len(log)
Later(a, b) == IF a > b THEN a ELSE b

\* What claim_work may take: a pending item, or one whose lease has run out.
Free(item) == \/ item.status = "pending" /\ item.due
              \/ item.status = "processing" /\ ~ item.held

\* ... and what it degrades first.
Spent(item) ==
    /\ item.attempts >= MaxAttempts
    /\ item.status = "pending" \/ (item.status = "processing" /\ ~ item.held)
Swept == [e \in Event |->
            IF Spent(work[e])
            THEN [work[e] EXCEPT !.status = "degraded", !.by = {}, !.held = FALSE]
            ELSE work[e]]

Claimable == {e \in Event : Free(work[e]) /\ work[e].attempts < MaxAttempts}

Holds(w, e) == work[e].status = "processing" /\ work[e].by = {w}

VersionsOf(family) == {m \in memories : m.family = family}
Latest(family) ==
    {m \in VersionsOf(family) : \A n \in VersionsOf(family) : n.version <= m.version}

Goes(w, state) == worker' = [worker EXCEPT ![w] = state]
Round(next, last, left) ==
    [at |-> "reading", next |-> next, last |-> last, left |-> left,
     event |-> 0, ids |-> {}]

(***************************************************************************)
(* Sources                                                                 *)
(***************************************************************************)
Publish(kind) ==
    /\ Len(log) < MaxEvents
    /\ log' = Append(log, kind)
    /\ UNCHANGED <<cursor, work, memories, episode, worker, interrupts, deletes>>

\* The transitions that a round takes to ingest_tracking_events.
BugEligibleOnly(last) ==
    {e \in cursor + 1 .. last : log[e].tracking /\ log[e].eligible}
Transitions(last) == {e \in cursor + 1 .. last : log[e].tracking}

\* A poll that claims nothing and finds the source round due: read_new.
PollSources(w) ==
    /\ worker[w] = Idle /\ Claimable = {}
    /\ work' = Swept
    /\ cursor < Len(log)
    /\ \E last \in Published :
         /\ last > cursor
         /\ last = Len(log) \/ last = cursor + BatchLimit
         /\ last <= cursor + BatchLimit
         /\ Goes(w, Round(cursor, last, Transitions(last)))
    /\ UNCHANGED <<log, cursor, memories, episode, interrupts, deletes>>

\* A poll that finds nothing to do.
PollNothing(w) ==
    /\ worker[w] = Idle /\ Claimable = {}
    /\ work' = Swept
    /\ UNCHANGED <<log, cursor, memories, episode, worker, interrupts, deletes>>

\* enqueue_work_and_advance_cursor: an item that exists leaves the cursor.
BugAcknowledgeBatch(w, e) == Later(cursor, worker[w].last)
Acknowledged(w, e) == Later(cursor, e)

Enqueue(w) ==
    LET e == worker[w].next + 1 IN
    /\ worker[w].at = "reading" /\ worker[w].next < worker[w].last
    /\ Goes(w, [worker[w] EXCEPT !.next = e])
    /\ IF log[e].eligible /\ work[e].status = "none"
       THEN /\ work' = [work EXCEPT ![e].status = "pending", ![e].due = TRUE]
            /\ cursor' = Acknowledged(w, e)
       ELSE UNCHANGED <<work, cursor>>
    /\ UNCHANGED <<log, memories, episode, interrupts, deletes>>

\* For each of them, in the order of simulation time, the episode is read ...
ReadEpisode(w, e) ==
    /\ worker[w].at = "reading" /\ worker[w].next = worker[w].last
    /\ e \in worker[w].left
    /\ \A d \in worker[w].left : e <= d
    /\ Goes(w, [worker[w] EXCEPT !.at = "merging", !.event = e, !.ids = told])
    /\ overlapped' = (overlapped \/ \E v \in Worker : worker[v].at = "merging")
    /\ UNCHANGED <<log, cursor, work, memories, told, room, interrupts, deletes>>

\* ... and, in a transaction of its own, overwritten by what was read of it with
\* the id added; ids past the limit are cut off.
MergeIds(ids, e) == IF Cardinality(ids) < room THEN ids \cup {e} ELSE ids

WriteEpisode(w) ==
    /\ worker[w].at = "merging"
    /\ told' = MergeIds(worker[w].ids, worker[w].event)
    /\ Goes(w, Round(worker[w].next, worker[w].last,
                     worker[w].left \ {worker[w].event}))
    /\ UNCHANGED <<log, cursor, work, memories, room, overlapped, interrupts, deletes>>

AdvanceCursor(w) ==
    /\ worker[w].at = "reading" /\ worker[w].next = worker[w].last
    /\ worker[w].left = {}
    /\ cursor' = Later(cursor, worker[w].last)
    /\ Goes(w, Idle)
    /\ UNCHANGED <<log, work, memories, episode, interrupts, deletes>>

(***************************************************************************)
(* Work                                                                    *)
(***************************************************************************)
Taken(w, item) ==
    [item EXCEPT !.status = "processing", !.attempts = @ + 1, !.by = {w},
                 !.held = TRUE, !.due = FALSE]

Claim(w, e) ==
    /\ worker[w] = Idle
    /\ e \in Claimable
    /\ work' = [Swept EXCEPT ![e] = Taken(w, work[e])]
    /\ Goes(w, [at |-> "deciding", item |-> e])
    /\ UNCHANGED <<log, cursor, memories, episode, interrupts, deletes>>

\* The item already has a memory, or its source is not worth one.
Decline(w) ==
    /\ worker[w].at = "deciding"
    /\ Goes(w, [at |-> "completing", item |-> worker[w].item])
    /\ UNCHANGED <<log, cursor, work, memories, episode, interrupts, deletes>>

\* The provider asks for a new memory, in a family of its own or one it names,
\* or for the update of one that is active now.  An update under the name of
\* another family is refused whatever happens, which ProviderFails covers.
Decide(w) ==
    LET e == worker[w].item IN
    /\ worker[w].at = "deciding"
    /\ \A m \in memories : m.work # e
    /\ \/ \E family \in {e} \cup Named :
            Goes(w, [at |-> "creating", item |-> e, family |-> family,
                     previous |-> 0])
       \/ \E m \in memories :
            /\ m.status = "active"
            /\ Goes(w, [at |-> "creating", item |-> e, family |-> m.family,
                        previous |-> m.version])
    /\ UNCHANGED <<log, cursor, work, memories, episode, interrupts, deletes>>

\* The provider fails, for the decision, the extraction or the embedding.
ProviderFails(w) ==
    /\ worker[w].at = "deciding"
    /\ Goes(w, [at |-> "failing", item |-> worker[w].item])
    /\ UNCHANGED <<log, cursor, work, memories, episode, interrupts, deletes>>

\* create_memory_version: what it asks of the family.
Known(w) == \E m \in memories : m.work = worker[w].item

BugLatestOnly(w, m) == TRUE
StillActive(w, m) == m.status = "active"

Accepted(w) ==
    IF worker[w].previous = 0
    THEN VersionsOf(worker[w].family) = {}
    ELSE \E m \in Latest(worker[w].family) :
           m.version = worker[w].previous /\ StillActive(w, m)

Superseded(m, family) ==
    IF m.family = family /\ m.status = "active"
    THEN [m EXCEPT !.status = "superseded"] ELSE m

NewVersion(w) ==
    [work |-> worker[w].item, family |-> worker[w].family,
     version |-> worker[w].previous + 1, status |-> "active"]

CreateVersion(w) ==
    LET family == worker[w].family IN
    /\ worker[w].at = "creating"
    /\ ~ Known(w) /\ Accepted(w)
    /\ memories' = {Superseded(m, family) : m \in memories} \cup {NewVersion(w)}
    /\ Goes(w, [at |-> "completing", item |-> worker[w].item])
    /\ UNCHANGED <<log, cursor, work, episode, interrupts, deletes>>

\* The version of an earlier attempt is returned instead.
FindVersion(w) ==
    /\ worker[w].at = "creating"
    /\ Known(w)
    /\ Goes(w, [at |-> "completing", item |-> worker[w].item])
    /\ UNCHANGED <<log, cursor, work, memories, episode, interrupts, deletes>>

Conflict(w) ==
    /\ worker[w].at = "creating"
    /\ ~ Known(w) /\ ~ Accepted(w)
    /\ Goes(w, [at |-> "failing", item |-> worker[w].item])
    /\ UNCHANGED <<log, cursor, work, memories, episode, interrupts, deletes>>

\* complete_work; a worker that has lost its lease changes nothing.
Complete(w) ==
    LET e == worker[w].item IN
    /\ worker[w].at = "completing"
    /\ work' = IF Holds(w, e)
               THEN [work EXCEPT ![e].status = "completed", ![e].by = {},
                                 ![e].held = FALSE]
               ELSE work
    /\ Goes(w, Idle)
    /\ UNCHANGED <<log, cursor, memories, episode, interrupts, deletes>>

\* fail_work: a retry after a backoff, unless the attempts are exhausted.
BugFailedStatus(item) == [item EXCEPT !.status = "failed", !.by = {}]
Retried(item) ==
    [item EXCEPT !.status = IF item.attempts >= MaxAttempts THEN "degraded"
                                                           ELSE "pending",
                 !.by = {}, !.held = FALSE, !.due = FALSE]

FailWork(w) ==
    LET e == worker[w].item IN
    /\ worker[w].at = "failing"
    /\ work' = IF Holds(w, e) THEN [work EXCEPT ![e] = Retried(@)] ELSE work
    /\ Goes(w, Idle)
    /\ UNCHANGED <<log, cursor, memories, episode, interrupts, deletes>>

(***************************************************************************)
(* The surroundings                                                        *)
(***************************************************************************)
Disturbances == interrupts + deletes

LeaseExpires(e) ==
    /\ work[e].held
    /\ work' = [work EXCEPT ![e].held = FALSE]
    /\ UNCHANGED <<log, cursor, memories, episode, worker, interrupts, deletes>>

BackoffElapses(e) ==
    /\ work[e].status = "pending" /\ ~ work[e].due
    /\ work' = [work EXCEPT ![e].due = TRUE]
    /\ UNCHANGED <<log, cursor, memories, episode, worker, interrupts, deletes>>

\* mark_deleted: every version of the family.
DeleteFamily(family) ==
    /\ Disturbances < MaxDisturbances
    /\ \E m \in VersionsOf(family) : m.status # "deleted"
    /\ memories' = {IF m.family = family THEN [m EXCEPT !.status = "deleted"]
                                         ELSE m : m \in memories}
    /\ deletes' = deletes + 1
    /\ UNCHANGED <<log, cursor, work, episode, worker, interrupts>>

\* maintain_active
Archive(m) ==
    /\ Disturbances < MaxDisturbances
    /\ m.status = "active"
    /\ memories' = (memories \ {m}) \cup {[m EXCEPT !.status = "archived"]}
    /\ deletes' = deletes + 1
    /\ UNCHANGED <<log, cursor, work, episode, worker, interrupts>>

\* A database error leaves the poll, or the worker stops and starts again.
Interrupt(w) ==
    /\ worker[w] # Idle
    /\ Disturbances < MaxDisturbances
    /\ Goes(w, Idle)
    /\ interrupts' = interrupts + 1
    /\ UNCHANGED <<log, cursor, work, memories, episode, deletes>>

(***************************************************************************)
(* The system                                                              *)
(***************************************************************************)
Handle(w) ==
    \/ Decline(w) \/ Decide(w) \/ ProviderFails(w)
    \/ CreateVersion(w) \/ FindVersion(w) \/ Conflict(w)
    \/ Complete(w) \/ FailWork(w)

Step(w) ==
    \/ PollSources(w) \/ PollNothing(w) \/ Enqueue(w)
    \/ WriteEpisode(w) \/ AdvanceCursor(w)
    \/ \E e \in Event : ReadEpisode(w, e) \/ Claim(w, e)
    \/ Handle(w)

Next ==
    \/ \E kind \in Kind : Publish(kind)
    \/ \E w \in Worker : Step(w) \/ Interrupt(w)
    \/ \E e \in Event : LeaseExpires(e) \/ BackoffElapses(e) \/ DeleteFamily(e)
    \/ \E m \in memories : Archive(m)

Spec == Init /\ [][Next]_vars

\* A worker keeps polling, its provider answers or fails, time passes.
Fairness ==
    /\ \A w \in Worker : WF_vars(Step(w))
    /\ WF_vars(\E e \in Event : LeaseExpires(e) \/ BackoffElapses(e))

FairSpec == Spec /\ Fairness

(***************************************************************************)
(* Properties                                                              *)
(***************************************************************************)
\* However attempts, leases, workers and deletions interleave, an item makes at
\* most one memory; the versions of a family are a chain of which the last alone
\* may be active, and a family the user has deleted never becomes active again.
FamiliesAreChains ==
    /\ \A m, n \in memories : m.work = n.work => m = n
    /\ \A m, n \in memories : m.family = n.family /\ m.version = n.version => m = n
    /\ \A m \in memories :
         /\ m.version > 1 =>
              \E n \in VersionsOf(m.family) : n.version = m.version - 1
         /\ m.status = "active" =>
              \A n \in VersionsOf(m.family) \ {m} :
                n.version < m.version /\ n.status = "superseded"

\* The cursor acknowledges no eligible event that has no durable item, also
\* when workers that read overlapping batches move it.
NothingSkipped ==
    \A e \in Published : e <= cursor /\ log[e].eligible => work[e].status # "none"

\* What may cost the episode a transition: an interrupted round, a second worker
\* that merges at the same time, and the limit on its ids.
MayLose == interrupts > 0 \/ overlapped \/ Cardinality(told) >= room

\* Handled for good: an eligible event is completed or given up, and a tracking
\* transition is in its episode, unless one of the three has happened.
Settled(e) ==
    /\ log[e].eligible => work[e].status \in {"completed", "degraded"}
    /\ log[e].tracking => e \in told \/ MayLose

\* However workers fail, lose their leases and share batches, they catch up with
\* the log, which ends: every event is settled.
EventsSettle == []<>(\A e \in Published : Settled(e))
=============================================================================
