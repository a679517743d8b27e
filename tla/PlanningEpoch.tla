--------------------------- MODULE PlanningEpoch ---------------------------
(***************************************************************************)
(* The planning epoch coordinator of one scenario                          *)
(* (runtime/planning_epoch.py) over its repository                         *)
(* (persistence/planning_epochs.py), together with the two callers that    *)
(* drive it: the carrier loop (cli.py, _prepare_epoch and _finish_epoch)   *)
(* and the commit port, which may persist the terminal result of the       *)
(* running epoch before the loop calls finish.                             *)
(*                                                                         *)
(* An event is a planning trigger.  The coordinator batches every due      *)
(* event of its queue into one epoch, at most one epoch being active, and  *)
(* on the epoch's result consumes the events, schedules them for a retry   *)
(* or dead-letters them.  Every method runs under the coordinator's lock,  *)
(* but finish is a series of database transactions: the result first, then *)
(* one per event.  The process may stop between any two of them, and the   *)
(* next one starts from the database alone.                                *)
(*                                                                         *)
(* Abstractions.  A trigger is named by its event id: the callers give an  *)
(* id one trigger only, so the replacement by a higher priority in request *)
(* is a no-op.  A backoff deadline is kept as the flag "due", which time   *)
(* raises.  The situation and mission payloads of a capture are not kept.  *)
(***************************************************************************)
EXTENDS Naturals, FiniteSets

CONSTANTS
    Event,         \* the ids of planning triggers
    MaxAttempts,   \* length of _RETRY_DELAYS_MS, 3 in the code
    MaxRevision,   \* bound: physics revisions observed by one process
    MaxLives,      \* bound: stops, operator's retries and rounds of releases
    Reconnects     \* whether the loop survives a failure of its provider

ASSUME PlanningEpochAssumption ==
    /\ IsFiniteSet(Event)
    /\ MaxAttempts \in Nat \ {0}
    /\ MaxRevision \in Nat /\ MaxLives \in Nat
    /\ Reconnects \in BOOLEAN

VARIABLES
    \* memory of the process
    mode,        \* "open", "finishing" (inside finish) or "down"
    latest,      \* _latest: the revision last observed, 0 when there is none
    queue,       \* keys of _events
    retries,     \* _retries
    deadLetter,  \* _dead_letter
    reserved,    \* _reserved_epoch_id
    running,     \* _running_epoch_id
    unsettled,   \* events of the finishing epoch still to be settled
    \* memory of the carrier loop
    seen,        \* _epoch_seen_event_ids
    toRetry,     \* _llm_retry_event_ids
    toRelease,   \* those of them the next cycle has still to release
    \* the database
    epochs,      \* planning_epochs: status of every row
    results,     \* planning_epoch_results
    dbRetries,   \* planning_event_retries
    \* bounds: what may have events planned again
    stops,       \* crashes and closes
    forced,      \* retries of the operator
    releases     \* rounds of retries of the loop

loop     == <<seen, toRetry, toRelease>>
memory   == <<mode, latest, queue, retries, deadLetter, reserved, running,
              unsettled, loop>>
database == <<epochs, results, dbRetries>>
bounds   == <<stops, forced, releases>>
vars     == <<memory, database, bounds>>

Lives == stops + forced + releases

(***************************************************************************)
(* Values                                                                  *)
(***************************************************************************)
EpochId == [rev : Nat, events : SUBSET Event, attempt : Nat]
NoEpoch == [rev |-> 0, events |-> {}, attempt |-> 0]

\* Terminal results by what finish does with them: an invalidated epoch is
\* "superseded" when its reason holds a superseding code, "stale" otherwise,
\* and a failed one is "transient" for a timeout or a provider failure.
Outcome == {"committed", "rejected", "superseded",
            "stale", "transient", "permanent"}
Retried == {"stale", "transient", "permanent"}

\* Results the loop builds itself, and those the commit port persists.
BugNotTerminal == {"rejected", "transient", "running"}
LoopOutcome == {"rejected", "transient", "permanent"}
PortOutcome == {"committed", "superseded", "stale", "permanent"}

EpochStatus == {"queued", "running"} \cup Outcome

\* A retry row.  "trigger" says whether its payload holds the event's trigger,
\* that is whether retry_event can rebuild it.
RetryItem == [attempt : Nat, due : BOOLEAN,
              status : {"none", "retry_wait", "dead_letter"},
              trigger : BOOLEAN]
NoRetry == [attempt |-> 0, due |-> TRUE, status |-> "none", trigger |-> FALSE]

TypeOK ==
    /\ mode \in {"open", "finishing", "down"}
    /\ latest \in Nat
    /\ queue \in SUBSET Event
    /\ retries \in [Event -> RetryItem]
    /\ deadLetter \in SUBSET Event
    /\ reserved \in EpochId
    /\ running \in EpochId
    /\ unsettled \in SUBSET Event
    /\ seen \in SUBSET Event
    /\ toRetry \in SUBSET Event /\ toRelease \in SUBSET Event
    /\ DOMAIN epochs \subseteq EpochId
    /\ epochs \in [DOMAIN epochs -> EpochStatus]
    /\ DOMAIN results \subseteq EpochId
    /\ results \in [DOMAIN results -> Outcome]
    /\ dbRetries \in [Event -> RetryItem]
    /\ stops \in Nat /\ forced \in Nat /\ releases \in Nat

(***************************************************************************)
(* Helpers.  An operator whose name begins with Bug is the helper after it *)
(* with a plausible mistake; no action uses it.                            *)
(***************************************************************************)
Put(f, k, v) == [x \in DOMAIN f \cup {k} |-> IF x = k THEN v ELSE f[x]]

DeadIn(items) == {e \in Event : items[e].status = "dead_letter"}

Idle == reserved = NoEpoch /\ running = NoEpoch

\* The events next_epoch takes: not dead-lettered and not in a backoff.
BugFirstAttemptOnly == {e \in queue : retries[e].status = "none"}
Eligible == {e \in queue : e \notin deadLetter /\ retries[e].due}

\* The queue once an event is popped from it.
BugClear(e) == {}
BugKeep(e) == queue
Pop(e) == queue \ {e}

\* Whether the payload of e's retry row holds its trigger: the row is built
\* from the queue, before the event is popped.
BugPayloadAfterPop(e) == e \in Pop(e)
Payload(e) == e \in queue

\* A failure that no automatic retry follows.
BugOneMore(e) == results[running] = "permanent" \/ retries[e].attempt >= MaxAttempts
Exhausted(e) ==
    results[running] = "permanent" \/ retries[e].attempt + 1 >= MaxAttempts

\* One retry row, in memory and in the database.
BugDeleteInMemory(e, item) ==
    /\ retries' = [retries EXCEPT ![e] = item]
    /\ dbRetries' = IF item = NoRetry THEN dbRetries
                    ELSE [dbRetries EXCEPT ![e] = item]
SaveRetry(e, item) ==
    /\ retries' = [retries EXCEPT ![e] = item]
    /\ dbRetries' = [dbRetries EXCEPT ![e] = item]

\* The result finish settles the running epoch with: one that is already
\* persisted wins over the one the loop brings.
BugLastWins(o) == o
Terminal(o) == IF running \in DOMAIN results THEN results[running] ELSE o

\* The retry rows a new process starts from.
BugWaitingOnly ==
    [e \in Event |-> IF e \in DeadIn(dbRetries) THEN NoRetry ELSE dbRetries[e]]
Loaded == dbRetries

(***************************************************************************)
(* Operations of the coordinator                                           *)
(***************************************************************************)
Init ==
    /\ mode = "open"
    /\ latest = 0
    /\ queue = {}
    /\ retries = [e \in Event |-> NoRetry]
    /\ deadLetter = {}
    /\ reserved = NoEpoch
    /\ running = NoEpoch
    /\ unsettled = {}
    /\ seen = {} /\ toRetry = {} /\ toRelease = {}
    /\ epochs = << >>
    /\ results = << >>
    /\ dbRetries = [e \in Event |-> NoRetry]
    /\ stops = 0 /\ forced = 0 /\ releases = 0

\* A new physics frame; the simulation's step index never goes back.
Observe(r) ==
    /\ mode = "open"
    /\ r >= latest
    /\ latest' = r
    /\ UNCHANGED <<mode, queue, retries, deadLetter, reserved, running,
                   unsettled, loop, database, bounds>>

\* The loop hands an event over the first time it sees it; a dead-lettered
\* event is refused, yet remembered as seen.
Request(e) ==
    /\ mode = "open"
    /\ e \notin seen
    /\ seen' = seen \cup {e}
    /\ queue' = IF e \in deadLetter THEN queue ELSE queue \cup {e}
    /\ UNCHANGED <<mode, latest, retries, deadLetter, reserved, running,
                   unsettled, toRetry, toRelease, database, bounds>>

\* The operator's retry of a dead-lettered event.
RetryEvent(e) ==
    /\ mode = "open"
    /\ Lives < MaxLives
    /\ e \in deadLetter
    /\ retries[e].trigger
    /\ deadLetter' = deadLetter \ {e}
    /\ queue' = queue \cup {e}
    /\ SaveRetry(e, [retries[e] EXCEPT !.due = TRUE, !.status = "retry_wait"])
    /\ forced' = forced + 1
    /\ UNCHANGED <<mode, latest, reserved, running, unsettled, loop, epochs,
                   results, stops, releases>>

\* force_retry_event, and the loop forgets that it has seen the event: it skips
\* a backoff and empties the dead letter.  An event without a retry row gets one
\* whose payload is its id alone.
Rebuilds(e) == e \in queue \/ retries[e].trigger
ForceRetry(e) ==
    /\ Rebuilds(e)
    /\ queue' = queue \cup {e}
    /\ deadLetter' = deadLetter \ {e}
    /\ SaveRetry(e, [retries[e] EXCEPT !.due = TRUE, !.status = "retry_wait"])
    /\ seen' = seen \ {e}

\* The operator's retry of the triggers of a bootstrap epoch that did not
\* commit.  It starts the next cycle itself, without the loop's release.
ForceRetryEvent(e) ==
    /\ mode = "open"
    /\ Lives < MaxLives
    /\ \E id \in DOMAIN results : e \in id.events /\ results[id] # "committed"
    /\ ForceRetry(e)
    /\ toRelease' \in {toRelease, {}}
    /\ forced' = forced + 1
    /\ UNCHANGED <<mode, latest, reserved, running, unsettled, toRetry, epochs,
                   results, stops, releases>>

\* The loop's own retry, before each cycle it starts, of the triggers of the
\* epochs its provider has failed; one that cannot be rebuilt is given up.
ReleaseEvent(e) ==
    /\ mode = "open"
    /\ Idle
    /\ e \in toRelease
    /\ ForceRetry(e)
    /\ toRelease' = toRelease \ {e}
    /\ UNCHANGED <<mode, latest, reserved, running, unsettled, toRetry, epochs,
                   results, bounds>>

ReleaseRefused(e) ==
    /\ mode = "open"
    /\ Idle
    /\ e \in toRelease
    /\ ~ Rebuilds(e)
    /\ toRetry' = toRetry \ {e}
    /\ toRelease' = toRelease \ {e}
    /\ UNCHANGED <<mode, latest, queue, retries, deadLetter, reserved, running,
                   unsettled, seen, database, bounds>>

\* The wall clock reaches the deadline of a backoff, while the process runs
\* or while it is down; the deadline is the same in memory and on disk.
BackoffElapses(e) ==
    /\ mode # "finishing"
    /\ dbRetries[e].status = "retry_wait"
    /\ ~ dbRetries[e].due
    /\ retries' = IF mode = "open" THEN [retries EXCEPT ![e].due = TRUE]
                                   ELSE retries
    /\ dbRetries' = [dbRetries EXCEPT ![e].due = TRUE]
    /\ UNCHANGED <<mode, latest, queue, deadLetter, reserved, running,
                   unsettled, loop, epochs, results, bounds>>

\* next_epoch: every due event in one epoch.  Its id is made of the revision,
\* the events and the attempt, one above the most any of them has used.
\* create accepts an existing row only when its payload, status included, is
\* the same: one left queued by a stopped process.  It raises otherwise and
\* nothing changes.
NextId(e) == [rev |-> latest, events |-> Eligible,
              attempt |-> retries[e].attempt + 1]
MostTried(e) == e \in Eligible
                /\ \A f \in Eligible : retries[f].attempt <= retries[e].attempt
IdTaken(e) == NextId(e) \in DOMAIN epochs /\ epochs[NextId(e)] # "queued"

NextEpoch(e) ==
    /\ mode = "open"
    /\ Idle
    /\ toRelease = {}
    /\ latest > 0
    /\ MostTried(e)
    /\ ~ IdTaken(e)
    /\ epochs' = Put(epochs, NextId(e), "queued")
    /\ reserved' = NextId(e)
    /\ UNCHANGED <<mode, latest, queue, retries, deadLetter, running,
                   unsettled, loop, results, dbRetries, bounds>>

MarkRunning ==
    /\ mode = "open"
    /\ reserved # NoEpoch
    /\ running = NoEpoch
    /\ epochs[reserved] \notin Outcome
    /\ epochs' = [epochs EXCEPT ![reserved] = "running"]
    /\ running' = reserved
    /\ UNCHANGED <<mode, latest, queue, retries, deadLetter, reserved,
                   unsettled, loop, results, dbRetries, bounds>>

\* The commit port persists a terminal result (one transaction).
BugResultWithoutStatus(o) ==
    /\ mode = "open"
    /\ running # NoEpoch
    /\ running \notin DOMAIN results
    /\ results' = Put(results, running, o)
    /\ UNCHANGED <<memory, epochs, dbRetries, bounds>>
PortPersists(o) ==
    /\ mode = "open"
    /\ running # NoEpoch
    /\ running \notin DOMAIN results
    /\ results' = Put(results, running, o)
    /\ epochs' = [epochs EXCEPT ![running] = o]
    /\ UNCHANGED <<memory, dbRetries, bounds>>

\* What the loop will release: _mark_llm_failure adds the triggers of an epoch
\* that a provider error has ended, mark_llm_recovered forgets all of them once
\* an epoch's result is applied, and after any other error they stay.
AfterCycle(o) ==
    IF ~ Reconnects THEN {{}}
    ELSE (IF o # "permanent" THEN {toRetry \cup running.events} ELSE {})
         \cup (IF o # "transient" THEN {toRetry, {}} ELSE {})

\* finish, first transaction; the loop notes right after it what it will retry.
FinishPersists(o) ==
    /\ mode = "open"
    /\ running # NoEpoch
    /\ toRetry' \in AfterCycle(o)
    /\ \/ toRetry' = {} /\ releases' = releases
       \/ toRetry' # {} /\ Lives < MaxLives /\ releases' = releases + 1
    /\ results' = Put(results, running, Terminal(o))
    /\ epochs' = [epochs EXCEPT ![running] = Terminal(o)]
    /\ mode' = "finishing"
    /\ unsettled' = running.events
    /\ UNCHANGED <<latest, queue, retries, deadLetter, reserved, running,
                   seen, toRelease, dbRetries, stops, forced>>

\* finish, one transaction per event: the event is consumed ...
Consume(e) ==
    /\ mode = "finishing"
    /\ e \in unsettled
    /\ results[running] \notin Retried
    /\ queue' = Pop(e)
    /\ SaveRetry(e, NoRetry)
    /\ unsettled' = unsettled \ {e}
    /\ UNCHANGED <<mode, latest, deadLetter, reserved, running, loop, epochs,
                   results, bounds>>

\* ... or scheduled for a retry after a backoff ...
Reschedule(e) ==
    /\ mode = "finishing"
    /\ e \in unsettled
    /\ results[running] \in Retried
    /\ ~ Exhausted(e)
    /\ SaveRetry(e, [attempt |-> retries[e].attempt + 1, due |-> FALSE,
                     status |-> "retry_wait", trigger |-> Payload(e)])
    /\ unsettled' = unsettled \ {e}
    /\ UNCHANGED <<mode, latest, queue, deadLetter, reserved, running, loop,
                   epochs, results, bounds>>

\* ... or dead-lettered.
DeadLetterEvent(e) ==
    /\ mode = "finishing"
    /\ e \in unsettled
    /\ results[running] \in Retried
    /\ Exhausted(e)
    /\ SaveRetry(e, [attempt |-> retries[e].attempt + 1, due |-> FALSE,
                     status |-> "dead_letter", trigger |-> Payload(e)])
    /\ deadLetter' = deadLetter \cup {e}
    /\ queue' = Pop(e)
    /\ unsettled' = unsettled \ {e}
    /\ UNCHANGED <<mode, latest, reserved, running, loop, epochs, results,
                   bounds>>

FinishReturns ==
    /\ mode = "finishing"
    /\ unsettled = {}
    /\ mode' = "open"
    /\ reserved' = NoEpoch
    /\ running' = NoEpoch
    /\ toRelease' = toRetry
    /\ UNCHANGED <<latest, queue, retries, deadLetter, unsettled, seen, toRetry,
                   database, bounds>>

\* A crash, at any point, or close, between two calls: memory is lost.
Stop ==
    /\ mode # "down"
    /\ Lives < MaxLives
    /\ mode' = "down"
    /\ latest' = 0
    /\ queue' = {}
    /\ retries' = [e \in Event |-> NoRetry]
    /\ deadLetter' = {}
    /\ reserved' = NoEpoch
    /\ running' = NoEpoch
    /\ unsettled' = {}
    /\ seen' = {} /\ toRetry' = {} /\ toRelease' = {}
    /\ stops' = stops + 1
    /\ UNCHANGED <<database, forced, releases>>

\* The constructor reads the retry rows back.
Start ==
    /\ mode = "down"
    /\ mode' = "open"
    /\ retries' = Loaded
    /\ deadLetter' = DeadIn(Loaded)
    /\ UNCHANGED <<latest, queue, reserved, running, unsettled, loop,
                   database, bounds>>

SettleEvent(e) == Consume(e) \/ Reschedule(e) \/ DeadLetterEvent(e)

Next ==
    \/ \E r \in 1 .. MaxRevision : Observe(r)
    \/ \E e \in Event :
          \/ Request(e)
          \/ RetryEvent(e)
          \/ ForceRetryEvent(e)
          \/ ReleaseEvent(e) \/ ReleaseRefused(e)
          \/ BackoffElapses(e)
          \/ NextEpoch(e)
          \/ SettleEvent(e)
    \/ MarkRunning
    \/ \E o \in PortOutcome : PortPersists(o)
    \/ \E o \in LoopOutcome : FinishPersists(o)
    \/ FinishReturns
    \/ Stop
    \/ Start

Spec == Init /\ [][Next]_vars

\* The carrier worker keeps preparing and finishing epochs on new frames, and
\* time passes.  Nothing obliges the operator, the commit port, a new event
\* or a stop.
Fairness ==
    /\ WF_vars(Start)
    /\ WF_vars(Observe(MaxRevision))
    /\ WF_vars(\E e \in Event : NextEpoch(e))
    /\ WF_vars(MarkRunning)
    /\ WF_vars(\E o \in LoopOutcome : FinishPersists(o))
    /\ \A e \in Event : /\ WF_vars(ReleaseEvent(e) \/ ReleaseRefused(e))
                        /\ WF_vars(SettleEvent(e)) /\ WF_vars(BackoffElapses(e))
    /\ WF_vars(FinishReturns)

FairSpec == Spec /\ Fairness

-----------------------------------------------------------------------------
(***************************************************************************)
(* Properties                                                              *)
(***************************************************************************)
\* The events of the active epoch that finish has not settled yet.
InFlight ==
    IF reserved = NoEpoch THEN {}
    ELSE IF mode = "finishing" THEN unsettled ELSE reserved.events

\* While an epoch runs its triggers stay queued and none is dead-lettered:
\* requests, retries by the operator and frames that arrive meanwhile must
\* not take an event away from under the epoch that finish will settle.
InFlightStaysQueued == InFlight \subseteq queue \ deadLetter

\* A dead-lettered event can always be retried: its stored payload still
\* holds the trigger, through every retry, stop and explicit release before.
DeadLetterRetryable ==
    \A e \in DeadIn(dbRetries) : dbRetries[e].trigger

\* Memory agrees with the database on the retry state of every event, between
\* any two transactions of finish, so that a stop there loses no count that
\* the process had already acted upon.
RetryStateDurable ==
    mode # "down" => retries = dbRetries /\ deadLetter = DeadIn(dbRetries)

\* Whoever persists first decides: the one result of an epoch and the status of
\* its row never differ or change again, whatever the loop, the commit port and
\* later processes persist for it.
ResultsAreFinal ==
    [][\A id \in DOMAIN results :
          /\ id \in DOMAIN results'
          /\ results'[id] = results[id]
          /\ epochs'[id] = results[id]]_vars

\* Each event is planned into at most one committed epoch in the life of a
\* process; only a new process, which sees its events afresh, or a forced retry,
\* the operator's or the loop's own, after which the loop sees the event afresh,
\* may do it again.
CommittedOnce ==
    \A e \in Event :
        Cardinality({id \in DOMAIN results :
                        e \in id.events /\ results[id] = "committed"})
            <= Lives + 1

\* No stop, start or new request takes an event out of the dead letter: only the
\* operator does, and the loop that survives its provider's failures, for an
\* event whose epoch has failed so in this very process.  A restart does not
\* reset the ceiling of any event, the loop itself that of its provider's.
DeadLetterIsSticky ==
    [][\A e \in DeadIn(dbRetries) :
          e \notin DeadIn(dbRetries') =>
              \/ forced' > forced
              \/ Reconnects /\ e \in toRetry]_vars

\* The coordinator keeps the promises of TriggerLedger: an event belongs to one
\* batch at a time, each batch is settled exactly once, and the budget of
\* automatic retries holds across stops.
Ledger == INSTANCE TriggerLedger WITH
    phase <- [e \in Event |->
                 IF e \in DeadIn(dbRetries) THEN "dead"
                 ELSE IF e \in InFlight THEN "claimed"
                 ELSE IF e \in queue THEN "pending"
                 ELSE "absent"],
    tries <- [e \in Event |-> dbRetries[e].attempt]

KeepsLedger == Ledger!LedgerSpec

\* The id of the next epoch is taken and the bound leaves no further revision
\* to make another one of.
IdsUsedUp == /\ latest = MaxRevision
             /\ \E f \in Event : MostTried(f) /\ IdTaken(f)

\* A queued trigger leaves the queue, consumed or dead-lettered, however its
\* attempts fail, or the bound on revisions has used up the ids of its epochs.
TriggersSettle ==
    \A e \in Event : e \in queue ~> e \notin queue \/ IdsUsedUp
=============================================================================
