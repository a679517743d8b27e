------------------------ MODULE PlanningEpochProofs ------------------------
(***************************************************************************)
(* Proofs about PlanningEpoch, for any set of events, any ceiling and any  *)
(* number of stops, revisions and retries, whoever forces them.            *)
(*                                                                         *)
(* Type correctness alone is not inductive for the properties that matter: *)
(* that a settled event is not a dead-lettered one, and that its payload   *)
(* holds its trigger, both rest on InFlightStaysQueued, which in turn      *)
(* rests on the shape of the active epoch (ActiveWellFormed).              *)
(***************************************************************************)
EXTENDS PlanningEpoch, TLAPS

\* The active epoch: running is the reserved one, its row exists, and finish
\* settles it only after its result is persisted.
ActiveWellFormed ==
    /\ running # NoEpoch => running = reserved
    /\ reserved # NoEpoch => reserved \in DOMAIN epochs /\ reserved.rev > 0
    /\ mode = "finishing" => running # NoEpoch /\ running \in DOMAIN results
    /\ mode # "finishing" => unsettled = {}
    /\ mode = "down" => reserved = NoEpoch

\* The status of an epoch is its result, once it has one.
StatusMatchesResult ==
    \A id \in DOMAIN epochs :
        IF id \in DOMAIN results THEN epochs[id] = results[id]
        ELSE epochs[id] \notin Outcome

ResultsHaveEpochs == DOMAIN results \subseteq DOMAIN epochs

IInv ==
    /\ TypeOK
    /\ ActiveWellFormed
    /\ ResultsHaveEpochs
    /\ InFlightStaysQueued
    /\ RetryStateDurable
    /\ DeadLetterRetryable
    /\ StatusMatchesResult

-----------------------------------------------------------------------------
\* Put keeps a function within its types.
LEMMA PutType ==
    ASSUME NEW D, NEW R, NEW f, DOMAIN f \subseteq D, f \in [DOMAIN f -> R],
           NEW k \in D, NEW v \in R
    PROVE  /\ DOMAIN Put(f, k, v) \subseteq D
           /\ Put(f, k, v) \in [DOMAIN Put(f, k, v) -> R]
  BY DEF Put

\* What SaveRetry does to the set of dead-lettered events of the database.
LEMMA SaveRetryFact ==
    ASSUME NEW e \in Event, NEW item \in RetryItem, TypeOK, SaveRetry(e, item)
    PROVE  /\ retries' \in [Event -> RetryItem]
           /\ dbRetries' \in [Event -> RetryItem]
           /\ dbRetries'[e] = item
           /\ \A f \in Event : f # e => dbRetries'[f] = dbRetries[f]
           /\ retries = dbRetries => retries' = dbRetries'
           /\ item.status = "dead_letter"
                => DeadIn(dbRetries') = DeadIn(dbRetries) \cup {e}
           /\ item.status # "dead_letter"
                => DeadIn(dbRetries') = DeadIn(dbRetries) \ {e}
  BY DEF SaveRetry, TypeOK, DeadIn

\* The retry row that a retry writes.
LEMMA ReleasedItem ==
    ASSUME TypeOK, NEW e \in Event
    PROVE  LET item == [retries[e] EXCEPT !.due = TRUE, !.status = "retry_wait"]
           IN  item \in RetryItem /\ item.status # "dead_letter"
  BY DEF TypeOK, RetryItem

-----------------------------------------------------------------------------
\* The database and the queue start empty.
LEMMA InitIInv == Init => IInv
  <1> SUFFICES ASSUME Init PROVE IInv
    OBVIOUS
  <1> USE DEF Init
  <1>1. NoRetry \in RetryItem /\ NoEpoch \in EpochId
    BY DEF NoRetry, RetryItem, NoEpoch, EpochId
  <1>2. DOMAIN << >> = {}
    OBVIOUS
  <1>3. TypeOK
    BY <1>1, <1>2 DEF TypeOK
  <1>4. ActiveWellFormed /\ ResultsHaveEpochs /\ InFlightStaysQueued
    BY <1>2 DEF ActiveWellFormed, ResultsHaveEpochs, InFlightStaysQueued, InFlight
  <1>5. RetryStateDurable /\ DeadLetterRetryable
    BY DEF RetryStateDurable, DeadLetterRetryable, DeadIn, NoRetry
  <1>6. StatusMatchesResult
    BY <1>2 DEF StatusMatchesResult
  <1> QED
    BY <1>3, <1>4, <1>5, <1>6 DEF IInv

-----------------------------------------------------------------------------
\* Every step keeps the types.
LEMMA NextTypeOK == IInv /\ [Next]_vars => TypeOK'
  <1> SUFFICES ASSUME IInv, [Next]_vars PROVE TypeOK'
    OBVIOUS
  <1> USE PlanningEpochAssumption DEF IInv, TypeOK, loop, bounds
  <1>0. NoRetry \in RetryItem /\ NoEpoch \in EpochId
    BY DEF NoRetry, RetryItem, NoEpoch, EpochId
  <1>1. ASSUME NEW r \in 1 .. MaxRevision, Observe(r) PROVE TypeOK'
    BY <1>1 DEF Observe, database
  <1>2. ASSUME NEW e \in Event, Request(e) PROVE TypeOK'
    BY <1>2 DEF Request, database
  <1>3. ASSUME NEW e \in Event, RetryEvent(e) PROVE TypeOK'
    <2>1. [retries[e] EXCEPT !.due = TRUE, !.status = "retry_wait"] \in RetryItem
      BY ReleasedItem
    <2> QED
      BY <1>3, <2>1, SaveRetryFact DEF RetryEvent
  <1>4. ASSUME NEW e \in Event, ForceRetryEvent(e) \/ ReleaseEvent(e) PROVE TypeOK'
    <2>1. [retries[e] EXCEPT !.due = TRUE, !.status = "retry_wait"] \in RetryItem
      BY ReleasedItem
    <2> QED
      BY <1>4, <2>1, SaveRetryFact DEF ForceRetryEvent, ReleaseEvent, ForceRetry
  <1>5. ASSUME NEW e \in Event, BackoffElapses(e) PROVE TypeOK'
    BY <1>5 DEF BackoffElapses, RetryItem
  <1>6. ASSUME NEW e \in Event, NextEpoch(e) PROVE TypeOK'
    <2> DEFINE id == NextId(e)
    <2>1. id \in EpochId
      BY DEF NextId, EpochId, RetryItem, Eligible
    <2>2. epochs' = Put(epochs, id, "queued") /\ reserved' = id
      BY <1>6 DEF NextEpoch
    <2>3. "queued" \in EpochStatus
      BY DEF EpochStatus
    <2> HIDE DEF id
    <2>4. DOMAIN epochs' \subseteq EpochId /\ epochs' \in [DOMAIN epochs' -> EpochStatus]
      BY <2>1, <2>2, <2>3, PutType
    <2> QED
      BY <1>6, <2>1, <2>2, <2>4 DEF NextEpoch
  <1>7. ASSUME NEW e \in Event, SettleEvent(e) PROVE TypeOK'
    <2>1. CASE Consume(e)
      BY <2>1, <1>0, SaveRetryFact DEF Consume, Pop
    <2>2. CASE Reschedule(e)
      <3>1. [attempt |-> retries[e].attempt + 1, due |-> FALSE,
             status |-> "retry_wait", trigger |-> Payload(e)] \in RetryItem
        BY DEF RetryItem, Payload
      <3> QED
        BY <2>2, <3>1, SaveRetryFact DEF Reschedule
    <2>3. CASE DeadLetterEvent(e)
      <3>1. [attempt |-> retries[e].attempt + 1, due |-> FALSE,
             status |-> "dead_letter", trigger |-> Payload(e)] \in RetryItem
        BY DEF RetryItem, Payload
      <3> QED
        BY <2>3, <3>1, SaveRetryFact DEF DeadLetterEvent, Pop
    <2> QED
      BY <1>7, <2>1, <2>2, <2>3 DEF SettleEvent
  <1>8. ASSUME MarkRunning PROVE TypeOK'
    BY <1>8 DEF MarkRunning, EpochStatus
  <1>9. ASSUME NEW o \in PortOutcome, PortPersists(o) PROVE TypeOK'
    <2>1. o \in Outcome /\ o \in EpochStatus
      BY DEF PortOutcome, Outcome, EpochStatus
    <2>2. DOMAIN results' \subseteq EpochId /\ results' \in [DOMAIN results' -> Outcome]
      BY <1>9, <2>1, PutType DEF PortPersists
    <2> QED
      BY <1>9, <2>1, <2>2 DEF PortPersists, memory
  <1>10. ASSUME NEW o \in LoopOutcome, FinishPersists(o) PROVE TypeOK'
    <2>1. Terminal(o) \in Outcome /\ Terminal(o) \in EpochStatus
      BY DEF Terminal, LoopOutcome, Outcome, EpochStatus
    <2>2. DOMAIN results' \subseteq EpochId /\ results' \in [DOMAIN results' -> Outcome]
      BY <1>10, <2>1, PutType DEF FinishPersists
    <2>3. running.events \in SUBSET Event
      BY DEF EpochId
    <2>4. toRetry' \in SUBSET Event
      BY <1>10, <2>3 DEF FinishPersists, AfterCycle
    <2>5. DOMAIN epochs' \subseteq EpochId /\ epochs' \in [DOMAIN epochs' -> EpochStatus]
      BY <1>10, <2>1 DEF FinishPersists
    <2>6. releases' \in Nat
      BY <1>10 DEF FinishPersists
    <2> QED
      BY <1>10, <2>2, <2>3, <2>4, <2>5, <2>6 DEF FinishPersists
  <1>11. ASSUME FinishReturns PROVE TypeOK'
    BY <1>11, <1>0 DEF FinishReturns, database
  <1>12. ASSUME Stop PROVE TypeOK'
    BY <1>12, <1>0 DEF Stop, database
  <1>13. ASSUME Start PROVE TypeOK'
    BY <1>13 DEF Start, database, Loaded, DeadIn
  <1>14. ASSUME NEW e \in Event, ReleaseRefused(e) PROVE TypeOK'
    BY <1>14 DEF ReleaseRefused, database
  <1>15. CASE UNCHANGED vars
    BY <1>15 DEF vars, memory, database
  <1> QED
    BY <1>1, <1>2, <1>3, <1>4, <1>5, <1>6, <1>7, <1>8, <1>9, <1>10, <1>11,
       <1>12, <1>13, <1>14, <1>15 DEF Next

-----------------------------------------------------------------------------
\* Every step keeps the shape of the active epoch.
LEMMA NextActiveWellFormed ==
    IInv /\ [Next]_vars => ActiveWellFormed' /\ ResultsHaveEpochs'
  <1> SUFFICES ASSUME IInv, [Next]_vars
               PROVE  ActiveWellFormed' /\ ResultsHaveEpochs'
    OBVIOUS
  <1> USE DEF ActiveWellFormed, ResultsHaveEpochs
  <1>0. TypeOK /\ ActiveWellFormed /\ ResultsHaveEpochs
    BY DEF IInv
  <1>1. ASSUME NEW r \in 1 .. MaxRevision, Observe(r)
        PROVE  ActiveWellFormed' /\ ResultsHaveEpochs'
    BY <1>0, <1>1 DEF Observe, database
  <1>2. ASSUME NEW e \in Event,
               \/ Request(e) \/ RetryEvent(e) \/ ForceRetryEvent(e)
               \/ ReleaseEvent(e) \/ ReleaseRefused(e) \/ BackoffElapses(e)
        PROVE  ActiveWellFormed' /\ ResultsHaveEpochs'
    BY <1>0, <1>2 DEF Request, RetryEvent, ForceRetryEvent, ReleaseEvent,
                      ReleaseRefused, ForceRetry, BackoffElapses, database
  <1>3. ASSUME NEW e \in Event, NextEpoch(e)
        PROVE  ActiveWellFormed' /\ ResultsHaveEpochs'
    <2>1. PICK id : epochs' = Put(epochs, id, "queued") /\ reserved' = id
      BY <1>3 DEF NextEpoch
    <2>2. reserved' \in DOMAIN epochs' /\ DOMAIN epochs \subseteq DOMAIN epochs'
      BY <2>1 DEF Put
    <2>3. reserved'.rev > 0 /\ running' = NoEpoch /\ mode' = "open"
      BY <1>3 DEF NextEpoch, NextId, Idle
    <2> QED
      BY <1>0, <1>3, <2>2, <2>3 DEF NextEpoch
  <1>4. ASSUME NEW e \in Event, SettleEvent(e)
        PROVE  ActiveWellFormed' /\ ResultsHaveEpochs'
    BY <1>0, <1>4 DEF SettleEvent, Consume, Reschedule, DeadLetterEvent
  <1>5. ASSUME MarkRunning PROVE ActiveWellFormed' /\ ResultsHaveEpochs'
    BY <1>0, <1>5 DEF MarkRunning
  <1>6. ASSUME NEW o \in PortOutcome, PortPersists(o)
        PROVE  ActiveWellFormed' /\ ResultsHaveEpochs'
    <2>1. DOMAIN results' = DOMAIN results \cup {running} /\ DOMAIN epochs' = DOMAIN epochs
      BY <1>6 DEF PortPersists, Put
    <2> QED
      BY <1>0, <1>6, <2>1 DEF PortPersists, memory
  <1>7. ASSUME NEW o \in LoopOutcome, FinishPersists(o)
        PROVE  ActiveWellFormed' /\ ResultsHaveEpochs'
    <2>1. DOMAIN results' = DOMAIN results \cup {running} /\ DOMAIN epochs' = DOMAIN epochs
      BY <1>7 DEF FinishPersists, Put
    <2> QED
      BY <1>0, <1>7, <2>1 DEF FinishPersists
  <1>8. ASSUME FinishReturns \/ Stop \/ Start
        PROVE  ActiveWellFormed' /\ ResultsHaveEpochs'
    BY <1>0, <1>8 DEF FinishReturns, Stop, Start, database
  <1>9. CASE UNCHANGED vars
    BY <1>0, <1>9 DEF vars, memory, database
  <1> QED
    BY <1>1, <1>2, <1>3, <1>4, <1>5, <1>6, <1>7, <1>8, <1>9 DEF Next

-----------------------------------------------------------------------------
\* The events of the active epoch stay queued and out of the dead letter.
LEMMA NextInFlight == IInv /\ [Next]_vars => InFlightStaysQueued'
  <1> SUFFICES ASSUME IInv, [Next]_vars PROVE InFlightStaysQueued'
    OBVIOUS
  <1> USE DEF InFlightStaysQueued, InFlight
  <1>0. TypeOK /\ ActiveWellFormed /\ InFlightStaysQueued
    BY DEF IInv
  <1>1. ASSUME NEW e \in Event,
               \/ Request(e) \/ RetryEvent(e) \/ ForceRetryEvent(e)
               \/ ReleaseEvent(e) \/ ReleaseRefused(e) \/ BackoffElapses(e)
        PROVE  InFlightStaysQueued'
    BY <1>0, <1>1 DEF Request, RetryEvent, ForceRetryEvent, ReleaseEvent,
                      ReleaseRefused, ForceRetry, BackoffElapses
  <1>2. ASSUME NEW e \in Event, NextEpoch(e) PROVE InFlightStaysQueued'
    BY <1>0, <1>2 DEF NextEpoch, NextId, Eligible
  <1>3. ASSUME NEW e \in Event, SettleEvent(e) PROVE InFlightStaysQueued'
    BY <1>0, <1>3 DEF SettleEvent, Consume, Reschedule, DeadLetterEvent, Pop
  <1>4. ASSUME NEW o \in LoopOutcome, FinishPersists(o) PROVE InFlightStaysQueued'
    BY <1>0, <1>4 DEF FinishPersists, ActiveWellFormed
  <1>5. CASE \/ \E r \in 1 .. MaxRevision : Observe(r)
             \/ MarkRunning
             \/ \E o \in PortOutcome : PortPersists(o)
             \/ UNCHANGED vars
    BY <1>0, <1>5 DEF Observe, MarkRunning, PortPersists, vars, memory
  <1>6. CASE FinishReturns \/ Stop \/ Start
    BY <1>0, <1>6 DEF FinishReturns, Stop, Start, ActiveWellFormed
  <1> QED
    BY <1>1, <1>2, <1>3, <1>4, <1>5, <1>6 DEF Next

-----------------------------------------------------------------------------
\* A step that settles an event takes one that is not dead-lettered, in
\* memory or in the database, and that is queued.
LEMMA SettledIsLive ==
    ASSUME IInv, NEW e \in Event, SettleEvent(e)
    PROVE  /\ e \in queue
           /\ e \notin deadLetter
           /\ e \notin DeadIn(dbRetries)
           /\ mode = "finishing" /\ mode' = mode
           /\ retries = dbRetries
  <1>1. e \in unsettled /\ mode = "finishing" /\ mode' = mode
    BY DEF SettleEvent, Consume, Reschedule, DeadLetterEvent
  <1>2. reserved # NoEpoch
    BY <1>1 DEF IInv, ActiveWellFormed
  <1>3. e \in queue \ deadLetter
    BY <1>1, <1>2 DEF IInv, InFlightStaysQueued, InFlight
  <1> QED
    BY <1>1, <1>3 DEF IInv, RetryStateDurable

\* Memory and database change together.
LEMMA NextRetryStateDurable == IInv /\ [Next]_vars => RetryStateDurable'
  <1> SUFFICES ASSUME IInv, [Next]_vars PROVE RetryStateDurable'
    OBVIOUS
  <1> USE DEF RetryStateDurable
  <1>0. TypeOK /\ RetryStateDurable
    BY DEF IInv
  <1>1. ASSUME NEW e \in Event,
               RetryEvent(e) \/ ForceRetryEvent(e) \/ ReleaseEvent(e)
        PROVE  RetryStateDurable'
    <2> DEFINE item == [retries[e] EXCEPT !.due = TRUE, !.status = "retry_wait"]
    <2>1. item \in RetryItem /\ item.status # "dead_letter"
      BY <1>0, ReleasedItem
    <2>2. SaveRetry(e, item)
      BY <1>1 DEF RetryEvent, ForceRetryEvent, ReleaseEvent, ForceRetry
    <2>3. mode = "open" /\ deadLetter' = deadLetter \ {e}
      BY <1>1 DEF RetryEvent, ForceRetryEvent, ReleaseEvent, ForceRetry
    <2> HIDE DEF item
    <2> QED
      BY <1>0, <2>1, <2>2, <2>3, SaveRetryFact
  <1>2. ASSUME NEW e \in Event, BackoffElapses(e) PROVE RetryStateDurable'
    <2>1. DeadIn(dbRetries') = DeadIn(dbRetries)
      BY <1>0, <1>2 DEF BackoffElapses, DeadIn, TypeOK, RetryItem
    <2>2. mode' = mode /\ deadLetter' = deadLetter
      BY <1>2 DEF BackoffElapses
    <2>3. mode = "open" \/ mode = "down"
      BY <1>0, <1>2 DEF BackoffElapses, TypeOK
    <2>4. CASE mode = "open"
      BY <1>0, <1>2, <2>1, <2>2, <2>4 DEF BackoffElapses
    <2> QED
      BY <2>2, <2>3, <2>4
  <1>3. ASSUME NEW e \in Event, SettleEvent(e) PROVE RetryStateDurable'
    <2>1. retries = dbRetries /\ deadLetter = DeadIn(dbRetries) /\ e \notin deadLetter
      BY <1>0, <1>3, SettledIsLive
    <2>2. CASE Consume(e)
      <3>1. NoRetry \in RetryItem /\ NoRetry.status # "dead_letter"
        BY DEF NoRetry, RetryItem
      <3> QED
        BY <1>0, <2>1, <2>2, <3>1, SaveRetryFact DEF Consume
    <2>3. CASE Reschedule(e)
      <3> DEFINE item == [attempt |-> retries[e].attempt + 1, due |-> FALSE,
                          status |-> "retry_wait", trigger |-> Payload(e)]
      <3>1. item \in RetryItem /\ item.status # "dead_letter"
        BY <1>0 DEF TypeOK, RetryItem, Payload
      <3>2. SaveRetry(e, item) /\ deadLetter' = deadLetter
        BY <2>3 DEF Reschedule
      <3> HIDE DEF item
      <3> QED
        BY <1>0, <2>1, <3>1, <3>2, SaveRetryFact
    <2>4. CASE DeadLetterEvent(e)
      <3> DEFINE item == [attempt |-> retries[e].attempt + 1, due |-> FALSE,
                          status |-> "dead_letter", trigger |-> Payload(e)]
      <3>1. item \in RetryItem /\ item.status = "dead_letter"
        BY <1>0 DEF TypeOK, RetryItem, Payload
      <3>2. SaveRetry(e, item) /\ deadLetter' = deadLetter \cup {e}
        BY <2>4 DEF DeadLetterEvent
      <3> HIDE DEF item
      <3> QED
        BY <1>0, <2>1, <3>1, <3>2, SaveRetryFact
    <2> QED
      BY <1>3, <2>2, <2>3, <2>4 DEF SettleEvent
  <1>4. CASE Stop \/ Start
    BY <1>4 DEF Stop, Start, Loaded, database
  <1>5. CASE \/ \E r \in 1 .. MaxRevision : Observe(r)
             \/ \E e \in Event : Request(e) \/ ReleaseRefused(e) \/ NextEpoch(e)
             \/ MarkRunning
             \/ \E o \in PortOutcome : PortPersists(o)
             \/ \E o \in LoopOutcome : FinishPersists(o)
             \/ FinishReturns
             \/ UNCHANGED vars
    BY <1>0, <1>5 DEF Observe, Request, ReleaseRefused, NextEpoch, MarkRunning, PortPersists,
                      FinishPersists, FinishReturns, vars, memory, database
  <1> QED
    BY <1>1, <1>2, <1>3, <1>4, <1>5 DEF Next

-----------------------------------------------------------------------------
\* The database's dead letters keep their trigger.
LEMMA NextDeadLetterRetryable == IInv /\ [Next]_vars => DeadLetterRetryable'
  <1> SUFFICES ASSUME IInv, [Next]_vars PROVE DeadLetterRetryable'
    OBVIOUS
  <1> USE DEF DeadLetterRetryable
  <1>0. TypeOK /\ DeadLetterRetryable
    BY DEF IInv
  <1>1. ASSUME NEW e \in Event,
               RetryEvent(e) \/ ForceRetryEvent(e) \/ ReleaseEvent(e)
        PROVE  DeadLetterRetryable'
    <2> DEFINE item == [retries[e] EXCEPT !.due = TRUE, !.status = "retry_wait"]
    <2>1. item \in RetryItem /\ item.status # "dead_letter"
      BY <1>0, ReleasedItem
    <2>2. SaveRetry(e, item)
      BY <1>1 DEF RetryEvent, ForceRetryEvent, ReleaseEvent, ForceRetry
    <2> HIDE DEF item
    <2>3. /\ \A f \in Event : f # e => dbRetries'[f] = dbRetries[f]
          /\ dbRetries'[e] = item
      BY <1>0, <2>2 DEF SaveRetry, TypeOK
    <2> QED
      BY <1>0, <2>1, <2>3 DEF DeadIn
  <1>2. ASSUME NEW e \in Event, BackoffElapses(e) PROVE DeadLetterRetryable'
    <2>1. \A f \in Event : /\ dbRetries'[f].status = dbRetries[f].status
                           /\ dbRetries'[f].trigger = dbRetries[f].trigger
      BY <1>0, <1>2 DEF BackoffElapses, TypeOK, RetryItem
    <2> QED
      BY <1>0, <2>1 DEF DeadIn
  <1>3. ASSUME NEW e \in Event, SettleEvent(e) PROVE DeadLetterRetryable'
    <2>1. Payload(e)
      BY <1>3, SettledIsLive DEF Payload
    <2>2. CASE Consume(e)
      BY <1>0, <2>2 DEF Consume, SaveRetry, NoRetry, DeadIn, TypeOK
    <2>3. CASE Reschedule(e)
      BY <1>0, <2>3 DEF Reschedule, SaveRetry, DeadIn, TypeOK
    <2>4. CASE DeadLetterEvent(e)
      BY <1>0, <2>1, <2>4 DEF DeadLetterEvent, SaveRetry, DeadIn, TypeOK
    <2> QED
      BY <1>3, <2>2, <2>3, <2>4 DEF SettleEvent
  <1>4. CASE UNCHANGED dbRetries
    BY <1>0, <1>4 DEF DeadIn
  <1>5. CASE \/ \E r \in 1 .. MaxRevision : Observe(r)
             \/ \E e \in Event : Request(e) \/ ReleaseRefused(e) \/ NextEpoch(e)
             \/ MarkRunning
             \/ \E o \in PortOutcome : PortPersists(o)
             \/ \E o \in LoopOutcome : FinishPersists(o)
             \/ FinishReturns \/ Stop \/ Start
             \/ UNCHANGED vars
    BY <1>4, <1>5 DEF Observe, Request, ReleaseRefused, NextEpoch, MarkRunning, PortPersists,
             FinishPersists, FinishReturns, Stop, Start, vars, database
  <1> QED
    BY <1>1, <1>2, <1>3, <1>5 DEF Next

-----------------------------------------------------------------------------
\* The status column and the result table agree, and results are final.
LEMMA NextStatusMatches ==
    IInv /\ [Next]_vars =>
        /\ StatusMatchesResult'
        /\ \A id \in DOMAIN results :
              id \in DOMAIN results' /\ results'[id] = results[id]
  <1> DEFINE Final == \A id \in DOMAIN results :
                         id \in DOMAIN results' /\ results'[id] = results[id]
  <1> SUFFICES ASSUME IInv, [Next]_vars PROVE StatusMatchesResult' /\ Final
    OBVIOUS
  <1> USE DEF StatusMatchesResult
  <1>0. TypeOK /\ ActiveWellFormed /\ ResultsHaveEpochs /\ StatusMatchesResult
    BY DEF IInv
  <1>1. ASSUME NEW e \in Event, NextEpoch(e) PROVE StatusMatchesResult' /\ Final
    <2>1. PICK id : /\ epochs' = Put(epochs, id, "queued")
                    /\ id \in DOMAIN epochs => epochs[id] = "queued"
                    /\ results' = results
      BY <1>1 DEF NextEpoch, IdTaken
    <2>2. "queued" \notin Outcome
      BY DEF Outcome
    <2>3. id \notin DOMAIN results
      BY <1>0, <2>1, <2>2 DEF ResultsHaveEpochs, TypeOK
    <2>4. /\ DOMAIN epochs' = DOMAIN epochs \cup {id}
          /\ epochs'[id] = "queued"
          /\ \A x \in DOMAIN epochs : x # id => epochs'[x] = epochs[x]
      BY <2>1 DEF Put
    <2> QED
      BY <1>0, <2>1, <2>2, <2>3, <2>4
  <1>2. ASSUME MarkRunning PROVE StatusMatchesResult' /\ Final
    <2>1. reserved \in DOMAIN epochs /\ epochs[reserved] \notin Outcome
      BY <1>0, <1>2 DEF MarkRunning, ActiveWellFormed
    <2>2. reserved \notin DOMAIN results
      BY <1>0, <2>1 DEF TypeOK
    <2>3. "running" \notin Outcome
      BY DEF Outcome
    <2> QED
      BY <1>0, <1>2, <2>1, <2>2, <2>3 DEF MarkRunning, TypeOK
  <1>3. ASSUME NEW o \in PortOutcome, PortPersists(o) PROVE StatusMatchesResult' /\ Final
    <2>1. running \in DOMAIN epochs
      BY <1>0, <1>3 DEF PortPersists, ActiveWellFormed
    <2>2. /\ DOMAIN results' = DOMAIN results \cup {running}
          /\ results'[running] = o
          /\ \A x \in DOMAIN results : x # running => results'[x] = results[x]
      BY <1>3 DEF PortPersists, Put
    <2> QED
      BY <1>0, <1>3, <2>1, <2>2 DEF PortPersists, TypeOK
  <1>4. ASSUME NEW o \in LoopOutcome, FinishPersists(o) PROVE StatusMatchesResult' /\ Final
    <2>1. running \in DOMAIN epochs
      BY <1>0, <1>4 DEF FinishPersists, ActiveWellFormed
    <2>2. /\ DOMAIN results' = DOMAIN results \cup {running}
          /\ results'[running] = Terminal(o)
          /\ \A x \in DOMAIN results : x # running => results'[x] = results[x]
      BY <1>4 DEF FinishPersists, Put
    <2>3. running \in DOMAIN results => Terminal(o) = results[running]
      BY DEF Terminal
    <2>4. /\ DOMAIN epochs' = DOMAIN epochs
          /\ epochs'[running] = Terminal(o)
          /\ \A x \in DOMAIN epochs : x # running => epochs'[x] = epochs[x]
      BY <1>0, <1>4, <2>1 DEF FinishPersists, TypeOK
    <2> QED
      BY <1>0, <2>1, <2>2, <2>3, <2>4
  <1>5. CASE epochs' = epochs /\ results' = results
    BY <1>0, <1>5
  <1>6. CASE \/ \E r \in 1 .. MaxRevision : Observe(r)
             \/ \E e \in Event :
                   \/ Request(e) \/ RetryEvent(e) \/ ForceRetryEvent(e)
                   \/ ReleaseEvent(e) \/ ReleaseRefused(e)
                   \/ BackoffElapses(e) \/ SettleEvent(e)
             \/ FinishReturns \/ Stop \/ Start
             \/ UNCHANGED vars
    BY <1>5, <1>6 DEF Observe, Request, RetryEvent, ForceRetryEvent,
             ReleaseEvent, ReleaseRefused,
             BackoffElapses, SettleEvent, Consume, Reschedule,
             DeadLetterEvent, FinishReturns, Stop, Start, vars, database
  <1> QED
    BY <1>1, <1>2, <1>3, <1>4, <1>6 DEF Next

-----------------------------------------------------------------------------
\* The inductive invariant holds in every behaviour.
THEOREM Invariance == Spec => []IInv
  <1>1. IInv /\ [Next]_vars => IInv'
    BY NextTypeOK, NextActiveWellFormed, NextInFlight, NextRetryStateDurable,
       NextDeadLetterRetryable, NextStatusMatches DEF IInv
  <1> QED
    BY InitIInv, <1>1, PTL DEF Spec

\* The state is well-typed.
THEOREM TypeCorrect == Spec => []TypeOK
  <1>1. IInv => TypeOK
    BY DEF IInv
  <1> QED
    BY Invariance, <1>1, PTL

\* No operation takes a trigger away from the epoch that runs it.
THEOREM InFlightSafe == Spec => []InFlightStaysQueued
  <1>1. IInv => InFlightStaysQueued
    BY DEF IInv
  <1> QED
    BY Invariance, <1>1, PTL

\* Retry counters and dead letters in memory are those of the database, also
\* between two transactions of finish.
THEOREM Durability == Spec => []RetryStateDurable
  <1>1. IInv => RetryStateDurable
    BY DEF IInv
  <1> QED
    BY Invariance, <1>1, PTL

\* The operator can retry whatever was dead-lettered.
THEOREM DeadLettersCanBeRetried == Spec => []DeadLetterRetryable
  <1>1. IInv => DeadLetterRetryable
    BY DEF IInv
  <1> QED
    BY Invariance, <1>1, PTL

\* The first terminal result of an epoch is its only one.
THEOREM FinalResults == Spec => ResultsAreFinal
  <1>1. ASSUME IInv, IInv', [Next]_vars
        PROVE  [\A id \in DOMAIN results :
                   /\ id \in DOMAIN results'
                   /\ results'[id] = results[id]
                   /\ epochs'[id] = results[id]]_vars
    <2>1. StatusMatchesResult' /\ ResultsHaveEpochs'
      BY <1>1 DEF IInv
    <2> QED
      BY <1>1, <2>1, NextStatusMatches DEF StatusMatchesResult, ResultsHaveEpochs
  <1> HIDE DEF IInv
  <1> QED
    BY Invariance, <1>1, PTL DEF Spec, ResultsAreFinal

\* What the loop is about to release, it holds for failed by its provider, and
\* only the loop that survives such a failure holds anything; it releases them
\* between two epochs.
ReleasesFailed ==
    /\ toRelease \subseteq toRetry
    /\ toRetry # {} => Reconnects
    /\ toRelease # {} => Idle

\* The loop releases nothing but the triggers of failed epochs.
LEMMA ReleasesInvariance == Spec => []ReleasesFailed
  <1>1. Init => ReleasesFailed
    BY DEF Init, ReleasesFailed
  <1>2. ReleasesFailed /\ [Next]_vars => ReleasesFailed'
    BY DEF ReleasesFailed, Idle, Next, Observe, Request, RetryEvent, ForceRetryEvent,
           ReleaseEvent, ReleaseRefused, BackoffElapses, NextEpoch, SettleEvent,
           Consume, Reschedule, DeadLetterEvent, MarkRunning, PortPersists,
           FinishPersists, AfterCycle, FinishReturns, Stop, Start, loop, memory,
           vars
  <1> QED
    BY <1>1, <1>2, PTL DEF Spec

\* An event leaves the dead letter by an operator's retry, or by the release
\* of the loop that survives its provider's failures, and by nothing else.
THEOREM DeadLetterSticks == Spec => DeadLetterIsSticky
  <1> DEFINE Sticks == \A e \in DeadIn(dbRetries) :
                          e \notin DeadIn(dbRetries') =>
                              \/ forced' > forced
                              \/ Reconnects /\ e \in toRetry
  <1>1. IInv /\ ReleasesFailed /\ [Next]_vars => Sticks
    <2> SUFFICES ASSUME IInv, ReleasesFailed, [Next]_vars PROVE Sticks
      OBVIOUS
    <2>0. TypeOK
      BY DEF IInv
    <2>1. ASSUME NEW e \in Event, RetryEvent(e) \/ ForceRetryEvent(e) PROVE Sticks
      BY <2>0, <2>1 DEF RetryEvent, ForceRetryEvent, TypeOK
    <2>6. ASSUME NEW e \in Event, ReleaseEvent(e) PROVE Sticks
      <3>1. Reconnects /\ e \in toRetry
        BY <2>6 DEF ReleaseEvent, ReleasesFailed
      <3>2. \A f \in Event : f # e => dbRetries'[f] = dbRetries[f]
        BY <2>0, <2>6 DEF ReleaseEvent, ForceRetry, SaveRetry, TypeOK
      <3> QED
        BY <3>1, <3>2 DEF DeadIn
    <2>2. ASSUME NEW e \in Event, BackoffElapses(e) PROVE Sticks
      BY <2>0, <2>2 DEF BackoffElapses, DeadIn, TypeOK, RetryItem
    <2>3. ASSUME NEW e \in Event, SettleEvent(e) PROVE Sticks
      <3>1. e \notin DeadIn(dbRetries)
        BY <2>3, SettledIsLive
      <3>2. \A f \in Event : f # e => dbRetries'[f] = dbRetries[f]
        BY <2>0, <2>3 DEF SettleEvent, Consume, Reschedule, DeadLetterEvent,
                          SaveRetry, TypeOK
      <3> QED
        BY <3>1, <3>2 DEF DeadIn
    <2>4. CASE UNCHANGED dbRetries
      BY <2>4 DEF DeadIn
    <2>5. CASE \/ \E r \in 1 .. MaxRevision : Observe(r)
               \/ \E e \in Event : Request(e) \/ ReleaseRefused(e) \/ NextEpoch(e)
               \/ MarkRunning
               \/ \E o \in PortOutcome : PortPersists(o)
               \/ \E o \in LoopOutcome : FinishPersists(o)
               \/ FinishReturns \/ Stop \/ Start
               \/ UNCHANGED vars
      BY <2>4, <2>5 DEF Observe, Request, ReleaseRefused, NextEpoch, MarkRunning, PortPersists,
               FinishPersists, FinishReturns, Stop, Start, vars, database
    <2> QED
      BY <2>1, <2>2, <2>3, <2>5, <2>6 DEF Next
  <1>2. IInv /\ ReleasesFailed /\ [Next]_vars => [Sticks]_vars
    BY <1>1
  <1> HIDE DEF IInv
  <1> QED
    BY Invariance, ReleasesInvariance, <1>2, PTL DEF Spec, DeadLetterIsSticky
=============================================================================
