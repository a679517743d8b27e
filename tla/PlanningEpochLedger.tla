------------------------ MODULE PlanningEpochLedger ------------------------
(***************************************************************************)
(* Two further proofs about PlanningEpoch: how often an event can be       *)
(* planned into a committed epoch (CommittedOnce), and that the            *)
(* coordinator implements TriggerLedger (KeepsLedger).                     *)
(*                                                                         *)
(* CommittedOnce counts rows that accumulate over several processes, so it *)
(* needs a budget.  In the life of a process an event has at most one      *)
(* commit ahead of it while it waits (in the queue or dead-lettered, but   *)
(* not in an epoch that is committed already), one while the loop has not  *)
(* seen it, and one while the loop has still to release it.  Every step    *)
(* that gives an event a chance back takes another from it, or is a stop,  *)
(* an operator's retry or the start of a round of the loop's own.          *)
(***************************************************************************)
EXTENDS PlanningEpochProofs, FiniteSetTheorems

\* The committed epochs that hold event e.
Planned(e) == {id \in DOMAIN results : e \in id.events /\ results[id] = "committed"}

\* Event e is in the active epoch, whose result is a commit already.
InCommitted(e) ==
    /\ running # NoEpoch
    /\ e \in InFlight
    /\ running \in DOMAIN results
    /\ results[running] = "committed"

Waiting(e) == IF e \in queue \cup DeadIn(dbRetries) /\ ~ InCommitted(e) THEN 1 ELSE 0
Unseen(e)  == IF e \in seen THEN 0 ELSE 1
ToCome     == IF mode = "finishing" THEN toRetry ELSE toRelease
Coming(e)  == IF e \in ToCome THEN 1 ELSE 0

\* The commits an event may still have in this process.
Chances(e) == Waiting(e) + Unseen(e) + Coming(e)

\* The commits an event had and may still have in this process.
LifeBudget ==
    \A e \in Event :
        Cardinality(Planned(e)) + Chances(e) <= Lives + 1

\* An event whose retry row can rebuild its trigger is waiting or dead-lettered,
\* unless the loop has not seen it since the process started: who releases such
\* an event does not queue it a second time.
RowIsLive ==
    /\ mode = "down" => seen = {} /\ queue = {}
    /\ mode # "down" =>
          \A e \in Event :
              retries[e].trigger => e \in queue \cup deadLetter \/ e \notin seen

BudgetInv ==
    /\ IsFiniteSet(DOMAIN results)
    /\ RowIsLive
    /\ LifeBudget

-----------------------------------------------------------------------------
\* An empty table has no committed epoch.
LEMMA InitBudget == Init => BudgetInv
  <1> SUFFICES ASSUME Init PROVE BudgetInv
    OBVIOUS
  <1>1. DOMAIN results = {}
    BY DEF Init
  <1>2. IsFiniteSet(DOMAIN results)
    BY <1>1, FS_EmptySet
  <1>3. RowIsLive
    BY DEF Init, RowIsLive, NoRetry
  <1>4. ASSUME NEW e \in Event
        PROVE  Cardinality(Planned(e)) + Chances(e) <= Lives + 1
    <2>1. Planned(e) = {}
      BY <1>1 DEF Planned
    <2>2. Cardinality(Planned(e)) = 0
      BY <2>1, FS_EmptySet
    <2>3. Waiting(e) = 0 /\ Unseen(e) = 1 /\ Coming(e) = 0
      BY DEF Init, Waiting, Unseen, Coming, ToCome, DeadIn, NoRetry
    <2> QED
      BY <2>2, <2>3 DEF Init, Chances, Lives
  <1> QED
    BY <1>2, <1>3, <1>4 DEF BudgetInv, LifeBudget

\* The result table grows by at most one row a step.
LEMMA NextFinite ==
    IsFiniteSet(DOMAIN results) /\ [Next]_vars => IsFiniteSet(DOMAIN results')
  <1> SUFFICES ASSUME IsFiniteSet(DOMAIN results), [Next]_vars
               PROVE  IsFiniteSet(DOMAIN results')
    OBVIOUS
  <1>1. CASE \/ \E o \in PortOutcome : PortPersists(o)
             \/ \E o \in LoopOutcome : FinishPersists(o)
    <2>1. DOMAIN results' = DOMAIN results \cup {running}
      BY <1>1 DEF PortPersists, FinishPersists, Put
    <2> QED
      BY <2>1, FS_AddElement
  <1>2. CASE UNCHANGED results
    BY <1>2
  <1>3. CASE \/ \E r \in 1 .. MaxRevision : Observe(r)
             \/ \E e \in Event :
                   \/ Request(e) \/ RetryEvent(e) \/ ForceRetryEvent(e)
                   \/ ReleaseEvent(e) \/ ReleaseRefused(e)
                   \/ BackoffElapses(e) \/ NextEpoch(e) \/ SettleEvent(e)
             \/ MarkRunning \/ FinishReturns \/ Stop \/ Start
             \/ UNCHANGED vars
    BY <1>2, <1>3 DEF Observe, Request, RetryEvent, ForceRetryEvent, ReleaseEvent,
             ReleaseRefused, BackoffElapses, NextEpoch, SettleEvent, Consume, Reschedule, DeadLetterEvent,
             MarkRunning, FinishReturns, Stop, Start, vars, database
  <1> QED
    BY <1>1, <1>3 DEF Next

-----------------------------------------------------------------------------
\* A retry row holds a trigger only while the event is waiting for it.
LEMMA NextRowIsLive == IInv /\ RowIsLive /\ [Next]_vars => RowIsLive'
  <1> SUFFICES ASSUME IInv, RowIsLive, [Next]_vars PROVE RowIsLive'
    OBVIOUS
  <1> USE DEF RowIsLive
  <1>0. TypeOK /\ RowIsLive
    BY DEF IInv
  <1>1. ASSUME NEW e \in Event, Request(e) PROVE RowIsLive'
    BY <1>0, <1>1 DEF Request
  <1>2. ASSUME NEW e \in Event,
               RetryEvent(e) \/ ForceRetryEvent(e) \/ ReleaseEvent(e)
        PROVE  RowIsLive'
    <2>1. /\ e \in queue' /\ mode = "open" /\ mode' = mode
          /\ queue \subseteq queue' /\ deadLetter \ {e} \subseteq deadLetter'
          /\ seen' \subseteq seen
      BY <1>2 DEF RetryEvent, ForceRetryEvent, ReleaseEvent, ForceRetry, loop
    <2>2. \A f \in Event : f # e => retries'[f] = retries[f]
      BY <1>0, <1>2 DEF RetryEvent, ForceRetryEvent, ReleaseEvent, ForceRetry,
                        SaveRetry, TypeOK
    <2> QED
      BY <1>0, <2>1, <2>2
  <1>3. ASSUME NEW e \in Event, BackoffElapses(e) PROVE RowIsLive'
    <2>1. \A f \in Event : retries'[f].trigger = retries[f].trigger
      BY <1>0, <1>3 DEF BackoffElapses, TypeOK, RetryItem
    <2> QED
      BY <1>0, <1>3, <2>1 DEF BackoffElapses, loop
  <1>4. ASSUME NEW e \in Event, SettleEvent(e) PROVE RowIsLive'
    <2>0. e \in queue /\ mode = "finishing" /\ mode' = mode
      BY <1>4, SettledIsLive
    <2>1. \A f \in Event : f # e => retries'[f] = retries[f]
      BY <1>0, <1>4 DEF SettleEvent, Consume, Reschedule, DeadLetterEvent,
                        SaveRetry, TypeOK
    <2>2. /\ queue \ {e} \subseteq queue' /\ deadLetter \subseteq deadLetter'
          /\ seen' = seen
      BY <1>4 DEF SettleEvent, Consume, Reschedule, DeadLetterEvent, Pop, loop
    <2>3. retries'[e].trigger => e \in queue' \cup deadLetter'
      <3>1. CASE Consume(e)
        BY <1>0, <3>1 DEF Consume, SaveRetry, NoRetry, TypeOK
      <3>2. CASE Reschedule(e) \/ DeadLetterEvent(e)
        BY <2>0, <3>2 DEF Reschedule, DeadLetterEvent
      <3> QED
        BY <1>4, <3>1, <3>2 DEF SettleEvent
    <2> QED
      BY <1>0, <2>0, <2>1, <2>2, <2>3
  <1>5. CASE Stop \/ Start
    BY <1>0, <1>5 DEF Stop, Start, loop
  <1>6. CASE \/ \E r \in 1 .. MaxRevision : Observe(r)
             \/ \E e \in Event : ReleaseRefused(e) \/ NextEpoch(e)
             \/ MarkRunning
             \/ \E o \in PortOutcome : PortPersists(o)
             \/ \E o \in LoopOutcome : FinishPersists(o)
             \/ FinishReturns
             \/ UNCHANGED vars
    BY <1>0, <1>6 DEF Observe, ReleaseRefused, NextEpoch, MarkRunning,
             PortPersists, FinishPersists, FinishReturns, vars, memory, loop
  <1> QED
    BY <1>1, <1>2, <1>3, <1>4, <1>5, <1>6 DEF Next

-----------------------------------------------------------------------------
\* A row of the result table other than the new one is kept, and the new one
\* is a commit only when the port persists it.
LEMMA PlannedKept ==
    ASSUME IInv, [Next]_vars, ~ PortPersists("committed"), NEW e \in Event
    PROVE  Planned(e)' = Planned(e)
  <1> USE DEF Planned
  <1>1. ASSUME NEW o \in Outcome, results' = Put(results, running, o),
               o = "committed" => running \in DOMAIN results,
               running \in DOMAIN results => results[running] = o
        PROVE  Planned(e)' = Planned(e)
    BY <1>1 DEF Put
  <1>2. ASSUME NEW o \in PortOutcome, PortPersists(o) PROVE Planned(e)' = Planned(e)
    BY <1>1, <1>2 DEF PortPersists, PortOutcome, Outcome
  <1>3. ASSUME NEW o \in LoopOutcome, FinishPersists(o) PROVE Planned(e)' = Planned(e)
    <2>1. Terminal(o) \in Outcome
      BY DEF Terminal, LoopOutcome, Outcome, IInv, TypeOK
    <2>2. o # "committed"
      BY DEF LoopOutcome
    <2> QED
      BY <1>1, <1>3, <2>1, <2>2 DEF FinishPersists, Terminal
  <1>4. CASE UNCHANGED results
    BY <1>4
  <1>5. CASE \/ \E r \in 1 .. MaxRevision : Observe(r)
             \/ \E f \in Event :
                   \/ Request(f) \/ RetryEvent(f) \/ ForceRetryEvent(f)
                   \/ ReleaseEvent(f) \/ ReleaseRefused(f)
                   \/ BackoffElapses(f) \/ NextEpoch(f) \/ SettleEvent(f)
             \/ MarkRunning \/ FinishReturns \/ Stop \/ Start
             \/ UNCHANGED vars
    BY <1>4, <1>5 DEF Observe, Request, RetryEvent, ForceRetryEvent, ReleaseEvent,
             ReleaseRefused, BackoffElapses, NextEpoch, SettleEvent, Consume, Reschedule, DeadLetterEvent,
             MarkRunning, FinishReturns, Stop, Start, vars, database
  <1> QED
    BY <1>2, <1>3, <1>5 DEF Next

\* Event e has no more chances after a step than before, but for what the
\* stop, the operator's retry or the loop's round it takes adds.
LEMMA ChancesBounded ==
    ASSUME IInv, RowIsLive, [Next]_vars, NEW e \in Event
    PROVE  Chances(e)' + Lives <= Chances(e) + Lives'
  <1> DEFINE Bounded == Chances(e)' + Lives <= Chances(e) + Lives'
             Here == e \in queue \cup DeadIn(dbRetries)
  <1> USE DEF Chances, Waiting, Unseen, Coming, Lives
  <1>0. /\ TypeOK /\ ActiveWellFormed /\ InFlightStaysQueued /\ RetryStateDurable
        /\ RowIsLive
    BY DEF IInv
  <1>1. stops \in Nat /\ forced \in Nat /\ releases \in Nat
    BY <1>0 DEF TypeOK
  \* A step that neither hides e from the loop nor brings it back.
  <1>2. ASSUME UNCHANGED <<seen, ToCome, bounds>>, Here' => Here,
               InCommitted(e) => InCommitted(e)' \/ ~ Here'
        PROVE  Bounded
    BY <1>1, <1>2 DEF bounds
  \* A dead-lettered event is in no active epoch.
  <1>3. e \in DeadIn(dbRetries) => ~ InCommitted(e)
    BY <1>0 DEF InCommitted, InFlight, InFlightStaysQueued, RetryStateDurable,
                ActiveWellFormed
  <1>4. ASSUME NEW f \in Event, Request(f) PROVE Bounded
    <2>1. InCommitted(e)' <=> InCommitted(e)
      BY <1>4 DEF Request, InCommitted, InFlight, database
    <2>2. /\ e \in DeadIn(dbRetries)' <=> e \in DeadIn(dbRetries)
          /\ UNCHANGED <<ToCome, stops, forced, releases>>
      BY <1>4 DEF Request, database, DeadIn, ToCome, bounds
    <2>3. CASE f = e
      BY <1>4, <1>1, <2>1, <2>2, <2>3 DEF Request
    <2>4. CASE f # e
      BY <1>4, <1>1, <2>1, <2>2, <2>4 DEF Request
    <2> QED
      BY <2>3, <2>4
  <1>5. ASSUME NEW f \in Event, RetryEvent(f) PROVE Bounded
    <2>1. UNCHANGED <<seen, ToCome, stops, releases>> /\ forced' = forced + 1
      BY <1>5 DEF RetryEvent, ToCome, loop
    <2>2. Unseen(e)' = Unseen(e) /\ Waiting(e)' <= Waiting(e) + 1
      BY <2>1
    <2> QED
      BY <1>1, <2>1, <2>2
  \* A forced retry of f spends what is not seen of f, or an earlier chance.
  <1>6. ASSUME NEW f \in Event, ForceRetry(f), mode = "open",
               UNCHANGED <<mode, reserved, running, unsettled, results>>
        PROVE  /\ Waiting(e)' + Unseen(e)' <= Waiting(e) + Unseen(e) + 1
               /\ f # e => Waiting(e)' + Unseen(e)' = Waiting(e) + Unseen(e)
    <2>2. InCommitted(e)' <=> InCommitted(e)
      BY <1>6 DEF InCommitted, InFlight
    <2>3. CASE f = e
      <3>1. Waiting(e)' <= Waiting(e) + Unseen(e)
        <4>1. CASE e \in queue
          BY <1>6, <2>2, <2>3, <4>1 DEF ForceRetry
        <4>2. CASE e \notin queue
          <5>1. e \in deadLetter \/ e \notin seen
            BY <1>0, <1>6, <2>3, <4>2 DEF ForceRetry, Rebuilds, RowIsLive
          <5>2. CASE e \in deadLetter
            <6>1. e \in DeadIn(dbRetries)
              BY <1>0, <1>6, <5>2 DEF RetryStateDurable
            <6> QED
              BY <1>3, <6>1
          <5> QED
            BY <5>1, <5>2
        <4> QED
          BY <4>1, <4>2
      <3>2. Unseen(e)' <= 1
        OBVIOUS
      <3> QED
        BY <2>3, <3>1, <3>2
    <2>4. CASE f # e
      <3>1. Here' <=> Here
        BY <1>0, <1>6, <2>4 DEF ForceRetry, SaveRetry, DeadIn, TypeOK
      <3>2. e \in seen' <=> e \in seen
        BY <1>6, <2>4 DEF ForceRetry
      <3> QED
        BY <2>2, <2>4, <3>1, <3>2
    <2> QED
      BY <2>3, <2>4
  <1>13. ASSUME NEW f \in Event, ForceRetryEvent(f) PROVE Bounded
    <2>1. /\ stops' = stops /\ forced' = forced + 1 /\ releases' = releases
          /\ mode = "open" /\ mode' = mode /\ toRelease' \in {toRelease, {}}
      BY <1>13 DEF ForceRetryEvent
    <2>2. Waiting(e)' + Unseen(e)' <= Waiting(e) + Unseen(e) + 1
      BY <1>6, <1>13 DEF ForceRetryEvent
    <2>3. Coming(e)' <= Coming(e)
      BY <2>1 DEF ToCome
    <2> QED
      BY <1>1, <2>1, <2>2, <2>3
  <1>14. ASSUME NEW f \in Event, ReleaseEvent(f) PROVE Bounded
    <2>1. /\ UNCHANGED <<stops, forced, releases>>
          /\ mode = "open" /\ mode' = mode
          /\ f \in toRelease /\ toRelease' = toRelease \ {f}
      BY <1>14 DEF ReleaseEvent, bounds
    <2>2. /\ Waiting(e)' + Unseen(e)' <= Waiting(e) + Unseen(e) + 1
          /\ f # e => Waiting(e)' + Unseen(e)' = Waiting(e) + Unseen(e)
      BY <1>6, <1>14 DEF ReleaseEvent
    <2>3. IF f = e THEN Coming(e) = 1 /\ Coming(e)' = 0
                   ELSE Coming(e)' = Coming(e)
      BY <2>1 DEF ToCome
    <2> QED
      BY <1>1, <2>1, <2>2, <2>3
  <1>15. ASSUME NEW f \in Event, ReleaseRefused(f) PROVE Bounded
    <2>1. /\ UNCHANGED <<seen, queue, dbRetries, stops, forced, releases, mode,
                         reserved, running, unsettled, results>>
          /\ mode = "open" /\ toRelease' = toRelease \ {f}
      BY <1>15 DEF ReleaseRefused, bounds, database
    <2>2. /\ Here' <=> Here
          /\ InCommitted(e)' <=> InCommitted(e)
      BY <2>1 DEF DeadIn, InCommitted, InFlight
    <2>3. Coming(e)' <= Coming(e)
      BY <2>1 DEF ToCome
    <2>4. Waiting(e)' = Waiting(e) /\ Unseen(e)' = Unseen(e)
      BY <2>1, <2>2
    <2> QED
      BY <1>1, <2>1, <2>3, <2>4
  <1>7. ASSUME NEW f \in Event, BackoffElapses(f) PROVE Bounded
    <2>1. Here' => Here
      BY <1>0, <1>7 DEF BackoffElapses, DeadIn, TypeOK, RetryItem
    <2>2. InCommitted(e)' <=> InCommitted(e)
      BY <1>7 DEF BackoffElapses, InCommitted, InFlight
    <2> QED
      BY <1>2, <1>7, <2>1, <2>2 DEF BackoffElapses, loop, ToCome
  <1>8. ASSUME NEW f \in Event, SettleEvent(f) PROVE Bounded
    <2>1. UNCHANGED <<seen, ToCome, bounds, running, results, reserved, mode>>
      BY <1>8 DEF SettleEvent, Consume, Reschedule, DeadLetterEvent, loop, ToCome
    <2>2. CASE f # e
      <3>1. Here' <=> Here
        BY <1>0, <1>8, <2>2 DEF SettleEvent, Consume, Reschedule, DeadLetterEvent,
                                SaveRetry, DeadIn, Pop, TypeOK
      <3>2. mode = "finishing" /\ unsettled' = unsettled \ {f}
        BY <1>8 DEF SettleEvent, Consume, Reschedule, DeadLetterEvent
      <3>3. InCommitted(e) => InCommitted(e)'
        BY <2>1, <2>2, <3>2 DEF InCommitted, InFlight
      <3> QED
        BY <1>2, <2>1, <3>1, <3>3
    <2>3. CASE f = e /\ Consume(e)
      <3>1. ~ Here'
        BY <1>0, <2>3 DEF Consume, SaveRetry, Pop, DeadIn, NoRetry, TypeOK
      <3> QED
        BY <1>2, <2>1, <3>1
    <2>4. CASE f = e /\ (Reschedule(e) \/ DeadLetterEvent(e))
      <3>1. Here
        BY <1>8, <2>4, SettledIsLive
      <3>2. ~ InCommitted(e)
        BY <2>4 DEF Reschedule, DeadLetterEvent, Retried, InCommitted
      <3> QED
        BY <1>2, <2>1, <3>1, <3>2
    <2> QED
      BY <1>8, <2>2, <2>3, <2>4 DEF SettleEvent
  <1>9. ASSUME NEW o \in LoopOutcome, FinishPersists(o) PROVE Bounded
    <2>1. /\ Here' <=> Here
          /\ UNCHANGED <<seen, stops, forced>>
          /\ IF toRetry' = {} THEN releases' = releases ELSE releases' = releases + 1
          /\ mode' = "finishing"
      BY <1>9 DEF FinishPersists, DeadIn
    <2>2. ASSUME InCommitted(e) PROVE InCommitted(e)'
      <3>1. /\ results' = Put(results, running, Terminal(o))
            /\ UNCHANGED <<running, reserved>>
            /\ mode = "open" /\ mode' = "finishing" /\ unsettled' = running.events
        BY <1>9 DEF FinishPersists
      <3>2. running \in DOMAIN results' /\ results'[running] = "committed"
        BY <2>2, <3>1 DEF Put, Terminal, InCommitted
      <3>3. e \in InFlight'
        BY <1>0, <2>2, <3>1 DEF InCommitted, InFlight, ActiveWellFormed
      <3> QED
        BY <2>2, <3>1, <3>2, <3>3 DEF InCommitted
    <2>3. Waiting(e)' <= Waiting(e) /\ Unseen(e)' = Unseen(e)
      BY <2>1, <2>2
    <2>4. Coming(e)' + releases <= Coming(e) + releases'
      BY <1>1, <2>1 DEF ToCome
    <2> QED
      BY <1>1, <2>1, <2>3, <2>4
  <1>10. CASE \/ \E f \in Event : NextEpoch(f)
              \/ MarkRunning
              \/ \E o \in PortOutcome : PortPersists(o)
              \/ FinishReturns
              \/ Start
    <2>1. ~ InCommitted(e)
      BY <1>0, <1>10 DEF NextEpoch, Idle, MarkRunning, PortPersists, FinishReturns,
                         Start, InCommitted, InFlight, ActiveWellFormed
    <2>2. UNCHANGED <<seen, ToCome, bounds, queue, dbRetries>>
      BY <1>10 DEF NextEpoch, MarkRunning, PortPersists, FinishReturns, Start,
                   memory, loop, database, ToCome
    <2>3. Here' <=> Here
      BY <2>2 DEF DeadIn
    <2> QED
      BY <1>2, <2>1, <2>2, <2>3
  <1>11. CASE Stop
    <2>1. /\ stops' = stops + 1 /\ forced' = forced /\ releases' = releases
          /\ queue' = {} /\ dbRetries' = dbRetries
          /\ mode' = "down" /\ toRelease' = {}
      BY <1>11 DEF Stop, database
    <2>2. Waiting(e)' <= Waiting(e)
      <3>1. Here' => e \in DeadIn(dbRetries)
        BY <2>1 DEF DeadIn
      <3> QED
        BY <1>3, <3>1
    <2>3. Unseen(e)' <= Unseen(e) + 1
      OBVIOUS
    <2>4. Coming(e)' <= Coming(e)
      BY <2>1 DEF ToCome
    <2> QED
      BY <1>1, <2>1, <2>2, <2>3, <2>4
  <1>12. CASE (\E r \in 1 .. MaxRevision : Observe(r)) \/ UNCHANGED vars
    <2>1. UNCHANGED <<seen, ToCome, bounds, queue, dbRetries, mode, reserved,
                      running, unsettled, results>>
      BY <1>12 DEF Observe, vars, memory, loop, database, ToCome
    <2>2. /\ Here' <=> Here
          /\ InCommitted(e)' <=> InCommitted(e)
      BY <2>1 DEF DeadIn, InCommitted, InFlight
    <2> QED
      BY <1>2, <2>1, <2>2
  <1> QED
    BY <1>4, <1>5, <1>7, <1>8, <1>9, <1>10, <1>11, <1>12, <1>13, <1>14, <1>15
       DEF Next

\* The commit of the running epoch uses up what its events had ahead of them.
LEMMA CommitTakesChance ==
    ASSUME IInv, IsFiniteSet(DOMAIN results), PortPersists("committed"),
           NEW e \in Event
    PROVE  Cardinality(Planned(e))' + Waiting(e)' <= Cardinality(Planned(e)) + Waiting(e)
  <1>0. TypeOK /\ ActiveWellFormed /\ InFlightStaysQueued
    BY DEF IInv
  <1>1. /\ running # NoEpoch /\ mode = "open" /\ running \notin DOMAIN results
        /\ results' = Put(results, running, "committed")
        /\ UNCHANGED <<running, reserved, mode, unsettled, queue, dbRetries>>
    BY DEF PortPersists, memory
  <1>2. running = reserved
    BY <1>0, <1>1 DEF ActiveWellFormed
  <1>3. /\ InFlight = running.events /\ InFlight' = running.events
    BY <1>1, <1>2 DEF InFlight
  <1>4. ~ InCommitted(e)
    BY <1>1 DEF InCommitted
  <1>5. e \in (queue \cup DeadIn(dbRetries))' <=> e \in queue \cup DeadIn(dbRetries)
    BY <1>1 DEF DeadIn
  <1>6. IsFiniteSet(Planned(e)) /\ Cardinality(Planned(e)) \in Nat
    <2>1. Planned(e) \subseteq DOMAIN results
      BY DEF Planned
    <2> QED
      BY <2>1, FS_Subset, FS_CardinalityType
  <1>7. CASE e \in running.events
    <2>1. Planned(e)' = Planned(e) \cup {running} /\ running \notin Planned(e)
      BY <1>1, <1>7 DEF Planned, Put
    <2>2. Cardinality(Planned(e)') = Cardinality(Planned(e)) + 1
      BY <1>6, <2>1, FS_AddElement
    <2>3. e \in queue
      BY <1>0, <1>3, <1>7 DEF InFlightStaysQueued
    <2>4. InCommitted(e)'
      BY <1>1, <1>3, <1>7 DEF InCommitted, Put
    <2>5. Waiting(e) = 1 /\ Waiting(e)' = 0
      BY <1>4, <2>3, <2>4 DEF Waiting
    <2> QED
      BY <1>6, <2>2, <2>5
  <1>8. CASE e \notin running.events
    <2>1. Planned(e)' = Planned(e)
      BY <1>1, <1>8 DEF Planned, Put
    <2>2. Waiting(e)' <= Waiting(e)
      BY <1>4, <1>5 DEF Waiting
    <2> QED
      BY <1>6, <2>1, <2>2 DEF Waiting
  <1> QED
    BY <1>7, <1>8

\* Every step keeps the budget.
LEMMA NextBudget == IInv /\ BudgetInv /\ [Next]_vars => BudgetInv'
  <1> SUFFICES ASSUME IInv, BudgetInv, [Next]_vars PROVE BudgetInv'
    OBVIOUS
  <1>0. IsFiniteSet(DOMAIN results) /\ RowIsLive /\ LifeBudget
    BY DEF BudgetInv
  <1>1. RowIsLive' /\ IsFiniteSet(DOMAIN results')
    BY <1>0, NextRowIsLive, NextFinite
  <1>2. Lives \in Nat /\ Lives' \in Nat
    BY NextTypeOK DEF IInv, TypeOK, Lives
  <1>3. ASSUME NEW e \in Event
        PROVE  Cardinality(Planned(e))' + Chances(e)' <= Lives' + 1
    <2>1. Planned(e) \subseteq DOMAIN results /\ Planned(e)' \subseteq DOMAIN results'
      BY DEF Planned
    <2>2. Cardinality(Planned(e)) \in Nat /\ Cardinality(Planned(e))' \in Nat
      BY <1>0, <1>1, <2>1, FS_Subset, FS_CardinalityType
    <2>3. /\ Waiting(e) \in Nat /\ Waiting(e)' \in Nat
          /\ Unseen(e) \in Nat /\ Unseen(e)' \in Nat
          /\ Coming(e) \in Nat /\ Coming(e)' \in Nat
      BY DEF Waiting, Unseen, Coming
    <2>4. Cardinality(Planned(e)) + Chances(e) <= Lives + 1
      BY <1>0 DEF LifeBudget
    <2>5. CASE PortPersists("committed")
      <3>1. Cardinality(Planned(e))' + Waiting(e)' <= Cardinality(Planned(e)) + Waiting(e)
        BY <1>0, <2>5, CommitTakesChance
      <3>2. Unseen(e)' = Unseen(e) /\ Coming(e)' = Coming(e) /\ Lives' = Lives
        BY <2>5 DEF PortPersists, memory, loop, bounds, Unseen, Coming, ToCome, Lives
      <3> QED
        BY <1>2, <2>2, <2>3, <2>4, <3>1, <3>2 DEF Chances
    <2>6. CASE ~ PortPersists("committed")
      <3>1. Cardinality(Planned(e))' = Cardinality(Planned(e))
        BY <2>6, PlannedKept
      <3>2. Chances(e)' + Lives <= Chances(e) + Lives'
        BY <1>0, ChancesBounded
      <3>3. Chances(e) \in Nat /\ Chances(e)' \in Nat
        BY <2>3 DEF Chances
      <3> QED
        BY <1>2, <2>2, <2>4, <3>1, <3>2, <3>3
    <2> QED
      BY <2>5, <2>6
  <1> QED
    BY <1>1, <1>3 DEF BudgetInv, LifeBudget

\* The budget holds in every behaviour.
THEOREM BudgetInvariance == Spec => []BudgetInv
  <1> HIDE DEF IInv, BudgetInv
  <1> QED
    BY Invariance, InitBudget, NextBudget, PTL DEF Spec

\* An event is planned into at most one committed epoch for each start of the
\* process, each operator's retry and each round of retries the loop forces.
THEOREM PlannedOnce == Spec => []CommittedOnce
  <1>1. IInv /\ BudgetInv => CommittedOnce
    <2> SUFFICES ASSUME IInv, BudgetInv, NEW e \in Event
                 PROVE  Cardinality(Planned(e)) <= Lives + 1
      BY DEF CommittedOnce, Planned
    <2>1. Cardinality(Planned(e)) \in Nat
      <3>1. Planned(e) \subseteq DOMAIN results
        BY DEF Planned
      <3> QED
        BY <3>1, FS_Subset, FS_CardinalityType DEF BudgetInv
    <2>2. Cardinality(Planned(e)) + Chances(e) <= Lives + 1
      BY DEF BudgetInv, LifeBudget
    <2>3. Lives \in Nat
      BY DEF IInv, TypeOK, Lives
    <2>4. Chances(e) \in Nat
      BY DEF Chances, Waiting, Unseen, Coming
    <2> QED
      BY <2>1, <2>2, <2>3, <2>4
  <1> HIDE DEF IInv, BudgetInv
  <1> QED
    BY Invariance, BudgetInvariance, <1>1, PTL

-----------------------------------------------------------------------------
\* What TriggerLedger sees of event e.
PhaseOf(e) ==
    IF e \in DeadIn(dbRetries) THEN "dead"
    ELSE IF e \in InFlight THEN "claimed"
    ELSE IF e \in queue THEN "pending"
    ELSE "absent"
TriesOf(e) == dbRetries[e].attempt

Phases == [e \in Event |-> PhaseOf(e)]
Tries  == [e \in Event |-> TriesOf(e)]

\* Only event e changes in the eyes of the ledger.
OnlyMoves(e) ==
    \A f \in Event : f # e => PhaseOf(f)' = PhaseOf(f) /\ TriesOf(f)' = TriesOf(f)

\* The steps of TriggerLedger, event by event.
Arrives(e) ==
    /\ PhaseOf(e) \in {"absent", "dead"}
    /\ PhaseOf(e)' = "pending"
    /\ TriesOf(e)' = TriesOf(e)
    /\ OnlyMoves(e)
Claims(batch) ==
    /\ \A f \in Event : PhaseOf(f) # "claimed"
    /\ batch # {}
    /\ \A f \in batch : PhaseOf(f) = "pending"
    /\ \A f \in Event :
          /\ PhaseOf(f)' = IF f \in batch THEN "claimed" ELSE PhaseOf(f)
          /\ TriesOf(f)' = TriesOf(f)
Settles(e) ==
    /\ PhaseOf(e) = "claimed"
    /\ OnlyMoves(e)
    /\ \/ PhaseOf(e)' = "absent" /\ TriesOf(e)' = 0
       \/ /\ TriesOf(e) + 1 < MaxAttempts
          /\ PhaseOf(e)' = "pending" /\ TriesOf(e)' = TriesOf(e) + 1
       \/ PhaseOf(e)' = "dead" /\ TriesOf(e)' = TriesOf(e) + 1
Forgets ==
    \A f \in Event :
        /\ PhaseOf(f)' = IF PhaseOf(f) = "dead" THEN "dead" ELSE "absent"
        /\ TriesOf(f)' = TriesOf(f)
Stutters ==
    \A f \in Event : PhaseOf(f)' = PhaseOf(f) /\ TriesOf(f)' = TriesOf(f)

LedgerStep ==
    \/ \E e \in Event : Arrives(e) \/ Settles(e)
    \/ \E batch \in SUBSET Event : Claims(batch)
    \/ Forgets
    \/ Stutters

-----------------------------------------------------------------------------
\* Event by event or as functions, the steps are the ledger's own.
LEMMA LedgerStepIsNext == LedgerStep => [Ledger!LedgerNext]_<<Phases, Tries>>
  <1> SUFFICES ASSUME LedgerStep PROVE [Ledger!LedgerNext]_<<Phases, Tries>>
    OBVIOUS
  <1>1. ASSUME NEW e \in Event, Arrives(e) PROVE Ledger!Arrive(e)
    <2>1. /\ Phases' = [Phases EXCEPT ![e] = "pending"]
          /\ Tries' = Tries
          /\ Phases[e] \in {"absent", "dead"}
      BY <1>1 DEF Arrives, OnlyMoves, Phases, Tries
    <2> QED
      BY <2>1 DEF Ledger!Arrive, Phases, Tries, PhaseOf, TriesOf
  <1>2. ASSUME NEW e \in Event, Settles(e) PROVE Ledger!Settle(e)
    <2>1. Phases[e] = "claimed"
      BY <1>2 DEF Settles, Phases
    <2>2. \/ /\ Phases' = [Phases EXCEPT ![e] = "absent"]
             /\ Tries' = [Tries EXCEPT ![e] = 0]
          \/ /\ Tries[e] + 1 < MaxAttempts
             /\ Phases' = [Phases EXCEPT ![e] = "pending"]
             /\ Tries' = [Tries EXCEPT ![e] = @ + 1]
          \/ /\ Phases' = [Phases EXCEPT ![e] = "dead"]
             /\ Tries' = [Tries EXCEPT ![e] = @ + 1]
      BY <1>2 DEF Settles, OnlyMoves, Phases, Tries
    <2> QED
      BY <2>1, <2>2 DEF Ledger!Settle, Phases, Tries, PhaseOf, TriesOf
  <1>3. ASSUME NEW batch \in SUBSET Event, Claims(batch) PROVE Ledger!Claim(batch)
    <2>1. /\ {f \in Event : Phases[f] = "claimed"} = {}
          /\ batch # {} /\ batch \subseteq {f \in Event : Phases[f] = "pending"}
          /\ Phases' = [f \in Event |-> IF f \in batch THEN "claimed" ELSE Phases[f]]
          /\ Tries' = Tries
      BY <1>3 DEF Claims, Phases, Tries
    <2> QED
      BY <2>1 DEF Ledger!Claim, Ledger!In, Phases, Tries, PhaseOf, TriesOf
  <1>4. ASSUME Forgets PROVE Ledger!Forget
    <2>1. /\ Phases' = [f \in Event |-> IF Phases[f] = "dead" THEN "dead" ELSE "absent"]
          /\ Tries' = Tries
      BY <1>4 DEF Forgets, Phases, Tries
    <2> QED
      BY <2>1 DEF Ledger!Forget, Phases, Tries, PhaseOf, TriesOf
  <1>5. ASSUME Stutters PROVE UNCHANGED <<Phases, Tries>>
    BY <1>5 DEF Stutters, Phases, Tries
  <1> QED
    BY <1>1, <1>2, <1>3, <1>4, <1>5 DEF LedgerStep, Ledger!LedgerNext

-----------------------------------------------------------------------------
\* What leaves the queue, the active epoch and the retry rows alone is no step
\* of the ledger.
LEMMA SameLedger ==
    ASSUME TypeOK, UNCHANGED <<queue, dbRetries>>, InFlight' = InFlight
    PROVE  Stutters
  BY DEF Stutters, PhaseOf, TriesOf, DeadIn

\* A new event arrives; one that is known is left where it is.
LEMMA RequestMoves ==
    ASSUME IInv, NEW e \in Event, Request(e)
    PROVE  Arrives(e) \/ Stutters
  <1>0. TypeOK /\ RetryStateDurable /\ InFlightStaysQueued
    BY DEF IInv
  <1>1. /\ UNCHANGED dbRetries /\ InFlight' = InFlight
        /\ deadLetter = DeadIn(dbRetries)
        /\ queue' = IF e \in deadLetter THEN queue ELSE queue \cup {e}
    BY <1>0 DEF Request, database, InFlight, RetryStateDurable
  <1>2. CASE e \in deadLetter \/ e \in queue
    <2>1. UNCHANGED queue
      BY <1>1, <1>2
    <2> QED
      BY <1>0, <1>1, <2>1, SameLedger
  <1>3. CASE e \notin deadLetter /\ e \notin queue
    <2>1. e \notin InFlight
      BY <1>0, <1>3 DEF InFlightStaysQueued
    <2> QED
      BY <1>1, <1>3, <2>1 DEF Arrives, OnlyMoves, PhaseOf, TriesOf, DeadIn
  <1> QED
    BY <1>2, <1>3

\* An event that the operator or the loop releases arrives again.
LEMMA ReleaseMoves ==
    ASSUME IInv, NEW e \in Event,
           RetryEvent(e) \/ ForceRetryEvent(e) \/ ReleaseEvent(e)
    PROVE  Arrives(e) \/ Stutters
  <1> DEFINE item == [retries[e] EXCEPT !.due = TRUE, !.status = "retry_wait"]
  <1>0. TypeOK /\ RetryStateDurable /\ InFlightStaysQueued
    BY DEF IInv
  <1>1. /\ mode = "open" /\ queue' = queue \cup {e} /\ SaveRetry(e, item)
        /\ InFlight' = InFlight
    BY DEF RetryEvent, ForceRetryEvent, ReleaseEvent, ForceRetry, InFlight
  <1>2. /\ retries = dbRetries /\ deadLetter = DeadIn(dbRetries)
    BY <1>0, <1>1 DEF RetryStateDurable
  <1>3. /\ item \in RetryItem /\ item.status # "dead_letter"
        /\ item.attempt = retries[e].attempt
    BY <1>0, ReleasedItem DEF TypeOK, RetryItem
  <1> HIDE DEF item
  <1>4. /\ dbRetries'[e] = item /\ DeadIn(dbRetries') = DeadIn(dbRetries) \ {e}
        /\ \A f \in Event : f # e => dbRetries'[f] = dbRetries[f]
    BY <1>0, <1>1, <1>3, SaveRetryFact
  <1>5. OnlyMoves(e) /\ TriesOf(e)' = TriesOf(e)
    BY <1>1, <1>2, <1>3, <1>4 DEF OnlyMoves, PhaseOf, TriesOf
  <1>6. CASE e \in queue /\ e \notin deadLetter
    BY <1>1, <1>2, <1>4, <1>5, <1>6 DEF Stutters, OnlyMoves, PhaseOf
  <1>7. CASE e \notin queue \/ e \in deadLetter
    <2>1. e \notin InFlight
      BY <1>0, <1>7 DEF InFlightStaysQueued
    <2> QED
      BY <1>1, <1>2, <1>4, <1>5, <1>7, <2>1 DEF Arrives, PhaseOf
  <1> QED
    BY <1>6, <1>7

\* A new epoch claims the events it holds; none was claimed before.
LEMMA EpochClaims ==
    ASSUME IInv, NEW e \in Event, NextEpoch(e)
    PROVE  Claims(Eligible)
  <1>0. TypeOK /\ RetryStateDurable
    BY DEF IInv
  <1>1. /\ mode = "open" /\ mode' = mode /\ reserved = NoEpoch
        /\ e \in Eligible /\ UNCHANGED <<queue, dbRetries>>
        /\ reserved'.rev = latest /\ reserved'.events = Eligible /\ latest > 0
    BY DEF NextEpoch, NextId, MostTried, Idle
  <1>2. InFlight = {} /\ InFlight' = Eligible
    BY <1>1 DEF InFlight, NoEpoch
  <1>3. deadLetter = DeadIn(dbRetries) /\ DeadIn(dbRetries') = DeadIn(dbRetries)
    BY <1>0, <1>1 DEF RetryStateDurable
  <1> QED
    BY <1>1, <1>2, <1>3 DEF Claims, Eligible, PhaseOf, TriesOf

\* finish settles each claimed event within its budget of retries.
LEMMA SettleMoves ==
    ASSUME IInv, NEW e \in Event, SettleEvent(e)
    PROVE  Settles(e)
  <1>0. TypeOK /\ ActiveWellFormed
    BY DEF IInv
  <1>1. /\ e \in queue /\ e \notin DeadIn(dbRetries) /\ retries = dbRetries
        /\ mode = "finishing" /\ mode' = mode
    BY SettledIsLive
  <1>2. /\ e \in unsettled /\ unsettled' = unsettled \ {e} /\ reserved' = reserved
    BY DEF SettleEvent, Consume, Reschedule, DeadLetterEvent
  <1>3. reserved # NoEpoch
    BY <1>0, <1>1 DEF ActiveWellFormed
  <1>4. InFlight = unsettled /\ InFlight' = unsettled \ {e}
    BY <1>1, <1>2, <1>3 DEF InFlight
  <1>5. PhaseOf(e) = "claimed"
    BY <1>1, <1>2, <1>4 DEF PhaseOf
  <1>6. \A f \in Event : f # e => (f \in queue' <=> f \in queue)
    BY DEF SettleEvent, Consume, Reschedule, DeadLetterEvent, Pop
  <1>7. ASSUME NEW item \in RetryItem, SaveRetry(e, item)
        PROVE  /\ OnlyMoves(e)
               /\ TriesOf(e)' = item.attempt
               /\ e \in DeadIn(dbRetries') <=> item.status = "dead_letter"
    <2>1. /\ dbRetries'[e] = item
          /\ \A f \in Event : f # e => dbRetries'[f] = dbRetries[f]
      BY <1>0, <1>7, SaveRetryFact
    <2> QED
      BY <1>4, <1>6, <2>1 DEF OnlyMoves, PhaseOf, TriesOf, DeadIn
  <1>8. CASE Consume(e)
    <2>1. NoRetry \in RetryItem /\ NoRetry.attempt = 0 /\ NoRetry.status = "none"
      BY DEF NoRetry, RetryItem
    <2>2. SaveRetry(e, NoRetry) /\ e \notin queue'
      BY <1>8 DEF Consume, Pop
    <2>3. PhaseOf(e)' = "absent" /\ TriesOf(e)' = 0 /\ OnlyMoves(e)
      BY <1>4, <1>7, <2>1, <2>2 DEF PhaseOf
    <2> QED
      BY <1>5, <2>3 DEF Settles
  <1>9. CASE Reschedule(e)
    <2> DEFINE item == [attempt |-> retries[e].attempt + 1, due |-> FALSE,
                        status |-> "retry_wait", trigger |-> Payload(e)]
    <2>1. /\ item \in RetryItem /\ item.status = "retry_wait"
          /\ item.attempt = TriesOf(e) + 1
      BY <1>0, <1>1 DEF TypeOK, RetryItem, Payload, TriesOf
    <2>2. SaveRetry(e, item) /\ e \in queue'
      BY <1>1, <1>9 DEF Reschedule
    <2>3. TriesOf(e) + 1 < MaxAttempts
      BY <1>0, <1>1, <1>9, PlanningEpochAssumption
         DEF Reschedule, Exhausted, TriesOf, TypeOK, RetryItem
    <2> HIDE DEF item
    <2>4. PhaseOf(e)' = "pending" /\ TriesOf(e)' = TriesOf(e) + 1 /\ OnlyMoves(e)
      BY <1>4, <1>7, <2>1, <2>2 DEF PhaseOf
    <2> QED
      BY <1>5, <2>3, <2>4 DEF Settles
  <1>10. CASE DeadLetterEvent(e)
    <2> DEFINE item == [attempt |-> retries[e].attempt + 1, due |-> FALSE,
                        status |-> "dead_letter", trigger |-> Payload(e)]
    <2>1. /\ item \in RetryItem /\ item.status = "dead_letter"
          /\ item.attempt = TriesOf(e) + 1
      BY <1>0, <1>1 DEF TypeOK, RetryItem, Payload, TriesOf
    <2>2. SaveRetry(e, item)
      BY <1>10 DEF DeadLetterEvent
    <2> HIDE DEF item
    <2>3. PhaseOf(e)' = "dead" /\ TriesOf(e)' = TriesOf(e) + 1 /\ OnlyMoves(e)
      BY <1>7, <2>1, <2>2 DEF PhaseOf
    <2> QED
      BY <1>5, <2>3 DEF Settles
  <1> QED
    BY <1>8, <1>9, <1>10 DEF SettleEvent

\* A stop forgets every event but the dead letters.
LEMMA StopForgets ==
    ASSUME IInv, Stop
    PROVE  Forgets
  <1>1. queue' = {} /\ reserved' = NoEpoch /\ dbRetries' = dbRetries
    BY DEF Stop, database
  <1>2. InFlight' = {} /\ DeadIn(dbRetries') = DeadIn(dbRetries)
    BY <1>1 DEF InFlight
  <1> QED
    BY <1>1, <1>2 DEF Forgets, PhaseOf, TriesOf

\* Each step of the coordinator is one of the ledger, or none.
LEMMA LedgerMoves == IInv /\ [Next]_vars => LedgerStep
  <1> SUFFICES ASSUME IInv, [Next]_vars PROVE LedgerStep
    OBVIOUS
  <1>0. TypeOK /\ ActiveWellFormed
    BY DEF IInv
  <1>1. ASSUME NEW e \in Event,
               \/ Request(e) \/ RetryEvent(e)
               \/ ForceRetryEvent(e) \/ ReleaseEvent(e)
        PROVE  LedgerStep
    BY <1>1, RequestMoves, ReleaseMoves DEF LedgerStep
  <1>2. ASSUME NEW e \in Event, BackoffElapses(e) PROVE LedgerStep
    <2>1. \A f \in Event : /\ dbRetries'[f].status = dbRetries[f].status
                           /\ dbRetries'[f].attempt = dbRetries[f].attempt
      BY <1>0, <1>2 DEF BackoffElapses, TypeOK, RetryItem
    <2>2. InFlight' = InFlight /\ queue' = queue
      BY <1>2 DEF BackoffElapses, InFlight
    <2>3. Stutters
      BY <2>1, <2>2 DEF Stutters, PhaseOf, TriesOf, DeadIn
    <2> QED
      BY <2>3 DEF LedgerStep
  <1>3. ASSUME NEW e \in Event, NextEpoch(e) PROVE LedgerStep
    <2>1. Eligible \in SUBSET Event
      BY <1>0 DEF Eligible, TypeOK
    <2> QED
      BY <1>3, <2>1, EpochClaims DEF LedgerStep
  <1>4. ASSUME NEW e \in Event, SettleEvent(e) PROVE LedgerStep
    BY <1>4, SettleMoves DEF LedgerStep
  <1>5. CASE Stop
    BY <1>5, StopForgets DEF LedgerStep
  <1>6. ASSUME NEW o \in LoopOutcome, FinishPersists(o) PROVE LedgerStep
    <2>1. InFlight' = InFlight /\ UNCHANGED <<queue, dbRetries>>
      BY <1>0, <1>6 DEF FinishPersists, InFlight, ActiveWellFormed
    <2> QED
      BY <1>0, <2>1, SameLedger DEF LedgerStep
  <1>7. CASE \/ \E r \in 1 .. MaxRevision : Observe(r)
             \/ \E e \in Event : ReleaseRefused(e)
             \/ MarkRunning
             \/ \E o \in PortOutcome : PortPersists(o)
             \/ FinishReturns \/ Start
             \/ UNCHANGED vars
    <2>1. InFlight' = InFlight /\ UNCHANGED <<queue, dbRetries>>
      BY <1>0, <1>7 DEF Observe, ReleaseRefused, MarkRunning, PortPersists, FinishReturns, Start,
                        InFlight, ActiveWellFormed, vars, memory, database
    <2> QED
      BY <1>0, <2>1, SameLedger DEF LedgerStep
  <1> QED
    BY <1>1, <1>2, <1>3, <1>4, <1>5, <1>6, <1>7 DEF Next

\* The coordinator, its queue, its epochs and its tables implement the ledger
\* of triggers: one batch at a time, each claimed trigger settled once, and the
\* ceiling of automatic retries across stops.
THEOREM ImplementsTriggerLedger == Spec => KeepsLedger
  <1>1. Init => Phases = [e \in Event |-> "absent"] /\ Tries = [e \in Event |-> 0]
    BY DEF Init, Phases, Tries, PhaseOf, TriesOf, DeadIn, InFlight, NoRetry
  <1>2. Init => Ledger!LedgerInit
    BY <1>1 DEF Ledger!LedgerInit, Phases, Tries, PhaseOf, TriesOf
  <1>3. IInv /\ [Next]_vars => [Ledger!LedgerNext]_<<Phases, Tries>>
    BY LedgerMoves, LedgerStepIsNext
  <1> QED
    BY <1>2, <1>3, Invariance, PTL
       DEF Spec, KeepsLedger, Ledger!LedgerSpec, Phases, Tries, PhaseOf, TriesOf
=============================================================================
