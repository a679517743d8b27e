------------------------ MODULE MemoryPipelineProofs ------------------------
(***************************************************************************)
(* Proofs about MemoryPipeline, for any workers, kinds of events, limits   *)
(* and bounds.                                                             *)
(*                                                                         *)
(* NothingSkipped is about the cursor; what makes it inductive is that a   *)
(* worker that reads has queued every eligible event up to where it is,    *)
(* also those another worker was to queue (ReadersHaveQueued).             *)
(***************************************************************************)
EXTENDS MemoryPipeline, TLAPS

Reads(w) == worker[w].at \in {"reading", "merging"}

ReadersInOrder ==
    /\ cursor <= Len(log)
    /\ \A w \in Worker : Reads(w) =>
         /\ worker[w].next <= worker[w].last
         /\ worker[w].last <= Len(log)
         /\ worker[w].at = "merging" =>
              worker[w].next = worker[w].last /\ worker[w].event \in Event

Queued(e) == log[e].eligible => work[e].status # "none"

ReadersHaveQueued ==
    \A w \in Worker : Reads(w) =>
      \A e \in Published : e <= worker[w].next => Queued(e)

IInv ==
    /\ TypeOK
    /\ ReadersInOrder
    /\ ReadersHaveQueued
    /\ NothingSkipped
    /\ FamiliesAreChains

-----------------------------------------------------------------------------
\* The form of what a worker is doing follows from where it is.
LEMMA Forms ==
    ASSUME TypeOK, NEW w \in Worker
    PROVE  /\ Reads(w) => worker[w] \in Reading
           /\ worker[w].at \in {"deciding", "completing", "failing"}
                => worker[w] \in Handling
           /\ worker[w].at = "creating" => worker[w] \in Creating
  <1>1. worker[w] \in {Idle} \cup Reading \cup Handling \cup Creating
    BY DEF TypeOK
  <1>2. CASE worker[w] = Idle
    BY <1>2 DEF Idle, Reads
  <1>3. CASE worker[w] \in Reading
    BY <1>3 DEF Reading, Reads
  <1>4. CASE worker[w] \in Handling
    BY <1>4 DEF Handling, Reads
  <1>5. CASE worker[w] \in Creating
    BY <1>5 DEF Creating, Reads
  <1> QED
    BY <1>1, <1>2, <1>3, <1>4, <1>5

LEMMA SweptType ==
    ASSUME TypeOK
    PROVE  /\ Swept \in [Event -> Item]
           /\ \A e \in Event : Swept[e].status = "none" => work[e].status = "none"
  <1>1. ASSUME NEW e \in Event
        PROVE  /\ Swept[e] \in Item
               /\ Swept[e].status = "none" => work[e].status = "none"
    <2>1. work[e] \in Item
      BY DEF TypeOK
    <2>2. CASE Spent(work[e])
      BY <2>1, <2>2 DEF Swept, Item
    <2>3. CASE ~ Spent(work[e])
      BY <2>1, <2>3 DEF Swept
    <2> QED
      BY <2>2, <2>3
  <1>2. Swept = [e \in Event |-> Swept[e]]
    BY DEF Swept
  <1> QED
    BY <1>1, <1>2

\* A round that reads, or goes on reading.
LEMMA RoundType ==
    ASSUME NEW next \in 0 .. MaxEvents, NEW last \in 0 .. MaxEvents,
           NEW left \in SUBSET Event
    PROVE  /\ Round(next, last, left) \in Reading
           /\ Round(next, last, left).at = "reading"
           /\ Round(next, last, left).next = next
           /\ Round(next, last, left).last = last
           /\ Round(next, last, left).left = left
  <1>1. 0 \in 0 .. MaxEvents
    BY MemoryPipelineAssumption
  <1> QED
    BY <1>1 DEF Round, Reading

\* A worker moves to a well-formed state, and the others stay.
LEMMA GoesType ==
    ASSUME TypeOK, NEW w \in Worker, NEW state, Goes(w, state),
           state \in {Idle} \cup Reading \cup Handling \cup Creating
    PROVE  /\ worker' \in [Worker -> {Idle} \cup Reading \cup Handling \cup Creating]
           /\ worker'[w] = state
           /\ \A v \in Worker \ {w} : worker'[v] = worker[v]
  BY DEF TypeOK, Goes

LEMMA InitIInv == Init => IInv
  <1> SUFFICES ASSUME Init PROVE IInv
    OBVIOUS
  <1> USE MemoryPipelineAssumption DEF Init
  <1>1. log \in Seq(Kind) /\ Len(log) = 0
    OBVIOUS
  <1>2. work \in [Event -> Item]
    BY DEF NoItem, Item
  <1>3. worker \in [Worker -> {Idle} \cup Reading \cup Handling \cup Creating]
    OBVIOUS
  <1>4. TypeOK
    <2>1. MaxEvents \in Nat /\ MaxDisturbances \in Nat /\ room \in Nat
      OBVIOUS
    <2>2. told \in SUBSET Event /\ memories \in SUBSET Memory
      BY SMTT(30)
    <2>3. cursor \in 0 .. MaxEvents /\ interrupts \in 0 .. MaxDisturbances
      BY <2>1
    <2>4. deletes \in 0 .. MaxDisturbances
      BY <2>1
    <2>5. overlapped \in BOOLEAN
      OBVIOUS
    <2>6. log \in Seq(Kind) /\ Len(log) <= MaxEvents
      BY <1>1, <2>1
    <2> HIDE DEF Init
    <2> QED
      BY <1>2, <1>3, <2>1, <2>2, <2>3, <2>4, <2>5, <2>6 DEF TypeOK
  <1>5. Published = {}
    BY <1>1 DEF Published
  <1>6. \A w \in Worker : ~ Reads(w)
    BY DEF Reads, Idle
  <1>7. FamiliesAreChains
    BY DEF FamiliesAreChains
  <1> QED
    BY <1>1, <1>4, <1>5, <1>6, <1>7
    DEF IInv, ReadersInOrder, ReadersHaveQueued, NothingSkipped

-----------------------------------------------------------------------------
\* One step per action, by the variables that it can disturb.
LEMMA NextTypeOK == IInv /\ [Next]_vars => TypeOK'
  <1> SUFFICES ASSUME IInv, [Next]_vars PROVE TypeOK'
    OBVIOUS
  <1> USE DEF episode
  <1> DEFINE State == {Idle} \cup Reading \cup Handling \cup Creating
  <1>0. TypeOK /\ ReadersInOrder
    BY DEF IInv
  <1>a. /\ log \in Seq(Kind) /\ Len(log) <= MaxEvents /\ Len(log) \in Nat
        /\ cursor \in 0 .. MaxEvents
        /\ work \in [Event -> Item]
        /\ memories \in SUBSET Memory
        /\ told \in SUBSET Event /\ room \in Nat /\ overlapped \in BOOLEAN
        /\ worker \in [Worker -> State]
        /\ interrupts \in 0 .. MaxDisturbances
        /\ deletes \in 0 .. MaxDisturbances
        /\ MaxEvents \in Nat /\ MaxAttempts \in Nat /\ MaxDisturbances \in Nat
    BY <1>0, MemoryPipelineAssumption DEF TypeOK
  <1>1. ASSUME NEW kind \in Kind, Publish(kind) PROVE TypeOK'
    <2>1. log' \in Seq(Kind) /\ Len(log') = Len(log) + 1
      BY <1>1, <1>a DEF Publish
    <2> QED
      BY <1>1, <1>a, <2>1 DEF Publish, TypeOK
  <1>2. ASSUME NEW w \in Worker, PollSources(w) PROVE TypeOK'
    <2>1. PICK last \in Published :
            Goes(w, Round(cursor, last, Transitions(last)))
      BY <1>2 DEF PollSources
    <2>2. Round(cursor, last, Transitions(last)) \in State
      <3>1. Transitions(last) \in SUBSET Event /\ last \in 0 .. MaxEvents
        BY <1>a, <2>1 DEF Published, Transitions, Event
      <3> QED
        BY <1>a, <3>1, RoundType
    <2>3. worker' \in [Worker -> State]
      BY <1>0, <2>1, <2>2, GoesType
    <2>4. work' \in [Event -> Item]
      BY <1>0, <1>2, SweptType DEF PollSources
    <2> QED
      BY <1>2, <1>a, <2>3, <2>4 DEF PollSources, TypeOK
  <1>3. ASSUME NEW w \in Worker, PollNothing(w) PROVE TypeOK'
    <2>1. work' \in [Event -> Item]
      BY <1>0, <1>3, SweptType DEF PollNothing
    <2> QED
      BY <1>3, <1>a, <2>1 DEF PollNothing, TypeOK
  <1>4. ASSUME NEW w \in Worker, Enqueue(w) PROVE TypeOK'
    <2> DEFINE e == worker[w].next + 1
    <2>1. worker[w] \in Reading /\ worker[w].next < worker[w].last
      BY <1>0, <1>4, Forms DEF Enqueue, Reads
    <2>2. e \in Event /\ e \in 0 .. MaxEvents
      BY <1>a, <2>1 DEF Reading, Event
    <2>3. [worker[w] EXCEPT !.next = e] \in State
      BY <2>1, <2>2 DEF Reading
    <2>4. Goes(w, [worker[w] EXCEPT !.next = e])
      BY <1>4 DEF Enqueue
    <2>5. worker' \in [Worker -> State]
      BY <1>0, <2>3, <2>4, GoesType
    <2>6. CASE work' = work /\ cursor' = cursor
      BY <1>4, <1>a, <2>5, <2>6 DEF Enqueue, TypeOK
    <2>7. CASE /\ work' = [work EXCEPT ![e].status = "pending", ![e].due = TRUE]
               /\ cursor' = Acknowledged(w, e)
      <3>1. [work[e] EXCEPT !.status = "pending", !.due = TRUE] \in Item
        BY <1>a, <2>2 DEF Item
      <3>2. work' \in [Event -> Item]
        BY <1>a, <2>2, <2>7, <3>1
      <3>3. cursor' \in 0 .. MaxEvents
        BY <1>a, <2>2, <2>7 DEF Acknowledged, Later
      <3> QED
        BY <1>4, <1>a, <2>5, <3>2, <3>3 DEF Enqueue, TypeOK
    <2> QED
      BY <1>4, <2>6, <2>7 DEF Enqueue
  <1>5. ASSUME NEW w \in Worker, NEW e \in Event, ReadEpisode(w, e) PROVE TypeOK'
    <2>1. worker[w] \in Reading /\ e \in 0 .. MaxEvents
      BY <1>0, <1>5, <1>a, Forms DEF ReadEpisode, Reads, Event
    <2>2. [worker[w] EXCEPT !.at = "merging", !.event = e, !.ids = told] \in State
      BY <1>a, <2>1 DEF Reading
    <2>3. worker' \in [Worker -> State]
      BY <1>0, <1>5, <2>2, GoesType DEF ReadEpisode
    <2>4. overlapped' \in BOOLEAN
      BY <1>5, <1>a DEF ReadEpisode
    <2> QED
      BY <1>5, <1>a, <2>3, <2>4 DEF ReadEpisode, TypeOK
  <1>5a. ASSUME NEW w \in Worker, WriteEpisode(w) PROVE TypeOK'
    <2>1. worker[w] \in Reading
      BY <1>0, <1>5a, Forms DEF WriteEpisode, Reads
    <2>2. Round(worker[w].next, worker[w].last,
                worker[w].left \ {worker[w].event}) \in State
      <3>1. worker[w].left \ {worker[w].event} \in SUBSET Event
        BY <2>1 DEF Reading
      <3>2. worker[w].next \in 0 .. MaxEvents /\ worker[w].last \in 0 .. MaxEvents
        BY <2>1 DEF Reading
      <3> QED
        BY <3>1, <3>2, RoundType
    <2>3. worker' \in [Worker -> State]
      BY <1>0, <1>5a, <2>2, GoesType DEF WriteEpisode
    <2>4. worker[w].event \in Event
      BY <1>0, <1>5a DEF ReadersInOrder, Reads, WriteEpisode
    <2>5. told' \in SUBSET Event
      BY <1>5a, <2>1, <2>4 DEF WriteEpisode, MergeIds, Reading
    <2> QED
      BY <1>5a, <1>a, <2>3, <2>5 DEF WriteEpisode, TypeOK
  <1>6. ASSUME NEW w \in Worker, AdvanceCursor(w) PROVE TypeOK'
    <2>1. worker[w] \in Reading
      BY <1>0, <1>6, Forms DEF AdvanceCursor, Reads
    <2>2. worker' \in [Worker -> State]
      BY <1>0, <1>6, GoesType DEF AdvanceCursor
    <2>3. cursor' \in 0 .. MaxEvents
      BY <1>6, <1>a, <2>1 DEF AdvanceCursor, Later, Reading
    <2> QED
      BY <1>6, <1>a, <2>2, <2>3 DEF AdvanceCursor, TypeOK
  <1>7. ASSUME NEW w \in Worker, NEW e \in Event, Claim(w, e) PROVE TypeOK'
    <2>1. work[e].attempts < MaxAttempts
      BY <1>7 DEF Claim, Claimable
    <2>2. Taken(w, work[e]) \in Item
      <3>1. work[e] \in Item /\ work[e].attempts + 1 \in 0 .. MaxAttempts
        BY <1>a, <2>1 DEF Item
      <3>2. {w} \in SUBSET Worker
        OBVIOUS
      <3> QED
        BY <3>1, <3>2 DEF Item, Taken
    <2>4. work' \in [Event -> Item]
      BY <1>0, <1>7, <2>2, SweptType DEF Claim
    <2>5. [at |-> "deciding", item |-> e] \in State
      BY DEF Handling
    <2>6. worker' \in [Worker -> State]
      BY <1>0, <1>7, <2>5, GoesType DEF Claim
    <2> QED
      BY <1>7, <1>a, <2>4, <2>6 DEF Claim, TypeOK
  <1>8. ASSUME NEW w \in Worker,
               Decline(w) \/ ProviderFails(w) \/ FindVersion(w) \/ Conflict(w)
        PROVE  TypeOK'
    <2>1. worker[w].item \in Event
      BY <1>0, <1>8, Forms DEF Decline, ProviderFails, FindVersion, Conflict,
                               Handling, Creating
    <2>2. \A a \in {"completing", "failing"} :
            [at |-> a, item |-> worker[w].item] \in State
      BY <2>1 DEF Handling
    <2>3. worker' \in [Worker -> State]
      BY <1>0, <1>8, <2>2, GoesType DEF Decline, ProviderFails, FindVersion, Conflict
    <2> QED
      BY <1>8, <1>a, <2>3 DEF Decline, ProviderFails, FindVersion, Conflict, TypeOK
  <1>9. ASSUME NEW w \in Worker, Decide(w) PROVE TypeOK'
    <2> DEFINE e == worker[w].item
    <2>1. e \in Event
      BY <1>0, <1>9, Forms DEF Decide, Handling
    <2>2. worker' \in [Worker -> State]
      <3>1. CASE \E family \in {e} \cup Named :
                   Goes(w, [at |-> "creating", item |-> e, family |-> family,
                            previous |-> 0])
        <4>1. PICK family \in {e} \cup Named :
                Goes(w, [at |-> "creating", item |-> e, family |-> family,
                         previous |-> 0])
          BY <3>1
        <4>2. family \in Event
          BY <2>1, <4>1, MemoryPipelineAssumption DEF Event
        <4>3. [at |-> "creating", item |-> e, family |-> family, previous |-> 0] \in State
          BY <2>1, <4>2 DEF Creating
        <4> QED
          BY <1>0, <4>1, <4>3, GoesType
      <3>2. CASE \E m \in memories :
                   /\ m.status = "active"
                   /\ Goes(w, [at |-> "creating", item |-> e, family |-> m.family,
                               previous |-> m.version])
        <4>1. PICK m \in memories :
                Goes(w, [at |-> "creating", item |-> e, family |-> m.family,
                         previous |-> m.version])
          BY <3>2
        <4>2. m \in Memory
          BY <1>a, <4>1
        <4>3. [at |-> "creating", item |-> e, family |-> m.family,
               previous |-> m.version] \in State
          BY <2>1, <4>2 DEF Creating, Memory
        <4> QED
          BY <1>0, <4>1, <4>3, GoesType
      <3> QED
        BY <1>9, <3>1, <3>2 DEF Decide
    <2> QED
      BY <1>9, <1>a, <2>2 DEF Decide, TypeOK
  <1>10. ASSUME NEW w \in Worker, CreateVersion(w) PROVE TypeOK'
    <2>1. worker[w] \in Creating
      BY <1>0, <1>10, Forms DEF CreateVersion
    <2>2. NewVersion(w) \in Memory
      BY <2>1 DEF NewVersion, Memory, Creating
    <2>3. ASSUME NEW m \in memories PROVE Superseded(m, worker[w].family) \in Memory
      BY <1>a DEF Superseded, Memory
    <2>4. memories' \in SUBSET Memory
      BY <1>10, <2>2, <2>3 DEF CreateVersion
    <2>5. [at |-> "completing", item |-> worker[w].item] \in State
      BY <2>1 DEF Creating, Handling
    <2>6. worker' \in [Worker -> State]
      BY <1>0, <1>10, <2>5, GoesType DEF CreateVersion
    <2> QED
      BY <1>10, <1>a, <2>4, <2>6 DEF CreateVersion, TypeOK
  <1>11. ASSUME NEW w \in Worker, Complete(w) PROVE TypeOK'
    <2> DEFINE e == worker[w].item
    <2>1. e \in Event
      BY <1>0, <1>11, Forms DEF Complete, Handling
    <2>2. [work[e] EXCEPT !.status = "completed", !.by = {}, !.held = FALSE] \in Item
      BY <1>a, <2>1 DEF Item
    <2>3. work' \in [Event -> Item]
      BY <1>11, <1>a, <2>1, <2>2 DEF Complete
    <2>4. worker' \in [Worker -> State]
      BY <1>0, <1>11, GoesType DEF Complete
    <2> QED
      BY <1>11, <1>a, <2>3, <2>4 DEF Complete, TypeOK
  <1>12. ASSUME NEW w \in Worker, FailWork(w) PROVE TypeOK'
    <2> DEFINE e == worker[w].item
    <2>1. e \in Event
      BY <1>0, <1>12, Forms DEF FailWork, Handling
    <2>2. Retried(work[e]) \in Item
      BY <1>a, <2>1 DEF Item, Retried
    <2>3. work' \in [Event -> Item]
      BY <1>12, <1>a, <2>1, <2>2 DEF FailWork
    <2>4. worker' \in [Worker -> State]
      BY <1>0, <1>12, GoesType DEF FailWork
    <2> QED
      BY <1>12, <1>a, <2>3, <2>4 DEF FailWork, TypeOK
  <1>13. ASSUME NEW e \in Event, LeaseExpires(e) \/ BackoffElapses(e) PROVE TypeOK'
    <2>1. /\ [work[e] EXCEPT !.held = FALSE] \in Item
          /\ [work[e] EXCEPT !.due = TRUE] \in Item
      BY <1>a DEF Item
    <2>2. work' \in [Event -> Item]
      BY <1>13, <1>a, <2>1 DEF LeaseExpires, BackoffElapses
    <2> QED
      BY <1>13, <1>a, <2>2 DEF LeaseExpires, BackoffElapses, TypeOK
  <1>14. ASSUME NEW family \in Event, DeleteFamily(family) PROVE TypeOK'
    <2>0. \A m \in memories : [m EXCEPT !.status = "deleted"] \in Memory
      BY <1>a DEF Memory
    <2>1. memories' \in SUBSET Memory
      BY <1>14, <1>a, <2>0 DEF DeleteFamily
    <2> QED
      BY <1>14, <1>a, <2>1 DEF DeleteFamily, Disturbances, TypeOK
  <1>15. ASSUME NEW m \in memories, Archive(m) PROVE TypeOK'
    <2>1. [m EXCEPT !.status = "archived"] \in Memory
      BY <1>a DEF Memory
    <2> QED
      BY <1>15, <1>a, <2>1 DEF Archive, Disturbances, TypeOK
  <1>16. ASSUME NEW w \in Worker, Interrupt(w) PROVE TypeOK'
    <2>1. worker' \in [Worker -> State]
      BY <1>0, <1>16, GoesType DEF Interrupt
    <2> QED
      BY <1>16, <1>a, <2>1 DEF Interrupt, Disturbances, TypeOK
  <1>17. CASE UNCHANGED vars
    BY <1>17, <1>0 DEF vars, TypeOK
  <1> QED
    BY <1>1, <1>2, <1>3, <1>4, <1>5, <1>5a, <1>6, <1>7, <1>8, <1>9, <1>10,
       <1>11, <1>12, <1>13, <1>14, <1>15, <1>16, <1>17 DEF Next, Step, Handle

-----------------------------------------------------------------------------
\* Events stay as published, and an item once queued stays queued.
LEMMA LogGrows ==
    ASSUME IInv, [Next]_vars
    PROVE  /\ Len(log) <= Len(log')
           /\ \A e \in Published : log'[e] = log[e]
  <1>0. TypeOK
    BY DEF IInv
  <1>1. ASSUME NEW kind \in Kind, Publish(kind)
        PROVE  Len(log) <= Len(log') /\ \A e \in Published : log'[e] = log[e]
    BY <1>0, <1>1 DEF Publish, TypeOK, Published
  <1>2. CASE UNCHANGED log
    BY <1>0, <1>2 DEF TypeOK
  <1> QED
    BY <1>1, <1>2 DEF Next, Step, Handle, vars, PollSources, PollNothing, Enqueue,
       ReadEpisode, WriteEpisode, AdvanceCursor, Claim, Decline, Decide, ProviderFails,
       CreateVersion, FindVersion, Conflict, Complete, FailWork, LeaseExpires, BackoffElapses,
       DeleteFamily, Archive, Interrupt

LEMMA ItemsStay ==
    ASSUME IInv, [Next]_vars, NEW e \in Event, work[e].status # "none"
    PROVE  work'[e].status # "none"
  <1>0. TypeOK /\ work \in [Event -> Item]
    BY DEF IInv, TypeOK
  <1>1. ASSUME NEW w \in Worker, PollSources(w) \/ PollNothing(w)
        PROVE  work'[e].status # "none"
    BY <1>0, <1>1, SweptType DEF PollSources, PollNothing
  <1>2. ASSUME NEW w \in Worker, Enqueue(w) PROVE work'[e].status # "none"
    BY <1>0, <1>2 DEF Enqueue, Item
  <1>3. ASSUME NEW w \in Worker, NEW d \in Event, Claim(w, d)
        PROVE  work'[e].status # "none"
    <2>1. Taken(w, work[d]).status = "processing"
      BY <1>0 DEF Taken, Item
    <2> QED
      BY <1>0, <1>3, <2>1, SweptType DEF Claim
  <1>4. ASSUME NEW w \in Worker, Complete(w) PROVE work'[e].status # "none"
    BY <1>0, <1>4 DEF Complete, Item
  <1>5. ASSUME NEW w \in Worker, FailWork(w) PROVE work'[e].status # "none"
    BY <1>0, <1>5 DEF FailWork, Retried, Item
  <1>6. ASSUME NEW d \in Event, LeaseExpires(d) \/ BackoffElapses(d)
        PROVE  work'[e].status # "none"
    BY <1>0, <1>6 DEF LeaseExpires, BackoffElapses, Item
  <1>7. CASE UNCHANGED work
    BY <1>7
  <1> QED
    BY <1>1, <1>2, <1>3, <1>4, <1>5, <1>6, <1>7 DEF Next, Step, Handle, vars, Publish,
       ReadEpisode, WriteEpisode, AdvanceCursor, Decline, Decide, ProviderFails, CreateVersion,
       FindVersion, Conflict, DeleteFamily, Archive, Interrupt

-----------------------------------------------------------------------------
\* Three steps alone make or move a worker that reads.
LEMMA ReadersMove ==
    ASSUME IInv, [Next]_vars, NEW v \in Worker, Reads(v)'
    PROVE  \/ PollSources(v) \/ Enqueue(v) \/ WriteEpisode(v)
           \/ \E e \in Event : ReadEpisode(v, e)
           \/ worker'[v] = worker[v]
  <1>0. TypeOK
    BY DEF IInv
  <1>1. ASSUME NEW w \in Worker, NEW state, Goes(w, state),
               state.at \notin {"reading", "merging"}
        PROVE  worker'[v] = worker[v]
    BY <1>0, <1>1 DEF Goes, TypeOK, Reads
  <1>2. ASSUME NEW w \in Worker,
               \/ AdvanceCursor(w) \/ Complete(w) \/ FailWork(w) \/ Interrupt(w)
        PROVE  worker'[v] = worker[v]
    <2>1. Goes(w, Idle) /\ Idle.at \notin {"reading", "merging"}
      BY <1>2 DEF AdvanceCursor, Complete, FailWork, Interrupt, Idle
    <2> QED
      BY <1>1, <2>1
  <1>3. ASSUME NEW w \in Worker, Handle(w) PROVE worker'[v] = worker[v]
    <2>1. CASE Complete(w) \/ FailWork(w)
      BY <1>2, <2>1
    <2>2. CASE Decline(w) \/ CreateVersion(w) \/ FindVersion(w)
      BY <1>1, <2>2 DEF Decline, CreateVersion, FindVersion
    <2>3. CASE ProviderFails(w) \/ Conflict(w)
      BY <1>1, <2>3 DEF ProviderFails, Conflict
    <2>4. CASE Decide(w)
      BY <1>1, <2>4 DEF Decide
    <2> QED
      BY <1>3, <2>1, <2>2, <2>3, <2>4 DEF Handle
  <1>4. ASSUME NEW w \in Worker, NEW e \in Event, Claim(w, e)
        PROVE  worker'[v] = worker[v]
    BY <1>1, <1>4 DEF Claim
  <1>5. ASSUME NEW w \in Worker, w # v,
               \/ PollSources(w) \/ Enqueue(w) \/ WriteEpisode(w)
               \/ \E e \in Event : ReadEpisode(w, e)
        PROVE  worker'[v] = worker[v]
    BY <1>0, <1>5 DEF PollSources, Enqueue, ReadEpisode, WriteEpisode, Goes, TypeOK
  <1>6. CASE UNCHANGED worker
    BY <1>6
  <1> QED
    BY <1>2, <1>3, <1>4, <1>5, <1>6 DEF Next, Step, vars, Publish, PollNothing,
       LeaseExpires, BackoffElapses, DeleteFamily, Archive

-----------------------------------------------------------------------------
\* The cursor moves to an event some reader has handled, or stays.
LEMMA CursorMoves ==
    ASSUME IInv, [Next]_vars
    PROVE  \/ cursor' = cursor
           \/ \E w \in Worker : Enqueue(w) /\ cursor' = Later(cursor, worker[w].next + 1)
           \/ \E w \in Worker : /\ AdvanceCursor(w) /\ UNCHANGED <<log, work>>
                              /\ cursor' = Later(cursor, worker[w].next)
  <1>0. ReadersInOrder
    BY DEF IInv
  <1>1. ASSUME NEW w \in Worker, Enqueue(w)
        PROVE  cursor' = cursor \/ cursor' = Later(cursor, worker[w].next + 1)
    BY <1>1 DEF Enqueue, Acknowledged
  <1>2. ASSUME NEW w \in Worker, AdvanceCursor(w)
        PROVE  UNCHANGED <<log, work>> /\ cursor' = Later(cursor, worker[w].next)
    BY <1>0, <1>2 DEF AdvanceCursor, ReadersInOrder, Reads
  <1>3. CASE UNCHANGED cursor
    BY <1>3
  <1> QED
    BY <1>1, <1>2, <1>3 DEF Next, Step, Handle, vars, Publish, PollSources, PollNothing,
       ReadEpisode, WriteEpisode, Claim, Decline, Decide, ProviderFails, CreateVersion,
       FindVersion, Conflict, Complete, FailWork, LeaseExpires, BackoffElapses,
       DeleteFamily, Archive, Interrupt

LEMMA NextReadersInOrder == IInv /\ [Next]_vars => ReadersInOrder'
  <1> SUFFICES ASSUME IInv, [Next]_vars PROVE ReadersInOrder'
    OBVIOUS
  <1>0. /\ TypeOK /\ ReadersInOrder
        /\ Len(log) \in Nat /\ Len(log') \in Nat /\ cursor \in Nat
        /\ worker \in [Worker -> {Idle} \cup Reading \cup Handling \cup Creating]
    <2>1. TypeOK /\ TypeOK'
      BY NextTypeOK DEF IInv
    <2> QED
      BY <2>1 DEF IInv, TypeOK
  <1>1. Len(log) <= Len(log')
    BY LogGrows
  <1>2. cursor' <= Len(log')
    <2>1. ASSUME NEW w \in Worker, Enqueue(w) \/ AdvanceCursor(w),
                 \/ cursor' = Later(cursor, worker[w].next + 1) /\ Enqueue(w)
                 \/ cursor' = Later(cursor, worker[w].next) /\ AdvanceCursor(w)
          PROVE  cursor' <= Len(log)
      <3>1. worker[w] \in Reading /\ Reads(w)
        BY <1>0, <2>1, Forms DEF Enqueue, AdvanceCursor, Reads
      <3>2. /\ worker[w].next \in Nat /\ worker[w].last \in Nat
            /\ worker[w].next <= worker[w].last /\ worker[w].last <= Len(log)
            /\ Enqueue(w) => worker[w].next < worker[w].last
        BY <1>0, <3>1, MemoryPipelineAssumption DEF Reading, ReadersInOrder, Enqueue
      <3> QED
        BY <1>0, <2>1, <3>2 DEF Later, ReadersInOrder
    <2>2. cursor' \in Nat
      BY NextTypeOK, MemoryPipelineAssumption DEF TypeOK
    <2>3. cursor' <= Len(log)
      BY <1>0, <2>1, CursorMoves DEF ReadersInOrder
    <2> QED
      BY <1>0, <1>1, <2>2, <2>3
  <1>3. ASSUME NEW v \in Worker, Reads(v)'
        PROVE  /\ worker'[v].next <= worker'[v].last
               /\ worker'[v].last <= Len(log')
               /\ worker'[v].at = "merging" =>
                    worker'[v].next = worker'[v].last /\ worker'[v].event \in Event
    <2>1. CASE worker'[v] = worker[v]
      <3>1. Reads(v) /\ worker[v] \in Reading
        BY <1>0, <1>3, <2>1, Forms DEF Reads
      <3>2. worker[v].last \in Nat
        BY <3>1, MemoryPipelineAssumption DEF Reading
      <3> QED
        BY <1>0, <1>1, <2>1, <3>1, <3>2 DEF ReadersInOrder
    <2>2. CASE PollSources(v)
      <3>1. PICK last \in Published :
              last > cursor /\ Goes(v, Round(cursor, last, Transitions(last)))
        BY <2>2 DEF PollSources
      <3>2. /\ worker'[v].at = "reading"
            /\ worker'[v].next = cursor /\ worker'[v].last = last
        BY <1>0, <3>1 DEF Goes, Round
      <3> QED
        BY <1>0, <1>1, <3>1, <3>2 DEF Published
    <2>3. CASE Enqueue(v)
      <3>1. worker[v] \in Reading /\ Reads(v) /\ worker[v].next < worker[v].last
        BY <1>0, <2>3, Forms DEF Enqueue, Reads
      <3>2. worker'[v] = [worker[v] EXCEPT !.next = worker[v].next + 1]
        BY <1>0, <2>3 DEF Enqueue, Goes
      <3>3. /\ worker'[v].next = worker[v].next + 1
            /\ worker'[v].last = worker[v].last
            /\ worker'[v].at = "reading"
        BY <2>3, <3>1, <3>2 DEF Reading, Enqueue
      <3>4. worker[v].next \in Nat /\ worker[v].last \in Nat
        BY <3>1, MemoryPipelineAssumption DEF Reading
      <3> QED
        BY <1>0, <1>1, <3>1, <3>3, <3>4 DEF ReadersInOrder
    <2>4. ASSUME NEW e \in Event, ReadEpisode(v, e)
          PROVE  /\ worker'[v].next = worker[v].next
                 /\ worker'[v].last = worker[v].last
                 /\ worker[v] \in Reading /\ Reads(v)
                 /\ worker[v].next = worker[v].last /\ worker'[v].event \in Event
      <3>1. worker[v] \in Reading /\ Reads(v) /\ worker[v].next = worker[v].last
        BY <1>0, <2>4, Forms DEF ReadEpisode, Reads
      <3>2. worker'[v] = [worker[v] EXCEPT !.at = "merging", !.event = e, !.ids = told]
        BY <1>0, <2>4 DEF ReadEpisode, Goes
      <3> QED
        BY <3>1, <3>2 DEF Reading
    <2>5. ASSUME WriteEpisode(v)
          PROVE  /\ worker'[v].next = worker[v].next
                 /\ worker'[v].last = worker[v].last
                 /\ worker[v] \in Reading /\ Reads(v) /\ worker'[v].at = "reading"
      <3>1. worker[v] \in Reading /\ Reads(v)
        BY <1>0, <2>5, Forms DEF WriteEpisode, Reads
      <3> QED
        BY <1>0, <2>5, <3>1 DEF WriteEpisode, Goes, Round
    <2>6. CASE WriteEpisode(v) \/ \E e \in Event : ReadEpisode(v, e)
      <3>1. worker[v] \in Reading /\ Reads(v)
        BY <2>4, <2>5, <2>6
      <3>2. worker[v].last \in Nat
        BY <3>1, MemoryPipelineAssumption DEF Reading
      <3> QED
        BY <1>0, <1>1, <2>4, <2>5, <2>6, <3>1, <3>2 DEF ReadersInOrder
    <2> QED
      BY <1>3, <2>1, <2>2, <2>3, <2>6, ReadersMove
  <1> QED
    BY <1>2, <1>3 DEF ReadersInOrder, Reads

LEMMA NextReadersHaveQueued == IInv /\ [Next]_vars => ReadersHaveQueued'
  <1> SUFFICES ASSUME IInv, [Next]_vars, NEW v \in Worker, Reads(v)',
                      NEW e \in Published', e <= worker'[v].next
               PROVE  Queued(e)'
    BY DEF ReadersHaveQueued
  <1>0. /\ TypeOK /\ ReadersInOrder /\ ReadersHaveQueued /\ NothingSkipped
        /\ Len(log) \in Nat /\ Len(log) <= MaxEvents /\ cursor \in Nat
        /\ Len(log') \in Nat
        /\ worker \in [Worker -> {Idle} \cup Reading \cup Handling \cup Creating]
        /\ work \in [Event -> Item]
    BY NextTypeOK DEF IInv, TypeOK
  <1>1. e \in Nat \ {0}
    BY <1>0 DEF Published
  <1>2. ASSUME e \in Published, Queued(e) PROVE Queued(e)'
    <2>1. e \in Event /\ log'[e] = log[e]
      BY <1>0, <1>2, LogGrows, MemoryPipelineAssumption DEF Published, Event
    <2> QED
      BY <1>2, <2>1, ItemsStay DEF Queued
  <1>3. CASE worker'[v] = worker[v]
    <2>1. Reads(v) /\ worker[v] \in Reading
      BY <1>0, <1>3, Forms DEF Reads
    <2>2. /\ worker[v].next \in Nat /\ worker[v].last \in Nat
          /\ worker[v].next <= worker[v].last /\ worker[v].last <= Len(log)
      BY <1>0, <2>1, MemoryPipelineAssumption DEF Reading, ReadersInOrder
    <2>3. e \in Published
      BY <1>0, <1>1, <1>3, <2>2 DEF Published
    <2> QED
      BY <1>0, <1>2, <1>3, <2>1, <2>3 DEF ReadersHaveQueued, Queued
  <1>4. CASE PollSources(v)
    <2>1. worker'[v].next = cursor
      BY <1>0, <1>4 DEF PollSources, Goes, Round
    <2>2. e \in Published
      BY <1>0, <1>1, <2>1 DEF ReadersInOrder, Published
    <2> QED
      BY <1>0, <1>2, <2>1, <2>2 DEF NothingSkipped, Queued
  <1>5. CASE Enqueue(v)
    <2>1. worker[v] \in Reading /\ Reads(v) /\ worker[v].next < worker[v].last
      BY <1>0, <1>5, Forms DEF Enqueue, Reads
    <2>2. worker'[v] = [worker[v] EXCEPT !.next = worker[v].next + 1]
      BY <1>0, <1>5 DEF Enqueue, Goes
    <2>3. worker'[v].next = worker[v].next + 1
      BY <2>1, <2>2 DEF Reading
    <2>4. /\ worker[v].next \in Nat /\ worker[v].last \in Nat
          /\ worker[v].last <= Len(log)
      BY <1>0, <2>1, MemoryPipelineAssumption DEF Reading, ReadersInOrder
    <2>5. e \in Published /\ e \in Event
      BY <1>0, <1>1, <2>1, <2>3, <2>4, MemoryPipelineAssumption DEF Published, Event
    <2>6. CASE e <= worker[v].next
      BY <1>0, <1>2, <2>1, <2>5, <2>6 DEF ReadersHaveQueued, Queued
    <2>7. CASE e = worker[v].next + 1
      <3>1. CASE log[e].eligible /\ work[e].status = "none"
        <4>1. work' = [work EXCEPT ![e].status = "pending", ![e].due = TRUE]
          BY <1>5, <2>7, <3>1 DEF Enqueue
        <4>2. work'[e].status = "pending"
          BY <1>0, <2>5, <4>1 DEF Item
        <4> QED
          BY <4>2 DEF Queued
      <3>2. CASE ~ (log[e].eligible /\ work[e].status = "none")
        BY <1>2, <2>5, <3>2 DEF Queued
      <3> QED
        BY <3>1, <3>2
    <2> QED
      BY <1>1, <2>3, <2>4, <2>6, <2>7
  <1>6. CASE WriteEpisode(v) \/ \E d \in Event : ReadEpisode(v, d)
    <2>1. worker[v] \in Reading /\ Reads(v) /\ log' = log
      BY <1>0, <1>6, Forms DEF ReadEpisode, WriteEpisode, Reads
    <2>2. worker'[v].next = worker[v].next
      <3>1. ASSUME NEW d \in Event, ReadEpisode(v, d)
            PROVE  worker'[v] = [worker[v] EXCEPT !.at = "merging", !.event = d, !.ids = told]
        BY <1>0, <3>1 DEF ReadEpisode, Goes
      <3>2. ASSUME NEW d \in Event, ReadEpisode(v, d)
            PROVE  worker'[v].next = worker[v].next
        BY <2>1, <3>1, <3>2 DEF Reading
      <3>3. CASE WriteEpisode(v)
        BY <1>0, <3>3 DEF WriteEpisode, Goes, Round
      <3> QED
        BY <1>6, <3>2, <3>3
    <2>3. e \in Published
      BY <1>0, <1>1, <2>1 DEF Published
    <2> QED
      BY <1>0, <1>2, <2>1, <2>2, <2>3 DEF ReadersHaveQueued, Queued
  <1> QED
    BY <1>3, <1>4, <1>5, <1>6, ReadersMove

LEMMA NextNothingSkipped == IInv /\ [Next]_vars => NothingSkipped'
  <1> SUFFICES ASSUME IInv, [Next]_vars,
                      NEW e \in Published', e <= cursor'
               PROVE  Queued(e)'
    BY DEF NothingSkipped, Queued
  <1>0. /\ TypeOK /\ ReadersInOrder /\ ReadersHaveQueued /\ NothingSkipped
        /\ Len(log) \in Nat /\ Len(log) <= MaxEvents /\ cursor \in Nat
        /\ Len(log') \in Nat
        /\ worker \in [Worker -> {Idle} \cup Reading \cup Handling \cup Creating]
    BY NextTypeOK DEF IInv, TypeOK
  <1>1. e \in Nat \ {0}
    BY <1>0 DEF Published
  <1>2. CASE e <= cursor
    <2>1. e \in Published /\ e \in Event
      BY <1>0, <1>1, <1>2, MemoryPipelineAssumption DEF ReadersInOrder, Published, Event
    <2>2. Queued(e) /\ log'[e] = log[e]
      BY <1>0, <1>2, <2>1, LogGrows DEF NothingSkipped, Queued
    <2> QED
      BY <2>1, <2>2, ItemsStay DEF Queued
  <1>3. ASSUME NEW w \in Worker, Enqueue(w), e <= worker[w].next + 1
        PROVE  Queued(e)'
    <2>1. worker[w] \in Reading /\ worker[w].at = "reading"
      BY <1>0, <1>3, Forms DEF Enqueue, Reads
    <2>2. worker'[w] = [worker[w] EXCEPT !.next = worker[w].next + 1]
      BY <1>0, <1>3 DEF Enqueue, Goes
    <2>3. worker'[w].next = worker[w].next + 1 /\ worker'[w].at = "reading"
      BY <2>1, <2>2 DEF Reading
    <2> QED
      BY <1>3, <2>3, NextReadersHaveQueued DEF ReadersHaveQueued, Reads
  <1>4. ASSUME NEW w \in Worker, AdvanceCursor(w), UNCHANGED <<log, work>>,
               e <= worker[w].next
        PROVE  Queued(e)'
    BY <1>0, <1>4 DEF AdvanceCursor, Reads, ReadersHaveQueued, Queued, Published
  <1> QED
    BY <1>2, <1>3, <1>4, CursorMoves DEF Later

-----------------------------------------------------------------------------
\* The versions of a family change together.
LEMMA NextFamilies == IInv /\ [Next]_vars => FamiliesAreChains'
  <1> SUFFICES ASSUME IInv, [Next]_vars PROVE FamiliesAreChains'
    OBVIOUS
  <1>0. /\ TypeOK /\ FamiliesAreChains /\ memories \in SUBSET Memory
        /\ \A m \in memories : m.version \in Nat \ {0}
    BY DEF IInv, TypeOK, Memory
  <1>1. ASSUME NEW w \in Worker, CreateVersion(w) PROVE FamiliesAreChains'
    <2> DEFINE family == worker[w].family
               old(m) == Superseded(m, family)
               new == NewVersion(w)
    <2>1. worker[w] \in Creating
      BY <1>0, <1>1, Forms DEF CreateVersion
    <2>2. memories' = {old(m) : m \in memories} \cup {new}
      BY <1>1 DEF CreateVersion
    <2>3. ASSUME NEW m \in memories
          PROVE  /\ old(m).work = m.work /\ old(m).family = m.family
                 /\ old(m).version = m.version
                 /\ m.family = family => old(m).status # "active"
                 /\ m.family # family => old(m) = m
                 /\ m.status # "active" => old(m) = m
                 /\ m.status = "active" /\ m.family = family
                      => old(m).status = "superseded"
      BY <1>0 DEF Superseded, Memory
    <2>4. /\ new.work = worker[w].item /\ new.family = family
          /\ new.version = worker[w].previous + 1 /\ new.status = "active"
      BY DEF NewVersion
    <2>5. \A m \in memories : m.work # new.work
      BY <1>1, <2>4 DEF CreateVersion, Known
    <2>6. /\ \A m \in memories : m.family = family => m.version < new.version
          /\ \A m \in memories : m.family = family
               => m.status \in {"active", "superseded"}
          /\ new.version > 1 => \E m \in memories :
               m.family = family /\ m.version = new.version - 1
      <3>1. worker[w].previous \in Nat
        BY <2>1 DEF Creating
      <3>2. CASE worker[w].previous = 0
        BY <1>1, <2>4, <3>2 DEF CreateVersion, Accepted, VersionsOf
      <3>3. CASE worker[w].previous # 0
        <4>1. PICK m \in Latest(family) :
                m.version = worker[w].previous /\ m.status = "active"
          BY <1>1, <3>3 DEF CreateVersion, Accepted, StillActive
        <4>2. /\ m \in memories /\ m.family = family
              /\ \A n \in memories : n.family = family => n.version <= m.version
          BY <4>1 DEF Latest, VersionsOf
        <4>3. \A n \in memories : n.family = family /\ n # m => n.status = "superseded"
          BY <1>0, <4>1, <4>2 DEF FamiliesAreChains, VersionsOf
        <4> QED
          BY <1>0, <2>4, <3>1, <4>1, <4>2, <4>3
      <3> QED
        BY <3>2, <3>3
    <2> HIDE DEF old, new, family
    <2>7. \A m, n \in memories' : m.work = n.work => m = n
      BY <1>0, <2>2, <2>3, <2>5 DEF FamiliesAreChains
    <2>8. \A m, n \in memories' : m.family = n.family /\ m.version = n.version => m = n
      BY <1>0, <2>2, <2>3, <2>4, <2>6 DEF FamiliesAreChains
    <2>9. ASSUME NEW m \in memories', m.version > 1
          PROVE  \E n \in memories' : n.family = m.family /\ n.version = m.version - 1
      <3>1. CASE m = new
        BY <2>2, <2>3, <2>4, <2>6, <2>9, <3>1
      <3>2. ASSUME NEW k \in memories, m = old(k)
            PROVE  \E n \in memories' : n.family = m.family /\ n.version = m.version - 1
        <4>1. PICK n \in memories : n.family = k.family /\ n.version = k.version - 1
          BY <1>0, <2>3, <2>9, <3>2 DEF FamiliesAreChains, VersionsOf
        <4> QED
          BY <2>2, <2>3, <3>2, <4>1
      <3> QED
        BY <2>2, <2>9, <3>1, <3>2
    <2>10. ASSUME NEW m \in memories', m.status = "active",
                  NEW n \in memories', n.family = m.family, n # m
           PROVE  n.version < m.version /\ n.status = "superseded"
      <3>1. CASE m = new
        <4>1. PICK k \in memories : n = old(k)
          BY <2>2, <2>10, <3>1
        <4> QED
          BY <2>3, <2>4, <2>6, <2>10, <3>1, <4>1
      <3>2. ASSUME NEW k \in memories, m = old(k)
            PROVE  n.version < m.version /\ n.status = "superseded"
        <4>1. k.family # family /\ m = k
          BY <2>3, <2>10, <3>2
        <4>2. PICK j \in memories : n = old(j)
          BY <2>2, <2>3, <2>4, <2>10, <3>2, <4>1
        <4>3. n = j
          BY <2>3, <2>10, <4>1, <4>2
        <4> QED
          BY <1>0, <2>10, <4>1, <4>3 DEF FamiliesAreChains, VersionsOf
      <3> QED
        BY <2>2, <2>10, <3>1, <3>2
    <2> QED
      BY <2>7, <2>8, <2>9, <2>10 DEF FamiliesAreChains, VersionsOf
  <1>2. ASSUME NEW family \in Event, DeleteFamily(family) PROVE FamiliesAreChains'
    <2> DEFINE gone(m) == IF m.family = family THEN [m EXCEPT !.status = "deleted"] ELSE m
    <2>1. memories' = {gone(m) : m \in memories}
      BY <1>2 DEF DeleteFamily
    <2>2. ASSUME NEW m \in memories
          PROVE  /\ gone(m).work = m.work /\ gone(m).family = m.family
                 /\ gone(m).version = m.version
                 /\ m.family = family => gone(m).status = "deleted"
                 /\ m.family # family => gone(m) = m
      BY <1>0 DEF Memory
    <2> HIDE DEF gone
    <2>3. \A m, n \in memories' : m.work = n.work => m = n
      BY <1>0, <2>1, <2>2 DEF FamiliesAreChains
    <2>4. \A m, n \in memories' : m.family = n.family /\ m.version = n.version => m = n
      BY <1>0, <2>1, <2>2 DEF FamiliesAreChains
    <2>5. ASSUME NEW m \in memories', m.version > 1
          PROVE  \E n \in memories' : n.family = m.family /\ n.version = m.version - 1
      <3>1. PICK k \in memories : m = gone(k)
        BY <2>1
      <3>2. PICK n \in memories : n.family = k.family /\ n.version = k.version - 1
        BY <1>0, <2>2, <2>5, <3>1 DEF FamiliesAreChains, VersionsOf
      <3> QED
        BY <2>1, <2>2, <3>1, <3>2
    <2>6. ASSUME NEW m \in memories', m.status = "active",
                 NEW n \in memories', n.family = m.family, n # m
          PROVE  n.version < m.version /\ n.status = "superseded"
      <3>1. PICK k \in memories : m = gone(k)
        BY <2>1
      <3>2. PICK j \in memories : n = gone(j)
        BY <2>1
      <3>3. k.family # family /\ m = k /\ n = j
        BY <2>2, <2>6, <3>1, <3>2
      <3> QED
        BY <1>0, <2>6, <3>3 DEF FamiliesAreChains, VersionsOf
    <2> QED
      BY <2>3, <2>4, <2>5, <2>6 DEF FamiliesAreChains, VersionsOf
  <1>3. ASSUME NEW k \in memories, Archive(k) PROVE FamiliesAreChains'
    <2> DEFINE kept == [k EXCEPT !.status = "archived"]
    <2>1. memories' = (memories \ {k}) \cup {kept} /\ k.status = "active"
      BY <1>3 DEF Archive
    <2>2. /\ kept.work = k.work /\ kept.family = k.family
          /\ kept.version = k.version /\ kept.status = "archived"
      BY <1>0 DEF Memory
    <2> HIDE DEF kept
    <2>3. \A m, n \in memories' : m.work = n.work => m = n
      BY <1>0, <2>1, <2>2 DEF FamiliesAreChains
    <2>4. \A m, n \in memories' : m.family = n.family /\ m.version = n.version => m = n
      BY <1>0, <2>1, <2>2 DEF FamiliesAreChains
    <2>5. ASSUME NEW m \in memories', m.version > 1
          PROVE  \E n \in memories' : n.family = m.family /\ n.version = m.version - 1
      <3>1. PICK n \in memories : n.family = m.family /\ n.version = m.version - 1
        BY <1>0, <2>1, <2>2, <2>5 DEF FamiliesAreChains, VersionsOf
      <3> QED
        BY <2>1, <2>2, <3>1
    <2>6. ASSUME NEW m \in memories', m.status = "active",
                 NEW n \in memories', n.family = m.family, n # m
          PROVE  n.version < m.version /\ n.status = "superseded"
      <3>1. m \in memories /\ m # k
        BY <2>1, <2>2, <2>6
      <3>2. m.family # k.family
        BY <1>0, <2>1, <2>6, <3>1 DEF FamiliesAreChains, VersionsOf
      <3>3. n \in memories
        BY <2>1, <2>2, <2>6, <3>2
      <3> QED
        BY <1>0, <2>6, <3>1, <3>3 DEF FamiliesAreChains, VersionsOf
    <2> QED
      BY <2>3, <2>4, <2>5, <2>6 DEF FamiliesAreChains, VersionsOf
  <1>4. CASE UNCHANGED memories
    BY <1>0, <1>4 DEF FamiliesAreChains, VersionsOf
  <1> QED
    BY <1>1, <1>2, <1>3, <1>4 DEF Next, Step, Handle, vars, Publish, PollSources,
       PollNothing, Enqueue, ReadEpisode, WriteEpisode, AdvanceCursor, Claim, Decline, Decide,
       ProviderFails, FindVersion, Conflict, Complete, FailWork, LeaseExpires,
       BackoffElapses, Interrupt

-----------------------------------------------------------------------------
\* The inductive invariant holds in every behaviour.
THEOREM Invariant == Spec => []IInv
  <1>1. IInv /\ [Next]_vars => IInv'
    BY NextTypeOK, NextReadersInOrder, NextReadersHaveQueued, NextNothingSkipped,
       NextFamilies DEF IInv
  <1> HIDE DEF IInv
  <1> QED
    BY InitIInv, <1>1, PTL DEF Spec

\* The state is well-typed.
THEOREM TypeCorrect == Spec => []TypeOK
  <1>1. IInv => TypeOK
    BY DEF IInv
  <1> HIDE DEF IInv, TypeOK
  <1> QED
    BY Invariant, <1>1, PTL

\* However workers, retries, deletions and archiving interleave, the versions
\* of a family are a chain whose last alone may be active.
THEOREM Chains == Spec => []FamiliesAreChains
  <1>1. IInv => FamiliesAreChains
    BY DEF IInv
  <1> HIDE DEF IInv, FamiliesAreChains
  <1> QED
    BY Invariant, <1>1, PTL

\* The source cursor acknowledges no eligible event without its item.
THEOREM CursorIsSafe == Spec => []NothingSkipped
  <1>1. IInv => NothingSkipped
    BY DEF IInv
  <1> HIDE DEF IInv, NothingSkipped
  <1> QED
    BY Invariant, <1>1, PTL
=============================================================================
