------------------------- MODULE CarrierCycleProofs -------------------------
(***************************************************************************)
(* Proofs about CarrierCycle, for any number of observations and any retry *)
(* interval: types, and the four safety properties of the cycles run.      *)
(*                                                                         *)
(* EpochHasCycle and LocalMailboxIsWatched are inductive as they stand,    *)
(* given the shape of the active cycle.  That cycles move forward needs    *)
(* the order of all revisions the loop holds (Order), and that events are  *)
(* kept needs the mailbox to hold the latest situation itself (Offered),   *)
(* which one observation that returns early breaks for good.               *)
(***************************************************************************)
EXTENDS CarrierCycle, TLAPS

\* A planner thread works on an unfinished cycle, and none is active while its
\* successor is to be scheduled.
CycleShape ==
    /\ cycle.rev = 0 => cycle = NoCycle
    /\ planner # "none" => cycle.rev # 0 /\ cycle.result = "running"
    /\ physics = "schedule" => cycle = NoCycle
    /\ mailbox.rev = 0 => mailbox = NoSituation

\* What was started is behind whatever may start next.
Order ==
    /\ cycle.rev # 0 => cycle.rev \in started
    /\ \A r \in started :
          /\ r <= situation.rev
          /\ cycle.rev # 0 => r <= cycle.rev
          /\ physics = "schedule" => r <= completed
          /\ mailbox.rev # 0 => r < mailbox.rev
    /\ mailbox.rev <= situation.rev

\* Every event observed is with the coordinator or in the mailbox, which is
\* empty or holds the latest situation.
Offered ==
    /\ mailbox.rev # 0 => mailbox.rev = situation.rev
    /\ 1 .. situation.rev \subseteq planned \cup mailbox.events

EventsOffered == closing \/ skipped \/ Offered

IInv ==
    /\ TypeOK
    /\ CycleShape
    /\ EpochHasCycle
    /\ LocalMailboxIsWatched
    /\ Order
    /\ EventsOffered

-----------------------------------------------------------------------------
(***************************************************************************)
(* A call of Start: what the three callers guarantee of its arguments, and *)
(* what it then makes of them.                                             *)
(***************************************************************************)
Called(s, now, mail) ==
    /\ {s, now, mail} \subseteq Situation
    /\ s.rev # 0
    /\ s.rev <= now.rev
    /\ mail.rev <= now.rev
    /\ mail.rev = 0 => mail = NoSituation
    /\ cycle.rev # 0 => cycle.rev < s.rev /\ mail.rev < s.rev
    /\ \A r \in started :
          /\ r <= now.rev
          /\ mail.rev # 0 => r < mail.rev
          /\ cycle.rev = 0 => r < s.rev
    /\ \/ closing
       \/ skipped
       \/ /\ s.rev = now.rev
          /\ 1 .. now.rev \subseteq planned \cup mail.events \cup s.events

Callers == ObserveAndStart \/ ScheduleLatest \/ DrainStarts

LEMMA Calls ==
    ASSUME IInv, Callers
    PROVE  /\ UNCHANGED <<brains, closing, provider, skipped>>
           /\ physics' # "schedule"
           /\ \/ UNCHANGED <<intake, cycle, openEpoch, planner, planned,
                             started>>
              \/ \E s, now, mail : Called(s, now, mail) /\ Start(s, now, mail)
  <1> USE DEF IInv, Order, Offered, EventsOffered
  <1>0. /\ NoSituation \in Situation
        /\ situation \in Situation /\ mailbox \in Situation
        /\ planned \subseteq Rev /\ started \subseteq Rev
        /\ cycle \in Cycle /\ completed \in RevOrNone
        /\ RevOrNone \subseteq Nat /\ Rev \subseteq Nat
        /\ cycle.rev \in Nat /\ situation.rev \in Nat /\ mailbox.rev \in Nat
    BY CarrierCycleAssumption
       DEF TypeOK, Situation, NoSituation, Rev, RevOrNone, Cycle
  <1>1. CASE ObserveAndStart
    <2> DEFINE s == NextSituation
    <2>1. s \in Situation /\ s.rev = situation.rev + 1 /\ s.events = {s.rev}
      BY <1>0, <1>1 DEF ObserveAndStart, NextSituation, Situation, Rev,
                        RevOrNone
    <2>2. Called(s, s, mailbox)
      <3>1. \A r \in started : r <= situation.rev
        OBVIOUS
      <3>2. cycle.rev # 0 => cycle.rev <= situation.rev
        BY <3>1
      <3>3. closing \/ skipped \/ 1 .. s.rev \subseteq
              planned \cup mailbox.events \cup s.events
        BY <1>0, <2>1
      <3>4. ASSUME NEW r \in started
            PROVE  /\ r < s.rev /\ r <= s.rev
                   /\ mailbox.rev # 0 => r < mailbox.rev
        <4>1. r \in Nat /\ r <= situation.rev
          BY <1>0, <3>1
        <4>2. mailbox.rev # 0 => r < mailbox.rev
          OBVIOUS
        <4> HIDE DEF s, IInv, Order, Offered, EventsOffered
        <4> QED
          BY <1>0, <2>1, <4>1, <4>2
      <3>5. /\ {s, s, mailbox} \subseteq Situation
            /\ s.rev # 0 /\ s.rev <= s.rev
            /\ mailbox.rev < s.rev /\ mailbox.rev <= s.rev
            /\ cycle.rev # 0 => cycle.rev < s.rev
            /\ mailbox.rev = 0 => mailbox = NoSituation
        BY <1>0, <2>1, <3>2 DEF CycleShape
      <3> HIDE DEF s
      <3> QED
        BY <1>0, <3>3, <3>4, <3>5 DEF Called
    <2>3. Start(s, s, mailbox) /\ physics' = "locals"
      BY <1>1 DEF ObserveAndStart
    <2> QED
      BY <1>1, <2>2, <2>3 DEF ObserveAndStart
  <1>2. CASE ScheduleLatest
    <2>0. cycle = NoCycle /\ cycle.rev = 0
      BY <1>2 DEF CycleShape, ScheduleLatest, NoCycle
    <2>1. physics' # "schedule" /\ UNCHANGED <<brains, closing, provider, skipped>>
      BY <1>2 DEF ScheduleLatest, AfterApply
    <2>2. CASE mailbox # NoSituation /\ Start(mailbox, situation, NoSituation)
      <3>1. Called(mailbox, situation, NoSituation)
        BY <1>0, <2>0, <2>2 DEF Called, CycleShape, NoSituation
      <3> QED
        BY <2>1, <2>2, <3>1
    <2>3. CASE /\ mailbox = NoSituation
               /\ situation.rev > completed
               /\ Start(situation, situation, NoSituation)
      <3>1. \A r \in started : r < situation.rev
        <4>1. \A r \in started : r <= completed /\ r \in Nat
          BY <1>0, <1>2 DEF ScheduleLatest
        <4> QED
          BY <1>0, <2>3, <4>1 DEF RevOrNone, Rev
      <3>2. Called(situation, situation, NoSituation)
        BY <1>0, <2>0, <2>3, <3>1 DEF Called, NoSituation, RevOrNone, Rev
      <3> QED
        BY <2>1, <2>3, <3>2
    <2> QED
      BY <1>2, <2>1, <2>2, <2>3 DEF ScheduleLatest
  <1>3. CASE DrainStarts
    <2>0. cycle.rev = 0
      BY <1>3 DEF DrainStarts, NoCycle
    <2>1. Called(mailbox, situation, mailbox)
      BY <1>0, <1>3, <2>0 DEF Called, CycleShape, DrainStarts
    <2> QED
      BY <1>3, <2>1 DEF DrainStarts
  <1> QED
    BY <1>1, <1>2, <1>3 DEF Callers

LEMMA StartFacts ==
    ASSUME TypeOK, CycleShape, EpochHasCycle, Order, EventsOffered,
           NEW s, NEW now, NEW mail, Called(s, now, mail), Start(s, now, mail),
           UNCHANGED <<closing, skipped>>, physics' # "schedule"
    PROVE  /\ situation' \in Situation /\ mailbox' \in Situation
           /\ cycle' \in Cycle
           /\ openEpoch' \in RevOrNone
           /\ planner' \in {planner, "queue"}
           /\ planned' \in SUBSET Rev /\ started' \in SUBSET Rev
           /\ CycleShape' /\ EpochHasCycle' /\ Order' /\ EventsOffered'
           /\ cycle = NoCycle /\ cycle' # NoCycle =>
                 \A r \in started : cycle'.rev > r
  <1> DEFINE latest == IF s.rev >= now.rev THEN s ELSE now
  <1>0. /\ s \in Situation /\ now \in Situation /\ mail \in Situation
        /\ planned \subseteq Rev /\ started \subseteq Rev
        /\ cycle \in Cycle /\ openEpoch \in RevOrNone
        /\ RevOrNone \subseteq Nat /\ Rev \subseteq Nat
        /\ s.rev \in Nat /\ now.rev \in Nat /\ mail.rev \in Nat
        /\ cycle.rev \in Nat
    BY CarrierCycleAssumption
       DEF Called, TypeOK, Situation, Rev, RevOrNone, Cycle
  <1>1. /\ latest \in Situation /\ latest.rev = now.rev /\ latest.rev # 0
        /\ latest.rev \in Rev
        /\ Merged(latest, mail) \in Situation
        /\ Merged(latest, mail).rev = latest.rev
        /\ Merged(latest, mail).events = latest.events \cup mail.events
    BY <1>0 DEF Called, Merged, Situation, RevOrNone
  <1> HIDE DEF latest
  <1>2. closing \/ skipped \/ latest = s
    BY <1>0 DEF Called, latest
  <1>3. CASE StartRefused(now, mail)
    BY <1>0, <1>3 DEF StartRefused, Called, CycleShape, EpochHasCycle, Order,
                      EventsOffered, TypeOK
  <1>4. CASE StartBehindCycle(latest, mail)
    <2>1. /\ situation' = latest /\ mailbox' = Merged(latest, mail)
          /\ UNCHANGED <<cycle, openEpoch, planner, planned, started>>
      BY <1>0, <1>1, <1>4 DEF StartBehindCycle, Called, CycleShape
    <2>2. CycleShape' /\ EpochHasCycle' /\ Order'
      BY <1>0, <1>1, <2>1 DEF CycleShape, EpochHasCycle, Order, Called
    <2>3. EventsOffered'
      BY <1>0, <1>1, <1>2, <2>1 DEF EventsOffered, Offered, Called
    <2> QED
      BY <1>0, <1>1, <1>4, <2>1, <2>2, <2>3 DEF StartBehindCycle, TypeOK
  <1>5. CASE StartPostponed(s, latest, mail)
    <2>1. /\ situation' = latest /\ mailbox' = Merged(latest, mail)
          /\ cycle = NoCycle /\ cycle.rev = 0
          /\ UNCHANGED <<cycle, openEpoch, planner, planned, started>>
      BY <1>5 DEF StartPostponed, NoCycle
    <2>2. CycleShape' /\ EpochHasCycle' /\ Order'
      BY <1>0, <1>1, <2>1 DEF CycleShape, EpochHasCycle, Order, Called
    <2>3. EventsOffered'
      BY <1>0, <1>1, <1>2, <2>1 DEF EventsOffered, Offered, Called
    <2> QED
      BY <1>0, <1>1, <2>1, <2>2, <2>3 DEF TypeOK
  <1>6. CASE CycleStarts(s, latest, mail)
    <2>1. PICK epoch \in BOOLEAN :
            /\ epoch => openEpoch = 0
            /\ cycle' = [rev |-> latest.rev, epoch |-> epoch,
                         result |-> "running"]
            /\ openEpoch' = IF epoch THEN latest.rev ELSE openEpoch
      BY <1>6 DEF CycleStarts
    <2>2. /\ situation' = latest /\ mailbox' = NoSituation
          /\ cycle = NoCycle /\ cycle.rev = 0
          /\ planner' = "queue"
          /\ planned' = planned \cup latest.events \cup mail.events
          /\ started' = started \cup {latest.rev}
      BY <1>1, <1>6 DEF CycleStarts, Emptied, NoCycle
    <2>3. openEpoch = 0
      BY <2>2 DEF EpochHasCycle
    <2>4. \A r \in started :
            /\ r \in Nat
            /\ r < latest.rev /\ r <= latest.rev
      <3>0. latest.rev \in Nat
        BY <1>0, <1>1
      <3>1. ASSUME NEW r \in started
            PROVE  r \in Nat /\ r < now.rev
        <4>1. r < s.rev /\ s.rev <= now.rev
          BY <2>2 DEF Called
        <4> QED
          BY <1>0, <4>1
      <3>2. latest.rev = now.rev
        BY <1>1
      <3> QED
        BY <3>0, <3>1, <3>2
    <2>5. /\ cycle'.rev = latest.rev /\ cycle'.epoch = epoch
          /\ cycle'.result = "running" /\ cycle' \in Cycle
      BY <1>0, <1>1, <2>1 DEF Cycle, RevOrNone
    <2>6. mailbox'.rev = 0 /\ mailbox' \in Situation
      BY <2>2 DEF NoSituation, Situation, RevOrNone
    <2>7. CycleShape' /\ EpochHasCycle'
      BY <1>0, <1>1, <2>1, <2>2, <2>3, <2>5, <2>6
         DEF CycleShape, EpochHasCycle
    <2>8. Order'
      <3>1. ASSUME NEW r \in started'
            PROVE  r <= latest.rev
        <4>1. CASE r \in started
          BY <2>4, <4>1
        <4>2. CASE r = latest.rev
          <5>1. latest.rev \in Nat
            BY <1>0, <1>1
          <5> QED
            BY <4>2, <5>1
        <4> QED
          BY <2>2, <4>1, <4>2
      <3>2. cycle'.rev \in started' /\ mailbox'.rev <= situation'.rev
        BY <1>0, <1>1, <2>2, <2>5, <2>6
      <3> QED
        BY <2>2, <2>5, <2>6, <3>1, <3>2 DEF Order
    <2>9. EventsOffered'
      BY <1>0, <1>1, <1>2, <2>2, <2>6 DEF EventsOffered, Offered, Called
    <2>10. /\ planned' \in SUBSET Rev /\ started' \in SUBSET Rev
           /\ openEpoch' \in RevOrNone
      BY <1>0, <1>1, <2>1, <2>2 DEF Situation, RevOrNone
    <2> QED
      BY <1>0, <1>1, <2>2, <2>4, <2>5, <2>6, <2>7, <2>8, <2>9, <2>10
  <1> QED
    BY <1>3, <1>4, <1>5, <1>6 DEF Start, latest

-----------------------------------------------------------------------------
(***************************************************************************)
(* A step that leaves the cycle and the situations alone.                  *)
(***************************************************************************)
Forward == cycle = NoCycle /\ cycle' # NoCycle =>
              \A r \in started : cycle'.rev > r

Untouched == <<intake, cycle, openEpoch, closing, history>>

LEMMA Frame ==
    ASSUME IInv, UNCHANGED Untouched,
           \/ UNCHANGED planner
           \/ planner # "none",
           physics' # "schedule" \/ UNCHANGED <<physics, completed>>
    PROVE  CycleShape' /\ EpochHasCycle' /\ Order' /\ EventsOffered' /\ Forward
  <1> USE DEF IInv, Untouched, intake, history
  <1>1. CycleShape'
    BY DEF CycleShape
  <1>2. EpochHasCycle'
    BY DEF EpochHasCycle
  <1>3. Order'
    BY DEF Order
  <1>4. EventsOffered'
    BY DEF EventsOffered, Offered
  <1> QED
    BY <1>1, <1>2, <1>3, <1>4 DEF Forward

\* The local threads' part of the state keeps its invariant when it stays.
LEMMA BrainsUntouched ==
    ASSUME IInv, UNCHANGED brains
    PROVE  LocalMailboxIsWatched'
  BY DEF IInv, LocalMailboxIsWatched, Alive, brains

\* A call of Start keeps everything.
LEMMA CallersKeep ==
    ASSUME IInv, Callers
    PROVE  IInv' /\ Forward
  <1>1. /\ UNCHANGED <<brains, closing, provider, skipped>>
        /\ physics' # "schedule"
    BY Calls
  <1>2. LocalMailboxIsWatched'
    BY <1>1, BrainsUntouched
  <1>3. /\ physics' \in {"locals", "step", "check"}
        /\ drain' = drain /\ view' = view /\ completed' \in {completed, 0}
    BY DEF Callers, ObserveAndStart, ScheduleLatest, DrainStarts, AfterApply
  <1>4. CASE UNCHANGED <<intake, cycle, openEpoch, planner, planned, started>>
    <2>1. UNCHANGED Untouched
      BY <1>1, <1>4 DEF Untouched, history
    <2>2. CycleShape' /\ EpochHasCycle' /\ Order' /\ EventsOffered' /\ Forward
      BY <1>1, <1>4, <2>1, Frame
    <2>3. TypeOK'
      BY <1>1, <1>3, <1>4
         DEF IInv, TypeOK, intake, brains, provider, RevOrNone
    <2> QED
      BY <1>2, <2>2, <2>3 DEF IInv
  <1>5. ASSUME NEW s, NEW now, NEW mail,
               Called(s, now, mail), Start(s, now, mail)
        PROVE  IInv' /\ Forward
    <2>1. /\ situation' \in Situation /\ mailbox' \in Situation
          /\ cycle' \in Cycle
          /\ openEpoch' \in RevOrNone
          /\ planner' \in {planner, "queue"}
          /\ planned' \in SUBSET Rev /\ started' \in SUBSET Rev
          /\ CycleShape' /\ EpochHasCycle' /\ Order' /\ EventsOffered'
          /\ Forward
      BY <1>1, <1>5, StartFacts DEF IInv, Forward
    <2>2. TypeOK'
      BY <1>1, <1>3, <2>1 DEF IInv, TypeOK, brains, provider, RevOrNone
    <2> QED
      BY <1>2, <2>1, <2>2 DEF IInv
  <1> QED
    BY <1>4, <1>5, Calls

-----------------------------------------------------------------------------
(***************************************************************************)
(* The other steps of the physics thread.                                  *)
(***************************************************************************)
LEMMA FailureTypes ==
    ASSUME NEW r \in Nat, MarkFailure(r)
    PROVE  paused' \in BOOLEAN /\ retryAt' \in Nat
  BY CarrierCycleAssumption DEF MarkFailure

LEMMA RevIsNat == Rev \subseteq Nat /\ RevOrNone \subseteq Nat
  BY CarrierCycleAssumption DEF Rev, RevOrNone

LEMMA ApplyLocalsKeeps ==
    ASSUME IInv, ApplyLocals
    PROVE  IInv' /\ Forward
  <1>1. UNCHANGED Untouched /\ UNCHANGED planner /\ physics' # "schedule"
    BY DEF ApplyLocals, Untouched
  <1>2. paused' \in BOOLEAN /\ retryAt' \in Nat
    <2>1. CASE UNCHANGED provider
      BY <2>1 DEF IInv, TypeOK, provider
    <2>2. ASSUME NEW i \in DOMAIN localResults, MarkFailure(localResults[i].rev)
          PROVE  paused' \in BOOLEAN /\ retryAt' \in Nat
      <3>1. localResults[i] \in LocalResult
        BY DEF IInv, TypeOK
      <3>2. localResults[i].rev \in Nat
        BY <3>1, RevIsNat DEF LocalResult
      <3> QED
        BY <2>2, <3>2, FailureTypes
    <2> QED
      BY <2>1, <2>2 DEF ApplyLocals
  <1>3. TypeOK'
    <2>1. localResults' = << >>
      BY DEF ApplyLocals
    <2>2. localResults' \in Seq(LocalResult)
      BY <2>1
    <2> QED
      BY <1>1, <1>2, <2>2
         DEF ApplyLocals, IInv, TypeOK, intake, history, Untouched
  <1>4. LocalMailboxIsWatched'
    BY DEF ApplyLocals, IInv, LocalMailboxIsWatched, Alive
  <1> QED
    BY <1>1, <1>3, <1>4, Frame DEF IInv

LEMMA ApplyCycleKeeps ==
    ASSUME IInv, ApplyCycle
    PROVE  IInv' /\ Forward
  <1> USE DEF IInv
  <1>0. /\ UNCHANGED <<intake, brains, closing, planner, history, drain, view>>
        /\ cycle' = NoCycle /\ cycle'.rev = 0 /\ completed' = cycle.rev
        /\ physics' = "schedule" /\ cycle.result # "running"
    BY DEF ApplyCycle, NoCycle
  <1>1. cycle.rev \in RevOrNone /\ cycle.rev \in Nat /\ cycle.rev # 0
    BY <1>0, RevIsNat DEF TypeOK, Cycle, CycleShape, NoCycle
  <1>2. planner = "none"
    BY <1>0 DEF CycleShape
  <1>3. openEpoch' = 0
    <2>1. CASE Stale
      <3>1. cycle.epoch = FALSE
        BY <2>1 DEF Stale
      <3> QED
        BY <2>1, <3>1 DEF ApplyCycle, EpochHasCycle
    <2>2. CASE ~ Stale
      <3>1. openEpoch' = IF cycle.epoch THEN 0 ELSE openEpoch
        BY <2>2 DEF ApplyCycle
      <3> QED
        BY <3>1 DEF EpochHasCycle
    <2> QED
      BY <2>1, <2>2
  <1>4. paused' \in BOOLEAN /\ retryAt' \in Nat
    <2>1. CASE UNCHANGED provider
      BY <2>1 DEF TypeOK, provider
    <2>2. CASE MarkFailure(cycle.rev)
      BY <1>1, <2>2, FailureTypes
    <2>3. CASE paused' = FALSE /\ retryAt' = 0
      BY <2>3
    <2> QED
      BY <2>1, <2>2, <2>3 DEF ApplyCycle, AnswerTaken
  <1>5. TypeOK'
    <2>1. cycle' \in Cycle
      BY <1>0 DEF NoCycle, Cycle, RevOrNone
    <2> QED
      BY <1>0, <1>1, <1>3, <1>4, <2>1
         DEF TypeOK, intake, brains, history, RevOrNone
  <1>6. CycleShape'
    BY <1>0, <1>2 DEF CycleShape, intake
  <1>7. EpochHasCycle'
    BY <1>3 DEF EpochHasCycle
  <1>8. Order'
    BY <1>0, <1>1 DEF Order, intake, history
  <1>9. EventsOffered'
    BY <1>0 DEF EventsOffered, Offered, intake, history
  <1> QED
    BY <1>0, <1>5, <1>6, <1>7, <1>8, <1>9, BrainsUntouched DEF Forward

LEMMA ObserveAndReturnKeeps ==
    ASSUME IInv, ObserveAndReturn
    PROVE  IInv' /\ Forward
  <1> USE DEF IInv
  <1>0. /\ UNCHANGED <<drain, completed, view, mailbox, cycle, openEpoch,
                       brains, closing, planner, planned, started>>
        /\ situation' = NextSituation
        /\ skipped' = TRUE /\ physics' = "locals"
        /\ situation.rev + 1 \in Rev
    BY DEF ObserveAndReturn, NextSituation
  <1>1. /\ situation' \in Situation /\ situation'.rev = situation.rev + 1
        /\ situation.rev \in Nat /\ situation'.rev \in Nat
        /\ mailbox.rev \in Nat /\ started \subseteq Nat
    BY <1>0, RevIsNat DEF NextSituation, Situation, TypeOK, RevOrNone
  <1>2. paused' \in BOOLEAN /\ retryAt' \in Nat
    <2>1. CASE UNCHANGED provider
      BY <2>1 DEF TypeOK, provider
    <2>2. CASE MarkFailure(situation.rev + 1)
      BY <1>1, <2>2, FailureTypes
    <2> QED
      BY <2>1, <2>2 DEF ObserveAndReturn, NextSituation
  <1>3. TypeOK'
    BY <1>0, <1>1, <1>2 DEF TypeOK, brains
  <1>4. CycleShape' /\ EpochHasCycle'
    BY <1>0 DEF CycleShape, EpochHasCycle
  <1>5. Order'
    <2>1. ASSUME NEW r \in started'
          PROVE  r <= situation'.rev
      <3>1. r \in Nat /\ r <= situation.rev
        BY <1>0, <1>1 DEF Order
      <3> QED
        BY <1>1, <3>1
    <2>2. mailbox'.rev <= situation'.rev
      BY <1>0, <1>1 DEF Order
    <2> QED
      BY <1>0, <2>1, <2>2 DEF Order
  <1>6. EventsOffered'
    BY <1>0 DEF EventsOffered
  <1> QED
    BY <1>0, <1>3, <1>4, <1>5, <1>6, BrainsUntouched DEF Forward

Looking == NothingToApply \/ StepWithoutObservation \/ LeaveLoop
              \/ DrainBegins \/ DrainLooks \/ DrainCompletes \/ DrainTimesOut
              \/ DrainWaits \/ DeadlinePasses

\* Steps that only move the physics thread, or its clock, on.
LEMMA LookingKeeps ==
    ASSUME IInv, Looking
    PROVE  IInv' /\ Forward
  <1>1. /\ UNCHANGED Untouched
        /\ UNCHANGED <<planner, brains, provider, completed>>
        /\ physics' # "schedule" \/ UNCHANGED physics
    BY DEF Looking, NothingToApply, StepWithoutObservation, LeaveLoop,
           DrainBegins, DrainLooks, DrainCompletes, DrainTimesOut, DrainWaits,
           DeadlinePasses, Untouched, AfterApply
  <1>2. view' \in View
    <2>1. NoView \in View
      BY DEF NoView, View, RevOrNone
    <2>2. CASE DrainLooks
      <3>1. view' = [local |-> registered,
                     quiet |-> /\ cycle = NoCycle
                               /\ localMailbox = 0
                               /\ localResults = << >>]
        BY <2>2 DEF DrainLooks
      <3> QED
        BY <3>1 DEF View, IInv, TypeOK
    <2>3. CASE ~ DrainLooks
      BY <2>1, <2>3
         DEF Looking, NothingToApply, StepWithoutObservation, LeaveLoop,
             DrainBegins, DrainCompletes, DrainTimesOut, DrainWaits,
             DeadlinePasses, IInv, TypeOK
    <2> QED
      BY <2>2, <2>3
  <1>3. /\ physics' \in {"locals", "cycle", "schedule", "step", "check",
                         "decide", "ended"}
        /\ drain' \in {"idle", "open", "expired", "complete", "timedout"}
    BY DEF Looking, NothingToApply, StepWithoutObservation, LeaveLoop,
           DrainBegins, DrainLooks, DrainCompletes, DrainTimesOut, DrainWaits,
           DeadlinePasses, AfterApply, IInv, TypeOK
  <1>4. TypeOK'
    BY <1>1, <1>2, <1>3
       DEF IInv, TypeOK, Untouched, intake, history, brains, provider
  <1> QED
    BY <1>1, <1>4, Frame, BrainsUntouched DEF IInv

-----------------------------------------------------------------------------
(***************************************************************************)
(* The planner thread and the local threads.                               *)
(***************************************************************************)
Threads == [Rev -> {"none", "created", "running", "handoff", "ended"}]

\* QueueLocal called by a thread that leaves the running ones alone.
LEMMA QueueLocalFacts ==
    ASSUME TypeOK, LocalMailboxIsWatched,
           NEW c \in RevOrNone, NEW threads \in Threads,
           \A k \in Rev : local[k] = "running" => threads[k] = "running",
           QueueLocal(c, threads)
    PROVE  /\ local' \in Threads
           /\ registered' \in RevOrNone /\ localMailbox' \in RevOrNone
           /\ LocalMailboxIsWatched'
  <1> USE DEF TypeOK, Threads
  <1>1. CASE Alive(registered)
    <2>1. registered \in Rev /\ threads[registered] = "running"
      BY <1>1 DEF Alive, RevOrNone
    <2>2. registered' = registered /\ local' = threads
      BY <1>1 DEF QueueLocal
    <2>3. localMailbox' \in RevOrNone
      BY <1>1 DEF QueueLocal
    <2>4. Alive(registered)'
      BY <1>1, <2>1, <2>2 DEF Alive
    <2> QED
      BY <2>2, <2>3, <2>4 DEF LocalMailboxIsWatched
  <1>2. CASE ~ Alive(registered)
    <2>1. localMailbox = 0
      BY <1>2 DEF LocalMailboxIsWatched
    <2>2. localMailbox' = 0
      BY <1>2, <2>1 DEF QueueLocal
    <2>3. local' \in Threads /\ registered' \in RevOrNone
      BY <1>2 DEF QueueLocal
    <2> QED
      BY <2>2, <2>3 DEF LocalMailboxIsWatched, RevOrNone
  <1> QED
    BY <1>1, <1>2

LEMMA PlannerQueuesLocalKeeps ==
    ASSUME IInv, PlannerQueuesLocal
    PROVE  IInv' /\ Forward
  <1> USE DEF IInv
  <1>1. /\ UNCHANGED Untouched
        /\ UNCHANGED <<stepping, localResults, handed, provider>>
        /\ planner # "none" /\ planner' \in {"starting", "tick"}
    BY DEF PlannerQueuesLocal, QueueLocal, Untouched
  <1>2. /\ local' \in Threads
        /\ registered' \in RevOrNone /\ localMailbox' \in RevOrNone
        /\ LocalMailboxIsWatched'
    <2>1. local \in Threads /\ cycle.rev \in RevOrNone
      BY DEF TypeOK, Threads, Cycle
    <2> QED
      BY <2>1, QueueLocalFacts DEF PlannerQueuesLocal
  <1>3. TypeOK'
    BY <1>1, <1>2
       DEF TypeOK, Threads, Untouched, intake, history, stepping, provider
  <1> QED
    BY <1>1, <1>2, <1>3, Frame DEF stepping

LEMMA LocalHandsOffKeeps ==
    ASSUME IInv, NEW c \in Rev, LocalHandsOff(c)
    PROVE  IInv' /\ Forward
  <1> USE DEF IInv
  <1>1. /\ UNCHANGED Untouched
        /\ UNCHANGED <<stepping, planner, localResults, provider>>
        /\ handed' = [handed EXCEPT ![c] = 0]
        /\ local[c] = "handoff"
    BY DEF LocalHandsOff, QueueLocal, Untouched
  <1>2. /\ local' \in Threads
        /\ registered' \in RevOrNone /\ localMailbox' \in RevOrNone
        /\ LocalMailboxIsWatched'
    <2> DEFINE threads == [local EXCEPT ![c] = "ended"]
    <2>1. threads \in Threads /\ handed[c] \in RevOrNone
      BY DEF TypeOK, Threads
    <2>2. \A k \in Rev : local[k] = "running" => threads[k] = "running"
      BY <1>1 DEF TypeOK
    <2>3. QueueLocal(handed[c], threads)
      BY DEF LocalHandsOff
    <2> HIDE DEF threads
    <2> QED
      BY <2>1, <2>2, <2>3, QueueLocalFacts
  <1>3. handed' \in [Rev -> RevOrNone]
    BY <1>1 DEF TypeOK, RevOrNone
  <1>4. TypeOK'
    BY <1>1, <1>2, <1>3
       DEF TypeOK, Threads, Untouched, intake, history, stepping, provider
  <1> QED
    BY <1>1, <1>2, <1>4, Frame DEF stepping

\* A registered local thread is started.
Starting == \/ PlannerStartsLocal
            \/ \E c \in Rev : HandoffStartsLocal(c)

LEMMA StartingKeeps ==
    ASSUME IInv, Starting
    PROVE  IInv' /\ Forward
  <1> USE DEF IInv
  <1>1. /\ UNCHANGED Untouched
        /\ UNCHANGED <<stepping, provider, registered, localMailbox,
                       localResults, handed>>
        /\ \/ UNCHANGED planner
           \/ planner # "none" /\ planner' = "tick"
    BY DEF Starting, PlannerStartsLocal, HandoffStartsLocal, Untouched
  <1>2. PICK c : local' = [local EXCEPT ![c] = "running"]
    BY DEF Starting, PlannerStartsLocal, HandoffStartsLocal
  <1>3. local' \in Threads
    BY <1>2 DEF TypeOK, Threads
  <1>4. LocalMailboxIsWatched'
    <2>1. ASSUME localMailbox # 0
          PROVE  Alive(registered)'
      <3>1. /\ registered \in Rev /\ registered # 0
            /\ local[registered] = "running"
        BY <2>1 DEF LocalMailboxIsWatched, Alive, TypeOK, RevOrNone
      <3>2. local'[registered] = "running"
        BY <1>2, <3>1 DEF TypeOK
      <3> QED
        BY <1>1, <3>1, <3>2 DEF Alive
    <2> QED
      BY <1>1, <2>1 DEF LocalMailboxIsWatched
  <1>5. TypeOK'
    BY <1>1, <1>3
       DEF TypeOK, Threads, Untouched, intake, history, stepping, provider
  <1> QED
    BY <1>1, <1>4, <1>5, Frame DEF stepping

LEMMA LocalFinishesKeeps ==
    ASSUME IInv, NEW c \in Rev, NEW failed \in BOOLEAN,
           LocalFinishes(c, failed)
    PROVE  IInv' /\ Forward
  <1> USE DEF IInv
  <1>1. /\ UNCHANGED Untouched
        /\ UNCHANGED <<stepping, provider, planner>>
        /\ registered' = 0 /\ localMailbox' = 0
    BY DEF LocalFinishes, TakesMailbox, Untouched
  <1>2. localResults' \in Seq(LocalResult)
    <2>1. [rev |-> c, failed |-> failed] \in LocalResult
      BY DEF LocalResult
    <2> QED
      BY <2>1 DEF LocalFinishes, TypeOK
  <1>3. local' \in Threads /\ handed' \in [Rev -> RevOrNone]
    BY DEF LocalFinishes, TakesMailbox, TypeOK, Threads
  <1>4. TypeOK'
    BY <1>1, <1>2, <1>3
       DEF TypeOK, Threads, Untouched, intake, history, stepping, provider,
           RevOrNone
  <1> QED
    BY <1>1, <1>4, Frame DEF stepping, LocalMailboxIsWatched

\* The planner thread waits, or has nothing for the local brains.
Passing == NothingLocal \/ ProviderFails

LEMMA PassingKeeps ==
    ASSUME IInv, Passing
    PROVE  IInv' /\ Forward
  <1> USE DEF IInv
  <1>1. /\ UNCHANGED Untouched
        /\ UNCHANGED <<stepping, brains>>
        /\ planner # "none" /\ planner' \in {"tick", "failed"}
    BY DEF Passing, NothingLocal, ProviderFails, Untouched
  <1>2. paused' \in BOOLEAN /\ retryAt' \in Nat
    <2>1. cycle.rev \in Nat
      BY RevIsNat DEF TypeOK, Cycle
    <2> QED
      BY <2>1, FailureTypes
         DEF Passing, NothingLocal, ProviderFails, TypeOK, provider
  <1>3. TypeOK'
    BY <1>1, <1>2 DEF TypeOK, Untouched, intake, history, stepping, brains
  <1> QED
    BY <1>1, <1>3, Frame, BrainsUntouched DEF stepping

\* The planner thread leaves its result.
LEMMA PlannerEndsKeeps ==
    ASSUME IInv, PlannerReturns \/ PlannerGivesUp
    PROVE  IInv' /\ Forward
  <1> USE DEF IInv
  <1>1. /\ UNCHANGED <<stepping, intake, openEpoch, brains, closing, provider,
                       history>>
        /\ planner # "none" /\ planner' = "none"
    BY DEF PlannerReturns, PlannerGivesUp
  <1>2. PICK result \in {"ok", "llm", "error"} :
          cycle' = [cycle EXCEPT !.result = result]
    BY DEF PlannerReturns, PlannerGivesUp
  <1>3. /\ cycle' \in Cycle
        /\ cycle'.rev = cycle.rev /\ cycle'.epoch = cycle.epoch
    BY <1>2 DEF TypeOK, Cycle
  <1>4. cycle.rev # 0 /\ cycle # NoCycle /\ physics # "schedule"
    BY <1>1 DEF CycleShape, NoCycle
  <1>5. TypeOK'
    BY <1>1, <1>3 DEF TypeOK, stepping, intake, brains, provider, history
  <1>6. CycleShape' /\ EpochHasCycle' /\ Order' /\ EventsOffered'
    BY <1>1, <1>3, <1>4
       DEF CycleShape, EpochHasCycle, Order, EventsOffered, Offered, stepping,
           intake, history
  <1> QED
    BY <1>1, <1>4, <1>5, <1>6, BrainsUntouched DEF Forward

LEMMA AbortKeeps ==
    ASSUME IInv, Abort
    PROVE  IInv' /\ Forward
  <1> USE DEF IInv
  <1>1. /\ UNCHANGED <<stepping, situation, cycle, openEpoch, planner, history,
                       registered, localResults, local, handed, provider>>
        /\ mailbox' = NoSituation /\ localMailbox' = 0 /\ closing' = TRUE
    BY DEF Abort
  <1>2. mailbox' \in Situation /\ mailbox'.rev = 0
    BY <1>1 DEF NoSituation, Situation, RevOrNone
  <1>3. situation.rev \in Nat
    BY RevIsNat DEF TypeOK, Situation
  <1>4. TypeOK'
    BY <1>1, <1>2 DEF TypeOK, stepping, history, provider, RevOrNone
  <1>5. Order'
    BY <1>1, <1>2, <1>3 DEF Order, stepping, history
  <1> QED
    BY <1>1, <1>2, <1>4, <1>5
       DEF CycleShape, EpochHasCycle, EventsOffered, LocalMailboxIsWatched,
           Forward, stepping, history

-----------------------------------------------------------------------------
(***************************************************************************)
(* The theorems                                                            *)
(***************************************************************************)
LEMMA Initially == Init => IInv
  <1> SUFFICES ASSUME Init PROVE IInv
    OBVIOUS
  <1>1. TypeOK
    <2>1. NoView \in View /\ NoSituation \in Situation /\ NoCycle \in Cycle
      BY DEF NoView, View, NoSituation, Situation, NoCycle, Cycle, RevOrNone
    <2>2. localResults \in Seq(LocalResult)
      BY DEF Init
    <2>3. /\ local \in [Rev -> {"none", "created", "running", "handoff",
                               "ended"}]
          /\ handed \in [Rev -> RevOrNone]
      BY DEF Init, RevOrNone
    <2> QED
      BY <2>1, <2>2, <2>3 DEF Init, TypeOK, RevOrNone
  <1>2. Offered
    BY DEF Init, Offered, NoSituation
  <1> QED
    BY <1>1, <1>2
       DEF Init, IInv, CycleShape, EpochHasCycle, LocalMailboxIsWatched, Order,
           EventsOffered, NoSituation, NoCycle

LEMMA Stepwise == IInv /\ [Next]_vars => IInv' /\ (Forward \/ UNCHANGED vars)
  <1> SUFFICES ASSUME IInv, [Next]_vars
               PROVE  IInv' /\ (Forward \/ UNCHANGED vars)
    OBVIOUS
  <1>1. CASE Apply
    BY <1>1, ApplyLocalsKeeps, LookingKeeps, ApplyCycleKeeps, CallersKeep
       DEF Apply, Looking, Callers
  <1>2. CASE Step
    BY <1>2, LookingKeeps, ObserveAndReturnKeeps, CallersKeep
       DEF Step, Looking, Callers
  <1>3. CASE Drain \/ DeadlinePasses
    BY <1>3, LookingKeeps, CallersKeep DEF Drain, Looking, Callers
  <1>4. CASE Planner
    BY <1>4, PlannerQueuesLocalKeeps, PassingKeeps, StartingKeeps,
       PlannerEndsKeeps DEF Planner, Passing, Starting
  <1>5. ASSUME NEW c \in Rev, Local(c)
        PROVE  IInv' /\ Forward
    BY <1>5, StartingKeeps, LocalFinishesKeeps, LocalHandsOffKeeps
       DEF Local, Starting
  <1>6. CASE Abort
    BY <1>6, AbortKeeps
  <1>7. CASE UNCHANGED vars
    BY <1>7
       DEF vars, stepping, intake, brains, provider, history, IInv, TypeOK,
           CycleShape, EpochHasCycle, LocalMailboxIsWatched, Alive, Order,
           EventsOffered, Offered
  <1> QED
    BY <1>1, <1>2, <1>3, <1>4, <1>5, <1>6, <1>7 DEF Next

\* The inductive invariant of the background cycles.
THEOREM Invariant == Spec => []IInv
  BY Initially, Stepwise, PTL DEF Spec

\* The types of the loop's state.
THEOREM TypeCorrect == Spec => []TypeOK
  <1>1. IInv => TypeOK
    BY DEF IInv
  <1> QED
    BY <1>1, Invariant, PTL

\* The epoch the coordinator runs is the active cycle's, so applying a cycle,
\* stale or not, never leaves one open (apply_background_cycle).
THEOREM EpochIsTheCycles == Spec => []EpochHasCycle
  <1>1. IInv => EpochHasCycle
    BY DEF IInv
  <1> QED
    BY <1>1, Invariant, PTL

\* What is in the local mailbox has a running thread to take it over
\* (_queue_local_brain_cycle, _run_local_brain_cycle).
THEOREM LocalMailboxWatched == Spec => []LocalMailboxIsWatched
  <1>1. IInv => LocalMailboxIsWatched
    BY DEF IInv
  <1> QED
    BY <1>1, Invariant, PTL

\* While no observation has returned early, no event observed is lost
\* (_merge_pending_events, _start_background_cycle).
THEOREM EventsKept == Spec => []EventsKeptWhenOffered
  <1>1. IInv => EventsKeptWhenOffered
    BY DEF IInv, EventsOffered, Offered, EventsKeptWhenOffered, Held
  <1> QED
    BY <1>1, Invariant, PTL

\* A cycle never works on a situation older than one worked on before.
THEOREM CyclesMoveOn == Spec => CyclesMoveForward
  <1>1. IInv /\ [Next]_vars =>
          [cycle = NoCycle /\ cycle' # NoCycle =>
              \A r \in started : cycle'.rev > r]_vars
    BY Stepwise DEF Forward
  <1> QED
    BY <1>1, Invariant, PTL DEF Spec, CyclesMoveForward

-----------------------------------------------------------------------------
(***************************************************************************)
(* Threads and the drain                                                   *)
(***************************************************************************)
\* An unfinished cycle has its planner thread, so that nothing waits for the
\* result of a thread that is gone.
CycleIsWorked == cycle # NoCycle /\ cycle.result = "running" => planner # "none"

\* A drain that reports completion has left nothing of the cycles behind: no
\* active cycle, no situation to start one from, no open epoch and no planner
\* thread.
DrainedMeansIdle ==
    drain = "complete" =>
        /\ cycle = NoCycle /\ mailbox = NoSituation
        /\ openEpoch = 0 /\ planner = "none"

\* What the drain has seen stays true until it decides, though the other
\* threads go on, and after it has decided.
SeenIsTrue ==
    /\ physics = "decide" /\ view.quiet => cycle = NoCycle /\ mailbox = NoSituation
    /\ drain = "complete" =>
         physics = "ended" /\ cycle = NoCycle /\ mailbox = NoSituation

\* A cycle has one local thread at most, which runs once: it is created for a
\* cycle that has none, started once created, and never comes back.
LocalRunsOnce ==
    [][\A c \in Rev : local'[c] # local[c] =>
          <<local[c], local'[c]>> \in
              {<<"none", "created">>, <<"created", "running">>,
               <<"running", "handoff">>, <<"running", "ended">>,
               <<"handoff", "ended">>}]_vars

\* A finishing thread holds exactly what it has taken out of the local
\* mailbox, and the registration is of a thread that has not finished.
LocalThreadsAccounted ==
    /\ registered # 0 => local[registered] \in {"created", "running"}
    /\ \A c \in Rev : local[c] = "handoff" <=> handed[c] # 0

\* A cycle that still waits for its local thread has none yet, and waits in
\* one place: with the planner thread, in the mailbox or with one thread that
\* hands it off.
Unqueued(c) == local[c] = "none" /\ localMailbox # c /\ \A a \in Rev : handed[a] # c
WaitsOnce ==
    /\ \A c \in Rev : local[c] # "none" => c \in started
    /\ localMailbox # 0 =>
         /\ localMailbox \in started /\ local[localMailbox] = "none"
         /\ \A a \in Rev : handed[a] # localMailbox
    /\ \A a \in Rev : handed[a] # 0 =>
         /\ handed[a] \in started /\ local[handed[a]] = "none"
         /\ \A b \in Rev : handed[b] = handed[a] => a = b
    /\ planner = "queue" => Unqueued(cycle.rev)
    /\ planner = "starting" => local[cycle.rev] = "created"

\* The inductive invariant of the threads.
KInv == IInv /\ CycleIsWorked /\ SeenIsTrue /\ LocalThreadsAccounted /\ WaitsOnce

\* The part of the state that only the planner and the local threads change.
Locals == <<registered, localMailbox, local, handed>>

-----------------------------------------------------------------------------
\* A call of Start leaves the cycle and its thread alone, or begins a newer one.
LEMMA CallersStart ==
    ASSUME IInv, Callers
    PROVE  /\ started \subseteq started'
           /\ \/ UNCHANGED <<cycle, planner>>
              \/ /\ planner' = "queue" /\ cycle'.rev \in Rev
                 /\ cycle'.rev \notin started
  <1>1. CASE UNCHANGED <<intake, cycle, openEpoch, planner, planned, started>>
    BY <1>1
  <1>2. ASSUME NEW s, NEW now, NEW mail, Called(s, now, mail), Start(s, now, mail)
        PROVE  /\ started \subseteq started'
               /\ \/ UNCHANGED <<cycle, planner>>
                  \/ planner' = "queue" /\ cycle = NoCycle
    BY <1>2 DEF Start, StartRefused, StartBehindCycle, StartPostponed, CycleStarts
  <1>3. /\ started \subseteq started'
        /\ \/ UNCHANGED <<cycle, planner>>
           \/ planner' = "queue" /\ cycle = NoCycle
    BY <1>1, <1>2, Calls
  <1>4. CASE planner' = "queue" /\ cycle = NoCycle
    <2>1. IInv' /\ Forward
      BY CallersKeep
    <2>2. cycle'.rev # 0 /\ cycle'.rev \in RevOrNone
      BY <1>4, <2>1 DEF IInv, CycleShape, TypeOK, Cycle
    <2>3. cycle' # NoCycle /\ cycle'.rev \in Rev
      BY <2>2 DEF NoCycle, RevOrNone
    <2>4. \A r \in started : cycle'.rev > r
      BY <1>4, <2>1, <2>3 DEF Forward
    <2>5. cycle'.rev \notin started
      BY <2>3, <2>4, CarrierCycleAssumption DEF Rev
    <2> QED
      BY <1>3, <1>4, <2>3, <2>5
  <1> QED
    BY <1>3, <1>4

\* The steps that call Start.
LEMMA CallersAccount ==
    ASSUME KInv, Callers
    PROVE  KInv'
  <1> USE DEF KInv
  <1>0. IInv' /\ TypeOK
    BY CallersKeep DEF IInv
  <1>1. /\ UNCHANGED <<brains, drain>> /\ physics # "ended"
        /\ physics' \in {"locals", "step", "check"}
    <2>1. UNCHANGED brains
      BY Calls
    <2> QED
      BY <2>1 DEF Callers, ObserveAndStart, ScheduleLatest, DrainStarts, AfterApply
  <1>2. SeenIsTrue' /\ LocalThreadsAccounted'
    BY <1>1 DEF SeenIsTrue, LocalThreadsAccounted, brains
  <1>3. /\ started \subseteq started'
        /\ \/ UNCHANGED <<cycle, planner>>
           \/ /\ planner' = "queue" /\ cycle'.rev \in Rev
              /\ cycle'.rev \notin started
    BY CallersStart
  <1>4. CycleIsWorked'
    BY <1>3 DEF CycleIsWorked
  <1>5. WaitsOnce'
    <2>1. CASE UNCHANGED <<cycle, planner>>
      BY <1>1, <1>3, <2>1 DEF WaitsOnce, Unqueued, brains
    <2>2. CASE /\ planner' = "queue" /\ cycle'.rev \in Rev
               /\ cycle'.rev \notin started
      <3>1. Unqueued(cycle.rev)'
        BY <1>1, <2>2 DEF WaitsOnce, Unqueued, brains, Rev
      <3> QED
        BY <1>1, <1>3, <2>2, <3>1 DEF WaitsOnce, brains
    <2> QED
      BY <1>3, <2>1, <2>2
  <1> QED
    BY <1>0, <1>2, <1>4, <1>5

\* The steps that only move the physics thread on.
LEMMA LookingAccounts ==
    ASSUME KInv, Looking
    PROVE  KInv'
  <1> USE DEF KInv
  <1>1. UNCHANGED <<intake, cycle, planner, brains, started>>
    BY DEF Looking, NothingToApply, StepWithoutObservation, LeaveLoop,
           DrainBegins, DrainLooks, DrainCompletes, DrainTimesOut, DrainWaits,
           DeadlinePasses, history
  <1>2. CycleIsWorked' /\ LocalThreadsAccounted' /\ WaitsOnce' /\ IInv'
    BY <1>1, LookingKeeps
       DEF CycleIsWorked, LocalThreadsAccounted, WaitsOnce, Unqueued, brains
  <1>3. CASE DrainLooks
    <2>1. /\ view'.quiet => cycle = NoCycle
          /\ cycle # NoCycle \/ mailbox = NoSituation
          /\ physics = "check" /\ drain' = drain
      BY <1>3 DEF DrainLooks
    <2> QED
      BY <1>1, <1>2, <2>1 DEF SeenIsTrue, intake
  <1>4. CASE DrainCompletes
    <2>1. view.quiet /\ physics = "decide" /\ physics' = "ended"
      BY <1>4 DEF DrainCompletes, Quiet
    <2> QED
      BY <1>1, <1>2, <2>1 DEF SeenIsTrue, intake
  <1>5. CASE DeadlinePasses
    BY <1>1, <1>2, <1>5 DEF DeadlinePasses, SeenIsTrue, intake
  <1>6. CASE ~ DrainLooks /\ ~ DrainCompletes /\ ~ DeadlinePasses
    <2>1. /\ physics' # "decide" /\ physics # "ended"
          /\ drain' \in {drain, "open", "timedout"}
      BY <1>6 DEF Looking, NothingToApply, StepWithoutObservation, LeaveLoop,
             DrainBegins, DrainTimesOut, DrainWaits, AfterApply
    <2> QED
      BY <1>1, <1>2, <2>1 DEF SeenIsTrue
  <1> QED
    BY <1>3, <1>4, <1>5, <1>6

\* The other steps of the physics thread.
LEMMA ApplyAccounts ==
    ASSUME KInv, ApplyLocals \/ ApplyCycle \/ ObserveAndReturn
    PROVE  KInv'
  <1> USE DEF KInv
  <1>1. /\ UNCHANGED <<drain, planner, Locals, started>>
        /\ \/ cycle' = cycle
           \/ cycle' = NoCycle /\ cycle.result # "running"
        /\ physics # "ended" /\ physics' \in {"cycle", "schedule", "locals"}
    <2>1. CASE ApplyLocals
      BY <2>1 DEF ApplyLocals, history, Locals
    <2>2. CASE ApplyCycle
      BY <2>2 DEF ApplyCycle, brains, history, Locals
    <2>3. CASE ObserveAndReturn
      BY <2>3 DEF ObserveAndReturn, brains, Locals
    <2> QED
      BY <2>1, <2>2, <2>3
  <1>2. IInv'
    BY ApplyLocalsKeeps, ApplyCycleKeeps, ObserveAndReturnKeeps
  <1>3. planner # "none" => cycle' = cycle
    BY <1>1 DEF IInv, CycleShape
  <1> QED
    BY <1>1, <1>2, <1>3
       DEF CycleIsWorked, SeenIsTrue, LocalThreadsAccounted, WaitsOnce,
           Unqueued, Locals

-----------------------------------------------------------------------------
\* Steps of the planner thread without a local thread.
LEMMA PlannerAccounts ==
    ASSUME KInv, Passing \/ PlannerReturns \/ PlannerGivesUp
    PROVE  KInv'
  <1> USE DEF KInv
  <1>1. /\ UNCHANGED <<stepping, mailbox, Locals, started>>
        /\ planner # "none" /\ planner' \notin {"queue", "starting"}
        /\ \/ planner' # "none"
           \/ cycle'.result # "running"
        /\ cycle = NoCycle => cycle' = NoCycle
    <2>1. cycle # NoCycle /\ cycle \in Cycle
      BY DEF Passing, NothingLocal, ProviderFails, PlannerReturns,
             PlannerGivesUp, IInv, CycleShape, NoCycle, TypeOK
    <2> QED
      BY <2>1 DEF Passing, NothingLocal, ProviderFails, PlannerReturns,
             PlannerGivesUp, Locals, brains, history, intake, Cycle
  <1>2. IInv'
    BY PassingKeeps, PlannerEndsKeeps
  <1>3. ~ (physics = "decide" /\ view.quiet) /\ drain # "complete"
    BY <1>1 DEF SeenIsTrue, IInv, CycleShape, NoCycle
  <1> QED
    BY <1>1, <1>2, <1>3
       DEF CycleIsWorked, SeenIsTrue, LocalThreadsAccounted, WaitsOnce,
           Locals, stepping

\* A thread that queues the local cycle c, which has none and waits nowhere
\* else, creates a thread for it or leaves it in the mailbox.
LEMMA QueueAccounts ==
    ASSUME TypeOK, LocalThreadsAccounted, NEW c \in Rev, c \in started,
           NEW threads \in Threads,
           QueueLocal(c, threads), handed' \in [Rev -> RevOrNone],
           \A k \in Rev : threads[k] = "handoff" <=> handed'[k] # 0,
           registered # 0 => threads[registered] = local[registered],
           threads[c] = "none", localMailbox # c,
           \A a \in Rev : handed'[a] # c,
           \A k \in Rev : threads[k] # "none" => k \in started,
           localMailbox # 0 =>
             /\ localMailbox \in started /\ threads[localMailbox] = "none"
             /\ \A a \in Rev : handed'[a] # localMailbox,
           \A a \in Rev : handed'[a] # 0 =>
             /\ handed'[a] \in started /\ threads[handed'[a]] = "none"
             /\ \A b \in Rev : handed'[b] = handed'[a] => a = b,
           UNCHANGED started, planner' = "queue" => Unqueued(cycle.rev)',
           planner' = "starting" => local'[cycle'.rev] = "created"
    PROVE  LocalThreadsAccounted' /\ WaitsOnce'
  <1> USE DEF Threads
  <1>1. CASE closing \/ Alive(registered)
    <2>1. /\ local' = threads /\ registered' = registered
          /\ localMailbox' \in {c, localMailbox}
      BY <1>1 DEF QueueLocal
    <2>2. LocalThreadsAccounted'
      BY <2>1 DEF LocalThreadsAccounted
    <2>3. CASE localMailbox' = localMailbox
      BY <2>1, <2>2, <2>3 DEF WaitsOnce
    <2>4. CASE localMailbox' = c
      BY <2>1, <2>2, <2>4 DEF WaitsOnce
    <2> QED
      BY <2>1, <2>3, <2>4
  <1>2. CASE ~ (closing \/ Alive(registered))
    <2>1. /\ registered' = c /\ local' = [threads EXCEPT ![c] = "created"]
          /\ localMailbox' = localMailbox
      BY <1>2 DEF QueueLocal
    <2>2. local'[c] = "created" /\ \A k \in Rev : k # c => local'[k] = threads[k]
      BY <2>1
    <2>3. LocalThreadsAccounted'
      BY <2>1, <2>2 DEF LocalThreadsAccounted
    <2>4. WaitsOnce'
      <3>1. \A k \in Rev : local'[k] # "none" => k \in started
        BY <2>2
      <3>2. localMailbox # 0 => localMailbox \in Rev
        BY DEF TypeOK, RevOrNone
      <3>3. \A a \in Rev : handed'[a] # 0 => handed'[a] \in Rev
        BY DEF RevOrNone
      <3> QED
        BY <2>1, <2>2, <3>1, <3>2, <3>3 DEF WaitsOnce
    <2> QED
      BY <2>3, <2>4
  <1> QED
    BY <1>1, <1>2

\* The planner thread queues the local work of its cycle.
LEMMA PlannerQueuesAccounts ==
    ASSUME KInv, PlannerQueuesLocal
    PROVE  KInv'
  <1> USE DEF KInv
  <1>1. TypeOK /\ IInv' /\ local \in Threads
    BY PlannerQueuesLocalKeeps DEF IInv, TypeOK, Threads
  <1>2. cycle.rev \in Rev /\ cycle.rev \in started /\ cycle # NoCycle
    BY DEF PlannerQueuesLocal, IInv, CycleShape, Order, TypeOK, Cycle,
           RevOrNone, NoCycle
  <1>3. /\ UNCHANGED <<stepping, mailbox, cycle, handed, started>>
        /\ planner' \in {"starting", "tick"}
        /\ planner' = "starting" => local'[cycle'.rev] = "created"
        /\ QueueLocal(cycle.rev, local)
    BY DEF PlannerQueuesLocal, intake, history
  <1>4. Unqueued(cycle.rev)
    BY DEF WaitsOnce, PlannerQueuesLocal
  <1>5. handed' = handed /\ handed \in [Rev -> RevOrNone]
    BY <1>1, <1>3 DEF TypeOK
  <1>6. LocalThreadsAccounted' /\ WaitsOnce'
    <2>1. /\ \A k \in Rev : local[k] = "handoff" <=> handed'[k] # 0
          /\ \A k \in Rev : local[k] # "none" => k \in started
          /\ local[cycle.rev] = "none" /\ localMailbox # cycle.rev
          /\ \A a \in Rev : handed'[a] # cycle.rev
          /\ localMailbox # 0 =>
               /\ localMailbox \in started /\ local[localMailbox] = "none"
               /\ \A a \in Rev : handed'[a] # localMailbox
          /\ \A a \in Rev : handed'[a] # 0 =>
               /\ handed'[a] \in started /\ local[handed'[a]] = "none"
               /\ \A b \in Rev : handed'[b] = handed'[a] => a = b
      BY <1>4, <1>5 DEF LocalThreadsAccounted, WaitsOnce, Unqueued
    <2> QED
      BY <1>1, <1>2, <1>3, <1>5, <2>1, QueueAccounts
  <1>7. CycleIsWorked' /\ SeenIsTrue'
    BY <1>2, <1>3 DEF CycleIsWorked, SeenIsTrue, stepping
  <1> QED
    BY <1>1, <1>6, <1>7

\* A finishing thread queues the cycle it has taken over.
LEMMA HandsOffAccounts ==
    ASSUME KInv, NEW c \in Rev, LocalHandsOff(c)
    PROVE  KInv'
  <1> USE DEF KInv
  <1>1. TypeOK /\ IInv'
    BY LocalHandsOffKeeps DEF IInv
  <1> DEFINE threads == [local EXCEPT ![c] = "ended"]
             to == handed[c]
  <1>2. /\ UNCHANGED <<stepping, mailbox, cycle, planner, started>>
        /\ local[c] = "handoff" /\ QueueLocal(to, threads)
        /\ handed' = [handed EXCEPT ![c] = 0]
    BY DEF LocalHandsOff, intake, history
  <1>3. /\ to # 0 /\ to \in Rev /\ to \in started /\ local[to] = "none" /\ to # c
        /\ localMailbox # to /\ \A b \in Rev : b # c => handed[b] # to
    BY <1>1, <1>2 DEF LocalThreadsAccounted, WaitsOnce, TypeOK, RevOrNone
  <1>4. /\ threads \in Threads /\ threads[c] = "ended"
        /\ \A k \in Rev : k # c => threads[k] = local[k]
    BY <1>1 DEF TypeOK, Threads
  <1>5. /\ handed' \in [Rev -> RevOrNone] /\ handed'[c] = 0
        /\ \A k \in Rev : k # c => handed'[k] = handed[k]
    BY <1>1, <1>2 DEF TypeOK, RevOrNone
  <1>6. c \in started
    BY <1>2 DEF WaitsOnce
  <1>. HIDE DEF threads, to
  <1>7. \A k \in Rev : threads[k] = "handoff" <=> handed'[k] # 0
    BY <1>4, <1>5 DEF LocalThreadsAccounted
  <1>8. registered # 0 => threads[registered] = local[registered]
    BY <1>1, <1>2, <1>4 DEF LocalThreadsAccounted, TypeOK, RevOrNone
  <1>9. threads[to] = "none" /\ \A a \in Rev : handed'[a] # to
    BY <1>3, <1>4, <1>5
  <1>10. \A k \in Rev : threads[k] # "none" => k \in started
    BY <1>4, <1>6 DEF WaitsOnce
  <1>11. localMailbox # 0 =>
           /\ localMailbox \in started /\ threads[localMailbox] = "none"
           /\ \A a \in Rev : handed'[a] # localMailbox
    BY <1>1, <1>2, <1>4, <1>5 DEF WaitsOnce, TypeOK, RevOrNone
  <1>12. ASSUME NEW a \in Rev, handed'[a] # 0
         PROVE  /\ handed'[a] \in started /\ threads[handed'[a]] = "none"
                /\ \A b \in Rev : handed'[b] = handed'[a] => a = b
    <2>1. a # c /\ handed'[a] = handed[a] /\ handed[a] \in Rev
      BY <1>1, <1>5, <1>12 DEF TypeOK, RevOrNone
    <2>2. /\ handed[a] \in started /\ local[handed[a]] = "none"
          /\ \A b \in Rev : handed[b] = handed[a] => a = b
      BY <1>12, <2>1 DEF WaitsOnce
    <2>3. handed[a] # c
      BY <1>2, <2>2
    <2> QED
      BY <1>4, <1>5, <1>12, <2>1, <2>2, <2>3
  <1>13. \A k \in Rev : k # to /\ k # c => local'[k] = local[k]
    BY <1>2, <1>4 DEF QueueLocal, Threads
  <1>14. planner = "queue" => Unqueued(cycle.rev)'
    <2>. SUFFICES ASSUME planner = "queue" PROVE Unqueued(cycle.rev)'
      OBVIOUS
    <2>1. Unqueued(cycle.rev) /\ cycle' = cycle /\ cycle.rev \in Rev
      BY <1>1, <1>2 DEF WaitsOnce, IInv, CycleShape, TypeOK, Cycle, RevOrNone
    <2>2. cycle.rev # to /\ cycle.rev # c
      BY <1>2, <2>1 DEF Unqueued, to
    <2>3. local'[cycle.rev] = "none"
      BY <1>13, <2>1, <2>2 DEF Unqueued
    <2>4. localMailbox' \in {localMailbox, to}
      BY <1>2 DEF QueueLocal
    <2>5. \A a \in Rev : handed'[a] # cycle.rev
      BY <1>5, <2>1 DEF Unqueued, Rev
    <2> QED
      BY <2>1, <2>2, <2>3, <2>4, <2>5 DEF Unqueued
  <1>15. planner = "starting" => local'[cycle'.rev] = "created"
    BY <1>1, <1>2, <1>3, <1>13
       DEF WaitsOnce, IInv, CycleShape, TypeOK, Cycle, RevOrNone
  <1>16. to \in Rev /\ to \in started /\ localMailbox # to
    BY <1>3
  <1>17. LocalThreadsAccounted' /\ WaitsOnce'
    BY <1>1, <1>2, <1>4, <1>5, <1>7, <1>8, <1>9, <1>10, <1>11, <1>12, <1>14,
       <1>15, <1>16, QueueAccounts
  <1>18. CycleIsWorked' /\ SeenIsTrue'
    BY <1>2 DEF CycleIsWorked, SeenIsTrue, stepping
  <1> QED
    BY <1>1, <1>17, <1>18

\* A created thread is started, by whoever has registered it.
LEMMA StartsAccount ==
    ASSUME KInv,
           NEW c \in Rev, local[c] = "created",
           local' = [local EXCEPT ![c] = "running"],
           UNCHANGED <<stepping, mailbox, cycle, registered, localMailbox,
                       handed, started>>,
           \/ planner = "starting" /\ planner' = "tick"
           \/ planner' = planner /\ ~ (planner = "starting" /\ cycle.rev = c),
           IInv'
    PROVE  KInv'
  <1> USE DEF KInv
  <1>1. TypeOK /\ local \in Threads
    BY DEF IInv, TypeOK, Threads
  <1>2. /\ local'[c] = "running" /\ local[c] = "created"
        /\ \A k \in Rev : k # c => local'[k] = local[k]
    BY <1>1 DEF Threads
  <1>3. CycleIsWorked' /\ SeenIsTrue'
    BY DEF CycleIsWorked, SeenIsTrue, stepping
  <1>4. registered # 0 => registered \in Rev
    BY <1>1 DEF TypeOK, RevOrNone
  <1>5. LocalThreadsAccounted'
    BY <1>2, <1>4 DEF LocalThreadsAccounted
  <1>6. WaitsOnce'
    <2>1. \A k \in Rev : local'[k] # "none" => k \in started
      BY <1>2 DEF WaitsOnce
    <2>2. localMailbox # 0 => localMailbox \in Rev
      BY <1>1 DEF TypeOK, RevOrNone
    <2>3. \A a \in Rev : handed[a] # 0 => handed[a] \in Rev
      BY <1>1 DEF TypeOK, RevOrNone
    <2>4. planner \in {"queue", "starting"} => cycle.rev \in Rev
      BY <1>1 DEF IInv, CycleShape, TypeOK, Cycle, RevOrNone
    <2>5. planner' = "queue" => Unqueued(cycle.rev)'
      BY <1>2, <2>4 DEF WaitsOnce, Unqueued
    <2>6. planner' = "starting" => local'[cycle'.rev] = "created"
      BY <1>2, <2>4 DEF WaitsOnce
    <2>7. localMailbox' # 0 =>
            /\ localMailbox' \in started' /\ local'[localMailbox'] = "none"
            /\ \A a \in Rev : handed'[a] # localMailbox'
      BY <1>2, <2>2 DEF WaitsOnce
    <2>8. \A a \in Rev : handed'[a] # 0 =>
            /\ handed'[a] \in started' /\ local'[handed'[a]] = "none"
            /\ \A b \in Rev : handed'[b] = handed'[a] => a = b
      BY <1>2, <2>3 DEF WaitsOnce
    <2> QED
      BY <2>1, <2>5, <2>6, <2>7, <2>8 DEF WaitsOnce
  <1> QED
    BY <1>3, <1>5, <1>6

LEMMA StartingAccounts ==
    ASSUME KInv, Starting
    PROVE  KInv'
  <1>1. IInv'
    BY StartingKeeps DEF KInv
  <1>2. CASE PlannerStartsLocal
    <2>1. cycle.rev \in Rev /\ local[cycle.rev] = "created"
      BY <1>2 DEF PlannerStartsLocal, KInv, WaitsOnce, IInv, CycleShape,
                  TypeOK, Cycle, RevOrNone
    <2>2. /\ local' = [local EXCEPT ![cycle.rev] = "running"]
          /\ UNCHANGED <<stepping, mailbox, cycle, registered, localMailbox,
                         handed, started>>
          /\ planner = "starting" /\ planner' = "tick"
      BY <1>2 DEF PlannerStartsLocal, intake, history
    <2> QED
      BY <1>1, <2>1, <2>2, StartsAccount
  <1>3. ASSUME NEW c \in Rev, HandoffStartsLocal(c)
        PROVE  KInv'
    BY <1>1, <1>3, StartsAccount DEF HandoffStartsLocal, intake, history
  <1> QED
    BY <1>2, <1>3 DEF Starting

\* A finishing thread takes the mailbox along.
LEMMA FinishesAccounts ==
    ASSUME KInv, NEW c \in Rev, NEW failed \in BOOLEAN, LocalFinishes(c, failed)
    PROVE  KInv'
  <1> USE DEF KInv
  <1>1. TypeOK /\ IInv'
    BY LocalFinishesKeeps DEF IInv
  <1>2. /\ UNCHANGED <<stepping, mailbox, cycle, planner, started>>
        /\ local[c] = "running" /\ registered' = 0 /\ localMailbox' = 0
        /\ handed' = [handed EXCEPT ![c] = localMailbox]
        /\ local' = [local EXCEPT ![c] = IF localMailbox = 0 THEN "ended"
                                         ELSE "handoff"]
    BY DEF LocalFinishes, TakesMailbox, intake, history
  <1>3. /\ local'[c] = IF localMailbox = 0 THEN "ended" ELSE "handoff"
        /\ \A k \in Rev : k # c => local'[k] = local[k]
    BY <1>1, <1>2 DEF TypeOK
  <1>4. /\ handed'[c] = localMailbox
        /\ \A k \in Rev : k # c => handed'[k] = handed[k]
    BY <1>1, <1>2 DEF TypeOK
  <1>5. CycleIsWorked' /\ SeenIsTrue'
    BY <1>2 DEF CycleIsWorked, SeenIsTrue, stepping
  <1>6. LocalThreadsAccounted'
    BY <1>2, <1>3, <1>4 DEF LocalThreadsAccounted
  <1>7. WaitsOnce'
    <2>1. \A k \in Rev : local'[k] # "none" => k \in started'
      BY <1>2, <1>3 DEF WaitsOnce
    <2>2. localMailbox # 0 => localMailbox \in Rev /\ localMailbox # c
      BY <1>1, <1>2 DEF TypeOK, RevOrNone, WaitsOnce
    <2>3. ASSUME NEW a \in Rev, handed'[a] # 0
          PROVE  /\ handed'[a] \in started' /\ local'[handed'[a]] = "none"
                 /\ \A b \in Rev : handed'[b] = handed'[a] => a = b
      <3>1. CASE a = c
        BY <1>2, <1>3, <1>4, <2>2, <2>3, <3>1 DEF WaitsOnce
      <3>2. CASE a # c
        <4>1. handed'[a] = handed[a] /\ handed[a] \in Rev
          BY <1>1, <1>4, <2>3, <3>2 DEF TypeOK, RevOrNone
        <4>2. /\ handed[a] \in started /\ local[handed[a]] = "none"
              /\ \A b \in Rev : handed[b] = handed[a] => a = b
              /\ localMailbox # 0 => handed[a] # localMailbox
          BY <2>3, <4>1 DEF WaitsOnce
        <4>3. handed'[c] # handed[a]
          BY <1>4, <2>3, <4>1, <4>2
        <4> QED
          BY <1>2, <1>3, <1>4, <4>1, <4>2, <4>3
      <3> QED
        BY <3>1, <3>2
    <2>4. planner \in {"queue", "starting"} => cycle.rev \in Rev
      BY <1>1 DEF IInv, CycleShape, TypeOK, Cycle, RevOrNone
    <2>5. planner' = "queue" => Unqueued(cycle.rev)'
      BY <1>2, <1>3, <1>4, <2>4 DEF WaitsOnce, Unqueued, Rev
    <2>6. planner' = "starting" => local'[cycle'.rev] = "created"
      BY <1>2, <1>3, <2>4 DEF WaitsOnce
    <2> QED
      BY <1>2, <2>1, <2>3, <2>5, <2>6 DEF WaitsOnce
  <1> QED
    BY <1>1, <1>5, <1>6, <1>7

LEMMA AbortAccounts ==
    ASSUME KInv, Abort
    PROVE  KInv'
  <1> USE DEF KInv
  <1>1. IInv'
    BY AbortKeeps
  <1>2. /\ UNCHANGED <<stepping, cycle, planner, registered, local, handed,
                       started>>
        /\ mailbox' = NoSituation /\ localMailbox' = 0
    BY DEF Abort, history
  <1>3. CycleIsWorked' /\ SeenIsTrue' /\ LocalThreadsAccounted'
    BY <1>2 DEF CycleIsWorked, SeenIsTrue, LocalThreadsAccounted, stepping
  <1>4. planner = "queue" => cycle.rev # 0
    BY DEF IInv, CycleShape
  <1>5. WaitsOnce'
    BY <1>2, <1>4 DEF WaitsOnce, Unqueued
  <1> QED
    BY <1>1, <1>3, <1>5
LEMMA StaysAccounted == KInv /\ [Next]_vars => KInv'
  <1> SUFFICES ASSUME KInv, [Next]_vars PROVE KInv'
    OBVIOUS
  <1>1. CASE Apply
    BY <1>1, ApplyAccounts, LookingAccounts, CallersAccount
       DEF Apply, Looking, Callers
  <1>2. CASE Step
    BY <1>2, LookingAccounts, ApplyAccounts, CallersAccount
       DEF Step, Looking, Callers
  <1>3. CASE Drain \/ DeadlinePasses
    BY <1>3, LookingAccounts, CallersAccount DEF Drain, Looking, Callers
  <1>4. CASE Planner
    BY <1>4, PlannerQueuesAccounts, PlannerAccounts, StartingAccounts
       DEF Planner, Passing, Starting
  <1>5. ASSUME NEW c \in Rev, Local(c)
        PROVE  KInv'
    BY <1>5, StartingAccounts, FinishesAccounts, HandsOffAccounts
       DEF Local, Starting
  <1>6. CASE Abort
    BY <1>6, AbortAccounts
  <1>7. CASE UNCHANGED vars
    <2>1. IInv'
      BY <1>7, Stepwise DEF KInv
    <2>2. /\ UNCHANGED <<physics, drain, view, mailbox, cycle, planner, started>>
          /\ UNCHANGED <<registered, localMailbox, local, handed>>
      BY <1>7 DEF vars, stepping, intake, brains, history
    <2> QED
      BY <2>1, <2>2 DEF KInv, CycleIsWorked, SeenIsTrue, LocalThreadsAccounted,
                        WaitsOnce, Unqueued
  <1> QED
    BY <1>1, <1>2, <1>3, <1>4, <1>5, <1>6, <1>7 DEF Next

LEMMA AccountedInitially == Init => KInv
  <1> SUFFICES ASSUME Init PROVE KInv
    OBVIOUS
  <1>1. IInv
    BY Initially
  <1>2. CycleIsWorked /\ SeenIsTrue
    BY DEF Init, CycleIsWorked, SeenIsTrue
  <1>3. LocalThreadsAccounted /\ WaitsOnce
    BY DEF Init, LocalThreadsAccounted, WaitsOnce
  <1> QED
    BY <1>1, <1>2, <1>3 DEF KInv

LEMMA AlwaysAccounted == Spec => []KInv
  BY AccountedInitially, StaysAccounted, PTL DEF Spec

\* What one step may do to the local thread of a cycle.
RunsOnce ==
    \A c \in Rev : local'[c] # local[c] =>
        <<local[c], local'[c]>> \in
            {<<"none", "created">>, <<"created", "running">>,
             <<"running", "handoff">>, <<"running", "ended">>,
             <<"handoff", "ended">>}

\* The threads left by one that hands its mailbox off, or by no step.
Ending(threads) ==
    \A k \in Rev : threads[k] # local[k] =>
        local[k] = "handoff" /\ threads[k] = "ended"

\* Queueing a cycle that has no thread creates one at most.
LEMMA QueuedRunsOnce ==
    ASSUME NEW c \in Rev, local \in Threads, NEW threads \in Threads,
           QueueLocal(c, threads), local[c] = "none",
           Ending(threads)
    PROVE  RunsOnce
  <1>1. \/ local' = threads
        \/ local' = [threads EXCEPT ![c] = "created"]
    BY DEF QueueLocal
  <1>2. \A k \in Rev : local'[k] # threads[k] => k = c /\ local'[k] = "created"
    BY <1>1 DEF Threads
  <1> QED
    BY <1>2 DEF RunsOnce, Ending

LEMMA StepRunsOnce == KInv /\ [Next]_vars => RunsOnce
  <1> SUFFICES ASSUME KInv, [Next]_vars PROVE RunsOnce
    OBVIOUS
  <1>0. local \in Threads /\ TypeOK
    BY DEF KInv, IInv, TypeOK, Threads
  <1>1. CASE UNCHANGED local
    BY <1>1 DEF RunsOnce
  <1>2. CASE PlannerQueuesLocal
    <2>1. cycle.rev \in Rev /\ local[cycle.rev] = "none"
      BY <1>2 DEF PlannerQueuesLocal, KInv, IInv, CycleShape, TypeOK, Cycle,
                  RevOrNone, WaitsOnce, Unqueued
    <2>2. QueueLocal(cycle.rev, local)
      BY <1>2 DEF PlannerQueuesLocal
    <2>3. Ending(local)
      BY DEF Ending
    <2> QED
      BY ONLY <1>0, <2>1, <2>2, <2>3, QueuedRunsOnce
  <1>3. CASE Starting
    <2>1. PICK c : local' = [local EXCEPT ![c] = "running"] /\ local[c] = "created"
      BY <1>3 DEF Starting, PlannerStartsLocal, HandoffStartsLocal, KInv, WaitsOnce
    <2> QED
      BY <1>0, <2>1 DEF RunsOnce, Threads
  <1>4. ASSUME NEW c \in Rev, NEW failed \in BOOLEAN, LocalFinishes(c, failed)
        PROVE  RunsOnce
    BY <1>0, <1>4 DEF RunsOnce, LocalFinishes, TakesMailbox, Threads
  <1>5. ASSUME NEW c \in Rev, LocalHandsOff(c)
        PROVE  RunsOnce
    <2>1. handed[c] \in Rev /\ local[handed[c]] = "none" /\ local[c] = "handoff"
      BY <1>0, <1>5 DEF LocalHandsOff, KInv, LocalThreadsAccounted, WaitsOnce,
                        TypeOK, RevOrNone
    <2> DEFINE threads == [local EXCEPT ![c] = "ended"]
    <2>2. /\ threads \in Threads
          /\ Ending(threads)
      BY <1>0, <2>1 DEF Threads, Ending
    <2>3. QueueLocal(handed[c], threads)
      BY <1>5 DEF LocalHandsOff
    <2>. HIDE DEF threads
    <2> QED
      BY ONLY <1>0, <2>1, <2>2, <2>3, QueuedRunsOnce
  <1>6. CASE Apply
    <2>1. CASE ScheduleLatest
      BY <1>1, <2>1 DEF ScheduleLatest, brains
    <2>2. CASE ApplyLocals \/ NothingToApply \/ ApplyCycle
      BY <1>1, <2>2 DEF ApplyLocals, NothingToApply, ApplyCycle, brains
    <2> QED
      BY <1>6, <2>1, <2>2 DEF Apply
  <1>7. CASE Step
    <2>1. UNCHANGED brains
      BY <1>7 DEF Step, StepWithoutObservation, ObserveAndReturn,
                  ObserveAndStart, LeaveLoop, DrainBegins
    <2> QED
      BY <1>1, <2>1 DEF brains
  <1>8. CASE Drain \/ DeadlinePasses
    <2>1. UNCHANGED brains
      BY <1>8 DEF Drain, DrainStarts, DrainLooks, DrainCompletes,
                  DrainTimesOut, DrainWaits, DeadlinePasses
    <2> QED
      BY <1>1, <2>1 DEF brains
  <1>9. CASE NothingLocal \/ PlannerReturns \/ ProviderFails \/ PlannerGivesUp
    BY <1>1, <1>9 DEF NothingLocal, PlannerReturns, ProviderFails,
                      PlannerGivesUp, brains
  <1>10. CASE Abort
    BY <1>1, <1>10 DEF Abort
  <1>11. CASE UNCHANGED vars
    BY <1>1, <1>11 DEF vars, brains
  <1>12. CASE Planner
    BY <1>2, <1>3, <1>9, <1>12 DEF Planner, Starting
  <1>13. ASSUME NEW c \in Rev, Local(c)
         PROVE  RunsOnce
    BY <1>3, <1>4, <1>5, <1>13 DEF Local, Starting
  <1> QED
    BY <1>6, <1>7, <1>8, <1>10, <1>11, <1>12, <1>13 DEF Next

\* While a cycle has no result its planner thread is there to give one: no
\* path of _run_background_cycle ends without storing what became of it.
THEOREM CycleHasItsThread == Spec => []CycleIsWorked
  <1>1. KInv => CycleIsWorked
    BY DEF KInv
  <1> QED
    BY <1>1, AlwaysAccounted, PTL

\* The drain that returns True leaves no active cycle, no situation waiting
\* for one, no open epoch and no planner thread (drain_background_cycle).
THEOREM DrainLeavesNothing == Spec => []DrainedMeansIdle
  <1>1. KInv => DrainedMeansIdle
    <2> SUFFICES ASSUME KInv, drain = "complete"
                 PROVE  /\ cycle = NoCycle /\ mailbox = NoSituation
                        /\ openEpoch = 0 /\ planner = "none"
      BY DEF DrainedMeansIdle
    <2>1. cycle = NoCycle /\ mailbox = NoSituation
      BY DEF KInv, SeenIsTrue
    <2>2. openEpoch = 0
      BY <2>1 DEF KInv, IInv, EpochHasCycle, NoCycle
    <2>3. planner = "none"
      BY <2>1 DEF KInv, IInv, CycleShape, NoCycle
    <2> QED
      BY <2>1, <2>2, <2>3
  <1> QED
    BY <1>1, AlwaysAccounted, PTL

\* The local mailbox taken over by a finishing thread is neither lost nor
\* handed to two threads, and nothing that has ended stays registered
\* (_run_local_brain_cycle, _queue_local_brain_cycle).
THEOREM LocalWorkWaitsOnce == Spec => [](LocalThreadsAccounted /\ WaitsOnce)
  <1>1. KInv => LocalThreadsAccounted /\ WaitsOnce
    BY DEF KInv
  <1> QED
    BY <1>1, AlwaysAccounted, PTL

\* However the planner thread and the local threads register one another, a
\* cycle's local brains run once at most.
THEOREM LocalBrainsRunOnce == Spec => LocalRunsOnce
  <1>1. KInv /\ [Next]_vars => [RunsOnce]_vars
    BY StepRunsOnce
  <1>2. [RunsOnce]_vars <=> [\A c \in Rev : local'[c] # local[c] =>
          <<local[c], local'[c]>> \in
              {<<"none", "created">>, <<"created", "running">>,
               <<"running", "handoff">>, <<"running", "ended">>,
               <<"handoff", "ended">>}]_vars
    BY DEF RunsOnce
  <1> QED
    BY <1>1, <1>2, AlwaysAccounted, PTL DEF Spec, LocalRunsOnce
=============================================================================
