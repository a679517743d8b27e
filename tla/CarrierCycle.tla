---------------------------- MODULE CarrierCycle ----------------------------
(***************************************************************************)
(* The background cycles of the carrier loop (cli.py, _AgentLoop) in a     *)
(* UUV-only scenario that may reconnect to its provider.                   *)
(*                                                                         *)
(* The physics thread delivers one situation after the other.  At most one *)
(* planner thread works on a situation at a time; those that arrive        *)
(* meanwhile are merged into a mailbox of one, and the newest starts the   *)
(* next cycle once the physics thread has applied the last.  Each cycle    *)
(* also has work for the local brains, done by a thread of its own that    *)
(* has a mailbox of one too and starts its successor itself.  After a      *)
(* provider failure no cycle starts before a retry time.  When its steps   *)
(* are done the physics thread drains what is left, up to a deadline.      *)
(*                                                                         *)
(* Everything shared is read and written under the loop's cycle lock, but  *)
(* the lock is released between the parts of one operation: apply takes    *)
(* local results, then the cycle, then the mailbox; a local thread is      *)
(* registered under the lock and started after it.  An action is the part  *)
(* under one acquisition, with the code of the same thread that follows    *)
(* and that no other thread can observe.                                   *)
(*                                                                         *)
(* Abstractions.  A situation is its revision and the revisions at which   *)
(* its pending events were new; a cycle is named by the revision it works  *)
(* on.  Time is the revision last observed.  What a result contains, and   *)
(* what applying it does to the plan, is in ExecutionAuthority; whether a  *)
(* cycle gets an epoch, in PlanningEpoch.                                  *)
(***************************************************************************)
EXTENDS Naturals, Sequences

CONSTANTS
    MaxRevision,   \* bound: situations observed
    RetryGap       \* retry_interval_s, in observation intervals

\* The configuration admits no retry interval below the observation interval.
ASSUME CarrierCycleAssumption ==
    /\ MaxRevision \in Nat \ {0}
    /\ RetryGap \in Nat \ {0}

VARIABLES
    \* the physics thread
    physics,       \* where it is
    drain,         \* "idle" until the drain, then its progress
    completed,     \* revision of the cycle whose successor is to be scheduled
    view,          \* what drain read under the lock
    \* the loop, under the cycle lock
    situation,     \* the latest situation
    mailbox,       \* _background_mailbox
    cycle,         \* _background_cycle
    openEpoch,     \* the cycle whose epoch the coordinator runs, or 0
    registered,    \* the cycle of _background_local_thread, or 0
    localMailbox,  \* the cycle in _background_local_mailbox, or 0
    localResults,  \* _background_local_results
    closing,       \* _closing
    \* the provider
    paused,        \* paused: the last call failed
    retryAt,       \* _next_llm_retry_sim_time_s
    \* the other threads
    planner,       \* where the planner thread is
    local,         \* where the local thread of each cycle is
    handed,        \* the cycle a finishing local thread has taken over
    \* history
    planned,       \* events some cycle has handed to the coordinator
    started,       \* revisions of the cycles started
    skipped        \* whether a situation came without reaching the mailbox

stepping == <<physics, drain, completed, view>>
intake   == <<situation, mailbox>>
brains   == <<registered, localMailbox, localResults, local, handed>>
provider == <<paused, retryAt>>
history  == <<planned, started, skipped>>
vars     == <<stepping, intake, cycle, openEpoch, brains, closing, provider,
              planner, history>>

(***************************************************************************)
(* Values                                                                  *)
(***************************************************************************)
Rev == 1 .. MaxRevision
RevOrNone == Rev \cup {0}

Situation == [rev : RevOrNone, events : SUBSET Rev]
NoSituation == [rev |-> 0, events |-> {}]

\* "epoch" says whether a planning epoch was reserved for the cycle; "result"
\* is "running" until the planner thread has returned.
Cycle == [rev : RevOrNone, epoch : BOOLEAN,
          result : {"running", "ok", "llm", "error"}]
NoCycle == [rev |-> 0, epoch |-> FALSE, result |-> "running"]

\* A local result; "failed" for an error of the provider.
LocalResult == [rev : Rev, failed : BOOLEAN]

\* What drain looked at: the local thread, and whether the rest was done.
View == [local : RevOrNone, quiet : BOOLEAN]
NoView == [local |-> 0, quiet |-> FALSE]

TypeOK ==
    /\ physics \in {"locals", "cycle", "schedule", "step", "check", "decide",
                    "ended"}
    /\ drain \in {"idle", "open", "expired", "complete", "timedout"}
    /\ completed \in RevOrNone
    /\ view \in View
    /\ situation \in Situation
    /\ mailbox \in Situation
    /\ cycle \in Cycle
    /\ openEpoch \in RevOrNone
    /\ registered \in RevOrNone
    /\ localMailbox \in RevOrNone
    /\ localResults \in Seq(LocalResult)
    /\ closing \in BOOLEAN
    /\ paused \in BOOLEAN
    /\ retryAt \in Nat
    /\ planner \in {"none", "queue", "starting", "tick", "failed"}
    /\ local \in [Rev -> {"none", "created", "running", "handoff", "ended"}]
    /\ handed \in [Rev -> RevOrNone]
    /\ planned \in SUBSET Rev
    /\ started \in SUBSET Rev
    /\ skipped \in BOOLEAN

(***************************************************************************)
(* Helpers.  An operator whose name begins with Bug is the helper after it *)
(* with a plausible mistake; no action uses it.                            *)
(***************************************************************************)
Draining == drain \in {"open", "expired"}

\* _waiting_for_llm_reconnect at the time of a situation.
Waiting(r) == paused /\ r < retryAt

\* _merge_pending_events: the newer state with the events of both.
BugLatestOnly(latest, earlier) == latest
Merged(latest, earlier) ==
    [latest EXCEPT !.events = @ \cup earlier.events]

\* What is in the mailbox once a cycle has started from it.
BugMailboxKept(mail) == mail
Emptied(mail) == NoSituation

Alive(c) == c # 0 /\ local[c] = "running"

\* A result without an epoch is worth nothing once a newer situation is there.
BugAnyStale == situation.rev > cycle.rev
Stale == ~ cycle.epoch /\ situation.rev > cycle.rev

\* Where apply_background_cycle returns to.
AfterApply == IF Draining THEN "check" ELSE "step"

\* _mark_llm_failure at the time of revision r.
MarkFailure(r) ==
    /\ paused' = TRUE
    /\ retryAt' = r + RetryGap

(***************************************************************************)
(* _start_background_cycle(s), called by the physics thread while the loop *)
(* holds the situation "now" and the mailbox holds "mail".  It always      *)
(* works on the newest situation.                                          *)
(***************************************************************************)
StartRefused(now, mail) ==
    /\ closing
    /\ situation' = now
    /\ mailbox' = mail
    /\ UNCHANGED <<cycle, openEpoch, planner, planned, started>>

StartBehindCycle(latest, mail) ==
    /\ ~ closing
    /\ cycle # NoCycle
    /\ situation' = latest
    /\ mailbox' = IF latest.rev > cycle.rev /\ latest.rev > mail.rev
                  THEN Merged(latest, mail) ELSE mail
    /\ UNCHANGED <<cycle, openEpoch, planner, planned, started>>

StartPostponed(s, latest, mail) ==
    /\ ~ closing
    /\ cycle = NoCycle
    /\ Waiting(s.rev)
    /\ situation' = latest
    /\ mailbox' = Merged(latest, mail)
    /\ UNCHANGED <<cycle, openEpoch, planner, planned, started>>

\* The cycle gets an epoch when the coordinator has none and an event asks
\* for one; its events are with the coordinator from now on.
CycleStarts(s, latest, mail) ==
    /\ ~ closing
    /\ cycle = NoCycle
    /\ ~ Waiting(s.rev)
    /\ situation' = latest
    /\ mailbox' = Emptied(mail)
    /\ \E epoch \in BOOLEAN :
          /\ epoch => openEpoch = 0
          /\ cycle' = [rev |-> latest.rev, epoch |-> epoch,
                       result |-> "running"]
          /\ openEpoch' = IF epoch THEN latest.rev ELSE openEpoch
    /\ planner' = "queue"
    /\ planned' = planned \cup Merged(latest, mail).events
    /\ started' = started \cup {latest.rev}

Start(s, now, mail) ==
    LET latest == IF s.rev >= now.rev THEN s ELSE now
    IN  \/ StartRefused(now, mail)
        \/ StartBehindCycle(latest, mail)
        \/ StartPostponed(s, latest, mail)
        \/ CycleStarts(s, latest, mail)

(***************************************************************************)
(* The physics thread: apply_background_cycle                              *)
(***************************************************************************)
Init ==
    /\ physics = "locals"
    /\ drain = "idle"
    /\ completed = 0
    /\ view = NoView
    /\ situation = NoSituation
    /\ mailbox = NoSituation
    /\ cycle = NoCycle
    /\ openEpoch = 0
    /\ registered = 0
    /\ localMailbox = 0
    /\ localResults = << >>
    /\ closing = FALSE
    /\ paused = FALSE
    /\ retryAt = 0
    /\ planner = "none"
    /\ local = [c \in Rev |-> "none"]
    /\ handed = [c \in Rev |-> 0]
    /\ planned = {}
    /\ started = {}
    /\ skipped = FALSE

\* The results are applied one after the other, so the last failure sets the
\* retry time.
ApplyLocals ==
    LET failed == {i \in DOMAIN localResults : localResults[i].failed}
    IN  /\ physics = "locals"
        /\ physics' = "cycle"
        /\ localResults' = << >>
        /\ \/ failed = {} /\ UNCHANGED provider
           \/ \E i \in failed :
                 /\ \A j \in failed : j <= i
                 /\ MarkFailure(localResults[i].rev)
        /\ UNCHANGED <<drain, completed, view, intake, cycle, openEpoch,
                       registered, localMailbox, local, handed, closing,
                       planner, history>>

NothingToApply ==
    /\ physics = "cycle"
    /\ cycle.result = "running"
    /\ physics' = AfterApply
    /\ UNCHANGED <<drain, completed, view, intake, cycle, openEpoch, brains,
                   closing, provider, planner, history>>

\* _apply_background_planning_phase: the epoch is finished first; a provider
\* error pauses the loop, a result of an epoch ends the pause.
AnswerTaken ==
    CASE cycle.result = "llm" -> MarkFailure(cycle.rev)
      [] cycle.result = "ok" /\ cycle.epoch -> paused' = FALSE /\ retryAt' = 0
      [] OTHER -> UNCHANGED provider

ApplyCycle ==
    /\ physics = "cycle"
    /\ cycle.result # "running"
    /\ IF Stale THEN UNCHANGED <<openEpoch, provider>>
       ELSE /\ openEpoch' = IF cycle.epoch THEN 0 ELSE openEpoch
            /\ AnswerTaken
    /\ cycle' = NoCycle
    /\ completed' = cycle.rev
    /\ physics' = "schedule"
    /\ UNCHANGED <<drain, view, intake, brains, closing, planner, history>>

\* _schedule_latest_background_cycle: from the mailbox, or else from a newer
\* situation that never reached it.
ScheduleLatest ==
    /\ physics = "schedule"
    /\ physics' = AfterApply
    /\ completed' = 0
    /\ \/ /\ mailbox # NoSituation
          /\ Start(mailbox, situation, NoSituation)
       \/ /\ mailbox = NoSituation
          /\ situation.rev > completed
          /\ Start(situation, situation, NoSituation)
       \/ /\ mailbox = NoSituation
          /\ situation.rev <= completed
          /\ UNCHANGED <<intake, cycle, openEpoch, planner, planned, started>>
    /\ UNCHANGED <<drain, view, brains, closing, provider, skipped>>

(***************************************************************************)
(* The physics thread: a step and its observation                          *)
(***************************************************************************)
StepWithoutObservation ==
    /\ physics = "step"
    /\ physics' = "locals"
    /\ UNCHANGED <<drain, completed, view, intake, cycle, openEpoch, brains,
                   closing, provider, planner, history>>

\* The situation observed next, with the event that comes with it.
BugEventsOfTheNext ==
    [rev |-> situation.rev + 1, events |-> {situation.rev + 2}]
NextSituation == [rev |-> situation.rev + 1, events |-> {situation.rev + 1}]

\* on_situation, when it returns early: the refresh failed on the provider, or
\* it has just recovered the execution snapshot, or the loop is waiting.
ObserveAndReturn ==
    LET s == NextSituation
    IN  /\ physics = "step"
        /\ s.rev \in Rev
        /\ situation' = s
        /\ \/ MarkFailure(s.rev)
           \/ UNCHANGED provider
        /\ skipped' = TRUE
        /\ physics' = "locals"
        /\ UNCHANGED <<drain, completed, view, mailbox, cycle, openEpoch,
                       brains, closing, planner, planned, started>>

\* on_situation otherwise.
ObserveAndStart ==
    LET s == NextSituation
    IN  /\ physics = "step"
        /\ s.rev \in Rev
        /\ ~ Waiting(s.rev)
        /\ Start(s, s, mailbox)
        /\ physics' = "locals"
        /\ UNCHANGED <<drain, completed, view, brains, closing, provider,
                       skipped>>

\* The run is asked to stop, or fails: nothing is drained.
LeaveLoop ==
    /\ physics = "step"
    /\ physics' = "ended"
    /\ UNCHANGED <<drain, completed, view, intake, cycle, openEpoch, brains,
                   closing, provider, planner, history>>

(***************************************************************************)
(* The physics thread: drain_background_cycle                              *)
(***************************************************************************)
DrainBegins ==
    /\ physics = "step"
    /\ drain = "idle"
    /\ drain' = "open"
    /\ physics' = "locals"
    /\ UNCHANGED <<completed, view, intake, cycle, openEpoch, brains, closing,
                   provider, planner, history>>

DeadlinePasses ==
    /\ drain = "open"
    /\ drain' = "expired"
    /\ UNCHANGED <<physics, completed, view, intake, cycle, openEpoch, brains,
                   closing, provider, planner, history>>

\* The situation in the mailbox starts a cycle, whatever the deadline.
DrainStarts ==
    /\ physics = "check"
    /\ cycle = NoCycle
    /\ mailbox # NoSituation
    /\ Start(mailbox, situation, mailbox)
    /\ physics' = "locals"
    /\ UNCHANGED <<drain, completed, view, brains, closing, provider, skipped>>

DrainLooks ==
    /\ physics = "check"
    /\ cycle # NoCycle \/ mailbox = NoSituation
    /\ view' = [local |-> registered,
                quiet |-> /\ cycle = NoCycle
                          /\ localMailbox = 0
                          /\ localResults = << >>]
    /\ physics' = "decide"
    /\ UNCHANGED <<drain, completed, intake, cycle, openEpoch, brains, closing,
                   provider, planner, history>>

\* Whether a local thread is alive is asked after the lock is released.
Quiet == view.quiet /\ ~ Alive(view.local)

DrainCompletes ==
    /\ physics = "decide"
    /\ Quiet
    /\ drain' = "complete"
    /\ physics' = "ended"
    /\ view' = NoView
    /\ UNCHANGED <<completed, intake, cycle, openEpoch, brains, closing,
                   provider, planner, history>>

DrainTimesOut ==
    /\ physics = "decide"
    /\ ~ Quiet
    /\ drain = "expired"
    /\ drain' = "timedout"
    /\ physics' = "ended"
    /\ view' = NoView
    /\ UNCHANGED <<completed, intake, cycle, openEpoch, brains, closing,
                   provider, planner, history>>

DrainWaits ==
    /\ physics = "decide"
    /\ ~ Quiet
    /\ drain = "open"
    /\ physics' = "locals"
    /\ view' = NoView
    /\ UNCHANGED <<drain, completed, intake, cycle, openEpoch, brains, closing,
                   provider, planner, history>>

(***************************************************************************)
(* The planner thread, _run_background_cycle                               *)
(***************************************************************************)
\* _queue_local_brain_cycle(c) under the lock, where "threads" is the state of
\* the local threads the caller leaves.
QueueLocal(c, threads) ==
    \/ /\ closing
       /\ local' = threads
       /\ UNCHANGED <<registered, localMailbox>>
    \/ /\ ~ closing
       /\ Alive(registered)
       /\ localMailbox' = IF c >= localMailbox THEN c ELSE localMailbox
       /\ local' = threads
       /\ UNCHANGED registered
    \/ /\ ~ closing
       /\ ~ Alive(registered)
       /\ registered' = c
       /\ local' = [threads EXCEPT ![c] = "created"]
       /\ UNCHANGED localMailbox

PlannerQueuesLocal ==
    /\ planner = "queue"
    /\ QueueLocal(cycle.rev, local)
    /\ planner' = IF local'[cycle.rev] = "created" THEN "starting" ELSE "tick"
    /\ UNCHANGED <<stepping, intake, cycle, openEpoch, localResults, handed,
                   closing, provider, history>>

\* Neither the adversary nor a vehicle has anything for its local brain.
NothingLocal ==
    /\ planner = "queue"
    /\ planner' = "tick"
    /\ UNCHANGED <<stepping, intake, cycle, openEpoch, brains, closing,
                   provider, history>>

PlannerStartsLocal ==
    /\ planner = "starting"
    /\ local' = [local EXCEPT ![cycle.rev] = "running"]
    /\ planner' = "tick"
    /\ UNCHANGED <<stepping, intake, cycle, openEpoch, registered,
                   localMailbox, localResults, handed, closing, provider,
                   history>>

\* The graph returns, or raises something that is not the provider's; without
\* an epoch there is nothing to run.
PlannerReturns ==
    /\ planner = "tick"
    /\ \E result \in {"ok", "error"} :
          /\ result = "error" => cycle.epoch
          /\ cycle' = [cycle EXCEPT !.result = result]
    /\ planner' = "none"
    /\ UNCHANGED <<stepping, intake, openEpoch, brains, closing, provider,
                   history>>

\* A provider error pauses the loop before the cycle is done.
ProviderFails ==
    /\ planner = "tick"
    /\ cycle.epoch
    /\ MarkFailure(cycle.rev)
    /\ planner' = "failed"
    /\ UNCHANGED <<stepping, intake, cycle, openEpoch, brains, closing,
                   history>>

BugDiesSilently ==
    /\ planner = "failed"
    /\ planner' = "none"
    /\ UNCHANGED <<stepping, intake, cycle, openEpoch, brains, closing,
                   provider, history>>
PlannerGivesUp ==
    /\ planner = "failed"
    /\ cycle' = [cycle EXCEPT !.result = "llm"]
    /\ planner' = "none"
    /\ UNCHANGED <<stepping, intake, openEpoch, brains, closing, provider,
                   history>>

(***************************************************************************)
(* The local threads, _run_local_brain_cycle                               *)
(***************************************************************************)
\* A thread that a finishing one has registered is started by it.
HandoffStartsLocal(c) ==
    /\ local[c] = "created"
    /\ ~ (planner = "starting" /\ cycle.rev = c)
    /\ local' = [local EXCEPT ![c] = "running"]
    /\ UNCHANGED <<stepping, intake, cycle, openEpoch, registered,
                   localMailbox, localResults, handed, closing, provider,
                   planner, history>>

\* A finishing thread takes what is in the mailbox along.
TakesMailbox(c) ==
    /\ handed' = [handed EXCEPT ![c] = localMailbox]
    /\ localMailbox' = 0
    /\ local' = [local EXCEPT ![c] = IF localMailbox = 0 THEN "ended"
                                     ELSE "handoff"]

BugRestSkipped(c, failed) ==
    /\ local[c] = "running"
    /\ localResults' = Append(localResults, [rev |-> c, failed |-> failed])
    /\ registered' = 0
    /\ IF failed
       THEN /\ local' = [local EXCEPT ![c] = "ended"]
            /\ UNCHANGED <<localMailbox, handed>>
       ELSE TakesMailbox(c)
    /\ UNCHANGED <<stepping, intake, cycle, openEpoch, closing, provider,
                   planner, history>>
LocalFinishes(c, failed) ==
    /\ local[c] = "running"
    /\ localResults' = Append(localResults, [rev |-> c, failed |-> failed])
    /\ registered' = 0
    /\ TakesMailbox(c)
    /\ UNCHANGED <<stepping, intake, cycle, openEpoch, closing, provider,
                   planner, history>>

LocalHandsOff(c) ==
    /\ local[c] = "handoff"
    /\ QueueLocal(handed[c], [local EXCEPT ![c] = "ended"])
    /\ handed' = [handed EXCEPT ![c] = 0]
    /\ UNCHANGED <<stepping, intake, cycle, openEpoch, localResults, closing,
                   provider, planner, history>>

\* abort, and the first step of close: nothing starts from now on.
BugMailboxSurvives ==
    /\ ~ closing
    /\ closing' = TRUE
    /\ localMailbox' = 0
    /\ UNCHANGED <<stepping, intake, cycle, openEpoch, registered,
                   localResults, local, handed, provider, planner, history>>
Abort ==
    /\ ~ closing
    /\ closing' = TRUE
    /\ mailbox' = NoSituation
    /\ localMailbox' = 0
    /\ UNCHANGED <<stepping, situation, cycle, openEpoch, registered,
                   localResults, local, handed, provider, planner, history>>

-----------------------------------------------------------------------------
Apply == ApplyLocals \/ NothingToApply \/ ApplyCycle \/ ScheduleLatest

Step == StepWithoutObservation \/ ObserveAndReturn \/ ObserveAndStart
           \/ LeaveLoop \/ DrainBegins

Drain == DrainStarts \/ DrainLooks \/ DrainCompletes \/ DrainTimesOut
            \/ DrainWaits

Planner == PlannerQueuesLocal \/ NothingLocal \/ PlannerStartsLocal
              \/ PlannerReturns \/ ProviderFails \/ PlannerGivesUp

Local(c) ==
    \/ HandoffStartsLocal(c)
    \/ \E failed \in BOOLEAN : LocalFinishes(c, failed)
    \/ LocalHandsOff(c)

Next ==
    \/ Apply
    \/ Step
    \/ Drain
    \/ DeadlinePasses
    \/ Planner
    \/ \E c \in Rev : Local(c)
    \/ Abort

Spec == Init /\ [][Next]_vars

\* The operating system runs every thread, a provider call ends by its own
\* timeout, and time passes.  Nobody has to abort.
Fairness ==
    /\ WF_vars(Apply \/ Step \/ Drain)
    /\ WF_vars(DeadlinePasses)
    /\ WF_vars(Planner)
    /\ \A c \in Rev : WF_vars(Local(c))

FairSpec == Spec /\ Fairness

-----------------------------------------------------------------------------
(***************************************************************************)
(* Properties                                                              *)
(***************************************************************************)
\* The epoch the coordinator runs belongs to the active cycle.  No result is
\* dropped as stale, and no cycle replaced, with its epoch still open: the
\* coordinator would never open another one.
EpochHasCycle == openEpoch # 0 => cycle.rev = openEpoch /\ cycle.epoch

\* Every cycle works on a newer situation than all the cycles before it,
\* whether the mailbox, the latest situation or the drain has started it.
CyclesMoveForward ==
    [][cycle = NoCycle /\ cycle' # NoCycle =>
          \A r \in started : cycle'.rev > r]_vars

\* A cycle starts only with the local mailbox watched: the thread that is
\* registered is running, and will take the mailbox over when it finishes.
\* Registrations by two threads, and the thread that ends last clearing the
\* registration of another, leave nothing in the mailbox for ever.
LocalMailboxIsWatched == localMailbox # 0 => Alive(registered)

\* As long as no observation returned early, merging keeps every event: it is
\* with the coordinator, in the mailbox or in the latest situation, through
\* pauses, stale cycles and the drain.
Held == planned \cup mailbox.events \cup situation.events

EventsKeptWhenOffered ==
    closing \/ skipped \/ 1 .. situation.rev \subseteq Held

\* A cycle is applied, unless the thread that would apply it has ended.
CyclesEnd ==
    \A c \in Rev : cycle.rev = c ~> cycle.rev # c \/ physics = "ended"

\* The drain returns once its deadline has passed, if it does not meet a
\* mailbox it may not start from.
Refused == Draining /\ cycle = NoCycle /\ mailbox # NoSituation
              /\ Waiting(mailbox.rev)

DrainReturnsOrIsRefused == Draining ~> ~ Draining \/ Refused

-----------------------------------------------------------------------------
(***************************************************************************)
(* What documents and tests say and the code does not do.                  *)
(***************************************************************************)
\* "only the newest unprocessed situation is kept, none is dropped silently"
\* and "its pending events enter the next cycle, so that no event is lost"
\* (docs/superpowers/specs/2026-08-20-long-running-runtime-dataflow-
\* hardening-design.md, lines 82 and 86, in translation).
PendingEventsKept == closing \/ 1 .. situation.rev \subseteq Held

\* drain_background_cycle takes a timeout, and run_controller.py counts on it:
\* "A bounded timeout in an auxiliary memory/planning tail does not overturn
\* completed physics".
DrainReturns == Draining ~> ~ Draining
=============================================================================
