---------------------------- MODULE MemoryLedger ----------------------------
(***************************************************************************)
(* What the long-term memory promises of runtime events and of the         *)
(* memories made of them, with no cursor, no lease, no worker and no       *)
(* provider: the work item of an event is opened once and ends once; an    *)
(* event adds one version at most to a history that only grows; a version  *)
(* founds a family or follows the newest version of one in use; and a      *)
(* family that the user has erased never comes back.                       *)
(***************************************************************************)
EXTENDS Naturals

CONSTANT Event

VARIABLES
    fate,      \* of the work item of each event
    history,   \* the versions of all families
    live,      \* families whose newest version is in use
    erased     \* families the user has deleted

LedgerInit ==
    /\ fate = [e \in Event |-> "none"]
    /\ history = {}
    /\ live = {}
    /\ erased = {}

Of(family) == {v \in history : v.family = family}

Open(e) ==
    /\ fate[e] = "none"
    /\ fate' = [fate EXCEPT ![e] = "open"]
    /\ UNCHANGED <<history, live, erased>>

Close(e) ==
    /\ fate[e] = "open"
    /\ fate' = [fate EXCEPT ![e] = "completed"]
    /\ UNCHANGED <<history, live, erased>>

\* Items that have no attempt left are given up together.
GiveUp(batch) ==
    /\ \A e \in batch : fate[e] = "open"
    /\ fate' = [e \in Event |-> IF e \in batch THEN "degraded" ELSE fate[e]]
    /\ UNCHANGED <<history, live, erased>>

\* The first version of a family, or the next of one in use.  The item may
\* have ended meanwhile: the version of a worker that has lost its lease counts.
Add(e, family) ==
    /\ fate[e] # "none"
    /\ \A v \in history : v.work # e
    /\ family \notin erased
    /\ \E last \in {0} \cup {v.version : v \in Of(family)} :
         /\ last # 0 => family \in live
         /\ \A v \in Of(family) : v.version <= last
         /\ history' = history \cup
              {[work |-> e, family |-> family, version |-> last + 1]}
    /\ live' = live \cup {family}
    /\ UNCHANGED <<fate, erased>>

Retire(family) ==
    /\ family \in live
    /\ live' = live \ {family}
    /\ UNCHANGED <<fate, history, erased>>

Erase(family) ==
    /\ Of(family) # {} /\ family \notin erased
    /\ live' = live \ {family}
    /\ erased' = erased \cup {family}
    /\ UNCHANGED <<fate, history>>

LedgerNext ==
    \/ \E e \in Event : Open(e) \/ Close(e) \/ Retire(e) \/ Erase(e)
    \/ \E batch \in SUBSET Event : GiveUp(batch)
    \/ \E e, family \in Event : Add(e, family)

LedgerSpec == LedgerInit /\ [][LedgerNext]_<<fate, history, live, erased>>
=============================================================================
