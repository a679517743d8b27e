--------------------------- MODULE TriggerLedger ---------------------------
(***************************************************************************)
(* What the planning epoch coordinator promises of planning triggers, with *)
(* no queue, no epoch id and no database: a trigger is absent, pending,    *)
(* claimed by the one batch being planned, or dead; it is retried at most  *)
(* MaxAttempts - 1 times in a row; and a stop of the process forgets every *)
(* trigger but the dead ones, and no trigger's tries.                      *)
(***************************************************************************)
EXTENDS Naturals

CONSTANTS Event, MaxAttempts

VARIABLES phase, tries

Phase == {"absent", "pending", "claimed", "dead"}

LedgerInit ==
    /\ phase = [e \in Event |-> "absent"]
    /\ tries = [e \in Event |-> 0]

In(p) == {e \in Event : phase[e] = p}

\* A trigger arrives, or one that is explicitly retried comes back.
Arrive(e) ==
    /\ phase[e] \in {"absent", "dead"}
    /\ phase' = [phase EXCEPT ![e] = "pending"]
    /\ UNCHANGED tries

\* A batch of pending triggers is claimed when no other batch is.
Claim(batch) ==
    /\ In("claimed") = {}
    /\ batch # {}
    /\ batch \subseteq In("pending")
    /\ phase' = [e \in Event |-> IF e \in batch THEN "claimed" ELSE phase[e]]
    /\ UNCHANGED tries

\* A claimed trigger is consumed, goes back to wait, or is given up.
Settle(e) ==
    /\ phase[e] = "claimed"
    /\ \/ /\ phase' = [phase EXCEPT ![e] = "absent"]
          /\ tries' = [tries EXCEPT ![e] = 0]
       \/ /\ tries[e] + 1 < MaxAttempts
          /\ phase' = [phase EXCEPT ![e] = "pending"]
          /\ tries' = [tries EXCEPT ![e] = @ + 1]
       \/ /\ phase' = [phase EXCEPT ![e] = "dead"]
          /\ tries' = [tries EXCEPT ![e] = @ + 1]

Forget ==
    /\ phase' = [e \in Event |-> IF phase[e] = "dead" THEN "dead" ELSE "absent"]
    /\ UNCHANGED tries

LedgerNext ==
    \/ \E e \in Event : Arrive(e) \/ Settle(e)
    \/ \E batch \in SUBSET Event : Claim(batch)
    \/ Forget

LedgerSpec == LedgerInit /\ [][LedgerNext]_<<phase, tries>>
=============================================================================
