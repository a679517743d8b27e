--------------------------- MODULE RevisionLedger ---------------------------
(***************************************************************************)
(* What the execution authority of a scenario promises, without threads,   *)
(* locks or a database.  There is one ledger of execution revisions and    *)
(* revision n is its n-th entry, forever.  Physics extends it at any time; *)
(* a planning cycle captures the revision it starts from and extends the   *)
(* ledger at most once, and only while that revision is still the newest.  *)
(* ExecutionAuthority is shown to implement this module.                   *)
(***************************************************************************)
EXTENDS Naturals, Sequences

VARIABLES
    ledger,    \* who wrote each revision: "physics" or "semantic"
    captured   \* the revision the planning cycle started from, 0 without one

Init == ledger = <<"physics">> /\ captured = 0

Capture ==
    /\ captured = 0
    /\ captured' = Len(ledger)
    /\ UNCHANGED ledger

Forget ==
    /\ captured' = 0
    /\ UNCHANGED ledger

ExtendByPhysics ==
    /\ ledger' = Append(ledger, "physics")
    /\ UNCHANGED captured

ExtendByPlanning ==
    /\ captured = Len(ledger)
    /\ ledger' = Append(ledger, "semantic")
    /\ captured' = 0

Next == Capture \/ Forget \/ ExtendByPhysics \/ ExtendByPlanning

Spec == Init /\ [][Next]_<<ledger, captured>>
=============================================================================
