------------------------ MODULE MemoryPipelineLedger ------------------------
(***************************************************************************)
(* Two further proofs about MemoryPipeline: that it implements             *)
(* MemoryLedger, and that the source cursor leaves no tracking transition  *)
(* behind, but for the three losses of MayLose.                            *)
(***************************************************************************)
EXTENDS MemoryPipelineProofs, FiniteSetTheorems

\* What the tables hold, in the terms of the ledger.
FateOf(e) ==
    IF work[e].status \in {"pending", "processing"} THEN "open" ELSE work[e].status
Fates == [e \in Event |-> FateOf(e)]

Entry(m) == [work |-> m.work, family |-> m.family, version |-> m.version]
Entries == {Entry(m) : m \in memories}

With(status) == {m.family : m \in {n \in memories : n.status = status}}
Live == With("active")
Erased == With("deleted")

Ledger == INSTANCE MemoryLedger WITH
    fate <- Fates, history <- Entries, live <- Live, erased <- Erased

\* The worker, its leases and retries, the deletions and the maintenance keep
\* what MemoryLedger promises.
KeepsLedger == Ledger!LedgerSpec

\* A worker handles an item that has been queued.
Handles(w) == worker[w].at \in {"deciding", "creating", "completing", "failing"}
HandledAreQueued == \A w \in Worker : Handles(w) => work[worker[w].item].status # "none"

\* The versions of a family are deleted together, and none is added after.
DeletedTogether ==
    \A m, n \in memories :
        m.family = n.family /\ m.status = "deleted" => n.status = "deleted"

LInv == IInv /\ HandledAreQueued /\ DeletedTogether

\* A tracking transition behind the cursor is in its episode, or is left to a
\* source round that has read it; a round that is interrupted, two that merge at
\* the same time and a full episode may lose one.
Covers(w, e) == Reads(w) /\ e \in worker[w].left
Kept(e) == e \in told \/ MayLose \/ \E w \in Worker : Covers(w, e)
TransitionsTold ==
    \A e \in Published : e <= cursor /\ log[e].tracking => Kept(e)

\* A round will move the cursor to its end: the same holds up to there.
RoundsTell ==
    \A w \in Worker : Reads(w) =>
      \A e \in Published : e <= worker[w].last /\ log[e].tracking => Kept(e)

\* As long as no two merges have overlapped, one worker at most is in one, and
\* what it has read of the episode is still there.
MergesAlone ==
    ~ overlapped =>
      \A w \in Worker : worker[w].at = "merging" =>
        /\ worker[w].ids = told
        /\ \A v \in Worker : worker[v].at = "merging" => v = w

TInv == IInv /\ MergesAlone /\ TransitionsTold /\ RoundsTell
-----------------------------------------------------------------------------
(***************************************************************************)
(* The sets the ledger sees.                                               *)
(***************************************************************************)
\* Families by the status of their versions, before and after.
LEMMA InWith ==
    ASSUME NEW status
    PROVE  /\ \A x : x \in With(status) <=>
                 \E m \in memories : m.status = status /\ m.family = x
           /\ \A x : x \in With(status)' <=>
                 \E m \in memories' : m.status = status /\ m.family = x
  BY DEF With

\* The entries of the history are those of the memories, before and after.
LEMMA InEntries ==
    /\ \A v : v \in Entries <=> \E m \in memories : v = Entry(m)
    /\ \A v : v \in Entries' <=> \E m \in memories' : v = Entry(m)
  BY DEF Entries, Entry

\* What the ledger sees of memories follows from them alone.
LEMMA SameMemories ==
    ASSUME UNCHANGED memories
    PROVE  UNCHANGED <<Entries, Live, Erased>>
  BY DEF Entries, Entry, Live, Erased, With

\* ... and what it sees of work items, from their fates.
LEMMA SameFates ==
    ASSUME \A e \in Event : FateOf(e)' = FateOf(e)
    PROVE  UNCHANGED Fates
  BY DEF Fates

\* Fates by the status of an item.
LEMMA FateCases ==
    ASSUME NEW e \in Event
    PROVE  /\ Fates[e] = FateOf(e)
           /\ work[e].status = "none" <=> FateOf(e) = "none"
           /\ work[e].status \in {"pending", "processing"} => FateOf(e) = "open"
  BY DEF Fates, FateOf

\* Items without an attempt left are given up together, the others stay.
LEMMA GivesUp ==
    ASSUME NEW batch \in SUBSET Event,
           \A e \in batch : FateOf(e) = "open" /\ FateOf(e)' = "degraded",
           \A e \in Event : e \notin batch => FateOf(e)' = FateOf(e),
           UNCHANGED memories
    PROVE  Ledger!GiveUp(batch)
  <1>1. Fates' = [e \in Event |-> IF e \in batch THEN "degraded" ELSE Fates[e]]
    BY DEF Fates
  <1>2. \A e \in batch : Fates[e] = "open"
    BY DEF Fates
  <1> QED
    BY <1>1, <1>2, SameMemories DEF Ledger!GiveUp

\* The item of one event is opened or closed.
LEMMA MovesOne ==
    ASSUME NEW e \in Event, NEW fate, FateOf(e)' = fate,
           \A d \in Event \ {e} : FateOf(d)' = FateOf(d),
           UNCHANGED memories
    PROVE  /\ Fates' = [Fates EXCEPT ![e] = fate]
           /\ UNCHANGED <<Entries, Live, Erased>>
  <1>1. Fates' = [Fates EXCEPT ![e] = fate]
    BY DEF Fates
  <1> QED
    BY <1>1, SameMemories

\* A step of the ledger or none.
LedgerStep ==
    \/ UNCHANGED <<Fates, Entries, Live, Erased>>
    \/ \E e \in Event : Ledger!Open(e) \/ Ledger!Close(e)
                           \/ Ledger!Retire(e) \/ Ledger!Erase(e)
    \/ \E batch \in SUBSET Event : Ledger!GiveUp(batch)
    \/ \E e, family \in Event : Ledger!Add(e, family)

-----------------------------------------------------------------------------
(***************************************************************************)
(* Steps on work items.                                                    *)
(***************************************************************************)
\* What the sweep of claim_work does to one item.
LEMMA SweptItem ==
    ASSUME TypeOK, NEW e \in Event
    PROVE  /\ Spent(work[e]) =>
                 /\ Swept[e].status = "degraded"
                 /\ work[e].status \in {"pending", "processing"}
           /\ ~ Spent(work[e]) => Swept[e] = work[e]
  <1>1. work[e] \in Item
    BY DEF TypeOK
  <1> QED
    BY <1>1 DEF Swept, Spent, Item

\* A poll that claims nothing gives up what is spent.
LEMMA PollMoves ==
    ASSUME TypeOK, UNCHANGED memories, work' = Swept
    PROVE  LedgerStep
  <1> DEFINE batch == {e \in Event : Spent(work[e])}
  <1>1. \A e \in batch : FateOf(e) = "open" /\ FateOf(e)' = "degraded"
    BY SweptItem DEF FateOf
  <1>2. \A e \in Event : e \notin batch => FateOf(e)' = FateOf(e)
    BY SweptItem DEF FateOf
  <1>3. batch \in SUBSET Event
    OBVIOUS
  <1> HIDE DEF batch
  <1> QED
    BY <1>1, <1>2, <1>3, GivesUp DEF LedgerStep

\* A claim does too, and keeps its own item open.
LEMMA ClaimMoves ==
    ASSUME TypeOK, NEW w \in Worker, NEW c \in Event, Claim(w, c)
    PROVE  LedgerStep
  <1> DEFINE batch == {e \in Event : Spent(work[e])}
  <1>0. /\ UNCHANGED memories /\ work' = [Swept EXCEPT ![c] = Taken(w, work[c])]
        /\ c \in Claimable
    BY DEF Claim
  <1>1. /\ work[c].attempts < MaxAttempts /\ work[c] \in Item
        /\ work[c].status \in {"pending", "processing"}
    BY <1>0 DEF Claimable, Free, TypeOK
  <1>2. ~ Spent(work[c])
    BY <1>1, MemoryPipelineAssumption DEF Spent, Item
  <1>3. work'[c].status = "processing"
    BY <1>0, <1>1 DEF Swept, Taken, Item
  <1>4. \A e \in Event : e # c => work'[e] = Swept[e]
    BY <1>0 DEF Swept
  <1>5. \A e \in batch : FateOf(e) = "open" /\ FateOf(e)' = "degraded"
    BY <1>2, <1>4, SweptItem DEF FateOf
  <1>6. FateOf(c)' = FateOf(c)
    BY <1>1, <1>3 DEF FateOf
  <1>7. \A e \in Event : e \notin batch => FateOf(e)' = FateOf(e)
    <2> SUFFICES ASSUME NEW e \in Event, e \notin batch, e # c
                 PROVE  FateOf(e)' = FateOf(e)
      BY <1>6
    <2>1. work'[e] = work[e]
      BY <1>4, SweptItem
    <2> QED
      BY <2>1 DEF FateOf
  <1>8. batch \in SUBSET Event
    OBVIOUS
  <1> HIDE DEF batch
  <1> QED
    BY <1>0, <1>5, <1>7, <1>8, GivesUp DEF LedgerStep

\* Queueing an event opens its item, once.
LEMMA EnqueueMoves ==
    ASSUME IInv, NEW w \in Worker, Enqueue(w)
    PROVE  LedgerStep
  <1> DEFINE e == worker[w].next + 1
  <1>0. TypeOK /\ ReadersInOrder /\ UNCHANGED memories
    BY DEF IInv, Enqueue
  <1>1. worker[w] \in Reading /\ worker[w].next < worker[w].last
    BY <1>0, Forms DEF Enqueue, Reads
  <1>2. e \in Event
    BY <1>1, MemoryPipelineAssumption DEF Reading, Event
  <1>3. CASE UNCHANGED work
    BY <1>0, <1>3, SameMemories, SameFates DEF LedgerStep, FateOf
  <1>4. CASE /\ work[e].status = "none"
             /\ work' = [work EXCEPT ![e].status = "pending", ![e].due = TRUE]
    <2>1. work \in [Event -> Item]
      BY <1>0 DEF TypeOK
    <2>2. /\ work'[e].status = "pending"
          /\ \A d \in Event : d # e => work'[d] = work[d]
      BY <1>2, <1>4, <2>1 DEF Item
    <2>3. PICK k \in Event : k = e
      BY <1>2
    <2>. HIDE DEF e
    <2>4. FateOf(k)' = "open" /\ FateOf(k) = "none"
      BY <1>4, <2>2, <2>3 DEF FateOf
    <2>5. \A d \in Event \ {k} : FateOf(d)' = FateOf(d)
      BY <2>2, <2>3 DEF FateOf
    <2>6. Ledger!Open(k)
      BY <1>0, <2>4, <2>5, MovesOne, FateCases DEF Ledger!Open
    <2> QED
      BY <2>6 DEF LedgerStep
  <1> QED
    BY <1>3, <1>4 DEF Enqueue

\* A worker that holds the lease closes the item.
LEMMA CompleteMoves ==
    ASSUME TypeOK, NEW w \in Worker, Complete(w)
    PROVE  LedgerStep
  <1>0. UNCHANGED memories /\ work \in [Event -> Item]
    BY DEF Complete, TypeOK
  <1>1. worker[w].item \in Event
    BY Forms DEF Complete, Handling
  <1>2. PICK e \in Event : e = worker[w].item
    BY <1>1
  <1>3. CASE ~ Holds(w, e)
    <2>1. UNCHANGED work
      BY <1>2, <1>3 DEF Complete
    <2> QED
      BY <1>0, <2>1, SameMemories, SameFates DEF LedgerStep, FateOf
  <1>4. CASE Holds(w, e)
    <2>1. work' = [work EXCEPT ![e].status = "completed", ![e].by = {},
                               ![e].held = FALSE]
      BY <1>2, <1>4 DEF Complete
    <2>2. /\ work'[e].status = "completed" /\ work[e].status = "processing"
          /\ \A d \in Event : d # e => work'[d] = work[d]
      BY <1>0, <1>4, <2>1 DEF Item, Holds
    <2>3. FateOf(e)' = "completed" /\ FateOf(e) = "open"
      BY <2>2 DEF FateOf
    <2>4. \A d \in Event \ {e} : FateOf(d)' = FateOf(d)
      BY <2>2 DEF FateOf
    <2>5. Ledger!Close(e)
      BY <1>0, <2>3, <2>4, MovesOne, FateCases DEF Ledger!Close
    <2> QED
      BY <2>5 DEF LedgerStep
  <1> QED
    BY <1>3, <1>4

\* A failure leaves the item open or gives it up.
LEMMA FailMoves ==
    ASSUME TypeOK, NEW w \in Worker, FailWork(w)
    PROVE  LedgerStep
  <1>0. UNCHANGED memories /\ work \in [Event -> Item]
    BY DEF FailWork, TypeOK
  <1>1. worker[w].item \in Event
    BY Forms DEF FailWork, Handling
  <1>2. PICK e \in Event : e = worker[w].item
    BY <1>1
  <1>3. CASE ~ Holds(w, e)
    <2>1. UNCHANGED work
      BY <1>2, <1>3 DEF FailWork
    <2> QED
      BY <1>0, <2>1, SameMemories, SameFates DEF LedgerStep, FateOf
  <1>4. CASE Holds(w, e)
    <2>1. /\ work' = [work EXCEPT ![e] = Retried(work[e])]
          /\ work[e].status = "processing"
      BY <1>2, <1>4 DEF FailWork, Holds
    <2>2. /\ work'[e].status \in {"degraded", "pending"}
          /\ \A d \in Event : d # e => work'[d] = work[d]
      BY <1>0, <2>1 DEF Item, Retried
    <2>3. /\ FateOf(e)' \in {"degraded", "open"} /\ FateOf(e) = "open"
          /\ \A d \in Event : d # e => FateOf(d)' = FateOf(d)
      BY <2>1, <2>2 DEF FateOf
    <2>4. CASE FateOf(e)' = "open"
      <3>1. \A d \in Event : FateOf(d)' = FateOf(d)
        BY <2>3, <2>4
      <3> QED
        BY <1>0, <3>1, SameMemories, SameFates DEF LedgerStep
    <2>5. CASE FateOf(e)' = "degraded"
      <3>1. Ledger!GiveUp({e})
        BY <1>0, <2>3, <2>5, GivesUp
      <3> QED
        BY <3>1 DEF LedgerStep
    <2> QED
      BY <2>3, <2>4, <2>5
  <1> QED
    BY <1>3, <1>4

\* Time changes no fate.
LEMMA TimeMoves ==
    ASSUME TypeOK, NEW c \in Event, LeaseExpires(c) \/ BackoffElapses(c)
    PROVE  LedgerStep
  <1>0. UNCHANGED memories /\ work \in [Event -> Item]
    BY DEF LeaseExpires, BackoffElapses, TypeOK
  <1>1. \A e \in Event : work'[e].status = work[e].status
    BY <1>0 DEF LeaseExpires, BackoffElapses, Item
  <1>2. \A e \in Event : FateOf(e)' = FateOf(e)
    BY <1>1 DEF FateOf
  <1> QED
    BY <1>0, <1>2, SameMemories, SameFates DEF LedgerStep

-----------------------------------------------------------------------------
(***************************************************************************)
(* Steps on memories.                                                      *)
(***************************************************************************)
\* A new version is one the ledger may add.
LEMMA CreateMoves ==
    ASSUME LInv, NEW w \in Worker, CreateVersion(w)
    PROVE  LedgerStep
  <1>0. TypeOK /\ memories \in SUBSET Memory /\ UNCHANGED work
    BY DEF LInv, IInv, TypeOK, CreateVersion
  <1>1. worker[w] \in Creating
    BY <1>0, Forms DEF CreateVersion
  <1>2. PICK e \in Event, family \in Event, previous \in Nat :
          /\ e = worker[w].item /\ family = worker[w].family
          /\ previous = worker[w].previous
    BY <1>1 DEF Creating
  <1> DEFINE new == [work |-> e, family |-> family, version |-> previous + 1,
                     status |-> "active"]
             old(m) == Superseded(m, family)
  <1>3. memories' = {old(m) : m \in memories} \cup {new}
    BY <1>2 DEF CreateVersion, NewVersion
  <1>4. /\ \A m \in memories : m.work # e
        /\ previous = 0 => \A m \in memories : m.family # family
        /\ previous # 0 => \E p \in memories :
             /\ p.family = family /\ p.version = previous /\ p.status = "active"
             /\ \A n \in memories : n.family = family => n.version <= previous
    BY <1>2 DEF CreateVersion, Known, Accepted, VersionsOf, Latest, StillActive
  <1>5. ASSUME NEW m \in memories
        PROVE  /\ Entry(old(m)) = Entry(m) /\ old(m).family = m.family
               /\ old(m).status = "active" <=> m.status = "active" /\ m.family # family
               /\ old(m).status = "deleted" <=> m.status = "deleted"
    BY <1>0 DEF Superseded, Memory, Entry
  <1>6. /\ Entry(new) = [work |-> e, family |-> family, version |-> previous + 1]
        /\ new.family = family /\ new.status = "active"
    BY DEF Entry
  <1>. HIDE DEF new, old
  <1>7. Entries' = Entries \cup {[work |-> e, family |-> family, version |-> previous + 1]}
    BY <1>3, <1>5, <1>6, InEntries
  <1>8. Live' = Live \cup {family}
    <2>1. ASSUME NEW x PROVE x \in Live' <=> x \in Live \/ x = family
      BY <1>3, <1>5, <1>6, InWith DEF Live
    <2> QED
      BY <2>1
  <1>9. Erased' = Erased
    <2>1. ASSUME NEW x PROVE x \in Erased' <=> x \in Erased
      BY <1>3, <1>5, <1>6, InWith DEF Erased
    <2> QED
      BY <2>1
  <1>10. family \notin Erased
    BY <1>4, InWith DEF Erased, LInv, DeletedTogether
  <1>11. Fates[e] # "none" /\ UNCHANGED Fates
    <2>1. work[e].status # "none"
      BY <1>2 DEF LInv, HandledAreQueued, Handles, CreateVersion
    <2> QED
      BY <1>0, <2>1, FateCases, SameFates DEF FateOf
  <1>12. \A v \in Entries : v.work # e
    BY <1>4, InEntries DEF Entry
  <1> DEFINE of == {v \in Entries : v.family = family}
  <1>13. /\ \A v \in of : v.version <= previous
         /\ previous # 0 => family \in Live /\ \E v \in of : v.version = previous
    <2>1. ASSUME NEW v \in of
          PROVE  \E m \in memories : m.family = family /\ m.version = v.version
      BY InEntries DEF Entry
    <2>2. \A v \in of : v.version <= previous
      BY <1>4, <2>1
    <2>3. ASSUME previous # 0
          PROVE  family \in Live /\ \E v \in of : v.version = previous
      <3>1. PICK p \in memories :
              p.family = family /\ p.version = previous /\ p.status = "active"
        BY <1>4, <2>3
      <3>2. Entry(p) \in of /\ Entry(p).version = previous
        BY <3>1, InEntries DEF Entry
      <3>3. family \in Live
        BY <3>1, InWith DEF Live
      <3> QED
        BY <3>2, <3>3
    <2> QED
      BY <2>2, <2>3
  <1>14. previous \in {0} \cup {v.version : v \in of}
    BY <1>13
  <1>15. Ledger!Add(e, family)
    BY <1>7, <1>8, <1>9, <1>10, <1>11, <1>12, <1>13, <1>14
       DEF Ledger!Add, Ledger!Of
  <1> QED
    BY <1>15 DEF LedgerStep

\* A deletion erases a family that was not erased yet.
LEMMA DeleteMoves ==
    ASSUME LInv, NEW family \in Event, DeleteFamily(family)
    PROVE  LedgerStep
  <1>0. TypeOK /\ memories \in SUBSET Memory /\ UNCHANGED work
    BY DEF LInv, IInv, TypeOK, DeleteFamily
  <1> DEFINE gone(m) == IF m.family = family THEN [m EXCEPT !.status = "deleted"] ELSE m
  <1>1. memories' = {gone(m) : m \in memories}
    BY DEF DeleteFamily
  <1>2. PICK k \in memories : k.family = family /\ k.status # "deleted"
    BY DEF DeleteFamily, VersionsOf
  <1>3. ASSUME NEW m \in memories
        PROVE  /\ Entry(gone(m)) = Entry(m) /\ gone(m).family = m.family
               /\ gone(m).status = "active" <=> m.status = "active" /\ m.family # family
               /\ gone(m).status = "deleted" <=> m.status = "deleted" \/ m.family = family
    BY <1>0 DEF Memory, Entry
  <1>. HIDE DEF gone
  <1>4. Entries' = Entries
    <2>1. ASSUME NEW v PROVE v \in Entries' <=> v \in Entries
      BY <1>1, <1>3, InEntries
    <2> QED
      BY <2>1
  <1>5. Live' = Live \ {family}
    <2>1. ASSUME NEW x PROVE x \in Live' <=> x \in Live /\ x # family
      BY <1>1, <1>3, InWith DEF Live
    <2> QED
      BY <2>1
  <1>6. Erased' = Erased \cup {family}
    <2>1. ASSUME NEW x PROVE x \in Erased' <=> x \in Erased \/ x = family
      BY <1>1, <1>2, <1>3, InWith DEF Erased
    <2> QED
      BY <2>1
  <1>7. family \notin Erased
    BY <1>2, InWith DEF Erased, LInv, DeletedTogether
  <1>8. Entry(k) \in Entries /\ Entry(k).family = family
    BY <1>2, InEntries DEF Entry
  <1>9. UNCHANGED Fates
    BY <1>0, SameFates DEF FateOf
  <1>10. Ledger!Erase(family)
    BY <1>4, <1>5, <1>6, <1>7, <1>8, <1>9 DEF Ledger!Erase, Ledger!Of
  <1> QED
    BY <1>10 DEF LedgerStep

\* Archiving the active version retires its family.
LEMMA ArchiveMoves ==
    ASSUME LInv, NEW k \in memories, Archive(k)
    PROVE  LedgerStep
  <1>0. /\ TypeOK /\ memories \in SUBSET Memory /\ UNCHANGED work
        /\ FamiliesAreChains
    BY DEF LInv, IInv, TypeOK, Archive
  <1> DEFINE kept == [k EXCEPT !.status = "archived"]
  <1>1. memories' = (memories \ {k}) \cup {kept} /\ k.status = "active"
    BY DEF Archive
  <1>2. /\ Entry(kept) = Entry(k) /\ kept.family = k.family
        /\ kept.status = "archived" /\ k.family \in Event
    BY <1>0 DEF Memory, Entry
  <1>. HIDE DEF kept
  <1>3. \A m \in memories : m.status = "active" /\ m.family = k.family => m = k
    BY <1>0, <1>1 DEF FamiliesAreChains, VersionsOf
  <1>4. Entries' = Entries
    BY <1>1, <1>2, InEntries
  <1>5. Live' = Live \ {k.family}
    <2>1. ASSUME NEW x PROVE x \in Live' <=> x \in Live /\ x # k.family
      BY <1>1, <1>2, <1>3, InWith DEF Live
    <2> QED
      BY <2>1
  <1>6. Erased' = Erased
    <2>1. ASSUME NEW x PROVE x \in Erased' <=> x \in Erased
      BY <1>1, <1>2, InWith DEF Erased
    <2> QED
      BY <2>1
  <1>7. k.family \in Live
    BY <1>1, InWith DEF Live
  <1>8. UNCHANGED Fates
    BY <1>0, SameFates DEF FateOf
  <1>9. Ledger!Retire(k.family)
    BY <1>4, <1>5, <1>6, <1>7, <1>8 DEF Ledger!Retire
  <1> QED
    BY <1>2, <1>9 DEF LedgerStep

-----------------------------------------------------------------------------
(***************************************************************************)
(* The invariant of the refinement.                                        *)
(***************************************************************************)
\* A worker that handles an item has just claimed it, or goes on with it.
LEMMA HandlersMove ==
    ASSUME TypeOK, [Next]_vars, NEW v \in Worker, Handles(v)'
    PROVE  \/ \E e \in Event : Claim(v, e)
           \/ Handles(v) /\ worker'[v].item = worker[v].item
  <1>1. ASSUME NEW w \in Worker, w # v, NEW state, Goes(w, state)
        PROVE  worker'[v] = worker[v]
    BY <1>1 DEF Goes, TypeOK
  <1>2. ASSUME NEW state, Goes(v, state)
        PROVE  worker'[v] = state
    BY <1>2 DEF Goes, TypeOK
  <1>3. ASSUME NEW w \in Worker, Handle(w)
        PROVE  Handles(v) /\ worker'[v].item = worker[v].item
    <2>1. CASE w # v
      <3>1. \E state : Goes(w, state)
        BY <1>3 DEF Handle, Decline, Decide, ProviderFails, CreateVersion,
                    FindVersion, Conflict, Complete, FailWork
      <3> QED
        BY <1>1, <2>1, <3>1 DEF Handles
    <2>2. CASE w = v /\ (Complete(v) \/ FailWork(v))
      BY <1>2, <2>2 DEF Complete, FailWork, Handles, Idle
    <2>3. CASE w = v /\ Decide(v)
      <3>1. ASSUME NEW f, NEW p,
                   Goes(v, [at |-> "creating", item |-> worker[v].item,
                            family |-> f, previous |-> p])
            PROVE  \E state : Goes(v, state) /\ state.item = worker[v].item
        BY <3>1
      <3>2. \E state : Goes(v, state) /\ state.item = worker[v].item
        BY <2>3, <3>1 DEF Decide
      <3> QED
        BY <1>2, <2>3, <3>2 DEF Decide, Handles
    <2>4. CASE /\ w = v
               /\ \/ Decline(v) \/ ProviderFails(v) \/ CreateVersion(v)
                  \/ FindVersion(v) \/ Conflict(v)
      <3>1. \E a \in {"completing", "failing"} :
              Goes(v, [at |-> a, item |-> worker[v].item])
        BY <2>4 DEF Decline, ProviderFails, CreateVersion, FindVersion, Conflict
      <3> QED
        BY <1>2, <2>4, <3>1 DEF Decline, ProviderFails, CreateVersion, FindVersion,
                                Conflict, Handles
    <2> QED
      BY <1>3, <2>1, <2>2, <2>3, <2>4 DEF Handle
  <1>4. ASSUME NEW w \in Worker,
               \/ PollSources(w) \/ Enqueue(w) \/ WriteEpisode(w)
               \/ AdvanceCursor(w) \/ Interrupt(w)
               \/ \E e \in Event : ReadEpisode(w, e)
        PROVE  worker'[v] = worker[v]
    <2>1. PICK state : Goes(w, state) /\ (w = v => ~ Handles(v)')
      <3>1. CASE PollSources(w) \/ WriteEpisode(w)
        <4>1. PICK next, last, left : Goes(w, Round(next, last, left))
          BY <3>1 DEF PollSources, WriteEpisode
        <4>2. Round(next, last, left).at = "reading"
          BY DEF Round
        <4> HIDE DEF Round
        <4>3. w = v => worker'[v].at = "reading"
          BY <1>2, <4>1, <4>2
        <4> QED
          BY <4>1, <4>3 DEF Handles
      <3>2. CASE Enqueue(w) \/ \E e \in Event : ReadEpisode(w, e)
        <4>1. worker[w] \in Reading /\ worker[w].at = "reading"
          BY <3>2, Forms DEF Enqueue, ReadEpisode, Reads
        <4>2. \A n, e : /\ [worker[w] EXCEPT !.next = n].at = "reading"
                        /\ [worker[w] EXCEPT !.at = "merging", !.event = e,
                                             !.ids = told].at = "merging"
          BY <4>1 DEF Reading
        <4> QED
          BY <1>2, <3>2, <4>2 DEF Enqueue, ReadEpisode, Handles, Goes
      <3>3. CASE AdvanceCursor(w) \/ Interrupt(w)
        BY <1>2, <3>3 DEF AdvanceCursor, Interrupt, Handles, Idle
      <3> QED
        BY <1>4, <3>1, <3>2, <3>3
    <2> QED
      BY <1>1, <2>1
  <1>5. ASSUME NEW w \in Worker, NEW e \in Event, Claim(w, e), w # v
        PROVE  worker'[v] = worker[v]
    BY <1>1, <1>5 DEF Claim
  <1>6. CASE worker'[v] = worker[v]
    BY <1>6 DEF Handles
  <1> QED
    BY <1>3, <1>4, <1>5, <1>6 DEF Next, Step, vars, Publish, PollNothing,
       LeaseExpires, BackoffElapses, DeleteFamily, Archive

\* An item once queued never becomes unqueued under a worker.
LEMMA NextHandled == LInv /\ [Next]_vars => HandledAreQueued'
  <1> SUFFICES ASSUME LInv, [Next]_vars, NEW v \in Worker, Handles(v)'
               PROVE  work'[worker'[v].item].status # "none"
    BY DEF HandledAreQueued
  <1>0. TypeOK /\ IInv
    BY DEF LInv, IInv
  <1>1. ASSUME NEW e \in Event, Claim(v, e)
        PROVE  work'[worker'[v].item].status # "none"
    <2>1. worker'[v].item = e
      BY <1>0, <1>1 DEF Claim, Goes, TypeOK
    <2>2. work[e].status # "none"
      BY <1>1 DEF Claim, Claimable, Free
    <2> QED
      BY <1>0, <2>1, <2>2, ItemsStay
  <1>2. CASE Handles(v) /\ worker'[v].item = worker[v].item
    <2>1. worker[v].item \in Event
      BY <1>0, <1>2, Forms DEF Handles, Handling, Creating
    <2>2. work[worker[v].item].status # "none"
      BY <1>2 DEF LInv, HandledAreQueued
    <2> QED
      BY <1>0, <1>2, <2>1, <2>2, ItemsStay
  <1> QED
    BY <1>0, <1>1, <1>2, HandlersMove

\* No version joins a deleted family.
LEMMA NextDeleted == LInv /\ [Next]_vars => DeletedTogether'
  <1> SUFFICES ASSUME LInv, [Next]_vars PROVE DeletedTogether'
    OBVIOUS
  <1>0. memories \in SUBSET Memory /\ FamiliesAreChains /\ DeletedTogether
    BY DEF LInv, IInv, TypeOK
  <1>1. ASSUME NEW w \in Worker, CreateVersion(w) PROVE DeletedTogether'
    <2> DEFINE family == worker[w].family
               old(m) == Superseded(m, family)
               new == NewVersion(w)
    <2>1. memories' = {old(m) : m \in memories} \cup {new}
      BY <1>1 DEF CreateVersion
    <2>2. ASSUME NEW m \in memories
          PROVE  old(m).family = m.family /\ (old(m).status = "deleted" <=> m.status = "deleted")
      BY <1>0 DEF Superseded, Memory
    <2>3. new.family = family /\ new.status = "active"
      BY DEF NewVersion
    <2>4. \A m \in memories : m.family = family => m.status # "deleted"
      <3>1. CASE worker[w].previous = 0
        BY <1>1, <3>1 DEF CreateVersion, Accepted, VersionsOf
      <3>2. CASE worker[w].previous # 0
        <4>1. \E p \in memories : p.family = family /\ p.status = "active"
          BY <1>1, <3>2 DEF CreateVersion, Accepted, StillActive, Latest, VersionsOf
        <4> QED
          BY <1>0, <4>1 DEF DeletedTogether
      <3> QED
        BY <3>1, <3>2
    <2> HIDE DEF family, old, new
    <2>5. ASSUME NEW m \in memories', NEW n \in memories', m.family = n.family,
                 m.status = "deleted"
          PROVE  n.status = "deleted"
      <3>1. PICK j \in memories : m = old(j) /\ j.status = "deleted" /\ j.family = m.family
        BY <2>1, <2>2, <2>3, <2>5
      <3>2. n # new
        BY <2>3, <2>4, <2>5, <3>1
      <3>3. PICK k \in memories : n = old(k)
        BY <2>1, <3>2
      <3> QED
        BY <1>0, <2>2, <2>5, <3>1, <3>3 DEF DeletedTogether
    <2> QED
      BY <2>5 DEF DeletedTogether
  <1>2. ASSUME NEW family \in Event, DeleteFamily(family) PROVE DeletedTogether'
    <2> DEFINE gone(m) == IF m.family = family THEN [m EXCEPT !.status = "deleted"] ELSE m
    <2>1. memories' = {gone(m) : m \in memories}
      BY <1>2 DEF DeleteFamily
    <2>2. ASSUME NEW m \in memories
          PROVE  /\ gone(m).family = m.family
                 /\ gone(m).status = "deleted" <=> m.status = "deleted" \/ m.family = family
      BY <1>0 DEF Memory
    <2> HIDE DEF gone
    <2>3. ASSUME NEW m \in memories', NEW n \in memories', m.family = n.family,
                 m.status = "deleted"
          PROVE  n.status = "deleted"
      <3>1. PICK j \in memories : m = gone(j)
        BY <2>1
      <3>2. PICK k \in memories : n = gone(k)
        BY <2>1
      <3> QED
        BY <1>0, <2>2, <2>3, <3>1, <3>2 DEF DeletedTogether
    <2> QED
      BY <2>3 DEF DeletedTogether
  <1>3. ASSUME NEW k \in memories, Archive(k) PROVE DeletedTogether'
    <2> DEFINE kept == [k EXCEPT !.status = "archived"]
    <2>1. memories' = (memories \ {k}) \cup {kept} /\ k.status = "active"
      BY <1>3 DEF Archive
    <2>2. kept.family = k.family /\ kept.status = "archived"
      BY <1>0 DEF Memory
    <2> HIDE DEF kept
    <2> QED
      BY <1>0, <2>1, <2>2 DEF DeletedTogether
  <1>4. CASE UNCHANGED memories
    BY <1>0, <1>4 DEF DeletedTogether
  <1> QED
    BY <1>1, <1>2, <1>3, <1>4 DEF Next, Step, Handle, vars, Publish, PollSources,
       PollNothing, Enqueue, ReadEpisode, WriteEpisode, AdvanceCursor, Claim, Decline, Decide,
       ProviderFails, FindVersion, Conflict, Complete, FailWork, LeaseExpires,
       BackoffElapses, Interrupt

\* The invariant of the refinement holds in every behaviour.
LEMMA LedgerInvariant == Spec => []LInv
  <1>1. Init => HandledAreQueued /\ DeletedTogether
    BY DEF Init, HandledAreQueued, DeletedTogether, Handles, Idle
  <1>2. Init => LInv
    BY <1>1, InitIInv DEF LInv
  <1>3. IInv /\ LInv /\ IInv' /\ [Next]_vars => LInv'
    BY NextHandled, NextDeleted DEF LInv
  <1> QED
    BY <1>2, <1>3, Invariant, PTL DEF Spec

-----------------------------------------------------------------------------
\* Each step of the pipeline is one of the ledger, or none.
LEMMA LedgerMoves == LInv /\ [Next]_vars => LedgerStep
  <1> SUFFICES ASSUME LInv, [Next]_vars PROVE LedgerStep
    OBVIOUS
  <1>0. TypeOK /\ IInv
    BY DEF LInv, IInv
  <1>1. ASSUME UNCHANGED <<work, memories>> PROVE LedgerStep
    BY <1>1, SameMemories, SameFates DEF LedgerStep, FateOf
  <1>2. ASSUME NEW w \in Worker, PollSources(w) \/ PollNothing(w)
        PROVE  LedgerStep
    BY <1>0, <1>2, PollMoves DEF PollSources, PollNothing
  <1>3. ASSUME NEW w \in Worker, Handle(w) PROVE LedgerStep
    <2>1. CASE \/ Decline(w) \/ Decide(w) \/ ProviderFails(w)
               \/ FindVersion(w) \/ Conflict(w)
      BY <1>1, <2>1 DEF Decline, Decide, ProviderFails, FindVersion, Conflict
    <2> QED
      BY <1>0, <1>3, <2>1, CreateMoves, CompleteMoves, FailMoves DEF Handle
  <1>4. ASSUME NEW w \in Worker, Step(w) PROVE LedgerStep
    <2>1. CASE \/ WriteEpisode(w) \/ AdvanceCursor(w)
               \/ \E e \in Event : ReadEpisode(w, e)
      BY <1>1, <2>1 DEF ReadEpisode, WriteEpisode, AdvanceCursor
    <2> QED
      BY <1>0, <1>2, <1>3, <1>4, <2>1, EnqueueMoves, ClaimMoves DEF Step
  <1>5. ASSUME NEW e \in Event,
               LeaseExpires(e) \/ BackoffElapses(e) \/ DeleteFamily(e)
        PROVE  LedgerStep
    BY <1>0, <1>5, TimeMoves, DeleteMoves
  <1>6. ASSUME NEW w \in Worker, NEW kind \in Kind, Publish(kind) \/ Interrupt(w)
        PROVE  LedgerStep
    BY <1>1, <1>6 DEF Publish, Interrupt
  <1>7. ASSUME NEW kind \in Kind, Publish(kind) PROVE LedgerStep
    BY <1>1, <1>7 DEF Publish
  <1>8. ASSUME NEW w \in Worker, Interrupt(w) PROVE LedgerStep
    BY <1>1, <1>8 DEF Interrupt
  <1>9. CASE UNCHANGED vars
    BY <1>1, <1>9 DEF vars
  <1> QED
    BY <1>4, <1>5, <1>7, <1>8, <1>9, ArchiveMoves DEF Next

\* The worker, its leases, retries and interruptions, the user's deletions and
\* the maintenance implement the ledger: work items end once, a memory is made
\* once per event and only on top of a version in use, and a deleted family
\* stays deleted (claim_work, complete_work, fail_work, create_memory_version,
\* mark_deleted, maintain_active).
THEOREM ImplementsMemoryLedger == Spec => KeepsLedger
  <1>1. Init => Ledger!LedgerInit
    BY DEF Init, Ledger!LedgerInit, Fates, FateOf, Entries, Live, Erased, With, NoItem
  <1>2. LInv /\ [Next]_vars => [Ledger!LedgerNext]_<<Fates, Entries, Live, Erased>>
    BY LedgerMoves DEF LedgerStep, Ledger!LedgerNext
  <1> QED
    BY <1>1, <1>2, LedgerInvariant, PTL
       DEF Spec, KeepsLedger, Ledger!LedgerSpec

-----------------------------------------------------------------------------
(***************************************************************************)
(* Tracking transitions.                                                   *)
(***************************************************************************)
\* Three steps alone touch the episode or count an interruption.
LEMMA EpisodeMoves ==
    ASSUME [Next]_vars
    PROVE  \/ UNCHANGED <<told, room, overlapped, interrupts>>
           \/ \E w \in Worker : WriteEpisode(w) \/ Interrupt(w)
           \/ \E w \in Worker, e \in Event : ReadEpisode(w, e)
  <1> USE DEF episode
  <1>1. ASSUME NEW w \in Worker, Handle(w)
        PROVE  UNCHANGED <<told, room, overlapped, interrupts>>
    BY <1>1 DEF Handle, Decline, Decide, ProviderFails, CreateVersion,
                FindVersion, Conflict, Complete, FailWork
  <1>2. ASSUME NEW w \in Worker,
               \/ PollSources(w) \/ PollNothing(w) \/ Enqueue(w)
               \/ AdvanceCursor(w) \/ \E e \in Event : Claim(w, e)
        PROVE  UNCHANGED <<told, room, overlapped, interrupts>>
    BY <1>2 DEF PollSources, PollNothing, Enqueue, AdvanceCursor, Claim
  <1>3. CASE UNCHANGED vars
    BY <1>3 DEF vars
  <1> QED
    BY <1>1, <1>2, <1>3 DEF Next, Step, Publish, LeaseExpires, BackoffElapses,
                            DeleteFamily, Archive

\* Without overlapping merges an episode only grows; and what may lose a
\* transition once may lose one ever after.
LEMMA LossStays ==
    ASSUME TInv, [Next]_vars
    PROVE  /\ ~ overlapped => told \subseteq told'
           /\ MayLose => MayLose'
  <1>0. /\ TypeOK /\ TypeOK' /\ MergesAlone /\ interrupts \in Nat
        /\ told \subseteq Event /\ told' \subseteq Event /\ room \in Nat
    BY NextTypeOK, MemoryPipelineAssumption DEF TInv, IInv, TypeOK
  <1>1. /\ room' = room /\ (overlapped => overlapped')
        /\ interrupts > 0 => interrupts' > 0
    <2>1. ASSUME NEW w \in Worker, NEW e \in Event, ReadEpisode(w, e)
          PROVE  room' = room /\ (overlapped => overlapped') /\ interrupts' = interrupts
      BY <2>1 DEF ReadEpisode
    <2>2. ASSUME NEW w \in Worker, WriteEpisode(w)
          PROVE  room' = room /\ overlapped' = overlapped /\ interrupts' = interrupts
      BY <2>2 DEF WriteEpisode
    <2>3. ASSUME NEW w \in Worker, Interrupt(w)
          PROVE  /\ room' = room /\ overlapped' = overlapped
                 /\ interrupts' = interrupts + 1
      BY <2>3 DEF Interrupt, episode
    <2> QED
      BY <1>0, <2>1, <2>2, <2>3, EpisodeMoves
  <1>2. ~ overlapped => told \subseteq told'
    BY <1>0, EpisodeMoves DEF ReadEpisode, WriteEpisode, Interrupt, episode,
                              MergeIds, MergesAlone
  <1>3. told \subseteq told' => Cardinality(told) <= Cardinality(told')
    <2>1. IsFiniteSet(Event)
      BY FS_Interval, MemoryPipelineAssumption DEF Event
    <2>2. IsFiniteSet(told')
      BY <1>0, <2>1, FS_Subset
    <2> QED
      BY <2>2, FS_Subset
  <1>4. Cardinality(told) \in Nat /\ Cardinality(told') \in Nat
    <2>1. IsFiniteSet(Event)
      BY FS_Interval, MemoryPipelineAssumption DEF Event
    <2> QED
      BY <1>0, <2>1, FS_Subset, FS_CardinalityType
  <1>5. CASE overlapped
    BY <1>1, <1>5 DEF MayLose
  <1>6. CASE ~ overlapped
    BY <1>0, <1>1, <1>2, <1>3, <1>4, <1>6 DEF MayLose
  <1> QED
    BY <1>2, <1>5, <1>6

\* A merge keeps its transition, when none overlaps it and there is room.
LEMMA WriteKeeps ==
    ASSUME TInv, ~ MayLose, NEW w \in Worker, WriteEpisode(w)
    PROVE  worker[w].event \in told'
  <1>1. worker[w].ids = told /\ Cardinality(told) < room
    <2>1. worker[w].ids = told /\ ~ (Cardinality(told) >= room)
      BY DEF TInv, MergesAlone, MayLose, WriteEpisode
    <2>2. IsFiniteSet(Event) /\ told \subseteq Event /\ room \in Nat
      BY FS_Interval, MemoryPipelineAssumption DEF Event, TInv, IInv, TypeOK
    <2>3. Cardinality(told) \in Nat
      BY <2>2, FS_Subset, FS_CardinalityType
    <2> QED
      BY <2>1, <2>2, <2>3
  <1> QED
    BY <1>1 DEF WriteEpisode, MergeIds

\* A round keeps what is left to it until it has merged it or is interrupted.
LEMMA CoverStays ==
    ASSUME TInv, [Next]_vars, NEW v \in Worker, NEW e, Covers(v, e)
    PROVE  Kept(e)'
  <1>0. /\ TypeOK /\ interrupts \in Nat
        /\ worker \in [Worker -> {Idle} \cup Reading \cup Handling \cup Creating]
        /\ worker[v] \in Reading /\ e \in worker[v].left
        /\ worker[v] # Idle /\ Reads(v)
    <2>1. TypeOK /\ Reads(v)
      BY DEF TInv, IInv, Covers
    <2>2. worker[v] \in Reading
      BY <2>1, Forms
    <2> QED
      BY <2>1, <2>2, MemoryPipelineAssumption DEF TypeOK, Covers, Idle, Reads
  <1>1. CASE worker'[v] = worker[v]
    BY <1>0, <1>1 DEF Kept, Covers, Reads
  <1>2. CASE Enqueue(v)
    <2>1. worker'[v] = [worker[v] EXCEPT !.next = worker[v].next + 1]
      BY <1>0, <1>2 DEF Enqueue, Goes
    <2>2. worker'[v].at = worker[v].at /\ worker'[v].left = worker[v].left
      BY <1>0, <2>1 DEF Reading
    <2> QED
      BY <1>0, <2>2 DEF Kept, Covers, Reads
  <1>3. ASSUME NEW d \in Event, ReadEpisode(v, d) PROVE Kept(e)'
    <2>1. worker'[v] = [worker[v] EXCEPT !.at = "merging", !.event = d, !.ids = told]
      BY <1>0, <1>3 DEF ReadEpisode, Goes
    <2>2. worker'[v].at = "merging" /\ worker'[v].left = worker[v].left
      BY <1>0, <2>1 DEF Reading
    <2> QED
      BY <1>0, <2>2 DEF Kept, Covers, Reads
  <1>4. CASE WriteEpisode(v)
    <2>1. /\ worker'[v].at = "reading"
          /\ worker'[v].left = worker[v].left \ {worker[v].event}
      BY <1>0, <1>4 DEF WriteEpisode, Goes, Round
    <2>2. CASE e # worker[v].event
      BY <1>0, <2>1, <2>2 DEF Kept, Covers, Reads
    <2>3. CASE e = worker[v].event
      BY <1>4, <2>3, WriteKeeps, LossStays DEF Kept
    <2> QED
      BY <2>2, <2>3
  <1>5. CASE Interrupt(v)
    <2>1. interrupts' > 0
      BY <1>0, <1>5 DEF Interrupt
    <2> QED
      BY <2>1 DEF Kept, MayLose
  <1>6. ASSUME NEW w \in Worker, NEW state, Goes(w, state), w # v
        PROVE  worker'[v] = worker[v]
    BY <1>0, <1>6 DEF Goes
  <1>7. ASSUME NEW w \in Worker, Step(w) \/ Interrupt(w), w # v
        PROVE  worker'[v] = worker[v]
    <2>1. CASE PollNothing(w)
      BY <2>1 DEF PollNothing
    <2>2. CASE ~ PollNothing(w)
      <3>1. \E state : Goes(w, state)
        BY <1>7, <2>2 DEF Step, Handle, PollSources, Enqueue, ReadEpisode, WriteEpisode,
           AdvanceCursor, Claim, Decline, Decide, ProviderFails, CreateVersion,
           FindVersion, Conflict, Complete, FailWork, Interrupt
      <3> QED
        BY <1>6, <1>7, <3>1
    <2> QED
      BY <2>1, <2>2
  <1>8. ASSUME Step(v)
        PROVE  \/ PollNothing(v) \/ Enqueue(v) \/ WriteEpisode(v)
               \/ \E d \in Event : ReadEpisode(v, d)
    <2>1. ~ AdvanceCursor(v)
      BY <1>0 DEF AdvanceCursor
    <2>2. ~ PollSources(v) /\ \A d \in Event : ~ Claim(v, d)
      BY <1>0 DEF PollSources, Claim
    <2>3. ~ Handle(v)
      BY <1>0 DEF Reads, Handle, Decline, Decide, ProviderFails, CreateVersion,
         FindVersion, Conflict, Complete, FailWork
    <2> QED
      BY <1>8, <2>1, <2>2, <2>3 DEF Step
  <1>9. PollNothing(v) => worker'[v] = worker[v]
    BY DEF PollNothing
  <1> QED
    BY <1>1, <1>2, <1>3, <1>4, <1>5, <1>7, <1>8, <1>9
       DEF Next, vars, Publish, LeaseExpires, BackoffElapses, DeleteFamily, Archive

\* What is kept stays kept.
LEMMA KeptStays ==
    ASSUME TInv, [Next]_vars, NEW e, Kept(e)
    PROVE  Kept(e)'
  <1>1. CASE MayLose
    BY <1>1, LossStays DEF Kept
  <1>2. CASE ~ MayLose /\ e \in told
    BY <1>2, LossStays DEF Kept, MayLose
  <1>3. ASSUME NEW w \in Worker, Covers(w, e) PROVE Kept(e)'
    BY <1>3, CoverStays
  <1> QED
    BY <1>1, <1>2, <1>3 DEF Kept

\* A merge begins alone or is counted as overlapping another.
LEMMA NextMergesAlone == TInv /\ [Next]_vars => MergesAlone'
  <1> SUFFICES ASSUME TInv, [Next]_vars, ~ overlapped',
                      NEW w \in Worker, worker'[w].at = "merging"
               PROVE  /\ worker'[w].ids = told'
                      /\ \A v \in Worker : worker'[v].at = "merging" => v = w
    BY DEF MergesAlone
  <1>0. /\ IInv /\ TypeOK /\ ~ overlapped
        /\ worker \in [Worker -> {Idle} \cup Reading \cup Handling \cup Creating]
    BY EpisodeMoves DEF TInv, IInv, TypeOK, ReadEpisode, WriteEpisode, Interrupt, episode
  <1>1. \A u, v \in Worker : worker[u].at = "merging" /\ worker[v].at = "merging" => u = v
    BY <1>0 DEF TInv, MergesAlone
  <1>2. \A u \in Worker : worker[u].at = "merging" => worker[u].ids = told
    BY <1>0 DEF TInv, MergesAlone
  <1>3. ASSUME NEW v \in Worker, worker'[v].at = "merging"
        PROVE  worker'[v] = worker[v] \/ \E e \in Event : ReadEpisode(v, e)
    <2>1. Reads(v)'
      BY <1>3 DEF Reads
    <2>2. CASE PollSources(v) \/ WriteEpisode(v)
      BY <1>0, <1>3, <2>2 DEF PollSources, WriteEpisode, Goes, Round
    <2>3. CASE Enqueue(v)
      <3>1. worker[v] \in Reading /\ worker[v].at = "reading"
        BY <1>0, <2>3, Forms DEF Enqueue, Reads
      <3>2. worker'[v] = [worker[v] EXCEPT !.next = worker[v].next + 1]
        BY <1>0, <2>3 DEF Enqueue, Goes
      <3> QED
        BY <1>3, <3>1, <3>2 DEF Reading
    <2> QED
      BY <1>0, <2>1, <2>2, <2>3, ReadersMove
  <1>4. ASSUME NEW u \in Worker, NEW e \in Event, ReadEpisode(u, e)
        PROVE  /\ worker'[u].ids = told'
               /\ \A v \in Worker : worker[v].at # "merging"
               /\ \A v \in Worker \ {u} : worker'[v] = worker[v]
    <2>1. worker[u] \in Reading
      BY <1>0, <1>4, Forms DEF ReadEpisode, Reads
    <2>2. worker'[u] = [worker[u] EXCEPT !.at = "merging", !.event = e, !.ids = told]
      BY <1>0, <1>4 DEF ReadEpisode, Goes
    <2>3. worker'[u].ids = told
      BY <2>1, <2>2 DEF Reading
    <2> QED
      BY <1>0, <1>4, <2>3 DEF ReadEpisode, Goes
  <1>5. CASE \E u \in Worker, e \in Event : ReadEpisode(u, e)
    BY <1>4, <1>5
  <1>6. CASE ~ \E u \in Worker, e \in Event : ReadEpisode(u, e)
    <2>1. \A v \in Worker : worker'[v].at = "merging" => worker'[v] = worker[v]
      BY <1>3, <1>6
    <2>2. worker'[w] = worker[w]
      BY <2>1
    <2>3. told' = told
      <3>1. ASSUME NEW u \in Worker, WriteEpisode(u) PROVE FALSE
        <4>1. worker[u].at = "merging" /\ worker'[u].at = "reading"
          BY <1>0, <3>1 DEF WriteEpisode, Goes, Round
        <4>2. u = w
          BY <1>1, <2>2, <4>1
        <4> QED
          BY <4>1, <4>2
      <3> QED
        BY <1>6, <3>1, EpisodeMoves DEF Interrupt, episode
    <2> QED
      BY <1>1, <1>2, <2>1, <2>2, <2>3
  <1> QED
    BY <1>5, <1>6

\* A round begins behind the cursor, and takes the transitions that follow.
LEMMA NextRoundsTell == TInv /\ [Next]_vars => RoundsTell'
  <1> SUFFICES ASSUME TInv, [Next]_vars, NEW v \in Worker, Reads(v)',
                      NEW e \in Published', e <= worker'[v].last, log'[e].tracking
               PROVE  Kept(e)'
    BY DEF RoundsTell
  <1>0. /\ TypeOK /\ IInv /\ cursor \in Nat /\ Len(log) \in Nat /\ Len(log') \in Nat
        /\ cursor <= Len(log)
        /\ worker \in [Worker -> {Idle} \cup Reading \cup Handling \cup Creating]
    BY NextTypeOK, MemoryPipelineAssumption DEF TInv, IInv, TypeOK, ReadersInOrder
  <1>1. e \in Nat \ {0}
    BY <1>0 DEF Published
  <1>2. ASSUME Reads(v), worker'[v].last = worker[v].last PROVE Kept(e)'
    <2>1. worker[v] \in Reading /\ worker[v].last <= Len(log)
      BY <1>0, <1>2, Forms DEF IInv, ReadersInOrder
    <2>2. worker[v].last \in Nat
      BY <2>1, MemoryPipelineAssumption DEF Reading
    <2>3. e \in Published
      BY <1>0, <1>1, <1>2, <2>1, <2>2 DEF Published
    <2>4. log[e].tracking
      BY <1>0, <2>3, LogGrows
    <2>5. Kept(e)
      BY <1>2, <2>3, <2>4 DEF TInv, RoundsTell
    <2> QED
      BY <2>5, KeptStays
  <1>3. CASE worker'[v] = worker[v]
    BY <1>2, <1>3 DEF Reads
  <1>4. CASE PollSources(v)
    <2>1. PICK last \in Published :
            Goes(v, Round(cursor, last, Transitions(last))) /\ log' = log
      BY <1>4 DEF PollSources
    <2>2. /\ worker'[v].at = "reading" /\ worker'[v].last = last
          /\ worker'[v].left = Transitions(last)
      BY <1>0, <2>1 DEF Goes, Round
    <2>3. e \in Published /\ log[e].tracking /\ e <= last
      BY <2>1, <2>2 DEF Published
    <2>4. CASE e <= cursor
      BY <2>3, <2>4, KeptStays DEF TInv, TransitionsTold
    <2>5. CASE ~ (e <= cursor)
      <3>1. e \in Transitions(last)
        BY <1>0, <1>1, <2>1, <2>3, <2>5 DEF Transitions, Published
      <3> QED
        BY <2>2, <3>1 DEF Kept, Covers, Reads
    <2> QED
      BY <2>4, <2>5
  <1>5. CASE Enqueue(v)
    <2>1. worker[v] \in Reading /\ Reads(v)
      BY <1>0, <1>5, Forms DEF Enqueue, Reads
    <2>2. worker'[v] = [worker[v] EXCEPT !.next = worker[v].next + 1]
      BY <1>0, <1>5 DEF Enqueue, Goes
    <2>3. worker'[v].last = worker[v].last
      BY <2>1, <2>2 DEF Reading
    <2> QED
      BY <1>2, <2>1, <2>3
  <1>6. ASSUME NEW d \in Event, ReadEpisode(v, d) PROVE Kept(e)'
    <2>1. worker[v] \in Reading /\ Reads(v)
      BY <1>0, <1>6, Forms DEF ReadEpisode, Reads
    <2>2. worker'[v] = [worker[v] EXCEPT !.at = "merging", !.event = d, !.ids = told]
      BY <1>0, <1>6 DEF ReadEpisode, Goes
    <2>3. worker'[v].last = worker[v].last
      BY <2>1, <2>2 DEF Reading
    <2> QED
      BY <1>2, <2>1, <2>3
  <1>7. CASE WriteEpisode(v)
    <2>1. Reads(v)
      BY <1>7 DEF WriteEpisode, Reads
    <2>2. worker'[v].last = worker[v].last
      BY <1>0, <1>7 DEF WriteEpisode, Goes, Round
    <2> QED
      BY <1>2, <2>1, <2>2
  <1> QED
    BY <1>0, <1>3, <1>4, <1>5, <1>6, <1>7, ReadersMove

\* What the cursor has passed is kept: it moves within a round that reads.
LEMMA NextTold == TInv /\ [Next]_vars => TransitionsTold'
  <1> SUFFICES ASSUME TInv, [Next]_vars, NEW e \in Published', e <= cursor',
                      log'[e].tracking
               PROVE  Kept(e)'
    BY DEF TransitionsTold
  <1>0. /\ TypeOK /\ IInv /\ cursor \in Nat /\ Len(log) \in Nat /\ Len(log') \in Nat
        /\ cursor <= Len(log) /\ cursor' \in Nat
        /\ worker \in [Worker -> {Idle} \cup Reading \cup Handling \cup Creating]
    BY NextTypeOK, MemoryPipelineAssumption DEF TInv, IInv, TypeOK, ReadersInOrder
  <1>1. e \in Nat \ {0}
    BY <1>0 DEF Published
  <1>2. CASE e <= cursor
    <2>1. e \in Published /\ log[e].tracking
      BY <1>0, <1>1, <1>2, LogGrows DEF Published
    <2> QED
      BY <1>2, <2>1, KeptStays DEF TInv, TransitionsTold
  <1>3. ASSUME NEW w \in Worker, Reads(w), e <= worker[w].last PROVE Kept(e)'
    <2>1. worker[w] \in Reading /\ worker[w].last <= Len(log)
      BY <1>0, <1>3, Forms DEF IInv, ReadersInOrder
    <2>2. worker[w].last \in Nat
      BY <2>1, MemoryPipelineAssumption DEF Reading
    <2>3. e \in Published /\ log[e].tracking
      BY <1>0, <1>1, <1>3, <2>1, <2>2, LogGrows DEF Published
    <2> QED
      BY <1>3, <2>3, KeptStays DEF TInv, RoundsTell
  <1>4. ASSUME e > cursor
        PROVE  \E w \in Worker : Reads(w) /\ e <= worker[w].last
    <2>1. PICK w \in Worker :
            \/ Enqueue(w) /\ cursor' = Later(cursor, worker[w].next + 1)
            \/ AdvanceCursor(w) /\ cursor' = Later(cursor, worker[w].next)
      BY <1>0, <1>1, <1>4, CursorMoves
    <2>2. worker[w] \in Reading /\ Reads(w)
      BY <1>0, <2>1, Forms DEF Enqueue, AdvanceCursor, Reads
    <2>3. /\ worker[w].next \in Nat /\ worker[w].last \in Nat
          /\ worker[w].next <= worker[w].last
          /\ Enqueue(w) => worker[w].next < worker[w].last
      BY <1>0, <2>2, MemoryPipelineAssumption DEF Reading, IInv, ReadersInOrder, Enqueue
    <2> QED
      BY <1>0, <1>1, <1>4, <2>1, <2>2, <2>3 DEF Later
  <1> QED
    BY <1>0, <1>1, <1>2, <1>3, <1>4

\* The source cursor leaves no tracking transition behind: it is in its episode
\* or left to a round that has read it, unless a round was interrupted, two
\* rounds merged into the episode at once, or the episode is full (read_new,
\* ingest_tracking_events, _merge_ids, upsert_memory_episode and
\* advance_source_cursor): what EventsSettle needs of the cursor.
THEOREM TransitionsReachEpisodes == Spec => []TransitionsTold
  <1>1. Init => MergesAlone /\ TransitionsTold /\ RoundsTell
    BY DEF Init, MergesAlone, TransitionsTold, RoundsTell, Published, Reads, Idle
  <1>2. Init => TInv
    BY <1>1, InitIInv DEF TInv
  <1>3. TInv /\ IInv' /\ [Next]_vars => TInv'
    BY NextTold, NextRoundsTell, NextMergesAlone DEF TInv
  <1>4. TInv => TransitionsTold
    BY DEF TInv
  <1> QED
    BY <1>2, <1>3, <1>4, Invariant, PTL DEF Spec
=============================================================================
