---------------------------- MODULE DeliveryProofs ---------------------------
(***************************************************************************)
(* Theorems about Delivery for any devices, items, limits and numbers of   *)
(* faults and restarts: a confirmation is only ever of something kept, and *)
(* none is lost.                                                           *)
(***************************************************************************)
EXTENDS Delivery, FiniteSetTheorems, WellFoundedInduction, TLAPS

(* Least and greatest elements of sets of naturals *)

\* Every non-empty set of naturals has a least element.
LEMMA LeastNatural ==
  ASSUME NEW T \in SUBSET Nat, T # {}
  PROVE  \E x \in T : \A y \in T : x <= y
<1>1. IsWellFoundedOn(OpToRel(<, Nat), Nat)
  BY NatLessThanWellFounded
<1>2. PICK x \in T : \A y \in T : ~ (<<y, x>> \in OpToRel(<, Nat))
  BY <1>1, WFMin, Zenon
<1>3. OpToRel(<, Nat) = {ss \in Nat \X Nat : ss[1] < ss[2]}
  BY DEF OpToRel
<1>4. ASSUME NEW y \in T PROVE x <= y
  <2>1. <<y, x>> \notin {ss \in Nat \X Nat : ss[1] < ss[2]}
    BY <1>2, <1>3
  <2>. QED BY <2>1
<1>. QED BY <1>2, <1>4

\* Every non-empty set of naturals with an upper bound has a greatest element,
\* and Max is it.
LEMMA MaxOfBounded ==
  ASSUME NEW T \in SUBSET Nat, T # {}, NEW b \in Nat, \A x \in T : x <= b
  PROVE  Max(T) \in T /\ \A y \in T : Max(T) >= y
<1>. DEFINE D == {b - x : x \in T}
<1>1. \A x \in T : x \in Nat /\ b - x \in Nat
  OBVIOUS
<1>2. D \in SUBSET Nat /\ D # {}
  BY <1>1
<1>3. PICK e \in D : \A y \in D : e <= y
  <2>. HIDE DEF D
  <2>. QED BY <1>2, LeastNatural
<1>4. PICK x \in T : e = b - x
  OBVIOUS
<1>5. \A y \in T : x >= y
  <2>. SUFFICES ASSUME NEW y \in T PROVE x >= y
    OBVIOUS
  <2>1. b - y \in D
    OBVIOUS
  <2>2. b - x <= b - y
    BY <2>1, <1>3, <1>4
  <2>. QED BY <2>2, <1>1
<1>. QED BY <1>5 DEF Max
-----------------------------------------------------------------------------
\* What the frame lemmas below are about: nothing is taken back.
Grows ==
  /\ Len(feed) <= Len(feed') /\ \A n \in 1..Len(feed) : feed'[n] = feed[n]
  /\ gone <= gone' /\ gone' \in Nat /\ Len(feed') \in Nat
  /\ drawn \subseteq drawn'
  /\ \A d \in Devices : kept[d] \subseteq kept'[d]

Still == UNCHANGED <<feed, gone, drawn, kept>>

LEMMA StillGrows ==
  ASSUME TypeOK, Still
  PROVE  Grows
BY DEF TypeOK, Still, Grows

LEMMA TrackKeeps ==
  ASSUME NEW l \in Ledger, NEW id \in Ids
  PROVE  /\ Track(l, id) \in Ledger
         /\ Track(l, id).confirmed \subseteq l.confirmed
<1>. DEFINE rest == Newest(l.tracked \cup {id})
<1>1. rest \subseteq Ids
  BY DEF Newest, Ledger
<1>. HIDE DEF rest
<1>3. Track(l, id) = l \/
      Track(l, id) = [tracked |-> rest,
                      confirmed |-> {c \in l.confirmed : c[1] \in rest},
                      cursor |-> l.cursor]
  BY DEF Track, rest
<1>4. /\ l.tracked \subseteq Ids /\ l.confirmed \subseteq Ids \X Devices
      /\ l.cursor \in Nat
  BY DEF Ledger
<1>. QED BY <1>1, <1>3, <1>4 DEF Ledger

\* A device whose receiving thread does not move.
LEMMA ItemKeeps ==
  ASSUME TypeOK, Grows, NEW d \in Devices, ItemInv(d),
         saved'[d] = saved[d], at'[d] = at[d], step'[d] = step[d]
  PROVE  ItemInv(d)'
<1>1. /\ saved[d] \in Nat /\ at[d] \in Nat /\ Len(feed) \in Nat /\ gone \in Nat
      /\ Len(feed') \in Nat
  BY DEF TypeOK, Grows
<1>2. \A id : Receipted(d, id) => Receipted(d, id)'
  BY DEF Receipted, Grows
<1>3. \A n \in 1..at[d] : Owed(d, n)' => Owed(d, n) /\ feed'[n] = feed[n]
  <2>. SUFFICES ASSUME NEW n \in 1..at[d], Owed(d, n)'
                PROVE  Owed(d, n) /\ feed'[n] = feed[n]
    OBVIOUS
  <2>1. at[d] <= Len(feed)
    BY DEF ItemInv
  <2>2. n \in 1..Len(feed) /\ n \in Nat
    BY <2>1, <1>1
  <2>3. feed'[n] = feed[n] /\ gone <= gone' /\ gone' \in Nat
    BY <2>2, <1>1 DEF Grows, TypeOK
  <2>. QED BY <2>2, <2>3, <1>1 DEF Owed
<1>4. at[d] < Len(feed) => Current(d)' = Current(d)
  BY <1>1 DEF Current, Grows
<1>5. kept[d] \subseteq kept'[d]
  BY DEF Grows
<1>. QED BY <1>1, <1>2, <1>3, <1>4, <1>5 DEF ItemInv, Grows

LEMMA LedgerKeeps ==
  ASSUME TypeOK, LedgerInv, Grows,
         \A d \in Devices :
           \A c \in (ledger'[d].confirmed \cup snap'[d].confirmed)
                      \ (ledger[d].confirmed \cup snap[d].confirmed) :
             c[1] \in kept'[c[2]] /\ Receipted(c[2], c[1])',
         ledger' \in [Devices -> Ledger], snap' \in [Devices -> Ledger]
  PROVE  LedgerInv'
<1>. SUFFICES ASSUME NEW d \in Devices,
                     NEW c \in ledger'[d].confirmed \cup snap'[d].confirmed
              PROVE  c[1] \in kept'[c[2]] /\ Receipted(c[2], c[1])'
  BY DEF LedgerInv
<1>1. c[2] \in Devices
  BY DEF Ledger
<1>2. CASE c \in ledger[d].confirmed \cup snap[d].confirmed
  BY <1>1, <1>2 DEF LedgerInv, Grows, Receipted
<1>3. CASE c \notin ledger[d].confirmed \cup snap[d].confirmed
  BY <1>3
<1>. QED BY <1>2, <1>3

LEMMA InitDeliveryInv == Init => DeliveryInv
<1>. SUFFICES ASSUME Init PROVE DeliveryInv
  OBVIOUS
<1>. USE DEF Init
<1>1. TypeOK
  BY FS_EmptySet DEF TypeOK, NoLedger, Ledger, Steps
<1>2. ReceiptInv /\ LedgerInv
  BY DEF ReceiptInv, LedgerInv, NoLedger
<1>3. \A d \in Devices : ItemInv(d)
  BY DEF ItemInv, Owed
<1>. QED BY <1>1, <1>2, <1>3 DEF DeliveryInv
-----------------------------------------------------------------------------
(* The sending thread, the command line and the server *)

LEMMA TrackOwnKeepsInv ==
  ASSUME DeliveryInv, NEW d \in Devices, NEW id \in Ids, TrackOwn(d, id)
  PROVE  DeliveryInv'
<1>. USE DEF DeliveryInv
<1>1. /\ ledger' = [ledger EXCEPT ![d] = Track(ledger[d], id)]
      /\ drafted' = drafted \cup {id}
      /\ UNCHANGED <<feed, gone, receipts, lastSeq, posted, queue, saved, at, step, snap,
                     answer, cli, kept, drawn, cancelled, wiped, restarts, faults>>
  BY DEF TrackOwn, serverVars, memoryVars, pastVars, budget
<1>2. Still
  BY <1>1 DEF Still
<1>3. Grows
  BY <1>2, StillGrows
<1>4. /\ Track(ledger[d], id) \in Ledger
      /\ Track(ledger[d], id).confirmed \subseteq ledger[d].confirmed
  <2>1. ledger[d] \in Ledger
    BY DEF TypeOK
  <2>. QED BY <2>1, TrackKeeps
<1>5. TypeOK'
  BY <1>1, <1>4 DEF TypeOK
<1>6. ReceiptInv'
  BY <1>1 DEF ReceiptInv
<1>7. LedgerInv'
  <2>1. \A e \in Devices : ledger'[e].confirmed \subseteq ledger[e].confirmed
    BY <1>1, <1>4 DEF TypeOK
  <2>2. ledger' \in [Devices -> Ledger] /\ snap' \in [Devices -> Ledger]
    BY <1>5 DEF TypeOK
  <2>. QED BY <2>1, <2>2, <1>1, <1>3, LedgerKeeps
<1>8. \A e \in Devices : ItemInv(e)'
  BY <1>1, <1>3, ItemKeeps
<1>. QED BY <1>5, <1>6, <1>7, <1>8

LEMMA PostItemKeepsInv ==
  ASSUME DeliveryInv, NEW id \in Ids, PostItem(id)
  PROVE  DeliveryInv'
<1>. USE DEF DeliveryInv
<1>1. /\ feed' = Append(feed, id)
      /\ UNCHANGED <<gone, receipts, lastSeq, posted, ledger, queue, saved, at, step, snap,
                     answer, drafted, cli, kept, drawn, cancelled, wiped, restarts, faults>>
  BY DEF PostItem, diskVars, memoryVars, userVars, pastVars, budget
<1>2. /\ feed' \in Seq(Ids) /\ Len(feed') = Len(feed) + 1
      /\ \A n \in 1..Len(feed) : feed'[n] = feed[n]
  BY <1>1 DEF TypeOK
<1>3. Grows
  BY <1>1, <1>2 DEF Grows, TypeOK
<1>4. TypeOK'
  BY <1>1, <1>2 DEF TypeOK
<1>5. ReceiptInv'
  BY <1>1 DEF ReceiptInv
<1>6. LedgerInv'
  BY <1>1 DEF LedgerInv, Receipted
<1>7. \A e \in Devices : ItemInv(e)'
  BY <1>1, <1>3, ItemKeeps
<1>. QED BY <1>4, <1>5, <1>6, <1>7

LEMMA CliWipesKeepsInv ==
  ASSUME DeliveryInv, NEW d \in Devices, CliWipes(d)
  PROVE  DeliveryInv'
<1>. USE DEF DeliveryInv
<1>1. /\ cli' = [cli EXCEPT ![d] = "wiped"]
      /\ ledger' = [ledger EXCEPT ![d] = NoLedger]
      /\ queue' = [queue EXCEPT ![d] = {}]
      /\ cancelled' = cancelled \cup queue[d]
      /\ wiped' = wiped \cup {d}
      /\ UNCHANGED <<feed, gone, receipts, lastSeq, posted, saved, at, step, snap,
                     answer, drafted, kept, drawn, restarts, faults>>
  BY DEF CliWipes, serverVars, memoryVars, pastVars, budget
<1>2. Grows
  <2>1. Still
    BY <1>1 DEF Still
  <2>. QED BY <2>1, StillGrows
<1>3. TypeOK'
  BY <1>1 DEF TypeOK, NoLedger, Ledger
<1>4. ReceiptInv'
  <2>1. \A e \in Devices : queue'[e] \subseteq queue[e] /\ queue[e] \subseteq queue'[e] \cup cancelled'
    BY <1>1 DEF TypeOK
  <2>2. \A r \in drawn : r.from \in Devices
    BY DEF TypeOK, Receipt
  <2>. QED BY <2>1, <2>2, <1>1 DEF ReceiptInv
<1>5. LedgerInv'
  <2>1. \A e \in Devices : ledger'[e].confirmed \subseteq ledger[e].confirmed
    BY <1>1 DEF TypeOK, NoLedger
  <2>2. ledger' \in [Devices -> Ledger] /\ snap' \in [Devices -> Ledger]
    BY <1>3 DEF TypeOK
  <2>. QED BY <2>1, <2>2, <1>1, <1>2, LedgerKeeps
<1>6. \A e \in Devices : ItemInv(e)'
  BY <1>1, <1>2, ItemKeeps
<1>. QED BY <1>3, <1>4, <1>5, <1>6

LEMMA CliDeletesKeepsInv ==
  ASSUME DeliveryInv, NEW d \in Devices, CliDeletes(d)
  PROVE  DeliveryInv'
<1>. USE DEF DeliveryInv
<1>1. /\ cli' = [cli EXCEPT ![d] = "deleted"]
      /\ gone' = Len(feed) /\ receipts' = {}
      /\ UNCHANGED <<feed, lastSeq, posted, ledger, queue, saved, at, step, snap, answer,
                     drafted, kept, drawn, cancelled, wiped, restarts, faults>>
  BY DEF CliDeletes, diskVars, memoryVars, pastVars, budget
<1>2. Grows
  BY <1>1 DEF Grows, TypeOK
<1>3. TypeOK'
  BY <1>1 DEF TypeOK
<1>4. ReceiptInv' /\ LedgerInv'
  BY <1>1 DEF ReceiptInv, LedgerInv, Receipted
<1>5. \A e \in Devices : ItemInv(e)'
  BY <1>1, <1>2, ItemKeeps
<1>. QED BY <1>3, <1>4, <1>5
-----------------------------------------------------------------------------
(* The receiving thread *)

\* What the thread of one device does leaves the others alone.
LEMMA OneDeviceMoves ==
  ASSUME DeliveryInv, Grows, NEW d \in Devices, NEW a \in Nat, NEW s \in Nat, NEW to \in Steps,
         at' = [at EXCEPT ![d] = a], saved' = [saved EXCEPT ![d] = s],
         step' = [step EXCEPT ![d] = to],
         ItemInv(d)'
  PROVE  \A e \in Devices : ItemInv(e)'
<1>. SUFFICES ASSUME NEW e \in Devices, e # d PROVE ItemInv(e)'
  OBVIOUS
<1>1. saved'[e] = saved[e] /\ at'[e] = at[e] /\ step'[e] = step[e]
  BY DEF DeliveryInv, TypeOK
<1>. QED BY <1>1, ItemKeeps DEF DeliveryInv

\* A step that only the thread's own place and the counters tell of.
LEMMA PlaceMoves ==
  ASSUME DeliveryInv, NEW d \in Devices, NEW a \in Nat, NEW s \in Nat, NEW to \in Steps,
         at' = [at EXCEPT ![d] = a], saved' = [saved EXCEPT ![d] = s],
         step' = [step EXCEPT ![d] = to],
         UNCHANGED <<serverVars, ledger, queue, snap, answer, userVars, pastVars>>,
         restarts' \in Nat, faults' \in Nat,
         ItemInv(d)'
  PROVE  DeliveryInv'
<1>. USE DEF DeliveryInv, serverVars, userVars, pastVars
<1>1. Grows
  <2>1. Still
    BY DEF Still
  <2>. QED BY <2>1, StillGrows
<1>2. TypeOK'
  BY DEF TypeOK
<1>3. ReceiptInv' /\ LedgerInv'
  BY DEF ReceiptInv, LedgerInv, Receipted
<1>4. \A e \in Devices : ItemInv(e)'
  BY <1>1, OneDeviceMoves
<1>. QED BY <1>2, <1>3, <1>4

\* What ItemInv says of a device, with its types.
LEMMA ItemFacts ==
  ASSUME DeliveryInv, NEW d \in Devices
  PROVE  /\ saved[d] \in Nat /\ at[d] \in Nat /\ Len(feed) \in Nat /\ gone \in Nat
         /\ saved[d] <= at[d] /\ at[d] <= Len(feed)
         /\ \A n \in 1..at[d] : Owed(d, n) => Receipted(d, feed[n])
         /\ at[d] < Len(feed) => Current(d) \in Ids
BY DEF DeliveryInv, TypeOK, ItemInv, Current

LEMMA StepForms ==
  ASSUME DeliveryInv, NEW d \in Devices
  PROVE  /\ at = [at EXCEPT ![d] = at[d]] /\ saved = [saved EXCEPT ![d] = saved[d]]
         /\ restarts \in Nat /\ faults \in Nat
BY DEF DeliveryInv, TypeOK

LEMMA SkipKeepsInv ==
  ASSUME DeliveryInv, NEW d \in Devices, Skip(d)
  PROVE  DeliveryInv'
<1>1. /\ at' = [at EXCEPT ![d] = at[d] + 1] /\ saved' = saved
      /\ step' = [step EXCEPT ![d] = "moved"]
      /\ UNCHANGED <<serverVars, ledger, queue, snap, answer, userVars, pastVars, budget>>
      /\ at[d] < Len(feed) /\ (at[d] < gone \/ Author[feed[at[d] + 1]] = d)
  BY ItemFacts DEF Skip, AtItem, Offered, Current, Goes, diskVars
<1>2. ~ Owed(d, at[d] + 1)
  BY <1>1, ItemFacts DEF Owed
<1>3. ItemInv(d)'
  <2>1. at'[d] = at[d] + 1 /\ saved'[d] = saved[d] /\ step'[d] = "moved" /\ feed' = feed
        /\ gone' = gone /\ drawn' = drawn
    BY <1>1 DEF DeliveryInv, TypeOK, serverVars, pastVars
  <2>2. \A n \in 1..(at[d] + 1) : Owed(d, n) => Receipted(d, feed[n])
    BY <1>2, ItemFacts
  <2>3. \A n \in 1..at'[d] : Owed(d, n)' => Receipted(d, feed[n])'
    BY <2>1, <2>2 DEF Owed, Receipted
  <2>. QED BY <2>1, <2>3, <1>1, ItemFacts DEF ItemInv
<1>4. saved' = [saved EXCEPT ![d] = saved[d]] /\ restarts' \in Nat /\ faults' \in Nat
  BY <1>1, StepForms DEF budget
<1>5. at[d] + 1 \in Nat /\ saved[d] \in Nat /\ "moved" \in Steps
  BY ItemFacts DEF Steps
<1>. QED BY <1>1, <1>3, <1>4, <1>5, PlaceMoves

\* A step within an item, or back to asking, or on to the receipts.
LEMMA WithinItem ==
  ASSUME DeliveryInv, NEW d \in Devices, NEW to \in Steps, Grows, feed' = feed,
         step' = [step EXCEPT ![d] = to], at' = at, saved' = saved,
         to \in {"kept", "tracked", "queued", "emptied", "done"} => at[d] < Len(feed),
         to \in {"kept", "tracked", "queued"} => Current(d) \in kept'[d],
         to = "emptied" => Current(d) \in Clears,
         to = "queued" => Receipted(d, Current(d))',
         to = "done" => Current(d) \in Clears \/ Receipted(d, Current(d))'
  PROVE  \A e \in Devices : ItemInv(e)'
<1>1. step'[d] = to /\ at'[d] = at[d] /\ saved'[d] = saved[d]
  BY DEF DeliveryInv, TypeOK
<1>2. \A n \in 1..at[d] : Owed(d, n)' => Receipted(d, feed[n])'
  <2>. SUFFICES ASSUME NEW n \in 1..at[d], Owed(d, n)' PROVE Receipted(d, feed[n])'
    OBVIOUS
  <2>1. Owed(d, n)
    BY ItemFacts DEF Owed, Grows
  <2>2. Receipted(d, feed[n])
    BY <2>1, ItemFacts
  <2>. QED BY <2>2 DEF Receipted, Grows
<1>3. Current(d)' = Current(d)
  BY <1>1 DEF Current
<1>4. ItemInv(d)'
  <2>1. \A n \in 1..at'[d] : Owed(d, n)' => Receipted(d, feed[n])'
    BY <1>1, <1>2
  <2>. QED BY <1>1, <1>3, <2>1, ItemFacts DEF ItemInv
<1>. QED BY <1>4, StepForms, ItemFacts, OneDeviceMoves

\* A step within an item that changes nothing else.
LEMMA OnlyStepMoves ==
  ASSUME DeliveryInv, NEW d \in Devices, NEW to \in Steps,
         step' = [step EXCEPT ![d] = to],
         UNCHANGED <<serverVars, diskVars, at, snap, answer, userVars, pastVars>>,
         restarts' \in Nat, faults' \in Nat,
         to \in {"kept", "tracked", "queued", "emptied", "done"} => at[d] < Len(feed),
         to \in {"kept", "tracked", "queued"} => Current(d) \in kept[d],
         to = "emptied" => Current(d) \in Clears,
         to = "queued" => Receipted(d, Current(d)),
         to = "done" => Current(d) \in Clears \/ Receipted(d, Current(d))
  PROVE  DeliveryInv'
<1>1. Grows
  <2>1. Still
    BY DEF Still, serverVars, pastVars
  <2>. QED BY <2>1, StillGrows DEF DeliveryInv
<1>2. \A e \in Devices : ItemInv(e)'
  <2>1. feed' = feed /\ at' = at /\ saved' = saved /\ kept' = kept
    BY DEF serverVars, diskVars, pastVars
  <2>2. Receipted(d, Current(d)) => Receipted(d, Current(d))'
    BY DEF Receipted, Current, serverVars, pastVars
  <2>. QED BY <1>1, <2>1, <2>2, WithinItem
<1>3. at' = [at EXCEPT ![d] = at[d]] /\ saved' = [saved EXCEPT ![d] = saved[d]]
  BY StepForms DEF diskVars
<1>4. at[d] \in Nat /\ saved[d] \in Nat
  BY ItemFacts
<1>. QED BY <1>2, <1>3, <1>4, PlaceMoves DEF diskVars

LEMMA AlreadyNotedKeepsInv ==
  ASSUME DeliveryInv, NEW d \in Devices, AlreadyNoted(d)
  PROVE  DeliveryInv'
<1>1. /\ step' = [step EXCEPT ![d] = "done"] /\ "done" \in Steps
      /\ UNCHANGED <<serverVars, diskVars, at, snap, answer, userVars, pastVars>>
      /\ restarts' \in Nat /\ faults' \in Nat
  BY StepForms DEF AlreadyNoted, Goes, budget, Steps
<1>2. at[d] < Len(feed)
  BY DEF AlreadyNoted, DeliveryInv, ItemInv
<1>3. Receipted(d, Current(d))
  BY DEF AlreadyNoted, DeliveryInv, LedgerInv
<1>. QED BY <1>1, <1>2, <1>3, OnlyStepMoves

LEMMA FailureKeepsInv ==
  ASSUME DeliveryInv, NEW d \in Devices, ItemFails(d) \/ SyncFails(d) \/ PostsDone(d)
  PROVE  DeliveryInv'
<1>1. /\ step' = [step EXCEPT ![d] = "ask"] /\ "ask" \in Steps
      /\ UNCHANGED <<serverVars, diskVars, at, snap, answer, userVars, pastVars>>
      /\ restarts' \in Nat /\ faults' \in Nat
  BY StepForms DEF ItemFails, SyncFails, PostsDone, OneFault, Goes, budget, Steps
<1>. QED BY <1>1, OnlyStepMoves

LEMMA MoveOnKeepsInv ==
  ASSUME DeliveryInv, NEW d \in Devices, MoveOn(d)
  PROVE  DeliveryInv'
<1>1. /\ at' = [at EXCEPT ![d] = at[d] + 1] /\ saved' = saved
      /\ step' = [step EXCEPT ![d] = "moved"]
      /\ UNCHANGED <<serverVars, ledger, queue, snap, answer, userVars, pastVars, budget>>
  BY DEF MoveOn, Goes, diskVars
<1>2. at[d] < Len(feed) /\ (Owed(d, at[d] + 1) => Receipted(d, feed[at[d] + 1]))
  BY DEF MoveOn, DeliveryInv, ItemInv, Owed, Current
<1>3. ItemInv(d)'
  <2>1. at'[d] = at[d] + 1 /\ saved'[d] = saved[d] /\ step'[d] = "moved" /\ feed' = feed
        /\ gone' = gone /\ drawn' = drawn
    BY <1>1 DEF DeliveryInv, TypeOK, serverVars, pastVars
  <2>2. \A n \in 1..(at[d] + 1) : Owed(d, n) => Receipted(d, feed[n])
    BY <1>2, ItemFacts
  <2>3. \A n \in 1..at'[d] : Owed(d, n)' => Receipted(d, feed[n])'
    BY <2>1, <2>2 DEF Owed, Receipted
  <2>. QED BY <2>1, <2>3, <1>2, ItemFacts DEF ItemInv
<1>4. saved' = [saved EXCEPT ![d] = saved[d]] /\ restarts' \in Nat /\ faults' \in Nat
  BY <1>1, StepForms DEF budget
<1>5. at[d] + 1 \in Nat /\ saved[d] \in Nat /\ "moved" \in Steps
  BY ItemFacts DEF Steps
<1>. QED BY <1>1, <1>3, <1>4, <1>5, PlaceMoves

LEMMA SaveCursorKeepsInv ==
  ASSUME DeliveryInv, NEW d \in Devices, SaveCursor(d)
  PROVE  DeliveryInv'
<1>1. /\ saved' = [saved EXCEPT ![d] = at[d]] /\ at' = at
      /\ step' = [step EXCEPT ![d] = "sync"]
      /\ UNCHANGED <<serverVars, ledger, queue, snap, answer, userVars, pastVars, budget>>
  BY DEF SaveCursor, Goes
<1>2. ItemInv(d)'
  <2>1. at'[d] = at[d] /\ saved'[d] = at[d] /\ step'[d] = "sync" /\ feed' = feed
        /\ gone' = gone /\ drawn' = drawn
    BY <1>1 DEF DeliveryInv, TypeOK, serverVars, pastVars
  <2>2. \A n \in 1..at'[d] : Owed(d, n)' => Receipted(d, feed[n])'
    BY <2>1, ItemFacts DEF Owed, Receipted
  <2>. QED BY <2>1, <2>2, ItemFacts DEF ItemInv
<1>3. at' = [at EXCEPT ![d] = at[d]] /\ restarts' \in Nat /\ faults' \in Nat
  BY <1>1, StepForms DEF budget
<1>4. at[d] \in Nat /\ "sync" \in Steps
  BY ItemFacts DEF Steps
<1>. QED BY <1>1, <1>2, <1>3, <1>4, PlaceMoves

LEMMA KeepKeepsInv ==
  ASSUME DeliveryInv, NEW d \in Devices, Keep(d)
  PROVE  DeliveryInv'
<1>. USE DEF DeliveryInv
<1>1. /\ kept' = [kept EXCEPT ![d] = kept[d] \cup {Current(d)}]
      /\ step' = [step EXCEPT ![d] = "kept"] /\ at[d] < Len(feed)
      /\ UNCHANGED <<feed, gone, receipts, lastSeq, posted, ledger, queue, saved, at, snap,
                     answer, drafted, cli, drawn, cancelled, wiped, restarts, faults>>
  BY DEF Keep, AtItem, Goes, serverVars, diskVars, userVars, budget
<1>2. Current(d) \in Ids
  BY <1>1, ItemFacts
<1>3. TypeOK'
  BY <1>1, <1>2 DEF TypeOK, Steps
<1>4. \A e \in Devices : kept[e] \subseteq kept'[e]
  BY <1>1 DEF TypeOK
<1>5. Grows
  BY <1>1, <1>4 DEF Grows, TypeOK
<1>6. ReceiptInv'
  <2>1. \A r \in drawn : r.from \in Devices
    BY DEF TypeOK, Receipt
  <2>. QED BY <2>1, <1>1, <1>4 DEF ReceiptInv
<1>7. LedgerInv'
  <2>1. ledger' \in [Devices -> Ledger] /\ snap' \in [Devices -> Ledger]
    BY <1>3 DEF TypeOK
  <2>. QED BY <2>1, <1>1, <1>5, LedgerKeeps
<1>8. \A e \in Devices : ItemInv(e)'
  <2>1. "kept" \in Steps /\ Current(d) \in kept'[d]
    BY <1>1 DEF TypeOK, Steps
  <2>. QED BY <2>1, <1>1, <1>5, WithinItem
<1>. QED BY <1>3, <1>6, <1>7, <1>8

LEMMA TrackReceivedKeepsInv ==
  ASSUME DeliveryInv, NEW d \in Devices, TrackReceived(d)
  PROVE  DeliveryInv'
<1>. USE DEF DeliveryInv
<1>. DEFINE l == Track(ledger[d], Current(d))
<1>1. /\ step[d] = "kept" /\ ledger' = [ledger EXCEPT ![d] = l]
      /\ step' = [step EXCEPT ![d] = "tracked"]
      /\ UNCHANGED <<feed, gone, receipts, lastSeq, posted, queue, saved, at,
                     answer, drafted, cli, kept, drawn, cancelled, wiped, restarts, faults>>
  BY DEF TrackReceived, Goes, serverVars, userVars, pastVars, budget
<1>2. snap' = [snap EXCEPT ![d] = l]
  <2>1. ledger'[d] = l
    BY <1>1 DEF TypeOK
  <2>. QED BY <2>1 DEF TrackReceived
<1>3. at[d] < Len(feed) /\ Current(d) \in kept[d] /\ Current(d) \in Ids
  BY <1>1, ItemFacts DEF ItemInv
<1>4. l \in Ledger /\ l.confirmed \subseteq ledger[d].confirmed
  <2>1. ledger[d] \in Ledger
    BY DEF TypeOK
  <2>. QED BY <2>1, <1>3, TrackKeeps
<1>. HIDE DEF l
<1>5. Grows
  <2>1. Still
    BY <1>1 DEF Still
  <2>. QED BY <2>1, StillGrows
<1>6. TypeOK'
  BY <1>1, <1>2, <1>4 DEF TypeOK, Steps
<1>7. ReceiptInv'
  BY <1>1 DEF ReceiptInv
<1>8. LedgerInv'
  <2>1. \A e \in Devices :
          ledger'[e].confirmed \cup snap'[e].confirmed
            \subseteq ledger[e].confirmed \cup snap[e].confirmed
    BY <1>1, <1>2, <1>4 DEF TypeOK
  <2>2. ledger' \in [Devices -> Ledger] /\ snap' \in [Devices -> Ledger]
    BY <1>6 DEF TypeOK
  <2>. QED BY <2>1, <2>2, <1>5, LedgerKeeps
<1>9. \A e \in Devices : ItemInv(e)'
  <2>1. "tracked" \in Steps
    BY DEF Steps
  <2>. QED BY <2>1, <1>1, <1>3, <1>5, WithinItem
<1>. QED BY <1>6, <1>7, <1>8, <1>9

\* A sealed receipt is one, though its serial number is a count.
LEMMA SealedIsReceipt ==
  ASSUME TypeOK, NEW d \in Devices, NEW id \in Ids
  PROVE  /\ Sealed(d, id) \in Receipt
         /\ Sealed(d, id).from = d /\ Sealed(d, id).item = id
         /\ IsFiniteSet(drawn \cup {Sealed(d, id)})
<1>. DEFINE own == {r \in drawn : r.from = d /\ r.item = id}
<1>1. IsFiniteSet(drawn)
  BY DEF TypeOK
<1>2. IsFiniteSet(own)
  BY <1>1, FS_Subset
<1>3. Cardinality(own) \in Nat
  BY <1>2, FS_CardinalityType
<1>4. 1 + Cardinality(own) \in Nat
  BY <1>3
<1>5. IsFiniteSet(drawn \cup {Sealed(d, id)})
  BY <1>1, FS_AddElement
<1>. QED BY <1>4, <1>5 DEF Sealed, Receipt

LEMMA QueueReceiptKeepsInv ==
  ASSUME DeliveryInv, NEW d \in Devices, QueueReceipt(d)
  PROVE  DeliveryInv'
<1>. USE DEF DeliveryInv
<1>. DEFINE r == Sealed(d, Current(d))
<1>1. /\ step[d] = "tracked" /\ step' = [step EXCEPT ![d] = "queued"] /\ Draw(d)
      /\ UNCHANGED <<feed, gone, receipts, lastSeq, posted, ledger, saved, at, snap,
                     answer, drafted, cli, kept, cancelled, wiped, restarts, faults>>
  BY DEF QueueReceipt, Goes, serverVars, userVars, budget
<1>2. /\ at[d] < Len(feed) /\ Current(d) \in kept[d] /\ Current(d) \in Ids
      /\ "queued" \in Steps
  BY <1>1, ItemFacts DEF ItemInv, Steps
<1>3. CASE Queued(d, Current(d)) # {}
  <2>1. drawn' = drawn /\ queue' = queue
    BY <1>1, <1>3 DEF Draw
  <2>2. Receipted(d, Current(d))
    BY <1>3 DEF Queued, ReceiptInv, Receipted
  <2>3. /\ UNCHANGED <<serverVars, diskVars, at, snap, answer, userVars, pastVars>>
        /\ restarts' \in Nat /\ faults' \in Nat
    BY <1>1, <2>1 DEF serverVars, diskVars, userVars, pastVars, TypeOK
  <2>. QED BY <1>1, <1>2, <2>2, <2>3, OnlyStepMoves
<1>4. CASE Queued(d, Current(d)) = {}
  <2>1. drawn' = drawn \cup {r} /\ queue' = [queue EXCEPT ![d] = queue[d] \cup {r}]
    BY <1>1, <1>4 DEF Draw
  <2>2. r \in Receipt /\ r.from = d /\ r.item = Current(d) /\ IsFiniteSet(drawn')
    BY <1>2, <2>1, SealedIsReceipt
  <2>. HIDE DEF r
  <2>3. Grows
    BY <1>1, <2>1 DEF Grows, TypeOK
  <2>4. TypeOK'
    BY <1>1, <2>1, <2>2 DEF TypeOK, Steps
  <2>5. ReceiptInv'
    <3>1. \A e \in Devices : queue[e] \subseteq queue'[e]
      BY <2>1 DEF TypeOK
    <3>2. r \in queue'[d]
      BY <2>1 DEF TypeOK
    <3>3. \A s \in drawn : s.from \in Devices
      BY DEF TypeOK, Receipt
    <3>4. \A e \in Devices : \A s \in queue'[e] : s \in drawn' /\ s.from = e
      BY <2>1, <2>2 DEF TypeOK, ReceiptInv
    <3>5. \A s \in drawn' : /\ s.item \in kept'[s.from]
                            /\ s \in queue'[s.from] \cup posted' \cup cancelled'
      BY <1>1, <1>2, <2>1, <2>2, <3>1, <3>2, <3>3 DEF ReceiptInv
    <3>. QED BY <1>1, <2>1, <3>4, <3>5 DEF ReceiptInv
  <2>6. LedgerInv'
    <3>1. ledger' \in [Devices -> Ledger] /\ snap' \in [Devices -> Ledger]
      BY <2>4 DEF TypeOK
    <3>. QED BY <3>1, <1>1, <2>3, LedgerKeeps
  <2>7. \A e \in Devices : ItemInv(e)'
    <3>1. Receipted(d, Current(d))'
      BY <1>1, <2>1, <2>2 DEF Receipted, Current
    <3>2. Current(d)' = Current(d)
      BY <1>1 DEF Current
    <3>. QED BY <3>1, <3>2, <1>1, <1>2, <2>3, WithinItem
  <2>. QED BY <2>4, <2>5, <2>6, <2>7
<1>. QED BY <1>3, <1>4

LEMMA NoteReceivedKeepsInv ==
  ASSUME DeliveryInv, NEW d \in Devices, NoteReceived(d)
  PROVE  DeliveryInv'
<1>. USE DEF DeliveryInv
<1>0. PICK i : i = Current(d)
  OBVIOUS
<1>. DEFINE c == <<i, d>>
            l == Confirm(snap[d], {c}, snap[d].cursor)
<1>1. /\ step[d] = "queued" /\ ledger' = [ledger EXCEPT ![d] = l]
      /\ step' = [step EXCEPT ![d] = "done"]
      /\ UNCHANGED <<feed, gone, receipts, lastSeq, posted, queue, saved, at, snap,
                     answer, drafted, cli, kept, drawn, cancelled, wiped, restarts, faults>>
  BY <1>0 DEF NoteReceived, Goes, serverVars, userVars, pastVars, budget
<1>2. /\ at[d] < Len(feed) /\ Current(d) \in kept[d] /\ Receipted(d, Current(d))
      /\ Current(d) \in Ids /\ "done" \in Steps
  BY <1>1, ItemFacts DEF ItemInv, Steps
<1>3. l \in Ledger /\ l.confirmed = snap[d].confirmed \cup {c}
  <2>1. snap[d] \in Ledger
    BY DEF TypeOK
  <2>. QED BY <2>1, <1>0, <1>2 DEF Confirm, Ledger
<1>4. Grows
  <2>1. Still
    BY <1>1 DEF Still
  <2>. QED BY <2>1, StillGrows
<1>. HIDE DEF l
<1>5. TypeOK'
  BY <1>1, <1>3 DEF TypeOK, Steps
<1>6. ReceiptInv'
  BY <1>1 DEF ReceiptInv
<1>7. LedgerInv'
  <2>1. ledger' \in [Devices -> Ledger] /\ snap' \in [Devices -> Ledger]
    BY <1>5 DEF TypeOK
  <2>2. \A e \in Devices : ledger'[e].confirmed \subseteq
          ledger[e].confirmed \cup snap[e].confirmed \cup {c}
    BY <1>1, <1>3 DEF TypeOK
  <2>3. c[1] \in kept'[c[2]] /\ Receipted(c[2], c[1])'
    BY <1>0, <1>1, <1>2 DEF Receipted
  <2>. QED BY <2>1, <2>2, <2>3, <1>1, <1>4, LedgerKeeps
<1>8. \A e \in Devices : ItemInv(e)'
  <2>1. Receipted(d, Current(d))'
    BY <1>1, <1>2 DEF Receipted, Current
  <2>2. Current(d)' = Current(d)
    BY <1>1 DEF Current
  <2>. QED BY <2>1, <2>2, <1>1, <1>2, <1>4, WithinItem
<1>. QED BY <1>5, <1>6, <1>7, <1>8

LEMMA DropReceiptsKeepsInv ==
  ASSUME DeliveryInv, NEW d \in Devices, DropReceipts(d)
  PROVE  DeliveryInv'
<1>. USE DEF DeliveryInv
<1>1. /\ at[d] < Len(feed) /\ Current(d) \in Clears
      /\ step' = [step EXCEPT ![d] = "emptied"] /\ "emptied" \in Steps
      /\ snap' = [snap EXCEPT ![d] = ledger[d]]
      /\ queue' = [queue EXCEPT ![d] = {}]
      /\ cancelled' = cancelled \cup queue[d]
      /\ wiped' = wiped \cup {d}
      /\ UNCHANGED <<feed, gone, receipts, lastSeq, posted, ledger, saved, at,
                     answer, drafted, cli, kept, drawn, restarts, faults>>
  BY DEF DropReceipts, AtItem, Goes, serverVars, userVars, budget, Steps
<1>2. Grows
  <2>1. Still
    BY <1>1 DEF Still
  <2>. QED BY <2>1, StillGrows
<1>3. TypeOK'
  BY <1>1 DEF TypeOK, Steps
<1>4. ReceiptInv'
  <2>1. \A e \in Devices : queue'[e] \subseteq queue[e] /\ queue[e] \subseteq queue'[e] \cup cancelled'
    BY <1>1 DEF TypeOK
  <2>2. \A r \in drawn : r.from \in Devices
    BY DEF TypeOK, Receipt
  <2>. QED BY <2>1, <2>2, <1>1 DEF ReceiptInv
<1>5. LedgerInv'
  <2>1. \A e \in Devices : snap'[e].confirmed \subseteq snap[e].confirmed \cup ledger[e].confirmed
    BY <1>1 DEF TypeOK
  <2>2. ledger' \in [Devices -> Ledger] /\ snap' \in [Devices -> Ledger]
    BY <1>3 DEF TypeOK
  <2>. QED BY <2>1, <2>2, <1>1, <1>2, LedgerKeeps
<1>6. \A e \in Devices : ItemInv(e)'
  BY <1>1, <1>2, WithinItem
<1>. QED BY <1>3, <1>4, <1>5, <1>6

LEMMA ClearLedgerKeepsInv ==
  ASSUME DeliveryInv, NEW d \in Devices, ClearLedger(d)
  PROVE  DeliveryInv'
<1>. USE DEF DeliveryInv
<1>. DEFINE l == [tracked |-> {}, confirmed |-> {}, cursor |-> snap[d].cursor]
<1>1. /\ step[d] = "emptied" /\ ledger' = [ledger EXCEPT ![d] = l]
      /\ step' = [step EXCEPT ![d] = "done"] /\ "done" \in Steps
      /\ UNCHANGED <<feed, gone, receipts, lastSeq, posted, queue, saved, at, snap,
                     answer, drafted, cli, kept, drawn, cancelled, wiped, restarts, faults>>
  BY DEF ClearLedger, Goes, serverVars, userVars, pastVars, budget, Steps
<1>2. at[d] < Len(feed) /\ Current(d) \in Clears
  BY <1>1 DEF ItemInv
<1>3. l \in Ledger /\ l.confirmed = {}
  BY DEF TypeOK, Ledger
<1>4. Grows
  <2>1. Still
    BY <1>1 DEF Still
  <2>. QED BY <2>1, StillGrows
<1>. HIDE DEF l
<1>5. TypeOK'
  BY <1>1, <1>3 DEF TypeOK
<1>6. ReceiptInv'
  BY <1>1 DEF ReceiptInv
<1>7. LedgerInv'
  <2>1. \A e \in Devices : ledger'[e].confirmed \subseteq ledger[e].confirmed
    BY <1>1, <1>3 DEF TypeOK
  <2>2. ledger' \in [Devices -> Ledger] /\ snap' \in [Devices -> Ledger]
    BY <1>5 DEF TypeOK
  <2>. QED BY <2>1, <2>2, <1>1, <1>4, LedgerKeeps
<1>8. \A e \in Devices : ItemInv(e)'
  BY <1>1, <1>2, <1>4, WithinItem
<1>. QED BY <1>5, <1>6, <1>7, <1>8
-----------------------------------------------------------------------------
(* The receipts, and restarts *)

LEMMA AskKeepsInv ==
  ASSUME DeliveryInv, NEW d \in Devices, Ask(d)
  PROVE  DeliveryInv'
<1>. USE DEF DeliveryInv
<1>. DEFINE page == Page(ledger[d].cursor)
<1>1. /\ snap' = [snap EXCEPT ![d] = ledger[d]]
      /\ answer' = [answer EXCEPT ![d] = page]
      /\ step' = [step EXCEPT ![d] = "asked"] /\ "asked" \in Steps
      /\ UNCHANGED <<feed, gone, receipts, lastSeq, posted, ledger, queue, saved, at,
                     drafted, cli, kept, drawn, cancelled, wiped, restarts, faults>>
  BY DEF Ask, Goes, serverVars, diskVars, userVars, pastVars, budget, Steps
<1>2. page \subseteq receipts
  BY DEF Page, Following
<1>. HIDE DEF page
<1>3. Grows
  <2>1. Still
    BY <1>1 DEF Still
  <2>. QED BY <2>1, StillGrows
<1>4. TypeOK'
  BY <1>1, <1>2 DEF TypeOK
<1>5. ReceiptInv'
  <2>1. \A e \in Devices : answer'[e] \subseteq answer[e] \cup receipts
    BY <1>1, <1>2 DEF TypeOK
  <2>. QED BY <2>1, <1>1 DEF ReceiptInv
<1>6. LedgerInv'
  <2>1. \A e \in Devices : snap'[e].confirmed \subseteq snap[e].confirmed \cup ledger[e].confirmed
    BY <1>1 DEF TypeOK
  <2>2. ledger' \in [Devices -> Ledger] /\ snap' \in [Devices -> Ledger]
    BY <1>4 DEF TypeOK
  <2>. QED BY <2>1, <2>2, <1>1, <1>3, LedgerKeeps
<1>7. \A e \in Devices : ItemInv(e)'
  BY <1>1, <1>3, WithinItem
<1>. QED BY <1>4, <1>5, <1>6, <1>7

LEMMA AcceptKeepsInv ==
  ASSUME DeliveryInv, NEW d \in Devices, Accept(d)
  PROVE  DeliveryInv'
<1>. USE DEF DeliveryInv
<1>. DEFINE seqs == {snap[d].cursor} \cup {row.seq : row \in answer[d]}
            new == Confirmations(snap[d], answer[d])
            l == Confirm(snap[d], new, Max(seqs))
<1>1. /\ ledger' = [ledger EXCEPT ![d] = l]
      /\ step' = [step EXCEPT ![d] = "posting"] /\ "posting" \in Steps
      /\ UNCHANGED <<feed, gone, receipts, lastSeq, posted, queue, saved, at, snap,
                     answer, drafted, cli, kept, drawn, cancelled, wiped, restarts, faults>>
  BY DEF Accept, Goes, serverVars, userVars, pastVars, budget, Steps
<1>2. snap[d] \in Ledger /\ snap[d].cursor \in Nat /\ lastSeq \in Nat
      /\ answer[d] \subseteq Row
  BY DEF TypeOK, Ledger
<1>3. Max(seqs) \in Nat
  <2>1. seqs \in SUBSET Nat /\ seqs # {}
    BY <1>2 DEF Row
  <2>2. \A x \in seqs : x <= snap[d].cursor + lastSeq
    <3>1. \A row \in answer[d] : row.seq \in Nat /\ row.seq <= lastSeq
      BY <1>2 DEF ReceiptInv, Row
    <3>. QED BY <3>1, <1>2
  <2>3. snap[d].cursor + lastSeq \in Nat
    BY <1>2
  <2>. HIDE DEF seqs
  <2>. QED BY <2>1, <2>2, <2>3, MaxOfBounded
<1>4. \A c \in new : c \in Ids \X Devices /\ c[1] \in kept[c[2]] /\ Receipted(c[2], c[1])
  <2>. SUFFICES ASSUME NEW row \in answer[d]
                PROVE  /\ row.receipt \in Receipt
                       /\ row.receipt.item \in kept[row.receipt.from]
                       /\ Receipted(row.receipt.from, row.receipt.item)
    BY DEF Confirmations, Receipt
  <2>1. row.receipt \in drawn
    BY DEF ReceiptInv
  <2>. QED BY <2>1 DEF ReceiptInv, Receipted, TypeOK
<1>. HIDE DEF seqs, new
<1>5. l \in Ledger /\ l.confirmed = snap[d].confirmed \cup new
  BY <1>2, <1>3, <1>4 DEF Confirm, Ledger
<1>6. Grows
  <2>1. Still
    BY <1>1 DEF Still
  <2>. QED BY <2>1, StillGrows
<1>. HIDE DEF l
<1>7. TypeOK'
  BY <1>1, <1>5 DEF TypeOK
<1>8. ReceiptInv'
  BY <1>1 DEF ReceiptInv
<1>9. LedgerInv'
  <2>1. ledger' \in [Devices -> Ledger] /\ snap' \in [Devices -> Ledger]
    BY <1>7 DEF TypeOK
  <2>. SUFFICES ASSUME NEW e \in Devices,
                       NEW c \in ledger'[e].confirmed \cup snap'[e].confirmed
                PROVE  c[1] \in kept[c[2]] /\ Receipted(c[2], c[1])
    BY <1>1 DEF LedgerInv, Receipted
  <2>2. \/ c \in new
        \/ \E f \in Devices : c \in ledger[f].confirmed \cup snap[f].confirmed
    BY <1>1, <1>5 DEF TypeOK
  <2>. QED BY <2>2, <1>4 DEF LedgerInv
<1>10. \A e \in Devices : ItemInv(e)'
  BY <1>1, <1>6, WithinItem
<1>. QED BY <1>7, <1>8, <1>9, <1>10

\* The rows after a receipt has come in: the ones there were, and its own.
LEMMA AddReceiptRows ==
  ASSUME TypeOK, NEW r, AddReceipt(r)
  PROVE  /\ lastSeq' \in Nat /\ lastSeq <= lastSeq'
         /\ \A row \in receipts' \ receipts : row = [seq |-> lastSeq', receipt |-> r]
         /\ \A row \in receipts' \ receipts : lastSeq' \in Nat \ {0}
<1>1. lastSeq \in Nat
  BY DEF TypeOK
<1>2. CASE \E row \in receipts : row.receipt = r
  BY <1>1, <1>2 DEF AddReceipt
<1>3. CASE ~ \E row \in receipts : row.receipt = r
  <2>1. lastSeq' = lastSeq + 1
    BY <1>3 DEF AddReceipt
  <2>2. receipts' \subseteq receipts \cup {[seq |-> lastSeq + 1, receipt |-> r]}
    BY <1>3 DEF AddReceipt
  <2>. QED BY <1>1, <2>1, <2>2
<1>. QED BY <1>2, <1>3

\* A receipt of the outbox is stored or not, and its file removed at most when
\* it is.
LEMMA PostingKeepsInv ==
  ASSUME DeliveryInv, NEW d \in Devices, NEW r \in queue[d], NEW to \in Steps,
         to \in {"ask", "posting"},
         \/ UNCHANGED <<receipts, lastSeq, posted, queue>>
         \/ /\ AddReceipt(r) /\ posted' = posted \cup {r}
            /\ \/ queue' = queue
               \/ queue' = [queue EXCEPT ![d] = queue[d] \ {r}],
         step' = [step EXCEPT ![d] = to],
         UNCHANGED <<feed, gone, ledger, saved, at, snap, answer, userVars, pastVars>>,
         restarts' \in Nat, faults' \in Nat
  PROVE  DeliveryInv'
<1>. USE DEF DeliveryInv
<1>1. /\ UNCHANGED <<feed, gone, ledger, saved, at, snap, answer, drafted, cli, kept, drawn,
                     cancelled, wiped>>
      /\ r \in drawn /\ r \in Receipt /\ r.from = d
  BY DEF userVars, pastVars, ReceiptInv, TypeOK
<1>2. Grows
  <2>1. Still
    BY <1>1 DEF Still
  <2>. QED BY <2>1, StillGrows
<1>3. /\ posted \subseteq posted' /\ posted' \subseteq posted \cup {r}
      /\ \A e \in Devices : queue'[e] \subseteq queue[e]
      /\ \A e \in Devices : \A s \in queue[e] : s \in queue'[e] \cup posted'
      /\ queue' \in [Devices -> SUBSET Receipt]
  BY DEF TypeOK
<1>4. /\ lastSeq' \in Nat /\ lastSeq <= lastSeq'
      /\ \A row \in receipts' \ receipts :
           row \in Row /\ row.receipt = r /\ row.seq <= lastSeq' /\ r \in posted'
  <2>1. CASE UNCHANGED <<receipts, lastSeq, posted, queue>>
    BY <2>1 DEF TypeOK
  <2>2. CASE AddReceipt(r) /\ posted' = posted \cup {r}
    <3>1. /\ lastSeq' \in Nat /\ lastSeq <= lastSeq'
          /\ \A row \in receipts' \ receipts : row = [seq |-> lastSeq', receipt |-> r]
          /\ \A row \in receipts' \ receipts : lastSeq' \in Nat \ {0}
      BY <2>2, AddReceiptRows
    <3>. QED BY <2>2, <3>1, <1>1 DEF Row
  <2>. QED BY <2>1, <2>2
<1>5. TypeOK'
  <2>1. receipts' \subseteq Row /\ posted' \subseteq Receipt
    BY <1>1, <1>3, <1>4 DEF TypeOK
  <2>. QED BY <2>1, <1>1, <1>3, <1>4 DEF TypeOK
<1>6. ReceiptInv'
  <2>1. posted' \subseteq drawn'
    BY <1>1, <1>3 DEF ReceiptInv
  <2>2. \A s \in drawn' : /\ s.item \in kept'[s.from]
                          /\ s \in queue'[s.from] \cup posted' \cup cancelled'
    <3>1. \A s \in drawn : s.from \in Devices
      BY DEF TypeOK, Receipt
    <3>. QED BY <3>1, <1>1, <1>3 DEF ReceiptInv
  <2>3. \A e \in Devices : \A s \in queue'[e] : s \in drawn' /\ s.from = e
    BY <1>1, <1>3 DEF ReceiptInv
  <2>4. \A e \in Devices : \A row \in receipts' \cup answer'[e] :
          row.receipt \in posted' /\ row.seq <= lastSeq'
    <3>. SUFFICES ASSUME NEW e \in Devices, NEW row \in receipts' \cup answer'[e]
                  PROVE  row.receipt \in posted' /\ row.seq <= lastSeq'
      OBVIOUS
    <3>1. CASE row \in receipts' \ receipts
      BY <3>1, <1>4
    <3>2. CASE row \in receipts \cup answer[e]
      <4>1. row.receipt \in posted /\ row.seq <= lastSeq /\ row.seq \in Nat
        BY <3>2 DEF ReceiptInv, TypeOK, Row
      <4>2. lastSeq \in Nat
        BY DEF TypeOK
      <4>. QED BY <4>1, <4>2, <1>3, <1>4
    <3>. QED BY <3>1, <3>2, <1>1
  <2>. QED BY <2>1, <2>2, <2>3, <2>4 DEF ReceiptInv
<1>7. LedgerInv'
  BY <1>1 DEF LedgerInv, Receipted
<1>8. \A e \in Devices : ItemInv(e)'
  BY <1>1, <1>2, WithinItem
<1>. QED BY <1>5, <1>6, <1>7, <1>8

LEMMA PostReceiptKeepsInv ==
  ASSUME DeliveryInv, NEW d \in Devices, NEW r \in queue[d], PostReceipt(d, r)
  PROVE  DeliveryInv'
<1>1. /\ AddReceipt(r) /\ posted' = posted \cup {r}
      /\ queue' = [queue EXCEPT ![d] = queue[d] \ {r}]
      /\ UNCHANGED <<feed, gone, ledger, saved, at, snap, answer, userVars, pastVars>>
      /\ step' = step
  BY DEF PostReceipt, AfterPost, memoryVars
<1>2. restarts' \in Nat /\ faults' \in Nat
  BY StepForms DEF PostReceipt, budget
<1>3. step' = [step EXCEPT ![d] = "posting"] /\ "posting" \in Steps
  BY <1>1 DEF PostReceipt, DeliveryInv, TypeOK, Steps
<1>. QED BY <1>1, <1>2, <1>3, PostingKeepsInv

LEMMA PostFailsKeepsInv ==
  ASSUME DeliveryInv, NEW d \in Devices, NEW r \in queue[d], PostFails(d, r)
  PROVE  DeliveryInv'
<1>1. /\ \/ UNCHANGED <<receipts, lastSeq, posted>>
         \/ AddReceipt(r) /\ posted' = posted \cup {r}
      /\ queue' = [queue EXCEPT ![d] = queue[d]]
      /\ step' = [step EXCEPT ![d] = "ask"] /\ "ask" \in Steps
      /\ UNCHANGED <<feed, gone, ledger, saved, at, snap, answer, userVars, pastVars>>
  BY DEF PostFails, AfterPost, Goes, Steps
<1>2. restarts' \in Nat /\ faults' \in Nat
  BY StepForms DEF PostFails, OneFault
<1>3. queue' = queue
  BY <1>1 DEF DeliveryInv, TypeOK
<1>. QED BY <1>1, <1>2, <1>3, PostingKeepsInv

LEMMA RestartKeepsInv ==
  ASSUME DeliveryInv, NEW d \in Devices, Restart(d)
  PROVE  DeliveryInv'
<1>. USE DEF DeliveryInv
<1>1. /\ at' = [at EXCEPT ![d] = saved[d]] /\ saved' = saved
      /\ snap' = [snap EXCEPT ![d] = NoLedger]
      /\ answer' = [answer EXCEPT ![d] = {}]
      /\ step' = [step EXCEPT ![d] = "ask"] /\ "ask" \in Steps
      /\ UNCHANGED <<feed, gone, receipts, lastSeq, posted, ledger, queue, drafted,
                     cli, kept, drawn, cancelled, wiped, faults>>
      /\ restarts' = restarts + 1
  BY DEF Restart, Goes, serverVars, diskVars, userVars, pastVars, Steps
<1>2. Grows
  <2>1. Still
    BY <1>1 DEF Still
  <2>. QED BY <2>1, StillGrows
<1>3. TypeOK'
  BY <1>1 DEF TypeOK, NoLedger, Ledger
<1>4. ReceiptInv'
  <2>1. \A e \in Devices : answer'[e] \subseteq answer[e]
    BY <1>1 DEF TypeOK
  <2>. QED BY <2>1, <1>1 DEF ReceiptInv
<1>5. LedgerInv'
  <2>1. \A e \in Devices : snap'[e].confirmed \subseteq snap[e].confirmed
    BY <1>1 DEF TypeOK, NoLedger
  <2>2. ledger' \in [Devices -> Ledger] /\ snap' \in [Devices -> Ledger]
    BY <1>3 DEF TypeOK
  <2>. QED BY <2>1, <2>2, <1>1, <1>2, LedgerKeeps
<1>6. ItemInv(d)'
  <2>1. at'[d] = saved[d] /\ saved'[d] = saved[d] /\ step'[d] = "ask"
    BY <1>1 DEF TypeOK
  <2>2. \A n \in 1..saved[d] : Owed(d, n) => Receipted(d, feed[n])
    BY ItemFacts
  <2>3. \A n \in 1..at'[d] : Owed(d, n)' => Receipted(d, feed[n])'
    BY <1>1, <2>1, <2>2 DEF Owed, Receipted
  <2>. QED BY <2>1, <2>3, <1>1, ItemFacts DEF ItemInv
<1>7. \A e \in Devices : ItemInv(e)'
  <2>1. saved' = [saved EXCEPT ![d] = saved[d]] /\ saved[d] \in Nat
    BY <1>1, StepForms, ItemFacts
  <2>. QED BY <2>1, <1>1, <1>2, <1>6, OneDeviceMoves
<1>. QED BY <1>3, <1>4, <1>5, <1>7
-----------------------------------------------------------------------------
LEMMA NextKeepsDeliveryInv == DeliveryInv /\ [Next]_vars => DeliveryInv'
<1>. SUFFICES ASSUME DeliveryInv, [Next]_vars PROVE DeliveryInv'
  OBVIOUS
<1>1. CASE UNCHANGED vars
  <2>1. UNCHANGED <<feed, gone, receipts, lastSeq, posted, ledger, queue, saved, at, step,
                    snap, answer, drafted, cli, kept, drawn, cancelled, wiped,
                    restarts, faults>>
    BY <1>1 DEF vars, serverVars, diskVars, memoryVars, userVars, pastVars, budget
  <2>2. TypeOK'
    BY <2>1 DEF DeliveryInv, TypeOK
  <2>3. ReceiptInv' /\ LedgerInv'
    BY <2>1 DEF DeliveryInv, ReceiptInv, LedgerInv, Receipted
  <2>4. \A d \in Devices : ItemInv(d)'
    BY <2>1 DEF DeliveryInv, ItemInv, Owed, Receipted, Current
  <2>. QED BY <2>2, <2>3, <2>4 DEF DeliveryInv
<1>2. ASSUME NEW d \in Devices, Receives(d) PROVE DeliveryInv'
  BY <1>2, SkipKeepsInv, KeepKeepsInv, TrackReceivedKeepsInv, QueueReceiptKeepsInv,
     AlreadyNotedKeepsInv, NoteReceivedKeepsInv, DropReceiptsKeepsInv,
     ClearLedgerKeepsInv, MoveOnKeepsInv, SaveCursorKeepsInv, ZenonT(60) DEF Receives
<1>3. ASSUME NEW d \in Devices, Syncs(d) PROVE DeliveryInv'
  BY <1>3, AskKeepsInv, AcceptKeepsInv, FailureKeepsInv, PostReceiptKeepsInv,
     ZenonT(60) DEF Syncs
<1>4. CASE Next
  BY <1>2, <1>3, <1>4, TrackOwnKeepsInv, PostItemKeepsInv, CliWipesKeepsInv,
     CliDeletesKeepsInv, FailureKeepsInv, PostFailsKeepsInv, RestartKeepsInv,
     ZenonT(60) DEF Next
<1>. QED BY <1>1, <1>4

\* Whatever is stopped, lost, repeated or cleared, at any place of any device's
\* handling of an item: receipts are only made out for what is kept, and each
\* is in an outbox, at the server or cancelled by a clear.
THEOREM DeliveryInvariant == Spec => []DeliveryInv
<1>1. Init => DeliveryInv
  BY InitDeliveryInv
<1>2. DeliveryInv /\ [Next]_vars => DeliveryInv'
  BY NextKeepsDeliveryInv
<1>. QED BY <1>1, <1>2, PTL DEF Spec

\* No ledger on any device lists a device as having an item it did not save.
THEOREM OnlyKeptIsConfirmed == Spec => []ConfirmedWasKept
<1>1. DeliveryInv => ConfirmedWasKept
  BY DEF DeliveryInv, LedgerInv, ConfirmedWasKept
<1>. QED BY <1>1, DeliveryInvariant, PTL

\* The item cursor on disk never passes an item whose confirmation is lost.
THEOREM CursorAfterReceipt == Spec => []ReceiptBeforeCursor
<1>1. DeliveryInv => ReceiptBeforeCursor
  <2>. SUFFICES ASSUME DeliveryInv, NEW d \in Devices, NEW n \in 1..saved[d], Owed(d, n)
                PROVE  \E r \in drawn : /\ r.from = d /\ r.item = feed[n]
                                        /\ r \in queue[d] \cup posted \cup cancelled
    BY DEF ReceiptBeforeCursor
  <2>1. n \in 1..at[d]
    BY ItemFacts
  <2>2. PICK r \in drawn : r.from = d /\ r.item = feed[n]
    BY <2>1, ItemFacts DEF Receipted
  <2>. QED BY <2>2 DEF DeliveryInv, ReceiptInv
<1>. QED BY <1>1, DeliveryInvariant, PTL

-----------------------------------------------------------------------------
(* One receipt for an item *)

Within == {"kept", "tracked", "queued"}

\* A receipt that was made out is noted in the ledger, or still queued for the
\* item that comes next, or its item is gone from the server.
Settled(d, r) ==
  \/ <<r.item, d>> \in ledger[d].confirmed
  \/ \E n \in 1..gone : feed[n] = r.item /\ ~ (step[d] \in Within /\ n = at[d] + 1)
  \/ /\ r \in queue[d] /\ at[d] < Len(feed) /\ r.item = Current(d)
     /\ step[d] \in Within \cup {"ask"}

\* The receiving thread works on the ledger as it is on disk, which keeps what
\* it noted, and every receipt is settled.
OnceInv(d) ==
  /\ at[d] = IF step[d] = "moved" THEN saved[d] + 1 ELSE saved[d]
  /\ step[d] \in {"tracked", "queued", "asked"} => snap[d] = ledger[d]
  /\ step[d] = "queued" => Current(d) \in ledger[d].tracked
  /\ step[d] # "emptied"
  /\ \A c \in ledger[d].confirmed : c[1] \in ledger[d].tracked
  /\ step[d] \in Within => Author[Current(d)] # d
  /\ \A r \in drawn : r.from = d => Author[r.item] # d /\ Settled(d, r)
  /\ \A r, s \in drawn : r.from = d /\ s.from = d /\ r.item = s.item => r = s

\* What ends it: a clear, a call that fails, a ledger that is full.
Calm(d) == d \notin wiped /\ Cardinality(Ids) <= MaxLedger /\ faults = 0

\* The server has an item at one place only.
PlacesInv == \A m, n \in 1..Len(feed) : feed[m] = feed[n] => m = n

EachInv == PlacesInv /\ \A d \in Devices : Calm(d) => OnceInv(d)

\* A ledger with room for every item drops nothing.
LEMMA TrackAdds ==
  ASSUME NEW l \in Ledger, NEW id \in Ids, Cardinality(Ids) <= MaxLedger,
         \A c \in l.confirmed : c[1] \in l.tracked
  PROVE  /\ Track(l, id).confirmed = l.confirmed
         /\ l.tracked \subseteq Track(l, id).tracked
         /\ id \notin Clears => id \in Track(l, id).tracked
<1>. DEFINE all == l.tracked \cup {id}
<1>1. all \subseteq Ids
  BY DEF Ledger
<1>2. ASSUME NEW i \in all PROVE i \in Newest(all)
  <2>. DEFINE newer == {j \in all : Created[j] > Created[i]}
  <2>1. newer \subseteq Ids /\ newer # Ids
    <3>1. i \in Ids /\ i \notin newer
      BY <1>1, DeliveryAssumption DEF DeliveryAssumption
    <3>. QED BY <1>1, <3>1
  <2>2. /\ IsFiniteSet(Ids) /\ MaxLedger \in Nat
        /\ Cardinality(newer) \in Nat /\ Cardinality(Ids) \in Nat
        /\ Cardinality(newer) < Cardinality(Ids)
    <3>1. IsFiniteSet(Ids) /\ MaxLedger \in Nat
      BY DeliveryAssumption DEF DeliveryAssumption
    <3>. HIDE DEF newer
    <3>2. Cardinality(newer) <= Cardinality(Ids) /\ Cardinality(newer) # Cardinality(Ids)
      BY <2>1, <3>1, FS_Subset
    <3>3. IsFiniteSet(newer)
      BY <2>1, <3>1, FS_Subset
    <3>. QED BY <3>1, <3>2, <3>3, FS_CardinalityType
  <2>. HIDE DEF newer
  <2>3. Cardinality(newer) < MaxLedger
    BY <2>2
  <2>. QED BY <2>3 DEF Newest, newer
<1>3. Newest(all) = all
  BY <1>2 DEF Newest
<1>4. CASE id \in Clears \cup l.tracked
  BY <1>4 DEF Track
<1>5. CASE id \notin Clears \cup l.tracked
  <2>1. Track(l, id) = [tracked |-> all, confirmed |-> {c \in l.confirmed : c[1] \in all},
                        cursor |-> l.cursor]
    BY <1>3, <1>5 DEF Track
  <2>. QED BY <2>1
<1>. QED BY <1>4, <1>5

\* A device's receipts and place stay while the server's feed grows.
LEMMA OnceStays ==
  ASSUME DeliveryInv, NEW d \in Devices, OnceInv(d), Grows,
         gone' <= Len(feed'), gone' \in Nat,
         saved'[d] = saved[d], at'[d] = at[d], step'[d] = step[d], snap'[d] = snap[d],
         ledger'[d] = ledger[d], queue'[d] = queue[d],
         \A r \in drawn' : r.from = d => r \in drawn
  PROVE  OnceInv(d)'
<1>1. /\ gone \in Nat /\ gone <= Len(feed) /\ Len(feed) \in Nat /\ Len(feed') \in Nat
      /\ at[d] \in Nat /\ gone <= gone' /\ Len(feed) <= Len(feed')
      /\ \A n \in 1..gone : feed'[n] = feed[n]
      /\ at[d] < Len(feed) => Current(d)' = Current(d)
  <2>1. /\ gone \in Nat /\ gone <= Len(feed) /\ Len(feed) \in Nat /\ at[d] \in Nat
        /\ Len(feed') \in Nat /\ gone <= gone' /\ Len(feed) <= Len(feed')
        /\ \A n \in 1..Len(feed) : feed'[n] = feed[n]
    BY DEF Grows, DeliveryInv, TypeOK
  <2>2. \A n \in 1..gone : feed'[n] = feed[n]
    BY <2>1
  <2>3. at[d] < Len(feed) => at[d] + 1 \in 1..Len(feed)
    BY <2>1
  <2>. QED BY <2>1, <2>2, <2>3 DEF Current
<1>2. step[d] \in Within => at[d] < Len(feed)
  BY DEF Within, DeliveryInv, ItemInv
<1>3. \A r \in drawn : Settled(d, r) => Settled(d, r)'
  BY <1>1 DEF Settled
<1>. QED BY <1>1, <1>2, <1>3 DEF OnceInv, Within

LEMMA CalmBefore ==
  ASSUME DeliveryInv, NEW d \in Devices, Calm(d)', wiped \subseteq wiped',
         faults' = faults \/ faults' = faults + 1
  PROVE  Calm(d) /\ faults' = faults
BY DEF Calm, DeliveryInv, TypeOK

\* One device's step, the feed and the other devices' receipts being as they were.
LEMMA OneConfirms ==
  ASSUME DeliveryInv, EachInv, NEW d \in Devices, UNCHANGED <<feed, gone>>,
         \A e \in Devices : kept[e] \subseteq kept'[e],
         drawn \subseteq drawn', \A r \in drawn' \ drawn : r.from = d,
         wiped \subseteq wiped', faults' = faults \/ faults' = faults + 1,
         \A e \in Devices \ {d} :
           /\ saved'[e] = saved[e] /\ at'[e] = at[e] /\ step'[e] = step[e]
           /\ snap'[e] = snap[e] /\ ledger'[e] = ledger[e] /\ queue'[e] = queue[e],
         Calm(d)' /\ OnceInv(d) => OnceInv(d)'
  PROVE  EachInv'
<1>1. Grows /\ gone' <= Len(feed') /\ gone' \in Nat
  BY DEF Grows, DeliveryInv, TypeOK
<1>2. PlacesInv'
  BY DEF EachInv, PlacesInv
<1>3. ASSUME NEW e \in Devices, Calm(e)' PROVE OnceInv(e)'
  <2>1. OnceInv(e)
    BY <1>3, CalmBefore DEF EachInv
  <2>2. CASE e = d
    BY <1>3, <2>1, <2>2
  <2>3. CASE e # d
    BY <1>1, <2>1, <2>3, OnceStays
  <2>. QED BY <2>2, <2>3
<1>. QED BY <1>2, <1>3 DEF EachInv

\* What a step of the receiving thread does to the place, if to nothing else.
LEMMA PlaceKeepsOnce ==
  ASSUME DeliveryInv, EachInv, NEW d \in Devices,
         \/ Skip(d) \/ Keep(d) \/ AlreadyNoted(d) \/ MoveOn(d) \/ SaveCursor(d)
         \/ Ask(d) \/ PostsDone(d) \/ ItemFails(d) \/ Restart(d)
  PROVE  EachInv'
<1>1. /\ UNCHANGED <<feed, gone, ledger, queue, drawn, wiped>>
      /\ \A e \in Devices : kept[e] \subseteq kept'[e]
      /\ faults' = faults \/ faults' = faults + 1
      /\ \A e \in Devices \ {d} :
           /\ saved'[e] = saved[e] /\ at'[e] = at[e] /\ step'[e] = step[e]
           /\ snap'[e] = snap[e]
  <2>1. /\ UNCHANGED <<feed, gone, ledger, queue, drawn, wiped>>
        /\ faults' = faults \/ faults' = faults + 1
    BY DEF Skip, Keep, AlreadyNoted, MoveOn, SaveCursor, Ask, PostsDone, ItemFails, Restart,
           OneFault, serverVars, diskVars, pastVars, budget
  <2>2. kept' = kept \/ kept' = [kept EXCEPT ![d] = @ \cup {Current(d)}]
    BY DEF Skip, Keep, AlreadyNoted, MoveOn, SaveCursor, Ask, PostsDone, ItemFails, Restart,
           pastVars
  <2>3. /\ at' = at \/ \E x : at' = [at EXCEPT ![d] = x]
        /\ saved' = saved \/ \E x : saved' = [saved EXCEPT ![d] = x]
        /\ snap' = snap \/ \E x : snap' = [snap EXCEPT ![d] = x]
        /\ \E x : step' = [step EXCEPT ![d] = x]
    BY DEF Skip, Keep, AlreadyNoted, MoveOn, SaveCursor, Ask, PostsDone, ItemFails, Restart,
           Goes, diskVars
  <2>4. \A e \in Devices : kept[e] \subseteq kept'[e]
    BY <2>2 DEF DeliveryInv, TypeOK
  <2>5. \A e \in Devices \ {d} : at'[e] = at[e] /\ saved'[e] = saved[e]
    BY <2>3 DEF DeliveryInv, TypeOK
  <2>6. \A e \in Devices \ {d} : snap'[e] = snap[e] /\ step'[e] = step[e]
    BY <2>3 DEF DeliveryInv, TypeOK
  <2>. QED BY <2>1, <2>4, <2>5, <2>6
<1>2. ASSUME Calm(d)', OnceInv(d) PROVE OnceInv(d)'
  <2>1. /\ at[d] \in Nat /\ saved[d] \in Nat /\ Len(feed) \in Nat /\ gone \in Nat
        /\ gone <= Len(feed)
        /\ faults' = faults
    BY <1>1, <1>2, CalmBefore DEF DeliveryInv, TypeOK
  <2>2. /\ \A r \in drawn : r.from = d => Author[r.item] # d /\ Settled(d, r)
        /\ \A r, s \in drawn : r.from = d /\ s.from = d /\ r.item = s.item => r = s
        /\ \A c \in ledger[d].confirmed : c[1] \in ledger[d].tracked
    BY <1>2 DEF OnceInv
  <2>3. ASSUME at'[d] = at[d], step[d] \in Within \cup {"ask"} => step'[d] \in Within \cup {"ask"},
               step'[d] \in Within => step[d] \in Within \/ gone <= at[d]
        PROVE  \A r \in drawn : r.from = d => Settled(d, r)'
    BY <1>1, <2>1, <2>2, <2>3 DEF Settled, Current
  <2>4. CASE Skip(d)
    <3>1. /\ step[d] = "ask" /\ step'[d] = "moved" /\ at'[d] = at[d] + 1 /\ saved'[d] = saved[d]
          /\ at[d] < Len(feed) /\ (at[d] < gone \/ Author[Current(d)] = d)
      BY <2>1, <2>4 DEF Skip, AtItem, Offered, Goes, diskVars, DeliveryInv, TypeOK
    <3>2. ASSUME NEW r \in drawn, r.from = d PROVE Settled(d, r)'
      <4>1. at[d] < gone => at[d] + 1 \in 1..gone
        BY <2>1
      <4>. QED BY <1>1, <2>2, <3>1, <3>2, <4>1 DEF Settled, Current, Within
    <3>. QED BY <1>1, <1>2, <2>2, <3>1, <3>2 DEF OnceInv, Within
  <2>5. CASE Keep(d)
    <3>1. /\ step[d] = "ask" /\ step'[d] = "kept" /\ at'[d] = at[d] /\ saved'[d] = saved[d]
          /\ at[d] >= gone /\ Author[Current(d)] # d
      BY <2>5 DEF Keep, AtItem, Offered, Goes, diskVars, DeliveryInv, TypeOK
    <3>. QED BY <1>1, <1>2, <2>1, <2>2, <2>3, <3>1 DEF OnceInv, Within, Current
  <2>6. CASE AlreadyNoted(d)
    <3>1. /\ step[d] = "tracked" /\ step'[d] = "done" /\ at'[d] = at[d] /\ saved'[d] = saved[d]
          /\ <<Current(d), d>> \in ledger[d].confirmed
      BY <1>2, <2>6 DEF AlreadyNoted, Goes, diskVars, DeliveryInv, TypeOK, OnceInv
    <3>2. \A r \in drawn : r.from = d => Settled(d, r)'
      BY <1>1, <2>1, <2>2, <3>1 DEF Settled, Within
    <3>. QED BY <1>1, <1>2, <2>2, <3>1, <3>2 DEF OnceInv, Within
  <2>7. CASE MoveOn(d)
    <3>1. /\ step[d] = "done" /\ step'[d] = "moved" /\ at'[d] = at[d] + 1
          /\ saved'[d] = saved[d]
      BY <2>7 DEF MoveOn, Goes, diskVars, DeliveryInv, TypeOK
    <3>2. \A r \in drawn : r.from = d => Settled(d, r)'
      BY <1>1, <2>1, <2>2, <3>1 DEF Settled, Within
    <3>. QED BY <1>1, <1>2, <2>2, <3>1, <3>2 DEF OnceInv, Within
  <2>8. CASE SaveCursor(d)
    <3>1. /\ step[d] = "moved" /\ step'[d] = "sync" /\ at'[d] = at[d] /\ saved'[d] = at[d]
      BY <2>8 DEF SaveCursor, Goes, DeliveryInv, TypeOK
    <3>2. \A r \in drawn : r.from = d => Settled(d, r)'
      BY <1>1, <2>1, <2>2, <3>1 DEF Settled, Within
    <3>. QED BY <1>1, <1>2, <2>2, <3>1, <3>2 DEF OnceInv, Within
  <2>9. CASE Ask(d)
    <3>1. /\ step[d] = "sync" \/ (step[d] = "ask" /\ at[d] = Len(feed))
          /\ step'[d] = "asked" /\ at'[d] = at[d] /\ saved'[d] = saved[d]
          /\ snap'[d] = ledger[d]
      BY <2>9 DEF Ask, Goes, diskVars, DeliveryInv, TypeOK
    <3>2. \A r \in drawn : r.from = d => Settled(d, r)'
      BY <1>1, <2>1, <2>2, <3>1 DEF Settled, Within
    <3>. QED BY <1>1, <1>2, <2>2, <3>1, <3>2 DEF OnceInv, Within
  <2>10. CASE PostsDone(d)
    <3>1. /\ step[d] = "posting" /\ step'[d] = "ask" /\ at'[d] = at[d] /\ saved'[d] = saved[d]
      BY <2>10 DEF PostsDone, Goes, diskVars, DeliveryInv, TypeOK
    <3>. QED BY <1>1, <1>2, <2>1, <2>2, <2>3, <3>1 DEF OnceInv, Within
  <2>11. CASE ItemFails(d)
    <3>1. /\ step[d] = "tracked" /\ step'[d] = "ask" /\ at'[d] = at[d] /\ saved'[d] = saved[d]
      <4>1. faults' # faults + 1
        BY <2>1 DEF DeliveryInv, TypeOK
      <4>. QED BY <2>11, <4>1 DEF ItemFails, OneFault, Goes, diskVars, DeliveryInv, TypeOK
    <3>. QED BY <1>1, <1>2, <2>1, <2>2, <2>3, <3>1 DEF OnceInv, Within
  <2>12. CASE Restart(d)
    <3>1. /\ step'[d] = "ask" /\ at'[d] = saved[d] /\ saved'[d] = saved[d]
      BY <2>12 DEF Restart, Goes, diskVars, DeliveryInv, TypeOK
    <3>2. step[d] # "moved" => at'[d] = at[d]
      BY <1>2, <3>1 DEF OnceInv
    <3>3. \A r \in drawn : r.from = d => Settled(d, r)'
      BY <1>1, <2>1, <2>2, <3>1, <3>2 DEF Settled, Within, Current
    <3>. QED BY <1>1, <1>2, <2>2, <3>1, <3>3 DEF OnceInv, Within
  <2>. QED BY <2>4, <2>5, <2>6, <2>7, <2>8, <2>9, <2>10, <2>11, <2>12
<1>. QED BY <1>1, <1>2, OneConfirms

LEMMA TrackReceivedKeepsOnce ==
  ASSUME DeliveryInv, EachInv, NEW d \in Devices, TrackReceived(d)
  PROVE  EachInv'
<1>. DEFINE l == Track(ledger[d], Current(d))
<1>1. /\ step[d] = "kept" /\ ledger' = [ledger EXCEPT ![d] = l]
      /\ step' = [step EXCEPT ![d] = "tracked"]
      /\ UNCHANGED <<feed, gone, queue, saved, at, kept, drawn, wiped, faults>>
  BY DEF TrackReceived, Goes, serverVars, pastVars, budget
<1>2. snap' = [snap EXCEPT ![d] = l]
  <2>1. ledger'[d] = l
    BY <1>1 DEF DeliveryInv, TypeOK
  <2>. QED BY <2>1 DEF TrackReceived
<1>3. ledger[d] \in Ledger /\ at[d] < Len(feed) /\ Current(d) \in Ids
  BY <1>1, ItemFacts DEF DeliveryInv, TypeOK, ItemInv
<1>4. /\ ledger'[d] = l /\ snap'[d] = l /\ step'[d] = "tracked"
      /\ \A e \in Devices \ {d} :
           ledger'[e] = ledger[e] /\ snap'[e] = snap[e] /\ step'[e] = step[e]
  BY <1>1, <1>2 DEF DeliveryInv, TypeOK
<1>5. ASSUME Calm(d)', OnceInv(d) PROVE OnceInv(d)'
  <2>1. l.confirmed = ledger[d].confirmed /\ ledger[d].tracked \subseteq l.tracked
    BY <1>1, <1>3, <1>5, TrackAdds DEF Calm, OnceInv
  <2>. HIDE DEF l
  <2>2. \A r \in drawn : Settled(d, r) => Settled(d, r)'
    BY <1>1, <1>4, <2>1 DEF Settled, Current, Within
  <2>. QED BY <1>1, <1>4, <1>5, <2>1, <2>2 DEF OnceInv, Current, Within
<1>. QED BY <1>1, <1>4, <1>5, OneConfirms

LEMMA QueueReceiptKeepsOnce ==
  ASSUME DeliveryInv, EachInv, NEW d \in Devices, QueueReceipt(d)
  PROVE  EachInv'
<1>0. PICK r : r = Sealed(d, Current(d))
  OBVIOUS
<1>1. /\ step[d] = "tracked" /\ step' = [step EXCEPT ![d] = "queued"]
      /\ Current(d) \in snap[d].tracked /\ <<Current(d), d>> \notin snap[d].confirmed
      /\ UNCHANGED <<feed, gone, ledger, saved, at, snap, kept, wiped, faults>>
      /\ \/ UNCHANGED <<drawn, queue>>
         \/ /\ Queued(d, Current(d)) = {}
            /\ drawn' = drawn \cup {r} /\ queue' = [queue EXCEPT ![d] = @ \cup {r}]
  BY <1>0 DEF QueueReceipt, Draw, Goes, serverVars, budget
<1>2. at[d] < Len(feed) /\ at[d] \in Nat /\ Len(feed) \in Nat /\ Current(d) \in Ids
      /\ gone \in Nat /\ gone <= Len(feed)
  BY <1>1, ItemFacts DEF ItemInv, DeliveryInv, TypeOK
<1>3. r.from = d /\ r.item = Current(d)
  BY <1>0, <1>2, SealedIsReceipt DEF DeliveryInv
<1>4. /\ step'[d] = "queued"
      /\ \/ drawn' = drawn /\ queue'[d] = queue[d]
         \/ /\ Queued(d, Current(d)) = {}
            /\ drawn' = drawn \cup {r} /\ queue'[d] = queue[d] \cup {r}
      /\ \A e \in Devices \ {d} : queue'[e] = queue[e] /\ step'[e] = step[e]
  BY <1>1 DEF DeliveryInv, TypeOK
<1>5. ASSUME Calm(d)', OnceInv(d) PROVE OnceInv(d)'
  <2>1. snap[d] = ledger[d] /\ Author[Current(d)] # d /\ Current(d)' = Current(d)
    BY <1>1, <1>5 DEF OnceInv, Within, Current
  <2>2. \A s \in drawn : Settled(d, s) => Settled(d, s)'
    BY <1>1, <1>4, <2>1 DEF Settled, Within
  <2>3. Queued(d, Current(d)) = {} =>
          \A s \in drawn : s.from = d => s.item # Current(d)
    <3>. SUFFICES ASSUME Queued(d, Current(d)) = {},
                         NEW s \in drawn, s.from = d, s.item = Current(d)
                  PROVE  FALSE
      OBVIOUS
    <3>1. Settled(d, s) /\ s \notin queue[d]
      BY <1>5 DEF OnceInv, Queued
    <3>2. <<s.item, d>> \notin ledger[d].confirmed
      BY <1>1, <2>1
    <3>3. PICK n \in 1..gone : feed[n] = s.item /\ n # at[d] + 1
      BY <1>1, <3>1, <3>2 DEF Settled, Within
    <3>4. n \in 1..Len(feed) /\ at[d] + 1 \in 1..Len(feed)
      BY <1>2
    <3>. QED BY <3>3, <3>4 DEF EachInv, PlacesInv, Current
  <2>4. drawn' = drawn \cup {r} => Settled(d, r)' \/ r \in drawn
    BY <1>1, <1>2, <1>3, <1>4, <2>1 DEF Settled, Within
  <2>5. \A s \in drawn' : s.from = d => Author[s.item] # d /\ Settled(d, s)'
    BY <1>3, <1>4, <1>5, <2>1, <2>2, <2>4 DEF OnceInv
  <2>6. \A s, t \in drawn' : s.from = d /\ t.from = d /\ s.item = t.item => s = t
    BY <1>3, <1>4, <1>5, <2>3 DEF OnceInv
  <2>. QED BY <1>1, <1>4, <1>5, <2>1, <2>5, <2>6 DEF OnceInv, Within
<1>6. drawn \subseteq drawn' /\ \A s \in drawn' \ drawn : s.from = d
  BY <1>3, <1>4
<1>. QED BY <1>1, <1>4, <1>5, <1>6, OneConfirms

\* What is confirmed is tracked, for the device itself and for others.
LEMMA ConfirmedIsTracked ==
  ASSUME NEW l \in Ledger, NEW pairs, NEW n, \A c \in l.confirmed : c[1] \in l.tracked,
         \A c \in pairs : c[1] \in l.tracked
  PROVE  /\ l.confirmed \subseteq Confirm(l, pairs, n).confirmed
         /\ Confirm(l, pairs, n).tracked = l.tracked
         /\ \A c \in pairs : c \in Confirm(l, pairs, n).confirmed
         /\ \A c \in Confirm(l, pairs, n).confirmed : c[1] \in l.tracked
  BY DEF Confirm

LEMMA NotesKeepOnce ==
  ASSUME DeliveryInv, EachInv, NEW d \in Devices, NoteReceived(d) \/ Accept(d)
  PROVE  EachInv'
<1>. DEFINE pairs == IF step[d] = "queued" THEN {<<Current(d), d>>}
                     ELSE Confirmations(snap[d], answer[d])
            l == ledger'[d]
<1>1. /\ \/ step[d] = "queued" /\ step' = [step EXCEPT ![d] = "done"]
         \/ step[d] = "asked" /\ step' = [step EXCEPT ![d] = "posting"]
      /\ \E n : ledger' = [ledger EXCEPT ![d] = Confirm(snap[d], pairs, n)]
      /\ UNCHANGED <<feed, gone, queue, saved, at, snap, kept, drawn, wiped, faults>>
  BY DEF NoteReceived, Accept, Goes, serverVars, pastVars, budget
<1>2. /\ \E n : l = Confirm(snap[d], pairs, n)
      /\ \/ step[d] = "queued" /\ step'[d] = "done"
         \/ step[d] = "asked" /\ step'[d] = "posting"
      /\ \A e \in Devices \ {d} : ledger'[e] = ledger[e] /\ step'[e] = step[e]
  BY <1>1 DEF DeliveryInv, TypeOK
<1>3. ASSUME Calm(d)', OnceInv(d) PROVE OnceInv(d)'
  <2>1. snap[d] = ledger[d] /\ snap[d] \in Ledger
    BY <1>2, <1>3 DEF OnceInv, DeliveryInv, TypeOK
  <2>2. \A c \in pairs : c[1] \in ledger[d].tracked
    BY <1>2, <1>3, <2>1 DEF OnceInv, Confirmations, Accepts
  <2>3. /\ ledger[d].confirmed \subseteq l.confirmed /\ l.tracked = ledger[d].tracked
        /\ \A c \in pairs : c \in l.confirmed
        /\ \A c \in l.confirmed : c[1] \in l.tracked
    <3>. HIDE DEF pairs, l
    <3>. QED BY <1>2, <1>3, <2>1, <2>2, ConfirmedIsTracked DEF OnceInv
  <2>4. step[d] = "queued" => <<Current(d), d>> \in l.confirmed
    BY <2>3
  <2>. HIDE DEF pairs
  <2>5. \A r \in drawn : Settled(d, r) => Settled(d, r)'
    BY <1>1, <1>2, <2>3, <2>4 DEF Settled, Within
  <2>. QED BY <1>1, <1>2, <1>3, <2>3, <2>5 DEF OnceInv, Within
<1>. QED BY <1>1, <1>2, <1>3, OneConfirms

\* A posted receipt was noted, or its item is gone.
LEMMA PostKeepsOnce ==
  ASSUME DeliveryInv, EachInv, NEW d \in Devices, NEW r \in queue[d], PostReceipt(d, r)
  PROVE  EachInv'
<1>1. /\ step[d] = "posting" /\ queue' = [queue EXCEPT ![d] = @ \ {r}]
      /\ UNCHANGED <<feed, gone, ledger, saved, at, step, snap, kept, drawn, wiped, faults>>
  BY DEF PostReceipt, AfterPost, memoryVars, pastVars, budget
<1>2. queue'[d] = queue[d] \ {r} /\ \A e \in Devices \ {d} : queue'[e] = queue[e]
  BY <1>1 DEF DeliveryInv, TypeOK
<1>3. ASSUME Calm(d)', OnceInv(d) PROVE OnceInv(d)'
  <2>1. \A s \in drawn : Settled(d, s) => Settled(d, s)'
    BY <1>1 DEF Settled, Within
  <2>. QED BY <1>1, <1>3, <2>1 DEF OnceInv, Within, Current
<1>. QED BY <1>1, <1>2, <1>3, OneConfirms

\* A clear, a failed request: the device makes no promise any more.
LEMMA StormsKeepOnce ==
  ASSUME DeliveryInv, EachInv, NEW d \in Devices,
         \/ CliWipes(d) \/ DropReceipts(d) \/ ClearLedger(d) \/ SyncFails(d)
         \/ \E r \in queue[d] : PostFails(d, r)
  PROVE  EachInv'
<1>1. /\ UNCHANGED <<feed, gone, kept, drawn, saved, at>>
      /\ wiped \subseteq wiped' /\ (faults' = faults \/ faults' = faults + 1)
      /\ d \in wiped' \/ faults' = faults + 1 \/ step[d] = "emptied"
      /\ ledger' = ledger \/ \E x : ledger' = [ledger EXCEPT ![d] = x]
      /\ queue' = queue \/ \E x : queue' = [queue EXCEPT ![d] = x]
      /\ snap' = snap \/ \E x : snap' = [snap EXCEPT ![d] = x]
      /\ step' = step \/ \E x : step' = [step EXCEPT ![d] = x]
  BY DEF CliWipes, DropReceipts, ClearLedger, SyncFails, PostFails, OneFault, Goes, serverVars,
         diskVars, memoryVars, pastVars, budget
<1>2. \A e \in Devices \ {d} : ledger'[e] = ledger[e] /\ queue'[e] = queue[e]
  BY <1>1 DEF DeliveryInv, TypeOK
<1>3. \A e \in Devices \ {d} : snap'[e] = snap[e] /\ step'[e] = step[e]
  BY <1>1 DEF DeliveryInv, TypeOK
<1>4. ASSUME Calm(d)', OnceInv(d) PROVE FALSE
  BY <1>1, <1>4 DEF Calm, OnceInv, DeliveryInv, TypeOK
<1>. QED BY <1>1, <1>2, <1>3, <1>4, OneConfirms

LEMMA TrackOwnKeepsOnce ==
  ASSUME DeliveryInv, EachInv, NEW d \in Devices, NEW id \in Ids, TrackOwn(d, id)
  PROVE  EachInv'
<1>. DEFINE l == Track(ledger[d], id)
<1>1. /\ step[d] \notin {"tracked", "queued", "asked"}
      /\ ledger' = [ledger EXCEPT ![d] = l]
      /\ UNCHANGED <<feed, gone, queue, saved, at, step, snap, kept, drawn, wiped, faults>>
  BY DEF TrackOwn, LockFree, serverVars, memoryVars, pastVars, budget
<1>2. ledger'[d] = l /\ \A e \in Devices \ {d} : ledger'[e] = ledger[e]
  BY <1>1 DEF DeliveryInv, TypeOK
<1>3. ASSUME Calm(d)', OnceInv(d) PROVE OnceInv(d)'
  <2>1. ledger[d] \in Ledger
    BY DEF DeliveryInv, TypeOK
  <2>2. l.confirmed = ledger[d].confirmed /\ ledger[d].tracked \subseteq l.tracked
    BY <1>1, <1>3, <2>1, TrackAdds DEF Calm, OnceInv
  <2>. HIDE DEF l
  <2>3. \A r \in drawn : Settled(d, r) => Settled(d, r)'
    BY <1>1, <1>2, <2>2 DEF Settled, Current
  <2>. QED BY <1>1, <1>2, <1>3, <2>2, <2>3 DEF OnceInv, Within, Current
<1>. QED BY <1>1, <1>2, <1>3, OneConfirms

\* New items come last, deleted ones are not offered again.
LEMMA FeedKeepsOnce ==
  ASSUME DeliveryInv, EachInv,
         \/ \E id \in Ids : PostItem(id)
         \/ \E d \in Devices : CliDeletes(d)
         \/ UNCHANGED vars
  PROVE  EachInv'
<1>1. /\ UNCHANGED <<ledger, queue, saved, at, step, snap, kept, drawn, wiped, faults>>
      /\ \/ \E id \in Ids : id \notin Range(feed) /\ feed' = Append(feed, id) /\ gone' = gone
         \/ feed' = feed /\ gone' = Len(feed)
         \/ feed' = feed /\ gone' = gone
  BY DEF PostItem, CliDeletes, vars, serverVars, diskVars, memoryVars, pastVars, budget
<1>2. feed \in Seq(Ids) /\ gone \in Nat /\ gone <= Len(feed) /\ Len(feed) \in Nat
  BY DEF DeliveryInv, TypeOK
<1>3. /\ Len(feed') \in Nat /\ Len(feed) <= Len(feed')
      /\ \A n \in 1..Len(feed) : feed'[n] = feed[n]
      /\ gone' \in Nat /\ gone <= gone' /\ gone' <= Len(feed')
  BY <1>1, <1>2
<1>4. Grows
  BY <1>1, <1>3 DEF Grows
<1>5. PlacesInv'
  <2>1. CASE feed' = feed
    BY <2>1 DEF EachInv, PlacesInv
  <2>2. ASSUME NEW id \in Ids, id \notin Range(feed), feed' = Append(feed, id)
        PROVE  PlacesInv'
    <3>1. /\ Len(feed') = Len(feed) + 1 /\ feed'[Len(feed) + 1] = id
          /\ \A n \in 1..Len(feed) : feed'[n] = feed[n] /\ feed[n] # id
      BY <1>2, <2>2 DEF Range
    <3>. QED BY <1>2, <3>1 DEF EachInv, PlacesInv
  <2>. QED BY <1>1, <2>1, <2>2
<1>6. ASSUME NEW e \in Devices, Calm(e)' PROVE OnceInv(e)'
  <2>1. OnceInv(e)
    BY <1>1, <1>6 DEF EachInv, Calm
  <2>. QED BY <1>1, <1>3, <1>4, <2>1, OnceStays
<1>. QED BY <1>5, <1>6 DEF EachInv

LEMMA NextKeepsEachInv ==
  ASSUME DeliveryInv, EachInv, [Next]_vars
  PROVE  EachInv'
<1>1. ASSUME NEW d \in Devices, Receives(d) PROVE EachInv'
  BY <1>1, PlaceKeepsOnce, TrackReceivedKeepsOnce, QueueReceiptKeepsOnce, NotesKeepOnce,
     StormsKeepOnce, ZenonT(60) DEF Receives
<1>2. ASSUME NEW d \in Devices, Syncs(d) PROVE EachInv'
  BY <1>2, PlaceKeepsOnce, NotesKeepOnce, PostKeepsOnce, ZenonT(60) DEF Syncs
<1>3. ASSUME NEW d \in Devices,
             \/ CliWipes(d) \/ ItemFails(d) \/ SyncFails(d) \/ Restart(d)
             \/ \E r \in queue[d] : PostFails(d, r)
      PROVE  EachInv'
  BY <1>3, PlaceKeepsOnce, StormsKeepOnce
<1>4. CASE Next
  BY <1>1, <1>2, <1>3, <1>4, TrackOwnKeepsOnce, FeedKeepsOnce, ZenonT(60) DEF Next
<1>5. CASE UNCHANGED vars
  BY <1>5, FeedKeepsOnce
<1>. QED BY <1>4, <1>5

\* OneReceiptEach: a device makes out one receipt for an item, wherever its
\* daemon stops and starts again, until a clear takes its ledger, a call fails
\* or the ledger is full (received in delivery.rs: the file of an earlier
\* attempt is used again, and an item that was noted is not confirmed again).
THEOREM ReceiptsAreSealedOnce == Spec => []OneReceiptEach
<1>1. Init => EachInv
  BY DEF Init, EachInv, PlacesInv, OnceInv, NoLedger, Within
<1>2. DeliveryInv /\ EachInv /\ [Next]_vars => EachInv'
  BY NextKeepsEachInv
<1>3. DeliveryInv /\ EachInv => OneReceiptEach
  <2>. SUFFICES ASSUME DeliveryInv, EachInv, NEW r \in drawn, NEW s \in drawn,
                       r.from = s.from, r.item = s.item, r.from \notin wiped,
                       ~ (Cardinality(Ids) > MaxLedger), ~ (faults > 0)
                PROVE  r = s
    BY DEF OneReceiptEach
  <2>1. r.from \in Devices /\ faults = 0
    BY DEF DeliveryInv, TypeOK, Receipt
  <2>2. Cardinality(Ids) <= MaxLedger
    <3>1. Cardinality(Ids) \in Nat /\ MaxLedger \in Nat
      BY DeliveryAssumption, FS_CardinalityType DEF DeliveryAssumption
    <3>. QED BY <3>1
  <2>. QED BY <2>1, <2>2 DEF EachInv, Calm, OnceInv
<1>. QED BY <1>1, <1>2, <1>3, DeliveryInvariant, PTL DEF Spec
=============================================================================
