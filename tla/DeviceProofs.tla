---------------------------- MODULE DeviceProofs ----------------------------
(***************************************************************************)
(* Theorems about what runs and what is kept on a device: the desktop's    *)
(* clipboard loop (Clipboard) for any feed, window and number of copies,   *)
(* faults and restarts, and what lies on its disk (Device): the state file *)
(* and the keychain, the desktop's history, the phone's history and outbox *)
(***************************************************************************)
EXTENDS Clipboard, Device, FiniteSetTheorems, WellFoundedInduction, TLAPS

----------------------------------------------------------------------------
(* Least and greatest elements of sets of naturals *)

\* Every non-empty set of naturals has a least element.
LEMMA LeastNatural ==
  ASSUME NEW T \in SUBSET Nat, T # {}
  PROVE  \E x \in T : \A y \in T : x <= y
<1>1. IsWellFoundedOn(OpToRel(<, Nat), Nat)
  BY NatLessThanWellFounded
<1>2. PICK x \in T : \A y \in T : ~ (<<y, x>> \in OpToRel(<, Nat))
  BY <1>1, WFMin, Zenon
<1>3. OpToRel(<, Nat) = {ss \in Nat \X Nat : ss[1] < ss[2]}
  BY DEF OpToRel
<1>4. ASSUME NEW y \in T PROVE x <= y
  <2>1. <<y, x>> \notin {ss \in Nat \X Nat : ss[1] < ss[2]}
    BY <1>2, <1>3
  <2>. QED BY <2>1
<1>. QED BY <1>2, <1>4

\* Every non-empty set of naturals with an upper bound has a greatest element,
\* and Max is it.
LEMMA MaxOfBounded ==
  ASSUME NEW T \in SUBSET Nat, T # {}, NEW b \in Nat, \A x \in T : x <= b
  PROVE  Max(T) \in T /\ \A y \in T : Max(T) >= y
<1>. DEFINE D == {b - x : x \in T}
<1>1. \A x \in T : x \in Nat /\ b - x \in Nat
  OBVIOUS
<1>2. D \in SUBSET Nat /\ D # {}
  BY <1>1
<1>3. PICK e \in D : \A y \in D : e <= y
  <2>. HIDE DEF D
  <2>. QED BY <1>2, LeastNatural
<1>4. PICK x \in T : e = b - x
  OBVIOUS
<1>5. \A y \in T : x >= y
  <2>. SUFFICES ASSUME NEW y \in T PROVE x >= y
    OBVIOUS
  <2>1. b - y \in D
    OBVIOUS
  <2>2. b - x <= b - y
    BY <2>1, <1>3, <1>4
  <2>. QED BY <2>2, <1>1
<1>. QED BY <1>5 DEF Max
-----------------------------------------------------------------------------
FeedItem == [content: Texts \cup {Blank, Clear}, created: Nat \ {0}]

LEMMA FeedFacts ==
  /\ Len(Feed) \in Nat
  /\ \A i \in 1..Len(Feed) : Feed[i] \in FeedItem
<1>1. Feed \in Seq(FeedItem)
  BY ClipboardAssumption DEF ClipboardAssumption, FeedItem
<1>. HIDE DEF FeedItem
<1>. QED BY <1>1

\* Writing a file keeps one of every content.
LEMMA WriteKeeps ==
  ASSUME NEW c \in Contents, NEW full \in BOOLEAN, NEW from \in {"user", "feed"},
         history \subseteq File, stamps \in Nat,
         \A f \in history : f.stamp <= stamps,
         Write(c, full, from)
  PROVE  /\ history' \subseteq File
         /\ stamps' = stamps + 1
         /\ \A f \in history' : f.stamp <= stamps'
         /\ \E f \in history' : f.content = c
         /\ \A f \in history : \E g \in history' : g.content = f.content
<1>. DEFINE new == [stamp |-> stamps + 1, content |-> c, full |-> full,
                    from |-> from]
<1>1. stamps' = stamps + 1 /\ history' = Others(c) \cup {new}
  BY DEF Write
<1>2. new \in File /\ new.content = c /\ new.stamp = stamps + 1
  BY DEF File
<1>. HIDE DEF new
<1>3. Others(c) \subseteq history /\ \A f \in history \ Others(c) : f.content = c
  BY DEF Others
<1>4. \A f \in history : f.stamp \in Nat
  BY DEF File
<1>. QED BY <1>1, <1>2, <1>3, <1>4

LEMMA InitInv == Init => ClipboardInv
<1>. SUFFICES ASSUME Init PROVE ClipboardInv
  OBVIOUS
<1>1. Cardinality({}) = 0
  BY FS_EmptySet
<1>2. TypeOK
  <2>1. shown \in Seq(1..Len(Feed))
    BY DEF Init
  <2>2. saved \in 0..Len(Feed) /\ at \in 0..Len(Feed)
    BY FeedFacts DEF Init
  <2>3. echoUntil \in [Contents -> Nat]
    BY DEF Init
  <2>4. Cardinality(sending) <= 1
    <3>1. Cardinality(sending) = 0
      BY <1>1, Zenon DEF Init
    <3>. QED BY <3>1
  <2>5. /\ history \subseteq File /\ copies \subseteq File
        /\ sent \subseteq [content: Contents, from: {"user", "feed"}]
        /\ sending \subseteq Nat /\ known \subseteq Nat
        /\ queued \in Nat /\ phase \in {"poll", "flush"} /\ listed \in Nat
        /\ apply \in BOOLEAN /\ step = "idle"
        /\ lastApplied \in Nat /\ polled \in Nat /\ made \in Nat /\ now \in Nat
        /\ stamps \in Nat /\ restarts \in Nat /\ faults \in Nat
    BY DEF Init
  <2>. QED BY <2>1, <2>2, <2>3, <2>4, <2>5 DEF TypeOK
<1>. QED BY <1>2 DEF Init, ClipboardInv

\* The outbox after one of its copies was sent.
LEMMA SentLeaves ==
  ASSUME queued \in Nat
  PROVE  Max({queued - 1, 0}) \in Nat /\ Max({queued - 1, 0}) <= queued
<1>. DEFINE T == {queued - 1, 0}
<1>1. CASE queued = 0
  <2>. DEFINE m == Max(T)
  <2>1. \E x \in T : \A y \in T : x >= y
    BY <1>1
  <2>2. m \in T /\ \A y \in T : m >= y
    BY <2>1 DEF Max
  <2>. QED BY <1>1, <2>2
<1>2. CASE queued # 0
  <2>1. T \in SUBSET Nat /\ T # {} /\ \A x \in T : x <= queued
    BY <1>2
  <2>2. Max(T) \in T
    <3>. HIDE DEF T
    <3>. QED BY <2>1, MaxOfBounded
  <2>. QED BY <2>1, <2>2
<1>. QED BY <1>1, <1>2

LEMMA StepKeepsInv == ClipboardInv /\ [Next]_vars => ClipboardInv'
<1>. SUFFICES ASSUME ClipboardInv, [Next]_vars PROVE ClipboardInv'
  OBVIOUS
<1>. USE FeedFacts DEF ClipboardInv
<1>1. ASSUME NEW c \in Texts, UserCopies(c) PROVE ClipboardInv'
  <2>1. /\ Write(c, FALSE, "user") /\ made' = made + 1
        /\ UNCHANGED <<saved, senderVars, receiverVars, now, restarts, faults>>
    BY <1>1 DEF UserCopies
  <2>2. /\ history' \subseteq File /\ stamps' = stamps + 1
        /\ \A f \in history' : f.stamp <= stamps'
        /\ \A f \in history : \E g \in history' : g.content = f.content
    BY <2>1, WriteKeeps DEF Contents, TypeOK
  <2>3. TypeOK'
    BY <2>1, <2>2 DEF TypeOK, senderVars, receiverVars
  <2>4. UNCHANGED <<saved, at, step, polled>> /\ Current' = Current /\ stamps <= stamps'
    BY <2>1, <2>2 DEF TypeOK, senderVars, receiverVars, Current
  <2>5. polled' <= stamps'
    <3>1. polled' = polled /\ polled \in Nat /\ stamps \in Nat /\ polled <= stamps
      BY <2>4 DEF TypeOK
    <3>. QED BY <2>2, <3>1
  <2>. QED BY <2>2, <2>3, <2>4, <2>5
<1>2. CASE Written
  <2>1. /\ history' = {[f EXCEPT !.full = TRUE] : f \in history}
        /\ UNCHANGED <<saved, senderVars, receiverVars, counters>>
    BY <1>2 DEF Written
  <2>2. ASSUME NEW f \in File
        PROVE  /\ [f EXCEPT !.full = TRUE] \in File
               /\ [f EXCEPT !.full = TRUE].stamp = f.stamp
               /\ [f EXCEPT !.full = TRUE].content = f.content
    BY DEF File
  <2>. DEFINE Filled(f) == [f EXCEPT !.full = TRUE]
  <2>. HIDE DEF Filled
  <2>3. \A f \in history : /\ Filled(f) \in File /\ Filled(f).stamp = f.stamp
                           /\ Filled(f).content = f.content
    BY <2>2 DEF TypeOK, Filled
  <2>4. history' = {Filled(f) : f \in history}
    BY <2>1 DEF Filled
  <2>5. /\ history' \subseteq File
        /\ \A f \in history' : f.stamp <= stamps
        /\ \A f \in history : \E g \in history' : g.content = f.content
    BY <2>3, <2>4
  <2>6. TypeOK'
    BY <2>1, <2>5 DEF TypeOK, senderVars, receiverVars, counters
  <2>7. UNCHANGED <<saved, at, step, polled, stamps>> /\ Current' = Current
    BY <2>1 DEF senderVars, receiverVars, counters, Current
  <2>. HIDE DEF Current
  <2>. QED BY <2>5, <2>6, <2>7
<1>3. CASE Poll
  <2>. DEFINE new == {f \in history : f.stamp \notin known}
              T == Names(new) \cup {polled}
  <2>1. /\ copies' = {Read(f) : f \in new}
        /\ polled' = Max(T)
        /\ known' = Names(history) /\ phase' = "poll"
        /\ UNCHANGED <<diskVars, sending, queued, listed, sent, receiverVars, counters>>
    BY <1>3 DEF Poll, KnownNow
  <2>2. \A f \in history : f \in File /\ Read(f) \in File /\ f.stamp \in Nat
    BY DEF TypeOK, Read, File, Contents
  <2>3. T \in SUBSET Nat /\ T # {} /\ stamps \in Nat /\ \A x \in T : x <= stamps
    BY <2>2 DEF TypeOK, Names
  <2>4. Max(T) \in T
    BY <2>3, MaxOfBounded
  <2>5. polled' \in Nat /\ polled' <= stamps
    BY <2>1, <2>3, <2>4
  <2>6. copies' \subseteq File /\ known' \subseteq Nat
    BY <2>1, <2>2 DEF Names
  <2>. QED BY <2>1, <2>5, <2>6 DEF TypeOK, diskVars, receiverVars, counters, Current
<1>4. CASE NextCopy
  <2>. DEFINE f == Oldest(copies)
  <2>1. /\ copies # {} /\ copies' = copies \ {f}
        /\ sending' \in {sending, {now}} /\ queued' \in {queued, queued + 1}
        /\ faults' \in {faults, faults + 1}
        /\ sent' \in {sent, sent \cup {[content |-> f.content, from |-> f.from]}}
        /\ UNCHANGED <<diskVars, known, phase, listed, polled, receiverVars, made,
                       now, stamps, restarts>>
    BY <1>4 DEF NextCopy, Send, Skip, OneFault
  <2>2. f \in copies
    <3>. DEFINE T == {g.stamp : g \in copies}
    <3>1. T \in SUBSET Nat /\ T # {}
      BY <2>1 DEF TypeOK, File
    <3>2. PICK x \in T : \A y \in T : x <= y
      BY <3>1, LeastNatural
    <3>3. \E g \in copies : \A h \in copies : g.stamp <= h.stamp
      BY <3>2
    <3>. QED BY <3>3 DEF Oldest
  <2>3. f \in File
    BY <2>2 DEF TypeOK
  <2>. HIDE DEF f
  <2>4. [content |-> f.content, from |-> f.from]
             \in [content: Contents, from: {"user", "feed"}]
    BY <2>3 DEF File
  <2>5. sending' \subseteq Nat /\ Cardinality(sending') <= 1
    <3>1. Cardinality({now}) = 1
      BY FS_Singleton, Zenon
    <3>2. sending' = sending => Cardinality(sending') = Cardinality(sending)
      OBVIOUS
    <3>3. sending' = {now} => Cardinality(sending') = 1
      BY <3>1, Zenon
    <3>. QED BY <2>1, <3>2, <3>3 DEF TypeOK
  <2>6. /\ sent' \subseteq [content: Contents, from: {"user", "feed"}]
        /\ copies' \subseteq File /\ queued' \in Nat /\ faults' \in Nat
    BY <2>1, <2>4 DEF TypeOK
  <2>. QED BY <2>1, <2>5, <2>6 DEF TypeOK, diskVars, receiverVars, Current
<1>5. CASE SendEnds
  <2>1. Cardinality({}) = 0
    BY FS_EmptySet
  <2>2. queued' \in Nat /\ listed' \in Nat /\ sending' = {}
        /\ UNCHANGED <<diskVars, known, copies, phase, sent, polled, receiverVars,
                       counters>>
    BY <1>5, SentLeaves DEF SendEnds, TypeOK
  <2>. QED BY <2>1, <2>2 DEF TypeOK, diskVars, receiverVars, counters, Current
<1>17. CASE Flush
  BY <1>17 DEF Flush, TypeOK, diskVars, receiverVars, counters, Current
<1>18. CASE FlushNext
  <2>1. Cardinality({}) = 0 /\ Cardinality({now}) = 1
    BY FS_EmptySet, FS_Singleton
  <2>2. /\ sending' \in {{}, {now}} /\ listed' \in Nat
        /\ UNCHANGED <<diskVars, known, copies, queued, phase, sent, polled,
                       receiverVars, counters>>
    BY <1>18 DEF FlushNext, TypeOK
  <2>3. sending' \subseteq Nat /\ Cardinality(sending') <= 1
    <3>1. sending' = {} => Cardinality(sending') = 0
      BY <2>1, Zenon
    <3>2. sending' = {now} => Cardinality(sending') = 1
      BY <2>1, Zenon
    <3>. QED BY <2>2, <3>1, <3>2 DEF TypeOK
  <2>. QED BY <2>2, <2>3 DEF TypeOK, diskVars, receiverVars, counters, Current
<1>6. CASE Note
  <2>1. Current \in FeedItem /\ Current.content \in Contents
    BY <1>6 DEF Note, Current, TypeOK, FeedItem, Contents
  <2>2. lastApplied' \in Nat /\ apply' \in BOOLEAN
    BY <1>6, <2>1 DEF Note, Fresh, FeedItem, TypeOK
  <2>3. echoUntil' \in [Contents -> Nat]
    <3>1. echoUntil' = [echoUntil EXCEPT ![Current.content] = now + EchoWindow]
      BY <1>6 DEF Note
    <3>2. now + EchoWindow \in Nat
      BY ClipboardAssumption DEF ClipboardAssumption, TypeOK
    <3>. QED BY <2>1, <3>1, <3>2 DEF TypeOK
  <2>. QED BY <1>6, <2>2, <2>3
           DEF Note, TypeOK, diskVars, senderVars, counters, Current
<1>7. CASE Add
  <2>1. /\ step' = "added" /\ step = "noted"
        /\ UNCHANGED <<saved, senderVars, echoUntil, lastApplied, at, apply, shown,
                       made, now, restarts, faults>>
        /\ \/ UNCHANGED <<history, stamps>>
           \/ Current.content # Blank /\ Write(Current.content, TRUE, "feed")
    BY <1>7 DEF Add
  <2>2. CASE UNCHANGED <<history, stamps>>
    BY <2>1, <2>2 DEF TypeOK, senderVars, Current
  <2>3. CASE Current.content # Blank /\ Write(Current.content, TRUE, "feed")
    <3>1. Current.content \in Contents
      <4>1. at + 1 \in 1..Len(Feed)
        BY <2>1 DEF TypeOK
      <4>2. Feed[at + 1] \in FeedItem
        BY <4>1
      <4>3. Current.content # Clear
        BY <2>1
      <4>. QED BY <4>2, <4>3 DEF Current, FeedItem, Contents
    <3>2. /\ history' \subseteq File /\ stamps' = stamps + 1
          /\ \A f \in history' : f.stamp <= stamps'
          /\ \A f \in history : \E g \in history' : g.content = f.content
      BY <2>3, <3>1, WriteKeeps DEF TypeOK
    <3>3. TypeOK'
      BY <2>1, <3>2 DEF TypeOK, senderVars
    <3>4. UNCHANGED <<saved, at, polled>> /\ Current' = Current
      BY <2>1 DEF senderVars, Current
    <3>5. polled' <= stamps'
      <4>1. polled \in Nat /\ stamps \in Nat /\ polled <= stamps
        BY DEF TypeOK
      <4>. QED BY <3>2, <3>4, <4>1
    <3>. QED BY <2>1, <3>2, <3>3, <3>4, <3>5
  <2>. QED BY <2>1, <2>2, <2>3
<1>8. CASE Show
  <2>1. shown' \in Seq(1..Len(Feed))
    BY <1>8 DEF Show, TypeOK
  <2>. QED BY <1>8, <2>1 DEF Show, TypeOK, diskVars, senderVars, counters, Current
<1>9. CASE Keep
  <2>1. /\ at' = at + 1 /\ step' = "idle" /\ at < Len(Feed)
        /\ InHistory(Current.content)
        /\ UNCHANGED <<diskVars, senderVars, echoUntil, lastApplied, apply, shown,
                       counters>>
    BY <1>9 DEF Keep, Delivered
  <2>2. at' \in 0..Len(Feed) /\ saved' <= at' /\ at' \in Nat
    BY <2>1 DEF TypeOK, diskVars
  <2>3. \E f \in history : f.content = Feed[at'].content
    BY <2>1 DEF InHistory, Current
  <2>4. \A i \in 1..at' : i \in 1..at \/ i = at'
    BY <2>1 DEF TypeOK
  <2>. QED BY <2>1, <2>2, <2>3, <2>4 DEF TypeOK, diskVars, senderVars, counters
<1>10. CASE HandleFails
  <2>1. /\ step' = "idle"
        /\ UNCHANGED <<diskVars, senderVars, echoUntil, lastApplied, at, apply,
                       shown, made, now, stamps, restarts>>
    BY <1>10 DEF HandleFails
  <2>2. faults' = faults \/ faults' = faults + 1
    BY <1>10 DEF HandleFails, OneFault
  <2>3. TypeOK'
    BY <2>1, <2>2 DEF TypeOK, diskVars, senderVars
  <2>. QED BY <2>1, <2>3 DEF diskVars, senderVars
<1>11. CASE HandleClear
  <2>1. /\ step = "idle" /\ at < Len(Feed) /\ Feed[at + 1].content = Clear
        /\ known' \subseteq known /\ history' \subseteq history /\ faults' \in Nat
        /\ at' = at + 1 \/ at' = at
        /\ queued' \in Nat
        /\ UNCHANGED <<saved, copies, sending, phase, listed, sent, polled,
                       echoUntil, lastApplied, step, apply, shown, made, now, stamps,
                       restarts>>
    BY <1>11 DEF HandleClear, OneFault, Current, TypeOK
  <2>2. at' \in 0..Len(Feed) /\ saved' <= at'
    BY <2>1 DEF TypeOK
  <2>3. ASSUME NEW i \in 1..at', Feed[i].content \in Texts
        PROVE  \E j \in i + 1 .. Len(Feed) : Feed[j].content = Clear
    <3>1. i \in Nat /\ at \in Nat /\ i <= at + 1
      BY <2>1 DEF TypeOK
    <3>2. i # at + 1
      BY <2>1, <2>3, ClipboardAssumption DEF ClipboardAssumption
    <3>3. at + 1 \in i + 1 .. Len(Feed)
      BY <2>1, <3>1, <3>2
    <3>. QED BY <2>1, <3>3
  <2>. QED BY <2>1, <2>2, <2>3 DEF TypeOK
<1>12. CASE SaveCursor
  BY <1>12 DEF SaveCursor, TypeOK, senderVars, receiverVars, counters, Current
<1>13. CASE Restart
  <2>1. \A f \in history : f.stamp \in Nat
    BY DEF TypeOK, File
  <2>2. known' \subseteq Nat
    BY <1>13, <2>1 DEF Restart, Names
  <2>3. Cardinality({}) = 0
    BY FS_EmptySet
  <2>4. \A i \in 1..at' : i \in 1..at
    BY <1>13 DEF Restart, TypeOK
  <2>5. /\ restarts' = restarts + 1 /\ copies' = {} /\ sending' = {}
        /\ phase' = "poll" /\ listed' = 0
        /\ echoUntil' = [c \in Contents |-> 0]
        /\ lastApplied' = 0 /\ at' = saved /\ step' = "idle" /\ apply' = FALSE
        /\ UNCHANGED <<history, saved, queued, sent, polled, shown, made, now, stamps,
                       faults>>
    BY <1>13 DEF Restart, diskVars
  <2>6. TypeOK'
    <3>1. Cardinality(sending') <= 1 /\ sending' \subseteq Nat
      <4>1. Cardinality(sending') = 0
        BY <2>3, <2>5, Zenon
      <4>. QED BY <2>5, <4>1
    <3>2. echoUntil' \in [Contents -> Nat]
      BY <2>5
    <3>3. apply' \in BOOLEAN /\ copies' \subseteq File
      BY <2>5
    <3>4. /\ queued' \in Nat /\ phase' \in {"poll", "flush"} /\ listed' \in Nat
          /\ restarts' \in Nat /\ lastApplied' \in Nat /\ at' \in 0..Len(Feed)
          /\ step' \in {"idle", "noted", "added", "shown"}
      BY <2>5 DEF TypeOK
    <3>5. /\ history' \subseteq File /\ saved' \in 0..Len(Feed)
          /\ sent' \subseteq [content: Contents, from: {"user", "feed"}]
          /\ shown' \in Seq(1..Len(Feed))
          /\ polled' \in Nat /\ made' \in Nat /\ now' \in Nat /\ stamps' \in Nat
          /\ faults' \in Nat
      BY <2>5 DEF TypeOK
    <3>. QED BY <2>2, <3>1, <3>2, <3>3, <3>4, <3>5 DEF TypeOK
  <2>. QED BY <2>4, <2>5, <2>6 DEF TypeOK
<1>14. CASE Tick
  <2>1. /\ now' = now + 1
        /\ UNCHANGED <<diskVars, senderVars, receiverVars, made, stamps, restarts,
                       faults>>
    BY <1>14 DEF Tick
  <2>2. now' \in Nat
    BY <2>1 DEF TypeOK
  <2>3. TypeOK'
    BY <2>1, <2>2 DEF TypeOK, diskVars, senderVars, receiverVars
  <2>. QED BY <2>1, <2>3 DEF diskVars, senderVars, receiverVars, Current
<1>15. CASE UNCHANGED vars
  BY <1>15 DEF vars, TypeOK, diskVars, senderVars, receiverVars, counters, Current
<1>16. ASSUME Next PROVE ClipboardInv'
  BY <1>16, <1>1, <1>2, <1>3, <1>4, <1>5, <1>6, <1>7, <1>8, <1>9, <1>10, <1>11,
     <1>12, <1>13, <1>14, <1>17, <1>18, ZenonT(60) DEF Next
<1>. QED BY <1>15, <1>16

\* What the daemon will not ask for again is in the history: no failure,
\* restart, half-done page or local copy loses a received item.
THEOREM ReceivedIsKept == Spec => []ClipboardInv
BY InitInv, StepKeepsInv, PTL DEF Spec
-----------------------------------------------------------------------------
(* The order of what goes on the clipboard, while the daemon runs on *)

\* Everything shown is at most lastApplied, and strictly less while an item
\* that will be shown is on its way.
OrderInv ==
  /\ lastApplied \in Nat /\ at \in Nat /\ shown \in Seq(1..Len(Feed))
  /\ restarts = 0
  /\ \A i \in DOMAIN shown : Feed[shown[i]].created <= lastApplied
  /\ (step \in {"noted", "added"} /\ apply = TRUE)
     => /\ lastApplied = Current.created
        /\ \A i \in DOMAIN shown : Feed[shown[i]].created < lastApplied
  /\ ClipboardMovesForward

orderVars == <<lastApplied, at, step, apply, shown, restarts>>

LEMMA OrderUnchanged ==
  ASSUME OrderInv, UNCHANGED orderVars
  PROVE  OrderInv'
BY DEF OrderInv, orderVars, Current, ClipboardMovesForward

\* A step that neither shows an item nor settles that one will be.
LEMMA OrderIdle ==
  ASSUME OrderInv, UNCHANGED <<lastApplied, shown, restarts>>, step' = "idle",
         at' \in Nat
  PROVE  OrderInv'
BY DEF OrderInv, ClipboardMovesForward

LEMMA StepKeepsOrder ==
  ASSUME MaxRestarts = 0, ClipboardInv, OrderInv, Next
  PROVE  OrderInv'
<1>1. CASE Note
  <2>1. /\ at < Len(Feed) /\ at \in Nat
        /\ apply' = Fresh(Current) /\ step' = "noted"
        /\ lastApplied' = IF Fresh(Current) THEN Current.created ELSE lastApplied
        /\ UNCHANGED <<at, shown, restarts>>
    BY <1>1 DEF Note, counters, OrderInv
  <2>2. Current \in FeedItem /\ Current.created \in Nat
    BY <2>1, FeedFacts DEF Current, FeedItem
  <2>3. \A i \in DOMAIN shown : Feed[shown[i]].created \in Nat
    BY FeedFacts DEF OrderInv, FeedItem
  <2>4. CASE Fresh(Current)
    <3>1. lastApplied' = Current.created /\ lastApplied < Current.created
      BY <2>1, <2>4 DEF Fresh
    <3>2. \A i \in DOMAIN shown : Feed[shown[i]].created < lastApplied'
      BY <2>2, <2>3, <3>1 DEF OrderInv
    <3>3. Current' = Current
      BY <2>1 DEF Current
    <3>. QED BY <2>1, <2>2, <2>3, <3>1, <3>2, <3>3
             DEF OrderInv, ClipboardMovesForward
  <2>5. CASE ~ Fresh(Current)
    <3>1. lastApplied' = lastApplied
      BY <2>1, <2>5
    <3>2. apply' # TRUE
      BY <2>1, <2>5, Zenon
    <3>. QED BY <2>1, <3>1, <3>2 DEF OrderInv, ClipboardMovesForward
  <2>. QED BY <2>4, <2>5
<1>2. CASE Show
  <2>1. /\ step = "added" /\ apply = TRUE /\ step' = "shown"
        /\ shown' = Append(shown, at + 1)
        /\ UNCHANGED <<lastApplied, at, restarts>>
    BY <1>2 DEF Show, counters, ClipboardInv, TypeOK
  <2>2. /\ lastApplied = Feed[at + 1].created
        /\ \A i \in DOMAIN shown : Feed[shown[i]].created < lastApplied
    BY <2>1 DEF OrderInv, Current
  <2>3. at + 1 \in 1..Len(Feed)
    BY <2>1 DEF ClipboardInv, TypeOK
  <2>4. /\ shown' \in Seq(1..Len(Feed))
        /\ DOMAIN shown = 1..Len(shown) /\ DOMAIN shown' = 1..Len(shown) + 1
        /\ Len(shown) \in Nat
        /\ shown'[Len(shown) + 1] = at + 1
        /\ \A i \in DOMAIN shown : shown'[i] = shown[i]
    BY <2>1, <2>3 DEF OrderInv
  <2>5. Feed[at + 1].created \in Nat
    BY <2>3, FeedFacts DEF FeedItem
  <2>6. \A i \in DOMAIN shown' : i \in DOMAIN shown \/ i = Len(shown) + 1
    BY <2>4
  <2>7. \A i \in DOMAIN shown' : Feed[shown'[i]].created <= lastApplied
    <3>1. ASSUME NEW i \in DOMAIN shown', i \in DOMAIN shown
          PROVE  Feed[shown'[i]].created <= lastApplied
      <4>1. shown[i] \in 1..Len(Feed)
        BY <3>1 DEF ClipboardInv, TypeOK
      <4>2. Feed[shown[i]].created \in Nat
        BY <4>1, FeedFacts DEF FeedItem
      <4>. QED BY <2>2, <2>4, <2>5, <3>1, <4>2
    <3>2. shown'[Len(shown) + 1] = at + 1
      BY <2>4
    <3>. QED BY <2>2, <2>5, <2>6, <3>1, <3>2
  <2>8. ClipboardMovesForward'
    <3>. SUFFICES ASSUME NEW i \in DOMAIN shown', NEW j \in DOMAIN shown', i < j
                  PROVE  Feed[shown'[i]].created < Feed[shown'[j]].created
      BY DEF ClipboardMovesForward
    <3>1. i \in DOMAIN shown
      BY <2>4, <2>6
    <3>2. CASE j \in DOMAIN shown
      BY <2>4, <3>1, <3>2 DEF OrderInv, ClipboardMovesForward
    <3>3. CASE j = Len(shown) + 1
      BY <2>2, <2>4, <3>1, <3>3
    <3>. QED BY <2>6, <3>2, <3>3
  <2>. QED BY <2>1, <2>4, <2>7, <2>8 DEF OrderInv
<1>3. CASE Add
  BY <1>3 DEF Add, OrderInv, Current, ClipboardMovesForward
<1>4. CASE Keep \/ HandleFails
  <2>1. /\ UNCHANGED <<lastApplied, shown, restarts>> /\ step' = "idle"
        /\ at' \in Nat
    BY <1>4 DEF Keep, HandleFails, counters, OrderInv
  <2>. QED BY <2>1, OrderIdle
<1>5. CASE HandleClear
  <2>1. /\ UNCHANGED <<lastApplied, shown, restarts>> /\ step' = "idle"
        /\ at' \in Nat
    BY <1>5 DEF HandleClear, OrderInv
  <2>. QED BY <2>1, OrderIdle
<1>6. CASE Restart
  BY <1>6 DEF Restart, OrderInv
<1>7. ASSUME NEW c \in Texts, UserCopies(c) PROVE UNCHANGED orderVars
  BY <1>7 DEF UserCopies, orderVars, receiverVars
<1>8. CASE \/ Written \/ Flush \/ FlushNext \/ Poll \/ NextCopy \/ SendEnds
           \/ SaveCursor \/ Tick
  <2>1. UNCHANGED orderVars
    BY <1>8 DEF Written, Flush, FlushNext, Poll, NextCopy, SendEnds, SaveCursor, Tick,
                orderVars, receiverVars, counters
  <2>. QED BY <2>1, OrderUnchanged
<1>. QED BY <1>1, <1>2, <1>3, <1>4, <1>5, <1>6, <1>7, <1>8, OrderUnchanged DEF Next

\* As long as the daemon is not restarted, the clipboard only moves forward in
\* the senders' time, whatever fails and whatever the server's order is.
THEOREM ForwardWhileRunning ==
  ASSUME MaxRestarts = 0
  PROVE  Spec => []ClipboardMovesForward
<1>1. Init => OrderInv
  BY DEF Init, OrderInv, ClipboardMovesForward
<1>2. ClipboardInv /\ OrderInv /\ [Next]_vars => OrderInv'
  <2>. SUFFICES ASSUME ClipboardInv, OrderInv, [Next]_vars PROVE OrderInv'
    OBVIOUS
  <2>1. CASE UNCHANGED vars
    BY <2>1, OrderUnchanged DEF vars, receiverVars, counters, orderVars
  <2>. QED BY <2>1, StepKeepsOrder
<1>3. OrderInv => ClipboardMovesForward
  BY DEF OrderInv
<1>. QED BY <1>1, <1>2, <1>3, ReceivedIsKept, PTL DEF Spec

-----------------------------------------------------------------------------
(* What poll takes for a new copy *)

\* A failing clear that empties `known` and leaves files (section 4 of the
\* README).
ForgetsFiles == HandleClear /\ known' = {} /\ history' # {}

\* A name stands for one file; what is not known is younger than every name a
\* poll has returned.
NamesInv ==
  /\ \A f, g \in history : f.stamp = g.stamp => f = g
  /\ \A f, g \in copies : f.stamp = g.stamp => f = g
  /\ \A f \in history : f.stamp \in known \/ f.stamp > polled
  /\ \A f \in copies : f.stamp <= polled

nameVars == <<history, copies, known, polled>>

LEMMA ReadFacts ==
  ASSUME NEW f \in File
  PROVE  /\ Read(f) \in File /\ Read(f).stamp = f.stamp
         /\ Read(f).from = f.from
         /\ f.full => Read(f) = f
BY DEF Read, File, Contents

LEMMA FillFacts ==
  ASSUME NEW f \in File
  PROVE  /\ [f EXCEPT !.full = TRUE] \in File
         /\ [f EXCEPT !.full = TRUE].stamp = f.stamp
         /\ [f EXCEPT !.full = TRUE].content = f.content
         /\ [f EXCEPT !.full = TRUE].from = f.from
         /\ [f EXCEPT !.full = TRUE].full
         /\ f.full => [f EXCEPT !.full = TRUE] = f
BY DEF File

LEMMA OldestFacts ==
  ASSUME copies # {}, copies \subseteq File
  PROVE  Oldest(copies) \in copies /\ \A g \in copies : Oldest(copies).stamp <= g.stamp
<1>. DEFINE T == {g.stamp : g \in copies}
<1>1. T \in SUBSET Nat /\ T # {}
  BY DEF File
<1>2. PICK x \in T : \A y \in T : x <= y
  <2>. HIDE DEF T
  <2>. QED BY <1>1, LeastNatural
<1>3. \E g \in copies : \A h \in copies : g.stamp <= h.stamp
  BY <1>2
<1>. QED BY <1>3 DEF Oldest

\* A written file has a name of its own.
LEMMA WriteNames ==
  ASSUME NEW c \in Contents, NEW full \in BOOLEAN, NEW from \in {"user", "feed"},
         ClipboardInv, NamesInv, Write(c, full, from),
         UNCHANGED <<copies, known, polled>>
  PROVE  NamesInv'
<1>. DEFINE new == [stamp |-> stamps + 1, content |-> c, full |-> full,
                    from |-> from]
<1>1. history' = Others(c) \cup {new}
  BY DEF Write
<1>2. new.stamp = stamps + 1 /\ Others(c) \subseteq history
  BY DEF Others
<1>. HIDE DEF new
<1>3. /\ \A f \in history : f.stamp \in Nat /\ f.stamp <= stamps
      /\ stamps \in Nat /\ polled \in Nat /\ polled <= stamps
  BY DEF ClipboardInv, TypeOK, File
<1>. QED BY <1>1, <1>2, <1>3 DEF NamesInv

\* A poll: everything is known, and the new files are younger than those that
\* were.
LEMMA PollNames ==
  ASSUME ClipboardInv, NamesInv, Poll
  PROVE  /\ NamesInv'
         /\ polled' \in Nat /\ polled <= polled'
         /\ copies = {} /\ sending = {} /\ known' = Names(history)
         /\ copies' = {Read(f) : f \in {g \in history : g.stamp \notin known}}
         /\ \A f \in copies' : f.stamp > polled
         /\ UNCHANGED <<diskVars, sending, queued, listed, sent, receiverVars, counters>>
<1>. DEFINE new == {f \in history : f.stamp \notin known}
            T == Names(new) \cup {polled}
<1>1. /\ copies' = {Read(f) : f \in new} /\ polled' = Max(T)
      /\ known' = Names(history) /\ copies = {} /\ sending = {}
      /\ UNCHANGED <<diskVars, sending, queued, listed, sent, receiverVars, counters>>
  BY DEF Poll, KnownNow
<1>2. \A f \in history : f \in File /\ f.stamp \in Nat /\ f.stamp <= stamps
  BY DEF ClipboardInv, TypeOK, File
<1>3. /\ T \in SUBSET Nat /\ T # {} /\ stamps \in Nat /\ \A x \in T : x <= stamps
      /\ polled \in T /\ \A f \in new : f.stamp \in T
  BY <1>2 DEF ClipboardInv, TypeOK, Names
<1>4. polled' \in T /\ \A y \in T : polled' >= y
  <2>. HIDE DEF T
  <2>. QED BY <1>1, <1>3, MaxOfBounded
<1>5. \A f \in new : f.stamp > polled /\ f.stamp <= polled' /\ Read(f).stamp = f.stamp
  BY <1>2, <1>3, <1>4, ReadFacts DEF NamesInv
<1>6. \A f \in history : f.stamp \in known'
  BY <1>1 DEF Names
<1>7. \A f, g \in copies' : f.stamp = g.stamp => f = g
  BY <1>1, <1>5 DEF NamesInv
<1>8. \A f \in copies' : f.stamp <= polled' /\ f.stamp > polled
  BY <1>1, <1>5
<1>9. polled' \in Nat /\ polled <= polled' /\ history' = history
  BY <1>1, <1>3, <1>4 DEF diskVars
<1>. QED BY <1>1, <1>6, <1>7, <1>8, <1>9 DEF NamesInv

LEMMA StepKeepsNames ==
  ASSUME ClipboardInv, NamesInv, [Next]_vars, [~ ForgetsFiles]_vars
  PROVE  NamesInv'
<1>1. ASSUME NEW c \in Texts, UserCopies(c) PROVE NamesInv'
  <2>1. Write(c, FALSE, "user") /\ UNCHANGED <<copies, known, polled>>
    BY <1>1 DEF UserCopies, senderVars
  <2>. QED BY <2>1, WriteNames DEF Contents
<1>2. CASE Written
  <2>. DEFINE Filled(f) == [f EXCEPT !.full = TRUE]
  <2>1. \A f \in history : Filled(f).stamp = f.stamp
    BY FillFacts DEF ClipboardInv, TypeOK
  <2>2. /\ history' = {Filled(f) : f \in history}
        /\ UNCHANGED <<copies, known, polled>>
    BY <1>2 DEF Written, senderVars
  <2>. HIDE DEF Filled
  <2>. QED BY <2>1, <2>2 DEF NamesInv
<1>3. CASE Poll
  BY <1>3, PollNames
<1>4. CASE NextCopy
  <2>1. copies' \subseteq copies /\ UNCHANGED <<history, known, polled>>
    BY <1>4 DEF NextCopy, diskVars
  <2>. QED BY <2>1 DEF NamesInv
<1>5. CASE Add
  <2>1. CASE UNCHANGED <<history, stamps>>
    BY <1>5, <2>1 DEF Add, senderVars, NamesInv
  <2>2. CASE Write(Current.content, TRUE, "feed")
    <3>1. Current.content \in Contents
      BY <1>5, FeedFacts
         DEF Add, ClipboardInv, Current, TypeOK, FeedItem, Contents
    <3>2. UNCHANGED <<copies, known, polled>>
      BY <1>5 DEF Add, senderVars
    <3>. QED BY <2>2, <3>1, <3>2, WriteNames
  <2>. QED BY <1>5, <2>1, <2>2 DEF Add
<1>6. CASE HandleClear
  <2>1. UNCHANGED <<copies, polled>>
    BY <1>6 DEF HandleClear
  <2>2. CASE UNCHANGED <<known, history>>
    BY <2>1, <2>2 DEF NamesInv
  <2>3. CASE known' = {} /\ history' = {}
    BY <2>1, <2>3 DEF NamesInv
  <2>4. CASE known' = {} /\ history' # {} /\ UNCHANGED vars
    BY <2>1, <2>4 DEF NamesInv, vars, diskVars, senderVars
  <2>. QED BY <1>6, <2>2, <2>3, <2>4 DEF HandleClear, ForgetsFiles
<1>7. CASE Restart
  <2>1. known' = Names(history) /\ copies' = {} /\ UNCHANGED <<history, polled>>
    BY <1>7 DEF Restart, diskVars
  <2>. QED BY <2>1 DEF NamesInv, Names
<1>8. CASE \/ Flush \/ FlushNext \/ SendEnds \/ Note \/ Show \/ Keep \/ HandleFails
           \/ SaveCursor \/ Tick
  <2>1. UNCHANGED nameVars
    BY <1>8 DEF Flush, FlushNext, SendEnds, Note, Show, Keep, HandleFails, SaveCursor,
                Tick, nameVars, diskVars, senderVars
  <2>. QED BY <2>1 DEF nameVars, NamesInv
<1>9. CASE UNCHANGED vars
  BY <1>9 DEF vars, diskVars, senderVars, NamesInv
<1>. QED BY <1>1, <1>2, <1>3, <1>4, <1>5, <1>6, <1>7, <1>8, <1>9 DEF Next

LEMMA StepPollsNewFiles ==
  ASSUME ClipboardInv, NamesInv, [Next]_vars
  PROVE  \A f \in copies' \ copies : f.stamp > polled
<1>1. CASE Poll
  BY <1>1, PollNames
<1>2. CASE ~ Poll
  <2>1. copies' \subseteq copies
    BY <1>2 DEF Next, vars, UserCopies, Written, Flush, FlushNext, NextCopy, SendEnds,
                Note, Add, Show, Keep, HandleFails, HandleClear, SaveCursor, Restart,
                Tick, diskVars, senderVars
  <2>. QED BY <2>1
<1>. QED BY <1>1, <1>2

\* poll never returns a file twice, whatever is written, half-written, replaced
\* or restarted, as long as no clear fails with files left.
THEOREM OnlyNewFilesArePolled ==
  Spec /\ [][~ ForgetsFiles]_vars => NewCopiesOnly
<1>1. Init => NamesInv
  BY DEF Init, NamesInv
<1>2. ClipboardInv /\ NamesInv /\ [Next]_vars /\ [~ ForgetsFiles]_vars => NamesInv'
  BY StepKeepsNames
<1>3. ClipboardInv /\ NamesInv /\ [Next]_vars
      => [\A f \in copies' \ copies : f.stamp > polled]_vars
  BY StepPollsNewFiles
<1>. QED BY <1>1, <1>2, <1>3, ReceivedIsKept, PTL DEF Spec, NewCopiesOnly

-----------------------------------------------------------------------------
(* What received comes back as a file is known for an echo in time *)

\* The files that a poll has read, or will, and those of the user's among them:
\* each is an upload that the sender makes before it looks at a younger file.
Pending == copies \cup {f \in history : f.stamp \notin known}
UsersOf(set) == {f.stamp : f \in {g \in set : g.from = "user"}}
Queue == UsersOf(Pending)
Batch == UsersOf(copies)
Ahead(n) == {k \in Queue : k < n}

\* The uploads of a flush that come before the next poll at most: what the flush
\* still has to come to, or all that is queued by then if it has not begun.
Reflush == IF phase = "flush" THEN listed ELSE queued + Cardinality(Batch)

Backlog == Cardinality(Queue) + Cardinality(sending) + Reflush

\* The uploads that may begin before the sender looks at a file, which is only
\* past the flush if a poll has returned it.
Before(f) == Cardinality(Ahead(f.stamp)) + IF f.stamp > polled THEN Reflush ELSE 0

\* When the sender comes to a file at the latest, with k uploads before it, is
\* before the entry of its content goes stale.
InTime(f, k) ==
  /\ now + SendTicks * k < echoUntil[f.content]
  /\ \A s \in sending : s + SendTicks * (k + 1) < echoUntil[f.content]

EchoInv ==
  /\ IsFiniteSet(Queue)
  /\ phase = "flush" => copies = {}
  /\ phase = "poll" => listed = 0
  /\ \A c \in Contents : echoUntil[c] <= now + EchoWindow
  /\ step = "noted" => echoUntil[Current.content] = now + EchoWindow
  /\ \A f \in history \cup copies : f.from = "feed" => f.full
  /\ \A s, u \in sending : s <= now /\ s = u
  /\ \A f \in Pending : f.from = "feed" => InTime(f, Before(f))
  /\ NoBounce

LEMMA TimesIsMonotone ==
  ASSUME NEW j \in Nat, NEW k \in Nat, j <= k, NEW t \in Nat
  PROVE  t * j \in Nat /\ t * k \in Nat /\ t * j <= t * k
<1>1. t * k = t * j + t * (k - j)
  OBVIOUS
<1>2. t * j \in Nat /\ t * k \in Nat /\ t * (k - j) \in Nat
  OBVIOUS
<1>. QED BY <1>1, <1>2

LEMMA TimesNext ==
  ASSUME NEW k \in Nat, NEW t \in Nat
  PROVE  t * (k + 1) = t * k + t
OBVIOUS

\* Fewer uploads before it leave more time.
LEMMA InTimeIsMonotone ==
  ASSUME ClipboardInv, NEW f \in File, NEW j \in Nat, NEW k \in Nat, j <= k,
         InTime(f, k)
  PROVE  InTime(f, j)
<1>1. now \in Nat /\ SendTicks \in Nat /\ echoUntil[f.content] \in Nat
      /\ \A s \in sending : s \in Nat
  BY ClipboardAssumption DEF ClipboardInv, TypeOK, File, ClipboardAssumption
<1>2. SendTicks * j \in Nat /\ SendTicks * k \in Nat /\ SendTicks * j <= SendTicks * k
  BY <1>1, TimesIsMonotone
<1>3. /\ SendTicks * (j + 1) \in Nat /\ SendTicks * (k + 1) \in Nat
      /\ SendTicks * (j + 1) <= SendTicks * (k + 1)
  BY <1>1, TimesIsMonotone
<1>. QED BY <1>1, <1>2, <1>3 DEF InTime

LEMMA PendingFacts ==
  ASSUME ClipboardInv, EchoInv
  PROVE  /\ Pending \subseteq File /\ Queue \subseteq Nat
         /\ \A n \in Nat : IsFiniteSet(Ahead(n)) /\ Cardinality(Ahead(n)) \in Nat
         /\ Batch \subseteq Queue /\ IsFiniteSet(Batch)
         /\ Cardinality(Queue) \in Nat /\ Cardinality(Batch) \in Nat
         /\ Cardinality(Batch) <= Cardinality(Queue)
         /\ Reflush \in Nat
<1>1. Pending \subseteq File /\ Queue \subseteq Nat
  BY DEF ClipboardInv, TypeOK, Pending, Queue, UsersOf, File
<1>2. ASSUME NEW n \in Nat PROVE IsFiniteSet(Ahead(n)) /\ Cardinality(Ahead(n)) \in Nat
  <2>1. Ahead(n) \subseteq Queue
    BY DEF Ahead
  <2>2. IsFiniteSet(Ahead(n))
    BY <2>1, FS_Subset DEF EchoInv
  <2>. QED BY <2>2, FS_CardinalityType
<1>3. Batch \subseteq Queue
  BY DEF Batch, Queue, UsersOf, Pending
<1>4. /\ IsFiniteSet(Batch) /\ Cardinality(Batch) <= Cardinality(Queue)
      /\ Cardinality(Queue) \in Nat /\ Cardinality(Batch) \in Nat
  BY <1>3, FS_Subset, FS_CardinalityType DEF EchoInv
<1>5. Reflush \in Nat
  BY <1>4 DEF Reflush, ClipboardInv, TypeOK
<1>. QED BY <1>1, <1>2, <1>3, <1>4, <1>5

LEMMA BeforeFacts ==
  ASSUME ClipboardInv, EchoInv, NEW f \in Pending
  PROVE  /\ f \in File /\ f.stamp \in Nat /\ f.content \in Contents
         /\ Before(f) \in Nat /\ Cardinality(Ahead(f.stamp)) \in Nat
         /\ Cardinality(Ahead(f.stamp)) <= Before(f)
<1>1. f \in File /\ f.stamp \in Nat /\ f.content \in Contents
  BY PendingFacts DEF File
<1>2. Cardinality(Ahead(f.stamp)) \in Nat /\ Reflush \in Nat
  BY <1>1, PendingFacts
<1>. QED BY <1>1, <1>2 DEF Before

LEMMA InitEcho == Init => EchoInv
<1>. SUFFICES ASSUME Init PROVE EchoInv
  OBVIOUS
<1>1. /\ history = {} /\ copies = {} /\ sending = {} /\ sent = {} /\ step = "idle"
      /\ echoUntil = [c \in Contents |-> 0] /\ now = 1
      /\ phase = "poll" /\ listed = 0
  BY DEF Init
<1>2. Pending = {} /\ Queue = {}
  BY <1>1 DEF Pending, Queue, UsersOf
<1>3. IsFiniteSet(Queue)
  BY <1>2, FS_EmptySet
<1>. QED BY <1>1, <1>2, <1>3, ClipboardAssumption
         DEF EchoInv, NoBounce, ClipboardAssumption

\* A step that puts nothing of the feed in the way of the sender, and nothing
\* before what is there.
LEMMA PendingShrinks ==
  ASSUME ClipboardInv, EchoInv, now' = now, NoBounce',
         sending' \subseteq sending,
         polled' \in Nat, polled <= polled', Reflush' \in Nat, Reflush' <= Reflush,
         phase' = "flush" => copies' = {}, phase' = "poll" => listed' = 0,
         \A c \in Contents : /\ echoUntil'[c] \in Nat /\ echoUntil[c] <= echoUntil'[c]
                             /\ echoUntil'[c] <= now + EchoWindow,
         step' = "noted" => echoUntil'[Current'.content] = now + EchoWindow,
         \A f \in history' \cup copies' : f.from = "feed" => f.full,
         \A f \in Pending' : f.from = "feed" => f \in Pending \/ InTime(f, Before(f))',
         IsFiniteSet(Queue'),
         \A f \in Pending : \A k \in Queue' : k < f.stamp => k \in Queue
  PROVE  EchoInv'
<1>1. ASSUME NEW f \in Pending', f.from = "feed", f \in Pending
      PROVE  InTime(f, Before(f))'
  <2>1. f \in Pending /\ f \in File /\ f.stamp \in Nat /\ f.content \in Contents
    BY <1>1, BeforeFacts
  <2>2. PICK m : m = Ahead(f.stamp)
    OBVIOUS
  <2>3. PICK m1 : m1 = Ahead(f.stamp)'
    OBVIOUS
  <2>4. m1 \subseteq m
    BY <2>1, <2>2, <2>3 DEF Ahead
  <2>5. IsFiniteSet(m) /\ Cardinality(m) \in Nat
    BY <2>1, <2>2, PendingFacts
  <2>6. Cardinality(m1) \in Nat /\ Cardinality(m1) <= Cardinality(m)
    BY <2>4, <2>5, FS_Subset, FS_CardinalityType
  <2>7. PICK j, k : j = Before(f)' /\ k = Before(f)
    OBVIOUS
  <2>8. j \in Nat /\ k \in Nat /\ j <= k
    <3>1. polled \in Nat /\ Reflush \in Nat
      BY PendingFacts DEF ClipboardInv, TypeOK
    <3>. QED BY <2>1, <2>2, <2>3, <2>5, <2>6, <2>7, <3>1 DEF Before
  <2>9. InTime(f, k)
    BY <1>1, <2>1, <2>7 DEF EchoInv
  <2>10. InTime(f, j)
    BY <2>1, <2>8, <2>9, InTimeIsMonotone
  <2>11. /\ now \in Nat /\ SendTicks \in Nat /\ echoUntil[f.content] \in Nat
         /\ \A s \in sending : s \in Nat
         /\ SendTicks * j \in Nat /\ SendTicks * (j + 1) \in Nat
    BY <2>1, <2>8, ClipboardAssumption, TimesIsMonotone
       DEF ClipboardInv, TypeOK, ClipboardAssumption
  <2>12. /\ now' + SendTicks * j < echoUntil'[f.content]
         /\ \A s \in sending' : s + SendTicks * (j + 1) < echoUntil'[f.content]
    BY <2>1, <2>10, <2>11 DEF InTime
  <2>. QED BY <2>7, <2>12 DEF InTime
<1>2. \A s, u \in sending' : s <= now' /\ s = u
  BY DEF EchoInv
<1>. QED BY <1>1, <1>2 DEF EchoInv

\* A step that leaves these alone.
echoVars == <<history, copies, known, sending, queued, phase, listed, sent, polled,
              echoUntil, now, step, at>>

LEMMA EchoUnchanged ==
  ASSUME EchoInv, UNCHANGED echoVars
  PROVE  EchoInv'
<1>1. /\ Pending' = Pending /\ Queue' = Queue /\ Batch' = Batch /\ Current' = Current
      /\ Reflush' = Reflush
  BY DEF echoVars, Pending, Queue, Batch, UsersOf, Current, Reflush
<1>2. ASSUME NEW f \in Pending, f.from = "feed"
      PROVE  InTime(f, Before(f))'
  <2>1. Ahead(f.stamp)' = Ahead(f.stamp)
    BY <1>1 DEF Ahead
  <2>2. Before(f)' = Before(f)
    BY <1>1, <2>1 DEF Before, echoVars
  <2>3. InTime(f, Before(f))
    BY <1>2 DEF EchoInv
  <2>. QED BY <2>2, <2>3 DEF echoVars, InTime
<1>. QED BY <1>1, <1>2 DEF EchoInv, echoVars, NoBounce

LEMMA EchoTimes ==
  ASSUME ClipboardInv, EchoInv, UNCHANGED echoUntil
  PROVE  \A c \in Contents : /\ echoUntil'[c] \in Nat /\ echoUntil[c] <= echoUntil'[c]
                             /\ echoUntil'[c] <= now + EchoWindow
BY DEF ClipboardInv, TypeOK, EchoInv

\* The sender's side of a step in which it does nothing.
senderIdle == <<copies, sending, queued, phase, listed, sent, polled>>

LEMMA SenderIdle ==
  ASSUME ClipboardInv, EchoInv, UNCHANGED senderIdle
  PROVE  /\ NoBounce' /\ sending' \subseteq sending
         /\ polled' \in Nat /\ polled <= polled'
         /\ Batch' = Batch /\ Reflush' = Reflush /\ Reflush' \in Nat /\ Reflush' <= Reflush
         /\ phase' = "flush" => copies' = {}
         /\ phase' = "poll" => listed' = 0
<1>1. Batch' = Batch /\ Reflush' = Reflush
  BY DEF senderIdle, Batch, UsersOf, Reflush
<1>2. NoBounce'
  BY DEF senderIdle, EchoInv, NoBounce
<1>3. Reflush \in Nat /\ polled \in Nat
  BY PendingFacts DEF ClipboardInv, TypeOK
<1>. QED BY <1>1, <1>2, <1>3 DEF senderIdle, EchoInv

\* A copy of the user's is the youngest file: nothing waits for it.
LEMMA UserCopiesKeepsEcho ==
  ASSUME ClipboardInv, NamesInv, EchoInv, NEW c \in Texts, UserCopies(c)
  PROVE  EchoInv' /\ \E n \in Nat : Queue' \subseteq Queue \cup {n}
<1>. DEFINE new == [stamp |-> stamps + 1, content |-> c, full |-> FALSE,
                    from |-> "user"]
            n == stamps + 1
<1>1. /\ history' = Others(c) \cup {new}
      /\ UNCHANGED <<known, echoUntil, now, step, at>> /\ UNCHANGED senderIdle
  BY DEF UserCopies, Write, senderVars, receiverVars, senderIdle
<1>2. new.stamp = n /\ new.from = "user" /\ Others(c) \subseteq history
  BY DEF Others
<1>. HIDE DEF new
<1>3. /\ \A f \in history : f.stamp \in Nat /\ f.stamp <= stamps
      /\ \A f \in copies : f.stamp \in Nat
      /\ stamps \in Nat
  BY DEF ClipboardInv, TypeOK, File
<1>4. Pending' \subseteq Pending \cup {new}
  BY <1>1, <1>2 DEF Pending, senderIdle
<1>5. Queue' \subseteq Queue \cup {n}
  BY <1>2, <1>4 DEF Queue, UsersOf
<1>6. IsFiniteSet(Queue')
  <2>1. IsFiniteSet(Queue \cup {n})
    BY FS_AddElement DEF EchoInv
  <2>. QED BY <1>5, <2>1, FS_Subset
<1>7. \A f \in Pending' : f.from = "feed" => f \in Pending
  BY <1>2, <1>4
<1>8. \A f \in history' \cup copies' : f.from = "feed" => f.full
  BY <1>1, <1>2 DEF EchoInv, senderIdle
<1>9. \A f \in Pending : \A k \in Queue' : k < f.stamp => k \in Queue
  <2>1. \A f \in Pending : f.stamp \in Nat /\ f.stamp <= n
    <3>1. \A f \in copies : f.stamp <= stamps
      BY <1>3 DEF ClipboardInv, TypeOK, NamesInv
    <3>. QED BY <1>3, <3>1 DEF Pending
  <2>. QED BY <1>5, <2>1, <1>3
<1>10. Current' = Current /\ (step' = "noted" => step = "noted")
  BY <1>1 DEF Current
<1>11. EchoInv'
  BY <1>1, <1>6, <1>7, <1>8, <1>9, <1>10, EchoTimes, SenderIdle, PendingShrinks
     DEF EchoInv
<1>. QED BY <1>3, <1>5, <1>11

\* A file written full: what waits is the same.
LEMMA WrittenKeepsEcho ==
  ASSUME ClipboardInv, EchoInv, Written
  PROVE  EchoInv' /\ Queue' = Queue
<1>. DEFINE Filled(f) == [f EXCEPT !.full = TRUE]
<1>1. \A f \in history : /\ Filled(f).stamp = f.stamp /\ Filled(f).from = f.from
                         /\ Filled(f).full
                         /\ f.full => Filled(f) = f
  BY FillFacts DEF ClipboardInv, TypeOK
<1>2. /\ history' = {Filled(f) : f \in history} /\ copies' = copies
      /\ UNCHANGED <<known, echoUntil, now, step, at>> /\ UNCHANGED senderIdle
  BY DEF Written, senderVars, receiverVars, counters, senderIdle
<1>. HIDE DEF Filled
<1>3. \A f \in history' \cup copies' : f.from = "feed" => f.full
  BY <1>1, <1>2 DEF EchoInv
<1>4. \A f \in history : f.from = "feed" => Filled(f) = f
  BY <1>1 DEF EchoInv
<1>5. \A f \in Pending' : f.from = "feed" => f \in Pending
  BY <1>1, <1>2, <1>4 DEF Pending
<1>6. Queue' = Queue
  <2>1. Queue' \subseteq Queue
    BY <1>1, <1>2 DEF Queue, UsersOf, Pending
  <2>2. ASSUME NEW f \in Pending, f.from = "user" PROVE f.stamp \in Queue'
    <3>1. CASE f \in copies
      BY <1>2, <2>2, <3>1 DEF Queue, UsersOf, Pending
    <3>2. CASE f \in history /\ f.stamp \notin known
      <4>1. /\ Filled(f) \in history' /\ Filled(f).stamp \notin known'
            /\ Filled(f).from = "user" /\ Filled(f).stamp = f.stamp
        BY <1>1, <1>2, <2>2, <3>2
      <4>. QED BY <4>1 DEF Queue, UsersOf, Pending
    <3>. QED BY <2>2, <3>1, <3>2 DEF Pending
  <2>. QED BY <2>1, <2>2 DEF Queue, UsersOf
<1>7. Current' = Current
  BY <1>2 DEF Current
<1>8. EchoInv'
  BY <1>2, <1>3, <1>5, <1>6, <1>7, EchoTimes, SenderIdle, PendingShrinks DEF EchoInv
<1>. QED BY <1>6, <1>8

\* The poll after the flush, or without one: nothing is before it any more.
LEMMA PollKeepsEcho ==
  ASSUME ClipboardInv, NamesInv, EchoInv, Poll
  PROVE  EchoInv' /\ Queue' \subseteq Queue
<1>1. /\ copies' = {Read(f) : f \in {g \in history : g.stamp \notin known}}
      /\ known' = Names(history)
      /\ polled' \in Nat /\ polled <= polled' /\ phase' = "poll"
      /\ UNCHANGED <<history, sending, queued, listed, sent, echoUntil, now, step, at>>
  BY PollNames DEF Poll, diskVars, receiverVars, counters
<1>2. \A f \in history : /\ Read(f).stamp = f.stamp /\ Read(f).from = f.from
                         /\ f.from = "feed" => Read(f) = f
  BY ReadFacts DEF ClipboardInv, TypeOK, EchoInv
<1>3. Pending' = copies'
  BY <1>1 DEF Pending, Names
<1>4. \A f \in copies' : /\ f.from = "feed" => f \in Pending /\ f \in history
                         /\ f.from = "user" => f.stamp \in Queue
  BY <1>1, <1>2 DEF Pending, Queue, UsersOf
<1>5. Queue' \subseteq Queue
  BY <1>3, <1>4 DEF Queue, UsersOf
<1>6. IsFiniteSet(Queue') /\ Cardinality(Queue') \in Nat
  BY <1>5, FS_Subset, FS_CardinalityType DEF EchoInv
<1>7. \A f \in history' \cup copies' : f.from = "feed" => f.full
  BY <1>1, <1>4 DEF EchoInv
<1>8. listed' = 0
  BY <1>1 DEF Poll, EchoInv, ClipboardInv, TypeOK
<1>9. ASSUME NEW f \in Pending', f.from = "feed"
      PROVE  InTime(f, Before(f))'
  <2>1. f \in Pending /\ f \in File /\ f.stamp \in Nat /\ Before(f) \in Nat
        /\ Cardinality(Ahead(f.stamp)) \in Nat
        /\ Cardinality(Ahead(f.stamp)) <= Before(f)
    BY <1>3, <1>4, <1>9, BeforeFacts
  <2>2. f.stamp <= polled'
    <3>1. NamesInv'
      BY PollNames
    <3>. QED BY <1>3, <1>9, <3>1 DEF NamesInv
  <2>3. Before(f)' = Cardinality(Ahead(f.stamp)')
    <3>1. ~ (f.stamp > polled')
      BY <1>1, <2>1, <2>2
    <3>2. Cardinality(Ahead(f.stamp)') \in Nat
      <4>1. Ahead(f.stamp)' \subseteq Queue'
        BY DEF Ahead
      <4>. QED BY <1>6, <4>1, FS_Subset, FS_CardinalityType
    <3>. QED BY <3>1, <3>2 DEF Before
  <2>4. PICK m, m1 : m = Ahead(f.stamp) /\ m1 = Ahead(f.stamp)'
    OBVIOUS
  <2>5. m1 \subseteq m
    BY <1>5, <2>4 DEF Ahead
  <2>6. IsFiniteSet(m)
    BY <2>1, <2>4, PendingFacts
  <2>7. Cardinality(m1) \in Nat /\ Cardinality(m1) <= Cardinality(m)
    BY <2>5, <2>6, FS_Subset, FS_CardinalityType
  <2>8. PICK k : k = Cardinality(m1)
    OBVIOUS
  <2>9. k \in Nat /\ k <= Before(f)
    BY <2>1, <2>4, <2>7, <2>8
  <2>10. InTime(f, Before(f))
    BY <1>9, <2>1 DEF EchoInv
  <2>11. InTime(f, k)
    BY <2>1, <2>9, <2>10, InTimeIsMonotone
  <2>12. InTime(f, k)'
    BY <1>1, <2>11 DEF InTime
  <2>. QED BY <2>3, <2>4, <2>8, <2>12
<1>10. Current' = Current
  BY <1>1 DEF Current
<1>. QED BY <1>1, <1>5, <1>6, <1>7, <1>8, <1>9, <1>10 DEF EchoInv, NoBounce

\* What a flush goes through was waiting for one already.
LEMMA FlushKeepsEcho ==
  ASSUME ClipboardInv, EchoInv, Flush
  PROVE  EchoInv' /\ Queue' = Queue
<1>1. /\ phase = "poll" /\ copies = {} /\ phase' = "flush" /\ listed' = queued
      /\ UNCHANGED <<history, copies, known, sending, queued, sent, polled, echoUntil,
                     now, step, at>>
  BY DEF Flush, diskVars, receiverVars, counters
<1>2. Pending' = Pending /\ Queue' = Queue /\ Current' = Current
  BY <1>1 DEF Pending, Queue, UsersOf, Current
<1>3. Cardinality(Batch) = 0
  <2>1. Batch = {}
    BY <1>1 DEF Batch, UsersOf
  <2>. QED BY <2>1, FS_EmptySet
<1>4. queued \in Nat /\ polled \in Nat
  BY DEF ClipboardInv, TypeOK
<1>5. Reflush' \in Nat /\ Reflush' <= Reflush
  BY <1>1, <1>3, <1>4 DEF Reflush
<1>6. NoBounce'
  BY <1>1 DEF EchoInv, NoBounce
<1>7. IsFiniteSet(Queue')
  BY <1>2 DEF EchoInv
<1>8. /\ sending' \subseteq sending /\ polled' \in Nat /\ polled <= polled'
      /\ phase' = "flush" => copies' = {}
      /\ phase' = "poll" => listed' = 0
  BY <1>1, <1>4
<1>9. EchoInv'
  BY <1>1, <1>2, <1>5, <1>6, <1>7, <1>8, EchoTimes, PendingShrinks DEF EchoInv
<1>. QED BY <1>2, <1>9

\* One upload fewer to come, and one begun.
LEMMA FlushNextKeepsEcho ==
  ASSUME ClipboardInv, NamesInv, EchoInv, FlushNext
  PROVE  EchoInv' /\ Queue' = Queue
<1>1. /\ phase = "flush" /\ copies = {} /\ listed > 0 /\ listed' = listed - 1
      /\ sending = {} /\ sending' \subseteq {now}
      /\ UNCHANGED <<history, copies, known, queued, phase, sent, polled, echoUntil,
                     now, step, at>>
  BY DEF FlushNext, EchoInv, diskVars, receiverVars, counters
<1>2. Pending' = Pending /\ Queue' = Queue /\ Current' = Current
  BY <1>1 DEF Pending, Queue, UsersOf, Current
<1>3. ASSUME NEW f \in Pending, f.from = "feed"
      PROVE  InTime(f, Before(f))'
  <2>1. f.stamp \in Nat /\ Before(f) \in Nat /\ f.content \in Contents
        /\ Cardinality(Ahead(f.stamp)) \in Nat
    BY <1>3, BeforeFacts
  <2>2. f.stamp > polled
    BY <1>1, <1>3 DEF NamesInv, Pending
  <2>3. Ahead(f.stamp)' = Ahead(f.stamp)
    BY <1>2 DEF Ahead
  <2>4. Before(f) = Before(f)' + 1 /\ Before(f)' \in Nat
    <3>1. Reflush = listed /\ Reflush' = listed - 1 /\ listed \in Nat
      BY <1>1 DEF Reflush, ClipboardInv, TypeOK
    <3>. QED BY <1>1, <2>1, <2>2, <2>3, <3>1 DEF Before
  <2>5. PICK k : k = Before(f)'
    OBVIOUS
  <2>6. k \in Nat /\ InTime(f, k + 1)
    BY <1>3, <2>4, <2>5 DEF EchoInv
  <2>7. /\ now \in Nat /\ SendTicks \in Nat /\ echoUntil[f.content] \in Nat
        /\ SendTicks * k \in Nat /\ SendTicks * (k + 1) \in Nat
        /\ SendTicks * k <= SendTicks * (k + 1)
    BY <2>1, <2>6, ClipboardAssumption, TimesIsMonotone
       DEF ClipboardInv, TypeOK, ClipboardAssumption
  <2>8. now + SendTicks * (k + 1) < echoUntil[f.content]
    BY <2>6 DEF InTime
  <2>9. now + SendTicks * k < echoUntil[f.content]
    BY <2>7, <2>8
  <2>10. InTime(f, k)'
    BY <1>1, <2>8, <2>9 DEF InTime
  <2>. QED BY <2>5, <2>10
<1>4. \A s, u \in sending' : s <= now' /\ s = u
  BY <1>1 DEF ClipboardInv, TypeOK
<1>. QED BY <1>1, <1>2, <1>3, <1>4 DEF EchoInv, NoBounce

\* Nothing is waiting after these, or less than before.
LEMMA ClearKeepsEcho ==
  ASSUME ClipboardInv, EchoInv, HandleClear, ~ ForgetsFiles
  PROVE  EchoInv' /\ Queue' \subseteq Queue /\ queued' \in Nat /\ queued' <= queued
<1>1. /\ step = "idle" /\ queued' \in Nat /\ queued' <= queued
      /\ UNCHANGED <<copies, sending, phase, listed, sent, polled, echoUntil, now, step>>
  BY DEF HandleClear, ClipboardInv, TypeOK
<1>2. \/ history' = {} /\ known' = {}
      \/ UNCHANGED <<known, history>>
  BY DEF HandleClear, ForgetsFiles
<1>3. Pending' \subseteq Pending /\ history' \subseteq history
  BY <1>1, <1>2 DEF Pending
<1>4. Queue' \subseteq Queue
  BY <1>3 DEF Queue, UsersOf
<1>5. IsFiniteSet(Queue')
  BY <1>4, FS_Subset DEF EchoInv
<1>6. Batch' = Batch
  BY <1>1 DEF Batch, UsersOf
<1>7. Reflush' \in Nat /\ Reflush' <= Reflush
  <2>1. /\ Cardinality(Batch') = Cardinality(Batch) /\ Cardinality(Batch) \in Nat
        /\ queued \in Nat /\ listed \in Nat
    BY <1>6, PendingFacts DEF ClipboardInv, TypeOK
  <2>. QED BY <1>1, <2>1 DEF Reflush
<1>8. /\ NoBounce' /\ polled' \in Nat /\ polled <= polled'
      /\ phase' = "flush" => copies' = {}
      /\ phase' = "poll" => listed' = 0
  BY <1>1 DEF EchoInv, NoBounce, ClipboardInv, TypeOK
<1>9. EchoInv'
  BY <1>1, <1>3, <1>4, <1>5, <1>7, <1>8, EchoTimes, PendingShrinks DEF EchoInv
<1>. QED BY <1>1, <1>4, <1>9

LEMMA NoteKeepsEcho ==
  ASSUME ClipboardInv, EchoInv, Note
  PROVE  EchoInv' /\ Queue' = Queue
<1>1. /\ echoUntil' = [echoUntil EXCEPT ![Current.content] = now + EchoWindow]
      /\ at < Len(Feed) /\ Current.content # Clear
      /\ UNCHANGED <<history, known, now, at>> /\ UNCHANGED senderIdle
      /\ copies' = copies
  BY DEF Note, diskVars, senderVars, counters, senderIdle
<1>2. Current \in FeedItem /\ Current.content \in Contents
  BY <1>1, FeedFacts DEF Current, ClipboardInv, TypeOK, FeedItem, Contents
<1>3. now + EchoWindow \in Nat /\ echoUntil \in [Contents -> Nat]
  BY ClipboardAssumption DEF ClipboardAssumption, ClipboardInv, TypeOK
<1>4. \A c \in Contents : /\ echoUntil'[c] \in Nat /\ echoUntil[c] <= echoUntil'[c]
                          /\ echoUntil'[c] <= now + EchoWindow
  BY <1>1, <1>2, <1>3 DEF EchoInv
<1>5. Pending' = Pending /\ Queue' = Queue /\ Current' = Current
  BY <1>1 DEF Pending, Queue, UsersOf, Current
<1>6. echoUntil'[Current'.content] = now + EchoWindow
  BY <1>1, <1>2, <1>3, <1>5
<1>7. EchoInv'
  BY <1>1, <1>4, <1>5, <1>6, SenderIdle, PendingShrinks DEF EchoInv
<1>. QED BY <1>5, <1>7

LEMMA RestartKeepsEcho ==
  ASSUME ClipboardInv, EchoInv, Restart
  PROVE  EchoInv' /\ Queue' = {} /\ sending' = {}
<1>1. /\ known' = Names(history) /\ copies' = {} /\ sending' = {}
      /\ phase' = "poll" /\ listed' = 0
      /\ echoUntil' = [c \in Contents |-> 0] /\ step' = "idle"
      /\ UNCHANGED <<history, sent, now>>
  BY DEF Restart, diskVars
<1>2. Pending' = {} /\ Queue' = {}
  BY <1>1 DEF Pending, Queue, UsersOf, Names
<1>3. IsFiniteSet(Queue')
  BY <1>2, FS_EmptySet
<1>4. \A c \in Contents : echoUntil'[c] <= now' + EchoWindow
  BY <1>1, ClipboardAssumption DEF ClipboardAssumption, ClipboardInv, TypeOK
<1>. QED BY <1>1, <1>2, <1>3, <1>4 DEF EchoInv, NoBounce

LEMMA SendEndsKeepsEcho ==
  ASSUME ClipboardInv, EchoInv, SendEnds
  PROVE  /\ EchoInv' /\ Queue' = Queue /\ sending' = {}
         /\ queued' \in Nat /\ queued' <= queued /\ listed' \in Nat /\ listed' <= listed
<1>1. /\ sending' = {} /\ queued' \in Nat /\ queued' <= queued
      /\ listed' \in Nat /\ listed' <= listed
      /\ UNCHANGED <<history, copies, known, phase, sent, polled, echoUntil, now, step,
                     at>>
  BY SentLeaves
     DEF SendEnds, diskVars, receiverVars, counters, ClipboardInv, TypeOK
<1>2. /\ Pending' = Pending /\ Queue' = Queue /\ Batch' = Batch /\ Current' = Current
  BY <1>1 DEF Pending, Queue, Batch, UsersOf, Current
<1>3. Reflush' \in Nat /\ Reflush' <= Reflush
  <2>1. /\ Cardinality(Batch') = Cardinality(Batch) /\ Cardinality(Batch) \in Nat
        /\ queued \in Nat /\ listed \in Nat
    BY <1>2, PendingFacts DEF ClipboardInv, TypeOK
  <2>. QED BY <1>1, <2>1 DEF Reflush
<1>4. /\ NoBounce' /\ polled' \in Nat /\ polled <= polled'
      /\ phase' = "flush" => copies' = {}
      /\ phase' = "poll" => listed' = 0
  BY <1>1 DEF EchoInv, NoBounce, ClipboardInv, TypeOK
<1>5. EchoInv'
  BY <1>1, <1>2, <1>3, <1>4, EchoTimes, PendingShrinks DEF EchoInv
<1>. QED BY <1>1, <1>2, <1>5

\* The window is as long as Limit uploads, and no more than Limit are before the
\* file of an item that was just received.
LEMMA AddKeepsEcho ==
  ASSUME ClipboardInv, NamesInv, EchoInv, Add,
         NEW Limit \in Nat, Limit * SendTicks < EchoWindow, Backlog <= Limit
  PROVE  EchoInv' /\ Queue' \subseteq Queue
<1>0. PICK c, n, new :
        /\ c = Current.content /\ n = stamps + 1
        /\ new = [stamp |-> n, content |-> c, full |-> TRUE, from |-> "feed"]
  OBVIOUS
<1>1. /\ step = "noted" /\ step' = "added" /\ copies' = copies /\ sending' = sending
      /\ UNCHANGED <<known, echoUntil, now, at>> /\ UNCHANGED senderIdle
  BY DEF Add, senderVars, senderIdle
<1>2. c \in Contents /\ echoUntil[c] = now + EchoWindow
  BY <1>0, <1>1, FeedFacts
     DEF EchoInv, ClipboardInv, Current, TypeOK, FeedItem, Contents
<1>3. /\ history' \subseteq history \cup {new}
      /\ \A f \in history : f.stamp \in Nat /\ f.stamp < n
      /\ \A f \in copies : f.stamp \in Nat /\ f.stamp < n
      /\ n \in Nat
  BY <1>0 DEF Add, Write, Others, ClipboardInv, TypeOK, File, NamesInv
<1>4. new \in File /\ new.stamp = n /\ new.from = "feed" /\ new.full /\ new.content = c
  BY <1>0, <1>2, <1>3 DEF File, ClipboardInv, TypeOK
<1>5. Pending' \subseteq Pending \cup {new}
  BY <1>1, <1>3 DEF Pending
<1>6. Queue' \subseteq Queue
  BY <1>4, <1>5 DEF Queue, UsersOf
<1>7. IsFiniteSet(Queue') /\ Cardinality(Queue') <= Cardinality(Queue)
      /\ Cardinality(Queue') \in Nat /\ Cardinality(Queue) \in Nat
  BY <1>6, FS_Subset, FS_CardinalityType DEF EchoInv
<1>8. InTime(new, Before(new))'
  <2>1. PICK m : m = Ahead(n)'
    OBVIOUS
  <2>2. m \subseteq Queue'
    BY <2>1 DEF Ahead
  <2>3. Cardinality(m) \in Nat /\ Cardinality(m) <= Cardinality(Queue')
    BY <1>7, <2>2, FS_Subset, FS_CardinalityType
  <2>4. PICK k : k = Before(new)'
    OBVIOUS
  <2>5. Reflush \in Nat /\ Reflush' = Reflush
    BY <1>1, PendingFacts, SenderIdle
  <2>6. k \in Nat /\ k <= Cardinality(Queue) + Reflush
    BY <1>4, <1>7, <2>1, <2>3, <2>4, <2>5 DEF Before
  <2>7. /\ now \in Nat /\ EchoWindow \in Nat /\ SendTicks \in Nat
        /\ \A s \in sending : s \in Nat /\ s <= now
    BY ClipboardAssumption DEF ClipboardInv, TypeOK, EchoInv, ClipboardAssumption
  <2>8. CASE sending = {}
    <3>1. Cardinality(sending) = 0
      BY <2>8, FS_EmptySet
    <3>2. k <= Limit
      BY <1>7, <2>5, <2>6, <3>1 DEF Backlog
    <3>3. SendTicks * k <= SendTicks * Limit /\ SendTicks * k \in Nat
      BY <2>6, <2>7, <3>2, TimesIsMonotone
    <3>4. SendTicks * Limit = Limit * SendTicks /\ SendTicks * Limit \in Nat
      BY <2>7
    <3>5. now + SendTicks * k < now + EchoWindow
      BY <2>7, <3>3, <3>4
    <3>. QED BY <1>1, <1>2, <1>4, <2>4, <2>8, <3>5 DEF InTime
  <2>9. ASSUME NEW s \in sending
        PROVE  InTime(new, k)'
    <3>1. sending = {s}
      BY <2>9 DEF EchoInv
    <3>2. Cardinality(sending) = 1
      BY <3>1, FS_Singleton
    <3>3. k + 1 <= Limit
      BY <1>7, <2>5, <2>6, <3>2 DEF Backlog
    <3>4. SendTicks * (k + 1) <= SendTicks * Limit /\ SendTicks * (k + 1) \in Nat
      BY <2>6, <2>7, <3>3, TimesIsMonotone
    <3>5. SendTicks * k <= SendTicks * (k + 1) /\ SendTicks * k \in Nat
      BY <2>6, <2>7, TimesIsMonotone
    <3>6. SendTicks * Limit = Limit * SendTicks /\ SendTicks * Limit \in Nat
      BY <2>7
    <3>7. /\ now + SendTicks * k < now + EchoWindow
          /\ s + SendTicks * (k + 1) < now + EchoWindow
      BY <2>7, <3>4, <3>5, <3>6
    <3>. QED BY <1>1, <1>2, <1>4, <3>1, <3>7 DEF InTime
  <2>. QED BY <2>4, <2>8, <2>9
<1>9. \A f \in Pending' : f.from = "feed" => f \in Pending \/ InTime(f, Before(f))'
  BY <1>4, <1>5, <1>8
<1>10. \A f \in history' \cup copies' : f.from = "feed" => f.full
  BY <1>1, <1>3, <1>4 DEF EchoInv
<1>11. EchoInv'
  BY <1>1, <1>6, <1>7, <1>9, <1>10, EchoTimes, SenderIdle, PendingShrinks DEF EchoInv
<1>. QED BY <1>6, <1>11

\* Nothing received is sent: the sender comes to its file in time.
LEMMA NextCopyKeepsEcho ==
  ASSUME ClipboardInv, NamesInv, EchoInv, NextCopy
  PROVE  /\ EchoInv'
         /\ \/ Queue' \subseteq Queue /\ UNCHANGED <<sending, queued>>
            \/ /\ sending = {} /\ sending' \subseteq {now} /\ queued' = queued + 1
               /\ \E n \in Queue : Queue' \subseteq Queue \ {n}
<1>0. PICK f : f = Oldest(copies)
  OBVIOUS
<1>1. /\ copies # {} /\ copies' = copies \ {f} /\ sending = {}
      /\ UNCHANGED <<history, known, phase, listed, polled, echoUntil, now, step, at>>
      /\ \/ UNCHANGED <<sending, sent, queued>>
         \/ ~ IsEcho(f.content) /\ Send(f)
  BY <1>0 DEF NextCopy, Skip, diskVars, receiverVars
<1>2. f \in copies /\ \A g \in copies : f.stamp <= g.stamp
  BY <1>0, <1>1, OldestFacts DEF ClipboardInv, TypeOK
<1>3. f \in Pending /\ f \in File /\ f.stamp \in Nat /\ f.content \in Contents
      /\ f.from \in {"user", "feed"}
  BY <1>2, PendingFacts DEF Pending, File
<1>4. Pending' \subseteq Pending /\ Queue' \subseteq Queue
  BY <1>1 DEF Pending, Queue, UsersOf
<1>5. /\ Current' = Current
      /\ phase = "poll" /\ listed' = 0
      /\ polled' \in Nat /\ polled <= polled' /\ queued \in Nat
  BY <1>1 DEF Current, EchoInv, ClipboardInv, TypeOK
<1>6. IsFiniteSet(Queue')
  BY <1>4, FS_Subset DEF EchoInv
<1>7. PICK b, b1 : b = Batch /\ b1 = Batch'
  OBVIOUS
<1>8. /\ b1 \subseteq b /\ IsFiniteSet(b) /\ Cardinality(b) \in Nat
      /\ Cardinality(b1) \in Nat /\ Cardinality(b1) <= Cardinality(b)
  <2>1. b1 \subseteq b
    BY <1>1, <1>7 DEF Batch, UsersOf
  <2>. QED BY <1>7, <2>1, PendingFacts, FS_Subset, FS_CardinalityType
<1>9. Reflush = queued + Cardinality(b) /\ Reflush' = queued' + Cardinality(b1)
  BY <1>1, <1>5, <1>7 DEF Reflush
<1>10. CASE UNCHANGED <<sending, sent, queued>>
  <2>1. Reflush' \in Nat /\ Reflush' <= Reflush
    BY <1>5, <1>8, <1>9, <1>10
  <2>2. NoBounce'
    BY <1>10 DEF EchoInv, NoBounce
  <2>3. \A g \in history' \cup copies' : g.from = "feed" => g.full
    BY <1>1 DEF EchoInv
  <2>4. step' = "noted" => echoUntil'[Current'.content] = now + EchoWindow
    BY <1>1, <1>5 DEF EchoInv
  <2>5. /\ sending' \subseteq sending /\ now' = now
        /\ phase' = "flush" => copies' = {}
        /\ phase' = "poll" => listed' = 0
    BY <1>1, <1>5, <1>10
  <2>6. EchoInv'
    BY <1>1, <1>4, <1>5, <1>6, <2>1, <2>2, <2>3, <2>4, <2>5, EchoTimes, PendingShrinks
  <2>. QED BY <1>4, <1>10, <2>6
<1>11. CASE ~ IsEcho(f.content) /\ Send(f)
  <2>0. /\ sending' \subseteq {now} /\ queued' = queued + 1
        /\ sent' = sent \cup {[content |-> f.content, from |-> f.from]}
    BY <1>1, <1>11 DEF Send
  <2>1. f.from = "user"
    <3>. SUFFICES ASSUME f.from = "feed" PROVE FALSE
      BY <1>3
    <3>1. PICK k : k = Before(f)
      OBVIOUS
    <3>2. k \in Nat /\ InTime(f, k)
      BY <1>3, <3>1, BeforeFacts DEF EchoInv
    <3>3. now + SendTicks * k < echoUntil[f.content]
      BY <3>2 DEF InTime
    <3>4. now \in Nat /\ SendTicks \in Nat /\ echoUntil[f.content] \in Nat
      BY <1>3, ClipboardAssumption DEF ClipboardInv, TypeOK, ClipboardAssumption
    <3>5. SendTicks * k \in Nat
      BY <3>2, <3>4, TimesIsMonotone
    <3>. QED BY <1>11, <3>3, <3>4, <3>5 DEF IsEcho
  <2>2. f.stamp \in Queue /\ f.stamp \in b
    BY <1>2, <1>3, <1>7, <2>1 DEF Queue, Batch, UsersOf
  <2>3. ASSUME NEW g \in Pending' PROVE g.stamp \in Nat /\ f.stamp < g.stamp
    <3>1. CASE g \in copies'
      BY <1>1, <1>2, <1>3, <3>1 DEF NamesInv, ClipboardInv, TypeOK, File
    <3>2. CASE g \in history /\ g.stamp \notin known
      BY <1>2, <1>3, <3>2 DEF NamesInv, ClipboardInv, TypeOK, File
    <3>. QED BY <1>1, <2>3, <3>1, <3>2 DEF Pending
  <2>4. f.stamp \notin Queue' /\ f.stamp \notin b1
    <3>1. \A g \in copies' : g \in Pending'
      BY DEF Pending
    <3>. QED BY <1>3, <1>7, <2>3, <3>1 DEF Queue, Batch, UsersOf
  <2>5. Reflush' \in Nat /\ Reflush \in Nat /\ Reflush' <= Reflush
    <3>1. Cardinality(b \ {f.stamp}) = Cardinality(b) - 1 /\ IsFiniteSet(b \ {f.stamp})
      BY <1>8, <2>2, FS_RemoveElement
    <3>2. b1 \subseteq b \ {f.stamp}
      BY <1>8, <2>4
    <3>3. Cardinality(b1) <= Cardinality(b) - 1
      BY <3>1, <3>2, FS_Subset
    <3>. QED BY <1>5, <1>8, <1>9, <2>0, <3>3
  <2>6. ASSUME NEW g \in Pending', g.from = "feed"
        PROVE  InTime(g, Before(g))'
    <3>1. g \in Pending /\ g.stamp \in Nat /\ g.content \in Contents
          /\ Before(g) \in Nat
      BY <1>4, <2>6, BeforeFacts
    <3>2. PICK m : m = Ahead(g.stamp)
      OBVIOUS
    <3>3. PICK m1 : m1 = Ahead(g.stamp)'
      OBVIOUS
    <3>4. f.stamp \in m /\ m1 \subseteq m \ {f.stamp}
      BY <1>4, <2>2, <2>3, <2>4, <3>2, <3>3 DEF Ahead
    <3>5. IsFiniteSet(m) /\ Cardinality(m) \in Nat
      BY <3>1, <3>2, PendingFacts
    <3>6. /\ IsFiniteSet(m \ {f.stamp})
          /\ Cardinality(m \ {f.stamp}) = Cardinality(m) - 1
      BY <3>4, <3>5, FS_RemoveElement
    <3>7. Cardinality(m1) \in Nat /\ Cardinality(m1) <= Cardinality(m \ {f.stamp})
      BY <3>4, <3>6, FS_Subset, FS_CardinalityType
    <3>8. PICK j, k : j = Before(g)' /\ k = Before(g)
      OBVIOUS
    <3>9. j \in Nat /\ k \in Nat /\ j + 1 <= k
      <4>1. polled' = polled
        BY <1>1
      <4>2. Before(g) = Cardinality(m) + IF g.stamp > polled THEN Reflush ELSE 0
        BY <3>2 DEF Before
      <4>3. Before(g)' = Cardinality(m1) + IF g.stamp > polled THEN Reflush' ELSE 0
        BY <3>3, <4>1 DEF Before
      <4>. QED BY <2>5, <3>5, <3>6, <3>7, <3>8, <4>2, <4>3
    <3>10. InTime(g, k)
      BY <2>6, <3>1, <3>8 DEF EchoInv
    <3>11. now + SendTicks * k < echoUntil[g.content]
      BY <3>10 DEF InTime
    <3>12. now \in Nat /\ SendTicks \in Nat /\ echoUntil[g.content] \in Nat
      BY <3>1, ClipboardAssumption DEF ClipboardInv, TypeOK, ClipboardAssumption
    <3>13. /\ SendTicks * (j + 1) <= SendTicks * k /\ SendTicks * j <= SendTicks * (j + 1)
           /\ SendTicks * j \in Nat /\ SendTicks * (j + 1) \in Nat /\ SendTicks * k \in Nat
      BY <3>9, <3>12, TimesIsMonotone
    <3>14. /\ now + SendTicks * j < echoUntil[g.content]
           /\ now + SendTicks * (j + 1) < echoUntil[g.content]
      BY <3>11, <3>12, <3>13
    <3>15. InTime(g, j)'
      BY <1>1, <2>0, <3>14 DEF InTime
    <3>. QED BY <3>8, <3>15
  <2>7. \A x, y \in sending' : x <= now' /\ x = y
    BY <1>1, <2>0 DEF ClipboardInv, TypeOK
  <2>8. NoBounce'
    BY <2>0, <2>1 DEF EchoInv, NoBounce
  <2>9. EchoInv'
    BY <1>1, <1>5, <1>6, <2>6, <2>7, <2>8 DEF EchoInv
  <2>. QED BY <1>1, <1>4, <2>0, <2>2, <2>4, <2>9
<1>. QED BY <1>1, <1>10, <1>11

\* Time passes in an upload, and no further than an upload lasts.
LEMMA TickKeepsEcho ==
  ASSUME ClipboardInv, EchoInv, Tick
  PROVE  EchoInv' /\ Queue' = Queue
<1>1. /\ now' = now + 1 /\ step = "idle" /\ UNCHANGED senderIdle
      /\ UNCHANGED <<history, copies, known, sending, sent, phase, listed, polled,
                     echoUntil, step, at>>
  BY DEF Tick, diskVars, senderVars, receiverVars, senderIdle
<1>2. Pending' = Pending /\ Queue' = Queue /\ Reflush' = Reflush
  BY <1>1, SenderIdle DEF Pending, Queue, UsersOf
<1>3. /\ now \in Nat /\ SendTicks \in Nat /\ EchoWindow \in Nat
      /\ \A c \in Contents : echoUntil[c] \in Nat
      /\ \A s \in sending : s \in Nat
  BY ClipboardAssumption DEF ClipboardInv, TypeOK, ClipboardAssumption
<1>4. ASSUME NEW f \in Pending, f.from = "feed"
      PROVE  InTime(f, Before(f))'
  <2>1. PICK s \in sending : now < s + SendTicks
    <3>1. Pending = {} \/ \E s \in sending : now < s + SendTicks
      BY DEF Tick, Pending, Names
    <3>. QED BY <1>4, <3>1
  <2>2. f.content \in Contents /\ f.stamp \in Nat
    BY <1>4, BeforeFacts
  <2>3. PICK k : k = Before(f)
    OBVIOUS
  <2>4. k \in Nat /\ InTime(f, k)
    BY <1>4, <2>3, BeforeFacts DEF EchoInv
  <2>5. SendTicks * (k + 1) = SendTicks * k + SendTicks /\ SendTicks * k \in Nat
    BY <1>3, <2>4, TimesNext, TimesIsMonotone
  <2>6. s + SendTicks * (k + 1) < echoUntil[f.content]
    BY <2>4 DEF InTime
  <2>7. now' + SendTicks * k < echoUntil[f.content]
    BY <1>1, <1>3, <2>1, <2>2, <2>5, <2>6
  <2>8. Before(f)' = Before(f)
    <3>1. Ahead(f.stamp)' = Ahead(f.stamp)
      BY <1>2 DEF Ahead
    <3>. QED BY <1>1, <1>2, <3>1 DEF Before
  <2>9. InTime(f, k)'
    BY <1>1, <2>4, <2>7 DEF InTime
  <2>. QED BY <2>3, <2>8, <2>9
<1>5. \A c \in Contents : echoUntil'[c] <= now' + EchoWindow
  BY <1>1, <1>3 DEF EchoInv
<1>6. \A s, u \in sending' : s <= now' /\ s = u
  BY <1>1, <1>3 DEF EchoInv
<1>7. EchoInv'
  BY <1>1, <1>2, <1>4, <1>5, <1>6 DEF EchoInv, NoBounce
<1>. QED BY <1>2, <1>7

LEMMA StepKeepsEcho ==
  ASSUME ClipboardInv, NamesInv, EchoInv, [Next]_vars, [~ ForgetsFiles]_vars,
         NEW Limit \in Nat, Limit * SendTicks < EchoWindow, Backlog <= Limit
  PROVE  EchoInv'
<1>1. ASSUME NEW c \in Texts, UserCopies(c) PROVE EchoInv'
  BY <1>1, UserCopiesKeepsEcho
<1>2. CASE Written
  BY <1>2, WrittenKeepsEcho
<1>3. CASE Poll
  BY <1>3, PollKeepsEcho
<1>4. CASE NextCopy
  BY <1>4, NextCopyKeepsEcho
<1>5. CASE SendEnds
  BY <1>5, SendEndsKeepsEcho
<1>6. CASE Note
  BY <1>6, NoteKeepsEcho
<1>7. CASE Add
  BY <1>7, AddKeepsEcho
<1>8. CASE HandleClear
  <2>1. CASE ForgetsFiles
    BY <2>1, EchoUnchanged
       DEF vars, diskVars, senderVars, receiverVars, counters, echoVars
  <2>. QED BY <1>8, <2>1, ClearKeepsEcho
<1>9. CASE Restart
  BY <1>9, RestartKeepsEcho
<1>10. CASE Tick
  BY <1>10, TickKeepsEcho
<1>11. CASE SaveCursor
  <2>1. UNCHANGED echoVars
    BY <1>11 DEF SaveCursor, senderVars, receiverVars, counters, echoVars
  <2>. QED BY <2>1, EchoUnchanged
<1>12. CASE Show \/ Keep \/ HandleFails
  <2>1. /\ UNCHANGED <<history, known, echoUntil, now>> /\ UNCHANGED senderIdle
        /\ step' # "noted" /\ copies' = copies
    BY <1>12 DEF Show, Keep, HandleFails, diskVars, senderVars, counters, senderIdle
  <2>2. Pending' = Pending /\ Queue' = Queue
    BY <2>1 DEF Pending, Queue, UsersOf
  <2>3. \A f \in history' \cup copies' : f.from = "feed" => f.full
    BY <2>1 DEF EchoInv
  <2>4. IsFiniteSet(Queue')
    BY <2>2 DEF EchoInv
  <2>. QED BY <2>1, <2>2, <2>3, <2>4, EchoTimes, SenderIdle, PendingShrinks
<1>13. CASE UNCHANGED vars
  BY <1>13, EchoUnchanged
     DEF vars, diskVars, senderVars, receiverVars, counters, echoVars
<1>14. CASE Flush \/ FlushNext
  BY <1>14, FlushKeepsEcho, FlushNextKeepsEcho
<1>. QED BY <1>1, <1>2, <1>3, <1>4, <1>5, <1>6, <1>7, <1>8, <1>9, <1>10, <1>11,
            <1>12, <1>13, <1>14, ZenonT(60) DEF Next

\* What the feed brings never goes out again as a copy of this device's, though
\* its file is new to poll and the entry that tells it goes stale, if the window
\* is longer than the uploads that can come before it, those of a flush included,
\* and no clear fails with files left.
THEOREM NothingBounces ==
  ASSUME NEW Limit \in Nat, Limit * SendTicks < EchoWindow
  PROVE  Spec /\ [][~ ForgetsFiles]_vars /\ [](Backlog <= Limit) => []NoBounce
<1>1. Init => NamesInv /\ EchoInv
  BY InitEcho DEF Init, NamesInv
<1>2. ClipboardInv /\ NamesInv /\ [Next]_vars /\ [~ ForgetsFiles]_vars => NamesInv'
  BY StepKeepsNames
<1>3. /\ ClipboardInv /\ NamesInv /\ EchoInv /\ Backlog <= Limit
      /\ [Next]_vars /\ [~ ForgetsFiles]_vars
      => EchoInv'
  BY StepKeepsEcho
<1>4. EchoInv => NoBounce
  BY DEF EchoInv
<1>. QED BY <1>1, <1>2, <1>3, <1>4, ReceivedIsKept, PTL DEF Spec

\* What waits, lies in the outbox and is being sent was copied on this device,
\* and whatever a flush has still to come to counts once: between two flushes a
\* copy is one upload of its own and one of the flush to come.
BudgetInv ==
  /\ made <= MaxCopies
  /\ Cardinality(Queue) + queued <= made
  /\ phase = "flush" => Cardinality(Queue) + listed + Cardinality(sending) <= made
  /\ phase = "poll"
     => 2 * Cardinality(Queue) + queued + Cardinality(sending) <= 2 * made

LEMMA SizeFacts ==
  ASSUME ClipboardInv, EchoInv
  PROVE  /\ IsFiniteSet(Queue) /\ Cardinality(Queue) \in Nat
         /\ Cardinality(sending) \in {0, 1}
         /\ made \in Nat /\ queued \in Nat /\ listed \in Nat /\ MaxCopies \in Nat
         /\ phase \in {"poll", "flush"}
<1>1. Cardinality(sending) \in {0, 1}
  <2>1. CASE sending = {}
    BY <2>1, FS_EmptySet
  <2>2. ASSUME NEW s \in sending PROVE Cardinality(sending) = 1
    <3>1. sending = {s}
      BY <2>2 DEF EchoInv
    <3>. QED BY <3>1, FS_Singleton
  <2>. QED BY <2>1, <2>2
<1>2. IsFiniteSet(Queue) /\ Cardinality(Queue) \in Nat
  BY PendingFacts DEF EchoInv
<1>. QED BY <1>1, <1>2, ClipboardAssumption
         DEF ClipboardInv, TypeOK, ClipboardAssumption

LEMMA BudgetBoundsBacklog ==
  ASSUME ClipboardInv, EchoInv, BudgetInv
  PROVE  Backlog <= 2 * MaxCopies
<1>1. PICK q, b, s : q = Cardinality(Queue) /\ b = Cardinality(Batch)
                     /\ s = Cardinality(sending)
  OBVIOUS
<1>2. q \in Nat /\ b \in Nat /\ b <= q /\ s \in Nat
  BY <1>1, SizeFacts, PendingFacts
<1>3. CASE phase = "flush"
  BY <1>1, <1>2, <1>3, SizeFacts DEF Backlog, Reflush, BudgetInv
<1>4. CASE phase = "poll"
  BY <1>1, <1>2, <1>4, SizeFacts DEF Backlog, Reflush, BudgetInv
<1>. QED BY <1>3, <1>4, SizeFacts

\* Nothing more waits, is queued, listed or being sent.
LEMMA BudgetShrinks ==
  ASSUME ClipboardInv, EchoInv, BudgetInv, made' = made, phase' = phase,
         Queue' \subseteq Queue, Cardinality(sending') \in {0, Cardinality(sending)},
         queued' \in Nat, queued' <= queued, listed' \in Nat, listed' <= listed
  PROVE  BudgetInv'
<1>1. Cardinality(Queue') <= Cardinality(Queue) /\ Cardinality(Queue') \in Nat
  BY SizeFacts, FS_Subset, FS_CardinalityType
<1>. QED BY <1>1, SizeFacts DEF BudgetInv

LEMMA StepKeepsBudget ==
  ASSUME ClipboardInv, NamesInv, EchoInv, BudgetInv, [Next]_vars,
         [~ ForgetsFiles]_vars, 2 * MaxCopies * SendTicks < EchoWindow
  PROVE  BudgetInv'
<1>1. PICK q : q = Cardinality(Queue)
  OBVIOUS
<1>2. /\ IsFiniteSet(Queue) /\ q \in Nat /\ Cardinality(sending) \in {0, 1}
      /\ made \in Nat /\ queued \in Nat /\ listed \in Nat
  BY <1>1, SizeFacts
<1>3. 2 * MaxCopies \in Nat /\ Backlog <= 2 * MaxCopies
  BY SizeFacts, BudgetBoundsBacklog
<1>4. ASSUME NEW c \in Texts, UserCopies(c) PROVE BudgetInv'
  <2>1. made < MaxCopies /\ made' = made + 1
        /\ UNCHANGED <<sending, queued, listed, phase>>
    BY <1>4 DEF UserCopies, senderVars
  <2>2. PICK n \in Nat : Queue' \subseteq Queue \cup {n}
    BY <1>4, UserCopiesKeepsEcho
  <2>3. IsFiniteSet(Queue \cup {n}) /\ Cardinality(Queue \cup {n}) <= q + 1
        /\ Cardinality(Queue \cup {n}) \in Nat
    <3>1. /\ IsFiniteSet(Queue \cup {n})
          /\ Cardinality(Queue \cup {n}) = IF n \in Queue THEN q ELSE q + 1
      BY <1>1, <1>2, FS_AddElement
    <3>. QED BY <1>2, <3>1
  <2>4. PICK q1 : q1 = Cardinality(Queue')
    OBVIOUS
  <2>5. q1 <= q + 1 /\ q1 \in Nat
    <3>1. q1 <= Cardinality(Queue \cup {n}) /\ q1 \in Nat
      BY <2>2, <2>3, <2>4, FS_Subset, FS_CardinalityType
    <3>. QED BY <1>2, <2>3, <3>1
  <2>6. MaxCopies \in Nat
    BY SizeFacts
  <2>. QED BY <1>1, <1>2, <2>1, <2>4, <2>5, <2>6 DEF BudgetInv
<1>5. CASE NextCopy
  <2>1. made' = made /\ phase' = phase /\ listed' = listed /\ copies # {}
    BY <1>5 DEF NextCopy
  <2>2. CASE Queue' \subseteq Queue /\ UNCHANGED <<sending, queued>>
    BY <1>2, <2>1, <2>2, BudgetShrinks
  <2>3. CASE /\ sending = {} /\ sending' \subseteq {now} /\ queued' = queued + 1
             /\ \E n \in Queue : Queue' \subseteq Queue \ {n}
    <3>1. Cardinality(sending) = 0 /\ Cardinality(sending') \in {0, 1}
      <4>1. sending' = {} \/ sending' = {now}
        BY <2>3
      <4>. QED BY <2>3, <4>1, FS_EmptySet, FS_Singleton
    <3>2. PICK n \in Queue : Queue' \subseteq Queue \ {n}
      BY <2>3
    <3>3. IsFiniteSet(Queue \ {n}) /\ Cardinality(Queue \ {n}) = q - 1
      BY <1>1, <1>2, <3>2, FS_RemoveElement
    <3>4. Cardinality(Queue') <= q - 1 /\ Cardinality(Queue') \in Nat
      <4>1. /\ Cardinality(Queue') <= Cardinality(Queue \ {n})
            /\ Cardinality(Queue') \in Nat
        BY <3>2, <3>3, FS_Subset, FS_CardinalityType
      <4>. QED BY <3>3, <4>1
    <3>5. phase' = "poll"
      BY <2>1, SizeFacts DEF EchoInv
    <3>. QED BY <1>1, <1>2, <2>1, <2>3, <3>1, <3>4, <3>5 DEF BudgetInv
  <2>. QED BY <1>5, <2>2, <2>3, NextCopyKeepsEcho
<1>6. CASE SendEnds
  <2>1. Cardinality(sending') = 0
    BY <1>6, SendEndsKeepsEcho, FS_EmptySet
  <2>2. made' = made /\ phase' = phase
    BY <1>6 DEF SendEnds, counters
  <2>. QED BY <1>6, <2>1, <2>2, SendEndsKeepsEcho, BudgetShrinks
<1>7. CASE Restart
  <2>1. /\ Queue' = {} /\ sending' = {} /\ made' = made /\ queued' = queued
        /\ phase' = "poll"
    BY <1>7, RestartKeepsEcho DEF Restart
  <2>2. Cardinality(sending') = 0 /\ Cardinality(Queue') = 0
    BY <2>1, FS_EmptySet
  <2>. QED BY <1>1, <1>2, <2>1, <2>2 DEF BudgetInv
<1>8. CASE Written \/ Note \/ Add \/ Tick
  <2>1. Queue' \subseteq Queue
    BY <1>3, <1>8, WrittenKeepsEcho, NoteKeepsEcho, AddKeepsEcho, TickKeepsEcho
  <2>2. made' = made /\ sending' = sending /\ phase' = phase /\ queued' = queued
        /\ listed' = listed
    BY <1>8 DEF Written, Note, Add, Tick, counters, senderVars
  <2>. QED BY <1>2, <2>1, <2>2, BudgetShrinks
<1>9. CASE HandleClear
  <2>1. made' = made /\ sending' = sending /\ phase' = phase /\ listed' = listed
    BY <1>9 DEF HandleClear
  <2>2. Queue' \subseteq Queue /\ queued' \in Nat /\ queued' <= queued
    <3>1. CASE ~ ForgetsFiles
      BY <1>9, <3>1, ClearKeepsEcho
    <3>2. CASE UNCHANGED vars
      BY <1>2, <3>2 DEF vars, diskVars, senderVars, Queue, UsersOf, Pending
    <3>. QED BY <3>1, <3>2
  <2>. QED BY <1>2, <2>1, <2>2, BudgetShrinks
<1>10. CASE Show \/ Keep \/ HandleFails \/ SaveCursor \/ UNCHANGED vars
  <2>1. UNCHANGED <<history, copies, known, sending, queued, phase, listed, made>>
    BY <1>10 DEF Show, Keep, HandleFails, SaveCursor, vars, diskVars, senderVars,
                counters
  <2>2. Queue' = Queue
    BY <2>1 DEF Queue, UsersOf, Pending
  <2>. QED BY <1>2, <2>1, <2>2, BudgetShrinks
<1>11. CASE Flush
  <2>1. /\ Queue' = Queue /\ sending = {} /\ sending' = {} /\ made' = made
        /\ phase' = "flush" /\ listed' = queued /\ queued' = queued
    BY <1>11, FlushKeepsEcho DEF Flush, counters
  <2>2. Cardinality(sending') = 0
    BY <2>1, FS_EmptySet
  <2>. QED BY <1>1, <1>2, <2>1, <2>2 DEF BudgetInv
<1>12. CASE FlushNext
  <2>1. /\ Queue' = Queue /\ sending = {} /\ sending' \in {{}, {now}} /\ made' = made
        /\ phase = "flush" /\ phase' = "flush" /\ listed > 0 /\ listed' = listed - 1
        /\ queued' = queued
    BY <1>12, FlushNextKeepsEcho DEF FlushNext, counters
  <2>2. Cardinality(sending) = 0 /\ Cardinality(sending') \in {0, 1}
    BY <2>1, FS_EmptySet, FS_Singleton
  <2>. QED BY <1>1, <1>2, <2>1, <2>2 DEF BudgetInv
<1>13. CASE Poll
  <2>1. /\ Queue' \subseteq Queue /\ sending = {} /\ sending' = {} /\ made' = made
        /\ phase' = "poll" /\ queued' = queued
    BY <1>13, PollKeepsEcho DEF Poll, counters
  <2>2. Cardinality(sending') = 0
    BY <2>1, FS_EmptySet
  <2>3. Cardinality(Queue') <= q /\ Cardinality(Queue') \in Nat
    BY <1>1, <1>2, <2>1, FS_Subset, FS_CardinalityType
  <2>. QED BY <1>1, <1>2, <2>1, <2>2, <2>3 DEF BudgetInv
<1>. QED BY <1>4, <1>5, <1>6, <1>7, <1>8, <1>9, <1>10, <1>11, <1>12, <1>13,
            ZenonT(60) DEF Next

\* The hypothesis on the backlog is met as long as the copies made on this device
\* can all be sent twice within the window, once when they are made and once by
\* the flush before the next poll.
THEOREM FewCopiesNeverBounce ==
  ASSUME 2 * MaxCopies * SendTicks < EchoWindow
  PROVE  Spec /\ [][~ ForgetsFiles]_vars => []NoBounce
<1>1. Init => NamesInv /\ EchoInv /\ BudgetInv
  <2>. SUFFICES ASSUME Init PROVE BudgetInv
    BY InitEcho DEF Init, NamesInv
  <2>1. sending = {} /\ Queue = {} /\ made = 0 /\ queued = 0 /\ listed = 0
    BY DEF Init, Queue, UsersOf, Pending
  <2>2. Cardinality(Queue) = 0 /\ Cardinality(sending) = 0
    BY <2>1, FS_EmptySet
  <2>. QED BY <2>1, <2>2, ClipboardAssumption DEF BudgetInv, ClipboardAssumption
<1>2. ClipboardInv /\ NamesInv /\ [Next]_vars /\ [~ ForgetsFiles]_vars => NamesInv'
  BY StepKeepsNames
<1>3. /\ ClipboardInv /\ NamesInv /\ EchoInv /\ BudgetInv
      /\ [Next]_vars /\ [~ ForgetsFiles]_vars
      => BudgetInv'
  BY StepKeepsBudget
<1>4. /\ ClipboardInv /\ NamesInv /\ EchoInv /\ BudgetInv
      /\ [Next]_vars /\ [~ ForgetsFiles]_vars
      => EchoInv'
  <2>. SUFFICES ASSUME ClipboardInv, NamesInv, EchoInv, BudgetInv, [Next]_vars,
                       [~ ForgetsFiles]_vars
                PROVE  EchoInv'
    OBVIOUS
  <2>1. 2 * MaxCopies \in Nat
    BY SizeFacts
  <2>2. Backlog <= 2 * MaxCopies
    BY BudgetBoundsBacklog
  <2>. QED BY <2>1, <2>2, StepKeepsEcho
<1>5. EchoInv => NoBounce
  BY DEF EchoInv
<1>. QED BY <1>1, <1>2, <1>3, <1>4, <1>5, ReceivedIsKept, PTL DEF Spec

----------------------------------------------------------------------------
(* sync.json and the keychain.                                                *)

Saving == {"save", "create", "write", "rename"}

\* What a process is about: only a move has scrubbed, only a logout or a
\* removal takes keys away, and a command saves after a login or a move.
Errands ==
    /\ \A p \in K!Processes :
          /\ process[p].pc = "scrub" => process[p].storage = "keychain"
          /\ process[p].pc \in {"forget", "remove"} => left
          /\ process[p].op \in {"logout", "revoke"} => left
          /\ process[p].pc = "set" => process[p].op = "login"
    /\ process[Cli].pc \in Saving => process[Cli].op = "login" \/ moved

Points(f) == f # Nothing /\ f.storage = "keychain"

\* Until the device leaves: keys that anything points to in the keychain are
\* there, and a login saves a device that has no file, beside no daemon.
KeysStay ==
    /\ loggedIn <=> file # Nothing
    /\ moved \/ Points(file) \/ Points(tmp) => keychain.keys
    /\ \A p \in K!Processes : process[p].storage = "keychain" => keychain.keys
    /\ process[Daemon].pc # "idle" => loggedIn
    /\ process[Cli].op = "login" => ~loggedIn

\* Until keys are moved, at most one process saves, so a temporary file is its
\* own and is whole when it takes the name.
SavesAlone ==
    /\ loggedIn => file.text = "full"
    /\ \A p \in K!Processes :
          /\ process[p].pc = "write" =>
                tmp # Nothing /\ tmp.owner = p /\ tmp.text = "empty"
          /\ process[p].pc = "rename" => tmp # Nothing /\ tmp.text = "full"

KeysInv ==
    /\ K!TypeOK
    /\ Errands
    /\ ~left => KeysStay
    /\ ~left /\ ~moved => SavesAlone
----------------------------------------------------------------------------

Procs == [pc : {"idle", "keys", "move", "verify", "scrub", "set", "save", "create", "write",
                "rename", "loaded", "forget", "remove"},
          op : {"none", "run", "status", "logout", "revoke", "login"},
          storage : K!Storages, cursor : 0 .. MaxCursor]

LEMMA KeysFacts ==
  /\ Daemon # Cli
  /\ Nothing \notin K!Files
  /\ MaxCursor \in Nat /\ MaxStops \in Nat
  /\ K!Idle \in Procs
  BY DeviceConstants DEF K!StateFileConstants, K!Idle, Procs, K!Storages

LEMMA ProcessTyped == K!TypeOK => process \in [K!Processes -> Procs]
  BY DEF K!TypeOK, Procs

\* The steps that a process takes, and what they leave alone.
OnlyMoves(p) == \A q \in K!Processes : q # p => process'[q] = process[q]

MovesTo(p, pc) ==
    /\ OnlyMoves(p)
    /\ process'[p].pc = pc
    /\ process'[p].op = process[p].op
    /\ process'[p].storage = process[p].storage

LEMMA Going ==
  ASSUME K!TypeOK, NEW p \in K!Processes,
         NEW pc \in {"idle", "keys", "move", "verify", "scrub", "set", "save", "create", "write",
                     "rename", "loaded", "forget", "remove"},
         K!Goes(p, pc)
  PROVE  process' \in [K!Processes -> Procs] /\ MovesTo(p, pc)
  BY ProcessTyped DEF K!Goes, MovesTo, OnlyMoves, Procs

LEMMA Stopping ==
  ASSUME K!TypeOK, NEW p \in K!Processes, K!Stops(p)
  PROVE  /\ process' \in [K!Processes -> Procs]
         /\ OnlyMoves(p)
         /\ process'[p].pc = "idle" /\ process'[p].op = "none" /\ process'[p].storage = "file"
<1>1. process' = [process EXCEPT ![p] = K!Idle]
  BY DEF K!Stops
<1>. QED BY <1>1, ProcessTyped, KeysFacts DEF OnlyMoves, K!Idle

LEMMA Loading ==
  ASSUME K!TypeOK, NEW p \in K!Processes, K!Loaded(p)
  PROVE  /\ process' \in [K!Processes -> Procs]
         /\ \/ MovesTo(p, "loaded")
            \/ MovesTo(p, "forget") /\ process[p].op = "logout"
            \/ MovesTo(p, "remove") /\ process[p].op = "revoke"
  BY Going DEF K!Loaded

LEMMA Ending ==
  ASSUME K!TypeOK, NEW p \in K!Processes, K!SaveEnds(p)
  PROVE  /\ process' \in [K!Processes -> Procs]
         /\ \/ MovesTo(p, "loaded") /\ process[p].op # "login"
            \/ MovesTo(p, "forget") /\ process[p].op = "logout"
            \/ MovesTo(p, "remove") /\ process[p].op = "revoke"
            \/ /\ OnlyMoves(p)
               /\ process'[p].pc = "idle" /\ process'[p].op = "none"
               /\ process'[p].storage = "file"
  BY Going, Loading, Stopping DEF K!SaveEnds

\* A step that leaves the files, the keychain and the histories alone.
LEMMA QuietKeeps ==
  ASSUME KeysInv, NEW p \in K!Processes,
         process' \in [K!Processes -> Procs], OnlyMoves(p),
         UNCHANGED <<file, tmp, keychain, left, loggedIn, moved>>, stops' \in 0 .. MaxStops,
         process'[p].pc \notin {"scrub", "write", "rename", "set"},
         process'[p].pc \in {"forget", "remove"} \/ process'[p].op \in {"logout", "revoke"} => left,
         process'[p].pc \in Saving => process[p].pc \in Saving \/ p = Daemon,
         process'[p].op = process[p].op \/ (process'[p].op = "none" /\ process'[p].pc = "idle"),
         process[p].pc = "idle" => process'[p].pc = "idle",
         ~left => (process'[p].storage = "keychain" => keychain.keys)
  PROVE  KeysInv'
<1>1. K!TypeOK'
  BY DEF KeysInv, K!TypeOK, Procs
<1>2. Errands'
  BY KeysFacts DEF KeysInv, Errands, OnlyMoves, K!Processes, Saving
<1>3. ~left => KeysStay'
  BY KeysFacts DEF KeysInv, KeysStay, OnlyMoves, K!Processes, Points
<1>4. ~left /\ ~moved => SavesAlone'
  BY DEF KeysInv, SavesAlone, OnlyMoves
<1>. QED BY <1>1, <1>2, <1>3, <1>4 DEF KeysInv

LEMMA QuietStepsKeep ==
  ASSUME KeysInv, NEW p \in K!Processes,
         K!LoadKeys(p) \/ K!Crash(p) \/ (p = Cli /\ K!CommandEnds)
  PROVE  KeysInv'
<1>1. K!TypeOK /\ stops \in 0 .. MaxStops
  BY DEF KeysInv, K!TypeOK
<1>2. CASE K!LoadKeys(p)
  <2>1. /\ UNCHANGED <<file, tmp, keychain, left, loggedIn, moved, stops>>
        /\ process[p].pc = "keys"
        /\ K!Goes(p, "move") \/ K!Loaded(p) \/ K!Stops(p)
    BY <1>2 DEF K!LoadKeys, K!At
  <2>2. ~left => (process[p].storage = "keychain" => keychain.keys)
    BY DEF KeysInv, KeysStay
  <2>3. process[p].op \in {"logout", "revoke"} => left
    BY DEF KeysInv, Errands
  <2>4. CASE K!Goes(p, "move")
    <3>1. process' \in [K!Processes -> Procs] /\ MovesTo(p, "move")
      BY <1>1, <2>4, Going
    <3>. QED BY <1>1, <2>1, <2>2, <2>3, <3>1, QuietKeeps DEF MovesTo, Saving
  <2>5. CASE K!Loaded(p)
    <3>1. process' \in [K!Processes -> Procs]
      BY <1>1, <2>5, Loading
    <3>2. \/ MovesTo(p, "loaded")
          \/ MovesTo(p, "forget") /\ process[p].op = "logout"
          \/ MovesTo(p, "remove") /\ process[p].op = "revoke"
      BY <1>1, <2>5, Loading
    <3>. QED BY <1>1, <2>1, <2>2, <2>3, <3>1, <3>2, QuietKeeps DEF MovesTo, Saving
  <2>6. CASE K!Stops(p)
    BY <1>1, <2>1, <2>6, Stopping, QuietKeeps DEF Saving
  <2>. QED BY <2>1, <2>4, <2>5, <2>6
<1>3. CASE K!Crash(p) \/ (p = Cli /\ K!CommandEnds)
  <2>1. /\ UNCHANGED <<file, tmp, keychain, left, loggedIn, moved>>
        /\ stops' \in 0 .. MaxStops
        /\ K!Stops(p)
    BY <1>1, <1>3, KeysFacts DEF K!Crash, K!Trouble, K!CommandEnds
  <2>. QED BY <1>1, <2>1, Stopping, QuietKeeps DEF Saving
<1>. QED BY <1>2, <1>3

\* What a load finds in the file names the keychain only if the keys are there.
LEMMA LoadKeeps ==
  ASSUME KeysInv, NEW p \in K!Processes, NEW op, K!Load(p, op)
  PROVE  KeysInv'
<1>1. /\ file \in K!Files
      /\ op \in {"run", "status", "logout", "revoke"}
      /\ process' = [process EXCEPT ![p] = [pc |-> "keys", op |-> op, storage |-> file.storage,
                                            cursor |-> file.cursor]]
      /\ left' = (left \/ op \in {"logout", "revoke"})
      /\ UNCHANGED <<file, tmp, keychain, loggedIn, moved, stops>>
  BY DEF K!Load, KeysInv, K!TypeOK
<1>2. process \in [K!Processes -> Procs]
  BY ProcessTyped DEF KeysInv
<1>3. /\ process' \in [K!Processes -> Procs]
      /\ OnlyMoves(p)
      /\ process'[p].pc = "keys" /\ process'[p].op = op /\ process'[p].storage = file.storage
  BY <1>1, <1>2 DEF Procs, K!Files, OnlyMoves
<1>4. K!TypeOK'
  BY <1>1, <1>3 DEF KeysInv, K!TypeOK, Procs
<1>5. Errands'
  BY <1>1, <1>3, KeysFacts DEF KeysInv, Errands, OnlyMoves, K!Processes, Saving
<1>6. ~left' => KeysStay'
  BY <1>1, <1>3, KeysFacts DEF KeysInv, KeysStay, OnlyMoves, K!Processes, Points, K!Files
<1>7. ~left' /\ ~moved' => SavesAlone'
  BY <1>1, <1>3 DEF KeysInv, SavesAlone, OnlyMoves
<1>. QED BY <1>4, <1>5, <1>6, <1>7 DEF KeysInv

\* The keys are in the keychain before they leave the file.
LEMMA MoveSetKeeps ==
  ASSUME KeysInv, NEW p \in K!Processes, K!MoveSet(p)
  PROVE  KeysInv'
<1>1. K!TypeOK /\ stops \in 0 .. MaxStops
  BY DEF KeysInv, K!TypeOK
<1>2. CASE keychain.locked
  <2>1. /\ UNCHANGED <<file, tmp, keychain, left, loggedIn, moved, stops>>
        /\ process[p].pc = "move"
        /\ K!Loaded(p)
    BY <1>2 DEF K!MoveSet, K!At, K!NotMoved
  <2>2. /\ ~left => (process[p].storage = "keychain" => keychain.keys)
        /\ process[p].op \in {"logout", "revoke"} => left
    BY DEF KeysInv, KeysStay, Errands
  <2>3. process' \in [K!Processes -> Procs]
    BY <1>1, <2>1, Loading
  <2>4. \/ MovesTo(p, "loaded")
        \/ MovesTo(p, "forget") /\ process[p].op = "logout"
        \/ MovesTo(p, "remove") /\ process[p].op = "revoke"
    BY <1>1, <2>1, Loading
  <2>. QED BY <1>1, <2>1, <2>2, <2>3, <2>4, QuietKeeps DEF MovesTo, Saving
<1>3. CASE ~keychain.locked
  <2>1. /\ keychain' = [keychain EXCEPT !.keys = TRUE]
        /\ UNCHANGED <<file, tmp, left, loggedIn, moved, stops>>
        /\ process[p].pc = "move"
        /\ K!Goes(p, "verify")
    BY <1>3 DEF K!MoveSet, K!At
  <2>2. process' \in [K!Processes -> Procs] /\ MovesTo(p, "verify")
    BY <1>1, <2>1, Going
  <2>3. K!TypeOK' /\ keychain'.keys
    BY <1>1, <2>1, <2>2 DEF K!TypeOK, Procs
  <2>4. Errands'
    BY <2>1, <2>2, KeysFacts DEF KeysInv, Errands, MovesTo, OnlyMoves, K!Processes, Saving
  <2>5. ~left' => KeysStay'
    BY <2>1, <2>2, <2>3 DEF KeysInv, KeysStay, MovesTo, OnlyMoves, K!Processes
  <2>6. ~left' /\ ~moved' => SavesAlone'
    BY <2>1, <2>2 DEF KeysInv, SavesAlone, MovesTo, OnlyMoves
  <2>. QED BY <2>3, <2>4, <2>5, <2>6 DEF KeysInv
<1>. QED BY <1>2, <1>3

LEMMA MoveVerifyKeeps ==
  ASSUME KeysInv, NEW p \in K!Processes, K!MoveVerify(p)
  PROVE  KeysInv'
<1>1. /\ K!TypeOK /\ stops \in 0 .. MaxStops
      /\ process \in [K!Processes -> Procs]
      /\ process[p].pc = "verify"
      /\ UNCHANGED <<file, tmp, keychain, left, loggedIn, moved, stops>>
  BY ProcessTyped DEF KeysInv, K!TypeOK, K!MoveVerify, K!At
<1>2. /\ ~left => (process[p].storage = "keychain" => keychain.keys)
      /\ process[p].op \in {"logout", "revoke"} => left
  BY DEF KeysInv, KeysStay, Errands
<1>3. CASE K!Loaded(p)
  <2>1. process' \in [K!Processes -> Procs]
    BY <1>1, <1>3, Loading
  <2>2. \/ MovesTo(p, "loaded")
        \/ MovesTo(p, "forget") /\ process[p].op = "logout"
        \/ MovesTo(p, "remove") /\ process[p].op = "revoke"
    BY <1>1, <1>3, Loading
  <2>. QED BY <1>1, <1>2, <2>1, <2>2, QuietKeeps DEF MovesTo, Saving
<1>4. CASE /\ keychain.keys
           /\ process' = [process EXCEPT ![p].pc = "scrub", ![p].storage = "keychain"]
  <2>1. /\ process' \in [K!Processes -> Procs]
        /\ OnlyMoves(p)
        /\ process'[p].pc = "scrub" /\ process'[p].op = process[p].op
        /\ process'[p].storage = "keychain"
    BY <1>1, <1>4, ZenonT(40) DEF Procs, K!Storages, OnlyMoves
  <2>2. K!TypeOK'
    BY <1>1, <2>1 DEF K!TypeOK, Procs
  <2>3. Errands'
    BY <1>1, <2>1, KeysFacts DEF KeysInv, Errands, OnlyMoves, K!Processes, Saving
  <2>4. ~left' => KeysStay'
    BY <1>1, <1>4, <2>1, KeysFacts DEF KeysInv, KeysStay, OnlyMoves, K!Processes, Points
  <2>5. ~left' /\ ~moved' => SavesAlone'
    BY <1>1, <2>1 DEF KeysInv, SavesAlone, OnlyMoves
  <2>. QED BY <2>2, <2>3, <2>4, <2>5 DEF KeysInv
<1>. QED BY <1>3, <1>4 DEF K!MoveVerify

\* What is scrubbed has been moved, so the keychain has it.
LEMMA ScrubKeeps ==
  ASSUME KeysInv, NEW p \in K!Processes, K!Scrub(p)
  PROVE  KeysInv'
<1>1. /\ K!TypeOK
      /\ process[p].pc = "scrub" /\ process[p].storage = "keychain"
      /\ moved' = TRUE
      /\ UNCHANGED <<tmp, keychain, left, loggedIn, stops>>
      /\ K!Goes(p, "save")
  BY DEF KeysInv, Errands, K!Scrub, K!At
<1>2. process' \in [K!Processes -> Procs] /\ MovesTo(p, "save")
  BY <1>1, Going
<1>3. /\ file' \in K!Files \cup {Nothing}
      /\ file' = Nothing <=> file = Nothing
      /\ Points(file)' => Points(file)
  BY KeysFacts DEF KeysInv, K!TypeOK, K!Scrub, K!Zeroed, K!Files, Points
<1>4. K!TypeOK'
  BY <1>1, <1>2, <1>3 DEF K!TypeOK, Procs
<1>5. Errands'
  BY <1>1, <1>2, KeysFacts DEF KeysInv, Errands, MovesTo, OnlyMoves, K!Processes, Saving
<1>6. ~left' => KeysStay'
  BY <1>1, <1>2, <1>3, KeysFacts
     DEF KeysInv, KeysStay, MovesTo, OnlyMoves, K!Processes, Points
<1>. QED BY <1>1, <1>4, <1>5, <1>6 DEF KeysInv

\* Until keys are moved a command only saves a login, and then no daemon runs.
LEMMA OneSaves ==
  ASSUME KeysInv, ~left, ~moved, NEW p \in K!Processes, process[p].pc \in Saving,
         NEW q \in K!Processes, q # p
  PROVE  process[q].pc \notin Saving
  BY KeysFacts DEF KeysInv, Errands, KeysStay, Saving, K!Processes

LEMMA SaveClearsKeeps ==
  ASSUME KeysInv, NEW p \in K!Processes, K!SaveClears(p)
  PROVE  KeysInv'
<1>1. /\ K!TypeOK
      /\ process[p].pc = "save"
      /\ tmp' = Nothing
      /\ UNCHANGED <<file, keychain, left, loggedIn, moved, stops>>
      /\ K!Goes(p, "create")
  BY DEF KeysInv, K!SaveClears, K!At
<1>2. process' \in [K!Processes -> Procs] /\ MovesTo(p, "create")
  BY <1>1, Going
<1>3. K!TypeOK'
  BY <1>1, <1>2 DEF K!TypeOK, Procs
<1>4. Errands'
  BY <1>1, <1>2, KeysFacts DEF KeysInv, Errands, MovesTo, OnlyMoves, K!Processes, Saving
<1>5. ~left' => KeysStay'
  BY <1>1, <1>2, KeysFacts DEF KeysInv, KeysStay, MovesTo, OnlyMoves, K!Processes, Points
<1>6. ~left' /\ ~moved' => SavesAlone'
  BY <1>1, <1>2, OneSaves DEF KeysInv, SavesAlone, MovesTo, OnlyMoves, Saving
<1>. QED BY <1>3, <1>4, <1>5, <1>6 DEF KeysInv

LEMMA SaveCreatesKeeps ==
  ASSUME KeysInv, NEW p \in K!Processes, K!SaveCreates(p)
  PROVE  KeysInv'
<1>1. /\ K!TypeOK /\ stops \in 0 .. MaxStops
      /\ process \in [K!Processes -> Procs]
      /\ process[p].pc = "create"
      /\ UNCHANGED <<file, keychain, left, loggedIn, moved, stops>>
  BY ProcessTyped DEF KeysInv, K!TypeOK, K!SaveCreates, K!At
<1>2. /\ ~left => (process[p].storage = "keychain" => keychain.keys)
      /\ process[p].op \in {"logout", "revoke"} => left
  BY DEF KeysInv, KeysStay, Errands
<1>3. CASE tmp = Nothing
  <2>. DEFINE new == [owner |-> p, text |-> "empty", storage |-> process[p].storage,
                      cursor |-> process[p].cursor]
  <2>1. tmp' = new /\ K!Goes(p, "write")
    BY <1>3 DEF K!SaveCreates
  <2>2. new \in K!Files
    BY <1>1 DEF K!Files, Procs
  <2>3. process' \in [K!Processes -> Procs] /\ MovesTo(p, "write")
    BY <1>1, <2>1, Going
  <2>4. K!TypeOK'
    BY <1>1, <2>1, <2>2, <2>3 DEF K!TypeOK, Procs
  <2>5. Errands'
    BY <1>1, <2>3, KeysFacts DEF KeysInv, Errands, MovesTo, OnlyMoves, K!Processes, Saving
  <2>6. ~left' => KeysStay'
    BY <1>1, <1>2, <2>1, <2>3, KeysFacts
       DEF KeysInv, KeysStay, MovesTo, OnlyMoves, K!Processes, Points
  <2>7. ~left' /\ ~moved' => SavesAlone'
    BY <1>1, <2>1, <2>2, <2>3, OneSaves, KeysFacts
       DEF KeysInv, SavesAlone, MovesTo, OnlyMoves, Saving
  <2>. QED BY <2>4, <2>5, <2>6, <2>7 DEF KeysInv
<1>4. CASE tmp # Nothing
  <2>1. K!SaveEnds(p) /\ tmp' = tmp
    BY <1>4 DEF K!SaveCreates
  <2>2. process' \in [K!Processes -> Procs]
    BY <1>1, <2>1, Ending
  <2>3. \/ MovesTo(p, "loaded")
        \/ MovesTo(p, "forget") /\ process[p].op = "logout"
        \/ MovesTo(p, "remove") /\ process[p].op = "revoke"
        \/ /\ OnlyMoves(p)
           /\ process'[p].pc = "idle" /\ process'[p].op = "none" /\ process'[p].storage = "file"
    BY <1>1, <2>1, Ending
  <2>. QED BY <1>1, <1>2, <2>1, <2>2, <2>3, QuietKeeps DEF MovesTo, Saving
<1>. QED BY <1>3, <1>4

\* A process writes its own temporary file, or whatever has taken its name.
LEMMA SaveWritesKeeps ==
  ASSUME KeysInv, NEW p \in K!Processes, K!SaveWrites(p)
  PROVE  KeysInv'
<1>1. /\ K!TypeOK
      /\ process[p].pc = "write"
      /\ UNCHANGED <<keychain, left, loggedIn, moved, stops>>
      /\ K!Goes(p, "rename")
  BY DEF KeysInv, K!SaveWrites, K!At
<1>2. process' \in [K!Processes -> Procs] /\ MovesTo(p, "rename")
  BY <1>1, Going
<1>3. /\ tmp' = IF tmp = Nothing THEN Nothing ELSE K!Written(tmp, p)
      /\ file' = IF file = Nothing THEN Nothing ELSE K!Written(file, p)
  BY DEF K!SaveWrites
<1>4. ASSUME NEW f \in K!Files
      PROVE  /\ K!Written(f, p) \in K!Files
             /\ K!Written(f, p).storage = f.storage
             /\ f.text = "full" => K!Written(f, p).text = "full"
             /\ f.owner = p /\ f.text = "empty" => K!Written(f, p).text = "full"
  BY KeysFacts DEF K!Written, K!Files
<1>5. tmp \in K!Files \cup {Nothing} /\ file \in K!Files \cup {Nothing}
  BY <1>1 DEF K!TypeOK
<1>6. /\ tmp' \in K!Files \cup {Nothing}
      /\ file' \in K!Files \cup {Nothing}
      /\ file' = Nothing <=> file = Nothing
      /\ tmp' = Nothing <=> tmp = Nothing
      /\ Points(file)' => Points(file)
      /\ Points(tmp)' => Points(tmp)
  BY <1>3, <1>4, <1>5, KeysFacts DEF Points
<1>7. K!TypeOK'
  BY <1>1, <1>2, <1>6 DEF K!TypeOK, Procs
<1>8. Errands'
  BY <1>1, <1>2, KeysFacts DEF KeysInv, Errands, MovesTo, OnlyMoves, K!Processes, Saving
<1>9. ~left' => KeysStay'
  BY <1>1, <1>2, <1>6, KeysFacts DEF KeysInv, KeysStay, MovesTo, OnlyMoves, K!Processes
<1>10. ~left' /\ ~moved' => SavesAlone'
  <2>. SUFFICES ASSUME ~left, ~moved PROVE SavesAlone'
    BY <1>1
  <2>1. SavesAlone /\ KeysStay
    BY DEF KeysInv
  <2>2. tmp \in K!Files /\ tmp.owner = p /\ tmp.text = "empty"
    BY <1>1, <1>5, <2>1 DEF SavesAlone
  <2>3. tmp' # Nothing /\ tmp'.text = "full"
    BY <1>3, <1>4, <1>6, <2>2, KeysFacts
  <2>4. loggedIn' => file'.text = "full"
    BY <1>1, <1>3, <1>4, <1>5, <2>1 DEF SavesAlone, KeysStay
  <2>5. \A q \in K!Processes : q # p => process'[q].pc \notin Saving
    BY <1>1, <1>2, OneSaves DEF MovesTo, OnlyMoves, Saving
  <2>. QED BY <1>2, <2>3, <2>4, <2>5 DEF SavesAlone, MovesTo, Saving
<1>. QED BY <1>7, <1>8, <1>9, <1>10 DEF KeysInv

\* The file that takes the name is what the process has written, or points to
\* a keychain that has the keys.
LEMMA SaveRenamesKeeps ==
  ASSUME KeysInv, NEW p \in K!Processes, K!SaveRenames(p)
  PROVE  KeysInv'
<1>1. /\ K!TypeOK /\ stops \in 0 .. MaxStops
      /\ process[p].pc = "rename"
      /\ UNCHANGED <<keychain, left, moved, stops>>
      /\ K!SaveEnds(p)
      /\ tmp \in K!Files \cup {Nothing}
  BY DEF KeysInv, K!TypeOK, K!SaveRenames, K!At
<1>2. /\ ~left => (process[p].storage = "keychain" => keychain.keys)
      /\ process[p].op \in {"logout", "revoke"} => left
  BY DEF KeysInv, KeysStay, Errands
<1>3. process' \in [K!Processes -> Procs]
  BY <1>1, Ending
<1>4. \/ MovesTo(p, "loaded") /\ process[p].op # "login"
      \/ MovesTo(p, "forget") /\ process[p].op = "logout"
      \/ MovesTo(p, "remove") /\ process[p].op = "revoke"
      \/ /\ OnlyMoves(p)
         /\ process'[p].pc = "idle" /\ process'[p].op = "none" /\ process'[p].storage = "file"
  BY <1>1, Ending
<1>5. CASE tmp = Nothing
  <2>1. UNCHANGED <<file, tmp, loggedIn>>
    BY <1>5 DEF K!SaveRenames
  <2>. QED BY <1>1, <1>2, <1>3, <1>4, <2>1, QuietKeeps DEF MovesTo, Saving
<1>6. CASE tmp # Nothing
  <2>1. /\ file' = [tmp EXCEPT !.owner = IF @ = p THEN Nothing ELSE @]
        /\ tmp' = Nothing
        /\ loggedIn' = TRUE
    BY <1>6 DEF K!SaveRenames
  <2>2. /\ file' \in K!Files
        /\ file'.text = tmp.text
        /\ file'.storage = tmp.storage
        /\ file' # Nothing
    BY <1>1, <1>6, <2>1, KeysFacts DEF K!Files
  <2>3. K!TypeOK'
    BY <1>1, <1>3, <2>1, <2>2 DEF K!TypeOK, Procs
  <2>4. OnlyMoves(p) /\ process'[p].pc \notin Saving \cup {"scrub", "set"}
    BY <1>4 DEF MovesTo, Saving
  <2>5. Errands'
    BY <1>1, <1>2, <1>4, <2>4, KeysFacts
       DEF KeysInv, Errands, MovesTo, OnlyMoves, K!Processes, Saving
  <2>6. ~left' => KeysStay'
    <3>. SUFFICES ASSUME ~left PROVE KeysStay'
      BY <1>1
    <3>1. Points(file)' \/ Points(tmp)' => Points(tmp)
      BY <1>6, <2>1, <2>2 DEF Points
    <3>2. \A q \in K!Processes : process'[q].storage = "keychain" => keychain.keys
      BY <1>2, <1>4, <2>4 DEF KeysInv, KeysStay, OnlyMoves, MovesTo
    <3>3. process'[Cli].op # "login"
      <4>1. CASE p = Cli
        BY <1>4, <4>1 DEF MovesTo
      <4>2. CASE p = Daemon
        BY <1>1, <2>4, <4>2, KeysFacts DEF KeysInv, KeysStay, OnlyMoves, K!Processes
      <4>. QED BY <4>1, <4>2 DEF K!Processes
    <3>. QED BY <1>1, <2>1, <2>2, <3>1, <3>2, <3>3 DEF KeysInv, KeysStay
  <2>7. ~left' /\ ~moved' => SavesAlone'
    <3>. SUFFICES ASSUME ~left, ~moved PROVE SavesAlone'
      BY <1>1
    <3>1. tmp.text = "full"
      BY <1>1 DEF KeysInv, SavesAlone
    <3>2. \A q \in K!Processes : q # p => process'[q].pc \notin Saving
      BY <1>1, <2>4, OneSaves DEF OnlyMoves, Saving
    <3>. QED BY <2>2, <2>4, <3>1, <3>2 DEF SavesAlone, Saving
  <2>. QED BY <2>3, <2>5, <2>6, <2>7 DEF KeysInv
<1>. QED BY <1>5, <1>6

LEMMA LogInKeeps == ASSUME KeysInv, K!LogIn PROVE KeysInv'
<1>1. /\ K!TypeOK
      /\ process[Cli].pc = "idle" /\ file = Nothing /\ ~left
      /\ process' = [process EXCEPT ![Cli] = [pc |-> "set", op |-> "login", storage |-> "file",
                                              cursor |-> 0]]
      /\ UNCHANGED <<file, tmp, keychain, left, loggedIn, moved, stops>>
  BY DEF KeysInv, K!LogIn, K!At
<1>2. /\ process' \in [K!Processes -> Procs]
      /\ OnlyMoves(Cli)
      /\ process'[Cli].pc = "set" /\ process'[Cli].op = "login" /\ process'[Cli].storage = "file"
  BY <1>1, ProcessTyped, KeysFacts DEF Procs, K!Storages, K!Processes, OnlyMoves
<1>3. K!TypeOK'
  BY <1>1, <1>2 DEF K!TypeOK, Procs
<1>4. Errands'
  BY <1>1, <1>2, KeysFacts DEF KeysInv, Errands, OnlyMoves, K!Processes, Saving
<1>5. ~left' => KeysStay'
  BY <1>1, <1>2, KeysFacts DEF KeysInv, KeysStay, OnlyMoves, K!Processes, Points
<1>6. ~left' /\ ~moved' => SavesAlone'
  BY <1>1, <1>2 DEF KeysInv, SavesAlone, OnlyMoves
<1>. QED BY <1>3, <1>4, <1>5, <1>6 DEF KeysInv

\* A new state's keys are in the keychain before there is a file.
LEMMA SaveNewKeeps == ASSUME KeysInv, K!SaveNew PROVE KeysInv'
<1>1. /\ K!TypeOK /\ stops \in 0 .. MaxStops
      /\ process \in [K!Processes -> Procs] /\ Cli \in K!Processes
      /\ process[Cli].pc = "set" /\ process[Cli].op = "login"
      /\ UNCHANGED <<file, tmp, left, loggedIn, moved, stops>>
  BY ProcessTyped DEF KeysInv, K!TypeOK, Errands, K!Processes, K!SaveNew, K!At
<1>2. CASE K!Stops(Cli) /\ keychain' = keychain
  BY <1>1, <1>2, Stopping, QuietKeeps DEF Saving
<1>3. CASE \/ K!Goes(Cli, "save") /\ keychain' = keychain
           \/ /\ process' = [process EXCEPT ![Cli].pc = "save", ![Cli].storage = "keychain"]
              /\ keychain' = [keychain EXCEPT !.keys = TRUE]
  <2>1. /\ process' \in [K!Processes -> Procs]
        /\ OnlyMoves(Cli)
        /\ process'[Cli].pc = "save" /\ process'[Cli].op = "login"
        /\ process'[Cli].storage \in {"keychain", process[Cli].storage}
    BY <1>1, <1>3 DEF K!Goes, Procs, K!Storages, OnlyMoves
  <2>2. /\ keychain' \in [available : BOOLEAN, keys : BOOLEAN, locked : BOOLEAN]
        /\ keychain.keys => keychain'.keys
    BY <1>1, <1>3 DEF K!TypeOK
  <2>3. process'[Cli].storage = process[Cli].storage \/ keychain'.keys
    <3>1. CASE K!Goes(Cli, "save")
      BY <1>1, <3>1, Going DEF MovesTo
    <3>2. CASE keychain' = [keychain EXCEPT !.keys = TRUE]
      BY <1>1, <3>2 DEF K!TypeOK
    <3>. QED BY <1>3, <3>1, <3>2
  <2>4. K!TypeOK'
    BY <1>1, <2>1, <2>2 DEF K!TypeOK, Procs
  <2>5. Errands'
    BY <1>1, <2>1, KeysFacts DEF KeysInv, Errands, OnlyMoves, K!Processes, Saving
  <2>6. ~left' => KeysStay'
    BY <1>1, <2>1, <2>2, <2>3, KeysFacts
       DEF KeysInv, KeysStay, OnlyMoves, K!Processes, Points
  <2>7. ~left' /\ ~moved' => SavesAlone'
    BY <1>1, <2>1 DEF KeysInv, SavesAlone, OnlyMoves
  <2>. QED BY <2>4, <2>5, <2>6, <2>7 DEF KeysInv
<1>. QED BY <1>2, <1>3 DEF K!SaveNew

LEMMA ReceiveKeeps == ASSUME KeysInv, K!Receive PROVE KeysInv'
<1>1. /\ K!TypeOK /\ stops \in 0 .. MaxStops
      /\ process \in [K!Processes -> Procs] /\ Daemon \in K!Processes
      /\ process[Daemon].pc = "loaded" /\ process[Daemon].cursor < MaxCursor
      /\ process' = [process EXCEPT ![Daemon].cursor = @ + 1, ![Daemon].pc = "save"]
      /\ UNCHANGED <<file, tmp, keychain, left, loggedIn, moved, stops>>
  BY ProcessTyped DEF KeysInv, K!TypeOK, K!Processes, K!Receive, K!At
<1>2. process[Daemon].cursor + 1 \in 0 .. MaxCursor
  BY <1>1, KeysFacts DEF Procs
<1>3. /\ process' \in [K!Processes -> Procs]
      /\ OnlyMoves(Daemon)
      /\ process'[Daemon].pc = "save" /\ process'[Daemon].op = process[Daemon].op
      /\ process'[Daemon].storage = process[Daemon].storage
  BY <1>1, <1>2 DEF Procs, OnlyMoves
<1>4. /\ ~left => (process[Daemon].storage = "keychain" => keychain.keys)
      /\ process[Daemon].op \in {"logout", "revoke"} => left
  BY <1>1 DEF KeysInv, KeysStay, Errands
<1>. QED BY <1>1, <1>3, <1>4, QuietKeeps DEF Saving

\* Whatever a logout takes away, the device has left.
LEMMA LeavingKeeps ==
  ASSUME KeysInv, left, K!Forget \/ K!RemoveFile
  PROVE  KeysInv'
<1>1. /\ K!TypeOK /\ Cli \in K!Processes
      /\ UNCHANGED <<tmp, left, loggedIn, moved, stops>>
      /\ K!Stops(Cli) \/ K!Goes(Cli, "remove")
  BY DEF KeysInv, K!Processes, K!Forget, K!RemoveFile
<1>2. /\ process' \in [K!Processes -> Procs]
      /\ OnlyMoves(Cli)
      /\ process'[Cli].pc \in {"idle", "remove"}
      /\ process'[Cli].op = process[Cli].op \/ process'[Cli].op = "none"
  BY <1>1, Stopping, Going DEF MovesTo
<1>3. file' \in K!Files \cup {Nothing}
  BY KeysFacts DEF KeysInv, K!TypeOK, K!Forget, K!RemoveFile, K!Zeroed, K!Files
<1>4. keychain' \in [available : BOOLEAN, keys : BOOLEAN, locked : BOOLEAN]
  BY DEF KeysInv, K!TypeOK, K!Forget, K!RemoveFile
<1>5. K!TypeOK'
  BY <1>1, <1>2, <1>3, <1>4 DEF K!TypeOK, Procs
<1>6. Errands'
  BY <1>1, <1>2, KeysFacts DEF KeysInv, Errands, OnlyMoves, K!Processes, Saving
<1>. QED BY <1>1, <1>5, <1>6 DEF KeysInv

LEMMA LocksKeep == ASSUME KeysInv, K!Lock \/ K!Unlock PROVE KeysInv'
<1>1. /\ UNCHANGED <<file, tmp, process, left, loggedIn, moved>>
      /\ \E b \in BOOLEAN : keychain' = [keychain EXCEPT !.locked = b]
  BY DEF K!Lock, K!Unlock
<1>2. stops' \in 0 .. MaxStops
  BY KeysFacts DEF KeysInv, K!TypeOK, K!Lock, K!Unlock, K!Trouble
<1>3. /\ keychain' \in [available : BOOLEAN, keys : BOOLEAN, locked : BOOLEAN]
      /\ keychain'.keys = keychain.keys
  BY <1>1 DEF KeysInv, K!TypeOK
<1>4. K!TypeOK'
  BY <1>1, <1>2, <1>3 DEF KeysInv, K!TypeOK
<1>. QED BY <1>1, <1>3, <1>4 DEF KeysInv, Errands, KeysStay, SavesAlone, Points

LEMMA KeysInit == ASSUME K!Init PROVE KeysInv
<1>1. /\ process = [p \in K!Processes |-> K!Idle]
      /\ file \in {Nothing, [owner |-> Nothing, text |-> "full", storage |-> "file", cursor |-> 0]}
      /\ 0 \in 0 .. MaxCursor /\ 0 \in 0 .. MaxStops
  BY KeysFacts DEF K!Init
<1>2. file \in K!Files \cup {Nothing} /\ Points(file) = FALSE
  BY <1>1 DEF K!Files, K!Storages, Points
<1>3. process \in [K!Processes -> Procs]
  BY <1>1, KeysFacts
<1>4. K!TypeOK
  BY <1>1, <1>2, <1>3 DEF K!Init, K!TypeOK, Procs
<1>5. \A p \in K!Processes :
         process[p].pc = "idle" /\ process[p].op = "none" /\ process[p].storage = "file"
  BY <1>1 DEF K!Idle
<1>6. Errands
  BY <1>5 DEF Errands, K!Processes, Saving
<1>7. KeysStay
  BY <1>2, <1>5 DEF K!Init, KeysStay, Points, K!Processes
<1>8. SavesAlone
  <2>1. file # Nothing => file.text = "full"
    BY <1>1
  <2>. QED BY <1>5, <2>1 DEF K!Init, SavesAlone
<1>. QED BY <1>4, <1>6, <1>7, <1>8 DEF KeysInv

LEMMA KeysStep == KeysInv /\ [K!Next]_(K!vars) => KeysInv'
<1>. SUFFICES ASSUME KeysInv, [K!Next]_(K!vars) PROVE KeysInv'
  OBVIOUS
<1>1. ASSUME NEW p \in K!Processes,
             \/ K!LoadKeys(p) \/ K!MoveSet(p) \/ K!MoveVerify(p) \/ K!Scrub(p)
             \/ K!SaveClears(p) \/ K!SaveCreates(p) \/ K!SaveWrites(p) \/ K!SaveRenames(p)
             \/ K!Crash(p)
      PROVE  KeysInv'
  BY <1>1, QuietStepsKeep, MoveSetKeeps, MoveVerifyKeeps, ScrubKeeps, SaveClearsKeeps,
     SaveCreatesKeeps, SaveWritesKeeps, SaveRenamesKeeps
<1>2. CASE K!CommandEnds
  BY <1>2, QuietStepsKeep DEF K!Processes
<1>3. CASE K!Forget \/ K!RemoveFile
  <2>1. process[Cli].pc \in {"forget", "remove"} /\ Cli \in K!Processes
    BY <1>3 DEF K!Forget, K!RemoveFile, K!At, K!Processes
  <2>2. left
    BY <2>1 DEF KeysInv, Errands
  <2>. QED BY <1>3, <2>2, LeavingKeeps
<1>4. CASE UNCHANGED K!vars
  BY <1>4 DEF K!vars, KeysInv, K!TypeOK, Errands, KeysStay, SavesAlone, Points
<1>. QED
  BY <1>1, <1>2, <1>3, <1>4, LoadKeeps, LogInKeeps, SaveNewKeeps, ReceiveKeeps, LocksKeep
     DEF K!Next

\* Keys stay where something can find them, and saves are whole.
LEMMA KeysInvImplies == KeysInv => KeysAreKept /\ SavesAreAtomic
<1>. SUFFICES ASSUME KeysInv PROVE KeysAreKept /\ SavesAreAtomic
  OBVIOUS
<1>1. CASE ~left
  <2>1. KeysStay
    BY <1>1 DEF KeysInv
  <2>2. ~moved => SavesAlone
    BY <1>1 DEF KeysInv
  <2>3. loggedIn /\ ~keychain.keys => K!KeysInFile
    BY <2>1, <2>2 DEF KeysInv, K!TypeOK, K!Files, K!Storages, KeysStay, SavesAlone, Points,
                      K!KeysInFile
  <2>. QED BY <1>1, <2>1, <2>2, <2>3
           DEF KeysInv, KeysStay, SavesAlone, Points, KeysAreKept, SavesAreAtomic,
               K!KeysAreKept, K!SavesAreAtomic
<1>2. CASE left
  BY <1>2 DEF KeysInv, KeysAreKept, SavesAreAtomic, K!KeysAreKept, K!SavesAreAtomic
<1>. QED BY <1>1, <1>2

\* A device's keys survive whatever its processes do at the same time, and
\* wherever they are stopped: until it leaves, they are in the keychain or in
\* the file (state.rs:260, 280).
THEOREM KeysSurvive == K!Spec => []KeysAreKept
  BY KeysInit, KeysStep, KeysInvImplies, PTL DEF K!Spec

\* Until keys are moved out of the file, it is whole at every moment and after
\* every stop (state.rs:306).
THEOREM SavesAreWhole == K!Spec => []SavesAreAtomic
  BY KeysInit, KeysStep, KeysInvImplies, PTL DEF K!Spec

----------------------------------------------------------------------------
(* The desktop's history.                                                     *)

DesktopInv ==
    /\ H!ReportedIsKept
    /\ IsFiniteSet(files)
    /\ ~exists => files = {} /\ reported = {}
    /\ \A p \in Programs :
          /\ run[p].pc \in {"replay", "dedupe", "write", "prune", "rename", "mark"} =>
                run[p].item \in H!Items
          /\ run[p].pc = "rename" => run[p].item.at < MaxTime

Runs == [pc : {"idle", "replay", "dedupe", "write", "prune", "rename", "mark", "unmark"},
         item : H!Items \cup {Nothing}, replays : BOOLEAN]

LEMMA DesktopFacts ==
  /\ MaxItems \in Nat /\ MaxTime \in Nat /\ MaxKills \in Nat
  /\ H!Idle \in Runs
  BY DeviceConstants DEF H!HistoryConstants, H!Idle, Runs

LEMMA RunTyped == H!TypeOK => run \in [Programs -> Runs]
  BY DEF H!TypeOK, Runs

\* What a command that is at pc knows of its item.
Fits(r) ==
    /\ r.pc \in {"replay", "dedupe", "write", "prune", "rename", "mark"} => r.item \in H!Items
    /\ r.pc = "rename" => r.item.at < MaxTime

OnWay(c, p) == run[p].pc = "write" /\ run[p].item.content = c

LEMMA DesktopIs ==
  DesktopInv <=>
    /\ H!TypeOK
    /\ \A c \in reported : H!Has(files, c) \/ \E p \in Programs : OnWay(c, p)
    /\ IsFiniteSet(files)
    /\ ~exists => files = {} /\ reported = {}
    /\ \A p \in Programs : Fits(run[p])
  BY DEF DesktopInv, H!ReportedIsKept, OnWay, Fits, H!At

\* A step of one program, which was not about to write.
LEMMA RunKeeps ==
  ASSUME DesktopInv, NEW p \in Programs, NEW r \in Runs,
         run' = [run EXCEPT ![p] = r], Fits(r),
         time' = time, exists' \in BOOLEAN, kills' \in 0 .. MaxKills,
         files' \subseteq H!Items, marker' \in H!Items \cup {Nothing}, reported' \subseteq Clips,
         IsFiniteSet(files'),
         ~exists' => files' = {} /\ reported' = {},
         \A c \in reported' :
            \/ H!Has(files', c)
            \/ r.pc = "write" /\ r.item.content = c
            \/ c \in reported /\ ~H!Has(files, c) /\ ~OnWay(c, p)
  PROVE  DesktopInv'
<1>1. run \in [Programs -> Runs] /\ H!TypeOK
  BY DesktopIs, RunTyped
<1>2. /\ run'[p] = r
      /\ \A q \in Programs : q # p => run'[q] = run[q]
      /\ run' \in [Programs -> Runs]
  BY <1>1
<1>3. H!TypeOK'
  BY <1>1, <1>2 DEF H!TypeOK, Runs
<1>4. \A q \in Programs : Fits(run[q])'
  BY <1>2, DesktopIs DEF Fits
<1>5. ASSUME NEW c \in reported'
      PROVE  H!Has(files, c)' \/ \E q \in Programs : OnWay(c, q)'
  <2>1. CASE H!Has(files', c)
    BY <2>1 DEF H!Has
  <2>2. CASE r.pc = "write" /\ r.item.content = c
    BY <1>2, <2>2 DEF OnWay
  <2>3. CASE c \in reported /\ ~H!Has(files, c) /\ ~OnWay(c, p)
    <3>1. PICK q \in Programs : OnWay(c, q)
      BY <2>3, DesktopIs
    <3>. QED BY <1>2, <2>3, <3>1 DEF OnWay
  <2>. QED BY <2>1, <2>2, <2>3
<1>. QED BY <1>3, <1>4, <1>5 DEF DesktopInv, H!ReportedIsKept, OnWay, Fits, H!At

LEMMA AddKeeps ==
  ASSUME DesktopInv, NEW p \in Programs, NEW c \in Clips, NEW r \in BOOLEAN, H!Add(p, c, r)
  PROVE  DesktopInv'
<1>. DEFINE new == [pc |-> IF r THEN "replay" ELSE "dedupe",
                    item |-> [at |-> time, content |-> c], replays |-> FALSE]
<1>1. H!TypeOK
  BY DesktopIs
<1>2. /\ run' = [run EXCEPT ![p] = new]
      /\ exists' = TRUE
      /\ UNCHANGED <<time, files, marker, reported, kills>>
      /\ run[p].pc = "idle"
  BY DEF H!Add, H!Runs, H!At
<1>3. [at |-> time, content |-> c] \in H!Items
  BY <1>1, DesktopFacts DEF H!TypeOK, H!Items
<1>4. new \in Runs /\ Fits(new)
  BY <1>3 DEF Runs, Fits
<1>5. ~OnWay(c, p) /\ \A d \in Clips : ~OnWay(d, p)
  BY <1>2 DEF OnWay
<1>. HIDE DEF new
<1>. QED BY <1>1, <1>2, <1>4, <1>5, RunKeeps, DesktopIs DEF H!TypeOK

\* A marker whose item is still there stands for a copy that is still there.
LEMMA IgnoreReplayKeeps ==
  ASSUME DesktopInv, NEW p \in Programs, H!IgnoreReplay(p)
  PROVE  DesktopInv'
<1>. DEFINE c == run[p].item.content
<1>1. H!TypeOK /\ run \in [Programs -> Runs]
  BY DesktopIs, RunTyped
<1>2. /\ run[p].pc = "replay"
      /\ marker' = Nothing
      /\ UNCHANGED <<time, exists, files, kills>>
      /\ \/ /\ H!IsReplay(c)
            /\ reported' = reported \cup {c} /\ run' = [run EXCEPT ![p] = H!Idle]
         \/ reported' = reported /\ run' = [run EXCEPT ![p].pc = "dedupe"]
  BY DEF H!IgnoreReplay, H!At, H!Ends, H!Goes
<1>3. run[p] \in Runs /\ Fits(run[p]) /\ run[p].item \in H!Items /\ c \in Clips
  BY <1>1, <1>2, DesktopIs DEF Fits, H!Items
<1>4. \A d \in Clips : ~OnWay(d, p)
  BY <1>2 DEF OnWay
<1>5. CASE /\ H!IsReplay(c)
           /\ reported' = reported \cup {c} /\ run' = [run EXCEPT ![p] = H!Idle]
  <2>1. H!Has(files, c) /\ files # {}
    BY <1>5 DEF H!IsReplay, H!MarkerFits, H!Has
  <2>2. exists
    BY <2>1, DesktopIs
  <2>3. Fits(H!Idle) /\ H!Idle \in Runs
    BY DesktopFacts DEF Fits, H!Idle
  <2>. QED BY <1>1, <1>2, <1>3, <1>4, <1>5, <2>1, <2>2, <2>3, RunKeeps, DesktopIs DEF H!TypeOK
<1>6. CASE reported' = reported /\ run' = [run EXCEPT ![p].pc = "dedupe"]
  <2>. DEFINE r == [run[p] EXCEPT !.pc = "dedupe"]
  <2>1. r \in Runs /\ Fits(r) /\ run' = [run EXCEPT ![p] = r]
    BY <1>1, <1>3, <1>6 DEF Fits, Runs
  <2>. HIDE DEF r
  <2>. QED BY <1>1, <1>2, <1>4, <1>6, <2>1, RunKeeps, DesktopIs DEF H!TypeOK
<1>. QED BY <1>2, <1>5, <1>6

\* An old copy goes, and whoever took it is about to write the new one.
LEMMA RemoveExistingKeeps ==
  ASSUME DesktopInv, NEW p \in Programs, H!RemoveExistingHash(p)
  PROVE  DesktopInv'
<1>. DEFINE c == run[p].item.content
            r == IF exists THEN [run[p] EXCEPT !.pc = "write"] ELSE H!Idle
<1>1. H!TypeOK /\ run \in [Programs -> Runs]
  BY DesktopIs, RunTyped
<1>2. /\ run[p].pc = "dedupe"
      /\ files' = {f \in files : f.content # c}
      /\ run' = [run EXCEPT ![p] = r]
      /\ UNCHANGED <<time, exists, marker, reported, kills>>
  BY <1>1 DEF H!RemoveExistingHash, H!At, H!Goes, H!Ends
<1>3. run[p] \in Runs /\ Fits(run[p])
  BY <1>1, DesktopIs
<1>4. r \in Runs /\ Fits(r)
  BY <1>2, <1>3, DesktopFacts DEF Fits, Runs, H!Idle
<1>5. files' \subseteq files /\ IsFiniteSet(files')
  BY <1>2, DesktopIs, FS_Subset
<1>6. ASSUME NEW d \in reported
      PROVE  \/ H!Has(files', d)
             \/ r.pc = "write" /\ r.item.content = d
             \/ d \in reported /\ ~H!Has(files, d) /\ ~OnWay(d, p)
  <2>1. ~OnWay(d, p)
    BY <1>2 DEF OnWay
  <2>2. H!Has(files, d) => H!Has(files', d) \/ d = c
    BY <1>2 DEF H!Has
  <2>3. exists /\ run[p] \in Runs => r.pc = "write" /\ r.item.content = c
    BY DEF Runs
  <2>4. exists
    BY DesktopIs
  <2>. QED BY <1>3, <2>1, <2>2, <2>3, <2>4
<1>. HIDE DEF r, c
<1>. QED BY <1>1, <1>2, <1>4, <1>5, <1>6, RunKeeps, DesktopIs DEF H!TypeOK

LEMMA WriteItemKeeps ==
  ASSUME DesktopInv, NEW p \in Programs, H!WriteItem(p)
  PROVE  DesktopInv'
<1>. DEFINE f == [run[p].item EXCEPT !.at = time]
            r == IF exists THEN [run[p] EXCEPT !.pc = "prune", !.item = f] ELSE H!Idle
<1>1. H!TypeOK /\ run \in [Programs -> Runs]
  BY DesktopIs, RunTyped
<1>2. /\ run[p].pc = "write"
      /\ files' = IF exists THEN files \cup {f} ELSE files
      /\ run' = [run EXCEPT ![p] = r]
      /\ UNCHANGED <<time, exists, marker, reported, kills>>
  BY <1>1 DEF H!WriteItem, H!At, H!Ends
<1>3. run[p] \in Runs /\ Fits(run[p])
  BY <1>1, DesktopIs
<1>4. run[p].item \in H!Items /\ time \in 0 .. MaxTime
  BY <1>1, <1>2, <1>3 DEF Fits, H!TypeOK
<1>5. f \in H!Items /\ f.content = run[p].item.content
  BY <1>4, DesktopFacts DEF H!Items
<1>. HIDE DEF f
<1>6. r \in Runs /\ Fits(r)
  BY <1>3, <1>5, DesktopFacts DEF Fits, Runs, H!Idle
<1>7. IsFiniteSet(files') /\ files' \subseteq H!Items /\ files \subseteq files'
  BY <1>1, <1>2, <1>5, DesktopIs, FS_AddElement DEF H!TypeOK
<1>8. ASSUME NEW d \in reported
      PROVE  \/ H!Has(files', d)
             \/ d \in reported /\ ~H!Has(files, d) /\ ~OnWay(d, p)
  <2>1. exists
    BY DesktopIs
  <2>2. OnWay(d, p) => H!Has(files', d)
    BY <1>2, <1>5, <2>1 DEF OnWay, H!Has
  <2>3. H!Has(files, d) => H!Has(files', d)
    BY <1>7 DEF H!Has
  <2>. QED BY <2>2, <2>3
<1>. HIDE DEF r
<1>. QED BY <1>1, <1>2, <1>6, <1>7, <1>8, RunKeeps, DesktopIs DEF H!TypeOK

\* The module's own instance counts as the theorems on finite sets do.
LEMMA SameCardinality == ASSUME NEW S PROVE H!Cardinality(S) = Cardinality(S)
  BY DEF H!Cardinality, Cardinality

\* What has no MaxItems items as new as itself beside it is not pushed out.
LEMMA NewEnoughStays ==
  ASSUME H!TypeOK, IsFiniteSet(files), NEW kept \in SUBSET files,
         Cardinality(kept) = IF Cardinality(files) < MaxItems THEN Cardinality(files) ELSE MaxItems,
         H!Newest(kept),
         NEW f \in files, ~(Cardinality({g \in files : g.at >= f.at}) > MaxItems)
  PROVE  f \in kept
<1>. SUFFICES ASSUME f \notin kept PROVE FALSE
  OBVIOUS
<1>. DEFINE above == {g \in files : g.at >= f.at}
<1>1. \A g \in files : g.at \in Nat
  BY DesktopFacts DEF H!TypeOK, H!Items
<1>2. kept \cup {f} \subseteq above
  BY <1>1 DEF H!Newest
<1>3. IsFiniteSet(above) /\ IsFiniteSet(kept)
  BY FS_Subset
<1>4. Cardinality(kept \cup {f}) = Cardinality(kept) + 1
  BY <1>3, FS_AddElement
<1>5. Cardinality(kept \cup {f}) <= Cardinality(above)
  BY <1>2, <1>3, FS_Subset
<1>6. Cardinality(kept \cup {f}) <= Cardinality(files)
  BY FS_Subset
<1>7. /\ Cardinality(kept) \in Nat /\ Cardinality(files) \in Nat
      /\ Cardinality(above) \in Nat /\ MaxItems \in Nat
  BY <1>3, FS_CardinalityType, DesktopFacts
<1>. HIDE DEF above
<1>8. CASE Cardinality(files) < MaxItems
  BY <1>4, <1>6, <1>7, <1>8
<1>9. CASE ~(Cardinality(files) < MaxItems)
  <2>1. Cardinality(above) > MaxItems
    BY <1>4, <1>5, <1>7, <1>9
  <2>. QED BY <2>1 DEF above
<1>. QED BY <1>8, <1>9

LEMMA PruneHistoryKeeps ==
  ASSUME DesktopInv, NEW p \in Programs, H!PruneHistory(p)
  PROVE  DesktopInv'
<1>. DEFINE c == run[p].item.content
            r == IF exists /\ run[p].replays THEN [run[p] EXCEPT !.pc = "mark"] ELSE H!Idle
<1>1. H!TypeOK /\ run \in [Programs -> Runs] /\ run[p].pc = "prune"
  BY DesktopIs, RunTyped DEF H!PruneHistory, H!At
<1>2. run[p] \in Runs /\ Fits(run[p]) /\ run[p].item \in H!Items /\ c \in Clips
  BY <1>1, DesktopIs DEF Fits, H!Items
<1>3. /\ run' = [run EXCEPT ![p] = r]
      /\ UNCHANGED <<time, exists, marker, kills>>
  BY <1>1 DEF H!PruneHistory, H!Goes, H!Ends
<1>4. r \in Runs /\ Fits(r)
  BY <1>2, DesktopFacts DEF Fits, Runs, H!Idle
<1>5. \A d \in Clips : ~OnWay(d, p)
  BY <1>1 DEF OnWay
<1>. HIDE DEF r
<1>6. CASE ~exists
  <2>1. UNCHANGED <<files, reported>>
    BY <1>6 DEF H!PruneHistory
  <2>. QED BY <1>1, <1>3, <1>4, <1>5, <2>1, RunKeeps, DesktopIs DEF H!TypeOK
<1>7. CASE exists
  <2>1. PICK kept \in SUBSET files :
           /\ Cardinality(kept) = IF Cardinality(files) < MaxItems
                                  THEN Cardinality(files) ELSE MaxItems
           /\ H!Newest(kept)
           /\ files' = kept
    BY <1>7, SameCardinality DEF H!PruneHistory
  <2>2. reported' = (reported \cup {d \in {c} : H!Has(files, d)}) \ H!PushedOut
    BY <1>7 DEF H!PruneHistory
  <2>3. IsFiniteSet(files) /\ IsFiniteSet(files') /\ files' \subseteq H!Items
    BY <1>1, <2>1, DesktopIs, FS_Subset DEF H!TypeOK
  <2>4. reported' \subseteq Clips
    BY <1>1, <1>2, <2>2 DEF H!TypeOK
  <2>5. ASSUME NEW d \in reported'
        PROVE  H!Has(files', d) \/ (d \in reported /\ ~H!Has(files, d))
    <3>1. CASE H!Has(files, d)
      <4>1. d \notin H!PushedOut
        BY <2>2
      <4>2. PICK f \in files : f.content = d
                               /\ ~(Cardinality({g \in files : g.at >= f.at}) > MaxItems)
        BY <2>4, <3>1, <4>1, SameCardinality DEF H!PushedOut
      <4>3. f \in kept
        BY <1>1, <2>1, <2>3, <4>2, NewEnoughStays
      <4>. QED BY <2>1, <4>2, <4>3 DEF H!Has
    <3>2. CASE ~H!Has(files, d)
      BY <2>2, <3>2
    <3>. QED BY <3>1, <3>2
  <2>. QED BY <1>1, <1>3, <1>4, <1>5, <1>7, <2>3, <2>4, <2>5, RunKeeps DEF H!TypeOK
<1>. QED BY <1>6, <1>7

LEMMA TouchKeeps ==
  ASSUME DesktopInv, NEW p \in Programs, NEW f \in files, NEW b \in BOOLEAN, H!Touch(p, f, b)
  PROVE  DesktopInv'
<1>. DEFINE new == [pc |-> "rename", item |-> f, replays |-> b]
<1>1. H!TypeOK
  BY DesktopIs
<1>2. /\ run' = [run EXCEPT ![p] = new]
      /\ exists' = TRUE
      /\ UNCHANGED <<time, files, marker, reported, kills>>
      /\ run[p].pc = "idle" /\ f.at < MaxTime
  BY DEF H!Touch, H!Runs, H!At
<1>3. new \in Runs /\ Fits(new)
  BY <1>1, <1>2 DEF Runs, Fits, H!TypeOK
<1>4. \A d \in Clips : ~OnWay(d, p)
  BY <1>2 DEF OnWay
<1>. HIDE DEF new
<1>. QED BY <1>1, <1>2, <1>3, <1>4, RunKeeps, DesktopIs DEF H!TypeOK

\* A new name for the same content, in one step.
LEMMA RenameKeeps ==
  ASSUME DesktopInv, NEW p \in Programs, H!Rename(p)
  PROVE  DesktopInv'
<1>. DEFINE f == run[p].item
            g == H!Later(f)
            r == IF f \in files THEN [run[p] EXCEPT !.pc = "prune", !.item = g] ELSE H!Idle
<1>1. H!TypeOK /\ run \in [Programs -> Runs] /\ run[p].pc = "rename"
  BY DesktopIs, RunTyped DEF H!Rename, H!At
<1>2. run[p] \in Runs /\ f \in H!Items /\ f.at < MaxTime
  BY <1>1, DesktopIs DEF Fits
<1>3. /\ files' = IF f \in files THEN (files \ {f}) \cup {g} ELSE files
      /\ run' = [run EXCEPT ![p] = r]
      /\ UNCHANGED <<time, exists, marker, reported, kills>>
  BY <1>1 DEF H!Rename, H!Ends
<1>4. g \in H!Items /\ g.content = f.content
  BY <1>1, <1>2, DesktopFacts DEF H!Later, H!Items, H!TypeOK
<1>. HIDE DEF g
<1>5. r \in Runs /\ Fits(r)
  BY <1>2, <1>4, DesktopFacts DEF Fits, Runs, H!Idle
<1>6. IsFiniteSet(files') /\ files' \subseteq H!Items /\ (files = {} => files' = {})
  BY <1>1, <1>3, <1>4, DesktopIs, FS_AddElement, FS_RemoveElement DEF H!TypeOK
<1>7. ASSUME NEW d \in reported
      PROVE  H!Has(files', d) \/ (d \in reported /\ ~H!Has(files, d))
  BY <1>3, <1>4 DEF H!Has
<1>8. \A d \in Clips : ~OnWay(d, p)
  BY <1>1 DEF OnWay
<1>. HIDE DEF r
<1>. QED BY <1>1, <1>3, <1>5, <1>6, <1>7, <1>8, RunKeeps, DesktopIs DEF H!TypeOK

LEMMA MarkersKeep ==
  ASSUME DesktopInv, NEW p \in Programs, H!MarkReplay(p) \/ H!Unmark(p)
  PROVE  DesktopInv'
<1>1. H!TypeOK /\ run[p].pc \in {"mark", "unmark"}
  BY DesktopIs DEF H!MarkReplay, H!Unmark, H!At
<1>2. /\ run' = [run EXCEPT ![p] = H!Idle]
      /\ UNCHANGED <<time, exists, files, reported, kills>>
  BY DEF H!MarkReplay, H!Unmark, H!Ends
<1>3. marker' \in H!Items \cup {Nothing}
  BY <1>1, DesktopIs DEF H!MarkReplay, H!Unmark, H!At, Fits
<1>4. H!Idle \in Runs /\ Fits(H!Idle) /\ \A d \in Clips : ~OnWay(d, p)
  BY <1>1, DesktopFacts DEF H!Idle, Fits, OnWay
<1>. QED BY <1>1, <1>2, <1>3, <1>4, RunKeeps, DesktopIs DEF H!TypeOK

LEMMA ClearKeeps ==
  ASSUME DesktopInv, NEW p \in Programs, H!Clear(p)
  PROVE  DesktopInv'
<1>. DEFINE new == [pc |-> "unmark", item |-> Nothing, replays |-> FALSE]
<1>1. /\ run' = [run EXCEPT ![p] = new]
      /\ exists' = FALSE /\ files' = {} /\ reported' = {}
      /\ UNCHANGED <<time, marker, kills>>
  BY DEF H!Clear, H!Runs
<1>2. new \in Runs /\ Fits(new)
  BY DEF Runs, Fits
<1>3. IsFiniteSet({})
  BY FS_EmptySet
<1>. HIDE DEF new
<1>. QED BY <1>1, <1>2, <1>3, RunKeeps, DesktopIs DEF H!TypeOK

LEMMA KillKeeps ==
  ASSUME DesktopInv, NEW p \in Programs, H!Kill(p)
  PROVE  DesktopInv'
<1>1. H!TypeOK
  BY DesktopIs
<1>2. /\ run' = [run EXCEPT ![p] = H!Idle]
      /\ kills' \in 0 .. MaxKills
      /\ UNCHANGED <<time, exists, files, marker>>
      /\ reported' = IF run[p].pc = "write" THEN {c \in reported : H!Has(files, c)} ELSE reported
  BY <1>1, DesktopFacts DEF H!Kill, H!At, H!Ends, H!TypeOK
<1>3. \A c \in reported' : H!Has(files', c) \/ (c \in reported /\ ~H!Has(files, c) /\ ~OnWay(c, p))
  BY <1>2 DEF OnWay
<1>4. H!Idle \in Runs /\ Fits(H!Idle)
  BY DesktopFacts DEF H!Idle, Fits
<1>. QED BY <1>1, <1>2, <1>3, <1>4, RunKeeps, DesktopIs DEF H!TypeOK

LEMMA DesktopInit == ASSUME H!Init PROVE DesktopInv
<1>1. H!TypeOK
  <2>1. run \in [Programs -> Runs]
    BY DesktopFacts DEF H!Init
  <2>2. 0 \in 0 .. MaxTime /\ 0 \in 0 .. MaxKills
    BY DesktopFacts
  <2>3. time = 0 /\ exists = FALSE /\ files = {} /\ marker = Nothing /\ reported = {} /\ kills = 0
    BY DEF H!Init
  <2>. QED BY <2>1, <2>2, <2>3 DEF H!TypeOK, Runs
<1>2. \A p \in Programs : Fits(run[p])
  BY DEF H!Init, H!Idle, Fits
<1>. QED BY <1>1, <1>2, FS_EmptySet, DesktopIs DEF H!Init

LEMMA DesktopStep == DesktopInv /\ [H!Next]_(H!vars) => DesktopInv'
<1>. SUFFICES ASSUME DesktopInv, [H!Next]_(H!vars) PROVE DesktopInv'
  OBVIOUS
<1>1. ASSUME NEW p \in Programs,
             \/ \E c \in Clips, r \in BOOLEAN : H!Add(p, c, r)
             \/ \E f \in files, r \in BOOLEAN : H!Touch(p, f, r)
             \/ H!IgnoreReplay(p) \/ H!RemoveExistingHash(p) \/ H!WriteItem(p)
             \/ H!PruneHistory(p) \/ H!Rename(p) \/ H!MarkReplay(p) \/ H!Clear(p)
             \/ H!Unmark(p) \/ H!Kill(p)
      PROVE  DesktopInv'
  BY <1>1, AddKeeps, TouchKeeps, IgnoreReplayKeeps, RemoveExistingKeeps, WriteItemKeeps,
     PruneHistoryKeeps, RenameKeeps, MarkersKeep, ClearKeeps, KillKeeps
<1>2. CASE H!Tick \/ UNCHANGED H!vars
  <2>1. UNCHANGED <<exists, files, marker, run, reported, kills>>
    BY <1>2 DEF H!Tick, H!vars
  <2>2. time' \in 0 .. MaxTime
    BY <1>2, DesktopFacts, DesktopIs DEF H!Tick, H!vars, H!TypeOK
  <2>. QED BY <2>1, <2>2 DEF DesktopInv, H!ReportedIsKept, H!TypeOK, H!At, H!Has
<1>. QED BY <1>1, <1>2 DEF H!Next

\* What has been reported is there or on its way.
LEMMA DesktopInvImplies == DesktopInv => ReportedIsKept
  BY DEF DesktopInv, ReportedIsKept

\* What a command has said is in the history is there or on its way back into
\* it, whatever commands run at the same time (main.rs:147, 433, 641).
THEOREM ReportedStays == H!Spec => []ReportedIsKept
  BY DesktopInit, DesktopStep, DesktopInvImplies, PTL DEF H!Spec

----------------------------------------------------------------------------
(* The phone.                                                                 *)

Kept(i) == stored[i] # 0 \/ outbox[i] # 0 \/ i \in cleared

\* What is queued, sent or answered for is somewhere.
EntriesInv ==
    \A i \in Shared :
        /\ entry[i] = "sent" => stored[i] # 0
        /\ entry[i] = "queued" \/ i \in promised => Kept(i)

\* What the call in progress has come to with its item, and a clear with its list.
CallKeeps ==
    /\ call.pc \in {"put", "note", "upload", "post", "mark", "remove"} =>
          call.item \in Shared /\ call.item \notin call.todo
    /\ call.pc \in {"note", "upload", "post"} => outbox[call.item] # 0
    /\ call.pc \in {"mark", "remove"} => stored[call.item] # 0
    /\ call.pc = "empty" => call.op = "clear_local" /\ call.todo = {}
    /\ \A i \in call.todo : outbox[i] # 0

\* What the history has of the other devices' items, up to the page's next.
HasUpTo(n) == \A k \in 1 .. n : Arrivals[k] # ClearItem => Arrivals[k] \in got \cup cleared

PageInv ==
    /\ HasUpTo(cursor)
    /\ call.pc \in {"page", "receive"} =>
          /\ cursor <= call.next /\ call.next <= M!PageEnd
          /\ HasUpTo(call.next)
    /\ call.pc = "clear" /\ call.op = "refresh" =>
          /\ cursor <= call.next /\ call.next < M!PageEnd
          /\ HasUpTo(call.next)
          /\ Arrivals[call.next + 1] = ClearItem

PhoneInv == M!TypeOK /\ EntriesInv /\ CallKeeps /\ PageInv

Calls == [pc : {"idle", "put", "note", "upload", "post", "mark", "remove", "flush", "page",
                "receive", "empty", "clear"},
          op : {"none", "share", "save", "refresh", "clear_local"},
          item : Shared \cup {Nothing}, todo : SUBSET Shared, next : 0 .. Len(Arrivals)]

LEMMA PhoneFacts ==
  /\ Arrivals \in Seq(FromOthers \cup {ClearItem}) /\ Len(Arrivals) \in Nat
  /\ \A i \in Shared : i \notin FromOthers
  /\ PageMax \in Nat /\ MaxSeals \in Nat /\ MaxTroubles \in Nat
  /\ M!Idle \in Calls
  BY DeviceConstants DEF M!MobileConstants, M!Idle, Calls

LEMMA CallTyped == M!TypeOK => call \in Calls
  BY DEF M!TypeOK, Calls

LEMMA PageEndIs == ASSUME M!TypeOK PROVE M!PageEnd \in 0 .. Len(Arrivals) /\ cursor <= M!PageEnd
  BY PhoneFacts DEF M!TypeOK, M!PageEnd

\* A call that fails or answers leaves no step behind, and what it answered
\* for has to be somewhere.
LEMMA CallEnds ==
  ASSUME PhoneInv, call' = M!Idle,
         UNCHANGED <<entry, outbox, stored, got, cursor, sealed, cleared>>,
         troubles' \in 0 .. MaxTroubles,
         \/ promised' = promised
         \/ \E i \in Shared : Kept(i) /\ promised' = promised \cup {i}
  PROVE  PhoneInv'
<1>1. M!TypeOK'
  BY PhoneFacts DEF PhoneInv, M!TypeOK, Calls
<1>2. EntriesInv'
  BY DEF PhoneInv, EntriesInv, Kept
<1>3. CallKeeps' /\ PageInv'
  BY DEF PhoneInv, CallKeeps, PageInv, HasUpTo, M!Idle
<1>. QED BY <1>1, <1>2, <1>3 DEF PhoneInv

\* A call that goes on writes nothing but its own state.
LEMMA CallGoesOn ==
  ASSUME PhoneInv, call' \in Calls, CallKeeps',
         call'.pc \in {"page", "receive"} =>
            /\ cursor <= call'.next /\ call'.next <= M!PageEnd
            /\ HasUpTo(call'.next),
         call'.pc # "clear",
         UNCHANGED <<entry, outbox, stored, got, cursor, sealed, promised, cleared>>,
         troubles' \in 0 .. MaxTroubles
  PROVE  PhoneInv'
<1>1. M!TypeOK'
  BY DEF PhoneInv, M!TypeOK, Calls
<1>2. EntriesInv'
  BY DEF PhoneInv, EntriesInv, Kept
<1>3. PageInv'
  BY DEF PhoneInv, PageInv, HasUpTo, M!PageEnd
<1>. QED BY <1>1, <1>2, <1>3 DEF PhoneInv

LEMMA PutKeeps ==
  ASSUME PhoneInv, NEW i \in Shared, NEW op \in {"share", "save"}, M!Put(op, i)
  PROVE  PhoneInv'
<1>1. /\ call' = [M!Idle EXCEPT !.pc = "put", !.op = op, !.item = i]
      /\ UNCHANGED <<entry, outbox, stored, got, cursor, sealed, promised, cleared, troubles>>
  BY DEF M!Put, M!received
<1>2. /\ call' \in Calls
      /\ call'.pc = "put" /\ call'.item = i /\ call'.todo = {}
  BY <1>1, PhoneFacts DEF Calls, M!Idle
<1>3. CallKeeps'
  BY <1>2 DEF CallKeeps
<1>. QED BY <1>1, <1>2, <1>3, CallGoesOn DEF PhoneInv, M!TypeOK

\* Sealed, the item is in the outbox: it is not one the others send.
LEMMA SealKeeps ==
  ASSUME PhoneInv, NEW i \in Shared, call.pc = "put", call.item = i,
         M!Seal(i), UNCHANGED <<entry, stored, got, cursor, troubles>>
  PROVE  PhoneInv'
<1>1. M!TypeOK /\ call \in Calls
  BY CallTyped DEF PhoneInv
<1>2. /\ outbox' = [outbox EXCEPT ![i] = sealed[i] + 1]
      /\ sealed' = [sealed EXCEPT ![i] = sealed[i] + 1]
      /\ sealed[i] < MaxSeals /\ sealed[i] \in 0 .. MaxSeals
      /\ cleared' = cleared \ {i}
      /\ call' = [call EXCEPT !.pc = "note"]
      /\ promised' = promised
  BY <1>1 DEF M!Seal, M!Goes, M!TypeOK
<1>3. /\ sealed[i] + 1 \in 0 .. MaxSeals /\ sealed[i] + 1 # 0
      /\ outbox' \in [Shared -> 0 .. MaxSeals] /\ sealed' \in [Shared -> 0 .. MaxSeals]
      /\ outbox'[i] # 0 /\ \A j \in Shared : j # i => outbox'[j] = outbox[j]
  BY <1>1, <1>2, PhoneFacts DEF M!TypeOK
<1>4. /\ call' \in Calls
      /\ call'.pc = "note" /\ call'.item = i /\ call'.todo = call.todo
  BY <1>1, <1>2 DEF Calls
<1>5. M!TypeOK'
  BY <1>1, <1>2, <1>3, <1>4 DEF M!TypeOK, Calls
<1>6. EntriesInv'
  BY <1>2, <1>3 DEF PhoneInv, EntriesInv, Kept
<1>7. CallKeeps'
  BY <1>1, <1>3, <1>4 DEF PhoneInv, CallKeeps, Calls
<1>8. ASSUME NEW k \in 1 .. cursor, Arrivals[k] # ClearItem, Arrivals[k] \in got \cup cleared
      PROVE  Arrivals[k] \in (got \cup cleared)'
  BY <1>1, <1>2, <1>8, PhoneFacts DEF M!TypeOK
<1>9. PageInv'
  BY <1>4, <1>8 DEF PhoneInv, PageInv, HasUpTo
<1>. QED BY <1>5, <1>6, <1>7, <1>9 DEF PhoneInv

LEMMA ShareKeeps == ASSUME PhoneInv, M!Share PROVE PhoneInv'
<1>. DEFINE i == call.item
<1>1. /\ call \in Calls /\ i \in Shared /\ call.pc = "put"
      /\ UNCHANGED <<entry, stored, got, cursor, troubles>>
  BY CallTyped DEF PhoneInv, CallKeeps, M!Share, M!At, M!received
<1>2. troubles' \in 0 .. MaxTroubles
  BY <1>1 DEF PhoneInv, M!TypeOK
<1>3. CASE outbox[i] # 0 /\ M!Goes("upload") /\ UNCHANGED <<outbox, sealed, promised, cleared>>
  <2>1. /\ call' \in Calls
        /\ call'.pc = "upload" /\ call'.item = i /\ call'.todo = call.todo
    BY <1>1, <1>3 DEF M!Goes, Calls
  <2>2. CallKeeps'
    BY <1>1, <1>3, <2>1 DEF PhoneInv, CallKeeps
  <2>. QED BY <1>1, <1>2, <1>3, <2>1, <2>2, CallGoesOn
<1>4. CASE /\ outbox[i] = 0
           /\ IF entry[i] = "sent" THEN M!Answers(i) ELSE entry[i] = "queued" /\ M!Fails
           /\ UNCHANGED <<outbox, sealed, cleared>>
  <2>1. entry[i] = "sent" => Kept(i)
    BY <1>1 DEF PhoneInv, EntriesInv, Kept
  <2>. QED BY <1>1, <1>2, <1>4, <2>1, CallEnds DEF M!Answers, M!Fails
<1>5. CASE M!Seal(i)
  BY <1>1, <1>5, SealKeeps
<1>. QED BY <1>3, <1>4, <1>5 DEF M!Share

LEMMA SaveItemKeeps == ASSUME PhoneInv, M!SaveItem PROVE PhoneInv'
<1>. DEFINE i == call.item
<1>1. /\ call \in Calls /\ i \in Shared /\ call.pc = "put"
      /\ UNCHANGED <<entry, stored, got, cursor, troubles>>
  BY CallTyped DEF PhoneInv, CallKeeps, M!SaveItem, M!At, M!received
<1>2. troubles' \in 0 .. MaxTroubles
  BY <1>1 DEF PhoneInv, M!TypeOK
<1>3. CASE entry[i] # "none" /\ M!Answers(i) /\ UNCHANGED <<outbox, sealed, cleared>>
  <2>1. Kept(i)
    BY <1>1, <1>3 DEF PhoneInv, EntriesInv, Kept, M!TypeOK
  <2>. QED BY <1>1, <1>2, <1>3, <2>1, CallEnds DEF M!Answers
<1>4. CASE outbox[i] # 0 /\ M!Goes("note") /\ UNCHANGED <<outbox, sealed, promised, cleared>>
  <2>1. /\ call' \in Calls
        /\ call'.pc = "note" /\ call'.item = i /\ call'.todo = call.todo
    BY <1>1, <1>4 DEF M!Goes, Calls
  <2>2. CallKeeps'
    BY <1>1, <1>4, <2>1 DEF PhoneInv, CallKeeps
  <2>. QED BY <1>1, <1>2, <1>4, <2>1, <2>2, CallGoesOn
<1>5. CASE M!Seal(i)
  BY <1>1, <1>5, SealKeeps
<1>. QED BY <1>3, <1>4, <1>5 DEF M!SaveItem

\* An entry is written for an item that is somewhere.
LEMMA EntryWritten ==
  ASSUME PhoneInv, NEW i \in Shared, NEW e \in {"queued", "sent"}, call' \in Calls, CallKeeps',
         call'.pc \notin {"page", "receive", "clear"},
         e = "queued" => Kept(i), e = "sent" => stored[i] # 0,
         entry' = [entry EXCEPT ![i] = e],
         UNCHANGED <<outbox, stored, got, cursor, sealed, promised, cleared, troubles>>
  PROVE  PhoneInv'
<1>1. M!TypeOK'
  BY DEF PhoneInv, M!TypeOK, Calls
<1>2. EntriesInv'
  BY DEF PhoneInv, EntriesInv, Kept, M!TypeOK
<1>3. PageInv'
  BY DEF PhoneInv, PageInv, HasUpTo
<1>. QED BY <1>1, <1>2, <1>3 DEF PhoneInv

LEMMA EntriesKeep == ASSUME PhoneInv, M!Note \/ M!Upload \/ M!MarkSent PROVE PhoneInv'
<1>. DEFINE i == call.item
<1>1. /\ call \in Calls /\ i \in Shared /\ i \notin call.todo
      /\ UNCHANGED <<outbox, stored, got, cursor, sealed, promised, cleared, troubles>>
  BY CallTyped DEF PhoneInv, CallKeeps, M!Note, M!Upload, M!MarkSent, M!At, M!received
<1>2. CASE M!Note
  <2>1. outbox[i] # 0 /\ Kept(i)
    BY <1>2 DEF PhoneInv, CallKeeps, Kept, M!Note, M!At
  <2>2. /\ call' \in Calls
        /\ call'.pc = "upload" /\ call'.item = i /\ call'.todo = call.todo
        /\ entry' = [entry EXCEPT ![i] = "queued"]
    BY <1>1, <1>2 DEF M!Note, M!Goes, Calls
  <2>3. CallKeeps'
    BY <1>1, <2>1, <2>2 DEF PhoneInv, CallKeeps
  <2>. QED BY <1>1, <2>1, <2>2, <2>3, EntryWritten
<1>3. CASE M!Upload
  <2>1. outbox[i] # 0 /\ Kept(i)
    BY <1>3 DEF PhoneInv, CallKeeps, Kept, M!Upload, M!At
  <2>2. /\ call' \in Calls
        /\ call'.pc = "post" /\ call'.item = i /\ call'.todo = call.todo
        /\ entry' = [entry EXCEPT ![i] = IF entry[i] = "none" THEN "queued" ELSE entry[i]]
    BY <1>1, <1>3 DEF M!Upload, M!Goes, Calls
  <2>3. CallKeeps'
    BY <1>1, <2>1, <2>2 DEF PhoneInv, CallKeeps
  <2>4. (IF entry[i] = "none" THEN "queued" ELSE entry[i]) \in {"queued", "sent"}
    BY <1>1 DEF PhoneInv, M!TypeOK
  <2>5. entry[i] = "sent" => stored[i] # 0
    BY <1>1 DEF PhoneInv, EntriesInv
  <2>. QED BY <1>1, <2>1, <2>2, <2>3, <2>4, <2>5, EntryWritten
<1>4. CASE M!MarkSent
  <2>1. stored[i] # 0
    BY <1>4 DEF PhoneInv, CallKeeps, M!MarkSent, M!At
  <2>2. /\ call' \in Calls
        /\ call'.pc = "remove" /\ call'.item = i /\ call'.todo = call.todo
        /\ entry' = [entry EXCEPT ![i] = "sent"]
    BY <1>1, <1>4 DEF M!MarkSent, M!Goes, Calls
  <2>3. CallKeeps'
    BY <1>1, <2>1, <2>2 DEF PhoneInv, CallKeeps
  <2>. QED BY <1>1, <2>1, <2>2, <2>3, EntryWritten
<1>. QED BY <1>2, <1>3, <1>4

\* The server has what it accepts, and an item it had stays.
LEMMA PostKeeps == ASSUME PhoneInv, M!Post PROVE PhoneInv'
<1>. DEFINE i == call.item
            stores == M!Accepts(i) /\ stored' = [stored EXCEPT ![i] = outbox[i]]
<1>1. /\ call \in Calls /\ i \in Shared /\ call.pc = "post" /\ M!TypeOK
      /\ outbox[i] # 0 /\ Kept(i)
      /\ UNCHANGED <<entry, outbox, got, cursor, sealed, cleared>>
      /\ stores \/ stored' = stored
  BY CallTyped DEF PhoneInv, CallKeeps, Kept, M!Post, M!At, M!received
<1>2. troubles' \in 0 .. MaxTroubles
  BY <1>1, PhoneFacts DEF M!Post, M!Trouble, M!TypeOK
<1>3. /\ stored' \in [Shared -> 0 .. MaxSeals]
      /\ \A j \in Shared : stored[j] # 0 => stored'[j] # 0
  BY <1>1 DEF M!TypeOK
<1>4. /\ \A j \in Shared : Kept(j) => Kept(j)'
      /\ \A j \in Shared : entry[j] = "sent" => stored'[j] # 0
  BY <1>1, <1>3 DEF PhoneInv, EntriesInv, Kept
<1>5. CASE M!Goes("mark") /\ promised' = promised /\ stores
  <2>1. /\ call' \in Calls
        /\ call'.pc = "mark" /\ call'.item = i /\ call'.todo = call.todo
    BY <1>1, <1>5 DEF M!Goes, Calls
  <2>2. stored'[i] # 0
    BY <1>1, <1>5 DEF M!TypeOK
  <2>3. M!TypeOK'
    BY <1>1, <1>2, <1>3, <1>5, <2>1 DEF M!TypeOK, Calls
  <2>4. EntriesInv'
    BY <1>1, <1>4, <1>5 DEF PhoneInv, EntriesInv
  <2>5. CallKeeps'
    BY <1>1, <2>1, <2>2 DEF PhoneInv, CallKeeps
  <2>6. PageInv'
    BY <1>1, <2>1 DEF PhoneInv, PageInv, HasUpTo
  <2>. QED BY <2>3, <2>4, <2>5, <2>6 DEF PhoneInv
<1>6. CASE M!PostFailed(i)
  <2>1. call' = M!Idle /\ (promised' = promised \/ promised' = promised \cup {i})
    BY <1>6 DEF M!PostFailed, M!Fails, M!Answers
  <2>2. M!TypeOK'
    BY <1>1, <1>2, <1>3, <2>1, PhoneFacts DEF M!TypeOK, Calls
  <2>3. EntriesInv'
    BY <1>1, <1>4, <2>1 DEF PhoneInv, EntriesInv
  <2>4. CallKeeps' /\ PageInv'
    BY <1>1, <2>1 DEF PhoneInv, CallKeeps, PageInv, HasUpTo, M!Idle
  <2>. QED BY <2>2, <2>3, <2>4 DEF PhoneInv
<1>. QED BY <1>5, <1>6 DEF M!Post

LEMMA RemoveQueuedKeeps == ASSUME PhoneInv, M!RemoveQueued PROVE PhoneInv'
<1>. DEFINE i == call.item
            next == [call EXCEPT !.pc = "flush", !.item = Nothing]
<1>1. /\ call \in Calls /\ i \in Shared /\ i \notin call.todo /\ M!TypeOK /\ stored[i] # 0
      /\ outbox' = [outbox EXCEPT ![i] = 0]
      /\ UNCHANGED <<entry, stored, got, cursor, sealed, cleared, troubles>>
  BY CallTyped DEF PhoneInv, CallKeeps, M!RemoveQueued, M!At, M!received
<1>2. outbox' \in [Shared -> 0 .. MaxSeals] /\ \A j \in Shared : j # i => outbox'[j] = outbox[j]
  BY <1>1, PhoneFacts DEF M!TypeOK
<1>3. \A j \in Shared : Kept(j) \/ j = i => Kept(j)'
  BY <1>1, <1>2 DEF Kept
<1>4. \/ call' = next /\ promised' = promised
      \/ call' = M!Idle /\ promised' = promised \cup {i}
  BY DEF M!RemoveQueued, M!Answers
<1>5. /\ call' \in Calls
      /\ \/ call'.pc = "flush" /\ call'.todo = call.todo
         \/ call'.pc = "idle" /\ call'.todo = {}
  <2>1. /\ next \in Calls /\ next.pc = "flush" /\ next.todo = call.todo
        /\ M!Idle \in Calls /\ M!Idle.pc = "idle" /\ M!Idle.todo = {}
    BY <1>1, PhoneFacts DEF Calls, M!Idle
  <2>. QED BY <1>4, <2>1
<1>6. M!TypeOK'
  BY <1>1, <1>2, <1>4, <1>5 DEF M!TypeOK, Calls
<1>7. EntriesInv'
  BY <1>1, <1>3, <1>4 DEF PhoneInv, EntriesInv
<1>8. CallKeeps'
  BY <1>1, <1>2, <1>5 DEF PhoneInv, CallKeeps
<1>9. PageInv'
  BY <1>1, <1>5 DEF PhoneInv, PageInv, HasUpTo
<1>. QED BY <1>6, <1>7, <1>8, <1>9 DEF PhoneInv

LEMMA RefreshKeeps == ASSUME PhoneInv, M!Refresh PROVE PhoneInv'
<1>1. /\ call' = [M!Idle EXCEPT !.pc = "flush", !.op = "refresh",
                                !.todo = {i \in Shared : outbox[i] # 0}]
      /\ UNCHANGED <<entry, outbox, stored, got, cursor, sealed, promised, cleared, troubles>>
  BY DEF M!Refresh, M!received
<1>2. /\ call' \in Calls
      /\ call'.pc = "flush" /\ call'.todo = {i \in Shared : outbox[i] # 0}
  BY <1>1, PhoneFacts DEF Calls, M!Idle
<1>3. CallKeeps'
  BY <1>1, <1>2 DEF CallKeeps
<1>. QED BY <1>1, <1>2, <1>3, CallGoesOn DEF PhoneInv, M!TypeOK

LEMMA FlushKeeps == ASSUME PhoneInv, M!Flush PROVE PhoneInv'
<1>1. /\ call \in Calls /\ M!TypeOK /\ call.pc = "flush"
      /\ UNCHANGED <<entry, outbox, stored, got, cursor, sealed, promised, cleared, troubles>>
  BY CallTyped DEF PhoneInv, M!Flush, M!At, M!received
<1>2. ASSUME NEW i \in call.todo,
             call' = [call EXCEPT !.pc = "upload", !.item = i, !.todo = call.todo \ {i}]
      PROVE  PhoneInv'
  <2>1. i \in Shared /\ outbox[i] # 0
    BY <1>1 DEF PhoneInv, CallKeeps, Calls
  <2>2. /\ call' \in Calls
        /\ call'.pc = "upload" /\ call'.item = i /\ call'.todo = call.todo \ {i}
    BY <1>1, <1>2, <2>1 DEF Calls
  <2>3. CallKeeps'
    BY <1>1, <2>1, <2>2 DEF PhoneInv, CallKeeps
  <2>. QED BY <1>1, <2>2, <2>3, CallGoesOn DEF M!TypeOK
<1>3. CASE call.todo = {} /\ call' = [call EXCEPT !.pc = "page", !.next = cursor]
  <2>1. /\ call' \in Calls
        /\ call'.pc = "page" /\ call'.todo = {} /\ call'.next = cursor
    BY <1>1, <1>3 DEF Calls, M!TypeOK
  <2>2. CallKeeps'
    BY <2>1 DEF CallKeeps
  <2>3. cursor <= cursor /\ cursor <= M!PageEnd /\ HasUpTo(cursor)
    BY <1>1, PageEndIs, PhoneFacts DEF PhoneInv, PageInv, M!TypeOK
  <2>. QED BY <1>1, <2>1, <2>2, <2>3, CallGoesOn DEF M!TypeOK
<1>. QED BY <1>2, <1>3 DEF M!Flush

LEMMA FetchPageKeeps == ASSUME PhoneInv, M!FetchPage PROVE PhoneInv'
<1>1. /\ call \in Calls /\ M!TypeOK /\ call.pc = "page"
      /\ UNCHANGED <<entry, outbox, stored, got, cursor, sealed, cleared>>
  BY CallTyped DEF PhoneInv, M!FetchPage, M!At, M!received
<1>2. troubles' \in 0 .. MaxTroubles
  BY <1>1, PhoneFacts DEF M!FetchPage, M!Trouble, M!TypeOK
<1>3. CASE M!Goes("receive") /\ promised' = promised
  <2>1. /\ call' \in Calls
        /\ call'.pc = "receive" /\ call'.todo = call.todo /\ call'.next = call.next
    BY <1>1, <1>3 DEF M!Goes, Calls
  <2>2. CallKeeps'
    BY <1>1, <2>1 DEF PhoneInv, CallKeeps
  <2>. QED BY <1>1, <1>2, <1>3, <2>1, <2>2, CallGoesOn DEF PhoneInv, PageInv
<1>4. CASE M!Fails
  BY <1>1, <1>2, <1>4, CallEnds DEF M!Fails
<1>. QED BY <1>3, <1>4 DEF M!FetchPage

\* The next item of the page, be it in the history or carried out, if it is a
\* clear that has left nothing: the page goes on behind it.
LEMMA PageGoesOn ==
  ASSUME PhoneInv, NEW n, n = call.next + 1,
         call.next < M!PageEnd, cursor <= call.next, HasUpTo(call.next),
         call' = [call EXCEPT !.pc = "receive", !.next = n],
         got' \in SUBSET FromOthers, got \subseteq got',
         Arrivals[n] # ClearItem => Arrivals[n] \in got',
         UNCHANGED <<entry, outbox, stored, cursor, sealed, promised, cleared, troubles>>
  PROVE  PhoneInv'
<1>. DEFINE new == [call EXCEPT !.pc = "receive", !.next = n]
<1>1. call \in Calls /\ M!TypeOK
  BY CallTyped DEF PhoneInv
<1>2. n \in 1 .. Len(Arrivals) /\ n <= M!PageEnd /\ cursor <= n
  <2>1. M!PageEnd \in 0 .. Len(Arrivals) /\ Len(Arrivals) \in Nat
    BY <1>1, PageEndIs, PhoneFacts
  <2>2. call.next \in 0 .. Len(Arrivals) /\ cursor \in 0 .. Len(Arrivals)
    BY <1>1 DEF Calls, M!TypeOK
  <2>. HIDE DEF new
  <2>. QED BY <1>1, <2>1, <2>2
<1>3. new \in Calls /\ new.pc = "receive" /\ new.todo = call.todo /\ new.next = n
  <2>1. n \in 0 .. Len(Arrivals)
    BY <1>2, PhoneFacts
  <2>. QED BY <1>1, <2>1 DEF Calls
<1>4. call' = new
  OBVIOUS
<1>. HIDE DEF new
<1>5. M!TypeOK'
  BY <1>1, <1>3, <1>4 DEF M!TypeOK, Calls
<1>6. EntriesInv'
  BY <1>1 DEF PhoneInv, EntriesInv, Kept
<1>7. CallKeeps'
  BY <1>1, <1>3, <1>4 DEF PhoneInv, CallKeeps
<1>8. \A k \in 1 .. n : k \in 1 .. call.next \/ k = n
  BY <1>1 DEF Calls
<1>9. \A k \in 1 .. n : Arrivals[k] # ClearItem => Arrivals[k] \in (got \cup cleared)'
  BY <1>1, <1>8 DEF HasUpTo
<1>10. \A k \in 1 .. cursor : k \in 1 .. n
  BY <1>1, <1>2 DEF M!TypeOK
<1>11. PageInv'
  <2>1. M!PageEnd' = M!PageEnd
    BY <1>1 DEF M!PageEnd
  <2>2. call'.next = n /\ call'.pc = "receive"
    BY <1>3, <1>4
  <2>. QED BY <1>1, <1>2, <1>9, <1>10, <2>1, <2>2 DEF PageInv, HasUpTo
<1>. QED BY <1>5, <1>6, <1>7, <1>11 DEF PhoneInv

\* The others' items up to next + 1 are in the history, or were until a clear.
LEMMA ReceiveItemKeeps == ASSUME PhoneInv, M!ReceiveItem PROVE PhoneInv'
<1>. DEFINE n == call.next + 1
<1>1. /\ call \in Calls /\ M!TypeOK /\ call.pc = "receive"
      /\ call.next < M!PageEnd /\ cursor <= call.next /\ HasUpTo(call.next)
      /\ UNCHANGED <<entry, outbox, stored, cursor, sealed, promised, cleared, troubles>>
  BY CallTyped DEF PhoneInv, PageInv, M!ReceiveItem, M!At
<1>2. CASE Arrivals[n] = ClearItem /\ M!Goes("clear") /\ got' = got
  <2>1. /\ call' \in Calls /\ call'.pc = "clear"
        /\ call'.todo = call.todo /\ call'.next = call.next
    BY <1>1, <1>2 DEF M!Goes, Calls
  <2>2. M!TypeOK'
    BY <1>1, <1>2, <2>1 DEF M!TypeOK, Calls
  <2>3. EntriesInv'
    BY <1>1 DEF PhoneInv, EntriesInv, Kept
  <2>4. CallKeeps'
    BY <1>1, <2>1 DEF PhoneInv, CallKeeps
  <2>5. PageInv'
    BY <1>1, <1>2, <2>1 DEF PhoneInv, PageInv, HasUpTo, M!PageEnd
  <2>. QED BY <2>2, <2>3, <2>4, <2>5 DEF PhoneInv
<1>3. CASE /\ Arrivals[n] # ClearItem
           /\ got' = got \cup {Arrivals[n]}
           /\ call' = [call EXCEPT !.next = n]
  <2>1. n \in 1 .. Len(Arrivals)
    BY <1>1, PageEndIs, PhoneFacts DEF Calls
  <2>2. got' \in SUBSET FromOthers
    BY <1>1, <1>3, <2>1, PhoneFacts DEF M!TypeOK
  <2>3. call' = [call EXCEPT !.pc = "receive", !.next = n]
    BY <1>1, <1>3 DEF Calls
  <2>. QED BY <1>1, <1>3, <2>2, <2>3, PageGoesOn
<1>. QED BY <1>2, <1>3 DEF M!ReceiveItem, M!Upcoming

LEMMA SaveCursorKeeps == ASSUME PhoneInv, M!SaveCursor PROVE PhoneInv'
<1>1. /\ M!TypeOK /\ HasUpTo(M!PageEnd) /\ cursor' = M!PageEnd /\ call' = M!Idle
      /\ UNCHANGED <<entry, outbox, stored, got, sealed, promised, cleared, troubles>>
  BY DEF PhoneInv, PageInv, M!SaveCursor, M!At
<1>2. M!TypeOK'
  BY <1>1, PageEndIs, PhoneFacts DEF M!TypeOK, Calls
<1>3. EntriesInv'
  BY <1>1 DEF PhoneInv, EntriesInv, Kept
<1>4. CallKeeps' /\ PageInv'
  BY <1>1 DEF PhoneInv, CallKeeps, PageInv, HasUpTo, M!Idle
<1>. QED BY <1>2, <1>3, <1>4 DEF PhoneInv

LEMMA ClearLocalKeeps == ASSUME PhoneInv, M!ClearLocal PROVE PhoneInv'
<1>1. /\ call' = [M!Idle EXCEPT !.pc = "empty", !.op = "clear_local"]
      /\ UNCHANGED <<entry, outbox, stored, got, cursor, sealed, promised, cleared, troubles>>
  BY DEF M!ClearLocal, M!received
<1>2. /\ call' \in Calls
      /\ call'.pc = "empty" /\ call'.op = "clear_local" /\ call'.todo = {}
  BY <1>1, PhoneFacts DEF Calls, M!Idle
<1>3. CallKeeps'
  BY <1>2 DEF CallKeeps
<1>. QED BY <1>1, <1>2, <1>3, CallGoesOn DEF PhoneInv, M!TypeOK

\* A file that a clear takes from the outbox is of a cleared item.
LEMMA ClearOutboxKeeps == ASSUME PhoneInv, M!ClearOutbox PROVE PhoneInv'
<1>1. /\ M!TypeOK /\ call \in Calls /\ call.pc = "empty"
      /\ call.op = "clear_local" /\ call.todo = {}
      /\ UNCHANGED <<entry, stored, got, cursor, sealed, promised, troubles>>
  BY CallTyped DEF PhoneInv, CallKeeps, M!ClearOutbox, M!At, M!received
<1>2. ASSUME NEW i \in Shared, outbox' = [outbox EXCEPT ![i] = 0],
             cleared' = cleared \cup {i}, call' = call
      PROVE  PhoneInv'
  <2>1. outbox' \in [Shared -> 0 .. MaxSeals] /\ \A j \in Shared : j # i => outbox'[j] = outbox[j]
    BY <1>1, <1>2, PhoneFacts DEF M!TypeOK
  <2>2. M!TypeOK'
    BY <1>1, <1>2, <2>1 DEF M!TypeOK
  <2>3. EntriesInv'
    BY <1>1, <1>2, <2>1 DEF PhoneInv, EntriesInv, Kept
  <2>4. CallKeeps' /\ PageInv'
    BY <1>1, <1>2 DEF PhoneInv, CallKeeps, PageInv, HasUpTo
  <2>. QED BY <2>2, <2>3, <2>4 DEF PhoneInv
<1>3. CASE M!Goes("clear") /\ UNCHANGED <<outbox, cleared>>
  <2>1. /\ call' \in Calls /\ call'.pc = "clear"
        /\ call'.op = "clear_local" /\ call'.todo = {}
    BY <1>1, <1>3 DEF M!Goes, Calls
  <2>2. M!TypeOK'
    BY <1>1, <1>3, <2>1 DEF M!TypeOK, Calls
  <2>3. EntriesInv'
    BY <1>1, <1>3 DEF PhoneInv, EntriesInv, Kept
  <2>4. CallKeeps' /\ PageInv'
    BY <1>1, <1>3, <2>1 DEF PhoneInv, CallKeeps, PageInv, HasUpTo
  <2>. QED BY <2>2, <2>3, <2>4 DEF PhoneInv
<1>. QED BY <1>2, <1>3 DEF M!ClearOutbox

\* A received item that goes is cleared; an entry that goes says nothing.
LEMMA ClearHistoryKeeps == ASSUME PhoneInv, M!ClearHistory PROVE PhoneInv'
<1>1. /\ M!TypeOK /\ call \in Calls /\ call.pc = "clear"
      /\ UNCHANGED <<outbox, stored, cursor, sealed, promised, troubles>>
  BY CallTyped DEF PhoneInv, M!ClearHistory, M!At
<1>2. ASSUME NEW i \in Shared, entry' = [entry EXCEPT ![i] = "none"],
             UNCHANGED <<got, cleared, call>>
      PROVE  PhoneInv'
  <2>1. /\ entry' \in [Shared -> {"none", "queued", "sent"}]
        /\ \A j \in Shared : entry'[j] \in {entry[j], "none"}
    BY <1>1, <1>2 DEF M!TypeOK
  <2>2. M!TypeOK'
    BY <1>1, <1>2, <2>1 DEF M!TypeOK
  <2>3. EntriesInv'
    BY <1>1, <1>2, <2>1 DEF PhoneInv, EntriesInv, Kept
  <2>4. CallKeeps' /\ PageInv'
    BY <1>1, <1>2 DEF PhoneInv, CallKeeps, PageInv, HasUpTo, M!PageEnd
  <2>. QED BY <2>2, <2>3, <2>4 DEF PhoneInv
<1>3. ASSUME NEW x \in got, got' = got \ {x}, cleared' = cleared \cup {x},
             UNCHANGED <<entry, call>>
      PROVE  PhoneInv'
  <2>1. M!TypeOK'
    BY <1>1, <1>3 DEF M!TypeOK
  <2>2. EntriesInv'
    BY <1>1, <1>3 DEF PhoneInv, EntriesInv, Kept
  <2>3. CallKeeps' /\ PageInv'
    BY <1>1, <1>3 DEF PhoneInv, CallKeeps, PageInv, HasUpTo, M!PageEnd
  <2>. QED BY <2>1, <2>2, <2>3 DEF PhoneInv
<1>4. CASE /\ call.op = "refresh"
           /\ call' = [call EXCEPT !.pc = "receive", !.next = call.next + 1]
           /\ UNCHANGED <<entry, got, cleared>>
  BY <1>1, <1>4, PageGoesOn DEF PhoneInv, PageInv, M!TypeOK
<1>5. CASE call' = M!Idle /\ UNCHANGED <<entry, got, cleared>>
  BY <1>1, <1>5, CallEnds DEF M!TypeOK
<1>. QED BY <1>2, <1>3, <1>4, <1>5 DEF M!ClearHistory

LEMMA PhoneKillKeeps == ASSUME PhoneInv, M!Kill PROVE PhoneInv'
<1>1. /\ call' = M!Idle /\ promised' = promised
      /\ UNCHANGED <<entry, outbox, stored, got, cursor, sealed, cleared>>
  BY DEF M!Kill, M!Fails, M!received
<1>2. troubles' \in 0 .. MaxTroubles
  BY PhoneFacts DEF PhoneInv, M!TypeOK, M!Kill, M!Trouble
<1>. QED BY <1>1, <1>2, CallEnds

LEMMA PhoneInit == ASSUME M!Init PROVE PhoneInv
<1>1. 0 \in 0 .. MaxSeals /\ 0 \in 0 .. MaxTroubles /\ 0 \in 0 .. Len(Arrivals)
  BY PhoneFacts
<1>2. M!TypeOK
  BY <1>1, PhoneFacts DEF M!Init, M!TypeOK, Calls
<1>3. EntriesInv /\ CallKeeps
  BY DEF M!Init, M!Idle, EntriesInv, CallKeeps
<1>4. PageInv
  BY DEF M!Init, M!Idle, PageInv, HasUpTo
<1>. QED BY <1>2, <1>3, <1>4 DEF PhoneInv

LEMMA PhoneStep == PhoneInv /\ [M!Next]_(M!vars) => PhoneInv'
<1>. SUFFICES ASSUME PhoneInv, [M!Next]_(M!vars) PROVE PhoneInv'
  OBVIOUS
<1>1. CASE \E i \in Shared, op \in {"share", "save"} : sealed[i] < MaxSeals /\ M!Put(op, i)
  BY <1>1, PutKeeps
<1>2. CASE M!Continue
  BY <1>2, ShareKeeps, SaveItemKeeps, EntriesKeep, PostKeeps, RemoveQueuedKeeps, FlushKeeps,
     FetchPageKeeps, ReceiveItemKeeps, SaveCursorKeeps, ClearOutboxKeeps, ClearHistoryKeeps
     DEF M!Continue
<1>3. CASE M!Refresh \/ M!ClearLocal \/ M!Kill
  BY <1>3, RefreshKeeps, ClearLocalKeeps, PhoneKillKeeps
<1>4. CASE UNCHANGED M!vars
  BY <1>4 DEF M!vars, PhoneInv, M!TypeOK, EntriesInv, Kept, CallKeeps, PageInv, HasUpTo, M!PageEnd
<1>. QED BY <1>1, <1>2, <1>3, <1>4 DEF M!Next

\* What was answered for is somewhere, and the cursor has passed nothing unread.
LEMMA PhoneInvImplies == PhoneInv => NothingIsLost
<1>. SUFFICES ASSUME PhoneInv PROVE M!NothingIsLost
  BY DEF NothingIsLost
<1>1. \A i \in promised : Kept(i)
  BY DEF PhoneInv, EntriesInv, M!TypeOK
<1>. QED BY <1>1 DEF PhoneInv, PageInv, HasUpTo, Kept, M!NothingIsLost

\* The phone keeps its word, wherever its calls are killed: what it said is sent
\* or queued is on the server or in the outbox, and its cursor has passed
\* nothing that is not in the history (lib.rs:33, 78, 268, 360).
THEOREM PhoneKeepsItsWord == M!Spec => []NothingIsLost
  BY PhoneInit, PhoneStep, PhoneInvImplies, PTL DEF M!Spec

----------------------------------------------------------------------------
(* The outbox (Outbox): every step of the phone is one of its steps, or none. *)

Places == [i \in Shared |-> Place(i)]

LEMMA PlacesSeen ==
  ASSUME \A i \in Shared : Place(i)' = Place(i)
  PROVE  Places' = Places
  BY DEF Places

\* An item answered for is one to be told of, if it is somewhere.
LEMMA Telling ==
  ASSUME NEW i \in Shared, Kept(i), cleared \cap Shared = cleared' \cap Shared,
         \A j \in Shared : Place(j)' = Place(j),
         promised' \in {promised, promised \cup {i}}
  PROVE  Box!Tell(i) \/ UNCHANGED Box!vars
<1>1. Place(i) # "nowhere" \/ i \in cleared \cap Shared
  BY DEF Kept, Place
<1>. QED BY <1>1, PlacesSeen DEF Box!Tell, Box!vars, Places

LEMMA Unnoticed ==
  ASSUME UNCHANGED <<outbox, stored, promised>>, cleared' \cap Shared = cleared \cap Shared
  PROVE  UNCHANGED Box!vars
<1>1. \A i \in Shared : Place(i)' = Place(i)
  BY DEF Place
<1>. QED BY <1>1, PlacesSeen DEF Box!vars, Places

LEMMA SealHolds ==
  ASSUME PhoneInv, NEW i \in Shared, M!Seal(i), outbox[i] = 0, stored' = stored
  PROVE  Box!Hold(i)
<1>1. /\ outbox' = [outbox EXCEPT ![i] = sealed[i] + 1]
      /\ sealed[i] \in Nat /\ outbox \in [Shared -> 0 .. MaxSeals]
      /\ cleared' = cleared \ {i} /\ promised' = promised
  BY PhoneFacts DEF PhoneInv, M!TypeOK, M!Seal
<1>2. outbox'[i] # 0 /\ \A j \in Shared : j # i => outbox'[j] = outbox[j]
  BY <1>1
<1>3. /\ Place(i) # "waiting"
      /\ Place(i)' = IF Place(i) = "sent" THEN "sent" ELSE "waiting"
      /\ \A j \in Shared : j # i => Place(j)' = Place(j)
  BY <1>2 DEF Place
<1>4. Places' = [Places EXCEPT ![i] = IF Places[i] = "sent" THEN "sent" ELSE "waiting"]
  BY <1>3 DEF Places
<1>5. (cleared \cap Shared)' = (cleared \cap Shared) \ {i}
  BY <1>1
<1>. QED BY <1>1, <1>3, <1>4, <1>5 DEF Box!Hold, Places

LEMMA PutsAreTold ==
  ASSUME PhoneInv, M!Share \/ M!SaveItem
  PROVE  (\E i \in Shared : Box!Hold(i) \/ Box!Tell(i)) \/ UNCHANGED Box!vars
<1>. DEFINE i == call.item
<1>1. i \in Shared /\ stored' = stored
  BY DEF PhoneInv, CallKeeps, M!Share, M!SaveItem, M!At
<1>2. CASE M!Seal(i) /\ outbox[i] = 0
  BY <1>1, <1>2, SealHolds
<1>3. CASE promised' = promised /\ UNCHANGED <<outbox, cleared>>
  BY <1>1, <1>3, Unnoticed
<1>4. CASE M!Answers(i) /\ entry[i] # "none" /\ UNCHANGED <<outbox, cleared>>
  <2>1. Kept(i)
    BY <1>1, <1>4 DEF PhoneInv, EntriesInv, Kept, M!TypeOK
  <2>2. promised' = promised \cup {i}
    BY <1>4 DEF M!Answers
  <2>3. \A j \in Shared : Place(j)' = Place(j)
    BY <1>1, <1>4 DEF Place
  <2>. QED BY <1>1, <1>4, <2>1, <2>2, <2>3, Telling
<1>5. \/ M!Seal(i) /\ outbox[i] = 0
      \/ promised' = promised /\ UNCHANGED <<outbox, cleared>>
      \/ M!Answers(i) /\ entry[i] # "none" /\ UNCHANGED <<outbox, cleared>>
  BY DEF M!Share, M!SaveItem, M!Fails
<1>. QED BY <1>2, <1>3, <1>4, <1>5

LEMMA PostSends ==
  ASSUME PhoneInv, M!Post
  PROVE  (\E i \in Shared : Box!Send(i) \/ Box!Tell(i)) \/ UNCHANGED Box!vars
<1>. DEFINE i == call.item
<1>1. /\ i \in Shared /\ outbox[i] # 0 /\ stored \in [Shared -> 0 .. MaxSeals]
      /\ outbox' = outbox /\ cleared' = cleared
      /\ promised' \in {promised, promised \cup {i}}
      /\ \/ stored' = stored
         \/ M!Accepts(i) /\ stored' = [stored EXCEPT ![i] = outbox[i]]
  BY DEF PhoneInv, M!TypeOK, CallKeeps, M!Post, M!At, M!PostFailed, M!Fails, M!Answers
<1>2. CASE stored' = stored \/ stored[i] # 0
  <2>1. stored' = stored
    BY <1>1, <1>2 DEF M!Accepts
  <2>2. \A j \in Shared : Place(j)' = Place(j)
    BY <1>1, <2>1 DEF Place
  <2>3. Kept(i)
    BY <1>1 DEF Kept
  <2>. QED BY <1>1, <2>2, <2>3, Telling
<1>3. CASE stored' # stored /\ stored[i] = 0
  <2>1. stored'[i] # 0 /\ \A j \in Shared : j # i => stored'[j] = stored[j]
    BY <1>1, <1>3
  <2>2. /\ Place(i) = "waiting"
        /\ \A j \in Shared : Place(j)' = IF j = i THEN "sent" ELSE Place(j)
    BY <1>1, <1>3, <2>1 DEF Place
  <2>3. Places' = [Places EXCEPT ![i] = "sent"]
    BY <2>2 DEF Places
  <2>. QED BY <1>1, <2>2, <2>3 DEF Box!Send, Places
<1>. QED BY <1>2, <1>3

LEMMA SentIsRemoved ==
  ASSUME PhoneInv, M!RemoveQueued
  PROVE  (\E i \in Shared : Box!Tell(i)) \/ UNCHANGED Box!vars
<1>. DEFINE i == call.item
<1>1. /\ i \in Shared /\ stored[i] # 0 /\ Kept(i)
      /\ outbox' = [outbox EXCEPT ![i] = 0] /\ outbox \in [Shared -> 0 .. MaxSeals]
      /\ stored' = stored /\ cleared' = cleared
      /\ promised' \in {promised, promised \cup {i}}
  BY DEF PhoneInv, M!TypeOK, CallKeeps, Kept, M!RemoveQueued, M!At, M!Answers
<1>2. \A j \in Shared : Place(j)' = Place(j)
  BY <1>1 DEF Place
<1>. QED BY <1>1, <1>2, Telling

LEMMA ClearWipes ==
  ASSUME PhoneInv, M!ClearOutbox
  PROVE  (\E i \in Shared : Box!Wipe(i)) \/ UNCHANGED Box!vars
<1>1. UNCHANGED <<stored, promised>> /\ outbox \in [Shared -> 0 .. MaxSeals]
  BY DEF PhoneInv, M!TypeOK, M!ClearOutbox
<1>2. CASE UNCHANGED <<outbox, cleared>>
  BY <1>1, <1>2, Unnoticed
<1>3. ASSUME NEW i \in Shared, outbox[i] # 0, outbox' = [outbox EXCEPT ![i] = 0],
             cleared' = cleared \cup {i}
      PROVE  Box!Wipe(i)
  <2>1. outbox'[i] = 0 /\ \A j \in Shared : j # i => outbox'[j] = outbox[j]
    BY <1>1, <1>3
  <2>2. /\ Place(i) # "nowhere"
        /\ Place(i)' = IF Place(i) = "waiting" THEN "nowhere" ELSE Place(i)
        /\ \A j \in Shared : j # i => Place(j)' = Place(j)
    BY <1>1, <1>3, <2>1 DEF Place
  <2>3. Places' = [Places EXCEPT ![i] = IF Places[i] = "waiting" THEN "nowhere" ELSE Places[i]]
    BY <2>2 DEF Places
  <2>4. (cleared \cap Shared)' = (cleared \cap Shared) \cup {i}
    BY <1>3
  <2>. QED BY <1>1, <2>2, <2>3, <2>4 DEF Box!Wipe, Places
<1>. QED BY <1>2, <1>3 DEF M!ClearOutbox

LEMMA StepsOfTheOutbox == ASSUME PhoneInv, [M!Next]_(M!vars) PROVE [Box!Next]_(Box!vars)
<1>1. CASE \/ \E i \in Shared, op \in {"share", "save"} : M!Put(op, i)
           \/ M!Refresh \/ M!Note \/ M!Upload \/ M!MarkSent \/ M!Flush \/ M!FetchPage
           \/ M!ReceiveItem \/ M!SaveCursor \/ M!ClearLocal \/ M!Kill \/ UNCHANGED M!vars
  <2>1. UNCHANGED <<outbox, stored, promised, cleared>>
    BY <1>1 DEF M!Put, M!Refresh, M!Note, M!Upload, M!MarkSent, M!Flush, M!FetchPage,
                M!ReceiveItem, M!SaveCursor, M!ClearLocal, M!Kill, M!Fails, M!vars
  <2>. QED BY <2>1, Unnoticed
<1>2. CASE M!ClearHistory
  <2>1. /\ UNCHANGED <<outbox, stored, promised>>
        /\ cleared' = cleared \/ \E x \in got : cleared' = cleared \cup {x}
    BY <1>2 DEF M!ClearHistory
  <2>2. got \cap Shared = {}
    BY PhoneFacts DEF PhoneInv, M!TypeOK
  <2>3. cleared' \cap Shared = cleared \cap Shared
    BY <2>1, <2>2
  <2>. QED BY <2>1, <2>3, Unnoticed
<1>3. CASE M!Share \/ M!SaveItem
  BY <1>3, PutsAreTold DEF Box!Next
<1>4. CASE M!Post
  BY <1>4, PostSends DEF Box!Next
<1>5. CASE M!RemoveQueued
  BY <1>5, SentIsRemoved DEF Box!Next
<1>6. CASE M!ClearOutbox
  BY <1>6, ClearWipes DEF Box!Next
<1>. QED BY <1>1, <1>2, <1>3, <1>4, <1>5, <1>6 DEF M!Next, M!Continue

LEMMA OutboxInit == ASSUME M!Init PROVE Box!Init
<1>1. \A i \in Shared : Place(i) = "nowhere"
  BY DEF M!Init, Place
<1>. QED BY <1>1 DEF M!Init, Box!Init

\* Wherever calls are killed, and whatever the server refuses, the phone's calls
\* are steps of an outbox: what waits leaves it for the server or by a clear.
THEOREM PhoneRefinesOutbox == M!Spec => ImplementsOutbox
  BY PhoneInit, PhoneStep, OutboxInit, StepsOfTheOutbox, PTL
     DEF M!Spec, ImplementsOutbox, Box!Spec

----------------------------------------------------------------------------
\* The disk, whose parts share no state, keeps what each part keeps.
THEOREM DiskKeepsAll ==
  DeviceSpec => /\ [](KeysAreKept /\ SavesAreAtomic /\ ReportedIsKept /\ NothingIsLost)
                /\ ImplementsOutbox
<1>. DEFINE Inv == KeysInv /\ DesktopInv /\ PhoneInv
<1>1. DeviceInit => Inv /\ Box!Init
  BY KeysInit, DesktopInit, PhoneInit, OutboxInit DEF DeviceInit
<1>2. Inv /\ [DeviceNext]_<<part, keys, desktop, phone>> => Inv' /\ [Box!Next]_(Box!vars)
  <2>. SUFFICES ASSUME Inv, [DeviceNext]_<<part, keys, desktop, phone>>
                PROVE  Inv' /\ [Box!Next]_(Box!vars)
    OBVIOUS
  <2>1. /\ [K!Next]_(K!vars)
        /\ [H!Next]_(H!vars)
        /\ [M!Next]_(M!vars)
    BY DEF DeviceNext, OfKeys, OfDesktop, OfPhone, keys, desktop, phone, K!vars, H!vars, M!vars
  <2>. QED BY <2>1, KeysStep, DesktopStep, PhoneStep, StepsOfTheOutbox
<1>3. Inv => KeysAreKept /\ SavesAreAtomic /\ ReportedIsKept /\ NothingIsLost
  BY KeysInvImplies, DesktopInvImplies, PhoneInvImplies
<1>. HIDE DEF Inv
<1>. QED BY <1>1, <1>2, <1>3, PTL DEF DeviceSpec, ImplementsOutbox, Box!Spec
=============================================================================
