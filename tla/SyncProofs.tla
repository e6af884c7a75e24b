----------------------------- MODULE SyncProofs ------------------------------
(***************************************************************************)
(* Theorems about Sync for any devices, items, limits and numbers of       *)
(* faults and restarts.                                                    *)
(***************************************************************************)
EXTENDS Sync, ItemStoreProofs

\* Handling a page and flushing the outbox always find a next item.
LEMMA FirstIsOnPage ==
  ASSUME NEW d \in Devices, page[d] \subseteq Item,
         page[d] # {}
  PROVE  First(d) \in page[d]
<1>. DEFINE P == page[d]
            T == {i.seq : i \in P}
<1>1. T \in SUBSET Nat /\ T # {}
  BY DEF Item
<1>2. PICK x \in T : \A y \in T : x <= y
  BY <1>1, LeastNatural
<1>3. \E i \in P : \A j \in P : i.seq <= j.seq
  BY <1>2
<1>. QED BY <1>3 DEF First

LEMMA EarliestIsMember ==
  ASSUME made \in [Ids -> Nat], NEW W \in SUBSET Ids, W # {}
  PROVE  Earliest(W) \in W
<1>. DEFINE T == {made[i] : i \in W}
<1>1. T \in SUBSET Nat /\ T # {}
  OBVIOUS
<1>2. PICK x \in T : \A y \in T : x <= y
  BY <1>1, LeastNatural
<1>3. \E i \in W : \A j \in W : made[i] <= made[j]
  BY <1>2
<1>. QED BY <1>3 DEF Earliest

LEMMA StampKeepsType ==
  ASSUME made \in [Ids -> Nat], NEW id \in Ids, Stamp(id)
  PROVE  made' \in [Ids -> Nat]
<1>1. IsFiniteSet({i \in Ids : made[i] # 0})
  BY SyncAssumption, FS_Subset DEF SyncAssumption
<1>2. Cardinality({i \in Ids : made[i] # 0}) \in Nat
  BY <1>1, FS_CardinalityType
<1>. QED BY <1>2 DEF Stamp
-----------------------------------------------------------------------------
(* Steps that leave the store and every receiver alone *)

coreVars ==
  <<items, lastSeq, saved, cursor, seen, pageVars, applied, receipted>>

LEMMA CoreUnchanged ==
  ASSUME RowsInv, \A d \in Devices : DeviceInv(d), UNCHANGED coreVars
  PROVE  RowsInv' /\ \A d \in Devices : DeviceInv(d)'
  BY DEF coreVars, pageVars, RowsInv, DeviceInv, PageInv, Foreign, Done, First

\* A device none of whose receiving state changes, while the store is still.
LEMMA DeviceUnchanged ==
  ASSUME NEW d \in Devices, DeviceInv(d), UNCHANGED <<items, lastSeq>>,
         saved'[d] = saved[d], cursor'[d] = cursor[d], seen'[d] = seen[d],
         step'[d] = step[d], page'[d] = page[d], next'[d] = next[d],
         applied'[d] = applied[d],
         receipted'[d] = receipted[d]
  PROVE  DeviceInv(d)'
  BY DEF DeviceInv, PageInv, Foreign, Done, First

LEMMA InitSyncInv == Init => SyncInv
<1>. SUFFICES ASSUME Init PROVE SyncInv
  OBVIOUS
<1>. USE DEF Init, StoreInit, Idle
<1>1. TypeOK
  BY SyncAssumption DEF TypeOK, ServerType, UploadType, SenderType,
       ReceiverType, ProcessType, Workers, SyncAssumption
<1>2. RowsInv
  BY FS_EmptySet DEF RowsInv
<1>3. OwnWork
  BY DEF OwnWork
<1>4. \A d \in Devices : DeviceInv(d)
  BY DEF DeviceInv, PageInv, Foreign, Done
<1>. QED BY <1>1, <1>2, <1>3, <1>4 DEF SyncInv

LEMMA UploadTypeKeeps ==
  ASSUME UploadType, NEW w \in Workers, NEW id \in Ids \cup {NoId},
         NEW try \in 0..Attempts, NEW answered \in BOOLEAN,
         upload' = [upload EXCEPT ![w] = [id |-> id, try |-> try,
                                          answered |-> answered]]
  PROVE  UploadType'
  BY DEF UploadType

LEMMA GivesUpKeepsInv ==
  ASSUME SyncInv, NEW w \in Workers, GivesUp(w)
  PROVE  SyncInv'
<1>. USE DEF SyncInv, TypeOK
<1>. DEFINE d == w[1]
            id == upload[w].id
            try == upload[w].try
<1>1. /\ d \in Devices /\ id \in Ids /\ try \in 0..Attempts /\ Author[id] = d
      /\ 0 \in 0..Attempts /\ Attempts \in Nat
  BY SyncAssumption
     DEF UploadType, Workers, OwnWork, GivesUp, Waiting, SyncAssumption
<1>2. \/ /\ try < Attempts
         /\ upload' = [upload EXCEPT ![w] = [id |-> id, try |-> try + 1,
                                             answered |-> FALSE]]
         /\ wire' = wire \cup {[from |-> w, id |-> id, try |-> try + 1]}
         /\ UNCHANGED <<work, cli>>
      \/ /\ upload' = [upload EXCEPT ![w] = [id |-> NoId, try |-> 0,
                                             answered |-> FALSE]]
         /\ wire' = wire
         /\ work' = work \/ work' = [work EXCEPT ![d] = {}]
         /\ cli' = cli \/ cli' = [cli EXCEPT ![d] = "failed"]
  BY DEF UploadType, SenderType, ProcessType, Request, Idle, GivesUp, UploadFails
<1>3. /\ UNCHANGED <<storeVars, firstSeq, storedAt, outbox, fresh, phase, made, queued,
                     cancelled, receiverVars, seen, restarts>>
      /\ faults' = faults \/ faults' = faults + 1
  BY DEF GivesUp, OneFault
<1>. HIDE DEF d, id, try
<1>4. UploadType' /\ ServerType'
  <2>1. UNCHANGED <<items, lastSeq, now, firstSeq, storedAt>>
    BY <1>3 DEF storeVars
  <2>2. try < Attempts => try + 1 \in 0..Attempts /\ try + 1 \in 1..Attempts
    BY <1>1
  <2>3. UploadType'
    BY <1>1, <1>2, <2>2, UploadTypeKeeps
  <2>4. wire' \subseteq [from: Workers, id: Ids, try: 1..Attempts]
    BY <1>1, <1>2, <2>2 DEF ServerType
  <2>. QED BY <2>1, <2>3, <2>4 DEF ServerType
<1>5. SenderType' /\ ProcessType'
  BY <1>1, <1>2, <1>3 DEF SenderType, ProcessType
<1>6. ReceiverType' /\ UNCHANGED coreVars
  BY <1>3 DEF ReceiverType, receiverVars, historyVars, pageVars, coreVars, storeVars
<1>7. OwnWork'
  <2>1. /\ \A e \in Devices : work'[e] \subseteq work[e]
        /\ UNCHANGED <<fresh, outbox, items>>
    BY <1>1, <1>2, <1>3 DEF SenderType, storeVars
  <2>2. \A v \in Workers : upload'[v].id # NoId => Author[upload'[v].id] = v[1]
    BY <1>1, <1>2 DEF UploadType, OwnWork, d
  <2>3. \A r \in wire' : Author[r.id] = r.from[1]
    BY <1>1, <1>2 DEF OwnWork, d
  <2>. QED BY <2>1, <2>2, <2>3 DEF OwnWork
<1>. QED BY <1>4, <1>5, <1>6, <1>7, CoreUnchanged

LEMMA RemoveSentKeepsInv ==
  ASSUME SyncInv, NEW w \in Workers, RemoveSent(w)
  PROVE  SyncInv'
<1>. USE DEF SyncInv, TypeOK
<1>. DEFINE d == w[1]
<1>1. /\ d \in Devices
      /\ outbox' = [outbox EXCEPT ![d] = @ \ {upload[w].id}]
      /\ upload' = [upload EXCEPT ![w] = [id |-> NoId, try |-> 0,
                                          answered |-> FALSE]]
      /\ cli' = cli \/ cli' = [cli EXCEPT ![d] = "done"]
      /\ UNCHANGED <<serverVars, fresh, phase, work, made, queued, cancelled,
                     receiverVars, seen, budget>>
  BY DEF RemoveSent, Answered, Workers, Idle, ProcessType
<1>. HIDE DEF d
<1>2. UploadType' /\ ServerType'
  BY <1>1, SyncAssumption
     DEF UploadType, ServerType, serverVars, SyncAssumption
<1>3. SenderType' /\ ProcessType'
  BY <1>1 DEF SenderType, ProcessType, budget
<1>4. ReceiverType' /\ UNCHANGED coreVars
  BY <1>1 DEF ReceiverType, receiverVars, historyVars, pageVars, coreVars, serverVars
<1>5. OwnWork'
  <2>1. /\ \A e \in Devices : outbox'[e] \subseteq outbox[e]
        /\ UNCHANGED <<fresh, work, items, wire>>
    BY <1>1 DEF SenderType, serverVars
  <2>2. \A v \in Workers : upload'[v].id # NoId => Author[upload'[v].id] = v[1]
    BY <1>1 DEF UploadType, OwnWork
  <2>. QED BY <2>1, <2>2 DEF OwnWork
<1>. QED BY <1>2, <1>3, <1>4, <1>5, CoreUnchanged

\* An answered upload that fails afterwards leaves the file.
LEMMA RemoveFailsKeepsInv ==
  ASSUME SyncInv, NEW w \in Workers, RemoveFails(w)
  PROVE  SyncInv'
<1>. USE DEF SyncInv, TypeOK
<1>. DEFINE d == w[1]
<1>1. /\ d \in Devices
      /\ upload' = [upload EXCEPT ![w] = [id |-> NoId, try |-> 0,
                                          answered |-> FALSE]]
      /\ work' = work \/ work' = [work EXCEPT ![d] = {}]
      /\ cli' = cli \/ cli' = [cli EXCEPT ![d] = "failed"]
      /\ faults' = faults + 1
      /\ UNCHANGED <<serverVars, outbox, fresh, phase, made, queued, cancelled,
                     receiverVars, seen, restarts>>
  BY DEF RemoveFails, UploadFails, OneFault, Workers, Idle, SenderType, ProcessType
<1>. HIDE DEF d
<1>2. UploadType' /\ ServerType'
  BY <1>1, SyncAssumption
     DEF UploadType, ServerType, serverVars, SyncAssumption
<1>3. SenderType' /\ ProcessType'
  BY <1>1 DEF SenderType, ProcessType
<1>4. ReceiverType' /\ UNCHANGED coreVars
  BY <1>1 DEF ReceiverType, receiverVars, historyVars, pageVars, coreVars, serverVars
<1>5. OwnWork'
  <2>1. /\ \A e \in Devices : work'[e] \subseteq work[e]
        /\ UNCHANGED <<fresh, outbox, items, wire>>
    BY <1>1 DEF SenderType, serverVars
  <2>2. \A v \in Workers : upload'[v].id # NoId => Author[upload'[v].id] = v[1]
    BY <1>1 DEF UploadType, OwnWork
  <2>. QED BY <2>1, <2>2 DEF OwnWork
<1>. QED BY <1>2, <1>3, <1>4, <1>5, CoreUnchanged

\* An upload starts with an id of its own device.
LEMMA StartUploadKeeps ==
  ASSUME TypeOK, OwnWork, NEW w \in Workers, NEW id \in Ids, Author[id] = w[1],
         StartUpload(w, id)
  PROVE  /\ UploadType'
         /\ wire' \subseteq [from: Workers, id: Ids, try: 1..Attempts]
         /\ \A v \in Workers : upload'[v].id # NoId => Author[upload'[v].id] = v[1]
         /\ \A r \in wire' : Author[r.id] = r.from[1]
<1>1. /\ upload' = [upload EXCEPT ![w] = [id |-> id, try |-> 1, answered |-> FALSE]]
      /\ wire' = wire \cup {[from |-> w, id |-> id, try |-> 1]}
  BY DEF StartUpload, Request
<1>2. 1 \in 0..Attempts /\ 1 \in 1..Attempts
  BY SyncAssumption DEF SyncAssumption
<1>. QED BY <1>1, <1>2 DEF TypeOK, UploadType, ServerType, OwnWork

LEMMA FlushNextKeepsInv ==
  ASSUME SyncInv, NEW d \in Devices, FlushNext(d)
  PROVE  SyncInv'
<1>. USE DEF SyncInv, TypeOK
<1>. DEFINE id == Earliest(work[d])
            w == <<d, "daemon">>
<1>1. /\ id \in work[d] /\ id \in Ids /\ w \in Workers /\ Author[id] = w[1]
      /\ d \in Devices /\ w[1] = d
  <2>1. work[d] \in SUBSET Ids /\ work[d] # {}
    BY DEF SenderType, FlushNext
  <2>2. id \in work[d]
    BY <2>1, EarliestIsMember DEF SenderType
  <2>. QED BY <2>1, <2>2 DEF Workers, OwnWork
<1>2. /\ work' = [work EXCEPT ![d] = @ \ {id}]
      /\ StartUpload(w, id) \/ UNCHANGED <<upload, wire>>
      /\ UNCHANGED <<storeVars, firstSeq, storedAt, outbox, fresh, phase, made, queued,
                     cancelled, receiverVars, seen, cli, budget>>
  BY DEF FlushNext
<1>. HIDE DEF id, w
<1>3. /\ UploadType'
      /\ wire' \subseteq [from: Workers, id: Ids, try: 1..Attempts]
      /\ \A v \in Workers : upload'[v].id # NoId => Author[upload'[v].id] = v[1]
      /\ \A r \in wire' : Author[r.id] = r.from[1]
  <2>1. CASE StartUpload(w, id)
    BY <1>1, <2>1, StartUploadKeeps
  <2>2. CASE UNCHANGED <<upload, wire>>
    BY <2>2 DEF UploadType, ServerType, OwnWork
  <2>. QED BY <1>2, <2>1, <2>2
<1>4. ServerType' /\ SenderType' /\ ProcessType'
  BY <1>2, <1>3 DEF ServerType, SenderType, ProcessType, storeVars, budget
<1>5. ReceiverType' /\ UNCHANGED coreVars
  BY <1>2 DEF ReceiverType, receiverVars, historyVars, pageVars, coreVars, storeVars
<1>6. OwnWork'
  <2>1. /\ \A e \in Devices : work'[e] \subseteq work[e]
        /\ UNCHANGED <<fresh, outbox, items>>
    BY <1>2 DEF SenderType, storeVars
  <2>. QED BY <1>3, <2>1 DEF OwnWork
<1>. QED BY <1>3, <1>4, <1>5, <1>6, CoreUnchanged

\* Flush, Poll and SendsDone only move lists of ids around.
LEMMA SenderKeepsInv ==
  ASSUME SyncInv, NEW d \in Devices, Flush(d) \/ Poll(d) \/ SendsDone(d)
  PROVE  SyncInv'
<1>. USE DEF SyncInv, TypeOK
<1>1. UNCHANGED <<serverVars, outbox, upload, made, queued, cancelled,
                  receiverVars, seen, cli, budget>>
  BY DEF Flush, Poll, SendsDone
<1>2. /\ fresh' = fresh \/ fresh' = [fresh EXCEPT ![d] = {}]
      /\ \/ work' = work \/ work' = [work EXCEPT ![d] = outbox[d]]
         \/ work' = [work EXCEPT ![d] = fresh[d]]
      /\ \E p \in {"loop", "flushing", "sending"} :
           phase' = [phase EXCEPT ![d] = p]
  BY DEF Flush, Poll, SendsDone
<1>3. UploadType' /\ ServerType' /\ ProcessType'
  BY <1>1 DEF UploadType, ServerType, ProcessType, serverVars, storeVars, budget
<1>4. SenderType'
  BY <1>1, <1>2 DEF SenderType
<1>5. ReceiverType' /\ UNCHANGED coreVars
  BY <1>1 DEF ReceiverType, receiverVars, historyVars, pageVars, coreVars, serverVars, storeVars
<1>6. OwnWork'
  <2>1. /\ \A e \in Devices : fresh'[e] \subseteq fresh[e]
        /\ \A e \in Devices : work'[e] \subseteq work[e] \cup outbox[e] \cup fresh[e]
        /\ UNCHANGED <<outbox, upload, wire, items>>
    BY <1>1, <1>2 DEF SenderType, serverVars, storeVars
  <2>. QED BY <2>1 DEF OwnWork
<1>. QED BY <1>3, <1>4, <1>5, <1>6, CoreUnchanged

\* Cancelling, wiping and failing on the command line only take things away.
LEMMA CliKeepsInv ==
  ASSUME SyncInv, NEW d \in Devices, CliCancels(d) \/ CliWipes(d) \/ CliFails(d)
  PROVE  SyncInv'
<1>. USE DEF SyncInv, TypeOK
<1>1. UNCHANGED <<serverVars, upload, phase, work, made, queued, saved, cursor,
                  pageVars, applied, receipted, seen, restarts>>
  BY DEF CliCancels, CliWipes, CliFails, senderVars, receiverVars, budget
<1>2. /\ fresh' = fresh \/ fresh' = [fresh EXCEPT ![d] = {}]
      /\ outbox' = outbox \/ outbox' = [outbox EXCEPT ![d] = {}]
      /\ \/ history' = history /\ taken' = taken
         \/ /\ history' = [history EXCEPT ![d] = {}]
            /\ taken' = [taken EXCEPT ![d] = @ \cup history[d]]
      /\ cancelled' = cancelled \/ cancelled' = cancelled \cup outbox[d]
      /\ faults' = faults \/ faults' = faults + 1
      /\ \E c \in {"wiping", "deleting", "failed"} : cli' = [cli EXCEPT ![d] = c]
  BY DEF CliCancels, CliWipes, CliFails, senderVars, receiverVars, historyVars, budget,
         OneFault
<1>3. UploadType' /\ ServerType'
  BY <1>1 DEF UploadType, ServerType, serverVars, storeVars
<1>4. ProcessType'
  BY <1>1, <1>2 DEF ProcessType
<1>5. SenderType'
  BY <1>1, <1>2 DEF SenderType
<1>6. ReceiverType' /\ UNCHANGED coreVars
  BY <1>1, <1>2 DEF ReceiverType, pageVars, coreVars, serverVars, storeVars
<1>7. OwnWork'
  <2>1. /\ \A e \in Devices : fresh'[e] \subseteq fresh[e]
        /\ \A e \in Devices : outbox'[e] \subseteq outbox[e]
        /\ UNCHANGED <<work, upload, wire, items>>
    BY <1>1, <1>2 DEF SenderType, serverVars, storeVars
  <2>. QED BY <2>1 DEF OwnWork
<1>. QED BY <1>3, <1>4, <1>5, <1>6, <1>7, CoreUnchanged

\* Deleting everything on the server leaves fewer rows to account for.
LEMMA CliDeletesKeepsInv ==
  ASSUME SyncInv, NEW d \in Devices, CliDeletes(d)
  PROVE  SyncInv'
<1>. USE DEF SyncInv, TypeOK
<1>1. /\ items' \subseteq items
      /\ cli' = [cli EXCEPT ![d] = "announcing"]
      /\ UNCHANGED <<lastSeq, now, wire, firstSeq, storedAt, senderVars, receiverVars, seen,
                     budget>>
  BY DEF CliDeletes, DeleteAll
<1>2. /\ UploadType' /\ ServerType' /\ SenderType' /\ ReceiverType'
      /\ ProcessType'
  BY <1>1 DEF UploadType, ServerType, SenderType, ReceiverType, ProcessType,
              senderVars, receiverVars, historyVars, pageVars, budget
<1>3. RowsInv'
  BY <1>1, FS_Subset DEF RowsInv
<1>4. OwnWork'
  BY <1>1 DEF OwnWork, senderVars
<1>5. \A e \in Devices : DeviceInv(e)'
  BY <1>1 DEF DeviceInv, PageInv, Foreign, Done, First, receiverVars, historyVars, pageVars
<1>. QED BY <1>2, <1>3, <1>4, <1>5

\* A stored row is numbered past every cursor and every page in progress.
LEMMA ServerTakesKeepsInv ==
  ASSUME SyncInv, NEW r \in wire, NEW heard \in BOOLEAN, ServerTakes(r, heard)
  PROVE  SyncInv'
<1>. USE DEF SyncInv, TypeOK
<1>. DEFINE w == r.from
            d == r.from[1]
<1>1. /\ w \in Workers /\ d \in Devices /\ r.id \in Ids /\ r.id \in Payloads
      /\ r.try \in 0..Attempts /\ Author[r.id] = d /\ Author[r.id] = w[1]
  BY SyncAssumption DEF ServerType, Workers, OwnWork, SyncAssumption
<1>2. /\ AddItem(AccountOf[d], d, r.id, r.id)
      /\ wire' = wire \ {r}
      /\ firstSeq' = [firstSeq EXCEPT ![r.id] = IF @ = 0 THEN lastSeq' ELSE @]
      /\ storedAt' = [storedAt EXCEPT ![r.id] = IF lastSeq' # lastSeq THEN lastSeq' ELSE @]
      /\ \/ upload' = upload
         \/ upload' = [upload EXCEPT ![w] = [id |-> r.id, try |-> r.try,
                                             answered |-> TRUE]]
      /\ faults' = faults \/ faults' = faults + 1
      /\ UNCHANGED <<now, outbox, fresh, phase, work, made, queued, cancelled,
                     receiverVars, seen, cli, restarts>>
  <2>. HIDE DEF w, d
  <2>. QED BY DEF ServerTakes, OneFault, w, d
<1>. HIDE DEF w, d
<1>3. /\ items' \subseteq Item /\ IsFiniteSet(items')
      /\ lastSeq' \in Nat /\ lastSeq <= lastSeq'
      /\ \A i \in items' : i \notin items =>
           i.seq = lastSeq' /\ i.id = r.id /\ i.device = d
      /\ lastSeq' = lastSeq => items' = items
  BY <1>1, <1>2, AddItemRows DEF ServerType, RowsInv
<1>4. ServerType' /\ UploadType'
  <2>1. ServerType'
    BY <1>1, <1>2, <1>3 DEF ServerType
  <2>2. UploadType'
    <3>1. CASE upload' = upload
      BY <3>1 DEF UploadType
    <3>2. CASE upload' # upload
      BY <1>1, <1>2, <3>2, UploadTypeKeeps
    <3>. QED BY <3>1, <3>2
  <2>. QED BY <2>1, <2>2
<1>5. SenderType' /\ ReceiverType' /\ ProcessType'
  BY <1>2 DEF SenderType, ReceiverType, ProcessType, receiverVars, historyVars, pageVars
<1>6. RowsInv'
  BY <1>3 DEF RowsInv, ServerType, Item
<1>7. OwnWork'
  <2>1. \A v \in Workers : upload'[v].id # NoId => Author[upload'[v].id] = v[1]
    BY <1>1, <1>2 DEF UploadType, OwnWork
  <2>2. \A i \in items' : Author[i.id] = i.device
    BY <1>1, <1>3 DEF OwnWork
  <2>. QED BY <1>2, <2>1, <2>2 DEF OwnWork
<1>8. ASSUME NEW e \in Devices PROVE DeviceInv(e)'
  <2>1. /\ cursor[e] \in Nat /\ next[e] \in Nat
        /\ DeviceInv(e)
        /\ UNCHANGED <<saved, cursor, seen, step, page, next, applied, receipted>>
    BY <1>2 DEF ReceiverType, receiverVars, historyVars, pageVars
  <2>2. ASSUME NEW i \in Foreign(e)', NEW c \in Nat, c <= lastSeq, i.seq <= c
        PROVE  i \in Foreign(e)
    BY <1>3, <2>2 DEF Foreign, ServerType
  <2>3. saved'[e] <= cursor'[e] /\ cursor'[e] <= lastSeq'
    BY <1>3, <2>1 DEF DeviceInv, ServerType
  <2>4. \A i \in Foreign(e)' : i.seq <= cursor'[e] => Done(e, i.id)'
    BY <2>1, <2>2 DEF DeviceInv, Done
  <2>5. PageInv(e)'
    <3>1. step'[e] # "ask" =>
            /\ cursor'[e] <= next'[e] /\ next'[e] <= lastSeq'
            /\ \A i \in Foreign(e)' : i.seq <= next'[e] =>
                 i \in page'[e] \/ Done(e, i.id)'
      BY <1>3, <2>1, <2>2 DEF DeviceInv, PageInv, Done, ServerType
    <3>. QED BY <2>1, <3>1 DEF DeviceInv, PageInv, First
  <2>. QED BY <2>1, <2>3, <2>4, <2>5 DEF DeviceInv, Done
<1>. QED BY <1>4, <1>5, <1>6, <1>7, <1>8

LEMMA CopyKeepsInv ==
  ASSUME SyncInv, NEW d \in Devices, NEW id \in Ids, Copy(d, id)
  PROVE  SyncInv'
<1>. USE DEF SyncInv, TypeOK
<1>1. /\ Author[id] = d
      /\ history' = [history EXCEPT ![d] = @ \cup {id}]
      /\ taken' = [taken EXCEPT ![d] = @ \ {id}]
      /\ fresh' = [fresh EXCEPT ![d] = @ \cup {id}]
      /\ applied' = [applied EXCEPT ![d] = @ \cup {id}]
      /\ UNCHANGED <<serverVars, outbox, phase, work, upload, queued, cancelled,
                     saved, cursor, pageVars, receipted, seen, cli, budget>>
  BY DEF Copy, PutInHistory
<1>2. made' \in [Ids -> Nat]
  BY StampKeepsType DEF Copy, SenderType
<1>3. ServerType' /\ UploadType' /\ ProcessType'
  BY <1>1 DEF ServerType, UploadType, ProcessType, serverVars, storeVars, budget
<1>4. SenderType' /\ ReceiverType'
  BY <1>1, <1>2 DEF SenderType, ReceiverType, pageVars
<1>5. RowsInv' /\ OwnWork'
  BY <1>1 DEF RowsInv, OwnWork, serverVars, storeVars, SenderType
<1>6. ASSUME NEW e \in Devices PROVE DeviceInv(e)'
  <2>1. applied[e] \subseteq applied'[e]
    BY <1>1 DEF ReceiverType
  <2>. QED BY <1>1, <2>1 DEF DeviceInv, PageInv, Foreign, Done, First,
                             serverVars, storeVars, pageVars
<1>. QED BY <1>3, <1>4, <1>5, <1>6

\* What a device sees of its own id says nothing about others' items.
LEMMA SeenOwn ==
  ASSUME NEW e \in Devices, NEW id \in Ids, DeviceInv(e),
         \/ seen'[e] = seen[e]
         \/ Author[id] = e /\ seen'[e] = seen[e] \cup {id},
         UNCHANGED <<items, lastSeq, saved, cursor, pageVars, applied, receipted>>
  PROVE  DeviceInv(e)'
  BY DEF DeviceInv, PageInv, Foreign, Done, First, pageVars

LEMMA SendKeepsInv ==
  ASSUME SyncInv, NEW d \in Devices, SendNext(d) \/ SendFails(d)
  PROVE  SyncInv'
<1>. USE DEF SyncInv, TypeOK
<1>. DEFINE id == Earliest(work[d])
            w == <<d, "daemon">>
<1>1. /\ id \in work[d] /\ id \in Ids /\ w \in Workers /\ Author[id] = w[1]
      /\ w[1] = d
  <2>1. work[d] \in SUBSET Ids /\ work[d] # {}
    BY DEF SenderType, SendNext, SendFails
  <2>2. id \in work[d]
    BY <2>1, EarliestIsMember DEF SenderType
  <2>. QED BY <2>1, <2>2 DEF Workers, OwnWork
<1>2. /\ work' = [work EXCEPT ![d] = @ \ {id}]
      /\ seen' = [seen EXCEPT ![d] = @ \cup {id}]
      /\ \/ outbox' = outbox /\ queued' = queued
         \/ /\ outbox' = [outbox EXCEPT ![d] = @ \cup {id}]
            /\ queued' = queued \cup {id}
      /\ StartUpload(w, id) \/ UNCHANGED <<upload, wire>>
      /\ faults' = faults \/ faults' = faults + 1
      /\ UNCHANGED <<storeVars, firstSeq, storedAt, fresh, phase, made, cancelled,
                     receiverVars, cli, restarts>>
  <2>1. CASE SendNext(d)
    <3>1. /\ work' = [work EXCEPT ![d] = @ \ {id}]
          /\ seen' = [seen EXCEPT ![d] = @ \cup {id}]
          /\ Enqueue(d, id)
          /\ StartUpload(w, id)
          /\ UNCHANGED <<storeVars, firstSeq, storedAt, fresh, phase, made, cancelled,
                         receiverVars, cli, budget>>
      BY <2>1 DEF SendNext
    <3>2. faults' = faults /\ restarts' = restarts
      BY <3>1 DEF budget
    <3>. HIDE DEF id, w
    <3>. QED BY <3>1, <3>2 DEF Enqueue
  <2>2. CASE SendFails(d)
    <3>1. /\ work' = [work EXCEPT ![d] = @ \ {id}]
          /\ seen' = [seen EXCEPT ![d] = @ \cup {id}]
          /\ Enqueue(d, id) \/ UNCHANGED <<outbox, queued>>
          /\ faults' = faults + 1
          /\ UNCHANGED <<serverVars, fresh, phase, upload, made, cancelled,
                         receiverVars, cli, restarts>>
      BY <2>2 DEF SendFails, OneFault
    <3>2. UNCHANGED <<storeVars, firstSeq, storedAt, wire>>
      BY <3>1 DEF serverVars, storeVars
    <3>. HIDE DEF id, w
    <3>. QED BY <3>1, <3>2 DEF Enqueue
  <2>. QED BY <2>1, <2>2
<1>. HIDE DEF id, w
<1>3. /\ UploadType'
      /\ wire' \subseteq [from: Workers, id: Ids, try: 1..Attempts]
      /\ \A v \in Workers : upload'[v].id # NoId => Author[upload'[v].id] = v[1]
      /\ \A r \in wire' : Author[r.id] = r.from[1]
  <2>1. CASE StartUpload(w, id)
    BY <1>1, <2>1, StartUploadKeeps
  <2>2. CASE UNCHANGED <<upload, wire>>
    BY <2>2 DEF UploadType, ServerType, OwnWork
  <2>. QED BY <1>2, <2>1, <2>2
<1>4. ServerType' /\ ProcessType'
  BY <1>2, <1>3 DEF ServerType, ProcessType, storeVars
<1>5. SenderType' /\ ReceiverType'
  BY <1>1, <1>2 DEF SenderType, ReceiverType, receiverVars, historyVars, pageVars
<1>6. OwnWork'
  <2>1. /\ \A e \in Devices : work'[e] \subseteq work[e]
        /\ \A e \in Devices :
             outbox'[e] = outbox[e] \/ (e = d /\ outbox'[e] = outbox[e] \cup {id})
        /\ UNCHANGED <<fresh, items>>
    BY <1>2 DEF SenderType, storeVars
  <2>. QED BY <1>1, <1>3, <2>1 DEF OwnWork
<1>7. RowsInv'
  BY <1>2 DEF RowsInv, storeVars
<1>8. ASSUME NEW e \in Devices PROVE DeviceInv(e)'
  <2>1. \/ seen'[e] = seen[e]
        \/ Author[id] = e /\ seen'[e] = seen[e] \cup {id}
    BY <1>1, <1>2 DEF ReceiverType
  <2>. QED BY <1>1, <1>2, <2>1, SeenOwn DEF storeVars, receiverVars
<1>. QED BY <1>3, <1>4, <1>5, <1>6, <1>7, <1>8

LEMMA CliSendsKeepsInv ==
  ASSUME SyncInv, NEW d \in Devices, NEW x \in Ids, CliSends(d, x)
  PROVE  SyncInv'
<1>. USE DEF SyncInv, TypeOK
<1>. DEFINE w == <<d, "cli">>
<1>1. w \in Workers /\ Author[x] = w[1] /\ w[1] = d
  BY DEF Workers, CliSends
<1>2. /\ Stamp(x)
      /\ StartUpload(w, x)
      /\ outbox' = [outbox EXCEPT ![d] = @ \cup {x}]
      /\ queued' = queued \cup {x}
      /\ cli' = [cli EXCEPT ![d] = "sending"]
      /\ UNCHANGED <<storeVars, firstSeq, storedAt, fresh, phase, work, cancelled,
                     receiverVars, seen, budget>>
  BY DEF CliSends, Enqueue
<1>. HIDE DEF w
<1>3. /\ UploadType'
      /\ wire' \subseteq [from: Workers, id: Ids, try: 1..Attempts]
      /\ \A v \in Workers : upload'[v].id # NoId => Author[upload'[v].id] = v[1]
      /\ \A r \in wire' : Author[r.id] = r.from[1]
  BY <1>1, <1>2, StartUploadKeeps
<1>4. made' \in [Ids -> Nat]
  BY <1>2, StampKeepsType DEF SenderType
<1>5. ServerType' /\ ProcessType'
  BY <1>2, <1>3 DEF ServerType, ProcessType, storeVars, budget
<1>6. SenderType'
  BY <1>2, <1>4 DEF SenderType
<1>7. ReceiverType' /\ UNCHANGED coreVars
  BY <1>2 DEF ReceiverType, receiverVars, historyVars, pageVars, coreVars, storeVars
<1>8. OwnWork'
  <2>1. /\ \A e \in Devices :
             outbox'[e] = outbox[e] \/ (e = d /\ outbox'[e] = outbox[e] \cup {x})
        /\ UNCHANGED <<work, fresh, items>>
    BY <1>2 DEF SenderType, storeVars
  <2>. QED BY <1>1, <1>3, <2>1 DEF OwnWork
<1>. QED BY <1>3, <1>5, <1>6, <1>7, <1>8, CoreUnchanged
-----------------------------------------------------------------------------
(* The receiving thread *)

\* An answer covers every row between the cursor and the one it comes with.
LEMMA FetchKeepsInv ==
  ASSUME SyncInv, NEW d \in Devices, Fetch(d)
  PROVE  SyncInv'
<1>. USE DEF SyncInv, TypeOK
<1>. DEFINE m == PageCursor(d, cursor[d])
            P == Page(d, cursor[d])
<1>1. /\ Passed(d, cursor[d]) # {}
      /\ step' = [step EXCEPT ![d] = "page"]
      /\ page' = [page EXCEPT ![d] = P]
      /\ next' = [next EXCEPT ![d] = m]
      /\ UNCHANGED <<serverVars, senderVars, history, taken, saved, cursor, applied,
                     receipted, seen, cli, budget>>
  BY DEF Fetch, historyVars
<1>2. /\ m \in Nat /\ cursor[d] < m /\ m <= lastSeq
      /\ Passed(d, cursor[d]) =
           {i \in After(AccountOf[d], cursor[d]) : i.seq <= m}
  <2>1. cursor[d] \in Nat /\ cursor[d] <= lastSeq
    BY DEF ReceiverType, DeviceInv
  <2>. QED BY <1>1, <2>1, PageIsInterval DEF ServerType, RowsInv
<1>3. P = {i \in Foreign(d) : cursor[d] < i.seq /\ i.seq <= m}
  BY <1>2 DEF Page, After, Foreign, ServerType, Item
<1>. HIDE DEF m, P
<1>4. P \in SUBSET Item /\ \A i \in P : Author[i.id] # d
  BY <1>3 DEF Foreign, ServerType, OwnWork
<1>5. ServerType' /\ UploadType' /\ SenderType' /\ ProcessType'
  BY <1>1 DEF ServerType, UploadType, SenderType, ProcessType, serverVars,
              storeVars, senderVars, budget
<1>6. ReceiverType'
  BY <1>1, <1>2, <1>4 DEF ReceiverType
<1>7. RowsInv' /\ OwnWork'
  BY <1>1 DEF RowsInv, OwnWork, serverVars, storeVars, senderVars
<1>8. UNCHANGED <<items, lastSeq>>
  BY <1>1 DEF serverVars, storeVars
<1>9. ASSUME NEW e \in Devices PROVE DeviceInv(e)'
  <2>1. CASE e # d
    BY <1>1, <1>8, <2>1, DeviceUnchanged DEF ReceiverType
  <2>2. CASE e = d
    <3>1. step'[d] = "page" /\ page'[d] = P /\ next'[d] = m
      BY <1>1 DEF ReceiverType
    <3>2. \A i \in Foreign(d) : i.seq <= m => i \in P \/ Done(d, i.id)
      BY <1>3 DEF DeviceInv, Foreign, ServerType, Item, ReceiverType
    <3>3. PageInv(d)'
      BY <1>1, <1>2, <1>4, <1>8, <3>1, <3>2 DEF PageInv, Foreign, Done, ReceiverType
    <3>. QED BY <1>1, <1>8, <2>2, <3>3 DEF DeviceInv, Foreign, Done
  <2>. QED BY <2>1, <2>2
<1>. QED BY <1>5, <1>6, <1>7, <1>9

\* The other types and the other devices are not touched by a receiver's step.
LEMMA ReceiverStep ==
  ASSUME SyncInv, NEW d \in Devices,
         UNCHANGED <<serverVars, fresh, phase, work, upload, made, queued, cli,
                     restarts>>,
         \/ outbox' = outbox /\ cancelled' = cancelled
         \/ /\ outbox' = [outbox EXCEPT ![d] = {}]
            /\ cancelled' = cancelled \cup outbox[d],
         faults' = faults \/ faults' = faults + 1,
         ReceiverType',
         \A e \in Devices \ {d} :
           /\ saved'[e] = saved[e] /\ cursor'[e] = cursor[e] /\ seen'[e] = seen[e]
           /\ step'[e] = step[e] /\ page'[e] = page[e] /\ next'[e] = next[e]
           /\ applied'[e] = applied[e] /\ receipted'[e] = receipted[e],
         DeviceInv(d)'
  PROVE  SyncInv'
<1>. USE DEF SyncInv, TypeOK
<1>1. ServerType' /\ UploadType' /\ SenderType' /\ ProcessType'
  BY DEF ServerType, UploadType, SenderType, ProcessType, serverVars, storeVars
<1>2. UNCHANGED <<items, lastSeq, wire>>
  BY DEF serverVars, storeVars
<1>3. RowsInv'
  BY <1>2 DEF RowsInv
<1>4. OwnWork'
  <2>1. \A e \in Devices : outbox'[e] \subseteq outbox[e]
    BY DEF SenderType
  <2>. QED BY <1>2, <2>1 DEF OwnWork
<1>5. ASSUME NEW e \in Devices PROVE DeviceInv(e)'
  BY <1>2, DeviceUnchanged
<1>. QED BY <1>1, <1>3, <1>4, <1>5

\* The next item of the page is done: an own or a finished one is remembered.
LEMMA HandledKeepsDevice ==
  ASSUME SyncInv, NEW d \in Devices, page[d] # {}, step[d] # "ask",
         NEW kept \in SUBSET Ids, NEW h \in Item,
         UNCHANGED <<items, lastSeq, saved, cursor>>,
         step'[d] = "page", page'[d] = page[d] \ {h}, next'[d] = next[d],
         applied[d] \subseteq applied'[d], receipted[d] \subseteq receipted'[d],
         seen'[d] = seen[d] \cup kept, kept \subseteq {h.id},
         Done(d, h.id)'
  PROVE  DeviceInv(d)'
<1>. USE DEF SyncInv, TypeOK
<1>1. \A id : Done(d, id) => Done(d, id)'
  BY DEF Done
<1>2. DeviceInv(d)
  OBVIOUS
<1>3. PageInv(d)'
  <2>1. \A i \in Foreign(d) : i.seq <= next[d] =>
          i \in page'[d] \/ Done(d, i.id)'
    BY <1>1, <1>2 DEF DeviceInv, PageInv
  <2>. QED BY <1>2, <2>1 DEF DeviceInv, PageInv, Foreign
<1>4. \A i \in Foreign(d)' : i.seq <= cursor'[d] => Done(d, i.id)'
  BY <1>1, <1>2 DEF DeviceInv, Foreign
<1>5. \A id \in seen'[d] : Author[id] = d \/ Done(d, id)'
  BY <1>1, <1>2 DEF DeviceInv
<1>. QED BY <1>2, <1>3, <1>4, <1>5 DEF DeviceInv

LEMMA SkipKeepsInv ==
  ASSUME SyncInv, NEW d \in Devices, Skip(d)
  PROVE  SyncInv'
<1>. USE DEF SyncInv, TypeOK
<1>1. PICK h \in Item : h = First(d)
  BY FirstIsOnPage DEF Skip, AtItem, ReceiverType
<1>2. /\ page[d] # {} /\ step[d] = "page" /\ h.id \in seen[d]
      /\ step' = [step EXCEPT ![d] = "page"]
      /\ page' = [page EXCEPT ![d] = @ \ {h}]
      /\ UNCHANGED <<next, serverVars, senderVars, history, taken, saved, cursor, applied,
                     receipted, seen, cli, budget>>
  BY <1>1 DEF Skip, AtItem, Handled, historyVars
<1>3. ReceiverType'
  BY <1>2 DEF ReceiverType
<1>4. Done(d, h.id)'
  <2>1. h \in page[d]
    BY <1>1, <1>2, FirstIsOnPage DEF ReceiverType
  <2>. QED BY <1>2, <2>1 DEF DeviceInv, PageInv, Done
<1>5. DeviceInv(d)'
  <2>1. UNCHANGED <<items, lastSeq, saved, cursor>>
    BY <1>2 DEF serverVars, storeVars
  <2>2. /\ step'[d] = "page" /\ page'[d] = page[d] \ {h} /\ next'[d] = next[d]
        /\ applied[d] \subseteq applied'[d] /\ receipted[d] \subseteq receipted'[d]
        /\ seen'[d] = seen[d] \cup {}
    BY <1>2 DEF ReceiverType
  <2>3. {} \in SUBSET Ids /\ {} \subseteq {h.id} /\ step[d] # "ask"
    BY <1>2
  <2>. QED BY <1>2, <1>4, <2>1, <2>2, <2>3, HandledKeepsDevice
<1>. QED BY <1>2, <1>3, <1>5, ReceiverStep
         DEF senderVars, budget, ReceiverType

LEMMA AcknowledgeKeepsInv ==
  ASSUME SyncInv, NEW d \in Devices, Acknowledge(d)
  PROVE  SyncInv'
<1>. USE DEF SyncInv, TypeOK
<1>1. page[d] # {} /\ step[d] = "kept"
  BY DEF Acknowledge, DeviceInv, PageInv
<1>2. PICK h \in Item : h = First(d)
  BY <1>1, FirstIsOnPage DEF ReceiverType
<1>3. /\ receipted' = [receipted EXCEPT ![d] = @ \cup {h.id}]
      /\ seen' = [seen EXCEPT ![d] = @ \cup {h.id}]
      /\ step' = [step EXCEPT ![d] = "page"]
      /\ page' = [page EXCEPT ![d] = @ \ {h}]
      /\ UNCHANGED <<next, serverVars, senderVars, history, taken, saved, cursor, applied,
                     cli, budget>>
  BY <1>2 DEF Acknowledge, Handled, historyVars
<1>4. h.id \in Ids /\ h.id \in applied[d]
  BY <1>1, <1>2 DEF Item, DeviceInv, PageInv
<1>5. ReceiverType'
  BY <1>3, <1>4 DEF ReceiverType
<1>6. /\ step'[d] = "page" /\ page'[d] = page[d] \ {h} /\ next'[d] = next[d]
      /\ applied'[d] = applied[d] /\ receipted'[d] = receipted[d] \cup {h.id}
      /\ seen'[d] = seen[d] \cup {h.id}
  BY <1>3 DEF ReceiverType
<1>7. Done(d, h.id)'
  BY <1>4, <1>6 DEF Done
<1>8. DeviceInv(d)'
  <2>1. UNCHANGED <<items, lastSeq, saved, cursor>>
    BY <1>3 DEF serverVars, storeVars
  <2>2. {h.id} \in SUBSET Ids /\ step[d] # "ask"
    BY <1>1, <1>4
  <2>. QED BY <1>1, <1>6, <1>7, <2>1, <2>2, HandledKeepsDevice
<1>. QED BY <1>3, <1>5, <1>8, ReceiverStep
         DEF senderVars, budget, ReceiverType

LEMMA NoteClearKeepsInv ==
  ASSUME SyncInv, NEW d \in Devices, NoteClear(d)
  PROVE  SyncInv'
<1>. USE DEF SyncInv, TypeOK
<1>1. page[d] # {} /\ step[d] = "wiped"
  BY DEF NoteClear, DeviceInv, PageInv
<1>2. PICK h \in Item : h = First(d)
  BY <1>1, FirstIsOnPage DEF ReceiverType
<1>3. /\ seen' = [seen EXCEPT ![d] = @ \cup {h.id}]
      /\ step' = [step EXCEPT ![d] = "page"]
      /\ page' = [page EXCEPT ![d] = @ \ {h}]
      /\ UNCHANGED <<next, serverVars, senderVars, history, taken, saved, cursor, applied,
                     receipted, cli, budget>>
  BY <1>2 DEF NoteClear, Handled, historyVars
<1>4. h.id \in Ids /\ h.id \in applied[d] \cap Clears
  BY <1>1, <1>2 DEF Item, DeviceInv, PageInv
<1>5. ReceiverType'
  BY <1>3, <1>4 DEF ReceiverType
<1>6. /\ step'[d] = "page" /\ page'[d] = page[d] \ {h} /\ next'[d] = next[d]
      /\ applied'[d] = applied[d] /\ receipted'[d] = receipted[d]
      /\ seen'[d] = seen[d] \cup {h.id}
  BY <1>3 DEF ReceiverType
<1>7. DeviceInv(d)'
  <2>1. Done(d, h.id)'
    BY <1>4, <1>6 DEF Done
  <2>2. {h.id} \in SUBSET Ids /\ step[d] # "ask"
    BY <1>1, <1>4
  <2>3. UNCHANGED <<items, lastSeq, saved, cursor>>
    BY <1>3 DEF serverVars, storeVars
  <2>. QED BY <1>1, <1>6, <2>1, <2>2, <2>3, HandledKeepsDevice
<1>. QED BY <1>3, <1>5, <1>7, ReceiverStep
         DEF senderVars, budget, ReceiverType

\* A step within an item leaves the page as it is.
LEMMA ItemStepKeepsDevice ==
  ASSUME SyncInv, NEW d \in Devices, page[d] # {}, step[d] # "ask",
         UNCHANGED <<items, lastSeq, saved, cursor>>,
         page'[d] = page[d], next'[d] = next[d], seen'[d] = seen[d],
         applied[d] \subseteq applied'[d], receipted'[d] = receipted[d],
         \/ step'[d] = "kept" /\ First(d).id \in applied'[d] \ Clears
         \/ step'[d] = "emptied" /\ First(d).id \in Clears
         \/ step'[d] = "wiped" /\ First(d).id \in applied'[d] \cap Clears
  PROVE  DeviceInv(d)'
<1>. USE DEF SyncInv, TypeOK
<1>1. \A id : Done(d, id) => Done(d, id)'
  BY DEF Done
<1>2. First(d)' = First(d)
  BY DEF First
<1>3. PageInv(d)'
  <2>1. \A i \in Foreign(d) : i.seq <= next[d] =>
          i \in page'[d] \/ Done(d, i.id)'
    BY <1>1 DEF DeviceInv, PageInv
  <2>. QED BY <1>2, <2>1 DEF DeviceInv, PageInv, Foreign
<1>. QED BY <1>1, <1>3 DEF DeviceInv, Foreign

LEMMA SaveKeepsInv ==
  ASSUME SyncInv, NEW d \in Devices, Save(d)
  PROVE  SyncInv'
<1>. USE DEF SyncInv, TypeOK
<1>1. PICK h \in Item : h = First(d)
  BY FirstIsOnPage DEF Save, AtItem, ReceiverType
<1>2. /\ page[d] # {} /\ step[d] = "page" /\ h.id \notin Clears
      /\ history' = [history EXCEPT ![d] = @ \cup {h.id}]
      /\ taken' = [taken EXCEPT ![d] = @ \ {h.id}]
      /\ applied' = [applied EXCEPT ![d] = @ \cup {h.id}]
      /\ step' = [step EXCEPT ![d] = "kept"]
      /\ UNCHANGED <<page, next, serverVars, senderVars, saved, cursor, receipted,
                     seen, cli, budget>>
  BY <1>1 DEF Save, AtItem, PutInHistory
<1>3. ReceiverType'
  BY <1>2 DEF ReceiverType, Item
<1>4. DeviceInv(d)'
  <2>1. UNCHANGED <<items, lastSeq, saved, cursor>>
    BY <1>2 DEF serverVars, storeVars
  <2>2. /\ step'[d] = "kept" /\ applied'[d] = applied[d] \cup {h.id}
        /\ page'[d] = page[d] /\ next'[d] = next[d] /\ seen'[d] = seen[d]
        /\ receipted'[d] = receipted[d] /\ step[d] # "ask"
    BY <1>2 DEF ReceiverType
  <2>. QED BY <1>1, <1>2, <2>1, <2>2, ItemStepKeepsDevice
<1>. QED BY <1>2, <1>3, <1>4, ReceiverStep
         DEF senderVars, budget, ReceiverType

LEMMA CancelQueuedKeepsInv ==
  ASSUME SyncInv, NEW d \in Devices, CancelQueued(d)
  PROVE  SyncInv'
<1>. USE DEF SyncInv, TypeOK
<1>1. /\ page[d] # {} /\ step[d] = "page" /\ First(d).id \in Clears
      /\ outbox' = [outbox EXCEPT ![d] = {}]
      /\ cancelled' = cancelled \cup outbox[d]
      /\ step' = [step EXCEPT ![d] = "emptied"]
      /\ UNCHANGED <<page, next, serverVars, fresh, phase, work, upload, made,
                     queued, history, taken, saved, cursor, applied, receipted, seen,
                     cli, budget>>
  BY DEF CancelQueued, AtItem, historyVars
<1>2. ReceiverType'
  BY <1>1 DEF ReceiverType
<1>3. DeviceInv(d)'
  <2>1. UNCHANGED <<items, lastSeq, saved, cursor>>
    BY <1>1 DEF serverVars, storeVars
  <2>2. step'[d] = "emptied" /\ step[d] # "ask"
    BY <1>1 DEF ReceiverType
  <2>. QED BY <1>1, <2>1, <2>2, ItemStepKeepsDevice
<1>. QED BY <1>1, <1>2, <1>3, ReceiverStep DEF budget, ReceiverType

\* A wipe also empties `fresh`, so only the core of ReceiverStep applies.
LEMMA WipeKeepsInv ==
  ASSUME SyncInv, NEW d \in Devices, Wipe(d)
  PROVE  SyncInv'
<1>. USE DEF SyncInv, TypeOK
<1>. DEFINE x == First(d).id
<1>1. page[d] # {} /\ step[d] = "emptied" /\ x \in Clears /\ x \in Ids
  BY SyncAssumption DEF Wipe, DeviceInv, PageInv, SyncAssumption
<1>2. /\ history' = [history EXCEPT ![d] = {}]
      /\ \E S \in SUBSET history[d] : taken' = [taken EXCEPT ![d] = @ \cup S]
      /\ fresh' = [fresh EXCEPT ![d] = {}]
      /\ applied' = [applied EXCEPT ![d] = @ \cup {x}]
      /\ step' = [step EXCEPT ![d] = "wiped"]
      /\ UNCHANGED <<page, next, serverVars, outbox, phase, work, upload, made, queued,
                     cancelled, saved, cursor, receipted, seen, cli, budget>>
  BY DEF Wipe
<1>. HIDE DEF x
<1>3. ReceiverType'
  BY <1>1, <1>2 DEF ReceiverType
<1>4. UNCHANGED <<items, lastSeq, saved, cursor, wire>>
  BY <1>2 DEF serverVars, storeVars
<1>5. DeviceInv(d)'
  <2>1. /\ page'[d] = page[d] /\ next'[d] = next[d] /\ seen'[d] = seen[d]
        /\ applied'[d] = applied[d] \cup {x} /\ receipted'[d] = receipted[d]
        /\ step'[d] = "wiped" /\ step[d] # "ask"
    BY <1>1, <1>2 DEF ReceiverType
  <2>2. First(d).id \in applied'[d] \cap Clears
    BY <1>1, <2>1 DEF x
  <2>. QED BY <1>1, <1>4, <2>1, <2>2, ItemStepKeepsDevice
<1>6. ServerType' /\ UploadType' /\ SenderType' /\ ProcessType'
  BY <1>2 DEF ServerType, UploadType, SenderType, ProcessType, serverVars,
              storeVars, budget
<1>7. RowsInv' /\ OwnWork'
  <2>1. \A e \in Devices : fresh'[e] \subseteq fresh[e]
    BY <1>2 DEF SenderType
  <2>. QED BY <1>2, <1>4, <2>1 DEF RowsInv, OwnWork
<1>8. ASSUME NEW e \in Devices PROVE DeviceInv(e)'
  BY <1>2, <1>4, <1>5, DeviceUnchanged DEF ReceiverType
<1>. QED BY <1>3, <1>6, <1>7, <1>8

LEMMA MoveCursorKeepsInv ==
  ASSUME SyncInv, NEW d \in Devices, MoveCursor(d)
  PROVE  SyncInv'
<1>. USE DEF SyncInv, TypeOK
<1>1. /\ page[d] = {} /\ step[d] = "page"
      /\ cursor' = [cursor EXCEPT ![d] = next[d]]
      /\ step' = [step EXCEPT ![d] = "moved"]
      /\ UNCHANGED <<page, next, serverVars, senderVars, history, taken, saved, applied,
                     receipted, seen, cli, budget>>
  BY DEF MoveCursor, historyVars
<1>2. ReceiverType'
  BY <1>1 DEF ReceiverType
<1>3. DeviceInv(d)'
  <2>1. UNCHANGED <<items, lastSeq, saved, page, next, applied, receipted, seen>>
    BY <1>1 DEF serverVars, storeVars
  <2>2. step'[d] = "moved" /\ cursor'[d] = next[d]
    BY <1>1 DEF ReceiverType
  <2>3. /\ saved[d] \in Nat /\ cursor[d] \in Nat /\ next[d] \in Nat
        /\ lastSeq \in Nat
    BY DEF ReceiverType, ServerType
  <2>. QED BY <1>1, <2>1, <2>2, <2>3 DEF DeviceInv, PageInv, Foreign, Done
<1>. QED BY <1>1, <1>2, <1>3, ReceiverStep
         DEF senderVars, budget, ReceiverType

\* Saving the cursor and giving up on a page both start over.
LEMMA NextPollKeepsInv ==
  ASSUME SyncInv, NEW d \in Devices, SaveCursor(d) \/ PageFails(d)
  PROVE  SyncInv'
<1>. USE DEF SyncInv, TypeOK
<1>1. /\ step' = [step EXCEPT ![d] = "ask"]
      /\ page' = [page EXCEPT ![d] = {}]
      /\ next' = [next EXCEPT ![d] = 0]
      /\ saved' = saved \/ saved' = [saved EXCEPT ![d] = cursor[d]]
      /\ faults' = faults \/ faults' = faults + 1
      /\ UNCHANGED <<serverVars, senderVars, history, taken, cursor, applied, receipted,
                     seen, cli, restarts>>
  <2>1. CASE SaveCursor(d)
    <3>1. next[d] = cursor[d]
      BY <2>1 DEF SaveCursor, DeviceInv, PageInv
    <3>. QED BY <2>1, <3>1 DEF SaveCursor, NextPoll, budget, historyVars
  <2>2. CASE PageFails(d)
    BY <2>2 DEF PageFails, NextPoll, OneFault, historyVars
  <2>. QED BY <2>1, <2>2
<1>2. ReceiverType'
  BY <1>1 DEF ReceiverType
<1>3. DeviceInv(d)'
  <2>1. UNCHANGED <<items, lastSeq, cursor, applied, receipted, seen>>
    BY <1>1 DEF serverVars, storeVars
  <2>2. /\ step'[d] = "ask" /\ page'[d] = {}
        /\ saved'[d] = saved[d] \/ saved'[d] = cursor[d]
    BY <1>1 DEF ReceiverType
  <2>. QED BY <2>1, <2>2 DEF DeviceInv, PageInv, Foreign, Done, ReceiverType
<1>. QED BY <1>1, <1>2, <1>3, ReceiverStep DEF senderVars, ReceiverType

\* A restart falls back to the cursor on disk, which is behind the one in
\* memory: everything up to it was done already.
LEMMA RestartKeepsInv ==
  ASSUME SyncInv, NEW d \in Devices, Restart(d)
  PROVE  SyncInv'
<1>. USE DEF SyncInv, TypeOK
<1>. DEFINE w == <<d, "daemon">>
<1>1. w \in Workers
  BY DEF Workers
<1>2. /\ restarts' = restarts + 1 /\ faults' = faults
      /\ fresh' = [fresh EXCEPT ![d] = {}]
      /\ seen' = [seen EXCEPT ![d] = {}]
      /\ cursor' = [cursor EXCEPT ![d] = saved[d]]
      /\ phase' = [phase EXCEPT ![d] = "loop"]
      /\ work' = [work EXCEPT ![d] = {}]
      /\ upload' = [upload EXCEPT ![w] = [id |-> NoId, try |-> 0,
                                          answered |-> FALSE]]
      /\ step' = [step EXCEPT ![d] = "ask"]
      /\ page' = [page EXCEPT ![d] = {}]
      /\ next' = [next EXCEPT ![d] = 0]
      /\ UNCHANGED <<serverVars, outbox, made, queued, cancelled, history, taken, saved,
                     applied, receipted, cli>>
  BY DEF Restart, NextPoll, Idle, historyVars
<1>. HIDE DEF w
<1>3. UploadType'
  <2>1. NoId \in Ids \cup {NoId} /\ 0 \in 0..Attempts /\ FALSE \in BOOLEAN
    BY SyncAssumption DEF SyncAssumption
  <2>. QED BY <1>1, <1>2, <2>1, UploadTypeKeeps
<1>4. ServerType' /\ SenderType' /\ ProcessType'
  BY <1>2 DEF ServerType, SenderType, ProcessType, serverVars, storeVars
<1>5. ReceiverType'
  BY <1>2 DEF ReceiverType
<1>6. UNCHANGED <<items, lastSeq, wire>>
  BY <1>2 DEF serverVars, storeVars
<1>7. RowsInv' /\ OwnWork'
  <2>1. \A e \in Devices : fresh'[e] \subseteq fresh[e] /\ work'[e] \subseteq work[e]
    BY <1>2 DEF SenderType
  <2>2. \A v \in Workers : upload'[v].id # NoId => Author[upload'[v].id] = v[1]
    BY <1>2 DEF UploadType, OwnWork
  <2>. QED BY <1>2, <1>6, <2>1, <2>2 DEF RowsInv, OwnWork
<1>8. ASSUME NEW e \in Devices PROVE DeviceInv(e)'
  <2>1. CASE e # d
    BY <1>2, <1>6, <2>1, DeviceUnchanged DEF ReceiverType
  <2>2. CASE e = d
    <3>1. /\ seen'[d] = {} /\ cursor'[d] = saved[d] /\ step'[d] = "ask"
          /\ page'[d] = {} /\ UNCHANGED <<saved, applied, receipted>>
      BY <1>2 DEF ReceiverType
    <3>2. saved[d] \in Nat /\ cursor[d] \in Nat
      BY DEF ReceiverType
    <3>3. \A i \in Foreign(d) : i.seq <= saved[d] => Done(d, i.id)
      BY <3>2 DEF DeviceInv, Foreign, ServerType, Item
    <3>. QED BY <1>6, <2>2, <3>1, <3>2, <3>3
             DEF DeviceInv, PageInv, Foreign, Done, ServerType
  <2>. QED BY <2>1, <2>2
<1>. QED BY <1>3, <1>4, <1>5, <1>7, <1>8
-----------------------------------------------------------------------------
LEMMA NextKeepsInv == SyncInv /\ [Next]_vars => SyncInv'
<1>. SUFFICES ASSUME SyncInv, [Next]_vars PROVE SyncInv'
  OBVIOUS
<1>1. ASSUME NEW r \in wire, NEW heard \in BOOLEAN, ServerTakes(r, heard)
      PROVE  SyncInv'
  BY <1>1, ServerTakesKeepsInv
<1>2. ASSUME NEW w \in Workers, GivesUp(w) \/ RemoveSent(w) \/ RemoveFails(w)
      PROVE  SyncInv'
  BY <1>2, GivesUpKeepsInv, RemoveSentKeepsInv, RemoveFailsKeepsInv
<1>3. ASSUME NEW d \in Devices, NEW id \in Ids, Copy(d, id) \/ CliSends(d, id)
      PROVE  SyncInv'
  BY <1>3, CopyKeepsInv, CliSendsKeepsInv
<1>4. ASSUME NEW d \in Devices,
             \/ Flush(d) \/ FlushNext(d) \/ Poll(d)
             \/ SendNext(d) \/ SendFails(d) \/ SendsDone(d)
      PROVE  SyncInv'
  BY <1>4, SenderKeepsInv, FlushNextKeepsInv, SendKeepsInv
<1>5. ASSUME NEW d \in Devices,
             \/ Fetch(d) \/ Skip(d) \/ Save(d) \/ Acknowledge(d)
             \/ CancelQueued(d) \/ Wipe(d) \/ NoteClear(d)
             \/ MoveCursor(d) \/ SaveCursor(d) \/ PageFails(d)
      PROVE  SyncInv'
  BY <1>5, FetchKeepsInv, SkipKeepsInv, SaveKeepsInv, AcknowledgeKeepsInv,
     CancelQueuedKeepsInv, WipeKeepsInv, NoteClearKeepsInv, MoveCursorKeepsInv,
     NextPollKeepsInv
<1>6. ASSUME NEW d \in Devices,
             \/ CliCancels(d) \/ CliWipes(d) \/ CliDeletes(d) \/ CliFails(d)
             \/ Restart(d)
      PROVE  SyncInv'
  BY <1>6, CliKeepsInv, CliDeletesKeepsInv, RestartKeepsInv
<1>7. CASE UNCHANGED vars
  <2>1. UNCHANGED <<items, lastSeq, now, wire, firstSeq, storedAt, outbox, fresh, phase,
                    work, upload, made, queued, cancelled, history, taken, saved, cursor, step,
                    page, next, applied, receipted, seen, cli, restarts, faults>>
    BY <1>7 DEF vars, serverVars, storeVars, senderVars, receiverVars, historyVars, pageVars,
                budget
  <2>2. TypeOK'
    BY <2>1 DEF SyncInv, TypeOK, ServerType, UploadType, SenderType, ReceiverType,
                ProcessType
  <2>3. OwnWork'
    BY <2>1 DEF SyncInv, OwnWork
  <2>4. UNCHANGED coreVars
    BY <2>1 DEF coreVars, pageVars
  <2>. QED BY <2>2, <2>3, <2>4, CoreUnchanged DEF SyncInv
<1>8. ASSUME Next PROVE SyncInv'
  BY <1>8, <1>1, <1>2, <1>3, <1>4, <1>5, <1>6, ZenonT(60) DEF Next
<1>. QED BY <1>7, <1>8

\* Types, ownership of queued work, and what each device's cursors and page
\* stand for: the receiving thread, whatever fails or restarts, never counts
\* an item as handled before it is.
THEOREM SyncInvariant == Spec => []SyncInv
<1>1. Init => SyncInv
  BY InitSyncInv
<1>2. SyncInv /\ [Next]_vars => SyncInv'
  BY NextKeepsInv
<1>. QED BY <1>1, <1>2, PTL DEF Spec

\* The cursor in sync.json only passes items that are in the history with
\* their receipt queued, or clears that were carried out.
THEOREM CursorIsDurable == Spec => []DurableBeforeCursor
<1>1. SyncInv => DurableBeforeCursor
  <2>. SUFFICES ASSUME SyncInv, NEW d \in Devices, NEW i \in Foreign(d),
                       i.seq <= saved[d]
                PROVE  Done(d, i.id)
    BY DEF DurableBeforeCursor
  <2>1. i.seq \in Nat /\ saved[d] \in Nat /\ cursor[d] \in Nat
    BY DEF SyncInv, TypeOK, ServerType, ReceiverType, Foreign, Item
  <2>2. i.seq <= cursor[d]
    BY <2>1 DEF SyncInv, DeviceInv
  <2>. QED BY <2>2 DEF SyncInv, DeviceInv
<1>. QED BY <1>1, SyncInvariant, PTL

-----------------------------------------------------------------------------
(* The outbox: what is queued is only let go for a reason. *)

\* Whoever has an answer has it from a server that stored the item.
QueueInv ==
  /\ QueuedIsSafe
  /\ \A w \in Workers : upload[w].answered => upload[w].id \in Posted

\* What a step must not do to the queue: forget what the server has or a clear
\* took, take a file for neither reason, or hear of what was not stored.
QueueStep ==
  /\ Posted \subseteq Posted' /\ cancelled \subseteq cancelled'
  /\ \A d \in Devices : outbox[d] \subseteq outbox'[d] \cup Posted' \cup cancelled'
  /\ queued' \subseteq queued \cup UNION {outbox'[d] : d \in Devices}
  /\ \A w \in Workers : \/ upload'[w] = upload[w]
                        \/ ~ upload'[w].answered
                        \/ upload'[w].id \in Posted'

LEMMA QueueStepKeeps ==
  ASSUME QueueInv, QueueStep
  PROVE  QueueInv'
<1>1. QueuedIsSafe'
  <2>. SUFFICES ASSUME NEW id \in queued', id \notin Posted', id \notin cancelled'
                PROVE  \E d \in Devices : id \in outbox'[d]
    BY DEF QueuedIsSafe
  <2>1. CASE id \in queued
    <3>1. PICK d \in Devices : id \in outbox[d]
      BY <2>1 DEF QueueInv, QueuedIsSafe, QueueStep
    <3>. QED BY <3>1 DEF QueueStep
  <2>. QED BY <2>1 DEF QueueStep
<1>2. \A w \in Workers : upload'[w].answered => upload'[w].id \in Posted'
  BY DEF QueueInv, QueueStep
<1>. QED BY <1>1, <1>2 DEF QueueInv

LEMMA QueueStill ==
  ASSUME UNCHANGED <<outbox, queued, cancelled, firstSeq, upload>>
  PROVE  QueueStep
  BY DEF QueueStep, Posted

LEMMA AnswerIsPosted ==
  ASSUME TypeOK, NEW r \in wire, NEW heard \in BOOLEAN, ServerTakes(r, heard), lastSeq' # 0
  PROVE  QueueStep
<1>1. /\ r.id \in Ids /\ r.from \in Workers
      /\ firstSeq' = [firstSeq EXCEPT ![r.id] = IF @ = 0 THEN lastSeq' ELSE @]
      /\ \/ upload' = upload
         \/ upload' = [upload EXCEPT ![r.from] = [id |-> r.id, try |-> r.try,
                                                  answered |-> TRUE]]
      /\ UNCHANGED <<outbox, queued, cancelled>>
  BY DEF ServerTakes, TypeOK, ServerType
<1>2. Posted \subseteq Posted' /\ r.id \in Posted'
  BY <1>1 DEF Posted, TypeOK, ServerType
<1>3. \A w \in Workers : upload'[w] = upload[w] \/ upload'[w].id \in Posted'
  BY <1>1, <1>2 DEF TypeOK, UploadType
<1>. QED BY <1>1, <1>2, <1>3 DEF QueueStep

LEMMA GivingUpIsNoAnswer ==
  ASSUME TypeOK, NEW w \in Workers, GivesUp(w) \/ RemoveFails(w)
  PROVE  QueueStep
<1>1. /\ UNCHANGED <<outbox, queued, cancelled, firstSeq>>
      /\ \/ upload' = [upload EXCEPT ![w] = [id |-> @.id, try |-> @.try + 1,
                                             answered |-> FALSE]]
         \/ upload' = [upload EXCEPT ![w] = Idle]
  BY DEF GivesUp, RemoveFails, UploadFails, serverVars
<1>2. Posted' = Posted
  BY <1>1 DEF Posted
<1>3. \A v \in Workers : upload'[v] = upload[v] \/ ~ upload'[v].answered
  BY <1>1 DEF TypeOK, UploadType, Idle
<1>. QED BY <1>1, <1>2, <1>3 DEF QueueStep

LEMMA SentIsPosted ==
  ASSUME TypeOK, QueueInv, NEW w \in Workers, RemoveSent(w)
  PROVE  QueueStep
<1>1. /\ upload[w].answered
      /\ outbox' = [outbox EXCEPT ![w[1]] = @ \ {upload[w].id}]
      /\ upload' = [upload EXCEPT ![w] = Idle]
      /\ UNCHANGED <<firstSeq, queued, cancelled>>
  BY DEF RemoveSent, Answered, serverVars
<1>2. Posted' = Posted /\ upload[w].id \in Posted
  BY <1>1 DEF Posted, QueueInv
<1>3. \A d \in Devices : outbox[d] \subseteq outbox'[d] \cup {upload[w].id}
  BY <1>1 DEF TypeOK, SenderType
<1>4. \A v \in Workers : upload'[v] = upload[v] \/ ~ upload'[v].answered
  BY <1>1 DEF TypeOK, UploadType, Idle
<1>. QED BY <1>1, <1>2, <1>3, <1>4 DEF QueueStep

LEMMA EnqueuedIsInOutbox ==
  ASSUME TypeOK, NEW d \in Devices, NEW id, NEW w \in Workers,
         Enqueue(d, id) \/ UNCHANGED <<outbox, queued>>,
         StartUpload(w, id) \/ UNCHANGED upload,
         UNCHANGED <<firstSeq, cancelled>>
  PROVE  QueueStep
<1>1. Posted' = Posted
  BY DEF Posted
<1>2. /\ \A e \in Devices : outbox[e] \subseteq outbox'[e]
      /\ queued' \subseteq queued \cup outbox'[d]
  BY DEF Enqueue, TypeOK, SenderType
<1>3. \A v \in Workers : upload'[v] = upload[v] \/ ~ upload'[v].answered
  BY DEF StartUpload, TypeOK, UploadType
<1>. QED BY <1>1, <1>2, <1>3 DEF QueueStep

LEMMA ClearCancels ==
  ASSUME TypeOK, NEW d \in Devices, CancelQueued(d) \/ CliCancels(d)
  PROVE  QueueStep
<1>1. /\ outbox' = [outbox EXCEPT ![d] = {}] /\ cancelled' = cancelled \cup outbox[d]
      /\ UNCHANGED <<firstSeq, queued, upload>>
  BY DEF CancelQueued, CliCancels, serverVars
<1>2. Posted' = Posted
  BY <1>1 DEF Posted
<1>3. \A e \in Devices : outbox[e] \subseteq outbox'[e] \cup cancelled'
  BY <1>1 DEF TypeOK, SenderType
<1>. QED BY <1>1, <1>2, <1>3 DEF QueueStep

LEMMA RestartKeepsOutbox ==
  ASSUME TypeOK, NEW d \in Devices, Restart(d)
  PROVE  QueueStep
<1>1. /\ upload' = [upload EXCEPT ![<<d, "daemon">>] = Idle]
      /\ UNCHANGED <<firstSeq, queued, cancelled, outbox>>
  BY DEF Restart, serverVars
<1>2. Posted' = Posted
  BY <1>1 DEF Posted
<1>3. \A v \in Workers : upload'[v] = upload[v] \/ ~ upload'[v].answered
  BY <1>1 DEF TypeOK, UploadType, Idle
<1>. QED BY <1>1, <1>2, <1>3 DEF QueueStep

\* A seq is never 0: AUTOINCREMENT starts at 1, and a row that is there has one.
LEMMA SeqIsNotZero ==
  ASSUME SyncInv, NEW r \in wire, NEW heard \in BOOLEAN, ServerTakes(r, heard)
  PROVE  lastSeq' # 0
<1>1. lastSeq \in Nat /\ \A i \in items : i.seq \in Nat \ {0} /\ i.seq <= lastSeq
  BY DEF SyncInv, TypeOK, ServerType, RowsInv, Item
<1>. QED BY <1>1 DEF ServerTakes, AddItem, Stored, NextSeq

LEMMA NextIsQueueStep ==
  ASSUME SyncInv, QueueInv, [Next]_vars
  PROVE  QueueStep
<1>. USE DEF SyncInv
<1>1. ASSUME NEW r \in wire, NEW heard \in BOOLEAN, ServerTakes(r, heard)
      PROVE  QueueStep
  BY <1>1, SeqIsNotZero, AnswerIsPosted
<1>2. ASSUME NEW w \in Workers, GivesUp(w) \/ RemoveSent(w) \/ RemoveFails(w)
      PROVE  QueueStep
  BY <1>2, GivingUpIsNoAnswer, SentIsPosted
<1>3. ASSUME NEW d \in Devices, NEW id \in Ids, Copy(d, id) \/ CliSends(d, id)
      PROVE  QueueStep
  <2>1. CASE Copy(d, id)
    BY <2>1, QueueStill DEF Copy, serverVars
  <2>2. CASE CliSends(d, id)
    <3>1. <<d, "cli">> \in Workers
      BY DEF Workers
    <3>. QED BY <2>2, <3>1, EnqueuedIsInOutbox DEF CliSends
  <2>. QED BY <1>3, <2>1, <2>2
<1>4. ASSUME NEW d \in Devices,
             Flush(d) \/ FlushNext(d) \/ Poll(d) \/ SendNext(d) \/ SendFails(d) \/ SendsDone(d)
      PROVE  QueueStep
  <2>1. <<d, "daemon">> \in Workers
    BY DEF Workers
  <2>2. CASE Flush(d) \/ Poll(d) \/ SendsDone(d)
    BY <2>2, QueueStill DEF Flush, Poll, SendsDone, serverVars
  <2>3. CASE FlushNext(d)
    <3>1. StartUpload(<<d, "daemon">>, Earliest(work[d])) \/ UNCHANGED upload
      BY <2>3 DEF FlushNext
    <3>. QED BY <2>1, <2>3, <3>1, EnqueuedIsInOutbox DEF FlushNext
  <2>4. CASE SendNext(d)
    BY <2>1, <2>4, EnqueuedIsInOutbox DEF SendNext
  <2>5. CASE SendFails(d)
    BY <2>1, <2>5, EnqueuedIsInOutbox DEF SendFails, serverVars
  <2>. QED BY <1>4, <2>2, <2>3, <2>4, <2>5
<1>5. ASSUME NEW d \in Devices,
             \/ Fetch(d) \/ Skip(d) \/ Save(d) \/ Acknowledge(d) \/ Wipe(d) \/ NoteClear(d)
             \/ MoveCursor(d) \/ SaveCursor(d) \/ PageFails(d)
             \/ CliWipes(d) \/ CliDeletes(d) \/ CliFails(d)
      PROVE  QueueStep
  <2>1. UNCHANGED <<outbox, queued, cancelled, firstSeq, upload>>
    BY <1>5 DEF Fetch, Skip, Save, Acknowledge, Wipe, NoteClear, MoveCursor, SaveCursor,
                PageFails, CliWipes, CliDeletes, CliFails, serverVars, senderVars
  <2>. QED BY <2>1, QueueStill
<1>6. ASSUME NEW d \in Devices, CancelQueued(d) \/ CliCancels(d) \/ Restart(d)
      PROVE  QueueStep
  BY <1>6, ClearCancels, RestartKeepsOutbox
<1>7. CASE UNCHANGED vars
  BY <1>7, QueueStill DEF vars, serverVars, senderVars
<1>8. ASSUME Next PROVE QueueStep
  BY <1>8, <1>1, <1>2, <1>3, <1>4, <1>5, <1>6, ZenonT(60) DEF Next
<1>. QED BY <1>7, <1>8

\* No retry, skipped file, failed call or restart loses what was queued: it is
\* in an outbox until the server has it or a clear has taken it away.
THEOREM QueuedIsNotLost == Spec => []QueuedIsSafe
<1>1. Init => QueueInv
  BY DEF Init, QueueInv, QueuedIsSafe, Idle
<1>2. SyncInv /\ QueueInv /\ [Next]_vars => QueueInv'
  BY NextIsQueueStep, QueueStepKeeps
<1>3. QueueInv => QueuedIsSafe
  BY DEF QueueInv
<1>. QED BY <1>1, <1>2, <1>3, SyncInvariant, PTL DEF Spec

-----------------------------------------------------------------------------
(* Clears: what a device has cleared away does not come back. *)

\* What is to be sent, was sent or is stored exists.
Placed ==
  {id \in Ids : \/ \E d \in Devices : id \in fresh[d] \cup outbox[d] \cup work[d]
                \/ \E w \in Workers : upload[w].id = id
                \/ \E r \in wire : r.id = id
                \/ firstSeq[id] # 0}

MadeInv == \A id \in Placed : made[id] # 0

\* An id was first stored at the seq of its row or before, was last stored at
\* that seq or after it, and has one row.
StoredInv ==
  /\ \A id \in Ids : /\ firstSeq[id] <= lastSeq /\ storedAt[id] <= lastSeq
                     /\ firstSeq[id] = 0 => storedAt[id] = 0
  /\ \A i \in items : /\ firstSeq[i.id] # 0 /\ firstSeq[i.id] <= i.seq
                      /\ i.seq <= storedAt[i.id]
  /\ \A i, j \in items : i.account = j.account /\ i.id = j.id => i = j

\* The rows still to handle lie after the cursor in memory; of rows the server
\* has, what is not among them and not behind that cursor has been handled.
RestInv(d) ==
  /\ \A p \in page[d] : /\ p.account = AccountOf[d]
                        /\ cursor[d] < p.seq /\ p.seq <= next[d]
                        /\ firstSeq[p.id] # 0 /\ firstSeq[p.id] <= p.seq
                        /\ p.seq <= storedAt[p.id]
  /\ \A p \in page[d], i \in items :
        i.account = p.account /\ i.id = p.id => i = p \/ p.seq < i.seq
  /\ step[d] = "ask" => page[d] = {}
  /\ step[d] # "ask" => \A i \in Foreign(d) :
        i.seq <= next[d] => i \in page[d] \/ i.seq <= cursor[d] \/ i.id \in seen[d]
  /\ \A id \in seen[d] : Author[id] = d \/ firstSeq[id] # 0

\* Rows from before another device's item that was seen are passed or seen.
OrderInv(d) ==
  \A y \in seen[d], i \in Foreign(d) \cup page[d] :
    Author[y] # d /\ i.seq < firstSeq[y] => i.seq <= cursor[d] \/ i.id \in seen[d]

\* The device has handled this item of another, or has gone past it for good.
Past(d, x) ==
  \/ x \in seen[d] /\ Author[x] # d
  \/ \E i \in Foreign(d) : i.id = x /\ i.seq <= cursor[d]

\* The clear has emptied the history, if it is not past yet.
Gone(d, x) == Past(d, x) \/ (step[d] = "wiped" /\ x = First(d).id)

\* What was last stored before such a clear is not in the history.
WipedInv(d) ==
  \A x \in Clears, id \in Ids :
    Gone(d, x) /\ 0 < storedAt[id] /\ storedAt[id] < firstSeq[x] => id \notin history[d]

\* What the device is past is in the history or was taken by a clear; the item
\* it is at has not been seen.
TakenInv(d) ==
  /\ \A id \in Ids \ Clears : Past(d, id) => id \in history[d] \cup taken[d]
  /\ step[d] = "kept" => First(d).id \in history[d] \cup taken[d]
  /\ step[d] \in {"kept", "emptied", "wiped"} => First(d).id \notin seen[d]

DeviceClears(d) == RestInv(d) /\ OrderInv(d) /\ WipedInv(d) /\ TakenInv(d)

ClearsInv == MadeInv /\ StoredInv /\ \A d \in Devices : DeviceClears(d)

LEMMA StampMakes ==
  ASSUME made \in [Ids -> Nat], NEW id \in Ids, Stamp(id)
  PROVE  made'[id] # 0 /\ \A i \in Ids : made[i] # 0 => made'[i] # 0
<1>1. IsFiniteSet({i \in Ids : made[i] # 0})
  BY SyncAssumption, FS_Subset DEF SyncAssumption
<1>2. Cardinality({i \in Ids : made[i] # 0}) \in Nat
  BY <1>1, FS_CardinalityType
<1>. QED BY <1>2 DEF Stamp

\* A step puts nothing anywhere that was nowhere before, a stamp apart.
LEMMA PlacedIsMade ==
  ASSUME MadeInv, Placed' \subseteq Placed \cup {id \in Ids : made'[id] # 0},
         \A id \in Ids : made[id] # 0 => made'[id] # 0
  PROVE  MadeInv'
  BY DEF MadeInv, Placed

LEMMA NothingPlaced ==
  ASSUME MadeInv,
         \A d \in Devices : /\ fresh'[d] \subseteq fresh[d] \cup outbox[d] \cup work[d]
                            /\ outbox'[d] \subseteq fresh[d] \cup outbox[d] \cup work[d]
                            /\ work'[d] \subseteq fresh[d] \cup outbox[d] \cup work[d],
         \A w \in Workers : upload'[w].id \in Placed \cup {NoId},
         \A r \in wire' : r.id \in Placed,
         \A id \in Ids : firstSeq'[id] # 0 => id \in Placed,
         UNCHANGED made
  PROVE  MadeInv'
<1>1. Placed' \subseteq Placed
  BY SyncAssumption DEF Placed, SyncAssumption
<1>. QED BY <1>1 DEF MadeInv

LEMMA UploadsArePlaced ==
  ASSUME TypeOK
  PROVE  /\ \A w \in Workers : upload[w].id \in Placed \cup {NoId}
         /\ \A r \in wire : r.id \in Placed
         /\ \A id \in Ids : firstSeq[id] # 0 => id \in Placed
         /\ \A d \in Devices : work[d] \subseteq Placed /\ outbox[d] \subseteq Placed
  BY DEF TypeOK, UploadType, ServerType, SenderType, Placed

LEMMA StartedIsPlaced ==
  ASSUME TypeOK, NEW w \in Workers, NEW id \in Placed,
         StartUpload(w, id) \/ UNCHANGED <<upload, wire>>
  PROVE  /\ \A v \in Workers : upload'[v].id \in Placed \cup {NoId}
         /\ \A r \in wire' : r.id \in Placed
  BY UploadsArePlaced DEF StartUpload, Request, TypeOK, UploadType, ServerType

LEMMA NextKeepsMade ==
  ASSUME SyncInv, MadeInv, [Next]_vars
  PROVE  MadeInv'
<1>. USE DEF SyncInv, TypeOK
<1>1. ASSUME NEW r \in wire, NEW heard \in BOOLEAN, ServerTakes(r, heard)
      PROVE  MadeInv'
  <2>1. /\ r.id \in Placed /\ r.id \in Ids
        /\ wire' \subseteq wire
        /\ firstSeq' = [firstSeq EXCEPT ![r.id] = IF @ = 0 THEN lastSeq' ELSE @]
        /\ \/ upload' = upload
           \/ upload' = [upload EXCEPT ![r.from] = [id |-> r.id, try |-> r.try,
                                                    answered |-> TRUE]]
        /\ UNCHANGED <<outbox, fresh, work, made>>
    BY <1>1, UploadsArePlaced DEF ServerTakes, ServerType
  <2>2. \A id \in Ids : firstSeq'[id] # 0 => id \in Placed
    BY <2>1, UploadsArePlaced DEF ServerType
  <2>3. \A w \in Workers : upload'[w].id \in Placed \cup {NoId}
    BY <2>1, UploadsArePlaced DEF UploadType
  <2>. QED BY <2>1, <2>2, <2>3, UploadsArePlaced, NothingPlaced
<1>2. ASSUME NEW w \in Workers, GivesUp(w) \/ RemoveSent(w) \/ RemoveFails(w)
      PROVE  MadeInv'
  <2>1. upload[w].id \in Placed \cup {NoId} /\ (GivesUp(w) => upload[w].id \in Placed)
    BY UploadsArePlaced DEF GivesUp, Waiting
  <2>2. /\ \A r \in wire' : r.id \in Placed
        /\ \/ upload' = [upload EXCEPT ![w] = Idle]
           \/ upload' = [upload EXCEPT ![w] = [id |-> @.id, try |-> @.try + 1,
                                               answered |-> FALSE]]
        /\ UNCHANGED <<fresh, made, firstSeq>>
        /\ outbox' = outbox \/ outbox' = [outbox EXCEPT ![w[1]] = @ \ {upload[w].id}]
        /\ \/ work' = work
           \/ work' = [work EXCEPT ![w[1]] = {}]
           \/ work' = [work EXCEPT ![w[1]] = work[w[1]]]
    BY <1>2, <2>1, UploadsArePlaced
       DEF GivesUp, RemoveSent, RemoveFails, UploadFails, Request, serverVars
  <2>3. \A v \in Workers : upload'[v].id \in Placed \cup {NoId}
    BY <2>1, <2>2, UploadsArePlaced DEF UploadType, Idle
  <2>4. \A d \in Devices : outbox'[d] \subseteq outbox[d] /\ work'[d] \subseteq work[d]
    BY <2>2 DEF SenderType
  <2>. QED BY <2>2, <2>3, <2>4, UploadsArePlaced, NothingPlaced
<1>3. ASSUME NEW d \in Devices, NEW id \in Ids, Copy(d, id) \/ CliSends(d, id)
      PROVE  MadeInv'
  <2>1. made'[id] # 0 /\ \A i \in Ids : made[i] # 0 => made'[i] # 0
    BY <1>3, StampMakes DEF Copy, CliSends, SenderType
  <2>2. /\ \A e \in Devices : fresh'[e] \subseteq fresh[e] \cup {id}
                              /\ outbox'[e] \subseteq outbox[e] \cup {id}
        /\ UNCHANGED <<work, firstSeq>>
    BY <1>3 DEF Copy, CliSends, Enqueue, SenderType, serverVars
  <2>3. /\ \A w \in Workers : upload'[w] = upload[w] \/ upload'[w].id = id
        /\ \A r \in wire' : r \in wire \/ r.id = id
    <3>1. CASE Copy(d, id)
      BY <3>1 DEF Copy, serverVars
    <3>2. CASE CliSends(d, id)
      BY <3>2 DEF CliSends, StartUpload, Request, UploadType
    <3>. QED BY <1>3, <3>1, <3>2
  <2>4. Placed' \subseteq Placed \cup {id}
    BY <2>2, <2>3 DEF Placed
  <2>. QED BY <2>1, <2>4, PlacedIsMade
<1>4. ASSUME NEW d \in Devices, FlushNext(d) \/ SendNext(d) \/ SendFails(d)
      PROVE  MadeInv'
  <2>. DEFINE id == Earliest(work[d])
  <2>1. id \in work[d] /\ id \in Placed
    <3>1. work[d] \in SUBSET Ids /\ work[d] # {}
      BY <1>4 DEF SenderType, FlushNext, SendNext, SendFails
    <3>2. id \in work[d]
      BY <3>1, EarliestIsMember DEF SenderType
    <3>. QED BY <3>2, UploadsArePlaced
  <2>2. /\ work' = [work EXCEPT ![d] = @ \ {id}]
        /\ outbox' = outbox \/ outbox' = [outbox EXCEPT ![d] = @ \cup {id}]
        /\ StartUpload(<<d, "daemon">>, id) \/ UNCHANGED <<upload, wire>>
        /\ UNCHANGED <<fresh, made, firstSeq>>
    BY <1>4 DEF FlushNext, SendNext, SendFails, Enqueue, serverVars
  <2>. HIDE DEF id
  <2>3. <<d, "daemon">> \in Workers
    BY DEF Workers
  <2>4. /\ \A v \in Workers : upload'[v].id \in Placed \cup {NoId}
        /\ \A r \in wire' : r.id \in Placed
    BY <2>1, <2>2, <2>3, StartedIsPlaced
  <2>5. \A e \in Devices : /\ fresh'[e] = fresh[e] /\ work'[e] \subseteq work[e]
                           /\ outbox'[e] \subseteq outbox[e] \cup work[e]
    BY <2>1, <2>2 DEF SenderType
  <2>. QED BY <2>2, <2>4, <2>5, UploadsArePlaced, NothingPlaced
<1>5. ASSUME NEW d \in Devices,
             \/ Flush(d) \/ Poll(d) \/ SendsDone(d)
             \/ Fetch(d) \/ Skip(d) \/ Save(d) \/ Acknowledge(d)
             \/ CancelQueued(d) \/ Wipe(d) \/ NoteClear(d)
             \/ MoveCursor(d) \/ SaveCursor(d) \/ PageFails(d)
             \/ CliCancels(d) \/ CliWipes(d) \/ CliDeletes(d) \/ CliFails(d) \/ Restart(d)
      PROVE  MadeInv'
  <2>1. /\ UNCHANGED <<wire, firstSeq, made>>
        /\ fresh' = fresh \/ fresh' = [fresh EXCEPT ![d] = {}]
        /\ outbox' = outbox \/ outbox' = [outbox EXCEPT ![d] = {}]
        /\ \/ work' = work \/ work' = [work EXCEPT ![d] = outbox[d]]
           \/ work' = [work EXCEPT ![d] = fresh[d]]
           \/ work' = [work EXCEPT ![d] = {}]
        /\ upload' = upload \/ upload' = [upload EXCEPT ![<<d, "daemon">>] = Idle]
    BY <1>5 DEF Flush, Poll, SendsDone, Fetch, Skip, Save, Acknowledge, CancelQueued, Wipe,
                NoteClear, MoveCursor, SaveCursor, PageFails, CliCancels, CliWipes, CliDeletes, CliFails,
                Restart, serverVars, senderVars
  <2>2. \A e \in Devices : /\ fresh'[e] \subseteq fresh[e] /\ outbox'[e] \subseteq outbox[e]
                           /\ work'[e] \subseteq fresh[e] \cup outbox[e] \cup work[e]
    BY <2>1 DEF SenderType
  <2>3. \A v \in Workers : upload'[v].id \in Placed \cup {NoId}
    BY <2>1, UploadsArePlaced DEF UploadType, Idle
  <2>. QED BY <2>1, <2>2, <2>3, UploadsArePlaced, NothingPlaced
<1>6. CASE UNCHANGED vars
  BY <1>6 DEF vars, serverVars, senderVars, MadeInv, Placed
<1>7. ASSUME Next PROVE MadeInv'
  BY <1>7, <1>1, <1>2, <1>3, <1>4, <1>5, ZenonT(60) DEF Next
<1>. QED BY <1>6, <1>7

\* A device that keeps its page and its marks, or has seen more of its own,
\* while the server keeps its rows, or fewer. What is new in its history was
\* never stored, and what left it is accounted for.
LEMMA RestStill ==
  ASSUME NEW d \in Devices, DeviceClears(d), \A p \in page[d] : Author[p.id] # d,
         step[d] \in {"kept", "emptied", "wiped"} => First(d) \in page[d],
         items' \subseteq items, UNCHANGED <<firstSeq, storedAt>>,
         page'[d] = page[d], next'[d] = next[d], step'[d] = step[d],
         cursor'[d] = cursor[d], seen[d] \subseteq seen'[d],
         \A id \in seen'[d] : id \in seen[d] \/ Author[id] = d,
         \A id \in history'[d] : id \in history[d] \/ storedAt[id] = 0,
         history[d] \cup taken[d] \subseteq history'[d] \cup taken'[d]
  PROVE  DeviceClears(d)'
<1>. USE DEF DeviceClears
<1>1. RestInv(d)'
  BY DEF RestInv, Foreign
<1>2. \A x : Past(d, x)' => Past(d, x)
  BY DEF Past, Foreign
<1>3. First(d)' = First(d)
  BY DEF First
<1>4. OrderInv(d)'
  BY DEF OrderInv, Foreign
<1>5. WipedInv(d)'
  BY <1>2, <1>3 DEF WipedInv, Gone
<1>6. TakenInv(d)'
  BY <1>2, <1>3 DEF TakenInv
<1>. QED BY <1>1, <1>4, <1>5, <1>6

LEMMA FirstIsLowest ==
  ASSUME SyncInv, NEW d \in Devices, page[d] # {}
  PROVE  First(d) \in page[d] /\ \A j \in page[d] : First(d).seq <= j.seq
<1>. DEFINE P == page[d]
            T == {i.seq : i \in P}
<1>1. T \in SUBSET Nat /\ T # {}
  BY DEF SyncInv, TypeOK, ReceiverType, Item
<1>2. PICK x \in T : \A y \in T : x <= y
  BY <1>1, LeastNatural
<1>3. \E i \in P : \A j \in P : i.seq <= j.seq
  BY <1>2
<1>. QED BY <1>3 DEF First

\* What the proofs know of a device's page and marks.
LEMMA ReceiverFacts ==
  ASSUME SyncInv, ClearsInv, NEW d \in Devices
  PROVE  /\ DeviceClears(d) /\ StoredInv /\ DeviceInv(d) /\ PageInv(d)
         /\ cursor[d] \in Nat /\ next[d] \in Nat /\ saved[d] \in Nat /\ lastSeq \in Nat
         /\ page[d] \subseteq Item /\ \A p \in page[d] : p.seq \in Nat /\ p.id \in Ids
         /\ \A i \in items : /\ i.seq \in Nat /\ i.id \in Ids /\ firstSeq[i.id] \in Nat
                             /\ Author[i.id] = i.device
         /\ Clears \subseteq Ids /\ firstSeq \in [Ids -> Nat] /\ storedAt \in [Ids -> Nat]
         /\ history[d] \subseteq Ids /\ taken[d] \subseteq Ids /\ seen[d] \subseteq Ids
         /\ \A p \in page[d] : Author[p.id] # d
         /\ step[d] \in {"kept", "emptied", "wiped"} => First(d) \in page[d]
<1>1. DeviceInv(d) /\ PageInv(d)
  BY DEF SyncInv, DeviceInv
<1>2. step[d] \in {"kept", "emptied", "wiped"} => First(d) \in page[d]
  BY <1>1, FirstIsLowest DEF PageInv
<1>3. \A p \in page[d] : Author[p.id] # d
  BY <1>1 DEF PageInv
<1>. QED BY <1>1, <1>2, <1>3, SyncAssumption
         DEF SyncInv, ClearsInv, TypeOK, ReceiverType, ServerType, OwnWork, Item,
             SyncAssumption

\* Everything but the receiving threads and the server.
LEMMA OutsideKeepsClears ==
  ASSUME SyncInv, ClearsInv, MadeInv',
         \/ \E w \in Workers : GivesUp(w) \/ RemoveSent(w) \/ RemoveFails(w)
         \/ \E d \in Devices, id \in Ids : CliSends(d, id)
         \/ \E d \in Devices :
              \/ Flush(d) \/ FlushNext(d) \/ Poll(d) \/ SendsDone(d)
              \/ CliCancels(d) \/ CliWipes(d) \/ CliDeletes(d) \/ CliFails(d)
         \/ UNCHANGED vars
  PROVE  ClearsInv'
<1>1. /\ items' \subseteq items
      /\ UNCHANGED <<lastSeq, firstSeq, storedAt, page, next, step, cursor, seen>>
      /\ \/ history' = history /\ taken' = taken
         \/ \E d \in Devices : /\ history' = [history EXCEPT ![d] = {}]
                               /\ taken' = [taken EXCEPT ![d] = @ \cup history[d]]
  BY DEF GivesUp, RemoveSent, RemoveFails, UploadFails, CliSends, Flush, FlushNext, Poll,
         SendsDone, CliCancels, CliWipes, CliDeletes, CliFails, DeleteAll, vars, serverVars,
         storeVars, receiverVars, historyVars, pageVars
<1>2. \A e \in Devices : /\ history'[e] \subseteq history[e]
                         /\ history[e] \cup taken[e] \subseteq history'[e] \cup taken'[e]
  BY <1>1 DEF SyncInv, TypeOK, ReceiverType
<1>3. StoredInv'
  BY <1>1 DEF ClearsInv, StoredInv
<1>4. ASSUME NEW e \in Devices PROVE DeviceClears(e)'
  BY <1>1, <1>2, RestStill, ReceiverFacts
<1>. QED BY <1>3, <1>4 DEF ClearsInv

\* A new copy is not stored yet.
LEMMA CopyKeepsClears ==
  ASSUME SyncInv, ClearsInv, MadeInv', NEW d \in Devices, NEW id \in Ids, Copy(d, id)
  PROVE  ClearsInv'
<1>1. /\ made[id] = 0 /\ history' = [history EXCEPT ![d] = @ \cup {id}]
      /\ taken' = [taken EXCEPT ![d] = @ \ {id}]
      /\ UNCHANGED <<items, lastSeq, firstSeq, storedAt, page, next, step, cursor, seen>>
  BY DEF Copy, PutInHistory, serverVars, pageVars
<1>2. storedAt[id] = 0
  <2>1. firstSeq[id] = 0
    BY <1>1 DEF ClearsInv, MadeInv, Placed
  <2>. QED BY <2>1 DEF ClearsInv, StoredInv
<1>3. \A e \in Devices :
        /\ \A i \in history'[e] : i \in history[e] \/ storedAt[i] = 0
        /\ history[e] \cup taken[e] \subseteq history'[e] \cup taken'[e]
  BY <1>1, <1>2 DEF SyncInv, TypeOK, ReceiverType
<1>4. StoredInv'
  BY <1>1 DEF ClearsInv, StoredInv
<1>5. ASSUME NEW e \in Devices PROVE DeviceClears(e)'
  BY <1>1, <1>3, RestStill, ReceiverFacts
<1>. QED BY <1>4, <1>5 DEF ClearsInv

LEMMA SendKeepsClears ==
  ASSUME SyncInv, ClearsInv, MadeInv', NEW d \in Devices, SendNext(d) \/ SendFails(d)
  PROVE  ClearsInv'
<1>. DEFINE id == Earliest(work[d])
<1>1. Author[id] = d
  <2>1. work[d] \in SUBSET Ids /\ work[d] # {} /\ made \in [Ids -> Nat]
    BY DEF SyncInv, TypeOK, SenderType, SendNext, SendFails
  <2>2. id \in work[d]
    BY <2>1, EarliestIsMember
  <2>. QED BY <2>2 DEF SyncInv, OwnWork
<1>2. /\ seen' = [seen EXCEPT ![d] = @ \cup {id}]
      /\ UNCHANGED <<items, lastSeq, firstSeq, storedAt, page, next, step, cursor,
                     history, taken>>
  BY DEF SendNext, SendFails, serverVars, storeVars, receiverVars, historyVars, pageVars
<1>. HIDE DEF id
<1>3. \A e \in Devices :
        seen[e] \subseteq seen'[e] /\ \A i \in seen'[e] : i \in seen[e] \/ Author[i] = e
  BY <1>1, <1>2 DEF SyncInv, TypeOK, ReceiverType
<1>4. StoredInv'
  BY <1>2 DEF ClearsInv, StoredInv
<1>5. ASSUME NEW e \in Devices PROVE DeviceClears(e)'
  BY <1>2, <1>3, RestStill, ReceiverFacts
<1>. QED BY <1>4, <1>5 DEF ClearsInv

\* What the server stores is newer than everything, and what it has stored
\* before is not stored for the first time.
LEMMA StoreKeepsClears ==
  ASSUME SyncInv, ClearsInv, MadeInv', NEW r \in wire, NEW heard \in BOOLEAN,
         ServerTakes(r, heard)
  PROVE  ClearsInv'
<1>. DEFINE a == AccountOf[r.from[1]]
            new == [seq |-> lastSeq + 1, account |-> a, id |-> r.id,
                    device |-> r.from[1], data |-> r.id, at |-> now]
<1>1. /\ r.id \in Ids /\ r.from[1] \in Devices /\ Author[r.id] = r.from[1]
      /\ lastSeq \in Nat /\ firstSeq \in [Ids -> Nat] /\ storedAt \in [Ids -> Nat]
      /\ \A i \in items : i.seq \in Nat /\ i.id \in Ids /\ i.seq <= lastSeq
  BY DEF SyncInv, TypeOK, ServerType, RowsInv, OwnWork, Workers, Item
<1>2. /\ firstSeq' = [firstSeq EXCEPT ![r.id] = IF @ = 0 THEN lastSeq' ELSE @]
      /\ storedAt' = [storedAt EXCEPT ![r.id] = IF lastSeq' # lastSeq THEN lastSeq' ELSE @]
      /\ AddItem(a, r.from[1], r.id, r.id)
      /\ UNCHANGED <<page, next, step, cursor, seen, history, taken>>
  BY DEF ServerTakes, receiverVars, historyVars, pageVars
<1>3. CASE Stored(a, r.id) # {}
  <2>1. firstSeq[r.id] # 0
    BY <1>3 DEF Stored, ClearsInv, StoredInv
  <2>2. UNCHANGED <<items, lastSeq, firstSeq, storedAt>>
    BY <1>1, <1>2, <1>3, <2>1 DEF AddItem
  <2>3. StoredInv'
    BY <2>2 DEF ClearsInv, StoredInv
  <2>4. ASSUME NEW e \in Devices PROVE DeviceClears(e)'
    BY <1>2, <2>2, RestStill, ReceiverFacts
  <2>. QED BY <2>3, <2>4 DEF ClearsInv
<1>4. CASE Stored(a, r.id) = {}
  <2>1. /\ lastSeq' = lastSeq + 1 /\ items' \subseteq items \cup {new}
        /\ new.seq = lastSeq + 1 /\ new.account = a /\ new.id = r.id
        /\ new.device = r.from[1]
    BY <1>2, <1>4 DEF AddItem, NextSeq, Pruned
  <2>2. \A i \in items : ~(i.account = a /\ i.id = r.id)
    BY <1>4 DEF Stored
  <2>. HIDE DEF new, a
  <2>3. /\ \A id \in Ids : firstSeq'[id] = firstSeq[id] \/ (id = r.id /\ firstSeq[id] = 0)
        /\ \A id \in Ids : firstSeq[id] # 0 => firstSeq'[id] = firstSeq[id]
        /\ firstSeq'[r.id] # 0 /\ firstSeq'[r.id] <= lastSeq + 1
        /\ \A id \in Ids : firstSeq'[id] \in Nat
    BY <1>1, <1>2, <2>1 DEF ClearsInv, StoredInv
  <2>4. /\ storedAt'[r.id] = lastSeq + 1
        /\ \A id \in Ids \ {r.id} : storedAt'[id] = storedAt[id]
        /\ \A id \in Ids : storedAt[id] <= lastSeq /\ storedAt[id] \in Nat
        /\ \A id \in Ids : storedAt[id] <= storedAt'[id]
    BY <1>1, <1>2, <2>1 DEF ClearsInv, StoredInv
  <2>5. StoredInv'
    <3>1. \A id \in Ids : /\ firstSeq'[id] <= lastSeq' /\ storedAt'[id] <= lastSeq'
                          /\ firstSeq'[id] = 0 => storedAt'[id] = 0
      BY <1>1, <2>1, <2>3, <2>4 DEF ClearsInv, StoredInv
    <3>2. \A i \in items' : firstSeq'[i.id] # 0 /\ firstSeq'[i.id] <= i.seq
      BY <1>1, <2>1, <2>3 DEF ClearsInv, StoredInv
    <3>3. \A i \in items' : i.seq <= storedAt'[i.id]
      BY <1>1, <2>1, <2>4 DEF ClearsInv, StoredInv
    <3>4. \A i, j \in items' : i.account = j.account /\ i.id = j.id => i = j
      BY <2>1, <2>2 DEF ClearsInv, StoredInv
    <3>. QED BY <3>1, <3>2, <3>3, <3>4 DEF StoredInv
  <2>6. ASSUME NEW e \in Devices PROVE DeviceClears(e)'
    <3>1. /\ RestInv(e) /\ OrderInv(e) /\ WipedInv(e) /\ TakenInv(e)
          /\ cursor[e] \in Nat /\ next[e] \in Nat /\ cursor[e] <= lastSeq
          /\ step[e] # "ask" => next[e] <= lastSeq
          /\ page[e] \subseteq Item /\ \A p \in page[e] : p.id \in Ids /\ p.seq \in Nat
          /\ seen[e] \subseteq Ids /\ history[e] \subseteq Ids
          /\ step[e] = "wiped" => First(e) \in page[e]
      BY ReceiverFacts DEF DeviceClears, DeviceInv, PageInv
    <3>2. \A i \in Foreign(e)' : i.seq \in Nat /\ (i.seq <= lastSeq => i \in Foreign(e))
      BY <1>1, <2>1 DEF Foreign
    <3>3. RestInv(e)'
      <4>1. \A p \in page[e] : p.seq <= lastSeq
        BY <1>1, <3>1 DEF RestInv
      <4>2. \A p \in page[e], i \in items' :
              i.account = p.account /\ i.id = p.id => i = p \/ p.seq < i.seq
        BY <1>1, <2>1, <3>1, <4>1 DEF RestInv
      <4>3. step[e] # "ask" => \A i \in Foreign(e)' :
              i.seq <= next[e] => i \in page[e] \/ i.seq <= cursor[e] \/ i.id \in seen[e]
        BY <1>1, <3>1, <3>2 DEF RestInv
      <4>4. \A p \in page[e] : /\ firstSeq'[p.id] = firstSeq[p.id]
                               /\ p.seq <= storedAt'[p.id]
        <5>1. ASSUME NEW p \in page[e]
              PROVE  /\ firstSeq[p.id] # 0 /\ p.seq <= storedAt[p.id]
                     /\ p.id \in Ids /\ p.seq \in Nat
          BY <3>1 DEF RestInv
        <5>2. \A p \in page[e] : storedAt'[p.id] \in Nat
          BY <1>1, <2>4, <5>1
        <5>. QED BY <2>3, <2>4, <5>1, <5>2
      <4>5. \A id \in seen[e] : Author[id] = e \/ firstSeq'[id] # 0
        BY <2>3, <3>1 DEF RestInv
      <4>. QED BY <1>2, <3>1, <4>2, <4>3, <4>4, <4>5 DEF RestInv
    <3>4. ASSUME NEW x \in Ids, Past(e, x)' PROVE Past(e, x) /\ firstSeq[x] # 0
      <4>1. CASE x \in seen[e] /\ Author[x] # e
        BY <3>1, <4>1 DEF Past, RestInv
      <4>2. CASE \E j \in Foreign(e)' : j.id = x /\ j.seq <= cursor[e]
        <5>1. PICK j \in Foreign(e)' : j.id = x /\ j.seq <= cursor[e]
          BY <4>2
        <5>2. j \in Foreign(e)
          BY <1>1, <3>1, <3>2, <5>1
        <5>. QED BY <5>1, <5>2 DEF Past, Foreign, ClearsInv, StoredInv
      <4>. QED BY <1>2, <3>4, <4>1, <4>2 DEF Past
    <3>5. OrderInv(e)'
      <4>. SUFFICES ASSUME NEW y \in seen[e], NEW i \in Foreign(e)' \cup page[e],
                           Author[y] # e, i.seq < firstSeq'[y]
                    PROVE  i.seq <= cursor[e] \/ i.id \in seen[e]
        BY <1>2 DEF OrderInv
      <4>1. /\ y \in Ids /\ firstSeq'[y] = firstSeq[y] /\ firstSeq[y] \in Nat
            /\ firstSeq[y] <= lastSeq
        BY <1>1, <2>3, <3>1 DEF RestInv, ClearsInv, StoredInv
      <4>2. i \in Foreign(e) \cup page[e]
        BY <1>1, <3>2, <4>1
      <4>. QED BY <3>1, <4>1, <4>2 DEF OrderInv
    <3>6. First(e)' = First(e)
      BY <1>2 DEF First
    <3>7. WipedInv(e)'
      <4>. SUFFICES ASSUME NEW x \in Clears, NEW id \in Ids, Gone(e, x)',
                           0 < storedAt'[id], storedAt'[id] < firstSeq'[x]
                    PROVE  id \notin history[e]
        BY <1>2 DEF WipedInv
      <4>1. x \in Ids
        BY SyncAssumption DEF SyncAssumption
      <4>2. Gone(e, x) /\ firstSeq[x] # 0
        <5>1. CASE Past(e, x)'
          BY <3>4, <4>1, <5>1 DEF Gone
        <5>2. CASE step[e] = "wiped" /\ x = First(e).id
          BY <3>1, <5>2 DEF Gone, RestInv
        <5>. QED BY <1>2, <3>6, <5>1, <5>2 DEF Gone
      <4>3. firstSeq'[x] = firstSeq[x] /\ firstSeq[x] \in Nat /\ firstSeq[x] <= lastSeq
        BY <1>1, <2>3, <4>1, <4>2 DEF ClearsInv, StoredInv
      <4>4. id # r.id /\ storedAt'[id] = storedAt[id]
        BY <1>1, <2>4, <4>3
      <4>. QED BY <3>1, <4>2, <4>3, <4>4 DEF WipedInv
    <3>8. TakenInv(e)'
      BY <1>2, <3>1, <3>4, <3>6 DEF TakenInv
    <3>. QED BY <3>3, <3>5, <3>7, <3>8 DEF DeviceClears
  <2>. QED BY <2>5, <2>6 DEF ClearsInv
<1>. QED BY <1>3, <1>4

\* A receiver's step is its own device's.
LEMMA OneReceives ==
  ASSUME SyncInv, ClearsInv, MadeInv', NEW d \in Devices,
         UNCHANGED <<items, lastSeq, firstSeq, storedAt>>,
         \A e \in Devices \ {d} :
           /\ page'[e] = page[e] /\ next'[e] = next[e] /\ step'[e] = step[e]
           /\ cursor'[e] = cursor[e] /\ seen'[e] = seen[e]
           /\ history'[e] = history[e] /\ taken'[e] = taken[e],
         RestInv(d)', OrderInv(d)', WipedInv(d)', TakenInv(d)'
  PROVE  ClearsInv'
<1>1. StoredInv'
  BY DEF ClearsInv, StoredInv
<1>2. ASSUME NEW e \in Devices PROVE DeviceClears(e)'
  <2>1. CASE e = d
    BY <2>1 DEF DeviceClears
  <2>2. CASE e # d
    BY <2>2, RestStill, ReceiverFacts
  <2>. QED BY <2>1, <2>2
<1>. QED BY <1>1, <1>2 DEF ClearsInv

\* Between two items, and while the history is left alone, there is nothing to
\* account for but what the device is newly past.
LEMMA MarksStay ==
  ASSUME NEW d \in Devices, DeviceClears(d), UNCHANGED <<firstSeq, storedAt>>,
         \A x \in Ids : Past(d, x)' => Past(d, x),
         history'[d] = history[d], taken'[d] = taken[d],
         step'[d] \notin {"kept", "emptied", "wiped"}
  PROVE  WipedInv(d)' /\ TakenInv(d)'
<1>1. Clears \subseteq Ids
  BY SyncAssumption DEF SyncAssumption
<1>. QED BY <1>1 DEF DeviceClears, WipedInv, TakenInv, Gone

\* A row that was handled is remembered; what is ahead of it comes later.
LEMMA HandledKeepsOrder ==
  ASSUME SyncInv, ClearsInv, NEW d \in Devices, step[d] # "ask", NEW h \in page[d],
         \A j \in page[d] : h.seq <= j.seq,
         UNCHANGED <<items, firstSeq, storedAt>>, cursor'[d] = cursor[d],
         page'[d] = page[d] \ {h}, next'[d] = next[d], step'[d] = "page",
         seen'[d] = seen[d] \cup {h.id}
  PROVE  RestInv(d)' /\ OrderInv(d)'
<1>1. RestInv(d)'
  BY ReceiverFacts DEF DeviceClears, RestInv, Foreign
<1>2. OrderInv(d)'
  <2>. SUFFICES ASSUME NEW y \in seen[d] \cup {h.id}, NEW i \in Foreign(d) \cup page[d],
                       i # h, Author[y] # d, i.seq < firstSeq[y]
                PROVE  i.seq <= cursor[d] \/ i.id \in seen[d]
    BY DEF OrderInv, Foreign
  <2>1. CASE y \in seen[d]
    BY <2>1, ReceiverFacts DEF DeviceClears, OrderInv
  <2>2. CASE y = h.id
    <3>1. firstSeq[y] <= h.seq /\ h.seq <= next[d] /\ firstSeq[y] \in Nat /\ h.seq \in Nat
      BY <2>2, ReceiverFacts DEF DeviceClears, RestInv
    <3>2. i.seq \in Nat
      BY ReceiverFacts DEF Foreign
    <3>3. i.seq < h.seq /\ i.seq <= next[d] /\ i \notin page[d]
      BY <3>1, <3>2, ReceiverFacts
    <3>. QED BY <3>3, ReceiverFacts DEF DeviceClears, RestInv
  <2>. QED BY <2>1, <2>2
<1>. QED BY <1>1, <1>2

\* An item is behind the device once it was skipped, acknowledged or noted.
LEMMA HandledKeepsClears ==
  ASSUME SyncInv, ClearsInv, MadeInv', NEW d \in Devices,
         Skip(d) \/ Acknowledge(d) \/ NoteClear(d)
  PROVE  ClearsInv'
<1>. DEFINE h == First(d)
<1>1. page[d] # {} /\ step[d] # "ask"
  BY ReceiverFacts DEF PageInv, Skip, AtItem, Acknowledge, NoteClear
<1>2. h \in page[d] /\ \A j \in page[d] : h.seq <= j.seq
  BY <1>1, FirstIsLowest
<1>3. Author[h.id] # d /\ h.id \in Ids
  BY <1>2, ReceiverFacts
<1>4. /\ seen' = [seen EXCEPT ![d] = seen[d] \cup {h.id}]
      /\ h.id \in Clears => Gone(d, h.id)
      /\ h.id \notin Clears => h.id \in history[d] \cup taken[d]
      /\ step' = [step EXCEPT ![d] = "page"]
      /\ page' = [page EXCEPT ![d] = page[d] \ {h}]
      /\ UNCHANGED <<items, lastSeq, firstSeq, storedAt, next, cursor, history, taken>>
  <2>1. CASE Skip(d)
    <3>1. h.id \in seen[d] /\ seen' = seen
      BY <2>1 DEF Skip
    <3>2. seen' = [seen EXCEPT ![d] = seen[d] \cup {h.id}]
      BY <3>1 DEF SyncInv, TypeOK, ReceiverType
    <3>3. Past(d, h.id)
      BY <1>3, <3>1 DEF Past
    <3>4. /\ h.id \in Clears => Gone(d, h.id)
          /\ h.id \notin Clears => h.id \in history[d] \cup taken[d]
      BY <1>3, <3>3, ReceiverFacts DEF Gone, DeviceClears, TakenInv
    <3>. QED BY <2>1, <3>2, <3>4 DEF Skip, Handled, serverVars, storeVars, historyVars
  <2>2. CASE Acknowledge(d)
    <3>1. h.id \notin Clears /\ h.id \in history[d] \cup taken[d]
      BY <2>2, ReceiverFacts DEF Acknowledge, PageInv, DeviceClears, TakenInv
    <3>. QED BY <2>2, <3>1 DEF Acknowledge, Handled, serverVars, storeVars, historyVars
  <2>3. CASE NoteClear(d)
    <3>1. h.id \in Clears /\ Gone(d, h.id)
      BY <2>3, ReceiverFacts DEF NoteClear, PageInv, Gone
    <3>. QED BY <2>3, <3>1
             DEF NoteClear, Handled, serverVars, storeVars, senderVars, historyVars
  <2>. QED BY <2>1, <2>2, <2>3
<1>. HIDE DEF h
<1>5. /\ seen'[d] = seen[d] \cup {h.id} /\ step'[d] = "page" /\ page'[d] = page[d] \ {h}
      /\ \A e \in Devices \ {d} :
           seen'[e] = seen[e] /\ step'[e] = step[e] /\ page'[e] = page[e]
  BY <1>4 DEF SyncInv, TypeOK, ReceiverType
<1>6. RestInv(d)' /\ OrderInv(d)'
  BY <1>1, <1>2, <1>4, <1>5, HandledKeepsOrder
<1>7. \A x \in Ids : Past(d, x)' => Past(d, x) \/ x = h.id
  BY <1>4, <1>5 DEF Past, Foreign
<1>8. WipedInv(d)'
  <2>1. ASSUME NEW x \in Clears, Gone(d, x)' PROVE Gone(d, x)
    BY <1>4, <1>5, <1>7, <2>1, ReceiverFacts DEF Gone
  <2>. QED BY <1>4, <2>1, ReceiverFacts DEF DeviceClears, WipedInv
<1>9. TakenInv(d)'
  BY <1>4, <1>5, <1>7, ReceiverFacts DEF DeviceClears, TakenInv
<1>. QED BY <1>4, <1>5, <1>6, <1>8, <1>9, OneReceives

\* A saved copy was not cleared: its row lies after the cursor and is not seen.
LEMMA SaveKeepsClears ==
  ASSUME SyncInv, ClearsInv, MadeInv', NEW d \in Devices, Save(d)
  PROVE  ClearsInv'
<1>. DEFINE h == First(d)
<1>1. page[d] # {} /\ step[d] = "page" /\ h.id \notin seen[d]
  BY DEF Save, AtItem
<1>2. h \in page[d]
  BY <1>1, FirstIsLowest
<1>3. /\ history' = [history EXCEPT ![d] = @ \cup {h.id}]
      /\ taken' = [taken EXCEPT ![d] = @ \ {h.id}]
      /\ step' = [step EXCEPT ![d] = "kept"]
      /\ UNCHANGED <<items, lastSeq, firstSeq, storedAt, page, next, cursor, seen>>
  BY DEF Save, PutInHistory, serverVars, storeVars
<1>4. First(d)' = h
  BY <1>3 DEF First
<1>. HIDE DEF h
<1>5. /\ step'[d] = "kept" /\ history'[d] = history[d] \cup {h.id}
      /\ taken'[d] = taken[d] \ {h.id}
      /\ \A e \in Devices \ {d} :
           step'[e] = step[e] /\ history'[e] = history[e] /\ taken'[e] = taken[e]
  BY <1>3 DEF SyncInv, TypeOK, ReceiverType
<1>6. RestInv(d)' /\ OrderInv(d)'
  BY <1>1, <1>3, <1>5, ReceiverFacts DEF DeviceClears, RestInv, OrderInv, Foreign
<1>7. \A x : Past(d, x)' => Past(d, x)
  BY <1>3 DEF Past, Foreign
<1>8. WipedInv(d)'
  <2>1. ASSUME NEW x \in Clears, Past(d, x), storedAt[h.id] < firstSeq[x]
        PROVE  FALSE
    <3>1. /\ cursor[d] < h.seq /\ h.seq <= storedAt[h.id] /\ h.seq \in Nat
          /\ firstSeq[x] \in Nat /\ storedAt[h.id] \in Nat /\ cursor[d] \in Nat
      BY <1>2, ReceiverFacts DEF DeviceClears, RestInv
    <3>2. CASE x \in seen[d] /\ Author[x] # d
      BY <1>1, <1>2, <2>1, <3>1, <3>2, ReceiverFacts DEF DeviceClears, OrderInv
    <3>3. CASE \E j \in Foreign(d) : j.id = x /\ j.seq <= cursor[d]
      <4>1. PICK j \in Foreign(d) : j.id = x /\ j.seq <= cursor[d]
        BY <3>3
      <4>2. firstSeq[x] <= j.seq /\ j.seq \in Nat
        BY <4>1, ReceiverFacts DEF Foreign, StoredInv
      <4>. QED BY <2>1, <3>1, <4>1, <4>2
    <3>. QED BY <2>1, <3>2, <3>3 DEF Past
  <2>. QED BY <1>3, <1>5, <1>7, <2>1, ReceiverFacts DEF DeviceClears, WipedInv, Gone
<1>9. TakenInv(d)'
  BY <1>1, <1>3, <1>4, <1>5, <1>7, ReceiverFacts DEF DeviceClears, TakenInv
<1>. QED BY <1>3, <1>5, <1>6, <1>8, <1>9, OneReceives

LEMMA CancelQueuedKeepsClears ==
  ASSUME SyncInv, ClearsInv, MadeInv', NEW d \in Devices, CancelQueued(d)
  PROVE  ClearsInv'
<1>1. /\ step[d] = "page" /\ First(d).id \notin seen[d]
      /\ step' = [step EXCEPT ![d] = "emptied"]
      /\ UNCHANGED <<items, lastSeq, firstSeq, storedAt, page, next, cursor, seen, history,
                     taken>>
  BY DEF CancelQueued, AtItem, serverVars, storeVars, historyVars
<1>2. step'[d] = "emptied" /\ \A e \in Devices \ {d} : step'[e] = step[e]
  BY <1>1 DEF SyncInv, TypeOK, ReceiverType
<1>3. RestInv(d)' /\ OrderInv(d)'
  BY <1>1, <1>2, ReceiverFacts DEF DeviceClears, RestInv, OrderInv, Foreign
<1>4. First(d)' = First(d) /\ \A x : Past(d, x)' => Past(d, x)
  BY <1>1 DEF First, Past, Foreign
<1>5. WipedInv(d)' /\ TakenInv(d)'
  BY <1>1, <1>2, <1>4, ReceiverFacts DEF DeviceClears, WipedInv, TakenInv, Gone
<1>. QED BY <1>1, <1>2, <1>3, <1>5, OneReceives

\* A wipe takes what the device is past: all of that was stored before.
LEMMA WipeKeepsClears ==
  ASSUME SyncInv, ClearsInv, MadeInv', NEW d \in Devices, Wipe(d)
  PROVE  ClearsInv'
<1>. DEFINE h == First(d)
<1>1. step[d] = "emptied" /\ h \in page[d] /\ h.id \notin seen[d]
  BY ReceiverFacts DEF Wipe, DeviceClears, TakenInv
<1>2. /\ history' = [history EXCEPT ![d] = {}]
      /\ taken' = [taken EXCEPT ![d] = @ \cup {id \in history[d] : Takes(d, h, id)}]
      /\ step' = [step EXCEPT ![d] = "wiped"]
      /\ UNCHANGED <<items, lastSeq, firstSeq, storedAt, page, next, cursor, seen>>
  BY DEF Wipe, serverVars, storeVars
<1>3. First(d)' = h
  BY <1>2 DEF First
<1>. HIDE DEF h
<1>4. /\ step'[d] = "wiped" /\ history'[d] = {}
      /\ taken'[d] = taken[d] \cup {id \in history[d] : Takes(d, h, id)}
      /\ \A e \in Devices \ {d} :
           step'[e] = step[e] /\ history'[e] = history[e] /\ taken'[e] = taken[e]
  BY <1>2 DEF SyncInv, TypeOK, ReceiverType
<1>5. RestInv(d)' /\ OrderInv(d)'
  BY <1>1, <1>2, <1>4, ReceiverFacts DEF DeviceClears, RestInv, OrderInv, Foreign
<1>6. WipedInv(d)'
  BY <1>4 DEF WipedInv
<1>7. \A x : Past(d, x)' => Past(d, x)
  BY <1>2 DEF Past, Foreign
<1>8. ASSUME NEW x \in Ids, Past(d, x) PROVE Takes(d, h, x)
  <2>1. cursor[d] < h.seq /\ h.seq \in Nat /\ firstSeq[x] \in Nat /\ cursor[d] \in Nat
    BY <1>1, ReceiverFacts DEF DeviceClears, RestInv
  <2>2. CASE x \in seen[d] /\ Author[x] # d
    <3>1. ~ (h.seq < firstSeq[x])
      BY <1>1, <2>1, <2>2, ReceiverFacts DEF DeviceClears, OrderInv
    <3>. QED BY <2>1, <3>1 DEF Takes
  <2>3. CASE \E j \in Foreign(d) : j.id = x /\ j.seq <= cursor[d]
    <3>1. PICK j \in Foreign(d) : j.id = x /\ j.seq <= cursor[d]
      BY <2>3
    <3>2. firstSeq[x] <= j.seq /\ j.seq \in Nat
      BY <3>1, ReceiverFacts DEF Foreign, StoredInv
    <3>. QED BY <2>1, <3>1, <3>2 DEF Takes
  <2>. QED BY <1>8, <2>2, <2>3 DEF Past
<1>9. TakenInv(d)'
  <2>1. ASSUME NEW x \in Ids \ Clears, Past(d, x)' PROVE x \in taken'[d]
    BY <1>4, <1>7, <1>8, <2>1, ReceiverFacts DEF DeviceClears, TakenInv
  <2>. QED BY <1>1, <1>2, <1>3, <1>4, <2>1 DEF TakenInv
<1>. QED BY <1>2, <1>4, <1>5, <1>6, <1>9, OneReceives

LEMMA FetchKeepsClears ==
  ASSUME SyncInv, ClearsInv, MadeInv', NEW d \in Devices, Fetch(d)
  PROVE  ClearsInv'
<1>. DEFINE m == PageCursor(d, cursor[d])
            P == Page(d, cursor[d])
<1>1. /\ Passed(d, cursor[d]) # {}
      /\ step' = [step EXCEPT ![d] = "page"]
      /\ page' = [page EXCEPT ![d] = P]
      /\ next' = [next EXCEPT ![d] = m]
      /\ UNCHANGED <<items, lastSeq, firstSeq, storedAt, cursor, seen, history, taken>>
  BY DEF Fetch, serverVars, storeVars, historyVars
<1>2. /\ m \in Nat /\ cursor[d] < m
      /\ Passed(d, cursor[d]) =
           {i \in After(AccountOf[d], cursor[d]) : i.seq <= m}
  <2>1. cursor[d] \in Nat /\ cursor[d] <= lastSeq
    BY ReceiverFacts DEF DeviceInv
  <2>. QED BY <1>1, <2>1, PageIsInterval DEF SyncInv, TypeOK, ServerType, RowsInv
<1>3. P = {i \in Foreign(d) : cursor[d] < i.seq /\ i.seq <= m}
  BY <1>2 DEF Page, After, Foreign
<1>. HIDE DEF m, P
<1>4. /\ step'[d] = "page" /\ page'[d] = P /\ next'[d] = m
      /\ \A e \in Devices \ {d} :
           step'[e] = step[e] /\ page'[e] = page[e] /\ next'[e] = next[e]
  BY <1>1 DEF SyncInv, TypeOK, ReceiverType
<1>5. RestInv(d)'
  <2>1. \A p \in P : /\ p \in items /\ p.account = AccountOf[d]
                     /\ cursor[d] < p.seq /\ p.seq <= m
                     /\ firstSeq[p.id] # 0 /\ firstSeq[p.id] <= p.seq
                     /\ p.seq <= storedAt[p.id]
    BY <1>3, ReceiverFacts DEF Foreign, StoredInv
  <2>2. \A p \in P, i \in items : i.account = p.account /\ i.id = p.id => i = p
    BY <2>1, ReceiverFacts DEF StoredInv
  <2>3. \A i \in Foreign(d) : i.seq <= m => i \in P \/ i.seq <= cursor[d]
    BY <1>2, <1>3, ReceiverFacts DEF Foreign
  <2>4. \A id \in seen[d] : Author[id] = d \/ firstSeq[id] # 0
    BY ReceiverFacts DEF DeviceClears, RestInv
  <2>. QED BY <1>1, <1>4, <2>1, <2>2, <2>3, <2>4 DEF RestInv, Foreign
<1>6. OrderInv(d)'
  BY <1>1, <1>3, <1>4, ReceiverFacts DEF DeviceClears, OrderInv, Foreign
<1>7. \A x : Past(d, x)' => Past(d, x)
  BY <1>1 DEF Past, Foreign
<1>8. WipedInv(d)' /\ TakenInv(d)'
  BY <1>1, <1>4, <1>7, ReceiverFacts, MarksStay
<1>. QED BY <1>1, <1>4, <1>5, <1>6, <1>8, OneReceives

\* The cursor in memory moves past a page once all of it was handled.
LEMMA MoveCursorKeepsClears ==
  ASSUME SyncInv, ClearsInv, MadeInv', NEW d \in Devices, MoveCursor(d)
  PROVE  ClearsInv'
<1>1. /\ page[d] = {} /\ step[d] = "page"
      /\ cursor' = [cursor EXCEPT ![d] = next[d]]
      /\ step' = [step EXCEPT ![d] = "moved"]
      /\ UNCHANGED <<items, lastSeq, firstSeq, storedAt, page, next, seen, history, taken>>
  BY DEF MoveCursor, serverVars, storeVars, historyVars
<1>2. /\ cursor'[d] = next[d] /\ step'[d] = "moved" /\ cursor[d] <= next[d]
      /\ \A e \in Devices \ {d} : cursor'[e] = cursor[e] /\ step'[e] = step[e]
  BY <1>1, ReceiverFacts DEF SyncInv, TypeOK, ReceiverType, PageInv
<1>3. RestInv(d)'
  BY <1>1, <1>2, ReceiverFacts DEF DeviceClears, RestInv, Foreign
<1>4. OrderInv(d)'
  <2>1. \A i \in items : i.seq <= cursor[d] => i.seq <= next[d]
    BY <1>2, ReceiverFacts
  <2>. QED BY <1>1, <1>2, <2>1, ReceiverFacts DEF DeviceClears, OrderInv, Foreign
<1>5. ASSUME NEW x \in Ids, Past(d, x)' PROVE Past(d, x)
  <2>1. CASE \E j \in Foreign(d) : j.id = x /\ j.seq <= next[d]
    <3>1. PICK j \in Foreign(d) : j.id = x /\ j.seq <= next[d]
      BY <2>1
    <3>2. j.seq <= cursor[d] \/ j.id \in seen[d]
      BY <1>1, <3>1, ReceiverFacts DEF DeviceClears, RestInv
    <3>3. Author[j.id] # d
      BY ReceiverFacts DEF Foreign
    <3>. QED BY <3>1, <3>2, <3>3 DEF Past
  <2>. QED BY <1>1, <1>2, <1>5, <2>1 DEF Past, Foreign
<1>6. WipedInv(d)' /\ TakenInv(d)'
  BY <1>1, <1>2, <1>5, ReceiverFacts, MarksStay
<1>. QED BY <1>1, <1>2, <1>3, <1>4, <1>6, OneReceives

\* Asking again, after a failure or not, keeps the cursor in memory; a restart
\* goes back to the saved one, which is not later.
LEMMA AskAgainKeepsClears ==
  ASSUME SyncInv, ClearsInv, MadeInv', NEW d \in Devices,
         SaveCursor(d) \/ PageFails(d) \/ Restart(d)
  PROVE  ClearsInv'
<1>1. /\ \/ UNCHANGED <<cursor, seen>>
         \/ /\ cursor' = [cursor EXCEPT ![d] = saved[d]]
            /\ seen' = [seen EXCEPT ![d] = {}]
      /\ step' = [step EXCEPT ![d] = "ask"]
      /\ page' = [page EXCEPT ![d] = {}]
      /\ next' = [next EXCEPT ![d] = 0]
      /\ UNCHANGED <<items, lastSeq, firstSeq, storedAt, history, taken>>
  BY DEF SaveCursor, PageFails, Restart, NextPoll, serverVars, storeVars, historyVars
<1>2. /\ step'[d] = "ask" /\ page'[d] = {} /\ next'[d] = 0
      /\ \/ cursor'[d] = cursor[d] /\ seen'[d] = seen[d]
         \/ cursor'[d] = saved[d] /\ seen'[d] = {}
      /\ \A e \in Devices \ {d} :
           /\ step'[e] = step[e] /\ page'[e] = page[e] /\ next'[e] = next[e]
           /\ cursor'[e] = cursor[e] /\ seen'[e] = seen[e]
  BY <1>1 DEF SyncInv, TypeOK, ReceiverType
<1>3. RestInv(d)' /\ OrderInv(d)'
  BY <1>1, <1>2, ReceiverFacts DEF DeviceClears, RestInv, OrderInv, Foreign
<1>4. ASSUME NEW x \in Ids, Past(d, x)' PROVE Past(d, x)
  <2>1. CASE cursor'[d] = cursor[d] /\ seen'[d] = seen[d]
    BY <1>1, <1>4, <2>1 DEF Past, Foreign
  <2>2. CASE cursor'[d] = saved[d] /\ seen'[d] = {}
    <3>1. PICK j \in Foreign(d) : j.id = x /\ j.seq <= saved[d]
      BY <1>1, <1>4, <2>2 DEF Past, Foreign
    <3>2. j.seq <= cursor[d]
      BY <3>1, ReceiverFacts DEF DeviceInv, Foreign
    <3>. QED BY <3>1, <3>2 DEF Past
  <2>. QED BY <1>2, <2>1, <2>2
<1>5. WipedInv(d)' /\ TakenInv(d)'
  BY <1>1, <1>2, <1>4, ReceiverFacts, MarksStay
<1>. QED BY <1>1, <1>2, <1>3, <1>5, OneReceives

LEMMA NextKeepsClears ==
  ASSUME SyncInv, ClearsInv, [Next]_vars
  PROVE  ClearsInv'
<1>0. MadeInv'
  BY NextKeepsMade DEF ClearsInv
<1>1. ASSUME NEW r \in wire, NEW heard \in BOOLEAN, ServerTakes(r, heard)
      PROVE  ClearsInv'
  BY <1>0, <1>1, StoreKeepsClears
<1>2. ASSUME NEW w \in Workers, GivesUp(w) \/ RemoveSent(w) \/ RemoveFails(w)
      PROVE  ClearsInv'
  BY <1>0, <1>2, OutsideKeepsClears
<1>3. ASSUME NEW d \in Devices, NEW id \in Ids, Copy(d, id) \/ CliSends(d, id)
      PROVE  ClearsInv'
  BY <1>0, <1>3, CopyKeepsClears, OutsideKeepsClears
<1>4. ASSUME NEW d \in Devices,
             \/ Flush(d) \/ FlushNext(d) \/ Poll(d) \/ SendsDone(d)
             \/ CliCancels(d) \/ CliWipes(d) \/ CliDeletes(d) \/ CliFails(d)
      PROVE  ClearsInv'
  BY <1>0, <1>4, OutsideKeepsClears
<1>5. ASSUME NEW d \in Devices,
             \/ SendNext(d) \/ SendFails(d)
             \/ Fetch(d) \/ Skip(d) \/ Save(d) \/ Acknowledge(d)
             \/ CancelQueued(d) \/ Wipe(d) \/ NoteClear(d)
             \/ MoveCursor(d) \/ SaveCursor(d) \/ PageFails(d) \/ Restart(d)
      PROVE  ClearsInv'
  BY <1>0, <1>5, SendKeepsClears, FetchKeepsClears, HandledKeepsClears, SaveKeepsClears,
     CancelQueuedKeepsClears, WipeKeepsClears, MoveCursorKeepsClears, AskAgainKeepsClears
<1>6. CASE UNCHANGED vars
  BY <1>0, <1>6, OutsideKeepsClears
<1>7. ASSUME Next PROVE ClearsInv'
  BY <1>7, <1>1, <1>2, <1>3, <1>4, <1>5, ZenonT(60) DEF Next
<1>. QED BY <1>6, <1>7

LEMMA ClearsInvariant == Spec => []ClearsInv
<1>1. Init => ClearsInv
  <2>. SUFFICES ASSUME Init PROVE ClearsInv
    OBVIOUS
  <2>. USE DEF Init, StoreInit, Idle
  <2>1. MadeInv
    BY SyncAssumption DEF MadeInv, Placed, SyncAssumption, Workers
  <2>2. StoredInv
    BY DEF StoredInv
  <2>3. \A d \in Devices : DeviceClears(d)
    BY DEF DeviceClears, RestInv, OrderInv, WipedInv, TakenInv, Gone, Past, Foreign
  <2>. QED BY <2>1, <2>2, <2>3 DEF ClearsInv
<1>2. SyncInv /\ ClearsInv /\ [Next]_vars => ClearsInv'
  BY NextKeepsClears
<1>. QED BY <1>1, <1>2, SyncInvariant, PTL DEF Spec

\* ClearedStaysCleared: once a device's saved cursor has passed another
\* device's clear, nothing last stored before the server first stored that
\* clear is in the device's history, whether the server still has it or has
\* deleted it, and whatever was retried, lost or restarted: pages go oldest
\* first, and a row once seen or passed is not kept again (receive_once, handle
\* and clear in daemon.rs).
THEOREM ClearsReachTheHistory == Spec => []ClearedStaysCleared
<1>1. SyncInv /\ ClearsInv => ClearedStaysCleared
  <2>. SUFFICES ASSUME SyncInv, ClearsInv, NEW d \in Devices, NEW x \in Foreign(d),
                       NEW id \in Ids, x.id \in Clears, x.seq <= saved[d],
                       0 < storedAt[id], storedAt[id] < firstSeq[x.id]
                PROVE  id \notin history[d]
    BY DEF ClearedStaysCleared
  <2>1. x.seq <= cursor[d]
    BY ReceiverFacts DEF DeviceInv, Foreign
  <2>2. Gone(d, x.id)
    BY <2>1 DEF Gone, Past
  <2>. QED BY <2>2, ReceiverFacts DEF DeviceClears, WipedInv
<1>. QED BY <1>1, SyncInvariant, ClearsInvariant, PTL

\* OnlyClearsTake: a copy of another device that the saved cursor has passed is
\* in the history, unless a clear stored after it, or one of the device's own,
\* took it: a clear that is carried out a second time takes nothing handled
\* since the first (handle and clear in daemon.rs).
THEOREM ClearsTakeNothingLater == Spec => []OnlyClearsTake
<1>1. SyncInv /\ ClearsInv => OnlyClearsTake
  <2>. SUFFICES ASSUME SyncInv, ClearsInv, NEW d \in Devices, NEW i \in Foreign(d),
                       i.id \notin Clears, i.seq <= saved[d]
                PROVE  i.id \in history[d] \cup taken[d]
    BY DEF OnlyClearsTake
  <2>1. i.seq <= cursor[d] /\ i.id \in Ids
    BY ReceiverFacts DEF DeviceInv, Foreign
  <2>2. Past(d, i.id)
    BY <2>1 DEF Past
  <2>. QED BY <2>1, <2>2, ReceiverFacts DEF DeviceClears, TakenInv
<1>. QED BY <1>1, SyncInvariant, ClearsInvariant, PTL
=============================================================================
