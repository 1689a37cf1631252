----------------------------- MODULE TableProofs -----------------------------
(***************************************************************************)
(* Proofs about Table, for every set of clients, payloads and queries,     *)
(* every number of buckets and every width of an int.                      *)
(*                                                                         *)
(* The inductive invariant Inv says who holds which lock and with what     *)
(* request (LockOwners, Requests), that an id goes to the bucket of its    *)
(* remainder (Placed), and what the index of a bucket holds, also while    *)
(* its writer is between bptree_insert and the append to the row array and *)
(* after failed promotions have torn it (IndexContents).                   *)
(***************************************************************************)
EXTENDS Table, BasicLemmas, TLAPS

-----------------------------------------------------------------------------
(***************************************************************************)
(* ++ on an int gives an int, also at INT_MAX.                             *)
(***************************************************************************)
LEMMA IdFacts ==
  /\ Id \subseteq Int /\ 0 \in Id /\ 1 \in Id
  /\ \A i \in Id : Increment(i) \in Id
<1>1. 2 ^ (INT_BITS - 1) \in Int
  BY IntAssumption
<1> QED
  BY <1>1, IntAssumption DEF Id, INT_MAX, INT_MIN, Increment

(***************************************************************************)
(* Division with remainder: it exists, and the remainder is unique.        *)
(***************************************************************************)
LEMMA Division ==
  ASSUME NEW a \in Int, NEW n \in Nat \ {0}
  PROVE  /\ a \div n \in Int /\ a % n \in 0 .. n - 1
         /\ a = n * (a \div n) + (a % n)
OBVIOUS

LEMMA RemainderUnique ==
  ASSUME NEW n \in Nat \ {0}, NEW x \in Int, NEW y \in Int,
         NEW r \in 0 .. n - 1, NEW s \in 0 .. n - 1, n * x + r = n * y + s
  PROVE  r = s
<1>1. ASSUME NEW d \in Int, d >= 1 PROVE n * d >= n
  BY <1>1
<1>2. n * (x - y) = s - r /\ n * (y - x) = r - s
  OBVIOUS
<1>3. x = y
  BY <1>1, <1>2
<1> QED
  BY <1>3

(***************************************************************************)
(* The correction of a negative C remainder in table_bucket_index_for_id   *)
(* makes it the mathematical one: every int, negative ones included, has a *)
(* bucket.                                                                 *)
(***************************************************************************)
LEMMA BucketOfId ==
  ASSUME NEW i \in Int
  PROVE  /\ table_bucket_index_for_id(i) = i % BUCKET_COUNT
         /\ table_bucket_index_for_id(i) \in Bucket
<1> DEFINE n == BUCKET_COUNT
           m == (-i) % n
           q == (-i) \div n
<1>1. n \in Nat \ {0}
  BY BucketAssumption
<1>2. /\ i \div n \in Int /\ i % n \in 0 .. n - 1
      /\ i = n * (i \div n) + (i % n)
  BY <1>1, Division
<1>3. table_bucket_index_for_id(i) = i % n
  <2>1. CASE i >= 0
    BY <1>1, <1>2, <2>1 DEF table_bucket_index_for_id, CRemainder
  <2>2. CASE i < 0
    <3>1. q \in Int /\ m \in 0 .. n - 1 /\ -i = n * q + m
      BY <1>1, -i \in Int, Division
    <3> HIDE DEF m, q
    <3>2. CASE m = 0
      <4>1. 0 \in 0 .. n - 1 /\ -q \in Int /\ n * (-q) + 0 = n * (i \div n) + (i % n)
        BY <1>1, <1>2, <3>1, <3>2
      <4>2. i % n = 0
        BY <1>1, <1>2, <4>1, RemainderUnique
      <4> QED
        BY <2>2, <3>2, <4>2 DEF table_bucket_index_for_id, CRemainder, m
    <3>3. CASE m # 0
      <4>1. /\ n - m \in 0 .. n - 1 /\ -q - 1 \in Int
            /\ n * (-q - 1) + (n - m) = n * (i \div n) + (i % n)
        BY <1>1, <1>2, <3>1, <3>3
      <4>2. i % n = n - m
        BY <1>1, <1>2, <4>1, RemainderUnique
      <4> QED
        BY <1>1, <2>2, <3>1, <3>3, <4>2 DEF table_bucket_index_for_id, CRemainder, m
    <3> QED
      BY <3>2, <3>3
  <2> QED
    BY <1>1, <2>1, <2>2
<1> QED
  BY <1>1, <1>2, <1>3 DEF Bucket

-----------------------------------------------------------------------------

InsertPC == {"draw_id", "wrlock", "index", "append"}
SelectPC == {"rdlock", "search", "collect", "answer"}

\* What a client is doing agrees with where it is.
Requests ==
  \A c \in Client :
    /\ pc[c] = "idle" => doing[c] = Idle
    /\ pc[c] \in InsertPC => doing[c] \in [kind : {"insert"}, data : Payload]
    /\ pc[c] \in SelectPC =>
         doing[c] \in [kind : {"select"}, query : Query, floor : SUBSET Row]
    /\ pc[c] = "search" => UsesIndex(doing[c].query)
    /\ pc[c] \in {"collect", "answer"} => ~UsesIndex(doing[c].query)

\* A lock is held exactly by the clients that are between lock and unlock,
\* and never for reading and writing at once.
LockOwners ==
  \A b \in Bucket :
    /\ \A c \in Client : /\ writer[b] = c <=> pc[c] \in {"index", "append"} /\ bucket[c] = b
                         /\ c \in readers[b] <=> pc[c] \in {"search", "collect"} /\ bucket[c] = b
    /\ writer[b] # NoClient => readers[b] = {}

\* An INSERT works on the bucket of its id.
Placed ==
  \A c \in Client : pc[c] \in {"wrlock", "index", "append"} =>
    bucket[c] = table_bucket_index_for_id(record_id[c])

\* The clients between bptree_insert and the append, and their rows.
Appending(b) == {c \in Client : pc[c] = "append" /\ bucket[c] = b}
Pending(b) == {NewRow(c) : c \in Appending(b)}

\* The index of bucket b has one entry for a key.  An entry that does not
\* point to a freed record is a row of the bucket or the row its writer is
\* about to append.  Every row of the bucket, and the one about to be
\* appended, is in the index or has a damaged id.
Contents(b) ==
  /\ \A r \in pk_index[b] \cup ToSet(rows[b]) : table_bucket_index_for_id(r.id) = b
  /\ \A r, s \in pk_index[b] : r.id = s.id => r = s
  /\ \A r \in pk_index[b] : r.id \in freed \/ r \in ToSet(rows[b]) \cup Pending(b)
  /\ \A r \in ToSet(rows[b]) \cup Pending(b) : r.id \in damaged \/ r \in pk_index[b]

IndexContents == freed \subseteq damaged /\ \A b \in Bucket : Contents(b)

\* The rows of a bucket differ in their ids, from each other and from the
\* row that is about to be appended, unless the id is damaged.
DistinctIds ==
  /\ \A b \in Bucket : \A i, j \in DOMAIN rows[b] :
       i # j /\ rows[b][i].id = rows[b][j].id => rows[b][i].id \in damaged
  /\ \A c \in Client : pc[c] = "append" =>
       \A r \in ToSet(rows[bucket[c]]) : r.id = record_id[c] => r.id \in damaged

Inv == /\ TypeOK
       /\ Requests
       /\ LockOwners
       /\ Placed
       /\ IndexContents
       /\ DistinctIds

-----------------------------------------------------------------------------
LEMMA BucketFacts ==
  Bucket \subseteq Nat /\ 0 \in Bucket /\ \A q \in Query : FirstBucket(q) \in Bucket
<1>1. Bucket \subseteq Nat /\ 0 \in Bucket
  BY BucketAssumption DEF Bucket
<1>2. ASSUME NEW q \in Query PROVE FirstBucket(q) \in Bucket
  <2>1. CASE UsesIndex(q)
    <3>1. q.value \in Int
      BY <2>1, QueryAssumption, IdFacts
    <3> QED
      BY <2>1, <3>1, BucketOfId DEF FirstBucket
  <2>2. CASE ~UsesIndex(q)
    BY <1>1, <2>2 DEF FirstBucket
  <2> QED
    BY <2>1, <2>2
<1> QED
  BY <1>1, <1>2

(***************************************************************************)
(* Whatever a client returns with, it is idle and forgets its work.        *)
(***************************************************************************)
Gone(c) ==
  /\ pc' \in [Client -> ClientPC]
  /\ doing' \in [Client -> Request]
  /\ record_id' \in [Client -> Id]
  /\ bucket' \in [Client -> Bucket]
  /\ acc' \in [Client -> Seq(Row)]
  /\ pc'[c] = "idle" /\ doing'[c] = Idle /\ acc'[c] = <<>>
  /\ \A d \in Client \ {c} :
       /\ pc'[d] = pc[d] /\ doing'[d] = doing[d] /\ record_id'[d] = record_id[d]
       /\ bucket'[d] = bucket[d] /\ acc'[d] = acc[d]

LEMMA ReturnFacts ==
  ASSUME TypeOK, NEW c \in Client, NEW r, Return(c, r)
  PROVE  Gone(c)
<1>1. Idle \in Request
  BY DEF Request
<1> QED
  BY <1>1, IdFacts, BucketFacts DEF Return, TypeOK, ClientPC, Gone

(***************************************************************************)
(* On every path that unlocks, the client gives up the lock it holds and   *)
(* no other: after it, the locks are owned as they should be.              *)
(***************************************************************************)
Unlocked(c) ==
  /\ writer' \in [Bucket -> Client \cup {NoClient}]
  /\ readers' \in [Bucket -> SUBSET Client]
  /\ \A b \in Bucket : writer'[b] = IF writer[b] = c THEN NoClient ELSE writer[b]
  /\ \A b \in Bucket : readers'[b] = readers[b] \ {c}

LEMMA UnlockFacts ==
  ASSUME TypeOK, LockOwners, NEW c \in Client,
         \/ pc[c] \in {"index", "append"} /\ WrUnlock(c, bucket[c])
         \/ pc[c] \in {"search", "collect"} /\ RdUnlock(c, bucket[c])
         \/ pc[c] = "answer" /\ UNCHANGED <<writer, readers>>
  PROVE  Unlocked(c)
<1>1. CASE pc[c] \in {"index", "append"} /\ WrUnlock(c, bucket[c])
  BY <1>1 DEF TypeOK, LockOwners, WrUnlock, Unlocked
<1>2. CASE pc[c] \in {"search", "collect"} /\ RdUnlock(c, bucket[c])
  BY <1>2, ClientAssumption DEF TypeOK, LockOwners, RdUnlock, Unlocked
<1>3. CASE pc[c] = "answer" /\ UNCHANGED <<writer, readers>>
  <2>1. \A b \in Bucket : writer[b] # c /\ c \notin readers[b]
    BY <1>3 DEF LockOwners
  <2> QED
    BY <1>3, <2>1 DEF TypeOK, Unlocked
<1> QED
  BY <1>1, <1>2, <1>3

LEMMA LockRelease ==
  ASSUME TypeOK, LockOwners, NEW c \in Client, Unlocked(c),
         pc'[c] \notin {"index", "append", "search", "collect"},
         \A d \in Client \ {c} : pc'[d] = pc[d] /\ bucket'[d] = bucket[d]
  PROVE  LockOwners'
BY ClientAssumption DEF TypeOK, LockOwners, Unlocked

(***************************************************************************)
(* How an INSERT that stores nothing ends, how one that stores its row     *)
(* ends, how a SELECT ends, and how a scan is done with one bucket.        *)
(***************************************************************************)
LEMMA InsertEnds ==
  ASSUME TypeOK, LockOwners, NEW c \in Client, InsertFails(c) \/ InsertDuplicate(c)
  PROVE  /\ pc[c] = "index" /\ Gone(c) /\ Unlocked(c)
         /\ UNCHANGED <<next_id, rows, pk_index, freed, damaged, inserts>>
<1>1. /\ pc[c] = "index" /\ WrUnlock(c, bucket[c]) /\ Return(c, Failed)
      /\ UNCHANGED <<next_id, rows, pk_index, freed, damaged, inserts>>
  BY DEF InsertFails, InsertDuplicate, index
<1> QED
  BY <1>1, UnlockFacts, ReturnFacts

(***************************************************************************)
(* How an INSERT ends whose promotion fails: entries of its bucket are     *)
(* lost from the index, and every id for which that matters is damaged.    *)
(***************************************************************************)
Torn(c, lost) ==
  LET B == bucket[c]
      keys == pk_index[B] \cup {NewRow(c)}
  IN  /\ lost \subseteq keys
      /\ \A r \in pk_index[B] : r.id # record_id[c]
      /\ pk_index' = [pk_index EXCEPT ![B] = keys \ lost]
      /\ freed' = (freed \ Ids(lost)) \cup Ids({NewRow(c)} \ lost)
      /\ damaged' = damaged \cup Ids(lost \ {NewRow(c)}) \cup Ids({NewRow(c)} \ lost)

LEMMA TearEnds ==
  ASSUME TypeOK, Requests, LockOwners, NEW c \in Client, InsertTears(c)
  PROVE  /\ pc[c] = "index" /\ Gone(c) /\ Unlocked(c) /\ NewRow(c) \in Row
         /\ \E lost : Torn(c, lost)
         /\ UNCHANGED <<next_id, rows, inserts>>
<1>1. /\ pc[c] = "index" /\ WrUnlock(c, bucket[c]) /\ Return(c, Failed)
      /\ UNCHANGED <<next_id, rows, inserts>>
  BY DEF InsertTears
<1>2. NewRow(c) \in Row
  BY <1>1 DEF NewRow, Row, Requests, InsertPC, TypeOK
<1>3. \E lost : Torn(c, lost)
  BY DEF InsertTears, Torn, DuplicateKey
<1> QED
  BY <1>1, <1>2, <1>3, UnlockFacts, ReturnFacts

LEMMA AppendEnds ==
  ASSUME TypeOK, Requests, LockOwners, NEW c \in Client, AppendRow(c)
  PROVE  /\ pc[c] = "append" /\ Gone(c) /\ Unlocked(c) /\ NewRow(c) \in Row
         /\ rows' \in [Bucket -> Seq(Row)]
         /\ \A b \in Bucket : rows'[b] = IF b = bucket[c] THEN Append(rows[b], NewRow(c))
                                         ELSE rows[b]
         /\ UNCHANGED <<next_id, pk_index, freed, damaged, inserts>>
<1>1. /\ pc[c] = "append" /\ WrUnlock(c, bucket[c])
      /\ Return(c, Succeeded(<<NewRow(c)>>))
      /\ rows' = [rows EXCEPT ![bucket[c]] = Append(rows[bucket[c]], NewRow(c))]
      /\ UNCHANGED <<next_id, pk_index, freed, damaged, inserts>>
  BY DEF AppendRow, AppendTo, TypeOK, index
<1>2. NewRow(c) \in Row
  BY <1>1 DEF NewRow, Row, Requests, InsertPC, TypeOK
<1>3. Append(rows[bucket[c]], NewRow(c)) \in Seq(Row)
  BY <1>2 DEF TypeOK
<1>4. /\ rows' \in [Bucket -> Seq(Row)]
      /\ \A b \in Bucket : rows'[b] = IF b = bucket[c] THEN Append(rows[b], NewRow(c))
                                      ELSE rows[b]
  BY <1>1, <1>3 DEF TypeOK
<1> QED
  BY <1>1, <1>2, <1>4, UnlockFacts, ReturnFacts

SelectEnd(c) == SearchIndex(c) \/ ScanHit(c) \/ CollectFails(c)
                \/ AnswerScan(c) \/ AnswerFails(c)

LEMMA SelectEnds ==
  ASSUME TypeOK, LockOwners, NEW c \in Client, SelectEnd(c)
  PROVE  /\ pc[c] \in {"search", "collect", "answer"} /\ Gone(c) /\ Unlocked(c)
         /\ UNCHANGED <<next_id, rows, pk_index, freed, damaged, inserts>>
<1>1. /\ \/ pc[c] \in {"search", "collect"} /\ RdUnlock(c, bucket[c])
         \/ pc[c] = "answer" /\ UNCHANGED <<writer, readers>>
      /\ \E r : Return(c, r)
      /\ UNCHANGED <<next_id, rows, pk_index, freed, damaged, inserts>>
  <2>1. CASE SearchIndex(c) \/ ScanHit(c) \/ CollectFails(c)
    BY <2>1 DEF SearchIndex, ScanHit, CollectFails, index
  <2>2. CASE AnswerScan(c) \/ AnswerFails(c)
    BY <2>2 DEF AnswerScan, AnswerFails, locks, index
  <2> QED
    BY <2>1, <2>2 DEF SelectEnd
<1> QED
  BY <1>1, UnlockFacts, ReturnFacts

CollectEnd(c) ==
  /\ pc' \in [Client -> ClientPC]
  /\ bucket' \in [Client -> Bucket]
  /\ acc' \in [Client -> Seq(Row)]
  /\ pc[c] = "collect"
  /\ \/ pc'[c] = "rdlock" /\ bucket[c] + 1 < BUCKET_COUNT /\ bucket'[c] = bucket[c] + 1
     \/ pc'[c] = "answer" /\ bucket[c] + 1 = BUCKET_COUNT /\ bucket'[c] = 0
  /\ acc'[c] = IF FirstOnly(doing[c].query) THEN acc[c]
               ELSE acc[c] \o rows[bucket[c]]
  /\ \A d \in Client \ {c} :
       pc'[d] = pc[d] /\ bucket'[d] = bucket[d] /\ acc'[d] = acc[d]
  /\ UNCHANGED <<next_id, rows, pk_index, freed, damaged, doing, record_id, reply, inserts>>

LEMMA CollectFacts ==
  ASSUME TypeOK, LockOwners, NEW c \in Client, CollectBucket(c)
  PROVE  CollectEnd(c) /\ Unlocked(c)
<1>1. acc' \in [Client -> Seq(Row)]
  BY DEF TypeOK, CollectBucket
<1>2. bucket[c] + 1 < BUCKET_COUNT => bucket[c] + 1 \in Bucket
  BY BucketAssumption DEF TypeOK, Bucket
<1>3. bucket' \in [Client -> Bucket] /\ pc' \in [Client -> ClientPC]
  <2>1. CASE /\ bucket[c] + 1 < BUCKET_COUNT
             /\ bucket' = [bucket EXCEPT ![c] = @ + 1]
             /\ pc' = [pc EXCEPT ![c] = "rdlock"]
    BY <1>2, <2>1 DEF TypeOK, ClientPC
  <2>2. CASE /\ bucket' = [bucket EXCEPT ![c] = 0]
             /\ pc' = [pc EXCEPT ![c] = "answer"]
    BY <2>2, BucketFacts DEF TypeOK, ClientPC
  <2> QED
    BY <2>1, <2>2 DEF CollectBucket
<1>4. CollectEnd(c)
  BY <1>1, <1>3 DEF TypeOK, CollectBucket, CollectEnd, index
<1>5. Unlocked(c)
  BY UnlockFacts DEF CollectBucket
<1> QED
  BY <1>4, <1>5

-----------------------------------------------------------------------------
(* The invariant holds initially, and every action preserves each part.    *)

LEMMA Initial == Init => Inv
<1> SUFFICES ASSUME Init PROVE Inv
  OBVIOUS
<1>1. TypeOK
  BY IdFacts, BucketAssumption, InsertsAssumption DEF Init, TypeOK, ClientPC, Bucket, Request
<1>2. Requests /\ Placed
  BY DEF Init, Requests, Placed, InsertPC, SelectPC
<1>3. LockOwners
  BY ClientAssumption DEF Init, LockOwners
<1>4. IndexContents /\ DistinctIds
  BY DEF Init, IndexContents, Contents, DistinctIds, Pending, Appending, ToSet
<1> QED
  BY <1>1, <1>2, <1>3, <1>4 DEF Inv

LEMMA TypeStep == Inv /\ [Next]_vars => TypeOK'
<1> SUFFICES ASSUME Inv, [Next]_vars PROVE TypeOK'
  OBVIOUS
<1> USE DEF Inv, index, locks
<1>1. CASE UNCHANGED vars
  BY <1>1 DEF vars, index, locks, TypeOK
<1>2. ASSUME NEW c \in Client, Begin(c) \/ Step(c) PROVE TypeOK'
  <2>1. ASSUME NEW d \in Payload, BeginInsert(c, d) PROVE TypeOK'
    BY <2>1, InsertsAssumption DEF BeginInsert, locks, TypeOK, ClientPC, Request
  <2>2. ASSUME NEW q \in Query, BeginSelect(c, q) PROVE TypeOK'
    <3>1. Stored \in SUBSET Row
      BY DEF Stored, ToSet, TypeOK
    <3>2. [kind |-> "select", query |-> q, floor |-> Stored] \in Request
      BY <3>1 DEF Request
    <3> QED
      BY <2>2, <3>2, BucketFacts DEF BeginSelect, locks, TypeOK, ClientPC
  <2>3. CASE DrawId(c)
    BY <2>3, IdFacts, BucketOfId DEF DrawId, locks, TypeOK, ClientPC
  <2>4. CASE LockForInsert(c)
    BY <2>4 DEF LockForInsert, WrLock, TypeOK, ClientPC
  <2>5. CASE InsertFails(c) \/ InsertDuplicate(c)
    <3>1. pc[c] = "index" /\ Gone(c) /\ Unlocked(c)
          /\ UNCHANGED <<next_id, rows, pk_index, freed, damaged, inserts>>
      BY <2>5, InsertEnds
    <3> QED
      BY <3>1 DEF Gone, Unlocked, TypeOK
  <2>11. CASE InsertTears(c)
    <3>1. /\ Gone(c) /\ Unlocked(c) /\ NewRow(c) \in Row
          /\ \E lost : Torn(c, lost)
          /\ UNCHANGED <<next_id, rows, inserts>>
      BY <2>11, TearEnds
    <3>2. PICK lost : Torn(c, lost)
      BY <3>1
    <3>3. /\ pk_index' \in [Bucket -> SUBSET Row]
          /\ freed' \subseteq Id /\ damaged' \subseteq Id
      <4>1. pk_index[bucket[c]] \subseteq Row /\ \A r \in Row : r.id \in Id
        BY DEF TypeOK, Row
      <4> QED
        BY <3>1, <3>2, <4>1 DEF Torn, Ids, TypeOK
    <3> QED
      BY <3>1, <3>3 DEF Gone, Unlocked, TypeOK
  <2>6. CASE IndexRow(c)
    <3>1. NewRow(c) \in Row
      BY <2>6 DEF IndexRow, NewRow, Row, Requests, InsertPC, TypeOK
    <3> QED
      BY <2>6, <3>1 DEF IndexRow, locks, TypeOK, ClientPC
  <2>7. CASE AppendRow(c)
    <3>1. /\ Gone(c) /\ Unlocked(c) /\ rows' \in [Bucket -> Seq(Row)]
          /\ UNCHANGED <<next_id, pk_index, freed, damaged, inserts>>
      BY <2>7, AppendEnds
    <3> QED
      BY <3>1 DEF Gone, Unlocked, TypeOK
  <2>8. CASE LockForSelect(c)
    BY <2>8 DEF LockForSelect, RdLock, TypeOK, ClientPC
  <2>9. CASE SelectEnd(c)
    <3>1. Gone(c) /\ Unlocked(c) /\ UNCHANGED <<next_id, rows, pk_index, freed, damaged, inserts>>
      BY <2>9, SelectEnds
    <3> QED
      BY <3>1 DEF Gone, Unlocked, TypeOK
  <2>10. CASE CollectBucket(c)
    <3>1. CollectEnd(c) /\ Unlocked(c)
      BY <2>10, CollectFacts
    <3> QED
      BY <3>1 DEF CollectEnd, Unlocked, TypeOK
  <2> QED
    BY <1>2, <2>1, <2>2, <2>3, <2>4, <2>5, <2>6, <2>7, <2>8, <2>9, <2>10, <2>11 DEF Begin, Step, SelectEnd
<1> QED
  BY <1>1, <1>2 DEF Next

LEMMA RequestsStep == Inv /\ [Next]_vars => Requests'
<1> SUFFICES ASSUME Inv, [Next]_vars PROVE Requests'
  OBVIOUS
<1> USE DEF Inv, index, locks
<1>1. CASE UNCHANGED vars
  BY <1>1 DEF vars, index, locks, Requests
<1>2. ASSUME NEW c \in Client, Begin(c) \/ Step(c) PROVE Requests'
  <2>1. ASSUME NEW d \in Payload, BeginInsert(c, d) PROVE Requests'
    BY <2>1 DEF BeginInsert, TypeOK, Requests, InsertPC, SelectPC
  <2>2. ASSUME NEW q \in Query, BeginSelect(c, q) PROVE Requests'
    <3>1. Stored \in SUBSET Row
      BY DEF Stored, ToSet, TypeOK
    <3> QED
      BY <2>2, <3>1 DEF BeginSelect, TypeOK, Requests, InsertPC, SelectPC
  <2>3. CASE DrawId(c)
    BY <2>3 DEF DrawId, TypeOK, Requests, InsertPC, SelectPC
  <2>4. CASE LockForInsert(c)
    BY <2>4 DEF LockForInsert, TypeOK, Requests, InsertPC, SelectPC
  <2>5. CASE InsertFails(c) \/ InsertDuplicate(c)
    <3>1. Gone(c)
      BY <2>5, InsertEnds
    <3> QED
      BY <3>1 DEF Gone, TypeOK, Requests, InsertPC, SelectPC
  <2>11. CASE InsertTears(c)
    <3>1. Gone(c)
      BY <2>11, TearEnds
    <3> QED
      BY <3>1 DEF Gone, TypeOK, Requests, InsertPC, SelectPC
  <2>6. CASE IndexRow(c)
    BY <2>6 DEF IndexRow, TypeOK, Requests, InsertPC, SelectPC
  <2>7. CASE AppendRow(c)
    <3>1. Gone(c)
      BY <2>7, AppendEnds
    <3> QED
      BY <3>1 DEF Gone, TypeOK, Requests, InsertPC, SelectPC
  <2>8. CASE LockForSelect(c)
    BY <2>8 DEF LockForSelect, TypeOK, Requests, InsertPC, SelectPC
  <2>9. CASE SelectEnd(c)
    <3>1. Gone(c)
      BY <2>9, SelectEnds
    <3> QED
      BY <3>1 DEF Gone, TypeOK, Requests, InsertPC, SelectPC
  <2>10. CASE CollectBucket(c)
    <3>1. CollectEnd(c)
      BY <2>10, CollectFacts
    <3> QED
      BY <3>1 DEF CollectEnd, TypeOK, Requests, InsertPC, SelectPC
  <2> QED
    BY <1>2, <2>1, <2>2, <2>3, <2>4, <2>5, <2>6, <2>7, <2>8, <2>9, <2>10, <2>11 DEF Begin, Step, SelectEnd
<1> QED
  BY <1>1, <1>2 DEF Next

LEMMA LockStep == Inv /\ [Next]_vars => LockOwners'
<1> SUFFICES ASSUME Inv, [Next]_vars PROVE LockOwners'
  OBVIOUS
<1> USE DEF Inv, index, locks
<1>1. CASE UNCHANGED vars
  BY <1>1 DEF vars, index, locks, LockOwners
<1>2. ASSUME NEW c \in Client, Begin(c) \/ Step(c) PROVE LockOwners'
  <2>1. ASSUME NEW d \in Payload, BeginInsert(c, d) PROVE LockOwners'
    BY <2>1 DEF BeginInsert, locks, TypeOK, LockOwners
  <2>2. ASSUME NEW q \in Query, BeginSelect(c, q) PROVE LockOwners'
    BY <2>2 DEF BeginSelect, locks, TypeOK, LockOwners
  <2>3. CASE DrawId(c)
    BY <2>3 DEF DrawId, locks, TypeOK, LockOwners
  <2>4. CASE LockForInsert(c)
    BY <2>4, ClientAssumption DEF LockForInsert, WrLock, TypeOK, LockOwners
  <2>5. CASE InsertFails(c) \/ InsertDuplicate(c)
    <3>1. Gone(c) /\ Unlocked(c)
      BY <2>5, InsertEnds
    <3> QED
      BY <3>1, LockRelease DEF Gone
  <2>11. CASE InsertTears(c)
    <3>1. Gone(c) /\ Unlocked(c)
      BY <2>11, TearEnds
    <3> QED
      BY <3>1, LockRelease DEF Gone
  <2>6. CASE IndexRow(c)
    BY <2>6 DEF IndexRow, locks, TypeOK, LockOwners
  <2>7. CASE AppendRow(c)
    <3>1. Gone(c) /\ Unlocked(c)
      BY <2>7, AppendEnds
    <3> QED
      BY <3>1, LockRelease DEF Gone
  <2>8. CASE LockForSelect(c)
    BY <2>8, ClientAssumption DEF LockForSelect, RdLock, TypeOK, LockOwners
  <2>9. CASE SelectEnd(c)
    <3>1. Gone(c) /\ Unlocked(c)
      BY <2>9, SelectEnds
    <3> QED
      BY <3>1, LockRelease DEF Gone
  <2>10. CASE CollectBucket(c)
    <3>1. CollectEnd(c) /\ Unlocked(c)
      BY <2>10, CollectFacts
    <3> QED
      BY <3>1, LockRelease DEF CollectEnd
  <2> QED
    BY <1>2, <2>1, <2>2, <2>3, <2>4, <2>5, <2>6, <2>7, <2>8, <2>9, <2>10, <2>11 DEF Begin, Step, SelectEnd
<1> QED
  BY <1>1, <1>2 DEF Next

LEMMA PlacedStep == Inv /\ [Next]_vars => Placed'
<1> SUFFICES ASSUME Inv, [Next]_vars PROVE Placed'
  OBVIOUS
<1> USE DEF Inv, index, locks
<1>1. CASE UNCHANGED vars
  BY <1>1 DEF vars, index, locks, Placed
<1>2. ASSUME NEW c \in Client, Begin(c) \/ Step(c) PROVE Placed'
  <2>1. ASSUME NEW d \in Payload, BeginInsert(c, d) PROVE Placed'
    BY <2>1 DEF BeginInsert, TypeOK, Placed
  <2>2. ASSUME NEW q \in Query, BeginSelect(c, q) PROVE Placed'
    BY <2>2 DEF BeginSelect, TypeOK, Placed
  <2>3. CASE DrawId(c)
    BY <2>3 DEF DrawId, TypeOK, Placed
  <2>4. CASE LockForInsert(c)
    BY <2>4 DEF LockForInsert, TypeOK, Placed
  <2>5. CASE InsertFails(c) \/ InsertDuplicate(c)
    <3>1. Gone(c)
      BY <2>5, InsertEnds
    <3> QED
      BY <3>1 DEF Gone, TypeOK, Placed
  <2>11. CASE InsertTears(c)
    <3>1. Gone(c)
      BY <2>11, TearEnds
    <3> QED
      BY <3>1 DEF Gone, TypeOK, Placed
  <2>6. CASE IndexRow(c)
    BY <2>6 DEF IndexRow, TypeOK, Placed
  <2>7. CASE AppendRow(c)
    <3>1. Gone(c)
      BY <2>7, AppendEnds
    <3> QED
      BY <3>1 DEF Gone, TypeOK, Placed
  <2>8. CASE LockForSelect(c)
    BY <2>8 DEF LockForSelect, TypeOK, Placed
  <2>9. CASE SelectEnd(c)
    <3>1. Gone(c)
      BY <2>9, SelectEnds
    <3> QED
      BY <3>1 DEF Gone, TypeOK, Placed
  <2>10. CASE CollectBucket(c)
    <3>1. CollectEnd(c)
      BY <2>10, CollectFacts
    <3> QED
      BY <3>1 DEF CollectEnd, TypeOK, Placed
  <2> QED
    BY <1>2, <2>1, <2>2, <2>3, <2>4, <2>5, <2>6, <2>7, <2>8, <2>9, <2>10, <2>11 DEF Begin, Step, SelectEnd
<1> QED
  BY <1>1, <1>2 DEF Next

(***************************************************************************)
(* A step that leaves the rows and the index alone, and after which the    *)
(* same clients are about to append the same rows, keeps what is said of   *)
(* them.                                                                   *)
(***************************************************************************)
SamePending ==
  /\ rows' = rows /\ pk_index' = pk_index /\ freed' = freed /\ damaged' = damaged
  /\ \A c \in Client :
       /\ (pc[c] = "append")' <=> pc[c] = "append"
       /\ pc[c] = "append" => /\ bucket'[c] = bucket[c] /\ record_id'[c] = record_id[c]
                              /\ doing'[c] = doing[c]

LEMMA PendingKept == ASSUME SamePending, IndexContents, DistinctIds PROVE IndexContents' /\ DistinctIds'
<1>1. ASSUME NEW b \in Bucket PROVE Pending(b)' = Pending(b)
  BY DEF SamePending, Pending, Appending, NewRow
<1>2. IndexContents'
  BY <1>1 DEF SamePending, IndexContents, Contents
<1>3. DistinctIds'
  BY DEF SamePending, DistinctIds
<1> QED
  BY <1>2, <1>3

(***************************************************************************)
(* bptree_insert under the write lock: nobody else is about to append to   *)
(* the bucket, and the index had no row with the new id.                   *)
(***************************************************************************)
LEMMA IndexRowStep ==
  ASSUME Inv, NEW c \in Client, IndexRow(c)
  PROVE  IndexContents' /\ DistinctIds'
<1> USE DEF Inv, index, locks
<1>0. PICK B \in Bucket : B = bucket[c]
  BY DEF TypeOK
<1>1. /\ pc[c] = "index" /\ writer[B] = c
      /\ B = table_bucket_index_for_id(record_id[c])
  BY <1>0 DEF IndexRow, TypeOK, LockOwners, Placed
<1>2. /\ \A r \in pk_index[B] : r.id # record_id[c]
      /\ UNCHANGED <<rows, freed, damaged, doing, record_id, bucket>>
      /\ pc'[c] = "append" /\ \A d \in Client \ {c} : pc'[d] = pc[d]
      /\ pk_index'[B] = pk_index[B] \cup {NewRow(c)}
      /\ \A b \in Bucket \ {B} : pk_index'[b] = pk_index[b]
  BY <1>0 DEF IndexRow, DuplicateKey, TypeOK
<1>3. Pending(B) = {} /\ Pending(B)' = {NewRow(c)}
  <2>1. Appending(B) = {} /\ Appending(B)' = {c} /\ NewRow(c)' = NewRow(c)
    BY <1>0, <1>1, <1>2 DEF Appending, LockOwners, NewRow
  <2> QED
    BY <2>1 DEF Pending
<1>4. ASSUME NEW b \in Bucket \ {B} PROVE Pending(b)' = Pending(b)
  BY <1>0, <1>1, <1>2 DEF Pending, Appending, NewRow
<1>5. IndexContents'
  <2>1. ASSUME NEW b \in Bucket \ {B} PROVE Contents(b)'
    BY <1>2, <1>4 DEF IndexContents, Contents
  <2>2. Contents(B)'
    BY <1>1, <1>2, <1>3 DEF IndexContents, Contents, NewRow
  <2> QED
    BY <1>2, <2>1, <2>2 DEF IndexContents
<1>6. DistinctIds'
  <2>1. \A r \in ToSet(rows[B]) : r.id = record_id[c] => r.id \in damaged
    BY <1>1, <1>2 DEF IndexContents, Contents
  <2> QED
    BY <1>0, <1>2, <2>1 DEF DistinctIds
<1> QED
  BY <1>5, <1>6

(***************************************************************************)
(* The append under the same lock: the row that was only in the index is   *)
(* now in the array, too.                                                  *)
(***************************************************************************)
LEMMA AppendRowStep ==
  ASSUME Inv, NEW c \in Client, AppendRow(c)
  PROVE  IndexContents' /\ DistinctIds'
<1> USE DEF Inv, index, locks
<1>0. PICK B \in Bucket : B = bucket[c]
  BY DEF TypeOK
<1>1. /\ pc[c] = "append" /\ Gone(c) /\ NewRow(c) \in Row
      /\ \A b \in Bucket : rows'[b] = IF b = B THEN Append(rows[b], NewRow(c)) ELSE rows[b]
      /\ UNCHANGED <<pk_index, freed, damaged>>
  BY <1>0, AppendEnds
<1>2. writer[B] = c /\ rows[B] \in Seq(Row)
  BY <1>0, <1>1 DEF TypeOK, LockOwners
<1>3. Pending(B) = {NewRow(c)} /\ Pending(B)' = {}
  <2>1. \A d \in Client : pc[d] = "append" /\ bucket[d] = B => d = c
    BY <1>2 DEF LockOwners
  <2>2. Appending(B) = {c}
    BY <1>0, <1>1, <2>1 DEF Appending
  <2>3. Appending(B)' = {}
    <3>1. ASSUME NEW d \in Client, pc'[d] = "append", bucket'[d] = B PROVE FALSE
      BY <1>1, <2>1, <3>1 DEF Gone
    <3> QED
      BY <3>1 DEF Appending
  <2> QED
    BY <2>2, <2>3 DEF Pending
<1>4. ASSUME NEW b \in Bucket \ {B} PROVE Pending(b)' = Pending(b)
  <2>1. c \notin Appending(b) /\ Appending(b)' = Appending(b)
    BY <1>0, <1>1 DEF Appending, Gone
  <2>2. \A d \in Appending(b) : NewRow(d)' = NewRow(d)
    BY <1>1, <2>1 DEF Appending, Gone, NewRow
  <2> QED
    BY <2>1, <2>2 DEF Pending
<1>5. /\ rows'[B] = Append(rows[B], NewRow(c))
      /\ ToSet(rows'[B]) = ToSet(rows[B]) \cup {NewRow(c)}
      /\ DOMAIN rows[B] = 1 .. Len(rows[B]) /\ DOMAIN rows'[B] = 1 .. Len(rows[B]) + 1
      /\ Len(rows[B]) \in Nat
      /\ \A i \in DOMAIN rows[B] : rows'[B][i] = rows[B][i]
      /\ rows'[B][Len(rows[B]) + 1] = NewRow(c)
  <2>1. rows'[B] = Append(rows[B], NewRow(c))
    BY <1>1
  <2> QED
    BY <1>1, <1>2, <2>1, AppendFacts
<1>6. \A i \in DOMAIN rows[B] : rows[B][i].id = record_id[c] => record_id[c] \in damaged
  BY <1>0, <1>1 DEF DistinctIds, ToSet
<1>7. \A d \in Client \ {c} : pc'[d] = "append" =>
         bucket'[d] \in Bucket \ {B} /\ record_id'[d] = record_id[d] /\ bucket'[d] = bucket[d]
           /\ pc[d] = "append"
  BY <1>0, <1>1, <1>2 DEF Gone, LockOwners, TypeOK
<1>8. IndexContents'
  <2>1. ASSUME NEW b \in Bucket \ {B} PROVE Contents(b)'
    BY <1>1, <1>4 DEF IndexContents, Contents
  <2>2. Contents(B)'
    <3>1. table_bucket_index_for_id(NewRow(c).id) = B
      BY <1>0, <1>1 DEF Placed, NewRow
    <3> QED
      BY <1>1, <1>2, <1>3, <1>5, <3>1 DEF IndexContents, Contents
  <2> QED
    BY <1>1, <2>1, <2>2 DEF IndexContents
<1>9. DistinctIds'
  <2>1. \A i, j \in DOMAIN rows'[B] :
           i # j /\ rows'[B][i].id = rows'[B][j].id => rows'[B][i].id \in damaged'
    BY <1>1, <1>2, <1>5, <1>6 DEF DistinctIds, NewRow
  <2>2. ASSUME NEW d \in Client, pc'[d] = "append"
        PROVE  \A r \in ToSet(rows'[bucket'[d]]) : r.id = record_id'[d] => r.id \in damaged'
    <3>1. d # c
      BY <1>1, <2>2 DEF Gone
    <3> QED
      BY <1>1, <1>7, <2>2, <3>1 DEF DistinctIds
  <2> QED
    BY <1>1, <2>1, <2>2 DEF DistinctIds
<1> QED
  BY <1>8, <1>9

(***************************************************************************)
(* A failed promotion: what the index loses and what it keeps with a freed *)
(* record is damaged, and it had one entry for a key, so that nothing else *)
(* is.                                                                     *)
(***************************************************************************)
LEMMA TearStep ==
  ASSUME Inv, NEW c \in Client, InsertTears(c)
  PROVE  IndexContents' /\ DistinctIds'
<1> USE DEF Inv
<1>0. PICK B \in Bucket : B = bucket[c]
  BY DEF TypeOK
<1>1. pc[c] = "index" /\ Gone(c) /\ rows' = rows
  BY TearEnds
<1>2. PICK lost : Torn(c, lost)
  BY TearEnds
<1>3. PICK new : new = NewRow(c)
  OBVIOUS
<1>4. /\ lost \subseteq pk_index[B] \cup {new}
      /\ \A r \in pk_index[B] : r.id # new.id
      /\ pk_index'[B] = (pk_index[B] \cup {new}) \ lost
      /\ \A b \in Bucket \ {B} : pk_index'[b] = pk_index[b]
      /\ freed' = (freed \ Ids(lost)) \cup Ids({new} \ lost)
      /\ damaged' = damaged \cup Ids(lost \ {new}) \cup Ids({new} \ lost)
      /\ table_bucket_index_for_id(new.id) = B
  BY <1>0, <1>1, <1>2, <1>3 DEF Torn, TypeOK, NewRow, Placed
<1>5. ASSUME NEW b \in Bucket PROVE Pending(b)' = Pending(b)
  <2>1. c \notin Appending(b) /\ Appending(b)' = Appending(b)
    BY <1>1 DEF Appending, Gone
  <2>2. \A d \in Appending(b) : NewRow(d)' = NewRow(d)
    BY <1>1, <2>1 DEF Appending, Gone, NewRow
  <2> QED
    BY <2>1, <2>2 DEF Pending
<1>6. Pending(B) = {}
  <2>1. writer[B] = c /\ pc[c] # "append"
    BY <1>0, <1>1 DEF LockOwners
  <2>2. Appending(B) = {}
    BY <2>1 DEF LockOwners, Appending
  <2> QED
    BY <2>2 DEF Pending
<1>7. damaged \subseteq damaged' /\ freed' \subseteq damaged'
  BY <1>4 DEF IndexContents
<1>8. \A r \in lost : r = new \/ r.id \in damaged'
  BY <1>4 DEF Ids
<1>9. new \in lost \/ new.id \in freed'
  BY <1>4 DEF Ids
<1>10. \A i \in freed : i \in freed' \/ \E r \in lost : r.id = i
  BY <1>4 DEF Ids
<1>11. Contents(B)'
  <2>1. Contents(B)
    BY DEF IndexContents
  <2>2. ASSUME NEW r \in pk_index'[B]
        PROVE r.id \in freed' \/ r \in ToSet(rows[B])
    <3>1. CASE r = new
      BY <1>4, <1>9, <2>2, <3>1
    <3>2. CASE r # new
      <4>1. r \in pk_index[B] /\ r \notin lost
        BY <1>4, <2>2, <3>2
      <4>2. \A l \in lost : l.id # r.id
        BY <1>4, <2>1, <4>1 DEF Contents
      <4> QED
        BY <1>6, <1>10, <2>1, <4>1, <4>2 DEF Contents
    <3> QED
      BY <3>1, <3>2
  <2>3. ASSUME NEW r \in ToSet(rows[B]) PROVE r.id \in damaged' \/ r \in pk_index'[B]
    <3>1. r.id \in damaged \/ r \in pk_index[B]
      BY <2>1 DEF Contents
    <3> QED
      BY <1>4, <1>7, <1>8, <3>1
  <2>4. \A r \in pk_index'[B] \cup ToSet(rows'[B]) : table_bucket_index_for_id(r.id) = B
    BY <1>1, <1>4, <2>1 DEF Contents
  <2>5. \A r, s \in pk_index'[B] : r.id = s.id => r = s
    BY <1>4, <2>1 DEF Contents
  <2>6. rows'[B] = rows[B] /\ Pending(B)' = {}
    BY <1>1, <1>5, <1>6
  <2> QED
    BY <2>2, <2>3, <2>4, <2>5, <2>6 DEF Contents
<1>12. ASSUME NEW b \in Bucket \ {B} PROVE Contents(b)'
  <2>1. Contents(b) /\ Contents(B)
    BY DEF IndexContents
  <2>2. ASSUME NEW r \in pk_index[b], NEW l \in lost PROVE l.id # r.id
    BY <1>4, <2>1 DEF Contents
  <2>3. \A r \in pk_index[b] : r.id \in freed => r.id \in freed'
    BY <1>10, <2>2
  <2> QED
    BY <1>1, <1>4, <1>5, <1>7, <2>1, <2>3 DEF Contents
<1>13. IndexContents'
  BY <1>7, <1>11, <1>12 DEF IndexContents
<1>14. DistinctIds'
  BY <1>1, <1>7 DEF DistinctIds, Gone
<1> QED
  BY <1>13, <1>14

LEMMA ContentsStep == Inv /\ [Next]_vars => (IndexContents /\ DistinctIds)'
<1> SUFFICES ASSUME Inv, [Next]_vars PROVE (IndexContents /\ DistinctIds)'
  OBVIOUS
<1> USE DEF Inv, index, locks
<1>1. CASE UNCHANGED vars
  <2>1. SamePending
    BY <1>1 DEF vars, SamePending
  <2> QED
    BY <2>1, PendingKept
<1>2. ASSUME NEW c \in Client, Begin(c) \/ Step(c) PROVE (IndexContents /\ DistinctIds)'
  <2>1. ASSUME NEW d \in Payload, BeginInsert(c, d) PROVE (IndexContents /\ DistinctIds)'
    <3>1. SamePending
      BY <2>1 DEF BeginInsert, SamePending, TypeOK
    <3> QED
      BY <3>1, PendingKept
  <2>2. ASSUME NEW q \in Query, BeginSelect(c, q) PROVE (IndexContents /\ DistinctIds)'
    <3>1. SamePending
      BY <2>2 DEF BeginSelect, SamePending, TypeOK
    <3> QED
      BY <3>1, PendingKept
  <2>3. CASE DrawId(c)
    <3>1. SamePending
      BY <2>3 DEF DrawId, SamePending, TypeOK
    <3> QED
      BY <3>1, PendingKept
  <2>4. CASE LockForInsert(c)
    <3>1. SamePending
      BY <2>4 DEF LockForInsert, SamePending, TypeOK
    <3> QED
      BY <3>1, PendingKept
  <2>5. CASE InsertFails(c) \/ InsertDuplicate(c)
    <3>1. pc[c] = "index" /\ Gone(c) /\ UNCHANGED <<rows, pk_index, freed, damaged>>
      BY <2>5, InsertEnds
    <3>2. SamePending
      BY <3>1 DEF Gone, SamePending, TypeOK
    <3> QED
      BY <3>2, PendingKept
  <2>11. CASE InsertTears(c)
    BY <2>11, TearStep
  <2>6. CASE IndexRow(c)
    BY <2>6, IndexRowStep
  <2>7. CASE AppendRow(c)
    BY <2>7, AppendRowStep
  <2>8. CASE LockForSelect(c)
    <3>1. SamePending
      BY <2>8 DEF LockForSelect, SamePending, TypeOK
    <3> QED
      BY <3>1, PendingKept
  <2>9. CASE SelectEnd(c)
    <3>1. /\ pc[c] \in {"search", "collect", "answer"} /\ Gone(c)
          /\ UNCHANGED <<rows, pk_index, freed, damaged>>
      BY <2>9, SelectEnds
    <3>2. SamePending
      BY <3>1 DEF Gone, SamePending, TypeOK
    <3> QED
      BY <3>2, PendingKept
  <2>10. CASE CollectBucket(c)
    <3>1. CollectEnd(c)
      BY <2>10, CollectFacts
    <3>2. SamePending
      BY <3>1 DEF CollectEnd, SamePending, TypeOK
    <3> QED
      BY <3>2, PendingKept
  <2> QED
    BY <1>2, <2>1, <2>2, <2>3, <2>4, <2>5, <2>6, <2>7, <2>8, <2>9, <2>10, <2>11 DEF Begin, Step, SelectEnd
<1> QED
  BY <1>1, <1>2 DEF Next

(***************************************************************************)
(* Inv is an invariant of the table.                                       *)
(***************************************************************************)
LEMMA Invariance == Spec => []Inv
<1>1. Inv /\ [Next]_vars => Inv'
  <2> SUFFICES ASSUME Inv, [Next]_vars PROVE Inv'
    OBVIOUS
  <2> QED
    BY TypeStep, RequestsStep, LockStep, PlacedStep, ContentsStep DEF Inv
<1> QED
  BY Initial, <1>1, PTL DEF Spec

-----------------------------------------------------------------------------
(***************************************************************************)
(* Every variable always has a value of its type: next_id is an int also   *)
(* after it has wrapped around, and every bucket index is one.             *)
(***************************************************************************)
THEOREM TypeCorrect == Spec => []TypeOK
BY Invariance, PTL DEF Inv

(***************************************************************************)
(* Outside a write lock, lookups through the index and scans of the array  *)
(* see the same rows whichever of the steps of table_insert failed, except *)
(* for the ids that failed promotions have damaged: those that were cut    *)
(* off, and those left with a freed record.                                *)
(***************************************************************************)
THEOREM IndexAgrees == Spec => []IndexMatchesRows
<1>1. Inv => IndexMatchesRows
  <2> SUFFICES ASSUME Inv, NEW b \in Bucket, writer[b] = NoClient
               PROVE  Intact(pk_index[b]) = Intact(ToSet(rows[b]))
    BY DEF IndexMatchesRows
  <2>1. Appending(b) = {}
    BY ClientAssumption DEF Inv, LockOwners, Appending
  <2>2. Pending(b) = {}
    BY <2>1 DEF Pending
  <2>3. freed \subseteq damaged /\ Contents(b)
    BY DEF Inv, IndexContents
  <2> QED
    BY <2>2, <2>3 DEF Contents, Intact
<1> QED
  BY <1>1, Invariance, PTL

(***************************************************************************)
(* Every row is in the bucket of its id, and two rows have the same id     *)
(* only if a failed promotion had lost it, even when next_id has wrapped   *)
(* around and hands out ids a second time.                                 *)
(***************************************************************************)
THEOREM IdsUnique == Spec => []UniqueIds
<1>1. Inv => UniqueIds
  <2> SUFFICES ASSUME Inv PROVE UniqueIds
    OBVIOUS
  <2>1. ASSUME NEW b \in Bucket, NEW r \in ToSet(rows[b]) PROVE r.id % BUCKET_COUNT = b
    <3>1. r \in Row /\ r.id \in Int
      <4>1. rows[b] \in Seq(Row)
        BY DEF Inv, TypeOK
      <4>2. r \in Row
        BY <4>1 DEF ToSet
      <4> QED
        BY <4>2, IdFacts DEF Row
    <3>2. table_bucket_index_for_id(r.id) = b
      BY <2>1 DEF Inv, IndexContents, Contents
    <3> QED
      BY <3>1, <3>2, BucketOfId
  <2> QED
    BY <2>1 DEF Inv, DistinctIds, UniqueIds
<1> QED
  BY <1>1, Invariance, PTL

(***************************************************************************)
(* No step changes or removes a row that is in an array: the row pointers  *)
(* that a SELECT reads after it has unlocked stay good.                    *)
(***************************************************************************)
THEOREM RowsAreKept == Spec => RowsOnlyGrow
<1>1. Inv /\ [Next]_vars => [\A b \in Bucket : IsPrefix(rows[b], rows'[b])]_vars
  <2> SUFFICES ASSUME Inv, Next, NEW b \in Bucket PROVE IsPrefix(rows[b], rows'[b])
    OBVIOUS
  <2>1. PICK c \in Client : Begin(c) \/ Step(c)
    BY DEF Next
  <2>2. CASE AppendRow(c)
    <3>1. /\ NewRow(c) \in Row
          /\ rows'[b] = IF b = bucket[c] THEN Append(rows[b], NewRow(c)) ELSE rows[b]
      BY <2>2, AppendEnds DEF Inv
    <3> QED
      BY <3>1, AppendFacts DEF Inv, TypeOK, IsPrefix
  <2>3. CASE ~AppendRow(c)
    <3>1. rows' = rows
      BY <2>1, <2>3
         DEF Begin, Step, BeginInsert, DrawId, LockForInsert, InsertFails, InsertDuplicate,
             IndexRow, BeginSelect, LockForSelect, SearchIndex, ScanHit, CollectBucket,
             CollectFails, AnswerScan, AnswerFails, InsertTears
    <3> QED
      BY <3>1 DEF Inv, TypeOK, IsPrefix
  <2> QED
    BY <2>2, <2>3
<1> QED
  BY <1>1, Invariance, PTL DEF Spec, RowsOnlyGrow
=============================================================================
