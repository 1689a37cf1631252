-------------------------------- MODULE Table --------------------------------
(***************************************************************************)
(* src/sql_processor/table.c shared by several threads, driven as          *)
(* sql_execute_plan in src/sql_processor/sql.c drives it.                  *)
(*                                                                         *)
(* Rows are spread over BUCKET_COUNT buckets by id.  A bucket has a        *)
(* read-write lock, an array of rows and an index (a B+ tree in the code,  *)
(* here the rows that a search from its root finds).  Ids come from a      *)
(* counter under a mutex of its own, which is released before the bucket   *)
(* is locked.  A scan locks the buckets one after the other.               *)
(*                                                                         *)
(* The pthread calls of table.c cannot fail here: the locks are default    *)
(* ones, initialised before the table is used, and no thread asks for one  *)
(* it holds.  Allocations can, also in the middle of bptree_insert.        *)
(***************************************************************************)
EXTENDS Where, Sequences, FiniteSets, SequencesExt

CONSTANTS Client,        \* the worker threads that use the table
          Payload,       \* [name, age] of a row
          Query,         \* the SELECTs clients may run
          BUCKET_COUNT,  \* TABLE_BUCKET_COUNT
          ORDER,         \* BPTREE_ORDER
          INT_BITS,      \* width of a C int
          MAX_INSERTS,   \* bound: INSERTs started in a behaviour
          AllocMayFail,  \* whether malloc, calloc and realloc may fail
          NoClient

ASSUME BucketAssumption == BUCKET_COUNT \in Nat \ {0}
ASSUME OrderAssumption == ORDER \in Nat \ {0, 1}
ASSUME InsertsAssumption == MAX_INSERTS \in Nat
ASSUME AllocAssumption == AllocMayFail \in BOOLEAN
ASSUME ClientAssumption == NoClient \notin Client

INT_MAX == 2 ^ (INT_BITS - 1) - 1
INT_MIN == -(2 ^ (INT_BITS - 1))
Id == INT_MIN .. INT_MAX

\* An int has a positive value.  (That 2 ^ n is positive is beyond the provers.)
ASSUME IntAssumption == INT_BITS \in Nat \ {0, 1} /\ INT_MAX \in Nat \ {0}

Bucket == 0 .. BUCKET_COUNT - 1
Row == [id : Id, data : Payload]

VARIABLES
  next_id,    \* table->next_id
  rows,       \* rows[b]: the row array of bucket b
  pk_index,   \* pk_index[b]: the rows reachable through the index of b
  freed,      \* the keys whose entry in an index points to a freed record
  writer,     \* writer[b]: who holds the lock of b for writing
  readers,    \* readers[b]: who holds it for reading
  pc,         \* where each client is
  doing,      \* its request, as UsersTable records it
  record_id,  \* the id an INSERT has drawn
  bucket,     \* the bucket a client works on
  acc,        \* the row pointers a scan has collected
  reply,      \* its SqlResult, Failed until the operation has one
  inserts,    \* INSERTs started so far
  damaged     \* history: the ids whose index entry a failed INSERT spoiled

locks == <<writer, readers>>
index == <<pk_index, freed, damaged>>
vars == <<next_id, rows, index, locks, pc, doing, record_id, bucket, acc,
          reply, inserts>>

-----------------------------------------------------------------------------
(* Helpers of the code.                                                    *)

\* Mutant: as if an int had no end.
IncrementUnbounded(i) == i + 1

\* ++ on an int.  On overflow the build wraps around.
Increment(i) == IF i = INT_MAX THEN INT_MIN ELSE i + 1

\* The C remainder has the sign of the dividend.
CRemainder(i, n) == IF i >= 0 THEN i % n ELSE -((-i) % n)

table_bucket_index_for_id(id) ==
  LET r == CRemainder(id, BUCKET_COUNT)
  IN  IF r < 0 THEN r + BUCKET_COUNT ELSE r

\* Mutant: rows come back in the order of the buckets.
Unsorted(s) == {s}

\* What qsort may make of an array: its rows, rearranged by ascending id.
table_sort_records_by_id(s) ==
  LET Order == {p \in Bijection(DOMAIN s, DOMAIN s) :
                 \A i, j \in DOMAIN s : i < j => s[p[i]].id <= s[p[j]].id}
  IN  {[i \in DOMAIN s |-> s[p[i]]] : p \in Order}

\* Only an equality on id goes through the index.
UsesIndex(q) == q.column = "id" /\ q.comparison = "=="

\* table_scan_by_id returns one row.
FirstOnly(q) == q.column = "scan_id"

\* The number an id is compared with is an int.
ASSUME QueryAssumption == \A q \in Query : UsesIndex(q) => q.value \in Id

Idle == [kind |-> "idle"]
Failed == [ok |-> FALSE, rows |-> <<>>]
Succeeded(s) == [ok |-> TRUE, rows |-> s]

Stored == UNION {ToSet(rows[b]) : b \in Bucket}

Init == /\ next_id = 1
        /\ rows = [b \in Bucket |-> <<>>]
        /\ pk_index = [b \in Bucket |-> {}]
        /\ freed = {}
        /\ writer = [b \in Bucket |-> NoClient]
        /\ readers = [b \in Bucket |-> {}]
        /\ pc = [c \in Client |-> "idle"]
        /\ doing = [c \in Client |-> Idle]
        /\ record_id = [c \in Client |-> 0]
        /\ bucket = [c \in Client |-> 0]
        /\ acc = [c \in Client |-> <<>>]
        /\ reply = [c \in Client |-> Failed]
        /\ inserts = 0
        /\ damaged = {}

\* Client c is done; what it worked with no longer matters.
Return(c, r) == /\ pc' = [pc EXCEPT ![c] = "idle"]
                /\ doing' = [doing EXCEPT ![c] = Idle]
                /\ record_id' = [record_id EXCEPT ![c] = 0]
                /\ bucket' = [bucket EXCEPT ![c] = 0]
                /\ acc' = [acc EXCEPT ![c] = <<>>]
                /\ reply' = [reply EXCEPT ![c] = r]

-----------------------------------------------------------------------------
(* The read-write locks: many readers or one writer.                       *)

WrLock(c, b) == /\ writer[b] = NoClient
                /\ readers[b] = {}
                /\ writer' = [writer EXCEPT ![b] = c]
                /\ UNCHANGED readers

RdLock(c, b) == /\ writer[b] = NoClient
                /\ readers' = [readers EXCEPT ![b] = @ \cup {c}]
                /\ UNCHANGED writer

WrUnlock(c, b) == /\ writer' = [writer EXCEPT ![b] = NoClient]
                  /\ UNCHANGED readers

\* Mutant: a path that forgets to unlock.
RdUnlockForgotten(c, b) == UNCHANGED <<readers, writer>>
RdUnlock(c, b) == /\ readers' = [readers EXCEPT ![b] = @ \ {c}]
                  /\ UNCHANGED writer

-----------------------------------------------------------------------------
(* sql_execute_plan and table_insert.                                      *)

BeginInsert(c, d) ==
  /\ pc[c] = "idle"
  /\ inserts < MAX_INSERTS
  /\ inserts' = inserts + 1
  /\ pc' = [pc EXCEPT ![c] = "draw_id"]
  /\ doing' = [doing EXCEPT ![c] = [kind |-> "insert", data |-> d]]
  /\ reply' = [reply EXCEPT ![c] = Failed]
  /\ UNCHANGED <<next_id, rows, index, locks, record_id, bucket, acc>>

\* record_id = table->next_id++ under next_id_lock; no bucket is locked yet.
DrawId(c) ==
  /\ pc[c] = "draw_id"
  /\ record_id' = [record_id EXCEPT ![c] = next_id]
  /\ next_id' = Increment(next_id)
  /\ bucket' = [bucket EXCEPT ![c] = table_bucket_index_for_id(next_id)]
  /\ pc' = [pc EXCEPT ![c] = "wrlock"]
  /\ UNCHANGED <<rows, index, locks, doing, acc, reply, inserts>>

LockForInsert(c) ==
  /\ pc[c] = "wrlock"
  /\ WrLock(c, bucket[c])
  /\ pc' = [pc EXCEPT ![c] = "index"]
  /\ UNCHANGED <<next_id, rows, index, doing, record_id, bucket, acc, reply,
                 inserts>>

\* Mutant: the failure comes after the row has been indexed.
InsertFailsLate(c) ==
  /\ pc[c] = "append"
  /\ WrUnlock(c, bucket[c])
  /\ Return(c, Failed)
  /\ UNCHANGED <<next_id, rows, index, inserts>>

\* table_ensure_capacity, the calloc of the record, or in bptree_insert that
\* of the first leaf or of the right half of a full one fails before anything
\* has been changed: unlock and return NULL.  The id is spent.
InsertFails(c) ==
  /\ AllocMayFail
  /\ pc[c] = "index"
  /\ WrUnlock(c, bucket[c])
  /\ Return(c, Failed)
  /\ UNCHANGED <<next_id, rows, index, inserts>>

NewRow(c) == [id |-> record_id[c], data |-> doing[c].data]

\* Mutant: the index takes any key.
AnyKey(b, id) == FALSE
DuplicateKey(b, id) == \E r \in pk_index[b] : r.id = id

\* bptree_insert refuses a duplicate: free the record, return NULL.
InsertDuplicate(c) ==
  /\ pc[c] = "index"
  /\ DuplicateKey(bucket[c], record_id[c])
  /\ WrUnlock(c, bucket[c])
  /\ Return(c, Failed)
  /\ UNCHANGED <<next_id, rows, index, inserts>>

IndexRow(c) ==
  /\ pc[c] = "index"
  /\ ~DuplicateKey(bucket[c], record_id[c])
  /\ pk_index' = [pk_index EXCEPT ![bucket[c]] = @ \cup {NewRow(c)}]
  /\ pc' = [pc EXCEPT ![c] = "append"]
  /\ UNCHANGED <<next_id, rows, freed, damaged, locks, doing, record_id, bucket,
                 acc, reply, inserts>>

\* What a failed promotion cuts off from the root: a run of neighbouring keys,
\* the right half of a full leaf or more, above the half that has stayed.
CutOff(keys, lost) ==
  /\ Cardinality(lost) >= ORDER - ORDER \div 2
  /\ Cardinality({r \in keys : \A l \in lost : r.id < l.id}) >= ORDER \div 2
  /\ \A l, m \in lost, r \in keys : l.id < r.id /\ r.id < m.id => r \in lost

Ids(S) == {r.id : r \in S}

\* The leaf has been split, and then there is no node for the new root or for
\* the right half of a full parent: bptree_insert returns 0 with the right
\* half cut off, and the record is freed although its entry, when it is in
\* the left half, stays in the tree.
InsertTears(c) ==
  /\ AllocMayFail
  /\ pc[c] = "index"
  /\ ~DuplicateKey(bucket[c], record_id[c])
  /\ LET keys == pk_index[bucket[c]] \cup {NewRow(c)}
     IN  \E lost \in SUBSET keys :
           /\ CutOff(keys, lost)
           /\ pk_index' = [pk_index EXCEPT ![bucket[c]] = keys \ lost]
           /\ freed' = (freed \ Ids(lost)) \cup Ids({NewRow(c)} \ lost)
           /\ damaged' = damaged \cup Ids(lost \ {NewRow(c)})
                                 \cup Ids({NewRow(c)} \ lost)
  /\ WrUnlock(c, bucket[c])
  /\ Return(c, Failed)
  /\ UNCHANGED <<next_id, rows, inserts>>

\* Mutant: bucket->size is not advanced past the last row.
OverwriteLast(s, r) == IF s = <<>> THEN <<r>> ELSE [s EXCEPT ![Len(s)] = r]
AppendTo(s, r) == Append(s, r)

AppendRow(c) ==
  /\ pc[c] = "append"
  /\ rows' = [rows EXCEPT ![bucket[c]] = AppendTo(@, NewRow(c))]
  /\ WrUnlock(c, bucket[c])
  /\ Return(c, Succeeded(<<NewRow(c)>>))
  /\ UNCHANGED <<next_id, index, inserts>>

-----------------------------------------------------------------------------
(* The SELECTs.                                                            *)

\* Mutant: a scan starts at the second bucket.
FirstBucketSkipped(q) == IF UsesIndex(q) THEN table_bucket_index_for_id(q.value)
                         ELSE 1 % BUCKET_COUNT
FirstBucket(q) == IF UsesIndex(q) THEN table_bucket_index_for_id(q.value) ELSE 0

BeginSelect(c, q) ==
  /\ pc[c] = "idle"
  /\ pc' = [pc EXCEPT ![c] = "rdlock"]
  /\ doing' = [doing EXCEPT ![c] = [kind |-> "select", query |-> q, floor |-> Stored]]
  /\ bucket' = [bucket EXCEPT ![c] = FirstBucket(q)]
  /\ reply' = [reply EXCEPT ![c] = Failed]
  /\ UNCHANGED <<next_id, rows, index, locks, record_id, acc, inserts>>

LockForSelect(c) ==
  /\ pc[c] = "rdlock"
  /\ RdLock(c, bucket[c])
  /\ pc' = [pc EXCEPT ![c] = IF UsesIndex(doing[c].query) THEN "search"
                             ELSE "collect"]
  /\ UNCHANGED <<next_id, rows, index, doing, record_id, bucket, acc, reply,
                 inserts>>

\* table_find_by_id: search the index, unlock, hand back the row if any.
Found(c) == {r \in pk_index[bucket[c]] : r.id = doing[c].query.value}

\* What a freed record holds when it is read is anything.
FoundRows(c) == IF doing[c].query.value \in freed THEN {<<r>> : r \in Row}
                ELSE {SetToSeq(Found(c))}

SearchIndex(c) ==
  /\ pc[c] = "search"
  /\ \E s \in FoundRows(c) : Return(c, Succeeded(s))
  /\ RdUnlock(c, bucket[c])
  /\ UNCHANGED <<next_id, rows, index, inserts>>

\* table_scan_by_id looks at the rows in place and stops at the first hit.
Hits(c) == {i \in DOMAIN rows[bucket[c]] :
             rows[bucket[c]][i].id = doing[c].query.value}

ScanHit(c) ==
  /\ pc[c] = "collect"
  /\ FirstOnly(doing[c].query)
  /\ Hits(c) # {}
  /\ RdUnlock(c, bucket[c])
  /\ Return(c, Succeeded(<<rows[bucket[c]][Min(Hits(c))]>>))
  /\ UNCHANGED <<next_id, rows, index, inserts>>

\* One bucket of a scan: copy its row pointers, unlock, go on to the next.
CollectBucket(c) ==
  /\ pc[c] = "collect"
  /\ ~(FirstOnly(doing[c].query) /\ Hits(c) # {})
  /\ acc' = [acc EXCEPT ![c] = IF FirstOnly(doing[c].query) THEN @
                               ELSE @ \o rows[bucket[c]]]
  /\ RdUnlock(c, bucket[c])
  /\ \/ /\ bucket[c] + 1 < BUCKET_COUNT
        /\ bucket' = [bucket EXCEPT ![c] = @ + 1]
        /\ pc' = [pc EXCEPT ![c] = "rdlock"]
     \/ /\ bucket[c] + 1 = BUCKET_COUNT
        /\ bucket' = [bucket EXCEPT ![c] = 0]
        /\ pc' = [pc EXCEPT ![c] = "answer"]
  /\ UNCHANGED <<next_id, rows, index, doing, record_id, reply, inserts>>

\* table_append_record cannot grow the array: unlock, free it, return 0.
CollectFails(c) ==
  /\ AllocMayFail
  /\ pc[c] = "collect"
  /\ ~FirstOnly(doing[c].query)
  /\ rows[bucket[c]] # <<>>
  /\ RdUnlock(c, bucket[c])
  /\ Return(c, Failed)
  /\ UNCHANGED <<next_id, rows, index, inserts>>

\* Sort by id, keep what matches.
AnswerScan(c) ==
  /\ pc[c] = "answer"
  /\ \E sorted \in table_sort_records_by_id(acc[c]) :
       Return(c, Succeeded(MatchingRows(doing[c].query, sorted)))
  /\ UNCHANGED <<next_id, rows, index, locks, inserts>>

\* The array of the matches, or of the one row an index search found, cannot
\* be allocated.  A SELECT of all rows needs no second array.
AnswerFails(c) ==
  /\ AllocMayFail
  /\ \/ /\ pc[c] = "answer"
        /\ doing[c].query.column # "all"
        /\ \E r \in ToSet(acc[c]) : Matches(doing[c].query, r)
        /\ UNCHANGED locks
     \/ /\ pc[c] = "search"
        /\ Found(c) # {}
        /\ RdUnlock(c, bucket[c])
  /\ Return(c, Failed)
  /\ UNCHANGED <<next_id, rows, index, inserts>>

-----------------------------------------------------------------------------
Step(c) == \/ DrawId(c) \/ LockForInsert(c) \/ InsertFails(c)
           \/ InsertDuplicate(c) \/ InsertTears(c) \/ IndexRow(c) \/ AppendRow(c)
           \/ LockForSelect(c) \/ SearchIndex(c) \/ ScanHit(c)
           \/ CollectBucket(c) \/ CollectFails(c) \/ AnswerScan(c)
           \/ AnswerFails(c)

Begin(c) == \/ \E d \in Payload : BeginInsert(c, d)
            \/ \E q \in Query : BeginSelect(c, q)

Next == \E c \in Client : Begin(c) \/ Step(c)

Spec == Init /\ [][Next]_vars

\* A thread inside the table keeps running; nobody has to start anything.
FairSpec == Spec /\ \A c \in Client : WF_vars(Step(c))

-----------------------------------------------------------------------------
(* Properties.                                                             *)

ClientPC == {"idle", "draw_id", "wrlock", "index", "append", "rdlock",
             "search", "collect", "answer"}

Request == {Idle} \cup [kind : {"insert"}, data : Payload]
                  \cup [kind : {"select"}, query : Query, floor : SUBSET Row]

\* Every variable has a value of its type.
TypeOK == /\ next_id \in Id
          /\ rows \in [Bucket -> Seq(Row)]
          /\ pk_index \in [Bucket -> SUBSET Row]
          /\ freed \subseteq Id
          /\ writer \in [Bucket -> Client \cup {NoClient}]
          /\ readers \in [Bucket -> SUBSET Client]
          /\ pc \in [Client -> ClientPC]
          /\ doing \in [Client -> Request]
          /\ record_id \in [Client -> Id]
          /\ bucket \in [Client -> Bucket]
          /\ acc \in [Client -> Seq(Row)]
          /\ inserts \in 0 .. MAX_INSERTS
          /\ damaged \subseteq Id

\* Outside a write lock the index and the row array of a bucket hold the
\* same rows, so that a lookup through the index and a scan agree, for every
\* id whose entry no failed promotion has spoiled.  The damage stays with
\* those ids, however many INSERTs follow in the torn index.
Intact(S) == {r \in S : r.id \notin damaged}
IndexMatchesRows ==
  \A b \in Bucket : writer[b] = NoClient =>
    Intact(pk_index[b]) = Intact(ToSet(rows[b]))

\* Every row is in the bucket of its id, whose index refuses a second row
\* with that key.  So no two rows share an id, also after next_id has
\* overflowed and comes around again, unless the index had lost that id to a
\* failed promotion.
UniqueIds ==
  /\ \A b \in Bucket : \A i, j \in DOMAIN rows[b] :
        i # j /\ rows[b][i].id = rows[b][j].id => rows[b][i].id \in damaged
  /\ \A b \in Bucket : \A r \in ToSet(rows[b]) : r.id % BUCKET_COUNT = b

\* Rows are never changed or removed: a pointer a SELECT has copied stays
\* good after the lock is released.
RowsOnlyGrow == [][\A b \in Bucket : IsPrefix(rows[b], rows'[b])]_vars

\* The bucketed table implements the table of UsersTable: inserts are
\* atomic, and a scan that runs beside them misses no row stored before it
\* began, repeats none and returns them in order of id.  After a failed
\* promotion that still holds of every scan; only a lookup of a damaged id
\* may miss its row, and only a damaged id may be given out twice.
UT == INSTANCE UsersTable WITH stored <- Stored

ImplementsUsersTable == UT!Spec

\* A lookup always returns, and so does an INSERT that has its lock: no path
\* keeps a lock, nobody waits in a circle.  The one thing that can hold an
\* INSERT up for ever is that readers take its bucket again and again,
\* because the lock is granted to a reader while a writer waits.
Starved(c) == /\ <>[](pc[c] = "wrlock")
              /\ []<>(readers[bucket[c]] # {})
              /\ \A d \in Client : []<>(d \notin readers[bucket[c]])
OnlyReadersDelayWriters == \A c \in Client : []<>(pc[c] = "idle") \/ Starved(c)
=============================================================================
