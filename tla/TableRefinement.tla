--------------------------- MODULE TableRefinement ---------------------------
(***************************************************************************)
(* The proof that the bucketed table of Table implements the table of      *)
(* UsersTable, for all clients, payloads, queries, numbers of buckets and  *)
(* widths of an int, and whichever allocations fail.                       *)
(***************************************************************************)
EXTENDS TableProofs

\* The order of the rows in an answer.
Before(r, s) == r.id < s.id \/ (r.id = s.id /\ r.id \in damaged)

-----------------------------------------------------------------------------
(* The loop over the sorted rows.                                          *)

(***************************************************************************)
(* The loop copies exactly the rows the condition holds for, and if the    *)
(* array is in ascending order of id, so is the copy.                      *)
(***************************************************************************)
LEMMA MatchingFacts ==
  ASSUME NEW q, NEW s \in Seq(Row),
         \A i, j \in DOMAIN s : i < j => Before(s[i], s[j])
  PROVE  LET out == MatchingRows(q, s)
         IN  /\ out \in Seq(Row)
             /\ ToSet(out) = {r \in ToSet(s) : Matches(q, r)}
             /\ \A i, j \in DOMAIN out : i < j => Before(out[i], out[j])
<1> DEFINE len == Len(s)
           found == CHOOSE f : f = MatchingRound(q, s, len, f)
           Taken(n) == {s[i] : i \in {k \in 1 .. n : Matches(q, s[k])}}
           Right(n) == /\ found[n] \in Seq(Row)
                       /\ ToSet(found[n]) = Taken(n)
                       /\ \A i, j \in DOMAIN found[n] :
                            i < j => Before(found[n][i], found[n][j])
<1>1. len \in Nat /\ DOMAIN s = 1 .. len /\ \A i \in 1 .. len : s[i] \in Row
  OBVIOUS
<1>2. MatchingRows(q, s) = found[len]
  BY DEF MatchingRows, MatchingRound
<1>3. found = MatchingRound(q, s, len, found)
  <2>1. \E f : f = MatchingRound(q, s, len, f)
    BY <1>1, MatchingRecursion
  <2> QED
    BY <2>1
<1> HIDE DEF found
<1>4. found[0] = <<>> /\ \A n \in 1 .. len :
        found[n] = IF Matches(q, s[n]) THEN Append(found[n - 1], s[n]) ELSE found[n - 1]
  <2> HIDE DEF len
  <2>1. ASSUME NEW n \in 0 .. len
        PROVE  found[n] = IF n = 0 THEN <<>>
                          ELSE IF Matches(q, s[n]) THEN Append(found[n - 1], s[n])
                          ELSE found[n - 1]
    BY <1>3 DEF MatchingRound
  <2>2. 0 \in 0 .. len /\ 1 .. len \subseteq 0 .. len /\ 0 \notin 1 .. len
    BY <1>1
  <2> QED
    BY <2>1, <2>2
<1>5. Right(0)
  BY <1>4 DEF ToSet
<1>6. ASSUME NEW n \in 0 .. len - 1, Right(n) PROVE Right(n + 1)
  <2>1. /\ n + 1 \in 1 .. len /\ s[n + 1] \in Row /\ (n + 1) - 1 = n
        /\ found[n + 1] = IF Matches(q, s[n + 1]) THEN Append(found[n], s[n + 1]) ELSE found[n]
    BY <1>1, <1>4
  <2>2. CASE ~Matches(q, s[n + 1])
    <3>1. Taken(n + 1) = Taken(n)
      BY <1>1, <2>2
    <3> QED
      BY <1>6, <2>1, <2>2, <3>1
  <2>3. CASE Matches(q, s[n + 1])
    <3>1. Taken(n + 1) = Taken(n) \cup {s[n + 1]}
      BY <1>1, <2>3
    <3> DEFINE t == found[n]
               e == s[n + 1]
    <3>2. t \in Seq(Row) /\ e \in Row /\ found[n + 1] = Append(t, e)
      BY <1>6, <2>1, <2>3
    <3>3. \A i \in DOMAIN t : Before(t[i], e)
      <4>1. ASSUME NEW i \in DOMAIN t PROVE t[i] \in Taken(n)
        BY <1>6 DEF ToSet
      <4>2. ASSUME NEW r \in Taken(n) PROVE Before(r, e)
        BY <1>1, <2>1, <4>2
      <4> QED
        BY <4>1, <4>2
    <3>4. \A i, j \in DOMAIN t : i < j => Before(t[i], t[j])
      BY <1>6
    <3>5. ToSet(t) = Taken(n)
      BY <1>6
    <3> HIDE DEF t, e, Taken
    <3>6. /\ Append(t, e) \in Seq(Row)
          /\ ToSet(Append(t, e)) = ToSet(t) \cup {e}
          /\ DOMAIN Append(t, e) = 1 .. Len(t) + 1
          /\ DOMAIN t = 1 .. Len(t) /\ Len(t) \in Nat
          /\ \A i \in DOMAIN t : Append(t, e)[i] = t[i]
          /\ Append(t, e)[Len(t) + 1] = e
      BY <3>2, AppendFacts
    <3>7. \A i, j \in DOMAIN Append(t, e) :
             i < j => Before(Append(t, e)[i], Append(t, e)[j])
      BY <3>3, <3>4, <3>6
    <3> QED
      BY <3>1, <3>2, <3>5, <3>6, <3>7 DEF e
  <2> QED
    BY <2>2, <2>3
<1>7. Right(len)
  <2> DEFINE R == {n \in 0 .. len : Right(n)}
  <2>1. 0 \in R /\ \A n \in 0 .. len - 1 : n \in R => n + 1 \in R
    <3> HIDE DEF Right
    <3> QED
      BY <1>1, <1>5, <1>6
  <2>2. 0 .. len \subseteq R
    <3> HIDE DEF R
    <3> QED
      BY <1>1, <2>1, InductionUpTo
  <2>3. len \in R
    <3>1. len \in 0 .. len
      BY <1>1
    <3> HIDE DEF R, len
    <3> QED
      BY <2>2, <3>1
  <2> HIDE DEF Right
  <2> QED
    BY <2>3
<1>8. Taken(len) = {r \in ToSet(s) : Matches(q, r)}
  BY <1>1 DEF ToSet
<1> QED
  BY <1>2, <1>7, <1>8

(***************************************************************************)
(* What qsort may make of an array whose ids are all different but for     *)
(* damaged ones: the same rows in ascending order.                         *)
(***************************************************************************)
LEMMA SortFacts ==
  ASSUME NEW s \in Seq(Row), NEW t \in table_sort_records_by_id(s),
         \A i, j \in DOMAIN s : i # j /\ s[i].id = s[j].id => s[i].id \in damaged
  PROVE  /\ t \in Seq(Row) /\ ToSet(t) = ToSet(s)
         /\ \A i, j \in DOMAIN t : i < j => Before(t[i], t[j])
<1>1. PICK p \in Bijection(DOMAIN s, DOMAIN s) :
        /\ \A i, j \in DOMAIN s : i < j => s[p[i]].id <= s[p[j]].id
        /\ t = [i \in DOMAIN s |-> s[p[i]]]
  BY DEF table_sort_records_by_id
<1>2. /\ p \in [DOMAIN s -> DOMAIN s]
      /\ \A i, j \in DOMAIN s : p[i] = p[j] => i = j
      /\ \A k \in DOMAIN s : \E i \in DOMAIN s : p[i] = k
  BY <1>1 DEF Bijection, Injection, Surjection, IsInjective
<1>3. /\ Len(s) \in Nat /\ DOMAIN s = 1 .. Len(s)
      /\ \A i \in DOMAIN s : s[i] \in Row /\ s[i].id \in Int
  <2>1. Len(s) \in Nat /\ DOMAIN s = 1 .. Len(s) /\ \A i \in DOMAIN s : s[i] \in Row
    OBVIOUS
  <2> QED
    BY <2>1, IdFacts DEF Row
<1>4. t \in Seq(Row)
  BY <1>1, <1>2, <1>3
<1>5. DOMAIN t = DOMAIN s /\ \A i \in DOMAIN s : t[i] = s[p[i]]
  BY <1>1
<1>6. ToSet(t) = ToSet(s)
  BY <1>2, <1>5 DEF ToSet
<1>7. ASSUME NEW i \in DOMAIN t, NEW j \in DOMAIN t, i < j PROVE Before(t[i], t[j])
  <2>1. p[i] \in DOMAIN s /\ p[j] \in DOMAIN s /\ p[i] # p[j]
    BY <1>2, <1>5, <1>7, i # j
  <2>2. /\ s[p[i]].id <= s[p[j]].id
        /\ s[p[i]].id = s[p[j]].id => s[p[i]].id \in damaged
    BY <1>1, <1>5, <1>7, <2>1
  <2> QED
    BY <1>3, <1>5, <2>1, <2>2 DEF Before
<1> QED
  BY <1>4, <1>6, <1>7

-----------------------------------------------------------------------------
(* The invariant that the answers rest on.                                 *)

\* The scan of c has been through the bucket of r.
Visited(c, r) == pc[c] = "answer" \/ table_bucket_index_for_id(r.id) < bucket[c]

\* A scan has collected every row that matches, was stored when it began and
\* lies in a bucket behind it; it has collected no id twice unless it is
\* damaged, and no row of a bucket before it.
Collected(c) ==
  /\ \A r \in doing[c].floor :
       Visited(c, r) => r \in ToSet(acc[c]) \/ ~Matches(doing[c].query, r)
  /\ \A r \in ToSet(acc[c]) : r \in Stored /\ Visited(c, r)
  /\ \A i, j \in DOMAIN acc[c] :
       i # j /\ acc[c][i].id = acc[c][j].id => acc[c][i].id \in damaged

\* What was stored when a SELECT began is stored; a lookup through the index
\* looks in the bucket of the id; a scan has collected what it should.
SelectOK(c) ==
  /\ pc[c] = "idle" => acc[c] = <<>>
  /\ pc[c] \in SelectPC => doing[c].floor \subseteq Stored
  /\ pc[c] \in {"rdlock", "search"} /\ UsesIndex(doing[c].query) =>
       bucket[c] = table_bucket_index_for_id(doing[c].query.value)
  /\ pc[c] \in {"rdlock", "collect", "answer"} /\ ~UsesIndex(doing[c].query) => Collected(c)

SelectInv == \A c \in Client : SelectOK(c)

(***************************************************************************)
(* Stored rows are rows, and every one is in the array of its bucket.      *)
(***************************************************************************)
LEMMA StoredFacts ==
  ASSUME Inv, NEW r \in Stored
  PROVE  /\ r \in Row /\ r.id \in Int
         /\ table_bucket_index_for_id(r.id) \in Bucket
         /\ r \in ToSet(rows[table_bucket_index_for_id(r.id)])
<1>1. PICK b \in Bucket : r \in ToSet(rows[b])
  BY DEF Stored
<1>2. rows[b] \in Seq(Row)
  BY DEF Inv, TypeOK
<1>3. r \in Row
  BY <1>1, <1>2 DEF ToSet
<1>4. r.id \in Int
  BY <1>3, IdFacts DEF Row
<1>5. table_bucket_index_for_id(r.id) = b
  BY <1>1 DEF Inv, IndexContents, Contents
<1> QED
  BY <1>1, <1>3, <1>4, <1>5

(***************************************************************************)
(* Only the append of table_insert changes what is stored, by one row      *)
(* under an id that no stored row has, if it is not damaged.               *)
(***************************************************************************)
LEMMA StoredGrows ==
  ASSUME Inv, NEW c \in Client, AppendRow(c)
  PROVE  /\ NewRow(c) \in Row
         /\ Stored' = Stored \cup {NewRow(c)}
         /\ \A s \in Stored : s.id = record_id[c] => s.id \in damaged
<1>0. PICK B \in Bucket : B = bucket[c]
  BY DEF Inv, TypeOK
<1>1. /\ pc[c] = "append" /\ NewRow(c) \in Row
      /\ \A b \in Bucket : rows'[b] = IF b = B THEN Append(rows[b], NewRow(c)) ELSE rows[b]
  BY <1>0, AppendEnds DEF Inv
<1>2. ToSet(rows'[B]) = ToSet(rows[B]) \cup {NewRow(c)}
  <2>1. rows'[B] = Append(rows[B], NewRow(c)) /\ rows[B] \in Seq(Row)
    BY <1>1 DEF Inv, TypeOK
  <2> QED
    BY <1>1, <2>1, AppendFacts
<1>3. \A b \in Bucket \ {B} : ToSet(rows'[b]) = ToSet(rows[b])
  BY <1>1
<1>4. Stored' = Stored \cup {NewRow(c)}
  BY <1>2, <1>3 DEF Stored
<1>5. ASSUME NEW s \in Stored, s.id = record_id[c] PROVE s.id \in damaged
  <2>1. s \in ToSet(rows[B])
    BY <1>0, <1>1, <1>5, StoredFacts DEF Inv, Placed
  <2> QED
    BY <1>0, <1>1, <1>5, <2>1 DEF Inv, DistinctIds
<1> QED
  BY <1>1, <1>4, <1>5

LEMMA StoredKept ==
  ASSUME NEW c \in Client, Begin(c) \/ Step(c), ~AppendRow(c)
  PROVE  rows' = rows /\ Stored' = Stored
<1>1. rows' = rows
  BY DEF Begin, Step, BeginInsert, DrawId, LockForInsert, InsertFails, InsertDuplicate,
         IndexRow, BeginSelect, LockForSelect, SearchIndex, ScanHit, CollectBucket,
         CollectFails, AnswerScan, AnswerFails, InsertTears
<1> QED
  BY <1>1 DEF Stored

(***************************************************************************)
(* A damaged id stays damaged.                                             *)
(***************************************************************************)
LEMMA DamageKept ==
  ASSUME NEW c \in Client, Begin(c) \/ Step(c)
  PROVE  /\ damaged \subseteq damaged'
         /\ ~InsertTears(c) => damaged' = damaged
<1>1. CASE InsertTears(c)
  BY <1>1 DEF InsertTears
<1>2. CASE ~InsertTears(c)
  BY <1>2 DEF Begin, Step, BeginInsert, DrawId, LockForInsert, InsertFails, InsertDuplicate,
              IndexRow, BeginSelect, LockForSelect, SearchIndex, ScanHit, CollectBucket,
              CollectFails, AnswerScan, AnswerFails, AppendRow, index
<1> QED
  BY <1>1, <1>2

(***************************************************************************)
(* A step of another client, which at most adds to what is stored, leaves  *)
(* a SELECT as it is.                                                      *)
(***************************************************************************)
LEMMA SelectKept ==
  ASSUME NEW d \in Client, SelectOK(d), Stored \subseteq Stored', damaged \subseteq damaged',
         pc'[d] = pc[d], bucket'[d] = bucket[d], acc'[d] = acc[d], doing'[d] = doing[d]
  PROVE  SelectOK(d)'
<1>1. Collected(d) => Collected(d)'
  BY DEF Collected, Visited
<1> QED
  BY <1>1 DEF SelectOK

(***************************************************************************)
(* A scan that is done with a bucket has visited that bucket as well, and  *)
(* has collected from it all it should and nothing twice.                  *)
(***************************************************************************)
LEMMA CollectKeeps ==
  ASSUME Inv, NEW c \in Client, SelectOK(c), CollectBucket(c)
  PROVE  SelectOK(c)'
<1>0. PICK B \in Bucket : B = bucket[c]
  BY DEF Inv, TypeOK
<1> DEFINE q == doing[c].query
           floor == doing[c].floor
<1>1. /\ CollectEnd(c) /\ pc[c] = "collect" /\ rows' = rows /\ damaged' = damaged
      /\ doing'[c] = doing[c] /\ Stored' = Stored
      /\ ~(FirstOnly(q) /\ Hits(c) # {})
  <2>1. CollectEnd(c)
    BY CollectFacts DEF Inv
  <2>2. rows' = rows /\ damaged' = damaged /\ doing' = doing /\ pc[c] = "collect"
    BY <2>1 DEF CollectEnd
  <2>3. Stored' = Stored
    BY <2>2 DEF Stored
  <2>4. ~(FirstOnly(q) /\ Hits(c) # {})
    BY DEF CollectBucket
  <2> QED
    BY <2>1, <2>2, <2>3, <2>4
<1>2. Collected(c) /\ floor \subseteq Stored /\ ~UsesIndex(q)
  BY <1>1 DEF SelectOK, Inv, Requests, SelectPC
<1>3. \A r \in Stored : /\ table_bucket_index_for_id(r.id) \in Nat
                        /\ table_bucket_index_for_id(r.id) < BUCKET_COUNT
  BY StoredFacts, BucketAssumption DEF Bucket
<1>4. \A r \in Stored : Visited(c, r)' <=> table_bucket_index_for_id(r.id) <= B
  <2>1. B \in Nat /\ BUCKET_COUNT \in Nat
    BY BucketAssumption DEF Bucket
  <2>2. \/ pc'[c] = "rdlock" /\ bucket'[c] = B + 1
        \/ pc'[c] = "answer" /\ B + 1 = BUCKET_COUNT
    BY <1>0, <1>1 DEF CollectEnd
  <2> QED
    BY <1>3, <2>1, <2>2 DEF Visited
<1>5. \A r \in Stored : Visited(c, r) <=> table_bucket_index_for_id(r.id) < B
  BY <1>0, <1>1 DEF Visited
<1>6. \A r \in Stored : table_bucket_index_for_id(r.id) = B <=> r \in ToSet(rows[B])
  <2>1. \A r \in ToSet(rows[B]) : table_bucket_index_for_id(r.id) = B
    BY DEF Inv, IndexContents, Contents
  <2> QED
    BY <2>1, StoredFacts
<1>7. ToSet(rows[B]) \subseteq Stored /\ rows[B] \in Seq(Row) /\ acc[c] \in Seq(Row)
  BY DEF Stored, Inv, TypeOK
<1>8. Collected(c)'
  <2>1. CASE FirstOnly(q)
    <3>1. acc'[c] = acc[c]
      BY <1>1, <2>1 DEF CollectEnd
    <3>2. \A r \in ToSet(rows[B]) : ~Matches(q, r)
      BY <1>0, <1>1, <2>1 DEF Hits, Matches, FirstOnly, ToSet
    <3>3. ASSUME NEW r \in floor, Visited(c, r)'
          PROVE  r \in ToSet(acc[c]) \/ ~Matches(q, r)
      <4>1. r \in Stored
        BY <1>2
      <4>2. CASE table_bucket_index_for_id(r.id) = B
        BY <1>6, <3>2, <4>1, <4>2
      <4>3. CASE table_bucket_index_for_id(r.id) # B
        <5>1. Visited(c, r)
          BY <1>3, <1>4, <1>5, <3>3, <4>1, <4>3 DEF Bucket
        <5> QED
          BY <1>2, <5>1 DEF Collected
      <4> QED
        BY <4>2, <4>3
    <3>4. ASSUME NEW r \in ToSet(acc[c]) PROVE r \in Stored' /\ Visited(c, r)'
      <4>1. r \in Stored /\ Visited(c, r)
        BY <1>2 DEF Collected
      <4> QED
        BY <1>1, <1>3, <1>4, <1>5, <4>1 DEF Bucket
    <3>5. \A i, j \in DOMAIN acc[c] :
             i # j /\ acc[c][i].id = acc[c][j].id => acc[c][i].id \in damaged
      BY <1>2 DEF Collected
    <3> QED
      BY <1>1, <3>1, <3>3, <3>4, <3>5 DEF Collected
  <2>2. CASE ~FirstOnly(q)
    <3> DEFINE s == acc[c]
               t == rows[B]
    <3>1. acc'[c] = s \o t
      BY <1>0, <1>1, <2>2 DEF CollectEnd
    <3>2. /\ Len(s) \in Nat /\ Len(t) \in Nat
          /\ DOMAIN s = 1 .. Len(s) /\ DOMAIN t = 1 .. Len(t)
          /\ DOMAIN (s \o t) = 1 .. Len(s) + Len(t)
          /\ \A i \in 1 .. Len(s) : (s \o t)[i] = s[i]
          /\ \A i \in 1 .. Len(t) : (s \o t)[Len(s) + i] = t[i]
          /\ ToSet(s \o t) = ToSet(s) \cup ToSet(t)
      <4>1. s \in Seq(Row) /\ t \in Seq(Row)
        BY <1>7
      <4> HIDE DEF s, t
      <4>2. Len(s) \in Nat /\ Len(t) \in Nat /\ DOMAIN s = 1 .. Len(s) /\ DOMAIN t = 1 .. Len(t)
        BY <4>1
      <4> QED
        BY <4>1, <4>2, ConcatFacts
    <3>3. ASSUME NEW r \in floor, Visited(c, r)'
          PROVE  r \in ToSet(s \o t) \/ ~Matches(q, r)
      <4>1. r \in Stored
        BY <1>2
      <4>2. CASE table_bucket_index_for_id(r.id) = B
        BY <1>6, <3>2, <4>1, <4>2
      <4>3. CASE table_bucket_index_for_id(r.id) # B
        <5>1. Visited(c, r)
          BY <1>3, <1>4, <1>5, <3>3, <4>1, <4>3 DEF Bucket
        <5> QED
          BY <1>2, <3>2, <5>1 DEF Collected
      <4> QED
        BY <4>2, <4>3
    <3>4. ASSUME NEW r \in ToSet(s)
          PROVE  /\ r \in Stored /\ Visited(c, r)'
                 /\ table_bucket_index_for_id(r.id) # B
      <4>1. r \in Stored /\ Visited(c, r)
        BY <1>2 DEF Collected
      <4> QED
        BY <1>1, <1>3, <1>4, <1>5, <4>1 DEF Bucket
    <3>5. ASSUME NEW r \in ToSet(t)
          PROVE  r \in Stored /\ Visited(c, r)' /\ table_bucket_index_for_id(r.id) = B
      BY <1>3, <1>4, <1>6, <1>7
    <3>6. \A i, j \in DOMAIN s : i # j /\ s[i].id = s[j].id => s[i].id \in damaged
      BY <1>2 DEF Collected
    <3>7. \A i, j \in DOMAIN t : i # j /\ t[i].id = t[j].id => t[i].id \in damaged
      BY DEF Inv, DistinctIds
    <3>8. \A i \in DOMAIN s, j \in DOMAIN t : s[i].id # t[j].id
      <4>1. ASSUME NEW i \in DOMAIN s, NEW j \in DOMAIN t PROVE s[i].id # t[j].id
        <5>1. s[i] \in ToSet(s) /\ t[j] \in ToSet(t)
          BY DEF ToSet
        <5> HIDE DEF s, t
        <5> QED
          BY <3>4, <3>5, <5>1
      <4> QED
        BY <4>1
    <3> HIDE DEF s, t
    <3>9. ASSUME NEW i \in 1 .. Len(s) + Len(t), NEW j \in 1 .. Len(s) + Len(t), i # j,
                 (s \o t)[i].id = (s \o t)[j].id
          PROVE  (s \o t)[i].id \in damaged
      <4> DEFINE In(k) == IF k <= Len(s) THEN k \in DOMAIN s /\ (s \o t)[k] = s[k]
                          ELSE k - Len(s) \in DOMAIN t /\ (s \o t)[k] = t[k - Len(s)]
      <4>1. ASSUME NEW k \in 1 .. Len(s) + Len(t) PROVE In(k)
        <5>1. CASE k <= Len(s)
          BY <3>2, <5>1
        <5>2. CASE k > Len(s)
          <6>1. k - Len(s) \in 1 .. Len(t) /\ Len(s) + (k - Len(s)) = k
            BY <3>2, <5>2
          <6> QED
            BY <3>2, <5>2, <6>1
        <5> QED
          BY <3>2, <5>1, <5>2
      <4>2. In(i) /\ In(j)
        BY <4>1
      <4>3. i - Len(s) # j - Len(s)
        BY <3>2, <3>9
      <4> QED
        BY <3>6, <3>7, <3>8, <3>9, <4>2, <4>3
    <3> QED
      BY <1>1, <3>1, <3>2, <3>3, <3>4, <3>5, <3>9 DEF Collected
  <2> QED
    BY <2>1, <2>2
<1> QED
  <2>1. pc'[c] \in {"rdlock", "answer"}
    BY <1>1 DEF CollectEnd
  <2> QED
    BY <1>1, <1>2, <1>8, <2>1 DEF SelectOK

(***************************************************************************)
(* SelectInv holds of every step.                                          *)
(***************************************************************************)
LEMMA SelectStep == Inv /\ SelectInv /\ [Next]_vars => SelectInv'
<1> SUFFICES ASSUME Inv, SelectInv, [Next]_vars PROVE SelectInv'
  OBVIOUS
<1>1. CASE UNCHANGED vars
  <2>1. \A d \in Client : SelectOK(d)'
    BY <1>1, SelectKept DEF SelectInv, vars, index, Stored
  <2> QED
    BY <2>1 DEF SelectInv
<1>2. ASSUME NEW c \in Client, Begin(c) \/ Step(c) PROVE SelectInv'
  <2>1. Stored \subseteq Stored' /\ damaged \subseteq damaged'
    BY <1>2, StoredKept, StoredGrows, DamageKept
  <2> DEFINE Others == \A d \in Client \ {c} : /\ pc'[d] = pc[d] /\ bucket'[d] = bucket[d]
                                               /\ acc'[d] = acc[d] /\ doing'[d] = doing[d]
  <2>2. ASSUME Others, SelectOK(c)' PROVE SelectInv'
    <3>1. \A d \in Client \ {c} : SelectOK(d)'
      BY <2>1, <2>2, SelectKept DEF SelectInv
    <3> QED
      BY <2>2, <3>1 DEF SelectInv
  <2>3. ASSUME Gone(c) PROVE Others /\ SelectOK(c)'
    BY <2>3 DEF Gone, SelectOK, SelectPC
  <2>4. ASSUME NEW d \in Payload, BeginInsert(c, d) PROVE SelectInv'
    <3>1. Others /\ pc'[c] = "draw_id"
      BY <2>4 DEF BeginInsert, Inv, TypeOK
    <3> QED
      BY <2>2, <3>1 DEF SelectOK, SelectPC
  <2>5. ASSUME NEW q \in Query, BeginSelect(c, q) PROVE SelectInv'
    <3>1. /\ Others /\ pc'[c] = "rdlock" /\ bucket'[c] = FirstBucket(q)
          /\ doing'[c].query = q /\ doing'[c].floor = Stored
          /\ pc[c] = "idle" /\ acc' = acc
      BY <2>5 DEF BeginSelect, Inv, TypeOK
    <3>2. acc'[c] = <<>>
      BY <3>1 DEF SelectInv, SelectOK
    <3>3. ASSUME ~UsesIndex(q) PROVE Collected(c)'
      <4>1. ASSUME NEW r \in Stored PROVE ~(table_bucket_index_for_id(r.id) < 0)
        <5>1. table_bucket_index_for_id(r.id) \in Nat
          BY StoredFacts, BucketFacts
        <5> QED
          BY <5>1
      <4>2. bucket'[c] = 0
        BY <3>1, <3>3 DEF FirstBucket
      <4>3. \A r \in Stored : ~Visited(c, r)'
        BY <3>1, <4>1, <4>2 DEF Visited
      <4>4. DOMAIN acc'[c] = {} /\ ToSet(acc'[c]) = {}
        BY <3>2 DEF ToSet
      <4> QED
        BY <3>1, <4>3, <4>4 DEF Collected
    <3>4. UsesIndex(q) => bucket'[c] = table_bucket_index_for_id(q.value)
      BY <3>1 DEF FirstBucket
    <3>5. SelectOK(c)'
      BY <2>1, <3>1, <3>3, <3>4 DEF SelectOK
    <3> QED
      BY <2>2, <3>1, <3>5
  <2>6. CASE DrawId(c) \/ LockForInsert(c) \/ IndexRow(c)
    <3>1. Others /\ pc'[c] \in {"wrlock", "index", "append"}
      <4>1. CASE DrawId(c)
        BY <4>1 DEF DrawId, Inv, TypeOK
      <4>2. CASE LockForInsert(c)
        BY <4>2 DEF LockForInsert, Inv, TypeOK
      <4>3. CASE IndexRow(c)
        BY <4>3 DEF IndexRow, Inv, TypeOK
      <4> QED
        BY <2>6, <4>1, <4>2, <4>3
    <3> QED
      BY <2>2, <3>1 DEF SelectOK, SelectPC
  <2>7. CASE InsertFails(c) \/ InsertDuplicate(c) \/ InsertTears(c)
    <3>1. Gone(c)
      BY <2>7, InsertEnds, TearEnds DEF Inv
    <3> QED
      BY <2>2, <2>3, <3>1
  <2>8. CASE AppendRow(c)
    <3>1. Gone(c)
      BY <2>8, AppendEnds DEF Inv
    <3> QED
      BY <2>2, <2>3, <3>1
  <2>9. CASE LockForSelect(c)
    <3>1. /\ Others /\ bucket' = bucket /\ acc' = acc /\ doing' = doing /\ Stored' = Stored
          /\ damaged' = damaged /\ pc[c] = "rdlock"
          /\ pc'[c] = IF UsesIndex(doing[c].query) THEN "search" ELSE "collect"
      BY <2>9 DEF LockForSelect, Inv, TypeOK, Stored, index
    <3>2. SelectOK(c)
      BY DEF SelectInv
    <3>3. Collected(c) => Collected(c)'
      BY <3>1 DEF Collected, Visited
    <3>4. SelectOK(c)'
      BY <3>1, <3>2, <3>3 DEF SelectOK, SelectPC
    <3> QED
      BY <2>2, <3>1, <3>4
  <2>10. CASE SelectEnd(c)
    <3>1. Gone(c)
      BY <2>10, SelectEnds DEF Inv
    <3> QED
      BY <2>2, <2>3, <3>1
  <2>11. CASE CollectBucket(c)
    <3>1. CollectEnd(c) /\ SelectOK(c)'
      BY <2>11, CollectFacts, CollectKeeps DEF Inv, SelectInv
    <3>2. Others
      BY <3>1 DEF CollectEnd
    <3> QED
      BY <2>2, <3>1, <3>2
  <2> QED
    BY <1>2, <2>4, <2>5, <2>6, <2>7, <2>8, <2>9, <2>10, <2>11 DEF Begin, Step, SelectEnd
<1> QED
  BY <1>1, <1>2 DEF Next

-----------------------------------------------------------------------------
(* The steps of the abstract table.                                        *)

\* There is one reply for every client.
Replies == reply = [c \in Client |-> reply[c]]

RefInv == Inv /\ SelectInv /\ Replies

(***************************************************************************)
(* A SELECT that returns rows takes the abstract step Answer, if the rows  *)
(* are stored ones that match, in order, and as many of the matching rows  *)
(* of when it began as there should be.                                    *)
(***************************************************************************)
LEMMA AnswerStep ==
  ASSUME RefInv, NEW c \in Client, pc[c] \in SelectPC, NEW s, Return(c, Succeeded(s)),
         s \in Seq(Row), \A r \in ToSet(s) : r \in Stored /\ Matches(doing[c].query, r),
         \/ \A r \in doing[c].floor : Matches(doing[c].query, r) => r \in ToSet(s)
         \/ FirstOnly(doing[c].query) /\ s # <<>>
         \/ UsesIndex(doing[c].query) /\ doing[c].query.value \in damaged,
         \A i, j \in DOMAIN s : i < j => Before(s[i], s[j]),
         rows' = rows, damaged' = damaged
  PROVE  UT!Answer(c)
<1>1. doing[c].kind = "select"
  BY DEF RefInv, Inv, Requests
<1>2. reply'[c] = Succeeded(s) /\ reply' = [reply EXCEPT ![c] = Succeeded(s)]
  BY DEF Return, RefInv, Replies
<1>3. reply'[c].rows = s
  BY <1>2 DEF Succeeded
<1>4. s \in Seq({r \in Stored : Matches(doing[c].query, r)})
  <2>1. \A i \in DOMAIN s : s[i] \in {r \in Stored : Matches(doing[c].query, r)}
    BY DEF ToSet
  <2> QED
    BY <2>1
<1>5. UNCHANGED Stored
  BY DEF Stored
<1>6. doing' = [doing EXCEPT ![c] = Idle]
  BY DEF Return
<1>7. UT!ToSet(s) = ToSet(s)
  BY DEF UT!ToSet, ToSet
<1>8. UT!Complete(doing[c].query, {r \in doing[c].floor : Matches(doing[c].query, r)}, s)
  BY <1>7 DEF UT!Complete, UT!DamagedLookup
<1>9. UT!Ascending(s)
  BY DEF UT!Ascending, Before
<1>10. UT!Succeeded(s) = Succeeded(s) /\ UT!Idle = Idle
  BY DEF UT!Succeeded, Succeeded, UT!Idle, Idle
<1> QED
  BY <1>1, <1>2, <1>3, <1>4, <1>5, <1>6, <1>8, <1>9, <1>10 DEF UT!Answer

(***************************************************************************)
(* A lookup through the index: nobody is between bptree_insert and the     *)
(* append in a bucket that is locked for reading.  So an entry whose       *)
(* record has not been freed is a stored row, the only entry with its id,  *)
(* and a stored row is in the index unless its id is damaged.              *)
(***************************************************************************)
LEMMA SearchAnswers ==
  ASSUME RefInv, NEW c \in Client, SearchIndex(c)
  PROVE  UT!Answer(c) \/ UT!AnswerDamaged(c)
<1> DEFINE q == doing[c].query
<1>0. PICK B \in Bucket : B = bucket[c]
  BY DEF RefInv, Inv, TypeOK
<1>1. /\ pc[c] = "search" /\ rows' = rows /\ damaged' = damaged
      /\ \E s \in FoundRows(c) : Return(c, Succeeded(s))
  BY DEF SearchIndex, index
<1>2. /\ UsesIndex(q) /\ q.value \in Int /\ B = table_bucket_index_for_id(q.value)
      /\ doing[c].floor \subseteq Stored /\ doing[c].kind = "select"
  <2>1. UsesIndex(q) /\ q \in Query /\ doing[c].kind = "select"
    BY <1>1 DEF RefInv, Inv, Requests, SelectPC
  <2>2. SelectOK(c)
    BY DEF RefInv, SelectInv
  <2> QED
    BY <1>0, <1>1, <2>1, <2>2, QueryAssumption, IdFacts DEF SelectOK, SelectPC
<1>3. Contents(B) /\ Pending(B) = {} /\ freed \subseteq damaged
  <2>1. writer[B] = NoClient
    BY <1>0, <1>1 DEF RefInv, Inv, LockOwners
  <2>2. Appending(B) = {}
    BY <2>1, ClientAssumption DEF RefInv, Inv, LockOwners, Appending
  <2>3. Pending(B) = {}
    BY <2>2 DEF Pending
  <2> QED
    BY <2>3 DEF RefInv, Inv, IndexContents
<1>4. CASE q.value \in freed
  <2>1. PICK r \in Row : Return(c, Succeeded(<<r>>))
    BY <1>1, <1>4 DEF FoundRows
  <2>2. UNCHANGED Stored
    BY <1>1 DEF Stored
  <2>3. UT!Succeeded(<<r>>) = Succeeded(<<r>>) /\ UT!Idle = Idle /\ r \in UT!Row
    BY DEF UT!Succeeded, Succeeded, UT!Idle, Idle, UT!Row, Row
  <2> QED
    BY <1>1, <1>2, <1>3, <1>4, <2>1, <2>2, <2>3
       DEF Return, UT!AnswerDamaged, UT!DamagedLookup
<1>5. CASE q.value \notin freed
  <2>0. Return(c, Succeeded(SetToSeq(Found(c))))
    BY <1>1, <1>5 DEF FoundRows
  <2>1. /\ Found(c) = {r \in pk_index[B] : r.id = q.value}
        /\ Found(c) \subseteq Stored
    <3>1. ToSet(rows[B]) \subseteq Stored
      BY DEF Stored
    <3> QED
      BY <1>0, <1>3, <1>5, <3>1 DEF Found, Contents
  <2>2. \A r \in Stored : r.id = q.value => r \in Found(c) \/ q.value \in damaged
    <3>1. ASSUME NEW r \in Stored, r.id = q.value PROVE r \in ToSet(rows[B])
      BY <1>2, <3>1, StoredFacts DEF RefInv
    <3> QED
      BY <1>3, <2>1, <3>1 DEF Contents
  <2>3. ASSUME NEW r PROVE Matches(q, r) <=> r.id = q.value
    BY <1>2 DEF UsesIndex, Matches, table_compare_int
  <2>4. CASE Found(c) = {}
    <3>1. SetToSeq(Found(c)) = <<>>
      BY <2>4, SetToSeqEmpty
    <3>2. <<>> \in Seq(Row) /\ ToSet(<<>>) = {} /\ DOMAIN <<>> = {}
      BY DEF ToSet
    <3>3. \/ \A r \in doing[c].floor : ~Matches(q, r)
          \/ UsesIndex(q) /\ q.value \in damaged
      BY <1>2, <2>2, <2>3, <2>4
    <3> QED
      BY <1>1, <2>0, <3>1, <3>2, <3>3, AnswerStep DEF SelectPC
  <2>5. CASE Found(c) # {}
    <3>1. PICK x : x \in Found(c)
      BY <2>5
    <3>2. Found(c) = {x} /\ x \in Stored /\ Matches(q, x)
      BY <1>3, <2>1, <2>3, <3>1 DEF Contents
    <3>3. SetToSeq(Found(c)) = <<x>>
      BY <3>2, SetToSeqSingleton
    <3>4. x \in Row
      BY <3>2, StoredFacts DEF RefInv
    <3>5. /\ <<x>> \in Seq(Row) /\ ToSet(<<x>>) = {x}
          /\ \A i, j \in DOMAIN <<x>> : ~(i < j)
      BY <3>4 DEF ToSet
    <3>6. \/ \A r \in doing[c].floor : Matches(q, r) => r = x
          \/ UsesIndex(q) /\ q.value \in damaged
      BY <1>2, <2>2, <2>3, <3>2
    <3> QED
      BY <1>1, <2>0, <3>2, <3>3, <3>5, <3>6, AnswerStep DEF SelectPC
  <2> QED
    BY <2>4, <2>5
<1> QED
  BY <1>4, <1>5

(***************************************************************************)
(* table_scan_by_id stops at the first hit, a stored row with the id.      *)
(***************************************************************************)
LEMMA HitAnswers ==
  ASSUME RefInv, NEW c \in Client, ScanHit(c)
  PROVE  UT!Answer(c)
<1> DEFINE q == doing[c].query
<1>0. PICK B \in Bucket : B = bucket[c]
  BY DEF RefInv, Inv, TypeOK
<1> DEFINE x == rows[B][Min(Hits(c))]
<1>1. /\ pc[c] = "collect" /\ Return(c, Succeeded(<<x>>)) /\ rows' = rows
      /\ damaged' = damaged /\ FirstOnly(q) /\ Hits(c) # {}
  BY <1>0 DEF ScanHit, index
<1>2. x.id = q.value /\ x \in ToSet(rows[B])
  <2>1. rows[B] \in Seq(Row)
    BY DEF RefInv, Inv, TypeOK
  <2>2. Hits(c) \in SUBSET Nat
    BY <1>0, <2>1 DEF Hits
  <2>3. Min(Hits(c)) \in Hits(c)
    BY <1>1, <2>2, MinFacts
  <2> QED
    BY <1>0, <2>3 DEF Hits, ToSet
<1>3. x \in Stored
  BY <1>2 DEF Stored
<1>4. Matches(q, x)
  BY <1>1, <1>2 DEF Matches, FirstOnly
<1>5. x \in Row
  BY <1>3, StoredFacts DEF RefInv
<1> HIDE DEF x
<1>6. /\ <<x>> \in Seq(Row) /\ ToSet(<<x>>) = {x} /\ <<x>> # <<>>
      /\ \A i, j \in DOMAIN <<x>> : ~(i < j)
  BY <1>5 DEF ToSet
<1> QED
  BY <1>1, <1>3, <1>4, <1>6, AnswerStep DEF SelectPC

(***************************************************************************)
(* A scan that has been through all buckets has every matching row of when *)
(* it began; sorting and filtering loses none.                             *)
(***************************************************************************)
LEMMA ScanAnswers ==
  ASSUME RefInv, NEW c \in Client, AnswerScan(c)
  PROVE  UT!Answer(c)
<1> DEFINE q == doing[c].query
<1>1. PICK sorted \in table_sort_records_by_id(acc[c]) :
        Return(c, Succeeded(MatchingRows(q, sorted)))
  BY DEF AnswerScan
<1>2. pc[c] = "answer" /\ rows' = rows /\ damaged' = damaged /\ acc[c] \in Seq(Row)
  BY DEF AnswerScan, RefInv, Inv, TypeOK, index
<1>3. Collected(c)
  BY <1>2 DEF RefInv, SelectInv, SelectOK, Inv, Requests
<1>4. /\ \A r \in doing[c].floor : r \in ToSet(acc[c]) \/ ~Matches(q, r)
      /\ ToSet(acc[c]) \subseteq Stored
      /\ \A i, j \in DOMAIN acc[c] :
           i # j /\ acc[c][i].id = acc[c][j].id => acc[c][i].id \in damaged
  BY <1>2, <1>3 DEF Collected, Visited
<1>5. /\ sorted \in Seq(Row) /\ ToSet(sorted) = ToSet(acc[c])
      /\ \A i, j \in DOMAIN sorted : i < j => Before(sorted[i], sorted[j])
  BY <1>2, <1>4, SortFacts
<1> DEFINE out == MatchingRows(q, sorted)
<1>6. /\ out \in Seq(Row) /\ ToSet(out) = {r \in ToSet(sorted) : Matches(q, r)}
      /\ \A i, j \in DOMAIN out : i < j => Before(out[i], out[j])
  BY <1>5, MatchingFacts
<1> HIDE DEF out
<1>7. Return(c, Succeeded(out))
  BY <1>1 DEF out
<1> QED
  BY <1>2, <1>4, <1>5, <1>6, <1>7, AnswerStep DEF SelectPC

(***************************************************************************)
(* A failed promotion damages ids of stored rows, the id that was given to *)
(* the INSERT, and no others.                                              *)
(***************************************************************************)
LEMMA TearDamages ==
  ASSUME RefInv, NEW c \in Client, InsertTears(c)
  PROVE  UT!FailDamaging(c)
<1>0. PICK B \in Bucket : B = bucket[c]
  BY DEF RefInv, Inv, TypeOK
<1>1. /\ pc[c] = "index" /\ AllocMayFail /\ Return(c, Failed) /\ rows' = rows
      /\ NewRow(c) \in Row
  BY TearEnds DEF InsertTears, RefInv, Inv
<1>2. PICK lost : Torn(c, lost)
  BY TearEnds DEF RefInv, Inv
<1>3. PICK new : new = NewRow(c)
  OBVIOUS
<1>4. /\ lost \subseteq pk_index[B] \cup {new} /\ new.id \in Id
      /\ damaged' = damaged \cup Ids(lost \ {new}) \cup Ids({new} \ lost)
  BY <1>0, <1>1, <1>2, <1>3 DEF Torn, Row
<1>5. \A r \in lost \ {new} : r.id \in damaged \/ r \in Stored
  <2>1. writer[B] = c /\ pc[c] # "append"
    BY <1>0, <1>1 DEF RefInv, Inv, LockOwners
  <2>2. Appending(B) = {}
    BY <2>1 DEF RefInv, Inv, LockOwners, Appending
  <2>3. Pending(B) = {} /\ Contents(B) /\ freed \subseteq damaged
    BY <2>2 DEF Pending, RefInv, Inv, IndexContents
  <2> QED
    BY <1>4, <2>3 DEF Contents, Stored
<1> DEFINE spoiled == Ids(lost \ {new}) \cup Ids({new} \ lost)
           S == {r.id : r \in Stored}
<1>6. \E ids \in SUBSET S : \/ damaged' = damaged \cup ids
                             \/ \E id \in Id : damaged' = damaged \cup ids \cup {id}
  <2>1. spoiled \subseteq damaged \cup S \cup {new.id}
    BY <1>5 DEF Ids
  <2>2. CASE new.id \in damaged'
    <3>1. damaged' = damaged \cup (spoiled \cap S) \cup {new.id}
      BY <1>4, <2>1, <2>2
    <3> HIDE DEF spoiled, S
    <3> QED
      BY <1>4, <3>1
  <2>3. CASE new.id \notin damaged'
    <3>1. damaged' = damaged \cup (spoiled \cap S)
      BY <1>4, <2>1, <2>3
    <3> HIDE DEF spoiled, S
    <3> QED
      BY <3>1
  <2> QED
    BY <2>2, <2>3
<1>7. UNCHANGED Stored
  BY <1>1 DEF Stored
<1>8. doing[c].kind = "insert"
  BY <1>1 DEF RefInv, Inv, Requests, InsertPC
<1>9. UT!Failed = Failed /\ UT!Idle = Idle
  BY DEF UT!Failed, Failed, UT!Idle, Idle
<1> QED
  BY <1>1, <1>6, <1>7, <1>8, <1>9 DEF Return, UT!FailDamaging

(***************************************************************************)
(* Every step of the bucketed table is a step of the abstract one, or      *)
(* leaves it as it is.                                                     *)
(***************************************************************************)
LEMMA StepSimulation == RefInv /\ [Next]_vars => [UT!Next]_(UT!vars)
<1> SUFFICES ASSUME RefInv, [Next]_vars PROVE [UT!Next]_(UT!vars)
  OBVIOUS
<1>0. UT!Failed = Failed /\ UT!Idle = Idle /\ UT!Row = Row
  BY DEF UT!Failed, Failed, UT!Idle, Idle, UT!Row, Row
<1>1. CASE UNCHANGED vars
  BY <1>1 DEF vars, index, UT!vars, Stored
<1>2. ASSUME NEW c \in Client, Begin(c) \/ Step(c) PROVE [UT!Next]_(UT!vars)
  <2>1. ASSUME NEW d \in Payload, BeginInsert(c, d) PROVE UT!Next
    <3>1. UNCHANGED Stored /\ doing[c] = Idle
      BY <2>1 DEF BeginInsert, Stored, RefInv, Inv, Requests
    <3>2. UT!BeginInsert(c, d)
      BY <1>0, <2>1, <3>1 DEF BeginInsert, UT!BeginInsert, index
    <3> QED
      BY <3>2 DEF UT!Next
  <2>2. ASSUME NEW q \in Query, BeginSelect(c, q) PROVE UT!Next
    <3>1. UNCHANGED Stored /\ doing[c] = Idle
      BY <2>2 DEF BeginSelect, Stored, RefInv, Inv, Requests
    <3>2. UT!BeginSelect(c, q)
      BY <1>0, <2>2, <3>1 DEF BeginSelect, UT!BeginSelect, index
    <3> QED
      BY <3>2 DEF UT!Next
  <2>3. CASE DrawId(c) \/ LockForInsert(c) \/ IndexRow(c) \/ LockForSelect(c) \/ CollectBucket(c)
    <3>1. UNCHANGED <<rows, doing, reply, damaged>>
      BY <2>3 DEF DrawId, LockForInsert, IndexRow, LockForSelect, CollectBucket, index
    <3> QED
      BY <3>1 DEF UT!vars, Stored
  <2>4. CASE InsertFails(c) \/ InsertDuplicate(c) \/ CollectFails(c) \/ AnswerFails(c)
    <3>1. /\ pc[c] \in {"index", "collect", "answer", "search"} 
          /\ UNCHANGED <<rows, damaged>> /\ Return(c, Failed)
      BY <2>4 DEF InsertFails, InsertDuplicate, CollectFails, AnswerFails, index
    <3>2. UNCHANGED Stored
      BY <3>1 DEF Stored
    <3>3. doing[c] # Idle
      BY <3>1 DEF RefInv, Inv, Requests, InsertPC, SelectPC, Idle
    <3>4. UT!Fail(c)
      BY <1>0, <3>1, <3>2, <3>3 DEF Return, UT!Fail
    <3> QED
      BY <3>4 DEF UT!Next
  <2>5. CASE AppendRow(c)
    <3>1. /\ pc[c] = "append" /\ Return(c, Succeeded(<<NewRow(c)>>)) /\ damaged' = damaged
      BY <2>5 DEF AppendRow, index
    <3>2. /\ NewRow(c) \in Row /\ Stored' = Stored \cup {NewRow(c)}
          /\ \A s \in Stored : s.id = record_id[c] => s.id \in damaged
      BY <2>5, StoredGrows DEF RefInv
    <3>3. doing[c].kind = "insert"
      BY <3>1 DEF RefInv, Inv, Requests, InsertPC
    <3>4. NewRow(c).id = record_id[c] /\ NewRow(c).data = doing[c].data
      BY DEF NewRow
    <3>5. UT!Store(c)
      BY <1>0, <3>1, <3>2, <3>3, <3>4 DEF Return, Succeeded, UT!Succeeded, UT!Store
    <3> QED
      BY <3>5 DEF UT!Next
  <2>6. CASE SearchIndex(c) \/ ScanHit(c) \/ AnswerScan(c)
    <3>1. UT!Answer(c) \/ UT!AnswerDamaged(c)
      BY <2>6, SearchAnswers, HitAnswers, ScanAnswers
    <3> QED
      BY <3>1 DEF UT!Next
  <2>7. CASE InsertTears(c)
    <3>1. UT!FailDamaging(c)
      BY <2>7, TearDamages
    <3> QED
      BY <3>1 DEF UT!Next
  <2> QED
    BY <1>2, <2>1, <2>2, <2>3, <2>4, <2>5, <2>6, <2>7 DEF Begin, Step
<1> QED
  BY <1>1, <1>2 DEF Next

(***************************************************************************)
(* The invariant of the refinement.                                        *)
(***************************************************************************)
LEMMA RefInvariance == Spec => []RefInv
<1>1. Init => SelectInv /\ Replies
  <2> SUFFICES ASSUME Init PROVE SelectInv /\ Replies
    OBVIOUS
  <2>1. SelectInv
    BY DEF Init, SelectInv, SelectOK, SelectPC
  <2>2. Replies
    BY DEF Init, Replies
  <2> QED
    BY <2>1, <2>2
<1>2. Replies /\ [Next]_vars => Replies'
  <2> SUFFICES ASSUME Replies, [Next]_vars PROVE Replies'
    OBVIOUS
  <2>1. reply' = reply \/ \E c \in Client : \E r : reply' = [reply EXCEPT ![c] = r]
    BY DEF Next, vars, Begin, Step, BeginInsert, DrawId, LockForInsert, InsertFails,
           InsertDuplicate, IndexRow, AppendRow, BeginSelect, LockForSelect, SearchIndex,
           ScanHit, CollectBucket, CollectFails, AnswerScan, AnswerFails, InsertTears,
           Return
  <2> QED
    BY <2>1 DEF Replies
<1> QED
  BY Invariance, SelectStep, <1>1, <1>2, PTL DEF Spec, RefInv

(***************************************************************************)
(* The bucketed table implements the table of UsersTable: an INSERT takes  *)
(* effect in one step under an id of its own or not at all, and a SELECT   *)
(* misses no row stored before it began, invents and repeats none and      *)
(* returns them in order of id, whatever the other threads do meanwhile    *)
(* and whichever allocation fails, promotions in the index included: these *)
(* cost no row, only what UsersTable says of lookups of damaged ids.       *)
(***************************************************************************)
THEOREM Implementation == Spec => ImplementsUsersTable
<1>1. Init => UT!Init
  BY DEF Init, UT!Init, Stored, ToSet, Idle, UT!Idle, Failed, UT!Failed
<1> QED
  BY <1>1, StepSimulation, RefInvariance, PTL DEF Spec, UT!Spec, ImplementsUsersTable
=============================================================================
