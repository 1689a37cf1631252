----------------------------- MODULE UsersTable -----------------------------
(***************************************************************************)
(* What src/sql_processor/table.c promises the threads that share one      *)
(* table.  The table is a set of rows that only grows.  An INSERT adds one *)
(* row under an id no other row has, or fails and adds nothing.  A SELECT  *)
(* is not a snapshot: it returns every matching row that was stored before *)
(* it began, no row that was not stored by the time it ends, each once and *)
(* in ascending order of id.  Nothing here mentions buckets, locks, the    *)
(* index or the order in which a scan walks.                               *)
(*                                                                         *)
(* One failure breaks part of the promise: an INSERT that runs out of      *)
(* memory may damage ids, those of stored rows and the one it was given.   *)
(* From then on a lookup of a damaged id may find no row, or a wrong one,  *)
(* and the id may be given to a second row.  Rows are never lost: every    *)
(* SELECT that is not a lookup by id keeps its promise.                    *)
(***************************************************************************)
EXTENDS Integers, Sequences, FiniteSets, SequencesExt

CONSTANTS Client,       \* the threads
          Payload,      \* what an INSERT stores beside the id
          Id,           \* the values of an int
          Query,        \* the SELECTs
          Matches(_,_), \* Matches(q, row)
          UsesIndex(_), \* the lookups by id
          FirstOnly(_), \* the SELECTs that return one matching row
          AllocMayFail  \* whether memory may run out

VARIABLES stored,       \* the rows
          doing,        \* doing[c]: what client c is in the middle of
          reply,        \* reply[c]: its result, Failed until it has one
          damaged       \* the ids for which lookups are no longer good

vars == <<stored, doing, reply, damaged>>

Row == [id : Id, data : Payload]

Idle == [kind |-> "idle"]
Failed == [ok |-> FALSE, rows |-> <<>>]
Succeeded(rows) == [ok |-> TRUE, rows |-> rows]

\* In order of id, and two rows with one id only if it is damaged.
Ascending(rows) ==
  \A i, j \in DOMAIN rows : i < j =>
    \/ rows[i].id < rows[j].id
    \/ rows[i].id = rows[j].id /\ rows[i].id \in damaged

Init == /\ stored = {}
        /\ doing = [c \in Client |-> Idle]
        /\ reply = [c \in Client |-> Failed]
        /\ damaged = {}

BeginInsert(c, d) == /\ doing[c] = Idle
                     /\ doing' = [doing EXCEPT ![c] = [kind |-> "insert", data |-> d]]
                     /\ reply' = [reply EXCEPT ![c] = Failed]
                     /\ UNCHANGED <<stored, damaged>>

Store(c) == /\ doing[c].kind = "insert"
            /\ \E r \in Row :
                 /\ r.data = doing[c].data
                 /\ \A s \in stored : s.id = r.id => r.id \in damaged
                 /\ stored' = stored \cup {r}
                 /\ reply' = [reply EXCEPT ![c] = Succeeded(<<r>>)]
            /\ doing' = [doing EXCEPT ![c] = Idle]
            /\ UNCHANGED damaged

BeginSelect(c, q) ==
  /\ doing[c] = Idle
  /\ doing' = [doing EXCEPT ![c] = [kind |-> "select", query |-> q, floor |-> stored]]
  /\ reply' = [reply EXCEPT ![c] = Failed]
  /\ UNCHANGED <<stored, damaged>>

DamagedLookup(q) == UsesIndex(q) /\ q.value \in damaged

\* What rows must contain: every match, for table_scan_by_id one of them, and
\* nothing when the id is damaged.
Complete(q, match, rows) ==
  \/ match \subseteq ToSet(rows)
  \/ FirstOnly(q) /\ rows # <<>>
  \/ DamagedLookup(q)

Answer(c) ==
  /\ doing[c].kind = "select"
  /\ LET Match(S) == {r \in S : Matches(doing[c].query, r)}
         rows == reply'[c].rows
     IN  /\ rows \in Seq(Match(stored))
         /\ Complete(doing[c].query, Match(doing[c].floor), rows)
         /\ Ascending(rows)
         /\ reply' = [reply EXCEPT ![c] = Succeeded(rows)]
  /\ doing' = [doing EXCEPT ![c] = Idle]
  /\ UNCHANGED <<stored, damaged>>

\* A lookup comes upon a record that has been freed.
AnswerDamaged(c) ==
  /\ doing[c].kind = "select"
  /\ DamagedLookup(doing[c].query)
  /\ \E r \in Row : reply' = [reply EXCEPT ![c] = Succeeded(<<r>>)]
  /\ doing' = [doing EXCEPT ![c] = Idle]
  /\ UNCHANGED <<stored, damaged>>

Fail(c) == /\ doing[c] # Idle
           /\ reply' = [reply EXCEPT ![c] = Failed]
           /\ doing' = [doing EXCEPT ![c] = Idle]
           /\ UNCHANGED <<stored, damaged>>

FailDamaging(c) ==
  /\ AllocMayFail
  /\ doing[c].kind = "insert"
  /\ \E ids \in SUBSET {r.id : r \in stored} :
       \/ damaged' = damaged \cup ids
       \/ \E id \in Id : damaged' = damaged \cup ids \cup {id}
  /\ reply' = [reply EXCEPT ![c] = Failed]
  /\ doing' = [doing EXCEPT ![c] = Idle]
  /\ UNCHANGED stored

Next == \E c \in Client : \/ \E d \in Payload : BeginInsert(c, d)
                          \/ \E q \in Query : BeginSelect(c, q)
                          \/ Store(c) \/ Answer(c) \/ AnswerDamaged(c)
                          \/ Fail(c) \/ FailDamaging(c)

Spec == Init /\ [][Next]_vars
=============================================================================
