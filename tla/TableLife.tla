----------------------------- MODULE TableLife -----------------------------
(***************************************************************************)
(* table_create and table_destroy of src/sql_processor/table.c.  Creation  *)
(* makes a mutex and, bucket by bucket, a read-write lock and an index; if *)
(* one of them cannot be made it calls table_destroy on what there is.     *)
(* destroy goes by initialized_buckets and next_id_lock_initialized, not   *)
(* by what really exists.  Rows belong to the module that stores them.     *)
(***************************************************************************)
EXTENDS Integers

CONSTANT BUCKET_COUNT  \* TABLE_BUCKET_COUNT

ASSUME BucketCountAssumption == BUCKET_COUNT \in Nat \ {0}

Bucket == 0 .. BUCKET_COUNT - 1

VARIABLE life  \* the Table without its rows

\* Each thing is absent, live, or corrupt after a second release.
NoTable == [block |-> "absent", next_id_lock |-> "absent",
            lock |-> [b \in Bucket |-> "absent"],
            pk_index |-> [b \in Bucket |-> "absent"],
            next_id_lock_initialized |-> FALSE, initialized_buckets |-> 0]

Released(status) == IF status = "live" THEN "absent" ELSE "corrupt"

\* bptree_destroy of NULL does nothing.
ReleasedIfAny(status) == IF status = "absent" THEN status ELSE Released(status)

\* The block and the mutex; without the mutex the block is freed at once.
CreateBlock == life' = [life EXCEPT !.block = "live", !.next_id_lock = "live",
                                    !.next_id_lock_initialized = TRUE]

Creating == life.initialized_buckets

\* Mutant: the bucket is counted only when it is complete.
CountedLate == [life EXCEPT !.lock[Creating] = "live"]
\* The lock of the next bucket; the bucket counts from now on.
WithLock == [life EXCEPT !.lock[Creating] = "live", !.initialized_buckets = Creating + 1]

CreateBucket == life' = [WithLock EXCEPT !.pk_index[Creating] = "live"]
CreateIndexFails == life' = WithLock

table_destroy ==
  life' = [life EXCEPT
             !.lock = [b \in Bucket |-> IF b < Creating THEN Released(@[b]) ELSE @[b]],
             !.pk_index = [b \in Bucket |->
                             IF b < Creating THEN ReleasedIfAny(@[b]) ELSE @[b]],
             !.next_id_lock = IF life.next_id_lock_initialized THEN Released(@) ELSE @,
             !.block = Released(@),
             !.initialized_buckets = 0, !.next_id_lock_initialized = FALSE]

\* Nothing is left, and nothing was released that did not exist.
TableGone == life = NoTable
=============================================================================
