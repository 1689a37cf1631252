------------------------------- MODULE BPTree -------------------------------
(***************************************************************************)
(* src/sql_processor/bptree.c: the B+ tree behind the index of a bucket.   *)
(* Nodes live in a heap and point to their children, their parent and the  *)
(* next leaf.  bptree_insert walks down, and if the leaf is full splits it *)
(* and pushes a separator up, splitting full parents on the way; every     *)
(* node it allocates is a step of its own, because it may fail.            *)
(*                                                                         *)
(* Positions of keys and children are those of the C arrays plus one.      *)
(***************************************************************************)
EXTENDS Integers, Sequences, SequencesExt, FiniteSetsExt

CONSTANTS ORDER,        \* BPTREE_ORDER
          Key,          \* the keys that may be inserted
          MAX_FAILURES  \* bound: how often calloc may fail

ASSUME OrderAssumption == ORDER \in Nat /\ ORDER >= 3
ASSUME KeyAssumption == Key \subseteq Int
ASSUME FailuresAssumption == MAX_FAILURES \in Nat

MAX_KEYS == ORDER - 1
NULL == 0        \* the null node
NoValue == "none" \* the null value

VARIABLES node,      \* the allocated nodes, in order of allocation
          root,      \* tree->root
          pc,        \* where bptree_insert is
          key, val,  \* its arguments
          current,   \* the node it has walked down to
          left, right, sep,  \* a split: the two halves and the promoted key
          inserted,  \* history: what was inserted with a return value of 1
          failures,  \* how often calloc has failed
          torn       \* history: it failed while a separator was being promoted

vars == <<node, root, pc, key, val, current, left, right, sep, inserted,
          failures, torn>>

Leaf(keys, values, parent, next) ==
  [is_leaf |-> TRUE, keys |-> keys, values |-> values, children |-> <<>>,
   parent |-> parent, next |-> next]
Internal(keys, children, parent) ==
  [is_leaf |-> FALSE, keys |-> keys, values |-> <<>>, children |-> children,
   parent |-> parent, next |-> NULL]

NewNode == Len(node) + 1

Init == /\ node = <<>>
        /\ root = NULL
        /\ pc = "idle"
        /\ key = 0 /\ val = NoValue /\ current = NULL
        /\ left = NULL /\ right = NULL /\ sep = 0
        /\ inserted = <<>>
        /\ failures = 0
        /\ torn = FALSE

-----------------------------------------------------------------------------
\* The first position whose key is not below k, where k is inserted.
bptree_find_insert_index(keys, k) ==
  Min({i \in 1 .. Len(keys) + 1 : i = Len(keys) + 1 \/ keys[i] >= k})

\* Mutant: an equal separator sends the search to the left.
ChildIndexLeft(keys, k) ==
  Min({i \in 1 .. Len(keys) + 1 : i = Len(keys) + 1 \/ k <= keys[i]})
\* The first child whose separator is above k.
ChildIndex(keys, k) ==
  Min({i \in 1 .. Len(keys) + 1 : i = Len(keys) + 1 \/ k < keys[i]})

\* bptree_find_leaf, for a whole walk at once.
bptree_find_leaf(k) ==
  LET walk[i \in 0 .. Len(node)] ==
        IF i = 0 THEN root
        ELSE LET n == walk[i - 1]
             IN  IF n = NULL \/ node[n].is_leaf THEN n
                 ELSE node[n].children[ChildIndex(node[n].keys, k)]
  IN  walk[Len(node)]

bptree_search(k) ==
  LET n == bptree_find_leaf(k)
      at == IF n = NULL THEN {} ELSE {i \in DOMAIN node[n].keys : node[n].keys[i] = k}
  IN  IF at = {} THEN NoValue ELSE node[n].values[Min(at)]

-----------------------------------------------------------------------------
(* bptree_insert.                                                          *)

\* What was inserted, and the pair of this call.
Recorded == [k \in DOMAIN inserted \cup {key} |->
               IF k \in DOMAIN inserted THEN inserted[k] ELSE val]

Return(ok) == /\ pc' = "idle"
              /\ key' = 0 /\ val' = NoValue /\ current' = NULL
              /\ left' = NULL /\ right' = NULL /\ sep' = 0
              /\ inserted' = IF ok THEN Recorded ELSE inserted

NoFailure == UNCHANGED <<failures, torn>>

\* calloc returned NULL: return 0, whatever has been changed already.
AllocFails == /\ failures < MAX_FAILURES
              /\ failures' = failures + 1
              /\ Return(FALSE)

\* The caller passes a new record each time; all that matters of it is
\* whether it is the one the key was first inserted with.
Insert(k) == /\ pc = "idle"
             /\ key' = k
             /\ val' = IF k \in DOMAIN inserted THEN "again" ELSE "first"
             /\ current' = root
             /\ pc' = IF root = NULL THEN "first" ELSE "descend"
             /\ NoFailure
             /\ UNCHANGED <<node, root, left, right, sep, inserted>>

FirstLeaf == /\ pc = "first"
             /\ node' = Append(node, Leaf(<<key>>, <<val>>, NULL, NULL))
             /\ root' = NewNode
             /\ Return(TRUE)
             /\ NoFailure

Descend == /\ pc = "descend"
           /\ ~node[current].is_leaf
           /\ current' = node[current].children[ChildIndex(node[current].keys, key)]
           /\ NoFailure
           /\ UNCHANGED <<node, root, pc, key, val, left, right, sep, inserted>>

AtLeaf == pc = "descend" /\ node[current].is_leaf
HasKey == key \in ToSet(node[current].keys)

Duplicate == /\ AtLeaf
             /\ HasKey
             /\ Return(FALSE)
             /\ NoFailure
             /\ UNCHANGED <<node, root>>

\* The keys and values of the leaf with the new pair in place.
NewKeys == InsertAt(node[current].keys,
                    bptree_find_insert_index(node[current].keys, key), key)
NewValues == InsertAt(node[current].values,
                      bptree_find_insert_index(node[current].keys, key), val)

InsertIntoLeaf == /\ AtLeaf
                  /\ ~HasKey
                  /\ Len(node[current].keys) < MAX_KEYS
                  /\ node' = [node EXCEPT ![current].keys = NewKeys,
                                          ![current].values = NewValues]
                  /\ Return(TRUE)
                  /\ NoFailure
                  /\ UNCHANGED root

\* No node for the first leaf, or for the right half of a leaf: nothing has
\* been changed yet.
LeafAllocFails == /\ \/ pc = "first"
                     \/ /\ AtLeaf
                        /\ ~HasKey
                        /\ Len(node[current].keys) = MAX_KEYS
                  /\ AllocFails
                  /\ UNCHANGED <<node, root, torn>>

\* Mutant: all pairs but one stay.
LeftCountLong == ORDER - 1
\* How many pairs stay in a leaf that is split.
LeftCount == ORDER \div 2

\* Mutant: the new leaf is not linked into the chain.
LinkForgotten(n) == [n EXCEPT ![current].next = n[NewNode].next]
LinkLeaf(n) == [n EXCEPT ![current].next = NewNode]

SplitLeaf ==
  /\ AtLeaf
  /\ ~HasKey
  /\ Len(node[current].keys) = MAX_KEYS
  /\ LET kept == [node EXCEPT ![current].keys = SubSeq(NewKeys, 1, LeftCount),
                              ![current].values = SubSeq(NewValues, 1, LeftCount)]
         moved == Leaf(SubSeq(NewKeys, LeftCount + 1, ORDER),
                       SubSeq(NewValues, LeftCount + 1, ORDER),
                       node[current].parent, node[current].next)
     IN  /\ node' = LinkLeaf(Append(kept, moved))
         /\ left' = current /\ right' = NewNode /\ sep' = moved.keys[1]
  /\ pc' = "promote"
  /\ NoFailure
  /\ UNCHANGED <<root, key, val, current, inserted>>

-----------------------------------------------------------------------------
(* bptree_insert_into_parent.                                              *)

parent == node[left].parent
ChildPosition == Min({i \in 1 .. Len(node[parent].children) + 1 :
                        \/ i = Len(node[parent].children) + 1
                        \/ node[parent].children[i] = left})

\* Mutant: the right half is not told of its new parent.
NewRootUnlinked ==
  /\ pc = "promote"
  /\ parent = NULL
  /\ node' = Append([node EXCEPT ![left].parent = NewNode],
                    Internal(<<sep>>, <<left, right>>, NULL))
  /\ root' = NewNode
  /\ Return(TRUE)
  /\ NoFailure

NewRoot ==
  /\ pc = "promote"
  /\ parent = NULL
  /\ node' = Append([node EXCEPT ![left].parent = NewNode,
                                 ![right].parent = NewNode],
                    Internal(<<sep>>, <<left, right>>, NULL))
  /\ root' = NewNode
  /\ Return(TRUE)
  /\ NoFailure

\* The parent's separators and children with the new pair in place.
ParentKeys == InsertAt(node[parent].keys, ChildPosition, sep)
ParentChildren == InsertAt(node[parent].children, ChildPosition + 1, right)

InsertIntoInternal ==
  /\ pc = "promote"
  /\ parent # NULL
  /\ Len(node[parent].keys) < MAX_KEYS
  /\ node' = [node EXCEPT ![parent].keys = ParentKeys,
                          ![parent].children = ParentChildren,
                          ![right].parent = parent]
  /\ Return(TRUE)
  /\ NoFailure
  /\ UNCHANGED root

Adopt(n, children, p) ==
  [i \in DOMAIN n |-> IF i \in ToSet(children) THEN [n[i] EXCEPT !.parent = p]
                      ELSE n[i]]

SplitInternal ==
  /\ pc = "promote"
  /\ parent # NULL
  /\ Len(node[parent].keys) = MAX_KEYS
  /\ LET mid == ORDER \div 2
         leftChildren == SubSeq(ParentChildren, 1, mid + 1)
         rightChildren == SubSeq(ParentChildren, mid + 2, ORDER + 1)
         kept == [node EXCEPT ![parent].keys = SubSeq(ParentKeys, 1, mid),
                              ![parent].children = leftChildren]
         moved == Internal(SubSeq(ParentKeys, mid + 2, ORDER), rightChildren,
                           node[parent].parent)
     IN  /\ node' = Adopt(Adopt(Append(kept, moved), leftChildren, parent),
                          rightChildren, NewNode)
         /\ left' = parent /\ right' = NewNode /\ sep' = ParentKeys[mid + 1]
  /\ NoFailure
  /\ UNCHANGED <<root, pc, key, val, current, inserted>>

\* No node for a new root or for the right half of a full parent: the leaf
\* below has been split already, and its right half is left without a parent
\* that points to it.
PromoteAllocFails ==
  /\ pc = "promote"
  /\ parent # NULL => Len(node[parent].keys) = MAX_KEYS
  /\ AllocFails
  /\ torn' = TRUE
  /\ UNCHANGED <<node, root>>

-----------------------------------------------------------------------------
Next == \/ \E k \in Key : Insert(k)
        \/ FirstLeaf \/ Descend \/ Duplicate \/ InsertIntoLeaf
        \/ SplitLeaf \/ LeafAllocFails
        \/ NewRoot \/ InsertIntoInternal \/ SplitInternal \/ PromoteAllocFails

Spec == Init /\ [][Next]_vars

-----------------------------------------------------------------------------
(* Properties, of the tree between two calls.                              *)

Nodes == DOMAIN node
Quiet == pc = "idle"
Whole == Quiet /\ ~torn

\* A search finds exactly the keys whose insert returned 1, with the value
\* they were first inserted with: splits lose, duplicate or replace nothing,
\* and running out of memory is harmless until a separator has to be
\* promoted.
LossOnlyByPromotion ==
  Whole => \A k \in Key :
    bptree_search(k) = IF k \in DOMAIN inserted THEN inserted[k] ELSE NoValue

\* The tree stays a B+ tree: all leaves are equally deep, every node but the
\* root is at least half full and none is overfull, so that the walk down is
\* short whatever the order of the inserts.
Depth(n) == LET up[i \in 0 .. Len(node)] ==
                  IF i = 0 THEN n
                  ELSE IF up[i - 1] = NULL THEN NULL ELSE node[up[i - 1]].parent
            IN  Cardinality({i \in 0 .. Len(node) : up[i] # NULL})
Balanced ==
  Whole => /\ \A m, n \in Nodes : node[m].is_leaf /\ node[n].is_leaf =>
                Depth(m) = Depth(n)
           /\ \A n \in Nodes :
                /\ Len(node[n].keys) <= MAX_KEYS
                /\ Len(node[n].keys) >=
                     IF n = root THEN 1
                     ELSE IF node[n].is_leaf THEN ORDER \div 2
                     ELSE (ORDER - 1) \div 2
                /\ \A i, j \in DOMAIN node[n].keys : i < j =>
                     node[n].keys[i] < node[n].keys[j]

\* Parents and children point at each other and every node hangs below the
\* root: the next split finds its parent, and bptree_destroy frees each
\* node once.
WellLinked ==
  Whole => /\ \A n \in Nodes : ~node[n].is_leaf =>
                /\ Len(node[n].children) = Len(node[n].keys) + 1
                /\ \A i \in DOMAIN node[n].children :
                     node[node[n].children[i]].parent = n
           /\ \A n \in Nodes \ {root} :
                /\ node[n].parent \in Nodes
                /\ n \in ToSet(node[node[n].parent].children)

\* The chain of leaves runs through the keys in ascending order.  When memory
\* has run out in the middle of a split the order may be lost, but no key
\* is: what the walk from the root no longer finds is still in the chain.
ChainKeepsKeys ==
  /\ Whole => \A n \in Nodes : node[n].is_leaf /\ node[n].next # NULL =>
       Last(node[n].keys) < Head(node[node[n].next].keys)
  /\ Quiet => \A k \in DOMAIN inserted : \E n \in Nodes :
       /\ node[n].is_leaf
       /\ k \in ToSet(node[n].keys)
       /\ n = 1 \/ \E m \in Nodes : node[m].is_leaf /\ node[m].next = n

\* What a failed promotion costs.  At every point where it can fail, the keys
\* below the half that has no parent yet are a run of neighbours, no fewer
\* than half a leaf, above the half that stays.  After it a search still
\* finds exactly the keys below the root, however many inserts follow.
KeysBelow(n) ==
  LET reached[i \in 0 .. Len(node)] ==
        IF i = 0 THEN {n} \ {NULL}
        ELSE LET above == reached[i - 1]
             IN  above \cup UNION {ToSet(node[m].children) : m \in above}
  IN  UNION {ToSet(node[m].keys) : m \in {l \in reached[Len(node)] : node[l].is_leaf}}
FailedPromotionLosesARun ==
  /\ pc = "promote" =>
       LET lost == KeysBelow(right)
           kept == KeysBelow(root)
       IN  /\ Cardinality(lost) >= ORDER - ORDER \div 2
           /\ Cardinality({k \in kept : k < Min(lost)}) >= ORDER \div 2
           /\ \A k \in kept : k < Min(lost) \/ k > Max(lost)
  /\ Quiet /\ torn => {k \in Key : bptree_search(k) # NoValue} = KeysBelow(root)

\* What the unit tests ask of a split, here also when memory runs out: a key
\* that was inserted stays.
SplitPreservesKeys ==
  Quiet => \A k \in DOMAIN inserted : bptree_search(k) = inserted[k]
=============================================================================
