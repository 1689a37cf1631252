---------------------------- MODULE BPTreeProofs ----------------------------
(***************************************************************************)
(* Proofs about BPTree, for every order of at least three, all keys, any   *)
(* number of inserts and of failed allocations.                            *)
(*                                                                         *)
(* The invariant has two parts.  The first holds always, also when memory  *)
(* has run out while a separator was being promoted: children and parents  *)
(* fit together as far as there are any, and the leaf level keeps every    *)
(* key.  The second holds as long as that has not happened: every node     *)
(* hangs in the tree and has its share of the keys.  Both speak of things  *)
(* the nodes do not record: how high a node is above the leaves, the path  *)
(* by which the insert came down, and which keys the walk brings to a      *)
(* node.  They are quantified in the invariant.                            *)
(***************************************************************************)
EXTENDS BPTree, BasicLemmas, TLAPS

Value == {"first", "again", NoValue}
NodeRec == [is_leaf : BOOLEAN, keys : Seq(Int), values : Seq(Value),
            children : Seq(Nat), parent : Nat, next : Nat]

Types == /\ node \in Seq(NodeRec)
         /\ root \in Nat /\ current \in Nat /\ left \in Nat /\ right \in Nat
         /\ pc \in {"idle", "first", "descend", "promote"}
         /\ key \in Int /\ sep \in Int /\ val \in Value
         /\ DOMAIN inserted \subseteq Int
         /\ inserted \in [DOMAIN inserted -> Value]

-----------------------------------------------------------------------------
(* What always holds.                                                      *)

\* The root and the first leaf.
Rooted == /\ root = NULL <=> node = <<>>
          /\ root # NULL => root \in Nodes /\ node[root].parent = NULL
          /\ node # <<>> => node[1].is_leaf
          /\ pc = "first" => root = NULL
          /\ pc \in {"descend", "promote"} => root # NULL

\* A node's children are nodes, no two the same, and know their parent.
Children == \A n \in Nodes : ~node[n].is_leaf =>
              /\ Len(node[n].children) = Len(node[n].keys) + 1
              /\ \A i \in DOMAIN node[n].children :
                   /\ node[n].children[i] \in Nodes
                   /\ node[node[n].children[i]].parent = n
              /\ \A i, j \in DOMAIN node[n].children :
                   node[n].children[i] = node[n].children[j] => i = j

\* h is the height above the leaves.
Heights(h) ==
  /\ h \in [Nodes -> Nat]
  /\ \A n \in Nodes : node[n].is_leaf <=> h[n] = 0
  /\ \A n \in Nodes : node[n].parent # NULL =>
       node[n].parent \in Nodes /\ h[node[n].parent] = h[n] + 1
  /\ \A n \in Nodes : h[n] < Len(node)
  /\ pc = "promote" => h[right] = h[left]

\* path leads from some node to the root.
Path(path) == /\ path \subseteq Nodes
              /\ \A n \in path : n = root \/ /\ node[n].parent \in path
                                             /\ n \in ToSet(node[node[n].parent].children)

\* The two halves of a split.
Halves == pc = "promote" =>
            /\ left \in Nodes /\ right \in Nodes /\ left # right /\ right # root
            /\ node[right].parent = node[left].parent
            /\ node[right].is_leaf <=> node[left].is_leaf
            /\ \A n \in Nodes : ~node[n].is_leaf => right \notin ToSet(node[n].children)

OnPath(path) == /\ pc = "descend" => current \in path
                /\ pc = "promote" => left \in path

\* A leaf has a value for each key.
Paired == \A n \in Nodes : node[n].is_leaf => Len(node[n].values) = Len(node[n].keys)

\* Leaves are linked to leaves, and all but the first are linked to.
Linked == \A n \in Nodes : node[n].is_leaf =>
            /\ node[n].next # NULL => node[n].next \in Nodes /\ node[node[n].next].is_leaf
            /\ n = 1 \/ \E m \in Nodes : node[m].is_leaf /\ node[m].next = n

\* The keys that the leaves must have.
Known == DOMAIN inserted \cup (IF pc = "promote" THEN {key} ELSE {})
Kept == \A k \in Known : \E n \in Nodes : node[n].is_leaf /\ k \in ToSet(node[n].keys)

Frame(h, path) == /\ Types /\ Rooted /\ Children /\ Heights(h) /\ Path(path)
                  /\ Halves /\ OnPath(path) /\ Paired /\ Linked /\ Kept

-----------------------------------------------------------------------------
(* What holds as long as nothing is torn.                                  *)

\* Every node but the root, and the right half of a split, is a child.
Attached == \A n \in Nodes \ {root} :
              \/ pc = "promote" /\ n = right
              \/ /\ node[n].parent \in Nodes
                 /\ n \in ToSet(node[node[n].parent].children)

Ascending(K) == \A i, j \in DOMAIN K : i < j => K[i] < K[j]

\* Nodes are at least half full, and their keys in order.
Least(is_leaf) == IF is_leaf THEN ORDER \div 2 ELSE (ORDER - 1) \div 2
Filled == \A n \in Nodes :
            /\ Len(node[n].keys) \in 1 .. MAX_KEYS
            /\ n # root \/ (pc = "promote" /\ n = left) =>
                 Len(node[n].keys) >= Least(node[n].is_leaf)
            /\ Ascending(node[n].keys)

\* span[n] is the set of keys that a walk from the root brings to n.
Share(span, n) == IF pc = "promote" /\ n = left THEN span[left] \cup span[right]
                  ELSE span[n]
Spans(span) ==
  /\ span \in [Nodes -> SUBSET Int]
  /\ root # NULL => Share(span, root) = Int
  /\ \A n \in Nodes : ToSet(node[n].keys) \subseteq span[n]
  /\ \A n \in Nodes : ~node[n].is_leaf =>
       \A i \in DOMAIN node[n].children :
         Share(span, node[n].children[i])
           = {k \in span[n] : ChildIndex(node[n].keys, k) = i}
  /\ pc = "descend" => key \in span[current]
  /\ pc = "promote" => /\ sep \in span[right]
                       /\ \A k \in span[left] : k < sep
                       /\ \A k \in span[right] : k >= sep

\* The chain of leaves is in ascending order.
Chained(span) == \A n \in Nodes : node[n].is_leaf /\ node[n].next # NULL =>
                   \A x \in span[n] : \A y \in span[node[n].next] : x < y

\* The leaves have exactly what was inserted, with its values.
ValueOf(k) == IF k \in DOMAIN inserted THEN inserted[k] ELSE val
Contents == /\ pc = "promote" => key \notin DOMAIN inserted
            /\ \A n \in Nodes : node[n].is_leaf =>
                 \A i \in DOMAIN node[n].keys :
                   /\ node[n].keys[i] \in Known
                   /\ node[n].values[i] = ValueOf(node[n].keys[i])

Sound(span) == Attached /\ Filled /\ Spans(span) /\ Chained(span) /\ Contents

Inv == /\ \E h, path : Frame(h, path)
       /\ ~torn => \E span : Sound(span)

-----------------------------------------------------------------------------
(* Sequences and positions.                                                *)

(***************************************************************************)
(* What InsertAt returns.                                                  *)
(***************************************************************************)
LEMMA InsertFacts ==
  ASSUME NEW S, NEW s \in Seq(S), NEW i \in 1 .. Len(s) + 1, NEW e \in S
  PROVE  LET t == InsertAt(s, i, e)
         IN  /\ t \in Seq(S) /\ Len(t) = Len(s) + 1
             /\ \A j \in 1 .. i - 1 : t[j] = s[j]
             /\ t[i] = e
             /\ \A j \in i + 1 .. Len(s) + 1 : t[j] = s[j - 1]
<1> DEFINE a == SubSeq(s, 1, i - 1)
           b == SubSeq(s, i, Len(s))
           t == InsertAt(s, i, e)
<1>1. /\ Len(s) \in Nat /\ i \in Nat
      /\ a \in Seq(S) /\ Len(a) = i - 1 /\ \A j \in 1 .. i - 1 : a[j] = s[j]
  OBVIOUS
<1>2. b \in Seq(S) /\ Len(b) = Len(s) - i + 1
  OBVIOUS
<1>3. \A j \in 1 .. Len(s) - i + 1 : b[j] = s[i + j - 1]
  OBVIOUS
<1>4. <<e>> \in Seq(S) /\ Len(<<e>>) = 1 /\ <<e>>[1] = e
  OBVIOUS
<1>5. t = (a \o <<e>>) \o b
  BY DEF InsertAt
<1> HIDE DEF a, b, t
<1>6. /\ a \o <<e>> \in Seq(S) /\ Len(a \o <<e>>) = i
      /\ \A j \in 1 .. i - 1 : (a \o <<e>>)[j] = s[j]
      /\ (a \o <<e>>)[i] = e
  BY <1>1, <1>4
<1>7. t \in Seq(S) /\ Len(t) = Len(s) + 1
  <2> PICK u \in Seq(S) : u = a \o <<e>> /\ Len(u) = i
    BY <1>6
  <2>1. t \in Seq(S) /\ Len(t) = Len(u) + Len(b)
    <3>1. t = u \o b /\ b \in Seq(S)
      BY <1>2, <1>5
    <3> QED
      BY ONLY u \in Seq(S), <3>1
  <2> QED
    BY <1>1, <1>2, <2>1
<1>8. \A j \in 1 .. i : t[j] = (a \o <<e>>)[j]
  BY <1>1, <1>2, <1>5, <1>6
<1>9. ASSUME NEW j \in i + 1 .. Len(s) + 1 PROVE t[j] = s[j - 1]
  <2>1. t[j] = b[j - i]
    BY <1>1, <1>2, <1>5, <1>6
  <2>2. j - i \in 1 .. Len(s) - i + 1 /\ i + (j - i) - 1 = j - 1
    BY <1>1
  <2> QED
    BY <1>3, <2>1, <2>2
<1> QED
  BY <1>1, <1>6, <1>7, <1>8, <1>9 DEF t

\* t is s with e at position i.
WithNew(t, s, i, e) == /\ Len(t) = Len(s) + 1
                       /\ \A j \in 1 .. i - 1 : t[j] = s[j]
                       /\ t[i] = e
                       /\ \A j \in i + 1 .. Len(s) + 1 : t[j] = s[j - 1]

LEMMA InsertNew ==
  ASSUME NEW S, NEW s \in Seq(S), NEW i \in 1 .. Len(s) + 1, NEW e \in S
  PROVE  InsertAt(s, i, e) \in Seq(S) /\ WithNew(InsertAt(s, i, e), s, i, e)
<1> DEFINE t == InsertAt(s, i, e)
<1>1. /\ t \in Seq(S) /\ Len(t) = Len(s) + 1
      /\ \A j \in 1 .. i - 1 : t[j] = s[j]
      /\ t[i] = e
      /\ \A j \in i + 1 .. Len(s) + 1 : t[j] = s[j - 1]
  BY InsertFacts
<1> HIDE DEF t
<1>2. WithNew(t, s, i, e)
  BY ONLY <1>1 DEF WithNew
<1> QED
  BY <1>1, <1>2 DEF t

(***************************************************************************)
(* What SubSeq returns.                                                    *)
(***************************************************************************)
LEMMA SubSeqFacts ==
  ASSUME NEW S, NEW s \in Seq(S), NEW a \in 1 .. Len(s) + 1,
         NEW b \in a - 1 .. Len(s)
  PROVE  LET t == SubSeq(s, a, b)
         IN  /\ t \in Seq(S) /\ Len(t) = b - a + 1
             /\ DOMAIN t = 1 .. b - a + 1
             /\ \A j \in 1 .. b - a + 1 : t[j] = s[a + j - 1]
OBVIOUS

\* t is the part of s from a to b.
PartOf(t, s, a, b) == /\ Len(t) = b - a + 1 /\ DOMAIN t = 1 .. b - a + 1
                      /\ \A j \in 1 .. b - a + 1 : t[j] = s[a + j - 1]

LEMMA SubSeqPart ==
  ASSUME NEW S, NEW s \in Seq(S), NEW a \in 1 .. Len(s) + 1,
         NEW b \in a - 1 .. Len(s)
  PROVE  SubSeq(s, a, b) \in Seq(S) /\ PartOf(SubSeq(s, a, b), s, a, b)
BY SubSeqFacts DEF PartOf

(***************************************************************************)
(* Where a new key goes in a leaf.                                         *)
(***************************************************************************)
LEMMA FindFacts ==
  ASSUME NEW K \in Seq(Int), NEW k \in Int
  PROVE  LET i == bptree_find_insert_index(K, k)
         IN  /\ i \in 1 .. Len(K) + 1
             /\ \A j \in 1 .. i - 1 : K[j] < k
             /\ i <= Len(K) => K[i] >= k
<1> DEFINE P == {i \in 1 .. Len(K) + 1 : i = Len(K) + 1 \/ K[i] >= k}
           i == Min(P)
<1>1. Len(K) \in Nat /\ \A j \in 1 .. Len(K) : K[j] \in Int
  OBVIOUS
<1>2. P \in SUBSET Nat /\ Len(K) + 1 \in P
  BY <1>1
<1>3. i \in P /\ \A j \in P : i <= j
  <2> HIDE DEF P
  <2> QED
    BY <1>2, MinFacts
<1>4. bptree_find_insert_index(K, k) = i
  BY DEF bptree_find_insert_index
<1> HIDE DEF i
<1>5. i \in 1 .. Len(K) + 1 /\ (i <= Len(K) => K[i] >= k)
  BY <1>1, <1>3
<1>6. ASSUME NEW j \in 1 .. i - 1 PROVE K[j] < k
  <2>1. j \in 1 .. Len(K) /\ j \notin P
    BY <1>1, <1>3, <1>5
  <2> QED
    BY <1>1, <2>1
<1> QED
  BY <1>4, <1>5, <1>6

(***************************************************************************)
(* Which child a key belongs to.                                           *)
(***************************************************************************)
Belongs(K, k, i) == /\ i \in 1 .. Len(K) + 1
                    /\ \A j \in 1 .. i - 1 : K[j] <= k
                    /\ i <= Len(K) => k < K[i]

LEMMA ChildFacts ==
  ASSUME NEW K \in Seq(Int), NEW k \in Int
  PROVE  /\ Belongs(K, k, ChildIndex(K, k))
         /\ \A i : Belongs(K, k, i) => i = ChildIndex(K, k)
<1> DEFINE P == {i \in 1 .. Len(K) + 1 : i = Len(K) + 1 \/ k < K[i]}
           c == Min(P)
<1>1. Len(K) \in Nat /\ \A j \in 1 .. Len(K) : K[j] \in Int
  OBVIOUS
<1>2. P \in SUBSET Nat /\ Len(K) + 1 \in P
  BY <1>1
<1>3. c \in P /\ \A j \in P : c <= j
  <2> HIDE DEF P
  <2> QED
    BY <1>2, MinFacts
<1>4. ChildIndex(K, k) = c
  BY DEF ChildIndex
<1> HIDE DEF c
<1>5. c \in 1 .. Len(K) + 1 /\ (c <= Len(K) => k < K[c])
  BY <1>1, <1>3
<1>6. ASSUME NEW j \in 1 .. c - 1 PROVE K[j] <= k
  <2>1. j \in 1 .. Len(K) /\ j \notin P
    BY <1>1, <1>3, <1>5
  <2> QED
    BY <1>1, <2>1
<1>7. ASSUME NEW i, Belongs(K, k, i) PROVE i = c
  <2>1. /\ i \in 1 .. Len(K) + 1
        /\ \A j \in 1 .. i - 1 : K[j] <= k
        /\ i <= Len(K) => k < K[i]
    BY <1>7 DEF Belongs
  <2>2. CASE i < c
    BY <1>1, <1>5, <1>6, <2>1, <2>2
  <2>3. CASE c < i
    BY <1>1, <1>5, <2>1, <2>3
  <2> QED
    BY <1>5, <2>1, <2>2, <2>3
<1> QED
  BY <1>4, <1>5, <1>6, <1>7 DEF Belongs

(***************************************************************************)
(* A new separator for one child: only its keys are divided anew.          *)
(***************************************************************************)
LEMMA RouteInserted ==
  ASSUME NEW K \in Seq(Int), NEW q \in 1 .. Len(K) + 1, NEW s \in Int, NEW k \in Int,
         \A j \in 1 .. q - 1 : K[j] <= s, q <= Len(K) => s < K[q]
  PROVE  LET c == ChildIndex(K, k)
         IN  ChildIndex(InsertAt(K, q, s), k)
               = IF c < q \/ (c = q /\ k < s) THEN c ELSE c + 1
<1> DEFINE c == ChildIndex(K, k)
           L == InsertAt(K, q, s)
<1>1. /\ c \in 1 .. Len(K) + 1
      /\ \A j \in 1 .. c - 1 : K[j] <= k
      /\ c <= Len(K) => k < K[c]
  BY ChildFacts DEF Belongs
<1>2. /\ L \in Seq(Int) /\ Len(L) = Len(K) + 1
      /\ \A j \in 1 .. q - 1 : L[j] = K[j]
      /\ L[q] = s
      /\ \A j \in q + 1 .. Len(K) + 1 : L[j] = K[j - 1]
  BY InsertFacts
<1> HIDE DEF c, L
<1>3. Len(K) \in Nat /\ \A j \in 1 .. Len(K) : K[j] \in Int
  OBVIOUS
<1>4. CASE c < q \/ (c = q /\ k < s)
  <2>1. c <= q /\ c \in 1 .. Len(L) + 1
    BY <1>1, <1>2, <1>3, <1>4
  <2>2. ASSUME NEW j \in 1 .. c - 1 PROVE L[j] <= k
    <3>1. j \in 1 .. q - 1
      BY <1>1, <2>1
    <3> QED
      BY <1>1, <1>2, <3>1
  <2>3. k < L[c]
    <3>1. CASE c = q /\ k < s
      BY <1>2, <3>1
    <3>2. CASE c < q
      <4>1. c <= Len(K) /\ c \in 1 .. q - 1
        BY <1>1, <1>3, <3>2
      <4> QED
        BY <1>1, <1>2, <4>1
    <3> QED
      BY <1>4, <3>1, <3>2
  <2>4. Belongs(L, k, c)
    BY <2>1, <2>2, <2>3 DEF Belongs
  <2> QED
    BY <1>2, <1>4, <2>4, ChildFacts DEF c, L
<1>5. CASE ~(c < q \/ (c = q /\ k < s))
  <2>1. c > q \/ (c = q /\ k >= s)
    BY <1>1, <1>3, <1>5
  <2>2. s <= k
    <3>1. CASE c > q
      <4>1. q \in 1 .. c - 1 /\ q <= Len(K) /\ K[q] \in Int
        BY <1>1, <1>3, <3>1
      <4> QED
        BY <1>1, <4>1
    <3> QED
      BY <2>1, <3>1
  <2>3. c + 1 \in 1 .. Len(L) + 1
    BY <1>1, <1>2, <1>3, <1>5
  <2>4. ASSUME NEW j \in 1 .. c PROVE L[j] <= k
    <3>1. CASE j < q
      <4>1. j \in 1 .. q - 1 /\ j \in 1 .. c - 1
        BY <1>1, <1>3, <2>1, <3>1
      <4> QED
        BY <1>1, <1>2, <4>1
    <3>2. CASE j = q
      BY <1>2, <2>2, <3>2
    <3>3. CASE j > q
      <4>1. j \in q + 1 .. Len(K) + 1 /\ j - 1 \in 1 .. c - 1
        BY <1>1, <1>3, <3>3
      <4> QED
        BY <1>1, <1>2, <4>1
    <3> QED
      BY <1>1, <3>1, <3>2, <3>3
  <2>5. ASSUME c + 1 <= Len(L) PROVE k < L[c + 1]
    <3>1. c <= Len(K) /\ c + 1 \in q + 1 .. Len(K) + 1 /\ (c + 1) - 1 = c
      BY <1>1, <1>2, <1>3, <2>1, <2>5
    <3> QED
      BY <1>1, <1>2, <3>1
  <2>6. Belongs(L, k, c + 1)
    BY <1>1, <2>3, <2>4, <2>5 DEF Belongs
  <2> QED
    BY <1>2, <1>5, <2>6, ChildFacts DEF c, L
<1> QED
  BY <1>4, <1>5

(***************************************************************************)
(* Two halves of a sequence of separators, the one between them taken out. *)
(***************************************************************************)
LEMMA RouteCut ==
  ASSUME NEW K \in Seq(Int), Ascending(K), NEW m \in 1 .. Len(K), NEW k \in Int
  PROVE  LET c == ChildIndex(K, k)
         IN  /\ c \in 1 .. Len(K) + 1
             /\ k < K[m] => c <= m /\ ChildIndex(SubSeq(K, 1, m - 1), k) = c
             /\ k >= K[m] => c > m /\ ChildIndex(SubSeq(K, m + 1, Len(K)), k) = c - m
<1> DEFINE c == ChildIndex(K, k)
           L == SubSeq(K, 1, m - 1)
           R == SubSeq(K, m + 1, Len(K))
<1>1. /\ c \in 1 .. Len(K) + 1
      /\ \A j \in 1 .. c - 1 : K[j] <= k
      /\ c <= Len(K) => k < K[c]
  BY ChildFacts DEF Belongs
<1>2. Len(K) \in Nat /\ DOMAIN K = 1 .. Len(K) /\ \A j \in 1 .. Len(K) : K[j] \in Int
  OBVIOUS
<1>3. /\ L \in Seq(Int) /\ Len(L) = m - 1
      /\ \A j \in 1 .. m - 1 : L[j] = K[j]
  OBVIOUS
<1>4. /\ R \in Seq(Int) /\ Len(R) = Len(K) - m
      /\ \A j \in 1 .. Len(K) - m : R[j] = K[m + j]
  OBVIOUS
<1> HIDE DEF c, L, R
<1>5. ASSUME k < K[m] PROVE c <= m /\ ChildIndex(L, k) = c
  <2>1. c <= m
    BY <1>1, <1>2, <1>5
  <2>2. Belongs(L, k, c)
    BY <1>1, <1>2, <1>3, <2>1 DEF Belongs
  <2> QED
    BY <1>3, <2>1, <2>2, ChildFacts
<1>6. ASSUME k >= K[m] PROVE c > m /\ ChildIndex(R, k) = c - m
  <2>1. c > m
    BY <1>1, <1>2, <1>6 DEF Ascending
  <2> PICK len \in Nat : len = Len(K)
    BY <1>2
  <2>0. m \in 1 .. len /\ c \in 1 .. len + 1 /\ Len(R) = len - m
    BY <1>1, <1>4
  <2>2. c - m \in 1 .. Len(R) + 1
    BY <2>0, <2>1
  <2>3. ASSUME NEW j \in 1 .. (c - m) - 1 PROVE R[j] <= k
    <3>1. j \in 1 .. len - m /\ m + j \in 1 .. c - 1
      BY <2>0
    <3> QED
      BY <1>1, <1>4, <3>1
  <2>4. ASSUME c - m <= Len(R) PROVE k < R[c - m]
    <3>1. c <= len /\ c - m \in 1 .. len - m /\ m + (c - m) = c
      BY <2>0, <2>1, <2>4
    <3> QED
      BY <1>1, <1>4, <3>1
  <2>5. Belongs(R, k, c - m)
    BY <2>2, <2>3, <2>4 DEF Belongs
  <2> QED
    BY <1>4, <2>1, <2>5, ChildFacts
<1> QED
  BY <1>1, <1>5, <1>6 DEF c, L, R

(***************************************************************************)
(* Keys stay in order when one is put in its place, and when some are      *)
(* taken off.                                                              *)
(***************************************************************************)
LEMMA InsertAscending ==
  ASSUME NEW K \in Seq(Int), Ascending(K), NEW q \in 1 .. Len(K) + 1, NEW s \in Int,
         \A j \in 1 .. q - 1 : K[j] < s, q <= Len(K) => s < K[q]
  PROVE  Ascending(InsertAt(K, q, s))
<1> DEFINE L == InsertAt(K, q, s)
<1>1. /\ L \in Seq(Int) /\ Len(L) = Len(K) + 1
      /\ \A j \in 1 .. q - 1 : L[j] = K[j]
      /\ L[q] = s
      /\ \A j \in q + 1 .. Len(K) + 1 : L[j] = K[j - 1]
  BY InsertFacts
<1> HIDE DEF L
<1>2. /\ Len(K) \in Nat /\ DOMAIN K = 1 .. Len(K) /\ \A j \in 1 .. Len(K) : K[j] \in Int
      /\ DOMAIN L = 1 .. Len(K) + 1
  BY <1>1
<1>3. \A i, j \in 1 .. Len(K) : i < j => K[i] < K[j]
  BY <1>2 DEF Ascending
<1>4. ASSUME NEW i \in 1 .. Len(K) + 1, NEW j \in 1 .. Len(K) + 1, i < j
      PROVE  L[i] < L[j]
  <2>1. CASE j < q
    BY <1>1, <1>2, <1>3, <1>4, <2>1
  <2>2. CASE j = q
    BY <1>1, <1>2, <1>4, <2>2
  <2>3. CASE j > q /\ i < q
    BY <1>1, <1>2, <1>3, <1>4, <2>3
  <2>4. CASE j > q /\ i = q
    <3>1. j \in q + 1 .. Len(K) + 1 /\ j - 1 \in 1 .. Len(K) /\ q \in 1 .. Len(K)
          /\ q <= Len(K) /\ (j - 1 = q \/ q < j - 1)
      BY <1>2, <2>4
    <3>2. s < K[q] /\ K[q] \in Int /\ K[j - 1] \in Int
      BY <1>2, <3>1
    <3>3. K[q] <= K[j - 1]
      <4>1. CASE j - 1 = q
        BY <3>2, <4>1
      <4>2. CASE q < j - 1
        <5>1. K[q] < K[j - 1]
          BY <1>3, <3>1, <4>2
        <5> QED
          BY <3>2, <5>1
      <4> QED
        BY <3>1, <4>1, <4>2
    <3>4. s < K[j - 1]
      BY <3>2, <3>3
    <3> QED
      BY <1>1, <2>4, <3>1, <3>4
  <2>5. CASE j > q /\ i > q
    <3>1. /\ i \in q + 1 .. Len(K) + 1 /\ j \in q + 1 .. Len(K) + 1
          /\ i - 1 \in 1 .. Len(K) /\ j - 1 \in 1 .. Len(K) /\ i - 1 < j - 1
      BY <1>2, <1>4, <2>5
    <3> QED
      BY <1>1, <1>3, <3>1
  <2> QED
    BY <1>2, <2>1, <2>2, <2>3, <2>4, <2>5
<1> QED
  BY <1>2, <1>4 DEF Ascending, L

LEMMA CutAscending ==
  ASSUME NEW K \in Seq(Int), Ascending(K), NEW a \in 1 .. Len(K) + 1,
         NEW b \in a - 1 .. Len(K)
  PROVE  Ascending(SubSeq(K, a, b))
<1> DEFINE L == SubSeq(K, a, b)
<1>1. /\ DOMAIN L = 1 .. b - a + 1
      /\ \A j \in 1 .. b - a + 1 : L[j] = K[a + j - 1]
  BY SubSeqFacts
<1> HIDE DEF L
<1>2. Len(K) \in Nat /\ DOMAIN K = 1 .. Len(K)
  OBVIOUS
<1>3. ASSUME NEW i \in 1 .. b - a + 1, NEW j \in 1 .. b - a + 1, i < j PROVE L[i] < L[j]
  <2>1. a + i - 1 \in 1 .. Len(K) /\ a + j - 1 \in 1 .. Len(K) /\ a + i - 1 < a + j - 1
    BY <1>2, <1>3
  <2> QED
    BY <1>1, <1>2, <2>1 DEF Ascending
<1> QED
  BY <1>1, <1>3 DEF Ascending, L

(***************************************************************************)
(* What a sequence holds after an insertion, and what its parts hold.      *)
(***************************************************************************)
LEMMA InsertSet ==
  ASSUME NEW S, NEW s \in Seq(S), NEW i \in 1 .. Len(s) + 1, NEW e \in S
  PROVE  ToSet(InsertAt(s, i, e)) = ToSet(s) \cup {e}
<1> DEFINE t == InsertAt(s, i, e)
<1>1. /\ t \in Seq(S) /\ Len(t) = Len(s) + 1
      /\ \A j \in 1 .. i - 1 : t[j] = s[j]
      /\ t[i] = e
      /\ \A j \in i + 1 .. Len(s) + 1 : t[j] = s[j - 1]
  BY InsertFacts
<1> HIDE DEF t
<1>2. /\ Len(s) \in Nat /\ DOMAIN s = 1 .. Len(s) /\ DOMAIN t = 1 .. Len(s) + 1
  BY <1>1
<1>3. ASSUME NEW j \in 1 .. Len(s) + 1 PROVE t[j] \in ToSet(s) \cup {e}
  <2>1. CASE j < i
    BY <1>1, <1>2, <2>1 DEF ToSet
  <2>2. CASE j = i
    BY <1>1, <2>2
  <2>3. CASE j > i
    <3>1. j \in i + 1 .. Len(s) + 1 /\ j - 1 \in DOMAIN s
      BY <1>2, <2>3
    <3> QED
      BY <1>1, <3>1 DEF ToSet
  <2> QED
    BY <1>2, <2>1, <2>2, <2>3
<1>4. ASSUME NEW j \in DOMAIN s PROVE s[j] \in ToSet(t)
  <2>1. CASE j < i
    BY <1>1, <1>2, <2>1 DEF ToSet
  <2>2. CASE j >= i
    <3>1. j + 1 \in i + 1 .. Len(s) + 1 /\ j + 1 \in DOMAIN t /\ (j + 1) - 1 = j
      BY <1>2, <2>2
    <3> QED
      BY <1>1, <3>1 DEF ToSet
  <2> QED
    BY <1>2, <2>1, <2>2
<1>5. e \in ToSet(t)
  BY <1>1, <1>2 DEF ToSet
<1>6. ToSet(t) \subseteq ToSet(s) \cup {e}
  BY <1>2, <1>3 DEF ToSet
<1>7. ToSet(s) \subseteq ToSet(t)
  BY <1>4 DEF ToSet
<1> QED
  BY <1>5, <1>6, <1>7 DEF t

LEMMA CutSet ==
  ASSUME NEW S, NEW s \in Seq(S), NEW m \in 0 .. Len(s)
  PROVE  ToSet(s) = ToSet(SubSeq(s, 1, m)) \cup ToSet(SubSeq(s, m + 1, Len(s)))
<1> DEFINE a == SubSeq(s, 1, m)
           b == SubSeq(s, m + 1, Len(s))
<1>1. Len(s) \in Nat /\ DOMAIN s = 1 .. Len(s)
  OBVIOUS
<1>2. DOMAIN a = 1 .. m /\ \A j \in 1 .. m : a[j] = s[j]
  BY <1>1, SubSeqFacts
<1>3. DOMAIN b = 1 .. Len(s) - m /\ \A j \in 1 .. Len(s) - m : b[j] = s[m + j]
  OBVIOUS
<1> HIDE DEF a, b
<1>4. ASSUME NEW j \in DOMAIN s PROVE s[j] \in ToSet(a) \cup ToSet(b)
  <2>1. CASE j <= m
    BY <1>1, <1>2, <2>1 DEF ToSet
  <2>2. CASE j > m
    <3>1. j - m \in 1 .. Len(s) - m /\ m + (j - m) = j
      BY <1>1, <2>2
    <3> QED
      BY <1>3, <3>1 DEF ToSet
  <2> QED
    BY <1>1, <2>1, <2>2
<1>5. ToSet(a) \subseteq ToSet(s)
  BY <1>1, <1>2 DEF ToSet
<1>6. ToSet(b) \subseteq ToSet(s)
  <2>1. \A j \in 1 .. Len(s) - m : m + j \in DOMAIN s
    BY <1>1
  <2> QED
    BY <1>3, <2>1 DEF ToSet
<1>7. ToSet(s) \subseteq ToSet(a) \cup ToSet(b)
  BY <1>4 DEF ToSet
<1> QED
  BY <1>5, <1>6, <1>7 DEF a, b

(***************************************************************************)
(* A sequence with one element replaced.                                   *)
(***************************************************************************)
LEMMA ReplaceFacts ==
  ASSUME NEW S, NEW s \in Seq(S), NEW i \in DOMAIN s, NEW r \in S
  PROVE  LET t == [s EXCEPT ![i] = r]
         IN  /\ t \in Seq(S) /\ Len(t) = Len(s) /\ DOMAIN t = DOMAIN s
             /\ \A n \in DOMAIN s : t[n] = IF n = i THEN r ELSE s[n]
OBVIOUS

-----------------------------------------------------------------------------
(* The tree as a whole.                                                    *)

(***************************************************************************)
(* The fields of a node.                                                   *)
(***************************************************************************)
LEMMA NodeFacts ==
  ASSUME node \in Seq(NodeRec)
  PROVE  /\ Len(node) \in Nat /\ Nodes = 1 .. Len(node) /\ NULL \notin Nodes
         /\ NewNode \in Nat /\ NewNode \notin Nodes /\ NewNode # NULL
         /\ \A n \in Nodes :
              /\ n \in Nat /\ node[n] \in NodeRec
              /\ node[n].is_leaf \in BOOLEAN
              /\ node[n].keys \in Seq(Int) /\ node[n].values \in Seq(Value)
              /\ node[n].children \in Seq(Nat)
              /\ node[n].parent \in Nat /\ node[n].next \in Nat
              /\ DOMAIN node[n].keys = 1 .. Len(node[n].keys)
              /\ DOMAIN node[n].children = 1 .. Len(node[n].children)
              /\ Len(node[n].keys) \in Nat /\ Len(node[n].children) \in Nat
<1>1. /\ Len(node) \in Nat /\ Nodes = 1 .. Len(node) /\ NULL \notin Nodes
      /\ NewNode \in Nat /\ NewNode \notin Nodes /\ NewNode # NULL
  BY DEF Nodes, NewNode, NULL
<1>2. ASSUME NEW n \in Nodes
      PROVE  /\ n \in Nat /\ node[n] \in NodeRec
             /\ node[n].is_leaf \in BOOLEAN
             /\ node[n].keys \in Seq(Int) /\ node[n].values \in Seq(Value)
             /\ node[n].children \in Seq(Nat)
             /\ node[n].parent \in Nat /\ node[n].next \in Nat
  <2>1. n \in Nat /\ node[n] \in NodeRec
    BY <1>1 DEF Nodes
  <2> QED
    BY <2>1 DEF NodeRec
<1>3. \A S : \A t \in Seq(S) : DOMAIN t = 1 .. Len(t) /\ Len(t) \in Nat
  OBVIOUS
<1> QED
  BY <1>1, <1>2, <1>3

(***************************************************************************)
(* What an insert that returns 1 adds to the history.                      *)
(***************************************************************************)
LEMMA InsertedGrows ==
  ASSUME Types, inserted' = Recorded
  PROVE  /\ DOMAIN inserted' = DOMAIN inserted \cup {key}
         /\ DOMAIN inserted' \subseteq Int
         /\ inserted' \in [DOMAIN inserted' -> Value]
         /\ \A k \in DOMAIN inserted : inserted'[k] = inserted[k]
         /\ key \notin DOMAIN inserted => inserted'[key] = val
BY DEF Types, Recorded

(***************************************************************************)
(* Between two calls there is no path and no split.                        *)
(***************************************************************************)
LEMMA IdleFrame ==
  ASSUME NEW h, pc' = "idle", Types', Rooted', Children', Heights(h)', Paired',
         Linked', Kept'
  PROVE  \E g, path : Frame(g, path)'
<1>1. Path({})' /\ Halves' /\ OnPath({})'
  BY DEF Path, Halves, OnPath, Nodes
<1>2. Frame(h, {})'
  BY <1>1 DEF Frame
<1> QED
  BY <1>2

(***************************************************************************)
(* Steps that leave the nodes alone.                                       *)
(***************************************************************************)
LEMMA UnmovedFrame ==
  ASSUME NEW h, NEW path, Frame(h, path), UNCHANGED <<node, root>>,
         pc' \in {"idle", "first", "descend"}
  PROVE  Children' /\ Heights(h)' /\ Path(path)' /\ Paired' /\ Linked' /\ Halves'
BY DEF Frame, Children, Heights, Path, Halves, Paired, Linked, Nodes

LEMMA InsertFrame ==
  ASSUME NEW h, NEW path, Frame(h, path), NEW k \in Key, Insert(k)
  PROVE  \E g, q : Frame(g, q)'
<1>1. /\ Types /\ Rooted /\ Kept /\ node \in Seq(NodeRec)
      /\ pc' \in {"idle", "first", "descend"} /\ UNCHANGED <<node, root>>
  BY DEF Frame, Types, Insert
<1>2. Children' /\ Heights(h)' /\ Paired' /\ Linked' /\ Halves'
  BY <1>1, UnmovedFrame
<1>3. Types'
  BY <1>1, KeyAssumption DEF Types, Insert, Value, NULL
<1>4. Rooted'
  BY <1>1 DEF Rooted, Insert, Nodes
<1>5. Kept'
  BY <1>1 DEF Kept, Known, Insert, Nodes
<1> PICK q : q = IF root = NULL THEN {} ELSE {root}
  OBVIOUS
<1>6. Path(q)' /\ OnPath(q)'
  BY <1>1 DEF Path, OnPath, Rooted, Insert, Nodes
<1>7. Frame(h, q)'
  BY <1>2, <1>3, <1>4, <1>5, <1>6 DEF Frame
<1> QED
  BY <1>7

LEMMA DescendFrame ==
  ASSUME NEW h, NEW path, Frame(h, path), Descend
  PROVE  /\ \E g, q : Frame(g, q)'
         /\ current' \in Nodes /\ node[current].children[ChildIndex(node[current].keys, key)] = current'
         /\ ChildIndex(node[current].keys, key) \in DOMAIN node[current].children
<1> DEFINE i == ChildIndex(node[current].keys, key)
<1>1. /\ Types /\ Rooted /\ Kept /\ node \in Seq(NodeRec) /\ key \in Int
      /\ Path(path) /\ Children /\ OnPath(path)
      /\ pc = "descend" /\ pc' = "descend" /\ UNCHANGED <<node, root>>
      /\ ~node[current].is_leaf /\ current' = node[current].children[i]
  BY DEF Frame, Types, Descend
<1>2. Children' /\ Heights(h)' /\ Path(path)' /\ Paired' /\ Linked' /\ Halves'
  BY <1>1, UnmovedFrame
<1>3. current \in path /\ current \in Nodes
  BY <1>1 DEF OnPath, Path
<1>4. i \in 1 .. Len(node[current].keys) + 1
  BY <1>1, <1>3, NodeFacts, ChildFacts DEF Belongs
<1>5. i \in DOMAIN node[current].children
  <2>1. /\ Len(node[current].children) = Len(node[current].keys) + 1
        /\ DOMAIN node[current].children = 1 .. Len(node[current].children)
    BY <1>1, <1>3, NodeFacts DEF Children
  <2> HIDE DEF i
  <2> QED
    BY <1>4, <2>1
<1> HIDE DEF i
<1>6. current' \in Nodes /\ node[current'].parent = current
  BY <1>1, <1>3, <1>5 DEF Children
<1>7. current' \in ToSet(node[current].children)
  BY <1>1, <1>5 DEF ToSet
<1>8. Types'
  <2>1. current' \in Nat
    BY <1>1, <1>6, NodeFacts
  <2> QED
    BY <1>1, <2>1 DEF Types, Descend
<1>9. Rooted' /\ Kept'
  BY <1>1 DEF Rooted, Kept, Known, Descend, Nodes
<1> PICK q : q = path \cup {current'}
  OBVIOUS
<1>10. Path(q)' /\ OnPath(q)'
  BY <1>1, <1>3, <1>6, <1>7 DEF Path, OnPath, Nodes
<1>11. Frame(h, q)'
  BY <1>2, <1>8, <1>9, <1>10 DEF Frame
<1> QED
  BY <1>1, <1>5, <1>6, <1>11 DEF i

LEMMA FailFrame ==
  ASSUME NEW h, NEW path, Frame(h, path), Return(FALSE), UNCHANGED <<node, root>>
  PROVE  \E g, q : Frame(g, q)'
<1>1. /\ Types /\ Rooted /\ Kept /\ pc' = "idle" /\ inserted' = inserted
  BY DEF Frame, Return
<1>2. Children' /\ Heights(h)' /\ Paired' /\ Linked'
  BY <1>1, UnmovedFrame
<1>3. Types'
  BY <1>1 DEF Types, Return, Value, NULL
<1>4. Rooted' /\ Kept'
  BY <1>1 DEF Rooted, Kept, Known, Nodes
<1> QED
  BY <1>1, <1>2, <1>3, <1>4, IdleFrame

-----------------------------------------------------------------------------
(* Steps that change a leaf.                                               *)

(***************************************************************************)
(* New nodes.                                                              *)
(***************************************************************************)
LEMMA LeafFields ==
  ASSUME NEW k \in Seq(Int), NEW v \in Seq(Value), NEW p \in Nat, NEW x \in Nat
  PROVE  LET r == Leaf(k, v, p, x)
         IN  /\ r \in NodeRec /\ r.is_leaf /\ r.keys = k /\ r.values = v
             /\ r.children = <<>> /\ r.parent = p /\ r.next = x
<1>1. <<>> \in Seq(Nat)
  OBVIOUS
<1> QED
  BY <1>1 DEF Leaf, NodeRec

LEMMA InternalFields ==
  ASSUME NEW k \in Seq(Int), NEW c \in Seq(Nat), NEW p \in Nat
  PROVE  LET r == Internal(k, c, p)
         IN  /\ r \in NodeRec /\ ~r.is_leaf /\ r.keys = k
             /\ r.children = c /\ r.parent = p
<1>1. <<>> \in Seq(Value) /\ NULL \in Nat
  BY DEF NULL
<1> QED
  BY <1>1 DEF Internal, NodeRec

\* The first leaf.
LEMMA OneLeaf ==
  ASSUME key \in Int, val \in Value
  PROVE  LET r == Leaf(<<key>>, <<val>>, NULL, NULL)
         IN  /\ r \in NodeRec /\ r.is_leaf /\ r.keys = <<key>> /\ r.values = <<val>>
             /\ r.children = <<>> /\ r.parent = NULL /\ r.next = NULL
<1> DEFINE k == <<key>>
           v == <<val>>
<1>1. k \in Seq(Int) /\ v \in Seq(Value)
  OBVIOUS
<1>2. PICK x \in Nat : x = NULL
  BY DEF NULL
<1> HIDE DEF k, v
<1>3. LET r == Leaf(k, v, x, x)
      IN  /\ r \in NodeRec /\ r.is_leaf /\ r.keys = k /\ r.values = v
          /\ r.children = <<>> /\ r.parent = x /\ r.next = x
  BY <1>1, LeafFields
<1> QED
  BY <1>2, <1>3 DEF k, v

LEMMA FirstLeafFrame ==
  ASSUME NEW h, NEW path, Frame(h, path), FirstLeaf
  PROVE  \E g, q : Frame(g, q)'
<1> DEFINE leaf == Leaf(<<key>>, <<val>>, NULL, NULL)
<1>1. /\ Types /\ Rooted /\ Kept /\ pc = "first" /\ pc' = "idle" /\ inserted' = Recorded
      /\ node' = Append(node, leaf) /\ root' = NewNode /\ Return(TRUE)
      /\ key \in Int /\ val \in Value
  BY DEF Frame, Types, FirstLeaf, Return
<1>2. node = <<>>
  BY <1>1 DEF Rooted
<1>4. /\ leaf \in NodeRec /\ leaf.is_leaf /\ leaf.keys = <<key>> /\ leaf.values = <<val>>
      /\ leaf.children = <<>> /\ leaf.parent = NULL /\ leaf.next = NULL
  BY <1>1, OneLeaf
<1> HIDE DEF leaf
<1>5. /\ node' \in Seq(NodeRec) /\ Len(node') = 1 /\ Nodes' = {1} /\ node'[1] = leaf
      /\ root' = 1
  BY <1>1, <1>2, <1>4 DEF Nodes, NewNode
<1>6. Types'
  BY <1>1, <1>5, InsertedGrows DEF Types, Return, Value, NULL
<1>7. Rooted' /\ Children' /\ Paired' /\ Linked'
  BY <1>1, <1>4, <1>5 DEF Rooted, Children, Paired, Linked, NULL
<1> DEFINE g == [n \in {1} |-> 0]
<1>8. Heights(g)'
  BY <1>1, <1>4, <1>5 DEF Heights, NULL
<1>9. Kept'
  <2>1. DOMAIN inserted = {}
    <3>1. Nodes = {}
      BY <1>2 DEF Nodes
    <3>2. DOMAIN inserted \subseteq Known
      BY DEF Known
    <3> QED
      BY <1>1, <3>1, <3>2 DEF Kept
  <2>2. Known' = {key}
    BY <1>1, <2>1, InsertedGrows DEF Known
  <2>3. key \in ToSet(leaf.keys)
    BY <1>4 DEF ToSet
  <2> QED
    BY <1>4, <1>5, <2>2, <2>3 DEF Kept
<1> HIDE DEF g
<1> QED
  BY <1>1, <1>6, <1>7, <1>8, <1>9, IdleFrame

(***************************************************************************)
(* The pairs of the leaf with the new one.                                 *)
(***************************************************************************)
LEMMA NewPairs ==
  ASSUME NEW h, NEW path, Frame(h, path), AtLeaf
  PROVE  /\ current \in path /\ current \in Nodes /\ node[current].is_leaf
         /\ key \in Int /\ val \in Value
         /\ NewKeys \in Seq(Int) /\ Len(NewKeys) = Len(node[current].keys) + 1
         /\ NewValues \in Seq(Value) /\ Len(NewValues) = Len(node[current].keys) + 1
         /\ ToSet(NewKeys) = ToSet(node[current].keys) \cup {key}
<1> DEFINE i == bptree_find_insert_index(node[current].keys, key)
<1>1. /\ Types /\ node \in Seq(NodeRec) /\ pc = "descend" /\ node[current].is_leaf
      /\ key \in Int /\ val \in Value /\ Path(path) /\ OnPath(path) /\ Paired
  BY DEF Frame, Types, AtLeaf
<1>2. current \in path /\ current \in Nodes
  BY <1>1 DEF OnPath, Path
<1>3. /\ node[current].keys \in Seq(Int) /\ node[current].values \in Seq(Value)
      /\ Len(node[current].values) = Len(node[current].keys)
  BY <1>1, <1>2, NodeFacts DEF Paired
<1>4. i \in 1 .. Len(node[current].keys) + 1
  BY <1>1, <1>3, FindFacts
<1> DEFINE K == node[current].keys
           V == node[current].values
<1>5. /\ K \in Seq(Int) /\ V \in Seq(Value) /\ Len(V) = Len(K)
      /\ i \in 1 .. Len(K) + 1 /\ i \in 1 .. Len(V) + 1
      /\ NewKeys = InsertAt(K, i, key) /\ NewValues = InsertAt(V, i, val)
  BY <1>3, <1>4 DEF NewKeys, NewValues
<1> HIDE DEF i, K, V
<1>6. NewKeys \in Seq(Int) /\ Len(NewKeys) = Len(K) + 1
  BY <1>1, <1>5, InsertFacts
<1>7. ToSet(NewKeys) = ToSet(K) \cup {key}
  <2>1. K \in Seq(Int) /\ i \in 1 .. Len(K) + 1 /\ key \in Int
    BY <1>1, <1>5
  <2>2. ToSet(InsertAt(K, i, key)) = ToSet(K) \cup {key}
    BY <2>1, InsertSet
  <2> QED
    BY <1>5, <2>2
<1>8. NewValues \in Seq(Value) /\ Len(NewValues) = Len(K) + 1
  BY <1>1, <1>5, InsertFacts
<1> QED
  BY <1>1, <1>2, <1>6, <1>7, <1>8 DEF K

\* What InsertIntoLeaf does to the nodes.
LeafFilled ==
  /\ node' \in Seq(NodeRec) /\ Len(node') = Len(node) /\ Nodes' = Nodes
  /\ \A n \in Nodes :
       /\ node'[n].is_leaf = node[n].is_leaf /\ node'[n].children = node[n].children
       /\ node'[n].parent = node[n].parent /\ node'[n].next = node[n].next
       /\ n # current => node'[n].keys = node[n].keys /\ node'[n].values = node[n].values
  /\ node'[current].keys = NewKeys /\ node'[current].values = NewValues

LEMMA LeafFilling ==
  ASSUME NEW h, NEW path, Frame(h, path), InsertIntoLeaf
  PROVE  LeafFilled
<1> DEFINE r == [node[current] EXCEPT !.keys = NewKeys, !.values = NewValues]
<1>1. /\ node \in Seq(NodeRec) /\ AtLeaf
      /\ node' = [node EXCEPT ![current].keys = NewKeys, ![current].values = NewValues]
  BY DEF Frame, Types, InsertIntoLeaf
<1>2. current \in Nodes /\ NewKeys \in Seq(Int) /\ NewValues \in Seq(Value)
  BY <1>1, NewPairs
<1>3. node \in Seq(NodeRec) /\ current \in DOMAIN node /\ node[current] \in NodeRec
  BY <1>1, <1>2, NodeFacts DEF Nodes
<1>4. node' = [node EXCEPT ![current] = r]
  BY <1>1, <1>3
<1>5. /\ r \in NodeRec /\ r.keys = NewKeys /\ r.values = NewValues
      /\ r.is_leaf = node[current].is_leaf /\ r.children = node[current].children
      /\ r.parent = node[current].parent /\ r.next = node[current].next
  BY <1>2, <1>3 DEF NodeRec
<1> HIDE DEF r
<1>6. /\ node' \in Seq(NodeRec) /\ Len(node') = Len(node) /\ DOMAIN node' = DOMAIN node
      /\ \A n \in DOMAIN node : node'[n] = IF n = current THEN r ELSE node[n]
  BY <1>3, <1>4, <1>5, ReplaceFacts
<1> QED
  BY <1>3, <1>5, <1>6 DEF LeafFilled, Nodes

LEMMA InsertIntoLeafFrame ==
  ASSUME NEW h, NEW path, Frame(h, path), InsertIntoLeaf
  PROVE  \E g, q : Frame(g, q)'
<1>1. /\ Types /\ Rooted /\ Children /\ Heights(h) /\ Paired /\ Linked /\ Kept
      /\ node \in Seq(NodeRec) /\ pc' = "idle" /\ pc = "descend" /\ root' = root
      /\ inserted' = Recorded /\ Return(TRUE) /\ AtLeaf
  BY DEF Frame, Types, InsertIntoLeaf, Return, AtLeaf
<1>2. LeafFilled
  BY LeafFilling
<1>3. /\ current \in Nodes /\ node[current].is_leaf
      /\ Len(NewKeys) = Len(NewValues)
      /\ ToSet(NewKeys) = ToSet(node[current].keys) \cup {key}
  BY <1>1, NewPairs
<1>4. Types'
  BY <1>1, <1>2, InsertedGrows DEF Types, Return, Value, NULL, LeafFilled
<1>5. Rooted'
  <2>1. node # <<>> /\ node' # <<>> /\ 1 \in Nodes
    BY <1>1, <1>2, <1>3, NodeFacts DEF LeafFilled, Nodes
  <2> QED
    BY <1>1, <1>2, <2>1 DEF Rooted, LeafFilled
<1>6. Children'
  <2>1. ASSUME NEW n \in Nodes, ~node[n].is_leaf
        PROVE  node'[n].keys = node[n].keys /\ node'[n].children = node[n].children
    BY <1>2, <1>3, <2>1 DEF LeafFilled
  <2>2. /\ Nodes' = Nodes /\ \A n \in Nodes : /\ node'[n].parent = node[n].parent
                                              /\ node'[n].is_leaf = node[n].is_leaf
    BY <1>2 DEF LeafFilled
  <2>3. ASSUME NEW n \in Nodes, ~node[n].is_leaf
        PROVE  /\ Len(node[n].children) = Len(node[n].keys) + 1
               /\ \A i \in DOMAIN node[n].children :
                    /\ node[n].children[i] \in Nodes
                    /\ node[node[n].children[i]].parent = n
               /\ \A i, j \in DOMAIN node[n].children :
                    node[n].children[i] = node[n].children[j] => i = j
    BY <1>1, <2>3 DEF Children
  <2> QED
    BY <2>1, <2>2, <2>3 DEF Children
<1>7. Heights(h)'
  <2>1. /\ h \in [Nodes -> Nat]
        /\ \A n \in Nodes : node[n].is_leaf <=> h[n] = 0
        /\ \A n \in Nodes : node[n].parent # NULL =>
             node[n].parent \in Nodes /\ h[node[n].parent] = h[n] + 1
        /\ \A n \in Nodes : h[n] < Len(node)
    BY <1>1 DEF Heights
  <2>2. /\ Nodes' = Nodes /\ Len(node') = Len(node) /\ pc' # "promote"
        /\ \A n \in Nodes : /\ node'[n].is_leaf = node[n].is_leaf
                             /\ node'[n].parent = node[n].parent
    BY <1>1, <1>2 DEF LeafFilled
  <2> QED
    BY <2>1, <2>2 DEF Heights
<1>8. Paired'
  BY <1>1, <1>2, <1>3 DEF Paired, LeafFilled
<1>9. Linked'
  BY <1>1, <1>2 DEF Linked, LeafFilled
<1>10. Kept'
  <2>1. Known' = DOMAIN inserted \cup {key}
    BY <1>1, InsertedGrows DEF Known
  <2>2. ASSUME NEW k \in DOMAIN inserted
        PROVE  \E n \in Nodes' : node'[n].is_leaf /\ k \in ToSet(node'[n].keys)
    <3>1. PICK n \in Nodes : node[n].is_leaf /\ k \in ToSet(node[n].keys)
      BY <1>1 DEF Kept, Known
    <3>2. k \in ToSet(node'[n].keys)
      BY <1>2, <1>3, <3>1 DEF LeafFilled
    <3> QED
      BY <1>2, <3>1, <3>2 DEF LeafFilled
  <2>3. key \in ToSet(node'[current].keys)
    BY <1>2, <1>3 DEF LeafFilled
  <2> QED
    BY <1>2, <1>3, <2>1, <2>2, <2>3 DEF Kept, LeafFilled
<1> QED
  BY <1>1, <1>4, <1>5, <1>6, <1>7, <1>8, <1>9, <1>10, IdleFrame

(***************************************************************************)
(* Halves of ORDER keys.                                                   *)
(***************************************************************************)
LEMMA OrderFacts ==
  /\ ORDER \in Nat /\ MAX_KEYS = ORDER - 1 /\ ORDER >= 3
  /\ LeftCount \in 1 .. ORDER - 2 /\ ORDER - LeftCount >= LeftCount
  /\ LeftCount >= (ORDER - 1) \div 2 /\ ORDER - 1 - LeftCount >= (ORDER - 1) \div 2
  /\ (ORDER - 1) \div 2 >= 1 /\ LeftCount = ORDER \div 2
BY OrderAssumption DEF MAX_KEYS, LeftCount

\* What SplitLeaf does to the nodes.
LeafSplit ==
  /\ node' \in Seq(NodeRec) /\ Len(node') = Len(node) + 1 /\ Nodes' = Nodes \cup {NewNode}
  /\ \A n \in Nodes :
       /\ node'[n].is_leaf = node[n].is_leaf /\ node'[n].children = node[n].children
       /\ node'[n].parent = node[n].parent
       /\ n # current => /\ node'[n].keys = node[n].keys
                         /\ node'[n].values = node[n].values
                         /\ node'[n].next = node[n].next
  /\ node'[current].keys = SubSeq(NewKeys, 1, LeftCount)
  /\ node'[current].values = SubSeq(NewValues, 1, LeftCount)
  /\ node'[current].next = NewNode
  /\ node'[NewNode].is_leaf
  /\ node'[NewNode].keys = SubSeq(NewKeys, LeftCount + 1, ORDER)
  /\ node'[NewNode].values = SubSeq(NewValues, LeftCount + 1, ORDER)
  /\ node'[NewNode].parent = node[current].parent
  /\ node'[NewNode].next = node[current].next
  /\ left' = current /\ right' = NewNode /\ sep' = NewKeys[LeftCount + 1]

LEMMA LeafSplitting ==
  ASSUME NEW h, NEW path, Frame(h, path), SplitLeaf
  PROVE  LeafSplit
<1> DEFINE k1 == SubSeq(NewKeys, 1, LeftCount)
           v1 == SubSeq(NewValues, 1, LeftCount)
           k2 == SubSeq(NewKeys, LeftCount + 1, ORDER)
           v2 == SubSeq(NewValues, LeftCount + 1, ORDER)
           moved == Leaf(k2, v2, node[current].parent, node[current].next)
           kept == [node EXCEPT ![current].keys = k1, ![current].values = v1]
           all == Append(kept, moved)
           r == [node[current] EXCEPT !.keys = k1, !.values = v1]
           q == [r EXCEPT !.next = NewNode]
<1>1. /\ AtLeaf /\ node' = [all EXCEPT ![current].next = NewNode]
      /\ left' = current /\ right' = NewNode /\ sep' = moved.keys[1]
      /\ Len(node[current].keys) = MAX_KEYS
  BY DEF SplitLeaf, LinkLeaf
<1>2. /\ current \in Nodes /\ NewKeys \in Seq(Int) /\ NewValues \in Seq(Value)
      /\ Len(NewKeys) = ORDER /\ Len(NewValues) = ORDER
  BY <1>1, NewPairs, OrderFacts
<1>3. node \in Seq(NodeRec) /\ current \in DOMAIN node /\ node[current] \in NodeRec
      /\ NewNode \in Nat /\ node[current].parent \in Nat /\ node[current].next \in Nat
  BY <1>2, NodeFacts DEF Nodes, Frame, Types
<1>4. k1 \in Seq(Int) /\ v1 \in Seq(Value)
  BY <1>2, OrderFacts, SubSeqFacts
<1>5. k2 \in Seq(Int) /\ v2 \in Seq(Value) /\ k2[1] = NewKeys[LeftCount + 1]
  BY <1>2, OrderFacts, SubSeqFacts
<1>6. kept = [node EXCEPT ![current] = r]
  BY <1>3
<1>7. /\ r \in NodeRec /\ r.keys = k1 /\ r.values = v1
      /\ r.is_leaf = node[current].is_leaf /\ r.children = node[current].children
      /\ r.parent = node[current].parent /\ r.next = node[current].next
  BY <1>3, <1>4 DEF NodeRec
<1>8. /\ moved \in NodeRec /\ moved.is_leaf /\ moved.keys = k2 /\ moved.values = v2
      /\ moved.parent = node[current].parent /\ moved.next = node[current].next
  <2> HIDE DEF k2, v2
  <2> QED
    BY <1>3, <1>5, LeafFields
<1>9. /\ q \in NodeRec /\ q.keys = k1 /\ q.values = v1
      /\ q.is_leaf = node[current].is_leaf /\ q.children = node[current].children
      /\ q.parent = node[current].parent /\ q.next = NewNode
  <2> HIDE DEF r, k1, v1
  <2> QED
    BY <1>3, <1>7 DEF NodeRec
<1>10. /\ kept \in Seq(NodeRec) /\ Len(kept) = Len(node)
       /\ \A n \in DOMAIN node : kept[n] = IF n = current THEN r ELSE node[n]
  <2> HIDE DEF r, kept
  <2> QED
    BY <1>3, <1>6, <1>7, ReplaceFacts
<1>11. /\ all \in Seq(NodeRec) /\ Len(all) = Len(node) + 1
       /\ DOMAIN all = DOMAIN node \cup {NewNode}
       /\ \A n \in DOMAIN node : all[n] = kept[n]
       /\ all[NewNode] = moved
  <2> HIDE DEF kept, moved
  <2>1. kept \in Seq(NodeRec) /\ moved \in NodeRec /\ Len(kept) = Len(node)
        /\ Len(node) \in Nat /\ DOMAIN node = 1 .. Len(node)
    BY <1>3, <1>8, <1>10
  <2> QED
    BY <2>1 DEF NewNode
<1>12. node' = [all EXCEPT ![current] = [all[current] EXCEPT !.next = NewNode]]
  <2> HIDE DEF all
  <2> QED
    BY <1>1, <1>3, <1>11
<1>13. node' = [all EXCEPT ![current] = q]
  <2>1. all[current] = r
    <3> HIDE DEF all, kept, r
    <3> QED
      BY <1>3, <1>10, <1>11
  <2> HIDE DEF all, r
  <2> QED
    BY <1>12, <2>1
<1>14. current \in DOMAIN all /\ NewNode \in DOMAIN all /\ NewNode # current
  <2> HIDE DEF all
  <2> QED
    BY <1>2, <1>3, <1>11, NodeFacts
<1> HIDE DEF k1, k2, v1, v2, moved, kept, all, r, q
<1>15. /\ node' \in Seq(NodeRec) /\ Len(node') = Len(all) /\ DOMAIN node' = DOMAIN all
       /\ \A n \in DOMAIN all : node'[n] = IF n = current THEN q ELSE all[n]
  BY <1>9, <1>11, <1>13, <1>14, ReplaceFacts
<1>16. /\ \A n \in DOMAIN node : node'[n] = IF n = current THEN q ELSE node[n]
       /\ node'[NewNode] = moved
  BY <1>10, <1>11, <1>14, <1>15
<1>17. /\ node' \in Seq(NodeRec) /\ Len(node') = Len(node) + 1
       /\ Nodes' = Nodes \cup {NewNode}
  BY <1>11, <1>15 DEF Nodes
<1>18. sep' = NewKeys[LeftCount + 1]
  BY <1>1, <1>5, <1>8
<1>19. /\ node'[current].keys = k1 /\ node'[current].values = v1
       /\ node'[current].next = NewNode
       /\ node'[NewNode].is_leaf
       /\ node'[NewNode].keys = k2 /\ node'[NewNode].values = v2
       /\ node'[NewNode].parent = node[current].parent
       /\ node'[NewNode].next = node[current].next
  BY <1>3, <1>8, <1>9, <1>16
<1>20. ASSUME NEW n \in Nodes
       PROVE  /\ node'[n].is_leaf = node[n].is_leaf
              /\ node'[n].children = node[n].children
              /\ node'[n].parent = node[n].parent
              /\ n # current => /\ node'[n].keys = node[n].keys
                                /\ node'[n].values = node[n].values
                                /\ node'[n].next = node[n].next
  BY <1>9, <1>16 DEF Nodes
<1> QED
  BY <1>1, <1>17, <1>18, <1>19, <1>20 DEF LeafSplit, k1, k2, v1, v2

(***************************************************************************)
(* The two halves of the leaf have its pairs and the new one.              *)
(***************************************************************************)
LEMMA HalvesHold ==
  ASSUME NEW h, NEW path, Frame(h, path), SplitLeaf
  PROVE  /\ Len(NewKeys) = ORDER /\ Len(NewValues) = ORDER
         /\ ToSet(node'[current].keys) \cup ToSet(node'[NewNode].keys)
              = ToSet(node[current].keys) \cup {key}
         /\ Len(node'[current].keys) = LeftCount
         /\ Len(node'[NewNode].keys) = ORDER - LeftCount
         /\ Len(node'[current].values) = LeftCount
         /\ Len(node'[NewNode].values) = ORDER - LeftCount
<1>1. LeafSplit /\ AtLeaf /\ Len(node[current].keys) = MAX_KEYS
  BY LeafSplitting DEF SplitLeaf
<1>2. /\ NewKeys \in Seq(Int) /\ Len(NewKeys) = ORDER
      /\ NewValues \in Seq(Value) /\ Len(NewValues) = ORDER
      /\ ToSet(NewKeys) = ToSet(node[current].keys) \cup {key}
  BY <1>1, NewPairs, OrderFacts
<1>3. /\ node'[current].keys = SubSeq(NewKeys, 1, LeftCount)
      /\ node'[current].values = SubSeq(NewValues, 1, LeftCount)
      /\ node'[NewNode].keys = SubSeq(NewKeys, LeftCount + 1, ORDER)
      /\ node'[NewNode].values = SubSeq(NewValues, LeftCount + 1, ORDER)
  BY <1>1 DEF LeafSplit
<1>4. ToSet(NewKeys) = ToSet(node'[current].keys) \cup ToSet(node'[NewNode].keys)
  <2>1. LeftCount \in 0 .. Len(NewKeys)
    BY <1>2, OrderFacts
  <2>2. ToSet(NewKeys) = ToSet(SubSeq(NewKeys, 1, LeftCount))
                           \cup ToSet(SubSeq(NewKeys, LeftCount + 1, Len(NewKeys)))
    BY <1>2, <2>1, CutSet
  <2> QED
    BY <1>2, <1>3, <2>2
<1>5. /\ Len(SubSeq(NewKeys, 1, LeftCount)) = LeftCount
      /\ Len(SubSeq(NewValues, 1, LeftCount)) = LeftCount
      /\ Len(SubSeq(NewKeys, LeftCount + 1, ORDER)) = ORDER - LeftCount
      /\ Len(SubSeq(NewValues, LeftCount + 1, ORDER)) = ORDER - LeftCount
  BY <1>2, OrderFacts, SubSeqFacts
<1> QED
  BY <1>2, <1>3, <1>4, <1>5

LEMMA SplitLeafFrame ==
  ASSUME NEW h, NEW path, Frame(h, path), SplitLeaf
  PROVE  \E g, q : Frame(g, q)'
<1>1. /\ Types /\ Rooted /\ Children /\ Heights(h) /\ Paired /\ Linked /\ Kept
      /\ Path(path) /\ node \in Seq(NodeRec) /\ pc = "descend" /\ pc' = "promote"
      /\ root' = root /\ inserted' = inserted /\ key' = key /\ val' = val
      /\ current' = current /\ AtLeaf
  BY DEF Frame, Types, SplitLeaf, AtLeaf
<1> DEFINE N == NewNode
<1>2. LeafSplit
  BY LeafSplitting
<1>3. /\ current \in path /\ current \in Nodes /\ node[current].is_leaf
      /\ N \notin Nodes /\ N \in Nat /\ NULL \notin Nodes /\ N # NULL
      /\ \A n \in Nodes : n \in Nat
      /\ Len(node) \in Nat /\ Nodes = 1 .. Len(node)
  BY <1>1, NewPairs, NodeFacts
<1>4. /\ Nodes' = Nodes \cup {N} /\ left' = current /\ right' = N
      /\ node'[N].is_leaf /\ node'[current].next = N
      /\ node'[N].parent = node[current].parent
      /\ node'[N].next = node[current].next
      /\ \A n \in Nodes :
           /\ node'[n].is_leaf = node[n].is_leaf /\ node'[n].children = node[n].children
           /\ node'[n].parent = node[n].parent
           /\ n # current => node'[n].keys = node[n].keys /\ node'[n].next = node[n].next
  BY <1>2 DEF LeafSplit
<1>5. Types'
  <2>1. NewKeys[LeftCount + 1] \in Int
    <3>1. NewKeys \in Seq(Int) /\ Len(NewKeys) = ORDER
      BY <1>1, HalvesHold, NewPairs
    <3> QED
      BY <3>1, OrderFacts
  <2> QED
    BY <1>1, <1>2, <1>3, <2>1 DEF Types, LeafSplit
<1> HIDE DEF N
<1>6. Rooted'
  <2>1. node # <<>> /\ node' # <<>> /\ 1 \in Nodes
    <3>1. Len(node) >= 1 /\ Len(node') = Len(node) + 1
      BY <1>2, <1>3 DEF LeafSplit
    <3> QED
      BY <1>3, <3>1
  <2> QED
    BY <1>1, <1>3, <1>4, <2>1 DEF Rooted
<1>7. Children'
  <2>1. ASSUME NEW n \in Nodes', ~node'[n].is_leaf
        PROVE  /\ n \in Nodes /\ ~node[n].is_leaf
               /\ node'[n].keys = node[n].keys /\ node'[n].children = node[n].children
    BY <1>3, <1>4, <2>1
  <2>2. ASSUME NEW n \in Nodes, ~node[n].is_leaf
        PROVE  /\ Len(node[n].children) = Len(node[n].keys) + 1
               /\ \A i \in DOMAIN node[n].children :
                    /\ node[n].children[i] \in Nodes
                    /\ node[node[n].children[i]].parent = n
               /\ \A i, j \in DOMAIN node[n].children :
                    node[n].children[i] = node[n].children[j] => i = j
    BY <1>1, <2>2 DEF Children
  <2>3. \A n \in Nodes : n \in Nodes' /\ node'[n].parent = node[n].parent
    BY <1>4
  <2> QED
    BY <2>1, <2>2, <2>3 DEF Children
<1> PICK g : g = [n \in Nodes \cup {N} |-> IF n = N THEN 0 ELSE h[n]]
  OBVIOUS
<1>8. Heights(g)'
  <2>1. /\ h \in [Nodes -> Nat]
        /\ \A n \in Nodes : node[n].is_leaf <=> h[n] = 0
        /\ \A n \in Nodes : node[n].parent # NULL =>
             node[n].parent \in Nodes /\ h[node[n].parent] = h[n] + 1
        /\ \A n \in Nodes : h[n] < Len(node)
    BY <1>1 DEF Heights
  <2>2. g[N] = 0 /\ \A n \in Nodes : g[n] = h[n]
    BY <1>3
  <2>3. g \in [Nodes' -> Nat]
    BY <1>4, <2>1
  <2>4. h[current] = 0
    BY <1>3, <2>1
  <2>5. Len(node') = Len(node) + 1
    BY <1>2 DEF LeafSplit
  <2>6. \A n \in Nodes' : node'[n].is_leaf <=> g[n] = 0
    BY <1>4, <2>1, <2>2
  <2>7. ASSUME NEW n \in Nodes', node'[n].parent # NULL
        PROVE  node'[n].parent \in Nodes' /\ g[node'[n].parent] = g[n] + 1
    <3>1. PICK m \in Nodes : node'[n].parent = node[m].parent /\ g[n] = h[m]
      BY <1>3, <1>4, <2>2, <2>4
    <3>2. node[m].parent \in Nodes /\ h[node[m].parent] = h[m] + 1
      BY <2>1, <2>7, <3>1
    <3> QED
      BY <1>4, <2>2, <3>1, <3>2
  <2>8. ASSUME NEW n \in Nodes' PROVE g[n] < Len(node')
    <3>1. PICK m \in Nodes : g[n] = h[m]
      BY <1>3, <1>4, <2>2, <2>4
    <3>2. h[m] \in Nat /\ h[m] < Len(node)
      BY <2>1
    <3> QED
      BY <1>3, <2>5, <3>1, <3>2
  <2>9. g[right'] = g[left']
    BY <1>3, <1>4, <2>2, <2>4
  <2> QED
    BY <1>1, <2>3, <2>6, <2>7, <2>8, <2>9 DEF Heights
<1>9. Path(path)' /\ OnPath(path)'
  <2>1. path \subseteq Nodes'
    BY <1>1, <1>4 DEF Path
  <2>2. ASSUME NEW n \in path, n # root
        PROVE  /\ node'[n].parent \in path
               /\ n \in ToSet(node'[node'[n].parent].children)
    <3>1. /\ node[n].parent \in path /\ n \in ToSet(node[node[n].parent].children)
          /\ n \in Nodes /\ node[n].parent \in Nodes
      BY <1>1, <2>2 DEF Path
    <3> QED
      BY <1>4, <3>1
  <2> QED
    BY <1>1, <1>3, <1>4, <2>1, <2>2 DEF Path, OnPath
<1>10. Halves'
  <2>1. \A n \in Nodes : ~node[n].is_leaf => N \notin ToSet(node[n].children)
    BY <1>1, <1>3 DEF Children, ToSet
  <2>2. N # root /\ N # current
    BY <1>1, <1>3 DEF Rooted
  <2> QED
    BY <1>1, <1>3, <1>4, <2>1, <2>2 DEF Halves
<1>11. Paired'
  <2>1. ASSUME NEW n \in Nodes', node'[n].is_leaf
        PROVE  Len(node'[n].values) = Len(node'[n].keys)
    <3>1. CASE n = current \/ n = N
      BY <3>1, HalvesHold DEF N
    <3>2. CASE n # current /\ n # N
      <4>1. /\ n \in Nodes /\ node'[n].keys = node[n].keys
            /\ node'[n].values = node[n].values /\ node[n].is_leaf
        BY <1>2, <1>4, <2>1, <3>2 DEF LeafSplit
      <4> QED
        BY <1>1, <4>1 DEF Paired
    <3> QED
      BY <3>1, <3>2
  <2> QED
    BY <2>1 DEF Paired
<1>12. Linked'
  <2>1. ASSUME NEW n \in Nodes', node'[n].is_leaf, node'[n].next # NULL
        PROVE  node'[n].next \in Nodes' /\ node'[node'[n].next].is_leaf
    <3>1. CASE n = current
      BY <1>4, <3>1
    <3>2. CASE n # current
      <4>1. PICK m \in Nodes : node[m].is_leaf /\ node'[n].next = node[m].next
        BY <1>3, <1>4, <2>1, <3>2
      <4>2. node[m].next \in Nodes /\ node[node[m].next].is_leaf
        BY <1>1, <2>1, <4>1 DEF Linked
      <4> QED
        BY <1>4, <4>1, <4>2
    <3> QED
      BY <3>1, <3>2
  <2>2. ASSUME NEW n \in Nodes', node'[n].is_leaf, n # 1
        PROVE  \E m \in Nodes' : node'[m].is_leaf /\ node'[m].next = n
    <3>1. CASE n = N
      BY <1>3, <1>4, <3>1
    <3>2. CASE n # N
      <4>1. n \in Nodes /\ node[n].is_leaf
        BY <1>4, <2>2, <3>2
      <4>2. PICK m \in Nodes : node[m].is_leaf /\ node[m].next = n
        BY <1>1, <2>2, <4>1 DEF Linked
      <4>3. CASE m = current
        BY <1>4, <4>2, <4>3
      <4>4. CASE m # current
        BY <1>4, <4>2, <4>4
      <4> QED
        BY <4>3, <4>4
    <3> QED
      BY <3>1, <3>2
  <2> QED
    BY <2>1, <2>2 DEF Linked
<1>13. Kept'
  <2>1. Known' = DOMAIN inserted \cup {key}
    BY <1>1 DEF Known
  <2>2. ToSet(node'[current].keys) \cup ToSet(node'[N].keys)
              = ToSet(node[current].keys) \cup {key}
    BY HalvesHold DEF N
  <2>3. ASSUME NEW k \in ToSet(node[current].keys) \cup {key}
        PROVE  \E n \in Nodes' : node'[n].is_leaf /\ k \in ToSet(node'[n].keys)
    BY <1>3, <1>4, <2>2
  <2>4. ASSUME NEW k \in DOMAIN inserted
        PROVE  \E n \in Nodes' : node'[n].is_leaf /\ k \in ToSet(node'[n].keys)
    <3>1. PICK n \in Nodes : node[n].is_leaf /\ k \in ToSet(node[n].keys)
      BY <1>1 DEF Kept, Known
    <3> QED
      BY <1>4, <2>3, <3>1
  <2> QED
    BY <2>1, <2>3, <2>4 DEF Kept
<1>14. Frame(g, path)'
  BY <1>5, <1>6, <1>7, <1>8, <1>9, <1>10, <1>11, <1>12, <1>13 DEF Frame
<1> QED
  BY <1>14

-----------------------------------------------------------------------------
(* Steps that change the nodes above the leaves.                           *)

(***************************************************************************)
(* Where the two halves of a split are.                                    *)
(***************************************************************************)
LEMMA PromoteFacts ==
  ASSUME NEW h, NEW path, Frame(h, path), pc = "promote"
  PROVE  /\ left \in path /\ left \in Nodes /\ right \in Nodes /\ left # right
         /\ right # root /\ parent \in Nat /\ sep \in Int /\ left \in Nat /\ right \in Nat
         /\ node[right].parent = parent /\ h[right] = h[left]
         /\ \A n \in Nodes : ~node[n].is_leaf => right \notin ToSet(node[n].children)
         /\ parent = NULL => left = root
         /\ parent # NULL =>
              /\ parent \in Nodes /\ parent \in path /\ ~node[parent].is_leaf
              /\ left \in ToSet(node[parent].children)
              /\ h[parent] = h[left] + 1 /\ parent # left /\ parent # right
<1>1. /\ Types /\ Rooted /\ Heights(h) /\ Halves /\ Path(path) /\ OnPath(path)
      /\ node \in Seq(NodeRec) /\ sep \in Int
  BY DEF Frame, Types
<1>2. /\ left \in path /\ left \in Nodes /\ right \in Nodes /\ left # right /\ right # root
      /\ node[right].parent = parent
      /\ \A n \in Nodes : ~node[n].is_leaf => right \notin ToSet(node[n].children)
  BY <1>1 DEF OnPath, Halves, parent
<1>3. parent \in Nat /\ left \in Nat /\ right \in Nat /\ NULL \notin Nodes
  BY <1>1, <1>2, NodeFacts DEF parent
<1>4. h[right] = h[left] /\ h[left] \in Nat
  BY <1>1, <1>2 DEF Heights
<1>5. ASSUME parent = NULL PROVE left = root
  BY <1>1, <1>2, <1>3, <1>5 DEF Path, parent
<1>6. ASSUME parent # NULL
      PROVE  /\ parent \in Nodes /\ parent \in path /\ ~node[parent].is_leaf
             /\ left \in ToSet(node[parent].children)
             /\ h[parent] = h[left] + 1 /\ parent # left /\ parent # right
  <2>1. left # root
    BY <1>1, <1>3, <1>6 DEF Rooted, parent
  <2>2. parent \in path /\ left \in ToSet(node[parent].children) /\ parent \in Nodes
    BY <1>1, <1>2, <2>1 DEF Path, parent
  <2>3. h[parent] = h[left] + 1
    BY <1>1, <1>2, <1>6 DEF Heights, parent
  <2>4. ~node[parent].is_leaf
    BY <1>1, <1>4, <2>2, <2>3 DEF Heights
  <2> QED
    BY <1>4, <2>2, <2>3, <2>4
<1> QED
  BY <1>1, <1>2, <1>3, <1>4, <1>5, <1>6

(***************************************************************************)
(* The parent's separators and children with the new ones.                 *)
(***************************************************************************)
LEMMA ParentPairs ==
  ASSUME NEW h, NEW path, Frame(h, path), pc = "promote", parent # NULL
  PROVE  LET C == node[parent].children
             K == node[parent].keys
             q == ChildPosition
         IN  /\ K \in Seq(Int) /\ C \in Seq(Nat) /\ Len(C) = Len(K) + 1
             /\ Len(K) \in Nat
             /\ q \in 1 .. Len(K) + 1 /\ C[q] = left
             /\ ParentKeys = InsertAt(K, q, sep)
             /\ ParentKeys \in Seq(Int) /\ Len(ParentKeys) = Len(K) + 1
             /\ ParentChildren \in Seq(Nat) /\ Len(ParentChildren) = Len(K) + 2
             /\ \A j \in 1 .. q : ParentChildren[j] = C[j]
             /\ ParentChildren[q + 1] = right
             /\ \A j \in q + 2 .. Len(K) + 2 : ParentChildren[j] = C[j - 1]
<1> DEFINE C == node[parent].children
           K == node[parent].keys
           q == ChildPosition
           P == {i \in 1 .. Len(C) + 1 : i = Len(C) + 1 \/ C[i] = left}
<1>1. node \in Seq(NodeRec) /\ Children
  BY DEF Frame, Types
<1>2. /\ parent \in Nodes /\ ~node[parent].is_leaf /\ left \in ToSet(C) /\ sep \in Int
      /\ right \in Nat
  BY PromoteFacts
<1>3. K \in Seq(Int) /\ C \in Seq(Nat) /\ Len(C) = Len(K) + 1 /\ Len(K) \in Nat
      /\ DOMAIN C = 1 .. Len(C)
  BY <1>1, <1>2, NodeFacts DEF Children
<1>4. q = Min(P)
  BY DEF ChildPosition
<1>5. PICK i \in 1 .. Len(C) : C[i] = left
  BY <1>2, <1>3 DEF ToSet
<1> HIDE DEF C, K
<1>6. P \in SUBSET Nat /\ i \in P
  BY <1>3, <1>5
<1>7. q \in P /\ \A j \in P : q <= j
  <2> HIDE DEF P, q
  <2> QED
    BY <1>4, <1>6, MinFacts
<1> HIDE DEF q
<1>8. q \in 1 .. Len(K) + 1 /\ C[q] = left
  BY <1>3, <1>5, <1>6, <1>7
<1>9. ParentKeys = InsertAt(K, q, sep) /\ ParentChildren = InsertAt(C, q + 1, right)
  BY DEF ParentKeys, ParentChildren, K, C, q
<1>10. ParentKeys \in Seq(Int) /\ Len(ParentKeys) = Len(K) + 1
  BY <1>2, <1>3, <1>8, <1>9, InsertFacts
<1>11. PICK x \in 1 .. Len(C) + 1 : x = q + 1
  BY <1>3, <1>8
<1>12. /\ ParentChildren \in Seq(Nat) /\ Len(ParentChildren) = Len(C) + 1
       /\ \A j \in 1 .. x - 1 : ParentChildren[j] = C[j]
       /\ ParentChildren[x] = right
       /\ \A j \in x + 1 .. Len(C) + 1 : ParentChildren[j] = C[j - 1]
  <2>1. ParentChildren = InsertAt(C, x, right)
    BY <1>9, <1>11
  <2>2. right \in Nat /\ C \in Seq(Nat)
    BY <1>2, <1>3
  <2>3. ParentChildren \in Seq(Nat) /\ WithNew(ParentChildren, C, x, right)
    BY <2>1, <2>2, InsertNew
  <2> QED
    BY <2>3 DEF WithNew
<1>13. /\ Len(ParentChildren) = Len(K) + 2
       /\ ParentChildren[q + 1] = right
  BY <1>3, <1>11, <1>12
<1>14. ASSUME NEW j \in 1 .. q PROVE ParentChildren[j] = C[j]
  <2>1. j \in 1 .. x - 1
    BY <1>8, <1>11
  <2> QED
    BY <1>12, <2>1
<1>15. ASSUME NEW j \in q + 2 .. Len(K) + 2 PROVE ParentChildren[j] = C[j - 1]
  <2>1. j \in x + 1 .. Len(C) + 1
    BY <1>3, <1>8, <1>11
  <2> QED
    BY <1>12, <2>1
<1> QED
  BY <1>3, <1>8, <1>9, <1>10, <1>12, <1>13, <1>14, <1>15 DEF C, K, q

(***************************************************************************)
(* They are children of the parent, no two the same.                       *)
(***************************************************************************)
LEMMA ParentChild ==
  ASSUME NEW h, NEW path, Frame(h, path), pc = "promote", parent # NULL
  PROVE  /\ \A i \in 1 .. Len(ParentChildren) :
              /\ ParentChildren[i] \in Nodes
              /\ node[ParentChildren[i]].parent = parent
         /\ \A i, j \in 1 .. Len(ParentChildren) : i # j =>
              ParentChildren[i] # ParentChildren[j]
<1> DEFINE C == node[parent].children
           K == node[parent].keys
           D == ParentChildren
<1> PICK q : q = ChildPosition
  OBVIOUS
<1>1. /\ C \in Seq(Nat) /\ Len(C) = Len(K) + 1 /\ Len(K) \in Nat
      /\ q \in 1 .. Len(K) + 1
      /\ Len(D) = Len(K) + 2
      /\ \A j \in 1 .. q : D[j] = C[j]
      /\ D[q + 1] = right
      /\ \A j \in q + 2 .. Len(K) + 2 : D[j] = C[j - 1]
  BY ParentPairs
<1>2. /\ parent \in Nodes /\ ~node[parent].is_leaf /\ right \in Nodes
      /\ node[right].parent = parent /\ right \notin ToSet(C)
  BY PromoteFacts
<1>3. /\ \A i \in 1 .. Len(C) : C[i] \in Nodes /\ node[C[i]].parent = parent
      /\ \A i, j \in 1 .. Len(C) : C[i] = C[j] => i = j
      /\ \A i \in 1 .. Len(C) : C[i] # right
  <2>1. DOMAIN C = 1 .. Len(C)
    BY <1>1
  <2> QED
    BY <1>2, <2>1 DEF Frame, Children, ToSet
<1> HIDE DEF C, K, D
<1>4. ASSUME NEW i \in 1 .. Len(D) PROVE D[i] \in Nodes /\ node[D[i]].parent = parent
  <2>1. CASE i <= q
    BY <1>1, <1>3, <2>1
  <2>2. CASE i = q + 1
    BY <1>1, <1>2, <2>2
  <2>3. CASE i > q + 1
    <3>1. i \in q + 2 .. Len(K) + 2 /\ i - 1 \in 1 .. Len(C)
      BY <1>1, <2>3
    <3> QED
      BY <1>1, <1>3, <3>1
  <2> QED
    BY <1>1, <2>1, <2>2, <2>3
<1>5. ASSUME NEW i \in 1 .. Len(D), NEW j \in 1 .. Len(D), i < j PROVE D[i] # D[j]
  <2>1. CASE j <= q
    <3>1. i \in 1 .. q /\ j \in 1 .. q /\ i \in 1 .. Len(C) /\ j \in 1 .. Len(C) /\ i # j
      BY <1>1, <1>5, <2>1
    <3> QED
      BY <1>1, <1>3, <3>1
  <2>2. CASE j = q + 1
    <3>1. i \in 1 .. q /\ i \in 1 .. Len(C)
      BY <1>1, <1>5, <2>2
    <3> QED
      BY <1>1, <1>3, <2>2, <3>1
  <2>3. CASE j > q + 1
    <3>1. j \in q + 2 .. Len(K) + 2 /\ j - 1 \in 1 .. Len(C)
      BY <1>1, <2>3
    <3>2. CASE i <= q
      <4>1. i \in 1 .. q /\ i \in 1 .. Len(C) /\ i # j - 1
        BY <1>1, <2>3, <3>2
      <4> QED
        BY <1>1, <1>3, <3>1, <4>1
    <3>3. CASE i = q + 1
      BY <1>1, <1>3, <3>1, <3>3
    <3>4. CASE i > q + 1
      <4>1. i \in q + 2 .. Len(K) + 2 /\ i - 1 \in 1 .. Len(C) /\ i - 1 # j - 1
        BY <1>1, <1>5, <3>4
      <4> QED
        BY <1>1, <1>3, <3>1, <4>1
    <3> QED
      BY <1>1, <3>2, <3>3, <3>4
  <2> QED
    BY <1>1, <2>1, <2>2, <2>3
<1>6. \A i, j \in 1 .. Len(D) : i # j => D[i] # D[j]
  <2>1. \A i, j \in 1 .. Len(D) : i # j => i < j \/ j < i
    BY <1>1
  <2> QED
    BY <1>5, <2>1
<1> QED
  BY <1>4, <1>6 DEF D

\* The leaves are left alone, and no new ones come.
LeavesSame ==
  /\ Nodes \subseteq Nodes'
  /\ \A n \in Nodes :
       /\ node'[n].is_leaf = node[n].is_leaf
       /\ node[n].is_leaf => /\ node'[n].keys = node[n].keys
                             /\ node'[n].values = node[n].values
                             /\ node'[n].next = node[n].next
  /\ \A n \in Nodes' : n \notin Nodes => ~node'[n].is_leaf

LEMMA LeavesStay ==
  ASSUME Paired, Linked, Kept, LeavesSame, Known' \subseteq Known
  PROVE  Paired' /\ Linked' /\ Kept'
<1>1. ASSUME NEW n \in Nodes', node'[n].is_leaf PROVE n \in Nodes /\ node[n].is_leaf
  BY <1>1 DEF LeavesSame
<1>2. Paired'
  BY <1>1 DEF Paired, LeavesSame
<1>3. Linked'
  <2>1. ASSUME NEW n \in Nodes', node'[n].is_leaf, node'[n].next # NULL
        PROVE  node'[n].next \in Nodes' /\ node'[node'[n].next].is_leaf
    BY <1>1, <2>1 DEF Linked, LeavesSame
  <2>2. ASSUME NEW n \in Nodes', node'[n].is_leaf, n # 1
        PROVE  \E m \in Nodes' : node'[m].is_leaf /\ node'[m].next = n
    BY <1>1, <2>2 DEF Linked, LeavesSame
  <2> QED
    BY <2>1, <2>2 DEF Linked
<1>4. Kept'
  <2>1. ASSUME NEW k \in Known
        PROVE  \E n \in Nodes' : node'[n].is_leaf /\ k \in ToSet(node'[n].keys)
    BY DEF Kept, LeavesSame
  <2> QED
    BY <2>1 DEF Kept
<1> QED
  BY <1>2, <1>3, <1>4

\* What NewRoot does to the nodes.
RootAdded ==
  /\ node' \in Seq(NodeRec) /\ Len(node') = Len(node) + 1 /\ Nodes' = Nodes \cup {NewNode}
  /\ \A n \in Nodes :
       /\ node'[n].is_leaf = node[n].is_leaf /\ node'[n].keys = node[n].keys
       /\ node'[n].values = node[n].values /\ node'[n].children = node[n].children
       /\ node'[n].next = node[n].next
       /\ node'[n].parent = IF n = left \/ n = right THEN NewNode ELSE node[n].parent
  /\ ~node'[NewNode].is_leaf /\ node'[NewNode].keys = <<sep>>
  /\ node'[NewNode].children = <<left, right>> /\ node'[NewNode].parent = NULL

LEMMA RootAdding ==
  ASSUME NEW h, NEW path, Frame(h, path), NewRoot
  PROVE  RootAdded
<1> DEFINE r == [node[left] EXCEPT !.parent = NewNode]
           q == [node[right] EXCEPT !.parent = NewNode]
           top == Internal(<<sep>>, <<left, right>>, NULL)
           one == [node EXCEPT ![left] = r]
           two == [one EXCEPT ![right] = q]
<1>1. /\ pc = "promote"
      /\ node' = Append([node EXCEPT ![left].parent = NewNode,
                                     ![right].parent = NewNode], top)
  BY DEF NewRoot
<1>2. /\ left \in Nodes /\ right \in Nodes /\ left # right /\ sep \in Int
      /\ left \in Nat /\ right \in Nat
  BY <1>1, PromoteFacts
<1>3. /\ node \in Seq(NodeRec) /\ left \in DOMAIN node /\ right \in DOMAIN node
      /\ node[left] \in NodeRec /\ node[right] \in NodeRec /\ NewNode \in Nat
  BY <1>2, NodeFacts DEF Nodes, Frame, Types
<1>4. [node EXCEPT ![left].parent = NewNode, ![right].parent = NewNode] = two
  BY <1>2, <1>3
<1>5. /\ r \in NodeRec /\ r.parent = NewNode
      /\ r.is_leaf = node[left].is_leaf /\ r.keys = node[left].keys
      /\ r.values = node[left].values /\ r.children = node[left].children
      /\ r.next = node[left].next
  BY <1>3 DEF NodeRec
<1>6. /\ q \in NodeRec /\ q.parent = NewNode
      /\ q.is_leaf = node[right].is_leaf /\ q.keys = node[right].keys
      /\ q.values = node[right].values /\ q.children = node[right].children
      /\ q.next = node[right].next
  BY <1>3 DEF NodeRec
<1>7. /\ top \in NodeRec /\ ~top.is_leaf /\ top.keys = <<sep>>
      /\ top.children = <<left, right>> /\ top.parent = NULL
  <2> DEFINE k == <<sep>>
             c == <<left, right>>
  <2>1. k \in Seq(Int) /\ c \in Seq(Nat) /\ NULL \in Nat /\ top = Internal(k, c, NULL)
    BY <1>2 DEF NULL
  <2> HIDE DEF k, c, top
  <2>2. /\ top \in NodeRec /\ ~top.is_leaf /\ top.keys = k
        /\ top.children = c /\ top.parent = NULL
    BY <2>1, InternalFields
  <2> QED
    BY <2>2 DEF k, c
<1> HIDE DEF r, q, top, one
<1>8. /\ one \in Seq(NodeRec) /\ Len(one) = Len(node) /\ DOMAIN one = DOMAIN node
      /\ \A n \in DOMAIN node : one[n] = IF n = left THEN r ELSE node[n]
  BY <1>3, <1>5, ReplaceFacts DEF one
<1>9. /\ two \in Seq(NodeRec) /\ Len(two) = Len(one) /\ DOMAIN two = DOMAIN one
      /\ \A n \in DOMAIN one : two[n] = IF n = right THEN q ELSE one[n]
  BY <1>3, <1>6, <1>8, ReplaceFacts
<1>10. node' = Append(two, top)
  BY <1>1, <1>4
<1> HIDE DEF two
<1>11. /\ node' \in Seq(NodeRec) /\ Len(node') = Len(node) + 1
       /\ DOMAIN node' = DOMAIN node \cup {NewNode}
       /\ \A n \in DOMAIN node : node'[n] = two[n]
       /\ node'[NewNode] = top
  BY <1>3, <1>7, <1>8, <1>9, <1>10 DEF NewNode
<1>12. \A n \in DOMAIN node : node'[n] = IF n = left THEN r
                                         ELSE IF n = right THEN q ELSE node[n]
  BY <1>2, <1>8, <1>9, <1>11
<1>13. ASSUME NEW n \in DOMAIN node
       PROVE  /\ node'[n].is_leaf = node[n].is_leaf /\ node'[n].keys = node[n].keys
              /\ node'[n].values = node[n].values /\ node'[n].children = node[n].children
              /\ node'[n].next = node[n].next
              /\ node'[n].parent = IF n = left \/ n = right THEN NewNode ELSE node[n].parent
  <2>1. CASE n = left
    BY <1>5, <1>12, <2>1
  <2>2. CASE n = right
    BY <1>2, <1>6, <1>12, <2>2
  <2>3. CASE n # left /\ n # right
    BY <1>12, <2>3
  <2> QED
    BY <2>1, <2>2, <2>3
<1> QED
  BY <1>7, <1>11, <1>13 DEF RootAdded, Nodes

LEMMA NewRootFrame ==
  ASSUME NEW h, NEW path, Frame(h, path), NewRoot
  PROVE  \E g, q : Frame(g, q)'
<1> DEFINE N == NewNode
<1>1. /\ Types /\ Rooted /\ Children /\ Heights(h) /\ Paired /\ Linked /\ Kept
      /\ node \in Seq(NodeRec) /\ pc = "promote" /\ pc' = "idle"
      /\ root' = N /\ inserted' = Recorded /\ Return(TRUE) /\ parent = NULL
  BY DEF Frame, Types, NewRoot, Return
<1>2. RootAdded
  BY RootAdding
<1>3. /\ left \in Nodes /\ right \in Nodes /\ left # right /\ h[right] = h[left]
      /\ node[left].parent = NULL /\ node[right].parent = NULL
      /\ \A n \in Nodes : ~node[n].is_leaf => right \notin ToSet(node[n].children)
      /\ N \notin Nodes /\ N \in Nat /\ NULL \notin Nodes /\ N # NULL
      /\ Len(node) \in Nat /\ Nodes = 1 .. Len(node)
  BY <1>1, PromoteFacts, NodeFacts DEF parent
<1>4. Types'
  BY <1>1, <1>2, <1>3, InsertedGrows DEF Types, Return, Value, NULL, RootAdded
<1>5. /\ Nodes' = Nodes \cup {N} /\ Len(node') = Len(node) + 1
      /\ \A n \in Nodes :
           /\ node'[n].is_leaf = node[n].is_leaf /\ node'[n].keys = node[n].keys
           /\ node'[n].values = node[n].values /\ node'[n].children = node[n].children
           /\ node'[n].next = node[n].next
           /\ node'[n].parent = IF n = left \/ n = right THEN N ELSE node[n].parent
      /\ ~node'[N].is_leaf /\ node'[N].keys = <<sep>>
      /\ node'[N].children = <<left, right>> /\ node'[N].parent = NULL
  BY <1>2 DEF RootAdded
<1> HIDE DEF N
<1>6. Rooted'
  <2>1. node # <<>> /\ node' # <<>> /\ 1 \in Nodes
    <3>1. Len(node) >= 1
      BY <1>3
    <3> QED
      BY <1>3, <1>5, <3>1
  <2> QED
    BY <1>1, <1>3, <1>5, <2>1 DEF Rooted
<1>7. Children'
  <2>1. ASSUME NEW n \in Nodes, ~node[n].is_leaf
        PROVE  /\ Len(node'[n].children) = Len(node'[n].keys) + 1
               /\ \A i \in DOMAIN node'[n].children :
                    /\ node'[n].children[i] \in Nodes'
                    /\ node'[node'[n].children[i]].parent = n
               /\ \A i, j \in DOMAIN node'[n].children :
                    node'[n].children[i] = node'[n].children[j] => i = j
    <3>1. /\ Len(node[n].children) = Len(node[n].keys) + 1
          /\ \A i \in DOMAIN node[n].children :
               /\ node[n].children[i] \in Nodes
               /\ node[node[n].children[i]].parent = n
          /\ \A i, j \in DOMAIN node[n].children :
               node[n].children[i] = node[n].children[j] => i = j
      BY <1>1, <2>1 DEF Children
    <3>2. \A i \in DOMAIN node[n].children : /\ node[n].children[i] # left
                                             /\ node[n].children[i] # right
      <4>1. \A i \in DOMAIN node[n].children : node[n].children[i] \in ToSet(node[n].children)
        BY DEF ToSet
      <4>2. n # NULL
        BY <1>3
      <4> QED
        BY <1>3, <2>1, <3>1, <4>1, <4>2
    <3>3. /\ node'[n].children = node[n].children /\ node'[n].keys = node[n].keys
          /\ \A m \in Nodes : /\ m \in Nodes'
                              /\ m # left /\ m # right => node'[m].parent = node[m].parent
      BY <1>5
    <3>4. \A i \in DOMAIN node[n].children :
            /\ node[n].children[i] \in Nodes'
            /\ node'[node[n].children[i]].parent = n
      BY <3>1, <3>2, <3>3
    <3> QED
      BY <3>1, <3>3, <3>4
  <2>2. /\ Len(node'[N].children) = Len(node'[N].keys) + 1
        /\ DOMAIN node'[N].children = {1, 2}
        /\ node'[N].children[1] = left /\ node'[N].children[2] = right
    BY <1>5
  <2>3. /\ \A i \in DOMAIN node'[N].children :
             /\ node'[N].children[i] \in Nodes'
             /\ node'[node'[N].children[i]].parent = N
        /\ \A i, j \in DOMAIN node'[N].children :
             node'[N].children[i] = node'[N].children[j] => i = j
    BY <1>3, <1>5, <2>2
  <2>4. \A n \in Nodes' : n = N \/ (n \in Nodes /\ node'[n].is_leaf = node[n].is_leaf)
    BY <1>5
  <2> QED
    BY <2>1, <2>2, <2>3, <2>4 DEF Children
<1> PICK g : g = [n \in Nodes \cup {N} |-> IF n = N THEN h[left] + 1 ELSE h[n]]
  OBVIOUS
<1>8. Heights(g)'
  <2>1. /\ h \in [Nodes -> Nat]
        /\ \A n \in Nodes : node[n].is_leaf <=> h[n] = 0
        /\ \A n \in Nodes : node[n].parent # NULL =>
             node[n].parent \in Nodes /\ h[node[n].parent] = h[n] + 1
        /\ \A n \in Nodes : h[n] < Len(node)
    BY <1>1 DEF Heights
  <2>2. g[N] = h[left] + 1 /\ \A n \in Nodes : g[n] = h[n]
    BY <1>3
  <2>3. g \in [Nodes' -> Nat]
    BY <1>3, <1>5, <2>1
  <2>4. \A n \in Nodes' : node'[n].is_leaf <=> g[n] = 0
    <3>1. g[N] # 0
      BY <1>3, <2>1, <2>2
    <3> QED
      BY <1>5, <2>1, <2>2, <3>1
  <2>5. ASSUME NEW n \in Nodes', node'[n].parent # NULL
        PROVE  node'[n].parent \in Nodes' /\ g[node'[n].parent] = g[n] + 1
    <3>1. n \in Nodes
      BY <1>5, <2>5
    <3>2. CASE n = left \/ n = right
      BY <1>3, <1>5, <2>2, <3>1, <3>2
    <3>3. CASE n # left /\ n # right
      <4>1. node'[n].parent = node[n].parent
        BY <1>5, <3>1, <3>3
      <4>2. node[n].parent \in Nodes /\ h[node[n].parent] = h[n] + 1
        BY <2>1, <2>5, <3>1, <4>1
      <4> QED
        BY <1>5, <2>2, <3>1, <4>1, <4>2
    <3> QED
      BY <3>2, <3>3
  <2>6. ASSUME NEW n \in Nodes' PROVE g[n] < Len(node')
    <3>1. CASE n = N
      BY <1>3, <1>5, <2>1, <2>2, <3>1
    <3>2. CASE n \in Nodes
      <4>1. g[n] = h[n] /\ h[n] \in Nat /\ h[n] < Len(node)
        BY <2>1, <2>2, <3>2
      <4>2. Len(node) \in Nat /\ Len(node') = Len(node) + 1
        BY <1>3, <1>5
      <4> QED
        BY <4>1, <4>2
    <3> QED
      BY <1>5, <3>1, <3>2
  <2> QED
    BY <1>1, <2>3, <2>4, <2>5, <2>6 DEF Heights
<1>9. LeavesSame
  BY <1>5 DEF LeavesSame
<1>10. Known' \subseteq Known
  BY <1>1, InsertedGrows DEF Known
<1>11. Paired' /\ Linked' /\ Kept'
  BY <1>1, <1>9, <1>10, LeavesStay
<1> QED
  BY <1>1, <1>4, <1>6, <1>7, <1>8, <1>11, IdleFrame

\* What InsertIntoInternal does to the nodes: the right half knows its parent
\* already.
ParentFilled ==
  /\ node' \in Seq(NodeRec) /\ Len(node') = Len(node) /\ Nodes' = Nodes
  /\ \A n \in Nodes :
       /\ node'[n].is_leaf = node[n].is_leaf /\ node'[n].values = node[n].values
       /\ node'[n].next = node[n].next /\ node'[n].parent = node[n].parent
       /\ n # parent => /\ node'[n].keys = node[n].keys
                        /\ node'[n].children = node[n].children
  /\ node'[parent].keys = ParentKeys /\ node'[parent].children = ParentChildren

LEMMA ParentFilling ==
  ASSUME NEW h, NEW path, Frame(h, path), InsertIntoInternal
  PROVE  ParentFilled
<1> PICK p : p = parent
  OBVIOUS
<1> DEFINE r == [node[p] EXCEPT !.keys = ParentKeys, !.children = ParentChildren]
           q == [node[right] EXCEPT !.parent = p]
           one == [node EXCEPT ![p] = r]
           two == [one EXCEPT ![right] = q]
<1>1. /\ pc = "promote" /\ parent # NULL
      /\ node' = [node EXCEPT ![p].keys = ParentKeys, ![p].children = ParentChildren,
                              ![right].parent = p]
  BY DEF InsertIntoInternal
<1>2. /\ p \in Nodes /\ right \in Nodes /\ p # right /\ p \in Nat
      /\ node[right].parent = p
  BY <1>1, PromoteFacts
<1>3. ParentKeys \in Seq(Int) /\ ParentChildren \in Seq(Nat)
  BY <1>1, ParentPairs
<1>4. /\ node \in Seq(NodeRec) /\ p \in DOMAIN node /\ right \in DOMAIN node
      /\ node[p] \in NodeRec /\ node[right] \in NodeRec
  BY <1>2, NodeFacts DEF Nodes, Frame, Types
<1>5. node' = two
  BY <1>1, <1>2, <1>4
<1>6. /\ r \in NodeRec /\ r.keys = ParentKeys /\ r.children = ParentChildren
      /\ r.is_leaf = node[p].is_leaf /\ r.values = node[p].values
      /\ r.next = node[p].next /\ r.parent = node[p].parent
  BY <1>3, <1>4 DEF NodeRec
<1>7. /\ q \in NodeRec /\ q.parent = p
      /\ q.is_leaf = node[right].is_leaf /\ q.keys = node[right].keys
      /\ q.values = node[right].values /\ q.children = node[right].children
      /\ q.next = node[right].next
  BY <1>2, <1>4 DEF NodeRec
<1> HIDE DEF r, q, one
<1>8. /\ one \in Seq(NodeRec) /\ Len(one) = Len(node) /\ DOMAIN one = DOMAIN node
      /\ \A n \in DOMAIN node : one[n] = IF n = p THEN r ELSE node[n]
  BY <1>4, <1>6, ReplaceFacts DEF one
<1>9. /\ two \in Seq(NodeRec) /\ Len(two) = Len(one) /\ DOMAIN two = DOMAIN one
      /\ \A n \in DOMAIN one : two[n] = IF n = right THEN q ELSE one[n]
  BY <1>4, <1>7, <1>8, ReplaceFacts
<1> HIDE DEF two
<1>10. /\ node' \in Seq(NodeRec) /\ Len(node') = Len(node) /\ DOMAIN node' = DOMAIN node
       /\ \A n \in DOMAIN node : node'[n] = IF n = right THEN q
                                            ELSE IF n = p THEN r ELSE node[n]
  BY <1>5, <1>8, <1>9
<1>11. ASSUME NEW n \in DOMAIN node
       PROVE  /\ node'[n].is_leaf = node[n].is_leaf /\ node'[n].values = node[n].values
              /\ node'[n].next = node[n].next /\ node'[n].parent = node[n].parent
              /\ n # p => /\ node'[n].keys = node[n].keys
                          /\ node'[n].children = node[n].children
  <2>1. CASE n = right
    BY <1>2, <1>7, <1>10, <2>1
  <2>2. CASE n = p
    BY <1>2, <1>6, <1>10, <2>2
  <2>3. CASE n # right /\ n # p
    BY <1>10, <2>3
  <2> QED
    BY <2>1, <2>2, <2>3
<1>12. node'[p].keys = ParentKeys /\ node'[p].children = ParentChildren
  BY <1>2, <1>4, <1>6, <1>10
<1> QED
  BY <1>10, <1>11, <1>12 DEF ParentFilled, Nodes

LEMMA InsertIntoInternalFrame ==
  ASSUME NEW h, NEW path, Frame(h, path), InsertIntoInternal
  PROVE  \E g, q : Frame(g, q)'
<1> PICK p : p = parent
  OBVIOUS
<1>1. /\ Types /\ Rooted /\ Children /\ Heights(h) /\ Paired /\ Linked /\ Kept
      /\ node \in Seq(NodeRec) /\ pc = "promote" /\ pc' = "idle" /\ parent # NULL
      /\ root' = root /\ inserted' = Recorded /\ Return(TRUE)
  BY DEF Frame, Types, InsertIntoInternal, Return
<1>2. ParentFilled
  BY ParentFilling
<1>3. p \in Nodes /\ ~node[p].is_leaf /\ Len(node) \in Nat /\ Nodes = 1 .. Len(node)
  BY <1>1, PromoteFacts, NodeFacts
<1>4. Types'
  BY <1>1, <1>2, InsertedGrows DEF Types, Return, Value, NULL, ParentFilled
<1>5. /\ Nodes' = Nodes /\ Len(node') = Len(node)
      /\ \A n \in Nodes :
           /\ node'[n].is_leaf = node[n].is_leaf /\ node'[n].values = node[n].values
           /\ node'[n].next = node[n].next /\ node'[n].parent = node[n].parent
           /\ n # p => /\ node'[n].keys = node[n].keys
                       /\ node'[n].children = node[n].children
      /\ node'[p].keys = ParentKeys /\ node'[p].children = ParentChildren
  BY <1>2 DEF ParentFilled
<1>6. Rooted'
  <2>1. node # <<>> /\ node' # <<>> /\ 1 \in Nodes
    <3>1. Len(node) >= 1
      BY <1>3
    <3> QED
      BY <1>3, <1>5, <3>1
  <2> QED
    BY <1>1, <1>5, <2>1 DEF Rooted
<1>7. Children'
  <2>1. ASSUME NEW n \in Nodes, ~node[n].is_leaf
        PROVE  /\ Len(node'[n].children) = Len(node'[n].keys) + 1
               /\ \A i \in DOMAIN node'[n].children :
                    /\ node'[n].children[i] \in Nodes
                    /\ node[node'[n].children[i]].parent = n
               /\ \A i, j \in DOMAIN node'[n].children :
                    node'[n].children[i] = node'[n].children[j] => i = j
    <3>1. CASE n # p
      <4>1. /\ Len(node[n].children) = Len(node[n].keys) + 1
            /\ \A i \in DOMAIN node[n].children :
                 /\ node[n].children[i] \in Nodes
                 /\ node[node[n].children[i]].parent = n
            /\ \A i, j \in DOMAIN node[n].children :
                 node[n].children[i] = node[n].children[j] => i = j
        BY <1>1, <2>1 DEF Children
      <4> QED
        BY <1>5, <3>1, <4>1
    <3>2. CASE n = p
      <4>1. /\ Len(ParentChildren) = Len(ParentKeys) + 1
            /\ DOMAIN ParentChildren = 1 .. Len(ParentChildren)
        <5>1. /\ Len(ParentKeys) = Len(node[p].keys) + 1
              /\ Len(ParentChildren) = Len(node[p].keys) + 2
              /\ Len(node[p].keys) \in Nat /\ ParentChildren \in Seq(Nat)
          BY <1>1, ParentPairs
        <5> QED
          BY <5>1
      <4>2. /\ \A i \in 1 .. Len(ParentChildren) :
                 ParentChildren[i] \in Nodes /\ node[ParentChildren[i]].parent = p
            /\ \A i, j \in 1 .. Len(ParentChildren) : i # j =>
                 ParentChildren[i] # ParentChildren[j]
        BY <1>1, ParentChild
      <4>3. node'[n].keys = ParentKeys /\ node'[n].children = ParentChildren
        BY <1>5, <3>2
      <4>4. \A i, j \in 1 .. Len(ParentChildren) :
              ParentChildren[i] = ParentChildren[j] => i = j
        BY <4>2
      <4> QED
        BY <3>2, <4>1, <4>2, <4>3, <4>4
    <3> QED
      BY <3>1, <3>2
  <2> QED
    BY <1>5, <2>1 DEF Children
<1>8. Heights(h)'
  <2>1. /\ h \in [Nodes -> Nat]
        /\ \A n \in Nodes : node[n].is_leaf <=> h[n] = 0
        /\ \A n \in Nodes : node[n].parent # NULL =>
             node[n].parent \in Nodes /\ h[node[n].parent] = h[n] + 1
        /\ \A n \in Nodes : h[n] < Len(node)
    BY <1>1 DEF Heights
  <2>2. /\ Nodes' = Nodes /\ Len(node') = Len(node) /\ pc' # "promote"
        /\ \A n \in Nodes : /\ node'[n].is_leaf = node[n].is_leaf
                             /\ node'[n].parent = node[n].parent
    BY <1>1, <1>5
  <2> QED
    BY <2>1, <2>2 DEF Heights
<1>9. LeavesSame
  BY <1>3, <1>5 DEF LeavesSame
<1>10. Known' \subseteq Known
  BY <1>1, InsertedGrows DEF Known
<1>11. Paired' /\ Linked' /\ Kept'
  BY <1>1, <1>9, <1>10, LeavesStay
<1> QED
  BY <1>1, <1>4, <1>6, <1>7, <1>8, <1>11, IdleFrame

LeftChildren == SubSeq(ParentChildren, 1, LeftCount + 1)
RightChildren == SubSeq(ParentChildren, LeftCount + 2, ORDER + 1)

(***************************************************************************)
(* How the children of a full parent are divided.                          *)
(***************************************************************************)
LEMMA ChildrenDivided ==
  ASSUME NEW h, NEW path, Frame(h, path), SplitInternal
  PROVE  /\ ParentKeys \in Seq(Int) /\ Len(ParentKeys) = ORDER
         /\ Len(ParentChildren) = ORDER + 1
         /\ LeftChildren \in Seq(Nat) /\ RightChildren \in Seq(Nat)
         /\ PartOf(LeftChildren, ParentChildren, 1, LeftCount + 1)
         /\ PartOf(RightChildren, ParentChildren, LeftCount + 2, ORDER + 1)
         /\ \A m \in ToSet(RightChildren) :
              m \in Nodes /\ node[m].parent = parent /\ h[parent] = h[m] + 1 /\ m # parent
         /\ \A m \in ToSet(LeftChildren) :
              /\ m \in Nodes /\ node[m].parent = parent /\ m # parent
              /\ m \notin ToSet(RightChildren)
<1>1. /\ pc = "promote" /\ parent # NULL /\ Len(node[parent].keys) = MAX_KEYS
      /\ Heights(h)
  BY DEF Frame, SplitInternal
<1>2. ParentKeys \in Seq(Int) /\ ParentChildren \in Seq(Nat)
      /\ Len(ParentKeys) = Len(node[parent].keys) + 1
      /\ Len(ParentChildren) = Len(node[parent].keys) + 2
  BY <1>1, ParentPairs
<1>3. Len(ParentKeys) = ORDER /\ Len(ParentChildren) = ORDER + 1
  BY <1>1, <1>2, OrderFacts
<1>4. /\ \A i \in 1 .. ORDER + 1 : /\ ParentChildren[i] \in Nodes
                                   /\ node[ParentChildren[i]].parent = parent
      /\ \A i, j \in 1 .. ORDER + 1 : i # j => ParentChildren[i] # ParentChildren[j]
  <2>1. /\ \A i \in 1 .. Len(ParentChildren) : /\ ParentChildren[i] \in Nodes
                                               /\ node[ParentChildren[i]].parent = parent
        /\ \A i, j \in 1 .. Len(ParentChildren) : i # j =>
             ParentChildren[i] # ParentChildren[j]
    BY <1>1, ParentChild
  <2> QED
    BY <1>3, <2>1
<1>5. /\ 1 \in 1 .. Len(ParentChildren) + 1 /\ LeftCount + 1 \in 1 - 1 .. Len(ParentChildren)
      /\ LeftCount + 2 \in 1 .. Len(ParentChildren) + 1
      /\ ORDER + 1 \in (LeftCount + 2) - 1 .. Len(ParentChildren)
  BY <1>3, OrderFacts
<1>6. LeftChildren \in Seq(Nat) /\ PartOf(LeftChildren, ParentChildren, 1, LeftCount + 1)
  BY <1>2, <1>5, SubSeqPart DEF LeftChildren
<1>7. /\ RightChildren \in Seq(Nat)
      /\ PartOf(RightChildren, ParentChildren, LeftCount + 2, ORDER + 1)
  BY <1>2, <1>5, SubSeqPart DEF RightChildren
<1>8. ASSUME NEW m \in Nodes, node[m].parent = parent
      PROVE  h[parent] = h[m] + 1 /\ m # parent
  BY <1>1, <1>8 DEF Heights
<1>9. ASSUME NEW m \in ToSet(RightChildren)
      PROVE  \E i \in LeftCount + 2 .. ORDER + 1 : m = ParentChildren[i]
  <2>1. PICK j \in DOMAIN RightChildren : m = RightChildren[j]
    BY DEF ToSet
  <2>2. j \in 1 .. (ORDER + 1) - (LeftCount + 2) + 1
        /\ m = ParentChildren[(LeftCount + 2) + j - 1]
    BY <1>7, <2>1 DEF PartOf
  <2>3. (LeftCount + 2) + j - 1 \in LeftCount + 2 .. ORDER + 1
    BY <2>2, OrderFacts
  <2> QED
    BY <2>2, <2>3
<1>10. ASSUME NEW m \in ToSet(LeftChildren)
       PROVE  \E i \in 1 .. LeftCount + 1 : m = ParentChildren[i]
  <2>1. PICK j \in DOMAIN LeftChildren : m = LeftChildren[j]
    BY DEF ToSet
  <2>2. j \in 1 .. (LeftCount + 1) - 1 + 1 /\ m = ParentChildren[1 + j - 1]
    BY <1>6, <2>1 DEF PartOf
  <2>3. 1 + j - 1 \in 1 .. LeftCount + 1
    BY <2>2, OrderFacts
  <2> QED
    BY <2>2, <2>3
<1>11. /\ \A i \in 1 .. LeftCount + 1 : i \in 1 .. ORDER + 1
       /\ \A i \in LeftCount + 2 .. ORDER + 1 : i \in 1 .. ORDER + 1
       /\ \A i \in 1 .. LeftCount + 1, j \in LeftCount + 2 .. ORDER + 1 : i # j
  BY OrderFacts
<1>12. ASSUME NEW m \in ToSet(RightChildren)
       PROVE  m \in Nodes /\ node[m].parent = parent /\ h[parent] = h[m] + 1 /\ m # parent
  BY <1>4, <1>8, <1>9, <1>11
<1>13. ASSUME NEW m \in ToSet(LeftChildren)
       PROVE  /\ m \in Nodes /\ node[m].parent = parent /\ m # parent
              /\ m \notin ToSet(RightChildren)
  BY <1>4, <1>8, <1>9, <1>10, <1>11
<1> QED
  BY <1>2, <1>3, <1>6, <1>7, <1>12, <1>13

(***************************************************************************)
(* Adopt changes nothing but parents.                                      *)
(***************************************************************************)
LEMMA AdoptFacts ==
  ASSUME NEW s \in Seq(NodeRec), NEW C, NEW p \in Nat
  PROVE  /\ Adopt(s, C, p) \in Seq(NodeRec) /\ Len(Adopt(s, C, p)) = Len(s)
         /\ DOMAIN Adopt(s, C, p) = DOMAIN s
         /\ \A i \in DOMAIN s :
              Adopt(s, C, p)[i] = IF i \in ToSet(C) THEN [s[i] EXCEPT !.parent = p]
                                  ELSE s[i]
<1>1. \A i \in DOMAIN s : s[i] \in NodeRec
  OBVIOUS
<1>2. \A i \in DOMAIN s : [s[i] EXCEPT !.parent = p] \in NodeRec
  BY <1>1 DEF NodeRec
<1>3. Len(s) \in Nat /\ DOMAIN s = 1 .. Len(s)
  OBVIOUS
<1> DEFINE e(i) == IF i \in ToSet(C) THEN [s[i] EXCEPT !.parent = p] ELSE s[i]
<1>4. \A i \in 1 .. Len(s) : e(i) \in NodeRec
  BY <1>1, <1>2, <1>3
<1>5. Adopt(s, C, p) = [i \in 1 .. Len(s) |-> e(i)]
  BY <1>3 DEF Adopt
<1> HIDE DEF e
<1>6. /\ Adopt(s, C, p) \in Seq(NodeRec) /\ Len(Adopt(s, C, p)) = Len(s)
      /\ DOMAIN Adopt(s, C, p) = DOMAIN s
      /\ \A i \in DOMAIN s : Adopt(s, C, p)[i] = e(i)
  BY <1>3, <1>4, <1>5
<1> QED
  BY <1>6 DEF e

\* What SplitInternal does to the nodes.
ParentSplit ==
  /\ node' \in Seq(NodeRec) /\ Len(node') = Len(node) + 1 /\ Nodes' = Nodes \cup {NewNode}
  /\ \A n \in Nodes :
       /\ node'[n].is_leaf = node[n].is_leaf /\ node'[n].values = node[n].values
       /\ node'[n].next = node[n].next
       /\ node'[n].parent = IF n \in ToSet(RightChildren) THEN NewNode ELSE node[n].parent
       /\ n # parent => /\ node'[n].keys = node[n].keys
                        /\ node'[n].children = node[n].children
  /\ node'[parent].keys = SubSeq(ParentKeys, 1, LeftCount)
  /\ node'[parent].children = LeftChildren
  /\ ~node'[NewNode].is_leaf
  /\ node'[NewNode].keys = SubSeq(ParentKeys, LeftCount + 2, ORDER)
  /\ node'[NewNode].children = RightChildren
  /\ node'[NewNode].parent = node[parent].parent
  /\ left' = parent /\ right' = NewNode /\ sep' = ParentKeys[LeftCount + 1]

LEMMA ParentSplitting ==
  ASSUME NEW h, NEW path, Frame(h, path), SplitInternal
  PROVE  ParentSplit
<1> PICK p : p = parent
  OBVIOUS
<1> DEFINE k1 == SubSeq(ParentKeys, 1, LeftCount)
           k2 == SubSeq(ParentKeys, LeftCount + 2, ORDER)
           LC == LeftChildren
           RC == RightChildren
           moved == Internal(k2, RC, node[p].parent)
           kept == [node EXCEPT ![p].keys = k1, ![p].children = LC]
           all == Append(kept, moved)
           r == [node[p] EXCEPT !.keys = k1, !.children = LC]
           one == Adopt(all, LC, p)
<1>1. /\ pc = "promote" /\ parent # NULL
      /\ node' = Adopt(one, RC, NewNode)
      /\ left' = p /\ right' = NewNode /\ sep' = ParentKeys[LeftCount + 1]
  BY DEF SplitInternal, LeftChildren, RightChildren, LeftCount
<1>2. /\ ParentKeys \in Seq(Int) /\ Len(ParentKeys) = ORDER
      /\ LC \in Seq(Nat) /\ RC \in Seq(Nat)
      /\ \A m \in ToSet(RC) : m \in Nodes /\ m # p
      /\ \A m \in ToSet(LC) : m \in Nodes /\ node[m].parent = p /\ m # p
  BY ChildrenDivided
<1>3. p \in Nodes
  BY <1>1, PromoteFacts
<1>4. /\ node \in Seq(NodeRec) /\ p \in DOMAIN node /\ node[p] \in NodeRec
      /\ NewNode \in Nat /\ node[p].parent \in Nat /\ p \in Nat /\ NewNode \notin Nodes
      /\ \A n \in DOMAIN node : node[n] \in NodeRec
  BY <1>3, NodeFacts DEF Nodes, Frame, Types
<1>5. k1 \in Seq(Int) /\ k2 \in Seq(Int)
  <2>1. /\ 1 \in 1 .. Len(ParentKeys) + 1 /\ LeftCount \in 1 - 1 .. Len(ParentKeys)
        /\ LeftCount + 2 \in 1 .. Len(ParentKeys) + 1
        /\ ORDER \in (LeftCount + 2) - 1 .. Len(ParentKeys)
    BY <1>2, OrderFacts
  <2> QED
    BY <1>2, <2>1, SubSeqPart
<1> HIDE DEF k1, k2, LC, RC
<1>6. kept = [node EXCEPT ![p] = r]
  BY <1>4
<1>7. /\ r \in NodeRec /\ r.keys = k1 /\ r.children = LC
      /\ r.is_leaf = node[p].is_leaf /\ r.values = node[p].values
      /\ r.parent = node[p].parent /\ r.next = node[p].next
  BY <1>2, <1>4, <1>5 DEF NodeRec
<1>8. /\ moved \in NodeRec /\ ~moved.is_leaf /\ moved.keys = k2 /\ moved.children = RC
      /\ moved.parent = node[p].parent
  BY <1>2, <1>4, <1>5, InternalFields
<1> HIDE DEF r, moved, kept
<1>9. /\ kept \in Seq(NodeRec) /\ Len(kept) = Len(node)
      /\ \A n \in DOMAIN node : kept[n] = IF n = p THEN r ELSE node[n]
  BY <1>4, <1>6, <1>7, ReplaceFacts
<1>10. /\ all \in Seq(NodeRec) /\ Len(all) = Len(node) + 1
       /\ DOMAIN all = DOMAIN node \cup {NewNode}
       /\ \A n \in DOMAIN node : all[n] = kept[n]
       /\ all[NewNode] = moved
  BY <1>4, <1>8, <1>9 DEF NewNode
<1> HIDE DEF all
<1>11. /\ one \in Seq(NodeRec) /\ Len(one) = Len(all) /\ DOMAIN one = DOMAIN all
       /\ \A i \in DOMAIN all :
            one[i] = IF i \in ToSet(LC) THEN [all[i] EXCEPT !.parent = p] ELSE all[i]
  BY <1>4, <1>10, AdoptFacts
<1> HIDE DEF one
<1>12. /\ node' \in Seq(NodeRec) /\ Len(node') = Len(one) /\ DOMAIN node' = DOMAIN one
       /\ \A i \in DOMAIN one :
            node'[i] = IF i \in ToSet(RC) THEN [one[i] EXCEPT !.parent = NewNode] ELSE one[i]
  BY <1>1, <1>4, <1>11, AdoptFacts
<1>13. node'[NewNode] = moved
  BY <1>2, <1>4, <1>10, <1>11, <1>12
<1>14. node'[p] = r
  BY <1>2, <1>4, <1>9, <1>10, <1>11, <1>12
<1>15. ASSUME NEW n \in DOMAIN node, n # p
       PROVE  /\ node'[n].is_leaf = node[n].is_leaf /\ node'[n].values = node[n].values
              /\ node'[n].next = node[n].next /\ node'[n].keys = node[n].keys
              /\ node'[n].children = node[n].children
              /\ node'[n].parent = IF n \in ToSet(RC) THEN NewNode ELSE node[n].parent
  <2>1. all[n] = node[n] /\ node[n] \in NodeRec /\ n \in DOMAIN all
    BY <1>4, <1>9, <1>10, <1>15
  <2>2. /\ one[n] \in NodeRec
        /\ one[n].is_leaf = node[n].is_leaf /\ one[n].values = node[n].values
        /\ one[n].next = node[n].next /\ one[n].keys = node[n].keys
        /\ one[n].children = node[n].children /\ one[n].parent = node[n].parent
    <3>1. CASE n \in ToSet(LC)
      <4>1. one[n] = [node[n] EXCEPT !.parent = p] /\ node[n].parent = p
        BY <1>2, <1>11, <2>1, <3>1
      <4> QED
        BY <1>4, <2>1, <4>1 DEF NodeRec
    <3>2. CASE n \notin ToSet(LC)
      BY <1>11, <2>1, <3>2
    <3> QED
      BY <3>1, <3>2
  <2>3. CASE n \in ToSet(RC)
    <3>1. node'[n] = [one[n] EXCEPT !.parent = NewNode]
      BY <1>11, <1>12, <2>1, <2>3
    <3>2. /\ node'[n].is_leaf = one[n].is_leaf /\ node'[n].values = one[n].values
          /\ node'[n].next = one[n].next /\ node'[n].keys = one[n].keys
          /\ node'[n].children = one[n].children /\ node'[n].parent = NewNode
      BY <2>2, <3>1 DEF NodeRec
    <3> QED
      BY <2>2, <2>3, <3>2
  <2>4. CASE n \notin ToSet(RC)
    <3>1. node'[n] = one[n]
      BY <1>11, <1>12, <2>1, <2>4
    <3> QED
      BY <2>2, <2>4, <3>1
  <2> QED
    BY <2>3, <2>4
<1>16. p \notin ToSet(RC)
  BY <1>2
<1>17. ASSUME NEW n \in Nodes
       PROVE  /\ node'[n].is_leaf = node[n].is_leaf /\ node'[n].values = node[n].values
              /\ node'[n].next = node[n].next
              /\ node'[n].parent = IF n \in ToSet(RC) THEN NewNode ELSE node[n].parent
              /\ n # p => /\ node'[n].keys = node[n].keys
                          /\ node'[n].children = node[n].children
  <2>1. n \in DOMAIN node
    BY DEF Nodes
  <2>2. CASE n = p
    BY <1>7, <1>14, <1>16, <2>2
  <2>3. CASE n # p
    BY <1>15, <2>1, <2>3
  <2> QED
    BY <2>2, <2>3
<1>18. /\ node' \in Seq(NodeRec) /\ Len(node') = Len(node) + 1
       /\ Nodes' = Nodes \cup {NewNode}
  BY <1>10, <1>11, <1>12 DEF Nodes
<1>19. /\ node'[p].keys = k1 /\ node'[p].children = LC
       /\ ~node'[NewNode].is_leaf /\ node'[NewNode].keys = k2
       /\ node'[NewNode].children = RC /\ node'[NewNode].parent = node[p].parent
  BY <1>7, <1>8, <1>13, <1>14
<1> QED
  BY <1>1, <1>17, <1>18, <1>19 DEF ParentSplit, k1, k2, LC, RC

LEMMA SplitInternalFrame ==
  ASSUME NEW h, NEW path, Frame(h, path), SplitInternal
  PROVE  \E g, q : Frame(g, q)'
<1> PICK p : p = parent
  OBVIOUS
<1> DEFINE N == NewNode
           RC == RightChildren
           LC == LeftChildren
<1>1. /\ Types /\ Rooted /\ Children /\ Heights(h) /\ Paired /\ Linked /\ Kept
      /\ Path(path) /\ node \in Seq(NodeRec) /\ pc = "promote" /\ pc' = "promote"
      /\ root' = root /\ inserted' = inserted /\ key' = key /\ val' = val
      /\ current' = current /\ parent # NULL
  BY DEF Frame, Types, SplitInternal
<1>2. ParentSplit
  BY ParentSplitting
<1>3. /\ p \in path /\ p \in Nodes /\ ~node[p].is_leaf
      /\ N \notin Nodes /\ N \in Nat /\ NULL \notin Nodes /\ N # NULL
      /\ \A n \in Nodes : n \in Nat
      /\ Len(node) \in Nat /\ Nodes = 1 .. Len(node)
  BY <1>1, PromoteFacts, NodeFacts
<1>4. /\ Nodes' = Nodes \cup {N} /\ Len(node') = Len(node) + 1
      /\ left' = p /\ right' = N
      /\ ~node'[N].is_leaf /\ node'[N].children = RC
      /\ node'[N].parent = node[p].parent
      /\ node'[p].children = LC
      /\ \A n \in Nodes :
           /\ node'[n].is_leaf = node[n].is_leaf /\ node'[n].values = node[n].values
           /\ node'[n].next = node[n].next
           /\ node'[n].parent = IF n \in ToSet(RC) THEN N ELSE node[n].parent
           /\ n # p => /\ node'[n].keys = node[n].keys
                       /\ node'[n].children = node[n].children
  BY <1>2 DEF ParentSplit
<1>5. /\ \A m \in ToSet(RC) :
           m \in Nodes /\ node[m].parent = p /\ h[p] = h[m] + 1 /\ m # p
      /\ \A m \in ToSet(LC) :
           /\ m \in Nodes /\ node[m].parent = p /\ m # p
           /\ m \notin ToSet(RC)
  BY ChildrenDivided
<1>6. Types'
  <2>1. ParentKeys[LeftCount + 1] \in Int
    <3>1. ParentKeys \in Seq(Int) /\ Len(ParentKeys) = ORDER
      BY ChildrenDivided
    <3> QED
      BY <3>1, OrderFacts
  <2> QED
    BY <1>1, <1>2, <1>3, <2>1 DEF Types, ParentSplit
<1>7. /\ Len(node'[p].children) = Len(node'[p].keys) + 1
      /\ Len(node'[N].children) = Len(node'[N].keys) + 1
      /\ \A i, j \in DOMAIN LC : LC[i] = LC[j] => i = j
      /\ \A i, j \in DOMAIN RC : RC[i] = RC[j] => i = j
  <2>1. /\ ParentKeys \in Seq(Int) /\ Len(ParentKeys) = ORDER
        /\ Len(ParentChildren) = ORDER + 1
        /\ PartOf(LC, ParentChildren, 1, LeftCount + 1)
        /\ PartOf(RC, ParentChildren, LeftCount + 2, ORDER + 1)
    BY ChildrenDivided
  <2>2. \A i, j \in 1 .. ORDER + 1 : i # j => ParentChildren[i] # ParentChildren[j]
    BY <1>1, <2>1, ParentChild
  <2>3. /\ node'[p].keys = SubSeq(ParentKeys, 1, LeftCount)
        /\ node'[N].keys = SubSeq(ParentKeys, LeftCount + 2, ORDER)
    BY <1>2 DEF ParentSplit
  <2> HIDE DEF LC, RC, N
  <2>4. Len(node'[p].keys) = LeftCount /\ Len(node'[N].keys) = ORDER - LeftCount - 1
    BY <2>1, <2>3, OrderFacts
  <2>5. /\ Len(LC) = LeftCount + 1 /\ DOMAIN LC = 1 .. LeftCount + 1
        /\ \A j \in 1 .. LeftCount + 1 : LC[j] = ParentChildren[j]
    BY <2>1, OrderFacts DEF PartOf
  <2>6. /\ Len(RC) = ORDER - LeftCount /\ DOMAIN RC = 1 .. ORDER - LeftCount
        /\ \A j \in 1 .. ORDER - LeftCount : RC[j] = ParentChildren[LeftCount + 1 + j]
    BY <2>1, OrderFacts DEF PartOf
  <2>7. ASSUME NEW i \in 1 .. LeftCount + 1, NEW j \in 1 .. LeftCount + 1, i # j
        PROVE  LC[i] # LC[j]
    <3>1. i \in 1 .. ORDER + 1 /\ j \in 1 .. ORDER + 1
      BY OrderFacts
    <3> QED
      BY <2>2, <2>5, <2>7, <3>1
  <2>8. ASSUME NEW i \in 1 .. ORDER - LeftCount, NEW j \in 1 .. ORDER - LeftCount, i # j
        PROVE  RC[i] # RC[j]
    <3>1. /\ LeftCount + 1 + i \in 1 .. ORDER + 1 /\ LeftCount + 1 + j \in 1 .. ORDER + 1
          /\ LeftCount + 1 + i # LeftCount + 1 + j
      BY <2>8, OrderFacts
    <3> QED
      BY <2>2, <2>6, <3>1
  <2>9. /\ Len(node'[p].children) = Len(node'[p].keys) + 1
        /\ Len(node'[N].children) = Len(node'[N].keys) + 1
    BY <1>4, <2>4, <2>5, <2>6, OrderFacts
  <2> QED
    BY <2>5, <2>6, <2>7, <2>8, <2>9
<1> HIDE DEF N, RC, LC
<1>8. Rooted'
  <2>1. node # <<>> /\ node' # <<>> /\ 1 \in Nodes
    <3>1. Len(node) >= 1
      BY <1>3
    <3> QED
      BY <1>3, <1>4, <3>1
  <2>2. root \in Nodes /\ node[root].parent = NULL /\ root \notin ToSet(RC)
    BY <1>1, <1>3, <1>5 DEF Rooted
  <2> QED
    BY <1>1, <1>4, <2>1, <2>2 DEF Rooted
<1>9. Children'
  <2>1. ASSUME NEW n \in Nodes, ~node[n].is_leaf, n # p
        PROVE  /\ Len(node'[n].children) = Len(node'[n].keys) + 1
               /\ \A i \in DOMAIN node'[n].children :
                    /\ node'[n].children[i] \in Nodes'
                    /\ node'[node'[n].children[i]].parent = n
               /\ \A i, j \in DOMAIN node'[n].children :
                    node'[n].children[i] = node'[n].children[j] => i = j
    <3>1. /\ Len(node[n].children) = Len(node[n].keys) + 1
          /\ \A i \in DOMAIN node[n].children :
               /\ node[n].children[i] \in Nodes
               /\ node[node[n].children[i]].parent = n
          /\ \A i, j \in DOMAIN node[n].children :
               node[n].children[i] = node[n].children[j] => i = j
      BY <1>1, <2>1 DEF Children
    <3>2. \A i \in DOMAIN node[n].children : node[n].children[i] \notin ToSet(RC)
      BY <1>5, <2>1, <3>1
    <3>3. /\ node'[n].children = node[n].children /\ node'[n].keys = node[n].keys
          /\ \A m \in Nodes : /\ m \in Nodes'
                              /\ m \notin ToSet(RC) => node'[m].parent = node[m].parent
      BY <1>4, <2>1
    <3>4. \A i \in DOMAIN node[n].children :
            /\ node[n].children[i] \in Nodes'
            /\ node'[node[n].children[i]].parent = n
      BY <3>1, <3>2, <3>3
    <3> QED
      BY <3>1, <3>3, <3>4
  <2>2. \A i \in DOMAIN LC : LC[i] \in Nodes' /\ node'[LC[i]].parent = p
    <3>1. \A i \in DOMAIN LC : LC[i] \in ToSet(LC)
      BY DEF ToSet
    <3> QED
      BY <1>4, <1>5, <3>1
  <2>3. \A i \in DOMAIN RC : RC[i] \in Nodes' /\ node'[RC[i]].parent = N
    <3>1. \A i \in DOMAIN RC : RC[i] \in ToSet(RC)
      BY DEF ToSet
    <3> QED
      BY <1>4, <1>5, <3>1
  <2>4. ASSUME NEW n \in Nodes', ~node'[n].is_leaf
        PROVE  /\ Len(node'[n].children) = Len(node'[n].keys) + 1
               /\ \A i \in DOMAIN node'[n].children :
                    /\ node'[n].children[i] \in Nodes'
                    /\ node'[node'[n].children[i]].parent = n
               /\ \A i, j \in DOMAIN node'[n].children :
                    node'[n].children[i] = node'[n].children[j] => i = j
    <3>1. CASE n = p
      BY <1>4, <1>7, <2>2, <3>1
    <3>2. CASE n = N
      BY <1>4, <1>7, <2>3, <3>2
    <3>3. CASE n # p /\ n # N
      BY <1>4, <2>1, <2>4, <3>3
    <3> QED
      BY <3>1, <3>2, <3>3
  <2> QED
    BY <2>4 DEF Children
<1> PICK g : g = [n \in Nodes \cup {N} |-> IF n = N THEN h[p] ELSE h[n]]
  OBVIOUS
<1>10. /\ h \in [Nodes -> Nat]
       /\ \A n \in Nodes : node[n].is_leaf <=> h[n] = 0
       /\ \A n \in Nodes : node[n].parent # NULL =>
            node[n].parent \in Nodes /\ h[node[n].parent] = h[n] + 1
       /\ \A n \in Nodes : h[n] < Len(node)
  BY <1>1 DEF Heights
<1>11. Heights(g)'
  <2>2. g[N] = h[p] /\ \A n \in Nodes : g[n] = h[n]
    BY <1>3
  <2>3. g \in [Nodes' -> Nat]
    BY <1>3, <1>4, <1>10
  <2>4. \A n \in Nodes' : node'[n].is_leaf <=> g[n] = 0
    BY <1>3, <1>4, <1>10, <2>2
  <2>5. ASSUME NEW n \in Nodes', node'[n].parent # NULL
        PROVE  node'[n].parent \in Nodes' /\ g[node'[n].parent] = g[n] + 1
    <3>1. CASE n \in ToSet(RC)
      BY <1>4, <1>5, <2>2, <3>1
    <3>2. CASE n \notin ToSet(RC)
      <4>1. PICK m \in Nodes : g[n] = h[m] /\ node'[n].parent = node[m].parent
        BY <1>3, <1>4, <2>2, <3>2
      <4>2. node[m].parent \in Nodes /\ h[node[m].parent] = h[m] + 1
        BY <1>10, <2>5, <4>1
      <4> QED
        BY <1>4, <2>2, <4>1, <4>2
    <3> QED
      BY <3>1, <3>2
  <2>6. ASSUME NEW n \in Nodes' PROVE g[n] < Len(node')
    <3>1. PICK m \in Nodes : g[n] = h[m]
      BY <1>3, <1>4, <2>2
    <3>2. h[m] < Len(node) /\ h[m] \in Nat
      BY <1>10
    <3> QED
      BY <1>3, <1>4, <3>1, <3>2
  <2>7. g[right'] = g[left']
    BY <1>3, <1>4, <2>2
  <2> QED
    BY <1>1, <2>3, <2>4, <2>5, <2>6, <2>7 DEF Heights
<1> PICK up : up = {m \in path : h[m] >= h[p]}
  OBVIOUS
<1>12. Path(up)' /\ OnPath(up)'
  <2>1. p \in up /\ up \subseteq Nodes'
    <3>1. h[p] \in Nat /\ h[p] >= h[p]
      BY <1>3, <1>10
    <3>2. path \subseteq Nodes'
      BY <1>1, <1>4 DEF Path
    <3> QED
      BY <1>3, <3>1, <3>2
  <2>2. ASSUME NEW n \in up, n # root
        PROVE  node'[n].parent \in up /\ n \in ToSet(node'[node'[n].parent].children)
    <3>1. /\ n \in path /\ n \in Nodes /\ h[n] >= h[p]
          /\ node[n].parent \in path /\ n \in ToSet(node[node[n].parent].children)
      BY <1>1, <2>2 DEF Path
    <3>2. node[n].parent \in Nodes
      BY <1>1, <3>1 DEF Path
    <3>3. h[node[n].parent] = h[n] + 1
      BY <1>3, <1>10, <3>1, <3>2
    <3>4. h[n] \in Nat /\ h[p] \in Nat
      BY <1>3, <1>10, <3>1
    <3>5. node[n].parent # p /\ h[node[n].parent] >= h[p] /\ n \notin ToSet(RC)
      BY <1>5, <3>1, <3>3, <3>4
    <3>6. node'[n].parent = node[n].parent
      BY <1>4, <3>1, <3>5
    <3>7. node'[node[n].parent].children = node[node[n].parent].children
      BY <1>4, <3>2, <3>5
    <3> QED
      BY <3>1, <3>5, <3>6, <3>7
  <2> QED
    BY <1>1, <1>4, <2>1, <2>2 DEF Path, OnPath
<1>13. Halves'
  <2>1. \A n \in Nodes' : ~node'[n].is_leaf => N \notin ToSet(node'[n].children)
    <3>1. ASSUME NEW n \in Nodes', ~node'[n].is_leaf, N \in ToSet(node'[n].children)
          PROVE  FALSE
      <4>1. n # p
        BY <1>3, <1>4, <1>5, <3>1
      <4>2. n # N
        BY <1>3, <1>4, <1>5, <3>1
      <4>3. n \in Nodes /\ ~node[n].is_leaf /\ N \in ToSet(node[n].children)
        BY <1>4, <3>1, <4>1, <4>2
      <4> QED
        BY <1>1, <1>3, <4>3 DEF Children, ToSet
    <3> QED
      BY <3>1
  <2>2. N # root /\ N # p
    BY <1>1, <1>3 DEF Rooted
  <2>3. node'[N].parent = node'[p].parent
    BY <1>3, <1>4, <1>5
  <2> QED
    BY <1>1, <1>3, <1>4, <2>1, <2>2, <2>3 DEF Halves
<1>14. LeavesSame
  BY <1>3, <1>4 DEF LeavesSame
<1>15. Known' \subseteq Known
  BY <1>1 DEF Known
<1>16. Paired' /\ Linked' /\ Kept'
  BY <1>1, <1>14, <1>15, LeavesStay
<1>17. Frame(g, up)'
  BY <1>6, <1>8, <1>9, <1>11, <1>12, <1>13, <1>16 DEF Frame
<1> QED
  BY <1>17

(***************************************************************************)
(* The first part of the invariant.                                        *)
(***************************************************************************)
LEMMA FrameStep ==
  ASSUME NEW h, NEW path, Frame(h, path), [Next]_vars
  PROVE  \E g, q : Frame(g, q)'
<1>1. ASSUME NEW k \in Key, Insert(k) PROVE \E g, q : Frame(g, q)'
  BY <1>1, InsertFrame
<1>2. CASE FirstLeaf
  BY <1>2, FirstLeafFrame
<1>3. CASE Descend
  BY <1>3, DescendFrame
<1>4. CASE Duplicate
  BY <1>4, FailFrame DEF Duplicate
<1>5. CASE InsertIntoLeaf
  BY <1>5, InsertIntoLeafFrame
<1>6. CASE SplitLeaf
  BY <1>6, SplitLeafFrame
<1>7. CASE LeafAllocFails
  BY <1>7, FailFrame DEF LeafAllocFails, AllocFails
<1>8. CASE NewRoot
  BY <1>8, NewRootFrame
<1>9. CASE InsertIntoInternal
  BY <1>9, InsertIntoInternalFrame
<1>10. CASE SplitInternal
  BY <1>10, SplitInternalFrame
<1>11. CASE PromoteAllocFails
  BY <1>11, FailFrame DEF PromoteAllocFails, AllocFails
<1>12. CASE UNCHANGED vars
  <2>1. Frame(h, path)'
    BY <1>12 DEF vars, Frame, Types, Rooted, Children, Heights, Path, Halves, OnPath,
                 Paired, Linked, Kept, Known, Nodes
  <2> QED
    BY <2>1
<1> QED
  BY <1>1, <1>2, <1>3, <1>4, <1>5, <1>6, <1>7, <1>8, <1>9, <1>10, <1>11, <1>12 DEF Next

-----------------------------------------------------------------------------
(* The second part of the invariant.                                       *)

(***************************************************************************)
(* The root is above all other nodes.                                      *)
(***************************************************************************)
LEMMA Highest ==
  ASSUME NEW h, NEW path, Frame(h, path), Attached, pc # "promote"
  PROVE  \A n \in Nodes : n = root \/ h[n] < h[root]
<1> DEFINE Bad == {n \in Nodes : n # root /\ ~(h[n] < h[root])}
           Gap == {Len(node) - h[n] : n \in Bad}
<1> SUFFICES ASSUME Bad # {} PROVE FALSE
  OBVIOUS
<1>1. /\ node \in Seq(NodeRec) /\ Heights(h) /\ Rooted
  BY DEF Frame, Types
<1>2. /\ Len(node) \in Nat /\ Nodes = 1 .. Len(node) /\ NULL \notin Nodes
  BY <1>1, NodeFacts
<1>3. /\ \A n \in Nodes : h[n] \in Nat /\ h[n] < Len(node)
      /\ \A n \in Nodes : node[n].parent # NULL =>
           node[n].parent \in Nodes /\ h[node[n].parent] = h[n] + 1
  BY <1>1 DEF Heights
<1>4. root \in Nodes
  <2>1. node # <<>>
    BY <1>2
  <2> QED
    BY <1>1, <2>1 DEF Rooted
<1>5. Gap \in SUBSET Nat /\ Gap # {}
  BY <1>2, <1>3
<1>6. PICK g \in Gap : \A x \in Gap : g <= x
  <2> HIDE DEF Gap
  <2> QED
    BY <1>5, LeastNumber
<1>7. PICK n \in Bad : g = Len(node) - h[n]
  BY <1>6
<1> DEFINE p == node[n].parent
<1>8. p \in Nodes
  BY <1>7 DEF Attached
<1>9. h[p] = h[n] + 1
  BY <1>2, <1>3, <1>7, <1>8
<1> HIDE DEF p
<1>10. p \in Bad
  BY <1>3, <1>4, <1>7, <1>8, <1>9
<1>11. Len(node) - h[p] \in Gap
  BY <1>10
<1>12. n \in Nodes /\ h[n] \in Nat
  BY <1>3, <1>7
<1> HIDE DEF Gap, Bad
<1>13. g <= Len(node) - h[p]
  BY <1>6, <1>11
<1> QED
  BY <1>2, <1>7, <1>9, <1>12, <1>13

(***************************************************************************)
(* A key belongs to one node of each height.                               *)
(***************************************************************************)
LEMMA OneSpan ==
  ASSUME NEW h, NEW path, NEW span, Frame(h, path), Sound(span), pc # "promote",
         NEW k \in Int
  PROVE  \A m, n \in Nodes : h[m] = h[n] /\ k \in span[m] /\ k \in span[n] => m = n
<1> DEFINE Bad == {m \in Nodes : \E n \in Nodes :
                     h[m] = h[n] /\ k \in span[m] /\ k \in span[n] /\ m # n}
           Gap == {Len(node) - h[m] : m \in Bad}
<1> SUFFICES ASSUME Bad # {} PROVE FALSE
  OBVIOUS
<1>1. /\ node \in Seq(NodeRec) /\ Heights(h) /\ Rooted /\ Attached /\ Spans(span)
      /\ Children
  BY DEF Frame, Types, Sound
<1>2. /\ Len(node) \in Nat /\ Nodes = 1 .. Len(node) /\ NULL \notin Nodes
  BY <1>1, NodeFacts
<1>3. /\ \A n \in Nodes : h[n] \in Nat /\ h[n] < Len(node)
      /\ \A n \in Nodes : node[n].parent # NULL =>
           node[n].parent \in Nodes /\ h[node[n].parent] = h[n] + 1
      /\ \A n \in Nodes : node[n].is_leaf <=> h[n] = 0
  BY <1>1 DEF Heights
<1>4. Gap \in SUBSET Nat /\ Gap # {}
  <2>1. \A n \in Nodes : Len(node) - h[n] \in Nat
    BY <1>2, <1>3
  <2> QED
    BY <2>1
<1>5. PICK g \in Gap : \A x \in Gap : g <= x
  <2> HIDE DEF Gap
  <2> QED
    BY <1>4, LeastNumber
<1>6. PICK m \in Bad : g = Len(node) - h[m]
  BY <1>5
<1>7. PICK n \in Nodes : h[m] = h[n] /\ k \in span[m] /\ k \in span[n] /\ m # n
  BY <1>6
<1>8. m # root /\ n # root
  <2>1. \A x \in Nodes : x = root \/ h[x] < h[root]
    BY <1>1, Highest
  <2> QED
    BY <1>3, <1>6, <1>7, <2>1
<1>9. ASSUME NEW x \in Nodes, x # root, k \in span[x]
      PROVE  /\ node[x].parent \in Nodes /\ h[node[x].parent] = h[x] + 1
             /\ k \in span[node[x].parent]
             /\ x = node[node[x].parent].children[ChildIndex(node[node[x].parent].keys, k)]
  <2> DEFINE p == node[x].parent
  <2>1. p \in Nodes /\ x \in ToSet(node[p].children)
    BY <1>1, <1>9 DEF Attached
  <2>2. h[p] = h[x] + 1
    BY <1>2, <1>3, <2>1
  <2>3. ~node[p].is_leaf
    BY <1>3, <2>1, <2>2
  <2>4. PICK i \in DOMAIN node[p].children : x = node[p].children[i]
    BY <2>1 DEF ToSet
  <2>5. Share(span, node[p].children[i]) = {y \in span[p] : ChildIndex(node[p].keys, y) = i}
    <3> HIDE DEF p
    <3> QED
      BY <1>1, <2>1, <2>3 DEF Spans
  <2>6. Share(span, node[p].children[i]) = span[x]
    BY <2>4 DEF Share
  <2> HIDE DEF p
  <2>7. k \in {y \in span[p] : ChildIndex(node[p].keys, y) = i}
    BY <1>9, <2>5, <2>6
  <2>8. k \in span[p] /\ ChildIndex(node[p].keys, k) = i
    BY <2>7
  <2> QED
    BY <2>1, <2>2, <2>4, <2>8 DEF p
<1> DEFINE p == node[m].parent
           q == node[n].parent
<1>10. /\ p \in Nodes /\ h[p] = h[m] + 1 /\ k \in span[p]
       /\ m = node[p].children[ChildIndex(node[p].keys, k)]
  BY <1>6, <1>7, <1>8, <1>9
<1>11. /\ q \in Nodes /\ h[q] = h[n] + 1 /\ k \in span[q]
       /\ n = node[q].children[ChildIndex(node[q].keys, k)]
  BY <1>7, <1>8, <1>9
<1> HIDE DEF p, q
<1>12. p # q
  BY <1>7, <1>10, <1>11
<1>13. p \in Bad
  BY <1>7, <1>10, <1>11, <1>12
<1>14. Len(node) - h[p] \in Gap
  BY <1>13
<1>15. h[m] \in Nat
  BY <1>3, <1>6
<1> HIDE DEF Gap, Bad
<1>16. g <= Len(node) - h[p]
  BY <1>5, <1>14
<1> QED
  BY <1>2, <1>6, <1>10, <1>15, <1>16

(***************************************************************************)
(* A key that the walk does not find in its leaf has not been inserted.    *)
(***************************************************************************)
LEMMA NotInserted ==
  ASSUME NEW h, NEW path, NEW span, Frame(h, path), Sound(span), pc # "promote",
         NEW n \in Nodes, node[n].is_leaf, NEW k \in span[n], k \in Int,
         k \notin ToSet(node[n].keys)
  PROVE  k \notin DOMAIN inserted
<1> SUFFICES ASSUME k \in DOMAIN inserted PROVE FALSE
  OBVIOUS
<1>1. Kept /\ Heights(h) /\ Spans(span)
  BY DEF Frame, Sound
<1>2. PICK m \in Nodes : node[m].is_leaf /\ k \in ToSet(node[m].keys)
  BY <1>1 DEF Kept, Known
<1>3. h[m] = h[n] /\ k \in span[m]
  BY <1>1, <1>2 DEF Heights, Spans
<1>4. m = n
  BY <1>3, OneSpan
<1> QED
  BY <1>2, <1>4

(***************************************************************************)
(* Steps that leave the nodes alone.                                       *)
(***************************************************************************)
LEMMA UnmovedSound ==
  ASSUME NEW span, Sound(span), UNCHANGED <<node, root, inserted>>,
         pc # "promote", pc' # "promote", pc' = "descend" => key' \in span[current']
  PROVE  Sound(span)'
<1>1. Attached' /\ Filled' /\ Chained(span)'
  BY DEF Sound, Attached, Filled, Least, Chained, Nodes
<1>2. Spans(span)'
  BY DEF Sound, Spans, Share, Nodes
<1>3. Contents'
  BY DEF Sound, Contents, Known, ValueOf, Nodes
<1> QED
  BY <1>1, <1>2, <1>3 DEF Sound

LEMMA InsertSound ==
  ASSUME NEW h, NEW path, NEW span, Frame(h, path), Sound(span), NEW k \in Key, Insert(k)
  PROVE  \E s : Sound(s)'
<1>1. /\ UNCHANGED <<node, root, inserted>> /\ pc = "idle" /\ pc' # "promote"
      /\ key' = k /\ current' = root
      /\ pc' = "descend" => root # NULL
  BY DEF Insert
<1>2. root # NULL => span[root] = Int
  BY <1>1 DEF Sound, Spans, Share
<1>3. Sound(span)'
  BY <1>1, <1>2, KeyAssumption, UnmovedSound
<1> QED
  BY <1>3

LEMMA DescendSound ==
  ASSUME NEW h, NEW path, NEW span, Frame(h, path), Sound(span), Descend
  PROVE  \E s : Sound(s)'
<1> DEFINE i == ChildIndex(node[current].keys, key)
<1>1. /\ UNCHANGED <<node, root, inserted, key>> /\ pc = "descend" /\ pc' # "promote"
      /\ ~node[current].is_leaf
  BY DEF Descend
<1>2. /\ current' \in Nodes /\ node[current].children[i] = current'
      /\ i \in DOMAIN node[current].children
  BY DescendFrame
<1>3. current \in Nodes
  BY <1>1 DEF Frame, OnPath, Path
<1>4. key \in span[current]
  BY <1>1 DEF Sound, Spans
<1> HIDE DEF i
<1>5. Share(span, node[current].children[i])
        = {k \in span[current] : ChildIndex(node[current].keys, k) = i}
  BY <1>1, <1>2, <1>3 DEF Sound, Spans
<1>6. Share(span, node[current].children[i]) = span[current']
  BY <1>1, <1>2 DEF Share
<1>7. key \in {k \in span[current] : ChildIndex(node[current].keys, k) = i}
  BY <1>4 DEF i
<1>8. key' \in span[current']
  BY <1>1, <1>5, <1>6, <1>7
<1>9. Sound(span)'
  BY <1>1, <1>8, UnmovedSound
<1> QED
  BY <1>9

LEMMA FailSound ==
  ASSUME NEW span, Sound(span), Return(FALSE), UNCHANGED <<node, root>>, pc # "promote"
  PROVE  \E s : Sound(s)'
<1>1. Sound(span)'
  BY UnmovedSound DEF Return
<1> QED
  BY <1>1

LEMMA FirstLeafSound ==
  ASSUME NEW h, NEW path, NEW span, Frame(h, path), Sound(span), FirstLeaf
  PROVE  \E s : Sound(s)'
<1> DEFINE leaf == Leaf(<<key>>, <<val>>, NULL, NULL)
<1>1. /\ Types /\ Rooted /\ Contents /\ pc = "first" /\ pc' = "idle"
      /\ inserted' = Recorded
      /\ node' = Append(node, leaf) /\ root' = NewNode
      /\ key \in Int /\ val \in Value
  BY DEF Frame, Types, FirstLeaf, Return, Sound
<1>2. node = <<>>
  BY <1>1 DEF Rooted
<1>4. /\ leaf \in NodeRec /\ leaf.is_leaf /\ leaf.keys = <<key>> /\ leaf.values = <<val>>
      /\ leaf.children = <<>> /\ leaf.parent = NULL /\ leaf.next = NULL
  BY <1>1, OneLeaf
<1> HIDE DEF leaf
<1>5. Nodes' = {1} /\ node'[1] = leaf /\ root' = 1
  BY <1>1, <1>2, <1>4 DEF Nodes, NewNode
<1>6. Len(leaf.keys) = 1 /\ DOMAIN leaf.keys = {1} /\ ToSet(leaf.keys) = {key}
      /\ leaf.keys[1] = key /\ leaf.values[1] = val
  BY <1>4 DEF ToSet
<1> PICK s : s = [n \in {1} |-> Int]
  OBVIOUS
<1>7. s[1] = Int /\ s \in [{1} -> SUBSET Int]
  OBVIOUS
<1>8. Attached'
  BY <1>5 DEF Attached
<1>9. Filled'
  <2>1. 1 \in 1 .. MAX_KEYS /\ Ascending(leaf.keys)
    BY <1>6, OrderFacts DEF Ascending
  <2> QED
    BY <1>1, <1>5, <1>6, <2>1 DEF Filled
<1>10. Spans(s)'
  <2>1. Share(s, 1)' = Int
    BY <1>1, <1>7 DEF Share
  <2> QED
    BY <1>1, <1>4, <1>5, <1>6, <1>7, <2>1 DEF Spans
<1>11. Chained(s)'
  BY <1>4, <1>5 DEF Chained
<1>12. DOMAIN inserted' = DOMAIN inserted \cup {key}
       /\ (key \notin DOMAIN inserted => inserted'[key] = val)
  BY <1>1, InsertedGrows
<1>13. key \notin DOMAIN inserted
  BY <1>1, <1>2 DEF Frame, Kept, Known, Nodes
<1>14. Contents'
  BY <1>1, <1>5, <1>6, <1>12, <1>13 DEF Contents, Known, ValueOf
<1>15. Sound(s)'
  BY <1>8, <1>9, <1>10, <1>11, <1>14 DEF Sound
<1> QED
  BY <1>15

\* The pairs of a leaf are what was inserted, or the pair of this call.
Recording(K, V) == \A i \in DOMAIN K : /\ K[i] \in DOMAIN inserted \cup {key}
                                       /\ V[i] = ValueOf(K[i])

(***************************************************************************)
(* The pairs of the leaf with the new one are in order and what they       *)
(* should be.                                                              *)
(***************************************************************************)
LEMMA NewPairsSound ==
  ASSUME NEW h, NEW path, NEW span, Frame(h, path), Sound(span), AtLeaf, ~HasKey
  PROVE  /\ key \notin DOMAIN inserted
         /\ Ascending(NewKeys) /\ ToSet(NewKeys) \subseteq span[current]
         /\ Recording(NewKeys, NewValues)
<1> DEFINE K == node[current].keys
           V == node[current].values
           i == bptree_find_insert_index(K, key)
<1>1. /\ node \in Seq(NodeRec) /\ pc = "descend" /\ node[current].is_leaf
      /\ Paired /\ Filled /\ Spans(span) /\ Contents
  BY DEF Frame, Types, Sound, AtLeaf
<1>2. /\ current \in Nodes /\ key \in Int /\ val \in Value
      /\ ToSet(NewKeys) = ToSet(K) \cup {key}
  BY NewPairs
<1>3. /\ K \in Seq(Int) /\ V \in Seq(Value) /\ Len(V) = Len(K) /\ Len(K) \in Nat
      /\ DOMAIN K = 1 .. Len(K)
  BY <1>1, <1>2, NodeFacts DEF Paired
<1>4. key \in span[current] /\ ToSet(K) \subseteq span[current]
  BY <1>1, <1>2 DEF Spans
<1>5. key \notin ToSet(K)
  BY DEF HasKey
<1>6. key \notin DOMAIN inserted
  BY <1>1, <1>2, <1>4, <1>5, NotInserted
<1>7. Ascending(K)
  BY <1>1, <1>2 DEF Filled
<1>8. /\ \A j \in 1 .. Len(K) : K[j] \in DOMAIN inserted
      /\ \A j \in 1 .. Len(K) : V[j] = ValueOf(K[j])
  BY <1>1, <1>2, <1>3 DEF Contents, Known
<1> HIDE DEF K, V
<1>9. /\ i \in 1 .. Len(K) + 1
      /\ \A j \in 1 .. i - 1 : K[j] < key
      /\ i <= Len(K) => K[i] >= key
  BY <1>2, <1>3, FindFacts
<1>10. NewKeys = InsertAt(K, i, key) /\ NewValues = InsertAt(V, i, val)
  BY DEF NewKeys, NewValues, K, V
<1> HIDE DEF i
<1>11. i <= Len(K) => key < K[i]
  <2>1. ASSUME i <= Len(K) PROVE K[i] \in Int /\ K[i] # key
    <3>1. i \in DOMAIN K
      BY <1>3, <1>9, <2>1
    <3> QED
      BY <1>3, <1>5, <3>1 DEF ToSet
  <2> QED
    BY <1>2, <1>9, <2>1
<1>12. Ascending(NewKeys)
  BY <1>2, <1>3, <1>7, <1>9, <1>10, <1>11, InsertAscending
<1>13. WithNew(NewKeys, K, i, key) /\ NewKeys \in Seq(Int)
  BY <1>2, <1>3, <1>9, <1>10, InsertNew
<1>14. WithNew(NewValues, V, i, val)
  BY <1>2, <1>3, <1>9, <1>10, InsertNew
<1>15. /\ Len(NewKeys) = Len(K) + 1 /\ NewKeys[i] = key
       /\ \A j \in 1 .. i - 1 : NewKeys[j] = K[j]
       /\ \A j \in i + 1 .. Len(K) + 1 : NewKeys[j] = K[j - 1]
       /\ DOMAIN NewKeys = 1 .. Len(K) + 1
  BY <1>3, <1>13 DEF WithNew
<1>16. /\ NewValues[i] = val
       /\ \A j \in 1 .. i - 1 : NewValues[j] = V[j]
       /\ \A j \in i + 1 .. Len(K) + 1 : NewValues[j] = V[j - 1]
  BY <1>3, <1>14 DEF WithNew
<1>17. ValueOf(key) = val
  BY <1>6 DEF ValueOf
<1>18. ASSUME NEW j \in 1 .. Len(K) + 1
       PROVE  NewKeys[j] \in DOMAIN inserted \cup {key} /\ NewValues[j] = ValueOf(NewKeys[j])
  <2>1. CASE j < i
    <3>1. j \in 1 .. i - 1 /\ j \in 1 .. Len(K)
      BY <1>3, <1>9, <2>1
    <3> QED
      BY <1>8, <1>15, <1>16, <3>1
  <2>2. CASE j = i
    BY <1>15, <1>16, <1>17, <2>2
  <2>3. CASE j > i
    <3>1. j \in i + 1 .. Len(K) + 1 /\ j - 1 \in 1 .. Len(K)
      BY <1>3, <1>9, <2>3
    <3> QED
      BY <1>8, <1>15, <1>16, <3>1
  <2> QED
    BY <1>3, <1>9, <2>1, <2>2, <2>3
<1>19. Recording(NewKeys, NewValues)
  BY <1>15, <1>18 DEF Recording
<1> QED
  BY <1>2, <1>4, <1>6, <1>12, <1>19 DEF K

LEMMA InsertIntoLeafSound ==
  ASSUME NEW h, NEW path, NEW span, Frame(h, path), Sound(span), InsertIntoLeaf
  PROVE  \E s : Sound(s)'
<1>1. /\ Types /\ node \in Seq(NodeRec) /\ pc = "descend" /\ pc' = "idle" /\ root' = root
      /\ inserted' = Recorded /\ AtLeaf /\ ~HasKey /\ Linked
      /\ Len(node[current].keys) < MAX_KEYS
      /\ Attached /\ Filled /\ Spans(span) /\ Chained(span) /\ Contents
  BY DEF Frame, Types, InsertIntoLeaf, Return, AtLeaf, Sound
<1>2. LeafFilled
  BY LeafFilling
<1>3. /\ current \in Nodes /\ node[current].is_leaf
      /\ Len(NewKeys) = Len(node[current].keys) + 1
  BY <1>1, NewPairs
<1>4. /\ key \notin DOMAIN inserted
      /\ Ascending(NewKeys) /\ ToSet(NewKeys) \subseteq span[current]
      /\ Recording(NewKeys, NewValues)
  BY <1>1, NewPairsSound
<1>5. /\ Nodes' = Nodes
      /\ \A n \in Nodes :
           /\ node'[n].is_leaf = node[n].is_leaf /\ node'[n].children = node[n].children
           /\ node'[n].parent = node[n].parent /\ node'[n].next = node[n].next
           /\ n # current => node'[n].keys = node[n].keys /\ node'[n].values = node[n].values
      /\ node'[current].keys = NewKeys /\ node'[current].values = NewValues
  BY <1>2 DEF LeafFilled
<1>6. Attached'
  BY <1>1, <1>5 DEF Attached
<1>7. Filled'
  <2>1. Len(node[current].keys) \in Nat /\ Len(node[current].keys) >= 1
    BY <1>1, <1>3 DEF Filled
  <2>2. Len(NewKeys) \in 1 .. MAX_KEYS /\ Len(NewKeys) >= Len(node[current].keys)
    <3>1. Len(node[current].keys) < MAX_KEYS /\ MAX_KEYS \in Int
      BY <1>1, OrderFacts
    <3> QED
      BY <1>3, <2>1, <3>1
  <2>3. /\ Least(node[current].is_leaf) \in Int
        /\ current # root => Len(node[current].keys) >= Least(node[current].is_leaf)
    <3>1. Least(node[current].is_leaf) \in Int
      BY <1>1, <1>3, OrderFacts DEF Least
    <3> QED
      BY <1>1, <1>3, <3>1 DEF Filled
  <2>4. current # root => Len(NewKeys) >= Least(node[current].is_leaf)
    BY <2>1, <2>2, <2>3
  <2>6. ASSUME NEW n \in Nodes
        PROVE  /\ Len(node'[n].keys) \in 1 .. MAX_KEYS
               /\ n # root => Len(node'[n].keys) >= Least(node'[n].is_leaf)
               /\ Ascending(node'[n].keys)
    <3>1. CASE n = current
      BY <1>4, <1>5, <2>2, <2>4, <3>1
    <3>2. CASE n # current
      BY <1>1, <1>5, <3>2 DEF Filled
    <3> QED
      BY <3>1, <3>2
  <2> QED
    BY <1>1, <1>5, <2>6 DEF Filled
<1>8. Spans(span)'
  <2>1. \A n : Share(span, n)' = span[n] /\ Share(span, n) = span[n]
    BY <1>1 DEF Share
  <2>2. \A n \in Nodes : ToSet(node'[n].keys) \subseteq span[n]
    BY <1>1, <1>4, <1>5 DEF Spans
  <2>3. ASSUME NEW n \in Nodes, ~node'[n].is_leaf, NEW i \in DOMAIN node'[n].children
        PROVE  span[node'[n].children[i]]
                 = {k \in span[n] : ChildIndex(node'[n].keys, k) = i}
    <3>1. /\ node'[n].keys = node[n].keys /\ node'[n].children = node[n].children
          /\ ~node[n].is_leaf
      BY <1>3, <1>5, <2>3
    <3> QED
      BY <1>1, <2>1, <2>3, <3>1 DEF Spans
  <2>4. span \in [Nodes -> SUBSET Int] /\ (root # NULL => span[root] = Int)
    BY <1>1, <2>1 DEF Spans
  <2>5. ASSUME NEW n \in Nodes', ~node'[n].is_leaf, NEW i \in DOMAIN node'[n].children
        PROVE  (Share(span, node[n].children[i])
                  = {k \in span[n] : ChildIndex(node[n].keys, k) = i})'
    <3>1. Share(span, node[n].children[i])' = span[node'[n].children[i]]
      BY <1>1 DEF Share
    <3> QED
      BY <1>5, <2>3, <2>5, <3>1
  <2>6. /\ span \in [Nodes' -> SUBSET Int] /\ (root' # NULL => Share(span, root)' = Int)
        /\ pc' = "idle" /\ \A n \in Nodes' : ToSet(node'[n].keys) \subseteq span[n]
    BY <1>1, <1>5, <2>2, <2>4 DEF Share
  <2> QED
    BY <2>5, <2>6 DEF Spans
<1>9. Chained(span)'
  BY <1>1, <1>5 DEF Chained
<1>10. /\ DOMAIN inserted' = DOMAIN inserted \cup {key}
       /\ \A k \in DOMAIN inserted : inserted'[k] = inserted[k]
       /\ inserted'[key] = val
  BY <1>1, <1>4, InsertedGrows
<1>11. \A k \in DOMAIN inserted \cup {key} : k \in Known' /\ ValueOf(k)' = ValueOf(k)
  BY <1>1, <1>4, <1>10 DEF Known, ValueOf
<1>12. Contents'
  <2>1. ASSUME NEW n \in Nodes, node'[n].is_leaf, NEW i \in DOMAIN node'[n].keys
        PROVE  /\ node'[n].keys[i] \in DOMAIN inserted \cup {key}
               /\ node'[n].values[i] = ValueOf(node'[n].keys[i])
    <3>1. CASE n = current
      BY <1>4, <1>5, <2>1, <3>1 DEF Recording
    <3>2. CASE n # current
      BY <1>1, <1>5, <2>1, <3>2 DEF Contents, Known
    <3> QED
      BY <3>1, <3>2
  <2>2. ASSUME NEW n \in Nodes, node'[n].is_leaf, NEW i \in DOMAIN node'[n].keys
        PROVE  (node[n].keys[i] \in Known /\ node[n].values[i] = ValueOf(node[n].keys[i]))'
    <3> PICK x : x = node'[n].keys[i]
      OBVIOUS
    <3>1. x \in Known' /\ ValueOf(x)' = ValueOf(x)
      BY <1>11, <2>1, <2>2
    <3> QED
      BY <2>1, <2>2, <3>1 DEF ValueOf
  <2> QED
    BY <1>1, <1>5, <2>2 DEF Contents
<1>13. Sound(span)'
  BY <1>6, <1>7, <1>8, <1>9, <1>12 DEF Sound
<1> QED
  BY <1>13

LEMMA SplitLeafSound ==
  ASSUME NEW h, NEW path, NEW span, Frame(h, path), Sound(span), SplitLeaf
  PROVE  \E s : Sound(s)'
<1> DEFINE N == NewNode
           S == span[current]
           sp == NewKeys[LeftCount + 1]
<1>1. /\ Types /\ node \in Seq(NodeRec) /\ pc = "descend" /\ pc' = "promote" /\ root' = root
      /\ inserted' = inserted /\ key' = key /\ val' = val /\ current' = current
      /\ AtLeaf /\ ~HasKey /\ Linked /\ Rooted /\ Children
      /\ Attached /\ Filled /\ Spans(span) /\ Chained(span) /\ Contents
  BY DEF Frame, Types, SplitLeaf, AtLeaf, Sound
<1>2. LeafSplit
  BY LeafSplitting
<1>3. /\ current \in Nodes /\ node[current].is_leaf
      /\ NewKeys \in Seq(Int) /\ NewValues \in Seq(Value)
      /\ N \notin Nodes /\ N \in Nat /\ NULL \notin Nodes /\ N # NULL
  BY <1>1, NewPairs, NodeFacts
<1>4. /\ Len(NewKeys) = ORDER /\ Len(NewValues) = ORDER
      /\ Len(node'[current].keys) = LeftCount /\ Len(node'[N].keys) = ORDER - LeftCount
  BY HalvesHold
<1>5. /\ key \notin DOMAIN inserted
      /\ Ascending(NewKeys) /\ ToSet(NewKeys) \subseteq S
      /\ Recording(NewKeys, NewValues)
  BY <1>1, NewPairsSound
<1>6. /\ Nodes' = Nodes \cup {N} /\ left' = current /\ right' = N
      /\ node'[N].is_leaf /\ node'[current].next = N
      /\ node'[N].next = node[current].next /\ sep' = sp
      /\ \A n \in Nodes :
           /\ node'[n].is_leaf = node[n].is_leaf /\ node'[n].children = node[n].children
           /\ node'[n].parent = node[n].parent
           /\ n # current => /\ node'[n].keys = node[n].keys
                             /\ node'[n].values = node[n].values
                             /\ node'[n].next = node[n].next
  BY <1>2 DEF LeafSplit
<1>7. /\ PartOf(node'[current].keys, NewKeys, 1, LeftCount)
      /\ PartOf(node'[current].values, NewValues, 1, LeftCount)
      /\ PartOf(node'[N].keys, NewKeys, LeftCount + 1, ORDER)
      /\ PartOf(node'[N].values, NewValues, LeftCount + 1, ORDER)
      /\ node'[current].keys = SubSeq(NewKeys, 1, LeftCount)
      /\ node'[N].keys = SubSeq(NewKeys, LeftCount + 1, ORDER)
  <2>1. /\ 1 \in 1 .. ORDER + 1 /\ LeftCount \in 1 - 1 .. ORDER
        /\ LeftCount + 1 \in 1 .. ORDER + 1 /\ ORDER \in (LeftCount + 1) - 1 .. ORDER
    BY OrderFacts
  <2>2. /\ PartOf(SubSeq(NewKeys, 1, LeftCount), NewKeys, 1, LeftCount)
        /\ PartOf(SubSeq(NewKeys, LeftCount + 1, ORDER), NewKeys, LeftCount + 1, ORDER)
    BY <1>3, <1>4, <2>1, SubSeqPart
  <2>3. /\ PartOf(SubSeq(NewValues, 1, LeftCount), NewValues, 1, LeftCount)
        /\ PartOf(SubSeq(NewValues, LeftCount + 1, ORDER), NewValues, LeftCount + 1, ORDER)
    BY <1>3, <1>4, <2>1, SubSeqPart
  <2> QED
    BY <1>2, <2>2, <2>3 DEF LeafSplit
<1>8. Ascending(node'[current].keys) /\ Ascending(node'[N].keys)
  <2>1. /\ 1 \in 1 .. ORDER + 1 /\ LeftCount \in 1 - 1 .. ORDER
        /\ LeftCount + 1 \in 1 .. ORDER + 1 /\ ORDER \in (LeftCount + 1) - 1 .. ORDER
    BY OrderFacts
  <2> QED
    BY <1>3, <1>4, <1>5, <1>7, <2>1, CutAscending
<1>9. /\ DOMAIN NewKeys = 1 .. ORDER
      /\ DOMAIN node'[current].keys = 1 .. LeftCount
      /\ \A j \in 1 .. LeftCount : node'[current].keys[j] = NewKeys[j]
      /\ \A j \in 1 .. LeftCount : node'[current].values[j] = NewValues[j]
      /\ DOMAIN node'[N].keys = 1 .. ORDER - LeftCount
      /\ \A j \in 1 .. ORDER - LeftCount : node'[N].keys[j] = NewKeys[LeftCount + j]
      /\ \A j \in 1 .. ORDER - LeftCount : node'[N].values[j] = NewValues[LeftCount + j]
      /\ \A j \in 1 .. LeftCount : j \in 1 .. ORDER /\ j < LeftCount + 1
      /\ \A j \in 1 .. ORDER - LeftCount : LeftCount + j \in 1 .. ORDER
      /\ LeftCount + 1 \in 1 .. ORDER
  <2>1. /\ DOMAIN NewKeys = 1 .. ORDER
        /\ DOMAIN node'[current].keys = 1 .. LeftCount
        /\ \A j \in 1 .. LeftCount : node'[current].keys[j] = NewKeys[j]
        /\ \A j \in 1 .. LeftCount : node'[current].values[j] = NewValues[j]
    BY <1>3, <1>4, <1>7, OrderFacts DEF PartOf
  <2>2. /\ DOMAIN node'[N].keys = 1 .. ORDER - LeftCount
        /\ \A j \in 1 .. ORDER - LeftCount : node'[N].keys[j] = NewKeys[LeftCount + j]
    BY <1>3, <1>4, <1>7, OrderFacts DEF PartOf
  <2>3. \A j \in 1 .. ORDER - LeftCount : node'[N].values[j] = NewValues[LeftCount + j]
    BY <1>3, <1>4, <1>7, OrderFacts DEF PartOf
  <2>4. /\ \A j \in 1 .. LeftCount : j \in 1 .. ORDER /\ j < LeftCount + 1
        /\ \A j \in 1 .. ORDER - LeftCount : LeftCount + j \in 1 .. ORDER
        /\ LeftCount + 1 \in 1 .. ORDER
    BY OrderFacts
  <2> QED
    BY <2>1, <2>2, <2>3, <2>4
<1>10. /\ sp \in Int /\ S \subseteq Int /\ \A j \in 1 .. ORDER : NewKeys[j] \in S
       /\ \A j \in 1 .. LeftCount : NewKeys[j] < sp
       /\ \A j \in 1 .. ORDER - LeftCount : NewKeys[LeftCount + j] >= sp
  <2>1. S \subseteq Int
    BY <1>1, <1>3 DEF Spans
  <2>2. \A j \in 1 .. ORDER : NewKeys[j] \in S /\ NewKeys[j] \in Int
    BY <1>3, <1>5, <1>9, <2>1 DEF ToSet
  <2>3. \A j \in 1 .. LeftCount : NewKeys[j] < sp
    BY <1>5, <1>9 DEF Ascending
  <2>4. ASSUME NEW j \in 1 .. ORDER - LeftCount PROVE NewKeys[LeftCount + j] >= sp
    <3>1. j = 1 \/ LeftCount + 1 < LeftCount + j
      BY OrderFacts
    <3>2. LeftCount + j \in 1 .. ORDER /\ LeftCount + 1 \in 1 .. ORDER
      BY <1>9
    <3>3. CASE j = 1
      BY <2>2, <3>2, <3>3
    <3>4. CASE LeftCount + 1 < LeftCount + j
      <4>1. sp < NewKeys[LeftCount + j]
        BY <1>5, <1>9, <3>2, <3>4 DEF Ascending
      <4> QED
        BY <2>2, <3>2, <4>1
    <3> QED
      BY <3>1, <3>3, <3>4
  <2> QED
    BY <1>9, <2>1, <2>2, <2>3, <2>4
<1> HIDE DEF N, S, sp
<1> PICK s : s = [n \in Nodes \cup {N} |-> IF n = N THEN {k \in S : k >= sp}
                                           ELSE IF n = current THEN {k \in S : k < sp}
                                           ELSE span[n]]
  OBVIOUS
<1>11. /\ s[N] = {k \in S : k >= sp} /\ s[current] = {k \in S : k < sp}
       /\ \A n \in Nodes : n # current => s[n] = span[n]
       /\ DOMAIN s = Nodes \cup {N}
  BY <1>3
<1>12. /\ s[N] \subseteq span[current] /\ \A n \in Nodes : s[n] \subseteq span[n]
       /\ s[N] \cup s[current] = span[current]
       /\ s \in [Nodes \cup {N} -> SUBSET Int]
  <2>1. \A n \in Nodes : span[n] \subseteq Int
    BY <1>1 DEF Spans
  <2>2. s[N] \cup s[current] = S /\ s[N] \subseteq S /\ s[current] \subseteq S
    BY <1>10, <1>11
  <2>3. \A n \in Nodes : s[n] \subseteq span[n]
    BY <1>11, <2>2 DEF S
  <2> QED
    BY <1>3, <1>11, <2>1, <2>2, <2>3 DEF S
<1>13. Attached'
  BY <1>1, <1>6 DEF Attached
<1>14. Filled'
  <2>1. /\ LeftCount \in 1 .. MAX_KEYS /\ ORDER - LeftCount \in 1 .. MAX_KEYS
        /\ LeftCount >= Least(TRUE) /\ ORDER - LeftCount >= Least(TRUE)
    BY OrderFacts DEF Least
  <2>2. node'[current].is_leaf = TRUE /\ node'[N].is_leaf = TRUE
    <3>1. node'[current].is_leaf \in BOOLEAN /\ node'[N].is_leaf \in BOOLEAN
      <4>1. /\ node' \in Seq(NodeRec) /\ current \in DOMAIN node' /\ N \in DOMAIN node'
        BY <1>2, <1>3, <1>6 DEF LeafSplit, Nodes
      <4>2. node'[current] \in NodeRec /\ node'[N] \in NodeRec
        BY <4>1
      <4> QED
        BY <4>2 DEF NodeRec
    <3> QED
      BY <1>3, <1>6, <3>1
  <2>3. ASSUME NEW n \in Nodes'
        PROVE  /\ Len(node'[n].keys) \in 1 .. MAX_KEYS
               /\ n # root \/ n = current => Len(node'[n].keys) >= Least(node'[n].is_leaf)
               /\ Ascending(node'[n].keys)
    <3>1. CASE n = current \/ n = N
      BY <1>4, <1>8, <2>1, <2>2, <3>1
    <3>2. CASE n # current /\ n # N
      BY <1>1, <1>6, <3>2 DEF Filled
    <3> QED
      BY <3>1, <3>2
  <2> QED
    BY <1>1, <1>6, <2>3 DEF Filled
<1>15. Spans(s)'
  <2>1. \A n \in Nodes : Share(s, n)' = span[n] /\ Share(span, n) = span[n]
    <3>1. ASSUME NEW n \in Nodes PROVE Share(s, n)' = span[n]
      <4>1. CASE n = current
        BY <1>1, <1>6, <1>12, <4>1 DEF Share
      <4>2. CASE n # current
        BY <1>6, <1>11, <4>2 DEF Share
      <4> QED
        BY <4>1, <4>2
    <3> QED
      BY <1>1, <3>1 DEF Share
  <2>2. ASSUME NEW n \in Nodes' PROVE ToSet(node'[n].keys) \subseteq s[n]
    <3>1. CASE n = current
      <4>1. \A j \in 1 .. LeftCount : node'[current].keys[j] \in {k \in S : k < sp}
        BY <1>9, <1>10
      <4>2. \A j \in DOMAIN node'[n].keys : node'[n].keys[j] \in s[n]
        BY <1>9, <1>11, <3>1, <4>1
      <4> QED
        BY ONLY <4>2 DEF ToSet
    <3>2. CASE n = N
      <4>1. \A j \in 1 .. ORDER - LeftCount : node'[N].keys[j] \in {k \in S : k >= sp}
        BY <1>9, <1>10
      <4>2. \A j \in DOMAIN node'[n].keys : node'[n].keys[j] \in s[n]
        BY <1>9, <1>11, <3>2, <4>1
      <4> QED
        BY ONLY <4>2 DEF ToSet
    <3>3. CASE n # current /\ n # N
      BY <1>1, <1>6, <1>11, <3>3 DEF Spans
    <3> QED
      BY <3>1, <3>2, <3>3
  <2>3. ASSUME NEW n \in Nodes', ~node'[n].is_leaf, NEW i \in DOMAIN node'[n].children
        PROVE  (Share(s, node[n].children[i]) = {k \in s[n] : ChildIndex(node[n].keys, k) = i})'
    <3>1. /\ n \in Nodes /\ ~node[n].is_leaf /\ n # current
          /\ node'[n].keys = node[n].keys /\ node'[n].children = node[n].children
      BY <1>3, <1>6, <2>3
    <3> PICK c : c = node[n].children[i]
      OBVIOUS
    <3>2. c \in Nodes
      BY <1>1, <2>3, <3>1 DEF Children
    <3>3. Share(span, c) = {k \in span[n] : ChildIndex(node[n].keys, k) = i}
      BY <1>1, <2>3, <3>1 DEF Spans
    <3>4. Share(s, c)' = {k \in s[n] : ChildIndex(node[n].keys, k) = i}
      BY <1>11, <2>1, <3>1, <3>2, <3>3
    <3> QED
      BY <3>1, <3>4
  <2>4. root \in Nodes /\ span[root] = Int
    BY <1>1, <2>1 DEF Spans, Rooted
  <2>5. s \in [Nodes' -> SUBSET Int] /\ Share(s, root)' = Int
    BY <1>1, <1>6, <1>12, <2>1, <2>4
  <2>6. /\ sep' \in s[right'] /\ \A k \in s[left'] : k < sep'
        /\ \A k \in s[right'] : k >= sep'
    <3>1. sp \in {k \in S : k >= sp}
      <4>1. sp \in S
        BY <1>9, <1>10 DEF sp
      <4> QED
        BY <1>10, <4>1
    <3> QED
      BY <1>6, <1>11, <3>1
  <2> QED
    BY <1>1, <1>6, <2>2, <2>3, <2>5, <2>6 DEF Spans
<1>16. Chained(s)'
  <2>1. ASSUME NEW n \in Nodes', node'[n].is_leaf, node'[n].next # NULL,
               NEW x \in s[n], NEW y \in s[node'[n].next]
        PROVE  x < y
    <3>1. CASE n = current
      <4>1. x < sp /\ y >= sp /\ x \in Int /\ y \in Int
        BY <1>6, <1>10, <1>11, <2>1, <3>1
      <4> QED
        BY <1>10, <4>1
    <3>2. CASE n # current
      <4>1. PICK m \in Nodes : /\ node[m].is_leaf /\ node'[n].next = node[m].next
                               /\ s[n] \subseteq span[m]
        BY <1>3, <1>6, <1>12, <2>1, <3>2
      <4>2. node[m].next \in Nodes
        BY <1>1, <2>1, <4>1 DEF Linked
      <4>3. y \in span[node[m].next]
        BY <1>12, <2>1, <4>1, <4>2
      <4> QED
        BY <1>1, <2>1, <4>1, <4>3 DEF Chained
    <3> QED
      BY <3>1, <3>2
  <2> QED
    BY <2>1 DEF Chained
<1>17. Contents'
  <2>1. ASSUME NEW n \in Nodes', node'[n].is_leaf, NEW i \in DOMAIN node'[n].keys
        PROVE  /\ node'[n].keys[i] \in DOMAIN inserted \cup {key}
               /\ node'[n].values[i] = ValueOf(node'[n].keys[i])
    <3>1. CASE n = current
      BY <1>5, <1>9, <2>1, <3>1 DEF Recording
    <3>2. CASE n = N
      <4>1. i \in 1 .. ORDER - LeftCount
        BY <1>9, <2>1, <3>2
      <4> QED
        BY <1>5, <1>9, <3>2, <4>1 DEF Recording
    <3>3. CASE n # current /\ n # N
      BY <1>1, <1>6, <2>1, <3>3 DEF Contents, Known
    <3> QED
      BY <3>1, <3>2, <3>3
  <2> QED
    BY <1>1, <1>5, <2>1 DEF Contents, Known, ValueOf
<1>18. Sound(s)'
  BY <1>13, <1>14, <1>15, <1>16, <1>17 DEF Sound
<1> QED
  BY <1>18

(***************************************************************************)
(* The leaves, when they are left alone and keep their keys.               *)
(***************************************************************************)
LEMMA LeavesSound ==
  ASSUME NEW span, NEW s, Sound(span), Linked, LeavesSame, pc = "promote",
         \A n \in Nodes : node[n].is_leaf => s[n] = span[n],
         \/ pc' = "promote" /\ UNCHANGED <<key, val, inserted>>
         \/ pc' = "idle" /\ inserted' = Recorded
  PROVE  Chained(s)' /\ Contents'
<1>1. ASSUME NEW n \in Nodes', node'[n].is_leaf
      PROVE  /\ n \in Nodes /\ node[n].is_leaf /\ node'[n].keys = node[n].keys
             /\ node'[n].values = node[n].values /\ node'[n].next = node[n].next
             /\ s[n] = span[n]
  BY <1>1 DEF LeavesSame
<1>2. Chained(s)'
  <2>1. ASSUME NEW n \in Nodes', node'[n].is_leaf, node'[n].next # NULL,
               NEW x \in s[n], NEW y \in s[node'[n].next]
        PROVE  x < y
    <3>1. node[n].next \in Nodes /\ node[node[n].next].is_leaf
      BY <1>1, <2>1 DEF Linked
    <3>2. x \in span[n] /\ y \in span[node[n].next]
      BY <1>1, <2>1, <3>1
    <3> QED
      BY <1>1, <2>1, <3>2 DEF Sound, Chained
  <2> QED
    BY <2>1 DEF Chained
<1>3. Contents /\ key \notin DOMAIN inserted /\ Known = DOMAIN inserted \cup {key}
  BY DEF Sound, Contents, Known
<1>4. ASSUME NEW k \in Known PROVE k \in Known' /\ ValueOf(k)' = ValueOf(k)
  <2>1. CASE pc' = "promote" /\ UNCHANGED <<key, val, inserted>>
    BY <1>3, <2>1 DEF Known, ValueOf
  <2>2. CASE pc' = "idle" /\ inserted' = Recorded
    BY <1>3, <2>2 DEF Known, ValueOf, Recorded
  <2> QED
    BY <2>1, <2>2
<1>5. ASSUME NEW n \in Nodes', node'[n].is_leaf, NEW i \in DOMAIN node'[n].keys
      PROVE  (node[n].keys[i] \in Known /\ node[n].values[i] = ValueOf(node[n].keys[i]))'
  <2> PICK x : x = node'[n].keys[i]
    OBVIOUS
  <2>1. x \in Known /\ node'[n].values[i] = ValueOf(x)
    BY <1>1, <1>3, <1>5 DEF Contents
  <2>2. x \in Known' /\ ValueOf(x)' = ValueOf(x)
    BY <1>4, <2>1
  <2> QED
    BY <2>1, <2>2 DEF ValueOf
<1>6. Contents'
  BY <1>3, <1>5 DEF Contents
<1> QED
  BY <1>2, <1>6

(***************************************************************************)
(* Neither half of a split is a child of a node other than its parent.     *)
(***************************************************************************)
LEMMA OtherChildren ==
  ASSUME NEW h, NEW path, NEW span, Frame(h, path), Sound(span), pc = "promote"
  PROVE  /\ \A n \in Nodes : ~node[n].is_leaf /\ n # parent =>
              \A i \in DOMAIN node[n].children :
                /\ node[n].children[i] \in Nodes
                /\ node[n].children[i] # left /\ node[n].children[i] # right
                /\ span[node[n].children[i]]
                     = {k \in span[n] : ChildIndex(node[n].keys, k) = i}
         /\ parent # NULL => root # left /\ span[root] = Int
         /\ root \in Nodes
<1>1. Children /\ Rooted /\ Spans(span)
  BY DEF Frame, Sound
<1>2. left \in Nodes /\ right \in Nodes /\ node[right].parent = parent
  BY PromoteFacts
<1>3. ASSUME NEW n \in Nodes, ~node[n].is_leaf, n # parent,
             NEW i \in DOMAIN node[n].children
      PROVE  /\ node[n].children[i] \in Nodes
             /\ node[n].children[i] # left /\ node[n].children[i] # right
             /\ span[node[n].children[i]]
                  = {k \in span[n] : ChildIndex(node[n].keys, k) = i}
  <2> PICK c : c = node[n].children[i]
    OBVIOUS
  <2>1. c \in Nodes /\ node[c].parent = n
    BY <1>1, <1>3 DEF Children
  <2>2. c # left /\ c # right
    BY <1>2, <1>3, <2>1 DEF parent
  <2>3. Share(span, c) = {k \in span[n] : ChildIndex(node[n].keys, k) = i}
    BY <1>1, <1>3 DEF Spans
  <2>4. Share(span, c) = span[c]
    BY <2>2 DEF Share
  <2> QED
    BY <2>1, <2>2, <2>3, <2>4
<1>4. root \in Nodes /\ root # NULL /\ node[root].parent = NULL
  BY <1>1 DEF Rooted
<1>5. ASSUME parent # NULL PROVE root # left /\ span[root] = Int
  <2>1. root # left
    BY <1>4, <1>5 DEF parent
  <2> QED
    BY <1>1, <1>4, <2>1 DEF Spans, Share
<1> QED
  BY <1>3, <1>4, <1>5

LEMMA NewRootSound ==
  ASSUME NEW h, NEW path, NEW span, Frame(h, path), Sound(span), NewRoot
  PROVE  \E s : Sound(s)'
<1> DEFINE N == NewNode
<1>1. /\ node \in Seq(NodeRec) /\ pc = "promote" /\ pc' = "idle" /\ root' = N
      /\ inserted' = Recorded /\ parent = NULL /\ Linked /\ Rooted /\ Children
      /\ Attached /\ Filled /\ Spans(span)
  BY DEF Frame, Types, NewRoot, Return, Sound
<1>2. RootAdded
  BY RootAdding
<1>3. /\ left \in Nodes /\ right \in Nodes /\ left # right /\ left = root /\ right # root
      /\ N \notin Nodes /\ N \in Nat /\ NULL \notin Nodes /\ N # NULL
      /\ sep \in Int
  BY <1>1, PromoteFacts, NodeFacts
<1>4. /\ Nodes' = Nodes \cup {N}
      /\ \A n \in Nodes :
           /\ node'[n].is_leaf = node[n].is_leaf /\ node'[n].keys = node[n].keys
           /\ node'[n].values = node[n].values /\ node'[n].children = node[n].children
           /\ node'[n].next = node[n].next
           /\ node'[n].parent = IF n = left \/ n = right THEN N ELSE node[n].parent
      /\ ~node'[N].is_leaf /\ node'[N].keys = <<sep>>
      /\ node'[N].children = <<left, right>> /\ node'[N].parent = NULL
  BY <1>2 DEF RootAdded
<1>5. /\ Len(node'[N].keys) = 1 /\ ToSet(node'[N].keys) = {sep}
      /\ DOMAIN node'[N].keys = {1} /\ node'[N].keys[1] = sep
      /\ DOMAIN node'[N].children = {1, 2}
      /\ node'[N].children[1] = left /\ node'[N].children[2] = right
      /\ ToSet(node'[N].children) = {left, right}
  BY <1>4 DEF ToSet
<1> HIDE DEF N
<1>6. /\ \A n \in Nodes : ~node[n].is_leaf =>
           \A i \in DOMAIN node[n].children :
             /\ node[n].children[i] \in Nodes
             /\ node[n].children[i] # left /\ node[n].children[i] # right
             /\ span[node[n].children[i]]
                  = {k \in span[n] : ChildIndex(node[n].keys, k) = i}
  BY <1>1, <1>3, OtherChildren
<1> PICK s : s = [n \in Nodes \cup {N} |-> IF n = N THEN Int ELSE span[n]]
  OBVIOUS
<1>7. s[N] = Int /\ \A n \in Nodes : s[n] = span[n]
  BY <1>3
<1>8. s \in [Nodes' -> SUBSET Int]
  BY <1>1, <1>4 DEF Spans
<1>9. Attached'
  <2>1. ASSUME NEW n \in Nodes, n # left, n # right
        PROVE  node'[n].parent \in Nodes' /\ n \in ToSet(node'[node'[n].parent].children)
    <3>1. node[n].parent \in Nodes /\ n \in ToSet(node[node[n].parent].children)
      BY <1>1, <1>3, <2>1 DEF Attached
    <3>2. node'[n].parent = node[n].parent
      BY <1>4, <2>1
    <3> QED
      BY <1>4, <3>1, <3>2
  <2>2. /\ node'[left].parent = N /\ node'[right].parent = N /\ N \in Nodes'
        /\ left \in ToSet(node'[N].children) /\ right \in ToSet(node'[N].children)
    BY <1>3, <1>4, <1>5
  <2> QED
    BY <1>1, <1>4, <2>1, <2>2 DEF Attached
<1>10. Filled'
  <2>1. 1 \in 1 .. MAX_KEYS /\ Ascending(node'[N].keys)
    BY <1>5, OrderFacts DEF Ascending
  <2>2. ASSUME NEW n \in Nodes
        PROVE  /\ Len(node'[n].keys) \in 1 .. MAX_KEYS
               /\ Len(node'[n].keys) >= Least(node'[n].is_leaf)
               /\ Ascending(node'[n].keys)
    BY <1>1, <1>3, <1>4 DEF Filled
  <2> QED
    BY <1>1, <1>4, <1>5, <2>1, <2>2 DEF Filled
<1>11. Spans(s)'
  <2>1. \A n : Share(s, n)' = s[n]
    BY <1>1 DEF Share
  <2>2. ASSUME NEW n \in Nodes' PROVE ToSet(node'[n].keys) \subseteq s[n]
    <3>1. CASE n = N
      BY <1>3, <1>5, <1>7, <3>1
    <3>2. CASE n # N
      <4>1. n \in Nodes /\ ToSet(node[n].keys) \subseteq span[n]
        BY <1>1, <1>4, <3>2 DEF Spans
      <4> QED
        BY <1>4, <1>7, <4>1
    <3> QED
      BY <3>1, <3>2
  <2>3. /\ span[left] \cup span[right] = Int
        /\ \A k \in span[left] : k < sep
        /\ \A k \in span[right] : k >= sep
    BY <1>1, <1>3 DEF Spans, Share, Rooted
  <2>4. ASSUME NEW k \in Int
        PROVE  ChildIndex(node'[N].keys, k) = IF k < sep THEN 1 ELSE 2
    <3>1. node'[N].keys \in Seq(Int)
      BY <1>3, <1>4
    <3>2. CASE k < sep
      <4>1. Belongs(node'[N].keys, k, 1)
        BY <1>5, <3>2 DEF Belongs
      <4> QED
        BY <3>1, <3>2, <4>1, ChildFacts
    <3>3. CASE k >= sep
      <4>1. Belongs(node'[N].keys, k, 2)
        BY <1>3, <1>5, <3>3 DEF Belongs
      <4> QED
        BY <1>3, <3>1, <3>3, <4>1, ChildFacts
    <3> QED
      BY <1>3, <3>2, <3>3
  <2>5. /\ span[left] = {k \in Int : ChildIndex(node'[N].keys, k) = 1}
        /\ span[right] = {k \in Int : ChildIndex(node'[N].keys, k) = 2}
    <3>1. \A k \in Int : (k < sep <=> k \in span[left]) /\ (k < sep <=> k \notin span[right])
      BY <1>3, <2>3
    <3>2. span[left] \subseteq Int /\ span[right] \subseteq Int
      BY <2>3
    <3> QED
      BY <2>4, <3>1, <3>2
  <2>6. ASSUME NEW n \in Nodes', ~node'[n].is_leaf, NEW i \in DOMAIN node'[n].children
        PROVE  s[node'[n].children[i]]
                 = {k \in s[n] : ChildIndex(node'[n].keys, k) = i}
    <3>1. CASE n = N
      <4>1. s[left] = span[left] /\ s[right] = span[right]
        BY <1>3, <1>7
      <4> QED
        BY <1>5, <1>7, <2>5, <2>6, <3>1, <4>1
    <3>2. CASE n # N
      <4>1. /\ n \in Nodes /\ ~node[n].is_leaf /\ node'[n].keys = node[n].keys
            /\ node'[n].children = node[n].children
        BY <1>4, <2>6, <3>2
      <4> PICK c : c = node[n].children[i]
        OBVIOUS
      <4>2. c \in Nodes /\ span[c] = {k \in span[n] : ChildIndex(node[n].keys, k) = i}
        BY <1>6, <2>6, <4>1
      <4> QED
        BY <1>7, <4>1, <4>2
    <3> QED
      BY <3>1, <3>2
  <2>7. ASSUME NEW n \in Nodes', ~node'[n].is_leaf, NEW i \in DOMAIN node'[n].children
        PROVE  (Share(s, node[n].children[i]) = {k \in s[n] : ChildIndex(node[n].keys, k) = i})'
    BY <1>1, <2>6, <2>7 DEF Share
  <2>8. Share(s, root)' = Int
    BY <1>1, <1>7, <2>1
  <2> QED
    BY <1>1, <1>8, <2>2, <2>7, <2>8 DEF Spans
<1>12. LeavesSame
  BY <1>4 DEF LeavesSame
<1>13. Chained(s)' /\ Contents'
  BY <1>1, <1>7, <1>12, LeavesSound
<1>14. Sound(s)'
  BY <1>9, <1>10, <1>11, <1>13 DEF Sound
<1> QED
  BY <1>14

(***************************************************************************)
(* The new separator divides the keys of the child that was split between  *)
(* its two halves.                                                         *)
(***************************************************************************)
LEMMA ParentShares ==
  ASSUME NEW h, NEW path, NEW span, Frame(h, path), Sound(span), pc = "promote",
         parent # NULL
  PROVE  /\ Ascending(ParentKeys) /\ ToSet(ParentKeys) \subseteq span[parent]
         /\ \A i \in 1 .. Len(ParentChildren) :
              span[ParentChildren[i]]
                = {k \in span[parent] : ChildIndex(ParentKeys, k) = i}
         /\ \A n \in ToSet(node[parent].children) : n \in ToSet(ParentChildren)
         /\ right \in ToSet(ParentChildren)
<1> PICK p : p = parent
  OBVIOUS
<1> PICK q : q = ChildPosition
  OBVIOUS
<1> PICK S : S = span[p]
  OBVIOUS
<1> DEFINE C == node[p].children
           K == node[p].keys
           D == ParentChildren
           L == ParentKeys
<1>1. /\ node \in Seq(NodeRec) /\ Children /\ Filled /\ Spans(span)
  BY DEF Frame, Types, Sound
<1>2. /\ p \in Nodes /\ ~node[p].is_leaf /\ left \in Nodes /\ right \in Nodes
      /\ sep \in Int /\ left # right
  BY PromoteFacts
<1>3. /\ K \in Seq(Int) /\ C \in Seq(Nat) /\ Len(C) = Len(K) + 1 /\ Len(K) \in Nat
      /\ q \in 1 .. Len(K) + 1 /\ C[q] = left /\ L = InsertAt(K, q, sep)
      /\ L \in Seq(Int) /\ D \in Seq(Nat) /\ Len(D) = Len(K) + 2
      /\ \A j \in 1 .. q : D[j] = C[j]
      /\ D[q + 1] = right
      /\ \A j \in q + 2 .. Len(K) + 2 : D[j] = C[j - 1]
  BY ParentPairs
<1>4. /\ DOMAIN C = 1 .. Len(K) + 1 /\ DOMAIN D = 1 .. Len(K) + 2
      /\ DOMAIN K = 1 .. Len(K)
      /\ q \in Int /\ q >= 1 /\ q <= Len(K) + 1 /\ Len(K) \in Nat
  <2>1. K \in Seq(Int) /\ C \in Seq(Nat) /\ D \in Seq(Nat)
    BY <1>3
  <2>2. Len(C) = Len(K) + 1 /\ Len(D) = Len(K) + 2 /\ Len(K) \in Nat
        /\ q \in 1 .. Len(K) + 1
    BY <1>3
  <2> HIDE DEF K, C, D
  <2>3. DOMAIN C = 1 .. Len(C) /\ DOMAIN D = 1 .. Len(D) /\ DOMAIN K = 1 .. Len(K)
    BY <2>1
  <2> QED
    BY <2>2, <2>3
<1>5. /\ S \subseteq Int /\ ToSet(K) \subseteq S
      /\ \A n \in Nodes : span[n] \subseteq Int
  BY <1>1, <1>2 DEF Spans
<1>6. Ascending(K)
  BY <1>1, <1>2 DEF Filled
<1>7. ASSUME NEW j \in 1 .. Len(K) + 1
      PROVE  Share(span, C[j]) = {k \in S : ChildIndex(K, k) = j}
  <2>1. j \in DOMAIN node[p].children
    BY <1>4
  <2>2. \A i \in DOMAIN node[p].children :
          Share(span, node[p].children[i])
            = {k \in span[p] : ChildIndex(node[p].keys, k) = i}
    BY <1>1, <1>2 DEF Spans
  <2> QED
    BY <2>1, <2>2
<1>8. ASSUME NEW j \in 1 .. Len(K) + 1, j # q PROVE C[j] # left
  <2>1. \A i, m \in DOMAIN C : C[i] = C[m] => i = m
    BY <1>1, <1>2 DEF Children
  <2>2. j \in DOMAIN C /\ q \in DOMAIN C /\ C[q] = left
    BY <1>3, <1>4
  <2> QED
    BY <1>8, <2>1, <2>2
<1>9. /\ sep \in span[right]
      /\ \A k \in span[left] : k < sep
      /\ \A k \in span[right] : k >= sep
  BY <1>1 DEF Spans
<1>10. PICK x \in span[left] : x \in Int
  <2>1. /\ node[left].keys \in Seq(Int) /\ Len(node[left].keys) >= 1
    BY <1>1, <1>2, NodeFacts DEF Filled
  <2>2. node[left].keys[1] \in ToSet(node[left].keys)
    BY <2>1 DEF ToSet
  <2> QED
    BY <1>1, <1>2, <1>5, <2>2 DEF Spans
<1> HIDE DEF C, K, D, L
<1>11. span[left] \cup span[right] = {k \in S : ChildIndex(K, k) = q}
  BY <1>3, <1>7 DEF Share
<1>12. ASSUME NEW j \in 1 .. Len(K) + 1, j # q
       PROVE  span[C[j]] = {k \in S : ChildIndex(K, k) = j}
  BY <1>7, <1>8, <1>12 DEF Share
<1>13. /\ \A k \in span[left] \cup span[right] :
            k \in S /\ k \in Int /\ ChildIndex(K, k) = q
  BY <1>5, <1>11
<1>14. ASSUME NEW k \in Int
       PROVE  /\ ChildIndex(K, k) \in 1 .. Len(K) + 1
              /\ \A j \in 1 .. ChildIndex(K, k) - 1 : K[j] <= k
              /\ ChildIndex(K, k) <= Len(K) => k < K[ChildIndex(K, k)]
  BY <1>3, ChildFacts DEF Belongs
<1>15. /\ \A j \in 1 .. q - 1 : K[j] <= sep
       /\ q <= Len(K) => sep < K[q]
       /\ sep \in S
  BY <1>9, <1>13, <1>14
<1>16. ASSUME NEW j \in 1 .. q - 1 PROVE K[j] < sep
  <2>1. K[j] <= x /\ x < sep
    BY <1>9, <1>10, <1>13, <1>14
  <2>2. K[j] \in Int
    BY <1>3
  <2> QED
    BY <1>2, <1>10, <2>1, <2>2
<1>17. Ascending(L)
  BY <1>2, <1>3, <1>6, <1>15, <1>16, InsertAscending
<1>18. ToSet(L) \subseteq S
  BY <1>2, <1>3, <1>5, <1>15, InsertSet
<1>19. ASSUME NEW k \in S
       PROVE  /\ ChildIndex(K, k) \in Int /\ k \in Int
              /\ ChildIndex(L, k) = IF ChildIndex(K, k) < q \/ (ChildIndex(K, k) = q /\ k < sep)
                                    THEN ChildIndex(K, k) ELSE ChildIndex(K, k) + 1
  <2>1. k \in Int
    BY <1>5
  <2>2. ChildIndex(K, k) \in Int
    BY <1>14, <2>1
  <2>3. K \in Seq(Int) /\ q \in 1 .. Len(K) + 1 /\ L = InsertAt(K, q, sep)
    BY <1>3
  <2>4. ChildIndex(InsertAt(K, q, sep), k)
          = IF ChildIndex(K, k) < q \/ (ChildIndex(K, k) = q /\ k < sep)
            THEN ChildIndex(K, k) ELSE ChildIndex(K, k) + 1
    BY <1>2, <1>15, <2>1, <2>3, RouteInserted
  <2> QED
    BY <2>1, <2>2, <2>3, <2>4
<1>20. ASSUME NEW i \in 1 .. Len(K) + 2
       PROVE  span[D[i]] = {k \in S : ChildIndex(L, k) = i}
  <2>1. CASE i < q
    <3>1. i \in 1 .. q /\ i \in 1 .. Len(K) + 1 /\ i # q
      BY <1>4, <2>1
    <3>2. span[D[i]] = {k \in S : ChildIndex(K, k) = i}
      BY <1>3, <1>12, <3>1
    <3>3. \A k \in S : ChildIndex(K, k) = i <=> ChildIndex(L, k) = i
      BY <1>4, <1>19, <2>1
    <3> QED
      BY <3>2, <3>3
  <2>2. CASE i = q
    <3>1. D[i] = left
      BY <1>3, <2>2
    <3>2. \A k \in S : k \in span[left] <=> ChildIndex(K, k) = q /\ k < sep
      BY <1>2, <1>9, <1>11, <1>19
    <3>3. \A k \in S : ChildIndex(L, k) = q <=> ChildIndex(K, k) = q /\ k < sep
      BY <1>4, <1>19
    <3>4. span[left] \subseteq S
      BY <1>13
    <3> QED
      BY <2>2, <3>1, <3>2, <3>3, <3>4
  <2>3. CASE i = q + 1
    <3>1. D[i] = right
      BY <1>3, <2>3
    <3>2. \A k \in S : k \in span[right] <=> ChildIndex(K, k) = q /\ ~(k < sep)
      BY <1>2, <1>9, <1>11, <1>19
    <3>3. \A k \in S : ChildIndex(L, k) = q + 1 <=> ChildIndex(K, k) = q /\ ~(k < sep)
      BY <1>4, <1>19
    <3>4. span[right] \subseteq S
      BY <1>13
    <3> QED
      BY <2>3, <3>1, <3>2, <3>3, <3>4
  <2>4. CASE i > q + 1
    <3>1. i \in q + 2 .. Len(K) + 2 /\ i - 1 \in 1 .. Len(K) + 1 /\ i - 1 # q
      BY <1>4, <2>4
    <3>2. span[D[i]] = {k \in S : ChildIndex(K, k) = i - 1}
      BY <1>3, <1>12, <3>1
    <3>3. ASSUME NEW k \in S PROVE ChildIndex(K, k) = i - 1 <=> ChildIndex(L, k) = i
      <4>1. i \in Int /\ i > q + 1 /\ q \in Int
        BY <1>4, <2>4
      <4> QED
        BY <1>19, <4>1
    <3> QED
      BY <3>2, <3>3
  <2> QED
    BY <1>4, <2>1, <2>2, <2>3, <2>4
<1>21. ASSUME NEW j \in 1 .. Len(K) + 1 PROVE C[j] \in ToSet(D)
  <2>1. CASE j <= q
    <3>1. j \in 1 .. q /\ j \in DOMAIN D
      BY <1>4, <2>1
    <3> QED
      BY <1>3, <3>1 DEF ToSet
  <2>2. CASE j > q
    <3>1. j + 1 \in q + 2 .. Len(K) + 2 /\ j + 1 \in DOMAIN D /\ (j + 1) - 1 = j
      BY <1>4, <2>2
    <3> QED
      BY <1>3, <3>1 DEF ToSet
  <2> QED
    BY <1>4, <2>1, <2>2
<1>22. right \in ToSet(D)
  <2>1. q + 1 \in DOMAIN D
    BY <1>4
  <2> QED
    BY <1>3, <2>1 DEF ToSet
<1>23. \A n \in ToSet(C) : n \in ToSet(D)
  BY <1>4, <1>21 DEF ToSet
<1>24. \A i \in 1 .. Len(D) : span[D[i]] = {k \in S : ChildIndex(L, k) = i}
  BY <1>3, <1>20
<1> QED
  BY <1>17, <1>18, <1>22, <1>23, <1>24 DEF C, D, L

LEMMA InsertIntoInternalSound ==
  ASSUME NEW h, NEW path, NEW span, Frame(h, path), Sound(span), InsertIntoInternal
  PROVE  \E s : Sound(s)'
<1> PICK p : p = parent
  OBVIOUS
<1>1. /\ node \in Seq(NodeRec) /\ pc = "promote" /\ pc' = "idle" /\ root' = root
      /\ inserted' = Recorded /\ parent # NULL /\ Linked /\ Children
      /\ Len(node[p].keys) < MAX_KEYS
      /\ Attached /\ Filled /\ Spans(span)
  BY DEF Frame, Types, InsertIntoInternal, Return, Sound
<1>2. ParentFilled
  BY ParentFilling
<1>3. /\ p \in Nodes /\ ~node[p].is_leaf /\ left \in Nodes /\ right \in Nodes
      /\ right # root /\ node[right].parent = p
  BY <1>1, PromoteFacts
<1>4. /\ Nodes' = Nodes
      /\ \A n \in Nodes :
           /\ node'[n].is_leaf = node[n].is_leaf /\ node'[n].values = node[n].values
           /\ node'[n].next = node[n].next /\ node'[n].parent = node[n].parent
           /\ n # p => /\ node'[n].keys = node[n].keys
                       /\ node'[n].children = node[n].children
      /\ node'[p].keys = ParentKeys /\ node'[p].children = ParentChildren
  BY <1>2 DEF ParentFilled
<1>5. /\ Ascending(ParentKeys) /\ ToSet(ParentKeys) \subseteq span[p]
      /\ \A i \in 1 .. Len(ParentChildren) :
           span[ParentChildren[i]] = {k \in span[p] : ChildIndex(ParentKeys, k) = i}
      /\ \A n \in ToSet(node[p].children) : n \in ToSet(ParentChildren)
      /\ right \in ToSet(ParentChildren)
  BY <1>1, ParentShares
<1>6. /\ ParentChildren \in Seq(Nat) /\ Len(ParentKeys) = Len(node[p].keys) + 1
      /\ Len(node[p].keys) \in Nat
  BY <1>1, ParentPairs
<1>7. /\ \A n \in Nodes : ~node[n].is_leaf /\ n # p =>
           \A i \in DOMAIN node[n].children :
             span[node[n].children[i]] = {k \in span[n] : ChildIndex(node[n].keys, k) = i}
      /\ span[root] = Int /\ root # left
  BY <1>1, OtherChildren
<1>8. Attached'
  <2>1. ASSUME NEW n \in Nodes, n # root
        PROVE  node'[n].parent \in Nodes /\ n \in ToSet(node'[node'[n].parent].children)
    <3>1. CASE n = right
      BY <1>3, <1>4, <1>5, <3>1
    <3>2. CASE n # right
      <4>1. node[n].parent \in Nodes /\ n \in ToSet(node[node[n].parent].children)
        BY <1>1, <2>1, <3>2 DEF Attached
      <4>2. node'[n].parent = node[n].parent
        BY <1>4
      <4>3. CASE node[n].parent = p
        BY <1>4, <1>5, <4>1, <4>2, <4>3
      <4>4. CASE node[n].parent # p
        BY <1>4, <4>1, <4>2, <4>4
      <4> QED
        BY <4>3, <4>4
    <3> QED
      BY <3>1, <3>2
  <2> QED
    BY <1>1, <1>4, <2>1 DEF Attached
<1>9. Filled'
  <2>1. Len(ParentKeys) \in 1 .. MAX_KEYS /\ Len(ParentKeys) >= Len(node[p].keys)
    <3>1. MAX_KEYS \in Int
      BY OrderFacts
    <3>2. Len(node[p].keys) < MAX_KEYS
      BY <1>1
    <3> QED
      BY <1>6, <3>1, <3>2
  <2>2. p # root => Len(ParentKeys) >= Least(node[p].is_leaf)
    <3>1. Least(node[p].is_leaf) \in Int
      BY <1>3, OrderFacts DEF Least
    <3>2. p # root => Len(node[p].keys) >= Least(node[p].is_leaf)
      BY <1>1, <1>3 DEF Filled
    <3> QED
      BY <1>6, <2>1, <3>1, <3>2
  <2>3. ASSUME NEW n \in Nodes
        PROVE  /\ Len(node'[n].keys) \in 1 .. MAX_KEYS
               /\ n # root => Len(node'[n].keys) >= Least(node'[n].is_leaf)
               /\ Ascending(node'[n].keys)
    <3>1. CASE n = p
      BY <1>4, <1>5, <2>1, <2>2, <3>1
    <3>2. CASE n # p
      BY <1>1, <1>4, <3>2 DEF Filled
    <3> QED
      BY <3>1, <3>2
  <2> QED
    BY <1>1, <1>4, <2>3 DEF Filled
<1>10. Spans(span)'
  <2>1. \A n : Share(span, n)' = span[n]
    BY <1>1 DEF Share
  <2>2. ASSUME NEW n \in Nodes' PROVE ToSet(node'[n].keys) \subseteq span[n]
    <3>1. CASE n = p
      BY <1>4, <1>5, <3>1
    <3>2. CASE n # p
      BY <1>1, <1>4, <3>2 DEF Spans
    <3> QED
      BY <3>1, <3>2
  <2>3. ASSUME NEW n \in Nodes', ~node'[n].is_leaf, NEW i \in DOMAIN node'[n].children
        PROVE  span[node'[n].children[i]]
                 = {k \in span[n] : ChildIndex(node'[n].keys, k) = i}
    <3>1. CASE n = p
      <4>1. i \in 1 .. Len(ParentChildren)
        BY <1>4, <1>6, <2>3, <3>1
      <4> QED
        BY <1>4, <1>5, <3>1, <4>1
    <3>2. CASE n # p
      BY <1>4, <1>7, <2>3, <3>2
    <3> QED
      BY <3>1, <3>2
  <2>4. ASSUME NEW n \in Nodes', ~node'[n].is_leaf, NEW i \in DOMAIN node'[n].children
        PROVE  (Share(span, node[n].children[i])
                  = {k \in span[n] : ChildIndex(node[n].keys, k) = i})'
    BY <1>1, <2>3, <2>4 DEF Share
  <2>5. Share(span, root)' = Int /\ span \in [Nodes' -> SUBSET Int]
    BY <1>1, <1>4, <1>7, <2>1 DEF Spans
  <2> QED
    BY <1>1, <2>2, <2>4, <2>5 DEF Spans
<1>11. LeavesSame
  BY <1>3, <1>4 DEF LeavesSame
<1>12. Chained(span)' /\ Contents'
  BY <1>1, <1>11, LeavesSound
<1>13. Sound(span)'
  BY <1>8, <1>9, <1>10, <1>12 DEF Sound
<1> QED
  BY <1>13

LEMMA SplitInternalSound ==
  ASSUME NEW h, NEW path, NEW span, Frame(h, path), Sound(span), SplitInternal
  PROVE  \E s : Sound(s)'
<1> PICK p : p = parent
  OBVIOUS
<1> PICK S : S = span[p]
  OBVIOUS
<1> PICK sp : sp = ParentKeys[LeftCount + 1]
  OBVIOUS
<1> DEFINE N == NewNode
           RC == RightChildren
           LC == LeftChildren
<1>1. /\ node \in Seq(NodeRec) /\ pc = "promote" /\ pc' = "promote" /\ root' = root
      /\ UNCHANGED <<key, val, inserted>> /\ parent # NULL /\ Linked /\ Children
      /\ Attached /\ Filled /\ Spans(span) /\ Rooted
  BY DEF Frame, Types, SplitInternal, Sound
<1>2. ParentSplit
  BY ParentSplitting
<1>3. /\ p \in Nodes /\ ~node[p].is_leaf /\ left \in Nodes /\ right \in Nodes
      /\ right # root /\ node[right].parent = p
      /\ N \notin Nodes /\ N \in Nat /\ NULL \notin Nodes /\ N # NULL
  BY <1>1, PromoteFacts, NodeFacts
<1>4. /\ Nodes' = Nodes \cup {N} /\ left' = p /\ right' = N /\ sep' = sp
      /\ ~node'[N].is_leaf /\ node'[N].children = RC
      /\ node'[N].parent = node[p].parent
      /\ node'[p].children = LC
      /\ \A n \in Nodes :
           /\ node'[n].is_leaf = node[n].is_leaf /\ node'[n].values = node[n].values
           /\ node'[n].next = node[n].next
           /\ node'[n].parent = IF n \in ToSet(RC) THEN N ELSE node[n].parent
           /\ n # p => /\ node'[n].keys = node[n].keys
                       /\ node'[n].children = node[n].children
      /\ node'[p].keys = SubSeq(ParentKeys, 1, LeftCount)
      /\ node'[N].keys = SubSeq(ParentKeys, LeftCount + 2, ORDER)
  BY <1>2 DEF ParentSplit
<1>5. /\ ParentKeys \in Seq(Int) /\ Len(ParentKeys) = ORDER
      /\ Len(ParentChildren) = ORDER + 1
      /\ PartOf(LC, ParentChildren, 1, LeftCount + 1)
      /\ PartOf(RC, ParentChildren, LeftCount + 2, ORDER + 1)
      /\ \A m \in ToSet(RC) : m \in Nodes /\ node[m].parent = p /\ m # p
      /\ \A m \in ToSet(LC) : m \in Nodes /\ node[m].parent = p /\ m # p /\ m \notin ToSet(RC)
  BY ChildrenDivided
<1>6. /\ Ascending(ParentKeys) /\ ToSet(ParentKeys) \subseteq S
      /\ \A i \in 1 .. ORDER + 1 :
           span[ParentChildren[i]] = {k \in S : ChildIndex(ParentKeys, k) = i}
      /\ \A n \in ToSet(node[p].children) : n \in ToSet(ParentChildren)
      /\ right \in ToSet(ParentChildren)
  BY <1>1, <1>5, ParentShares
<1>7. /\ \A n \in Nodes : ~node[n].is_leaf /\ n # p =>
           \A i \in DOMAIN node[n].children :
             /\ node[n].children[i] \in Nodes
             /\ span[node[n].children[i]] = {k \in span[n] : ChildIndex(node[n].keys, k) = i}
      /\ span[root] = Int /\ root # left /\ root \in Nodes
  BY <1>1, OtherChildren
<1>8. ParentChildren \in Seq(Nat)
  BY <1>1, ParentPairs
<1>len. ParentKeys \in Seq(Int) /\ Len(ParentKeys) = ORDER
  BY <1>5
<1>cut. /\ node'[p].keys = SubSeq(ParentKeys, 1, LeftCount)
       /\ node'[N].keys = SubSeq(ParentKeys, LeftCount + 2, ORDER)
  BY <1>4
<1>asc. Ascending(ParentKeys)
  BY <1>6
<1> HIDE DEF N, LC, RC
<1>9. /\ DOMAIN LC = 1 .. LeftCount + 1
      /\ \A j \in 1 .. LeftCount + 1 : LC[j] = ParentChildren[j]
  BY <1>5, OrderFacts DEF PartOf
<1>10. /\ DOMAIN RC = 1 .. ORDER - LeftCount
       /\ \A j \in 1 .. ORDER - LeftCount : RC[j] = ParentChildren[LeftCount + 1 + j]
  BY <1>5, OrderFacts DEF PartOf
<1>11. /\ DOMAIN ParentKeys = 1 .. ORDER /\ LeftCount + 1 \in 1 .. ORDER
       /\ \A j \in 1 .. LeftCount : j \in 1 .. ORDER /\ j < LeftCount + 1
       /\ \A j \in 1 .. ORDER - LeftCount - 1 :
            LeftCount + 1 + j \in 1 .. ORDER /\ LeftCount + 1 < LeftCount + 1 + j
       /\ \A j \in 1 .. LeftCount + 1 : j \in 1 .. ORDER + 1
       /\ \A j \in 1 .. ORDER - LeftCount : LeftCount + 1 + j \in 1 .. ORDER + 1
  BY <1>5, OrderFacts
<1>12. /\ S \subseteq Int /\ \A j \in 1 .. ORDER : ParentKeys[j] \in S
       /\ sp \in S /\ sp \in Int
  <2>1. S \subseteq Int
    BY <1>1, <1>3 DEF Spans
  <2>2. \A j \in 1 .. ORDER : ParentKeys[j] \in S
    BY <1>6, <1>11 DEF ToSet
  <2> QED
    BY <1>11, <2>1, <2>2
<1>13. /\ Len(node'[p].keys) = LeftCount /\ DOMAIN node'[p].keys = 1 .. LeftCount
       /\ \A j \in 1 .. LeftCount : node'[p].keys[j] = ParentKeys[j]
       /\ Ascending(node'[p].keys)
  <2>1. 1 \in 1 .. Len(ParentKeys) + 1 /\ LeftCount \in 1 - 1 .. Len(ParentKeys)
    BY <1>len, OrderFacts
  <2>2. PartOf(node'[p].keys, ParentKeys, 1, LeftCount)
    BY <1>len, <1>cut, <2>1, SubSeqPart
  <2>3. Ascending(node'[p].keys)
    BY <1>asc, <1>len, <1>cut, <2>1, CutAscending
  <2> QED
    BY <2>2, <2>3, OrderFacts DEF PartOf
<1>14. /\ Len(node'[N].keys) = ORDER - LeftCount - 1
       /\ DOMAIN node'[N].keys = 1 .. ORDER - LeftCount - 1
       /\ \A j \in 1 .. ORDER - LeftCount - 1 : node'[N].keys[j] = ParentKeys[LeftCount + 1 + j]
       /\ Ascending(node'[N].keys)
  <2>1. LeftCount + 2 \in 1 .. Len(ParentKeys) + 1
        /\ ORDER \in (LeftCount + 2) - 1 .. Len(ParentKeys)
    BY <1>len, OrderFacts
  <2>2. PartOf(node'[N].keys, ParentKeys, LeftCount + 2, ORDER)
    BY <1>len, <1>cut, <2>1, SubSeqPart
  <2>3. Ascending(node'[N].keys)
    BY <1>asc, <1>len, <1>cut, <2>1, CutAscending
  <2>4. /\ Len(node'[N].keys) = ORDER - LeftCount - 1
        /\ DOMAIN node'[N].keys = 1 .. ORDER - LeftCount - 1
    BY <2>2, OrderFacts DEF PartOf
  <2>5. \A j \in 1 .. ORDER - LeftCount - 1 : node'[N].keys[j] = ParentKeys[LeftCount + 1 + j]
    BY <2>2, OrderFacts DEF PartOf
  <2> QED
    BY <2>3, <2>4, <2>5
<1>15. ASSUME NEW k \in S
       PROVE  LET c == ChildIndex(ParentKeys, k)
              IN  /\ c \in 1 .. ORDER + 1 /\ k \in Int
                  /\ k < sp => c <= LeftCount + 1 /\ ChildIndex(node'[p].keys, k) = c
                  /\ k >= sp => /\ c > LeftCount + 1
                                /\ ChildIndex(node'[N].keys, k) = c - (LeftCount + 1)
  <2>1. k \in Int
    BY <1>12
  <2> PICK m : m = LeftCount + 1
    OBVIOUS
  <2>2. m \in 1 .. Len(ParentKeys) /\ m - 1 = LeftCount /\ m + 1 = LeftCount + 2
    <3>1. LeftCount \in Int /\ ORDER \in Int /\ LeftCount >= 1 /\ LeftCount + 1 <= ORDER
      BY OrderFacts
    <3> QED
      BY <1>len, <3>1
  <2>3. LET c == ChildIndex(ParentKeys, k)
        IN  /\ c \in 1 .. Len(ParentKeys) + 1
            /\ k < ParentKeys[m] =>
                 c <= m /\ ChildIndex(SubSeq(ParentKeys, 1, m - 1), k) = c
            /\ k >= ParentKeys[m] =>
                 c > m /\ ChildIndex(SubSeq(ParentKeys, m + 1, Len(ParentKeys)), k) = c - m
    BY <1>6, <1>len, <2>1, <2>2, RouteCut
  <2>4. /\ node'[p].keys = SubSeq(ParentKeys, 1, m - 1)
        /\ node'[N].keys = SubSeq(ParentKeys, m + 1, Len(ParentKeys))
    BY <1>len, <1>cut, <2>2
  <2> QED
    BY <1>len, <2>1, <2>3, <2>4
<1> PICK s : s = [n \in Nodes \cup {N} |-> IF n = N THEN {k \in S : k >= sp}
                                           ELSE IF n = p THEN {k \in S : k < sp}
                                           ELSE span[n]]
  OBVIOUS
<1>16. /\ s[N] = {k \in S : k >= sp} /\ s[p] = {k \in S : k < sp}
       /\ \A n \in Nodes : n # p => s[n] = span[n]
       /\ DOMAIN s = Nodes \cup {N}
  BY <1>3
<1>17. s[p] \cup s[N] = S /\ s \in [Nodes' -> SUBSET Int]
  <2>1. s[p] \cup s[N] = S
    <3>1. \A k \in S : k < sp \/ k >= sp
      BY <1>12
    <3> QED
      BY <1>16, <3>1
  <2>2. \A n \in Nodes : span[n] \subseteq Int
    BY <1>1 DEF Spans
  <2>3. \A n \in Nodes \cup {N} : s[n] \in SUBSET Int
    BY <1>12, <1>16, <2>1, <2>2
  <2> QED
    BY <1>4, <1>16, <2>1, <2>3
<1>18. Attached'
  <2>1. ASSUME NEW n \in Nodes, n \in ToSet(ParentChildren)
        PROVE  node'[n].parent \in Nodes' /\ n \in ToSet(node'[node'[n].parent].children)
    <3>1. n \in ToSet(LC) \/ n \in ToSet(RC)
      <4>1. PICK i \in 1 .. ORDER + 1 : n = ParentChildren[i]
        <5>1. DOMAIN ParentChildren = 1 .. ORDER + 1
          BY <1>5, <1>8
        <5> QED
          BY <2>1, <5>1 DEF ToSet
      <4>2. CASE i <= LeftCount + 1
        <5>1. i \in 1 .. LeftCount + 1
          BY <4>2, OrderFacts
        <5> QED
          BY <1>9, <4>1, <5>1 DEF ToSet
      <4>3. CASE i > LeftCount + 1
        <5>1. i - (LeftCount + 1) \in 1 .. ORDER - LeftCount
              /\ LeftCount + 1 + (i - (LeftCount + 1)) = i
          BY <4>3, OrderFacts
        <5> QED
          BY <1>10, <4>1, <5>1 DEF ToSet
      <4> QED
        BY <4>2, <4>3, OrderFacts
    <3>2. CASE n \in ToSet(RC)
      BY <1>4, <3>2
    <3>3. CASE n \in ToSet(LC)
      <4>1. node'[n].parent = p
        BY <1>4, <1>5, <3>3
      <4> QED
        BY <1>3, <1>4, <3>3, <4>1
    <3> QED
      BY <3>1, <3>2, <3>3
  <2>2. ASSUME NEW n \in Nodes, n # root, n \notin ToSet(ParentChildren)
        PROVE  node'[n].parent \in Nodes' /\ n \in ToSet(node'[node'[n].parent].children)
    <3>1. n # right
      BY <1>6, <2>2
    <3>2. node[n].parent \in Nodes /\ n \in ToSet(node[node[n].parent].children)
      BY <1>1, <2>2, <3>1 DEF Attached
    <3>3. node[n].parent # p
      BY <1>6, <2>2, <3>2
    <3>4. n \notin ToSet(RC)
      BY <1>5, <3>3
    <3> QED
      BY <1>4, <3>2, <3>3, <3>4
  <2> QED
    BY <1>1, <1>4, <2>1, <2>2 DEF Attached
<1>19. Filled'
  <2>1. /\ LeftCount \in 1 .. MAX_KEYS /\ ORDER - LeftCount - 1 \in 1 .. MAX_KEYS
        /\ LeftCount >= Least(FALSE) /\ ORDER - LeftCount - 1 >= Least(FALSE)
    BY OrderFacts DEF Least
  <2>2. node'[p].is_leaf = FALSE /\ node'[N].is_leaf = FALSE
    <3>1. /\ node' \in Seq(NodeRec) /\ p \in DOMAIN node' /\ N \in DOMAIN node'
      BY <1>2, <1>3, <1>4 DEF ParentSplit, Nodes
    <3>2. node'[p] \in NodeRec /\ node'[N] \in NodeRec
      BY <3>1
    <3>3. node'[p].is_leaf \in BOOLEAN /\ node'[N].is_leaf \in BOOLEAN
      BY <3>2 DEF NodeRec
    <3> QED
      BY <1>3, <1>4, <3>3
  <2>3. ASSUME NEW n \in Nodes'
        PROVE  /\ Len(node'[n].keys) \in 1 .. MAX_KEYS
               /\ n # root \/ n = p => Len(node'[n].keys) >= Least(node'[n].is_leaf)
               /\ Ascending(node'[n].keys)
    <3>1. CASE n = p
      BY <1>13, <2>1, <2>2, <3>1
    <3>2. CASE n = N
      BY <1>14, <2>1, <2>2, <3>2
    <3>3. CASE n # p /\ n # N
      BY <1>1, <1>4, <3>3 DEF Filled
    <3> QED
      BY <3>1, <3>2, <3>3
  <2> QED
    BY <1>1, <1>4, <2>3 DEF Filled
<1>20. ASSUME NEW n \in Nodes PROVE Share(s, n)' = span[n]
  <2>1. CASE n = p
    BY <1>1, <1>4, <1>17, <2>1 DEF Share
  <2>2. CASE n # p
    BY <1>4, <1>16, <2>2 DEF Share
  <2> QED
    BY <2>1, <2>2
<1>21. ASSUME NEW n \in Nodes' PROVE ToSet(node'[n].keys) \subseteq s[n]
  <2>1. CASE n = p
    <3>1. ASSUME NEW j \in 1 .. LeftCount PROVE node'[p].keys[j] \in s[p]
      <4>1. ParentKeys[j] < ParentKeys[LeftCount + 1]
        BY <1>6, <1>11 DEF Ascending
      <4>2. ParentKeys[j] \in S /\ ParentKeys[j] < sp
        BY <1>11, <1>12, <4>1
      <4> QED
        BY <1>13, <1>16, <4>2
    <3>2. \A j \in DOMAIN node'[n].keys : node'[n].keys[j] \in s[n]
      BY <1>13, <2>1, <3>1
    <3> QED
      BY ONLY <3>2 DEF ToSet
  <2>2. CASE n = N
    <3>1. ASSUME NEW j \in 1 .. ORDER - LeftCount - 1 PROVE node'[N].keys[j] \in s[N]
      <4>1. ParentKeys[LeftCount + 1] < ParentKeys[LeftCount + 1 + j]
        BY <1>6, <1>11 DEF Ascending
      <4>2. ParentKeys[LeftCount + 1 + j] \in S /\ ParentKeys[LeftCount + 1 + j] \in Int
        BY <1>11, <1>12
      <4>3. ParentKeys[LeftCount + 1 + j] >= sp
        BY <1>12, <4>1, <4>2
      <4> QED
        BY <1>14, <1>16, <4>2, <4>3
    <3>2. \A j \in DOMAIN node'[n].keys : node'[n].keys[j] \in s[n]
      BY <1>14, <2>2, <3>1
    <3> QED
      BY ONLY <3>2 DEF ToSet
  <2>3. CASE n # p /\ n # N
    BY <1>1, <1>4, <1>16, <2>3 DEF Spans
  <2> QED
    BY <2>1, <2>2, <2>3
<1>22. ASSUME NEW i \in 1 .. LeftCount + 1
       PROVE  span[LC[i]] = {k \in s[p] : ChildIndex(node'[p].keys, k) = i}
  <2>1. span[LC[i]] = {k \in S : ChildIndex(ParentKeys, k) = i}
    BY <1>6, <1>9, <1>11
  <2>2. i \in Int /\ i <= LeftCount + 1 /\ LeftCount \in Int
    BY OrderFacts
  <2>3. ASSUME NEW k \in S
        PROVE  ChildIndex(ParentKeys, k) = i
                 <=> k < sp /\ ChildIndex(node'[p].keys, k) = i
    BY <1>12, <1>15, <2>2
  <2> QED
    BY <1>16, <2>1, <2>3
<1>23. ASSUME NEW i \in 1 .. ORDER - LeftCount
       PROVE  span[RC[i]] = {k \in s[N] : ChildIndex(node'[N].keys, k) = i}
  <2>1. span[RC[i]] = {k \in S : ChildIndex(ParentKeys, k) = LeftCount + 1 + i}
    BY <1>6, <1>10, <1>11
  <2>2. i \in Int /\ i >= 1 /\ LeftCount \in Int /\ ORDER \in Int
    BY OrderFacts
  <2>3. ASSUME NEW k \in S
        PROVE  ChildIndex(ParentKeys, k) = LeftCount + 1 + i
                 <=> k >= sp /\ ChildIndex(node'[N].keys, k) = i
    <3> PICK c : c = ChildIndex(ParentKeys, k)
      OBVIOUS
    <3>1. /\ c \in Int /\ k \in Int
          /\ k < sp => c <= LeftCount + 1
          /\ k >= sp => ChildIndex(node'[N].keys, k) = c - (LeftCount + 1)
      BY <1>15, <2>2
    <3> QED
      BY <1>12, <2>2, <3>1
  <2> QED
    BY <1>16, <2>1, <2>3
<1>24. ASSUME NEW n \in Nodes', ~node'[n].is_leaf, NEW i \in DOMAIN node'[n].children
       PROVE  /\ node'[n].children[i] \in Nodes
              /\ span[node'[n].children[i]] = {k \in s[n] : ChildIndex(node'[n].keys, k) = i}
  <2>1. CASE n = p
    <3>1. LC[i] \in ToSet(LC) /\ i \in 1 .. LeftCount + 1
      BY <1>4, <1>9, <1>24, <2>1 DEF ToSet
    <3> QED
      BY <1>4, <1>5, <1>22, <2>1, <3>1
  <2>2. CASE n = N
    <3>1. RC[i] \in ToSet(RC) /\ i \in 1 .. ORDER - LeftCount
      BY <1>4, <1>10, <1>24, <2>2 DEF ToSet
    <3> QED
      BY <1>4, <1>5, <1>23, <2>2, <3>1
  <2>3. CASE n # p /\ n # N
    <3>1. /\ n \in Nodes /\ ~node[n].is_leaf /\ node'[n].keys = node[n].keys
          /\ node'[n].children = node[n].children /\ s[n] = span[n]
      BY <1>4, <1>16, <1>24, <2>3
    <3>2. /\ node[n].children[i] \in Nodes
          /\ span[node[n].children[i]] = {k \in span[n] : ChildIndex(node[n].keys, k) = i}
      BY <1>7, <1>24, <2>3, <3>1
    <3> QED
      BY <3>1, <3>2
  <2> QED
    BY <2>1, <2>2, <2>3
<1>25. Spans(s)'
  <2>1. ASSUME NEW n \in Nodes', ~node'[n].is_leaf, NEW i \in DOMAIN node'[n].children
        PROVE  (Share(s, node[n].children[i]) = {k \in s[n] : ChildIndex(node[n].keys, k) = i})'
    <3> PICK c : c = node'[n].children[i]
      OBVIOUS
    <3>1. c \in Nodes /\ span[c] = {k \in s[n] : ChildIndex(node'[n].keys, k) = i}
      BY <1>24, <2>1
    <3>2. Share(s, c)' = span[c]
      BY <1>20, <3>1
    <3> QED
      BY <3>1, <3>2 DEF Share
  <2>2. Share(s, root)' = Int
    BY <1>1, <1>7, <1>20
  <2>3. /\ sep' \in s[right'] /\ \A k \in s[left'] : k < sep'
        /\ \A k \in s[right'] : k >= sep'
    <3>1. sp \in {k \in S : k >= sp}
      BY <1>12
    <3> QED
      BY <1>4, <1>16, <3>1
  <2> QED
    BY <1>1, <1>17, <1>21, <2>1, <2>2, <2>3 DEF Spans
<1>26. LeavesSame
  BY <1>3, <1>4 DEF LeavesSame
<1>27. \A n \in Nodes : node[n].is_leaf => s[n] = span[n]
  BY <1>3, <1>16
<1>28. Chained(s)' /\ Contents'
  BY <1>1, <1>26, <1>27, LeavesSound
<1>29. Sound(s)'
  BY <1>18, <1>19, <1>25, <1>28 DEF Sound
<1> QED
  BY <1>29

(***************************************************************************)
(* The second part of the invariant, unless memory runs out in a split.    *)
(***************************************************************************)
LEMMA SoundStep ==
  ASSUME NEW h, NEW path, NEW span, Frame(h, path), Sound(span), [Next]_vars, ~torn'
  PROVE  \E s : Sound(s)'
<1>1. ASSUME NEW k \in Key, Insert(k) PROVE \E s : Sound(s)'
  BY <1>1, InsertSound
<1>2. CASE FirstLeaf
  BY <1>2, FirstLeafSound
<1>3. CASE Descend
  BY <1>3, DescendSound
<1>4. CASE Duplicate
  BY <1>4, FailSound DEF Duplicate, AtLeaf
<1>5. CASE InsertIntoLeaf
  BY <1>5, InsertIntoLeafSound
<1>6. CASE SplitLeaf
  BY <1>6, SplitLeafSound
<1>7. CASE LeafAllocFails
  BY <1>7, FailSound DEF LeafAllocFails, AllocFails, AtLeaf
<1>8. CASE NewRoot
  BY <1>8, NewRootSound
<1>9. CASE InsertIntoInternal
  BY <1>9, InsertIntoInternalSound
<1>10. CASE SplitInternal
  BY <1>10, SplitInternalSound
<1>11. CASE PromoteAllocFails
  BY <1>11 DEF PromoteAllocFails
<1>12. CASE UNCHANGED vars
  <2>1. Sound(span)'
    BY <1>12 DEF vars, Sound, Attached, Filled, Least, Spans, Share, Chained, Contents,
                 Known, ValueOf, Nodes
  <2> QED
    BY <2>1
<1> QED
  BY <1>1, <1>2, <1>3, <1>4, <1>5, <1>6, <1>7, <1>8, <1>9, <1>10, <1>11, <1>12 DEF Next

(***************************************************************************)
(* The empty tree.                                                         *)
(***************************************************************************)
LEMMA InitInv == Init => Inv
<1> SUFFICES ASSUME Init PROVE Inv
  OBVIOUS
<1>1. /\ node = <<>> /\ Len(node) = 0 /\ Nodes = {} /\ root = NULL /\ pc = "idle"
      /\ inserted = <<>> /\ DOMAIN inserted = {}
  BY DEF Init, Nodes
<1> PICK f : f = [n \in {} |-> 0]
  OBVIOUS
<1> PICK g : g = [n \in {} |-> Int]
  OBVIOUS
<1>2. Types
  <2>1. node \in Seq(NodeRec) /\ inserted \in [DOMAIN inserted -> Value]
    BY <1>1
  <2> QED
    BY <1>1, <2>1 DEF Types, Init, NULL, Value
<1>3. Frame(f, {})
  <2>1. f \in [Nodes -> Nat]
    BY <1>1
  <2>2. Rooted /\ Children /\ Heights(f) /\ Path({})
    BY <1>1, <2>1 DEF Rooted, Children, Heights, Path
  <2>3. Halves /\ OnPath({}) /\ Paired /\ Linked /\ Kept
    BY <1>1 DEF Halves, OnPath, Paired, Linked, Kept, Known
  <2> QED
    BY <1>2, <2>2, <2>3 DEF Frame
<1>4. Sound(g)
  <2>1. g \in [Nodes -> SUBSET Int]
    BY <1>1
  <2> QED
    BY <1>1, <2>1 DEF Sound, Attached, Filled, Spans, Chained, Contents
<1> QED
  BY <1>3, <1>4 DEF Inv

(***************************************************************************)
(* Every step keeps the invariant.                                         *)
(***************************************************************************)
LEMMA NextInv == Inv /\ [Next]_vars => Inv'
<1> SUFFICES ASSUME Inv, [Next]_vars PROVE Inv'
  OBVIOUS
<1>1. PICK h, path : Frame(h, path)
  BY DEF Inv
<1>2. (\E g, q : Frame(g, q))'
  BY <1>1, FrameStep
<1>3. ASSUME ~torn' PROVE (\E s : Sound(s))'
  <2>1. ~torn
    BY <1>3 DEF Next, vars, Insert, FirstLeaf, Descend, Duplicate, InsertIntoLeaf, SplitLeaf,
                LeafAllocFails, NewRoot, InsertIntoInternal, SplitInternal,
                PromoteAllocFails, NoFailure
  <2>2. PICK span : Sound(span)
    BY <2>1 DEF Inv
  <2> QED
    BY <1>1, <1>3, <2>2, SoundStep
<1> QED
  BY <1>2, <1>3 DEF Inv

(***************************************************************************)
(* The invariant holds throughout.                                         *)
(***************************************************************************)
THEOREM TreeInvariant == Spec => []Inv
<1>1. Init => Inv
  BY InitInv
<1>2. Inv /\ [Next]_vars => Inv'
  BY NextInv
<1> QED
  BY <1>1, <1>2, PTL DEF Spec

-----------------------------------------------------------------------------
(* The properties.                                                         *)

(***************************************************************************)
(* Between two calls, if nothing is torn, parents and children point at    *)
(* each other and every node hangs below the root, whatever bptree_insert  *)
(* has split.                                                              *)
(***************************************************************************)
THEOREM TreeWellLinked == Spec => []WellLinked
<1>1. Inv => WellLinked
  <2> SUFFICES ASSUME Inv, Whole PROVE WellLinked
    BY DEF WellLinked
  <2>1. PICK h, path, span : Frame(h, path) /\ Sound(span)
    BY DEF Inv, Whole
  <2> QED
    BY <2>1 DEF WellLinked, Whole, Quiet, Frame, Children, Sound, Attached
<1> QED
  BY <1>1, TreeInvariant, PTL

(***************************************************************************)
(* The chain of leaves is in ascending order as long as nothing is torn,   *)
(* and no key whose insert returned 1 ever leaves it, also when memory     *)
(* runs out in the middle of a split.                                      *)
(***************************************************************************)
THEOREM LeavesKeepKeys == Spec => []ChainKeepsKeys
<1>1. Inv => ChainKeepsKeys
  <2> SUFFICES ASSUME Inv PROVE ChainKeepsKeys
    OBVIOUS
  <2>1. PICK h, path : Frame(h, path)
    BY DEF Inv
  <2>2. node \in Seq(NodeRec) /\ Linked /\ Kept
    BY <2>1 DEF Frame, Types
  <2>3. ASSUME Whole, NEW n \in Nodes, node[n].is_leaf, node[n].next # NULL
        PROVE  Last(node[n].keys) < Head(node[node[n].next].keys)
    <3>1. PICK span : Sound(span)
      BY <2>3 DEF Inv, Whole
    <3> DEFINE m == node[n].next
    <3>2. m \in Nodes
      BY <2>2, <2>3 DEF Linked
    <3>3. ASSUME NEW x \in Nodes
          PROVE  Last(node[x].keys) \in span[x] /\ Head(node[x].keys) \in span[x]
      <4>1. node[x].keys \in Seq(Int) /\ Len(node[x].keys) >= 1
        BY <2>2, <3>1, NodeFacts DEF Sound, Filled
      <4>2. Last(node[x].keys) \in ToSet(node[x].keys) /\ Head(node[x].keys) \in ToSet(node[x].keys)
        BY <4>1 DEF Last, ToSet
      <4> QED
        BY <3>1, <4>2 DEF Sound, Spans
    <3> QED
      BY <2>3, <3>1, <3>2, <3>3 DEF Sound, Chained
  <2>4. ASSUME Quiet, NEW k \in DOMAIN inserted
        PROVE  \E n \in Nodes : /\ node[n].is_leaf
                                /\ k \in ToSet(node[n].keys)
                                /\ n = 1 \/ \E m \in Nodes : node[m].is_leaf /\ node[m].next = n
    <3>1. PICK n \in Nodes : node[n].is_leaf /\ k \in ToSet(node[n].keys)
      BY <2>2 DEF Kept, Known
    <3> QED
      BY <2>2, <3>1 DEF Linked
  <2> QED
    BY <2>3, <2>4 DEF ChainKeepsKeys
<1> QED
  BY <1>1, TreeInvariant, PTL

\* f takes m steps from x, each as nxt says.
Steps(D, nxt, x, m, f) == /\ f \in [0 .. m -> D] /\ f[0] = x
                          /\ \A i \in 1 .. m : f[i] = nxt[f[i - 1]]

(***************************************************************************)
(* Such a function exists for every number of steps.                       *)
(***************************************************************************)
LEMMA Iteration ==
  ASSUME NEW D, NEW nxt \in [D -> D], NEW x \in D, NEW len \in Nat
  PROVE  \E f : Steps(D, nxt, x, len, f)
<1> DEFINE Solved == {m \in 0 .. len : \E f : Steps(D, nxt, x, m, f)}
<1>1. 0 \in Solved
  <2> DEFINE f == [n \in 0 .. 0 |-> x]
  <2>1. Steps(D, nxt, x, 0, f)
    BY DEF Steps
  <2> HIDE DEF f
  <2> QED
    BY <2>1
<1>2. ASSUME NEW m \in 0 .. len - 1, m \in Solved PROVE m + 1 \in Solved
  <2>1. PICK f : Steps(D, nxt, x, m, f)
    BY <1>2
  <2> DEFINE g == [n \in 0 .. m + 1 |-> IF n = m + 1 THEN nxt[f[m]] ELSE f[n]]
  <2>2. m \in 0 .. m /\ m \in 0 .. m + 1 /\ m + 1 \in 0 .. m + 1 /\ m # m + 1
        /\ 0 \in 0 .. m + 1 /\ 0 # m + 1 /\ m + 1 \in 0 .. len
    OBVIOUS
  <2>3. f[m] \in D /\ nxt[f[m]] \in D
    BY <2>1, <2>2 DEF Steps
  <2>4. g \in [0 .. m + 1 -> D]
    <3>1. ASSUME NEW n \in 0 .. m + 1, n # m + 1 PROVE f[n] \in D
      <4>1. n \in 0 .. m
        BY <3>1
      <4> QED
        BY <2>1, <4>1 DEF Steps
    <3> QED
      BY <2>3, <3>1
  <2>5. g[0] = x
    BY <2>1, <2>2 DEF Steps
  <2>6. ASSUME NEW i \in 1 .. m + 1 PROVE g[i] = nxt[g[i - 1]]
    <3>1. i \in 0 .. m + 1 /\ i - 1 \in 0 .. m + 1 /\ i - 1 # m + 1
      OBVIOUS
    <3>2. g[i - 1] = f[i - 1]
      BY <3>1
    <3>3. CASE i = m + 1
      <4>1. i - 1 = m
        BY <3>3
      <4> QED
        BY <3>1, <3>2, <3>3, <4>1
    <3>4. CASE i # m + 1
      <4>1. i \in 1 .. m
        BY <3>4
      <4>2. g[i] = f[i] /\ f[i] = nxt[f[i - 1]]
        BY <2>1, <3>1, <3>4, <4>1 DEF Steps
      <4> QED
        BY <3>2, <4>2
    <3> QED
      BY <3>3, <3>4
  <2>7. Steps(D, nxt, x, m + 1, g)
    <3> HIDE DEF g
    <3> QED
      BY <2>4, <2>5, <2>6 DEF Steps
  <2> HIDE DEF g
  <2> QED
    BY <2>2, <2>7
<1>3. len \in Solved
  <2> HIDE DEF Solved
  <2> QED
    BY <1>1, <1>2, InductionUpTo
<1> QED
  BY <1>3

\* The equation of Depth.
UpRound(n, up) == [i \in 0 .. Len(node) |->
                     IF i = 0 THEN n
                     ELSE IF up[i - 1] = NULL THEN NULL ELSE node[up[i - 1]].parent]

(***************************************************************************)
(* The way up from a leaf has as many nodes as the root is high.           *)
(***************************************************************************)
LEMMA LeafDepth ==
  ASSUME NEW h, NEW path, NEW span, Frame(h, path), Sound(span), pc # "promote",
         NEW n \in Nodes, node[n].is_leaf
  PROVE  Depth(n) = Cardinality({i \in 0 .. Len(node) : i <= h[root]})
<1> DEFINE D == Nodes \cup {NULL}
           nxt == [v \in D |-> IF v = NULL THEN NULL ELSE node[v].parent]
           up == CHOOSE f : f = UpRound(n, f)
<1>1. node \in Seq(NodeRec) /\ Heights(h) /\ Rooted /\ Attached
  BY DEF Frame, Types, Sound
<1>2. Len(node) \in Nat /\ NULL \notin Nodes
  BY <1>1, NodeFacts
<1>3. /\ \A m \in Nodes : h[m] \in Nat
      /\ \A m \in Nodes : node[m].parent # NULL =>
           node[m].parent \in Nodes /\ h[node[m].parent] = h[m] + 1
      /\ h[n] = 0
  BY <1>1 DEF Heights
<1>4. root \in Nodes /\ node[root].parent = NULL
  <2>1. node # <<>>
    BY <1>1, <1>2, NodeFacts
  <2> QED
    BY <1>1, <2>1 DEF Rooted
<1>5. \A m \in Nodes : m = root \/ h[m] < h[root]
  BY <1>1, Highest
<1>6. up = UpRound(n, up)
  <2>1. nxt \in [D -> D] /\ n \in D
    BY <1>3
  <2> HIDE DEF D, nxt
  <2>2. PICK f : Steps(D, nxt, n, Len(node), f)
    BY <1>2, <2>1, Iteration
  <2>3. ASSUME NEW i \in 0 .. Len(node)
        PROVE  f[i] = IF i = 0 THEN n
                      ELSE IF f[i - 1] = NULL THEN NULL ELSE node[f[i - 1]].parent
    <3>1. CASE i = 0
      BY <2>2, <3>1 DEF Steps
    <3>2. CASE i # 0
      <4>1. i \in 1 .. Len(node) /\ i - 1 \in 0 .. Len(node)
        BY <1>2, <3>2
      <4>2. f[i - 1] \in D /\ f[i] = nxt[f[i - 1]]
        BY <2>2, <4>1 DEF Steps
      <4> QED
        BY <3>2, <4>2 DEF nxt, D
    <3> QED
      BY <3>1, <3>2
  <2>4. f = UpRound(n, f)
    <3>1. f = [i \in 0 .. Len(node) |-> f[i]]
      BY <2>2 DEF Steps
    <3> QED
      BY <2>3, <3>1 DEF UpRound
  <2> QED
    BY <2>4
<1>7. Depth(n) = Cardinality({i \in 0 .. Len(node) : up[i] # NULL})
  BY DEF Depth, UpRound
<1> HIDE DEF up
<1>8. /\ up[0] = n
      /\ \A i \in 0 .. Len(node) - 1 :
           up[i + 1] = IF up[i] = NULL THEN NULL ELSE node[up[i]].parent
  <2>1. 0 \in 0 .. Len(node)
    BY <1>2
  <2>2. ASSUME NEW i \in 0 .. Len(node) - 1
        PROVE  up[i + 1] = IF up[i] = NULL THEN NULL ELSE node[up[i]].parent
    <3>1. i + 1 \in 0 .. Len(node) /\ i + 1 # 0 /\ (i + 1) - 1 = i
      BY <1>2
    <3> QED
      BY <1>6, <3>1 DEF UpRound
  <2>3. up[0] = n
    BY <1>6, <2>1 DEF UpRound
  <2> QED
    BY <2>2, <2>3
<1> DEFINE Right(i) == IF i <= h[root] THEN up[i] \in Nodes /\ h[up[i]] = i
                       ELSE up[i] = NULL
           Good == {i \in 0 .. Len(node) : Right(i)}
<1>9. 0 \in Good
  BY <1>2, <1>3, <1>4, <1>8
<1>10. ASSUME NEW i \in 0 .. Len(node) - 1, i \in Good PROVE i + 1 \in Good
  <2>1. Right(i) /\ i + 1 \in 0 .. Len(node) /\ h[root] \in Nat
    BY <1>2, <1>3, <1>4, <1>10
  <2>2. CASE i + 1 <= h[root]
    <3>1. up[i] \in Nodes /\ h[up[i]] = i /\ i # h[root]
      BY <2>1, <2>2
    <3>2. up[i] # root /\ up[i] # NULL
      BY <1>2, <3>1
    <3>3. node[up[i]].parent \in Nodes
      BY <1>1, <3>1, <3>2 DEF Attached
    <3>4. up[i + 1] = node[up[i]].parent
      BY <1>8, <3>2
    <3>5. h[up[i + 1]] = i + 1
      BY <1>2, <1>3, <3>1, <3>3, <3>4
    <3> QED
      BY <2>1, <2>2, <3>3, <3>4, <3>5
  <2>3. CASE i = h[root]
    <3>1. up[i] \in Nodes /\ h[up[i]] = h[root]
      BY <2>1, <2>3
    <3>2. up[i] = root
      BY <1>3, <1>4, <1>5, <3>1
    <3>3. up[i + 1] = NULL
      BY <1>2, <1>4, <1>8, <3>2
    <3>4. ~(i + 1 <= h[root])
      BY <2>1, <2>3
    <3> QED
      BY <2>1, <3>3, <3>4
  <2>4. CASE i > h[root]
    <3>1. up[i] = NULL /\ ~(i + 1 <= h[root])
      BY <2>1, <2>4
    <3>2. up[i + 1] = NULL
      BY <1>8, <3>1
    <3> QED
      BY <2>1, <3>1, <3>2
  <2> QED
    BY <2>1, <2>2, <2>3, <2>4
<1>11. 0 .. Len(node) \subseteq Good
  <2> HIDE DEF Good
  <2> QED
    BY <1>2, <1>9, <1>10, InductionUpTo
<1>12. \A i \in 0 .. Len(node) : up[i] # NULL <=> i <= h[root]
  BY <1>2, <1>11
<1>13. {i \in 0 .. Len(node) : up[i] # NULL} = {i \in 0 .. Len(node) : i <= h[root]}
  BY <1>12
<1> QED
  BY <1>7, <1>13

(***************************************************************************)
(* The tree stays balanced: all leaves are equally deep, and every node    *)
(* but the root is at least half full, whatever the order of the inserts.  *)
(***************************************************************************)
THEOREM TreeBalanced == Spec => []Balanced
<1>1. Inv => Balanced
  <2> SUFFICES ASSUME Inv, Whole PROVE Balanced
    BY DEF Balanced
  <2>1. PICK h, path, span : Frame(h, path) /\ Sound(span) /\ pc # "promote"
    BY DEF Inv, Whole, Quiet
  <2>2. \A m, n \in Nodes : node[m].is_leaf /\ node[n].is_leaf => Depth(m) = Depth(n)
    BY <2>1, LeafDepth
  <2>3. ASSUME NEW n \in Nodes
        PROVE  /\ Len(node[n].keys) <= MAX_KEYS
               /\ Len(node[n].keys) >= IF n = root THEN 1
                                       ELSE IF node[n].is_leaf THEN ORDER \div 2
                                       ELSE (ORDER - 1) \div 2
               /\ \A i, j \in DOMAIN node[n].keys : i < j =>
                    node[n].keys[i] < node[n].keys[j]
    <3>1. /\ Len(node[n].keys) \in 1 .. MAX_KEYS
          /\ n # root => Len(node[n].keys) >= Least(node[n].is_leaf)
          /\ Ascending(node[n].keys)
      BY <2>1 DEF Sound, Filled
    <3>2. Len(node[n].keys) <= MAX_KEYS /\ Len(node[n].keys) >= 1
      BY <3>1
    <3> QED
      BY <3>1, <3>2 DEF Least, Ascending
  <2> QED
    BY <2>2, <2>3 DEF Balanced
<1> QED
  BY <1>1, TreeInvariant, PTL

\* The equation of bptree_find_leaf.
WalkRound(k, walk) ==
  [i \in 0 .. Len(node) |->
     IF i = 0 THEN root
     ELSE LET n == walk[i - 1]
          IN  IF n = NULL \/ node[n].is_leaf THEN n
              ELSE node[n].children[ChildIndex(node[n].keys, k)]]

(***************************************************************************)
(* The walk from the root ends, within as many steps as there are nodes,   *)
(* at the leaf whose share the key is in.                                  *)
(***************************************************************************)
LEMMA WalkEnds ==
  ASSUME NEW h, NEW path, NEW span, Frame(h, path), Sound(span), pc = "idle",
         root # NULL, NEW k \in Int
  PROVE  /\ bptree_find_leaf(k) \in Nodes
         /\ node[bptree_find_leaf(k)].is_leaf
         /\ k \in span[bptree_find_leaf(k)]
<1> DEFINE D == Nodes
           Child(n) == node[n].children[ChildIndex(node[n].keys, k)]
           nxt == [n \in D |-> IF node[n].is_leaf THEN n ELSE Child(n)]
           walk == CHOOSE f : f = WalkRound(k, f)
<1>1. /\ node \in Seq(NodeRec) /\ Heights(h) /\ Rooted /\ Children /\ Spans(span)
  BY DEF Frame, Types, Sound
<1>2. Len(node) \in Nat /\ NULL \notin Nodes
  BY <1>1, NodeFacts
<1>3. root \in Nodes
  BY <1>1 DEF Rooted
<1>4. \A n \in Nodes : h[n] \in Nat /\ h[n] < Len(node) /\ (node[n].is_leaf <=> h[n] = 0)
  BY <1>1 DEF Heights
<1>5. ASSUME NEW n \in Nodes, ~node[n].is_leaf
      PROVE  /\ Child(n) \in Nodes
             /\ h[n] = h[Child(n)] + 1
             /\ k \in span[n] => k \in span[Child(n)]
  <2> DEFINE c == ChildIndex(node[n].keys, k)
  <2>1. node[n].keys \in Seq(Int) /\ Len(node[n].keys) \in Nat
        /\ DOMAIN node[n].children = 1 .. Len(node[n].children)
    BY <1>1, NodeFacts
  <2>2. c \in 1 .. Len(node[n].keys) + 1
    BY <2>1, ChildFacts DEF Belongs
  <2>3. Len(node[n].children) = Len(node[n].keys) + 1
    BY <1>1, <1>5 DEF Children
  <2>4. c \in DOMAIN node[n].children
    BY <2>1, <2>2, <2>3
  <2> HIDE DEF c
  <2>5. node[n].children[c] \in Nodes /\ node[node[n].children[c]].parent = n
    BY <1>1, <1>5, <2>4 DEF Children
  <2>6. h[n] = h[node[n].children[c]] + 1
    BY <1>1, <1>2, <2>5 DEF Heights
  <2>7. span[node[n].children[c]] = {x \in span[n] : ChildIndex(node[n].keys, x) = c}
    BY <1>1, <1>5, <2>4 DEF Spans, Share
  <2>8. k \in span[n] => k \in span[node[n].children[c]]
    BY <2>7 DEF c
  <2> QED
    BY <2>5, <2>6, <2>8 DEF c
<1> HIDE DEF Child
<1>6. walk = WalkRound(k, walk)
  <2>1. nxt \in [D -> D] /\ root \in D
    BY <1>3, <1>5
  <2> HIDE DEF D, nxt
  <2>2. PICK f : Steps(D, nxt, root, Len(node), f)
    BY <1>2, <2>1, Iteration
  <2>3. ASSUME NEW i \in 0 .. Len(node)
        PROVE  f[i] = IF i = 0 THEN root
                      ELSE IF f[i - 1] = NULL \/ node[f[i - 1]].is_leaf THEN f[i - 1]
                      ELSE Child(f[i - 1])
    <3>1. CASE i = 0
      BY <2>2, <3>1 DEF Steps
    <3>2. CASE i # 0
      <4>1. i \in 1 .. Len(node) /\ i - 1 \in 0 .. Len(node)
        BY <1>2, <3>2
      <4>2. f[i - 1] \in D /\ f[i] = nxt[f[i - 1]]
        BY <2>2, <4>1 DEF Steps
      <4> QED
        BY <1>2, <3>2, <4>2 DEF nxt, D
    <3> QED
      BY <3>1, <3>2
  <2>4. f = WalkRound(k, f)
    <3>1. f = [i \in 0 .. Len(node) |-> f[i]]
      BY <2>2 DEF Steps
    <3> QED
      BY <2>3, <3>1 DEF WalkRound, Child
  <2> QED
    BY <2>4
<1>7. bptree_find_leaf(k) = walk[Len(node)]
  BY DEF bptree_find_leaf, WalkRound
<1> HIDE DEF walk
<1>8. /\ walk[0] = root
      /\ \A i \in 0 .. Len(node) - 1 :
           walk[i + 1] = IF walk[i] = NULL \/ node[walk[i]].is_leaf THEN walk[i]
                         ELSE Child(walk[i])
  <2>1. 0 \in 0 .. Len(node)
    BY <1>2
  <2>2. ASSUME NEW i \in 0 .. Len(node) - 1
        PROVE  walk[i + 1] = IF walk[i] = NULL \/ node[walk[i]].is_leaf THEN walk[i]
                             ELSE Child(walk[i])
    <3>1. i + 1 \in 0 .. Len(node) /\ i + 1 # 0 /\ (i + 1) - 1 = i
      BY <1>2
    <3> QED
      BY <1>6, <3>1 DEF WalkRound, Child
  <2>3. walk[0] = root
    BY <1>6, <2>1 DEF WalkRound
  <2> QED
    BY <2>2, <2>3
<1> DEFINE Right(i) == /\ walk[i] \in Nodes /\ k \in span[walk[i]]
                       /\ h[walk[i]] = 0 \/ h[walk[i]] + i = h[root]
           Good == {i \in 0 .. Len(node) : Right(i)}
<1>9. 0 \in Good
  <2>1. k \in span[root]
    BY <1>1 DEF Spans, Share
  <2>2. 0 \in 0 .. Len(node) /\ h[root] + 0 = h[root]
    BY <1>2, <1>3, <1>4
  <2> QED
    BY <1>3, <1>8, <2>1, <2>2
<1>10. ASSUME NEW i \in 0 .. Len(node) - 1, i \in Good PROVE i + 1 \in Good
  <2>1. Right(i) /\ i + 1 \in 0 .. Len(node) /\ walk[i] # NULL
    BY <1>2, <1>10
  <2>2. CASE node[walk[i]].is_leaf
    <3>1. walk[i + 1] = walk[i] /\ h[walk[i]] = 0
      BY <1>4, <1>8, <2>1, <2>2
    <3> QED
      BY <2>1, <3>1
  <2>3. CASE ~node[walk[i]].is_leaf
    <3> DEFINE c == Child(walk[i])
    <3>1. walk[i + 1] = c
      BY <1>8, <2>1, <2>3
    <3>2. c \in Nodes /\ h[walk[i]] = h[c] + 1 /\ k \in span[c]
      BY <1>5, <2>1, <2>3
    <3>3. h[c] \in Nat /\ h[walk[i]] # 0
      BY <1>4, <2>1, <2>3, <3>2
    <3>4. h[c] + (i + 1) = h[root]
      BY <2>1, <3>2, <3>3
    <3> QED
      BY <2>1, <3>1, <3>2, <3>4
  <2> QED
    BY <2>2, <2>3
<1>11. 0 .. Len(node) \subseteq Good
  <2> HIDE DEF Good
  <2> QED
    BY <1>2, <1>9, <1>10, InductionUpTo
<1>12. Right(Len(node))
  BY <1>2, <1>11
<1>13. h[walk[Len(node)]] = 0
  BY <1>2, <1>3, <1>4, <1>12
<1> QED
  BY <1>4, <1>7, <1>12, <1>13

(***************************************************************************)
(* A search between two calls finds exactly the keys whose insert returned *)
(* 1, each with the value it was first inserted with, as long as memory    *)
(* has not run out while a separator was being promoted.                   *)
(***************************************************************************)
THEOREM SearchFindsInserted == Spec => []LossOnlyByPromotion
<1>1. Inv => LossOnlyByPromotion
  <2> SUFFICES ASSUME Inv, Whole, NEW k \in Key
               PROVE  bptree_search(k) = IF k \in DOMAIN inserted THEN inserted[k] ELSE NoValue
    BY DEF LossOnlyByPromotion
  <2>1. PICK h, path, span : Frame(h, path) /\ Sound(span) /\ pc = "idle"
    BY DEF Inv, Whole, Quiet
  <2>2. node \in Seq(NodeRec) /\ Rooted /\ Kept /\ Contents /\ Paired
    BY <2>1 DEF Frame, Types, Sound
  <2>3. Known = DOMAIN inserted /\ k \in Int
    BY <2>1, KeyAssumption DEF Known
  <2> DEFINE n == bptree_find_leaf(k)
             at == {i \in DOMAIN node[n].keys : node[n].keys[i] = k}
  <2>4. CASE root = NULL
    <3>1. Nodes = {} /\ Len(node) = 0
      BY <2>2, <2>4 DEF Rooted, Nodes
    <3>2. k \notin DOMAIN inserted
      BY <2>2, <2>3, <3>1 DEF Kept
    <3> DEFINE walk == CHOOSE f : f = WalkRound(k, f)
    <3>3. walk = WalkRound(k, walk)
      <4> DEFINE f == [i \in 0 .. 0 |-> NULL]
      <4>1. f = WalkRound(k, f)
        BY <2>4, <3>1 DEF WalkRound
      <4> QED
        BY <4>1
    <3>4. n = walk[0]
      BY <3>1 DEF bptree_find_leaf, WalkRound
    <3> HIDE DEF walk
    <3>5. n = NULL
      BY <2>4, <3>1, <3>3, <3>4 DEF WalkRound
    <3> QED
      BY <3>2, <3>5 DEF bptree_search
  <2>5. CASE root # NULL
    <3>1. n \in Nodes /\ node[n].is_leaf /\ k \in span[n]
      BY <2>1, <2>3, <2>5, WalkEnds
    <3>2. n # NULL
      BY <2>2, <3>1, NodeFacts
    <3>3. bptree_search(k) = IF at = {} THEN NoValue ELSE node[n].values[Min(at)]
      BY <3>2 DEF bptree_search
    <3> HIDE DEF n
    <3>4. CASE at = {}
      <4>1. k \notin ToSet(node[n].keys)
        BY <3>4 DEF ToSet
      <4>2. k \notin DOMAIN inserted
        BY <2>1, <2>3, <3>1, <4>1, NotInserted
      <4> QED
        BY <3>3, <3>4, <4>2
    <3>5. CASE at # {}
      <4>1. at \in SUBSET Nat
        BY <2>2, <3>1, NodeFacts
      <4>2. Min(at) \in at
        <5> HIDE DEF at
        <5> QED
          BY <3>5, <4>1, MinFacts
      <4>3. PICK j \in DOMAIN node[n].keys : j = Min(at) /\ node[n].keys[j] = k
        BY <4>2
      <4>4. k \in DOMAIN inserted /\ node[n].values[j] = ValueOf(k)
        BY <2>2, <2>3, <3>1, <4>3 DEF Contents
      <4> QED
        BY <3>3, <3>5, <4>3, <4>4 DEF ValueOf
    <3> QED
      BY <3>4, <3>5
  <2> QED
    BY <2>4, <2>5
<1> QED
  BY <1>1, TreeInvariant, PTL
=============================================================================
