------------------------------- MODULE MCTable -------------------------------
(***************************************************************************)
(* Instances of Table for TLC.  An int of two bits holds -2 .. 1, and      *)
(* next_id starts at 1: the first INSERT already makes it overflow, the    *)
(* second and third get negative ids, and the fifth meets a duplicate.     *)
(* Three buckets give the C remainder of a negative id something to get    *)
(* wrong; two clients are enough for that, and a third is for readers that *)
(* overlap while a writer waits.  With the smallest order there is, the    *)
(* second row of a bucket splits its leaf: id -2 can tear id 1 off the     *)
(* index or stay in it with a freed record, and the fifth INSERT is then   *)
(* given id 1 once more.                                                   *)
(***************************************************************************)
EXTENDS Table, TLC

ClientSymmetry == Permutations(Client)

Kim == [name |-> "kim", age |-> 20]
Lee == [name |-> "lee", age |-> 30]

SelectAll == [column |-> "all"]
ById(cmp, v) == [column |-> "id", comparison |-> cmp, value |-> v]
ByAge(cmp, v) == [column |-> "age", comparison |-> cmp, value |-> v]
ByName(n) == [column |-> "name", value |-> n]
ScanId(v) == [column |-> "scan_id", value |-> v]

OnePayload == {Kim}
TwoPayloads == {Kim, Lee}

\* One query of each way through the code.
LookupQueries == {ById("==", -2), ById("==", 1), ScanId(1), ByName("lee")}
ScanQueries == {SelectAll, ByAge("<=", 20)}
=============================================================================
