------------------------------- MODULE Where -------------------------------
(***************************************************************************)
(* Which rows a WHERE clause selects: table_compare_int and the conditions *)
(* of the table_find_by functions of src/sql_processor/table.c.  Shared by *)
(* Table, which runs them concurrently, and Query, which runs what the     *)
(* parser makes of a text.                                                 *)
(***************************************************************************)
EXTENDS Integers, Sequences

table_compare_int(left, comparison, right) ==
  CASE comparison = "==" -> left = right
    [] comparison = "<"  -> left < right
    [] comparison = "<=" -> left <= right
    [] comparison = ">"  -> left > right
    [] comparison = ">=" -> left >= right

\* "scan_id" is table_scan_by_id, which the tests compare with the index.
Matches(q, r) ==
  CASE q.column = "all"     -> TRUE
    [] q.column = "scan_id" -> r.id = q.value
    [] q.column = "id"      -> table_compare_int(r.id, q.comparison, q.value)
    [] q.column = "age"     -> table_compare_int(r.data.age, q.comparison, q.value)
    [] q.column = "name"    -> r.data.name = q.value

\* The loop that copies the rows a condition holds for.
MatchingRows(q, s) ==
  LET found[n \in 0 .. Len(s)] ==
        IF n = 0 THEN <<>>
        ELSE IF Matches(q, s[n]) THEN Append(found[n - 1], s[n])
        ELSE found[n - 1]
  IN  found[Len(s)]
=============================================================================
