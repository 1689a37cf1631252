---------------------------- MODULE MCConnection ----------------------------
(***************************************************************************)
(* Instances of Connection for TLC.  The sizes keep the code's proportions *)
(* (head and body share the request buffer, the body may be half of it) at *)
(* a scale where every way of cutting the stream can be tried.  A head of  *)
(* 3 leaves room in the buffer for bytes of the body, one of 6 fills it,   *)
(* one of 7 does not fit.  Lengths go up to, and one beyond, the limit;    *)
(* strtoul turns -1 into the largest size_t, -6 into 2, and takes 10 and   *)
(* -10, which do not fit, for the largest.  A zero byte comes first, cuts  *)
(* the statement short, or does not occur.                                 *)
(***************************************************************************)
EXTENDS Connection

ContentLength(v) == [kind |-> "length", value |-> v]
Header(kind) == [kind |-> kind, value |-> 0]

\* Well-formed requests: heads, bodies shorter and longer than announced,
\* every statement.
NoZero == 9
Wellformed == [head : {3, 6, 7}, rest : {0, 2, 3, 5}, line : {"ok"},
               headers : {<<ContentLength(v)>> : v \in {-6, -1, 0, 2, 3, 4}},
               sql : Sql, zero : {NoZero}, cut : {"wrong"}]

\* Lengths that do not fit a size_t, and bodies with a zero byte in them.
Overflowing == [head : {3}, rest : {2}, line : {"ok"},
                headers : {<<ContentLength(10)>>, <<ContentLength(-10)>>},
                sql : {"insert"}, zero : {NoZero}, cut : {"wrong"}]
WithZero == [head : {3}, rest : {2, 3}, line : {"ok"},
             headers : {<<ContentLength(v)>> : v \in {2, 3}},
             sql : {"wrong", "insert"}, zero : {0, 1, 2}, cut : Sql]

\* Everything else that can be wrong with a head; of two lengths the last
\* one counts.
OddHeaders == {<<>>, <<Header("other")>>,
               <<Header("nocolon"), ContentLength(2)>>,
               <<ContentLength(2), Header("badlength")>>,
               <<ContentLength(4), ContentLength(2)>>}
Odd == [head : {3}, rest : {2}, line : Line, headers : OddHeaders, sql : {"insert"},
        zero : {NoZero}, cut : {"wrong"}]

Requests == Wellformed \cup Overflowing \cup WithZero \cup Odd
InsertRequests == {r \in Wellformed : r.sql = "insert"}
=============================================================================
