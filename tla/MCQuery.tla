------------------------------ MODULE MCQuery ------------------------------
(***************************************************************************)
(* Instances of Query for TLC, with all sizes scaled down.  An int has     *)
(* three bits, -4 .. 3, and a long five, -16 .. 15: 9 fits a long and not  *)
(* an int, -20 neither.  A name has room for two characters; there are     *)
(* names with each kind of character JSON escapes, one that just fits and  *)
(* one that does not.  With a first capacity of four cells the buffer      *)
(* grows several times in every response.                                  *)
(***************************************************************************)
EXTENDS Query

Names == {<<>>, <<"n", "\"">>, <<"\\", "\n">>, <<"ctl">>, <<"n", "n", "\"">>}
Literals == {-20, -1, 1, 2, 9}
Rows == <<[id |-> 1, data |-> [name |-> <<"n", "\"">>, age |-> 2]],
          [id |-> 2, data |-> [name |-> <<"\\", "\n">>, age |-> -1]]>>
=============================================================================
