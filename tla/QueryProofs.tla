---------------------------- MODULE QueryProofs ----------------------------
(***************************************************************************)
(* Proofs about Query: statements of any length with any literals and      *)
(* names, arrays and integers of any size, tables of any number of         *)
(* buckets, and allocations that may fail anywhere.                        *)
(*                                                                         *)
(* The invariant has a part for the parser (ParserTypes, Origin), one for  *)
(* the memory of a response (Memory, Values) and one for the table's locks *)
(* and indexes (Life).  A second one, Understood, says what the parser has *)
(* read of the text: the beginning of a statement, which the command says. *)
(* A third one, Answering, says what a reader makes of the part of the     *)
(* response that is in the buffer, and then of the pieces still to come.   *)
(***************************************************************************)
EXTENDS Query, BasicLemmas, TLAPS

Block == {"buffer", "records"}

-----------------------------------------------------------------------------
(* The parser.                                                             *)

SelectGoal == {"SELECT_ALL", "SELECT_BY_ID", "SELECT_BY_AGE", "SELECT_BY_NAME"}
Goal == {"NONE", "EXIT", "INSERT"} \cup SelectGoal

InsertPlace == {"into", "insert_table", "values", "open", "name", "comma", "age",
                "close"}
SelectPlace == {"fields", "from", "select_table", "where", "column", "comparison",
                "judge", "int_value", "text_value"}
Place == {"start", "blank", "end", "semicolon", "parsed", "rejected"}
         \cup InsertPlace \cup SelectPlace

Command == [name : Seq(STRING), int_value : INT_MIN .. INT_MAX,
            comparison : {"=="} \cup Comparison, where_column : {""} \cup Vocabulary,
            text_value : Seq(STRING)]

Status == {"ERROR", "SYNTAX_ERROR", "QUERY_ERROR", "OK", "NOT_FOUND", "EXIT"}

ParserTypes ==
  /\ text \in Seq(Token)
  /\ cursor \in 1 .. Len(text) + 1
  /\ at \in Place
  /\ goal \in Goal
  /\ command \in Command
  /\ parse_result.status \in Status
  /\ parse_result.near \in Seq(STRING)
  /\ parse_result.error_code \in Nat

\* The first word of the text, white space before it aside.
StartsWith(words) == \/ Len(text) >= 1 /\ text[1] \in {Word(w) : w \in words}
                     \/ /\ Len(text) >= 2 /\ text[1] = Blank
                        /\ text[2] \in {Word(w) : w \in words}

\* The goal is the one of the first word.
Begun == \/ goal = "INSERT" /\ StartsWith({"INSERT"})
         \/ goal \in SelectGoal /\ StartsWith({"SELECT"})
         \/ goal = "EXIT" /\ StartsWith({"EXIT", "QUIT"})

\* Where the parser is tells what the text began with.
Origin ==
  /\ at = "start" => cursor = 1
  /\ at = "blank" => cursor = 2 /\ text[1] = Blank
  /\ Len(text) >= 2 => ~(text[1] = Blank /\ text[2] = Blank)
  /\ at \notin {"start", "blank", "rejected"} => Begun
  /\ at \in SelectPlace => goal \in SelectGoal
  /\ at = "parsed" => parse_result.type = goal
  /\ phase # "parse" => at = "start"

-----------------------------------------------------------------------------
(* The response and the memory it takes.                                   *)

\* A sequence of something.
Text(s) == s \in Seq(ToSet(s))
\* A sequence of pieces of text.
Pieces(s) == Text(s) /\ \A p \in ToSet(s) : Text(p)

Rec == [id : Int, data : [name : Seq(STRING), age : Int]]

Phase == {"create", "buckets", "idle", "parse", "init", "build", "done", "print",
          "destroy", "left"}

\* Rows, results and responses are well formed, and the text in the buffer
\* leaves room for the terminating zero.
Values ==
  /\ phase \in Phase
  /\ table \in Seq(Rec)
  /\ sql_result.rows \in Seq(Rec)
  /\ sql_result.status \in Status
  /\ sql_result.inserted_id \in Nat /\ sql_result.row_count \in Nat
  /\ IF phase = "build"
     THEN /\ buffer = [data |-> buffer.data, cap |-> buffer.cap, held |-> TRUE]
          /\ Text(buffer.data) /\ Pieces(todo)
          /\ buffer.cap \in Nat /\ Len(buffer.data) < buffer.cap
     ELSE buffer = NoBuffer

\* What is allocated is what can still be reached: the buffer while it is
\* filled, the answer until it has been sent, the rows of the result.
Memory ==
  /\ heap \in [Block -> {"free", "live"}]
  /\ heap["buffer"] = "live" <=> phase = "build" \/ answer.held
  /\ heap["records"] = "live" <=> sql_result.records
  /\ answer.held => phase = "done"
  /\ sql_result.records => phase \in {"init", "build", "print"}
  /\ answer = [http_status |-> answer.http_status, body |-> answer.body,
               held |-> answer.held, returned |-> answer.returned]

\* What of the table exists is what table_destroy will release: the locks of
\* the buckets that count, and at most their indexes.
Life ==
  /\ phase \in {"create", "left"} => life = NoTable
  /\ phase \notin {"create", "left"} =>
       /\ life = [block |-> "live", next_id_lock |-> "live", lock |-> life.lock,
                  pk_index |-> life.pk_index, next_id_lock_initialized |-> TRUE,
                  initialized_buckets |-> life.initialized_buckets]
       /\ Creating \in 0 .. BUCKET_COUNT
       /\ life.lock = [b \in Bucket |-> IF b < Creating THEN "live" ELSE "absent"]
       /\ life.pk_index \in [Bucket -> {"live", "absent"}]
       /\ \A b \in Bucket : b >= Creating => life.pk_index[b] = "absent"

Inv == ParserTypes /\ Origin /\ Values /\ Memory /\ Life

-----------------------------------------------------------------------------
(* What the operators of the model return.                                 *)

(***************************************************************************)
(* What is in a token.                                                     *)
(***************************************************************************)
LEMMA TokenFacts ==
  ASSUME NEW t \in Token
  PROVE  /\ t.kind = "string" => t.chars \in Seq(STRING)
         /\ t.kind = "int" => t.number \in Int
         /\ t.kind = "word" => t.text \in Vocabulary
<1>1. CASE t \in {Word(w) : w \in Vocabulary}
  BY <1>1 DEF Word
<1>2. CASE t \in {Mark(m) : m \in Comparison \cup {"(", ")", ",", "*", ";", "junk"}}
  <2>1. PICK m : t = Mark(m)
    BY <1>2
  <2> QED
    BY <2>1 DEF Mark
<1>3. CASE t \in {Integer(n) : n \in Literal}
  BY <1>3, TextAssumption DEF Integer
<1>4. CASE t \in {String(s) : s \in Name}
  BY <1>4, TextAssumption DEF String
<1>5. CASE t \in {Blank, End, [kind |-> "openstring"]}
  BY <1>5 DEF Blank, End
<1> QED
  BY <1>1, <1>2, <1>3, <1>4, <1>5 DEF Token

(***************************************************************************)
(* Whatever integer is spelled, strtol and the narrowing make it an int.   *)
(***************************************************************************)
LEMMA IntFacts ==
  /\ 0 \in INT_MIN .. INT_MAX
  /\ \A n \in Int : ToInt(strtol(n)) \in INT_MIN .. INT_MAX
<1>1. INT_MIN \in Int /\ INT_MAX \in Nat /\ INT_MIN = -INT_MAX - 1
  <2>1. 2 ^ (INT_BITS - 1) \in Int
    BY WidthAssumption
  <2> QED
    BY <2>1, IntAssumption DEF INT_MIN, INT_MAX
<1>2. LONG_MIN \in Int /\ LONG_MAX \in Int
  <2>1. 2 ^ (LONG_BITS - 1) \in Int
    BY WidthAssumption
  <2> QED
    BY <2>1 DEF LONG_MIN, LONG_MAX
<1>3. ASSUME NEW n \in Int PROVE ToInt(strtol(n)) \in INT_MIN .. INT_MAX
  <2>1. strtol(n) \in Int
    BY <1>2 DEF strtol
  <2> DEFINE m == INT_MAX - INT_MIN + 1
             l == strtol(n) - INT_MIN
  <2>2. m \in Nat \ {0} /\ l \in Int
    BY <1>1, <2>1
  <2>3. (l % m) \in 0 .. m - 1
    <3> HIDE DEF m, l
    <3> QED
      BY <2>2
  <2>4. ToInt(strtol(n)) = (l % m) + INT_MIN
    BY DEF ToInt
  <2> HIDE DEF l
  <2> QED
    BY <1>1, <2>3, <2>4
<1> QED
  BY <1>1, <1>3

\* The equation that the function in Grown solves, up to m.
Doubling(cap, required, m, f) ==
  [k \in 0 .. m |->
    IF k = 0 THEN cap ELSE IF f[k - 1] < required THEN 2 * f[k - 1] ELSE f[k - 1]]

(***************************************************************************)
(* It has a solution.                                                      *)
(***************************************************************************)
LEMMA DoublingRecursion ==
  ASSUME NEW cap, NEW required, NEW len \in Nat
  PROVE  \E f : f = Doubling(cap, required, len, f)
<1> USE DEF Doubling
<1> DEFINE Round(m, f) == Doubling(cap, required, m, f)
           Solved == {m \in 0 .. len : \E f : f = Round(m, f)}
<1>1. 0 \in Solved
  <2> DEFINE f == [k \in 0 .. 0 |-> cap]
  <2>1. f = Round(0, f)
    OBVIOUS
  <2>2. 0 \in 0 .. len
    OBVIOUS
  <2> HIDE DEF f
  <2> QED
    BY <2>1, <2>2
<1>2. ASSUME NEW i \in 0 .. len - 1, i \in Solved PROVE i + 1 \in Solved
  <2>1. PICK f : f = Round(i, f)
    BY <1>2
  <2> DEFINE last == IF f[i] < required THEN 2 * f[i] ELSE f[i]
             g == [k \in 0 .. i + 1 |-> IF k = i + 1 THEN last ELSE f[k]]
  <2>2. ASSUME NEW k \in 0 .. i + 1
        PROVE  g[k] = IF k = 0 THEN cap
                      ELSE IF g[k - 1] < required THEN 2 * g[k - 1] ELSE g[k - 1]
    <3>1. CASE k = i + 1
      <4>1. k # 0 /\ k - 1 = i /\ i \in 0 .. i + 1 /\ i # i + 1
        BY <3>1
      <4>2. g[k] = last /\ g[k - 1] = f[i]
        BY <3>1, <4>1
      <4> QED
        BY <3>1, <4>1, <4>2
    <3>2. CASE k # i + 1
      <4>1. k \in 0 .. i /\ (k # 0 => k - 1 \in 0 .. i)
        BY <3>2
      <4>2. g[k] = f[k] /\ (k # 0 => g[k - 1] = f[k - 1])
        BY <3>2, <4>1
      <4>3. f[k] = IF k = 0 THEN cap
                   ELSE IF f[k - 1] < required THEN 2 * f[k - 1] ELSE f[k - 1]
        BY <2>1, <4>1
      <4> QED
        BY <4>2, <4>3
    <3> QED
      BY <3>1, <3>2
  <2>3. g = Round(i + 1, g)
    BY <2>2
  <2>4. i + 1 \in 0 .. len
    OBVIOUS
  <2> QED
    BY <2>3, <2>4
<1>3. len \in Solved
  <2> HIDE DEF Solved
  <2> QED
    BY <1>1, <1>2, InductionUpTo
<1> QED
  BY <1>3

(***************************************************************************)
(* The loop of json_buffer_reserve ends, and it ends with enough room.     *)
(***************************************************************************)
LEMMA GrownFacts ==
  ASSUME NEW cap \in Nat \ {0}, NEW required \in Nat
  PROVE  Grown(cap, required) \in Nat /\ Grown(cap, required) >= required
<1> DEFINE new_cap == CHOOSE f : f = Doubling(cap, required, required, f)
<1>1. Grown(cap, required) = new_cap[required]
  BY DEF Grown, Doubling
<1>2. new_cap = Doubling(cap, required, required, new_cap)
  <2>1. \E f : f = Doubling(cap, required, required, f)
    BY DoublingRecursion
  <2> QED
    BY <2>1
<1> DEFINE Large == {k \in 0 .. required :
             new_cap[k] \in Nat /\ (new_cap[k] >= required \/ new_cap[k] > k)}
<1>3. \A k \in 0 .. required :
        new_cap[k] = IF k = 0 THEN cap
                     ELSE IF new_cap[k - 1] < required THEN 2 * new_cap[k - 1]
                     ELSE new_cap[k - 1]
  <2> HIDE DEF new_cap
  <2> QED
    BY <1>2 DEF Doubling
<1> HIDE DEF new_cap
<1>4. 0 \in Large
  BY <1>3
<1>5. ASSUME NEW i \in 0 .. required - 1, i \in Large PROVE i + 1 \in Large
  <2>1. i + 1 \in 0 .. required /\ i + 1 # 0 /\ (i + 1) - 1 = i
    OBVIOUS
  <2>2. new_cap[i + 1] = IF new_cap[i] < required THEN 2 * new_cap[i] ELSE new_cap[i]
    BY <1>3, <2>1
  <2>3. new_cap[i] \in Nat /\ (new_cap[i] >= required \/ new_cap[i] > i)
    BY <1>5
  <2> QED
    BY <2>1, <2>2, <2>3
<1>6. required \in Large
  <2> HIDE DEF Large
  <2> QED
    BY <1>4, <1>5, InductionUpTo
<1> QED
  BY <1>1, <1>6

(***************************************************************************)
(* A sequence over any set is a text.                                      *)
(***************************************************************************)
LEMMA TextOf == ASSUME NEW S, NEW s \in Seq(S) PROVE Text(s) /\ ToSet(s) \subseteq S
<1>1. DOMAIN s = 1 .. Len(s) /\ Len(s) \in Nat /\ \A i \in 1 .. Len(s) : s[i] \in S
  OBVIOUS
<1>2. s = [i \in 1 .. Len(s) |-> s[i]]
  OBVIOUS
<1>3. \A i \in 1 .. Len(s) : s[i] \in ToSet(s)
  BY <1>1 DEF ToSet
<1>4. s \in Seq(ToSet(s))
  BY <1>1, <1>2, <1>3, IsASeq
<1> QED
  BY <1>1, <1>4 DEF Text, ToSet

(***************************************************************************)
(* Two texts one after the other.                                          *)
(***************************************************************************)
LEMMA TextJoins == ASSUME NEW s, NEW t, Text(s), Text(t)
                   PROVE  /\ Text(s \o t) /\ ToSet(s \o t) = ToSet(s) \cup ToSet(t)
                          /\ Len(s \o t) = Len(s) + Len(t)
<1> DEFINE S == ToSet(s) \cup ToSet(t)
<1>1. s \in Seq(S) /\ t \in Seq(S)
  BY SeqMonotonic DEF Text
<1> HIDE DEF S
<1>2. s \o t \in Seq(S) /\ ToSet(s \o t) = ToSet(s) \cup ToSet(t)
      /\ Len(s \o t) = Len(s) + Len(t)
  BY <1>1, ConcatFacts
<1> QED
  BY <1>2, TextOf

(***************************************************************************)
(* Pieces of a text, one, none, or those of two lists one after the other. *)
(***************************************************************************)
LEMMA PiecesFacts ==
  /\ Pieces(<<>>)
  /\ \A p : Text(p) => Pieces(<<p>>)
  /\ \A s, t : Pieces(s) /\ Pieces(t) => Pieces(s \o t)
<1>1. Pieces(<<>>)
  <2>1. <<>> \in Seq({}) /\ ToSet(<<>>) = {}
    BY DEF ToSet
  <2> QED
    BY <2>1 DEF Pieces, Text
<1>2. ASSUME NEW p, Text(p) PROVE Pieces(<<p>>)
  <2>1. <<p>> \in Seq({p})
    OBVIOUS
  <2>2. Text(<<p>>) /\ ToSet(<<p>>) \subseteq {p}
    BY ONLY <2>1, TextOf
  <2> QED
    BY <1>2, <2>2, Zenon DEF Pieces
<1>3. ASSUME NEW s, NEW t, Pieces(s), Pieces(t) PROVE Pieces(s \o t)
  BY <1>3, TextJoins DEF Pieces
<1> QED
  BY <1>1, <1>2, <1>3

-----------------------------------------------------------------------------
(* The pieces of a response.                                               *)

\* The equation that the function in Decimal solves, up to m.
DigitsRound(m, f) ==
  [k \in 0 .. m |-> (IF k < 10 THEN <<>> ELSE f[k \div 10]) \o <<Digit[(k % 10) + 1]>>]

(***************************************************************************)
(* It has a solution.                                                      *)
(***************************************************************************)
LEMMA DigitsRecursion == ASSUME NEW len \in Nat PROVE \E f : f = DigitsRound(len, f)
<1> DEFINE Joined(n, s) == s \o <<Digit[(n % 10) + 1]>>
           Solved == {m \in 0 .. len : \E f : f = DigitsRound(m, f)}
<1>1. 0 \in Solved
  <2> DEFINE f == [k \in 0 .. 0 |-> Joined(k, <<>>)]
  <2>1. \A k \in 0 .. 0 : k < 10
    OBVIOUS
  <2>2. f = DigitsRound(0, f)
    BY <2>1 DEF DigitsRound
  <2>3. 0 \in 0 .. len
    OBVIOUS
  <2> HIDE DEF f
  <2> QED
    BY <2>2, <2>3
<1>2. ASSUME NEW i \in 0 .. len - 1, i \in Solved PROVE i + 1 \in Solved
  <2>1. PICK f : f = DigitsRound(i, f)
    BY <1>2
  <2> DEFINE last == Joined(i + 1, IF i + 1 < 10 THEN <<>> ELSE f[(i + 1) \div 10])
             g == [k \in 0 .. i + 1 |-> IF k = i + 1 THEN last ELSE f[k]]
  <2>2. ASSUME NEW k \in 0 .. i + 1, ~(k < 10) PROVE k \div 10 \in 0 .. i /\ k \div 10 # i + 1
    BY <2>2
  <2>3. ASSUME NEW k \in 0 .. i
        PROVE  f[k] = Joined(k, IF k < 10 THEN <<>> ELSE f[k \div 10])
    BY <2>1 DEF DigitsRound
  <2> HIDE DEF Joined
  <2>4. ASSUME NEW k \in 0 .. i + 1
        PROVE  g[k] = Joined(k, IF k < 10 THEN <<>> ELSE g[k \div 10])
    <3>1. ~(k < 10) => g[k \div 10] = f[k \div 10]
      <4> SUFFICES ASSUME ~(k < 10) PROVE g[k \div 10] = f[k \div 10]
        OBVIOUS
      <4>1. PICK j : j = k \div 10
        OBVIOUS
      <4>2. j \in 0 .. i /\ j # i + 1
        BY <2>2, <4>1
      <4>3. j \in 0 .. i + 1
        BY <4>2
      <4>4. g[j] = f[j]
        BY <4>2, <4>3
      <4> QED
        BY <4>1, <4>4
    <3>2. CASE k = i + 1
      <4>1. g[k] = last
        BY <3>2
      <4> QED
        BY <3>1, <3>2, <4>1
    <3>3. CASE k # i + 1
      <4>1. k \in 0 .. i /\ g[k] = f[k]
        BY <3>3
      <4> HIDE DEF g
      <4> QED
        BY <2>3, <3>1, <4>1
    <3> QED
      BY <3>2, <3>3
  <2>5. g = [k \in 0 .. i + 1 |-> Joined(k, IF k < 10 THEN <<>> ELSE g[k \div 10])]
    BY <2>4
  <2>6. g = DigitsRound(i + 1, g)
    <3> HIDE DEF g
    <3>1. DigitsRound(i + 1, g)
            = [k \in 0 .. i + 1 |-> Joined(k, IF k < 10 THEN <<>> ELSE g[k \div 10])]
      BY DEF DigitsRound, Joined
    <3> QED
      BY <2>5, <3>1
  <2>7. i + 1 \in 0 .. len
    OBVIOUS
  <2> HIDE DEF g
  <2> QED
    BY <2>6, <2>7
<1>3. len \in Solved
  <2> HIDE DEF Solved
  <2> QED
    BY <1>1, <1>2, InductionUpTo
<1> QED
  BY <1>3

DecimalCell == {"0", "1", "2", "3", "4", "5", "6", "7", "8", "9", "-"}

(***************************************************************************)
(* %d and %zu print digits, after a sign perhaps.                          *)
(***************************************************************************)
LEMMA DecimalCells == ASSUME NEW n \in Int PROVE Decimal(n) \in Seq(DecimalCell)
<1> DEFINE size == IF n < 0 THEN -n ELSE n
           digits == CHOOSE f : f = DigitsRound(size, f)
           sign == IF n < 0 THEN <<"-">> ELSE <<>>
<1>1. size \in Nat
  OBVIOUS
<1>2. Decimal(n) = sign \o digits[size]
  BY DEF Decimal, DigitsRound
<1> HIDE DEF size
<1>3. digits = DigitsRound(size, digits)
  <2>1. \E f : f = DigitsRound(size, f)
    BY <1>1, DigitsRecursion
  <2> QED
    BY <2>1
<1> HIDE DEF digits
<1>4. ASSUME NEW k \in 0 .. size
      PROVE  digits[k] = (IF k < 10 THEN <<>> ELSE digits[k \div 10])
                         \o <<Digit[(k % 10) + 1]>>
  BY <1>3 DEF DigitsRound
<1>5. ASSUME NEW k \in Nat PROVE <<Digit[(k % 10) + 1]>> \in Seq(DecimalCell)
  <2>1. PICK j \in 0 .. 9 : j = k % 10
    OBVIOUS
  <2>2. Digit[j + 1] \in DecimalCell
    BY DEF Digit, DecimalCell
  <2> HIDE DEF DecimalCell
  <2> QED
    BY <2>1, <2>2
<1> DEFINE Good == {m \in 0 .. size : \A k \in 0 .. m : digits[k] \in Seq(DecimalCell)}
<1>6. ASSUME NEW k \in 0 .. size,
             ~(k < 10) => digits[k \div 10] \in Seq(DecimalCell)
      PROVE  digits[k] \in Seq(DecimalCell)
  <2>1. PICK a, b : a = (IF k < 10 THEN <<>> ELSE digits[k \div 10])
                    /\ b = <<Digit[(k % 10) + 1]>>
    OBVIOUS
  <2>2. b \in Seq(DecimalCell)
    BY <1>1, <1>5, <2>1
  <2>3. a \in Seq(DecimalCell)
    <3>1. <<>> \in Seq(DecimalCell)
      OBVIOUS
    <3> QED
      BY <1>6, <2>1, <3>1
  <2>4. (a \o b) \in Seq(DecimalCell)
    BY ONLY <2>2, <2>3, ConcatFacts
  <2> QED
    BY <1>4, <2>1, <2>4, Zenon
<1>7. 0 \in Good
  <2>1. 0 \in 0 .. size /\ 0 < 10 /\ \A k \in 0 .. 0 : k = 0
    BY <1>1
  <2> QED
    BY <1>6, <2>1
<1>8. ASSUME NEW i \in 0 .. size - 1, i \in Good PROVE i + 1 \in Good
  <2>1. i + 1 \in 0 .. size /\ i \in Nat
    BY <1>1
  <2>2. ~(i + 1 < 10) => (i + 1) \div 10 \in 0 .. i
    BY <2>1
  <2>3. \A k \in 0 .. i : digits[k] \in Seq(DecimalCell)
    BY <1>8
  <2>4. digits[i + 1] \in Seq(DecimalCell)
    BY <1>6, <2>1, <2>2, <2>3
  <2>5. \A k \in 0 .. i + 1 : k \in 0 .. i \/ k = i + 1
    BY <2>1
  <2> QED
    BY <2>1, <2>3, <2>4, <2>5
<1>9. digits[size] \in Seq(DecimalCell)
  <2>1. 0 .. size \subseteq Good
    <3> HIDE DEF Good
    <3> QED
      BY <1>1, <1>7, <1>8, InductionUpTo
  <2>2. size \in 0 .. size
    BY <1>1
  <2> QED
    BY <2>1, <2>2
<1>10. sign \in Seq(DecimalCell)
  BY DEF DecimalCell
<1> HIDE DEF sign
<1>11. (sign \o digits[size]) \in Seq(DecimalCell)
  <2>1. PICK d : d = digits[size]
    OBVIOUS
  <2>2. (sign \o d) \in Seq(DecimalCell)
    BY ONLY <1>9, <1>10, <2>1, ConcatFacts
  <2> QED
    BY <2>1, <2>2
<1> QED
  BY <1>2, <1>11

(***************************************************************************)
(* The pieces of a JSON string, of a record and of the rows.               *)
(***************************************************************************)
LEMMA JsonStringPieces ==
  ASSUME NEW s, Text(s) PROVE Pieces(json_buffer_append_json_string(s))
<1> DEFINE body == [i \in DOMAIN s |-> Cells(s[i])]
<1>1. Len(s) \in Nat /\ DOMAIN s = 1 .. Len(s)
  BY DEF Text
<1>2. \A c : Text(Cells(c))
  <2>1. ASSUME NEW c PROVE \E S : Cells(c) \in Seq(S)
    <3> DEFINE S == {Escape, Quote, "n", "u", "0", "1", "f", c}
    <3>1. \/ Cells(c) \in {<<Escape, Escape>>, <<Escape, Quote>>, <<Escape, "n">>, <<c>>}
          \/ Cells(c) = <<Escape, "u", "0", "0", "1", "f">>
      BY DEF Cells
    <3>2. /\ <<Escape, Escape>> \in Seq(S) /\ <<Escape, Quote>> \in Seq(S)
          /\ <<Escape, "n">> \in Seq(S) /\ <<c>> \in Seq(S)
          /\ <<Escape, "u", "0", "0", "1", "f">> \in Seq(S)
      OBVIOUS
    <3> HIDE DEF S
    <3> QED
      BY <3>1, <3>2
  <2> QED
    BY <2>1, TextOf
<1>3. Pieces(body)
  <2> DEFINE S == {Cells(s[i]) : i \in DOMAIN s}
  <2>1. body \in Seq(S)
    <3>1. \A i \in 1 .. Len(s) : Cells(s[i]) \in S
      BY <1>1
    <3>2. body = [i \in 1 .. Len(s) |-> Cells(s[i])]
      BY <1>1
    <3> HIDE DEF S, body
    <3> QED
      BY <1>1, <3>1, <3>2, IsASeq
  <2>2. \A p \in S : Text(p)
    BY <1>2
  <2> HIDE DEF S, body
  <2> QED
    BY <2>1, <2>2, TextOf DEF Pieces
<1>4. Pieces(<<<<Quote>>>>)
  <2>1. <<Quote>> \in Seq({Quote})
    OBVIOUS
  <2> QED
    BY <2>1, TextOf, PiecesFacts
<1> HIDE DEF body
<1>5. Pieces(<<<<Quote>>>> \o body \o <<<<Quote>>>>)
  BY <1>3, <1>4, PiecesFacts
<1> QED
  BY <1>5 DEF json_buffer_append_json_string, body

LEMMA NumberText ==
  ASSUME NEW a, NEW n \in Int, NEW b
  PROVE  Text(<<a>> \o Decimal(n) \o <<b>>)
<1>1. ASSUME NEW x PROVE Text(<<x>>)
  <2>1. <<x>> \in Seq({x})
    OBVIOUS
  <2> QED
    BY <2>1, TextOf
<1>2. Text(Decimal(n))
  BY DecimalCells, TextOf
<1>3. PICK d : d = Decimal(n)
  OBVIOUS
<1>4. Text(<<a>> \o d)
  BY <1>1, <1>2, <1>3, TextJoins
<1>5. PICK l : l = <<a>> \o d
  OBVIOUS
<1>6. Text(l \o <<b>>)
  BY <1>1, <1>4, <1>5, TextJoins
<1> QED
  BY <1>3, <1>5, <1>6, Zenon

LEMMA RecordPieces ==
  ASSUME NEW r \in Rec PROVE Pieces(api_append_record(r))
<1> DEFINE open == <<"{id:">> \o Decimal(r.id) \o <<",name:">>
           close == <<",age:">> \o Decimal(r.data.age) \o <<"}">>
           string == json_buffer_append_json_string(r.data.name)
<1>1. r.id \in Int /\ r.data.age \in Int /\ r.data.name \in Seq(STRING)
  BY DEF Rec
<1>2. Text(open)
  BY <1>1, NumberText
<1>3. Text(close)
  BY <1>1, NumberText
<1>4. Pieces(string)
  BY <1>1, TextOf, JsonStringPieces
<1> HIDE DEF open, close, string
<1>5. Pieces(<<open>> \o string \o <<close>>)
  BY <1>2, <1>3, <1>4, PiecesFacts
<1> QED
  BY <1>5 DEF open, close, string, api_append_record

\* The equation that the function in api_append_rows solves, up to m.
RowsRound(rows, m, f) ==
  [n \in 0 .. m |->
    IF n = 0 THEN <<>>
    ELSE f[n - 1] \o (IF n > 1 THEN <<<<",">>>> ELSE <<>>)
         \o api_append_record(rows[n])]

(***************************************************************************)
(* It has a solution.                                                      *)
(***************************************************************************)
LEMMA RowsRecursion ==
  ASSUME NEW rows, NEW len \in Nat
  PROVE  \E f : f = RowsRound(rows, len, f)
<1> DEFINE Joined(n, s) == s \o (IF n > 1 THEN <<<<",">>>> ELSE <<>>)
                           \o api_append_record(rows[n])
           Solved == {m \in 0 .. len : \E f : f = RowsRound(rows, m, f)}
<1>1. 0 \in Solved
  <2> DEFINE f == [n \in 0 .. 0 |-> <<>>]
  <2>1. f = RowsRound(rows, 0, f)
    BY DEF RowsRound
  <2>2. 0 \in 0 .. len
    OBVIOUS
  <2> HIDE DEF f
  <2> QED
    BY <2>1, <2>2
<1>2. ASSUME NEW i \in 0 .. len - 1, i \in Solved PROVE i + 1 \in Solved
  <2>1. PICK f : f = RowsRound(rows, i, f)
    BY <1>2
  <2> DEFINE g == [n \in 0 .. i + 1 |-> IF n = i + 1 THEN Joined(i + 1, f[i]) ELSE f[n]]
  <2>2. ASSUME NEW n \in 0 .. i
        PROVE  f[n] = IF n = 0 THEN <<>> ELSE Joined(n, f[n - 1])
    BY <2>1 DEF RowsRound
  <2>3. ASSUME NEW n \in 0 .. i + 1
        PROVE  g[n] = IF n = 0 THEN <<>> ELSE Joined(n, g[n - 1])
    <3> HIDE DEF Joined
    <3>1. CASE n = i + 1
      <4>1. n # 0 /\ n - 1 = i /\ i \in 0 .. i + 1 /\ i # i + 1
        BY <3>1
      <4>2. g[n] = Joined(i + 1, f[i]) /\ g[n - 1] = f[i]
        BY <3>1, <4>1
      <4> QED
        BY <3>1, <4>1, <4>2
    <3>2. CASE n # i + 1
      <4>1. n \in 0 .. i /\ (n # 0 => n - 1 \in 0 .. i)
        BY <3>2
      <4>2. g[n] = f[n] /\ (n # 0 => g[n - 1] = f[n - 1])
        BY <3>2, <4>1
      <4> QED
        BY <2>2, <4>1, <4>2
    <3> QED
      BY <3>1, <3>2
  <2>4. g = [n \in 0 .. i + 1 |-> IF n = 0 THEN <<>> ELSE Joined(n, g[n - 1])]
    <3> HIDE DEF Joined
    <3> QED
      BY <2>3
  <2>5. g = RowsRound(rows, i + 1, g)
    <3>1. RowsRound(rows, i + 1, g)
            = [n \in 0 .. i + 1 |-> IF n = 0 THEN <<>> ELSE Joined(n, g[n - 1])]
      <4> HIDE DEF g
      <4> QED
        BY DEF RowsRound
    <3> HIDE DEF g, Joined
    <3> QED
      BY <2>4, <3>1
  <2>6. i + 1 \in 0 .. len
    OBVIOUS
  <2> HIDE DEF g
  <2> QED
    BY <2>5, <2>6
<1>3. len \in Solved
  <2> HIDE DEF Solved
  <2> QED
    BY <1>1, <1>2, InductionUpTo
<1> QED
  BY <1>3

LEMMA RowsPieces ==
  ASSUME NEW rows \in Seq(Rec) PROVE Pieces(api_append_rows(rows))
<1> DEFINE len == Len(rows)
           appended == CHOOSE f : f = RowsRound(rows, len, f)
           Done == {n \in 0 .. len : Pieces(appended[n])}
<1>1. len \in Nat /\ \A i \in 1 .. len : rows[i] \in Rec
  OBVIOUS
<1>2. api_append_rows(rows) = appended[len]
  BY DEF api_append_rows, RowsRound
<1>3. appended = RowsRound(rows, len, appended)
  <2>1. \E f : f = RowsRound(rows, len, f)
    BY <1>1, RowsRecursion
  <2> QED
    BY <2>1
<1> HIDE DEF appended, len
<1>4. ASSUME NEW n \in 0 .. len
      PROVE  appended[n] = IF n = 0 THEN <<>>
                           ELSE appended[n - 1] \o (IF n > 1 THEN <<<<",">>>> ELSE <<>>)
                                \o api_append_record(rows[n])
  BY <1>3 DEF RowsRound
<1>5. 0 \in Done
  <2>1. 0 \in 0 .. len
    BY <1>1
  <2>2. appended[0] = <<>>
    BY <1>4, <2>1
  <2> QED
    BY <2>1, <2>2, PiecesFacts
<1>6. ASSUME NEW i \in 0 .. len - 1, i \in Done PROVE i + 1 \in Done
  <2> DEFINE comma == IF i + 1 > 1 THEN <<<<",">>>> ELSE <<>>
             record == api_append_record(rows[i + 1])
  <2>1. i + 1 \in 0 .. len /\ i + 1 # 0 /\ (i + 1) - 1 = i /\ rows[i + 1] \in Rec
    BY <1>1
  <2>2. appended[i + 1] = appended[i] \o comma \o record
    BY <1>4, <2>1
  <2>3. Pieces(comma)
    <3>1. <<",">> \in Seq({","})
      OBVIOUS
    <3>2. Pieces(<<<<",">>>>)
      BY <3>1, TextOf, PiecesFacts
    <3> QED
      BY <3>2, PiecesFacts
  <2>4. Pieces(record)
    BY <2>1, RecordPieces
  <2>5. Pieces(appended[i])
    BY <1>6
  <2> HIDE DEF comma, record
  <2> QED
    BY <2>1, <2>2, <2>3, <2>4, <2>5, PiecesFacts
<1>7. len \in Done
  <2> HIDE DEF Done
  <2>1. len \in Nat /\ len \in 0 .. len
    BY <1>1
  <2>2. 0 .. len \subseteq Done
    BY <1>5, <1>6, <2>1, InductionUpTo
  <2> QED
    BY <2>1, <2>2
<1> QED
  BY <1>2, <1>7

(***************************************************************************)
(* The pieces of a response.                                               *)
(***************************************************************************)
LEMMA ResponsePieces ==
  ASSUME sql_result.rows \in Seq(Rec), sql_result.status \in Status,
         parse_result.near \in Seq(STRING), parse_result.error_code \in Nat,
         sql_result.inserted_id \in Nat, sql_result.row_count \in Nat
  PROVE  Pieces(Response)
<1>1. ASSUME NEW x PROVE Text(<<x>>) /\ Pieces(json_buffer_append_json_string(<<x>>))
  <2>1. <<x>> \in Seq({x})
    OBVIOUS
  <2> QED
    BY <2>1, TextOf, JsonStringPieces
<1>2. ASSUME NEW n \in Nat, NEW x, NEW y PROVE Text(<<x>> \o Decimal(n) \o <<y>>)
  <2>1. n \in Int
    OBVIOUS
  <2> QED
    BY ONLY <2>1, NumberText
<1>3. Pieces(api_build_success_response)
  <2> DEFINE head == <<"{ok:true,action:">>
             action == json_buffer_append_json_string(<<sql_result.action>>)
             insert == <<",inserted_id:">> \o Decimal(sql_result.inserted_id)
                       \o <<",row_count:">> \o Decimal(sql_result.row_count) \o <<"}">>
             select == <<",row_count:">> \o Decimal(sql_result.row_count) \o <<",rows:[">>
             rows == api_append_rows(sql_result.rows)
             last == <<"]}">>
  <2>1. Text(insert)
    <3>1. PICK a : a = <<",inserted_id:">> \o Decimal(sql_result.inserted_id)
                       \o <<",row_count:">>
      OBVIOUS
    <3>2. Text(a)
      BY <1>2, <3>1
    <3>3. PICK d : d = Decimal(sql_result.row_count)
      OBVIOUS
    <3>4. Text(d)
      <4>1. sql_result.row_count \in Int
        OBVIOUS
      <4> QED
        BY <3>3, <4>1, DecimalCells, TextOf
    <3>5. Text(a \o d)
      BY <3>2, <3>4, TextJoins
    <3>6. PICK l : l = a \o d
      OBVIOUS
    <3>7. Text(l \o <<"}">>)
      BY <1>1, <3>5, <3>6, TextJoins
    <3> QED
      BY <3>1, <3>3, <3>6, <3>7, Zenon
  <2>2. Text(head) /\ Text(select) /\ Text(last) /\ Pieces(action) /\ Pieces(rows)
    BY <1>1, <1>2, RowsPieces
  <2> HIDE DEF head, action, insert, select, rows, last
  <2>3. Pieces(<<head>> \o action \o <<insert>>)
    BY <2>1, <2>2, PiecesFacts
  <2>4. Pieces(<<head>> \o action \o (<<select>> \o rows \o <<last>>))
    <3>1. Pieces(<<select>> \o rows \o <<last>>)
      BY <2>2, PiecesFacts
    <3> QED
      BY <2>2, <3>1, PiecesFacts
  <2>5. api_build_success_response = <<head>> \o action \o
          (IF sql_result.action = "insert" THEN <<insert>>
           ELSE <<select>> \o rows \o <<last>>)
    BY DEF api_build_success_response, head, action, insert, select, rows, last
  <2> QED
    BY <2>3, <2>4, <2>5
<1>4. Pieces(api_build_error_response)
  <2> DEFINE head == <<"{ok:false,status:">>
             status == json_buffer_append_json_string(<<sql_result.status>>)
             code == <<",error_code:">> \o Decimal(parse_result.error_code)
                     \o <<",sql_state:">>
             state == json_buffer_append_json_string(
                        <<IF parse_result.error_code = 1064 THEN "42000" ELSE "42S22">>)
             middle == <<",message:">>
             message == json_buffer_append_json_string(ErrorMessage)
             last == <<"}">>
  <2>1. Pieces(message)
    <3>1. Text(parse_result.near)
      BY TextOf
    <3>2. Text(<<"message">>)
      BY <1>1
    <3>3. Text(ErrorMessage)
      BY <3>1, <3>2, TextJoins DEF ErrorMessage
    <3> QED
      BY <3>3, JsonStringPieces
  <2>2. Text(head) /\ Text(code) /\ Text(middle) /\ Text(last)
        /\ Pieces(status)
    BY <1>1, <1>2
  <2>3. Pieces(state)
    <3> DEFINE x == IF parse_result.error_code = 1064 THEN "42000" ELSE "42S22"
    <3>1. Pieces(json_buffer_append_json_string(<<x>>))
      <4> HIDE DEF x
      <4> QED
        BY <1>1
    <3> QED
      BY <3>1
  <2>4. api_build_error_response
          = <<head>> \o status \o <<code>> \o state \o <<middle>> \o message \o <<last>>
    BY DEF api_build_error_response
  <2> HIDE DEF head, status, code, state, middle, message, last
  <2>5. Pieces(<<head>> \o status \o <<code>> \o state)
    BY <2>2, <2>3, PiecesFacts
  <2>6. Pieces(<<head>> \o status \o <<code>> \o state \o <<middle>> \o message \o <<last>>)
    BY <2>1, <2>2, <2>5, PiecesFacts
  <2> QED
    BY <2>4, <2>6
<1>5. \A x : Pieces(<<<<x>>>>)
  BY <1>1, PiecesFacts
<1> QED
  BY <1>3, <1>4, <1>5 DEF Response, Status

(***************************************************************************)
(* The excerpt in an error message is a text.                              *)
(***************************************************************************)
LEMMA ExcerptFacts ==
  ASSUME ParserTypes
  PROVE  sql_build_near_excerpt \in Seq(STRING)
<1>1. CASE ~Asks \/ Next1.kind # "string"
  <2>1. sql_build_near_excerpt = <<>>
    BY <1>1 DEF sql_build_near_excerpt
  <2> QED
    BY <2>1
<1>2. CASE ~(~Asks \/ Next1.kind # "string")
  <2>1. Next1 \in Token
    BY <1>2 DEF ParserTypes, Asks, Next1
  <2>2. Next1.chars \in Seq(STRING)
    BY <1>2, <2>1, TokenFacts
  <2> DEFINE line == FirstLine(FromCursor)
  <2>3. FromCursor \in Seq(STRING)
    <3>1. SubSeq(Next1.chars, RECORD_NAME_SIZE, Len(Next1.chars)) \in Seq(STRING)
      BY <2>2, SizeAssumption
    <3> QED
      BY <2>2, <3>1 DEF FromCursor
  <2>4. line \in Seq(STRING)
    <3> DEFINE s == FromCursor
               ends == {i \in DOMAIN s : s[i] = "\n"}
    <3> HIDE DEF s
    <3>1. s \in Seq(STRING) /\ DOMAIN s = 1 .. Len(s) /\ Len(s) \in Nat
      BY <2>3 DEF s
    <3>2. CASE ends = {}
      BY <3>1, <3>2 DEF FirstLine, s
    <3>3. CASE ends # {}
      <4>1. ends \in SUBSET Nat /\ ends \subseteq 1 .. Len(s)
        BY <3>1
      <4>2. FirstLine(s) = SubSeq(s, 1, Min(ends) - 1)
        BY <3>3 DEF FirstLine
      <4> HIDE DEF ends
      <4>3. Min(ends) \in 1 .. Len(s)
        BY <3>3, <4>1, MinFacts
      <4>4. SubSeq(s, 1, Min(ends) - 1) \in Seq(STRING)
        BY <3>1, <4>3
      <4> QED
        BY <4>2, <4>4 DEF s
    <3> QED
      BY <3>2, <3>3
  <2>5. sql_build_near_excerpt = SubSeq(line, 1, Min({Len(line), NEAR_SIZE - 1}))
    BY <1>2 DEF sql_build_near_excerpt
  <2> HIDE DEF line
  <2>6. Min({Len(line), NEAR_SIZE - 1}) \in 0 .. Len(line)
    <3>1. {Len(line), NEAR_SIZE - 1} \in SUBSET Nat
      BY <2>4, SizeAssumption
    <3>2. /\ Min({Len(line), NEAR_SIZE - 1}) \in {Len(line), NEAR_SIZE - 1}
          /\ \A k \in {Len(line), NEAR_SIZE - 1} : Min({Len(line), NEAR_SIZE - 1}) <= k
      BY <3>1, MinFacts
    <3> QED
      BY <2>4, <3>1, <3>2
  <2> DEFINE m == Min({Len(line), NEAR_SIZE - 1})
  <2>7. SubSeq(line, 1, m) \in Seq(STRING)
    <3> HIDE DEF m
    <3>1. m \in 0 .. Len(line)
      BY <2>6 DEF m
    <3> QED
      BY <2>4, <3>1
  <2> QED
    BY <2>5, <2>7
<1> QED
  BY <1>1, <1>2

(***************************************************************************)
(* The rows a SELECT finds are rows.                                       *)
(***************************************************************************)
LEMMA MatchingRecords ==
  ASSUME NEW q, NEW s \in Seq(Rec) PROVE MatchingRows(q, s) \in Seq(Rec)
<1> DEFINE len == Len(s)
           found == CHOOSE f : f = MatchingRound(q, s, len, f)
           Good == {n \in 0 .. len : found[n] \in Seq(Rec)}
<1>1. len \in Nat /\ \A i \in 1 .. len : s[i] \in Rec
  OBVIOUS
<1>2. MatchingRows(q, s) = found[len]
  BY DEF MatchingRows, MatchingRound
<1>3. found = MatchingRound(q, s, len, found)
  <2>1. \E f : f = MatchingRound(q, s, len, f)
    BY <1>1, MatchingRecursion
  <2> QED
    BY <2>1
<1> HIDE DEF found, len
<1>4. ASSUME NEW n \in 0 .. len
      PROVE  found[n] = IF n = 0 THEN <<>>
                        ELSE IF Matches(q, s[n]) THEN Append(found[n - 1], s[n])
                        ELSE found[n - 1]
  BY <1>3 DEF MatchingRound
<1>5. 0 \in Good
  <2>1. 0 \in 0 .. len /\ <<>> \in Seq(Rec)
    BY <1>1
  <2>2. found[0] = <<>>
    BY <1>4, <2>1
  <2> QED
    BY <2>1, <2>2
<1>6. ASSUME NEW i \in 0 .. len - 1, i \in Good PROVE i + 1 \in Good
  <2>1. i + 1 \in 0 .. len /\ i + 1 # 0 /\ (i + 1) - 1 = i /\ s[i + 1] \in Rec
    BY <1>1
  <2>2. found[i + 1] = IF Matches(q, s[i + 1]) THEN Append(found[i], s[i + 1]) ELSE found[i]
    BY <1>4, <2>1
  <2>3. found[i] \in Seq(Rec) /\ Append(found[i], s[i + 1]) \in Seq(Rec)
    BY <1>6, <2>1
  <2> QED
    BY <2>1, <2>2, <2>3
<1>7. len \in Good
  <2> HIDE DEF Good
  <2>1. len \in Nat /\ len \in 0 .. len
    BY <1>1
  <2>2. 0 .. len \subseteq Good
    BY <1>5, <1>6, <2>1, InductionUpTo
  <2> QED
    BY <2>1, <2>2
<1> QED
  BY <1>2, <1>7

-----------------------------------------------------------------------------
(* What a step of the parser does, in short.                               *)

\* A token is taken, and with it perhaps a value.
Advance(places) == /\ Asks /\ cursor' = cursor + 1
                   /\ at' \in places
                   /\ command' \in Command
                   /\ UNCHANGED <<text, goal, parse_result>>
InsertStep == /\ at \in InsertPlace
              /\ Advance(InsertPlace \cup {"end"}) \/ SyntaxError
SelectStep == /\ at \in SelectPlace
              /\ \/ Advance(SelectPlace \cup {"end"}) \/ SyntaxError \/ UnknownColumn
                 \/ /\ at' \in SelectPlace
                    /\ goal' \in SelectGoal
                    /\ UNCHANGED <<text, cursor, command, parse_result>>

(***************************************************************************)
(* What a token the parser takes is turned into.                           *)
(***************************************************************************)
LEMMA Filled ==
  ASSUME ParserTypes, Asks
  PROVE  /\ sql_parse_string(Next1) =>
              /\ [command EXCEPT !.name = Next1.chars] \in Command
              /\ [command EXCEPT !.text_value = Next1.chars] \in Command
         /\ Next1.kind = "int" =>
              [command EXCEPT !.int_value = sql_parse_int(Next1)] \in Command
         /\ sql_parse_identifier(Next1) =>
              [command EXCEPT !.where_column = Next1.text] \in Command
         /\ Next1.kind = "mark" /\ Next1.text \in Comparison =>
              [command EXCEPT !.comparison = sql_parse_comparison(Next1)] \in Command
<1>1. Next1 \in Token /\ command \in Command
  BY DEF ParserTypes, Asks, Next1
<1>2. ASSUME sql_parse_string(Next1)
      PROVE  /\ [command EXCEPT !.name = Next1.chars] \in Command
             /\ [command EXCEPT !.text_value = Next1.chars] \in Command
  <2>1. Next1.chars \in Seq(STRING)
    BY <1>1, <1>2, TokenFacts DEF sql_parse_string
  <2> QED
    BY <1>1, <2>1 DEF Command
<1>3. ASSUME Next1.kind = "int"
      PROVE  [command EXCEPT !.int_value = sql_parse_int(Next1)] \in Command
  <2>1. Next1.number \in Int
    BY <1>1, <1>3, TokenFacts
  <2>2. sql_parse_int(Next1) \in INT_MIN .. INT_MAX
    BY <2>1, IntFacts DEF sql_parse_int
  <2> QED
    BY <1>1, <2>2 DEF Command
<1>4. ASSUME sql_parse_identifier(Next1)
      PROVE  [command EXCEPT !.where_column = Next1.text] \in Command
  <2>1. Next1.text \in Vocabulary
    BY <1>1, <1>4, TokenFacts DEF sql_parse_identifier
  <2> QED
    BY <1>1, <2>1 DEF Command
<1>5. ASSUME Next1.kind = "mark", Next1.text \in Comparison
      PROVE  [command EXCEPT !.comparison = sql_parse_comparison(Next1)] \in Command
  <2>1. sql_parse_comparison(Next1) \in {"=="} \cup Comparison
    BY <1>5 DEF sql_parse_comparison
  <2> QED
    BY <1>1, <2>1 DEF Command
<1> QED
  BY <1>2, <1>3, <1>4, <1>5

(***************************************************************************)
(* The productions of sql_parse_insert.                                    *)
(***************************************************************************)
LEMMA InsertSteps == ASSUME ParserTypes, sql_parse_insert PROVE InsertStep
<1>1. command \in Command
  BY DEF ParserTypes
<1>2. CASE Keyword("into", "INTO", "insert_table")
  BY <1>1, <1>2 DEF Keyword, Expect, At, Take, InsertStep, Advance, InsertPlace
<1>3. CASE TableName("insert_table", "values")
  BY <1>1, <1>3 DEF TableName, Expect, At, Take, InsertStep, Advance, InsertPlace
<1>4. CASE Keyword("values", "VALUES", "open")
  BY <1>1, <1>4 DEF Keyword, Expect, At, Take, InsertStep, Advance, InsertPlace
<1>5. CASE Char("open", "(", "name")
  BY <1>1, <1>5 DEF Char, Expect, At, Take, InsertStep, Advance, InsertPlace
<1>6. CASE Expect("name", sql_parse_string, "comma",
                  [command EXCEPT !.name = Next1.chars])
  BY <1>6, Filled DEF Expect, At, Take, InsertStep, Advance, InsertPlace
<1>7. CASE Char("comma", ",", "age")
  BY <1>1, <1>7 DEF Char, Expect, At, Take, InsertStep, Advance, InsertPlace
<1>8. CASE Expect("age", LAMBDA t : t.kind = "int", "close",
                  [command EXCEPT !.int_value = sql_parse_int(Next1)])
  BY <1>8, Filled DEF Expect, At, Take, InsertStep, Advance, InsertPlace
<1>9. CASE Char("close", ")", "end")
  BY <1>1, <1>9 DEF Char, Expect, At, Take, InsertStep, Advance, InsertPlace
<1> QED
  BY <1>2, <1>3, <1>4, <1>5, <1>6, <1>7, <1>8, <1>9 DEF sql_parse_insert

(***************************************************************************)
(* The productions of sql_parse_select.                                    *)
(***************************************************************************)
LEMMA SelectSteps == ASSUME ParserTypes, sql_parse_select PROVE SelectStep
<1>1. command \in Command
  BY DEF ParserTypes
<1>2. CASE SelectFields
  BY <1>1, <1>2 DEF SelectFields, At, Take, Enter, SelectStep, Advance, SelectPlace
<1>3. CASE Keyword("from", "FROM", "select_table")
  BY <1>1, <1>3 DEF Keyword, Expect, At, Take, SelectStep, Advance, SelectPlace
<1>4. CASE TableName("select_table", "end")
  BY <1>1, <1>4 DEF TableName, Expect, At, Take, SelectStep, Advance, SelectPlace
<1>5. CASE Keyword("where", "WHERE", "column")
  BY <1>1, <1>5 DEF Keyword, Expect, At, Take, SelectStep, Advance, SelectPlace
<1>6. CASE Expect("column", sql_parse_identifier, "comparison",
                  [command EXCEPT !.where_column = Next1.text])
  BY <1>6, Filled DEF Expect, At, Take, SelectStep, Advance, SelectPlace
<1>7. CASE WhereComparison
  BY <1>7, Filled DEF WhereComparison, At, Take, SelectStep, Advance, SelectPlace
<1>8. CASE JudgeColumn
  <2>1. sql_is_known_column(Word(command.where_column)) =>
          WhereOf(command.where_column) \in SelectGoal
    BY DEF sql_is_known_column, Word, WhereOf, SelectGoal
  <2> QED
    BY <1>8, <2>1 DEF JudgeColumn, SelectStep, SelectPlace
<1>9. CASE Expect("int_value", LAMBDA t : t.kind = "int", "end",
                  [command EXCEPT !.int_value = sql_parse_int(Next1)])
  BY <1>9, Filled DEF Expect, At, Take, SelectStep, Advance, SelectPlace
<1>10. CASE Expect("text_value", sql_parse_string, "end",
                   [command EXCEPT !.text_value = Next1.chars])
  BY <1>10, Filled DEF Expect, At, Take, SelectStep, Advance, SelectPlace
<1> QED
  BY <1>2, <1>3, <1>4, <1>5, <1>6, <1>7, <1>8, <1>9, <1>10 DEF sql_parse_select

(***************************************************************************)
(* Giving up leaves everything well typed.                                 *)
(***************************************************************************)
LEMMA RejectTypes ==
  ASSUME ParserTypes, SyntaxError \/ UnknownColumn
  PROVE  ParserTypes' /\ at' = "rejected" /\ UNCHANGED <<text, cursor, goal, command>>
<1>1. sql_build_near_excerpt \in Seq(STRING) /\ <<>> \in Seq(STRING)
  BY ExcerptFacts
<1>2. /\ parse_result'.status \in Status /\ parse_result'.near \in Seq(STRING)
      /\ parse_result'.error_code \in Nat
  <2>1. CASE SyntaxError
    <3>1. parse_result' = [type |-> "NONE", status |-> "SYNTAX_ERROR", error_code |-> 1064,
                           near |-> sql_build_near_excerpt]
      BY <2>1 DEF SyntaxError, Reject
    <3> QED
      BY <1>1, <3>1 DEF Status
  <2>2. CASE UnknownColumn
    <3>1. parse_result' = [type |-> "NONE", status |-> "QUERY_ERROR", error_code |-> 1054,
                           near |-> <<>>]
      BY <2>2 DEF UnknownColumn, Reject
    <3> QED
      BY <1>1, <3>1 DEF Status
  <2> QED
    BY <2>1, <2>2
<1> QED
  BY <1>2 DEF SyntaxError, UnknownColumn, Reject, ParserTypes, Place

(***************************************************************************)
(* The type invariant of the parser is kept by its steps.                  *)
(***************************************************************************)
LEMMA ParserTypesStep == ASSUME ParserTypes, ParserStep PROVE ParserTypes'
<1>1. /\ text \in Seq(Token) /\ cursor \in 1 .. Len(text) + 1 /\ at \in Place
      /\ goal \in Goal /\ command \in Command
      /\ parse_result.status \in Status /\ parse_result.near \in Seq(STRING)
      /\ parse_result.error_code \in Nat /\ Len(text) \in Nat
  BY DEF ParserTypes
<1>2. ASSUME NEW t \in Token, Write(t) PROVE ParserTypes'
  BY <1>1, <1>2 DEF Write, ParserTypes
<1>3. CASE sql_skip_spaces
  BY <1>1, <1>3 DEF sql_skip_spaces, Take, Asks, ParserTypes
<1>4. CASE sql_parse
  <2>1. CASE SyntaxError
    BY <2>1, RejectTypes
  <2>2. CASE /\ at' \in Place /\ goal' \in Goal /\ Asks /\ Take
             /\ UNCHANGED <<text, command, parse_result>>
    BY <1>1, <2>2 DEF Take, Asks, ParserTypes
  <2> QED
    BY <1>4, <2>1, <2>2 DEF sql_parse, Enter, Place, InsertPlace, SelectPlace, Goal, SelectGoal
<1>5. CASE sql_match_statement_end
  <2>1. CASE SyntaxError
    BY <2>1, RejectTypes
  <2>2. CASE Enter("semicolon", goal)
    <3>1. Asks
      BY <1>5 DEF sql_match_statement_end
    <3> QED
      BY <1>1, <2>2, <3>1 DEF Enter, Take, Asks, ParserTypes, Place
  <2>3. CASE at' = "where" /\ UNCHANGED <<text, cursor, goal, command, parse_result>>
    BY <1>1, <2>3 DEF ParserTypes, Place, SelectPlace
  <2>4. CASE /\ at' = "parsed"
             /\ parse_result' = [type |-> goal, error_code |-> 0, near |-> <<>>,
                                 status |-> IF goal = "EXIT" THEN "EXIT" ELSE "OK"]
             /\ UNCHANGED <<text, cursor, goal, command>>
    <3>1. /\ parse_result'.status \in Status /\ parse_result'.near \in Seq(STRING)
          /\ parse_result'.error_code \in Nat
      BY <2>4 DEF Status
    <3> QED
      BY <1>1, <2>4, <3>1 DEF ParserTypes, Place
  <2> QED
    BY <1>5, <2>1, <2>2, <2>3, <2>4 DEF sql_match_statement_end
<1>6. ASSUME NEW places \in SUBSET Place, Advance(places) PROVE ParserTypes'
  BY <1>1, <1>6 DEF Advance, Asks, ParserTypes
<1>7. InsertPlace \cup {"end"} \in SUBSET Place /\ SelectPlace \cup {"end"} \in SUBSET Place
  BY DEF Place
<1>8. CASE sql_parse_insert
  <2>1. InsertStep
    BY <1>8, InsertSteps
  <2> QED
    BY <1>6, <1>7, <2>1, RejectTypes DEF InsertStep
<1>9. CASE sql_parse_select
  <2>1. SelectStep
    BY <1>9, SelectSteps
  <2>2. CASE /\ at' \in SelectPlace /\ goal' \in SelectGoal
             /\ UNCHANGED <<text, cursor, command, parse_result>>
    BY <1>1, <2>2 DEF ParserTypes, Place, Goal
  <2> QED
    BY <1>6, <1>7, <2>1, <2>2, RejectTypes DEF SelectStep
<1> QED
  BY <1>2, <1>3, <1>4, <1>5, <1>8, <1>9 DEF ParserStep

(***************************************************************************)
(* A token that is added leaves the beginning of the text as it is.        *)
(***************************************************************************)
LEMMA BeginningStays ==
  ASSUME ParserTypes, text' = text \/ \E t \in Token : text' = Append(text, t)
  PROVE  /\ Len(text') >= Len(text)
         /\ \A i \in 1 .. Len(text) : text'[i] = text[i]
         /\ \A words : StartsWith(words) => StartsWith(words)'
         /\ Begun /\ goal' = goal => Begun'
<1>1. text \in Seq(Token) /\ Len(text) \in Nat
  BY DEF ParserTypes
<1>2. Len(text') >= Len(text) /\ \A i \in 1 .. Len(text) : text'[i] = text[i]
  BY <1>1
<1>3. Len(text') \in Nat
  BY <1>1
<1>4. ASSUME NEW words, StartsWith(words) PROVE StartsWith(words)'
  BY <1>1, <1>2, <1>3, <1>4 DEF StartsWith
<1>5. ASSUME Begun, goal' = goal PROVE Begun'
  BY <1>4, <1>5 DEF Begun
<1> QED
  BY <1>2, <1>4, <1>5

(***************************************************************************)
(* Where the parser is keeps telling what the text began with.             *)
(***************************************************************************)
LEMMA OriginStep ==
  ASSUME ParserTypes, Origin, ParserStep, phase = "parse", phase' = phase
  PROVE  Origin'
<1>1. /\ text \in Seq(Token) /\ Len(text) \in Nat /\ cursor \in 1 .. Len(text) + 1
      /\ at \in Place
  BY DEF ParserTypes
<1>2. ASSUME text' = text, goal' = goal, at \notin {"start", "blank", "rejected"},
             at' \notin {"start", "blank", "parsed"},
             at' \in SelectPlace => goal \in SelectGoal
      PROVE  Origin'
  <2>1. Begun'
    BY <1>2, BeginningStays DEF Origin
  <2> QED
    BY <1>2, <2>1 DEF Origin
<1>3. ASSUME SyntaxError \/ UnknownColumn PROVE Origin'
  <2>1. at' = "rejected" /\ text' = text
    BY <1>3, RejectTypes
  <2> QED
    BY <2>1 DEF Origin, SelectPlace
<1>4. ASSUME NEW t \in Token, Write(t) PROVE Origin'
  <2>1. /\ text' = Append(text, t)
        /\ UNCHANGED <<cursor, at, goal, parse_result>>
        /\ text # <<>> => ~Merge(Last(text), t)
    BY <1>4 DEF Write
  <2>2. /\ Len(text') = Len(text) + 1
        /\ \A i \in 1 .. Len(text) : text'[i] = text[i]
        /\ text'[Len(text) + 1] = t
    BY <1>1, <2>1
  <2>3. Begun => Begun'
    BY <2>1, BeginningStays
  <2>4. at = "blank" => text'[1] = Blank
    BY <1>1, <2>2 DEF Origin
  <2>5. ~(text'[1] = Blank /\ text'[2] = Blank) \/ Len(text') < 2
    <3>1. CASE Len(text) = 0
      BY <2>2, <3>1
    <3>2. CASE Len(text) = 1
      <4>1. text # <<>> /\ Last(text) = text[1] /\ text'[1] = text[1] /\ text'[2] = t
        BY <1>1, <2>2, <3>2 DEF Last
      <4> QED
        BY <2>1, <4>1 DEF Merge
    <3>3. CASE Len(text) >= 2
      BY <1>1, <2>2, <3>3 DEF Origin
    <3>4. \A n \in Nat : n = 0 \/ n = 1 \/ n >= 2
      OBVIOUS
    <3> QED
      BY <1>1, <3>1, <3>2, <3>3, <3>4
  <2> QED
    BY <1>1, <2>1, <2>2, <2>3, <2>4, <2>5 DEF Origin
<1>5. CASE sql_skip_spaces
  <2>1. at # "blank"
    BY <1>1, <1>5 DEF sql_skip_spaces, Asks, Next1, Origin
  <2> QED
    BY <1>2, <1>5, <2>1 DEF sql_skip_spaces, Final, Origin
<1>6. CASE sql_parse
  <2>1. CASE SyntaxError
    BY <1>3, <2>1
  <2>2. CASE at = "start" /\ Next1 = Blank /\ Enter("blank", "NONE")
    BY <1>1, <1>6, <2>2 DEF sql_parse, Asks, Next1, Enter, Take, Origin, SelectPlace
  <2>3. ASSUME NEW w, Next1 = Word(w) PROVE StartsWith({w})
    <3>1. Asks /\ at \in {"start", "blank"}
      BY <1>6 DEF sql_parse
    <3>2. CASE at = "start"
      BY <1>1, <2>3, <3>1, <3>2 DEF Asks, Next1, Origin, StartsWith
    <3>3. CASE at = "blank"
      BY <1>1, <2>3, <3>1, <3>3 DEF Asks, Next1, Origin, StartsWith
    <3> QED
      BY <3>1, <3>2, <3>3
  <2>4. CASE IsExit(Next1) /\ Enter("end", "EXIT")
    <3>1. StartsWith({"EXIT", "QUIT"})
      BY <2>3, <2>4 DEF IsExit, sql_match_keyword, StartsWith
    <3>2. Begun'
      BY <2>4, <3>1 DEF Enter, Begun, StartsWith
    <3> QED
      BY <2>4, <3>2 DEF Enter, Origin, SelectPlace
  <2>5. CASE sql_match_keyword(Next1, "INSERT") /\ Enter("into", "INSERT")
    <3>1. StartsWith({"INSERT"})
      BY <2>3, <2>5 DEF sql_match_keyword
    <3>2. Begun'
      BY <2>5, <3>1 DEF Enter, Begun, StartsWith
    <3> QED
      BY <2>5, <3>2 DEF Enter, Origin, SelectPlace
  <2>6. CASE sql_match_keyword(Next1, "SELECT") /\ Enter("fields", "SELECT_ALL")
    <3>1. StartsWith({"SELECT"})
      BY <2>3, <2>6 DEF sql_match_keyword
    <3>2. Begun'
      BY <2>6, <3>1 DEF Enter, Begun, StartsWith, SelectGoal
    <3> QED
      BY <2>6, <3>2 DEF Enter, Origin, SelectPlace, SelectGoal
  <2> QED
    BY <1>6, <2>1, <2>2, <2>4, <2>5, <2>6 DEF sql_parse
<1>7. CASE sql_match_statement_end
  <2>1. at \in {"end", "semicolon"}
    BY <1>7 DEF sql_match_statement_end
  <2>2. CASE SyntaxError
    BY <1>3, <2>2
  <2>3. CASE Enter("semicolon", goal)
    BY <1>2, <2>1, <2>3 DEF Enter, SelectPlace
  <2>4. CASE goal = "SELECT_ALL" /\ at' = "where" /\ UNCHANGED <<text, goal>>
    BY <1>2, <2>1, <2>4 DEF SelectGoal
  <2>5. CASE /\ at' = "parsed"
             /\ parse_result' = [type |-> goal, error_code |-> 0, near |-> <<>>,
                                 status |-> IF goal = "EXIT" THEN "EXIT" ELSE "OK"]
             /\ UNCHANGED <<text, cursor, goal, command>>
    <3>1. Begun'
      BY <2>1, <2>5, BeginningStays DEF Origin
    <3>2. parse_result'.type = goal'
      BY <2>5
    <3> QED
      BY <2>5, <3>1, <3>2 DEF Origin, SelectPlace
  <2> QED
    BY <1>7, <2>2, <2>3, <2>4, <2>5 DEF sql_match_statement_end
<1>8. CASE sql_parse_insert
  <2>1. InsertStep
    BY <1>8, InsertSteps
  <2>2. CASE Advance(InsertPlace \cup {"end"})
    BY <1>2, <2>1, <2>2 DEF InsertStep, Advance, InsertPlace, SelectPlace
  <2> QED
    BY <1>3, <2>1, <2>2 DEF InsertStep
<1>9. CASE sql_parse_select
  <2>1. SelectStep
    BY <1>9, SelectSteps
  <2>2. at \notin {"start", "blank", "rejected"} /\ goal \in SelectGoal
    BY <2>1 DEF SelectStep, SelectPlace, Origin
  <2>3. CASE Advance(SelectPlace \cup {"end"})
    BY <1>2, <2>2, <2>3 DEF Advance, SelectPlace
  <2>4. CASE at' \in SelectPlace /\ goal' \in SelectGoal /\ text' = text
    <3>1. StartsWith({"SELECT"})
      BY <2>2 DEF Origin, Begun, SelectGoal
    <3>2. Begun'
      BY <2>4, <3>1 DEF Begun, StartsWith
    <3> QED
      BY <2>4, <3>2 DEF Origin, SelectPlace
  <2> QED
    BY <1>3, <2>1, <2>3, <2>4 DEF SelectStep
<1> QED
  BY <1>4, <1>5, <1>6, <1>7, <1>8, <1>9 DEF ParserStep

-----------------------------------------------------------------------------
(* The steps of the whole.                                                 *)

(***************************************************************************)
(* The parser between statements, and its return.                          *)
(***************************************************************************)
LEMMA ParserPartStep ==
  ASSUME ParserTypes, Origin, Next PROVE ParserTypes' /\ Origin'
<1>1. ASSUME UNCHANGED parserVars, phase # "parse" PROVE ParserTypes' /\ Origin'
  BY <1>1 DEF parserVars, ParserTypes, Origin, Begun, StartsWith, SelectPlace
<1>2. ASSUME ParserReturns PROVE ParserTypes' /\ Origin'
  <2>1. /\ text' = <<>> /\ cursor' = 1 /\ at' = "start" /\ goal' = "NONE"
        /\ command' = NoCommand /\ parse_result' = parse_result
    BY <1>2 DEF ParserReturns
  <2>2. NoCommand \in Command
    BY IntFacts DEF NoCommand, Command
  <2>3. ParserTypes'
    BY <2>1, <2>2 DEF ParserTypes, Place, Goal
  <2> QED
    BY <2>1, <2>3 DEF Origin, SelectPlace
<1>3. CASE Begin
  <2>1. parse_result' = NoResult /\ UNCHANGED <<text, cursor, at, goal, command>>
        /\ phase = "idle" /\ phase' = "parse"
    BY <1>3 DEF Begin
  <2>2. /\ NoResult.status \in Status /\ NoResult.near \in Seq(STRING)
        /\ NoResult.error_code \in Nat
    BY DEF NoResult, Status
  <2>3. at = "start"
    BY <2>1 DEF Origin
  <2>4. ParserTypes'
    BY <2>1, <2>2 DEF ParserTypes
  <2> QED
    BY <2>1, <2>3, <2>4 DEF Origin, SelectPlace
<1>4. CASE Parse
  BY <1>4, ParserTypesStep, OriginStep DEF Parse, ownVars
<1>5. CASE CreateTable \/ NextBucket \/ TableReady \/ DestroyTable
  BY <1>1, <1>5 DEF CreateTable, NextBucket, TableReady, DestroyTable, Manages
<1>6. CASE NothingToExecute \/ ExecuteFails \/ sql_execute_insert_plan
           \/ sql_execute_select_plan
  BY <1>2, <1>6 DEF NothingToExecute, ExecuteFails, sql_execute_insert_plan,
                    sql_execute_select_plan
<1>7. CASE BeginResponse \/ NoResponse \/ AppendPiece \/ GiveUp \/ Finish
           \/ api_result_destroy \/ ShowResult \/ EndOfInput
  BY <1>1, <1>7 DEF BeginResponse, NoResponse, AppendPiece, GiveUp, Finish,
                    api_result_destroy, ShowResult, EndOfInput
<1>8. CASE Stopped
  BY <1>1, <1>8 DEF Stopped, vars
<1> QED
  BY <1>3, <1>4, <1>5, <1>6, <1>7, <1>8 DEF Next, Serve

(***************************************************************************)
(* Every block of a response is allocated and freed in turn.               *)
(***************************************************************************)
LEMMA MemoryStep == ASSUME Values, Memory, Next PROVE Memory'
<1>1. /\ heap \in [Block -> {"free", "live"}]
      /\ heap["buffer"] = "live" <=> phase = "build" \/ answer.held
      /\ heap["records"] = "live" <=> sql_result.records
      /\ answer.held => phase = "done"
      /\ sql_result.records => phase \in {"init", "build", "print"}
      /\ answer = [http_status |-> answer.http_status, body |-> answer.body,
                   held |-> answer.held, returned |-> answer.returned]
  BY DEF Memory
<1>2. ~NoSqlResult.records /\ ~NoAnswer.held
  BY DEF NoSqlResult, NoAnswer
<1>3. ASSUME UNCHANGED <<heap, answer, sql_result>>,
             phase \notin {"init", "build", "print", "done"}, phase' # "build"
      PROVE  Memory'
  BY <1>1, <1>3 DEF Memory
<1>4. CASE CreateTable \/ NextBucket \/ TableReady \/ DestroyTable
  BY <1>3, <1>4 DEF CreateTable, NextBucket, TableReady, DestroyTable, Manages, jsonVars
<1>5. CASE Begin \/ EndOfInput \/ Parse \/ Stopped
  BY <1>3, <1>5 DEF Begin, EndOfInput, Parse, Stopped, vars, ownVars, jsonVars
<1>6. ASSUME UNCHANGED <<heap, answer>>, ~sql_result'.records, phase = "parse", Executed
      PROVE  Memory'
  BY <1>1, <1>6 DEF Memory, Executed
<1>7. CASE NothingToExecute \/ ExecuteFails \/ sql_execute_insert_plan
  <2>1. ~sql_result'.records
    BY <1>2, <1>7 DEF NothingToExecute, ExecuteFails, sql_execute_insert_plan, NoSqlResult
  <2> QED
    BY <1>6, <1>7, <2>1 DEF NothingToExecute, ExecuteFails, sql_execute_insert_plan, jsonVars
<1>8. CASE sql_execute_select_plan
  <2>1. PICK found : /\ phase = "parse" /\ Executed /\ answer' = answer
                     /\ sql_result'.records = (found # <<>>)
                     /\ heap' = IF found = <<>> THEN heap ELSE Allocated(heap, "records")
    BY <1>8 DEF sql_execute_select_plan, NoSqlResult
  <2>2. CASE found = <<>>
    BY <1>6, <2>1, <2>2
  <2>3. CASE found # <<>>
    <3>1. heap' = [heap EXCEPT !["records"] = "live"] /\ sql_result'.records
      BY <2>1, <2>3 DEF Allocated
    <3> QED
      BY <1>1, <2>1, <3>1 DEF Memory, Block, Executed
  <2> QED
    BY <2>2, <2>3
<1>9. CASE BeginResponse
  <2>1. /\ phase = "init" /\ phase' = "build" /\ sql_result' = sql_result
        /\ heap' = [heap EXCEPT !["buffer"] = "live"]
        /\ answer' = [answer EXCEPT !.http_status = HttpStatus]
    BY <1>9 DEF BeginResponse, json_buffer_init, Allocated
  <2>2. /\ ~answer.held /\ ~answer'.held
        /\ answer' = [http_status |-> answer'.http_status, body |-> answer'.body,
                      held |-> answer'.held, returned |-> answer'.returned]
    BY <1>1, <2>1
  <2> QED
    BY <1>1, <2>1, <2>2 DEF Memory, Block
\* The heap without the array of the result.
<1> DEFINE rest == sql_result_destroy(heap)
<1>10. /\ rest \in [Block -> {"free", "live"}]
       /\ rest["records"] = "free" /\ rest["buffer"] = heap["buffer"]
  BY <1>1 DEF sql_result_destroy, Freed, Block
<1> HIDE DEF rest
<1>11. CASE NoResponse
  <2>1. /\ phase = "init" /\ phase' = "done" /\ sql_result' = NoSqlResult
        /\ heap' = rest /\ answer' = answer
    BY <1>11 DEF NoResponse, rest
  <2> QED
    BY <1>1, <1>2, <1>10, <2>1 DEF Memory
<1>12. CASE AppendPiece
  <2>1. phase = "build" /\ UNCHANGED <<heap, answer, sql_result, phase>>
    BY <1>12 DEF AppendPiece, json_buffer_append
  <2> QED
    BY <1>1, <2>1 DEF Memory
<1>13. CASE GiveUp
  <2>1. /\ phase = "build" /\ phase' = "done" /\ sql_result' = NoSqlResult
        /\ heap' = Destroyed(rest) /\ answer' = answer
    BY <1>13 DEF GiveUp, rest
  <2>2. buffer.held
    BY <2>1 DEF Values
  <2>3. heap' = [rest EXCEPT !["buffer"] = "free"]
    BY <1>1, <1>10, <2>1, <2>2 DEF Destroyed, Freed, Block
  <2> QED
    BY <1>1, <1>2, <1>10, <2>1, <2>3 DEF Memory, Block
<1>14. CASE Finish
  <2>1. /\ phase = "build" /\ phase' = "done" /\ sql_result' = NoSqlResult
        /\ heap' = rest
        /\ answer' = [answer EXCEPT !.body = buffer.data, !.held = TRUE, !.returned = 1]
    BY <1>14 DEF Finish, rest
  <2>2. /\ answer'.held
        /\ answer' = [http_status |-> answer'.http_status, body |-> answer'.body,
                      held |-> answer'.held, returned |-> answer'.returned]
    BY <1>1, <2>1
  <2> QED
    BY <1>1, <1>2, <1>10, <2>1, <2>2 DEF Memory
<1>15. CASE api_result_destroy
  <2>1. /\ phase = "done" /\ phase' = "idle" /\ sql_result' = sql_result
        /\ heap' = (IF answer.held THEN Freed(heap, "buffer") ELSE heap)
        /\ answer' = NoAnswer
    BY <1>15 DEF api_result_destroy
  <2>2. /\ heap' \in [Block -> {"free", "live"}]
        /\ heap'["records"] = heap["records"] /\ heap'["buffer"] = "free"
    BY <1>1, <2>1 DEF Freed, Block
  <2>3. /\ ~answer'.held
        /\ answer' = [http_status |-> answer'.http_status, body |-> answer'.body,
                      held |-> answer'.held, returned |-> answer'.returned]
    BY <2>1 DEF NoAnswer
  <2> QED
    BY <1>1, <2>1, <2>2, <2>3 DEF Memory
<1>16. CASE ShowResult
  <2>1. /\ phase = "print" /\ phase' \in {"destroy", "idle"} /\ sql_result' = NoSqlResult
        /\ heap' = rest /\ answer' = answer
    BY <1>16 DEF ShowResult, rest
  <2> QED
    BY <1>1, <1>2, <1>10, <2>1 DEF Memory
<1> QED
  BY <1>4, <1>5, <1>7, <1>8, <1>9, <1>11, <1>12, <1>13, <1>14, <1>15, <1>16
     DEF Next, Serve

(***************************************************************************)
(* Appending a piece, with json_buffer_reserve before it, leaves room for  *)
(* the terminating zero.                                                   *)
(***************************************************************************)
LEMMA AppendRoom ==
  ASSUME NEW piece, Text(piece), Text(buffer.data), buffer.cap \in Nat,
         Len(buffer.data) < buffer.cap, buffer.held,
         buffer = [data |-> buffer.data, cap |-> buffer.cap, held |-> TRUE],
         json_buffer_append(piece)
  PROVE  /\ buffer' = [data |-> buffer'.data, cap |-> buffer'.cap, held |-> TRUE]
         /\ Text(buffer'.data) /\ buffer'.cap \in Nat /\ Len(buffer'.data) < buffer'.cap
<1> DEFINE data == buffer.data
           required == Len(data) + Len(piece) + 1
           cap == IF required <= buffer.cap THEN buffer.cap ELSE Grown(buffer.cap, required)
<1>1. buffer' = [data |-> data \o piece, cap |-> cap, held |-> TRUE]
  BY DEF json_buffer_append, Required
<1>2. Text(data \o piece) /\ Len(data \o piece) = Len(data) + Len(piece)
  BY TextJoins
<1>3. Len(data) \in Nat /\ Len(piece) \in Nat
  BY DEF Text
<1>4. Grown(buffer.cap, required) \in Nat /\ Grown(buffer.cap, required) >= required
  <2>1. required \in Nat /\ buffer.cap \in Nat \ {0}
    BY <1>3
  <2> HIDE DEF required
  <2> QED
    BY <2>1, GrownFacts
<1>5. cap \in Nat /\ required <= cap
  <2> HIDE DEF required
  <2>1. required \in Nat
    BY <1>3 DEF required
  <2> QED
    BY <1>4, <2>1
<1>6. Len(data \o piece) < cap
  <2> HIDE DEF cap, data
  <2> QED
    BY <1>2, <1>3, <1>5
<1> HIDE DEF cap, data
<1> QED
  BY <1>1, <1>2, <1>5, <1>6

(***************************************************************************)
(* Rows, results and responses stay well formed.                           *)
(***************************************************************************)
LEMMA ValuesStep == ASSUME ParserTypes, Values, Next PROVE Values'
<1>1. /\ phase \in Phase /\ table \in Seq(Rec) /\ sql_result.rows \in Seq(Rec)
      /\ sql_result.status \in Status
      /\ sql_result.inserted_id \in Nat /\ sql_result.row_count \in Nat
      /\ phase # "build" => buffer = NoBuffer
  BY DEF Values
<1>2. /\ NoSqlResult.rows \in Seq(Rec) /\ NoSqlResult.status \in Status
      /\ NoSqlResult.inserted_id \in Nat /\ NoSqlResult.row_count \in Nat
  BY DEF NoSqlResult, Status
\* Outside of the building of a response only these matter.
<1>3. ASSUME phase' \in Phase \ {"build"}, buffer' = NoBuffer, table' \in Seq(Rec),
             sql_result'.rows \in Seq(Rec), sql_result'.status \in Status,
             sql_result'.inserted_id \in Nat, sql_result'.row_count \in Nat
      PROVE  Values'
  BY <1>3 DEF Values
<1>4. CASE CreateTable \/ NextBucket \/ DestroyTable
  <2>1. <<>> \in Seq(Rec)
    OBVIOUS
  <2>2. /\ phase # "build" /\ phase' \in {"buckets", "left", "destroy"}
        /\ table' \in {table, <<>>} /\ UNCHANGED <<buffer, sql_result>>
    BY <1>4 DEF CreateTable, NextBucket, DestroyTable, Manages, jsonVars
  <2> QED
    BY <1>1, <1>3, <2>1, <2>2 DEF Phase
<1>5. CASE TableReady
  <2>1. FirstRows \in Seq(Rec)
    BY RowsAssumption DEF Rec
  <2> QED
    BY <1>1, <1>3, <1>5, <2>1 DEF TableReady, Manages, jsonVars, Phase
<1>6. CASE Begin \/ EndOfInput \/ Parse \/ (Stopped /\ phase # "build")
  BY <1>1, <1>3, <1>6 DEF Begin, EndOfInput, Parse, Stopped, vars, ownVars, jsonVars, Phase
<1>7. CASE NothingToExecute
  <2>1. sql_result' = [NoSqlResult EXCEPT !.status = parse_result.status]
    BY <1>7 DEF NothingToExecute
  <2>2. /\ sql_result'.rows \in Seq(Rec) /\ sql_result'.status \in Status
        /\ sql_result'.inserted_id \in Nat /\ sql_result'.row_count \in Nat
    BY <1>2, <2>1 DEF ParserTypes, NoSqlResult
  <2> QED
    BY <1>1, <1>3, <1>7, <2>2 DEF NothingToExecute, Executed, jsonVars, Phase
<1>8. CASE ExecuteFails
  BY <1>1, <1>2, <1>3, <1>8 DEF ExecuteFails, Executed, jsonVars, Phase
<1>9. CASE sql_execute_insert_plan
  <2> DEFINE row == [id |-> Len(table) + 1,
                     data |-> [name |-> command.name, age |-> command.int_value]]
  <2>1. row \in Rec /\ row.id \in Nat
    <3>1. command.name \in Seq(STRING) /\ command.int_value \in INT_MIN .. INT_MAX
      BY DEF ParserTypes, Command
    <3>2. command.int_value \in Int /\ Len(table) + 1 \in Nat
      BY <1>1, <3>1
    <3> QED
      BY <3>1, <3>2 DEF Rec
  <2>2. /\ phase = "parse" /\ Executed /\ buffer' = buffer
        /\ table' = Append(table, row)
        /\ sql_result' = [NoSqlResult EXCEPT !.status = "OK", !.action = "insert",
                            !.inserted_id = row.id, !.row_count = 1]
    BY <1>9 DEF sql_execute_insert_plan, jsonVars
  <2> HIDE DEF row
  <2>3. /\ sql_result'.rows \in Seq(Rec) /\ sql_result'.status \in Status
        /\ sql_result'.inserted_id \in Nat /\ sql_result'.row_count \in Nat
    BY <2>1, <2>2 DEF NoSqlResult, Status
  <2>4. table' \in Seq(Rec)
    BY <1>1, <2>1, <2>2
  <2> QED
    BY <1>1, <1>3, <2>2, <2>3, <2>4 DEF Executed, Phase
<1>10. CASE sql_execute_select_plan
  <2> DEFINE found == MatchingRows(Condition, table)
  <2>1. found \in Seq(Rec)
    BY <1>1, MatchingRecords
  <2>2. /\ phase = "parse" /\ Executed /\ UNCHANGED <<buffer, table>>
        /\ sql_result' = [NoSqlResult EXCEPT
                            !.status = IF found = <<>> THEN "NOT_FOUND" ELSE "OK",
                            !.action = "select", !.rows = found,
                            !.row_count = Len(found), !.records = found # <<>>]
    BY <1>10 DEF sql_execute_select_plan
  <2> HIDE DEF found
  <2>3. /\ sql_result'.rows \in Seq(Rec) /\ sql_result'.status \in Status
        /\ sql_result'.inserted_id \in Nat /\ sql_result'.row_count \in Nat
    BY <2>1, <2>2 DEF NoSqlResult, Status
  <2> QED
    BY <1>1, <1>3, <2>2, <2>3 DEF Executed, Phase
<1>11. CASE BeginResponse
  <2>1. /\ phase' = "build" /\ todo' = Response /\ UNCHANGED <<table, sql_result>>
        /\ buffer' = [data |-> <<>>, cap |-> INITIAL_CAP, held |-> TRUE]
    BY <1>11 DEF BeginResponse, json_buffer_init
  <2>2. Pieces(todo')
    BY <1>1, <2>1, ResponsePieces DEF ParserTypes
  <2>3. Text(<<>>) /\ Len(<<>>) = 0
    BY PiecesFacts DEF Pieces
  <2> QED
    BY <1>1, <2>1, <2>2, <2>3, CapAssumption DEF Values, Phase
<1>12. CASE NoResponse
  BY <1>1, <1>2, <1>3, <1>12 DEF NoResponse, Phase
<1>13. CASE AppendPiece
  <2>1. /\ phase = "build" /\ todo # <<>> /\ todo' = Tail(todo)
        /\ json_buffer_append(Head(todo)) /\ UNCHANGED <<phase, table, sql_result>>
    BY <1>13 DEF AppendPiece
  <2>2. /\ buffer = [data |-> buffer.data, cap |-> buffer.cap, held |-> TRUE]
        /\ Text(buffer.data) /\ Pieces(todo)
        /\ buffer.cap \in Nat /\ Len(buffer.data) < buffer.cap
    BY <2>1 DEF Values
  <2>3. buffer.held
    BY <2>2
  <2>4. Text(Head(todo)) /\ Pieces(Tail(todo))
    <3>1. todo \in Seq(ToSet(todo)) /\ \A p \in ToSet(todo) : Text(p)
      BY <2>2 DEF Pieces, Text
    <3>2. Head(todo) \in ToSet(todo) /\ Tail(todo) \in Seq(ToSet(todo))
      <4> DEFINE S == ToSet(todo)
      <4>1. todo \in Seq(S)
        BY <3>1
      <4> HIDE DEF S
      <4>2. Head(todo) \in S /\ Tail(todo) \in Seq(S)
        BY <2>1, <4>1
      <4> QED
        BY <4>2 DEF S
    <3> QED
      BY <3>1, <3>2, TextOf DEF Pieces
  <2>5. /\ buffer' = [data |-> buffer'.data, cap |-> buffer'.cap, held |-> TRUE]
        /\ Text(buffer'.data) /\ buffer'.cap \in Nat /\ Len(buffer'.data) < buffer'.cap
    BY <2>1, <2>2, <2>3, <2>4, AppendRoom
  <2> QED
    BY <1>1, <2>1, <2>4, <2>5 DEF Values
<1>14. CASE GiveUp
  BY <1>1, <1>2, <1>3, <1>14 DEF GiveUp, Phase
<1>15. CASE Finish
  BY <1>1, <1>2, <1>3, <1>15 DEF Finish, json_buffer_detach, Phase
<1>16. CASE api_result_destroy
  BY <1>1, <1>3, <1>16 DEF api_result_destroy, Phase
<1>17. CASE ShowResult
  BY <1>1, <1>2, <1>3, <1>17 DEF ShowResult, Phase
<1>18. Stopped => phase # "build"
  BY DEF Stopped
<1> QED
  BY <1>4, <1>5, <1>6, <1>7, <1>8, <1>9, <1>10, <1>11, <1>12, <1>13, <1>14, <1>15,
     <1>16, <1>17, <1>18 DEF Next, Serve

(***************************************************************************)
(* What of the table exists stays what table_destroy will release.         *)
(***************************************************************************)
LEMMA LifeStep == ASSUME Values, Life, Next PROVE Life'
<1> DEFINE Shape == /\ life = [block |-> "live", next_id_lock |-> "live", lock |-> life.lock,
                               pk_index |-> life.pk_index, next_id_lock_initialized |-> TRUE,
                               initialized_buckets |-> life.initialized_buckets]
                    /\ Creating \in 0 .. BUCKET_COUNT
                    /\ life.lock = [b \in Bucket |-> IF b < Creating THEN "live" ELSE "absent"]
                    /\ life.pk_index \in [Bucket -> {"live", "absent"}]
                    /\ \A b \in Bucket : b >= Creating => life.pk_index[b] = "absent"
<1>1. BUCKET_COUNT \in Nat \ {0} /\ \A b \in Bucket : b \in Nat
  BY BucketCountAssumption DEF Bucket
<1>2. /\ phase \in {"create", "left"} => life = NoTable
      /\ phase \notin {"create", "left"} => Shape
  BY DEF Life
<1>3. ASSUME Shape', phase' \notin {"create", "left"} PROVE Life'
  BY <1>3 DEF Life
<1>4. ASSUME Shape, life' = life, phase' \notin {"create", "left"} PROVE Life'
  <2>1. Shape'
    BY <1>4 DEF Creating
  <2> HIDE DEF Shape
  <2> QED
    BY <1>3, <1>4, <2>1
<1>5. ASSUME life' = NoTable, phase' \in {"create", "left"} PROVE Life'
  BY <1>5 DEF Life
<1>6. CASE CreateTable
  <2>1. life = NoTable
    BY <1>2, <1>6 DEF CreateTable
  <2>2. CASE phase' = "left" /\ UNCHANGED life
    BY <1>5, <2>1, <2>2
  <2>3. CASE CreateBlock /\ phase' = "buckets"
    <3>1. life' = [block |-> "live", next_id_lock |-> "live",
                   lock |-> [b \in Bucket |-> "absent"],
                   pk_index |-> [b \in Bucket |-> "absent"],
                   next_id_lock_initialized |-> TRUE, initialized_buckets |-> 0]
      BY <2>1, <2>3 DEF CreateBlock, NoTable
    <3>2. life'.initialized_buckets = 0 /\ life'.lock = [b \in Bucket |-> "absent"]
          /\ life'.pk_index = [b \in Bucket |-> "absent"]
      BY <3>1
    <3>3. Shape'
      BY <1>1, <3>1, <3>2 DEF Creating
    <3> HIDE DEF Shape
    <3> QED
      BY <1>3, <2>3, <3>3
  <2> QED
    BY <1>6, <2>2, <2>3 DEF CreateTable
<1>7. CASE NextBucket
  <2> DEFINE n == Creating
  <2>1. Shape /\ n < BUCKET_COUNT /\ n \in Bucket
    BY <1>1, <1>2, <1>7 DEF NextBucket, Bucket
  <2>2. WithLock = [block |-> "live", next_id_lock |-> "live",
                    lock |-> [life.lock EXCEPT ![n] = "live"],
                    pk_index |-> life.pk_index, next_id_lock_initialized |-> TRUE,
                    initialized_buckets |-> n + 1]
    <3>1. life = [block |-> "live", next_id_lock |-> "live", lock |-> life.lock,
                  pk_index |-> life.pk_index, next_id_lock_initialized |-> TRUE,
                  initialized_buckets |-> life.initialized_buckets]
      BY <2>1
    <3>2. WithLock = [life EXCEPT !.lock = [life.lock EXCEPT ![n] = "live"],
                                  !.initialized_buckets = n + 1]
      <4> HIDE DEF Shape
      <4> QED
        BY <3>1 DEF WithLock
    <3>3. [life EXCEPT !.lock = [life.lock EXCEPT ![n] = "live"]]
            = [block |-> "live", next_id_lock |-> "live",
               lock |-> [life.lock EXCEPT ![n] = "live"], pk_index |-> life.pk_index,
               next_id_lock_initialized |-> TRUE,
               initialized_buckets |-> life.initialized_buckets]
      <4> HIDE DEF Shape, n
      <4> DEFINE l == life.lock
                 p == life.pk_index
                 t == TRUE
                 c == life.initialized_buckets
                 m == [life.lock EXCEPT ![n] = "live"]
      <4>1. life = [block |-> "live", next_id_lock |-> "live", lock |-> l, pk_index |-> p,
                    next_id_lock_initialized |-> t, initialized_buckets |-> c]
        BY <3>1
      <4> HIDE DEF l, p, c, m, t
      <4>2. [life EXCEPT !.lock = m]
              = [block |-> "live", next_id_lock |-> "live", lock |-> m, pk_index |-> p,
                 next_id_lock_initialized |-> t, initialized_buckets |-> c]
        BY <4>1
      <4> QED
        BY <4>2 DEF m, p, c, t
    <3> DEFINE locked == [life EXCEPT !.lock = [life.lock EXCEPT ![n] = "live"]]
    <3>4. WithLock = [locked EXCEPT !.initialized_buckets = n + 1]
      <4> HIDE DEF Shape, n
      <4> QED
        BY <3>2
    <3> HIDE DEF Shape, n, locked
    <3>5. locked = [block |-> "live", next_id_lock |-> "live",
                    lock |-> [life.lock EXCEPT ![n] = "live"], pk_index |-> life.pk_index,
                    next_id_lock_initialized |-> TRUE,
                    initialized_buckets |-> life.initialized_buckets]
      BY <3>3 DEF locked
    <3> QED
      BY <3>4, <3>5
  <2>3. n + 1 \in 0 .. BUCKET_COUNT
    BY <1>1, <2>1
  <2>4. [life.lock EXCEPT ![n] = "live"]
          = [b \in Bucket |-> IF b < n + 1 THEN "live" ELSE "absent"]
    BY <1>1, <2>1
  <2>5. CASE CreateBucket /\ UNCHANGED phase
    <3>1. life' = [block |-> "live", next_id_lock |-> "live",
                   lock |-> [b \in Bucket |-> IF b < n + 1 THEN "live" ELSE "absent"],
                   pk_index |-> [life.pk_index EXCEPT ![n] = "live"],
                   next_id_lock_initialized |-> TRUE, initialized_buckets |-> n + 1]
      BY <2>2, <2>4, <2>5 DEF CreateBucket
    <3>2. /\ [life.pk_index EXCEPT ![n] = "live"] \in [Bucket -> {"live", "absent"}]
          /\ \A b \in Bucket : b >= n + 1 => [life.pk_index EXCEPT ![n] = "live"][b] = "absent"
      BY <1>1, <2>1, <2>3
    <3> HIDE DEF n
    <3>3. Shape'
      BY <2>3, <3>1, <3>2 DEF Creating
    <3> HIDE DEF Shape
    <3> QED
      BY <1>3, <1>7, <2>5, <3>3 DEF NextBucket
  <2>6. CASE CreateIndexFails /\ phase' = "destroy"
    <3>1. life' = [block |-> "live", next_id_lock |-> "live",
                   lock |-> [b \in Bucket |-> IF b < n + 1 THEN "live" ELSE "absent"],
                   pk_index |-> life.pk_index,
                   next_id_lock_initialized |-> TRUE, initialized_buckets |-> n + 1]
      BY <2>2, <2>4, <2>6 DEF CreateIndexFails
    <3>2. /\ life.pk_index \in [Bucket -> {"live", "absent"}]
          /\ \A b \in Bucket : b >= n + 1 => life.pk_index[b] = "absent"
      BY <1>1, <2>1, <2>3
    <3> HIDE DEF n
    <3>3. Shape'
      BY <2>3, <3>1, <3>2 DEF Creating
    <3> HIDE DEF Shape
    <3> QED
      BY <1>3, <2>6, <3>3
  <2>7. CASE UNCHANGED life /\ phase' = "destroy"
    <3> HIDE DEF Shape
    <3> QED
      BY <1>4, <2>1, <2>7
  <2> QED
    BY <1>7, <2>5, <2>6, <2>7 DEF NextBucket
<1>8. CASE DestroyTable
  <2>1. Shape
    BY <1>2, <1>8 DEF DestroyTable
  <2>2. [b \in Bucket |-> IF b < Creating THEN Released(life.lock[b]) ELSE life.lock[b]]
          = [b \in Bucket |-> "absent"]
    BY <2>1 DEF Released
  <2>3. [b \in Bucket |-> IF b < Creating THEN ReleasedIfAny(life.pk_index[b])
                          ELSE life.pk_index[b]]
          = [b \in Bucket |-> "absent"]
    <3>1. ASSUME NEW b \in Bucket
          PROVE  (IF b < Creating THEN ReleasedIfAny(life.pk_index[b])
                  ELSE life.pk_index[b]) = "absent"
      <4>1. life.pk_index[b] \in {"live", "absent"}
        BY <2>1
      <4>2. b < Creating \/ b >= Creating
        BY <1>1, <2>1
      <4> QED
        BY <2>1, <4>1, <4>2 DEF ReleasedIfAny, Released
    <3> QED
      BY <3>1
  <2>4. life' = [block |-> Released("live"), next_id_lock |-> Released("live"),
                 lock |-> [b \in Bucket |-> "absent"],
                 pk_index |-> [b \in Bucket |-> "absent"],
                 next_id_lock_initialized |-> FALSE, initialized_buckets |-> 0]
    <3>1. life' = [life EXCEPT
             !.lock = [b \in Bucket |-> "absent"],
             !.pk_index = [b \in Bucket |-> "absent"],
             !.next_id_lock = IF life.next_id_lock_initialized THEN Released(@) ELSE @,
             !.block = Released(@),
             !.initialized_buckets = 0, !.next_id_lock_initialized = FALSE]
      BY <1>8, <2>2, <2>3 DEF DestroyTable, table_destroy
    <3>2. /\ life.next_id_lock_initialized = TRUE
          /\ life.next_id_lock = "live" /\ life.block = "live"
      BY <2>1
    <3> QED
      BY <2>1, <3>1, <3>2
  <2>5. life' = NoTable
    BY <2>4 DEF NoTable, Released
  <2> QED
    BY <1>5, <1>8, <2>5 DEF DestroyTable
<1>9. CASE TableReady
  <2> HIDE DEF Shape
  <2> QED
    BY <1>2, <1>4, <1>9 DEF TableReady
<1>10. CASE Serve /\ UNCHANGED life
  <2>1. phase \notin {"create", "left"} /\ phase' \notin {"create", "left"}
    BY <1>10 DEF Serve, Begin, Parse, ownVars, NothingToExecute, ExecuteFails, Executed,
              sql_execute_insert_plan, sql_execute_select_plan, BeginResponse, NoResponse,
              AppendPiece, GiveUp, Finish, api_result_destroy, ShowResult, EndOfInput
  <2> HIDE DEF Shape
  <2> QED
    BY <1>2, <1>4, <1>10, <2>1
<1>11. CASE Stopped
  <2> HIDE DEF Shape
  <2>1. UNCHANGED <<phase, life>>
    BY <1>11 DEF Stopped, vars, ownVars
  <2> QED
    BY <1>2, <1>4, <1>5, <2>1
<1> QED
  BY <1>6, <1>7, <1>8, <1>9, <1>10, <1>11 DEF Next

(***************************************************************************)
(* The invariant holds at the start.                                       *)
(***************************************************************************)
LEMMA Initially == Init => Inv
<1> SUFFICES ASSUME Init PROVE Inv
  OBVIOUS
<1>1. ParserTypes /\ Origin
  <2>1. NoCommand \in Command
    BY IntFacts DEF NoCommand, Command
  <2>2. /\ NoResult.status \in Status /\ NoResult.near \in Seq(STRING)
        /\ NoResult.error_code \in Nat
    BY DEF NoResult, Status
  <2>3. /\ text = <<>> /\ cursor = 1 /\ at = "start" /\ goal = "NONE"
        /\ command = NoCommand /\ parse_result = NoResult
    BY DEF Init, ParserInit
  <2>4. ParserTypes
    BY <2>1, <2>2, <2>3 DEF ParserTypes, Place, Goal
  <2> QED
    BY <2>3, <2>4 DEF Origin, SelectPlace
<1>2. Values
  <2>1. /\ NoSqlResult.rows \in Seq(Rec) /\ NoSqlResult.status \in Status
        /\ NoSqlResult.inserted_id \in Nat /\ NoSqlResult.row_count \in Nat
        /\ <<>> \in Seq(Rec)
    BY DEF NoSqlResult, Status
  <2> QED
    BY <2>1 DEF Init, Values, Phase
<1>3. Memory
  BY DEF Init, Memory, Block, NoSqlResult, NoAnswer
<1>4. Life
  BY DEF Init, Life
<1> QED
  BY <1>1, <1>2, <1>3, <1>4 DEF Inv

(***************************************************************************)
(* It holds always.                                                        *)
(***************************************************************************)
LEMMA Invariance == Spec => []Inv
<1>1. Inv /\ [Next]_vars => Inv'
  <2> SUFFICES ASSUME Inv, [Next]_vars PROVE Inv'
    OBVIOUS
  <2>1. CASE Next
    BY <2>1, ParserPartStep, ValuesStep, MemoryStep, LifeStep DEF Inv
  <2>2. CASE UNCHANGED vars
    BY <2>2 DEF vars, parserVars, jsonVars, ownVars, Inv, ParserTypes, Origin, Begun,
            StartsWith, Values, Memory, Life, Creating
  <2> QED
    BY <2>1, <2>2
<1> QED
  BY Initially, <1>1, PTL DEF Spec

-----------------------------------------------------------------------------
(* The words of a text.                                                    *)

\* The equation that the function in Kept solves, up to m.
KeptRound(s, S, m, f) ==
  [n \in 0 .. m |-> IF n = 0 THEN <<>>
                    ELSE IF s[n] \in S THEN Append(f[n - 1], s[n]) ELSE f[n - 1]]

(***************************************************************************)
(* It has a solution.                                                      *)
(***************************************************************************)
LEMMA KeptRecursion ==
  ASSUME NEW s, NEW S, NEW len \in Nat
  PROVE  \E f : f = KeptRound(s, S, len, f)
<1> DEFINE Solved == {m \in 0 .. len : \E f : f = KeptRound(s, S, m, f)}
<1>1. 0 \in Solved
  <2> DEFINE f == [n \in 0 .. 0 |-> <<>>]
  <2>1. f = KeptRound(s, S, 0, f)
    BY DEF KeptRound
  <2>2. 0 \in 0 .. len
    OBVIOUS
  <2> HIDE DEF f
  <2> QED
    BY <2>1, <2>2
<1>2. ASSUME NEW i \in 0 .. len - 1, i \in Solved PROVE i + 1 \in Solved
  <2>1. PICK f : f = KeptRound(s, S, i, f)
    BY <1>2
  <2> DEFINE last == IF s[i + 1] \in S THEN Append(f[i], s[i + 1]) ELSE f[i]
             g == [n \in 0 .. i + 1 |-> IF n = i + 1 THEN last ELSE f[n]]
  <2>2. ASSUME NEW n \in 0 .. i + 1
        PROVE  g[n] = IF n = 0 THEN <<>>
                      ELSE IF s[n] \in S THEN Append(g[n - 1], s[n]) ELSE g[n - 1]
    <3>1. CASE n = i + 1
      <4>1. n # 0 /\ n - 1 = i /\ i \in 0 .. i + 1 /\ i # i + 1
        BY <3>1
      <4>2. g[n] = last /\ g[n - 1] = f[i]
        BY <3>1, <4>1
      <4> QED
        BY <3>1, <4>1, <4>2
    <3>2. CASE n # i + 1
      <4>1. n \in 0 .. i /\ (n # 0 => n - 1 \in 0 .. i)
        BY <3>2
      <4>2. g[n] = f[n] /\ (n # 0 => g[n - 1] = f[n - 1])
        BY <3>2, <4>1
      <4>3. f[n] = IF n = 0 THEN <<>>
                   ELSE IF s[n] \in S THEN Append(f[n - 1], s[n]) ELSE f[n - 1]
        BY <2>1, <4>1 DEF KeptRound
      <4> QED
        BY <4>2, <4>3
    <3> QED
      BY <3>1, <3>2
  <2>3. g = KeptRound(s, S, i + 1, g)
    BY <2>2 DEF KeptRound
  <2>4. i + 1 \in 0 .. len
    OBVIOUS
  <2> QED
    BY <2>3, <2>4
<1>3. len \in Solved
  <2> HIDE DEF Solved
  <2> QED
    BY <1>1, <1>2, InductionUpTo
<1> QED
  BY <1>3

\* What the loop of Kept does with the first len elements of s.
KeptLoop(s, S, len, f) ==
  /\ f[0] = <<>>
  /\ \A i \in 0 .. len - 1 :
       f[i + 1] = IF s[i + 1] \in S THEN Append(f[i], s[i + 1]) ELSE f[i]

(***************************************************************************)
(* Kept is what the loop ends with, and every such loop ends with it.      *)
(***************************************************************************)
LEMMA KeptDefined ==
  ASSUME NEW s, NEW S, Len(s) \in Nat
  PROVE  \E f : KeptLoop(s, S, Len(s), f) /\ Kept(s, S) = f[Len(s)]
<1> DEFINE len == Len(s)
           kept == CHOOSE f : f = KeptRound(s, S, len, f)
<1>1. Kept(s, S) = kept[len]
  BY DEF Kept, KeptRound
<1>2. kept = KeptRound(s, S, len, kept)
  <2>1. \E f : f = KeptRound(s, S, len, f)
    BY KeptRecursion
  <2> QED
    BY <2>1
<1> HIDE DEF kept, len
<1>3. len \in Nat
  BY DEF len
<1>4. ASSUME NEW n \in 0 .. len
      PROVE  kept[n] = IF n = 0 THEN <<>>
                       ELSE IF s[n] \in S THEN Append(kept[n - 1], s[n]) ELSE kept[n - 1]
  BY <1>2 DEF KeptRound
<1>5. kept[0] = <<>>
  <2>1. 0 \in 0 .. len
    BY <1>3
  <2> QED
    BY <1>4, <2>1, Zenon
<1>6. ASSUME NEW i \in 0 .. len - 1
      PROVE  kept[i + 1] = IF s[i + 1] \in S THEN Append(kept[i], s[i + 1]) ELSE kept[i]
  <2>1. i + 1 \in 0 .. len /\ i + 1 # 0 /\ (i + 1) - 1 = i
    BY <1>3
  <2> QED
    BY <1>4, <2>1
<1>7. KeptLoop(s, S, len, kept)
  BY <1>5, <1>6 DEF KeptLoop
<1> QED
  BY <1>1, <1>7 DEF len

(***************************************************************************)
(* Two loops over sequences with the same beginning do the same there.     *)
(***************************************************************************)
LEMMA KeptAgree ==
  ASSUME NEW s, NEW u, NEW S, NEW len \in Nat, NEW f, NEW g,
         KeptLoop(s, S, len, f), KeptLoop(u, S, len, g),
         \A i \in 1 .. len : s[i] = u[i]
  PROVE  f[len] = g[len]
<1> DEFINE Same == {n \in 0 .. len : f[n] = g[n]}
<1>1. 0 \in Same
  BY DEF KeptLoop
<1>2. ASSUME NEW i \in 0 .. len - 1, i \in Same PROVE i + 1 \in Same
  <2>1. s[i + 1] = u[i + 1] /\ f[i] = g[i] /\ i + 1 \in 0 .. len
    BY <1>2
  <2>2. /\ f[i + 1] = IF s[i + 1] \in S THEN Append(f[i], s[i + 1]) ELSE f[i]
        /\ g[i + 1] = IF u[i + 1] \in S THEN Append(g[i], u[i + 1]) ELSE g[i]
    BY DEF KeptLoop
  <2> QED
    BY <2>1, <2>2
<1>3. len \in Same
  <2> HIDE DEF Same
  <2>1. 0 .. len \subseteq Same
    BY <1>1, <1>2, InductionUpTo
  <2> QED
    BY <2>1
<1> QED
  BY <1>3

(***************************************************************************)
(* Nothing is kept of nothing; an element more is one more or none.        *)
(***************************************************************************)
LEMMA KeptNone == ASSUME NEW S PROVE Kept(<<>>, S) = <<>>
<1>1. Len(<<>>) = 0
  OBVIOUS
<1>2. PICK f : KeptLoop(<<>>, S, Len(<<>>), f) /\ Kept(<<>>, S) = f[Len(<<>>)]
  BY <1>1, KeptDefined
<1> QED
  BY <1>1, <1>2 DEF KeptLoop

LEMMA KeptAppend ==
  ASSUME NEW T, NEW s \in Seq(T), NEW t \in T, NEW S
  PROVE  Kept(Append(s, t), S) = IF t \in S THEN Append(Kept(s, S), t) ELSE Kept(s, S)
<1> DEFINE u == Append(s, t)
           len == Len(s)
<1>1. /\ Len(u) = len + 1 /\ len \in Nat /\ Len(u) \in Nat
      /\ \A i \in 1 .. len : s[i] = u[i]
      /\ u[len + 1] = t
  BY AppendFacts
<1> HIDE DEF u
<1>2. PICK f : KeptLoop(s, S, len, f) /\ Kept(s, S) = f[len]
  BY <1>1, KeptDefined
<1>3. PICK g : KeptLoop(u, S, len + 1, g) /\ Kept(u, S) = g[len + 1]
  BY <1>1, KeptDefined
<1> HIDE DEF len
<1>4. KeptLoop(u, S, len, g)
  <2>1. \A i \in 0 .. len - 1 : i \in 0 .. (len + 1) - 1
    BY <1>1
  <2> QED
    BY <1>3, <2>1 DEF KeptLoop
<1>5. f[len] = g[len]
  BY <1>1, <1>2, <1>4, KeptAgree
<1>6. g[len + 1] = IF u[len + 1] \in S THEN Append(g[len], u[len + 1]) ELSE g[len]
  <2>1. len \in 0 .. (len + 1) - 1
    BY <1>1
  <2> QED
    BY <1>3, <2>1 DEF KeptLoop
<1>7. Kept(u, S) = IF t \in S THEN Append(Kept(s, S), t) ELSE Kept(s, S)
  BY <1>1, <1>2, <1>3, <1>5, <1>6
<1> QED
  BY <1>7 DEF u

(***************************************************************************)
(* What is kept is a sequence of elements of s.                            *)
(***************************************************************************)
LEMMA KeptSeq ==
  ASSUME NEW T, NEW s \in Seq(T), NEW S
  PROVE  Kept(s, S) \in Seq(T)
<1> DEFINE len == Len(s)
<1>1. len \in Nat /\ \A i \in 1 .. len : s[i] \in T
  OBVIOUS
<1>2. PICK f : KeptLoop(s, S, len, f) /\ Kept(s, S) = f[len]
  BY <1>1, KeptDefined
<1> HIDE DEF len
<1> DEFINE Good == {n \in 0 .. len : f[n] \in Seq(T)}
<1>3. 0 \in Good
  <2>1. f[0] = <<>> /\ 0 \in 0 .. len
    BY <1>1, <1>2 DEF KeptLoop
  <2>2. <<>> \in Seq(T)
    OBVIOUS
  <2> QED
    BY <2>1, <2>2
<1>4. ASSUME NEW i \in 0 .. len - 1, i \in Good PROVE i + 1 \in Good
  <2>1. s[i + 1] \in T /\ f[i] \in Seq(T) /\ i + 1 \in 0 .. len
    BY <1>1, <1>4
  <2>2. f[i + 1] = IF s[i + 1] \in S THEN Append(f[i], s[i + 1]) ELSE f[i]
    BY <1>2 DEF KeptLoop
  <2>3. Append(f[i], s[i + 1]) \in Seq(T)
    BY <2>1
  <2> QED
    BY <2>1, <2>2, <2>3
<1>5. len \in Good
  <2> HIDE DEF Good
  <2>1. 0 .. len \subseteq Good
    BY <1>1, <1>3, <1>4, InductionUpTo
  <2> QED
    BY <1>1, <2>1
<1> QED
  BY <1>2, <1>5

(***************************************************************************)
(* The loop of the table_find_by functions keeps the rows in S when its    *)
(* condition holds for exactly these.                                      *)
(***************************************************************************)
LEMMA MatchingKeeps ==
  ASSUME NEW q, NEW s, NEW S, Len(s) \in Nat,
         \A i \in 1 .. Len(s) : Matches(q, s[i]) <=> s[i] \in S
  PROVE  MatchingRows(q, s) = Kept(s, S)
<1> DEFINE len == Len(s)
           found == CHOOSE f : f = MatchingRound(q, s, len, f)
<1>1. MatchingRows(q, s) = found[len]
  BY DEF MatchingRows, MatchingRound
<1>2. found = MatchingRound(q, s, len, found)
  <2>1. \E f : f = MatchingRound(q, s, len, f)
    BY MatchingRecursion
  <2> QED
    BY <2>1
<1>3. PICK f : KeptLoop(s, S, len, f) /\ Kept(s, S) = f[len]
  BY KeptDefined
<1> HIDE DEF found
<1>4. len \in Nat /\ \A i \in 1 .. len : Matches(q, s[i]) <=> s[i] \in S
  OBVIOUS
<1> HIDE DEF len
<1>5. ASSUME NEW n \in 0 .. len
      PROVE  found[n] = IF n = 0 THEN <<>>
                        ELSE IF Matches(q, s[n]) THEN Append(found[n - 1], s[n])
                        ELSE found[n - 1]
  BY <1>2 DEF MatchingRound
<1>6. KeptLoop(s, S, len, found)
  <2>1. found[0] = <<>>
    BY <1>4, <1>5
  <2>2. ASSUME NEW i \in 0 .. len - 1
        PROVE  found[i + 1] = IF s[i + 1] \in S THEN Append(found[i], s[i + 1]) ELSE found[i]
    <3>1. i + 1 \in 0 .. len /\ i + 1 # 0 /\ (i + 1) - 1 = i /\ i + 1 \in 1 .. len
      BY <1>4
    <3>2. Matches(q, s[i + 1]) <=> s[i + 1] \in S
      BY <1>4, <3>1
    <3>3. found[i + 1] = IF Matches(q, s[i + 1]) THEN Append(found[i], s[i + 1])
                         ELSE found[i]
      BY <1>5, <3>1
    <3> QED
      BY <3>2, <3>3
  <2> QED
    BY <2>1, <2>2 DEF KeptLoop
<1>7. found[len] = f[len]
  BY <1>3, <1>4, <1>6, KeptAgree
<1> QED
  BY <1>1, <1>3, <1>7

-----------------------------------------------------------------------------
(* What the parser has read.                                               *)

\* (The SMT translation does not accept all characters in a string; these
\* two are only named where it is used.)
Semicolon == Mark(";")
Comma == Mark(",")

\* The tokens the parser has passed, without white space, and without
\* semicolons.
Passed == SubSeq(text, 1, cursor - 1)
Said == Kept(Passed, Token \ {Blank})
Sense == Kept(Passed, Token \ {Blank, Semicolon})

\* How many words have been passed where the parser is, and by the end.
Index(p) == CASE p \in {"into", "fields"}         -> 1
              [] p \in {"insert_table", "from"}   -> 2
              [] p \in {"values", "select_table"} -> 3
              [] p \in {"open", "where"}          -> 4
              [] p \in {"name", "column"}         -> 5
              [] p \in {"comma", "comparison"}    -> 6
              [] p \in {"age", "judge", "int_value", "text_value"} -> 7
              [] p = "close"                      -> 8
Full(g) == CASE g = "EXIT" -> 1 [] g = "INSERT" -> 9 [] g = "SELECT_ALL" -> 4
             [] OTHER -> 8

\* The first n words of an INSERT, and what c has of them.
InsertSays(w, n, c) ==
  /\ w[1] = Word("INSERT")
  /\ n >= 2 => w[2] = Word("INTO")
  /\ n >= 3 => w[3] = Word("users")
  /\ n >= 4 => w[4] = Word("VALUES")
  /\ n >= 5 => w[5] = Mark("(")
  /\ n >= 6 => sql_parse_string(w[6]) /\ c.name = w[6].chars
  /\ n >= 7 => w[7] = Comma
  /\ n >= 8 => w[8].kind = "int" /\ c.int_value = sql_parse_int(w[8])
  /\ n >= 9 => w[9] = Mark(")")

\* The first n words of a SELECT, with d semicolons before WHERE.
SelectSays(w, d, n, c) ==
  /\ w[1] = Word("SELECT")
  /\ n >= 2 => w[2] = Mark("*")
  /\ n >= 3 => w[3] = Word("FROM")
  /\ n >= 4 => w[4] = Word("users")
  /\ d = 1 => n >= 4 /\ w[5] = Semicolon
  /\ n >= 5 => w[5 + d] = Word("WHERE")
  /\ n >= 6 => w[6 + d] = Word(c.where_column) /\ c.where_column # "overlong"
  /\ n >= 7 => /\ w[7 + d].kind = "mark" /\ w[7 + d].text \in Comparison
               /\ c.comparison = sql_parse_comparison(w[7 + d])
  /\ n >= 8 => IF c.where_column = "name"
               THEN sql_parse_string(w[8 + d]) /\ c.text_value = w[8 + d].chars
               ELSE w[8 + d].kind = "int" /\ c.int_value = sql_parse_int(w[8 + d])

\* All words of a statement of type g.
Says(w, d, g, c) == \/ g = "EXIT" /\ w[1] \in {Word("EXIT"), Word("QUIT")} /\ d = 0
                    \/ g = "INSERT" /\ InsertSays(w, 9, c) /\ d = 0
                    \/ g \in SelectGoal /\ SelectSays(w, d, Full(g), c)

Ending == {"end", "semicolon", "parsed"}

\* How far the words w have come.
Stage(w, d) ==
  /\ at \in {"start", "blank"} => Len(w) = 0
  /\ at \in InsertPlace => Len(w) = Index(at) /\ InsertSays(w, Index(at), command)
  /\ at \in SelectPlace => Len(w) = Index(at) + d /\ SelectSays(w, d, Index(at), command)
  /\ at \in Ending => Says(w, d, goal, command)

\* The type the command will get is the one of its column.
Judged == /\ command.where_column \in {"id", "age", "name"}
          /\ goal = WhereOf(command.where_column)
          /\ command.where_column = "name" => command.comparison = "=="
Typed ==
  /\ at \in InsertPlace => goal = "INSERT"
  /\ at \in SelectPlace \ {"int_value", "text_value"} => goal = "SELECT_ALL"
  /\ at = "int_value" => Judged /\ command.where_column # "name"
  /\ at = "text_value" => Judged /\ command.where_column = "name"
  /\ at \in Ending => goal \in {"EXIT", "INSERT", "SELECT_ALL"} \/ Judged

\* All that has been passed, a semicolon before WHERE (d = 1) included.
SaidUpTo(d) ==
  /\ Stage(Said, d)
  /\ at = "end" => Len(Said) = Full(goal) + d
  /\ at = "semicolon" => Len(Said) = Full(goal) + d + 1 /\ Said[Len(Said)] = Semicolon
  /\ at = "parsed" => \/ Len(Said) = Full(goal) + d
                      \/ Len(Said) = Full(goal) + d + 1 /\ Said[Len(Said)] = Semicolon
  /\ at = "where" /\ d = 0 => Next1 # Semicolon
  /\ at \in Ending /\ goal = "SELECT_ALL" => d = 0

\* No sentence begins like the text.
Refused == LeadingBlank \/ \A s \in Sentence : ~IsPrefix(Heard, s)

\* What has been passed is the beginning of a statement, and the command
\* has what it says; only the next token may be known of the rest.
Reading ==
  /\ Len(text) <= cursor
  /\ at = "judge" => cursor > Len(text)
  /\ at = "where" => Asks /\ Next1 \notin {Blank, End}
  /\ at = "parsed" => Asks /\ Next1 = End
  /\ Stage(Sense, 0) /\ (at \in Ending => Len(Sense) = Full(goal))
  /\ \E d \in {0, 1} : SaidUpTo(d)
  /\ Typed

-----------------------------------------------------------------------------
(* How the words grow, a token at a time.                                  *)

(***************************************************************************)
(* How the words change: not by a step that leaves the cursor where it is, *)
(* nor by a token that is only written; by one that is taken, by that one. *)
(***************************************************************************)
LEMMA WordsTyped ==
  ASSUME ParserTypes PROVE Passed \in Seq(Token) /\ Said \in Seq(Token) /\ Sense \in Seq(Token)
<1>1. Passed \in Seq(Token)
  BY DEF ParserTypes, Passed
<1> QED
  BY <1>1, KeptSeq DEF Said, Sense

LEMMA WordsStay ==
  ASSUME ParserTypes, cursor' = cursor,
         text' = text \/ \E t \in Token : text' = Append(text, t)
  PROVE  Said' = Said /\ Sense' = Sense
<1>1. text \in Seq(Token) /\ cursor \in 1 .. Len(text) + 1 /\ Len(text) \in Nat
  BY DEF ParserTypes
<1>2. Passed' = Passed
  <2>1. CASE text' = text
    BY <2>1 DEF Passed
  <2>2. ASSUME NEW t \in Token, text' = Append(text, t) PROVE Passed' = Passed
    <3> DEFINE n == cursor - 1
    <3>1. n \in 0 .. Len(text) /\ text' \in Seq(Token) /\ Len(text') = Len(text) + 1
          /\ \A i \in 1 .. Len(text) : text'[i] = text[i]
      BY <1>1, <2>2
    <3>2. Passed = SubSeq(text, 1, n) /\ Passed' = SubSeq(text', 1, n)
      BY DEF Passed
    <3> HIDE DEF n
    <3>3. /\ SubSeq(text, 1, n) = [i \in 1 .. n |-> text[i]]
          /\ SubSeq(text', 1, n) = [i \in 1 .. n |-> text'[i]]
      BY <1>1, <3>1
    <3>4. \A i \in 1 .. n : text'[i] = text[i]
      BY <1>1, <3>1
    <3> QED
      BY <3>2, <3>3, <3>4
  <2> QED
    BY <2>1, <2>2
<1> QED
  BY <1>2 DEF Said, Sense

LEMMA WordsGrow ==
  ASSUME ParserTypes, Asks, cursor' = cursor + 1, text' = text
  PROVE  /\ Next1 \in Token
         /\ Said' = IF Next1 = Blank THEN Said ELSE Append(Said, Next1)
         /\ Sense' = IF Next1 \in {Blank, Semicolon} THEN Sense ELSE Append(Sense, Next1)
<1>1. text \in Seq(Token) /\ cursor \in 1 .. Len(text) /\ Len(text) \in Nat /\ Next1 \in Token
  BY DEF ParserTypes, Asks, Next1
<1>2. Passed' = Append(Passed, Next1)
  <2>1. /\ Passed = SubSeq(text, 1, cursor - 1) /\ Passed' = SubSeq(text, 1, cursor)
    BY <1>1 DEF Passed
  <2>2. SubSeq(text, 1, cursor) = Append(SubSeq(text, 1, cursor - 1), text[cursor])
    BY <1>1
  <2> QED
    BY <2>1, <2>2 DEF Next1
<1>3. Passed \in Seq(Token)
  BY WordsTyped
<1>4. \A S : Kept(Append(Passed, Next1), S)
               = IF Next1 \in S THEN Append(Kept(Passed, S), Next1) ELSE Kept(Passed, S)
  BY <1>1, <1>3, KeptAppend
<1>5. Said' = Kept(Append(Passed, Next1), Token \ {Blank})
      /\ Sense' = Kept(Append(Passed, Next1), Token \ {Blank, Semicolon})
  BY <1>2 DEF Said, Sense
<1> QED
  BY <1>1, <1>4, <1>5 DEF Said, Sense

\* v is w with the token t after it.
Continues(v, w, t) == /\ v \in Seq(Token) /\ Len(v) = Len(w) + 1 /\ Len(w) \in Nat
                      /\ \A i \in 1 .. Len(w) : v[i] = w[i]
                      /\ v[Len(w) + 1] = t

LEMMA AppendContinues ==
  ASSUME NEW w \in Seq(Token), NEW t \in Token PROVE Continues(Append(w, t), w, t)
BY AppendFacts DEF Continues

(***************************************************************************)
(* A semicolon and a comma are tokens of their own.                        *)
(***************************************************************************)
LEMMA MarksApart ==
  /\ Semicolon \in Token /\ Comma \in Token
  /\ Semicolon.kind = "mark" /\ Comma.kind = "mark"
  /\ Semicolon.text = ";" /\ Comma.text = ","
  /\ Semicolon \notin {Blank, End} /\ Comma \notin {Blank, End, Semicolon}
<1>1. /\ Semicolon \in Token /\ Comma \in Token
  BY Zenon DEF Token, Semicolon, Comma
<1>2. Semicolon.kind = "mark" /\ Comma.kind = "mark"
  BY Zenon DEF Mark, Semicolon, Comma
<1>3. Semicolon.text = ";" /\ Comma.text = ","
  BY Zenon DEF Mark, Semicolon, Comma
<1>4. Comma # Semicolon
  <2>1. "," # ";"
    BY Zenon
  <2> QED
    BY <1>3, <2>1, Zenon
<1>5. Semicolon \notin {Blank, End} /\ Comma \notin {Blank, End}
  <2>1. Blank.kind = "blank" /\ End.kind = "end"
    BY DEF Blank, End
  <2> QED
    BY <1>2, <2>1
<1> QED
  BY <1>1, <1>2, <1>3, <1>4, <1>5, Zenon

(***************************************************************************)
(* A field of a command that is assigned has the value, the others keep    *)
(* theirs.                                                                 *)
(***************************************************************************)
LEMMA CommandFields ==
  ASSUME NEW c \in Command, NEW x
  PROVE  /\ [c EXCEPT !.name = x].name = x
         /\ [c EXCEPT !.int_value = x].int_value = x
         /\ [c EXCEPT !.int_value = x].name = c.name
         /\ [c EXCEPT !.int_value = x].where_column = c.where_column
         /\ [c EXCEPT !.int_value = x].comparison = c.comparison
         /\ [c EXCEPT !.where_column = x].where_column = x
         /\ [c EXCEPT !.comparison = x].comparison = x
         /\ [c EXCEPT !.comparison = x].where_column = c.where_column
         /\ [c EXCEPT !.text_value = x].text_value = x
         /\ [c EXCEPT !.text_value = x].where_column = c.where_column
         /\ [c EXCEPT !.text_value = x].comparison = c.comparison
<1>1. ASSUME NEW A, NEW B, NEW C, NEW D, NEW E,
             NEW d \in [name : A, int_value : B, comparison : C, where_column : D,
                        text_value : E]
      PROVE  /\ [d EXCEPT !.name = x].name = x
             /\ [d EXCEPT !.int_value = x].int_value = x
             /\ [d EXCEPT !.int_value = x].name = d.name
             /\ [d EXCEPT !.int_value = x].where_column = d.where_column
             /\ [d EXCEPT !.int_value = x].comparison = d.comparison
             /\ [d EXCEPT !.where_column = x].where_column = x
             /\ [d EXCEPT !.comparison = x].comparison = x
             /\ [d EXCEPT !.comparison = x].where_column = d.where_column
             /\ [d EXCEPT !.text_value = x].text_value = x
             /\ [d EXCEPT !.text_value = x].where_column = d.where_column
             /\ [d EXCEPT !.text_value = x].comparison = d.comparison
  OBVIOUS
<1>2. PICK A, B, C, D, E : c \in [name : A, int_value : B, comparison : C,
                                  where_column : D, text_value : E]
  BY Zenon DEF Command
<1> QED
  BY <1>1, <1>2, Zenon

\* The token t is the one sql_parse_insert looks for at p.
InsertFit(p, t) == \/ p = "into" /\ t = Word("INTO")
                   \/ p = "insert_table" /\ t = Word("users")
                   \/ p = "values" /\ t = Word("VALUES")
                   \/ p = "open" /\ t = Mark("(")
                   \/ p = "name" /\ sql_parse_string(t)
                   \/ p = "comma" /\ t = Comma
                   \/ p = "age" /\ t.kind = "int"
                   \/ p = "close" /\ t = Mark(")")

\* A token is passed.
Passes == /\ Asks /\ Next1 # Blank /\ cursor' = cursor + 1
          /\ UNCHANGED <<text, goal>>

\* A step of sql_parse_insert from p to q.
InsertTakes(p, q) ==
  /\ at = p /\ at' = q /\ Passes /\ InsertFit(p, Next1)
  /\ p \notin {"name", "age"} => command' = command
  /\ p = "name" => command' = [command EXCEPT !.name = Next1.chars]
  /\ p = "age" => command' = [command EXCEPT !.int_value = sql_parse_int(Next1)]

(***************************************************************************)
(* sql_parse_insert takes what fits and refuses what does not.             *)
(***************************************************************************)
LEMMA InsertTakesOrFails ==
  ASSUME sql_parse_insert
  PROVE  \/ InsertTakes("into", "insert_table") \/ InsertTakes("insert_table", "values")
         \/ InsertTakes("values", "open") \/ InsertTakes("open", "name")
         \/ InsertTakes("name", "comma") \/ InsertTakes("comma", "age")
         \/ InsertTakes("age", "close") \/ InsertTakes("close", "end")
         \/ /\ at \in InsertPlace /\ Asks /\ Next1 # Blank /\ ~InsertFit(at, Next1)
            /\ SyntaxError
<1> USE DEF Expect, At, Take, InsertTakes, Passes, InsertFit, InsertPlace
<1>1. CASE Keyword("into", "INTO", "insert_table")
  BY <1>1 DEF Keyword, sql_match_keyword
<1>2. CASE TableName("insert_table", "values")
  BY <1>2 DEF TableName, sql_parse_identifier, Word
<1>3. CASE Keyword("values", "VALUES", "open")
  BY <1>3 DEF Keyword, sql_match_keyword
<1>4. CASE Char("open", "(", "name")
  BY <1>4 DEF Char, sql_match_char
<1>5. CASE Expect("name", sql_parse_string, "comma",
                  [command EXCEPT !.name = Next1.chars])
  BY <1>5
<1>6. CASE Char("comma", ",", "age")
  BY <1>6, Zenon DEF Char, sql_match_char, Comma
<1>7. CASE Expect("age", LAMBDA t : t.kind = "int", "close",
                  [command EXCEPT !.int_value = sql_parse_int(Next1)])
  BY <1>7
<1>8. CASE Char("close", ")", "end")
  BY <1>8 DEF Char, sql_match_char
<1> HIDE DEF Expect, At, Take, InsertTakes, Passes, InsertFit, InsertPlace
<1> QED
  BY <1>1, <1>2, <1>3, <1>4, <1>5, <1>6, <1>7, <1>8, Zenon DEF sql_parse_insert

\* The token t is one sql_parse_select goes on with at p.
SelectFit(p, t) == \/ p = "fields" /\ t = Mark("*")
                   \/ p = "from" /\ t = Word("FROM")
                   \/ p = "select_table" /\ t = Word("users")
                   \/ p = "where" /\ t = Word("WHERE")
                   \/ p = "column" /\ sql_parse_identifier(t)
                   \/ p = "comparison" /\ t.kind = "mark" /\ t.text \in Comparison
                   \/ p = "int_value" /\ t.kind = "int"
                   \/ p = "text_value" /\ sql_parse_string(t)

SelectTakes(p, q) ==
  /\ at = p /\ at' = q /\ Passes /\ SelectFit(p, Next1)
  /\ p \notin {"column", "comparison", "int_value", "text_value"} => command' = command
  /\ p = "column" => command' = [command EXCEPT !.where_column = Next1.text]
  /\ p = "comparison" =>
       command' = [command EXCEPT !.comparison = sql_parse_comparison(Next1)]
  /\ p = "int_value" => command' = [command EXCEPT !.int_value = sql_parse_int(Next1)]
  /\ p = "text_value" => command' = [command EXCEPT !.text_value = Next1.chars]

(***************************************************************************)
(* sql_parse_select takes what fits, judges the column, or refuses.        *)
(***************************************************************************)
LEMMA SelectTakesOrFails ==
  ASSUME sql_parse_select
  PROVE  \/ SelectTakes("fields", "from") \/ SelectTakes("from", "select_table")
         \/ SelectTakes("select_table", "end") \/ SelectTakes("where", "column")
         \/ SelectTakes("column", "comparison") \/ SelectTakes("comparison", "judge")
         \/ SelectTakes("int_value", "end") \/ SelectTakes("text_value", "end")
         \/ JudgeColumn
         \/ /\ at \in SelectPlace \ {"judge"}
            /\ Asks /\ Next1 # Blank /\ ~SelectFit(at, Next1)
            /\ SyntaxError \/ UnknownColumn
<1> USE DEF Expect, At, Take, SelectTakes, Passes, SelectFit, SelectPlace
<1>1. CASE SelectFields
  <2>1. sql_parse_identifier(Next1) => ~sql_match_char(Next1, "*")
    BY DEF sql_parse_identifier, sql_match_char, Mark
  <2> QED
    BY <1>1, <2>1 DEF SelectFields, sql_match_char, Enter
<1>2. CASE Keyword("from", "FROM", "select_table")
  BY <1>2 DEF Keyword, sql_match_keyword
<1>3. CASE TableName("select_table", "end")
  BY <1>3 DEF TableName, sql_parse_identifier, Word
<1>4. CASE Keyword("where", "WHERE", "column")
  BY <1>4 DEF Keyword, sql_match_keyword
<1>5. CASE Expect("column", sql_parse_identifier, "comparison",
                  [command EXCEPT !.where_column = Next1.text])
  BY <1>5
<1>6. CASE WhereComparison
  BY <1>6 DEF WhereComparison
<1>7. CASE Expect("int_value", LAMBDA t : t.kind = "int", "end",
                  [command EXCEPT !.int_value = sql_parse_int(Next1)])
  BY <1>7
<1>8. CASE Expect("text_value", sql_parse_string, "end",
                  [command EXCEPT !.text_value = Next1.chars])
  BY <1>8
<1> QED
  BY <1>1, <1>2, <1>3, <1>4, <1>5, <1>6, <1>7, <1>8 DEF sql_parse_select

(***************************************************************************)
(* Where the parser is tells how many words it has passed.                 *)
(***************************************************************************)
LEMMA IndexFacts ==
  /\ Index("into") = 1 /\ Index("insert_table") = 2 /\ Index("values") = 3
  /\ Index("open") = 4 /\ Index("name") = 5 /\ Index("comma") = 6 /\ Index("age") = 7
  /\ Index("close") = 8
  /\ Index("fields") = 1 /\ Index("from") = 2 /\ Index("select_table") = 3
  /\ Index("where") = 4 /\ Index("column") = 5 /\ Index("comparison") = 6
  /\ Index("judge") = 7 /\ Index("int_value") = 7 /\ Index("text_value") = 7
BY DEF Index

(***************************************************************************)
(* One word more of an INSERT.                                             *)
(***************************************************************************)
LEMMA InsertGrows ==
  ASSUME NEW n \in Nat, n >= 1, NEW w, NEW v, NEW t, NEW c, NEW e,
         InsertSays(w, n, c), \A i \in 1 .. n : v[i] = w[i], v[n + 1] = t,
         n = 1 => t = Word("INTO"), n = 2 => t = Word("users"),
         n = 3 => t = Word("VALUES"), n = 4 => t = Mark("("),
         n = 5 => sql_parse_string(t) /\ e.name = t.chars,
         n = 6 => t = Comma,
         n = 7 => t.kind = "int" /\ e.int_value = sql_parse_int(t),
         n = 8 => t = Mark(")"),
         n >= 6 => e.name = c.name, n >= 8 => e.int_value = c.int_value
  PROVE  InsertSays(v, n + 1, e)
<1> DEFINE Known(k) == n + 1 >= k => (n = k - 1 /\ v[k] = t) \/ (n >= k /\ v[k] = w[k])
<1>1. ASSUME NEW k \in Nat, k >= 1 PROVE Known(k)
  <2>1. CASE n + 1 < k
    BY <2>1
  <2>2. CASE n = k - 1
    BY <2>2
  <2>3. CASE n >= k
    BY <1>1, <2>3
  <2> QED
    BY <2>1, <2>2, <2>3
<1> HIDE DEF Known
<1>11. Known(2) /\ Known(3) /\ Known(4) /\ Known(5) /\ Known(6) /\ Known(7) /\ Known(8)
       /\ Known(9)
  BY <1>1
<1>2. v[1] = Word("INSERT")
  BY DEF InsertSays
<1>3. n + 1 >= 2 => v[2] = Word("INTO")
  BY <1>11 DEF InsertSays, Known
<1>4. n + 1 >= 3 => v[3] = Word("users")
  BY <1>11 DEF InsertSays, Known
<1>5. n + 1 >= 4 => v[4] = Word("VALUES")
  BY <1>11 DEF InsertSays, Known
<1>6. n + 1 >= 5 => v[5] = Mark("(")
  BY <1>11 DEF InsertSays, Known
<1>7. n + 1 >= 6 => sql_parse_string(v[6]) /\ e.name = v[6].chars
  BY <1>11 DEF InsertSays, Known
<1>8. n + 1 >= 7 => v[7] = Comma
  BY <1>11 DEF InsertSays, Known
<1>9. n + 1 >= 8 => v[8].kind = "int" /\ e.int_value = sql_parse_int(v[8])
  BY <1>11 DEF InsertSays, Known
<1>10. n + 1 >= 9 => v[9] = Mark(")")
  BY <1>11 DEF InsertSays, Known
<1> QED
  BY <1>2, <1>3, <1>4, <1>5, <1>6, <1>7, <1>8, <1>9, <1>10 DEF InsertSays

(***************************************************************************)
(* A step of sql_parse_insert that takes a token makes v of the words w.   *)
(***************************************************************************)
LEMMA InsertReads ==
  ASSUME NEW p \in InsertPlace, NEW q \in InsertPlace \cup {"end"}, InsertTakes(p, q),
         Index(p) + 1 = IF q = "end" THEN 9 ELSE Index(q),
         command \in Command, goal = "INSERT",
         NEW w, NEW v, Continues(v, w, Next1), Stage(w, 0)
  PROVE  Stage(v, 0)' /\ (q = "end" => Len(v) = 9)
<1>1. PICK n \in Nat : n = Index(p) /\ n >= 1
  BY IndexFacts DEF InsertPlace
<1>2. /\ at = p /\ at' = q /\ goal' = "INSERT" /\ InsertFit(p, Next1)
  BY DEF InsertTakes, Passes
<1>3. Len(w) = n /\ InsertSays(w, n, command)
  BY <1>1, <1>2 DEF Stage
<1>4. /\ Len(v) = n + 1 /\ v[n + 1] = Next1
      /\ \A i \in 1 .. n : v[i] = w[i]
  BY <1>3 DEF Continues
<1>5. InsertSays(v, n + 1, command')
  <2>1. /\ n = 1 => p = "into"
        /\ n = 2 => p = "insert_table"
        /\ n = 3 => p = "values"
        /\ n = 4 => p = "open"
        /\ n = 5 => p = "name"
        /\ n = 6 => p = "comma"
        /\ n = 7 => p = "age"
        /\ n = 8 => p = "close"
        /\ n <= 8
    BY <1>1, IndexFacts DEF InsertPlace
  <2>2. /\ p \notin {"name", "age"} => command' = command
        /\ p = "name" => command'.name = Next1.chars
        /\ p = "age" => /\ command'.int_value = sql_parse_int(Next1)
                        /\ command'.name = command.name
    <3>1. /\ [command EXCEPT !.name = Next1.chars].name = Next1.chars
          /\ [command EXCEPT !.int_value = sql_parse_int(Next1)].int_value
               = sql_parse_int(Next1)
          /\ [command EXCEPT !.int_value = sql_parse_int(Next1)].name = command.name
      BY CommandFields
    <3> QED
      BY <3>1 DEF InsertTakes
  <2>3. PICK e : e = command'
    OBVIOUS
  <2>4. /\ n = 1 => Next1 = Word("INTO")
        /\ n = 2 => Next1 = Word("users")
        /\ n = 3 => Next1 = Word("VALUES")
        /\ n = 4 => Next1 = Mark("(")
        /\ n = 5 => sql_parse_string(Next1) /\ e.name = Next1.chars
        /\ n = 6 => Next1 = Comma
        /\ n = 7 => Next1.kind = "int" /\ e.int_value = sql_parse_int(Next1)
        /\ n = 8 => Next1 = Mark(")")
    BY <1>2, <2>1, <2>2, <2>3 DEF InsertFit
  <2>5. /\ n >= 6 => e.name = command.name
        /\ n >= 8 => e.int_value = command.int_value
    BY <2>1, <2>2, <2>3
  <2> QED
    <3>1. PICK t, c : t = Next1 /\ c = command
      OBVIOUS
    <3>2. /\ n \in Nat /\ n >= 1 /\ InsertSays(w, n, c) /\ v[n + 1] = t
          /\ \A i \in 1 .. n : v[i] = w[i]
      BY <1>1, <1>3, <1>4, <3>1
    <3>3. /\ n = 1 => t = Word("INTO")
          /\ n = 2 => t = Word("users")
          /\ n = 3 => t = Word("VALUES")
          /\ n = 4 => t = Mark("(")
          /\ n = 5 => sql_parse_string(t) /\ e.name = t.chars
          /\ n = 6 => t = Comma
          /\ n = 7 => t.kind = "int" /\ e.int_value = sql_parse_int(t)
          /\ n = 8 => t = Mark(")")
          /\ n >= 6 => e.name = c.name
          /\ n >= 8 => e.int_value = c.int_value
      BY <2>4, <2>5, <3>1, Zenon
    <3>4. InsertSays(v, n + 1, e)
      BY ONLY <3>2, <3>3, InsertGrows
    <3> QED
      BY <2>3, <3>4, Zenon
<1>6. CASE q = "end"
  <2>1. n + 1 = 9
    BY <1>1, <1>6
  <2> QED
    BY <1>2, <1>4, <1>5, <1>6, <2>1 DEF Stage, Says, InsertPlace, SelectPlace, Ending
<1>7. CASE q # "end"
  <2>1. n + 1 = Index(q) /\ q \in InsertPlace
    BY <1>1, <1>7
  <2> QED
    BY <1>2, <1>4, <1>5, <1>7, <2>1 DEF Stage, InsertPlace, SelectPlace, Ending
<1> QED
  BY <1>6, <1>7

(***************************************************************************)
(* A word is what its letters are.                                         *)
(***************************************************************************)
LEMMA TokenWord ==
  ASSUME NEW t \in Token, t.kind = "word" PROVE t = Word(t.text)
<1>1. CASE t \in {Word(w) : w \in Vocabulary}
  BY <1>1 DEF Word
<1>2. CASE t \in {Mark(m) : m \in Comparison \cup {"(", ")", ",", "*", ";", "junk"}}
  <2>1. PICK m : t = Mark(m)
    BY <1>2, Zenon
  <2> QED
    BY <2>1 DEF Mark
<1>3. CASE t \in {Integer(n) : n \in Literal}
  BY <1>3 DEF Integer
<1>4. CASE t \in {String(s) : s \in Name}
  BY <1>4 DEF String
<1>5. CASE t \in {Blank, End, [kind |-> "openstring"]}
  BY <1>5 DEF Blank, End
<1> QED
  BY <1>1, <1>2, <1>3, <1>4, <1>5, Zenon DEF Token

(***************************************************************************)
(* One word more of a SELECT.                                              *)
(***************************************************************************)
LEMMA SelectGrows ==
  ASSUME NEW n \in 1 .. 7, NEW d \in {0, 1}, NEW w, NEW v, NEW t, NEW c, NEW e,
         SelectSays(w, d, n, c), \A i \in 1 .. n + d : v[i] = w[i], v[n + d + 1] = t,
         n = 1 => t = Mark("*"), n = 2 => t = Word("FROM"), n = 3 => t = Word("users"),
         n = 4 => t = Word("WHERE"),
         n = 5 => t = Word(e.where_column) /\ e.where_column # "overlong",
         n = 6 => /\ t.kind = "mark" /\ t.text \in Comparison
                  /\ e.comparison = sql_parse_comparison(t),
         n = 7 => IF e.where_column = "name"
                  THEN sql_parse_string(t) /\ e.text_value = t.chars
                  ELSE t.kind = "int" /\ e.int_value = sql_parse_int(t),
         n >= 6 => e.where_column = c.where_column,
         n >= 7 => e.comparison = c.comparison
  PROVE  SelectSays(v, d, n + 1, e)
<1> DEFINE Known(k) == n + 1 >= k =>
             \/ n = k - 1 /\ v[k + d] = t
             \/ n >= k /\ v[k + d] = w[k + d]
<1>1. ASSUME NEW k \in Nat, k >= 1 PROVE Known(k)
  <2>1. CASE n + 1 < k
    BY <2>1
  <2>2. CASE n = k - 1
    <3>1. k + d = n + d + 1
      BY <2>2
    <3> QED
      BY <2>2, <3>1
  <2>3. CASE n >= k
    <3>1. k + d \in 1 .. n + d
      BY <1>1, <2>3
    <3> QED
      BY <2>3, <3>1
  <2> QED
    BY <2>1, <2>2, <2>3
<1> HIDE DEF Known
<1>2. Known(2) /\ Known(3) /\ Known(4) /\ Known(5) /\ Known(6) /\ Known(7) /\ Known(8)
  BY <1>1
<1>3. v[1] = Word("SELECT")
  BY DEF SelectSays
<1>4. d = 1 => n >= 4 /\ v[5] = Semicolon /\ v[2] = w[2] /\ v[3] = w[3] /\ v[4] = w[4]
  BY DEF SelectSays
<1>5. n + 1 >= 2 => v[2] = Mark("*")
  BY <1>2, <1>4 DEF SelectSays, Known
<1>6. n + 1 >= 3 => v[3] = Word("FROM")
  BY <1>2, <1>4 DEF SelectSays, Known
<1>7. n + 1 >= 4 => v[4] = Word("users")
  BY <1>2, <1>4 DEF SelectSays, Known
<1>8. n + 1 >= 5 => v[5 + d] = Word("WHERE")
  BY <1>2 DEF SelectSays, Known
<1>9. n + 1 >= 6 => v[6 + d] = Word(e.where_column) /\ e.where_column # "overlong"
  BY <1>2 DEF SelectSays, Known
<1>10. n + 1 >= 7 => /\ v[7 + d].kind = "mark" /\ v[7 + d].text \in Comparison
                     /\ e.comparison = sql_parse_comparison(v[7 + d])
  <2>1. CASE n = 6
    BY <1>2, <2>1 DEF Known
  <2>2. CASE n = 7
    <3>1. v[7 + d] = w[7 + d]
      BY <1>2, <2>2 DEF Known
    <3> QED
      BY <2>2, <3>1 DEF SelectSays
  <2> QED
    BY <2>1, <2>2
<1>11. n + 1 >= 8 => IF e.where_column = "name"
                     THEN sql_parse_string(v[8 + d]) /\ e.text_value = v[8 + d].chars
                     ELSE v[8 + d].kind = "int" /\ e.int_value = sql_parse_int(v[8 + d])
  BY <1>2 DEF Known
<1> QED
  BY <1>3, <1>4, <1>5, <1>6, <1>7, <1>8, <1>9, <1>10, <1>11 DEF SelectSays

\* Where a step of sql_parse_select goes.
After(p) == CASE p = "fields" -> "from" [] p = "from" -> "select_table"
              [] p = "where" -> "column" [] p = "column" -> "comparison"
              [] p = "comparison" -> "judge" [] OTHER -> "end"

(***************************************************************************)
(* A step of sql_parse_select that takes a token makes v of the words w.   *)
(***************************************************************************)
LEMMA SelectReads ==
  ASSUME NEW p \in SelectPlace \ {"judge"}, SelectTakes(p, After(p)),
         command \in Command, Typed, Next1 \in Token,
         NEW d \in {0, 1}, p \in {"fields", "from", "select_table"} => d = 0,
         NEW w, NEW v, Continues(v, w, Next1), Stage(w, d)
  PROVE  /\ Stage(v, d)' /\ (After(p) = "end" => Len(v) = Full(goal)' + d)
         /\ Typed'
         /\ (After(p) = "end" /\ goal' = "SELECT_ALL" => d = 0)
<1>1. PICK n \in 1 .. 7 : n = Index(p)
  BY IndexFacts DEF SelectPlace
<1>2. /\ at = p /\ at' = After(p) /\ goal' = goal /\ SelectFit(p, Next1)
  BY DEF SelectTakes, Passes
<1>3. Len(w) = n + d /\ SelectSays(w, d, n, command)
  BY <1>1, <1>2 DEF Stage
<1>4. /\ Len(v) = n + d + 1 /\ v[n + d + 1] = Next1
      /\ \A i \in 1 .. n + d : v[i] = w[i]
  BY <1>3 DEF Continues
<1>5. /\ n = 1 => p = "fields"
      /\ n = 2 => p = "from"
      /\ n = 3 => p = "select_table"
      /\ n = 4 => p = "where"
      /\ n = 5 => p = "column"
      /\ n = 6 => p = "comparison"
      /\ n = 7 => p \in {"int_value", "text_value"}
  BY <1>1, IndexFacts DEF SelectPlace
<1>6. /\ p \notin {"column", "comparison", "int_value", "text_value"} => command' = command
      /\ p = "column" => command'.where_column = Next1.text
      /\ p = "comparison" => /\ command'.comparison = sql_parse_comparison(Next1)
                             /\ command'.where_column = command.where_column
      /\ p = "int_value" => /\ command'.int_value = sql_parse_int(Next1)
                            /\ command'.where_column = command.where_column
                            /\ command'.comparison = command.comparison
      /\ p = "text_value" => /\ command'.text_value = Next1.chars
                             /\ command'.where_column = command.where_column
                             /\ command'.comparison = command.comparison
  <2> DEFINE x == Next1.text  y == sql_parse_comparison(Next1)  z == sql_parse_int(Next1)
             u == Next1.chars
  <2>1. /\ [command EXCEPT !.where_column = x].where_column = x
        /\ [command EXCEPT !.comparison = y].comparison = y
        /\ [command EXCEPT !.comparison = y].where_column = command.where_column
        /\ [command EXCEPT !.int_value = z].int_value = z
        /\ [command EXCEPT !.int_value = z].where_column = command.where_column
        /\ [command EXCEPT !.int_value = z].comparison = command.comparison
        /\ [command EXCEPT !.text_value = u].text_value = u
        /\ [command EXCEPT !.text_value = u].where_column = command.where_column
        /\ [command EXCEPT !.text_value = u].comparison = command.comparison
    <3> HIDE DEF x, y, z, u
    <3> QED
      BY CommandFields
  <2>2. /\ p \notin {"column", "comparison", "int_value", "text_value"} => command' = command
        /\ p = "column" => command' = [command EXCEPT !.where_column = x]
        /\ p = "comparison" => command' = [command EXCEPT !.comparison = y]
        /\ p = "int_value" => command' = [command EXCEPT !.int_value = z]
        /\ p = "text_value" => command' = [command EXCEPT !.text_value = u]
    BY DEF SelectTakes
  <2> HIDE DEF x, y, z, u
  <2>3. /\ p \notin {"column", "comparison", "int_value", "text_value"} => command' = command
        /\ p = "column" => command'.where_column = x
        /\ p = "comparison" => /\ command'.comparison = y
                               /\ command'.where_column = command.where_column
        /\ p = "int_value" => /\ command'.int_value = z
                              /\ command'.where_column = command.where_column
                              /\ command'.comparison = command.comparison
        /\ p = "text_value" => /\ command'.text_value = u
                               /\ command'.where_column = command.where_column
                               /\ command'.comparison = command.comparison
    BY <2>1, <2>2
  <2> QED
    BY <2>3 DEF x, y, z, u
<1>7. /\ p = "int_value" => Judged /\ command.where_column # "name"
      /\ p = "text_value" => Judged /\ command.where_column = "name"
      /\ p \notin {"int_value", "text_value"} => goal = "SELECT_ALL"
  BY <1>2 DEF Typed
<1>8. SelectSays(v, d, n + 1, command')
  <2>1. PICK e : e = command'
    OBVIOUS
  <2>2. p = "column" => Next1 = Word(Next1.text) /\ Next1.text # "overlong"
    <3>1. Next1.kind = "word" => Next1 = Word(Next1.text)
      BY TokenWord
    <3> QED
      BY <1>2, <3>1 DEF SelectFit, sql_parse_identifier
  <2>3. /\ n = 1 => Next1 = Mark("*")
        /\ n = 2 => Next1 = Word("FROM")
        /\ n = 3 => Next1 = Word("users")
        /\ n = 4 => Next1 = Word("WHERE")
    BY <1>2, <1>5 DEF SelectFit
  <2>4. n = 5 => Next1 = Word(e.where_column) /\ e.where_column # "overlong"
    BY <1>5, <1>6, <2>1, <2>2
  <2>5. n = 6 => /\ Next1.kind = "mark" /\ Next1.text \in Comparison
                 /\ e.comparison = sql_parse_comparison(Next1)
    BY <1>2, <1>5, <1>6, <2>1 DEF SelectFit
  <2>6. n = 7 => IF e.where_column = "name"
                 THEN sql_parse_string(Next1) /\ e.text_value = Next1.chars
                 ELSE Next1.kind = "int" /\ e.int_value = sql_parse_int(Next1)
    BY <1>2, <1>5, <1>6, <1>7, <2>1 DEF SelectFit
  <2>7. /\ n >= 6 => e.where_column = command.where_column
        /\ n >= 7 => e.comparison = command.comparison
    BY <1>5, <1>6, <2>1
  <2>8. SelectSays(v, d, n + 1, e)
    <3>1. PICK t : t = Next1
      OBVIOUS
    <3> QED
      BY ONLY n \in 1 .. 7, d \in {0, 1}, <1>3, <1>4, <2>3, <2>4, <2>5, <2>6, <2>7, <3>1,
              SelectGrows
  <2> QED
    BY <2>1, <2>8
<1>9. Judged /\ p \in {"int_value", "text_value"}
        => /\ Judged'
           /\ Full(goal) = 8 /\ goal \in SelectGoal /\ goal # "SELECT_ALL"
  <2>1. Judged => goal \in {"SELECT_BY_ID", "SELECT_BY_AGE", "SELECT_BY_NAME"}
    BY DEF Judged, WhereOf
  <2>2. goal \in {"SELECT_BY_ID", "SELECT_BY_AGE", "SELECT_BY_NAME"}
          => Full(goal) = 8 /\ goal \in SelectGoal /\ goal # "SELECT_ALL"
    BY DEF Full, SelectGoal
  <2> QED
    BY <1>2, <1>6, <2>1, <2>2 DEF Judged
<1>10. CASE p \in {"int_value", "text_value"}
  <2>1. n = 7 /\ at' = "end"
    BY <1>1, <1>2, <1>10, IndexFacts DEF After
  <2>2. Judged' /\ Full(goal) = 8 /\ goal \in SelectGoal /\ goal # "SELECT_ALL"
    BY <1>7, <1>9, <1>10
  <2>3. Stage(v, d)'
    BY <1>2, <1>8, <2>1, <2>2 DEF Stage, Says, InsertPlace, SelectPlace, Ending
  <2>4. Typed'
    BY <2>1, <2>2 DEF Typed, InsertPlace, SelectPlace, Ending
  <2>5. Len(v) = Full(goal)' + d
    BY <1>2, <1>4, <2>1, <2>2
  <2> QED
    BY <1>2, <2>1, <2>2, <2>3, <2>4, <2>5
<1>11. CASE p = "select_table"
  <2>1. n = 3 /\ at' = "end" /\ d = 0 /\ goal' = "SELECT_ALL" /\ Full(goal') = 4
        /\ "SELECT_ALL" \in SelectGoal
    BY <1>1, <1>2, <1>7, <1>11, IndexFacts DEF After, Full, SelectGoal
  <2>2. Stage(v, d)'
    BY <1>2, <1>8, <2>1 DEF Stage, Says, InsertPlace, SelectPlace, Ending
  <2>3. Typed'
    BY <2>1 DEF Typed, InsertPlace, SelectPlace, Ending
  <2> QED
    BY <1>2, <1>4, <2>1, <2>2, <2>3
<1>12. CASE p \notin {"select_table", "int_value", "text_value"}
  <2>1. /\ After(p) \in SelectPlace \ {"int_value", "text_value"} /\ goal' = "SELECT_ALL"
        /\ n + 1 = Index(After(p))
    BY <1>1, <1>2, <1>7, <1>12, IndexFacts DEF After, SelectPlace
  <2>2. PICK q : q = After(p)
    OBVIOUS
  <2>3. Stage(v, d)'
    BY <1>2, <1>4, <1>8, <2>1, <2>2 DEF Stage, InsertPlace, SelectPlace, Ending
  <2>4. Typed'
    BY <1>2, <2>1, <2>2 DEF Typed, InsertPlace, SelectPlace, Ending
  <2>5. After(p) # "end"
    BY <2>1 DEF SelectPlace
  <2> QED
    BY <2>3, <2>4, <2>5
<1> QED
  BY <1>10, <1>11, <1>12

-----------------------------------------------------------------------------
(* The parser keeps to what it has read, step by step.                     *)

(***************************************************************************)
(* No token that a place looks for is a semicolon.                         *)
(***************************************************************************)
LEMMA FitApart ==
  ASSUME NEW p, NEW t, InsertFit(p, t) \/ SelectFit(p, t) PROVE t # Semicolon
<1>1. ";" \notin Comparison \cup {"(", ")", "*"}
  BY Zenon DEF Comparison
<1>2. PICK s : s = ";"
  OBVIOUS
<1>3. s \notin Comparison \cup {"(", ")", "*"} /\ Semicolon.kind = "mark" /\ Semicolon.text = s
  BY <1>1, <1>2, MarksApart, Zenon
<1>4. Comma # Semicolon
  BY MarksApart, Zenon
<1> QED
  BY <1>3, <1>4 DEF InsertFit, SelectFit, Word, Mark, sql_parse_string, sql_parse_identifier

(***************************************************************************)
(* What is said in the first words does not depend on those after them.    *)
(***************************************************************************)
LEMMA SaysMore ==
  ASSUME NEW w, NEW v, NEW d \in {0, 1}, NEW g, NEW c, Says(w, d, g, c),
         g \in SelectGoal \cup {"EXIT", "INSERT"},
         \A i \in 1 .. Full(g) + d : v[i] = w[i]
  PROVE  Says(v, d, g, c)
<1>1. CASE g = "EXIT"
  <2>1. Full(g) = 1 /\ d = 0 /\ w[1] \in {Word("EXIT"), Word("QUIT")}
    BY <1>1 DEF Says, Full, SelectGoal
  <2> QED
    BY <1>1, <2>1 DEF Says
<1>2. CASE g = "INSERT"
  <2>1. Full(g) = 9 /\ d = 0 /\ InsertSays(w, 9, c)
    BY <1>2 DEF Says, Full, SelectGoal
  <2>2. \A i \in 1 .. 9 : v[i] = w[i]
    BY <2>1
  <2>3. v[1] = w[1] /\ v[2] = w[2] /\ v[3] = w[3] /\ v[4] = w[4] /\ v[5] = w[5]
        /\ v[6] = w[6] /\ v[7] = w[7] /\ v[8] = w[8] /\ v[9] = w[9]
    BY <2>2
  <2>4. InsertSays(v, 9, c)
    BY <2>1, <2>3 DEF InsertSays
  <2> QED
    BY <1>2, <2>1, <2>4 DEF Says
<1>3. CASE g \in SelectGoal
  <2>1. PICK n \in {4, 8} : Full(g) = n
    BY <1>3 DEF Full, SelectGoal
  <2>2. SelectSays(w, d, n, c)
    BY <1>3, <2>1 DEF Says, SelectGoal
  <2>3. \A i \in 1 .. n + d : v[i] = w[i]
    BY <2>1
  <2>4. v[1] = w[1] /\ v[2] = w[2] /\ v[3] = w[3] /\ v[4] = w[4]
        /\ (d = 1 => v[5] = w[5])
        /\ (n = 8 => v[5 + d] = w[5 + d] /\ v[6 + d] = w[6 + d] /\ v[7 + d] = w[7 + d]
                     /\ v[8 + d] = w[8 + d])
    BY <2>3
  <2>5. n >= 5 <=> n = 8
    OBVIOUS
  <2>6. SelectSays(v, d, n, c)
    BY <2>2, <2>4, <2>5 DEF SelectSays
  <2> QED
    BY <1>3, <2>1, <2>6 DEF Says
<1> QED
  BY <1>1, <1>2, <1>3

-----------------------------------------------------------------------------
(* The steps of the parser.                                                *)

LEMMA ReadingStays ==
  ASSUME Reading, Said' = Said, Sense' = Sense, UNCHANGED <<at, goal, command>>,
         (Len(text) <= cursor)',
         at = "judge" => (cursor > Len(text))',
         at \in {"where", "parsed"} => UNCHANGED <<text, cursor>>
  PROVE  Reading'
<1>1. \A d \in {0, 1} : Stage(Said, d)' <=> Stage(Said, d)
  BY DEF Stage
<1>2. Stage(Sense, 0)' <=> Stage(Sense, 0)
  BY DEF Stage
<1>3. Typed' <=> Typed
  BY DEF Typed, Judged
<1>4. at \in {"where", "parsed"} => (Next1' = Next1 /\ (Asks' <=> Asks))
  BY DEF Next1, Asks
<1>5. \A d \in {0, 1} : SaidUpTo(d) => SaidUpTo(d)'
  BY <1>1, <1>4 DEF SaidUpTo
<1>6. PICK d \in {0, 1} : SaidUpTo(d)
  BY DEF Reading
<1>7. \E e \in {0, 1} : SaidUpTo(e)'
  BY <1>5, <1>6
<1> QED
  BY <1>2, <1>3, <1>4, <1>7 DEF Reading

\* Nothing is said of a text that has been refused.
LEMMA ReadingRefused ==
  ASSUME Reading, at' = "rejected", UNCHANGED <<text, cursor>> PROVE Reading'
<1>1. Stage(Said, 0)' /\ Stage(Sense, 0)' /\ Typed'
  BY DEF Stage, Typed, InsertPlace, SelectPlace, Ending
<1>2. SaidUpTo(0)'
  BY <1>1 DEF SaidUpTo, Ending
<1> QED
  BY <1>1, <1>2 DEF Reading, Ending

\* A statement begins.
LEMMA ReadingEnters ==
  ASSUME ParserTypes, Reading, sql_parse PROVE Reading'
<1>1. Len(Said) = 0 /\ Len(Sense) = 0 /\ Len(text) <= cursor /\ at \in {"start", "blank"}
      /\ Asks
  BY DEF Reading, SaidUpTo, Stage, sql_parse
<1>2. CASE SyntaxError
  BY <1>2, ReadingRefused DEF SyntaxError, Reject
<1>3. CASE Next1 = Blank /\ Enter("blank", "NONE")
  <2>1. cursor' = cursor + 1 /\ text' = text /\ at' = "blank"
    BY <1>3 DEF Enter, Take
  <2>2. Said' = Said /\ Sense' = Sense
    BY <1>1, <1>3, <2>1, WordsGrow
  <2>3. Stage(Said, 0)' /\ Stage(Sense, 0)' /\ Typed'
    BY <1>1, <2>1, <2>2 DEF Stage, Typed, InsertPlace, SelectPlace, Ending
  <2>4. SaidUpTo(0)'
    BY <2>1, <2>3 DEF SaidUpTo, Ending
  <2>5. (Len(text) <= cursor)'
    BY <1>1, <2>1 DEF ParserTypes
  <2> QED
    BY <2>1, <2>3, <2>4, <2>5 DEF Reading, Ending
<1>4. ASSUME NEW p, NEW g, Enter(p, g),
             \/ Next1 \in {Word("EXIT"), Word("QUIT")} /\ p = "end" /\ g = "EXIT"
             \/ Next1 = Word("INSERT") /\ p = "into" /\ g = "INSERT"
             \/ Next1 = Word("SELECT") /\ p = "fields" /\ g = "SELECT_ALL"
      PROVE  Reading'
  <2>1. cursor' = cursor + 1 /\ text' = text /\ at' = p /\ goal' = g /\ Next1 # Blank
        /\ Next1 # Semicolon
    <3>1. Semicolon.kind = "mark"
      BY MarksApart
    <3> QED
      BY <1>4, <3>1 DEF Enter, Take, Word, Blank
  <2>2. Said' = Append(Said, Next1) /\ Sense' = Append(Sense, Next1) /\ Next1 \in Token
    BY <1>1, <2>1, WordsGrow
  <2>3. ASSUME NEW w \in Seq(Token), Len(w) = 0, NEW v, v = Append(w, Next1)
        PROVE  Stage(v, 0)' /\ Len(v) = 1
    <3>1. Len(v) = 1 /\ v[1] = Next1
      BY <2>2, <2>3
    <3>2. CASE Next1 \in {Word("EXIT"), Word("QUIT")} /\ p = "end" /\ g = "EXIT"
      BY <2>1, <3>1, <3>2 DEF Stage, Says, InsertPlace, SelectPlace, Ending
    <3>3. CASE Next1 = Word("INSERT") /\ p = "into" /\ g = "INSERT"
      <4>1. InsertSays(v, 1, command')
        BY <3>1, <3>3 DEF InsertSays
      <4> QED
        BY <2>1, <3>1, <3>3, <4>1, IndexFacts DEF Stage, InsertPlace, SelectPlace, Ending
    <3>4. CASE Next1 = Word("SELECT") /\ p = "fields" /\ g = "SELECT_ALL"
      <4>1. SelectSays(v, 0, 1, command')
        BY <3>1, <3>4 DEF SelectSays
      <4> QED
        BY <2>1, <3>1, <3>4, <4>1, IndexFacts DEF Stage, InsertPlace, SelectPlace, Ending
    <3> QED
      BY <1>4, <3>2, <3>3, <3>4
  <2>4. Said \in Seq(Token) /\ Sense \in Seq(Token)
    BY WordsTyped
  <2>5. PICK v, u : v = Said' /\ u = Sense'
    OBVIOUS
  <2>6. Stage(v, 0)' /\ Len(v) = 1 /\ Stage(u, 0)' /\ Len(u) = 1
    BY <1>1, <2>2, <2>3, <2>4, <2>5
  <2>7. Typed'
    BY <1>4, <2>1 DEF Typed, InsertPlace, SelectPlace, Ending
  <2>8. p \in Ending => p = "end" /\ g = "EXIT" /\ Full(g) = 1
    BY <1>4 DEF Ending, Full
  <2>9. SaidUpTo(0)'
    BY <1>4, <2>1, <2>5, <2>6, <2>8 DEF SaidUpTo, Ending
  <2>10. (Len(text) <= cursor)'
    BY <1>1, <2>1 DEF ParserTypes
  <2>11. Stage(Sense, 0)' /\ (at' \in Ending => Len(Sense') = Full(goal'))
    BY <2>1, <2>5, <2>6, <2>8
  <2> QED
    BY <1>4, <2>1, <2>7, <2>9, <2>10, <2>11 DEF Reading
<1> QED
  BY <1>2, <1>3, <1>4 DEF sql_parse, IsExit, sql_match_keyword

\* INSERT.
LEMMA ReadingInsert ==
  ASSUME ParserTypes, Reading, sql_parse_insert PROVE Reading'
<1>1. CASE SyntaxError
  BY <1>1, ReadingRefused DEF SyntaxError, Reject
<1>2. ASSUME NEW p \in InsertPlace, NEW q \in InsertPlace \cup {"end"}, InsertTakes(p, q),
             Index(p) + 1 = IF q = "end" THEN 9 ELSE Index(q)
      PROVE  Reading'
  <2>1. /\ at = p /\ at' = q /\ Asks /\ Next1 # Blank /\ cursor' = cursor + 1
        /\ text' = text /\ goal' = goal /\ InsertFit(p, Next1)
    BY <1>2 DEF InsertTakes, Passes
  <2>2. goal = "INSERT" /\ command \in Command
    BY <2>1 DEF Reading, Typed, ParserTypes
  <2>3. Next1 # Semicolon
    BY <2>1, FitApart
  <2>4. Said' = Append(Said, Next1) /\ Sense' = Append(Sense, Next1) /\ Next1 \in Token
    BY <2>1, <2>3, WordsGrow
  <2>5. PICK v, u : v = Said' /\ u = Sense'
    OBVIOUS
  <2>6. Continues(v, Said, Next1) /\ Continues(u, Sense, Next1)
    BY <2>4, <2>5, AppendContinues, WordsTyped
  <2>7. Stage(Said, 0) /\ Stage(Sense, 0)
    <3>1. PICK d \in {0, 1} : Stage(Said, d)
      BY DEF Reading, SaidUpTo
    <3>2. Stage(Said, 0)
      BY <2>1, <3>1 DEF Stage, InsertPlace, SelectPlace, Ending
    <3> QED
      BY <3>2 DEF Reading
  <2>8. Stage(v, 0)' /\ (q = "end" => Len(v) = 9) /\ Stage(u, 0)' /\ (q = "end" => Len(u) = 9)
    BY <1>2, <2>2, <2>6, <2>7, InsertReads
  <2>9. Typed'
    BY <1>2, <2>1, <2>2 DEF Typed, InsertPlace, SelectPlace, Ending
  <2>10. q \notin {"semicolon", "parsed", "where", "judge"} /\ Full(goal') = 9
         /\ goal' # "SELECT_ALL"
    BY <1>2, <2>1, <2>2 DEF InsertPlace, Full
  <2>11. SaidUpTo(0)'
    BY <2>1, <2>5, <2>8, <2>10 DEF SaidUpTo
  <2>12. (Len(text) <= cursor)'
    BY <2>1 DEF Reading, ParserTypes
  <2>13. Stage(Sense, 0)' /\ (at' \in Ending => Len(Sense') = Full(goal'))
    BY <2>1, <2>5, <2>8, <2>10 DEF Ending
  <2> QED
    BY <2>1, <2>9, <2>10, <2>11, <2>12, <2>13 DEF Reading
<1>3. ASSUME NEW p, NEW q,
             <<p, q>> \in {<<"into", "insert_table">>, <<"insert_table", "values">>,
                           <<"values", "open">>, <<"open", "name">>, <<"name", "comma">>,
                           <<"comma", "age">>, <<"age", "close">>, <<"close", "end">>}
      PROVE  /\ p \in InsertPlace /\ q \in InsertPlace \cup {"end"}
             /\ Index(p) + 1 = IF q = "end" THEN 9 ELSE Index(q)
  BY <1>3, IndexFacts DEF InsertPlace
<1>4. ASSUME NEW p, NEW q,
             <<p, q>> \in {<<"into", "insert_table">>, <<"insert_table", "values">>,
                           <<"values", "open">>, <<"open", "name">>, <<"name", "comma">>,
                           <<"comma", "age">>, <<"age", "close">>, <<"close", "end">>},
             InsertTakes(p, q)
      PROVE  Reading'
  BY <1>2, <1>3, <1>4
<1> QED
  BY <1>1, <1>4, InsertTakesOrFails

\* SELECT.
LEMMA ReadingSelect ==
  ASSUME ParserTypes, Reading, sql_parse_select PROVE Reading'
<1>1. CASE SyntaxError \/ UnknownColumn
  BY <1>1, ReadingRefused DEF SyntaxError, UnknownColumn, Reject
<1>2. ASSUME NEW p \in SelectPlace \ {"judge"}, SelectTakes(p, After(p))
      PROVE  Reading'
  <2>1. /\ at = p /\ at' = After(p) /\ Asks /\ Next1 # Blank /\ cursor' = cursor + 1
        /\ text' = text /\ goal' = goal /\ SelectFit(p, Next1)
    BY <1>2 DEF SelectTakes, Passes
  <2>2. Typed /\ command \in Command
    BY DEF Reading, ParserTypes
  <2>3. Next1 # Semicolon
    BY <2>1, FitApart
  <2>4. Said' = Append(Said, Next1) /\ Sense' = Append(Sense, Next1) /\ Next1 \in Token
    BY <2>1, <2>3, WordsGrow
  <2>5. PICK v, u : v = Said' /\ u = Sense'
    OBVIOUS
  <2>6. Continues(v, Said, Next1) /\ Continues(u, Sense, Next1)
    BY <2>4, <2>5, AppendContinues, WordsTyped
  <2>7. PICK d \in {0, 1} : SaidUpTo(d)
    BY DEF Reading
  <2>8. Stage(Said, d) /\ Stage(Sense, 0)
    BY <2>7 DEF SaidUpTo, Reading
  <2>9. p \in {"fields", "from", "select_table"} => d = 0
    <3>1. SelectSays(Said, d, Index(p), command)
      BY <1>2, <2>1, <2>8 DEF Stage
    <3>2. p \in {"fields", "from", "select_table"} => Index(p) \in 1 .. 3
      BY IndexFacts
    <3> QED
      BY <2>7, <3>1, <3>2 DEF SelectSays
  <2>10. /\ Stage(v, d)' /\ (After(p) = "end" => Len(v) = Full(goal)' + d) /\ Typed'
         /\ (After(p) = "end" /\ goal' = "SELECT_ALL" => d = 0)
    BY <1>2, <2>2, <2>4, <2>6, <2>7, <2>8, <2>9, SelectReads
  <2>11. Stage(u, 0)' /\ (After(p) = "end" => Len(u) = Full(goal)' + 0)
    BY <1>2, <2>2, <2>4, <2>6, <2>8, SelectReads
  <2>12. After(p) \in {"from", "select_table", "column", "comparison", "judge", "end"}
    BY DEF After
  <2>13. SaidUpTo(d)'
    BY <2>1, <2>5, <2>10, <2>12 DEF SaidUpTo, Ending
  <2>14. (cursor > Len(text))' /\ (Len(text) <= cursor)'
    BY <2>1 DEF Reading, ParserTypes
  <2>15. Full(goal') \in Nat
    BY DEF Full
  <2>16. Stage(Sense, 0)' /\ (at' \in Ending => Len(Sense') = Full(goal'))
    BY <2>1, <2>5, <2>11, <2>12, <2>15 DEF Ending
  <2>17. \E e \in {0, 1} : SaidUpTo(e)'
    BY <2>7, <2>13
  <2> QED
    BY <2>1, <2>10, <2>12, <2>14, <2>16, <2>17 DEF Reading
<1>3. CASE JudgeColumn
  <2>1. CASE ~(SyntaxError \/ UnknownColumn)
    <3>1. /\ at = "judge" /\ command.where_column \in {"id", "name", "age"}
          /\ command.where_column = "name" => command.comparison = "=="
          /\ at' = IF command.where_column = "name" THEN "text_value" ELSE "int_value"
          /\ goal' = WhereOf(command.where_column)
          /\ UNCHANGED <<text, cursor, command>>
      BY <1>3, <2>1 DEF JudgeColumn, sql_is_known_column, Word
    <3>2. Said' = Said /\ Sense' = Sense
      BY <3>1 DEF Said, Sense, Passed
    <3>3. Judged'
      BY <3>1 DEF Judged
    <3>4. Typed'
      BY <3>1, <3>3 DEF Typed, InsertPlace, SelectPlace, Ending
    <3>5. Index(at') = 7 /\ Index(at) = 7 /\ at \in SelectPlace /\ at' \in SelectPlace
      BY <3>1, IndexFacts DEF SelectPlace
    <3>6. ASSUME NEW d \in {0, 1}, NEW w, Stage(w, d) PROVE Stage(w, d)'
      BY <3>1, <3>5, <3>6 DEF Stage, InsertPlace, SelectPlace, Ending
    <3>7. PICK d \in {0, 1} : SaidUpTo(d)
      BY DEF Reading
    <3>8. Stage(Said, d)'
      <4>1. PICK v : v = Said
        OBVIOUS
      <4>2. Stage(v, d)'
        BY <3>6, <3>7, <4>1 DEF SaidUpTo
      <4> QED
        BY <3>2, <4>1, <4>2
    <3>9. Stage(Sense, 0)'
      <4>1. PICK v : v = Sense
        OBVIOUS
      <4>2. Stage(v, 0)'
        BY <3>6, <4>1 DEF Reading
      <4> QED
        BY <3>2, <4>1, <4>2
    <3>10. SaidUpTo(d)'
      BY <3>1, <3>8 DEF SaidUpTo, Ending
    <3>11. (Len(text) <= cursor)'
      BY <3>1 DEF Reading
    <3> QED
      BY <3>1, <3>4, <3>7, <3>9, <3>10, <3>11 DEF Reading, Ending
  <2> QED
    BY <1>1, <2>1
<1>4. /\ After("fields") = "from" /\ After("from") = "select_table"
      /\ After("select_table") = "end" /\ After("where") = "column"
      /\ After("column") = "comparison" /\ After("comparison") = "judge"
      /\ After("int_value") = "end" /\ After("text_value") = "end"
  BY DEF After
<1>5. ASSUME NEW p, NEW q, SelectTakes(p, q),
             q = After(p) /\ p \in SelectPlace \ {"judge"}
      PROVE  Reading'
  BY <1>2, <1>5
<1> QED
  BY <1>1, <1>3, <1>4, <1>5, SelectTakesOrFails DEF SelectPlace

\* The end.
LEMMA ReadingEnds ==
  ASSUME ParserTypes, Reading, sql_match_statement_end PROVE Reading'
<1>1. at \in {"end", "semicolon"} /\ Asks /\ Next1 # Blank
  BY DEF sql_match_statement_end
<1>2. PICK d \in {0, 1} : SaidUpTo(d)
  BY DEF Reading
<1>3. /\ Says(Said, d, goal, command) /\ Says(Sense, 0, goal, command)
      /\ Len(Sense) = Full(goal) /\ Typed
  BY <1>1, <1>2 DEF SaidUpTo, Reading, Stage, Ending
<1>4. goal \in SelectGoal \cup {"EXIT", "INSERT"}
  BY <1>3 DEF Says
<1>5. CASE SyntaxError
  BY <1>5, ReadingRefused DEF SyntaxError, Reject
<1>6. CASE Next1 = End /\ at' = "parsed" /\ UNCHANGED <<text, cursor, goal, command>>
  <2>1. Said' = Said /\ Sense' = Sense /\ Next1' = Next1 /\ Asks'
    BY <1>1, <1>6 DEF Said, Sense, Passed, Next1, Asks
  <2>2. Stage(Said, d)' /\ Stage(Sense, 0)'
    BY <1>3, <1>6, <2>1 DEF Stage, InsertPlace, SelectPlace, Ending
  <2>3. Typed'
    BY <1>1, <1>3, <1>6 DEF Typed, Judged, InsertPlace, SelectPlace, Ending
  <2>4. SaidUpTo(d)'
    BY <1>1, <1>2, <1>6, <2>1, <2>2 DEF SaidUpTo, Ending
  <2>5. (Len(text) <= cursor)'
    BY <1>6 DEF Reading
  <2> QED
    BY <1>2, <1>3, <1>6, <2>1, <2>2, <2>3, <2>4, <2>5 DEF Reading, Ending
<1>7. CASE at = "end" /\ Next1 = Semicolon /\ Enter("semicolon", goal)
  <2>1. cursor' = cursor + 1 /\ text' = text /\ at' = "semicolon" /\ goal' = goal
        /\ command' = command
    BY <1>7 DEF Enter, Take
  <2>2. Said' = Append(Said, Semicolon) /\ Sense' = Sense /\ Semicolon \in Token
    BY <1>1, <1>7, <2>1, WordsGrow
  <2>3. PICK v : v = Said'
    OBVIOUS
  <2>4. PICK w : w = Said
    OBVIOUS
  <2>5. Continues(v, w, Semicolon)
    BY <2>2, <2>3, <2>4, AppendContinues, WordsTyped
  <2>6. Len(w) = Full(goal) + d
    BY <1>2, <1>7, <2>4 DEF SaidUpTo
  <2>7. Says(v, d, goal, command)
    BY <1>2, <1>3, <1>4, <2>4, <2>5, <2>6, SaysMore DEF Continues
  <2>8. Len(v) = Full(goal) + d + 1 /\ v[Len(v)] = Semicolon
    BY <2>5, <2>6 DEF Continues
  <2>9. Stage(Said, d)' /\ Stage(Sense, 0)'
    BY <1>3, <2>1, <2>2, <2>3, <2>7 DEF Stage, InsertPlace, SelectPlace, Ending
  <2>10. Typed'
    BY <1>1, <1>3, <2>1 DEF Typed, Judged, InsertPlace, SelectPlace, Ending
  <2>11. goal = "SELECT_ALL" => d = 0
    BY <1>1, <1>2 DEF SaidUpTo, Ending
  <2>12. SaidUpTo(d)'
    BY <2>1, <2>3, <2>8, <2>9, <2>11 DEF SaidUpTo, Ending
  <2>13. (Len(text) <= cursor)'
    BY <2>1 DEF Reading, ParserTypes
  <2> QED
    BY <1>2, <1>3, <2>1, <2>2, <2>9, <2>10, <2>12, <2>13 DEF Reading, Ending
<1>8. CASE /\ goal = "SELECT_ALL" /\ at' = "where" /\ Next1 # End
           /\ at = "end" => Next1 # Semicolon
           /\ UNCHANGED <<text, cursor, goal, command>>
  <2>1. Said' = Said /\ Sense' = Sense /\ Next1' = Next1 /\ Asks'
    BY <1>1, <1>8 DEF Said, Sense, Passed, Next1, Asks
  <2>2. d = 0 /\ Full(goal) = 4 /\ goal \in SelectGoal
    BY <1>1, <1>2, <1>8 DEF SaidUpTo, Ending, Full, SelectGoal
  <2>3. SelectSays(Said, 0, 4, command) /\ SelectSays(Sense, 0, 4, command) /\ Len(Sense) = 4
    BY <1>3, <1>8, <2>2 DEF Says
  <2>4. Stage(Sense, 0)'
    BY <1>8, <2>1, <2>3, IndexFacts DEF Stage, InsertPlace, SelectPlace, Ending
  <2>5. Typed'
    BY <1>8 DEF Typed, InsertPlace, SelectPlace, Ending
  <2>6. \E e \in {0, 1} : SaidUpTo(e)'
    <3>1. CASE at = "end"
      <4>1. Len(Said) = 4
        BY <1>2, <2>2, <3>1 DEF SaidUpTo
      <4>2. Stage(Said, 0)'
        BY <1>8, <2>1, <2>3, <4>1, IndexFacts DEF Stage, InsertPlace, SelectPlace, Ending
      <4>3. SaidUpTo(0)'
        BY <1>8, <2>1, <3>1, <4>2 DEF SaidUpTo, Ending
      <4> QED
        BY <4>3
    <3>2. CASE at = "semicolon"
      <4>1. Len(Said) = 5 /\ Said[5] = Semicolon
        <5>1. Len(Said) = Full(goal) + d + 1 /\ Said[Len(Said)] = Semicolon
          BY <1>2, <3>2 DEF SaidUpTo
        <5>2. Full(goal) + d + 1 = 5
          BY <2>2
        <5> QED
          BY <5>1, <5>2
      <4>2. SelectSays(Said, 1, 4, command)
        BY <2>3, <4>1 DEF SelectSays
      <4>3. Stage(Said, 1)'
        BY <1>8, <2>1, <4>1, <4>2, IndexFacts DEF Stage, InsertPlace, SelectPlace, Ending
      <4>4. SaidUpTo(1)'
        BY <1>8, <2>1, <4>3 DEF SaidUpTo, Ending
      <4> QED
        BY <4>4
    <3> QED
      BY <1>1, <3>1, <3>2
  <2>7. (Len(text) <= cursor)'
    BY <1>8 DEF Reading
  <2> QED
    BY <1>1, <1>8, <2>1, <2>4, <2>5, <2>6, <2>7 DEF Reading, Ending
<1>9. \/ Next1 = End /\ at' = "parsed" /\ UNCHANGED <<text, cursor, goal, command>>
      \/ at = "end" /\ Next1 = Semicolon /\ Enter("semicolon", goal)
      \/ /\ goal = "SELECT_ALL" /\ at' = "where" /\ Next1 # End
         /\ at = "end" => Next1 # Semicolon
         /\ UNCHANGED <<text, cursor, goal, command>>
      \/ SyntaxError
  BY Zenon DEF sql_match_statement_end, Semicolon
<1> QED
  BY <1>5, <1>6, <1>7, <1>8, <1>9

(***************************************************************************)
(* A step of the parser, or of the sender.                                 *)
(***************************************************************************)
LEMMA ReadingStep == ASSUME ParserTypes, Reading, ParserStep PROVE Reading'
<1>1. ASSUME NEW t \in Token, Write(t) PROVE Reading'
  <2>1. /\ at \notin {"parsed", "rejected", "judge"} /\ cursor > Len(text)
        /\ text' = Append(text, t) /\ UNCHANGED <<cursor, at, goal, command>>
    BY <1>1 DEF Write, Final
  <2>2. Said' = Said /\ Sense' = Sense
    BY <1>1, <2>1, WordsStay
  <2>3. (Len(text) <= cursor)'
    BY <1>1, <2>1 DEF ParserTypes
  <2>4. at # "where"
    BY <2>1 DEF Reading, Asks, ParserTypes
  <2> QED
    BY <2>1, <2>2, <2>3, <2>4, ReadingStays
<1>2. CASE sql_skip_spaces
  <2>1. /\ at \notin {"parsed", "rejected", "start"} /\ Asks /\ Next1 = Blank
        /\ cursor' = cursor + 1 /\ UNCHANGED <<text, at, goal, command>>
    BY <1>2 DEF sql_skip_spaces, Final, Take
  <2>2. Said' = Said /\ Sense' = Sense
    BY <2>1, WordsGrow
  <2>3. (Len(text) <= cursor)' /\ at # "where" /\ at # "judge"
    BY <2>1 DEF Reading, Asks, ParserTypes
  <2> QED
    BY <2>1, <2>2, <2>3, ReadingStays
<1> QED
  BY <1>1, <1>2, ReadingEnters, ReadingEnds, ReadingInsert, ReadingSelect DEF ParserStep

(***************************************************************************)
(* Nothing has been read at the beginning.                                 *)
(***************************************************************************)
LEMMA ReadingBegins ==
  (text = <<>> /\ cursor = 1 /\ at = "start") => Reading
<1> SUFFICES ASSUME text = <<>>, cursor = 1, at = "start" PROVE Reading
  OBVIOUS
<1>1. Passed = <<>>
  BY DEF Passed
<1>2. Said = <<>> /\ Sense = <<>>
  BY <1>1, KeptNone DEF Said, Sense
<1>3. Stage(Said, 0) /\ Stage(Sense, 0) /\ Typed
  BY <1>2 DEF Stage, Typed, InsertPlace, SelectPlace, Ending
<1>4. SaidUpTo(0)
  BY <1>3 DEF SaidUpTo, Ending
<1> QED
  BY <1>3, <1>4 DEF Reading, Ending

-----------------------------------------------------------------------------
(* The sentences of the language, as shapes.                               *)

SemicolonText == ";"
CommaText == ","

\* What tokens count for.
Lexeme == {SemicolonText, CommaText, "(", ")", "*", "junk", "int", "string", "oversized",
           "blank", "end", "openstring"} \cup Comparison \cup Vocabulary

InsertText == <<"INSERT", "INTO", "users", "VALUES", "(", "string", CommaText, "int", ")">>

(***************************************************************************)
(* What a token counts for tells which token it is, as far as the language *)
(* goes.                                                                   *)
(***************************************************************************)
LEMMA CountsForFacts ==
  /\ \A w : CountsFor(Word(w)) = w
  /\ \A m : CountsFor(Mark(m)) = m
  /\ CountsFor(Semicolon) = SemicolonText /\ CountsFor(Comma) = CommaText
  /\ \A t : t.kind = "int" => CountsFor(t) = "int"
  /\ \A t : sql_parse_string(t) => CountsFor(t) = "string"
  /\ CountsFor(End) = "end"
<1>1. /\ \A w : CountsFor(Word(w)) = w
      /\ \A m : CountsFor(Mark(m)) = m
  BY DEF CountsFor, Word, Mark
<1>2. /\ \A t : t.kind = "int" => CountsFor(t) = "int"
      /\ \A t : sql_parse_string(t) => CountsFor(t) = "string"
      /\ CountsFor(End) = "end"
  BY DEF CountsFor, sql_parse_string, End
<1>3. CountsFor(Semicolon) = SemicolonText /\ CountsFor(Comma) = CommaText
  BY <1>1, Zenon DEF Semicolon, Comma, SemicolonText, CommaText
<1> QED
  BY <1>1, <1>2, <1>3

LEMMA TokenCounted ==
  ASSUME NEW t \in Token
  PROVE  /\ CountsFor(t) \in Lexeme
         /\ CountsFor(t) \in Vocabulary => t = Word(CountsFor(t))
         /\ CountsFor(t) \in Comparison \cup {"(", ")", "*"} => t = Mark(CountsFor(t))
         /\ CountsFor(t) = SemicolonText => t = Semicolon
         /\ CountsFor(t) = CommaText => t = Comma
         /\ CountsFor(t) = "int" => t.kind = "int"
         /\ CountsFor(t) = "string" => sql_parse_string(t)
         /\ CountsFor(t) = "end" => t = End
<1> DEFINE Other == {"int", "string", "oversized", "blank", "end", "openstring"}
           Simple == Comparison \cup {"(", ")", "*"}
<1>1. /\ SemicolonText \notin Vocabulary \cup Simple \cup Other
      /\ CommaText \notin Vocabulary \cup Simple \cup Other
      /\ SemicolonText # CommaText
  BY Zenon DEF SemicolonText, CommaText, Vocabulary, Comparison
<1>2. /\ \A x \in Vocabulary : x \notin Simple \cup Other
      /\ \A x \in Simple : x \notin Other
      /\ "junk" \notin Vocabulary \cup Simple \cup Other
  BY DEF Vocabulary, Comparison
<1>3. SemicolonText # "junk" /\ CommaText # "junk"
  BY Zenon DEF SemicolonText, CommaText
<1>5. Vocabulary \subseteq Lexeme /\ Simple \subseteq Lexeme /\ Other \subseteq Lexeme
      /\ SemicolonText \in Lexeme /\ CommaText \in Lexeme /\ "junk" \in Lexeme
  BY DEF Lexeme
<1>6. CASE t \in {Word(w) : w \in Vocabulary}
  <2>1. PICK w \in Vocabulary : t = Word(w)
    BY <1>6
  <2>2. CountsFor(t) = w
    BY <2>1, CountsForFacts
  <2>3. w \notin Simple \cup Other /\ w \in Lexeme
    BY <1>2, <1>5, <2>1
  <2>4. w # SemicolonText /\ w # CommaText
    BY <1>1, <2>1
  <2> QED
    BY <2>1, <2>2, <2>3, <2>4
<1>7. CASE t \in {Mark(m) : m \in Comparison \cup {"(", ")", ",", "*", ";", "junk"}}
  <2>1. PICK m \in Simple \cup {CommaText, SemicolonText, "junk"} : t = Mark(m)
    <3>1. PICK m \in Comparison \cup {"(", ")", ",", "*", ";", "junk"} : t = Mark(m)
      BY <1>7, Zenon
    <3>2. m \in Simple \cup {CommaText, SemicolonText, "junk"}
      BY <3>1, Zenon DEF CommaText, SemicolonText
    <3> QED
      BY <3>1, <3>2, Zenon
  <2>2. CountsFor(t) = m
    BY <2>1, CountsForFacts
  <2>3. m \in Lexeme /\ m \notin Vocabulary /\ m \notin Other
    BY <1>1, <1>2, <1>5, <2>1
  <2>4. /\ m = SemicolonText => t = Semicolon
        /\ m = CommaText => t = Comma
    BY <2>1, Zenon DEF SemicolonText, CommaText, Semicolon, Comma
  <2> QED
    BY <2>1, <2>2, <2>3, <2>4
<1>8. CASE t \in {Integer(n) : n \in Literal}
  <2>1. t.kind = "int"
    BY <1>8 DEF Integer
  <2>2. CountsFor(t) = "int"
    BY <2>1, CountsForFacts
  <2>3. "int" \in Other
    OBVIOUS
  <2> QED
    BY <1>1, <1>2, <1>5, <2>1, <2>2, <2>3
<1>9. CASE t \in {String(s) : s \in Name}
  <2>1. t.kind = "string"
    BY <1>9 DEF String
  <2>2. CountsFor(t) = IF sql_parse_string(t) THEN "string" ELSE "oversized"
    BY <2>1 DEF CountsFor, sql_parse_string
  <2>3. "string" \in Other /\ "oversized" \in Other
    OBVIOUS
  <2>4. CountsFor(t) \in {"string", "oversized"} /\ (CountsFor(t) = "string" => sql_parse_string(t))
    BY <2>2
  <2>5. CountsFor(t) \in Other \ {"end", "int"}
    BY <2>4
  <2> QED
    BY <1>1, <1>2, <1>5, <2>4, <2>5
<1>10. CASE t \in {Blank, End, [kind |-> "openstring"]}
  <2>1. CountsFor(t) = t.kind /\ t.kind \in {"blank", "end", "openstring"}
        /\ (t.kind = "end" => t = End)
    BY <1>10 DEF CountsFor, Blank, End
  <2>2. CountsFor(t) \in Other \ {"string", "int"} /\ (CountsFor(t) = "end" => t = End)
    BY <2>1
  <2> QED
    BY <1>1, <1>2, <1>5, <2>2
<1> QED
  BY <1>6, <1>7, <1>8, <1>9, <1>10, Zenon DEF Token

\* The end of a sentence, from its k-th word on.
TailAt(s, k) == \/ Len(s) = k /\ s[k] = "end"
                \/ Len(s) = k + 1 /\ s[k] = SemicolonText /\ s[k + 1] = "end"

SelectShape(s) == s[1] = "SELECT" /\ s[2] = "*" /\ s[3] = "FROM" /\ s[4] = "users"
ClauseShape(s) == /\ s[5] = "WHERE"
                  /\ \/ s[6] \in {"id", "age"} /\ s[7] \in Comparison /\ s[8] = "int"
                     \/ s[6] = "name" /\ s[7] = "=" /\ s[8] = "string"
InsertShape(s) == /\ s[1] = "INSERT" /\ s[2] = "INTO" /\ s[3] = "users" /\ s[4] = "VALUES"
                  /\ s[5] = "(" /\ s[6] = "string" /\ s[7] = CommaText /\ s[8] = "int"
                  /\ s[9] = ")"

\* The sentences, word by word.
Shape(s) == \/ s[1] \in {"EXIT", "QUIT"} /\ TailAt(s, 2)
            \/ InsertShape(s) /\ TailAt(s, 10)
            \/ SelectShape(s) /\ TailAt(s, 5)
            \/ SelectShape(s) /\ ClauseShape(s) /\ TailAt(s, 9)

(***************************************************************************)
(* A statement with its end.                                               *)
(***************************************************************************)
LEMMA StatementEnds ==
  ASSUME NEW x \in Seq(Lexeme), NEW s \in Seq(Lexeme)
  PROVE  (\A i \in 1 .. Len(x) : s[i] = x[i]) /\ TailAt(s, Len(x) + 1)
           <=> s \in {x \o <<"end">>, x \o <<";", "end">>}
<1> DEFINE short == <<"end">>
           long == <<SemicolonText, "end">>
           n == Len(x)
<1>1. SemicolonText \in Lexeme /\ "end" \in Lexeme
  BY DEF Lexeme
<1>2. /\ short \in Seq(Lexeme) /\ Len(short) = 1 /\ short[1] = "end"
      /\ long \in Seq(Lexeme) /\ Len(long) = 2 /\ long[1] = SemicolonText /\ long[2] = "end"
      /\ n \in Nat
  BY <1>1
<1>3. long = <<";", "end">>
  BY Zenon DEF SemicolonText
<1> HIDE DEF short, long, n
<1>4. /\ x \o short \in Seq(Lexeme) /\ Len(x \o short) = n + 1
      /\ \A i \in 1 .. n : (x \o short)[i] = x[i]
      /\ (x \o short)[n + 1] = "end"
  <2>1. /\ x \o short \in Seq(Lexeme) /\ Len(x \o short) = n + Len(short)
        /\ \A i \in 1 .. n : (x \o short)[i] = x[i]
        /\ \A i \in 1 .. Len(short) : (x \o short)[n + i] = short[i]
    <3>1. short \in Seq(Lexeme)
      BY <1>2
    <3>2. x \o short \in Seq(Lexeme) /\ Len(x \o short) = Len(x) + Len(short)
      BY <3>1, ConcatFacts
    <3>3. \A i \in 1 .. Len(x) : (x \o short)[i] = x[i]
      BY <3>1, ConcatFacts
    <3>4. \A i \in 1 .. Len(short) : (x \o short)[Len(x) + i] = short[i]
      BY <3>1, ConcatFacts
    <3> QED
      BY <3>2, <3>3, <3>4 DEF n
  <2>2. 1 \in 1 .. Len(short)
    BY <1>2
  <2> QED
    BY <1>2, <2>1, <2>2
<1>5. /\ x \o long \in Seq(Lexeme) /\ Len(x \o long) = n + 2
      /\ \A i \in 1 .. n : (x \o long)[i] = x[i]
      /\ (x \o long)[n + 1] = SemicolonText /\ (x \o long)[n + 2] = "end"
  <2>1. /\ x \o long \in Seq(Lexeme) /\ Len(x \o long) = n + Len(long)
        /\ \A i \in 1 .. n : (x \o long)[i] = x[i]
        /\ \A i \in 1 .. Len(long) : (x \o long)[n + i] = long[i]
    <3>1. long \in Seq(Lexeme)
      BY <1>2
    <3>2. x \o long \in Seq(Lexeme) /\ Len(x \o long) = Len(x) + Len(long)
      BY <3>1, ConcatFacts
    <3>3. \A i \in 1 .. Len(x) : (x \o long)[i] = x[i]
      BY <3>1, ConcatFacts
    <3>4. \A i \in 1 .. Len(long) : (x \o long)[Len(x) + i] = long[i]
      BY <3>1, ConcatFacts
    <3> QED
      BY <3>2, <3>3, <3>4 DEF n
  <2>2. 1 \in 1 .. Len(long) /\ 2 \in 1 .. Len(long)
    BY <1>2
  <2> QED
    BY <1>2, <2>1, <2>2
<1>6. ASSUME \A i \in 1 .. n : s[i] = x[i], TailAt(s, n + 1)
      PROVE  s = x \o short \/ s = x \o long
  <2>1. CASE Len(s) = n + 1 /\ s[n + 1] = "end"
    <3>1. \A i \in 1 .. Len(s) : i \in 1 .. n \/ i = n + 1
      BY <1>2, <2>1
    <3>2. \A i \in 1 .. Len(s) : s[i] = (x \o short)[i]
      BY <1>4, <1>6, <2>1, <3>1
    <3> QED
      BY <1>4, <2>1, <3>2, SeqEqual
  <2>2. CASE Len(s) = n + 2 /\ s[n + 1] = SemicolonText /\ s[n + 2] = "end"
    <3>1. \A i \in 1 .. Len(s) : i \in 1 .. n \/ i = n + 1 \/ i = n + 2
      BY <1>2, <2>2
    <3>2. \A i \in 1 .. Len(s) : s[i] = (x \o long)[i]
      BY <1>5, <1>6, <2>2, <3>1
    <3> QED
      BY <1>5, <2>2, <3>2, SeqEqual
  <2>3. (n + 1) + 1 = n + 2
    BY <1>2
  <2> QED
    BY <1>6, <2>1, <2>2, <2>3 DEF TailAt
<1>7. ASSUME s = x \o short \/ s = x \o long
      PROVE  (\A i \in 1 .. n : s[i] = x[i]) /\ TailAt(s, n + 1)
  <2>1. (n + 1) + 1 = n + 2
    BY <1>2
  <2> QED
    BY <1>4, <1>5, <1>7, <2>1 DEF TailAt
<1>8. (\A i \in 1 .. n : s[i] = x[i]) /\ TailAt(s, n + 1) <=> s = x \o short \/ s = x \o long
  BY <1>6, <1>7
<1>9. s \in {x \o <<"end">>, x \o <<";", "end">>} <=> s = x \o short \/ s = x \o long
  BY <1>3, Zenon DEF short
<1> QED
  BY <1>8, <1>9, Zenon DEF n

(***************************************************************************)
(* The words of the statements.                                            *)
(***************************************************************************)
LEMMA InsertWords ==
  /\ InsertText \in Seq(Lexeme) /\ Len(InsertText) = 9 /\ InsertShape(InsertText)
<1>1. InsertText \in Seq(Lexeme) /\ Len(InsertText) = 9
  BY DEF InsertText, Lexeme, Vocabulary
<1> QED
  BY <1>1 DEF InsertText, InsertShape

LEMMA SelectWords ==
  SelectAll \in Seq(Lexeme) /\ Len(SelectAll) = 4 /\ SelectShape(SelectAll)
<1>1. SelectAll \in Seq(Lexeme) /\ Len(SelectAll) = 4
  BY DEF SelectAll, Lexeme, Vocabulary
<1> QED
  BY <1>1 DEF SelectAll, SelectShape

LEMMA FourAndFour ==
  ASSUME NEW S, NEW p \in Seq(S), NEW y \in Seq(S), Len(p) = 4, Len(y) = 4
  PROVE  /\ p \o y \in Seq(S) /\ Len(p \o y) = 8
         /\ (p \o y)[1] = p[1] /\ (p \o y)[2] = p[2] /\ (p \o y)[3] = p[3]
         /\ (p \o y)[4] = p[4] /\ (p \o y)[5] = y[1] /\ (p \o y)[6] = y[2]
         /\ (p \o y)[7] = y[3] /\ (p \o y)[8] = y[4]
<1>1. PICK x : x = p \o y
  OBVIOUS
<1>2. x \in Seq(S) /\ Len(x) = Len(p) + Len(y)
  <2>1. p \o y \in Seq(S) /\ Len(p \o y) = Len(p) + Len(y)
    BY ONLY p \in Seq(S), y \in Seq(S), ConcatFacts
  <2> QED
    BY <1>1, <2>1, Zenon
<1>3. \A i \in 1 .. Len(p) : x[i] = p[i]
  <2>1. \A i \in 1 .. Len(p) : (p \o y)[i] = p[i]
    BY ONLY p \in Seq(S), y \in Seq(S), ConcatFacts
  <2> QED
    BY <1>1, <2>1, Zenon
<1>4. \A i \in 1 .. Len(y) : x[Len(p) + i] = y[i]
  <2>1. \A i \in 1 .. Len(y) : (p \o y)[Len(p) + i] = y[i]
    BY ONLY p \in Seq(S), y \in Seq(S), ConcatFacts
  <2> QED
    BY <1>1, <2>1, Zenon
<1>5. Len(x) = 8 /\ x[1] = p[1] /\ x[2] = p[2] /\ x[3] = p[3] /\ x[4] = p[4]
  BY <1>2, <1>3
<1>6. \A i \in 1 .. 4 : x[4 + i] = y[i]
  BY <1>4
<1>7. x[5] = y[1] /\ x[6] = y[2] /\ x[7] = y[3] /\ x[8] = y[4]
  <2>1. 1 \in 1 .. 4 /\ 2 \in 1 .. 4 /\ 3 \in 1 .. 4 /\ 4 \in 1 .. 4
        /\ 4 + 1 = 5 /\ 4 + 2 = 6 /\ 4 + 3 = 7 /\ 4 + 4 = 8
    OBVIOUS
  <2> QED
    BY <1>6, <2>1
<1> QED
  BY <1>1, <1>2, <1>5, <1>7

WhereText(a, o, v) == <<"WHERE", a, o, v>>

WhereWords(x, a, o, v) == /\ x \in Seq(Lexeme) /\ Len(x) = 8 /\ SelectShape(x)
                          /\ x[5] = "WHERE" /\ x[6] = a /\ x[7] = o /\ x[8] = v

LEMMA ClauseWords ==
  ASSUME NEW a \in Lexeme, NEW o \in Lexeme, NEW v \in Lexeme, NEW x,
         x = SelectAll \o WhereText(a, o, v)
  PROVE  WhereWords(x, a, o, v)
<1>1. PICK y : y = WhereText(a, o, v)
  OBVIOUS
<1>2. y \in Seq(Lexeme) /\ Len(y) = 4 /\ y[1] = "WHERE" /\ y[2] = a /\ y[3] = o /\ y[4] = v
  <2>1. "WHERE" \in Lexeme
    BY DEF Lexeme, Vocabulary
  <2> QED
    BY <1>1, <2>1 DEF WhereText
<1>3. x = SelectAll \o y
  BY <1>1
<1>4. /\ x \in Seq(Lexeme) /\ Len(x) = 8
      /\ x[1] = SelectAll[1] /\ x[2] = SelectAll[2] /\ x[3] = SelectAll[3]
      /\ x[4] = SelectAll[4] /\ x[5] = y[1] /\ x[6] = y[2] /\ x[7] = y[3] /\ x[8] = y[4]
  BY ONLY <1>2, <1>3, FourAndFour, SelectWords
<1> QED
  BY <1>2, <1>4, SelectWords DEF SelectShape, WhereWords

\* The two kinds of WHERE clauses.
IsClause(a, o, v) == \/ a \in {"id", "age"} /\ o \in Comparison /\ v = "int"
                     \/ a = "name" /\ o = "=" /\ v = "string"

LEMMA ClauseLexemes ==
  ASSUME NEW a, NEW o, NEW v, IsClause(a, o, v)
  PROVE  /\ a \in Lexeme /\ o \in Lexeme /\ v \in Lexeme
         /\ WhereText(a, o, v) \in Clause
<1>1. a \in Lexeme /\ o \in Lexeme /\ v \in Lexeme
  BY DEF IsClause, Lexeme, Vocabulary, Comparison
<1> QED
  BY <1>1 DEF IsClause, Clause, WhereText

LEMMA StatementForms ==
  ASSUME NEW x
  PROVE  x \in Statement <=>
           \/ x \in {<<"EXIT">>, <<"QUIT">>, SelectAll, InsertText}
           \/ \E a, o, v : IsClause(a, o, v) /\ x = SelectAll \o WhereText(a, o, v)
<1>1. InsertText = <<"INSERT", "INTO", "users", "VALUES", "(", "string", ",", "int", ")">>
  BY Zenon DEF InsertText, CommaText
<1>2. x \in Statement <=> \/ x \in {<<"EXIT">>, <<"QUIT">>, SelectAll, InsertText}
                          \/ \E c \in Clause : x = SelectAll \o c
  BY <1>1, Zenon DEF Statement
<1>3. ASSUME NEW c \in Clause PROVE \E a, o, v : IsClause(a, o, v) /\ c = WhereText(a, o, v)
  <2>1. CASE c = <<"WHERE", "name", "=", "string">>
    <3>1. IsClause("name", "=", "string") /\ c = WhereText("name", "=", "string")
      BY <2>1 DEF IsClause, WhereText
    <3> QED
      BY <3>1, Zenon
  <2>2. ASSUME NEW a \in {"id", "age"}, NEW o \in Comparison, c = <<"WHERE", a, o, "int">>
        PROVE  \E b, p, v : IsClause(b, p, v) /\ c = WhereText(b, p, v)
    <3>1. IsClause(a, o, "int") /\ c = WhereText(a, o, "int")
      BY <2>2 DEF IsClause, WhereText
    <3> QED
      BY <3>1, Zenon
  <2>3. \/ c = <<"WHERE", "name", "=", "string">>
        \/ \E a \in {"id", "age"}, o \in Comparison : c = <<"WHERE", a, o, "int">>
    BY DEF Clause
  <2> QED
    BY <2>1, <2>2, <2>3, Zenon
<1>4. ASSUME NEW a, NEW o, NEW v, IsClause(a, o, v) PROVE WhereText(a, o, v) \in Clause
  BY <1>4, ClauseLexemes, Zenon
<1>5. ASSUME NEW c \in Clause, x = SelectAll \o c
      PROVE  \E a, o, v : IsClause(a, o, v) /\ x = SelectAll \o WhereText(a, o, v)
  <2>1. PICK a, o, v : IsClause(a, o, v) /\ c = WhereText(a, o, v)
    BY <1>3, Zenon
  <2>2. x = SelectAll \o WhereText(a, o, v)
    BY <1>5, <2>1, Zenon
  <2> QED
    BY <2>1, <2>2, Zenon
<1>6. ASSUME NEW a, NEW o, NEW v, IsClause(a, o, v), x = SelectAll \o WhereText(a, o, v)
      PROVE  \E c \in Clause : x = SelectAll \o c
  BY <1>4, <1>6, Zenon
<1> QED
  BY <1>2, <1>5, <1>6, Zenon

\* x is the beginning of s, of which the end follows.
Starts(s, x) == (\A i \in 1 .. Len(x) : s[i] = x[i]) /\ TailAt(s, Len(x) + 1)

(***************************************************************************)
(* The sentences are the sequences of their shape.                         *)
(***************************************************************************)
LEMMA SentenceShape == ASSUME NEW s \in Sentence PROVE s \in Seq(Lexeme) /\ Shape(s)
<1>1. PICK x \in Statement : s \in {x \o <<"end">>, x \o <<";", "end">>}
  BY Zenon DEF Sentence
<1>2. ASSUME x \in Seq(Lexeme) PROVE s \in Seq(Lexeme) /\ Starts(s, x)
  <2>1. <<"end">> \in Seq(Lexeme) /\ <<SemicolonText, "end">> \in Seq(Lexeme)
    BY DEF Lexeme
  <2>2. s \in {x \o <<"end">>, x \o <<SemicolonText, "end">>}
    BY <1>1, Zenon DEF SemicolonText
  <2>3. s \in Seq(Lexeme)
    <3>1. PICK y \in Seq(Lexeme) : s = x \o y
      BY <2>1, <2>2
    <3> QED
      BY <1>2, <3>1, ConcatFacts
  <2>4. (\A i \in 1 .. Len(x) : s[i] = x[i]) /\ TailAt(s, Len(x) + 1)
    BY <1>1, <1>2, <2>3, StatementEnds, Zenon
  <2> QED
    BY <2>3, <2>4 DEF Starts
<1>3. CASE x \in {<<"EXIT">>, <<"QUIT">>}
  <2>1. x \in Seq(Lexeme) /\ Len(x) = 1 /\ x[1] \in {"EXIT", "QUIT"}
    <3>1. PICK w \in {"EXIT", "QUIT"} : x = <<w>>
      BY <1>3, Zenon
    <3>2. w \in Lexeme
      BY <3>1 DEF Lexeme, Vocabulary
    <3> QED
      BY <3>1, <3>2
  <2>2. s \in Seq(Lexeme) /\ s[1] = x[1] /\ TailAt(s, 2)
    BY <1>2, <2>1 DEF Starts
  <2> QED
    BY <2>1, <2>2 DEF Shape
<1>4. CASE x = SelectAll
  <2>1. s \in Seq(Lexeme) /\ Starts(s, x) /\ Len(x) = 4
    BY <1>2, <1>4, SelectWords
  <2>2. s[1] = x[1] /\ s[2] = x[2] /\ s[3] = x[3] /\ s[4] = x[4] /\ TailAt(s, 5)
    BY <2>1 DEF Starts
  <2> QED
    BY <1>4, <2>1, <2>2, SelectWords DEF Shape, SelectShape
<1>5. CASE x = InsertText
  <2>1. s \in Seq(Lexeme) /\ Starts(s, x) /\ Len(x) = 9
    BY <1>2, <1>5, InsertWords
  <2>2. s[1] = x[1] /\ s[2] = x[2] /\ s[3] = x[3] /\ s[4] = x[4] /\ s[5] = x[5]
        /\ s[6] = x[6] /\ s[7] = x[7] /\ s[8] = x[8] /\ s[9] = x[9] /\ TailAt(s, 10)
    BY <2>1 DEF Starts
  <2> QED
    BY <1>5, <2>1, <2>2, InsertWords DEF Shape, InsertShape
<1>6. ASSUME NEW a, NEW o, NEW v, IsClause(a, o, v), x = SelectAll \o WhereText(a, o, v)
      PROVE  s \in Seq(Lexeme) /\ Shape(s)
  <2>1. /\ x \in Seq(Lexeme) /\ Len(x) = 8 /\ SelectShape(x)
        /\ x[5] = "WHERE" /\ x[6] = a /\ x[7] = o /\ x[8] = v
    <3>1. a \in Lexeme /\ o \in Lexeme /\ v \in Lexeme
      BY <1>6, ClauseLexemes
    <3>2. WhereWords(x, a, o, v)
      BY <1>6, <3>1, ClauseWords
    <3> QED
      BY <3>2 DEF WhereWords
  <2>2. s \in Seq(Lexeme) /\ Starts(s, x)
    BY <1>2, <2>1
  <2>3. s[1] = x[1] /\ s[2] = x[2] /\ s[3] = x[3] /\ s[4] = x[4] /\ s[5] = x[5]
        /\ s[6] = x[6] /\ s[7] = x[7] /\ s[8] = x[8] /\ TailAt(s, 9)
    BY <2>1, <2>2 DEF Starts
  <2>4. SelectShape(s)
    BY <2>1, <2>3 DEF SelectShape
  <2>5. ClauseShape(s)
    BY <1>6, <2>1, <2>3 DEF ClauseShape, IsClause
  <2> QED
    BY <2>2, <2>3, <2>4, <2>5 DEF Shape
<1> QED
  BY <1>1, <1>3, <1>4, <1>5, <1>6, StatementForms, Zenon

LEMMA ShapeSentence == ASSUME NEW s \in Seq(Lexeme), Shape(s) PROVE s \in Sentence
<1>1. ASSUME NEW x \in Statement, x \in Seq(Lexeme), Starts(s, x) PROVE s \in Sentence
  <2>1. s \in {x \o <<"end">>, x \o <<";", "end">>}
    BY <1>1, StatementEnds, Zenon DEF Starts
  <2> QED
    BY <2>1, Zenon DEF Sentence
<1>2. CASE s[1] \in {"EXIT", "QUIT"} /\ TailAt(s, 2)
  <2>1. PICK x \in {<<"EXIT">>, <<"QUIT">>} : x[1] = s[1] /\ Len(x) = 1 /\ x \in Seq(Lexeme)
    BY <1>2 DEF Lexeme, Vocabulary
  <2>2. x \in Statement
    BY <2>1, StatementForms, Zenon
  <2>3. Starts(s, x)
    BY <1>2, <2>1 DEF Starts
  <2> QED
    BY <1>1, <2>1, <2>2, <2>3
<1>3. CASE InsertShape(s) /\ TailAt(s, 10)
  <2>1. InsertText \in Statement
    BY StatementForms, Zenon
  <2>2. PICK x : x = InsertText
    OBVIOUS
  <2>3. x \in Seq(Lexeme) /\ Len(x) = 9 /\ InsertShape(x)
    BY <2>2, InsertWords
  <2>4. s[1] = x[1] /\ s[2] = x[2] /\ s[3] = x[3] /\ s[4] = x[4] /\ s[5] = x[5]
        /\ s[6] = x[6] /\ s[7] = x[7] /\ s[8] = x[8] /\ s[9] = x[9]
    BY <1>3, <2>3 DEF InsertShape
  <2>5. \A i \in 1 .. 9 : i = 1 \/ i = 2 \/ i = 3 \/ i = 4 \/ i = 5 \/ i = 6 \/ i = 7
                          \/ i = 8 \/ i = 9
    OBVIOUS
  <2>6. \A i \in 1 .. 9 : s[i] = x[i]
    BY <2>4, <2>5
  <2>7. Starts(s, x)
    BY <1>3, <2>3, <2>6 DEF Starts
  <2> QED
    BY <1>1, <2>1, <2>2, <2>3, <2>7
<1>4. CASE SelectShape(s) /\ TailAt(s, 5)
  <2>1. SelectAll \in Statement
    BY StatementForms, Zenon
  <2>2. PICK x : x = SelectAll
    OBVIOUS
  <2>3. x \in Seq(Lexeme) /\ Len(x) = 4 /\ SelectShape(x)
    BY <2>2, SelectWords
  <2>4. s[1] = x[1] /\ s[2] = x[2] /\ s[3] = x[3] /\ s[4] = x[4]
    BY <1>4, <2>3 DEF SelectShape
  <2>5. \A i \in 1 .. 4 : i = 1 \/ i = 2 \/ i = 3 \/ i = 4
    OBVIOUS
  <2>6. \A i \in 1 .. 4 : s[i] = x[i]
    BY <2>4, <2>5
  <2>7. Starts(s, x)
    BY <1>4, <2>3, <2>6 DEF Starts
  <2> QED
    BY <1>1, <2>1, <2>2, <2>3, <2>7
<1>5. CASE SelectShape(s) /\ ClauseShape(s) /\ TailAt(s, 9)
  <2>1. PICK a, o, v : a = s[6] /\ o = s[7] /\ v = s[8]
    OBVIOUS
  <2>2. IsClause(a, o, v)
    BY <1>5, <2>1 DEF ClauseShape, IsClause
  <2>3. PICK x : x = SelectAll \o WhereText(a, o, v)
    OBVIOUS
  <2>4. x \in Statement
    BY <2>2, <2>3, StatementForms, Zenon
  <2>5. /\ x \in Seq(Lexeme) /\ Len(x) = 8 /\ SelectShape(x)
        /\ x[5] = "WHERE" /\ x[6] = a /\ x[7] = o /\ x[8] = v
    <3>1. a \in Lexeme /\ o \in Lexeme /\ v \in Lexeme
      BY <2>2, ClauseLexemes
    <3>2. WhereWords(x, a, o, v)
      BY <2>3, <3>1, ClauseWords
    <3> QED
      BY <3>2 DEF WhereWords
  <2>6. s[1] = x[1] /\ s[2] = x[2] /\ s[3] = x[3] /\ s[4] = x[4] /\ s[5] = x[5]
        /\ s[6] = x[6] /\ s[7] = x[7] /\ s[8] = x[8]
    BY <1>5, <2>1, <2>5 DEF SelectShape, ClauseShape
  <2>7. \A i \in 1 .. 8 : i = 1 \/ i = 2 \/ i = 3 \/ i = 4 \/ i = 5 \/ i = 6 \/ i = 7
                          \/ i = 8
    OBVIOUS
  <2>8. \A i \in 1 .. 8 : s[i] = x[i]
    BY <2>6, <2>7
  <2>9. Starts(s, x)
    BY <1>5, <2>5, <2>8 DEF Starts
  <2> QED
    BY <1>1, <2>4, <2>5, <2>9
<1> QED
  BY <1>2, <1>3, <1>4, <1>5 DEF Shape

-----------------------------------------------------------------------------
(* A text is refused only when no sentence begins like it.                 *)

\* Heard is what the words v count for.
Hears(v) == /\ Heard \in Seq(Lexeme) /\ Len(Heard) = Len(v)
            /\ v \in Seq(Token)
            /\ \A i \in 1 .. Len(v) : Heard[i] = CountsFor(v[i])

LEMMA HeardOf ==
  ASSUME ParserTypes, NEW v, v = Kept(text, Token \ {Blank})
  PROVE  Hears(v)
<1>1. v \in Seq(Token)
  BY KeptSeq DEF ParserTypes
<1>2. DOMAIN v = 1 .. Len(v) /\ Len(v) \in Nat /\ \A i \in 1 .. Len(v) : v[i] \in Token
  BY ONLY <1>1
<1>3. Heard = [i \in 1 .. Len(v) |-> CountsFor(v[i])]
  <2>1. Heard = [i \in DOMAIN v |-> CountsFor(v[i])]
    BY Zenon DEF Heard
  <2> QED
    BY <1>2, <2>1
<1>4. \A i \in 1 .. Len(v) : CountsFor(v[i]) \in Lexeme
  BY <1>2, TokenCounted
<1>5. Heard \in Seq(Lexeme)
  BY ONLY <1>2, <1>3, <1>4, IsASeq
<1>6. Len(Heard) = Len(v)
  <2>1. DOMAIN Heard = 1 .. Len(v)
    BY <1>3
  <2> QED
    BY <1>2, <1>5, <2>1
<1>7. \A i \in 1 .. Len(v) : Heard[i] = CountsFor(v[i])
  BY <1>3
<1> QED
  BY <1>1, <1>5, <1>6, <1>7 DEF Hears

\* The text ends with the token that is looked at.
LEMMA HeardPending ==
  ASSUME ParserTypes, Reading, Asks, Next1 # Blank
  PROVE  /\ Next1 \in Token
         /\ \E v : Continues(v, Said, Next1) /\ Hears(v)
<1>1. text \in Seq(Token) /\ cursor = Len(text) /\ cursor \in 1 .. Len(text)
      /\ Len(text) \in Nat
  BY DEF ParserTypes, Reading, Asks
<1>2. Next1 \in Token
  BY <1>1 DEF Next1
<1>3. text = Append(Passed, Next1)
  <2>1. SubSeq(text, 1, cursor) = Append(SubSeq(text, 1, cursor - 1), text[cursor])
    BY <1>1
  <2>2. SubSeq(text, 1, cursor) = text
    BY <1>1
  <2> QED
    BY <2>1, <2>2 DEF Passed, Next1
<1>4. Passed \in Seq(Token) /\ Said \in Seq(Token)
  BY WordsTyped
<1>5. Kept(text, Token \ {Blank}) = Append(Said, Next1)
  <2>1. \A S : Kept(Append(Passed, Next1), S)
                 = IF Next1 \in S THEN Append(Kept(Passed, S), Next1) ELSE Kept(Passed, S)
    BY <1>2, <1>4, KeptAppend
  <2>2. Next1 \in Token \ {Blank}
    BY <1>2
  <2> QED
    BY <1>3, <2>1, <2>2 DEF Said
<1>6. Hears(Append(Said, Next1))
  BY <1>5, HeardOf
<1>7. Continues(Append(Said, Next1), Said, Next1)
  BY <1>2, <1>4, AppendContinues
<1> QED
  BY <1>2, <1>6, <1>7

\* All of the text has been passed.
LEMMA HeardAll ==
  ASSUME ParserTypes, cursor > Len(text) PROVE Hears(Said)
<1>1. text \in Seq(Token) /\ cursor - 1 = Len(text)
  BY DEF ParserTypes
<1>2. Passed = text
  BY <1>1 DEF Passed
<1> QED
  BY <1>2, HeardOf DEF Said

\* s begins like what the words v count for.
Begins(s, v) == /\ Shape(s) /\ Len(s) \in Nat /\ Len(v) <= Len(s)
                /\ v \in Seq(Token)
                /\ \A i \in 1 .. Len(v) : s[i] = CountsFor(v[i])

LEMMA PrefixBegins ==
  ASSUME NEW v, Hears(v), NEW s \in Sentence, IsPrefix(Heard, s) PROVE Begins(s, v)
<1>1. PICK h : h = Heard
  OBVIOUS
<1>2. /\ h \in Seq(Lexeme) /\ Len(h) = Len(v) /\ v \in Seq(Token)
      /\ \A i \in 1 .. Len(v) : h[i] = CountsFor(v[i])
  BY <1>1 DEF Hears
<1>3. s \in Seq(Lexeme) /\ Shape(s)
  BY SentenceShape
<1>4. Len(h) <= Len(s) /\ SubSeq(h, 1, Len(h)) = SubSeq(s, 1, Len(h))
  BY <1>1 DEF IsPrefix
<1>5. \A i \in 1 .. Len(h) : h[i] = s[i]
  <2>1. \A i \in 1 .. Len(h) : SubSeq(h, 1, Len(h))[i] = h[i] /\ SubSeq(s, 1, Len(h))[i] = s[i]
    BY <1>2, <1>3, <1>4
  <2> QED
    BY <1>4, <2>1
<1> QED
  BY <1>2, <1>3, <1>4, <1>5 DEF Begins

(***************************************************************************)
(* The first word of a sentence tells its shape.                           *)
(***************************************************************************)
LEMMA ShapeByFirst ==
  ASSUME NEW s, Shape(s)
  PROVE  /\ s[1] \in {"EXIT", "QUIT", "INSERT", "SELECT"}
         /\ s[1] \in {"EXIT", "QUIT"} => TailAt(s, 2)
         /\ s[1] = "INSERT" => InsertShape(s) /\ TailAt(s, 10)
         /\ s[1] = "SELECT" => /\ SelectShape(s)
                               /\ TailAt(s, 5) \/ (ClauseShape(s) /\ TailAt(s, 9))
BY DEF Shape, InsertShape, SelectShape

(***************************************************************************)
(* No sentence goes on with a token that does not fit.                     *)
(***************************************************************************)
LEMMA InsertRefused ==
  ASSUME NEW p \in InsertPlace, NEW w, NEW v, NEW t \in Token, NEW c, NEW s,
         Continues(v, w, t), Len(w) = Index(p), InsertSays(w, Index(p), c),
         ~InsertFit(p, t), Begins(s, v)
  PROVE  FALSE
<1>1. PICK n \in 1 .. 8 : n = Index(p)
  BY IndexFacts DEF InsertPlace
<1>2. v[1] = Word("INSERT") /\ Len(v) = n + 1 /\ v[n + 1] = t
  BY <1>1 DEF Continues, InsertSays
<1>3. s[1] = "INSERT" /\ s[n + 1] = CountsFor(t)
  <2>1. s[1] = CountsFor(v[1]) /\ s[n + 1] = CountsFor(v[n + 1])
    BY <1>2 DEF Begins
  <2> QED
    BY <1>2, <2>1, CountsForFacts
<1>4. InsertShape(s)
  BY <1>3, ShapeByFirst DEF Begins
<1>5. /\ p = "into" => CountsFor(t) = "INTO"
      /\ p = "insert_table" => CountsFor(t) = "users"
      /\ p = "values" => CountsFor(t) = "VALUES"
      /\ p = "open" => CountsFor(t) = "("
      /\ p = "name" => CountsFor(t) = "string"
      /\ p = "comma" => CountsFor(t) = CommaText
      /\ p = "age" => CountsFor(t) = "int"
      /\ p = "close" => CountsFor(t) = ")"
  BY <1>1, <1>3, <1>4, IndexFacts DEF InsertShape
<1>6. /\ CountsFor(t) \in {"INTO", "users", "VALUES"} => t = Word(CountsFor(t))
      /\ CountsFor(t) \in {"(", ")"} => t = Mark(CountsFor(t))
      /\ CountsFor(t) = CommaText => t = Comma
      /\ CountsFor(t) = "int" => t.kind = "int"
      /\ CountsFor(t) = "string" => sql_parse_string(t)
  BY TokenCounted DEF Vocabulary
<1> QED
  BY <1>5, <1>6 DEF InsertFit, InsertPlace

LEMMA EndsApart ==
  /\ SemicolonText # "WHERE" /\ SemicolonText # "end" /\ SemicolonText # "("
  /\ ~("WHERE" \in {"end", SemicolonText})
<1>1. SemicolonText # "WHERE" /\ SemicolonText # "end" /\ SemicolonText # "("
  BY Zenon DEF SemicolonText
<1> QED
  BY <1>1

\* With a semicolon before WHERE there is no sentence to go on with but the
\* end.
LEMMA StrayRefused ==
  ASSUME NEW w, NEW n \in 4 .. 8, NEW c, SelectSays(w, 1, n, c), NEW v, NEW s,
         Begins(s, v), Len(v) >= 5, \A i \in 1 .. 5 : v[i] = w[i]
  PROVE  Len(v) <= 6 /\ (Len(v) = 6 => CountsFor(v[6]) = "end")
<1>1. w[1] = Word("SELECT") /\ w[5] = Semicolon
  BY DEF SelectSays
<1>2. s[1] = CountsFor(w[1]) /\ s[5] = CountsFor(w[5])
  BY DEF Begins
<1>3. s[1] = "SELECT" /\ s[5] = SemicolonText
  BY <1>1, <1>2, CountsForFacts
<1>4. TailAt(s, 5)
  BY <1>3, ShapeByFirst, EndsApart DEF Begins, ClauseShape
<1>5. Len(s) = 6 /\ s[6] = "end"
  BY <1>3, <1>4, EndsApart DEF TailAt
<1> QED
  BY <1>5 DEF Begins

LEMMA SelectRefused ==
  ASSUME NEW p \in SelectPlace \ {"judge"}, NEW d \in {0, 1}, NEW w, NEW v,
         NEW t \in Token, NEW c, NEW s,
         Continues(v, w, t), Len(w) = Index(p) + d, SelectSays(w, d, Index(p), c),
         ~SelectFit(p, t), Begins(s, v),
         p = "where" => t # End /\ (d = 0 => t # Semicolon),
         p = "int_value" => c.where_column \in {"id", "age"},
         p = "text_value" => c.where_column = "name"
  PROVE  FALSE
<1>1. PICK n \in 1 .. 7 : n = Index(p)
  BY IndexFacts DEF SelectPlace
<1>2. Len(v) = n + d + 1 /\ v[n + d + 1] = t /\ \A i \in 1 .. n + d : v[i] = w[i]
  BY <1>1 DEF Continues
<1>3. SelectSays(w, d, n, c)
  BY <1>1
<1>4. /\ CountsFor(t) \in {"FROM", "users", "WHERE", "id", "age", "name"}
           => t = Word(CountsFor(t))
      /\ CountsFor(t) \in Comparison \cup {"*"} => t = Mark(CountsFor(t))
      /\ CountsFor(t) = SemicolonText => t = Semicolon
      /\ CountsFor(t) = "int" => t.kind = "int"
      /\ CountsFor(t) = "string" => sql_parse_string(t)
      /\ CountsFor(t) = "end" => t = End
  BY TokenCounted DEF Vocabulary
<1>7. /\ n = 1 => p = "fields"
      /\ n = 2 => p = "from"
      /\ n = 3 => p = "select_table"
      /\ n = 4 => p = "where"
      /\ n = 5 => p = "column"
      /\ n = 6 => p = "comparison"
      /\ n = 7 => p \in {"int_value", "text_value"}
  BY ONLY <1>1, p \in SelectPlace \ {"judge"}, IndexFacts DEF SelectPlace
<1>5. CASE d = 1
  <2>1. n >= 4
    BY <1>3, <1>5 DEF SelectSays
  <2>2. Len(v) <= 6 /\ (Len(v) = 6 => CountsFor(v[6]) = "end")
    <3>1. n \in 4 .. 8 /\ Len(v) >= 5 /\ \A i \in 1 .. 5 : v[i] = w[i]
      BY <1>2, <1>5, <2>1
    <3>2. SelectSays(w, 1, n, c)
      BY <1>3, <1>5
    <3> QED
      BY <3>1, <3>2, StrayRefused
  <2>3. n = 4 /\ t = End
    BY <1>2, <1>4, <1>5, <2>1, <2>2
  <2> QED
    BY <1>7, <2>3
<1>6. CASE d = 0
  <2>1. Len(v) = n + 1 /\ v[n + 1] = t /\ \A i \in 1 .. n : v[i] = w[i]
    BY <1>2, <1>6
  <2>2. v[1] = Word("SELECT")
    BY <1>3, <2>1 DEF SelectSays
  <2>3. s[1] = "SELECT" /\ s[n + 1] = CountsFor(t)
    <3>1. s[1] = CountsFor(v[1]) /\ s[n + 1] = CountsFor(v[n + 1])
      BY <2>1 DEF Begins
    <3> QED
      BY <2>1, <2>2, <3>1, CountsForFacts
  <2>4. SelectShape(s) /\ (TailAt(s, 5) \/ (ClauseShape(s) /\ TailAt(s, 9)))
    BY <2>3, ShapeByFirst DEF Begins
  <2>5. n >= 5 => ClauseShape(s)
    <3>1. n >= 5 => v[5] = Word("WHERE")
      BY <1>3, <1>6, <2>1 DEF SelectSays
    <3>2. n >= 5 => s[5] = CountsFor(v[5])
      BY <2>1 DEF Begins
    <3>3. n >= 5 => s[5] = "WHERE"
      BY <3>1, <3>2, CountsForFacts
    <3> QED
      BY <2>4, <3>3, EndsApart DEF TailAt
  <2>6. n >= 6 => s[6] = c.where_column
    <3>1. n >= 6 => v[6] = Word(c.where_column)
      BY <1>3, <1>6, <2>1 DEF SelectSays
    <3>2. n >= 6 => s[6] = CountsFor(v[6])
      BY <2>1 DEF Begins
    <3> QED
      BY <3>1, <3>2, CountsForFacts
  <2>7. CASE n = 1
    BY <1>4, <1>7, <2>3, <2>4, <2>7 DEF SelectShape, SelectFit
  <2>8. CASE n = 2
    BY <1>4, <1>7, <2>3, <2>4, <2>8 DEF SelectShape, SelectFit
  <2>9. CASE n = 3
    BY <1>4, <1>7, <2>3, <2>4, <2>9 DEF SelectShape, SelectFit
  <2>10. CASE n = 4
    <3>1. p = "where"
      BY <1>7, <2>10
    <3>2. CountsFor(t) \in {"WHERE", "end", SemicolonText}
      BY <2>3, <2>4, <2>10 DEF TailAt, ClauseShape
    <3> QED
      BY <1>4, <1>6, <3>1, <3>2 DEF SelectFit
  <2>11. CASE n = 5
    <3>1. p = "column"
      BY <1>7, <2>11
    <3>2. CountsFor(t) \in {"id", "age", "name"}
      BY <2>3, <2>5, <2>11 DEF ClauseShape
    <3>3. t.kind = "word" /\ t.text # "overlong"
      BY <1>4, <3>2 DEF Word
    <3> QED
      BY <3>1, <3>3 DEF SelectFit, sql_parse_identifier, Word
  <2>12. CASE n = 6
    <3>1. p = "comparison"
      BY <1>7, <2>12
    <3>2. CountsFor(t) \in Comparison
      BY <2>3, <2>5, <2>12 DEF ClauseShape, Comparison
    <3>3. t.kind = "mark" /\ t.text \in Comparison
      BY <1>4, <3>2 DEF Mark
    <3> QED
      BY <3>1, <3>3 DEF SelectFit
  <2>13. CASE n = 7
    <3>1. p \in {"int_value", "text_value"}
      BY <1>7, <2>13
    <3>2. /\ p = "int_value" => CountsFor(t) = "int"
          /\ p = "text_value" => CountsFor(t) = "string"
      BY <2>3, <2>5, <2>6, <2>13, <3>1 DEF ClauseShape
    <3> QED
      BY <1>4, <3>1, <3>2 DEF SelectFit
  <2> QED
    BY <2>7, <2>8, <2>9, <2>10, <2>11, <2>12, <2>13
<1> QED
  BY <1>5, <1>6

LEMMA JudgeRefused ==
  ASSUME NEW d \in {0, 1}, NEW w, NEW c, NEW s, Len(w) = 7 + d,
         SelectSays(w, d, 7, c), Begins(s, w),
         \/ c.where_column \notin {"id", "age", "name"}
         \/ c.where_column = "name" /\ c.comparison # "=="
  PROVE  FALSE
<1>1. d = 0
  <2>1. CASE d = 1
    <3>1. SelectSays(w, 1, 7, c)
      BY <2>1
    <3>2. Len(w) = 8 /\ Len(w) >= 5 /\ 7 \in 4 .. 8 /\ \A i \in 1 .. 5 : w[i] = w[i]
      BY <2>1
    <3>3. Len(w) <= 6
      BY ONLY Begins(s, w), <3>1, <3>2, StrayRefused
    <3> QED
      BY <3>2, <3>3
  <2> QED
    BY <2>1
<1>2. /\ w[1] = Word("SELECT") /\ w[5] = Word("WHERE") /\ w[6] = Word(c.where_column)
      /\ w[7].kind = "mark" /\ c.comparison = sql_parse_comparison(w[7])
  BY <1>1 DEF SelectSays
<1>3. s[1] = CountsFor(w[1]) /\ s[5] = CountsFor(w[5]) /\ s[6] = CountsFor(w[6])
      /\ s[7] = CountsFor(w[7]) /\ w[7] \in Token
  <2>1. Len(w) = 7
    BY <1>1
  <2>2. w \in Seq(Token) /\ \A i \in 1 .. Len(w) : s[i] = CountsFor(w[i])
    BY DEF Begins
  <2>3. w[7] \in Token
    <3>1. w \in Seq(Token) /\ 7 \in 1 .. Len(w)
      BY <2>1, <2>2
    <3> QED
      BY ONLY <3>1, ElementOfSeq
  <2>4. \A i \in 1 .. 7 : s[i] = CountsFor(w[i])
    BY <2>1, <2>2
  <2> QED
    BY <2>3, <2>4
<1>4. s[1] = "SELECT" /\ s[5] = "WHERE" /\ s[6] = c.where_column
  BY <1>2, <1>3, CountsForFacts
<1>5. ClauseShape(s)
  BY <1>4, ShapeByFirst, EndsApart DEF Begins, TailAt
<1>6. c.where_column = "name" => w[7] = Mark("=")
  <2>1. c.where_column = "name" => s[7] = "="
    BY <1>4, <1>5 DEF ClauseShape
  <2>2. CountsFor(w[7]) = "=" => w[7] = Mark("=")
    BY <1>3, TokenCounted DEF Comparison
  <2> QED
    BY <1>3, <2>1, <2>2
<1> QED
  BY <1>2, <1>4, <1>5, <1>6 DEF ClauseShape, sql_parse_comparison

WhereGoal == {"SELECT_BY_ID", "SELECT_BY_AGE", "SELECT_BY_NAME"}

\* The words have come to the end of the statement, or to a semicolon there.
AtEnd(w, k, t) == \/ Len(w) = k /\ t # Semicolon
                  \/ Len(w) = k + 1 /\ w[k + 1] = Semicolon

(***************************************************************************)
(* Nothing but the end follows a whole statement.                          *)
(***************************************************************************)
LEMMA TailRefused ==
  ASSUME NEW k \in Nat, NEW w, NEW v, NEW t \in Token, NEW s, Continues(v, w, t),
         Begins(s, v), TailAt(s, k + 1), AtEnd(w, k, t), t # End
  PROVE  FALSE
<1>1. /\ CountsFor(t) = SemicolonText => t = Semicolon
      /\ CountsFor(t) = "end" => t = End
  BY TokenCounted
<1>2. CASE Len(w) = k /\ t # Semicolon
  <2>1. s[k + 1] = CountsFor(t)
    BY <1>2 DEF Continues, Begins
  <2> QED
    BY <1>1, <1>2, <2>1 DEF TailAt
<1>3. CASE Len(w) = k + 1 /\ w[k + 1] = Semicolon
  <2>1. Len(v) = k + 2 /\ v[k + 1] = Semicolon /\ v[k + 2] = t
    BY <1>3 DEF Continues
  <2>2. s[k + 1] = CountsFor(Semicolon) /\ s[k + 2] = CountsFor(t) /\ Len(s) >= k + 2
    BY <2>1 DEF Begins
  <2>3. s[k + 1] = SemicolonText /\ (k + 1) + 1 = k + 2
    BY <2>2, CountsForFacts
  <2>4. CountsFor(t) = "end"
    BY <2>2, <2>3, EndsApart DEF TailAt
  <2> QED
    BY <1>1, <2>4
<1> QED
  BY <1>2, <1>3 DEF AtEnd

LEMMA EndRefused ==
  ASSUME NEW g \in {"EXIT", "INSERT"} \cup WhereGoal, NEW d \in {0, 1}, NEW w, NEW v,
         NEW t \in Token, NEW c, NEW s, Continues(v, w, t), Says(w, d, g, c),
         Begins(s, v), AtEnd(w, Full(g) + d, t), t # End
  PROVE  FALSE
<1>1. Len(w) \in Nat /\ Len(v) = Len(w) + 1 /\ \A i \in 1 .. Len(w) : v[i] = w[i]
  BY DEF Continues
<1>2. \A i \in 1 .. Len(w) : s[i] = CountsFor(w[i])
  BY <1>1 DEF Begins
<1>3. CASE g = "EXIT"
  <2>1. Full(g) + d = 1 /\ w[1] \in {Word("EXIT"), Word("QUIT")}
    BY <1>3 DEF Says, Full, SelectGoal
  <2>2. Len(w) >= 1
    BY <2>1 DEF AtEnd
  <2>3. s[1] \in {"EXIT", "QUIT"}
    BY <1>2, <2>1, <2>2, CountsForFacts
  <2>4. TailAt(s, 1 + 1)
    BY <2>3, ShapeByFirst DEF Begins
  <2> QED
    BY <2>1, <2>4, TailRefused
<1>4. CASE g = "INSERT"
  <2>1. Full(g) + d = 9 /\ w[1] = Word("INSERT")
    BY <1>4 DEF Says, Full, SelectGoal, InsertSays
  <2>2. Len(w) >= 1
    BY <2>1 DEF AtEnd
  <2>3. s[1] = "INSERT"
    BY <1>2, <2>1, <2>2, CountsForFacts
  <2>4. TailAt(s, 9 + 1)
    BY <2>3, ShapeByFirst DEF Begins
  <2> QED
    BY <2>1, <2>4, TailRefused
<1>5. CASE g \in WhereGoal
  <2>1. Full(g) = 8 /\ SelectSays(w, d, 8, c)
    BY <1>5 DEF Says, Full, SelectGoal, WhereGoal
  <2>2. Len(w) >= 8 + d
    BY <2>1 DEF AtEnd
  <2>3. CASE d = 1
    <3>1. Len(v) >= 10 /\ Len(v) >= 5 /\ \A i \in 1 .. 5 : v[i] = w[i]
      BY <1>1, <2>2, <2>3
    <3>2. SelectSays(w, 1, 8, c) /\ 8 \in 4 .. 8
      BY <2>1, <2>3
    <3>3. Len(v) <= 6
      BY ONLY Begins(s, v), <3>1, <3>2, StrayRefused
    <3> QED
      BY <1>1, <3>1, <3>3
  <2>4. CASE d = 0
    <3>1. w[1] = Word("SELECT") /\ w[5] = Word("WHERE")
      BY <2>1, <2>4 DEF SelectSays
    <3>2. s[1] = "SELECT" /\ s[5] = "WHERE"
      BY <1>1, <1>2, <2>2, <2>4, <3>1, CountsForFacts
    <3>3. TailAt(s, 8 + 1)
      BY <3>2, ShapeByFirst, EndsApart DEF Begins, TailAt
    <3>4. Full(g) + d = 8
      BY <2>1, <2>4
    <3> QED
      BY <3>3, <3>4, TailRefused
  <2> QED
    BY <2>3, <2>4
<1> QED
  BY <1>3, <1>4, <1>5

(***************************************************************************)
(* A text is refused only if no sentence begins like it, or it is an       *)
(* INSERT or a SELECT with white space before it.                          *)
(***************************************************************************)
LEMMA RefusesAtOnce ==
  ASSUME ParserTypes, Origin, Reading, ParserStep, at' = "rejected"
  PROVE  Refused'
<1>1. PICK d \in {0, 1} : SaidUpTo(d)
  BY DEF Reading
<1>2. SUFFICES ASSUME text' = text PROVE Refused
  <2>1. text' = text
    <3>1. CASE SyntaxError \/ UnknownColumn
      BY <3>1 DEF SyntaxError, UnknownColumn, Reject
    <3>2. CASE \E t \in Token : Write(t)
      BY <3>2 DEF Write, Final
    <3>3. CASE sql_skip_spaces
      BY <3>3 DEF sql_skip_spaces
    <3>4. CASE sql_parse
      BY <3>4 DEF sql_parse, Enter, SyntaxError, Reject
    <3>5. CASE sql_match_statement_end
      BY <3>5, Zenon DEF sql_match_statement_end, Enter, SyntaxError, Reject
    <3>6. CASE sql_parse_insert
      BY <3>6, InsertTakesOrFails DEF InsertTakes, Passes, SyntaxError, Reject
    <3>7. CASE sql_parse_select
      BY <3>7, SelectTakesOrFails DEF SelectTakes, Passes, SyntaxError, UnknownColumn,
                                      Reject, JudgeColumn
    <3> QED
      BY <3>2, <3>3, <3>4, <3>5, <3>6, <3>7 DEF ParserStep
  <2>2. Heard' = Heard
    BY <2>1 DEF Heard
  <2> QED
    BY <2>1, <2>2, Zenon DEF Refused, LeadingBlank
<1>3. ASSUME NEW v, Hears(v), \A s : Begins(s, v) => FALSE PROVE Refused
  BY <1>3, PrefixBegins DEF Refused
<1>4. CASE sql_parse
  <2>1. /\ at \in {"start", "blank"} /\ Asks /\ Next1 # Blank
        /\ Next1 \notin {Word("EXIT"), Word("QUIT")}
        /\ at = "start" => Next1 \notin {Word("INSERT"), Word("SELECT")}
    BY <1>4 DEF sql_parse, Enter, IsExit, sql_match_keyword
  <2>2. PICK v : Continues(v, Said, Next1) /\ Hears(v)
    BY <2>1, HeardPending
  <2>3. Len(Said) = 0
    BY <1>1, <2>1 DEF SaidUpTo, Stage
  <2>4. Len(v) = 1 /\ v[1] = Next1 /\ Next1 \in Token
    BY <2>1, <2>2, <2>3, HeardPending DEF Continues
  <2>5. Heard[1] = CountsFor(Next1)
    BY <2>2, <2>4 DEF Hears
  <2>6. CASE CountsFor(Next1) \notin {"EXIT", "QUIT", "INSERT", "SELECT"}
    <3>1. ASSUME NEW s, Begins(s, v) PROVE FALSE
      BY <2>4, <2>6, <3>1, ShapeByFirst DEF Begins
    <3> QED
      BY <1>3, <2>2, <3>1
  <2>7. CASE CountsFor(Next1) \in {"EXIT", "QUIT", "INSERT", "SELECT"}
    <3>1. Next1 = Word(CountsFor(Next1))
      BY <2>4, <2>7, TokenCounted DEF Vocabulary
    <3>2. CountsFor(Next1) \in {"INSERT", "SELECT"} /\ at = "blank"
      BY <2>1, <2>7, <3>1
    <3>3. text[1] = Blank
      BY <3>2 DEF Origin
    <3> QED
      BY <2>5, <3>2, <3>3 DEF Refused, LeadingBlank
  <2> QED
    BY <2>6, <2>7
<1>5. CASE sql_parse_insert
  <2>1. at \in InsertPlace /\ Asks /\ Next1 # Blank /\ ~InsertFit(at, Next1)
    <3>1. ASSUME NEW p, NEW q, InsertTakes(p, q) PROVE at' = q
      BY <3>1 DEF InsertTakes
    <3> QED
      BY <1>5, <3>1, InsertTakesOrFails
  <2>2. PICK v : Continues(v, Said, Next1) /\ Hears(v)
    BY <2>1, HeardPending
  <2>3. Next1 \in Token
    BY <2>1, HeardPending
  <2>4. Len(Said) = Index(at) /\ InsertSays(Said, Index(at), command)
    BY <1>1, <2>1 DEF SaidUpTo, Stage
  <2>5. PICK p, w, t, c : p = at /\ w = Said /\ t = Next1 /\ c = command
    OBVIOUS
  <2>6. ASSUME NEW s, Begins(s, v) PROVE FALSE
    BY <2>1, <2>2, <2>3, <2>4, <2>5, <2>6, InsertRefused
  <2> QED
    BY <1>3, <2>2, <2>6
<1>6. CASE sql_parse_select
  <2>1. CASE JudgeColumn
    <3>1. /\ at = "judge"
          /\ \/ command.where_column \notin {"id", "age", "name"}
             \/ command.where_column = "name" /\ command.comparison # "=="
      BY <2>1 DEF JudgeColumn, sql_is_known_column, Word
    <3>2. Len(Said) = 7 + d /\ SelectSays(Said, d, 7, command)
      BY <1>1, <3>1, IndexFacts DEF SaidUpTo, Stage, SelectPlace
    <3>3. Hears(Said)
      BY <3>1, HeardAll DEF Reading
    <3>4. PICK w, c : w = Said /\ c = command
      OBVIOUS
    <3>5. ASSUME NEW s, Begins(s, w) PROVE FALSE
      BY <1>1, <3>1, <3>2, <3>4, <3>5, JudgeRefused
    <3> QED
      BY <1>3, <3>3, <3>4, <3>5
  <2>2. CASE ~JudgeColumn
    <3>1. at \in SelectPlace \ {"judge"} /\ Asks /\ Next1 # Blank /\ ~SelectFit(at, Next1)
      <4>1. ASSUME NEW p, NEW q, SelectTakes(p, q) PROVE at' = q
        BY <4>1 DEF SelectTakes
      <4> QED
        BY <1>6, <2>2, <4>1, SelectTakesOrFails
    <3>2. PICK v : Continues(v, Said, Next1) /\ Hears(v)
      BY <3>1, HeardPending
    <3>3. Next1 \in Token
      BY <3>1, HeardPending
    <3>4. Len(Said) = Index(at) + d /\ SelectSays(Said, d, Index(at), command)
      BY <1>1, <3>1 DEF SaidUpTo, Stage
    <3>5. at = "where" => Next1 # End /\ (d = 0 => Next1 # Semicolon)
      BY <1>1 DEF SaidUpTo, Reading
    <3>6. /\ at = "int_value" => command.where_column \in {"id", "age"}
          /\ at = "text_value" => command.where_column = "name"
      BY DEF Reading, Typed, Judged
    <3>7. PICK p, w, t, c : p = at /\ w = Said /\ t = Next1 /\ c = command
      OBVIOUS
    <3>8. ASSUME NEW s, Begins(s, v) PROVE FALSE
      BY <1>1, <3>1, <3>2, <3>3, <3>4, <3>5, <3>6, <3>7, <3>8, SelectRefused
    <3> QED
      BY <1>3, <3>2, <3>8
  <2> QED
    BY <2>1, <2>2
<1>7. CASE sql_match_statement_end
  <2>1. /\ at \in {"end", "semicolon"} /\ Asks /\ Next1 # Blank /\ Next1 # End
        /\ at = "end" => Next1 # Semicolon
        /\ goal # "SELECT_ALL"
    BY <1>7, Zenon DEF sql_match_statement_end, Enter, Semicolon
  <2>2. PICK v : Continues(v, Said, Next1) /\ Hears(v)
    BY <2>1, HeardPending
  <2>3. Next1 \in Token
    BY <2>1, HeardPending
  <2>4. Says(Said, d, goal, command)
    BY <1>1, <2>1 DEF SaidUpTo, Stage, Ending
  <2>5. goal \in {"EXIT", "INSERT"} \cup WhereGoal
    BY <2>1, <2>4 DEF Says, SelectGoal, WhereGoal
  <2>6. AtEnd(Said, Full(goal) + d, Next1)
    <3>1. /\ at = "end" => Len(Said) = Full(goal) + d
          /\ at = "semicolon" => /\ Len(Said) = Full(goal) + d + 1
                                 /\ Said[Full(goal) + d + 1] = Semicolon
      BY <1>1 DEF SaidUpTo
    <3> QED
      BY <2>1, <3>1 DEF AtEnd
  <2>7. PICK g, w, t, c : g = goal /\ w = Said /\ t = Next1 /\ c = command
    OBVIOUS
  <2>8. ASSUME NEW s, Begins(s, v) PROVE FALSE
    BY <1>1, <2>1, <2>2, <2>3, <2>4, <2>5, <2>6, <2>7, <2>8, EndRefused
  <2> QED
    BY <1>3, <2>2, <2>8
<1>8. ~(\E t \in Token : Write(t)) /\ ~sql_skip_spaces
  BY DEF Write, sql_skip_spaces, Final
<1> QED
  BY <1>4, <1>5, <1>6, <1>7, <1>8 DEF ParserStep

-----------------------------------------------------------------------------
(* A text is accepted only when it is a sentence.                          *)

(***************************************************************************)
(* A sequence without its k-th element.                                    *)
(***************************************************************************)
LEMMA RemoveFacts ==
  ASSUME NEW S, NEW h \in Seq(S), NEW k \in 1 .. Len(h), NEW r, r = RemoveAt(h, k)
  PROVE  /\ r \in Seq(S) /\ Len(r) = Len(h) - 1
         /\ \A i \in 1 .. k - 1 : r[i] = h[i]
         /\ \A i \in k .. Len(h) - 1 : r[i] = h[i + 1]
<1> DEFINE a == SubSeq(h, 1, k - 1)
           b == SubSeq(h, k + 1, Len(h))
<1>1. /\ a \in Seq(S) /\ Len(a) = k - 1 /\ \A i \in 1 .. k - 1 : a[i] = h[i]
      /\ b \in Seq(S) /\ Len(b) = Len(h) - k
      /\ \A i \in 1 .. Len(h) - k : b[i] = h[k + i]
  OBVIOUS
<1>2. r = a \o b
  BY DEF RemoveAt
<1> HIDE DEF a, b
<1>3. r \in Seq(S) /\ Len(r) = Len(a) + Len(b)
  <2>1. (a \o b) \in Seq(S)
    BY ONLY <1>1, ConcatFacts
  <2>2. Len(a \o b) = Len(a) + Len(b)
    BY ONLY <1>1, ConcatFacts
  <2> QED
    BY <1>2, <2>1, <2>2, Zenon
<1>4. \A i \in 1 .. Len(a) : r[i] = a[i]
  <2>1. \A i \in 1 .. Len(a) : (a \o b)[i] = a[i]
    BY ONLY <1>1, ConcatFacts
  <2> QED
    BY <1>2, <2>1, Zenon
<1>5. \A i \in 1 .. Len(b) : r[Len(a) + i] = b[i]
  <2>1. \A i \in 1 .. Len(b) : (a \o b)[Len(a) + i] = b[i]
    BY ONLY <1>1, ConcatFacts
  <2> QED
    BY <1>2, <2>1, Zenon
<1>6. ASSUME NEW i \in k .. Len(h) - 1 PROVE r[i] = h[i + 1]
  <2>1. PICK j \in 1 .. Len(h) - k : i = (k - 1) + j /\ i + 1 = k + j
    <3>1. i - (k - 1) \in 1 .. Len(h) - k /\ i = (k - 1) + (i - (k - 1))
          /\ i + 1 = k + (i - (k - 1))
      OBVIOUS
    <3> QED
      BY <3>1
  <2> QED
    BY <1>1, <1>5, <2>1
<1>7. Len(r) = Len(h) - 1 /\ \A i \in 1 .. k - 1 : r[i] = h[i]
  BY <1>1, <1>3, <1>4
<1> QED
  BY <1>3, <1>6, <1>7

\* Heard as the words w and the end count for it.
HeardEnd(h, w) == /\ h \in Seq(Lexeme) /\ Len(w) \in Nat /\ Len(h) = Len(w) + 1
                  /\ \A i \in 1 .. Len(w) : h[i] = CountsFor(w[i])
                  /\ h[Len(w) + 1] = "end"

\* The words w, and perhaps a semicolon after the k-th.
WholeAt(w, k) == \/ Len(w) = k
                 \/ Len(w) = k + 1 /\ w[k + 1] = Semicolon

LEMMA TailHeard ==
  ASSUME NEW h, NEW w, NEW k \in Nat, HeardEnd(h, w), WholeAt(w, k)
  PROVE  TailAt(h, k + 1)
<1>1. CASE Len(w) = k
  BY <1>1 DEF HeardEnd, TailAt
<1>2. CASE Len(w) = k + 1 /\ w[k + 1] = Semicolon
  <2>1. h[k + 1] = SemicolonText /\ Len(h) = (k + 1) + 1 /\ h[(k + 1) + 1] = "end"
    BY <1>2, CountsForFacts DEF HeardEnd
  <2> QED
    BY <2>1 DEF TailAt
<1> QED
  BY <1>1, <1>2 DEF WholeAt

(***************************************************************************)
(* The clause of a SELECT, with d semicolons before it.                    *)
(***************************************************************************)
LEMMA ClauseHeard ==
  ASSUME NEW w, NEW d \in {0, 1}, NEW c, SelectSays(w, d, 8, c),
         c.where_column \in {"id", "age", "name"},
         c.where_column = "name" => c.comparison = "=="
  PROVE  /\ CountsFor(w[5 + d]) = "WHERE"
         /\ IsClause(CountsFor(w[6 + d]), CountsFor(w[7 + d]), CountsFor(w[8 + d]))
<1>1. PICK t5, t6, t7, t8 : t5 = w[5 + d] /\ t6 = w[6 + d] /\ t7 = w[7 + d] /\ t8 = w[8 + d]
  OBVIOUS
<1>2. /\ t5 = Word("WHERE") /\ t6 = Word(c.where_column)
      /\ t7.kind = "mark" /\ t7.text \in Comparison
      /\ c.comparison = sql_parse_comparison(t7)
      /\ IF c.where_column = "name" THEN sql_parse_string(t8) ELSE t8.kind = "int"
  BY <1>1 DEF SelectSays
<1>3. CountsFor(t7) = t7.text
  BY <1>2 DEF CountsFor
<1>4. c.where_column = "name" => CountsFor(t7) = "="
  <2>1. CASE t7 = Mark("=")
    BY <2>1, CountsForFacts
  <2>2. CASE t7 # Mark("=")
    BY <1>2, <2>2 DEF sql_parse_comparison, Comparison
  <2> QED
    BY <2>1, <2>2
<1>5. /\ c.where_column = "name" => CountsFor(t8) = "string"
      /\ c.where_column # "name" => CountsFor(t8) = "int"
  BY <1>2, CountsForFacts
<1>6. CountsFor(t5) = "WHERE" /\ CountsFor(t6) = c.where_column
  BY <1>2, CountsForFacts
<1>7. IsClause(CountsFor(t6), CountsFor(t7), CountsFor(t8))
  BY <1>2, <1>3, <1>4, <1>5, <1>6 DEF IsClause
<1> QED
  BY <1>1, <1>6, <1>7

\* Heard, but for a semicolon before WHERE.
Corrected(h) == IF Len(h) > 5 /\ h[5] = SemicolonText THEN RemoveAt(h, 5) ELSE h

LEMMA ExitAccepted ==
  ASSUME NEW h, NEW w, HeardEnd(h, w), WholeAt(w, 1), w[1] \in {Word("EXIT"), Word("QUIT")}
  PROVE  Corrected(h) \in Sentence
<1>1. TailAt(h, 2) /\ Len(h) \in 2 .. 3
  <2>1. TailAt(h, 1 + 1)
    BY TailHeard
  <2> QED
    BY <2>1 DEF TailAt
<1>2. h[1] = CountsFor(w[1])
  BY DEF HeardEnd, WholeAt
<1>3. h[1] \in {"EXIT", "QUIT"}
  BY <1>2, CountsForFacts
<1>4. h \in Seq(Lexeme) /\ Shape(h)
  BY <1>1, <1>3 DEF HeardEnd, Shape
<1>5. Corrected(h) = h
  BY <1>1 DEF Corrected
<1> QED
  BY <1>4, <1>5, ShapeSentence

LEMMA InsertAccepted ==
  ASSUME NEW h, NEW w, HeardEnd(h, w), WholeAt(w, 9), NEW c, InsertSays(w, 9, c)
  PROVE  Corrected(h) \in Sentence
<1>1. TailAt(h, 10)
  <2>1. TailAt(h, 9 + 1)
    BY TailHeard
  <2> QED
    BY <2>1
<1>2. \A i \in 1 .. 9 : h[i] = CountsFor(w[i])
  <2>1. Len(w) \in Nat /\ \A i \in 1 .. Len(w) : h[i] = CountsFor(w[i])
    BY DEF HeardEnd
  <2>2. Len(w) = 9 \/ Len(w) = 10
    BY DEF WholeAt
  <2> QED
    BY ONLY <2>1, <2>2
<1>3. /\ h[1] = CountsFor(w[1]) /\ h[2] = CountsFor(w[2]) /\ h[3] = CountsFor(w[3])
      /\ h[4] = CountsFor(w[4]) /\ h[5] = CountsFor(w[5]) /\ h[6] = CountsFor(w[6])
      /\ h[7] = CountsFor(w[7]) /\ h[8] = CountsFor(w[8]) /\ h[9] = CountsFor(w[9])
  BY <1>2
<1>4. InsertShape(h)
  <2>1. /\ w[1] = Word("INSERT") /\ w[2] = Word("INTO") /\ w[3] = Word("users")
        /\ w[4] = Word("VALUES") /\ w[5] = Mark("(") /\ sql_parse_string(w[6])
        /\ w[7] = Comma /\ w[8].kind = "int" /\ w[9] = Mark(")")
    BY DEF InsertSays
  <2> QED
    BY <1>3, <2>1, CountsForFacts DEF InsertShape
<1>5. h \in Seq(Lexeme) /\ Shape(h)
  BY <1>1, <1>4 DEF HeardEnd, Shape
<1>6. Corrected(h) = h
  BY <1>4, EndsApart DEF Corrected, InsertShape
<1> QED
  BY <1>5, <1>6, ShapeSentence

LEMMA SelectHeard ==
  ASSUME NEW h, NEW w, HeardEnd(h, w), NEW c, NEW d, NEW n \in 4 .. 8,
         SelectSays(w, d, n, c), Len(w) >= 4
  PROVE  SelectShape(h)
<1>1. /\ h[1] = CountsFor(w[1]) /\ h[2] = CountsFor(w[2]) /\ h[3] = CountsFor(w[3])
      /\ h[4] = CountsFor(w[4])
  BY DEF HeardEnd
<1>2. w[1] = Word("SELECT") /\ w[2] = Mark("*") /\ w[3] = Word("FROM") /\ w[4] = Word("users")
  BY DEF SelectSays
<1> QED
  BY <1>1, <1>2, CountsForFacts DEF SelectShape

LEMMA SelectAllAccepted ==
  ASSUME NEW h, NEW w, HeardEnd(h, w), WholeAt(w, 4), NEW c, SelectSays(w, 0, 4, c)
  PROVE  Corrected(h) \in Sentence
<1>1. TailAt(h, 5)
  <2>1. TailAt(h, 4 + 1)
    BY TailHeard
  <2> QED
    BY <2>1
<1>2. SelectShape(h) /\ h \in Seq(Lexeme)
  <2>1. Len(w) >= 4
    <3>1. Len(w) = 4 \/ Len(w) = 4 + 1
      BY Zenon DEF WholeAt
    <3> QED
      BY ONLY <3>1
  <2> QED
    BY <2>1, SelectHeard DEF HeardEnd
<1>3. CASE Len(h) > 5 /\ h[5] = SemicolonText
  <2>1. PICK r : r = RemoveAt(h, 5)
    OBVIOUS
  <2>2. Len(h) = 6 /\ h[6] = "end"
    <3>1. \/ Len(h) = 5 /\ h[5] = "end"
          \/ Len(h) = 5 + 1 /\ h[5] = SemicolonText /\ h[5 + 1] = "end"
      BY <1>1 DEF TailAt
    <3>2. 5 + 1 = 6
      OBVIOUS
    <3>3. Len(h) # 5
      <4>1. PICK n : n = Len(h)
        OBVIOUS
      <4>2. n \in Nat /\ n > 5
        BY <1>2, <1>3, <4>1
      <4>3. n # 5
        BY ONLY <4>2
      <4> QED
        BY <4>1, <4>3
    <3> QED
      BY <3>1, <3>2, <3>3, Zenon
  <2>3. /\ r \in Seq(Lexeme) /\ Len(r) = 5
        /\ \A i \in 1 .. 4 : r[i] = h[i]
        /\ \A i \in 5 .. 5 : r[i] = h[i + 1]
    <3>1. 5 \in 1 .. Len(h)
      BY <2>2
    <3>2. /\ r \in Seq(Lexeme) /\ Len(r) = Len(h) - 1
          /\ \A i \in 1 .. 5 - 1 : r[i] = h[i]
          /\ \A i \in 5 .. Len(h) - 1 : r[i] = h[i + 1]
      BY ONLY <1>2, <2>1, <3>1, RemoveFacts
    <3> QED
      BY <2>2, <3>2
  <2>4. SelectShape(r) /\ TailAt(r, 5)
    BY <1>2, <2>2, <2>3 DEF SelectShape, TailAt
  <2> QED
    BY <1>3, <2>1, <2>3, <2>4, ShapeSentence DEF Corrected, Shape
<1>4. CASE ~(Len(h) > 5 /\ h[5] = SemicolonText)
  BY <1>1, <1>2, <1>4, ShapeSentence DEF Corrected, Shape
<1> QED
  BY <1>3, <1>4

LEMMA WhereAccepted ==
  ASSUME NEW d \in {0, 1}, NEW h, NEW w, HeardEnd(h, w), WholeAt(w, 8 + d),
         NEW c, SelectSays(w, d, 8, c),
         c.where_column \in {"id", "age", "name"},
         c.where_column = "name" => c.comparison = "=="
  PROVE  Corrected(h) \in Sentence
<1>1. TailAt(h, (8 + d) + 1)
  BY TailHeard
<1>2. Len(w) >= 8 + d
  BY DEF WholeAt, HeardEnd
<1>3. SelectShape(h) /\ h \in Seq(Lexeme)
  <2>1. Len(w) >= 4
    BY <1>2 DEF HeardEnd
  <2> QED
    BY <2>1, SelectHeard DEF HeardEnd
<1>4. h[5 + d] = "WHERE" /\ IsClause(h[6 + d], h[7 + d], h[8 + d])
  <2>1. /\ h[5 + d] = CountsFor(w[5 + d]) /\ h[6 + d] = CountsFor(w[6 + d])
        /\ h[7 + d] = CountsFor(w[7 + d]) /\ h[8 + d] = CountsFor(w[8 + d])
    BY <1>2 DEF HeardEnd
  <2>2. /\ CountsFor(w[5 + d]) = "WHERE"
        /\ IsClause(CountsFor(w[6 + d]), CountsFor(w[7 + d]), CountsFor(w[8 + d]))
    BY ClauseHeard
  <2> QED
    BY <2>1, <2>2
<1>5. CASE d = 0
  <2>1. h[5] = "WHERE" /\ IsClause(h[6], h[7], h[8]) /\ TailAt(h, 9)
    BY <1>1, <1>4, <1>5
  <2>2. ClauseShape(h)
    BY <2>1 DEF ClauseShape, IsClause
  <2>3. Corrected(h) = h
    BY <2>1, EndsApart DEF Corrected
  <2> QED
    BY <1>3, <2>1, <2>2, <2>3, ShapeSentence DEF Shape
<1>6. CASE d = 1
  <2>1. h[6] = "WHERE" /\ IsClause(h[7], h[8], h[9]) /\ TailAt(h, 10)
    BY <1>1, <1>4, <1>6
  <2>2. h[5] = SemicolonText
    <3>1. w[5] = Semicolon
      BY <1>6 DEF SelectSays
    <3>2. h[5] = CountsFor(w[5])
      BY <1>2, <1>6 DEF HeardEnd
    <3> QED
      BY <3>1, <3>2, CountsForFacts
  <2>3. \/ Len(h) = 10 /\ h[10] = "end"
        \/ Len(h) = 11 /\ h[10] = SemicolonText /\ h[11] = "end"
    <3>1. \/ Len(h) = 10 /\ h[10] = "end"
          \/ Len(h) = 10 + 1 /\ h[10] = SemicolonText /\ h[10 + 1] = "end"
      BY <2>1 DEF TailAt
    <3>2. 10 + 1 = 11
      OBVIOUS
    <3> QED
      BY <3>1, <3>2
  <2>4. PICK r : r = RemoveAt(h, 5)
    OBVIOUS
  <2>5. /\ r \in Seq(Lexeme) /\ Len(r) = Len(h) - 1
        /\ \A i \in 1 .. 5 - 1 : r[i] = h[i]
        /\ \A i \in 5 .. Len(h) - 1 : r[i] = h[i + 1]
    <3>1. 5 \in 1 .. Len(h)
      BY ONLY <2>3
    <3>2. h \in Seq(Lexeme)
      BY <1>3
    <3> QED
      BY ONLY <2>4, <3>1, <3>2, RemoveFacts
  <2>6. r[1] = h[1] /\ r[2] = h[2] /\ r[3] = h[3] /\ r[4] = h[4]
    BY <2>5
  <2>7. /\ r[5] = h[6] /\ r[6] = h[7] /\ r[7] = h[8] /\ r[8] = h[9] /\ r[9] = h[10]
        /\ Len(h) = 11 => r[10] = h[11]
    <3>1. \A i \in 5 .. 9 : r[i] = h[i + 1]
      BY ONLY <2>3, <2>5
    <3>2. Len(h) = 11 => r[10] = h[10 + 1]
      BY <2>5
    <3>3. r[5] = h[5 + 1] /\ r[6] = h[6 + 1] /\ r[7] = h[7 + 1] /\ r[8] = h[8 + 1]
          /\ r[9] = h[9 + 1]
      BY <3>1
    <3> QED
      BY <3>2, <3>3
  <2>8. SelectShape(r)
    BY <1>3, <2>6 DEF SelectShape
  <2>9. ClauseShape(r)
    BY <2>1, <2>7 DEF ClauseShape, IsClause
  <2>10. TailAt(r, 9)
    <3>1. \/ Len(r) = 9 /\ r[9] = "end"
          \/ Len(r) = 9 + 1 /\ r[9] = SemicolonText /\ r[9 + 1] = "end"
      <4>1. CASE Len(h) = 10
        BY ONLY <2>3, <2>5, <2>7, <4>1
      <4>2. CASE Len(h) = 11
        <5>1. Len(r) = 9 + 1 /\ 9 + 1 = 10
          BY ONLY <2>5, <4>2
        <5> QED
          BY ONLY <2>3, <2>7, <4>2, <5>1
      <4> QED
        BY <2>3, <4>1, <4>2
    <3> QED
      BY <3>1 DEF TailAt
  <2>11. Corrected(h) = r
    <3>1. Len(h) > 5
      BY ONLY <2>3
    <3> QED
      BY <2>2, <2>4, <3>1, Zenon DEF Corrected
  <2> QED
    BY <2>5, <2>8, <2>9, <2>10, <2>11, ShapeSentence DEF Shape
<1> QED
  BY <1>5, <1>6

(***************************************************************************)
(* A text that is accepted is a sentence, but for a semicolon before WHERE. *)
(***************************************************************************)
LEMMA AcceptedSentence ==
  ASSUME ParserTypes, Reading, at = "parsed" PROVE Corrected(Heard) \in Sentence
<1>1. Asks /\ Next1 = End /\ Next1 # Blank
  BY DEF Reading, End, Blank
<1>2. PICK v : Continues(v, Said, Next1) /\ Hears(v)
  BY <1>1, HeardPending
<1>3. PICK h, w, c : h = Heard /\ w = Said /\ c = command
  OBVIOUS
<1>4. HeardEnd(h, w)
  <2>1. /\ h \in Seq(Lexeme) /\ Len(h) = Len(v)
        /\ \A i \in 1 .. Len(v) : h[i] = CountsFor(v[i])
    BY <1>2, <1>3 DEF Hears
  <2>2. /\ Len(v) = Len(w) + 1 /\ Len(w) \in Nat /\ v[Len(w) + 1] = End
        /\ \A i \in 1 .. Len(w) : v[i] = w[i]
    BY <1>1, <1>2, <1>3 DEF Continues
  <2>3. h[Len(w) + 1] = "end"
    BY <2>1, <2>2, CountsForFacts
  <2>4. \A i \in 1 .. Len(w) : h[i] = CountsFor(w[i])
    BY <2>1, <2>2
  <2> QED
    BY <2>1, <2>2, <2>3, <2>4 DEF HeardEnd
<1>5. PICK d \in {0, 1} : SaidUpTo(d)
  BY DEF Reading
<1>6. Says(w, d, goal, c)
  BY <1>3, <1>5 DEF SaidUpTo, Stage, Ending
<1>7. WholeAt(w, Full(goal) + d)
  BY <1>3, <1>5 DEF SaidUpTo, WholeAt
<1>8. goal = "SELECT_ALL" => d = 0
  BY <1>5 DEF SaidUpTo, Ending
<1>9. goal \in WhereGoal => /\ c.where_column \in {"id", "age", "name"}
                            /\ c.where_column = "name" => c.comparison = "=="
  BY <1>3 DEF Reading, Typed, Judged, Ending, WhereGoal
<1>10. CASE goal = "EXIT"
  <2>1. w[1] \in {Word("EXIT"), Word("QUIT")} /\ Full(goal) + d = 1
    BY <1>6, <1>10 DEF Says, SelectGoal, Full
  <2> QED
    BY <1>3, <1>4, <1>7, <2>1, ExitAccepted
<1>11. CASE goal = "INSERT"
  <2>1. InsertSays(w, 9, c) /\ Full(goal) + d = 9
    BY <1>6, <1>11 DEF Says, SelectGoal, Full
  <2> QED
    BY <1>3, <1>4, <1>7, <2>1, InsertAccepted
<1>12. CASE goal = "SELECT_ALL"
  <2>1. SelectSays(w, 0, 4, c) /\ Full(goal) + d = 4
    BY <1>6, <1>8, <1>12 DEF Says, SelectGoal, Full
  <2> QED
    BY <1>3, <1>4, <1>7, <2>1, SelectAllAccepted
<1>13. CASE goal \in WhereGoal
  <2>1. SelectSays(w, d, 8, c) /\ Full(goal) = 8
    BY <1>6, <1>13 DEF Says, SelectGoal, Full, WhereGoal
  <2> QED
    BY <1>3, <1>4, <1>5, <1>7, <1>9, <1>13, <2>1, WhereAccepted
<1> QED
  BY <1>6, <1>10, <1>11, <1>12, <1>13 DEF Says, SelectGoal, WhereGoal

-----------------------------------------------------------------------------
(* The whole.                                                              *)

(***************************************************************************)
(* What the parser has read, in the steps of the whole.                    *)
(***************************************************************************)
Understood == Reading /\ (at = "rejected" => Refused)

LEMMA UnderstoodStays ==
  ASSUME Understood, UNCHANGED <<text, cursor, at, goal, command>> PROVE Understood'
<1>1. Said' = Said /\ Sense' = Sense /\ Heard' = Heard
  BY DEF Said, Sense, Passed, Heard
<1>2. Reading'
  BY <1>1, ReadingStays DEF Understood, Reading
<1>3. at' = "rejected" => Refused'
  BY <1>1 DEF Understood, Refused, LeadingBlank
<1> QED
  BY <1>2, <1>3 DEF Understood

LEMMA UnderstoodStep ==
  ASSUME ParserTypes, Origin, Understood, Next PROVE Understood'
<1>1. ASSUME UNCHANGED <<text, cursor, at, goal, command>> PROVE Understood'
  BY <1>1, UnderstoodStays
<1>2. ASSUME ParserReturns PROVE Understood'
  <2>1. text' = <<>> /\ cursor' = 1 /\ at' = "start"
    BY <1>2 DEF ParserReturns
  <2>2. ((text = <<>> /\ cursor = 1 /\ at = "start") => Reading)'
    BY ReadingBegins, PTL
  <2> QED
    BY <2>1, <2>2 DEF Understood
<1>3. CASE Begin
  BY <1>1, <1>3 DEF Begin
<1>4. CASE Parse
  <2>1. ParserStep
    BY <1>4 DEF Parse
  <2>2. Reading'
    BY <2>1, ReadingStep DEF Understood
  <2>3. at' = "rejected" => Refused'
    BY <2>1, RefusesAtOnce DEF Understood
  <2> QED
    BY <2>2, <2>3 DEF Understood
<1>5. CASE CreateTable \/ NextBucket \/ TableReady \/ DestroyTable
  BY <1>1, <1>5 DEF CreateTable, NextBucket, TableReady, DestroyTable, Manages, parserVars
<1>6. CASE NothingToExecute \/ ExecuteFails \/ sql_execute_insert_plan
           \/ sql_execute_select_plan
  BY <1>2, <1>6 DEF NothingToExecute, ExecuteFails, sql_execute_insert_plan,
                    sql_execute_select_plan
<1>7. CASE BeginResponse \/ NoResponse \/ AppendPiece \/ GiveUp \/ Finish
           \/ api_result_destroy \/ ShowResult \/ EndOfInput
  BY <1>1, <1>7 DEF BeginResponse, NoResponse, AppendPiece, GiveUp, Finish,
                    api_result_destroy, ShowResult, EndOfInput, parserVars
<1>8. CASE Stopped
  BY <1>1, <1>8 DEF Stopped, vars, parserVars
<1> QED
  BY <1>3, <1>4, <1>5, <1>6, <1>7, <1>8 DEF Next, Serve

LEMMA Understanding == Spec => [](Inv /\ Understood)
<1>1. Init => Understood
  <2> SUFFICES ASSUME Init PROVE Understood
    OBVIOUS
  <2>1. text = <<>> /\ cursor = 1 /\ at = "start"
    BY DEF Init, ParserInit
  <2> QED
    BY <2>1, ReadingBegins DEF Understood
<1>2. Inv /\ Understood /\ [Next]_vars => Understood'
  <2> SUFFICES ASSUME Inv, Understood, [Next]_vars PROVE Understood'
    OBVIOUS
  <2>1. CASE Next
    BY <2>1, UnderstoodStep DEF Inv
  <2>2. CASE UNCHANGED vars
    BY <2>2, UnderstoodStays DEF vars, parserVars
  <2> QED
    BY <2>1, <2>2
<1> QED
  BY Invariance, <1>1, <1>2, PTL DEF Spec

-----------------------------------------------------------------------------
(* What is written and what is executed.                                   *)

(***************************************************************************)
(* Everything is kept of a sequence whose elements are all in S.           *)
(***************************************************************************)
LEMMA KeptAll ==
  ASSUME NEW T, NEW s \in Seq(T), NEW S, \A i \in 1 .. Len(s) : s[i] \in S
  PROVE  Kept(s, S) = s
<1> DEFINE len == Len(s)
<1>1. len \in Nat /\ \A i \in 1 .. len : s[i] \in S
  OBVIOUS
<1>2. PICK f : KeptLoop(s, S, len, f) /\ Kept(s, S) = f[len]
  BY <1>1, KeptDefined
<1>3. SubSeq(s, 1, 0) = <<>> /\ SubSeq(s, 1, len) = s
      /\ \A i \in 0 .. len - 1 : SubSeq(s, 1, i + 1) = Append(SubSeq(s, 1, i), s[i + 1])
  OBVIOUS
<1> HIDE DEF len
<1> DEFINE Whole == {n \in 0 .. len : f[n] = SubSeq(s, 1, n)}
<1>4. 0 \in Whole
  <2>1. f[0] = <<>> /\ 0 \in 0 .. len
    BY <1>1, <1>2 DEF KeptLoop
  <2> QED
    BY <1>3, <2>1, Zenon
<1>5. ASSUME NEW i \in 0 .. len - 1, i \in Whole PROVE i + 1 \in Whole
  <2>1. i + 1 \in 0 .. len /\ s[i + 1] \in S /\ f[i] = SubSeq(s, 1, i)
    BY <1>1, <1>5
  <2>2. f[i + 1] = Append(f[i], s[i + 1])
    BY <1>2, <2>1 DEF KeptLoop
  <2> QED
    BY <1>3, <2>1, <2>2
<1>6. len \in Whole
  <2> HIDE DEF Whole
  <2>1. 0 .. len \subseteq Whole
    BY <1>1, <1>4, <1>5, InductionUpTo
  <2> QED
    BY <1>1, <2>1
<1> QED
  BY <1>2, <1>3, <1>6

(***************************************************************************)
(* An integer that fits an int is what sql_parse_int stores.               *)
(***************************************************************************)
LEMMA IntKept == ASSUME NEW n \in INT_MIN .. INT_MAX PROVE ToInt(strtol(n)) = n
<1>1. INT_MIN \in Int /\ INT_MAX \in Nat /\ INT_MIN = -INT_MAX - 1
  <2>1. 2 ^ (INT_BITS - 1) \in Int
    BY WidthAssumption
  <2> QED
    BY <2>1, IntAssumption DEF INT_MIN, INT_MAX
<1>2. LONG_MIN \in Int /\ LONG_MAX \in Int /\ LONG_MIN = -LONG_MAX - 1
  <2>1. 2 ^ (LONG_BITS - 1) \in Int
    BY WidthAssumption
  <2> QED
    BY <2>1 DEF LONG_MIN, LONG_MAX
<1>3. strtol(n) = n
  BY <1>1, <1>2, IntAssumption DEF strtol
<1> DEFINE m == INT_MAX - INT_MIN + 1
           l == n - INT_MIN
<1>4. m \in Nat \ {0} /\ l \in 0 .. m - 1
  BY <1>1
<1>5. l % m = l
  <2> HIDE DEF m, l
  <2> QED
    BY <1>4
<1>6. ToInt(n) = (l % m) + INT_MIN
  BY DEF ToInt
<1>7. l + INT_MIN = n
  BY <1>1
<1> QED
  BY <1>3, <1>5, <1>6, <1>7, Zenon

(***************************************************************************)
(* A text that has been accepted says what has been passed of it.          *)
(***************************************************************************)
LEMMA SpokenPassed ==
  ASSUME ParserTypes, Reading, at = "parsed" PROVE Continues(Spoken, Sense, End)
<1>1. /\ text \in Seq(Token) /\ cursor = Len(text) /\ cursor \in 1 .. Len(text)
      /\ Len(text) \in Nat /\ Next1 = End
  BY DEF ParserTypes, Reading, Asks
<1>2. text = Append(Passed, End) /\ End \in Token
  <2>1. SubSeq(text, 1, cursor) = Append(SubSeq(text, 1, cursor - 1), text[cursor])
    BY <1>1
  <2>2. SubSeq(text, 1, cursor) = text
    BY <1>1
  <2>3. text[cursor] \in Token
    BY <1>1
  <2> QED
    BY <1>1, <2>1, <2>2, <2>3 DEF Passed, Next1
<1>3. Passed \in Seq(Token) /\ Sense \in Seq(Token)
  BY WordsTyped
<1>4. Spoken = Append(Sense, End)
  <2>1. PICK S : S = Token \ {Blank, Semicolon}
    OBVIOUS
  <2>2. Kept(Append(Passed, End), S)
          = IF End \in S THEN Append(Kept(Passed, S), End) ELSE Kept(Passed, S)
    BY <1>2, <1>3, KeptAppend
  <2>3. End \in S
    <3>1. End # Blank /\ End # Semicolon
      BY MarksApart DEF End, Blank
    <3> QED
      BY <1>2, <2>1, <3>1
  <2>4. Spoken = Kept(text, S) /\ Sense = Kept(Passed, S)
    BY <2>1, Zenon DEF Spoken, Sense, Semicolon
  <2> QED
    BY <1>2, <2>2, <2>3, <2>4
<1> QED
  BY <1>2, <1>3, <1>4, AppendContinues

\* The integers of a text that is in range are.
LEMMA SpokenInRange ==
  ASSUME ParserTypes, InRange, NEW i \in 1 .. Len(Spoken), Spoken[i].kind = "int"
  PROVE  Spoken[i].number \in INT_MIN .. INT_MAX
<1> DEFINE T == {t \in Token : t.kind = "int" => t.number \in INT_MIN .. INT_MAX}
<1>1. text \in Seq(Token)
  BY DEF ParserTypes
<1>2. \A j \in 1 .. Len(text) : text[j] \in T
  BY <1>1 DEF InRange
<1> HIDE DEF T
<1>3. text \in Seq(T)
  BY <1>1, <1>2
<1>4. Spoken \in Seq(T)
  BY <1>3, KeptSeq DEF Spoken
<1>5. Spoken[i] \in T
  BY <1>4
<1> QED
  BY <1>5 DEF T

(***************************************************************************)
(* The row of an INSERT is the one that is written.                        *)
(***************************************************************************)
LEMMA InsertAsWritten ==
  ASSUME ParserTypes, Reading, at = "parsed", goal = "INSERT"
  PROVE  /\ Head(Spoken) = Word("INSERT")
         /\ Spoken[6].chars = command.name
         /\ InRange => Spoken[8].number = command.int_value
<1>1. PICK v, w, c : v = Spoken /\ w = Sense /\ c = command
  OBVIOUS
<1>2. Continues(v, w, End)
  BY <1>1, SpokenPassed
<1>3. InsertSays(w, 9, c) /\ Len(w) = 9
  BY <1>1 DEF Reading, Stage, Ending, Says, SelectGoal, Full
<1>4. v \in Seq(Token) /\ Len(v) = 10 /\ \A i \in 1 .. 9 : v[i] = w[i]
  BY <1>2, <1>3 DEF Continues
<1>5. v[1] = w[1] /\ v[6] = w[6] /\ v[8] = w[8]
  BY <1>4
<1>6. w[1] = Word("INSERT") /\ c.name = w[6].chars /\ w[8].kind = "int"
      /\ c.int_value = sql_parse_int(w[8])
  BY <1>3 DEF InsertSays
<1>7. Head(v) = v[1]
  BY <1>4
<1>8. InRange => v[8].number = c.int_value
  <2> SUFFICES ASSUME InRange PROVE v[8].number = c.int_value
    OBVIOUS
  <2>1. 8 \in 1 .. Len(v) /\ v[8].kind = "int"
    BY <1>4, <1>5, <1>6
  <2>2. v[8].number \in INT_MIN .. INT_MAX
    BY <1>1, <2>1, SpokenInRange
  <2>3. ToInt(strtol(v[8].number)) = v[8].number
    BY <2>2, IntKept
  <2> QED
    BY <1>5, <1>6, <2>3 DEF sql_parse_int
<1> QED
  BY <1>1, <1>5, <1>6, <1>7, <1>8

(***************************************************************************)
(* sql_parse_comparison and table_compare_int, together.                   *)
(***************************************************************************)
LEMMA ComparesAsWritten ==
  ASSUME NEW m \in Comparison, NEW left, NEW right
  PROVE  table_compare_int(left, sql_parse_comparison(Mark(m)), right)
           = Compares(Mark(m), left, right)
<1>1. \A x, y : Mark(x) = Mark(y) => x = y
  BY DEF Mark
<1>2. Mark(m).text = m
  BY DEF Mark
<1>3. CASE m = "="
  BY <1>1, <1>3 DEF table_compare_int, sql_parse_comparison, Compares
<1>4. CASE m = "<"
  BY <1>1, <1>2, <1>4 DEF table_compare_int, sql_parse_comparison, Compares
<1>5. CASE m = "<="
  BY <1>1, <1>2, <1>5 DEF table_compare_int, sql_parse_comparison, Compares
<1>6. CASE m = ">"
  BY <1>1, <1>2, <1>6 DEF table_compare_int, sql_parse_comparison, Compares
<1>7. CASE m = ">="
  BY <1>1, <1>2, <1>7 DEF table_compare_int, sql_parse_comparison, Compares
<1> QED
  BY <1>3, <1>4, <1>5, <1>6, <1>7 DEF Comparison

(***************************************************************************)
(* The rows of a SELECT without WHERE are those of the table.              *)
(***************************************************************************)
LEMMA SelectAllAsWritten ==
  ASSUME ParserTypes, Reading, Origin, table \in Seq(Rec), at = "parsed", goal = "SELECT_ALL"
  PROVE  /\ Head(Spoken) # Word("INSERT")
         /\ MatchingRows(Condition, table) = RowsAsWritten
<1>1. PICK v, w, c : v = Spoken /\ w = Sense /\ c = command
  OBVIOUS
<1>2. Continues(v, w, End)
  BY <1>1, SpokenPassed
<1>3. SelectSays(w, 0, 4, c) /\ Len(w) = 4
  BY <1>1 DEF Reading, Stage, Ending, Says, SelectGoal, Full
<1>4. v \in Seq(Token) /\ Len(v) = 5 /\ v[1] = w[1]
  BY <1>2, <1>3 DEF Continues
<1>5. Head(v) # Word("INSERT")
  <2>1. Head(v) = v[1] /\ v[1] = Word("SELECT")
    BY <1>3, <1>4 DEF SelectSays
  <2> QED
    BY <2>1 DEF Word
<1>6. \A r : Matches(Condition, r)
  <2>1. parse_result.type = "SELECT_ALL"
    BY DEF Origin
  <2>2. Condition.column = "all"
    BY <2>1 DEF Condition
  <2> QED
    BY <2>2 DEF Matches
<1>7. \A i \in 1 .. Len(table) : table[i] \in Rec
  OBVIOUS
<1>8. MatchingRows(Condition, table) = Kept(table, Rec)
  <2>1. PICK q : q = Condition
    OBVIOUS
  <2>2. Len(table) \in Nat /\ \A i \in 1 .. Len(table) : Matches(q, table[i]) <=> table[i] \in Rec
    BY <1>6, <1>7, <2>1
  <2> QED
    BY <2>1, <2>2, MatchingKeeps
<1>9. Kept(table, Rec) = table
  BY <1>7, KeptAll
<1>10. RowsAsWritten = table
  BY <1>1, <1>4 DEF RowsAsWritten
<1> QED
  BY <1>1, <1>5, <1>8, <1>9, <1>10

(***************************************************************************)
(* The clause of a SELECT has been read as it is written.                  *)
(***************************************************************************)
\* The tokens v[6 .. 8] say what the command c has.
ClauseRead(v, c) ==
  /\ Len(v) = 9 /\ v[6] = Word(c.where_column) /\ v[7] \in {Mark(m) : m \in Comparison}
  /\ c.comparison = sql_parse_comparison(v[7])
  /\ IF c.where_column = "name" THEN c.text_value = v[8].chars ELSE c.int_value = v[8].number

LEMMA ClauseAsWritten ==
  ASSUME ParserTypes, Reading, at = "parsed", goal \in WhereGoal, InRange
  PROVE  /\ Head(Spoken) # Word("INSERT")
         /\ ClauseRead(Spoken, command) /\ Judged
<1>1. PICK v, w, c : v = Spoken /\ w = Sense /\ c = command
  OBVIOUS
<1>2. Continues(v, w, End)
  BY <1>1, SpokenPassed
<1>3. SelectSays(w, 0, 8, c) /\ Len(w) = 8
  BY <1>1 DEF Reading, Stage, Ending, Says, SelectGoal, Full, WhereGoal
<1>4. v \in Seq(Token) /\ Len(v) = 9 /\ \A i \in 1 .. 8 : v[i] = w[i]
  BY <1>2, <1>3 DEF Continues
<1>5. v[1] = w[1] /\ v[6] = w[6] /\ v[7] = w[7] /\ v[8] = w[8] /\ v[7] \in Token
  <2>1. v[1] = w[1] /\ v[6] = w[6] /\ v[7] = w[7] /\ v[8] = w[8]
    BY ONLY <1>4
  <2>2. 7 \in 1 .. Len(v)
    BY <1>4
  <2>3. v[7] \in Token
    <3>1. v \in Seq(Token)
      BY <1>4
    <3> QED
      BY ONLY <2>2, <3>1, ElementOfSeq
  <2> QED
    BY <2>1, <2>3
<1>6. /\ w[1] = Word("SELECT")
      /\ w[6 + 0] = Word(c.where_column)
      /\ w[7 + 0].kind = "mark" /\ w[7 + 0].text \in Comparison
      /\ c.comparison = sql_parse_comparison(w[7 + 0])
      /\ IF c.where_column = "name"
         THEN sql_parse_string(w[8 + 0]) /\ c.text_value = w[8 + 0].chars
         ELSE w[8 + 0].kind = "int" /\ c.int_value = sql_parse_int(w[8 + 0])
  BY <1>3 DEF SelectSays
<1>7. 6 + 0 = 6 /\ 7 + 0 = 7 /\ 8 + 0 = 8
  OBVIOUS
<1>8. Head(v) # Word("INSERT")
  <2>1. Head(v) = v[1]
    BY <1>4
  <2> QED
    BY <1>5, <1>6, <2>1 DEF Word
<1>9. v[7] \in {Mark(m) : m \in Comparison}
  <2>1. v[7].kind = "mark" /\ v[7].text \in Comparison
    BY <1>5, <1>6, <1>7
  <2>2. CountsFor(v[7]) = v[7].text
    BY <2>1 DEF CountsFor
  <2>3. v[7] = Mark(CountsFor(v[7]))
    BY <1>5, <2>1, <2>2, TokenCounted
  <2> QED
    BY <2>1, <2>2, <2>3
<1>10. c.where_column # "name" => c.int_value = v[8].number
  <2> SUFFICES ASSUME c.where_column # "name" PROVE c.int_value = v[8].number
    OBVIOUS
  <2>1. v[8].kind = "int" /\ c.int_value = sql_parse_int(v[8])
    BY <1>5, <1>6, <1>7
  <2>2. 8 \in 1 .. Len(v)
    BY <1>4
  <2>3. v[8].number \in INT_MIN .. INT_MAX
    BY <1>1, <2>1, <2>2, SpokenInRange
  <2>4. ToInt(strtol(v[8].number)) = v[8].number
    BY <2>3, IntKept
  <2> QED
    BY <2>1, <2>4 DEF sql_parse_int
<1>11. ClauseRead(v, c)
  BY <1>4, <1>5, <1>6, <1>7, <1>9, <1>10 DEF ClauseRead
<1>12. Judged
  BY DEF Reading, Typed, Ending, WhereGoal
<1> QED
  BY <1>1, <1>8, <1>11, <1>12

(***************************************************************************)
(* And means what it says.                                                 *)
(***************************************************************************)
LEMMA ConditionAsWritten ==
  ASSUME Origin, at = "parsed", ClauseRead(Spoken, command), Judged, NEW r
  PROVE  Matches(Condition, r) <=> Written(r)
<1>1. PICK v, c, q : v = Spoken /\ c = command /\ q = Condition
  OBVIOUS
<1>2. ClauseRead(v, c)
  BY <1>1
<1>3. PICK m \in Comparison : v[7] = Mark(m)
  BY <1>2 DEF ClauseRead
<1>4. \A x, y : Word(x) = Word(y) => x = y
  BY DEF Word
<1>5. parse_result.type = WhereOf(c.where_column) /\ c.where_column \in {"id", "age", "name"}
  BY <1>1 DEF Origin, Judged
<1>6. CASE c.where_column = "name"
  <2>1. q.column = "name" /\ q.value = c.text_value
    BY <1>1, <1>5, <1>6 DEF Condition, WhereOf
  <2>2. Matches(q, r) <=> r.data.name = c.text_value
    BY <2>1 DEF Matches
  <2>3. v[6] = Word("name") /\ c.text_value = v[8].chars
    BY <1>2, <1>6 DEF ClauseRead
  <2>4. Written(r) <=> r.data.name = v[8].chars
    BY <1>1, <2>3 DEF Written
  <2> QED
    BY <1>1, <2>2, <2>3, <2>4
<1>7. ASSUME NEW left, c.where_column \in {"id", "age"},
             left = IF c.where_column = "id" THEN r.id ELSE r.data.age
      PROVE  Matches(Condition, r) <=> Written(r)
  <2>1. /\ q.column = c.where_column /\ q.comparison = c.comparison
        /\ q.value = c.int_value
    BY <1>1, <1>5, <1>7 DEF Condition, WhereOf
  <2>2. Matches(q, r) <=> table_compare_int(left, c.comparison, c.int_value)
    BY <1>7, <2>1 DEF Matches
  <2>3. /\ v[6] = Word(c.where_column) /\ c.int_value = v[8].number
        /\ c.comparison = sql_parse_comparison(Mark(m))
    BY <1>2, <1>3, <1>7 DEF ClauseRead
  <2>4. v[6] # Word("name") /\ (v[6] = Word("id") <=> c.where_column = "id")
    BY <1>4, <1>7, <2>3
  <2>5. left = IF v[6] = Word("id") THEN r.id ELSE r.data.age
    BY <1>7, <2>4
  <2>6. Written(r) <=> Compares(v[7], left, v[8].number)
    BY <1>1, <2>4, <2>5 DEF Written, Compares
  <2>7. table_compare_int(left, sql_parse_comparison(Mark(m)), c.int_value)
          = Compares(Mark(m), left, c.int_value)
    BY <1>3, ComparesAsWritten
  <2> QED
    BY <1>1, <1>3, <2>2, <2>3, <2>6, <2>7
<1> QED
  BY <1>5, <1>6, <1>7

(***************************************************************************)
(* The rows a SELECT finds are the ones that are written.                  *)
(***************************************************************************)
LEMMA SelectAsWritten ==
  ASSUME ParserTypes, Reading, Origin, table \in Seq(Rec), at = "parsed",
         goal \in SelectGoal, InRange
  PROVE  /\ Head(Spoken) # Word("INSERT")
         /\ MatchingRows(Condition, table) = RowsAsWritten
<1>1. CASE goal = "SELECT_ALL"
  BY <1>1, SelectAllAsWritten
<1>2. CASE goal \in WhereGoal
  <2>1. Head(Spoken) # Word("INSERT") /\ ClauseRead(Spoken, command) /\ Judged
    BY <1>2, ClauseAsWritten
  <2>2. \A r : Matches(Condition, r) <=> Written(r)
    BY <2>1, ConditionAsWritten
  <2> DEFINE S == {r \in ToSet(table) : Written(r)}
  <2>3. PICK q : q = Condition
    OBVIOUS
  <2>4. Len(table) \in Nat /\ \A i \in 1 .. Len(table) : table[i] \in ToSet(table)
    BY DEF ToSet
  <2>5. \A i \in 1 .. Len(table) : Matches(q, table[i]) <=> table[i] \in S
    BY <2>2, <2>3, <2>4
  <2> HIDE DEF S
  <2>6. MatchingRows(q, table) = Kept(table, S)
    BY <2>4, <2>5, MatchingKeeps
  <2>7. RowsAsWritten = Kept(table, S)
    <3>1. Len(Spoken) # 5
      <4>1. Len(Spoken) = 9
        BY <2>1 DEF ClauseRead
      <4> QED
        BY <4>1
    <3> QED
      BY <3>1, Zenon DEF RowsAsWritten, S
  <2> QED
    BY <2>1, <2>3, <2>6, <2>7
<1> QED
  BY <1>1, <1>2 DEF SelectGoal, WhereGoal

(***************************************************************************)
(* What has been executed is what was written.                             *)
(***************************************************************************)
LEMMA WrittenStep ==
  ASSUME ParserTypes, Origin, Values, Understood, ExecutesWhatIsWritten, Next
  PROVE  ExecutesWhatIsWritten'
<1>1. ASSUME phase' \notin {"init", "print"} PROVE ExecutesWhatIsWritten'
  BY <1>1 DEF ExecutesWhatIsWritten
<1>2. ASSUME sql_result'.action = "none" PROVE ExecutesWhatIsWritten'
  BY <1>2 DEF ExecutesWhatIsWritten, ResultAsWritten
<1>3. CASE CreateTable \/ NextBucket \/ TableReady \/ DestroyTable
  BY <1>1, <1>3 DEF CreateTable, NextBucket, TableReady, DestroyTable
<1>4. CASE Begin \/ BeginResponse \/ NoResponse \/ AppendPiece \/ GiveUp \/ Finish
           \/ api_result_destroy \/ ShowResult \/ EndOfInput \/ Parse
  BY <1>1, <1>4 DEF Begin, BeginResponse, NoResponse, AppendPiece, GiveUp, Finish,
                    api_result_destroy, ShowResult, EndOfInput, Parse, ownVars
<1>5. CASE NothingToExecute \/ ExecuteFails
  BY <1>2, <1>5 DEF NothingToExecute, ExecuteFails, NoSqlResult
<1>6. CASE sql_execute_insert_plan
  <2>1. /\ at = "parsed" /\ parse_result.type = "INSERT" /\ meant' = Meaning
        /\ sql_result'.action = "insert" /\ sql_result'.inserted_id = Len(table) + 1
        /\ table' = Append(table, [id |-> Len(table) + 1,
                                   data |-> [name |-> command.name,
                                             age |-> command.int_value]])
    BY <1>6 DEF sql_execute_insert_plan, Executable, NoSqlResult
  <2>2. goal = "INSERT"
    BY <2>1 DEF Origin
  <2>3. /\ Head(Spoken) = Word("INSERT") /\ Spoken[6].chars = command.name
        /\ InRange => Spoken[8].number = command.int_value
    BY <2>1, <2>2, InsertAsWritten DEF Understood
  <2>4. meant'.in_range = InRange /\ meant'.rows = <<RowAsWritten>>
    BY <2>1, <2>3 DEF Meaning
  <2>5. PICK row : row = [id |-> Len(table) + 1,
                          data |-> [name |-> command.name, age |-> command.int_value]]
    OBVIOUS
  <2>6. row \in Rec
    <3>1. command.name \in Seq(STRING) /\ command.int_value \in INT_MIN .. INT_MAX
      BY DEF ParserTypes, Command
    <3>2. command.int_value \in Int /\ Len(table) + 1 \in Int
      BY <3>1 DEF Values
    <3> QED
      BY <2>5, <3>1, <3>2 DEF Rec
  <2>7. Last(table') = row /\ row.id = Len(table) + 1
    <3>1. table \in Seq(Rec) /\ table' = Append(table, row)
      BY <2>1, <2>5 DEF Values
    <3>2. Len(table') = Len(table) + 1 /\ table'[Len(table) + 1] = row
      BY <2>6, <3>1, AppendFacts
    <3> QED
      BY <2>5, <3>2 DEF Last
  <2>8. InRange => RowAsWritten = row
    BY <2>3, <2>5, Zenon DEF RowAsWritten
  <2> QED
    BY <2>1, <2>4, <2>7, <2>8 DEF ExecutesWhatIsWritten, ResultAsWritten
<1>7. CASE sql_execute_select_plan
  <2>1. /\ at = "parsed" /\ parse_result.type \notin {"INSERT", "EXIT"} /\ meant' = Meaning
        /\ sql_result'.action = "select"
        /\ sql_result'.rows = MatchingRows(Condition, table)
    BY <1>7 DEF sql_execute_select_plan, Executable, NoSqlResult
  <2>2. goal \in SelectGoal
    BY <2>1 DEF Origin, Begun
  <2>3. InRange => /\ Head(Spoken) # Word("INSERT")
                   /\ MatchingRows(Condition, table) = RowsAsWritten
    BY <2>1, <2>2, SelectAsWritten DEF Understood, Values
  <2>4. meant'.in_range = InRange /\ (InRange => meant'.rows = RowsAsWritten)
    BY <2>1, <2>3 DEF Meaning
  <2> QED
    BY <2>1, <2>3, <2>4 DEF ExecutesWhatIsWritten, ResultAsWritten
<1>8. CASE Stopped
  BY <1>1, <1>8 DEF Stopped, vars, ownVars
<1> QED
  BY <1>3, <1>4, <1>5, <1>6, <1>7, <1>8 DEF Next, Serve

-----------------------------------------------------------------------------
(* How an answer is read, a cell and a piece at a time.                    *)

\* A state of the reader.
Reader(mode, chars, read) == [mode |-> mode, chars |-> chars, read |-> read]

\* From the state r the text p takes the reader to the state q.
Reads(r, p, q) ==
  \E f : f[0] = r /\ f[Len(p)] = q
         /\ \A i \in 1 .. Len(p) : f[i] = ReadCell(f[i - 1], p[i])

\* The pieces of s do, one after the other.
ReadsAll(r, s, q) ==
  \E f : f[0] = r /\ f[Len(s)] = q
         /\ \A i \in 1 .. Len(s) : Reads(f[i - 1], s[i], f[i])

\* The run h is f, of m steps, and then g, of n steps.
Joins(h, f, m, g, n) == /\ \A i \in 0 .. m : h[i] = f[i]
                        /\ \A i \in 0 .. n : h[m + i] = g[i]

(***************************************************************************)
(* Two runs of which the second begins where the first one ends.           *)
(***************************************************************************)
LEMMA RunsJoin ==
  ASSUME NEW m \in Nat, NEW n \in Nat, NEW f, NEW g, f[m] = g[0]
  PROVE  \E h : Joins(h, f, m, g, n)
<1> DEFINE h == [k \in 0 .. m + n |-> IF k <= m THEN f[k] ELSE g[k - m]]
<1>1. \A i \in 0 .. m : i \in 0 .. m + n /\ i <= m
  OBVIOUS
<1>2. \A i \in 0 .. m : h[i] = f[i]
  BY <1>1
<1>3. ASSUME NEW i \in 0 .. n PROVE h[m + i] = g[i]
  <2>1. m + i \in 0 .. m + n /\ (m + i) - m = i
    OBVIOUS
  <2>2. CASE i = 0
    BY <1>2, <2>2
  <2>3. CASE i # 0
    <3>1. ~(m + i <= m)
      BY <2>3
    <3> QED
      BY <2>1, <3>1
  <2> QED
    BY <2>2, <2>3
<1>4. Joins(h, f, m, g, n)
  BY <1>2, <1>3 DEF Joins
<1> QED
  BY <1>4

(***************************************************************************)
(* What stands where in two texts one after the other.                     *)
(***************************************************************************)
LEMMA JoinedText ==
  ASSUME NEW a, NEW b, Text(a), Text(b)
  PROVE  /\ Len(a \o b) = Len(a) + Len(b)
         /\ \A i \in 1 .. Len(a) : (a \o b)[i] = a[i]
         /\ \A i \in 1 .. Len(b) : (a \o b)[Len(a) + i] = b[i]
<1> DEFINE S == ToSet(a) \cup ToSet(b)
<1>1. a \in Seq(S) /\ b \in Seq(S)
  BY SeqMonotonic DEF Text
<1> HIDE DEF S
<1> QED
  BY <1>1, ConcatFacts

(***************************************************************************)
(* A text is read like its two parts, one after the other.                 *)
(***************************************************************************)
LEMMA ReadsJoin ==
  ASSUME NEW a, NEW b, Text(a), Text(b), NEW r, NEW m, NEW q,
         Reads(r, a, m), Reads(m, b, q)
  PROVE  Reads(r, a \o b, q)
<1>1. PICK f : f[0] = r /\ f[Len(a)] = m
               /\ \A i \in 1 .. Len(a) : f[i] = ReadCell(f[i - 1], a[i])
  BY DEF Reads
<1>2. PICK g : g[0] = m /\ g[Len(b)] = q
               /\ \A i \in 1 .. Len(b) : g[i] = ReadCell(g[i - 1], b[i])
  BY DEF Reads
<1>3. Len(a) \in Nat /\ Len(b) \in Nat
  BY DEF Text
<1>4. PICK h : /\ \A i \in 0 .. Len(a) : h[i] = f[i]
               /\ \A i \in 0 .. Len(b) : h[Len(a) + i] = g[i]
  <2>1. f[Len(a)] = g[0]
    BY <1>1, <1>2
  <2>2. \E h : Joins(h, f, Len(a), g, Len(b))
    BY <1>3, <2>1, RunsJoin
  <2> QED
    BY <2>2 DEF Joins
<1>5. PICK c : c = a \o b
  OBVIOUS
<1>6. /\ Len(c) = Len(a) + Len(b)
      /\ \A i \in 1 .. Len(a) : c[i] = a[i]
      /\ \A i \in 1 .. Len(b) : c[Len(a) + i] = b[i]
  BY <1>5, JoinedText
<1>7. h[0] = r /\ h[Len(c)] = q
  <2>1. 0 \in 0 .. Len(a) /\ Len(b) \in 0 .. Len(b)
    BY <1>3
  <2> QED
    BY <1>1, <1>2, <1>4, <1>6, <2>1
<1>8. ASSUME NEW i \in 1 .. Len(c) PROVE h[i] = ReadCell(h[i - 1], c[i])
  <2>1. CASE i <= Len(a)
    <3>1. i \in 1 .. Len(a) /\ i \in 0 .. Len(a) /\ i - 1 \in 0 .. Len(a)
      BY <1>3, <2>1
    <3> QED
      BY <1>1, <1>4, <1>6, <3>1
  <2>2. CASE i > Len(a)
    <3>1. PICK j : j = i - Len(a)
      OBVIOUS
    <3>2. /\ j \in 1 .. Len(b) /\ j \in 0 .. Len(b) /\ j - 1 \in 0 .. Len(b)
          /\ i = Len(a) + j /\ i - 1 = Len(a) + (j - 1)
      BY <1>3, <1>6, <2>2, <3>1
    <3>3. h[i] = g[j] /\ h[i - 1] = g[j - 1] /\ c[i] = b[j]
      BY <1>4, <1>6, <3>2
    <3> QED
      BY <1>2, <3>2, <3>3
  <2> QED
    BY <1>3, <1>6, <2>1, <2>2
<1>9. Reads(r, c, q)
  BY <1>7, <1>8 DEF Reads
<1> QED
  BY <1>5, <1>9

(***************************************************************************)
(* So are pieces.                                                          *)
(***************************************************************************)
LEMMA ReadsAllJoin ==
  ASSUME NEW a, NEW b, Text(a), Text(b), NEW r, NEW m, NEW q,
         ReadsAll(r, a, m), ReadsAll(m, b, q)
  PROVE  ReadsAll(r, a \o b, q)
<1>1. PICK f : f[0] = r /\ f[Len(a)] = m
               /\ \A i \in 1 .. Len(a) : Reads(f[i - 1], a[i], f[i])
  BY DEF ReadsAll
<1>2. PICK g : g[0] = m /\ g[Len(b)] = q
               /\ \A i \in 1 .. Len(b) : Reads(g[i - 1], b[i], g[i])
  BY DEF ReadsAll
<1>3. Len(a) \in Nat /\ Len(b) \in Nat
  BY DEF Text
<1>4. PICK h : /\ \A i \in 0 .. Len(a) : h[i] = f[i]
               /\ \A i \in 0 .. Len(b) : h[Len(a) + i] = g[i]
  <2>1. f[Len(a)] = g[0]
    BY <1>1, <1>2
  <2>2. \E h : Joins(h, f, Len(a), g, Len(b))
    BY <1>3, <2>1, RunsJoin
  <2> QED
    BY <2>2 DEF Joins
<1>5. PICK c : c = a \o b
  OBVIOUS
<1>6. /\ Len(c) = Len(a) + Len(b)
      /\ \A i \in 1 .. Len(a) : c[i] = a[i]
      /\ \A i \in 1 .. Len(b) : c[Len(a) + i] = b[i]
  BY <1>5, JoinedText
<1>7. h[0] = r /\ h[Len(c)] = q
  <2>1. 0 \in 0 .. Len(a) /\ Len(b) \in 0 .. Len(b)
    BY <1>3
  <2> QED
    BY <1>1, <1>2, <1>4, <1>6, <2>1
<1>8. ASSUME NEW i \in 1 .. Len(c) PROVE Reads(h[i - 1], c[i], h[i])
  <2>1. CASE i <= Len(a)
    <3>1. i \in 1 .. Len(a) /\ i \in 0 .. Len(a) /\ i - 1 \in 0 .. Len(a)
      BY <1>3, <2>1
    <3> QED
      BY <1>1, <1>4, <1>6, <3>1
  <2>2. CASE i > Len(a)
    <3>1. PICK j : j = i - Len(a)
      OBVIOUS
    <3>2. /\ j \in 1 .. Len(b) /\ j \in 0 .. Len(b) /\ j - 1 \in 0 .. Len(b)
          /\ i = Len(a) + j /\ i - 1 = Len(a) + (j - 1)
      BY <1>3, <1>6, <2>2, <3>1
    <3>3. h[i] = g[j] /\ h[i - 1] = g[j - 1] /\ c[i] = b[j]
      BY <1>4, <1>6, <3>2
    <3> QED
      BY <1>2, <3>2, <3>3
  <2> QED
    BY <1>3, <1>6, <2>1, <2>2
<1>9. ReadsAll(r, c, q)
  BY <1>7, <1>8 DEF ReadsAll
<1> QED
  BY <1>5, <1>9

(***************************************************************************)
(* No piece leaves the reader where it is; one piece is read as a text.    *)
(***************************************************************************)
LEMMA ReadsFew ==
  /\ \A r, q : ReadsAll(r, <<>>, q) <=> r = q
  /\ \A r, p, q : Reads(r, p, q) => ReadsAll(r, <<p>>, q)
  /\ \A r, c : Reads(r, <<c>>, ReadCell(r, c))
  /\ \A r : Reads(r, <<>>, r)
<1> DEFINE Pair(r, q) == [i \in 0 .. 1 |-> IF i = 0 THEN r ELSE q]
<1>1. ASSUME NEW r, NEW q PROVE Pair(r, q)[0] = r /\ Pair(r, q)[1] = q
  BY SMT
<1> HIDE DEF Pair
<1>2. ASSUME NEW x PROVE /\ Len(<<x>>) = 1 /\ <<x>>[1] = x
                         /\ \A i \in 1 .. Len(<<x>>) : i = 1 /\ i - 1 = 0
  OBVIOUS
<1>3. Len(<<>>) = 0 /\ 1 .. Len(<<>>) = {}
  OBVIOUS
<1>4. ASSUME NEW r, NEW q PROVE ReadsAll(r, <<>>, q) <=> r = q
  <2>1. ASSUME r = q PROVE ReadsAll(r, <<>>, q)
    BY <1>3, <2>1, <1>1, Zenon DEF ReadsAll
  <2>2. ASSUME ReadsAll(r, <<>>, q) PROVE r = q
    BY <1>3, <2>2, Zenon DEF ReadsAll
  <2> QED
    BY <2>1, <2>2
<1>5. ASSUME NEW r, NEW p, NEW q, Reads(r, p, q) PROVE ReadsAll(r, <<p>>, q)
  <2>1. PICK f : f = Pair(r, q)
    OBVIOUS
  <2>2. f[0] = r /\ f[1] = q
    BY <1>1, <2>1
  <2>3. f[Len(<<p>>)] = q
    BY <1>2, <2>2, Zenon
  <2>4. ASSUME NEW i \in 1 .. Len(<<p>>) PROVE Reads(f[i - 1], <<p>>[i], f[i])
    <3>1. i = 1 /\ i - 1 = 0 /\ <<p>>[1] = p
      BY <1>2
    <3> QED
      BY <1>5, <2>2, <3>1, Zenon
  <2> QED
    BY <2>2, <2>3, <2>4, Zenon DEF ReadsAll
<1>6. ASSUME NEW r, NEW c PROVE Reads(r, <<c>>, ReadCell(r, c))
  <2>1. PICK f : f = Pair(r, ReadCell(r, c))
    OBVIOUS
  <2>2. f[0] = r /\ f[1] = ReadCell(r, c)
    BY <1>1, <2>1
  <2>3. f[Len(<<c>>)] = ReadCell(r, c)
    BY <1>2, <2>2, Zenon
  <2>4. ASSUME NEW i \in 1 .. Len(<<c>>) PROVE f[i] = ReadCell(f[i - 1], <<c>>[i])
    <3>1. i = 1 /\ i - 1 = 0 /\ <<c>>[1] = c
      BY <1>2
    <3> QED
      BY <2>2, <3>1, Zenon
  <2> QED
    BY <2>2, <2>3, <2>4, Zenon DEF Reads
<1>7. ASSUME NEW r PROVE Reads(r, <<>>, r)
  BY <1>3, <1>1, Zenon DEF Reads
<1> QED
  BY <1>4, <1>5, <1>6, <1>7, Zenon

(***************************************************************************)
(* The first of several pieces, and the rest of them.                      *)
(***************************************************************************)
LEMMA ReadsFirst ==
  ASSUME NEW s, Text(s), s # <<>>, NEW r, NEW q, ReadsAll(r, s, q)
  PROVE  \E m : Reads(r, Head(s), m) /\ ReadsAll(m, Tail(s), q)
<1>1. PICK f : f[0] = r /\ f[Len(s)] = q
               /\ \A i \in 1 .. Len(s) : Reads(f[i - 1], s[i], f[i])
  BY DEF ReadsAll
<1>2. /\ Len(s) \in Nat /\ Len(s) >= 1 /\ Head(s) = s[1]
      /\ Len(Tail(s)) = Len(s) - 1
      /\ \A i \in 1 .. Len(s) - 1 : Tail(s)[i] = s[i + 1]
  <2> DEFINE S == ToSet(s)
  <2>1. s \in Seq(S)
    BY DEF Text
  <2> HIDE DEF S
  <2> QED
    BY <2>1
<1>3. Reads(r, Head(s), f[1])
  <2>1. 1 \in 1 .. Len(s) /\ 1 - 1 = 0
    BY <1>2
  <2>2. Reads(f[1 - 1], s[1], f[1])
    BY <1>1, <2>1
  <2> QED
    BY <1>1, <1>2, <2>1, <2>2
<1> DEFINE g == [i \in 0 .. Len(s) - 1 |-> f[i + 1]]
<1>4. g[0] = f[1] /\ g[Len(s) - 1] = q
  <2>1. 0 \in 0 .. Len(s) - 1 /\ Len(s) - 1 \in 0 .. Len(s) - 1 /\ 0 + 1 = 1
        /\ (Len(s) - 1) + 1 = Len(s)
    BY <1>2
  <2> QED
    BY <1>1, <2>1
<1>5. ASSUME NEW i \in 1 .. Len(s) - 1 PROVE Reads(g[i - 1], Tail(s)[i], g[i])
  <2>1. /\ i \in 0 .. Len(s) - 1 /\ i - 1 \in 0 .. Len(s) - 1 /\ (i - 1) + 1 = i
        /\ i + 1 \in 1 .. Len(s) /\ (i + 1) - 1 = i
    BY <1>2
  <2>2. g[i] = f[i + 1] /\ g[i - 1] = f[i]
    BY <2>1
  <2>3. Reads(f[(i + 1) - 1], s[i + 1], f[i + 1])
    BY <1>1, <2>1
  <2>4. Tail(s)[i] = s[i + 1]
    BY <1>2
  <2> HIDE DEF g
  <2> QED
    BY <2>1, <2>2, <2>3, <2>4
<1> HIDE DEF g
<1>6. ReadsAll(f[1], Tail(s), q)
  BY <1>2, <1>4, <1>5 DEF ReadsAll
<1> QED
  BY <1>3, <1>6

Start == Reader("outside", <<>>, <<>>)

(***************************************************************************)
(* Read goes where a run from the start leads.                             *)
(***************************************************************************)
LEMMA ReadFacts ==
  ASSUME NEW p, Text(p), NEW q, Reads(Start, p, q)
  PROVE  Read(p) = q
<1> DEFINE Round(g) == [n \in 0 .. Len(p) |-> IF n = 0 THEN Start
                                              ELSE ReadCell(g[n - 1], p[n])]
           read == CHOOSE g : g = Round(g)
<1>1. PICK f : f[0] = Start /\ f[Len(p)] = q
               /\ \A i \in 1 .. Len(p) : f[i] = ReadCell(f[i - 1], p[i])
  BY DEF Reads
<1>2. Len(p) \in Nat
  BY DEF Text
<1>3. Read(p) = read[Len(p)]
  BY DEF Read, Start, Reader
<1>4. \E g : g = Round(g)
  <2> DEFINE g == [n \in 0 .. Len(p) |-> f[n]]
  <2>1. ASSUME NEW n \in 0 .. Len(p)
        PROVE  g[n] = IF n = 0 THEN Start ELSE ReadCell(g[n - 1], p[n])
    <3>1. CASE n = 0
      BY <1>1, <3>1
    <3>2. CASE n # 0
      <4>1. n \in 1 .. Len(p) /\ n - 1 \in 0 .. Len(p)
        BY <1>2, <3>2
      <4>2. g[n] = f[n] /\ g[n - 1] = f[n - 1]
        BY <4>1
      <4> HIDE DEF g
      <4> QED
        BY <1>1, <3>2, <4>1, <4>2
    <3> QED
      BY <3>1, <3>2
  <2>2. g = Round(g)
    <3>1. g = [n \in 0 .. Len(p) |-> g[n]]
      OBVIOUS
    <3> HIDE DEF g
    <3> QED
      BY <2>1, <3>1
  <2> QED
    BY <2>2
<1>5. read = Round(read)
  <2> HIDE DEF Round
  <2> QED
    BY <1>4
<1> HIDE DEF read
<1>6. ASSUME NEW n \in 0 .. Len(p)
      PROVE  read[n] = IF n = 0 THEN Start ELSE ReadCell(read[n - 1], p[n])
  BY <1>5
<1> HIDE DEF Round
<1> DEFINE Same == {n \in 0 .. Len(p) : read[n] = f[n]}
<1>7. 0 \in Same
  BY <1>1, <1>2, <1>6
<1>8. ASSUME NEW i \in 0 .. Len(p) - 1, i \in Same PROVE i + 1 \in Same
  <2>1. i + 1 \in 0 .. Len(p) /\ i + 1 \in 1 .. Len(p) /\ i + 1 # 0 /\ (i + 1) - 1 = i
    BY <1>2
  <2>2. read[i + 1] = ReadCell(read[i], p[i + 1])
    BY <1>6, <2>1
  <2>3. f[i + 1] = ReadCell(f[i], p[i + 1])
    BY <1>1, <2>1
  <2>4. read[i] = f[i]
    BY <1>8
  <2> QED
    BY <2>1, <2>2, <2>3, <2>4
<1>9. Len(p) \in Same
  <2>1. Len(p) \in 0 .. Len(p)
    BY <1>2
  <2>2. 0 .. Len(p) \subseteq Same
    <3> HIDE DEF Same
    <3> QED
      BY <1>2, <1>7, <1>8, InductionUpTo
  <2> QED
    BY <2>1, <2>2
<1> QED
  BY <1>1, <1>3, <1>9

(***************************************************************************)
(* The characters with a meaning of their own are different ones.          *)
(***************************************************************************)
LEMMA CharsDiffer ==
  /\ Quote # Escape /\ Quote # LineFeed /\ Quote # "ctl" /\ Quote # "u" /\ Quote # "n"
  /\ Escape # LineFeed /\ Escape # "ctl" /\ Escape # "u" /\ Escape # "n"
  /\ LineFeed # "ctl" /\ LineFeed # "u" /\ LineFeed # "n"
BY Zenon DEF Quote, Escape, LineFeed

(***************************************************************************)
(* One cell, outside of a string and inside.                               *)
(***************************************************************************)
LEMMA OneCell ==
  ASSUME NEW c, NEW x, NEW k
  PROVE  /\ ReadCell(Reader("outside", c, x), Quote) = Reader("inside", <<>>, x)
         /\ k # Quote => ReadCell(Reader("outside", c, x), k)
                           = Reader("outside", c, Append(x, Cell(k)))
         /\ ReadCell(Reader("inside", c, x), Quote)
              = Reader("outside", c, Append(x, StringOf(c)))
         /\ ReadCell(Reader("inside", c, x), Escape) = Reader("escaped", c, x)
         /\ k \notin {Quote, Escape, LineFeed, "ctl"} =>
              ReadCell(Reader("inside", c, x), k) = Reader("inside", Append(c, k), x)
         /\ k # "u" => ReadCell(Reader("escaped", c, x), k)
                         = Reader("inside", Append(c, Unescaped(k)), x)
         /\ ReadCell(Reader("escaped", c, x), "u") = Reader("hex", c, x)
         /\ k # "f" => ReadCell(Reader("hex", c, x), k) = Reader("hex", c, x)
         /\ ReadCell(Reader("hex", c, x), "f") = Reader("inside", Append(c, "ctl"), x)
<1>1. /\ ReadCell(Reader("outside", c, x), Quote) = Reader("inside", <<>>, x)
      /\ k # Quote => ReadCell(Reader("outside", c, x), k)
                        = Reader("outside", c, Append(x, Cell(k)))
  BY DEF ReadCell, Reader
<1>2. /\ ReadCell(Reader("inside", c, x), Quote)
              = Reader("outside", c, Append(x, StringOf(c)))
      /\ ReadCell(Reader("inside", c, x), Escape) = Reader("escaped", c, x)
      /\ k \notin {Quote, Escape, LineFeed, "ctl"} =>
              ReadCell(Reader("inside", c, x), k) = Reader("inside", Append(c, k), x)
  BY CharsDiffer DEF ReadCell, Reader
<1>3. /\ k # "u" => ReadCell(Reader("escaped", c, x), k)
                         = Reader("inside", Append(c, Unescaped(k)), x)
      /\ ReadCell(Reader("escaped", c, x), "u") = Reader("hex", c, x)
  BY DEF ReadCell, Reader
<1>4. /\ k # "f" => ReadCell(Reader("hex", c, x), k) = Reader("hex", c, x)
      /\ ReadCell(Reader("hex", c, x), "f") = Reader("inside", Append(c, "ctl"), x)
  BY DEF ReadCell, Reader
<1> QED
  BY <1>1, <1>2, <1>3, <1>4

(***************************************************************************)
(* Two cells, and six of them, are read one after the other.               *)
(***************************************************************************)
LEMMA TwoCells ==
  ASSUME NEW r, NEW a, NEW b
  PROVE  Reads(r, <<a, b>>, ReadCell(ReadCell(r, a), b))
<1>1. PICK m, q : m = ReadCell(r, a) /\ q = ReadCell(m, b)
  OBVIOUS
<1>2. PICK f : f = [i \in 0 .. 2 |-> IF i = 0 THEN r ELSE IF i = 1 THEN m ELSE q]
  OBVIOUS
<1>3. f[0] = r /\ f[1] = m /\ f[2] = q
  BY <1>2
<1>4. PICK p : p = <<a, b>>
  OBVIOUS
<1>5. Len(p) = 2 /\ p[1] = a /\ p[2] = b
  BY <1>4
<1>6. ASSUME NEW i \in 1 .. Len(p) PROVE f[i] = ReadCell(f[i - 1], p[i])
  <2>1. (i = 1 /\ i - 1 = 0) \/ (i = 2 /\ i - 1 = 1)
    BY <1>5
  <2> QED
    BY <1>1, <1>3, <1>5, <2>1
<1>7. Reads(r, p, q)
  BY <1>3, <1>5, <1>6 DEF Reads
<1> QED
  BY <1>1, <1>4, <1>7

LEMMA ControlRead ==
  ASSUME NEW c, NEW x
  PROVE  Reads(Reader("inside", c, x), <<Escape, "u", "0", "0", "1", "f">>,
               Reader("inside", Append(c, "ctl"), x))
<1>1. PICK r, m, h, q : /\ r = Reader("inside", c, x) /\ m = Reader("escaped", c, x)
                        /\ h = Reader("hex", c, x)
                        /\ q = Reader("inside", Append(c, "ctl"), x)
  OBVIOUS
<1>2. PICK f : f = [i \in 0 .. 6 |-> IF i = 0 THEN r ELSE IF i = 1 THEN m
                                     ELSE IF i = 6 THEN q ELSE h]
  OBVIOUS
<1>3. f[0] = r /\ f[1] = m /\ f[2] = h /\ f[3] = h /\ f[4] = h /\ f[5] = h /\ f[6] = q
  BY <1>2
<1>4. PICK p : p = <<Escape, "u", "0", "0", "1", "f">>
  OBVIOUS
<1>5. Len(p) = 6 /\ p[1] = Escape /\ p[2] = "u" /\ p[3] = "0" /\ p[4] = "0"
      /\ p[5] = "1" /\ p[6] = "f"
  BY <1>4
<1>6. /\ ReadCell(r, Escape) = m /\ ReadCell(m, "u") = h /\ ReadCell(h, "0") = h
      /\ ReadCell(h, "1") = h /\ ReadCell(h, "f") = q
  BY <1>1, OneCell
<1>7. ASSUME NEW i \in 1 .. Len(p) PROVE f[i] = ReadCell(f[i - 1], p[i])
  <2>1. \/ (i = 1 /\ i - 1 = 0) \/ (i = 2 /\ i - 1 = 1) \/ (i = 3 /\ i - 1 = 2)
        \/ (i = 4 /\ i - 1 = 3) \/ (i = 5 /\ i - 1 = 4) \/ (i = 6 /\ i - 1 = 5)
    BY <1>5
  <2> QED
    BY <1>3, <1>5, <1>6, <2>1
<1>8. Reads(r, p, q)
  BY <1>3, <1>5, <1>7 DEF Reads
<1> QED
  BY <1>1, <1>4, <1>8

(***************************************************************************)
(* What json_buffer_append_json_string makes of a character is read as     *)
(* this character.                                                         *)
(***************************************************************************)
LEMMA CellsRead ==
  ASSUME NEW c, NEW x, NEW k
  PROVE  Reads(Reader("inside", c, x), Cells(k), Reader("inside", Append(c, k), x))
<1> DEFINE r == Reader("inside", c, x)
           q == Reader("inside", Append(c, k), x)
<1>1. ASSUME NEW j, j # "u" PROVE Reads(r, <<Escape, j>>,
                                       Reader("inside", Append(c, Unescaped(j)), x))
  <2>1. ReadCell(r, Escape) = Reader("escaped", c, x)
    BY OneCell
  <2>2. ReadCell(Reader("escaped", c, x), j) = Reader("inside", Append(c, Unescaped(j)), x)
    BY <1>1, OneCell
  <2>3. Reads(r, <<Escape, j>>, ReadCell(ReadCell(r, Escape), j))
    BY TwoCells
  <2> QED
    BY <2>1, <2>2, <2>3, Zenon
<1>2. CASE k \in {Escape, Quote}
  <2>1. k # "u" /\ Unescaped(k) = k /\ Cells(k) = <<Escape, k>>
    BY <1>2, CharsDiffer DEF Unescaped, Cells
  <2> QED
    BY <1>1, <2>1, Zenon
<1>3. CASE k = LineFeed
  <2>1. "n" # "u" /\ Unescaped("n") = k /\ Cells(k) = <<Escape, "n">>
    BY <1>3, CharsDiffer DEF Unescaped, Cells
  <2> QED
    BY <1>1, <2>1, Zenon
<1>4. CASE k = "ctl"
  <2>1. Cells(k) = <<Escape, "u", "0", "0", "1", "f">>
    BY <1>4, CharsDiffer DEF Cells
  <2> QED
    BY <1>4, <2>1, ControlRead, Zenon
<1>5. CASE k \notin {Quote, Escape, LineFeed, "ctl"}
  <2>1. Cells(k) = <<k>>
    BY <1>5 DEF Cells
  <2>2. ReadCell(r, k) = q
    BY <1>5, OneCell
  <2>3. Reads(r, <<k>>, ReadCell(r, k))
    BY ReadsFew, Zenon
  <2> QED
    BY <2>1, <2>2, <2>3, Zenon
<1> QED
  BY <1>2, <1>3, <1>4, <1>5

-----------------------------------------------------------------------------
(* What pieces say to a reader.                                            *)

(***************************************************************************)
(* The beginnings of a sequence grow by an element at a time.              *)
(***************************************************************************)
LEMMA PrefixFacts ==
  ASSUME NEW s, Text(s)
  PROVE  /\ SubSeq(s, 1, 0) = <<>> /\ SubSeq(s, 1, Len(s)) = s
         /\ \A i \in 1 .. Len(s) : SubSeq(s, 1, i) = Append(SubSeq(s, 1, i - 1), s[i])
         /\ \A i \in 0 .. Len(s) : SubSeq(s, 1, i) \in Seq(ToSet(s))
<1>1. PICK S : S = ToSet(s)
  OBVIOUS
<1>2. s \in Seq(S) /\ Len(s) \in Nat
  BY <1>1 DEF Text
<1>3. SubSeq(s, 1, 0) = <<>> /\ SubSeq(s, 1, Len(s)) = s
  BY <1>2
<1>4. ASSUME NEW i \in 0 .. Len(s)
      PROVE  /\ SubSeq(s, 1, i) \in Seq(S) /\ Len(SubSeq(s, 1, i)) = i
             /\ \A j \in 1 .. i : SubSeq(s, 1, i)[j] = s[j]
  BY <1>2
<1>5. ASSUME NEW i \in 1 .. Len(s)
      PROVE  SubSeq(s, 1, i) = Append(SubSeq(s, 1, i - 1), s[i])
  <2>1. PICK a, b, e : a = SubSeq(s, 1, i) /\ b = SubSeq(s, 1, i - 1) /\ e = s[i]
    OBVIOUS
  <2>2. i \in 0 .. Len(s) /\ i - 1 \in 0 .. Len(s) /\ (i - 1) + 1 = i
    BY <1>2
  <2>3. /\ a \in Seq(S) /\ Len(a) = i /\ \A j \in 1 .. i : a[j] = s[j]
        /\ b \in Seq(S) /\ Len(b) = i - 1 /\ \A j \in 1 .. i - 1 : b[j] = s[j]
        /\ e \in S
    <3>1. a \in Seq(S) /\ Len(a) = i /\ \A j \in 1 .. i : a[j] = s[j]
      BY <1>4, <2>1, <2>2
    <3>2. b \in Seq(S) /\ Len(b) = i - 1 /\ \A j \in 1 .. i - 1 : b[j] = s[j]
      BY <1>4, <2>1, <2>2
    <3>3. e \in S
      BY <1>2, <2>1
    <3> QED
      BY <3>1, <3>2, <3>3
  <2>4. PICK t : t = Append(b, e)
    OBVIOUS
  <2>5. /\ t \in Seq(S) /\ Len(t) = i /\ t[i] = e
        /\ \A j \in 1 .. i - 1 : t[j] = b[j]
    BY <2>2, <2>3, <2>4
  <2>6. ASSUME NEW j \in 1 .. i PROVE a[j] = t[j]
    <3>1. j = i \/ j \in 1 .. i - 1
      OBVIOUS
    <3> QED
      BY <2>1, <2>3, <2>5, <3>1
  <2>7. a = t
    BY <2>3, <2>5, <2>6, SeqEqual
  <2> QED
    BY <2>1, <2>4, <2>7
<1> QED
  BY <1>1, <1>3, <1>4, <1>5

(***************************************************************************)
(* Where the brackets stand does not matter.                               *)
(***************************************************************************)
LEMMA TextsAssociate ==
  ASSUME NEW a, NEW b, NEW c, Text(a), Text(b), Text(c)
  PROVE  (a \o b) \o c = a \o (b \o c)
<1>1. PICK S : S = ToSet(a) \cup ToSet(b) \cup ToSet(c)
  OBVIOUS
<1>2. a \in Seq(S) /\ b \in Seq(S) /\ c \in Seq(S)
  BY <1>1, SeqMonotonic DEF Text
<1> QED
  BY ONLY <1>2, ConcatAssociative

LEMMA AppendJoins ==
  ASSUME NEW a, NEW b, NEW e, Text(a), Text(b)
  PROVE  Append(a \o b, e) = a \o Append(b, e) /\ Append(a, e) = a \o <<e>>
<1>1. PICK S : S = ToSet(a) \cup ToSet(b) \cup {e}
  OBVIOUS
<1>2. a \in Seq(S) /\ b \in Seq(S) /\ e \in S
  BY <1>1, SeqMonotonic DEF Text
<1>3. PICK d : d = a \o b
  OBVIOUS
<1>4. d \in Seq(S) /\ <<e>> \in Seq(S)
  BY <1>2, <1>3
<1>5. Append(d, e) = d \o <<e>> /\ Append(b, e) = b \o <<e>> /\ Append(a, e) = a \o <<e>>
  BY ONLY <1>2, <1>4, AppendIsConcat
<1>6. (a \o b) \o <<e>> = a \o (b \o <<e>>)
  BY ONLY <1>2, <1>4, ConcatAssociative
<1> QED
  BY <1>3, <1>5, <1>6, Zenon

LEMMA NothingJoins == ASSUME NEW a, Text(a) PROVE a \o <<>> = a
BY ConcatEmptySeq DEF Text

\* To a reader who is outside of a string the pieces of s say y, wherever
\* they stand.
Conveys(s, y) ==
  /\ Pieces(s) /\ Text(y)
  /\ \A c, x : Text(x) =>
       \E d : ReadsAll(Reader("outside", c, x), s, Reader("outside", d, x \o y))

(***************************************************************************)
(* Nothing, and one thing after another.                                   *)
(***************************************************************************)
LEMMA ConveysNothing == Conveys(<<>>, <<>>)
<1>1. Pieces(<<>>) /\ Text(<<>>)
  BY PiecesFacts DEF Pieces
<1>2. ASSUME NEW c, NEW x, Text(x)
      PROVE  \E d : ReadsAll(Reader("outside", c, x), <<>>, Reader("outside", d, x \o <<>>))
  <2>1. x \o <<>> = x
    BY <1>2, NothingJoins
  <2>2. ReadsAll(Reader("outside", c, x), <<>>, Reader("outside", c, x))
    BY ReadsFew, Zenon
  <2> QED
    BY <2>1, <2>2, Zenon
<1> QED
  BY <1>1, <1>2, Zenon DEF Conveys

LEMMA ConveysJoin ==
  ASSUME NEW s, NEW y, NEW t, NEW z, Conveys(s, y), Conveys(t, z)
  PROVE  Conveys(s \o t, y \o z)
<1>1. Pieces(s) /\ Pieces(t) /\ Text(y) /\ Text(z) /\ Text(s) /\ Text(t)
  BY DEF Conveys, Pieces
<1>2. Pieces(s \o t) /\ Text(y \o z)
  BY <1>1, PiecesFacts, TextJoins
<1>3. ASSUME NEW c, NEW x, Text(x)
      PROVE  \E d : ReadsAll(Reader("outside", c, x), s \o t,
                             Reader("outside", d, x \o (y \o z)))
  <2>1. PICK d : ReadsAll(Reader("outside", c, x), s, Reader("outside", d, x \o y))
    BY <1>3, Zenon DEF Conveys
  <2>2. Text(x \o y)
    BY <1>1, <1>3, TextJoins
  <2>3. PICK e : ReadsAll(Reader("outside", d, x \o y), t,
                          Reader("outside", e, (x \o y) \o z))
    BY <2>2, Zenon DEF Conveys
  <2>4. (x \o y) \o z = x \o (y \o z)
    <3>1. Text(x) /\ Text(y) /\ Text(z)
      BY <1>1, <1>3, Zenon
    <3> QED
      BY ONLY <3>1, TextsAssociate
  <2>5. ReadsAll(Reader("outside", c, x), s \o t, Reader("outside", e, (x \o y) \o z))
    BY <1>1, <2>1, <2>3, ReadsAllJoin, Zenon
  <2> QED
    BY <2>4, <2>5, Zenon
<1> QED
  BY <1>2, <1>3, Zenon DEF Conveys

(***************************************************************************)
(* A piece without a quotation mark is taken as it is.                     *)
(***************************************************************************)
LEMMA PlainConveys ==
  ASSUME NEW p, Text(p), Quote \notin ToSet(p)
  PROVE  Conveys(<<p>>, Plain(p))
<1>1. PICK y : y = Plain(p)
  OBVIOUS
<1>2. /\ Len(p) \in Nat /\ Text(y) /\ Len(y) = Len(p)
      /\ \A i \in 1 .. Len(p) : y[i] = Cell(p[i]) /\ p[i] # Quote
  <2>1. Len(p) \in Nat /\ DOMAIN p = 1 .. Len(p)
    BY DEF Text
  <2>2. y = [i \in 1 .. Len(p) |-> Cell(p[i])]
    BY <1>1, <2>1 DEF Plain
  <2>3. PICK S : S = {Cell(p[i]) : i \in 1 .. Len(p)}
    OBVIOUS
  <2>4. y \in Seq(S)
    <3>1. \A i \in 1 .. Len(p) : Cell(p[i]) \in S
      BY <2>3
    <3> QED
      BY <2>1, <2>2, <3>1, IsASeq
  <2>5. Len(y) = Len(p) /\ \A i \in 1 .. Len(p) : y[i] = Cell(p[i])
    BY <2>1, <2>2
  <2>6. \A i \in 1 .. Len(p) : p[i] # Quote
    BY <2>1 DEF ToSet
  <2> QED
    BY <2>1, <2>4, <2>5, <2>6, TextOf
<1>3. ASSUME NEW c, NEW x, Text(x)
      PROVE  Reads(Reader("outside", c, x), p, Reader("outside", c, x \o y))
  <2> DEFINE f == [i \in 0 .. Len(p) |-> Reader("outside", c, x \o SubSeq(y, 1, i))]
  <2>1. f[0] = Reader("outside", c, x)
    <3>1. SubSeq(y, 1, 0) = <<>> /\ x \o <<>> = x
      BY <1>2, <1>3, PrefixFacts, NothingJoins
    <3>2. 0 \in 0 .. Len(p)
      BY <1>2
    <3> QED
      BY <3>1, <3>2
  <2>2. f[Len(p)] = Reader("outside", c, x \o y)
    <3>1. SubSeq(y, 1, Len(p)) = y
      BY <1>2, PrefixFacts
    <3>2. Len(p) \in 0 .. Len(p)
      BY <1>2
    <3> QED
      BY <3>1, <3>2
  <2>3. ASSUME NEW i \in 1 .. Len(p) PROVE f[i] = ReadCell(f[i - 1], p[i])
    <3>1. i \in 0 .. Len(p) /\ i - 1 \in 0 .. Len(p)
      BY <1>2
    <3>2. PICK u : u = SubSeq(y, 1, i - 1)
      OBVIOUS
    <3>3. Text(u)
      <4>1. u \in Seq(ToSet(y))
        BY <1>2, <3>1, <3>2, PrefixFacts
      <4> QED
        BY <4>1, TextOf
    <3>4. SubSeq(y, 1, i) = Append(u, Cell(p[i]))
      BY <1>2, <3>2, PrefixFacts
    <3>5. f[i] = Reader("outside", c, x \o Append(u, Cell(p[i])))
          /\ f[i - 1] = Reader("outside", c, x \o u)
      BY <3>1, <3>2, <3>4
    <3>6. x \o Append(u, Cell(p[i])) = Append(x \o u, Cell(p[i]))
      BY ONLY <1>3, <3>3, AppendJoins
    <3>7. ReadCell(Reader("outside", c, x \o u), p[i])
            = Reader("outside", c, Append(x \o u, Cell(p[i])))
      BY <1>2, OneCell
    <3> HIDE DEF f
    <3> QED
      BY <3>5, <3>6, <3>7, Zenon
  <2> HIDE DEF f
  <2> QED
    BY <2>1, <2>2, <2>3 DEF Reads
<1>4. ASSUME NEW c, NEW x, Text(x)
      PROVE  \E d : ReadsAll(Reader("outside", c, x), <<p>>, Reader("outside", d, x \o y))
  <2>1. Reads(Reader("outside", c, x), p, Reader("outside", c, x \o y))
    BY <1>3, <1>4
  <2>2. ReadsAll(Reader("outside", c, x), <<p>>, Reader("outside", c, x \o y))
    BY <2>1, ReadsFew, Zenon
  <2> QED
    BY <2>2
<1>5. Pieces(<<p>>)
  BY PiecesFacts, Zenon
<1> QED
  BY <1>1, <1>2, <1>4, <1>5, Zenon DEF Conveys

(***************************************************************************)
(* A JSON string says its characters, whichever they are.                  *)
(***************************************************************************)
LEMMA StringConveys ==
  ASSUME NEW s, Text(s)
  PROVE  Conveys(json_buffer_append_json_string(s), Str(s))
<1>1. PICK body : body = [i \in DOMAIN s |-> Cells(s[i])]
  OBVIOUS
<1>2. /\ Len(s) \in Nat /\ Text(body) /\ Len(body) = Len(s)
      /\ \A i \in 1 .. Len(s) : body[i] = Cells(s[i])
  <2>1. Len(s) \in Nat /\ DOMAIN s = 1 .. Len(s)
    BY DEF Text
  <2>2. body = [i \in 1 .. Len(s) |-> Cells(s[i])]
    BY <1>1, <2>1
  <2>3. PICK S : S = {Cells(s[i]) : i \in 1 .. Len(s)}
    OBVIOUS
  <2>4. body \in Seq(S)
    <3>1. \A i \in 1 .. Len(s) : Cells(s[i]) \in S
      BY <2>3
    <3> QED
      BY <2>1, <2>2, <3>1, IsASeq
  <2>5. Len(body) = Len(s) /\ \A i \in 1 .. Len(s) : body[i] = Cells(s[i])
    BY <2>1, <2>2
  <2> QED
    BY <2>1, <2>4, <2>5, TextOf
<1>3. ASSUME NEW x
      PROVE  ReadsAll(Reader("inside", <<>>, x), body, Reader("inside", s, x))
  <2> DEFINE f == [i \in 0 .. Len(s) |-> Reader("inside", SubSeq(s, 1, i), x)]
  <2>1. f[0] = Reader("inside", <<>>, x) /\ f[Len(s)] = Reader("inside", s, x)
    <3>1. SubSeq(s, 1, 0) = <<>> /\ SubSeq(s, 1, Len(s)) = s
      BY PrefixFacts
    <3>2. 0 \in 0 .. Len(s) /\ Len(s) \in 0 .. Len(s)
      BY <1>2
    <3> QED
      BY <3>1, <3>2
  <2>2. ASSUME NEW i \in 1 .. Len(s) PROVE Reads(f[i - 1], body[i], f[i])
    <3>1. i \in 0 .. Len(s) /\ i - 1 \in 0 .. Len(s)
      BY <1>2
    <3>2. PICK u : u = SubSeq(s, 1, i - 1)
      OBVIOUS
    <3>3. SubSeq(s, 1, i) = Append(u, s[i])
      BY <3>2, PrefixFacts
    <3>4. f[i] = Reader("inside", Append(u, s[i]), x) /\ f[i - 1] = Reader("inside", u, x)
      BY <3>1, <3>2, <3>3
    <3>5. Reads(Reader("inside", u, x), Cells(s[i]), Reader("inside", Append(u, s[i]), x))
      BY CellsRead
    <3>6. body[i] = Cells(s[i])
      BY <1>2
    <3> HIDE DEF f
    <3> QED
      BY <3>4, <3>5, <3>6, Zenon
  <2> HIDE DEF f
  <2> QED
    BY <1>2, <2>1, <2>2 DEF ReadsAll
<1>4. PICK mark : mark = <<<<Quote>>>>
  OBVIOUS
<1>5. Text(mark) /\ Text(Str(s)) /\ Str(s) = <<StringOf(s)>>
  <2>1. mark \in Seq({<<Quote>>}) /\ <<StringOf(s)>> \in Seq({StringOf(s)})
    BY <1>4
  <2>2. Str(s) = <<StringOf(s)>>
    BY DEF Str
  <2> QED
    BY <2>1, <2>2, TextOf
<1>6. ASSUME NEW c, NEW x, Text(x)
      PROVE  /\ ReadsAll(Reader("outside", c, x), mark, Reader("inside", <<>>, x))
             /\ ReadsAll(Reader("inside", s, x), mark, Reader("outside", s, x \o Str(s)))
  <2>1. Reads(Reader("outside", c, x), <<Quote>>, Reader("inside", <<>>, x))
    <3>1. Reads(Reader("outside", c, x), <<Quote>>, ReadCell(Reader("outside", c, x), Quote))
      BY ReadsFew, Zenon
    <3>2. ReadCell(Reader("outside", c, x), Quote) = Reader("inside", <<>>, x)
      BY OneCell
    <3> QED
      BY <3>1, <3>2, Zenon
  <2>2. Reads(Reader("inside", s, x), <<Quote>>, Reader("outside", s, x \o Str(s)))
    <3>1. Reads(Reader("inside", s, x), <<Quote>>, ReadCell(Reader("inside", s, x), Quote))
      BY ReadsFew, Zenon
    <3>2. ReadCell(Reader("inside", s, x), Quote)
            = Reader("outside", s, Append(x, StringOf(s)))
      BY OneCell
    <3>3. Append(x, StringOf(s)) = x \o <<StringOf(s)>>
      BY ONLY <1>6, AppendJoins
    <3> QED
      BY <1>5, <3>1, <3>2, <3>3, Zenon
  <2> QED
    BY <1>4, <2>1, <2>2, ReadsFew, Zenon
<1>7. json_buffer_append_json_string(s) = (mark \o body) \o mark
  BY <1>1, <1>4 DEF json_buffer_append_json_string
<1>8. Text(mark \o body)
  BY <1>2, <1>5, TextJoins
<1>9. ASSUME NEW c, NEW x, Text(x)
      PROVE  ReadsAll(Reader("outside", c, x), (mark \o body) \o mark,
                      Reader("outside", s, x \o Str(s)))
  <2>1. /\ ReadsAll(Reader("outside", c, x), mark, Reader("inside", <<>>, x))
        /\ ReadsAll(Reader("inside", s, x), mark, Reader("outside", s, x \o Str(s)))
        /\ ReadsAll(Reader("inside", <<>>, x), body, Reader("inside", s, x))
    BY <1>3, <1>6, <1>9, Zenon
  <2>2. ReadsAll(Reader("outside", c, x), mark \o body, Reader("inside", s, x))
    BY ONLY <1>2, <1>5, <2>1, ReadsAllJoin
  <2> QED
    BY ONLY <1>5, <1>8, <2>1, <2>2, ReadsAllJoin
<1>10. Pieces(json_buffer_append_json_string(s))
  BY JsonStringPieces
<1> QED
  BY <1>5, <1>7, <1>9, <1>10, Zenon DEF Conveys

(***************************************************************************)
(* The fixed texts hold no quotation mark.                                 *)
(***************************************************************************)
LEMMA FixedTexts ==
  /\ "{id:" # Quote /\ ",name:" # Quote /\ ",age:" # Quote /\ "}" # Quote /\ "," # Quote
  /\ "{ok:true,action:" # Quote /\ ",inserted_id:" # Quote /\ ",row_count:" # Quote
  /\ ",rows:[" # Quote /\ "]}" # Quote
  /\ "{ok:false,status:" # Quote /\ ",error_code:" # Quote /\ ",sql_state:" # Quote
  /\ ",message:" # Quote
BY Zenon DEF Quote

LEMMA DecimalPlain ==
  ASSUME NEW n \in Int PROVE Text(Decimal(n)) /\ Quote \notin ToSet(Decimal(n))
<1>1. Quote \notin DecimalCell
  BY Zenon DEF Quote, DecimalCell
<1>2. Decimal(n) \in Seq(DecimalCell)
  BY DecimalCells
<1> QED
  BY <1>1, <1>2, TextOf

(***************************************************************************)
(* A fixed text, one with a number in it, and one with two.                *)
(***************************************************************************)
LEMMA OnePlain ==
  ASSUME NEW a, a # Quote PROVE Text(<<a>>) /\ Quote \notin ToSet(<<a>>)
<1>1. <<a>> \in Seq({a})
  OBVIOUS
<1>2. Text(<<a>>) /\ ToSet(<<a>>) \subseteq {a}
  BY ONLY <1>1, TextOf
<1> QED
  BY <1>2, Zenon

LEMMA JoinPlain ==
  ASSUME NEW s, NEW t, Text(s), Text(t), Quote \notin ToSet(s), Quote \notin ToSet(t)
  PROVE  Text(s \o t) /\ Quote \notin ToSet(s \o t)
<1>1. Text(s \o t) /\ ToSet(s \o t) = ToSet(s) \cup ToSet(t)
  BY TextJoins
<1> QED
  BY <1>1, Zenon

LEMMA NumberPlain ==
  ASSUME NEW a, NEW b, a # Quote, b # Quote, NEW n \in Int
  PROVE  /\ Text(<<a>> \o Decimal(n) \o <<b>>)
         /\ Quote \notin ToSet(<<a>> \o Decimal(n) \o <<b>>)
<1>1. PICK k, d, l : k = <<a>> /\ d = Decimal(n) /\ l = <<b>>
  OBVIOUS
<1>2. /\ Text(k) /\ Quote \notin ToSet(k) /\ Text(d) /\ Quote \notin ToSet(d)
      /\ Text(l) /\ Quote \notin ToSet(l)
  BY <1>1, DecimalPlain, OnePlain
<1>3. Text(k \o d) /\ Quote \notin ToSet(k \o d)
  BY ONLY <1>2, JoinPlain
<1>4. Text((k \o d) \o l) /\ Quote \notin ToSet((k \o d) \o l)
  BY ONLY <1>2, <1>3, JoinPlain
<1> QED
  BY <1>1, <1>4, Zenon

LEMMA TwoNumbersPlain ==
  ASSUME NEW a, NEW b, NEW c, a # Quote, b # Quote, c # Quote, NEW n \in Int, NEW m \in Int
  PROVE  /\ Text(<<a>> \o Decimal(n) \o <<b>> \o Decimal(m) \o <<c>>)
         /\ Quote \notin ToSet(<<a>> \o Decimal(n) \o <<b>> \o Decimal(m) \o <<c>>)
<1>1. PICK k, d, l : k = <<a>> \o Decimal(n) \o <<b>> /\ d = Decimal(m) /\ l = <<c>>
  OBVIOUS
<1>2. /\ Text(k) /\ Quote \notin ToSet(k) /\ Text(d) /\ Quote \notin ToSet(d)
      /\ Text(l) /\ Quote \notin ToSet(l)
  BY <1>1, DecimalPlain, NumberPlain, OnePlain
<1>3. Text(k \o d) /\ Quote \notin ToSet(k \o d)
  BY ONLY <1>2, JoinPlain
<1>4. Text((k \o d) \o l) /\ Quote \notin ToSet((k \o d) \o l)
  BY ONLY <1>2, <1>3, JoinPlain
<1> QED
  BY <1>1, <1>4, Zenon

(***************************************************************************)
(* A row says its id, its name and its age.                                *)
(***************************************************************************)
LEMMA RecordConveys ==
  ASSUME NEW r \in Rec PROVE Conveys(api_append_record(r), RowRead(r))
<1>1. r.id \in Int /\ r.data.age \in Int /\ r.data.name \in Seq(STRING)
  BY DEF Rec
<1>2. PICK open, close, string :
        /\ open = <<"{id:">> \o Decimal(r.id) \o <<",name:">>
        /\ close = <<",age:">> \o Decimal(r.data.age) \o <<"}">>
        /\ string = json_buffer_append_json_string(r.data.name)
  OBVIOUS
<1>3. Text(open) /\ Quote \notin ToSet(open)
  BY <1>1, <1>2, FixedTexts, NumberPlain, Zenon
<1>4. Text(close) /\ Quote \notin ToSet(close)
  BY <1>1, <1>2, FixedTexts, NumberPlain, Zenon
<1>5. Conveys(<<open>>, Plain(open)) /\ Conveys(<<close>>, Plain(close))
  BY <1>3, <1>4, PlainConveys
<1>6. Conveys(string, Str(r.data.name))
  BY <1>1, <1>2, TextOf, StringConveys
<1>7. Conveys(<<open>> \o string, Plain(open) \o Str(r.data.name))
  BY ONLY <1>5, <1>6, ConveysJoin
<1>8. Conveys((<<open>> \o string) \o <<close>>,
              (Plain(open) \o Str(r.data.name)) \o Plain(close))
  BY ONLY <1>5, <1>7, ConveysJoin
<1> QED
  BY <1>2, <1>8, Zenon DEF api_append_record, RowRead

\* The equation that the function in FlattenSeq solves, up to m.
FlattenRound(seqs, m, f) ==
  [i \in 1 .. m |-> IF i = 1 THEN seqs[i] ELSE f[i - 1] \o seqs[i]]

(***************************************************************************)
(* It has a solution.                                                      *)
(***************************************************************************)
LEMMA FlattenRecursion ==
  ASSUME NEW seqs, NEW len \in Nat
  PROVE  \E f : f = FlattenRound(seqs, len, f)
<1> DEFINE Solved == {m \in 0 .. len : \E f : f = FlattenRound(seqs, m, f)}
<1>1. 0 \in Solved
  <2> DEFINE f == [n \in 1 .. 0 |-> <<>>]
  <2>1. f = FlattenRound(seqs, 0, f)
    BY DEF FlattenRound
  <2>2. 0 \in 0 .. len
    OBVIOUS
  <2> HIDE DEF f
  <2> QED
    BY <2>1, <2>2
<1>2. ASSUME NEW i \in 0 .. len - 1, i \in Solved PROVE i + 1 \in Solved
  <2>1. PICK f : f = FlattenRound(seqs, i, f)
    BY <1>2
  <2> DEFINE last == IF i + 1 = 1 THEN seqs[i + 1] ELSE f[i] \o seqs[i + 1]
             g == [n \in 1 .. i + 1 |-> IF n = i + 1 THEN last ELSE f[n]]
  <2>2. ASSUME NEW n \in 1 .. i + 1
        PROVE  g[n] = IF n = 1 THEN seqs[n] ELSE g[n - 1] \o seqs[n]
    <3>1. CASE n = i + 1
      <4>1. n - 1 = i /\ (n # 1 => i \in 1 .. i + 1 /\ i # i + 1)
        BY <3>1
      <4>2. g[n] = last /\ (n # 1 => g[n - 1] = f[i])
        BY <3>1, <4>1
      <4> HIDE DEF g
      <4> QED
        BY <3>1, <4>1, <4>2
    <3>2. CASE n # i + 1
      <4>1. n \in 1 .. i /\ (n # 1 => n - 1 \in 1 .. i)
        BY <3>2
      <4>2. g[n] = f[n] /\ (n # 1 => g[n - 1] = f[n - 1])
        BY <3>2, <4>1
      <4>3. f[n] = IF n = 1 THEN seqs[n] ELSE f[n - 1] \o seqs[n]
        BY <2>1, <4>1 DEF FlattenRound
      <4> HIDE DEF g
      <4> QED
        BY <4>2, <4>3
    <3> QED
      BY <3>1, <3>2
  <2>3. g = FlattenRound(seqs, i + 1, g)
    <3>1. g = [n \in 1 .. i + 1 |-> g[n]]
      OBVIOUS
    <3> HIDE DEF g
    <3> QED
      BY <2>2, <3>1 DEF FlattenRound
  <2>4. i + 1 \in 0 .. len
    OBVIOUS
  <2> HIDE DEF g
  <2> QED
    BY <2>3, <2>4
<1>3. len \in Solved
  <2> HIDE DEF Solved
  <2> QED
    BY <1>1, <1>2, InductionUpTo
<1> QED
  BY <1>3

(***************************************************************************)
(* The rows of a table, with commas between them, say the rows.            *)
(***************************************************************************)
LEMMA RowsConvey ==
  ASSUME NEW rows \in Seq(Rec) PROVE Conveys(api_append_rows(rows), RowsRead(rows))
<1>1. PICK len \in Nat : len = Len(rows)
  OBVIOUS
<1>2. DOMAIN rows = 1 .. len /\ \A i \in 1 .. len : rows[i] \in Rec
  BY <1>1
<1> DEFINE comma == <<",">>
           Joined(n, s) == s \o (IF n > 1 THEN <<comma>> ELSE <<>>)
                           \o api_append_record(rows[n])
           One(i) == IF i = 1 THEN RowRead(rows[i]) ELSE Plain(comma) \o RowRead(rows[i])
<1>3. PICK appended : /\ api_append_rows(rows) = appended[len]
                      /\ \A n \in 0 .. len :
                           appended[n] = IF n = 0 THEN <<>> ELSE Joined(n, appended[n - 1])
  <2> DEFINE f == CHOOSE f : f = RowsRound(rows, len, f)
  <2>1. api_append_rows(rows) = f[len]
    BY <1>1 DEF api_append_rows, RowsRound
  <2>2. f = RowsRound(rows, len, f)
    <3>1. \E g : g = RowsRound(rows, len, g)
      BY RowsRecursion
    <3> QED
      BY <3>1
  <2> HIDE DEF f
  <2>3. ASSUME NEW n \in 0 .. len
        PROVE  f[n] = IF n = 0 THEN <<>> ELSE Joined(n, f[n - 1])
    BY <2>2 DEF RowsRound
  <2> HIDE DEF Joined
  <2> QED
    BY <2>1, <2>3
<1>4. PICK seqs : seqs = [i \in 1 .. len |-> One(i)]
  OBVIOUS
<1>5. RowsRead(rows) = FlattenSeq(seqs)
  BY <1>2, <1>4 DEF RowsRead
<1> HIDE DEF One, Joined, comma
<1>6. Len(seqs) = len /\ \A i \in 1 .. len : seqs[i] = One(i)
  BY <1>4
<1>7. CASE len = 0
  <2>1. seqs = <<>>
    BY <1>4, <1>7
  <2>2. FlattenSeq(seqs) = <<>>
    BY <1>6, <1>7, <2>1 DEF FlattenSeq
  <2>3. appended[len] = <<>>
    BY <1>3, <1>7
  <2> QED
    BY <1>3, <1>5, <2>2, <2>3, ConveysNothing, Zenon
<1>8. CASE len # 0
  <2>1. PICK flat : /\ FlattenSeq(seqs) = flat[len]
                    /\ \A i \in 1 .. len :
                         flat[i] = IF i = 1 THEN One(i) ELSE flat[i - 1] \o One(i)
    <3> DEFINE f == CHOOSE f : f = FlattenRound(seqs, len, f)
    <3>1. FlattenSeq(seqs) = f[len]
      BY <1>6, <1>8 DEF FlattenSeq, FlattenRound
    <3>2. f = FlattenRound(seqs, len, f)
      <4>1. \E g : g = FlattenRound(seqs, len, g)
        BY FlattenRecursion
      <4> QED
        BY <4>1
    <3> HIDE DEF f
    <3>3. ASSUME NEW i \in 1 .. len
          PROVE  f[i] = IF i = 1 THEN One(i) ELSE f[i - 1] \o One(i)
      BY <1>6, <3>2 DEF FlattenRound
    <3> QED
      BY <3>1, <3>3
  <2> DEFINE Done == {n \in 0 .. len : n >= 1 => Conveys(appended[n], flat[n])}
  <2>2. 0 \in Done
    OBVIOUS
  <2>3. ASSUME NEW i \in 0 .. len - 1, i \in Done PROVE i + 1 \in Done
    <3>1. PICK n : n = i + 1
      OBVIOUS
    <3>2. n \in 0 .. len /\ n \in 1 .. len /\ n # 0 /\ n - 1 = i /\ rows[n] \in Rec
      BY <1>2, <3>1
    <3>3. PICK rec, said : rec = api_append_record(rows[n]) /\ said = RowRead(rows[n])
      OBVIOUS
    <3>4. Conveys(rec, said) /\ Text(said)
      BY <3>2, <3>3, RecordConveys DEF Conveys
    <3>5. CASE n = 1
      <4>1. appended[0] = <<>> /\ appended[1] = Joined(1, appended[0])
        BY <1>3, <3>2, <3>5
      <4>2. appended[1] = (<<>> \o <<>>) \o rec
        <5>1. ~(1 > 1)
          OBVIOUS
        <5> QED
          BY <3>3, <3>5, <4>1, <5>1 DEF Joined
      <4>3. flat[1] = said
        BY <2>1, <3>2, <3>3, <3>5 DEF One
      <4>4. Conveys(<<>> \o <<>>, <<>> \o <<>>)
        BY ONLY ConveysNothing, ConveysJoin
      <4>5. Conveys((<<>> \o <<>>) \o rec, (<<>> \o <<>>) \o said)
        BY ONLY <3>4, <4>4, ConveysJoin
      <4>6. (<<>> \o <<>>) \o said = said
        <5>1. said \in Seq(ToSet(said))
          BY <3>4 DEF Text
        <5>2. <<>> \o said = said
          BY ONLY <5>1, ConcatEmptySeq
        <5>3. <<>> \o <<>> = <<>>
          OBVIOUS
        <5> QED
          BY <5>2, <5>3, Zenon
      <4>7. Conveys(appended[1], flat[1])
        BY <4>2, <4>3, <4>5, <4>6, Zenon
      <4> QED
        BY <3>1, <3>2, <3>5, <4>7
    <3>6. CASE n # 1
      <4>1. Conveys(appended[i], flat[i])
        BY <2>3, <3>1, <3>2, <3>6
      <4>2. appended[n] = Joined(n, appended[i]) /\ n > 1
        BY <1>3, <3>2, <3>6
      <4>3. appended[n] = (appended[i] \o <<comma>>) \o rec
        BY <3>3, <4>2 DEF Joined
      <4>4. flat[n] = flat[i] \o (Plain(comma) \o said)
        BY <2>1, <3>2, <3>3, <3>6 DEF One
      <4>5. Conveys(<<comma>>, Plain(comma))
        <5>1. "," # Quote
          BY FixedTexts, Zenon
        <5>2. Text(comma) /\ Quote \notin ToSet(comma)
          BY <5>1, OnePlain, Zenon DEF comma
        <5> QED
          BY <5>2, PlainConveys
      <4>6. PICK a, y : a = appended[i] /\ y = flat[i]
        OBVIOUS
      <4>7. Conveys(a, y)
        BY <4>1, <4>6, Zenon
      <4>8. Conveys(a \o <<comma>>, y \o Plain(comma))
        BY ONLY <4>5, <4>7, ConveysJoin
      <4>9. Conveys((a \o <<comma>>) \o rec, (y \o Plain(comma)) \o said)
        BY ONLY <3>4, <4>8, ConveysJoin
      <4>10. Text(y) /\ Text(Plain(comma))
        BY <4>5, <4>7 DEF Conveys
      <4>11. (y \o Plain(comma)) \o said = y \o (Plain(comma) \o said)
        BY ONLY <3>4, <4>10, TextsAssociate
      <4>12. Conveys(appended[n], flat[n])
        BY <4>3, <4>4, <4>6, <4>9, <4>11, Zenon
      <4> QED
        BY <3>1, <3>2, <4>12
    <3> QED
      BY <3>5, <3>6
  <2>4. len \in Done
    <3> HIDE DEF Done
    <3>1. 0 .. len \subseteq Done
      BY <2>2, <2>3, InductionUpTo
    <3> QED
      BY <3>1
  <2>5. len >= 1
    BY <1>8
  <2>6. Conveys(appended[len], flat[len])
    BY <2>4, <2>5
  <2> QED
    BY <1>3, <1>5, <2>1, <2>6, Zenon
<1> QED
  BY <1>7, <1>8

(***************************************************************************)
(* The answer to an INSERT says the id, and that it is one row.            *)
(***************************************************************************)
LEMMA InsertConveys ==
  ASSUME sql_result.action = "insert", parse_result.type = "INSERT",
         table \in Seq(Rec), sql_result.inserted_id = Len(table), sql_result.row_count = 1
  PROVE  Conveys(api_build_success_response, AnswerRead)
<1> DEFINE head == <<"{ok:true,action:">>
           action == <<"insert">>
           insert == <<",inserted_id:">> \o Decimal(Len(table)) \o <<",row_count:">>
                     \o Decimal(1) \o <<"}">>
           other == <<<<",row_count:">> \o Decimal(sql_result.row_count) \o <<",rows:[">>>>
                    \o api_append_rows(sql_result.rows) \o <<<<"]}">>>>
           read == Plain(head) \o Str(action) \o Plain(insert)
           otherRead == Plain(<<"{ok:true,action:">>) \o Str(<<"select">>)
                        \o Plain(<<",row_count:">> \o Decimal(Len(meant.rows))
                                 \o <<",rows:[">>)
                        \o RowsRead(meant.rows) \o Plain(<<"]}">>)
<1>1. api_build_success_response
        = <<head>> \o json_buffer_append_json_string(<<sql_result.action>>) \o
          (IF sql_result.action = "insert"
           THEN <<<<",inserted_id:">> \o Decimal(sql_result.inserted_id)
                  \o <<",row_count:">> \o Decimal(sql_result.row_count) \o <<"}">>>>
           ELSE other)
  BY Zenon DEF api_build_success_response
<1>2. AnswerRead = CASE parse_result.type = "INSERT" -> read
                     [] parse_result.type \in {"SELECT_ALL", "SELECT_BY_ID",
                          "SELECT_BY_AGE", "SELECT_BY_NAME"} -> otherRead
  BY DEF AnswerRead
<1>3. Len(table) \in Int /\ 1 \in Int
  OBVIOUS
<1>4. Text(head) /\ Quote \notin ToSet(head)
  BY FixedTexts, OnePlain, Zenon
<1>5. Text(insert) /\ Quote \notin ToSet(insert)
  BY <1>3, FixedTexts, TwoNumbersPlain, Zenon
<1>6. Text(action)
  <2>1. <<"insert">> \in Seq({"insert"})
    OBVIOUS
  <2> QED
    BY <2>1, TextOf
<1>7. api_build_success_response
        = (<<head>> \o json_buffer_append_json_string(action)) \o <<insert>>
  BY <1>1, Zenon
<1> HIDE DEF head, action, insert, other, otherRead
<1>8. AnswerRead = (Plain(head) \o Str(action)) \o Plain(insert)
  <2> HIDE DEF read
  <2>1. AnswerRead = read
    BY <1>2
  <2> QED
    BY <2>1 DEF read
<1>9. /\ Conveys(<<head>>, Plain(head)) /\ Conveys(<<insert>>, Plain(insert))
      /\ Conveys(json_buffer_append_json_string(action), Str(action))
  BY <1>4, <1>5, <1>6, PlainConveys, StringConveys
<1>10. Conveys(<<head>> \o json_buffer_append_json_string(action), Plain(head) \o Str(action))
  BY ONLY <1>9, ConveysJoin
<1>11. Conveys((<<head>> \o json_buffer_append_json_string(action)) \o <<insert>>,
               (Plain(head) \o Str(action)) \o Plain(insert))
  BY ONLY <1>9, <1>10, ConveysJoin
<1> QED
  BY <1>7, <1>8, <1>11, Zenon

(***************************************************************************)
(* The answer to a SELECT says the rows, and how many they are.            *)
(***************************************************************************)
LEMMA SelectConveys ==
  ASSUME sql_result.action = "select", parse_result.type \in SelectGoal,
         sql_result.rows \in Seq(Rec), meant.rows = sql_result.rows,
         sql_result.row_count = Len(sql_result.rows)
  PROVE  Conveys(api_build_success_response, AnswerRead)
<1> DEFINE head == <<"{ok:true,action:">>
           action == <<"select">>
           select == <<",row_count:">> \o Decimal(Len(meant.rows)) \o <<",rows:[">>
           last == <<"]}">>
           rows == api_append_rows(sql_result.rows)
           other == <<<<",inserted_id:">> \o Decimal(sql_result.inserted_id)
                      \o <<",row_count:">> \o Decimal(sql_result.row_count) \o <<"}">>>>
           otherRead == Plain(<<"{ok:true,action:">>) \o Str(<<"insert">>)
                        \o Plain(<<",inserted_id:">> \o Decimal(Len(table))
                                 \o <<",row_count:">> \o Decimal(1) \o <<"}">>)
           read == Plain(head) \o Str(action) \o Plain(select) \o RowsRead(meant.rows)
                   \o Plain(last)
<1>1. api_build_success_response
        = <<head>> \o json_buffer_append_json_string(<<sql_result.action>>) \o
          (IF sql_result.action = "insert" THEN other
           ELSE <<<<",row_count:">> \o Decimal(sql_result.row_count) \o <<",rows:[">>>>
                \o rows \o <<last>>)
  BY Zenon DEF api_build_success_response
<1>2. AnswerRead = CASE parse_result.type = "INSERT" -> otherRead
                     [] parse_result.type \in {"SELECT_ALL", "SELECT_BY_ID",
                          "SELECT_BY_AGE", "SELECT_BY_NAME"} -> read
  BY DEF AnswerRead
<1>3. Len(meant.rows) \in Int
  OBVIOUS
<1>4. Text(head) /\ Quote \notin ToSet(head) /\ Text(last) /\ Quote \notin ToSet(last)
  BY FixedTexts, OnePlain, Zenon
<1>5. Text(select) /\ Quote \notin ToSet(select)
  BY <1>3, FixedTexts, NumberPlain, Zenon
<1>6. Text(action)
  <2>1. <<"select">> \in Seq({"select"})
    OBVIOUS
  <2> QED
    BY <2>1, TextOf
<1>7. "select" # "insert"
  OBVIOUS
<1>8. api_build_success_response
        = (<<head>> \o json_buffer_append_json_string(action)) \o
          ((<<select>> \o rows) \o <<last>>)
  BY <1>1, <1>7, Zenon
<1> HIDE DEF head, action, select, last, rows, other, otherRead
<1>9. AnswerRead = (((Plain(head) \o Str(action)) \o Plain(select)) \o RowsRead(meant.rows))
                   \o Plain(last)
  <2> HIDE DEF read
  <2>1. AnswerRead = read
    BY <1>2 DEF SelectGoal
  <2> QED
    BY <2>1 DEF read
<1>10. /\ Conveys(<<head>>, Plain(head)) /\ Conveys(<<select>>, Plain(select))
       /\ Conveys(<<last>>, Plain(last))
       /\ Conveys(json_buffer_append_json_string(action), Str(action))
  BY <1>4, <1>5, <1>6, PlainConveys, StringConveys
<1>11. PICK json, a, b, c, d, e :
         /\ json = json_buffer_append_json_string(action)
         /\ a = Plain(head) /\ b = Str(action) /\ c = Plain(select)
         /\ d = RowsRead(meant.rows) /\ e = Plain(last)
  OBVIOUS
<1>12. Conveys(rows, d)
  BY <1>11, RowsConvey DEF rows
<1>13. /\ Conveys(<<head>>, a) /\ Conveys(<<select>>, c) /\ Conveys(<<last>>, e)
       /\ Conveys(json, b)
  BY <1>10, <1>11, Zenon
<1>14. Conveys(<<head>> \o json, a \o b)
  BY ONLY <1>13, ConveysJoin
<1>15. Conveys(<<select>> \o rows, c \o d)
  BY ONLY <1>12, <1>13, ConveysJoin
<1>16. Conveys((<<select>> \o rows) \o <<last>>, (c \o d) \o e)
  BY ONLY <1>13, <1>15, ConveysJoin
<1>17. Conveys((<<head>> \o json) \o ((<<select>> \o rows) \o <<last>>),
               (a \o b) \o ((c \o d) \o e))
  BY ONLY <1>14, <1>16, ConveysJoin
<1>18. Text(a \o b) /\ Text(c) /\ Text(d) /\ Text(e) /\ Text(c \o d)
  BY <1>12, <1>13, <1>14, <1>15 DEF Conveys
<1> DEFINE Regroups(p, q, r) == (p \o q) \o r = p \o (q \o r)
<1>19. \A p, q, r : Text(p) /\ Text(q) /\ Text(r) => Regroups(p, q, r)
  BY TextsAssociate
<1>20. Regroups(a \o b, c \o d, e) /\ Regroups(a \o b, c, d)
  <2> HIDE DEF Regroups
  <2> QED
    BY <1>18, <1>19, Zenon
<1>21. (((a \o b) \o c) \o d) \o e = (a \o b) \o ((c \o d) \o e)
  BY <1>20, Zenon
<1> QED
  BY <1>8, <1>9, <1>11, <1>17, <1>21, Zenon

(***************************************************************************)
(* The answer to a text that was refused says why, and quotes it.          *)
(***************************************************************************)
LEMMA ErrorConveys ==
  ASSUME sql_result.status = parse_result.status, parse_result.near \in Seq(STRING),
         parse_result.error_code \in Nat,
         parse_result.error_code = 1064 <=> parse_result.status = "SYNTAX_ERROR"
  PROVE  Conveys(api_build_error_response, ErrorRead)
<1> DEFINE head == <<"{ok:false,status:">>
           code == <<",error_code:">> \o Decimal(parse_result.error_code) \o <<",sql_state:">>
           middle == <<",message:">>
           last == <<"}">>
           word == IF parse_result.status = "SYNTAX_ERROR" THEN "42000" ELSE "42S22"
           status == <<parse_result.status>>
           state == <<word>>
           A == json_buffer_append_json_string(status)
           B == json_buffer_append_json_string(state)
           C == json_buffer_append_json_string(ErrorMessage)
           w == IF parse_result.error_code = 1064 THEN "42000" ELSE "42S22"
<1>1. w = word
  OBVIOUS
<1>2. api_build_error_response
        = <<head>> \o json_buffer_append_json_string(<<sql_result.status>>) \o <<code>>
          \o json_buffer_append_json_string(<<w>>) \o <<middle>> \o C \o <<last>>
  BY DEF api_build_error_response
<1>3. api_build_error_response
        = (((((<<head>> \o A) \o <<code>>) \o B) \o <<middle>>) \o C) \o <<last>>
  <2>1. json_buffer_append_json_string(<<sql_result.status>>) = A
    BY Zenon
  <2>2. json_buffer_append_json_string(<<w>>) = B
    <3> HIDE DEF w, word
    <3> QED
      BY <1>1, Zenon
  <2> HIDE DEF w, word, head, code, middle, last, A, B, C
  <2> QED
    BY <1>2, <2>1, <2>2, Zenon
<1>4. ErrorRead = (((((Plain(head) \o Str(status)) \o Plain(code)) \o Str(state))
                    \o Plain(middle)) \o Str(ErrorMessage)) \o Plain(last)
  BY DEF ErrorRead
<1>5. parse_result.error_code \in Int
  OBVIOUS
<1>6. /\ Text(head) /\ Quote \notin ToSet(head) /\ Text(middle) /\ Quote \notin ToSet(middle)
      /\ Text(last) /\ Quote \notin ToSet(last)
  BY FixedTexts, OnePlain, Zenon
<1>7. Text(code) /\ Quote \notin ToSet(code)
  <2>1. ",error_code:" # Quote /\ ",sql_state:" # Quote
    BY ONLY FixedTexts, Zenon
  <2> QED
    BY ONLY <1>5, <2>1, NumberPlain, Zenon
<1> HIDE DEF head, code, middle, last, word
<1>8. Text(status) /\ Text(state) /\ Text(ErrorMessage)
  <2>1. ASSUME NEW x PROVE Text(<<x>>)
    <3>1. <<x>> \in Seq({x})
      OBVIOUS
    <3> QED
      BY <3>1, TextOf
  <2>2. Text(parse_result.near)
    BY TextOf
  <2> QED
    BY <2>1, <2>2, TextJoins DEF ErrorMessage
<1> HIDE DEF status, state
<1>9. PICK h, c, m, l, a, b, e :
         /\ h = Plain(head) /\ c = Plain(code) /\ m = Plain(middle) /\ l = Plain(last)
         /\ a = Str(status) /\ b = Str(state) /\ e = Str(ErrorMessage)
  OBVIOUS
<1>10. /\ Conveys(<<head>>, h) /\ Conveys(<<code>>, c) /\ Conveys(<<middle>>, m)
       /\ Conveys(<<last>>, l) /\ Conveys(A, a) /\ Conveys(B, b) /\ Conveys(C, e)
  BY <1>6, <1>7, <1>8, <1>9, PlainConveys, StringConveys
<1> HIDE DEF A, B, C
<1>11. Conveys(<<head>> \o A, h \o a)
  BY ONLY <1>10, ConveysJoin
<1>12. Conveys((<<head>> \o A) \o <<code>>, (h \o a) \o c)
  BY ONLY <1>10, <1>11, ConveysJoin
<1>13. Conveys(((<<head>> \o A) \o <<code>>) \o B, ((h \o a) \o c) \o b)
  BY ONLY <1>10, <1>12, ConveysJoin
<1>14. Conveys((((<<head>> \o A) \o <<code>>) \o B) \o <<middle>>, (((h \o a) \o c) \o b) \o m)
  BY ONLY <1>10, <1>13, ConveysJoin
<1>15. Conveys(((((<<head>> \o A) \o <<code>>) \o B) \o <<middle>>) \o C,
               ((((h \o a) \o c) \o b) \o m) \o e)
  BY ONLY <1>10, <1>14, ConveysJoin
<1>16. Conveys((((((<<head>> \o A) \o <<code>>) \o B) \o <<middle>>) \o C) \o <<last>>,
               (((((h \o a) \o c) \o b) \o m) \o e) \o l)
  BY ONLY <1>10, <1>15, ConveysJoin
<1>17. ErrorRead = (((((h \o a) \o c) \o b) \o m) \o e) \o l
  BY <1>4, <1>9, Zenon
<1> QED
  BY <1>3, <1>16, <1>17, Zenon

-----------------------------------------------------------------------------
(* The answer, from the statement to its body.                             *)

\* The parser has refused the text.
Faulty == /\ parse_result.type = "NONE"
           /\ \/ parse_result.status = "SYNTAX_ERROR" /\ parse_result.error_code = 1064
              \/ parse_result.status = "QUERY_ERROR" /\ parse_result.error_code = 1054

Verdict == /\ at = "rejected" => Faulty
           /\ at = "parsed" => parse_result.status = IF goal = "EXIT" THEN "EXIT" ELSE "OK"

\* What the response will be about.
Outcome ==
  \/ sql_result.status \in {"ERROR", "EXIT"}
  \/ sql_result.status = parse_result.status /\ Faulty
  \/ /\ sql_result.status = "OK" /\ sql_result.action = "insert"
     /\ sql_result.inserted_id = Len(table) /\ sql_result.row_count = 1
     /\ parse_result.type = "INSERT"
  \/ /\ sql_result.status \in {"OK", "NOT_FOUND"} /\ sql_result.action = "select"
     /\ sql_result.row_count = Len(sql_result.rows)
     /\ parse_result.type \in SelectGoal

Expected == IF parse_result.type # "NONE" THEN AnswerRead ELSE ErrorRead

\* What is in the buffer and what is still to come say what is expected.
Building ==
  phase = "build" /\ answer.http_status = 200 /\ meant.in_range =>
    \E m, d : /\ Reads(Start, buffer.data, m)
              /\ ReadsAll(m, todo, Reader("outside", d, Expected))

Answering ==
  /\ Verdict
  /\ phase # "done" => answer.returned = 0
  /\ phase = "init" => Outcome
  /\ Building
  /\ AnswerIsReadable

(***************************************************************************)
(* The parser gives the reason when it refuses.                            *)
(***************************************************************************)
LEMMA VerdictStep == ASSUME ParserTypes, Verdict, ParserStep PROVE Verdict'
<1>1. CASE SyntaxError \/ UnknownColumn
  <2>1. /\ at' = "rejected" /\ parse_result'.type = "NONE"
        /\ \/ parse_result'.status = "SYNTAX_ERROR" /\ parse_result'.error_code = 1064
           \/ parse_result'.status = "QUERY_ERROR" /\ parse_result'.error_code = 1054
    BY <1>1 DEF SyntaxError, UnknownColumn, Reject
  <2> QED
    BY <2>1 DEF Verdict, Faulty
<1>2. CASE at' \notin Final
  BY <1>2 DEF Verdict, Final
<1>3. CASE \E t \in Token : Write(t)
  BY <1>2, <1>3 DEF Write, Final
<1>4. CASE sql_skip_spaces
  BY <1>2, <1>4 DEF sql_skip_spaces, Final
<1>5. CASE sql_parse
  BY <1>1, <1>2, <1>5 DEF sql_parse, Enter, Final
<1>6. CASE sql_match_statement_end
  <2>1. CASE /\ at' = "parsed"
             /\ parse_result' = [type |-> goal, error_code |-> 0, near |-> <<>>,
                                 status |-> IF goal = "EXIT" THEN "EXIT" ELSE "OK"]
             /\ UNCHANGED <<text, cursor, goal, command>>
    <3>1. at' = "parsed" /\ goal' = goal
          /\ parse_result'.status = IF goal = "EXIT" THEN "EXIT" ELSE "OK"
      BY <2>1
    <3> QED
      BY <3>1 DEF Verdict
  <2> QED
    BY <1>1, <1>2, <1>6, <2>1 DEF sql_match_statement_end, Enter, Final
<1>7. CASE sql_parse_insert
  <2>1. InsertStep
    BY <1>7, InsertSteps
  <2> QED
    BY <1>1, <1>2, <2>1 DEF InsertStep, Advance, InsertPlace, Final
<1>8. CASE sql_parse_select
  <2>1. SelectStep
    BY <1>8, SelectSteps
  <2> QED
    BY <1>1, <1>2, <2>1 DEF SelectStep, Advance, SelectPlace, Final
<1> QED
  BY <1>3, <1>4, <1>5, <1>6, <1>7, <1>8 DEF ParserStep

(***************************************************************************)
(* The response says what is expected, before any of it is written.        *)
(***************************************************************************)
LEMMA ResponseConveys ==
  ASSUME ParserTypes, Values, Outcome, meant.in_range, phase = "init",
         ExecutesWhatIsWritten, HttpStatus = 200
  PROVE  Conveys(Response, Expected)
<1>1. /\ parse_result.near \in Seq(STRING) /\ parse_result.error_code \in Nat
      /\ table \in Seq(Rec) /\ sql_result.rows \in Seq(Rec)
  BY DEF ParserTypes, Values
<1>2. sql_result.status \notin {"ERROR", "EXIT"}
  BY DEF HttpStatus
<1>3. CASE sql_result.status = parse_result.status /\ Faulty
  <2>1. Response = api_build_error_response
    <3> DEFINE a == api_build_success_response
               b == api_build_error_response
    <3> HIDE DEF a, b
    <3>1. sql_result.status \in {"SYNTAX_ERROR", "QUERY_ERROR"}
      BY <1>3 DEF Faulty
    <3>2. Response = CASE sql_result.status \in {"OK", "NOT_FOUND"} -> a
                       [] sql_result.status \in {"SYNTAX_ERROR", "QUERY_ERROR"} -> b
                       [] sql_result.status = "ERROR" -> <<<<"internal_error">>>>
                       [] sql_result.status = "EXIT"  -> <<<<"exit_not_supported">>>>
      BY DEF Response, a, b
    <3> QED
      BY <3>1, <3>2 DEF b
  <2>2. Expected = ErrorRead
    BY <1>3, Zenon DEF Expected, Faulty
  <2>3. parse_result.error_code = 1064 <=> parse_result.status = "SYNTAX_ERROR"
    BY <1>3 DEF Faulty
  <2>4. Conveys(api_build_error_response, ErrorRead)
    BY <1>1, <1>3, <2>3, ErrorConveys
  <2> QED
    BY <2>1, <2>2, <2>4, Zenon
<1>4. CASE sql_result.status \in {"OK", "NOT_FOUND"} /\ parse_result.type # "NONE"
           /\ Conveys(api_build_success_response, AnswerRead)
  <2>1. Response = api_build_success_response
    <3> DEFINE a == api_build_success_response
               b == api_build_error_response
    <3> HIDE DEF a, b
    <3>1. Response = CASE sql_result.status \in {"OK", "NOT_FOUND"} -> a
                       [] sql_result.status \in {"SYNTAX_ERROR", "QUERY_ERROR"} -> b
                       [] sql_result.status = "ERROR" -> <<<<"internal_error">>>>
                       [] sql_result.status = "EXIT"  -> <<<<"exit_not_supported">>>>
      BY DEF Response, a, b
    <3> QED
      BY <1>4, <3>1 DEF a
  <2>2. Expected = AnswerRead
    BY <1>4, Zenon DEF Expected
  <2> QED
    BY <1>4, <2>1, <2>2, Zenon
<1>5. CASE /\ sql_result.status = "OK" /\ sql_result.action = "insert"
           /\ sql_result.inserted_id = Len(table) /\ sql_result.row_count = 1
           /\ parse_result.type = "INSERT"
  <2>1. Conveys(api_build_success_response, AnswerRead)
    BY <1>1, <1>5, InsertConveys
  <2> QED
    BY <1>4, <1>5, <2>1
<1>6. CASE /\ sql_result.status \in {"OK", "NOT_FOUND"} /\ sql_result.action = "select"
           /\ sql_result.row_count = Len(sql_result.rows)
           /\ parse_result.type \in SelectGoal
  <2>1. sql_result.rows = meant.rows
    BY <1>6 DEF ExecutesWhatIsWritten, ResultAsWritten
  <2>2. Conveys(api_build_success_response, AnswerRead)
    BY <1>1, <1>6, <2>1, SelectConveys
  <2>3. parse_result.type # "NONE"
    BY <1>6 DEF SelectGoal
  <2> QED
    BY <1>4, <1>6, <2>2, <2>3
<1> QED
  BY <1>2, <1>3, <1>5, <1>6 DEF Outcome

(***************************************************************************)
(* What is expected depends on the statement, its result and the table.    *)
(***************************************************************************)
LEMMA ExpectedStays ==
  ASSUME UNCHANGED <<parse_result, table, meant>> PROVE Expected' = Expected
<1>1. parse_result' = parse_result /\ table' = table /\ meant' = meant
  OBVIOUS
<1>2. ErrorMessage' = ErrorMessage
  BY <1>1, Zenon DEF ErrorMessage
<1>3. ErrorRead' = ErrorRead
  BY <1>1, <1>2, Zenon DEF ErrorRead
<1>4. AnswerRead' = AnswerRead
  BY <1>1, Zenon DEF AnswerRead
<1> QED
  BY <1>1, <1>3, <1>4, Zenon DEF Expected

(***************************************************************************)
(* A piece moves from what is to come to what is in the buffer.            *)
(***************************************************************************)
LEMMA BuildingStep ==
  ASSUME Values, Building, AppendPiece PROVE Building'
<1>1. /\ phase = "build" /\ todo # <<>> /\ todo' = Tail(todo)
      /\ json_buffer_append(Head(todo))
      /\ UNCHANGED <<parserVars, meant, phase, table, sql_result, answer>>
  BY DEF AppendPiece
<1>2. /\ buffer = [data |-> buffer.data, cap |-> buffer.cap, held |-> TRUE]
      /\ Text(buffer.data) /\ Pieces(todo)
  BY <1>1 DEF Values
<1>3. Text(todo) /\ Text(Head(todo))
  <2>1. Text(todo) /\ \A p \in ToSet(todo) : Text(p)
    BY <1>2 DEF Pieces
  <2>2. PICK S : S = ToSet(todo)
    OBVIOUS
  <2>3. todo \in Seq(S)
    BY <2>1, <2>2 DEF Text
  <2>4. Head(todo) \in S
    BY <1>1, <2>3
  <2> QED
    BY <2>1, <2>2, <2>4
<1>4. buffer'.data = buffer.data \o Head(todo)
  BY <1>1, <1>2 DEF json_buffer_append
<1>5. Expected' = Expected
  BY <1>1, ExpectedStays DEF parserVars
<1> SUFFICES ASSUME answer.http_status = 200, meant.in_range
             PROVE  \E m, d : /\ Reads(Start, buffer'.data, m)
                              /\ ReadsAll(m, todo', Reader("outside", d, Expected'))
  BY <1>1 DEF Building
<1>6. PICK m, d : /\ Reads(Start, buffer.data, m)
                  /\ ReadsAll(m, todo, Reader("outside", d, Expected))
  BY <1>1 DEF Building
<1>7. PICK q : q = Reader("outside", d, Expected)
  OBVIOUS
<1>8. PICK n : Reads(m, Head(todo), n) /\ ReadsAll(n, Tail(todo), q)
  BY <1>1, <1>3, <1>6, <1>7, ReadsFirst
<1>9. Reads(Start, buffer.data \o Head(todo), n)
  BY ONLY <1>2, <1>3, <1>6, <1>8, ReadsJoin
<1> QED
  BY <1>1, <1>4, <1>5, <1>7, <1>8, <1>9, Zenon

(***************************************************************************)
(* The first piece is still to come.                                       *)
(***************************************************************************)
LEMMA BuildingBegins ==
  ASSUME ParserTypes, Values, Memory, Outcome, ExecutesWhatIsWritten, BeginResponse
  PROVE  Building'
<1>1. /\ phase = "init" /\ todo' = Response
      /\ buffer' = [data |-> <<>>, cap |-> INITIAL_CAP, held |-> TRUE]
      /\ answer' = [answer EXCEPT !.http_status = HttpStatus]
      /\ UNCHANGED <<parserVars, meant, table, sql_result>>
  BY DEF BeginResponse, json_buffer_init
<1>2. answer'.http_status = HttpStatus
  <2>1. PICK h, b, l, r : answer = [http_status |-> h, body |-> b, held |-> l, returned |-> r]
    BY DEF Memory
  <2> QED
    BY <1>1, <2>1
<1>3. Expected' = Expected
  BY <1>1, ExpectedStays DEF parserVars
<1> SUFFICES ASSUME answer'.http_status = 200, meant'.in_range
             PROVE  \E m, d : /\ Reads(Start, buffer'.data, m)
                              /\ ReadsAll(m, todo', Reader("outside", d, Expected'))
  BY DEF Building
<1>4. Conveys(Response, Expected)
  BY <1>1, <1>2, ResponseConveys
<1>5. Text(<<>>) /\ Text(Expected)
  BY <1>4, PiecesFacts DEF Pieces, Conveys
<1>6. PICK d : ReadsAll(Reader("outside", <<>>, <<>>), Response,
                        Reader("outside", d, <<>> \o Expected))
  BY <1>4, <1>5, Zenon DEF Conveys
<1>7. <<>> \o Expected = Expected
  <2>1. PICK e : e = Expected
    OBVIOUS
  <2>2. e \in Seq(ToSet(e))
    BY <1>5, <2>1 DEF Text
  <2>3. <<>> \o e = e
    BY ONLY <2>2, ConcatEmptySeq
  <2> QED
    BY <2>1, <2>3, Zenon
<1>8. ReadsAll(Start, Response, Reader("outside", d, Expected))
  BY <1>6, <1>7, Zenon DEF Start
<1>9. Reads(Start, <<>>, Start)
  BY ReadsFew, Zenon
<1>10. buffer'.data = <<>>
  BY <1>1
<1> QED
  BY <1>1, <1>3, <1>8, <1>9, <1>10, Zenon

(***************************************************************************)
(* The last piece has been appended: what is read is what is expected.     *)
(***************************************************************************)
LEMMA AnswerComplete ==
  ASSUME Values, Memory, Building, Finish PROVE AnswerIsReadable'
<1>1. /\ phase = "build" /\ todo = <<>>
      /\ answer' = [answer EXCEPT !.body = buffer.data, !.held = TRUE, !.returned = 1]
      /\ UNCHANGED <<parserVars, meant, table>>
  BY DEF Finish
<1>2. answer'.http_status = answer.http_status /\ answer'.body = buffer.data
  <2>1. PICK h, b, l, r : /\ h = answer.http_status
                          /\ answer = [http_status |-> h, body |-> b, held |-> l,
                                       returned |-> r]
    BY DEF Memory
  <2> QED
    BY <1>1, <2>1
<1>3. Expected' = Expected
  BY <1>1, ExpectedStays DEF parserVars
<1>4. ASSUME answer'.http_status = 200, meant'.in_range
      PROVE  Read(answer'.body).mode = "outside" /\ Read(answer'.body).read = Expected'
  <2>1. PICK m, d : /\ Reads(Start, buffer.data, m)
                    /\ ReadsAll(m, todo, Reader("outside", d, Expected))
    BY <1>1, <1>2, <1>4 DEF Building
  <2>2. m = Reader("outside", d, Expected)
    BY <1>1, <2>1, ReadsFew, Zenon
  <2>3. Text(buffer.data)
    BY <1>1 DEF Values
  <2>4. Read(buffer.data) = m
    BY ONLY <2>1, <2>3, ReadFacts
  <2>5. m.mode = "outside" /\ m.read = Expected
    BY <2>2 DEF Reader
  <2> QED
    BY <1>2, <1>3, <2>4, <2>5, Zenon
<1> QED
  BY <1>4, Zenon DEF AnswerIsReadable, Expected

(***************************************************************************)
(* What the statements are executed to is what the response is about.      *)
(***************************************************************************)
LEMMA OutcomeStep ==
  ASSUME ParserTypes, Origin, Values, Verdict,
         NothingToExecute \/ ExecuteFails \/ sql_execute_insert_plan
           \/ sql_execute_select_plan
  PROVE  Outcome'
<1>1. CASE NothingToExecute
  <2>1. /\ at \in Final /\ ~Executable
        /\ sql_result' = [NoSqlResult EXCEPT !.status = parse_result.status]
        /\ parse_result' = parse_result
    BY <1>1 DEF NothingToExecute, ParserReturns
  <2>2. sql_result'.status = parse_result.status
    BY <2>1 DEF NoSqlResult
  <2>3. CASE at = "rejected"
    BY <2>1, <2>2, <2>3 DEF Verdict, Faulty, Outcome
  <2>4. CASE at = "parsed"
    BY <2>1, <2>2, <2>4 DEF Verdict, Executable, Origin, Outcome
  <2> QED
    BY <2>1, <2>3, <2>4 DEF Final
<1>2. CASE ExecuteFails
  BY <1>2 DEF ExecuteFails, NoSqlResult, Outcome
<1>3. CASE sql_execute_insert_plan
  <2>1. PICK row : /\ row.id = Len(table) + 1 /\ table' = Append(table, row)
                   /\ sql_result' = [NoSqlResult EXCEPT !.status = "OK", !.action = "insert",
                                        !.inserted_id = row.id, !.row_count = 1]
    BY <1>3 DEF sql_execute_insert_plan
  <2>2. parse_result' = parse_result /\ parse_result.type = "INSERT"
    BY <1>3 DEF sql_execute_insert_plan, ParserReturns
  <2>3. Len(table') = Len(table) + 1
    BY <2>1 DEF Values
  <2>4. /\ sql_result'.status = "OK" /\ sql_result'.action = "insert"
        /\ sql_result'.inserted_id = row.id /\ sql_result'.row_count = 1
    BY <2>1 DEF NoSqlResult
  <2> QED
    BY <2>1, <2>2, <2>3, <2>4 DEF Outcome
<1>4. CASE sql_execute_select_plan
  <2>1. PICK found : sql_result' = [NoSqlResult EXCEPT
                                      !.status = IF found = <<>> THEN "NOT_FOUND" ELSE "OK",
                                      !.action = "select", !.rows = found,
                                      !.row_count = Len(found), !.records = found # <<>>]
    BY <1>4 DEF sql_execute_select_plan
  <2>2. /\ parse_result' = parse_result /\ at = "parsed"
        /\ parse_result.type \notin {"INSERT", "EXIT"}
    BY <1>4 DEF sql_execute_select_plan, ParserReturns, Executable
  <2>3. parse_result.type \in SelectGoal
    BY <2>2 DEF Origin, Begun
  <2>4. /\ sql_result'.status \in {"OK", "NOT_FOUND"} /\ sql_result'.action = "select"
        /\ sql_result'.row_count = Len(sql_result'.rows)
    BY <2>1 DEF NoSqlResult
  <2> QED
    BY <2>2, <2>3, <2>4 DEF Outcome
<1> QED
  BY <1>1, <1>2, <1>3, <1>4

(***************************************************************************)
(* Every step keeps what is to be said.                                    *)
(***************************************************************************)
LEMMA AnsweringStep ==
  ASSUME Inv, ExecutesWhatIsWritten, Answering, Next PROVE Answering'
<1>1. /\ ParserTypes /\ Origin /\ Values /\ Memory /\ Verdict /\ Building
      /\ AnswerIsReadable
      /\ phase # "done" => answer.returned = 0
      /\ phase = "init" => Outcome
  BY DEF Inv, Answering
<1>2. ASSUME UNCHANGED parserVars PROVE Verdict'
  BY <1>1, <1>2 DEF parserVars, Verdict, Faulty
<1>3. ASSUME ParserReturns PROVE Verdict'
  BY <1>3 DEF ParserReturns, Verdict
<1>4. ASSUME phase' # "init", phase' # "build", Verdict', answer'.returned = 0
      PROVE  Answering'
  BY <1>4 DEF Answering, Building, AnswerIsReadable
<1>5. CASE CreateTable \/ NextBucket \/ TableReady \/ DestroyTable
  <2>1. /\ phase \notin {"init", "build", "done"} /\ phase' \notin {"init", "build"}
        /\ UNCHANGED <<parserVars, answer>>
    BY <1>5 DEF CreateTable, NextBucket, TableReady, DestroyTable, Manages
  <2> QED
    BY <1>1, <1>2, <1>4, <2>1
<1>6. CASE EndOfInput \/ ShowResult \/ NoResponse \/ GiveUp
  <2>1. /\ phase # "done" /\ phase' \notin {"init", "build"}
        /\ UNCHANGED <<parserVars, answer>>
    BY <1>6 DEF EndOfInput, ShowResult, NoResponse, GiveUp
  <2> QED
    BY <1>1, <1>2, <1>4, <2>1
<1>7. CASE api_result_destroy
  <2>1. phase' = "idle" /\ UNCHANGED parserVars /\ answer'.returned = 0
    BY <1>7 DEF api_result_destroy, NoAnswer
  <2> QED
    BY <1>2, <1>4, <2>1
<1>8. CASE Begin
  <2>1. phase = "idle" /\ phase' = "parse" /\ at' = at /\ answer' = answer
    BY <1>8 DEF Begin
  <2>2. at = "start"
    BY <1>1, <2>1 DEF Origin
  <2>3. Verdict'
    BY <2>1, <2>2 DEF Verdict
  <2> QED
    BY <1>1, <1>4, <2>1, <2>3
<1>9. CASE Parse
  <2>1. phase = "parse" /\ phase' = phase /\ answer' = answer /\ ParserStep
    BY <1>9 DEF Parse, ownVars
  <2>2. Verdict'
    BY <1>1, <2>1, VerdictStep
  <2> QED
    BY <1>1, <1>4, <2>1, <2>2
<1>10. CASE NothingToExecute \/ ExecuteFails \/ sql_execute_insert_plan
            \/ sql_execute_select_plan
  <2>1. /\ phase = "parse" /\ phase' \in {"init", "print"} /\ answer' = answer
        /\ ParserReturns
    BY <1>10 DEF NothingToExecute, ExecuteFails, sql_execute_insert_plan,
                 sql_execute_select_plan, Executed
  <2>2. Outcome'
    BY <1>1, <1>10, OutcomeStep
  <2>3. Verdict' /\ answer'.returned = 0
    BY <1>1, <1>3, <2>1
  <2> QED
    BY <2>1, <2>2, <2>3 DEF Answering, Building, AnswerIsReadable
<1>11. CASE BeginResponse
  <2>1. /\ phase = "init" /\ phase' = "build" /\ UNCHANGED parserVars
        /\ answer' = [answer EXCEPT !.http_status = HttpStatus]
    BY <1>11 DEF BeginResponse
  <2>2. Building'
    BY <1>1, <1>11, <2>1, BuildingBegins
  <2>3. answer'.returned = 0
    <3>1. PICK h, b, l, r : answer = [http_status |-> h, body |-> b, held |-> l, returned |-> r]
      BY <1>1 DEF Memory
    <3> QED
      BY <1>1, <2>1, <3>1
  <2> QED
    BY <1>2, <2>1, <2>2, <2>3 DEF Answering, AnswerIsReadable
<1>12. CASE AppendPiece
  <2>1. phase = "build" /\ phase' = phase /\ UNCHANGED <<parserVars, answer>>
    BY <1>12 DEF AppendPiece
  <2>2. Building'
    BY <1>1, <1>12, BuildingStep
  <2> QED
    BY <1>1, <1>2, <2>1, <2>2 DEF Answering, AnswerIsReadable
<1>13. CASE Finish
  <2>1. phase' = "done" /\ UNCHANGED parserVars
    BY <1>13 DEF Finish
  <2>2. AnswerIsReadable'
    BY <1>1, <1>13, AnswerComplete
  <2> QED
    BY <1>2, <2>1, <2>2 DEF Answering, Building
<1>14. CASE Stopped
  <2>1. phase \in {"left", "idle"} /\ phase' = phase /\ UNCHANGED <<parserVars, answer>>
    BY <1>14 DEF Stopped, vars, ownVars
  <2> QED
    BY <1>1, <1>2, <1>4, <2>1
<1> QED
  BY <1>5, <1>6, <1>7, <1>8, <1>9, <1>10, <1>11, <1>12, <1>13, <1>14 DEF Next, Serve

-----------------------------------------------------------------------------
(* The theorems.                                                           *)

(***************************************************************************)
(* The cursor stays in the text, whatever sql_parse_int stores is an int,  *)
(* and the JSON buffer has a capacity exactly while it is held.            *)
(***************************************************************************)
THEOREM TypeCorrect == Spec => []TypeOK
<1>1. Inv => TypeOK
  <2> SUFFICES ASSUME Inv PROVE TypeOK
    OBVIOUS
  <2>1. /\ cursor \in 1 .. Len(text) + 1 /\ text \in Seq(Token)
        /\ command.int_value \in INT_MIN .. INT_MAX /\ phase \in Phase
    BY DEF Inv, ParserTypes, Values, Command
  <2>2. ToSet(text) \subseteq Token
    BY <2>1, TextOf
  <2>3. buffer.held <=> buffer.cap > 0
    <3>1. CASE phase = "build"
      <4>1. /\ buffer = [data |-> buffer.data, cap |-> buffer.cap, held |-> TRUE]
            /\ Text(buffer.data) /\ buffer.cap \in Nat /\ Len(buffer.data) < buffer.cap
        BY <3>1 DEF Inv, Values
      <4>2. buffer.held
        BY <4>1
      <4>3. buffer.cap > 0
        BY <4>1 DEF Text
      <4> QED
        BY <4>2, <4>3
    <3>2. CASE phase # "build"
      BY <3>2 DEF Inv, Values, NoBuffer
    <3> QED
      BY <3>1, <3>2
  <2> QED
    BY <2>1, <2>2, <2>3 DEF TypeOK, Phase
<1> QED
  BY Invariance, <1>1, PTL

(***************************************************************************)
(* However often and by however much the JSON buffer grows, whether or not *)
(* realloc fails in between, the text in it leaves room for its            *)
(* terminating zero.                                                       *)
(***************************************************************************)
THEOREM RoomKept == Spec => []RoomForTerminator
<1>1. Inv => RoomForTerminator
  BY DEF Inv, Values, RoomForTerminator, NoBuffer
<1> QED
  BY Invariance, <1>1, PTL

(***************************************************************************)
(* On every path, failed allocations included, api_handle_query and the    *)
(* prompt free the buffer, the answer and the rows exactly once, and       *)
(* table_destroy releases every lock and index of the table, of any number *)
(* of buckets, that table_create got to.                                   *)
(***************************************************************************)
THEOREM FreedOnce == Spec => []EveryBlockFreedOnce
<1>1. Inv => EveryBlockFreedOnce
  <2> SUFFICES ASSUME Inv PROVE EveryBlockFreedOnce
    OBVIOUS
  <2>1. buffer.held <=> phase = "build"
    <3>1. CASE phase = "build"
      <4>1. buffer = [data |-> buffer.data, cap |-> buffer.cap, held |-> TRUE]
        BY <3>1 DEF Inv, Values
      <4> QED
        BY <3>1, <4>1
    <3>2. CASE phase # "build"
      BY <3>2 DEF Inv, Values, NoBuffer
    <3> QED
      BY <3>1, <3>2
  <2>2. DOMAIN heap = Block /\ \A b \in Block : heap[b] \in {"free", "live"}
    BY DEF Inv, Memory
  <2>3. /\ heap["buffer"] = "live" <=> buffer.held \/ answer.held
        /\ heap["records"] = "live" <=> sql_result.records
    BY <2>1 DEF Inv, Memory
  <2>4. phase \in {"idle", "left"} => \A b \in Block : heap[b] = "free"
    BY <2>2 DEF Inv, Memory, Block
  <2>5. phase = "left" => TableGone
    BY DEF Inv, Life, TableGone
  <2> QED
    BY <2>2, <2>3, <2>4, <2>5 DEF EveryBlockFreedOnce
<1> QED
  BY Invariance, <1>1, PTL

(***************************************************************************)
(* For a text of any length, the lock mode sql_determine_lock_mode guesses *)
(* from the first keyword, before anything is parsed, is the one the       *)
(* parsed command needs.                                                   *)
(***************************************************************************)
THEOREM LockModesAgree == Spec => []LockModeAgrees
<1>1. Inv => LockModeAgrees
  <2> SUFFICES ASSUME Inv, at = "parsed"
               PROVE  sql_determine_lock_mode(text) = sql_command_lock_mode(parse_result.type)
    BY DEF LockModeAgrees
  <2> DEFINE first == IF text[1] = Blank THEN text[2] ELSE text[1]
  <2>1. Begun /\ parse_result.type = goal
    BY DEF Inv, Origin
  <2>2. ASSUME NEW words, StartsWith(words) PROVE \E w \in words : first = Word(w)
    BY <2>2 DEF StartsWith, Word, Blank
  <2>3. CASE goal = "INSERT" /\ StartsWith({"INSERT"})
    <3>1. first = Word("INSERT")
      BY <2>2, <2>3
    <3> QED
      BY <2>1, <2>3, <3>1 DEF sql_determine_lock_mode, sql_command_lock_mode,
                              sql_match_keyword, Word
  <2>4. CASE goal \in SelectGoal /\ StartsWith({"SELECT"})
    <3>1. first = Word("SELECT")
      BY <2>2, <2>4
    <3> QED
      BY <2>1, <2>4, <3>1 DEF sql_determine_lock_mode, sql_command_lock_mode,
                              sql_match_keyword, Word, SelectGoal
  <2>5. CASE goal = "EXIT" /\ StartsWith({"EXIT", "QUIT"})
    <3>1. first = Word("EXIT") \/ first = Word("QUIT")
      BY <2>2, <2>5
    <3> QED
      BY <2>1, <2>5, <3>1 DEF sql_determine_lock_mode, sql_command_lock_mode,
                              sql_match_keyword, Word
  <2> QED
    BY <2>1, <2>3, <2>4, <2>5 DEF Begun
<1> QED
  BY Invariance, <1>1, PTL

(***************************************************************************)
(* For a text of any length, any literals and names: sql_parse accepts     *)
(* only the sentences of the language, but for a semicolon before WHERE,   *)
(* and refuses a text only when no sentence begins like it, but for white  *)
(* space before INSERT and SELECT.                                         *)
(***************************************************************************)
THEOREM LanguageAccepted == Spec => []AcceptsTheLanguage
<1>1. Inv /\ Understood => AcceptsTheLanguage
  <2> SUFFICES ASSUME Inv, Understood PROVE AcceptsTheLanguage
    OBVIOUS
  <2>1. at = "parsed" => Corrected(Heard) \in Sentence
    BY AcceptedSentence DEF Inv, Understood
  <2>2. at = "rejected" => Refused
    BY DEF Understood
  <2>3. Corrected(Heard) = IF StraySemicolon THEN RemoveAt(Heard, 5) ELSE Heard
    BY Zenon DEF Corrected, StraySemicolon, SemicolonText
  <2> QED
    BY <2>1, <2>2, <2>3, Zenon DEF AcceptsTheLanguage, Refused
<1> QED
  BY Understanding, <1>1, PTL

(***************************************************************************)
(* For texts, tables and integers of any size: the row that an INSERT      *)
(* stores has the name and the age of the text, and a SELECT finds the     *)
(* rows its clause holds for, when every integer of the text is an int.    *)
(***************************************************************************)
THEOREM WrittenExecuted == Spec => []ExecutesWhatIsWritten
<1>1. Init => ExecutesWhatIsWritten
  BY DEF Init, ExecutesWhatIsWritten
<1>2. Inv /\ Understood /\ ExecutesWhatIsWritten /\ [Next]_vars => ExecutesWhatIsWritten'
  <2> SUFFICES ASSUME Inv, Understood, ExecutesWhatIsWritten, [Next]_vars
               PROVE  ExecutesWhatIsWritten'
    OBVIOUS
  <2>1. CASE Next
    BY <2>1, WrittenStep DEF Inv
  <2>2. CASE UNCHANGED vars
    BY <2>2 DEF vars, ownVars, ExecutesWhatIsWritten, ResultAsWritten
  <2> QED
    BY <2>1, <2>2
<1> QED
  BY Understanding, <1>1, <1>2, PTL DEF Spec

(***************************************************************************)
(* For names, rows and statements of any size: whoever reads the body of a *)
(* 200 as JSON gets the rows that the statement means, the id of the new   *)
(* row or the error with the excerpt, whatever characters these hold.      *)
(***************************************************************************)
THEOREM AnswersReadable == Spec => []AnswerIsReadable
<1>1. Init => Answering
  BY DEF Init, ParserInit, Answering, Verdict, Building, AnswerIsReadable, NoAnswer
<1>2. Inv /\ ExecutesWhatIsWritten /\ Answering /\ [Next]_vars => Answering'
  <2> SUFFICES ASSUME Inv, ExecutesWhatIsWritten, Answering, [Next]_vars
               PROVE  Answering'
    OBVIOUS
  <2>1. CASE Next
    BY <2>1, AnsweringStep
  <2>2. CASE UNCHANGED vars
    <3>1. /\ UNCHANGED <<at, goal, parse_result, table, meant, phase, answer, sql_result,
                         buffer, todo>>
      BY <2>2 DEF vars, parserVars, jsonVars, ownVars
    <3>2. Expected' = Expected
      BY <3>1, ExpectedStays
    <3>3. Building' /\ Verdict' /\ (phase' = "init" => Outcome')
      BY <3>1, <3>2 DEF Answering, Building, Verdict, Faulty, Outcome
    <3>4. AnswerIsReadable'
      <4>1. AnswerIsReadable
        BY DEF Answering
      <4> QED
        BY <3>1, <3>2, <4>1, Zenon DEF AnswerIsReadable, Expected
    <3> QED
      BY <3>1, <3>3, <3>4 DEF Answering
  <2> QED
    BY <2>1, <2>2
<1>3. Answering => AnswerIsReadable
  BY DEF Answering
<1> QED
  BY Invariance, WrittenExecuted, <1>1, <1>2, <1>3, PTL DEF Spec
=============================================================================
