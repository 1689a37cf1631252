----------------------------- MODULE SqlParser -----------------------------
(***************************************************************************)
(* sql_parse of src/sql_processor/sql.c with the functions it calls.       *)
(*                                                                         *)
(* The text of a statement is a sequence of tokens: the longest runs of    *)
(* characters that every function of the parser takes or leaves as a       *)
(* whole.  A run of white space is a token too, because the code skips it  *)
(* in some places and not in others.  Words are folded to one case, as     *)
(* strcasecmp and tolower do.  The parser never looks back and never       *)
(* further ahead than the next token, so the text is made up while it is   *)
(* read: whoever sent it appends a token when the parser asks for one.     *)
(***************************************************************************)
EXTENDS Integers, Sequences, SequencesExt

CONSTANTS Literal,           \* the integers that are spelled in statements
          Name,              \* the contents of string literals
          RECORD_NAME_SIZE,  \* of table.h; a terminating zero included
          NEAR_SIZE,         \* of near_excerpt; a terminating zero included
          INT_BITS,          \* width of a C int
          LONG_BITS,         \* width of a C long
          MAX_BLANKS         \* bound: white space that does not follow a word

ASSUME WidthAssumption == /\ INT_BITS \in Nat \ {0} /\ LONG_BITS \in Nat \ {0}
                          /\ INT_BITS <= LONG_BITS
ASSUME SizeAssumption == /\ RECORD_NAME_SIZE \in Nat \ {0}
                         /\ NEAR_SIZE \in Nat \ {0} /\ MAX_BLANKS \in Nat

INT_MAX == 2 ^ (INT_BITS - 1) - 1
INT_MIN == -(2 ^ (INT_BITS - 1))
LONG_MAX == 2 ^ (LONG_BITS - 1) - 1
LONG_MIN == -(2 ^ (LONG_BITS - 1))

\* (That 2 ^ n is positive and grows with n is beyond the provers.)
ASSUME IntAssumption == INT_MAX \in Nat /\ LONG_MAX \in Nat /\ INT_MAX <= LONG_MAX
ASSUME TextAssumption == Literal \subseteq Int /\ Name \subseteq Seq(STRING)

-----------------------------------------------------------------------------
(* Tokens.  "nickname" is any other identifier, "overlong" one that does   *)
(* not fit into 32 bytes; junk is any other character, a lone minus        *)
(* included.  An open string runs into the end of the text.                *)

Word(w) == [kind |-> "word", text |-> w]
Mark(m) == [kind |-> "mark", text |-> m]
Integer(n) == [kind |-> "int", number |-> n]
String(s) == [kind |-> "string", chars |-> s]
Blank == [kind |-> "blank"]
End == [kind |-> "end"]

Vocabulary == {"INSERT", "INTO", "VALUES", "SELECT", "FROM", "WHERE", "EXIT",
               "QUIT", "users", "id", "name", "age", "nickname", "overlong"}
Comparison == {"=", "<", "<=", ">", ">="}

Token == {Word(w) : w \in Vocabulary}
         \cup {Mark(m) : m \in Comparison \cup {"(", ")", ",", "*", ";", "junk"}}
         \cup {Integer(n) : n \in Literal} \cup {String(s) : s \in Name}
         \cup {Blank, End, [kind |-> "openstring"]}

\* Written one after the other these two would be read as something else.
Merge(t, u) == \/ t.kind = "word" /\ u.kind = "word"
               \/ t.kind \in {"word", "int"} /\ u.kind = "int" /\ u.number >= 0
               \/ t = Blank /\ u = Blank
               \/ t \in {Mark("<"), Mark(">")} /\ u = Mark("=")

-----------------------------------------------------------------------------
VARIABLES
  text,          \* the statement, as far as it has been looked at
  cursor,        \* the next token
  at,            \* where sql_parse is
  goal,          \* the type the command gets if the text ends well
  command,       \* the fields of result->command
  parse_result   \* type, status, error_code and excerpt of the result

parserVars == <<text, cursor, at, goal, command, parse_result>>

\* sql_parse_result_init
NoCommand == [name |-> <<>>, int_value |-> 0, comparison |-> "==",
              where_column |-> "", text_value |-> <<>>]
NoResult == [type |-> "NONE", status |-> "SYNTAX_ERROR", error_code |-> 0,
             near |-> <<>>]

ParserInit == /\ text = <<>>
              /\ cursor = 1
              /\ at = "start"
              /\ goal = "NONE"
              /\ command = NoCommand
              /\ parse_result = NoResult

\* sql_parse has returned: only parse_result lives on.
ParserReturns == /\ text' = <<>>
                 /\ cursor' = 1
                 /\ at' = "start"
                 /\ goal' = "NONE"
                 /\ command' = NoCommand
                 /\ UNCHANGED parse_result

Final == {"parsed", "rejected"}

\* White space that does not follow a word.
Extra(s) == {i \in DOMAIN s : s[i] = Blank /\ (i > 1 => s[i - 1].kind # "word")}

\* The sender's next token.
Write(t) == /\ at \notin Final \cup {"judge"}
            /\ cursor > Len(text)
            /\ text # <<>> => ~Merge(Last(text), t)
            /\ text' = Append(text, t)
            /\ Cardinality(Extra(text')) <= MAX_BLANKS
            /\ UNCHANGED <<cursor, at, goal, command, parse_result>>

-----------------------------------------------------------------------------
(* The scanning functions, on the next token.                              *)

sql_match_keyword(t, keyword) == t = Word(keyword)
sql_match_char(t, expected) == t = Mark(expected)
sql_parse_identifier(t) == t.kind = "word" /\ t # Word("overlong")
sql_is_known_column(t) == t.text \in {"id", "name", "age"}

\* Mutant: the terminating zero is forgotten.
NameOverrun(t) == t.kind = "string" /\ Len(t.chars) <= RECORD_NAME_SIZE
sql_parse_string(t) == t.kind = "string" /\ Len(t.chars) < RECORD_NAME_SIZE

\* strtol stops at the ends of a long.
strtol(n) == IF n > LONG_MAX THEN LONG_MAX ELSE IF n < LONG_MIN THEN LONG_MIN ELSE n

\* Mutant: as if an int were as wide as a long.
NotNarrowed(l) == l
\* The assignment to *value keeps the low bits.
ToInt(l) == ((l - INT_MIN) % (INT_MAX - INT_MIN + 1)) + INT_MIN

\* Mutant: the sign is lost.
UnsignedInt(t) == ToInt(strtol(IF t.number < 0 THEN -t.number ELSE t.number))
sql_parse_int(t) == ToInt(strtol(t.number))

sql_parse_comparison(t) == IF t = Mark("=") THEN "==" ELSE t.text

\* sql_determine_lock_mode looks at the first keyword of the text itself.
sql_determine_lock_mode(s) ==
  LET first == IF s[1] = Blank THEN s[2] ELSE s[1]
  IN  CASE sql_match_keyword(first, "SELECT") -> "READ"
        [] sql_match_keyword(first, "INSERT") -> "WRITE"
        [] OTHER                              -> "NONE"

sql_command_lock_mode(type) ==
  CASE type = "INSERT" -> "WRITE"
    [] type \in {"SELECT_ALL", "SELECT_BY_ID", "SELECT_BY_NAME", "SELECT_BY_AGE"}
         -> "READ"
    [] OTHER -> "NONE"

-----------------------------------------------------------------------------
(* What a step of the parser does.                                         *)

Asks == cursor <= Len(text)
Next1 == text[cursor]
Take == cursor' = cursor + 1

Reject(status, code, excerpt) ==
  /\ at' = "rejected"
  /\ parse_result' = [type |-> "NONE", status |-> status, error_code |-> code,
                      near |-> excerpt]
  /\ UNCHANGED <<text, cursor, goal, command>>

\* sql_build_near_excerpt copies the text from the cursor to the end of the
\* line, as far as there is room.  Only a string literal holds characters
\* that matter, and of the text only the next token is kept; a literal that
\* was too long has been passed in part.
FirstLine(s) == LET ends == {i \in DOMAIN s : s[i] = "\n"}
                IN  IF ends = {} THEN s ELSE SubSeq(s, 1, Min(ends) - 1)
FromCursor == IF at \in {"name", "text_value"}
              THEN SubSeq(Next1.chars, RECORD_NAME_SIZE, Len(Next1.chars))
              ELSE Next1.chars
sql_build_near_excerpt ==
  IF ~Asks \/ Next1.kind # "string" THEN <<>>
  ELSE LET line == FirstLine(FromCursor)
       IN  SubSeq(line, 1, Min({Len(line), NEAR_SIZE - 1}))

SyntaxError == Reject("SYNTAX_ERROR", 1064, sql_build_near_excerpt)
UnknownColumn == Reject("QUERY_ERROR", 1054, <<>>)

\* Every place but the first is reached through sql_skip_spaces.
sql_skip_spaces == /\ at \notin Final \cup {"start"}
                   /\ Asks /\ Next1 = Blank
                   /\ Take
                   /\ UNCHANGED <<text, at, goal, command, parse_result>>

At(here) == at = here /\ Asks /\ Next1 # Blank

\* Take the token that fits and go on with the command so filled in, or give
\* up with the cursor where it is.
Expect(here, Fits(_), there, filled) ==
  /\ At(here)
  /\ \/ /\ Fits(Next1)
        /\ Take
        /\ at' = there
        /\ command' = filled
        /\ UNCHANGED <<text, goal, parse_result>>
     \/ ~Fits(Next1) /\ SyntaxError

Keyword(here, w, there) ==
  Expect(here, LAMBDA t : sql_match_keyword(t, w), there, command)
Char(here, c, there) ==
  Expect(here, LAMBDA t : sql_match_char(t, c), there, command)
TableName(here, there) ==
  Expect(here, LAMBDA t : sql_parse_identifier(t) /\ t = Word("users"), there,
         command)

Enter(there, type) == /\ Take
                      /\ at' = there
                      /\ goal' = type
                      /\ UNCHANGED <<text, command, parse_result>>

IsExit(t) == sql_match_keyword(t, "EXIT") \/ sql_match_keyword(t, "QUIT")

\* sql_parse skips white space before EXIT and QUIT only: sql_parse_insert
\* and sql_parse_select get the text from its very beginning.
sql_parse ==
  /\ at \in {"start", "blank"} /\ Asks
  /\ \/ /\ at = "start" /\ Next1 = Blank
        /\ Enter("blank", "NONE")
     \/ IsExit(Next1) /\ Enter("end", "EXIT")
     \/ /\ at = "start" /\ sql_match_keyword(Next1, "INSERT")
        /\ Enter("into", "INSERT")
     \/ /\ at = "start" /\ sql_match_keyword(Next1, "SELECT")
        /\ Enter("fields", "SELECT_ALL")
     \/ /\ Next1 # Blank /\ ~IsExit(Next1)
        /\ at = "start" => Next1 \notin {Word("INSERT"), Word("SELECT")}
        /\ SyntaxError

\* An optional semicolon, white space, the end.  After FROM users this is
\* only a test: if the text does not end, WHERE is looked for, and a
\* semicolon that has been passed stays passed.
sql_match_statement_end ==
  /\ at \in {"end", "semicolon"} /\ Asks /\ Next1 # Blank
  /\ \/ /\ Next1 = End
        /\ at' = "parsed"
        /\ parse_result' = [type |-> goal, error_code |-> 0, near |-> <<>>,
                            status |-> IF goal = "EXIT" THEN "EXIT" ELSE "OK"]
        /\ UNCHANGED <<text, cursor, goal, command>>
     \/ at = "end" /\ Next1 = Mark(";") /\ Enter("semicolon", goal)
     \/ /\ Next1 # End
        /\ at = "end" => Next1 # Mark(";")
        /\ IF goal = "SELECT_ALL"
           THEN at' = "where" /\ UNCHANGED <<text, cursor, goal, command, parse_result>>
           ELSE SyntaxError

-----------------------------------------------------------------------------
(* sql_parse_insert: INTO users VALUES ( name , age )                      *)

sql_parse_insert ==
  \/ Keyword("into", "INTO", "insert_table")
  \/ TableName("insert_table", "values")
  \/ Keyword("values", "VALUES", "open")
  \/ Char("open", "(", "name")
  \/ Expect("name", sql_parse_string, "comma",
            [command EXCEPT !.name = Next1.chars])
  \/ Char("comma", ",", "age")
  \/ Expect("age", LAMBDA t : t.kind = "int", "close",
            [command EXCEPT !.int_value = sql_parse_int(Next1)])
  \/ Char("close", ")", "end")

-----------------------------------------------------------------------------
(* sql_parse_select: * FROM users [WHERE column comparison value]          *)

\* Only * can be selected; a column is told apart from an unknown one.
SelectFields ==
  /\ At("fields")
  /\ \/ sql_match_char(Next1, "*") /\ Enter("from", goal)
     \/ /\ sql_parse_identifier(Next1) /\ ~sql_is_known_column(Next1)
        /\ UnknownColumn
     \/ /\ ~sql_match_char(Next1, "*")
        /\ sql_parse_identifier(Next1) => sql_is_known_column(Next1)
        /\ SyntaxError

\* The column and the comparison are read before either is judged.
WhereOf(column) == CASE column = "id"   -> "SELECT_BY_ID"
                     [] column = "age"  -> "SELECT_BY_AGE"
                     [] column = "name" -> "SELECT_BY_NAME"

WhereComparison ==
  /\ At("comparison")
  /\ \/ /\ Next1.kind = "mark" /\ Next1.text \in Comparison
        /\ Take
        /\ at' = "judge"
        /\ command' = [command EXCEPT !.comparison = sql_parse_comparison(Next1)]
        /\ UNCHANGED <<text, goal, parse_result>>
     \/ ~(Next1.kind = "mark" /\ Next1.text \in Comparison) /\ SyntaxError

JudgeColumn ==
  /\ at = "judge"
  /\ \/ ~sql_is_known_column(Word(command.where_column)) /\ UnknownColumn
     \/ /\ command.where_column = "name" /\ command.comparison # "=="
        /\ SyntaxError
     \/ /\ sql_is_known_column(Word(command.where_column))
        /\ command.where_column = "name" => command.comparison = "=="
        /\ at' = IF command.where_column = "name" THEN "text_value" ELSE "int_value"
        /\ goal' = WhereOf(command.where_column)
        /\ UNCHANGED <<text, cursor, command, parse_result>>

sql_parse_select ==
  \/ SelectFields
  \/ Keyword("from", "FROM", "select_table")
  \/ TableName("select_table", "end")
  \/ Keyword("where", "WHERE", "column")
  \/ Expect("column", sql_parse_identifier, "comparison",
            [command EXCEPT !.where_column = Next1.text])
  \/ WhereComparison
  \/ JudgeColumn
  \/ Expect("int_value", LAMBDA t : t.kind = "int", "end",
            [command EXCEPT !.int_value = sql_parse_int(Next1)])
  \/ Expect("text_value", sql_parse_string, "end",
            [command EXCEPT !.text_value = Next1.chars])

ParserStep == \/ \E t \in Token : Write(t)
              \/ sql_skip_spaces \/ sql_parse \/ sql_match_statement_end
              \/ sql_parse_insert \/ sql_parse_select

-----------------------------------------------------------------------------
(* The language, as sequences of what a token counts for.                  *)

CountsFor(t) == CASE t.kind \in {"word", "mark"} -> t.text
                  [] t.kind = "string" -> IF Len(t.chars) < RECORD_NAME_SIZE
                                          THEN "string" ELSE "oversized"
                  [] OTHER -> t.kind

\* The elements of s that are in S, in their order.
Kept(s, S) == LET kept[n \in 0 .. Len(s)] ==
                    IF n = 0 THEN <<>>
                    ELSE IF s[n] \in S THEN Append(kept[n - 1], s[n])
                    ELSE kept[n - 1]
              IN  kept[Len(s)]

Heard == LET spoken == Kept(text, Token \ {Blank})
         IN  [i \in DOMAIN spoken |-> CountsFor(spoken[i])]

SelectAll == <<"SELECT", "*", "FROM", "users">>
Clause == {<<"WHERE", c, o, "int">> : c \in {"id", "age"}, o \in Comparison}
          \cup {<<"WHERE", "name", "=", "string">>}
Statement == {<<"EXIT">>, <<"QUIT">>, SelectAll}
             \cup {<<"INSERT", "INTO", "users", "VALUES", "(", "string", ",", "int", ")">>}
             \cup {SelectAll \o c : c \in Clause}
Sentence == {s \o <<"end">> : s \in Statement} \cup {s \o <<";", "end">> : s \in Statement}

\* The two ways in which the parser departs from it: a semicolon is let
\* through between FROM users and WHERE, and white space before INSERT or
\* SELECT is not.
StraySemicolon == Len(Heard) > 5 /\ Heard[5] = ";"
LeadingBlank == text[1] = Blank /\ Heard[1] \in {"INSERT", "SELECT"}

\* A text is accepted only if it is a sentence of the language, and refused
\* only if no sentence begins the way it does; the two departures above are
\* the only ones.
AcceptsTheLanguage ==
  /\ at = "parsed" =>
       (IF StraySemicolon THEN RemoveAt(Heard, 5) ELSE Heard) \in Sentence
  /\ at = "rejected" =>
       \/ LeadingBlank
       \/ \A s \in Sentence : ~IsPrefix(Heard, s)
=============================================================================
