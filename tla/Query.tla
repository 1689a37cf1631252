-------------------------------- MODULE Query --------------------------------
(***************************************************************************)
(* A statement from its text to its answer, for the two programs that take *)
(* statements: api_handle_query in src/server/api.c, and the prompt of     *)
(* src/sql_processor/main.c.  Both parse (SqlParser) and execute the plan; *)
(* the first encodes the result as JSON (JsonBuffer), the second prints    *)
(* it.  The table is created before and destroyed after the statements     *)
(* (TableLife).  Its rows are what they are for one client, a sequence in  *)
(* order of id; what several threads make of them is the subject of Table. *)
(***************************************************************************)
EXTENDS SqlParser, JsonBuffer, TableLife, Where

CONSTANTS FirstRows,  \* the rows of earlier statements
          MAX_ROWS    \* bound: no statement is read with more rows than this

ASSUME RowsAssumption ==
  /\ FirstRows \in Seq([id : Int, data : [name : Seq(STRING), age : Int]])
  /\ MAX_ROWS \in Nat

VARIABLES phase,       \* where the caller is
          table,       \* the rows
          sql_result,  \* the SQLResult; records: whether its array is allocated
          todo,        \* pieces of the response that are still to be appended
          answer,      \* the ApiResult; returned: what api_handle_query returns
          meant        \* history: what the text means, read off its tokens

ownVars == <<phase, table, sql_result, todo, answer, meant>>
vars == <<parserVars, jsonVars, life, ownVars>>

-----------------------------------------------------------------------------
(* What a text means, read off its tokens.                                 *)

\* Its words without white space and semicolons.
Spoken == Kept(text, Token \ {Blank, Mark(";")})

\* The comparison that a mark stands for.
Compares(mark, left, right) == CASE mark = Mark("=")  -> left = right
                                 [] mark = Mark("<")  -> left < right
                                 [] mark = Mark("<=") -> left <= right
                                 [] mark = Mark(">")  -> left > right
                                 [] mark = Mark(">=") -> left >= right

\* The row r is one the WHERE clause holds for.
Written(r) ==
  IF Spoken[6] = Word("name") THEN r.data.name = Spoken[8].chars
  ELSE Compares(Spoken[7], IF Spoken[6] = Word("id") THEN r.id ELSE r.data.age,
                Spoken[8].number)

RowsAsWritten == IF Len(Spoken) = 5 THEN table
                 ELSE Kept(table, {r \in ToSet(table) : Written(r)})

\* Every integer of the text is an int.
InRange == \A i \in DOMAIN text :
             text[i].kind = "int" => text[i].number \in INT_MIN .. INT_MAX

RowAsWritten == [id |-> Len(table) + 1,
                 data |-> [name |-> Spoken[6].chars, age |-> Spoken[8].number]]

Nothing == [in_range |-> TRUE, rows |-> <<>>]
Meaning == [in_range |-> InRange,
            rows |-> IF Head(Spoken) = Word("INSERT") THEN <<RowAsWritten>>
                     ELSE RowsAsWritten]

-----------------------------------------------------------------------------
\* sql_make_result
NoSqlResult == [status |-> "ERROR", action |-> "none", rows |-> <<>>,
                inserted_id |-> 0, row_count |-> 0, records |-> FALSE]
NoAnswer == [http_status |-> 500, body |-> <<>>, held |-> FALSE, returned |-> 0]

Init == /\ ParserInit
        /\ buffer = NoBuffer
        /\ heap = [b \in {"buffer", "records"} |-> "free"]
        /\ life = NoTable
        /\ phase = "create"
        /\ table = <<>>
        /\ sql_result = NoSqlResult
        /\ todo = <<>>
        /\ answer = NoAnswer
        /\ meant = Nothing

-----------------------------------------------------------------------------
(* The table comes and goes.                                               *)

Manages == UNCHANGED <<parserVars, jsonVars, sql_result, todo, answer, meant>>

CreateTable == /\ phase = "create"
               /\ \/ CreateBlock /\ phase' = "buckets"
                  \/ AllocMayFail /\ phase' = "left" /\ UNCHANGED life
               /\ Manages /\ UNCHANGED table

\* One bucket; the table is ready after the last one.
NextBucket == /\ phase = "buckets" /\ Creating < BUCKET_COUNT
              /\ \/ CreateBucket /\ UNCHANGED phase
                 \/ AllocMayFail /\ CreateIndexFails /\ phase' = "destroy"
                 \/ AllocMayFail /\ UNCHANGED life /\ phase' = "destroy"
              /\ Manages /\ UNCHANGED table

TableReady == /\ phase = "buckets" /\ Creating = BUCKET_COUNT
              /\ table' = FirstRows
              /\ phase' = "idle"
              /\ Manages /\ UNCHANGED life

DestroyTable == /\ phase = "destroy"
                /\ table_destroy
                /\ table' = <<>>
                /\ phase' = "left"
                /\ Manages

-----------------------------------------------------------------------------
\* A request has been read, or fgets has read a line.
Begin == /\ phase = "idle"
         /\ Len(table) <= MAX_ROWS
         /\ phase' = "parse"
         /\ parse_result' = NoResult
         /\ meant' = Nothing
         /\ UNCHANGED <<text, cursor, at, goal, command, jsonVars, table,
                        sql_result, todo, answer>>

Parse == /\ phase = "parse"
         /\ ParserStep
         /\ UNCHANGED <<jsonVars, ownVars>>

-----------------------------------------------------------------------------
(* sql_execute_plan, and sql_execute of the prompt.                        *)

Executable == at = "parsed" /\ parse_result.type # "EXIT"
\* api_handle_query goes on to encode the result, the prompt to print it.
Executed == phase' \in {"init", "print"}

\* Nothing to execute: the status of the parser is the status of the result.
NothingToExecute ==
  /\ phase = "parse" /\ at \in Final /\ ~Executable
  /\ sql_result' = [NoSqlResult EXCEPT !.status = parse_result.status]
  /\ Executed
  /\ ParserReturns
  /\ UNCHANGED <<jsonVars, table, todo, answer, meant>>

\* No memory, or a lock that cannot be had.
ExecuteFails ==
  /\ phase = "parse" /\ Executable /\ AllocMayFail
  /\ sql_result' = NoSqlResult
  /\ Executed
  /\ ParserReturns
  /\ meant' = Meaning
  /\ UNCHANGED <<jsonVars, table, todo, answer>>

\* table_insert copies name and age; see Table for where the id comes from.
sql_execute_insert_plan ==
  /\ phase = "parse" /\ Executable /\ parse_result.type = "INSERT"
  /\ LET row == [id |-> Len(table) + 1,
                 data |-> [name |-> command.name, age |-> command.int_value]]
     IN  /\ table' = Append(table, row)
         /\ sql_result' = [NoSqlResult EXCEPT !.status = "OK", !.action = "insert",
                             !.inserted_id = row.id, !.row_count = 1]
  /\ Executed
  /\ ParserReturns
  /\ meant' = Meaning
  /\ UNCHANGED <<jsonVars, todo, answer>>

Condition ==
  CASE parse_result.type = "SELECT_ALL"     -> [column |-> "all"]
    [] parse_result.type = "SELECT_BY_ID"   ->
         [column |-> "id", comparison |-> command.comparison, value |-> command.int_value]
    [] parse_result.type = "SELECT_BY_AGE"  ->
         [column |-> "age", comparison |-> command.comparison, value |-> command.int_value]
    [] parse_result.type = "SELECT_BY_NAME" ->
         [column |-> "name", value |-> command.text_value]

\* The array of the rows is allocated with its first row.
sql_execute_select_plan ==
  /\ phase = "parse" /\ Executable /\ parse_result.type # "INSERT"
  /\ LET found == MatchingRows(Condition, table)
     IN  /\ sql_result' = [NoSqlResult EXCEPT
                             !.status = IF found = <<>> THEN "NOT_FOUND" ELSE "OK",
                             !.action = "select", !.rows = found,
                             !.row_count = Len(found), !.records = found # <<>>]
         /\ heap' = IF found = <<>> THEN heap ELSE Allocated(heap, "records")
  /\ Executed
  /\ ParserReturns
  /\ meant' = Meaning
  /\ UNCHANGED <<buffer, table, todo, answer>>

\* sql_result_destroy, on the heap h.
sql_result_destroy(h) == IF sql_result.records THEN Freed(h, "records") ELSE h

-----------------------------------------------------------------------------
(* The response.  Each element is what one call of json_buffer_append or   *)
(* json_buffer_appendf appends.                                            *)

api_append_record(r) ==
  <<<<"{id:">> \o Decimal(r.id) \o <<",name:">>>>
  \o json_buffer_append_json_string(r.data.name)
  \o <<<<",age:">> \o Decimal(r.data.age) \o <<"}">>>>

\* The loop over the rows; every row but the first is preceded by a comma.
api_append_rows(rows) ==
  LET appended[n \in 0 .. Len(rows)] ==
        IF n = 0 THEN <<>>
        ELSE appended[n - 1] \o (IF n > 1 THEN <<<<",">>>> ELSE <<>>)
             \o api_append_record(rows[n])
  IN  appended[Len(rows)]

api_build_success_response ==
  <<<<"{ok:true,action:">>>>
  \o json_buffer_append_json_string(<<sql_result.action>>)
  \o IF sql_result.action = "insert"
     THEN <<<<",inserted_id:">> \o Decimal(sql_result.inserted_id)
            \o <<",row_count:">> \o Decimal(sql_result.row_count) \o <<"}">>>>
     ELSE <<<<",row_count:">> \o Decimal(sql_result.row_count) \o <<",rows:[">>>>
          \o api_append_rows(sql_result.rows) \o <<<<"]}">>>>

ErrorMessage == <<"message">> \o parse_result.near

api_build_error_response ==
  <<<<"{ok:false,status:">>>>
  \o json_buffer_append_json_string(<<sql_result.status>>)
  \o <<<<",error_code:">> \o Decimal(parse_result.error_code) \o <<",sql_state:">>>>
  \o json_buffer_append_json_string(
       <<IF parse_result.error_code = 1064 THEN "42000" ELSE "42S22">>)
  \o <<<<",message:">>>> \o json_buffer_append_json_string(ErrorMessage)
  \o <<<<"}">>>>

Response == CASE sql_result.status \in {"OK", "NOT_FOUND"} -> api_build_success_response
              [] sql_result.status \in {"SYNTAX_ERROR", "QUERY_ERROR"} ->
                   api_build_error_response
              [] sql_result.status = "ERROR" -> <<<<"internal_error">>>>
              [] sql_result.status = "EXIT"  -> <<<<"exit_not_supported">>>>

HttpStatus == CASE sql_result.status = "ERROR" -> 500
                [] sql_result.status = "EXIT"  -> 400
                [] OTHER                       -> 200

\* json_buffer_init succeeds: the pieces of the response can be appended.
BeginResponse ==
  /\ phase = "init"
  /\ json_buffer_init
  /\ todo' = Response
  /\ answer' = [answer EXCEPT !.http_status = HttpStatus]
  /\ phase' = "build"
  /\ UNCHANGED <<parserVars, meant, table, sql_result>>

\* It fails: the result is destroyed, api_handle_query returns 0.
NoResponse ==
  /\ phase = "init" /\ AllocMayFail
  /\ heap' = sql_result_destroy(heap)
  /\ sql_result' = NoSqlResult
  /\ phase' = "done"
  /\ UNCHANGED <<parserVars, meant, buffer, table, todo, answer>>

AppendPiece ==
  /\ phase = "build" /\ todo # <<>>
  /\ json_buffer_append(Head(todo))
  /\ todo' = Tail(todo)
  /\ UNCHANGED <<parserVars, meant, phase, table, sql_result, answer>>

\* No room for a piece: everything is destroyed, 0 is returned.
GiveUp ==
  /\ phase = "build" /\ todo # <<>>
  /\ AppendFails(Head(todo))
  /\ heap' = Destroyed(sql_result_destroy(heap))
  /\ buffer' = NoBuffer
  /\ sql_result' = NoSqlResult
  /\ todo' = <<>>
  /\ phase' = "done"
  /\ UNCHANGED <<parserVars, meant, table, answer>>

\* json_buffer_detach hands the text over; json_buffer_destroy then finds
\* nothing to free.
Finish ==
  /\ phase = "build" /\ todo = <<>>
  /\ heap' = sql_result_destroy(heap)
  /\ answer' = [answer EXCEPT !.body = buffer.data, !.held = TRUE, !.returned = 1]
  /\ json_buffer_detach
  /\ sql_result' = NoSqlResult
  /\ phase' = "done"
  /\ UNCHANGED <<parserVars, meant, table, todo>>

\* The response has been sent.
api_result_destroy ==
  /\ phase = "done"
  /\ heap' = IF answer.held THEN Freed(heap, "buffer") ELSE heap
  /\ answer' = NoAnswer
  /\ phase' = "idle"
  /\ UNCHANGED <<parserVars, meant, buffer, table, sql_result, todo>>

-----------------------------------------------------------------------------
(* The prompt.                                                             *)

\* Print the rows, the id or the error; destroy the result; leave or ask
\* again.
ShowResult ==
  /\ phase = "print"
  /\ heap' = sql_result_destroy(heap)
  /\ sql_result' = NoSqlResult
  /\ phase' = IF sql_result.status = "EXIT" THEN "destroy" ELSE "idle"
  /\ UNCHANGED <<parserVars, meant, buffer, table, todo, answer>>

\* fgets returns NULL.
EndOfInput == /\ phase = "idle"
              /\ phase' = "destroy"
              /\ UNCHANGED <<parserVars, meant, jsonVars, table, sql_result, todo,
                             answer>>

Stopped == /\ \/ phase = "left"
              \/ phase = "idle" /\ Len(table) > MAX_ROWS
           /\ UNCHANGED vars

Serve == \/ Begin \/ Parse
         \/ NothingToExecute \/ ExecuteFails
         \/ sql_execute_insert_plan \/ sql_execute_select_plan
         \/ BeginResponse \/ NoResponse \/ AppendPiece \/ GiveUp \/ Finish
         \/ api_result_destroy
         \/ ShowResult \/ EndOfInput

Next == \/ CreateTable \/ NextBucket \/ TableReady \/ DestroyTable
        \/ Serve /\ UNCHANGED life
        \/ Stopped

Spec == Init /\ [][Next]_vars

-----------------------------------------------------------------------------
(* What the caller and the client should see.                              *)

ResultAsWritten ==
  /\ sql_result.action = "insert" => /\ meant.rows = <<Last(table)>>
                                     /\ sql_result.inserted_id = Last(table).id
  /\ sql_result.action = "select" => sql_result.rows = meant.rows

\* A reader of JSON.  A quotation mark opens a string and the next one that
\* is not escaped closes it; inside, control characters are not allowed.
\* The rest is taken as it is.
Unescaped(c) == IF c = "n" THEN LineFeed ELSE c
\* What has been read: a cell, or a string with its characters.
Cell(c) == [text |-> c, chars |-> <<>>]
StringOf(s) == [text |-> Quote, chars |-> s]
ReadCell(r, c) ==
  CASE r.mode = "outside" -> IF c = Quote THEN [r EXCEPT !.mode = "inside", !.chars = <<>>]
                             ELSE [r EXCEPT !.read = Append(@, Cell(c))]
    [] r.mode = "inside"  ->
         (CASE c = Quote  -> [r EXCEPT !.mode = "outside",
                                !.read = Append(@, StringOf(r.chars))]
            [] c = Escape -> [r EXCEPT !.mode = "escaped"]
            [] c \in {LineFeed, "ctl"} -> [r EXCEPT !.mode = "invalid"]
            [] OTHER -> [r EXCEPT !.chars = Append(@, c)])
    [] r.mode = "escaped" -> IF c = "u" THEN [r EXCEPT !.mode = "hex"]
                             ELSE [r EXCEPT !.mode = "inside",
                                            !.chars = Append(@, Unescaped(c))]
    [] r.mode = "hex" -> IF c # "f" THEN r
                         ELSE [r EXCEPT !.mode = "inside", !.chars = Append(@, "ctl")]
    [] OTHER -> r
Read(body) ==
  LET read[n \in 0 .. Len(body)] ==
        IF n = 0 THEN [mode |-> "outside", chars |-> <<>>, read |-> <<>>]
        ELSE ReadCell(read[n - 1], body[n])
  IN  read[Len(body)]

Plain(s) == [i \in DOMAIN s |-> Cell(s[i])]
Str(s) == <<StringOf(s)>>

\* What a client reads when all goes well.
RowRead(r) == Plain(<<"{id:">> \o Decimal(r.id) \o <<",name:">>) \o Str(r.data.name)
              \o Plain(<<",age:">> \o Decimal(r.data.age) \o <<"}">>)
RowsRead(rows) ==
  FlattenSeq([i \in DOMAIN rows |->
    IF i = 1 THEN RowRead(rows[i]) ELSE Plain(<<",">>) \o RowRead(rows[i])])

AnswerRead ==
  CASE parse_result.type = "INSERT" ->
         Plain(<<"{ok:true,action:">>) \o Str(<<"insert">>)
         \o Plain(<<",inserted_id:">> \o Decimal(Len(table)) \o <<",row_count:">>
                  \o Decimal(1) \o <<"}">>)
    [] parse_result.type \in {"SELECT_ALL", "SELECT_BY_ID", "SELECT_BY_AGE",
                             "SELECT_BY_NAME"} ->
         Plain(<<"{ok:true,action:">>) \o Str(<<"select">>)
         \o Plain(<<",row_count:">> \o Decimal(Len(meant.rows)) \o <<",rows:[">>)
         \o RowsRead(meant.rows) \o Plain(<<"]}">>)

ErrorRead ==
  Plain(<<"{ok:false,status:">>) \o Str(<<parse_result.status>>)
  \o Plain(<<",error_code:">> \o Decimal(parse_result.error_code) \o <<",sql_state:">>)
  \o Str(<<IF parse_result.status = "SYNTAX_ERROR" THEN "42000" ELSE "42S22">>)
  \o Plain(<<",message:">>) \o Str(ErrorMessage) \o Plain(<<"}">>)

-----------------------------------------------------------------------------
(* Properties.                                                             *)

\* Every variable has a value of its type; what sql_parse_int stores is an
\* int.
TypeOK == /\ cursor \in 1 .. Len(text) + 1
          /\ ToSet(text) \subseteq Token
          /\ phase \in {"create", "buckets", "idle", "parse", "init", "build",
                        "done", "print", "destroy", "left"}
          /\ command.int_value \in INT_MIN .. INT_MAX
          /\ buffer.held <=> buffer.cap > 0

\* What is executed is what was written, as long as every integer in it fits
\* an int: the row that an INSERT stores has the name and the age of the
\* text, whole, and a SELECT finds the rows its comparison holds for, no
\* matter where white space stands and whether the statement comes from a
\* request or from the prompt.
ExecutesWhatIsWritten ==
  phase \in {"init", "print"} /\ meant.in_range => ResultAsWritten

\* The same without the reservation: sql_parse_int "Parses a signed integer
\* literal." (src/sql_processor/sql.c:187).
LiteralsKeepTheirValue == phase \in {"init", "print"} => ResultAsWritten

\* A client that reads the body of a 200 as JSON gets the rows, or the
\* error, whatever characters the names and the quoted statement hold.
AnswerIsReadable ==
  phase = "done" /\ answer.returned = 1 /\ answer.http_status = 200 /\ meant.in_range =>
    /\ Read(answer.body).mode = "outside"
    /\ Read(answer.body).read = IF parse_result.type # "NONE" THEN AnswerRead ELSE ErrorRead

\* The text in the buffer always leaves room for its terminating zero.
RoomForTerminator == buffer.held => Len(buffer.data) < buffer.cap

\* Every block is freed once, on all paths: what is allocated is what the
\* buffer, the result or the answer still points to, and between two
\* statements that is nothing.  When main leaves, the table is gone with all
\* its locks and indexes, also if only a part of it could be created.
EveryBlockFreedOnce ==
  /\ heap["buffer"] = "live" <=> buffer.held \/ answer.held
  /\ heap["records"] = "live" <=> sql_result.records
  /\ \A b \in DOMAIN heap : heap[b] # "corrupt"
  /\ phase \in {"idle", "left"} => \A b \in DOMAIN heap : heap[b] = "free"
  /\ phase = "left" => TableGone

\* The lock mode that is guessed from the first keyword is the one the
\* parsed command needs.
LockModeAgrees ==
  at = "parsed" =>
    sql_determine_lock_mode(text) = sql_command_lock_mode(parse_result.type)
=============================================================================
