----------------------------- MODULE Connection -----------------------------
(***************************************************************************)
(* One connection on a worker: server_handle_client in src/server/server.c *)
(* with the functions it calls, http_read_request and http_send_response   *)
(* (src/server/http.c) and api_handle_query (src/server/api.c).            *)
(*                                                                         *)
(* The client's bytes are the positions 1, 2, ... of a stream.  recv       *)
(* returns any number of them that fits, so the code has to find the body  *)
(* in whatever pieces the stream arrives; at any moment the client may     *)
(* instead fall silent, close or reset the connection.  An EINTR changes   *)
(* nothing (the call is made again) and is no step.                        *)
(***************************************************************************)
EXTENDS Integers, Sequences, SequencesExt, FiniteSetsExt

CONSTANTS MAX_REQUEST,   \* HTTP_MAX_REQUEST_SIZE
          MAX_BODY,      \* HTTP_MAX_BODY_SIZE
          SIZE_MAX,      \* the largest size_t
          Request,       \* what clients may send
          AllocMayFail   \* whether malloc, calloc and realloc may fail

ASSUME SizesAssumption == /\ MAX_REQUEST \in Nat /\ MAX_BODY \in Nat
                          /\ SIZE_MAX \in Nat /\ MAX_BODY < SIZE_MAX
ASSUME AllocAssumption == AllocMayFail \in BOOLEAN

(***************************************************************************)
(* A request: the length of its head with the empty line that ends it, the *)
(* number of bytes after that, what its request line is like ("ok",        *)
(* "malformed", another "method", another "path"), its header lines (of    *)
(* kind "length", "badlength", "nocolon" or "other"), the statement that   *)
(* the bytes of the body spell, how many of them come before the first     *)
(* zero byte, and the statement that these spell.                          *)
(***************************************************************************)
Line == {"ok", "malformed", "method", "path"}
HeaderKind == {"length", "badlength", "nocolon", "other"}
Sql == {"insert", "select", "exit", "wrong"}

ASSUME RequestAssumption ==
  \A r \in Request : /\ r.head \in Nat \ {0} /\ r.rest \in Nat
                     /\ r.line \in Line /\ r.sql \in Sql
                     /\ r.zero \in Nat /\ r.cut \in Sql
                     /\ r.headers \in Seq([kind : HeaderKind, value : Int])

VARIABLES request,   \* the client's request
          pc,        \* where the handler is
          received,  \* bytes taken from the socket
          body,      \* request->body: the positions of the bytes in it
          result,    \* what the SQL layer said
          answer,    \* status and meaning of the response being built
          sent,      \* how much of it went out: nothing, the head, all
          stored,    \* the table has taken the row of an INSERT
          fault      \* history: the client or the machine let the handler down

vars == <<request, pc, received, body, result, answer, sent, stored, fault>>

(***************************************************************************)
(* The handler reads "headers", then "parse" and reads the "body"; runs    *)
(* the "query" and "encode"s its result, or builds an "error" body; sends  *)
(* head and body of the response ("send_head", "send_body"); "closed".     *)
(***************************************************************************)
NoAnswer == [status |-> 0, body |-> "none"]

Init == /\ request \in Request
        /\ pc = "headers"
        /\ received = 0
        /\ body = <<>>
        /\ result = "none"
        /\ answer = NoAnswer
        /\ sent = "nothing"
        /\ stored = FALSE
        /\ fault = FALSE

Length == request.head + request.rest

\* http_read_request or api_handle_query gives up with this status.
Reject(status) == /\ answer' = [answer EXCEPT !.status = status]
                  /\ pc' = "error"

-----------------------------------------------------------------------------
(* read_until_header_end.                                                  *)

\* Mutant: the empty line is looked for in the last piece only, and not seen
\* when it is cut in two.
RecvHeadersLastPiece(n) ==
  /\ pc = "headers"
  /\ n <= MAX_REQUEST - received
  /\ n <= Length - received
  /\ received' = received + n
  /\ pc' = IF received <= request.head - 2 /\ received + n >= request.head
           THEN "parse" ELSE "headers"
  /\ UNCHANGED <<request, body, result, answer, sent, stored, fault>>

\* recv into what is left of the buffer, then look for the empty line.
RecvHeaders(n) ==
  /\ pc = "headers"
  /\ n <= MAX_REQUEST - received
  /\ n <= Length - received
  /\ received' = received + n
  /\ pc' = IF received + n >= request.head THEN "parse" ELSE "headers"
  /\ UNCHANGED <<request, body, result, answer, sent, stored, fault>>

\* The buffer is full and has no empty line in it.
HeadersTooLong == /\ pc = "headers"
                  /\ received = MAX_REQUEST
                  /\ Reject(400)
                  /\ UNCHANGED <<request, received, body, result, sent, stored,
                                 fault>>

\* strtoul: a number whose digits do not fit is the largest there is, and a
\* negative one wraps around.
strtoul(v) == IF v > SIZE_MAX \/ v < -SIZE_MAX THEN SIZE_MAX
              ELSE IF v < 0 THEN v + SIZE_MAX + 1 ELSE v

\* Of several Content-Length headers the last one counts.
LengthHeaders == {i \in DOMAIN request.headers : request.headers[i].kind = "length"}
announced == request.headers[Max(LengthHeaders)].value
content_length == strtoul(announced)

\* In a call of recv, for the head or for the rest of the body.
InRecv == \/ pc = "headers" /\ received < MAX_REQUEST
          \/ pc = "body" /\ Len(body) < content_length

\* Mutant: a time-out is taken for an interrupted call.
TimeOutRetried == InRecv /\ UNCHANGED vars
\* SO_RCVTIMEO has passed without a byte.
TimeOut == /\ InRecv
           /\ Reject(408)
           /\ fault' = TRUE
           /\ UNCHANGED <<request, received, body, result, sent, stored>>

\* recv returned 0 or an error.
PeerGone == /\ InRecv
            /\ Reject(400)
            /\ fault' = TRUE
            /\ UNCHANGED <<request, received, body, result, sent, stored>>

-----------------------------------------------------------------------------
(* The rest of http_read_request.                                          *)

\* Mutant: one byte too many is let through.
TooLongByOne(n) == n > MAX_BODY + 1
TooLong(n) == n > MAX_BODY

HasHeader(kind) == \E i \in DOMAIN request.headers : request.headers[i].kind = kind

\* The error the head deserves, in the order of the code's tests, or 0.
\* With no header line at all the first line end is the end of the head,
\* and the request line is not found.
HeadError ==
  CASE request.headers = <<>>                       -> 400
    [] request.headers # <<>> /\ request.line # "ok" ->
         (CASE request.line = "malformed" -> 400
            [] request.line = "method"    -> 405
            [] request.line = "path"      -> 404)
    [] OTHER ->
         IF HasHeader("nocolon") \/ HasHeader("badlength") THEN 400
         ELSE IF ~HasHeader("length") THEN 400
         ELSE IF TooLong(content_length) THEN 413 ELSE 0

\* Mutant: the empty line is counted one byte short.
BodyOffsetShort == request.head - 1
body_offset == request.head

\* How much of the body came along with the head.
body_available == Min({received - body_offset, content_length})

Stream(from, to) == [i \in 1 .. to - from |-> from + i]

\* Reject the head, or move the part of the body that is in the buffer.
ParseHead ==
  /\ pc = "parse"
  /\ \/ /\ HeadError # 0
        /\ Reject(HeadError)
        /\ UNCHANGED body
     \/ /\ HeadError = 0
        /\ body' = Stream(body_offset, body_offset + body_available)
        /\ pc' = "body"
        /\ UNCHANGED answer
  /\ UNCHANGED <<request, received, result, sent, stored, fault>>

RecvBody(n) == /\ pc = "body"
               /\ n <= content_length - Len(body)
               /\ n <= Length - received
               /\ body' = body \o Stream(received, received + n)
               /\ received' = received + n
               /\ UNCHANGED <<request, pc, result, answer, sent, stored, fault>>

BodyRead == /\ pc = "body"
            /\ Len(body) >= content_length
            /\ pc' = "query"
            /\ UNCHANGED <<request, received, body, result, answer, sent, stored,
                           fault>>

-----------------------------------------------------------------------------
(* api_handle_query: sql_parse, sql_execute_plan, the JSON of the result.  *)

\* The SQL layer gets the body as a C string, which ends at the first zero
\* byte.  An empty one is no statement.
Statement == CASE body = <<>> \/ request.zero = 0 -> "wrong"
               [] body # <<>> /\ request.zero \in 1 .. Len(body) - 1 -> request.cut
               [] body # <<>> /\ request.zero >= Len(body) -> request.sql

ParseSql == /\ pc = "query"
            /\ \/ Statement = "wrong" /\ result' = "sql_error"
               \/ Statement = "exit"  /\ result' = "exit_not_supported"
            /\ pc' = "encode"
            /\ UNCHANGED <<request, received, body, answer, sent, stored, fault>>

\* Mutant: a failed table_insert is reported as a success.
InsertUnchecked == /\ pc = "query"
                   /\ Statement = "insert"
                   /\ stored' \in BOOLEAN
                   /\ result' = "insert"
                   /\ pc' = "encode"
                   /\ fault' = (fault \/ ~stored')
                   /\ UNCHANGED <<request, received, body, answer, sent>>

\* table_insert stores a row or returns NULL, once it has got next_id_lock
\* and the write lock of a bucket.
Insert == /\ pc = "query"
          /\ Statement = "insert"
          /\ \/ stored' = TRUE /\ result' = "insert" /\ UNCHANGED fault
             \/ stored' = FALSE /\ result' = "internal_error" /\ fault' = TRUE
          /\ pc' = "encode"
          /\ UNCHANGED <<request, received, body, answer, sent>>

\* A SELECT that finds nothing is no error; one that runs out of memory is.
Select == /\ pc = "query"
          /\ Statement = "select"
          /\ \/ result' = "select" /\ UNCHANGED fault
             \/ AllocMayFail /\ result' = "internal_error" /\ fault' = TRUE
          /\ pc' = "encode"
          /\ UNCHANGED <<request, received, body, answer, sent, stored>>

HttpStatus(r) == CASE r = "internal_error"     -> 500
                   [] r = "exit_not_supported" -> 400
                   [] OTHER                    -> 200

Encode == /\ pc = "encode"
          /\ answer' = [status |-> HttpStatus(result), body |-> result]
          /\ pc' = "send_head"
          /\ UNCHANGED <<request, received, body, result, sent, stored, fault>>

\* No memory for the JSON, after the statement has been executed.
EncodeFails == /\ AllocMayFail
               /\ pc = "encode"
               /\ Reject(500)
               /\ fault' = TRUE
               /\ UNCHANGED <<request, received, body, result, sent, stored>>

-----------------------------------------------------------------------------
(* The error body, http_send_response, and the return of the handler.      *)

server_http_error_status_name(status) ==
  CASE status = 404 -> "not_found"
    [] status = 405 -> "method_not_allowed"
    [] status = 408 -> "request_timeout"
    [] status = 413 -> "payload_too_large"
    [] status = 500 -> "internal_error"
    [] OTHER        -> "bad_request"

BuildErrorBody ==
  /\ pc = "error"
  /\ answer' = [answer EXCEPT !.body = server_http_error_status_name(answer.status)]
  /\ pc' = "send_head"
  /\ UNCHANGED <<request, received, body, result, sent, stored, fault>>

\* No memory for it: the handler returns without a response.
ErrorBodyFails == /\ AllocMayFail
                  /\ pc = "error"
                  /\ pc' = "closed"
                  /\ fault' = TRUE
                  /\ UNCHANGED <<request, received, body, result, answer, sent,
                                 stored>>

SendHead == /\ pc = "send_head"
            /\ sent' = "head"
            /\ pc' = "send_body"
            /\ UNCHANGED <<request, received, body, result, answer, stored, fault>>

SendBody == /\ pc = "send_body"
            /\ sent' = "all"
            /\ pc' = "closed"
            /\ UNCHANGED <<request, received, body, result, answer, stored, fault>>

\* SO_SNDTIMEO, or an error: the response is given up where it is.  (A peer
\* that is gone altogether is the SIGPIPE of Server.)
SendFails == /\ pc \in {"send_head", "send_body"}
             /\ pc' = "closed"
             /\ fault' = TRUE
             /\ UNCHANGED <<request, received, body, result, answer, sent, stored>>

Returned == pc = "closed" /\ UNCHANGED vars

-----------------------------------------------------------------------------
\* What happens without the help of the client or of another worker.
HandlerStep == \/ HeadersTooLong \/ TimeOut \/ ParseHead \/ BodyRead
               \/ ParseSql \/ Select \/ Encode \/ EncodeFails
               \/ BuildErrorBody \/ ErrorBodyFails
               \/ SendHead \/ SendBody \/ SendFails

Next == \/ HandlerStep
        \/ Insert
        \/ \E n \in 1 .. MAX_REQUEST : RecvHeaders(n)
        \/ \E n \in 1 .. MAX_BODY : RecvBody(n)
        \/ PeerGone
        \/ Returned

Spec == Init /\ [][Next]_vars

\* The worker runs, and the kernel ends a recv or send after five seconds.
\* Nothing is assumed of the client, nor that an INSERT gets the write lock
\* it waits for: readers that keep coming can keep it (Table).
FairSpec == Spec /\ WF_vars(HandlerStep)

-----------------------------------------------------------------------------
(* Properties.                                                             *)

\* Neither the request buffer nor request->body is overrun: the body leaves
\* room for the terminating zero, whatever Content-Length says.
WithinBuffers == /\ received <= MAX_REQUEST + MAX_BODY
                 /\ pc = "headers" => received <= MAX_REQUEST
                 /\ Len(body) <= MAX_BODY

\* What the SQL layer gets is exactly the Content-Length bytes that follow
\* the head, in order, however the stream was cut into pieces and whatever
\* came after them; nothing is executed for less.
BodyIsExact ==
  pc \in {"query", "encode"} =>
    body = Stream(request.head, request.head + content_length)

\* Without a fault the answer depends on the request alone, not on how it
\* arrived, and all of it is sent.  It is the one of the contract (README.md:
\* 371-372, docs/plan/03-api-contract.md:117-128) with the four departures the
\* code makes: a request without header lines is bad whatever its method and
\* path are; a negative length is not refused but taken as strtoul has it;
\* bytes beyond the announced length are left unread (docs/plan/
\* 11-implementation-policies.md:16 wants a 400); and a statement ends at a
\* zero byte.
Fits == request.head <= MAX_REQUEST
Taken == IF announced < 0 THEN strtoul(announced) ELSE announced
BadHeader == \E i \in DOMAIN request.headers :
               request.headers[i].kind \in {"nocolon", "badlength"}
ExpectedStatus ==
  IF ~Fits \/ request.headers = <<>> \/ request.line = "malformed" THEN 400
  ELSE IF request.line = "method" THEN 405
  ELSE IF request.line = "path" THEN 404
  ELSE IF BadHeader \/ LengthHeaders = {} THEN 400
  ELSE IF Taken > MAX_BODY THEN 413
  ELSE 0
ExpectedError ==
  CASE ExpectedStatus = 400 -> "bad_request"
    [] ExpectedStatus = 404 -> "not_found"
    [] ExpectedStatus = 405 -> "method_not_allowed"
    [] ExpectedStatus = 413 -> "payload_too_large"
ExpectedStatement == IF Taken = 0 \/ request.zero = 0 THEN "wrong"
                     ELSE IF request.zero < Taken THEN request.cut ELSE request.sql
Expected ==
  IF ExpectedStatus # 0 THEN [status |-> ExpectedStatus, body |-> ExpectedError]
  ELSE CASE ExpectedStatement = "wrong" -> [status |-> 200, body |-> "sql_error"]
         [] ExpectedStatement = "exit" -> [status |-> 400, body |-> "exit_not_supported"]
         [] ExpectedStatement \in {"insert", "select"} ->
              [status |-> 200, body |-> ExpectedStatement]
FaultlessAnswer == pc = "closed" /\ ~fault => sent = "all" /\ answer = Expected

\* The client can rely on a success and on a refusal: an INSERT that is
\* answered with success is stored, one that is answered with an error of
\* the client's is not.
InsertAnswerTrue == /\ answer.body = "insert" => stored
                    /\ answer.status \in 400 .. 499 => ~stored

\* The handler returns, whatever the client does, which is what the pool takes
\* for granted of its handler.  Only one thing can keep it: an INSERT that
\* never gets its write lock.
HandlerReturns == <>(pc = "closed") \/ <>[](pc = "query" /\ Statement = "insert")

\* What the message of the 500 says, "Failed to execute SQL" (src/server/
\* server.c:158): a statement whose answer is 500 has not been executed.
InternalErrorMeansNotStored == answer.status = 500 => ~stored
=============================================================================
