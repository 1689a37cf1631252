-------------------------- MODULE ConnectionProofs --------------------------
(***************************************************************************)
(* Proofs about Connection, for buffers of any size and any requests.      *)
(*                                                                         *)
(* None of the properties is inductive.  That the body is exact when the   *)
(* statement is executed rests on where the handler stands in the stream   *)
(* (Reading); that the answer is the expected one rests on what each       *)
(* stage has decided before (Deciding); that it is true of the table, on   *)
(* when a row can have been stored (Storing).                              *)
(***************************************************************************)
EXTENDS Connection, BasicLemmas, TLAPS

BeforeQuery == {"headers", "parse", "body", "query"}
Stage == BeforeQuery \cup {"encode", "error", "send_head", "send_body", "closed"}

\* What a response can be about.
Result == {"sql_error", "exit_not_supported", "insert", "select", "internal_error"}
ErrorName == {"not_found", "method_not_allowed", "request_timeout",
              "payload_too_large", "internal_error", "bad_request"}
Said == {"none"} \cup Result \cup ErrorName

Types == /\ request \in Request
         /\ pc \in Stage
         /\ received \in Nat
         /\ body \in Seq(Nat)
         /\ answer \in [status : Nat, body : Said]

\* Until the body is complete all that was received is in the buffer or in
\* the body, which is the part of the stream right after the head.
Reading ==
  /\ received <= MAX_REQUEST + MAX_BODY
  /\ Len(body) <= MAX_BODY
  /\ pc = "headers" => received <= MAX_REQUEST /\ received < request.head
  /\ pc = "parse" => received <= MAX_REQUEST /\ request.head <= received
  /\ pc \in {"body", "query", "encode"} =>
       /\ Fits /\ HeadError = 0
       /\ content_length <= MAX_BODY
       /\ body = Stream(request.head, request.head + Len(body))
       /\ Len(body) <= content_length
       /\ Len(body) < content_length => received = request.head + Len(body)
  /\ pc \in {"query", "encode"} => Len(body) = content_length

\* What has been decided, if nothing has failed, is what is expected.
Deciding ==
  ~fault =>
    /\ pc = "encode" => Expected = [status |-> HttpStatus(result), body |-> result]
    /\ pc = "error" => Expected = [status |-> answer.status,
                                   body |-> server_http_error_status_name(answer.status)]
    /\ pc \in {"send_head", "send_body", "closed"} => answer = Expected
    /\ pc = "closed" => sent = "all"

\* Only an INSERT stores a row, and it is known from then on.
Storing ==
  /\ pc \in BeforeQuery => ~stored
  /\ pc = "encode" => result \in Result /\ (stored <=> result = "insert")
  /\ pc \in BeforeQuery \cup {"encode", "error"} => answer.body = "none"
  /\ pc \in BeforeQuery \cup {"encode"} => answer.status = 0
  /\ answer.body = "insert" => stored
  /\ answer.status \in 400 .. 499 => ~stored

Inv == Types /\ Reading /\ Deciding /\ Storing

-----------------------------------------------------------------------------
(***************************************************************************)
(* strtoul returns a size_t, and of a number that is not negative one that *)
(* is too long if and only if the number itself is.                        *)
(***************************************************************************)
LEMMA StrtoulFacts ==
  ASSUME NEW v \in Int
  PROVE  /\ strtoul(v) \in Nat
         /\ v >= 0 => (strtoul(v) > MAX_BODY <=> v > MAX_BODY)
         /\ v >= 0 /\ ~(v > MAX_BODY) => strtoul(v) = v
BY SizesAssumption DEF strtoul

(***************************************************************************)
(* A length that is announced is a number.                                 *)
(***************************************************************************)
LEMMA AnnouncedType ==
  ASSUME request \in Request, LengthHeaders # {}
  PROVE  announced \in Int
<1> DEFINE h == request.headers
           n == Len(h)
<1>1. h \in Seq([kind : HeaderKind, value : Int])
  BY RequestAssumption
<1>2. n \in Nat /\ DOMAIN h = 1 .. n /\ \A i \in 1 .. n : h[i] \in [kind : HeaderKind, value : Int]
  BY <1>1, LenProperties, ElementOfSeq
<1>3. \A i \in 1 .. n : h[i].value \in Int
  BY <1>2
<1>4. LengthHeaders \in SUBSET (0 .. n)
  BY <1>2 DEF LengthHeaders
<1>5. Max(LengthHeaders) \in LengthHeaders
  BY <1>2, <1>4, MaxFacts
<1> QED
  BY <1>2, <1>3, <1>5 DEF LengthHeaders, announced

(***************************************************************************)
(* What http_read_request makes of the head: an error, or a length that    *)
(* does not exceed the limit, also when strtoul has wrapped it around.     *)
(***************************************************************************)
LEMMA HeadFacts ==
  ASSUME request \in Request
  PROVE  /\ request.head \in Nat \ {0} /\ request.rest \in Nat
         /\ HeadError \in {0, 400, 404, 405, 413}
         /\ HeadError = 0 => content_length \in 0 .. MAX_BODY
<1>0. LengthHeaders # {} => announced \in Int
  BY AnnouncedType
<1>1. /\ request.head \in Nat \ {0} /\ request.rest \in Nat /\ request.line \in Line
      /\ request.headers \in Seq([kind : HeaderKind, value : Int])
  BY RequestAssumption
<1>2. HeadError \in {0, 400, 404, 405, 413}
  BY <1>1 DEF HeadError, Line
<1>3. ASSUME HeadError = 0 PROVE content_length \in 0 .. MAX_BODY
  <2>1. HasHeader("length") /\ ~TooLong(content_length)
    BY <1>1, <1>3 DEF HeadError, Line
  <2>2. LengthHeaders # {}
    BY <2>1 DEF LengthHeaders, HasHeader
  <2>3. content_length \in Nat
    BY <1>0, <2>2, StrtoulFacts DEF content_length
  <2> QED
    BY <2>1, <2>3, SizesAssumption DEF TooLong
<1> QED
  BY <1>1, <1>2, <1>3

(***************************************************************************)
(* The tests of the code, in their order, give the status that the         *)
(* contract gives, and let a body through that is as long as announced.    *)
(***************************************************************************)
LEMMA HeadExpected ==
  ASSUME request \in Request
  PROVE  /\ Fits => ExpectedStatus = HeadError
         /\ ~Fits => ExpectedStatus = 400
         /\ HeadError = 0 => Taken = content_length
<1>1. request.line \in Line
  BY RequestAssumption
<1>2. BadHeader <=> HasHeader("nocolon") \/ HasHeader("badlength")
  BY DEF BadHeader, HasHeader
<1>3. LengthHeaders = {} <=> ~HasHeader("length")
  BY DEF LengthHeaders, HasHeader
<1>4. ASSUME LengthHeaders # {}
      PROVE  /\ Taken > MAX_BODY <=> TooLong(content_length)
             /\ ~TooLong(content_length) => Taken = content_length
  <2>1. announced \in Int
    BY <1>4, AnnouncedType
  <2>2. CASE announced < 0
    BY <2>2 DEF Taken, TooLong, content_length
  <2>3. CASE ~(announced < 0)
    <3>1. /\ strtoul(announced) > MAX_BODY <=> announced > MAX_BODY
          /\ ~(announced > MAX_BODY) => strtoul(announced) = announced
      BY <2>1, <2>3, StrtoulFacts
    <3>2. Taken = announced /\ content_length = strtoul(announced)
      BY <2>3 DEF Taken, content_length
    <3> QED
      BY <3>1, <3>2 DEF TooLong
  <2> QED
    BY <2>2, <2>3
<1>5. ASSUME Fits PROVE ExpectedStatus = HeadError
  <2>1. CASE request.headers = <<>>
    BY <1>5, <2>1 DEF ExpectedStatus, HeadError
  <2>2. CASE request.headers # <<>> /\ request.line # "ok"
    BY <1>1, <1>5, <2>2 DEF ExpectedStatus, HeadError, Line
  <2>3. CASE request.headers # <<>> /\ request.line = "ok"
    BY <1>2, <1>3, <1>4, <1>5, <2>3 DEF ExpectedStatus, HeadError
  <2> QED
    BY <2>1, <2>2, <2>3
<1>6. ~Fits => ExpectedStatus = 400
  BY DEF ExpectedStatus
<1>7. ASSUME HeadError = 0 PROVE HasHeader("length") /\ ~TooLong(content_length)
  BY <1>1, <1>7 DEF HeadError, Line
<1> QED
  BY <1>3, <1>4, <1>5, <1>6, <1>7

(***************************************************************************)
(* A refusal is expected with the name the code gives to its status.       *)
(***************************************************************************)
LEMMA ErrorExpected ==
  ASSUME ExpectedStatus \in {400, 404, 405, 413}
  PROVE  Expected = [status |-> ExpectedStatus,
                     body |-> server_http_error_status_name(ExpectedStatus)]
<1>1. ExpectedError = server_http_error_status_name(ExpectedStatus)
  BY DEF ExpectedError, server_http_error_status_name
<1> QED
  BY <1>1 DEF Expected

(***************************************************************************)
(* A part of the stream has the length it should have, and two parts that  *)
(* touch make one.                                                         *)
(***************************************************************************)
LEMMA StreamFacts ==
  ASSUME NEW from \in Nat, NEW k \in Nat
  PROVE  Stream(from, from + k) \in Seq(Nat) /\ Len(Stream(from, from + k)) = k
<1>1. (from + k) - from = k
  OBVIOUS
<1>2. Stream(from, from + k) = [i \in 1 .. k |-> from + i]
  BY <1>1 DEF Stream
<1> QED
  BY <1>2

LEMMA StreamJoins ==
  ASSUME NEW from \in Nat, NEW k \in Nat, NEW n \in Nat
  PROVE  Stream(from, from + k) \o Stream(from + k, from + k + n)
           = Stream(from, from + (k + n))
<1>1. /\ Stream(from, from + k) = [i \in 1 .. k |-> from + i]
      /\ Stream(from + k, from + k + n) = [i \in 1 .. n |-> from + k + i]
      /\ Stream(from, from + (k + n)) = [i \in 1 .. k + n |-> from + i]
  <2>1. /\ (from + k) - from = k /\ (from + k + n) - (from + k) = n
        /\ from + (k + n) - from = k + n
    OBVIOUS
  <2> QED
    BY <2>1 DEF Stream
<1> DEFINE s == [i \in 1 .. k |-> from + i]
           t == [i \in 1 .. n |-> from + k + i]
           u == [i \in 1 .. k + n |-> from + i]
<1>2. /\ s \in Seq(Nat) /\ t \in Seq(Nat) /\ u \in Seq(Nat)
      /\ Len(s) = k /\ Len(t) = n /\ Len(u) = k + n
  OBVIOUS
<1>3. ASSUME NEW i \in 1 .. k + n PROVE (IF i <= k THEN s[i] ELSE t[i - k]) = u[i]
  <2>1. CASE i <= k
    BY <2>1
  <2>2. CASE i > k
    <3>1. i - k \in 1 .. n /\ from + k + (i - k) = from + i
      BY <2>2
    <3> QED
      BY <2>2, <3>1
  <2> QED
    BY <2>1, <2>2
<1> HIDE DEF s, t, u
<1>4. /\ s \o t \in Seq(Nat) /\ Len(s \o t) = k + n
      /\ \A i \in 1 .. k + n : (s \o t)[i] = IF i <= k THEN s[i] ELSE t[i - k]
  <2>1. /\ s \o t \in Seq(Nat) /\ Len(s \o t) = Len(s) + Len(t)
        /\ \A i \in 1 .. Len(s) + Len(t) :
             (s \o t)[i] = IF i <= Len(s) THEN s[i] ELSE t[i - Len(s)]
    BY <1>2, ConcatProperties
  <2> QED
    BY <1>2, <2>1
<1>5. s \o t = u
  <2>1. Len(s \o t) = Len(u) /\ \A i \in 1 .. Len(s \o t) : (s \o t)[i] = u[i]
    BY <1>2, <1>3, <1>4
  <2> QED
    BY <1>2, <1>4, <2>1, SeqEqual
<1> QED
  BY <1>1, <1>5 DEF s, t, u

(***************************************************************************)
(* What is expected depends on the request alone, which never changes.     *)
(***************************************************************************)
LEMMA SameRequest ==
  ASSUME [Next]_vars
  PROVE  /\ request' = request /\ content_length' = content_length
         /\ HeadError' = HeadError /\ Fits' = Fits /\ Expected' = Expected
<1>1. request' = request
  BY DEF Next, HandlerStep, vars, HeadersTooLong, TimeOut, ParseHead, BodyRead, ParseSql,
         Insert, Select, Encode, EncodeFails, BuildErrorBody, ErrorBodyFails, SendHead,
         SendBody, SendFails, RecvHeaders, RecvBody, PeerGone, Returned
<1>2. content_length' = content_length
  BY <1>1 DEF content_length, announced, strtoul, LengthHeaders
<1>3. HeadError' = HeadError
  BY <1>1, <1>2 DEF HeadError, HasHeader, TooLong
<1>4. Fits' = Fits
  BY <1>1 DEF Fits
<1>5. Expected' = Expected
  <2>1. LengthHeaders' = LengthHeaders /\ Taken' = Taken /\ BadHeader' = BadHeader
    BY <1>1 DEF Taken, announced, strtoul, LengthHeaders, BadHeader
  <2>2. ExpectedStatus' = ExpectedStatus
    BY <1>1, <1>4, <2>1 DEF ExpectedStatus
  <2>3. ExpectedStatement' = ExpectedStatement
    BY <1>1, <2>1 DEF ExpectedStatement
  <2> QED
    BY <2>2, <2>3 DEF Expected, ExpectedError
<1> QED
  BY <1>1, <1>2, <1>3, <1>4, <1>5

-----------------------------------------------------------------------------
(* Init, and what every action does to each part of the invariant.         *)

(***************************************************************************)
(* The invariant holds when the connection is handed to a worker.          *)
(***************************************************************************)
LEMMA Initial == Init => Inv
<1> SUFFICES ASSUME Init PROVE Inv
  OBVIOUS
<1>1. Types
  BY DEF Init, Types, Stage, BeforeQuery, NoAnswer, Said
<1>2. request.head \in Nat \ {0}
  BY RequestAssumption DEF Init
<1>3. Reading
  BY <1>2, SizesAssumption DEF Init, Reading
<1>4. Deciding /\ Storing
  BY DEF Init, Deciding, Storing, BeforeQuery, NoAnswer
<1> QED
  BY <1>1, <1>3, <1>4 DEF Inv

(***************************************************************************)
(* What is read of the body is the next part of the stream.                *)
(***************************************************************************)
LEMMA RecvBodyFacts ==
  ASSUME Inv, NEW n \in 1 .. MAX_BODY, RecvBody(n)
  PROVE  /\ body' \in Seq(Nat) /\ Len(body') = Len(body) + n
         /\ body' = Stream(request.head, request.head + Len(body'))
         /\ received = request.head + Len(body)
<1>1. /\ n <= content_length - Len(body) /\ HeadError = 0
      /\ body' = body \o Stream(received, received + n)
      /\ body = Stream(request.head, request.head + Len(body))
      /\ Len(body) < content_length => received = request.head + Len(body)
      /\ body \in Seq(Nat)
  BY DEF Inv, Types, Reading, RecvBody
<1>2. Len(body) \in Nat /\ n \in Nat /\ n >= 1
  BY <1>1, SizesAssumption
<1>3. content_length \in Nat /\ request.head \in Nat
  BY <1>1, HeadFacts DEF Inv, Types
<1>4. received = request.head + Len(body)
  BY <1>1, <1>2, <1>3
<1>5. body' = Stream(request.head, request.head + (Len(body) + n))
  <2> DEFINE k == Len(body)
             f == request.head
  <2>1. body' = Stream(f, f + k) \o Stream(f + k, f + k + n)
    BY <1>1, <1>4
  <2> HIDE DEF k, f
  <2> QED
    BY <1>2, <1>3, <2>1, StreamJoins DEF k, f
<1>6. body' \in Seq(Nat) /\ Len(body') = Len(body) + n
  BY <1>2, <1>3, <1>5, Len(body) + n \in Nat, StreamFacts
<1> QED
  BY <1>4, <1>5, <1>6

(***************************************************************************)
(* What of the body has come along with the head is the first part of it.  *)
(***************************************************************************)
LEMMA ParseFacts ==
  ASSUME Inv, pc = "parse", HeadError = 0,
         body' = Stream(body_offset, body_offset + body_available)
  PROVE  /\ body' \in Seq(Nat) /\ Len(body') <= content_length
         /\ body' = Stream(request.head, request.head + Len(body'))
         /\ Len(body') < content_length => received = request.head + Len(body')
<1>1. request.head \in Nat /\ content_length \in Nat
  BY HeadFacts DEF Inv, Types
<1>2. received \in Nat /\ request.head <= received
  BY DEF Inv, Types, Reading
<1> DEFINE a == received - request.head
           S == {a, content_length}
<1>3. S \in SUBSET Nat /\ S # {}
  BY <1>1, <1>2
<1>4. Min(S) \in S /\ \A k \in S : Min(S) <= k
  <2> HIDE DEF S
  <2> QED
    BY <1>3, MinFacts
<1>5. body_available = Min(S)
  BY DEF body_available, body_offset
<1>6. /\ body_available \in Nat /\ body_available <= content_length
      /\ body_available < content_length => body_available = a
  BY <1>1, <1>2, <1>4, <1>5
<1>7. body' \in Seq(Nat) /\ Len(body') = body_available
  BY <1>1, <1>6, StreamFacts DEF body_offset
<1> QED
  BY <1>1, <1>2, <1>6, <1>7 DEF body_offset

(***************************************************************************)
(* Types are kept.                                                         *)
(***************************************************************************)
LEMMA TypesStep == Inv /\ [Next]_vars => Types'
<1> SUFFICES ASSUME Inv, [Next]_vars PROVE Types'
  OBVIOUS
<1> USE DEF Stage, BeforeQuery, Said
<1>0. Types /\ request' = request
  BY SameRequest DEF Inv
<1>1. ASSUME NEW n \in 1 .. MAX_REQUEST, RecvHeaders(n) PROVE Types'
  BY <1>0, <1>1 DEF RecvHeaders, Types
<1>2. CASE HeadersTooLong \/ TimeOut \/ PeerGone \/ EncodeFails
  BY <1>0, <1>2 DEF HeadersTooLong, TimeOut, PeerGone, EncodeFails, Reject, Types
<1>3. CASE ParseHead
  <2>1. HeadError \in Nat
    BY <1>0, HeadFacts DEF Types
  <2>2. CASE HeadError # 0
    BY <1>0, <1>3, <2>1, <2>2 DEF ParseHead, Reject, Types
  <2>3. CASE HeadError = 0
    <3>1. body' \in Seq(Nat)
      BY <1>3, <2>3, ParseFacts DEF ParseHead
    <3> QED
      BY <1>0, <1>3, <2>3, <3>1 DEF ParseHead, Types
  <2> QED
    BY <2>2, <2>3
<1>4. ASSUME NEW n \in 1 .. MAX_BODY, RecvBody(n) PROVE Types'
  <2>1. body' \in Seq(Nat)
    BY <1>4, RecvBodyFacts
  <2> QED
    BY <1>0, <1>4, <2>1 DEF RecvBody, Types
<1>5. CASE BodyRead \/ ParseSql \/ Insert \/ Select
  BY <1>0, <1>5 DEF BodyRead, ParseSql, Insert, Select, Types
<1>6. CASE Encode
  <2>1. HttpStatus(result) \in Nat /\ result \in Result
    BY <1>6 DEF HttpStatus, Encode, Inv, Storing
  <2> QED
    BY <1>0, <1>6, <2>1 DEF Encode, Types
<1>7. CASE BuildErrorBody
  <2>1. server_http_error_status_name(answer.status) \in ErrorName
    <3>1. answer.status \in Nat
      BY <1>0 DEF Types
    <3> QED
      BY <3>1 DEF server_http_error_status_name, ErrorName
  <2> QED
    BY <1>0, <1>7, <2>1 DEF BuildErrorBody, Types
<1>8. CASE ErrorBodyFails \/ SendHead \/ SendBody \/ SendFails
  BY <1>0, <1>8 DEF ErrorBodyFails, SendHead, SendBody, SendFails, Types
<1>9. CASE UNCHANGED vars
  BY <1>0, <1>9 DEF vars, Types
<1> QED
  BY <1>1, <1>2, <1>3, <1>4, <1>5, <1>6, <1>7, <1>8, <1>9 DEF Next, HandlerStep, Returned

(***************************************************************************)
(* The handler never loses its place in the stream.                        *)
(***************************************************************************)
LEMMA ReadingStep == Inv /\ [Next]_vars => Reading'
<1> SUFFICES ASSUME Inv, [Next]_vars PROVE Reading'
  OBVIOUS
<1>0. /\ request' = request /\ content_length' = content_length
      /\ HeadError' = HeadError /\ Fits' = Fits
  BY SameRequest
<1>1. /\ received \in Nat /\ MAX_REQUEST \in Nat /\ MAX_BODY \in Nat
      /\ request.head \in Nat /\ request.rest \in Nat /\ body \in Seq(Nat) /\ Len(body) \in Nat
  BY HeadFacts, SizesAssumption DEF Inv, Types
<1>2. HeadError = 0 => content_length \in 0 .. MAX_BODY
  BY HeadFacts DEF Inv, Types
<1>3. Reading
  BY DEF Inv
<1>4. ASSUME NEW n \in 1 .. MAX_REQUEST, RecvHeaders(n) PROVE Reading'
  <2>1. /\ pc = "headers" /\ n <= MAX_REQUEST - received /\ received' = received + n
        /\ pc' = IF received + n >= request.head THEN "parse" ELSE "headers"
        /\ body' = body
    BY <1>4 DEF RecvHeaders
  <2> QED
    BY <1>0, <1>1, <1>3, <2>1 DEF Reading
<1>5. CASE ParseHead /\ HeadError = 0
  <2>1. pc = "parse" /\ pc' = "body" /\ received' = received
    BY <1>5 DEF ParseHead
  <2>2. /\ body' \in Seq(Nat) /\ Len(body') <= content_length
        /\ body' = Stream(request.head, request.head + Len(body'))
        /\ Len(body') < content_length => received = request.head + Len(body')
    BY <1>5, <2>1, ParseFacts DEF ParseHead
  <2>3. Len(body') \in Nat
    BY <2>2
  <2>4. Fits
    BY <1>1, <1>3, <2>1 DEF Reading, Fits
  <2> QED
    BY <1>0, <1>1, <1>2, <1>3, <1>5, <2>1, <2>2, <2>3, <2>4 DEF Reading
<1>6. ASSUME NEW n \in 1 .. MAX_BODY, RecvBody(n) PROVE Reading'
  <2>1. /\ pc = "body" /\ pc' = "body" /\ received' = received + n
        /\ n <= content_length - Len(body)
    BY <1>6 DEF RecvBody
  <2>2. /\ body' \in Seq(Nat) /\ Len(body') = Len(body) + n
        /\ body' = Stream(request.head, request.head + Len(body'))
        /\ received = request.head + Len(body)
    BY <1>6, RecvBodyFacts
  <2>3. request.head <= MAX_REQUEST /\ content_length \in 0 .. MAX_BODY
    BY <1>2, <1>3, <2>1 DEF Reading, Fits
  <2>4. received' <= MAX_REQUEST + MAX_BODY /\ Len(body') <= content_length
    <3>1. Len(body') = Len(body) + n /\ received = request.head + Len(body)
      BY <2>2
    <3>2. Len(body) + n <= content_length
      BY <1>1, <2>1, <2>3
    <3> QED
      BY <1>1, <2>1, <2>3, <3>1, <3>2
  <2>5. received' = request.head + Len(body')
    BY <1>1, <2>1, <2>2
  <2> QED
    BY <1>0, <1>1, <1>2, <1>3, <2>1, <2>2, <2>3, <2>4, <2>5 DEF Reading
<1>7. CASE BodyRead
  BY <1>0, <1>1, <1>2, <1>3, <1>7 DEF BodyRead, Reading
<1>8. CASE ParseSql \/ Insert \/ Select
  <2>1. pc = "query" /\ pc' = "encode" /\ body' = body /\ received' = received
    BY <1>8 DEF ParseSql, Insert, Select
  <2> QED
    BY <1>0, <1>3, <2>1 DEF Reading
<1>9. ASSUME pc' \in {"error", "send_head", "send_body", "closed"},
             body' = body, received' = received
      PROVE  Reading'
  BY <1>3, <1>9 DEF Reading
<1>10. CASE HeadersTooLong \/ TimeOut \/ PeerGone \/ EncodeFails \/ (ParseHead /\ HeadError # 0)
  BY <1>9, <1>10 DEF HeadersTooLong, TimeOut, PeerGone, EncodeFails, ParseHead, Reject
<1>11. CASE Encode \/ BuildErrorBody \/ ErrorBodyFails \/ SendHead \/ SendBody \/ SendFails
  BY <1>9, <1>11 DEF Encode, BuildErrorBody, ErrorBodyFails, SendHead, SendBody, SendFails
<1>12. CASE UNCHANGED vars
  BY <1>0, <1>3, <1>12 DEF vars, Reading
<1> QED
  BY <1>4, <1>5, <1>6, <1>7, <1>8, <1>10, <1>11, <1>12 DEF Next, HandlerStep, Returned

(***************************************************************************)
(* As long as nothing fails each stage decides what is expected of it.     *)
(***************************************************************************)
LEMMA DecidingStep == Inv /\ [Next]_vars => Deciding'
<1> SUFFICES ASSUME Inv, [Next]_vars, ~fault' PROVE Deciding'
  BY DEF Deciding
<1>0. Expected' = Expected
  BY SameRequest
<1>1. Deciding /\ Types /\ Reading
  BY DEF Inv
<1>2. request.head \in Nat /\ HeadError \in {0, 400, 404, 405, 413} /\ received \in Nat
  BY <1>1, HeadFacts DEF Types
<1>3. CASE HeadersTooLong
  <2>1. /\ pc = "headers" /\ pc' = "error" /\ received = MAX_REQUEST /\ answer'.status = 400
    BY <1>1, <1>3 DEF HeadersTooLong, Reject, Types
  <2>2. ~Fits
    BY <1>1, <1>2, <2>1 DEF Reading, Fits
  <2>3. Expected = [status |-> 400, body |-> server_http_error_status_name(400)]
    BY <1>1, <2>2, HeadExpected, ErrorExpected DEF Types
  <2> QED
    BY <1>0, <2>1, <2>3 DEF Deciding
<1>4. CASE ParseHead
  <2>1. pc = "parse"
    BY <1>4 DEF ParseHead
  <2>2. CASE HeadError # 0
    <3>1. pc' = "error" /\ answer'.status = HeadError
      BY <1>1, <1>4, <2>2 DEF ParseHead, Reject, Types
    <3>2. Fits
      BY <1>1, <1>2, <2>1, SizesAssumption DEF Reading, Fits
    <3>3. Expected = [status |-> HeadError, body |-> server_http_error_status_name(HeadError)]
      BY <1>1, <1>2, <2>2, <3>2, HeadExpected, ErrorExpected DEF Types
    <3> QED
      BY <1>0, <3>1, <3>3 DEF Deciding
  <2>3. CASE HeadError = 0
    BY <1>4, <2>3 DEF ParseHead, Deciding
  <2> QED
    BY <2>2, <2>3
<1>5. CASE ParseSql \/ Insert \/ Select
  <2>1. /\ pc = "query" /\ pc' = "encode"
        /\ \/ Statement = "wrong" /\ result' = "sql_error"
           \/ Statement = "exit" /\ result' = "exit_not_supported"
           \/ Statement \in {"insert", "select"} /\ result' = Statement
    BY <1>5 DEF ParseSql, Insert, Select
  <2>2. /\ Fits /\ HeadError = 0 /\ Len(body) = content_length /\ body \in Seq(Nat)
    BY <1>1, <2>1 DEF Reading, Types
  <2>3. request.sql \in Sql /\ request.cut \in Sql /\ request.zero \in Nat
    BY <1>1, RequestAssumption DEF Types
  <2>4. /\ content_length \in Nat /\ (content_length = 0 <=> body = <<>>)
        /\ ExpectedStatus = 0 /\ Taken = Len(body)
    BY <1>1, <2>2, EmptySeq, HeadExpected DEF Types
  <2>5. Statement = ExpectedStatement /\ ExpectedStatement \in Sql
    BY <2>2, <2>3, <2>4 DEF Statement, ExpectedStatement, Sql
  <2>6. Expected = CASE ExpectedStatement = "wrong" -> [status |-> 200, body |-> "sql_error"]
                     [] ExpectedStatement = "exit" ->
                          [status |-> 400, body |-> "exit_not_supported"]
                     [] ExpectedStatement \in {"insert", "select"} ->
                          [status |-> 200, body |-> ExpectedStatement]
    BY <2>4 DEF Expected
  <2>7. Expected = [status |-> HttpStatus(result'), body |-> result']
    BY <2>1, <2>5, <2>6 DEF HttpStatus, Sql
  <2> QED
    BY <1>0, <2>1, <2>7 DEF Deciding
<1>6. CASE Encode
  BY <1>0, <1>1, <1>6 DEF Encode, Deciding
<1>7. CASE BuildErrorBody
  <2>1. /\ pc = "error" /\ pc' = "send_head" /\ fault' = fault
        /\ answer' = [status |-> answer.status,
                      body |-> server_http_error_status_name(answer.status)]
    BY <1>1, <1>7 DEF BuildErrorBody, Types
  <2> QED
    BY <1>0, <1>1, <2>1 DEF Deciding
<1>8. CASE SendHead \/ SendBody
  BY <1>0, <1>1, <1>8 DEF SendHead, SendBody, Deciding
<1>9. CASE TimeOut \/ PeerGone \/ EncodeFails \/ ErrorBodyFails \/ SendFails
  BY <1>9 DEF TimeOut, PeerGone, EncodeFails, ErrorBodyFails, SendFails
<1>10. CASE BodyRead \/ (\E n \in 1 .. MAX_REQUEST : RecvHeaders(n))
                     \/ (\E n \in 1 .. MAX_BODY : RecvBody(n))
  <2>1. pc' \in BeforeQuery
    BY <1>10 DEF BodyRead, RecvHeaders, RecvBody, BeforeQuery
  <2> QED
    BY <2>1 DEF Deciding, BeforeQuery
<1>11. CASE UNCHANGED vars
  BY <1>0, <1>1, <1>11 DEF vars, Deciding
<1> QED
  BY <1>3, <1>4, <1>5, <1>6, <1>7, <1>8, <1>9, <1>10, <1>11 DEF Next, HandlerStep, Returned

(***************************************************************************)
(* The answer never says of the table what is not so.                      *)
(***************************************************************************)
LEMMA StoringStep == Inv /\ [Next]_vars => Storing'
<1> SUFFICES ASSUME Inv, [Next]_vars PROVE Storing'
  OBVIOUS
<1>1. Storing /\ Types
  BY DEF Inv
<1>2. HeadError \in {0, 400, 404, 405, 413}
  BY <1>1, HeadFacts DEF Types
<1> USE DEF BeforeQuery
<1>3. CASE HeadersTooLong \/ TimeOut \/ PeerGone \/ (ParseHead /\ HeadError # 0)
  <2>1. /\ pc \in BeforeQuery /\ pc' = "error" /\ stored' = stored
        /\ answer'.body = answer.body
    BY <1>1, <1>3 DEF HeadersTooLong, TimeOut, PeerGone, ParseHead, Reject, InRecv, Types
  <2> QED
    BY <1>1, <2>1 DEF Storing
<1>4. CASE EncodeFails
  <2>1. /\ pc = "encode" /\ pc' = "error" /\ stored' = stored
        /\ answer'.body = answer.body /\ answer'.status = 500
    BY <1>1, <1>4 DEF EncodeFails, Reject, Types
  <2> QED
    BY <1>1, <2>1 DEF Storing
<1>5. CASE BodyRead \/ (ParseHead /\ HeadError = 0)
            \/ (\E n \in 1 .. MAX_REQUEST : RecvHeaders(n))
            \/ (\E n \in 1 .. MAX_BODY : RecvBody(n))
  <2>1. pc \in BeforeQuery /\ pc' \in BeforeQuery /\ stored' = stored /\ answer' = answer
    BY <1>5 DEF BodyRead, ParseHead, RecvHeaders, RecvBody
  <2> QED
    BY <1>1, <2>1 DEF Storing
<1>6. CASE ParseSql \/ Insert \/ Select
  <2>1. /\ pc = "query" /\ pc' = "encode" /\ answer' = answer
        /\ result' \in Result
        /\ \/ stored' = stored /\ result' # "insert"
           \/ stored' = TRUE /\ result' = "insert"
           \/ stored' = FALSE /\ result' # "insert"
    BY <1>6 DEF ParseSql, Insert, Select, Result
  <2> QED
    BY <1>1, <2>1 DEF Storing
<1>7. CASE Encode
  <2>1. /\ pc = "encode" /\ pc' = "send_head" /\ stored' = stored
        /\ answer'.status = HttpStatus(result) /\ answer'.body = result
    BY <1>7 DEF Encode
  <2>2. HttpStatus(result) \in {200, 400, 500} /\ (result = "insert" => HttpStatus(result) = 200)
    BY DEF HttpStatus
  <2> QED
    BY <1>1, <2>1, <2>2 DEF Storing
<1>8. CASE BuildErrorBody
  <2>1. /\ pc = "error" /\ pc' = "send_head" /\ stored' = stored /\ answer'.status = answer.status
        /\ answer'.body = server_http_error_status_name(answer.status)
    BY <1>1, <1>8 DEF BuildErrorBody, Types
  <2>2. server_http_error_status_name(answer.status) # "insert"
    BY DEF server_http_error_status_name
  <2> QED
    BY <1>1, <2>1, <2>2 DEF Storing
<1>9. CASE ErrorBodyFails \/ SendHead \/ SendBody \/ SendFails
  <2>1. pc' \in {"send_body", "closed"} /\ stored' = stored /\ answer' = answer
    BY <1>9 DEF ErrorBodyFails, SendHead, SendBody, SendFails
  <2> QED
    BY <1>1, <2>1 DEF Storing
<1>10. CASE UNCHANGED vars
  BY <1>1, <1>10 DEF vars, Storing
<1> QED
  BY <1>3, <1>4, <1>5, <1>6, <1>7, <1>8, <1>9, <1>10 DEF Next, HandlerStep, Returned

(***************************************************************************)
(* The parts together.                                                     *)
(***************************************************************************)
LEMMA Invariance == Spec => []Inv
<1>1. Inv /\ [Next]_vars => Inv'
  BY TypesStep, ReadingStep, DecidingStep, StoringStep DEF Inv
<1> QED
  BY Initial, <1>1, PTL DEF Spec

-----------------------------------------------------------------------------
(***************************************************************************)
(* read_until_header_end and http_read_request stay within their buffers,  *)
(* whatever Content-Length says and however the stream is cut.             *)
(***************************************************************************)
THEOREM BuffersHold == Spec => []WithinBuffers
<1>1. Inv => WithinBuffers
  BY DEF Inv, Reading, WithinBuffers
<1> QED
  BY <1>1, Invariance, PTL

(***************************************************************************)
(* api_handle_query gets the Content-Length bytes after the head, all of   *)
(* them, in order, and nothing else.                                       *)
(***************************************************************************)
THEOREM ExactBody == Spec => []BodyIsExact
<1>1. Inv => BodyIsExact
  BY DEF Inv, Reading, BodyIsExact
<1> QED
  BY <1>1, Invariance, PTL

(***************************************************************************)
(* When neither the client nor the machine fails, the whole answer is sent *)
(* and it is a function of the request.                                    *)
(***************************************************************************)
THEOREM ExpectedAnswer == Spec => []FaultlessAnswer
<1>1. Inv => FaultlessAnswer
  BY DEF Inv, Deciding, FaultlessAnswer
<1> QED
  BY <1>1, Invariance, PTL

(***************************************************************************)
(* A success that is reported has happened; an INSERT that is refused with *)
(* an error of the client's has stored nothing.                            *)
(***************************************************************************)
THEOREM TrueAnswer == Spec => []InsertAnswerTrue
<1>1. Inv => InsertAnswerTrue
  BY DEF Inv, Storing, InsertAnswerTrue
<1> QED
  BY <1>1, Invariance, PTL
=============================================================================
