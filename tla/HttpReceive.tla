------------------------------ MODULE HttpReceive ------------------------------
(***************************************************************************)
(* receive_request of src/tools/branchscore_server.cpp: one request is     *)
(* read off a blocking socket and handed to the llhttp parser, whose       *)
(* callbacks collect it in a ParseContext and refuse it as soon as a limit *)
(* or a check fails.  The peer decides how its bytes are cut into reads    *)
(* and when they arrive; a read that spans several parts of the message is *)
(* a sequence of steps of this module with no time passing in between.     *)
(*                                                                         *)
(* llhttp itself is external: it splits the bytes into parts, and calls    *)
(* the header callbacks for trailers after a chunked body as well.  A      *)
(* header is the name the server looks at ("other" for the rest), what its *)
(* value means to the server, and its size in bytes.                       *)
(***************************************************************************)
EXTENDS Sums, Sequences, FiniteSetsExt

CONSTANTS
  Requests,         \* the requests considered
  MaxUrl,           \* 4096
  MaxMethod,        \* 32
  MaxHeaderBytes,   \* max_request_header_bytes
  MaxHeaderCount,   \* max_request_header_count
  MaxBody,          \* max_request_body_bytes
  SeparatorBytes,   \* what the server counts for ": " and CRLF of a header
  ReadTimeout       \* connection_timeout, in ticks

ASSUME LimitsAssumption ==
  /\ {MaxUrl, MaxMethod, MaxHeaderBytes, MaxHeaderCount, MaxBody,
      SeparatorBytes, ReadTimeout} \subseteq Nat
  /\ ReadTimeout > 0
  /\ MaxMethod + MaxUrl <= MaxHeaderBytes

HeaderType ==
  {header \in [name : STRING, value : STRING, name_size : Nat, value_size : Nat] :
     header.name = "authorization" => header.value \in {"none", "valid", "wrong"}}

\* llhttp accepts the methods it knows, the longest of them has 11 letters.
ASSUME RequestsAssumption ==
  \A r \in Requests :
    /\ {r.method_size, r.url_size, r.body} \subseteq Nat
    /\ r.method_size <= MaxMethod
    /\ {r.headers, r.trailers} \subseteq Seq(HeaderType)

VARIABLES
  request,          \* what the peer sends
  require_bearer,   \* TRUE on a non-loopback bind
  next,             \* <<part, bytes of it>> the parser expects next
  header_bytes,
  header_count,
  authorization,    \* the value of the last Authorization header
  authorization_count,
  content_type_count,
  content_type,     \* the value of the last Content-Type header, a trailer's included
  content_encoding,
  expect,
  body_size,
  sound,            \* FALSE once the peer has broken its side of the connection
  clock,
  deadline,
  failure_status,   \* 0 while nothing has failed
  complete          \* the message has been parsed to its end

context == <<header_bytes, header_count, authorization, authorization_count,
             content_type_count, content_type, content_encoding, expect, body_size>>
vars == <<request, require_bearer, next, context, sound, clock, deadline,
          failure_status, complete>>

Reading == failure_status = 0 /\ ~complete

\* ---- the parts of a message, in the order the parser meets them ----------

Part(kind, size) == [kind |-> kind, size |-> size]

HeaderParts(headers) ==
  [i \in 1 .. 2 * Len(headers) |->
     LET header == headers[(i + 1) \div 2]
     IN IF i % 2 = 1 THEN Part("field", header.name_size)
        ELSE [kind |-> "value", size |-> header.value_size, header |-> header]]

Parts(r) ==
  <<Part("method", r.method_size), Part("url", r.url_size), Part("version", 3)>>
    \o HeaderParts(r.headers)
    \o <<Part("headers_complete", 0)>>
    \o (IF r.body = 0 THEN <<>> ELSE <<Part("body", r.body)>>)
    \o HeaderParts(r.trailers)
    \o <<Part("message_complete", 0)>>

part == Parts(request)[next[1]]
seen == next[2]                     \* bytes of this part handed over so far

Ended(count) == seen + count = part.size
Advance(count) ==
  next' = IF Ended(count) THEN <<next[1] + 1, 0>> ELSE <<next[1], seen + count>>

\* ---- the checks ----------------------------------------------------------

HeaderRoomPerPart == MaxHeaderBytes - seen
HeaderRoom == MaxHeaderBytes - header_bytes

LineLimitPerRead(count, limit) == count <= limit
LineFits(count, limit) == count <= limit - seen

Authorized == authorization = "valid"

PublicRoute == request.url = "/ui"

\* on_headers_complete: the first check that fails decides.
HeadFailureUnauthenticated ==
  IF authorization_count > 1 \/ content_type_count > 1 THEN 400
  ELSE IF request.content_length > MaxBody THEN 413
  ELSE IF expect # "" THEN 417
  ELSE IF content_encoding \notin {"", "identity"} THEN 415
  ELSE 0
HeadFailure ==
  IF authorization_count > 1 \/ content_type_count > 1 THEN 400
  ELSE IF require_bearer /\ ~PublicRoute /\ ~Authorized THEN 401
  ELSE IF request.content_length > MaxBody THEN 413
  ELSE IF expect # "" THEN 417
  ELSE IF content_encoding \notin {"", "identity"} THEN 415
  ELSE 0

\* ---- actions --------------------------------------------------------------

Init ==
  /\ request \in Requests
  /\ require_bearer \in BOOLEAN
  /\ next = <<1, 0>>
  /\ header_bytes = 0
  /\ header_count = 0
  /\ authorization = "none"
  /\ authorization_count = 0
  /\ content_type_count = 0
  /\ content_type = ""
  /\ content_encoding = ""
  /\ expect = ""
  /\ body_size = 0
  /\ sound = TRUE
  /\ clock = 0
  /\ deadline = ReadTimeout
  /\ failure_status = 0
  /\ complete = FALSE

Fail(code) ==
  /\ failure_status' = code
  /\ UNCHANGED <<next, context, complete>>

\* The deadline is for the whole request, not for each read of it.
RenewedDeadline == clock + ReadTimeout
NextDeadline == deadline

\* wait_for finds data and recv returns `count` bytes of the current part (none for
\* the events that end the head and the message).  wait_for checks the time left
\* before it polls, so a poll that began in time may find data at the deadline.
Receives(kinds, count) ==
  /\ Reading
  /\ clock <= deadline
  /\ part.kind \in kinds
  /\ count \in (IF part.size = 0 THEN 0 ELSE 1) .. (part.size - seen)
  /\ deadline' = NextDeadline
  /\ UNCHANGED <<request, require_bearer, sound, clock>>

\* on_method, on_url: append_request_line_part
ReceiveLinePart(count) ==
  /\ Receives({"method", "url"}, count)
  /\ IF ~LineFits(count, IF part.kind = "url" THEN MaxUrl ELSE MaxMethod)
       THEN Fail(414)
     ELSE IF count > HeaderRoom THEN Fail(431)
     ELSE /\ header_bytes' = header_bytes + count
          /\ Advance(count)
          /\ UNCHANGED <<header_count, authorization, authorization_count,
                         content_type_count, content_type, content_encoding, expect,
                         body_size, failure_status, complete>>

\* on_version, on_header_field.  The limit on the name alone is the limit on all
\* header bytes, which the name is part of.
ReceiveCounted(count) ==
  /\ Receives({"version", "field"}, count)
  /\ IF count > HeaderRoom THEN Fail(431)
     ELSE /\ header_bytes' = header_bytes + count
          /\ Advance(count)
          /\ UNCHANGED <<header_count, authorization, authorization_count,
                         content_type_count, content_type, content_encoding, expect,
                         body_size, failure_status, complete>>

\* on_header_value, and on_header_value_complete when the value ends.
CompleteHeader(header) ==
  /\ authorization' =
       IF header.name = "authorization" THEN header.value ELSE authorization
  /\ authorization_count' =
       authorization_count + (IF header.name = "authorization" THEN 1 ELSE 0)
  /\ content_type_count' =
       content_type_count + (IF header.name = "content-type" THEN 1 ELSE 0)
  /\ content_type' = IF header.name = "content-type" THEN header.value ELSE content_type
  /\ content_encoding' =
       IF header.name = "content-encoding" THEN header.value ELSE content_encoding
  /\ expect' = IF header.name = "expect" THEN header.value ELSE expect

ReceiveHeaderValue(count) ==
  /\ Receives({"value"}, count)
  /\ IF \/ count > HeaderRoom
        \/ /\ Ended(count)
           /\ SeparatorBytes > HeaderRoom - count \/ header_count + 1 > MaxHeaderCount
       THEN Fail(431)
     ELSE /\ Advance(count)
          /\ IF Ended(count)
               THEN /\ header_bytes' = header_bytes + count + SeparatorBytes
                    /\ header_count' = header_count + 1
                    /\ CompleteHeader(part.header)
               ELSE /\ header_bytes' = header_bytes + count
                    /\ UNCHANGED <<header_count, authorization, authorization_count,
                                   content_type_count, content_type,
                                   content_encoding, expect>>
          /\ UNCHANGED <<body_size, failure_status, complete>>

HeadersComplete ==
  /\ Receives({"headers_complete"}, 0)
  /\ IF HeadFailure # 0 THEN Fail(HeadFailure)
     ELSE Advance(0) /\ UNCHANGED <<context, failure_status, complete>>

BodyRoom == MaxBody - body_size

\* on_body: the body may be chunked, so its size is only known as it arrives.
ReceiveBody(count) ==
  /\ Receives({"body"}, count)
  /\ IF count > BodyRoom THEN Fail(413)
     ELSE /\ body_size' = body_size + count
          /\ Advance(count)
          /\ UNCHANGED <<header_bytes, header_count, authorization,
                         authorization_count, content_type_count, content_type,
                         content_encoding, expect, failure_status, complete>>

\* on_message_complete pauses the parser: bytes after the message are not read.
MessageComplete ==
  /\ Receives({"message_complete"}, 0)
  /\ complete' = TRUE
  /\ UNCHANGED <<next, context, failure_status>>

Ends(code) ==
  /\ Reading
  /\ failure_status' = code
  /\ UNCHANGED <<request, require_bearer, next, context, sound, clock, deadline,
                 complete>>

\* No time is left when wait_for is entered, or the poll ends without data.
ExpiredAfter == clock > deadline
Expired == clock >= deadline
TimeOut == Expired /\ Ends(408)

\* The peer closes or resets the connection, or sends what llhttp does not accept
\* as HTTP.  Bytes it sent before may still be read.
PeerBreaks ==
  /\ Reading
  /\ sound
  /\ sound' = FALSE
  /\ UNCHANGED <<request, require_bearer, next, context, clock, deadline,
                 failure_status, complete>>

\* recv returns 0 or an error, or llhttp reports one.
Broken == ~sound /\ clock <= deadline /\ Ends(400)

Tick ==
  /\ Reading
  /\ clock < deadline
  /\ clock' = clock + 1
  /\ UNCHANGED <<request, require_bearer, next, context, sound, deadline,
                 failure_status, complete>>

Received == ~Reading /\ UNCHANGED vars

Read ==
  \/ \E count \in 0 .. part.size :
       \/ ReceiveLinePart(count)
       \/ ReceiveCounted(count)
       \/ ReceiveHeaderValue(count)
       \/ ReceiveBody(count)
  \/ HeadersComplete
  \/ MessageComplete

Next == Read \/ TimeOut \/ PeerBreaks \/ Broken \/ Tick \/ Received

Spec == Init /\ [][Next]_vars

\* Time passes and a poll whose timeout is over returns; the peer owes nothing.
FairSpec == Spec /\ WF_vars(Tick) /\ WF_vars(TimeOut)
------------------------------------------------------------------------------

Failures == {400, 401, 408, 413, 414, 415, 417, 431}

TypeOK ==
  /\ request \in Requests
  /\ require_bearer \in BOOLEAN
  /\ next[1] \in 1 .. Len(Parts(request))
  /\ seen \in 0 .. part.size
  /\ header_bytes \in 0 .. MaxHeaderBytes
  /\ header_count \in 0 .. MaxHeaderCount
  /\ authorization \in {"none", "valid", "wrong"}
  /\ authorization_count \in Nat
  /\ content_type_count \in Nat
  /\ content_type \in STRING \cup {""}
  /\ content_encoding \in STRING \cup {""}
  /\ expect \in STRING \cup {""}
  /\ body_size \in 0 .. MaxBody
  /\ sound \in BOOLEAN
  /\ clock \in Nat
  /\ deadline \in Nat
  /\ failure_status \in {0} \cup Failures
  /\ complete \in BOOLEAN

\* ---- the verdict on a request as a whole ----------------------------------

Named(headers, name) == {i \in 1 .. Len(headers) : headers[i].name = name}
LastValue(headers, name, default) ==
  IF Named(headers, name) = {} THEN default
  ELSE headers[Max(Named(headers, name))].value

HeaderSizes(headers) ==
  [i \in DOMAIN headers |->
     headers[i].name_size + headers[i].value_size + SeparatorBytes]

RequestLineSize(r) == r.method_size + r.url_size + 3

HeadTooLarge(r, headers) ==
  \/ RequestLineSize(r) + SumOf(HeaderSizes(headers)) > MaxHeaderBytes
  \/ Len(headers) > MaxHeaderCount

HeadVerdict(r) ==
  IF r.url_size > MaxUrl THEN 414
  ELSE IF HeadTooLarge(r, r.headers) THEN 431
  ELSE IF \/ Cardinality(Named(r.headers, "authorization")) > 1
          \/ Cardinality(Named(r.headers, "content-type")) > 1 THEN 400
  ELSE IF /\ require_bearer
          /\ r.url # "/ui"
          /\ LastValue(r.headers, "authorization", "none") # "valid" THEN 401
  ELSE IF r.content_length > MaxBody THEN 413
  ELSE IF LastValue(r.headers, "expect", "") # "" THEN 417
  ELSE IF LastValue(r.headers, "content-encoding", "") \notin {"", "identity"}
    THEN 415
  ELSE 0

Verdict(r) ==
  IF HeadVerdict(r) # 0 THEN HeadVerdict(r)
  ELSE IF r.body > MaxBody THEN 413
  ELSE IF HeadTooLarge(r, r.headers \o r.trailers) THEN 431
  ELSE 0

\* However the peer cuts its bytes into reads, the answer is the one the whole
\* request deserves: limits are not per read, a part split between two reads is
\* put together again, and the first check in the order of the code decides.
\* Only a connection the peer broke (400) and the end of the time it had (408) may
\* come in between.  The content type that decides 415 afterwards is the last one the
\* request names, the trailers included, wherever it was cut.
VerdictOfWholeRequest ==
  \/ Reading
  \/ failure_status = 400 /\ ~sound
  \/ failure_status = 408 /\ clock >= ReadTimeout
  \/ /\ failure_status = Verdict(request)
     /\ complete => content_type = LastValue(request.headers \o request.trailers,
                                             "content-type", "")

\* No body byte is stored before the head has passed every check.
BodyOnlyAfterHead == body_size > 0 => HeadVerdict(request) = 0

\* A peer that sends slowly, a byte before each timeout, does not hold the only
\* thread of the server for longer than one timeout.
ReadEndsInTime == Reading => clock <= ReadTimeout

\* The read ends, whatever the peer does.
ReadTerminates == <>(~Reading)

\* docs/phases/phase-4-plus-http-server.md, "Entry point and ownership": the
\* authentication exception matches the method and the exact path.
ExceptionMatchesMethodAndPath ==
  complete /\ require_bearer /\
  LastValue(request.headers, "authorization", "none") # "valid" =>
    request.url = "/ui" /\ request.method = "GET"
==============================================================================
