----------------------------- MODULE ReceiveProofs -----------------------------
(***************************************************************************)
(* Proofs about HttpReceive for all limits, timeouts and requests: what    *)
(* the parse context may hold, how long a read may take, and that the      *)
(* verdict is that of the whole request, however the peer cuts and delays  *)
(* its bytes.                                                              *)
(***************************************************************************)
EXTENDS HttpReceive, FiniteSetTheorems, SequenceTheorems, TLAPS

\* ---- sums of the first terms of a sequence --------------------------------------

LEMMA FirstNone ==
  ASSUME NEW f
  PROVE  SumOfFirst(f, 0) = 0
<1>1. Units([i \in 1 .. 0 |-> f[i]]) = {}
  BY DEF Units
<1> QED
  BY <1>1, FS_EmptySet DEF SumOfFirst, SumOf

LEMMA FirstFinite ==
  ASSUME NEW n \in Nat, NEW f, \A i \in 1 .. n : f[i] \in Nat
  PROVE  IsFiniteSet(Units([i \in 1 .. n |-> f[i]]))
<1> DEFINE column(i) == {i} \X (1 .. f[i])
           c == [i \in 1 .. n |-> column(i)]
           columns == {column(i) : i \in 1 .. n}
<1>1. \A i \in 1 .. n : IsFiniteSet(column(i))
  <2> SUFFICES ASSUME NEW i \in 1 .. n PROVE IsFiniteSet(column(i))
    OBVIOUS
  <2>1. f[i] \in Nat
    OBVIOUS
  <2>2. IsFiniteSet(1 .. f[i])
    BY <2>1, FS_Interval
  <2>3. IsFiniteSet({i})
    BY FS_Singleton
  <2> QED
    BY <2>2, <2>3, FS_Product
<1>2. c \in Surjection(1 .. n, columns)
  BY DEF Surjection
<1>3. \A T \in columns : IsFiniteSet(T)
  BY <1>1
<1>4. Units([i \in 1 .. n |-> f[i]]) = UNION columns
  BY DEF Units
<1> HIDE DEF c, columns
<1>5. IsFiniteSet(columns)
  <2>1. IsFiniteSet(1 .. n)
    BY FS_Interval
  <2> QED
    BY <1>2, <2>1, FS_Surjection
<1> QED
  BY <1>3, <1>4, <1>5, FS_UNION

LEMMA FirstType ==
  ASSUME NEW n \in Nat, NEW f, \A i \in 1 .. n : f[i] \in Nat
  PROVE  SumOfFirst(f, n) \in Nat
BY FirstFinite, FS_CardinalityType DEF SumOfFirst, SumOf

\* One term more adds its value.
LEMMA FirstAdd ==
  ASSUME NEW n \in Nat, NEW f, \A i \in 1 .. n + 1 : f[i] \in Nat
  PROVE  SumOfFirst(f, n + 1) = SumOfFirst(f, n) + f[n + 1]
<1> DEFINE old == Units([i \in 1 .. n |-> f[i]])
           new == Units([i \in 1 .. n + 1 |-> f[i]])
           column == {n + 1} \X (1 .. f[n + 1])
<1>1. IsFiniteSet(old) /\ Cardinality(old) \in Nat
  <2>1. \A i \in 1 .. n : f[i] \in Nat
    OBVIOUS
  <2>2. IsFiniteSet(old)
    BY <2>1, FirstFinite
  <2> QED
    BY <2>2, FS_CardinalityType
<1>2. IsFiniteSet(column) /\ Cardinality(column) = f[n + 1]
  <2>1. f[n + 1] \in Nat
    OBVIOUS
  <2>2. IsFiniteSet({n + 1}) /\ Cardinality({n + 1}) = 1
    BY FS_Singleton
  <2>3. \A w \in Nat : IsFiniteSet(1 .. w) /\ Cardinality(1 .. w) = w
    BY FS_Interval
  <2>4. IsFiniteSet(column)
        /\ Cardinality(column) = Cardinality({n + 1}) * Cardinality(1 .. f[n + 1])
    BY <2>1, <2>2, <2>3, FS_Product
  <2> QED
    BY <2>1, <2>2, <2>3, <2>4
<1>3. new = old \cup column
  <2>1. 1 .. n + 1 = (1 .. n) \cup {n + 1}
    OBVIOUS
  <2>2. \A p \in new : p \in old \cup column
    BY <2>1 DEF Units
  <2>3. \A p \in old \cup column : p \in new
    BY <2>1 DEF Units
  <2> QED
    BY <2>2, <2>3
<1>4. old \cap column = {}
  BY DEF Units
<1> HIDE DEF old, new, column
<1>5. Cardinality(old \cup column)
        = Cardinality(old) + Cardinality(column) - Cardinality(old \cap column)
  BY <1>1, <1>2, FS_Union
<1>6. Cardinality(new) = Cardinality(old) + f[n + 1]
  BY <1>1, <1>2, <1>3, <1>4, <1>5, FS_EmptySet
<1> QED
  BY <1>6 DEF SumOfFirst, SumOf, old, new

\* Fewer terms do not add up to more.
LEMMA FirstMonotone ==
  ASSUME NEW m \in Nat, NEW n \in Nat, m <= n, NEW f, \A i \in 1 .. n : f[i] \in Nat
  PROVE  SumOfFirst(f, m) <= SumOfFirst(f, n)
<1>1. IsFiniteSet(Units([i \in 1 .. n |-> f[i]]))
  BY FirstFinite
<1>2. Units([i \in 1 .. m |-> f[i]]) \subseteq Units([i \in 1 .. n |-> f[i]])
  BY DEF Units
<1> QED
  BY <1>1, <1>2, FS_Subset DEF SumOfFirst, SumOf

\* ---- the parts of a message -----------------------------------------------------

PartType ==
  [kind : {"method", "url", "version", "field", "headers_complete", "body",
           "message_complete"}, size : Nat]
    \cup [kind : {"value"}, size : Nat, header : HeaderType]

LEMMA HeaderPartsType ==
  ASSUME NEW headers \in Seq(HeaderType)
  PROVE  HeaderParts(headers) \in Seq(PartType)
<1> DEFINE parts == HeaderParts(headers)
<1>1. Len(headers) \in Nat /\ 2 * Len(headers) \in Nat
  OBVIOUS
<1>2. ASSUME NEW i \in 1 .. 2 * Len(headers)
      PROVE  parts[i] \in PartType
  <2>1. (i + 1) \div 2 \in 1 .. Len(headers)
    BY <1>1
  <2>2. headers[(i + 1) \div 2] \in HeaderType
    BY <2>1
  <2> QED
    BY <2>2 DEF HeaderParts, PartType, Part, HeaderType
<1>3. parts = [i \in 1 .. 2 * Len(headers) |-> parts[i]]
  BY DEF HeaderParts
<1> QED
  BY <1>1, <1>2, <1>3

LEMMA LastOfConcat ==
  ASSUME NEW S, NEW s \in Seq(S), NEW t \in Seq(S), Len(t) = 1
  PROVE  Len(s \o t) = Len(s) + 1 /\ (s \o t)[Len(s) + 1] = t[1]
<1>1. Len(s) \in Nat
  OBVIOUS
<1>2. /\ Len(s \o t) = Len(s) + Len(t)
      /\ \A i \in 1 .. Len(s) + Len(t) :
           (s \o t)[i] = IF i <= Len(s) THEN s[i] ELSE t[i - Len(s)]
  BY ConcatProperties
<1>3. /\ Len(s) + 1 \in 1 .. Len(s) + Len(t)
      /\ ~(Len(s) + 1 <= Len(s)) /\ (Len(s) + 1) - Len(s) = 1
  BY <1>1
<1> QED
  BY <1>2, <1>3

\* A message is well typed, and ends.
LEMMA PartsType ==
  ASSUME NEW r \in Requests
  PROVE  /\ Parts(r) \in Seq(PartType)
         /\ Len(Parts(r)) \in Nat \ {0}
         /\ Parts(r)[Len(Parts(r))].kind = "message_complete"
<1> DEFINE first == <<Part("method", r.method_size), Part("url", r.url_size),
                      Part("version", 3)>>
           head == first \o HeaderParts(r.headers) \o <<Part("headers_complete", 0)>>
           body == IF r.body = 0 THEN <<>> ELSE <<Part("body", r.body)>>
           rest == head \o body \o HeaderParts(r.trailers)
           last == <<Part("message_complete", 0)>>
<1>1. {r.method_size, r.url_size, r.body} \subseteq Nat
      /\ r.headers \in Seq(HeaderType) /\ r.trailers \in Seq(HeaderType)
  BY RequestsAssumption
<1>2. first \in Seq(PartType) /\ body \in Seq(PartType) /\ last \in Seq(PartType)
      /\ <<Part("headers_complete", 0)>> \in Seq(PartType)
  <2>1. /\ Part("method", r.method_size) \in PartType /\ Part("url", r.url_size) \in PartType
        /\ Part("version", 3) \in PartType /\ Part("headers_complete", 0) \in PartType
        /\ Part("body", r.body) \in PartType /\ Part("message_complete", 0) \in PartType
    BY <1>1 DEF Part, PartType
  <2> HIDE DEF PartType
  <2>2. first \in Seq(PartType)
    BY <2>1
  <2>3. body \in Seq(PartType)
    BY <2>1
  <2>4. last \in Seq(PartType) /\ <<Part("headers_complete", 0)>> \in Seq(PartType)
    BY <2>1
  <2> QED
    BY <2>2, <2>3, <2>4
<1>3. HeaderParts(r.headers) \in Seq(PartType) /\ HeaderParts(r.trailers) \in Seq(PartType)
  BY <1>1, HeaderPartsType
<1>4. rest \in Seq(PartType)
  <2> HIDE DEF first, body
  <2> QED
    BY <1>2, <1>3
<1>5. Parts(r) = rest \o last
  BY DEF Parts
<1>6. Len(last) = 1 /\ last[1].kind = "message_complete"
  BY DEF Part
<1> HIDE DEF rest, last
<1>7. Len(rest \o last) = Len(rest) + 1 /\ (rest \o last)[Len(rest) + 1] = last[1]
  BY <1>2, <1>4, <1>6, LastOfConcat
<1>8. rest \o last \in Seq(PartType) /\ Len(rest) \in Nat
  BY <1>2, <1>4
<1> QED
  BY <1>5, <1>6, <1>7, <1>8

\* ---- the inductive invariant ----------------------------------------------------

DeadlineInv == deadline = ReadTimeout /\ clock <= deadline

IInv == TypeOK /\ DeadlineInv

LEMMA InitInv == Init => IInv
<1> SUFFICES ASSUME Init PROVE IInv
  OBVIOUS
<1>1. part = Parts(request)[1] /\ Len(Parts(request)) \in Nat \ {0} /\ part.size \in Nat
  <2>1. Parts(request) \in Seq(PartType) /\ Len(Parts(request)) \in Nat \ {0}
    BY PartsType DEF Init
  <2>2. Parts(request)[1] \in PartType
    BY <2>1
  <2> QED
    BY <2>1, <2>2 DEF Init, part, PartType
<1>2. next[1] = 1 /\ seen = 0
  BY DEF Init, seen
<1>3. next[1] \in 1 .. Len(Parts(request)) /\ seen \in 0 .. part.size
  BY <1>1, <1>2
<1>4. ReadTimeout \in Nat /\ MaxHeaderBytes \in Nat /\ MaxHeaderCount \in Nat
      /\ MaxBody \in Nat
  BY LimitsAssumption
<1>5. request \in Requests /\ require_bearer \in BOOLEAN
  BY DEF Init
<1> QED
  <2>1. DeadlineInv /\ deadline \in Nat /\ clock \in Nat
    <3>1. clock = 0 /\ deadline = ReadTimeout
      BY DEF Init
    <3> QED
      BY <1>4, <3>1 DEF DeadlineInv
  <2>2. header_bytes \in 0 .. MaxHeaderBytes /\ header_count \in 0 .. MaxHeaderCount
        /\ body_size \in 0 .. MaxBody
        /\ authorization_count \in Nat /\ content_type_count \in Nat
    <3>1. /\ header_bytes = 0 /\ header_count = 0 /\ body_size = 0
          /\ authorization_count = 0 /\ content_type_count = 0
      BY DEF Init
    <3> QED
      BY <1>4, <3>1
  <2>3. /\ authorization \in {"none", "valid", "wrong"}
        /\ content_type \in STRING \cup {""}
        /\ content_encoding \in STRING \cup {""} /\ expect \in STRING \cup {""}
        /\ sound \in BOOLEAN /\ complete \in BOOLEAN
        /\ failure_status \in {0} \cup Failures
    BY DEF Init
  <2> QED
    BY <1>3, <1>5, <2>1, <2>2, <2>3 DEF IInv, TypeOK
LEMMA PartFacts ==
  ASSUME TypeOK
  PROVE  /\ part \in PartType /\ part.size \in Nat /\ seen \in 0 .. part.size
         /\ next[1] \in 1 .. Len(Parts(request)) /\ Len(Parts(request)) \in Nat
         /\ part.kind # "message_complete" => next[1] # Len(Parts(request))
         /\ \A i \in 1 .. Len(Parts(request)) : Parts(request)[i].size \in Nat
<1>1. /\ Parts(request) \in Seq(PartType) /\ Len(Parts(request)) \in Nat
      /\ Parts(request)[Len(Parts(request))].kind = "message_complete"
  BY PartsType DEF TypeOK
<1>2. \A i \in 1 .. Len(Parts(request)) : Parts(request)[i] \in PartType
  BY <1>1
<1>3. \A p \in PartType : p.size \in Nat
  BY DEF PartType
<1> HIDE DEF PartType
<1> QED
  BY <1>1, <1>2, <1>3 DEF TypeOK, part

\* Moving on within a part, or to the next one.
AdvancedOK ==
  /\ next[1] \in 1 .. Len(Parts(request))
  /\ seen \in 0 .. part.size

LEMMA AdvanceType ==
  ASSUME TypeOK, NEW count \in 0 .. part.size - seen, Advance(count),
         UNCHANGED request, part.kind # "message_complete"
  PROVE  AdvancedOK'
<1>0. /\ part.size \in Nat /\ seen \in 0 .. part.size
      /\ next[1] \in 1 .. Len(Parts(request)) - 1 /\ Len(Parts(request)) \in Nat
      /\ \A i \in 1 .. Len(Parts(request)) : Parts(request)[i].size \in Nat
  BY PartFacts
<1>1. CASE Ended(count)
  <2>1. next' = <<next[1] + 1, 0>>
    BY <1>1 DEF Advance
  <2>2. Parts(request)[next[1] + 1].size \in Nat
    BY <1>0
  <2>3. next'[1] = next[1] + 1 /\ next'[2] = 0 /\ request' = request
    BY <2>1
  <2>4. next'[1] \in 1 .. Len(Parts(request)') /\ part'.size \in Nat
    BY <1>0, <2>2, <2>3 DEF part
  <2> QED
    BY <2>3, <2>4 DEF AdvancedOK, seen
<1>2. CASE ~Ended(count)
  <2>1. next' = <<next[1], seen + count>>
    BY <1>2 DEF Advance
  <2> QED
    BY <1>0, <2>1 DEF AdvancedOK, part, seen
<1> QED
  BY <1>1, <1>2

LEMMA StaysInPart ==
  ASSUME TypeOK, UNCHANGED <<request, next>>
  PROVE  AdvancedOK'
  BY DEF TypeOK, AdvancedOK, part, seen

\* What the callbacks collect, apart from where they are.
ContextOK ==
  /\ header_bytes \in 0 .. MaxHeaderBytes
  /\ header_count \in 0 .. MaxHeaderCount
  /\ authorization \in {"none", "valid", "wrong"}
  /\ authorization_count \in Nat
  /\ content_type_count \in Nat
  /\ content_type \in STRING \cup {""}
  /\ content_encoding \in STRING \cup {""}
  /\ expect \in STRING \cup {""}
  /\ body_size \in 0 .. MaxBody

OutcomeOK ==
  /\ failure_status \in {0} \cup Failures
  /\ complete \in BOOLEAN

LEMMA ContextHolds == IInv => ContextOK /\ OutcomeOK
  BY DEF IInv, TypeOK, ContextOK, OutcomeOK

\* The counters on their own: arithmetic is easier without the strings.
LEMMA Counters ==
  IInv => /\ header_count \in 0 .. MaxHeaderCount
          /\ authorization_count \in Nat /\ content_type_count \in Nat
  BY DEF IInv, TypeOK

LEMMA Limits ==
  /\ MaxHeaderBytes \in Nat /\ MaxHeaderCount \in Nat /\ MaxBody \in Nat
  /\ SeparatorBytes \in Nat /\ ReadTimeout \in Nat
  BY LimitsAssumption

\* What is left of a limit is a number, and what fits in it stays within the limit.
LEMMA RoomLeft ==
  ASSUME IInv
  PROVE  /\ HeaderRoom \in Int /\ BodyRoom \in Int
         /\ \A count \in Nat : count <= HeaderRoom =>
              header_bytes + count \in 0 .. MaxHeaderBytes
         /\ \A count \in Nat : SeparatorBytes <= HeaderRoom - count =>
              header_bytes + count + SeparatorBytes \in 0 .. MaxHeaderBytes
         /\ \A count \in Nat : count <= BodyRoom => body_size + count \in 0 .. MaxBody
<1>1. header_bytes \in 0 .. MaxHeaderBytes /\ body_size \in 0 .. MaxBody
  BY DEF IInv, TypeOK
<1> QED
  BY <1>1, Limits DEF HeaderRoom, BodyRoom

LEMMA ReceivesKeeps ==
  ASSUME IInv, NEW kinds, NEW count, Receives(kinds, count)
  PROVE  /\ part.kind \in kinds
         /\ count \in 0 .. part.size - seen /\ count \in Nat
         /\ UNCHANGED <<request, require_bearer, sound, clock>> /\ DeadlineInv'
<1>1. part.size \in Nat /\ seen \in 0 .. part.size
  BY PartFacts DEF IInv
<1> QED
  BY <1>1 DEF Receives, IInv, DeadlineInv, NextDeadline

LEMMA Assembled ==
  ASSUME IInv, UNCHANGED <<request, require_bearer, sound, clock>>, DeadlineInv',
         AdvancedOK', ContextOK', OutcomeOK'
  PROVE  IInv'
  BY LimitsAssumption DEF IInv, TypeOK, DeadlineInv, AdvancedOK, ContextOK, OutcomeOK

LEMMA FailType ==
  ASSUME IInv, NEW code \in Failures, Fail(code), UNCHANGED request
  PROVE  AdvancedOK' /\ ContextOK' /\ OutcomeOK'
<1>1. AdvancedOK'
  BY StaysInPart DEF IInv, Fail
<1> QED
  BY <1>1 DEF IInv, TypeOK, ContextOK, OutcomeOK, Fail, context

\* ---- the callbacks --------------------------------------------------------------

LEMMA LinePartStep ==
  ASSUME IInv, NEW count, ReceiveLinePart(count)
  PROVE  IInv'
<1>1. /\ part.kind \in {"method", "url"} /\ count \in 0 .. part.size - seen /\ count \in Nat
      /\ UNCHANGED <<request, require_bearer, sound, clock>> /\ DeadlineInv'
  BY ReceivesKeeps DEF ReceiveLinePart
<1>2. CASE Fail(414) \/ Fail(431)
  BY <1>1, <1>2, FailType, Assembled DEF Failures
<1>3. CASE count <= HeaderRoom /\ header_bytes' = header_bytes + count /\ Advance(count)
           /\ UNCHANGED <<header_count, authorization, authorization_count,
                          content_type_count, content_type,
                          content_encoding, expect, body_size, failure_status, complete>>
  <2>1. AdvancedOK'
    BY <1>1, <1>3, AdvanceType DEF IInv
  <2>2. header_bytes' \in 0 .. MaxHeaderBytes
    BY <1>1, <1>3, RoomLeft
  <2>3. ContextOK' /\ OutcomeOK'
    BY <1>3, <2>2, ContextHolds DEF ContextOK, OutcomeOK
  <2> QED
    BY <1>1, <2>1, <2>3, Assembled
<1>4. HeaderRoom \in Int
  BY RoomLeft
<1> QED
  BY <1>1, <1>2, <1>3, <1>4 DEF ReceiveLinePart

LEMMA CountedStep ==
  ASSUME IInv, NEW count, ReceiveCounted(count)
  PROVE  IInv'
<1>1. /\ part.kind \in {"version", "field"} /\ count \in 0 .. part.size - seen
      /\ count \in Nat
      /\ UNCHANGED <<request, require_bearer, sound, clock>> /\ DeadlineInv'
  BY ReceivesKeeps DEF ReceiveCounted
<1>2. CASE Fail(431)
  BY <1>1, <1>2, FailType, Assembled DEF Failures
<1>3. CASE count <= HeaderRoom /\ header_bytes' = header_bytes + count /\ Advance(count)
           /\ UNCHANGED <<header_count, authorization, authorization_count,
                          content_type_count, content_type,
                          content_encoding, expect, body_size, failure_status, complete>>
  <2>1. AdvancedOK'
    BY <1>1, <1>3, AdvanceType DEF IInv
  <2>2. header_bytes' \in 0 .. MaxHeaderBytes
    BY <1>1, <1>3, RoomLeft
  <2>3. ContextOK' /\ OutcomeOK'
    BY <1>3, <2>2, ContextHolds DEF ContextOK, OutcomeOK
  <2> QED
    BY <1>1, <2>1, <2>3, Assembled
<1>4. HeaderRoom \in Int
  BY RoomLeft
<1> QED
  BY <1>1, <1>2, <1>3, <1>4 DEF ReceiveCounted

LEMMA CompletedHeader ==
  ASSUME IInv, NEW header \in HeaderType, CompleteHeader(header)
  PROVE  /\ authorization' \in {"none", "valid", "wrong"}
         /\ authorization_count' \in Nat /\ content_type_count' \in Nat
         /\ content_type' \in STRING \cup {""}
         /\ content_encoding' \in STRING \cup {""} /\ expect' \in STRING \cup {""}
<1>1. /\ header.name \in STRING /\ header.value \in STRING
      /\ header.name = "authorization" => header.value \in {"none", "valid", "wrong"}
  BY DEF HeaderType
<1>2. ContextOK
  BY ContextHolds
<1>3. authorization' \in {"none", "valid", "wrong"}
  BY <1>1, <1>2 DEF ContextOK, CompleteHeader
<1>4. authorization_count' \in Nat /\ content_type_count' \in Nat
  <2>1. /\ authorization_count' \in {authorization_count, authorization_count + 1}
        /\ content_type_count' \in {content_type_count, content_type_count + 1}
    <3>1. authorization_count \in Nat /\ content_type_count \in Nat
      BY Counters
    <3>2. CASE header.name = "authorization"
      BY <3>1, <3>2 DEF CompleteHeader
    <3>3. CASE header.name = "content-type"
      BY <3>1, <3>3 DEF CompleteHeader
    <3>4. CASE header.name # "authorization" /\ header.name # "content-type"
      BY <3>1, <3>4 DEF CompleteHeader
    <3> QED
      BY <3>2, <3>3, <3>4
  <2> QED
    BY <2>1, Counters
<1>5. content_encoding' \in STRING \cup {""}
  BY <1>1, <1>2 DEF ContextOK, CompleteHeader
<1>6. expect' \in STRING \cup {""}
  BY <1>1, <1>2 DEF ContextOK, CompleteHeader
<1>7. content_type' \in STRING \cup {""}
  BY <1>1, <1>2 DEF ContextOK, CompleteHeader
<1> QED
  BY <1>3, <1>4, <1>5, <1>6, <1>7

LEMMA HeaderValueStep ==
  ASSUME IInv, NEW count, ReceiveHeaderValue(count)
  PROVE  IInv'
<1>1. /\ part.kind = "value" /\ count \in 0 .. part.size - seen /\ count \in Nat
      /\ UNCHANGED <<request, require_bearer, sound, clock>> /\ DeadlineInv'
  BY ReceivesKeeps DEF ReceiveHeaderValue
<1>2. CASE Fail(431)
  BY <1>1, <1>2, FailType, Assembled DEF Failures
<1>3. CASE ~Fail(431)
  <2>1. /\ ~(count > HeaderRoom)
        /\ Ended(count) => /\ ~(SeparatorBytes > HeaderRoom - count)
                           /\ ~(header_count + 1 > MaxHeaderCount)
        /\ Advance(count)
        /\ UNCHANGED <<body_size, failure_status, complete>>
    BY <1>3 DEF ReceiveHeaderValue
  <2>2. AdvancedOK'
    BY <1>1, <2>1, AdvanceType DEF IInv
  <2>3. CASE Ended(count)
    <3>1. part.header \in HeaderType
      BY <1>1, PartFacts DEF IInv, PartType
    <3>2. /\ header_bytes' = header_bytes + count + SeparatorBytes
          /\ header_count' = header_count + 1
          /\ CompleteHeader(part.header)
      BY <1>3, <2>3 DEF ReceiveHeaderValue
    <3>3. header_bytes' \in 0 .. MaxHeaderBytes /\ header_count' \in 0 .. MaxHeaderCount
      <4>1. SeparatorBytes <= HeaderRoom - count /\ header_count + 1 <= MaxHeaderCount
        BY <1>1, <2>1, <2>3, Limits, RoomLeft, Counters
      <4>2. header_bytes' \in 0 .. MaxHeaderBytes
        BY <1>1, <3>2, <4>1, RoomLeft
      <4>3. header_count' \in 0 .. MaxHeaderCount
        BY <3>2, <4>1, Limits, Counters
      <4> QED
        BY <4>2, <4>3
    <3>4. ContextOK' /\ OutcomeOK'
      BY <2>1, <3>1, <3>2, <3>3, CompletedHeader, ContextHolds DEF ContextOK, OutcomeOK
    <3> QED
      BY <1>1, <2>2, <3>4, Assembled
  <2>4. CASE ~Ended(count)
    <3>1. /\ header_bytes' = header_bytes + count
          /\ UNCHANGED <<header_count, authorization, authorization_count,
                         content_type_count, content_type, content_encoding, expect>>
      BY <1>3, <2>4 DEF ReceiveHeaderValue
    <3>2. header_bytes' \in 0 .. MaxHeaderBytes
      BY <1>1, <2>1, <3>1, RoomLeft
    <3>3. ContextOK' /\ OutcomeOK'
      BY <2>1, <3>1, <3>2, ContextHolds DEF ContextOK, OutcomeOK
    <3> QED
      BY <1>1, <2>2, <3>3, Assembled
  <2> QED
    BY <2>3, <2>4
<1> QED
  BY <1>2, <1>3

LEMMA HeadStep ==
  ASSUME IInv, HeadersComplete
  PROVE  IInv'
<1>1. /\ part.kind = "headers_complete" /\ 0 \in 0 .. part.size - seen
      /\ UNCHANGED <<request, require_bearer, sound, clock>> /\ DeadlineInv'
  BY ReceivesKeeps DEF HeadersComplete
<1>2. CASE HeadFailure # 0
  <2>1. HeadFailure \in Failures
    <3>1. HeadFailure \in {0, 400, 401, 413, 415, 417}
      <4> DEFINE repeated == authorization_count > 1 \/ content_type_count > 1
                 anonymous == require_bearer /\ ~PublicRoute /\ ~Authorized
                 large == request.content_length > MaxBody
                 waits == expect # ""
                 encoded == content_encoding \notin {"", "identity"}
      <4>1. HeadFailure = IF repeated THEN 400 ELSE IF anonymous THEN 401
                          ELSE IF large THEN 413 ELSE IF waits THEN 417
                          ELSE IF encoded THEN 415 ELSE 0
        BY DEF HeadFailure
      <4> HIDE DEF repeated, anonymous, large, waits, encoded
      <4> QED
        BY <4>1
    <3> QED
      BY <1>2, <3>1 DEF Failures
  <2>2. Fail(HeadFailure)
    BY <1>2 DEF HeadersComplete
  <2> QED
    BY <1>1, <2>1, <2>2, FailType, Assembled
<1>3. CASE HeadFailure = 0
  <2>1. Advance(0) /\ UNCHANGED <<context, failure_status, complete>>
    BY <1>3 DEF HeadersComplete
  <2>2. AdvancedOK'
    BY <1>1, <2>1, AdvanceType DEF IInv
  <2>3. ContextOK' /\ OutcomeOK'
    BY <2>1, ContextHolds DEF ContextOK, OutcomeOK, context
  <2> QED
    BY <1>1, <2>2, <2>3, Assembled
<1> QED
  BY <1>2, <1>3

LEMMA BodyStep ==
  ASSUME IInv, NEW count, ReceiveBody(count)
  PROVE  IInv'
<1>1. /\ part.kind = "body" /\ count \in 0 .. part.size - seen /\ count \in Nat
      /\ UNCHANGED <<request, require_bearer, sound, clock>> /\ DeadlineInv'
  BY ReceivesKeeps DEF ReceiveBody
<1>2. CASE Fail(413)
  BY <1>1, <1>2, FailType, Assembled DEF Failures
<1>3. CASE ~Fail(413)
  <2>1. /\ ~(count > BodyRoom) /\ body_size' = body_size + count /\ Advance(count)
        /\ UNCHANGED <<header_bytes, header_count, authorization,
                       authorization_count, content_type_count, content_type,
                       content_encoding, expect, failure_status, complete>>
    BY <1>3 DEF ReceiveBody
  <2>2. AdvancedOK'
    BY <1>1, <2>1, AdvanceType DEF IInv
  <2>3. count <= BodyRoom
    BY <1>1, <2>1, RoomLeft
  <2>4. body_size' \in 0 .. MaxBody
    BY <1>1, <2>1, <2>3, RoomLeft
  <2>5. ContextOK' /\ OutcomeOK'
    BY <2>1, <2>4, ContextHolds DEF ContextOK, OutcomeOK
  <2> QED
    BY <1>1, <2>2, <2>5, Assembled
<1> QED
  BY <1>2, <1>3

LEMMA EndStep ==
  ASSUME IInv, MessageComplete
  PROVE  IInv'
<1>1. UNCHANGED <<request, require_bearer, sound, clock>> /\ DeadlineInv'
  BY ReceivesKeeps DEF MessageComplete
<1>2. AdvancedOK'
  BY <1>1, StaysInPart DEF IInv, MessageComplete
<1>3. ContextOK' /\ OutcomeOK'
  BY DEF IInv, TypeOK, ContextOK, OutcomeOK, MessageComplete, context
<1> QED
  BY <1>1, <1>2, <1>3, Assembled

\* ---- time, the peer, and the end ------------------------------------------------

LEMMA OutsideStep ==
  ASSUME IInv, TimeOut \/ PeerBreaks \/ Broken \/ Tick \/ UNCHANGED vars
  PROVE  IInv'
<1>0. ContextOK /\ OutcomeOK /\ sound \in BOOLEAN /\ clock \in Nat /\ DeadlineInv
  BY ContextHolds DEF IInv, TypeOK
<1>1. UNCHANGED <<request, require_bearer, next, context, deadline, complete>>
  BY DEF TimeOut, PeerBreaks, Broken, Tick, Ends, vars
<1>2. AdvancedOK'
  BY <1>1, StaysInPart DEF IInv
<1>3. ContextOK'
  BY <1>0, <1>1 DEF ContextOK, context
<1>4. complete' \in BOOLEAN
  BY <1>0, <1>1 DEF OutcomeOK
<1>5. failure_status' \in {0} \cup Failures
  BY <1>0 DEF OutcomeOK, TimeOut, PeerBreaks, Broken, Tick, Ends, vars, Failures
<1>6. sound' \in BOOLEAN
  BY <1>0 DEF TimeOut, PeerBreaks, Broken, Tick, Ends, vars
<1>7. clock' \in Nat /\ clock' <= deadline
  BY <1>0, Limits DEF DeadlineInv, TimeOut, PeerBreaks, Broken, Tick, Ends, vars
<1>8. DeadlineInv'
  BY <1>0, <1>1, <1>7 DEF DeadlineInv
<1>9. request' \in Requests /\ require_bearer' \in BOOLEAN /\ deadline' \in Nat
  BY <1>1 DEF IInv, TypeOK
<1> QED
  BY <1>2, <1>3, <1>4, <1>5, <1>6, <1>7, <1>8, <1>9
     DEF IInv, TypeOK, AdvancedOK, ContextOK

LEMMA StepInv == IInv /\ [Next]_vars => IInv'
<1> SUFFICES ASSUME IInv, [Next]_vars PROVE IInv'
  OBVIOUS
<1>1. CASE Read
  BY <1>1, LinePartStep, CountedStep, HeaderValueStep, HeadStep, BodyStep, EndStep DEF Read
<1>2. CASE TimeOut \/ PeerBreaks \/ Broken \/ Tick \/ UNCHANGED vars
  BY <1>2, OutsideStep
<1> QED
  BY <1>1, <1>2 DEF Next, Received

LEMMA Invariance == Spec => []IInv
  BY InitInv, StepInv, PTL DEF Spec
------------------------------------------------------------------------------

\* ParseContext stays within its limits: header bytes, headers and body bytes never
\* exceed what receive_request admits, in whatever portions they come, trailers
\* included.
THEOREM TypeCorrect == Spec => []TypeOK
<1>1. IInv => TypeOK
  BY DEF IInv
<1> QED
  BY <1>1, Invariance, PTL

\* receive_request gives a peer one timeout for the whole request.
THEOREM EndsInTime == Spec => []ReadEndsInTime
<1>1. IInv => ReadEndsInTime
  BY DEF IInv, DeadlineInv, ReadEndsInTime
<1> QED
  BY <1>1, Invariance, PTL

\* ---- where the parts of a message are ---------------------------------------------

\* All headers of a request, those after a chunked body included; where the name of
\* header k is among the parts, its value follows.
All(r) == r.headers \o r.trailers
BodyParts(r) == IF r.body = 0 THEN 0 ELSE 1
FieldAt(r, k) == IF k <= Len(r.headers) THEN 2 * k + 2 ELSE 2 * k + 3 + BodyParts(r)
HeadEnd(r) == 2 * Len(r.headers) + 4
MessageEnd(r) == 2 * Len(r.headers) + 2 * Len(r.trailers) + BodyParts(r) + 5

ValuePart(header) == [kind |-> "value", size |-> header.value_size, header |-> header]

LEMMA ConcatTyped ==
  ASSUME NEW S, NEW s \in Seq(S), NEW t \in Seq(S)
  PROVE  /\ s \o t \in Seq(S) /\ Len(s \o t) = Len(s) + Len(t)
         /\ \A i \in 1 .. Len(s) : (s \o t)[i] = s[i]
         /\ \A i \in 1 .. Len(t) : (s \o t)[Len(s) + i] = t[i]
  BY ConcatProperties

LEMMA Lengths ==
  ASSUME NEW s, NEW t, NEW c, NEW m \in Nat, NEW n \in Nat, Len(s) = m, Len(t) = n,
         Len(c) = Len(s) + Len(t),
         \A i \in 1 .. Len(s) : c[i] = s[i],
         \A i \in 1 .. Len(t) : c[Len(s) + i] = t[i]
  PROVE  /\ Len(c) = m + n
         /\ \A i \in 1 .. m : c[i] = s[i]
         /\ \A i \in 1 .. n : c[m + i] = t[i]
  OBVIOUS

\* c is s followed by t, of lengths m and n.
Joins(c, s, t, m, n) ==
  /\ Len(c) = m + n
  /\ \A i \in 1 .. m : c[i] = s[i]
  /\ \A i \in 1 .. n : c[m + i] = t[i]

LEMMA ConcatAt ==
  ASSUME NEW S, NEW s, NEW t, NEW m \in Nat, NEW n \in Nat,
         s \in Seq(S), t \in Seq(S), Len(s) = m, Len(t) = n
  PROVE  s \o t \in Seq(S) /\ Joins(s \o t, s, t, m, n)
<1>1. s \in Seq(S) /\ t \in Seq(S)
  OBVIOUS
<1>2. /\ s \o t \in Seq(S) /\ Len(s \o t) = Len(s) + Len(t)
      /\ \A i \in 1 .. Len(s) : (s \o t)[i] = s[i]
      /\ \A i \in 1 .. Len(t) : (s \o t)[Len(s) + i] = t[i]
  BY ONLY <1>1, ConcatTyped
<1> DEFINE c == s \o t
<1>3. /\ Len(c) = Len(s) + Len(t)
      /\ \A i \in 1 .. Len(s) : c[i] = s[i]
      /\ \A i \in 1 .. Len(t) : c[Len(s) + i] = t[i]
  BY <1>2
<1> HIDE DEF c
<1>4. /\ Len(c) = m + n
      /\ \A i \in 1 .. m : c[i] = s[i]
      /\ \A i \in 1 .. n : c[m + i] = t[i]
  BY <1>3, Lengths
<1> QED
  BY <1>2, <1>4 DEF c, Joins

LEMMA HeaderPartsAt ==
  ASSUME NEW headers \in Seq(HeaderType)
  PROVE  /\ HeaderParts(headers) \in Seq(PartType)
         /\ Len(HeaderParts(headers)) = 2 * Len(headers)
         /\ \A k \in 1 .. Len(headers) :
              /\ HeaderParts(headers)[2 * k - 1] = Part("field", headers[k].name_size)
              /\ HeaderParts(headers)[2 * k] = ValuePart(headers[k])
<1>1. HeaderParts(headers) \in Seq(PartType)
  BY HeaderPartsType
<1>2. Len(headers) \in Nat /\ DOMAIN HeaderParts(headers) = 1 .. 2 * Len(headers)
  BY DEF HeaderParts
<1>3. Len(HeaderParts(headers)) = 2 * Len(headers)
  BY <1>1, <1>2
<1>4. ASSUME NEW k \in 1 .. Len(headers)
      PROVE  /\ HeaderParts(headers)[2 * k - 1] = Part("field", headers[k].name_size)
             /\ HeaderParts(headers)[2 * k] = ValuePart(headers[k])
  <2>1. /\ 2 * k - 1 \in 1 .. 2 * Len(headers) /\ 2 * k \in 1 .. 2 * Len(headers)
        /\ ((2 * k - 1) + 1) \div 2 = k /\ (2 * k - 1) % 2 = 1
        /\ (2 * k + 1) \div 2 = k /\ (2 * k) % 2 = 0
    BY <1>2
  <2> QED
    BY <2>1 DEF HeaderParts, ValuePart
<1> QED
  BY <1>1, <1>3, <1>4

LEMMA RequestType ==
  ASSUME NEW r \in Requests
  PROVE  /\ r.method_size \in Nat /\ r.url_size \in Nat /\ r.body \in Nat
         /\ r.method_size <= MaxMethod
         /\ r.headers \in Seq(HeaderType) /\ r.trailers \in Seq(HeaderType)
         /\ Len(r.headers) \in Nat /\ Len(r.trailers) \in Nat
         /\ All(r) \in Seq(HeaderType) /\ Len(All(r)) = Len(r.headers) + Len(r.trailers)
         /\ \A k \in 1 .. Len(r.headers) : All(r)[k] = r.headers[k]
         /\ \A k \in 1 .. Len(r.trailers) : All(r)[Len(r.headers) + k] = r.trailers[k]
<1>1. /\ r.method_size \in Nat /\ r.url_size \in Nat /\ r.body \in Nat
      /\ r.method_size <= MaxMethod
      /\ r.headers \in Seq(HeaderType) /\ r.trailers \in Seq(HeaderType)
  BY RequestsAssumption
<1> HIDE DEF HeaderType
<1>2. Len(r.headers) \in Nat /\ Len(r.trailers) \in Nat
  BY <1>1
<1> DEFINE H == Len(r.headers)
           T == Len(r.trailers)
           both == r.headers \o r.trailers
<1>3. /\ both \in Seq(HeaderType) /\ Len(both) = H + T
      /\ \A k \in 1 .. H : both[k] = r.headers[k]
      /\ \A k \in 1 .. T : both[H + k] = r.trailers[k]
  <2>1. both \in Seq(HeaderType) /\ Joins(both, r.headers, r.trailers, H, T)
    BY <1>1, <1>2, ConcatAt
  <2> QED
    BY <2>1 DEF Joins
<1> QED
  BY <1>1, <1>2, <1>3 DEF All

LEMMA PartsAt ==
  ASSUME NEW r \in Requests
  PROVE  /\ Len(Parts(r)) = MessageEnd(r)
         /\ Parts(r)[1] = Part("method", r.method_size)
         /\ Parts(r)[2] = Part("url", r.url_size)
         /\ Parts(r)[3] = Part("version", 3)
         /\ \A k \in 1 .. Len(r.headers) :
              /\ Parts(r)[2 * k + 2] = Part("field", r.headers[k].name_size)
              /\ Parts(r)[2 * k + 3] = ValuePart(r.headers[k])
         /\ Parts(r)[HeadEnd(r)] = Part("headers_complete", 0)
         /\ r.body # 0 => Parts(r)[HeadEnd(r) + 1] = Part("body", r.body)
         /\ \A k \in 1 .. Len(r.trailers) :
              /\ Parts(r)[HeadEnd(r) + BodyParts(r) + 2 * k - 1]
                   = Part("field", r.trailers[k].name_size)
              /\ Parts(r)[HeadEnd(r) + BodyParts(r) + 2 * k] = ValuePart(r.trailers[k])
         /\ Parts(r)[MessageEnd(r)] = Part("message_complete", 0)
<1> DEFINE s1 == <<Part("method", r.method_size), Part("url", r.url_size),
                   Part("version", 3)>>
           s2 == HeaderParts(r.headers)
           s3 == <<Part("headers_complete", 0)>>
           s4 == IF r.body = 0 THEN <<>> ELSE <<Part("body", r.body)>>
           s5 == HeaderParts(r.trailers)
           s6 == <<Part("message_complete", 0)>>
           c2 == s1 \o s2
           c3 == c2 \o s3
           c4 == c3 \o s4
           c5 == c4 \o s5
           c6 == c5 \o s6
           H == Len(r.headers)
           T == Len(r.trailers)
<1>1. Parts(r) = c6
  BY DEF Parts
<1>2. r.method_size \in Nat /\ r.url_size \in Nat /\ r.body \in Nat /\ H \in Nat /\ T \in Nat
  BY RequestType
<1>3. s1 \in Seq(PartType) /\ Len(s1) = 3 /\ s1[1] = Part("method", r.method_size)
      /\ s1[2] = Part("url", r.url_size) /\ s1[3] = Part("version", 3)
  <2>1. Part("method", r.method_size) \in PartType /\ Part("url", r.url_size) \in PartType
        /\ Part("version", 3) \in PartType
    BY <1>2 DEF Part, PartType
  <2> HIDE DEF PartType
  <2> QED
    BY <2>1
<1>4. s3 \in Seq(PartType) /\ Len(s3) = 1 /\ s3[1] = Part("headers_complete", 0)
      /\ s6 \in Seq(PartType) /\ Len(s6) = 1 /\ s6[1] = Part("message_complete", 0)
  <2>1. Part("headers_complete", 0) \in PartType /\ Part("message_complete", 0) \in PartType
    BY DEF Part, PartType
  <2> HIDE DEF PartType
  <2> QED
    BY <2>1
<1>5. s4 \in Seq(PartType) /\ Len(s4) = BodyParts(r)
      /\ (r.body # 0 => s4[1] = Part("body", r.body))
  <2>1. Part("body", r.body) \in PartType
    BY <1>2 DEF Part, PartType
  <2> HIDE DEF PartType
  <2>2. CASE r.body = 0
    BY <2>2 DEF BodyParts
  <2>3. CASE r.body # 0
    BY <2>1, <2>3 DEF BodyParts
  <2> QED
    BY <2>2, <2>3
<1>6. /\ s2 \in Seq(PartType) /\ Len(s2) = 2 * H
      /\ \A k \in 1 .. H : /\ s2[2 * k - 1] = Part("field", r.headers[k].name_size)
                           /\ s2[2 * k] = ValuePart(r.headers[k])
      /\ s5 \in Seq(PartType) /\ Len(s5) = 2 * T
      /\ \A k \in 1 .. T : /\ s5[2 * k - 1] = Part("field", r.trailers[k].name_size)
                           /\ s5[2 * k] = ValuePart(r.trailers[k])
  BY RequestType, HeaderPartsAt
<1>7. BodyParts(r) \in {0, 1} /\ (r.body # 0 => BodyParts(r) = 1)
  BY DEF BodyParts
<1> HIDE DEF s1, s2, s3, s4, s5, s6, H, T
<1>12. /\ c2 \in Seq(PartType) /\ Len(c2) = 3 + 2 * H
       /\ \A i \in 1 .. 3 : c2[i] = s1[i]
       /\ \A i \in 1 .. 2 * H : c2[3 + i] = s2[i]
  <2>1. s1 \in Seq(PartType) /\ s2 \in Seq(PartType) /\ Len(s1) = 3 /\ Len(s2) = 2 * H
    BY <1>3, <1>6
  <2>2. 3 \in Nat /\ 2 * H \in Nat
    BY <1>2 DEF H
  <2>3. c2 \in Seq(PartType) /\ Joins(c2, s1, s2, 3, 2 * H)
    BY <2>1, <2>2, ConcatAt
  <2> HIDE DEF c2
  <2> QED
    BY <2>3 DEF Joins
<1> HIDE DEF c2
<1>13. /\ c3 \in Seq(PartType) /\ Len(c3) = 4 + 2 * H
       /\ \A i \in 1 .. 3 + 2 * H : c3[i] = c2[i]
       /\ c3[4 + 2 * H] = s3[1]
  <2>1. /\ c3 \in Seq(PartType) /\ Len(c3) = (3 + 2 * H) + 1
        /\ \A i \in 1 .. 3 + 2 * H : c3[i] = c2[i]
        /\ \A i \in 1 .. 1 : c3[(3 + 2 * H) + i] = s3[i]
    <3>1. c2 \in Seq(PartType) /\ s3 \in Seq(PartType)
          /\ Len(c2) = 3 + 2 * H /\ Len(s3) = 1
      BY <1>4, <1>12
    <3>2. 3 + 2 * H \in Nat /\ 1 \in Nat
      BY <1>2 DEF H
    <3>3. c3 \in Seq(PartType) /\ Joins(c3, c2, s3, 3 + 2 * H, 1)
      BY <3>1, <3>2, ConcatAt
    <3> HIDE DEF c3
    <3> QED
      BY <3>3 DEF Joins
  <2> HIDE DEF c3
  <2>2. c3[(3 + 2 * H) + 1] = s3[1] /\ (3 + 2 * H) + 1 = 4 + 2 * H
    BY <1>2, <2>1 DEF H
  <2> QED
    BY <2>1, <2>2
<1> HIDE DEF c3
<1>14. /\ c4 \in Seq(PartType) /\ Len(c4) = 4 + 2 * H + BodyParts(r)
       /\ \A i \in 1 .. 4 + 2 * H : c4[i] = c3[i]
       /\ \A i \in 1 .. BodyParts(r) : c4[4 + 2 * H + i] = s4[i]
  <2>1. c3 \in Seq(PartType) /\ s4 \in Seq(PartType)
        /\ Len(c3) = 4 + 2 * H /\ Len(s4) = BodyParts(r)
    BY <1>5, <1>13
  <2>2. 4 + 2 * H \in Nat /\ BodyParts(r) \in Nat
    BY <1>2, <1>7 DEF H
  <2>3. c4 \in Seq(PartType) /\ Joins(c4, c3, s4, 4 + 2 * H, BodyParts(r))
    BY <2>1, <2>2, ConcatAt
  <2> HIDE DEF c4
  <2> QED
    BY <2>3 DEF Joins
<1> HIDE DEF c4
<1>15. /\ c5 \in Seq(PartType) /\ Len(c5) = 4 + 2 * H + BodyParts(r) + 2 * T
       /\ \A i \in 1 .. 4 + 2 * H + BodyParts(r) : c5[i] = c4[i]
       /\ \A i \in 1 .. 2 * T : c5[4 + 2 * H + BodyParts(r) + i] = s5[i]
  <2>1. c4 \in Seq(PartType) /\ s5 \in Seq(PartType)
        /\ Len(c4) = 4 + 2 * H + BodyParts(r) /\ Len(s5) = 2 * T
    BY <1>6, <1>14
  <2>2. 4 + 2 * H + BodyParts(r) \in Nat /\ 2 * T \in Nat
    BY <1>2, <1>7 DEF H, T
  <2>3. c5 \in Seq(PartType) /\ Joins(c5, c4, s5, 4 + 2 * H + BodyParts(r), 2 * T)
    BY <2>1, <2>2, ConcatAt
  <2> HIDE DEF c5
  <2> QED
    BY <2>3 DEF Joins
<1> HIDE DEF c5
<1>16. /\ Len(c6) = 4 + 2 * H + BodyParts(r) + 2 * T + 1
       /\ \A i \in 1 .. 4 + 2 * H + BodyParts(r) + 2 * T : c6[i] = c5[i]
       /\ c6[4 + 2 * H + BodyParts(r) + 2 * T + 1] = s6[1]
  <2> DEFINE n == 4 + 2 * H + BodyParts(r) + 2 * T
  <2>1. c5 \in Seq(PartType) /\ s6 \in Seq(PartType) /\ Len(c5) = n /\ Len(s6) = 1
    BY <1>4, <1>15
  <2>2. n \in Nat /\ 1 \in Nat /\ 1 \in 1 .. 1
    <3>1. H \in Nat /\ T \in Nat /\ BodyParts(r) \in Nat
      BY <1>2, <1>7 DEF H, T
    <3> HIDE DEF H, T
    <3> QED
      BY <3>1
  <2> HIDE DEF n
  <2>3. /\ Len(c5 \o s6) = n + 1
        /\ \A i \in 1 .. n : (c5 \o s6)[i] = c5[i]
        /\ \A i \in 1 .. 1 : (c5 \o s6)[n + i] = s6[i]
    <3>1. Joins(c5 \o s6, c5, s6, n, 1)
      BY <2>1, <2>2, ConcatAt
    <3> QED
      BY <3>1 DEF Joins
  <2>4. (c5 \o s6)[n + 1] = s6[1]
    BY <2>2, <2>3, Zenon
  <2> QED
    BY <2>3, <2>4 DEF n
<1> HIDE DEF c6
<1>20. H \in Nat /\ T \in Nat /\ HeadEnd(r) = 4 + 2 * H
       /\ MessageEnd(r) = 4 + 2 * H + BodyParts(r) + 2 * T + 1
  <2>1. H \in Nat /\ T \in Nat
    BY <1>2 DEF H, T
  <2>2. HeadEnd(r) = 2 * H + 4 /\ MessageEnd(r) = 2 * H + 2 * T + BodyParts(r) + 5
    BY DEF H, T, HeadEnd, MessageEnd
  <2> QED
    BY <1>7, <2>1, <2>2
<1>17. \A i \in 1 .. 4 + 2 * H + BodyParts(r) : c6[i] = c4[i]
  <2> SUFFICES ASSUME NEW i \in 1 .. 4 + 2 * H + BodyParts(r) PROVE c6[i] = c4[i]
    OBVIOUS
  <2>1. i \in 1 .. 4 + 2 * H + BodyParts(r) + 2 * T
    BY <1>7, <1>20
  <2>2. c6[i] = c5[i]
    BY <1>16, <2>1
  <2>3. c5[i] = c4[i]
    BY <1>15
  <2> QED
    BY <2>2, <2>3
<1>18. \A i \in 1 .. 4 + 2 * H : c6[i] = c3[i]
  <2> SUFFICES ASSUME NEW i \in 1 .. 4 + 2 * H PROVE c6[i] = c3[i]
    OBVIOUS
  <2>1. i \in 1 .. 4 + 2 * H + BodyParts(r)
    BY <1>7, <1>20
  <2>2. c6[i] = c4[i]
    BY <1>17, <2>1
  <2>3. c4[i] = c3[i]
    BY <1>14
  <2> QED
    BY <2>2, <2>3
<1>19. \A i \in 1 .. 3 + 2 * H : c6[i] = c2[i]
  <2> SUFFICES ASSUME NEW i \in 1 .. 3 + 2 * H PROVE c6[i] = c2[i]
    OBVIOUS
  <2>1. i \in 1 .. 4 + 2 * H
    BY <1>20
  <2>2. c6[i] = c3[i]
    BY <1>18, <2>1
  <2>3. c3[i] = c2[i]
    BY <1>13
  <2> QED
    BY <2>2, <2>3
<1>21. c6[1] = s1[1] /\ c6[2] = s1[2] /\ c6[3] = s1[3]
  <2>1. \A i \in 1 .. 3 : i \in 1 .. 3 + 2 * H
    BY <1>20
  <2>2. \A i \in 1 .. 3 : c6[i] = s1[i]
    BY <1>12, <1>19, <2>1
  <2> QED
    BY <2>2
<1>22. ASSUME NEW k \in 1 .. H
       PROVE  c6[2 * k + 2] = s2[2 * k - 1] /\ c6[2 * k + 3] = s2[2 * k]
  <2>1. /\ 2 * k - 1 \in 1 .. 2 * H /\ 3 + (2 * k - 1) = 2 * k + 2
        /\ 2 * k \in 1 .. 2 * H /\ 3 + 2 * k = 2 * k + 3
        /\ 2 * k + 2 \in 1 .. 3 + 2 * H /\ 2 * k + 3 \in 1 .. 3 + 2 * H
    BY <1>20
  <2>2. c2[2 * k + 2] = s2[2 * k - 1] /\ c2[2 * k + 3] = s2[2 * k]
    BY <1>12, <2>1
  <2> QED
    BY <1>19, <2>1, <2>2
<1>23. c6[4 + 2 * H] = s3[1]
  <2>1. 4 + 2 * H \in 1 .. 4 + 2 * H
    BY <1>20
  <2> QED
    BY <1>13, <1>18, <2>1
<1>24. r.body # 0 => c6[4 + 2 * H + 1] = s4[1]
  <2> SUFFICES ASSUME r.body # 0 PROVE c6[4 + 2 * H + 1] = s4[1]
    OBVIOUS
  <2>1. 4 + 2 * H + 1 \in 1 .. 4 + 2 * H + BodyParts(r) /\ 1 \in 1 .. BodyParts(r)
    BY <1>7, <1>20
  <2>2. c6[4 + 2 * H + 1] = c4[4 + 2 * H + 1]
    BY <1>17, <2>1
  <2>3. c4[4 + 2 * H + 1] = s4[1]
    BY <1>14, <2>1
  <2> QED
    BY <2>2, <2>3
<1>25. ASSUME NEW k \in 1 .. T
       PROVE  /\ c6[4 + 2 * H + BodyParts(r) + 2 * k - 1] = s5[2 * k - 1]
              /\ c6[4 + 2 * H + BodyParts(r) + 2 * k] = s5[2 * k]
  <2>1. 2 * k - 1 \in 1 .. 2 * T /\ 2 * k \in 1 .. 2 * T
    BY <1>20
  <2>2. \A i \in 1 .. 2 * T : c6[4 + 2 * H + BodyParts(r) + i] = s5[i]
    <3> SUFFICES ASSUME NEW i \in 1 .. 2 * T
                 PROVE  c6[4 + 2 * H + BodyParts(r) + i] = s5[i]
      OBVIOUS
    <3> DEFINE n == 4 + 2 * H + BodyParts(r) + i
    <3>1. n \in 1 .. 4 + 2 * H + BodyParts(r) + 2 * T
      BY <1>7, <1>20
    <3>2. c5[n] = s5[i]
      BY <1>15
    <3> HIDE DEF n
    <3>3. c6[n] = c5[n]
      BY <1>16, <3>1
    <3> QED
      BY <3>2, <3>3 DEF n
  <2>3. 4 + 2 * H + BodyParts(r) + (2 * k - 1) = 4 + 2 * H + BodyParts(r) + 2 * k - 1
    BY <1>7, <1>20
  <2> QED
    BY <2>1, <2>2, <2>3
<1> QED
  BY <1>1, <1>3, <1>4, <1>5, <1>6, <1>16, <1>20, <1>21, <1>22, <1>23, <1>24, <1>25 DEF H, T

\* ---- the bytes of the first headers -----------------------------------------------

BytesOfFirst(r, k) == SumOfFirst(HeaderSizes(All(r)), k)

LEMMA HeaderSizeAt ==
  ASSUME NEW r \in Requests, NEW k \in 1 .. Len(All(r))
  PROVE  /\ HeaderSizes(All(r))[k]
              = All(r)[k].name_size + All(r)[k].value_size + SeparatorBytes
         /\ All(r)[k].name_size \in Nat /\ All(r)[k].value_size \in Nat
         /\ HeaderSizes(All(r))[k] \in Nat
<1>1. All(r) \in Seq(HeaderType)
  BY RequestType
<1>2. All(r)[k] \in HeaderType /\ k \in DOMAIN All(r)
  <2> HIDE DEF HeaderType
  <2> QED
    BY <1>1
<1>3. All(r)[k].name_size \in Nat /\ All(r)[k].value_size \in Nat
  BY <1>2 DEF HeaderType
<1> QED
  BY <1>2, <1>3, Limits DEF HeaderSizes

LEMMA BytesGrow ==
  ASSUME NEW r \in Requests
  PROVE  /\ Len(All(r)) \in Nat
         /\ BytesOfFirst(r, 0) = 0
         /\ \A k \in 0 .. Len(All(r)) : BytesOfFirst(r, k) \in Nat
         /\ \A k \in 0 .. Len(All(r)) - 1 :
              BytesOfFirst(r, k + 1)
                = BytesOfFirst(r, k) + All(r)[k + 1].name_size + All(r)[k + 1].value_size
                    + SeparatorBytes
         /\ \A m, n \in 0 .. Len(All(r)) : m <= n => BytesOfFirst(r, m) <= BytesOfFirst(r, n)
<1> DEFINE f == HeaderSizes(All(r))
           N == Len(All(r))
<1>1. N \in Nat /\ \A k \in 1 .. N : f[k] \in Nat
  BY RequestType, HeaderSizeAt
<1> HIDE DEF f, N
<1>2. SumOfFirst(f, 0) = 0
  BY FirstNone
<1>3. ASSUME NEW k \in 0 .. N PROVE SumOfFirst(f, k) \in Nat
  BY <1>1, FirstType
<1>4. ASSUME NEW k \in 0 .. N - 1
      PROVE  SumOfFirst(f, k + 1) = SumOfFirst(f, k) + f[k + 1]
  <2>1. k \in Nat /\ \A i \in 1 .. k + 1 : f[i] \in Nat
    BY <1>1
  <2> QED
    BY <2>1, FirstAdd
<1>5. ASSUME NEW m \in 0 .. N, NEW n \in 0 .. N, m <= n
      PROVE  SumOfFirst(f, m) <= SumOfFirst(f, n)
  <2>1. m \in Nat /\ n \in Nat /\ \A i \in 1 .. n : f[i] \in Nat
    BY <1>1
  <2> QED
    BY <1>5, <2>1, FirstMonotone
<1>6. ASSUME NEW k \in 0 .. N - 1
      PROVE  /\ SumOfFirst(f, k + 1)
                = SumOfFirst(f, k) + All(r)[k + 1].name_size + All(r)[k + 1].value_size
                    + SeparatorBytes
  <2>1. k + 1 \in 1 .. N
    BY <1>1
  <2>2. /\ f[k + 1] = All(r)[k + 1].name_size + All(r)[k + 1].value_size + SeparatorBytes
        /\ All(r)[k + 1].name_size \in Nat /\ All(r)[k + 1].value_size \in Nat
    BY <2>1, HeaderSizeAt DEF f, N
  <2>3. SumOfFirst(f, k) \in Nat
    BY <1>1, <1>3
  <2> QED
    BY <1>4, <2>2, <2>3, Limits
<1> QED
  BY <1>1, <1>2, <1>3, <1>5, <1>6 DEF f, N, BytesOfFirst

LEMMA BytesOfAll ==
  ASSUME NEW r \in Requests
  PROVE  /\ SumOf(HeaderSizes(r.headers)) = BytesOfFirst(r, Len(r.headers))
         /\ SumOf(HeaderSizes(All(r))) = BytesOfFirst(r, Len(All(r)))
<1>1. /\ DOMAIN r.headers = 1 .. Len(r.headers) /\ DOMAIN All(r) = 1 .. Len(All(r))
      /\ Len(r.headers) \in 0 .. Len(All(r))
      /\ \A k \in 1 .. Len(r.headers) : All(r)[k] = r.headers[k]
  <2>1. /\ r.headers \in Seq(HeaderType) /\ Len(r.headers) \in Nat
        /\ Len(r.trailers) \in Nat
        /\ All(r) \in Seq(HeaderType) /\ Len(All(r)) = Len(r.headers) + Len(r.trailers)
        /\ \A k \in 1 .. Len(r.headers) : All(r)[k] = r.headers[k]
    BY RequestType
  <2>2. DOMAIN r.headers = 1 .. Len(r.headers) /\ DOMAIN All(r) = 1 .. Len(All(r))
    BY <2>1, LenProperties, Zenon
  <2>3. Len(r.headers) \in 0 .. Len(All(r))
    <3> DEFINE H == Len(r.headers)
               T == Len(r.trailers)
               N == Len(All(r))
    <3>1. H \in Nat /\ T \in Nat /\ N = H + T
      BY <2>1
    <3> HIDE DEF H, T, N
    <3>2. H \in 0 .. N
      BY <3>1
    <3> QED
      BY <3>2 DEF H, N
  <2> QED
    BY <2>1, <2>2, <2>3
<1>2. HeaderSizes(r.headers) = [i \in 1 .. Len(r.headers) |-> HeaderSizes(All(r))[i]]
  BY <1>1 DEF HeaderSizes
<1>3. HeaderSizes(All(r)) = [i \in 1 .. Len(All(r)) |-> HeaderSizes(All(r))[i]]
  BY <1>1 DEF HeaderSizes
<1> QED
  BY <1>2, <1>3 DEF BytesOfFirst, SumOfFirst

\* ---- what the head says -----------------------------------------------------------

NamedAmong(r, k, name) == {i \in 1 .. k : r.headers[i].name = name}
LastAmong(r, k, name, default) ==
  IF NamedAmong(r, k, name) = {} THEN default
  ELSE r.headers[Max(NamedAmong(r, k, name))].value

LEMMA AmongAll ==
  ASSUME NEW r
  PROVE  /\ \A name : Named(r.headers, name) = NamedAmong(r, Len(r.headers), name)
         /\ \A name, default : LastValue(r.headers, name, default)
                                 = LastAmong(r, Len(r.headers), name, default)
  BY DEF Named, NamedAmong, LastValue, LastAmong

LEMMA NamedNone ==
  ASSUME NEW r
  PROVE  /\ \A name : Cardinality(NamedAmong(r, 0, name)) = 0
         /\ \A name, default : LastAmong(r, 0, name, default) = default
<1>1. \A name : NamedAmong(r, 0, name) = {}
  BY DEF NamedAmong
<1> QED
  BY <1>1, FS_EmptySet DEF LastAmong

LEMMA NamedFinite ==
  ASSUME NEW r, NEW k \in Nat, NEW name
  PROVE  IsFiniteSet(NamedAmong(r, k, name)) /\ Cardinality(NamedAmong(r, k, name)) \in Nat
<1>1. IsFiniteSet(1 .. k) /\ NamedAmong(r, k, name) \in SUBSET (1 .. k)
  BY FS_Interval DEF NamedAmong
<1> QED
  BY <1>1, FS_Subset, FS_CardinalityType

\* A header of the name is one more of them, and the last.
LEMMA NamedAdded ==
  ASSUME NEW r, NEW k \in Nat, NEW name, r.headers[k + 1].name = name
  PROVE  Cardinality(NamedAmong(r, k + 1, name)) = Cardinality(NamedAmong(r, k, name)) + 1
<1> DEFINE S == NamedAmong(r, k, name)
           T == NamedAmong(r, k + 1, name)
<1>1. T = S \cup {k + 1} /\ k + 1 \notin S
  BY DEF NamedAmong
<1>2. IsFiniteSet(S)
  BY NamedFinite
<1> HIDE DEF S, T
<1>3. Cardinality(T) = Cardinality(S) + 1
  BY <1>1, <1>2, FS_AddElement
<1> QED
  BY <1>3 DEF S, T

LEMMA LastAdded ==
  ASSUME NEW r, NEW k \in Nat, NEW name, NEW default, r.headers[k + 1].name = name
  PROVE  LastAmong(r, k + 1, name, default) = r.headers[k + 1].value
<1> DEFINE T == NamedAmong(r, k + 1, name)
<1>1. k + 1 \in T /\ \A i \in T : k + 1 >= i /\ i \in Nat
  BY DEF NamedAmong
<1>2. Max(T) = k + 1 /\ T # {}
  <2> HIDE DEF T
  <2>1. \A x \in T : (\A y \in T : x >= y) => x = k + 1
    BY <1>1
  <2> QED
    BY <1>1, <2>1 DEF Max
<1>3. LastAmong(r, k + 1, name, default)
        = IF T = {} THEN default ELSE r.headers[Max(T)].value
  BY Zenon DEF LastAmong
<1> HIDE DEF T
<1> QED
  BY <1>2, <1>3, Zenon

\* Any other header changes nothing.
LEMMA NamedKept ==
  ASSUME NEW r, NEW k \in Nat, NEW name, r.headers[k + 1].name # name
  PROVE  NamedAmong(r, k + 1, name) = NamedAmong(r, k, name)
  BY DEF NamedAmong

LEMMA LastKept ==
  ASSUME NEW r, NEW k \in Nat, NEW name, NEW default, r.headers[k + 1].name # name
  PROVE  LastAmong(r, k + 1, name, default) = LastAmong(r, k, name, default)
  BY NamedKept, Zenon DEF LastAmong

\* ---- the verdict ------------------------------------------------------------------

LEMMA VerdictOfUrl ==
  ASSUME NEW r, r.url_size > MaxUrl
  PROVE  HeadVerdict(r) = 414 /\ Verdict(r) = 414
<1>1. HeadVerdict(r) = 414
  BY Zenon DEF HeadVerdict
<1> QED
  BY <1>1 DEF Verdict

LEMMA VerdictOfHeadSize ==
  ASSUME NEW r, ~(r.url_size > MaxUrl), HeadTooLarge(r, r.headers)
  PROVE  HeadVerdict(r) = 431 /\ Verdict(r) = 431
  BY DEF HeadVerdict, Verdict

LEMMA VerdictOfHead ==
  ASSUME NEW r, HeadVerdict(r) # 0
  PROVE  Verdict(r) = HeadVerdict(r)
  BY DEF Verdict

LEMMA VerdictOfRest ==
  ASSUME NEW r, HeadVerdict(r) = 0
  PROVE  /\ r.body > MaxBody => Verdict(r) = 413
         /\ ~(r.body > MaxBody) /\ HeadTooLarge(r, All(r)) => Verdict(r) = 431
         /\ ~(r.body > MaxBody) /\ ~HeadTooLarge(r, All(r)) => Verdict(r) = 0
  BY DEF Verdict, All

\* ---- where the reader is ----------------------------------------------------------

\* The bytes counted before header k + 1.
HeadBytes(r, k) == RequestLineSize(r) + BytesOfFirst(r, k)

AtMethod == next[1] = 1 /\ header_count = 0 /\ header_bytes = seen
AtUrl ==
  /\ next[1] = 2 /\ header_count = 0
  /\ header_bytes = request.method_size + seen /\ seen <= MaxUrl
AtVersion ==
  /\ next[1] = 3 /\ header_count = 0
  /\ header_bytes = request.method_size + request.url_size + seen
AtField ==
  /\ header_count < Len(All(request))
  /\ next[1] = FieldAt(request, header_count + 1)
  /\ header_bytes = HeadBytes(request, header_count) + seen
AtValue ==
  /\ header_count < Len(All(request))
  /\ next[1] = FieldAt(request, header_count + 1) + 1
  /\ header_bytes = HeadBytes(request, header_count)
                      + All(request)[header_count + 1].name_size + seen
AtHeadEnd ==
  /\ header_count = Len(request.headers) /\ next[1] = HeadEnd(request)
  /\ header_bytes = HeadBytes(request, header_count)
AtBody ==
  /\ request.body # 0
  /\ header_count = Len(request.headers) /\ next[1] = HeadEnd(request) + 1
  /\ header_bytes = HeadBytes(request, header_count)
AtEnd ==
  /\ header_count = Len(All(request)) /\ next[1] = MessageEnd(request)
  /\ header_bytes = HeadBytes(request, header_count)

Place ==
  \/ AtMethod \/ AtUrl \/ AtVersion \/ AtField \/ AtValue
  \/ AtHeadEnd \/ AtBody \/ AtEnd

UrlInv == next[1] > 2 => request.url_size <= MaxUrl

\* What the callbacks of the first k headers leave.
HeadSeen(r, k) ==
  /\ authorization_count = Cardinality(NamedAmong(r, k, "authorization"))
  /\ content_type_count = Cardinality(NamedAmong(r, k, "content-type"))
  /\ authorization = LastAmong(r, k, "authorization", "none")
  /\ expect = LastAmong(r, k, "expect", "")
  /\ content_encoding = LastAmong(r, k, "content-encoding", "")

HeadInv ==
  /\ next[1] <= HeadEnd(request) => HeadSeen(request, header_count)
  /\ next[1] > HeadEnd(request) => HeadVerdict(request) = 0

BodyInv ==
  /\ next[1] <= HeadEnd(request) => body_size = 0
  /\ AtBody => body_size = seen
  /\ next[1] > HeadEnd(request) + BodyParts(request) => body_size = request.body

OutcomeInv ==
  /\ complete => failure_status = 0 /\ Verdict(request) = 0
  /\ \/ failure_status = 0
     \/ failure_status = 400 /\ ~sound
     \/ failure_status = 408 /\ clock >= ReadTimeout
     \/ failure_status = Verdict(request)

Progress == Place /\ UrlInv /\ HeadInv /\ BodyInv

LEMMA Geometry ==
  ASSUME NEW r \in Requests
  PROVE  LET H == Len(r.headers)
             N == Len(All(r))
             B == BodyParts(r)
         IN /\ H \in Nat /\ N \in Nat /\ H <= N /\ B \in {0, 1} /\ (r.body # 0 <=> B = 1)
            /\ HeadEnd(r) = 2 * H + 4 /\ MessageEnd(r) = 2 * N + B + 5
            /\ \A k \in 1 .. H : FieldAt(r, k) = 2 * k + 2
            /\ \A k \in H + 1 .. N : FieldAt(r, k) = 2 * k + 3 + B
<1> DEFINE H == Len(r.headers)
           T == Len(r.trailers)
           N == Len(All(r))
           B == BodyParts(r)
<1>1. H \in Nat /\ T \in Nat /\ N = H + T /\ r.body \in Nat
  BY RequestType
<1>2. B \in {0, 1} /\ (r.body # 0 <=> B = 1)
  BY DEF BodyParts
<1>3. HeadEnd(r) = 2 * H + 4 /\ MessageEnd(r) = 2 * H + 2 * T + B + 5
  BY DEF HeadEnd, MessageEnd
<1>4. \A k : FieldAt(r, k) = IF k <= H THEN 2 * k + 2 ELSE 2 * k + 3 + B
  BY DEF FieldAt
<1> HIDE DEF H, T, N, B
<1>5. H \in Nat /\ N \in Nat /\ H <= N /\ MessageEnd(r) = 2 * N + B + 5
  BY <1>1, <1>2, <1>3
<1>6. (\A k \in 1 .. H : FieldAt(r, k) = 2 * k + 2)
      /\ (\A k \in H + 1 .. N : FieldAt(r, k) = 2 * k + 3 + B)
  BY <1>1, <1>2, <1>4
<1> QED
  BY <1>2, <1>3, <1>5, <1>6 DEF H, N, B

LEMMA FieldParts ==
  ASSUME NEW r \in Requests, NEW k \in 1 .. Len(All(r))
  PROVE  /\ Parts(r)[FieldAt(r, k)] = Part("field", All(r)[k].name_size)
         /\ Parts(r)[FieldAt(r, k) + 1] = ValuePart(All(r)[k])
<1> DEFINE H == Len(r.headers)
           T == Len(r.trailers)
           N == Len(All(r))
           B == BodyParts(r)
           P == Parts(r)
<1>1. H \in Nat /\ T \in Nat /\ N = H + T /\ k \in 1 .. N
      /\ (\A i \in 1 .. H : All(r)[i] = r.headers[i])
      /\ (\A i \in 1 .. T : All(r)[H + i] = r.trailers[i])
  BY RequestType
<1>2. /\ \A i \in 1 .. H : /\ P[2 * i + 2] = Part("field", r.headers[i].name_size)
                           /\ P[2 * i + 3] = ValuePart(r.headers[i])
      /\ \A i \in 1 .. T :
           /\ P[HeadEnd(r) + B + 2 * i - 1] = Part("field", r.trailers[i].name_size)
           /\ P[HeadEnd(r) + B + 2 * i] = ValuePart(r.trailers[i])
  BY PartsAt
<1>3. /\ B \in {0, 1} /\ HeadEnd(r) = 2 * H + 4
      /\ \A i \in 1 .. H : FieldAt(r, i) = 2 * i + 2
      /\ \A i \in H + 1 .. N : FieldAt(r, i) = 2 * i + 3 + B
  BY Geometry
<1> HIDE DEF H, T, N, B, P
<1>4. CASE k \in 1 .. H
  <2>1. FieldAt(r, k) = 2 * k + 2 /\ FieldAt(r, k) + 1 = 2 * k + 3
    BY <1>1, <1>3, <1>4
  <2> QED
    BY <1>1, <1>2, <1>4, <2>1 DEF P
<1>5. CASE k \in H + 1 .. N
  <2>1. /\ k - H \in 1 .. T /\ H + (k - H) = k
        /\ FieldAt(r, k) = HeadEnd(r) + B + 2 * (k - H) - 1
        /\ FieldAt(r, k) + 1 = HeadEnd(r) + B + 2 * (k - H)
    <3>1. FieldAt(r, k) = 2 * k + 3 + B
      BY <1>3, <1>5
    <3>2. H \in Nat /\ T \in Nat /\ N = H + T /\ k \in H + 1 .. N /\ B \in {0, 1}
          /\ HeadEnd(r) = 2 * H + 4
      BY <1>1, <1>3, <1>5
    <3> QED
      BY <3>1, <3>2
  <2>2. All(r)[k] = r.trailers[k - H]
    BY <1>1, <2>1
  <2> QED
    BY <1>2, <2>1, <2>2 DEF P
<1> QED
  BY <1>1, <1>4, <1>5

LEMMA PartOfPlace ==
  ASSUME IInv
  PROVE  /\ AtMethod => part = Part("method", request.method_size)
         /\ AtUrl => part = Part("url", request.url_size)
         /\ AtVersion => part = Part("version", 3)
         /\ AtField => part = Part("field", All(request)[header_count + 1].name_size)
         /\ AtValue => part = ValuePart(All(request)[header_count + 1])
         /\ AtHeadEnd => part = Part("headers_complete", 0)
         /\ AtBody => part = Part("body", request.body)
         /\ AtEnd => part = Part("message_complete", 0)
<1>1. request \in Requests /\ header_count \in Nat
  <2>1. request \in Requests
    BY DEF IInv, TypeOK
  <2> QED
    BY <2>1, Counters, Limits
<1>2. header_count < Len(All(request)) => header_count + 1 \in 1 .. Len(All(request))
  <2>1. Len(All(request)) \in Nat
    BY <1>1, Geometry
  <2> QED
    BY <1>1, <2>1
<1>3. AtField => part = Part("field", All(request)[header_count + 1].name_size)
  BY <1>1, <1>2, FieldParts DEF AtField, part
<1>4. AtValue => part = ValuePart(All(request)[header_count + 1])
  BY <1>1, <1>2, FieldParts DEF AtValue, part
<1>5. /\ AtMethod => part = Part("method", request.method_size)
      /\ AtUrl => part = Part("url", request.url_size)
      /\ AtVersion => part = Part("version", 3)
      /\ AtHeadEnd => part = Part("headers_complete", 0)
      /\ AtBody => part = Part("body", request.body)
      /\ AtEnd => part = Part("message_complete", 0)
  BY <1>1, PartsAt DEF AtMethod, AtUrl, AtVersion, AtHeadEnd, AtBody, AtEnd, part
<1> QED
  BY <1>3, <1>4, <1>5

\* The kind of the part tells where the reader is.
LEMMA PlaceOfPart ==
  ASSUME IInv, Place
  PROVE  /\ part.kind = "method" => AtMethod /\ part.size = request.method_size
         /\ part.kind = "url" => AtUrl /\ part.size = request.url_size
         /\ part.kind = "version" => AtVersion /\ part.size = 3
         /\ part.kind = "field" =>
              AtField /\ part.size = All(request)[header_count + 1].name_size
         /\ part.kind = "value" =>
              /\ AtValue
              /\ part.size = All(request)[header_count + 1].value_size
              /\ part.header = All(request)[header_count + 1]
         /\ part.kind = "headers_complete" => AtHeadEnd
         /\ part.kind = "body" => AtBody /\ part.size = request.body
         /\ part.kind = "message_complete" => AtEnd
<1>1. /\ AtMethod => part.kind = "method" /\ part.size = request.method_size
      /\ AtUrl => part.kind = "url" /\ part.size = request.url_size
      /\ AtVersion => part.kind = "version" /\ part.size = 3
      /\ AtField =>
           part.kind = "field" /\ part.size = All(request)[header_count + 1].name_size
      /\ AtValue =>
           /\ part.kind = "value"
           /\ part.size = All(request)[header_count + 1].value_size
           /\ part.header = All(request)[header_count + 1]
      /\ AtHeadEnd => part.kind = "headers_complete"
      /\ AtBody => part.kind = "body" /\ part.size = request.body
      /\ AtEnd => part.kind = "message_complete"
  BY PartOfPlace DEF Part, ValuePart
<1> QED
  BY <1>1 DEF Place

\* ---- steps of the reader ----------------------------------------------------------

LEMMA Numbers ==
  ASSUME IInv
  PROVE  /\ request \in Requests
         /\ next[1] \in Nat /\ seen \in Nat
         /\ header_bytes \in Nat /\ header_bytes <= MaxHeaderBytes
         /\ header_count \in Nat /\ header_count <= MaxHeaderCount
         /\ body_size \in Nat /\ body_size <= MaxBody
<1>1. next[1] \in 1 .. Len(Parts(request)) /\ seen \in 0 .. part.size
  BY DEF IInv, TypeOK
<1>2. header_bytes \in 0 .. MaxHeaderBytes /\ header_count \in 0 .. MaxHeaderCount
      /\ body_size \in 0 .. MaxBody /\ request \in Requests
  BY DEF IInv, TypeOK
<1> QED
  BY <1>1, <1>2

LEMMA Moved ==
  ASSUME IInv, NEW count, Advance(count)
  PROVE  /\ Ended(count) => next'[1] = next[1] + 1 /\ seen' = 0
         /\ ~Ended(count) => next'[1] = next[1] /\ seen' = seen + count
  BY DEF Advance, seen

\* Only the place inside the head moves.
LEMMA InHead ==
  ASSUME IInv, HeadInv, BodyInv,
         next[1] <= HeadEnd(request), next'[1] \in Nat, next'[1] <= HeadEnd(request),
         UNCHANGED <<request, header_count, authorization, authorization_count,
                     content_type_count, content_type,
                     content_encoding, expect, body_size>>
  PROVE  HeadInv' /\ BodyInv'
<1>1. HeadEnd(request) \in Nat /\ BodyParts(request) \in {0, 1}
  <2>1. Len(request.headers) \in Nat /\ HeadEnd(request) = 2 * Len(request.headers) + 4
        /\ BodyParts(request) \in {0, 1}
    BY Numbers, Geometry
  <2> QED
    BY <2>1
<1>2. ~(next'[1] > HeadEnd(request)) /\ next'[1] # HeadEnd(request) + 1
      /\ ~(next'[1] > HeadEnd(request) + BodyParts(request))
  BY <1>1
<1>3. HeadInv'
  BY <1>2 DEF HeadInv, HeadSeen
<1>4. BodyInv'
  BY <1>2 DEF BodyInv, AtBody
<1> QED
  BY <1>3, <1>4

\* The next part begins with k headers counted.
LEMMA HeadersGo ==
  ASSUME NEW k \in 0 .. Len(All(request)), request \in Requests, UNCHANGED request,
         header_count' = k, header_bytes' = HeadBytes(request, k), seen' = 0,
         \/ k <= Len(request.headers) /\ next'[1] = 2 * k + 4
         \/ k >= Len(request.headers) /\ next'[1] = 2 * k + 5 + BodyParts(request)
  PROVE  Place'
<1> DEFINE H == Len(request.headers)
           N == Len(All(request))
           B == BodyParts(request)
<1>1. /\ H \in Nat /\ N \in Nat /\ H <= N /\ B \in {0, 1}
      /\ HeadEnd(request) = 2 * H + 4 /\ MessageEnd(request) = 2 * N + B + 5
      /\ \A i \in 1 .. H : FieldAt(request, i) = 2 * i + 2
      /\ \A i \in H + 1 .. N : FieldAt(request, i) = 2 * i + 3 + B
  BY Geometry
<1>2. HeadBytes(request, k) + 0 = HeadBytes(request, k)
  <2>1. BytesOfFirst(request, k) \in Nat
    BY BytesGrow
  <2>2. request.method_size \in Nat /\ request.url_size \in Nat
    BY RequestType
  <2> QED
    BY <2>1, <2>2 DEF HeadBytes, RequestLineSize
<1>3. k \in Nat /\ k <= N /\ (\/ k <= H /\ next'[1] = 2 * k + 4
                              \/ k >= H /\ next'[1] = 2 * k + 5 + B)
  BY <1>1
<1> HIDE DEF H, N, B
<1>4. \/ k < N /\ next'[1] = FieldAt(request, k + 1)
      \/ k = H /\ next'[1] = HeadEnd(request)
      \/ k = N /\ next'[1] = MessageEnd(request)
  <2>1. CASE k < H /\ next'[1] = 2 * k + 4
    BY <1>1, <1>3, <2>1
  <2>2. CASE k = H /\ next'[1] = 2 * k + 4
    BY <1>1, <1>3, <2>2
  <2>3. CASE k >= H /\ k < N /\ next'[1] = 2 * k + 5 + B
    BY <1>1, <1>3, <2>3
  <2>4. CASE k >= H /\ k = N /\ next'[1] = 2 * k + 5 + B
    BY <1>1, <1>3, <2>4
  <2> QED
    BY <1>1, <1>3, <2>1, <2>2, <2>3, <2>4
<1>5. CASE k < N /\ next'[1] = FieldAt(request, k + 1)
  <2>1. AtField'
    BY <1>2, <1>5 DEF AtField, N
  <2> QED
    BY <2>1 DEF Place
<1>6. CASE k = H /\ next'[1] = HeadEnd(request)
  <2>1. AtHeadEnd'
    BY <1>6 DEF AtHeadEnd, H
  <2> QED
    BY <2>1 DEF Place
<1>7. CASE k = N /\ next'[1] = MessageEnd(request)
  <2>1. AtEnd'
    BY <1>7 DEF AtEnd, N
  <2> QED
    BY <2>1 DEF Place
<1> QED
  BY <1>4, <1>5, <1>6, <1>7

\* ---- refusals ---------------------------------------------------------------------

LEMMA TooLargeMeans ==
  ASSUME NEW r \in Requests
  PROVE  /\ HeadTooLarge(r, r.headers) <=>
              \/ HeadBytes(r, Len(r.headers)) > MaxHeaderBytes
              \/ Len(r.headers) > MaxHeaderCount
         /\ HeadTooLarge(r, All(r)) <=>
              \/ HeadBytes(r, Len(All(r))) > MaxHeaderBytes
              \/ Len(All(r)) > MaxHeaderCount
  BY BytesOfAll, Zenon DEF HeadTooLarge, HeadBytes

\* The sizes that decide are numbers, and grow with every header.
LEMMA HeadBytesGrow ==
  ASSUME NEW r \in Requests
  PROVE  /\ RequestLineSize(r) \in Nat
         /\ HeadBytes(r, 0) = RequestLineSize(r)
         /\ \A k \in 0 .. Len(All(r)) : HeadBytes(r, k) \in Nat
         /\ \A k \in 0 .. Len(All(r)) - 1 :
              HeadBytes(r, k + 1) = HeadBytes(r, k) + All(r)[k + 1].name_size
                                      + All(r)[k + 1].value_size + SeparatorBytes
         /\ \A m, n \in 0 .. Len(All(r)) : m <= n => HeadBytes(r, m) <= HeadBytes(r, n)
<1>1. r.method_size \in Nat /\ r.url_size \in Nat
  BY RequestType
<1> DEFINE N == Len(All(r))
           L == RequestLineSize(r)
           B(k) == BytesOfFirst(r, k)
<1>2. L \in Nat /\ (\A k : HeadBytes(r, k) = L + B(k))
  BY <1>1 DEF RequestLineSize, HeadBytes
<1>3. /\ N \in Nat /\ B(0) = 0
      /\ \A k \in 0 .. N : B(k) \in Nat
      /\ \A k \in 0 .. N - 1 :
           B(k + 1) = B(k) + All(r)[k + 1].name_size + All(r)[k + 1].value_size
                        + SeparatorBytes
      /\ \A m, n \in 0 .. N : m <= n => B(m) <= B(n)
  BY BytesGrow
<1>4. \A k \in 0 .. N - 1 :
        /\ All(r)[k + 1].name_size \in Nat /\ All(r)[k + 1].value_size \in Nat
        /\ SeparatorBytes \in Nat
  <2>1. \A k \in 1 .. N : All(r)[k].name_size \in Nat /\ All(r)[k].value_size \in Nat
    BY HeaderSizeAt
  <2> HIDE DEF N
  <2>2. \A k \in 0 .. N - 1 : k + 1 \in 1 .. N
    BY <1>3
  <2> QED
    BY <2>1, <2>2, Limits
<1> HIDE DEF N, L, B
<1>5. HeadBytes(r, 0) = L
  BY <1>2, <1>3
<1>6. \A k \in 0 .. N : HeadBytes(r, k) \in Nat
  BY <1>2, <1>3
<1>7. \A k \in 0 .. N - 1 :
        HeadBytes(r, k + 1) = HeadBytes(r, k) + All(r)[k + 1].name_size
                                + All(r)[k + 1].value_size + SeparatorBytes
  <2> TAKE k \in 0 .. N - 1
  <2>1. B(k) \in Nat
    BY <1>3
  <2>2. HeadBytes(r, k + 1) = L + B(k + 1) /\ HeadBytes(r, k) = L + B(k)
    BY <1>2
  <2> QED
    BY <1>2, <1>3, <1>4, <2>1, <2>2
<1>8. \A m, n \in 0 .. N : m <= n => HeadBytes(r, m) <= HeadBytes(r, n)
  <2> TAKE m, n \in 0 .. N
  <2>1. B(m) \in Nat /\ B(n) \in Nat /\ (m <= n => B(m) <= B(n))
    BY <1>3
  <2>2. HeadBytes(r, m) = L + B(m) /\ HeadBytes(r, n) = L + B(n)
    BY <1>2
  <2> QED
    BY <1>2, <2>1, <2>2
<1> QED
  BY <1>2, <1>5, <1>6, <1>7, <1>8 DEF N, L

LEMMA Within ==
  ASSUME NEW r \in Requests
  PROVE  /\ r.url_size <= MaxUrl <=> ~(r.url_size > MaxUrl)
         /\ r.body <= MaxBody <=> ~(r.body > MaxBody)
<1>1. r.url_size \in Nat /\ r.body \in Nat
  BY RequestType
<1>2. MaxUrl \in Nat /\ MaxBody \in Nat
  BY LimitsAssumption
<1> QED
  BY <1>1, <1>2

LEMMA LineTooLarge ==
  ASSUME NEW r \in Requests, r.url_size <= MaxUrl, RequestLineSize(r) > MaxHeaderBytes
  PROVE  Verdict(r) = 431
<1>1. RequestLineSize(r) \in Nat /\ HeadBytes(r, Len(r.headers)) \in Nat
      /\ RequestLineSize(r) <= HeadBytes(r, Len(r.headers))
  <2>1. 0 \in 0 .. Len(All(r)) /\ Len(r.headers) \in 0 .. Len(All(r))
        /\ 0 <= Len(r.headers)
    BY Geometry
  <2> QED
    BY <2>1, HeadBytesGrow
<1>2. HeadTooLarge(r, r.headers)
  BY <1>1, TooLargeMeans, Limits
<1>3. ~(r.url_size > MaxUrl)
  BY Within
<1> QED
  BY <1>2, <1>3, VerdictOfHeadSize

\* Header k + 1 does not fit: the request is refused for its head, or, when that
\* header follows the body, for its trailers.
LEMMA HeaderTooLarge ==
  ASSUME NEW r \in Requests, NEW k \in 0 .. Len(All(r)) - 1, r.url_size <= MaxUrl,
         HeadBytes(r, k + 1) > MaxHeaderBytes \/ k + 1 > MaxHeaderCount,
         k + 1 <= Len(r.headers) \/ (HeadVerdict(r) = 0 /\ r.body <= MaxBody)
  PROVE  Verdict(r) = 431
<1> DEFINE H == Len(r.headers)
           N == Len(All(r))
<1>1. H \in Nat /\ N \in Nat /\ H <= N
  BY Geometry
<1>2. ASSUME NEW m \in 0 .. N, k + 1 <= m
      PROVE  HeadBytes(r, m) > MaxHeaderBytes \/ m > MaxHeaderCount
  <2>1. k + 1 \in 0 .. N
    BY <1>1
  <2>2. HeadBytes(r, k + 1) \in Nat /\ HeadBytes(r, m) \in Nat
        /\ HeadBytes(r, k + 1) <= HeadBytes(r, m)
    BY <1>2, <2>1, HeadBytesGrow
  <2> QED
    BY <1>1, <1>2, <2>2, Limits
<1>3. CASE k + 1 <= H
  <2>1. H \in 0 .. N
    BY <1>1
  <2>2. HeadTooLarge(r, r.headers)
    BY <1>2, <1>3, <2>1, TooLargeMeans
  <2>3. ~(r.url_size > MaxUrl)
    BY Within
  <2> QED
    BY <2>2, <2>3, VerdictOfHeadSize
<1>4. CASE HeadVerdict(r) = 0 /\ r.body <= MaxBody
  <2>1. N \in 0 .. N /\ k + 1 <= N
    BY <1>1
  <2>2. HeadTooLarge(r, All(r))
    BY <1>2, <2>1, TooLargeMeans
  <2>3. ~(r.body > MaxBody)
    BY <1>4, Within
  <2> QED
    BY <1>4, <2>2, <2>3, VerdictOfRest
<1> QED
  BY <1>3, <1>4

\* ---- the callbacks, and the verdict -----------------------------------------------

Continued == Progress' /\ UNCHANGED <<failure_status, complete>>
Refused == UNCHANGED <<next, context, complete>> /\ failure_status' = Verdict(request)

LEMMA HeadEndsLate ==
  IInv => HeadEnd(request) \in Nat /\ 4 <= HeadEnd(request)
<1> SUFFICES ASSUME IInv PROVE HeadEnd(request) \in Nat /\ 4 <= HeadEnd(request)
  OBVIOUS
<1>1. Len(request.headers) \in Nat /\ HeadEnd(request) = 2 * Len(request.headers) + 4
  BY Numbers, Geometry
<1> QED
  BY <1>1

LEMMA LineRefused ==
  ASSUME IInv, NEW count \in Nat, Fail(431), Verdict(request) = 431
  PROVE  Refused
  BY DEF Fail, Refused

LEMMA MethodGo ==
  ASSUME IInv, Progress, NEW count, ReceiveLinePart(count), part.kind = "method"
  PROVE  Continued
<1>1. /\ count \in 0 .. part.size - seen /\ count \in Nat
      /\ UNCHANGED <<request, require_bearer, sound, clock>>
  BY ReceivesKeeps DEF ReceiveLinePart
<1>2. AtMethod /\ part.size = request.method_size
  BY PlaceOfPart DEF Progress
<1>3. next[1] = 1 /\ header_count = 0 /\ header_bytes = seen /\ seen \in Nat
  BY <1>2, Numbers DEF AtMethod
<1>4. /\ request.method_size \in Nat /\ request.method_size <= MaxMethod
  BY Numbers, RequestType
<1>5. MaxMethod \in Nat /\ MaxUrl \in Nat /\ MaxHeaderBytes \in Nat
      /\ MaxMethod + MaxUrl <= MaxHeaderBytes
  BY LimitsAssumption
<1>6. LineFits(count, MaxMethod) /\ ~(count > HeaderRoom)
  BY <1>1, <1>2, <1>3, <1>4, <1>5 DEF LineFits, HeaderRoom
<1>7. /\ header_bytes' = header_bytes + count /\ Advance(count)
      /\ UNCHANGED <<header_count, authorization, authorization_count,
                     content_type_count, content_type,
                     content_encoding, expect, body_size, failure_status, complete>>
  BY <1>6 DEF ReceiveLinePart
<1>8. /\ Ended(count) => next'[1] = 2 /\ seen' = 0
      /\ ~Ended(count) => next'[1] = 1 /\ seen' = seen + count
  <2>1. /\ Ended(count) => next'[1] = next[1] + 1 /\ seen' = 0
        /\ ~Ended(count) => next'[1] = next[1] /\ seen' = seen + count
    BY <1>7, Moved
  <2> QED
    BY <1>3, <2>1
<1>9. Place'
  <2>1. CASE Ended(count)
    <3>1. header_bytes' = request.method_size + 0 /\ 0 <= MaxUrl
      BY <1>2, <1>3, <1>4, <1>5, <1>7, <2>1 DEF Ended
    <3>2. AtUrl'
      BY <1>1, <1>3, <1>7, <1>8, <2>1, <3>1 DEF AtUrl
    <3> QED
      BY <3>2 DEF Place
  <2>2. CASE ~Ended(count)
    <3>1. AtMethod'
      BY <1>3, <1>7, <1>8, <2>2 DEF AtMethod
    <3> QED
      BY <3>1 DEF Place
  <2> QED
    BY <2>1, <2>2
<1>10. next'[1] \in Nat /\ next'[1] <= 2
  BY <1>8
<1>11. HeadInv' /\ BodyInv'
  <2>1. next[1] <= HeadEnd(request) /\ next'[1] <= HeadEnd(request)
    BY <1>3, <1>10, HeadEndsLate
  <2> QED
    BY <1>1, <1>7, <1>10, <2>1, InHead DEF Progress
<1>12. UrlInv'
  BY <1>10 DEF UrlInv
<1> QED
  BY <1>7, <1>9, <1>11, <1>12 DEF Continued, Progress

LEMMA UrlGo ==
  ASSUME IInv, Progress, NEW count, ReceiveLinePart(count), part.kind = "url"
  PROVE  Continued \/ Refused
<1>1. /\ count \in 0 .. part.size - seen /\ count \in Nat
      /\ UNCHANGED <<request, require_bearer, sound, clock>>
  BY ReceivesKeeps DEF ReceiveLinePart
<1>2. AtUrl /\ part.size = request.url_size
  BY PlaceOfPart DEF Progress
<1>3. /\ next[1] = 2 /\ header_count = 0 /\ header_bytes = request.method_size + seen
      /\ seen \in Nat /\ seen <= MaxUrl
  BY <1>2, Numbers DEF AtUrl
<1>4. /\ request.method_size \in Nat /\ request.method_size <= MaxMethod
      /\ request.url_size \in Nat
  BY Numbers, RequestType
<1>5. MaxMethod \in Nat /\ MaxUrl \in Nat /\ MaxHeaderBytes \in Nat
      /\ MaxMethod + MaxUrl <= MaxHeaderBytes
  BY LimitsAssumption
<1>6. CASE ~LineFits(count, MaxUrl)
  <2>1. request.url_size > MaxUrl
    BY <1>1, <1>2, <1>3, <1>4, <1>5, <1>6 DEF LineFits
  <2>2. Verdict(request) = 414
    BY <2>1, VerdictOfUrl
  <2>3. Fail(414)
    BY <1>6 DEF ReceiveLinePart
  <2> QED
    BY <2>2, <2>3 DEF Fail, Refused
<1>7. CASE LineFits(count, MaxUrl)
  <2>1. seen + count <= MaxUrl /\ ~(count > HeaderRoom)
    BY <1>1, <1>3, <1>4, <1>5, <1>7 DEF LineFits, HeaderRoom
  <2>2. /\ header_bytes' = header_bytes + count /\ Advance(count)
        /\ UNCHANGED <<header_count, authorization, authorization_count,
                       content_type_count, content_type,
                       content_encoding, expect, body_size, failure_status, complete>>
    BY <1>7, <2>1 DEF ReceiveLinePart
  <2>3. /\ Ended(count) => next'[1] = 3 /\ seen' = 0
        /\ ~Ended(count) => next'[1] = 2 /\ seen' = seen + count
    <3>1. /\ Ended(count) => next'[1] = next[1] + 1 /\ seen' = 0
          /\ ~Ended(count) => next'[1] = next[1] /\ seen' = seen + count
      BY <2>2, Moved
    <3> QED
      BY <1>3, <3>1
  <2>4. ASSUME Ended(count) PROVE Place' /\ UrlInv'
    <3>1. request.url_size <= MaxUrl
      BY <1>2, <2>1, <2>4 DEF Ended
    <3>2. header_bytes' = request.method_size + request.url_size + 0
      BY <1>1, <1>2, <1>3, <1>4, <2>2, <2>4 DEF Ended
    <3>3. AtVersion'
      BY <1>1, <1>3, <2>2, <2>3, <2>4, <3>2 DEF AtVersion
    <3> QED
      BY <1>1, <3>1, <3>3 DEF Place, UrlInv
  <2>5. ASSUME ~Ended(count) PROVE Place' /\ UrlInv'
    <3>1. header_bytes' = request.method_size + (seen + count)
      BY <1>1, <1>3, <1>4, <2>2
    <3>2. AtUrl'
      BY <1>1, <1>3, <2>1, <2>2, <2>3, <2>5, <3>1 DEF AtUrl
    <3>3. UrlInv'
      BY <2>3, <2>5 DEF UrlInv
    <3> QED
      BY <3>2, <3>3 DEF Place
  <2>6. Place' /\ UrlInv'
    BY <2>4, <2>5
  <2>7. next'[1] \in Nat /\ next'[1] <= 3
    BY <2>3
  <2>8. HeadInv' /\ BodyInv'
    <3>1. next[1] <= HeadEnd(request) /\ next'[1] <= HeadEnd(request)
      BY <1>3, <2>7, HeadEndsLate
    <3> QED
      BY <1>1, <2>2, <2>7, <3>1, InHead DEF Progress
  <2> QED
    BY <2>2, <2>6, <2>8 DEF Continued, Progress
<1> QED
  BY <1>6, <1>7

LEMMA VersionGo ==
  ASSUME IInv, Progress, NEW count, ReceiveCounted(count), part.kind = "version"
  PROVE  Continued \/ Refused
<1>1. /\ count \in 0 .. part.size - seen /\ count \in Nat
      /\ UNCHANGED <<request, require_bearer, sound, clock>>
  BY ReceivesKeeps DEF ReceiveCounted
<1>2. AtVersion /\ part.size = 3
  BY PlaceOfPart DEF Progress
<1>3. /\ next[1] = 3 /\ header_count = 0
      /\ header_bytes = request.method_size + request.url_size + seen /\ seen \in Nat
  BY <1>2, Numbers DEF AtVersion
<1>4. request.method_size \in Nat /\ request.url_size \in Nat
  BY Numbers, RequestType
<1>5. request.url_size <= MaxUrl
  BY <1>3 DEF Progress, UrlInv
<1>6. CASE count > HeaderRoom
  <2>1. RequestLineSize(request) > MaxHeaderBytes
    BY <1>1, <1>2, <1>3, <1>4, <1>6, Limits DEF RequestLineSize, HeaderRoom
  <2>2. Verdict(request) = 431
    BY <1>5, <2>1, Numbers, LineTooLarge
  <2>3. Fail(431)
    BY <1>6 DEF ReceiveCounted
  <2> QED
    BY <2>2, <2>3 DEF Fail, Refused
<1>7. CASE ~(count > HeaderRoom)
  <2>2. /\ header_bytes' = header_bytes + count /\ Advance(count)
        /\ UNCHANGED <<header_count, authorization, authorization_count,
                       content_type_count, content_type,
                       content_encoding, expect, body_size, failure_status, complete>>
    BY <1>7 DEF ReceiveCounted
  <2>3. /\ Ended(count) => next'[1] = 4 /\ seen' = 0
        /\ ~Ended(count) => next'[1] = 3 /\ seen' = seen + count
    <3>1. /\ Ended(count) => next'[1] = next[1] + 1 /\ seen' = 0
          /\ ~Ended(count) => next'[1] = next[1] /\ seen' = seen + count
      BY <2>2, Moved
    <3> QED
      BY <1>3, <3>1
  <2>4. ASSUME Ended(count) PROVE Place'
    <3>1. header_bytes' = RequestLineSize(request)
      BY <1>1, <1>2, <1>3, <1>4, <2>2, <2>4 DEF Ended, RequestLineSize
    <3>2. header_bytes' = HeadBytes(request, 0) /\ header_count' = 0
      BY <1>3, <2>2, <3>1, Numbers, HeadBytesGrow
    <3>3. 0 \in 0 .. Len(All(request)) /\ 0 <= Len(request.headers) /\ next'[1] = 2 * 0 + 4
      BY <2>3, <2>4, Numbers, Geometry
    <3> QED
      BY <1>1, <2>3, <2>4, <3>2, <3>3, Numbers, HeadersGo
  <2>5. ASSUME ~Ended(count) PROVE Place'
    <3>1. header_bytes' = request.method_size + request.url_size + (seen + count)
      BY <1>1, <1>3, <1>4, <2>2
    <3>2. AtVersion'
      BY <1>1, <1>3, <2>2, <2>3, <2>5, <3>1 DEF AtVersion
    <3> QED
      BY <3>2 DEF Place
  <2>6. Place' /\ UrlInv'
    BY <1>1, <1>5, <2>4, <2>5 DEF UrlInv
  <2>7. next'[1] \in Nat /\ next'[1] <= 4
    BY <2>3
  <2>8. HeadInv' /\ BodyInv'
    <3>1. next[1] <= HeadEnd(request) /\ next'[1] <= HeadEnd(request)
      BY <1>3, <2>7, HeadEndsLate
    <3> QED
      BY <1>1, <2>2, <2>7, <3>1, InHead DEF Progress
  <2> QED
    BY <2>2, <2>6, <2>8 DEF Continued, Progress
<1> QED
  BY <1>6, <1>7

\* Where a header is, and on which side of the end of the head.
LEMMA HeaderPlace ==
  ASSUME IInv, AtField \/ AtValue
  PROVE  LET k == header_count
             H == Len(request.headers)
             B == BodyParts(request)
             n == FieldAt(request, k + 1)
         IN /\ k \in 0 .. Len(All(request)) - 1 /\ k + 1 \in 0 .. Len(All(request))
            /\ k + 1 \in 1 .. Len(All(request))
            /\ n \in Nat /\ H \in Nat /\ B \in {0, 1} /\ next[1] \in {n, n + 1}
            /\ n > 2 /\ (AtField => next[1] = n) /\ (AtValue => next[1] = n + 1)
            /\ k + 1 <= H => n = 2 * k + 4 /\ n + 2 <= HeadEnd(request)
            /\ ~(k + 1 <= H) => /\ n = 2 * k + 5 + B
                                /\ n > HeadEnd(request) + B /\ k >= H
            /\ HeadEnd(request) \in Nat
<1> DEFINE k == header_count
           H == Len(request.headers)
           N == Len(All(request))
           B == BodyParts(request)
           n == FieldAt(request, k + 1)
           E == HeadEnd(request)
<1>1. /\ H \in Nat /\ N \in Nat /\ H <= N /\ B \in {0, 1} /\ E = 2 * H + 4
      /\ \A i \in 1 .. H : FieldAt(request, i) = 2 * i + 2
      /\ \A i \in H + 1 .. N : FieldAt(request, i) = 2 * i + 3 + B
  BY Numbers, Geometry
<1>2. k \in Nat /\ k < N /\ (AtField => next[1] = n) /\ (AtValue => next[1] = n + 1)
  BY Numbers DEF AtField, AtValue
<1>3. next[1] \in {n, n + 1}
  BY <1>2
<1> HIDE DEF k, H, N, B, E
<1>4. k \in 0 .. N - 1 /\ k + 1 \in 0 .. N /\ k + 1 \in 1 .. N
  BY <1>1, <1>2
<1>5. k + 1 <= H => n = 2 * k + 4
  BY <1>1, <1>4
<1>6. ~(k + 1 <= H) => n = 2 * k + 5 + B
  BY <1>1, <1>4
<1> HIDE DEF n
<1>7. /\ k + 1 <= H => n \in Nat /\ n > 2 /\ n + 2 <= E
      /\ ~(k + 1 <= H) => n \in Nat /\ n > 2 /\ n > E + B /\ k >= H
  BY <1>1, <1>4, <1>5, <1>6
<1> QED
  BY <1>1, <1>2, <1>3, <1>4, <1>5, <1>6, <1>7 DEF k, H, N, B, n, E

LEMMA VerdictsStay ==
  ASSUME UNCHANGED <<request, require_bearer>>
  PROVE  HeadVerdict(request)' = HeadVerdict(request) /\ Verdict(request)' = Verdict(request)
<1>1. request' = request /\ require_bearer' = require_bearer
  OBVIOUS
<1>2. HeadVerdict(request)' = HeadVerdict(request)
  <2> DEFINE long == request.url_size > MaxUrl
             large == HeadTooLarge(request, request.headers)
             repeated == \/ Cardinality(Named(request.headers, "authorization")) > 1
                         \/ Cardinality(Named(request.headers, "content-type")) > 1
             anonymous == /\ require_bearer
                          /\ request.url # "/ui"
                          /\ LastValue(request.headers, "authorization", "none") # "valid"
             declared == request.content_length > MaxBody
             waits == LastValue(request.headers, "expect", "") # ""
             encoded == LastValue(request.headers, "content-encoding", "")
                          \notin {"", "identity"}
  <2>1. HeadVerdict(request) = IF long THEN 414 ELSE IF large THEN 431
                               ELSE IF repeated THEN 400 ELSE IF anonymous THEN 401
                               ELSE IF declared THEN 413 ELSE IF waits THEN 417
                               ELSE IF encoded THEN 415 ELSE 0
    BY Zenon DEF HeadVerdict
  <2>2. HeadVerdict(request)' = IF long' THEN 414 ELSE IF large' THEN 431
                                ELSE IF repeated' THEN 400 ELSE IF anonymous' THEN 401
                                ELSE IF declared' THEN 413 ELSE IF waits' THEN 417
                                ELSE IF encoded' THEN 415 ELSE 0
    BY Zenon DEF HeadVerdict
  <2>3. (long' <=> long) /\ (large' <=> large) /\ (repeated' <=> repeated)
    BY <1>1
  <2>4. anonymous' <=> anonymous
    BY <1>1
  <2>5. (declared' <=> declared) /\ (waits' <=> waits) /\ (encoded' <=> encoded)
    BY <1>1
  <2> HIDE DEF long, large, repeated, anonymous, declared, waits, encoded
  <2> QED
    BY <2>1, <2>2, <2>3, <2>4, <2>5
<1>3. Verdict(request)' = Verdict(request)
  <2> DEFINE refused == HeadVerdict(request) # 0
             long == request.body > MaxBody
             large == HeadTooLarge(request, request.headers \o request.trailers)
  <2>1. Verdict(request) = IF refused THEN HeadVerdict(request) ELSE IF long THEN 413
                           ELSE IF large THEN 431 ELSE 0
    BY Zenon DEF Verdict
  <2>2. Verdict(request)' = IF refused' THEN HeadVerdict(request)' ELSE IF long' THEN 413
                            ELSE IF large' THEN 431 ELSE 0
    BY Zenon DEF Verdict
  <2>3. (long' <=> long) /\ (large' <=> large)
    BY <1>1
  <2>4. refused' <=> refused
    BY <1>2
  <2> HIDE DEF refused, long, large
  <2> QED
    BY <1>2, <2>1, <2>2, <2>3, <2>4
<1> QED
  BY <1>2, <1>3

\* Only the place after the body moves.
LEMMA InTrailers ==
  ASSUME IInv, HeadInv, BodyInv, next'[1] \in Nat,
         next[1] > HeadEnd(request) + BodyParts(request),
         next'[1] > HeadEnd(request) + BodyParts(request),
         UNCHANGED <<request, require_bearer, body_size>>
  PROVE  HeadInv' /\ BodyInv'
<1>1. HeadEnd(request) \in Nat /\ BodyParts(request) \in {0, 1}
      /\ (request.body # 0 => BodyParts(request) = 1) /\ next[1] \in Nat
  BY HeadEndsLate, Numbers, Geometry
<1>2. /\ next[1] > HeadEnd(request) /\ ~(next'[1] <= HeadEnd(request))
      /\ request.body # 0 => next'[1] # HeadEnd(request) + 1
  BY <1>1
<1>3. HeadVerdict(request) = 0
  BY <1>2 DEF HeadInv
<1>4. HeadVerdict(request)' = 0
  BY <1>3, VerdictsStay
<1>5. HeadInv'
  BY <1>2, <1>4 DEF HeadInv
<1>6. BodyInv'
  BY <1>2 DEF BodyInv, AtBody
<1> QED
  BY <1>5, <1>6

LEMMA HeaderRefused ==
  ASSUME IInv, Progress, AtField \/ AtValue,
         \/ HeadBytes(request, header_count + 1) > MaxHeaderBytes
         \/ header_count + 1 > MaxHeaderCount
  PROVE  Verdict(request) = 431
<1> DEFINE k == header_count
           H == Len(request.headers)
           B == BodyParts(request)
           n == FieldAt(request, k + 1)
           E == HeadEnd(request)
<1>1. /\ k \in 0 .. Len(All(request)) - 1 /\ n \in Nat /\ B \in {0, 1} /\ E \in Nat
      /\ next[1] \in {n, n + 1} /\ n > 2 /\ (~(k + 1 <= H) => n > E + B)
  BY HeaderPlace
<1> HIDE DEF k, H, B, n, E
<1>2. next[1] > 2 /\ (~(k + 1 <= H) => next[1] > E + B /\ next[1] > E)
  BY <1>1
<1>3. request.url_size <= MaxUrl
  BY <1>2 DEF Progress, UrlInv
<1>4. ~(k + 1 <= H) => HeadVerdict(request) = 0 /\ body_size = request.body
  BY <1>2 DEF Progress, HeadInv, BodyInv, E, B
<1>5. k + 1 <= H \/ (HeadVerdict(request) = 0 /\ request.body <= MaxBody)
  BY <1>4, Numbers
<1>6. request \in Requests
  BY Numbers
<1>7. HeadBytes(request, k + 1) > MaxHeaderBytes \/ k + 1 > MaxHeaderCount
  BY DEF k
<1> QED
  BY <1>1, <1>3, <1>5, <1>6, <1>7, HeaderTooLarge DEF H

LEMMA HeaderSizesKnown ==
  ASSUME IInv, AtField \/ AtValue
  PROVE  LET k == header_count
             header == All(request)[k + 1]
         IN /\ HeadBytes(request, k) \in Nat
            /\ header.name_size \in Nat /\ header.value_size \in Nat
            /\ HeadBytes(request, k + 1)
                 = HeadBytes(request, k) + header.name_size + header.value_size
                     + SeparatorBytes
<1>1. /\ header_count \in 0 .. Len(All(request)) - 1
      /\ header_count + 1 \in 1 .. Len(All(request)) /\ request \in Requests
      /\ Len(All(request)) \in Nat
  BY HeaderPlace, Numbers, Geometry
<1>2. header_count \in 0 .. Len(All(request))
  BY <1>1
<1> QED
  BY <1>1, <1>2, HeadBytesGrow, HeaderSizeAt

LEMMA FieldGo ==
  ASSUME IInv, Progress, NEW count, ReceiveCounted(count), part.kind = "field"
  PROVE  Continued \/ Refused
<1> DEFINE k == header_count
           H == Len(request.headers)
           B == BodyParts(request)
           n == FieldAt(request, k + 1)
           E == HeadEnd(request)
           N == Len(All(request))
           size == All(request)[k + 1].name_size
           more == All(request)[k + 1].value_size
           before == HeadBytes(request, k)
           after == HeadBytes(request, k + 1)
<1>1. /\ count \in 0 .. part.size - seen /\ count \in Nat
      /\ UNCHANGED <<request, require_bearer, sound, clock>>
  BY ReceivesKeeps DEF ReceiveCounted
<1>2. AtField /\ part.size = size
  BY PlaceOfPart DEF Progress
<1>3. /\ k < N /\ next[1] = n /\ header_bytes = before + seen /\ seen \in Nat
  BY <1>2, Numbers DEF AtField
<1>4. before \in Nat /\ size \in Nat /\ more \in Nat
      /\ after = before + size + more + SeparatorBytes
  BY <1>2, HeaderSizesKnown
<1>5. /\ n \in Nat /\ B \in {0, 1} /\ E \in Nat /\ n > 2
      /\ k + 1 <= H => n + 2 <= E
      /\ ~(k + 1 <= H) => n > E + B
  BY <1>2, HeaderPlace
<1> HIDE DEF n, E, B, H, N, k, size, more, before, after
<1>6. CASE count > HeaderRoom
  <2>1. after > MaxHeaderBytes
    BY <1>1, <1>2, <1>3, <1>4, <1>6, Limits DEF HeaderRoom
  <2>2. Verdict(request) = 431
    BY <1>2, <2>1, HeaderRefused DEF after, k
  <2>3. Fail(431)
    BY <1>6 DEF ReceiveCounted
  <2> QED
    BY <2>2, <2>3 DEF Fail, Refused
<1>7. CASE ~(count > HeaderRoom)
  <2>1. /\ header_bytes' = header_bytes + count /\ Advance(count)
        /\ UNCHANGED <<header_count, authorization, authorization_count,
                       content_type_count, content_type,
                       content_encoding, expect, body_size, failure_status, complete>>
    BY <1>7 DEF ReceiveCounted
  <2>2. /\ Ended(count) => next'[1] = n + 1 /\ seen' = 0
        /\ ~Ended(count) => next'[1] = n /\ seen' = seen + count
    BY <1>3, <2>1, Moved
  <2>3. ASSUME Ended(count) PROVE Place'
    <3>1. header_bytes' = before + size + 0
      BY <1>1, <1>2, <1>3, <1>4, <2>1, <2>3 DEF Ended
    <3>2. AtValue'
      BY <1>1, <1>3, <2>1, <2>2, <2>3, <3>1 DEF AtValue, k, n, before, size, N
    <3> QED
      BY <3>2 DEF Place
  <2>4. ASSUME ~Ended(count) PROVE Place'
    <3>1. header_bytes' = before + (seen + count)
      BY <1>1, <1>3, <1>4, <2>1
    <3>2. AtField'
      BY <1>1, <1>3, <2>1, <2>2, <2>4, <3>1 DEF AtField, k, n, before, N
    <3> QED
      BY <3>2 DEF Place
  <2>5. next'[1] \in {n, n + 1} /\ next[1] = n
    BY <1>3, <2>2
  <2>6. next'[1] \in Nat /\ next'[1] > 2 /\ next[1] > 2
        /\ (k + 1 <= H => next[1] <= E /\ next'[1] <= E)
        /\ (~(k + 1 <= H) => next[1] > E + B /\ next'[1] > E + B)
    BY <1>5, <2>5
  <2>7. HeadInv' /\ BodyInv'
    <3>1. CASE k + 1 <= H
      BY <1>1, <2>1, <2>6, <3>1, InHead DEF Progress, E
    <3>2. CASE ~(k + 1 <= H)
      BY <1>1, <2>1, <2>6, <3>2, InTrailers DEF Progress, E, B
    <3> QED
      BY <3>1, <3>2
  <2>8. UrlInv'
    BY <1>1, <2>6 DEF Progress, UrlInv
  <2> QED
    BY <2>1, <2>3, <2>4, <2>7, <2>8 DEF Continued, Progress
<1> QED
  BY <1>6, <1>7

\* One more header: what the server remembers is what the first k + 1 say.
LEMMA SeenNext ==
  ASSUME NEW k \in Nat, HeadSeen(request, k), CompleteHeader(request.headers[k + 1]),
         UNCHANGED request, header_count' = k + 1
  PROVE  HeadSeen(request, header_count)'
<1> DEFINE r == request
           header == r.headers[k + 1]
<1>1. authorization_count' = Cardinality(NamedAmong(r, k + 1, "authorization"))
  <2>1. authorization_count = Cardinality(NamedAmong(r, k, "authorization"))
    BY DEF HeadSeen
  <2>2. authorization_count \in Nat
    BY <2>1, NamedFinite
  <2>3. CASE header.name = "authorization"
    <3>1. authorization_count' = authorization_count + 1
      BY <2>3 DEF CompleteHeader
    <3>2. Cardinality(NamedAmong(r, k + 1, "authorization"))
            = Cardinality(NamedAmong(r, k, "authorization")) + 1
      BY <2>3, NamedAdded
    <3> QED
      BY <2>1, <3>1, <3>2, Zenon
  <2>4. CASE header.name # "authorization"
    <3>1. authorization_count' = authorization_count + 0
      BY <2>4 DEF CompleteHeader
    <3>2. authorization_count' = authorization_count
      BY <2>2, <3>1
    <3>3. NamedAmong(r, k + 1, "authorization") = NamedAmong(r, k, "authorization")
      BY <2>4, NamedKept
    <3> QED
      BY <2>1, <3>2, <3>3, Zenon
  <2> QED
    BY <2>3, <2>4
<1>2. content_type_count' = Cardinality(NamedAmong(r, k + 1, "content-type"))
  <2>1. content_type_count = Cardinality(NamedAmong(r, k, "content-type"))
    BY DEF HeadSeen
  <2>2. content_type_count \in Nat
    BY <2>1, NamedFinite
  <2>3. CASE header.name = "content-type"
    <3>1. content_type_count' = content_type_count + 1
      BY <2>3 DEF CompleteHeader
    <3>2. Cardinality(NamedAmong(r, k + 1, "content-type"))
            = Cardinality(NamedAmong(r, k, "content-type")) + 1
      BY <2>3, NamedAdded
    <3> QED
      BY <2>1, <3>1, <3>2, Zenon
  <2>4. CASE header.name # "content-type"
    <3>1. content_type_count' = content_type_count + 0
      BY <2>4 DEF CompleteHeader
    <3>2. content_type_count' = content_type_count
      BY <2>2, <3>1
    <3>3. NamedAmong(r, k + 1, "content-type") = NamedAmong(r, k, "content-type")
      BY <2>4, NamedKept
    <3> QED
      BY <2>1, <3>2, <3>3, Zenon
  <2> QED
    BY <2>3, <2>4
<1>3. authorization' = LastAmong(r, k + 1, "authorization", "none")
  <2>1. CASE header.name = "authorization"
    <3>1. authorization' = header.value
      BY <2>1 DEF CompleteHeader
    <3>2. LastAmong(r, k + 1, "authorization", "none") = header.value
      BY <2>1, LastAdded
    <3> QED
      BY <3>1, <3>2, Zenon
  <2>2. CASE header.name # "authorization"
    <3>1. authorization' = authorization
      BY <2>2 DEF CompleteHeader
    <3>2. authorization = LastAmong(r, k, "authorization", "none")
      BY DEF HeadSeen
    <3>3. LastAmong(r, k + 1, "authorization", "none")
            = LastAmong(r, k, "authorization", "none")
      BY <2>2, LastKept
    <3> QED
      BY <3>1, <3>2, <3>3, Zenon
  <2> QED
    BY <2>1, <2>2
<1>4. expect' = LastAmong(r, k + 1, "expect", "")
  <2>1. CASE header.name = "expect"
    <3>1. expect' = header.value
      BY <2>1 DEF CompleteHeader
    <3>2. LastAmong(r, k + 1, "expect", "") = header.value
      BY <2>1, LastAdded
    <3> QED
      BY <3>1, <3>2, Zenon
  <2>2. CASE header.name # "expect"
    <3>1. expect' = expect
      BY <2>2 DEF CompleteHeader
    <3>2. expect = LastAmong(r, k, "expect", "")
      BY DEF HeadSeen
    <3>3. LastAmong(r, k + 1, "expect", "")
            = LastAmong(r, k, "expect", "")
      BY <2>2, LastKept
    <3> QED
      BY <3>1, <3>2, <3>3, Zenon
  <2> QED
    BY <2>1, <2>2
<1>5. content_encoding' = LastAmong(r, k + 1, "content-encoding", "")
  <2>1. CASE header.name = "content-encoding"
    <3>1. content_encoding' = header.value
      BY <2>1 DEF CompleteHeader
    <3>2. LastAmong(r, k + 1, "content-encoding", "") = header.value
      BY <2>1, LastAdded
    <3> QED
      BY <3>1, <3>2, Zenon
  <2>2. CASE header.name # "content-encoding"
    <3>1. content_encoding' = content_encoding
      BY <2>2 DEF CompleteHeader
    <3>2. content_encoding = LastAmong(r, k, "content-encoding", "")
      BY DEF HeadSeen
    <3>3. LastAmong(r, k + 1, "content-encoding", "")
            = LastAmong(r, k, "content-encoding", "")
      BY <2>2, LastKept
    <3> QED
      BY <3>1, <3>2, <3>3, Zenon
  <2> QED
    BY <2>1, <2>2
<1> QED
  BY <1>1, <1>2, <1>3, <1>4, <1>5 DEF HeadSeen

LEMMA ValueGo ==
  ASSUME IInv, Progress, NEW count, ReceiveHeaderValue(count)
  PROVE  Continued \/ Refused
<1> DEFINE k == header_count
           H == Len(request.headers)
           B == BodyParts(request)
           n == FieldAt(request, k + 1)
           E == HeadEnd(request)
           N == Len(All(request))
           size == All(request)[k + 1].name_size
           more == All(request)[k + 1].value_size
           before == HeadBytes(request, k)
           after == HeadBytes(request, k + 1)
<1>1. /\ count \in 0 .. part.size - seen /\ count \in Nat
      /\ UNCHANGED <<request, require_bearer, sound, clock>> /\ part.kind = "value"
  BY ReceivesKeeps DEF ReceiveHeaderValue
<1>2. AtValue /\ part.size = more /\ part.header = All(request)[k + 1]
  BY <1>1, PlaceOfPart DEF Progress
<1>3. /\ k < N /\ next[1] = n + 1 /\ header_bytes = before + size + seen
      /\ seen \in Nat /\ k \in Nat
  BY <1>2, Numbers DEF AtValue
<1>4. before \in Nat /\ size \in Nat /\ more \in Nat
      /\ after = before + size + more + SeparatorBytes
  BY <1>2, HeaderSizesKnown
<1>5. /\ n \in Nat /\ B \in {0, 1} /\ E \in Nat /\ n > 2 /\ k + 1 \in 0 .. N
      /\ k + 1 <= H => n = 2 * k + 4 /\ n + 2 <= E
      /\ ~(k + 1 <= H) => n = 2 * k + 5 + B /\ n > E + B /\ k >= H
  BY <1>2, HeaderPlace
<1>6. H \in Nat
  BY Numbers, Geometry
<1>7. k + 1 <= H => All(request)[k + 1] = request.headers[k + 1]
  <2>1. \A i \in 1 .. H : All(request)[i] = request.headers[i]
    BY Numbers, RequestType
  <2>2. k + 1 <= H => k + 1 \in 1 .. H
    BY <1>3, <1>6
  <2> QED
    BY <2>1, <2>2
<1> HIDE DEF n, E, B, H, N, k, size, more, before, after
<1>8. CASE \/ count > HeaderRoom
           \/ /\ Ended(count)
              /\ SeparatorBytes > HeaderRoom - count \/ header_count + 1 > MaxHeaderCount
  <2>1. after > MaxHeaderBytes \/ k + 1 > MaxHeaderCount
    <3>1. CASE count > HeaderRoom
      BY <1>1, <1>2, <1>3, <1>4, <3>1, Limits DEF HeaderRoom
    <3>2. CASE Ended(count) /\ SeparatorBytes > HeaderRoom - count
      BY <1>1, <1>2, <1>3, <1>4, <3>2, Limits DEF HeaderRoom, Ended
    <3>3. CASE header_count + 1 > MaxHeaderCount
      BY <3>3 DEF k
    <3> QED
      BY <1>8, <3>1, <3>2, <3>3
  <2>2. Verdict(request) = 431
    BY <1>2, <2>1, HeaderRefused DEF after, k
  <2>3. Fail(431)
    BY <1>8 DEF ReceiveHeaderValue
  <2> QED
    BY <2>2, <2>3 DEF Fail, Refused
<1>9. CASE ~(\/ count > HeaderRoom
             \/ /\ Ended(count)
                /\ \/ SeparatorBytes > HeaderRoom - count
                   \/ header_count + 1 > MaxHeaderCount)
  <2>1. Advance(count) /\ UNCHANGED <<body_size, failure_status, complete>>
    BY <1>9 DEF ReceiveHeaderValue
  <2>2. /\ Ended(count) => next'[1] = n + 2 /\ seen' = 0
        /\ ~Ended(count) => next'[1] = n + 1 /\ seen' = seen + count
    <3>1. /\ Ended(count) => next'[1] = next[1] + 1 /\ seen' = 0
          /\ ~Ended(count) => next'[1] = next[1] /\ seen' = seen + count
      BY <2>1, Moved
    <3> QED
      BY <1>3, <1>5, <3>1
  <2>3. CASE Ended(count)
    <3>1. /\ header_bytes' = header_bytes + count + SeparatorBytes
          /\ header_count' = k + 1 /\ CompleteHeader(All(request)[k + 1])
      BY <1>2, <1>9, <2>3 DEF ReceiveHeaderValue, k
    <3>2. header_bytes' = after
      BY <1>1, <1>2, <1>3, <1>4, <2>3, <3>1, Limits DEF Ended
    <3>3. next'[1] \in Nat /\ next'[1] > 2 /\ next[1] > 2
          /\ (k + 1 <= H => next[1] <= E /\ next'[1] <= E)
          /\ (~(k + 1 <= H) => next[1] > E + B /\ next'[1] > E + B)
      BY <1>3, <1>5, <2>2, <2>3
    <3>4. Place'
      <4>1. \/ k + 1 <= H /\ next'[1] = 2 * (k + 1) + 4
            \/ k + 1 >= H /\ next'[1] = 2 * (k + 1) + 5 + B
        BY <1>3, <1>5, <1>6, <2>2, <2>3
      <4> QED
        BY <1>1, <1>5, <2>2, <2>3, <3>1, <3>2, <4>1, Numbers, HeadersGo
           DEF after, H, B, N
    <3>5. HeadInv' /\ BodyInv'
      <4>1. CASE k + 1 <= H
        <5>1. HeadSeen(request, k)
          BY <3>3, <4>1 DEF Progress, HeadInv, E, k
        <5>2. HeadSeen(request, header_count)'
          BY <1>1, <1>3, <1>7, <3>1, <4>1, <5>1, SeenNext
        <5>3. ~(next'[1] > E) /\ next'[1] # E + 1 /\ ~(next'[1] > E + B)
          BY <1>5, <3>3, <4>1
        <5>4. HeadInv'
          BY <1>1, <5>2, <5>3 DEF HeadInv, E
        <5>5. body_size = 0
          BY <3>3, <4>1 DEF Progress, BodyInv, E
        <5>6. BodyInv'
          BY <1>1, <2>1, <5>3, <5>5 DEF BodyInv, AtBody, E, B
        <5> QED
          BY <5>4, <5>6
      <4>2. CASE ~(k + 1 <= H)
        BY <1>1, <2>1, <3>3, <4>2, InTrailers DEF Progress, E, B
      <4> QED
        BY <4>1, <4>2
    <3>6. UrlInv'
      BY <1>1, <3>3 DEF Progress, UrlInv
    <3> QED
      BY <2>1, <3>4, <3>5, <3>6 DEF Continued, Progress
  <2>4. CASE ~Ended(count)
    <3>1. /\ header_bytes' = header_bytes + count
          /\ UNCHANGED <<header_count, authorization, authorization_count,
                         content_type_count, content_type, content_encoding, expect>>
      BY <1>9, <2>4 DEF ReceiveHeaderValue
    <3>2. header_bytes' = before + size + (seen + count)
      BY <1>1, <1>3, <1>4, <3>1
    <3>3. Place'
      <4>1. AtValue'
        BY <1>1, <1>3, <2>2, <2>4, <3>1, <3>2 DEF AtValue, k, n, before, size, N
      <4> QED
        BY <4>1 DEF Place
    <3>4. next'[1] \in Nat /\ next'[1] > 2 /\ next[1] > 2
          /\ (k + 1 <= H => next[1] <= E /\ next'[1] <= E)
          /\ (~(k + 1 <= H) => next[1] > E + B /\ next'[1] > E + B)
      BY <1>3, <1>5, <2>2, <2>4
    <3>5. HeadInv' /\ BodyInv'
      <4>1. CASE k + 1 <= H
        BY <1>1, <2>1, <3>1, <3>4, <4>1, InHead DEF Progress, E
      <4>2. CASE ~(k + 1 <= H)
        BY <1>1, <2>1, <3>4, <4>2, InTrailers DEF Progress, E, B
      <4> QED
        BY <4>1, <4>2
    <3>6. UrlInv'
      BY <1>1, <3>4 DEF Progress, UrlInv
    <3> QED
      BY <2>1, <3>3, <3>5, <3>6 DEF Continued, Progress
  <2> QED
    BY <2>3, <2>4
<1> QED
  BY <1>8, <1>9

LEMMA HeadVerdictReached ==
  ASSUME IInv, Progress, AtHeadEnd
  PROVE  HeadFailure = HeadVerdict(request)
<1> DEFINE r == request
           H == Len(r.headers)
<1>1. request \in Requests /\ header_count = H /\ next[1] = HeadEnd(r)
      /\ header_bytes = HeadBytes(r, H)
      /\ header_bytes <= MaxHeaderBytes /\ header_bytes \in Nat
      /\ header_count <= MaxHeaderCount /\ header_count \in Nat
  BY Numbers DEF AtHeadEnd
<1>2. ~(r.url_size > MaxUrl)
  <2>1. next[1] > 2 /\ next[1] <= HeadEnd(r)
    BY <1>1, HeadEndsLate
  <2>2. r.url_size <= MaxUrl
    BY <2>1 DEF Progress, UrlInv
  <2> QED
    BY <1>1, <2>2, Within
<1>3. ~HeadTooLarge(r, r.headers)
  <2>1. ~(HeadBytes(r, H) > MaxHeaderBytes) /\ ~(H > MaxHeaderCount)
    BY <1>1, Limits
  <2> QED
    BY <1>1, <2>1, TooLargeMeans
<1>4. /\ authorization_count = Cardinality(Named(r.headers, "authorization"))
      /\ content_type_count = Cardinality(Named(r.headers, "content-type"))
      /\ authorization = LastValue(r.headers, "authorization", "none")
      /\ expect = LastValue(r.headers, "expect", "")
      /\ content_encoding = LastValue(r.headers, "content-encoding", "")
  <2>1. next[1] <= HeadEnd(r)
    BY <1>1, HeadEndsLate
  <2>2. HeadSeen(r, H)
    BY <1>1, <2>1 DEF Progress, HeadInv
  <2>3. /\ \A name : Named(r.headers, name) = NamedAmong(r, H, name)
        /\ \A name, default : LastValue(r.headers, name, default)
                                = LastAmong(r, H, name, default)
    BY AmongAll
  <2> QED
    BY <2>2, <2>3, Zenon DEF HeadSeen
<1> DEFINE repeated == \/ Cardinality(Named(r.headers, "authorization")) > 1
                       \/ Cardinality(Named(r.headers, "content-type")) > 1
           anonymous == /\ require_bearer
                        /\ r.url # "/ui"
                        /\ LastValue(r.headers, "authorization", "none") # "valid"
           declared == r.content_length > MaxBody
           waits == LastValue(r.headers, "expect", "") # ""
           encoded == LastValue(r.headers, "content-encoding", "") \notin {"", "identity"}
<1>5. HeadVerdict(r) = IF repeated THEN 400 ELSE IF anonymous THEN 401
                       ELSE IF declared THEN 413 ELSE IF waits THEN 417
                       ELSE IF encoded THEN 415 ELSE 0
  BY <1>2, <1>3, Zenon DEF HeadVerdict
<1> DEFINE repeated2 == authorization_count > 1 \/ content_type_count > 1
           anonymous2 == require_bearer /\ ~PublicRoute /\ ~Authorized
           waits2 == expect # ""
           encoded2 == content_encoding \notin {"", "identity"}
<1>6. HeadFailure = IF repeated2 THEN 400 ELSE IF anonymous2 THEN 401
                    ELSE IF declared THEN 413 ELSE IF waits2 THEN 417
                    ELSE IF encoded2 THEN 415 ELSE 0
  BY DEF HeadFailure
<1>7. (repeated2 <=> repeated) /\ (anonymous2 <=> anonymous)
      /\ (waits2 <=> waits) /\ (encoded2 <=> encoded)
  BY <1>4, Zenon DEF PublicRoute, Authorized
<1> HIDE DEF repeated, anonymous, declared, waits, encoded,
             repeated2, anonymous2, waits2, encoded2
<1> QED
  BY <1>5, <1>6, <1>7

LEMMA HeadGo ==
  ASSUME IInv, Progress, HeadersComplete
  PROVE  Continued \/ Refused
<1> DEFINE H == Len(request.headers)
           B == BodyParts(request)
           E == HeadEnd(request)
           N == Len(All(request))
<1>1. /\ 0 \in 0 .. part.size - seen /\ part.kind = "headers_complete"
      /\ UNCHANGED <<request, require_bearer, sound, clock>>
  BY ReceivesKeeps DEF HeadersComplete
<1>2. AtHeadEnd
  BY <1>1, PlaceOfPart DEF Progress
<1>3. HeadFailure = HeadVerdict(request)
  BY <1>2, HeadVerdictReached
<1>4. CASE HeadFailure # 0
  <2>1. Verdict(request) = HeadFailure
    BY <1>3, <1>4, VerdictOfHead, Zenon
  <2>2. Fail(HeadFailure)
    BY <1>4 DEF HeadersComplete
  <2> QED
    BY <2>1, <2>2, Zenon DEF Fail, Refused
<1>5. CASE HeadFailure = 0
  <2>1. Advance(0) /\ UNCHANGED <<context, failure_status, complete>>
    BY <1>5 DEF HeadersComplete
  <2>2. Ended(0)
    <3>1. part.size = 0 /\ seen \in 0 .. part.size
      BY <1>2, PartOfPlace, PartFacts DEF Part, IInv
    <3> QED
      BY <3>1 DEF Ended
  <2>3. header_count = H /\ header_bytes = HeadBytes(request, header_count)
        /\ next[1] = E /\ E \in Nat
    BY <1>2, HeadEndsLate DEF AtHeadEnd
  <2>4. next'[1] = E + 1 /\ seen' = 0
    BY <2>1, <2>2, <2>3, Moved
  <2>5. /\ H \in Nat /\ N \in Nat /\ H <= N /\ B \in {0, 1} /\ E = 2 * H + 4
        /\ (request.body # 0 <=> B = 1)
    BY Numbers, Geometry
  <2>6. UNCHANGED <<header_bytes, header_count, body_size>>
    BY <2>1 DEF context
  <2>7. Place'
    <3>1. CASE request.body # 0
      <4>1. AtBody'
        BY <1>1, <2>3, <2>4, <2>6, <3>1 DEF AtBody
      <4> QED
        BY <4>1 DEF Place
    <3>2. CASE request.body = 0
      <4> HIDE DEF H, B, E, N
      <4>1. next'[1] = 2 * H + 5 + B
        BY <2>4, <2>5, <3>2
      <4>2. H \in 0 .. N /\ H >= H
        BY <2>5
      <4> QED
        BY <1>1, <2>3, <2>4, <2>6, <4>1, <4>2, Numbers, HeadersGo DEF H, B, N
    <3> QED
      BY <3>1, <3>2
  <2>8. HeadInv'
    <3>1. HeadVerdict(request)' = 0
      BY <1>1, <1>3, <1>5, VerdictsStay
    <3>2. ~(next'[1] <= E)
      BY <2>3, <2>4
    <3> QED
      BY <1>1, <3>1, <3>2 DEF HeadInv
  <2>9. BodyInv'
    <3>1. body_size = 0
      BY <2>3 DEF Progress, BodyInv
    <3>2. next'[1] > E + B => request.body = 0
      BY <2>3, <2>4, <2>5
    <3>3. ~(next'[1] <= E)
      BY <2>3, <2>4
    <3> QED
      BY <1>1, <2>4, <2>6, <3>1, <3>2, <3>3 DEF BodyInv
  <2>10. UrlInv'
    <3>1. next[1] > 2
      BY <2>3, HeadEndsLate
    <3> QED
      BY <1>1, <3>1 DEF Progress, UrlInv
  <2> QED
    BY <2>1, <2>7, <2>8, <2>9, <2>10 DEF Continued, Progress
<1> QED
  BY <1>4, <1>5

LEMMA BodyGo ==
  ASSUME IInv, Progress, NEW count, ReceiveBody(count)
  PROVE  Continued \/ Refused
<1> DEFINE H == Len(request.headers)
           B == BodyParts(request)
           E == HeadEnd(request)
           N == Len(All(request))
<1>1. /\ count \in 0 .. part.size - seen /\ count \in Nat /\ part.kind = "body"
      /\ UNCHANGED <<request, require_bearer, sound, clock>>
  BY ReceivesKeeps DEF ReceiveBody
<1>2. AtBody /\ part.size = request.body
  BY <1>1, PlaceOfPart DEF Progress
<1>3. /\ request.body # 0 /\ header_count = H /\ next[1] = E + 1
      /\ header_bytes = HeadBytes(request, header_count)
  BY <1>2 DEF AtBody
<1>4. /\ H \in Nat /\ N \in Nat /\ H <= N /\ B = 1 /\ E = 2 * H + 4 /\ E \in Nat
  BY <1>3, Numbers, Geometry, HeadEndsLate
<1>5. body_size = seen /\ seen \in Nat /\ request.body \in Nat /\ MaxBody \in Nat
  <2>1. body_size = seen
    BY <1>2 DEF Progress, BodyInv
  <2> QED
    BY <2>1, Numbers, RequestType, Limits
<1>6. HeadVerdict(request) = 0
  <2>1. next[1] > E
    BY <1>3, <1>4
  <2> QED
    BY <2>1 DEF Progress, HeadInv
<1>7. CASE count > BodyRoom
  <2>1. request.body > MaxBody
    BY <1>1, <1>2, <1>5, <1>7 DEF BodyRoom
  <2>2. Verdict(request) = 413
    BY <1>6, <2>1, VerdictOfRest
  <2>3. Fail(413)
    BY <1>7 DEF ReceiveBody
  <2> QED
    BY <2>2, <2>3 DEF Fail, Refused
<1>8. CASE ~(count > BodyRoom)
  <2>1. /\ body_size' = body_size + count /\ Advance(count)
        /\ UNCHANGED <<header_bytes, header_count, authorization,
                       authorization_count, content_type_count, content_type,
                       content_encoding, expect, failure_status, complete>>
    BY <1>8 DEF ReceiveBody
  <2>2. /\ Ended(count) => next'[1] = next[1] + 1 /\ seen' = 0
        /\ ~Ended(count) => next'[1] = next[1] /\ seen' = seen + count
    BY <2>1, Moved
  <2>3. ASSUME Ended(count) PROVE Place' /\ BodyInv'
    <3>1. next'[1] = E + 2 /\ seen' = 0 /\ body_size' = request.body
      BY <1>2, <1>3, <1>4, <1>5, <2>1, <2>2, <2>3 DEF Ended
    <3>2. BodyInv'
      <4>1. ~(next'[1] <= E) /\ next'[1] # E + 1
        BY <1>4, <3>1
      <4> QED
        BY <1>1, <3>1, <4>1 DEF BodyInv, AtBody
    <3>3. Place'
      <4> HIDE DEF H, B, E, N
      <4>1. next'[1] = 2 * H + 5 + B /\ H \in 0 .. N /\ H >= H
        BY <1>4, <3>1
      <4> QED
        BY <1>1, <1>3, <2>1, <3>1, <4>1, Numbers, HeadersGo DEF H, B, N
    <3> QED
      BY <3>2, <3>3
  <2>4. ASSUME ~Ended(count) PROVE Place' /\ BodyInv'
    <3>1. next'[1] = E + 1 /\ body_size' = seen'
      BY <1>3, <1>5, <2>1, <2>2, <2>4
    <3>2. AtBody'
      BY <1>1, <1>3, <2>1, <3>1 DEF AtBody
    <3>3. ~(next'[1] <= E) /\ ~(next'[1] > E + B)
      BY <1>4, <3>1
    <3> QED
      BY <1>1, <3>1, <3>2, <3>3 DEF Place, BodyInv
  <2>5. next'[1] > E /\ next[1] > 2 /\ next'[1] \in Nat
    BY <1>3, <1>4, <2>2
  <2>6. HeadInv'
    <3>1. HeadVerdict(request)' = 0
      BY <1>1, <1>6, VerdictsStay
    <3>2. ~(next'[1] <= E)
      BY <1>4, <2>5
    <3> QED
      BY <1>1, <3>1, <3>2 DEF HeadInv
  <2>7. UrlInv'
    BY <1>1, <2>5 DEF Progress, UrlInv
  <2> QED
    BY <2>1, <2>3, <2>4, <2>6, <2>7 DEF Continued, Progress
<1> QED
  BY <1>7, <1>8

LEMMA EndGo ==
  ASSUME IInv, Progress, MessageComplete
  PROVE  Verdict(request) = 0
<1> DEFINE N == Len(All(request))
           B == BodyParts(request)
           E == HeadEnd(request)
<1>1. AtEnd
  BY ReceivesKeeps, PlaceOfPart DEF MessageComplete, Progress
<1>2. /\ header_count = N /\ next[1] = MessageEnd(request)
      /\ header_bytes = HeadBytes(request, header_count)
  BY <1>1 DEF AtEnd
<1>3. next[1] > E /\ next[1] > E + B
  <2>1. /\ Len(request.headers) \in Nat /\ N \in Nat /\ Len(request.headers) <= N
        /\ B \in {0, 1} /\ E = 2 * Len(request.headers) + 4
        /\ MessageEnd(request) = 2 * N + B + 5
    BY Numbers, Geometry
  <2> HIDE DEF N, B, E
  <2> QED
    BY <1>2, <2>1
<1>4. HeadVerdict(request) = 0 /\ body_size = request.body
  BY <1>3 DEF Progress, HeadInv, BodyInv
<1>5. ~(request.body > MaxBody)
  BY <1>4, Numbers, Within
<1>6. ~HeadTooLarge(request, All(request))
  <2>1. HeadBytes(request, N) \in Nat /\ HeadBytes(request, N) <= MaxHeaderBytes
        /\ N \in Nat /\ N <= MaxHeaderCount
    BY <1>2, Numbers
  <2>2. ~(HeadBytes(request, N) > MaxHeaderBytes) /\ ~(N > MaxHeaderCount)
    BY <2>1, Limits
  <2> QED
    BY <2>2, Numbers, TooLargeMeans
<1> QED
  BY <1>4, <1>5, <1>6, VerdictOfRest

LEMMA ProgressStays ==
  ASSUME Progress, UNCHANGED <<request, require_bearer, next, context>>
  PROVE  Progress'
<1>1. Place'
  <2>1. UNCHANGED <<request, next, header_count, header_bytes>> /\ seen' = seen
    BY DEF context, seen
  <2>2. /\ AtMethod => AtMethod'
        /\ AtUrl => AtUrl'
        /\ AtVersion => AtVersion'
        /\ AtField => AtField'
        /\ AtValue => AtValue'
        /\ AtHeadEnd => AtHeadEnd'
        /\ AtBody => AtBody'
        /\ AtEnd => AtEnd'
    BY <2>1 DEF AtMethod, AtUrl, AtVersion, AtField, AtValue, AtHeadEnd, AtBody, AtEnd
  <2> QED
    BY <2>2 DEF Progress, Place
<1>2. UrlInv'
  BY DEF Progress, UrlInv
<1>3. HeadInv'
  <2>1. HeadVerdict(request)' = HeadVerdict(request)
    BY VerdictsStay
  <2> QED
    BY <2>1 DEF Progress, HeadInv, HeadSeen, context
<1>4. BodyInv'
  BY DEF Progress, BodyInv, AtBody, seen, context
<1> QED
  BY <1>1, <1>2, <1>3, <1>4 DEF Progress

VerdictInv == Progress /\ OutcomeInv

LEMMA ReadVerdict ==
  ASSUME IInv, VerdictInv, Read
  PROVE  VerdictInv'
<1>1. Reading /\ UNCHANGED <<request, require_bearer, sound, clock>>
  BY DEF Read, ReceiveLinePart, ReceiveCounted, ReceiveHeaderValue, ReceiveBody,
         HeadersComplete, MessageComplete, Receives
<1>2. failure_status = 0 /\ ~complete
  BY <1>1 DEF Reading
<1>3. Verdict(request)' = Verdict(request)
  BY <1>1, VerdictsStay
<1>4. CASE Continued
  BY <1>2, <1>4 DEF Continued, VerdictInv, OutcomeInv
<1>5. CASE Refused
  <2>1. Progress'
    BY <1>1, <1>5, ProgressStays DEF Refused, VerdictInv
  <2>2. OutcomeInv'
    BY <1>2, <1>3, <1>5 DEF Refused, OutcomeInv
  <2> QED
    BY <2>1, <2>2 DEF VerdictInv
<1>6. CASE MessageComplete
  <2>1. Verdict(request) = 0
    BY <1>6, EndGo DEF VerdictInv
  <2>2. UNCHANGED <<next, context, failure_status>>
    BY <1>6 DEF MessageComplete
  <2>3. Progress'
    BY <1>1, <2>2, ProgressStays DEF VerdictInv
  <2>4. OutcomeInv'
    BY <1>2, <1>3, <2>1, <2>2 DEF OutcomeInv
  <2> QED
    BY <2>3, <2>4 DEF VerdictInv
<1>7. ASSUME NEW count \in 0 .. part.size,
             \/ ReceiveLinePart(count) \/ ReceiveCounted(count)
             \/ ReceiveHeaderValue(count) \/ ReceiveBody(count)
      PROVE  Continued \/ Refused
  <2>1. ReceiveLinePart(count) => part.kind \in {"method", "url"}
    BY ReceivesKeeps DEF ReceiveLinePart
  <2>2. ReceiveCounted(count) => part.kind \in {"version", "field"}
    BY ReceivesKeeps DEF ReceiveCounted
  <2> QED
    BY <1>7, <2>1, <2>2, MethodGo, UrlGo, VersionGo, FieldGo, ValueGo, BodyGo
       DEF VerdictInv
<1> QED
  BY <1>4, <1>5, <1>6, <1>7, HeadGo DEF Read, VerdictInv

LEMMA OutsideVerdict ==
  ASSUME IInv, VerdictInv, TimeOut \/ PeerBreaks \/ Broken \/ Tick \/ UNCHANGED vars
  PROVE  VerdictInv'
<1>1. UNCHANGED <<request, require_bearer, next, context, deadline, complete>>
  BY DEF TimeOut, PeerBreaks, Broken, Tick, Ends, vars
<1>2. Progress'
  BY <1>1, ProgressStays DEF VerdictInv
<1>3. Verdict(request)' = Verdict(request)
  BY <1>1, VerdictsStay
<1>4. OutcomeInv'
  <2>1. CASE TimeOut
    <3>1. ~complete /\ failure_status' = 408 /\ clock' = clock /\ clock >= ReadTimeout
      BY <2>1 DEF TimeOut, Ends, Reading, Expired, IInv, DeadlineInv
    <3> QED
      BY <1>1, <3>1 DEF OutcomeInv
  <2>2. CASE Broken
    <3>1. ~complete /\ failure_status' = 400 /\ sound' = sound /\ ~sound
      BY <2>2 DEF Broken, Ends, Reading
    <3> QED
      BY <1>1, <3>1 DEF OutcomeInv
  <2>3. CASE PeerBreaks \/ Tick
    <3>1. ~complete /\ failure_status = 0 /\ failure_status' = 0
      BY <2>3 DEF PeerBreaks, Tick, Reading
    <3> QED
      BY <1>1, <3>1 DEF OutcomeInv
  <2>4. CASE UNCHANGED vars
    <3>1. UNCHANGED <<failure_status, sound, clock, complete>>
      BY <2>4 DEF vars
    <3> QED
      BY <1>3, <3>1 DEF VerdictInv, OutcomeInv
  <2> QED
    BY <2>1, <2>2, <2>3, <2>4
<1> QED
  BY <1>2, <1>4 DEF VerdictInv

LEMMA InitVerdict == Init => VerdictInv
<1> SUFFICES ASSUME Init PROVE VerdictInv
  OBVIOUS
<1>1. /\ request \in Requests /\ next = <<1, 0>> /\ header_bytes = 0 /\ header_count = 0
      /\ authorization = "none" /\ authorization_count = 0 /\ content_type_count = 0
      /\ content_encoding = "" /\ expect = "" /\ body_size = 0
      /\ failure_status = 0 /\ complete = FALSE
  BY DEF Init
<1>2. next[1] = 1 /\ seen = 0
  BY <1>1 DEF seen
<1>3. HeadEnd(request) \in Nat /\ 4 <= HeadEnd(request) /\ BodyParts(request) \in {0, 1}
  BY InitInv, HeadEndsLate, Numbers, Geometry
<1>4. AtMethod
  BY <1>1, <1>2 DEF AtMethod
<1>5. Place
  BY <1>4 DEF Place
<1>6. UrlInv
  BY <1>2 DEF UrlInv
<1>7. HeadInv
  <2>1. HeadSeen(request, header_count)
    BY <1>1, NamedNone DEF HeadSeen
  <2>2. ~(next[1] > HeadEnd(request))
    BY <1>2, <1>3
  <2> QED
    BY <2>1, <2>2 DEF HeadInv
<1>8. BodyInv
  <2>1. next[1] # HeadEnd(request) + 1 /\ ~(next[1] > HeadEnd(request) + BodyParts(request))
    BY <1>2, <1>3
  <2> QED
    BY <1>1, <2>1 DEF BodyInv, AtBody
<1>9. OutcomeInv
  BY <1>1 DEF OutcomeInv
<1> QED
  BY <1>5, <1>6, <1>7, <1>8, <1>9 DEF VerdictInv, Progress

LEMMA VerdictStep == IInv /\ VerdictInv /\ [Next]_vars => VerdictInv'
<1> SUFFICES ASSUME IInv, VerdictInv, [Next]_vars PROVE VerdictInv'
  OBVIOUS
<1>1. CASE Read
  BY <1>1, ReadVerdict
<1>2. CASE TimeOut \/ PeerBreaks \/ Broken \/ Tick \/ UNCHANGED vars
  BY <1>2, OutsideVerdict
<1> QED
  BY <1>1, <1>2 DEF Next, Received

LEMMA VerdictAlways == Spec => []VerdictInv
  BY InitVerdict, VerdictStep, Invariance, PTL DEF Spec
\* ---- the content type -------------------------------------------------------------

\* Every header of the message, the trailers after the others.
Whole(r) == [headers |-> All(r)]

\* Trailers go through the same callback as headers, so the type is the last one of all
\* the headers so far; this says nothing of where the reader is.
ContentTypeInv ==
  /\ content_type = LastAmong(Whole(request), header_count, "content-type", "")
  /\ complete => header_count = Len(All(request))

LEMMA ContentTypeNext ==
  ASSUME NEW k \in Nat, NEW r,
         content_type = LastAmong(Whole(r), k, "content-type", ""),
         CompleteHeader(All(r)[k + 1])
  PROVE  content_type' = LastAmong(Whole(r), k + 1, "content-type", "")
<1> DEFINE header == All(r)[k + 1]
<1>1. Whole(r).headers[k + 1] = header
  BY DEF Whole
<1>2. CASE header.name = "content-type"
  <2>1. content_type' = header.value
    BY <1>2 DEF CompleteHeader
  <2>2. LastAmong(Whole(r), k + 1, "content-type", "") = Whole(r).headers[k + 1].value
    BY <1>1, <1>2, LastAdded
  <2> QED
    BY <1>1, <2>1, <2>2, Zenon
<1>3. CASE header.name # "content-type"
  <2>1. content_type' = content_type
    BY <1>3 DEF CompleteHeader
  <2>2. LastAmong(Whole(r), k + 1, "content-type", "")
          = LastAmong(Whole(r), k, "content-type", "")
    BY <1>1, <1>3, LastKept
  <2> QED
    BY <2>1, <2>2, Zenon
<1> QED
  BY <1>2, <1>3

LEMMA ContentTypeValue ==
  ASSUME IInv, Place, ContentTypeInv, NEW count, ReceiveHeaderValue(count)
  PROVE  ContentTypeInv'
<1>1. part.kind = "value" /\ UNCHANGED request /\ ~complete
  BY DEF ReceiveHeaderValue, Receives, Reading
<1>2. part.header = All(request)[header_count + 1] /\ header_count \in Nat
  BY <1>1, PlaceOfPart, Numbers
<1>3. complete' = complete
  BY DEF ReceiveHeaderValue, Fail
<1>4. CASE UNCHANGED <<header_count, content_type>>
  BY <1>1, <1>3, <1>4 DEF ContentTypeInv
<1>5. CASE header_count' = header_count + 1 /\ CompleteHeader(part.header)
  <2>1. content_type' = LastAmong(Whole(request), header_count + 1, "content-type", "")
    BY <1>2, <1>5, ContentTypeNext DEF ContentTypeInv
  <2> QED
    BY <1>1, <1>3, <1>5, <2>1 DEF ContentTypeInv
<1> QED
  BY <1>4, <1>5 DEF ReceiveHeaderValue, Fail, context

LEMMA ContentTypeStep ==
  IInv /\ VerdictInv /\ ContentTypeInv /\ [Next]_vars => ContentTypeInv'
<1> SUFFICES ASSUME IInv, VerdictInv, ContentTypeInv, [Next]_vars PROVE ContentTypeInv'
  OBVIOUS
<1>1. Place
  BY DEF VerdictInv, Progress
<1>2. CASE \E count \in 0 .. part.size : ReceiveHeaderValue(count)
  BY <1>1, <1>2, ContentTypeValue
<1>3. CASE MessageComplete
  <2>1. AtEnd
    BY <1>1, <1>3, ReceivesKeeps, PlaceOfPart DEF MessageComplete
  <2>2. UNCHANGED <<request, header_count, content_type>>
    BY <1>3 DEF MessageComplete, Receives, context
  <2> QED
    BY <2>1, <2>2 DEF ContentTypeInv, AtEnd
<1>4. CASE UNCHANGED <<request, header_count, content_type, complete>>
  BY <1>4 DEF ContentTypeInv
<1>5. CASE \/ \E count \in 0 .. part.size :
                ReceiveLinePart(count) \/ ReceiveCounted(count) \/ ReceiveBody(count)
           \/ HeadersComplete
  <2>1. UNCHANGED <<request, header_count, content_type, complete>>
    BY <1>5 DEF ReceiveLinePart, ReceiveCounted, ReceiveBody, HeadersComplete, Receives,
                Fail, context
  <2> QED
    BY <1>4, <2>1
<1>6. CASE TimeOut \/ PeerBreaks \/ Broken \/ Tick \/ UNCHANGED vars
  <2>1. UNCHANGED <<request, header_count, content_type, complete>>
    BY <1>6 DEF TimeOut, PeerBreaks, Broken, Tick, Ends, vars, context
  <2> QED
    BY <1>4, <2>1
<1> QED
  BY <1>2, <1>3, <1>5, <1>6 DEF Next, Received, Read

LEMMA ContentTypeAlways == Spec => []ContentTypeInv
<1>1. Init => ContentTypeInv
  <2> SUFFICES ASSUME Init PROVE ContentTypeInv
    OBVIOUS
  <2>1. content_type = "" /\ header_count = 0 /\ ~complete
    BY DEF Init
  <2> QED
    BY <2>1, NamedNone DEF ContentTypeInv
<1> QED
  BY <1>1, ContentTypeStep, VerdictAlways, Invariance, PTL DEF Spec

LEMMA ContentTypeOfWhole ==
  ContentTypeInv /\ complete =>
    content_type = LastValue(request.headers \o request.trailers, "content-type", "")
<1> SUFFICES ASSUME ContentTypeInv, complete
             PROVE  content_type = LastValue(request.headers \o request.trailers,
                                             "content-type", "")
  OBVIOUS
<1>1. Whole(request).headers = All(request)
  BY DEF Whole
<1>2. LastValue(Whole(request).headers, "content-type", "")
        = LastAmong(Whole(request), Len(Whole(request).headers), "content-type", "")
  BY AmongAll
<1>3. content_type = LastAmong(Whole(request), Len(All(request)), "content-type", "")
  BY DEF ContentTypeInv
<1> QED
  BY <1>1, <1>2, <1>3, Zenon DEF All
------------------------------------------------------------------------------

\* receive_request answers a request by what the whole request is, however the peer
\* cuts it into reads: the parser's callbacks, which see it piece by piece and stop at
\* the first piece that does not fit, refuse exactly what the limits on the request as
\* a whole refuse, with the same status, and what they keep as its content type is the
\* last one it names.
THEOREM AnswersTheWholeRequest == Spec => []VerdictOfWholeRequest
<1>1. VerdictInv /\ ContentTypeInv => VerdictOfWholeRequest
  <2> SUFFICES ASSUME VerdictInv, ContentTypeInv, ~Reading PROVE VerdictOfWholeRequest
    BY DEF VerdictOfWholeRequest
  <2>1. complete => failure_status = Verdict(request)
    BY DEF VerdictInv, OutcomeInv
  <2>2. ~complete => failure_status # 0
    BY DEF Reading
  <2>3. CASE complete
    BY <2>1, <2>3, ContentTypeOfWhole DEF VerdictOfWholeRequest
  <2>4. CASE ~complete
    BY <2>2, <2>4 DEF VerdictInv, OutcomeInv, VerdictOfWholeRequest
  <2> QED
    BY <2>3, <2>4
<1> QED
  BY <1>1, VerdictAlways, ContentTypeAlways, PTL

\* on_body stores bytes only of a request whose head on_headers_complete let pass.
THEOREM NoBodyBeforeTheHead == Spec => []BodyOnlyAfterHead
<1>1. IInv /\ VerdictInv => BodyOnlyAfterHead
  <2> SUFFICES ASSUME IInv, VerdictInv, body_size > 0 PROVE HeadVerdict(request) = 0
    BY DEF BodyOnlyAfterHead
  <2>1. HeadEnd(request) \in Nat /\ next[1] \in Nat /\ body_size # 0
    BY HeadEndsLate, Numbers
  <2>2. next[1] > HeadEnd(request)
    BY <2>1 DEF VerdictInv, Progress, BodyInv
  <2> QED
    BY <2>2 DEF VerdictInv, Progress, HeadInv
<1> QED
  BY <1>1, VerdictAlways, Invariance, PTL
================================================================================
