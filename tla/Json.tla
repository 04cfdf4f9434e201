---------------------------------- MODULE Json ----------------------------------
(***************************************************************************)
(* The JSON codec, src/src/json.cpp.  A text is a sequence of tokens:      *)
(* [mark |-> "{"] and the like, a space among them; [string |-> the bytes  *)
(* between the quotes]; [literal |-> name]; [number |-> n], or Malformed   *)
(* for one the scanner refuses.  Values are records with one field, named  *)
(* for the type; a string is its bytes, an object a function from strings. *)
(***************************************************************************)
EXTENDS Integers, SequencesExt

CONSTANT Malformed

Mark(m) == [mark |-> m]
Null == [null |-> TRUE]
Str(bytes) == [string |-> bytes]
Arr(items) == [array |-> items]
Obj(members) == [object |-> members]
Is(value, type) == DOMAIN value = {type}
------------------------------------------------------------------------------
(* Strings.  \" \\ \/ \b \f \n \r \t and the bytes they stand for.         *)

Escapes == <<<<34, 34>>, <<92, 92>>, <<47, 47>>, <<98, 8>>, <<102, 12>>, <<110, 10>>,
             <<114, 13>>, <<116, 9>>>>

Hex(byte) ==
  CASE byte \in 48 .. 57 -> byte - 48
    [] byte \in 97 .. 102 -> byte - 87
    [] byte \in 65 .. 70 -> byte - 55
    [] OTHER -> -1

\* parse_hex_quad: the four digits from i.
HexQuad(src, i) ==
  IF i + 3 > Len(src) \/ \E k \in i .. i + 3 : Hex(src[k]) < 0 THEN -1
  ELSE 4096 * Hex(src[i]) + 256 * Hex(src[i + 1]) + 16 * Hex(src[i + 2]) + Hex(src[i + 3])

High(unit) == unit \in 55296 .. 56319
Low(unit) == unit \in 56320 .. 57343

Trailing(bits) == 128 + (bits % 64)
AppendUtf8(point) ==
  IF point <= 127 THEN <<point>>
  ELSE IF point <= 2047 THEN <<192 + point \div 64, Trailing(point)>>
  ELSE IF point <= 65535
    THEN <<224 + point \div 4096, Trailing(point \div 64), Trailing(point)>>
  ELSE <<240 + point \div 262144, Trailing(point \div 4096), Trailing(point \div 64),
         Trailing(point)>>

\* One step of parse_string: the bytes that position i adds, and where it goes on.
Unit(src, i) ==
  LET named == {e \in ToSet(Escapes) : i < Len(src) /\ e[1] = src[i + 1]}
      unicode == i < Len(src) /\ src[i + 1] = 117
      first == HexQuad(src, i + 2)
      paired == i + 7 <= Len(src) /\ src[i + 6] = 92 /\ src[i + 7] = 117
      second == HexQuad(src, i + 8)
  IN IF src[i] < 32 THEN Malformed
     ELSE IF src[i] # 92 THEN [bytes |-> <<src[i]>>, next |-> i + 1]
     ELSE IF named # {} THEN [bytes |-> <<(CHOOSE e \in named : TRUE)[2]>>, next |-> i + 2]
     ELSE IF ~unicode \/ first < 0 \/ Low(first) THEN Malformed
     ELSE IF ~High(first) THEN [bytes |-> AppendUtf8(first), next |-> i + 6]
     ELSE IF ~paired \/ ~Low(second) THEN Malformed
     ELSE [bytes |-> AppendUtf8(65536 + (first - 55296) * 1024 + (second - 56320)),
           next |-> i + 12]

RECURSIVE ParseString(_, _)
ParseString(src, i) ==
  IF i > Len(src) THEN <<>>
  ELSE LET unit == Unit(src, i)
           rest == ParseString(src, unit.next)
       IN IF unit = Malformed \/ rest = Malformed THEN Malformed ELSE unit.bytes \o rest

\* append_escaped, between the quotes.
HexDigit(n) == IF n < 10 THEN 48 + n ELSE 87 + n
Escaped(bytes) ==
  FlattenSeq([k \in DOMAIN bytes |->
    LET named == {e \in ToSet(Escapes) : e[2] = bytes[k] /\ e[1] # 47}
    IN IF named # {} THEN <<92, (CHOOSE e \in named : TRUE)[1]>>
       ELSE IF bytes[k] < 32
         THEN <<92, 117, 48, 48, HexDigit(bytes[k] \div 16), HexDigit(bytes[k] % 16)>>
       ELSE <<bytes[k]>>])
------------------------------------------------------------------------------
(* The parser: each operator returns a value and the position after it, or *)
(* Malformed.                                                              *)

RECURSIVE SkipSpace(_, _)
SkipSpace(text, i) ==
  IF i <= Len(text) /\ text[i] = Mark(" ") THEN SkipSpace(text, i + 1) ELSE i

At(text, i, m) == i <= Len(text) /\ text[i] = Mark(m)
Read(value, next) == [value |-> value, next |-> next]

Scalar(token) ==
  IF Is(token, "string") THEN
    LET bytes == ParseString(token.string, 1)
    IN IF bytes = Malformed THEN Malformed ELSE Str(bytes)
  ELSE IF Is(token, "number") /\ token.number # Malformed THEN token
  ELSE IF Is(token, "literal") /\ token.literal = "null" THEN Null
  ELSE IF Is(token, "literal") /\ token.literal \in {"true", "false"}
    THEN [boolean |-> token.literal = "true"]
  ELSE Malformed

FreshAlways(members, key) == TRUE
Fresh(members, key) == key \notin DOMAIN members

RECURSIVE ParseValue(_, _), ParseItems(_, _, _), ParseMembers(_, _, _)

ParseValue(text, i) ==
  LET inner == SkipSpace(text, i + 1)
  IN IF i > Len(text) THEN Malformed
     ELSE IF text[i] = Mark("[") THEN
       IF At(text, inner, "]") THEN Read(Arr(<<>>), inner + 1) ELSE ParseItems(text, inner, <<>>)
     ELSE IF text[i] = Mark("{") THEN
       IF At(text, inner, "}") THEN Read(Obj(<<>>), inner + 1) ELSE ParseMembers(text, inner, <<>>)
     ELSE IF Scalar(text[i]) = Malformed THEN Malformed
     ELSE Read(Scalar(text[i]), i + 1)

\* The loop of parse_array.
ParseItems(text, i, items) ==
  LET item == ParseValue(text, i)
      end == SkipSpace(text, item.next)
      all == Append(items, item.value)
  IN IF item = Malformed THEN Malformed
     ELSE IF At(text, end, "]") THEN Read(Arr(all), end + 1)
     ELSE IF At(text, end, ",") THEN ParseItems(text, SkipSpace(text, end + 1), all)
     ELSE Malformed

\* The loop of parse_object.
ParseMembers(text, i, members) ==
  LET key == ParseString(text[i].string, 1)
      colon == SkipSpace(text, i + 1)
      item == ParseValue(text, SkipSpace(text, colon + 1))
      end == SkipSpace(text, item.next)
      all == [k \in DOMAIN members \cup {key} |->
                IF k \in DOMAIN members THEN members[k] ELSE item.value]
  IN IF i > Len(text) \/ ~Is(text[i], "string") THEN Malformed
     ELSE IF key = Malformed \/ ~At(text, colon, ":") \/ item = Malformed THEN Malformed
     ELSE IF ~Fresh(members, key) THEN Malformed
     ELSE IF At(text, end, "}") THEN Read(Obj(all), end + 1)
     ELSE IF At(text, end, ",") THEN ParseMembers(text, SkipSpace(text, end + 1), all)
     ELSE Malformed

\* parse_document: a value or Malformed.
Parse(text) ==
  LET read == ParseValue(text, SkipSpace(text, 1))
  IN IF read = Malformed THEN Malformed
     ELSE IF SkipSpace(text, read.next) <= Len(text) THEN Malformed
     ELSE read.value
------------------------------------------------------------------------------
(* stringify.  An object's keys are held and written in byte order.        *)

Before(a, b) ==
  \E i \in DOMAIN b :
    /\ \A j \in 1 .. i - 1 : j <= Len(a) /\ a[j] = b[j]
    /\ i > Len(a) \/ a[i] < b[i]

Keys(object) == SetToSortSeq(DOMAIN object.object, Before)

\* Texts with a comma between each two.
Separated(texts) ==
  FlattenSeq([k \in DOMAIN texts |-> IF k = 1 THEN texts[k] ELSE <<Mark(",")>> \o texts[k]])

RECURSIVE Stringify(_)
Stringify(value) ==
  IF Is(value, "null") THEN <<[literal |-> "null"]>>
  ELSE IF Is(value, "boolean")
    THEN <<[literal |-> IF value.boolean THEN "true" ELSE "false"]>>
  ELSE IF Is(value, "number") THEN <<value>>
  ELSE IF Is(value, "string") THEN <<Str(Escaped(value.string))>>
  ELSE IF Is(value, "array")
    THEN <<Mark("[")>> \o Separated([k \in DOMAIN value.array |-> Stringify(value.array[k])])
           \o <<Mark("]")>>
  ELSE LET keys == Keys(value)
       IN <<Mark("{")>>
            \o Separated([k \in DOMAIN keys |->
                 <<Str(Escaped(keys[k])), Mark(":")>> \o Stringify(value.object[keys[k]])])
            \o <<Mark("}")>>
------------------------------------------------------------------------------
(* What a text means, by the grammar: the set of the values that it        *)
(* spells.                                                                 *)

Utf8(point) ==
  LET n == CASE point < 128 -> 1 [] point < 2048 -> 2 [] point < 65536 -> 3 [] OTHER -> 4
  IN [k \in 1 .. n |->
        IF k = 1 THEN <<0, 192, 224, 240>>[n] + point \div 64 ^ (n - 1)
        ELSE 128 + ((point \div 64 ^ (n - k)) % 64)]

Joined(set, rest) == {a \o b : a \in set, b \in rest}

RECURSIVE Bytes(_)
Bytes(src) ==
  LET rest(n) == Bytes(SubSeq(src, n + 1, Len(src)))
      escaped == Len(src) > 1 /\ src[1] = 92
      unit(i) == IF i + 5 <= Len(src) /\ src[i] = 92 /\ src[i + 1] = 117
                   THEN HexQuad(src, i + 2) ELSE -1
  IN IF src = <<>> THEN {<<>>}
     ELSE UNION {
       IF src[1] >= 32 /\ src[1] # 92 THEN Joined({<<src[1]>>}, rest(1)) ELSE {},
       IF escaped THEN UNION {Joined({<<e[2]>>}, rest(2)) :
                                e \in {f \in ToSet(Escapes) : f[1] = src[2]}} ELSE {},
       IF unit(1) >= 0 /\ ~High(unit(1)) /\ ~Low(unit(1))
         THEN Joined({Utf8(unit(1))}, rest(6)) ELSE {},
       IF High(unit(1)) /\ Low(unit(7))
         THEN Joined({Utf8(65536 + (unit(1) % 1024) * 1024 + (unit(7) % 1024))}, rest(12)) ELSE {}}

\* The two halves around a mark.
Cuts(text, m) ==
  {<<SubSeq(text, 1, i - 1), SubSeq(text, i + 1, Len(text))>> :
     i \in {j \in DOMAIN text : text[j] = Mark(m)}}

Enclosed(text, open, close) ==
  Len(text) > 1 /\ text[1] = Mark(open) /\ text[Len(text)] = Mark(close)

RECURSIVE Values(_), Items(_), Members(_)
Values(text) ==
  LET inner == SubSeq(text, 2, Len(text) - 1)
  IN UNION {
       IF Len(text) = 1 /\ Is(text[1], "string")
         THEN {Str(b) : b \in Bytes(text[1].string)} ELSE {},
       IF Len(text) = 1 /\ ~Is(text[1], "string") THEN {Scalar(text[1])} \ {Malformed} ELSE {},
       IF Enclosed(text, "[", "]")
         THEN {Arr(s) : s \in IF inner = <<>> THEN {<<>>} ELSE Items(inner)} ELSE {},
       IF Enclosed(text, "{", "}")
         THEN {Obj(f) : f \in IF inner = <<>> THEN {<<>>} ELSE Members(inner)} ELSE {}}

Items(text) ==
  {<<v>> : v \in Values(text)}
    \cup UNION {UNION {{<<v>> \o s : s \in Items(c[2])} : v \in Values(c[1])} :
                  c \in Cuts(text, ",")}

Pairs(text) ==
  UNION {Bytes(c[1][1].string) \X Values(c[2]) :
           c \in {d \in Cuts(text, ":") : Len(d[1]) = 1 /\ Is(d[1][1], "string")}}

Extended(f, p) ==
  [k \in DOMAIN f \cup {p[1]} |-> IF k = p[1] THEN p[2] ELSE f[k]]

Members(text) ==
  {Extended(<<>>, p) : p \in Pairs(text)}
    \cup UNION {UNION {{Extended(f, p) : f \in {g \in Members(c[2]) : p[1] \notin DOMAIN g}} :
                         p \in Pairs(c[1])} :
                  c \in Cuts(text, ",")}

Spaceless(text) == SelectSeq(text, LAMBDA token : token # Mark(" "))
================================================================================
