--------------------------- MODULE MCSystemoneAdapter ---------------------------
(***************************************************************************)
(* Three kinds of bodies: short texts, every sequence of five tokens and   *)
(* every pair of string units at a boundary of UTF-16 or UTF-8, with       *)
(* objects of two members edited at one place; images, every four          *)
(* characters of an alphabet with the boundary digits, alone and after     *)
(* another quad; and envelopes, of one and two questions with every choice *)
(* of logits, and one thing wrong with each field.                         *)
(***************************************************************************)
EXTENDS SystemoneAdapter

\* ---- short texts --------------------------------------------------------------

NullToken == [literal |-> "null"]
One == [number |-> 1]
A == Str(<<97>>)
B == Str(<<98>>)

Alphabet8 == {Mark("{"), Mark("}"), Mark("["), Mark("]"), Mark(","), Mark(":"), A, NullToken}
ShortTexts == UNION {[1 .. n -> Alphabet8] : n \in 1 .. 5}

Object2 == <<Mark("{"), A, Mark(":"), NullToken, Mark(","), B, Mark(":"), Mark("["), One, Mark("]"),
             Mark("}")>>
Delete(text, i) == SubSeq(text, 1, i - 1) \o SubSeq(text, i + 1, Len(text))
Insert(text, i, token) == SubSeq(text, 1, i - 1) \o <<token>> \o SubSeq(text, i, Len(text))
Edits(text) ==
  {text}
    \cup {Delete(text, i) : i \in DOMAIN text}
    \cup {Insert(text, i, t) : i \in 1 .. Len(text) + 1, t \in Alphabet8 \cup {Mark(" ")}}
    \cup {[text EXCEPT ![i] = t] : i \in DOMAIN text,
            t \in Alphabet8 \cup {[literal |-> "nul"], [literal |-> "true"],
                                [number |-> Malformed]}}

Digits4(n) == <<HexDigit(n \div 4096), HexDigit((n \div 256) % 16), HexDigit((n \div 16) % 16),
                HexDigit(n % 16)>>
Escape(n) == <<92, 117>> \o Digits4(n)
Units == {Escape(n) : n \in {0, 34, 127, 128, 2047, 2048, 55295, 55296, 56319, 56320,
                             57343, 57344, 65535}}
           \cup {<<b>> : b \in {31, 32, 47, 117, 228}}
           \cup {<<92, b>> : b \in {34, 92, 47, 110, 97}}
           \cup {<<92>>, <<92, 117, 48>>, <<92, 117, 48, 48, 71, 48>>,
                 <<92, 117, 68, 56, 51, 101>>}
StringTexts == {<<Str(u)>> : u \in Units} \cup {<<Str(u \o v)>> : u, v \in Units}

\* ---- envelopes ----------------------------------------------------------------

Object(fields) ==
  Obj([key \in {Name[f] : f \in DOMAIN fields} |->
    fields[CHOOSE f \in DOMAIN fields : Name[f] = key]])

\* Members from the last to the first, spaces wherever they may be.
RECURSIVE Backwards(_)
Backwards(value) ==
  LET space == Mark(" ")
  IN IF ~Is(value, "object") THEN <<space>> \o Stringify(value) \o <<space>>
     ELSE LET keys == Reverse(Keys(value))
          IN <<space, Mark("{"), space>>
               \o FlattenSeq([k \in DOMAIN keys |->
                    (IF k = 1 THEN <<>> ELSE <<Mark(","), space>>)
                      \o <<Str(Escaped(keys[k])), space, Mark(":")>>
                      \o Backwards(value.object[keys[k]])])
               \o <<Mark("}"), space>>

\* Options a, b, ..; those at even places with a description.
Criteria(n) ==
  Obj([id \in {<<96 + i>> : i \in 1 .. n} |-> IF id[1] % 2 = 0 THEN Str(<<34, 10>>) ELSE Null])

Question(instructions, n) ==
  [type |-> Str(Choice), instructions |-> Str(instructions), criteria |-> Criteria(n)]

Fields(questions) == [state |-> Str(<<120>>), model |-> Str(ModelId), questions |-> Obj(questions)]
Asking(questions) == Object(Fields(questions))

Q1(fields) == [id \in {<<49>>} |-> Object(fields)]
Q2(n, m) == [id \in {<<49>>, <<50>>} |-> Object(IF id = <<49>> THEN Question(<<120>>, n)
                                                ELSE Question(<<121>>, m))]
Base == Fields(Q1(Question(<<120>>, 2)))

Without(fields, f) == [g \in DOMAIN fields \ {f} |-> fields[g]]
With(fields, f, value) == [g \in DOMAIN fields \cup {f} |-> IF g = f THEN value ELSE fields[g]]

Wrong == {Null, One, Str(<<>>), Str(<<63>>), Arr(<<>>), Obj(<<>>), Arr(<<Str(<<7, 128>>)>>)}

Envelopes ==
  {Asking(Q1(Question(<<120>>, n))) : n \in 1 .. 5}
    \cup {Asking(Q2(2, 2)), Asking(Q2(2, 3)), Asking(Q2(3, 2))}
    \cup {Asking([id \in {<<49>>, <<50>>, <<51>>} |-> Object(Question(<<120>>, 2))]),
          Asking([id \in {<<>>} |-> Object(Question(<<120>>, 2))]),
          Object(With(Base, "request_id", Str(<<114, 49>>))),
          Object(With(Base, "type", Null)),
          Asking(Q1(With(Question(<<120>>, 2), "state", Null))),
          Asking(Q1(With(Question(<<120>>, 2), "criteria",
                         Obj([id \in {<<>>, <<97>>} |-> Null]))))}
    \cup {Object(Without(Base, f)) : f \in DOMAIN Base}
    \cup {Object(With(Base, f, v)) : f \in DOMAIN Base \cup {"request_id", "image"}, v \in Wrong}
    \cup {Asking(Q1(Without(Question(<<120>>, 2), f))) : f \in {"type", "instructions", "criteria"}}
    \cup {Asking(Q1(With(Question(<<120>>, 2), f, v))) :
            f \in {"type", "instructions", "criteria"}, v \in Wrong}

\* ---- images -------------------------------------------------------------------

Characters == {65, 66, 81, 103, 57, 47, 43, 61, 33}
Quads == [1 .. 4 -> Characters]
JpegQuad == <<47, 57, 106, 47>>
Texts ==
  {<<>>} \cup Quads \cup {JpegQuad \o q : q \in Quads}
    \cup {<<65, 65, 61, 61>> \o q : q \in {r \in Quads : r[1] = 65}}
    \cup {SubSeq(JpegQuad \o q, 1, n) : q \in {<<65, 65, 61, 61>>}, n \in 1 .. 7}
PngText == Encoding(Signature(Png))

Image(media_type, text) ==
  Object([media_type |-> Str(media_type), data_base64 |-> Str(text)])

Images ==
  {Image(Jpeg, t) : t \in Texts} \cup {Image(Png, PngText), Image(Png, JpegQuad),
                                       Image(Choice, JpegQuad)}

\* They ask nothing: after the image they are refused.
ImageEnvelopes ==
  {Object(With(Fields(<<>>), "image", i)) : i \in Images}
    \cup {Object(With(Base, "image", Image(Png, PngText)))}

BodySet ==
  ShortTexts \cup StringTexts \cup Edits(Object2)
    \cup Edits(<<Mark("["), A, Mark(","), B, Mark("]")>>)
    \cup {Stringify(e) : e \in Envelopes \cup ImageEnvelopes} \cup {Backwards(e) : e \in Envelopes}

UninspectableSet == {<<255, 216, 255>>, <<255, 216, 255, 0, 0, 0>>}

TokenSet == [l \in {"letter", "label"} \X (1 .. 4) |->
               (IF l[1] = "letter" THEN 10 ELSE 20) + <<3, 1, 4, 2>>[l[2]]]
ModelIdBytes == <<109, 49>>
================================================================================
