---------------------------- MODULE MCGemmaTokenizer ----------------------------
(***************************************************************************)
(* Texts of up to five bytes over two letters, a newline, a space and a    *)
(* two-byte character; prompts of up to three bytes before the answer      *)
(* suffix.  The vocabularies differ in the ranks of their merges, so that  *)
(* candidates go stale on either side, and in their special tokens, which  *)
(* overlap each other and the boundary.                                    *)
(***************************************************************************)
EXTENDS GemmaTokenizer

Suffix == <<"<", "T", "m", "nl">>
Bos == <<"<", "B">>
Turn == <<"<", "T">>
Eos == <<"<", "E">>

Ending == {Eos}

Letters == <<"a", "b", "nl", "C3", "A9", "E2", "96", "81", "<", "T", "m", "A", "B">>
AllBytes == ToSet(Letters) \cup {"sp", "E"}
Fallbacks(bytes) == [i \in DOMAIN bytes |-> BytePiece(bytes[i])]

Common == <<Bos, Eos, <<"a">>, <<"b">>, <<"nl">>, <<"nl", "nl">>, <<"A">>, <<"m">>,
            <<"a", "a">>, <<"a", "b">>, <<"b", "a">>, <<"a", "a", "b">>, Marker,
            <<"A", "B">>, Marker \o <<"a">>>>

\* A file of common pieces, further ones with their types, and byte pieces.
GgufFile(more, types, merges, bytes) ==
  LET pieces == Common \o more \o Fallbacks(bytes)
  IN [gemma4 |-> TRUE, bos |-> 1, eos |-> 2, merges |-> merges, pieces |-> pieces,
      types |-> [i \in DOMAIN pieces |->
                   IF i = 1 THEN ControlType
                   ELSE IF i - Len(Common) \in DOMAIN more THEN types[i - Len(Common)]
                   ELSE 1]]

M(left, right) == left \o <<"sp">> \o right

File1 == GgufFile(<<Turn, <<"b", "b">>>>, <<3, 4>>,
  <<M(<<"a">>, <<"b">>), M(<<"a">>, <<"a">>), M(<<"b">>, <<"a">>), M(<<"a">>, <<"b">>),
    M(<<"a">>, <<"a", "b">>), M(<<"A">>, <<"B">>), M(<<"C3", "A9">>, <<"a">>)>>, Letters)
File2 == GgufFile(<<Turn, <<"a", "<">>, <<"b", "a", "a">>, <<"nl", "A">>, <<"C3", "A9">>>>,
  <<3, 4, 3, 4, 2>>,
  <<M(<<"b">>, <<"a">>), M(<<"a", "a">>, <<"b">>), M(<<"a">>, <<"a">>), M(Marker, <<"a">>),
    M(<<"nl">>, <<"nl">>), M(<<"a">>, <<"b">>)>>, Letters)
File3 == GgufFile(<<Turn, <<"a", "<", "T">>, <<"b", "<", "T", "m", "nl">>, <<"nl", "A">>, <<"<">>>>,
  <<3, 4, 4, 4, 4>>,
  <<M(<<"a">>, <<"a">>), M(<<"b">>, <<"a">>), M(<<"A">>, <<"B">>)>>,
  <<"a", "b", "nl", "E2", "96", "81", "<", "T", "m", "A", "B">>)
File4 == GgufFile(<<Turn, <<"nl", "nl", "nl">>>>, <<1, 4>>,
  <<M(<<"a", "a">>, <<"b">>), M(<<"a">>, <<"a">>), M(<<"nl">>, <<"nl">>)>>, Letters)

GgufFiles ==
  [File1 |-> File1, File2 |-> File2, File3 |-> File3, File4 |-> File4,
   other_model |-> [File1 EXCEPT !.gemma4 = FALSE],
   duplicate |-> [File1 EXCEPT !.pieces = @ \o <<Turn>>],
   untyped |-> [File1 EXCEPT !.types = Tail(@)],
   no_separator |-> [File1 EXCEPT !.merges = @ \o <<<<"sp", "a">>>>],
   no_eos |-> [File1 EXCEPT !.eos = 0]]

Text(bytes, bos, parse) ==
  [kind |-> "text", text |-> bytes, add_bos |-> bos, parse_special |-> parse, label |-> <<>>]
Label(prompt, label) ==
  [kind |-> "label", text |-> prompt, add_bos |-> FALSE, parse_special |-> TRUE,
   label |-> label]

AllCalls ==
  {Text(bytes, FALSE, parse) : bytes \in BoundedSeq({"a", "b", "nl", "sp"}, 5),
                               parse \in BOOLEAN}
  \cup {Text(bytes, TRUE, TRUE) : bytes \in BoundedSeq({"a", "b", "C3", "A9"}, 3)}
  \cup {Label(bytes \o Suffix, label) : bytes \in BoundedSeq({"a", "b", "<", "nl"}, 3),
          label \in {<<"A">>, <<"B">>, <<"A", "B">>, <<"a">>, <<>>}}
  \cup {Label(Bos \o bytes \o Suffix, label) : bytes \in BoundedSeq({"a", "<", "nl"}, 2),
          label \in {<<"A">>, <<"B">>}}
  \cup {Label(bytes, <<"A">>) : bytes \in {<<>>, <<"a">>, Bos, Bos \o <<"nl">>}}
================================================================================
