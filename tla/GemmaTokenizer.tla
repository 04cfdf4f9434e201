----------------------------- MODULE GemmaTokenizer -----------------------------
(***************************************************************************)
(* GemmaTokenizer of src/src/tokenizer.cpp: a vocabulary is loaded from a  *)
(* GGUF file, then one call of tokenize or of tokenize_answer_label runs.  *)
(* The merge loop keeps the code's linked symbols and its queue, in which  *)
(* candidates go stale.  Symbols are numbered from 0 as in the code, -1    *)
(* ends the list.  A step is one turn of a loop of the code: a byte        *)
(* escaped, a character cut off, a candidate popped, a symbol written out. *)
(***************************************************************************)
EXTENDS Tokenization, FiniteSets

CONSTANTS
  Bytes,         \* the values a byte of a text can have
  Gguf,          \* what from_gguf reads of each of the GGUF files
  Calls,         \* calls: tokenize of a text, or the check of an answer label
  EndingPieces,  \* <eos>, <turn|>, <|tool_response>
  TurnPiece,     \* <|turn>
  BosText,       \* <bos>
  AnswerSuffix   \* <|turn>model and a newline

ASSUME TokenizerAssumption ==
  /\ Len(TurnPiece) <= Len(AnswerSuffix)
  /\ OccursAt(AnswerSuffix, TurnPiece, 1)
  /\ Marker \in Seq(Bytes)
  /\ \A c \in Calls : c.text \in Seq(Bytes)
  /\ \A f \in DOMAIN Gguf : /\ Gguf[f].pieces \in Seq(Seq(Bytes \cup {"0x"}))
                            /\ Gguf[f].merges \in Seq(Seq(Bytes))

UnknownType == 2
ControlType == 3
UserDefinedType == 4

Nothing == "nothing"
NoSpecial == [text |-> <<>>, id |-> NoId, type |-> 0, place |-> 0]
End == -1

VARIABLES
  file,
  call,
  pc,        \* "load", "split", "escape", "raw", "cut", "merge", "emit", "label", or the
             \* end: "done", "failed"
  position,  \* bytes of the text that are consumed
  raw,       \* bytes of the raw stretch that are still to be escaped
  rest,      \* its escaped bytes that are still to be cut
  special,   \* the special token after the raw stretch, or NoSpecial
  segment,   \* the segment being merged
  symbols,
  queue,     \* merge candidates, stale ones included
  index,     \* the symbol that is written out next
  output,
  verdict    \* result of tokenize_answer_label

merging == <<segment, symbols, queue, index>>
tokenizing == <<position, raw, rest, special, merging, output>>
vars == <<file, call, pc, tokenizing, verdict>>

Init ==
  /\ file \in DOMAIN Gguf
  /\ call \in Calls
  /\ pc = "load"
  /\ position = 0
  /\ raw = <<>>
  /\ rest = <<>>
  /\ special = NoSpecial
  /\ segment = <<>>
  /\ symbols = <<>>
  /\ queue = {}
  /\ index = End
  /\ output = <<>>
  /\ verdict = Nothing
------------------------------------------------------------------------------
(* from_gguf.                                                              *)

\* The separator is the first space after the first byte.
Separators(entry) == {i \in 2 .. Len(entry) : entry[i] = Space}

MergePair(entry) ==
  LET at == CHOOSE i \in Separators(entry) : \A j \in Separators(entry) : i <= j
  IN <<SubSeq(entry, 1, at - 1), SubSeq(entry, at + 1, Len(entry))>>

LoadError(f) ==
  \/ ~f.gemma4
  \/ ~IsInjective(f.pieces)
  \/ Len(f.types) < Len(f.pieces)
  \/ \E i \in DOMAIN f.merges : Separators(f.merges[i]) = {}
  \/ {f.bos, f.eos} \notin SUBSET DOMAIN f.pieces

\* The rank of a pair is the index of its first entry.
Ranks(merges) ==
  LET pairs == [i \in DOMAIN merges |-> MergePair(merges[i])]
  IN [pair \in ToSet(pairs) |-> CHOOSE i \in DOMAIN pairs :
        pairs[i] = pair /\ \A j \in DOMAIN pairs : pairs[j] = pair => i <= j]

TypeOf(f, id) == IF f.pieces[id] \in EndingPieces THEN ControlType ELSE f.types[id]

SpecialIds(f) ==
  {i \in DOMAIN f.pieces : TypeOf(f, i) \in {UnknownType, ControlType, UserDefinedType}}

\* The list is sorted, the longest first and equals in the order of their ids: what
\* stands before an id in it.
Before(f, id) ==
  {i \in SpecialIds(f) : \/ Len(f.pieces[i]) > Len(f.pieces[id])
                         \/ Len(f.pieces[i]) = Len(f.pieces[id]) /\ i < id}

Specials(f) ==
  [i \in SpecialIds(f) |-> [text |-> f.pieces[i], id |-> i, type |-> TypeOf(f, i),
                            place |-> Cardinality(Before(f, i))]]

NoVocabulary ==
  [pieces |-> <<>>, ranks |-> <<>>, specials |-> <<>>, bos |-> NoId, eos |-> NoId]

Vocabularies ==
  [f \in DOMAIN Gguf |->
     IF LoadError(Gguf[f]) THEN NoVocabulary
     ELSE [pieces |-> Gguf[f].pieces, ranks |-> Ranks(Gguf[f].merges),
           specials |-> Specials(Gguf[f]), bos |-> Gguf[f].bos, eos |-> Gguf[f].eos]]

vocab == Vocabularies[file]

Load ==
  /\ pc = "load"
  /\ IF LoadError(Gguf[file])
       THEN pc' = "failed" /\ UNCHANGED output
       ELSE /\ pc' = IF call.kind = "label" THEN "label" ELSE "split"
            /\ output' = IF call.add_bos THEN <<vocab.bos>> ELSE <<>>
  /\ UNCHANGED <<file, call, position, raw, rest, special, merging, verdict>>
------------------------------------------------------------------------------
(* tokenize: cut the text at special tokens.                               *)

Usable(v, parse_special) ==
  {i \in DOMAIN v.specials : parse_special \/ v.specials[i].type = UserDefinedType}

\* std::string::find from position; one past the end when there is none.
Find(text, piece, from) ==
  LET at == {i \in from + 1 .. Len(text) : OccursAt(text, piece, i)}
  IN IF at = {} THEN Len(text) + 1 ELSE CHOOSE i \in at : \A j \in at : i <= j

At(s) == Find(call.text, s.text, position)

\* The nearest special token, of several the one that comes first in the list.
NextSpecial ==
  LET found == {i \in Usable(vocab, call.parse_special) :
                  At(vocab.specials[i]) <= Len(call.text)}
      Nearer(s, t) == At(s) < At(t) \/ (At(s) = At(t) /\ s.place <= t.place)
  IN IF found = {} THEN NoSpecial
     ELSE vocab.specials[CHOOSE i \in found : \A j \in found :
                           Nearer(vocab.specials[i], vocab.specials[j])]

StretchEnd == IF NextSpecial = NoSpecial THEN Len(call.text) ELSE At(NextSpecial) - 1

Split ==
  /\ pc = "split"
  /\ position < Len(call.text)
  /\ raw' = SubSeq(call.text, position + 1, StretchEnd)
  /\ rest' = <<>>
  /\ special' = NextSpecial
  /\ position' = StretchEnd
  /\ pc' = "escape"
  /\ UNCHANGED <<file, call, merging, output, verdict>>

TextEnds ==
  /\ pc = "split"
  /\ position = Len(call.text)
  /\ pc' = "done"
  /\ UNCHANGED <<file, call, tokenizing, verdict>>

\* escape_spaces.
Escape ==
  /\ pc = "escape"
  /\ IF raw = <<>>
       THEN pc' = "raw" /\ UNCHANGED <<raw, rest>>
       ELSE /\ rest' = rest \o Escaped(Head(raw))
            /\ raw' = Tail(raw)
            /\ UNCHANGED pc
  /\ UNCHANGED <<file, call, position, special, merging, output, verdict>>

\* The raw stretch is done: its special token follows, or nothing is left.
RawEnds ==
  /\ pc = "raw"
  /\ rest = <<>>
  /\ IF special = NoSpecial
       THEN pc' = "done" /\ UNCHANGED <<position, output>>
       ELSE /\ output' = Append(output, special.id)
            /\ position' = position + Len(special.text)
            /\ pc' = "split"
  /\ UNCHANGED <<file, call, raw, rest, special, merging, verdict>>
------------------------------------------------------------------------------
(* tokenize_segment.                                                       *)

\* A run of newlines that is a piece is written as it is.
NextSegment ==
  /\ pc = "raw"
  /\ rest # <<>>
  /\ segment' = FirstRun(rest)
  /\ rest' = SubSeq(rest, Len(segment') + 1, Len(rest))
  /\ symbols' = <<>>
  /\ queue' = {}
  /\ IF AllNewlines(segment') /\ Known(vocab, segment')
       THEN output' = Append(output, Id(vocab, segment')) /\ UNCHANGED pc
       ELSE pc' = "cut" /\ UNCHANGED output
  /\ UNCHANGED <<file, call, position, raw, special, index, verdict>>

TextOf(s, i) == SubSeq(segment, s[i].offset + 1, s[i].offset + s[i].size)
EndOf(s, i) == s[i].offset + s[i].size

Count == Cardinality(DOMAIN symbols)
Cut == IF Count = 0 THEN 0 ELSE EndOf(symbols, Count - 1)

\* One character more becomes a symbol.
CutCharacter ==
  /\ pc = "cut"
  /\ Cut < Len(segment)
  /\ LET size == SizeAfter(segment, Cut)
         new == [previous |-> Count - 1,
                 next |-> IF Cut + size = Len(segment) THEN End ELSE Count + 1,
                 offset |-> Cut, size |-> size]
     IN symbols' = [i \in 0 .. Count |-> IF i = Count THEN new ELSE symbols[i]]
  /\ UNCHANGED <<file, call, pc, position, raw, rest, special, segment, queue, index,
                 output, verdict>>

\* add_bigram: nothing when a side is missing or the pair has no rank.
Bigrams(s, left, right) ==
  IF left < 0 \/ right < 0 \/ <<TextOf(s, left), TextOf(s, right)>> \notin DOMAIN vocab.ranks
    THEN {}
    ELSE {[left |-> left, right |-> right, text |-> TextOf(s, left) \o TextOf(s, right),
           rank |-> vocab.ranks[<<TextOf(s, left), TextOf(s, right)>>]]}

FillQueue ==
  /\ pc = "cut"
  /\ Cut = Len(segment)
  /\ queue' = UNION {Bigrams(symbols, i - 1, i) : i \in DOMAIN symbols \ {0}}
  /\ pc' = "merge"
  /\ UNCHANGED <<file, call, position, raw, rest, special, segment, symbols, index,
                 output, verdict>>

TopRightmost == CHOOSE b \in queue : \A c \in queue :
                  b.rank < c.rank \/ (b.rank = c.rank /\ b.left >= c.left)
Top == CHOOSE b \in queue : \A c \in queue :
         b.rank < c.rank \/ (b.rank = c.rank /\ b.left <= c.left)

StaleUnlessGone(b) == symbols[b.left].size = 0 \/ symbols[b.right].size = 0
Stale(b) ==
  \/ symbols[b.left].size = 0
  \/ symbols[b.right].size = 0
  \/ SubSeq(segment, symbols[b.left].offset + 1,
            symbols[b.left].offset + symbols[b.left].size + symbols[b.right].size) # b.text

\* The right symbol joins the left one and leaves the list.
Joined(b) ==
  LET after == symbols[b.right].next
  IN [i \in DOMAIN symbols |->
        CASE i = b.left -> [symbols[i] EXCEPT !.size = @ + symbols[b.right].size,
                                              !.next = after]
          [] i = b.right -> [symbols[i] EXCEPT !.size = 0]
          [] i = after -> [symbols[i] EXCEPT !.previous = b.left]
          [] OTHER -> symbols[i]]

PopStale ==
  /\ pc = "merge"
  /\ queue # {}
  /\ Stale(Top)
  /\ queue' = queue \ {Top}
  /\ UNCHANGED <<file, call, pc, position, raw, rest, special, segment, symbols, index,
                 output, verdict>>

PopMerge ==
  /\ pc = "merge"
  /\ queue # {}
  /\ ~Stale(Top)
  /\ symbols' = Joined(Top)
  /\ queue' = (queue \ {Top})
       \cup Bigrams(symbols', symbols'[Top.left].previous, Top.left)
       \cup Bigrams(symbols', Top.left, symbols'[Top.left].next)
  /\ UNCHANGED <<file, call, pc, position, raw, rest, special, segment, index, output,
                 verdict>>

MergeEnds ==
  /\ pc = "merge"
  /\ queue = {}
  /\ pc' = "emit"
  /\ index' = 0
  /\ UNCHANGED <<file, call, position, raw, rest, special, segment, symbols, queue,
                 output, verdict>>

IdsOfFirstByte(piece) == SubSeq(PieceIds(vocab, piece), 1, 1)
IdsOf(piece) == PieceIds(vocab, piece)

\* An exception drops the output.
EmitSymbol ==
  /\ pc = "emit"
  /\ index # End
  /\ LET ids == IdsOf(TextOf(symbols, index))
     IN IF NoId \in ToSet(ids)
          THEN pc' = "failed" /\ UNCHANGED <<index, output>>
          ELSE /\ output' = output \o ids
               /\ index' = symbols[index].next
               /\ UNCHANGED pc
  /\ UNCHANGED <<file, call, position, raw, rest, special, segment, symbols, queue,
                 verdict>>

SegmentEnds ==
  /\ pc = "emit"
  /\ index = End
  /\ pc' = "raw"
  /\ UNCHANGED <<file, call, tokenizing, verdict>>
------------------------------------------------------------------------------
(* tokenize_answer_label, with the calls of tokenize replaced by what they *)
(* return.                                                                 *)

IsSpecialId(v, id) == id \in DOMAIN v.specials

EndsWith(text, suffix) ==
  Len(text) >= Len(suffix) /\ OccursAt(text, suffix, Len(text) - Len(suffix) + 1)

SpansBoundaryNever(v, text, boundary) == FALSE
\* A special token from before the boundary reaches over it.
SpansBoundary(v, text, boundary) ==
  \E n \in DOMAIN v.specials :
    LET piece == v.specials[n].text
        from == IF boundary >= Len(piece) THEN boundary - Len(piece) + 1 ELSE 0
        found == Find(text, piece, from) - 1
    IN found < boundary /\ found + Len(piece) > boundary

FixedSuffix(v, prompt, label) ==
  /\ Known(v, TurnPiece) /\ IsSpecialId(v, Id(v, TurnPiece))
  /\ EndsWith(prompt, AnswerSuffix)
  /\ ~SpansBoundary(v, prompt \o label, Len(prompt) - Len(AnswerSuffix))

UpperCase == {"A", "B"}

LabelShape(label) == Len(label) \in 1 .. 2 /\ ToSet(label) \subseteq UpperCase

VerdictOn(v, prompt, label) ==
  LET Ids(text, bos) == Tokenize(v, text, bos, {v.specials[i] : i \in DOMAIN v.specials})
      bos == ~(Len(prompt) >= Len(BosText) /\ OccursAt(prompt, BosText, 1))
      prefix == Ids(prompt, bos)
      alone == Ids(label, FALSE)
      combined == Ids(prompt \o label, bos)
  IN IF NoId \in ToSet(prefix \o alone) THEN "no byte fallback"
     ELSE IF Len(alone) # 1 THEN "not a single token"
     ELSE IF v.pieces[alone[1]] # label \/ alone[1] = v.eos \/ IsSpecialId(v, alone[1])
       THEN "not a normal token"
     ELSE IF NoId \in ToSet(combined) THEN "no byte fallback"
     ELSE IF combined # Append(prefix, alone[1]) THEN "changes tokenization"
     ELSE "accepted"

CheckLabel ==
  /\ pc = "label"
  /\ verdict' =
       IF ~LabelShape(call.label) THEN "not a label"
       ELSE VerdictOn(vocab, IF FixedSuffix(vocab, call.text, call.label)
                               THEN AnswerSuffix ELSE call.text, call.label)
  /\ pc' = "done"
  /\ UNCHANGED <<file, call, tokenizing>>

Finished == pc \in {"done", "failed"} /\ UNCHANGED vars

Next ==
  \/ Load \/ Split \/ TextEnds \/ Escape \/ RawEnds
  \/ NextSegment \/ CutCharacter \/ FillQueue \/ PopStale \/ PopMerge \/ MergeEnds
  \/ EmitSymbol \/ SegmentEnds
  \/ CheckLabel \/ Finished

Spec == Init /\ [][Next]_vars
------------------------------------------------------------------------------

\* The cuts of a segment are where the symbols begin that are still in the list, and
\* its end.
InSegment == pc \in {"merge", "emit"}
Alive == {i \in DOMAIN symbols : symbols[i].size > 0}
Cuts == {symbols[i].offset : i \in Alive} \cup {Len(segment)}

Greedy == INSTANCE GreedyMerge WITH
  vocabulary <- vocab,
  stage <- CASE pc = "merge" -> "merging" [] pc = "emit" -> "writing"
             [] pc = "failed" -> "failed" [] OTHER -> "between",
  segment <- IF InSegment THEN segment ELSE <<>>,
  cuts <- IF InSegment THEN Cuts ELSE {},
  written <- IF pc # "emit" THEN 0
             ELSE IF index = End THEN Len(segment) ELSE symbols[index].offset

\* Linked list and lazy queue merge what the greedy rule merges, in its order, and
\* stop when it stops; the symbols are then written from left to right.
MergesGreedily == Greedy!MergeSpec

SpecialSet == {vocab.specials[i] : i \in Usable(vocab, call.parse_special)}

\* The linked list and the queue with its stale candidates produce what the plain
\* rule does: the same ids, or an exception exactly where a byte has no fallback.
TokenizesAsSpecified ==
  ~LoadError(Gguf[file]) /\ call.kind = "text" =>
    LET ids == Tokenize(vocab, call.text, call.add_bos, SpecialSet)
    IN /\ pc = "done" => output = ids
       /\ pc = "failed" => NoId \in ToSet(ids)

\* The bytes of the pieces are those of the text, none lost or twice, whatever was
\* merged, cut at a special token or fell back to bytes.
PieceBytes(piece) == IF piece[1] = "0x" THEN <<piece[2]>> ELSE piece

NoTextLost ==
  pc = "done" /\ call.kind = "text" =>
    LET ids == IF call.add_bos THEN Tail(output) ELSE output
    IN FlattenSeq([i \in DOMAIN ids |-> PieceBytes(vocab.pieces[ids[i]])])
         = EscapeSpaces(call.text)

\* The shortcut that looks at the answer suffix only gives the verdict of the whole
\* prompt, except that it cannot see a byte without fallback further up.
LabelVerdictIsWhole ==
  verdict \notin {Nothing, "not a label"} =>
    VerdictOn(vocab, call.text, call.label) \in {verdict, "no byte fallback"}
================================================================================
