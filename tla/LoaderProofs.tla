------------------------------ MODULE LoaderProofs ------------------------------
(***************************************************************************)
(* What a program computes with is what its files hold: for every pair of  *)
(* files and every chunk size, no decision is reached with a weight that   *)
(* is not the tensor's own bytes, in order.  The invariant follows the     *)
(* copying loop: the tensors before the one in turn are whole, those after *)
(* it empty, and of the one in turn a beginning is there, up to where the  *)
(* stream stands.  The second part follows the rows of a benchmark from    *)
(* its input to its output file and exit status.                           *)
(***************************************************************************)
EXTENDS CommandLine, SequenceTheorems, FiniteSetTheorems, TLAPS

\* n positions of a file from a on.
Run(a, n) == [k \in 1 .. n |-> a + k - 1]

LEMMA RunType ==
  ASSUME NEW a \in Nat, NEW n \in Nat
  PROVE  /\ Run(a, n) \in Seq(Nat) /\ Len(Run(a, n)) = n
         /\ \A k \in 1 .. n : Run(a, n)[k] = a + k - 1
<1>1. \A k \in 1 .. n : a + k - 1 \in Nat
  OBVIOUS
<1>2. Run(a, n) \in [1 .. n -> Nat] /\ \A k \in 1 .. n : Run(a, n)[k] = a + k - 1
  BY <1>1 DEF Run
<1> QED
  BY <1>2

\* Two runs, the second from where the first ends, are one.
LEMMA RunsJoin ==
  ASSUME NEW a \in Nat, NEW n \in Nat, NEW m \in Nat
  PROVE  Run(a, n) \o Run(a + n, m) = Run(a, n + m)
<1> DEFINE s == Run(a, n)
           t == Run(a + n, m)
           u == Run(a, n + m)
<1>1. /\ s \in Seq(Nat) /\ Len(s) = n /\ \A k \in 1 .. n : s[k] = a + k - 1
      /\ t \in Seq(Nat) /\ Len(t) = m /\ \A k \in 1 .. m : t[k] = a + n + k - 1
      /\ u \in Seq(Nat) /\ Len(u) = n + m /\ \A k \in 1 .. n + m : u[k] = a + k - 1
  <2>1. a + n \in Nat /\ n + m \in Nat
    OBVIOUS
  <2> QED
    BY <2>1, RunType
<1> HIDE DEF s, t, u
<1>2. /\ s \o t \in Seq(Nat) /\ Len(s \o t) = n + m
      /\ \A k \in 1 .. n + m : (s \o t)[k] = IF k <= n THEN s[k] ELSE t[k - n]
  BY <1>1, ConcatProperties
<1>3. \A k \in 1 .. n + m : (s \o t)[k] = u[k]
  <2> TAKE k \in 1 .. n + m
  <2>1. CASE k <= n
    BY <1>1, <1>2, <2>1
  <2>2. CASE ~(k <= n)
    <3>1. k - n \in 1 .. m
      BY <2>2
    <3>2. t[k - n] = a + k - 1
      BY <1>1, <3>1
    <3> QED
      BY <1>1, <1>2, <2>2, <3>2
  <2> QED
    BY <2>1, <2>2
<1>4. s \o t = u
  BY <1>1, <1>2, <1>3, SeqEqual
<1> QED
  BY <1>4 DEF s, t, u
------------------------------------------------------------------------------

\* ---- the inductive invariant ----------------------------------------------------

Parts == {"text", "vision"}
Copying == {"seek", "read", "config"}
Loaded == {"loaded", "create", "run", "evaluate", "write", "dump", "dumping"}
Early == {"arguments", "rows", "device"}

Wanted(p) ==
  {i \in DOMAIN model[p].tensors :
     \/ p = "text"
     \/ model[p].tensors[i].name[1] \in {"v", "v.blk"}
     \/ model[p].tensors[i].name = <<"mm.input_projection">>}
Names(p) == {model[p].tensors[i].name : i \in Wanted(p)}
Start(p, i) == model[p].data + model[p].tensors[i].offset
Holds(p, i, n) == weights[p][model[p].tensors[i].name] = Run(Start(p, i), n)
Size(p, i) == model[p].tensors[i].bytes

AllPlaced(p) ==
  /\ DOMAIN weights[p] = Names(p)
  /\ \A i \in Wanted(p) : Holds(p, i, Size(p, i))

TextAccepted ==
  /\ TextConfigOk(model.text.keys)
  /\ TextTensors(model.text.keys) \subseteq DOMAIN weights.text
VisionAccepted ==
  /\ VisionConfigOk(model.vision.keys)
  /\ VisionTensors(model.vision.keys) \subseteq DOMAIN weights.vision
  /\ Number(model.vision.keys, "projection") = Number(model.text.keys, "width")

\* Which file is in hand, and that the one before it is finished.
PhaseInv ==
  /\ model \in Models /\ part \in Parts
  /\ weights = [p \in Parts |-> weights[p]]
  /\ pc \in Early => part = "text"
  /\ part = "vision" /\ pc \in Copying \cup {"metadata"} \cup Loaded =>
       AllPlaced("text") /\ TextAccepted
  /\ pc \in Loaded => part = "vision" /\ AllPlaced("vision") /\ VisionAccepted

\* How far the loop has come in that file.
CopyInv ==
  pc \in Copying =>
    /\ source \in Wanted(part)
    /\ DOMAIN weights[part] = Names(part)
    /\ \A i \in Wanted(part) :
         /\ i < source => Holds(part, i, Size(part, i))
         /\ i > source => Holds(part, i, 0)
    /\ pc = "seek" => Holds(part, source, 0)
    /\ pc = "read" =>
         \E n \in 0 .. Size(part, source) - 1 :
           Holds(part, source, n) /\ position = Start(part, source) + n
    /\ pc = "config" =>
         /\ Holds(part, source, Size(part, source))
         /\ \A i \in Wanted(part) : i <= source

IInv == PhaseInv /\ CopyInv

LEMMA FileFacts ==
  ASSUME NEW m \in Models, NEW p \in Parts
  PROVE  /\ m[p].data \in Nat
         /\ DOMAIN m[p].tensors \subseteq Nat
         /\ \A i \in DOMAIN m[p].tensors :
              /\ m[p].tensors[i].offset \in Nat /\ m[p].tensors[i].bytes \in Nat \ {0}
              /\ \A j \in DOMAIN m[p].tensors :
                   m[p].tensors[i].name = m[p].tensors[j].name => i = j
  BY ModelsAssumption DEF Parts

LEMMA TensorFacts ==
  ASSUME IInv, NEW p \in Parts
  PROVE  \A i \in Wanted(p) :
           /\ i \in Nat /\ i \in DOMAIN model[p].tensors
           /\ Start(p, i) \in Nat /\ Size(p, i) \in Nat \ {0}
           /\ model[p].tensors[i].name \in Names(p)
           /\ \A j \in Wanted(p) :
                model[p].tensors[i].name = model[p].tensors[j].name => i = j
<1>1. model \in Models
  BY DEF IInv, PhaseInv
<1> SUFFICES ASSUME NEW i \in Wanted(p)
             PROVE  /\ i \in Nat /\ i \in DOMAIN model[p].tensors
                    /\ Start(p, i) \in Nat /\ Size(p, i) \in Nat \ {0}
                    /\ model[p].tensors[i].name \in Names(p)
                    /\ \A j \in Wanted(p) :
                         model[p].tensors[i].name = model[p].tensors[j].name => i = j
  OBVIOUS
<1>2. \A j \in Wanted(p) : j \in DOMAIN model[p].tensors
  BY DEF Wanted
<1>3. model[p].tensors[i].name \in Names(p)
  BY DEF Names
<1>4. /\ model[p].data \in Nat
      /\ DOMAIN model[p].tensors \subseteq Nat
      /\ model[p].tensors[i].offset \in Nat /\ model[p].tensors[i].bytes \in Nat \ {0}
      /\ \A j \in DOMAIN model[p].tensors :
           model[p].tensors[i].name = model[p].tensors[j].name => i = j
  BY <1>1, <1>2, FileFacts
<1>5. Start(p, i) \in Nat /\ Size(p, i) \in Nat \ {0}
  BY <1>4 DEF Start, Size
<1> QED
  BY <1>2, <1>3, <1>4, <1>5

LEMMA SourcesAreWanted ==
  ASSUME IInv
  PROVE  Sources = Wanted(part)
  BY DEF IInv, PhaseInv, Parts, Sources, Wanted, Included, file

LEMMA InitInv == Init => IInv
<1> SUFFICES ASSUME Init PROVE IInv
  OBVIOUS
<1>1. model \in Models /\ part = "text" /\ pc = "arguments"
      /\ weights = [p \in Parts |-> <<>>]
  BY DEF Init, LoadingInit, Parts
<1> QED
  BY <1>1 DEF IInv, PhaseInv, CopyInv, Parts, Early, Copying, Loaded

\* What the copying of one file cannot change of the other.
LEMMA OtherFileKept ==
  ASSUME IInv, pc \in Copying \cup {"metadata"}, pc' \in Copying \cup {"failed"},
         UNCHANGED <<model, part>>, NEW w, weights' = [weights EXCEPT ![part] = w]
  PROVE  PhaseInv'
<1>1. /\ model' \in Models /\ part' \in Parts
      /\ weights' = [p \in Parts |-> weights'[p]]
  BY DEF IInv, PhaseInv
<1>2. pc' \notin Early /\ pc' \notin Loaded
  BY DEF Copying, Early, Loaded
<1>3. ASSUME part = "vision"
      PROVE  (AllPlaced("text") /\ TextAccepted)'
  <2>1. weights'["text"] = weights["text"]
    BY <1>3 DEF IInv, PhaseInv, Parts
  <2>2. AllPlaced("text") /\ TextAccepted
    BY <1>3 DEF IInv, PhaseInv
  <2> QED
    BY <2>1, <2>2 DEF AllPlaced, TextAccepted, Names, Wanted, Holds, Start, Size
<1> QED
  BY <1>1, <1>2, <1>3 DEF PhaseInv

\* ---- the loop -------------------------------------------------------------------

\* ReadMetadata makes every tensor, empty.
LEMMA MetadataStep ==
  ASSUME IInv, ReadMetadata
  PROVE  IInv'
<1>1. CASE Fail /\ UNCHANGED <<weights, source>>
  <2>1. weights' = [weights EXCEPT ![part] = weights[part]]
    BY <1>1 DEF IInv, PhaseInv
  <2>2. PhaseInv'
    BY <1>1, <2>1, OtherFileKept DEF ReadMetadata, Fail
  <2> QED
    BY <1>1, <2>2 DEF IInv, CopyInv, Copying, Fail
<1>2. CASE ~(Fail /\ UNCHANGED <<weights, source>>)
  <2>1. /\ source' \in First(Sources) /\ pc' = "seek" /\ UNCHANGED <<model, part>>
        /\ weights' = [weights EXCEPT ![part] =
                        [n \in {file.tensors[i].name : i \in Sources} |-> <<>>]]
    BY <1>2 DEF ReadMetadata
  <2>2. {file.tensors[i].name : i \in Sources} = Names(part)
    BY SourcesAreWanted DEF Names, file
  <2>3. PhaseInv'
    BY <2>1, OtherFileKept DEF ReadMetadata, Copying
  <2>4. weights'[part] = [n \in Names(part) |-> <<>>]
    BY <2>1, <2>2 DEF IInv, PhaseInv
  <2>5. \A a : Run(a, 0) = <<>>
    BY DEF Run
  <2>6. \A i \in Wanted(part) : Holds(part, i, 0)'
    BY <2>1, <2>4, <2>5 DEF Holds, Names
  <2>7. source' \in Wanted(part) /\ \A i \in Wanted(part) : source' <= i
    BY <2>1, SourcesAreWanted DEF First
  <2>8. \A i \in Wanted(part) : i \in Nat
    BY TensorFacts DEF IInv, PhaseInv
  <2>9. \A i \in Wanted(part) : ~(i < source')
    BY <2>7, <2>8
  <2>10. Wanted(part)' = Wanted(part) /\ Names(part)' = Names(part)
    BY <2>1 DEF Wanted, Names
  <2>11. CopyInv'
    BY <2>1, <2>4, <2>6, <2>7, <2>9, <2>10 DEF CopyInv
  <2> QED
    BY <2>3, <2>11 DEF IInv
<1> QED
  BY <1>1, <1>2

\* The stream stands at the tensor's first byte.
LEMMA SeekStep ==
  ASSUME IInv, SeekTensor
  PROVE  IInv'
<1>1. /\ pc = "seek" /\ pc' = "read" /\ position' = Start(part, source)
      /\ UNCHANGED <<model, part, source, weights>>
  BY DEF SeekTensor, TensorStart, Start, tensor, file
<1>2. weights' = [weights EXCEPT ![part] = weights[part]]
  BY <1>1 DEF IInv, PhaseInv
<1>3. PhaseInv'
  BY <1>1, <1>2, OtherFileKept DEF Copying
<1>4. /\ source \in Wanted(part) /\ Holds(part, source, 0)
      /\ DOMAIN weights[part] = Names(part)
      /\ \A i \in Wanted(part) :
           /\ i < source => Holds(part, i, Size(part, i))
           /\ i > source => Holds(part, i, 0)
  BY <1>1 DEF IInv, CopyInv, Copying
<1>5. Start(part, source) \in Nat /\ Size(part, source) \in Nat \ {0}
  BY <1>4, TensorFacts DEF IInv, PhaseInv
<1>6. 0 \in 0 .. Size(part, source) - 1 /\ position' = Start(part, source) + 0
  BY <1>1, <1>5
<1>7. CopyInv'
  BY <1>1, <1>4, <1>6 DEF CopyInv, Wanted, Names, Holds, Start, Size
<1> QED
  BY <1>3, <1>7 DEF IInv

\* A chunk follows what is there already.
LEMMA ChunkJoins ==
  ASSUME IInv, pc = "read"
  PROVE  \E n \in 0 .. Size(part, source) - 1 :
           /\ Holds(part, source, n) /\ position = Start(part, source) + n
           /\ Len(Copied) = n /\ ChunkSize \in 1 .. Size(part, source) - n
           /\ Copied \o [k \in 1 .. ChunkSize |-> position + k - 1]
                = Run(Start(part, source), n + ChunkSize)
<1> DEFINE start == Start(part, source)
           size == Size(part, source)
<1>1. PICK n \in 0 .. size - 1 : Holds(part, source, n) /\ position = start + n
  BY DEF IInv, CopyInv, Copying
<1>2. source \in Wanted(part) /\ part \in Parts
  BY DEF IInv, CopyInv, Copying, PhaseInv
<1>3. start \in Nat /\ size \in Nat \ {0}
  BY <1>2, TensorFacts
<1>4. n \in Nat /\ size - n \in Nat \ {0}
  BY <1>1, <1>3
<1>5. Copied = Run(start, n)
  BY <1>1 DEF Holds, Copied, tensor, file
<1>6. Len(Copied) = n
  BY <1>3, <1>4, <1>5, RunType
<1>7. CopyChunk \in Nat \ {0}
  BY LoadingAssumption
<1>8. ChunkSize = IF size - n < CopyChunk THEN size - n ELSE CopyChunk
  BY <1>6 DEF ChunkSize, Size, tensor, file
<1>9. ChunkSize \in 1 .. size - n
  BY <1>4, <1>7, <1>8
<1>10. ChunkSize \in Nat
  BY <1>4, <1>9
<1>11. [k \in 1 .. ChunkSize |-> position + k - 1] = Run(start + n, ChunkSize)
  BY <1>1 DEF Run
<1>12. Copied \o [k \in 1 .. ChunkSize |-> position + k - 1] = Run(start, n + ChunkSize)
  <2>1. Run(start, n) \o Run(start + n, ChunkSize) = Run(start, n + ChunkSize)
    BY <1>3, <1>4, <1>10, RunsJoin
  <2> QED
    BY <1>5, <1>11, <2>1
<1> QED
  BY <1>1, <1>6, <1>9, <1>12

LEMMA ReadStep ==
  ASSUME IInv, ReadChunk
  PROVE  IInv'
<1> DEFINE name == model[part].tensors[source].name
<1>1. pc = "read" /\ UNCHANGED <<model, part>>
  BY DEF ReadChunk
<1>2. CASE position + ChunkSize > file.length
  <2>1. pc' = "failed" /\ UNCHANGED <<weights, position, source>>
    BY <1>2 DEF ReadChunk, Fail
  <2>2. weights' = [weights EXCEPT ![part] = weights[part]]
    BY <2>1 DEF IInv, PhaseInv
  <2>3. PhaseInv'
    BY <1>1, <2>1, <2>2, OtherFileKept DEF Copying
  <2> QED
    BY <2>1, <2>3 DEF IInv, CopyInv, Copying
<1>3. CASE ~(position + ChunkSize > file.length)
  <2> DEFINE done == Len(Copied) + ChunkSize = tensor.bytes
  <2>1. PICK n \in 0 .. Size(part, source) - 1 :
          /\ position = Start(part, source) + n
          /\ Len(Copied) = n /\ ChunkSize \in 1 .. Size(part, source) - n
          /\ Copied \o [k \in 1 .. ChunkSize |-> position + k - 1]
               = Run(Start(part, source), n + ChunkSize)
    BY <1>1, ChunkJoins
  <2>2. /\ weights' = [weights EXCEPT ![part][tensor.name] =
                         Copied \o [k \in 1 .. ChunkSize |-> position + k - 1]]
        /\ position' = position + ChunkSize
        /\ \/ ~done /\ pc' = "read" /\ UNCHANGED source
           \/ done /\ source' \in First(Later) /\ pc' = "seek"
           \/ done /\ Later = {} /\ pc' = "config" /\ UNCHANGED source
    BY <1>3 DEF ReadChunk, Copied
  <2>3. weights' = [weights EXCEPT ![part] =
                      [weights[part] EXCEPT ![name] = Run(Start(part, source), n + ChunkSize)]]
    BY <2>1, <2>2 DEF tensor, file
  <2>4. PhaseInv'
    <3>1. pc' \in Copying
      BY <2>2 DEF Copying
    <3> HIDE DEF name
    <3> QED
      BY <1>1, <2>3, <3>1, OtherFileKept DEF Copying
  <2>5. /\ source \in Wanted(part) /\ part \in Parts
        /\ DOMAIN weights[part] = Names(part)
        /\ \A i \in Wanted(part) :
             /\ i < source => Holds(part, i, Size(part, i))
             /\ i > source => Holds(part, i, 0)
    BY <1>1 DEF IInv, CopyInv, Copying, PhaseInv
  <2>6. \A i \in Wanted(part) :
          /\ i \in Nat /\ Size(part, i) \in Nat
          /\ model[part].tensors[i].name \in Names(part)
          /\ \A j \in Wanted(part) :
               model[part].tensors[i].name = model[part].tensors[j].name => i = j
    BY <2>5, TensorFacts
  <2>7. weights'[part] =
          [weights[part] EXCEPT ![name] = Run(Start(part, source), n + ChunkSize)]
    BY <2>3, <2>5 DEF IInv, PhaseInv
  <2>8. DOMAIN weights'[part] = Names(part)
    BY <2>5, <2>7
  <2>9. weights'[part][name] = Run(Start(part, source), n + ChunkSize)
    BY <2>5, <2>6, <2>7
  <2>10. \A i \in Wanted(part) : i # source =>
           weights'[part][model[part].tensors[i].name]
             = weights[part][model[part].tensors[i].name]
    BY <2>5, <2>6, <2>7
  <2>12. \A i \in Wanted(part) :
           /\ i < source => weights'[part][model[part].tensors[i].name]
                              = Run(Start(part, i), Size(part, i))
           /\ i > source => weights'[part][model[part].tensors[i].name]
                              = Run(Start(part, i), 0)
    BY <2>5, <2>6, <2>10 DEF Holds
  <2>13. Wanted(part)' = Wanted(part) /\ Names(part)' = Names(part)
         /\ \A i : Start(part, i)' = Start(part, i) /\ Size(part, i)' = Size(part, i)
    BY <1>1 DEF Wanted, Names, Start, Size
  <2>14. n \in Nat /\ ChunkSize \in Nat /\ n + ChunkSize \in 0 .. Size(part, source)
         /\ (done <=> n + ChunkSize = Size(part, source))
    BY <2>1, <2>5, <2>6 DEF Size, tensor, file
  <2>15. CASE ~done /\ pc' = "read" /\ UNCHANGED source
    <3>1. n + ChunkSize \in 0 .. Size(part, source) - 1
      BY <2>5, <2>6, <2>14, <2>15
    <3>2. position' = Start(part, source) + (n + ChunkSize)
      <4>1. Start(part, source) \in Nat
        BY <2>5, TensorFacts
      <4> QED
        BY <2>1, <2>2, <2>14, <4>1
    <3>3. CopyInv'
      BY <1>1, <2>5, <2>8, <2>9, <2>12, <2>13, <2>15, <3>1, <3>2 DEF CopyInv, Holds
    <3> QED
      BY <2>4, <3>3 DEF IInv
  <2>16. CASE done /\ source' \in First(Later) /\ pc' = "seek"
    <3>1. /\ source' \in Wanted(part) /\ source' > source
          /\ \A i \in Wanted(part) : i > source => source' <= i
      BY <2>16, SourcesAreWanted DEF First, Later
    <3>2. \A i \in Wanted(part) :
            /\ i < source' => i <= source
            /\ i > source' => i > source
      BY <2>5, <2>6, <3>1
    <3>3. \A i \in Wanted(part) :
            /\ i < source' => weights'[part][model[part].tensors[i].name]
                                = Run(Start(part, i), Size(part, i))
            /\ i > source' => weights'[part][model[part].tensors[i].name]
                                = Run(Start(part, i), 0)
      BY <2>5, <2>6, <2>9, <2>12, <2>14, <2>16, <3>2
    <3>4. weights'[part][model[part].tensors[source'].name] = Run(Start(part, source'), 0)
      BY <2>12, <3>1
    <3>5. CopyInv'
      BY <1>1, <2>8, <2>13, <2>16, <3>1, <3>3, <3>4 DEF CopyInv, Holds
    <3> QED
      BY <2>4, <3>5 DEF IInv
  <2>17. CASE done /\ Later = {} /\ pc' = "config" /\ UNCHANGED source
    <3>1. \A i \in Wanted(part) : i <= source
      BY <2>5, <2>6, <2>17, SourcesAreWanted DEF Later
    <3>2. n + ChunkSize = Size(part, source)
      BY <2>14, <2>17
    <3>3. \A i \in Wanted(part) : i < source => Holds(part, i, Size(part, i))'
      BY <1>1, <2>12, <2>13 DEF Holds
    <3>4. Holds(part, source, Size(part, source))'
      BY <1>1, <2>9, <2>13, <2>17, <3>2 DEF Holds
    <3>5. \A i \in Wanted(part) : ~(i > source)
      BY <2>5, <2>6, <3>1
    <3>6. CopyInv'
      BY <1>1, <2>5, <2>8, <2>13, <2>17, <3>1, <3>3, <3>4, <3>5 DEF CopyInv
    <3> QED
      BY <2>4, <3>6 DEF IInv
  <2> QED
    BY <2>2, <2>15, <2>16, <2>17
<1> QED
  BY <1>2, <1>3

\* ModelLoader::load goes on with a file whose every tensor has been copied.
LEMMA CheckStep ==
  ASSUME IInv, CheckModel
  PROVE  IInv'
<1>1. /\ pc = "config" /\ UNCHANGED <<model, source, position, weights>>
      /\ model \in Models /\ part \in Parts
      /\ weights = [p \in Parts |-> weights[p]]
  BY DEF CheckModel, IInv, PhaseInv
<1>2. AllPlaced(part)
  <2>1. \A i \in Wanted(part) : i \in Nat /\ source \in Nat
    BY <1>1, TensorFacts DEF IInv, CopyInv, Copying
  <2>2. /\ DOMAIN weights[part] = Names(part)
        /\ \A i \in Wanted(part) :
             /\ i < source => Holds(part, i, Size(part, i))
             /\ i <= source
        /\ Holds(part, source, Size(part, source))
    BY <1>1 DEF IInv, CopyInv, Copying
  <2>3. \A i \in Wanted(part) : i < source \/ i = source
    BY <2>1, <2>2
  <2> QED
    BY <2>2, <2>3 DEF AllPlaced
<1>3. \A p \in Parts : AllPlaced(p) => AllPlaced(p)'
  BY <1>1 DEF AllPlaced, Names, Wanted, Holds, Start, Size
<1>4. (TextAccepted => TextAccepted') /\ (VisionAccepted => VisionAccepted')
  BY <1>1 DEF TextAccepted, VisionAccepted
<1>5. CASE ~Accepted
  <2>1. pc' = "failed" /\ UNCHANGED part
    BY <1>5 DEF CheckModel, Fail
  <2> QED
    BY <1>1, <2>1 DEF IInv, PhaseInv, CopyInv, Copying, Early, Loaded
<1>6. CASE Accepted /\ part = "text"
  <2>1. part' = "vision" /\ pc' = "metadata"
    BY <1>6 DEF CheckModel
  <2>2. AllPlaced("text")' /\ TextAccepted'
    BY <1>2, <1>3, <1>4, <1>6 DEF Accepted, TextAccepted, file, Parts
  <2> QED
    BY <1>1, <2>1, <2>2 DEF IInv, PhaseInv, CopyInv, Copying, Early, Loaded, Parts
<1>7. CASE Accepted /\ part = "vision"
  <2>1. part' = "vision" /\ pc' = "loaded"
    BY <1>7 DEF CheckModel
  <2>2. AllPlaced("text")' /\ TextAccepted'
    BY <1>1, <1>3, <1>4, <1>7 DEF IInv, PhaseInv, Copying, Parts
  <2>3. AllPlaced("vision")' /\ VisionAccepted'
    BY <1>2, <1>3, <1>4, <1>7 DEF Accepted, VisionAccepted, file, Parts
  <2> QED
    BY <1>1, <2>1, <2>2, <2>3 DEF IInv, PhaseInv, CopyInv, Copying, Early, Loaded, Parts
<1> QED
  BY <1>1, <1>5, <1>6, <1>7 DEF Parts

\* ---- the rest of the programs ---------------------------------------------------

\* Nothing else touches the weights, or reaches a stage from which they are used
\* unless it was in one.
LEMMA ElsewhereStep ==
  ASSUME IInv, UNCHANGED <<model, part, source, position, weights>>,
         \/ pc' = pc
         \/ pc' \notin Early \cup Copying \cup Loaded \cup {"metadata"}
         \/ pc \in Early /\ pc' \in Early \cup {"metadata"}
         \/ pc \in Loaded /\ pc' \in Loaded
  PROVE  IInv'
<1>1. \A p \in Parts : AllPlaced(p) => AllPlaced(p)'
  BY DEF AllPlaced, Names, Wanted, Holds, Start, Size
<1>2. (TextAccepted => TextAccepted') /\ (VisionAccepted => VisionAccepted')
  BY DEF TextAccepted, VisionAccepted
<1>3. CASE pc' = pc
  <2>1. PhaseInv'
    BY <1>1, <1>2, <1>3 DEF IInv, PhaseInv, Parts
  <2>2. CopyInv'
    BY <1>3 DEF IInv, CopyInv, Names, Wanted, Holds, Start, Size
  <2> QED
    BY <2>1, <2>2 DEF IInv
<1>4. CASE pc' \notin Early \cup Copying \cup Loaded \cup {"metadata"}
  BY <1>4 DEF IInv, PhaseInv, CopyInv
<1>5. CASE pc \in Early /\ pc' \in Early \cup {"metadata"}
  BY <1>5 DEF IInv, PhaseInv, CopyInv, Early, Copying, Loaded
<1>6. CASE pc \in Loaded /\ pc' \in Loaded
  <2>1. pc' \notin Copying \cup Early
    BY <1>6 DEF Loaded, Copying, Early
  <2>2. PhaseInv'
    BY <1>1, <1>2, <1>6, <2>1 DEF IInv, PhaseInv, Parts
  <2> QED
    BY <2>1, <2>2 DEF IInv, CopyInv
<1> QED
  BY <1>3, <1>4, <1>5, <1>6

LEMMA BeforeStep ==
  ASSUME IInv,
         ParseArguments \/ ReadRow \/ RowsRead \/ OpenBackend \/ BackendChecked
           \/ StartFailed
  PROVE  IInv'
<1>1. UNCHANGED <<model, part, source, position, weights>>
  BY DEF ParseArguments, ReadRow, RowsRead, OpenBackend, SelectDevice, BackendChecked,
         StartFailed, loadingVars
<1>2. \/ pc' \in {"leave", "failed", "checked"}
      \/ pc \in Early /\ pc' \in Early \cup {"metadata"}
  BY DEF ParseArguments, ReadRow, RowsRead, OpenBackend, SelectDevice, BackendChecked,
         StartFailed, Leave, Proceed, Fail, Early
<1> QED
  BY <1>1, <1>2, ElsewhereStep DEF Early, Copying, Loaded

LEMMA AfterStep ==
  ASSUME IInv,
         \/ Prepare \/ CreateOutput \/ WriteRun \/ EvaluateRow \/ WriteLine \/ CheckStream
         \/ EvaluateOne \/ OpenDump \/ WriteDump
  PROVE  IInv'
<1>1. UNCHANGED <<model, part, source, position, weights>>
  BY DEF Prepare, CreateOutput, WriteRun, EvaluateRow, WriteLine, CheckStream, EvaluateOne,
         OpenDump, WriteDump, loadingVars
<1>2. pc \in Loaded /\ pc' \in Loaded \cup {"leave"}
  BY DEF Prepare, CreateOutput, WriteRun, EvaluateRow, WriteLine, CheckStream, EvaluateOne,
         OpenDump, WriteDump, OpenOutput, Leave, Proceed, Loaded
<1> QED
  BY <1>1, <1>2, ElsewhereStep DEF Early, Copying, Loaded

LEMMA EndStep ==
  ASSUME IInv, DestroyStream \/ SomeoneCreates \/ UNCHANGED vars
  PROVE  IInv'
<1>1. UNCHANGED <<model, part, source, position, weights>>
  BY DEF DestroyStream, SomeoneCreates, vars, loadingVars
<1>2. pc' = pc \/ pc' = "gone"
  BY DEF DestroyStream, SomeoneCreates, vars
<1> QED
  BY <1>1, <1>2, ElsewhereStep DEF Early, Copying, Loaded

LEMMA StepInv == IInv /\ [Next]_vars => IInv'
<1> SUFFICES ASSUME IInv, [Next]_vars PROVE IInv'
  OBVIOUS
<1>1. CASE LoadModel
  BY <1>1, MetadataStep, SeekStep, ReadStep, CheckStep DEF LoadModel, LoadStep
<1> QED
  BY <1>1, BeforeStep, AfterStep, EndStep DEF Next, Finished

LEMMA Invariance == Spec => []IInv
  BY InitInv, StepInv, PTL DEF Spec
------------------------------------------------------------------------------

\* ---- what has been accepted ------------------------------------------------------

\* read_text_config's scalars are 32-bit numbers.
LEMMA ScalarType ==
  ASSUME NEW m \in Models, NEW p \in Parts, NEW key, HasScalar(m[p].keys, key, "uint32")
  PROVE  Number(m[p].keys, key) \in 0 .. Word - 1
  BY ModelsAssumption DEF HasScalar, Number, Parts

LEMMA SmallRemainder ==
  ASSUME NEW n \in 0 .. Word - 1
  PROVE  n % Word = n
<1>1. Word \in Nat \ {0}
  BY LoadingAssumption
<1>2. /\ n = Word * (n \div Word) + (n % Word)
      /\ n % Word \in 0 .. Word - 1 /\ n \div Word \in Int
  BY <1>1
<1>3. n \div Word = 0
  <2> DEFINE q == n \div Word
  <2>1. q \in Int /\ n \in Int /\ n >= 0 /\ n < Word
    BY <1>1, <1>2
  <2>2. n >= Word * q /\ n < Word * q + Word
    BY <1>1, <1>2
  <2> HIDE DEF q
  <2>3. CASE q >= 1
    BY <1>1, <2>1, <2>2, <2>3
  <2>4. CASE q <= -1
    BY <1>1, <2>1, <2>2, <2>4
  <2> QED
    BY <2>1, <2>3, <2>4 DEF q
<1> QED
  BY <1>1, <1>2, <1>3

\* Every block has its tensors, and keys and values of its own unless it shares them.
LEMMA BlocksAreThere ==
  ASSUME IInv, pc \in Loaded, NEW b \in BlocksOf(model.text.keys)
  PROVE  /\ <<"blk", b>> \in DOMAIN weights.text
         /\ b < Number(model.text.keys, "blocks") - Number(model.text.keys, "shared") =>
              <<"blk.attn_k", b>> \in DOMAIN weights.text
<1> DEFINE blocks == Number(model.text.keys, "blocks")
           shared == Number(model.text.keys, "shared")
<1>1. TextAccepted /\ model \in Models
  BY DEF IInv, PhaseInv
<1>2. <<"blk", b>> \in DOMAIN weights.text
  BY <1>1 DEF TextAccepted, TextTensors
<1>3. blocks \in 0 .. Word - 1 /\ shared \in 0 .. Word - 1 /\ Word \in Nat \ {0}
  <2>1. HasScalar(model["text"].keys, "blocks", "uint32")
        /\ HasScalar(model["text"].keys, "shared", "uint32")
    BY <1>1 DEF TextAccepted, TextConfigOk
  <2> QED
    BY <1>1, <2>1, ScalarType, LoadingAssumption DEF Parts
<1>4. ASSUME b < blocks - shared
      PROVE  <<"blk.attn_k", b>> \in DOMAIN weights.text
  <2>1. b \in Int /\ b >= 0
    BY <1>3 DEF BlocksOf
  <2> HIDE DEF blocks, shared
  <2>2. blocks - shared \in 0 .. Word - 1
    BY <1>3, <1>4, <2>1
  <2>3. b < (blocks - shared) % Word
    BY <1>4, <2>2, SmallRemainder
  <2> USE DEF blocks, shared
  <2>4. b < KvLayers(model.text.keys)
    BY <2>3 DEF KvLayers
  <2> QED
    BY <1>1, <2>4 DEF TextAccepted, TextTensors
<1> QED
  BY <1>2, <1>4

LEMMA LoadedInPlace ==
  ASSUME IInv, pc \in Loaded
  PROVE  WeightsInPlace
<1>1. /\ model \in Models /\ AllPlaced("text") /\ AllPlaced("vision") /\ VisionAccepted
  BY DEF IInv, PhaseInv
<1>2. ASSUME NEW p \in Parts, NEW t \in ToSet(model[p].tensors), t.name \in DOMAIN weights[p]
      PROVE  weights[p][t.name] = [k \in 1 .. t.bytes |-> model[p].data + t.offset + k - 1]
  <2>1. PICK j \in DOMAIN model[p].tensors : t = model[p].tensors[j]
    BY <1>2 DEF ToSet
  <2>2. PICK i \in Wanted(p) : t.name = model[p].tensors[i].name
    BY <1>1, <1>2 DEF AllPlaced, Names, Parts
  <2>3. i = j
    BY <1>1, <2>1, <2>2, FileFacts DEF Wanted
  <2>4. Holds(p, i, Size(p, i))
    BY <1>1 DEF AllPlaced, Parts
  <2> QED
    BY <2>1, <2>3, <2>4 DEF Holds, Run, Start, Size
<1>3. \A b \in BlocksOf(model.vision.keys) : <<"v.blk", b>> \in DOMAIN weights.vision
  BY <1>1 DEF VisionAccepted, VisionTensors
<1> QED
  BY <1>1, <1>2, <1>3, BlocksAreThere DEF WeightsInPlace, VisionAccepted, Parts

\* ModelLoader::load: for every pair of files and every copy_chunk_size, no program gets to
\* a decision with a weight out of its place, a block without its tensors, or two files
\* that do not fit.
THEOREM LoadsInPlace == Spec => []WeightsArePlaced
<1>1. IInv => WeightsArePlaced
  BY LoadedInPlace DEF WeightsArePlaced, Loaded
<1> QED
  BY <1>1, Invariance, PTL
------------------------------------------------------------------------------

(* The report: whose lines they are, and how far they have got.            *)

Left == {"leave", "gone"}

\* The lines up to one that ask for something.
AskedUpTo(n) == {k \in 1 .. n : input[k] # "blank"}

RowOn(n, k) ==
  /\ k \in 1 .. read /\ input[k] # "blank"
  /\ rows[n] = [id |-> input[k], line |-> k]
  /\ Cardinality(AskedUpTo(k)) = n

\* Reading: row n is the n-th line that asks for something, of those read.
ReadInv ==
  /\ read \in 0 .. Len(input)
  /\ rows \in Seq([id : STRING, line : Nat])
  /\ Len(rows) = Cardinality(AskedUpTo(read))
  /\ \A n \in 1 .. Len(rows) : \E k \in 1 .. read : RowOn(n, k)
  /\ pc \notin {"arguments", "rows"} => read = Len(input) /\ Len(rows) > 0

\* Evaluating: results are those of the first rows.
ResultsInv ==
  /\ results \in Seq(STRING) /\ Len(results) <= Len(rows)
  /\ \A k \in 1 .. Len(results) : results[k] = rows[k].id
  /\ pc = "evaluate" => Len(results) < Len(rows)
  /\ pc = "write" => Len(results) = Len(rows)
  /\ pc \notin {"evaluate", "write"} => results = <<>>

BenchInv ==
  /\ input \in Seq(STRING)
  /\ Bench /\ pc \notin Left => ReadInv /\ ResultsInv
  /\ pc = "rows" => Bench
  /\ Bench => pc \notin {"checked", "dump", "dumping"}
  /\ Bench /\ pc \notin {"arguments"} \cup Left => args.model
  /\ pc \in {"create", "run"} => Bench
  /\ pc = "arguments" => read = 0 /\ rows = <<>>

WholeLines == {Whole[i] : i \in 1 .. Len(Whole)}

Opened == {"run", "write", "dumping"}

\* Writing: the stream has been given the beginning of the whole report, and as long as it
\* is good the file and the buffer hold it.
WrittenInv ==
  /\ written \in Seq(WholeLines) /\ Len(written) <= Len(Whole)
  /\ \A i \in 1 .. Len(written) : written[i] = Whole[i]
  /\ pc \in Opened \/ (Bench /\ pc = "evaluate") => output.owner = tool
  /\ pc \notin Opened \cup Left /\ ~(Bench /\ pc = "evaluate") => output.owner # tool
  /\ pc \in {"run", "dumping"} => written = <<>>
  /\ Bench /\ pc = "evaluate" => Len(written) = 1
  /\ pc = "write" => Len(written) >= 1

StreamInv ==
  /\ output \in [owner : {"nobody", "other", tool}, lines : Seq(WholeLines)]
  /\ buffer \in Seq(WholeLines)
  /\ output.owner # tool => written = <<>> /\ buffer = <<>>
  /\ output.owner = tool /\ good /\ pc # "gone" => written = output.lines \o buffer
  /\ output.owner = tool /\ good /\ pc = "gone" =>
       /\ IsPrefix(output.lines, written)
       /\ ~tail_lost => output.lines = written

\* Leaving: success comes after the last line of a stream that is good.
ExitInv ==
  /\ tool \in {"branchscore", "bench"}
  /\ pc \notin Left => exit = Running
  /\ pc \in Left /\ exit = 0 =>
       /\ written # <<>> => good /\ Len(written) = Len(Whole)
       /\ Bench /\ args.mode = "run" => Len(written) = Len(Whole)
  /\ pc \notin {"arguments"} \cup Left => args.mode = "run"
  /\ found \in {NoFile, Foreign}
  /\ Bench /\ found # NoFile =>
       output = found /\ buffer = <<>> /\ pc \in {"arguments"} \cup Left

\* ---- the lines of the input -----------------------------------------------------

LEMMA AskedFinite ==
  ASSUME NEW n \in Nat
  PROVE  IsFiniteSet(AskedUpTo(n)) /\ Cardinality(AskedUpTo(n)) \in Nat
<1>1. IsFiniteSet(1 .. n)
  BY FS_Interval
<1>2. IsFiniteSet(AskedUpTo(n))
  BY <1>1, FS_Subset DEF AskedUpTo
<1> QED
  BY <1>2, FS_CardinalityType

LEMMA NothingAsked == AskedUpTo(0) = {} /\ Cardinality(AskedUpTo(0)) = 0
<1>1. AskedUpTo(0) = {}
  BY DEF AskedUpTo
<1> QED
  BY <1>1, FS_EmptySet

\* One line more.
LEMMA NextAsked ==
  ASSUME NEW n \in Nat
  PROVE  Cardinality(AskedUpTo(n + 1)) = IF input[n + 1] = "blank" THEN Cardinality(AskedUpTo(n))
                                         ELSE Cardinality(AskedUpTo(n)) + 1
<1>1. CASE input[n + 1] = "blank"
  <2>1. AskedUpTo(n + 1) = AskedUpTo(n)
    BY <1>1 DEF AskedUpTo
  <2> QED
    BY <1>1, <2>1
<1>2. CASE input[n + 1] # "blank"
  <2>1. AskedUpTo(n + 1) = AskedUpTo(n) \cup {n + 1} /\ n + 1 \notin AskedUpTo(n)
    BY <1>2 DEF AskedUpTo
  <2>2. Cardinality(AskedUpTo(n) \cup {n + 1}) = Cardinality(AskedUpTo(n)) + 1
    BY <2>1, AskedFinite, FS_AddElement
  <2> QED
    BY <1>2, <2>1, <2>2
<1> QED
  BY <1>1, <1>2

\* No two lines that ask for something are the n-th of those.
LEMMA RankTells ==
  ASSUME NEW j \in Nat, NEW k \in Nat, j < k, input[k] # "blank"
  PROVE  Cardinality(AskedUpTo(j)) # Cardinality(AskedUpTo(k))
<1>1. AskedUpTo(j) \in SUBSET AskedUpTo(k) /\ k \in AskedUpTo(k) /\ k \notin AskedUpTo(j)
  BY DEF AskedUpTo
<1>2. Cardinality(AskedUpTo(k)) = Cardinality(AskedUpTo(j)) => AskedUpTo(k) = AskedUpTo(j)
  BY <1>1, AskedFinite, FS_Subset
<1> QED
  BY <1>1, <1>2

\* When the whole input is read, the rows are those it asks for.
LEMMA RowsAreAsked ==
  ASSUME input \in Seq(STRING), ReadInv, read = Len(input)
  PROVE  rows = Asked
<1> DEFINE N == Cardinality(AskedUpTo(Len(input)))
           Rank(k) == Cardinality({j \in AskedLines : j <= k})
           Line(n) == CHOOSE k \in AskedLines : Rank(k) = n
           Row(n) == [id |-> input[Line(n)], line |-> Line(n)]
<1>1. Len(input) \in Nat /\ DOMAIN input = 1 .. Len(input)
  OBVIOUS
<1>2. AskedLines = AskedUpTo(Len(input))
  BY <1>1 DEF AskedLines, AskedUpTo
<1>3. Asked = [n \in 1 .. N |-> Row(n)]
  BY <1>2 DEF Asked
<1>4. ASSUME NEW k \in AskedLines PROVE Rank(k) = Cardinality(AskedUpTo(k))
  <2>1. {j \in AskedLines : j <= k} = AskedUpTo(k)
    BY <1>1, <1>2 DEF AskedUpTo
  <2> QED
    BY <2>1
<1> HIDE DEF Rank
<1>5. ASSUME NEW n \in 1 .. N
      PROVE  rows[n] = Row(n)
  <2>1. n \in 1 .. Len(rows)
    BY DEF ReadInv
  <2>2. PICK k \in 1 .. read : RowOn(n, k)
    BY <2>1 DEF ReadInv
  <2>3. k \in AskedLines /\ Rank(k) = n
    BY <1>2, <1>4, <2>2 DEF RowOn, AskedUpTo
  <2>4. ASSUME NEW j \in AskedLines, Rank(j) = n PROVE j = k
    <3>1. j \in Nat /\ k \in Nat /\ input[j] # "blank" /\ input[k] # "blank"
      BY <1>1, <1>2, <2>3 DEF AskedUpTo
    <3>2. Cardinality(AskedUpTo(j)) = Cardinality(AskedUpTo(k))
      BY <1>4, <2>3, <2>4
    <3>3. ~(j < k) /\ ~(k < j)
      BY <3>1, <3>2, RankTells
    <3> QED
      BY <3>1, <3>3
  <2>5. Line(n) = k
    BY <2>3, <2>4
  <2> HIDE DEF Line
  <2> QED
    BY <2>2, <2>5 DEF RowOn
<1>6. DOMAIN rows = 1 .. N /\ rows = [n \in 1 .. N |-> rows[n]]
  BY DEF ReadInv
<1> HIDE DEF Row, N
<1> QED
  BY <1>3, <1>5, <1>6

\* ---- the report -----------------------------------------------------------------

\* A sequence with an element before and one after it.
LEMMA Framed ==
  ASSUME NEW S, NEW a \in S, NEW b \in S, NEW f \in Seq(S)
  PROVE  /\ <<a>> \o f \o <<b>> \in Seq(S)
         /\ Len(<<a>> \o f \o <<b>>) = Len(f) + 2
         /\ (<<a>> \o f \o <<b>>)[1] = a
<1>1. <<a>> \in Seq(S) /\ <<b>> \in Seq(S) /\ Len(<<a>>) = 1 /\ Len(<<b>>) = 1 /\ Len(f) \in Nat
  OBVIOUS
<1>2. /\ <<a>> \o f \in Seq(S) /\ Len(<<a>> \o f) = 1 + Len(f)
      /\ (<<a>> \o f)[1] = a
  BY <1>1, ConcatProperties
<1>3. /\ (<<a>> \o f) \o <<b>> \in Seq(S) /\ Len((<<a>> \o f) \o <<b>>) = 2 + Len(f)
      /\ ((<<a>> \o f) \o <<b>>)[1] = a
  BY <1>1, <1>2, ConcatProperties
<1> QED
  BY <1>3

LEMMA WholeFacts ==
  ASSUME input \in Seq(STRING)
  PROVE  /\ Whole \in Seq(WholeLines) /\ Len(Whole) \in Nat
         /\ Bench => Len(Whole) >= 2 /\ Whole[1] = [kind |-> "run", rows |-> Len(Asked)]
         /\ ~Bench => Len(Whole) = 1 /\ Whole = Dump
<1>1. ASSUME NEW S, Whole \in Seq(S)
      PROVE  Whole \in Seq(WholeLines) /\ Len(Whole) \in Nat
  <2>1. Len(Whole) \in Nat /\ Whole = [i \in 1 .. Len(Whole) |-> Whole[i]]
    BY <1>1
  <2>2. \A i \in 1 .. Len(Whole) : Whole[i] \in WholeLines
    BY DEF WholeLines
  <2> QED
    BY <2>1, <2>2, IsASeq
<1>2. CASE Bench
  <2> DEFINE a == [kind |-> "run", rows |-> Len(Asked)]
             b == [kind |-> "aggregate", rows |-> Len(Asked)]
             D(k) == [kind |-> "decision", row |-> Asked[k], result |-> Asked[k].id]
             f == [k \in DOMAIN Asked |-> D(k)]
             n == Cardinality(AskedLines)
             S == {a, b} \cup {D(k) : k \in 1 .. n}
  <2>1. Whole = <<a>> \o f \o <<b>>
    BY <1>2 DEF Whole
  <2>2. n \in Nat
    <3>1. AskedLines = AskedUpTo(Len(input)) /\ Len(input) \in Nat
      BY DEF AskedLines, AskedUpTo
    <3> QED
      BY <3>1, AskedFinite
  <2>3. DOMAIN Asked = 1 .. n
    BY DEF Asked
  <2> HIDE DEF a, b, D, n
  <2>4. f \in Seq(S) /\ a \in S /\ b \in S
    <3>1. \A k \in 1 .. n : D(k) \in S
      OBVIOUS
    <3> QED
      BY <2>2, <2>3, <3>1
  <2> HIDE DEF f, S
  <2>5. Len(f) \in Nat
    BY <2>4
  <2>6. Whole \in Seq(S) /\ Len(Whole) = Len(f) + 2 /\ Whole[1] = a
    BY <2>1, <2>4, Framed
  <2> QED
    BY <1>1, <1>2, <2>5, <2>6 DEF a
<1>3. CASE ~Bench
  <2>1. Whole = Dump /\ Dump = <<[kind |-> "dump"]>>
    BY <1>3 DEF Whole, Dump
  <2>2. Dump \in Seq({[kind |-> "dump"]}) /\ Len(Dump) = 1
    BY <2>1
  <2> QED
    BY <1>1, <1>3, <2>1, <2>2
<1> QED
  BY <1>2, <1>3

\* What the loops write is the report of the rows and results at hand: the whole one when
\* all rows are read and evaluated.
LEMMA ReportIsComplete ==
  ASSUME Bench, rows = Asked, results \in Seq(STRING), Len(results) = Len(rows),
         \A k \in 1 .. Len(results) : results[k] = rows[k].id, DOMAIN rows = 1 .. Len(rows)
  PROVE  Report = Whole
<1>1. RunLine = [kind |-> "run", rows |-> Len(Asked)]
      /\ AggregateLine = [kind |-> "aggregate", rows |-> Len(Asked)]
  BY DEF RunLine, AggregateLine
<1>2. \A k \in DOMAIN rows :
        DecisionLine(k) = [kind |-> "decision", row |-> Asked[k], result |-> Asked[k].id]
  BY DEF DecisionLine
<1>3. [k \in DOMAIN rows |-> DecisionLine(k)]
        = [k \in DOMAIN Asked |->
             [kind |-> "decision", row |-> Asked[k], result |-> Asked[k].id]]
  BY <1>2
<1> QED
  BY <1>1, <1>3 DEF Report, Whole

LEMMA WholeStays ==
  ASSUME UNCHANGED toolInput
  PROVE  /\ Bench' = Bench /\ Asked' = Asked /\ Whole' = Whole
         /\ WholeLines' = WholeLines /\ \A n : AskedUpTo(n)' = AskedUpTo(n)
<1>1. UNCHANGED <<tool, args, input, found>>
  BY DEF toolInput
<1>2. Bench' = Bench /\ AskedLines' = AskedLines /\ \A n : AskedUpTo(n)' = AskedUpTo(n)
  BY <1>1 DEF Bench, AskedLines, AskedUpTo
<1>3. Asked' = Asked
  BY <1>1, <1>2 DEF Asked
<1>4. Whole' = Whole
  BY <1>2, <1>3 DEF Whole, Dump
<1>5. WholeLines' = WholeLines
  BY <1>4 DEF WholeLines
<1> QED
  BY <1>2, <1>3, <1>4, <1>5
\* ---- the steps that write nothing ------------------------------------------------

\* From stage to stage, or out, without a row, a result or a line.
Quietly ==
  /\ UNCHANGED <<read, rows, results, stream, tail_lost>>
  /\ \/ UNCHANGED <<pc, exit>>
     \/ pc \notin Left /\ pc' = "leave" /\ exit' = 1
     \/ /\ pc' = "leave" /\ exit' = 0
        /\ \/ pc = "arguments" /\ args.mode # "run"
           \/ pc = "checked"
           \/ pc = "evaluate" /\ ~Bench
           \/ pc = "write" /\ good /\ Len(written) = Len(IF Bench THEN Report ELSE Dump)
     \/ /\ UNCHANGED exit
        /\ \/ /\ pc = "arguments" /\ args.mode = "run"
              /\ IF Bench THEN pc' = "rows" /\ args.model /\ output = NoFile
                 ELSE pc' = "device"
           \/ pc = "rows" /\ read = Len(input) /\ rows # <<>> /\ pc' = "device"
           \/ pc = "device" /\ pc' \in {"failed", IF args.model THEN "metadata" ELSE "checked"}
           \/ /\ pc \in {"metadata"} \cup Copying
              /\ pc' \in {"metadata", "loaded", "failed"} \cup Copying
           \/ pc = "loaded" /\ pc' = IF Bench THEN "create" ELSE "evaluate"
           \/ pc = "evaluate" /\ ~Bench /\ pc' = "dump"

LEMMA InputStays ==
  ASSUME [Next]_vars
  PROVE  UNCHANGED toolInput
  BY DEF Next, vars, ParseArguments, ReadRow, RowsRead, OpenBackend, LoadModel, BackendChecked,
         StartFailed, Prepare, CreateOutput, WriteRun, EvaluateRow, WriteLine, CheckStream,
         EvaluateOne, OpenDump, WriteDump, DestroyStream, SomeoneCreates, Finished

LEMMA QuietSteps ==
  ASSUME [Next]_vars,
         ~ReadRow, ~CreateOutput, ~WriteRun, ~EvaluateRow, ~WriteLine, ~OpenDump, ~WriteDump,
         ~DestroyStream, ~SomeoneCreates
  PROVE  Quietly
<1>1. CASE ParseArguments
  BY <1>1 DEF ParseArguments, Quietly, Leave, Proceed, BenchMayStart, DecisionMayStart,
              progress, Left
<1>2. CASE RowsRead
  BY <1>2 DEF RowsRead, Quietly, Leave, Proceed, progress, Left
<1>3. CASE OpenBackend
  BY <1>3 DEF OpenBackend, SelectDevice, Fail, Quietly, progress
<1>4. CASE LoadModel
  BY <1>4 DEF LoadModel, LoadStep, ReadMetadata, SeekTensor, ReadChunk, CheckModel, Fail,
              Quietly, progress, Copying
<1>5. CASE BackendChecked \/ StartFailed
  BY <1>5 DEF BackendChecked, StartFailed, Quietly, Leave, progress, Left
<1>6. CASE Prepare
  BY <1>6 DEF Prepare, Quietly, Leave, Proceed, Left
<1>7. CASE CheckStream
  BY <1>7 DEF CheckStream, StreamOk, Quietly, Leave, progress, Left
<1>8. CASE EvaluateOne
  BY <1>8 DEF EvaluateOne, Quietly, Leave, Proceed, progress, Left
<1>9. CASE Finished \/ UNCHANGED vars
  BY <1>9 DEF Finished, vars, Quietly, progress
<1> QED
  BY <1>1, <1>2, <1>3, <1>4, <1>5, <1>6, <1>7, <1>8, <1>9 DEF Next

ReportInv == BenchInv /\ WrittenInv /\ StreamInv /\ ExitInv

LEMMA QuietBench ==
  ASSUME BenchInv, UNCHANGED toolInput, Quietly
  PROVE  BenchInv'
<1>1. UNCHANGED <<tool, args, input, read, rows, results>> /\ Bench' = Bench
      /\ \A n : AskedUpTo(n)' = AskedUpTo(n)
  BY WholeStays DEF Quietly, toolInput
<1>2. ASSUME Bench, pc' \notin Left, pc \notin Left
      PROVE  ReadInv' /\ ResultsInv'
  <2>1. ReadInv /\ ResultsInv
    BY <1>2 DEF BenchInv
  <2>2. pc' \notin {"arguments", "rows"} => read = Len(input) /\ Len(rows) > 0
    <3>1. rows # <<>> => Len(rows) > 0
      BY <2>1 DEF ReadInv
    <3> QED
      BY <1>2, <2>1, <3>1 DEF ReadInv, Quietly, Left, Copying
  <2>3. ReadInv'
    BY <1>1, <2>1, <2>2 DEF ReadInv, RowOn
  <2>4. /\ pc' = "evaluate" => pc = "evaluate"
        /\ pc' = "write" => pc = "write"
        /\ pc' \notin {"evaluate", "write"} => pc \notin {"evaluate", "write"}
    BY <1>2 DEF Quietly, Left, Copying
  <2>5. ResultsInv'
    BY <1>1, <2>1, <2>4 DEF ResultsInv
  <2> QED
    BY <2>3, <2>5
<1>3. pc' \notin Left => pc \notin Left
  BY DEF Quietly, Left, Copying
<1>4. /\ pc' = "rows" => Bench
      /\ Bench => pc' \notin {"checked", "dump", "dumping"}
      /\ Bench /\ pc' \notin {"arguments"} \cup Left => args.model
      /\ pc' \in {"create", "run"} => Bench
      /\ pc' = "arguments" => read = 0 /\ rows = <<>>
  BY DEF BenchInv, Quietly, Left, Copying
<1> QED
  BY <1>1, <1>2, <1>3, <1>4 DEF BenchInv
\* ---- rows and results ------------------------------------------------------------

LEMMA ReadRowBench ==
  ASSUME BenchInv, UNCHANGED toolInput, ReadRow
  PROVE  BenchInv'
<1> DEFINE line == input[read + 1]
           row == [id |-> line, line |-> read + 1]
<1>1. UNCHANGED <<tool, args, input>> /\ Bench' = Bench
      /\ \A n : AskedUpTo(n)' = AskedUpTo(n)
  BY WholeStays DEF toolInput
<1>2. Bench /\ pc = "rows" /\ ReadInv /\ ResultsInv /\ args.model
  BY DEF ReadRow, BenchInv, Left
<1>3. /\ read' = read + 1 /\ read < Len(input) /\ UNCHANGED results
      /\ pc' = "rows" \/ pc' = "leave"
      /\ pc' = "rows" => /\ line # "bad"
                         /\ rows' = IF line = "blank" THEN rows ELSE Append(rows, row)
  BY DEF ReadRow, Leave, Proceed
<1>4. ASSUME pc' = "rows" PROVE ReadInv'
  <2>1. read \in Nat /\ Len(input) \in Nat /\ input \in Seq(STRING)
    BY <1>2 DEF ReadInv, BenchInv
  <2>2. read' \in 0 .. Len(input) /\ line \in STRING
    BY <1>3, <2>1
  <2>3. /\ rows \in Seq([id : STRING, line : Nat]) /\ Len(rows) = Cardinality(AskedUpTo(read))
        /\ \A n \in 1 .. Len(rows) : \E k \in 1 .. read : RowOn(n, k)
    BY <1>2 DEF ReadInv
  <2>4. CASE line = "blank"
    <3>1. rows' = rows
      BY <1>3, <1>4, <2>4
    <3>2. Cardinality(AskedUpTo(read + 1)) = Cardinality(AskedUpTo(read))
      BY <2>1, <2>4, NextAsked
    <3>3. Len(rows') = Cardinality(AskedUpTo(read'))
      BY <1>3, <2>3, <3>1, <3>2
    <3>4. \A n \in 1 .. Len(rows') : \E k \in 1 .. read' : RowOn(n, k)'
      <4> SUFFICES ASSUME NEW n \in 1 .. Len(rows) PROVE \E k \in 1 .. read' : RowOn(n, k)'
        BY <3>1
      <4>1. PICK k \in 1 .. read : RowOn(n, k)
        BY <2>3
      <4>2. k \in 1 .. read'
        BY <1>3, <2>1
      <4>3. RowOn(n, k)'
        BY <1>1, <3>1, <4>1, <4>2 DEF RowOn
      <4> QED
        BY <4>2, <4>3
    <3> QED
      BY <1>1, <1>4, <2>2, <2>3, <3>1, <3>3, <3>4 DEF ReadInv
  <2>5. CASE line # "blank"
    <3>1. rows' = Append(rows, row)
      BY <1>3, <1>4, <2>5
    <3>2. row \in [id : STRING, line : Nat]
      BY <2>1, <2>2
    <3> HIDE DEF row
    <3>3. /\ rows' \in Seq([id : STRING, line : Nat]) /\ Len(rows') = Len(rows) + 1
          /\ rows'[Len(rows) + 1] = row /\ \A n \in 1 .. Len(rows) : rows'[n] = rows[n]
      BY <2>3, <3>1, <3>2, AppendProperties
    <3>4. Cardinality(AskedUpTo(read + 1)) = Cardinality(AskedUpTo(read)) + 1
      BY <2>1, <2>5, NextAsked
    <3>5. Len(rows') = Cardinality(AskedUpTo(read'))
      BY <1>3, <2>3, <3>3, <3>4
    <3>6. ASSUME NEW n \in 1 .. Len(rows') PROVE \E k \in 1 .. read' : RowOn(n, k)'
      <4>1. CASE n \in 1 .. Len(rows)
        <5>1. PICK k \in 1 .. read : RowOn(n, k)
          BY <2>3, <4>1
        <5>2. k \in 1 .. read'
          BY <1>3, <2>1
        <5>3. rows'[n] = rows[n]
          BY <3>3, <4>1
        <5>4. RowOn(n, k)'
          BY <1>1, <5>1, <5>2, <5>3 DEF RowOn
        <5> QED
          BY <5>2, <5>4
      <4>2. CASE n = Len(rows) + 1
        <5> PICK k \in Nat : k = read + 1
          BY <2>1
        <5>1. k \in 1 .. read' /\ Cardinality(AskedUpTo(k)) = n
          BY <1>3, <2>1, <2>3, <3>4, <4>2
        <5>2. rows'[n] = [id |-> input[k], line |-> k] /\ input[k] # "blank"
          BY <2>5, <3>3, <4>2 DEF row
        <5>3. RowOn(n, k)'
          BY <1>1, <5>1, <5>2 DEF RowOn
        <5> QED
          BY <5>1, <5>3
      <4>3. Len(rows) \in Nat
        BY <2>3
      <4> QED
        BY <3>3, <4>1, <4>2, <4>3
    <3> QED
      BY <1>1, <1>4, <2>2, <3>3, <3>5, <3>6 DEF ReadInv
  <2> QED
    BY <2>4, <2>5
<1>5. ASSUME pc' = "rows" PROVE ResultsInv'
  <2>1. results = <<>>
    BY <1>2 DEF ResultsInv
  <2>2. results' = <<>> /\ Len(rows') \in Nat
    <3>1. Len(rows)' \in Nat
      BY <1>4, <1>5 DEF ReadInv
    <3> QED
      BY <1>3, <2>1, <3>1
  <2> QED
    BY <1>5, <2>2 DEF ResultsInv
<1> QED
  BY <1>1, <1>2, <1>3, <1>4, <1>5 DEF BenchInv, Left

LEMMA EvaluateRowBench ==
  ASSUME BenchInv, UNCHANGED toolInput, EvaluateRow
  PROVE  BenchInv'
<1> DEFINE k == Len(results) + 1
<1>1. UNCHANGED <<tool, args, input, read, rows>> /\ Bench' = Bench
      /\ \A n : AskedUpTo(n)' = AskedUpTo(n)
  BY WholeStays DEF toolInput, EvaluateRow
<1>2. Bench /\ pc = "evaluate" /\ ReadInv /\ ResultsInv /\ args.model
  BY DEF EvaluateRow, BenchInv, Left
<1>3. \/ pc' = "leave"
      \/ /\ results' = Append(results, rows[k].id)
         /\ pc' = IF Len(results') = Len(rows) THEN "write" ELSE "evaluate"
  BY DEF EvaluateRow, Leave, Proceed
<1>4. ASSUME pc' # "leave" PROVE ReadInv' /\ ResultsInv'
  <2>1. ReadInv'
    BY <1>1, <1>2, <1>3, <1>4 DEF ReadInv, RowOn
  <2>2. /\ results \in Seq(STRING) /\ rows \in Seq([id : STRING, line : Nat])
        /\ Len(results) < Len(rows) /\ \A i \in 1 .. Len(results) : results[i] = rows[i].id
    BY <1>2 DEF ReadInv, ResultsInv
  <2>3. k \in 1 .. Len(rows) /\ rows[k].id \in STRING
    <3>1. k \in 1 .. Len(rows)
      BY <2>2
    <3>2. rows[k] \in [id : STRING, line : Nat]
      BY <2>2, <3>1, ElementOfSeq
    <3> QED
      BY <3>1, <3>2
  <2>4. /\ results' \in Seq(STRING) /\ Len(results') = k
        /\ results'[k] = rows[k].id /\ \A i \in 1 .. Len(results) : results'[i] = results[i]
    <3> DEFINE id == rows[k].id
    <3>1. results' = Append(results, id) /\ id \in STRING
      BY <1>3, <1>4, <2>3
    <3> HIDE DEF id
    <3>2. /\ results' \in Seq(STRING) /\ Len(results') = Len(results) + 1
          /\ results'[Len(results) + 1] = id
          /\ \A i \in 1 .. Len(results) : results'[i] = results[i]
      BY <2>2, <3>1, AppendProperties
    <3> QED
      BY <3>2 DEF id
  <2>5. \A i \in 1 .. k : results'[i] = rows[i].id
    <3> SUFFICES ASSUME NEW i \in 1 .. k PROVE results'[i] = rows[i].id
      OBVIOUS
    <3>1. i \in 1 .. Len(results) \/ i = k
      BY <2>2
    <3> QED
      BY <2>2, <2>4, <3>1
  <2>6. k <= Len(rows) /\ k \in Nat /\ Len(rows) \in Nat
    BY <2>2, <2>3
  <2>7. CASE k = Len(rows)
    <3>1. pc' = "write"
      BY <1>3, <1>4, <2>4, <2>7
    <3> QED
      BY <1>1, <2>1, <2>4, <2>5, <2>6, <2>7, <3>1 DEF ResultsInv
  <2>8. CASE k # Len(rows)
    <3>1. pc' = "evaluate"
      BY <1>3, <1>4, <2>4, <2>8
    <3> QED
      BY <1>1, <2>1, <2>4, <2>5, <2>6, <2>8, <3>1 DEF ResultsInv
  <2> QED
    BY <2>7, <2>8
<1>5. pc' \in {"leave", "write", "evaluate"}
  BY <1>3
<1> QED
  BY <1>1, <1>2, <1>4, <1>5 DEF BenchInv, Left

\* The steps that open the file, write to it and close it.
Writing ==
  CreateOutput \/ WriteRun \/ WriteLine \/ OpenDump \/ WriteDump \/ DestroyStream
    \/ SomeoneCreates

LEMMA WritingBench ==
  ASSUME BenchInv, UNCHANGED toolInput, Writing
  PROVE  BenchInv'
<1>1. UNCHANGED <<tool, args, input>> /\ Bench' = Bench
      /\ \A n : AskedUpTo(n)' = AskedUpTo(n)
  BY WholeStays DEF toolInput
<1>2. UNCHANGED <<read, rows, results>>
  BY DEF Writing, CreateOutput, WriteRun, WriteLine, OpenDump, WriteDump, DestroyStream,
         SomeoneCreates, progress
<1>3. \/ pc' = pc
      \/ pc' \in Left
      \/ pc = "create" /\ pc' = "run"
      \/ pc = "run" /\ pc' = "evaluate"
      \/ pc = "dump" /\ pc' = "dumping"
      \/ pc = "dumping" /\ pc' = "write"
  BY DEF Writing, CreateOutput, WriteRun, WriteLine, OpenDump, WriteDump, DestroyStream,
         SomeoneCreates, OpenOutput, Leave, Proceed, Left
<1>4. ASSUME Bench, pc' \notin Left
      PROVE  ReadInv' /\ ResultsInv'
  <2>1. pc \notin Left
    <3>1. CASE pc \in Left
      BY <1>3, <1>4, <3>1 DEF Left
    <3> QED
      BY <3>1
  <2>2. ReadInv /\ ResultsInv
    BY <1>4, <2>1 DEF BenchInv
  <2>3. pc' \in {"arguments", "rows"} <=> pc \in {"arguments", "rows"}
    BY <1>3, <1>4, <2>1
  <2>4. ReadInv'
    BY <1>1, <1>2, <2>2, <2>3 DEF ReadInv, RowOn
  <2>5. pc # "dump" /\ pc # "dumping"
    BY <1>4 DEF BenchInv
  <2>6. \/ pc' = pc
        \/ pc = "create" /\ pc' = "run"
        \/ pc = "run" /\ pc' = "evaluate"
    BY <1>3, <1>4, <2>5
  <2>7. pc = "run" => results = <<>> /\ Len(rows) > 0
    BY <2>2 DEF ReadInv, ResultsInv
  <2>8. ResultsInv'
    BY <1>1, <1>2, <2>2, <2>6, <2>7 DEF ResultsInv
  <2> QED
    BY <2>4, <2>8
<1>5. /\ pc' = "rows" => Bench
      /\ Bench => pc' \notin {"checked", "dump", "dumping"}
      /\ Bench /\ pc' \notin {"arguments"} \cup Left => args.model
      /\ pc' \in {"create", "run"} => Bench
      /\ pc' = "arguments" => read = 0 /\ rows = <<>>
  BY <1>3 DEF BenchInv, Left
<1> QED
  BY <1>1, <1>2, <1>4, <1>5 DEF BenchInv
\* ---- the stream -------------------------------------------------------------------

\* Stages change, lines do not.
Silent == UNCHANGED <<stream, tail_lost>> /\ (Quietly \/ ReadRow \/ EvaluateRow)

LEMMA SilentWritten ==
  ASSUME BenchInv, WrittenInv, UNCHANGED toolInput, Silent
  PROVE  WrittenInv'
<1>1. UNCHANGED <<tool, written, output>> /\ Bench' = Bench /\ Whole' = Whole
      /\ WholeLines' = WholeLines
  BY WholeStays DEF Silent, stream, toolInput
<1>2. /\ written' \in Seq(WholeLines') /\ Len(written') <= Len(Whole')
      /\ \A i \in 1 .. Len(written') : written'[i] = Whole'[i]
  BY <1>1 DEF WrittenInv
<1>3. \/ pc' = pc \/ pc' \in Left
      \/ pc \notin Opened \cup {"evaluate", "write"} \cup Left
         /\ pc' \notin Opened \cup {"evaluate", "write"} \cup Left
      \/ ~Bench /\ pc = "loaded" /\ pc' = "evaluate"
      \/ ~Bench /\ pc = "evaluate" /\ pc' = "dump"
      \/ Bench /\ pc = "evaluate" /\ pc' = "write"
  <2>1. CASE Quietly
    BY <2>1 DEF Quietly, Opened, Left, Copying
  <2>2. CASE ReadRow
    BY <2>2 DEF ReadRow, Leave, Proceed, Left
  <2>3. CASE EvaluateRow
    BY <2>3 DEF EvaluateRow, Leave, Proceed, Left
  <2> QED
    BY <2>1, <2>2, <2>3 DEF Silent
<1>4. Bench /\ pc = "evaluate" => output.owner = tool /\ Len(written) = 1
  BY DEF WrittenInv
<1> QED
  BY <1>1, <1>2, <1>3, <1>4 DEF WrittenInv, Opened, Left

LEMMA SilentStream ==
  ASSUME StreamInv, UNCHANGED toolInput, Silent
  PROVE  StreamInv'
<1>1. UNCHANGED <<tool, stream, tail_lost>> /\ WholeLines' = WholeLines
  BY WholeStays DEF Silent, toolInput
<1>2. pc' = "gone" <=> pc = "gone"
  <2>1. CASE Quietly
    BY <2>1 DEF Quietly, Left, Copying
  <2>2. CASE ReadRow \/ EvaluateRow
    BY <2>2 DEF ReadRow, EvaluateRow, Leave, Proceed
  <2> QED
    BY <2>1, <2>2 DEF Silent
<1> QED
  BY <1>1, <1>2 DEF StreamInv, stream

\* One line more, the next of the report, into the buffer, into the file or nowhere.
LEMMA PutStep ==
  ASSUME input \in Seq(STRING), WrittenInv, StreamInv, UNCHANGED toolInput,
         output.owner = tool, pc # "gone", NEW line,
         Len(written) < Len(Whole), line = Whole[Len(written) + 1], Put(line)
  PROVE  /\ written' \in Seq(WholeLines) /\ Len(written') = Len(written) + 1
         /\ \A i \in 1 .. Len(written') : written'[i] = Whole[i]
         /\ output' \in [owner : {"nobody", "other", tool}, lines : Seq(WholeLines)]
         /\ output'.owner = tool
         /\ buffer' \in Seq(WholeLines)
         /\ good' => good /\ written' = output'.lines \o buffer'
<1> DEFINE W == WholeLines
           L == output.lines
           n == Len(written)
<1>1. Len(Whole) \in Nat /\ Whole \in Seq(W)
  BY WholeFacts
<1>2. /\ written \in Seq(W) /\ n \in Nat /\ \A i \in 1 .. n : written[i] = Whole[i]
      /\ buffer \in Seq(W) /\ L \in Seq(W)
  BY DEF WrittenInv, StreamInv
<1>3. line \in W
  <2>1. n + 1 \in 1 .. Len(Whole)
    BY <1>1, <1>2
  <2> QED
    BY <2>1 DEF WholeLines
<1>4. written' = Append(written, line)
  BY DEF Put
<1>5. good => written = L \o buffer
  BY DEF StreamInv
<1>6. output \in [owner : {"nobody", "other", tool}, lines : Seq(W)]
  BY DEF StreamInv
<1> HIDE DEF W, n
<1>7. /\ written' \in Seq(W) /\ Len(written') = n + 1
      /\ written'[n + 1] = line /\ \A i \in 1 .. n : written'[i] = written[i]
  BY <1>2, <1>3, <1>4, AppendProperties DEF n
<1>8. \A i \in 1 .. n + 1 : written'[i] = Whole[i]
  <2> SUFFICES ASSUME NEW i \in 1 .. n + 1 PROVE written'[i] = Whole[i]
    OBVIOUS
  <2>1. i \in 1 .. n \/ i = n + 1
    BY <1>2
  <2> QED
    BY <1>2, <1>7, <2>1 DEF n
<1>9. Append(buffer, line) \in Seq(W) /\ L \o Append(buffer, line) \in Seq(W)
  BY <1>2, <1>3, AppendProperties, ConcatProperties
<1>10. Append(L \o buffer, line) = L \o Append(buffer, line)
  <2>1. L \o buffer \in Seq(W) /\ <<line>> \in Seq(W)
    BY <1>2, <1>3, ConcatProperties
  <2>2. Append(L \o buffer, line) = (L \o buffer) \o <<line>>
    BY <1>3, <2>1, AppendIsConcat
  <2>3. (L \o buffer) \o <<line>> = L \o (buffer \o <<line>>)
    <3>1. L \in Seq(W) /\ buffer \in Seq(W) /\ <<line>> \in Seq(W)
      BY <1>2, <2>1
    <3> HIDE DEF L
    <3> QED
      BY ONLY <3>1, ConcatAssociative
  <2>4. Append(buffer, line) = buffer \o <<line>>
    BY <1>2, <1>3, AppendIsConcat
  <2> QED
    BY <2>2, <2>3, <2>4
<1>11. CASE good /\ buffer' = Append(buffer, line) /\ UNCHANGED <<output, good>>
  <2>1. written' = output'.lines \o buffer'
    BY <1>4, <1>5, <1>10, <1>11
  <2>2. buffer' \in Seq(W)
    BY <1>9, <1>11
  <2> QED
    BY <1>6, <1>7, <1>8, <1>11, <2>1, <2>2 DEF W, n
<1>12. CASE /\ good /\ UNCHANGED good /\ buffer' = <<>>
            /\ output' = [output EXCEPT !.lines = @ \o Append(buffer, line)]
  <2>1. output'.lines = L \o Append(buffer, line) /\ output'.owner = tool
    BY <1>6, <1>12
  <2>2. output' \in [owner : {"nobody", "other", tool}, lines : Seq(W)]
    BY <1>6, <1>9, <1>12
  <2>3. output'.lines \o buffer' = output'.lines /\ buffer' \in Seq(W)
    BY <1>9, <1>12, <2>1, ConcatEmptySeq
  <2>4. written' = output'.lines \o buffer'
    BY <1>4, <1>5, <1>10, <1>12, <2>1, <2>3
  <2> QED
    BY <1>7, <1>8, <1>12, <2>1, <2>2, <2>3, <2>4 DEF W, n
<1>13. CASE good' = FALSE /\ buffer' = <<>> /\ UNCHANGED output
  <2>1. buffer' \in Seq(W)
    BY <1>13
  <2> QED
    BY <1>6, <1>7, <1>8, <1>13, <2>1 DEF W, n
<1> QED
  BY <1>11, <1>12, <1>13 DEF Put
\* What each of the three writing steps puts is the next line of the whole report.
LEMMA NextLine ==
  ASSUME BenchInv, WrittenInv, WriteRun \/ WriteLine \/ WriteDump
  PROVE  /\ output.owner = tool
         /\ \E line : /\ Put(line) /\ line = Whole[Len(written) + 1]
                      /\ Len(written) < Len(Whole)
<1>1. input \in Seq(STRING)
  BY DEF BenchInv
<1>2. CASE WriteRun
  <2>1. pc = "run" /\ Bench /\ Put(RunLine)
    BY <1>2 DEF WriteRun, BenchInv
  <2>2. ReadInv /\ read = Len(input)
    BY <2>1 DEF BenchInv, ReadInv, Left
  <2>3. rows = Asked
    BY <1>1, <2>2, RowsAreAsked
  <2>4. RunLine = Whole[1] /\ Len(Whole) >= 2 /\ Len(Whole) \in Nat
    BY <1>1, <2>1, <2>3, WholeFacts DEF RunLine
  <2>5. written = <<>> /\ output.owner = tool /\ Len(written) = 0
    BY <2>1 DEF WrittenInv, Opened
  <2>6. Len(written) < Len(Whole) /\ RunLine = Whole[Len(written) + 1]
    BY <2>4, <2>5
  <2> QED
    BY <2>1, <2>5, <2>6
<1>3. CASE WriteLine
  <2>1. pc = "write" /\ Bench /\ Len(written) < Len(Report) /\ Put(Report[Len(written) + 1])
    BY <1>3 DEF WriteLine
  <2>2. ReadInv /\ ResultsInv /\ read = Len(input)
    BY <2>1 DEF BenchInv, ReadInv, Left
  <2>3. rows = Asked
    BY <1>1, <2>2, RowsAreAsked
  <2>4. /\ results \in Seq(STRING) /\ Len(results) = Len(rows)
        /\ \A k \in 1 .. Len(results) : results[k] = rows[k].id
        /\ DOMAIN rows = 1 .. Len(rows)
    BY <2>1, <2>2 DEF ReadInv, ResultsInv
  <2>5. Report = Whole
    BY <2>1, <2>3, <2>4, ReportIsComplete
  <2>6. output.owner = tool
    BY <2>1 DEF WrittenInv, Opened
  <2> QED
    BY <2>1, <2>5, <2>6
<1>4. CASE WriteDump
  <2>1. pc = "dumping" /\ ~Bench /\ Put(Dump[1])
    BY <1>4 DEF WriteDump, BenchInv
  <2>2. written = <<>> /\ output.owner = tool /\ Len(written) = 0
    BY <2>1 DEF WrittenInv, Opened
  <2>3. Len(Whole) = 1 /\ Whole = Dump
    BY <1>1, <2>1, WholeFacts
  <2>4. Len(written) < Len(Whole) /\ Dump[1] = Whole[Len(written) + 1]
    BY <2>2, <2>3
  <2> QED
    BY <2>1, <2>2, <2>4
<1> QED
  BY <1>2, <1>3, <1>4

LEMMA PutKeeps ==
  ASSUME BenchInv, WrittenInv, StreamInv, UNCHANGED toolInput, WriteRun \/ WriteLine \/ WriteDump
  PROVE  WrittenInv' /\ StreamInv'
<1>1. tool' = tool /\ Bench' = Bench /\ Whole' = Whole /\ WholeLines' = WholeLines
  BY WholeStays DEF toolInput
<1>2. output.owner = tool
  BY NextLine
<1>3. PICK line : /\ Put(line) /\ line = Whole[Len(written) + 1]
                  /\ Len(written) < Len(Whole)
  BY NextLine
<1>4. input \in Seq(STRING) /\ pc # "gone"
  BY DEF BenchInv, WriteRun, WriteLine, WriteDump
<1>5. /\ written' \in Seq(WholeLines) /\ Len(written') = Len(written) + 1
      /\ \A i \in 1 .. Len(written') : written'[i] = Whole[i]
      /\ output' \in [owner : {"nobody", "other", tool}, lines : Seq(WholeLines)]
      /\ output'.owner = tool
      /\ buffer' \in Seq(WholeLines)
      /\ good' => good /\ written' = output'.lines \o buffer'
  BY <1>2, <1>3, <1>4, PutStep
<1>6. Len(written) \in Nat /\ Len(Whole) \in Nat
  BY <1>4, WholeFacts DEF WrittenInv
<1>7. Len(written') <= Len(Whole) /\ Len(written') >= 1
  BY <1>3, <1>5, <1>6
<1>8. \/ pc = "run" /\ pc' = "evaluate" /\ Bench
      \/ pc = "write" /\ pc' = "write"
      \/ pc = "dumping" /\ pc' = "write"
  BY DEF BenchInv, WriteRun, WriteLine, WriteDump, Proceed
<1>9. pc = "run" => Len(written') = 1
  <2>1. pc = "run" => Len(written) = 0
    BY DEF WrittenInv
  <2> QED
    BY <1>5, <2>1
<1>10. WrittenInv'
  BY <1>1, <1>5, <1>7, <1>8, <1>9 DEF WrittenInv, Opened, Left
<1>11. StreamInv'
  BY <1>1, <1>5, <1>8 DEF StreamInv
<1> QED
  BY <1>10, <1>11

LEMMA OpenKeeps ==
  ASSUME BenchInv, WrittenInv, StreamInv, UNCHANGED toolInput, CreateOutput \/ OpenDump
  PROVE  WrittenInv' /\ StreamInv'
<1>1. tool' = tool /\ Bench' = Bench /\ Whole' = Whole /\ WholeLines' = WholeLines
  BY WholeStays DEF toolInput
<1>2. pc \in {"create", "dump"} /\ output.owner # tool /\ UNCHANGED <<written, buffer, good>>
  BY DEF CreateOutput, OpenDump, WrittenInv, Opened, Left
<1>3. written = <<>> /\ buffer = <<>>
  BY <1>2 DEF StreamInv
<1>4. \/ output' = [owner |-> tool, lines |-> <<>>] /\ pc' \in {"run", "dumping"}
      \/ UNCHANGED output /\ pc' = "leave"
  BY DEF CreateOutput, OpenDump, OpenOutput, Proceed, Leave
<1>5. /\ written' \in Seq(WholeLines) /\ Len(written') <= Len(Whole)
      /\ \A i \in 1 .. Len(written') : written'[i] = Whole[i]
  BY <1>2 DEF WrittenInv
<1>6. WrittenInv'
  BY <1>1, <1>2, <1>3, <1>4, <1>5 DEF WrittenInv, Opened, Left
<1>7. CASE UNCHANGED output /\ pc' = "leave"
  BY <1>1, <1>2, <1>3, <1>6, <1>7 DEF StreamInv
<1>8. CASE output' = [owner |-> tool, lines |-> <<>>] /\ pc' \in {"run", "dumping"}
  <2>1. output' \in [owner : {"nobody", "other", tool}, lines : Seq(WholeLines)]
        /\ output'.owner = tool /\ output'.lines = <<>> /\ buffer' \in Seq(WholeLines)
    BY <1>2, <1>3, <1>8
  <2>2. written' = output'.lines \o buffer'
    BY <1>2, <1>3, <2>1
  <2> QED
    <3>1. pc' # "gone"
      BY <1>8
    <3> QED
      BY ONLY <1>1, <1>6, <2>1, <2>2, <3>1 DEF StreamInv
<1> QED
  BY <1>4, <1>6, <1>7, <1>8

\* Somebody else's file is no output of the program.
LEMMA OthersKeep ==
  ASSUME BenchInv, WrittenInv, StreamInv, tool \in {"branchscore", "bench"},
         UNCHANGED toolInput, SomeoneCreates
  PROVE  WrittenInv' /\ StreamInv'
<1>1. tool' = tool /\ Bench' = Bench /\ Whole' = Whole /\ WholeLines' = WholeLines
  BY WholeStays DEF toolInput
<1>2. /\ output = NoFile /\ output' = Foreign
      /\ UNCHANGED <<pc, written, buffer, good, tail_lost>>
  BY DEF SomeoneCreates
<1>3. output.owner # tool /\ output'.owner # tool
      /\ output' \in [owner : {"nobody", "other", tool}, lines : Seq(WholeLines)]
  BY <1>2 DEF NoFile, Foreign
<1> QED
  BY <1>1, <1>2, <1>3 DEF WrittenInv, StreamInv

\* The last flush appends a beginning of the buffer.
LEMMA Flushed ==
  ASSUME NEW W, NEW s \in Seq(W), NEW t \in Seq(W), NEW n \in 0 .. Len(t)
  PROVE  /\ s \o SubSeq(t, 1, n) \in Seq(W)
         /\ IsPrefix(s \o SubSeq(t, 1, n), s \o t)
         /\ n = Len(t) => s \o SubSeq(t, 1, n) = s \o t
<1> DEFINE u == SubSeq(t, 1, n)
           k == Len(s) + n
<1>1. Len(s) \in Nat /\ Len(t) \in Nat /\ n \in Nat
  OBVIOUS
<1>2. u \in Seq(W) /\ Len(u) = n /\ \A i \in 1 .. n : u[i] = t[i]
  BY <1>1, SubSeqProperties
<1> HIDE DEF u
<1>3. /\ s \o u \in Seq(W) /\ Len(s \o u) = k
      /\ \A i \in 1 .. k : (s \o u)[i] = IF i <= Len(s) THEN s[i] ELSE u[i - Len(s)]
  BY <1>2, ConcatProperties
<1>4. /\ s \o t \in Seq(W) /\ Len(s \o t) = Len(s) + Len(t)
      /\ \A i \in 1 .. Len(s) + Len(t) :
           (s \o t)[i] = IF i <= Len(s) THEN s[i] ELSE t[i - Len(s)]
  BY ConcatProperties
<1> DEFINE p == s \o u
           q == s \o t
<1>5. ASSUME NEW i \in 1 .. k PROVE p[i] = q[i]
  <2>1. i \in 1 .. Len(s) + Len(t)
    BY <1>1
  <2>2. ~(i <= Len(s)) => u[i - Len(s)] = t[i - Len(s)]
    BY <1>1, <1>2
  <2> QED
    BY <1>3, <1>4, <2>1, <2>2
<1> HIDE DEF p, q
<1>6. p \in Seq(W) /\ q \in Seq(W) /\ Len(p) = k /\ Len(p) <= Len(q) /\ k \in Nat
      /\ Len(q) \in Nat
  BY <1>1, <1>3, <1>4 DEF p, q
<1>7. SubSeq(p, 1, Len(p)) = SubSeq(q, 1, Len(p))
  <2> DEFINE x == SubSeq(p, 1, k)
             y == SubSeq(q, 1, k)
  <2>1. /\ x \in Seq(W) /\ Len(x) = k /\ \A i \in 1 .. k : x[i] = p[i]
        /\ y \in Seq(W) /\ Len(y) = k /\ \A i \in 1 .. k : y[i] = q[i]
    BY <1>6, SubSeqProperties
  <2> HIDE DEF x, y
  <2>2. \A i \in 1 .. Len(x) : x[i] = y[i]
    BY <1>5, <2>1
  <2>3. x = y
    BY <2>1, <2>2, SeqEqual
  <2> QED
    BY <1>6, <2>3 DEF x, y
<1>8. IsPrefix(p, q)
  BY <1>6, <1>7 DEF IsPrefix
<1>9. ASSUME n = Len(t) PROVE p = q
  <2>1. Len(p) = Len(q)
    BY <1>4, <1>6, <1>9 DEF q
  <2>2. \A i \in 1 .. Len(p) : p[i] = q[i]
    BY <1>5, <1>6
  <2> QED
    BY <1>6, <2>1, <2>2, SeqEqual
<1> QED
  BY <1>3, <1>8, <1>9 DEF p, q, u

LEMMA DestroyKeeps ==
  ASSUME WrittenInv, StreamInv, UNCHANGED toolInput, DestroyStream
  PROVE  WrittenInv' /\ StreamInv'
<1>1. tool' = tool /\ Bench' = Bench /\ Whole' = Whole /\ WholeLines' = WholeLines
  BY WholeStays DEF toolInput
<1>2. /\ pc = "leave" /\ pc' = "gone" /\ UNCHANGED <<written, good>> /\ buffer' = <<>>
  BY DEF DestroyStream
<1>3. PICK kept \in 0 .. Len(buffer) :
        /\ output' = [output EXCEPT !.lines = @ \o SubSeq(buffer, 1, kept)]
        /\ tail_lost' = (kept < Len(buffer))
  BY DEF DestroyStream
<1> DEFINE L == output.lines
           M == L \o SubSeq(buffer, 1, kept)
<1>4. /\ output \in [owner : {"nobody", "other", tool}, lines : Seq(WholeLines)]
      /\ L \in Seq(WholeLines) /\ buffer \in Seq(WholeLines)
  BY DEF StreamInv
<1>5. /\ M \in Seq(WholeLines)
      /\ IsPrefix(M, L \o buffer)
      /\ kept = Len(buffer) => M = L \o buffer
  <2> HIDE DEF L
  <2> QED
    BY <1>4, Flushed
<1>6. /\ output'.owner = output.owner /\ output'.lines = M
      /\ output' \in [owner : {"nobody", "other", tool}, lines : Seq(WholeLines)]
  <2>1. output' = [output EXCEPT !.lines = M]
    BY <1>3, <1>4
  <2> HIDE DEF M
  <2> QED
    BY <1>4, <1>5, <2>1
<1>7. Len(buffer) \in Nat
  BY <1>4
<1>8. ASSUME output.owner = tool, good
      PROVE  IsPrefix(output'.lines, written') /\ (~tail_lost' => output'.lines = written')
  <2>1. written = L \o buffer
    BY <1>2, <1>8 DEF StreamInv
  <2>2. ~tail_lost' => kept = Len(buffer)
    <3>1. ~tail_lost' => ~(kept < Len(buffer))
      BY <1>3
    <3> QED
      BY <1>7, <3>1
  <2> HIDE DEF M, L
  <2> QED
    BY <1>2, <1>5, <1>6, <2>1, <2>2
<1> HIDE DEF M, L
<1>9. WrittenInv'
  BY <1>1, <1>2 DEF WrittenInv, Opened, Left
<1>10. output.owner # tool => written' = <<>>
  BY <1>2 DEF StreamInv
<1>11. buffer' \in Seq(WholeLines)
  BY <1>2
<1>12. StreamInv'
  BY <1>1, <1>2, <1>6, <1>8, <1>10, <1>11 DEF StreamInv
<1> QED
  BY <1>9, <1>12
\* ---- the exit status --------------------------------------------------------------

LEMMA QuietExit ==
  ASSUME ReportInv, UNCHANGED toolInput, Quietly
  PROVE  ExitInv'
<1>1. UNCHANGED <<tool, args, input, found, written, output, buffer, good>> /\ Bench' = Bench
      /\ Whole' = Whole
  BY WholeStays DEF toolInput, Quietly, stream
<1>2. /\ tool \in {"branchscore", "bench"} /\ found \in {NoFile, Foreign}
      /\ pc \notin Left => exit = Running
      /\ pc \notin {"arguments"} \cup Left => args.mode = "run"
      /\ Bench /\ found # NoFile =>
           output = found /\ buffer = <<>> /\ pc \in {"arguments"} \cup Left
  BY DEF ReportInv, ExitInv
<1>3. CASE UNCHANGED <<pc, exit>>
  BY <1>1, <1>3 DEF ReportInv, ExitInv
<1>4. CASE pc \notin Left /\ pc' = "leave" /\ exit' = 1
  BY <1>1, <1>2, <1>4 DEF ExitInv, Left, Running
<1>5. CASE /\ pc' = "leave" /\ exit' = 0
           /\ \/ pc = "arguments" /\ args.mode # "run"
              \/ pc = "checked"
              \/ pc = "evaluate" /\ ~Bench
              \/ pc = "write" /\ good /\ Len(written) = Len(IF Bench THEN Report ELSE Dump)
  <2>1. pc # "write" => output.owner # tool
    BY <1>5 DEF ReportInv, WrittenInv, Opened, Left
  <2>2. pc # "write" => written = <<>>
    BY <2>1 DEF ReportInv, StreamInv
  <2>3. Bench /\ args.mode = "run" => pc = "write"
    BY <1>5 DEF ReportInv, BenchInv
  <2>4. ASSUME pc = "write" PROVE good /\ Len(written) = Len(Whole)
    <3>1. good /\ Len(written) = Len(IF Bench THEN Report ELSE Dump)
      BY <1>5, <2>4
    <3>2. input \in Seq(STRING)
      BY DEF ReportInv, BenchInv
    <3>3. CASE Bench
      <4>1. ReadInv /\ ResultsInv /\ read = Len(input)
        BY <2>4, <3>3 DEF ReportInv, BenchInv, ReadInv, Left
      <4>2. rows = Asked
        BY <3>2, <4>1, RowsAreAsked
      <4>3. /\ results \in Seq(STRING) /\ Len(results) = Len(rows)
            /\ \A k \in 1 .. Len(results) : results[k] = rows[k].id
            /\ DOMAIN rows = 1 .. Len(rows)
        BY <2>4, <4>1 DEF ReadInv, ResultsInv
      <4>4. Report = Whole
        BY <3>3, <4>2, <4>3, ReportIsComplete
      <4> QED
        BY <3>1, <3>3, <4>4
    <3>4. CASE ~Bench
      BY <3>1, <3>2, <3>4, WholeFacts
    <3> QED
      BY <3>3, <3>4
  <2>5. Bench /\ found # NoFile => pc = "arguments"
    BY <1>2, <1>5 DEF Left
  <2> QED
    BY <1>1, <1>2, <1>5, <2>2, <2>3, <2>4, <2>5 DEF ExitInv, Left
<1>6. CASE UNCHANGED exit /\ pc' # "leave" /\ pc' # pc
  <2>1. pc \notin Left /\ pc' \notin {"arguments"} \cup Left
        /\ (pc = "arguments" => args.mode = "run" /\ (Bench => output = NoFile))
    BY <1>6 DEF Quietly, Left, Copying
  <2>2. args.mode = "run" /\ ~(Bench /\ found # NoFile)
    BY <1>2, <2>1
  <2> QED
    BY <1>1, <1>2, <1>6, <2>1, <2>2 DEF ExitInv
<1> QED
  BY <1>3, <1>4, <1>5, <1>6 DEF Quietly, Left, Copying

LEMMA OtherExit ==
  ASSUME ReportInv, UNCHANGED toolInput, ReadRow \/ EvaluateRow \/ (Writing /\ ~DestroyStream)
  PROVE  ExitInv'
<1>1. UNCHANGED <<tool, args, input, found>> /\ Bench' = Bench /\ Whole' = Whole
  BY WholeStays DEF toolInput
<1>2. /\ tool \in {"branchscore", "bench"} /\ found \in {NoFile, Foreign}
      /\ pc \notin Left => exit = Running
      /\ pc \notin {"arguments"} \cup Left => args.mode = "run"
      /\ Bench /\ found # NoFile =>
           output = found /\ buffer = <<>> /\ pc \in {"arguments"} \cup Left
  BY DEF ReportInv, ExitInv
<1>3. CASE SomeoneCreates
  <2>1. UNCHANGED <<pc, exit, written, good>> /\ output = NoFile
    BY <1>3 DEF SomeoneCreates
  <2>2. ~(Bench /\ found # NoFile)
    BY <1>2, <2>1
  <2> QED
    BY <1>1, <1>2, <2>1, <2>2 DEF ReportInv, ExitInv
<1>4. CASE ~SomeoneCreates
  <2>1. pc \in {"rows", "evaluate", "create", "run", "write", "dump", "dumping"}
    BY <1>4 DEF ReadRow, EvaluateRow, Writing, CreateOutput, WriteRun, WriteLine, OpenDump,
                WriteDump
  <2>2. \/ pc' = "leave" /\ exit' = 1
        \/ /\ pc' \in {"rows", "evaluate", "create", "run", "write", "dump", "dumping"}
           /\ UNCHANGED exit
    BY <1>4 DEF ReadRow, EvaluateRow, Writing, CreateOutput, WriteRun, WriteLine, OpenDump,
                WriteDump, OpenOutput, Leave, Proceed
  <2>3. pc \notin {"arguments"} \cup Left
    BY <2>1 DEF Left
  <2>4. args.mode = "run" /\ ~(Bench /\ found # NoFile) /\ exit = Running
    BY <1>2, <2>3
  <2> QED
    BY <1>1, <1>2, <2>2, <2>4 DEF ExitInv, Left, Running
<1> QED
  BY <1>3, <1>4

LEMMA DestroyExit ==
  ASSUME ReportInv, UNCHANGED toolInput, DestroyStream
  PROVE  ExitInv'
<1>1. UNCHANGED <<tool, args, input, found>> /\ Bench' = Bench /\ Whole' = Whole
  BY WholeStays DEF toolInput
<1>2. pc = "leave" /\ pc' = "gone" /\ UNCHANGED <<written, good, exit>> /\ buffer' = <<>>
  BY DEF DestroyStream
<1>3. ASSUME Bench, found # NoFile PROVE output' = found
  <2>1. output = found /\ buffer = <<>> /\ found = Foreign
    BY <1>3 DEF ReportInv, ExitInv
  <2>2. PICK kept \in 0 .. Len(buffer) :
          output' = [output EXCEPT !.lines = @ \o SubSeq(buffer, 1, kept)]
    BY DEF DestroyStream
  <2>3. output.lines = <<>> /\ kept = 0
    BY <2>1, <2>2 DEF Foreign
  <2>4. output.lines \o SubSeq(buffer, 1, kept) = <<>>
    BY <2>1, <2>3
  <2>5. output' = [output EXCEPT !.lines = <<>>]
    BY <2>2, <2>4
  <2> QED
    BY <2>1, <2>5 DEF Foreign
<1> QED
  BY <1>1, <1>2, <1>3 DEF ReportInv, ExitInv, Left

LEMMA ReportInit == Init => ReportInv
<1> SUFFICES ASSUME Init PROVE ReportInv
  OBVIOUS
<1>1. /\ pc = "arguments" /\ read = 0 /\ rows = <<>> /\ results = <<>> /\ written = <<>>
      /\ buffer = <<>> /\ good = TRUE /\ exit = Running /\ tool \in {"branchscore", "bench"}
      /\ found \in {NoFile, Foreign} /\ output = found
  BY DEF Init
<1>2. input \in Seq(STRING)
  <2>1. <<>> \in Seq(STRING)
    OBVIOUS
  <2> QED
    BY <2>1, InputsAssumption DEF Init
<1>3. ReadInv
  <2>1. rows \in Seq([id : STRING, line : Nat]) /\ Len(rows) = 0 /\ Len(input) \in Nat
    BY <1>1, <1>2
  <2>2. Cardinality(AskedUpTo(read)) = 0
    BY <1>1, NothingAsked
  <2> QED
    BY <1>1, <2>1, <2>2 DEF ReadInv
<1>4. ResultsInv
  <2>1. results \in Seq(STRING) /\ Len(results) = 0 /\ Len(rows) = 0
    BY <1>1
  <2> QED
    BY <1>1, <2>1 DEF ResultsInv
<1>5. BenchInv
  BY <1>1, <1>2, <1>3, <1>4 DEF BenchInv, Left
<1>6. output.owner # tool /\ output.lines = <<>>
      /\ output \in [owner : {"nobody", "other", tool}, lines : Seq(WholeLines)]
  <2>1. output.owner \in {"nobody", "other"} /\ output.lines = <<>>
        /\ output = [owner |-> output.owner, lines |-> output.lines]
    BY <1>1 DEF NoFile, Foreign
  <2>2. output.owner # tool
    BY <1>1, <2>1
  <2>3. output.lines \in Seq(WholeLines) /\ output.owner \in {"nobody", "other", tool}
    BY <2>1
  <2> QED
    BY <2>1, <2>2, <2>3
<1>7. WrittenInv
  <2>1. Len(written) = 0 /\ written \in Seq(WholeLines) /\ Len(Whole) \in Nat
    BY <1>1, <1>2, WholeFacts
  <2> QED
    BY <1>1, <1>6, <2>1 DEF WrittenInv, Opened, Left
<1>8. StreamInv
  BY <1>1, <1>6 DEF StreamInv
<1>9. ExitInv
  BY <1>1 DEF ExitInv, Left
<1> QED
  BY <1>5, <1>7, <1>8, <1>9 DEF ReportInv

LEMMA ReportStep == ReportInv /\ [Next]_vars => ReportInv'
<1> SUFFICES ASSUME ReportInv, [Next]_vars PROVE ReportInv'
  OBVIOUS
<1>1. UNCHANGED toolInput
  BY InputStays
<1>2. BenchInv /\ WrittenInv /\ StreamInv /\ tool \in {"branchscore", "bench"}
  BY DEF ReportInv, ExitInv
<1>3. CASE Quietly
  <2>1. Silent
    BY <1>3 DEF Silent, Quietly
  <2> QED
    BY <1>1, <1>2, <1>3, <2>1, QuietBench, SilentWritten, SilentStream, QuietExit DEF ReportInv
<1>4. CASE ReadRow
  <2>1. Silent
    BY <1>4 DEF Silent, ReadRow
  <2> QED
    BY <1>1, <1>2, <1>4, <2>1, ReadRowBench, SilentWritten, SilentStream, OtherExit
       DEF ReportInv
<1>5. CASE EvaluateRow
  <2>1. Silent
    BY <1>5 DEF Silent, EvaluateRow
  <2> QED
    BY <1>1, <1>2, <1>5, <2>1, EvaluateRowBench, SilentWritten, SilentStream, OtherExit
       DEF ReportInv
<1>6. CASE Writing /\ ~DestroyStream
  <2>1. WrittenInv' /\ StreamInv'
    BY <1>1, <1>2, <1>6, PutKeeps, OpenKeeps, OthersKeep DEF Writing
  <2> QED
    BY <1>1, <1>2, <1>6, <2>1, WritingBench, OtherExit DEF ReportInv
<1>7. CASE DestroyStream
  <2>1. Writing
    BY <1>7 DEF Writing
  <2> QED
    BY <1>1, <1>2, <1>7, <2>1, WritingBench, DestroyKeeps, DestroyExit DEF ReportInv
<1> QED
  BY <1>3, <1>4, <1>5, <1>6, <1>7, QuietSteps DEF Writing

LEMMA ReportInvHolds == Spec => []ReportInv
  BY ReportInit, ReportStep, PTL DEF Spec

LEMMA ReportIsRight == ReportInv => ReportIsWhole
<1> SUFFICES ASSUME ReportInv PROVE ReportIsWhole
  OBVIOUS
<1>1. /\ Whole \in Seq(WholeLines) /\ Len(Whole) \in Nat
      /\ written \in Seq(WholeLines) /\ Len(written) \in Nat /\ Len(written) <= Len(Whole)
      /\ \A i \in 1 .. Len(written) : written[i] = Whole[i]
      /\ output \in [owner : {"nobody", "other", tool}, lines : Seq(WholeLines)]
      /\ output.lines \in Seq(WholeLines) /\ buffer \in Seq(WholeLines)
  BY WholeFacts DEF ReportInv, BenchInv, WrittenInv, StreamInv
<1>2. Bench /\ found # NoFile => output = found
  BY DEF ReportInv, ExitInv
<1>3. ASSUME output.owner = tool, good PROVE IsPrefix(output.lines, Whole)
  <2> DEFINE L == output.lines
             k == Len(L)
  <2>1. IsPrefix(L, written)
    <3>1. CASE pc # "gone"
      <4>1. written = L \o buffer
        BY <1>3, <3>1 DEF ReportInv, StreamInv
      <4>2. SubSeq(buffer, 1, 0) = <<>> /\ 0 \in 0 .. Len(buffer)
        BY <1>1
      <4>3. L \o <<>> = L
        BY <1>1, ConcatEmptySeq
      <4> HIDE DEF L
      <4>4. IsPrefix(L \o SubSeq(buffer, 1, 0), L \o buffer)
        BY <1>1, <4>2, Flushed DEF L
      <4> QED
        BY <4>1, <4>2, <4>3, <4>4
    <3>2. CASE pc = "gone"
      BY <1>3, <3>2 DEF ReportInv, StreamInv
    <3> QED
      BY <3>1, <3>2
  <2> HIDE DEF L
  <2>2. L \in Seq(WholeLines) /\ k \in Nat
    BY <1>1 DEF L
  <2>3. k <= Len(written) /\ SubSeq(L, 1, k) = SubSeq(written, 1, k)
    BY <2>1 DEF IsPrefix
  <2>4. k <= Len(Whole)
    BY <1>1, <2>2, <2>3
  <2> DEFINE x == SubSeq(written, 1, k)
             y == SubSeq(Whole, 1, k)
  <2>5. /\ x \in Seq(WholeLines) /\ Len(x) = k /\ \A i \in 1 .. k : x[i] = written[i]
        /\ y \in Seq(WholeLines) /\ Len(y) = k /\ \A i \in 1 .. k : y[i] = Whole[i]
    BY <1>1, <2>2, <2>3, <2>4, SubSeqProperties
  <2> HIDE DEF x, y
  <2>6. \A i \in 1 .. Len(x) : x[i] = y[i]
    BY <1>1, <2>2, <2>3, <2>5
  <2>7. x = y
    BY <2>5, <2>6, SeqEqual
  <2> QED
    BY <2>3, <2>4, <2>7 DEF IsPrefix, x, y, L
<1>4. ASSUME pc = "gone", exit = 0, written # <<>>, ~tail_lost
      PROVE  output = [owner |-> tool, lines |-> Whole]
  <2>1. output.owner = tool
    BY <1>4 DEF ReportInv, StreamInv
  <2>2. good /\ Len(written) = Len(Whole)
    BY <1>4 DEF ReportInv, ExitInv, Left
  <2>3. output.lines = written
    BY <1>4, <2>1, <2>2 DEF ReportInv, StreamInv
  <2>4. written = Whole
    BY <1>1, <2>2, SeqEqual
  <2> QED
    BY <1>1, <2>1, <2>3, <2>4
<1>5. pc = "gone" /\ exit = 0 /\ Bench /\ args.mode = "run" => Len(written) = Len(Whole)
  BY DEF ReportInv, ExitInv, Left
<1> QED
  BY <1>2, <1>3, <1>4, <1>5 DEF ReportIsWhole

\* branchscore_bench: for every input, buffer and failure, the output is the beginning of
\* the report that the input asks for, rows in order under their own ids and lines, and
\* success means all of it unless the last flush failed; an output that was there stays.
THEOREM ReportsAreWhole == Spec => []ReportIsWhole
  BY ReportInvHolds, ReportIsRight, PTL
=================================================================================
