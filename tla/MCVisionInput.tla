----------------------------- MODULE MCVisionInput -----------------------------
(***************************************************************************)
(* Patches of 2, merged by 2 (16 and 3): 4 to 32 tokens (70 to 1120).      *)
(* Every image up to 28 by 28 and strips up to 1 by 700, which cross both  *)
(* limits and both clamps; some whose header or pixels cannot be read or   *)
(* that disagree about the size.                                           *)
(***************************************************************************)
EXTENDS VisionInput

Strips == {1, 2, 3, 5} \X {40, 64, 65, 120, 128, 129, 130, 200, 256, 257, 700}
SmallSizes == ((1 .. 28) \X (1 .. 28)) \cup Strips \cup {<<s[2], s[1]>> : s \in Strips}
           \cup {<<64, 64>>, <<90, 61>>, <<130, 130>>}

ImageSet ==
  {[header |-> s, decoded |-> s] : s \in SmallSizes}
  \cup {[header |-> Unreadable, decoded |-> <<5, 5>>],
        [header |-> <<5, 5>>, decoded |-> Unreadable],
        [header |-> <<5, 9>>, decoded |-> <<40, 9>>]}
==============================================================================
