----------------------------- MODULE MCBrowserPage -----------------------------
(***************************************************************************)
(* Two tokens, three option keys and two files: enough to edit a token     *)
(* during Connect, to change or clear the image during a submission and to *)
(* tell two questions apart.  The pasted lists are one of each kind.       *)
(***************************************************************************)
EXTENDS BrowserPage

PastedLists ==
  {<<"a">>, <<"a", "a">>, <<"a", "">>, <<"a", "b", "a", "b">>}
    \cup {keys \in BoundedSeq(Keys, 3) : Len(keys) > 1 /\ IsInjective(keys)}
==============================================================================
