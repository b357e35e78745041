---------------------------- MODULE MCTextReplicas ----------------------------
(***************************************************************************)
(* A small instance of TextReplicas: two editors, a reader that receives   *)
(* operations in any order and restarts, and a document begun by a writer  *)
(* that is gone. Texts are such that one may insert and the other delete.  *)
(***************************************************************************)
EXTENDS TextReplicas

\* An element of two characters in the old id format and, behind it, one with a
\* foreign id; the sequence starts at 3.
TwoOld ==
  {[origin |-> 0, seq |-> 3, lamport |-> 2, refs |-> {},
    edit |-> [kind |-> "insert", id |-> <<2, 0, 1>>, after |-> Root, text |-> <<1, 2>>]],
   [origin |-> 0, seq |-> 4, lamport |-> 3, refs |-> {<<0, 3>>},
    edit |-> [kind |-> "insert", id |-> <<1, 0, 0>>, after |-> <<2, 0, 1>>, text |-> <<1>>]]}

LocalAndSession == <<1, 0, 0>>
OnlyReader == <<0, 0, 1>>
FewOps == <<2, 1, 0>>
SomeTexts == {<<>>, <<1,1>>, <<1,2,1>>, <<1,2,2,1>>, <<2,1,2,1>>}

ASSUME TextsAreNamed == WritersAreOrdered /\ LegacyIsNamed
=============================================================================
