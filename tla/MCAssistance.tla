----------------------------- MODULE MCAssistance -----------------------------
(***************************************************************************)
(* Small instances of Assistance.                                          *)
(***************************************************************************)
EXTENDS Assistance

EverySaves == 1 .. MaxGen
JoinsAct == <<1>>
JoinsResume == <<1, 2>>

Bounds(offers, statuses, reads, invokes, ends, resumes) ==
  [op \in Kinds |->
     CASE op = "offer" -> offers [] op = "status" -> statuses [] op = "read" -> reads
       [] op = "invoke" -> invokes [] op = "end" -> ends [] OTHER -> resumes]

\* One generation: a consumer that acts, once or, to abandon an action, twice.
Actor == <<Bounds(1, 1, 1, 1, 1, 0)>>
ActsTwice == <<Bounds(1, 1, 0, 2, 0, 0)>>

\* Two generations: a consumer that resumes its grant, and a rival for it.
ResumerAndARival == <<Bounds(1, 1, 0, 0, 1, 1), Bounds(1, 0, 0, 0, 0, 0)>>
=============================================================================
