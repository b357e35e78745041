----------------------------- MODULE MCTapMounts -----------------------------
(***************************************************************************)
(* A small instance of TapMounts: one tap follows two parameters, another  *)
(* one of them, and their fills meet at the key "x"; one has connectivity. *)
(***************************************************************************)
EXTENDS TapMounts, TLC

TwoTaps == ("t1" :> <<"doc", "", "part">>) @@ ("t2" :> <<"doc", "", "x">>)
=============================================================================
