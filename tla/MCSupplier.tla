------------------------------ MODULE MCSupplier ------------------------------
(***************************************************************************)
(* Small instances of Supplier: two servings, whose surfaces may all be    *)
(* accepted in the end, or the first of which is always refused.           *)
(***************************************************************************)
EXTENDS Supplier

NoneRefusing == {}
FirstRefusing == {1}
=============================================================================
