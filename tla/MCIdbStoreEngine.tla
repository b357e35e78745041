--------------------------- MODULE MCIdbStoreEngine ---------------------------
(***************************************************************************)
(* Small instances of IdbStoreEngine: one page, or two that share the      *)
(* database.                                                               *)
(***************************************************************************)
EXTENDS IdbStoreEngine

OnePage == {"p1"}
TwoPages == {"p1", "p2"}
NoPages == {}

TwoRows == [p \in {"p1"} |-> {"a1", "a2"}]
\* Both pages may receive a1; b1 is the second page's own.
RowShared == [p \in {"p1", "p2"} |-> IF p = "p1" THEN {"a1"} ELSE {"a1", "b1"}]
=============================================================================
