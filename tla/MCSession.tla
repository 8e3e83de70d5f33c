----------------------------- MODULE MCSession -----------------------------
(* Small instances of Session. *)
EXTENDS Session

CONSTANTS t, m, here, there, v1, v2

MCWorkers == [p \in Placements |-> IF p = here THEN 1 ELSE 2]
OneSelection == {Cases}
AllSelections == SUBSET Cases
SingleSelections == {{c} : c \in Cases}
=============================================================================
