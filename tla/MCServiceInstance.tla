------------------------- MODULE MCServiceInstance -------------------------
(***************************************************************************)
(* One resource, two IDs.  Its configurations differ in the plan and in    *)
(* two parameters, so that the difference between two of them leaves a     *)
(* parameter out that a third one changes.                                 *)
(***************************************************************************)
EXTENDS ServiceInstance

Asks(plan, a, b) == [plan |-> plan, params |-> [n \in {"a", "b"} |-> IF n = "a" THEN a ELSE b]]

MCWanted == {Asks("small", "unset", "x"), Asks("small", "x", "x"), Asks("big", "x", "unset"),
             Asks("gone", "x", "x")}
=============================================================================
