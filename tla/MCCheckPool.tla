----------------------------- MODULE MCCheckPool -----------------------------
(* CheckPool with three targets, two whole-file checks and a channel of two  *)
(* tokens: the dispatcher blocks on the full channel with a target still to  *)
(* dispatch, and goroutines finish in every order.                           *)
EXTENDS CheckPool

CONSTANTS collision, other

MCFindings == {collision, other}

(* A fork of a declared popular module at target 2 and at the first          *)
(* whole-file check (CheckTools): its collision is dropped there, only there.*)
MCSuppressed ==
    [s \in Sections |-> IF s \in {2, Targets + 1} THEN {collision} ELSE {}]
=============================================================================
