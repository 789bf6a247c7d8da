---------------------------- MODULE MCExpressions ----------------------------
(***************************************************************************)
(* The formulas over two numbers, a static and two dynamic parameters.     *)
(***************************************************************************)
EXTENDS Expressions

MCBranches == {Leaf("2"), Leaf("x"), Leaf("s"), Operation("-", <<Leaf("y"), Leaf("2")>>)}
=============================================================================
