---------------------------- MODULE MCContextIds ----------------------------
(* Small instances of ContextIds: a few ids of few bits.                     *)
EXTENDS ContextIds, TLC

CONSTANTS o1, o2, o3, o4

\* The table does not look at what it maps to.
AnyObject == Permutations(Obj)
=============================================================================
