----------------------------- MODULE MCPlugins ------------------------------
(* Small instances of Plugins for TLC: one plugin is kept, one is not, and *)
(* a third has its methods called before theirs.                           *)
EXTENDS Plugins

CONSTANTS kept, plain, early

EarlyFirst == [n \in Names |-> IF n = early THEN 50 ELSE 0]
=============================================================================
