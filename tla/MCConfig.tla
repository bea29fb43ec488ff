------------------------------ MODULE MCConfig ------------------------------
(* Config for TLC, with a plugin whose options have every kind of wrapper. *)
EXTENDS Config

SomePlugin == <<Plain("title", "value"), Option("items", "sub", "list", "none"),
                Plain("group", "sub"), Optional("maybe", "sub"), Plain("fresh", "nav"),
                Option("old", "nav", "deprecated", "fresh")>>
=============================================================================
