------------------------------ MODULE MCAgenda -------------------------------
(* Small instances of AgendaOrder for TLC.  The users are interchangeable.  *)
EXTENDS AgendaOrder, TLC

CONSTANTS ann, bob

Symmetric == Permutations({ann, bob})
=============================================================================
