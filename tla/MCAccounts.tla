------------------------------ MODULE MCAccounts ------------------------------
(* Small instances of Accounts for TLC: root and ann are administrators.     *)
EXTENDS Accounts

CONSTANTS root, ann, cat, it, hr

Granted == [t \in Founders |-> {"admin"}]

\* The departments are interchangeable, and so are the administrators.
Symmetric == Permutations({it, hr}) \cup Permutations({root, ann})
=============================================================================
