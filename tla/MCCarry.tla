------------------------------- MODULE MCCarry -------------------------------
(* Small instances of ActionCarryForward for TLC.  Item 3 is no source: its *)
(* deletion lowers the largest number while requests hold higher ones.      *)
EXTENDS ActionCarryForward, TLC

CONSTANTS ann, bob, board

Carry(selected, target, finished) ==
    [rank |-> [s \in selected |-> s], target |-> target, finished |-> finished]

\* Overlapping batches into one meeting and into none; the finished item 2 alone.
Posted == {Carry({2}, board, FALSE), Carry({1, 2}, board, TRUE),
           Carry({1, 2}, NoMeeting, TRUE)}
=============================================================================
