------------------------------- MODULE MCSales -------------------------------
(* Small instances of SalesPeriods for TLC.                                 *)
EXTENDS SalesPeriods, TLC

CONSTANTS root, ann, board
=============================================================================
