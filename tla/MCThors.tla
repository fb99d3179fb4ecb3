------------------------------ MODULE MCThors -------------------------------
(* A small instance of Thors for TLC.                                      *)
EXTENDS Thors, TLC

CONSTANTS r1, h1, null

MCAmount == (h1 :> 3999)

MCFees == {1999}

MCFaults == {"db", "rpc", "silent", "drop", "crash"}
=============================================================================
