------------------------------ MODULE MCLogger ------------------------------
(* Logger with levels on both sides of those that the code compares with:  *)
(* NTFY for the notice, WARN for the trace.                                *)
EXTENDS Logger

MCUsed == {LL.NTFY, LL.WARN}

=============================================================================
