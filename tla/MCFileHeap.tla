----------------------------- MODULE MCFileHeap -----------------------------
(* FileHeap with two File objects and three allocations, model values.     *)
EXTENDS FileHeap, TLC

CONSTANTS o1, o2, b1, b2, b3

MCObjs == {o1, o2}
MCBlocks == {b1, b2, b3}

=============================================================================
