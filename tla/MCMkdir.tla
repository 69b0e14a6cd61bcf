------------------------------ MODULE MCMkdir ------------------------------
(* Mkdir with two or three calls, model values, and all or no failures.    *)
EXTENDS Mkdir

CONSTANTS c1, c2, c3

TwoCalls == {c1, c2}
ThreeCalls == {c1, c2, c3}

=============================================================================
