------------------------------ MODULE MCFinfo ------------------------------
(* Finfo with two letters, and an array shorter than some names.           *)
EXTENDS Finfo

MCDefault == <<"a", "b">>

=============================================================================
