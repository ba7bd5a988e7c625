------------------------------ MODULE MCMulDiv ------------------------------
(* Words of four bits: every double word and every divisor.                *)
EXTENDS MulDiv
=============================================================================
