------------------------------ MODULE MCBridge ------------------------------
(* Bridge for TLC: a speed within every limit, one above all, a negative one *)
(* and one that is no number.                                                *)
EXTENDS Bridge

MCSpeeds == {-3, 2, 20, NaN}
=============================================================================
