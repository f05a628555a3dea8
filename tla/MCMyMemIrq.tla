----------------------------- MODULE MCMyMemIrq -----------------------------
(* A pool of five blocks, two pointers of main and one of USMART.           *)
EXTENDS MyMemIrq
=============================================================================
