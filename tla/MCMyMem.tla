------------------------------ MODULE MCMyMem -------------------------------
(* A pool of four blocks of two bytes and three pointer variables.           *)
EXTENDS MyMem
=============================================================================
