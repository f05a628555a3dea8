----------------------------- MODULE MCWavPlay ------------------------------
(* Buffers of four cells; songs shorter than a buffer, of full buffers, and  *)
(* with a rest.                                                              *)
EXTENDS WavPlay

Song(n, b) == [len |-> n, bits |-> b]

\* One song of each length, of one buffer and less to three and a rest.
Lengths == {<<Song(n, b)>> : n \in 1..14, b \in {16, 24}}

Two == {<<Song(12, 16), Song(16, 16)>>}
=============================================================================
