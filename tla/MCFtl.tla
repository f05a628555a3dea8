------------------------------- MODULE MCFtl --------------------------------
(* Small chips for Ftl.                                                    *)
EXTENDS Ftl, TLC

Sound == [bad |-> {}, weak |-> {}, worn |-> {}, ecc |-> {}, cuts |-> 0]

\* A power failure; erases that fail, alone and where corrected reads have a block
\* tested; corrected reads alone; pages that time out behind the tags, with and
\* without a factory bad block and a power failure; pages that time out under the
\* first tag, and under the backup mark; a chip with too many bad blocks.
Faulty == {[Sound EXCEPT !.cuts = 1],
           [Sound EXCEPT !.worn = {0}, !.cuts = 1],
           [Sound EXCEPT !.ecc = {<<0, 1>>, <<4, 0>>}],
           [Sound EXCEPT !.ecc = {<<0, 1>>, <<4, 0>>}, !.worn = {0}],
           [Sound EXCEPT !.weak = {<<4, 2>>, <<3, 2>>}],
           [Sound EXCEPT !.weak = {<<4, 2>>, <<3, 2>>}, !.bad = {1}, !.cuts = 1],
           [Sound EXCEPT !.weak = {<<4, 0>>}, !.bad = {1}],
           [Sound EXCEPT !.weak = {<<4, 1>>}, !.bad = {1}],
           [Sound EXCEPT !.bad = {0, 1, 2, 3}]}

\* Blocks move because of writes alone, or of corrected reads too.
OneWeak == {[Sound EXCEPT !.weak = {<<4, 1>>}]}
Correcting == {[Sound EXCEPT !.ecc = (0..BlockTotal-1) \X (0..PageNum-1)]}

DataSymmetry == Permutations(Data)
=============================================================================
