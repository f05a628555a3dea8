----------------------------- MODULE MCNorflash -----------------------------
(* Three sectors of two pages of two bytes of one bit.                       *)
EXTENDS Norflash

\* Chips with any stretch of bytes programmed, and programmed over again.
Stretch(l, h) == [a \in Address |-> IF a \in l .. h THEN {} ELSE Erased]
AnyStretch == {Stretch(l, h) : l, h \in Address}

\* Calls at any address within the chip, of zeros with a stretch of ones in them.
Call(addr, n, l) == [addr |-> addr, n |-> n,
    data |-> [i \in 0 .. n - 1 |-> IF i \in l .. l + 1 THEN Erased ELSE {}]]
Calls == UNION {{Call(a, n, l) : n \in {0, 1, 2, 3, 5, 6, 9} \cap 0 .. 12 - a, l \in {0, 1, 3, 6}} :
                   a \in Address}
=============================================================================
