------------------------------ MODULE FtlProofs -----------------------------
(***************************************************************************)
(* What ftl.c keeps on every chip, for every geometry, share of numbered   *)
(* blocks and order of requests.                                           *)
(***************************************************************************)
EXTENDS Ftl, FiniteSetTheorems, WellFoundedInduction, TLAPS

-----------------------------------------------------------------------------
(* Numbers and sets of blocks.                                             *)

LEMMA DivMod ==
    ASSUME NEW d \in Nat \ {0}, NEW a \in Nat
    PROVE  a \div d \in Nat /\ a % d \in 0..d-1 /\ a = d * (a \div d) + (a % d)
OBVIOUS

LEMMA Geometry ==
    /\ BlockTotal \in Nat \ {0} /\ PageNum \in Nat /\ PageNum >= 2 /\ SecPerPage \in Nat \ {0}
    /\ BlkSec \in Nat \ {0} /\ BlockTotal * BlkSec \in Nat \ {0}
    /\ MinBlocks \in Nat \ {0} /\ MaxCount \in Nat \ {0} /\ None \notin Blocks
<1>1. BlockTotal \in Nat \ {0} /\ PageNum \in Nat /\ PageNum >= 2 /\ SecPerPage \in Nat \ {0}
    BY FtlAssumption
<1>2. BlkSec \in Nat \ {0}
    BY <1>1 DEF BlkSec
<1>3. BlockTotal * BlkSec \in Nat \ {0}
    BY <1>1, <1>2
<1> QED
    BY <1>1, <1>2, <1>3, FtlAssumption DEF Blocks

(* A set of natural numbers has a least element, and a set of blocks a     *)
(* greatest.                                                               *)
LEMMA MinExists ==
    ASSUME NEW C \in SUBSET Nat, C # {}
    PROVE  \E b \in C : \A c \in C : b <= c
<1> DEFINE R == {p \in Nat \X Nat : p[1] < p[2]}
<1>1. IsWellFoundedOn(R, Nat)
    BY NatLessThanWellFounded DEF OpToRel
<1>2. PICK b \in C : \A c \in C : <<c, b>> \notin R
    <2> HIDE DEF R
    <2> QED
        BY <1>1, WFMin
<1>3. ASSUME NEW c \in C PROVE b <= c
    <2>1. b \in Nat /\ c \in Nat /\ <<c, b>> \notin R
        BY <1>2
    <2>2. ~(c < b)
        BY <2>1
    <2> QED
        BY <2>1, <2>2
<1> QED
    BY <1>3

LEMMA MaxExists ==
    ASSUME NEW C \in SUBSET Blocks, C # {}
    PROVE  \E b \in C : \A c \in C : c <= b
<1> DEFINE D == {n \in Nat : \E b \in C : n = BlockTotal - b}
<1>0. BlockTotal \in Nat \ {0} /\ Blocks = 0..BlockTotal-1
    BY Geometry DEF Blocks
<1>1. \A b \in C : BlockTotal - b \in D /\ b \in Nat
    BY <1>0
<1>2. PICK n \in D : \A m \in D : n <= m
    <2>1. D \in SUBSET Nat /\ D # {}
        BY <1>1
    <2> HIDE DEF D
    <2> QED
        BY <2>1, MinExists
<1>3. PICK b \in C : n = BlockTotal - b
    OBVIOUS
<1>4. ASSUME NEW c \in C PROVE c <= b
    <2>1. BlockTotal - b <= BlockTotal - c
        BY <1>1, <1>2, <1>3
    <2>2. b \in Nat /\ c \in Nat
        BY <1>1
    <2> HIDE DEF D
    <2> QED
        BY <1>0, <2>1, <2>2
<1> QED
    BY <1>4

-----------------------------------------------------------------------------
(* The tables, and the choice of a free block.                             *)

(* What operations on the spare bytes do where the tags answer.            *)
LEMMA NoTimeout ==
    ASSUME TagsAnswer
    PROVE  /\ SUBSET TagPages = {{}} /\ SUBSET Silent = {{}}
           /\ \A b \in Blocks : <<b, 0>> \notin chip.weak /\ <<b, 1>> \notin chip.weak
<1>1. TagPages = {}
    BY DEF TagsAnswer
<1>2. ASSUME NEW b \in Blocks, NEW i \in {0, 1} PROVE <<b, i>> \notin chip.weak
    <2>1. <<b, i>> \in Blocks \X {0, 1}
        OBVIOUS
    <2> QED
        BY <1>1, <2>1 DEF TagPages
<1>3. \A b \in Blocks : <<b, 0>> \notin chip.weak /\ <<b, 1>> \notin chip.weak
    BY <1>2
<1>4. Silent = {}
    BY <1>3 DEF Silent
<1> QED
    BY <1>1, <1>3, <1>4

(* When every read comes, the buffer holds the bytes of the block: good    *)
(* when it has neither mark.                                               *)
LEMMA BufNow ==
    ASSUME NEW fl, NEW was, NEW i \in Blocks
    PROVE  /\ Buf(fl, {}, was, i).lbn = fl[i].lbn
           /\ Buf(fl, {}, was, i).good <=> ~fl[i].bad0 /\ ~fl[i].bad1
<1> DEFINE C == {j \in 0..i : <<j, 0>> \notin {}}
           m == CHOOSE j \in C : \A k \in C : k <= j
           rd == [good |-> ~fl[m].bad0, lbn |-> fl[m].lbn]
           g == ~fl[m].bad0 /\ \A j \in m..i : <<j, 1>> \in {} \/ ~fl[j].bad1
<1>1. i \in Nat /\ C = 0..i /\ C # {}
    BY Geometry DEF Blocks
<1>2. m = i
    <2>1. i \in C /\ \A k \in C : k <= i
        BY <1>1
    <2>2. \E j \in C : \A k \in C : k <= j
        BY <2>1
    <2>3. m \in C /\ \A k \in C : k <= m
        BY <2>2
    <2> QED
        BY <1>1, <2>1, <2>3
<1>3. Buf(fl, {}, was, i) = [rd EXCEPT !.good = @ /\ \A j \in m..i : <<j, 1>> \in {} \/ ~fl[j].bad1]
    BY <1>1 DEF Buf
<1>4. m..i = {i}
    BY <1>1, <1>2
<1>5. g <=> ~fl[i].bad0 /\ ~fl[i].bad1
    BY <1>2, <1>4
<1>6. /\ Buf(fl, {}, was, i).lbn = fl[m].lbn
      /\ Buf(fl, {}, was, i).good <=> g
    <2> HIDE DEF m, C
    <2> QED
        BY <1>3
<1> QED
    BY <1>2, <1>5, <1>6

(* An entry of the table is a good block that carries the number, and is   *)
(* empty when there is none.                                               *)
LEMMA LutEntry ==
    ASSUME NEW fl, NEW was, NEW l \in Blocks
    PROVE  \/ /\ Lut(fl, {}, was)[l] = None
              /\ \A c \in Blocks : fl[c].bad0 \/ fl[c].bad1 \/ fl[c].lbn # l
           \/ /\ Lut(fl, {}, was)[l] \in Blocks
              /\ ~fl[Lut(fl, {}, was)[l]].bad0 /\ ~fl[Lut(fl, {}, was)[l]].bad1
              /\ fl[Lut(fl, {}, was)[l]].lbn = l
<1> DEFINE C == {b \in Blocks : Buf(fl, {}, was, b).good /\ Buf(fl, {}, was, b).lbn = l}
<1>0. C = {b \in Blocks : ~fl[b].bad0 /\ ~fl[b].bad1 /\ fl[b].lbn = l}
    BY BufNow
<1>1. Lut(fl, {}, was)[l] = IF C = {} THEN None ELSE CHOOSE b \in C : \A c \in C : c <= b
    BY DEF Lut
<1>2. CASE C = {}
    BY <1>0, <1>1, <1>2
<1>3. CASE C # {}
    <2>1. \E b \in C : \A c \in C : c <= b
        <3>1. C \in SUBSET Blocks
            OBVIOUS
        <3> HIDE DEF C
        <3> QED
            BY <1>3, <3>1, MaxExists
    <2>2. Lut(fl, {}, was)[l] \in C
        <3> HIDE DEF C
        <3> QED
            BY <1>1, <1>3, <2>1
    <2> QED
        BY <1>0, <2>2
<1> QED
    BY <1>2, <1>3

LEMMA LutType ==
    ASSUME NEW fl, NEW T, NEW was
    PROVE  Lut(fl, T, was) \in [Blocks -> Blocks \cup {None}]
<1> DEFINE C(l) == {b \in Blocks : Buf(fl, T, was, b).good /\ Buf(fl, T, was, b).lbn = l}
           e(l) == IF C(l) = {} THEN None ELSE CHOOSE b \in C(l) : \A c \in C(l) : c <= b
<1>1. Lut(fl, T, was) = [l \in Blocks |-> e(l)]
    BY DEF Lut
<1>2. ASSUME NEW l \in Blocks PROVE e(l) \in Blocks \cup {None}
    <2>1. C(l) \in SUBSET Blocks
        OBVIOUS
    <2> HIDE DEF C
    <2> QED
        BY <2>1, MaxExists
<1> HIDE DEF e
<1> QED
    BY <1>1, <1>2

(* Where the tags answer, the table is that of the blocks.                 *)
LEMMA TablesNow ==
    ASSUME TagsAnswer, NEW fl, ftl_create_lut(fl)
    PROVE  \E was : lut' = Lut(fl, {}, was) /\ valid' = Valid(Lut(fl, {}, was))
BY NoTimeout DEF ftl_create_lut

(* The count ends at the first empty entry, or stays.                      *)
LEMMA ValidEntry ==
    ASSUME NEW table
    PROVE  \/ (\A l \in Blocks : table[l] # None) /\ Valid(table) = valid
           \/ /\ Valid(table) \in Blocks /\ table[Valid(table)] = None
              /\ \A l \in 0..Valid(table)-1 : table[l] # None
<1>1. CASE \A l \in Blocks : table[l] # None
    BY <1>1 DEF Valid
<1>2. CASE ~(\A l \in Blocks : table[l] # None)
    <2> DEFINE C == {l \in Blocks : table[l] = None}
               P(v) == table[v] = None /\ \A l \in 0..v-1 : table[l] # None
    <2>1. PICK v \in C : \A c \in C : v <= c
        <3>1. C \in SUBSET Nat /\ C # {}
            BY <1>2, Geometry DEF Blocks
        <3> HIDE DEF C
        <3> QED
            BY <3>1, MinExists
    <2>2. \E w \in Blocks : P(w)
        <3>1. v \in Blocks /\ table[v] = None
            BY <2>1
        <3>2. ASSUME NEW l \in 0..v-1 PROVE table[l] # None
            <4>1. l \in Blocks /\ v \in Int /\ l < v
                BY <3>1, Geometry DEF Blocks
            <4> QED
                BY <4>1, <2>1
        <3> QED
            BY <3>1, <3>2
    <2>3. Valid(table) = CHOOSE w \in Blocks : P(w)
        BY <1>2 DEF Valid
    <2> HIDE DEF P
    <2>4. Valid(table) \in Blocks /\ P(Valid(table))
        BY <2>2, <2>3
    <2> QED
        BY <2>4 DEF P
<1> QED
    BY <1>1, <1>2

LEMMA ValidType ==
    ASSUME NEW table, valid \in Blocks
    PROVE  Valid(table) \in Blocks
BY ValidEntry

(* The search for a free block returns one that passes for unused.         *)
LEMMA FindUnused ==
    ASSUME NEW s \in Blocks, NEW p, NEW S
    PROVE  \/ ftl_find_unused_block(s, p, S) = None
           \/ ftl_find_unused_block(s, p, S) \in Blocks /\ Unused(ftl_find_unused_block(s, p, S))
<1> DEFINE C == {b \in 0..s \ S : b % 2 = p /\ Unused(b)}
<1>1. ftl_find_unused_block(s, p, S) =
            IF C = {} THEN None ELSE CHOOSE b \in C : \A c \in C : c <= b
    BY DEF ftl_find_unused_block
<1>2. C \in SUBSET Blocks
    BY Geometry DEF Blocks
<1>3. CASE C # {}
    <2>1. ftl_find_unused_block(s, p, S) \in C
        <3> HIDE DEF C
        <3> QED
            BY <1>1, <1>2, <1>3, MaxExists
    <2> QED
        BY <2>1, <1>2
<1> QED
    BY <1>1, <1>3

LEMMA Found ==
    ASSUME NEW s, NEW S, NEW again, curblock \in 0..BlockTotal
    PROVE  /\ FindSamePlane(s, S, again)[1] \in Blocks \cup {None}
           /\ FindSamePlane(s, S, again)[1] # None => Unused(FindSamePlane(s, S, again)[1])
           /\ FindSamePlane(s, S, again)[2] \in 0..BlockTotal
<1> DEFINE last == BlockTotal - 1
           cur == IF curblock > last THEN last ELSE curblock
           one == ftl_find_unused_block(cur, s % 2, S)
           two == ftl_find_unused_block(last, s % 2, again)
           u == IF one = None /\ cur < last THEN two ELSE one
<1>1. last \in Blocks /\ cur \in Blocks /\ last \in 0..BlockTotal
    BY Geometry DEF Blocks
<1>2. FindSamePlane(s, S, again) = <<u, IF u # None THEN u ELSE last>>
    BY DEF FindSamePlane
<1>3. one = None \/ (one \in Blocks /\ Unused(one))
    <2> HIDE DEF cur
    <2> QED
        BY <1>1, FindUnused
<1>4. two = None \/ (two \in Blocks /\ Unused(two))
    <2> HIDE DEF last
    <2> QED
        BY <1>1, FindUnused
<1>5. u = None \/ (u \in Blocks /\ Unused(u))
    <2> HIDE DEF one, two
    <2> QED
        BY <1>3, <1>4
<1>6. Blocks \subseteq 0..BlockTotal
    BY Geometry DEF Blocks
<1> HIDE DEF u, last
<1>7. /\ FindSamePlane(s, S, again)[1] = u
      /\ FindSamePlane(s, S, again)[2] = (IF u # None THEN u ELSE last)
    BY <1>2
<1> QED
    BY <1>1, <1>5, <1>6, <1>7

-----------------------------------------------------------------------------
(* Types.                                                                  *)

Block == [bad0 : BOOLEAN, bad1 : BOOLEAN, used : BOOLEAN, lbn : Blocks \cup {None},
          data : [0..BlkSec-1 -> Cell]]
Bufs == {<<>>} \cup UNION {[0..n-1 -> Cell] : n \in Nat}
Op == [kind : {"none", "read", "write"}, sec : Nat, cnt : 0..MaxCount, buf : Bufs,
       i : 0..MaxCount, markd : Blocks \cup {None}]
Cp == [src : Blocks \cup {None}, off : Nat, col : 0..SecPerPage-1, buf : Bufs,
       from : 0..MaxCount, n : 0..MaxCount, take : 0..MaxCount,
       dst : Blocks \cup {None}, page : 0..PageNum]
Steps == {"off", "format", "dead", "idle", "loop", "mark", "find", "copy", "bad",
          "erase", "ones", "zeros", "wipe", "scrap", "retire"}

Moving == pc \in {"copy", "bad", "erase"}
Handling == pc = "find" \/ Moving
Testing == pc \in {"ones", "zeros", "wipe", "scrap", "retire"}

(* The variables, and the locals of a request and of a copy: a request     *)
(* stays inside its buffer, a copy inside what it took of it.              *)
Shapes ==
    /\ chip \in Chips /\ flash \in [Blocks -> Block]
    /\ lut \in [Blocks -> Blocks \cup {None}] /\ valid \in Blocks
    /\ curblock \in 0..BlockTotal /\ pc \in Steps /\ op \in Op /\ cp \in Cp
    /\ adm \in [Sectors -> SUBSET Cell] /\ cap \in Blocks /\ crashes \in 0..chip.cuts

OpLocals ==
    /\ op.i <= op.cnt
    /\ op.kind = "write" => op.buf \in [0..op.cnt-1 -> Data]
    /\ pc = "mark" => op.kind = "write" /\ op.i < op.cnt /\ Pbn # None

CpLocals ==
    /\ Handling \/ Testing =>
         /\ cp.src \in Blocks /\ cp.from + cp.n = cp.take /\ op.i + cp.take <= op.cnt
         /\ cp.buf \in [0..cp.take-1 -> Cell]
    /\ Moving => cp.dst \in Blocks

Typed == Shapes /\ OpLocals /\ CpLocals

LEMMA Buffer ==
    ASSUME NEW n \in Nat, NEW f \in [0..n-1 -> Cell]
    PROVE  f \in Bufs
BY DEF Bufs

LEMMA ErasedBlock ==
    /\ Erased \in Block
    /\ \A blk \in Block : \A b, D : BadMarked(blk, b, D) \in Block
<1>1. Erased \in Block
    BY Geometry DEF Erased, Block, Cell
<1>2. ASSUME NEW blk \in Block, NEW b, NEW D PROVE BadMarked(blk, b, D) \in Block
    <2> DEFINE p == blk.bad0 \/ <<b, 0>> \notin D
               u == blk.used \/ <<b, 0>> \notin D
               q == blk.bad1 \/ <<b, 1>> \notin D
               n == IF <<b, 0>> \in D THEN blk.lbn ELSE None
    <2>2. p \in BOOLEAN /\ u \in BOOLEAN /\ q \in BOOLEAN /\ n \in Blocks \cup {None}
        BY <1>2 DEF Block
    <2>3. BadMarked(blk, b, D) = [blk EXCEPT !.bad0 = p, !.used = u, !.lbn = n, !.bad1 = q]
        BY DEF BadMarked
    <2> HIDE DEF p, q, u, n
    <2> QED
        BY <1>2, <2>2, <2>3 DEF Block
<1> QED
    BY <1>1, <1>2

(* What an erase leaves is a block.                                        *)
LEMMA ErasingBlock ==
    ASSUME Shapes, NEW b \in Blocks
    PROVE  Erasing(b) \in SUBSET Block
BY ErasedBlock DEF Erasing, Shapes

LEMMA NoLocals == NoOp \in Op /\ NoCp \in Cp
BY Geometry DEF NoOp, NoCp, Op, Cp, Bufs

(* Replacing a block leaves blocks.                                        *)
LEMMA Replaced ==
    ASSUME Shapes, NEW b \in Blocks, NEW blk \in Block
    PROVE  [flash EXCEPT ![b] = blk] \in [Blocks -> Block]
BY DEF Shapes

(* Where the next sector of the request lies.                              *)
LEMMA Place ==
    ASSUME Shapes
    PROVE  /\ Sec \in Nat /\ Pbn \in Blocks \cup {None} /\ Rest \in Int
           /\ BlockOffset \in 0..BlkSec-1 /\ Page \in Nat /\ Col \in 0..SecPerPage-1
           /\ Sec \div BlkSec \in Nat
<1>1. Sec \in Nat /\ Rest \in Int
    BY DEF Shapes, Sec, Op, Rest
<1>2. Sec \div BlkSec \in Nat /\ BlockOffset \in 0..BlkSec-1
    BY <1>1, Geometry, DivMod DEF BlockOffset
<1>3. Page \in Nat /\ Col \in 0..SecPerPage-1
    <2>1. BlockOffset \in Nat
        BY <1>2, Geometry
    <2> QED
        BY <2>1, Geometry, DivMod DEF Page, Col
<1>4. Pbn \in Blocks \cup {None}
    <2>1. ASSUME NEW l \in Nat PROVE ftl_lbn_to_pbn(l) \in Blocks \cup {None}
        BY Geometry DEF Shapes, ftl_lbn_to_pbn, Blocks
    <2> QED
        BY <1>2, <2>1 DEF Pbn
<1> QED
    BY <1>1, <1>2, <1>3, <1>4

(* What a page, and a block, take of the request.                          *)
LEMMA Shares ==
    ASSUME Shapes, op.i < op.cnt
    PROVE  /\ InPage \in 1..Rest /\ InBlock \in 1..Rest /\ Rest = op.cnt - op.i
           /\ InPage <= SecPerPage - Col /\ InBlock <= BlkSec - BlockOffset
<1>1. Rest \in Nat \ {0} /\ SecPerPage - Col \in Nat \ {0} /\ BlkSec - BlockOffset \in Nat \ {0}
    BY Place, Geometry DEF Shapes, Op, Rest
<1> QED
    BY <1>1 DEF InPage, InBlock, Least, Rest


(* Where the host's calls and the request loop go on.                      *)
LEMMA ReturnTyped ==
    ASSUME Typed, NEW ok \in BOOLEAN, Return(ok), curblock' \in 0..BlockTotal,
           UNCHANGED <<chip, flash, lut, valid, cap, crashes>>
    PROVE  Typed'
<1>1. adm' \in [Sectors -> SUBSET Cell]
    <2>1. ASSUME NEW x \in Sectors, op.kind = "write", x \in Asked
          PROVE  {op.buf[x - op.sec]} \in SUBSET Cell
        <3>1. x - op.sec \in 0..op.cnt-1
            BY <2>1 DEF Asked
        <3>2. op.buf \in [0..op.cnt-1 -> Data]
            BY <2>1 DEF Typed, OpLocals
        <3>3. op.buf[x - op.sec] \in Data
            BY <3>1, <3>2
        <3> QED
            BY <3>3 DEF Cell
    <2> QED
        BY <2>1 DEF Return, Typed, Shapes
<1>2. Shapes'
    BY <1>1, NoLocals DEF Return, Typed, Shapes, Steps
<1>3. OpLocals' /\ CpLocals'
    BY DEF Return, OpLocals, CpLocals, NoOp, Handling, Moving, Testing
<1> QED
    BY <1>2, <1>3 DEF Typed

LEMMA InitTyped ==
    ASSUME Init
    PROVE  Typed
<1>1. flash \in [Blocks -> Block]
    <2>1. ASSUME NEW b \in Blocks PROVE [Erased EXCEPT !.bad0 = b \in chip.bad] \in Block
        <3>1. (b \in chip.bad) \in BOOLEAN
            OBVIOUS
        <3>2. \A v \in BOOLEAN : [Erased EXCEPT !.bad0 = v] \in Block
            BY ErasedBlock DEF Block
        <3> QED
            BY <3>1, <3>2
    <2> QED
        BY <2>1 DEF Init
<1>2. lut \in [Blocks -> Blocks \cup {None}] /\ valid \in Blocks /\ curblock \in 0..BlockTotal
    BY Geometry DEF Init, Boot, Blocks
<1>3. crashes \in 0..chip.cuts
    BY FtlAssumption DEF Init
<1>4. adm \in [Sectors -> SUBSET Cell] /\ cap \in Blocks
    BY Geometry DEF Init, Blocks
<1>5. Shapes
    BY <1>1, <1>2, <1>3, <1>4, NoLocals DEF Init, Shapes, Steps
<1>6. OpLocals /\ CpLocals
    BY DEF Init, OpLocals, CpLocals, NoOp, Handling, Moving, Testing
<1> QED
    BY <1>5, <1>6 DEF Typed

(* The tables are made anew.                                               *)
LEMMA TablesTyped ==
    ASSUME Typed, NEW fl, ftl_create_lut(fl)
    PROVE  lut' \in [Blocks -> Blocks \cup {None}] /\ valid' \in Blocks
BY LutType, ValidType DEF ftl_create_lut, Typed, Shapes

LEMMA InitCallTyped ==
    ASSUME Typed, ftl_init
    PROVE  Typed'
<1>1. lut' \in [Blocks -> Blocks \cup {None}] /\ valid' \in Blocks
    BY TablesTyped DEF ftl_init
<1>2. Shapes'
    BY <1>1 DEF ftl_init, Typed, Shapes, Steps
<1>3. OpLocals' /\ CpLocals'
    BY DEF ftl_init, Typed, OpLocals, CpLocals, Handling, Moving, Testing
<1> QED
    BY <1>2, <1>3 DEF Typed

(* The rank of a block is the number of one.                               *)
LEMMA Rank ==
    ASSUME NEW G \in SUBSET Blocks, NEW b \in Blocks
    PROVE  Cardinality({c \in G : c < b}) \in Blocks
<1> DEFINE S == {c \in G : c < b}
<1>1. b \in Nat /\ b - 1 \in Int /\ b < BlockTotal
    BY Geometry DEF Blocks
<1>2. IsFiniteSet(0..b-1) /\ Cardinality(0..b-1) = b
    BY <1>1, FS_Interval
<1>3. S \in SUBSET (0..b-1)
    <2>1. ASSUME NEW c \in S PROVE c \in 0..b-1
        <3>1. c \in Nat /\ c < b
            BY Geometry DEF Blocks
        <3> QED
            BY <1>1, <3>1
    <2> QED
        BY <2>1
<1>4. IsFiniteSet(S) /\ Cardinality(S) <= b
    BY <1>2, <1>3, FS_Subset
<1>5. Cardinality(S) \in Nat
    BY <1>4, FS_CardinalityType
<1> HIDE DEF S
<1>6. Cardinality(S) \in Blocks
    BY <1>1, <1>4, <1>5, Geometry DEF Blocks
<1> QED
    BY <1>6 DEF S

LEMMA AndedType ==
    ASSUME NEW old \in Blocks \cup {None}, NEW n \in Blocks
    PROVE  Anded(old, n) \in Blocks
<1>1. CASE old = None
    BY <1>1 DEF Anded
<1>2. CASE old # None
    <2> DEFINE C == {0} \cup {m \in 0..Least(old, n) : Bits(m) \subseteq Bits(old) \cap Bits(n)}
    <2>1. C \in SUBSET Blocks /\ C # {}
        BY <1>2, Geometry DEF Least, Blocks
    <2>2. Anded(old, n) = CHOOSE m \in C : \A o \in C : o <= m
        BY <1>2 DEF Anded
    <2> HIDE DEF C
    <2> QED
        BY <2>1, <2>2, MaxExists
<1> QED
    BY <1>1, <1>2

LEMMA WipedTyped ==
    ASSUME Shapes, NEW f
    PROVE  Wiped(f) \in [Blocks -> Block]
BY ErasedBlock DEF Wiped, Shapes

LEMMA FormatTyped ==
    ASSUME Typed, NEW f, NEW k \in 0..BlockTotal, ftl_format(k, f)
    PROVE  Typed'
<1> DEFINE wiped == Wiped(f)
           sound == {b \in Blocks : ~ftl_check_badblock(wiped, b, f.again)}
           rank(b) == Cardinality({c \in sound : c < b})
           fl == [b \in Blocks |->
                  IF b \in sound /\ rank(b) < k /\ <<b, 0>> \notin f.unnumbered
                  THEN [wiped[b] EXCEPT !.lbn = Anded(@, rank(b))] ELSE wiped[b]]
<1>0. wiped \in [Blocks -> Block]
    BY WipedTyped DEF Typed
<1>1. fl \in [Blocks -> Block]
    <2> HIDE DEF wiped
    <2>1. ASSUME NEW b \in Blocks PROVE fl[b] \in Block
        <3>1. rank(b) \in Blocks
            <4>1. sound \in SUBSET Blocks
                OBVIOUS
            <4> HIDE DEF sound
            <4> QED
                BY <4>1, Rank
        <3> HIDE DEF rank, sound
        <3>2. wiped[b] \in Block
            BY <1>0
        <3>3. Anded(wiped[b].lbn, rank(b)) \in Blocks
            BY <3>1, <3>2, AndedType DEF Block
        <3>4. \A n \in Blocks : [wiped[b] EXCEPT !.lbn = n] \in Block
            BY <3>2 DEF Block
        <3> QED
            BY <3>2, <3>3, <3>4
    <2> QED
        BY <2>1
<1>2. flash' = fl
    BY DEF ftl_format
<1> HIDE DEF fl
<1>3. lut' \in [Blocks -> Blocks \cup {None}] /\ valid' \in Blocks
    <2>1. CASE ftl_create_lut(flash')
        BY <2>1, TablesTyped
    <2>2. CASE lut' = Boot.lut /\ valid' = Boot.valid
        BY <2>2, Geometry DEF Boot, Blocks
    <2> QED
        BY <2>1, <2>2 DEF ftl_format
<1>4. pc' \in {"dead", "idle", "off"} /\ cap' \in Blocks
    BY <1>3, Geometry DEF ftl_format, Blocks
<1>5. crashes' \in 0..chip'.cuts /\ chip' = chip
    BY FtlAssumption DEF ftl_format, Typed, Shapes
<1>6. adm' \in [Sectors -> SUBSET Cell]
    BY DEF ftl_format, Cell
<1>7. UNCHANGED <<curblock, op, cp>>
    BY DEF ftl_format
<1>8. Shapes'
    BY <1>1, <1>2, <1>3, <1>4, <1>5, <1>6, <1>7 DEF Typed, Shapes, Steps
<1>9. OpLocals' /\ CpLocals'
    BY <1>4, <1>7 DEF Typed, OpLocals, CpLocals, Handling, Moving, Testing
<1> QED
    BY <1>8, <1>9 DEF Typed

LEMMA FormatFailsTyped ==
    ASSUME Typed, NEW f, FormatFails(f)
    PROVE  Typed'
<1>1. flash' \in [Blocks -> Block]
    BY WipedTyped DEF FormatFails, Typed
<1>2. adm' \in [Sectors -> SUBSET Cell]
    BY DEF FormatFails, Cell
<1>3. Shapes'
    BY <1>1, <1>2 DEF FormatFails, Typed, Shapes, Steps
<1>4. OpLocals' /\ CpLocals'
    BY DEF FormatFails, Typed, OpLocals, CpLocals, Handling, Moving, Testing
<1> QED
    BY <1>3, <1>4 DEF Typed

LEMMA PowerFailTyped ==
    ASSUME Typed, PowerFail
    PROVE  Typed'
<1>1. crashes' \in 0..chip'.cuts
    BY FtlAssumption DEF PowerFail, Typed, Shapes
<1>2. lut' \in [Blocks -> Blocks \cup {None}] /\ valid' \in Blocks /\ curblock' \in 0..BlockTotal
    BY Geometry DEF PowerFail, Boot, Blocks
<1>3. Shapes'
    BY <1>1, <1>2, NoLocals DEF PowerFail, Typed, Shapes, Steps
<1>4. OpLocals' /\ CpLocals'
    BY DEF PowerFail, OpLocals, CpLocals, NoOp, Handling, Moving, Testing
<1> QED
    BY <1>3, <1>4 DEF Typed

LEMMA CallsTyped ==
    ASSUME Typed, Calls
    PROVE  Typed'
<1>1. PICK sec \in HostSectors, cnt \in 1..MaxCount :
          ReadCall(sec, cnt) \/ \E buf \in [0..cnt-1 -> Data] : WriteCall(sec, buf)
    BY DEF Calls
<1>2. sec \in Nat /\ cnt \in 0..MaxCount /\ cnt \in Nat
    BY Geometry, FtlAssumption DEF HostSectors
<1>3. CASE ReadCall(sec, cnt)
    <2>1. op' \in Op /\ op'.kind = "read" /\ op'.i = 0 /\ op'.cnt = cnt
        BY <1>2, <1>3, NoLocals DEF ReadCall, NoOp, Op
    <2>2. Shapes'
        BY <1>3, <2>1 DEF ReadCall, Typed, Shapes, Steps
    <2>3. OpLocals' /\ CpLocals'
        BY <1>2, <1>3, <2>1 DEF ReadCall, OpLocals, CpLocals, Handling, Moving, Testing
    <2> QED
        BY <2>2, <2>3 DEF Typed
<1>4. ASSUME NEW buf \in [0..cnt-1 -> Data], WriteCall(sec, buf) PROVE Typed'
    <2>1. Cardinality(DOMAIN buf) = cnt
        <3>1. DOMAIN buf = 0..cnt-1
            OBVIOUS
        <3>2. Cardinality(0..cnt-1) = cnt
            BY <1>2, FS_Interval
        <3> QED
            BY <3>1, <3>2
    <2>2. buf \in [0..cnt-1 -> Cell]
        BY DEF Cell
    <2>3. buf \in Bufs
        BY <1>2, <2>2, Buffer
    <2>4. op' = [kind |-> "write", sec |-> sec, cnt |-> cnt, buf |-> buf, i |-> 0,
                 markd |-> None]
        BY <1>4, <2>1 DEF WriteCall
    <2>5. op' \in Op
        BY <1>2, <2>3, <2>4, Geometry DEF Op
    <2>6. adm' \in [Sectors -> SUBSET Cell]
        <3>1. \A x \in Sectors : x - sec \in 0..cnt-1 => buf[x - sec] \in Cell
            BY <2>2
        <3> QED
            BY <1>4, <2>1, <3>1 DEF WriteCall, Typed, Shapes
    <2>7. Shapes'
        BY <1>4, <2>5, <2>6 DEF WriteCall, Typed, Shapes, Steps
    <2>8. OpLocals' /\ CpLocals'
        BY <1>2, <1>4, <2>4 DEF WriteCall, OpLocals, CpLocals, Handling, Moving, Testing
    <2> QED
        BY <2>7, <2>8 DEF Typed
<1> QED
    BY <1>1, <1>3, <1>4

LEMMA ReturnsTyped ==
    ASSUME Typed, Finished \/ Unmapped \/ TimesOut
    PROVE  Typed'
<1>1. \E ok \in BOOLEAN : Return(ok)
    BY DEF Finished, Unmapped, TimesOut
<1>2. UNCHANGED <<chip, flash, lut, valid, cap, crashes, curblock>>
    BY DEF Finished, Unmapped, TimesOut
<1> QED
    BY <1>1, <1>2, ReturnTyped DEF Typed, Shapes

(* Replacing the data of a block leaves blocks.                            *)
LEMMA DataTyped ==
    ASSUME Typed, NEW b \in Blocks, NEW d \in [0..BlkSec-1 -> Cell]
    PROVE  [flash EXCEPT ![b].data = d] \in [Blocks -> Block]
BY DEF Typed, Shapes, Block

LEMMA UsedTyped ==
    ASSUME Typed, NEW b \in Blocks
    PROVE  [flash EXCEPT ![b].used = TRUE] \in [Blocks -> Block]
BY DEF Typed, Shapes, Block

(* The request's share of the page, whatever of it gets there.             *)
LEMMA ProgrammedTyped ==
    ASSUME Typed, op.kind = "write", op.i < op.cnt, Pbn # None,
           NEW c \in {New, [k \in PageShare |-> FF], [k \in PageShare |-> Junk]}
    PROVE  [flash EXCEPT ![Pbn].data = Programmed(c)] \in [Blocks -> Block]
<1>1. Pbn \in Blocks
    BY Place DEF Typed
<1>2. ASSUME NEW k \in PageShare PROVE c[k] \in Cell
    <2>1. k - BlockOffset \in 0..InPage-1 /\ InPage \in 1..Rest /\ Rest = op.cnt - op.i
        BY Place, Shares DEF Typed, PageShare
    <2>2. op.i + (k - BlockOffset) \in 0..op.cnt-1
        BY <2>1 DEF Typed, Shapes, Op
    <2>3. op.buf[op.i + (k - BlockOffset)] \in Data
        BY <2>2 DEF Typed, OpLocals
    <2> QED
        BY <2>3 DEF New, Cell
<1>3. Programmed(c) \in [0..BlkSec-1 -> Cell]
    BY <1>1, <1>2 DEF Programmed, Typed, Shapes, Block
<1> QED
    BY <1>1, <1>3, DataTyped

(* The locals of a move of the request's share of a block.                 *)
LEMMA MoveTyped ==
    ASSUME Typed, op.kind = "write", op.i < op.cnt, Pbn # None, Move, op' \in Op,
           op'.i = op.i, op'.cnt = op.cnt
    PROVE  cp' \in Cp /\ CpLocals'
<1> DEFINE B == [k \in 0..InBlock-1 |-> op.buf[op.i + k]]
<1>1. InBlock \in 1..Rest /\ Rest = op.cnt - op.i /\ InBlock \in Nat
    BY Shares DEF Typed, Shapes, Op
<1>2. B \in [0..InBlock-1 -> Cell]
    <2>1. ASSUME NEW k \in 0..InBlock-1 PROVE op.buf[op.i + k] \in Cell
        <3>1. op.i + k \in 0..op.cnt-1
            BY <1>1 DEF Typed, Shapes, Op
        <3> QED
            BY <3>1 DEF Typed, OpLocals, Cell
    <2> QED
        BY <2>1
<1>3. B \in Bufs
    <2> HIDE DEF B
    <2> QED
        BY <1>1, <1>2, Buffer
<1>4. cp' = [src |-> Pbn, off |-> Page, col |-> Col, buf |-> B, from |-> 0,
             n |-> InBlock, take |-> InBlock, dst |-> None, page |-> 0]
    BY DEF Move, NoCp
<1>5. Pbn \in Blocks /\ Page \in Nat /\ Col \in 0..SecPerPage-1 /\ InBlock \in 0..MaxCount
    BY <1>1, Place, Geometry DEF Typed, Shapes, Op
<1> HIDE DEF B
<1>6. cp' \in Cp
    BY <1>3, <1>4, <1>5, Geometry DEF Cp
<1>7. pc' = "find"
    BY DEF Move
<1>8. op.i + InBlock <= op.cnt
    BY <1>1 DEF Typed, Shapes, Op
<1>9. CpLocals'
    BY <1>1, <1>2, <1>4, <1>5, <1>7, <1>8 DEF CpLocals, Handling, Moving, Testing
<1> QED
    BY <1>6, <1>9

(* The request moves on.                                                   *)
LEMMA OpMoves ==
    ASSUME Typed, NEW n \in Nat, op.i + n <= op.cnt, NEW m \in Blocks \cup {None},
           NEW o \in {[op EXCEPT !.i = @ + n], [op EXCEPT !.i = @ + n, !.markd = m]}
    PROVE  /\ o \in Op /\ o.i = op.i + n /\ o.i <= o.cnt /\ o.cnt = op.cnt
           /\ o.kind = op.kind /\ o.buf = op.buf /\ o.sec = op.sec
<1>1. op \in Op /\ op.i \in 0..MaxCount /\ op.cnt \in 0..MaxCount /\ MaxCount \in Nat
    BY Geometry DEF Typed, Shapes, Op
<1>2. op.i + n \in 0..MaxCount
    BY <1>1
<1> DEFINE j == op.i + n
<1>3. o = [op EXCEPT !.i = j] \/ o = [op EXCEPT !.i = j, !.markd = m]
    OBVIOUS
<1>4. j \in 0..MaxCount /\ j <= op.cnt
    BY <1>2
<1> HIDE DEF j
<1>5. /\ o \in Op /\ o.i = j /\ o.cnt = op.cnt
      /\ o.kind = op.kind /\ o.buf = op.buf /\ o.sec = op.sec
    BY <1>1, <1>3, <1>4 DEF Op
<1> QED
    BY <1>4, <1>5 DEF j

LEMMA WriteTyped ==
    ASSUME Typed, WritePage \/ WriteMark \/ WriteMove
    PROVE  Typed'
<1>1. CASE WritePage
    <2>1. flash' \in [Blocks -> Block]
        BY <1>1, ProgrammedTyped DEF WritePage
    <2>2. InPage \in Nat /\ op.i + InPage <= op.cnt
        BY <1>1, Shares DEF WritePage, Typed, Shapes, Op
    <2>3. op' = op \/ op' = [op EXCEPT !.i = @ + InPage]
        BY <1>1 DEF WritePage
    <2>4. /\ op' \in Op /\ op'.i <= op'.cnt /\ op'.kind = "write" /\ op'.buf = op.buf
          /\ op'.cnt = op.cnt
        <3>1. CASE op' = op
            BY <1>1, <3>1 DEF WritePage, Typed, Shapes, OpLocals
        <3>2. CASE op' = [op EXCEPT !.i = @ + InPage]
            BY <1>1, <2>2, <3>2, OpMoves DEF WritePage
        <3> QED
            BY <2>3, <3>1, <3>2
    <2>5. (pc' = "mark" /\ op' = op) \/ pc' = "loop"
        BY <1>1 DEF WritePage
    <2>6. Shapes'
        BY <1>1, <2>1, <2>4, <2>5 DEF WritePage, Typed, Shapes, Steps
    <2>7. pc' = "mark" => op'.i < op'.cnt /\ Pbn' # None
        BY <1>1, <2>5 DEF WritePage, Pbn, ftl_lbn_to_pbn, Sec
    <2>8. OpLocals' /\ CpLocals'
        BY <1>1, <2>4, <2>5, <2>7
            DEF WritePage, Typed, OpLocals, CpLocals, Handling, Moving, Testing
    <2> QED
        BY <2>6, <2>8 DEF Typed
<1>2. CASE WriteMark
    <2>0. pc = "mark" /\ op.kind = "write" /\ op.i < op.cnt /\ Pbn \in Blocks
        BY <1>2, Place DEF WriteMark, Typed, OpLocals
    <2>1. CASE /\ flash' = [flash EXCEPT ![Pbn].used = TRUE]
               /\ op' = [op EXCEPT !.i = @ + InPage, !.markd = Pbn]
               /\ pc' = "loop" /\ UNCHANGED cp
        <3>1. flash' \in [Blocks -> Block]
            BY <2>0, <2>1, UsedTyped
        <3>2. InPage \in Nat /\ op.i + InPage <= op.cnt
            BY <2>0, Shares DEF Typed, Shapes, Op
        <3>3. /\ op' \in Op /\ op'.i <= op'.cnt /\ op'.kind = "write"
              /\ op'.buf = op.buf /\ op'.cnt = op.cnt
            BY <2>0, <2>1, <3>2, OpMoves
        <3>5. Shapes'
            BY <1>2, <2>1, <3>1, <3>3 DEF WriteMark, Typed, Shapes, Steps
        <3>6. OpLocals' /\ CpLocals'
            BY <2>0, <2>1, <3>3 DEF Typed, OpLocals, CpLocals, Handling, Moving, Testing
        <3> QED
            BY <3>5, <3>6 DEF Typed
    <2>2. CASE /\ op' = [op EXCEPT !.markd = Pbn] /\ Move
               /\ flash' \in {flash, [flash EXCEPT ![Pbn].used = TRUE]}
        <3>0. flash' \in [Blocks -> Block]
            BY <2>0, <2>2, UsedTyped DEF Typed, Shapes
        <3>1. op' \in Op /\ op'.i = op.i /\ op'.cnt = op.cnt /\ op'.buf = op.buf
            BY <2>0, <2>2 DEF Typed, Shapes, Op
        <3>2. cp' \in Cp /\ CpLocals'
            BY <2>0, <2>2, <3>1, MoveTyped, Geometry
        <3>3. pc' = "find"
            BY <2>2 DEF Move
        <3>4. Shapes'
            BY <1>2, <2>2, <3>0, <3>1, <3>2, <3>3 DEF WriteMark, Typed, Shapes, Steps
        <3>5. OpLocals'
            BY <2>0, <3>1, <3>3 DEF Typed, OpLocals
        <3> QED
            BY <3>2, <3>4, <3>5 DEF Typed
    <2> QED
        BY <1>2, <2>1, <2>2 DEF WriteMark
<1>3. CASE WriteMove
    <2>1. flash' \in [Blocks -> Block]
        BY <1>3, ProgrammedTyped DEF WriteMove, Typed, Shapes
    <2>2. cp' \in Cp /\ CpLocals'
        BY <1>3, MoveTyped DEF WriteMove, Typed, Shapes
    <2>3. pc' = "find"
        BY <1>3 DEF WriteMove, Move
    <2>4. Shapes'
        BY <1>3, <2>1, <2>2, <2>3 DEF WriteMove, Typed, Shapes, Steps
    <2>5. OpLocals'
        BY <1>3, <2>3 DEF WriteMove, Typed, OpLocals
    <2> QED
        BY <2>2, <2>4, <2>5 DEF Typed
<1> QED
    BY <1>1, <1>2, <1>3

LEMMA ReadTyped ==
    ASSUME Typed, ReadPage \/ ReadMove
    PROVE  Typed'
<1>0. op.kind = "read" /\ op.i < op.cnt /\ Pbn \in Blocks /\ InPage \in 1..Rest
      /\ Rest = op.cnt - op.i /\ InPage <= SecPerPage - Col /\ InPage \in 0..MaxCount
      /\ InPage \in Nat
    BY Shares, Place, Geometry DEF ReadPage, ReadMove, Typed, Shapes, Op
<1>1. CASE ReadPage
    <2>1. op.i + InPage <= op.cnt /\ op' = [op EXCEPT !.i = @ + InPage]
        BY <1>0, <1>1 DEF ReadPage, Typed, Shapes, Op
    <2>2. op' \in Op /\ op'.i <= op'.cnt /\ op'.kind = "read"
        BY <1>0, <2>1, OpMoves
    <2>3. Shapes'
        BY <1>1, <2>2 DEF ReadPage, Typed, Shapes, Steps
    <2>4. OpLocals' /\ CpLocals'
        BY <1>1, <2>2 DEF ReadPage, Typed, OpLocals, CpLocals, Handling, Moving, Testing
    <2> QED
        BY <2>3, <2>4 DEF Typed
<1>2. CASE ReadMove
    <2> DEFINE B == [k \in 0..InPage-1 |-> flash[Pbn].data[BlockOffset + k]]
    <2>1. B \in [0..InPage-1 -> Cell]
        <3>1. InPage <= BlkSec - BlockOffset
            <4> DEFINE q == BlockOffset \div SecPerPage
            <4>1. BlockOffset \in Nat /\ BlockOffset < BlkSec /\ BlkSec = PageNum * SecPerPage
                BY Place, Geometry DEF Typed, BlkSec
            <4>2. q \in Nat /\ BlockOffset = SecPerPage * q + Col /\ Col \in 0..SecPerPage-1
                BY <4>1, DivMod, Geometry DEF Col
            <4> HIDE DEF q
            <4>3. q < PageNum
                <5>1. q >= PageNum => SecPerPage * q >= PageNum * SecPerPage
                    BY <4>2, Geometry
                <5> QED
                    BY <4>1, <4>2, <5>1, Geometry
            <4>4. SecPerPage * q + SecPerPage <= PageNum * SecPerPage
                <5>1. SecPerPage * (q + 1) <= SecPerPage * PageNum
                    BY <4>2, <4>3, Geometry
                <5> QED
                    BY <4>2, <5>1, Geometry
            <4> QED
                BY <1>0, <4>1, <4>2, <4>4, Geometry
        <3>2. ASSUME NEW k \in 0..InPage-1 PROVE flash[Pbn].data[BlockOffset + k] \in Cell
            <4>1. BlockOffset + k \in 0..BlkSec-1
                BY <1>0, <3>1, Place, Geometry DEF Typed
            <4> QED
                BY <1>0, <4>1 DEF Typed, Shapes, Block
        <3> QED
            BY <3>2
    <2>2. B \in Bufs
        <3> HIDE DEF B
        <3> QED
            BY <1>0, <2>1, Buffer
    <2>3. cp' = [src |-> Pbn, off |-> Page, col |-> Col, buf |-> B, from |-> 0,
                 n |-> InPage, take |-> InPage, dst |-> None, page |-> 0]
        BY <1>2 DEF ReadMove, NoCp
    <2> HIDE DEF B
    <2>4. cp' \in Cp
        BY <1>0, <2>2, <2>3, Place, Geometry DEF Cp, Typed
    <2>5. Shapes'
        BY <1>2, <2>4 DEF ReadMove, Typed, Shapes, Steps
    <2>6. op.i + InPage <= op.cnt
        BY <1>0 DEF Typed, Shapes, Op
    <2>7. /\ cp'.src = Pbn /\ cp'.from = 0 /\ cp'.n = InPage /\ cp'.take = InPage
          /\ cp'.buf = B /\ pc' = "find" /\ op' = op
        <3>1. pc' = "find" /\ op' = op
            BY <1>2 DEF ReadMove
        <3> QED
            BY <2>3, <3>1
    <2>8. OpLocals'
        BY <2>7 DEF Typed, OpLocals
    <2>9. CpLocals'
        BY <1>0, <2>1, <2>6, <2>7 DEF CpLocals, Handling, Moving, Testing
    <2> QED
        BY <2>5, <2>8, <2>9 DEF Typed
<1> QED
    BY <1>1, <1>2


(* A page of the copy.                                                     *)
LEMMA WrLenType ==
    ASSUME Typed, pc = "copy"
    PROVE  /\ WrLen \in 0..cp.n /\ cp.n \in Nat /\ cp.from \in Nat /\ cp.take \in Nat
           /\ cp.col \in Nat /\ cp.page \in Nat /\ WrLen <= SecPerPage - cp.col
           /\ cp.from + cp.n = cp.take
BY Geometry DEF WrLen, Writing, Least, Typed, Shapes, Cp, CpLocals, Handling, Moving

LEMMA WantedType ==
    ASSUME Typed, pc = "copy", NEW k \in 0..BlkSec-1
    PROVE  Wanted(k) \in Cell
<1> DEFINE first == cp.page * SecPerPage + cp.col
<1>0. Wanted(k) = IF k \in first..first+WrLen-1 THEN cp.buf[cp.from + (k - first)]
                  ELSE flash[cp.src].data[k]
    BY DEF Wanted
<1>1. first \in Nat
    BY WrLenType, Geometry
<1> HIDE DEF first
<1>2. CASE k \in first..first+WrLen-1
    <2>1. k - first \in 0..WrLen-1
        BY <1>1, <1>2, WrLenType
    <2>2. cp.from + (k - first) \in 0..cp.take-1
        BY <2>1, WrLenType
    <2>3. cp.buf[cp.from + (k - first)] \in Cell
        BY <2>2 DEF Typed, CpLocals, Handling, Moving
    <2> QED
        BY <1>0, <1>2, <2>3
<1>3. CASE k \notin first..first+WrLen-1
    <2>1. Wanted(k) = flash[cp.src].data[k]
        BY <1>0, <1>3
    <2>2. cp.src \in Blocks /\ flash[cp.src] \in Block
        BY DEF Typed, Shapes, CpLocals, Handling, Moving
    <2> QED
        BY <2>1, <2>2 DEF Block
<1> QED
    BY <1>2, <1>3

LEMMA CopiedType ==
    ASSUME Typed, pc = "copy", NEW blk \in Block
    PROVE  Copied(blk) \in Block
<1> DEFINE D == [k \in 0..BlkSec-1 |->
                    IF k \in PageCells THEN Prog(blk.data[k], Wanted(k)) ELSE blk.data[k]]
           L == IF cp.page = 0 THEN flash[cp.src].lbn ELSE blk.lbn
           U == blk.used \/ (cp.page = 0 /\ flash[cp.src].used)
           B0 == blk.bad0 \/ (cp.page = 0 /\ flash[cp.src].bad0)
           B1 == blk.bad1 \/ (cp.page = 1 /\ flash[cp.src].bad1)
<1>1. Copied(blk) = [blk EXCEPT !.bad0 = B0, !.bad1 = B1, !.used = U, !.lbn = L, !.data = D]
    BY DEF Copied, Block
<1>2. D \in [0..BlkSec-1 -> Cell]
    <2>1. ASSUME NEW k \in 0..BlkSec-1 PROVE Prog(blk.data[k], Wanted(k)) \in Cell
        BY WantedType DEF Prog, Cell, Block
    <2>2. \A k \in 0..BlkSec-1 : blk.data[k] \in Cell
        BY DEF Block
    <2> QED
        BY <2>1, <2>2
<1>3. L \in Blocks \cup {None} /\ U \in BOOLEAN /\ B0 \in BOOLEAN /\ B1 \in BOOLEAN
    BY DEF Typed, Shapes, Block, CpLocals, Handling, Moving
<1> HIDE DEF D, L, U, B0, B1
<1> QED
    BY <1>1, <1>2, <1>3 DEF Block

(* The locals after a page.                                                *)
LEMMA ConsumedType ==
    ASSUME Typed, pc = "copy"
    PROVE  /\ Consumed \in Cp /\ Consumed.src = cp.src /\ Consumed.dst = cp.dst
           /\ Consumed.take = cp.take /\ Consumed.buf = cp.buf
           /\ Consumed.page = cp.page /\ Consumed.off = cp.off
           /\ Consumed.from = cp.from + WrLen /\ Consumed.n = cp.n - WrLen
           /\ Consumed.col = IF Writing THEN 0 ELSE cp.col
<1> DEFINE f == cp.from + WrLen
           n == cp.n - WrLen
           c == IF Writing THEN 0 ELSE cp.col
<1>1. cp \in Cp /\ MaxCount \in Nat /\ cp.take \in 0..MaxCount /\ cp.n \in 0..MaxCount
    BY Geometry DEF Typed, Shapes, Cp
<1>2. f \in 0..MaxCount /\ n \in 0..MaxCount
    BY <1>1, WrLenType
<1>3. c \in 0..SecPerPage-1
    BY Geometry DEF Typed, Shapes, Cp
<1>4. Consumed = [cp EXCEPT !.col = c, !.from = f, !.n = n]
    BY <1>1 DEF Consumed, Cp
<1> HIDE DEF f, n, c
<1>5. /\ Consumed \in Cp /\ Consumed.src = cp.src /\ Consumed.dst = cp.dst
      /\ Consumed.take = cp.take /\ Consumed.buf = cp.buf
      /\ Consumed.page = cp.page /\ Consumed.off = cp.off
      /\ Consumed.from = f /\ Consumed.n = n /\ Consumed.col = c
    BY <1>1, <1>2, <1>3, <1>4 DEF Cp
<1> QED
    BY <1>5 DEF f, n, c

LEMMA PageTyped ==
    ASSUME Typed, CopyPage
    PROVE  Typed'
<1>1. pc = "copy" /\ cp.page < PageNum /\ cp.src \in Blocks /\ cp.dst \in Blocks
    BY DEF CopyPage, Typed, CpLocals, Handling, Moving
<1>2. flash' \in [Blocks -> Block]
    <2>1. flash[cp.dst] \in Block /\ Copied(flash[cp.dst]) \in Block
        BY <1>1, CopiedType DEF Typed, Shapes
    <2>2. flash' = flash \/ flash' = [flash EXCEPT ![cp.dst] = Copied(flash[cp.dst])]
        BY DEF CopyPage
    <2> QED
        BY <1>1, <2>1, <2>2, Replaced DEF Typed, Shapes
<1>3. \/ cp' = Consumed /\ pc' = "bad"
      \/ cp' = [Consumed EXCEPT !.page = cp.page + 1] /\ pc' = "copy"
    <2>1. Consumed.page = cp.page
        BY <1>1, ConsumedType
    <2> QED
        BY <1>1, <2>1 DEF CopyPage
<1>4. cp.page + 1 \in 0..PageNum
    BY <1>1, Geometry DEF Typed, Shapes, Cp
<1>5. /\ cp' \in Cp /\ cp'.src = cp.src /\ cp'.dst = cp.dst /\ cp'.take = cp.take
      /\ cp'.buf = cp.buf /\ cp'.from = cp.from + WrLen /\ cp'.n = cp.n - WrLen
    BY <1>1, <1>3, <1>4, ConsumedType DEF Cp
<1>6. cp'.from + cp'.n = cp.take
    BY <1>1, <1>5, WrLenType
<1>7. op' = op /\ pc' \in {"copy", "bad"}
    BY <1>3 DEF CopyPage
<1>8. Shapes'
    BY <1>2, <1>5, <1>7 DEF CopyPage, Typed, Shapes, Steps
<1>9. OpLocals'
    BY <1>7 DEF Typed, OpLocals
<1>10. CpLocals'
    BY <1>1, <1>5, <1>6, <1>7 DEF Typed, CpLocals, Handling, Moving, Testing
<1> QED
    BY <1>8, <1>9, <1>10 DEF Typed

LEMMA CopyTyped ==
    ASSUME Typed, CopyFind \/ CopyBad \/ CopyUsed \/ CopyErase
    PROVE  Typed'
<1>1. CASE CopyFind
    <2>5. PICK S \in SUBSET Silent, again \in SUBSET Silent :
              LET f == FindSamePlane(cp.src, S, again)
              IN  /\ curblock' = f[2]
                  /\ \/ /\ f[1] # None
                        /\ cp' = [cp EXCEPT !.dst = f[1], !.page = 0]
                        /\ pc' = "copy"
                        /\ UNCHANGED <<op, adm>>
                     \/ /\ f[1] = None
                        /\ \/ op.kind = "write" /\ Return(FALSE)
                           \/ op.kind = "read" /\ pc' = "ones" /\ UNCHANGED <<op, cp, adm>>
        BY <1>1 DEF CopyFind
    <2> DEFINE f == FindSamePlane(cp.src, S, again)
    <2>0. f[1] \in Blocks \cup {None} /\ f[2] \in 0..BlockTotal /\ curblock' = f[2]
        BY <2>5, Found DEF Typed, Shapes
    <2>1. pc = "find" /\ UNCHANGED <<chip, flash, lut, valid, cap, crashes>>
        BY <1>1 DEF CopyFind
    <2> HIDE DEF f
    <2>2. CASE f[1] # None /\ cp' = [cp EXCEPT !.dst = f[1], !.page = 0] /\ pc' = "copy"
               /\ UNCHANGED <<op, adm>>
        <3>0. cp \in Cp /\ f[1] \in Blocks /\ 0 \in 0..PageNum
            BY <2>0, <2>2, Geometry DEF Typed, Shapes
        <3>1. cp' \in Cp
            BY <2>2, <3>0 DEF Cp
        <3>2. /\ cp'.src = cp.src /\ cp'.from = cp.from /\ cp'.n = cp.n /\ cp'.take = cp.take
              /\ cp'.buf = cp.buf /\ cp'.dst \in Blocks
            BY <2>0, <2>2 DEF Typed, Shapes, Cp
        <3>3. Shapes'
            BY <2>0, <2>1, <2>2, <3>1 DEF Typed, Shapes, Steps
        <3>4. OpLocals' /\ CpLocals'
            BY <2>1, <2>2, <3>2 DEF Typed, OpLocals, CpLocals, Handling, Moving, Testing
        <3> QED
            BY <3>3, <3>4 DEF Typed
    <2>3. CASE Return(FALSE)
        BY <2>0, <2>1, <2>3, ReturnTyped
    <2>4. CASE pc' = "ones" /\ UNCHANGED <<op, cp, adm>>
        <3>1. Shapes'
            BY <2>0, <2>1, <2>4 DEF Typed, Shapes, Steps
        <3>2. OpLocals' /\ CpLocals'
            BY <2>1, <2>4 DEF Typed, OpLocals, CpLocals, Handling, Moving, Testing
        <3> QED
            BY <3>1, <3>2 DEF Typed
    <2> QED
        BY <2>2, <2>3, <2>4, <2>5 DEF f
<1>2. CASE CopyBad
    <2>0. pc = "bad" /\ pc' = "find" /\ cp.dst \in Blocks /\ UNCHANGED <<op, cp>>
        BY <1>2 DEF CopyBad, Typed, CpLocals, Moving
    <2>1. flash' \in [Blocks -> Block]
        BY <1>2, <2>0, ErasedBlock DEF CopyBad, Typed, Shapes
    <2>2. lut' \in [Blocks -> Blocks \cup {None}] /\ valid' \in Blocks
        BY <1>2, TablesTyped DEF CopyBad
    <2>3. Shapes'
        BY <1>2, <2>1, <2>2 DEF CopyBad, Typed, Shapes, Steps
    <2>4. OpLocals' /\ CpLocals'
        BY <2>0 DEF Typed, OpLocals, CpLocals, Handling, Moving, Testing
    <2> QED
        BY <2>3, <2>4 DEF Typed
<1>3. CASE CopyUsed
    <2>0. pc = "copy" /\ pc' = "erase" /\ cp.dst \in Blocks /\ UNCHANGED <<op, cp>>
        BY <1>3 DEF CopyUsed, Typed, CpLocals, Moving
    <2>1. flash' \in [Blocks -> Block]
        BY <1>3, <2>0, UsedTyped DEF CopyUsed, Typed, Shapes
    <2>2. Shapes'
        BY <1>3, <2>1 DEF CopyUsed, Typed, Shapes, Steps
    <2>3. OpLocals' /\ CpLocals'
        BY <2>0 DEF Typed, OpLocals, CpLocals, Handling, Moving, Testing
    <2> QED
        BY <2>2, <2>3 DEF Typed
<1>4. CASE CopyErase
    <2>0. pc = "erase" /\ cp.dst \in Blocks /\ cp.src \in Blocks /\ cp.take \in Nat
          /\ op.i + cp.take <= op.cnt
        BY <1>4, Geometry DEF CopyErase, Typed, CpLocals, Handling, Moving, Shapes, Cp
    <2>1. flash' \in [Blocks -> Block]
        BY <1>4, <2>0, ErasingBlock DEF CopyErase, Typed, Shapes
    <2>2. lut' \in [Blocks -> Blocks \cup {None}]
        BY <1>4, <2>0 DEF CopyErase, Typed, Shapes
    <2>3. CASE op' = [op EXCEPT !.i = @ + cp.take] /\ cp' = NoCp /\ pc' = "loop"
        <3>1. /\ op' \in Op /\ op'.i <= op'.cnt /\ op'.cnt = op.cnt
              /\ op'.kind = op.kind /\ op'.buf = op.buf
            BY <2>0, <2>3, OpMoves
        <3>2. Shapes'
            BY <1>4, <2>1, <2>2, <2>3, <3>1, NoLocals DEF CopyErase, Typed, Shapes, Steps
        <3>3. OpLocals' /\ CpLocals'
            BY <2>3, <3>1 DEF Typed, OpLocals, CpLocals, Handling, Moving, Testing
        <3> QED
            BY <3>2, <3>3 DEF Typed
    <2>4. CASE pc' = "ones" /\ UNCHANGED <<op, cp>>
        <3>1. Shapes'
            BY <1>4, <2>1, <2>2, <2>4 DEF CopyErase, Typed, Shapes, Steps
        <3>2. OpLocals' /\ CpLocals'
            BY <2>0, <2>4 DEF Typed, OpLocals, CpLocals, Handling, Moving, Testing
        <3> QED
            BY <3>1, <3>2 DEF Typed
    <2> QED
        BY <1>4, <2>3, <2>4 DEF CopyErase
<1> QED
    BY <1>1, <1>2, <1>3, <1>4

(* The request goes on behind the page that was moved.                     *)
LEMMA AdvanceTyped ==
    ASSUME Typed, Testing, Advance
    PROVE  op' \in Op /\ cp' \in Cp /\ OpLocals' /\ CpLocals' /\ pc' = "loop"
<1>1. cp.take \in Nat /\ op.i + cp.take <= op.cnt
    BY Geometry DEF Typed, CpLocals, Shapes, Cp
<1>2. op' = [op EXCEPT !.i = @ + cp.take] /\ cp' = NoCp /\ pc' = "loop"
    BY DEF Advance
<1>3. /\ op' \in Op /\ op'.i <= op'.cnt /\ op'.cnt = op.cnt
      /\ op'.kind = op.kind /\ op'.buf = op.buf
    BY <1>1, <1>2, OpMoves
<1> QED
    BY <1>2, <1>3, NoLocals DEF Typed, OpLocals, CpLocals, Handling, Moving, Testing

(* What a test leaves is a block.                                          *)
LEMMA ComparedBlock ==
    ASSUME Shapes, NEW b \in Blocks, NEW equal, NEW fresh \in SUBSET Block,
           NEW r \in ftl_blockcompare(b, equal, fresh)
    PROVE  r[2] \in Block
BY DEF ftl_blockcompare, Shapes

LEMMA Compares ==
    ASSUME Typed, cp.src \in Blocks, NEW equal, NEW fresh \in SUBSET Block,
           \E r \in ftl_blockcompare(cp.src, equal, fresh) :
               flash' = [flash EXCEPT ![cp.src] = r[2]]
    PROVE  flash' \in [Blocks -> Block]
<1>1. PICK r \in ftl_blockcompare(cp.src, equal, fresh) :
          flash' = [flash EXCEPT ![cp.src] = r[2]]
    OBVIOUS
<1>2. r[2] \in Block
    BY ComparedBlock DEF Typed
<1> QED
    BY <1>1, <1>2, Replaced DEF Typed

LEMMA ZeroedBlock ==
    ASSUME NEW b
    PROVE  Zeroed(b) \in SUBSET Block
<1>1. ASSUME NEW Q
      PROVE  [Erased EXCEPT !.data = [k \in 0..BlkSec-1 |->
                                        IF k \div SecPerPage \in Q THEN FF ELSE Junk]] \in Block
    BY ErasedBlock DEF Block, Cell
<1> QED
    BY <1>1 DEF Zeroed

LEMMA TestTyped ==
    ASSUME Typed, TestOnes \/ TestZeros \/ TestErase \/ Retire
    PROVE  Typed'
<1>0. Testing /\ cp.src \in Blocks /\ op.i + cp.take <= op.cnt
    BY DEF TestOnes, TestZeros, TestErase, Retire, Typed, CpLocals, Testing
<1>1. flash' \in [Blocks -> Block]
    <2>1. CASE TestOnes
        <3>1. {Erased} \in SUBSET Block
            BY ErasedBlock
        <3> QED
            BY <1>0, <2>1, <3>1, Compares DEF TestOnes
    <2>2. CASE TestZeros
        BY <1>0, <2>2, ZeroedBlock, Compares DEF TestZeros
    <2>3. CASE TestErase
        BY <1>0, <2>3, ErasingBlock, Replaced DEF TestErase, Typed
    <2>4. CASE Retire
        BY <1>0, <2>4, ErasedBlock, Replaced DEF Retire, Typed, Shapes
    <2> QED
        BY <2>1, <2>2, <2>3, <2>4
<1>2. lut' \in [Blocks -> Blocks \cup {None}] /\ valid' \in Blocks
    BY TablesTyped DEF TestOnes, TestZeros, TestErase, Retire, Typed, Shapes
<1>3. UNCHANGED <<chip, curblock, adm, cap, crashes>>
    BY DEF TestOnes, TestZeros, TestErase, Retire
<1>4. CASE Advance
    <2>1. Shapes'
        BY <1>0, <1>1, <1>2, <1>3, <1>4, AdvanceTyped DEF Typed, Shapes, Steps
    <2> QED
        BY <1>0, <1>4, <2>1, AdvanceTyped DEF Typed
<1>5. CASE pc' \in {"zeros", "wipe", "scrap", "retire"} /\ UNCHANGED <<op, cp>>
    <2>1. Shapes'
        BY <1>1, <1>2, <1>3, <1>5 DEF Typed, Shapes, Steps
    <2>2. OpLocals' /\ CpLocals'
        BY <1>0, <1>5 DEF Typed, OpLocals, CpLocals, Handling, Moving, Testing
    <2> QED
        BY <2>1, <2>2 DEF Typed
<1> QED
    BY <1>4, <1>5 DEF TestOnes, TestZeros, TestErase, Retire

LEMMA NextTyped ==
    ASSUME Typed, [Next]_vars
    PROVE  Typed'
<1>1. CASE Calls
    BY <1>1, CallsTyped
<1>2. CASE PowerFail
    BY <1>2, PowerFailTyped
<1>3. CASE Work
    <2>1. CASE ftl_init
        BY <2>1, InitCallTyped
    <2>2. ASSUME NEW f \in FormatFaults, FormatFails(f) \/ \E k \in 0..BlockTotal : ftl_format(k, f)
          PROVE  Typed'
        BY <2>2, FormatTyped, FormatFailsTyped
    <2>3. CASE Finished \/ Unmapped \/ TimesOut
        BY <2>3, ReturnsTyped
    <2>4. CASE WritePage \/ WriteMark \/ WriteMove
        BY <2>4, WriteTyped
    <2>5. CASE CopyFind \/ CopyBad \/ CopyUsed \/ CopyErase
        BY <2>5, CopyTyped
    <2>6. CASE CopyPage
        BY <2>6, PageTyped
    <2>7. CASE ReadPage \/ ReadMove
        BY <2>7, ReadTyped
    <2>8. CASE TestOnes \/ TestZeros \/ TestErase \/ Retire
        BY <2>8, TestTyped
    <2> QED
        BY <1>3, <2>1, <2>2, <2>3, <2>4, <2>5, <2>6, <2>7, <2>8 DEF Work
<1>4. CASE UNCHANGED vars
    <2>1. Shapes' /\ OpLocals'
        BY <1>4 DEF vars, Typed, Shapes, OpLocals, Pbn, ftl_lbn_to_pbn, Sec
    <2>2. CpLocals'
        BY <1>4 DEF vars, Typed, CpLocals, Handling, Moving, Testing
    <2> QED
        BY <2>1, <2>2 DEF Typed
<1> QED
    BY <1>1, <1>2, <1>3, <1>4 DEF Next

LEMMA TypedAlways == Spec => []Typed
<1>1. Init => Typed
    BY InitTyped
<1>2. Typed /\ [Next]_vars => Typed'
    BY NextTyped
<1> QED
    BY <1>1, <1>2, PTL DEF Spec

(* For every geometry and chip the blocks, tables and locals of ftl.c keep *)
(* their types: no entry of the table and no copy leads outside the chip,  *)
(* no request reads behind its buffer, and retries end inside theirs.      *)
THEOREM FtlTypes == Spec => []TypeOK
<1>1. Typed => TypeOK
    <2> SUFFICES ASSUME Typed PROVE TypeOK
        OBVIOUS
    <2>1. valid \in 0..BlockTotal
        BY Geometry DEF Typed, Shapes, Blocks
    <2>2. op.i \in 0..MaxCount /\ cp.n \in 0..MaxCount /\ cp.page \in 0..PageNum
        BY DEF Typed, Shapes, Op, Cp
    <2> QED
        BY <2>1, <2>2 DEF Typed, Shapes, TypeOK, Steps, Block
<1> QED
    BY <1>1, TypedAlways, PTL

-----------------------------------------------------------------------------
(* The numbers the blocks carry.                                           *)

(* No step changes the chip.                                               *)
LEMMA ChipKept ==
    ASSUME [Next]_vars
    PROVE  chip' = chip
<1>1. CASE Calls
    BY <1>1 DEF Calls, ReadCall, WriteCall
<1>2. CASE PowerFail
    BY <1>2 DEF PowerFail
<1>3. CASE Work
    BY <1>3 DEF Work, ftl_init, FormatFails, ftl_format, Finished, Unmapped, TimesOut, WritePage,
                WriteMark, WriteMove, CopyFind, CopyPage, CopyBad, CopyUsed, CopyErase, ReadPage,
                ReadMove, TestOnes, TestZeros, TestErase, Retire
<1> QED
    BY <1>1, <1>2, <1>3 DEF Next, vars

LEMMA TagsAnswerStill ==
    ASSUME [Next]_vars
    PROVE  TagsAnswer' <=> TagsAnswer
BY ChipKept DEF TagsAnswer, TagPages

(* A bad block has the first mark and no number; the destination of a copy *)
(* is good until the source's tags are on it.                              *)
BadBare ==
    /\ \A b \in Blocks : Marked(b) => flash[b].bad0 /\ flash[b].lbn = None
    /\ pc = "copy" =>
         IF cp.page = 0 THEN ~Marked(cp.dst)
         ELSE /\ flash[cp.dst].lbn = flash[cp.src].lbn
              /\ flash[cp.src].bad0 => flash[cp.dst].bad0

(* While power stays on and erases succeed, two blocks carry one number    *)
(* only as the source and the destination of the copy in progress.         *)
Unique ==
    crashes = 0 /\ chip.worn = {} =>
        \A b, c \in Blocks :
            flash[b].lbn # None /\ flash[b].lbn = flash[c].lbn =>
                b = c \/ (Moving /\ {b, c} = {cp.src, cp.dst})

Tagged == BadBare /\ Unique

(* What a step does to the marks and the number of a block.                *)
TagsKept(b) == /\ flash'[b].bad0 = flash[b].bad0 /\ flash'[b].bad1 = flash[b].bad1
               /\ flash'[b].lbn = flash[b].lbn
Blank(b) == ~flash'[b].bad0 /\ ~flash'[b].bad1 /\ flash'[b].lbn = None
Retired(b) == flash'[b].bad0 /\ flash'[b].bad1 /\ flash'[b].lbn = None
OthersKept(b) == \A c \in Blocks \ {b} : flash'[c] = flash[c]

Quiet == \/ Calls \/ ftl_init \/ Finished \/ Unmapped \/ TimesOut \/ WritePage \/ WriteMark
         \/ WriteMove \/ CopyFind \/ CopyUsed \/ ReadPage \/ ReadMove \/ PowerFail
Tests == TestOnes \/ TestZeros \/ TestErase \/ Retire

(* Writing data and the used mark leaves the tags alone.                   *)
LEMMA QuietTags ==
    ASSUME Typed, Quiet
    PROVE  /\ \A b \in Blocks : TagsKept(b)
           /\ Moving' => \/ CopyFind /\ pc' = "copy"
                         \/ CopyUsed /\ Moving /\ cp' = cp
           /\ Moving => CopyUsed \/ crashes' # 0
           /\ crashes' = 0 => crashes = 0
<1>1. CASE Calls
    <2>1. pc = "idle" /\ pc' = "loop" /\ flash' = flash /\ crashes' = crashes
        BY <1>1 DEF Calls, ReadCall, WriteCall
    <2> QED
        BY <2>1 DEF TagsKept, Moving
<1>2. CASE ftl_init
    <2>1. pc \in {"off", "dead", "idle"} /\ pc' \in {"format", "idle"} /\ flash' = flash
          /\ crashes' = crashes
        BY <1>2 DEF ftl_init
    <2> QED
        BY <2>1 DEF TagsKept, Moving
<1>3. CASE Finished \/ Unmapped \/ TimesOut
    <2>1. pc = "loop" /\ pc' = "idle" /\ flash' = flash /\ crashes' = crashes
        BY <1>3 DEF Finished, Unmapped, TimesOut, Return
    <2> QED
        BY <2>1 DEF TagsKept, Moving
<1>4. CASE WritePage \/ WriteMark \/ WriteMove
    <2>1. pc \in {"loop", "mark"} /\ pc' \in {"mark", "loop", "find"} /\ crashes' = crashes
        BY <1>4 DEF WritePage, WriteMark, WriteMove, Move
    <2>2. \/ flash' = flash
          \/ flash' = [flash EXCEPT ![Pbn].used = TRUE]
          \/ \E c : flash' = [flash EXCEPT ![Pbn].data = Programmed(c)]
        BY <1>4 DEF WritePage, WriteMark, WriteMove
    <2>3. ASSUME NEW b \in Blocks PROVE TagsKept(b)
        BY <2>2 DEF TagsKept, Typed, Shapes, Block
    <2> QED
        BY <2>1, <2>3 DEF Moving
<1>5. CASE CopyFind
    <2>1. pc = "find" /\ pc' \in {"copy", "idle", "ones"} /\ flash' = flash /\ crashes' = crashes
        BY <1>5 DEF CopyFind, Return
    <2> QED
        BY <1>5, <2>1 DEF TagsKept, Moving
<1>6. CASE CopyUsed
    <2>1. pc = "copy" /\ crashes' = crashes /\ cp' = cp
          /\ (flash' = flash \/ flash' = [flash EXCEPT ![cp.dst].used = TRUE])
        BY <1>6 DEF CopyUsed
    <2>2. ASSUME NEW b \in Blocks PROVE TagsKept(b)
        BY <2>1 DEF TagsKept, Typed, Shapes, Block
    <2> QED
        BY <1>6, <2>1, <2>2 DEF Moving
<1>7. CASE ReadPage \/ ReadMove
    <2>1. pc = "loop" /\ pc' \in {"loop", "find"} /\ flash' = flash /\ crashes' = crashes
        BY <1>7 DEF ReadPage, ReadMove
    <2> QED
        BY <2>1 DEF TagsKept, Moving
<1>8. CASE PowerFail
    <2>1. pc' = "off" /\ flash' = flash /\ crashes' = crashes + 1 /\ crashes \in Nat
        BY <1>8, FtlAssumption DEF PowerFail, Typed, Shapes
    <2> QED
        BY <2>1 DEF TagsKept, Moving
<1> QED
    BY <1>1, <1>2, <1>3, <1>4, <1>5, <1>6, <1>7, <1>8 DEF Quiet

(* The tests of a source empty it, or retire it.                           *)
LEMMA TestsGoOn ==
    ASSUME Tests
    PROVE  /\ Testing /\ ~Moving /\ pc' \in {"zeros", "wipe", "scrap", "retire", "loop"}
           /\ crashes' = crashes
           /\ pc' # "loop" => UNCHANGED <<op, cp>>
           /\ pc' = "loop" => Advance
           /\ Retire => ftl_create_lut(flash') /\ pc' = "loop"
           /\ ~Retire => UNCHANGED <<lut, valid>>
BY DEF Tests, TestOnes, TestZeros, TestErase, Retire, Testing, Moving, Advance

LEMMA TestTags ==
    ASSUME Typed, TagsAnswer, Tests
    PROVE  /\ cp.src \in Blocks /\ OthersKept(cp.src)
           /\ flash' = flash \/ Blank(cp.src) \/ Retired(cp.src)
           /\ Retire => Retired(cp.src)
<1>1. Testing
    BY TestsGoOn
<1>2. cp.src \in Blocks
    BY <1>1 DEF Typed, CpLocals
<1> DEFINE Empty(blk) == ~blk.bad0 /\ ~blk.bad1 /\ blk.lbn = None
<1>3. Empty(Erased) /\ \A blk \in Zeroed(cp.src) : Empty(blk)
    <2>1. Empty(Erased)
        BY DEF Erased
    <2>2. ASSUME NEW Q
          PROVE  Empty([Erased EXCEPT !.data = [k \in 0..BlkSec-1 |->
                                                  IF k \div SecPerPage \in Q THEN FF ELSE Junk]])
        BY DEF Erased
    <2> QED
        BY <2>1, <2>2 DEF Zeroed
<1>4. CASE TestOnes \/ TestZeros \/ TestErase
    <2>1. \E blk : flash' = [flash EXCEPT ![cp.src] = blk] /\ (blk = flash[cp.src] \/ Empty(blk))
        <3>1. CASE TestOnes
            <4>1. PICK equal : \E r \in ftl_blockcompare(cp.src, equal, {Erased}) :
                                  flash' = [flash EXCEPT ![cp.src] = r[2]]
                BY <3>1 DEF TestOnes
            <4>2. \A r \in ftl_blockcompare(cp.src, equal, {Erased}) :
                      r[2] = flash[cp.src] \/ r[2] = Erased
                BY DEF ftl_blockcompare
            <4> HIDE DEF Empty
            <4> QED
                BY <1>3, <4>1, <4>2
        <3>2. CASE TestZeros
            <4>1. \A r \in ftl_blockcompare(cp.src, FALSE, Zeroed(cp.src)) :
                      r[2] = flash[cp.src] \/ r[2] \in Zeroed(cp.src)
                BY DEF ftl_blockcompare
            <4> HIDE DEF Empty
            <4> QED
                BY <1>3, <3>2, <4>1 DEF TestZeros
        <3>3. CASE TestErase
            <4> HIDE DEF Empty
            <4> QED
                BY <1>3, <3>3 DEF TestErase, Erasing
        <3> QED
            BY <1>4, <3>1, <3>2, <3>3
    <2>2. OthersKept(cp.src)
        BY <1>2, <2>1 DEF OthersKept, Typed, Shapes
    <2>3. flash' = flash \/ Blank(cp.src)
        BY <1>2, <2>1 DEF Blank, Typed, Shapes
    <2>4. ~Retire
        BY <1>4 DEF TestOnes, TestZeros, TestErase, Retire
    <2> QED
        BY <1>2, <2>2, <2>3, <2>4
<1>5. CASE Retire
    <2>1. flash' = [flash EXCEPT ![cp.src] = BadMarked(@, cp.src, {})]
        BY <1>5, NoTimeout DEF Retire
    <2>2. OthersKept(cp.src)
        BY <1>2, <2>1 DEF OthersKept, Typed, Shapes
    <2>3. Retired(cp.src)
        BY <1>2, <2>1 DEF Retired, BadMarked, Typed, Shapes, Block
    <2> QED
        BY <1>2, <2>2, <2>3
<1> QED
    BY <1>4, <1>5 DEF Tests

(* So does the end of a copy, unless the erase fails; a failed copy retires *)
(* the destination.                                                        *)
LEMMA EraseTags ==
    ASSUME Typed, CopyErase
    PROVE  /\ pc = "erase" /\ pc' \in {"loop", "ones"} /\ cp.src \in Blocks /\ cp.dst \in Blocks
           /\ OthersKept(cp.src) /\ crashes' = crashes
           /\ \/ Blank(cp.src) /\ flash'[cp.src].data = Erased.data
              \/ flash' = flash /\ cp.src \in chip.worn
<1>1. pc = "erase" /\ pc' \in {"loop", "ones"} /\ crashes' = crashes
    BY DEF CopyErase
<1>2. cp.src \in Blocks /\ cp.dst \in Blocks
    BY <1>1 DEF Typed, CpLocals, Handling, Moving
<1>3. \/ flash' = [flash EXCEPT ![cp.src] = Erased]
      \/ flash' = [flash EXCEPT ![cp.src] = flash[cp.src]] /\ cp.src \in chip.worn
    BY DEF CopyErase, Erasing
<1>4. OthersKept(cp.src)
    BY <1>2, <1>3 DEF OthersKept, Typed, Shapes
<1>5. \/ flash'[cp.src] = Erased
      \/ flash' = flash /\ cp.src \in chip.worn
    BY <1>2, <1>3 DEF Typed, Shapes
<1>6. ASSUME flash'[cp.src] = Erased
      PROVE  Blank(cp.src) /\ flash'[cp.src].data = Erased.data
    BY <1>6 DEF Blank, Erased
<1> QED
    BY <1>1, <1>2, <1>4, <1>5, <1>6

LEMMA BadTags ==
    ASSUME Typed, TagsAnswer, CopyBad
    PROVE  /\ pc = "bad" /\ pc' = "find" /\ cp.src \in Blocks /\ cp.dst \in Blocks
           /\ OthersKept(cp.dst) /\ Retired(cp.dst) /\ crashes' = crashes /\ cp' = cp
<1>1. pc = "bad" /\ pc' = "find" /\ crashes' = crashes /\ cp' = cp
      /\ flash' = [flash EXCEPT ![cp.dst] = BadMarked(@, cp.dst, {})]
    BY NoTimeout DEF CopyBad
<1>2. cp.src \in Blocks /\ cp.dst \in Blocks
    BY <1>1 DEF Typed, CpLocals, Handling, Moving
<1> QED
    BY <1>1, <1>2 DEF OthersKept, Retired, BadMarked, Typed, Shapes, Block

(* A page of the copy may bring the source's marks and number along.       *)
LEMMA PageTags ==
    ASSUME Typed, CopyPage
    PROVE  /\ pc = "copy" /\ pc' \in {"copy", "bad"} /\ cp.src \in Blocks /\ cp.dst \in Blocks
           /\ OthersKept(cp.dst) /\ crashes' = crashes
           /\ cp'.src = cp.src /\ cp'.dst = cp.dst
           /\ \/ flash' = flash /\ pc' = "bad" /\ cp'.page = cp.page
              \/ /\ flash'[cp.dst].bad0 <=>
                        flash[cp.dst].bad0 \/ (cp.page = 0 /\ flash[cp.src].bad0)
                 /\ flash'[cp.dst].bad1 <=>
                        flash[cp.dst].bad1 \/ (cp.page = 1 /\ flash[cp.src].bad1)
                 /\ flash'[cp.dst].lbn =
                        IF cp.page = 0 THEN flash[cp.src].lbn ELSE flash[cp.dst].lbn
                 /\ flash'[cp.dst].data = Copied(flash[cp.dst]).data
                 /\ (pc' = "copy" /\ cp'.page = cp.page + 1) \/ (pc' = "bad" /\ cp'.page = cp.page)
<1>1. pc = "copy" /\ crashes' = crashes
    BY DEF CopyPage
<1>2. cp.src \in Blocks /\ cp.dst \in Blocks
    BY <1>1 DEF Typed, CpLocals, Handling, Moving
<1>3. \/ /\ flash' = [flash EXCEPT ![cp.dst] = Copied(@)]
         /\ cp' = [Consumed EXCEPT !.page = @ + 1] /\ pc' = "copy"
      \/ /\ flash' = flash \/ flash' = [flash EXCEPT ![cp.dst] = Copied(@)]
         /\ cp' = Consumed /\ pc' = "bad"
    BY DEF CopyPage
<1>4. cp'.src = cp.src /\ cp'.dst = cp.dst
      /\ ((pc' = "copy" /\ cp'.page = cp.page + 1) \/ (pc' = "bad" /\ cp'.page = cp.page))
    BY <1>1, <1>3, ConsumedType DEF Cp
<1>5. flash' = flash \/ flash' = [flash EXCEPT ![cp.dst] = Copied(@)]
    BY <1>3
<1>6. flash' = flash => pc' = "bad" \/ flash' = [flash EXCEPT ![cp.dst] = Copied(@)]
    BY <1>3
<1>7. OthersKept(cp.dst)
    BY <1>2, <1>5 DEF OthersKept, Typed, Shapes
<1>8. /\ Copied(flash[cp.dst]).bad0 <=> flash[cp.dst].bad0 \/ (cp.page = 0 /\ flash[cp.src].bad0)
      /\ Copied(flash[cp.dst]).bad1 <=> flash[cp.dst].bad1 \/ (cp.page = 1 /\ flash[cp.src].bad1)
      /\ Copied(flash[cp.dst]).lbn = IF cp.page = 0 THEN flash[cp.src].lbn ELSE flash[cp.dst].lbn
    <2> DEFINE p == flash[cp.dst].bad0 \/ (cp.page = 0 /\ flash[cp.src].bad0)
               q == flash[cp.dst].bad1 \/ (cp.page = 1 /\ flash[cp.src].bad1)
               u == flash[cp.dst].used \/ (cp.page = 0 /\ flash[cp.src].used)
               n == IF cp.page = 0 THEN flash[cp.src].lbn ELSE flash[cp.dst].lbn
               c == [k \in 0..BlkSec-1 |->
                        IF k \in PageCells THEN Prog(flash[cp.dst].data[k], Wanted(k))
                        ELSE flash[cp.dst].data[k]]
    <2>1. /\ Copied(flash[cp.dst]) =
                [flash[cp.dst] EXCEPT !.bad0 = p, !.bad1 = q, !.used = u, !.lbn = n, !.data = c]
          /\ flash[cp.dst] \in Block
        BY <1>2 DEF Copied, Typed, Shapes
    <2> HIDE DEF p, q, u, n, c
    <2>2. Copied(flash[cp.dst]).bad0 = p /\ Copied(flash[cp.dst]).bad1 = q
          /\ Copied(flash[cp.dst]).lbn = n
        BY <2>1 DEF Block
    <2> QED
        BY <2>2 DEF p, q, n
<1>9. flash' = [flash EXCEPT ![cp.dst] = Copied(@)] => flash'[cp.dst] = Copied(flash[cp.dst])
    BY <1>2 DEF Typed, Shapes
<1> QED
    BY <1>1, <1>2, <1>3, <1>4, <1>5, <1>6, <1>7, <1>8, <1>9

(* Two blocks have two ranks.                                              *)
LEMMA RankStrict ==
    ASSUME NEW G \in SUBSET Blocks, NEW b \in G, NEW c \in G, b < c
    PROVE  Cardinality({x \in G : x < b}) # Cardinality({x \in G : x < c})
<1> DEFINE B == {x \in G : x < b}
           C == {x \in G : x < c}
<1>1. Blocks \in SUBSET Nat /\ IsFiniteSet(Blocks)
    BY Geometry, FS_Interval DEF Blocks
<1>2. IsFiniteSet(C)
    BY <1>1, FS_Subset
<1>3. B \in SUBSET C
    <2>1. ASSUME NEW x \in B PROVE x \in C
        <3>1. x \in Nat /\ b \in Nat /\ c \in Nat /\ x < b
            BY <1>1
        <3> QED
            BY <3>1
    <2> QED
        BY <2>1
<1>4. b \in C /\ b \notin B
    BY <1>1
<1> HIDE DEF B, C
<1>5. Cardinality(C) # Cardinality(B)
    BY <1>2, <1>3, <1>4, FS_Subset
<1> QED
    BY <1>5 DEF B, C

LEMMA RankUnique ==
    ASSUME NEW G \in SUBSET Blocks, NEW b \in G, NEW c \in G,
           Cardinality({x \in G : x < b}) = Cardinality({x \in G : x < c})
    PROVE  b = c
<1>1. b \in Nat /\ c \in Nat
    BY Geometry DEF Blocks
<1>2. ~(b < c) /\ ~(c < b)
    BY RankStrict
<1> QED
    BY <1>1, <1>2

(* What the format leaves of the blocks.                                   *)
LEMMA FormatMoves ==
    ASSUME Typed, NEW f \in FormatFaults,
           FormatFails(f) \/ \E k \in 0..BlockTotal : ftl_format(k, f)
    PROVE  /\ pc = "format" /\ pc' \in {"off", "dead", "idle"}
           /\ pc' = "off" => crashes' # 0
           /\ crashes' = 0 => crashes = 0
           /\ adm' = [x \in Sectors |-> {FF}] /\ UNCHANGED <<op, cp>>
<1>1. crashes \in Nat
    BY FtlAssumption DEF Typed, Shapes
<1>2. CASE FormatFails(f)
    BY <1>2 DEF FormatFails
<1>3. ASSUME NEW k \in 0..BlockTotal, ftl_format(k, f)
      PROVE  /\ pc = "format" /\ adm' = [x \in Sectors |-> {FF}] /\ UNCHANGED <<op, cp>>
             /\ \/ crashes' = crashes /\ pc' \in {"dead", "idle"}
                \/ crashes' = crashes + 1 /\ pc' = "off"
    BY <1>3 DEF ftl_format
<1> QED
    BY <1>1, <1>2, <1>3

LEMMA WipedTags ==
    ASSUME Typed, TagsAnswer, NEW f \in FormatFaults
    PROVE  /\ f.check = {} /\ f.again = {} /\ f.unmarked = {} /\ f.unnumbered = {}
           /\ Good(f) \in SUBSET {b \in Blocks : ~Marked(b)}
           /\ \A b \in Blocks :
                 Wiped(f)[b] = IF Marked(b) THEN flash[b]
                               ELSE IF b \in Good(f) THEN Erased ELSE BadMarked(flash[b], b, {})
<1>1. f.check = {} /\ f.again = {} /\ f.unmarked = {} /\ f.unnumbered = {}
    <2>1. /\ f.check \in SUBSET TagPages /\ f.again \in SUBSET TagPages
          /\ f.unmarked \in SUBSET TagPages /\ f.unnumbered \in SUBSET TagPages
        BY DEF FormatFaults
    <2> QED
        BY <2>1, NoTimeout
<1>2. \A b \in Blocks : ftl_check_badblock(flash, b, {}) <=> Marked(b)
    BY DEF ftl_check_badblock, Marked
<1>3. Good(f) = {b \in Blocks : ~Marked(b)} \ f.unerased
    BY <1>1, <1>2 DEF Good
<1> QED
    BY <1>1, <1>2, <1>3 DEF Wiped

LEMMA FormatTags ==
    ASSUME Typed, TagsAnswer, NEW f \in FormatFaults,
           FormatFails(f) \/ \E k \in 0..BlockTotal : ftl_format(k, f),
           NEW b \in Blocks
    PROVE  \/ Marked(b) /\ flash'[b] = flash[b]
           \/ ~Marked(b) /\ Retired(b)
           \/ /\ ~Marked(b) /\ ~flash'[b].bad0 /\ ~flash'[b].bad1
              /\ flash'[b].data = Erased.data
              /\ flash'[b].lbn # None =>
                    b \in Good(f) /\ flash'[b].lbn = Cardinality({c \in Good(f) : c < b})
<1>0. Good(f) \in SUBSET {c \in Blocks : ~Marked(c)}
    BY WipedTags
<1>1. Marked(b) => Wiped(f)[b] = flash[b]
    BY WipedTags
<1>2. ASSUME ~Marked(b), b \notin Good(f)
      PROVE  Wiped(f)[b].bad0 /\ Wiped(f)[b].bad1 /\ Wiped(f)[b].lbn = None
    <2>1. Wiped(f)[b] = BadMarked(flash[b], b, {}) /\ flash[b] \in Block
        BY <1>2, WipedTags DEF Typed, Shapes
    <2> QED
        BY <2>1 DEF BadMarked, Block
<1>3. b \in Good(f) => ~Marked(b) /\ Wiped(f)[b] = Erased
    BY <1>0, WipedTags
<1>4. CASE FormatFails(f)
    <2>1. flash'[b] = Wiped(f)[b]
        BY <1>4 DEF FormatFails
    <2>2. CASE ~Marked(b) /\ b \notin Good(f)
        BY <1>2, <2>1, <2>2 DEF Retired
    <2>3. CASE b \in Good(f)
        <3>1. flash'[b] = Erased /\ ~Marked(b)
            BY <1>3, <2>1, <2>3
        <3>2. ~Erased.bad0 /\ ~Erased.bad1 /\ Erased.lbn = None
            BY DEF Erased
        <3> QED
            BY <3>1, <3>2
    <2>4. CASE Marked(b)
        BY <1>1, <2>1, <2>4
    <2> QED
        BY <2>2, <2>3, <2>4
<1>5. ASSUME NEW k \in 0..BlockTotal, ftl_format(k, f)
      PROVE  \/ Marked(b) /\ flash'[b] = flash[b]
             \/ ~Marked(b) /\ Retired(b)
             \/ /\ ~Marked(b) /\ ~flash'[b].bad0 /\ ~flash'[b].bad1
                /\ flash'[b].data = Erased.data
                /\ flash'[b].lbn # None =>
                      b \in Good(f) /\ flash'[b].lbn = Cardinality({c \in Good(f) : c < b})
    <2> DEFINE wiped == Wiped(f)
               sound == {c \in Blocks : ~ftl_check_badblock(wiped, c, f.again)}
               rank(c) == Cardinality({x \in sound : x < c})
               put(c) == c \in sound /\ rank(c) < k /\ <<c, 0>> \notin f.unnumbered
    <2>1. flash'[b] = IF put(b) THEN [wiped[b] EXCEPT !.lbn = Anded(wiped[b].lbn, rank(b))]
                      ELSE wiped[b]
        <3>1. flash' = [c \in Blocks |->
                          IF put(c) THEN [wiped[c] EXCEPT !.lbn = Anded(@, rank(c))] ELSE wiped[c]]
            BY <1>5 DEF ftl_format
        <3> HIDE DEF put, wiped, rank
        <3> QED
            BY <3>1
    <2>2. sound = Good(f)
        <3>1. ASSUME NEW c \in Blocks PROVE c \in sound <=> c \in Good(f)
            <4>1. c \in sound <=> ~wiped[c].bad0 /\ ~wiped[c].bad1
                BY WipedTags DEF ftl_check_badblock
            <4>2. CASE Marked(c)
                BY <1>0, <4>1, <4>2, WipedTags DEF Marked
            <4>3. CASE c \in Good(f)
                BY <1>0, <4>1, <4>3, WipedTags DEF Erased
            <4>4. CASE ~Marked(c) /\ c \notin Good(f)
                <5>1. wiped[c] = BadMarked(flash[c], c, {}) /\ flash[c] \in Block
                    BY <4>4, WipedTags DEF Typed, Shapes
                <5>2. wiped[c].bad0
                    BY <5>1 DEF BadMarked, Block
                <5> HIDE DEF wiped
                <5> QED
                    BY <4>1, <4>4, <5>2
            <4> QED
                BY <4>2, <4>3, <4>4
        <3> QED
            BY <1>0, <3>1
    <2>3. CASE b \notin Good(f)
        <3>1. flash'[b] = wiped[b]
            BY <2>1, <2>2, <2>3
        <3> QED
            BY <1>1, <1>2, <2>3, <3>1 DEF Retired
    <2>4. CASE b \in Good(f)
        <3>1. wiped[b] = Erased /\ ~Marked(b)
            BY <1>3, <2>4
        <3> DEFINE n == Anded(wiped[b].lbn, rank(b))
        <3>2. n = rank(b)
            BY <3>1 DEF Anded, Erased
        <3>3. rank(b) = Cardinality({c \in Good(f) : c < b})
            BY <2>2
        <3>4. flash'[b] = Erased \/ flash'[b] = [Erased EXCEPT !.lbn = n]
            <4> HIDE DEF put, wiped, n
            <4> QED
                BY <2>1, <3>1 DEF n
        <3> HIDE DEF n, rank
        <3>5. ~flash'[b].bad0 /\ ~flash'[b].bad1 /\ flash'[b].data = Erased.data
              /\ flash'[b].lbn \in {None, n}
            <4>1. CASE flash'[b] = Erased
                BY <4>1 DEF Erased
            <4>2. CASE flash'[b] = [Erased EXCEPT !.lbn = n]
                <5>1. ~Erased.bad0 /\ ~Erased.bad1 /\ Erased \in Block
                    BY ErasedBlock DEF Erased
                <5> DEFINE e == Erased
                <5>2. e \in Block /\ flash'[b] = [e EXCEPT !.lbn = n]
                    BY <4>2, <5>1
                <5> HIDE DEF e
                <5>3. flash'[b].bad0 = e.bad0 /\ flash'[b].bad1 = e.bad1
                      /\ flash'[b].data = e.data /\ flash'[b].lbn = n
                    BY <5>2 DEF Block
                <5> QED
                    BY <5>1, <5>3 DEF e
            <4> QED
                BY <3>4, <4>1, <4>2
        <3> QED
            BY <2>4, <3>1, <3>2, <3>3, <3>5
    <2> QED
        BY <2>3, <2>4
<1> QED
    BY <1>4, <1>5

LEMMA FormatTagged ==
    ASSUME Typed, TagsAnswer, Tagged, NEW f \in FormatFaults,
           FormatFails(f) \/ \E k \in 0..BlockTotal : ftl_format(k, f)
    PROVE  Tagged'
<1>0. pc' # "copy"
    BY FormatMoves
<1>1. BadBare'
    <2>1. ASSUME NEW b \in Blocks, Marked(b)' PROVE flash'[b].bad0 /\ flash'[b].lbn = None
        <3>1. CASE Marked(b)
            <4>1. flash'[b] = flash[b]
                BY <3>1, FormatTags
            <4> QED
                BY <3>1, <4>1 DEF Tagged, BadBare
        <3>2. CASE ~Marked(b)
            BY <2>1, <3>2, FormatTags DEF Marked, Retired
        <3> QED
            BY <3>1, <3>2
    <2> QED
        BY <1>0, <2>1 DEF BadBare
<1>2. ASSUME NEW b \in Blocks, flash'[b].lbn # None
      PROVE  b \in Good(f) /\ flash'[b].lbn = Cardinality({x \in Good(f) : x < b})
    <2>1. CASE Marked(b)
        <3>1. flash'[b] = flash[b]
            BY <2>1, FormatTags
        <3> QED
            BY <1>2, <2>1, <3>1 DEF Tagged, BadBare
    <2>2. CASE ~Marked(b)
        BY <1>2, <2>2, FormatTags DEF Retired
    <2> QED
        BY <2>1, <2>2
<1>3. ASSUME NEW b \in Blocks, NEW c \in Blocks, flash'[b].lbn # None,
             flash'[b].lbn = flash'[c].lbn
      PROVE  b = c
    <2> DEFINE G == Good(f)
    <2>1. G \in SUBSET Blocks
        BY DEF Good
    <2>2. b \in G /\ c \in G
          /\ Cardinality({x \in G : x < b}) = Cardinality({x \in G : x < c})
        BY <1>2, <1>3
    <2> HIDE DEF G
    <2> QED
        BY <2>1, <2>2, RankUnique
<1> QED
    BY <1>1, <1>3 DEF Tagged, Unique

LEMMA QuietTagged ==
    ASSUME Typed, Tagged, Quiet, chip' = chip
    PROVE  Tagged'
<1>1. \A b \in Blocks : TagsKept(b)
    BY QuietTags
<1>2. ASSUME NEW b \in Blocks, Marked(b)' PROVE flash'[b].bad0 /\ flash'[b].lbn = None
    BY <1>1, <1>2 DEF Marked, Tagged, BadBare, TagsKept
<1>3. ASSUME pc' = "copy" PROVE cp'.page = 0 /\ ~Marked(cp.dst)'
    <2>1. CopyFind
        BY <1>3, QuietTags DEF CopyUsed, Moving
    <2>2. PICK S, again : /\ FindSamePlane(cp.src, S, again)[1] # None
                          /\ cp' = [cp EXCEPT !.dst = FindSamePlane(cp.src, S, again)[1], !.page = 0]
        BY <1>3, <2>1 DEF CopyFind, Return
    <2> DEFINE d == FindSamePlane(cp.src, S, again)[1]
    <2>3. d # None /\ d \in Blocks /\ Unused(d)
        BY <2>2, Found DEF Typed, Shapes
    <2>4. cp' = [cp EXCEPT !.dst = d, !.page = 0] /\ flash' = flash
        BY <2>1, <2>2 DEF CopyFind
    <2>5. ~Marked(d)
        BY <2>3 DEF Unused, Tagged, BadBare
    <2> HIDE DEF d
    <2>6. cp'.dst = d /\ cp'.page = 0
        BY <2>4 DEF Typed, Shapes, Cp
    <2> QED
        BY <2>4, <2>5, <2>6 DEF Marked
<1>4. ASSUME crashes' = 0, chip.worn = {}, NEW b \in Blocks, NEW c \in Blocks,
             flash'[b].lbn # None, flash'[b].lbn = flash'[c].lbn
      PROVE  b = c \/ (Moving' /\ {b, c} = {cp'.src, cp'.dst})
    <2>1. crashes = 0 /\ (Moving => CopyUsed)
        BY <1>4, QuietTags
    <2>2. flash[b].lbn # None /\ flash[b].lbn = flash[c].lbn
        BY <1>1, <1>4 DEF TagsKept
    <2>3. b = c \/ (Moving /\ {b, c} = {cp.src, cp.dst})
        BY <1>4, <2>1, <2>2 DEF Tagged, Unique
    <2>4. Moving => Moving' /\ cp'.src = cp.src /\ cp'.dst = cp.dst
        BY <2>1 DEF CopyUsed, Moving
    <2> QED
        BY <2>3, <2>4, Zenon
<1> QED
    BY <1>2, <1>3, <1>4 DEF Tagged, BadBare, Unique

(* A block that is emptied or retired takes no part in what is said.       *)
LEMMA LostTagged ==
    ASSUME Typed, Tagged, NEW d \in Blocks, OthersKept(d), Blank(d) \/ Retired(d),
           ~Moving', crashes' = crashes, chip' = chip, Moving => d \in {cp.src, cp.dst}
    PROVE  Tagged'
<1>1. ASSUME NEW b \in Blocks, Marked(b)' PROVE flash'[b].bad0 /\ flash'[b].lbn = None
    BY <1>1 DEF Marked, Tagged, BadBare, OthersKept, Blank, Retired
<1>2. ASSUME crashes' = 0, chip.worn = {}, NEW b \in Blocks, NEW c \in Blocks,
             flash'[b].lbn # None, flash'[b].lbn = flash'[c].lbn
      PROVE  b = c
    <2>1. b # d /\ c # d
        BY <1>2 DEF Blank, Retired
    <2>2. flash'[b] = flash[b] /\ flash'[c] = flash[c]
        BY <2>1 DEF OthersKept
    <2>3. b = c \/ (Moving /\ {b, c} = {cp.src, cp.dst})
        BY <1>2, <2>2 DEF Tagged, Unique
    <2> QED
        BY <2>1, <2>3
<1> QED
    BY <1>1, <1>2 DEF Tagged, BadBare, Unique, Moving

(* A step that changes no tag outside a copy keeps what is said of them.   *)
LEMMA SameTagged ==
    ASSUME Tagged, flash' = flash, crashes' = crashes, chip' = chip, pc' # "copy",
           Moving /\ chip.worn = {} => Moving' /\ cp' = cp
    PROVE  Tagged'
BY DEF Tagged, BadBare, Unique, Marked

LEMMA PageTagged ==
    ASSUME Typed, Tagged, CopyPage
    PROVE  Tagged'
<1> DEFINE s == cp.src
           d == cp.dst
<1>0. /\ Moving /\ Moving' /\ s \in Blocks /\ d \in Blocks /\ crashes' = crashes
      /\ cp'.src = s /\ cp'.dst = d /\ chip' = chip /\ pc = "copy" /\ cp.page \in Nat
    BY PageTags DEF Moving, CopyPage, Typed, Shapes, Cp
<1>1. \A b \in Blocks : b # d => flash'[b] = flash[b]
    BY <1>0, PageTags DEF OthersKept
<1>2. flash'[d].lbn \in {flash[s].lbn, flash[d].lbn}
    BY PageTags
<1>3. ASSUME flash' # flash
      PROVE  /\ flash'[d].lbn = flash[s].lbn
             /\ flash[s].bad0 => flash'[d].bad0
             /\ flash'[d].bad1 => flash'[d].bad0
             /\ flash'[d].bad0 => flash'[d].lbn = None
             /\ cp'.page = cp.page + 1 \/ pc' = "bad"
    <2>0. /\ flash'[d].bad0 <=> flash[d].bad0 \/ (cp.page = 0 /\ flash[s].bad0)
          /\ flash'[d].bad1 <=> flash[d].bad1 \/ (cp.page = 1 /\ flash[s].bad1)
          /\ flash'[d].lbn = IF cp.page = 0 THEN flash[s].lbn ELSE flash[d].lbn
          /\ cp'.page = cp.page + 1 \/ pc' = "bad"
        BY <1>3, PageTags
    <2>1. /\ flash[s].bad0 \/ flash[s].bad1 => flash[s].bad0 /\ flash[s].lbn = None
          /\ flash[d].bad0 \/ flash[d].bad1 => flash[d].bad0 /\ flash[d].lbn = None
          /\ IF cp.page = 0 THEN ~flash[d].bad0 /\ ~flash[d].bad1
             ELSE flash[d].lbn = flash[s].lbn /\ (flash[s].bad0 => flash[d].bad0)
        BY <1>0 DEF Tagged, BadBare, Marked
    <2> HIDE DEF s, d
    <2>3. CASE cp.page = 0
        BY <2>0, <2>1, <2>3
    <2>4. CASE cp.page # 0
        BY <2>0, <2>1, <2>4
    <2> QED
        BY <2>3, <2>4
<1>4. ASSUME NEW b \in Blocks, Marked(b)' PROVE flash'[b].bad0 /\ flash'[b].lbn = None
    <2>1. CASE flash' = flash
        BY <1>4, <2>1 DEF Tagged, BadBare, Marked
    <2>2. CASE flash' # flash /\ b = d
        BY <1>3, <1>4, <2>2 DEF Marked
    <2>3. CASE flash' # flash /\ b # d
        BY <1>1, <1>4, <2>3 DEF Tagged, BadBare, Marked
    <2> QED
        BY <2>1, <2>2, <2>3
<1>5. ASSUME crashes = 0, chip.worn = {}, NEW b \in Blocks, NEW c \in Blocks,
             flash'[b].lbn # None, flash'[b].lbn = flash'[c].lbn
      PROVE  b = c \/ {b, c} = {s, d}
    <2>0. \A x, y \in Blocks : flash[x].lbn # None /\ flash[x].lbn = flash[y].lbn =>
                x = y \/ {x, y} = {s, d}
        BY <1>5 DEF Tagged, Unique
    <2>1. ASSUME NEW x \in Blocks, x # d, flash'[x].lbn # None, flash'[x].lbn = flash'[d].lbn
          PROVE  x = s
        <3>1. flash'[x] = flash[x]
            BY <1>1, <2>1
        <3>2. flash[x].lbn = flash[s].lbn \/ flash[x].lbn = flash[d].lbn
            BY <1>2, <2>1, <3>1
        <3>3. x = s \/ x = d \/ {x, s} = {s, d} \/ {x, d} = {s, d}
            BY <1>0, <2>0, <2>1, <3>1, <3>2
        <3> HIDE DEF s, d
        <3> QED
            BY <2>1, <3>3
    <2> HIDE DEF s, d
    <2>2. CASE b = d /\ c # d
        <3>1. c = s
            BY <1>5, <2>1, <2>2
        <3> QED
            BY <2>2, <3>1
    <2>3. CASE c = d /\ b # d
        <3>1. b = s
            BY <1>5, <2>1, <2>3
        <3> QED
            BY <2>3, <3>1
    <2>4. CASE b # d /\ c # d
        BY <1>1, <1>5, <2>0, <2>4
    <2> QED
        BY <2>2, <2>3, <2>4
<1>6. BadBare'
    <2> SUFFICES ASSUME pc' = "copy"
                 PROVE  IF cp'.page = 0 THEN ~Marked(cp.dst)'
                        ELSE /\ flash'[d].lbn = flash'[s].lbn
                             /\ flash'[s].bad0 => flash'[d].bad0
        BY <1>0, <1>4 DEF BadBare
    <2>1. cp'.page = cp.page + 1 /\ cp'.page # 0
        BY <1>0, PageTags
    <2>2. CASE flash' = flash
        <3>1. /\ flash'[d].lbn = IF cp.page = 0 THEN flash[s].lbn ELSE flash[d].lbn
              /\ flash'[d].bad0 <=> flash[d].bad0 \/ (cp.page = 0 /\ flash[s].bad0)
            BY PageTags
        <3>2. cp.page # 0 => flash[d].lbn = flash[s].lbn /\ (flash[s].bad0 => flash[d].bad0)
            BY <1>0 DEF Tagged, BadBare
        <3> HIDE DEF s, d
        <3> QED
            BY <2>1, <2>2, <3>1, <3>2
    <2>3. CASE flash' # flash
        <3>1. s = d \/ flash'[s] = flash[s]
            BY <1>0, <1>1
        <3> HIDE DEF s, d
        <3> QED
            BY <1>3, <2>1, <2>3, <3>1
    <2> QED
        BY <2>2, <2>3
<1>7. Unique'
    <2> HIDE DEF s, d
    <2> QED
        BY <1>0, <1>5 DEF Unique
<1> QED
    BY <1>6, <1>7 DEF Tagged

LEMMA NextTagged ==
    ASSUME Typed, TagsAnswer, Tagged, [Next]_vars
    PROVE  Tagged'
<1>0. chip' = chip
    BY ChipKept
<1>1. CASE Quiet
    BY <1>0, <1>1, QuietTagged
<1>2. ASSUME NEW f \in FormatFaults,
             FormatFails(f) \/ \E k \in 0..BlockTotal : ftl_format(k, f)
      PROVE  Tagged'
    BY <1>2, FormatTagged
<1>3. CASE CopyPage
    BY <1>3, PageTagged
<1>4. CASE CopyBad
    <2>1. ~Moving' /\ Moving
        BY <1>4, BadTags DEF Moving
    <2> QED
        BY <1>0, <1>4, <2>1, BadTags, LostTagged
<1>5. CASE CopyErase
    <2>1. ~Moving' /\ Moving
        BY <1>5, EraseTags DEF Moving
    <2>2. CASE Blank(cp.src)
        BY <1>0, <1>5, <2>1, <2>2, EraseTags, LostTagged
    <2>3. CASE flash' = flash /\ cp.src \in chip.worn
        BY <1>0, <1>5, <2>1, <2>3, EraseTags, SameTagged DEF Moving
    <2> QED
        BY <1>5, <2>2, <2>3, EraseTags
<1>6. CASE Tests
    <2>1. ~Moving' /\ ~Moving /\ crashes' = crashes
        BY <1>6, TestsGoOn DEF Moving
    <2>2. CASE flash' = flash
        BY <1>0, <2>1, <2>2, SameTagged DEF Moving
    <2>3. CASE Blank(cp.src) \/ Retired(cp.src)
        BY <1>0, <1>6, <2>1, <2>3, TestTags, LostTagged
    <2> QED
        BY <1>6, <2>2, <2>3, TestTags
<1>7. CASE UNCHANGED vars
    BY <1>7 DEF vars, Tagged, BadBare, Unique, Marked, Moving
<1> QED
    BY <1>1, <1>2, <1>3, <1>4, <1>5, <1>6, <1>7 DEF Next, Work, Quiet, Tests

LEMMA TaggedAlways == Spec => [](TagsAnswer => Tagged)
<1>1. Init => Tagged
    <2> SUFFICES ASSUME Init PROVE Tagged
        OBVIOUS
    <2>1. ASSUME NEW b \in Blocks PROVE flash[b].lbn = None /\ ~flash[b].bad1
        BY <2>1 DEF Init, Erased
    <2> QED
        BY <2>1 DEF Init, Tagged, BadBare, Unique, Marked, Moving
<1>2. Typed /\ (TagsAnswer => Tagged) /\ [Next]_vars => (TagsAnswer => Tagged)'
    BY NextTagged, TagsAnswerStill
<1> QED
    BY <1>1, <1>2, TypedAlways, PTL DEF Spec

(* As long as power does not fail, erases succeed and the spare bytes      *)
(* answer, no logical number stays on two blocks, so that ftl.c does not   *)
(* lose the blocks it copies to: whatever other pages time out, reads are  *)
(* corrected and copies are begun anew. An erase that fails unnoticed      *)
(* (ftl.c:265) does leave a number on two.                                 *)
THEOREM NothingLeaks ==
    Spec => [](crashes = 0 /\ chip.worn = {} /\ TagsAnswer => NoLeakedBlock)
<1>1. Tagged => (crashes = 0 /\ chip.worn = {} => NoLeakedBlock)
    BY DEF Tagged, Unique, NoLeakedBlock, Moving
<1> QED
    BY <1>1, TaggedAlways, PTL

-----------------------------------------------------------------------------
(* The table leads to the blocks that carry the numbers.                   *)

(* A read that moves a block finds a free one. When it does not, ftl.c     *)
(* goes on as if it had, and empties a block that is in use.               *)
Spare == pc = "find" /\ op.kind = "read" => FindSamePlane(cp.src, {}, {})[1] # None

Carried(fl, l) == \E b \in Blocks : fl[b].lbn = l /\ ~fl[b].bad0 /\ ~fl[b].bad1

(* Each number below the count has an entry, and each entry is a good      *)
(* block that carries its number.                                          *)
TableRight ==
    \A l \in Blocks :
        /\ l < valid => lut[l] # None
        /\ lut[l] # None => flash[lut[l]].lbn = l /\ ~Marked(lut[l])

(* A copy goes from a good block with a number to one outside the table,   *)
(* which is good and carries the number as soon as a page is copied; a     *)
(* source that is tested is outside the table.                             *)
Moves ==
    /\ Handling => flash[cp.src].lbn # None /\ ~Marked(cp.src)
    /\ Moving => /\ cp.dst # cp.src /\ \A l \in Blocks : lut[l] # cp.dst
                 /\ ~Marked(cp.dst)
                 /\ pc = "erase" \/ cp.page > 0 => flash[cp.dst].lbn = flash[cp.src].lbn
    /\ Testing => \A l \in Blocks : lut[l] # cp.src

(* The device has its capacity while it is up, and on the medium when not. *)
Capacity ==
    /\ ~Up => valid < MinBlocks
    /\ pc \in {"format", "dead"} => cap = 0
    /\ Up => valid = cap /\ cap > 0
    /\ cap > 0 => /\ cap >= MinBlocks /\ ~Carried(flash, cap)
                  /\ \A l \in 0..cap-1 : Carried(flash, l)

Mapped == (Up => TableRight) /\ Moves /\ Capacity

LEMMA BelowCount ==
    ASSUME NEW n \in Blocks
    PROVE  /\ \A l \in 0..n-1 : l \in Blocks
           /\ \A l \in Blocks : l < n => l \in 0..n-1
BY Geometry DEF Blocks

(* The table made from the blocks is right.                                *)
LEMMA TableMade ==
    ASSUME Typed, Typed', TagsAnswer, ftl_create_lut(flash')
    PROVE  /\ TableRight'
           /\ \/ valid' = valid
              \/ ~Carried(flash', valid') /\ \A l \in 0..valid'-1 : Carried(flash', l)
<1>0. PICK was : lut' = Lut(flash', {}, was) /\ valid' = Valid(Lut(flash', {}, was))
    BY TablesNow
<1>1. ASSUME NEW l \in Blocks
      PROVE  \/ lut'[l] = None /\ ~Carried(flash', l)
             \/ /\ lut'[l] \in Blocks /\ lut'[l] # None /\ flash'[lut'[l]].lbn = l
                /\ ~Marked(lut[l])' /\ Carried(flash', l)
    BY <1>0, LutEntry, Geometry DEF Marked, Carried
<1>2. \/ (\A l \in Blocks : lut'[l] # None) /\ valid' = valid
      \/ lut'[valid'] = None /\ valid' \in Blocks /\ \A l \in 0..valid'-1 : lut'[l] # None
    BY <1>0, ValidEntry
<1>3. valid' \in Blocks /\ \A l \in 0..valid'-1 : l \in Blocks
    <2>1. valid' \in Blocks
        BY DEF Typed, Shapes
    <2> QED
        BY <2>1, BelowCount
<1>4. ASSUME NEW l \in Blocks, l < valid' PROVE lut'[l] # None
    <2>1. l \in 0..valid'-1
        BY <1>3, <1>4, BelowCount
    <2> QED
        BY <1>2, <2>1
<1>5. TableRight'
    BY <1>1, <1>4 DEF TableRight
<1> QED
    BY <1>1, <1>2, <1>3, <1>5

(* A device that comes up without a capacity gets it from its table.       *)
LEMMA NewCapacity ==
    ASSUME Typed', pc' = "idle", cap' = valid', valid' >= MinBlocks, ~Carried(flash', valid'),
           \A l \in 0..valid'-1 : Carried(flash', l)
    PROVE  Capacity'
<1>1. valid' \in Nat /\ MinBlocks \in Nat \ {0} /\ cap' > 0 /\ cap' >= MinBlocks
    BY Geometry DEF Typed, Shapes, Blocks
<1>2. ~Carried(flash', cap') /\ \A l \in 0..cap'-1 : Carried(flash', l)
    OBVIOUS
<1> QED
    BY <1>1, <1>2 DEF Capacity, Up

(* When the medium has the capacity, so has the table made from it.        *)
LEMMA CapacityFound ==
    ASSUME Typed, TagsAnswer, NEW fl, ftl_create_lut(fl), NEW c \in Blocks, ~Carried(fl, c),
           \A l \in 0..c-1 : Carried(fl, l)
    PROVE  valid' = c
<1>0. PICK was : lut' = Lut(fl, {}, was) /\ valid' = Valid(Lut(fl, {}, was))
    BY TablesNow
<1> DEFINE table == Lut(fl, {}, was)
           v == Valid(table)
<1>1. ASSUME NEW l \in Blocks PROVE table[l] = None <=> ~Carried(fl, l)
    BY LutEntry, Geometry DEF Carried
<1> HIDE DEF table
<1>2. v \in Blocks /\ table[v] = None /\ \A l \in 0..v-1 : table[l] # None
    BY <1>1, ValidEntry
<1>3. v \in Nat /\ c \in Nat
    BY <1>2, Geometry DEF Blocks
<1> HIDE DEF v
<1>4. ~(v < c)
    <2>1. v < c => v \in 0..c-1
        BY <1>3
    <2> QED
        BY <1>1, <1>2, <2>1
<1>5. ~(c < v)
    <2>1. c < v => c \in 0..v-1
        BY <1>3
    <2> QED
        BY <1>1, <1>2, <2>1
<1>6. v = c
    BY <1>3, <1>4, <1>5
<1> QED
    BY <1>0, <1>6 DEF v, table

(* While the device is up, the table is enough to find the capacity.       *)
LEMMA UpCapacity ==
    ASSUME Typed', Up', TableRight', valid' = cap, cap' = cap, cap > 0, cap >= MinBlocks,
           ~Carried(flash', cap)
    PROVE  Capacity'
<1>1. ASSUME NEW l \in 0..cap-1 PROVE Carried(flash', l)
    <2>1. cap \in Blocks
        BY DEF Typed, Shapes
    <2>2. l \in Blocks /\ l < valid'
        BY <2>1, Geometry DEF Blocks
    <2>3. lut'[l] \in Blocks /\ flash'[lut'[l]].lbn = l /\ ~Marked(lut[l])'
        BY <2>2 DEF TableRight, Typed, Shapes
    <2> QED
        BY <2>3 DEF Carried, Marked
<1>2. pc' \notin {"format", "dead"}
    BY DEF Up
<1> QED
    BY <1>1, <1>2 DEF Capacity

LEMMA InitCallMapped ==
    ASSUME Typed, Typed', TagsAnswer, Mapped, ftl_init
    PROVE  Mapped'
<1>0. /\ pc \in {"off", "dead", "idle"} /\ flash' = flash
      /\ ftl_create_lut(flash')
      /\ IF valid' < MinBlocks THEN pc' = "format" /\ cap' = cap
         ELSE pc' = "idle" /\ cap' = IF cap = 0 THEN valid' ELSE cap
    <2>1. ftl_create_lut(flash) /\ flash' = flash
        BY DEF ftl_init
    <2>2. ftl_create_lut(flash')
        BY <2>1 DEF ftl_create_lut
    <2> QED
        BY <2>1, <2>2 DEF ftl_init
<1>1. TableRight'
    BY <1>0, TableMade
<1>2. Moves'
    BY <1>0 DEF Moves, Handling, Moving, Testing
<1>3. valid' \in Nat /\ cap \in Nat /\ MinBlocks \in Nat \ {0} /\ valid \in Nat
    BY Geometry DEF Typed, Shapes, Blocks
<1>4. CASE cap > 0
    <2>1. cap \in Blocks /\ cap >= MinBlocks /\ ~Carried(flash, cap)
          /\ \A l \in 0..cap-1 : Carried(flash, l)
        BY <1>4 DEF Mapped, Capacity, Typed, Shapes
    <2>2. valid' = cap
        BY <1>0, <2>1, CapacityFound
    <2>3. pc' = "idle" /\ cap' = cap
        BY <1>0, <1>3, <2>1, <2>2
    <2> QED
        BY <1>0, <1>1, <1>2, <1>3, <1>4, <2>1, <2>2, <2>3 DEF Mapped, Capacity, Up
<1>5. CASE cap = 0
    <2>1. valid < MinBlocks
        BY <1>3, <1>5 DEF Mapped, Capacity
    <2>2. CASE valid' < MinBlocks
        BY <1>0, <1>1, <1>2, <1>3, <1>5, <2>2 DEF Mapped, Capacity, Up
    <2>3. CASE ~(valid' < MinBlocks)
        <3>1. pc' = "idle" /\ cap' = valid' /\ valid' >= MinBlocks /\ valid' # valid
            BY <1>0, <1>3, <1>5, <2>1, <2>3
        <3>2. ~Carried(flash', valid') /\ \A l \in 0..valid'-1 : Carried(flash', l)
            BY <1>0, <3>1, TableMade
        <3> QED
            BY <1>1, <1>2, <3>1, <3>2, NewCapacity DEF Mapped
    <2> QED
        BY <2>2, <2>3
<1> QED
    BY <1>3, <1>4, <1>5

LEMMA FormatMapped ==
    ASSUME Typed, Typed', TagsAnswer, Mapped, NEW f \in FormatFaults,
           FormatFails(f) \/ \E k \in 0..BlockTotal : ftl_format(k, f)
    PROVE  Mapped'
<1>0. pc = "format" /\ ~Up /\ cap = 0 /\ valid < MinBlocks
    BY FormatMoves DEF Mapped, Capacity, Up
<1>1. valid' \in Nat /\ MinBlocks \in Nat \ {0} /\ valid \in Nat
    BY Geometry DEF Typed, Shapes, Blocks
<1>2. Moves'
    BY FormatMoves DEF Moves, Handling, Moving, Testing
<1>3. CASE FormatFails(f)
    <2>1. pc' = "dead" /\ cap' = cap /\ valid' = valid
        BY <1>3 DEF FormatFails
    <2> QED
        BY <1>0, <1>1, <1>2, <2>1 DEF Mapped, Capacity, Up
<1>4. ASSUME NEW k \in 0..BlockTotal, ftl_format(k, f) PROVE Mapped'
    <2>1. \/ /\ ftl_create_lut(flash')
             /\ pc' = IF valid' < MinBlocks THEN "dead" ELSE "idle"
             /\ cap' = IF valid' < MinBlocks THEN 0 ELSE valid'
          \/ pc' = "off" /\ valid' = 0 /\ cap' = 0
        BY <1>4 DEF ftl_format, Boot
    <2>2. CASE pc' = "off" /\ valid' = 0 /\ cap' = 0
        BY <1>1, <1>2, <2>2 DEF Mapped, Capacity, Up
    <2>3. CASE /\ ftl_create_lut(flash')
               /\ pc' = IF valid' < MinBlocks THEN "dead" ELSE "idle"
               /\ cap' = IF valid' < MinBlocks THEN 0 ELSE valid'
        <3>1. TableRight'
            BY <2>3, TableMade
        <3>2. CASE valid' < MinBlocks
            BY <1>1, <1>2, <2>3, <3>2 DEF Mapped, Capacity, Up
        <3>3. CASE ~(valid' < MinBlocks)
            <4>1. pc' = "idle" /\ cap' = valid' /\ valid' >= MinBlocks /\ valid' # valid
                BY <1>0, <1>1, <2>3, <3>3
            <4>2. ~Carried(flash', valid') /\ \A l \in 0..valid'-1 : Carried(flash', l)
                BY <2>3, <4>1, TableMade
            <4> QED
                BY <1>2, <3>1, <4>1, <4>2, NewCapacity DEF Mapped
        <3> QED
            BY <3>2, <3>3
    <2> QED
        BY <2>1, <2>2, <2>3
<1> QED
    BY <1>3, <1>4

(* Tags that stay keep what is carried, and the table.                     *)
LEMMA KeptCarried ==
    ASSUME Typed, \A b \in Blocks : TagsKept(b), NEW l
    PROVE  Carried(flash', l) <=> Carried(flash, l)
BY DEF Carried, TagsKept

LEMMA KeptTable ==
    ASSUME Typed, TableRight, \A b \in Blocks : TagsKept(b), lut' = lut, valid' = valid
    PROVE  TableRight'
<1> SUFFICES ASSUME NEW l \in Blocks
             PROVE  /\ l < valid' => lut'[l] # None
                    /\ lut'[l] # None => flash'[lut'[l]].lbn = l /\ ~Marked(lut[l])'
    BY DEF TableRight
<1>1. lut[l] # None => lut[l] \in Blocks
    BY DEF Typed, Shapes
<1> QED
    BY <1>1 DEF TableRight, TagsKept, Marked

LEMMA PowerFailMapped ==
    ASSUME Typed, Mapped, PowerFail
    PROVE  Mapped'
<1>1. pc' = "off" /\ valid' = 0 /\ cap' = cap /\ flash' = flash
    BY DEF PowerFail, Boot
<1> QED
    BY <1>1, Geometry DEF Mapped, Moves, Capacity, Up, Handling, Moving, Testing

(* The requests, while nothing is copied.                                  *)
Requests == \/ Calls \/ Finished \/ Unmapped \/ TimesOut \/ WritePage \/ WriteMark
            \/ WriteMove \/ CopyFind \/ CopyUsed \/ ReadPage \/ ReadMove

LEMMA RequestsKeep ==
    ASSUME Typed, Requests
    PROVE  /\ Up /\ Up' /\ lut' = lut /\ valid' = valid /\ cap' = cap /\ Quiet
           /\ Handling' \/ Testing' => \/ pc' = "find" /\ cp'.src = Pbn /\ Pbn # None
                                       \/ CopyFind \/ CopyUsed
<1>1. CASE Calls
    <2>1. pc = "idle" /\ pc' = "loop" /\ lut' = lut /\ valid' = valid /\ cap' = cap
        BY <1>1 DEF Calls, ReadCall, WriteCall
    <2> QED
        BY <1>1, <2>1 DEF Up, Handling, Moving, Testing, Quiet
<1>2. CASE Finished \/ Unmapped \/ TimesOut
    <2>1. pc = "loop" /\ pc' = "idle" /\ lut' = lut /\ valid' = valid /\ cap' = cap
        BY <1>2 DEF Finished, Unmapped, TimesOut, Return
    <2> QED
        BY <1>2, <2>1 DEF Up, Handling, Moving, Testing, Quiet
<1>3. CASE WritePage \/ WriteMark \/ WriteMove
    <2>1. /\ pc \in {"loop", "mark"} /\ pc' \in {"mark", "loop", "find"}
          /\ lut' = lut /\ valid' = valid /\ cap' = cap
          /\ pc' = "find" => Move /\ Pbn # None
        BY <1>3 DEF WritePage, WriteMark, WriteMove, Move, Typed, OpLocals
    <2>2. Move => cp'.src = Pbn
        BY DEF Move, NoCp
    <2> QED
        BY <1>3, <2>1, <2>2 DEF Up, Handling, Moving, Testing, Quiet
<1>4. CASE CopyFind \/ CopyUsed
    <2>1. pc \in {"find", "copy"} /\ pc' \in {"copy", "idle", "ones", "erase"}
          /\ lut' = lut /\ valid' = valid /\ cap' = cap
        BY <1>4 DEF CopyFind, CopyUsed, Return
    <2> QED
        BY <1>4, <2>1 DEF Up, Quiet
<1>5. CASE ReadPage \/ ReadMove
    <2>1. /\ pc = "loop" /\ pc' \in {"loop", "find"}
          /\ lut' = lut /\ valid' = valid /\ cap' = cap
          /\ pc' = "find" => cp'.src = Pbn /\ Pbn # None
        BY <1>5 DEF ReadPage, ReadMove, NoCp
    <2> QED
        BY <1>5, <2>1 DEF Up, Handling, Moving, Testing, Quiet
<1> QED
    BY <1>1, <1>2, <1>3, <1>4, <1>5 DEF Requests

(* The block of a sector is in the table.                                  *)
LEMMA PbnMapped ==
    ASSUME Typed, TableRight, Pbn # None
    PROVE  /\ Pbn \in Blocks /\ Sec \div BlkSec \in Blocks /\ Pbn = lut[Sec \div BlkSec]
           /\ flash[Pbn].lbn = Sec \div BlkSec /\ ~Marked(Pbn) /\ Sec \div BlkSec <= valid
<1>1. Sec \div BlkSec \in Nat /\ Pbn \in Blocks
    BY Place DEF Typed
<1>2. Sec \div BlkSec <= valid /\ Pbn = lut[Sec \div BlkSec]
    <2>1. ASSUME NEW l \in Nat, ftl_lbn_to_pbn(l) # None
          PROVE  l <= valid /\ ftl_lbn_to_pbn(l) = lut[l]
        BY <2>1, Geometry DEF ftl_lbn_to_pbn, Typed, Shapes, Blocks
    <2> QED
        BY <1>1, <2>1 DEF Pbn
<1>3. Sec \div BlkSec \in Blocks
    BY <1>1, <1>2, Geometry DEF Typed, Shapes, Blocks
<1> QED
    BY <1>1, <1>2, <1>3 DEF TableRight

LEMMA RequestsMapped ==
    ASSUME Typed, Typed', TagsAnswer, Tagged, Mapped, Spare, Requests
    PROVE  Mapped'
<1>0. Up /\ Up' /\ lut' = lut /\ valid' = valid /\ cap' = cap
      /\ \A b \in Blocks : TagsKept(b)
    BY RequestsKeep, QuietTags
<1>1. TableRight /\ TableRight'
    BY <1>0, KeptTable DEF Mapped
<1>2. Capacity'
    <2>1. valid' = cap /\ cap > 0 /\ cap >= MinBlocks /\ ~Carried(flash, cap)
        BY <1>0 DEF Mapped, Capacity
    <2>2. ~Carried(flash', cap)
        BY <1>0, <2>1, KeptCarried
    <2> QED
        BY <1>0, <1>1, <2>1, <2>2, UpCapacity
<1>3. ASSUME ~Handling' /\ ~Testing' PROVE Moves'
    BY <1>3 DEF Moves, Handling
<1>4. ASSUME pc' = "find" /\ cp'.src = Pbn /\ Pbn # None PROVE Moves'
    <2>1. Pbn \in Blocks /\ flash[Pbn].lbn # None /\ ~Marked(Pbn)
        BY <1>1, <1>4, PbnMapped, Geometry
    <2>2. flash'[Pbn].lbn # None /\ ~flash'[Pbn].bad0 /\ ~flash'[Pbn].bad1
        BY <1>0, <2>1 DEF TagsKept, Marked
    <2> QED
        BY <1>4, <2>2 DEF Moves, Handling, Moving, Testing, Marked
<1>5. ASSUME CopyFind /\ (Handling' \/ Testing') PROVE Moves'
    <2> DEFINE d == FindSamePlane(cp.src, {}, {})[1]
    <2>1. pc = "find" /\ flash' = flash
        BY <1>5 DEF CopyFind
    <2>2. d # None /\ cp' = [cp EXCEPT !.dst = d, !.page = 0] /\ pc' = "copy"
        BY <1>5, <2>1, NoTimeout DEF CopyFind, Return, Spare, Handling, Moving, Testing
    <2>3. d \in Blocks /\ flash[d].lbn = None /\ ~Marked(d)
        BY <2>2, Found DEF Typed, Shapes, Unused, Tagged, BadBare
    <2>4. flash[cp.src].lbn # None /\ ~Marked(cp.src) /\ cp.src \in Blocks
        BY <2>1 DEF Mapped, Moves, Handling, Typed, CpLocals
    <2>5. \A l \in Blocks : lut[l] # d
        BY <1>1, <2>3, Geometry DEF TableRight
    <2> HIDE DEF d
    <2>6. cp'.src = cp.src /\ cp'.dst = d /\ cp'.page = 0
        BY <2>2 DEF Typed, Shapes, Cp
    <2> QED
        BY <1>0, <2>1, <2>2, <2>3, <2>4, <2>5, <2>6 DEF Moves, Handling, Moving, Testing, Marked
<1>6. ASSUME CopyUsed PROVE Moves'
    <2>1. pc = "copy" /\ pc' = "erase" /\ cp' = cp /\ cp.page = PageNum
        BY <1>6 DEF CopyUsed
    <2>2. cp.page > 0 /\ cp.src \in Blocks /\ cp.dst \in Blocks
        BY <2>1, Geometry DEF Typed, CpLocals, Handling, Moving
    <2> QED
        BY <1>0, <2>1, <2>2
            DEF Mapped, Moves, Handling, Moving, Testing, Marked, TagsKept
<1>7. Moves'
    BY <1>3, <1>4, <1>5, <1>6, RequestsKeep
<1> QED
    BY <1>1, <1>2, <1>7 DEF Mapped


LEMMA PageMapped ==
    ASSUME Typed, Typed', Mapped, CopyPage
    PROVE  Mapped'
<1>1. /\ pc = "copy" /\ pc' \in {"copy", "bad"} /\ lut' = lut /\ valid' = valid /\ cap' = cap
      /\ cp.src \in Blocks /\ cp.dst \in Blocks /\ cp'.src = cp.src /\ cp'.dst = cp.dst
      /\ cp.page \in Nat /\ cp'.page \in Nat
    BY PageTags DEF CopyPage, Typed, Shapes, Cp
<1>2. Up /\ Up' /\ Moving /\ Handling /\ ~Testing'
    BY <1>1 DEF Up, Moving, Handling, Testing
<1>3. /\ flash[cp.src].lbn # None /\ ~Marked(cp.src) /\ cp.dst # cp.src
      /\ ~Marked(cp.dst) /\ \A l \in Blocks : lut[l] # cp.dst
      /\ cp.page > 0 => flash[cp.dst].lbn = flash[cp.src].lbn
    BY <1>2 DEF Mapped, Moves
<1>4. OthersKept(cp.dst) /\ flash'[cp.src] = flash[cp.src]
    BY <1>1, <1>3, PageTags DEF OthersKept
<1>5. /\ flash'[cp.dst].lbn \in {flash[cp.src].lbn, flash[cp.dst].lbn}
      /\ cp'.page > 0 => flash'[cp.dst].lbn = flash[cp.src].lbn
      /\ ~flash'[cp.dst].bad0 /\ ~flash'[cp.dst].bad1
    BY <1>1, <1>3, PageTags DEF Marked
<1>6. TableRight'
    <2> SUFFICES ASSUME NEW l \in Blocks
                 PROVE  /\ l < valid' => lut'[l] # None
                        /\ lut'[l] # None => flash'[lut'[l]].lbn = l /\ ~Marked(lut[l])'
        BY DEF TableRight
    <2>1. TableRight
        BY <1>2 DEF Mapped
    <2>2. lut[l] # None => lut[l] \in Blocks /\ flash'[lut[l]] = flash[lut[l]]
        BY <1>3, <1>4 DEF Typed, Shapes, OthersKept
    <2> QED
        BY <1>1, <2>1, <2>2 DEF TableRight, Marked
<1>7. Moves'
    BY <1>1, <1>2, <1>3, <1>4, <1>5 DEF Moves, Handling, Moving, Marked
<1>8. valid' = cap /\ cap > 0 /\ cap >= MinBlocks /\ ~Carried(flash, cap)
    BY <1>1, <1>2 DEF Mapped, Capacity
<1>9. ~Carried(flash', cap)
    <2>1. ASSUME NEW b \in Blocks, flash'[b].lbn = cap, ~flash'[b].bad0, ~flash'[b].bad1
          PROVE  FALSE
        <3>1. CASE b # cp.dst
            BY <1>4, <1>8, <2>1, <3>1 DEF Carried, OthersKept
        <3>2. CASE b = cp.dst
            <4>1. flash[cp.src].lbn # cap
                BY <1>1, <1>3, <1>8 DEF Carried, Marked
            <4>3. flash[cp.dst].lbn # cap
                BY <1>1, <1>3, <1>8 DEF Carried, Marked
            <4> QED
                BY <1>5, <2>1, <3>2, <4>1, <4>3
        <3> QED
            BY <3>1, <3>2
    <2> QED
        BY <2>1 DEF Carried
<1> QED
    BY <1>1, <1>2, <1>6, <1>7, <1>8, <1>9, UpCapacity DEF Mapped

(* Losing a block outside the table: the table made anew has the capacity. *)
LEMMA LostCarried ==
    ASSUME Typed, NEW d \in Blocks, OthersKept(d), flash' = flash \/ Blank(d) \/ Retired(d),
           NEW l \in Blocks, Carried(flash', l)
    PROVE  Carried(flash, l)
<1>1. PICK b \in Blocks : flash'[b].lbn = l /\ ~flash'[b].bad0 /\ ~flash'[b].bad1
    BY DEF Carried
<1>2. flash' = flash \/ b # d
    BY <1>1, Geometry DEF Blank, Retired
<1> QED
    BY <1>1, <1>2 DEF Carried, OthersKept

LEMMA RemadeMapped ==
    ASSUME Typed, Typed', TagsAnswer, Mapped, Up, Up', NEW d \in Blocks, OthersKept(d),
           Blank(d) \/ Retired(d), \A l \in Blocks : lut[l] # d,
           ftl_create_lut(flash'), cap' = cap
    PROVE  TableRight' /\ Capacity'
<1>1. TableRight'
    BY TableMade
<1>2. cap \in Blocks /\ valid = cap /\ cap > 0 /\ cap >= MinBlocks /\ ~Carried(flash, cap)
    BY DEF Mapped, Capacity, Typed, Shapes
<1>3. ~Carried(flash', cap)
    BY <1>2, LostCarried
<1>4. ASSUME NEW l \in 0..cap-1 PROVE Carried(flash', l)
    <2>1. l \in Blocks /\ l < valid
        BY <1>2, Geometry DEF Blocks
    <2>2. lut[l] \in Blocks /\ flash[lut[l]].lbn = l /\ ~Marked(lut[l])
        BY <2>1 DEF Mapped, TableRight, Typed, Shapes
    <2>3. flash'[lut[l]] = flash[lut[l]]
        BY <2>1, <2>2 DEF OthersKept
    <2> QED
        BY <2>2, <2>3 DEF Carried, Marked
<1>5. valid' = cap
    BY <1>2, <1>3, <1>4, CapacityFound
<1> QED
    BY <1>1, <1>2, <1>3, <1>5, UpCapacity

LEMMA BadMapped ==
    ASSUME Typed, Typed', TagsAnswer, Mapped, CopyBad
    PROVE  Mapped'
<1>1. ftl_create_lut(flash') /\ cap' = cap
    BY DEF CopyBad
<1>2. Up /\ Up' /\ Moving /\ Handling /\ Handling' /\ ~Moving' /\ ~Testing'
    BY BadTags DEF Up, Moving, Handling, Testing
<1>3. TableRight' /\ Capacity'
    BY <1>1, <1>2, BadTags, RemadeMapped DEF Mapped, Moves
<1>4. Moves'
    <2>1. flash[cp.src].lbn # None /\ ~Marked(cp.src) /\ cp.src # cp.dst
        BY <1>2 DEF Mapped, Moves
    <2>2. flash'[cp.src] = flash[cp.src] /\ cp' = cp
        BY <2>1, BadTags DEF OthersKept
    <2> QED
        BY <1>2, <2>1, <2>2 DEF Moves, Marked
<1> QED
    BY <1>3, <1>4 DEF Mapped

(* The end of a copy puts the destination in the place of the source.      *)
LEMMA EraseTable ==
    ASSUME Typed, TableRight, CopyErase, NEW l \in Blocks
    PROVE  lut'[l] = IF lut[l] = cp.src THEN cp.dst ELSE lut[l]
<1> DEFINE L == {m \in Blocks : lut[m] = cp.src}
<1>1. lut'[l] = IF l \in L /\ (\A m \in L : l <= m) THEN cp.dst ELSE lut[l]
    BY DEF CopyErase
<1>2. cp.src \in Blocks
    BY EraseTags
<1>3. ASSUME NEW m \in L PROVE m = flash[cp.src].lbn
    BY <1>2, Geometry DEF TableRight
<1>4. l \in L => \A m \in L : l <= m
    <2> SUFFICES ASSUME l \in L, NEW m \in L PROVE l <= m
        OBVIOUS
    <2>1. l = m
        BY <1>3
    <2> QED
        BY <2>1, Geometry DEF Blocks
<1>5. l \in L <=> lut[l] = cp.src
    OBVIOUS
<1> HIDE DEF L
<1> QED
    BY <1>1, <1>4, <1>5

LEMMA EraseMapped ==
    ASSUME Typed, Typed', Mapped, CopyErase
    PROVE  Mapped'
<1> DEFINE s == cp.src
           d == cp.dst
<1>1. /\ s \in Blocks /\ d \in Blocks /\ OthersKept(s) /\ (flash' = flash \/ Blank(s))
      /\ valid' = valid /\ cap' = cap /\ pc' \in {"loop", "ones"}
      /\ pc' = "ones" => cp' = cp
    BY EraseTags DEF CopyErase
<1>2. Up /\ Up' /\ Moving /\ Handling /\ ~Handling' /\ ~Moving' /\ TableRight
    BY EraseTags DEF Up, Moving, Handling, Mapped
<1>3. /\ flash[s].lbn # None /\ ~Marked(s) /\ d # s /\ \A l \in Blocks : lut[l] # d
      /\ flash[d].lbn = flash[s].lbn
    BY <1>2, EraseTags DEF Mapped, Moves
<1>4. ~Marked(d)
    BY <1>2 DEF Mapped, Moves
<1>5. \A l \in Blocks : lut'[l] = IF lut[l] = s THEN d ELSE lut[l]
    BY <1>2, EraseTable
<1> HIDE DEF s, d
<1>6. TableRight'
    <2> SUFFICES ASSUME NEW l \in Blocks
                 PROVE  /\ l < valid' => lut'[l] # None
                        /\ lut'[l] # None => flash'[lut'[l]].lbn = l /\ ~Marked(lut[l])'
        BY DEF TableRight
    <2>1. CASE lut[l] = s
        <3>1. lut'[l] = d /\ flash'[d] = flash[d] /\ flash[s].lbn = l /\ d # None
            BY <1>1, <1>2, <1>3, <1>5, <2>1, Geometry DEF TableRight, OthersKept
        <3> QED
            BY <1>3, <1>4, <3>1 DEF Marked
    <2>2. CASE lut[l] # s
        <3>1. lut'[l] = lut[l] /\ (lut[l] # None => lut[l] \in Blocks)
            BY <1>5, <2>2 DEF Typed, Shapes
        <3>2. lut[l] # None => flash'[lut[l]] = flash[lut[l]]
            BY <1>1, <2>2, <3>1 DEF OthersKept
        <3> QED
            BY <1>1, <1>2, <3>1, <3>2 DEF TableRight, Marked
    <2> QED
        BY <2>1, <2>2
<1>7. Moves'
    <2>1. ASSUME NEW l \in Blocks PROVE lut'[l] # s
        BY <1>3, <1>5
    <2> QED
        BY <1>1, <1>2, <2>1 DEF Moves, Testing, s
<1>8. valid' = cap /\ cap > 0 /\ cap >= MinBlocks /\ ~Carried(flash, cap) /\ cap \in Blocks
    BY <1>1, <1>2 DEF Mapped, Capacity, Typed, Shapes
<1>9. ~Carried(flash', cap)
    BY <1>1, <1>8, LostCarried
<1> QED
    BY <1>1, <1>2, <1>6, <1>7, <1>8, <1>9, UpCapacity DEF Mapped

LEMMA TestMapped ==
    ASSUME Typed, Typed', TagsAnswer, Mapped, Tests
    PROVE  Mapped'
<1>1. /\ Testing /\ cp.src \in Blocks /\ OthersKept(cp.src) /\ cap' = cap
      /\ pc' \in {"zeros", "wipe", "scrap", "retire", "loop"} /\ (Testing' => cp' = cp)
      /\ flash' = flash \/ Blank(cp.src) \/ Retired(cp.src)
    <2>1. cap' = cap
        BY DEF Tests, TestOnes, TestZeros, TestErase, Retire
    <2> QED
        BY <2>1, TestTags, TestsGoOn DEF Testing
<1>2. Up /\ Up' /\ ~Handling' /\ ~Moving' /\ TableRight
    BY <1>1 DEF Up, Moving, Handling, Testing, Mapped
<1>3. \A l \in Blocks : lut[l] # cp.src
    BY <1>1 DEF Mapped, Moves
<1>4. CASE Retire
    <2>1. ftl_create_lut(flash') /\ pc' = "loop" /\ Retired(cp.src)
        BY <1>4, TestTags, TestsGoOn
    <2>2. TableRight' /\ Capacity'
        BY <1>1, <1>2, <1>3, <2>1, RemadeMapped
    <2> QED
        BY <1>2, <2>1, <2>2 DEF Mapped, Moves, Testing
<1>5. CASE ~Retire
    <2>1. lut' = lut /\ valid' = valid
        BY <1>5, TestsGoOn
    <2>2. ASSUME NEW l \in Blocks, lut[l] # None PROVE flash'[lut[l]] = flash[lut[l]]
        BY <1>1, <1>3, <2>2 DEF OthersKept, Typed, Shapes
    <2>3. TableRight'
        BY <1>2, <2>1, <2>2 DEF TableRight, Marked
    <2>5. Moves'
        BY <1>1, <1>2, <1>3, <2>1 DEF Moves
    <2>6. valid' = cap /\ cap > 0 /\ cap >= MinBlocks /\ ~Carried(flash, cap) /\ cap \in Blocks
        BY <1>2, <2>1 DEF Mapped, Capacity, Typed, Shapes
    <2>7. ~Carried(flash', cap)
        BY <1>1, <2>6, LostCarried
    <2> QED
        BY <1>1, <1>2, <2>3, <2>5, <2>6, <2>7, UpCapacity DEF Mapped
<1> QED
    BY <1>4, <1>5

LEMMA NextMapped ==
    ASSUME Typed, Typed', TagsAnswer, Tagged, Mapped, Spare, [Next]_vars
    PROVE  Mapped'
<1>1. CASE Requests
    BY <1>1, RequestsMapped
<1>2. ASSUME NEW f \in FormatFaults,
             FormatFails(f) \/ \E k \in 0..BlockTotal : ftl_format(k, f)
      PROVE  Mapped'
    BY <1>2, FormatMapped
<1>3. CASE ftl_init
    BY <1>3, InitCallMapped
<1>4. CASE PowerFail
    BY <1>4, PowerFailMapped
<1>5. CASE CopyPage
    BY <1>5, PageMapped
<1>6. CASE CopyBad
    BY <1>6, BadMapped
<1>7. CASE CopyErase
    BY <1>7, EraseMapped
<1>8. CASE Tests
    BY <1>8, TestMapped
<1>9. CASE UNCHANGED vars
    <2>1. UNCHANGED <<flash, lut, valid, cap, pc, cp>>
        BY <1>9 DEF vars
    <2>2. (Up => TableRight)'
        BY <2>1 DEF Mapped, Up, TableRight, Marked
    <2>3. Moves'
        BY <2>1 DEF Mapped, Moves, Handling, Moving, Testing, Marked
    <2>4. Capacity'
        BY <2>1 DEF Mapped, Capacity, Carried, Up
    <2> QED
        BY <2>2, <2>3, <2>4 DEF Mapped
<1> QED
    BY <1>1, <1>2, <1>3, <1>4, <1>5, <1>6, <1>7, <1>8, <1>9
        DEF Next, Work, Requests, Tests

LEMMA InitMapped == Init => Mapped
<1> SUFFICES ASSUME Init PROVE Mapped
    OBVIOUS
<1>1. pc = "off" /\ valid = 0 /\ cap = 0
    BY DEF Init, Boot
<1> QED
    BY <1>1, Geometry DEF Mapped, Moves, Capacity, Up, Handling, Moving, Testing

LEMMA MappedAlways == Spec /\ []Spare => [](TagsAnswer => Mapped)
<1>1. /\ Typed /\ Typed' /\ (TagsAnswer => Tagged) /\ (TagsAnswer => Mapped) /\ Spare
      /\ [Next]_vars
      => (TagsAnswer => Mapped)'
    BY NextMapped, TagsAnswerStill
<1> QED
    BY <1>1, InitMapped, TypedAlways, TaggedAlways, PTL DEF Spec

LEMMA RightTable ==
    ASSUME Typed, TagsAnswer => Mapped
    PROVE  LutMatchesTags
<1> SUFFICES ASSUME TagsAnswer, pc = "idle", NEW l \in 0..valid-1
             PROVE  lut[l] \in Blocks /\ flash[lut[l]].lbn = l /\ ~Marked(lut[l])
    BY DEF LutMatchesTags
<1>1. l \in Blocks /\ l < valid
    BY Geometry DEF Typed, Shapes, Blocks
<1> QED
    BY <1>1 DEF Mapped, Up, TableRight, Typed, Shapes

LEMMA RightCapacity ==
    ASSUME TagsAnswer => Mapped
    PROVE  CapacityKept
BY DEF Mapped, Capacity, CapacityKept, Up

(* Where the tags answer, whatever data pages time out, erases fail and    *)
(* power fails: as long as reads that must move a block find a free one,   *)
(* each number the host may use leads to a good block that carries it, and *)
(* no block serves two. (A spare read that times out at ftl.c:491 or 495   *)
(* gives the table the number of another block.)                           *)
THEOREM TableLeadsRight == Spec /\ []Spare => []LutMatchesTags
<1>1. Typed /\ (TagsAnswer => Mapped) => LutMatchesTags
    BY RightTable
<1> QED
    BY <1>1, TypedAlways, MappedAlways, PTL

(* Under the same condition the device keeps its capacity: no power        *)
(* failure, at whatever operation, no erase that fails and no retired      *)
(* block makes it smaller, and a device with data is never formatted.      *)
THEOREM CapacityStays == Spec /\ []Spare => []CapacityKept
<1>1. (TagsAnswer => Mapped) => CapacityKept
    BY RightCapacity
<1> QED
    BY <1>1, MappedAlways, PTL

-----------------------------------------------------------------------------
(* Chips whose reads need no correction.                                   *)

(* A read moves a block only where a bit was corrected.                    *)
Reading == (Handling /\ op.kind = "read") \/ Testing => chip.ecc # {}

LEMMA NextReading ==
    ASSUME Typed, Reading, [Next]_vars
    PROVE  Reading' /\ chip' = chip
<1>0. chip' = chip
    BY ChipKept
<1>1. CASE Calls \/ ftl_init \/ Finished \/ Unmapped \/ TimesOut \/ WritePage \/ ReadPage
           \/ PowerFail
    <2>2. pc' \in {"loop", "format", "idle", "mark", "off"}
        BY <1>1 DEF Calls, ReadCall, WriteCall, ftl_init, Finished, Unmapped, TimesOut,
                    WritePage, ReadPage, PowerFail, Return
    <2> QED
        BY <1>0, <2>2 DEF Reading, Handling, Moving, Testing
<1>2. ASSUME NEW f \in FormatFaults,
             FormatFails(f) \/ \E k \in 0..BlockTotal : ftl_format(k, f)
      PROVE  Reading'
    <2>1. pc' \in {"off", "dead", "idle"}
        BY <1>2, FormatMoves
    <2> QED
        BY <2>1 DEF Reading, Handling, Moving, Testing
<1>3. CASE WriteMark \/ WriteMove
    <2>1. op.kind = "write" /\ op'.kind = "write"
        <3>1. op.kind = "write"
            BY <1>3 DEF WriteMark, WriteMove, Typed, OpLocals
        <3>2. op'.kind = op.kind
            BY <1>3 DEF WriteMark, WriteMove, Typed, Shapes, Op
        <3> QED
            BY <3>1, <3>2
    <2>2. pc' \in {"loop", "find"}
        BY <1>3 DEF WriteMark, WriteMove, Move
    <2> QED
        BY <1>0, <2>1, <2>2 DEF Reading, Handling, Moving, Testing
<1>4. CASE ReadMove
    <2>1. chip.ecc # {}
        BY <1>4 DEF ReadMove
    <2> QED
        BY <1>0, <2>1 DEF Reading
<1>5. CASE CopyFind \/ CopyPage \/ CopyBad \/ CopyUsed \/ CopyErase
    <2>1. Handling
        BY <1>5 DEF CopyFind, CopyPage, CopyBad, CopyUsed, CopyErase, Handling, Moving
    <2>2. \/ op' = op /\ (Testing' => op.kind = "read")
          \/ pc' \in {"idle", "loop"}
        BY <1>5 DEF CopyFind, CopyPage, CopyBad, CopyUsed, CopyErase, Testing, Return
    <2> QED
        BY <1>0, <2>1, <2>2 DEF Reading, Handling, Moving, Testing
<1>6. CASE Tests
    BY <1>0, <1>6, TestsGoOn DEF Reading
<1>7. CASE UNCHANGED vars
    BY <1>7 DEF vars, Reading, Handling, Moving, Testing
<1> QED
    BY <1>0, <1>1, <1>2, <1>3, <1>4, <1>5, <1>6, <1>7 DEF Next, Work, Tests

LEMMA ReadingAlways == Spec => []Reading
<1>1. Init => Reading
    BY DEF Init, Reading, Handling, Moving, Testing
<1>2. Typed /\ Reading /\ [Next]_vars => Reading'
    BY NextReading
<1> QED
    BY <1>1, <1>2, TypedAlways, PTL DEF Spec

(* On such a chip the condition on free blocks always holds.               *)
LEMMA SpareAlways == Spec /\ chip.ecc = {} => []Spare
<1>1. Typed /\ Reading /\ chip.ecc = {} /\ [Next]_vars => (chip.ecc = {})'
    BY NextReading
<1>2. Reading /\ chip.ecc = {} => Spare
    BY DEF Reading, Spare, Handling
<1> QED
    BY <1>1, <1>2, TypedAlways, ReadingAlways, PTL DEF Spec

-----------------------------------------------------------------------------
(* Free blocks are erased.                                                 *)

(* A block that passes for unused is erased, but for a source under test.  *)
(* A power failure during that test leaves one that is not, and so does an *)
(* erase that fails at its end (ftl.c:443).                                *)
Sound == chip.ecc = {} \/ (crashes = 0 /\ chip.worn = {})

Clean ==
    Sound =>
        \A b \in Blocks :
            Unused(b) /\ ~(Testing /\ b = cp.src) => flash[b].data = Erased.data

LEMMA ErasedData == Erased.data = [k \in 0..BlkSec-1 |-> FF]
BY DEF Erased

(* After the step the block does not pass for unused.                      *)
Taken(b) == flash'[b].bad0 \/ flash'[b].used \/ flash'[b].lbn # None

(* A step that changes one block, and leaves the others that pass for      *)
(* unused as they are.                                                     *)
LEMMA OneClean ==
    ASSUME Typed, Clean, ~Testing \/ (Testing' /\ cp'.src = cp.src) \/ Taken(cp.src)
              \/ (cp.src \in Blocks /\ flash'[cp.src].data = Erased.data),
           Sound' => Sound, NEW d, OthersKept(d),
           d \in Blocks => \/ Taken(d) \/ flash'[d].data = Erased.data
                           \/ Testing' /\ cp'.src = d
    PROVE  Clean'
<1> SUFFICES ASSUME Sound, NEW b \in Blocks, Unused(b)',
                    ~(Testing' /\ b = cp'.src)
             PROVE  flash'[b].data = Erased.data
    BY ErasedData DEF Clean
<1>0. ~Taken(b)
    BY DEF Unused, Taken
<1>1. CASE b = d
    BY <1>0, <1>1
<1>2. CASE b # d
    <2>1. flash'[b] = flash[b]
        BY <1>2 DEF OthersKept
    <2>2. Unused(b)
        BY <2>1 DEF Unused
    <2>3. CASE Testing /\ b = cp.src
        BY <1>0, <2>3
    <2>4. CASE ~(Testing /\ b = cp.src)
        BY <2>1, <2>2, <2>4 DEF Clean
    <2> QED
        BY <2>3, <2>4
<1> QED
    BY <1>1, <1>2

LEMMA NextClean ==
    ASSUME Typed, Typed', TagsAnswer, Tagged, Mapped, Reading, Clean, [Next]_vars
    PROVE  Clean'
<1>0. chip' = chip
    BY ChipKept
<1>a. ASSUME crashes' = 0 => crashes = 0 PROVE Sound' => Sound
    BY <1>0, <1>a DEF Sound
<1>1. CASE PowerFail
    <2>1. crashes' # 0 /\ pc' = "off" /\ flash' = flash
        BY <1>1, QuietTags DEF PowerFail, Typed, Shapes
    <2> SUFFICES ASSUME chip.ecc = {}, NEW b \in Blocks, Unused(b)'
                 PROVE  flash'[b].data = Erased.data
        BY <1>0, <2>1, ErasedData DEF Clean, Sound
    <2>2. Unused(b) /\ ~Testing
        BY <2>1 DEF Unused, Reading
    <2> QED
        BY <2>1, <2>2 DEF Clean, Sound
<1>2. CASE Calls \/ ftl_init \/ Finished \/ Unmapped \/ TimesOut \/ CopyFind \/ ReadPage
           \/ ReadMove \/ UNCHANGED vars
    <2>1. /\ flash' = flash /\ crashes' = crashes
          /\ Testing => Testing' /\ cp'.src = cp.src
        BY <1>2 DEF Calls, ReadCall, WriteCall, ftl_init, Finished, Unmapped, TimesOut, Return,
                    CopyFind, ReadPage, ReadMove, Testing, vars
    <2>2. None \notin Blocks /\ OthersKept(None)
        BY <2>1, Geometry DEF OthersKept
    <2> QED
        BY <1>a, <2>1, <2>2, OneClean
<1>3. CASE WritePage \/ WriteMark \/ WriteMove
    <2>1. /\ pc \in {"loop", "mark"} /\ Pbn # None /\ crashes' = crashes
          /\ \/ flash' = flash
             \/ flash' = [flash EXCEPT ![Pbn].used = TRUE]
             \/ \E c : flash' = [flash EXCEPT ![Pbn].data = Programmed(c)]
        BY <1>3 DEF WritePage, WriteMark, WriteMove, Typed, OpLocals
    <2>2. Pbn \in Blocks /\ flash[Pbn].lbn # None
        BY <2>1, PbnMapped, Geometry DEF Mapped, Up
    <2>3. OthersKept(Pbn) /\ flash'[Pbn].lbn = flash[Pbn].lbn
        BY <2>1, <2>2 DEF OthersKept, Typed, Shapes, Block
    <2>4. Taken(Pbn)
        BY <2>2, <2>3 DEF Taken
    <2> QED
        BY <1>a, <2>1, <2>3, <2>4, OneClean DEF Testing
<1>4. CASE CopyPage
    <2>1. /\ Moving /\ ~Testing /\ cp.src \in Blocks /\ cp.dst \in Blocks
          /\ OthersKept(cp.dst) /\ crashes' = crashes
        BY <1>4, PageTags DEF Moving, Testing
    <2>2. /\ flash[cp.src].lbn # None /\ cp.page \in Nat
          /\ cp.page > 0 => flash[cp.dst].lbn = flash[cp.src].lbn
        BY <2>1 DEF Mapped, Moves, Handling, Typed, Shapes, Cp
    <2>3. CASE flash' = flash
        <3>1. OthersKept(None) /\ None \notin Blocks
            BY <2>3, Geometry DEF OthersKept
        <3> QED
            BY <1>a, <2>1, <3>1, OneClean
    <2>4. CASE flash' # flash
        <3>1. flash'[cp.dst].lbn # None
            BY <1>4, <2>2, <2>4, PageTags
        <3> QED
            BY <1>a, <2>1, <3>1, OneClean DEF Taken
    <2> QED
        BY <2>3, <2>4
<1>5. CASE CopyBad
    BY <1>a, <1>5, BadTags, OneClean DEF Retired, Taken, Testing
<1>6. CASE CopyUsed
    <2>1. /\ pc = "copy" /\ crashes' = crashes /\ cp.dst \in Blocks
          /\ flash' = [flash EXCEPT ![cp.dst].used = TRUE]
        BY <1>6, NoTimeout DEF CopyUsed, Typed, CpLocals, Moving
    <2>2. OthersKept(cp.dst) /\ flash'[cp.dst].used
        BY <2>1 DEF OthersKept, Typed, Shapes, Block
    <2> QED
        BY <1>a, <2>1, <2>2, OneClean DEF Taken, Testing
<1>7. CASE CopyErase
    <2>1. Moving /\ ~Testing /\ cp.src \in Blocks /\ OthersKept(cp.src) /\ crashes' = crashes
        BY <1>7, EraseTags DEF Moving, Testing
    <2>2. Taken(cp.src) \/ flash'[cp.src].data = Erased.data
        <3>1. flash[cp.src].lbn # None
            BY <2>1 DEF Mapped, Moves, Handling
        <3> QED
            BY <1>7, <3>1, EraseTags DEF Taken
    <2> QED
        BY <1>a, <2>1, <2>2, OneClean
<1>8. CASE Tests
    <2>1. /\ cp.src \in Blocks /\ OthersKept(cp.src) /\ crashes' = crashes /\ Testing
          /\ pc' \in {"zeros", "wipe", "scrap", "retire", "loop"}
        BY <1>8, TestTags, TestsGoOn
    <2>2. CASE pc' = "loop"
        <3>1. TestErase \/ Retire
            BY <1>8, <2>2 DEF Tests, TestOnes, TestZeros
        <3>2. CASE TestErase
            <4>1. Sound => chip.worn = {}
                BY <2>1 DEF Sound, Reading
            <4>2. Sound => flash'[cp.src] = Erased
                BY <2>1, <3>2, <4>1 DEF TestErase, Erasing, Typed, Shapes
            <4>3. CASE Sound
                <5>1. flash'[cp.src].data = Erased.data
                    BY <4>2, <4>3
                <5> QED
                    BY <1>a, <2>1, <5>1, OneClean
            <4>4. CASE ~Sound
                BY <1>a, <2>1, <4>4 DEF Clean
            <4> QED
                BY <4>3, <4>4
        <3>3. CASE Retire
            <4>1. Taken(cp.src)
                BY <1>8, <3>3, TestTags DEF Retired, Taken
            <4> QED
                BY <1>a, <2>1, <4>1, OneClean
        <3> QED
            BY <3>1, <3>2, <3>3
    <2>3. CASE pc' # "loop"
        <3>1. Testing' /\ cp' = cp
            BY <1>8, <2>1, <2>3, TestsGoOn DEF Testing
        <3> QED
            BY <1>a, <2>1, <3>1, OneClean
    <2> QED
        BY <2>2, <2>3
<1>9. ASSUME NEW f \in FormatFaults,
             FormatFails(f) \/ \E k \in 0..BlockTotal : ftl_format(k, f)
      PROVE  Clean'
    <2> SUFFICES ASSUME NEW b \in Blocks, Unused(b)'
                 PROVE  flash'[b].data = Erased.data
        BY ErasedData DEF Clean
    <2>1. ~flash'[b].bad0
        BY DEF Unused
    <2>2. Marked(b) => flash[b].bad0
        BY DEF Tagged, BadBare
    <2> QED
        BY <1>9, <2>1, <2>2, FormatTags DEF Retired
<1> QED
    BY <1>1, <1>2, <1>3, <1>4, <1>5, <1>6, <1>7, <1>8, <1>9 DEF Next, Work, Tests

LEMMA CleanAlways == Spec /\ []Spare => [](TagsAnswer => Clean)
<1>1. Init => Clean
    BY ErasedData DEF Init, Clean, Erased
<1>2. /\ Typed /\ Typed' /\ (TagsAnswer => Tagged) /\ (TagsAnswer => Mapped) /\ Reading
      /\ (TagsAnswer => Clean) /\ [Next]_vars
      => (TagsAnswer => Clean)'
    BY NextClean, TagsAnswerStill
<1> QED
    BY <1>1, <1>2, TypedAlways, TaggedAlways, ReadingAlways, MappedAlways, PTL DEF Spec

(* A block ftl.c takes for free is erased, whatever data pages time out    *)
(* and copies are given up half way, so that no block comes back with old  *)
(* data: while power stays on and erases succeed, and also when they do    *)
(* not on a chip whose reads need no correction, where no test writes      *)
(* zeros. The erase after a copy may fail (ftl.c:265): the source keeps    *)
(* its number and does not pass for unused.                                *)
THEOREM FreeIsErased == Spec /\ []Spare => []UnusedIsErased
<1>1. (TagsAnswer => Clean) => UnusedIsErased
    BY DEF Clean, Sound, UnusedIsErased, Testing
<1> QED
    BY <1>1, CleanAlways, PTL

-----------------------------------------------------------------------------
(* Sectors, blocks and pages.                                              *)

LEMMA Times ==
    ASSUME NEW d \in Nat, NEW a \in Int, NEW b \in Int
    PROVE  /\ d * a \in Int /\ d * (a + 1) = d * a + d
           /\ a <= b => d * a <= d * b
<1>1. d * a \in Int /\ d * (a + 1) = d * a + d
    OBVIOUS
<1>2. ASSUME a <= b PROVE d * a <= d * b
    <2>1. b - a \in Nat
        BY <1>2
    <2>2. d * (b - a) \in Nat
        BY <2>1
    <2>3. d * (b - a) = d * b - d * a
        OBVIOUS
    <2>4. d * a \in Int /\ d * b \in Int
        OBVIOUS
    <2> QED
        BY <2>2, <2>3, <2>4
<1> QED
    BY <1>1, <1>2

(* Quotient and remainder are unique.                                      *)
LEMMA Quotient ==
    ASSUME NEW d \in Nat \ {0}, NEW a \in Nat, NEW q \in Int, NEW r \in 0..d-1, a = d * q + r
    PROVE  a \div d = q /\ a % d = r
<1> DEFINE p == a \div d
           m == a % d
<1>1. p \in Nat /\ m \in 0..d-1 /\ a = d * p + m
    BY DivMod
<1> HIDE DEF p, m
<1>2. ~(p < q)
    <2>1. p + 1 <= q => d * (p + 1) <= d * q /\ d * (p + 1) = d * p + d
        BY <1>1, Times
    <2>2. d * p \in Int /\ d * q \in Int
        BY <1>1, Times
    <2> QED
        BY <1>1, <2>1, <2>2
<1>3. ~(q < p)
    <2>1. q + 1 <= p => d * (q + 1) <= d * p /\ d * (q + 1) = d * q + d
        BY <1>1, Times
    <2>2. d * p \in Int /\ d * q \in Int
        BY <1>1, Times
    <2> QED
        BY <1>1, <2>1, <2>2
<1>4. p = q
    BY <1>1, <1>2, <1>3
<1>5. m = r
    BY <1>1, <1>4, Times
<1> QED
    BY <1>4, <1>5 DEF p, m

(* A number lies below a multiple of d when its quotient is smaller.       *)
LEMMA Below ==
    ASSUME NEW d \in Nat \ {0}, NEW a \in Nat, NEW v \in Nat
    PROVE  a < v * d <=> a \div d < v
<1> DEFINE p == a \div d
           m == a % d
<1>1. p \in Nat /\ m \in 0..d-1 /\ a = d * p + m
    BY DivMod
<1> HIDE DEF p, m
<1>4. d * p \in Int /\ d * v \in Int /\ v * d = d * v
    BY <1>1
<1>2. p + 1 <= v => d * (p + 1) <= d * v /\ d * (p + 1) = d * p + d
    BY <1>1, Times
<1>3. v <= p => d * v <= d * p
    BY <1>1, Times
<1> QED
    BY <1>1, <1>2, <1>3, <1>4 DEF p

(* A few sectors on in the same block, and back.                           *)
LEMMA Ahead ==
    ASSUME NEW d \in Nat \ {0}, NEW a \in Nat, NEW j \in Int, (a % d) + j \in 0..d-1
    PROVE  a + j \in Nat /\ (a + j) \div d = a \div d /\ (a + j) % d = (a % d) + j
<1> DEFINE p == a \div d
           m == a % d
<1>1. p \in Nat /\ m \in 0..d-1 /\ a = d * p + m /\ m + j \in 0..d-1
    BY DivMod
<1> HIDE DEF p, m
<1>2. d * p \in Nat
    BY <1>1
<1>3. a + j \in Nat /\ a + j = d * p + (m + j) /\ p \in Int
    BY <1>1, <1>2
<1>4. (a + j) \div d = p /\ (a + j) % d = m + j
    BY <1>1, <1>3, Quotient
<1> QED
    BY <1>3, <1>4 DEF p, m

LEMMA Apart ==
    ASSUME NEW d \in Nat \ {0}, NEW a \in Nat, NEW b \in Nat, a \div d = b \div d
    PROVE  a - b = (a % d) - (b % d)
<1> DEFINE p == a \div d
           m == a % d
           n == b % d
           q == b \div d
<1>1. p \in Nat /\ m \in Nat /\ a = d * p + m
    BY DivMod
<1>2. q \in Nat /\ n \in Nat /\ b = d * q + n
    BY DivMod
<1>3. q = p
    OBVIOUS
<1> HIDE DEF p, q, m, n
<1>4. d * p \in Nat /\ b = d * p + n
    BY <1>1, <1>2, <1>3
<1>5. a - b = m - n
    BY <1>1, <1>2, <1>4
<1> QED
    BY <1>5 DEF m, n

-----------------------------------------------------------------------------
(* What the host reads back.                                               *)

Sane == crashes = 0 /\ chip.weak = {} /\ chip.worn = {}

LEMMA SaneTags == Sane => TagsAnswer
BY DEF Sane, TagsAnswer, TagPages

(* The content the table leads to after a step.                            *)
NewHome(x) == flash'[lut'[x \div BlkSec]].data[x % BlkSec]
Inside(x) == x \div BlkSec < valid

(* A step that changes nothing the host sees of a request, and one that    *)
(* puts the next `t` sectors of a write in their places.                   *)
SameAsk == op'.sec = op.sec /\ op'.cnt = op.cnt /\ op'.buf = op.buf /\ op'.kind = op.kind
Still == /\ Up /\ Up' /\ valid' = valid /\ SameAsk /\ Settled' = Settled
         /\ \A x \in Sectors : Inside(x) => NewHome(x) = Home(x)
Puts(t) ==
    /\ Up /\ Up' /\ valid' = valid /\ SameAsk /\ op.kind = "write"
    /\ t \in Nat \ {0} /\ Settled' = Settled + t /\ Settled + t <= op.cnt
    /\ \A x \in Sectors :
          Inside(x) => NewHome(x) = IF x - op.sec \in Settled..Settled+t-1
                                    THEN op.buf[x - op.sec] ELSE Home(x)
    /\ op.sec+Settled..op.sec+Settled+t-1 \subseteq 0..valid*BlkSec-1

(* Without a request nothing is asked, and only a read tests a source;     *)
(* before the tables are made every good block has admissible contents.    *)
Resting ==
    /\ Testing => op.kind = "read"
    /\ pc \in {"off", "format", "dead", "idle"} => op.kind = "none"
    /\ pc = "off" => cap = 0
    /\ pc \in {"off", "dead"} =>
         \A b \in Blocks : ~Marked(b) => \A x \in Sectors : flash[b].data[x % BlkSec] \in adm[x]

Stored == Up => \A x \in Sectors : Inside(x) => Home(x) \in adm[x]

Written ==
    Up /\ op.kind = "write" =>
        \A x \in Asked :
            /\ Inside(x) => op.buf[x - op.sec] \in adm[x]
            /\ x - op.sec < Settled => Inside(x) /\ Home(x) = op.buf[x - op.sec]

(* What a copy takes along: the request's sectors from here on in this     *)
(* block, or what the read found in this page.                             *)
Taking ==
    Handling =>
        /\ pc # "bad" /\ cp.src = Pbn /\ Pbn # None /\ op.i < op.cnt /\ op.kind # "none"
        /\ cp.off = Page /\ cp.take \in 1..BlkSec-BlockOffset
        /\ \A j \in 0..cp.take-1 :
              cp.buf[j] = IF op.kind = "write" THEN op.buf[op.i + j]
                          ELSE flash[cp.src].data[BlockOffset + j]
        /\ pc = "find" => cp.from = 0 /\ cp.col = Col

(* What the destination is to hold, and does up to the page that is next.  *)
Target(k) == IF k - BlockOffset \in 0..cp.take-1 THEN cp.buf[k - BlockOffset]
             ELSE flash[cp.src].data[k]
Copying ==
    pc \in {"copy", "erase"} =>
        /\ cp.page <= cp.off => cp.from = 0 /\ cp.col = Col
        /\ cp.page > cp.off =>
             cp.from = Least(cp.take, cp.page * SecPerPage - BlockOffset) /\ cp.col = 0
        /\ \A k \in 0..BlkSec-1 :
              flash[cp.dst].data[k] = IF k < cp.page * SecPerPage THEN Target(k) ELSE FF
        /\ pc = "erase" => cp.page = PageNum

Kept == Resting /\ Stored /\ Written /\ Taking /\ Copying

(* A sector number and its block.                                          *)
LEMMA Sector ==
    ASSUME NEW x \in Sectors
    PROVE  /\ x \in Nat /\ x \div BlkSec \in Blocks /\ x % BlkSec \in 0..BlkSec-1
           /\ \A v \in Nat : x < v * BlkSec <=> x \div BlkSec < v
<1>1. x \in Nat /\ x < BlockTotal * BlkSec
    BY Geometry DEF Sectors
<1>2. x \div BlkSec \in Nat /\ x % BlkSec \in 0..BlkSec-1 /\ x \div BlkSec < BlockTotal
    BY <1>1, Geometry, DivMod, Below
<1>3. \A v \in Nat : x < v * BlkSec <=> x \div BlkSec < v
    BY <1>1, Geometry, Below
<1> QED
    BY <1>1, <1>2, <1>3, Geometry DEF Blocks

(* The sectors the request goes on with, and the block they are in.        *)
LEMMA Window ==
    ASSUME Shapes, NEW t \in 0..BlkSec-BlockOffset, NEW x \in Sectors
    PROVE  /\ x - Sec \in 0..t-1 <=> /\ x \div BlkSec = Sec \div BlkSec
                                     /\ (x % BlkSec) - BlockOffset \in 0..t-1
           /\ x \div BlkSec = Sec \div BlkSec => (x % BlkSec) - BlockOffset = x - Sec
<1>1. Sec \in Nat /\ BlockOffset \in 0..BlkSec-1 /\ BlockOffset = Sec % BlkSec
      /\ BlkSec \in Nat \ {0} /\ x \in Nat /\ x % BlkSec \in 0..BlkSec-1
    BY Place, Geometry, Sector DEF BlockOffset
<1>2. x \div BlkSec = Sec \div BlkSec => (x % BlkSec) - BlockOffset = x - Sec
    BY <1>1, Apart
<1>3. ASSUME x - Sec \in 0..t-1 PROVE x \div BlkSec = Sec \div BlkSec
    <2> DEFINE j == x - Sec
    <2>1. j \in Int /\ (Sec % BlkSec) + j \in 0..BlkSec-1 /\ x = Sec + j
        BY <1>1, <1>3
    <2> HIDE DEF j
    <2> QED
        BY <1>1, <2>1, Ahead
<1> QED
    BY <1>2, <1>3

(* The sectors of a device with v numbers.                                 *)
LEMMA Device ==
    ASSUME NEW v \in Blocks
    PROVE  /\ v * BlkSec \in 0..BlockTotal*BlkSec
           /\ v > 0 => v * BlkSec > 0
           /\ \A x : x \in 0..v*BlkSec-1 <=> x \in Sectors /\ x \div BlkSec < v
<1>1. v \in Nat /\ BlkSec \in Nat \ {0} /\ v <= BlockTotal /\ BlockTotal \in Nat
    BY Geometry DEF Blocks
<1>2. /\ BlkSec * v \in Nat /\ BlkSec * BlockTotal \in Nat
      /\ BlkSec * v <= BlkSec * BlockTotal
      /\ v > 0 => BlkSec * 1 <= BlkSec * v
    BY <1>1, Times
<1>3. v * BlkSec = BlkSec * v /\ BlockTotal * BlkSec = BlkSec * BlockTotal /\ BlkSec * 1 = BlkSec
    BY <1>1
<1>4. v * BlkSec \in 0..BlockTotal*BlkSec /\ (v > 0 => v * BlkSec > 0)
    BY <1>1, <1>2, <1>3
<1>5. ASSUME NEW x \in 0..v*BlkSec-1 PROVE x \in Sectors
    <2> DEFINE n == v * BlkSec
               m == BlockTotal * BlkSec
    <2>1. n \in 0..m /\ m \in Nat /\ x \in 0..n-1
        BY <1>4, Geometry
    <2> HIDE DEF n, m
    <2>2. x \in 0..m-1
        BY <2>1
    <2> QED
        BY <2>2 DEF Sectors, m
<1>6. ASSUME NEW x \in Sectors PROVE x \in 0..v*BlkSec-1 <=> x \div BlkSec < v
    <2>1. x \in Nat /\ (x < v * BlkSec <=> x \div BlkSec < v)
        BY <1>1, Sector
    <2> QED
        BY <1>2, <1>3, <2>1
<1> QED
    BY <1>4, <1>5, <1>6

(* A request stays in the device as long as it stays in a block of it.     *)
LEMMA SpanInside ==
    ASSUME Shapes, Sec \div BlkSec < valid, NEW t \in 1..BlkSec-BlockOffset
    PROVE  Sec..Sec+t-1 \subseteq 0..valid*BlkSec-1
<1>1. Sec \in Nat /\ BlkSec \in Nat \ {0} /\ BlockOffset = Sec % BlkSec /\ BlockOffset \in Nat
      /\ valid \in Nat /\ valid * BlkSec \in Nat
    BY Place, Geometry, Device DEF BlockOffset, Shapes, Blocks
<1> SUFFICES ASSUME NEW x \in Sec..Sec+t-1 PROVE x \in 0..valid*BlkSec-1
    OBVIOUS
<1>2. x - Sec \in Int /\ (Sec % BlkSec) + (x - Sec) \in 0..BlkSec-1 /\ x = Sec + (x - Sec)
      /\ x \in Nat
    BY <1>1
<1>3. x \div BlkSec = Sec \div BlkSec
    <2> DEFINE j == x - Sec
    <2>1. j \in Int /\ (Sec % BlkSec) + j \in 0..BlkSec-1 /\ x = Sec + j
        BY <1>2
    <2> HIDE DEF j
    <2> QED
        BY <1>1, <2>1, Ahead
<1>4. x < valid * BlkSec
    BY <1>1, <1>2, <1>3, Below
<1> QED
    BY <1>1, <1>2, <1>4

(* The pages of the block.                                                 *)
LEMMA Pages ==
    ASSUME Shapes
    PROVE  /\ BlockOffset = SecPerPage * Page + Col /\ SecPerPage * Page \in Nat
           /\ Page \in 0..PageNum-1
           /\ SecPerPage * Page + SecPerPage <= BlkSec
<1>1. BlockOffset \in 0..BlkSec-1 /\ BlockOffset \in Nat /\ BlkSec = PageNum * SecPerPage
      /\ BlkSec \in Nat /\ SecPerPage \in Nat \ {0} /\ PageNum \in Nat
    BY Place, Geometry DEF BlkSec
<1>2. BlockOffset = SecPerPage * Page + Col /\ Page \in Nat /\ Col \in 0..SecPerPage-1
    BY <1>1, DivMod DEF Page, Col
<1>3. Page < PageNum
    BY <1>1, Below DEF Page
<1>4. SecPerPage * (Page + 1) <= SecPerPage * PageNum
      /\ SecPerPage * (Page + 1) = SecPerPage * Page + SecPerPage
    <2>1. Page + 1 <= PageNum
        BY <1>1, <1>2, <1>3
    <2> QED
        BY <1>1, <1>2, <2>1, Times
<1>5. SecPerPage * PageNum = BlkSec
    BY <1>1
<1>6. SecPerPage * Page \in Nat
    BY <1>1, <1>2
<1> QED
    BY <1>1, <1>2, <1>3, <1>4, <1>5, <1>6

(* When the sectors from `Settled` on, `t` of them, get their contents and *)
(* the others stay, the host's view is kept.                               *)
LEMMA Renewed ==
    ASSUME Typed, Stored, Written, Up, Up', NEW t \in Nat,
           valid' = valid, adm' = adm, op'.sec = op.sec, op'.buf = op.buf, op'.cnt = op.cnt,
           op'.kind = op.kind, t > 0 => op.kind = "write", Settled + t <= op.cnt,
           Settled' = Settled + t, Settled \in Nat,
           \A x \in Sectors :
              Inside(x) => NewHome(x) = IF x - op.sec \in Settled..Settled+t-1
                                        THEN op.buf[x - op.sec] ELSE Home(x),
           \A x \in Asked : x - op.sec \in Settled..Settled+t-1 => Inside(x)
    PROVE  Stored' /\ Written'
<1>1. \A x \in Sectors : x \in Nat /\ Inside(x)' = Inside(x)
    BY Sector DEF Inside
<1>2. op.sec \in Nat /\ op.cnt \in Nat
    BY Geometry DEF Typed, Shapes, Op
<1>3. ASSUME NEW x \in Sectors, Inside(x) PROVE NewHome(x) \in adm[x]
    <2>1. CASE x - op.sec \in Settled..Settled+t-1
        <3>1. t > 0 /\ x \in Asked
            BY <1>1, <1>2, <2>1 DEF Asked
        <3> QED
            BY <1>3, <2>1, <3>1 DEF Written
    <2>2. CASE x - op.sec \notin Settled..Settled+t-1
        BY <1>3, <2>2 DEF Stored
    <2> QED
        BY <2>1, <2>2
<1>4. Stored'
    BY <1>1, <1>3 DEF Stored, Home, NewHome
<1>5. ASSUME op.kind = "write", NEW x \in Asked, x - op.sec < Settled + t
      PROVE  Inside(x) /\ NewHome(x) = op.buf[x - op.sec]
    <2>1. x \in Sectors /\ x - op.sec \in Nat
        BY <1>1, <1>2 DEF Asked
    <2>2. CASE x - op.sec < Settled
        BY <1>5, <2>1, <2>2 DEF Written
    <2>3. CASE ~(x - op.sec < Settled)
        BY <1>5, <2>1, <2>3
    <2> QED
        BY <2>2, <2>3
<1>6. Asked' = Asked
    BY DEF Asked
<1>7. Written'
    <2> SUFFICES ASSUME op.kind = "write", NEW x \in Asked
                 PROVE  /\ Inside(x)' => op'.buf[x - op'.sec] \in adm'[x]
                        /\ x - op'.sec < Settled' => Inside(x)' /\ NewHome(x) = op'.buf[x - op'.sec]
        BY <1>6 DEF Written, Home, NewHome
    <2>1. x \in Sectors
        BY DEF Asked
    <2>2. Inside(x) => op.buf[x - op.sec] \in adm[x]
        BY DEF Written
    <2> QED
        BY <1>1, <1>5, <2>1, <2>2
<1> QED
    BY <1>4, <1>7

LEMMA SettledType ==
    ASSUME Typed
    PROVE  Settled \in Nat /\ Settled <= op.cnt
<1>1. op.i \in Nat /\ op.cnt \in Nat /\ op.i <= op.cnt
    BY Geometry DEF Typed, Shapes, OpLocals, Op
<1>2. ASSUME pc = "mark" PROVE InPage \in 1..op.cnt-op.i
    BY <1>2, Shares DEF Typed, OpLocals
<1> QED
    BY <1>1, <1>2 DEF Settled

LEMMA Unmoved ==
    ASSUME Typed, Stored, Written, Still, adm' = adm
    PROVE  Stored' /\ Written'
<1>1. Settled \in Nat /\ Settled <= op.cnt
    BY SettledType
<1>2. Settled..Settled+0-1 = {}
    BY <1>1
<1> QED
    BY <1>1, <1>2, Renewed DEF Still, SameAsk

LEMMA PutIn ==
    ASSUME Typed, Stored, Written, NEW t, Puts(t), adm' = adm
    PROVE  Stored' /\ Written'
<1>1. Settled \in Nat /\ op.sec \in Nat /\ t \in Nat
    BY SettledType DEF Typed, Shapes, Op, Puts
<1>2. ASSUME NEW x \in Asked, x - op.sec \in Settled..Settled+t-1 PROVE Inside(x)
    <2>1. x \in Nat /\ x \in op.sec+Settled..op.sec+Settled+t-1
        BY <1>1, <1>2, Sector DEF Asked
    <2> QED
        BY <2>1, Device DEF Puts, Inside, Typed, Shapes
<1> QED
    BY <1>1, <1>2, Renewed DEF Puts, SameAsk

(* A sector the host may use has a block, and another block than the       *)
(* sectors of other blocks.                                                *)
LEMMA HomeBlock ==
    ASSUME Typed, Mapped, Up, NEW x \in Sectors, Inside(x)
    PROVE  /\ lut[x \div BlkSec] \in Blocks /\ lut[x \div BlkSec] # None
           /\ flash[lut[x \div BlkSec]].lbn = x \div BlkSec
           /\ Home(x) \in Cell
<1>1. x \div BlkSec \in Blocks /\ x % BlkSec \in 0..BlkSec-1
    BY Sector
<1>2. lut[x \div BlkSec] \in Blocks /\ lut[x \div BlkSec] # None
      /\ flash[lut[x \div BlkSec]].lbn = x \div BlkSec
    BY <1>1 DEF Mapped, TableRight, Inside, Typed, Shapes
<1>3. Home(x) \in Cell
    BY <1>1, <1>2 DEF Home, Typed, Shapes, Block
<1> QED
    BY <1>2, <1>3

LEMMA PbnHome ==
    ASSUME Typed, Mapped, Up, Pbn # None
    PROVE  /\ Pbn \in Blocks /\ Sec \div BlkSec < valid
           /\ \A x \in Sectors : x \div BlkSec = Sec \div BlkSec =>
                 Inside(x) /\ lut[x \div BlkSec] = Pbn /\ Home(x) = flash[Pbn].data[x % BlkSec]
           /\ \A x \in Sectors : Inside(x) /\ lut[x \div BlkSec] = Pbn =>
                 x \div BlkSec = Sec \div BlkSec
<1>1. Pbn \in Blocks /\ Sec \div BlkSec \in Blocks /\ Pbn = lut[Sec \div BlkSec]
      /\ flash[Pbn].lbn = Sec \div BlkSec /\ ~Marked(Pbn) /\ Sec \div BlkSec <= valid
    BY PbnMapped DEF Mapped
<1>2. Sec \div BlkSec # valid
    <2>1. valid = cap /\ ~Carried(flash, cap)
        BY DEF Mapped, Capacity
    <2>2. Carried(flash, Sec \div BlkSec)
        BY <1>1 DEF Carried, Marked
    <2> QED
        BY <2>1, <2>2
<1>3. Sec \div BlkSec < valid
    BY <1>1, <1>2, Geometry DEF Typed, Shapes, Blocks
<1>4. ASSUME NEW x \in Sectors, Inside(x), lut[x \div BlkSec] = Pbn
      PROVE  x \div BlkSec = Sec \div BlkSec
    BY <1>1, <1>4, HomeBlock
<1> QED
    BY <1>1, <1>3, <1>4 DEF Inside, Home

(* Blocks in the table that keep their data keep the host's view.          *)
LEMMA DataKept ==
    ASSUME Typed, Mapped, Up, lut' = lut,
           \A b \in Blocks : (\E l \in Blocks : lut[l] = b) => flash'[b].data = flash[b].data,
           NEW x \in Sectors, Inside(x)
    PROVE  NewHome(x) = Home(x)
<1>1. lut[x \div BlkSec] \in Blocks /\ x \div BlkSec \in Blocks
    BY HomeBlock, Sector
<1> QED
    BY <1>1 DEF NewHome, Home

-----------------------------------------------------------------------------
(* The steps of a request.                                                 *)

LEMMA CallsKept ==
    ASSUME Typed, Typed', Kept, Calls
    PROVE  Kept'
<1>1. /\ pc = "idle" /\ pc' = "loop" /\ flash' = flash /\ lut' = lut /\ valid' = valid
    BY DEF Calls, ReadCall, WriteCall
<1>2. Resting' /\ Taking' /\ Copying'
    BY <1>1 DEF Resting, Taking, Copying, Handling, Moving, Testing
<1>3. Stored
    BY DEF Kept
<1>4. \A x \in Sectors : adm[x] \subseteq adm'[x]
    BY DEF Calls, ReadCall, WriteCall
<1>5. Stored'
    BY <1>1, <1>3, <1>4 DEF Stored, Up, Inside, Home
<1>6. Written'
    <2>1. PICK sec \in HostSectors, cnt \in 1..MaxCount :
                \/ ReadCall(sec, cnt)
                \/ \E buf \in [0..cnt-1 -> Data] : WriteCall(sec, buf)
        BY DEF Calls
    <2>2. CASE ReadCall(sec, cnt)
        BY <2>2 DEF ReadCall, NoOp, Written
    <2>3. ASSUME NEW buf \in [0..cnt-1 -> Data], WriteCall(sec, buf) PROVE Written'
        <3> DEFINE c == Cardinality(DOMAIN buf)
        <3>1. op' = [kind |-> "write", sec |-> sec, cnt |-> c, buf |-> buf, i |-> 0,
                     markd |-> None]
              /\ adm' = [x \in Sectors |->
                            IF x - sec \in 0..c-1 /\ x < valid * BlkSec
                            THEN adm[x] \cup {buf[x - sec]} ELSE adm[x]]
            BY <2>3 DEF WriteCall
        <3> HIDE DEF c
        <3>2. Settled' = 0 /\ op'.sec = sec /\ op'.cnt = c /\ op'.buf = buf
            BY <1>1, <3>1 DEF Settled
        <3> SUFFICES ASSUME NEW x \in Asked'
                     PROVE  /\ Inside(x)' => buf[x - sec] \in adm'[x]
                            /\ ~(x - sec < 0)
            BY <3>2 DEF Written
        <3>3. x \in Sectors /\ x - sec \in 0..c-1
            BY <3>2 DEF Asked
        <3>4. c \in Nat
            BY <3>2 DEF Typed, Shapes, Op
        <3>5. Inside(x) => x < valid * BlkSec
            BY <3>3, Sector, Geometry DEF Inside, Typed, Shapes, Blocks
        <3> QED
            BY <1>1, <3>1, <3>3, <3>4, <3>5 DEF Inside
    <2> QED
        BY <2>1, <2>2, <2>3
<1> QED
    BY <1>2, <1>5, <1>6 DEF Kept

LEMMA ReturnKept ==
    ASSUME Typed, Kept, Mapped, pc \in {"loop", "find"}, NEW ok \in BOOLEAN, Return(ok),
           ok => op.i >= op.cnt, UNCHANGED <<flash, lut, valid>>
    PROVE  Kept'
<1>1. pc' = "idle" /\ op' = NoOp /\ Up /\ Up'
    BY DEF Return, Up
<1>2. Resting' /\ Written' /\ Taking' /\ Copying'
    BY <1>1 DEF Resting, Written, Taking, Copying, Handling, Moving, Testing, NoOp
<1>3. op.sec \in Nat /\ op.cnt \in Nat /\ op.i \in Nat /\ Settled = op.i
    BY Geometry DEF Typed, Shapes, Op, Settled
<1>4. ASSUME NEW x \in Sectors, Inside(x) PROVE Home(x) \in adm'[x]
    <2>1. Home(x) \in adm[x]
        BY <1>1, <1>4 DEF Kept, Stored
    <2>2. ASSUME op.kind = "write", x \in Asked, ok \/ x < Sec
          PROVE  Home(x) = op.buf[x - op.sec]
        <3>1. x - op.sec < op.i
            BY <1>3, <2>2, Sector DEF Sec, Asked
        <3> QED
            BY <1>1, <1>3, <2>2, <3>1 DEF Kept, Written
    <2> QED
        BY <2>1, <2>2 DEF Return
<1>5. Stored'
    BY <1>4 DEF Stored, Inside, Home
<1> QED
    BY <1>2, <1>5 DEF Kept

(* A table made anew finds the one block that carries a number.            *)
LEMMA Remade ==
    ASSUME Typed', Tagged', Mapped', Up', Sane', ~Moving',
           NEW l \in Blocks, l < valid', NEW b \in Blocks, flash'[b].lbn = l
    PROVE  lut'[l] = b
<1>1. lut'[l] # None /\ lut'[l] \in Blocks /\ flash'[lut'[l]].lbn = l
    BY DEF Mapped, TableRight, Typed, Shapes
<1>2. l # None
    BY Geometry
<1> QED
    BY <1>1, <1>2 DEF Tagged, Unique, Sane

(* A call while the device has its data finds the same blocks.             *)
LEMMA InitCallStill ==
    ASSUME Typed, Typed', Tagged', Mapped, Mapped', Sane', ftl_init, pc = "idle"
    PROVE  pc' = "idle" /\ Still
<1>1. /\ pc' \in {"format", "idle"} /\ UNCHANGED <<flash, op>> /\ Up
      /\ pc' = "idle" => cap' = IF cap = 0 THEN valid' ELSE cap
      /\ pc' = "format" => cap' = cap
    BY DEF ftl_init, Up
<1>2. pc' = "idle"
    BY <1>1 DEF Mapped, Capacity
<1>3. Up' /\ ~Moving' /\ valid' = valid
    BY <1>1, <1>2 DEF Mapped, Capacity, Up, Moving
<1>4. ASSUME NEW x \in Sectors, Inside(x) PROVE NewHome(x) = Home(x)
    <2> DEFINE l == x \div BlkSec
    <2>1. l \in Blocks /\ l < valid' /\ lut[l] \in Blocks /\ flash'[lut[l]].lbn = l
        BY <1>1, <1>3, <1>4, Sector, HomeBlock DEF Inside
    <2>2. lut'[l] = lut[l]
        <3> HIDE DEF l
        <3> QED
            BY <1>3, <2>1, Remade
    <2> QED
        BY <1>1, <2>2 DEF Home, NewHome
<1>5. Settled' = Settled
    BY <1>1, <1>2 DEF Settled
<1> QED
    BY <1>1, <1>2, <1>3, <1>4, <1>5 DEF Still, SameAsk

LEMMA InitCallKept ==
    ASSUME Typed, Typed', Tagged', Mapped, Mapped', Kept, Sane', ftl_init
    PROVE  Kept'
<1>1. /\ pc \in {"off", "dead", "idle"} /\ pc' \in {"format", "idle"}
      /\ UNCHANGED <<flash, op, cp, adm, crashes>>
      /\ pc' = "idle" => cap' = IF cap = 0 THEN valid' ELSE cap
    BY DEF ftl_init
<1>2. op.kind = "none"
    BY <1>1 DEF Kept, Resting
<1>3. Resting' /\ Written' /\ Taking' /\ Copying'
    BY <1>1, <1>2 DEF Resting, Written, Taking, Copying, Handling, Moving, Testing
<1>4. ASSUME pc' = "idle", NEW x \in Sectors, Inside(x)' PROVE NewHome(x) \in adm[x]
    <2> DEFINE l == x \div BlkSec
    <2>1. l \in Blocks /\ l < valid' /\ Up' /\ ~Moving'
        BY <1>4, Sector DEF Inside, Up, Moving
    <2>2. lut'[l] \in Blocks /\ flash'[lut'[l]].lbn = l /\ ~Marked(lut'[l])
        BY <1>1, <2>1 DEF Mapped, TableRight, Typed, Shapes, Marked
    <2>3. CASE pc \in {"off", "dead"}
        BY <1>1, <2>2, <2>3 DEF Kept, Resting, NewHome
    <2>4. CASE pc = "idle"
        <3>1. Still /\ Inside(x)
            BY <2>1, <2>4, InitCallStill DEF Still, Inside
        <3> QED
            BY <3>1 DEF Kept, Stored, Still
    <2> QED
        BY <1>1, <2>3, <2>4
<1>5. Stored'
    BY <1>1, <1>4 DEF Stored, Home, NewHome, Up
<1> QED
    BY <1>3, <1>5 DEF Kept

LEMMA FormatKept ==
    ASSUME Typed, Typed', TagsAnswer, Mapped', Kept, Sane',
           NEW f \in FormatFaults,
           FormatFails(f) \/ \E k \in 0..BlockTotal : ftl_format(k, f)
    PROVE  Kept'
<1>1. /\ pc = "format" /\ pc' \in {"dead", "idle"} /\ op' = op
      /\ adm' = [x \in Sectors |-> {FF}]
    BY FormatMoves DEF Sane
<1>2. op.kind = "none"
    BY <1>1 DEF Kept, Resting
<1>3. ASSUME NEW b \in Blocks, ~flash'[b].bad0, ~flash'[b].bad1, NEW x \in Sectors
      PROVE  flash'[b].data[x % BlkSec] \in adm'[x]
    <2>2. flash'[b].data = Erased.data
        BY <1>3, FormatTags DEF Retired, Marked
    <2>3. x % BlkSec \in 0..BlkSec-1
        BY Sector
    <2> QED
        BY <1>1, <2>2, <2>3, ErasedData
<1>4. Resting' /\ Written' /\ Taking' /\ Copying'
    BY <1>1, <1>2, <1>3 DEF Resting, Written, Taking, Copying, Handling, Moving, Testing, Marked
<1>5. Stored'
    <2> SUFFICES ASSUME Up', NEW x \in Sectors, Inside(x)' PROVE NewHome(x) \in adm'[x]
        BY DEF Stored, Home, NewHome
    <2>1. x \div BlkSec \in Blocks
        BY Sector
    <2>2. lut'[x \div BlkSec] \in Blocks /\ ~Marked(lut[x \div BlkSec])'
        BY <2>1 DEF Inside, Mapped, TableRight, Typed, Shapes
    <2> QED
        BY <1>3, <2>2 DEF NewHome, Marked
<1> QED
    BY <1>4, <1>5 DEF Kept

(* The tests of a source go on outside the table, and a read goes on.      *)
LEMMA TestHome ==
    ASSUME Typed, Typed', TagsAnswer, Tagged', Mapped, Mapped', Sane', Tests
    PROVE  /\ Up /\ Up' /\ valid' = valid
           /\ \A x \in Sectors : Inside(x) => NewHome(x) = Home(x)
<1>1. /\ Testing /\ cp.src \in Blocks /\ OthersKept(cp.src)
      /\ pc' \in {"zeros", "wipe", "scrap", "retire", "loop"}
    BY TestTags, TestsGoOn
<1>2. Up /\ Up' /\ ~Moving'
    BY <1>1 DEF Up, Testing, Moving
<1>3. valid' = valid
    BY <1>2 DEF Mapped, Capacity, Tests, TestOnes, TestZeros, TestErase, Retire
<1>4. ASSUME NEW x \in Sectors, Inside(x) PROVE NewHome(x) = Home(x)
    <2> DEFINE l == x \div BlkSec
    <2>1. l \in Blocks /\ l < valid
        BY <1>4, Sector DEF Inside
    <2>2. lut[l] \in Blocks /\ flash[lut[l]].lbn = l /\ lut[l] # cp.src
        BY <1>1, <1>2, <1>4, <2>1, HomeBlock DEF Mapped, Moves
    <2>3. flash'[lut[l]] = flash[lut[l]]
        BY <1>1, <2>2 DEF OthersKept
    <2>4. lut'[l] = lut[l]
        <3> HIDE DEF l
        <3> QED
            BY <1>2, <1>3, <2>1, <2>2, <2>3, Remade
    <2> QED
        BY <2>3, <2>4 DEF Home, NewHome
<1> QED
    BY <1>2, <1>3, <1>4

LEMMA TestKept ==
    ASSUME Typed, Typed', TagsAnswer, Tagged', Mapped, Mapped', Kept, Sane', Tests
    PROVE  Kept'
<1>1. /\ Testing /\ pc' \in {"zeros", "wipe", "scrap", "retire", "loop"} /\ adm' = adm
      /\ op'.kind = "read"
    <2>1. Testing /\ op.kind = "read"
        BY TestsGoOn DEF Kept, Resting
    <2>2. op'.kind = op.kind
        BY TestsGoOn DEF Advance, Typed, Shapes, Op
    <2>3. adm' = adm
        BY DEF Tests, TestOnes, TestZeros, TestErase, Retire
    <2> QED
        BY <2>1, <2>2, <2>3, TestsGoOn
<1>2. Resting' /\ Written' /\ Taking' /\ Copying'
    BY <1>1 DEF Resting, Written, Taking, Copying, Handling, Moving, Testing
<1>3. Stored'
    BY <1>1, TestHome DEF Kept, Stored, Inside, Home, NewHome
<1> QED
    BY <1>2, <1>3 DEF Kept

(* The sectors of the page lie in the block.                               *)
LEMMA PageFits ==
    ASSUME Typed, op.i < op.cnt
    PROVE  /\ InPage \in 1..BlkSec-BlockOffset /\ InBlock \in 1..BlkSec-BlockOffset
           /\ InPage <= op.cnt - op.i
<1>1. /\ InPage \in 1..Rest /\ InBlock \in 1..Rest /\ Rest = op.cnt - op.i
      /\ InPage <= SecPerPage - Col /\ InBlock <= BlkSec - BlockOffset
    BY Shares DEF Typed
<1>2. /\ BlockOffset = SecPerPage * Page + Col /\ SecPerPage * Page \in Nat
      /\ SecPerPage * Page + SecPerPage <= BlkSec
    BY Pages DEF Typed
<1>3. Rest \in Int /\ Col \in Int /\ BlockOffset \in Int /\ BlkSec \in Int /\ SecPerPage \in Int
    BY Place, Geometry DEF Typed
<1> QED
    BY <1>1, <1>2, <1>3

(* A page that is programmed where it is.                                  *)
LEMMA WritePagePuts ==
    ASSUME Typed, Typed', Mapped, WritePage
    PROVE  Puts(InPage)
<1>1. /\ pc = "loop" /\ op.kind = "write" /\ op.i < op.cnt /\ Pbn # None
      /\ flash' = [flash EXCEPT ![Pbn].data = Programmed(New)]
      /\ UNCHANGED <<lut, valid>>
    BY DEF WritePage
<1>2. Up /\ Up' /\ pc' \in {"loop", "mark"} /\ Pbn \in Blocks
    BY <1>1, PbnHome DEF WritePage, Up
<1>3. /\ op'.sec = op.sec /\ op'.buf = op.buf /\ op'.cnt = op.cnt /\ op'.kind = op.kind
      /\ Settled = op.i /\ Settled' = op.i + InPage
    <2>1. Settled = op.i
        BY <1>1, Geometry DEF Settled, Typed, Shapes, Op
    <2>2. CASE op' = op /\ pc' = "mark"
        <3>1. InPage' = InPage
            BY <2>2 DEF InPage, Rest, Col, BlockOffset, Sec
        <3> QED
            BY <2>1, <2>2, <3>1 DEF Settled
    <2>3. CASE op' = [op EXCEPT !.i = @ + InPage] /\ pc' = "loop"
        <3>1. op'.i = op.i + InPage /\ op'.i \in Int
            BY <2>3, Geometry DEF Typed, Shapes, Op
        <3> QED
            BY <2>1, <2>3, <3>1 DEF Settled, Typed, Shapes, Op
    <2> QED
        BY <1>1, <2>2, <2>3 DEF WritePage
<1>4. /\ InPage \in 1..BlkSec-BlockOffset /\ InPage <= op.cnt - op.i
      /\ op.i \in Nat /\ op.sec \in Nat /\ BlockOffset \in Nat /\ Sec = op.sec + op.i
      /\ op.cnt \in Nat /\ BlkSec \in Nat
    BY <1>1, PageFits, Place, Geometry DEF Typed, Shapes, Op, Sec
<1>5. ASSUME NEW x \in Sectors
      PROVE  x - op.sec \in op.i..op.i+InPage-1 <=>
                /\ x \div BlkSec = Sec \div BlkSec /\ x % BlkSec \in PageShare
    <2>1. x - op.sec \in op.i..op.i+InPage-1 <=> x - Sec \in 0..InPage-1
        BY <1>4, Sector
    <2>2. x % BlkSec \in PageShare <=> (x % BlkSec) - BlockOffset \in 0..InPage-1
        BY <1>4, Sector DEF PageShare
    <2>3. InPage \in 0..BlkSec-BlockOffset
        BY <1>4
    <2> QED
        BY <2>1, <2>2, <2>3, Window DEF Typed
<1>6. ASSUME NEW x \in Sectors, Inside(x)
      PROVE  NewHome(x) = IF x - op.sec \in op.i..op.i+InPage-1
                          THEN op.buf[x - op.sec] ELSE Home(x)
    <2>1. x % BlkSec \in 0..BlkSec-1 /\ x \in Nat
        BY Sector
    <2>2. CASE x \div BlkSec = Sec \div BlkSec
        <3>1. lut[x \div BlkSec] = Pbn /\ Home(x) = flash[Pbn].data[x % BlkSec]
            BY <1>1, <1>2, <2>2, PbnHome
        <3>2. NewHome(x) = Programmed(New)[x % BlkSec]
            BY <1>1, <1>2, <3>1 DEF NewHome, Typed, Shapes, Block
        <3>3. CASE x % BlkSec \in PageShare
            <4>1. NewHome(x) = op.buf[op.i + ((x % BlkSec) - BlockOffset)]
                BY <2>1, <3>2, <3>3 DEF Programmed, New
            <4>2. (x % BlkSec) - BlockOffset = x - Sec
                <5>1. 0 \in 0..BlkSec-BlockOffset
                    BY <1>4
                <5> QED
                    BY <2>2, <5>1, Window DEF Typed
            <4>3. op.i + (x - Sec) = x - op.sec
                BY <1>4, <2>1
            <4> QED
                BY <1>5, <2>2, <3>3, <4>1, <4>2, <4>3
        <3>4. CASE x % BlkSec \notin PageShare
            BY <1>5, <2>1, <3>1, <3>2, <3>4 DEF Programmed
        <3> QED
            BY <3>3, <3>4
    <2>3. CASE x \div BlkSec # Sec \div BlkSec
        <3>1. lut[x \div BlkSec] # Pbn /\ lut[x \div BlkSec] \in Blocks
            BY <1>1, <1>2, <1>6, <2>3, PbnHome, HomeBlock
        <3>2. NewHome(x) = Home(x)
            BY <1>1, <1>2, <3>1 DEF NewHome, Home, Typed, Shapes
        <3> QED
            BY <1>5, <2>3, <3>2
    <2> QED
        BY <2>2, <2>3
<1>7. Sec..Sec+InPage-1 \subseteq 0..valid*BlkSec-1
    BY <1>1, <1>2, <1>4, PbnHome, SpanInside DEF Typed
<1>8. InPage \in Nat \ {0} /\ op.i + InPage <= op.cnt
    BY <1>4
<1> QED
    BY <1>1, <1>2, <1>3, <1>4, <1>6, <1>7, <1>8 DEF Puts, SameAsk

LEMMA WritePageKept ==
    ASSUME Typed, Typed', Mapped, Kept, WritePage
    PROVE  Kept'
<1>1. pc' \in {"loop", "mark"} /\ adm' = adm
    BY DEF WritePage
<1>2. Stored' /\ Written'
    BY <1>1, WritePagePuts, PutIn DEF Kept
<1>3. Resting' /\ Taking' /\ Copying'
    BY <1>1 DEF Resting, Taking, Copying, Handling, Moving, Testing
<1> QED
    BY <1>2, <1>3 DEF Kept

(* The place of the request depends on its position and on the table.      *)
LEMMA SamePlace ==
    ASSUME op'.sec = op.sec, op'.i = op.i, lut' = lut, valid' = valid
    PROVE  Sec' = Sec /\ Pbn' = Pbn /\ BlockOffset' = BlockOffset /\ Page' = Page /\ Col' = Col
<1>1. Sec' = Sec
    BY DEF Sec
<1>2. BlockOffset' = BlockOffset
    BY <1>1 DEF BlockOffset
<1>3. Pbn' = Pbn
    BY <1>1 DEF Pbn, ftl_lbn_to_pbn
<1> QED
    BY <1>1, <1>2, <1>3 DEF Page, Col

LEMMA MarkStill ==
    ASSUME Typed, Typed', Mapped, chip.weak = {}, WriteMark
    PROVE  Still
<1>1. /\ pc = "mark" /\ pc' = "loop" /\ flash' = [flash EXCEPT ![Pbn].used = TRUE]
      /\ op' = [op EXCEPT !.i = @ + InPage, !.markd = Pbn]
      /\ UNCHANGED <<lut, valid>>
    BY DEF WriteMark
<1>2. Up /\ Up'
    BY <1>1 DEF Up
<1>3. /\ op'.sec = op.sec /\ op'.buf = op.buf /\ op'.cnt = op.cnt /\ op'.kind = op.kind
      /\ op'.i = op.i + InPage
    BY <1>1 DEF Typed, Shapes, Op
<1>4. Settled' = Settled
    <2>1. op'.i \in Int /\ op'.i + 0 = op'.i
        BY Geometry DEF Typed, Shapes, Op
    <2> QED
        BY <1>1, <1>3, <2>1 DEF Settled
<1>5. \A b \in Blocks : flash'[b].data = flash[b].data
    BY <1>1 DEF Typed, Shapes, Block
<1> QED
    BY <1>1, <1>2, <1>3, <1>4, <1>5, DataKept DEF Still, SameAsk

LEMMA MarkKept ==
    ASSUME Typed, Typed', Mapped, Kept, chip.weak = {}, WriteMark
    PROVE  Kept'
<1>1. pc' = "loop" /\ adm' = adm
    BY DEF WriteMark
<1>2. Stored' /\ Written'
    BY <1>1, MarkStill, Unmoved DEF Kept
<1>3. Resting' /\ Taking' /\ Copying'
    BY <1>1 DEF Resting, Taking, Copying, Handling, Moving, Testing
<1> QED
    BY <1>2, <1>3 DEF Kept

LEMMA MovesStill ==
    ASSUME Typed, chip.weak = {}, WriteMove \/ ReadMove
    PROVE  Still
<1>1. pc = "loop" /\ pc' = "find" /\ UNCHANGED <<flash, lut, valid, op>>
    BY DEF WriteMove, ReadMove, Move
<1>2. Up /\ Up' /\ Settled' = Settled
    BY <1>1 DEF Up, Settled
<1> QED
    BY <1>1, <1>2 DEF Still, SameAsk, Home, NewHome

LEMMA MovesKept ==
    ASSUME Typed, Typed', Mapped, Kept, chip.weak = {}, WriteMove \/ ReadMove
    PROVE  Kept'
<1>1. /\ pc = "loop" /\ pc' = "find" /\ op.i < op.cnt /\ Pbn # None
      /\ UNCHANGED <<flash, lut, valid, adm, op>> /\ op.kind \in {"read", "write"}
    BY DEF WriteMove, ReadMove, Move
<1>4. Stored' /\ Written'
    BY <1>1, MovesStill, Unmoved DEF Kept
<1>5. /\ cp'.src = Pbn /\ cp'.off = Page /\ cp'.col = Col /\ cp'.from = 0
      /\ cp'.take = IF op.kind = "write" THEN InBlock ELSE InPage
      /\ \A j \in 0..cp'.take-1 : cp'.buf[j] = IF op.kind = "write" THEN op.buf[op.i + j]
                                               ELSE flash[Pbn].data[BlockOffset + j]
    <2>1. CASE WriteMove
        BY <2>1 DEF WriteMove, Move, NoCp
    <2>2. CASE ReadMove
        BY <2>2 DEF ReadMove, NoCp
    <2> QED
        BY <2>1, <2>2
<1>6. cp'.take \in 1..BlkSec-BlockOffset
    BY <1>1, <1>5, PageFits
<1>7. Pbn' = Pbn /\ BlockOffset' = BlockOffset /\ Page' = Page /\ Col' = Col
    BY <1>1, SamePlace
<1>8. Taking'
    BY <1>1, <1>5, <1>6, <1>7 DEF Taking
<1>9. Resting' /\ Copying'
    BY <1>1 DEF Resting, Copying, Testing
<1> QED
    BY <1>4, <1>8, <1>9 DEF Kept

LEMMA ReadPageKept ==
    ASSUME Typed, Kept, ReadPage
    PROVE  Kept'
<1>1. pc = "loop" /\ pc' = pc /\ op.kind = "read" /\ op'.kind = "read"
      /\ UNCHANGED <<flash, lut, valid, adm>>
    BY DEF ReadPage, Typed, Shapes, Op
<1> QED
    BY <1>1 DEF Kept, Resting, Stored, Written, Taking, Copying, Handling, Moving, Testing, Up,
                Inside, Home

-----------------------------------------------------------------------------
(* The steps of a copy.                                                    *)

LEMMA FindStill ==
    ASSUME TagsAnswer, CopyFind, FindSamePlane(cp.src, {}, {})[1] # None
    PROVE  Still
<1>1. pc = "find" /\ pc' = "copy" /\ UNCHANGED <<flash, lut, valid, op>>
    BY NoTimeout DEF CopyFind
<1>2. Up /\ Up' /\ Settled' = Settled
    BY <1>1 DEF Up, Settled
<1> QED
    BY <1>1, <1>2 DEF Still, SameAsk, Home, NewHome

LEMMA FindKept ==
    ASSUME Typed, Typed', TagsAnswer, Mapped, Clean, Spare, Kept, Sane, CopyFind
    PROVE  Kept'
<1> DEFINE d == FindSamePlane(cp.src, {}, {})[1]
<1>1. pc = "find" /\ UNCHANGED <<flash, lut, valid>> /\ Handling
    BY DEF CopyFind, Handling
<1>2. CASE d = None
    <2>1. Return(FALSE)
        BY <1>1, <1>2, NoTimeout DEF CopyFind, Spare
    <2> QED
        BY <1>1, <2>1, ReturnKept
<1>3. CASE d # None
    <2>1. pc' = "copy" /\ op' = op /\ adm' = adm /\ cp' = [cp EXCEPT !.dst = d, !.page = 0]
        BY <1>3, NoTimeout DEF CopyFind
    <2>2. d \in Blocks /\ Unused(d)
        BY <1>3, Found DEF Typed, Shapes
    <2>3. flash[d].data = [k \in 0..BlkSec-1 |-> FF]
        BY <1>1, <2>2, ErasedData DEF Sane, Clean, Sound, Testing
    <2> HIDE DEF d
    <2>4. /\ cp'.src = cp.src /\ cp'.dst = d /\ cp'.page = 0 /\ cp'.off = cp.off
          /\ cp'.take = cp.take /\ cp'.buf = cp.buf /\ cp'.from = cp.from /\ cp'.col = cp.col
        BY <2>1 DEF Typed, Shapes, Cp
    <2>5. Pbn' = Pbn /\ BlockOffset' = BlockOffset /\ Page' = Page /\ Col' = Col
        BY <1>1, <2>1, SamePlace
    <2>6. Taking'
        BY <1>1, <2>1, <2>4, <2>5 DEF Kept, Taking
    <2>7. Copying'
        <3>1. cp.off \in Nat /\ cp.from = 0 /\ cp.col = Col
            BY <1>1 DEF Kept, Taking, Typed, Shapes, Cp
        <3>2. ~(cp.off < 0) /\ 0 <= cp.off
            BY <3>1
        <3>3. \A k \in 0..BlkSec-1 : ~(k < 0 * SecPerPage) /\ flash'[d].data[k] = FF
            BY <1>1, <2>3, Geometry
        <3> QED
            BY <1>1, <2>1, <2>4, <2>5, <3>1, <3>2, <3>3 DEF Copying
    <2>8. Stored' /\ Written'
        BY <1>3, <2>1, FindStill, Unmoved DEF Kept, d
    <2>9. Resting'
        BY <2>1 DEF Resting, Testing
    <2> QED
        BY <2>6, <2>7, <2>8, <2>9 DEF Kept
<1> QED
    BY <1>2, <1>3

(* Where the pages of the block lie to each other.                         *)
LEMMA PageOrder ==
    ASSUME Shapes, NEW p \in Nat
    PROVE  /\ p * SecPerPage \in Nat /\ (p + 1) * SecPerPage = p * SecPerPage + SecPerPage
           /\ p < Page => p * SecPerPage + SecPerPage <= BlockOffset - Col
           /\ p = Page => p * SecPerPage = BlockOffset - Col
           /\ p > Page => BlockOffset - Col + SecPerPage <= p * SecPerPage
<1> DEFINE S == SecPerPage
           A == S * Page
           P == S * p
<1>1. S \in Nat /\ Page \in Nat /\ Col \in Nat /\ BlockOffset = A + Col /\ A \in Nat
    BY Place, Geometry, Pages
<1>2. P \in Nat /\ p * S = P /\ (p + 1) * S = S * (p + 1) /\ S * (p + 1) = P + S
      /\ S * (Page + 1) = A + S
    BY <1>1
<1>3. p < Page => S * (p + 1) <= A
    BY <1>1, Times
<1>4. p > Page => S * (Page + 1) <= P
    BY <1>1, Times
<1>5. p = Page => P = A
    OBVIOUS
<1> HIDE DEF A, P
<1> QED
    BY <1>1, <1>2, <1>3, <1>4, <1>5

LEMMA PageStill ==
    ASSUME Typed, Mapped, chip.weak = {}, CopyPage
    PROVE  Still
<1>1. /\ pc = "copy" /\ pc' = "copy" /\ flash' = [flash EXCEPT ![cp.dst] = Copied(@)]
      /\ UNCHANGED <<op, lut, valid>>
    BY DEF CopyPage
<1>2. Up /\ Up' /\ Settled' = Settled /\ \A l \in Blocks : lut[l] # cp.dst
    BY <1>1 DEF Up, Settled, Moving, Mapped, Moves
<1>3. \A b \in Blocks : (\E l \in Blocks : lut[l] = b) => flash'[b].data = flash[b].data
    BY <1>1, <1>2 DEF Typed, Shapes
<1> QED
    BY <1>1, <1>2, <1>3, DataKept DEF Still, SameAsk

LEMMA PageKept ==
    ASSUME Typed, Typed', Mapped, Kept, chip.weak = {}, CopyPage
    PROVE  Kept'
<1> DEFINE P == cp.page * SecPerPage
<1>1. /\ pc = "copy" /\ pc' = "copy" /\ cp.page < PageNum
      /\ flash' = [flash EXCEPT ![cp.dst] = Copied(@)]
      /\ cp' = [Consumed EXCEPT !.page = @ + 1]
      /\ UNCHANGED <<op, lut, valid, adm>>
    BY DEF CopyPage
<1>2. /\ Up /\ Up' /\ Handling /\ Moving /\ cp.src \in Blocks /\ cp.dst \in Blocks
      /\ cp.dst # cp.src /\ \A l \in Blocks : lut[l] # cp.dst
    BY <1>1, PageTags DEF Up, Handling, Moving, Mapped, Moves
<1>3. /\ cp'.src = cp.src /\ cp'.dst = cp.dst /\ cp'.off = cp.off /\ cp'.take = cp.take
      /\ cp'.buf = cp.buf /\ cp'.page = cp.page + 1 /\ cp'.from = cp.from + WrLen
      /\ cp'.col = IF Writing THEN 0 ELSE cp.col
    BY <1>1 DEF Consumed, Typed, Shapes, Cp
<1>4. Pbn' = Pbn /\ BlockOffset' = BlockOffset /\ Page' = Page /\ Col' = Col
    BY <1>1, SamePlace
<1>5. flash'[cp.src] = flash[cp.src] /\ flash'[cp.dst] = Copied(flash[cp.dst])
    BY <1>1, <1>2 DEF Typed, Shapes
<1>6. Stored' /\ Written'
    BY <1>1, PageStill, Unmoved DEF Kept
<1>7. Taking'
    BY <1>1, <1>2, <1>3, <1>4, <1>5 DEF Kept, Taking, Handling, Moving
<1>8. \A k : Target(k)' = Target(k)
    BY <1>3, <1>4, <1>5 DEF Target
<1>9. /\ cp.page \in Nat /\ cp.off \in Nat /\ SecPerPage \in Nat \ {0} /\ P \in Int
      /\ BlockOffset \in Int /\ Col \in 0..SecPerPage-1 /\ cp.take \in Nat \ {0}
      /\ cp.from \in Nat /\ cp.n \in Nat /\ cp.col \in 0..SecPerPage-1
      /\ cp.from + cp.n = cp.take /\ cp.off = Page /\ P >= 0
      /\ (cp.page + 1) * SecPerPage = P + SecPerPage
    <2>1. /\ cp.page \in Nat /\ cp.off \in Nat /\ cp.from \in Nat /\ cp.n \in Nat
          /\ cp.col \in 0..SecPerPage-1
        BY Geometry DEF Typed, Shapes, Cp
    <2>2. cp.take \in Nat \ {0} /\ cp.off = Page /\ cp.from + cp.n = cp.take
        BY <1>2, Place, Geometry DEF Kept, Taking, Typed, CpLocals
    <2>3. P \in Nat /\ (cp.page + 1) * SecPerPage = P + SecPerPage
        BY <2>1, PageOrder DEF Typed
    <2> QED
        BY <2>1, <2>2, <2>3, Place, Geometry DEF Typed
<1>10. /\ \A k \in P..P+SecPerPage-1 :
             /\ k \in P+cp.col..P+cp.col+WrLen-1 <=> k - BlockOffset \in 0..cp.take-1
             /\ k - BlockOffset \in 0..cp.take-1
                  => cp.from + (k - (P + cp.col)) = k - BlockOffset
       /\ cp.page + 1 <= cp.off => cp.from + WrLen = 0 /\ ~Writing
       /\ cp.page + 1 > cp.off =>
            /\ cp.from + WrLen = Least(cp.take, P + SecPerPage - BlockOffset)
            /\ Writing \/ cp.col = 0
    <2>1. /\ cp.page < cp.off => P + SecPerPage <= BlockOffset - Col
          /\ cp.page = cp.off => P = BlockOffset - Col
          /\ cp.page > cp.off => BlockOffset - Col + SecPerPage <= P
        BY <1>9, PageOrder DEF Typed
    <2>2. /\ cp.page <= cp.off => cp.from = 0 /\ cp.col = Col
          /\ cp.page > cp.off => cp.from = Least(cp.take, P - BlockOffset) /\ cp.col = 0
        BY <1>1 DEF Kept, Copying
    <2>4. cp.page < cp.off \/ cp.page = cp.off \/ cp.page > cp.off
        BY <1>9
    <2>3. /\ WrLen = IF cp.page >= cp.off /\ cp.n > 0 THEN Least(cp.n, SecPerPage - cp.col) ELSE 0
          /\ Writing <=> cp.page >= cp.off /\ cp.n > 0
        BY DEF WrLen, Writing
    <2> HIDE DEF P
    <2> QED
        <3>1. CASE cp.page < cp.off
            BY <1>9, <2>1, <2>2, <2>3, <3>1
        <3>2. CASE cp.page = cp.off
            BY <1>9, <2>1, <2>2, <2>3, <3>2 DEF Least
        <3>3. CASE cp.page > cp.off /\ cp.n = 0
            BY <1>9, <2>1, <2>2, <2>3, <3>3 DEF Least
        <3>4. CASE cp.page > cp.off /\ cp.n > 0
            BY <1>9, <2>1, <2>2, <2>3, <3>4 DEF Least
        <3> QED
            BY <1>9, <2>4, <3>1, <3>2, <3>3, <3>4
<1>11. ASSUME NEW k \in P..P+SecPerPage-1 PROVE Wanted(k) = Target(k)
    BY <1>9, <1>10, <1>11 DEF Wanted, Target
<1>12. ASSUME NEW k \in 0..BlkSec-1
       PROVE  flash'[cp.dst].data[k] = IF k < P + SecPerPage THEN Target(k) ELSE FF
    <2>1. flash[cp.dst].data[k] = IF k < P THEN Target(k) ELSE FF
        BY <1>1 DEF Kept, Copying
    <2>2. flash'[cp.dst].data[k] = IF k \in P..P+SecPerPage-1
                                   THEN Prog(flash[cp.dst].data[k], Wanted(k))
                                   ELSE flash[cp.dst].data[k]
        BY <1>2, <1>5, <1>12 DEF Copied, PageCells, Typed, Shapes, Block
    <2>3. k \in Int /\ P + SecPerPage \in Int
        BY <1>9, Geometry
    <2> HIDE DEF P
    <2>4. CASE k \in P..P+SecPerPage-1
        <3>1. Prog(FF, Wanted(k)) = Wanted(k)
            BY DEF Prog
        <3> QED
            BY <1>9, <1>11, <2>1, <2>2, <2>3, <2>4, <3>1
    <2>5. CASE k \notin P..P+SecPerPage-1
        BY <1>9, <2>1, <2>2, <2>3, <2>5
    <2> QED
        BY <2>4, <2>5
<1>13. Copying'
    <2> HIDE DEF P
    <2> SUFFICES /\ cp'.page <= cp'.off => cp'.from = 0 /\ cp'.col = Col
                 /\ cp'.page > cp'.off =>
                      cp'.from = Least(cp'.take, cp'.page * SecPerPage - BlockOffset) /\ cp'.col = 0
                 /\ \A k \in 0..BlkSec-1 :
                       flash'[cp'.dst].data[k] =
                          IF k < cp'.page * SecPerPage THEN Target(k) ELSE FF
        BY <1>1, <1>4, <1>8 DEF Copying
    <2>1. cp.page + 1 <= cp.off => cp.col = Col
        <3>1. cp.page + 1 <= cp.off => cp.page <= cp.off
            BY <1>9
        <3> QED
            BY <1>1, <3>1 DEF Kept, Copying
    <2> QED
        BY <1>3, <1>9, <1>10, <1>12, <2>1
<1>14. Resting'
    BY <1>1 DEF Resting, Testing
<1> QED
    BY <1>6, <1>7, <1>13, <1>14 DEF Kept

LEMMA UsedStill ==
    ASSUME Typed, Mapped, CopyUsed
    PROVE  Still
<1>1. /\ pc = "copy" /\ pc' = "erase"
      /\ flash' = flash \/ flash' = [flash EXCEPT ![cp.dst].used = TRUE]
      /\ UNCHANGED <<op, lut, valid>>
    BY DEF CopyUsed
<1>2. Up /\ Up' /\ Settled' = Settled
    BY <1>1 DEF Up, Settled
<1>3. \A b \in Blocks : flash'[b].data = flash[b].data
    BY <1>1 DEF Typed, Shapes, Block
<1> QED
    BY <1>1, <1>2, <1>3, DataKept DEF Still, SameAsk

LEMMA UsedKept ==
    ASSUME Typed, Typed', Mapped, Kept, CopyUsed
    PROVE  Kept'
<1>1. /\ pc = "copy" /\ pc' = "erase" /\ cp.page = PageNum
      /\ flash' = flash \/ flash' = [flash EXCEPT ![cp.dst].used = TRUE]
      /\ UNCHANGED <<op, cp, lut, valid, adm>>
    BY DEF CopyUsed
<1>2. /\ Up /\ Up' /\ Handling /\ Settled' = Settled
    BY <1>1 DEF Up, Handling, Moving, Settled
<1>3. \A b \in Blocks : flash'[b].data = flash[b].data
    BY <1>1 DEF Typed, Shapes, Block
<1>4. cp.src \in Blocks /\ cp.dst \in Blocks
    BY <1>1 DEF Typed, CpLocals, Handling, Moving
<1>5. Pbn' = Pbn /\ BlockOffset' = BlockOffset /\ Page' = Page /\ Col' = Col
    BY <1>1, SamePlace
<1>6. Stored' /\ Written'
    BY <1>1, UsedStill, Unmoved DEF Kept
<1>7. Taking'
    BY <1>1, <1>2, <1>3, <1>4, <1>5 DEF Kept, Taking
<1>8. \A k : Target(k)' = Target(k)
    BY <1>1, <1>3, <1>4, <1>5 DEF Target
<1>9. Copying'
    BY <1>1, <1>3, <1>4, <1>5, <1>8 DEF Kept, Copying
<1>10. Resting'
    BY <1>1 DEF Resting, Testing
<1> QED
    BY <1>6, <1>7, <1>9, <1>10 DEF Kept

(* The end of a copy brings a block's share of a write, and nothing of a   *)
(* read.                                                                   *)
LEMMA EraseMoves ==
    ASSUME Typed, Mapped, Kept, CopyErase
    PROVE  /\ op.kind \in {"read", "write"}
           /\ IF op.kind = "write" THEN Puts(cp.take) ELSE Still
<1>1. /\ pc = "erase" /\ pc' \in {"loop", "ones"} /\ UNCHANGED valid
      /\ cp.src \in Blocks /\ cp.dst \in Blocks /\ OthersKept(cp.src)
    BY EraseTags DEF CopyErase
<1>2. Up /\ Up' /\ Handling /\ Moving /\ TableRight
    BY <1>1 DEF Up, Handling, Moving, Mapped
<1>3. /\ cp.src = Pbn /\ Pbn # None /\ op.i < op.cnt /\ op.kind \in {"read", "write"}
      /\ cp.take \in 1..BlkSec-BlockOffset
      /\ \A j \in 0..cp.take-1 : cp.buf[j] = IF op.kind = "write" THEN op.buf[op.i + j]
                                             ELSE flash[cp.src].data[BlockOffset + j]
    BY <1>2 DEF Kept, Taking, Typed, Shapes, Op
<1>4. ASSUME NEW k \in 0..BlkSec-1 PROVE flash[cp.dst].data[k] = Target(k)
    <2>1. cp.page = PageNum /\ k < PageNum * SecPerPage
        BY <1>1, Geometry DEF Kept, Copying, BlkSec
    <2> QED
        BY <1>1, <2>1 DEF Kept, Copying
<1>5. /\ op.i \in Nat /\ op.sec \in Nat /\ op.cnt \in Nat /\ Sec = op.sec + op.i
      /\ cp.take \in Nat /\ op.i + cp.take <= op.cnt /\ Settled = op.i
      /\ BlockOffset \in Int /\ cp.take \in 0..BlkSec-BlockOffset
    <2>1. op.i \in Nat /\ op.sec \in Nat /\ op.cnt \in Nat /\ BlockOffset \in Int /\ BlkSec \in Int
        BY Place, Geometry DEF Typed, Shapes, Op
    <2>2. op.i + cp.take <= op.cnt
        BY <1>2 DEF Typed, CpLocals
    <2> QED
        BY <1>1, <1>3, <2>1, <2>2 DEF Sec, Settled
<1>6. ASSUME NEW x \in Sectors, Inside(x)
      PROVE  NewHome(x) = IF op.kind = "write" /\ x - op.sec \in op.i..op.i+cp.take-1
                          THEN op.buf[x - op.sec] ELSE Home(x)
    <2> DEFINE l == x \div BlkSec
               k == x % BlkSec
    <2>1. /\ l \in Blocks /\ k \in 0..BlkSec-1 /\ x \in Nat /\ k \in Int /\ lut[l] \in Blocks
          /\ lut'[l] = IF lut[l] = cp.src THEN cp.dst ELSE lut[l]
        BY <1>2, <1>6, Sector, HomeBlock, EraseTable, Geometry
    <2>2. /\ x - Sec \in 0..cp.take-1 <=> l = Sec \div BlkSec /\ k - BlockOffset \in 0..cp.take-1
          /\ l = Sec \div BlkSec => k - BlockOffset = x - Sec
        BY <1>5, Window DEF Typed
    <2>3. lut[l] = cp.src <=> l = Sec \div BlkSec
        BY <1>2, <1>3, <1>6, PbnHome
    <2>4. x - op.sec \in op.i..op.i+cp.take-1 <=> x - Sec \in 0..cp.take-1
        BY <1>5, <2>1
    <2>5. NewHome(x) = flash'[lut'[l]].data[k] /\ Home(x) = flash[lut[l]].data[k]
        BY DEF NewHome, Home
    <2> HIDE DEF l, k
    <2>6. CASE lut[l] = cp.src
        <3>1. cp.dst # cp.src /\ flash'[cp.dst] = flash[cp.dst]
            BY <1>1, <1>2 DEF Mapped, Moves, OthersKept
        <3>2. NewHome(x) = Target(k) /\ Home(x) = flash[cp.src].data[k]
            BY <1>4, <2>1, <2>5, <2>6, <3>1
        <3>3. CASE k - BlockOffset \in 0..cp.take-1
            <4>1. NewHome(x) = IF op.kind = "write" THEN op.buf[op.i + (k - BlockOffset)]
                               ELSE flash[cp.src].data[BlockOffset + (k - BlockOffset)]
                BY <1>3, <3>2, <3>3 DEF Target
            <4>2. BlockOffset + (k - BlockOffset) = k /\ op.i + (k - BlockOffset) = x - op.sec
                BY <1>5, <2>1, <2>2, <2>3, <2>6
            <4> QED
                BY <2>2, <2>3, <2>4, <2>6, <3>2, <3>3, <4>1, <4>2
        <3>4. CASE k - BlockOffset \notin 0..cp.take-1
            BY <2>2, <2>4, <3>2, <3>4 DEF Target
        <3> QED
            BY <3>3, <3>4
    <2>7. CASE lut[l] # cp.src
        <3>1. NewHome(x) = Home(x)
            BY <1>1, <2>1, <2>5, <2>7 DEF OthersKept
        <3> QED
            BY <2>2, <2>3, <2>4, <2>7, <3>1
    <2> QED
        BY <2>6, <2>7
<1>7. CASE op.kind = "write"
    <2>1. op' = [op EXCEPT !.i = @ + cp.take] /\ pc' = "loop"
        BY <1>7 DEF CopyErase
    <2>2. /\ op'.sec = op.sec /\ op'.buf = op.buf /\ op'.cnt = op.cnt /\ op'.kind = op.kind
          /\ op'.i = op.i + cp.take
        BY <2>1 DEF Typed, Shapes, Op
    <2>3. Settled' = Settled + cp.take /\ cp.take \in Nat \ {0}
        BY <1>3, <1>5, <2>1, <2>2 DEF Settled
    <2>4. Sec..Sec+cp.take-1 \subseteq 0..valid*BlkSec-1
        BY <1>2, <1>3, PbnHome, SpanInside DEF Typed
    <2> QED
        BY <1>1, <1>2, <1>5, <1>6, <1>7, <2>2, <2>3, <2>4 DEF Puts, SameAsk
<1>8. CASE op.kind = "read"
    <2>1. op' = op /\ pc' = "ones"
        BY <1>8 DEF CopyErase
    <2>2. Settled' = Settled
        BY <1>1, <2>1 DEF Settled
    <2> QED
        BY <1>1, <1>2, <1>6, <1>8, <2>1, <2>2 DEF Still, SameAsk
<1> QED
    BY <1>3, <1>7, <1>8

LEMMA EraseKept ==
    ASSUME Typed, Mapped, Kept, CopyErase
    PROVE  Kept'
<1>1. pc' \in {"loop", "ones"} /\ adm' = adm
    BY DEF CopyErase
<1>2. Stored' /\ Written'
    BY <1>1, EraseMoves, PutIn, Unmoved DEF Kept
<1>3. Resting'
    BY <1>1 DEF Resting, Testing, CopyErase
<1>4. Taking' /\ Copying'
    BY <1>1 DEF Taking, Copying, Handling, Moving
<1> QED
    BY <1>2, <1>3, <1>4 DEF Kept

-----------------------------------------------------------------------------
(* Together.                                                               *)

LEMMA StillSane ==
    ASSUME Typed, Reading, [Next]_vars, crashes' = 0
    PROVE  crashes = 0
<1>1. ASSUME NEW f \in FormatFaults,
             FormatFails(f) \/ \E k \in 0..BlockTotal : ftl_format(k, f)
      PROVE  crashes = 0
    BY <1>1, FormatMoves
<1>2. CASE Quiet
    BY <1>2, QuietTags
<1>3. CASE CopyPage \/ CopyBad \/ CopyErase \/ Tests
    BY <1>3, TestsGoOn DEF CopyPage, CopyBad, CopyErase
<1>4. CASE UNCHANGED vars
    BY <1>4 DEF vars
<1> QED
    BY <1>1, <1>2, <1>3, <1>4 DEF Next, Work, Quiet, Tests

LEMMA NextKept ==
    ASSUME Typed, Typed', TagsAnswer => Tagged, (TagsAnswer => Tagged)', TagsAnswer => Mapped,
           (TagsAnswer => Mapped)', Reading, TagsAnswer => Clean, Spare, Sane => Kept,
           [Next]_vars, Sane'
    PROVE  Kept'
<1>0. /\ Sane /\ Kept /\ crashes = 0 /\ crashes' = 0 /\ chip.weak = {} /\ chip.worn = {}
      /\ TagsAnswer /\ Tagged /\ Tagged' /\ Mapped /\ Mapped' /\ Clean
    <2>1. chip' = chip /\ crashes = 0
        BY ChipKept, StillSane DEF Sane
    <2>2. Sane
        BY <2>1 DEF Sane
    <2>3. TagsAnswer /\ TagsAnswer'
        BY <2>2, SaneTags, TagsAnswerStill
    <2> QED
        BY <2>1, <2>2, <2>3 DEF Sane
<1>1. CASE Calls
    BY <1>0, <1>1, CallsKept
<1>2. CASE ftl_init
    BY <1>0, <1>2, InitCallKept
<1>3. ASSUME NEW f \in FormatFaults,
             FormatFails(f) \/ \E k \in 0..BlockTotal : ftl_format(k, f)
      PROVE  Kept'
    BY <1>0, <1>3, FormatKept
<1>4. CASE Finished \/ Unmapped \/ TimesOut
    <2>1. PICK ok \in BOOLEAN : Return(ok) /\ (ok => op.i >= op.cnt)
        BY <1>4 DEF Finished, Unmapped, TimesOut
    <2>2. pc = "loop" /\ UNCHANGED <<flash, lut, valid>>
        BY <1>4 DEF Finished, Unmapped, TimesOut
    <2> QED
        BY <1>0, <2>1, <2>2, ReturnKept
<1>5. CASE WritePage
    BY <1>0, <1>5, WritePageKept
<1>6. CASE WriteMark
    BY <1>0, <1>6, MarkKept
<1>7. CASE WriteMove \/ ReadMove
    BY <1>0, <1>7, MovesKept
<1>8. CASE ReadPage
    BY <1>0, <1>8, ReadPageKept
<1>9. CASE CopyFind
    BY <1>0, <1>9, FindKept
<1>10. CASE CopyPage
    BY <1>0, <1>10, PageKept
<1>11. CASE CopyBad
    <2>1. pc = "bad"
        BY <1>11 DEF CopyBad
    <2> QED
        BY <1>0, <2>1 DEF Kept, Taking, Handling, Moving
<1>12. CASE CopyUsed
    BY <1>0, <1>12, UsedKept
<1>13. CASE CopyErase
    BY <1>0, <1>13, EraseKept
<1>14. CASE Tests
    BY <1>0, <1>14, TestKept
<1>15. CASE PowerFail
    <2>1. crashes' # 0
        BY <1>15 DEF PowerFail, Typed, Shapes
    <2> QED
        BY <1>0, <2>1
<1>16. CASE UNCHANGED vars
    <2>1. UNCHANGED <<flash, lut, valid, pc, op, cp, adm, cap>>
        BY <1>16 DEF vars
    <2>2. Sec' = Sec /\ Pbn' = Pbn /\ BlockOffset' = BlockOffset /\ Page' = Page /\ Col' = Col
        BY <2>1, SamePlace
    <2>3. Settled' = Settled /\ Asked' = Asked /\ \A k : Target(k)' = Target(k)
        BY <2>1, <2>2 DEF Settled, InPage, Rest, Asked, Target
    <2>4. Resting' /\ Stored' /\ Written'
        BY <1>0, <2>1, <2>3
            DEF Kept, Resting, Stored, Written, Home, Inside, Up, Testing, Marked
    <2>5. Taking'
        BY <1>0, <2>1, <2>2 DEF Kept, Taking, Handling, Moving
    <2>6. Copying'
        BY <1>0, <2>1, <2>2, <2>3 DEF Kept, Copying
    <2> QED
        BY <2>4, <2>5, <2>6 DEF Kept
<1> QED
    BY <1>1, <1>2, <1>3, <1>4, <1>5, <1>6, <1>7, <1>8, <1>9, <1>10, <1>11, <1>12, <1>13, <1>14,
       <1>15, <1>16 DEF Next, Work, Tests

LEMMA KeptAlways == Spec /\ []Spare => [](Sane => Kept)
<1>1. Init => (Sane => Kept)
    <2> SUFFICES ASSUME Init PROVE Kept
        OBVIOUS
    <2>1. /\ pc = "off" /\ op = NoOp /\ cap = 0 /\ adm = [x \in Sectors |-> Cell]
          /\ \A b \in Blocks : flash[b].data = Erased.data
        BY DEF Init, Erased
    <2>2. ASSUME NEW b \in Blocks, NEW x \in Sectors
          PROVE  flash[b].data[x % BlkSec] \in adm[x]
        <3>1. x % BlkSec \in 0..BlkSec-1
            BY Sector
        <3> QED
            BY <2>1, <3>1, ErasedData DEF Cell
    <2> QED
        BY <2>1, <2>2 DEF Kept, Resting, Stored, Written, Taking, Copying, Up, Handling, Moving,
                          Testing, NoOp
<1>2. /\ Typed /\ Typed' /\ (TagsAnswer => Tagged) /\ (TagsAnswer => Tagged)'
      /\ (TagsAnswer => Mapped) /\ (TagsAnswer => Mapped)' /\ Reading /\ (TagsAnswer => Clean)
      /\ Spare /\ (Sane => Kept) /\ [Next]_vars
      => (Sane => Kept)'
    BY NextKept
<1> QED
    BY <1>1, <1>2, TypedAlways, TaggedAlways, MappedAlways, ReadingAlways, CleanAlways, PTL
        DEF Spec

(* What a successful write stored, a read returns, and a write that failed *)
(* leaves old or new contents: through every sequence of requests, partial *)
(* pages and blocks, copies to other blocks, corrected reads and new calls *)
(* of ftl_init, on a chip whose pages answer and whose erases succeed. (An *)
(* erase that fails unnoticed at ftl.c:265 leaves a second block with the  *)
(* number and old contents, which a table made anew may take.)             *)
THEOREM ReadsBack ==
    Spec /\ []Spare => [](crashes = 0 /\ chip.weak = {} /\ chip.worn = {} => ReadBack)
<1>1. ASSUME Typed, Sane, Sane => Kept PROVE ReadBack
    <2> SUFFICES ASSUME pc = "idle", NEW x \in 0..valid*BlkSec-1 PROVE Home(x) \in adm[x]
        BY DEF ReadBack, Home
    <2>1. valid \in Nat /\ BlkSec \in Nat \ {0} /\ valid <= BlockTotal /\ BlockTotal \in Nat
        BY <1>1, Geometry DEF Typed, Shapes, Blocks
    <2>2. BlkSec * valid \in Int /\ BlkSec * BlockTotal \in Int
          /\ BlkSec * valid <= BlkSec * BlockTotal
        BY <2>1, Times
    <2>3. valid * BlkSec = BlkSec * valid /\ BlockTotal * BlkSec = BlkSec * BlockTotal
        BY <2>1
    <2>4. x \in Sectors /\ x < valid * BlkSec
        BY <2>2, <2>3 DEF Sectors
    <2>5. Inside(x)
        BY <2>1, <2>4, Sector DEF Inside
    <2> QED
        BY <1>1, <2>4, <2>5 DEF Kept, Stored, Up
<1>2. Typed /\ (Sane => Kept) => (crashes = 0 /\ chip.weak = {} /\ chip.worn = {} => ReadBack)
    BY <1>1 DEF Sane
<1> QED
    BY <1>2, TypedAlways, KeptAlways, PTL

(* The block a logical number had before power failed keeps its contents.  *)
LEMMA NextMedium ==
    ASSUME Typed, TagsAnswer => Mapped, Sane => Kept, crashes <= 1 => MediumKeepsData,
           [Next]_vars, crashes' <= 1
    PROVE  MediumKeepsData'
<1> SUFFICES ASSUME pc' = "off", cap' > 0, chip.weak = {}, chip.worn = {} PROVE MediumKeepsData'
    BY ChipKept DEF MediumKeepsData
<1>0. TagsAnswer
    BY DEF TagsAnswer, TagPages
<1>1. CASE PowerFail
    <2>1. /\ crashes = 0 /\ pc \notin {"off", "format", "dead"}
          /\ UNCHANGED <<flash, adm, cap>> /\ crashes \in Nat
        BY <1>1, FtlAssumption DEF PowerFail, Typed, Shapes
    <2>2. Up /\ Stored /\ valid = cap /\ cap \in Nat /\ valid \in Blocks
        BY <1>0, <2>1, Geometry DEF Up, Sane, Kept, Mapped, Capacity, Typed, Shapes, Blocks
    <2> SUFFICES ASSUME NEW l \in 0..cap-1
                 PROVE  \E b \in Blocks :
                          /\ flash[b].lbn = l /\ ~flash[b].bad0 /\ ~flash[b].bad1
                          /\ \A k \in 0..BlkSec-1 : flash[b].data[k] \in adm[l * BlkSec + k]
        BY <2>1 DEF MediumKeepsData, Marked
    <2>3. l \in Blocks /\ l \in Nat /\ l < valid
        BY <2>2, Geometry DEF Blocks
    <2>4. lut[l] \in Blocks /\ flash[lut[l]].lbn = l /\ ~Marked(lut[l])
        BY <1>0, <2>2, <2>3 DEF Mapped, TableRight, Typed, Shapes
    <2>5. ASSUME NEW k \in 0..BlkSec-1 PROVE flash[lut[l]].data[k] \in adm[l * BlkSec + k]
        <3> DEFINE x == BlkSec * l + k
        <3>1. BlkSec \in Nat \ {0} /\ l \in Int /\ BlkSec * l \in Nat /\ l * BlkSec = BlkSec * l
            BY <2>3, Geometry
        <3>2. x \in Nat /\ x \div BlkSec = l /\ x % BlkSec = k
            <4>1. x \in Nat
                BY <3>1
            <4> QED
                BY <3>1, <4>1, Quotient
        <3>3. x \in Sectors
            <4>1. x < BlockTotal * BlkSec
                <5>1. x \div BlkSec < BlockTotal /\ BlockTotal \in Nat
                    BY <2>3, <3>2, Geometry DEF Blocks
                <5> HIDE DEF x
                <5> QED
                    BY <3>1, <3>2, <5>1, Below
            <4> QED
                BY <3>2, <4>1, Geometry DEF Sectors
        <3>4. Inside(x) /\ Home(x) = flash[lut[l]].data[k]
            BY <2>3, <3>2 DEF Inside, Home
        <3> HIDE DEF x
        <3>5. Home(x) \in adm[x]
            BY <2>2, <3>3, <3>4 DEF Stored
        <3> QED
            BY <3>1, <3>4, <3>5 DEF x
    <2> QED
        BY <2>4, <2>5 DEF Marked
<1>2. ASSUME NEW f \in FormatFaults,
             FormatFails(f) \/ \E k \in 0..BlockTotal : ftl_format(k, f)
      PROVE  FALSE
    <2>1. CASE FormatFails(f)
        BY <2>1 DEF FormatFails
    <2>2. ASSUME NEW k \in 0..BlockTotal, ftl_format(k, f) PROVE FALSE
        <3>1. cap' = 0
            BY <2>2 DEF ftl_format
        <3> QED
            BY <3>1
    <2> QED
        BY <1>2, <2>1, <2>2
<1>3. CASE UNCHANGED vars
    BY <1>3 DEF vars, MediumKeepsData, Marked
<1>4. ASSUME Calls \/ ftl_init \/ Finished \/ Unmapped \/ TimesOut \/ WritePage \/ WriteMark
             \/ WriteMove \/ CopyFind \/ CopyPage \/ CopyBad \/ CopyUsed \/ CopyErase \/ ReadPage
             \/ ReadMove \/ Tests
      PROVE  pc' # "off"
    <2>1. CASE Calls \/ ftl_init \/ Finished \/ Unmapped \/ TimesOut
        BY <2>1 DEF Calls, ReadCall, WriteCall, ftl_init, Finished, Unmapped, TimesOut, Return
    <2>2. CASE WritePage \/ WriteMark \/ WriteMove \/ ReadPage \/ ReadMove
        BY <2>2 DEF WritePage, WriteMark, WriteMove, Move, ReadPage, ReadMove
    <2>3. CASE CopyFind \/ CopyPage \/ CopyBad \/ CopyUsed \/ CopyErase
        BY <2>3 DEF CopyFind, CopyPage, CopyBad, CopyUsed, CopyErase, Return
    <2>4. CASE Tests
        BY <2>4, TestsGoOn
    <2> QED
        BY <1>4, <2>1, <2>2, <2>3, <2>4
<1> QED
    BY <1>1, <1>2, <1>3, <1>4 DEF Next, Work, Tests

(* Wherever power fails first, in the middle of a page, between the copy   *)
(* and the mark or before the erase, the medium holds every logical block  *)
(* whole: with what it held, or what the request in progress wrote to it.  *)
THEOREM FirstCutKeeps == Spec /\ []Spare => [](crashes <= 1 => MediumKeepsData)
<1>1. Init => (crashes <= 1 => MediumKeepsData)
    BY DEF Init, MediumKeepsData
<1>2. /\ Typed /\ (TagsAnswer => Mapped) /\ (Sane => Kept)
      /\ (crashes <= 1 => MediumKeepsData) /\ [Next]_vars
      => (crashes <= 1 => MediumKeepsData)'
    BY NextMedium
<1> QED
    BY <1>1, <1>2, TypedAlways, MappedAlways, KeptAlways, PTL DEF Spec

-----------------------------------------------------------------------------
(* The sector store.                                                       *)

(* Without power failures every good block is erased before the first      *)
(* table; a source under test belongs to a number of the device; without a *)
(* request nothing is left of the last one.                                *)
Beginning == pc \in {"off", "dead"} => \A b \in Blocks : ~Marked(b) => flash[b].data = Erased.data
Tested == Testing => Sec \div BlkSec < valid /\ cp.take \in 1..BlkSec-BlockOffset
Unasked == op.kind = "none" => op = NoOp

LEMMA NextBeginning ==
    ASSUME Typed, Typed', TagsAnswer, Beginning, [Next]_vars, crashes' = 0
    PROVE  Beginning'
<1> SUFFICES ASSUME pc' \in {"off", "dead"}, NEW b \in Blocks, ~Marked(b)'
             PROVE  flash'[b].data = Erased.data
    BY ErasedData DEF Beginning
<1>1. ASSUME NEW f \in FormatFaults,
             FormatFails(f) \/ \E k \in 0..BlockTotal : ftl_format(k, f)
      PROVE  flash'[b].data = Erased.data
    <2>1. \/ Marked(b) /\ flash'[b] = flash[b]
          \/ Retired(b)
          \/ flash'[b].data = Erased.data
        BY <1>1, FormatTags
    <2> QED
        BY <2>1 DEF Marked, Retired
<1>2. CASE PowerFail
    BY <1>2 DEF PowerFail, Typed, Shapes
<1>3. CASE UNCHANGED vars
    BY <1>3 DEF vars, Beginning, Marked
<1>4. CASE Calls \/ ftl_init \/ Finished \/ Unmapped \/ TimesOut
    BY <1>4 DEF Calls, ReadCall, WriteCall, ftl_init, Finished, Unmapped, TimesOut, Return
<1>5. CASE WritePage \/ WriteMark \/ WriteMove \/ ReadPage \/ ReadMove
    BY <1>5 DEF WritePage, WriteMark, WriteMove, Move, ReadPage, ReadMove
<1>6. CASE CopyFind \/ CopyPage \/ CopyBad \/ CopyUsed \/ CopyErase
    BY <1>6 DEF CopyFind, CopyPage, CopyBad, CopyUsed, CopyErase, Return
<1>7. CASE Tests
    BY <1>7, TestsGoOn
<1> QED
    BY <1>1, <1>2, <1>3, <1>4, <1>5, <1>6, <1>7 DEF Next, Work, Tests

LEMMA NextTested ==
    ASSUME Typed, Typed', TagsAnswer, Tagged', Mapped, Mapped', Kept, Spare, Tested, [Next]_vars,
           Sane'
    PROVE  Tested'
<1> SUFFICES ASSUME Testing' PROVE Sec' \div BlkSec < valid' /\ cp'.take \in 1..BlkSec-BlockOffset'
    BY DEF Tested
<1>1. CASE CopyErase
    <2>1. /\ cp.src = Pbn /\ Pbn # None /\ cp.take \in 1..BlkSec-BlockOffset /\ Up
          /\ UNCHANGED <<op, cp, valid>>
        BY <1>1 DEF CopyErase, Kept, Taking, Handling, Moving, Testing, Up
    <2>2. Sec \div BlkSec < valid
        BY <2>1, PbnHome
    <2> QED
        BY <2>1, <2>2 DEF Sec, BlockOffset
<1>2. CASE Tests
    <2>1. Testing /\ valid' = valid /\ UNCHANGED <<op, cp>>
        <3>1. Testing /\ valid' = valid
            BY <1>2, TestsGoOn, TestHome
        <3> QED
            BY <1>2, <3>1, TestsGoOn DEF Testing
    <2> QED
        BY <2>1 DEF Tested, Sec, BlockOffset
<1>3. CASE UNCHANGED vars
    BY <1>3 DEF vars, Tested, Testing, Sec, BlockOffset
<1>4. ASSUME NEW f \in FormatFaults,
             FormatFails(f) \/ \E k \in 0..BlockTotal : ftl_format(k, f)
      PROVE  FALSE
    BY <1>4, FormatMoves DEF Testing
<1>5. CASE PowerFail \/ Calls \/ ftl_init \/ Finished \/ Unmapped \/ TimesOut
    BY <1>5 DEF PowerFail, Calls, ReadCall, WriteCall, ftl_init, Finished, Unmapped, TimesOut,
                Return, Testing
<1>6. CASE WritePage \/ WriteMark \/ WriteMove \/ ReadPage \/ ReadMove
    BY <1>6 DEF WritePage, WriteMark, WriteMove, Move, ReadPage, ReadMove, Testing
<1>7. CASE CopyFind
    BY <1>7, NoTimeout DEF CopyFind, Return, Testing, Spare
<1>8. CASE CopyPage \/ CopyBad \/ CopyUsed
    BY <1>8 DEF CopyPage, CopyBad, CopyUsed, Return, Testing
<1> QED
    BY <1>1, <1>2, <1>3, <1>4, <1>5, <1>6, <1>7, <1>8 DEF Next, Work, Tests

(* A step that changes nothing the host sees leaves the store alone; one   *)
(* that puts sectors in their places is a write of the store.              *)
LEMMA StillStore ==
    ASSUME Typed, Still
    PROVE  UNCHANGED Store!vars
<1>1. \A x \in 0..valid*BlkSec-1 : NewHome(x) = Home(x)
    BY Device DEF Typed, Shapes, Still, Inside
<1>2. Content' = Content
    BY <1>1 DEF Content, Still, Home, NewHome
<1> QED
    BY <1>2 DEF Still, SameAsk, Ask, Store!vars

LEMMA PutsStore ==
    ASSUME Typed, NEW t, Puts(t)
    PROVE  Store!Next
<1>1. /\ Settled \in Nat /\ op.cnt \in Nat /\ op.sec \in Nat /\ t \in 1..op.cnt-Settled
      /\ Settled + t <= op.cnt
    BY SettledType, Geometry DEF Puts, Typed, Shapes, Op
<1>2. /\ Ask' = Ask /\ Ask.kind = "write" /\ Ask.sec = op.sec /\ Ask.cnt = op.cnt
      /\ Ask.buf = op.buf /\ Settled' = Settled + t
    BY DEF Puts, SameAsk, Ask
<1>3. \A x : x \in 0..valid*BlkSec-1 <=> x \in Sectors /\ Inside(x)
    BY Device DEF Typed, Shapes, Inside
<1>4. /\ Content = [x \in 0..valid*BlkSec-1 |-> Home(x)]
      /\ Content' = [x \in 0..valid*BlkSec-1 |-> NewHome(x)]
    BY DEF Content, Puts, Home, NewHome
<1>5. ASSUME NEW x \in Sectors
      PROVE  x \in Store!Span(t) <=> x - op.sec \in Settled..Settled+t-1
    BY <1>1, <1>2, Sector DEF Store!Span
<1>6. Store!Span(t) \subseteq DOMAIN Content
    BY <1>1, <1>2, <1>4 DEF Puts, Store!Span
<1>7. Content' = [x \in DOMAIN Content |->
                     IF x \in Store!Span(t) THEN Ask.buf[x - Ask.sec] ELSE Content[x]]
    BY <1>2, <1>3, <1>4, <1>5 DEF Puts
<1>8. Store!Write(t)
    BY <1>2, <1>6, <1>7 DEF Store!Write
<1> QED
    BY <1>1, <1>2, <1>8 DEF Store!Next

(* A read goes on by sectors the device has.                               *)
LEMMA ReadsStore ==
    ASSUME Typed, Up, Up', UNCHANGED valid, NEW t \in 1..BlkSec-BlockOffset,
           op.kind = "read", op.i + t <= op.cnt, Sec \div BlkSec < valid,
           op' = [op EXCEPT !.i = @ + t], pc # "mark", pc' # "mark",
           \A x \in Sectors : Inside(x) => NewHome(x) = Home(x)
    PROVE  Store!Next
<1>1. op.i \in Nat /\ op.cnt \in Nat /\ op.sec \in Nat /\ t \in Nat \ {0} /\ Sec = op.sec + op.i
    BY Place, Geometry DEF Typed, Shapes, Op, Sec
<1>2. Settled = op.i /\ Settled' = op.i + t
    BY <1>1 DEF Settled, Typed, Shapes, Op
<1>3. Ask' = Ask /\ Ask.kind = "read" /\ Ask.sec = op.sec /\ Ask.cnt = op.cnt
    BY DEF Ask, Typed, Shapes, Op
<1>4. \A x \in 0..valid*BlkSec-1 : NewHome(x) = Home(x)
    BY Device DEF Typed, Shapes, Inside
<1>5. Content' = Content /\ DOMAIN Content = 0..valid*BlkSec-1
    BY <1>4 DEF Content, Home, NewHome
<1>6. Store!Span(t) \subseteq DOMAIN Content
    BY <1>1, <1>2, <1>3, <1>5, SpanInside DEF Typed, Store!Span
<1>7. t \in 1..Ask.cnt-Settled
    BY <1>1, <1>2, <1>3
<1>8. Store!Read(t)
    BY <1>2, <1>3, <1>5, <1>6 DEF Store!Read
<1> QED
    BY <1>7, <1>8 DEF Store!Next

LEMMA CallsStore ==
    ASSUME Typed, Mapped, Kept, Unasked, Calls
    PROVE  Store!Next
<1>1. /\ pc = "idle" /\ pc' = "loop" /\ UNCHANGED <<flash, lut, valid>> /\ Up /\ Up'
    BY DEF Calls, ReadCall, WriteCall, Up
<1>2. Content' = Content
    BY <1>1 DEF Content, Home
<1>3. Content # <<>>
    <2>1. valid > 0
        BY <1>1 DEF Mapped, Capacity
    <2>2. 0 \in 0..valid*BlkSec-1
        BY <2>1, Device DEF Typed, Shapes
    <2>3. DOMAIN Content = 0..valid*BlkSec-1
        BY <1>1 DEF Content
    <2>4. DOMAIN <<>> = {}
        OBVIOUS
    <2> QED
        BY <2>2, <2>3, <2>4
<1>4. PICK sec \in HostSectors, cnt \in 1..MaxCount :
            \/ ReadCall(sec, cnt)
            \/ \E buf \in [0..cnt-1 -> Data] : WriteCall(sec, buf)
    BY DEF Calls
<1>5. sec \in Firsts /\ cnt \in Nat
    BY Geometry DEF HostSectors
<1>6. Ask' \in Store!Reads \cup UNION {Store!Writes(n) : n \in 1..MaxCount} /\ Settled' = 0
    <2>1. CASE ReadCall(sec, cnt)
        <3>1. Ask' = [kind |-> "read", sec |-> sec, cnt |-> cnt, buf |-> <<>>] /\ Settled' = 0
            BY <1>1, <2>1 DEF ReadCall, NoOp, Ask, Settled
        <3> QED
            BY <1>5, <3>1 DEF Store!Reads
    <2>2. ASSUME NEW buf \in [0..cnt-1 -> Data], WriteCall(sec, buf)
          PROVE  Ask' \in UNION {Store!Writes(n) : n \in 1..MaxCount} /\ Settled' = 0
        <3>1. Cardinality(DOMAIN buf) = cnt
            BY <1>5, FS_Interval
        <3>2. Ask' = [kind |-> "write", sec |-> sec, cnt |-> cnt, buf |-> buf] /\ Settled' = 0
            BY <1>1, <2>2, <3>1 DEF WriteCall, Ask, Settled
        <3>3. Ask' \in Store!Writes(cnt)
            BY <1>5, <3>2 DEF Store!Writes
        <3> QED
            BY <3>2, <3>3
    <2> QED
        BY <1>4, <2>1, <2>2
<1>7. Ask = Store!NoRequest /\ Settled = 0
    BY <1>1 DEF Kept, Resting, Unasked, NoOp, Ask, Settled, Store!NoRequest
<1> QED
    BY <1>2, <1>3, <1>6, <1>7 DEF Store!Next, Store!Begin

LEMMA ReturnStore ==
    ASSUME Typed, Mapped, Kept, Unasked, Return(TRUE) \/ Return(FALSE), pc \in {"loop", "find"},
           UNCHANGED <<flash, lut, valid>>,
           op.i < op.cnt /\ op.kind = "read" => ~(Sec \div BlkSec < valid)
    PROVE  [Store!Next]_(Store!vars)
<1>1. /\ pc' = "idle" /\ op' = NoOp /\ Up /\ Up' /\ op.i \in Nat /\ op.sec \in Nat
      /\ op.cnt \in Nat
    BY Geometry DEF Return, Up, Typed, Shapes, Op
<1>2. Content' = Content /\ DOMAIN Content = 0..valid*BlkSec-1
    BY <1>1 DEF Content, Home
<1>3. Settled = op.i /\ Settled' = 0 /\ Ask' = Store!NoRequest
    BY <1>1 DEF Settled, NoOp, Ask, Store!NoRequest
<1>4. Ask.cnt = op.cnt /\ Ask.sec = op.sec /\ Ask.kind = op.kind
    BY DEF Ask
<1>5. Settled < Ask.cnt /\ Ask.kind = "read" => Ask.sec + Settled \notin DOMAIN Content
    <2> SUFFICES ASSUME op.i < op.cnt, op.kind = "read" PROVE Sec \notin 0..valid*BlkSec-1
        BY <1>2, <1>3, <1>4 DEF Sec
    <2> QED
        BY Device DEF Typed, Shapes
<1>6. CASE Ask = Store!NoRequest
    <2>1. Settled = 0
        BY <1>3, <1>6 DEF Ask, Store!NoRequest, Unasked, NoOp
    <2> QED
        BY <1>2, <1>3, <1>6, <2>1 DEF Store!vars
<1>7. CASE Ask # Store!NoRequest
    BY <1>2, <1>3, <1>5, <1>7 DEF Store!Next, Store!Finish
<1> QED
    BY <1>6, <1>7

(* The device gets its first table, from ftl_format or from ftl_init.      *)
LEMMA PrepareStore ==
    ASSUME Typed', Mapped', ~Up, Up', UNCHANGED op, pc # "mark", pc' # "mark",
           \A x \in Sectors : Inside(x)' => NewHome(x) = FF
    PROVE  Store!Next
<1>1. valid' \in Blocks /\ valid' > 0
    BY DEF Mapped, Capacity, Typed, Shapes
<1>2. valid' * BlkSec \in 1..BlockTotal*BlkSec
    BY <1>1, Device, Geometry
<1>3. \A x \in 0..valid'*BlkSec-1 : NewHome(x) = FF
    BY <1>1, Device DEF Inside
<1>4. Content = <<>> /\ Content' = [x \in 0..valid'*BlkSec-1 |-> FF]
    BY <1>3 DEF Content, Home, NewHome
<1>5. Ask' = Ask /\ Settled' = Settled
    BY DEF Ask, Settled
<1>6. Store!Prepare
    BY <1>2, <1>4, <1>5 DEF Store!Prepare
<1> QED
    BY <1>6 DEF Store!Next

LEMMA NextUnasked ==
    ASSUME Typed, Kept, Unasked, [Next]_vars
    PROVE  Unasked'
<1>1. CASE Calls
    <2>1. ASSUME NEW sec, NEW cnt, ReadCall(sec, cnt) PROVE op'.kind = "read"
        BY <2>1 DEF ReadCall, NoOp
    <2>2. ASSUME NEW sec, NEW buf, WriteCall(sec, buf) PROVE op'.kind = "write"
        BY <2>2 DEF WriteCall
    <2> QED
        BY <1>1, <2>1, <2>2 DEF Calls, Unasked
<1>2. CASE \/ op' = op \/ op' = NoOp
    BY <1>2 DEF Unasked
<1>3. CASE WritePage \/ WriteMark \/ ReadPage \/ CopyErase
    <2>1. op' = op \/ op.kind \in {"read", "write"}
        BY <1>3 DEF WritePage, WriteMark, ReadPage, CopyErase, Typed, OpLocals
    <2>2. op'.kind = op.kind
        BY <1>3 DEF WritePage, WriteMark, ReadPage, CopyErase, Typed, Shapes, Op
    <2> QED
        BY <2>1, <2>2 DEF Unasked
<1>4. CASE Tests
    <2>1. op.kind = "read" /\ op'.kind = op.kind
        BY <1>4, TestsGoOn DEF Kept, Resting, Advance, Typed, Shapes, Op
    <2> QED
        BY <2>1 DEF Unasked
<1>5. CASE PowerFail \/ ftl_init \/ Finished \/ Unmapped \/ TimesOut \/ WriteMove \/ ReadMove
    BY <1>2, <1>5 DEF PowerFail, ftl_init, Finished, Unmapped, TimesOut, Return, WriteMove, ReadMove
<1>6. CASE CopyFind \/ CopyPage \/ CopyBad \/ CopyUsed
    BY <1>2, <1>6 DEF CopyFind, CopyPage, CopyBad, CopyUsed, Return
<1>7. ASSUME NEW f \in FormatFaults,
             FormatFails(f) \/ \E k \in 0..BlockTotal : ftl_format(k, f)
      PROVE  Unasked'
    BY <1>2, <1>7 DEF FormatFails, ftl_format
<1>8. CASE UNCHANGED vars
    BY <1>2, <1>8 DEF vars
<1> QED
    BY <1>1, <1>3, <1>4, <1>5, <1>6, <1>7, <1>8 DEF Next, Work, Tests

(* Each step of ftl.c is one of the store, or changes nothing in it.       *)
LEMMA StoreStep ==
    ASSUME Typed, Typed', TagsAnswer, Tagged, Tagged', Mapped, Mapped', Clean, Spare, Sane, Sane',
           Kept, Kept', Beginning, Tested, Unasked, [Next]_vars
    PROVE  [Store!Next]_(Store!vars)
<1>0. crashes = 0 /\ crashes' = 0 /\ chip.weak = {}
    BY DEF Sane
<1>1. CASE Calls
    BY <1>1, CallsStore
<1>2. CASE ftl_init
    <2>1. CASE pc = "idle"
        BY <1>0, <1>2, <2>1, InitCallStill, StillStore
    <2>2. CASE pc # "idle"
        <3>1. /\ pc \in {"off", "dead"} /\ ~Up /\ pc' \in {"format", "idle"}
              /\ UNCHANGED <<flash, op>>
            BY <1>2, <2>2 DEF ftl_init, Up
        <3>2. CASE Up'
            <4>1. ASSUME NEW x \in Sectors, Inside(x)' PROVE NewHome(x) = FF
                <5> DEFINE l == x \div BlkSec
                           k == x % BlkSec
                <5>1. l \in Blocks /\ l < valid' /\ k \in 0..BlkSec-1
                    BY <4>1, Sector DEF Inside
                <5>2. lut'[l] \in Blocks /\ ~Marked(lut[l])'
                    BY <3>2, <5>1 DEF Mapped, TableRight, Typed, Shapes
                <5>3. flash'[lut'[l]].data = Erased.data
                    BY <3>1, <5>2 DEF Beginning, Marked
                <5> QED
                    BY <5>1, <5>3, ErasedData DEF NewHome
            <4> QED
                BY <3>1, <3>2, <4>1, PrepareStore
        <3>3. CASE ~Up'
            BY <3>1, <3>3 DEF Content, Ask, Settled, Store!vars
        <3> QED
            BY <3>2, <3>3
    <2> QED
        BY <2>1, <2>2
<1>3. ASSUME NEW f \in FormatFaults,
             FormatFails(f) \/ \E k \in 0..BlockTotal : ftl_format(k, f)
      PROVE  [Store!Next]_(Store!vars)
    <2>1. /\ pc = "format" /\ ~Up /\ pc' \in {"dead", "idle"} /\ op' = op
          /\ adm' = [x \in Sectors |-> {FF}]
        BY <1>0, <1>3, FormatMoves DEF Up
    <2>2. CASE Up'
        <3>1. \A x \in Sectors : Inside(x)' => NewHome(x) = FF
            BY <2>1, <2>2 DEF Kept, Stored, Home, NewHome
        <3> QED
            BY <2>1, <2>2, <3>1, PrepareStore
    <2>3. CASE ~Up'
        BY <2>1, <2>3 DEF Content, Ask, Settled, Store!vars
    <2> QED
        BY <2>2, <2>3
<1>4. CASE Finished \/ Unmapped \/ TimesOut
    <2>1. /\ Return(TRUE) \/ Return(FALSE)
          /\ pc = "loop" /\ UNCHANGED <<flash, lut, valid>>
          /\ op.i >= op.cnt \/ Pbn = None
        BY <1>0, <1>4 DEF Finished, Unmapped, TimesOut
    <2>2. op.i < op.cnt => ~(Sec \div BlkSec < valid)
        <3>1. op.i \in Nat /\ op.cnt \in Nat
            BY Geometry DEF Typed, Shapes, Op
        <3>2. Pbn = None => ~(Sec \div BlkSec < valid)
            <4>1. Sec \div BlkSec \in Nat /\ valid \in Nat /\ valid \in Blocks /\ TableRight
                BY <2>1, Place, Geometry DEF Typed, Shapes, Blocks, Mapped, Up
            <4>2. ASSUME NEW l \in Nat, l < valid PROVE ftl_lbn_to_pbn(l) # None
                <5>1. l \in Blocks
                    BY <4>1, <4>2, Geometry DEF Blocks
                <5> QED
                    BY <4>1, <4>2, <5>1 DEF ftl_lbn_to_pbn, TableRight
            <4> QED
                BY <4>1, <4>2 DEF Pbn
        <3> QED
            BY <2>1, <3>1, <3>2
    <2> QED
        BY <2>1, <2>2, ReturnStore
<1>5. CASE WritePage
    BY <1>5, WritePagePuts, PutsStore
<1>6. CASE WriteMark
    BY <1>0, <1>6, MarkStill, StillStore
<1>7. CASE WriteMove \/ ReadMove
    BY <1>0, <1>7, MovesStill, StillStore
<1>8. CASE ReadPage
    <2>1. /\ pc = "loop" /\ pc' = pc /\ op.kind = "read" /\ op.i < op.cnt /\ Pbn # None
          /\ op' = [op EXCEPT !.i = @ + InPage] /\ UNCHANGED <<flash, lut, valid>> /\ Up /\ Up'
        BY <1>8 DEF ReadPage, Up
    <2>2. Sec \div BlkSec < valid
        BY <2>1, PbnHome
    <2>3. InPage \in 1..BlkSec-BlockOffset /\ op.i + InPage <= op.cnt
        <3>1. op.i \in Nat /\ op.cnt \in Nat /\ InPage \in Int /\ InPage <= op.cnt - op.i
              /\ InPage \in 1..BlkSec-BlockOffset
            BY <2>1, PageFits, Geometry DEF Typed, Shapes, Op
        <3> QED
            BY <3>1
    <2>4. \A x \in Sectors : Inside(x) => NewHome(x) = Home(x)
        BY <2>1 DEF Home, NewHome
    <2> QED
        BY <2>1, <2>2, <2>3, <2>4, ReadsStore
<1>9. CASE CopyFind
    <2>1. CASE FindSamePlane(cp.src, {}, {})[1] # None
        BY <1>9, <2>1, FindStill, StillStore
    <2>2. CASE FindSamePlane(cp.src, {}, {})[1] = None
        <3>1. /\ pc = "find" /\ op.kind = "write" /\ Return(FALSE)
              /\ UNCHANGED <<flash, lut, valid>>
            BY <1>9, <2>2, NoTimeout DEF CopyFind, Spare
        <3> QED
            BY <3>1, ReturnStore
    <2> QED
        BY <2>1, <2>2
<1>10. CASE CopyPage
    BY <1>0, <1>10, PageStill, StillStore
<1>11. CASE CopyBad
    <2>1. pc = "bad"
        BY <1>11 DEF CopyBad
    <2> QED
        BY <2>1 DEF Kept, Taking, Handling, Moving
<1>12. CASE CopyUsed
    BY <1>12, UsedStill, StillStore
<1>13. CASE CopyErase
    BY <1>13, EraseMoves, PutsStore, StillStore
<1>14. CASE Tests
    <2>1. /\ Testing /\ Up /\ Up' /\ valid' = valid /\ op.kind = "read" /\ pc # "mark"
          /\ pc' # "mark" /\ \A x \in Sectors : Inside(x) => NewHome(x) = Home(x)
        BY <1>0, <1>14, TestsGoOn, TestHome DEF Kept, Resting, Testing
    <2>2. op' = op \/ op' = [op EXCEPT !.i = @ + cp.take]
        BY <1>14, TestsGoOn DEF Advance
    <2>3. CASE op' = op
        <3>1. Still
            BY <2>1, <2>3 DEF Still, SameAsk, Settled
        <3> QED
            BY <3>1, StillStore
    <2>4. CASE op' = [op EXCEPT !.i = @ + cp.take]
        <3>1. op.i + cp.take <= op.cnt
            BY <2>1 DEF Typed, CpLocals
        <3> QED
            BY <2>1, <2>4, <3>1, ReadsStore DEF Tested
    <2> QED
        BY <2>2, <2>3, <2>4
<1>15. CASE PowerFail
    BY <1>0, <1>15 DEF PowerFail
<1>16. CASE UNCHANGED vars
    <2>1. InPage' = InPage
        BY <1>16 DEF vars, InPage, Rest, Col, BlockOffset, Sec
    <2> QED
        BY <1>16, <2>1 DEF vars, Content, Home, Up, Ask, Settled, Store!vars
<1> QED
    BY <1>1, <1>2, <1>3, <1>4, <1>5, <1>6, <1>7, <1>8, <1>9, <1>10, <1>11, <1>12, <1>13, <1>14,
       <1>15, <1>16 DEF Next, Work, Tests

(* While pages answer, erases succeed, power stays on and corrected reads  *)
(* find a free block, ftl.c is the sector store: nothing it does behind a  *)
(* request is ever seen, and what it writes comes in order and once.       *)
THEOREM KeepsSectors == Spec /\ []Spare /\ []Sane => ImplementsSectors
<1>1. Init => Store!Init /\ Beginning /\ Tested /\ Unasked
    <2> SUFFICES ASSUME Init PROVE Store!Init /\ Beginning /\ Tested /\ Unasked
        OBVIOUS
    <2>1. pc = "off" /\ op = NoOp /\ \A b \in Blocks : flash[b].data = Erased.data
        BY DEF Init, Erased
    <2> QED
        BY <2>1 DEF Store!Init, Store!NoRequest, Content, Ask, Settled, NoOp, Up, Beginning,
                    Tested, Testing, Unasked
<1>a. Sane => TagsAnswer
    BY SaneTags
<1>2. /\ Typed /\ Typed' /\ TagsAnswer /\ Tagged' /\ Mapped /\ Mapped' /\ Spare /\ Sane /\ Sane'
      /\ Kept /\ Beginning /\ Tested /\ Unasked /\ [Next]_vars
      => Beginning' /\ Tested' /\ Unasked'
    BY NextBeginning, NextTested, NextUnasked DEF Sane
<1>3. /\ Typed /\ Typed' /\ TagsAnswer /\ Tagged /\ Tagged' /\ Mapped /\ Mapped' /\ Clean /\ Spare
      /\ Sane /\ Sane' /\ Kept /\ Kept' /\ Beginning /\ Tested /\ Unasked /\ [Next]_vars
      => [Store!Next]_(Store!vars)
    BY StoreStep
<1> QED
    BY <1>1, <1>a, <1>2, <1>3, TypedAlways, TaggedAlways, MappedAlways, CleanAlways, KeptAlways,
       PTL DEF Spec, ImplementsSectors, Store!Spec

(* On a chip whose reads need no correction all of it holds without the    *)
(* condition on free blocks: then only writes copy, and a write that finds *)
(* no free block fails, as the host is told. Spare reads that time out are *)
(* excluded only as far as the properties themselves exclude them.         *)
THEOREM NeverCorrected ==
    Spec /\ chip.ecc = {} =>
        /\ [](LutMatchesTags /\ CapacityKept /\ UnusedIsErased)
        /\ [](crashes = 0 /\ chip.weak = {} /\ chip.worn = {} => ReadBack)
        /\ [](crashes <= 1 => MediumKeepsData)
        /\ []Sane => ImplementsSectors
<1>1. Typed /\ Reading /\ chip.ecc = {} /\ [Next]_vars => (chip.ecc = {})'
    BY NextReading
<1> QED
    BY <1>1, SpareAlways, TypedAlways, ReadingAlways, TableLeadsRight, CapacityStays,
       FreeIsErased, ReadsBack, FirstCutKeeps, KeepsSectors, PTL DEF Spec

=============================================================================
