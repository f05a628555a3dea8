-------------------------------- MODULE Ftl ---------------------------------
(***************************************************************************)
(* The NAND flash translation layer, Drivers/BSP/NAND/ftl.c, on the page   *)
(* operations of nand.c.  One step per NAND operation (program, copy-back, *)
(* spare write, erase), so that power can fail between any two of them.    *)
(*                                                                         *)
(* A block is the four spare bytes the layer keeps in its first page (bad  *)
(* mark, used mark, logical block number), the backup bad mark in its      *)
(* second page, and its sectors.  A cell is the content of one sector; FF  *)
(* is an erased one and Junk one that was programmed twice or zeroed.      *)
(*                                                                         *)
(* Any operation on a weak page may time out, and any erase of a worn      *)
(* block.  Where the code looks at the result the model goes the same way; *)
(* where it does not, the model goes on with what the operation has left:  *)
(* a buffer that was not filled, a mark that was not written, a block that *)
(* was not erased.                                                         *)
(***************************************************************************)
EXTENDS Integers, FiniteSets

CONSTANTS
    BlockTotal,   \* nand_dev.block_totalnum
    PageNum,      \* nand_dev.block_pagenum
    SecPerPage,   \* page_mainsize / sectorsize
    Data,         \* contents a host writes
    FF, Junk,     \* erased, and neither erased nor written
    None,         \* 0xFFFF / 0xFFFFFFFF: no block
    Percent,      \* share of the good blocks that get a logical number (93)
    MinBlocks,    \* blocks without which the device is unusable (100)
    Chips,        \* the chips: what may go wrong with each, see below
    Firsts,       \* bound: the sectors a request may begin at
    MaxCount      \* bound: sectors of one request

ASSUME FtlAssumption ==
    /\ BlockTotal \in Nat \ {0} /\ PageNum \in Nat /\ PageNum >= 2
    /\ SecPerPage \in Nat \ {0} /\ MinBlocks \in Nat \ {0}
    /\ Percent \in 0..100 /\ MaxCount \in Nat \ {0} /\ Firsts \subseteq Nat
    /\ None \notin 0..BlockTotal-1             \* no block has the number 0xFFFF
    /\ \A c \in Chips :
        /\ c.bad \subseteq 0..BlockTotal-1         \* marked bad in the factory, in
                                                 \* the spare area of the first page
        \* pages on which reads, programs and copies may time out, and pages
        \* where reads correct a bit
        /\ c.weak \subseteq (0..BlockTotal-1) \X (0..PageNum-1)
        /\ c.ecc \subseteq (0..BlockTotal-1) \X (0..PageNum-1)
        /\ c.worn \subseteq 0..BlockTotal-1        \* blocks whose erase may time out
        /\ c.cuts \in Nat                         \* bound: power failures

VARIABLES
    chip,       \* the chip on the board; it does not change
    flash,      \* the blocks
    lut,        \* nand_dev.lut
    valid,      \* nand_dev.valid_blocknum
    curblock,   \* the static of ftl_find_same_plane_unused_block
    pc,         \* the NAND operation that comes next
    op,         \* locals of ftl_write_sectors / ftl_read_sectors
    cp,         \* locals of ftl_copy_and_write_to_block
    adm,        \* adm[x]: contents the host may find in sector x (history)
    cap,        \* logical blocks of the formatted device (history)
    crashes     \* power failures so far

vars == <<chip, flash, lut, valid, curblock, pc, op, cp, adm, cap, crashes>>

Blocks == 0..BlockTotal-1
BlkSec == PageNum * SecPerPage     \* sectors of a block
Sectors == 0..BlockTotal*BlkSec-1
Cell == Data \cup {FF, Junk}
Erased == [bad0 |-> FALSE, bad1 |-> FALSE, used |-> FALSE, lbn |-> None,
           data |-> [k \in 0..BlkSec-1 |-> FF]]
Least(a, b) == IF a < b THEN a ELSE b

NoOp == [kind |-> "none", sec |-> 0, cnt |-> 0, buf |-> <<>>, i |-> 0, markd |-> None]
NoCp == [src |-> None, off |-> 0, col |-> 0, buf |-> <<>>, from |-> 0, n |-> 0,
         take |-> 0, dst |-> None, page |-> 0]

-----------------------------------------------------------------------------
(* The spare bytes and what their reads find.                              *)

\* The pages with spare bytes that may time out.
TagPages == chip.weak \cap (Blocks \X {0, 1})

\* No operation on the spare bytes times out.
TagsAnswer == TagPages = {}

\* A block that carries a bad mark, in either place.
Marked(b) == flash[b].bad0 \/ flash[b].bad1

\* ftl_check_badblock, with the pages of T timing out: flag is 0 before the first
\* read and 0xFF before the second.
ftl_check_badblock(fl, b, T) ==
    <<b, 0>> \in T \/ fl[b].bad0 \/ (<<b, 1>> \notin T /\ fl[b].bad1)

\* Seeded fault: only the number is looked at.
UnusedNumber(b) == flash[b].lbn = None

\* The four bytes ftl_find_unused_block looks at are all 0xFF; it does not
\* read the backup mark.
Unused(b) == ~flash[b].bad0 /\ ~flash[b].used /\ flash[b].lbn = None

\* ftl_badblock_mark: both marks, and the used and number bytes with the first.
\* Each write may be lost (those on the pages of D).
BadMarked(blk, b, D) ==
    [blk EXCEPT !.bad0 = @ \/ <<b, 0>> \notin D,
                !.used = @ \/ <<b, 0>> \notin D,
                !.lbn  = IF <<b, 0>> \in D THEN @ ELSE None,
                !.bad1 = @ \/ <<b, 1>> \notin D]

\* What nand_eraseblock leaves of a block, whatever it returns.
Erasing(b) == {Erased} \cup (IF b \in chip.worn THEN {flash[b]} ELSE {})

\* The buffer of ftl_create_lut behind the reads of block i, those on the pages of
\* T having timed out: the first byte says good when neither read that came says
\* otherwise, and both bytes of the number are those of the last block whose first
\* read came (`was` before there is one).
Buf(fl, T, was, i) ==
    LET came == {j \in 0..i : <<j, 0>> \notin T}
        from == IF came = {} THEN 0 ELSE CHOOSE j \in came : \A k \in came : k <= j
        read == IF came = {} THEN was ELSE [good |-> ~fl[from].bad0, lbn |-> fl[from].lbn]
    IN  [read EXCEPT !.good = @ /\ \A j \in from..i : <<j, 1>> \in T \/ ~fl[j].bad1]

\* ftl_create_lut: blocks in ascending order, so that the last good block that
\* carries a number gets its entry.
Lut(fl, T, was) ==
    [l \in Blocks |->
        LET C == {b \in Blocks : LET buf == Buf(fl, T, was, b) IN buf.good /\ buf.lbn = l}
        IN  IF C = {} THEN None ELSE CHOOSE b \in C : \A c \in C : c <= b]

\* The first entry without a block ends the valid numbers (and leaves the
\* count as it was when there is none).
Valid(table) ==
    IF \A l \in Blocks : table[l] # None THEN valid
    ELSE CHOOSE v \in Blocks : table[v] = None /\ \A l \in 0..v-1 : table[l] # None

\* The buffer is not initialised, which tells when the very first read times out.
Unset(T) == IF <<0, 0>> \in T THEN [good : BOOLEAN, lbn : Blocks \cup {None}]
            ELSE {[good |-> FALSE, lbn |-> None]}

ftl_create_lut(fl) ==
    \E T \in SUBSET TagPages : \E was \in Unset(T) :
        lut' = Lut(fl, T, was) /\ valid' = Valid(lut')

\* ftl_find_unused_block: from s down, blocks of one parity only.  A block whose
\* read times out (those of S) is passed over: the bytes are still those of a
\* block that was not unused, or 0.
ftl_find_unused_block(s, parity, S) ==
    LET C == {b \in 0..s \ S : b % 2 = parity /\ Unused(b)}
    IN  IF C = {} THEN None ELSE CHOOSE b \in C : \A c \in C : c <= b

\* ftl_find_same_plane_unused_block: on from the last block it found, and
\* once more from the end.  The pair is the block and the new curblock.
FindSamePlane(src, S, again) ==
    LET last == BlockTotal - 1
        cur == IF curblock > last THEN last ELSE curblock
        one == ftl_find_unused_block(cur, src % 2, S)
        two == ftl_find_unused_block(last, src % 2, again)
        u == IF one = None /\ cur < last THEN two ELSE one
    IN  <<u, IF u # None THEN u ELSE last>>

\* Seeded fault: the last number counts as one too many.
LbnToPbnShort(l) == IF l >= valid - 1 THEN None ELSE lut[l]

\* ftl_lbn_to_pbn: the test lets lbn = valid through, whose entry is empty.
ftl_lbn_to_pbn(l) == IF l > valid THEN None ELSE lut[l]

-----------------------------------------------------------------------------
(* The place of sector op.sec + op.i.                                      *)

Sec == op.sec + op.i
Pbn == ftl_lbn_to_pbn(Sec \div BlkSec)
BlockOffset == Sec % BlkSec
Page == BlockOffset \div SecPerPage
Col == BlockOffset % SecPerPage
Rest == op.cnt - op.i
\* Sectors of the request that lie in this page, and in this block.
InPage == Least(Rest, SecPerPage - Col)
InBlock == Least(Rest, BlkSec - BlockOffset)
PageShare == BlockOffset..BlockOffset+InPage-1

\* NAND cells only lose bits until they are erased.
Prog(old, new) == IF old = FF THEN new ELSE IF new \in {FF, old} THEN old ELSE Junk

-----------------------------------------------------------------------------
(* Power, ftl_init and ftl_format.                                         *)

Boot == [lut |-> [l \in Blocks |-> None], valid |-> 0, curblock |-> BlockTotal]

Init ==
    /\ chip \in Chips
    /\ flash = [b \in Blocks |-> [Erased EXCEPT !.bad0 = b \in chip.bad]]
    /\ lut = Boot.lut /\ valid = Boot.valid /\ curblock = Boot.curblock
    /\ pc = "off" /\ op = NoOp /\ cp = NoCp
    /\ adm = [x \in Sectors |-> Cell]
    /\ cap = 0
    /\ crashes = 0

\* From usb_test after power up, and from STORAGE_Init_FS each time a host
\* configures the device.
ftl_init ==
    /\ pc \in {"off", "dead", "idle"}
    /\ ftl_create_lut(flash)
    /\ IF valid' < MinBlocks
       THEN pc' = "format" /\ UNCHANGED cap
       ELSE pc' = "idle" /\ cap' = IF cap = 0 THEN valid' ELSE cap
    /\ UNCHANGED <<chip, flash, curblock, op, cp, adm, crashes>>

(* What may go wrong while the device is formatted: spare reads that time  *)
(* out when blocks are erased (`check`) and when they are numbered         *)
(* (`again`), erases that fail, bad marks and numbers that are not written.*)
FormatFaults ==
    [check : SUBSET TagPages, again : SUBSET TagPages, unerased : SUBSET chip.worn,
     unmarked : SUBSET TagPages, unnumbered : SUBSET TagPages]

\* The blocks found good and erased.
Good(f) == {b \in Blocks : ~ftl_check_badblock(flash, b, f.check)} \ f.unerased

\* One that cannot be erased is marked bad.
Wiped(f) ==
    [b \in Blocks |->
        IF ftl_check_badblock(flash, b, f.check) THEN flash[b]
        ELSE IF b \in f.unerased THEN BadMarked(flash[b], b, f.unmarked)
        ELSE Erased]

\* Programming a number over another leaves the bits they have in common.
Bits(n) == {i \in 0..15 : (n \div 2^i) % 2 = 1}
Anded(old, n) ==
    LET common == {0} \cup {m \in 0..Least(old, n) : Bits(m) \subseteq Bits(old) \cap Bits(n)}
    IN  IF old = None THEN n ELSE CHOOSE m \in common : \A o \in common : o <= m

\* Number the first `Percent` of the good blocks in order.  `k` of the numbers get
\* written; power fails when that is not all of them.
ftl_format(k, f) ==
    LET wiped == Wiped(f)
        share == (Cardinality(Good(f)) * Percent) \div 100
        sound == {b \in Blocks : ~ftl_check_badblock(wiped, b, f.again)}
        \* the loop leaves at n = share, tested after the first number
        goal == IF share \in 1..Cardinality(sound) THEN share ELSE Cardinality(sound)
        rank(b) == Cardinality({c \in sound : c < b})
        fl == [b \in Blocks |->
                  IF b \in sound /\ rank(b) < k /\ <<b, 0>> \notin f.unnumbered
                  THEN [wiped[b] EXCEPT !.lbn = Anded(@, rank(b))] ELSE wiped[b]]
    IN  /\ pc = "format"
        /\ Cardinality(Good(f)) >= MinBlocks
        /\ flash' = fl
        /\ adm' = [x \in Sectors |-> {FF}]
        /\ \/ /\ k = goal
              /\ ftl_create_lut(flash')
              /\ pc' = IF valid' < MinBlocks THEN "dead" ELSE "idle"
              /\ cap' = IF valid' < MinBlocks THEN 0 ELSE valid'
              /\ UNCHANGED crashes
           \/ /\ k < goal
              /\ crashes < chip.cuts
              /\ crashes' = crashes + 1
              /\ pc' = "off"
              /\ lut' = Boot.lut /\ valid' = Boot.valid
              /\ cap' = 0
        /\ UNCHANGED <<chip, curblock, op, cp>>

\* Too few good blocks: the device is scrapped, ftl_init returns 2.
FormatFails(f) ==
    /\ pc = "format"
    /\ Cardinality(Good(f)) < MinBlocks
    /\ flash' = Wiped(f)
    /\ adm' = [x \in Sectors |-> {FF}]
    /\ pc' = "dead"
    /\ UNCHANGED <<chip, lut, valid, curblock, op, cp, cap, crashes>>

\* Power fails: the tables in RAM are gone.
PowerFail ==
    /\ pc \notin {"off", "format", "dead"}
    /\ crashes < chip.cuts
    /\ crashes' = crashes + 1
    /\ pc' = "off" /\ op' = NoOp /\ cp' = NoCp
    /\ lut' = Boot.lut /\ valid' = Boot.valid /\ curblock' = Boot.curblock
    /\ UNCHANGED <<chip, flash, adm, cap>>

-----------------------------------------------------------------------------
(* ftl_write_sectors.                                                      *)

\* The sectors of the current request.
Asked == {x \in Sectors : x - op.sec \in 0..op.cnt-1}

WriteCall(sec, buf) ==
    /\ pc = "idle"
    /\ LET cnt == Cardinality(DOMAIN buf)
       IN  /\ op' = [kind |-> "write", sec |-> sec, cnt |-> cnt, buf |-> buf, i |-> 0,
                     markd |-> None]
           /\ adm' = [x \in Sectors |->
                         IF x - sec \in 0..cnt-1 /\ x < valid * BlkSec
                         THEN adm[x] \cup {buf[x - sec]}
                         ELSE adm[x]]
    /\ pc' = "loop"
    /\ UNCHANGED <<chip, flash, lut, valid, curblock, cp, cap, crashes>>

\* The request returns.  The host finds what it wrote, after a failure in the
\* sectors before the failure.
Return(ok) ==
    /\ pc' = "idle" /\ op' = NoOp /\ cp' = NoCp
    /\ adm' = [x \in Sectors |->
                  IF /\ op.kind = "write" /\ x \in Asked /\ x < valid * BlkSec
                     /\ ok \/ x < Sec
                  THEN {op.buf[x - op.sec]} ELSE adm[x]]

\* The loop of a request is through.
Finished ==
    /\ pc = "loop"
    /\ op.i >= op.cnt
    /\ Return(TRUE)
    /\ UNCHANGED <<chip, flash, lut, valid, curblock, cap, crashes>>

\* No physical block behind the sector: return 1.
Unmapped ==
    /\ pc = "loop"
    /\ op.i < op.cnt
    /\ Pbn = None
    /\ Return(FALSE)
    /\ UNCHANGED <<chip, flash, lut, valid, curblock, cap, crashes>>

\* The page does not answer a read (nand_readpage, or nand_readpagecomp before
\* a write): return 2.
TimesOut ==
    /\ pc = "loop"
    /\ op.i < op.cnt
    /\ Pbn # None
    /\ <<Pbn, Page>> \in chip.weak
    /\ Return(FALSE)
    /\ UNCHANGED <<chip, flash, lut, valid, curblock, cap, crashes>>

AllFF == \A k \in PageShare : flash[Pbn].data[k] = FF

\* The page holds the request's share of data.
Programmed(c) ==
    [k \in 0..BlkSec-1 |-> IF k \in PageShare THEN c[k] ELSE flash[Pbn].data[k]]
New == [k \in PageShare |-> op.buf[op.i + (k - BlockOffset)]]

\* The sectors of this page are erased: program them where they are.
WritePage ==
    /\ pc = "loop" /\ op.kind = "write" /\ op.i < op.cnt /\ Pbn # None
    /\ AllFF
    /\ flash' = [flash EXCEPT ![Pbn].data = Programmed(New)]
    /\ \/ op.markd # Pbn /\ pc' = "mark" /\ UNCHANGED op
       \/ op.markd = Pbn /\ op' = [op EXCEPT !.i = @ + InPage] /\ UNCHANGED pc
    /\ UNCHANGED <<chip, lut, valid, curblock, cp, adm, cap, crashes>>

\* The rest of the block's share of the request goes to another block.
Move ==
    /\ cp' = [NoCp EXCEPT !.src = Pbn, !.off = Page, !.col = Col,
                !.buf = [k \in 0..InBlock-1 |-> op.buf[op.i + k]],
                !.n = InBlock, !.take = InBlock]
    /\ pc' = "find"

\* ftl_used_blockmark after the first page written to a block; its failure
\* moves the data.
WriteMark ==
    /\ pc = "mark"
    /\ \/ /\ flash' = [flash EXCEPT ![Pbn].used = TRUE]
          /\ op' = [op EXCEPT !.i = @ + InPage, !.markd = Pbn]
          /\ pc' = "loop"
          /\ UNCHANGED cp
       \/ /\ <<Pbn, 0>> \in chip.weak
          /\ flash' \in {flash, [flash EXCEPT ![Pbn].used = TRUE]}
          /\ op' = [op EXCEPT !.markd = Pbn]
          /\ Move
    /\ UNCHANGED <<chip, lut, valid, curblock, adm, cap, crashes>>

\* Not all erased, or programming timed out, when anything may be in the page.
WriteMove ==
    /\ pc = "loop" /\ op.kind = "write" /\ op.i < op.cnt /\ Pbn # None
    /\ \/ ~AllFF /\ UNCHANGED flash
       \/ /\ AllFF
          /\ <<Pbn, Page>> \in chip.weak
          /\ \E c \in {New, [k \in PageShare |-> FF], [k \in PageShare |-> Junk]} :
                flash' = [flash EXCEPT ![Pbn].data = Programmed(c)]
    /\ Move
    /\ UNCHANGED <<chip, lut, valid, curblock, op, adm, cap, crashes>>

-----------------------------------------------------------------------------
(* ftl_copy_and_write_to_block.                                            *)

\* Seeded fault: the source is erased before its pages are copied.
CopyFindErase ==
    /\ pc = "find"
    /\ LET f == FindSamePlane(cp.src, {}, {})
       IN  /\ f[1] # None
           /\ curblock' = f[2]
           /\ cp' = [cp EXCEPT !.dst = f[1], !.page = 0]
           /\ pc' = "copy"
    /\ flash' = [flash EXCEPT ![cp.src] = Erased]
    /\ UNCHANGED <<chip, lut, valid, op, adm, cap, crashes>>

\* The blocks whose tags may time out.
Silent == {b \in Blocks : <<b, 0>> \in chip.weak}

\* The `retry` label: a free block of the source's parity.
CopyFind ==
    /\ pc = "find"
    /\ \E S \in SUBSET Silent, again \in SUBSET Silent :
       LET f == FindSamePlane(cp.src, S, again)
       IN  /\ curblock' = f[2]
           /\ \/ /\ f[1] # None
                 /\ cp' = [cp EXCEPT !.dst = f[1], !.page = 0]
                 /\ pc' = "copy"
                 /\ UNCHANGED <<op, adm>>
              \/ /\ f[1] = None                 \* return 1
                 /\ \/ op.kind = "write" /\ Return(FALSE)
                    \/ op.kind = "read" /\ pc' = "ones" /\ UNCHANGED <<op, cp, adm>>
    /\ UNCHANGED <<chip, flash, lut, valid, cap, crashes>>

\* New data goes into this page.
Writing == cp.page >= cp.off /\ cp.n > 0
WrLen == IF Writing THEN Least(cp.n, SecPerPage - cp.col) ELSE 0

\* What the destination page must hold.
Wanted(k) ==
    LET first == cp.page * SecPerPage + cp.col
    IN  IF k \in first..first+WrLen-1 THEN cp.buf[cp.from + (k - first)]
        ELSE flash[cp.src].data[k]

PageCells == cp.page*SecPerPage..cp.page*SecPerPage+SecPerPage-1

\* Seeded fault: the copy-back leaves the spare area behind.
CopiedBare(dst) ==
    [dst EXCEPT !.data = [k \in 0..BlkSec-1 |->
                            IF k \in PageCells THEN Prog(@[k], Wanted(k)) ELSE @[k]]]

\* The copy-back takes the spare area along: the first page carries the bad mark,
\* the used mark and the logical number, the second the backup bad mark.
Copied(dst) ==
    [dst EXCEPT
        !.bad0 = @ \/ (cp.page = 0 /\ flash[cp.src].bad0),
        !.bad1 = @ \/ (cp.page = 1 /\ flash[cp.src].bad1),
        !.used = @ \/ (cp.page = 0 /\ flash[cp.src].used),
        !.lbn = IF cp.page = 0 THEN flash[cp.src].lbn ELSE @,
        !.data = [k \in 0..BlkSec-1 |->
                    IF k \in PageCells THEN Prog(@[k], Wanted(k)) ELSE @[k]]]

\* Seeded fault: the column of the first page is kept for the next.
ConsumedCol == [cp EXCEPT !.from = @ + WrLen, !.n = @ - WrLen]

\* The locals after a page with new data: column 0, buffer and count moved on.
\* The `goto retry` after a failure does not set them back.
Consumed == [cp EXCEPT !.col = IF Writing THEN 0 ELSE @,
                       !.from = @ + WrLen, !.n = @ - WrLen]

\* nand_copypage_withwrite / nand_copypage_withoutwrite.  They time out on the
\* source as well as on the destination, which takes the blame for both.
CopyPage ==
    /\ pc = "copy"
    /\ cp.page < PageNum
    /\ \/ /\ flash' = [flash EXCEPT ![cp.dst] = Copied(@)]
          /\ cp' = [Consumed EXCEPT !.page = @ + 1]
          /\ UNCHANGED pc
       \/ /\ \/ <<cp.src, cp.page>> \in chip.weak /\ UNCHANGED flash
             \/ /\ <<cp.dst, cp.page>> \in chip.weak
                /\ flash' \in {flash, [flash EXCEPT ![cp.dst] = Copied(@)]}
          /\ cp' = Consumed
          /\ pc' = "bad"
    /\ UNCHANGED <<chip, lut, valid, curblock, op, adm, cap, crashes>>

\* ftl_badblock_mark, ftl_create_lut(1), goto retry.
CopyBad ==
    /\ pc = "bad"
    /\ \E D \in SUBSET TagPages : flash' = [flash EXCEPT ![cp.dst] = BadMarked(@, cp.dst, D)]
    /\ ftl_create_lut(flash')
    /\ pc' = "find"
    /\ UNCHANGED <<chip, curblock, op, cp, adm, cap, crashes>>

\* All pages copied: ftl_used_blockmark, whose failure is passed over.
CopyUsed ==
    /\ pc = "copy"
    /\ cp.page = PageNum
    /\ \/ flash' = [flash EXCEPT ![cp.dst].used = TRUE]
       \/ cp.dst \in Silent /\ UNCHANGED flash
    /\ pc' = "erase"
    /\ UNCHANGED <<chip, lut, valid, curblock, op, cp, adm, cap, crashes>>

\* Seeded fault: the table keeps the source.
CopyEraseNoLut ==
    /\ pc = "erase"
    /\ flash' = [flash EXCEPT ![cp.src] = Erased]
    /\ \/ /\ op.kind = "write"
          /\ op' = [op EXCEPT !.i = @ + cp.take] /\ cp' = NoCp /\ pc' = "loop"
       \/ op.kind = "read" /\ pc' = "ones" /\ UNCHANGED <<op, cp>>
    /\ UNCHANGED <<chip, lut, valid, curblock, adm, cap, crashes>>

\* Seeded fault: the source is not erased.
CopyEraseNone ==
    /\ pc = "erase"
    /\ lut' = [l \in Blocks |-> IF lut[l] = cp.src THEN cp.dst ELSE lut[l]]
    /\ op' = [op EXCEPT !.i = @ + cp.take] /\ cp' = NoCp /\ pc' = "loop"
    /\ UNCHANGED <<chip, flash, valid, curblock, adm, cap, crashes>>

\* Then the source is erased, or is not, and its entry of the table replaced.
CopyErase ==
    /\ pc = "erase"
    /\ \E blk \in Erasing(cp.src) : flash' = [flash EXCEPT ![cp.src] = blk]
    /\ lut' = LET L == {l \in Blocks : lut[l] = cp.src}
              IN  [l \in Blocks |->
                      IF l \in L /\ (\A m \in L : l <= m) THEN cp.dst ELSE lut[l]]
    /\ \/ /\ op.kind = "write"
          /\ op' = [op EXCEPT !.i = @ + cp.take]
          /\ cp' = NoCp
          /\ pc' = "loop"
       \/ /\ op.kind = "read"
          /\ pc' = "ones"
          /\ UNCHANGED <<op, cp>>
    /\ UNCHANGED <<chip, valid, curblock, adm, cap, crashes>>

-----------------------------------------------------------------------------
(* ftl_read_sectors.                                                       *)

ReadCall(sec, cnt) ==
    /\ pc = "idle"
    /\ op' = [NoOp EXCEPT !.kind = "read", !.sec = sec, !.cnt = cnt]
    /\ pc' = "loop"
    /\ UNCHANGED <<chip, flash, lut, valid, curblock, cp, adm, cap, crashes>>

\* nand_readpage without error (or with an uncorrected one, which the layer
\* passes over).
ReadPage ==
    /\ pc = "loop" /\ op.kind = "read" /\ op.i < op.cnt /\ Pbn # None
    /\ op' = [op EXCEPT !.i = @ + InPage]
    /\ UNCHANGED <<chip, flash, lut, valid, curblock, pc, cp, adm, cap, crashes>>

\* One corrected bit, twice: the block moves, the corrected sectors with it.
ReadMove ==
    /\ pc = "loop" /\ op.kind = "read" /\ op.i < op.cnt /\ Pbn # None
    /\ <<Pbn, Page>> \in chip.ecc
    /\ cp' = [NoCp EXCEPT !.src = Pbn, !.off = Page, !.col = Col,
                !.buf = [k \in 0..InPage-1 |-> flash[Pbn].data[BlockOffset + k]],
                !.n = InPage, !.take = InPage]
    /\ pc' = "find"
    /\ UNCHANGED <<chip, flash, lut, valid, curblock, op, adm, cap, crashes>>

\* Seeded fault: the read goes on behind the block.
AdvanceBlock == op' = [op EXCEPT !.i = @ + BlkSec] /\ cp' = NoCp /\ pc' = "loop"

\* The read goes on behind the sectors of this page.
Advance == op' = [op EXCEPT !.i = @ + cp.take] /\ cp' = NoCp /\ pc' = "loop"

\* ftl_blockcompare: what it returns and the block it leaves, from three rounds of a
\* look at the first page (`equal` says it holds the value) and, when that fails, an
\* erase after which the block is one of `fresh`.  A look that times out sees what
\* was in k.
ftl_blockcompare(b, equal, fresh) ==
    LET blind == <<b, 0>> \in chip.weak
        again == ~equal \/ blind
        failed == again /\ b \in chip.worn
        passes == (IF equal \/ blind THEN {flash[b]} ELSE {})
                    \cup (IF again THEN fresh ELSE {})
        fails == (IF failed THEN {flash[b]} ELSE {})
                    \cup (IF failed \/ blind THEN fresh ELSE {})
    IN  ({0} \X passes) \cup ({1} \X fails)

\* ftl_blockcompare(source, 0xFFFFFFFF): a block that fails it is retired.
TestOnes ==
    /\ pc = "ones"
    /\ LET equal == \A k \in 0..SecPerPage-1 : flash[cp.src].data[k] = FF
       IN  \E r \in ftl_blockcompare(cp.src, equal, {Erased}) :
              /\ flash' = [flash EXCEPT ![cp.src] = r[2]]
              /\ pc' = IF r[1] = 0 THEN "zeros" ELSE "retire"
    /\ UNCHANGED <<chip, lut, valid, curblock, op, cp, adm, cap, crashes>>

\* A block erased and programmed with zeros; pages that time out may stay erased.
Zeroed(b) ==
    {[Erased EXCEPT !.data = [k \in 0..BlkSec-1 |->
                                IF k \div SecPerPage \in Q THEN FF ELSE Junk]] :
        Q \in SUBSET {p \in 0..PageNum-1 : <<b, p>> \in chip.weak}}

\* ftl_blockcompare(source, 0): the first page holds ones.
TestZeros ==
    /\ pc = "zeros"
    /\ \E r \in ftl_blockcompare(cp.src, FALSE, Zeroed(cp.src)) :
          /\ flash' = [flash EXCEPT ![cp.src] = r[2]]
          /\ pc' = IF r[1] = 0 THEN "wipe" ELSE "scrap"
    /\ UNCHANGED <<chip, lut, valid, curblock, op, cp, adm, cap, crashes>>

\* Seeded fault: the zeros of the test stay.
TestEraseSkip ==
    /\ pc \in {"wipe", "scrap"}
    /\ \/ pc = "wipe" /\ Advance
       \/ pc = "scrap" /\ pc' = "retire" /\ UNCHANGED <<op, cp>>
    /\ UNCHANGED <<chip, flash, lut, valid, curblock, adm, cap, crashes>>

\* The block is erased after the test, whatever that found, or is not erased; one
\* that failed is retired.
TestErase ==
    /\ pc \in {"wipe", "scrap"}
    /\ \E blk \in Erasing(cp.src) : flash' = [flash EXCEPT ![cp.src] = blk]
    /\ \/ pc = "wipe" /\ Advance
       \/ pc = "scrap" /\ pc' = "retire" /\ UNCHANGED <<op, cp>>
    /\ UNCHANGED <<chip, lut, valid, curblock, adm, cap, crashes>>

\* ftl_badblock_mark and ftl_create_lut(1).
Retire ==
    /\ pc = "retire"
    /\ \E D \in SUBSET TagPages : flash' = [flash EXCEPT ![cp.src] = BadMarked(@, cp.src, D)]
    /\ ftl_create_lut(flash')
    /\ Advance
    /\ UNCHANGED <<chip, curblock, adm, cap, crashes>>

-----------------------------------------------------------------------------
\* A host asks for sectors of the device, or one too many.
HostSectors == Firsts \cap 0..Least(valid * BlkSec, BlockTotal * BlkSec - 1)

Calls ==
    \E sec \in HostSectors, cnt \in 1..MaxCount :
        \/ ReadCall(sec, cnt)
        \/ \E buf \in [0..cnt-1 -> Data] : WriteCall(sec, buf)

\* The layer goes on with what it has begun.
Work ==
    \/ ftl_init
    \/ \E f \in FormatFaults : FormatFails(f) \/ \E k \in 0..BlockTotal : ftl_format(k, f)
    \/ Finished \/ Unmapped \/ TimesOut \/ WritePage \/ WriteMark \/ WriteMove
    \/ CopyFind \/ CopyPage \/ CopyBad \/ CopyUsed \/ CopyErase
    \/ ReadPage \/ ReadMove \/ TestOnes \/ TestZeros \/ TestErase \/ Retire

Next == Calls \/ Work \/ PowerFail

Spec == Init /\ [][Next]_vars /\ WF_vars(Work)

-----------------------------------------------------------------------------
(* What the host sees.                                                     *)

\* The device has its tables.
Up == pc \notin {"off", "format", "dead"}

\* The content of a sector the table leads to.
Home(x) == flash[lut[x \div BlkSec]].data[x % BlkSec]

\* The sectors of the request that are in their places: a page is written
\* before its block is marked.
Settled == op.i + (IF pc = "mark" THEN InPage ELSE 0)

Content == IF Up THEN [x \in 0..valid*BlkSec-1 |-> Home(x)] ELSE <<>>
Ask == [kind |-> op.kind, sec |-> op.sec, cnt |-> op.cnt, buf |-> op.buf]

Store == INSTANCE SectorStore WITH
    Size <- BlockTotal * BlkSec, Value <- Data, Erased <- FF,
    store <- Content, req <- Ask, done <- Settled

-----------------------------------------------------------------------------
(* Properties.                                                             *)

\* Types of the blocks, tables and locals.
TypeOK ==
    /\ flash \in [Blocks -> [bad0 : BOOLEAN, bad1 : BOOLEAN, used : BOOLEAN,
                             lbn : Blocks \cup {None}, data : [0..BlkSec-1 -> Cell]]]
    /\ lut \in [Blocks -> Blocks \cup {None}]
    /\ valid \in 0..BlockTotal
    /\ curblock \in 0..BlockTotal
    /\ pc \in {"off", "format", "dead", "idle", "loop", "mark", "find", "copy", "bad",
               "erase", "ones", "zeros", "wipe", "scrap", "retire"}
    /\ op.i \in 0..MaxCount /\ cp.n \in 0..MaxCount /\ cp.page \in 0..PageNum
    /\ adm \in [Sectors -> SUBSET Cell]
    /\ crashes \in 0..chip.cuts

\* Whenever no request is in progress and the tags answer, each valid logical number
\* leads to a good block that carries that number, so that no block serves two
\* numbers.
LutMatchesTags ==
    TagsAnswer /\ pc = "idle" =>
        \A l \in 0..valid-1 : lut[l] \in Blocks /\ flash[lut[l]].lbn = l /\ ~Marked(lut[l])

\* A device whose tags answer never loses a logical block: neither a power failure
\* in the middle of a copy, nor an erase that fails, nor a retired block shrinks it
\* or has it formatted again.
CapacityKept ==
    TagsAnswer => (pc = "idle" => valid = cap) /\ (pc = "format" => cap = 0)

\* No block is left behind: outside a request every logical number is on one
\* block only, so that the blocks to copy to do not run out.
NoLeakedBlock ==
    pc = "idle" =>
        \A b, c \in Blocks :
            flash[b].lbn # None /\ flash[b].lbn = flash[c].lbn => b = c

\* A block that passes for unused is erased, so that copying onto it stores what is
\* copied: while the tags answer, and where blocks are tested after a corrected read
\* also while power stays on and erases succeed.
UnusedIsErased ==
    TagsAnswer /\ (chip.ecc = {} \/ (crashes = 0 /\ chip.worn = {})) /\ pc = "idle" =>
        \A b \in Blocks : Unused(b) => flash[b].data = Erased.data

\* A sector reads back as the last value a successful request wrote to it (or a
\* request that failed at a later sector), as old or new where one failed, and as
\* erased before the first.
ReadBack ==
    pc = "idle" =>
        \A x \in 0..valid*BlkSec-1 : Home(x) \in adm[x]

\* While power is off, every logical block is complete on some good block, on a
\* chip whose pages and erases do not time out: the erase of the source comes after
\* the last page of the copy.
MediumKeepsData ==
    pc = "off" /\ cap > 0 /\ chip.weak = {} /\ chip.worn = {} =>
        \A l \in 0..cap-1 : \E b \in Blocks :
            /\ flash[b].lbn = l /\ ~Marked(b)
            /\ \A k \in 0..BlkSec-1 : flash[b].data[k] \in adm[l * BlkSec + k]

\* While pages answer, power stays on and corrected reads find free blocks, ftl.c
\* implements the sector store at every moment of a request: copies, marks, tests
\* and calls of ftl_init change nothing a host sees, a block's share of a write
\* comes with the new table entry, all at once, and no read of a sector the device
\* has is given up.
ImplementsSectors == Store!Spec

\* The first bad mark of a block that failed is lost.
MarkLost == CopyBad /\ ~flash'[cp.dst].bad0

\* Every request comes to an end, as the retry loop uses up a block each time,
\* unless the marks of failed blocks are lost for ever.
RequestEnds ==
    []<><<MarkLost>>_vars \/ [](pc \notin {"idle", "dead"} => <>(pc \in {"idle", "dead"}))

=============================================================================
