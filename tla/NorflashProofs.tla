--------------------------- MODULE NorflashProofs ---------------------------
(***************************************************************************)
(* norflash_write keeps the promise of ByteStore for every size of page    *)
(* and sector, every contents and every request, with the power failing at *)
(* any command.  On the way: a program command stays inside its page and   *)
(* finds it erased, and a sector is erased only when it must be.           *)
(***************************************************************************)
EXTENDS Norflash, TLAPS

Whole == SectorSize * Sectors

-----------------------------------------------------------------------------
(* Pages and sectors.                                                      *)

(* Division leaves one quotient and one remainder.                         *)
LEMMA DivMod ==
    ASSUME NEW d \in Nat \ {0}, NEW a \in Nat
    PROVE  a \div d \in Nat /\ a % d \in 0 .. d-1 /\ a = d * (a \div d) + (a % d)
OBVIOUS

LEMMA Unique ==
    ASSUME NEW d \in Nat \ {0}, NEW a \in Nat, NEW q \in Nat, NEW r \in 0 .. d-1,
           a = d * q + r
    PROVE  q = a \div d /\ r = a % d
<1> DEFINE p == a \div d
           m == a % d
<1>1. p \in Nat /\ m \in 0 .. d-1 /\ a = d * p + m
    BY DivMod
<1> HIDE DEF p, m
<1>2. ASSUME q < p PROVE FALSE
    <2>1. d * q + d <= d * p
        BY <1>1, <1>2
    <2> QED
        BY <2>1, <1>1
<1>3. ASSUME q > p PROVE FALSE
    <2>1. d * p + d <= d * q
        BY <1>1, <1>3
    <2> QED
        BY <2>1, <1>1
<1>4. q = p
    BY <1>1, <1>2, <1>3
<1>5. r = m
    BY <1>1, <1>4
<1> QED
    BY <1>4, <1>5 DEF p, m

(* Bytes up to the end of a page are in that page.                         *)
LEMMA InPage ==
    ASSUME NEW addr \in Nat, NEW i \in Nat, (addr % PageSize) + i < PageSize
    PROVE  /\ (addr + i) \div PageSize = addr \div PageSize
           /\ Target(addr, i) = addr + i
<1> DEFINE p == addr \div PageSize
           m == addr % PageSize
<1>0. PageSize \in Nat \ {0}
    BY NorflashAssumption
<1>1. p \in Nat /\ m \in 0 .. PageSize-1 /\ addr = PageSize * p + m /\ m + i < PageSize
    BY <1>0, DivMod
<1> HIDE DEF p, m
<1>2. addr + i \in Nat /\ m + i \in 0 .. PageSize-1 /\ addr + i = PageSize * p + (m + i)
    BY <1>0, <1>1
<1>3. p = (addr + i) \div PageSize /\ m + i = (addr + i) % PageSize
    BY <1>0, <1>1, <1>2, Unique
<1>4. Target(addr, i) = p * PageSize + (m + i)
    BY <1>3 DEF Target, p
<1>5. Target(addr, i) = addr + i
    BY <1>0, <1>1, <1>4
<1> QED
    BY <1>3, <1>5 DEF p

(* What follows the rest of a page is a page.                              *)
LEMMA NextBegins ==
    ASSUME NEW addr \in Nat, NEW n \in Nat, (addr % PageSize) + n = PageSize
    PROVE  (addr + n) % PageSize = 0
<1> DEFINE p == addr \div PageSize
           m == addr % PageSize
<1>0. PageSize \in Nat \ {0}
    BY NorflashAssumption
<1>1. p \in Nat /\ m \in 0 .. PageSize-1 /\ addr = PageSize * p + m /\ m + n = PageSize
    BY <1>0, DivMod
<1> HIDE DEF p, m
<1>2. addr + n = PageSize * (p + 1) + 0 /\ addr + n \in Nat /\ p + 1 \in Nat
    BY <1>0, <1>1
<1>3. 0 \in 0 .. PageSize-1
    BY <1>0
<1>4. 0 = (addr + n) % PageSize
    BY <1>0, <1>2, <1>3, Unique
<1> QED
    BY <1>4

LEMMA Sizes ==
    /\ SectorSize \in Nat \ {0} /\ Sectors \in Nat \ {0} /\ PageSize \in Nat \ {0}
    /\ Whole \in Nat /\ Address = 0 .. Whole - 1 /\ Sectors <= Whole
<1>1. SectorSize \in Nat \ {0}
    BY NorflashAssumption DEF SectorSize
<1>2. Sectors \in Nat \ {0} /\ PageSize \in Nat \ {0}
    BY NorflashAssumption
<1>3. Whole \in Nat /\ Sectors <= Whole
    <2>1. 1 * Sectors <= SectorSize * Sectors /\ SectorSize * Sectors \in Nat
        BY <1>1, <1>2
    <2> QED
        BY <2>1, <1>2 DEF Whole
<1> QED
    BY <1>1, <1>2, <1>3 DEF Address, Whole

(* Where a sector lies.                                                    *)
LEMMA SectorLies ==
    ASSUME NEW s \in 0 .. Sectors-1
    PROVE  /\ s * SectorSize \in Nat
           /\ s * SectorSize + SectorSize <= Whole
           /\ (s + 1) * SectorSize = s * SectorSize + SectorSize
           /\ Sector(s) = s * SectorSize .. s * SectorSize + SectorSize - 1
           /\ Sector(s) \subseteq Address
<1>1. s * SectorSize \in Nat /\ (s + 1) * SectorSize = s * SectorSize + SectorSize
    BY Sizes
<1>2. s * SectorSize + SectorSize <= Whole
    <2>1. SectorSize * (s + 1) <= SectorSize * Sectors
        BY Sizes
    <2> QED
        BY <2>1, <1>1, Sizes DEF Whole
<1>3. Sector(s) = s * SectorSize .. s * SectorSize + SectorSize - 1
    BY <1>1, Sizes, SMT DEF Sector
<1> QED
    BY <1>1, <1>2, <1>3, Sizes

(* The sector of an address, and its place there.                          *)
LEMMA SectorOf ==
    ASSUME NEW a \in Address
    PROVE  /\ a \div SectorSize \in 0 .. Sectors-1 /\ a % SectorSize \in 0 .. SectorSize-1
           /\ a = (a \div SectorSize) * SectorSize + (a % SectorSize)
<1> DEFINE s == a \div SectorSize
           o == a % SectorSize
<1>0. a \in Nat
    BY Sizes
<1>1. s \in Nat /\ o \in 0 .. SectorSize-1 /\ a = SectorSize * s + o
    BY <1>0, Sizes, DivMod
<1> HIDE DEF s, o
<1>2. ASSUME s >= Sectors PROVE FALSE
    <2>1. SectorSize * s >= SectorSize * Sectors
        BY <1>1, <1>2, Sizes
    <2> QED
        BY <2>1, <1>1, Sizes DEF Whole
<1>3. s \in 0 .. Sectors-1 /\ a = s * SectorSize + o
    BY <1>1, <1>2, Sizes
<1> QED
    BY <1>1, <1>3 DEF s, o

(* Sectors below and above.                                                *)
LEMMA Apart ==
    ASSUME NEW a \in Address, NEW s \in 0 .. Sectors-1
    PROVE  /\ a \div SectorSize < s => a < s * SectorSize
           /\ a \div SectorSize > s => a >= s * SectorSize + SectorSize
<1> DEFINE t == a \div SectorSize
           o == a % SectorSize
<1>1. t \in 0 .. Sectors-1 /\ o \in 0 .. SectorSize-1 /\ a = t * SectorSize + o
    BY SectorOf
<1> HIDE DEF t, o
<1>2. ASSUME t < s PROVE a < s * SectorSize
    <2>1. t * SectorSize + SectorSize <= s * SectorSize
        BY <1>1, <1>2, Sizes
    <2> QED
        BY <2>1, <1>1, Sizes
<1>3. ASSUME t > s PROVE a >= s * SectorSize + SectorSize
    <2>1. s * SectorSize + SectorSize <= t * SectorSize
        BY <1>1, <1>3, Sizes
    <2> QED
        BY <2>1, <1>1, Sizes
<1> QED
    BY <1>2, <1>3 DEF t

-----------------------------------------------------------------------------
(* The invariant.                                                          *)

\* The contents the call in progress is to leave.
After == [a \in Address |->
    IF a \in req.addr .. req.addr + req.n - 1 THEN req.data[a - req.addr] ELSE old[a]]

\* sec is the sector at work: the call is carried out up to sec.addr.
SecInv == pc \in Busy =>
    /\ req \in Requests
    /\ sec.from \in Nat /\ sec.len \in Nat /\ sec.addr = req.addr + sec.from
    /\ sec.secoff \in 0 .. SectorSize-1
    /\ sec.addr = sec.secpos * SectorSize + sec.secoff
    /\ sec.remain = AtMost(sec.len, SectorSize - sec.secoff)

\* Before the sector is written, nothing from sec.addr on has changed.
ReadInv == pc \in {"read", "erase"} =>
    \A a \in Address : flash[a] = IF a < sec.addr THEN After[a] ELSE old[a]

\* A sector about to be erased is in the buffer, and has to be erased.
EraseInv == pc = "erase" =>
    /\ \A i \in 0 .. SectorSize-1 : buf[i] = flash[sec.secpos * SectorSize + i]
    /\ \E i \in 0 .. sec.remain-1 : old[sec.addr + i] # Erased

\* The byte at j of the source of norflash_write_nocheck.
Src(j) == IF page.src = "buf" THEN buf[j] ELSE req.data[j]

\* page is what is left of norflash_write_nocheck: before it the chip is as it is
\* to be, under it erased, behind it as it was; and the source is what is to be.
PageInv == pc = "program" =>
    /\ page.addr \in Nat /\ page.len \in Nat /\ page.from \in Nat
    /\ page.remain = AtMost(page.len, PageSize - (page.addr % PageSize))
    /\ page.addr >= sec.secpos * SectorSize
    /\ page.addr + page.len \in {sec.addr + sec.remain, sec.secpos * SectorSize + SectorSize}
    /\ \A a \in Address :
        /\ a < page.addr => flash[a] = After[a]
        /\ a \in page.addr .. page.addr + page.len - 1 => flash[a] = Erased
        /\ a >= page.addr + page.len => flash[a] = old[a]
    /\ \A i \in 0 .. page.len-1 : Src(page.from + i) = After[page.addr + i]

\* No sector from the one at work on has been erased; it itself only if it is
\* being programmed.
WearInv ==
    /\ pc \in {"read", "erase"} => \A s \in DOMAIN worn : s >= sec.secpos => worn[s] = 0
    /\ pc = "program" => \A s \in DOMAIN worn : s > sec.secpos => worn[s] = 0

FlashInv == TypeOK /\ SecInv /\ ReadInv /\ EraseInv /\ PageInv /\ WearInv /\ WornByNeed

-----------------------------------------------------------------------------
(* The steps.                                                              *)

(* What a request asks for stays on the chip.                              *)
LEMMA Request ==
    ASSUME req \in Requests, old \in [Address -> Byte]
    PROVE  /\ req.addr \in Nat /\ req.n \in Nat /\ req.addr + req.n <= Whole
           /\ req.addr \in Address
           /\ req.data \in [0 .. req.n - 1 -> Byte]
           /\ After \in [Address -> Byte]
<1>1. /\ req.addr \in Address /\ req.n \in Nat /\ req.addr + req.n <= Whole
      /\ req.data \in [0 .. req.n - 1 -> Byte]
    BY NorflashAssumption DEF Whole
<1>2. req.addr \in Nat
    BY <1>1, Sizes
<1>3. ASSUME NEW a \in Address PROVE After[a] \in Byte
    <2>1. CASE a \in req.addr .. req.addr + req.n - 1
        <3>1. a - req.addr \in 0 .. req.n - 1
            BY <2>1, <1>1, <1>2, Sizes
        <3> QED
            BY <3>1, <2>1, <1>1 DEF After
    <2>2. CASE a \notin req.addr .. req.addr + req.n - 1
        BY <2>2 DEF After
    <2> QED
        BY <2>1, <2>2
<1> QED
    BY <1>1, <1>2, <1>3 DEF After

LEMMA AfterAt ==
    ASSUME NEW a \in Address, a \in req.addr .. req.addr + req.n - 1,
           NEW k, a - req.addr = k
    PROVE  After[a] = req.data[k]
BY DEF After

(* The call in progress lies in its sector and on the chip.                *)
LEMMA AtWork ==
    ASSUME TypeOK, SecInv, pc \in Busy
    PROVE  /\ sec.secpos * SectorSize \in Nat /\ sec.addr \in Nat /\ sec.remain \in Nat
           /\ sec.len \in Nat /\ sec.remain <= sec.len
           /\ sec.addr >= sec.secpos * SectorSize
           /\ sec.addr + sec.remain <= sec.secpos * SectorSize + SectorSize
           /\ sec.addr + sec.remain <= Whole /\ sec.addr + sec.len = req.addr + req.n
           /\ sec.remain # sec.len =>
                  sec.addr + sec.remain = sec.secpos * SectorSize + SectorSize
<1> DEFINE base == sec.secpos * SectorSize
<1>1. sec.secpos \in 0 .. Sectors-1 /\ sec.from + sec.len = req.n
    BY DEF TypeOK
<1>2. base \in Nat /\ base + SectorSize <= Whole
    BY <1>1, SectorLies
<1>3. req.addr \in Nat /\ req.n \in Nat
    BY Request DEF SecInv, TypeOK
<1>4. /\ sec.from \in Nat /\ sec.len \in Nat /\ sec.addr = req.addr + sec.from
      /\ sec.secoff \in 0 .. SectorSize-1
      /\ sec.addr = base + sec.secoff
      /\ sec.remain = IF sec.len <= SectorSize - sec.secoff
                      THEN sec.len ELSE SectorSize - sec.secoff
    BY DEF SecInv, AtMost
<1> HIDE DEF base
<1>5. sec.remain \in Nat /\ sec.remain <= sec.len /\ sec.remain <= SectorSize - sec.secoff
      /\ (sec.remain # sec.len => sec.remain = SectorSize - sec.secoff)
    BY <1>4, Sizes
<1>6. sec.addr + sec.len = req.addr + req.n
    BY <1>1, <1>3, <1>4
<1>7. /\ base \in Nat /\ sec.addr \in Nat /\ sec.addr >= base
      /\ sec.addr + sec.remain <= base + SectorSize
      /\ sec.addr + sec.remain <= Whole
      /\ sec.remain # sec.len => sec.addr + sec.remain = base + SectorSize
    BY <1>2, <1>3, <1>4, <1>5, Sizes
<1> QED
    BY <1>4, <1>5, <1>6, <1>7 DEF base

(* A call.                                                                 *)
LEMMA CallKeeps ==
    ASSUME FlashInv, NEW r \in Requests, norflash_write(r)
    PROVE  FlashInv'
<1> USE DEF norflash_write
<1>1. r.addr \in Address /\ r.addr \in Nat /\ r.n \in Nat
    BY NorflashAssumption, Sizes
<1>2. /\ r.addr \div SectorSize \in 0 .. Sectors-1 /\ r.addr % SectorSize \in 0 .. SectorSize-1
      /\ r.addr = (r.addr \div SectorSize) * SectorSize + (r.addr % SectorSize)
    BY <1>1, SectorOf
<1>3. /\ sec'.secpos = r.addr \div SectorSize /\ sec'.secoff = r.addr % SectorSize
      /\ sec'.remain = AtMost(r.n, SectorSize - (r.addr % SectorSize))
      /\ sec'.from = 0 /\ sec'.addr = r.addr /\ sec'.len = r.n
    OBVIOUS
<1>4. sec'.secoff + sec'.remain <= SectorSize
    <2> DEFINE o == r.addr % SectorSize
    <2>1. o \in 0 .. SectorSize-1
        BY <1>2
    <2>2. sec'.secoff = o /\ sec'.remain = AtMost(r.n, SectorSize - o)
        BY <1>3
    <2> HIDE DEF o, norflash_write
    <2> QED
        BY <1>1, <2>1, <2>2, Sizes DEF AtMost
<1>5. TypeOK'
    BY <1>1, <1>2, <1>3, <1>4, NorflashAssumption DEF FlashInv, TypeOK, NoWear, Busy
<1>6. SecInv'
    BY <1>1, <1>2, <1>3 DEF SecInv
<1>7. ReadInv'
    BY <1>1, <1>3, Sizes DEF ReadInv, After
<1>8. EraseInv' /\ PageInv'
    BY DEF EraseInv, PageInv
<1>9. WearInv' /\ WornByNeed'
    BY DEF WearInv, WornByNeed, NoWear
<1> QED
    BY <1>5, <1>6, <1>7, <1>8, <1>9 DEF FlashInv

(* The sector is read.  When all bytes to be written are erased, they are  *)
(* programmed from the request.                                            *)
LEMMA ReadKeeps ==
    ASSUME FlashInv, ReadSector
    PROVE  FlashInv'
<1> USE DEF ReadSector
<1> DEFINE base == sec.secpos * SectorSize
<1>0. pc = "read" /\ pc \in Busy /\ sec' = sec /\ req' = req /\ flash' = flash /\ old' = old
      /\ worn' = worn /\ calls' = calls
    BY DEF Busy
<1>1. /\ base \in Nat /\ sec.addr \in Nat /\ sec.remain \in Nat /\ sec.remain <= sec.len
      /\ sec.addr >= base /\ sec.addr + sec.remain <= base + SectorSize
      /\ sec.addr + sec.remain <= Whole
    BY <1>0, AtWork DEF FlashInv
<1>2. /\ sec.secoff \in 0 .. SectorSize-1 /\ sec.addr = base + sec.secoff
      /\ req \in Requests /\ sec.from \in Nat /\ sec.addr = req.addr + sec.from
      /\ sec.from + sec.len = req.n /\ sec.len \in Nat /\ sec.secpos \in 0 .. Sectors-1
    BY <1>0 DEF FlashInv, SecInv, TypeOK
<1>3. base + SectorSize <= Whole
    BY <1>2, SectorLies
<1>4. req.addr \in Nat /\ req.n \in Nat
    BY <1>2, Request DEF FlashInv, TypeOK
<1>5. After' = After
    BY <1>0 DEF After
<1>6. \A i \in 0 .. SectorSize-1 : buf'[i] = flash[base + i]
    BY DEF norflash_read
<1>7. buf' \in [0 .. SectorSize-1 -> Byte]
    <2>1. \A i \in 0 .. SectorSize-1 : base + i \in Address
        <3> HIDE DEF base
        <3> QED
            BY <1>1, <1>3, Sizes
    <2> QED
        BY <2>1 DEF norflash_read, FlashInv, TypeOK
<1>8. \A a \in Address : flash[a] = IF a < sec.addr THEN After[a] ELSE old[a]
    BY <1>0 DEF FlashInv, ReadInv
<1>9. \A i \in 0 .. sec.remain-1 :
          /\ sec.secoff + i \in 0 .. SectorSize-1
          /\ sec.addr + i = base + (sec.secoff + i)
          /\ sec.addr + i \in Address
    <2> HIDE DEF base, ReadSector
    <2>1. sec.secoff + sec.remain <= SectorSize
        BY <1>1, <1>2, Sizes
    <2>2. ASSUME NEW i \in 0 .. sec.remain-1
          PROVE  /\ sec.secoff + i \in 0 .. SectorSize-1
                 /\ sec.addr + i = base + (sec.secoff + i)
                 /\ sec.addr + i \in Address
        <3>1. i \in Nat /\ i < sec.remain /\ sec.secoff \in Nat
            BY <1>1, <1>2
        <3>2. sec.secoff + i \in 0 .. SectorSize-1
            BY <2>1, <3>1, <1>1, Sizes
        <3>3. sec.addr + i = base + (sec.secoff + i)
            BY <1>1, <1>2, <3>1
        <3>4. sec.addr + i \in Address
            BY <1>1, <3>1, Sizes
        <3> QED
            BY <3>2, <3>3, <3>4
    <2> QED
        BY <2>2
<1>10. \A i \in 0 .. sec.remain-1 : buf'[sec.secoff + i] = old[sec.addr + i]
    BY <1>1, <1>6, <1>8, <1>9
<1>11. CASE HasToErase(buf') /\ pc' = "erase" /\ page' = page
    <2>1. TypeOK'
        BY <1>0, <1>7, <1>11 DEF FlashInv, TypeOK, Busy
    <2>2. SecInv'
        BY <1>0, <1>11 DEF FlashInv, SecInv
    <2>3. ReadInv'
        BY <1>0, <1>5, <1>8 DEF ReadInv
    <2>4. EraseInv'
        BY <1>0, <1>6, <1>10, <1>11 DEF EraseInv, HasToErase
    <2>5. PageInv'
        BY <1>11 DEF PageInv
    <2>6. WearInv' /\ WornByNeed'
        BY <1>0, <1>11 DEF FlashInv, WearInv, WornByNeed
    <2> QED
        BY <2>1, <2>2, <2>3, <2>4, <2>5, <2>6 DEF FlashInv
<1>12. CASE /\ ~HasToErase(buf') /\ pc' = "program"
            /\ page' = NoCheck("pbuf", sec.from, sec.addr, sec.remain)
    <2>0. /\ page'.src = "pbuf" /\ page'.from = sec.from /\ page'.addr = sec.addr
          /\ page'.len = sec.remain
          /\ page'.remain = AtMost(sec.remain, PageSize - (sec.addr % PageSize))
        BY <1>12 DEF NoCheck
    <2>1. page'.remain <= page'.len
        <3>1. sec.addr % PageSize \in 0 .. PageSize-1
            BY <1>1, Sizes, DivMod
        <3> QED
            BY <1>1, <2>0, <3>1, Sizes DEF AtMost
    <2>2. TypeOK'
        BY <1>0, <1>7, <1>12, <2>1 DEF FlashInv, TypeOK, Busy
    <2>3. SecInv'
        BY <1>0, <1>12 DEF FlashInv, SecInv
    <2>4. ReadInv' /\ EraseInv'
        BY <1>12 DEF ReadInv, EraseInv
    <2>5. \A i \in 0 .. sec.remain-1 : old[sec.addr + i] = Erased
        BY <1>10, <1>12 DEF HasToErase
    <2>6. ASSUME NEW a \in Address
          PROVE  /\ a < page'.addr => flash'[a] = After'[a]
                 /\ a \in page'.addr .. page'.addr + page'.len - 1 => flash'[a] = Erased
                 /\ a >= page'.addr + page'.len => flash'[a] = old'[a]
        <3>1. a \in Nat
            BY Sizes
        <3>2. CASE a < sec.addr
            BY <3>1, <3>2, <2>0, <1>0, <1>1, <1>5, <1>8
        <3>3. CASE a >= sec.addr
            <4>1. flash[a] = old[a]
                BY <1>1, <1>8, <3>1, <3>3
            <4>2. ASSUME a \in sec.addr .. sec.addr + sec.remain - 1 PROVE old[a] = Erased
                <5>1. a - sec.addr \in 0 .. sec.remain-1 /\ sec.addr + (a - sec.addr) = a
                    BY <1>1, <3>1, <4>2
                <5> QED
                    BY <5>1, <2>5
            <4> QED
                BY <4>1, <4>2, <1>0, <1>1, <2>0, <3>1, <3>3
        <3> QED
            BY <1>1, <3>1, <3>2, <3>3
    <2>7. ASSUME NEW i \in 0 .. page'.len - 1
          PROVE  Src(page.from + i)' = After'[page'.addr + i]
        <3>1. i \in 0 .. sec.remain-1
            BY <2>0
        <3>2. Src(page.from + i)' = req.data[sec.from + i]
            BY <1>0, <2>0 DEF Src
        <3>3. sec.addr + i \in req.addr .. req.addr + req.n - 1 /\ sec.addr + i \in Address
              /\ (sec.addr + i) - req.addr = sec.from + i
            BY <1>1, <1>2, <1>4, <1>9, <3>1
        <3>4. After[sec.addr + i] = req.data[sec.from + i]
            BY <3>3, AfterAt, Zenon
        <3> QED
            BY <3>2, <3>4, <1>5, <2>0
    <2>8. PageInv'
        BY <2>0, <2>6, <2>7, <1>0, <1>1, <1>2 DEF PageInv
    <2>9. WearInv' /\ WornByNeed'
        <3>1. \A s \in DOMAIN worn : s >= sec.secpos => worn[s] = 0
            BY <1>0 DEF FlashInv, WearInv
        <3>2. DOMAIN worn = 0 .. Sectors-1
            BY DEF FlashInv, TypeOK
        <3> QED
            BY <3>1, <3>2, <1>0, <1>2, <1>12 DEF FlashInv, WearInv, WornByNeed
    <2> QED
        BY <2>2, <2>3, <2>4, <2>8, <2>9 DEF FlashInv
<1> QED
    BY <1>11, <1>12

(* The sector is erased, and what is to be in it stands in the buffer.     *)
LEMMA EraseKeeps ==
    ASSUME FlashInv, norflash_erase_sector
    PROVE  FlashInv'
<1> DEFINE base == sec.secpos * SectorSize
<1>0. /\ pc = "erase" /\ pc \in Busy /\ pc' = "program"
      /\ flash' = SectorErased(sec.secpos, AllOnes)
      /\ worn' = [worn EXCEPT ![sec.secpos] = @ + 1]
      /\ buf' = Merged
      /\ page' = NoCheck("buf", 0, base, SectorSize)
      /\ sec' = sec /\ req' = req /\ old' = old /\ calls' = calls
    BY DEF Busy, norflash_erase_sector
<1>1. /\ base \in Nat /\ sec.addr \in Nat /\ sec.remain \in Nat /\ sec.remain <= sec.len
      /\ sec.addr >= base /\ sec.addr + sec.remain <= base + SectorSize
      /\ sec.addr + sec.remain <= Whole /\ sec.addr + sec.len = req.addr + req.n
      /\ sec.remain # sec.len => sec.addr + sec.remain = base + SectorSize
    BY <1>0, AtWork DEF FlashInv
<1>2. /\ sec.secoff \in 0 .. SectorSize-1 /\ sec.addr = base + sec.secoff
      /\ req \in Requests /\ sec.from \in Nat /\ sec.addr = req.addr + sec.from
      /\ sec.from + sec.len = req.n /\ sec.len \in Nat /\ sec.secpos \in 0 .. Sectors-1
    BY <1>0 DEF FlashInv, SecInv, TypeOK
<1>3. /\ base + SectorSize <= Whole
      /\ Sector(sec.secpos) = base .. base + SectorSize - 1
    BY <1>2, SectorLies
<1>4. req.addr \in Nat /\ req.n \in Nat /\ After \in [Address -> Byte]
    BY <1>2, Request DEF FlashInv, TypeOK
<1>5. After' = After
    BY <1>0 DEF After
<1>6. /\ \A i \in 0 .. SectorSize-1 : buf[i] = flash[base + i]
      /\ \E i \in 0 .. sec.remain-1 : old[sec.addr + i] # Erased
    BY <1>0 DEF FlashInv, EraseInv
<1>7. \A a \in Address : flash[a] = IF a < sec.addr THEN After[a] ELSE old[a]
    BY <1>0 DEF FlashInv, ReadInv
<1>8. ASSUME NEW a \in Address
      PROVE  /\ a \in base .. base + SectorSize - 1 => flash'[a] = Erased
             /\ a \notin base .. base + SectorSize - 1 => flash'[a] = flash[a]
    <2>1. a % SectorSize \in 0 .. SectorSize-1
        BY SectorOf
    <2>2. AllOnes[a % SectorSize] = Erased
        BY <2>1 DEF AllOnes
    <2>3. flash'[a] = IF a \in Sector(sec.secpos) THEN AllOnes[a % SectorSize] ELSE flash[a]
        BY <1>0 DEF SectorErased
    <2> QED
        BY <2>2, <2>3, <1>3
<1>9. flash' \in [Address -> Byte]
    <2>1. \A a \in Address : flash'[a] \in Byte
        BY <1>8 DEF FlashInv, TypeOK, Erased, Byte
    <2>2. flash' = [a \in Address |-> flash'[a]]
        BY <1>0 DEF SectorErased
    <2> QED
        BY <2>1, <2>2
<1>10. \A i \in 0 .. SectorSize-1 : base + i \in Address /\ base + i \in Nat
    <2> HIDE DEF base
    <2> QED
        BY <1>1, <1>3, Sizes
<1>11. ASSUME NEW i \in 0 .. SectorSize-1
       PROVE  Merged[i] = After[base + i]
    <2> DEFINE a == base + i
    <2>0. a \in Address /\ a \in Nat /\ i \in Nat
        BY <1>10
    <2>00. sec.secoff \in Nat /\ sec.remain \in Nat
        BY <1>1, <1>2, Sizes
    <2>1. CASE i \in sec.secoff .. sec.secoff + sec.remain - 1
        <3>1. Merged[i] = req.data[sec.from + i - sec.secoff]
            BY <2>1 DEF Merged
        <3>2. a \in req.addr .. req.addr + req.n - 1 /\ a - req.addr = sec.from + i - sec.secoff
            <4>1. i >= sec.secoff /\ i < sec.secoff + sec.remain /\ sec.secoff \in Nat
                BY <2>00, <2>0, <2>1
            <4> HIDE DEF base
            <4> QED
                BY <1>1, <1>2, <1>4, <2>0, <4>1
        <3>3. After[a] = req.data[sec.from + i - sec.secoff]
            BY <2>0, <3>2, AfterAt, Zenon
        <3> QED
            BY <3>1, <3>3
    <2>2. CASE i \notin sec.secoff .. sec.secoff + sec.remain - 1
        <3>1. Merged[i] = flash[a]
            BY <1>6, <2>2 DEF Merged
        <3>2. CASE i < sec.secoff
            <4>1. a < sec.addr
                BY <1>1, <1>2, <2>0, <3>2
            <4> QED
                BY <1>7, <2>0, <3>1, <4>1
        <3>3. CASE i >= sec.secoff
            <4>1. i >= sec.secoff + sec.remain /\ sec.secoff \in Nat
                BY <2>00, <2>0, <2>2, <3>3
            <4>2. ~(a < sec.addr) /\ a >= sec.addr + sec.remain
                BY <1>1, <1>2, <2>0, <3>3, <4>1
            <4>3. sec.remain = sec.len
                <5> HIDE DEF base
                <5>1. a < base + SectorSize
                    BY <1>1, <2>0, Sizes DEF a
                <5> QED
                    BY <1>1, <2>0, <4>2, <5>1, Sizes
            <4>4. a >= req.addr + req.n
                BY <1>1, <4>2, <4>3
            <4>5. a \notin req.addr .. req.addr + req.n - 1
                BY <1>4, <2>0, <4>4
            <4> QED
                BY <1>7, <2>0, <3>1, <4>2, <4>5 DEF After
        <3> QED
            BY <1>2, <2>0, <3>2, <3>3, Sizes
    <2> QED
        BY <2>1, <2>2
<1>12. buf' \in [0 .. SectorSize-1 -> Byte]
    BY <1>0, <1>4, <1>10, <1>11 DEF Merged
<1>13. /\ page'.src = "buf" /\ page'.from = 0 /\ page'.addr = base /\ page'.len = SectorSize
       /\ page'.remain = AtMost(SectorSize, PageSize - (base % PageSize))
    BY <1>0 DEF NoCheck
<1>14. page'.remain <= page'.len
    <2>1. base % PageSize \in 0 .. PageSize-1
        BY <1>1, Sizes, DivMod
    <2> QED
        BY <1>13, <2>1, Sizes DEF AtMost
<1>15. worn \in [0 .. Sectors-1 -> Nat] /\ worn[sec.secpos] = 0
       /\ \A s \in 0 .. Sectors-1 : s >= sec.secpos => worn[s] = 0
    BY <1>0, <1>2 DEF FlashInv, TypeOK, WearInv
<1>16. TypeOK'
    BY <1>0, <1>9, <1>12, <1>14, <1>15, <1>2 DEF FlashInv, TypeOK, Busy
<1>17. SecInv' /\ ReadInv' /\ EraseInv'
    BY <1>0 DEF FlashInv, SecInv, ReadInv, EraseInv
<1>18. PageInv'
    <2>1. ASSUME NEW a \in Address
          PROVE  /\ a < page'.addr => flash'[a] = After'[a]
                 /\ a \in page'.addr .. page'.addr + page'.len - 1 => flash'[a] = Erased
                 /\ a >= page'.addr + page'.len => flash'[a] = old'[a]
        <3>0. a \in Nat
            BY Sizes
        <3>1. a < base => a < sec.addr /\ a \notin base .. base + SectorSize - 1
            BY <1>1, <3>0
        <3>2. a >= base + SectorSize => ~(a < sec.addr) /\ a \notin base .. base + SectorSize - 1
            <4> HIDE DEF base
            <4> QED
                BY <1>1, <1>2, <3>0, Sizes
        <3> QED
            BY <1>0, <1>5, <1>7, <1>8, <1>13, <3>1, <3>2
    <2>2. ASSUME NEW i \in 0 .. page'.len - 1
          PROVE  Src(page.from + i)' = After'[page'.addr + i]
        <3>1. i \in 0 .. SectorSize-1 /\ 0 + i = i
            BY <1>13, Sizes
        <3>2. Src(page.from + i)' = Merged[i]
            BY <1>0, <1>13, <3>1 DEF Src
        <3> QED
            BY <1>5, <1>11, <1>13, <3>1, <3>2
    <2> QED
        BY <1>0, <1>1, <1>13, <2>1, <2>2, Sizes DEF PageInv
<1>19. WearInv'
    BY <1>0, <1>2, <1>15 DEF WearInv
<1>20. WornByNeed'
    <2>1. PICK i \in 0 .. sec.remain-1 : old[sec.addr + i] # Erased
        BY <1>6
    <2> DEFINE a == sec.addr + i
    <2>2. a \in base .. base + SectorSize - 1 /\ a \in req.addr .. req.addr + req.n - 1
        <3>1. i \in Nat /\ i < sec.remain
            BY <1>1
        <3> HIDE DEF base
        <3>2. a >= base /\ a < base + SectorSize /\ a \in Nat
            BY <1>1, <3>1, Sizes
        <3>3. a >= req.addr /\ a < req.addr + req.n
            BY <1>1, <1>2, <1>4, <3>1
        <3>4. base \in Nat /\ SectorSize \in Nat /\ req.addr \in Nat /\ req.n \in Nat
            BY <1>1, <1>4, Sizes
        <3> HIDE DEF a
        <3> QED
            BY <3>2, <3>3, <3>4
    <2>3. \E x \in Sector(sec.secpos) \cap req.addr .. req.addr + req.n - 1 : old[x] # Erased
        BY <2>1, <2>2, <1>3
    <2>4. worn'[sec.secpos] = 1 /\ \A s \in DOMAIN worn : s # sec.secpos => worn'[s] = worn[s]
        BY <1>0, <1>2, <1>15
    <2>5. DOMAIN worn' = DOMAIN worn
        BY <1>0
    <2> QED
        BY <1>0, <2>3, <2>4, <2>5 DEF FlashInv, WornByNeed, Sector
<1> QED
    BY <1>16, <1>17, <1>18, <1>19, <1>20 DEF FlashInv

(* What is left of norflash_write_nocheck, and the page it goes to next.   *)
LEMMA AtPage ==
    ASSUME TypeOK, SecInv, PageInv, pc = "program"
    PROVE  /\ page.addr \in Nat /\ page.len \in Nat /\ page.from \in Nat /\ page.remain \in Nat
           /\ page.remain <= page.len /\ (page.addr % PageSize) + page.remain <= PageSize
           /\ page.remain # page.len => (page.addr % PageSize) + page.remain = PageSize
           /\ page.addr + page.len <= Whole
           /\ page.addr + page.len >= sec.addr + sec.remain
           /\ page.addr + page.len <= sec.secpos * SectorSize + SectorSize
           /\ DOMAIN Source = 0 .. page.remain-1
           /\ \A i \in 0 .. page.remain-1 : Source[i] = Src(page.from + i)
<1> DEFINE m == page.addr % PageSize
<1>0. pc \in Busy
    BY DEF Busy
<1>1. page.addr \in Nat /\ page.len \in Nat /\ page.from \in Nat
      /\ page.remain = AtMost(page.len, PageSize - m)
      /\ page.addr + page.len \in {sec.addr + sec.remain, sec.secpos * SectorSize + SectorSize}
    BY Zenon DEF PageInv
<1>2. m \in 0 .. PageSize-1
    BY <1>1, Sizes, DivMod
<1>3. /\ page.remain \in Nat /\ page.remain <= page.len /\ m + page.remain <= PageSize
      /\ page.remain # page.len => m + page.remain = PageSize
    <2> HIDE DEF m
    <2>1. page.remain = IF page.len <= PageSize - m THEN page.len ELSE PageSize - m
        BY <1>1 DEF AtMost
    <2>2. PageSize - m \in Nat /\ m \in Nat
        BY <1>2, Sizes
    <2>3. page.remain = page.len \/ page.remain = PageSize - m
        BY <2>1
    <2>4. page.remain <= page.len /\ page.remain <= PageSize - m /\ page.remain \in Nat
        BY <1>1, <2>1, <2>2
    <2> QED
        BY <1>1, <1>2, <2>2, <2>3, <2>4, Sizes
<1>4. sec.secpos * SectorSize + SectorSize <= Whole
    BY SectorLies DEF TypeOK
<1>5. /\ page.addr + page.len <= Whole /\ page.addr + page.len >= sec.addr + sec.remain
      /\ page.addr + page.len <= sec.secpos * SectorSize + SectorSize
    <2> DEFINE e == page.addr + page.len
               f == sec.addr + sec.remain
               g == sec.secpos * SectorSize + SectorSize
    <2>1. g <= Whole /\ Whole \in Nat
        BY <1>4, Sizes
    <2>2. f <= g /\ f \in Nat /\ g \in Nat
        BY <1>0, AtWork, Sizes
    <2>3. e = f \/ e = g
        BY <1>1
    <2> HIDE DEF e, f, g
    <2>4. e <= Whole /\ e >= f /\ e <= g
        BY <2>1, <2>2, <2>3
    <2> QED
        BY <2>4 DEF e, f, g
<1>6. DOMAIN Source = 0 .. page.remain-1
      /\ \A i \in 0 .. page.remain-1 : Source[i] = Src(page.from + i)
    BY DEF Source, Src
<1> QED
    BY <1>1, <1>3, <1>5, <1>6

(* A page program, whole or cut short, changes no byte but those of the    *)
(* page that are left; and whole it makes them what they are to be.        *)
LEMMA Sent ==
    ASSUME TypeOK, SecInv, PageInv, pc = "program",
           NEW sent \in SUBSET (0 .. page.remain-1)
    PROVE  /\ Programmed(page.addr, Source, sent) \in [Address -> Byte]
           /\ \A a \in Address :
                /\ a \notin page.addr .. page.addr + page.remain - 1 =>
                       Programmed(page.addr, Source, sent)[a] = flash[a]
                /\ (a \in page.addr .. page.addr + page.remain - 1 /\ sent = 0 .. page.remain-1) =>
                       Programmed(page.addr, Source, sent)[a] = After[a]
<1>1. /\ page.addr \in Nat /\ page.len \in Nat /\ page.from \in Nat /\ page.remain \in Nat
      /\ page.remain <= page.len /\ (page.addr % PageSize) + page.remain <= PageSize
      /\ \A i \in 0 .. page.remain-1 : Source[i] = Src(page.from + i)
    BY AtPage
<1>2. ASSUME NEW i \in 0 .. page.remain-1 PROVE Target(page.addr, i) = page.addr + i
    <2> DEFINE m == page.addr % PageSize
    <2>1. m \in 0 .. PageSize-1 /\ m + page.remain <= PageSize
        BY <1>1, Sizes, DivMod
    <2> HIDE DEF m
    <2>2. i \in Nat /\ m + i < PageSize
        BY <1>1, <2>1, Sizes
    <2> QED
        BY <1>1, <2>2, InPage DEF m
<1>3. flash \in [Address -> SUBSET Bits]
    BY DEF TypeOK, Byte
<1> DEFINE Ones(a) == {b \in Bits : \A i \in sent : Target(page.addr, i) = a => b \in Source[i]}
<1>4. \A a \in Address : Programmed(page.addr, Source, sent)[a] = flash[a] \cap Ones(a)
    BY DEF Programmed
<1>5. Programmed(page.addr, Source, sent) \in [Address -> Byte]
    BY <1>3 DEF Programmed, Byte
<1>6. ASSUME NEW a \in Address, a \notin page.addr .. page.addr + page.remain - 1
      PROVE  Programmed(page.addr, Source, sent)[a] = flash[a]
    <2>1. ASSUME NEW i \in sent PROVE Target(page.addr, i) # a
        <3>1. i \in Nat /\ i < page.remain /\ Target(page.addr, i) = page.addr + i
            BY <1>1, <1>2
        <3>2. page.addr + i \in page.addr .. page.addr + page.remain - 1
            BY <1>1, <3>1
        <3> QED
            BY <1>6, <3>1, <3>2
    <2>2. Ones(a) = Bits
        BY <2>1
    <2>3. flash[a] \cap Bits = flash[a]
        BY <1>3
    <2> QED
        BY <1>4, <2>2, <2>3
<1>7. ASSUME NEW a \in Address, a \in page.addr .. page.addr + page.remain - 1,
             sent = 0 .. page.remain-1
      PROVE  Programmed(page.addr, Source, sent)[a] = After[a]
    <2> DEFINE k == a - page.addr
    <2>1. k \in 0 .. page.remain-1 /\ k \in 0 .. page.len-1 /\ page.addr + k = a
          /\ a \in page.addr .. page.addr + page.len - 1
        BY <1>1, <1>7, Sizes
    <2>2. Source[k] = After[a]
        <3>1. Src(page.from + k) = After[page.addr + k]
            BY <2>1 DEF PageInv
        <3> QED
            BY <1>1, <2>1, <3>1
    <2>3. flash[a] = Bits
        BY <2>1 DEF PageInv, Erased
    <2>4. ASSUME NEW i \in sent, Target(page.addr, i) = a PROVE i = k
        <3>1. page.addr + i = a /\ i \in Nat
            BY <1>2, <1>7, <2>4
        <3> QED
            BY <1>1, <3>1
    <2>5. Ones(a) = {b \in Bits : b \in Source[k]}
        <3>1. Target(page.addr, k) = a
            BY <1>2, <2>1
        <3> HIDE DEF k
        <3> QED
            BY <1>7, <2>1, <2>4, <3>1
    <2>6. After[a] \in SUBSET Bits
        BY Request DEF SecInv, TypeOK, Busy, Byte
    <2>7. Bits \cap {b \in Bits : b \in After[a]} = After[a]
        BY <2>6
    <2> QED
        BY <1>4, <2>2, <2>3, <2>5, <2>7
<1> QED
    BY <1>5, <1>6, <1>7

LEMMA Advance ==
    ASSUME FlashInv, norflash_write_page
    PROVE  /\ flash' \in [Address -> Byte]
           /\ \A a \in Address :
                /\ a < page.addr + page.remain => flash'[a] = After[a]
                /\ a \in page.addr + page.remain .. page.addr + page.len - 1 => flash'[a] = Erased
                /\ a >= page.addr + page.len => flash'[a] = old[a]
<1>0. TypeOK /\ SecInv /\ PageInv /\ pc = "program"
      /\ flash' = Programmed(page.addr, Source, DOMAIN Source)
    BY DEF FlashInv, norflash_write_page
<1>1. /\ page.addr \in Nat /\ page.len \in Nat /\ page.remain \in Nat
      /\ page.remain <= page.len /\ DOMAIN Source = 0 .. page.remain-1
    BY <1>0, AtPage
<1>2. /\ flash' \in [Address -> Byte]
      /\ \A a \in Address :
           /\ a \notin page.addr .. page.addr + page.remain - 1 => flash'[a] = flash[a]
           /\ a \in page.addr .. page.addr + page.remain - 1 => flash'[a] = After[a]
    BY <1>0, <1>1, Sent
<1>3. \A a \in Address :
          /\ a < page.addr => flash[a] = After[a]
          /\ a \in page.addr .. page.addr + page.len - 1 => flash[a] = Erased
          /\ a >= page.addr + page.len => flash[a] = old[a]
    BY <1>0 DEF PageInv
<1>4. ASSUME NEW a \in Address
      PROVE  /\ a < page.addr + page.remain => flash'[a] = After[a]
             /\ a \in page.addr + page.remain .. page.addr + page.len - 1 => flash'[a] = Erased
             /\ a >= page.addr + page.len => flash'[a] = old[a]
    <2>0. a \in Nat
        BY Sizes
    <2>1. a < page.addr + page.remain =>
              a < page.addr \/ a \in page.addr .. page.addr + page.remain - 1
        BY <1>1, <2>0
    <2>2. a \in page.addr + page.remain .. page.addr + page.len - 1 =>
              a \notin page.addr .. page.addr + page.remain - 1
              /\ a \in page.addr .. page.addr + page.len - 1
        BY <1>1, <2>0
    <2>3. a >= page.addr + page.len => a \notin page.addr .. page.addr + page.remain - 1
        BY <1>1, <2>0
    <2>4. a < page.addr => a \notin page.addr .. page.addr + page.remain - 1
        BY <1>1, <2>0
    <2> QED
        BY <1>2, <1>3, <2>1, <2>2, <2>3, <2>4
<1> QED
    BY <1>2, <1>4

(* A page is programmed: on to the next page, the next sector, or back.    *)
LEMMA ProgramKeeps ==
    ASSUME FlashInv, norflash_write_page
    PROVE  FlashInv'
<1> DEFINE base == sec.secpos * SectorSize
<1>0. /\ pc = "program" /\ pc \in Busy /\ buf' = buf /\ req' = req /\ old' = old
      /\ worn' = worn /\ calls' = calls
      /\ TypeOK /\ SecInv /\ PageInv /\ WearInv /\ WornByNeed
    BY DEF FlashInv, norflash_write_page, Busy
<1>1. /\ flash' \in [Address -> Byte]
      /\ \A a \in Address :
           /\ a < page.addr + page.remain => flash'[a] = After[a]
           /\ a \in page.addr + page.remain .. page.addr + page.len - 1 => flash'[a] = Erased
           /\ a >= page.addr + page.len => flash'[a] = old[a]
    BY Advance
<1>2. /\ page.addr \in Nat /\ page.len \in Nat /\ page.from \in Nat /\ page.remain \in Nat
      /\ page.remain <= page.len
      /\ page.remain # page.len => (page.addr % PageSize) + page.remain = PageSize
      /\ page.addr + page.len >= sec.addr + sec.remain
      /\ page.addr + page.len <= base + SectorSize
    BY <1>0, AtPage
<1>3. After' = After
    BY <1>0 DEF After
<1>4. /\ base \in Nat /\ sec.addr \in Nat /\ sec.remain \in Nat /\ sec.len \in Nat
      /\ sec.remain <= sec.len
      /\ sec.addr + sec.len = req.addr + req.n
      /\ sec.remain # sec.len => sec.addr + sec.remain = base + SectorSize
    BY <1>0, AtWork
<1>5. WornByNeed'
    BY <1>0 DEF WornByNeed
<1>6. /\ sec.secpos \in 0 .. Sectors-1 /\ sec.from + sec.len = req.n
      /\ req \in Requests /\ sec.from \in Nat /\ sec.addr = req.addr + sec.from
    BY <1>0 DEF TypeOK, SecInv
<1>7. req.addr \in Nat /\ req.n \in Nat /\ req.addr + req.n <= Whole
    BY <1>0, <1>6, Request DEF TypeOK
<1>8. CASE page.len # page.remain /\ page' = NextPage /\ pc' = pc /\ sec' = sec
    <2>1. /\ page'.src = page.src /\ page'.from = page.from + page.remain
          /\ page'.addr = page.addr + page.remain /\ page'.len = page.len - page.remain
          /\ page'.remain = AtMost(page.len - page.remain, PageSize)
        BY <1>8 DEF NextPage
    <2>2. page'.addr % PageSize = 0
        BY <1>2, <1>8, <2>1, NextBegins
    <2>3. page'.addr \in Nat /\ page'.len \in Nat /\ page'.from \in Nat
          /\ page'.remain <= page'.len /\ page'.addr + page'.len = page.addr + page.len
        BY <1>2, <2>1, Sizes DEF AtMost
    <2>4. page'.remain = AtMost(page'.len, PageSize - (page'.addr % PageSize))
        <3>1. PageSize - 0 = PageSize
            BY Sizes
        <3> QED
            BY <2>1, <2>2, <3>1
    <2>5. page'.addr >= sec.secpos * SectorSize
        <3>1. page.addr >= base
            BY <1>0 DEF PageInv
        <3> HIDE DEF base
        <3>2. page'.addr >= base
            BY <1>2, <1>4, <2>1, <3>1
        <3> QED
            BY <3>2 DEF base
    <2>6. page.addr + page.len \in {sec.addr + sec.remain, sec.secpos * SectorSize + SectorSize}
        BY <1>0, Zenon DEF PageInv
    <2>7. ASSUME NEW i \in 0 .. page'.len - 1
          PROVE  Src(page.from + i)' = After'[page'.addr + i]
        <3> DEFINE k == page.remain + i
        <3>1. /\ k \in 0 .. page.len-1 /\ page'.from + i = page.from + k
              /\ page'.addr + i = page.addr + k
            BY <1>2, <2>1
        <3>2. Src(page.from + k) = After[page.addr + k]
            BY <1>0, <3>1 DEF PageInv
        <3>3. Src(page.from + i)' = Src(page.from + k)
            BY <1>0, <2>1, <3>1 DEF Src
        <3> QED
            BY <1>3, <3>1, <3>2, <3>3
    <2>8. PageInv'
        BY <1>0, <1>1, <1>3, <1>8, <2>1, <2>3, <2>4, <2>5, <2>6, <2>7 DEF PageInv
    <2>9. TypeOK'
        BY <1>0, <1>1, <1>8, <2>3 DEF TypeOK
    <2>10. SecInv' /\ ReadInv' /\ EraseInv' /\ WearInv'
        BY <1>0, <1>8 DEF SecInv, ReadInv, EraseInv, WearInv
    <2> QED
        BY <1>5, <2>8, <2>9, <2>10 DEF FlashInv
<1>9. CASE /\ page.len = page.remain /\ sec.len # sec.remain /\ sec' = NextSector
           /\ pc' = "read" /\ page' = page
    <2>1. /\ sec'.secpos = sec.secpos + 1 /\ sec'.secoff = 0
          /\ sec'.remain = AtMost(sec.len - sec.remain, SectorSize)
          /\ sec'.from = sec.from + sec.remain /\ sec'.addr = sec.addr + sec.remain
          /\ sec'.len = sec.len - sec.remain
        BY <1>9 DEF NextSector
    <2>2. sec'.addr = base + SectorSize /\ sec'.addr = page.addr + page.len
        <3> DEFINE g == base + SectorSize
                   e == page.addr + page.len
        <3>1. sec'.addr = g /\ g >= e /\ e >= g /\ g \in Nat /\ e \in Nat
            BY <1>2, <1>4, <1>9, <2>1, Sizes
        <3> HIDE DEF g, e
        <3>2. g = e
            BY <3>1
        <3> QED
            BY <3>1, <3>2 DEF g, e
    <2>3. sec'.len \in Nat \ {0} /\ sec'.from \in Nat /\ sec'.from + sec'.len = req.n
          /\ sec'.addr = req.addr + sec'.from
        BY <1>4, <1>6, <1>7, <1>9, <2>1
    <2>4. base + SectorSize < Whole
        <3>1. sec'.addr + sec'.len = req.addr + req.n /\ sec'.addr \in Nat
            BY <1>6, <1>7, <2>3, <2>1, <1>4
        <3>2. sec'.addr < Whole
            BY <1>7, <2>3, <3>1, Sizes
        <3> QED
            BY <2>2, <3>2
    <2>5. base + SectorSize = (sec.secpos + 1) * SectorSize
        BY <1>6, SectorLies
    <2>6. sec'.secpos \in 0 .. Sectors-1
        <3>1. ASSUME sec.secpos + 1 = Sectors PROVE FALSE
            <4>1. base + SectorSize = Sectors * SectorSize
                BY <2>5, <3>1
            <4>2. Sectors * SectorSize = Whole
                BY Sizes DEF Whole
            <4> QED
                BY <2>4, <4>1, <4>2, Sizes
        <3> QED
            BY <1>6, <2>1, <3>1, Sizes
    <2>7. sec'.remain <= SectorSize /\ sec'.remain = AtMost(sec'.len, SectorSize - sec'.secoff)
        <3>1. SectorSize - 0 = SectorSize
            BY Sizes
        <3> QED
            BY <2>1, <2>3, <3>1, Sizes DEF AtMost
    <2>8. sec'.secoff + sec'.remain <= SectorSize
        <3>1. sec'.remain \in Nat
            BY <2>1, <2>3, Sizes DEF AtMost
        <3> QED
            BY <2>1, <2>7, <3>1, Sizes
    <2>9. TypeOK'
        BY <1>0, <1>1, <1>9, <2>3, <2>6, <2>8 DEF TypeOK, Busy
    <2>10. sec'.addr = sec'.secpos * SectorSize + sec'.secoff
        <3>1. sec'.addr = sec'.secpos * SectorSize /\ sec'.addr \in Nat
            BY <2>1, <2>2, <2>5, <1>4
        <3> QED
            BY <2>1, <3>1
    <2>11. SecInv'
        <3>1. sec'.secoff \in 0 .. SectorSize-1
            BY <2>1, Sizes
        <3> QED
            BY <1>0, <1>6, <2>3, <2>7, <2>10, <3>1 DEF SecInv
    <2>12. ReadInv'
        <3>1. ASSUME NEW a \in Address
              PROVE  flash'[a] = IF a < sec'.addr THEN After'[a] ELSE old'[a]
            <4>1. a \in Nat /\ (a < sec'.addr => a < page.addr + page.remain)
                  /\ (~(a < sec'.addr) => a >= page.addr + page.len)
                BY <1>2, <1>9, <2>2, Sizes
            <4> QED
                BY <1>0, <1>1, <1>3, <4>1
        <3> QED
            BY <3>1 DEF ReadInv
    <2>13. EraseInv' /\ PageInv'
        BY <1>9 DEF EraseInv, PageInv
    <2>14. WearInv'
        <3>1. DOMAIN worn = 0 .. Sectors-1
            BY <1>0 DEF TypeOK
        <3> QED
            BY <1>0, <1>6, <1>9, <2>1, <3>1 DEF WearInv
    <2> QED
        BY <1>5, <2>9, <2>11, <2>12, <2>13, <2>14 DEF FlashInv
<1>10. CASE pc' = "idle" /\ page' = page /\ sec' = sec
    <2>1. TypeOK'
        BY <1>0, <1>1, <1>10 DEF TypeOK
    <2>2. SecInv' /\ ReadInv' /\ EraseInv' /\ PageInv' /\ WearInv'
        BY <1>10 DEF SecInv, ReadInv, EraseInv, PageInv, WearInv, Busy
    <2> QED
        BY <1>5, <2>1, <2>2 DEF FlashInv
<1> QED
    BY <1>8, <1>9, <1>10 DEF norflash_write_page

(* The power fails during any command.  What it leaves of the sector at    *)
(* work is unknown.                                                        *)
LEMMA Failing ==
    ASSUME FlashInv, PowerFail
    PROVE  /\ flash' \in [Address -> Byte]
           /\ \A a \in Address :
                /\ a < sec.secpos * SectorSize => flash'[a] = After[a]
                /\ a >= sec.secpos * SectorSize + SectorSize => flash'[a] = old[a]
<1> DEFINE base == sec.secpos * SectorSize
<1>0. pc \in Busy /\ TypeOK /\ SecInv /\ PageInv
      /\ flash \in [Address -> Byte] /\ sec.secpos \in 0 .. Sectors-1
    BY DEF PowerFail, Busy, FlashInv, TypeOK
<1>1. /\ base \in Nat /\ sec.addr \in Nat /\ sec.addr >= base
      /\ sec.secoff \in 0 .. SectorSize-1 /\ sec.addr = base + sec.secoff
    BY <1>0, AtWork DEF SecInv
<1>2. Sector(sec.secpos) = base .. base + SectorSize - 1
    BY <1>0, SectorLies
<1>3. ASSUME NEW a \in Address
      PROVE  /\ a \in Nat
             /\ a < base => a < sec.addr /\ a \notin Sector(sec.secpos)
             /\ a >= base + SectorSize => ~(a < sec.addr) /\ a \notin Sector(sec.secpos)
    <2>1. a \in Nat
        BY Sizes
    <2>2. sec.addr < base + SectorSize
        BY <1>1, Sizes
    <2> HIDE DEF base
    <2> QED
        BY <1>1, <1>2, <2>1, <2>2, Sizes
<1>4. pc \in {"read", "erase"} =>
          \A a \in Address : flash[a] = IF a < sec.addr THEN After[a] ELSE old[a]
    BY DEF FlashInv, ReadInv
<1>5. CASE pc = "read" /\ flash' = flash
    BY <1>0, <1>3, <1>4, <1>5
<1>6. ASSUME pc = "erase", NEW c \in [0 .. SectorSize-1 -> Byte],
             flash' = SectorErased(sec.secpos, c)
      PROVE  /\ flash' \in [Address -> Byte]
             /\ \A a \in Address :
                  /\ a < base => flash'[a] = After[a]
                  /\ a >= base + SectorSize => flash'[a] = old[a]
    <2>1. \A a \in Address :
              flash'[a] = IF a \in Sector(sec.secpos) THEN c[a % SectorSize] ELSE flash[a]
        BY <1>6 DEF SectorErased
    <2>2. \A a \in Address : c[a % SectorSize] \in Byte
        BY SectorOf
    <2>3. \A a \in Address : flash'[a] \in Byte
        BY <1>0, <2>1, <2>2
    <2>4. flash' \in [Address -> Byte]
        BY <1>6, <2>3 DEF SectorErased
    <2> QED
        BY <1>3, <1>4, <1>6, <2>1, <2>4
<1>7. ASSUME pc = "program", NEW sent \in SUBSET DOMAIN Source,
             flash' = Programmed(page.addr, Source, sent)
      PROVE  /\ flash' \in [Address -> Byte]
             /\ \A a \in Address :
                  /\ a < base => flash'[a] = After[a]
                  /\ a >= base + SectorSize => flash'[a] = old[a]
    <2>1. /\ DOMAIN Source = 0 .. page.remain-1 /\ page.addr \in Nat /\ page.len \in Nat
          /\ page.remain \in Nat /\ page.remain <= page.len
          /\ page.addr + page.len <= base + SectorSize
        BY <1>0, <1>7, AtPage
    <2>2. page.addr >= base
          /\ \A a \in Address : /\ a < page.addr => flash[a] = After[a]
                                /\ a >= page.addr + page.len => flash[a] = old[a]
        BY <1>0, <1>7 DEF PageInv
    <2>3. /\ flash' \in [Address -> Byte]
          /\ \A a \in Address : a \notin page.addr .. page.addr + page.remain - 1 =>
                 flash'[a] = flash[a]
        BY <1>0, <1>7, <2>1, Sent
    <2>4. ASSUME NEW a \in Address
          PROVE  /\ a < base => a < page.addr /\ a \notin page.addr .. page.addr + page.remain - 1
                 /\ a >= base + SectorSize => a >= page.addr + page.len
                        /\ a \notin page.addr .. page.addr + page.remain - 1
        <3>1. a \in Nat
            BY <1>3
        <3> HIDE DEF base
        <3> QED
            BY <1>1, <2>1, <2>2, <3>1, Sizes
    <2> QED
        BY <2>2, <2>3, <2>4
<1> QED
    BY <1>5, <1>6, <1>7 DEF PowerFail

LEMMA PowerKeeps == FlashInv /\ (PowerFail \/ PowerUp) => FlashInv'
<1>1. ASSUME FlashInv, PowerFail PROVE FlashInv'
    <2>1. flash' \in [Address -> Byte]
        BY <1>1, Failing
    <2>2. pc' = "off" /\ UNCHANGED <<buf, req, sec, page, old, worn, calls>>
        BY <1>1 DEF PowerFail
    <2>3. TypeOK'
        BY <1>1, <2>1, <2>2 DEF FlashInv, TypeOK
    <2> QED
        BY <1>1, <2>2, <2>3
        DEF FlashInv, SecInv, ReadInv, EraseInv, PageInv, WearInv, WornByNeed, Busy
<1>2. ASSUME FlashInv, PowerUp PROVE FlashInv'
    <2>1. /\ pc' = "idle" /\ buf' = [i \in 0 .. SectorSize-1 |-> {}]
          /\ UNCHANGED <<flash, req, sec, page, old, worn, calls>>
        BY <1>2 DEF PowerUp
    <2>2. TypeOK'
        BY <1>2, <2>1 DEF FlashInv, TypeOK, Byte
    <2> QED
        BY <1>2, <2>1, <2>2
        DEF FlashInv, SecInv, ReadInv, EraseInv, PageInv, WearInv, WornByNeed, Busy
<1> QED
    BY <1>1, <1>2

LEMMA FlashInit == Init => FlashInv
<1> SUFFICES ASSUME Init PROVE FlashInv
    OBVIOUS
<1>1. 0 % PageSize \in 0 .. PageSize-1
    BY Sizes, DivMod
<1>2. page.remain <= page.len
    BY <1>1, Sizes DEF Init, NoCheck, AtMost
<1>3. flash \in [Address -> Byte]
    BY NorflashAssumption DEF Init
<1>4. buf \in [0 .. SectorSize-1 -> Byte]
    BY DEF Init, Byte
<1>5. /\ sec.secpos = 0 /\ sec.secoff = 0 /\ sec.remain = 0 /\ sec.from = 0 /\ sec.len = 0
      /\ req.n = 0
    BY DEF Init, NoSector, NoRequest
<1>6. /\ sec.secpos \in 0 .. Sectors-1 /\ sec.secoff + sec.remain <= SectorSize
      /\ sec.from + sec.len = req.n
    BY <1>5, Sizes
<1>7. calls \in 0 .. MaxCalls
    BY NorflashAssumption DEF Init
<1>8. worn \in [0 .. Sectors-1 -> Nat]
    BY DEF Init, NoWear
<1>9. TypeOK
    BY <1>2, <1>3, <1>4, <1>6, <1>7, <1>8 DEF Init, TypeOK
<1> QED
    BY <1>9 DEF Init, FlashInv, SecInv, ReadInv, EraseInv, PageInv, WearInv, WornByNeed, Busy,
                NoWear

LEMMA FlashStep == FlashInv /\ [Next]_vars => FlashInv'
<1> SUFFICES ASSUME FlashInv, [Next]_vars PROVE FlashInv'
    OBVIOUS
<1>1. ASSUME NEW r \in Requests, norflash_write(r) PROVE FlashInv'
    BY <1>1, CallKeeps
<1>2. CASE ReadSector
    BY <1>2, ReadKeeps
<1>3. CASE norflash_erase_sector
    BY <1>3, EraseKeeps
<1>4. CASE norflash_write_page
    BY <1>4, ProgramKeeps
<1>5. CASE PowerFail \/ PowerUp
    BY <1>5, PowerKeeps
<1>6. CASE UNCHANGED vars
    BY <1>6 DEF vars, FlashInv, TypeOK, SecInv, ReadInv, EraseInv, PageInv, WearInv, WornByNeed,
                After, Src
<1> QED
    BY <1>1, <1>2, <1>3, <1>4, <1>5, <1>6 DEF Next, Step

-----------------------------------------------------------------------------
(* The theorems.                                                           *)

\* The loops of norflash_write and norflash_write_nocheck never lose their place:
\* what is behind them is as it is to be, what is before them as it was.
THEOREM FlashInvariant == Spec => []FlashInv
<1> QED
    BY FlashInit, FlashStep, PTL DEF Spec

\* No local of the loops ever leaves the sector, the page or the array it indexes,
\* for all sizes and requests.
THEOREM FlashTypes == Spec => []TypeOK
<1>1. FlashInv => TypeOK
    BY DEF FlashInv
<1> QED
    BY <1>1, FlashInvariant, PTL

\* A page program never runs past the end of its page, and never meets a byte
\* that is not erased: the two cautions above norflash_write_page and
\* norflash_write_nocheck are heeded for every request.
THEOREM PagesErased == Spec => []ProgramsErasedPage
<1>1. FlashInv => ProgramsErasedPage
    <2> SUFFICES ASSUME FlashInv, pc = "program", NEW i \in DOMAIN Source
                 PROVE  /\ (page.addr + i) \div PageSize = page.addr \div PageSize
                        /\ flash[page.addr + i] = Erased
        BY DEF ProgramsErasedPage
    <2> DEFINE m == page.addr % PageSize
    <2>0. TypeOK /\ SecInv /\ PageInv
        BY DEF FlashInv
    <2>1. /\ page.addr \in Nat /\ page.len \in Nat /\ page.remain \in Nat
          /\ page.remain <= page.len /\ m + page.remain <= PageSize
          /\ page.addr + page.len <= Whole /\ i \in 0 .. page.remain-1
        BY <2>0, AtPage
    <2>2. m \in 0 .. PageSize-1
        BY <2>1, Sizes, DivMod
    <2>3. i \in Nat /\ i < page.remain
        BY <2>1
    <2>4. m + i < PageSize
        <3> HIDE DEF m
        <3> QED
            BY <2>1, <2>2, <2>3, Sizes
    <2>5. (page.addr + i) \div PageSize = page.addr \div PageSize
        BY <2>1, <2>3, <2>4, InPage
    <2>6. page.addr + i \in Address
          /\ page.addr + i \in page.addr .. page.addr + page.len - 1
        BY <2>1, <2>3, Sizes
    <2>7. flash[page.addr + i] = Erased
        BY <2>0, <2>6 DEF PageInv
    <2> QED
        BY <2>5, <2>7
<1> QED
    BY <1>1, FlashInvariant, PTL

\* A call erases a sector at most once, and only for a byte it writes there that
\* was not erased: the look at the buffer spares the others.
THEOREM WearsByNeed == Spec => []WornByNeed
<1>1. FlashInv => WornByNeed
    BY DEF FlashInv
<1> QED
    BY <1>1, FlashInvariant, PTL

(* Each step of the driver is a step of the byte store, or none.           *)
LEMMA StoreStep == FlashInv /\ [Next]_vars => [Store!Next]_(Store!vars)
<1> SUFFICES ASSUME FlashInv, [Next]_vars PROVE [Store!Next]_(Store!vars)
    OBVIOUS
<1> USE DEF Busy
<1>1. ASSUME NEW r \in Requests, norflash_write(r) PROVE Store!Call
    BY <1>1 DEF norflash_write, Store!Call
<1>2. CASE ReadSector
    BY <1>2 DEF ReadSector, Store!vars
<1>3. CASE norflash_erase_sector
    BY <1>3 DEF norflash_erase_sector, Store!vars
<1>4. CASE norflash_write_page
    <2>0. TypeOK /\ SecInv /\ PageInv /\ pc = "program" /\ pc \in Busy
        BY <1>4 DEF FlashInv, norflash_write_page
    <2>1. CASE pc' \in Busy
        BY <1>4, <2>0, <2>1 DEF norflash_write_page, Store!vars
    <2>2. CASE pc' \notin Busy
        <3>1. pc' = "idle" /\ page.len = page.remain /\ sec.len = sec.remain /\ req' = req
            BY <1>4, <2>0, <2>2 DEF norflash_write_page
        <3>2. /\ page.addr \in Nat /\ page.len \in Nat
              /\ page.addr + page.len >= sec.addr + sec.remain
            BY <2>0, AtPage
        <3>3. sec.addr + sec.len = req.addr + req.n
            BY <2>0, AtWork
        <3>4. req.addr \in Nat /\ req.n \in Nat
            BY <2>0, Request DEF SecInv, TypeOK
        <3>5. ASSUME NEW a \in Address PROVE flash'[a] = After[a]
            <4>0. a \in Nat
                BY Sizes
            <4>1. CASE a < page.addr + page.remain
                BY <1>4, <4>1, Advance
            <4>2. CASE a >= page.addr + page.len
                <5>1. a \notin req.addr .. req.addr + req.n - 1
                    BY <3>1, <3>2, <3>3, <3>4, <4>0, <4>2
                <5> QED
                    BY <1>4, <4>2, <5>1, Advance DEF After
            <4> QED
                BY <3>1, <3>2, <4>0, <4>1, <4>2
        <3>6. flash' \in [Address -> Byte]
            BY <1>4, Advance
        <3>7. flash' = After
            BY <3>5, <3>6 DEF After
        <3>8. Store!Written = After
            BY <2>0 DEF Store!Written, After
        <3> QED
            BY <2>0, <3>1, <3>7, <3>8 DEF Store!Next, Store!Return
    <2> QED
        BY <2>1, <2>2
<1>5. CASE PowerFail
    <2>0. pc \in Busy /\ pc' = "off" /\ req' = req /\ sec.secpos \in 0 .. Sectors-1
        BY <1>5 DEF PowerFail, FlashInv, TypeOK
    <2>1. flash' \in [Address -> Byte]
          /\ \A a \in Address :
               /\ a < sec.secpos * SectorSize => flash'[a] = After[a]
               /\ a >= sec.secpos * SectorSize + SectorSize => flash'[a] = old[a]
        BY <1>5, Failing
    <2>2. sec.secpos \in Address
        BY <2>0, Sizes
    <2>3. \A a \in Address :
              /\ a \div SectorSize < sec.secpos => flash'[a] = After[a]
              /\ a \div SectorSize > sec.secpos => flash'[a] = old[a]
        BY <2>0, <2>1, Apart
    <2>4. Store!Written = After
        BY <2>0 DEF Store!Written, After
    <2> QED
        BY <2>0, <2>1, <2>2, <2>3, <2>4 DEF Store!Next, Store!Fail
<1>6. CASE PowerUp
    BY <1>6 DEF PowerUp, Store!vars
<1>7. CASE UNCHANGED vars
    BY <1>7 DEF vars, Store!vars
<1> QED
    BY <1>1, <1>2, <1>3, <1>4, <1>5, <1>6, <1>7 DEF Next, Step, Store!Next

\* norflash_write does what it promises: a call that returns has replaced the
\* bytes of the request and no others, and one that the power cuts short has put
\* at risk only the sector it was working on.
THEOREM KeepsPromise == Spec => ImplementsStore
<1>1. Init => Store!Init
    BY NorflashAssumption DEF Init, Busy, Store!Init
<1> QED
    BY <1>1, FlashInvariant, StoreStep, PTL DEF Spec, ImplementsStore, Store!Spec
=============================================================================
