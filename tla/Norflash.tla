------------------------------ MODULE Norflash ------------------------------
(***************************************************************************)
(* norflash_write of the 25Qxx driver: erased bytes are programmed in      *)
(* place, page by page; a sector of which a byte has to change back is     *)
(* read into g_norflash_buf, erased and programmed as a whole.  One step   *)
(* is one command to the chip with the code up to the next command, and    *)
(* the power may fail during any of them.                                  *)
(***************************************************************************)
EXTENDS Naturals

CONSTANTS
    PageSize, PagesPerSector, Sectors,
    Bits,       \* bits of a byte; a byte is the set of its ones
    Contents,   \* contents of the chip at first
    Requests,   \* [addr, n, data]: calls of norflash_write
    MaxCalls    \* bound: calls

SectorSize == PageSize * PagesPerSector
Address == 0 .. SectorSize * Sectors - 1
Byte == SUBSET Bits
Erased == Bits

ASSUME NorflashAssumption ==
    /\ PageSize \in Nat \ {0} /\ PagesPerSector \in Nat \ {0} /\ Sectors \in Nat \ {0}
    /\ Contents \subseteq [Address -> Byte]
    /\ \A r \in Requests :
        /\ r.addr \in Address /\ r.n \in Nat
        /\ r.addr + r.n <= SectorSize * Sectors
        /\ r.data \in [0 .. r.n - 1 -> Byte]
    /\ MaxCalls \in Nat

VARIABLES
    flash,  \* the chip
    buf,    \* g_norflash_buf
    pc,     \* "idle", "read", "erase", "program", or "off"
    req,    \* the call in progress, or the last one
    sec,    \* locals of norflash_write
    page,   \* locals of norflash_write_nocheck
    old,    \* the chip when the call began (history)
    worn,   \* sectors erased by the call, with their number of times (history)
    calls   \* calls made (bounded)

vars == <<flash, buf, pc, req, sec, page, old, worn, calls>>

Busy == {"read", "erase", "program"}
Store == INSTANCE ByteStore WITH
    store <- IF pc \in Busy THEN old ELSE flash, busy <- pc \in Busy

Sector(s) == s * SectorSize .. (s + 1) * SectorSize - 1
AtMost(n, limit) == IF n <= limit THEN n ELSE limit
NoWear == [s \in 0 .. Sectors - 1 |-> 0]

\* Seeded fault: the first page takes more than the call has.
NoCheckWholePage(src, from, addr, len) ==
    [src |-> src, from |-> from, addr |-> addr, len |-> len,
     remain |-> PageSize - (addr % PageSize)]

\* Seeded fault: the first page is taken to begin at addr.
NoCheckFullPage(src, from, addr, len) ==
    [src |-> src, from |-> from, addr |-> addr, len |-> len, remain |-> AtMost(len, PageSize)]

\* norflash_write_nocheck(src + from, addr, len); len bytes, the first of which
\* go to the rest of the first page.
NoCheck(src, from, addr, len) ==
    [src |-> src, from |-> from, addr |-> addr, len |-> len,
     remain |-> AtMost(len, PageSize - (addr % PageSize))]

NoSector == [secpos |-> 0, secoff |-> 0, remain |-> 0, from |-> 0, addr |-> 0, len |-> 0]
NoRequest == [addr |-> 0, n |-> 0, data |-> <<>>]

Init ==
    /\ flash \in Contents
    /\ buf = [i \in 0 .. SectorSize - 1 |-> {}]
    /\ pc = "idle"
    /\ req = NoRequest
    /\ sec = NoSector
    /\ page = NoCheck("pbuf", 0, 0, 0)
    /\ old = flash
    /\ worn = NoWear
    /\ calls = 0

-----------------------------------------------------------------------------
(* The chip.                                                               *)

norflash_read(addr, n) == [i \in 0 .. n - 1 |-> flash[addr + i]]

\* Page program: bits go from one to zero only, and an address that runs past
\* the end of the page goes on at its beginning.
Target(addr, i) == (addr \div PageSize) * PageSize + ((addr + i) % PageSize)
Programmed(addr, bytes, sent) == [a \in Address |->
    flash[a] \cap {b \in Bits : \A i \in sent : Target(addr, i) = a => b \in bytes[i]}]

\* Sector erase, which leaves c in the sector when it is interrupted.
SectorErased(s, c) == [a \in Address |-> IF a \in Sector(s) THEN c[a % SectorSize] ELSE flash[a]]
AllOnes == [i \in 0 .. SectorSize - 1 |-> Erased]

-----------------------------------------------------------------------------
(* norflash_write.                                                         *)

norflash_write(r) ==
    /\ pc = "idle"
    /\ calls < MaxCalls
    /\ calls' = calls + 1
    /\ req' = r
    /\ sec' = [secpos |-> r.addr \div SectorSize, secoff |-> r.addr % SectorSize,
               remain |-> AtMost(r.n, SectorSize - (r.addr % SectorSize)),
               from |-> 0, addr |-> r.addr, len |-> r.n]
    /\ pc' = "read"
    /\ old' = flash
    /\ worn' = NoWear
    /\ UNCHANGED <<flash, buf, page>>

\* Seeded fault: all of the sector is looked at.
HasToEraseAll(c) == \E i \in DOMAIN c : c[i] # Erased

\* The sector is read, and the part to be written is looked at.
HasToErase(c) == \E i \in 0 .. sec.remain - 1 : c[sec.secoff + i] # Erased
ReadSector ==
    /\ pc = "read"
    /\ buf' = norflash_read(sec.secpos * SectorSize, SectorSize)
    /\ IF HasToErase(buf')
       THEN pc' = "erase" /\ UNCHANGED page
       ELSE pc' = "program" /\ page' = NoCheck("pbuf", sec.from, sec.addr, sec.remain)
    /\ UNCHANGED <<flash, req, sec, old, worn, calls>>

Merged == [i \in 0 .. SectorSize - 1 |->
    IF i \in sec.secoff .. sec.secoff + sec.remain - 1
    THEN req.data[sec.from + i - sec.secoff] ELSE buf[i]]
norflash_erase_sector ==
    /\ pc = "erase"
    /\ flash' = SectorErased(sec.secpos, AllOnes)
    /\ worn' = [worn EXCEPT ![sec.secpos] = @ + 1]
    /\ buf' = Merged
    /\ page' = NoCheck("buf", 0, sec.secpos * SectorSize, SectorSize)
    /\ pc' = "program"
    /\ UNCHANGED <<req, sec, old, calls>>

\* What norflash_write_page is given, and the page it is programmed to.
Source == [i \in 0 .. page.remain - 1 |->
    IF page.src = "buf" THEN buf[page.from + i] ELSE req.data[page.from + i]]

\* Seeded fault: the pointers and the length stay.
NextPageStill == [page EXCEPT !.remain = AtMost(page.len - page.remain, PageSize)]

NextPage == [src |-> page.src, from |-> page.from + page.remain,
             addr |-> page.addr + page.remain, len |-> page.len - page.remain,
             remain |-> AtMost(page.len - page.remain, PageSize)]

\* Seeded fault: pbuf stays.
NextSectorSameData == [secpos |-> sec.secpos + 1, secoff |-> 0,
               remain |-> AtMost(sec.len - sec.remain, SectorSize),
               from |-> sec.from, addr |-> sec.addr + sec.remain,
               len |-> sec.len - sec.remain]

NextSector == [secpos |-> sec.secpos + 1, secoff |-> 0,
               remain |-> AtMost(sec.len - sec.remain, SectorSize),
               from |-> sec.from + sec.remain, addr |-> sec.addr + sec.remain,
               len |-> sec.len - sec.remain]

norflash_write_page ==
    /\ pc = "program"
    /\ flash' = Programmed(page.addr, Source, DOMAIN Source)
    /\ \/ /\ page.len # page.remain
          /\ page' = NextPage
          /\ UNCHANGED <<pc, sec>>
       \/ /\ page.len = page.remain /\ sec.len # sec.remain
          /\ sec' = NextSector
          /\ pc' = "read"
          /\ UNCHANGED page
       \/ /\ page.len = page.remain /\ sec.len = sec.remain
          /\ pc' = "idle"
          /\ UNCHANGED <<page, sec>>
    /\ UNCHANGED <<buf, req, old, worn, calls>>

-----------------------------------------------------------------------------
(* The power fails, and comes back: main begins again, with g_norflash_buf *)
(* cleared by the start-up code.                                           *)

PowerFail ==
    /\ \/ pc = "read" /\ UNCHANGED flash
       \/ pc = "erase" /\ \E c \in [0 .. SectorSize - 1 -> Byte] :
             flash' = SectorErased(sec.secpos, c)
       \/ pc = "program" /\ \E sent \in SUBSET DOMAIN Source :
             flash' = Programmed(page.addr, Source, sent)
    /\ pc' = "off"
    /\ UNCHANGED <<buf, req, sec, page, old, worn, calls>>

PowerUp ==
    /\ pc = "off"
    /\ pc' = "idle"
    /\ buf' = [i \in 0 .. SectorSize - 1 |-> {}]
    /\ UNCHANGED <<flash, req, sec, page, old, worn, calls>>

Step == ReadSector \/ norflash_erase_sector \/ norflash_write_page

Next ==
    \/ \E r \in Requests : norflash_write(r)
    \/ Step
    \/ PowerFail
    \/ PowerUp

Spec == Init /\ [][Next]_vars

\* The chip carries out what it is sent, and the loops of the driver go on.
FairSpec == Spec /\ WF_vars(Step)

-----------------------------------------------------------------------------
(* Properties.                                                             *)

\* Every variable keeps its type, and no local leaves the array it indexes.
TypeOK ==
    /\ flash \in [Address -> Byte] /\ old \in [Address -> Byte]
    /\ buf \in [0 .. SectorSize - 1 -> Byte]
    /\ pc \in {"idle", "off"} \cup Busy
    /\ sec.secpos \in 0 .. Sectors - 1 /\ sec.secoff + sec.remain <= SectorSize
    /\ sec.from + sec.len = req.n
    /\ page.remain <= page.len
    /\ worn \in [0 .. Sectors - 1 -> Nat]
    /\ calls \in 0 .. MaxCalls

\* The caution above norflash_write_page (norflash.c:255) and the one above
\* norflash_write_nocheck (279): a program command stays inside one page, and
\* the bytes it is sent to are erased.
ProgramsErasedPage == pc = "program" =>
    \A i \in DOMAIN Source :
        /\ (page.addr + i) \div PageSize = page.addr \div PageSize
        /\ flash[page.addr + i] = Erased

\* A sector is erased at most once in a call, and only when a byte the call
\* writes there was not erased: the chip is not worn by writes to fresh sectors.
WornByNeed == \A s \in DOMAIN worn :
    /\ worn[s] <= 1
    /\ worn[s] = 1 => \E a \in Sector(s) \cap req.addr .. req.addr + req.n - 1 :
                          old[a] # Erased

\* Norflash implements the byte store: a finished call has replaced the bytes
\* of the request and kept all others, in the sectors it erased too; a call that
\* the power cut short has put no sector at risk but the one it was working on.
ImplementsStore == Store!Spec

\* The loops of norflash_write and norflash_write_nocheck end (norflash.c:358
\* and 298): every call returns, unless the power fails.
CallReturns == pc \in Busy ~> pc \notin Busy

=============================================================================
