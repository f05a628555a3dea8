--------------------------- MODULE MyMemIrqProofs ---------------------------
(***************************************************************************)
(* The loops of malloc.c do what MyMem says in one step, for every size of *)
(* pool and block and every order of calls: while interrupts allocate only *)
(* outside malloc.c.  So what is proved of MyMem holds for the loops too.  *)
(***************************************************************************)
EXTENDS MyMemIrq, TLAPS

(* MyMem with its theorems, on the table as MyMem has it.                  *)
Proved == INSTANCE MyMemProofs WITH
            Data <- {0},
            mem <- [k \in 0..TblSize*BlkSize-1 |-> 0],
            memmap <- SettledMap,
            memrdy <- memrdy \/ pc = "clear"

Wanted == Pool!nmemb(call.size)

\* Where the search is: a request of main waits for its run.
Asked ==
    /\ call.slot \in MainSlots /\ ptr[call.slot] = NULL
    /\ call.size \in Sizes /\ call.size > 0

\* The table under the main program's loops.
LoopInv ==
    /\ memmap \in [Blocks -> Nat]
    /\ memrdy \in BOOLEAN
    /\ pc \in {"reset", "clear", "idle", "scan", "mark", "free"}
    /\ pc \in {"reset", "clear"} => ~memrdy /\ \A s \in Slots : ptr[s] = NULL
    /\ pc \notin {"reset", "clear"} => memrdy
    /\ pc = "clear" => i \in 0..TblSize /\ \A k \in 0..i-1 : memmap[k] = 0

\* The search has counted cmemb free blocks above offset, which end at a used one
\* or at the end of the pool, and no run above offset is long enough.
ScanInv == pc = "scan" =>
    /\ Asked
    /\ offset \in -1..TblSize-1 /\ cmemb \in 0..Wanted-1
    /\ offset + 1 + cmemb <= TblSize
    /\ \A k \in offset+1..offset+cmemb : memmap[k] = 0
    /\ offset + 1 + cmemb = TblSize \/ memmap[offset + 1 + cmemb] # 0
    /\ \A c \in Blocks : c > offset => ~Pool!FreeRun(memmap, c, Wanted)

\* The run found is being marked.
MarkInv == pc = "mark" =>
    /\ Asked
    /\ i \in 0..Wanted
    /\ Pool!HighestFreeRun(SettledMap, offset, Wanted)
    /\ \A k \in offset..offset+i-1 : memmap[k] = Wanted

\* The run of a pointer is being cleared.
FreeInv == pc = "free" =>
    /\ call.slot \in MainSlots /\ ptr[call.slot] # NULL
    /\ offset = Pool!index(ptr[call.slot])
    /\ nfree = Pool!nmemb(req[call.slot])
    /\ i \in 0..nfree
    /\ \A k \in offset..offset+i-1 : memmap[k] = 0

IrqInv == Proved!PoolInv /\ LoopInv /\ ScanInv /\ MarkInv /\ FreeInv

-----------------------------------------------------------------------------
(* MyMem, as it is instantiated for the runs and for its theorems.         *)

LEMMA Assumed == Proved!PoolAssumption /\ Proved!DataAssumption /\ Proved!NullAssumption
BY IrqAssumption DEF Proved!PoolAssumption, Proved!DataAssumption, Proved!NullAssumption

LEMMA SameNext == [Whole!Next]_(Whole!vars) => [Proved!Next]_(Proved!vars)
BY Zenon DEF Whole!Next, Whole!vars, Whole!my_mem_init, Whole!mymalloc, Whole!myfree, Whole!myrealloc,
       Whole!Store, Whole!Refused, Whole!FreeRuns, Whole!FreeRun, Whole!ReadyMap, Whole!nmemb,
       Whole!HighestFreeRun, Whole!Mark, Whole!Clear, Whole!index, Whole!my_mem_copy,
       Whole!Scribble, Whole!Blocks, Whole!Bytes, Whole!memsize,
       Proved!Next, Proved!vars, Proved!my_mem_init, Proved!mymalloc, Proved!myfree,
       Proved!myrealloc, Proved!Store, Proved!Refused, Proved!FreeRuns, Proved!FreeRun,
       Proved!ReadyMap, Proved!nmemb, Proved!HighestFreeRun, Proved!Mark, Proved!Clear,
       Proved!index, Proved!my_mem_copy, Proved!Scribble, Proved!Blocks, Proved!Bytes,
       Proved!memsize

LEMMA PoolKept == Proved!PoolInv /\ [Whole!Next]_(Whole!vars) => Proved!PoolInv'
BY SameNext, Assumed, Proved!PoolInvStep

LEMMA PoolBegins == Whole!Init => Proved!PoolInv
<1> SUFFICES ASSUME Whole!Init PROVE Proved!PoolInv
    OBVIOUS
<1>1. Proved!Init
    BY Zenon DEF Whole!Init, Proved!Init, Whole!Blocks, Proved!Blocks, Whole!Bytes, Proved!Bytes,
                 Whole!memsize, Proved!memsize
<1>2. Proved!TypeOK
    BY <1>1, Assumed, Proved!InitType
<1>3. Proved!Held = {} /\ ~(memrdy \/ pc = "clear")
    BY <1>1 DEF Proved!Init, Proved!Held
<1> QED
    BY <1>2, <1>3 DEF Proved!PoolInv, Proved!Placed, Proved!NoOverlap, Proved!MapExact

(* What MyMem sees of a block, and when that is all it sees.               *)
LEMMA Settled ==
    /\ SettledMap = [k \in Blocks |-> SettledMap[k]]
    /\ \A k \in Blocks :
         SettledMap[k] = IF pc = "clear" THEN 0
                         ELSE IF pc = "mark" /\ k \in offset..offset+i-1 THEN 0
                         ELSE IF pc = "free" /\ k \in offset..offset+i-1 THEN nfree
                         ELSE memmap[k]
BY DEF SettledMap

LEMMA SettledAsIs ==
    ASSUME memmap \in [Blocks -> Nat], pc \notin {"clear", "mark", "free"}
    PROVE  SettledMap = memmap
<1>1. \A k \in Blocks : SettledMap[k] = memmap[k]
    BY Settled
<1> QED
    BY <1>1, Settled

(* The blocks of a request are counted alike everywhere.                   *)
LEMMA Counted ==
    ASSUME NEW size \in Nat
    PROVE  /\ Pool!nmemb(size) = Whole!nmemb(size) /\ Pool!nmemb(size) = Proved!nmemb(size)
           /\ Pool!nmemb(size) \in Nat /\ (size > 0 => Pool!nmemb(size) > 0)
<1>1. Pool!nmemb(size) = Whole!nmemb(size) /\ Pool!nmemb(size) = Proved!nmemb(size)
    BY DEF Pool!nmemb, Whole!nmemb, Proved!nmemb
<1>2. Proved!nmemb(size) \in Nat /\ (size > 0 => Proved!nmemb(size) > 0)
    BY Assumed, Proved!NmembPositive
<1> QED
    BY <1>1, <1>2

(* A pointer that is held, as the table has it.                            *)
LEMMA RunHeld ==
    ASSUME IrqInv, NEW s \in Slots, ptr[s] # NULL
    PROVE  /\ Pool!index(ptr[s]) \in Nat /\ Pool!nmemb(req[s]) \in Nat
           /\ Pool!nmemb(req[s]) > 0 /\ ptr[s] \in Nat /\ req[s] \in Nat
           /\ Pool!index(ptr[s]) + Pool!nmemb(req[s]) <= TblSize
           /\ ptr[s] = Pool!index(ptr[s]) * BlkSize
           /\ \A k \in Pool!index(ptr[s]) .. Pool!index(ptr[s]) + Pool!nmemb(req[s]) - 1 :
                  SettledMap[k] = Pool!nmemb(req[s])
<1>1. s \in Proved!Held /\ Proved!PoolInv
    BY DEF Proved!Held, IrqInv
<1>2. /\ ptr[s] \in Nat /\ req[s] \in Nat
      /\ Proved!index(ptr[s]) \in Nat /\ Proved!nmemb(req[s]) \in Nat
      /\ Proved!nmemb(req[s]) > 0 /\ (memrdy \/ pc = "clear")
    BY <1>1, Assumed, Proved!RunInPool
<1>3. /\ Proved!index(ptr[s]) + Proved!nmemb(req[s]) <= TblSize
      /\ ptr[s] = Proved!index(ptr[s]) * BlkSize
    BY <1>1 DEF Proved!PoolInv, Proved!Placed
<1>4. \A k \in Proved!index(ptr[s]) .. Proved!index(ptr[s]) + Proved!nmemb(req[s]) - 1 :
          SettledMap[k] = Proved!nmemb(req[s])
    BY <1>1, <1>2 DEF Proved!PoolInv, Proved!MapExact, Proved!Run
<1>5. Pool!index(ptr[s]) = Proved!index(ptr[s])
    BY DEF Pool!index, Proved!index
<1>6. Pool!nmemb(req[s]) = Proved!nmemb(req[s])
    BY <1>2, Counted
<1>7. /\ Pool!index(ptr[s]) + Pool!nmemb(req[s]) <= TblSize
      /\ ptr[s] = Pool!index(ptr[s]) * BlkSize
    BY <1>3, <1>5, <1>6, Zenon
<1>8. \A k \in Pool!index(ptr[s]) .. Pool!index(ptr[s]) + Pool!nmemb(req[s]) - 1 :
          SettledMap[k] = Pool!nmemb(req[s])
    BY <1>4, <1>5, <1>6, Zenon
<1>9. Pool!index(ptr[s]) \in Nat
    BY <1>2, <1>5
<1>10. Pool!nmemb(req[s]) \in Nat /\ Pool!nmemb(req[s]) > 0
    <2>1. req[s] \in Nat /\ req[s] > 0
        BY <1>1 DEF Proved!PoolInv, Proved!TypeOK, Proved!Placed
    <2> QED
        BY <2>1, Counted
<1> QED
    BY <1>2, <1>7, <1>8, <1>9, <1>10, Zenon

-----------------------------------------------------------------------------
(* The steps: what each is for MyMem, and that it keeps the loops' place.  *)

Loops == LoopInv /\ ScanInv /\ MarkInv /\ FreeInv

(* my_mem_init: its call is the step of MyMem, its loop none.              *)
LEMMA InitSteps ==
    ASSUME IrqInv, InitCall \/ InitClear
    PROVE  Whole!my_mem_init \/ UNCHANGED Whole!vars
<1>1. CASE InitCall
    <2>1. SettledMap' = [b \in Blocks |-> 0]
        BY <1>1 DEF InitCall, SettledMap
    <2>2. (memrdy \/ pc = "clear")' = TRUE /\ ptr' = ptr /\ req' = req
          /\ \A s \in Slots : ptr[s] = NULL
        BY <1>1 DEF InitCall, IrqInv, LoopInv
    <2> QED
        BY <2>1, <2>2 DEF Whole!my_mem_init, Whole!Blocks, Blocks
<1>2. CASE InitClear
    <2>1. /\ pc = "clear" /\ ptr' = ptr /\ req' = req
          /\ (memrdy \/ pc = "clear")' = (memrdy \/ pc = "clear")
        BY <1>2 DEF InitClear, IrqInv, LoopInv
    <2>2. SettledMap = [b \in Blocks |-> 0]
        BY <2>1 DEF SettledMap
    <2>3. SettledMap' = [b \in Blocks |-> 0]
        <3>1. CASE i < TblSize /\ pc' = "clear"
            BY <3>1 DEF SettledMap
        <3>2. CASE i = TblSize /\ memmap' = memmap /\ pc' = "idle"
            <4>1. \A k \in Blocks : memmap[k] = 0
                BY <2>1, <3>2, IrqAssumption DEF IrqInv, LoopInv, Blocks
            <4>2. \A k \in Blocks : SettledMap'[k] = 0
                BY <3>2, <4>1 DEF SettledMap
            <4> QED
                BY <4>2 DEF SettledMap
        <3> QED
            BY <1>2, <3>1, <3>2 DEF InitClear
    <2> QED
        BY <2>1, <2>2, <2>3 DEF Whole!vars
<1> QED
    BY <1>1, <1>2

LEMMA InitLoops ==
    ASSUME IrqInv, InitCall \/ InitClear
    PROVE  Loops'
<1>1. CASE InitCall
    BY <1>1, IrqAssumption DEF InitCall, IrqInv, Loops, LoopInv, ScanInv, MarkInv, FreeInv
<1>2. CASE InitClear
    <2>1. CASE /\ i < TblSize /\ memmap' = [memmap EXCEPT ![i] = 0] /\ i' = i + 1
               /\ UNCHANGED <<memrdy, pc>>
        BY <1>2, <2>1, IrqAssumption
        DEF InitClear, IrqInv, Loops, LoopInv, ScanInv, MarkInv, FreeInv, Blocks
    <2>2. CASE i = TblSize /\ memrdy' = TRUE /\ pc' = "idle" /\ UNCHANGED <<memmap, i>>
        BY <1>2, <2>2 DEF InitClear, IrqInv, Loops, LoopInv, ScanInv, MarkInv, FreeInv
    <2> QED
        BY <1>2, <2>1, <2>2 DEF InitClear
<1> QED
    BY <1>1, <1>2

(* What a search begins with: nothing is counted, and no run lies above the *)
(* last block.                                                             *)
LEMMA CallLoops ==
    ASSUME IrqInv, NEW s \in MainSlots, NEW size \in Sizes, MallocCall(s, size)
    PROVE  UNCHANGED Whole!vars /\ Loops'
<1>0. /\ pc = "idle" /\ pc' = "scan" /\ UNCHANGED <<memmap, memrdy, ptr, req>>
      /\ offset' = TblSize - 1 /\ cmemb' = 0 /\ size > 0 /\ size \in Nat
      /\ call' = [slot |-> s, size |-> size] /\ ptr[s] = NULL
      /\ memmap \in [Blocks -> Nat] /\ memmap' \in [Blocks -> Nat] /\ memrdy
    BY IrqAssumption DEF MallocCall, IrqInv, LoopInv
<1>1. UNCHANGED Whole!vars
    <2>1. SettledMap' = SettledMap
        BY <1>0, SettledAsIs DEF SettledMap
    <2> QED
        BY <1>0, <2>1 DEF Whole!vars
<1>2. call'.slot = s /\ call'.size = size
    BY <1>0
<1>3. Wanted' = Pool!nmemb(size) /\ Wanted' \in Nat /\ Wanted' > 0
    <2>1. Wanted' = Pool!nmemb(size)
        BY <1>2 DEF Wanted, Pool!nmemb
    <2> QED
        BY <1>0, <2>1, Counted
<1>4. ScanInv'
    <2>1. Asked'
        BY <1>0, <1>2 DEF Asked
    <2>2. /\ offset' \in -1..TblSize-1 /\ cmemb' \in 0..Wanted'-1
          /\ offset' + 1 + cmemb' = TblSize
          /\ ~ \E k \in Nat : k \in offset'+1..offset'+cmemb'
          /\ ~ \E c \in Blocks : c > offset'
        BY <1>0, <1>3, IrqAssumption DEF Blocks
    <2>3. offset'+1..offset'+cmemb' = {}
        BY <1>0, IrqAssumption
    <2> QED
        BY <1>0, <2>1, <2>2, <2>3, IrqAssumption DEF ScanInv
<1> QED
    BY <1>0, <1>1, <1>4 DEF Loops, LoopInv, MarkInv, FreeInv, IrqInv

(* One iteration of the search changes nothing MyMem sees.  A run that is  *)
(* long enough is found as soon as it is counted, so it is the highest.    *)
LEMMA ScanSteps ==
    ASSUME IrqInv, Scan \/ ScanFailed
    PROVE  UNCHANGED Whole!vars
<1>1. /\ pc = "scan" /\ pc' \in {"scan", "mark", "idle"} /\ UNCHANGED <<memmap, memrdy, ptr, req>>
      /\ pc' = "mark" => i' = 0 /\ offset' = offset
      /\ memmap \in [Blocks -> Nat] /\ offset \in -1..TblSize-1
    BY DEF Scan, ScanFailed, IrqInv, LoopInv, ScanInv
<1>2. SettledMap' = SettledMap
    <2>1. SettledMap = memmap
        BY <1>1, SettledAsIs
    <2>2. CASE pc' # "mark"
        <3>1. \A k \in Blocks : SettledMap'[k] = memmap[k]
            BY <1>1, <2>2 DEF SettledMap
        <3> QED
            BY <1>1, <2>1, <3>1 DEF SettledMap
    <2>3. CASE pc' = "mark"
        <3>1. offset'..offset'+i'-1 = {}
            BY <1>1, <2>3, IrqAssumption
        <3>2. \A k \in Blocks : SettledMap'[k] = memmap[k]
            BY <1>1, <2>3, <3>1 DEF SettledMap
        <3> QED
            BY <1>1, <2>1, <3>2 DEF SettledMap
    <2> QED
        BY <2>2, <2>3
<1> QED
    BY <1>1, <1>2 DEF Whole!vars

LEMMA ScanLoops ==
    ASSUME IrqInv, Scan \/ ScanFailed
    PROVE  Loops'
<1>0. /\ pc = "scan" /\ UNCHANGED <<memmap, memrdy, ptr, req, call>>
      /\ memmap \in [Blocks -> Nat] /\ memrdy
      /\ Asked /\ offset \in -1..TblSize-1 /\ cmemb \in 0..Wanted-1
      /\ offset + 1 + cmemb <= TblSize
      /\ \A k \in offset+1..offset+cmemb : memmap[k] = 0
      /\ offset + 1 + cmemb = TblSize \/ memmap[offset + 1 + cmemb] # 0
      /\ \A c \in Blocks : c > offset => ~Pool!FreeRun(memmap, c, Wanted)
    BY DEF Scan, ScanFailed, locals, IrqInv, LoopInv, ScanInv
<1>1. Wanted \in Nat /\ Wanted > 0 /\ Wanted' = Wanted /\ Asked' /\ TblSize \in Nat
    BY <1>0, Counted, IrqAssumption DEF Asked, Wanted, Pool!nmemb
<1>2. CASE ScanFailed
    BY <1>0, <1>2 DEF ScanFailed, Loops, LoopInv, ScanInv, MarkInv, FreeInv
<1>3. CASE Scan
    <2>0. offset \in Blocks /\ offset \in Nat /\ cmemb \in Nat /\ cmemb' = Count
        BY <1>0, <1>3, <1>1 DEF Scan, Blocks
    <2> DEFINE n == cmemb + 1
    <2>1. ASSUME memmap[offset] = 0
          PROVE  /\ \A k \in offset..offset+n-1 : memmap[k] = 0
                 /\ n # Wanted => ~Pool!FreeRun(memmap, offset, Wanted)
                 /\ Count = n
        <3>1. \A k \in offset..offset+n-1 : memmap[k] = 0
            <4>1. \A k \in offset..offset+n-1 : k = offset \/ k \in offset+1..offset+cmemb
                BY <1>0, <1>1, <2>0
            <4> QED
                BY <1>0, <2>1, <4>1
        <3>2. ASSUME n # Wanted, Pool!FreeRun(memmap, offset, Wanted) PROVE FALSE
            <4>1. offset + Wanted <= TblSize
                  /\ \A k \in offset..offset+Wanted-1 : memmap[k] = 0
                BY <3>2 DEF Pool!FreeRun
            <4>2. offset + 1 + cmemb \in offset..offset+Wanted-1
                  /\ offset + 1 + cmemb < offset + Wanted
                BY <1>0, <1>1, <2>0, <3>2
            <4> QED
                BY <1>0, <1>1, <2>0, <4>1, <4>2
        <3> QED
            BY <2>1, <3>1, <3>2 DEF Count
    <2>2. ASSUME memmap[offset] # 0
          PROVE  Count = 0 /\ ~Pool!FreeRun(memmap, offset, Wanted)
        <3>1. offset \in offset..offset+Wanted-1
            BY <1>1, <2>0
        <3> QED
            BY <2>2, <3>1 DEF Count, Pool!FreeRun
    <2>3. CASE Count = Wanted /\ pc' = "mark" /\ i' = 0 /\ UNCHANGED offset
        <3>1. memmap[offset] = 0 /\ n = Wanted
            BY <1>1, <2>1, <2>2, <2>3
        <3>2. Pool!FreeRun(memmap, offset, Wanted)
            BY <1>0, <1>1, <2>0, <2>1, <3>1 DEF Pool!FreeRun
        <3>3. Pool!HighestFreeRun(memmap, offset, Wanted)
            <4>1. ASSUME NEW c \in Blocks, Pool!FreeRun(memmap, c, Wanted) PROVE c <= offset
                BY <1>0, <2>0, <4>1, <1>1 DEF Blocks
            <4> QED
                BY <2>0, <3>2, <4>1 DEF Pool!HighestFreeRun, Pool!FreeRuns, Pool!Blocks, Blocks
        <3>4. SettledMap' = memmap'
            <4>1. SettledMap' = SettledMap /\ SettledMap = memmap
                BY <1>0, ScanSteps, SettledAsIs DEF Whole!vars
            <4> QED
                BY <1>0, <4>1
        <3>5. Pool!HighestFreeRun(memmap, offset, Wanted)' = Pool!HighestFreeRun(memmap, offset, Wanted)
            BY <1>0, <1>1, <2>3
            DEF Pool!HighestFreeRun, Pool!FreeRuns, Pool!FreeRun, Pool!Blocks
        <3>6. offset'..offset'+i'-1 = {}
            BY <2>0, <2>3, <1>1 DEF Blocks
        <3>7. MarkInv'
            BY <1>0, <1>1, <2>3, <3>3, <3>4, <3>5, <3>6
            DEF MarkInv, Pool!HighestFreeRun, Pool!FreeRuns, Pool!FreeRun, Pool!Blocks
        <3> QED
            BY <1>0, <2>3, <3>7 DEF Loops, LoopInv, ScanInv, FreeInv
    <2>4. CASE Count # Wanted /\ offset' = offset - 1 /\ UNCHANGED <<pc, i>>
        <3>1. ~Pool!FreeRun(memmap, offset, Wanted)
            BY <2>1, <2>2, <2>4
        <3>2. \A c \in Blocks : c > offset' => ~Pool!FreeRun(memmap, c, Wanted)
            BY <1>0, <2>0, <2>4, <3>1 DEF Blocks
        <3>3. /\ offset' = offset - 1 /\ offset' \in -1..TblSize-1
            BY <1>1, <2>0, <2>4 DEF Blocks
        <3>4. /\ cmemb' \in 0..Wanted-1 /\ offset' + 1 + cmemb' <= TblSize
              /\ \A k \in offset'+1..offset'+cmemb' : memmap[k] = 0
              /\ offset' + 1 + cmemb' = TblSize \/ memmap[offset' + 1 + cmemb'] # 0
            <4>1. CASE memmap[offset] = 0
                <5>1. cmemb' = n /\ n # Wanted
                    BY <2>0, <2>1, <2>4, <4>1
                <5>2. offset' + 1 = offset /\ offset' + 1 + cmemb' = offset + 1 + cmemb
                      /\ offset' + cmemb' = offset + n - 1
                    BY <2>0, <3>3, <5>1
                <5>3. offset' + 1 + cmemb' <= TblSize
                    BY <1>0, <5>2
                <5>4. cmemb' \in 0..Wanted-1
                    BY <1>0, <1>1, <5>1
                <5> QED
                    BY <1>0, <2>1, <3>3, <4>1, <5>2, <5>3, <5>4
            <4>2. CASE memmap[offset] # 0
                <5>1. cmemb' = 0
                    BY <2>0, <2>2, <4>2
                <5>2. offset' + 1 + cmemb' = offset
                    BY <2>0, <3>3, <5>1
                <5>3. offset'+1..offset'+cmemb' = {}
                    BY <2>0, <3>3, <5>1
                <5> QED
                    BY <1>1, <2>0, <4>2, <5>1, <5>2, <5>3 DEF Blocks
            <4> QED
                BY <4>1, <4>2
        <3>5. Pool!FreeRun(memmap, offset, Wanted) \in BOOLEAN
            BY DEF Pool!FreeRun
        <3>6. ScanInv'
            BY <1>0, <1>1, <2>4, <3>2, <3>3, <3>4 DEF ScanInv, Pool!FreeRun
        <3> QED
            BY <1>0, <2>4, <3>6 DEF Loops, LoopInv, MarkInv, FreeInv
    <2> QED
        BY <1>3, <2>3, <2>4 DEF Scan, Wanted
<1> QED
    BY <1>2, <1>3

(* A block marked is one MyMem still sees free; when the last one is, all   *)
(* of the run is taken at once.                                            *)
LEMMA MarkFacts ==
    ASSUME IrqInv, pc = "mark"
    PROVE  /\ Asked /\ memrdy /\ memmap \in [Blocks -> Nat]
           /\ call.size \in Nat /\ Wanted \in Nat /\ Wanted > 0 /\ TblSize \in Nat
           /\ offset \in Blocks /\ offset \in Nat /\ offset + Wanted <= TblSize
           /\ i \in 0..Wanted /\ i \in Nat
           /\ Pool!HighestFreeRun(SettledMap, offset, Wanted)
           /\ \A k \in offset..offset+i-1 : memmap[k] = Wanted
           /\ \A k \in offset..offset+Wanted-1 : SettledMap[k] = 0
<1>1. /\ Asked /\ memrdy /\ memmap \in [Blocks -> Nat] /\ i \in 0..Wanted
      /\ Pool!HighestFreeRun(SettledMap, offset, Wanted)
      /\ \A k \in offset..offset+i-1 : memmap[k] = Wanted
    BY DEF IrqInv, LoopInv, MarkInv
<1>2. call.size \in Nat /\ Wanted \in Nat /\ Wanted > 0 /\ TblSize \in Nat
    BY <1>1, Counted, IrqAssumption DEF Asked, Wanted
<1>3. offset \in Blocks /\ offset + Wanted <= TblSize
      /\ \A k \in offset..offset+Wanted-1 : SettledMap[k] = 0
    BY <1>1 DEF Pool!HighestFreeRun, Pool!FreeRuns, Pool!FreeRun, Pool!Blocks, Blocks
<1>4. offset \in Nat /\ i \in Nat
    BY <1>1, <1>2, <1>3 DEF Blocks
<1> QED
    BY <1>1, <1>2, <1>3, <1>4

LEMMA MarkOne ==
    ASSUME IrqInv, MarkRun, i < Wanted
    PROVE  SettledMap' = SettledMap
<1>0. pc = "mark" /\ memrdy' = memrdy /\ call' = call /\ offset' = offset
    BY DEF MarkRun
<1>1. /\ Asked /\ memrdy /\ memmap \in [Blocks -> Nat]
      /\ call.size \in Nat /\ Wanted \in Nat /\ Wanted > 0 /\ TblSize \in Nat
      /\ offset \in Blocks /\ offset \in Nat /\ offset + Wanted <= TblSize
      /\ i \in 0..Wanted /\ i \in Nat
      /\ Pool!HighestFreeRun(SettledMap, offset, Wanted)
      /\ \A k \in offset..offset+i-1 : memmap[k] = Wanted
      /\ \A k \in offset..offset+Wanted-1 : SettledMap[k] = 0
    BY <1>0, MarkFacts
<1>2. memmap' = [memmap EXCEPT ![offset + i] = Wanted] /\ i' = i + 1 /\ pc' = pc
    BY <1>1 DEF MarkRun, Wanted
<1>3. ASSUME NEW k \in Blocks PROVE SettledMap'[k] = SettledMap[k]
    <2>0. k \in Nat
        BY <1>1 DEF Blocks
    <2>1. SettledMap'[k] = IF k \in offset..offset+i'-1 THEN 0 ELSE memmap'[k]
        BY <1>0, <1>2 DEF SettledMap
    <2>2. SettledMap[k] = IF k \in offset..offset+i-1 THEN 0 ELSE memmap[k]
        BY <1>0, Settled
    <2>3. CASE k \in offset..offset+i-1
        <3>1. k \in offset..offset+i'-1
            BY <1>1, <1>2, <2>0, <2>3
        <3> QED
            BY <2>1, <2>2, <2>3, <3>1
    <2>4. CASE k = offset + i
        <3>1. k \in offset..offset+i'-1 /\ k \in offset..offset+Wanted-1
            BY <1>1, <1>2, <2>0, <2>4
        <3> QED
            BY <1>1, <2>1, <3>1
    <2>5. CASE k \notin offset..offset+i-1 /\ k # offset + i
        <3>1. k \notin offset..offset+i'-1
            BY <1>1, <1>2, <2>0, <2>5
        <3>2. memmap'[k] = memmap[k]
            BY <1>1, <1>2, <2>5
        <3> QED
            BY <2>1, <2>2, <2>5, <3>1, <3>2
    <2> QED
        BY <2>3, <2>4, <2>5
<1>4. SettledMap' = SettledMap
    BY <1>3 DEF SettledMap
<1> QED
    BY <1>4

LEMMA MarkSteps ==
    ASSUME IrqInv, MarkRun
    PROVE  UNCHANGED Whole!vars \/ Whole!mymalloc(call.slot, call.size)
<1>0. pc = "mark" /\ memrdy' = memrdy /\ call' = call /\ offset' = offset
    BY DEF MarkRun
<1>1. /\ Asked /\ memrdy /\ memmap \in [Blocks -> Nat]
      /\ call.size \in Nat /\ Wanted \in Nat /\ Wanted > 0 /\ TblSize \in Nat
      /\ offset \in Blocks /\ offset \in Nat /\ offset + Wanted <= TblSize
      /\ i \in 0..Wanted /\ i \in Nat
      /\ Pool!HighestFreeRun(SettledMap, offset, Wanted)
      /\ \A k \in offset..offset+i-1 : memmap[k] = Wanted
      /\ \A k \in offset..offset+Wanted-1 : SettledMap[k] = 0
    BY <1>0, MarkFacts
<1>2. CASE i < Wanted /\ memmap' = [memmap EXCEPT ![offset + i] = Wanted] /\ i' = i + 1
           /\ UNCHANGED <<pc, ptr, req>>
    <2>2. SettledMap' = SettledMap
        BY <1>2, MarkOne
    <2> QED
        BY <1>0, <1>2, <2>2 DEF Whole!vars
<1>3. CASE /\ i = Wanted /\ memmap' = memmap /\ pc' = "idle"
           /\ ptr' = [ptr EXCEPT ![call.slot] = offset * BlkSize]
           /\ req' = [req EXCEPT ![call.slot] = call.size]
    <2>1. SettledMap' = [k \in Blocks |-> IF k \in offset..offset+Wanted-1 THEN Wanted
                                          ELSE SettledMap[k]]
        <3>1. ASSUME NEW k \in Blocks
              PROVE  SettledMap'[k] = IF k \in offset..offset+Wanted-1 THEN Wanted
                                      ELSE SettledMap[k]
            <4>1. SettledMap'[k] = memmap[k]
                BY <1>3 DEF SettledMap
            <4>2. SettledMap[k] = IF k \in offset..offset+Wanted-1 THEN 0 ELSE memmap[k]
                BY <1>0, <1>3, Settled
            <4>3. k \in offset..offset+Wanted-1 => memmap[k] = Wanted
                BY <1>1, <1>3
            <4> QED
                BY <4>1, <4>2, <4>3
        <3> QED
            BY <3>1 DEF SettledMap
    <2>2. Wanted = Whole!nmemb(call.size)
        BY <1>1, Counted DEF Wanted
    <2>3. Whole!ReadyMap = SettledMap
        BY <1>1 DEF Whole!ReadyMap
    <2>4. SettledMap' = Whole!Mark(Whole!ReadyMap, offset, Whole!nmemb(call.size))
        BY <2>1, <2>2, <2>3 DEF Whole!Mark, Whole!Blocks, Blocks
    <2>5. Whole!HighestFreeRun(Whole!ReadyMap, offset, Whole!nmemb(call.size))
        BY <1>1, <2>2, <2>3
        DEF Pool!HighestFreeRun, Pool!FreeRuns, Pool!FreeRun, Pool!Blocks,
            Whole!HighestFreeRun, Whole!FreeRuns, Whole!FreeRun, Whole!Blocks
    <2>6. (memrdy \/ pc = "clear")' = TRUE
        BY <1>0, <1>1
    <2>7. offset \in Whole!Blocks
        BY <1>1 DEF Whole!Blocks, Blocks
    <2> QED
        BY <1>1, <1>3, <2>4, <2>5, <2>6, <2>7 DEF Whole!mymalloc, Asked
<1> QED
    BY <1>2, <1>3 DEF MarkRun, Wanted

LEMMA MarkLoops ==
    ASSUME IrqInv, MarkRun
    PROVE  Loops'
<1>0. pc = "mark" /\ memrdy' = memrdy /\ call' = call /\ offset' = offset
    BY DEF MarkRun
<1>1. /\ Asked /\ memrdy /\ memmap \in [Blocks -> Nat]
      /\ Wanted \in Nat /\ TblSize \in Nat
      /\ offset \in Nat /\ offset + Wanted <= TblSize
      /\ i \in 0..Wanted /\ i \in Nat
      /\ Pool!HighestFreeRun(SettledMap, offset, Wanted)
      /\ \A k \in offset..offset+i-1 : memmap[k] = Wanted
    BY <1>0, MarkFacts
<1>2. CASE i < Wanted /\ memmap' = [memmap EXCEPT ![offset + i] = Wanted] /\ i' = i + 1
           /\ UNCHANGED <<pc, ptr, req>>
    <2>1. SettledMap' = SettledMap
        BY <1>2, MarkOne
    <2>2. Wanted' = Wanted /\ Asked'
        BY <1>0, <1>1, <1>2 DEF Wanted, Asked, Pool!nmemb
    <2>3. Pool!HighestFreeRun(SettledMap, offset, Wanted)'
        BY <1>0, <1>1, <2>1, <2>2 DEF Pool!HighestFreeRun, Pool!FreeRuns, Pool!FreeRun, Pool!Blocks
    <2>4. memmap' \in [Blocks -> Nat]
        BY <1>1, <1>2
    <2>5. ASSUME NEW k \in offset..offset+i'-1 PROVE memmap'[k] = Wanted
        <3>1. k \in Nat /\ k \in Blocks /\ (k = offset + i \/ k \in offset..offset+i-1)
            BY <1>1, <1>2 DEF Blocks
        <3> QED
            BY <1>1, <1>2, <3>1
    <2>6. i' \in 0..Wanted
        BY <1>1, <1>2
    <2>7. MarkInv'
        BY <1>0, <1>2, <2>2, <2>3, <2>5, <2>6 DEF MarkInv
    <2> QED
        BY <1>0, <1>1, <1>2, <2>4, <2>7 DEF Loops, LoopInv, ScanInv, FreeInv
<1>3. CASE memmap' = memmap /\ pc' = "idle"
    BY <1>0, <1>1, <1>3 DEF Loops, LoopInv, ScanInv, MarkInv, FreeInv
<1> QED
    BY <1>2, <1>3 DEF MarkRun, Wanted

(* The length FreeCall reads is the one MyMem counts with.                 *)
LEMMA FreeCalls ==
    ASSUME IrqInv, NEW s \in MainSlots, FreeCall(s)
    PROVE  UNCHANGED Whole!vars /\ Loops'
<1>0. /\ pc = "idle" /\ pc' = "free" /\ UNCHANGED <<memmap, memrdy, ptr, req>>
      /\ ptr[s] # NULL /\ call' = [slot |-> s, size |-> 0] /\ i' = 0
      /\ offset' = Pool!index(ptr[s]) /\ nfree' = memmap[Pool!index(ptr[s])]
      /\ memmap \in [Blocks -> Nat] /\ memrdy /\ s \in Slots
    BY DEF FreeCall, IrqInv, LoopInv, Slots
<1>1. SettledMap = memmap
    BY <1>0, SettledAsIs
<1>2. /\ Pool!index(ptr[s]) \in Nat /\ Pool!nmemb(req[s]) \in Nat /\ Pool!nmemb(req[s]) > 0
      /\ \A k \in Pool!index(ptr[s]) .. Pool!index(ptr[s]) + Pool!nmemb(req[s]) - 1 :
             SettledMap[k] = Pool!nmemb(req[s])
    BY <1>0, RunHeld
<1>3. nfree' = Pool!nmemb(req[s])
    <2>1. Pool!index(ptr[s]) \in Pool!index(ptr[s]) .. Pool!index(ptr[s]) + Pool!nmemb(req[s]) - 1
        BY <1>2
    <2> QED
        BY <1>0, <1>1, <1>2, <2>1
<1>4. offset'..offset'+i'-1 = {}
    BY <1>0, <1>2
<1>5. SettledMap' = SettledMap
    <2>1. \A k \in Blocks : SettledMap'[k] = memmap[k]
        BY <1>0, <1>4 DEF SettledMap
    <2> QED
        BY <1>0, <1>1, <2>1 DEF SettledMap
<1>6. UNCHANGED Whole!vars
    BY <1>0, <1>5 DEF Whole!vars
<1>7. call'.slot = s
    BY <1>0
<1>8. /\ Pool!index(ptr[call.slot])' = Pool!index(ptr[s])
      /\ Pool!nmemb(req[call.slot])' = Pool!nmemb(req[s])
    BY <1>0, <1>7 DEF Pool!index, Pool!nmemb
<1>9. FreeInv'
    BY <1>0, <1>2, <1>3, <1>4, <1>7, <1>8 DEF FreeInv
<1> QED
    BY <1>0, <1>6, <1>9 DEF Loops, LoopInv, ScanInv, MarkInv

(* A block cleared is one MyMem still sees taken; when the last one is, all *)
(* of the run is given back at once.                                       *)
LEMMA FreeFacts ==
    ASSUME IrqInv, pc = "free"
    PROVE  /\ memrdy /\ memmap \in [Blocks -> Nat] /\ TblSize \in Nat
           /\ call.slot \in Slots /\ ptr[call.slot] # NULL
           /\ offset = Pool!index(ptr[call.slot]) /\ nfree = Pool!nmemb(req[call.slot])
           /\ offset \in Nat /\ nfree \in Nat /\ nfree > 0 /\ offset + nfree <= TblSize
           /\ ptr[call.slot] \in Nat /\ ptr[call.slot] = offset * BlkSize
           /\ i \in 0..nfree /\ i \in Nat
           /\ \A k \in offset..offset+i-1 : memmap[k] = 0
           /\ \A k \in offset..offset+nfree-1 : SettledMap[k] = nfree
<1>1. /\ memrdy /\ memmap \in [Blocks -> Nat] /\ TblSize \in Nat
      /\ call.slot \in Slots /\ ptr[call.slot] # NULL
      /\ offset = Pool!index(ptr[call.slot]) /\ nfree = Pool!nmemb(req[call.slot])
      /\ i \in 0..nfree
      /\ \A k \in offset..offset+i-1 : memmap[k] = 0
    BY IrqAssumption DEF IrqInv, LoopInv, FreeInv, Slots
<1>2. /\ offset \in Nat /\ nfree \in Nat /\ nfree > 0 /\ offset + nfree <= TblSize
      /\ ptr[call.slot] \in Nat /\ ptr[call.slot] = offset * BlkSize
      /\ \A k \in offset..offset+nfree-1 : SettledMap[k] = nfree
    BY <1>1, RunHeld, Zenon
<1>3. i \in Nat
    BY <1>1, <1>2
<1> QED
    BY <1>1, <1>2, <1>3, Zenon

LEMMA FreeOne ==
    ASSUME IrqInv, FreeRun, i < nfree
    PROVE  SettledMap' = SettledMap
<1>0. pc = "free" /\ offset' = offset /\ nfree' = nfree
    BY DEF FreeRun
<1>1. /\ memmap \in [Blocks -> Nat] /\ TblSize \in Nat
      /\ offset \in Nat /\ nfree \in Nat /\ i \in Nat
      /\ \A k \in offset..offset+nfree-1 : SettledMap[k] = nfree
    BY <1>0, FreeFacts
<1>2. memmap' = [memmap EXCEPT ![offset + i] = 0] /\ i' = i + 1 /\ pc' = pc
    BY <1>1 DEF FreeRun
<1>3. ASSUME NEW k \in Blocks PROVE SettledMap'[k] = SettledMap[k]
    <2>0. k \in Nat
        BY <1>1 DEF Blocks
    <2>1. SettledMap'[k] = IF k \in offset..offset+i'-1 THEN nfree ELSE memmap'[k]
        BY <1>0, <1>2 DEF SettledMap
    <2>2. SettledMap[k] = IF k \in offset..offset+i-1 THEN nfree ELSE memmap[k]
        BY <1>0, Settled
    <2>3. CASE k \in offset..offset+i-1
        <3>1. k \in offset..offset+i'-1
            BY <1>1, <1>2, <2>0, <2>3
        <3> QED
            BY <2>1, <2>2, <2>3, <3>1
    <2>4. CASE k = offset + i
        <3>1. k \in offset..offset+i'-1 /\ k \in offset..offset+nfree-1
            BY <1>1, <1>2, <2>0, <2>4
        <3> QED
            BY <1>1, <2>1, <3>1
    <2>5. CASE k \notin offset..offset+i-1 /\ k # offset + i
        <3>1. k \notin offset..offset+i'-1
            BY <1>1, <1>2, <2>0, <2>5
        <3>2. memmap'[k] = memmap[k]
            BY <1>1, <1>2, <2>5
        <3> QED
            BY <2>1, <2>2, <2>5, <3>1, <3>2
    <2> QED
        BY <2>3, <2>4, <2>5
<1> QED
    BY <1>3 DEF SettledMap

LEMMA FreeSteps ==
    ASSUME IrqInv, FreeRun
    PROVE  UNCHANGED Whole!vars \/ Whole!myfree(call.slot)
<1>0. pc = "free" /\ memrdy' = memrdy
    BY DEF FreeRun
<1>1. /\ memrdy /\ memmap \in [Blocks -> Nat] /\ TblSize \in Nat
      /\ call.slot \in Slots /\ ptr[call.slot] # NULL
      /\ offset = Pool!index(ptr[call.slot])
      /\ offset \in Nat /\ nfree \in Nat /\ nfree > 0 /\ offset + nfree <= TblSize
      /\ ptr[call.slot] = offset * BlkSize
      /\ i \in 0..nfree
      /\ \A k \in offset..offset+i-1 : memmap[k] = 0
      /\ \A k \in offset..offset+nfree-1 : SettledMap[k] = nfree
    BY <1>0, FreeFacts
<1>2. CASE i < nfree /\ UNCHANGED <<pc, ptr, req>>
    <2>1. SettledMap' = SettledMap
        BY <1>2, FreeOne
    <2> QED
        BY <1>0, <1>2, <2>1 DEF Whole!vars
<1>3. CASE /\ i = nfree /\ memmap' = memmap /\ pc' = "idle"
           /\ ptr' = [ptr EXCEPT ![call.slot] = NULL]
           /\ req' = [req EXCEPT ![call.slot] = 0]
    <2>1. ASSUME NEW k \in Blocks
          PROVE  SettledMap'[k] = IF k \in offset..offset+nfree-1 THEN 0 ELSE SettledMap[k]
        <3>1. SettledMap'[k] = memmap[k]
            BY <1>3 DEF SettledMap
        <3>2. SettledMap[k] = IF k \in offset..offset+nfree-1 THEN nfree ELSE memmap[k]
            BY <1>0, <1>3, Settled
        <3>3. k \in offset..offset+nfree-1 => memmap[k] = 0
            BY <1>1, <1>3
        <3> QED
            BY <3>1, <3>2, <3>3
    <2>2. Whole!index(ptr[call.slot]) = offset
        BY <1>1 DEF Whole!index, Pool!index
    <2>3. SettledMap[offset] = nfree
        <3>1. offset \in offset..offset+nfree-1
            BY <1>1
        <3> QED
            BY <1>1, <3>1
    <2>4. SettledMap' = Whole!Clear(SettledMap, ptr[call.slot])
        <3>1. SettledMap' = [k \in Blocks |-> IF k \in offset..offset+nfree-1 THEN 0
                                              ELSE SettledMap[k]]
            BY <2>1 DEF SettledMap
        <3> QED
            BY <2>2, <2>3, <3>1 DEF Whole!Clear, Whole!Blocks, Blocks
    <2>5. ptr[call.slot] < Whole!memsize
        <3>1. offset + 1 <= TblSize /\ BlkSize \in Nat \ {0}
            BY <1>1, IrqAssumption
        <3>2. (offset + 1) * BlkSize <= TblSize * BlkSize
            BY <1>1, <3>1
        <3>3. offset * BlkSize < TblSize * BlkSize
            BY <1>1, <3>1, <3>2
        <3> QED
            BY <1>1, <3>3 DEF Whole!memsize
    <2>6. (memrdy \/ pc = "clear")' = (memrdy \/ pc = "clear")
        BY <1>0, <1>3
    <2> QED
        BY <1>1, <1>3, <2>4, <2>5, <2>6 DEF Whole!myfree
<1> QED
    BY <1>2, <1>3 DEF FreeRun

LEMMA FreeLoops ==
    ASSUME IrqInv, FreeRun
    PROVE  Loops'
<1>0. pc = "free" /\ UNCHANGED <<memrdy, call, offset, nfree>>
    BY DEF FreeRun
<1>1. /\ memrdy /\ memmap \in [Blocks -> Nat] /\ TblSize \in Nat
      /\ call.slot \in MainSlots /\ ptr[call.slot] # NULL
      /\ offset = Pool!index(ptr[call.slot]) /\ nfree = Pool!nmemb(req[call.slot])
      /\ offset \in Nat /\ nfree \in Nat /\ offset + nfree <= TblSize
      /\ i \in 0..nfree /\ i \in Nat
      /\ \A k \in offset..offset+i-1 : memmap[k] = 0
    BY <1>0, FreeFacts DEF IrqInv, FreeInv
<1>2. CASE i < nfree /\ memmap' = [memmap EXCEPT ![offset + i] = 0] /\ i' = i + 1
           /\ UNCHANGED <<pc, ptr, req>>
    <2>1. memmap' \in [Blocks -> Nat]
        BY <1>1, <1>2
    <2>2. ASSUME NEW k \in offset..offset+i'-1 PROVE memmap'[k] = 0
        <3>1. k \in Nat /\ k \in Blocks /\ (k = offset + i \/ k \in offset..offset+i-1)
            BY <1>1, <1>2 DEF Blocks
        <3> QED
            BY <1>1, <1>2, <3>1
    <2>3. i' \in 0..nfree
        BY <1>1, <1>2
    <2>4. /\ Pool!index(ptr[call.slot])' = Pool!index(ptr[call.slot])
          /\ Pool!nmemb(req[call.slot])' = Pool!nmemb(req[call.slot])
        BY <1>0, <1>2 DEF Pool!index, Pool!nmemb
    <2>5. FreeInv'
        BY <1>0, <1>1, <1>2, <2>2, <2>3, <2>4 DEF FreeInv
    <2> QED
        BY <1>0, <1>1, <1>2, <2>1, <2>5 DEF Loops, LoopInv, ScanInv, MarkInv
<1>3. CASE memmap' = memmap /\ pc' = "idle"
    BY <1>0, <1>1, <1>3 DEF Loops, LoopInv, ScanInv, MarkInv, FreeInv
<1> QED
    BY <1>2, <1>3 DEF FreeRun

(* A call of a handler is a step of MyMem already.                         *)
LEMMA IsrSteps ==
    ASSUME IrqInv, pc = "idle", IsrCall
    PROVE  [Whole!Next]_(Whole!vars) /\ Loops'
<1>0. pc' = "idle" /\ memmap \in [Blocks -> Nat] /\ memrdy /\ SettledMap = memmap
    BY SettledAsIs DEF IsrCall, IrqInv, LoopInv
<1>1. PICK s \in IsrSlots : (\E size \in Sizes : Pool!mymalloc(s, size)) \/ Pool!myfree(s)
    BY DEF IsrCall
<1>2. s \in Slots
    BY DEF Slots
<1>3. ASSUME memmap' \in [Blocks -> Nat] PROVE SettledMap' = memmap'
    <2>1. \A k \in Blocks : SettledMap'[k] = memmap'[k]
        BY <1>0 DEF SettledMap
    <2> QED
        BY <1>3, <2>1 DEF SettledMap
<1>4. ASSUME NEW size \in Sizes, Pool!mymalloc(s, size)
      PROVE  Whole!mymalloc(s, size) /\ memmap' \in [Blocks -> Nat] /\ memrdy'
    <2>1. Pool!ReadyMap = memmap
        BY <1>0 DEF Pool!ReadyMap
    <2>2. size \in Nat /\ Pool!nmemb(size) \in Nat
        BY Counted, IrqAssumption
    <2>3. memmap' \in [Blocks -> Nat] /\ memrdy'
        BY <1>0, <1>4, <2>1, <2>2 DEF Pool!mymalloc, Pool!Refused, Pool!Mark, Pool!Blocks, Blocks
    <2>4. SettledMap' = memmap'
        BY <1>3, <2>3
    <2>5. (memrdy \/ pc = "clear")' = TRUE /\ memrdy' = TRUE /\ Whole!ReadyMap = memmap
        BY <1>0, <1>4 DEF Pool!mymalloc, Pool!Refused, Whole!ReadyMap
    <2>6. Whole!mymalloc(s, size)
        BY <1>0, <1>4, <2>1, <2>4, <2>5
        DEF Pool!mymalloc, Pool!Refused, Pool!FreeRuns, Pool!FreeRun, Pool!HighestFreeRun,
            Pool!Mark, Pool!nmemb, Pool!Blocks,
            Whole!mymalloc, Whole!Refused, Whole!FreeRuns, Whole!FreeRun, Whole!HighestFreeRun,
            Whole!Mark, Whole!nmemb, Whole!Blocks
    <2> QED
        BY <2>3, <2>6
<1>5. ASSUME Pool!myfree(s)
      PROVE  Whole!myfree(s) /\ memmap' \in [Blocks -> Nat] /\ memrdy'
    <2>1. memmap' \in [Blocks -> Nat] /\ memrdy'
        BY <1>0, <1>5 DEF Pool!myfree, Pool!Clear, Pool!Blocks, Blocks
    <2>2. SettledMap' = memmap'
        BY <1>3, <2>1
    <2>3. (memrdy \/ pc = "clear")' = (memrdy \/ pc = "clear")
        BY <1>0, <2>1
    <2>4. Whole!myfree(s)
        BY <1>0, <1>5, <2>2, <2>3
        DEF Pool!myfree, Pool!Clear, Pool!index, Pool!memsize, Pool!Blocks,
            Whole!myfree, Whole!Clear, Whole!index, Whole!memsize, Whole!Blocks
    <2> QED
        BY <2>1, <2>4
<1>6. Whole!Next /\ memmap' \in [Blocks -> Nat] /\ memrdy'
    BY <1>1, <1>2, <1>4, <1>5 DEF Whole!Next
<1>7. Loops'
    BY <1>0, <1>6 DEF Loops, LoopInv, ScanInv, MarkInv, FreeInv
<1> QED
    BY <1>6, <1>7

(* Every step is a step of MyMem or none, and keeps the invariant.         *)
LEMMA IrqStep == IrqInv /\ [Next]_vars => [Whole!Next]_(Whole!vars) /\ IrqInv'
<1> SUFFICES ASSUME IrqInv, [Next]_vars PROVE [Whole!Next]_(Whole!vars) /\ Loops'
    BY PoolKept DEF IrqInv, Loops
<1>1. CASE InitCall \/ InitClear
    BY <1>1, InitSteps, InitLoops DEF Whole!Next
<1>2. CASE \E s \in MainSlots, size \in Sizes : MallocCall(s, size)
    BY <1>2, CallLoops
<1>3. CASE Scan \/ ScanFailed
    BY <1>3, ScanSteps, ScanLoops
<1>4. CASE MarkRun
    <2>1. call.slot \in Slots /\ call.size \in Sizes
        BY <1>4, MarkFacts DEF MarkRun, Asked, Slots
    <2> QED
        BY <1>4, <2>1, MarkSteps, MarkLoops DEF Whole!Next
<1>5. CASE \E s \in MainSlots : FreeCall(s)
    BY <1>5, FreeCalls
<1>6. CASE FreeRun
    <2>1. call.slot \in Slots
        BY <1>6, FreeFacts DEF FreeRun
    <2> QED
        BY <1>6, <2>1, FreeSteps, FreeLoops DEF Whole!Next
<1>7. CASE pc = "idle" /\ IsrCall
    BY <1>7, IsrSteps
<1>8. CASE UNCHANGED vars
    <2>1. SettledMap' = SettledMap
        BY <1>8 DEF vars, SettledMap
    <2>2. UNCHANGED Whole!vars
        BY <1>8, <2>1 DEF vars, Whole!vars
    <2>3. UNCHANGED <<memmap, memrdy, ptr, req, pc, call, offset, cmemb, i, nfree>>
        BY <1>8 DEF vars
    <2>4. Wanted' = Wanted /\ Asked' = Asked
        BY <2>3 DEF Wanted, Asked, Pool!nmemb
    <2>5. LoopInv'
        BY <2>3 DEF LoopInv, IrqInv
    <2>6. ScanInv'
        BY <2>3, <2>4 DEF ScanInv, IrqInv, Pool!FreeRun
    <2>7. MarkInv'
        BY <2>1, <2>3, <2>4
        DEF MarkInv, IrqInv, Pool!HighestFreeRun, Pool!FreeRuns, Pool!FreeRun, Pool!Blocks
    <2>8. FreeInv'
        BY <2>3 DEF FreeInv, IrqInv, Pool!index, Pool!nmemb
    <2> QED
        BY <2>2, <2>5, <2>6, <2>7, <2>8 DEF Loops
<1> QED
    BY <1>1, <1>2, <1>3, <1>4, <1>5, <1>6, <1>7, <1>8 DEF Next, MainStep

LEMMA IrqBegins == Init => Whole!Init /\ IrqInv
<1> SUFFICES ASSUME Init PROVE Whole!Init /\ IrqInv
    OBVIOUS
<1>1. /\ memmap \in [Blocks -> Nat] /\ pc = "reset" /\ memrdy = FALSE
      /\ \A s \in Slots : ptr[s] = NULL
    BY IrqAssumption DEF Init
<1>2. SettledMap = memmap
    BY <1>1, SettledAsIs
<1>3. Whole!Init
    <2>1. [k \in 0..TblSize*BlkSize-1 |-> 0] \in [Whole!Bytes -> {0}]
        BY DEF Whole!Bytes, Whole!memsize
    <2>2. SettledMap \in [Whole!Blocks -> Garbage]
        BY <1>2 DEF Init, Whole!Blocks, Blocks
    <2>3. (memrdy \/ pc = "clear") = FALSE
        BY <1>1
    <2> QED
        BY <2>1, <2>2, <2>3 DEF Init, Whole!Init
<1>4. LoopInv /\ ScanInv /\ MarkInv /\ FreeInv
    BY <1>1 DEF LoopInv, ScanInv, MarkInv, FreeInv
<1> QED
    BY <1>3, <1>4, PoolBegins DEF IrqInv

-----------------------------------------------------------------------------
(* The theorems.                                                           *)

\* What the loops of malloc.c keep while they run: the table as MyMem has it is
\* sound, the search has passed no run that is long enough, a run half marked or
\* half cleared is whole for MyMem.
THEOREM LoopsKeepPool == Spec => []IrqInv
<1>1. IrqInv /\ [Next]_vars => IrqInv'
    BY IrqStep
<1> QED
    BY <1>1, IrqBegins, PTL DEF Spec

\* The loops of my_mem_init, my_mem_malloc and my_mem_free do what MyMem says in one
\* step, for every size of pool and block and whatever interrupts allocate between
\* two calls of the main program.
THEOREM LoopsImplement == Spec => ImplementsMyMem
<1>1. IrqInv /\ [Next]_vars => [Whole!Next]_(Whole!vars)
    BY IrqStep
<1> QED
    BY <1>1, IrqBegins, LoopsKeepPool, PTL DEF Spec, ImplementsMyMem, Whole!Spec

\* No block of the pool has two owners while my_mem_malloc and my_mem_free run, one
\* block at a time, in the main program and whole in the interrupts outside them.
THEOREM LoopsNeverOverlap == Spec => []NoOverlap
<1>1. IrqInv => NoOverlap
    <2> SUFFICES ASSUME IrqInv PROVE NoOverlap
        OBVIOUS
    <2>1. Proved!NoOverlap
        BY DEF IrqInv, Proved!PoolInv
    <2> QED
        BY <2>1 DEF NoOverlap, Pool!NoOverlap, Pool!Held, Pool!Run, Pool!index, Pool!nmemb,
                    Proved!NoOverlap, Proved!Held, Proved!Run, Proved!index, Proved!nmemb
<1> QED
    BY <1>1, LoopsKeepPool, PTL

=============================================================================
