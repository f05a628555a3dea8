------------------------------- MODULE MyMem --------------------------------
(***************************************************************************)
(* One pool (one value of memx) of Middlewares/MALLOC/malloc.c: the state  *)
(* table memmap, the ready flag, the bytes of the pool, and the pointer    *)
(* variables of the callers.  Every operation is one step here: the calls  *)
(* do not overlap.  MyMemIrq opens the loops of my_mem_malloc and lets an  *)
(* interrupt in.                                                           *)
(*                                                                         *)
(* Pointers are byte offsets from membase[memx], as in my_mem_malloc and   *)
(* my_mem_free; NULL is the null pointer (and 0xFFFFFFFF of the internal   *)
(* functions).                                                             *)
(***************************************************************************)
EXTENDS Naturals

CONSTANTS
    BlkSize,  \* memblksize[memx]: bytes of a block
    TblSize,  \* memtblsize[memx]: blocks of the pool
    Slots,    \* pointer variables of the callers
    Sizes,    \* byte counts the callers ask for (0 is refused)
    Data,     \* values of a byte
    Garbage,  \* values of a table word before my_mem_init has run
    NULL

ASSUME PoolAssumption ==
    /\ BlkSize \in Nat \ {0}
    /\ TblSize \in Nat \ {0}
    /\ Sizes \subseteq Nat
    /\ Garbage \subseteq Nat
    /\ NULL \notin Nat

ASSUME DataAssumption == Data # {}

\* The null pointer is no object.
ASSUME NullAssumption == \A size \in Sizes : NULL \notin [0..size-1 -> Data]

VARIABLES
    memmap,   \* mallco_dev.memmap[memx]
    memrdy,   \* mallco_dev.memrdy[memx]
    mem,      \* the bytes of the pool
    ptr,      \* ptr[s]: the pointer slot s holds
    req       \* req[s]: the size it asked for (history)

vars == <<memmap, memrdy, mem, ptr, req>>

Blocks == 0..TblSize-1
memsize == TblSize * BlkSize
Bytes == 0..memsize-1

-----------------------------------------------------------------------------
(* my_mem_malloc.                                                          *)

\* The blocks a request needs: size / blk, plus one for a remainder.
nmemb(size) ==
    size \div BlkSize + (IF size % BlkSize # 0 THEN 1 ELSE 0)

\* The table a request works on: a pool that is not ready is initialised.
ReadyMap == IF memrdy THEN memmap ELSE [b \in Blocks |-> 0]

\* n consecutive free blocks starting at b.
FreeRun(map, b, n) ==
    /\ b + n <= TblSize
    /\ \A k \in b..b+n-1 : map[k] = 0

FreeRuns(map, n) == {b \in Blocks : FreeRun(map, b, n)}

\* The scan goes from the last block down and stops as soon as it has
\* counted n free blocks in a row: it finds the highest run.
HighestFreeRun(map, b, n) ==
    /\ b \in FreeRuns(map, n)
    /\ \A c \in FreeRuns(map, n) : c <= b

\* Seeded fault: the marking loop stops one block early.
MarkShort(map, b, n) == [k \in Blocks |-> IF k \in b..b+n-2 THEN n ELSE map[k]]

\* Seeded fault: the marking loop runs one block too far.
MarkLong(map, b, n) ==
    [k \in Blocks \cup (b..b+n) |-> IF k \in b..b+n THEN n ELSE map[k]]

\* The table words of the run are set to its length.
Mark(map, b, n) == [k \in Blocks |-> IF k \in b..b+n-1 THEN n ELSE map[k]]


-----------------------------------------------------------------------------
(* my_mem_free.                                                            *)

\* The block an offset lies in.
index(offset) == offset \div BlkSize

\* Seeded fault: only the first block of the run is given back.
ClearFirst(map, offset) == [map EXCEPT ![index(offset)] = 0]

\* The words to clear start at the block of the offset; the word of that
\* block says how many they are.
Clear(map, offset) ==
    LET i == index(offset)
    IN  [k \in Blocks |-> IF k \in i..i+map[i]-1 THEN 0 ELSE map[k]]

-----------------------------------------------------------------------------
(* The operations the callers use.                                         *)

Init ==
    /\ memmap \in [Blocks -> Garbage]
    /\ memrdy = FALSE
    /\ mem \in [Bytes -> Data]
    /\ ptr = [s \in Slots |-> NULL]
    /\ req = [s \in Slots |-> 0]

\* main calls my_mem_init before it asks for memory: no slot is in use.
my_mem_init ==
    /\ \A s \in Slots : ptr[s] = NULL
    /\ memmap' = [b \in Blocks |-> 0]
    /\ memrdy' = TRUE
    /\ UNCHANGED <<mem, ptr, req>>

\* A request my_mem_malloc refuses: a size of 0, or no run long enough.
\* The pool is ready afterwards in every case.
Refused(size) ==
    /\ size = 0 \/ FreeRuns(ReadyMap, nmemb(size)) = {}
    /\ memmap' = ReadyMap
    /\ memrdy' = TRUE
    /\ UNCHANGED <<mem, ptr, req>>

mymalloc(s, size) ==
    /\ ptr[s] = NULL
    /\ \/ Refused(size)
       \/ /\ size > 0
          /\ \E b \in Blocks :
                /\ HighestFreeRun(ReadyMap, b, nmemb(size))
                /\ memmap' = Mark(ReadyMap, b, nmemb(size))
                /\ ptr' = [ptr EXCEPT ![s] = b * BlkSize]
          /\ memrdy' = TRUE
          /\ req' = [req EXCEPT ![s] = size]
          /\ UNCHANGED mem

\* myfree(NULL) returns at once; otherwise the slot gives its blocks back and
\* is not used again.  A slot that holds memory implies a ready pool and an
\* offset inside it, so that returns 1 and 2 of my_mem_free do not arise.
myfree(s) ==
    /\ ptr[s] # NULL
    /\ memrdy
    /\ ptr[s] < memsize
    /\ memmap' = Clear(memmap, ptr[s])
    /\ ptr' = [ptr EXCEPT ![s] = NULL]
    /\ req' = [req EXCEPT ![s] = 0]
    /\ UNCHANGED <<memrdy, mem>>

\* Seeded fault: the copy misses the last byte.
CopyShort(dst, src, size, junk) ==
    [k \in Bytes |->
        IF k \in dst..dst+size-2 /\ src + (k - dst) \in Bytes
        THEN mem[src + (k - dst)] ELSE mem[k]]

\* my_mem_copy copies ascending byte by byte.  When the destination starts
\* d bytes above the source and the copy is longer than d, it reads bytes it
\* has already written: the first d bytes repeat.  Bytes past the end of the
\* pool have an unknown value.
my_mem_copy(dst, src, size, junk) ==
    LET from(i) == IF dst > src THEN src + (i % (dst - src)) ELSE src + i
    IN  [k \in Bytes |->
            IF k \in dst..dst+size-1
            THEN IF from(k - dst) \in Bytes THEN mem[from(k - dst)] ELSE junk
            ELSE mem[k]]

\* The same copy from the null pointer: the bytes copied are unknown.
Scribble(dst, size, junk) ==
    [k \in Bytes |-> IF k \in dst..dst+size-1 THEN junk ELSE mem[k]]

\* The new run is found while the old one is still marked; the copy takes
\* `size` bytes whatever the old size was; then the old run is freed.  A
\* refused request leaves the old memory with the caller.  From a null
\* pointer the copy reads unknown bytes and myfree does nothing.
myrealloc(s, size, junk) ==
    \/ Refused(size)
    \/ /\ size > 0
       /\ \E b \in Blocks :
            /\ HighestFreeRun(ReadyMap, b, nmemb(size))
            /\ \/ /\ ptr[s] # NULL
                  /\ mem' = my_mem_copy(b * BlkSize, ptr[s], size, junk)
                  /\ memmap' = Clear(Mark(ReadyMap, b, nmemb(size)), ptr[s])
               \/ /\ ptr[s] = NULL
                  /\ mem' = Scribble(b * BlkSize, size, junk)
                  /\ memmap' = Mark(ReadyMap, b, nmemb(size))
            /\ ptr' = [ptr EXCEPT ![s] = b * BlkSize]
       /\ memrdy' = TRUE
       /\ req' = [req EXCEPT ![s] = size]

\* A caller writes a byte of the memory it asked for.
Store(s, i, d) ==
    /\ ptr[s] # NULL
    /\ i < req[s]
    /\ mem' = [mem EXCEPT ![ptr[s] + i] = d]
    /\ UNCHANGED <<memmap, memrdy, ptr, req>>

Next ==
    \/ my_mem_init
    \/ \E s \in Slots :
        \/ \E size \in Sizes : mymalloc(s, size)
        \/ myfree(s)
        \/ \E size \in Sizes, junk \in Data : myrealloc(s, size, junk)
        \/ \E size \in Sizes : \E i \in 0..size-1 : \E d \in Data : Store(s, i, d)

Spec == Init /\ [][Next]_vars

-----------------------------------------------------------------------------
(* Properties.                                                             *)

\* The types of the pool's state and of the callers' pointers.
TypeOK ==
    /\ memmap \in [Blocks -> Nat]
    /\ memrdy \in BOOLEAN
    /\ mem \in [Bytes -> Data]
    /\ ptr \in [Slots -> Nat \cup {NULL}]
    /\ req \in [Slots -> Nat]

Held == {s \in Slots : ptr[s] # NULL}

\* The blocks my_mem_malloc gave to slot s.
Run(s) == index(ptr[s]) .. index(ptr[s]) + nmemb(req[s]) - 1

\* A pointer is the start of a block, and its run lies in the pool; while the
\* pool is not ready nobody holds memory.
Placed ==
    \A s \in Held :
        /\ memrdy
        /\ req[s] > 0
        /\ ptr[s] = index(ptr[s]) * BlkSize
        /\ index(ptr[s]) + nmemb(req[s]) <= TblSize

\* No two slots share a block: however mymalloc, myfree and myrealloc follow
\* each other, a run is never handed out while another caller holds part of
\* it.
NoOverlap ==
    \A s, t \in Held : s # t => Run(s) \cap Run(t) = {}

\* The state table tells exactly what is held: a word is the length of the
\* run its block belongs to, and 0 when no caller holds the block.  A block
\* that was freed can therefore be used again, and a free of one run never
\* reaches into its neighbour.
MapExact ==
    memrdy => /\ \A s \in Held : \A k \in Run(s) : memmap[k] = nmemb(req[s])
              /\ \A k \in Blocks : memmap[k] # 0 => \E s \in Held : k \in Run(s)

\* The inductive invariant of the pool.
PoolInv == TypeOK /\ Placed /\ NoOverlap /\ MapExact

\* The objects the callers see, for the abstract heap.
Object(s) ==
    IF ptr[s] = NULL THEN NULL ELSE [i \in 0..req[s]-1 |-> mem[ptr[s] + i]]

H == INSTANCE Heap WITH obj <- [s \in Slots |-> Object(s)]

\* The pool implements the abstract heap: no operation changes the bytes of
\* an object another slot holds, and myrealloc keeps the common prefix, its
\* overrun of the source included.
ImplementsHeap == H!Spec

=============================================================================
