---------------------------- MODULE MyMemProofs -----------------------------
(***************************************************************************)
(* The pool invariant of MyMem for every block size, table size, set of    *)
(* callers and set of request sizes.                                       *)
(***************************************************************************)
EXTENDS MyMem, TLAPS

(* The block number of a pointer my_mem_malloc returned is the block it    *)
(* marked: offset * blksize / blksize.                                     *)
LEMMA DivMul ==
    ASSUME NEW a \in Nat, NEW b \in Nat \ {0}
    PROVE  (a * b) \div b = a
BY SMT

LEMMA IndexOfBlock ==
    ASSUME NEW b \in Nat
    PROVE  b * BlkSize \in Nat /\ index(b * BlkSize) = b
BY DivMul, PoolAssumption DEF index

(* A non-empty request needs at least one block.                           *)
LEMMA NmembPositive ==
    ASSUME NEW size \in Nat
    PROVE  nmemb(size) \in Nat /\ (size > 0 => nmemb(size) > 0)
BY PoolAssumption, SMT DEF nmemb

(* An offset is a natural number of blocks.                                *)
LEMMA IndexType ==
    ASSUME NEW p \in Nat
    PROVE  index(p) \in Nat
BY PoolAssumption, SMT DEF index

(* Types of the table operators.                                           *)
LEMMA TableTypes ==
    ASSUME NEW map \in [Blocks -> Nat], NEW b \in Nat, NEW n \in Nat
    PROVE  Mark(map, b, n) \in [Blocks -> Nat]
BY DEF Mark

LEMMA ClearType ==
    ASSUME NEW map \in [Blocks -> Nat], NEW p \in Nat
    PROVE  Clear(map, p) \in [Blocks -> Nat]
BY DEF Clear

LEMMA ReadyMapType == TypeOK => ReadyMap \in [Blocks -> Nat]
BY DEF TypeOK, ReadyMap

(* A copy into the pool keeps the pool a function on its bytes.            *)
LEMMA CopyType ==
    ASSUME TypeOK, NEW dst \in Nat, NEW src \in Nat, NEW size \in Nat, NEW junk \in Data
    PROVE  /\ my_mem_copy(dst, src, size, junk) \in [Bytes -> Data]
           /\ Scribble(dst, size, junk) \in [Bytes -> Data]
BY DEF TypeOK, my_mem_copy, Scribble

(* The first invariant: every step keeps the types.                        *)
LEMMA TypeStep == TypeOK /\ [Next]_vars => TypeOK'
<1> SUFFICES ASSUME TypeOK, [Next]_vars PROVE TypeOK'
    OBVIOUS
<1>0. ReadyMap \in [Blocks -> Nat]
    BY ReadyMapType
<1>1. CASE my_mem_init
    BY <1>1 DEF my_mem_init, TypeOK
<1>2. ASSUME NEW size \in Sizes, Refused(size) PROVE TypeOK'
    BY <1>0, <1>2 DEF Refused, TypeOK
<1>3. ASSUME NEW s \in Slots, NEW size \in Sizes, mymalloc(s, size) PROVE TypeOK'
    <2>1. CASE Refused(size)
        BY <1>2, <2>1
    <2>2. ASSUME NEW b \in Blocks,
                 memmap' = Mark(ReadyMap, b, nmemb(size)),
                 ptr' = [ptr EXCEPT ![s] = b * BlkSize],
                 memrdy' = TRUE, req' = [req EXCEPT ![s] = size], mem' = mem
          PROVE  TypeOK'
        <3>1. b \in Nat /\ size \in Nat
            BY PoolAssumption DEF Blocks
        <3>2. memmap' \in [Blocks -> Nat]
            BY <1>0, <2>2, <3>1, NmembPositive, TableTypes
        <3>3. b * BlkSize \in Nat
            BY <3>1, IndexOfBlock
        <3> QED
            BY <2>2, <3>1, <3>2, <3>3 DEF TypeOK
    <2> QED
        BY <1>3, <2>1, <2>2 DEF mymalloc
<1>4. ASSUME NEW s \in Slots, myfree(s) PROVE TypeOK'
    <2>1. ptr[s] \in Nat
        BY <1>4 DEF myfree, TypeOK
    <2>2. memmap' \in [Blocks -> Nat]
        BY <1>4, <2>1, ClearType DEF myfree, TypeOK
    <2> QED
        BY <1>4, <2>2 DEF myfree, TypeOK
<1>5. ASSUME NEW s \in Slots, NEW size \in Sizes, NEW junk \in Data,
             myrealloc(s, size, junk)
      PROVE  TypeOK'
    <2>1. CASE Refused(size)
        BY <1>2, <2>1
    <2>2. CASE ~ Refused(size)
        <3>1. PICK b \in Blocks :
                /\ \/ /\ ptr[s] # NULL
                      /\ mem' = my_mem_copy(b * BlkSize, ptr[s], size, junk)
                      /\ memmap' = Clear(Mark(ReadyMap, b, nmemb(size)), ptr[s])
                   \/ /\ ptr[s] = NULL
                      /\ mem' = Scribble(b * BlkSize, size, junk)
                      /\ memmap' = Mark(ReadyMap, b, nmemb(size))
                /\ ptr' = [ptr EXCEPT ![s] = b * BlkSize]
            BY <1>5, <2>2 DEF myrealloc
        <3>2. b \in Nat /\ size \in Nat /\ b * BlkSize \in Nat
            BY PoolAssumption, IndexOfBlock DEF Blocks
        <3>3. Mark(ReadyMap, b, nmemb(size)) \in [Blocks -> Nat]
            BY <1>0, <3>2, NmembPositive, TableTypes
        <3>4. memmap' \in [Blocks -> Nat] /\ mem' \in [Bytes -> Data]
            <4>1. CASE ptr[s] = NULL
                BY <3>1, <3>2, <3>3, <4>1, CopyType
            <4>2. CASE ptr[s] # NULL
                <5>1. ptr[s] \in Nat
                    BY <4>2 DEF TypeOK
                <5>2. memmap' \in [Blocks -> Nat]
                    BY <3>1, <3>3, <4>2, <5>1, ClearType
                <5>3. mem' \in [Bytes -> Data]
                    BY <3>1, <3>2, <4>2, <5>1, CopyType
                <5> QED
                    BY <5>2, <5>3
            <4> QED
                BY <4>1, <4>2
        <3> QED
            BY <1>5, <2>2, <3>1, <3>2, <3>4 DEF myrealloc, TypeOK
    <2> QED
        BY <2>1, <2>2
<1>6. ASSUME NEW s \in Slots, NEW size \in Sizes, NEW i \in 0..size-1, NEW d \in Data,
             Store(s, i, d)
      PROVE  TypeOK'
    BY <1>6 DEF Store, TypeOK
<1>7. CASE UNCHANGED vars
    BY <1>7 DEF vars, TypeOK
<1> QED
    BY <1>1, <1>3, <1>4, <1>5, <1>6, <1>7 DEF Next

LEMMA InitType == Init => TypeOK
<1> SUFFICES ASSUME Init PROVE TypeOK
    OBVIOUS
<1>1. memmap \in [Blocks -> Nat]
    <2>1. memmap \in [Blocks -> Garbage] /\ Garbage \subseteq Nat
        BY PoolAssumption DEF Init
    <2> QED
        BY <2>1
<1> QED
    BY <1>1 DEF Init, TypeOK

(* Type correctness of the pool, whatever the callers do.                  *)
THEOREM TypeCorrect == Spec => []TypeOK
BY InitType, TypeStep, PTL DEF Spec

-----------------------------------------------------------------------------
(* The pool invariant.                                                     *)

(* The run of a held slot is non-empty and lies in the table.              *)
LEMMA RunInPool ==
    ASSUME PoolInv, NEW s \in Held
    PROVE  /\ memrdy /\ ptr[s] \in Nat /\ req[s] \in Nat
           /\ index(ptr[s]) \in Run(s)
           /\ Run(s) \subseteq Blocks
           /\ index(ptr[s]) \in Nat /\ nmemb(req[s]) \in Nat /\ nmemb(req[s]) > 0
           /\ memmap[index(ptr[s])] = nmemb(req[s])
<1>1. ptr[s] \in Nat /\ req[s] \in Nat /\ req[s] > 0 /\ memrdy
    BY DEF PoolInv, TypeOK, Placed, Held
<1>2. index(ptr[s]) \in Nat
    BY <1>1, IndexType
<1>3. nmemb(req[s]) \in Nat /\ nmemb(req[s]) > 0
    BY <1>1, NmembPositive
<1>4. index(ptr[s]) + nmemb(req[s]) <= TblSize
    BY DEF PoolInv, Placed
<1>5. index(ptr[s]) \in Run(s) /\ Run(s) \subseteq Blocks
    BY <1>2, <1>3, <1>4, PoolAssumption DEF Run, Blocks
<1>6. memmap[index(ptr[s])] = nmemb(req[s])
    BY <1>1, <1>5 DEF PoolInv, MapExact
<1> QED
    BY <1>1, <1>2, <1>3, <1>5, <1>6

(* A run my_mem_malloc finds free touches no run a caller holds.           *)
LEMMA FreeRunApart ==
    ASSUME PoolInv, NEW b \in Blocks, NEW n \in Nat, FreeRun(ReadyMap, b, n),
           NEW t \in Held
    PROVE  Run(t) \cap (b..b+n-1) = {}
<1>1. ReadyMap = memmap
    BY RunInPool DEF ReadyMap
<1>2. ASSUME NEW k \in Run(t), k \in b..b+n-1 PROVE FALSE
    <2>1. memmap[k] = nmemb(req[t])
        BY <1>2, RunInPool DEF PoolInv, MapExact
    <2>2. memmap[k] = 0
        BY <1>1, <1>2 DEF FreeRun
    <2>3. nmemb(req[t]) \in Nat /\ nmemb(req[t]) > 0
        BY RunInPool
    <2> QED
        BY <2>1, <2>2, <2>3
<1> QED
    BY <1>2

(* Marking a free run for a slot that held nothing keeps the invariant.    *)
LEMMA MarkStep ==
    ASSUME PoolInv, TypeOK',
           NEW s \in Slots, ptr[s] = NULL,
           NEW size \in Nat, size > 0,
           NEW b \in Blocks, FreeRun(ReadyMap, b, nmemb(size)),
           memmap' = Mark(ReadyMap, b, nmemb(size)),
           ptr' = [ptr EXCEPT ![s] = b * BlkSize],
           req' = [req EXCEPT ![s] = size],
           memrdy' = TRUE
    PROVE  PoolInv'
<1> DEFINE n == nmemb(size)
<1>1. n \in Nat /\ n > 0 /\ b \in Nat
    BY NmembPositive DEF Blocks
<1>2. ptr'[s] = b * BlkSize /\ req'[s] = size /\ ptr'[s] # NULL /\ index(ptr'[s]) = b
    BY <1>1, IndexOfBlock, PoolAssumption DEF PoolInv, TypeOK
<1>3. \A t \in Slots \ {s} : ptr'[t] = ptr[t] /\ req'[t] = req[t]
    BY DEF PoolInv, TypeOK
<1>4. Held' = Held \cup {s} /\ s \notin Held
    BY <1>2, <1>3 DEF Held
<1>5. Run(s)' = b..b+n-1
    BY <1>2 DEF Run
<1>6. \A t \in Held : Run(t)' = Run(t) /\ t # s
    BY <1>3, <1>4 DEF Run, Held
<1>7. \A t \in Held : Run(t) \cap (b..b+n-1) = {}
    BY <1>1, FreeRunApart
<1>8. b + n <= TblSize
    BY DEF FreeRun
<1>9. Placed'
    <2>1. ASSUME NEW t \in Held
          PROVE  /\ req'[t] > 0
                 /\ ptr'[t] = index(ptr'[t]) * BlkSize
                 /\ index(ptr'[t]) + nmemb(req'[t]) <= TblSize
        BY <1>3, <1>6, <2>1 DEF PoolInv, Placed, Held
    <2> QED
        BY <1>2, <1>4, <1>8, <2>1 DEF Placed
<1>10. NoOverlap'
    <2>1. ASSUME NEW t \in Held, NEW u \in Held, t # u
          PROVE  Run(t)' \cap Run(u)' = {}
        BY <1>6, <2>1 DEF PoolInv, NoOverlap
    <2>2. ASSUME NEW t \in Held
          PROVE  Run(t)' \cap Run(s)' = {}
        BY <1>5, <1>6, <1>7
    <2> QED
        BY <1>4, <2>1, <2>2 DEF NoOverlap
<1>11. MapExact'
    <2>1. ASSUME NEW k \in Blocks
          PROVE  memmap'[k] = IF k \in b..b+n-1 THEN n ELSE ReadyMap[k]
        BY DEF Mark
    <2>2. ASSUME NEW k \in Run(s)'
          PROVE  memmap'[k] = nmemb(req'[s])
        <3>1. k \in b..b+n-1 /\ k \in Blocks
            BY <1>1, <1>5, <1>8, PoolAssumption DEF Blocks
        <3> QED
            BY <1>2, <2>1, <3>1
    <2>3. ASSUME NEW t \in Held, NEW k \in Run(t)'
          PROVE  memmap'[k] = nmemb(req'[t])
        <3>1. k \in Run(t) /\ k \in Blocks /\ memrdy
            BY <1>6, RunInPool
        <3>2. k \notin b..b+n-1
            BY <1>7, <3>1
        <3>3. ReadyMap[k] = nmemb(req[t])
            BY <3>1 DEF PoolInv, MapExact, ReadyMap
        <3> QED
            BY <1>3, <1>6, <2>1, <3>1, <3>2, <3>3 DEF Held
    <2>4. ASSUME NEW k \in Blocks, memmap'[k] # 0
          PROVE  \E t \in Held' : k \in Run(t)'
        <3>1. CASE k \in b..b+n-1
            BY <1>4, <1>5, <3>1
        <3>2. CASE k \notin b..b+n-1
            <4>1. ReadyMap[k] # 0
                BY <2>1, <2>4, <3>2
            <4>2. memrdy /\ memmap[k] # 0
                BY <4>1 DEF ReadyMap
            <4>3. PICK t \in Held : k \in Run(t)
                BY <4>2 DEF PoolInv, MapExact
            <4> QED
                BY <1>4, <1>6, <4>3
        <3> QED
            BY <3>1, <3>2
    <2> QED
        BY <1>4, <2>2, <2>3, <2>4 DEF MapExact
<1> QED
    BY <1>9, <1>10, <1>11 DEF PoolInv

(* Giving a run back keeps the invariant: the words cleared are exactly    *)
(* those of the run.                                                       *)
LEMMA FreeStep ==
    ASSUME PoolInv, TypeOK',
           NEW s \in Slots, myfree(s)
    PROVE  PoolInv'
<1>1. s \in Held /\ memrdy /\ memrdy'
    BY DEF myfree, Held, PoolInv, TypeOK
<1>2. Held' = Held \ {s}
    BY PoolAssumption DEF myfree, Held, PoolInv, TypeOK
<1>3. \A t \in Held' : t \in Held /\ t # s /\ ptr'[t] = ptr[t] /\ req'[t] = req[t]
    BY <1>2 DEF myfree, Held, PoolInv, TypeOK
<1>4. \A t \in Held' : Run(t)' = Run(t)
    BY <1>3 DEF Run
<1>5. ASSUME NEW k \in Blocks
      PROVE  memmap'[k] = IF k \in Run(s) THEN 0 ELSE memmap[k]
    <2>1. memmap[index(ptr[s])] = nmemb(req[s])
        BY <1>1, RunInPool
    <2> QED
        BY <2>1 DEF myfree, Clear, Run
<1>6. Placed'
    BY <1>1, <1>3 DEF PoolInv, Placed
<1>7. NoOverlap'
    BY <1>3, <1>4 DEF PoolInv, NoOverlap
<1>8. MapExact'
    <2>1. ASSUME NEW t \in Held', NEW k \in Run(t)'
          PROVE  memmap'[k] = nmemb(req'[t])
        <3>1. k \in Run(t) /\ t \in Held /\ k \in Blocks
            BY <1>3, <1>4, RunInPool
        <3>2. k \notin Run(s)
            BY <1>1, <1>3, <3>1 DEF PoolInv, NoOverlap
        <3>3. memmap[k] = nmemb(req[t])
            BY <1>1, <3>1 DEF PoolInv, MapExact
        <3> QED
            BY <1>3, <1>5, <3>1, <3>2, <3>3
    <2>2. ASSUME NEW k \in Blocks, memmap'[k] # 0
          PROVE  \E t \in Held' : k \in Run(t)'
        <3>1. k \notin Run(s) /\ memmap[k] # 0
            BY <1>5, <2>2
        <3>2. PICK t \in Held : k \in Run(t)
            BY <1>1, <3>1 DEF PoolInv, MapExact
        <3> QED
            BY <1>2, <1>4, <3>1, <3>2
    <2> QED
        BY <2>1, <2>2 DEF MapExact
<1> QED
    BY <1>6, <1>7, <1>8 DEF PoolInv

(* Moving a slot from its run to a free one keeps the invariant: myrealloc *)
(* marks the new run while the old one is marked, and clears only the old. *)
LEMMA MoveStep ==
    ASSUME PoolInv, TypeOK',
           NEW s \in Slots, ptr[s] # NULL,
           NEW size \in Nat, size > 0,
           NEW b \in Blocks, FreeRun(ReadyMap, b, nmemb(size)),
           memmap' = Clear(Mark(ReadyMap, b, nmemb(size)), ptr[s]),
           ptr' = [ptr EXCEPT ![s] = b * BlkSize],
           req' = [req EXCEPT ![s] = size],
           memrdy' = TRUE
    PROVE  PoolInv'
<1> DEFINE n == nmemb(size)
<1>1. n \in Nat /\ n > 0 /\ b \in Nat
    BY NmembPositive DEF Blocks
<1>2. s \in Held /\ memrdy /\ ReadyMap = memmap
    BY RunInPool DEF Held, ReadyMap
<1>3. ptr'[s] = b * BlkSize /\ req'[s] = size /\ ptr'[s] # NULL /\ index(ptr'[s]) = b
    BY <1>1, IndexOfBlock, PoolAssumption DEF PoolInv, TypeOK
<1>4. \A t \in Slots \ {s} : ptr'[t] = ptr[t] /\ req'[t] = req[t]
    BY DEF PoolInv, TypeOK
<1>5. Held' = Held
    BY <1>2, <1>3, <1>4 DEF Held
<1>6. Run(s)' = b..b+n-1
    BY <1>3 DEF Run
<1>7. \A t \in Held \ {s} : Run(t)' = Run(t)
    BY <1>4 DEF Run, Held
<1>8. \A t \in Held : Run(t) \cap (b..b+n-1) = {}
    BY <1>1, FreeRunApart
<1>9. b + n <= TblSize
    BY DEF FreeRun
<1>10. ASSUME NEW k \in Blocks
       PROVE  memmap'[k] = IF k \in Run(s) THEN 0
                           ELSE IF k \in b..b+n-1 THEN n ELSE memmap[k]
    <2> DEFINE i == index(ptr[s])
               m == Mark(memmap, b, n)
    <2>1. i \in Run(s) /\ i \in Blocks /\ memmap[i] = nmemb(req[s])
        BY <1>2, RunInPool
    <2>2. i \notin b..b+n-1
        BY <1>2, <1>8, <2>1
    <2>3. \A j \in Blocks : m[j] = IF j \in b..b+n-1 THEN n ELSE memmap[j]
        BY DEF Mark
    <2>4. m[i] = nmemb(req[s])
        BY <2>1, <2>2, <2>3
    <2>5. memmap'[k] = IF k \in i..i+m[i]-1 THEN 0 ELSE m[k]
        BY <1>2 DEF Clear
    <2>6. i..i+m[i]-1 = Run(s)
        BY <2>4 DEF Run
    <2> HIDE DEF m, i
    <2> QED
        BY <2>3, <2>5, <2>6
<1>11. Placed'
    <2>1. ASSUME NEW t \in Held \ {s}
          PROVE  /\ req'[t] > 0
                 /\ ptr'[t] = index(ptr'[t]) * BlkSize
                 /\ index(ptr'[t]) + nmemb(req'[t]) <= TblSize
        BY <1>4, <2>1 DEF PoolInv, Placed, Held
    <2> QED
        BY <1>3, <1>5, <1>9, <2>1 DEF Placed
<1>12. NoOverlap'
    <2>1. ASSUME NEW t \in Held \ {s}, NEW u \in Held \ {s}, t # u
          PROVE  Run(t)' \cap Run(u)' = {}
        BY <1>7, <2>1 DEF PoolInv, NoOverlap
    <2>2. ASSUME NEW t \in Held \ {s}
          PROVE  Run(t)' \cap Run(s)' = {}
        BY <1>6, <1>7, <1>8
    <2> QED
        BY <1>5, <2>1, <2>2 DEF NoOverlap
<1>13. MapExact'
    <2>1. ASSUME NEW k \in Run(s)'
          PROVE  memmap'[k] = nmemb(req'[s])
        <3>1. k \in b..b+n-1 /\ k \in Blocks /\ k \notin Run(s)
            BY <1>1, <1>2, <1>6, <1>8, <1>9, PoolAssumption DEF Blocks
        <3> QED
            BY <1>3, <1>10, <3>1
    <2>2. ASSUME NEW t \in Held \ {s}, NEW k \in Run(t)'
          PROVE  memmap'[k] = nmemb(req'[t])
        <3>1. k \in Run(t) /\ k \in Blocks
            BY <1>7, RunInPool
        <3>2. k \notin b..b+n-1 /\ k \notin Run(s)
            BY <1>2, <1>8, <3>1 DEF PoolInv, NoOverlap
        <3>3. memmap[k] = nmemb(req[t])
            BY <1>2, <3>1 DEF PoolInv, MapExact
        <3> QED
            BY <1>4, <1>10, <3>1, <3>2, <3>3 DEF Held
    <2>3. ASSUME NEW k \in Blocks, memmap'[k] # 0
          PROVE  \E t \in Held' : k \in Run(t)'
        <3>1. CASE k \in b..b+n-1
            BY <1>2, <1>5, <1>6, <3>1
        <3>2. CASE k \notin b..b+n-1
            <4>1. k \notin Run(s) /\ memmap[k] # 0
                BY <1>10, <2>3, <3>2
            <4>2. PICK t \in Held : k \in Run(t)
                BY <1>2, <4>1 DEF PoolInv, MapExact
            <4> QED
                BY <1>5, <1>7, <4>1, <4>2
        <3> QED
            BY <3>1, <3>2
    <2> QED
        BY <1>5, <2>1, <2>2, <2>3 DEF MapExact
<1> QED
    BY <1>11, <1>12, <1>13 DEF PoolInv

(* Steps that leave pointers and requests alone and hand out nothing.      *)
LEMMA QuietStep ==
    ASSUME PoolInv, TypeOK', ptr' = ptr, req' = req,
           memmap' = ReadyMap /\ memrdy' = TRUE
    PROVE  PoolInv'
<1>1. Held' = Held /\ \A t \in Held : Run(t)' = Run(t)
    BY DEF Held, Run
<1>2. Placed' /\ NoOverlap'
    BY <1>1 DEF PoolInv, Placed, NoOverlap
<1>3. MapExact'
    <2>1. CASE memrdy
        BY <1>1, <2>1 DEF PoolInv, MapExact, ReadyMap
    <2>2. CASE ~ memrdy
        <3>1. Held = {}
            BY <2>2 DEF PoolInv, Placed
        <3> QED
            BY <1>1, <2>2, <3>1 DEF MapExact, ReadyMap
    <2> QED
        BY <2>1, <2>2
<1> QED
    BY <1>2, <1>3 DEF PoolInv

LEMMA PoolInvStep == PoolInv /\ [Next]_vars => PoolInv'
<1> SUFFICES ASSUME PoolInv, [Next]_vars PROVE PoolInv'
    OBVIOUS
<1>0. TypeOK'
    BY TypeStep DEF PoolInv
<1>1. CASE my_mem_init
    <2>1. Held = {} /\ Held' = {}
        BY <1>1 DEF my_mem_init, Held
    <2>2. \A k \in Blocks : memmap'[k] = 0
        BY <1>1 DEF my_mem_init
    <2> QED
        BY <1>0, <2>1, <2>2 DEF PoolInv, Placed, NoOverlap, MapExact
<1>2. ASSUME NEW size \in Sizes, Refused(size) PROVE PoolInv'
    BY <1>0, <1>2, QuietStep DEF Refused
<1>3. ASSUME NEW s \in Slots, NEW size \in Sizes, mymalloc(s, size) PROVE PoolInv'
    <2>1. CASE Refused(size)
        BY <1>2, <2>1
    <2>2. CASE ~ Refused(size)
        <3>1. PICK b \in Blocks :
                /\ FreeRun(ReadyMap, b, nmemb(size))
                /\ memmap' = Mark(ReadyMap, b, nmemb(size))
                /\ ptr' = [ptr EXCEPT ![s] = b * BlkSize]
            BY <1>3, <2>2 DEF mymalloc, HighestFreeRun, FreeRuns
        <3>2. /\ ptr[s] = NULL /\ size \in Nat /\ size > 0
              /\ req' = [req EXCEPT ![s] = size] /\ memrdy' = TRUE
            BY <1>3, <2>2, PoolAssumption DEF mymalloc
        <3> QED
            BY <1>0, <3>1, <3>2, MarkStep
    <2> QED
        BY <2>1, <2>2
<1>4. ASSUME NEW s \in Slots, myfree(s) PROVE PoolInv'
    BY <1>0, <1>4, FreeStep
<1>5. ASSUME NEW s \in Slots, NEW size \in Sizes, NEW junk \in Data,
             myrealloc(s, size, junk)
      PROVE  PoolInv'
    <2>1. CASE Refused(size)
        BY <1>2, <2>1
    <2>2. CASE ~ Refused(size)
        <3>1. PICK b \in Blocks :
                /\ FreeRun(ReadyMap, b, nmemb(size))
                /\ \/ /\ ptr[s] # NULL
                      /\ memmap' = Clear(Mark(ReadyMap, b, nmemb(size)), ptr[s])
                   \/ /\ ptr[s] = NULL
                      /\ memmap' = Mark(ReadyMap, b, nmemb(size))
                /\ ptr' = [ptr EXCEPT ![s] = b * BlkSize]
            BY <1>5, <2>2 DEF myrealloc, HighestFreeRun, FreeRuns
        <3>2. /\ size \in Nat /\ size > 0
              /\ req' = [req EXCEPT ![s] = size] /\ memrdy' = TRUE
            BY <1>5, <2>2, PoolAssumption DEF myrealloc
        <3>3. CASE ptr[s] = NULL
            BY <1>0, <3>1, <3>2, <3>3, MarkStep
        <3>4. CASE ptr[s] # NULL
            BY <1>0, <3>1, <3>2, <3>4, MoveStep
        <3> QED
            BY <3>3, <3>4
    <2> QED
        BY <2>1, <2>2
<1>6. ASSUME NEW s \in Slots, NEW size \in Sizes, NEW i \in 0..size-1, NEW d \in Data,
             Store(s, i, d)
      PROVE  PoolInv'
    <2>1. memmap' = memmap /\ memrdy' = memrdy /\ ptr' = ptr /\ req' = req
        BY <1>6 DEF Store
    <2> QED
        BY <1>0, <2>1 DEF PoolInv, Placed, NoOverlap, MapExact, Held, Run
<1>7. CASE UNCHANGED vars
    BY <1>0, <1>7 DEF vars, PoolInv, Placed, NoOverlap, MapExact, Held, Run
<1> QED
    BY <1>1, <1>3, <1>4, <1>5, <1>6, <1>7 DEF Next

(* The pool invariant holds in every behaviour.                            *)
THEOREM PoolInvariant == Spec => []PoolInv
<1>1. Init => PoolInv
    <2> SUFFICES ASSUME Init PROVE PoolInv
        OBVIOUS
    <2>1. TypeOK
        BY InitType
    <2>2. Held = {} /\ memrdy = FALSE
        BY DEF Init, Held
    <2> QED
        BY <2>1, <2>2 DEF PoolInv, Placed, NoOverlap, MapExact
<1> QED
    BY <1>1, PoolInvStep, PTL DEF Spec

(* mymalloc, myfree and myrealloc never give one block to two callers.     *)
THEOREM NeverOverlap == Spec => []NoOverlap
<1>1. PoolInv => NoOverlap
    BY DEF PoolInv
<1> QED
    BY <1>1, PoolInvariant, PTL

(* The state table always tells exactly what the callers hold.             *)
THEOREM TableExact == Spec => []MapExact
<1>1. PoolInv => MapExact
    BY DEF PoolInv
<1> QED
    BY <1>1, PoolInvariant, PTL

=============================================================================
