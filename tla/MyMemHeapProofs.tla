-------------------------- MODULE MyMemHeapProofs ---------------------------
(***************************************************************************)
(* MyMem implements Heap: for every pool, every set of callers and every   *)
(* order of calls, a caller's object is changed by that caller alone.      *)
(***************************************************************************)
EXTENDS MyMemProofs

(* What Heap sees of the pool.                                             *)
Obj == [s \in Slots |-> Object(s)]

\* A caller has what it asked for.
HeapInv == PoolInv /\ \A s \in Held : req[s] \in Sizes

-----------------------------------------------------------------------------
(* Bytes of a run.                                                         *)

(* nmemb rounds up.                                                        *)
LEMMA RoundedUp ==
    ASSUME NEW size \in Nat
    PROVE  size <= nmemb(size) * BlkSize
<1> DEFINE q == size \div BlkSize
           r == size % BlkSize
<1>1. BlkSize \in Nat \ {0}
    BY PoolAssumption
<1>2. q \in Nat /\ r \in 0..BlkSize-1 /\ size = BlkSize * q + r
    BY <1>1, SMT
<1> HIDE DEF q, r
<1>3. CASE r = 0
    <2>1. nmemb(size) = q
        BY <1>2, <1>3 DEF nmemb, q, r
    <2> QED
        BY <1>1, <1>2, <1>3, <2>1
<1>4. CASE r # 0
    <2>1. nmemb(size) = q + 1
        BY <1>2, <1>4 DEF nmemb, q, r
    <2>2. (q + 1) * BlkSize = BlkSize * q + BlkSize
        BY <1>1, <1>2
    <2> QED
        BY <1>1, <1>2, <2>1, <2>2
<1> QED
    BY <1>3, <1>4

(* A request served by n blocks from b on lies in the pool.                *)
LEMMA RunBytes ==
    ASSUME NEW b \in Nat, NEW n \in Nat, NEW size \in Nat,
           b + n <= TblSize, size <= n * BlkSize
    PROVE  b * BlkSize \in Nat /\ memsize \in Nat /\ b * BlkSize + size <= memsize
<1>1. BlkSize \in Nat /\ TblSize \in Nat
    BY PoolAssumption
<1>2. (b + n) * BlkSize = b * BlkSize + n * BlkSize /\ b * BlkSize \in Nat
      /\ n * BlkSize \in Nat /\ TblSize * BlkSize \in Nat
    BY <1>1
<1>3. (b + n) * BlkSize <= TblSize * BlkSize
    BY <1>1
<1> QED
    BY <1>2, <1>3 DEF memsize

(* Runs without a common block have no common byte.                        *)
LEMMA BytesApart ==
    ASSUME NEW b \in Nat, NEW n \in Nat, n > 0, NEW c \in Nat, NEW m \in Nat, m > 0,
           (b..b+n-1) \cap (c..c+m-1) = {},
           NEW size \in Nat, size <= n * BlkSize, NEW other \in Nat, other <= m * BlkSize
    PROVE  b * BlkSize + size <= c * BlkSize \/ c * BlkSize + other <= b * BlkSize
<1>1. BlkSize \in Nat
    BY PoolAssumption
<1>2. b + n <= c \/ c + m <= b
    <2>1. b \in b..b+n-1 /\ c \in c..c+m-1
        OBVIOUS
    <2> QED
        BY <2>1
<1>3. /\ b * BlkSize \in Nat /\ c * BlkSize \in Nat
      /\ n * BlkSize \in Nat /\ m * BlkSize \in Nat
      /\ (b + n) * BlkSize = b * BlkSize + n * BlkSize
      /\ (c + m) * BlkSize = c * BlkSize + m * BlkSize
    BY <1>1
<1>4. b + n <= c => (b + n) * BlkSize <= c * BlkSize
    BY <1>1
<1>5. c + m <= b => (c + m) * BlkSize <= b * BlkSize
    BY <1>1
<1> QED
    BY <1>2, <1>3, <1>4, <1>5

(* The bytes a caller asked for.                                           *)
LEMMA OwnBytes ==
    ASSUME PoolInv, NEW s \in Held
    PROVE  /\ ptr[s] \in Nat /\ req[s] \in Nat /\ req[s] > 0 /\ memsize \in Nat
           /\ ptr[s] + req[s] <= memsize
           /\ \A i \in 0..req[s]-1 : ptr[s] + i \in Bytes
<1>1. /\ ptr[s] \in Nat /\ req[s] \in Nat
      /\ index(ptr[s]) \in Nat /\ nmemb(req[s]) \in Nat
    BY RunInPool
<1>2. /\ ptr[s] = index(ptr[s]) * BlkSize /\ req[s] > 0
      /\ index(ptr[s]) + nmemb(req[s]) <= TblSize
    BY DEF PoolInv, Placed
<1>3. req[s] <= nmemb(req[s]) * BlkSize
    BY <1>1, RoundedUp
<1>4. memsize \in Nat /\ index(ptr[s]) * BlkSize + req[s] <= memsize
    BY <1>1, <1>2, <1>3, RunBytes
<1>5. ptr[s] + req[s] <= memsize
    BY <1>2, <1>4, Zenon
<1> QED
    BY <1>1, <1>2, <1>4, <1>5 DEF Bytes

LEMMA OwnersApart ==
    ASSUME PoolInv, NEW s \in Held, NEW t \in Held, s # t
    PROVE  ptr[s] + req[s] <= ptr[t] \/ ptr[t] + req[t] <= ptr[s]
<1> DEFINE b == index(ptr[s])
           n == nmemb(req[s])
           c == index(ptr[t])
           m == nmemb(req[t])
<1>1. /\ b \in Nat /\ n \in Nat /\ n > 0 /\ c \in Nat /\ m \in Nat /\ m > 0
      /\ req[s] \in Nat /\ req[t] \in Nat
    BY RunInPool
<1>2. (b..b+n-1) \cap (c..c+m-1) = {}
    BY DEF PoolInv, NoOverlap, Run
<1>3. req[s] <= n * BlkSize /\ req[t] <= m * BlkSize
    BY <1>1, RoundedUp
<1>4. ptr[s] = b * BlkSize /\ ptr[t] = c * BlkSize
    BY DEF PoolInv, Placed
<1> HIDE DEF b, n, c, m
<1>5. b * BlkSize + req[s] <= c * BlkSize \/ c * BlkSize + req[t] <= b * BlkSize
    BY <1>1, <1>2, <1>3, BytesApart
<1> QED
    BY <1>4, <1>5, Zenon

(* A run my_mem_malloc finds, for a request of size bytes.                 *)
LEMMA NewApart ==
    ASSUME PoolInv, NEW size \in Nat, size > 0,
           NEW b \in Blocks, FreeRun(ReadyMap, b, nmemb(size))
    PROVE  /\ b * BlkSize \in Nat /\ b * BlkSize + size <= memsize /\ memsize \in Nat
           /\ \A t \in Held : \/ b * BlkSize + size <= ptr[t]
                              \/ ptr[t] + req[t] <= b * BlkSize
<1> DEFINE n == nmemb(size)
<1>1. b \in Nat /\ n \in Nat /\ n > 0 /\ size <= n * BlkSize
    BY NmembPositive, RoundedUp DEF Blocks
<1>2. b + n <= TblSize
    BY DEF FreeRun
<1>3. b * BlkSize \in Nat /\ b * BlkSize + size <= memsize /\ memsize \in Nat
    BY <1>1, <1>2, RunBytes
<1>4. ASSUME NEW t \in Held
      PROVE  b * BlkSize + size <= ptr[t] \/ ptr[t] + req[t] <= b * BlkSize
    <2> DEFINE c == index(ptr[t])
               m == nmemb(req[t])
    <2>1. c \in Nat /\ m \in Nat /\ m > 0 /\ req[t] \in Nat
        BY RunInPool
    <2>2. (b..b+n-1) \cap (c..c+m-1) = {}
        BY <1>1, FreeRunApart DEF Run
    <2>3. req[t] <= m * BlkSize
        BY <2>1, RoundedUp
    <2>4. ptr[t] = c * BlkSize
        BY DEF PoolInv, Placed
    <2> HIDE DEF c, m, n
    <2>5. b * BlkSize + size <= c * BlkSize \/ c * BlkSize + req[t] <= b * BlkSize
        BY <1>1, <2>1, <2>2, <2>3, BytesApart
    <2> QED
        BY <2>4, <2>5, Zenon
<1> QED
    BY <1>3, <1>4

-----------------------------------------------------------------------------
(* The objects.                                                            *)

(* What a caller holds is an object of the size it asked for.              *)
LEMMA Holds ==
    ASSUME HeapInv, NEW s \in Slots
    PROVE  /\ ptr[s] = NULL <=> Object(s) = NULL
           /\ ptr[s] # NULL => /\ req[s] \in Sizes \ {0}
                               /\ Object(s) \in H!Objects(req[s])
                               /\ Object(s) = [i \in 0..req[s]-1 |-> mem[ptr[s] + i]]
<1>1. CASE ptr[s] = NULL
    BY <1>1 DEF Object
<1>2. CASE ptr[s] # NULL
    <2>1. s \in Held
        BY <1>2 DEF Held
    <2>2. /\ Object(s) = [i \in 0..req[s]-1 |-> mem[ptr[s] + i]]
          /\ \A i \in 0..req[s]-1 : ptr[s] + i \in Bytes
          /\ req[s] \in Nat /\ req[s] > 0
        BY <1>2, <2>1, OwnBytes DEF Object, HeapInv
    <2>3. req[s] \in Sizes \ {0}
        BY <2>1, <2>2 DEF HeapInv
    <2>4. Object(s) \in [0..req[s]-1 -> Data]
        BY <2>2 DEF HeapInv, PoolInv, TypeOK
    <2>5. Object(s) # NULL
        BY <2>3, <2>4, NullAssumption
    <2> QED
        BY <1>2, <2>2, <2>3, <2>4, <2>5 DEF H!Objects
<1> QED
    BY <1>1, <1>2

(* An object is as it was when neither its pointer nor its bytes change.   *)
LEMMA Kept ==
    ASSUME NEW t \in Slots, ptr'[t] = ptr[t],
           ptr[t] # NULL => /\ req'[t] = req[t]
                            /\ \A i \in 0..req[t]-1 : mem'[ptr[t] + i] = mem[ptr[t] + i]
    PROVE  Object(t)' = Object(t)
<1>1. CASE ptr[t] = NULL
    BY <1>1 DEF Object
<1>2. CASE ptr[t] # NULL
    BY <1>2 DEF Object
<1> QED
    BY <1>1, <1>2

(* A step that changes the object of one caller.                           *)
LEMMA OneChanged ==
    ASSUME NEW s \in Slots, \A t \in Slots \ {s} : Object(t)' = Object(t)
    PROVE  Obj' = [Obj EXCEPT ![s] = Object(s)'] /\ Obj[s] = Object(s)
BY DEF Obj

(* What a caller holds after a request of size bytes was given p.          *)
LEMMA NewObject ==
    ASSUME HeapInv, HeapInv', NEW s \in Slots, NEW size \in Sizes, size > 0,
           NEW p \in Nat, p + size <= memsize, memsize \in Nat,
           ptr' = [ptr EXCEPT ![s] = p], req' = [req EXCEPT ![s] = size]
    PROVE  Object(s)' = [i \in 0..size-1 |-> mem'[p + i]] /\ Object(s)' \in H!Objects(size)
<1>1. ptr'[s] = p /\ req'[s] = size
    BY DEF HeapInv, PoolInv, TypeOK
<1>2. Object(s)' = [i \in 0..size-1 |-> mem'[p + i]]
    <2>1. p # NULL
        BY PoolAssumption
    <2>2. Object(s)' = [i \in 0..req'[s]-1 |-> mem'[ptr'[s] + i]]
        BY <1>1, <2>1 DEF Object
    <2> QED
        BY <1>1, <2>2
<1>3. \A i \in 0..size-1 : p + i \in Bytes
    BY PoolAssumption DEF Bytes
<1> QED
    BY <1>2, <1>3 DEF HeapInv, PoolInv, TypeOK, H!Objects

(* mymalloc: memory is handed out as it is found.                          *)
LEMMA Given ==
    ASSUME HeapInv, HeapInv', NEW s \in Slots, NEW size \in Sizes, size > 0, ptr[s] = NULL,
           NEW p \in Nat, p + size <= memsize, memsize \in Nat,
           ptr' = [ptr EXCEPT ![s] = p], req' = [req EXCEPT ![s] = size],
           \A t \in Held : \A i \in 0..req[t]-1 : mem'[ptr[t] + i] = mem[ptr[t] + i]
    PROVE  H!Alloc(s, size)
<1>1. \A t \in Slots \ {s} : ptr'[t] = ptr[t] /\ req'[t] = req[t]
    BY DEF HeapInv, PoolInv, TypeOK
<1>2. ASSUME NEW t \in Slots \ {s} PROVE Object(t)' = Object(t)
    BY <1>1, Kept DEF Held
<1>3. Object(s)' \in H!Objects(size)
    BY NewObject
<1>4. Object(s) = NULL
    BY DEF Object
<1> QED
    BY <1>2, <1>3, <1>4, OneChanged DEF H!Alloc, Obj

(* myrealloc of an object: it moves, and keeps the bytes both sizes have.  *)
LEMMA Moved ==
    ASSUME HeapInv, HeapInv', NEW s \in Held, NEW size \in Sizes, size > 0,
           NEW p \in Nat, p + size <= memsize, memsize \in Nat,
           ptr' = [ptr EXCEPT ![s] = p], req' = [req EXCEPT ![s] = size],
           \A t \in Held \ {s} : \A i \in 0..req[t]-1 : mem'[ptr[t] + i] = mem[ptr[t] + i],
           \A i \in 0..size-1 : i \in 0..req[s]-1 => mem'[p + i] = mem[ptr[s] + i]
    PROVE  H!Resize(s, size)
<1>0. s \in Slots /\ ptr[s] # NULL
    BY DEF Held
<1>1. /\ ptr'[s] = p /\ req'[s] = size
      /\ \A t \in Slots \ {s} : ptr'[t] = ptr[t] /\ req'[t] = req[t]
    BY <1>0 DEF HeapInv, PoolInv, TypeOK
<1>2. ASSUME NEW t \in Slots \ {s} PROVE Object(t)' = Object(t)
    BY <1>1, Kept DEF Held
<1>3. Object(s)' = [i \in 0..size-1 |-> mem'[p + i]] /\ Object(s)' \in H!Objects(size)
    BY <1>0, NewObject
<1>4. /\ Object(s) = [i \in 0..req[s]-1 |-> mem[ptr[s] + i]]
      /\ Object(s) # NULL
    BY <1>0, Holds
<1>5. \A i \in DOMAIN Object(s)' \cap DOMAIN Object(s) : Object(s)'[i] = Object(s)[i]
    BY <1>3, <1>4
<1>6. Obj' = [Obj EXCEPT ![s] = Object(s)'] /\ Obj[s] = Object(s)
    BY <1>0, <1>2, OneChanged
<1> QED
    BY <1>3, <1>4, <1>5, <1>6 DEF H!Resize, Obj

(* myfree.                                                                 *)
LEMMA GivenBack ==
    ASSUME HeapInv, NEW s \in Slots, myfree(s)
    PROVE  H!Free(s)
<1>1. /\ ptr'[s] = NULL /\ mem' = mem
      /\ \A t \in Slots \ {s} : ptr'[t] = ptr[t] /\ req'[t] = req[t]
    BY DEF myfree, HeapInv, PoolInv, TypeOK
<1>2. ASSUME NEW t \in Slots \ {s} PROVE Object(t)' = Object(t)
    BY <1>1, Kept
<1>3. Object(s)' = NULL
    BY <1>1 DEF Object
<1> QED
    BY <1>2, <1>3, OneChanged DEF H!Free, Obj

(* A byte a caller writes is one of its own.                               *)
LEMMA Written ==
    ASSUME HeapInv, NEW s \in Slots, NEW i \in Nat, NEW d \in Data, Store(s, i, d)
    PROVE  H!Store(s, i, d)
<1>1. /\ ptr' = ptr /\ req' = req /\ ptr[s] # NULL /\ s \in Held /\ i < req[s]
      /\ mem' = [mem EXCEPT ![ptr[s] + i] = d]
    BY DEF Store, Held
<1>2. PoolInv /\ ptr[s] \in Nat /\ req[s] \in Nat /\ i \in 0..req[s]-1
      /\ \A j \in 0..req[s]-1 : ptr[s] + j \in Bytes
      /\ mem \in [Bytes -> Data]
    BY <1>1, OwnBytes DEF HeapInv, PoolInv, TypeOK
<1>3. ASSUME NEW t \in Slots \ {s} PROVE Object(t)' = Object(t)
    <2>1. ASSUME ptr[t] # NULL, NEW j \in 0..req[t]-1
          PROVE  mem'[ptr[t] + j] = mem[ptr[t] + j]
        <3>1. t \in Held
            BY <2>1 DEF Held
        <3>2. /\ ptr[t] \in Nat /\ req[t] \in Nat /\ ptr[t] + j \in Bytes
              /\ ptr[s] + req[s] <= ptr[t] \/ ptr[t] + req[t] <= ptr[s]
            BY <1>1, <1>2, <3>1, OwnBytes, OwnersApart
        <3>3. ptr[t] + j # ptr[s] + i
            BY <1>1, <1>2, <3>2
        <3> QED
            BY <1>1, <1>2, <3>2, <3>3
    <2> QED
        BY <1>1, <2>1, Kept
<1>4. Object(s) = [j \in 0..req[s]-1 |-> mem[ptr[s] + j]] /\ Object(s) # NULL
    BY <1>1, Holds
<1>5. Object(s)' = [Object(s) EXCEPT ![i] = d]
    <2>1. Object(s)' = [j \in 0..req[s]-1 |-> mem'[ptr[s] + j]]
        BY <1>1 DEF Object
    <2>2. ASSUME NEW j \in 0..req[s]-1
          PROVE  mem'[ptr[s] + j] = IF j = i THEN d ELSE mem[ptr[s] + j]
        <3>1. ptr[s] + j = ptr[s] + i <=> j = i
            BY <1>2
        <3> QED
            BY <1>1, <1>2, <3>1
    <2> QED
        BY <1>2, <1>4, <2>1, <2>2
<1>6. Obj' = [Obj EXCEPT ![s] = Object(s)'] /\ Obj[s] = Object(s)
    BY <1>3, OneChanged
<1>7. i \in DOMAIN Object(s)
    BY <1>2, <1>4
<1> QED
    BY <1>4, <1>5, <1>6, <1>7 DEF H!Store, Obj

(* The copy of myrealloc, from a run to another one: forwards, the bytes   *)
(* it reads are not yet written; and it writes its own run alone.          *)
LEMMA Copied ==
    ASSUME NEW s \in Slots, ptr[s] \in Nat, req[s] \in Nat, ptr[s] + req[s] <= memsize,
           NEW p \in Nat, NEW size \in Nat, NEW junk \in Data, memsize \in Nat,
           p + size <= memsize, p + size <= ptr[s] \/ ptr[s] + req[s] <= p,
           mem' = my_mem_copy(p, ptr[s], size, junk)
    PROVE  /\ \A k \in Bytes : k \notin p..p+size-1 => mem'[k] = mem[k]
           /\ \A i \in 0..size-1 : i \in 0..req[s]-1 => mem'[p + i] = mem[ptr[s] + i]
<1> DEFINE src == ptr[s]
           old == req[s]
           new == my_mem_copy(p, src, size, junk)
<1>0. /\ src \in Nat /\ old \in Nat /\ src + old <= memsize
      /\ p + size <= src \/ src + old <= p
      /\ mem' = new
    OBVIOUS
<1> HIDE DEF src, old, new
<1>1. ASSUME NEW k \in Bytes, k \notin p..p+size-1 PROVE new[k] = mem[k]
    BY <1>1 DEF new, my_mem_copy
<1>2. ASSUME NEW i \in 0..size-1, i \in 0..old-1 PROVE new[p + i] = mem[src + i]
    <2>1. /\ i \in Nat /\ p + i \in Bytes /\ src + i \in Bytes
          /\ p + i \in p..p+size-1 /\ p + i - p = i
        BY <1>0, <1>2 DEF Bytes
    <2>2. ASSUME NEW k \in Bytes, k \in p..p+size-1, NEW j \in Bytes,
                 j = IF p > src THEN src + ((k - p) % (p - src)) ELSE src + (k - p)
          PROVE  new[k] = mem[j]
        BY <2>2 DEF new, my_mem_copy
    <2>3. CASE p > src
        <3>1. i < p - src /\ p - src \in Nat \ {0}
            BY <1>0, <1>2, <2>1, <2>3
        <3>2. i % (p - src) = i
            BY <2>1, <3>1
        <3>3. src + i = src + ((p + i - p) % (p - src))
            BY <1>0, <2>1, <3>2
        <3> QED
            BY <2>1, <2>2, <2>3, <3>3
    <2>4. CASE ~(p > src)
        <3>1. src + i = src + (p + i - p)
            BY <1>0, <2>1
        <3> QED
            BY <2>1, <2>2, <2>4, <3>1
    <2> QED
        BY <2>3, <2>4
<1> QED
    BY <1>0, <1>1, <1>2 DEF src, old

(* Bytes outside the new run are what they were, and so are the objects.   *)
LEMMA OthersKept ==
    ASSUME PoolInv, NEW size \in Nat, size > 0,
           NEW b \in Blocks, FreeRun(ReadyMap, b, nmemb(size)),
           \A k \in Bytes : k \notin b*BlkSize..b*BlkSize+size-1 => mem'[k] = mem[k],
           NEW t \in Held, NEW i \in 0..req[t]-1
    PROVE  mem'[ptr[t] + i] = mem[ptr[t] + i]
<1> DEFINE p == b * BlkSize
<1>1. ptr[t] \in Nat /\ req[t] \in Nat /\ ptr[t] + i \in Bytes
    BY OwnBytes
<1>2. p \in Nat /\ (p + size <= ptr[t] \/ ptr[t] + req[t] <= p)
    BY NewApart
<1> HIDE DEF p
<1>3. ptr[t] + i \notin p..p+size-1
    BY <1>1, <1>2
<1> QED
    BY <1>1, <1>3 DEF p

-----------------------------------------------------------------------------
(* The steps.                                                              *)

(* A caller's request is one of Sizes, however it was served.              *)
LEMMA HeapInvStep == HeapInv /\ [Next]_vars => HeapInv'
<1> SUFFICES ASSUME HeapInv, [Next]_vars, NEW s \in Held' PROVE req'[s] \in Sizes
    BY PoolInvStep DEF HeapInv
<1>0. s \in Slots /\ ptr'[s] # NULL
    BY DEF Held
<1>1. CASE ptr'[s] = ptr[s] /\ req'[s] = req[s]
    BY <1>0, <1>1 DEF HeapInv, Held
<1>2. ASSUME NEW t \in Slots, NEW size \in Sizes,
             mymalloc(t, size) \/ \E junk \in Data : myrealloc(t, size, junk)
      PROVE  req'[s] \in Sizes
    <2>1. CASE UNCHANGED <<ptr, req>>
        BY <1>1, <2>1
    <2>2. CASE req' = [req EXCEPT ![t] = size] /\ \E p : ptr' = [ptr EXCEPT ![t] = p]
        <3>1. CASE s = t
            BY <1>0, <2>2, <3>1 DEF HeapInv, PoolInv, TypeOK
        <3>2. CASE s # t
            BY <1>0, <1>1, <2>2, <3>2 DEF HeapInv, PoolInv, TypeOK
        <3> QED
            BY <3>1, <3>2
    <2> QED
        BY <1>2, <2>1, <2>2 DEF mymalloc, myrealloc, Refused
<1>3. ASSUME NEW t \in Slots, myfree(t) PROVE req'[s] \in Sizes
    BY <1>0, <1>1, <1>3 DEF myfree, HeapInv, PoolInv, TypeOK
<1>4. CASE my_mem_init \/ UNCHANGED vars
    BY <1>1, <1>4 DEF my_mem_init, vars
<1>5. ASSUME NEW t \in Slots, NEW i \in Nat, NEW d \in Data, Store(t, i, d)
      PROVE  req'[s] \in Sizes
    BY <1>1, <1>5 DEF Store
<1>6. \A size \in Sizes : \A i \in 0..size-1 : i \in Nat
    BY PoolAssumption
<1> QED
    BY <1>2, <1>3, <1>4, <1>5, <1>6 DEF Next

LEMMA MallocHeap ==
    ASSUME HeapInv, HeapInv', NEW s \in Slots, NEW size \in Sizes, mymalloc(s, size)
    PROVE  (H!Alloc(s, size) /\ size > 0) \/ UNCHANGED Obj
<1>1. CASE Refused(size)
    BY <1>1 DEF Refused, Obj, Object
<1>2. CASE ~Refused(size)
    <2>1. PICK b \in Blocks : /\ FreeRun(ReadyMap, b, nmemb(size))
                              /\ ptr' = [ptr EXCEPT ![s] = b * BlkSize]
        BY <1>2 DEF mymalloc, HighestFreeRun, FreeRuns
    <2>2. /\ ptr[s] = NULL /\ size > 0 /\ size \in Nat
          /\ req' = [req EXCEPT ![s] = size] /\ mem' = mem
        BY <1>2, PoolAssumption DEF mymalloc
    <2>3. b * BlkSize \in Nat /\ b * BlkSize + size <= memsize /\ memsize \in Nat
        BY <2>1, <2>2, NewApart DEF HeapInv
    <2> DEFINE p == b * BlkSize
    <2> HIDE DEF p
    <2>4. p \in Nat /\ p + size <= memsize /\ ptr' = [ptr EXCEPT ![s] = p]
        BY <2>1, <2>3 DEF p
    <2> QED
        BY <2>2, <2>3, <2>4, Given
<1> QED
    BY <1>1, <1>2

LEMMA ReallocHeap ==
    ASSUME HeapInv, HeapInv', NEW s \in Slots, NEW size \in Sizes, NEW junk \in Data,
           myrealloc(s, size, junk)
    PROVE  ((H!Alloc(s, size) \/ H!Resize(s, size)) /\ size > 0) \/ UNCHANGED Obj
<1>1. CASE Refused(size)
    BY <1>1 DEF Refused, Obj, Object
<1>2. CASE ~Refused(size)
    <2>1. PICK b \in Blocks :
            /\ FreeRun(ReadyMap, b, nmemb(size))
            /\ \/ ptr[s] # NULL /\ mem' = my_mem_copy(b * BlkSize, ptr[s], size, junk)
               \/ ptr[s] = NULL /\ mem' = Scribble(b * BlkSize, size, junk)
            /\ ptr' = [ptr EXCEPT ![s] = b * BlkSize]
        BY <1>2 DEF myrealloc, HighestFreeRun, FreeRuns
    <2>2. size > 0 /\ size \in Nat /\ req' = [req EXCEPT ![s] = size]
        BY <1>2, PoolAssumption DEF myrealloc
    <2>3. /\ b * BlkSize \in Nat /\ b * BlkSize + size <= memsize /\ memsize \in Nat
          /\ \A t \in Held : \/ b * BlkSize + size <= ptr[t]
                             \/ ptr[t] + req[t] <= b * BlkSize
        BY <2>1, <2>2, NewApart DEF HeapInv
    <2>4. TypeOK /\ PoolInv
        BY DEF HeapInv, PoolInv
    <2>5. (\A k \in Bytes : k \notin b*BlkSize..b*BlkSize+size-1 => mem'[k] = mem[k])
          => \A t \in Held : \A i \in 0..req[t]-1 : mem'[ptr[t] + i] = mem[ptr[t] + i]
        BY <2>1, <2>2, <2>4, OthersKept
    <2> DEFINE p == b * BlkSize
    <2> HIDE DEF p
    <2>6. /\ p \in Nat /\ p + size <= memsize /\ memsize \in Nat
          /\ ptr' = [ptr EXCEPT ![s] = p]
          /\ \A t \in Held : p + size <= ptr[t] \/ ptr[t] + req[t] <= p
          /\ (\A k \in Bytes : k \notin p..p+size-1 => mem'[k] = mem[k])
             => \A t \in Held : \A i \in 0..req[t]-1 : mem'[ptr[t] + i] = mem[ptr[t] + i]
        BY <2>1, <2>3, <2>5 DEF p
    <2>7. CASE ptr[s] = NULL
        <3>1. mem' = Scribble(p, size, junk)
            BY <2>1, <2>7 DEF p
        <3>2. \A k \in Bytes : k \notin p..p+size-1 => mem'[k] = mem[k]
            BY <3>1 DEF Scribble
        <3>3. H!Alloc(s, size)
            BY <2>2, <2>6, <2>7, <3>2, Given
        <3> QED
            BY <2>2, <3>3
    <2>8. CASE ptr[s] # NULL
        <3>1. mem' = my_mem_copy(p, ptr[s], size, junk) /\ s \in Held
            BY <2>1, <2>8 DEF p, Held
        <3>2. /\ ptr[s] \in Nat /\ req[s] \in Nat /\ ptr[s] + req[s] <= memsize
              /\ p + size <= ptr[s] \/ ptr[s] + req[s] <= p
            BY <2>4, <2>6, <3>1, OwnBytes
        <3>3. /\ \A k \in Bytes : k \notin p..p+size-1 => mem'[k] = mem[k]
              /\ \A i \in 0..size-1 : i \in 0..req[s]-1 => mem'[p + i] = mem[ptr[s] + i]
            BY <2>2, <2>6, <3>1, <3>2, Copied
        <3>4. H!Resize(s, size)
            BY <2>2, <2>6, <3>1, <3>3, Moved
        <3> QED
            BY <2>2, <3>4
    <2> QED
        BY <2>7, <2>8
<1> QED
    BY <1>1, <1>2

LEMMA HeapStep == HeapInv /\ HeapInv' /\ [Next]_vars => [H!Next]_Obj
<1> SUFFICES ASSUME HeapInv, HeapInv', [Next]_vars PROVE [H!Next]_Obj
    OBVIOUS
<1>1. CASE my_mem_init
    BY <1>1 DEF my_mem_init, Obj, Object
<1>2. ASSUME NEW s \in Slots, NEW size \in Sizes, mymalloc(s, size) PROVE [H!Next]_Obj
    BY <1>2, MallocHeap, PoolAssumption DEF H!Next
<1>3. ASSUME NEW s \in Slots, myfree(s) PROVE [H!Next]_Obj
    BY <1>3, GivenBack DEF H!Next
<1>4. ASSUME NEW s \in Slots, NEW size \in Sizes, NEW junk \in Data, myrealloc(s, size, junk)
      PROVE  [H!Next]_Obj
    BY <1>4, ReallocHeap, PoolAssumption DEF H!Next
<1>5. ASSUME NEW s \in Slots, NEW size \in Sizes, NEW i \in 0..size-1, NEW d \in Data,
             Store(s, i, d)
      PROVE  [H!Next]_Obj
    <2>1. i \in Nat
        BY PoolAssumption
    <2>2. H!Store(s, i, d)
        BY <1>5, <2>1, Written
    <2> QED
        BY <2>2 DEF H!Next
<1>6. CASE UNCHANGED vars
    BY <1>6 DEF vars, Obj, Object
<1> QED
    BY <1>1, <1>2, <1>3, <1>4, <1>5, <1>6 DEF Next

-----------------------------------------------------------------------------
(* The theorem.                                                            *)

\* malloc.c keeps its promise for every pool, set of callers and sizes: an object is
\* its caller's alone, whatever the others ask for and give back, and myrealloc keeps
\* the bytes both sizes have although its copy reads past the old object.
THEOREM KeepsObjects == Spec => ImplementsHeap
<1>1. Init => H!Init /\ HeapInv
    <2> SUFFICES ASSUME Init PROVE H!Init /\ HeapInv
        OBVIOUS
    <2>1. TypeOK
        BY InitType
    <2>2. Held = {} /\ memrdy = FALSE /\ \A s \in Slots : ptr[s] = NULL
        BY DEF Init, Held
    <2>3. HeapInv
        BY <2>1, <2>2 DEF HeapInv, PoolInv, Placed, NoOverlap, MapExact
    <2>4. H!Init
        BY <2>2 DEF H!Init, Object
    <2> QED
        BY <2>3, <2>4
<1>2. HeapInv /\ [Next]_vars => HeapInv' /\ [H!Next]_Obj
    BY HeapInvStep, HeapStep
<1> QED
    BY <1>1, <1>2, PTL DEF Spec, ImplementsHeap, H!Spec, Obj
=============================================================================
