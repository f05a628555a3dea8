------------------------------ MODULE MyMemIrq ------------------------------
(***************************************************************************)
(* my_mem_init, my_mem_malloc and my_mem_free of the main program one loop *)
(* iteration at a time, with the calls an interrupt handler makes between  *)
(* two of them.  The handler is TIM4's (USMART runs mymalloc and myfree    *)
(* from the console there, usmart_config.c 59-60) or USB's (ftl_init, from *)
(* STORAGE_Init_FS); the main program stands still while it runs, so each  *)
(* of its calls is one step.                                               *)
(*                                                                         *)
(* The bytes of the pool and myrealloc, which is a malloc, a copy and a    *)
(* free, are left to MyMem.                                                *)
(***************************************************************************)
EXTENDS Naturals, Integers, FiniteSets

CONSTANTS
    BlkSize, TblSize, Sizes, Garbage, NULL,  \* as in MyMem
    MainSlots,   \* pointer variables of the main program
    IsrSlots     \* pointers the handlers' calls return

Slots == MainSlots \cup IsrSlots

ASSUME IrqAssumption ==
    /\ BlkSize \in Nat \ {0} /\ TblSize \in Nat \ {0}
    /\ Sizes \subseteq Nat /\ Garbage \subseteq Nat
    /\ NULL \notin Nat
    /\ \A size \in Sizes : NULL \notin [0..size-1 -> {0}]

VARIABLES
    memmap, memrdy, ptr, req,   \* as in MyMem
    pc,       \* where the main program is
    call,     \* the request being served: [slot, size], or the slot to free
    offset,   \* the locals of the loops
    cmemb,
    i,
    nfree     \* nmemb of my_mem_free

vars == <<memmap, memrdy, ptr, req, pc, call, offset, cmemb, i, nfree>>
locals == <<call, offset, cmemb, i, nfree>>

\* The atomic operations and properties of MyMem on the table as it stands.
Pool == INSTANCE MyMem WITH Data <- {0},
            mem <- [k \in 0..TblSize*BlkSize-1 |-> 0]

Blocks == 0..TblSize-1

Init ==
    /\ memmap \in [Blocks -> Garbage]
    /\ memrdy = FALSE
    /\ ptr = [s \in Slots |-> NULL]
    /\ req = [s \in Slots |-> 0]
    /\ pc = "reset"
    /\ call = [slot |-> NULL, size |-> 0]
    /\ offset = 0 /\ cmemb = 0 /\ i = 0 /\ nfree = 0

-----------------------------------------------------------------------------
(* my_mem_init, from main.                                                 *)

InitCall ==
    /\ pc = "reset"
    /\ pc' = "clear"
    /\ i' = 0
    /\ UNCHANGED <<memmap, memrdy, ptr, req, call, offset, cmemb, nfree>>

\* my_mem_set, one table word at a time; then the ready flag.
InitClear ==
    /\ pc = "clear"
    /\ \/ /\ i < TblSize
          /\ memmap' = [memmap EXCEPT ![i] = 0]
          /\ i' = i + 1
          /\ UNCHANGED <<memrdy, pc>>
       \/ /\ i = TblSize
          /\ memrdy' = TRUE
          /\ pc' = "idle"
          /\ UNCHANGED <<memmap, i>>
    /\ UNCHANGED <<ptr, req, call, offset, cmemb, nfree>>

-----------------------------------------------------------------------------
(* my_mem_malloc.                                                          *)

\* The main program has initialised the pool, so `!memrdy` does not hold; a
\* request of 0 bytes returns at once and changes nothing.
MallocCall(s, size) ==
    /\ pc = "idle"
    /\ ptr[s] = NULL
    /\ memrdy
    /\ size > 0
    /\ call' = [slot |-> s, size |-> size]
    /\ offset' = TblSize - 1
    /\ cmemb' = 0
    /\ pc' = "scan"
    /\ UNCHANGED <<memmap, memrdy, ptr, req, i, nfree>>

\* The count of free blocks in a row after looking at word `offset`.
Count == IF memmap[offset] = 0 THEN cmemb + 1 ELSE 0

\* Seeded fault: a used block does not reset the count.
ScanNoReset ==
    /\ pc = "scan"
    /\ offset >= 0
    /\ LET n == IF memmap[offset] = 0 THEN cmemb + 1 ELSE cmemb
       IN  /\ cmemb' = n
           /\ \/ /\ n = Pool!nmemb(call.size)
                 /\ pc' = "mark" /\ i' = 0 /\ UNCHANGED offset
              \/ /\ n # Pool!nmemb(call.size)
                 /\ offset' = offset - 1 /\ UNCHANGED <<pc, i>>
    /\ UNCHANGED <<memmap, memrdy, ptr, req, call, nfree>>

\* Seeded fault: an unsigned offset wraps instead of going below zero.
ScanUnsigned ==
    /\ pc = "scan"
    /\ cmemb' = Count
    /\ \/ /\ Count = Pool!nmemb(call.size)
          /\ pc' = "mark" /\ i' = 0 /\ UNCHANGED offset
       \/ /\ Count # Pool!nmemb(call.size)
          /\ offset' = (offset + TblSize - 1) % TblSize
          /\ UNCHANGED <<pc, i>>
    /\ UNCHANGED <<memmap, memrdy, ptr, req, call, nfree>>

\* One iteration of the search, from the last block down.
Scan ==
    /\ pc = "scan"
    /\ offset >= 0
    /\ cmemb' = Count
    /\ \/ /\ Count = Pool!nmemb(call.size)
          /\ pc' = "mark"
          /\ i' = 0
          /\ UNCHANGED offset
       \/ /\ Count # Pool!nmemb(call.size)
          /\ offset' = offset - 1
          /\ UNCHANGED <<pc, i>>
    /\ UNCHANGED <<memmap, memrdy, ptr, req, call, nfree>>

\* The search has passed block 0: 0xFFFFFFFF, and mymalloc returns NULL.
ScanFailed ==
    /\ pc = "scan"
    /\ offset < 0
    /\ pc' = "idle"
    /\ UNCHANGED <<memmap, memrdy, ptr, req, locals>>

\* One iteration of the marking loop, or the return of the address.
MarkRun ==
    /\ pc = "mark"
    /\ \/ /\ i < Pool!nmemb(call.size)
          /\ memmap' = [memmap EXCEPT ![offset + i] = Pool!nmemb(call.size)]
          /\ i' = i + 1
          /\ UNCHANGED <<pc, ptr, req>>
       \/ /\ i = Pool!nmemb(call.size)
          /\ ptr' = [ptr EXCEPT ![call.slot] = offset * BlkSize]
          /\ req' = [req EXCEPT ![call.slot] = call.size]
          /\ pc' = "idle"
          /\ UNCHANGED <<memmap, i>>
    /\ UNCHANGED <<memrdy, call, offset, cmemb, nfree>>

-----------------------------------------------------------------------------
(* my_mem_free.                                                            *)

\* Seeded fault: the length is not read from the table.
FreeCallOne(s) ==
    /\ pc = "idle"
    /\ ptr[s] # NULL
    /\ memrdy
    /\ call' = [slot |-> s, size |-> 0]
    /\ offset' = Pool!index(ptr[s])
    /\ nfree' = 1
    /\ i' = 0
    /\ pc' = "free"
    /\ UNCHANGED <<memmap, memrdy, ptr, req, cmemb>>

\* The block of the pointer, and the length its word holds.
FreeCall(s) ==
    /\ pc = "idle"
    /\ ptr[s] # NULL
    /\ memrdy
    /\ call' = [slot |-> s, size |-> 0]
    /\ offset' = Pool!index(ptr[s])
    /\ nfree' = memmap[Pool!index(ptr[s])]
    /\ i' = 0
    /\ pc' = "free"
    /\ UNCHANGED <<memmap, memrdy, ptr, req, cmemb>>

FreeRun ==
    /\ pc = "free"
    /\ \/ /\ i < nfree
          /\ memmap' = [memmap EXCEPT ![offset + i] = 0]
          /\ i' = i + 1
          /\ UNCHANGED <<pc, ptr, req>>
       \/ /\ i = nfree
          /\ ptr' = [ptr EXCEPT ![call.slot] = NULL]
          /\ req' = [req EXCEPT ![call.slot] = 0]
          /\ pc' = "idle"
          /\ UNCHANGED <<memmap, i>>
    /\ UNCHANGED <<memrdy, call, offset, cmemb, nfree>>

MainStep ==
    \/ InitCall
    \/ InitClear
    \/ \E s \in MainSlots, size \in Sizes : MallocCall(s, size)
    \/ Scan
    \/ ScanFailed
    \/ MarkRun
    \/ \E s \in MainSlots : FreeCall(s)
    \/ FreeRun

\* The part of MainStep the main program takes without being asked: once
\* inside malloc.c it runs on.
Running == InitCall \/ InitClear \/ Scan \/ ScanFailed \/ MarkRun \/ FreeRun

\* A whole call of mymalloc or myfree inside an interrupt handler.
IsrCall ==
    /\ \E s \in IsrSlots :
        \/ \E size \in Sizes : Pool!mymalloc(s, size)
        \/ Pool!myfree(s)
    /\ UNCHANGED <<pc, locals>>

-----------------------------------------------------------------------------
(* Interrupts that allocate, but only while the main program is outside    *)
(* malloc.c.                                                               *)
Next == MainStep \/ (pc = "idle" /\ IsrCall)
Spec == Init /\ [][Next]_vars /\ WF_vars(Running)

(* Interrupts that allocate at any moment, as the code lets them.          *)
IrqNext == MainStep \/ IsrCall
IrqSpec == Init /\ [][IrqNext]_vars

-----------------------------------------------------------------------------
(* Properties.                                                             *)

\* The table as MyMem has it between two of its steps: a run being marked is
\* not yet taken, a run being cleared is still held.
SettledMap ==
    [k \in Blocks |->
        CASE pc = "clear" -> 0
          [] pc = "mark" /\ k \in offset..offset+i-1 -> 0
          [] pc = "free" /\ k \in offset..offset+i-1 -> nfree
          [] OTHER -> memmap[k]]

Whole == INSTANCE MyMem WITH
            Data <- {0},
            mem <- [k \in 0..TblSize*BlkSize-1 |-> 0],
            memmap <- SettledMap,
            memrdy <- memrdy \/ pc = "clear"

\* The loops do what MyMem says in one step: the downward search with its
\* running count finds the highest run that is long enough.
ImplementsMyMem == Whole!Spec

\* Every call returns: the search ends below block 0.
CallReturns == [](pc # "idle" => <>(pc = "idle"))

\* No block has two owners, the handlers' calls included.
NoOverlap == Pool!NoOverlap

=============================================================================
