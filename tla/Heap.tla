-------------------------------- MODULE Heap --------------------------------
(***************************************************************************)
(* What Middlewares/MALLOC promises to its callers: every pointer variable *)
(* (slot) that holds memory holds an object of its own.  A request may be  *)
(* refused at any time; a fresh object has unspecified contents; a store   *)
(* changes one byte of one object; growing or shrinking an object keeps    *)
(* the bytes both sizes have.  Nothing else ever changes an object.        *)
(***************************************************************************)
EXTENDS Naturals

CONSTANTS
    Slots,   \* the pointer variables of the callers
    Data,    \* values of a byte
    Sizes,   \* request sizes, in bytes
    NULL     \* a slot that holds no object

VARIABLE obj \* obj[s]: the bytes of the object in slot s, or NULL

\* The objects of a given size.
Objects(size) == [0..size-1 -> Data]

Init == obj = [s \in Slots |-> NULL]

Refuse == UNCHANGED obj

Alloc(s, size) ==
    /\ obj[s] = NULL
    /\ \E o \in Objects(size) : obj' = [obj EXCEPT ![s] = o]

Store(s, i, d) ==
    /\ obj[s] # NULL
    /\ i \in DOMAIN obj[s]
    /\ obj' = [obj EXCEPT ![s][i] = d]

Resize(s, size) ==
    /\ obj[s] # NULL
    /\ \E o \in Objects(size) :
        /\ \A i \in DOMAIN o \cap DOMAIN obj[s] : o[i] = obj[s][i]
        /\ obj' = [obj EXCEPT ![s] = o]

Free(s) == obj' = [obj EXCEPT ![s] = NULL]

Next ==
    \E s \in Slots :
        \/ \E size \in Sizes \ {0} : Alloc(s, size) \/ Resize(s, size)
        \/ \E size \in Sizes, d \in Data : \E i \in 0..size-1 : Store(s, i, d)
        \/ Free(s)
        \/ Refuse

Spec == Init /\ [][Next]_obj

=============================================================================
