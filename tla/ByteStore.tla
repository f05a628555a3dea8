----------------------------- MODULE ByteStore ------------------------------
(***************************************************************************)
(* What norflash_write promises: the bytes at the address are replaced and *)
(* no others are, whatever they were before.  When the power fails on the  *)
(* way, one sector may hold anything; the sectors below it are as after    *)
(* the call and those above it as before.                                  *)
(***************************************************************************)
EXTENDS Naturals

CONSTANTS
    Address,    \* addresses of bytes, from 0 on
    SectorSize, \* bytes erased together
    Byte,       \* values of a byte
    Requests    \* [addr, n, data]: n bytes to be written at addr

VARIABLES
    store, \* the bytes
    req,   \* the call in progress, or the last one
    busy   \* whether a call is in progress

vars == <<store, req, busy>>

\* The contents once the call has been carried out.
Written == [a \in Address |->
    IF a \in req.addr .. req.addr + req.n - 1 THEN req.data[a - req.addr] ELSE store[a]]

Init ==
    /\ store \in [Address -> Byte]
    /\ busy = FALSE

Call ==
    /\ ~busy /\ busy'
    /\ req' \in Requests
    /\ UNCHANGED store

Return ==
    /\ busy /\ ~busy'
    /\ store' = Written
    /\ UNCHANGED req

Fail ==
    /\ busy /\ ~busy'
    /\ store' \in [Address -> Byte]
    /\ \E s \in Address : \A a \in Address :
        /\ a \div SectorSize < s => store'[a] = Written[a]
        /\ a \div SectorSize > s => store'[a] = store[a]
    /\ UNCHANGED req

Next == Call \/ Return \/ Fail

Spec == Init /\ [][Next]_vars

=============================================================================
