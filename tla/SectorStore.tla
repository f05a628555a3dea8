----------------------------- MODULE SectorStore -----------------------------
(***************************************************************************)
(* What the flash translation layer promises the host: a device of sectors *)
(* that is erased at first.  A request does its sectors in ascending order *)
(* and changes no others; a read changes none.  A write may be given up at *)
(* any sector, a read only at one the device does not have.                *)
(***************************************************************************)
EXTENDS Integers

CONSTANTS
    Size,     \* bound: sectors of the medium
    Value,    \* contents a host writes
    Erased,   \* content of a sector never written
    Firsts,   \* the sectors a request may begin at
    MaxCount  \* sectors of one request

VARIABLES
    store,    \* the sectors by number, none before the device is ready
    req,      \* the request in progress
    done      \* its sectors that are done

vars == <<store, req, done>>

NoRequest == [kind |-> "none", sec |-> 0, cnt |-> 0, buf |-> <<>>]
Reads == [kind : {"read"}, sec : Firsts, cnt : 1..MaxCount, buf : {<<>>}]
Writes(n) == [kind : {"write"}, sec : Firsts, cnt : {n}, buf : [0..n-1 -> Value]]

\* The next n sectors of the request.
Span(n) == req.sec + done .. req.sec + done + n - 1

Init == store = <<>> /\ req = NoRequest /\ done = 0

Prepare ==
    /\ store = <<>>
    /\ \E n \in 1..Size : store' = [x \in 0..n-1 |-> Erased]
    /\ UNCHANGED <<req, done>>

Begin ==
    /\ store # <<>> /\ req = NoRequest
    /\ req' \in Reads \cup UNION {Writes(n) : n \in 1..MaxCount}
    /\ UNCHANGED <<store, done>>

Read(n) ==
    /\ req.kind = "read" /\ Span(n) \subseteq DOMAIN store
    /\ done' = done + n
    /\ UNCHANGED <<store, req>>

Write(n) ==
    /\ req.kind = "write" /\ Span(n) \subseteq DOMAIN store
    /\ store' = [x \in DOMAIN store |->
                    IF x \in Span(n) THEN req.buf[x - req.sec] ELSE store[x]]
    /\ done' = done + n
    /\ UNCHANGED req

Finish ==
    /\ req # NoRequest
    /\ done < req.cnt /\ req.kind = "read" => req.sec + done \notin DOMAIN store
    /\ req' = NoRequest /\ done' = 0
    /\ UNCHANGED store

Next ==
    \/ Prepare \/ Begin \/ Finish
    \/ \E n \in 1..req.cnt-done : Read(n) \/ Write(n)

Spec == Init /\ [][Next]_vars

=============================================================================
