------------------------------ MODULE KeyScan -------------------------------
(***************************************************************************)
(* key_scan (key.c), which every stage of the acceptance sequence asks.    *)
(* Its key_up is a static variable: it outlives the stage, the loop and    *)
(* the call site that took a key.  Every caller passes mode 0.             *)
(*                                                                         *)
(* A component to be composed: the caller's module says when key_scan is   *)
(* called and what is done with the value.                                 *)
(***************************************************************************)
EXTENDS Integers, FiniteSets

CONSTANT MaxDown    \* bound: keys held at one time

VARIABLES
    pins,      \* the keys that are down
    key_up,    \* static key_up of key_scan
    waiting,   \* a call is in its delay_ms(10)
    taken      \* keys returned since all keys were up (history)

KeyVars == <<pins, key_up, waiting, taken>>

NoKey == 0
KEY0 == 1
KEY1 == 2
KEY2 == 3
WKUP == 4
Key == {KEY0, KEY1, KEY2, WKUP}

KeyType ==
    /\ pins \in SUBSET Key
    /\ key_up \in BOOLEAN /\ waiting \in BOOLEAN
    /\ taken \in Nat

KeyInit == pins = {} /\ key_up = TRUE /\ waiting = FALSE /\ taken = 0

-----------------------------------------------------------------------------
\* The tester presses or releases a key; contacts that bounce do both.
Touch ==
    /\ \E k \in Key : pins' = (pins \ {k}) \cup ({k} \ pins)
    /\ Cardinality(pins') <= MaxDown
    /\ taken' = IF pins' = {} THEN 0 ELSE taken
    /\ UNCHANGED <<key_up, waiting>>

Armed == key_up /\ pins # {}

\* A key is down and none was before: wait 10 ms for the contacts.
KeyWait ==
    /\ ~waiting /\ Armed
    /\ waiting' = TRUE
    /\ UNCHANGED <<pins, key_up, taken>>

\* Of several keys the last test wins: WKUP, then KEY2, KEY1, KEY0.
Keyval == IF pins = {} THEN NoKey ELSE CHOOSE k \in pins : \A j \in pins : j <= k

\* Seeded fault: the test for the release of all keys leaves out WKUP.
ReturnsWkupHeld(v) ==
    \/ /\ ~waiting /\ ~Armed
       /\ v = NoKey
       /\ key_up' = (key_up \/ pins \subseteq {WKUP})
       /\ UNCHANGED <<pins, waiting, taken>>
    \/ /\ waiting
       /\ v = Keyval
       /\ key_up' = FALSE
       /\ waiting' = FALSE
       /\ taken' = IF v = NoKey THEN taken ELSE taken + 1
       /\ UNCHANGED pins

\* key_scan(0) returns v: at once, noting whether all keys are up, or after the
\* wait with the key that is still down.
Returns(v) ==
    \/ /\ ~waiting /\ ~Armed
       /\ v = NoKey
       /\ key_up' = (key_up \/ pins = {})
       /\ UNCHANGED <<pins, waiting, taken>>
    \/ /\ waiting
       /\ v = Keyval
       /\ key_up' = FALSE
       /\ waiting' = FALSE
       /\ taken' = IF v = NoKey THEN taken ELSE taken + 1
       /\ UNCHANGED pins

-----------------------------------------------------------------------------
\* Between two moments at which all keys are up at most one key is returned.
TakenOnce == taken <= 1

=============================================================================
