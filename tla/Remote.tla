------------------------------- MODULE Remote -------------------------------
(***************************************************************************)
(* The infrared receiver (remote.c): two handlers of TIM1, one for edges   *)
(* and one for the overflow of the counter, and remote_scan, which main    *)
(* calls from remote_test (test.c) and which the handlers interrupt        *)
(* between any two of its reads and writes.                                *)
(*                                                                         *)
(* A frame is a lead, then four fields of bits: address, its inverse, key, *)
(* its inverse.  While a key is held the remote sends More pulses.  The    *)
(* line is high when idle; a pulse is told by the length of its high part, *)
(* in microseconds, which the handler reads at the falling edge.           *)
(*                                                                         *)
(* g_remote_cnt is left out: nothing reads it.                             *)
(***************************************************************************)
EXTENDS Integers, Sequences

CONSTANTS
    FieldLen,      \* 8, bits of a field
    MaxOvf,        \* 14, overflows after which the lead is forgotten
    Codes,         \* codes of the remote's keys, lowest bit first
    Power,         \* the code that ends remote_test
    MaxFrames,     \* bound: keys pressed
    MaxMore,       \* bound: More pulses sent for one key
    MaxDamage,     \* bound: pulses damaged on their way
    Slack          \* handlers that interrupt one call of remote_scan

Bit == {0, 1}
Field == [1..FieldLen -> Bit]
Zero == [i \in 1..FieldLen |-> 0]
Inverse(f) == [i \in 1..FieldLen |-> 1 - f[i]]
REMOTE_ID == Zero

VARIABLES
    sta,           \* g_remote_sta: bits 7, 6, 4 and the overflow counter
    data,          \* g_remote_data, lowest bit first
    rising,        \* the capture waits for a rising edge
    line,          \* what is on the line: Idle, Low or the pulse that is high
    air,           \* the pulses still to come of what is being sent
    quiet,         \* overflows since the line fell silent, and whether main
                   \* has looked in since the first
    scan,          \* where main is in remote_scan
    tmp,           \* locals of remote_scan: t1, sta and the copy of the status
    printed,       \* codes printed, and torn at that time; the last is old_key
    torn,          \* since the receiver was at rest, a bit came in during a
                   \* call, or a call wrote back an outdated status (history)
    sent,          \* codes sent (history)
    more, damage,  \* what is left of the bounds
    late,          \* handlers that interrupted this call
    owed           \* frames that found the receiver at rest, came through
                   \* whole so far, and have not been answered (history)

RemoteVars == <<sta, data, rising, line, air, quiet, scan, tmp, printed, torn, sent,
                more, damage, late, owed>>

\* Lengths of the high part; Stray is in none of the handler's windows.
Pulse == <<560, 1680>>
Lead == 4500
More == 2250
Stray == 100
Kind == {Pulse[1], Pulse[2], Lead, More, Stray}
Low == 0       \* the line is low
Idle == 10000  \* the line is high and nothing is sent

Rest == [lead |-> FALSE, done |-> FALSE, rise |-> FALSE, ovf |-> 0]
Frame(code) ==
    LET bits == REMOTE_ID \o Inverse(REMOTE_ID) \o code \o Inverse(code)
    IN  <<Lead>> \o [i \in DOMAIN bits |-> Pulse[bits[i] + 1]]
FieldOf(i) == SubSeq(data, i * FieldLen + 1, (i + 1) * FieldLen)
Nothing == [t1 |-> Zero, res |-> Zero, copy |-> Rest]

RemoteType ==
    /\ sta \in [lead : BOOLEAN, done : BOOLEAN, rise : BOOLEAN, ovf : 0..MaxOvf]
    /\ data \in [1..4 * FieldLen -> Bit]
    /\ rising \in BOOLEAN
    /\ line \in Kind \cup {Idle, Low}
    /\ air \in Seq(Kind)
    /\ quiet \in [ovf : 0..MaxOvf + 2, seen : BOOLEAN]
    /\ scan \in {"ask", "id", "id inverse", "key", "key inverse", "held", "copy", "clear", "leave"}
    /\ tmp.t1 \in Field /\ tmp.res \in Field
    /\ printed \in Seq([code : Field, torn : BOOLEAN]) /\ torn \in BOOLEAN
    /\ sent \in Seq(Codes)
    /\ late \in 0..Slack /\ owed \in SUBSET DOMAIN sent

RemoteInit ==
    /\ sta = Rest
    /\ data = [i \in 1..4 * FieldLen |-> 0]
    /\ rising = TRUE
    /\ line = Idle /\ air = <<>>
    /\ quiet = [ovf |-> 1, seen |-> TRUE]
    /\ scan = "ask" /\ tmp = Nothing
    /\ printed = <<>> /\ torn = FALSE /\ sent = <<>>
    /\ more = 0 /\ damage = 0
    /\ late = 0 /\ owed = {}

\* After remote_test nothing asks remote_scan again; the handlers go on unseen.
RemoteOff ==
    /\ sta' = Rest /\ data' = [i \in 1..4 * FieldLen |-> 0] /\ rising' = TRUE
    /\ line' = Idle /\ air' = <<>> /\ quiet' = [ovf |-> 1, seen |-> TRUE]
    /\ scan' = "ask" /\ tmp' = Nothing /\ printed' = <<>> /\ torn' = FALSE /\ sent' = <<>>
    /\ more' = 0 /\ damage' = 0 /\ late' = 0 /\ owed' = {}

-----------------------------------------------------------------------------
(* The handlers.                                                           *)

\* A handler runs outside remote_scan, or is one of the few that hit it.
Interrupts ==
    /\ scan = "ask" \/ late < Slack
    /\ late' = IF scan = "ask" THEN late ELSE late + 1

\* Seeded fault: the counter of overflows goes one too far.
PeriodElapsedOneMore ==
    sta' = IF ~sta.lead THEN sta
           ELSE [lead |-> sta.ovf <= MaxOvf,
                 done |-> sta.done \/ sta.ovf = 0,
                 rise |-> FALSE,
                 ovf  |-> IF sta.ovf <= MaxOvf THEN sta.ovf + 1 ELSE 0]

\* HAL_TIM_PeriodElapsedCallback, 10 ms after the last rising edge and again
\* every 10 ms: the first one after a frame, and after a More, completes it.
PeriodElapsed ==
    sta' = IF ~sta.lead THEN sta
           ELSE [lead |-> sta.ovf < MaxOvf,
                 done |-> sta.done \/ sta.ovf = 0,
                 rise |-> FALSE,
                 ovf  |-> IF sta.ovf < MaxOvf THEN sta.ovf + 1 ELSE 0]

\* HAL_TIM_IC_CaptureCallback with the line high.
CaptureRise ==
    /\ sta' = [sta EXCEPT !.rise = TRUE]
    /\ rising' = FALSE
    /\ UNCHANGED data

\* Seeded fault: the window of a one ends at 1600.
CaptureFallNarrow(d) ==
    LET lead == sta.rise /\ sta.lead
        bit  == CASE 300 < d /\ d < 800 -> {0} [] 1400 < d /\ d < 1600 -> {1} [] OTHER -> {}
    IN  /\ sta' = [sta EXCEPT !.rise = FALSE,
                              !.ovf  = IF lead /\ 2000 < d /\ d < 3000 THEN 0 ELSE @,
                              !.lead = @ \/ (sta.rise /\ 4200 < d /\ d < 4700)]
        /\ data' = IF lead /\ bit # {} THEN Append(Tail(data), CHOOSE x \in bit : TRUE) ELSE data
        /\ rising' = TRUE

\* HAL_TIM_IC_CaptureCallback with the line low, after a high part of length d.
CaptureFall(d) ==
    LET lead == sta.rise /\ sta.lead
        bit  == CASE 300 < d /\ d < 800 -> {0} [] 1400 < d /\ d < 1800 -> {1} [] OTHER -> {}
    IN  /\ sta' = [sta EXCEPT !.rise = FALSE,
                              !.ovf  = IF lead /\ 2000 < d /\ d < 3000 THEN 0 ELSE @,
                              !.lead = @ \/ (sta.rise /\ 4200 < d /\ d < 4700)]
        /\ data' = IF lead /\ bit # {} THEN Append(Tail(data), CHOOSE x \in bit : TRUE) ELSE data
        /\ rising' = TRUE

-----------------------------------------------------------------------------
(* The remote.                                                             *)

\* The idle line falls.  The counter has gone round, so that the handler may
\* read any length; before the first edge it waits for a rising one.
LineFalls ==
    /\ line = Idle /\ quiet.ovf > 0 /\ quiet.seen
    /\ Interrupts
    /\ \/ rising /\ UNCHANGED <<sta, data, rising>>
       \/ ~rising /\ \E d \in Kind : CaptureFall(d)
    /\ line' = Low
    /\ quiet' = [ovf |-> 0, seen |-> FALSE]

\* A key is pressed.
Send(code) ==
    /\ Len(sent) < MaxFrames
    /\ LineFalls
    /\ air' = Frame(code)
    /\ sent' = Append(sent, code)
    /\ more' = MaxMore
    /\ IF sta = Rest /\ scan = "ask"
       THEN owed' = owed \cup {Len(sent')} /\ torn' = FALSE
       ELSE UNCHANGED <<owed, torn>>
    /\ UNCHANGED <<scan, tmp, printed, damage>>

\* The key is held: a More before the receiver forgets the lead.
SendMore ==
    /\ more > 0 /\ quiet.ovf < MaxOvf
    /\ LineFalls
    /\ air' = <<More>>
    /\ more' = more - 1
    /\ UNCHANGED <<scan, tmp, printed, torn, sent, damage, owed>>

\* The line rises: the next pulse, or idle after the last.  A pulse may be
\* damaged on its way.
Rise ==
    /\ line = Low
    /\ Interrupts
    /\ CaptureRise
    /\ \/ /\ air = <<>>
          /\ line' = Idle
          /\ UNCHANGED <<air, damage, owed>>
       \/ /\ air # <<>>
          /\ line' = Head(air) /\ air' = Tail(air)
          /\ UNCHANGED <<damage, owed>>
       \/ /\ air # <<>> /\ damage < MaxDamage
          /\ line' \in Kind \ {Head(air)} /\ air' = Tail(air)
          /\ damage' = damage + 1 /\ owed' = owed \ {Len(sent)}
    /\ quiet' = [ovf |-> 0, seen |-> FALSE]
    /\ UNCHANGED <<scan, tmp, printed, torn, sent, more>>

Fall ==
    /\ line \in Kind
    /\ Interrupts
    /\ CaptureFall(line)
    /\ line' = Low
    /\ torn' = (torn \/ (scan # "ask" /\ data' # data))
    /\ UNCHANGED <<air, quiet, scan, tmp, printed, sent, more, damage, owed>>

\* The counter overflows on an idle line, or once in the 9 ms low before a lead
\* or More.
Overflow ==
    /\ \/ line = Idle
       \/ line = Low /\ air # <<>> /\ Head(air) \in {Lead, More} /\ quiet.ovf = 0
    /\ Interrupts
    /\ PeriodElapsed
    /\ quiet' = [quiet EXCEPT !.ovf = IF @ < MaxOvf + 2 THEN @ + 1 ELSE @]
    /\ UNCHANGED <<data, rising, line, air, scan, tmp, printed, torn, sent, more, damage,
                   owed>>

Air == (\E code \in Codes : Send(code)) \/ SendMore \/ Rise \/ Fall \/ Overflow

-----------------------------------------------------------------------------
(* remote_scan and the loop of remote_test.                                *)

Handlers == <<sta, data, rising, line, air, torn, sent, more, damage>>

\* remote_scan has its answer; remote_test prints a new one.
Answer(code) ==
    /\ scan' = IF code = Power THEN "leave" ELSE "ask"
    /\ tmp' = Nothing /\ late' = 0
    /\ IF code # Zero /\ (printed = <<>> \/ printed[Len(printed)].code # code)
       THEN printed' = Append(printed, [code |-> code, torn |-> torn]) ELSE UNCHANGED printed
    /\ owed' = {i \in owed : sent[i] # code}

Look ==
    /\ scan = "ask"
    /\ scan' = IF sta.done THEN "id" ELSE "ask"
    /\ quiet' = [quiet EXCEPT !.seen = @ \/ (~sta.done /\ quiet.ovf > 0)]
    /\ UNCHANGED <<tmp, printed, late, owed, Handlers>>

\* Seeded fault: the inverse of the key is not compared.
ReadKeyUnchecked ==
    \/ /\ scan = "key"
       /\ tmp' = [tmp EXCEPT !.t1 = FieldOf(2)]
       /\ scan' = "key inverse"
    \/ /\ scan = "key inverse"
       /\ tmp' = [tmp EXCEPT !.res = tmp.t1]
       /\ scan' = IF tmp.t1 = Zero THEN "copy" ELSE "held"

ReadId ==
    \/ /\ scan = "id"
       /\ tmp' = [tmp EXCEPT !.t1 = FieldOf(0)]
       /\ scan' = "id inverse"
    \/ /\ scan = "id inverse"
       /\ scan' = IF tmp.t1 = Inverse(FieldOf(1)) /\ tmp.t1 = REMOTE_ID THEN "key" ELSE "copy"
       /\ UNCHANGED tmp

ReadKey ==
    \/ /\ scan = "key"
       /\ tmp' = [tmp EXCEPT !.t1 = FieldOf(2)]
       /\ scan' = "key inverse"
    \/ /\ scan = "key inverse"
       /\ tmp' = [tmp EXCEPT !.res = IF tmp.t1 = Inverse(FieldOf(3)) THEN tmp.t1 ELSE Zero]
       /\ scan' = IF tmp'.res = Zero THEN "copy" ELSE "held"

Read ==
    /\ ReadId \/ ReadKey
    /\ UNCHANGED <<quiet, printed, late, owed, Handlers>>

\* The key is right: is the lead still there?
Held ==
    /\ scan = "held"
    /\ \/ /\ sta.lead
          /\ Answer(tmp.res)
          /\ quiet' = [quiet EXCEPT !.seen = @ \/ quiet.ovf > 0]
       \/ /\ ~sta.lead
          /\ scan' = "copy"
          /\ UNCHANGED <<tmp, printed, late, owed, quiet>>
    /\ UNCHANGED Handlers

\* g_remote_sta &= ~(1 << 6): the read and the write.
Copy ==
    /\ scan = "copy"
    /\ tmp' = [tmp EXCEPT !.copy = sta]
    /\ scan' = "clear"
    /\ UNCHANGED <<quiet, printed, late, owed, Handlers>>

ClearDone ==
    /\ scan = "clear"
    /\ sta' = [tmp.copy EXCEPT !.done = FALSE]
    /\ torn' = (torn \/ sta # tmp.copy)
    /\ Answer(tmp.res)
    /\ quiet' = [quiet EXCEPT !.seen = @ \/ quiet.ovf > 0]
    /\ UNCHANGED <<data, rising, line, air, sent, more, damage>>

\* Every step of main but the one that ends remote_test.
Scan == Look \/ Read \/ Held \/ Copy \/ ClearDone

=============================================================================
