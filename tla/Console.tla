------------------------------ MODULE Console -------------------------------
(***************************************************************************)
(* The serial console: the receive handler of usart.c, which collects a    *)
(* line, and the TIM4 handler of usmart_port.c, which takes it and runs    *)
(* it.  Both handlers have preemption priority 3, so that neither          *)
(* interrupts the other; a byte that comes while a command runs waits in   *)
(* the data register of the UART, and the bytes behind it are lost.        *)
(*                                                                         *)
(* UsmartStr says what usmart_scan makes of the text.                      *)
(***************************************************************************)
EXTENDS UsmartStr

CONSTANTS
    Char,        \* bytes other than CR and LF
    CR, LF, Nul,
    RecLen,      \* USART_REC_LEN
    Lines,       \* lines that a host which waits may send, without CR LF
    Means,       \* what is meant by those of them that are plainly written
    Quick,       \* lines that a host which does not wait may send
    InitArr,     \* reload value given to usmart_timx_init
    ScanArr,     \* reload value the handler leaves behind
    MaxArr,      \* 0xFFFF, the reload value while a function is timed
    MaxAsked,    \* bound: lines sent by a host that waits
    MaxLines     \* bound: lines sent by a host that does not

ASSUME ConsoleAssumption ==
    /\ RecLen \in Nat \ {0}
    /\ CR # LF /\ Nul \notin {CR, LF} /\ {CR, LF, Nul} \cap Char = {}
    /\ Lines \cup Quick \subseteq Seq(Char)
    /\ DOMAIN Means \subseteq Lines
    /\ InitArr \in Nat /\ ScanArr \in Nat /\ MaxArr \in Nat
    /\ MaxAsked \in Nat /\ MaxLines \in Nat

VARIABLES
    waits,   \* the host waits for an answer before the next line (or not)
    sta,     \* g_usart_rx_sta: bit 15, bit 14 and the count
    buf,     \* g_usart_rx_buf
    rdr,     \* the byte in the UART's data register, or Nul
    isr,     \* where the TIM4 handler is
    dev,     \* usmart_dev: sptype, runtimeflag
    arr,     \* reload register of TIM4
    rest,    \* what the host has still to send of its line
    sent,    \* lines sent (history)
    taken,   \* the text received when it was taken (history)
    ran,     \* texts and what was done for them (history)
    timed    \* the run time that usmart_exe shows, with the ticks the function took
             \* and whether the counter overflowed between two accesses to it
             \* (history); the next call begins it anew

vars == <<waits, sta, buf, rdr, isr, dev, arr, rest, sent, taken, ran, timed>>
NotTimed == [runtime |-> 0, took |-> 0, slip |-> FALSE]
Empty == [done |-> FALSE, cr |-> FALSE, n |-> 0]

Init ==
    /\ waits \in BOOLEAN
    /\ sta = Empty
    /\ buf = [k \in 0..RecLen-1 |-> Nul]
    /\ rdr = Nul
    /\ isr = "none"
    /\ dev = [sptype |-> "hex", flag |-> FALSE]
    /\ arr = InitArr
    /\ rest = <<>> /\ sent = <<>> /\ taken = <<>> /\ ran = <<>> /\ timed = NotTimed

-----------------------------------------------------------------------------
(* The host.                                                               *)

SendLine(l) ==
    /\ rest = <<>>
    /\ \/ waits /\ l \in Lines /\ Len(sent) < MaxAsked /\ Len(ran) = Len(sent) /\ isr = "none"
       \/ ~waits /\ l \in Quick /\ Len(sent) < MaxLines
    /\ rest' = l \o <<CR, LF>>
    /\ sent' = Append(sent, l)
    /\ UNCHANGED <<waits, sta, buf, rdr, isr, dev, arr, taken, ran, timed>>

\* A byte arrives.  The receive handler is in time for the next one unless the
\* TIM4 handler is at a command; then the register keeps the first.
Arrive ==
    /\ rest # <<>>
    /\ rdr = Nul \/ isr # "none"
    /\ rdr' = IF rdr = Nul THEN Head(rest) ELSE rdr
    /\ rest' = Tail(rest)
    /\ UNCHANGED <<waits, sta, buf, isr, dev, arr, sent, taken, ran, timed>>

-----------------------------------------------------------------------------
(* HAL_UART_RxCpltCallback.                                                *)

\* Seeded fault: the count is tested before the byte is counted.
StoredLate(c) ==
    [sta |-> IF sta.n > RecLen - 1 THEN Empty ELSE [sta EXCEPT !.n = @ + 1],
     buf |-> [k \in DOMAIN buf \cup {sta.n} |-> IF k = sta.n THEN c ELSE buf[k]]]

\* An ordinary byte: into the buffer, which begins anew when it is full.
Stored(c) ==
    [sta |-> IF sta.n + 1 > RecLen - 1 THEN Empty ELSE [sta EXCEPT !.n = @ + 1],
     buf |-> [buf EXCEPT ![sta.n] = c]]

HAL_UART_RxCpltCallback(c) ==
    \/ sta.done /\ UNCHANGED <<sta, buf>>                      \* dropped
    \/ /\ ~sta.done /\ sta.cr
       /\ sta' = IF c = LF THEN [sta EXCEPT !.done = TRUE] ELSE Empty
       /\ UNCHANGED buf
    \/ /\ ~sta.done /\ ~sta.cr /\ c = CR
       /\ sta' = [sta EXCEPT !.cr = TRUE]
       /\ UNCHANGED buf
    \/ /\ ~sta.done /\ ~sta.cr /\ c # CR
       /\ sta' = Stored(c).sta
       /\ buf' = Stored(c).buf

\* Seeded fault: the receive handler interrupts a running command.
UartIrqPreempts ==
    /\ rdr # Nul
    /\ HAL_UART_RxCpltCallback(rdr)
    /\ rdr' = Nul
    /\ UNCHANGED <<waits, isr, dev, arr, rest, sent, taken, ran, timed>>

USART_UX_IRQHandler ==
    /\ rdr # Nul
    /\ isr = "none"
    /\ HAL_UART_RxCpltCallback(rdr)
    /\ rdr' = Nul
    /\ UNCHANGED <<waits, isr, dev, arr, rest, sent, taken, ran, timed>>

-----------------------------------------------------------------------------
(* USMART_TIMX_IRQHandler.                                                 *)

Received == [k \in 1..sta.n |-> buf[k-1]]

\* Seeded fault: only the completion bit is cleared.
GetKeepsCr ==
    /\ sta.done
    /\ buf' = [buf EXCEPT ![sta.n] = Nul]
    /\ sta' = [sta EXCEPT !.done = FALSE]
    /\ taken' = Received
    /\ isr' = "scan"
    /\ UNCHANGED arr

\* Seeded fault: an empty line is left in the buffer.
GetNonEmpty ==
    /\ sta.done
    /\ arr' = IF sta.n = 0 THEN ScanArr ELSE arr
    /\ buf' = IF sta.n = 0 THEN buf ELSE [buf EXCEPT ![sta.n] = Nul]
    /\ sta' = IF sta.n = 0 THEN sta ELSE Empty
    /\ taken' = IF sta.n = 0 THEN taken ELSE Received
    /\ isr' = IF sta.n = 0 THEN isr ELSE "scan"

\* A line is there: end the text, take it, open the reception.
Get ==
    /\ sta.done
    /\ buf' = [buf EXCEPT ![sta.n] = Nul]
    /\ sta' = Empty
    /\ taken' = Received
    /\ isr' = "scan"
    /\ UNCHANGED arr

\* With no line there the handler is through in a few cycles.
usmart_get_input_string ==
    /\ isr = "none"
    /\ \/ Get
       \/ /\ ~sta.done
          /\ arr' = ScanArr
          /\ UNCHANGED <<buf, sta, taken, isr>>
    /\ UNCHANGED <<waits, rdr, dev, rest, sent, ran, timed>>

\* The text in the buffer, up to its end.
Text ==
    LET n == CHOOSE k \in 0..RecLen-1 : buf[k] = Nul /\ \A j \in 0..k-1 : buf[j] # Nul
    IN  [k \in 1..n |-> buf[k-1]]

(* TIM4 goes on counting between any two accesses to its registers, here at *)
(* most once.                                                              *)
Gap == 0..1

\* The counter n ticks later.  At the reload value it overflows and sets the flag.
Ticks(tim, n) ==
    [cnt  |-> (tim.cnt + n) % (tim.arr + 1),
     arr  |-> tim.arr,
     flag |-> tim.flag \/ tim.cnt + n > tim.arr]

\* The flag is cleared, then the reload value is set, then the counter.
usmart_timx_reset_time(tim, g1, g2) ==
    LET cleared == Ticks([tim EXCEPT !.flag = FALSE], g1)
        wide    == Ticks([cleared EXCEPT !.arr = MaxArr], g2)
    IN  [wide EXCEPT !.cnt = 0]

\* Seeded fault: an overflow of the counter is not looked at.
TimeNoFlag(tim, g) == Ticks(tim, g).cnt

\* The flag is read, then the counter: an overflow counts for 0xFFFF.
usmart_timx_get_time(tim, g) == (IF tim.flag THEN MaxArr ELSE 0) + Ticks(tim, g).cnt

\* A function is run and timed.  The flag is that of the interrupt being handled,
\* and the counter has gone on since.
RunTimed ==
    \E cnt \in 0..arr, g1, g2, g3 \in Gap, d \in 0..2 * (MaxArr + 1) - 1 :
        LET start == usmart_timx_reset_time([cnt |-> cnt, arr |-> arr, flag |-> TRUE], g1, g2)
            stop  == Ticks(start, d)
        IN  /\ timed' = [runtime |-> usmart_timx_get_time(stop, g3), took |-> d,
                         slip |-> start.flag \/ stop.cnt + g3 > stop.arr]
            /\ arr' = start.arr

\* usmart_scan on the text taken: run the function (usmart_exe), or carry out
\* a system command, or report an error.
usmart_scan ==
    /\ isr = "scan"
    /\ \E cmd \in {Command(Text)} :
        /\ ran' = Append(ran, [text |-> Text, did |-> cmd])
        /\ \/ /\ cmd.does = "call"
              /\ RunTimed
              /\ UNCHANGED dev
           \/ /\ cmd.does = "type"
              /\ dev' = [dev EXCEPT !.sptype = cmd.type]
              /\ UNCHANGED <<arr, timed>>
           \/ /\ cmd.does = "time"
              /\ dev' = [dev EXCEPT !.flag = cmd.on]
              /\ UNCHANGED <<arr, timed>>
           \/ cmd.does \in {"refuse", "print", "show"} /\ UNCHANGED <<dev, arr, timed>>
    /\ isr' = "leave"
    /\ UNCHANGED <<waits, sta, buf, rdr, rest, sent, taken>>

\* The handler clears the counter and the flag and sets the reload value.
USMART_TIMX_IRQHandler ==
    /\ isr = "leave"
    /\ arr' = ScanArr
    /\ isr' = "none"
    /\ timed' = NotTimed
    /\ UNCHANGED <<waits, sta, buf, rdr, dev, rest, sent, taken, ran>>

-----------------------------------------------------------------------------
Handlers == USART_UX_IRQHandler \/ usmart_get_input_string \/ usmart_scan
            \/ USMART_TIMX_IRQHandler

Host == Arrive \/ \E l \in Lines \cup Quick : SendLine(l)

Next == Handlers \/ Host

\* The TIM4 handler goes on to its end: usmart_scan and USMART_TIMX_IRQHandler
\* are the steps that do so, and one of them is enabled until then.
GoesOn == isr # "none" /\ isr' = IF isr = "scan" THEN "leave" ELSE "none"

\* TIM4 keeps running, a pending byte raises its interrupt, and the handlers
\* take turns; a line once begun is sent.
Spec ==
    /\ Init /\ [][Next]_vars
    /\ WF_vars(Arrive)
    /\ WF_isr(GoesOn)
    /\ SF_vars(USART_UX_IRQHandler) /\ SF_vars(usmart_get_input_string /\ sta.done)

-----------------------------------------------------------------------------
(* Properties.                                                             *)

\* Types; the count stays inside the buffer, with room for the end mark.
TypeOK ==
    /\ sta \in [done : BOOLEAN, cr : BOOLEAN, n : 0..RecLen-1]
    /\ buf \in [0..RecLen-1 -> Char \cup {LF, Nul}]
    /\ rdr \in Char \cup {CR, LF, Nul}
    /\ isr \in {"none", "scan", "leave"}
    /\ dev \in [sptype : {"hex", "dec"}, flag : BOOLEAN]
    /\ timed \in [runtime : Nat, took : Nat, slip : BOOLEAN]
    /\ arr \in {InitArr, ScanArr, MaxArr}

\* What the buffer leaves of a line: all of it when it fits, else what came
\* after the buffer last began anew.
Kept(l) == SubSeq(l, Len(l) - (Len(l) % RecLen) + 1, Len(l))

\* However fast a host sends, at most as many lines are run as it sent.  One that
\* waits for the answer gets each of its lines run once, in order and unaltered,
\* or the end of it when the line is too long for the buffer.
LinesRun ==
    /\ Len(ran) <= Len(sent)
    /\ waits => \A i \in DOMAIN ran : ran[i].text = Kept(sent[i])

\* A plainly written line that fits the buffer has the effect its sender means: the
\* function it names gets the parameters as they are written, in their order, and
\* one that is no command or has too few parameters or too many has none.  In a
\* plain line no string holds a comma, which usmart_get_fname takes for the end of
\* a parameter, and blanks stand at the ends of numbers only.
AsTyped ==
    waits => \A i \in DOMAIN ran :
        sent[i] \in DOMAIN Means /\ Len(sent[i]) < RecLen => ran[i].did = Means[sent[i]]

\* Reception opens before the text is parsed, but nothing is received into the
\* buffer until it has been: what runs is what was received.
TextUntouched == isr = "scan" => Text = taken

\* The time shown for a function is right to a tick up to twice the range of the
\* counter, as the comment above usmart_timx_get_time promises, unless the counter
\* overflows between the accesses that reset it or those that read it.
RuntimeNear == timed.slip \/ timed.runtime \in timed.took-1..timed.took+1

\* Every line of a host that waits is answered: no garbage left from earlier
\* lines blocks the receiver.
Answered == \A i \in 1..MaxAsked : waits /\ Len(sent) >= i ~> Len(ran) >= i

\* A complete line is taken from the buffer some time, so that reception opens
\* again.
ReceptionOpens == sta.done ~> ~sta.done

=============================================================================
