--------------------------- MODULE ConsoleProofs ----------------------------
(***************************************************************************)
(* The text the console runs is the text it received, for every buffer     *)
(* length, alphabet and set of lines: the proof that the equal priority of *)
(* the two handlers is enough for reception to open before the parsing.    *)
(***************************************************************************)
EXTENDS Console, TLAPS

Byte == Char \cup {CR, LF}

\* The count stays inside the buffer, no end mark stands before it, and what
\* usmart_scan will read is what was taken.
TextInv ==
    /\ sta \in [done : BOOLEAN, cr : BOOLEAN, n : 0..RecLen-1]
    /\ buf \in [0..RecLen-1 -> Char \cup {LF, Nul}]
    /\ rdr \in Byte \cup {Nul}
    /\ rest \in Seq(Byte)
    /\ \A k \in 0..sta.n-1 : buf[k] # Nul
    /\ TextUntouched

(* The end of a text is its first end mark.                                *)
LEMMA FirstNul ==
    ASSUME NEW b, NEW n \in 0..RecLen-1, b[n] = Nul, \A j \in 0..n-1 : b[j] # Nul
    PROVE  (CHOOSE k \in 0..RecLen-1 : b[k] = Nul /\ \A j \in 0..k-1 : b[j] # Nul) = n
<1>1. ASSUME NEW k \in 0..RecLen-1, b[k] = Nul, \A j \in 0..k-1 : b[j] # Nul PROVE k = n
    BY <1>1, ConsoleAssumption, SMT
<1>2. \E k \in 0..RecLen-1 : b[k] = Nul /\ \A j \in 0..k-1 : b[j] # Nul
    OBVIOUS
<1> QED
    BY <1>1, <1>2

(* The receive handler fills the buffer in order and begins anew before it  *)
(* is full.                                                                *)
LEMMA ReceiveKeeps ==
    ASSUME TextInv, USART_UX_IRQHandler
    PROVE  TextInv'
<1> DEFINE c == rdr
<1>0. /\ isr = "none" /\ isr' = "none" /\ rest' = rest /\ rdr' = Nul
      /\ c \in Byte /\ c # Nul
    BY ConsoleAssumption DEF USART_UX_IRQHandler, TextInv
<1>1. TextUntouched'
    BY <1>0 DEF TextUntouched
<1>2. sta.n \in 0..RecLen-1 /\ sta.done \in BOOLEAN /\ sta.cr \in BOOLEAN
      /\ sta = [done |-> sta.done, cr |-> sta.cr, n |-> sta.n]
    BY DEF TextInv
<1>3. Empty \in [done : BOOLEAN, cr : BOOLEAN, n : 0..RecLen-1] /\ Empty.n = 0
    BY ConsoleAssumption DEF Empty
<1>4. CASE UNCHANGED <<sta, buf>>
    BY <1>4, <1>0, <1>1 DEF TextInv
<1>5. CASE sta' = (IF c = LF THEN [sta EXCEPT !.done = TRUE] ELSE Empty) /\ UNCHANGED buf
    <2>1. sta' \in [done : BOOLEAN, cr : BOOLEAN, n : 0..RecLen-1] /\ sta'.n \in {sta.n, 0}
        BY <1>5, <1>2, <1>3
    <2>2. \A k \in 0..sta'.n-1 : buf'[k] # Nul
        BY <1>5, <2>1 DEF TextInv
    <2> QED
        BY <1>0, <1>1, <1>5, <2>1, <2>2 DEF TextInv
<1>6. CASE sta' = [sta EXCEPT !.cr = TRUE] /\ UNCHANGED buf
    <2>1. sta' \in [done : BOOLEAN, cr : BOOLEAN, n : 0..RecLen-1] /\ sta'.n = sta.n
        BY <1>6, <1>2
    <2> QED
        BY <1>0, <1>1, <1>6, <2>1 DEF TextInv
<1>7. CASE c # CR /\ sta' = Stored(c).sta /\ buf' = Stored(c).buf
    <2>1. sta' = IF sta.n + 1 > RecLen - 1 THEN Empty ELSE [sta EXCEPT !.n = @ + 1]
        BY <1>7 DEF Stored
    <2>2. buf' = [buf EXCEPT ![sta.n] = c]
        BY <1>7 DEF Stored
    <2>3. buf' \in [0..RecLen-1 -> Char \cup {LF, Nul}]
        BY <1>0, <1>7, <2>2 DEF TextInv, Byte
    <2>4. sta' \in [done : BOOLEAN, cr : BOOLEAN, n : 0..RecLen-1] /\ sta'.n \in {sta.n + 1, 0}
        BY <2>1, <1>2, <1>3, ConsoleAssumption
    <2>5. \A k \in 0..sta'.n-1 : buf'[k] # Nul
        BY <2>2, <2>4, <1>0, <1>2 DEF TextInv
    <2> QED
        BY <1>0, <1>1, <2>3, <2>4, <2>5 DEF TextInv
<1> QED
    BY <1>4, <1>5, <1>6, <1>7 DEF USART_UX_IRQHandler, HAL_UART_RxCpltCallback

(* Taking a line: what the parser will read is what was received.          *)
LEMMA GetKeeps ==
    ASSUME TextInv, usmart_get_input_string
    PROVE  TextInv'
<1>0. rdr' = rdr /\ rest' = rest
    BY DEF usmart_get_input_string
<1>1. CASE Get
    <2> DEFINE n == sta.n
    <2>1. n \in 0..RecLen-1 /\ \A k \in 0..n-1 : buf[k] # Nul
        BY DEF TextInv
    <2>2. buf' = [buf EXCEPT ![n] = Nul] /\ sta' = Empty /\ taken' = Received
        BY <1>1 DEF Get
    <2>3. buf' \in [0..RecLen-1 -> Char \cup {LF, Nul}]
        BY <2>2 DEF TextInv
    <2>4. buf'[n] = Nul /\ \A j \in 0..n-1 : buf'[j] = buf[j]
        BY <2>1, <2>2 DEF TextInv
    <2>5. (CHOOSE k \in 0..RecLen-1 : buf'[k] = Nul /\ \A j \in 0..k-1 : buf'[j] # Nul) = n
        BY <2>1, <2>4, FirstNul
    <2>6. Text' = [k \in 1..n |-> buf'[k-1]]
        BY <2>5 DEF Text
    <2>7. Text' = taken'
        BY <2>1, <2>2, <2>4, <2>6 DEF Received
    <2>8. sta' \in [done : BOOLEAN, cr : BOOLEAN, n : 0..RecLen-1] /\ sta'.n = 0
        BY <2>2, ConsoleAssumption DEF Empty
    <2> QED
        BY <1>0, <2>3, <2>7, <2>8 DEF TextInv, TextUntouched
<1>2. CASE UNCHANGED <<buf, sta, taken, isr>>
    BY <1>0, <1>2 DEF TextInv, TextUntouched, Text
<1> QED
    BY <1>1, <1>2 DEF usmart_get_input_string

(* Every step of the handlers and the host.                                *)
LEMMA TextStep == TextInv /\ [Next]_vars => TextInv'
<1> SUFFICES ASSUME TextInv, [Next]_vars PROVE TextInv'
    OBVIOUS
<1>1. CASE USART_UX_IRQHandler
    BY <1>1, ReceiveKeeps
<1>2. CASE usmart_get_input_string
    BY <1>2, GetKeeps
<1>3. CASE usmart_scan
    BY <1>3 DEF usmart_scan, TextInv, TextUntouched
<1>4. CASE USMART_TIMX_IRQHandler
    BY <1>4 DEF USMART_TIMX_IRQHandler, TextInv, TextUntouched
<1>5. CASE Arrive
    <2>1. Head(rest) \in Byte /\ Tail(rest) \in Seq(Byte)
        BY <1>5 DEF Arrive, TextInv
    <2>2. rdr' \in Byte \cup {Nul} /\ rest' \in Seq(Byte)
        BY <1>5, <2>1 DEF Arrive, TextInv
    <2> QED
        BY <1>5, <2>2 DEF Arrive, TextInv, TextUntouched, Text
<1>6. ASSUME NEW l \in Lines \cup Quick, SendLine(l) PROVE TextInv'
    <2>1. l \in Seq(Byte) /\ <<CR, LF>> \in Seq(Byte)
        BY ConsoleAssumption DEF Byte
    <2>2. rest' \in Seq(Byte)
        BY <1>6, <2>1 DEF SendLine
    <2> QED
        BY <1>6, <2>2 DEF SendLine, TextInv, TextUntouched, Text
<1>7. CASE UNCHANGED vars
    BY <1>7 DEF vars, TextInv, TextUntouched, Text
<1> QED
    BY <1>1, <1>2, <1>3, <1>4, <1>5, <1>6, <1>7 DEF Next, Handlers, Host

LEMMA TextInit == Init => TextInv
BY ConsoleAssumption DEF Init, TextInv, TextUntouched, Empty, Byte

\* Reception opens before the text is parsed, and yet what runs is what was
\* received, however fast bytes come: nothing enters the buffer in between.
THEOREM RunsWhatCame == Spec => []TextUntouched
<1>1. TextInv => TextUntouched
    BY DEF TextInv
<1> QED
    BY <1>1, TextInit, TextStep, PTL DEF Spec

-----------------------------------------------------------------------------
(* Types, and the time shown.                                              *)

(* What usmart_scan does for a line: nothing but a type setting has a type, *)
(* and nothing but a time setting has an on.                               *)
LEMMA CommandSorts ==
    ASSUME NEW str
    PROVE  /\ Command(str).does = "type" => Command(str).type \in {"hex", "dec"}
           /\ Command(str).does = "time" => Command(str).on \in BOOLEAN
<1> DEFINE Sorted(cmd) == /\ cmd.does = "type" => cmd.type \in {"hex", "dec"}
                          /\ cmd.does = "time" => cmd.on \in BOOLEAN
<1>1. Sorted(Refuse)
    BY DEF Refuse
<1>2. Sorted(usmart_cmd_rec(str))
    <2>1. ASSUME NEW local, NEW table PROVE Sorted(usmart_exe(local, table))
        BY DEF usmart_exe
    <2> QED
        BY <1>1, <2>1 DEF usmart_cmd_rec
<1>3. Sorted(usmart_sys_cmd_exe(str))
    <2> DEFINE cmd == IF Blank(str) = 0 THEN str ELSE SubSeq(str, 1, Blank(str) - 1)
               par == Parms(IF Blank(str) = 0 THEN <<>> ELSE SubSeq(str, Blank(str), Len(str)))[1]
               num == usmart_str2num(par.text)
    <2> HIDE DEF cmd, par, num
    <2>1. cmd \in {<<"hex">>, <<"dec">>} => cmd[1] \in {"hex", "dec"}
        OBVIOUS
    <2>2. (num.n % 256 # 0) \in BOOLEAN
        OBVIOUS
    <2>3. Sorted([does |-> "print"]) /\ Sorted([does |-> "show", n |-> num.n])
        OBVIOUS
    <2>4. cmd \in {<<"hex">>, <<"dec">>} => Sorted([does |-> "type", type |-> cmd[1]])
        BY <2>1
    <2>5. Sorted([does |-> "time", on |-> num.n % 256 # 0])
        BY <2>2
    <2> HIDE DEF Sorted
    <2>6. usmart_sys_cmd_exe(str) =
            CASE cmd \in {<<"?">>, <<"help">>, <<"list">>, <<"id">>} -> [does |-> "print"]
              [] cmd \in {<<"hex">>, <<"dec">>} /\ par.type = "num" /\ num.err = 0 -> [does |-> "show", n |-> num.n]
              [] cmd \in {<<"hex">>, <<"dec">>} /\ par.type = "num" /\ num.err = 4 -> [does |-> "type", type |-> cmd[1]]
              [] cmd = <<"runtime">> /\ par.type = "num" /\ num.err = 0 -> [does |-> "time", on |-> num.n % 256 # 0]
              [] OTHER -> Refuse
        BY DEF usmart_sys_cmd_exe, cmd, par, num
    <2> QED
        BY <1>1, <2>3, <2>4, <2>5, <2>6
<1> QED
    BY <1>2, <1>3 DEF Command

LEMMA TicksIs ==
    ASSUME NEW c, NEW a, NEW f \in BOOLEAN, NEW n
    PROVE  Ticks([cnt |-> c, arr |-> a, flag |-> f], n)
               = [cnt |-> (c + n) % (a + 1), arr |-> a, flag |-> f \/ c + n > a]
<1> DEFINE tim == [cnt |-> c, arr |-> a, flag |-> f]
<1>1. tim.cnt = c /\ tim.arr = a /\ tim.flag = f
    OBVIOUS
<1> HIDE DEF tim
<1> QED
    BY <1>1, Zenon DEF Ticks, tim

(* However the counter goes on meanwhile, the clock starts from nothing.    *)
LEMMA ResetTimed ==
    ASSUME NEW cnt, NEW a, NEW f, NEW g1, NEW g2,
           NEW tim, tim = [cnt |-> cnt, arr |-> a, flag |-> f]
    PROVE  \E flag \in BOOLEAN :
               usmart_timx_reset_time(tim, g1, g2) = [cnt |-> 0, arr |-> MaxArr, flag |-> flag]
<1> DEFINE no   == FALSE
           off  == [tim EXCEPT !.flag = no]
           c1   == (cnt + g1) % (a + 1)
           f1   == no \/ cnt + g1 > a
           one  == Ticks(off, g1)
           wide == [one EXCEPT !.arr = MaxArr]
           c2   == (c1 + g2) % (MaxArr + 1)
           f2   == f1 \/ c1 + g2 > MaxArr
           two  == Ticks(wide, g2)
<1>0. no \in BOOLEAN /\ f1 \in BOOLEAN /\ f2 \in BOOLEAN
    OBVIOUS
<1>1. usmart_timx_reset_time(tim, g1, g2) = [two EXCEPT !.cnt = 0]
    BY Zenon DEF usmart_timx_reset_time
<1>2. one = Ticks(off, g1) /\ wide = [one EXCEPT !.arr = MaxArr] /\ two = Ticks(wide, g2)
    OBVIOUS
<1> HIDE DEF no, one, wide, two
<1>3. off = [cnt |-> cnt, arr |-> a, flag |-> no]
    OBVIOUS
<1> HIDE DEF off
<1>4. one = [cnt |-> c1, arr |-> a, flag |-> f1]
    <2>1. Ticks([cnt |-> cnt, arr |-> a, flag |-> no], g1) = [cnt |-> c1, arr |-> a, flag |-> f1]
        BY <1>0, TicksIs
    <2> HIDE DEF c1, f1
    <2> QED
        BY <1>2, <1>3, <2>1, Zenon
<1> HIDE DEF c1, f1
<1>5. wide = [cnt |-> c1, arr |-> MaxArr, flag |-> f1]
    BY <1>2, <1>4
<1>6. two = [cnt |-> c2, arr |-> MaxArr, flag |-> f2]
    <2>1. Ticks([cnt |-> c1, arr |-> MaxArr, flag |-> f1], g2) = [cnt |-> c2, arr |-> MaxArr, flag |-> f2]
        BY <1>0, TicksIs
    <2> HIDE DEF c2, f2
    <2> QED
        BY <1>2, <1>5, <2>1, Zenon
<1> HIDE DEF c2, f2
<1>7. [two EXCEPT !.cnt = 0] = [cnt |-> 0, arr |-> MaxArr, flag |-> f2]
    BY <1>6
<1> QED
    BY <1>0, <1>1, <1>7

(* A clock that starts with its flag cleared and does not overflow while it *)
(* is read is right to a tick.                                             *)
LEMMA TimeNear ==
    ASSUME NEW flag \in BOOLEAN, NEW g \in Gap, NEW d \in 0..2 * (MaxArr + 1) - 1,
           NEW stop, stop = Ticks([cnt |-> 0, arr |-> MaxArr, flag |-> flag], d)
    PROVE  /\ usmart_timx_get_time(stop, g) \in Nat
           /\ flag \/ stop.cnt + g > stop.arr \/ usmart_timx_get_time(stop, g) \in d-1..d+1
<1>1. MaxArr \in Nat /\ g \in 0..1 /\ d \in Nat
    BY ConsoleAssumption DEF Gap
<1>2. stop = [cnt |-> d % (MaxArr + 1), arr |-> MaxArr, flag |-> flag \/ d > MaxArr]
    BY <1>1, TicksIs, 0 + d = d
<1>3. d % (MaxArr + 1) \in 0..MaxArr /\ d % (MaxArr + 1) = IF d > MaxArr THEN d - (MaxArr + 1) ELSE d
    BY <1>1
<1> DEFINE c == d % (MaxArr + 1)
<1>4. Ticks(stop, g).cnt = (c + g) % (MaxArr + 1)
    BY <1>2 DEF Ticks
<1>5. usmart_timx_get_time(stop, g) = (IF flag \/ d > MaxArr THEN MaxArr ELSE 0) + ((c + g) % (MaxArr + 1))
    <2>1. stop.flag = (flag \/ d > MaxArr)
        BY <1>2
    <2> QED
        BY <2>1, <1>4, Zenon DEF usmart_timx_get_time
<1>6. stop.cnt = c /\ stop.arr = MaxArr
    BY <1>2
<1>7. c \in 0..MaxArr /\ c = IF d > MaxArr THEN d - (MaxArr + 1) ELSE d
    BY <1>3
<1> HIDE DEF c
<1>8. (c + g) % (MaxArr + 1) \in 0..MaxArr /\ (c + g <= MaxArr => (c + g) % (MaxArr + 1) = c + g)
    BY <1>1, <1>7
<1> DEFINE r == (c + g) % (MaxArr + 1)
<1>9. r \in 0..MaxArr /\ (c + g <= MaxArr => r = c + g)
    BY <1>8
<1>10. usmart_timx_get_time(stop, g) = (IF flag \/ d > MaxArr THEN MaxArr ELSE 0) + r
    BY <1>5
<1> HIDE DEF r
<1>11. usmart_timx_get_time(stop, g) \in Nat
    BY <1>1, <1>9, <1>10
<1>12. ASSUME ~flag, c + g <= MaxArr PROVE usmart_timx_get_time(stop, g) \in d-1..d+1
    BY <1>1, <1>7, <1>9, <1>10, <1>12
<1>13. stop.cnt + g > stop.arr \/ c + g <= MaxArr
    BY <1>1, <1>6, <1>7
<1> QED
    BY <1>11, <1>12, <1>13

\* What the settings and the timer hold.
SetInv ==
    /\ isr \in {"none", "scan", "leave"}
    /\ dev \in [sptype : {"hex", "dec"}, flag : BOOLEAN]
    /\ arr \in {InitArr, ScanArr, MaxArr}
    /\ timed \in [runtime : Nat, took : Nat, slip : BOOLEAN]
    /\ RuntimeNear

LEMMA RunTimedKeeps ==
    ASSUME SetInv, RunTimed
    PROVE  /\ arr' = MaxArr
           /\ timed' \in [runtime : Nat, took : Nat, slip : BOOLEAN]
           /\ RuntimeNear'
<1>1. PICK cnt \in 0..arr, g1 \in Gap, g2 \in Gap, g3 \in Gap, d \in 0..2 * (MaxArr + 1) - 1 :
        LET start == usmart_timx_reset_time([cnt |-> cnt, arr |-> arr, flag |-> TRUE], g1, g2)
            stop  == Ticks(start, d)
        IN  /\ timed' = [runtime |-> usmart_timx_get_time(stop, g3), took |-> d,
                         slip |-> start.flag \/ stop.cnt + g3 > stop.arr]
            /\ arr' = start.arr
    BY DEF RunTimed
<1> DEFINE start == usmart_timx_reset_time([cnt |-> cnt, arr |-> arr, flag |-> TRUE], g1, g2)
           stop  == Ticks(start, d)
<1>2. arr \in Nat /\ cnt \in Nat /\ d \in Nat
    BY ConsoleAssumption DEF SetInv
<1>3. PICK flag \in BOOLEAN : start = [cnt |-> 0, arr |-> MaxArr, flag |-> flag]
    <2> DEFINE tim == [cnt |-> cnt, arr |-> arr, flag |-> TRUE]
    <2>1. tim = [cnt |-> cnt, arr |-> arr, flag |-> TRUE]
        OBVIOUS
    <2>2. start = usmart_timx_reset_time(tim, g1, g2)
        OBVIOUS
    <2> HIDE DEF tim, start
    <2> QED
        BY <2>1, <2>2, ResetTimed, Zenon
<1>4. timed' = [runtime |-> usmart_timx_get_time(stop, g3), took |-> d,
                slip |-> start.flag \/ stop.cnt + g3 > stop.arr] /\ arr' = start.arr
    BY <1>1
<1>5. stop = Ticks([cnt |-> 0, arr |-> MaxArr, flag |-> flag], d)
    BY <1>3
<1> HIDE DEF start, stop
<1>6. /\ usmart_timx_get_time(stop, g3) \in Nat
      /\ flag \/ stop.cnt + g3 > stop.arr \/ usmart_timx_get_time(stop, g3) \in d-1..d+1
    BY <1>5, TimeNear
<1>7. timed'.slip = (flag \/ stop.cnt + g3 > stop.arr) /\ timed'.took = d
      /\ timed'.runtime = usmart_timx_get_time(stop, g3)
    BY <1>3, <1>4
<1>8. timed' \in [runtime : Nat, took : Nat, slip : BOOLEAN]
    BY <1>2, <1>3, <1>4, <1>6
<1>9. RuntimeNear'
    BY <1>6, <1>7 DEF RuntimeNear
<1> QED
    BY <1>3, <1>4, <1>8, <1>9

LEMMA SetStep == SetInv /\ [Next]_vars => SetInv'
<1> SUFFICES ASSUME SetInv, [Next]_vars PROVE SetInv'
    OBVIOUS
<1>1. CASE UNCHANGED <<dev, arr, timed>> /\ isr' \in {"none", "scan", "leave"}
    BY <1>1 DEF SetInv, RuntimeNear
<1>2. CASE usmart_get_input_string
    <2>1. isr' \in {"none", "scan", "leave"} /\ arr' \in {arr, ScanArr} /\ UNCHANGED <<dev, timed>>
        BY <1>2 DEF usmart_get_input_string, Get, SetInv
    <2> QED
        BY <2>1 DEF SetInv, RuntimeNear
<1>3. CASE usmart_scan
    <2> DEFINE cmd == Command(Text)
    <2>0. isr' = "leave"
        BY <1>3 DEF usmart_scan
    <2>1. dev = [sptype |-> dev.sptype, flag |-> dev.flag]
          /\ dev.sptype \in {"hex", "dec"} /\ dev.flag \in BOOLEAN
        BY DEF SetInv
    <2>2. /\ cmd.does = "type" => cmd.type \in {"hex", "dec"}
          /\ cmd.does = "time" => cmd.on \in BOOLEAN
        BY CommandSorts
    <2> HIDE DEF cmd
    <2>3. CASE RunTimed /\ UNCHANGED dev
        <3>1. /\ arr' = MaxArr
              /\ timed' \in [runtime : Nat, took : Nat, slip : BOOLEAN]
              /\ RuntimeNear'
            BY <2>3, RunTimedKeeps
        <3> QED
            BY <2>0, <2>3, <3>1 DEF SetInv
    <2>4. CASE cmd.does = "type" /\ dev' = [dev EXCEPT !.sptype = cmd.type] /\ UNCHANGED <<arr, timed>>
        <3>1. dev' \in [sptype : {"hex", "dec"}, flag : BOOLEAN]
            BY <2>1, <2>2, <2>4
        <3> QED
            BY <2>0, <2>4, <3>1 DEF SetInv, RuntimeNear
    <2>5. CASE cmd.does = "time" /\ dev' = [dev EXCEPT !.flag = cmd.on] /\ UNCHANGED <<arr, timed>>
        <3>1. dev' \in [sptype : {"hex", "dec"}, flag : BOOLEAN]
            BY <2>1, <2>2, <2>5
        <3> QED
            BY <2>0, <2>5, <3>1 DEF SetInv, RuntimeNear
    <2>6. CASE UNCHANGED <<dev, arr, timed>>
        BY <2>0, <2>6, <1>1
    <2> QED
        BY <1>3, <2>3, <2>4, <2>5, <2>6 DEF usmart_scan, cmd
<1>4. CASE USMART_TIMX_IRQHandler
    <2>1. NotTimed \in [runtime : Nat, took : Nat, slip : BOOLEAN]
          /\ NotTimed.runtime \in NotTimed.took-1..NotTimed.took+1
        BY DEF NotTimed
    <2> QED
        BY <1>4, <2>1 DEF USMART_TIMX_IRQHandler, SetInv, RuntimeNear
<1>5. CASE Host \/ USART_UX_IRQHandler
    <2>1. UNCHANGED <<isr, dev, arr, timed>>
        BY <1>5 DEF Host, Arrive, SendLine, USART_UX_IRQHandler
    <2> QED
        BY <1>1, <2>1 DEF SetInv
<1>6. CASE UNCHANGED vars
    BY <1>6, <1>1 DEF vars, SetInv
<1> QED
    BY <1>2, <1>3, <1>4, <1>5, <1>6 DEF Next, Handlers

LEMMA SetInit == Init => SetInv
BY ConsoleAssumption DEF Init, SetInv, RuntimeNear, NotTimed

\* No index leaves the line buffer, whatever bytes come: the count leaves room
\* for the end mark that usmart_get_input_string writes.
THEOREM ConsoleTypes == Spec => []TypeOK
<1>1. TextInv /\ SetInv => TypeOK
    BY DEF TextInv, SetInv, TypeOK, Byte
<1> QED
    BY <1>1, TextInit, SetInit, TextStep, SetStep, PTL DEF Spec

\* The time shown for a function is right to a tick for each reload value of the
\* timer, up to twice its range: one overflow is told by its flag.  What is left
\* out is an overflow between two accesses to the registers, when the clock is
\* reset or read: the time can then be off by a whole range.
THEOREM TimesNear == Spec => []RuntimeNear
<1>1. SetInv => RuntimeNear
    BY DEF SetInv
<1> QED
    BY <1>1, SetInit, SetStep, PTL DEF Spec

-----------------------------------------------------------------------------
(* The lines that are run.                                                 *)

Bit(p) == IF p THEN 1 ELSE 0
Heard == Char \cup {LF}

\* What is counted and remembered has its type; what was run is what the parser
\* makes of its text.
HistInv ==
    /\ sent \in Seq(Lines \cup Quick)
    /\ waits \in BOOLEAN
    /\ waits => sent \in Seq(Lines)
    /\ isr = "scan" => taken \in Seq(Heard)
    /\ ran \in Seq({[text |-> t, did |-> Command(t)] : t \in Seq(Heard)})

\* A line ends with its only LF: each line that was run, is parsed, is complete
\* in the buffer, has its LF in the data register or is still being sent is one
\* of those sent.
Counted ==
    /\ \A i \in 1..Len(rest) : rest[i] = LF <=> i = Len(rest)
    /\ Len(ran) + Bit(isr = "scan") + Bit(sta.done) + Bit(rdr = LF) + Bit(rest # <<>>) <= Len(sent)

LEMMA HistStep == TextInv /\ HistInv /\ [Next]_vars => HistInv'
<1> SUFFICES ASSUME TextInv, HistInv, [Next]_vars PROVE HistInv'
    OBVIOUS
<1>0. waits' = waits
    BY DEF Next, Handlers, Host, Arrive, SendLine, USART_UX_IRQHandler, usmart_get_input_string,
           usmart_scan, USMART_TIMX_IRQHandler, vars
<1>1. CASE UNCHANGED <<sent, ran, taken, isr>>
    BY <1>0, <1>1 DEF HistInv
<1>2. CASE usmart_get_input_string /\ Get
    <2>1. Received \in Seq(Heard)
        <3>1. sta.n \in Nat /\ sta.n <= RecLen-1
            BY ConsoleAssumption DEF TextInv
        <3>2. \A k \in 1..sta.n : buf[k-1] \in Heard
            <4> SUFFICES ASSUME NEW k \in 1..sta.n PROVE buf[k-1] \in Heard
                OBVIOUS
            <4>1. k-1 \in 0..sta.n-1 /\ k-1 \in 0..RecLen-1
                BY <3>1, ConsoleAssumption
            <4> QED
                BY <4>1 DEF TextInv, Heard
        <3> QED
            BY <3>1, <3>2 DEF Received
    <2> QED
        BY <1>0, <1>2, <2>1 DEF HistInv, Get, usmart_get_input_string
<1>3. CASE usmart_scan
    <2>1. Text = taken /\ taken \in Seq(Heard)
        BY <1>3 DEF usmart_scan, TextInv, TextUntouched, HistInv
    <2>2. ran' = Append(ran, [text |-> Text, did |-> Command(Text)])
        BY <1>3 DEF usmart_scan
    <2>3. ran' \in Seq({[text |-> t, did |-> Command(t)] : t \in Seq(Heard)})
        BY <2>1, <2>2 DEF HistInv
    <2>4. isr' # "scan" /\ sent' = sent
        BY <1>3 DEF usmart_scan
    <2> QED
        BY <1>0, <2>3, <2>4 DEF HistInv
<1>4. CASE USMART_TIMX_IRQHandler
    BY <1>0, <1>4 DEF USMART_TIMX_IRQHandler, HistInv
<1>5. ASSUME NEW l \in Lines \cup Quick, SendLine(l) PROVE HistInv'
    <2>1. sent' = Append(sent, l) /\ UNCHANGED <<ran, taken, isr>>
        BY <1>5 DEF SendLine
    <2>2. waits => l \in Lines
        BY <1>5 DEF SendLine
    <2>3. waits => sent' \in Seq(Lines)
        BY <2>1, <2>2 DEF HistInv
    <2> QED
        BY <1>0, <2>1, <2>3 DEF HistInv
<1>6. CASE usmart_get_input_string /\ ~Get
    BY <1>6, <1>1 DEF usmart_get_input_string
<1>7. CASE Arrive \/ USART_UX_IRQHandler \/ UNCHANGED vars
    BY <1>7, <1>1 DEF Arrive, USART_UX_IRQHandler, vars
<1> QED
    BY <1>2, <1>3, <1>4, <1>5, <1>6, <1>7 DEF Next, Handlers, Host

LEMMA HistInit == Init => HistInv
BY DEF Init, HistInv

LEMMA CountStep == TextInv /\ HistInv /\ Counted /\ [Next]_vars => Counted'
<1> SUFFICES ASSUME TextInv, HistInv, Counted, [Next]_vars PROVE Counted'
    OBVIOUS
<1>0. /\ Len(ran) \in Nat /\ Len(sent) \in Nat
    BY DEF HistInv
<1>a. /\ Bit(isr = "scan") \in Nat /\ Bit(sta.done) \in Nat /\ Bit(rdr = LF) \in Nat
      /\ Bit(rest # <<>>) \in Nat
      /\ Bit(isr' = "scan") \in Nat /\ Bit(sta'.done) \in Nat /\ Bit(rdr' = LF) \in Nat
      /\ Bit(rest' # <<>>) \in Nat
    BY DEF Bit
<1>b. Len(ran) + Bit(isr = "scan") + Bit(sta.done) + Bit(rdr = LF) + Bit(rest # <<>>) <= Len(sent)
    BY DEF Counted
<1>1. CASE USART_UX_IRQHandler
    <2>1. UNCHANGED <<ran, sent, isr, rest>> /\ rdr' = Nul /\ rdr' # LF
        BY <1>1, ConsoleAssumption DEF USART_UX_IRQHandler
    <2>2. sta'.done => sta.done \/ rdr = LF
        BY <1>1 DEF USART_UX_IRQHandler, HAL_UART_RxCpltCallback, TextInv, Stored, Empty
    <2>3. sta'.done \in BOOLEAN
        BY <1>1, ReceiveKeeps DEF TextInv
    <2>4. sta.done \in BOOLEAN
        BY DEF TextInv
    <2>5. Bit(sta'.done) + Bit(rdr' = LF) <= Bit(sta.done) + Bit(rdr = LF)
        BY <2>1, <2>2, <2>3, <2>4 DEF Bit
    <2>6. Len(ran') + Bit(isr' = "scan") + Bit(sta'.done) + Bit(rdr' = LF) + Bit(rest' # <<>>) <= Len(sent')
        <3>1. UNCHANGED <<Len(ran), Len(sent), Bit(isr = "scan"), Bit(rest # <<>>)>>
            BY <2>1
        <3> QED
            BY <1>0, <1>a, <1>b, <2>5, <3>1
    <2> QED
        BY <2>1, <2>6 DEF Counted
<1>2. CASE usmart_get_input_string
    <2>1. CASE Get
        <3>1. UNCHANGED <<ran, sent, rdr, rest>> /\ isr = "none" /\ isr' = "scan"
              /\ sta.done /\ ~sta'.done
            BY <1>2, <2>1 DEF usmart_get_input_string, Get, Empty
        <3> QED
            BY <1>0, <3>1 DEF Counted, Bit
    <2>2. CASE UNCHANGED <<buf, sta, taken, isr>>
        BY <1>2, <2>2 DEF usmart_get_input_string, Counted
    <2> QED
        BY <1>2, <2>1, <2>2 DEF usmart_get_input_string
<1>3. CASE usmart_scan
    <2>1. UNCHANGED <<sent, rdr, rest, sta>> /\ isr = "scan" /\ isr' = "leave"
          /\ ran' = Append(ran, [text |-> Text, did |-> Command(Text)])
        BY <1>3 DEF usmart_scan
    <2>2. Len(ran') = Len(ran) + 1
        BY <2>1 DEF HistInv
    <2> QED
        BY <1>0, <2>1, <2>2 DEF Counted, Bit
<1>4. CASE USMART_TIMX_IRQHandler
    BY <1>4 DEF USMART_TIMX_IRQHandler, Counted, Bit
<1>5. CASE Arrive
    <2>1. /\ UNCHANGED <<ran, sent, sta, isr>> /\ rest # <<>> /\ rest \in Seq(Byte)
          /\ rest' = Tail(rest) /\ (rdr' = rdr \/ rdr' = rest[1])
        BY <1>5 DEF Arrive, TextInv
    <2>2. Len(rest) >= 1 /\ Len(rest) \in Nat /\ Len(rest') = Len(rest) - 1
          /\ \A i \in 1..Len(rest') : rest'[i] = rest[i+1]
        BY <2>1
    <2>3. \A i \in 1..Len(rest') : rest'[i] = LF <=> i = Len(rest')
        <3> SUFFICES ASSUME NEW i \in 1..Len(rest') PROVE rest'[i] = LF <=> i = Len(rest')
            OBVIOUS
        <3>1. i + 1 \in 1..Len(rest)
            BY <2>2
        <3>2. rest[i+1] = LF <=> i + 1 = Len(rest)
            BY <3>1 DEF Counted
        <3> QED
            BY <2>2, <3>2
    <2>4. rest[1] = LF <=> Len(rest) = 1
        BY <2>2 DEF Counted
    <2>5. rest' = <<>> <=> Len(rest) = 1
        BY <2>1, <2>2
    <2>6. Bit(rdr' = LF) + Bit(rest' # <<>>) <= Bit(rdr = LF) + Bit(rest # <<>>)
        BY <2>1, <2>4, <2>5 DEF Bit
    <2>7. UNCHANGED <<Bit(isr = "scan"), Bit(sta.done)>>
        BY <2>1 DEF Bit
    <2>8. Len(ran') + Bit(isr' = "scan") + Bit(sta'.done) + Bit(rdr' = LF) + Bit(rest' # <<>>) <= Len(sent')
        <3>1. UNCHANGED <<Len(ran), Len(sent)>>
            BY <2>1
        <3> QED
            BY <1>0, <1>a, <1>b, <2>6, <2>7, <3>1
    <2> QED
        BY <2>3, <2>8 DEF Counted
<1>6. ASSUME NEW l \in Lines \cup Quick, SendLine(l) PROVE Counted'
    <2>1. /\ rest = <<>> /\ rest' = l \o <<CR, LF>> /\ sent' = Append(sent, l)
          /\ UNCHANGED <<ran, isr, sta, rdr>>
        BY <1>6 DEF SendLine
    <2>2. l \in Seq(Char) /\ Len(l) \in Nat
        BY ConsoleAssumption
    <2>3. Len(rest') = Len(l) + 2
          /\ \A i \in 1..Len(rest') : rest'[i] = IF i <= Len(l) THEN l[i] ELSE IF i = Len(l) + 1 THEN CR ELSE LF
        BY <2>1, <2>2
    <2>4. \A i \in 1..Len(l) : l[i] # LF
        BY <2>2, ConsoleAssumption
    <2>5. \A i \in 1..Len(rest') : rest'[i] = LF <=> i = Len(rest')
        BY <2>2, <2>3, <2>4, ConsoleAssumption
    <2>6. Len(sent') = Len(sent) + 1
        BY <2>1 DEF HistInv
    <2>7. Bit(rest # <<>>) = 0 /\ Bit(rest' # <<>>) <= 1 /\ Bit(rest' # <<>>) \in Nat
        BY <2>1 DEF Bit
    <2>8. Len(ran') + Bit(isr' = "scan") + Bit(sta'.done) + Bit(rdr' = LF) + Bit(rest' # <<>>) <= Len(sent')
        <3>1. UNCHANGED <<Len(ran), Bit(isr = "scan"), Bit(sta.done), Bit(rdr = LF)>>
            BY <2>1
        <3> QED
            BY <1>0, <1>a, <1>b, <2>6, <2>7, <3>1
    <2> QED
        BY <2>5, <2>8 DEF Counted
<1>7. CASE UNCHANGED vars
    BY <1>7 DEF vars, Counted, Bit
<1> QED
    BY <1>1, <1>2, <1>3, <1>4, <1>5, <1>6, <1>7 DEF Next, Handlers, Host

-----------------------------------------------------------------------------
(* The buffer counts bytes modulo its length.                              *)

LEMMA Remainder ==
    ASSUME NEW d \in Nat \ {0}, NEW q \in Nat, NEW r \in 0..d-1
    PROVE  (d * q + r) % d = r
<1> DEFINE a == d * q + r
           p == a \div d
           m == a % d
<1>1. a \in Nat
    OBVIOUS
<1>2. p \in Nat /\ m \in 0..d-1 /\ a = d * p + m
    BY <1>1
<1>3. d * q + r = d * p + m
    BY <1>2
<1> HIDE DEF p, m, a
<1>4. q >= p
    <2> SUFFICES ASSUME q + 1 <= p PROVE FALSE
        BY <1>2
    <2>1. d * (q + 1) <= d * p
        BY <1>2
    <2> QED
        BY <1>2, <1>3, <2>1
<1>5. q <= p
    <2> SUFFICES ASSUME p + 1 <= q PROVE FALSE
        BY <1>2
    <2>1. d * (p + 1) <= d * q
        BY <1>2
    <2> QED
        BY <1>2, <1>3, <2>1
<1>6. m = r
    BY <1>2, <1>3, <1>4, <1>5
<1> QED
    BY <1>6 DEF m, a

LEMMA CountOn ==
    ASSUME NEW m \in Nat
    PROVE  /\ (m % RecLen) \in 0..RecLen-1 /\ (m % RecLen) <= m
           /\ (m + 1) % RecLen = IF (m % RecLen) + 1 > RecLen - 1 THEN 0 ELSE (m % RecLen) + 1
<1> DEFINE q == m \div RecLen
           r == m % RecLen
<1>0. RecLen \in Nat \ {0}
    BY ConsoleAssumption
<1>1. q \in Nat /\ r \in 0..RecLen-1 /\ m = RecLen * q + r
    BY <1>0
<1> HIDE DEF q, r
<1>2. r <= m
    <2>1. RecLen * q >= 0
        BY <1>0, <1>1
    <2> QED
        BY <1>0, <1>1, <2>1
<1>3. CASE r + 1 > RecLen - 1
    <2>1. m + 1 = RecLen * (q + 1) + 0 /\ 0 \in 0..RecLen-1 /\ q + 1 \in Nat
        BY <1>0, <1>1, <1>3
    <2>2. (m + 1) % RecLen = 0
        BY <1>0, <2>1, Remainder
    <2> QED
        BY <1>1, <1>2, <1>3, <2>2 DEF r
<1>4. CASE ~(r + 1 > RecLen - 1)
    <2>1. m + 1 = RecLen * q + (r + 1) /\ r + 1 \in 0..RecLen-1
        BY <1>0, <1>1, <1>4
    <2>2. (m + 1) % RecLen = r + 1
        BY <1>0, <1>1, <2>1, Remainder
    <2> QED
        BY <1>1, <1>2, <1>4, <2>2 DEF r
<1> QED
    BY <1>3, <1>4

(* What Kept leaves of a line, byte by byte.                               *)
LEMMA KeptBytes ==
    ASSUME NEW l \in Seq(Char)
    PROVE  Kept(l) = [k \in 1..(Len(l) % RecLen) |-> l[Len(l) - (Len(l) % RecLen) + k]]
<1> DEFINE n == Len(l) % RecLen
<1>0. Len(l) \in Nat
    OBVIOUS
<1>1. Len(l) \in Nat /\ n \in Nat /\ n <= Len(l)
    <2>1. n \in 0..RecLen-1 /\ n <= Len(l)
        BY <1>0, CountOn
    <2> QED
        BY <1>0, <2>1
<1> HIDE DEF n
<1>2. Kept(l) = SubSeq(l, Len(l) - n + 1, Len(l))
    BY DEF Kept, n
<1>3. Kept(l) = [k \in 1..n |-> l[Len(l) - n + k]]
    BY <1>1, <1>2
<1> QED
    BY <1>3 DEF n

-----------------------------------------------------------------------------
(* A host that waits for its answers.                                      *)

Line == sent[Len(sent)]
ByteOf(l, i) == IF i <= Len(l) THEN l[i] ELSE IF i = Len(l) + 1 THEN CR ELSE LF

\* Bytes of the line that the receive handler has had, and how many of these
\* belong to its text.
Passed == Len(Line) + 2 - Len(rest) - Bit(rdr # Nul)
Counts(q) == IF q < Len(Line) THEN q ELSE Len(Line)

\* The line is on its way: what is to come is its end, and the buffer holds what
\* came since it last began anew.
InLine(q) ==
    /\ q \in Nat
    /\ \A i \in 1..Len(rest) : rest[i] = ByteOf(Line, Len(Line) + 2 - Len(rest) + i)
    /\ rdr # Nul => rdr = ByteOf(Line, q + 1)
    /\ sta.done = (q = Len(Line) + 2) /\ sta.cr = (q > Len(Line))
    /\ sta.n = Counts(q) % RecLen
    /\ \A k \in 0..sta.n-1 : buf[k] = Line[Counts(q) - sta.n + k + 1]

Quiet == rest = <<>> /\ rdr = Nul /\ sta = Empty

\* Nothing is on its way, the last line is being parsed, or it is coming in.
Turn ==
    \/ Len(ran) = Len(sent) /\ Quiet /\ isr # "scan"
    \/ Len(ran) + 1 = Len(sent) /\ Quiet /\ isr = "scan" /\ taken = Kept(Line)
    \/ Len(ran) + 1 = Len(sent) /\ isr = "none" /\ InLine(Passed)

InTurn ==
    waits => /\ \A i \in 1..Len(ran) : ran[i].text = Kept(sent[i])
             /\ Turn

(* The host begins a line.                                                 *)
LEMMA SendTurn ==
    ASSUME TextInv, HistInv, InTurn, waits, NEW l \in Lines \cup Quick, SendLine(l)
    PROVE  InTurn'
<1>1. /\ rest = <<>> /\ rest' = l \o <<CR, LF>> /\ sent' = Append(sent, l)
      /\ isr = "none" /\ Len(ran) = Len(sent) /\ waits' = waits
      /\ UNCHANGED <<ran, isr, sta, rdr, buf>>
    BY DEF SendLine
<1>2. l \in Seq(Char) /\ Len(l) \in Nat /\ Len(sent) \in Nat /\ sent \in Seq(Lines)
    BY ConsoleAssumption DEF HistInv
<1>3. Len(sent') = Len(sent) + 1 /\ Line' = l /\ \A i \in 1..Len(sent) : sent'[i] = sent[i]
    BY <1>1, <1>2 DEF Line, HistInv
<1>4. Quiet
    BY <1>1, <1>2 DEF InTurn, Turn
<1>5. Len(rest') = Len(l) + 2 /\ \A i \in 1..Len(rest') : rest'[i] = ByteOf(l, i)
    <2> DEFINE r == l \o <<CR, LF>>
    <2>1. Len(r) = Len(l) + 2
        BY <1>2
    <2>2. ASSUME NEW i \in 1..Len(l) + 2 PROVE r[i] = ByteOf(l, i)
        <3>1. i <= Len(l) => r[i] = l[i]
            BY <1>2
        <3>2. i = Len(l) + 1 => r[i] = CR
            BY <1>2
        <3>3. i = Len(l) + 2 => r[i] = LF
            BY <1>2
        <3> HIDE DEF r
        <3> QED
            BY <1>2, <3>1, <3>2, <3>3 DEF ByteOf
    <2> HIDE DEF r
    <2>3. rest' = r
        BY <1>1 DEF r
    <2> QED
        BY <2>1, <2>2, <2>3
<1>6. Passed' = 0
    BY <1>1, <1>2, <1>3, <1>4, <1>5 DEF Passed, Quiet, Bit
<1>7. InLine(0)'
    <2>1. \A i \in 1..Len(rest') : rest'[i] = ByteOf(Line', Len(Line') + 2 - Len(rest') + i)
        BY <1>2, <1>3, <1>5
    <2>2. rdr' = Nul
        BY <1>1, <1>4 DEF Quiet
    <2>3. sta'.done = FALSE /\ sta'.cr = FALSE /\ sta'.n = 0
        BY <1>1, <1>4 DEF Quiet, Empty
    <2>4. Counts(0)' = 0
        BY <1>2, <1>3 DEF Counts
    <2>5. 0 % RecLen = 0
        BY ConsoleAssumption
    <2>6. sta'.done = (0 = Len(Line') + 2) /\ sta'.cr = (0 > Len(Line'))
        <3>1. (0 = Len(Line') + 2) = FALSE /\ (0 > Len(Line')) = FALSE
            BY <1>2, <1>3
        <3> QED
            BY <2>3, <3>1
    <2> QED
        BY <2>1, <2>2, <2>3, <2>4, <2>5, <2>6 DEF InLine
<1>8. Turn'
    BY <1>1, <1>2, <1>3, <1>6, <1>7 DEF Turn
<1>9. \A i \in 1..Len(ran') : ran'[i].text = Kept(sent'[i])
    BY <1>1, <1>3 DEF InTurn
<1> QED
    BY <1>8, <1>9 DEF InTurn

(* A byte of it arrives: the data register is free, since no command runs. *)
LEMMA ArriveTurn ==
    ASSUME TextInv, HistInv, InTurn, waits, Arrive
    PROVE  InTurn'
<1>1. /\ UNCHANGED <<waits, sent, ran, isr, sta, buf, taken>>
      /\ rest # <<>> /\ rest \in Seq(Byte) /\ rest' = Tail(rest)
      /\ rdr = Nul \/ isr # "none"
    BY DEF Arrive, TextInv
<1>2. Len(ran) + 1 = Len(sent) /\ isr = "none" /\ InLine(Passed)
    BY <1>1 DEF InTurn, Turn, Quiet
<1>3. rdr = Nul /\ rdr' = rest[1]
    BY <1>1, <1>2 DEF Arrive
<1>4. Len(rest) >= 1 /\ Len(rest) \in Nat /\ Len(rest') = Len(rest) - 1
      /\ \A i \in 1..Len(rest') : rest'[i] = rest[i+1]
    BY <1>1
<1>5. Len(sent) \in Nat /\ Len(ran) \in Nat /\ sent \in Seq(Lines)
    BY DEF HistInv
<1>6. Line \in Seq(Char) /\ Len(Line) \in Nat /\ Line' = Line
    <2>1. Len(sent) \in 1..Len(sent)
        BY <1>2, <1>5
    <2> QED
        BY <1>1, <1>5, <2>1, ConsoleAssumption DEF Line
<1>7. rdr' # Nul
    BY <1>1, <1>3, <1>4, ConsoleAssumption DEF Byte
<1>8. Passed = Len(Line) + 2 - Len(rest) /\ Passed' = Passed
    BY <1>3, <1>4, <1>6, <1>7 DEF Passed, Bit
<1>9. InLine(Passed)'
    <2>1. \A i \in 1..Len(rest') : rest'[i] = ByteOf(Line, Len(Line) + 2 - Len(rest') + i)
        <3> SUFFICES ASSUME NEW i \in 1..Len(rest')
                     PROVE  rest'[i] = ByteOf(Line, Len(Line) + 2 - Len(rest') + i)
            OBVIOUS
        <3>1. i + 1 \in 1..Len(rest) /\ Len(Line) + 2 - Len(rest') + i = Len(Line) + 2 - Len(rest) + (i + 1)
            BY <1>4, <1>6
        <3> QED
            BY <1>2, <1>4, <3>1 DEF InLine
    <2>2. rdr' = ByteOf(Line, Passed + 1)
        <3>1. 1 \in 1..Len(rest) /\ Passed + 1 = Len(Line) + 2 - Len(rest) + 1
            BY <1>4, <1>6, <1>8
        <3> QED
            BY <1>2, <1>3, <3>1 DEF InLine
    <2> QED
        BY <1>1, <1>2, <1>6, <1>8, <2>1, <2>2 DEF InLine, Counts
<1> QED
    BY <1>1, <1>2, <1>6, <1>9 DEF InTurn, Turn

(* The receive handler takes it from the data register.                    *)
LEMMA ReceiveTurn ==
    ASSUME TextInv, HistInv, InTurn, waits, USART_UX_IRQHandler
    PROVE  InTurn'
<1> DEFINE c == rdr
           q == Passed
           n == Len(Line)
<1>1. /\ UNCHANGED <<waits, sent, ran, isr, rest, taken>>
      /\ rdr # Nul /\ rdr' = Nul
    BY DEF USART_UX_IRQHandler
<1>2. Len(ran) + 1 = Len(sent) /\ isr = "none" /\ InLine(q)
    BY <1>1 DEF InTurn, Turn, Quiet
<1>3. Len(sent) \in Nat /\ Len(ran) \in Nat /\ sent \in Seq(Lines)
    BY DEF HistInv
<1>4. Line \in Seq(Char) /\ n \in Nat /\ Line' = Line
    <2>1. Len(sent) \in 1..Len(sent)
        BY <1>2, <1>3
    <2> QED
        BY <1>1, <1>3, <2>1, ConsoleAssumption DEF Line
<1>5. Len(rest) \in Nat
    BY DEF TextInv
<1>6. q = n + 2 - Len(rest) - 1 /\ Passed' = q + 1 /\ q \in Nat /\ q <= n + 1
    BY <1>1, <1>2, <1>4, <1>5 DEF Passed, Bit, InLine
<1>7. c = ByteOf(Line, q + 1)
    BY <1>1, <1>2 DEF InLine
<1>8. sta.n \in 0..RecLen-1 /\ sta.done \in BOOLEAN /\ sta.cr \in BOOLEAN
      /\ sta = [done |-> sta.done, cr |-> sta.cr, n |-> sta.n]
    BY DEF TextInv
<1>9. ~sta.done /\ (sta.cr <=> q = n + 1)
    <2>1. (q = n + 2) = FALSE /\ (q > n) = (q = n + 1)
        BY <1>4, <1>6
    <2>2. sta.done = (q = n + 2) /\ sta.cr = (q > n)
        BY <1>2 DEF InLine
    <2> QED
        BY <2>1, <2>2
<1>10. \A i \in 1..Len(rest') : rest'[i] = ByteOf(Line, n + 2 - Len(rest') + i)
    BY <1>1, <1>2 DEF InLine
<1> DEFINE Comes == /\ sta'.done = (q + 1 = n + 2) /\ sta'.cr = (q + 1 > n)
                    /\ sta'.n = Counts(q + 1) % RecLen
                    /\ \A k \in 0..sta'.n-1 : buf'[k] = Line[Counts(q + 1) - sta'.n + k + 1]
<1>11. ASSUME q + 1 <= n PROVE Comes
    <2>1. c = Line[q + 1] /\ c # CR
        BY <1>4, <1>6, <1>7, <1>11, ConsoleAssumption DEF ByteOf
    <2>2. ~sta.cr /\ Counts(q) = q /\ Counts(q + 1) = q + 1
        BY <1>4, <1>6, <1>9, <1>11 DEF Counts
    <2>3. sta' = Stored(c).sta /\ buf' = Stored(c).buf
        BY <1>9, <2>1, <2>2 DEF USART_UX_IRQHandler, HAL_UART_RxCpltCallback
    <2>4. sta' = (IF sta.n + 1 > RecLen - 1 THEN Empty ELSE [sta EXCEPT !.n = @ + 1])
          /\ buf' = [buf EXCEPT ![sta.n] = c]
        BY <2>3 DEF Stored
    <2>5. sta.n = q % RecLen
        BY <1>2, <2>2 DEF InLine
    <2>6. (q + 1) % RecLen = IF sta.n + 1 > RecLen - 1 THEN 0 ELSE sta.n + 1
        BY <1>6, <2>5, CountOn
    <2>7. sta'.done = FALSE /\ sta'.cr = FALSE /\ sta'.n = (q + 1) % RecLen
        BY <1>8, <1>9, <2>2, <2>4, <2>6 DEF Empty
    <2>8. (q + 1 = n + 2) = FALSE /\ (q + 1 > n) = FALSE
        BY <1>4, <1>6, <1>11
    <2>9. ASSUME NEW k \in 0..sta'.n-1 PROVE buf'[k] = Line[Counts(q + 1) - sta'.n + k + 1]
        <3>1. sta'.n = sta.n + 1 /\ k \in 0..sta.n /\ k \in 0..RecLen-1
            BY <1>8, <2>6, <2>7, ConsoleAssumption
        <3>2. CASE k = sta.n
            <4>1. buf'[k] = c
                BY <2>4, <3>1, <3>2 DEF TextInv
            <4>2. Counts(q + 1) - sta'.n + k + 1 = q + 1
                BY <1>6, <1>8, <2>2, <3>1, <3>2
            <4> QED
                BY <2>1, <4>1, <4>2
        <3>3. CASE k # sta.n
            <4>1. k \in 0..sta.n-1 /\ buf'[k] = buf[k]
                BY <1>8, <2>4, <3>1, <3>3 DEF TextInv
            <4>2. buf[k] = Line[q - sta.n + k + 1]
                BY <1>2, <2>2, <4>1 DEF InLine
            <4>3. Counts(q + 1) - sta'.n + k + 1 = q - sta.n + k + 1
                BY <1>6, <1>8, <2>2, <3>1
            <4> QED
                BY <4>1, <4>2, <4>3
        <3> QED
            BY <3>2, <3>3
    <2>10. sta'.done = (q + 1 = n + 2) /\ sta'.cr = (q + 1 > n)
        BY <2>7, <2>8
    <2>11. sta'.n = Counts(q + 1) % RecLen
        BY <2>2, <2>7
    <2> QED
        BY <2>9, <2>10, <2>11
<1>12. ASSUME q = n PROVE Comes
    <2>1. c = CR /\ ~sta.cr
        BY <1>4, <1>7, <1>9, <1>12 DEF ByteOf
    <2>2. sta' = [sta EXCEPT !.cr = TRUE] /\ buf' = buf
        BY <1>9, <2>1 DEF USART_UX_IRQHandler, HAL_UART_RxCpltCallback
    <2>3. Counts(q) = n /\ Counts(q + 1) = n
        BY <1>4, <1>12 DEF Counts
    <2>4. sta'.done = FALSE /\ sta'.cr = TRUE /\ sta'.n = sta.n
        BY <1>8, <1>9, <2>2
    <2>5. (q + 1 = n + 2) = FALSE /\ (q + 1 > n) = TRUE
        BY <1>4, <1>12
    <2>6. sta'.done = (q + 1 = n + 2) /\ sta'.cr = (q + 1 > n)
        BY <2>4, <2>5
    <2>7. sta'.n = Counts(q + 1) % RecLen
        BY <1>2, <2>3, <2>4 DEF InLine
    <2>8. \A k \in 0..sta'.n-1 : buf'[k] = Line[Counts(q + 1) - sta'.n + k + 1]
        <3>1. \A k \in 0..sta.n-1 : buf[k] = Line[n - sta.n + k + 1]
            BY <1>2, <2>3 DEF InLine
        <3> HIDE DEF q, n
        <3> QED
            BY <2>2, <2>3, <2>4, <3>1
    <2> QED
        BY <2>6, <2>7, <2>8
<1>13. ASSUME q = n + 1 PROVE Comes
    <2>1. c = LF /\ sta.cr
        BY <1>4, <1>7, <1>9, <1>13 DEF ByteOf
    <2>2. sta' = [sta EXCEPT !.done = TRUE] /\ buf' = buf
        BY <1>9, <2>1, ConsoleAssumption DEF USART_UX_IRQHandler, HAL_UART_RxCpltCallback
    <2>3. Counts(q) = n /\ Counts(q + 1) = n
        BY <1>4, <1>13 DEF Counts
    <2>4. sta'.done = TRUE /\ sta'.cr = TRUE /\ sta'.n = sta.n
        BY <1>8, <2>1, <2>2
    <2>5. (q + 1 = n + 2) = TRUE /\ (q + 1 > n) = TRUE
        BY <1>4, <1>13
    <2>6. sta'.done = (q + 1 = n + 2) /\ sta'.cr = (q + 1 > n)
        BY <2>4, <2>5
    <2>7. sta'.n = Counts(q + 1) % RecLen
        BY <1>2, <2>3, <2>4 DEF InLine
    <2>8. \A k \in 0..sta'.n-1 : buf'[k] = Line[Counts(q + 1) - sta'.n + k + 1]
        <3>1. \A k \in 0..sta.n-1 : buf[k] = Line[n - sta.n + k + 1]
            BY <1>2, <2>3 DEF InLine
        <3> HIDE DEF q, n
        <3> QED
            BY <2>2, <2>3, <2>4, <3>1
    <2> QED
        BY <2>6, <2>7, <2>8
<1>14. Comes
    BY <1>4, <1>6, <1>11, <1>12, <1>13
<1>15. InLine(Passed)'
    <2>1. Passed' = q + 1 /\ q + 1 \in Nat
        BY <1>6
    <2> HIDE DEF q
    <2> QED
        BY <1>1, <1>4, <1>10, <1>14, <2>1 DEF InLine, Counts
<1> QED
    BY <1>1, <1>2, <1>4, <1>15 DEF InTurn, Turn

(* The line is taken: what is left of it in the buffer is Kept.            *)
LEMMA GetTurn ==
    ASSUME TextInv, HistInv, InTurn, waits, usmart_get_input_string
    PROVE  InTurn'
<1>1. UNCHANGED <<waits, sent, ran, rdr, rest>> /\ isr = "none"
    BY DEF usmart_get_input_string
<1>2. Line' = Line /\ Passed' = Passed
    BY <1>1 DEF Line, Passed, Bit
<1>3. CASE UNCHANGED <<buf, sta, taken, isr>>
    BY <1>1, <1>2, <1>3 DEF InTurn, Turn, Quiet, InLine, Counts
<1>4. CASE Get
    <2> DEFINE q == Passed
               n == Len(Line)
    <2>1. sta.done /\ sta' = Empty /\ taken' = Received /\ isr' = "scan"
        BY <1>4 DEF Get
    <2>2. Len(ran) + 1 = Len(sent) /\ InLine(q)
        BY <1>1, <2>1 DEF InTurn, Turn, Quiet, Empty
    <2>3. Len(sent) \in Nat /\ Len(ran) \in Nat /\ sent \in Seq(Lines)
        BY DEF HistInv
    <2>4. Line \in Seq(Char) /\ n \in Nat
        <3>1. Len(sent) \in 1..Len(sent)
            BY <2>2, <2>3
        <3> QED
            BY <2>3, <3>1, ConsoleAssumption DEF Line
    <2>5. Len(rest) \in Nat
        BY DEF TextInv
    <2>6. q = n + 2
        BY <2>1, <2>2 DEF InLine
    <2>7. Len(rest) = 0 /\ rdr = Nul
        BY <2>4, <2>5, <2>6 DEF Passed, Bit
    <2>8. rest = <<>>
        BY <2>7 DEF TextInv
    <2>9. Counts(q) = n
        BY <2>4, <2>6 DEF Counts
    <2>10. sta.n = n % RecLen /\ sta.n \in Nat /\ \A k \in 0..sta.n-1 : buf[k] = Line[n - sta.n + k + 1]
        BY <2>2, <2>9, ConsoleAssumption DEF InLine, TextInv
    <2>11. Received = Kept(Line)
        <3>1. Kept(Line) = [k \in 1..sta.n |-> Line[n - sta.n + k]]
            BY <2>4, <2>10, KeptBytes
        <3>2. ASSUME NEW k \in 1..sta.n PROVE buf[k-1] = Line[n - sta.n + k]
            <4>1. k - 1 \in 0..sta.n-1 /\ n - sta.n + (k - 1) + 1 = n - sta.n + k
                BY <2>4, <2>10
            <4> QED
                BY <2>10, <4>1
        <3> QED
            BY <3>1, <3>2 DEF Received
    <2> QED
        BY <1>1, <1>2, <2>1, <2>2, <2>7, <2>8, <2>11 DEF InTurn, Turn, Quiet
<1> QED
    BY <1>3, <1>4 DEF usmart_get_input_string

(* The line is run.                                                        *)
LEMMA ScanTurn ==
    ASSUME TextInv, HistInv, InTurn, waits, usmart_scan
    PROVE  InTurn'
<1>1. /\ UNCHANGED <<waits, sent, rest, rdr, sta>> /\ isr = "scan" /\ isr' = "leave"
      /\ ran' = Append(ran, [text |-> Text, did |-> Command(Text)])
    BY DEF usmart_scan
<1>2. Len(ran) + 1 = Len(sent) /\ Quiet /\ taken = Kept(Line)
    BY <1>1 DEF InTurn, Turn
<1>3. Text = Kept(Line)
    BY <1>1, <1>2 DEF TextInv, TextUntouched
<1>4. Len(ran) \in Nat /\ Len(ran') = Len(ran) + 1 /\ ran'[Len(ran) + 1].text = Text
      /\ \A i \in 1..Len(ran) : ran'[i] = ran[i]
    BY <1>1 DEF HistInv
<1>5. ASSUME NEW i \in 1..Len(ran') PROVE ran'[i].text = Kept(sent'[i])
    <2>1. CASE i = Len(ran) + 1
        BY <1>1, <1>2, <1>3, <1>4, <2>1 DEF Line
    <2>2. CASE i # Len(ran) + 1
        <3>1. i \in 1..Len(ran)
            BY <1>4, <2>2
        <3> QED
            BY <1>1, <1>4, <3>1 DEF InTurn
    <2> QED
        BY <2>1, <2>2
<1>6. Turn'
    BY <1>1, <1>2, <1>4 DEF Turn, Quiet
<1> QED
    BY <1>5, <1>6 DEF InTurn

LEMMA TurnStep == TextInv /\ HistInv /\ InTurn /\ [Next]_vars => InTurn'
<1> SUFFICES ASSUME TextInv, HistInv, InTurn, [Next]_vars PROVE InTurn'
    OBVIOUS
<1>0. waits' = waits
    BY DEF Next, Handlers, Host, Arrive, SendLine, USART_UX_IRQHandler, usmart_get_input_string,
           usmart_scan, USMART_TIMX_IRQHandler, vars
<1>1. CASE ~waits
    BY <1>0, <1>1 DEF InTurn
<1>2. CASE waits /\ USART_UX_IRQHandler
    BY <1>2, ReceiveTurn
<1>3. CASE waits /\ usmart_get_input_string
    BY <1>3, GetTurn
<1>4. CASE waits /\ usmart_scan
    BY <1>4, ScanTurn
<1>5. CASE USMART_TIMX_IRQHandler
    <2>1. UNCHANGED <<waits, sent, ran, rest, rdr, sta, buf, taken>> /\ isr = "leave" /\ isr' = "none"
        BY <1>5 DEF USMART_TIMX_IRQHandler
    <2> QED
        BY <2>1 DEF InTurn, Turn, Quiet
<1>6. CASE waits /\ Arrive
    BY <1>6, ArriveTurn
<1>7. ASSUME waits, NEW l \in Lines \cup Quick, SendLine(l) PROVE InTurn'
    BY <1>7, SendTurn
<1>8. CASE UNCHANGED vars
    BY <1>8 DEF vars, InTurn, Turn, Quiet, InLine, Line, Passed, Counts
<1> QED
    BY <1>1, <1>2, <1>3, <1>4, <1>5, <1>6, <1>7, <1>8 DEF Next, Handlers, Host

LEMMA RunInit == Init => HistInv /\ Counted /\ InTurn
<1> SUFFICES ASSUME Init PROVE HistInv /\ Counted /\ InTurn
    OBVIOUS
<1>1. HistInv
    BY HistInit
<1>2. Counted
    BY ConsoleAssumption DEF Init, Counted, Bit, Empty
<1>3. InTurn
    BY DEF Init, InTurn, Turn, Quiet, Empty
<1> QED
    BY <1>1, <1>2, <1>3

\* However fast lines come and whatever bytes of them are lost, no line is run
\* twice or from nowhere; and a host that waits for each answer has its lines run
\* once each, in order and byte for byte, or the end of one too long for the
\* buffer.
THEOREM RunsEachLine == Spec => []LinesRun
<1>1. HistInv /\ Counted /\ InTurn => LinesRun
    <2> SUFFICES ASSUME HistInv, Counted, InTurn PROVE LinesRun
        OBVIOUS
    <2>1. Len(ran) \in Nat /\ Len(sent) \in Nat /\ DOMAIN ran = 1..Len(ran)
        BY DEF HistInv
    <2>2. Bit(isr = "scan") \in Nat /\ Bit(sta.done) \in Nat /\ Bit(rdr = LF) \in Nat
          /\ Bit(rest # <<>>) \in Nat
        BY DEF Bit
    <2>3. Len(ran) <= Len(sent)
        BY <2>1, <2>2 DEF Counted
    <2> QED
        BY <2>1, <2>3 DEF InTurn, LinesRun
<1> QED
    BY <1>1, TextInit, RunInit, TextStep, HistStep, CountStep, TurnStep, PTL DEF Spec

\* What a user means by a plainly written line is what happens, if the parser makes
\* that of the line taken by itself: reception, the buffer and the handlers add
\* nothing, nor does any other line sent, plainly written or not.  That the parser
\* does so is what the run checks.
THEOREM DoesAsTyped ==
    ASSUME \A l \in DOMAIN Means : Len(l) < RecLen => Command(l) = Means[l]
    PROVE  Spec => []AsTyped
<1>1. HistInv /\ Counted /\ InTurn => AsTyped
    <2> SUFFICES ASSUME HistInv, Counted, InTurn, waits,
                        NEW i \in DOMAIN ran, sent[i] \in DOMAIN Means,
                        Len(sent[i]) < RecLen
                 PROVE  ran[i].did = Means[sent[i]]
        BY DEF AsTyped
    <2>1. Len(ran) \in Nat /\ Len(sent) \in Nat /\ DOMAIN ran = 1..Len(ran)
        BY DEF HistInv
    <2>2. Bit(isr = "scan") \in Nat /\ Bit(sta.done) \in Nat /\ Bit(rdr = LF) \in Nat
          /\ Bit(rest # <<>>) \in Nat
        BY DEF Bit
    <2>3. i \in 1..Len(ran) /\ i \in 1..Len(sent)
        BY <2>1, <2>2 DEF Counted
    <2>4. sent[i] \in Lines /\ sent[i] \in Seq(Char) /\ Len(sent[i]) \in Nat
        BY <2>3, ConsoleAssumption DEF HistInv
    <2>5. Kept(sent[i]) = sent[i]
        <3> DEFINE l == sent[i]
        <3>1. Len(l) % RecLen = Len(l)
            <4>1. Len(l) \in Nat /\ RecLen \in Nat \ {0} /\ Len(l) < RecLen
                BY <2>4, ConsoleAssumption
            <4> HIDE DEF l
            <4>2. Len(l) = RecLen * 0 + Len(l) /\ Len(l) \in 0..RecLen-1
                BY <4>1
            <4> QED
                BY <4>1, <4>2, Remainder
        <3>2. Kept(l) = [k \in 1..Len(l) |-> l[Len(l) - Len(l) + k]]
            BY <2>4, <3>1, KeptBytes
        <3>3. l = [k \in 1..Len(l) |-> l[k]]
            BY <2>4
        <3>4. \A k \in 1..Len(l) : Len(l) - Len(l) + k = k
            BY <2>4
        <3> HIDE DEF l
        <3> QED
            BY <3>2, <3>3, <3>4 DEF l
    <2>6. ran[i].text = sent[i]
        BY <2>3, <2>5 DEF InTurn
    <2>7. ran[i].did = Command(ran[i].text)
        BY <2>3 DEF HistInv
    <2> QED
        BY <2>4, <2>6, <2>7
<1> QED
    BY <1>1, TextInit, RunInit, TextStep, HistStep, CountStep, TurnStep, PTL DEF Spec

=============================================================================
