-------------------------- MODULE AcceptanceProofs --------------------------
(***************************************************************************)
(* The acceptance sequence, for any number of keys held at a time, any     *)
(* poll period and any codes of the remote: one press is answered once, a  *)
(* press of the prompt's key is kept, an error flagged while usb_test      *)
(* waits is told, and remote_test prints the codes sent, in their order.   *)
(***************************************************************************)
EXTENDS Acceptance, TLAPS

-----------------------------------------------------------------------------
(* The keys.                                                               *)

\* key_scan is armed only when nothing was taken since all keys were up, and a
\* call that waits was armed.
KeyInv ==
    /\ pins \in SUBSET Key /\ key_up \in BOOLEAN /\ waiting \in BOOLEAN /\ taken \in 0..1
    /\ key_up => taken = 0
    /\ pins = {} => taken = 0
    /\ waiting => key_up

(* What the tester does to the keys.                                       *)
LEMMA TouchKeeps == KeyInv /\ Touch => KeyInv'
<1> SUFFICES ASSUME KeyInv, Touch PROVE KeyInv'
    OBVIOUS
<1>1. PICK k \in Key : pins' = (pins \ {k}) \cup ({k} \ pins)
    BY DEF Touch
<1>2. pins' \in SUBSET Key
    BY <1>1 DEF KeyInv
<1> QED
    BY <1>2 DEF KeyInv, Touch

(* A call that begins its wait.                                            *)
LEMMA WaitKeeps == KeyInv /\ KeyWait => KeyInv'
BY DEF KeyInv, KeyWait, Armed

(* A call that returns, from whichever stage: it takes a key only after a  *)
(* wait, and then key_up falls until a later call finds all keys up.       *)
LEMMA ReturnKeeps ==
    ASSUME KeyInv, NEW v \in Value, Returns(v)
    PROVE  KeyInv'
<1>1. CASE ~waiting /\ ~Armed /\ key_up' = (key_up \/ pins = {})
           /\ UNCHANGED <<pins, waiting, taken>>
    BY <1>1 DEF KeyInv
<1>2. CASE waiting /\ v = Keyval /\ key_up' = FALSE /\ waiting' = FALSE
           /\ taken' = (IF v = NoKey THEN taken ELSE taken + 1) /\ UNCHANGED pins
    <2>1. taken = 0
        BY <1>2 DEF KeyInv
    <2>2. pins = {} => v = NoKey
        BY <1>2 DEF Keyval
    <2>3. taken' \in 0..1
        BY <1>2, <2>1
    <2>4. pins' = {} => taken' = 0
        BY <1>2, <2>1, <2>2
    <2>5. pins' \in SUBSET Key
        BY <1>2 DEF KeyInv
    <2>6. key_up' = FALSE /\ waiting' = FALSE
        BY <1>2
    <2> QED
        BY <2>3, <2>4, <2>5, <2>6 DEF KeyInv
<1> QED
    BY <1>1, <1>2 DEF Returns

(* The stages that end on KEY1, and those that wait for a part, as one step *)
(* each.                                                                   *)
LEMMA PlainLoops ==
    ASSUME PlainTest
    PROVE  /\ stage \in Plain
           /\ \E v \in Value :
                  /\ Returns(v)
                  /\ stage' = IF v = KEY1 THEN Following(stage) ELSE stage
           /\ UNCHANGED <<UsbVars, RemoteVars, second, status>>
BY DEF PlainTest, led_tset, beep_test, ap3216c_test, sh3001_test, adc_tset, lcd_test, UntilKey1,
       Plain

LEMMA WaitEnds ==
    ASSUME PartReady
    PROVE  /\ stage \in Part
           /\ stage' = Following(stage)
           /\ UNCHANGED <<KeyVars, UsbVars, RemoteVars, second, status>>
BY DEF PartReady, at24cxx_check, st480mc_init, sd_init, net_test, Ready, Part

(* Every step of every stage.                                              *)
LEMMA KeyStep == KeyInv /\ [Next]_vars => KeyInv'
<1> SUFFICES ASSUME KeyInv, [Next]_vars PROVE KeyInv'
    OBVIOUS
<1>0. ASSUME UNCHANGED KeyVars PROVE KeyInv'
    BY <1>0 DEF KeyVars, KeyInv
<1>1. CASE Debounce
    BY <1>1, WaitKeeps DEF Debounce
<1>2. CASE PlainTest
    BY <1>2, ReturnKeeps, PlainLoops
<1>3. CASE usb_test
    BY <1>3, <1>0, ReturnKeeps DEF usb_test
<1>4. CASE key_test
    BY <1>4, ReturnKeeps DEF key_test
<1>5. CASE remote_test
    BY <1>5, <1>0 DEF remote_test
<1>6. CASE st480mc_test
    BY <1>6, ReturnKeeps DEF st480mc_test
<1>7. CASE compass_calibration
    BY <1>7, ReturnKeeps DEF compass_calibration
<1>8. CASE wav_test
    BY <1>8, <1>0, ReturnKeeps DEF wav_test
<1>9. CASE sdram_test
    BY <1>9, ReturnKeeps DEF sdram_test
<1>10. CASE KeysTested
    BY <1>10, <1>0 DEF KeysTested
<1>11. CASE PartReady
    BY <1>11, <1>0, WaitEnds
<1>12. CASE Tester
    BY <1>12, TouchKeeps DEF Tester
<1>13. CASE OTG_FS_IRQHandler
    BY <1>13, <1>0 DEF OTG_FS_IRQHandler
<1>14. CASE TIM1_IRQHandlers
    BY <1>14, <1>0 DEF TIM1_IRQHandlers
<1>15. CASE Cable \/ UNCHANGED vars
    BY <1>15, <1>0 DEF Cable, vars
<1> QED
    BY <1>1, <1>2, <1>3, <1>4, <1>5, <1>6, <1>7, <1>8, <1>9, <1>10, <1>11, <1>12, <1>13,
       <1>14, <1>15 DEF Next, Main

LEMMA KeyStart == KeyInit => KeyInv
<1> SUFFICES ASSUME KeyInit PROVE KeyInv
    OBVIOUS
<1>1. pins = {} /\ key_up = TRUE /\ waiting = FALSE /\ taken = 0
    BY DEF KeyInit
<1>2. pins \in SUBSET Key
    BY <1>1
<1>3. taken \in 0..1
    BY <1>1, SMT
<1> QED
    BY <1>1, <1>2, <1>3, Zenon DEF KeyInv

\* One press is answered once, however keys are held, added and released and
\* whichever stages ask: key_scan's key_up never lets a second key pass before
\* all keys were up.
THEOREM PressOnce == Spec => []PressTakenOnce
<1>1. Init => KeyInv
    BY KeyStart DEF Init
<1>2. KeyInv => PressTakenOnce
    BY DEF KeyInv, PressTakenOnce, TakenOnce
<1> QED
    BY <1>1, <1>2, KeyStep, PTL DEF Spec

-----------------------------------------------------------------------------
(* The flags usb_test shares with the USB interrupt.                       *)

\* An error main owes the tester is in the register and not on record; past the
\* tests of a round none is owed.
ErrInv ==
    /\ reg \in Flags
    /\ due \in SUBSET Dirs /\ due \subseteq reg.err
    /\ round = "wait" => due \cap usb_sta.err = {}
    /\ round = "tell read" => "write" \notin due
    /\ round \in {"record", "conn", "key", "tick", "clear"} => due = {}

(* The callbacks of the interrupt, between any two steps of main.          *)
LEMMA InterruptKeeps == ErrInv /\ (Interrupt \/ Unplug) => ErrInv'
<1> SUFFICES ASSUME ErrInv, Interrupt \/ Unplug PROVE ErrInv'
    OBVIOUS
<1>1. CASE STORAGE_IsReady_FS
    BY <1>1 DEF STORAGE_IsReady_FS, ErrInv, Flags
<1>2. ASSUME NEW d \in Dirs, NEW failed \in BOOLEAN, Transfer(d, failed) PROVE ErrInv'
    <2>1. /\ round' = round /\ usb_sta' = usb_sta
          /\ reg' = [reg EXCEPT !.busy = @ \cup {d}, !.err = IF failed THEN @ \cup {d} ELSE @]
          /\ due' = IF failed /\ round = "wait" /\ d \notin usb_sta.err THEN due \cup {d} ELSE due
        BY <1>2 DEF Transfer
    <2>2. reg' \in Flags /\ reg'.err = IF failed THEN reg.err \cup {d} ELSE reg.err
        <3>1. reg = [busy |-> reg.busy, err |-> reg.err, poll |-> reg.poll]
              /\ reg.busy \in SUBSET Dirs /\ reg.err \in SUBSET Dirs /\ reg.poll \in BOOLEAN
            BY DEF ErrInv, Flags
        <3>2. CASE failed
            <4>1. reg' = [busy |-> reg.busy \cup {d}, err |-> reg.err \cup {d}, poll |-> reg.poll]
                BY <2>1, <3>1, <3>2
            <4> QED
                BY <3>1, <3>2, <4>1 DEF Flags
        <3>3. CASE ~failed
            <4>1. reg' = [busy |-> reg.busy \cup {d}, err |-> reg.err, poll |-> reg.poll]
                BY <2>1, <3>1, <3>3
            <4> QED
                BY <3>1, <3>3, <4>1 DEF Flags
        <3> QED
            BY <3>2, <3>3
    <2>3. CASE failed /\ round = "wait" /\ d \notin usb_sta.err
        BY <2>1, <2>2, <2>3 DEF ErrInv
    <2>4. CASE ~(failed /\ round = "wait" /\ d \notin usb_sta.err)
        <3>1. due' = due
            BY <2>1, <2>4, Zenon
        <3>2. reg.err \subseteq reg'.err
            BY <2>2
        <3>3. reg' \in Flags
            BY <2>2, Zenon
        <3>4. round' = round /\ usb_sta' = usb_sta
            BY <2>1, Zenon
        <3> QED
            BY <3>1, <3>2, <3>3, <3>4 DEF ErrInv
    <2> QED
        BY <2>3, <2>4
<1>3. ASSUME NEW state \in 0..1, DeviceState(state) PROVE ErrInv'
    BY <1>3 DEF DeviceState, ErrInv
<1>4. CASE Unplug
    BY <1>4 DEF Unplug, ErrInv
<1> QED
    BY <1>1, <1>2, <1>3, <1>4 DEF Interrupt, HAL_PCD_SuspendCallback, HAL_PCD_ConnectCallback,
       HAL_PCD_DisconnectCallback, USBD_LL_SetUSBAddress

(* A round of the loop: what differs from the record is told, what was told *)
(* is recorded, and only then are the flags cleared.                        *)
LEMMA WatchKeeps == ErrInv /\ Watch => ErrInv'
<1> SUFFICES ASSUME ErrInv, Watch PROVE ErrInv'
    OBVIOUS
<1>1. CASE Compare
    <2>1. usb_sta = reg /\ round = "wait" => due = {}
        BY DEF ErrInv
    <2> QED
        BY <1>1, <2>1 DEF Compare, ErrInv
<1>2. CASE round = "tell write" /\ TellError("write", "tell read")
    BY <1>2 DEF TellError, ErrInv
<1>3. CASE round = "tell read" /\ TellError("read", "record")
    <2>1. due \subseteq {"read"}
        BY <1>3, AcceptanceAssumption DEF ErrInv
    <2>2. due' = {}
        BY <1>3, <2>1 DEF TellError, ErrInv
    <2> QED
        BY <1>3, <2>2 DEF TellError, ErrInv
<1>4. CASE Record
    BY <1>4 DEF Record, ErrInv
<1>5. CASE Connection
    BY <1>5 DEF Connection, ErrInv
<1>6. CASE Tick
    BY <1>6 DEF Tick, ErrInv
<1>7. CASE ClearFlags
    BY <1>7 DEF ClearFlags, ErrInv, Clear, Flags
<1> QED
    BY <1>1, <1>2, <1>3, <1>4, <1>5, <1>6, <1>7 DEF Watch, Tell

(* Every step of every stage.                                              *)
LEMMA ErrStep == ErrInv /\ [Next]_vars => ErrInv'
<1> SUFFICES ASSUME ErrInv, [Next]_vars PROVE ErrInv'
    OBVIOUS
<1>0. ASSUME UNCHANGED UsbVars PROVE ErrInv'
    BY <1>0 DEF UsbVars, ErrInv
<1>1. CASE usb_test
    <2>1. CASE Watch
        BY <2>1, WatchKeeps
    <2>2. CASE UsbOff
        BY <2>2 DEF UsbOff, ErrInv, Clear, Flags
    <2>3. CASE round = "key" /\ round' = "tick" /\ UNCHANGED <<reg, usb_sta, due>>
        BY <2>3 DEF ErrInv
    <2> QED
        BY <1>1, <2>1, <2>2, <2>3 DEF usb_test
<1>2. CASE OTG_FS_IRQHandler \/ Cable
    BY <1>2, InterruptKeeps DEF OTG_FS_IRQHandler, Cable
<1>3. CASE Debounce \/ PlainTest \/ key_test \/ remote_test
    BY <1>3, <1>0, PlainLoops DEF Debounce, key_test, remote_test
<1>4. CASE st480mc_test \/ compass_calibration \/ wav_test \/ sdram_test
    BY <1>4, <1>0 DEF st480mc_test, compass_calibration, wav_test, sdram_test
<1>5. CASE KeysTested \/ PartReady \/ Tester \/ TIM1_IRQHandlers
    BY <1>5, <1>0, WaitEnds DEF KeysTested, Tester, TIM1_IRQHandlers
<1>6. CASE UNCHANGED vars
    BY <1>6, <1>0 DEF vars
<1> QED
    BY <1>1, <1>2, <1>3, <1>4, <1>5, <1>6 DEF Next, Main

\* An error the USB interrupt flags while usb_test waits is printed in the round
\* that follows, unless one of its kind is on record: whatever the interrupt does
\* between the reads of the register.
THEOREM ErrorsTold == Spec => []IdleErrorsTold
<1>1. Init => ErrInv
    BY DEF Init, UsbInit, ErrInv, Clear, Flags
<1>2. ErrInv => IdleErrorsTold
    BY DEF ErrInv, IdleErrorsTold
<1> QED
    BY <1>1, <1>2, ErrStep, PTL DEF Spec

-----------------------------------------------------------------------------
(* The stages.                                                             *)

(* Each stage is in the order once, so that Following leads on.            *)
LEMMA StagesGoOn ==
    ASSUME NEW s \in Stage \ {"end", "calibration"}
    PROVE  Following(s) \in Stage /\ Following(s) # s
<1>1. DOMAIN Order = 1..17
    BY DEF Order
<1>2. PICK k \in 1..17 : Order[k] = s
    BY <1>1 DEF Stage
<1>3. \A i, j \in 1..17 : Order[i] = Order[j] => i = j
    BY DEF Order
<1>4. Order[17] = "end"
    BY DEF Order
<1>5. (CHOOSE i \in DOMAIN Order : Order[i] = s) = k
    BY <1>1, <1>2, <1>3
<1>6. Following(s) = Order[k + 1] /\ k + 1 \in 1..17
    <2>1. Following(s) = Order[k + 1]
        BY <1>5 DEF Following
    <2>2. k # 17
        BY <1>2, <1>4
    <2> QED
        BY <2>1, <2>2
<1>7. Order[k + 1] # Order[k]
    BY <1>3, <1>6
<1> QED
    BY <1>1, <1>2, <1>6, <1>7 DEF Stage

\* The names of the stages that act are stages with one that follows.
LEMMA Acting ==
    \A s \in Plain \cup Part \cup {"usb", "key", "remote", "magnetic", "wav", "sdram"} :
        s \in Stage \ {"end", "calibration"}
<1>1. {Order[i] : i \in 1..17} =
        {"24c02", "led", "usb", "beep", "key", "remote", "light", "sensor",
         "magnetic", "motion", "card", "wav", "adc", "sdram", "lcd", "net", "end"}
    BY DEF Order
<1>2. DOMAIN Order = 1..17
    BY DEF Order
<1> QED
    BY <1>1, <1>2 DEF Stage, Plain, Part

\* A press of the key that the loop at work tests is not lost: no call of key_scan
\* takes it and stays in the stage, whatever else runs between.  It speaks of the
\* calls whose result is compared with that key (see Asked), and of the key the
\* loop tests, which in the calibration is not the one its prompt prints.
THEOREM PressKept == Spec => StageKeyKept
<1>1. ASSUME Next, Asked, stage' = stage, pins' = pins PROVE Asked'
    <2>1. /\ stage \in Keyed \ {"key"} /\ (stage = "sdram" => second)
          /\ key_up /\ pins = {EndKey(stage)}
        BY <1>1 DEF Asked
    <2>2. EndKey(stage)' = EndKey(stage)
        BY <1>1 DEF EndKey
    <2>s. CASE sdram_test
        <3>1. stage = "sdram" /\ second /\ EndKey(stage) = KEY1
            BY <2>1, <2>s DEF sdram_test, EndKey
        <3>2. PICK v \in Value : Returns(v) /\ stage' = IF v = KEY1 THEN Following(stage) ELSE stage
            BY <2>s, <3>1 DEF sdram_test
        <3>3. CASE waiting
            <4>1. v = Keyval
                BY <3>2, <3>3 DEF Returns
            <4>2. Keyval = KEY1
                BY <2>1, <3>1 DEF Keyval
            <4> QED
                BY <1>1, <3>1, <3>2, <4>1, <4>2, Acting, StagesGoOn
        <3>4. CASE ~waiting
            BY <2>1, <3>2, <3>4 DEF Returns, Armed
        <3> QED
            BY <3>3, <3>4
    <2>t. second' = second \/ sdram_test
        BY <1>1, WaitEnds, PlainLoops DEF Next, Main, Debounce, usb_test, key_test, remote_test,
           st480mc_test, compass_calibration, wav_test, KeysTested, Tester, Cable,
           OTG_FS_IRQHandler, TIM1_IRQHandlers
    <2> SUFFICES ASSUME ~key_up', ~sdram_test PROVE FALSE
        BY <1>1, <2>1, <2>2, <2>s, <2>t DEF Asked
    <2>3. stage # "key" /\ stage \notin Part /\ stage # "remote"
        BY <2>1 DEF Keyed, Plain, Part
    <2>4. ASSUME NEW v \in Value, Returns(v) PROVE v = EndKey(stage)
        <3>1. v = Keyval
            BY <2>1, <2>4 DEF Returns
        <3>2. EndKey(stage) \in 1..4
            BY DEF EndKey, KEY0, KEY1, WKUP
        <3>3. Keyval = EndKey(stage)
            BY <2>1, <3>2 DEF Keyval
        <3> QED
            BY <3>1, <3>3
    <2>5. ASSUME stage \in Plain \cup {"usb", "magnetic", "wav"}, stage' = Following(stage) PROVE FALSE
        BY <1>1, <2>5, Acting, StagesGoOn
    <2>6. CASE PlainTest
        <3>1. EndKey(stage) = KEY1 /\ stage \in Plain
            BY <2>6, PlainLoops DEF EndKey, Plain
        <3> QED
            BY <2>4, <2>5, <2>6, <3>1, PlainLoops
    <2>7. CASE usb_test
        <3>1. EndKey(stage) = KEY1 /\ stage = "usb"
            BY <2>7 DEF usb_test, EndKey
        <3>2. CASE UNCHANGED KeyVars
            BY <2>1, <3>2 DEF KeyVars
        <3> QED
            BY <2>4, <2>5, <2>7, <3>1, <3>2 DEF usb_test
    <2>8. CASE st480mc_test
        <3>1. EndKey(stage) = KEY1 /\ stage = "magnetic" /\ KEY0 # KEY1
            BY <2>8 DEF st480mc_test, EndKey, KEY0, KEY1
        <3> QED
            BY <2>4, <2>5, <2>8, <3>1 DEF st480mc_test
    <2>9. CASE compass_calibration
        <3>1. EndKey(stage) = WKUP /\ stage = "calibration"
            BY <2>9 DEF compass_calibration, EndKey
        <3> QED
            BY <1>1, <2>4, <2>9, <3>1 DEF compass_calibration
    <2>10. CASE wav_test
        <3>1. EndKey(stage) = KEY0 /\ stage = "wav"
            BY <2>10 DEF wav_test, EndKey
        <3>2. CASE UNCHANGED KeyVars
            BY <2>1, <3>2 DEF KeyVars
        <3> QED
            BY <2>4, <2>5, <2>10, <3>1, <3>2 DEF wav_test
    <2>11. CASE Debounce \/ Tester
        BY <2>1, <2>11 DEF Debounce, KeyWait, Tester, Touch
    <2>12. CASE key_test \/ remote_test \/ PartReady \/ KeysTested
        BY <2>3, <2>12, WaitEnds DEF key_test, remote_test, KeysTested
    <2>13. CASE Cable \/ OTG_FS_IRQHandler \/ TIM1_IRQHandlers
        BY <2>1, <2>13 DEF Cable, OTG_FS_IRQHandler, TIM1_IRQHandlers, KeyVars
    <2> QED
        BY <1>1, <2>6, <2>7, <2>8, <2>9, <2>10, <2>11, <2>12, <2>13 DEF Next, Main
<1>2. ASSUME [Next]_vars PROVE [Asked => Asked' \/ stage' # stage \/ pins' # pins]_vars
    BY <1>1, <1>2
<1> QED
    BY <1>2, PTL DEF Spec, StageKeyKept

-----------------------------------------------------------------------------
(* Types: the USB flags.                                                   *)

LEMMA UsbTypeSteps ==
    ASSUME UsbType, Interrupt \/ Unplug \/ Watch \/ UsbOff
                    \/ (round' = "tick" /\ UNCHANGED <<reg, usb_sta, conn, tct, offline_cnt, plugged, due>>)
    PROVE  UsbType'
<1>0. /\ Period \in Nat \ {0} /\ ByteValues \in Nat \ {0}
      /\ 0 \in 0..Period-1 /\ 0 \in 0..ByteValues-1
    BY AcceptanceAssumption
<1>1. CASE Interrupt \/ Unplug
    <2>1. ASSUME NEW d \in Dirs, NEW failed \in BOOLEAN, Transfer(d, failed) PROVE UsbType'
        <3>1. /\ UNCHANGED <<round, usb_sta, conn, tct, offline_cnt, plugged>>
              /\ reg' = [reg EXCEPT !.busy = @ \cup {d}, !.err = IF failed THEN @ \cup {d} ELSE @]
              /\ due' = due \/ due' = due \cup {d}
            BY <2>1 DEF Transfer
        <3>2. due' \in SUBSET Dirs
            BY <3>1 DEF UsbType
        <3>3. /\ reg = [busy |-> reg.busy, err |-> reg.err, poll |-> reg.poll]
              /\ reg.busy \in SUBSET Dirs /\ reg.err \in SUBSET Dirs /\ reg.poll \in BOOLEAN
            BY DEF UsbType, Flags
        <3>4. PICK e \in SUBSET Dirs : reg' = [busy |-> reg.busy \cup {d}, err |-> e, poll |-> reg.poll]
            <4>1. CASE failed
                BY <3>1, <3>3, <4>1
            <4>2. CASE ~failed
                BY <3>1, <3>3, <4>2
            <4> QED
                BY <4>1, <4>2
        <3>5. reg' \in Flags
            BY <3>3, <3>4 DEF Flags
        <3> QED
            BY <3>1, <3>2, <3>5 DEF UsbType
    <2>2. CASE STORAGE_IsReady_FS
        <3>1. reg' \in Flags
            BY <2>2 DEF STORAGE_IsReady_FS, UsbType, Flags
        <3> QED
            BY <2>2, <3>1 DEF STORAGE_IsReady_FS, UsbType
    <2>3. CASE \E state \in 0..1 : DeviceState(state)
        BY <2>3 DEF DeviceState, UsbType
    <2>4. CASE Unplug
        BY <2>4 DEF Unplug, UsbType
    <2> QED
        BY <1>1, <2>1, <2>2, <2>3, <2>4 DEF Interrupt, HAL_PCD_SuspendCallback,
           HAL_PCD_ConnectCallback, HAL_PCD_DisconnectCallback, USBD_LL_SetUSBAddress
<1>2. CASE Watch
    <2>1. CASE Compare \/ Record
        BY <2>1 DEF Compare, Record, UsbType
    <2>2. CASE Tell
        BY <2>2 DEF Tell, TellError, UsbType
    <2>3. CASE Connection
        <3>1. tct' \in 0..Period-1
            <4>1. tct' = (tct + 1) % Period /\ tct + 1 \in Nat
                BY <1>0, <2>3 DEF Connection, UsbType
            <4> QED
                BY <1>0, <4>1
        <3> QED
            BY <2>3, <3>1 DEF Connection, UsbType
    <2>4. CASE Tick
        <3>1. (offline_cnt + 1) % ByteValues \in 0..ByteValues-1
            <4>0. offline_cnt \in 0..ByteValues-1
                BY DEF UsbType
            <4>1. offline_cnt + 1 \in Nat
                BY <1>0, <4>0
            <4> QED
                BY <1>0, <4>1
        <3>2. offline_cnt' \in 0..ByteValues-1
            BY <1>0, <2>4, <3>1 DEF Tick, UsbType
        <3>3. conn' \in 0..1 /\ round' \in {"wait", "clear"}
            BY <2>4 DEF Tick, UsbType
        <3>4. UNCHANGED <<reg, usb_sta, tct, plugged, due>>
            BY <2>4 DEF Tick
        <3> QED
            BY <3>2, <3>3, <3>4 DEF UsbType
    <2>5. CASE ClearFlags
        BY <2>5 DEF ClearFlags, UsbType, Clear, Flags
    <2> QED
        BY <1>2, <2>1, <2>2, <2>3, <2>4, <2>5 DEF Watch
<1>3. CASE UsbOff
    <2>1. Clear \in Flags
        BY DEF Clear, Flags
    <2>2. 0 \in 0..1
        OBVIOUS
    <2> QED
        BY <1>0, <1>3, <2>1, <2>2 DEF UsbOff, UsbType
<1>4. CASE round' = "tick" /\ UNCHANGED <<reg, usb_sta, conn, tct, offline_cnt, plugged, due>>
    BY <1>4 DEF UsbType
<1> QED
    BY <1>1, <1>2, <1>3, <1>4

LEMMA UsbStart == UsbInit => UsbType
<1>1. 0 \in 0..Period-1 /\ 0 \in 0..ByteValues-1 /\ 0 \in 0..1
    BY AcceptanceAssumption
<1>2. Clear \in Flags
    BY DEF Clear, Flags
<1> QED
    BY <1>1, <1>2 DEF UsbInit, UsbType

-----------------------------------------------------------------------------
(* Types: the remote.                                                      *)

Sta == [lead : BOOLEAN, done : BOOLEAN, rise : BOOLEAN, ovf : 0..MaxOvf]
Data == [1..4 * FieldLen -> Bit]

\* With the types of the locals of remote_scan; the copy of the status is one.
RemoteTyped == RemoteType /\ tmp \in [t1 : Field, res : Field, copy : Sta]

LEMMA RemoteConstants ==
    /\ FieldLen \in Nat \ {0} /\ 4 * FieldLen \in Nat
    /\ Zero \in Field /\ Rest \in Sta /\ Nothing \in [t1 : Field, res : Field, copy : Sta]
    /\ [i \in 1..4 * FieldLen |-> 0] \in Data
    /\ 0 \in 0..Slack /\ 0 \in 0..MaxOvf + 2 /\ 1 \in 0..MaxOvf + 2
<1>1. FieldLen \in Nat \ {0} /\ MaxOvf \in Nat /\ Slack \in Nat
    BY AcceptanceAssumption
<1>2. Zero \in Field
    BY DEF Zero, Field, Bit
<1>3. Rest \in Sta
    BY <1>1 DEF Rest, Sta
<1>4. [i \in 1..4 * FieldLen |-> 0] \in Data
    BY DEF Data, Bit
<1> QED
    BY <1>1, <1>2, <1>3, <1>4 DEF Nothing

\* Bits of a frame, and the one at place p of the frame of a code.
Whole == 4 * FieldLen
BitOf(code, p) ==
    IF p <= FieldLen THEN 0
    ELSE IF p <= 2 * FieldLen THEN 1
    ELSE IF p <= 3 * FieldLen THEN code[p - 2 * FieldLen] ELSE 1 - code[p - 3 * FieldLen]

(* A field read from the register.                                         *)
LEMMA FieldRead ==
    ASSUME data \in Data, NEW i \in 0..3
    PROVE  FieldOf(i) = [k \in 1..FieldLen |-> data[i * FieldLen + k]]
<1>1. FieldLen \in Nat \ {0}
    BY RemoteConstants
<1>2. i * FieldLen \in Nat /\ i * FieldLen + FieldLen <= 4 * FieldLen
      /\ (i + 1) * FieldLen = i * FieldLen + FieldLen
    <2>1. CASE i = 0
        BY <1>1, <2>1
    <2>2. CASE i = 1
        BY <1>1, <2>2
    <2>3. CASE i = 2
        BY <1>1, <2>3
    <2>4. CASE i = 3
        BY <1>1, <2>4
    <2> QED
        BY <2>1, <2>2, <2>3, <2>4
<1> DEFINE o == i * FieldLen
<1>3. FieldOf(i) = SubSeq(data, o + 1, o + FieldLen)
    BY <1>2 DEF FieldOf
<1>4. o \in Nat /\ o + FieldLen <= 4 * FieldLen
    BY <1>2
<1> HIDE DEF o
<1>5. data \in Seq(Bit) /\ Len(data) = 4 * FieldLen
    BY <1>1 DEF Data
<1>6. FieldOf(i) = [k \in 1..FieldLen |-> data[o + k]]
    BY <1>1, <1>3, <1>4, <1>5
<1> QED
    BY <1>6 DEF o

LEMMA WholeType == FieldLen \in Nat \ {0} /\ Whole \in Nat \ {0} /\ Whole = 4 * FieldLen
BY RemoteConstants DEF Whole

(* A bit of a frame, and the frame as its lead and its bits.               *)
LEMMA BitType ==
    ASSUME NEW code \in Codes, NEW p \in 1..Whole
    PROVE  BitOf(code, p) \in Bit
<1>1. code \in [1..FieldLen -> {0, 1}]
    BY AcceptanceAssumption
<1>2. \A q \in 1..FieldLen : code[q] \in {0, 1} /\ 1 - code[q] \in {0, 1}
    BY <1>1
<1>3. CASE p <= 2 * FieldLen
    BY <1>3, WholeType DEF BitOf, Bit
<1>4. CASE ~(p <= 2 * FieldLen) /\ p <= 3 * FieldLen
    <2>1. p - 2 * FieldLen \in 1..FieldLen
        BY <1>4, WholeType
    <2>2. BitOf(code, p) = code[p - 2 * FieldLen]
        BY <1>4, WholeType DEF BitOf
    <2> QED
        BY <1>2, <2>1, <2>2 DEF Bit
<1>5. CASE ~(p <= 3 * FieldLen)
    <2>1. p - 3 * FieldLen \in 1..FieldLen
        BY <1>5, WholeType
    <2>2. BitOf(code, p) = 1 - code[p - 3 * FieldLen]
        BY <1>5, WholeType DEF BitOf
    <2> QED
        BY <1>2, <2>1, <2>2 DEF Bit
<1> QED
    BY <1>3, <1>4, <1>5

LEMMA Joined ==
    ASSUME NEW S, NEW s \in Seq(S), NEW t \in Seq(S)
    PROVE  /\ s \o t \in Seq(S) /\ Len(s \o t) = Len(s) + Len(t)
           /\ \A i \in 1..Len(s) + Len(t) :
                 (s \o t)[i] = IF i <= Len(s) THEN s[i] ELSE t[i - Len(s)]
OBVIOUS

LEMMA FrameBits ==
    ASSUME NEW code \in Codes
    PROVE  /\ Frame(code) \in Seq(Kind) /\ Len(Frame(code)) = Whole + 1
           /\ Frame(code)[1] = Lead
           /\ \A i \in 1..Whole : Frame(code)[i + 1] = Pulse[BitOf(code, i) + 1]
<1> DEFINE F == FieldLen
           id == [i \in 1..F |-> 0]
           ni == [i \in 1..F |-> 1]
           nc == [i \in 1..F |-> 1 - code[i]]
           bits == ((id \o ni) \o code) \o nc
<1>1. F \in Nat \ {0} /\ Whole = 4 * F
    BY WholeType
<1>2. code \in [1..F -> {0, 1}]
    BY AcceptanceAssumption
<1>3. id \in Seq(Int) /\ ni \in Seq(Int) /\ code \in Seq(Int) /\ nc \in Seq(Int)
      /\ Len(id) = F /\ Len(ni) = F /\ Len(code) = F /\ Len(nc) = F
    BY <1>1, <1>2
<1>4. REMOTE_ID = id /\ Inverse(REMOTE_ID) = ni /\ Inverse(code) = nc
    BY DEF REMOTE_ID, Zero, Inverse
<1> DEFINE two == id \o ni
           three == two \o code
<1>5. two \in Seq(Int) /\ Len(two) = 2 * F
      /\ \A i \in 1..2 * F : two[i] = IF i <= F THEN 0 ELSE 1
    <2>1. two \in Seq(Int) /\ Len(two) = F + F
        BY <1>1, <1>3
    <2>2. ASSUME NEW i \in 1..2 * F PROVE two[i] = IF i <= F THEN 0 ELSE 1
        <3>1. two[i] = IF i <= F THEN id[i] ELSE ni[i - F]
            BY <1>1, <1>3
        <3>2. i <= F => id[i] = 0
            BY <1>1
        <3>3. ~(i <= F) => ni[i - F] = 1
            BY <1>1
        <3> QED
            BY <3>1, <3>2, <3>3
    <2> QED
        BY <1>1, <2>1, <2>2
<1>6. three \in Seq(Int) /\ Len(three) = 3 * F
      /\ \A i \in 1..3 * F : three[i] = IF i <= 2 * F THEN two[i] ELSE code[i - 2 * F]
    <2> HIDE DEF two
    <2>1. 2 * F + F = 3 * F
        BY <1>1
    <2>2. /\ two \o code \in Seq(Int) /\ Len(two \o code) = Len(two) + Len(code)
          /\ \A i \in 1..Len(two) + Len(code) :
                (two \o code)[i] = IF i <= Len(two) THEN two[i] ELSE code[i - Len(two)]
        BY <1>3, <1>5, Joined
    <2>3. Len(two) = 2 * F /\ Len(two) + Len(code) = 2 * F + F
        BY <1>3, <1>5
    <2> QED
        BY <2>1, <2>2, <2>3
<1>7. bits \in Seq(Int) /\ Len(bits) = Whole
      /\ \A i \in 1..Whole : bits[i] = IF i <= 3 * F THEN three[i] ELSE nc[i - 3 * F]
    <2> HIDE DEF three, nc
    <2>1. 3 * F + F = Whole /\ bits = three \o nc
        BY <1>1 DEF three
    <2>2. /\ three \o nc \in Seq(Int) /\ Len(three \o nc) = Len(three) + Len(nc)
          /\ \A i \in 1..Len(three) + Len(nc) :
                (three \o nc)[i] = IF i <= Len(three) THEN three[i] ELSE nc[i - Len(three)]
        BY <1>3, <1>6, Joined
    <2>3. Len(three) = 3 * F /\ Len(three) + Len(nc) = 3 * F + F
        BY <1>3, <1>6
    <2> QED
        BY <2>1, <2>2, <2>3
<1>8. ASSUME NEW i \in 1..Whole PROVE bits[i] = BitOf(code, i)
    <2>1. i <= F => bits[i] = 0
        BY <1>1, <1>5, <1>6, <1>7
    <2>2. ~(i <= F) /\ i <= 2 * F => bits[i] = 1
        BY <1>1, <1>5, <1>6, <1>7
    <2>3. ~(i <= 2 * F) /\ i <= 3 * F => bits[i] = code[i - 2 * F]
        BY <1>1, <1>6, <1>7
    <2>4. ~(i <= 3 * F) => bits[i] = 1 - code[i - 3 * F]
        <3>1. ~(i <= 3 * F) => bits[i] = nc[i - 3 * F] /\ i - 3 * F \in 1..F
            BY <1>1, <1>7
        <3> QED
            BY <3>1
    <2> HIDE DEF bits
    <2> QED
        BY <1>1, <2>1, <2>2, <2>3, <2>4 DEF BitOf
<1> HIDE DEF bits
<1>9. Frame(code) = <<Lead>> \o [i \in DOMAIN bits |-> Pulse[bits[i] + 1]]
    <2>1. bits = ((REMOTE_ID \o Inverse(REMOTE_ID)) \o code) \o Inverse(code)
        BY <1>4 DEF bits
    <2> QED
        BY <2>1 DEF Frame
<1> DEFINE high == [i \in 1..Whole |-> Pulse[bits[i] + 1]]
<1>10. Frame(code) = <<Lead>> \o high
    <2>1. DOMAIN bits = 1..Whole
        BY <1>7
    <2> QED
        BY <1>9, <2>1
<1>11. high \in Seq(Kind) /\ Len(high) = Whole
    <2>1. \A i \in 1..Whole : Pulse[bits[i] + 1] \in Kind
        BY <1>8, BitType DEF Pulse, Kind, Bit
    <2> QED
        BY <2>1, WholeType
<1>12. \A i \in 1..Whole : high[i] = Pulse[BitOf(code, i) + 1]
    BY <1>8
<1> HIDE DEF high
<1>13. <<Lead>> \in Seq(Kind) /\ Len(<<Lead>>) = 1 /\ <<Lead>>[1] = Lead
    BY DEF Kind
<1>14. /\ Frame(code) \in Seq(Kind) /\ Len(Frame(code)) = 1 + Whole
       /\ \A i \in 1..1 + Whole : Frame(code)[i] = IF i <= 1 THEN <<Lead>>[i] ELSE high[i - 1]
    BY <1>10, <1>11, <1>13, Joined
<1>15. ASSUME NEW i \in 1..Whole PROVE Frame(code)[i + 1] = high[i]
    <2>1. i + 1 \in 1..1 + Whole /\ ~(i + 1 <= 1) /\ i + 1 - 1 = i
        BY WholeType
    <2> QED
        BY <1>14, <2>1
<1>16. Frame(code)[1] = Lead
    <2>1. 1 \in 1..1 + Whole /\ 1 <= 1
        BY WholeType
    <2> QED
        BY <1>13, <1>14, <2>1
<1>17. 1 + Whole = Whole + 1
    BY WholeType
<1> QED
    BY <1>12, <1>14, <1>15, <1>16, <1>17

(* No field leaves the register.                                           *)
LEMMA FieldTypes == data \in Data => \A i \in 0..3 : FieldOf(i) \in Field
<1> SUFFICES ASSUME data \in Data, NEW i \in 0..3 PROVE FieldOf(i) \in Field
    OBVIOUS
<1>1. FieldLen \in Nat \ {0}
    BY RemoteConstants
<1>2. FieldOf(i) = [k \in 1..FieldLen |-> data[i * FieldLen + k]]
    BY FieldRead
<1>3. ASSUME NEW k \in 1..FieldLen PROVE i * FieldLen + k \in 1..4 * FieldLen
    <2>1. CASE i = 0
        BY <1>1, <2>1
    <2>2. CASE i = 1
        BY <1>1, <2>2
    <2>3. CASE i = 2
        BY <1>1, <2>3
    <2>4. CASE i = 3
        BY <1>1, <2>4
    <2> QED
        BY <2>1, <2>2, <2>3, <2>4
<1>4. \A k \in 1..FieldLen : data[i * FieldLen + k] \in Bit
    BY <1>3 DEF Data
<1> QED
    BY <1>2, <1>4 DEF Field

(* A handler's effect on the status, the register and the edge it waits for. *)
LEMMA CaptureTypes ==
    ASSUME sta \in Sta, data \in Data, rising \in BOOLEAN
    PROVE  /\ CaptureRise => sta' \in Sta /\ data' \in Data /\ rising' \in BOOLEAN
           /\ \A d \in Kind : CaptureFall(d) => sta' \in Sta /\ data' \in Data /\ rising' \in BOOLEAN
           /\ PeriodElapsed => sta' \in Sta
<1>0. sta = [lead |-> sta.lead, done |-> sta.done, rise |-> sta.rise, ovf |-> sta.ovf]
      /\ sta.lead \in BOOLEAN /\ sta.done \in BOOLEAN /\ sta.rise \in BOOLEAN /\ sta.ovf \in 0..MaxOvf
    BY DEF Sta
<1>1. MaxOvf \in Nat /\ FieldLen \in Nat \ {0}
    BY AcceptanceAssumption
<1>2. ASSUME CaptureRise PROVE sta' \in Sta /\ data' \in Data /\ rising' \in BOOLEAN
    BY <1>2 DEF CaptureRise, Sta
<1>3. ASSUME NEW d \in Kind, CaptureFall(d) PROVE sta' \in Sta /\ data' \in Data /\ rising' \in BOOLEAN
    <2> DEFINE lead == sta.rise /\ sta.lead
               bit == CASE 300 < d /\ d < 800 -> {0} [] 1400 < d /\ d < 1800 -> {1} [] OTHER -> {}
               late1 == lead /\ 2000 < d /\ d < 3000
               begun == sta.lead \/ (sta.rise /\ 4200 < d /\ d < 4700)
    <2>1. /\ sta' = [sta EXCEPT !.rise = FALSE, !.ovf = IF late1 THEN 0 ELSE @, !.lead = begun]
          /\ data' = (IF lead /\ bit # {} THEN Append(Tail(data), CHOOSE x \in bit : TRUE) ELSE data)
          /\ rising' = TRUE
        BY <1>0, <1>3 DEF CaptureFall
    <2>2. begun \in BOOLEAN
        BY <1>0
    <2>3. bit \in {{}, {0}, {1}}
        OBVIOUS
    <2> HIDE DEF late1, begun, bit, lead
    <2>4. sta' \in Sta
        <3>1. (IF late1 THEN 0 ELSE sta.ovf) \in 0..MaxOvf
            BY <1>0, <1>1
        <3>2. sta' = [lead |-> begun, done |-> sta.done, rise |-> FALSE, ovf |-> IF late1 THEN 0 ELSE sta.ovf]
            BY <1>0, <2>1
        <3> QED
            BY <1>0, <2>2, <3>1, <3>2 DEF Sta
    <2>5. data' \in Data
        <3>1. ASSUME NEW b \in Bit PROVE Append(Tail(data), b) \in Data
            <4>1. data \in Seq(Bit) /\ Len(data) = 4 * FieldLen /\ 4 * FieldLen \in Nat \ {0}
                BY <1>1 DEF Data
            <4> DEFINE t == Tail(data)
            <4>2. t \in Seq(Bit) /\ Len(t) = 4 * FieldLen - 1
                BY <4>1
            <4> HIDE DEF t
            <4>3. Append(t, b) \in Seq(Bit) /\ Len(Append(t, b)) = 4 * FieldLen
                BY <4>1, <4>2
            <4> DEFINE a == Append(t, b)
            <4>4. a \in Seq(Bit) /\ Len(a) = 4 * FieldLen
                BY <4>3
            <4> HIDE DEF a
            <4>5. a \in [1..Len(a) -> Bit]
                BY <4>4
            <4> QED
                BY <4>4, <4>5 DEF Data, t, a
        <3>2. \A x \in {0, 1} : (CHOOSE y \in {x} : TRUE) = x
            OBVIOUS
        <3>3. bit # {} => (CHOOSE x \in bit : TRUE) \in Bit
            BY <2>3, <3>2 DEF Bit
        <3> QED
            BY <2>1, <3>1, <3>3
    <2> QED
        BY <2>1, <2>4, <2>5
<1>4. ASSUME PeriodElapsed PROVE sta' \in Sta
    <2>1. CASE sta.lead
        <3>1. /\ (sta.ovf < MaxOvf) \in BOOLEAN /\ (sta.done \/ sta.ovf = 0) \in BOOLEAN
              /\ (IF sta.ovf < MaxOvf THEN sta.ovf + 1 ELSE 0) \in 0..MaxOvf
            BY <1>0, <1>1
        <3> QED
            BY <1>4, <2>1, <3>1 DEF PeriodElapsed, Sta
    <2>2. CASE ~sta.lead
        BY <1>4, <2>2 DEF PeriodElapsed
    <2> QED
        BY <2>1, <2>2
<1> QED
    BY <1>2, <1>3, <1>4

(* How often an interrupt hits one call.                                   *)
LEMMA LateTypes == late \in 0..Slack /\ Interrupts => late' \in 0..Slack
BY AcceptanceAssumption DEF Interrupts

(* The handlers of TIM1 and the remote.                                    *)
LEMMA AirTypes == RemoteTyped /\ Air => RemoteTyped'
<1> SUFFICES ASSUME RemoteTyped, Air PROVE RemoteTyped'
    OBVIOUS
<1>0. /\ sta \in Sta /\ data \in Data /\ rising \in BOOLEAN /\ air \in Seq(Kind)
      /\ late \in 0..Slack /\ owed \in SUBSET DOMAIN sent /\ sent \in Seq(Codes) /\ torn \in BOOLEAN
      /\ quiet \in [ovf : 0..MaxOvf + 2, seen : BOOLEAN]
    BY DEF RemoteTyped, RemoteType, Sta, Data
<1>1. [ovf |-> 0, seen |-> FALSE] \in [ovf : 0..MaxOvf + 2, seen : BOOLEAN]
    BY RemoteConstants
<1> DEFINE Wires == /\ sta' \in Sta /\ data' \in Data /\ rising' \in BOOLEAN /\ late' \in 0..Slack
                    /\ line' \in Kind \cup {Idle, Low} /\ air' \in Seq(Kind)
                    /\ quiet' \in [ovf : 0..MaxOvf + 2, seen : BOOLEAN]
           Past == torn' \in BOOLEAN /\ sent' \in Seq(Codes) /\ owed' \in SUBSET DOMAIN sent'
<1>2. ASSUME Wires, Past, UNCHANGED <<scan, tmp, printed>> PROVE RemoteTyped'
    BY <1>2 DEF RemoteTyped, RemoteType, Sta, Data
<1>3. ASSUME LineFalls
      PROVE  /\ sta' \in Sta /\ data' \in Data /\ rising' \in BOOLEAN /\ late' \in 0..Slack
             /\ line' \in Kind \cup {Idle, Low} /\ quiet' \in [ovf : 0..MaxOvf + 2, seen : BOOLEAN]
    <2>1. sta' \in Sta /\ data' \in Data /\ rising' \in BOOLEAN
        BY <1>0, <1>3, CaptureTypes DEF LineFalls
    <2> QED
        BY <1>0, <1>1, <1>3, <2>1, LateTypes DEF LineFalls
<1>4. ASSUME NEW code \in Codes, Send(code) PROVE RemoteTyped'
    <2>1. Wires
        BY <1>3, <1>4, FrameBits DEF Send
    <2>2. sent' = Append(sent, code)
        BY <1>4 DEF Send
    <2>3. sent' \in Seq(Codes) /\ Len(sent') = Len(sent) + 1 /\ Len(sent) \in Nat
        BY <1>0, <2>2
    <2>4. DOMAIN sent \subseteq DOMAIN sent' /\ Len(sent') \in DOMAIN sent'
        BY <1>0, <2>3
    <2>5. torn' \in BOOLEAN /\ owed' \in SUBSET DOMAIN sent'
        BY <1>0, <1>4, <2>4 DEF Send
    <2> HIDE DEF Wires
    <2>6. UNCHANGED <<scan, tmp, printed>>
        BY <1>4 DEF Send
    <2> QED
        BY <1>2, <2>1, <2>3, <2>5, <2>6
<1>5. CASE SendMore
    <2>1. <<More>> \in Seq(Kind)
        BY DEF Kind
    <2>2. Wires
        BY <1>3, <1>5, <2>1 DEF SendMore
    <2>3. UNCHANGED <<scan, tmp, printed, torn, sent, owed>>
        BY <1>5 DEF SendMore
    <2> HIDE DEF Wires
    <2> QED
        BY <1>0, <1>2, <2>2, <2>3
<1>6. CASE Rise
    <2>1. sta' \in Sta /\ data' \in Data /\ rising' \in BOOLEAN
        BY <1>0, <1>6, CaptureTypes DEF Rise
    <2>2. air # <<>> => Head(air) \in Kind /\ Tail(air) \in Seq(Kind)
        BY <1>0
    <2>3. line' \in Kind \cup {Idle, Low} /\ air' \in Seq(Kind)
        BY <1>0, <1>6, <2>2 DEF Rise
    <2>4. late' \in 0..Slack /\ quiet' \in [ovf : 0..MaxOvf + 2, seen : BOOLEAN]
        BY <1>0, <1>1, <1>6, LateTypes DEF Rise
    <2>5. UNCHANGED <<scan, tmp, printed, torn, sent>> /\ owed' \subseteq owed
        BY <1>6 DEF Rise
    <2>6. Wires
        BY <2>1, <2>3, <2>4
    <2> HIDE DEF Wires
    <2> QED
        BY <1>0, <1>2, <2>5, <2>6
<1>7. CASE Fall
    <2>1. sta' \in Sta /\ data' \in Data /\ rising' \in BOOLEAN
        BY <1>0, <1>7, CaptureTypes DEF Fall
    <2>2. late' \in 0..Slack /\ line' \in Kind \cup {Idle, Low}
        BY <1>0, <1>7, LateTypes DEF Fall
    <2>3. UNCHANGED <<air, quiet, scan, tmp, printed, sent, owed>> /\ torn' \in BOOLEAN
        BY <1>0, <1>7 DEF Fall
    <2>4. Wires
        BY <1>0, <2>1, <2>2, <2>3
    <2> HIDE DEF Wires
    <2> QED
        BY <1>0, <1>2, <2>3, <2>4
<1>8. CASE Overflow
    <2>1. sta' \in Sta
        BY <1>0, <1>8, CaptureTypes DEF Overflow
    <2>2. late' \in 0..Slack
        BY <1>0, <1>8, LateTypes DEF Overflow
    <2>3. UNCHANGED <<data, rising, line, air, scan, tmp, printed, torn, sent, owed>>
        BY <1>8 DEF Overflow
    <2>4. quiet' \in [ovf : 0..MaxOvf + 2, seen : BOOLEAN]
        <3>1. MaxOvf \in Nat
            BY AcceptanceAssumption
        <3>2. quiet.ovf \in 0..MaxOvf + 2 /\ quiet.seen \in BOOLEAN
            BY <1>0
        <3>3. (IF quiet.ovf < MaxOvf + 2 THEN quiet.ovf + 1 ELSE quiet.ovf) \in 0..MaxOvf + 2
            BY <3>1, <3>2
        <3>4. quiet' = [ovf |-> IF quiet.ovf < MaxOvf + 2 THEN quiet.ovf + 1 ELSE quiet.ovf, seen |-> quiet.seen]
            BY <1>0, <1>8 DEF Overflow
        <3> QED
            BY <3>2, <3>3, <3>4
    <2>5. Wires
        BY <1>0, <2>1, <2>2, <2>3, <2>4 DEF RemoteTyped, RemoteType
    <2> HIDE DEF Wires
    <2> QED
        BY <1>0, <1>2, <2>3, <2>5
<1> QED
    BY <1>4, <1>5, <1>6, <1>7, <1>8 DEF Air

(* The steps of remote_scan.                                               *)
LEMMA ScanTypes == RemoteTyped /\ (Scan \/ RemoteOff) => RemoteTyped'
<1> SUFFICES ASSUME RemoteTyped, Scan \/ RemoteOff PROVE RemoteTyped'
    OBVIOUS
<1>0. /\ sta \in Sta /\ data \in Data /\ 0 \in 0..Slack
      /\ owed \in SUBSET DOMAIN sent /\ torn \in BOOLEAN
      /\ quiet \in [ovf : 0..MaxOvf + 2, seen : BOOLEAN]
      /\ tmp \in [t1 : Field, res : Field, copy : Sta]
      /\ printed \in Seq([code : Field, torn : BOOLEAN])
    BY RemoteConstants DEF RemoteTyped, RemoteType, Sta, Data
<1>1. tmp = [t1 |-> tmp.t1, res |-> tmp.res, copy |-> tmp.copy]
      /\ tmp.t1 \in Field /\ tmp.res \in Field /\ tmp.copy \in Sta
    BY <1>0
<1> DEFINE At == {"ask", "id", "id inverse", "key", "key inverse", "held", "copy", "clear", "leave"}
           Tmp == [t1 : Field, res : Field, copy : Sta]
           Gap == [ovf : 0..MaxOvf + 2, seen : BOOLEAN]
           Out == [code : Field, torn : BOOLEAN]
<1>2. ASSUME UNCHANGED <<data, rising, line, air, sent>>, sta' \in Sta, torn' \in BOOLEAN,
             scan' \in At, tmp' \in Tmp, quiet' \in Gap, printed' \in Seq(Out),
             late' \in 0..Slack, owed' \subseteq owed
      PROVE  RemoteTyped'
    BY <1>2 DEF RemoteTyped, RemoteType, Sta
<1>3. ASSUME NEW b \in BOOLEAN, quiet' = [quiet EXCEPT !.seen = @ \/ b] PROVE quiet' \in Gap
    BY <1>0, <1>3
<1>4. ASSUME Answer(tmp.res)
      PROVE  scan' \in At /\ tmp' \in Tmp /\ printed' \in Seq(Out) /\ late' \in 0..Slack /\ owed' \subseteq owed
    <2>1. [code |-> tmp.res, torn |-> torn] \in Out
        BY <1>0, <1>1
    <2>2. printed' = printed \/ printed' = Append(printed, [code |-> tmp.res, torn |-> torn])
        BY <1>4 DEF Answer
    <2>3. printed' \in Seq(Out)
        <3> DEFINE one == [code |-> tmp.res, torn |-> torn]
        <3>1. printed \in Seq(Out) /\ one \in Out /\ (printed' = printed \/ printed' = Append(printed, one))
            BY <1>0, <2>1, <2>2
        <3> HIDE DEF one, Out
        <3> QED
            BY <3>1
    <2> QED
        BY <1>0, <1>4, <2>3, RemoteConstants DEF Answer
<1>5. CASE Look
    <2>1. quiet' \in Gap
        BY <1>3, <1>5 DEF Look
    <2>2. scan' \in At /\ UNCHANGED <<tmp, printed, late, owed, sta, data, rising, line, air, torn, sent>>
        BY <1>5 DEF Look, Handlers
    <2> QED
        BY <1>0, <1>2, <2>1, <2>2 DEF RemoteTyped, RemoteType
<1>6. CASE Read
    <2>1. UNCHANGED <<quiet, printed, late, owed, sta, data, rising, line, air, torn, sent>>
        BY <1>6 DEF Read, Handlers
    <2>2. FieldOf(0) \in Field /\ FieldOf(2) \in Field /\ Zero \in Field
        BY <1>0, FieldTypes, RemoteConstants
    <2>3. scan' \in At /\ tmp' \in Tmp
        <3>1. CASE ReadId
            BY <1>0, <1>1, <2>2, <3>1 DEF ReadId
        <3>2. CASE ReadKey
            BY <1>0, <1>1, <2>2, <3>2 DEF ReadKey
        <3> QED
            BY <1>6, <3>1, <3>2 DEF Read
    <2> QED
        BY <1>0, <1>2, <2>1, <2>3 DEF RemoteTyped, RemoteType
<1>7. CASE Held
    <2>1. UNCHANGED <<sta, data, rising, line, air, torn, sent>>
        BY <1>7 DEF Held, Handlers
    <2>2. CASE Answer(tmp.res) /\ quiet' = [quiet EXCEPT !.seen = @ \/ quiet.ovf > 0]
        <3>1. quiet' \in Gap
            BY <1>3, <2>2
        <3> QED
            BY <1>0, <1>2, <1>4, <2>1, <2>2, <3>1
    <2>3. CASE scan' = "copy" /\ UNCHANGED <<tmp, printed, late, owed, quiet>>
        BY <1>0, <1>2, <2>1, <2>3 DEF RemoteTyped, RemoteType
    <2> QED
        BY <1>7, <2>2, <2>3 DEF Held
<1>8. CASE Copy
    <2>1. UNCHANGED <<quiet, printed, late, owed, sta, data, rising, line, air, torn, sent>>
          /\ scan' = "clear" /\ tmp' \in Tmp
        BY <1>0, <1>1, <1>8 DEF Copy, Handlers
    <2> QED
        BY <1>0, <1>2, <2>1 DEF RemoteTyped, RemoteType
<1>9. CASE ClearDone
    <2>1. UNCHANGED <<data, rising, line, air, sent>> /\ torn' \in BOOLEAN /\ Answer(tmp.res)
        BY <1>0, <1>9 DEF ClearDone
    <2>2. sta' \in Sta
        BY <1>1, <1>9 DEF ClearDone, Sta
    <2>3. quiet' \in Gap
        BY <1>3, <1>9 DEF ClearDone
    <2> QED
        BY <1>2, <1>4, <2>1, <2>2, <2>3
<1>10. CASE RemoteOff
    <2>1. quiet' \in Gap
        BY <1>10, RemoteConstants DEF RemoteOff
    <2>2. <<>> \in Seq(Kind) /\ <<>> \in Seq(Out) /\ <<>> \in Seq(Codes)
        OBVIOUS
    <2>3. sta' \in Sta /\ data' \in Data /\ tmp' \in Tmp /\ late' \in 0..Slack
        BY <1>10, RemoteConstants DEF RemoteOff
    <2> QED
        BY <1>10, <2>1, <2>2, <2>3 DEF RemoteOff, RemoteTyped, RemoteType, Sta, Data
<1> QED
    BY <1>5, <1>6, <1>7, <1>8, <1>9, <1>10 DEF Scan

LEMMA RemoteStart == RemoteInit => RemoteTyped
<1> SUFFICES ASSUME RemoteInit PROVE RemoteTyped
    OBVIOUS
<1>1. sta \in Sta /\ data \in Data /\ tmp \in [t1 : Field, res : Field, copy : Sta] /\ late \in 0..Slack
      /\ quiet \in [ovf : 0..MaxOvf + 2, seen : BOOLEAN]
    BY RemoteConstants DEF RemoteInit
<1>2. <<>> \in Seq(Kind) /\ <<>> \in Seq([code : Field, torn : BOOLEAN]) /\ <<>> \in Seq(Codes)
    OBVIOUS
<1> QED
    BY <1>1, <1>2 DEF RemoteInit, RemoteTyped, RemoteType, Sta, Data

-----------------------------------------------------------------------------
(* Types: the sequence.                                                    *)

StageType == stage \in Stage /\ second \in BOOLEAN /\ status \in SUBSET Key

LEMMA StageStep == StageType /\ [Next]_vars => StageType'
<1> SUFFICES ASSUME StageType, [Next]_vars PROVE StageType'
    OBVIOUS
<1>0. ASSUME stage' \in Stage, second' \in BOOLEAN, status' \in SUBSET Key PROVE StageType'
    BY <1>0 DEF StageType
<1>a. stage \in Stage /\ second \in BOOLEAN /\ status \in SUBSET Key
    BY DEF StageType
<1>b. {"magnetic", "calibration"} \subseteq Stage
    BY Acting DEF Stage
<1>c. stage \in Plain \cup Part \cup {"usb", "key", "remote", "magnetic", "wav", "sdram"}
          => Following(stage) \in Stage
    BY Acting, StagesGoOn
<1>1. CASE stage' = stage /\ UNCHANGED <<second, status>>
    BY <1>0, <1>1, <1>a
<1>2. CASE Debounce \/ Tester \/ Cable \/ OTG_FS_IRQHandler \/ TIM1_IRQHandlers \/ UNCHANGED vars
    BY <1>1, <1>2 DEF Debounce, Tester, Cable, OTG_FS_IRQHandler, TIM1_IRQHandlers, vars
<1>3. CASE PlainTest
    BY <1>0, <1>3, <1>a, <1>c, PlainLoops
<1>4. CASE usb_test
    BY <1>0, <1>4, <1>a, <1>c DEF usb_test
<1>5. CASE key_test
    BY <1>0, <1>5, <1>a DEF key_test
<1>6. CASE remote_test
    BY <1>0, <1>6, <1>a, <1>c DEF remote_test
<1>7. CASE st480mc_test
    BY <1>0, <1>7, <1>a, <1>b, <1>c DEF st480mc_test
<1>8. CASE compass_calibration
    BY <1>0, <1>8, <1>a, <1>b DEF compass_calibration
<1>9. CASE wav_test
    BY <1>0, <1>9, <1>a, <1>c DEF wav_test
<1>10. CASE sdram_test
    BY <1>0, <1>10, <1>a, <1>c DEF sdram_test
<1>11. CASE KeysTested
    BY <1>0, <1>11, <1>a, <1>c DEF KeysTested
<1>12. CASE PartReady
    BY <1>0, <1>12, <1>a, <1>c, WaitEnds
<1> QED
    BY <1>2, <1>3, <1>4, <1>5, <1>6, <1>7, <1>8, <1>9, <1>10, <1>11, <1>12 DEF Next, Main

LEMMA PartsStep == UsbType /\ RemoteTyped /\ [Next]_vars => UsbType' /\ RemoteTyped'
<1> SUFFICES ASSUME UsbType, RemoteTyped, [Next]_vars PROVE UsbType' /\ RemoteTyped'
    OBVIOUS
<1>u. ASSUME UNCHANGED UsbVars PROVE UsbType'
    BY <1>u DEF UsbVars, UsbType
<1>r. ASSUME UNCHANGED RemoteVars PROVE RemoteTyped'
    BY <1>r DEF RemoteVars, RemoteTyped, RemoteType
<1>1. CASE usb_test
    BY <1>1, <1>r, UsbTypeSteps DEF usb_test
<1>2. CASE OTG_FS_IRQHandler \/ Cable
    BY <1>2, <1>r, UsbTypeSteps DEF OTG_FS_IRQHandler, Cable
<1>3. CASE remote_test
    BY <1>3, <1>u, ScanTypes DEF remote_test
<1>4. CASE TIM1_IRQHandlers
    BY <1>4, <1>u, AirTypes DEF TIM1_IRQHandlers
<1>5. CASE Debounce \/ PlainTest \/ key_test \/ st480mc_test \/ compass_calibration
    BY <1>5, <1>u, <1>r, PlainLoops DEF Debounce, key_test, st480mc_test, compass_calibration
<1>6. CASE wav_test \/ sdram_test \/ KeysTested \/ PartReady \/ Tester
    BY <1>6, <1>u, <1>r, WaitEnds DEF wav_test, sdram_test, KeysTested, Tester
<1>7. CASE UNCHANGED vars
    BY <1>7, <1>u, <1>r DEF vars
<1> QED
    BY <1>1, <1>2, <1>3, <1>4, <1>5, <1>6, <1>7 DEF Next, Main

\* No counter of the acceptance sequence leaves its range and no field of a
\* frame the receiver's register, in any order of stages, interrupts and edges.
THEOREM AcceptanceTypes == Spec => []TypeOK
<1>1. Init => KeyInv /\ UsbType /\ RemoteTyped /\ StageType
    <2> SUFFICES ASSUME Init PROVE KeyInv /\ UsbType /\ RemoteTyped /\ StageType
        OBVIOUS
    <2>1. KeyInv
        BY KeyStart DEF Init
    <2>2. UsbType
        BY UsbStart DEF Init
    <2>3. RemoteTyped
        BY RemoteStart DEF Init
    <2>4. StageType
        <3>1. "24c02" \in Stage
            BY Acting DEF Part
        <3> QED
            BY <3>1 DEF Init, StageType
    <2> QED
        BY <2>1, <2>2, <2>3, <2>4
<1>2. KeyInv /\ UsbType /\ RemoteTyped /\ StageType => TypeOK
    <2>1. KeyInv => KeyType
        BY DEF KeyInv, KeyType
    <2> QED
        BY <2>1 DEF RemoteTyped, StageType, TypeOK
<1> QED
    BY <1>1, <1>2, KeyStep, PartsStep, StageStep, PTL DEF Spec

-----------------------------------------------------------------------------
(* The codes that remote_test prints.                                      *)

Current == sent[Len(sent)]
Previous == sent[Len(sent) - 1]

\* The bits behind n of the last frame are still to come.
Coming(n) ==
    /\ sent # <<>> /\ Len(air) = Whole - n
    /\ \A i \in 1..Whole - n : air[i] = Pulse[BitOf(Current, n + i) + 1]

\* The line, as long as no pulse was damaged: n bits of the last frame have come.
Ended ==
    \/ air = <<>> /\ line \in {Idle, Low, More}
    \/ air = <<More>> /\ line = Low
Begun == sent # <<>> /\ air = Frame(Current) /\ line = Low
Arriving(n) ==
    \/ Coming(n) /\ line = Low
    \/ Coming(n + 1) /\ line = Pulse[BitOf(Current, n + 1) + 1]
Progress(n) ==
    \/ n = Whole /\ Ended
    \/ n = 0 /\ (Begun \/ (Coming(0) /\ line = Lead))
    \/ n < Whole /\ Arriving(n)

\* The receiver saw each edge: a pulse that is high has risen, the bits come
\* after a lead, and no edge is left over when the idle line falls.
Edges(n) ==
    /\ line \in Kind => sta.rise
    /\ n < Whole /\ Arriving(n) => sta.lead
    /\ line = Idle /\ quiet.ovf > 0 => ~(sta.lead /\ sta.rise)

\* The register behind those bits: the rest of the frame before, or anything,
\* when nothing is said to be done before the frame has come.
Fresh == ~sta.done /\ (Begun => ~sta.lead)
Old(n) == Len(sent) > 1 /\ \A j \in 1..Whole - n : data[j] = BitOf(Previous, n + j)
Register(n) ==
    /\ sent # <<>> => \A j \in 1..n : data[Whole - n + j] = BitOf(Current, j)
    /\ n < Whole => Fresh \/ Old(n)

\* What a call of remote_scan has found is still in the register.
IdRight == FieldOf(0) = REMOTE_ID /\ FieldOf(1) = Inverse(REMOTE_ID)
Reads(n) ==
    scan \notin {"ask", "leave"} =>
        /\ sent # <<>> /\ (n < Whole => Old(n))
        /\ scan \in {"id", "id inverse", "key", "key inverse"} => tmp.res = Zero
        /\ scan = "id inverse" => tmp.t1 = FieldOf(0)
        /\ scan \in {"key", "key inverse"} => IdRight
        /\ scan = "key inverse" => tmp.t1 = FieldOf(2)
        /\ tmp.res = Zero \/ (IdRight /\ tmp.res = FieldOf(2))

\* The codes printed come from frames that have come whole.
Complete(n) == IF n = Whole THEN Len(sent) ELSE Len(sent) - 1
Sound == {i \in DOMAIN printed : ~printed[i].torn}
Places(n) ==
    \E place \in [Sound -> 1..Complete(n)] :
        /\ \A i \in Sound : printed[i].code = sent[place[i]]
        /\ \A i, j \in Sound : i < j =>
               IF i..j \subseteq Sound THEN place[i] < place[j] ELSE place[i] <= place[j]

Before == sent = <<>> => sta = Rest /\ scan = "ask" /\ line = Idle /\ air = <<>> /\ more = 0

CodesInv ==
    /\ damage \in Nat /\ Before
    /\ scan \in {"ask", "leave"} => tmp = Nothing
    /\ damage = 0 =>
         \E n \in 0..Whole :
            /\ Progress(n) /\ Places(n)
            /\ ~torn => Edges(n) /\ Register(n) /\ Reads(n)

(* A bit shifted into the register.                                        *)
LEMMA ShiftIn ==
    ASSUME data \in Data, NEW b \in Bit
    PROVE  /\ \A j \in 1..Whole - 1 : Append(Tail(data), b)[j] = data[j + 1]
           /\ Append(Tail(data), b)[Whole] = b
<1>1. data \in Seq(Bit) /\ Len(data) = Whole /\ Whole \in Nat \ {0}
    BY WholeType DEF Data
<1> DEFINE t == Tail(data)
<1>2. t \in Seq(Bit) /\ Len(t) = Whole - 1 /\ \A j \in 1..Whole - 1 : t[j] = data[j + 1]
    BY <1>1
<1> HIDE DEF t
<1>3. /\ \A j \in 1..Whole - 1 : Append(t, b)[j] = t[j]
      /\ Append(t, b)[Whole] = b
    BY <1>1, <1>2
<1> QED
    BY <1>2, <1>3 DEF t

(* What the falling edge after a high part does.                           *)
LEMMA FallDoes ==
    ASSUME sta \in Sta, data \in Data, NEW d \in Kind, CaptureFall(d)
    PROVE  /\ sta'.done = sta.done /\ ~sta'.rise /\ (sta.lead => sta'.lead)
           /\ ~sta.rise => sta'.lead = sta.lead
           /\ d = Lead /\ sta.rise => sta'.lead
           /\ d \in {Lead, More} => data' = data
           /\ ~(sta.rise /\ sta.lead) => data' = data
           /\ sta = Rest => sta' = Rest
           /\ \A b \in Bit : d = Pulse[b + 1] /\ sta.rise /\ sta.lead => data' = Append(Tail(data), b)
<1> DEFINE lead == sta.rise /\ sta.lead
           bit == CASE 300 < d /\ d < 800 -> {0} [] 1400 < d /\ d < 1800 -> {1} [] OTHER -> {}
           late1 == lead /\ 2000 < d /\ d < 3000
           begun == sta.lead \/ (sta.rise /\ 4200 < d /\ d < 4700)
<1>0. sta = [lead |-> sta.lead, done |-> sta.done, rise |-> sta.rise, ovf |-> sta.ovf]
      /\ sta.lead \in BOOLEAN /\ sta.done \in BOOLEAN /\ sta.rise \in BOOLEAN
    BY DEF Sta
<1>1. /\ sta' = [sta EXCEPT !.rise = FALSE, !.ovf = IF late1 THEN 0 ELSE @, !.lead = begun]
      /\ data' = (IF lead /\ bit # {} THEN Append(Tail(data), CHOOSE x \in bit : TRUE) ELSE data)
    BY <1>0 DEF CaptureFall
<1>2. sta' = [lead |-> begun, done |-> sta.done, rise |-> FALSE, ovf |-> IF late1 THEN 0 ELSE sta.ovf]
    BY <1>0, <1>1
<1>3. d = Lead => 4200 < d /\ d < 4700
    BY DEF Lead
<1>4. d \in {Lead, More} => bit = {}
    BY DEF Lead, More
<1>5. ASSUME NEW b \in Bit, d = Pulse[b + 1] PROVE bit = {b}
    <2>1. CASE b = 0
        <3>1. d = 560
            BY <1>5, <2>1 DEF Pulse
        <3> QED
            BY <2>1, <3>1
    <2>2. CASE b = 1
        <3>1. d = 1680
            BY <1>5, <2>2 DEF Pulse
        <3> QED
            BY <2>2, <3>1
    <2> QED
        BY <2>1, <2>2 DEF Bit
<1>6. sta = Rest => sta' = Rest
    <2>1. sta = Rest => ~late1 /\ begun = FALSE /\ sta.done = FALSE /\ sta.ovf = 0
        BY DEF Rest
    <2> HIDE DEF late1, begun
    <2> QED
        BY <1>2, <2>1 DEF Rest
<1> HIDE DEF bit, late1
<1>7. \A b \in Bit : (CHOOSE x \in {b} : TRUE) = b
    OBVIOUS
<1>8. \A b \in Bit : d = Pulse[b + 1] /\ sta.rise /\ sta.lead => data' = Append(Tail(data), b)
    BY <1>1, <1>5, <1>7
<1> QED
    BY <1>0, <1>1, <1>2, <1>3, <1>4, <1>6, <1>8

(* What a rising edge and an overflow do.                                  *)
LEMMA EdgeDoes ==
    ASSUME sta \in Sta
    PROVE  /\ CaptureRise => /\ sta'.rise /\ sta'.lead = sta.lead /\ sta'.done = sta.done
                             /\ data' = data
           /\ PeriodElapsed => IF sta.lead THEN ~sta'.rise ELSE sta' = sta
<1>1. CaptureRise => sta' = [lead |-> sta.lead, done |-> sta.done, rise |-> TRUE, ovf |-> sta.ovf]
    BY DEF CaptureRise, Sta
<1> QED
    BY <1>1 DEF CaptureRise, PeriodElapsed

(* When the idle line falls, no bit is taken and nothing is done.          *)
LEMMA LineFallsDoes ==
    ASSUME sta \in Sta, data \in Data, LineFalls
    PROVE  /\ ~(sta.lead /\ sta.rise) => data' = data
           /\ sta'.done = sta.done
           /\ sta = Rest => sta' = Rest
           /\ line' = Low /\ line = Idle /\ quiet.ovf > 0
<1>1. CASE UNCHANGED <<sta, data, rising>>
    BY <1>1 DEF LineFalls
<1>2. CASE \E d \in Kind : CaptureFall(d)
    BY <1>2, FallDoes DEF LineFalls
<1> QED
    BY <1>1, <1>2 DEF LineFalls

(* A register that passes for a frame of this remote, while one frame is   *)
(* shifted out and the next one in, holds one of them whole: in every      *)
(* other position a zero of an address stands where its inverse should.    *)
LEMMA WholeFrame ==
    ASSUME data \in Data, sent \in Seq(Codes), sent # <<>>, NEW n \in 0..Whole,
           \A j \in 1..n : data[Whole - n + j] = BitOf(Current, j),
           n < Whole => Old(n), IdRight
    PROVE  Complete(n) \in 1..Len(sent) /\ FieldOf(2) = sent[Complete(n)]
<1> DEFINE F == FieldLen
<1>0. F \in Nat \ {0} /\ Whole = 4 * F /\ Len(sent) \in Nat \ {0}
    BY WholeType
<1>1. \A p \in 1..Len(sent) : sent[p] \in Codes
    OBVIOUS
<1>2. \A j \in 1..F : data[j] = 0
    <2>1. FieldOf(0) = [k \in 1..F |-> data[0 * F + k]]
        BY FieldRead
    <2>2. ASSUME NEW j \in 1..F PROVE data[j] = 0
        <3>1. FieldOf(0)[j] = data[0 * F + j] /\ 0 * F + j = j
            BY <1>0, <2>1
        <3>2. FieldOf(0)[j] = 0
            BY DEF IdRight, REMOTE_ID, Zero
        <3> QED
            BY <3>1, <3>2
    <2> QED
        BY <2>2
<1>3. \A j \in 1..F : data[F + j] = 1
    <2>1. FieldOf(1) = [k \in 1..F |-> data[1 * F + k]]
        BY FieldRead
    <2>2. ASSUME NEW j \in 1..F PROVE data[F + j] = 1
        <3>1. FieldOf(1)[j] = data[1 * F + j] /\ 1 * F + j = F + j
            BY <1>0, <2>1
        <3>2. FieldOf(1) = [i \in 1..F |-> 1]
            BY DEF IdRight, REMOTE_ID, Zero, Inverse
        <3> QED
            BY <3>1, <3>2
    <2> QED
        BY <2>2
<1>4. FieldOf(2) = [k \in 1..F |-> data[2 * F + k]]
    BY FieldRead
<1>5. ASSUME NEW q \in Codes, \A k \in 1..F : data[2 * F + k] = BitOf(q, 2 * F + k)
      PROVE  FieldOf(2) = q
    <2>1. ASSUME NEW k \in 1..F PROVE data[2 * F + k] = q[k]
        <3> DEFINE p == 2 * F + k
        <3>1. p - 2 * F = k /\ ~(p <= F) /\ ~(p <= 2 * F) /\ p <= 3 * F
            BY <1>0
        <3>2. data[p] = BitOf(q, p)
            BY <1>5
        <3> HIDE DEF p
        <3>3. BitOf(q, p) = q[p - 2 * F]
            BY <3>1 DEF BitOf
        <3>4. data[p] = q[k]
            BY <3>1, <3>2, <3>3
        <3> QED
            BY <3>4 DEF p
    <2>2. q \in [1..F -> {0, 1}]
        BY AcceptanceAssumption
    <2>3. q = [k \in 1..F |-> q[k]]
        BY <2>2
    <2> QED
        BY <1>4, <2>1, <2>3
<1>6. CASE n = Whole
    <2>1. ASSUME NEW k \in 1..F PROVE data[2 * F + k] = BitOf(Current, 2 * F + k)
        <3>1. 2 * F + k \in 1..n /\ Whole - n + (2 * F + k) = 2 * F + k
            BY <1>0, <1>6
        <3> QED
            BY <3>1
    <2>2. Current \in Codes
        BY <1>0, <1>1 DEF Current
    <2> QED
        BY <1>0, <1>5, <1>6, <2>1, <2>2 DEF Complete, Current
<1>7. CASE n # Whole
    <2>0. n < Whole /\ Old(n)
        BY <1>0, <1>7
    <2>1. Len(sent) - 1 \in 1..Len(sent) /\ Previous \in Codes
          /\ \A j \in 1..Whole - n : data[j] = BitOf(Previous, n + j)
        BY <1>0, <1>1, <2>0 DEF Old, Previous
    <2>2. CASE n = 0
        <3>1. ASSUME NEW k \in 1..F PROVE data[2 * F + k] = BitOf(Previous, 2 * F + k)
            <4>1. 2 * F + k \in 1..Whole - n /\ n + (2 * F + k) = 2 * F + k
                BY <1>0, <2>2
            <4> QED
                BY <2>1, <4>1
        <3>2. Complete(n) = Len(sent) - 1
            BY <1>7 DEF Complete
        <3>3. FieldOf(2) = Previous
            BY <1>5, <2>1, <3>1
        <3> QED
            BY <2>1, <3>2, <3>3 DEF Previous
    <2>3. CASE n \in 1..F
        <3>1. F \in 1..Whole - n /\ n + F \in F+1..2 * F
            BY <1>0, <2>3
        <3>2. BitOf(Previous, n + F) = 1
            BY <1>0, <3>1 DEF BitOf
        <3>3. data[F] = BitOf(Previous, n + F)
            BY <2>1, <3>1
        <3>4. F \in 1..F
            BY <1>0
        <3> QED
            BY <1>2, <3>2, <3>3, <3>4
    <2>4. CASE n \in F+1..2*F-1
        <3>1. 1 \in 1..Whole - n /\ 1 \in 1..F /\ n + 1 \in F+1..2 * F
            BY <1>0, <2>4
        <3>2. BitOf(Previous, n + 1) = 1
            BY <1>0, <3>1 DEF BitOf
        <3> QED
            BY <1>2, <2>1, <3>1, <3>2
    <2>5. CASE n = 2 * F
        <3>1. ASSUME NEW k \in 1..F PROVE Previous[k] = 0
            <4> DEFINE p == n + k
            <4>1. k \in 1..Whole - n /\ p - 2 * F = k /\ ~(p <= F) /\ ~(p <= 2 * F) /\ p <= 3 * F
                BY <1>0, <2>5
            <4>2. data[k] = BitOf(Previous, p)
                BY <2>1, <4>1
            <4> HIDE DEF p
            <4>3. BitOf(Previous, p) = Previous[p - 2 * F]
                BY <4>1 DEF BitOf
            <4> QED
                BY <1>2, <4>1, <4>2, <4>3
        <3>2. Previous \in [1..F -> {0, 1}]
            BY <2>1, AcceptanceAssumption
        <3>3. Previous = [i \in 1..F |-> 0]
            BY <3>1, <3>2
        <3> QED
            BY <2>1, <3>3, AcceptanceAssumption
    <2>6. CASE n \in 2*F+1..3*F
        <3>1. n - 2 * F \in 1..n /\ n - 2 * F <= F /\ Whole - n + (n - 2 * F) = 2 * F /\ F \in 1..F
              /\ F + F = 2 * F
            BY <1>0, <2>6
        <3>2. BitOf(Current, n - 2 * F) = 0
            BY <3>1 DEF BitOf
        <3> QED
            BY <1>3, <3>1, <3>2
    <2>7. CASE n \in 3*F+1..Whole-1
        <3>1. n - 3 * F + 1 \in 1..n /\ n - 3 * F + 1 <= F
              /\ Whole - n + (n - 3 * F + 1) = F + 1 /\ 1 \in 1..F
            BY <1>0, <2>7
        <3>2. BitOf(Current, n - 3 * F + 1) = 0
            BY <3>1 DEF BitOf
        <3> QED
            BY <1>3, <3>1, <3>2
    <2> QED
        BY <1>0, <2>0, <2>2, <2>3, <2>4, <2>5, <2>6, <2>7
<1> QED
    BY <1>6, <1>7

(* What the line tells of a frame under way.                               *)
LEMMA CurrentCode ==
    ASSUME sent \in Seq(Codes), sent # <<>>
    PROVE  /\ Current \in Codes /\ Len(sent) \in Nat \ {0}
           /\ \A p \in 1..Whole : BitOf(Current, p) \in Bit
                                  /\ Pulse[BitOf(Current, p) + 1] \in {560, 1680}
<1>1. Current \in Codes /\ Len(sent) \in Nat \ {0}
    BY DEF Current
<1>2. \A p \in 1..Whole : BitOf(Current, p) \in Bit
    BY <1>1, BitType
<1>3. \A b \in Bit : Pulse[b + 1] \in {560, 1680}
    BY DEF Bit, Pulse
<1> QED
    BY <1>1, <1>2, <1>3

LEMMA LineSays ==
    ASSUME RemoteTyped, NEW n \in 0..Whole, Progress(n)
    PROVE  /\ line = Idle => n = Whole /\ air = <<>>
           /\ line = Low /\ air = <<>> => n = Whole
           /\ line = Low /\ air # <<>> =>
                 \/ n = Whole /\ air = <<More>>
                 \/ n = 0 /\ Begun
                 \/ n < Whole /\ Coming(n)
           /\ line = More => n = Whole /\ air = <<>>
           /\ line = Lead => n = 0 /\ Coming(0)
           /\ line \in Kind \ {Lead, More} =>
                 n < Whole /\ Coming(n + 1) /\ line = Pulse[BitOf(Current, n + 1) + 1]
<1>0. Whole \in Nat \ {0} /\ sent \in Seq(Codes) /\ air \in Seq(Kind)
    BY WholeType DEF RemoteTyped, RemoteType
<1>1. CASE n = Whole /\ Ended
    <2>1. <<More>> # <<>>
        OBVIOUS
    <2> QED
        BY <1>1, <2>1 DEF Ended, Idle, Low, More, Lead, Kind, Pulse, Stray
<1>2. CASE n = 0 /\ Begun
    <2>1. air = Frame(Current) /\ line = Low /\ Len(air) = Whole + 1
        BY <1>0, <1>2, CurrentCode, FrameBits DEF Begun
    <2>2. air # <<>>
        BY <1>0, <2>1
    <2> QED
        BY <1>2, <2>1, <2>2 DEF Idle, Low, More, Lead, Kind, Pulse, Stray
<1>3. CASE n = 0 /\ Coming(0) /\ line = Lead
    BY <1>3 DEF Idle, Low, More, Lead
<1>4. CASE n < Whole /\ Coming(n) /\ line = Low
    <2>1. air # <<>>
        BY <1>0, <1>4 DEF Coming
    <2> QED
        BY <1>4, <2>1 DEF Idle, Low, More, Lead, Kind, Pulse, Stray
<1>5. CASE n < Whole /\ Coming(n + 1) /\ line = Pulse[BitOf(Current, n + 1) + 1]
    <2>1. n + 1 \in 1..Whole /\ sent # <<>>
        BY <1>0, <1>5 DEF Coming
    <2>2. line \in {560, 1680}
        BY <1>0, <1>5, <2>1, CurrentCode
    <2> QED
        BY <1>5, <2>2 DEF Idle, Low, More, Lead
<1> QED
    BY <1>1, <1>2, <1>3, <1>4, <1>5 DEF Progress, Arriving

(* The next pulse of a frame.                                              *)
LEMMA NextPulse ==
    ASSUME RemoteTyped, NEW n \in 0..Whole, air' = Tail(air), sent' = sent
    PROVE  /\ Begun => Head(air) = Lead /\ Coming(0)'
           /\ Coming(n) /\ n < Whole =>
                 Head(air) = Pulse[BitOf(Current, n + 1) + 1] /\ Coming(n + 1)'
<1>0. Whole \in Nat \ {0} /\ sent \in Seq(Codes) /\ air \in Seq(Kind) /\ Len(air) \in Nat
      /\ Current' = Current
    <2>1. Whole \in Nat \ {0} /\ sent \in Seq(Codes) /\ air \in Seq(Kind)
        BY WholeType DEF RemoteTyped, RemoteType
    <2>2. Current' = Current
        BY DEF Current
    <2> QED
        BY <2>1, <2>2
<1>1. air # <<>> => /\ Head(air) = air[1] /\ Len(air') = Len(air) - 1
                    /\ \A i \in 1..Len(air) - 1 : air'[i] = air[i + 1]
    BY <1>0
<1>2. ASSUME Begun PROVE Head(air) = Lead /\ Coming(0)'
    <2>1. /\ sent # <<>> /\ air = Frame(Current) /\ Len(air) = Whole + 1 /\ air[1] = Lead
          /\ \A i \in 1..Whole : air[i + 1] = Pulse[BitOf(Current, i) + 1]
        BY <1>0, <1>2, CurrentCode, FrameBits DEF Begun
    <2>2. air # <<>>
        BY <1>0, <2>1
    <2>3. Len(air') = Whole /\ \A i \in 1..Whole : air'[i] = Pulse[BitOf(Current, i) + 1]
        BY <1>0, <1>1, <2>1, <2>2
    <2>4. Len(air') = Whole - 0 /\ \A i \in 1..Whole - 0 : 0 + i = i /\ i \in 1..Whole
        BY <1>0, <2>3
    <2>5. \A i \in 1..Whole - 0 : air'[i] = Pulse[BitOf(Current, 0 + i) + 1]
        BY <2>3, <2>4
    <2> QED
        BY <1>0, <1>1, <2>1, <2>2, <2>4, <2>5 DEF Coming
<1>3. ASSUME Coming(n), n < Whole
      PROVE  Head(air) = Pulse[BitOf(Current, n + 1) + 1] /\ Coming(n + 1)'
    <2>1. /\ sent # <<>> /\ Len(air) = Whole - n
          /\ \A i \in 1..Whole - n : air[i] = Pulse[BitOf(Current, n + i) + 1]
        BY <1>3 DEF Coming
    <2>2. air # <<>> /\ 1 \in 1..Whole - n
        BY <1>0, <1>3, <2>1
    <2>3. Head(air) = Pulse[BitOf(Current, n + 1) + 1] /\ Len(air') = Whole - (n + 1)
        BY <1>0, <1>1, <2>1, <2>2
    <2>4. ASSUME NEW i \in 1..Whole - (n + 1)
          PROVE  air'[i] = Pulse[BitOf(Current, n + 1 + i) + 1]
        <3>1. i + 1 \in 1..Whole - n /\ i \in 1..Len(air) - 1 /\ n + (i + 1) = n + 1 + i
            BY <1>0, <1>3, <2>1
        <3>2. air'[i] = air[i + 1] /\ air[i + 1] = Pulse[BitOf(Current, n + (i + 1)) + 1]
            BY <1>1, <2>1, <2>2, <3>1
        <3> QED
            BY <3>1, <3>2
    <2> QED
        BY <1>0, <2>1, <2>3, <2>4 DEF Coming
<1> QED
    BY <1>2, <1>3

(* The codes printed keep their frames.                                    *)
LEMMA PlacesKeep ==
    ASSUME NEW n \in 0..Whole, NEW m \in 0..Whole, printed' = printed, Places(n),
           sent \in Seq(Codes), sent' \in Seq(Codes), Complete(n) <= Complete(m)',
           \A p \in 1..Complete(n) : sent'[p] = sent[p]
    PROVE  Places(m)'
<1>1. Complete(n) \in Int /\ Complete(m)' \in Int
    <2>1. Len(sent) \in Nat /\ Len(sent') \in Nat
        OBVIOUS
    <2> QED
        BY <2>1 DEF Complete
<1>2. PICK place \in [Sound -> 1..Complete(n)] :
          /\ \A i \in Sound : printed[i].code = sent[place[i]]
          /\ \A i, j \in Sound : i < j =>
                 IF i..j \subseteq Sound THEN place[i] < place[j] ELSE place[i] <= place[j]
    BY DEF Places
<1>3. Sound' = Sound
    BY DEF Sound
<1>4. place \in [Sound' -> 1..Complete(m)']
    BY <1>1, <1>3
<1>5. \A i \in Sound' : printed'[i].code = sent'[place[i]]
    BY <1>2, <1>3
<1> QED
    BY <1>2, <1>3, <1>4, <1>5 DEF Places

(* A code printed that comes from the last frame that has come whole.      *)
LEMMA Printed ==
    ASSUME RemoteTyped, NEW n \in 0..Whole, Places(n), Answer(tmp.res), sent' = sent,
           ~torn /\ tmp.res # Zero =>
               Complete(n) \in 1..Len(sent) /\ tmp.res = sent[Complete(n)]
    PROVE  Places(n)'
<1> DEFINE one == [code |-> tmp.res, torn |-> torn]
           m == Len(printed)
<1>0. /\ sent \in Seq(Codes) /\ Len(sent) \in Nat /\ Complete(n)' = Complete(n) /\ Complete(n) \in Int
      /\ printed \in Seq([code : Field, torn : BOOLEAN]) /\ m \in Nat
      /\ DOMAIN printed = 1..m
    <2> DEFINE Out == [code : Field, torn : BOOLEAN]
    <2>1. sent \in Seq(Codes) /\ printed \in Seq(Out)
        BY DEF RemoteTyped, RemoteType
    <2>2. Complete(n)' = Complete(n)
        BY DEF Complete
    <2> HIDE DEF Out
    <2>3. Len(sent) \in Nat /\ m \in Nat /\ DOMAIN printed = 1..m
        BY <2>1
    <2>4. Complete(n) \in Int
        BY <2>3 DEF Complete
    <2> QED
        BY <2>1, <2>2, <2>3, <2>4 DEF Out
<1>1. CASE printed' = printed
    BY <1>0, <1>1, PlacesKeep
<1>2. CASE /\ printed' = Append(printed, one) /\ tmp.res # Zero
           /\ printed = <<>> \/ printed[m].code # tmp.res
    <2>1. /\ DOMAIN printed' = 1..m + 1 /\ \A i \in 1..m : printed'[i] = printed[i]
          /\ printed'[m + 1] = one
        BY <1>0, <1>2
    <2>2. PICK place \in [Sound -> 1..Complete(n)] :
              /\ \A i \in Sound : printed[i].code = sent[place[i]]
              /\ \A i, j \in Sound : i < j =>
                     IF i..j \subseteq Sound THEN place[i] < place[j] ELSE place[i] <= place[j]
        BY DEF Places
    <2>3. Sound \subseteq 1..m /\ Sound' = {i \in 1..m + 1 : ~printed'[i].torn}
        BY <1>0, <2>1 DEF Sound
    <2>4. \A i \in 1..m : i \in Sound' <=> i \in Sound
        BY <1>0, <2>1, <2>3 DEF Sound
    <2>5. m + 1 \in Sound' <=> ~torn
        BY <1>0, <2>1, <2>3
    <2>6. ASSUME NEW i \in 1..m, NEW j \in 1..m
          PROVE  i..j \subseteq Sound' <=> i..j \subseteq Sound
        <3>1. i..j \subseteq 1..m
            BY <1>0
        <3> QED
            BY <2>4, <3>1
    <2>7. CASE torn
        <3>1. Sound' = Sound
            BY <1>0, <2>3, <2>4, <2>5, <2>7
        <3>2. \A i \in Sound' : printed'[i].code = sent'[place[i]]
            BY <2>1, <2>2, <2>3, <3>1
        <3> QED
            BY <1>0, <2>2, <3>1, <3>2 DEF Places
    <2>8. CASE ~torn
        <3> DEFINE c == Complete(n)
                   new == [i \in Sound' |-> IF i = m + 1 THEN c ELSE place[i]]
        <3>0. c \in 1..Len(sent) /\ tmp.res = sent[c] /\ c \in Int
            BY <1>0, <1>2, <2>8
        <3>1. \A i \in Sound' : i = m + 1 \/ (i \in 1..m /\ i \in Sound)
            BY <1>0, <2>3, <2>4
        <3>2. new \in [Sound' -> 1..Complete(n)']
            <4>1. \A i \in Sound : place[i] \in 1..c
                OBVIOUS
            <4> QED
                BY <1>0, <3>0, <3>1, <4>1
        <3>3. ASSUME NEW i \in Sound' PROVE printed'[i].code = sent'[new[i]]
            <4>1. CASE i = m + 1
                BY <2>1, <3>0, <4>1
            <4>2. CASE i \in 1..m /\ i \in Sound
                <5>1. i # m + 1
                    BY <1>0, <4>2
                <5> QED
                    BY <2>1, <2>2, <4>2, <5>1
            <4> QED
                BY <3>1, <4>1, <4>2
        <3>4. ASSUME NEW i \in Sound', NEW j \in Sound', i < j
              PROVE  IF i..j \subseteq Sound' THEN new[i] < new[j] ELSE new[i] <= new[j]
            <4>1. i \in 1..m /\ i \in Sound /\ new[i] = place[i] /\ place[i] \in 1..c
                BY <1>0, <3>1, <3>4, <2>3
            <4>2. CASE j \in 1..m /\ j \in Sound
                <5>1. new[j] = place[j]
                    BY <1>0, <4>2
                <5> QED
                    BY <2>2, <2>6, <3>4, <4>1, <4>2, <5>1
            <4>3. CASE j = m + 1
                <5>1. new[j] = c
                    BY <4>3
                <5>2. ASSUME i..j \subseteq Sound' PROVE place[i] < c
                    <6>1. m \in i..j /\ m \in 1..m /\ i <= m
                        BY <1>0, <4>1, <4>3
                    <6>2. m \in Sound /\ place[m] \in 1..c
                        BY <2>4, <5>2, <6>1
                    <6>3. printed # <<>>
                        BY <1>0, <6>1
                    <6>4. place[m] # c
                        BY <1>2, <2>2, <3>0, <6>2, <6>3
                    <6>5. place[m] < c
                        BY <3>0, <6>2, <6>4
                    <6>6. CASE i = m
                        BY <6>5, <6>6
                    <6>7. CASE i # m
                        <7>0. i \in Int /\ m \in Int /\ j = m + 1
                            BY <1>0, <4>1, <4>3
                        <7>1. i < m /\ i..m \subseteq i..j
                            BY <7>0, <6>1, <6>7
                        <7>2. i..m \subseteq Sound
                            BY <2>6, <4>1, <5>2, <6>1, <7>1
                        <7>3. place[i] < place[m]
                            BY <2>2, <4>1, <6>2, <7>1, <7>2
                        <7> QED
                            BY <3>0, <4>1, <6>2, <6>5, <7>3
                    <6> QED
                        BY <6>6, <6>7
                <5>3. place[i] <= c
                    BY <3>0, <4>1
                <5> QED
                    BY <4>1, <5>1, <5>2, <5>3
            <4> QED
                BY <3>1, <4>2, <4>3
        <3> HIDE DEF new
        <3> QED
            BY <3>2, <3>3, <3>4 DEF Places
    <2> QED
        BY <2>7, <2>8
<1> QED
    BY <1>1, <1>2 DEF Answer

(* What a step that leaves the line, the register or the call alone keeps. *)
LEMMA SameLine ==
    ASSUME NEW n \in 0..Whole, UNCHANGED <<line, air, sent>>
    PROVE  /\ Progress(n)' <=> Progress(n)
           /\ Begun' <=> Begun
           /\ Arriving(n)' <=> Arriving(n)
<1>1. Current' = Current
    BY DEF Current
<1>2. Begun' <=> Begun
    BY <1>1 DEF Begun
<1>3. Coming(n)' <=> Coming(n)
    BY <1>1 DEF Coming
<1>4. Coming(n + 1)' <=> Coming(n + 1)
    BY <1>1 DEF Coming
<1>5. Coming(0)' <=> Coming(0)
    BY <1>1 DEF Coming
<1>6. Arriving(n)' <=> Arriving(n)
    BY <1>1, <1>3, <1>4 DEF Arriving
<1>7. Ended' <=> Ended
    BY DEF Ended
<1> QED
    BY <1>2, <1>5, <1>6, <1>7 DEF Progress

LEMMA RegisterKeeps ==
    ASSUME NEW n \in 0..Whole, UNCHANGED <<data, sent>>, Register(n), Fresh => Fresh' \/ n = Whole
    PROVE  Register(n)'
<1>1. Current' = Current /\ Previous' = Previous
    BY DEF Current, Previous
<1>2. Old(n) => Old(n)'
    BY <1>1 DEF Old
<1>3. n < Whole => n # Whole
    BY WholeType
<1> QED
    BY <1>1, <1>2, <1>3 DEF Register

LEMMA ReadsKeep ==
    ASSUME NEW n \in 0..Whole, NEW m \in 0..Whole, UNCHANGED <<data, scan, tmp>>, Reads(n),
           scan \notin {"ask", "leave"} => sent' # <<>> /\ (m < Whole => Old(m)')
    PROVE  Reads(m)'
<1>1. ASSUME NEW i \in 0..3 PROVE FieldOf(i)' = FieldOf(i)
    BY DEF FieldOf
<1>2. IdRight' <=> IdRight
    BY <1>1 DEF IdRight
<1>3. FieldOf(0)' = FieldOf(0) /\ FieldOf(2)' = FieldOf(2)
    BY <1>1
<1> QED
    BY <1>2, <1>3 DEF Reads

(* A call goes on undisturbed.                                             *)
LEMMA CallGoesOn ==
    ASSUME NEW n \in 0..Whole, UNCHANGED <<data, scan, tmp, sent>>, Reads(n)
    PROVE  Reads(n)'
<1>1. Old(n) => Old(n)'
    BY DEF Old, Previous
<1> QED
    BY <1>1, ReadsKeep DEF Reads

LEMMA SamePlaces ==
    ASSUME RemoteTyped, NEW n \in 0..Whole, UNCHANGED <<sent, printed>>, Places(n)
    PROVE  Places(n)'
<1>0. sent \in Seq(Codes)
    BY DEF RemoteTyped, RemoteType
<1>1. sent \in Seq(Codes) /\ Len(sent) \in Nat
    BY <1>0
<1>2. Complete(n)' = Complete(n) /\ Complete(n) \in Int
    BY <1>1 DEF Complete
<1> QED
    BY <1>1, <1>2, PlacesKeep

(* Before its first frame the receiver is at rest.                         *)
LEMMA BeforeKeeps == RemoteTyped /\ CodesInv /\ (Air \/ Scan) => Before' /\ damage' \in Nat
<1> SUFFICES ASSUME RemoteTyped, CodesInv, Air \/ Scan PROVE Before' /\ damage' \in Nat
    OBVIOUS
<1>0. Before /\ damage \in Nat /\ sent \in Seq(Codes) /\ sta \in Sta
    BY DEF CodesInv, RemoteTyped, RemoteType, Sta
<1>1. ASSUME NEW code \in Codes, Send(code) PROVE Before' /\ damage' \in Nat
    <2>1. sent' = Append(sent, code) /\ damage' = damage
        BY <1>1 DEF Send
    <2>2. sent' # <<>>
        BY <1>0, <2>1
    <2> QED
        BY <1>0, <2>1, <2>2 DEF Before
<1>2. CASE SendMore
    BY <1>0, <1>2 DEF SendMore, Before
<1>3. CASE Rise
    BY <1>0, <1>3 DEF Rise, Before, Low, Idle
<1>4. CASE Fall
    BY <1>0, <1>4 DEF Fall, Before, Idle, Kind, Pulse, Lead, More, Stray
<1>5. CASE Overflow
    <2>1. sta = Rest => sta' = sta
        BY <1>0, <1>5, EdgeDoes DEF Overflow, Rest
    <2>2. UNCHANGED <<line, air, sent, more, damage, scan>>
        BY <1>5 DEF Overflow
    <2> QED
        BY <1>0, <2>1, <2>2 DEF Before
<1>6. CASE Scan
    <2>1. UNCHANGED <<line, air, sent, more, damage>>
        BY <1>6 DEF Scan, Look, Read, Held, Copy, ClearDone, Handlers
    <2>2. scan = "ask" => Look
        BY <1>6 DEF Scan, Read, ReadId, ReadKey, Held, Copy, ClearDone
    <2>3. Look /\ sta = Rest => scan' = "ask" /\ sta' = sta
        BY DEF Look, Rest, Handlers
    <2> QED
        BY <1>0, <2>1, <2>2, <2>3 DEF Before
<1> QED
    BY <1>1, <1>2, <1>3, <1>4, <1>5, <1>6 DEF Air

(* A step after which the frames and the register still agree.             *)
LEMMA CodesFrom ==
    ASSUME NEW m \in 0..Whole, Before', damage' \in Nat, scan' \in {"ask", "leave"} => tmp' = Nothing,
           Progress(m)', Places(m)', ~torn' => Edges(m)' /\ Register(m)' /\ Reads(m)'
    PROVE  CodesInv'
BY DEF CodesInv

LEMMA NoFrame ==
    ASSUME NEW m \in 0..Whole, RemoteTyped
    PROVE  /\ Begun => ~Arriving(0)
           /\ Coming(m) => ~Begun
           /\ line # Low => ~Begun
<1>0. sent \in Seq(Codes)
    BY DEF RemoteTyped, RemoteType
<1>1. ASSUME Begun PROVE Len(air) = Whole + 1
    <2>1. sent # <<>> /\ air = Frame(Current)
        BY <1>1 DEF Begun
    <2>2. Current \in Codes
        BY <1>0, <2>1, CurrentCode
    <2> QED
        BY <2>1, <2>2, FrameBits
<1>2. Coming(m) => Len(air) = Whole - m
    BY DEF Coming
<1>3. Coming(0) => Len(air) = Whole
    BY WholeType DEF Coming
<1>4. Coming(0 + 1) => Len(air) = Whole - 1
    BY WholeType DEF Coming
<1> QED
    BY <1>1, <1>2, <1>3, <1>4, WholeType DEF Begun, Arriving

(* What the types say that the steps below need.                           *)
LEMMA TypesSay ==
    ASSUME RemoteTyped
    PROVE  /\ sta \in Sta /\ data \in Data /\ sent \in Seq(Codes) /\ air \in Seq(Kind)
           /\ Whole \in Nat \ {0} /\ 0 \in 0..Whole /\ Whole \in 0..Whole
<1>1. sta \in Sta /\ data \in Data
    BY DEF RemoteTyped, RemoteType, Sta, Data
<1>2. sent \in Seq(Codes) /\ air \in Seq(Kind)
    BY DEF RemoteTyped, RemoteType
<1>3. Whole \in Nat \ {0} /\ 0 \in 0..Whole /\ Whole \in 0..Whole
    BY WholeType
<1> QED
    BY <1>1, <1>2, <1>3

(* A key pressed: the frame before it is whole in the register, or the     *)
(* receiver was at rest.                                                   *)
LEMMA SendKeeps ==
    ASSUME RemoteTyped, RemoteTyped', CodesInv, NEW code \in Codes, Send(code)
    PROVE  CodesInv'
<1>0. /\ sta \in Sta /\ data \in Data /\ sent \in Seq(Codes) /\ sent' \in Seq(Codes)
      /\ Whole \in Nat \ {0} /\ 0 \in 0..Whole /\ Whole \in 0..Whole
    BY TypesSay DEF RemoteTyped, RemoteType
<1>1. /\ UNCHANGED <<scan, tmp, printed, damage>>
      /\ line = Idle /\ quiet.ovf > 0 /\ line' = Low
      /\ air' = Frame(code) /\ sent' = Append(sent, code)
      /\ ~(sta.lead /\ sta.rise) => data' = data
      /\ sta = Rest => sta' = Rest
      /\ IF sta = Rest /\ scan = "ask" THEN torn' = FALSE ELSE torn' = torn
    BY <1>0, LineFallsDoes DEF Send
<1>2. Before' /\ damage' \in Nat
    BY BeforeKeeps DEF Air
<1> SUFFICES ASSUME damage = 0 PROVE CodesInv'
    BY <1>1, <1>2 DEF CodesInv
<1>3. Progress(Whole) /\ Places(Whole) /\ (~torn => Edges(Whole) /\ Register(Whole) /\ Reads(Whole))
    <2>1. PICK n \in 0..Whole :
              Progress(n) /\ Places(n) /\ (~torn => Edges(n) /\ Register(n) /\ Reads(n))
        BY DEF CodesInv
    <2>2. n = Whole
        BY <1>1, <2>1, LineSays
    <2> QED
        BY <2>1, <2>2
<1>4. /\ Len(sent) \in Nat /\ Len(sent') = Len(sent) + 1 /\ sent' # <<>>
      /\ sent'[Len(sent')] = code /\ \A p \in 1..Len(sent) : sent'[p] = sent[p]
    BY <1>0, <1>1
<1>5. Begun'
    BY <1>1, <1>4 DEF Begun, Current
<1>6. Progress(0)' /\ ~Arriving(0)'
    <2>1. Len(air') = Whole + 1
        BY <1>1, FrameBits
    <2>2. Coming(0)' => Len(air') = Whole - 0
        BY DEF Coming
    <2>3. Coming(0 + 1)' => Len(air') = Whole - (0 + 1)
        BY DEF Coming
    <2>4. ~Arriving(0)'
        BY <1>0, <2>1, <2>2, <2>3 DEF Arriving
    <2> QED
        BY <1>5, <2>4 DEF Progress
<1>7. Places(0)'
    <2>1. Complete(Whole) = Len(sent) /\ Complete(0)' = Len(sent)
        BY <1>0, <1>4 DEF Complete
    <2> QED
        BY <1>0, <1>1, <1>3, <1>4, <2>1, PlacesKeep
<1>8. ASSUME ~torn' PROVE Edges(0)' /\ Register(0)' /\ Reads(0)'
    <2>1. Edges(0)'
        BY <1>1, <1>6 DEF Edges, Low, Idle, Kind, Pulse, Lead, More, Stray
    <2>2. \A j \in 1..0 : FALSE
        OBVIOUS
    <2>3. CASE sta = Rest /\ scan = "ask"
        <3>1. Fresh'
            BY <1>1, <2>3 DEF Fresh, Rest
        <3> QED
            BY <1>1, <2>1, <2>2, <2>3, <3>1 DEF Register, Reads
    <2>4. CASE ~(sta = Rest /\ scan = "ask")
        <3>1. sent # <<>> /\ Edges(Whole) /\ Register(Whole) /\ Reads(Whole)
            BY <1>1, <1>3, <1>8, <2>4 DEF CodesInv, Before
        <3>2. data' = data
            BY <1>1, <3>1 DEF Edges
        <3>3. Old(0)'
            <4>1. Len(sent) # 0 /\ Len(sent') - 1 = Len(sent) /\ Len(sent') > 1
                BY <1>0, <1>4, <3>1
            <4>2. Previous' = Current
                BY <1>4, <4>1 DEF Previous, Current
            <4>3. ASSUME NEW j \in 1..Whole - 0 PROVE data'[j] = BitOf(Previous', 0 + j)
                <5>1. j \in 1..Whole /\ Whole - Whole + j = j /\ 0 + j = j
                    BY <1>0
                <5>2. data[Whole - Whole + j] = BitOf(Current, j)
                    BY <3>1, <5>1 DEF Register
                <5> QED
                    BY <3>2, <4>2, <5>1, <5>2
            <4> QED
                BY <4>1, <4>3 DEF Old
        <3>4. Register(0)'
            BY <2>2, <3>3 DEF Register
        <3>5. Reads(0)'
            BY <1>0, <1>1, <1>4, <3>1, <3>2, <3>3, ReadsKeep
        <3> QED
            BY <2>1, <3>4, <3>5
    <2> QED
        BY <2>3, <2>4
<1> QED
    BY <1>0, <1>1, <1>2, <1>6, <1>7, <1>8, CodesFrom DEF CodesInv

(* A key held: a More shifts nothing in.                                   *)
LEMMA SendMoreKeeps ==
    ASSUME RemoteTyped, RemoteTyped', CodesInv, SendMore
    PROVE  CodesInv'
<1>0. sta \in Sta /\ data \in Data /\ Whole \in Nat \ {0} /\ Whole \in 0..Whole
    BY TypesSay
<1>1. /\ UNCHANGED <<scan, tmp, printed, torn, sent, damage>>
      /\ line = Idle /\ quiet.ovf > 0 /\ line' = Low /\ air' = <<More>>
      /\ ~(sta.lead /\ sta.rise) => data' = data
    BY <1>0, LineFallsDoes DEF SendMore
<1>2. Before' /\ damage' \in Nat
    BY BeforeKeeps DEF Air
<1> SUFFICES ASSUME damage = 0 PROVE CodesInv'
    BY <1>1, <1>2 DEF CodesInv
<1>3. Progress(Whole) /\ Places(Whole) /\ (~torn => Edges(Whole) /\ Register(Whole) /\ Reads(Whole))
    <2>1. PICK n \in 0..Whole :
              Progress(n) /\ Places(n) /\ (~torn => Edges(n) /\ Register(n) /\ Reads(n))
        BY DEF CodesInv
    <2>2. n = Whole
        BY <1>1, <2>1, LineSays
    <2> QED
        BY <2>1, <2>2
<1>4. Progress(Whole)'
    BY <1>1 DEF Progress, Ended
<1>5. Places(Whole)'
    BY <1>0, <1>1, <1>3, SamePlaces
<1>6. ASSUME ~torn' PROVE Edges(Whole)' /\ Register(Whole)' /\ Reads(Whole)'
    <2>1. Edges(Whole) /\ Register(Whole) /\ Reads(Whole) /\ data' = data
        BY <1>1, <1>3, <1>6 DEF Edges
    <2>2. Edges(Whole)'
        BY <1>0, <1>1 DEF Edges, Low, Idle, Kind, Pulse, Lead, More, Stray
    <2> QED
        BY <1>0, <1>1, <2>1, <2>2, RegisterKeeps, CallGoesOn
<1> QED
    BY <1>0, <1>1, <1>2, <1>4, <1>5, <1>6, CodesFrom DEF CodesInv

(* The line rises: nothing is shifted in.                                  *)
LEMMA RiseKeeps ==
    ASSUME RemoteTyped, RemoteTyped', CodesInv, Rise
    PROVE  CodesInv'
<1>0. /\ sta \in Sta /\ sent \in Seq(Codes) /\ air \in Seq(Kind)
      /\ Whole \in Nat \ {0} /\ 0 \in 0..Whole /\ Whole \in 0..Whole
    BY TypesSay
<1>1. /\ UNCHANGED <<data, scan, tmp, printed, torn, sent>>
      /\ line = Low /\ sta'.rise /\ sta'.lead = sta.lead /\ sta'.done = sta.done
      /\ quiet'.ovf = 0
    BY <1>0, EdgeDoes DEF Rise
<1>2. Before' /\ damage' \in Nat
    BY BeforeKeeps DEF Air
<1> SUFFICES ASSUME damage' = 0 PROVE CodesInv'
    BY <1>1, <1>2 DEF CodesInv
<1>3. /\ damage = 0
      /\ \/ air = <<>> /\ line' = Idle /\ air' = air
         \/ air # <<>> /\ line' = Head(air) /\ air' = Tail(air)
    <2>1. damage \in Nat
        BY DEF CodesInv
    <2> QED
        BY <2>1 DEF Rise
<1>4. PICK n \in 0..Whole :
          Progress(n) /\ Places(n) /\ (~torn => Edges(n) /\ Register(n) /\ Reads(n))
    BY <1>3 DEF CodesInv
<1>5. line' # Low
    <2>1. air # <<>> => Head(air) \in Kind
        BY <1>0
    <2> QED
        BY <1>3, <2>1 DEF Low, Idle, Kind, Pulse, Lead, More, Stray
<1>6. Progress(n)' /\ (n < Whole /\ Arriving(n)' => Arriving(n))
    <2>1. CASE air = <<>> /\ line' = Idle /\ air' = air
        <3>1. n = Whole
            BY <1>1, <1>4, <2>1, LineSays
        <3> QED
            BY <1>0, <2>1, <3>1 DEF Progress, Ended
    <2>2. CASE air # <<>> /\ line' = Head(air) /\ air' = Tail(air)
        <3>1. CASE n = Whole /\ air = <<More>>
            <4>1. line' = More /\ air' = <<>>
                BY <2>2, <3>1
            <4> QED
                BY <1>0, <3>1, <4>1 DEF Progress, Ended
        <3>2. CASE n = 0 /\ Begun
            <4>1. line' = Lead /\ Coming(0)'
                BY <1>1, <2>2, <3>2, NextPulse
            <4>2. ~Arriving(0)'
                <5>1. Len(air') = Whole - 0
                    BY <4>1 DEF Coming
                <5>2. Coming(0 + 1)' => Len(air') = Whole - (0 + 1)
                    BY DEF Coming
                <5> QED
                    BY <1>0, <1>5, <5>1, <5>2 DEF Arriving
            <4> QED
                BY <3>2, <4>1, <4>2 DEF Progress
        <3>3. CASE n < Whole /\ Coming(n)
            <4>1. line' = Pulse[BitOf(Current, n + 1) + 1] /\ Coming(n + 1)'
                BY <1>1, <2>2, <3>3, NextPulse
            <4>2. Current' = Current
                BY <1>1 DEF Current
            <4>3. Arriving(n)' /\ Arriving(n)
                BY <1>1, <3>3, <4>1, <4>2 DEF Arriving
            <4> QED
                BY <3>3, <4>3 DEF Progress
        <3> QED
            BY <1>1, <1>4, <2>2, <3>1, <3>2, <3>3, LineSays
    <2> QED
        BY <1>3, <2>1, <2>2
<1>7. Places(n)'
    BY <1>1, <1>4, SamePlaces
<1>8. ASSUME ~torn' PROVE Edges(n)' /\ Register(n)' /\ Reads(n)'
    <2>1. Edges(n) /\ Register(n) /\ Reads(n)
        BY <1>1, <1>4, <1>8
    <2>2. Edges(n)'
        BY <1>1, <1>6, <2>1 DEF Edges
    <2>3. Fresh => Fresh'
        BY <1>1, <1>5 DEF Fresh, Begun
    <2> QED
        BY <1>1, <2>1, <2>2, <2>3, RegisterKeeps, CallGoesOn
<1> QED
    BY <1>1, <1>2, <1>6, <1>7, <1>8, CodesFrom DEF CodesInv

(* The line falls after a high part: a More and a lead leave the register, *)
(* a bit is shifted in.                                                    *)
LEMMA FallKeeps ==
    ASSUME RemoteTyped, RemoteTyped', CodesInv, Fall
    PROVE  CodesInv'
<1>0. /\ sta \in Sta /\ data \in Data /\ sent \in Seq(Codes) /\ sent' \in Seq(Codes)
      /\ air \in Seq(Kind) /\ Len(sent) \in Nat
      /\ Whole \in Nat \ {0} /\ 0 \in 0..Whole /\ Whole \in 0..Whole
    <2>1. sent \in Seq(Codes) /\ sent' = sent
        BY TypesSay DEF Fall
    <2> QED
        BY <2>1, TypesSay
<1>1. /\ UNCHANGED <<air, quiet, scan, tmp, printed, sent, damage>>
      /\ line \in Kind /\ line' = Low /\ CaptureFall(line)
      /\ torn' = (torn \/ (scan # "ask" /\ data' # data))
    BY DEF Fall
<1>2. /\ sta'.done = sta.done /\ ~sta'.rise /\ (sta.lead => sta'.lead)
      /\ line = Lead /\ sta.rise => sta'.lead
      /\ line \in {Lead, More} => data' = data
      /\ \A b \in Bit : line = Pulse[b + 1] /\ sta.rise /\ sta.lead => data' = Append(Tail(data), b)
    BY <1>0, <1>1, FallDoes
<1>3. Before' /\ damage' \in Nat
    BY BeforeKeeps DEF Air
<1> SUFFICES ASSUME damage = 0 PROVE CodesInv'
    BY <1>1, <1>3 DEF CodesInv
<1>4. PICK n \in 0..Whole :
          Progress(n) /\ Places(n) /\ (~torn => Edges(n) /\ Register(n) /\ Reads(n))
    BY DEF CodesInv
<1>c. Current' = Current /\ Previous' = Previous
    BY <1>1 DEF Current, Previous
<1>k. line' \notin Kind /\ line' # Idle
    BY <1>1 DEF Low, Idle, Kind, Pulse, Lead, More, Stray
<1>5. CASE line = More
    <2>1. n = Whole /\ air = <<>>
        BY <1>4, <1>5, LineSays
    <2>2. Progress(n)'
        BY <1>1, <2>1 DEF Progress, Ended
    <2>3. Places(n)'
        BY <1>1, <1>4, SamePlaces
    <2>4. ASSUME ~torn' PROVE Edges(n)' /\ Register(n)' /\ Reads(n)'
        <3>1. Register(n) /\ Reads(n) /\ data' = data
            BY <1>1, <1>2, <1>4, <1>5, <2>4
        <3>2. Edges(n)'
            BY <1>0, <1>k, <2>1 DEF Edges
        <3> QED
            BY <1>1, <2>1, <3>1, <3>2, RegisterKeeps, CallGoesOn
    <2> QED
        BY <1>1, <1>3, <2>2, <2>3, <2>4, CodesFrom DEF CodesInv
<1>6. CASE line = Lead
    <2>1. n = 0 /\ Coming(0)
        BY <1>4, <1>6, LineSays
    <2>2. Coming(0)' /\ Len(air') = Whole - 0
        BY <1>1, <1>c, <2>1 DEF Coming
    <2>3. Progress(0)'
        BY <1>0, <1>1, <2>2 DEF Progress, Arriving
    <2>4. Places(0)'
        BY <1>0, <1>1, <1>4, <2>1, SamePlaces
    <2>5. ASSUME ~torn' PROVE Edges(0)' /\ Register(0)' /\ Reads(0)'
        <3>1. Edges(0) /\ Register(0) /\ Reads(0) /\ data' = data
            BY <1>1, <1>2, <1>4, <1>6, <2>1, <2>5
        <3>2. Edges(0)'
            BY <1>1, <1>2, <1>6, <1>k, <3>1 DEF Edges
        <3>3. ~Begun'
            <4>1. CASE sent = <<>>
                BY <1>1, <4>1 DEF Begun
            <4>2. CASE sent # <<>>
                BY <1>0, <1>1, <1>c, <2>2, <4>2, CurrentCode, FrameBits DEF Begun
            <4> QED
                BY <4>1, <4>2
        <3>4. Fresh => Fresh'
            BY <1>2, <3>3 DEF Fresh
        <3> QED
            BY <1>0, <1>1, <3>1, <3>2, <3>4, RegisterKeeps, CallGoesOn
    <2> QED
        BY <1>0, <1>1, <1>3, <2>3, <2>4, <2>5, CodesFrom DEF CodesInv
<1>7. CASE line \notin {Lead, More}
    <2> DEFINE m == n + 1
               b == BitOf(Current, m)
    <2>1. n < Whole /\ Coming(m) /\ line = Pulse[b + 1]
        BY <1>1, <1>4, <1>7, LineSays
    <2>2. m \in 1..Whole /\ m \in 0..Whole
        BY <1>0, <2>1
    <2>3. sent # <<>> /\ b \in Bit /\ Len(air) = Whole - m
        BY <1>0, <2>1, <2>2, CurrentCode DEF Coming
    <2>a. Arriving(n)
        BY <2>1 DEF Arriving
    <2>b. n \in Nat
        BY <1>0
    <2> HIDE DEF b
    <2>4. Coming(m)'
        <3>1. /\ sent # <<>> /\ Len(air) = Whole - m
              /\ \A i \in 1..Whole - m : air[i] = Pulse[BitOf(Current, m + i) + 1]
            BY <2>1 DEF Coming
        <3> QED
            BY <1>1, <1>c, <3>1 DEF Coming
    <2> HIDE DEF m
    <2>m. m = n + 1
        BY DEF m
    <2>5. Progress(m)'
        <3>1. CASE m < Whole
            BY <1>1, <2>4, <3>1 DEF Progress, Arriving
        <3>2. CASE m = Whole
            <4>1. air' = <<>>
                BY <1>0, <1>1, <2>3, <3>2
            <4> QED
                BY <1>1, <3>2, <4>1 DEF Progress, Ended
        <3> QED
            BY <1>0, <2>2, <3>1, <3>2
    <2>6. Places(m)'
        <3>1. Complete(n) <= Complete(m)'
            BY <1>0, <1>1, <2>1 DEF Complete
        <3> QED
            BY <1>0, <1>1, <1>4, <2>2, <3>1, PlacesKeep
    <2>7. ASSUME ~torn' PROVE Edges(m)' /\ Register(m)' /\ Reads(m)'
        <3>1. Edges(n) /\ Register(n) /\ Reads(n) /\ (scan # "ask" => data' = data)
            BY <1>1, <1>4, <2>7
        <3>2. sta.rise /\ sta.lead
            BY <1>1, <2>1, <2>a, <3>1 DEF Edges
        <3>3. data' = Append(Tail(data), b)
            BY <1>2, <2>1, <2>3, <3>2
        <3>4. /\ \A j \in 1..Whole - 1 : data'[j] = data[j + 1]
              /\ data'[Whole] = b
            BY <1>0, <2>3, <3>3, ShiftIn
        <3>5. Edges(m)'
            BY <1>2, <1>k, <3>2 DEF Edges
        <3>6. ASSUME NEW j \in 1..m PROVE data'[Whole - m + j] = BitOf(Current', j)
            <4>1. CASE j = m
                <5>1. Whole - m + j = Whole
                    BY <1>0, <2>2, <4>1
                <5> QED
                    BY <1>c, <3>4, <4>1, <5>1 DEF b
            <4>2. CASE j # m
                <5>1. j \in 1..n /\ Whole - m + j \in 1..Whole - 1 /\ Whole - m + j + 1 = Whole - n + j
                    BY <1>0, <2>2, <2>b, <2>m, <4>2
                <5>2. data[Whole - n + j] = BitOf(Current, j)
                    BY <2>3, <3>1, <5>1 DEF Register
                <5> QED
                    BY <1>c, <3>4, <5>1, <5>2
            <4> QED
                BY <4>1, <4>2
        <3>7. Old(n) => Old(m)'
            <4> SUFFICES ASSUME Old(n), NEW j \in 1..Whole - m PROVE data'[j] = BitOf(Previous', m + j)
                BY <1>1 DEF Old
            <4>1. j \in 1..Whole - 1 /\ j + 1 \in 1..Whole - n /\ n + (j + 1) = m + j
                BY <1>0, <2>2, <2>b, <2>m
            <4>2. data[j + 1] = BitOf(Previous, n + (j + 1))
                BY <4>1 DEF Old
            <4> QED
                BY <1>c, <3>4, <4>1, <4>2
        <3>8. m < Whole => Fresh' \/ Old(m)'
            <4>1. Fresh \/ Old(n)
                BY <2>1, <3>1 DEF Register
            <4>2. ~Begun'
                <5>1. Len(Frame(Current')) = Whole + 1
                    BY <1>0, <1>c, <2>3, CurrentCode, FrameBits
                <5>2. Len(air') # Whole + 1
                    BY <1>0, <1>1, <2>2, <2>3
                <5> QED
                    BY <5>1, <5>2 DEF Begun
            <4> QED
                BY <1>2, <3>7, <4>1, <4>2 DEF Fresh
        <3>9. Register(m)'
            BY <3>6, <3>8 DEF Register
        <3>10. Reads(m)'
            <4>1. CASE scan \in {"ask", "leave"}
                BY <1>1, <4>1 DEF Reads
            <4>2. CASE scan \notin {"ask", "leave"}
                <5>1. data' = data /\ sent' # <<>> /\ Old(m)'
                    BY <1>1, <2>1, <3>1, <3>7, <4>2 DEF Reads
                <5> QED
                    BY <1>1, <2>2, <3>1, <5>1, ReadsKeep
            <4> QED
                BY <4>1, <4>2
        <3> QED
            BY <3>5, <3>9, <3>10
    <2> QED
        BY <1>1, <1>3, <2>2, <2>5, <2>6, <2>7, CodesFrom DEF CodesInv
<1> QED
    BY <1>5, <1>6, <1>7

(* The counter overflows: the edge of an idle line is forgotten.           *)
LEMMA OverflowKeeps ==
    ASSUME RemoteTyped, RemoteTyped', CodesInv, Overflow
    PROVE  CodesInv'
<1>0. /\ sta \in Sta /\ sent \in Seq(Codes) /\ air \in Seq(Kind)
      /\ Whole \in Nat \ {0} /\ 0 \in 0..Whole /\ Whole \in 0..Whole
    BY TypesSay
<1>1. /\ UNCHANGED <<data, line, air, scan, tmp, printed, torn, sent, damage>>
      /\ IF sta.lead THEN ~sta'.rise ELSE sta' = sta
      /\ line = Idle \/ (line = Low /\ air # <<>> /\ Head(air) \in {Lead, More})
    BY <1>0, EdgeDoes DEF Overflow
<1>2. Before' /\ damage' \in Nat
    BY BeforeKeeps DEF Air
<1> SUFFICES ASSUME damage = 0 PROVE CodesInv'
    BY <1>1, <1>2 DEF CodesInv
<1>3. PICK n \in 0..Whole :
          Progress(n) /\ Places(n) /\ (~torn => Edges(n) /\ Register(n) /\ Reads(n))
    BY DEF CodesInv
<1>4. n = Whole \/ (n = 0 /\ Begun)
    <2>1. CASE line = Idle
        BY <1>3, <2>1, LineSays
    <2>2. CASE line = Low /\ air # <<>> /\ Head(air) \in {Lead, More}
        <3>1. ASSUME Coming(n), n < Whole PROVE FALSE
            <4> DEFINE b == BitOf(Current, n + 1)
            <4>1. air[1] = Pulse[b + 1] /\ sent # <<>>
                <5>1. 1 \in 1..Whole - n
                    BY <1>0, <3>1
                <5> QED
                    BY <3>1, <5>1 DEF Coming
            <4>2. Pulse[b + 1] \in {560, 1680}
                <5>1. n + 1 \in 1..Whole
                    BY <1>0, <3>1
                <5> QED
                    BY <1>0, <4>1, <5>1, CurrentCode
            <4>3. Head(air) = air[1]
                BY <1>0, <2>2
            <4> HIDE DEF b
            <4> QED
                BY <2>2, <4>1, <4>2, <4>3 DEF Lead, More
        <3> QED
            BY <1>3, <2>2, <3>1, LineSays
    <2> QED
        BY <1>1, <2>1, <2>2
<1>5. Progress(n)'
    BY <1>1, <1>3, SameLine
<1>6. Places(n)'
    BY <1>1, <1>3, SamePlaces
<1>7. ASSUME ~torn' PROVE Edges(n)' /\ Register(n)' /\ Reads(n)'
    <2>1. Edges(n) /\ Register(n) /\ Reads(n)
        BY <1>1, <1>3, <1>7
    <2>2. Edges(n)'
        <3>1. ~(n < Whole /\ Arriving(n)')
            <4>1. Arriving(n)' => Arriving(n)
                BY <1>1, SameLine
            <4>2. Begun => ~Arriving(0)
                BY <1>0, NoFrame
            <4> QED
                BY <1>0, <1>4, <4>1, <4>2
        <3>2. line' \notin Kind
            BY <1>1 DEF Low, Idle, Kind, Pulse, Lead, More, Stray
        <3>3. ~(sta'.lead /\ sta'.rise) \/ line' # Idle
            BY <1>1
        <3> QED
            BY <3>1, <3>2, <3>3 DEF Edges
    <2>3. Fresh => Fresh' \/ n = Whole
        <3>1. Begun' <=> Begun
            BY <1>1, SameLine
        <3> QED
            BY <1>1, <1>4, <3>1 DEF Fresh
    <2> QED
        BY <1>1, <2>1, <2>2, <2>3, RegisterKeeps, CallGoesOn
<1> QED
    BY <1>1, <1>2, <1>5, <1>6, <1>7, CodesFrom DEF CodesInv

(* remote_scan reads the register.                                         *)
LEMMA InverseTwice == \A f \in Field : Inverse(Inverse(f)) = f
<1> SUFFICES ASSUME NEW f \in Field PROVE Inverse(Inverse(f)) = f
    OBVIOUS
<1>1. \A i \in 1..FieldLen : 1 - (1 - f[i]) = f[i]
    BY DEF Field, Bit
<1>2. f = [i \in 1..FieldLen |-> f[i]]
    BY DEF Field
<1> QED
    BY <1>1, <1>2 DEF Inverse

LEMMA ReadKeeps ==
    ASSUME RemoteTyped, NEW n \in 0..Whole, Reads(n), ReadId \/ ReadKey, UNCHANGED <<data, sent>>
    PROVE  Reads(n)' /\ scan' \notin {"ask", "leave"}
<1>1. tmp = [t1 |-> tmp.t1, res |-> tmp.res, copy |-> tmp.copy]
    BY DEF RemoteTyped
<1>2. scan \in {"id", "id inverse", "key", "key inverse"}
    BY DEF ReadId, ReadKey
<1>3. sent # <<>> /\ (n < Whole => Old(n)) /\ tmp.res = Zero
      /\ (scan = "id inverse" => tmp.t1 = FieldOf(0))
      /\ (scan \in {"key", "key inverse"} => IdRight)
      /\ (scan = "key inverse" => tmp.t1 = FieldOf(2))
    BY <1>2 DEF Reads
<1>4. Old(n) => Old(n)'
    BY DEF Old, Previous
<1>5. FieldOf(0)' = FieldOf(0) /\ FieldOf(1)' = FieldOf(1) /\ FieldOf(2)' = FieldOf(2)
    BY DEF FieldOf
<1>6. IdRight => IdRight'
    BY <1>5 DEF IdRight
<1>7. scan' \notin {"ask", "leave"}
    BY DEF ReadId, ReadKey
<1>8. CASE scan = "id" /\ tmp' = [tmp EXCEPT !.t1 = FieldOf(0)] /\ scan' = "id inverse"
    <2>1. tmp'.res = Zero /\ tmp'.t1 = FieldOf(0)
        BY <1>1, <1>3, <1>8
    <2> QED
        BY <1>3, <1>4, <1>5, <1>8, <2>1 DEF Reads
<1>9. CASE scan = "id inverse" /\ tmp' = tmp
           /\ scan' = (IF tmp.t1 = Inverse(FieldOf(1)) /\ tmp.t1 = REMOTE_ID THEN "key" ELSE "copy")
    <2>1. CASE scan' = "key"
        <3>1. FieldOf(0) = REMOTE_ID /\ REMOTE_ID = Inverse(FieldOf(1))
            BY <1>3, <1>9, <2>1
        <3>2. FieldOf(1) \in Field
            BY TypesSay, FieldTypes
        <3>3. IdRight
            BY <3>1, <3>2, InverseTwice DEF IdRight
        <3> QED
            BY <1>3, <1>4, <1>6, <1>9, <2>1, <3>3 DEF Reads
    <2>2. CASE scan' = "copy"
        BY <1>3, <1>4, <1>9, <2>2 DEF Reads
    <2> QED
        BY <1>9, <2>1, <2>2
<1>10. CASE scan = "key" /\ tmp' = [tmp EXCEPT !.t1 = FieldOf(2)] /\ scan' = "key inverse"
    <2>1. tmp'.res = Zero /\ tmp'.t1 = FieldOf(2)
        BY <1>1, <1>3, <1>10
    <2> QED
        BY <1>3, <1>4, <1>5, <1>6, <1>10, <2>1 DEF Reads
<1>11. CASE scan = "key inverse" /\ scan' = (IF tmp'.res = Zero THEN "copy" ELSE "held")
            /\ tmp' = [tmp EXCEPT !.res = IF tmp.t1 = Inverse(FieldOf(3)) THEN tmp.t1 ELSE Zero]
    <2>1. tmp'.res = Zero \/ (IdRight' /\ tmp'.res = FieldOf(2)')
        BY <1>1, <1>3, <1>5, <1>6, <1>11
    <2>2. scan' \in {"copy", "held"}
        BY <1>11
    <2> QED
        BY <1>3, <1>4, <2>1, <2>2 DEF Reads
<1> QED
    BY <1>7, <1>8, <1>9, <1>10, <1>11 DEF ReadId, ReadKey

(* A call returns: what it found is the key of a frame that has come.      *)
LEMMA AnswerKeeps ==
    ASSUME RemoteTyped, NEW n \in 0..Whole, Places(n), Answer(tmp.res), UNCHANGED sent,
           scan \notin {"ask", "leave"}, ~torn => Register(n) /\ Reads(n)
    PROVE  Places(n)' /\ Reads(n)'
<1>1. data \in Data /\ sent \in Seq(Codes)
    BY TypesSay
<1>2. ASSUME ~torn, tmp.res # Zero
      PROVE  Complete(n) \in 1..Len(sent) /\ tmp.res = sent[Complete(n)]
    <2>1. sent # <<>> /\ IdRight /\ tmp.res = FieldOf(2) /\ (n < Whole => Old(n))
        BY <1>2 DEF Reads
    <2>2. \A j \in 1..n : data[Whole - n + j] = BitOf(Current, j)
        BY <1>2, <2>1 DEF Register
    <2> QED
        BY <1>1, <2>1, <2>2, WholeFrame
<1>3. Places(n)'
    BY <1>2, Printed
<1>4. scan' \in {"ask", "leave"}
    BY DEF Answer
<1> QED
    BY <1>3, <1>4 DEF Reads

(* The steps of remote_scan.                                               *)
LEMMA ScanKeeps ==
    ASSUME RemoteTyped, RemoteTyped', CodesInv, Scan
    PROVE  CodesInv'
<1>1. UNCHANGED <<data, line, air, sent, damage>>
    BY DEF Scan, Look, Read, Held, Copy, ClearDone, Handlers
<1>2. Before' /\ damage' \in Nat
    BY BeforeKeeps
<1>t. scan' \in {"ask", "leave"} => tmp' = Nothing
    <2>1. Look => (scan' \in {"ask", "leave"} => tmp' = Nothing)
        BY DEF CodesInv, Look
    <2>2. ReadId \/ ReadKey => scan' \notin {"ask", "leave"}
        BY DEF ReadId, ReadKey
    <2>3. Answer(tmp.res) => tmp' = Nothing
        BY DEF Answer
    <2> QED
        BY <2>1, <2>2, <2>3 DEF Scan, Read, Held, Copy, ClearDone
<1> SUFFICES ASSUME damage = 0 PROVE CodesInv'
    BY <1>1, <1>2, <1>t DEF CodesInv
<1>3. PICK n \in 0..Whole :
          Progress(n) /\ Places(n) /\ (~torn => Edges(n) /\ Register(n) /\ Reads(n))
    BY DEF CodesInv
<1>4. Progress(n)' /\ (Begun' <=> Begun) /\ (Arriving(n)' <=> Arriving(n))
    BY <1>1, <1>3, SameLine
<1>5. quiet'.ovf = quiet.ovf
    <2>1. quiet \in [ovf : 0..MaxOvf + 2, seen : BOOLEAN]
        BY DEF RemoteTyped, RemoteType
    <2>2. ASSUME NEW b, quiet' = [quiet EXCEPT !.seen = b] PROVE quiet'.ovf = quiet.ovf
        BY <2>1, <2>2
    <2> QED
        BY <2>2 DEF Scan, Look, Read, Held, Copy, ClearDone
<1>6. ASSUME ~torn, sta'.lead = sta.lead, sta'.rise = sta.rise, sta'.done => sta.done
      PROVE  Edges(n)' /\ Register(n)'
    <2>1. Edges(n)'
        BY <1>1, <1>3, <1>4, <1>5, <1>6 DEF Edges
    <2>2. Fresh => Fresh'
        BY <1>4, <1>6 DEF Fresh
    <2> QED
        BY <1>1, <1>3, <1>6, <2>1, <2>2, RegisterKeeps
<1>7. ASSUME Places(n)', sta' = sta, torn' = torn, ~torn => Reads(n)' PROVE CodesInv'
    BY <1>2, <1>3, <1>4, <1>6, <1>7, <1>t, CodesFrom
<1>8. CASE Look
    <2>1. UNCHANGED <<sta, torn, printed, tmp>> /\ scan = "ask" /\ scan' = (IF sta.done THEN "id" ELSE "ask")
        BY <1>8 DEF Look, Handlers
    <2>2. ASSUME ~torn PROVE Reads(n)'
        <3>1. CASE ~sta.done
            BY <2>1, <3>1 DEF Reads
        <3>2. CASE sta.done
            <4>1. sent # <<>>
                BY <3>2 DEF CodesInv, Before, Rest
            <4>2. n < Whole => Old(n)
                BY <1>3, <2>2, <3>2 DEF Register, Fresh
            <4>3. Old(n) => Old(n)'
                BY <1>1 DEF Old, Previous
            <4>4. scan' = "id" /\ tmp'.res = Zero
                BY <2>1, <3>2 DEF CodesInv, Nothing
            <4> QED
                BY <1>1, <4>1, <4>2, <4>3, <4>4 DEF Reads
        <3> QED
            BY <3>1, <3>2
    <2> QED
        BY <1>1, <1>3, <1>7, <2>1, <2>2, SamePlaces
<1>9. CASE Read
    <2>1. UNCHANGED <<sta, torn, printed>>
        BY <1>9 DEF Read, Handlers
    <2>2. ~torn => Reads(n)'
        BY <1>1, <1>3, <1>9, ReadKeeps DEF Read
    <2> QED
        BY <1>1, <1>3, <1>7, <2>1, <2>2, SamePlaces
<1>10. CASE Held
    <2>1. UNCHANGED <<sta, torn>> /\ scan = "held"
        BY <1>10 DEF Held, Handlers
    <2>2. CASE Answer(tmp.res)
        BY <1>1, <1>3, <1>7, <2>1, <2>2, AnswerKeeps
    <2>3. CASE scan' = "copy" /\ UNCHANGED <<tmp, printed>>
        <3>1. ASSUME ~torn PROVE Reads(n)'
            <4>1. Old(n) => Old(n)'
                BY <1>1 DEF Old, Previous
            <4>2. FieldOf(0)' = FieldOf(0) /\ FieldOf(1)' = FieldOf(1) /\ FieldOf(2)' = FieldOf(2)
                BY <1>1 DEF FieldOf
            <4>3. IdRight' <=> IdRight
                BY <4>2 DEF IdRight
            <4> QED
                BY <1>1, <1>3, <2>1, <2>3, <3>1, <4>1, <4>2, <4>3 DEF Reads
        <3> QED
            BY <1>1, <1>3, <1>7, <2>1, <2>3, <3>1, SamePlaces
    <2> QED
        BY <1>10, <2>2, <2>3 DEF Held
<1>11. CASE Copy
    <2>1. UNCHANGED <<sta, torn, printed>> /\ scan = "copy" /\ scan' = "clear"
          /\ tmp' = [tmp EXCEPT !.copy = sta]
        BY <1>11 DEF Copy, Handlers
    <2>2. ASSUME ~torn PROVE Reads(n)'
        <3>1. Old(n) => Old(n)'
            BY <1>1 DEF Old, Previous
        <3>2. FieldOf(0)' = FieldOf(0) /\ FieldOf(1)' = FieldOf(1) /\ FieldOf(2)' = FieldOf(2)
            BY <1>1 DEF FieldOf
        <3>3. IdRight' <=> IdRight
            BY <3>2 DEF IdRight
        <3>4. tmp'.res = tmp.res
            BY <2>1 DEF RemoteTyped
        <3> QED
            BY <1>1, <1>3, <2>1, <2>2, <3>1, <3>2, <3>3, <3>4 DEF Reads
    <2> QED
        BY <1>1, <1>3, <1>7, <2>1, <2>2, SamePlaces
<1>12. CASE ClearDone
    <2>1. /\ scan = "clear" /\ Answer(tmp.res) /\ torn' = (torn \/ sta # tmp.copy)
          /\ sta' = [tmp.copy EXCEPT !.done = FALSE]
        BY <1>12 DEF ClearDone
    <2>2. Places(n)' /\ Reads(n)'
        BY <1>1, <1>3, <2>1, AnswerKeeps
    <2>3. ASSUME ~torn' PROVE Edges(n)' /\ Register(n)'
        <3>1. ~torn /\ sta' = [sta EXCEPT !.done = FALSE]
            BY <2>1, <2>3
        <3>2. sta'.lead = sta.lead /\ sta'.rise = sta.rise /\ ~sta'.done
            BY <3>1, TypesSay DEF Sta
        <3> QED
            BY <1>6, <3>1, <3>2
    <2> QED
        BY <1>2, <1>4, <1>t, <2>2, <2>3, CodesFrom
<1> QED
    BY <1>8, <1>9, <1>10, <1>11, <1>12 DEF Scan

(* The receiver at the beginning, and when remote_test is over.            *)
LEMMA CodesStart == RemoteInit => CodesInv
<1> SUFFICES ASSUME RemoteInit PROVE CodesInv
    OBVIOUS
<1>1. /\ sta = Rest /\ line = Idle /\ air = <<>> /\ quiet.ovf = 1 /\ scan = "ask" /\ tmp = Nothing
      /\ printed = <<>> /\ ~torn /\ sent = <<>> /\ more = 0 /\ damage = 0
    BY DEF RemoteInit
<1>2. Whole \in 0..Whole /\ ~(Whole < Whole)
    BY WholeType
<1>3. Progress(Whole)
    BY <1>1 DEF Progress, Ended
<1>4. Places(Whole)
    <2>1. Sound = {}
        BY <1>1 DEF Sound
    <2>2. [i \in Sound |-> 0] \in [Sound -> 1..Complete(Whole)]
        BY <2>1
    <2> QED
        BY <2>1, <2>2 DEF Places
<1>5. Edges(Whole)
    BY <1>1, <1>2 DEF Edges, Rest, Idle, Kind, Pulse, Lead, More, Stray
<1>6. Register(Whole) /\ Reads(Whole)
    BY <1>1, <1>2 DEF Register, Reads
<1>7. Before /\ damage \in Nat
    BY <1>1 DEF Before
<1> QED
    BY <1>1, <1>2, <1>3, <1>4, <1>5, <1>6, <1>7 DEF CodesInv

LEMMA OffKeeps == RemoteOff => CodesInv'
<1>1. RemoteOff => RemoteInit'
    BY DEF RemoteOff, RemoteInit
<1> QED
    BY <1>1, CodesStart, PTL

(* Steps of the other stages.                                              *)
LEMMA RemoteStill == RemoteTyped /\ CodesInv /\ UNCHANGED RemoteVars => CodesInv'
<1> SUFFICES ASSUME RemoteTyped, CodesInv, UNCHANGED RemoteVars PROVE CodesInv'
    OBVIOUS
<1>1. /\ UNCHANGED <<sta, data, line, air, quiet, scan, tmp, printed, torn, sent, more, damage>>
    BY DEF RemoteVars
<1>2. Before' /\ damage' \in Nat /\ (scan' \in {"ask", "leave"} => tmp' = Nothing)
    BY <1>1 DEF CodesInv, Before
<1> SUFFICES ASSUME damage = 0 PROVE CodesInv'
    BY <1>1, <1>2 DEF CodesInv
<1>3. PICK n \in 0..Whole :
          Progress(n) /\ Places(n) /\ (~torn => Edges(n) /\ Register(n) /\ Reads(n))
    BY DEF CodesInv
<1>4. Progress(n)' /\ (Begun' <=> Begun) /\ (Arriving(n)' <=> Arriving(n))
    BY <1>1, <1>3, SameLine
<1>5. Edges(n) => Edges(n)'
    BY <1>1, <1>4 DEF Edges
<1>6. Fresh => Fresh'
    BY <1>1, <1>4 DEF Fresh
<1> QED
    BY <1>1, <1>2, <1>3, <1>4, <1>5, <1>6, SamePlaces, RegisterKeeps, CallGoesOn, CodesFrom

LEMMA CodesStep == RemoteTyped /\ RemoteTyped' /\ CodesInv /\ [Next]_vars => CodesInv'
<1> SUFFICES ASSUME RemoteTyped, RemoteTyped', CodesInv, [Next]_vars PROVE CodesInv'
    OBVIOUS
<1>0. ASSUME UNCHANGED RemoteVars PROVE CodesInv'
    BY <1>0, RemoteStill
<1>1. CASE remote_test
    BY <1>1, ScanKeeps, OffKeeps DEF remote_test
<1>2. CASE TIM1_IRQHandlers
    BY <1>2, SendKeeps, SendMoreKeeps, RiseKeeps, FallKeeps, OverflowKeeps DEF TIM1_IRQHandlers, Air
<1>3. CASE Debounce \/ PlainTest \/ key_test \/ st480mc_test \/ compass_calibration
    BY <1>0, <1>3, PlainLoops DEF Debounce, key_test, st480mc_test, compass_calibration
<1>4. CASE wav_test \/ sdram_test \/ KeysTested \/ PartReady \/ Tester
    BY <1>0, <1>4, WaitEnds DEF wav_test, sdram_test, KeysTested, Tester
<1>5. CASE usb_test \/ Cable \/ OTG_FS_IRQHandler \/ UNCHANGED vars
    BY <1>0, <1>5 DEF usb_test, Cable, OTG_FS_IRQHandler, vars
<1> QED
    BY <1>1, <1>2, <1>3, <1>4, <1>5 DEF Next, Main

\* As long as no pulse is damaged, remote_test prints only codes that were sent,
\* in their order and each press at most once, whichever steps of remote_scan the
\* two handlers of TIM1 come between: a register that passes remote_scan's four
\* comparisons while a frame is shifted in holds a frame whole.  (With a damaged
\* pulse in the address a shifted register may pass them.)
THEOREM CodesKept == Spec => [](damage = 0 => CodesInOrder)
<1>1. Init => UsbType /\ RemoteTyped /\ CodesInv
    <2> SUFFICES ASSUME Init PROVE UsbType /\ RemoteTyped /\ CodesInv
        OBVIOUS
    <2>1. UsbType
        BY UsbStart DEF Init
    <2> QED
        BY <2>1, RemoteStart, CodesStart DEF Init
<1>2. RemoteTyped /\ CodesInv => (damage = 0 => CodesInOrder)
    <2> SUFFICES ASSUME RemoteTyped, CodesInv, damage = 0 PROVE CodesInOrder
        OBVIOUS
    <2>1. PICK n \in 0..Whole : Places(n)
        BY DEF CodesInv
    <2>2. PICK place \in [Sound -> 1..Complete(n)] :
              /\ \A i \in Sound : printed[i].code = sent[place[i]]
              /\ \A i, j \in Sound : i < j =>
                     IF i..j \subseteq Sound THEN place[i] < place[j] ELSE place[i] <= place[j]
        BY <2>1 DEF Places
    <2>3. place \in [Sound -> DOMAIN sent]
        <3>1. sent \in Seq(Codes)
            BY TypesSay
        <3>2. 1..Complete(n) \subseteq DOMAIN sent
            BY <3>1 DEF Complete
        <3> QED
            BY <3>2
    <2> QED
        BY <2>2, <2>3 DEF CodesInOrder, Sound
<1>3. UsbType /\ RemoteTyped /\ CodesInv /\ [Next]_vars => UsbType' /\ RemoteTyped' /\ CodesInv'
    BY PartsStep, CodesStep
<1> QED
    BY <1>1, <1>2, <1>3, PTL DEF Spec

=============================================================================
