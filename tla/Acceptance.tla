----------------------------- MODULE Acceptance -----------------------------
(***************************************************************************)
(* test_system (test.c): the tests of the board one after another.  Most   *)
(* of them loop until key_scan returns the key of their prompt; usb_test   *)
(* shares flags with the USB interrupt, remote_test waits for the remote's *)
(* POWER, and some wait for a part of the board.                           *)
(*                                                                         *)
(* KeyScan, UsbWatch and Remote are the parts.  A part that does not       *)
(* belong to the stage at work stands still: usb_test stops the USB        *)
(* device, and after remote_test nothing looks at the receiver.  The       *)
(* tester moves the keys in the stages that look at them; elsewhere a move *)
(* cannot be told from one at the beginning of the next such stage.        *)
(***************************************************************************)
EXTENDS KeyScan, UsbWatch, Remote

ASSUME AcceptanceAssumption ==
    /\ MaxDown \in Nat
    /\ Dirs \subseteq {"write", "read"}
    /\ Period \in Nat \ {0} /\ ByteValues \in Nat
    /\ OfflineMax \in Nat /\ OfflineMax + 1 < ByteValues
    /\ FieldLen \in Nat \ {0} /\ MaxOvf \in Nat
    /\ Codes \subseteq [1..FieldLen -> {0, 1}] /\ Power \in Codes
    /\ [i \in 1..FieldLen |-> 0] \notin Codes
    /\ MaxFrames \in Nat /\ MaxMore \in Nat /\ MaxDamage \in Nat /\ Slack \in Nat

VARIABLES
    stage,     \* the test at work
    second,    \* sdram_test is at its second call of key_scan
    status     \* key_test: the keys returned so far

vars == <<KeyVars, UsbVars, RemoteVars, stage, second, status>>

\* "24c02", "sensor" and "card" are the waits for at24cxx_check, st480mc_init
\* and sd_init; "calibration" is compass_calibration.
Order == <<"24c02", "led", "usb", "beep", "key", "remote", "light", "sensor",
           "magnetic", "motion", "card", "wav", "adc", "sdram", "lcd", "net", "end">>
Stage == {Order[i] : i \in DOMAIN Order} \cup {"calibration"}

Following(s) ==
    LET i == CHOOSE i \in DOMAIN Order : Order[i] = s IN Order[i + 1]

\* Stages whose loop has nothing but work, a delay and one call of key_scan.
Plain == {"led", "beep", "light", "motion", "adc", "lcd"}

\* Stages that wait for a part of the board or the network.
Part == {"24c02", "sensor", "card", "net"}

\* Stages that call key_scan.
Keyed == Plain \cup {"usb", "key", "magnetic", "calibration", "wav", "sdram"}

\* What key_scan returns.
Value == {NoKey} \cup Key

Init ==
    /\ KeyInit /\ UsbInit /\ RemoteInit
    /\ stage = "24c02"
    /\ second = FALSE
    /\ status = {}

-----------------------------------------------------------------------------
Tester ==
    /\ stage \in Keyed
    /\ Touch
    /\ UNCHANGED <<UsbVars, RemoteVars, stage, second, status>>

\* key_scan found a key and waits 10 ms, at whichever call site.
Debounce ==
    /\ stage \in Keyed /\ (stage = "usb" => round = "key")
    /\ KeyWait
    /\ UNCHANGED <<UsbVars, RemoteVars, stage, second, status>>

\* Seeded fault: the loops end on KEY0.
UntilKey0(s) ==
    /\ stage = s
    /\ \E v \in Value :
          /\ Returns(v)
          /\ stage' = IF v = KEY0 THEN Following(stage) ELSE stage
    /\ UNCHANGED <<UsbVars, RemoteVars, second, status>>

\* if (key_scan(0) == KEY1_PRES) break; as six stages have it.
UntilKey1(s) ==
    /\ stage = s
    /\ \E v \in Value :
          /\ Returns(v)
          /\ stage' = IF v = KEY1 THEN Following(stage) ELSE stage
    /\ UNCHANGED <<UsbVars, RemoteVars, second, status>>

led_tset == UntilKey1("led")
beep_test == UntilKey1("beep")
ap3216c_test == UntilKey1("light")
sh3001_test == UntilKey1("motion")
adc_tset == UntilKey1("adc")
lcd_test == UntilKey1("lcd")

PlainTest == led_tset \/ beep_test \/ ap3216c_test \/ sh3001_test \/ adc_tset \/ lcd_test

usb_test ==
    /\ stage = "usb"
    /\ \/ /\ Watch
          /\ UNCHANGED <<KeyVars, stage>>
       \/ /\ round = "key"
          /\ \E v \in Value :
                /\ Returns(v)
                /\ \/ /\ v = KEY1
                      /\ stage' = Following(stage)
                      /\ UsbOff
                   \/ /\ v # KEY1
                      /\ round' = "tick"
                      /\ UNCHANGED <<stage, reg, usb_sta, conn, tct, offline_cnt, plugged, due>>
    /\ UNCHANGED <<RemoteVars, second, status>>

\* The USB interrupt, enabled from USBD_Start to USBD_Stop.
OTG_FS_IRQHandler ==
    /\ stage = "usb"
    /\ Interrupt
    /\ UNCHANGED <<KeyVars, RemoteVars, stage, second, status>>

\* The tester pulls the USB cable.
Cable ==
    /\ stage = "usb"
    /\ Unplug
    /\ UNCHANGED <<KeyVars, RemoteVars, stage, second, status>>

\* Until each key was returned once.
key_test ==
    /\ stage = "key" /\ status # Key
    /\ \E v \in Value : Returns(v) /\ status' = status \cup ({v} \cap Key)
    /\ UNCHANGED <<UsbVars, RemoteVars, stage, second>>

\* The tester lets go of the keys to take the remote.
KeysTested ==
    /\ stage = "key" /\ status = Key
    /\ pins = {}
    /\ stage' = Following(stage)
    /\ status' = {}
    /\ UNCHANGED <<KeyVars, UsbVars, RemoteVars, second>>

remote_test ==
    /\ stage = "remote"
    /\ \/ Scan /\ UNCHANGED stage
       \/ scan = "leave" /\ RemoteOff /\ stage' = Following(stage)
    /\ UNCHANGED <<KeyVars, UsbVars, second, status>>

\* TIM1's handlers, and what the remote sends.
TIM1_IRQHandlers ==
    /\ stage = "remote"
    /\ Air
    /\ UNCHANGED <<KeyVars, UsbVars, stage, second, status>>

st480mc_test ==
    /\ stage = "magnetic"
    /\ \E v \in Value :
          /\ Returns(v)
          /\ stage' = CASE v = KEY0 -> "calibration"
                        [] v = KEY1 -> Following(stage)
                        [] OTHER -> stage
    /\ UNCHANGED <<UsbVars, RemoteVars, second, status>>

compass_calibration ==
    /\ stage = "calibration"
    /\ \E v \in Value :
          /\ Returns(v)
          /\ stage' = IF v = WKUP THEN "magnetic" ELSE stage
    /\ UNCHANGED <<UsbVars, RemoteVars, second, status>>

\* wav_play_song, as far as its keys go: KEY0 and KEY2 end it, and so does the
\* end of the song (WavPlay has the player itself).
wav_test ==
    /\ stage = "wav"
    /\ \/ \E v \in Value :
             /\ Returns(v)
             /\ stage' = IF v \in {KEY0, KEY2} THEN Following(stage) ELSE stage
       \/ /\ ~waiting
          /\ stage' = Following(stage)
          /\ UNCHANGED KeyVars
    /\ UNCHANGED <<UsbVars, RemoteVars, second, status>>

\* Two calls of key_scan per round: the second only if the first does not
\* return KEY0, which writes and reads the SDRAM.
sdram_test ==
    /\ stage = "sdram"
    /\ \E v \in Value :
          /\ Returns(v)
          /\ \/ ~second /\ second' = (v # KEY0) /\ UNCHANGED stage
             \/ /\ second /\ second' = FALSE
                /\ stage' = IF v = KEY1 THEN Following(stage) ELSE stage
    /\ UNCHANGED <<UsbVars, RemoteVars, status>>

\* A stage's loop of waiting ends: the part has answered.
Ready(s) ==
    /\ stage = s
    /\ stage' = Following(stage)
    /\ UNCHANGED <<KeyVars, UsbVars, RemoteVars, second, status>>

at24cxx_check == Ready("24c02")
st480mc_init == Ready("sensor")
sd_init == Ready("card")
net_test == Ready("net")

PartReady == at24cxx_check \/ st480mc_init \/ sd_init \/ net_test

Main == Debounce \/ PlainTest \/ usb_test \/ key_test \/ remote_test \/ st480mc_test
        \/ compass_calibration \/ wav_test \/ sdram_test

Next == Main \/ KeysTested \/ PartReady \/ Tester \/ Cable \/ OTG_FS_IRQHandler \/ TIM1_IRQHandlers

\* Main goes on.  A frame once begun is sent to its end, and TIM1 runs: its
\* counter overflows while the line is idle.
Spec ==
    /\ Init /\ [][Next]_vars
    /\ WF_vars(Main)
    /\ WF_vars(stage = "remote" /\ (Rise \/ Fall) /\ TIM1_IRQHandlers)
    /\ WF_vars(stage = "remote" /\ line = Idle /\ Overflow /\ TIM1_IRQHandlers)

-----------------------------------------------------------------------------
(* Properties.                                                             *)

TypeOK ==
    /\ KeyType /\ UsbType /\ RemoteType
    /\ stage \in Stage /\ second \in BOOLEAN /\ status \in SUBSET Key

\* However the tester holds, adds and releases keys, and whichever stages ask:
\* one press is answered once, so that it never ends two stages.
PressTakenOnce == TakenOnce

\* The key that the loop of a stage ends on.  Each is the one of the stage's
\* prompt but for the calibration's: the prompt (test.c:503) says KEY1, the loop
\* (509) and the function's comment (488) say WKUP.
EndKey(s) == CASE s = "calibration" -> WKUP [] s = "wav" -> KEY0 [] OTHER -> KEY1

\* Asked: that key is down alone, after all keys were seen released, and the call
\* of key_scan that comes next is one whose result is compared with it.  In
\* sdram_test that is the second of a round, since the first (766) drops KEY1; in
\* key_test no key ends the stage.
Asked ==
    /\ stage \in Keyed \ {"key"} /\ (stage = "sdram" => second)
    /\ key_up /\ pins = {EndKey(stage)}

\* Nothing takes such a press without leaving the stage.
StageKeyKept == [][Asked => Asked' \/ stage' # stage \/ pins' # pins]_vars

\* Such a press, when held, ends the stage: key_scan sees it in the end, and
\* nothing takes it before.
StageKeyEnds == StageKeyKept /\ (Asked ~> ~Asked)

\* A cable pulled is noticed within the periods the comment at test.c:192 speaks
\* of, with or without a callback, and however often the host polled before.
UnplugNoticed == (stage = "usb" /\ ~plugged) ~> (stage # "usb" \/ conn = 0)

\* An error the interrupt flags while main waits is printed in the round that
\* follows, unless one of its kind is on record.
IdleErrorsTold == round \in {"record", "conn", "key", "tick", "clear"} => due = {}

\* remote_test prints codes that were sent, in their order, each press at most
\* once, whichever pulse is damaged and whichever steps of remote_scan the edges
\* come between.  Left out is what is printed while torn: a call during which a
\* bit comes in may check the address and read the key one bit further on.
CodesInOrder ==
    LET Sound == {i \in DOMAIN printed : ~printed[i].torn}
    IN  \E place \in [Sound -> DOMAIN sent] :
            /\ \A i \in Sound : printed[i].code = sent[place[i]]
            /\ \A i, j \in Sound : i < j =>
                   IF i..j \subseteq Sound THEN place[i] < place[j] ELSE place[i] <= place[j]

\* A key whose frame finds the receiver at rest and comes through whole is
\* answered by remote_scan.
FrameAnswered ==
    \A i \in 1..MaxFrames : i \in owed ~> i \notin owed

=============================================================================
