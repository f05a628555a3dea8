------------------------------ MODULE UsbWatch ------------------------------
(***************************************************************************)
(* What usb_test (test.c) and the USB interrupt (usbd_storage.c,           *)
(* usbd_conf.c) share: g_usb_state_reg and g_device_state.  The callbacks  *)
(* of the mass-storage class run in the interrupt, so that each is one     *)
(* step between two steps of main; main reads the flags several times per  *)
(* round, with printf and delays in between, and clears them by a store.   *)
(*                                                                         *)
(* The transfers themselves are the requests of Ftl and Norflash; here a   *)
(* transfer ends well or with an error.  A component to be composed: the   *)
(* call of key_scan inside the loop is the composing module's.             *)
(***************************************************************************)
EXTENDS Integers

CONSTANTS
    Dirs,          \* of "write" and "read", what the host does
    Period,        \* 200, rounds between two looks at the poll flag
    OfflineMax,    \* 10, periods without a poll
    ByteValues     \* 256, where offline_cnt wraps

VARIABLES
    round,         \* where main is in the loop of usb_test
    reg,           \* g_usb_state_reg: busy bits 0-1, error bits 2-3, poll bit 4
    usb_sta,       \* main's copy of it
    conn,          \* g_device_state
    tct,           \* main's counter of rounds
    offline_cnt,   \* periods without a poll
    plugged,       \* the cable is in
    due            \* errors flagged while main waited, of a kind not yet
                   \* recorded and not told since (history)

UsbVars == <<round, reg, usb_sta, conn, tct, offline_cnt, plugged, due>>

Flags == [busy : SUBSET Dirs, err : SUBSET Dirs, poll : BOOLEAN]
Clear == [busy |-> {}, err |-> {}, poll |-> FALSE]

UsbType ==
    /\ round \in {"wait", "tell write", "tell read", "record", "conn", "key", "tick", "clear"}
    /\ reg \in Flags /\ usb_sta \in Flags
    /\ conn \in 0..1
    /\ tct \in 0..Period-1
    /\ offline_cnt \in 0..ByteValues-1
    /\ plugged \in BOOLEAN
    /\ due \in SUBSET Dirs

\* usb_sta is not initialised: it holds anything.
UsbInit ==
    /\ round = "wait"
    /\ reg = Clear /\ usb_sta \in Flags
    /\ conn = 0
    /\ tct = 0 /\ offline_cnt = 0
    /\ plugged = TRUE /\ due = {}

\* After USBD_Stop no callback comes; main's locals are gone, and nothing looks
\* at the flags again.
UsbOff ==
    /\ round' = "wait" /\ reg' = Clear /\ usb_sta' = Clear /\ conn' = 0
    /\ tct' = 0 /\ offline_cnt' = 0 /\ plugged' = FALSE /\ due' = {}

-----------------------------------------------------------------------------
(* The USB interrupt.                                                      *)

STORAGE_IsReady_FS ==
    /\ plugged
    /\ reg' = [reg EXCEPT !.poll = TRUE]
    /\ UNCHANGED <<round, usb_sta, conn, tct, offline_cnt, plugged, due>>

\* STORAGE_Write_FS and STORAGE_Read_FS differ in their bits, and in that the
\* latter does not return the error.
Transfer(d, failed) ==
    /\ plugged
    /\ reg' = [reg EXCEPT !.busy = @ \cup {d}, !.err = IF failed THEN @ \cup {d} ELSE @]
    /\ due' = IF failed /\ round = "wait" /\ d \notin usb_sta.err THEN due \cup {d} ELSE due
    /\ UNCHANGED <<round, usb_sta, conn, tct, offline_cnt, plugged>>

\* g_device_state alone is set; the rest of these callbacks is the library's.
DeviceState(state) ==
    /\ plugged
    /\ conn' = state
    /\ UNCHANGED <<round, reg, usb_sta, tct, offline_cnt, plugged, due>>

HAL_PCD_SuspendCallback == DeviceState(0)
HAL_PCD_ConnectCallback == DeviceState(1)
HAL_PCD_DisconnectCallback == DeviceState(0)
USBD_LL_SetUSBAddress == DeviceState(1)

\* The cable is pulled.  Without VBUS sensing no callback need follow.
Unplug ==
    /\ plugged /\ plugged' = FALSE
    /\ UNCHANGED <<round, reg, usb_sta, conn, tct, offline_cnt, due>>

Interrupt ==
    \/ STORAGE_IsReady_FS
    \/ \E d \in Dirs, failed \in BOOLEAN : Transfer(d, failed)
    \/ HAL_PCD_SuspendCallback
    \/ HAL_PCD_ConnectCallback
    \/ HAL_PCD_DisconnectCallback
    \/ USBD_LL_SetUSBAddress

-----------------------------------------------------------------------------
(* A round of usb_test.                                                    *)

\* Seeded fault: only the busy bits are compared.
CompareBusy ==
    /\ round = "wait"
    /\ round' = IF usb_sta.busy # reg.busy THEN "tell write" ELSE "conn"
    /\ UNCHANGED <<reg, usb_sta, conn, tct, offline_cnt, plugged, due>>

Compare ==
    /\ round = "wait"
    /\ round' = IF usb_sta # reg THEN "tell write" ELSE "conn"
    /\ UNCHANGED <<reg, usb_sta, conn, tct, offline_cnt, plugged, due>>

\* The tests of the error bits, in order; those of the busy bits come before
\* them and only print.
TellError(d, next) ==
    /\ round' = next
    /\ due' = IF d \in reg.err THEN due \ {d} ELSE due
    /\ UNCHANGED <<reg, usb_sta, conn, tct, offline_cnt, plugged>>

Tell ==
    \/ round = "tell write" /\ TellError("write", "tell read")
    \/ round = "tell read" /\ TellError("read", "record")

\* The register is read once more, not the value that was tested.
Record ==
    /\ round = "record"
    /\ usb_sta' = reg
    /\ round' = "conn"
    /\ UNCHANGED <<reg, conn, tct, offline_cnt, plugged, due>>

\* Lines 155-169: what is printed of g_device_state, and tct++.
Connection ==
    /\ round = "conn"
    /\ tct' = (tct + 1) % Period
    /\ round' = "key"
    /\ UNCHANGED <<reg, usb_sta, conn, offline_cnt, plugged, due>>

\* Every Period rounds: was there a poll?
Tick ==
    /\ round = "tick"
    /\ \/ /\ tct # 0
          /\ round' = "wait"
          /\ UNCHANGED <<conn, offline_cnt>>
       \/ /\ tct = 0 /\ reg.poll
          /\ offline_cnt' = 0 /\ conn' = 1
          /\ round' = "clear"
       \/ /\ tct = 0 /\ ~reg.poll
          /\ offline_cnt' = (offline_cnt + 1) % ByteValues
          /\ conn' = IF offline_cnt' > OfflineMax THEN 0 ELSE conn
          /\ round' = "clear"
    /\ UNCHANGED <<reg, usb_sta, tct, plugged, due>>

\* Seeded fault: the flags are not cleared.
ClearNothing ==
    /\ round = "clear"
    /\ round' = "wait"
    /\ UNCHANGED <<reg, usb_sta, conn, tct, offline_cnt, plugged, due>>

\* g_usb_state_reg = 0, with everything set since the tests.
ClearFlags ==
    /\ round = "clear"
    /\ reg' = Clear
    /\ round' = "wait"
    /\ UNCHANGED <<usb_sta, conn, tct, offline_cnt, plugged, due>>

\* Without the call of key_scan at round "key".
Watch == Compare \/ Tell \/ Record \/ Connection \/ Tick \/ ClearFlags

=============================================================================
