---------------------------- MODULE WavPlayProofs ---------------------------
(***************************************************************************)
(* What the player keeps for every buffer size and music folder.           *)
(***************************************************************************)
EXTENDS WavPlay, FiniteSetTheorems, TLAPS

-----------------------------------------------------------------------------
(* Types.                                                                  *)

Playing == pc \notin {"idle", "end"}

(* The file is one of the folder, and while it plays no more is read than  *)
(* it holds.                                                               *)
Shapes ==
    /\ pc \in {"idle", "wait", "fill", "filling", "keys", "stop", "end"}
    /\ files \in Seq([len : Nat, bits : {16, 24}]) /\ files # <<>>
    /\ curindex \in 0..Len(files)-1 /\ pos \in Nat
    /\ saibuf \in [{0, 1} -> [Cells -> Int]] /\ fillnum \in 0..Size
    /\ playing \in BOOLEAN /\ on \in BOOLEAN /\ wavtransferend \in BOOLEAN
    /\ ct \in {0, 1} /\ wavwitchbuf \in {0, 1}
    /\ into \in {0, 1} /\ owed \in BOOLEAN
    /\ songs \in Nat /\ pauses \in Nat /\ late \in Nat

Typed == Shapes /\ (Playing => pos \in 0..File.len)

LEMMA SizeType == Size \in Nat \ {0}
BY WavAssumption

LEMMA FileType ==
    ASSUME Shapes
    PROVE  File.len \in Nat
<1>1. Len(files) \in Nat /\ curindex \in 0..Len(files)-1
    BY DEF Shapes
<1>2. curindex + 1 \in 1..Len(files)
    BY <1>1
<1>3. File \in [len : Nat, bits : {16, 24}]
    <2> DEFINE Files == [len : Nat, bits : {16, 24}]
    <2>1. files \in Seq(Files)
        BY DEF Shapes
    <2> HIDE DEF Files
    <2>2. \A i \in 1..Len(files) : files[i] \in Files
        BY <2>1
    <2>3. File \in Files
        BY <1>2, <2>2 DEF File
    <2> QED
        BY <2>3 DEF Files
<1> QED
    BY <1>3

(* A read stays inside the file and the buffer.                            *)
LEMMA ReadType ==
    ASSUME Shapes, NEW p \in 0..File.len
    PROVE  Bread(p) \in 0..Size /\ p + Bread(p) \in 0..File.len
BY SizeType, FileType DEF Bread

LEMMA FillType ==
    ASSUME Shapes, NEW p \in 0..File.len, NEW old \in [Cells -> Int]
    PROVE  wav_buffill(p, old) \in [Cells -> Int]
<1>1. Bread(p) \in Int
    BY ReadType, SizeType
<1>2. ASSUME NEW k \in Cells
      PROVE  (IF k <= Bread(p) THEN p + k ELSE IF File.bits = 24 THEN Noise
              ELSE IF k <= Size - Bread(p) THEN Silence ELSE old[k]) \in Int
    <2>1. k \in Int /\ p \in Int /\ old[k] \in Int /\ Noise \in Int /\ Silence \in Int
        BY SizeType, FileType DEF Cells, Noise, Silence
    <2> QED
        BY <2>1
<1> QED
    BY <1>2 DEF wav_buffill

LEMMA InitTyped == Init => Typed
<1> SUFFICES ASSUME Init PROVE Typed
    OBVIOUS
<1>1. files \in Seq([len : Nat, bits : {16, 24}]) /\ files # <<>>
    BY WavAssumption DEF Init
<1>2. 0 \in 0..Len(files)-1 /\ 0 \in 0..Size
    BY <1>1, SizeType
<1>3. [i \in {0, 1} |-> [k \in Cells |-> Noise]] \in [{0, 1} -> [Cells -> Int]]
    BY DEF Noise
<1> QED
    BY <1>1, <1>2, <1>3 DEF Init, Typed, Shapes, Playing

LEMMA NextTyped ==
    ASSUME Typed, [Next]_vars
    PROVE  Typed'
<1>1. CASE Open
    <2> DEFINE raw == [k \in Cells |-> Noise]
    <2>1. 0 \in 0..File.len /\ raw \in [Cells -> Int]
        BY FileType DEF Typed, Noise
    <2>2. Bread(0) \in 0..File.len /\ Bread(0) \in 0..Size
        BY <2>1, ReadType, FileType, SizeType DEF Typed
    <2>3. Bread(Bread(0)) \in 0..Size /\ Bread(0) + Bread(Bread(0)) \in 0..File.len
        BY <2>2, ReadType DEF Typed
    <2>4. wav_buffill(0, raw) \in [Cells -> Int] /\ wav_buffill(Bread(0), raw) \in [Cells -> Int]
        BY <2>1, <2>2, FillType DEF Typed
    <2>5. File' = File
        BY <1>1 DEF Open, File
    <2>6. pos' \in Nat
        BY <1>1, <2>3, FileType DEF Open, Typed
    <2>7. saibuf' \in [{0, 1} -> [Cells -> Int]]
        BY <1>1, <2>4 DEF Open
    <2>8. /\ UNCHANGED <<files, curindex, into, wavtransferend, wavwitchbuf>>
          /\ fillnum' = Bread(Bread(0)) /\ pos' = Bread(0) + Bread(Bread(0))
          /\ playing' = TRUE /\ on' = TRUE /\ ct' = 0 /\ songs' = songs + 1 /\ pauses' = 0
          /\ owed' = wavtransferend /\ late' = 0
          /\ pc' = "wait"
        BY <1>1 DEF Open
    <2> HIDE DEF raw
    <2> QED
        BY <2>3, <2>5, <2>6, <2>7, <2>8 DEF Typed, Shapes, Playing
<1>2. CASE Fill
    <2>1. Bread(pos) \in 0..Size /\ pos + Bread(pos) \in 0..File.len
        BY <1>2, ReadType DEF Fill, Typed, Playing
    <2>2. saibuf[into] \in [Cells -> Int] /\ wav_buffill(pos, saibuf[into]) \in [Cells -> Int]
        BY <1>2, FillType DEF Fill, Typed, Shapes, Playing
    <2>3. File' = File
        BY <1>2 DEF Fill, File
    <2>4. pos' \in Nat
        BY <1>2, <2>1, FileType DEF Fill, Typed
    <2>5. saibuf' \in [{0, 1} -> [Cells -> Int]]
        <3> DEFINE new == wav_buffill(pos, saibuf[into])
                   B(passed) == [k \in Cells |-> IF k \in passed THEN saibuf[into][k] ELSE new[k]]
        <3>1. PICK passed \in Passed : saibuf' = [saibuf EXCEPT ![into] = B(passed)]
            BY <1>2 DEF Fill
        <3>2. B(passed) \in [Cells -> Int]
            BY <2>2
        <3> HIDE DEF B
        <3> QED
            BY <3>1, <3>2 DEF Typed, Shapes
    <2>6. owed' \in BOOLEAN /\ fillnum' = Bread(pos) /\ pos' = pos + Bread(pos) /\ pc' = "keys"
          /\ pc = "filling"
          /\ UNCHANGED <<files, curindex, into, playing, ct, on, wavtransferend, wavwitchbuf, songs,
                         pauses, late>>
        BY <1>2 DEF Fill, Typed, Shapes
    <2> QED
        BY <2>1, <2>3, <2>4, <2>5, <2>6 DEF Typed, Shapes, Playing
<1>3. CASE OpenFails \/ Take \/ Choose \/ (\E key : Keys(key)) \/ UNCHANGED vars
    <2>1. UNCHANGED <<files, curindex, pos, saibuf, fillnum, on, ct, wavwitchbuf, songs, late>>
        BY <1>3 DEF OpenFails, Take, Choose, Keys, vars
    <2>2. /\ pc' \in {"idle", "wait", "fill", "filling", "keys", "stop", "end"}
          /\ pc' \notin {"idle", "end"} => Playing
          /\ playing' \in BOOLEAN /\ wavtransferend' \in BOOLEAN /\ pauses' \in Nat
          /\ owed' \in BOOLEAN /\ into' \in {0, 1}
        <3>1. playing \in BOOLEAN /\ wavtransferend \in BOOLEAN /\ pauses \in Nat
              /\ owed \in BOOLEAN /\ into \in {0, 1} /\ wavwitchbuf \in {0, 1}
              /\ pc \in {"idle", "wait", "fill", "filling", "keys", "stop", "end"}
            BY DEF Typed, Shapes
        <3>2. CASE OpenFails \/ UNCHANGED vars
            BY <3>1, <3>2 DEF OpenFails, vars, Playing
        <3>3. CASE Take
            BY <3>1, <3>3 DEF Take, Playing
        <3>6. CASE Choose
            BY <3>1, <3>6 DEF Choose, Playing
        <3>4. ASSUME NEW key, Keys(key)
              PROVE  /\ pc = "keys" /\ pc' \in {"wait", "keys", "stop"}
                     /\ playing' \in BOOLEAN /\ wavtransferend' = wavtransferend
                     /\ pauses' \in {pauses, pauses + 1}
                     /\ owed' \in BOOLEAN /\ into' = into
            <4>1. playing' \in {playing, ~playing}
                BY <3>4 DEF Keys
            <4>2. pc = "keys" /\ pc' \in {"wait", "keys", "stop"} /\ wavtransferend' = wavtransferend
                  /\ owed' \in {owed, FALSE} /\ into' = into
                BY <3>4 DEF Keys
            <4>3. pauses' \in {pauses, pauses + 1}
                BY <3>4 DEF Keys
            <4> QED
                BY <3>1, <4>1, <4>2, <4>3
        <3>5. ASSUME NEW key, Keys(key) PROVE pauses' \in Nat /\ pc = "keys"
            BY <3>1, <3>4, <3>5
        <3> QED
            BY <1>3, <3>1, <3>2, <3>3, <3>4, <3>5, <3>6 DEF Playing
    <2>3. File' = File
        BY <2>1 DEF File
    <2> QED
        BY <2>1, <2>2, <2>3 DEF Typed, Shapes, Playing
<1>4. CASE Stop
    <2>1. curindex' \in 0..Len(files)-1
        BY <1>4 DEF Stop, Typed, Shapes
    <2> QED
        BY <1>4, <2>1 DEF Stop, Typed, Shapes, Playing
<1>5. CASE wav_sai_dma_tx_callback
    <2>1. UNCHANGED <<pc, files, curindex, pos, into, fillnum, playing, on, songs, pauses>>
          /\ ct' = 1 - ct /\ wavwitchbuf' = ct /\ wavtransferend' = TRUE
          /\ owed' = playing /\ late' \in {late, late + 1}
        BY <1>5 DEF wav_sai_dma_tx_callback, Finished
    <2>2. saibuf' \in [{0, 1} -> [Cells -> Int]]
        <3>1. [k \in Cells |-> Silence] \in [Cells -> Int]
            BY DEF Silence
        <3> QED
            BY <1>5, <3>1 DEF wav_sai_dma_tx_callback, Silenced, Typed, Shapes
    <2>3. File' = File
        BY <2>1 DEF File
    <2> QED
        BY <2>1, <2>2, <2>3 DEF Typed, Shapes, Playing
<1> QED
    BY <1>1, <1>2, <1>3, <1>4, <1>5 DEF Next, Main

LEMMA TypedAlways == Spec => []Typed
BY InitTyped, NextTyped, PTL DEF Spec

\* Reading stays inside the file, filling inside the buffer, and the songs that
\* are chosen inside the folder, whatever keys are pressed.
THEOREM PlayerTypes == Spec => []TypeOK
<1>1. Typed => TypeOK
    BY DEF Typed, Shapes, Playing, TypeOK
<1> QED
    BY <1>1, TypedAlways, PTL

-----------------------------------------------------------------------------
(* What is late.                                                           *)

Refilling == pc \in {"fill", "filling"}

(* A refill that no pause has untied from its transfer is owed; the stream  *)
(* runs only in a song.                                                    *)
Tied ==
    /\ on => Playing
    /\ pc \in {"wait", "fill", "filling"} => playing
    /\ late <= pauses
    /\ Playing /\ pc # "stop" =>
          /\ playing \/ late < pauses
          /\ wavtransferend \/ Refilling => owed \/ late < pauses

(* In the first song the handler's flag is its own: with it comes the      *)
(* buffer that is not being sent; and a second transfer does not end in    *)
(* one refill.                                                             *)
Named ==
    /\ Refilling /\ wavtransferend => owed
    /\ songs = 0 => pc \in {"idle", "end"} /\ ~on /\ ~wavtransferend
    /\ songs <= 1 =>
        /\ pc = "fill" \/ (Playing /\ wavtransferend) => wavwitchbuf # ct
        /\ pc = "filling" /\ ~wavtransferend => into # ct

LEMMA NextTied ==
    ASSUME Typed, Tied, [Next]_vars
    PROVE  Tied'
<1>0. late \in Nat /\ pauses \in Nat /\ playing \in BOOLEAN /\ owed \in BOOLEAN /\ wavtransferend \in BOOLEAN
    BY DEF Typed, Shapes
<1>1. CASE Open
    BY <1>1 DEF Open, Tied, Playing, Refilling
<1>2. CASE OpenFails \/ Stop
    <2>1. UNCHANGED <<late, pauses>> /\ pc' \in {"idle", "end"} /\ (on' => on /\ ~Playing)
        BY <1>2 DEF OpenFails, Stop, Playing
    <2> QED
        BY <2>1 DEF Tied, Playing
<1>3. CASE Take \/ Choose
    <2>1. UNCHANGED <<on, late, pauses, playing, owed>> /\ pc' \in {"stop", "fill", "filling"}
          /\ pc \in {"wait", "fill"} /\ (wavtransferend' => wavtransferend)
          /\ (wavtransferend \/ Refilling)
        BY <1>3 DEF Take, Choose, Refilling
    <2> QED
        BY <2>1 DEF Tied, Playing
<1>4. CASE Fill
    <2>1. UNCHANGED <<on, late, pauses, playing, wavtransferend>> /\ pc' = "keys" /\ pc = "filling"
          /\ owed' = (owed /\ wavtransferend)
        BY <1>4 DEF Fill
    <2> QED
        BY <2>1 DEF Tied, Playing, Refilling
<1>5. ASSUME NEW key, Keys(key) PROVE Tied'
    <2>1. UNCHANGED <<on, late, wavtransferend>> /\ pc = "keys"
        BY <1>5 DEF Keys
    <2>2. CASE key = "WKUP"
        <3>1. playing' = ~playing /\ pauses' = (IF playing THEN pauses + 1 ELSE pauses) /\ owed' = FALSE
              /\ pc' = IF playing' THEN "wait" ELSE "keys"
            BY <1>5, <2>2 DEF Keys
        <3>2. late < pauses'
            BY <1>0, <2>1, <3>1 DEF Tied, Playing
        <3>3. late <= pauses'
            BY <1>0, <2>1, <3>1, <3>2 DEF Tied, Playing
        <3> QED
            BY <2>1, <3>1, <3>2, <3>3 DEF Tied, Playing
    <2>3. CASE key # "WKUP"
        <3>1. UNCHANGED <<playing, owed, pauses>> /\ (pc' = "stop" \/ (pc' = "wait" /\ playing))
            BY <1>5, <2>3 DEF Keys
        <3> QED
            BY <2>1, <3>1 DEF Tied, Playing, Refilling
    <2> QED
        BY <2>2, <2>3
<1>6. CASE wav_sai_dma_tx_callback
    <2>1. on /\ ~owed /\ UNCHANGED <<pc, playing, on, pauses>> /\ owed' = playing
          /\ late' = IF Refilling THEN late + 1 ELSE late
        BY <1>6 DEF wav_sai_dma_tx_callback, Refilling
    <2>2. Refilling => late < pauses /\ playing
        BY <2>1 DEF Tied, Refilling, Playing
    <2>3. late' <= pauses
        BY <1>0, <2>1, <2>2 DEF Tied
    <2>4. ~Refilling => late' = late
        BY <2>1
    <2> QED
        BY <2>1, <2>2, <2>3, <2>4 DEF Tied, Playing, Refilling
<1>7. CASE UNCHANGED vars
    BY <1>7 DEF vars, Tied, Playing, Refilling
<1> QED
    BY <1>1, <1>2, <1>3, <1>4, <1>5, <1>6, <1>7 DEF Next, Main

LEMMA TiedAlways == Spec => []Tied
<1>1. Init => Tied
    BY DEF Init, Tied, Playing
<1> QED
    BY <1>1, NextTied, TypedAlways, PTL DEF Spec

\* In every song a transfer ends inside a refill at most once for each pause: a
\* refill that waited for its transfer is done before the next, and only what a
\* pause has left in wavtransferend starts one at another moment.
THEOREM OnlyAfterPause == Spec => []LateAfterPause
<1>1. Tied => LateAfterPause
    BY DEF Tied, LateAfterPause
<1> QED
    BY <1>1, TiedAlways, PTL

LEMMA NextNamed ==
    ASSUME Typed, Tied, Named, [Next]_vars
    PROVE  Named'
<1>0. songs \in Nat /\ ct \in {0, 1} /\ wavwitchbuf \in {0, 1} /\ into \in {0, 1}
    BY DEF Typed, Shapes
<1>1. CASE Open
    <2>1. songs' = songs + 1 /\ pc' = "wait" /\ wavtransferend' = wavtransferend
        BY <1>1 DEF Open
    <2>2. songs' <= 1 => songs = 0
        BY <1>0, <2>1
    <2>3. songs' # 0
        BY <1>0, <2>1
    <2> QED
        BY <2>1, <2>2, <2>3 DEF Named, Refilling
<1>2. CASE OpenFails \/ Stop
    <2>1. UNCHANGED <<songs, wavtransferend>> /\ pc' \in {"idle", "end"} /\ (on' => on)
        BY <1>2 DEF OpenFails, Stop
    <2> QED
        BY <2>1 DEF Named, Playing, Refilling
<1>3. CASE Take
    <2>1. ~wavtransferend' /\ wavtransferend /\ UNCHANGED <<songs, ct, wavwitchbuf, on>>
          /\ pc = "wait" /\ pc' \in {"stop", "fill"}
        BY <1>3 DEF Take
    <2> QED
        BY <2>1 DEF Named, Playing, Refilling
<1>4. CASE Choose
    <2>1. UNCHANGED <<songs, ct, wavwitchbuf, on, wavtransferend, owed>> /\ into' = wavwitchbuf
          /\ pc = "fill" /\ pc' = "filling"
        BY <1>4 DEF Choose
    <2> QED
        BY <2>1 DEF Named, Playing, Refilling
<1>5. CASE Fill \/ (\E key : Keys(key))
    <2>1. UNCHANGED <<songs, wavtransferend, ct, wavwitchbuf, on>> /\ pc \in {"filling", "keys"}
          /\ pc' \in {"keys", "wait", "stop"}
        BY <1>5 DEF Fill, Keys
    <2> QED
        BY <2>1 DEF Named, Playing, Refilling
<1>6. CASE wav_sai_dma_tx_callback
    <2>1. on /\ songs' = songs /\ ct' = 1 - ct /\ wavwitchbuf' = ct /\ owed' = playing /\ pc' = pc
          /\ wavtransferend' = TRUE
        BY <1>6 DEF wav_sai_dma_tx_callback, Finished
    <2>2. ct' # wavwitchbuf'
        BY <1>0, <2>1
    <2>3. Refilling => playing
        BY DEF Tied, Refilling
    <2> QED
        BY <2>1, <2>2, <2>3 DEF Named, Refilling
<1>7. CASE UNCHANGED vars
    BY <1>7 DEF vars, Named, Playing, Refilling
<1> QED
    BY <1>1, <1>2, <1>3, <1>4, <1>5, <1>6, <1>7 DEF Next, Main

LEMMA NamedAlways == Spec => []Named
<1>1. Init => Named
    BY DEF Init, Named, Playing, Refilling
<1> QED
    BY <1>1, NextNamed, TypedAlways, TiedAlways, PTL DEF Spec

-----------------------------------------------------------------------------
(* The pieces that are heard.                                              *)

\* The pieces up to h were heard but for those of L, and none behind.
Heard(h, L) ==
    /\ \A p \in 1..h : p \in L \/ \E j \in 1..Len(heard) : heard[j] = p
    /\ \A j \in 1..Len(heard) : heard[j] <= h

\* Nothing in a buffer comes from behind p.
Upto(b, p) == \A k \in Cells : b[k] <= p

\* After the pieces up to h a buffer brings those up to g but for those of L,
\* and at each cell there are before it those that come before it in the song.
Brings(b, h, g, L) ==
    /\ Upto(b, g)
    /\ \A p \in h+1..g : p \in L \/ \E j \in Cells : b[j] = p
    /\ \A k \in Cells : \A p \in h+1..b[k] : p \in L \/ \E j \in 1..k : b[j] = p

\* The lost pieces and n more are paid for.
Paid(L, n) == Cardinality(L) + n <= Size * late

\* Nothing waits to be refilled.
Fresh ==
    \E h, g \in 0..pos : \E L \in SUBSET (1..pos) :
        /\ Heard(h, L) /\ Brings(saibuf[ct], h, g, L) /\ Brings(saibuf[1 - ct], g, pos, L)
        /\ h <= g /\ g + fillnum = pos /\ Paid(L, 0)

\* The buffer that is not being sent was sent.  When the other one ends inside
\* the refill, a buffer will be lost.
Sent ==
    \E h \in 0..pos : \E L \in SUBSET (1..pos) :
        /\ Heard(h, L) /\ Brings(saibuf[ct], h, pos, L) /\ Upto(saibuf[1 - ct], h)
        /\ pos <= h + fillnum
        /\ IF Refilling /\ wavtransferend THEN h = pos /\ Paid(L, Size) ELSE Paid(L, 0)

\* After such a refill: the flag tells of the buffer just filled.
Ahead ==
    \E h \in 0..pos : \E L \in SUBSET (1..pos) :
        /\ Heard(h, L) /\ Upto(saibuf[ct], h) /\ Brings(saibuf[1 - ct], h, pos, L)
        /\ h + fillnum = pos /\ Paid(L, fillnum)

Spent == wavtransferend \/ Refilling \/ (pc = "stop" /\ res = "over")

InStep ==
    /\ Spent => Sent \/ (wavtransferend /\ pc \in {"wait", "keys", "stop"} /\ res # "over" /\ Ahead)
    /\ ~Spent => Fresh

\* All reads but the last fill the buffer.
Pace ==
    /\ Refilling => fillnum = Size
    /\ pc = "stop" /\ res = "over" => fillnum # Size
    /\ pc \in {"wait", "fill", "filling", "keys"} => res # "over"
    /\ fillnum < Size => pos = File.len
    /\ File.len < Size \/ \E q \in Nat : pos = Size * q + fillnum

InSong ==
    /\ heard \in Seq(Int)
    /\ songs <= 1 => NoSkip /\ (Playing => Pace /\ InStep)

(* A buffer with nothing from behind h brings nothing.                     *)
LEMMA Idle ==
    ASSUME NEW b \in [Cells -> Int], NEW h \in Int, NEW g \in Int, h <= g, Upto(b, h), NEW L
    PROVE  Upto(b, g) /\ Brings(b, g, g, L)
<1>1. ASSUME NEW k \in Cells PROVE b[k] \in Int /\ b[k] <= g
    <2>1. b[k] \in Int /\ b[k] <= h
        BY DEF Upto
    <2> QED
        BY <2>1
<1>2. Upto(b, g)
    BY <1>1 DEF Upto
<1>3. \A p \in g+1..g : p \in L \/ \E j \in Cells : b[j] = p
    OBVIOUS
<1>4. \A k \in Cells : \A p \in g+1..b[k] : p \in L \/ \E j \in 1..k : b[j] = p
    BY <1>1
<1> QED
    BY <1>2, <1>3, <1>4 DEF Brings

(* Filling puts the next pieces into a buffer; what it leaves was heard.   *)
LEMMA FillBrings ==
    ASSUME Shapes, NEW p \in 0..File.len, NEW old \in [Cells -> Int], Upto(old, p), NEW L
    PROVE  Brings(wav_buffill(p, old), p, p + Bread(p), L)
<1> DEFINE n == Bread(p)
           b == wav_buffill(p, old)
<1>1. p \in Nat /\ n \in 0..Size /\ Size \in Nat
    BY FileType, ReadType, SizeType
<1>2. ASSUME NEW k \in Cells
      PROVE  IF k <= n THEN b[k] = p + k ELSE b[k] <= p
    <2>1. b[k] =
            (IF k <= n THEN p + k ELSE IF File.bits = 24 THEN Noise
             ELSE IF k <= Size - n THEN Silence ELSE old[k])
        BY DEF wav_buffill
    <2>2. Noise <= p /\ Silence <= p /\ old[k] <= p
        BY <1>1 DEF Noise, Silence, Upto
    <2> HIDE DEF n, b
    <2> QED
        BY <2>1, <2>2
<1>3. b \in [Cells -> Int]
    BY FillType
<1> HIDE DEF n, b
<1>4. ASSUME NEW k \in Cells PROVE k \in Int /\ k >= 1 /\ k <= Size /\ b[k] \in Int /\ b[k] <= p + n
    <2>1. k \in Int /\ k >= 1 /\ k <= Size /\ b[k] \in Int
        BY <1>1, <1>3 DEF Cells
    <2> QED
        BY <1>1, <1>2, <2>1
<1>5. ASSUME NEW q \in p+1..p+n PROVE \E j \in Cells : b[j] = q
    <2>1. q - p \in Cells /\ q - p <= n /\ p + (q - p) = q
        BY <1>1 DEF Cells
    <2> QED
        BY <1>2, <2>1
<1>6. ASSUME NEW k \in Cells, NEW q \in p+1..b[k] PROVE \E j \in 1..k : b[j] = q
    <2>1. b[k] > p
        BY <1>1, <1>4
    <2>2. k <= n /\ b[k] = p + k
        BY <1>1, <1>2, <1>4, <2>1
    <2>3. q - p \in Cells /\ q - p <= n /\ p + (q - p) = q /\ q - p \in 1..k
        BY <1>1, <1>4, <2>2 DEF Cells
    <2> QED
        BY <1>2, <2>3
<1>7. Brings(b, p, p + n, L)
    BY <1>4, <1>5, <1>6 DEF Brings, Upto
<1> QED
    BY <1>7 DEF b, n

(* Lost pieces are few.                                                    *)
LEMMA LostType ==
    ASSUME NEW p \in Nat, NEW L \in SUBSET (1..p)
    PROVE  IsFiniteSet(L) /\ Cardinality(L) \in Nat
<1>1. IsFiniteSet(1..p)
    BY FS_Interval
<1>2. IsFiniteSet(L)
    BY <1>1, FS_Subset
<1> QED
    BY <1>2, FS_CardinalityType

(* A transfer that ends inside a refill pays for a buffer.                 *)
LEMMA Pays ==
    ASSUME NEW l \in Nat
    PROVE  Size * l \in Nat /\ Size * (l + 1) = Size * l + Size
<1>1. Size \in Nat
    BY SizeType
<1> QED
    BY <1>1

LEMMA LoseMore ==
    ASSUME NEW a \in Nat, NEW c \in Nat, a <= c, NEW L \in SUBSET (1..c)
    PROVE  /\ L \cup (a+1..c) \in SUBSET (1..c)
           /\ Cardinality(L \cup (a+1..c)) \in Nat
           /\ Cardinality(L \cup (a+1..c)) <= Cardinality(L) + (c - a)
<1> DEFINE I == a+1..c
           M == L \cup I
<1>1. I \subseteq 1..c /\ IsFiniteSet(I) /\ Cardinality(I) = c - a
    <2>1. IsFiniteSet(I) /\ Cardinality(I) = IF a + 1 > c THEN 0 ELSE c - (a + 1) + 1
        BY FS_Interval
    <2> QED
        BY <2>1
<1> HIDE DEF I
<1>2. M \in SUBSET (1..c) /\ I \in SUBSET (1..c) /\ L \cap I \in SUBSET (1..c)
    BY <1>1
<1>3. /\ IsFiniteSet(L) /\ Cardinality(L) \in Nat
      /\ Cardinality(M) \in Nat /\ Cardinality(L \cap I) \in Nat
    BY <1>2, LostType
<1>4. Cardinality(M) = Cardinality(L) + Cardinality(I) - Cardinality(L \cap I)
    BY <1>1, <1>3, FS_Union
<1>5. Cardinality(M) <= Cardinality(L) + (c - a)
    BY <1>1, <1>3, <1>4
<1> QED
    BY <1>2, <1>3, <1>5 DEF M, I

(* Sending a buffer that brings what comes next.                           *)
LEMMA SendHeard ==
    ASSUME Shapes, heard \in Seq(Int), NoSkip, wav_sai_dma_tx_callback,
           NEW h \in Nat, NEW g \in Nat, h <= g, NEW L \in SUBSET (1..pos),
           Heard(h, L), Brings(saibuf[ct], h, g, L), Paid(L, 0)
    PROVE  /\ heard' \in Seq(Int) /\ NoSkip'
           /\ \A p \in 1..g : p \in L \/ \E j \in 1..Len(heard') : heard'[j] = p
           /\ \A j \in 1..Len(heard') : heard'[j] <= g
<1> DEFINE b == saibuf[ct]
           n == Len(heard)
<1>0. Size \in Nat \ {0} /\ Cells = 1..Size /\ n \in Nat /\ b \in [1..Size -> Int]
    <2>1. n \in Nat
        OBVIOUS
    <2>2. b \in [Cells -> Int]
        BY DEF Shapes
    <2> QED
        BY SizeType, <2>1, <2>2 DEF Cells
<1>1. /\ \A k \in 1..Size : b[k] <= g
      /\ \A p \in h+1..g : p \in L \/ \E j \in 1..Size : b[j] = p
      /\ \A k \in 1..Size : \A p \in h+1..b[k] : p \in L \/ \E j \in 1..k : b[j] = p
    BY <1>0 DEF Brings, Upto
<1>2. heard' = IF \E k \in Cells : b[k] > 0 THEN heard \o b ELSE heard
    BY DEF wav_sai_dma_tx_callback
<1>3. Size * late \in Nat /\ Size * late' \in Nat /\ Size * late' >= Size * late
    <2>1. late \in Nat /\ late' \in {late, late + 1}
        BY DEF wav_sai_dma_tx_callback, Shapes
    <2>2. Size * late \in Nat /\ Size * (late + 1) = Size * late + Size
        BY <2>1, Pays
    <2>3. CASE late' = late
        BY <2>2, <2>3
    <2>4. CASE late' = late + 1
        <3>1. Size * late' = Size * late + Size
            BY <2>2, <2>4
        <3> QED
            BY <1>0, <2>2, <3>1
    <2> QED
        BY <2>1, <2>3, <2>4
<1>4. IsFiniteSet(L) /\ Cardinality(L) \in Nat /\ Cardinality(L) <= Size * late'
    <2>1. IsFiniteSet(L) /\ Cardinality(L) \in Nat
        <3>1. pos \in Nat
            BY DEF Shapes
        <3> QED
            BY <3>1, LostType
    <2>2. Cardinality(L) + 0 <= Size * late
        BY DEF Paid
    <2> DEFINE c == Cardinality(L)
               x == Size * late
               y == Size * late'
    <2>3. x \in Nat /\ y \in Nat /\ y >= x /\ c \in Nat /\ c + 0 <= x
        BY <1>3, <2>1, <2>2
    <2> HIDE DEF c, x, y
    <2>4. c <= y
        BY <2>3
    <2> QED
        BY <2>1, <2>4 DEF c, y
<1>5. ASSUME NEW i \in 1..n
      PROVE  Cardinality(Unheard(heard[i], i)) <= Size * late' /\ heard[i] <= h /\ heard[i] \in Int
    <2>1. heard[i] <= h /\ heard[i] \in Int
        BY DEF Heard, n
    <2>2. Cardinality(Unheard(heard[i], i)) <= Size * late
        BY DEF NoSkip, n
    <2>3. Unheard(heard[i], i) \in SUBSET (1..h)
        BY <2>1 DEF Unheard
    <2>4. Cardinality(Unheard(heard[i], i)) \in Nat
        BY <2>3, LostType
    <2> DEFINE c == Cardinality(Unheard(heard[i], i))
               x == Size * late
               y == Size * late'
    <2>5. x \in Nat /\ y \in Nat /\ y >= x /\ c \in Nat /\ c <= x
        BY <1>3, <2>2, <2>4
    <2> HIDE DEF c, x, y
    <2>6. c <= y
        BY <2>5
    <2> QED
        BY <2>1, <2>6 DEF c, y
<1>6. CASE ~ \E k \in Cells : b[k] > 0
    <2>1. heard' = heard
        BY <1>2, <1>6
    <2>2. NoSkip'
        <3>1. \A i \in 1..n : Unheard(heard[i], i)' = Unheard(heard[i], i)
            BY <2>1 DEF Unheard
        <3> QED
            BY <1>5, <2>1, <3>1 DEF NoSkip, Unheard
    <2>3. ASSUME NEW p \in 1..g PROVE p \in L \/ \E j \in 1..n : heard[j] = p
        <3>1. CASE p <= h
            BY <3>1 DEF Heard, n
        <3>2. CASE p > h
            <4>1. p \in L \/ \E j \in 1..Size : b[j] = p
                BY <1>1, <3>2
            <4>2. \A j \in 1..Size : b[j] # p
                BY <1>0, <1>6
            <4> QED
                BY <4>1, <4>2
        <3> QED
            BY <3>1, <3>2
    <2>4. \A j \in 1..n : heard[j] <= g
        <3> SUFFICES ASSUME NEW j \in 1..n PROVE heard[j] <= g
            OBVIOUS
        <3>1. heard[j] \in Int /\ heard[j] <= h
            BY <1>5
        <3> QED
            BY <3>1
    <2> QED
        BY <2>1, <2>2, <2>3, <2>4
<1>7. CASE \E k \in Cells : b[k] > 0
    <2>1. b \in Seq(Int) /\ Len(b) = Size
        BY <1>0
    <2> HIDE DEF b
    <2>2. heard' = heard \o b
        BY <1>2, <1>7
    <2>3. /\ heard' \in Seq(Int) /\ Len(heard') = n + Size
          /\ \A i \in 1..n : heard'[i] = heard[i]
          /\ \A k \in 1..Size : heard'[n + k] = b[k]
        <3>1. heard \o b \in Seq(Int) /\ Len(heard \o b) = Len(heard) + Len(b)
            BY <2>1
        <3>2. \A i \in 1..Len(heard) : (heard \o b)[i] = heard[i]
            BY <2>1
        <3>3. \A k \in 1..Len(b) : (heard \o b)[Len(heard) + k] = b[k]
            <4> SUFFICES ASSUME NEW k \in 1..Len(b) PROVE (heard \o b)[Len(heard) + k] = b[k]
                OBVIOUS
            <4>1. Len(heard) \in Nat /\ Len(b) \in Nat
                BY <2>1
            <4>2. Len(heard) + k \in 1..Len(heard) + Len(b) /\ ~(Len(heard) + k <= Len(heard))
                  /\ Len(heard) + k - Len(heard) = k
                BY <4>1
            <4> QED
                BY <2>1, <4>1, <4>2
        <3> QED
            BY <2>1, <2>2, <3>1, <3>2, <3>3
    <2>4. ASSUME NEW i \in 1..Len(heard'), i > n PROVE i - n \in 1..Size /\ heard'[i] = b[i - n]
        <3>1. i - n \in 1..Size /\ n + (i - n) = i
            BY <1>0, <2>3, <2>4
        <3> QED
            BY <2>3, <3>1
    <2> HIDE DEF n
    <2>5. \A p \in 1..h : p \in L \/ \E j \in 1..n : heard'[j] = p
        BY <2>3 DEF Heard, n
    <2>6. ASSUME NEW p \in 1..g PROVE p \in L \/ \E j \in 1..Len(heard') : heard'[j] = p
        <3>1. CASE p <= h
            <4>1. \A j \in 1..n : j \in 1..Len(heard')
                BY <1>0, <2>3
            <4> QED
                BY <2>5, <3>1, <4>1
        <3>2. CASE p > h
            <4>1. p \in L \/ \E j \in 1..Size : b[j] = p
                BY <1>1, <3>2 DEF b
            <4>2. \A j \in 1..Size : n + j \in 1..Len(heard')
                BY <1>0, <2>3
            <4> QED
                BY <2>3, <4>1, <4>2
        <3> QED
            BY <3>1, <3>2
    <2>7. ASSUME NEW j \in 1..Len(heard') PROVE heard'[j] <= g
        <3>1. CASE j <= n
            <4>1. j \in 1..n /\ heard'[j] = heard[j]
                BY <1>0, <2>3, <3>1
            <4>2. heard[j] \in Int /\ heard[j] <= h
                BY <1>5, <4>1
            <4> QED
                BY <4>1, <4>2
        <3>2. CASE j > n
            BY <1>1, <2>4, <3>2 DEF b
        <3> QED
            BY <1>0, <3>1, <3>2
    <2>8. ASSUME NEW i \in 1..Len(heard')
          PROVE  Cardinality(Unheard(heard[i], i)') <= Size * late'
        <3>1. CASE i <= n
            <4>1. i \in 1..n /\ heard'[i] = heard[i]
                BY <1>0, <2>3, <3>1
            <4>2. \A j \in 1..i : heard'[j] = heard[j]
                <5>1. \A j \in 1..i : j \in 1..n
                    BY <1>0, <3>1
                <5> QED
                    BY <2>3, <5>1
            <4>3. Unheard(heard[i], i)' = Unheard(heard[i], i)
                BY <4>1, <4>2 DEF Unheard
            <4> QED
                BY <1>5, <4>1, <4>3
        <3>2. CASE i > n
            <4>0. PICK k \in 1..Size : k = i - n /\ heard'[i] = b[k]
                BY <2>4, <3>2
            <4>1. i = n + k /\ b[k] \in Int
                BY <1>0, <4>0 DEF b
            <4>2. \A j \in 1..n : j \in 1..i
                BY <1>0, <4>1
            <4>3. \A j \in 1..k : n + j \in 1..i /\ j \in 1..Size
                BY <1>0, <4>1
            <4>4. ASSUME NEW q \in Unheard(heard[i], i)' PROVE q \in L
                <5>1. q \in 1..b[k] /\ \A j \in 1..i : heard'[j] # q
                    BY <4>0 DEF Unheard
                <5>2. CASE q <= h
                    <6>1. q \in 1..h
                        BY <5>1, <5>2
                    <6> QED
                        BY <2>5, <4>2, <5>1, <6>1
                <5>3. CASE q > h
                    <6>1. q \in h+1..b[k]
                        BY <4>1, <5>1, <5>3
                    <6>2. q \in L \/ \E j \in 1..k : b[j] = q
                        BY <1>1, <6>1 DEF b
                    <6> QED
                        BY <2>3, <4>3, <5>1, <6>2
                <5> QED
                    BY <5>1, <5>2, <5>3
            <4>5. Unheard(heard[i], i)' \in SUBSET L
                BY <4>4
            <4> DEFINE U == Unheard(heard[i], i)'
            <4>6. IsFiniteSet(U) /\ Cardinality(U) <= Cardinality(L)
                BY <1>4, <4>5, FS_Subset
            <4>7. Cardinality(U) \in Nat
                BY <4>6, FS_CardinalityType
            <4> HIDE DEF U
            <4>8. Cardinality(U) <= Size * late'
                BY <1>0, <1>3, <1>4, <4>6, <4>7
            <4> QED
                BY <4>8 DEF U
        <3> QED
            BY <1>0, <3>1, <3>2
    <2>9. NoSkip'
        BY <2>8 DEF NoSkip, Unheard
    <2> QED
        BY <2>3, <2>6, <2>7, <2>9
<1> QED
    BY <1>6, <1>7

(* What full buffers leave.                                                *)
LEMMA Leaves ==
    ASSUME NEW d \in Nat \ {0}, NEW q \in Nat, NEW r \in 0..d-1
    PROVE  (d * q + r) % d = r
<1> DEFINE a == d * q + r
           p == a \div d
           m == a % d
<1>1. a \in Nat
    OBVIOUS
<1>2. p \in Nat /\ m \in 0..d-1 /\ a = d * p + m
    BY <1>1
<1>3. d * q + r = d * p + m
    BY <1>2
<1> HIDE DEF p, m, a
<1>4. q >= p
    <2> SUFFICES ASSUME q + 1 <= p PROVE FALSE
        BY <1>2
    <2>1. d * (q + 1) <= d * p
        BY <1>2
    <2> QED
        BY <1>2, <1>3, <2>1
<1>5. q <= p
    <2> SUFFICES ASSUME p + 1 <= q PROVE FALSE
        BY <1>2
    <2>1. d * (p + 1) <= d * q
        BY <1>2
    <2> QED
        BY <1>2, <1>3, <2>1
<1>6. m = r
    BY <1>2, <1>3, <1>4, <1>5
<1> QED
    BY <1>6 DEF m, a

(* A read that does not fill the buffer comes to the end of the file.      *)
LEMMA ShortRead ==
    ASSUME Shapes, NEW p \in 0..File.len, Bread(p) < Size
    PROVE  p + Bread(p) = File.len
BY SizeType, FileType DEF Bread

(* A song begins with the first two buffers full, or with all there is.    *)
LEMMA OpenSong ==
    ASSUME Typed, Named, InSong, Open, songs' <= 1
    PROVE  NoSkip' /\ Pace' /\ InStep'
<1> DEFINE raw == [k \in Cells |-> Noise]
           m == Bread(0)
           n == Bread(m)
<1>1. /\ heard' = <<>> /\ pc' = "wait" /\ fillnum' = n /\ pos' = m + n /\ ct' = 0 /\ late' = 0
      /\ res' = "none" /\ songs' = songs + 1 /\ wavtransferend' = wavtransferend
      /\ saibuf' = [i \in {0, 1} |-> IF i = 0 THEN wav_buffill(0, raw) ELSE wav_buffill(m, raw)]
      /\ File' = File
    BY DEF Open, File
<1>2. Shapes /\ Size \in Nat \ {0} /\ File.len \in Nat
    BY FileType, SizeType DEF Typed
<1>3. 0 \in 0..File.len /\ raw \in [Cells -> Int] /\ Upto(raw, 0)
    BY <1>2 DEF Noise, Upto
<1>4. m \in 0..Size /\ m \in 0..File.len
    BY <1>2, <1>3, ReadType
<1>5. n \in 0..Size /\ m + n \in 0..File.len
    BY <1>2, <1>4, ReadType
<1>6. m < Size => m = File.len
    BY <1>2, <1>3, <1>4, ShortRead
<1>7. n < Size => m + n = File.len
    BY <1>2, <1>4, ShortRead
<1>8. Brings(wav_buffill(0, raw), 0, m, {})
    <2>1. 0 + m = m
        BY <1>4
    <2>2. Brings(wav_buffill(0, raw), 0, 0 + m, {})
        BY <1>2, <1>3, FillBrings
    <2> HIDE DEF m, raw
    <2> QED
        BY <2>1, <2>2
<1>9. Brings(wav_buffill(m, raw), m, m + n, {})
    <2>1. Upto(raw, m)
        BY <1>3, <1>4, Idle
    <2> QED
        BY <1>2, <1>3, <1>4, <2>1, FillBrings
<1> HIDE DEF raw, m, n
<1>10. ~wavtransferend
    BY <1>1, <1>2 DEF Named, Shapes
<1>11. NoSkip' /\ Heard(0, {})'
    BY <1>1 DEF NoSkip, Heard
<1>12. Pace'
    <2>1. File.len < Size \/ m + n = Size * 1 + n
        BY <1>2, <1>4, <1>5, <1>6
    <2> QED
        BY <1>1, <1>7, <2>1 DEF Pace, Refilling
<1>13. InStep'
    <2>1. ~Spent'
        BY <1>1, <1>10 DEF Spent, Refilling
    <2>2. Brings(saibuf'[ct'], 0, m, {}) /\ Brings(saibuf'[1 - ct'], m, pos', {})
        BY <1>1, <1>8, <1>9
    <2>3. Paid({}, 0)'
        <3>1. Cardinality({}) = 0 /\ Size * 0 = 0
            BY <1>2, FS_EmptySet
        <3> QED
            BY <1>1, <3>1 DEF Paid
    <2>4. 0 \in 0..pos' /\ m \in 0..pos' /\ m + fillnum' = pos' /\ 0 <= m /\ {} \in SUBSET (1..pos')
        BY <1>1, <1>4, <1>5
    <2>5. Fresh'
        BY <1>11, <2>2, <2>3, <2>4 DEF Fresh, Heard, Brings, Upto, Paid
    <2> QED
        BY <2>1, <2>5 DEF InStep
<1> QED
    BY <1>11, <1>12, <1>13

(* The flag is taken: the buffer it tells of gives way.                    *)
LEMMA TakeSong ==
    ASSUME Typed, Named, InSong, Take, songs <= 1
    PROVE  NoSkip' /\ Pace' /\ InStep'
<1>1. /\ UNCHANGED <<heard, late, pos, fillnum, saibuf, ct>> /\ File' = File
      /\ pc = "wait" /\ wavtransferend /\ ~wavtransferend'
      /\ \/ fillnum # Size /\ res' = "over" /\ pc' = "stop"
         \/ fillnum = Size /\ pc' = "fill" /\ UNCHANGED res
    BY DEF Take, File
<1>2. NoSkip /\ Pace /\ InStep
    BY <1>1 DEF InSong, Playing
<1>3. NoSkip'
    BY <1>1, <1>2 DEF NoSkip, Unheard
<1>4. Pace'
    BY <1>1, <1>2 DEF Pace, Refilling
<1>5. Spent /\ Spent' /\ ~Refilling
    BY <1>1 DEF Spent, Refilling
<1>6. CASE Sent
    <2>1. Sent'
        BY <1>1, <1>5, <1>6 DEF Sent, Heard, Brings, Upto, Paid
    <2> QED
        BY <1>3, <1>4, <1>5, <2>1 DEF InStep
<1>7. CASE Ahead
    <2>1. PICK h \in 0..pos, L \in SUBSET (1..pos) :
            /\ Heard(h, L) /\ Upto(saibuf[ct], h) /\ Brings(saibuf[1 - ct], h, pos, L)
            /\ h + fillnum = pos /\ Paid(L, fillnum)
        BY <1>7 DEF Ahead
    <2>2. pos \in Nat /\ h \in Nat /\ h <= pos /\ fillnum \in Nat /\ saibuf[ct] \in [Cells -> Int]
          /\ late \in Nat /\ heard \in Seq(Int) /\ Size \in Nat
        BY SizeType DEF Typed, Shapes, InSong
    <2> DEFINE M == L \cup (h+1..pos)
    <2>3. M \in SUBSET (1..pos) /\ Cardinality(M) \in Nat /\ Cardinality(M) <= Cardinality(L) + (pos - h)
        BY <2>2, LoseMore
    <2>4. \A p \in 1..pos : p \in M \/ \E j \in 1..Len(heard) : heard[j] = p
        <3> SUFFICES ASSUME NEW p \in 1..pos PROVE p \in M \/ \E j \in 1..Len(heard) : heard[j] = p
            OBVIOUS
        <3>1. CASE p <= h
            BY <2>1, <3>1 DEF Heard
        <3>2. CASE p > h
            BY <2>2, <3>2
        <3> QED
            BY <2>2, <3>1, <3>2
    <2> HIDE DEF M
    <2>5. Heard(pos, M)
        <3>1. ASSUME NEW j \in 1..Len(heard) PROVE heard[j] <= pos
            <4>1. heard[j] \in Int /\ heard[j] <= h
                BY <2>1, <2>2 DEF Heard
            <4> QED
                BY <2>2, <4>1
        <3> QED
            BY <2>4, <3>1 DEF Heard
    <2>6. Brings(saibuf[ct], pos, pos, M)
        BY <2>1, <2>2, Idle
    <2>7. Upto(saibuf[1 - ct], pos)
        BY <2>1 DEF Brings
    <2>8. Paid(M, 0)
        <3> DEFINE c == Cardinality(L)
                   d == Cardinality(M)
                   x == Size * late
        <3>1. c \in Nat /\ d \in Nat /\ x \in Nat /\ d <= c + (pos - h) /\ c + fillnum <= x
            BY <2>1, <2>2, <2>3, LostType, Pays DEF Paid
        <3> HIDE DEF c, d, x
        <3>2. d + 0 <= x
            BY <2>1, <2>2, <3>1
        <3> QED
            BY <3>2 DEF d, x, Paid
    <2>9. pos <= pos + fillnum /\ pos \in 0..pos
        BY <2>2
    <2>10. Sent
        BY <1>5, <2>3, <2>5, <2>6, <2>7, <2>8, <2>9 DEF Sent
    <2>11. Sent'
        BY <1>1, <1>5, <2>10 DEF Sent, Heard, Brings, Upto, Paid
    <2> QED
        BY <1>3, <1>4, <1>5, <2>11 DEF InStep
<1> QED
    BY <1>2, <1>5, <1>6, <1>7 DEF InStep

(* A buffer takes the next pieces: the one that was sent, or, when the     *)
(* other one has ended too, the one the code has happened to choose.       *)
LEMMA FillSong ==
    ASSUME Typed, Named, InSong, Fill, songs <= 1
    PROVE  NoSkip' /\ Pace' /\ InStep'
<1> DEFINE n == Bread(pos)
           C == saibuf[ct]
           O == saibuf[1 - ct]
           B(passed) == [k \in Cells |-> IF k \in passed THEN saibuf[into][k]
                                         ELSE wav_buffill(pos, saibuf[into])[k]]
<1>1. /\ UNCHANGED <<heard, late, ct, wavtransferend>> /\ pc = "filling" /\ pc' = "keys" /\ res' = res
      /\ fillnum' = n /\ pos' = pos + n /\ File' = File
    BY DEF Fill, File
<1>2. Shapes /\ Size \in Nat \ {0} /\ File.len \in Nat /\ pos \in 0..File.len /\ ct \in {0, 1}
      /\ into \in {0, 1} /\ pos \in Nat /\ fillnum \in Nat /\ late \in Nat
    BY <1>1, FileType, SizeType DEF Typed, Shapes, Playing
<1>3. NoSkip /\ Pace /\ InStep /\ Refilling
    BY <1>1 DEF InSong, Playing, Refilling
<1>4. PICK passed \in Passed : saibuf' = [saibuf EXCEPT ![into] = B(passed)]
    BY DEF Fill
<1>5. Sent
    BY <1>1, <1>3 DEF InStep, Spent
<1>6. PICK h \in 0..pos, L \in SUBSET (1..pos) :
        /\ Heard(h, L) /\ Brings(C, h, pos, L) /\ Upto(O, h) /\ pos <= h + fillnum
        /\ IF wavtransferend THEN h = pos /\ Paid(L, Size) ELSE Paid(L, 0)
    BY <1>3, <1>5 DEF Sent
<1>7. n \in 0..Size /\ pos + n \in 0..File.len
    BY <1>2, ReadType
<1>8. n < Size => pos + n = File.len
    BY <1>2, ShortRead
<1>9. C \in [Cells -> Int] /\ O \in [Cells -> Int] /\ saibuf \in [{0, 1} -> [Cells -> Int]]
    BY <1>2 DEF Shapes
<1>10. Upto(O, pos) /\ Upto(C, pos) /\ Brings(C, pos, pos, {})
    <2>1. Upto(C, pos)
        BY <1>6 DEF Brings
    <2> HIDE DEF C, O
    <2> QED
        BY <1>2, <1>6, <1>9, <2>1, Idle
<1>11. Pace'
    <2>1. ASSUME NEW q \in Nat, pos = Size * q + fillnum
          PROVE  pos + n = Size * (q + 1) + n /\ q + 1 \in Nat
        BY <1>2, <1>3, <1>7, <2>1 DEF Pace
    <2>2. File.len < Size \/ \E q \in Nat : pos + n = Size * q + n
        BY <1>3, <2>1 DEF Pace
    <2>3. res # "over"
        BY <1>1, <1>3 DEF Pace
    <2> QED
        BY <1>1, <1>8, <2>2, <2>3 DEF Pace, Refilling
<1>12. NoSkip'
    BY <1>1, <1>3 DEF NoSkip, Unheard
<1> HIDE DEF n
<1>13. pos \in 0..pos' /\ L \in SUBSET (1..pos') /\ h \in 0..pos' /\ h <= pos /\ pos' \in Nat
    BY <1>1, <1>2, <1>6, <1>7
<1>14. CASE into # ct
    <2>1. into = 1 - ct /\ ct = 1 - into
        BY <1>2, <1>14
    <2>2. Passed = {{}}
        BY <1>14 DEF Passed
    <2>3. B(passed) = wav_buffill(pos, O)
        <3>1. passed = {}
            BY <2>2
        <3> QED
            BY <2>1, <3>1 DEF wav_buffill
    <2> DEFINE new == wav_buffill(pos, O)
    <2>4. Brings(new, pos, pos + n, L)
        <3> HIDE DEF O
        <3> QED
            BY <1>2, <1>9, <1>10, FillBrings DEF n
    <2>5. saibuf'[ct'] = C /\ saibuf'[1 - ct'] = new
        BY <1>1, <1>2, <1>4, <1>9, <2>1, <2>3
    <2> HIDE DEF new, C, O, B
    <2>6. CASE ~wavtransferend
        <3>1. ~Spent'
            BY <1>1, <2>6 DEF Spent, Refilling
        <3>2. Heard(h, L)' /\ Paid(L, 0)'
            BY <1>1, <1>6, <2>6 DEF Heard, Paid
        <3>4. pos + fillnum' = pos'
            BY <1>1
        <3>5. \E g \in 0..pos' : /\ Brings(saibuf'[ct'], h, g, L) /\ Brings(saibuf'[1 - ct'], g, pos', L)
                                 /\ h <= g /\ g + fillnum' = pos'
            BY <1>1, <1>6, <1>13, <2>4, <2>5, <3>4
        <3>6. Fresh'
            BY <1>13, <3>2, <3>5 DEF Fresh, Heard, Paid, Brings, Upto
        <3> QED
            BY <1>11, <1>12, <3>1, <3>6 DEF InStep
    <2>7. CASE wavtransferend
        <3>1. h = pos /\ Paid(L, Size)
            BY <1>6, <2>7
        <3>2. Heard(h, L)'
            BY <1>1, <1>6 DEF Heard
        <3>3. Paid(L, fillnum)'
            <4> DEFINE c == Cardinality(L)
                       x == Size * late
            <4>1. c \in Nat /\ x \in Nat /\ c + Size <= x
                BY <1>2, <3>1, LostType, Pays DEF Paid
            <4> HIDE DEF c, x
            <4>2. c + n <= x
                BY <1>2, <1>7, <4>1
            <4> QED
                BY <1>1, <4>2 DEF Paid, c, x
        <3>4. Upto(saibuf'[ct'], h) /\ Brings(saibuf'[1 - ct'], h, pos', L) /\ h + fillnum' = pos'
            BY <1>1, <1>10, <2>4, <2>5, <3>1
        <3>5. Ahead'
            BY <1>13, <3>2, <3>3, <3>4 DEF Ahead, Heard, Paid, Brings, Upto
        <3>6. Spent' /\ wavtransferend' /\ pc' \in {"wait", "keys", "stop"} /\ res' # "over"
            BY <1>1, <1>3, <2>7 DEF Spent, Pace
        <3> QED
            BY <1>11, <1>12, <3>5, <3>6 DEF InStep
    <2> QED
        BY <2>6, <2>7
<1>15. CASE into = ct
    <2>1. wavtransferend
        BY <1>1, <1>15 DEF Named
    <2>2. h = pos /\ Paid(L, Size) /\ Heard(pos, L)
        BY <1>6, <2>1
    <2> DEFINE b == B(passed)
    <2>3. PICK M : M = L \cup (pos+1..pos')
        OBVIOUS
    <2>4. /\ M \in SUBSET (1..pos') /\ Cardinality(M) \in Nat
          /\ Cardinality(M) <= Cardinality(L) + (pos' - pos)
          /\ \A q \in pos+1..pos' : q \in M
        <3>1. pos <= pos'
            BY <1>1, <1>2, <1>7
        <3> QED
            BY <1>2, <1>13, <2>3, <3>1, LoseMore
    <2>5. ASSUME NEW k \in Cells PROVE b[k] \in Int /\ b[k] <= pos'
        <3>1. Brings(wav_buffill(pos, C), pos, pos', {})
            <4> HIDE DEF C
            <4> QED
                BY <1>1, <1>2, <1>9, <1>10, FillBrings DEF n
        <3>2. wav_buffill(pos, C) \in [Cells -> Int]
            <4> HIDE DEF C
            <4> QED
                BY <1>2, <1>9, FillType
        <3>3. wav_buffill(pos, C)[k] \in Int /\ wav_buffill(pos, C)[k] <= pos'
            BY <3>1, <3>2 DEF Brings, Upto
        <3>4. C[k] \in Int /\ C[k] <= pos'
            <4>1. C[k] \in Int /\ C[k] <= pos
                BY <1>9, <1>10 DEF Upto
            <4> HIDE DEF C
            <4> QED
                BY <1>1, <1>2, <1>7, <4>1
        <3>5. b[k] = IF k \in passed THEN C[k] ELSE wav_buffill(pos, C)[k]
            BY <1>15
        <3> QED
            BY <3>3, <3>4, <3>5
    <2>6. saibuf'[ct'] = b /\ saibuf'[1 - ct'] = O
        BY <1>1, <1>2, <1>4, <1>9, <1>15
    <2> HIDE DEF b, B, C, O
    <2>7. Brings(b, pos, pos', M)
        <3>1. \A k \in Cells : \A q \in pos+1..b[k] : q \in M
            BY <1>2, <1>13, <2>4, <2>5
        <3> QED
            BY <2>4, <2>5, <3>1 DEF Brings, Upto
    <2>8. Heard(h, M)'
        BY <1>1, <2>2, <2>3 DEF Heard
    <2>9. Paid(M, 0)'
        <3> DEFINE c == Cardinality(L)
                   d == Cardinality(M)
                   x == Size * late
        <3>1. c \in Nat /\ d \in Nat /\ x \in Nat /\ d <= c + (pos' - pos) /\ c + Size <= x
            BY <1>2, <2>2, <2>4, LostType, Pays DEF Paid
        <3> HIDE DEF c, d, x
        <3>2. d + 0 <= x
            BY <1>1, <1>2, <1>7, <3>1
        <3> QED
            BY <1>1, <3>2 DEF Paid, d, x
    <2>10. Upto(saibuf'[1 - ct'], h) /\ Brings(saibuf'[ct'], h, pos', M) /\ pos' <= h + fillnum'
        BY <1>1, <1>2, <1>7, <1>10, <1>13, <2>2, <2>6, <2>7
    <2>11. ~Refilling' /\ Spent'
        BY <1>1, <2>1 DEF Refilling, Spent
    <2>12. Sent'
        BY <1>13, <2>4, <2>8, <2>9, <2>10, <2>11 DEF Sent, Heard, Paid, Brings, Upto
    <2> QED
        BY <1>11, <1>12, <2>11, <2>12 DEF InStep
<1> QED
    BY <1>14, <1>15

(* What a transfer leaves to be sent.                                      *)
LEMMA SentNow ==
    ASSUME Shapes, pos \in Nat, Named, wav_sai_dma_tx_callback,
           heard \in Seq(Int), NoSkip, Pace,
           NEW h \in 0..pos, NEW g \in 0..pos, h <= g, NEW L \in SUBSET (1..pos),
           Heard(h, L), Brings(saibuf[ct], h, g, L), Brings(saibuf[1 - ct], g, pos, L),
           pos <= g + fillnum, Paid(L, 0), Refilling => g = pos
    PROVE  NoSkip' /\ Sent'
<1>1. /\ UNCHANGED <<pc, pos, fillnum, res>> /\ ct' = 1 - ct /\ wavtransferend' = TRUE /\ ~owed
      /\ late' = (IF Refilling THEN late + 1 ELSE late)
      /\ saibuf' = (IF playing THEN saibuf ELSE [saibuf EXCEPT ![ct] = [k \in Cells |-> Silence]])
    BY DEF wav_sai_dma_tx_callback, Silenced, Refilling
<1>2. ct \in {0, 1} /\ saibuf \in [{0, 1} -> [Cells -> Int]] /\ late \in Nat /\ Size \in Nat
    BY SizeType DEF Shapes
<1>3. h \in Nat /\ g \in Nat
    OBVIOUS
<1>4. NoSkip' /\ Heard(g, L)'
    <2>1. /\ NoSkip'
          /\ \A p \in 1..g : p \in L \/ \E j \in 1..Len(heard') : heard'[j] = p
          /\ \A j \in 1..Len(heard') : heard'[j] <= g
        BY <1>3, SendHeard
    <2> QED
        BY <2>1 DEF Heard
<1>5. saibuf'[ct'] = saibuf[1 - ct] /\ 1 - ct' = ct
    BY <1>1, <1>2
<1>6. Upto(saibuf'[1 - ct'], g)
    <2>1. \A k \in Cells : saibuf'[ct][k] \in {saibuf[ct][k], Silence}
        BY <1>1, <1>2
    <2>2. \A k \in Cells : saibuf[ct][k] <= g
        BY DEF Brings, Upto
    <2>3. Silence <= g
        BY DEF Silence
    <2> QED
        BY <1>5, <2>1, <2>2, <2>3 DEF Upto
<1>7. IF Refilling' /\ wavtransferend' THEN g = pos' /\ Paid(L, Size)' ELSE Paid(L, 0)'
    <2> DEFINE c == Cardinality(L)
               x == Size * late
               y == Size * (late + 1)
    <2>1. c \in Nat /\ x \in Nat /\ y = x + Size /\ c + 0 <= x
        BY <1>2, LostType, Pays DEF Paid
    <2> HIDE DEF c, x, y
    <2>2. c + Size <= y
        BY <1>2, <2>1
    <2>3. CASE Refilling
        <3>1. Paid(L, Size)'
            BY <1>1, <2>2, <2>3 DEF Paid, c, y
        <3> QED
            BY <1>1, <2>3, <3>1 DEF Refilling
    <2>4. CASE ~Refilling
        <3>1. Paid(L, 0)'
            BY <1>1, <2>4 DEF Paid
        <3> QED
            BY <1>1, <2>4, <3>1 DEF Refilling
    <2> QED
        BY <2>3, <2>4
<1>8. Brings(saibuf'[ct'], g, pos', L) /\ pos' <= g + fillnum' /\ g \in 0..pos' /\ L \in SUBSET (1..pos')
    BY <1>1, <1>5
<1>9. Sent'
    BY <1>4, <1>6, <1>7, <1>8 DEF Sent, Heard, Paid, Brings, Upto
<1> QED
    BY <1>4, <1>9

(* The stream sends what comes next, or a silent buffer in a pause.        *)
LEMMA SendSong ==
    ASSUME Typed, Tied, Named, InSong, wav_sai_dma_tx_callback, songs <= 1
    PROVE  NoSkip' /\ Pace' /\ InStep'
<1>1. /\ UNCHANGED <<pc, pos, fillnum, res>> /\ wavtransferend' = TRUE /\ File' = File /\ on /\ ~owed
    BY DEF wav_sai_dma_tx_callback, File
<1>2. Shapes /\ Playing /\ pos \in Nat /\ saibuf[ct] \in [Cells -> Int] /\ saibuf[1 - ct] \in [Cells -> Int]
      /\ fillnum \in Nat
    BY <1>1 DEF Typed, Shapes, Tied
<1>3. NoSkip /\ Pace /\ InStep /\ heard \in Seq(Int)
    BY <1>2 DEF InSong
<1>4. Pace'
    BY <1>1, <1>3 DEF Pace, Refilling
<1>5. ~(Refilling /\ wavtransferend)
    BY <1>1 DEF Named
<1>6. ASSUME Fresh, ~Spent PROVE NoSkip' /\ Sent'
    <2>1. PICK h \in 0..pos, g \in 0..pos, L \in SUBSET (1..pos) :
            /\ Heard(h, L) /\ Brings(saibuf[ct], h, g, L) /\ Brings(saibuf[1 - ct], g, pos, L)
            /\ h <= g /\ g + fillnum = pos /\ Paid(L, 0)
        BY <1>6 DEF Fresh
    <2>2. ~Refilling /\ pos <= g + fillnum
        BY <1>2, <1>6, <2>1 DEF Spent
    <2> QED
        BY <1>2, <1>3, <2>1, <2>2, SentNow
<1>7. ASSUME Sent PROVE NoSkip' /\ Sent'
    <2>1. PICK h \in 0..pos, L \in SUBSET (1..pos) :
            /\ Heard(h, L) /\ Brings(saibuf[ct], h, pos, L) /\ Upto(saibuf[1 - ct], h)
            /\ Paid(L, 0)
        BY <1>5, <1>7 DEF Sent
    <2>2. Brings(saibuf[1 - ct], pos, pos, L) /\ h <= pos /\ pos \in 0..pos /\ pos <= pos + fillnum
        BY <1>2, <2>1, Idle
    <2> QED
        BY <1>2, <1>3, <2>1, <2>2, SentNow
<1>8. ASSUME Ahead, pc \in {"wait", "keys", "stop"} PROVE NoSkip' /\ Sent'
    <2>1. PICK h \in 0..pos, L \in SUBSET (1..pos) :
            /\ Heard(h, L) /\ Upto(saibuf[ct], h) /\ Brings(saibuf[1 - ct], h, pos, L)
            /\ h + fillnum = pos /\ Paid(L, fillnum)
        BY <1>8 DEF Ahead
    <2>2. Brings(saibuf[ct], h, h, L) /\ h <= h /\ pos <= h + fillnum
        BY <1>2, <2>1, Idle
    <2>3. Paid(L, 0)
        <3> DEFINE c == Cardinality(L)
                   x == Size * late
        <3>1. c \in Nat /\ x \in Nat /\ c + fillnum <= x
            BY <1>2, <2>1, LostType, Pays DEF Paid, Shapes
        <3> HIDE DEF c, x
        <3>2. c + 0 <= x
            BY <1>2, <3>1
        <3> QED
            BY <3>2 DEF Paid, c, x
    <2>4. ~Refilling
        BY <1>8 DEF Refilling
    <2> QED
        BY <1>2, <1>3, <2>1, <2>2, <2>3, <2>4, SentNow
<1>9. NoSkip' /\ Sent'
    BY <1>3, <1>6, <1>7, <1>8 DEF InStep
<1>10. InStep'
    BY <1>1, <1>9 DEF InStep, Spent
<1> QED
    BY <1>4, <1>9, <1>10

LEMMA NextInSong ==
    ASSUME Typed, Tied, Named, InSong, [Next]_vars
    PROVE  InSong'
<1>0. heard \in Seq(Int) /\ songs \in Nat
    BY DEF InSong, Typed, Shapes
<1>1. CASE Open
    <2>1. heard' \in Seq(Int) /\ pc' = "wait"
        BY <1>1 DEF Open
    <2>2. songs' <= 1 => NoSkip' /\ Pace' /\ InStep'
        BY <1>1, OpenSong
    <2> QED
        BY <2>1, <2>2 DEF InSong, Playing
<1>2. CASE Fill
    <2>1. UNCHANGED <<heard, songs>> /\ pc' = "keys"
        BY <1>2 DEF Fill
    <2>2. songs <= 1 => NoSkip' /\ Pace' /\ InStep'
        BY <1>2, FillSong
    <2> QED
        BY <1>0, <2>1, <2>2 DEF InSong, Playing
<1>3. CASE wav_sai_dma_tx_callback
    <2>1. UNCHANGED <<songs, pc>>
        BY <1>3 DEF wav_sai_dma_tx_callback
    <2>2. heard' \in Seq(Int)
        <3>1. saibuf[ct] \in Seq(Int)
            <4>1. saibuf[ct] \in [1..Size -> Int] /\ Size \in Nat
                BY SizeType DEF Typed, Shapes, Cells
            <4> HIDE DEF Cells
            <4> QED
                BY <4>1
        <3> QED
            BY <1>0, <1>3, <3>1 DEF wav_sai_dma_tx_callback
    <2>3. songs <= 1 => NoSkip' /\ Pace' /\ InStep'
        BY <1>3, SendSong
    <2> QED
        BY <2>1, <2>2, <2>3 DEF InSong, Playing
<1>4. CASE OpenFails \/ Stop
    <2>1. UNCHANGED <<heard, late, songs>> /\ pc' \in {"idle", "end"}
        BY <1>4 DEF OpenFails, Stop
    <2> QED
        BY <1>0, <2>1 DEF InSong, Playing, NoSkip, Unheard
<1>5. CASE Take
    <2>1. UNCHANGED <<heard, songs>> /\ pc = "wait"
        BY <1>5 DEF Take
    <2>2. songs <= 1 => NoSkip' /\ Pace' /\ InStep'
        BY <1>5, TakeSong
    <2> QED
        BY <1>0, <2>1, <2>2 DEF InSong, Playing
<1>6. CASE Choose \/ (\E key : Keys(key))
    <2>1. /\ UNCHANGED <<heard, late, songs, pos, fillnum, saibuf, ct, wavtransferend>> /\ File' = File
          /\ \/ pc = "fill" /\ pc' = "filling" /\ res' = res
             \/ /\ pc = "keys" /\ pc' \in {"wait", "keys", "stop"}
                /\ pc' = "stop" => res' \in {"KEY0", "KEY2"}
                /\ pc' # "stop" => res' = res
        BY <1>6 DEF Choose, Keys, File
    <2>2. Refilling' = Refilling
        BY <2>1 DEF Refilling
    <2>3. Pace => Pace'
        BY <2>1, <2>2 DEF Pace
    <2>4. Pace => Spent' = Spent
        BY <2>1, <2>2 DEF Spent, Pace
    <2>5. (Fresh => Fresh') /\ (Sent => Sent') /\ (Ahead => Ahead')
        BY <2>1, <2>2 DEF Fresh, Sent, Ahead, Heard, Brings, Upto, Paid
    <2>6. Pace /\ pc \in {"wait", "keys", "stop"} /\ res # "over"
          => pc' \in {"wait", "keys", "stop"} /\ res' # "over"
        BY <2>1
    <2>7. Pace /\ InStep => InStep'
        BY <2>1, <2>4, <2>5, <2>6 DEF InStep
    <2> QED
        BY <1>0, <2>1, <2>3, <2>7 DEF InSong, Playing, NoSkip, Unheard
<1>7. CASE UNCHANGED vars
    <2>1. UNCHANGED <<pc, heard, late, songs, pos, fillnum, res, saibuf, ct, wavtransferend>> /\ File' = File
        BY <1>7 DEF vars, File
    <2>2. Refilling' = Refilling /\ Spent' = Spent /\ Playing' = Playing
        BY <2>1 DEF Refilling, Spent, Playing
    <2>3. (Fresh => Fresh') /\ (Sent => Sent') /\ (Ahead => Ahead') /\ (Pace => Pace')
        BY <2>1, <2>2 DEF Fresh, Sent, Ahead, Heard, Brings, Upto, Paid, Pace
    <2> QED
        BY <2>1, <2>2, <2>3 DEF InSong, NoSkip, Unheard, InStep
<1> QED
    BY <1>1, <1>2, <1>3, <1>4, <1>5, <1>6, <1>7 DEF Next, Main

LEMMA InSongAlways == Spec => []InSong
<1>1. Init => InSong
    <2>1. <<>> \in Seq(Int)
        OBVIOUS
    <2> QED
        BY <2>1 DEF Init, InSong, Playing, NoSkip
<1> QED
    BY <1>1, NamedAlways, TiedAlways, NextInSong, TypedAlways, PTL DEF Spec

\* In the first song, whatever pauses and keys come between the transfers, no more
\* is skipped than a buffer for each transfer that ended inside a refill.  With
\* OnlyAfterPause that is a buffer for each pause, and nothing without one.
THEOREM NoneSkipped == Spec => [](songs <= 1 => NoSkip)
<1>1. InSong => (songs <= 1 => NoSkip)
    BY DEF InSong
<1> QED
    BY <1>1, InSongAlways, PTL

\* A first song that ends by itself was heard up to its last full buffer, but for
\* a buffer for each such transfer.
THEOREM HeardToTheEnd == Spec => [](songs <= 1 => FullBuffersHeard)
<1>1. Typed /\ InSong => (songs <= 1 => FullBuffersHeard)
    <2> SUFFICES ASSUME Typed, InSong, songs <= 1, pc = "stop", res = "over"
                 PROVE  Cardinality(Unheard(File.len - (File.len % Size), Len(heard))) <= Size * late
        BY DEF FullBuffersHeard
    <2> DEFINE l == File.len
               full == l - (l % Size)
    <2>1. Shapes /\ l \in Nat /\ Size \in Nat \ {0} /\ fillnum \in 0..Size /\ late \in Nat
        BY FileType, SizeType DEF Typed, Shapes
    <2>2. Pace /\ InStep
        BY DEF InSong, Playing
    <2>3. fillnum \in 0..Size-1 /\ pos = l
        BY <2>1, <2>2 DEF Pace
    <2>4. Sent /\ ~Refilling
        BY <2>2 DEF InStep, Spent, Refilling
    <2>5. PICK h \in 0..pos, L \in SUBSET (1..pos) : Heard(h, L) /\ pos <= h + fillnum /\ Paid(L, 0)
        BY <2>4 DEF Sent
    <2> HIDE DEF l
    <2>6. full <= h /\ full \in Nat
        <3>1. CASE l < Size
            <4>1. l = Size * 0 + l /\ l \in 0..Size-1
                BY <2>1, <3>1
            <4>2. l % Size = l
                BY <2>1, <4>1, Leaves
            <4> QED
                BY <2>1, <2>3, <4>2
        <3>2. CASE \E q \in Nat : pos = Size * q + fillnum
            <4>1. PICK q \in Nat : pos = Size * q + fillnum
                BY <3>2
            <4>2. l % Size = fillnum
                BY <2>1, <2>3, <4>1, Leaves
            <4>3. Size * q \in Nat
                BY <2>1
            <4> QED
                BY <2>1, <2>3, <2>5, <4>1, <4>2, <4>3
        <3> QED
            BY <2>2, <3>1, <3>2 DEF Pace, l
    <2> HIDE DEF full
    <2>7. Unheard(full, Len(heard)) \in SUBSET L
        BY <2>1, <2>3, <2>5, <2>6 DEF Heard, Unheard
    <2>8. IsFiniteSet(L) /\ Cardinality(L) \in Nat
        BY <2>1, <2>3, LostType
    <2> DEFINE U == Unheard(full, Len(heard))
    <2>9. IsFiniteSet(U) /\ Cardinality(U) <= Cardinality(L)
        BY <2>7, <2>8, FS_Subset
    <2>10. Cardinality(U) \in Nat
        BY <2>9, FS_CardinalityType
    <2> HIDE DEF U
    <2> DEFINE c == Cardinality(L)
               x == Size * late
               u == Cardinality(U)
    <2>11. c \in Nat /\ x \in Nat /\ c + 0 <= x /\ u \in Nat /\ u <= c
        BY <2>1, <2>5, <2>8, <2>9, <2>10, Pays DEF Paid
    <2> HIDE DEF c, x, u
    <2>12. u <= x
        BY <2>11
    <2> QED
        BY <2>12 DEF u, x, U, full, l
<1> QED
    BY <1>1, TypedAlways, InSongAlways, PTL

=============================================================================
