------------------------------ MODULE WavPlay -------------------------------
(***************************************************************************)
(* The music player: wav_play_song of wavplay.c under audio_play of        *)
(* audioplay.c, and the handler of the SAI's DMA stream.  The stream sends *)
(* the two buffers in turn; its handler says which one it has finished,    *)
(* and the main program refills that one.                                  *)
(*                                                                         *)
(* A buffer has Size cells.  A cell is the number of a piece of the song   *)
(* (from 1 on), Silence, or Noise: whatever was in the memory before.      *)
(***************************************************************************)
EXTENDS Integers, Sequences, FiniteSets

CONSTANTS
    Size,       \* WAV_SAI_TX_DMA_BUFSIZE
    Folders,    \* music folders: for each file its length and bits
    MaxSongs,   \* bound: songs played
    MaxPauses   \* bound: pauses of a song

ASSUME WavAssumption ==
    /\ Size \in Nat \ {0} /\ MaxSongs \in Nat /\ MaxPauses \in Nat
    /\ Folders \subseteq Seq([len : Nat, bits : {16, 24}]) \ {<<>>}

Silence == 0
Noise == -1
Cells == 1..Size

VARIABLES
    pc,            \* where the main program is
    files,         \* the music folder; it does not change
    curindex,      \* the file played, from 0 on
    pos,           \* pieces read from the file
    saibuf,        \* saibuf1 (0) and saibuf2 (1)
    into,          \* the buffer being refilled
    fillnum,       \* cells the last wav_buffill has filled
    res,           \* what ended the song
    playing,       \* bit 0 of g_audiodev.status
    ct,            \* DMA stream: the buffer it sends
    on,            \* DMA stream: enabled
    wavtransferend, wavwitchbuf,
    owed,          \* a transfer ended while the song played, and its refill
                   \* is not done (the timing assumption, see below)
    songs, pauses, \* counters for the bounds
    heard,         \* cells sent of this song, but for buffers without a
                   \* piece (history)
    late           \* transfers of this song that ended inside a refill (history)

vars == <<pc, files, curindex, pos, saibuf, into, fillnum, res, playing, ct, on, wavtransferend,
          wavwitchbuf, owed, songs, pauses, heard, late>>

File == files[curindex + 1]

Init ==
    /\ files \in Folders
    /\ pc = "idle" /\ curindex = 0 /\ pos = 0
    /\ saibuf = [i \in {0, 1} |-> [k \in Cells |-> Noise]]
    /\ into = 0 /\ fillnum = 0 /\ res = "none"
    /\ playing = FALSE /\ ct = 0 /\ on = FALSE
    /\ wavtransferend = FALSE /\ wavwitchbuf = 0
    /\ owed = FALSE /\ songs = 0 /\ pauses = 0 /\ heard = <<>> /\ late = 0

-----------------------------------------------------------------------------
(* wav_buffill.                                                            *)

\* Seeded fault: the length asked for is taken for the length read.
BreadAsked(p) == Size

\* Pieces that are there to be read when p have been.
Bread(p) == IF File.len - p < Size THEN File.len - p ELSE Size

\* What is read, and behind it: in 24-bit files what tbuf held, in 16-bit
\* files zeros, from bread up to size - bread.
wav_buffill(p, old) ==
    [k \in Cells |->
        IF k <= Bread(p) THEN p + k
        ELSE IF File.bits = 24 THEN Noise
        ELSE IF k <= Size - Bread(p) THEN Silence ELSE old[k]]

-----------------------------------------------------------------------------
(* The main program.                                                       *)

\* wav_decode_init returns 0 whatever it has found.
wav_decode_init == 0

\* wav_play_song up to its loop: buffers fresh from the heap, the stream set up
\* (it begins with the first buffer), both buffers filled, the stream started.
\* wavtransferend and wavwitchbuf are left as they are; a refill they cause is
\* done before the stream, just started, has sent a buffer.
Open ==
    /\ pc = "idle"
    /\ songs < MaxSongs
    /\ wav_decode_init = 0
    /\ LET raw == [k \in Cells |-> Noise]
           one == wav_buffill(0, raw)
           two == wav_buffill(Bread(0), raw)
       IN  saibuf' = [i \in {0, 1} |-> IF i = 0 THEN one ELSE two]
    /\ fillnum' = Bread(Bread(0))
    /\ pos' = Bread(0) + Bread(Bread(0))
    /\ playing' = TRUE /\ on' = TRUE /\ ct' = 0
    /\ songs' = songs + 1 /\ pauses' = 0
    /\ heard' = <<>> /\ late' = 0 /\ res' = "none"
    /\ owed' = wavtransferend
    /\ pc' = "wait"
    /\ UNCHANGED <<files, curindex, into, wavtransferend, wavwitchbuf>>

\* No memory, or the file does not open: audio_play leaves its loop.
OpenFails ==
    /\ pc = "idle"
    /\ songs < MaxSongs
    /\ pc' = "end"
    /\ UNCHANGED <<files, curindex, pos, saibuf, into, fillnum, res, playing, ct, on, wavtransferend,
                   wavwitchbuf, owed, songs, pauses, heard, late>>

\* Seeded fault: the song ends only when nothing could be read.
TakeToEmpty ==
    /\ pc = "wait"
    /\ wavtransferend
    /\ wavtransferend' = FALSE
    /\ \/ fillnum > Size /\ res' = "over" /\ pc' = "stop"
       \/ fillnum <= Size /\ pc' = "fill" /\ UNCHANGED res
    /\ UNCHANGED <<files, curindex, pos, saibuf, into, fillnum, playing, ct, on, wavwitchbuf, owed,
                   songs, pauses, heard, late>>

\* Seeded fault: the song ends with the file, not with what was read of it.
TakeAtEof ==
    /\ pc = "wait"
    /\ wavtransferend
    /\ wavtransferend' = FALSE
    /\ \/ pos >= File.len /\ res' = "over" /\ pc' = "stop"
       \/ pos < File.len /\ pc' = "fill" /\ UNCHANGED res
    /\ UNCHANGED <<files, curindex, pos, saibuf, into, fillnum, playing, ct, on, wavwitchbuf, owed,
                   songs, pauses, heard, late>>

\* Seeded fault: the loop does not wait for a transfer.
TakeAtOnce ==
    /\ pc = "wait"
    /\ wavtransferend' = FALSE
    /\ \/ fillnum # Size /\ res' = "over" /\ pc' = "stop"
       \/ fillnum = Size /\ pc' = "fill" /\ UNCHANGED res
    /\ UNCHANGED <<files, curindex, pos, saibuf, into, fillnum, playing, ct, on, wavwitchbuf, owed,
                   songs, pauses, heard, late>>

\* A transfer has ended; after a short read that ends the song.
Take ==
    /\ pc = "wait"
    /\ wavtransferend
    /\ wavtransferend' = FALSE
    /\ \/ fillnum # Size /\ res' = "over" /\ pc' = "stop"
       \/ fillnum = Size /\ pc' = "fill" /\ UNCHANGED res
    /\ UNCHANGED <<files, curindex, pos, saibuf, into, fillnum, playing, ct, on, wavwitchbuf, owed,
                   songs, pauses, heard, late>>

\* wavwitchbuf is read only now, after the flag was cleared.
Choose ==
    /\ pc = "fill"
    /\ into' = wavwitchbuf
    /\ pc' = "filling"
    /\ UNCHANGED <<files, curindex, pos, saibuf, fillnum, res, playing, ct, on, wavtransferend,
                   wavwitchbuf, owed, songs, pauses, heard, late>>

\* Cells of the buffer being refilled that the stream has passed before they were
\* written: none unless it is sending that buffer, else those where the refill
\* fell behind.
Passed == IF into = ct THEN {i..j : i \in 1..Size + 1, j \in 0..Size} ELSE {{}}

\* The buffer is filled.  Cells passed too early keep what was sent from them.
Fill ==
    /\ pc = "filling"
    /\ \E passed \in Passed :
          saibuf' = [saibuf EXCEPT ![into] = LET new == wav_buffill(pos, @)
                                            IN  [k \in Cells |-> IF k \in passed THEN @[k] ELSE new[k]]]
    /\ fillnum' = Bread(pos)
    /\ pos' = pos + Bread(pos)
    /\ owed' = (owed /\ wavtransferend)
    /\ pc' = "keys"
    /\ UNCHANGED <<files, curindex, into, res, playing, ct, on, wavtransferend, wavwitchbuf, songs,
                   pauses, heard, late>>

\* One pass of the key loop: WKUP pauses or goes on, KEY0 and KEY2 end the
\* song; unless paused the loop is left.
Keys(key) ==
    /\ pc = "keys"
    /\ \/ /\ key = "WKUP"
          /\ playing => pauses < MaxPauses
          /\ playing' = ~playing
          /\ pauses' = IF playing THEN pauses + 1 ELSE pauses
          /\ pc' = IF playing' THEN "wait" ELSE "keys"
          /\ owed' = FALSE
          /\ UNCHANGED res
       \/ /\ key \in {"KEY0", "KEY2"}
          /\ res' = key
          /\ pc' = "stop"
          /\ UNCHANGED <<playing, owed, pauses>>
       \/ /\ key = "none"
          /\ playing
          /\ pc' = "wait"
          /\ UNCHANGED <<playing, owed, pauses, res>>
    /\ UNCHANGED <<files, curindex, pos, saibuf, into, fillnum, ct, on, wavtransferend, wavwitchbuf,
                   songs, heard, late>>

\* audio_stop, and audio_play moves on: KEY2 is the song before, KEY0 and the
\* end of a song the next one.
Stop ==
    /\ pc = "stop"
    /\ playing' = FALSE /\ on' = FALSE /\ owed' = FALSE
    /\ curindex' = IF res = "KEY2"
                   THEN IF curindex > 0 THEN curindex - 1 ELSE Len(files) - 1
                   ELSE IF curindex + 1 >= Len(files) THEN 0 ELSE curindex + 1
    /\ pc' = "idle"
    /\ UNCHANGED <<files, pos, saibuf, into, fillnum, res, ct, wavtransferend, wavwitchbuf, songs,
                   pauses, heard, late>>

-----------------------------------------------------------------------------
(* The DMA stream and its handler.                                         *)

\* The timing assumption (WAV_SAI_TX_DMA_BUFSIZE is chosen "so that it does not
\* stutter", wavplay.h:32): when a transfer ends while the song plays, its refill
\* is done before the next one ends.  Nothing is assumed of a pause, after which
\* the loop goes on at any moment of a transfer, with the flag of an earlier one.

\* wavwitchbuf is the buffer that has been sent: the stream's target bit is
\* the other one by now.
Finished(done) == done

\* Seeded fault: while paused the other buffer is silenced.
SilencedOther(done) == [saibuf EXCEPT ![1 - done] = [k \in Cells |-> Silence]]

\* While paused the handler silences what has been sent.
Silenced(done) == [saibuf EXCEPT ![done] = [k \in Cells |-> Silence]]

wav_sai_dma_tx_callback ==
    /\ on
    /\ ~owed
    /\ heard' = IF \E k \in Cells : saibuf[ct][k] > 0 THEN heard \o saibuf[ct] ELSE heard
    /\ ct' = 1 - ct
    /\ wavwitchbuf' = Finished(ct)
    /\ saibuf' = IF playing THEN saibuf ELSE Silenced(ct)
    /\ wavtransferend' = TRUE
    /\ owed' = playing
    /\ late' = IF pc \in {"fill", "filling"} THEN late + 1 ELSE late
    /\ UNCHANGED <<pc, files, curindex, pos, into, fillnum, res, playing, on, songs, pauses>>

-----------------------------------------------------------------------------
Main == Open \/ Take \/ Choose \/ Fill \/ Stop \/ Keys("none")

Next ==
    \/ Main
    \/ OpenFails
    \/ \E key \in {"WKUP", "KEY0", "KEY2"} : Keys(key)
    \/ wav_sai_dma_tx_callback

\* The main program goes on and the stream sends; nobody has to press a key.
Spec == Init /\ [][Next]_vars /\ WF_vars(Main) /\ WF_vars(wav_sai_dma_tx_callback)

-----------------------------------------------------------------------------
(* Properties.                                                             *)

\* Types of the buffers, flags and counters.
TypeOK ==
    /\ pc \in {"idle", "wait", "fill", "filling", "keys", "stop", "end"}
    /\ curindex \in 0..Len(files)-1
    /\ pos \in 0..File.len \/ pc \in {"idle", "end"}
    /\ saibuf \in [{0, 1} -> [Cells -> Int]]
    /\ into \in {0, 1} /\ fillnum \in 0..Size
    /\ playing \in BOOLEAN /\ on \in BOOLEAN /\ ct \in {0, 1}
    /\ wavtransferend \in BOOLEAN /\ wavwitchbuf \in {0, 1}
    /\ owed \in BOOLEAN /\ late \in Nat

\* The listener hears the song from its beginning, piece by piece, none twice:
\* the first refill of a song waits for a transfer of its own ("等待wav传输完成",
\* wait until the transfer is complete).
InOrder ==
    \A i \in 1..Len(heard) :
        heard[i] > 0 => heard[i] = Cardinality({j \in 1..i : heard[j] > 0})

\* The pieces up to p that are not among the first i cells heard.
Unheard(p, i) == {q \in 1..p : \A j \in 1..i : heard[j] # q}

\* Nothing of the song is skipped, across pauses too, but for a buffer per
\* transfer that ended inside a refill: there the code picks the buffer from a
\* wavwitchbuf that has moved on, or writes one that is being sent.
NoSkip == \A i \in 1..Len(heard) : Cardinality(Unheard(heard[i], i)) <= Size * late

\* Only after a pause does a transfer end inside a refill, once for each: the flag
\* of a transfer that ended in the pause starts one at any moment.
LateAfterPause == late <= pauses

\* A song that ends by itself was heard up to its last full buffer, but for what
\* was skipped.
FullBuffersHeard ==
    pc = "stop" /\ res = "over" =>
        Cardinality(Unheard(File.len - (File.len % Size), Len(heard))) <= Size * late

\* A song comes to its end unless it is left paused.
SongEnds ==
    []<>(playing \/ pc \in {"idle", "end"}) => (pc = "wait" ~> pc \in {"idle", "end"})

=============================================================================
