# The Apollo F429 acceptance firmware in TLA+

The repository is the acceptance-test firmware of the ALIENTEK Apollo STM32F429
board: a bare-metal C program of one main loop and several interrupt handlers,
without an operating system. `main` sets up the board, clears the memory pools,
mounts the file systems and calls `test_system`, which goes through the tests of
the board one after another. Meanwhile interrupts feed an audio stream, decode an
infrared remote, serve a USB host, receive a serial line and run the commands in it.

This directory models the parts of it where the order of events decides: who owns a
block of memory, where the sectors of a flash disk are, which buffer the audio DMA
sends, what the console makes of a line, which press of a key ends which test. Every definition follows a piece of C code; the
table `map` in PROJECT.json names the lines.

## 1. Inventory

Interrupts, from the most urgent: SAI DMA (0), remote control TIM1 (1), USB OTG (2),
USART1 and TIM4 for the console (3, so that neither interrupts the other).

| Component (source) | State | Operations | Interacts with | What is hard | What makes it correct |
|---|---|---|---|---|---|
| malloc (Middlewares/MALLOC) | three pools: state table, ready flag, bytes | `my_mem_init`, `mymalloc`, `myfree`, `myrealloc`; `my_mem_perused` only looks | every part that needs buffers; the console calls it from TIM4 | splitting and joining of runs; search and mark are not atomic; `myrealloc` reads past the old object | no block has two owners, the table says exactly what is held, the bytes of an object are its owner's |
| FTL (BSP/NAND/ftl.c) on nand.c | tags in the spare bytes of each block, lookup table `lut`, `curblock` | `ftl_init`, `ftl_format`, `ftl_read_sectors`, `ftl_write_sectors` | USB storage (in the USB interrupt), `usb_test`, console test commands | a write moves a block in dozens of NAND operations, any of which may time out or be the last before the power fails, and the results of many are not looked at | sectors read back as written; one block per number; no capacity lost; the medium is never without the data |
| NOR flash (BSP/NORFLASH) | the chip, `g_norflash_buf` | `norflash_write`, `norflash_read`, erase | USB storage, font library | read-erase-rewrite of sectors, split at sectors and pages | bytes asked for are written, no others change; a power failure costs one sector |
| serial reception (SYSTEM/usart) | `g_usart_rx_sta`, `g_usart_rx_buf` | receive handler | the console takes the line | bytes lost while a line waits or a command runs; overlong lines | what runs is what was sent |
| USMART console (Middlewares/USMART) | `usmart_dev`, TIM4's reload value | `usmart_scan` in TIM4, function table | calls any listed function in interrupt context | the buffer is reopened before it is parsed; run time over counter overflow | each line runs once, unaltered; reception opens again |
| USMART parser (usmart_str.c) | `plentbl`, `parm` of `usmart_dev` | names, parameter counts, parameters, numbers | the console | three readings of one text with rules of their own; bounds of the parameter table | a line does what its writer means |
| WAV player (AUDIOCODEC/wav, APP/audioplay) on SAI (BSP/SAI) | two buffers, `wavtransferend`, `wavwitchbuf`, playing bit | fill, play, pause, next, stop; the transfer handler | keys, FatFs, malloc, the DMA stream | main fills one buffer while the stream sends the other; flags set by the handler | without pauses nothing is skipped, and a pause costs a buffer at most; the song ends |
| acceptance sequence (TEST/test.c, main.c) and keys (BSP/KEY) | current stage, `key_up` in `key_scan`, `g_usb_state_reg`, `g_device_state` | one function per stage | all drivers; USB interrupt | one press must end one stage; flags cleared while the interrupt sets them | a press is taken once; every stage can be left |
| infrared remote (BSP/REMOTE) | `g_remote_sta`, `g_remote_data`, `g_remote_cnt` | edge and overflow handlers, `remote_scan` | `remote_test` | bits of one byte written by handlers and main | a full frame is reported, a damaged one is not |
| Ethernet (lwip/arch) | receive pool, DHCP state | `lwip_comm_init`; the polling functions are never called | test.c | none in this firmware | out of scope |
| USB storage (USB/USB_APP) | the two flag registers | read, write, capacity for three disks | FTL, NOR flash, SD card, `usb_test` | runs inside the interrupt | errors reach the host and the tester |
| EEPROM and port expander (24CXX, IIC, PCF8574) | the bus, the port | byte transfers, check, bit writes | `test_system`, beeper, Ethernet reset | missing device; read-modify-write | a byte reads back; other pins stay |
| the rest: LCD, fonts, sensors, SDRAM, ADC, codec, SPI, SD card, delay, FatFs glue | registers | set-up, blocking transfers | test.c | none of it concurrent | out of scope |
| vendored: HAL, CMSIS, lwIP, FatFs, USB library | - | - | - | - | out of scope |

PROJECT.json lists the hazards of this code at their lines, with the properties that
cover them or the reason why none does.

## 2. The modules and the code

| Module | Models |
|---|---|
| Heap | what malloc promises: every caller has objects of its own |
| MyMem | malloc.c, one step per call |
| MyMemIrq | the loops of malloc.c, one step per iteration, and calls from an interrupt |
| MyMemProofs, MyMemHeapProofs, MyMemIrqProofs, FtlProofs, NorflashProofs, ConsoleProofs, WavPlayProofs, AcceptanceProofs | the theorems about the module each is named after |
| SectorStore | what ftl.c promises its host |
| Ftl | ftl.c on the operations of nand.c, one step per NAND operation |
| ByteStore | what `norflash_write` promises |
| Norflash | norflash.c, one step per command to the chip |
| UsmartStr | usmart_str.c, and the functions of usmart.c that use it, as operators from a text to what is done for it |
| Console | usart.c's receive handler and the TIM4 handler, on UsmartStr |
| WavPlay | the player's main loop, the DMA stream and its handler |
| KeyScan | key.c: `key_scan` with the static `key_up` |
| UsbWatch | the flags `usb_test` shares with the callbacks of USB storage |
| Remote | remote.c: the two TIM1 handlers, `remote_scan` step by step, and the remote control |
| Acceptance | test.c: the stages of `test_system`, composed of KeyScan, UsbWatch and Remote |
| MC* | small instances of each for TLC |

**MyMem.** `memmap`, `memrdy` and `mem` are the table, flag and bytes of one pool (the
pools differ in their sizes only); `ptr[s]` is the pointer variable of caller `s` and
`req[s]` the size it asked for (history). `mymalloc` takes the highest run of free
blocks that is long enough, as the downward search does; `myfree` clears as many words
as the word at the offset says; `myrealloc` allocates, copies and frees in one step,
with the copy's reads behind the old object. Before the pool is initialised the table
holds any of the values in `Garbage`. A caller frees only pointers it was given.

**MyMemIrq.** The locals `offset`, `cmemb`, `i`, `nmemb` of the loops are variables.
`Spec` lets handlers allocate while main is outside malloc.c and is shown to implement
MyMem (and so Heap); `IrqSpec` lets them allocate at any moment, as the code does.

**Ftl.** A block is a record of its bad marks, used mark, logical number and sectors.
`op` holds the locals of a read or write request, `cp` those of
`ftl_copy_and_write_to_block`. `adm[x]` is history: the values the host may find in
sector `x`. `chip` says what can go wrong on the chip at hand: factory bad blocks, pages
whose operations may time out (`weak`), blocks whose erase may (`worn`), pages whose reads
correct a bit, which moves the block (`ecc`), and power failures. A programmed cell that is
programmed again becomes `Junk`.

ftl.c looks at the results of some of these operations and drops others, and the model
follows it in both:

- A read of spare bytes that times out leaves the caller's variable as it was. In
  `ftl_create_lut` that is what the block before left in `buf` (`Buf`; for block 0 an
  uninitialised array, `Unset`, which no chip of the runs reaches but `FtlTypes` covers), so that the block gets its neighbour's mark and number;
  in `ftl_check_badblock` it is 0 at the first read and 0xFF at the second, so that the block
  passes for bad, or for good whatever the backup mark says; in `ftl_find_unused_block` it
  is the rest of a block that was not unused, so that the block is passed over.
- The spare writes of `ftl_badblock_mark`, of the used mark after a copy and of the
  numbers in `ftl_format` may be lost one by one (`BadMarked`, `CopyUsed`, `FormatFaults`).
- An erase that times out leaves the block as it was or erased (`Erasing`). After a copy
  and after the test of a block nobody looks (`CopyErase`, `TestErase`), in the test itself and
  in `ftl_format` the code does (`ftl_blockcompare`, `Wiped`).

The test of a block is a step for the ones, one for the zeros and one for the erase behind them,
each with its up to three rounds. An interrupted format has erased everything and numbered
the first `k` blocks; one cut short before that is not modelled, as the next start formats
again. Factory marks are in the first page. `ftl_search_badblock` is compiled out
(`FTL_USE_BAD_BLOCK_SEARCH`).

SectorStore is the promise: a device of sectors, erased at first, whose requests do their
sectors in ascending order, change no others, and are given up anywhere by a write but
by a read only at a sector the device lacks. `Content` (what `lut` leads to), `Ask` and `Settled` (the
request and how much of it is in its places) map Ftl to it, as `ImplementsSectors`.

**Norflash.** A byte is the set of its one bits, so that programming is intersection and
an erased byte is the whole set. `sec` and `page` hold the locals of `norflash_write`
and `norflash_write_nocheck`. The chip wraps a program command inside its page, as the
comment at norflash.c:255 presumes. An interrupted erase leaves anything in its sector;
an interrupted program has stored some of its bytes. The address mode that
`norflash_init` sets up, the identification and `norflash_erase_chip` (never called) are
left out. ByteStore is the promise: `Return` replaces the bytes of the request,
`Fail` may spoil one sector, leaves those above as before and those below as after.

**Console.** `sta` is the receive state (bits 15 and 14 and the count), `rdr` the byte in
the UART. While the TIM4 handler runs (`isr`), the UART handler cannot: one byte waits
and the ones behind it are lost. `waits` is chosen once: a host that waits for each answer or one
that does not. `Text`, what the parser reads, is the buffer at the time of the scan. `MaxAsked` bounds the
lines of a host that waits, `MaxLines` those of one that does not. TIM4's counter, reload value
and overflow flag are read and written one by one in the order of usmart_port.c:93-95 and
107-111, and the counter may go on (`Gap`) between any two accesses.

**UsmartStr.** A text is a sequence of characters, and a name or type is one of them.
`Loop` stands for the loops, `Scan` is one pass of `usmart_get_fname`'s loop, `Read`, `Ends` and `Take` are one pass
of `usmart_get_aparm`'s. `Command` is what `usmart_scan` does:
call a function with parameters, print, show a number, change the display type, switch
the run time on or off, or refuse. `plentbl` and `parm` are as in the code, where the length of
one parameter too many is written into `parm[0]`. Left out: the size of `parm` (`PARM_LEN`), the lengths of names and texts, the escape
in a string, and strings without an end, where the code reads on behind the text.

**Acceptance.** `stage` walks through `Order`, the calls of `test_system`. A stage that
loops over `key_scan` ends on its key (`led_tset`, `beep_test` and four more of the same
shape); `usb_test`, `key_test`, `remote_test`, `st480mc_test` with its calibration,
`wav_play_song` and `sdram_test` have actions of their own; the waits for a part of the
board (`at24cxx_check`, `st480mc_init`, `sd_init`, the network) end when the part answers.
A press is one
change of `pins`, so that contacts may bounce as often as they like, at most `MaxDown`
keys at one time. In UsbWatch each access of main to the flags is a step (`round`), and
a callback is one step between them; `Cable` is the tester who pulls the cable, which no
callback need tell. In Remote each read of `remote_scan` is a step
(`scan`), and at most `Slack` handlers hit one call (it takes microseconds, an edge
comes every 560 microseconds at most). Pulses are lengths in microseconds, as the
handler measures them; `MaxDamage` of them reach the receiver as another length. Assumed:
main looks in between the end of one frame and the first edge of the next (`quiet.seen`),
and the tester lets go of the keys to take the remote (`KeysTested`).

**WavPlay.** A buffer holds `Size` cells, numbered by their place in the song, 0 for
silence and negative for stale samples; `ct` is the buffer under transmission.
`heard` (history) holds the cells of the buffers sent, those without a piece of the song left out.
Keys come at any moment of the key loop. A refill is four steps: the flag is cleared, `wavwitchbuf`
is read, the buffer is filled, the keys are looked at; the transfer handler comes between any two.

One assumption is about time: when a transfer ends while the song plays, its refill is done before
the next transfer ends (`owed`; the handler waits for it). The buffers are sized for that
(wavplay.h:32: large enough for 192K at 24 bits). It is not made of a refill that a pause or an
earlier song has untied from its transfer: a transfer that ends in a pause leaves
`wavtransferend` set, so that after the pause a refill begins at any moment of a transfer, and the
next one ends while the flag is being cleared, before `wavwitchbuf` is read or while the buffer is
filled (`late` counts them). Then the code fills the buffer that is being sent (`Passed`: some of
its cells have been sent already), or one twice. When it happened, the rest of that refill
and the next refill are assumed to be done within the transfer that has begun.

## 3. Runs

| Run | Shows | Bounds and why they are enough |
|---|---|---|
| mymem | TypeOK, NoOverlap, MapExact; implements Heap with its bytes | 4 blocks of 2 bytes, 3 callers, sizes 0, 1 and 3: runs of one and two blocks, refusals, gaps between runs, `myrealloc` from and to either size |
| mymem_loops | the loops implement MyMem; every call returns; no overlap with well-timed handlers | 5 blocks, 2 pointers of main, 1 of the handler, sizes up to the pool |
| mymem_race | NoOverlap is violated when a handler allocates between search and mark | the same |
| ftl | TypeOK, NoLeakedBlock, ReadBack while writes and corrected reads move blocks; implements SectorStore | 4 blocks of 2 pages of 2 sectors, two contents, requests of 1 to 3 sectors from sectors 0-3 and 7: within and across pages and blocks, up to the last sector and over the end; 2 logical blocks and a spare of each parity |
| ftl_faults | LutMatchesTags, CapacityKept, MediumKeepsData, UnusedIsErased; every request ends unless first bad marks are lost for ever | 5 blocks of 3 pages, so that a page has no tags, and nine chips: a power failure; an erase that fails, with a power failure and with corrected reads; corrected reads alone; pages that time out behind the tags, with and without a factory bad block and a power failure; a page that times out under the tags, first and backup; too many bad blocks |
| ftl_retry | ReadBack is violated: a retried copy stores the wrong data | 6 blocks, one page that may time out |
| ftl_nospare | ReadBack is violated: a block is erased though it was not moved | 3 blocks, two of them numbered, corrected reads |
| norflash | ProgramsErasedPage, WornByNeed; implements ByteStore; every call returns | 3 sectors of 2 pages of 2 bytes, any one programmed stretch at first, every address and lengths up to 9 of 12 bytes: one to three sectors, ends inside and at page and sector boundaries, no bytes; a power failure at any command. One call, as the contents it finds are arbitrary already |
| console | TypeOK, TextUntouched, LinesRun, AsTyped, RuntimeNear, Answered, ReceptionOpens | a buffer of 12 bytes; a waiting host sends any two of 32 lines: calls of three functions with numbers in five spellings and strings, too few, more and too many parameters, system commands, mistakes, lines that fit, just do not, and overrun; a host that does not wait sends three of four lines |
| wav | TypeOK, NoSkip, LateAfterPause, FullBuffersHeard; the song ends | buffers of 4 cells, songs of 1 to 14 cells (shorter than one buffer to three and a rest), 16 and 24 bits, 3 pauses, one song |
| wav_next | InOrder is violated at the second song | two songs |
| acceptance | TypeOK, PressTakenOnce, StageKeyEnds, IdleErrorsTold, UnplugNoticed, CodesInOrder, FrameAnswered | two keys down at once; writes that may fail; a poll period of 2 rounds, 1 period offline, a byte of 4 values; fields of 4 bits, two codes, two presses, one More, one damaged pulse, one handler inside a call of `remote_scan` |

`CHECK_DEADLOCK FALSE` stands in the configurations of WavPlay, Norflash and Acceptance:
the player ends with its folder, nobody has to call the driver again after the calls
of the bound, and the acceptance sequence has a last stage.

Every property of a passing run has a seeded fault (`mutants`): a definition of the
model changed as a plausible slip would change the code, on which TLC finds the
property violated.

### What the violations say

1. *mymem_race*: usmart.c:427 declares `usmart_scan` fit for interrupts, TIM4 calls it
   there and usmart_config.c:59-60 offers `mymalloc`: a console command between search
   and mark (malloc.c:149-165) gets the block main is about to mark.
2. *ftl_retry*: after a failed page copy ftl.c:258 starts over in another block with
   the pointer, column and count of the failed attempt; the request returns success
   with old data in the pages copied before.
3. *ftl_nospare*: ftl_read_sectors ignores the result of the move (ftl.c:437) and
   erases the only copy.
4. *wav_next*: the transfer flag of one song lets the first wait of the next one pass
   (wavplay.c:292), so that the buffer under transmission is refilled.

Seen in the code while modelling, without a run: TIM4's reload value is restored to 100
(usmart_port.c:147, "恢复原来的设置", restore the original setting) although usmart.c:252
sets 1000, so that the console is scanned ten times as often from the first scan on;
the padding loop of the last WAV buffer ends at `size - bread` (wavplay.c:175);
wav_decode_init ends with `return 0` whatever it found (wavplay.c:134); norflash_init
sends Enable4ByteAddr without waiting for the status write (norflash.c:61-65);
sdram_test asks key_scan twice per round, so that the first call swallows a KEY1 press
(test.c:766, 792, against the prompt at 758); compass_get_angle returns an angle
never set when magy is zero and magx is not negative (test.c:557-581); ftl_init clears
its table before it looks whether there is one (ftl.c:62, 64); usmart_get_fparam writes
before it counts (usmart_str.c:574, 577), and a line of many short numbers needs more
than PARM_LEN bytes of `parm`; usmart_get_fname counts a comma inside a string as the
start of a parameter and usmart_get_aparm does not (usmart_str.c:390, 449), so that a
function may run with fewer arguments than it declares; two strings that touch are
read as one by the first and with what is between them skipped by the second;
`runtime 256` switches the display off, as the flag is a byte (usmart.c:212); `1 2` is
read as 12; `get("x,y")` so counts two parameters by one function and runs with one by the other,
although usmart.c refuses a call with too few. `AsTyped` claims the plainly written lines
only; nothing in the repository says what these should do. The compass calibration prompts for KEY1
and ends with WKUP (test.c:503, 509; the comment at 488 says WKUP), and `EndKey` is the key the loop
tests; STORAGE_Read_FS drops a read error
(usbd_storage.c:259, against 231-233); usb_test compares with a copy it never set
(test.c:83), reads the flags once more to record them (test.c:152) and clears them with
a store (test.c:196), so that an error flagged in between is never shown, while one
flagged when it waits always is (`IdleErrorsTold`). In remote_scan the done bit stays set
while the lead bit is: a bit of the next press that arrives between the reads of the
address and of the key (remote.c:219-225) makes it report a key shifted by one bit, which
`CodesInOrder` leaves out as `torn`; a lead whose bits were lost reports the key
before; a code without a label prints the label of the last key (test.c:296-384). A pause of
the player can cost up to a buffer of the song, sent twice in part or skipped (wavplay.c:292-314).

ftl.c keeps no promise about data on a chip whose spare bytes time out, and none about the
blocks a failed erase leaves behind:

- A time-out at ftl.c:491 or 495 gives a block its neighbour's number: the table leads to the wrong
  block until it is made anew, or, when the number is then missing in the middle, the count falls
  below the numbers on the chip and below 100 the device is formatted. `LutMatchesTags` and
  `CapacityKept` therefore speak of chips whose tags answer (`TagsAnswer`).
- An erase that fails after a copy (265) leaves two blocks with one number, and the next table
  takes the one with the higher index, which may be the old one: `NoLeakedBlock`, `ReadBack` and
  the refinement are checked on chips whose erases succeed. The table itself and the
  capacity stay right, which run ftl_faults checks with such an erase.
- An erase that fails after the zero test (443), or that a power failure prevents, leaves a
  block of zeros that passes for unused; the next copy is programmed over them. `UnusedIsErased`
  excepts it: chips with corrected reads when a power failure or a failed erase came.
- A first bad mark that is not written (100) has no substitute: `ftl_find_unused_block` does not
  look at the backup mark, so that the retry loop may take the same block without end.
  `RequestEnds` excepts the behaviours in which that happens for ever.

## 4. Fairness

- MyMemIrq, Norflash, Ftl: weak fairness of the running call. Main and the USB
  interrupt run to completion, and a chip carries out what it is sent; new calls and
  power failures are not fair. In Ftl a time-out is a choice of each operation, so that
  `RequestEnds` rests on the retry loop using up a block each time, and excepts the
  behaviours that lose first bad marks infinitely often (`MarkLost`).
- Console: TIM4 keeps running and a pending interrupt is served. The two handlers
  compete at equal priority, each can be enabled and disabled by the other again and
  again, hence strong fairness: the NVIC serves a pending handler when the running one
  returns. A host that has begun a line ends it; it need not begin one.
- Acceptance: main goes on. Neither the tester, the host, the remote nor the parts of the
  board are fair, so that `StageKeyEnds` speaks of a key that is held and
  `UnplugNoticed` of a cable that is out; a frame begun is sent, and TIM1 overflows while the line is idle.
- WavPlay: main goes on and the stream keeps sending while it is on. Nobody has to press
  a key, so `SongEnds` presumes that the song is not left paused for good. The handler waits for
  a refill that is owed, the timing assumption of section 2.

## 5. Proofs

MyMemProofs proves about MyMem, for every pool and block size, set of callers, sizes
and contents (assumptions `PoolAssumption` and `DataAssumption`: sizes are naturals, blocks and
pool are not empty, NULL is no number, request sizes are naturals):

- `TypeCorrect`: `Spec => []TypeOK`, inductive as it stands.
- `PoolInvariant`: `Spec => []PoolInv`, with `PoolInv` the conjunction of `TypeOK`,
  `Placed`, `NoOverlap` and `MapExact`.
- `NeverOverlap` and `TableExact` follow from it.

`NoOverlap` alone is not inductive: that a found run is nobody's follows only if the
table marks every held block (the first half of `MapExact`), and that a free clears
nothing of a neighbour only if the word at the offset is the length of the freed run
and the run lies in the pool (`Placed`). The second half of `MapExact` says that freed
blocks can be found again. The lemmas follow the operations: `RunInPool` (a run's blocks
are blocks), `FreeRunApart` (a free run meets nobody's run), `MarkStep` (giving a run),
`FreeStep` (taking it back), `MoveStep` (both, for `myrealloc`), `QuietStep` (steps that
change neither table nor pointers); `PoolInvStep` joins them.

MyMemHeapProofs proves `KeepsObjects`, `Spec => ImplementsHeap`: the refinement of Heap. It
adds one assumption (`NullAssumption`: NULL is no object) and to the invariant that a caller
holds one of the sizes asked for (`HeapInv`). Blocks apart are turned into bytes apart
(`BytesApart`, with `RoundedUp`: the blocks of a request have room for it); then a store, a
new object and a moved one touch bytes of one caller (`Given`, `Moved`, `GivenBack`, `Written`).
`Copied` is the copy of `myrealloc`: upwards it repeats bytes only behind the old object,
as the two runs are apart, so that the prefix both sizes have arrives whole.

MyMemIrqProofs carries what is proved of MyMem over to the loops of malloc.c (assumption `IrqAssumption`,
the one of MyMem for the constants of MyMemIrq; handlers allocate only while the main
program is outside malloc.c, as in `Spec`):

- `LoopsKeepPool`: `Spec => []IrqInv`. `IrqInv` is `PoolInv` of the table as MyMem has it
  (`SettledMap`: a run half marked is free, one half cleared is held), and the place of each
  loop. For the search that place is: the blocks counted are free, they end at a used one or
  at the pool's end, and no run long enough begins above `offset`. Hence the run the search
  stops at is the highest, which is what MyMem takes.
- `LoopsImplement`: `Spec => ImplementsMyMem`. `IrqStep` shows every iteration to be a
  step of MyMem or none; `MarkSteps` and `FreeSteps` are the two at which a run is taken
  or given back.
- `LoopsNeverOverlap`: `Spec => []NoOverlap`, from `PoolInvStep` of MyMemProofs, used through
  `SameNext`: each step of the loops is one that keeps `PoolInv`.

NorflashProofs proves about Norflash, for every size of page, sector and chip, every set of
byte values, requests and contents (assumption `NorflashAssumption`: the sizes are not 0, a request
lies in the chip):

- `FlashInvariant`: `Spec => []FlashInv`, and with it `FlashTypes`, `PagesErased` and
  `WearsByNeed` (`TypeOK`, `ProgramsErasedPage`, `WornByNeed`).
- `KeepsPromise`: `Spec => ImplementsStore`, the refinement of ByteStore, power failures
  included.

`TypeOK` alone is far from inductive: that a program meets erased bytes only follows from
what the locals of the two loops stand for. `SecInv` says where `sec` is in the request,
`ReadInv` that the chip is as it is to be before `sec.addr` and as it was from there on,
`EraseInv` that the buffer holds the sector about to be erased, `PageInv` that the chip is
as it is to be before `page.addr`, erased under the page loop and old behind it, and
that the source holds what is to be. At the end of the last page the last of these is
the promise. A power failure in any command leaves the sector at work (`PowerKeeps`, `Failing`).

FtlProofs proves about Ftl, for every geometry, share of numbered blocks, set of chips and
order of requests and power failures (assumption `FtlAssumption`: the sizes are not 0, a block has
two pages at least, `None` (0xFFFF) is no block's number, and a chip's marks are on its own
blocks and pages):

- `FtlTypes`: `Spec => []TypeOK`; `Typed` adds that a request stays inside its buffer and a
  copy inside what it took of it. It holds on every chip, with tags that time out, marks that are
  lost and erases that fail.
- `NothingLeaks`: `NoLeakedBlock` as long as power has not failed, erases succeed and the tags
  answer. A copy that power cuts short leaves two blocks with one number (ftl.c:230), and so does
  an erase that fails (265). Inductive is `Tagged`: two blocks share a number only as source
  and destination of the copy in progress, and a block marked bad has none.
- `TableLeadsRight` and `CapacityStays`: `LutMatchesTags` and `CapacityKept`, power failures,
  failed erases and data pages that time out included, on chips whose tags answer (a condition of
  the properties). Inductive is `Mapped`: besides the table, that the destination of a copy
  is outside the table and carries the source's number once a page is copied, that a source
  under test has left the table, and that each number below the capacity is on some
  good block at every moment, which is what a power failure has to find.
- `FreeIsErased`: `UnusedIsErased`, on chips without corrected reads always, on others
  while power is on and erases succeed (a failure in the middle of a block's test leaves it unmarked
  and not erased, ftl.c:440-443). Inductive is `Clean`.
- `ReadsBack`: `ReadBack` while power is on, pages answer and erases succeed (`ftl_retry` shows what a page
  that times out does to it). Inductive is `Kept`: every sector the table leads to holds an
  admissible value, the sectors of the running request up to its count hold (or have
  given) what was asked, and a destination holds the target of its copy up to the page
  reached and is erased from there on. Both `Clean` and `Mapped` are needed for it: a program
  on a page that is not erased would store `Junk`.
- `FirstCutKeeps`: `MediumKeepsData` up to and after the first power failure, on chips whose pages
  answer and whose erases succeed (a condition of the property).
- `KeepsSectors`: `ImplementsSectors`, the refinement of SectorStore, while pages answer,
  erases succeed and power stays on (`Sane`). None of these conditions can go: a page that times out makes a retry store
  the wrong data (run ftl_retry), after a power failure the table may name an
  incomplete copy (ftl.c:230), and after a failed erase an old one (265). Each step of ftl.c either leaves what the host sees (`Still`: a
  copy, whose destination is not in the table; a test, whose block has left it; a mark; a call of
  `ftl_init`, which finds the same blocks), or puts the next sectors of a write in
  their places (`Puts`), or takes those of a read. A copy writes nothing the host sees until
  `lut` names it, so that all its sectors appear in the step that erases the source. Besides the
  invariants above it needs three small ones: `Beginning` (before the first request all is
  erased), `Tested` (a test belongs to sectors the device has) and `Unasked` (without a request no
  sector is done).
- `NeverCorrected` joins them for chips without corrected reads, without the condition `Spare`.

All but the first two presume `Spare`: a corrected read that moves its block finds a free
one. It is a condition on the behaviour, and the code makes none: without a free block
ftl_read_sectors goes on and empties the block in use (ftl.c:437), which is the run
ftl_nospare, the only one in which that branch of `CopyFind` is taken. Writes need no such condition, as they report the lack of a block.

ConsoleProofs proves `RunsWhatCame`, `Spec => []TextUntouched`, for every buffer length,
alphabet, set of lines and clock (assumption `ConsoleAssumption`: the buffer has room for
one byte, CR, LF and the end mark are no characters of a line and differ from one another). `TextUntouched`
compares the text up to the first end mark with the one that was taken. Its inductive
invariant `TextInv` adds that the count stays below `RecLen` and that no end mark stands
before the count: the receive handler puts bytes in order, so that the end mark
`usmart_get_input_string` puts at the count is the first one (`FirstNul`). `ReceiveKeeps` and
`GetKeeps` are the two steps that write the buffer; in all others it is left alone, as no
byte is received while `isr` is not "none", which is where the equal priority of the
handlers enters. Under the same assumption:

- `ConsoleTypes` (`TypeOK`): no index leaves the buffer; from `TextInv` and `SetInv`, the latter
  for the settings and the timer.
- `TimesNear`: `Spec => []RuntimeNear`, for each of the reload values and whatever the counter does
  between two accesses to it: right to a tick, or the counter overflowed between the clearing of
  the flag and that of the counter, or between the reading of the two (`slip`), which makes the time
  wrong by a whole range.
- `RunsEachLine`: `Spec => []LinesRun`. Two inductive invariants carry it. `Counted` is for any
  host: every line has one LF, so that the lines run, being parsed, complete in the buffer, with
  their LF in the data register or still being sent are together no more than those sent.
  `InTurn` is for a host that waits: between two lines all is `Quiet`, and within one
  (`InLine`) the buffer holds the bytes that passed, modulo what an overrun threw away, so that
  the text taken is the line or, if it is too long, its end (`Kept`). `ArriveTurn`,
  `ReceiveTurn`, `GetTurn` and `ScanTurn` are its steps.
- `DoesAsTyped`: `AsTyped`, provided that the parser makes of each line by itself what its
  user means (the hypothesis, over `Command` and `Means`, which the run console evaluates for its
  lines). What the theorem adds is that nothing between the wire and the parser changes that.

WavPlayProofs proves about WavPlay, for every buffer size, folder, number of pauses and
order of keys (assumption `WavAssumption`: a buffer has a cell, a folder a file):

- `PlayerTypes`: `Spec => []TypeOK`.
- `OnlyAfterPause`: `Spec => []LateAfterPause`, for all songs: a transfer ends inside a refill at most
  once for each pause. Inductive is `Tied`: a refill that no pause has untied from its transfer
  is owed.
- `NoneSkipped` and `HeardToTheEnd`: `NoSkip` and `FullBuffersHeard` in the first song, which say what
  each such transfer may cost: a buffer. A later song may begin with a stale `wavtransferend`
  (run wav_next), hence the condition `songs <= 1`. They rest on the timing assumption of
  section 2 for refills that are owed, and on none for the others but that two transfers do not end in
  one refill.

`Named` says that the flag comes with the buffer that is not being sent. It is not enough for the
pieces: `InStep` says where the pieces up to the place read are. Either nothing waits (`Fresh`: the
buffer being sent and the other one continue what was heard), or a buffer was sent and is to be
refilled (`Sent`), or a refill was overtaken and the flag tells of the buffer just filled
(`Ahead`); `Brings` allows a buffer to repeat pieces and counts those it lost, each paid for by
a late transfer. `Pace` says that all reads but the last fill a buffer, from which a song that ends
by itself was heard up to its last full buffer.

AcceptanceProofs proves about Acceptance, for every number of keys down at a time, poll
period and set of remote codes (assumption `AcceptanceAssumption`):

- `PressOnce`: `Spec => []PressTakenOnce`. Inductive is `KeyInv`: `key_scan` is armed
  (`key_up`) only when nothing was taken since all keys were up, and a call in its 10 ms
  wait was armed. `WaitKeeps` and `ReturnKeeps` are the two halves of a call; the stages
  only choose what to do with its value.
- `ErrorsTold`: `Spec => []IdleErrorsTold`. Inductive is `ErrInv`: an error owed to the
  tester is in the register and not yet on record, that of a write only until its test,
  and none is owed after both tests. `InterruptKeeps` shows it for the callbacks between
  any two steps of a round, `WatchKeeps` for the steps of the round.
- `PressKept`: `Spec => StageKeyKept`, an action property: a press of the key a stage's loop ends on is
  not taken without leaving the stage, by a call whose result is compared with that key. In
  `sdram_test` that is the second call of a round (the first drops a press of KEY1), in the calibration
  the key is WKUP, whatever its prompt says. It is the safety half of `StageKeyEnds`; that the stage
  is left in the end needs fairness.
- `AcceptanceTypes`: `Spec => []TypeOK`, composed of the types of the keys (`KeyInv`), the USB
  flags (`UsbType`), the remote (`RemoteTyped`, with the locals of `remote_scan`: a shift keeps
  the register's width, a field read has the width of a field) and the stages.
- `CodesKept`: `Spec => [](damage = 0 => CodesInOrder)`, for any set of codes, any lengths of the fields and any number of
  handlers inside a call: while pulses arrive as sent, the codes `remote_test` prints are those
  sent, in their order. Inductive is `CodesInv`: `n` bits of the current frame stand at the
  end of the register, and before them the rest of the frame before it, or nothing is
  said to be done (`Fresh`). `WholeFrame` is why the four comparisons suffice: at any other shift
  a zero of the address stands where its inverse should, so that a call that accepts the
  register reads a whole frame. `Places` keeps the order of the frames reported. TLC had checked
  `CodesInv` on the instance of the run acceptance before.

Only model-checked:

- `CodesInOrder` once a pulse is damaged: that a frame with a lost or wrong bit does not pass
  the comparisons depends on the codes chosen and on a single damaged pulse, as in the run; two
  can turn one key into another.
- What the parser makes of a line (`Command`): loops over texts, written by recursion.
- All liveness (`RequestEnds`, `CallReturns`, `Answered`, `ReceptionOpens`, `SongEnds`,
  `UnplugNoticed`, `FrameAnswered`, the second half of `StageKeyEnds`): fairness and ENABLED are
  out of the prover's reach.
- The four violations: they are counterexamples.

## 6. Plan

The modules planned at first are there: the memory pools, the two flash drivers, the
console with its parser, the player and the acceptance sequence. What is left, in this
order:

1. Norflash: the address mode `norflash_init` sets up (norflash.c:38-73).
2. The I2C bus with EEPROM and port expander, as far as they repay it: they are called
   by one program without concurrency, so that a missing or busy device is the only case
   a test would hardly reach.

Compositions: MyMem stands below MyMemIrq; KeyScan, UsbWatch and Remote below Acceptance;
UsmartStr below Console. Heap, SectorStore and ByteStore are the promises MyMem, Ftl and
Norflash are shown to keep.

Every property of safety is stated by a theorem, some under a condition that section 5 names.
What is left of them is beyond the code or beyond the prover: `CodesInOrder` with damaged pulses
holds for some sets of codes only, `ImplementsSectors` across power failures is not true of the
code, and the rest is liveness.

## 7. Not modelled

- Ethernet and DHCP (lwip/arch): `lwip_comm_init` runs once in the net stage, but
  `lwip_periodic_handle`, `lwip_pkt_handle`, `lwip_dhcp_process` and `ethernetif_input`
  are never called: frames are received and never taken. The stage is in Acceptance
  as a wait that may end.
- Register sequences, drawing, blocking transfers of the LCD, sensors, ADC, codec, SPI,
  SD card and SDRAM: one program, no shared state, and values TLC has no numbers for.
- What a chip does beyond its commands: a NAND chip that reports failure without a
  time-out (the code reads the ready bit only, nand.c:212), a NOR chip that is sent a command while busy.
- The vendored libraries (HAL, CMSIS, lwIP, FatFs, USB device), most of the lines of the
  repository: third-party code, used through the calls above.
