# GZX in TLA+

GZX emulates the ZX Spectrum 48K, 128K, +2 and +2A.  This directory holds a
formal model of its core logic: TLA+ modules translated from the C source, TLC
configurations that check them on small instances, and proofs of their main
invariants for the TLA+ proof system.  `PROJECT.json` lists every component,
run, mutant, mapped definition, finding, hazard and theorem; this text explains
them.

    tlc -config MCPlayer.cfg MCPlayer        # check a run
    tlapm MemPaging_proofs.tla               # check proofs

## The system

The program has one thread.  The main loop (`gzx.c`) executes one Z80
instruction after another; before each it lets the video generator, the sound
and the tape deck catch up with the CPU's clock, and every 50th of a second it
reads the keyboard.  Nothing runs in parallel, yet the order of what happens is
open: the program that the Z80 executes is arbitrary, and between two
instructions the user may press any key, open any menu, load any file.  That is
what the actions of the models interleave.

| component | state | operations | hard part |
|---|---|---|---|
| tone generator `tape/tonegen.c` | a program of up to 11 tones or direct pulses, the current level | add a tone or pulse, clear, next pulse | capacity, empty tones, the levels before a pause |
| tape player `tape/player.c` | current and next block, index, loop counter, pending signal | `*_init`, `*_next` per block type, next pulse or signal | nested loops, what is kept over a restart |
| sampler, deck `tape/sampler.c`, `deck.c` | level, delay; position, playing, paused, 48K mode | the buttons, open, sample, 48K notification | two positions handed back and forth, signals in the middle of a sample |
| tape files `tape/tzx.c`, `tap.c`, `wav.c`, `wav/` | none of their own | load, save, one function per kind of block | 17 kinds of blocks, an allocation or a write that fails anywhere |
| quick load and save `tape/quick.c` | none of its own | replaces LD-BYTES and SA-BYTES of the ROM | changes the tape of a deck that may be playing |
| paging `memio.c` | paging registers, lock, four slots, screen | paging ports, reset, choice of machine | map, registers, lock and the deck's flag must agree |
| CPU `z80.c` | registers, flip-flops, lock, modifier, requests | execute, INT, NMI, reset | what may happen between two instructions |
| snapshots `snap.c`, `snap_ay.c` | none of their own | load, save | what they reset and what they leave; packed pages; files that are cut |
| serial MIDI `ay.c`, `rs232.c`, `midi.c` | bit receiver, byte decoder | port write, byte, message | state left over between bytes and messages |
| main loop, video `gzx.c`, `zx_scr.c`, `video/` | five clocks | catch up, mode change, key handling | clocks that stand still or run ahead |
| GPUs `z80g.c` | eight CPUs and memories | execute in lock step | side effects nine times |
| keyboard `zx_kbd.c`, `gzx.c`, `mgfx.c` | ring of events, matrix, modifiers, user interface lock | key events, menus | releases that are swallowed, a ring that is full |
| debugger, disassembler, menus, graphics, platform layer | | | mostly input and output |

The components meet in few places: port writes of the Z80 reach paging, AY and
ULA through `zx_out8()`; paging tells the deck whether the machine is in 48K
mode (`gzx_notify_mode_48k()`); the AY's port feeds the serial receiver and
that the MIDI decoder by callbacks; the ULA requests the CPU's interrupt; the
main loop takes samples of the deck and traps two addresses of the ROM.

What makes each correct: the tape that is heard is the tape that was loaded;
the deck's position is that of the sound; the memory map is what the registers
say and the traps fire only where the bank of the right ROM is mapped; interrupts are taken only where
the Z80 takes them and none is lost; a message that was sent is the one that
arrives; what was saved is what loads, whether or not a call of the system
failed; each field gives one interrupt; no key stays pressed, and a locked interface
stays locked.

## Modules

    ToneGen <- TapePlayer <- Waveform <- PlayerLoop <- MCPlayer,   TapePlayer_proofs
                                 ^------ TapeDeck   <- MCTapeDeck, TapePlayer_proofs
    MemPaging  <- MemPaging_proofs
    Z80Control <- Z80Control_proofs
    Z80Alu <- Z80Instr <- Z80Machine <- MCZ80Machine, Z80Machine_proofs
                          (implements Z80Control)
    MidiLink   <- SerialMidi <- MCSerial, SerialMidi_proofs
    TapeBlocks <- TapeFile <- TzxFormat, TapFormat, WavFormat <- TapeStore <- MCTapeStore
    SnapRle    <- Snapshot <- MCSnapshot, Snapshot_proofs
    MainLoop   <- MainLoop_proofs
    KeyQueue   <- Keyboard <- Keyboard_proofs

**ToneGen, TapePlayer.**  The generator and the player are records, every C
function an operator on them; arrays are sequences, the index of the next entry
is the number of entries taken.  A byte is a sequence of `ByteBits` bits in
playing order.  The ROM's pulse lengths and counts are constants.

**PlayerLoop** executes `tape_player_next()` one loop iteration at a time:
`Enter` and `Return` are the outer test, `Take` the body of the inner loop,
`PlayOn` the second switch, `Exhausted` the early return; `GetPulse` and
`GetSignal` are `tape_player_get_next()`, `Restart` is `tape_player_init()` by
Stop and Play.  A failing assertion leads to `pc = "abort"`.  `out` is the
history of what the caller was given.

**Waveform** defines what a tape stands for without the player: loops are
unrolled, every block is a list of pulses, a pause is a silence that is high
for a millisecond after a rising edge.  It is the reference of the runs
`player` and `deck`, and of the theorem `WaveformCorrect`: loops and the bytes of
a block are therefore recursive functions, with no RECURSIVE operator.

**TapeDeck** puts sampler and deck on top.  Each function of the deck is one
action, because it runs to its end; the loops of `tape_player_next()` and of the
sampler are the recursive functions `feed` and `run` of `PlayerNext` and
`CatchUp`, over the places at which a player of the tape can be (`Playable`).  `Play` resumes or starts as the code does, `Record` is
what quick save does to the tape, `NextBlock` what quick load does to the
position.  `from` and `elapsed` are history: the blocks Play began with and the
samples since.  `crashed` says that a null pointer was followed.

**MemPaging** keeps one record: registers, lock, bank of each slot, screen,
the deck's flag.  A port value is a record of its bits.  `zx_mem_page_select`,
`zx_epg_write`, `zx_mem_page_reset`, `zx_select_memmodel` are operators, and the
actions compose them as the callers do: `ChooseModel` selects and resets,
`Load48` and `Load128` reset and select (and write the port), `LoadAY` only
selects.  The choice of a machine may fail (no memory, no ROM file): the code
goes on, and so does the model, with `intact` false.  The +3 and the ZX81 have
constants in the source but no menu line selects them.

**Z80Control** is `z80_execinstr()`: NMI, then INT, then the instruction, with
prefixes as instructions of their own that set the lock, as the code treats
them.  The bytes of the program are chosen freely, apart from a byte that is
fetched again because a snapshot was saved behind a prefix.  The source
declares the modifier as "0 / 0xDD / 0xFD" (z80.h:96); the code stores 0, 1, 2,
and so does the model.  `z80_nmi()` has no caller in the repository and is
kept as part of the CPU's interface.

**Z80Alu, Z80Instr.**  The instruction set.  `Z80Alu` has the arithmetic: each
operation gives a value and the set of flags that are on, the undocumented ones
included.  `Z80Instr` has the machine as one record, the operands, one operator
for all C functions of an operation, and the tables.  The seven tables of
`z80itab.c` are regular: bits 6-7, 3-5 and 0-2 of an opcode (x, y, z) name its
operation, its register pair, register or condition; DD and FD put IX or IY in
the place of HL, where the C code has a function of its own for each register.
Exceptions of the code are kept: ED 63 is the function of 22, CP with a half of
an index register stores the difference, the half-carry of 16 bit operations
looks at the upper bytes.  Memory is a function on the addresses that the
programs use and reads 0 elsewhere (paging is `MemPaging`'s); a port gives a
value that depends on its address only.  The statistics counters are left out.

**Z80Machine** runs `z80_execinstr()` on programs and requests INT and NMI
between any two instructions.  `served` and `taken` are history.  Its refinement
of `Z80Control` maps the fields of the record to those of `c` and the last
opcode to its class, so that the arbitrary byte of `Z80Control` becomes the one
that is fetched.  `MCZ80Machine` has the programs, as bytes, and what they are to
compute, without the operators of `Z80Alu`: sums are added bit by bit with the
carries from which the flags follow, rotations move bits of a set, products,
quotients and decimal sums are those of the integers.

**SerialMidi** is the path of a MIDI message: `ay_reg_select()`,
`ay_reg_write()` to register 14, `rs232_write()`, `midi_port_write()`, one called
by the other inside a single step.  `cur_reg`, `ay_on`, `rs` and `mp` are the
state of the C code.  The Z80 program is the environment and has variables of
its own: the bytes of the `item` it is sending, how many bytes (`at`) and bits
(`pos`) of it are sent, which status byte need not be repeated (`running`).
`Select` and `WriteSound` are what an interrupt routine with music does between
two bits.  `Reset`, `LoadZ80` and `SwitchAy` cut the program off anywhere.  None
of them resets the receiver or the decoder in the code, and none does here.
What the model asks of programs: after a cut they write at least `MinIdle` (8)
ones before the first byte, because the receiver counts writes and not time and
may still be inside a byte; real-time bytes stand between messages and not
inside them; the status byte is omitted only before as many data bytes as
`RunningCounts` allows.

**MidiLink** is what the path promises: a message asked for is given to the
device, unchanged and once, before the next one may be asked for; only a cut
may lose or garble it.  `SerialMidi` carries the variables of `MidiLink` (`due`,
`got`, `epoch`) as history, so that the refinement mapping is the identity.

**TapeBlocks, TapeFile, TzxFormat, TapFormat, WavFormat.**  A tape in memory is a
sequence of records, one kind of record for each structure of
`types/tape/tape.h`; next to them stand the objects that its `*_create()`
function allocates, in order, and those that `tape_destroy()` frees.  A file is a
sequence of bytes.  A reader goes through it with a position, the number of
allocations that still succeed, a heap that counts the objects of each kind, and
a return code; `Loaded` is the course that the loaders of one block share, with
its early returns in the order of the code.  Each loader and each saver of the
three formats is an operator over the fields of the packed headers.  The error
paths that look at a pointer that was never set have two outcomes, `lucky` when
it is null and a dead program otherwise.

**TapeStore** puts the deck and one file on disk on top: new, open, save, save
as, recording by quick save, the end of the program.  Every call may meet an
allocation, an `fopen`, a write or an `fclose` that fails; what a failed write
leaves on disk is any prefix of the file, for WAVE files also one whose sizes
were filled in.  `disk.tape` remembers what the file was written from, `leaked`
which tapes were lost because their name could not be copied.

**SnapRle, Snapshot.**  `SnapRle` is the packing of pages (`zx_mem_rle_write()` and
its counterpart) as recursive functions on bytes, including what lies behind the
end of the page.  `Snapshot` saves and loads `.z80` and `.sna` files header by
header, page by page.  Addresses keep 16 bits and are mapped to pages of
`PageBytes` bytes, so that the stack at the edge of a page, of the ROM and of
memory is where it is in the code.  A byte that the code reads without having
set it is any byte of `Junk`.  `Load` has every return of `zx_load_snap()` and the
loaders: -1 also where memory is short behind a load that has succeeded
(`snap.c:713`, `did = "short"`), and `LoadUnopened` for a file that cannot be opened.

**MainLoop** is `main()` and `zx_proc_instr()`: at most one field of keys, the
video catching up one cell or field at a time, one sample of each kind, one
instruction, with the debugger in between.  Only what the clocks depend on is
kept: how the ULA and the Spec256 generator count, when they request an
interrupt, which of them is in use.  The GPUs are turned on and off by snapshots, a
reset and the menu of hardware options (`GpusOff`, `gpu_set_allow()`); `pace` is history
and says how far the picture has come since such a change.  An instruction takes any number of T
states of `Times` and leaves any lock, since `Z80Control` has its details.
`ClockLt` and `ClockGe` are the macros of `gzx.c` (79-80) with their shift by 31 bits
(`Half` is 2^31, `Wrap` the range of `unsigned long`).

**Keyboard** is the path of a key: `host` (the events that SDL holds), the ring of
`mgfx.c` (`w_putkey()` with its index that is put back when the ring is full),
`key_handler()` of `gzx.c` as four alternatives (`HandleAlt`, `HandleBoth`,
`HandleWithAlt`, `HandleKey`), and `MenuKey`, `DialogKey` and `DebuggerKey`, which
read the same ring while they are open.  The debugger is opened by its key, and by
`zx_proc_instr()` when a stop address is met or a step is done (`Stop`): that asks
neither for Alt nor for the lock.  A stop or a step is due (`armed`) after the debugger
was left for it; any number of instructions may lie between.  Which row and column of
the matrix a key closes is a table and left out: a key is pressed or not.  Left out
too is the check of a key's code against `KST_SIZE` (`gzx.c:300`), below which all
codes are.  `down`, `got`, `altSeen`, `shiftSeen`, `astray`, `lost` are history: `altSeen`
and `shiftSeen` say whether the last event of Alt and Shift that anybody has read was a
press, a release, or a release read by somebody who may be open while the handler
takes the key for held.  **KeyQueue** is what the queue promises: events are read in order,
and only those beyond the room of the ring are lost; the refinement mapping joins
the ring and the host's events to one sequence.

## Runs

Passing runs, with their bounds:

* `player` (236,000 states).  All tapes of up to two blocks out of twenty-one, each
  block in a loop with a block before or behind it, and a pulse sequence of one
  pulse at the end; two playbacks, the second from any block.  Bytes have two
  bits: the code treats all bits but those of the last byte alike, so that two
  suffice to tell a first, a last and a missing one; data of one and of two
  bytes tell inner from last bytes.  Every block type follows every other,
  which is the distance over which the player keeps state, and loops run
  0, 1 or 3 times.  Checked: no assertion fails, the waveform, and
  `tape_player_next()` returns - under weak fairness of its own iterations
  only: a C function that was called runs, nobody has to call it.
* `deck` (240,000 states).  Ten tapes with stops, loops, long and short
  pulses, all buttons in any order, 12 samples of history, tapes of at most two
  blocks for recording.  DeltaT is 3 so that both several pulses in a sample
  and several samples in a pulse occur.  Checked: a stopped deck is not paused,
  each sample is the waveform at its time, the position is what is heard, and
  Stop blocks are heeded.  The tape of three tones is the one where Play goes
  further ahead than the position allows later (`PositionIsHeard`, below).
* `tapefile` (22,000 states).  Seven files of other programs, byte by byte: every
  kind of block at the edges of its fields, two TAP blocks, an 8 bit and a 16
  bit WAVE file, the first of more samples than a recording of 6 bytes (2^24 - 1
  in the code) and a buffer of 16 (4096) hold.  They are opened, saved in every
  format, recorded to, opened again.  One call of the system fails in a
  behaviour: any write at any byte, any close, or the allocations from the
  first, second, fourth, ninth or eleventh on; two failures do not meet in the
  code, because every failure ends the call it happens in.  Recording is bounded
  to tapes of no block (`MaxBlocks` 1), which is enough since it is the same
  insertion on any tape.  Behaviours end where an object has been lost
  (`MaxLost` 0), so that the first loss is judged and the heap stays bounded.
  Checked: what was saved is what opens, what was cut opens as its first blocks
  or not at all, no object is lost or freed twice but the known ones, samples
  stay in order.
* `paging` (5,000 states; complete, the state is finite).  Four machines, every
  port value.  Checked: the map is what the registers say, the traps are taken only
  where the bank of the 48K ROM is mapped, the deck is told of the 48K mode, RAM in
  slot 0 can be written.
* `z80` (280 states; complete but for `MaxBack`, which bounds how often a
  snapshot is saved behind one prefix).  No byte behind CB or ED is a prefix
  here; the deviations below say why that matters.  Fairness: weak for executing
  instructions, because the main loop never stops, and strong for an
  instruction at which interrupts are not blocked, because the keys that load
  snapshots are read once in a field only.
* `machine` (178,000 states; complete but for the number of requests).  24
  programs with 2,100 inputs: every operation on A at the edges of the byte and
  of its digits, with and without carry; 16 bit sums and differences; decimal
  adjustment; rotations full circle and one short of it; a signed comparison;
  multiplication, division, recursion; LDIR and LDDR onto themselves, CPIR,
  CPDR, INIR, OTDR; index registers, exchanges, critical sections between DI
  and EI; a DJNZ that runs 256 times.  One or two requests of either kind come
  between any two instructions of all but the shortest: two are enough for an
  NMI within the handler of an INT and for a request that waits for the other
  handler.  Checked: the result and the stack at the end, no other byte of
  memory changed at any time, each accepted request ran its handler once, every
  step is one of `Z80Control`, and the program ends.  A CPU that is halted with
  no request counts R for ever; the guard `Running` leaves that out.  Fairness:
  weak for executing instructions; it is written out with `Running` in the place
  of ENABLED.
* `serial` (270,000 states; complete but for two cuts).  A status byte with one
  and one with two data bytes, two data bytes that differ in several bits,
  register numbers that select the I/O port, select another and select the
  port by `% 16`.  Two cuts are enough for the program to be cut off again while
  it writes the ones that follow the first cut.
* `mainloop` (1,955,000 states).  A field of 9 T states, samples every 4 and 3,
  cells of 2, instructions of 2 or 3: what is due at an instruction comes in all
  orders.  Times up to 26 (nearly three fields) let the
  generators be switched, stand still and be switched back, with one field drawn
  out of turn; the 31 bit comparison is a comparison of 20 so that a field and
  the difference of two generators come close to it.  Checked: samples and keys
  are on time, the picture is complete up to every instruction, interrupts come
  once in a field, the GPUs take them with the CPU, a single step ends, and the
  loop that catches up ends - under weak fairness of the loop's own steps.
  `IntsRegular` bounds the time between two requests from above always, and from
  below from the first whole field on that is drawn after the picture has caught up
  with a change of mode.  The time is enough for that: fields end in this state with
  the GPUs on in either mode, and after fields drawn out of turn.
* `snapshot` (248,000 states).  Pages of eight bytes with all 256 patterns of the
  escape and another byte and the periodic patterns; runs of at most five (255
  in the code); six states of the CPU (behind a prefix, in an NMI handler, halted,
  the stack at the edge of the ROM, of a page and of memory); three machines; three
  steps of the program or the user (a write counts for two) before the load, which happens on any
  machine, and files that are cut, edited, or written in the versions of other
  programs.  Checked: what loads is what was saved, saving is invisible to the
  program that goes on, a load that fails leaves the memory alone, but for the one that
  fails behind the whole load, which restores what a load that succeeds does.
* `keyboard` (3,300,000 states).  Five events of Alt, Shift, one cursor key, one key
  that opens a dialog, the debugger's key, one that leaves it with a step due, and the
  keys of the menus, in a ring of three places (two of which can be filled), all of
  which may wait at the host (`MaxWaiting`): the ring fills, wraps and overflows; a
  step is due with Alt held or in a locked interface.  Checked: the ring and the host
  implement `KeyQueue`, the program sees the keys that are held, Alt is taken for held
  wrongly only behind a debugger that a stop or a step has opened (`AltIsReal`), and
  while the interface is locked (`LockHolds`) nothing opens but that debugger, all keys
  go to the program but those pressed with what is taken for Alt and Shift, and only U
  among them unlocks.

The runs do not check deadlock where the system may stop: when the tape is at
its end and no further playback is allowed by the bound, when the deck has
crashed, when time (`MaxClock`), events (`MaxEvents`) or work (`MaxWork`) are used
up, or when the user has quit.  Runs check no type invariants: these are
theorems of `MemPaging`, `Z80Control`, `Z80Machine`, `SerialMidi`, `MainLoop`,
`Keyboard`, `PlayerLoop` and `TapeDeck`, and in the other modules `TypeOK` stands for
the reader and can be added to the configuration.

Runs that find the code to differ from what the repository says of it:

* `machine_compare`: CP IXh, CP IXl, CP IYh and CP IYl store the difference in A.
* `snapshot_own`: a `.sna` snapshot of a 128K is saved with PC and the page
  register at its end, and is loaded with both taken from the beginning of its
  fourth bank.

### Other deviations

The models contain these; the properties leave them out where they say so.

Tape.  A tone block of no pulses that stands between two clears programs nothing
that could be given, and the assertion at `tonegen.c:197` ends the program;
`NoAssertionFails` allows `pc = "abort"` on a tape with such a block and nowhere
else.  A standard data block without bytes makes `player.c:397` read the first of
no bytes, and a pulse sequence of no pulses reads behind its array; the tapes of
the model (`Block`) have neither.  Between two bytes of a direct recording the level is that before the
first pulse of the next byte, for the length of that pulse.  A Stop block leaves
the deck's position where Play was pressed (`deck.c:422`).  A pulse sequence of
one pulse ends its block before the pulse is played, and a block that follows
drops it: the run `player` has such sequences at the end of a tape only.
`tape_sampler_init()` takes the first event, and the test for the end behind it in
`tape_deck_play()` (`deck.c:306`) makes the player program the next one: when the first
block is a single pulse the position is already two blocks further while that
pulse is heard, and Stop then resumes behind a block of which nothing was heard.
`PositionIsHeard` allows this while the first pulse lasts.  The sampler takes the level of
an event when the event before it ends, so a level that is set behind an event comes
one event late: a direct recording, and a pause behind a pulse of no length
(`Steady` of `SampleIsWaveform`).

Tape files.  A text that ends with the file makes `tzx_load_text_desc()` and
`tzx_load_text()` go to their error path with return code zero: the description is
dropped, or the program dies.  The length of an unknown block is written through
16 bits although it is read with 32 (`tzx.c:1409`).  The payload of unknown blocks
is never freed.  After a failing `fclose()` the TAP and TZX savers close the file
again.  Saving a WAVE file does not notice a failing close, whose code is positive
(`wav.c:381`).  `tape_deck_open()` returns zero and loses the tape when it cannot
copy the name.  When memory is short, `tzx_save_pulses()` returns ENOMEM behind the head of
its block (`tzx.c:424`); the model gives this failure the code of one that cannot be
written, and the file that is left is the same.  Saving or recording without a tape, which a failed open leaves
behind, dereferences null.  Error paths of `tap_load_data()`,
`wav_load_direct_rec()` and `wav_tape_load()` look at pointers that were never set.
A file that cannot become a TAP file is destroyed before that is known.
Loading a WAVE file drops up to eight samples at the end of each recording,
because the bits of the last byte are not counted (`tape.h:216`).

Paging.  Resetting a locked 128K does not tell the deck that it is no longer in
48K mode (`memio.c:206`).  A ROM in slot 0 is not protected when a PAGESEL write in
an all-RAM mode of the +2A, or an .ay file loaded in one, has put it there:
`RamWritable` claims the other direction only.  An .ay file writes its player over the
48K ROM (`snap_ay.c:187-226`), where a reset leaves it, and `zx_mem_is_48k_basic_rom()`
does not know, although it is to tell whether "0-0x3fff contains 48K BASIC ROM"
(`memio.c:211`): the tape traps stand on bytes of the player until a machine is chosen
or a snapshot is loaded.  `TrapRomMapped` therefore speaks of the bank that is mapped;
what it holds is not modelled.

CPU.  ED DD, ED FD and DD CB d DD keep the old modifier (`z80.c:5530`).  The
half-carry of 16 bit operations looks at the upper bytes.

Snapshots.  A page whose last byte is a single ED is misread, and overrun, when
the low byte of the next page's length is ED too, or at the end of the file,
where a byte is used that was not read (`Ambiguous`; `snap.c:88`).  A 48K `.sna`
snapshot with the stack in the ROM loses PC (`StackInRom`), and `.sna` keeps
one of the two flip-flops.  A second save behind the same prefix moves PC again.
HALT and the lock behind EI are not saved (`snap.c:71` says so): the program goes on
without them.  A failed load returns -1 with some registers loaded,
where a comment asks the caller to reset (`snap.c:117`), and the file dialog does
not look at the code.  When memory for the name of the `.gfx` file is short, -1 is returned
although the machine has been replaced, all of it (`snap.c:713`); the code tells nobody
which of the two happened.  A `.z80` file that is cut loads with return code zero.

MIDI.  Behind a message of two data bytes the decoder stays in the state that
awaits the second byte (`midi.c:130`): a message whose status byte is omitted is
then garbled, its first byte being taken for a second one (`RunningCounts`).

Main loop.  With an `unsigned long` of 32 bits the Spec256 clock, which stands
still while the ULA mode is on, is taken for a later one after 2^31 T states (ten
minutes); `LongAssumption` excludes that.  Turning the GPUs off, by a reset, a
snapshot or the menu of hardware options, delays the next interrupt by up to a field, because fields were drawn
ahead (`late`).  After a change of mode or of the GPUs, or
a field drawn out of turn, the generator that goes on may be anywhere in its field, or
fields behind: until it has caught up and drawn a whole field, interrupts may be
requested early, or several times while the loop catches up (`pace`).  A single step
may stop behind a first prefix, because `prev_int_lock` is that of an earlier step
(`gzx.c:537`).

Keyboard.  When the ring is full and the place to write is its last one, the index
becomes -1 (`mgfx.c:387`; action `Overrun`).  A key that is released in a menu stays
pressed for the program until its next event (`astray`).  The debugger that a stop
address or a step opens while Alt is held reads Alt's release and forgets nothing
(`gzx.c:516`, `537`, `debug.c:809`): Alt is then taken for held until it is pressed and
released again.  It opens in a locked interface too.  Shift's release may be read by a
menu, a dialog or the debugger with the same effect (`gzx.c:287`), and then Alt and U
unlock with Shift up, where `README.md:71` of the repository asks for "Alt-Shift-U":
Shift is pressed, Esc opens the menu, Shift is released there, U locks, Alt and U
unlock.  `LockHolds` allows it, and names whose release it must have been.

## Proofs

**MemPaging_proofs.**  For every set of machines, `Spec` implies the type
invariant, the four invariants of the run and `LockInRegister` (a machine is locked
exactly when its register says so).  None of them is inductive:
`MapFollowsRegisters` needs that a machine with banks and no enhanced paging
has no all-RAM mode on, and the trap and lock properties need the map and the
lock of machines that were left.  The inductive invariant `IInv` adds these and
is preserved by `PageSelect`, `PageReset` and the choice of a machine, each a
lemma; the actions are compositions of them.  Typing lemmas come first, so that
the SMT solver never has to expand a record set.  `RamWritable` follows from the
map: only an all-RAM mode puts RAM into slot 0, and it sets the bit that
`zx_memset8()` looks at.

**Z80Control_proofs.**  `IInv` joins the types, `IffOrder`, "behind EI, DI and
prefixes the lock is on" and "a halted CPU has executed HALT or met an .ay
file".  The functions are described field by field in lemmas; a step is divided
into acceptance (`Entered`, the CPU at the fetch) and instruction.  From `IInv`
follow `IffOrder`, `EntersAtBoundary`, `HaltEnds` and `IntNotLost` for every
`Tails` and `MaxBack`; `PrefixFresh` is proved for the `Tails` without prefixes.

**Z80Machine_proofs.**  For every program, memory, set of jobs and bound on
requests: types, and `Spec => ImplementsControl`, the refinement of `Z80Control`
by the whole instruction set.  Assumed is that a job begins with a machine
(`JobsAssumption`) and that a port gives a byte (`InAssumption`).  Each operation of
`Z80Alu` gives values of its width.  Of the operators of `Z80Instr` only those that
execute EI, DI, DD, FD, HALT, RETN and RETI change what `Z80Control` sees of the
machine; for each of the others a lemma says `Keeps(m, n)`: a machine again, with
the same control part, so that a chain of operators keeps it as well, and the
opcode tables (`MainKeeps`, `ExtendedKeeps`, `BitGroupKeeps` and `IndexedBitsKeeps`) are
divided by the parts of an opcode.  `Seen` is the refinement mapping of the
control part; what the exceptional instructions and the acceptance of interrupts
do to it is said by `Enabled`, `Prefixed`, `Halting`, `Restored` and by the lemmas on
`CheckNmi` and `CheckInt`, which a step of the machine (`ExecinstrEffect`) joins to one
of `Z80Control`.  What is proved of `Z80Control` thus holds of whole programs.

**SerialMidi_proofs.**  With running status before one-byte messages only
(`RunningCounts \subseteq {1}`), for every set of status and data bytes, register
numbers, idle time and number of cuts: types, `Aligned`, and `Spec => Delivers`,
the refinement of `MidiLink`.  The inductive invariant adds to `Aligned` that an
idle line clears the receiver (`LineClears`: a receiver inside a byte has counted
at least as many bits as the ones written since the cut), that an item ends with
its last stop bit (`Framed`), and where the decoder stands in the item
(`Follows`, a case for each kind of item).  A step is divided into the
bits that do not complete a byte, those that do, and the cuts.

**MainLoop_proofs.**  For all periods, instruction lengths and bounds that satisfy
the named assumptions: types, `OnTime`, `CaughtUp`, `IntsRegular`, `GpuInStep` and
`StepEnds`.  None is inductive alone.  `TimeInv` says by place in the loop how far
each sample may be behind: an instruction makes up for one period, so that a
period must not be shorter than the longest instruction (`PeriodsAssumption`).
`DrawnInv` carries "the picture has been drawn" from the end of the loop that
catches up to the instruction, also through the debugger.  `AheadInv` bounds how
far the clocks of the ULA and of the Spec256 generator are ahead of the last
interrupt (a cell, and a field for each one drawn out of turn; a field more
after the GPUs were on), the one that is not shown included, because a change of
mode shows it next; `ShownInv` says that the Spec256 generator is shown with the
GPUs on only.  From these follows that a generator which is behind is compared as
behind on 31 bits (`BoundsAssumption`, lemma `BehindIsBehind`), and the longest time
between interrupts.  The shortest follows from `PaceInv`: in a regular pace the last
interrupt was requested at most an instruction behind the time at which the field that
is being drawn began (`FieldStart`), so that the end of the field comes a field later,
but for an instruction and a cell.  Every change of mode leaves that pace; it is
regular again when the picture has caught up and a whole field has then been drawn
(`PaceCaughtUp`, `PaceStep`).  `StepInv` adds to `StepEnds` that behind the first
instruction of a step the debugger remembers that it left a lock.

**Keyboard_proofs.**  For every ring size and set of keys: types, `Spec => InOrder`
(the refinement of `KeyQueue`), `KeysFollow`, `AltIsReal` and `LockHolds`.  The ring after
n of the host's events is defined by recursion; that the function exists and that
`Merged`, what the ring then holds and which keys are lost, is true of it for every n
is proved by a least counterexample (lemma `Least`).  `KeysFollow` looks at states
without waiting events only; its inductive invariant `FollowInv` says of every key
that the last event that waits for it tells whether it is held, and if none waits
then so does what the program sees of it, but for the keys that are astray or lost.
`AltIsReal` is inductive only with `AltAtHome`: while a menu, a dialog or a debugger that
a key has opened is open, the handler does not take Alt for held; the one that a stop
or a step opens may find it held, and a release read there is the exception of the
property.  `ShiftIsReal` says the same of Shift with all other readers, and `LockAtHome`
that no menu, dialog or debugger opened by a key is open in a locked interface.
`LockHolds` follows from these (`HeldInv`) and from the handler's four alternatives.

**TapePlayer_proofs** is about `PlayerLoop` and `TapeDeck`, for all tapes, recordings,
pulse lengths, sampling periods and capacities that hold a byte
(`CapacityAssumption`, `DeckAssumption`).

*The player.*  Types, `NoAssertionFails`, `IndexInRange` (no block is read beyond its
data) and `SignalLeavesBlock` (a deck that stops at a signal goes on behind the block
it comes from); no run checks the last two.  The inductive
invariant `PlayInv` says that the index has not passed the data of the block being
played (`Fits`), that the program of the generator, which always begins with a
clear, is at most a pilot with its two syncs or the bits of one byte, and that its
last entry sounds unless the tape has a silent tone (`GenOn`).  The player asks for
a pulse only before the end of the program, so that this last entry is still to
be taken.  The functions of the kinds of blocks keep it one by one.  `SignalInv`
adds that a pending signal is that of the block before the next one.

*The loops end.*  `LoopsDescend`: each step of `tape_player_next()` after which it goes
on leads down the order `Descent`, and no set of places lacks a lowest one.  A place
is compared by six numbers, the first that differs decides (`Rank`): how far from
the end of the tape the last loop start is, the loop counter, the blocks ahead, the
steps of the block that are left, the entries of the program, the pulses of the
entry.  A loop's way back leaves the loop start and lowers the counter; a further
loop start may set the counter to anything, because it lies behind.  Loops do not
nest in the player, which has one counter; the proof needs no tape to be well formed.
This is what the liveness property `NextReturns` rests on; with fairness it remains
with TLC.

*The waveform.*  `WaveformCorrect`: `PlaysWaveform` for every tape, every block that a
playback begins with and every size of the generator.  The exceptions are those of the
property: what an earlier playback left (`Fresh`), and a pulse sequence of a single
pulse before another block (`NoneDropped`).  The inductive invariant `SongInv` says that
what the caller was given is the beginning of the waveform, and that the rest of it is
still to come; it has three layers.  `Says` is about the generator: from its entries, the
pulses of the entry and its two last levels follows the rest of a waveform `wf` behind
event k, and tonegen_next() gives the next event (`SaysNext`).  `Sofar` is about the
block: only a byte or a pulse at a time is programmed, so `wf` is the waveform up to
that byte, and the next program continues it (a pause looks at the levels before it,
so that `Says` also says whether the level has just risen, `Low`).  `Place` is about the
tape: the player has one loop counter and goes back to the last loop start; `InLoop`
says in which round of which loop that is, and that as many rounds are behind as are
missing in the counter.  Where the next block is taken, `wf` becomes the waveform with
it.  That the recursive functions of `Waveform` exist is proved for each by a least
counterexample.  TLC checked `PlaysWaveform` in this form before it was proved.

*The deck's functions.*  `feed` and `run` are defined by recursion along that order
(for `run`, each event either takes a pulse or a signal ends the loop), not along a
number, so the lemma `Recursion` shows for any order without infinite descent that
the function exists and satisfies its equation.  From it follow `PlayerNextReturns`
(a player that is still hungry is at the end of its tape) and, by a lowest
counterexample, that what each turn of a loop keeps the loop keeps (`CatchUpType`,
`CatchUpRests`).

*The deck.*  `TypeOK`, `PausedIsPlaying` and `StopsHeeded`, all from the invariant
`DeckInv`.  `PausedIsPlaying` is inductive.  `StopsHeeded` is not: it looks at the blocks
that are behind the deck's position.  `DeckHeeds` speaks of the player: when the deck
plays there is a block b where it began such that `from` is the tape from there, and
each Stop block from b on that the player has passed either is the one whose signal
is pending or lies among blocks that are passed over from b on (`Rests`).  A
`Stop` block is left only with its signal pending (`TakeBlock`), the next thing the
sampler is given is the signal, and it ends `CatchUp` before the player moves on; the
deck then stops.  `Play` alone hides a signal, that of a Stop block it comes to
before the first pulse, and there all blocks before are `PassedOver`.  The proof of
`CatchUp` carries `Rests` through each event, also on a loop's way back, which takes the
position back to where fewer Stop blocks are behind it.

*The samples and the position.*  `SampleIsWaveform` and `PositionIsHeard`, from the
invariant `HearInv`: beside `DeckInv`, and while the tape plays from block b on, either
all is heard (`Over`) or the player has given k events and the k-th ends in as many
ticks as the sampler still waits (`Hears`), so that no time is lost or gained between
two samples however many events fall between them.  `CatchUp` carries this through each
event: the sampler fetches one when the last is due, and what it fetches is event k + 1
of the waveform (`EventGiven`), by the layers of `WaveformCorrect`.  `Play` establishes it, also
where a signal of an earlier playback is still pending or where the tape is over
before the first pulse.  For the level the invariant says that the one that came
with event k is that of event k + 1 (`Levelled`): on a steady tape no program begins by
setting it, a pause being low behind a low level and high for a millisecond behind a
rising edge only, and whether the generator's last levels tell this edge rightly is
`Rose`.  For the position it says that, on a tape without loops, the blocks
before the one taken last end by an event j whose end has come, or by the first event
(`Met`).  The hypotheses are those of the properties (`Undisturbed`, `Steady`, `HasLoop`) and
nothing is assumed of the sampling period but that it is positive.  The first attempt at
this proof failed for an earlier form of `PositionIsHeard`, without the exception for the
first pulse: `Play` runs ahead of it (above, under other deviations).

**Snapshot_proofs.**  All three properties of `Snapshot`, for every set of states of the
CPU, contents of the pages, lengths that a file is cut to and bytes that are edited in
it, and for all page sizes from 2 to 16384 bytes (`RleAssumption`; the code's is 16384,
and a page has at least the two bytes of a word).  `BytesAssumption` says that
pages, port values and uninitialized bytes are bytes, `CutsAssumption` that lengths
are natural numbers.

`SaveIsInvisible`: until a file is loaded the machine is a record of its seven
fields (`MachineInv`); this is enough because a behaviour ends with a load.  A `.sna`
save pushes PC and takes it back: zeros overwrite the two bytes at the same places
of the RAM, wherever the stack is, and SP comes back modulo 2^16.
`FailedLoadKeepsMemory` for every file: -1 is returned only before the first page is
read, or where memory is short behind the whole load, when `LoadRestores` holds as it
does for one that succeeds.

`PageRoundTrip`: a page of any length packed for a `.z80` file and unpacked from it
again is the same page, wherever in the file it stands and whatever follows it,
unless the page ends with an 0xed that is alone and another 0xed follows (the
unpacker would then take the two for the start of a run; in the file of a whole
snapshot the next byte is the head of the next page).  That the recursive functions
of the packer and the unpacker exist is proved by a measure that goes down (lemma
`Recursion`, by a least counterexample, because the induction theorems of the
library cannot be instantiated).  `RunStored` says that what is put for a run is read
back as the run; `Follows` that behind an 0xed that stands for itself comes another
byte, since a run of 0xed is taken as long as it can be.

`LoadRestores` is proved in two halves.  The first is about one file: a whole file of
a machine is loaded as that machine (`WholeRestored`), whatever the machine and its
memory were before.  A file is one part behind another (`Holds`, `Peel`, `Laid`): the
bytes of the head are read where they were put, and each page or bank is stored in
its own part of the RAM (`Stored`), so that when the last one is read the RAM is that
of the machine saved, nothing being left of what was there.  There is a lemma for
each format: `Z80Restores`, `OlderZ80Restores`, `Sna48Restores` (with the stack in any
bank, PC is read back from where it was pushed) and `Sna128Restores`.  The second is
an invariant that says which files there are: `SoundInv`, the machine's registers,
paging and RAM have their widths and lengths, and `FileInv`, a file that is called
whole is the file of such a machine (`IsWhole`), until an edit or a cut makes it
another; TLC checked both before they were proved.  The exceptions of the property
(`Ambiguous`, `StackInRom`, `OwnSna128`) are needed in the first half only.

Only model-checked: the liveness properties `NextReturns`, `IntAnswered`,
`Terminates` and `CatchUpEnds` (liveness under fairness is out of the prover's
reach; what `NextReturns` needs of the tape is `LoopsDescend`); `ComputesResult`, `Footprint` and `HandlersRun`, which are about particular
programs; and `RoundTrip`, `PartIsPrefix`, `NothingLost` and `WavInOrder` of the tape formats,
whose modules use recursive operators.

## Not modelled

* Quick load's copying: a loop over bytes with a checksum.  What it does to the
  deck is in `TapeDeck`.  It moves to the next block also after an error, and its
  "verify" does not compare (`quick.c:118`).
* The contents of memory under paging, the decoding of the keyboard, ULA and AY
  ports: tables and constants.
* The eight GPUs' instructions: each is that of the CPU on a memory of its own;
  what is modelled is when they are on and when they take interrupts.
* AY sound generators, ULAplus: counters and tables without control.
* What menus, dialogs, the debugger and the disassembler draw; the file list and
  the line editor.  Who reads the keys meanwhile is in `Keyboard`.
* Recording of I/O, execution maps, traces: files that change no state of the
  machine.
* Graphics library, fonts, platform layer, separate tools: input and output
  through the libraries of the host.
* The jumps, calls and CSW blocks of TZX: no function of the program creates
  them; a file that has them loads them as unknown blocks.
