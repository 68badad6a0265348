# A TLA+ model of the Minimig AGA core and its firmware

This directory specifies and verifies the parts of the Minimig AGA core for the
OpenAARS board in which a mistake is hard to see in a simulation and bad on the
board. There are two of them. The *memory path* is everything between a memory access
of the 68040 and the DDR3 or SDRAM chip that answers it. The *firmware* is the C
program on a small host processor that plays the hard disk and the floppy drives,
draws the menu, and boots the machine from an SD card. Modules describe the RTL at the
granularity of clock edges and the firmware at that of the exchanges another party can
see; TLC checks them on small instances, and TLAPS proves the results that should hold
for every size.

Contents:

1. The system: components, state, interactions, what is hard
2. What is modelled: module by module, and how it corresponds to the code
3. What each run checks, its bounds, its fairness
4. What is proved, and how
5. What the model found
6. What is not modelled, and the plan

Running it: `tlc -config X.cfg MCmodule` for a run (section 3 and `PROJECT.json` name
both); `tlapm M.tla` for the proofs, `M` being `PortProofs`, `BootProofs`,
`OsdProofs`, `SdramCtrlProofs`, `FastRamProofs`, `MenuProofs`, `IdeProofs` or `FloppyProofs`.

---

## 1. The system

The repository builds an Amiga for one board (OpenAARS 5.0, Artix-7 with DDR3).
Three things run at once: the RTL of the chipset and its memory
controllers, the 68040 core (a git submodule, empty in this tree), and the C
firmware of a small host processor.

| Component | Source | State it keeps | Operations | Talks to |
|---|---|---|---|---|
| 68040 core | submodule `AP68040-pipelined` (empty) | not visible here | issues accesses `req/we/size/addr`, clear pulses | CPU wrapper |
| CPU wrapper | `rtl/soc/TG68K.vhd`, `sdram/cpu_enable_cadence.v` | request latch `q_req`, `CACR_out`, `cacheline_clr`, cadence counter | decodes an address to SDRAM, DDR3 or the 16-bit chipset bus; masks a request once served; stretches the kernel clock | core, the two access sequencers, chipset bus |
| Access sequencer | `rtl/soc/ap040_ram_seq.vhd` | `st`, `cur`, `left`, `pos`, `rbuf`, `done_r`, `armed` | splits an access of 1, 2 or 4 bytes at any offset into unit-port accesses | CPU wrapper, CPU cache |
| CPU cache | `rtl/sdram/cpu_cache_new.v` | line buffer, 2 × 2 ways with tags and LRU, one posted write, clear and snoop machine | read, write, fill, clear, snoop | sequencer; DDR3 or SDRAM controller |
| Zorro III fast RAM | `rtl/ddr3/ddr3_fastram.v` | backend state, burst counter, answer register | line read, masked line write | CPU cache, clock crossing |
| Clock crossing | `rtl/ddr3/ddr3_cdc.v` | two toggles, two synchronisers, payload, answer | carry one request over and one answer back | fast RAM, DDR3 island |
| DDR3 island | `rtl/ddr3/ddr3_top.v` | reset synchroniser, PLL, vendored controller | accept a request, answer it | clock crossing |
| SDRAM controller | `rtl/sdram/sdram_ctrl.v` | 16-phase counter, two slots, refresh counter, posted write | serves chipset, CPU, RTG, audio, host, refresh | everybody's memory |
| Gayle and the IDE server | `rtl/minimig/gayle*.v`, `fw/ctrl_832/hdd.c` | task file, FIFO, status, interrupt; the drive's type, geometry and file cursor | take a command, move its sectors, end it | the Amiga's driver; FAT volume, SD card |
| Paula's disk controller and the floppy server | `rtl/minimig/paula_floppy.v`, `fw/ctrl_832/fdd.c` | DMA state, FIFO, heads, select and change lines; sector, header, shared file cursor, cluster cache | play a track into a read DMA, store the sectors of a write DMA | the Amiga; FAT volume; menu (disks in and out) |
| Menu | `fw/ctrl_832/menu.c` | `menustate`, row, page copies of settings, who asked the file selector | one state per call and key: change settings, insert disks, save, reset | key queue, file selector, configuration, drives, core |
| Configuration, ROM upload, main loop | `fw/ctrl_832/main.c`, `config.c`, `fpga.c`, `errors.c` | `config`, `ErrorMask`, `ErrorFatal`, the CPU's hold | cold boot, load/apply/save, Kickstart upload, error page | FAT volume, menu, core |
| File selector | `fw/ctrl_832/fat.c` (`ScanDirectory`) | a sorted window of eight entries | first, next, page, parent, letter | menu, FAT volume |
| OSD key queue | `rtl/minimig/userio_osd.v`, `userio.v`, `fw/ctrl_832/osd.c` | last key code, 15-event queue, firmware's copy, modifiers | queue a change, hand out an event, repeat a key | keyboard, joystick, menu |
| FAT volume | `fw/ctrl_832/fat.c`, `ctrl_boot_832/minfat.c` | format, buffered FAT and directory sectors, file cursors | find, open, follow a chain, create and rewrite files | SD card drivers |
| SD card drivers | `fw/ctrl_832/mmc.c`, `ctrl_boot_832/spi.c` | the card's type, chip select | identify, read, read many, write | the card over SPI |
| Boot loader | `fw/ctrl_boot_832/boot.c` | what it has loaded | load the firmware and jump to it | SD card, FAT volume |
| Agnus, Denise, Paula (interrupts, audio, UART), CIAs, keyboard, autoconfig | `rtl/minimig` | beam counters, DMA pointers, blitter and copper, interrupt bits, timers | hand out bus slots, draw, interrupt | chipset bus |
| Host processor bus, host cache, I2C, Toccata, RTG, HDMI | `rtl/host`, `rtl/openaars` | bridge state, FIFOs, line buffers | memory, SPI and I2C for the firmware; sound and picture | SDRAM controller, CPU |

How an access to fast RAM goes through the memory path:

```
 68040 core ── CPU wrapper ── ap040_ram_seq ── unit port ── cpu_cache_new
                (q_req)         (RamSeq)                     (CpuCache)
                                                                │ line read / posted write
                                                           ddr3_fastram backend
                                                             (FastRam)
                                                                │ one request at a time
     clk_sys (113 MHz)                                      ddr3_cdc       RequestChannel
  ═════════════════════════════════════════════════════════ (Ddr3Cdc) ⟹   (what it promises)
     clk_mem (100 MHz)                                          │
                                                            DDR3 island
```

And how the firmware's parts call each other (one thread, no preemption: everything
happens between two polls of something else):

```
  power-up ─ boot loader ─┐           main loop: ColdBoot, HandleFpga, HandleUI, errors
             (Boot)       │             (Boot: its sectors; Menu: its settings)
                          ▼            ┌──────────────┬──────────────┬───────────────┐
                     firmware ────► HandleHDD     HandleFDD       HandleUI ◄── key queue
                                   (IdeServer    (Floppy)         (Menu)       (KeyQueue)
                                    ⟹ AbstractDisk,  │               │
                                      Geometry)       │        file selector (Directory)
                                        └─────────────┴──────┬───────┘
                                                        FAT volume (Boot, and the
                                                          cursors of each server)
                                                             │
                                                   SD card drivers (SdCard) ── card
```

Why it is hard:

* **Two unrelated clocks.** Toggles and wide buses cross between them; a reset may
  reach one side and not the other.
* **Early acknowledgement.** The cache acknowledges a read with the first words of
  the burst and a write as soon as it is posted, then goes on working while the CPU
  presents its next access. At any moment a word may have five copies: line
  buffer, way, posted write, burst under way, memory.
* **Live inputs.** The cache does not latch the access: it looks at the port's
  present fields through registers that are one clock old.
* **Three owners of one byte count.** The number of bytes a unit carries is the
  least of three limits, computed in two places.
* **Servers that poll.** The Amiga steps, selects, starts and stops transfers, and
  changes registers, between any two polls of the firmware; what the firmware acts on is
  what the last poll said.
* **Cursors kept apart from what they count.** A file's sector and its cluster, a track's
  sector and its header, a CHS address and an LBA are moved by different statements and
  must stay in step through failures and early ends.
* **Settings that reach the core only where somebody hands them over**, out of a
  structure that boot, files, pages and chords all write.
* **A card that answers late, wrongly or not at all**, to programs that retry with whatever
  state the failed attempt left.
* **Writes of several sectors** that a power cut may separate.
* **Resets at any moment**, of the CPU alone or of the whole controller.

What makes each correct, in one line: the *crossing* loses, doubles and confuses no
request; the *sequencer* moves exactly the operand's bytes; the *cache* answers
with the current data and keeps every valid copy whole; the *backend* never speaks
out of turn; the *SDRAM controller* never works twice in one bank, meets the chip's
timing, writes both words of one write and refreshes in time; the *IDE server* moves the
sectors that were asked for, once and in order, and ends every command; the *floppy
server* shows every sector under its own header and stores what comes where its header
says; the *menu* leaves the core and the open files with what it shows; the *file
selector* shows a gapless part of the sorted directory; the *key queue* makes a chord mean
what the user did; the *card drivers* never address another sector than was asked for; the
*volume* has no two owners of a cluster wherever the power is cut; the *boot* ends in the
main loop whatever fails and the card allows, and runs no broken Kickstart without an error. For the components not yet
modelled: a *snoop* leaves no stale copy of what the chipset wrote; *interrupt registers*
lose no event that coincides with a clear; *autoconfig* puts no two boards at one address.

`PROJECT.json` lists every component with its status, and the hazards line by line.

---

## 2. What is modelled

### Ddr3Cdc — `rtl/ddr3/ddr3_cdc.v` (with its port to the island)

One action per outcome of a clock edge: `SrcReset`, `SrcRequest`, `SrcCapture`,
`SrcWait` for the source's `always` block, `DstSee`, `DstAccept`, `DstRespond`,
`DstWait` for the destination's. The two clocks are unrelated, so their edges
interleave in any order and at any ratio; a synchroniser's first stage that
samples a bit in the moment it changes takes either value, and both are covered by
the two orders of the edges. Registers keep their names. The payload `{rd, be,
addr, wdata}` is one value of `Requests`; the answer is *named after the request it
answers*, so "the wrong answer" is something an invariant can see. `owed` is the
request the island has accepted and not answered. `PressReset`/`ReleaseReset` are
the board's reset button, which reaches the source and the island but not the
destination registers (`dst_rst` is tied to 0 at `ddr3_fastram.v:416`).

### RequestChannel — what a crossing promises

An abstract one-at-a-time request channel: `Ask`, `Accept`, `Answer`, `Deliver`,
`Abandon`. `Ddr3Cdc` implements it (`ChannelSpec`, checked and proved; with
liveness, `ChannelLive`, checked). `FastRam` is written against the channel and not
against the registers of the crossing, which is what makes the composition small
enough to check.

### RamSeq — `rtl/soc/ap040_ram_seq.vhd`

`Accept`/`Idle`, `Launch`/`Hold`, `TakeMore`/`TakeLast`/`Wait`, `Gap` are the
outcomes of `RS_IDLE`, `RS_LAUNCH`, `RS_WAIT`, `RS_GAP`; each is taken together
with a step of the unit port (`PortStep`) and of the master (`MasterStep`), because
all three are clocked by the same edge. The asynchronous `Reset` is a step of its
own. Bytes are named by their place: a unit is a function from window slot to
operand byte, and what an access has moved is the set of pairs ⟨operand byte,
memory byte⟩. `RS_DONE` cannot be reached in the code and has no action. The
placement gate (when `RS_LAUNCH` may raise the request) is a free choice: the
sequencer must be right whenever it opens.

### CpuCache — `rtl/sdram/cpu_cache_new.v`

A shared module of definitions with the cache's registers; a controller composes
it with its own. One action per state and outcome of the CPU-side machine
(`Init_Wait`, `Idle`, `IdleWrite`, `IdleRead`, `Write`, `Write2`, `WriteBack`,
`ReadHit`, `ReadMiss`, `Wait`, `Fill1Wait`, `Fill1Take`, `Fill2Take`, `Fill2Last`),
the registers that are written in every clock (`EveryClock`), the clear logic and
the machine that sweeps the tags (`SdrMachine`, `SweepRow`). The master in front
(`Present`, `Launch`, `Release`, `Gap`) is the unit-port side of the sequencer.

Abstractions:

* **One row, one byte lane.** Rows share nothing but the machine, and the two byte
  lanes are alike; `sel` is the set of words whose byte in that lane a write
  replaces, so a write of the other lane only is the empty set.
* **Data are named, not valued.** `⟨l, w⟩` is the current content of word `w` of
  line `l`, what the last accepted write left there. When a write is accepted
  (`accepts`, the edge at which CPU_SM_IDLE posts it) every other copy of those
  words becomes `None`. "A read returns current data" is then a comparison of
  names, and no run is needed per data value.
* `match` (`cpu_cacheline_match`), `write_ena`, `adr_r` and the line buffer's output
  register keep their one-clock delay; the read latency of the tag and data RAMs,
  which the state machine waits out, is folded into the states that wait.
* `cc_en` is constantly 1: the wrapper drives it from `CACR_out`, whose enable bits
  are constants. Cache inhibit is tied off and snooping too at this instance
  (`ddr3_fastram.v:252-272`), so `CPU_SM_FILLW`, `SDR_SM_SNOOP` and the waiting in
  `CPU_SM_SDWAI` belong to the SDRAM instance.
* The 256-clock tag sweep visits the modelled row once, as a step of its own
  (`SweepRow`) at any moment between its beginning and its end; the sweep ends no
  earlier than a line read under way (256 clocks outlast a read). It may last
  longer in the model.

### FastRam — `rtl/ddr3/ddr3_fastram.v`

`CpuCache` with the backend (`TakeWrite`, `TakeRead`, `Finish`, `Deliver`,
`BackendWait`), the source side of the channel and the memory. An `Edge` is one
rising edge in master, cache, backend and channel source at once. The island
accepts and answers between edges. `mem[l]` is the set of words of line `l` that are
current in memory, `flight` the write on its way. `CpuReset` is `tg68_rst`, which
resets the sequencer and the cache but not the backend; `FullReset` is `reset_in`, the
board's reset, which on this board empties the island too
(`minimig_openaars_top.v:663-665`): a request that the island had accepted and not yet
answered is `lost`, no answer to it comes, and the crossing is never ready again (section
5, 2). Both may come at any edge. After a reset a posted write that had not left is lost;
what the memory then holds (or is about to receive from a write in flight) is by
definition the current content (`Recover`): from there on coherence is demanded
again.

### SdramCtrl — `rtl/sdram/sdram_ctrl.v` and its requesters

A step is one rising edge of `sysclk`; the controller and all its requesters are in
that clock domain, so `Next` is their conjunction, and a variable is what is visible
in the phase `sdram_state` names. There is one controller action per phase, and per
taker in ph1 and ph9, where slots are given. `Judge` computes the grant flags
(`cpu_slot1ok`, `wb_slot2ok`, `zatn`, ...) in every clock, as the code does: a slot is
given by what was judged a clock before, with the address of that clock. Most of
what can go wrong here goes wrong in that clock.

* **Addresses are banks.** Rows and columns take no part in any decision. Bank 0 is the
  chipset's; the others are only compared, so they are model values and symmetric.
* **`Chip`** is the SDRAM device as far as its banks go: `busy[b]` is 0 for an idle bank,
  `Open` for an open one, otherwise the clocks until it is idle. The times are those of
  the access it closes: a burst of eight after CAS, or write recovery, then precharge.
  The last column command of an access is auto-precharging (`READ_AP`, `WRITE_AP`). It
  is not the repository's code; what is modelled is what the controller's phase table
  (`sdram_ctrl.v:789-810`) relies on.
* **The CPU in front** is the unit port of `RamSeq` with the placement gate of
  `TG68K.vhd:1948-1970`, open in phases 2, 6, 10, 14, and its exception, the line buffer's
  hit, which may be stale (section 5) and lets a read that then misses start in any
  phase.
* **The cache** appears with the timing of its requests only: hits ask nothing of the
  controller, so `Cache` has the misses and the posted writes, with `CPU_SM_SDWAI`,
  `CPU_SM_FILLW` and inhibited reads, which the DDR3 instance never uses. The fields are
  assumed one clock earlier than the request and no more: they are looked at in no earlier
  clock.
* **A write's data** is named by the slot it was captured for (`writebuffer_reg`), which is
  enough to see a second capture before both words of the first are out. The one history
  variable is `read_granted`: no action looks at it.
* **RTG and audio** are the two `VideoStream`s: a request that stays up until the line
  buffer is full, an address that moves on with the last beat of a burst, and for RTG the
  vertical blank that takes it back to the base. The **host** is `hostcache.v`'s
  request, up until the answer and not again before the answer's level is over. The
  **chipset** takes slot 1 when it likes; it is never refused.

A behaviour starts in the first phase after `init_done`.

### Geometry — `GetHardfileGeometry` of `fw/ctrl_832/hdd.c`

Pure operators: the cylinders, heads and sectors the firmware gives a drive of so many
sectors, for a file, a file that gets an RDB of ours in front, and a raw card. The numbers
of the code are constants, so that `IdeServer` can use drives of a few sectors that meet
every limit; `MCIdeServer` instantiates the module a second time with the real numbers
and has TLC evaluate `NothingBeyond` over some 900 sizes, those around every limit among them.

### IdeServer and AbstractDisk — `fw/ctrl_832/hdd.c`, the cursor of `fat.c`, `gayle.v`

One action per step the other side can see: a status write, a wait, a sector in or out of
the FIFO, one link of the FAT. `pc` is where `HandleHDD` is; `lba`, `sector_count`,
`block_count`, `nSize`, `bc` are its locals and `FileReadEx`'s. `file` is the cursor that
`FileSeek`, `FileReadEx`, `HardFileSeek` and the index of `BuildHardfileIndex` move. `g` is
Gayle's registers, `tfr` the task file, `host` the Amiga's driver, which asks for anything
within the announced geometry by CHS or LBA, waits for interrupts or polls, and reads or
writes the FIFO. A sector is named by its place on the medium. `AbstractDisk` is the
promise: the sectors asked for move in order, each from or to its own place, and the command
ends when all have moved; it holds until the card fails. `IdeServer` implements it
(`DriveSpec`).

### Floppy — `paula_floppy.v`, `fw/ctrl_832/fdd.c`, `InsertFloppy` of `menu.c`

`Server` is `HandleFDD`, with an action for each poll of `ReadTrack`, `WriteTrack`,
`FindSync`, `GetHeader` and `GetData`, and what each does until the next. `Chip` moves words
between the FIFO and the Amiga. `Amiga` steps, selects, writes `DSKLEN`, and changes what
lies in the drives. `file` is the one cursor that all drives share, `TrackStart` the cluster
cache that `InsertFloppy` builds, `buf` the place `sector_buffer` was read from. A sector on
the wire is one unit with the number of words it takes; what the Amiga writes (`Shapes`) is
a sector, two sectors, one with another disk's header, or one that ends early.

### Menu — `fw/ctrl_832/menu.c`, and the loop of `main.c` around it

An action per `menustate`: the state that draws a page is one step, the one that waits for
keys one step per key that does something. Rows are `menusub` with their mask, so that a
page that sets the mask wrongly would let a key reach what it should not. The fields of
`config` no decision depends on are represented by their names: `untold` holds the fields that
were written and not handed over since, which makes "the core knows" a set inclusion. What is
written and what is called are two things: a row (`ChipsetRows`, `VideoRows`, ...), a chord
(`ChordSets`) and a page name the field they write and the call they make, `Tells` says which
fields each call sends, and `Calls` which calls `ApplyConfiguration` makes. A row that makes
no call, or another's, leaves its field in `untold`.

`t_hardfile`, `t_memory`, `t_enable_ide` are the copies the pages edit, `hdf` what
`OpenHardfile` left open; `Missed` has what stays open, and the error, where it opens nothing.
Boot, errors, configuration files and the Kickstart upload appear with their outcome
(`Troubles`); `Boot` has their sectors. A boot that finds no card has set no error, one that
finds a card it cannot read has set a fatal one; after the first, the menu works, and what it
reads of the card fails (`ReadCard`).

### Directory — `ScanDirectory`, `ChangeDirectory`, `MENU_FILE_SELECT2`

`win` is `DirEntry[sort_table[..]]`. Each scan mode is an operator on the directory as the
card holds it, in that order: `Loop` folds `Step`, the code's rule for an entry in that mode,
over the entries that pass the filter. `ReadBy` is what the loop over sectors and clusters
reads: the whole directory; the entries before a sector that could not be read, which ends the
scan (`cut`); or, when it is a link of the FAT that could not be read, the entries before it and
those that lie at "cluster 0" (`Stray`), for `GetFATLink` returns 0 then and that is no end of a
chain (`strayed`; section 5, 14). `FileSelect2` takes a key: up to three scans, any one of which
fails in either way. A window that a failed read has marred is no longer `known`; the next full
read of the directory makes it known again. `..` is a name like any other to
`CompareDirEntries`, so `Less` gives it no place of its own, and `Back` takes the first entry of
the directory, whichever it is (section 5, 15).

### KeyQueue — `userio_osd.v`, `userio.v`, `fw/ctrl_832/osd.c`, the modifiers of `HandleUI`

Keys change `code` and `Level`; a change of the level is pushed into `q`. `OsdGetCtrl` reads
the level (`c1`), then the length, then the events, one SPI transfer a step, hands one event
to `HandleUI`, or repeats. An event carries, for the properties only, the modifiers that were
down when it happened.

### SdCard — `fw/ctrl_832/mmc.c` and `fw/ctrl_boot_832/spi.c`

A module of definitions. A driver call is in `call` until it returns with `answer`; a step is
one command and its answer, or a block. `Replies(cmd)` is everything the driver may get to
see: what a card of this kind and mode answers (`Heard`, external: what the drivers' comments
and comparisons expect of a card), the same with the answer lost, and the command itself
lost. A reply that is not the regular one counts against `MaxFaults`. A card may be pulled and
another inserted at any moment.

### Boot — `boot.c`, `minfat.c`, `main.c`, `config.c`, `fpga.c`, `fat.c`

Composes `SdCard` with the programs that use it. `pc` names the sector call that is awaited;
each action is what the program does with the answer until it makes the next call:
`BootLoader` (`main`, `FindDrive`, `FileOpen`, `GetCluster`, `LoadFile`), `ColdBoots`
(`ColdBoot` with mount, configuration, hardfiles, HRTmon, Kickstart, extended ROM), `Walking`
(a directory walk), `Saving` (`SaveConfiguration` with `FileCreate` and `UpdateEntry`),
`MainLoop`. A directory and a cluster are a sector each, the FAT one sector in two copies; the
buffers that survive a call (`fat_buffer`, `sector_buffer`, the boot loader's shared one) are
variables, because it is their age that matters. `Cut` takes the power away between any two
exchanges.

### How the modules compose

`RamSeq` in front of a unit port that answers when it likes; `CpuCache` behind a
master that behaves as `RamSeq` does at the port. The hand-over is the port's
contract: `UnitsFit` and `FieldsSettled` are what `RamSeq` guarantees and what
`Accesses` and `MasterEdge` of `CpuCache` assume, and an eventual answer is what
`FastRam`'s `AccessesEnd` guarantees and `RamSeq`'s fairness assumes. `FastRam` takes
`RequestChannel` for the crossing, and `Ddr3Cdc` implements it.

`Boot` is `SdCard` and its callers in one behaviour. The three servers see a volume that
reads and writes, or fails: `IdeServer` with its cursor and a card that may fail at any
sector, `Floppy` with cursors on images that are there. `Menu` and `Boot` share `ColdBoot`,
`LoadConfiguration` and `ApplyConfiguration`: `Boot` has every sector they read and every
error they set or clear, `Menu` every setting they hand over. `Menu` takes keys as they come;
what makes them come right is `KeyQueue`. It takes the file selector as "an entry, or
nothing"; what it shows is `Directory`.

---

## 3. What is checked

| Run | cfg | Instance | Shows |
|---|---|---|---|
| `cdc` | `Ddr3Cdc_safe.cfg` | two requests; `src_rst` at any moment, board resets while no response is owed | One change on the ring at a time and no answer to another request, also across resets (`RequestsApart`); payload and answer buses do not move while the other side may sample them (`BusesSettled`); the crossing implements `RequestChannel`, with its liveness (`ChannelSpec`, `ChannelLive`); the source becomes ready again (`ResetCostsOneResponse`) |
| `ram_seq` | `RamSeq.cfg` | 32 bytes of memory | Units stay in their line and window and two suffice (`UnitsFit`), they move exactly the operand (`TransferExact`), the setup rule holds for the second one too (`FieldsSettled`), every access ends (`Completes`) |
| `fastram` | `FastRam.cfg` | two lines, an odd pair of words, line-buffer clears, both resets | Reads return current data (`ReadCurrent`); a write is accepted once, no beat arrives at a cache that does not wait for it, the backend never asks a busy crossing (`Handshakes`); valid ways and line buffer are whole (`CacheWhole`) |
| `fastram_live` | `FastRam_live.cfg` | one line, both resets | Every access is acknowledged and every posted write leaves, unless a board reset emptied the island while it owed an answer (`AccessesEnd`; section 5, 2) |
| `sdram` | `SdramCtrl.cfg` | two banks; chipset, reads, writes, RTG, audio, host, refresh | Slots in use are in different banks, a bank is opened only when idle, a column command finds its bank open (`BankRules`); both words are of the write that was given the slot, the first beat the cache takes is its own and in time (`WordsInTime`); an acknowledged write has been posted, a read gets one slot and never before an older write of its bank, no refresh is lost (`SlotRules`) |
| `ide` | `IdeServer.cfg` | drives of 7 and 9 sectors as file, file with made-up RDB and card; a count register of 4 values, reads and writes of all lengths up to the whole register | The cursor's cluster is that of its sector (`CursorCoherent`); the FIFO never holds more than it has room for (`FifoFits`); the task file ends on the last sector moved (`EndAddress`); the server implements the abstract disk (`DriveSpec`); every command ends but a write of the whole register (`CommandEnds`; section 5, 10) |
| `floppy` | `Floppy.cfg` | two drives, two images of different length, tracks of 3 sectors | What is read comes from the sector its header names (`SectorsTrue`) and in the order of the track (`SectorsInOrder`); what is written goes where its header says (`StoreInPlace`); a new disk is announced (`ChangeSeen`) |
| `menu` | `Menu.cfg` | two images, five configuration slots of which one is filled and another can be, one change of settings, one failure | Whatever row, chord, boot or file wrote a setting, the core was handed it by a call made since, volume, drive sounds and interlaced scanlines apart (`SettingsReachCore`); memory is not changed without the question (`MemoryAsked`); a unit whose image is on the card is open on the one configured, unless the last boot found no card (`HardfileInUse`); a disk goes where it was asked for (`InsertsWhereAsked`) |
| `directory` | `Directory.cfg` | six directories of up to 7 entries, a window of 3, one read that fails in either way | While no read has failed since the last full one, the window is a gapless part of the listing (`WindowOfListing`), and the cursor follows the key (`CursorFollows`), a letter finds what begins with it (`LettersFind`) |
| `keyqueue` | `KeyQueue.cfg` | two modifiers, two keys, a queue of 2, five changes | A chord has the modifiers that were down when it was pressed (`ChordsMeant`); only the last key repeats (`RepeatsLast`); no modifier stays stuck (`ModifiersSettle`) |
| `boot` | `Boot.cfg` | an SDHC card with FAT32, SD cards with FAT16, a blank MMC card; one slip, two saves or power cuts | Every block moved is the sector asked for (`SectorsMeant`); entries own their clusters (`EntriesOwnClusters`); a volume is mounted in its own format (`MountedInItsFormat`); a broken Kickstart that the CPU is let go with has left the card's error for the error page (`RomOrError`); every path ends in the main loop, but with the card out, on a blank volume, adrift in a directory of which it could not read a link, or in a firmware that is not ours (`ReachesMain`) |
| `boot_rom` | `Boot_rom.cfg` | the same without saves and power cuts | *Violated*: the CPU is let go only with a whole Kickstart (`RomBeforeRelease`; section 5, 16) |

Each property of a passing run has a mutant beside the definition it mutates: a
plausible bug (a dropped guard, a missing reset, a swapped priority, an
acknowledgement too early) with which the same run finds the property violated.

Deadlock is checked everywhere but in `ide`: after a failure of the card server and driver
may be left waiting for each other, and nothing is promised from there on (`trusted`).

### Bounds, and why they are enough

* **Two requests** (crossing). What has to be told apart is the request just made
  from the one before it; a third name adds nothing to a protocol with one request
  in flight. The proofs below hold for any set.
* **`MemBytes = 32`** (sequencer). Two lines give every offset in a line, every
  split at the boundary between lines, and the wrap at the top of memory. The
  proofs hold for any whole number of lines.
* **`Lines`** (cache). All lines share one row, which is the interesting case. One
  line is enough for progress; two make the line buffer, a way and the posted write belong
  to another line than the access. Three, which evict, were run and are too long to keep.
  `Lines` is a symmetry set in the safety run (lines are only compared for equality); the
  liveness run uses none.
* **`Units`**. A unit differs for the cache in whether it is one word
  or two, whether two words lie in one way entry or in two, and whether the burst it
  starts wraps. `OddPair` at 5 is the hardest: it spans two entries and wraps.
* **`Resets`, `Clears`, `LineClears`** switch the resets and the two clear inputs on
  or off. `Clears` is off, because the property fails with it (section 5).
* **`Banks`**. Bank 0 and one other show every conflict of two slots.
* **`REFRESHSCHEDULE`** is 2 where the hardware has 50, so that a refresh falls into
  every pattern of accesses. For the rule that no refresh is lost it is the harder case.
* **`ChipRun`** bounds the rounds in a row that the chipset takes, **`RtgRun`** the bursts
  until the line buffer is full. Both are properties of the requesters the controller
  relies on (`sdram_ctrl.v:539`).
* **`Arrivals`**: RTG, audio and the host change their requests in the clock before ph1 and
  before ph9: where the change is seen after a slot was judged and before it is given.
* **Drives** (IDE). Seven sectors are a whole number of tracks and one left over; nine have a
  geometry of two heads. Clusters of two sectors, FAT sectors of two links and an index of
  four make a transfer of three sectors cross each of them. The FIFO's two sectors fill.
  `CountRegister` has four values, so that a count of 0, which means all of them, occurs,
  for reads and for writes: `MaxRead` and `MaxWrite` are the whole register.
* **Tracks** (floppy) of three sectors, clusters of two: a track starts in the middle of a
  cluster, and the order wraps within one DMA of three units. The second image is shorter than
  the heads can step. `Changes`, `Aborts` bound how often the user and the Amiga interfere.
* **`Fields`, `Chords`, `Troubles`** (menu) name the settings, chords and failures that occur.
  A field of each kind is looked at: written by a row of `MAIN`, of the Floppy page, of the ring
  of settings, by a chord, and from a copy.
  One edit and one failure at a time; the walk through the pages is unbounded.
* **The window** (selector) of three rows over seven entries: every mode meets a full
  window, a short one, and one at either end. One subdirectory has a directory that sorts before
  its "..". A read fails before the first entry, after the first and in the middle (`Breaks`);
  what lies at "cluster 0" is an entry of the root once more and one of no directory (`Stray`).
* **The queue** of two events overflows within the five changes; what the properties then
  claim says so.
* **`MaxFaults`, `MaxActs`, `MaxTries`** (boot): one slip at any exchange, two saves or power
  cuts, one repetition of a driver's loop. The walk has up to a hundred exchanges, so one slip
  is a hundred different ones. Ten clusters hold every file once, and two are free.

No run has a state constraint; the models are finite by construction.

### Fairness

Every liveness result assumes what the hardware or the program gives:

* the clocks run (weak fairness of a clock edge of each domain);
* the board's reset is released, and the island, out of reset, accepts a request it
  is offered and answers one it has accepted, unless a reset took it away meanwhile (the
  vendored controller's contract, `DstAccept`, `DstRespond`, `IslandAccept`, `IslandAnswer`);
* in the run `cdc` (`DrainSpec`), a board reset does not strike while a response is owed (what
  happens then is in section 5) and leaves the island time to accept a request between one
  press and the next (strong fairness of `DstAccept`). The safety properties
  are proved without either restriction;
* the placement gate opens again and again while a unit waits for it (the cadence of
  `cpu_enable_cadence.v` is periodic): `Launch` in `RamSeq`, `Edge` with `master'
  = "req"` in `FastRam`;
* for `RamSeq`, the unit port answers a request that stays up. That is what `AccessesEnd`
  of `FastRam` concludes;
* in `IdeServer`, the main loop calls `HandleHDD` again (`Server`), and the Amiga's driver
  takes an interrupt and moves the sectors it has been offered (`HostIrq`, `HostRead`,
  `HostWrite`); it is not obliged to issue commands;
* in `KeyQueue`, the main loop calls `OsdGetCtrl` again (`GetCtrl`); nobody must press keys;
* in `Boot`, the host processor runs (`Processor`): both programs are loops that never
  sleep. Nothing is assumed of the card or the user.

Nothing is assumed about how often a reset may come in `FastRam_live.cfg`: the request is
acknowledged, or a reset takes it away, or one has left the island owing an answer for good.

---

## 4. What is proved, and how

`PortProofs` holds the proofs of the two ports in front of the memory. About `Ddr3Cdc` (any set
of requests, any interleaving of the clocks and resets; assumption `RequestAssumption`: there is
a request, and `None` is not one):

* `KeptApart` (`RequestsApart`) and, by itself, `OneInFlight`.
* `BusesQuasiStatic` (`BusesSettled`): the two bus rules as an action property.
* `ImplementsChannel`: `CdcSpec => ChannelSpec`, the refinement.

The argument is a ring. The registers `req_tgl`, `req_sync0`, `req_sync1`,
`req_seen`, `ack_tgl`, `ack_sync0`, `ack_sync1` are read each by the next, and the
last by the source when it decides to flip the first. If one of them differs from
`req_tgl`, so do all behind it: at most one change travels. The source flips only
when the last register agrees with the first, and then the whole ring is of one
value. `Ring` is not inductive by itself: the destination's state must be tied to
it (`Working`: it is idle exactly when what it has seen is what it has answered),
what the island owes to the payload (`Owes`), and the answer register to the request
it belongs to until it is captured (`Answered`). `CdcIInv` is their conjunction with
`CdcTypeOK` and `AnswerMatches`.

`PortProofs` about `RamSeq` (any address space of whole lines; assumption
`MemBytesAssumption`):

* `Inductive`, the inductive invariant, and from it `UnitsAlwaysFit` (`UnitsFit`) and
  `TransferCorrect` (`TransferExact`): an acknowledged access has moved exactly its operand.
* `SetupKept` (`FieldsSettled`), an action property.

`TransferExact` speaks of the end of an access; the inductive invariant speaks of
every moment of it: `Counters` (what is left and what is done add up to the size,
and the current address is the start plus what is done), `UnitCount` (after one
unit the next one covers the rest, lemma `SecondUnit`), `OnPort` (what is on the
port is the unit the counters describe) and `Moved` (what has moved is the first
`pos` bytes, lemma `UnitMoves`). `PortProofs` derives the arithmetic of a unit
once (`UnitShape`) and cites it everywhere.

`BootProofs` (any set of cards, any `FreshDisk`, any number of slips, retries, saves and
power cuts; assumptions `SdCardAssumption` and `BootAssumption`: the bounds are numbers,
and `None` is none of the names it is compared with; `NumbersAssumption`: clusters and slots
are numbered from 1; `VolumeAssumption`: every card's volume is consistent when it is put in,
which TLC evaluates for the cards of the run):

* `BlocksAreTheOnesAsked` (`SectorsMeant`): every block `mmc.c` moves while `CardType`
  names a type is the sector that was asked for.
* `FormatIsTheSectors` (`MountedInItsFormat`), an action property.
* `EntriesOwnTheirClusters` (`EntriesOwnClusters`), as long as no block is sent to a card
  that MMC_Init has not recognised (`[]~BlindWrite`).
* `RomIsGoodOrReported` (`RomOrError`), an action property, as long as what is read of the
  ROM file without an error is the Kickstart (`[]KickstartRead`).

`SectorsMeant` says nothing of the moment before a block moves; the invariant has to.
`Known` does: a card that has been exchanged is `Deaf`, it hears nothing but CMD0
(lemma `DeafReply`) and moves no block; a card that is not `Deaf` is of the kind
`CardType` says (`Agrees`), unless MMC_Init has begun. From then on `Dialogue` holds
instead: wherever the old way of initialising has got to, an SDHC card is still idle
(`IdleReply`), so the dialogue cannot end there as for an SD card. The boot loader's driver also
sends CMD0 and leaves `CardType` alone: `LoaderFirst` and `SpiFirst` say that it runs only
while there is no type, and `WalksReturn` that no directory walk of the firmware comes back to a
place of the boot loader. `Shapes` says which fields the records have. A step of either
program between two driver calls is a `Caller` step, whatever it does with files and
errors; one lemma per group of actions shows that, and one (`CallerKeeps`) that
such a step keeps the invariant. The driver steps are `Transfer`s, steps of the boot
loader's driver, and MMC_Init, which is taken apart by the place it is at (`InitTurns`, `InitKeeps`).

`EntriesOwnClusters` speaks of the card alone; what keeps it are the two copies of things the
firmware has in memory. `OwnInv` says of them, while the card is the one initialised last
(`Session`): the buffered FAT marks every cluster the card's own marks (`Buffered`: it may mark
more, when a write of it failed), the directory sector from which the new entry is made is still
the card's (`Creating`), and the cluster taken is nobody's and is marked on the card before the
entry goes out (`Allocated`, `Landed`). A write on its way is one whose outcome is consistent
again (`Pending`), and a read from which something is made is of the sector its place is about,
and brings what is there (`Asks`, `Answered`). `Consistent` itself is stronger than the property:
it also says that each entry's cluster exists and that the directory is well formed, without which the
next step could not be taken. A step that creates no file is `Quiet`, and one lemma shows that
all of those keep the invariant; `EntryKeeps` and the lemmas on `Allocate` do the arithmetic of
FAT and directory once. The hypothesis `[]~BlindWrite` is needed, not a convenience: without
it the property is false from three slips on (finding 11). The run has one slip, checks
the property with blind writes included, and the invariant was checked by TLC, on two
cards with three slips, before it was proved.

For `RomOrError`, `RomInv` says that from the first part of UploadKickstart to the release of the CPU
what is in memory is good or the card's error is in `ErrorMask` (`Noted`), through the
directory walks in between, each of which ends with `ClearError("fs")` or an error
of its own. The hypothesis `KickstartRead` is about the content of a file and not about
errors; TLC finds it an invariant of the run. It can be false on a full card: finding 7
writes a configuration where the last file opened was, which a walk that could not be
read leaves to be the Kickstart.

`OsdProofs` holds the proofs of the menu's input and of its file selector. About `KeyQueue` (any
keys and any depth of the queue; assumption `KeyQueueAssumption`: the queue holds something and no key of the joystick is a modifier, as in `userio.v`):

* `ChordsAreMeant` (`ChordsMeant`): `HandleUI`'s modifiers are those that were down when the
  event it acts on happened.
* `OnlyTheLastRepeats` (`RepeatsLast`).
* `ChainHolds`, the invariant. What was given, `kq_buf` and `q` are one `Chain`: each event has
  the modifiers of the one before it, changed by its own key, and the last one is the level of
  now (`Latest`). A push extends it (`LinkAppend`), a pop moves an event inside it, a delivery
  takes its head off (`LinkTail`). `Shown` is the condition under which a change of the level
  fits: it fails when a modifier moves behind the joystick, which is what `upset` is for.
  `LevelRead` carries the repeat: an empty queue after the level was read means that the level
  is the last event given.

`OsdProofs` about `Directory` (any directories in any order on the card, any window of two
entries or more, any extensions, any number of reads that fail, in either way; assumption
`DirectoryAssumption`: no two entries of a directory compare equal):

* `WindowShowsListing` (`WindowOfListing`): the window is a gapless part of the sorted directory
  and short only at its end, as long as it is `known`: no read has failed since the directory was
  last read from its start.
* `CursorGoesWhereTheKeySays` (`CursorFollows`) and `LettersAreFound` (`LettersFind`), two
  action properties.

All three suppose `LettersInOrder`: entries of one sort are in the order of their first letters.
The code orders entries by the long name and tests the first letter of the short one, so that
this is a hypothesis on names, not on the code (section 5, 13). `CursorFollows` also supposes
`FolderTree`: a directory but the root has an entry "..", and the directory that leads to has it
as an entry. The run evaluates both on its directories (`DirectoryHypotheses`). Of KEY_BACK it
speaks where ".." comes before the other entries (`ParentFirst`), which the code takes for
granted (section 5, 15); the directory it leads to is the one that ".." names.

The argument has three layers. *The loop*: a scan is an induction over the entries in the order
of the card. `LoopKeeps` turns what the loop keeps, a set of pairs of a table and the part of the
directory read so far, into what it leaves. Modes that sort as they read keep `Foremost`: the
table is sorted and nothing that was collected and is not in it belongs before its last row
(`ForemostPlaced`, for one insertion; `Collected`, for the scan). The modes that work on the
window have invariants of their own: `NextLoop` and `PrevLoop` (the row that scrolled in is the
nearest one of those read), `InitNextLoop` (the top row stays the top), `InitFirstLoop`. *The
window*: at the end of the directory the loop's result makes a `View`, a window `Shows` speaks of
(`SlideShows`, `RaiseShows`, `PageDown`, `PageUp`), and one lemma for each mode says what it
leaves (`ScanNextSound`, `ScanLetterSound`, ...). *The selector*: `SelectorSound`, the inductive
invariant, says that a window known to be of the current directory is of a directory and is a
`View` of it; a scan that was cut or strayed leaves `known` false if it has touched the window. `CursorFollows` counts: the position is the
`Rank` of the entry under the cursor, and a step passes over as many entries as it moves the rank
(`RankApart`, `NeighbourRank`, `PagedRank`). For a letter, `SearchesAre` and `SearchedIs` follow
the three searches to the first that finds something, and `LetterFinds` shows that they cover
both sorts, and that the entry under the cursor is found again only if it is alone.

`FastRamProofs` (any lines of memory that share a row, any shapes of access, any values of
the line-buffer clear, any resets, any speed of the island; assumptions `UnitsAssumption`,
`NoneAssumption`, `ResetsAssumption`), if the program does not clear the cache while it runs
(`Clears = {0}`; without that `ReadCurrent` is false: see 3 in section 5):

* `ReadsAreCurrent` (`ReadCurrent`): coherence, from the line buffer, a way, the burst or
  memory behind a posted write.
* `HandshakesHold` (`Handshakes`) and `CacheIsWhole` (`CacheWhole`).
* `Inductive`, the inductive invariant they come from.

None of the three is inductive by itself, because an access is answered long after what makes
the answer right. `Places` says where the master is when the CPU-side machine is in a state,
to the clock: a read hit goes on copying for up to two clocks after its early acknowledgement,
and is over before the next request can be there, which is what keeps `CPU_SM_READ` from
being asked by a second access. `Bursts` counts the beats: how many the cache has taken
(`Beat`), that a burst is only there while the machine fills, and that the acknowledgement of
a fill cannot outlive the burst. `CrossingPhases` ties the backend's state to the crossing's,
`OneAtATime` says that a read is taken only when nothing is posted and no write is under way.
`InFlight`, `Current` and `NotYet` account for every word of memory: it is current in memory,
in the posted write or in the write on its way, and not in two of them; with `OneAtATime` the
line a read brings is therefore whole (`Answered`). On the side of the cache `WayContents`
and `BufferContents` say which words are right at every moment of a write (`Pending`), of a
hit's copying (`Copied`) and of a fill (`Filled`), `NoTwo` that a line is in one way only, and
`Swept` that a reset leaves through a sweep of the tags. One lemma per conjunct says that a
step keeps it, with one case per state of the machine.

`SdramCtrlProofs` (any banks, any refresh schedule, any clients, any phases at which RTG,
audio and the host ask, any length of RTG's bursts):

* `SlotRulesHold` (`SlotRules`), if the chipset leaves a round between two refreshes
  (`ChipRun < REFRESHSCHEDULE`; the schedule is 50 rounds and the chipset relies on far
  less, `sdram_ctrl.v:539`).
* `BankRulesHold` (`BankRules`) and `WordsAreInTime` (`WordsInTime`), if a frame buffer lies
  within a bank (`RtgCrosses = 0`). Without that, `BankRules` is false: see 4 in section 5.
* `SlotsHold` and `RowsHold`, the two invariants they come from.

The rules are about the clock in which a command is on the pins or a slot is given, but what
makes them true was decided up to sixteen clocks before. `SlotsHold` is about the requests.
`WritePhases` says in which phases a posted write can be at which step: this is what the
placement gate is for, and without it nothing that follows is true. `OwnSlot` says that a
slot on its way to the cache is there exactly while the read that was granted one waits,
`BurstTaken` where the cache is in a burst. `JudgedRight` says that a flag that was judged a
clock before its slot is given still speaks of the present address and of the present other
slot; `JudgedAlike` is needed where a read takes the slot that was judged for the write to
the same bank. `Posting` ties `writebuffer_hold` to the phases of the slot that posts, and
`RefreshDue` counts the rounds that a refresh waits by the chipset's run. `RowsHold` builds on
it: `Pins` says for each phase which command is out and of which slot, `BusyAsUsed` computes
the clocks each bank is still busy from the phase and the slots in use, and the rules can be
read off the two. One lemma per group of actions says what a round changes, one per conjunct
that it is kept.

`MenuProofs` (any images, kinds of image, partitions, saved configurations, floppy drives and
fields of `config`; as many edits, faults and failures as one likes; assumption
`MenuAssumption`, which says what these constants are):

* `SettingsAlwaysReachCore` (`SettingsReachCore`), `MemoryAlwaysAsked` (`MemoryAsked`) and
  `HardfileAlwaysInUse` (`HardfileInUse`); `InsertsAlwaysWhereAsked` (`InsertsWhereAsked`), an
  action property.
* `InitiallyKept`, `Inductive` and `Invariance`, from which they follow.

The difficulty is a shortcut of the code. `HandleUI` looks at *up* and *down* before it looks
at `menustate`, and if one of them moves the cursor it executes the page in `parentstate`,
whatever `menustate` was. `parentstate` is set by the page drawn last, which may be long ago:
the file selector, an error or a question does not always set it. So it is not enough to say
what holds in each `menustate`. `Found(s, row)` says what a page needs of the state it is
executed in (`AskedAt`: the memory is agreed or the page is one that will ask; `CardAt`: a ROM
is only selected with a card; `DrawnAt`: which page was drawn before a page that waits;
`SelectorAt`: where the file selector goes back to, and that the cursor is where it was
called). It is invariant for `menustate`, and `FoundThere` shows from `LeftBehind`, which says
what may have been left in `parentstate`, that it holds for `parentstate` too. The rest of the
invariant is about the settings: `Told` is `SettingsReachCore` without the condition that the
CPU runs, since `ColdBoot` hands everything over before it lets the CPU go; `CopyAgreed` says
that the copy the Memory page compares with is one the user agreed to. Most pages write one
field and hand it over: `RingRowsTell` goes through the rows and the calls they make,
`ConfigurationTold` through the calls of `ApplyConfiguration`, and `SettingKeeps` says once that
this keeps everything; the pages of the memory, the hardfiles and the boot have lemmas of
their own.

`IdeProofs` (drives of any kinds and sizes, clusters, FAT sectors and index entries of any
length, a FIFO and blocks of any length, requests up to any bounds; assumptions
`GeometryConstants` and `IdeServerAssumption`, which says what these constants are):

* `FifoFitsHolds` (`FifoFits`) and `EndAddressHolds` (`EndAddress`), under the hypothesis
  `GeometryFound`: the search finds a geometry for every drive.
* `CursorCoherentHolds` (`CursorCoherent`) and `DriveRefined` (`Spec => DriveSpec`, the
  refinement of `AbstractDisk`), under `PartlyFilled` as well: no file fills its last cluster.
* `Invariant`, from which they follow: `IInv` for every drive that has a geometry.

Neither hypothesis is a convenience. Without a geometry the loops leave 17 heads and whatever
number of cylinders the last division gave; that the code's numbers find one up to
16 * 255 * 65535 sectors is evaluated by TLC (`NothingBeyond`). A file that fills its last
cluster breaks `CursorCoherent` (section 5, 5). TLC evaluates that both hold of the drives of
the run (`Drives`). `IInv` itself does not need `PartlyFilled`: `Coherent` allows the mark of the
end in the one place where it may be, and the proof shows that it is nowhere else.

A command is in one of five phases (`Phase`): it waits for the server (`Waits`), is read
(`ReadsOn`), written (`WritesOn`), identifies the drive (`Identifies`) or is over (`Ended`). While
it is read, what has moved, what the FIFO holds and what the server still has to bring (`Rest`)
are together what was asked for, and `Where` says, loop by loop of `ATA_ReadSectors` and
`FileReadEx`, how `lba`, the cursor and the batch follow from the first two. `Cursor` ties the
cursor's cluster to its sector wherever `FileSeek` is. `Room` bounds the FIFO by the block under
way and holds when the card fails, too, when the phases are no longer claimed (`trusted`).
`Content` says what is in the FIFO: it is invariant beside `IInv`, and with it every step of the
system is a step of `AbstractDisk` or leaves its variables alone (`StepAllowed`).

The addresses need arithmetic that the solvers do not have: `ChsBack` (an address names the
sector it was made from), `NextChsOf` (a step of "Advance CHS values" is one sector), and
`GeometryFits` (what is announced is within the file, or a cylinder longer with an RDB of ours).
`Advance` takes as many steps as there are sectors. That its result is the last of them
(`AdvanceIs`) is an induction, which is done on the set of lengths for which it is true:
`Induct` follows from the library's theorem that finite subsets are well-founded.

`FloppyProofs` (any drives, images, lengths of track, clusters and FIFO contents, any number of
stops and exchanges of disks; assumption `FloppyAssumption`: an image has at least one track,
a track and a cluster at least one sector, the drives are numbered 0 to 3 at most):

* `PlaysTrueSectors` (`SectorsTrue`), `PlaysInOrder` (`SectorsInOrder`) and
  `DisksChangeUnseen` (`ChangeSeen`), three action properties, without a hypothesis.
* `StoresInPlace` (`StoreInPlace`), under two: `"write" \notin AbortKinds`, no write DMA is
  stopped early (section 5, 8), and `[]WithinImage`, no write runs with the heads of a writable
  drive on a track its image does not have (section 5, 12). The run satisfies both: every
  image in it that may be written has as many tracks as the heads can reach (`LongEnough`,
  which TLC evaluates).
* `FloppyInvariant`, from which they follow: `IInv`.

Reading: `ReadTrack` is given up and begun again at any poll, and between two of its runs another
drive may use the one cursor `file`. What carries over is `track_prev`, `sector_offset` and
`cluster_offset`. `Remembered` says that these are in place when the track is one the image has
(the track above the last one is played after `FatalError`, by a `track` that has been put back
to the last); `Reading` ties the running cursor and the local `sector` to them; `Steps` says what
is still true at an await of what the poll before it answered: between the poll and the words
the Amiga may have stopped the DMA, but then it is not active and nothing is put in the FIFO, and
while it is active neither head nor select can have changed. `Order` adds that the drive
remembers the sector behind the last one of this DMA. The wrap at the end of a track, where
`SendSector` puts the cursor back, is where the properties would fail first (`SendSector_NoRewind`).

Clusters: `cache(i, t)` is filled by as many calls of `FileNextSector` as a track has sectors. The
lemma `AheadInPlace`, that any number of such steps keeps a cursor in place, is an induction, done
as in `IdeProofs` on the set of numbers for which it is true.

Writing: a track on its way is a word of the grammar `IsStream` (gap, sync, header, data, in the
order `Stream` makes them, and a part of a data field at the end where the Amiga's buffer
ends). `WInv` says that what is in the FIFO together with what the Amiga has yet to write is such
a word, that the cursor is where `drive->track` and `sector` are (`Writing`), and for each place in
`FindSync`, `GetHeader` and `GetData` what stands at the front of the FIFO (`Taking`). The step that
matters is `GetHeaderWrites`: the cursor is moved to the header's sector, forwards, or from the
start of the track when that sector is behind, and the header is of this track or the sector is not
stored.

Only model-checked:

* Liveness (`ChannelLive`, `ResetCostsOneResponse`, `Completes`, `AccessesEnd`,
  `CommandEnds`, `ModifiersSettle`, `ReachesMain`): fairness and `ENABLED` are outside what
  TLAPS proves.

Every safety and action property of a passing run is stated by a theorem.

---

## 5. What the model found

A run shows 16; `PROJECT.json` lists it as a finding. The others were met with instances of the
modules that are not among the runs, because what the run asks would then be answered by them
at once, or as an exception a property has to make. Each can be repeated by changing the
constant, the specification or the property named.

1. **Settings of a configuration never reach the core** (`Menu` with `EverySettingTold`, and
   `"volume"` and `"laced"` in `Fields`). The comment at `config.c:439` says every other
   setting is pushed to the core in `ApplyConfiguration`. The volume is not: only the chords
   and the Audio page call `ConfigAudio`. Nor are the scanlines of interlaced pictures, bits 2 and 3 of
   `config.scanlines`: `ConfigVideo` sends bits 0 and 1 (`osd.c:852`), so that the row of the
   Video page writes `config`, redraws itself and changes nothing in the core. Nor, from a
   configuration loaded in the menu, the drive sounds, which only `ColdBoot` enables
   (`main.c:228`).
2. **A board reset during a request stops the fast RAM for good** (`Ddr3Cdc` under
   `CdcFairSpec`, with board resets at any moment, `ResetCostsOneResponse`). The comment at
   `ddr3_cdc.v:93` says a reset costs one discarded response. The reset button empties the island but not the crossing's destination
   registers; a response owed at that moment never comes, `ack_tgl` never flips, `src_ready`
   never rises.
3. **The cache-clear pulse of CINV/CPUSH can make the cache answer with another
   line's data** (`FastRam` with `Clears <- Sometimes`, `ReadCurrent`). The sweep clears the
   tags of a row while a read that was already acknowledged is still copying from it; the
   machine then takes the late miss for its own, asks for the line again and acknowledges the
   *next* access with it. `TG68K.vhd:1719` calls the clear harmless.
4. **A frame buffer that runs across a bank border lets both slots into one bank**
   (`SdramCtrl` with `RtgCrosses = 1`, `BankRules`). RTG's address carries into the next bank
   on the edge that judges its slot with the old address.
5. **A hardfile that fills its last cluster to the end leaves the cursor on the end-of-chain
   mark** (`IdeServer` with `Sizes = {8}`, `CursorCoherent`). `FileSeek` steps to the link
   behind the last sector of the file; a later seek within that last cluster, which needs no
   link, goes on from there.
6. **The boot loader takes directory bytes for links** when the FAT32 root directory has more
   than one cluster (`Boot` with `BigRoot = TRUE`, `ReachesMain`): `buffered_fat_index` is
   kept, but the buffer is the directory's by then.
7. **With no cluster free `FileCreate` reports success** (`Boot` with `Free = {}`), and
   `SaveConfiguration` writes to the sector that cluster 0 would have.
8. **A write DMA that is stopped between the poll and the words stores a sector of zeroes**
   (`Floppy` with `AbortKinds = {"write"}`, `StoreInPlace`).
9. **Confirming a new hardfile twice tells the core of a drive that is not open** (`Menu` with
   `MaxEdits = 2`, `PresentInUse`). `HARDFILE_CHANGED2` copies `t_hardfile`, its `present`
   included, over `config.hardfile` and opens only the units that differ. The menu is gone
   then, but `parentstate` is still the question, so that *down* as the next key draws it again,
   and a second *yes* copies the old `present` without opening anything: if the image is not on
   the card, `OpenHardfile` had just cleared it. `ConfigIDE` then reports a drive. The attempt
   to prove the property for any number of edits failed here; `HardfileInUse`, which is proved,
   speaks of the images that are on the card.
10. **A write of 256 sectors never starts** (run `ide`, `CommandEnds` without its exception
   `NeverOffered`). The sector count register is 0 then. `hdd.c:604` takes 0 for 256, but Gayle
   offers the FIFO for writing only with `sector_count != 0` (`gayle.v:358`): the server waits for
   the sector, the driver for the data request. Reading is not gated so and works, which the run
   includes.

11. **A save can go out to a card that MMC_Init has just failed on** (`Boot` with two cards
   and `MaxFaults = 3`, `EntriesOwnClusters`). A failed MMC_Init keeps the CPU held but leaves
   `fattype`, `fat32` and the FAT buffer as they were (`buffered_fat_index` is reset only in
   FindDrive, `fat.c:118`), so that the menu's save still runs, with `CardType` saying that
   there is no card. On an SDHC card it then takes a sector from a wrong address for the FAT;
   if the card is exchanged for one that counts in bytes, and whose initialisation fails
   late as well, that FAT is written to the new card, and its entries own free clusters. The
   attempt to prove the property for any number of slips failed here; the theorem excludes
   writes while no card is recognised (`BlindWrite`), and nothing else.

12. **A write to a track that the image does not have goes to whatever the cache holds there**
   (`Floppy` with one writable image of 1 track under `MaxTrack` 1, `StoreInPlace`).
   `ReadTrack` reports an illegal track (`fdd.c:181`) and plays the last one; `WriteTrack`
   takes `drive->cache[drive->track]` (`fdd.c:622`) without looking. `InsertFloppy` fills the
   entries of the image's own tracks only, so that the entry is 0, or a cluster of a longer disk
   that was in this drive before. The attempt to prove the property for any images failed
   here; the theorem excludes such writes (`WithinImage`).

13. **A letter key trusts that the sorted directory is in the order of first letters**
   (`Directory` with the letter of one name out of turn, `LettersFind` and `WindowOfListing`).
   `CompareDirEntries` orders by the long name where there is one (`fat.c:649`), a letter looks at
   the first letter of the short one (`fat.c:1160`, `fat.c:1276`). The two differ for a long name
   that begins with a character short names do not have: ".fred" is first in the order, and its
   short name begins with F. A letter up to F then finds that entry first and, unless it is F,
   gives up, though others begin with it; F itself shows it with the entries behind it left out.
   The theorems suppose `LettersInOrder`.

14. **A link of the FAT that cannot be read does not end a scan of a directory** (`Directory` with
   a strayed scan left `known` by `Failed`, `WindowOfListing`). `GetFATLink` returns 0 (`fat.c:1342`), and `ScanDirectory`
   takes only an end mark for the end (`fat.c:1221-1226`): it goes on at "cluster 0", two clusters
   before the data (on FAT16 the end of the root directory), and the link of that, the first of
   the FAT, ends it. The scan finishes like a good one: a page or a letter puts entries of no
   directory, or of another, into the window and leaves out what it did not come to. A read of a
   directory sector that fails does end the scan (`fat.c:786-788`).
15. **KEY_BACK can enter a subdirectory instead of leaving the directory** (`Directory` with
   `CursorFollows` without `ParentFirst`). It takes the first entry of the directory for its ".."
   (`menu.c:1016-1018`), but `CompareDirEntries` (`fat.c:636-665`) knows no special case, and a
   directory whose name begins with one of ! # $ % & ' ( ) - sorts before "..".
16. **The CPU is let go with a Kickstart of which a sector could not be read** (run `boot_rom`,
   `RomBeforeRelease`). `main.c:214-220` says that the CPU is let go only if there is a ROM to
   run. `SendFileV2` drops what `RARead` returns (`fpga.c:104`), and `UploadKickstart` returns the
   size of the file whatever was read. `RomOrError` is what remains: the card's error is left for
   the error page.

Smaller disagreements between a comment and the code, met while modelling. The models
do what the code does; no run is about them.

* **`CPU_SM_INIT` does not wait for the sweep** ("waiting for cache init",
  `cpu_cache_new.v:370`), which is what makes 3 possible: the done flag it looks at is
  lowered one clock after both machines have left IDLE.
* **A miss can be launched past the placement gate**: `RS_LAUNCH` looks at `hit` one
  clock before it speaks of the present address, not when it is valid as
  `ap040_ram_seq.vhd:62` says. `ReadCurrent` shows that the data are right all the same,
  and the run `sdram`, where a read may start in any phase, that the slots are.
* **`rdata_r` is written while `src_ready` is low**, not high as the header of
  `ddr3_cdc.v` says (lines 36-41). What makes the bus safe is `RdataSettled`, which is
  checked and proved as half of `BusesSettled`.
* **The host is not the lowest priority** (`sdram_ctrl.v:462`). It is last in ph1's
  chain, but its request is also a condition of the CPU's and audio's flags for slot 1
  (lines 450, 455, 464): while it asks, they do not get slot 1.
* **A refresh does block slot 2 for one bank**, the one slot 1 served before it, since
  `slot1_bank` is left over and only `IDLE` is excused (lines 452, 457, 459). The comment
  at `sdram_ctrl.v:786` says it need not; it costs a round.
* **Dropping the newest event does not spare a modifier's key-up** (`userio_osd.v:673`): a
  full queue drops whatever comes next, a key-up included.

One result is not a finding but an explanation the source asks for. `TG68K.vhd:1955-1962`
reports that opening the placement gate on `enaWRreg` itself, one clock later than now,
corrupted memory on the board, and that "why that placement corrupts is not explained".
The mutant `Gate_Late` is that gate, and it violates `BankRules`: the
write's request then reaches the controller in ph1 or ph9 itself, the clock in which the
slot is given, while the flag for it was judged with the address of the write before.
With the gate where it is, the flag is of the right address by exactly one clock. Whether
this is what the board showed, the model cannot say; it is a way for it.

---

## 6. What is not modelled, and the plan

Left out of the modules above:

* *Memory path*: the values of data (they are named), the other byte lane, the other 255
  rows; calibration and PLL of the DDR3 island and its vendored controller (its port is
  modelled); the ILA taps; the width of the synchronisers' metastability window (a sampled
  bit is old or new). Of the SDRAM controller: the power-up sequence; a warm reset (which
  clears the slots' types and leaves `slot2_write` and `writebuffer_hold`); the snoop port,
  `chip48` and the byte masks; the line-buffer clear in `CPU_SM_IDLE`, which can delay a write
  by a clock and so out of the placement the gate gives it; the second set of strobes that
  realigns the phase counter. A frame buffer in bank 0, which no rule of the controller keeps
  out of the chipset's way, is excluded by `RtgBanks`. The progress of CPU requests under RTG
  traffic was checked once and is not kept: it takes longer than a run may.
* *IDE*: the rest of what IDENTIFY and the fake RDB contain, the second unit and channel (the
  same server with other registers), a reset of the Amiga in the middle of a transfer, drives
  of more than 16 * 65535 * 255 sectors, for which the loops find no plausible geometry and
  leave 17 heads and a truncated number of cylinders.
* *Floppy*: motor and index timing, the MFM code itself, the drive sounds.
* *Menu*: what a page shows, `MENU_RECONF`, `GetDiskInfo`, the scrolling of long names; the
  directories of images: a name stands for one image, while the code compares only the names,
  so that an image of the same name in another directory is no change to it. The window of the
  file selector: one that was filled before a boot found no card is taken to be empty.
* *Volume*: long names, more than one FAT sector on the boot path, `RASeek` and `RAReadLine`
  (CD images, which the main loop does not call in this build).
* *Boot*: the override keys of `ColdBoot`, encrypted ROMs, the splash screen, and the
  services the main loop also polls (RTC, HDMI, drive sounds).
* *Key queue*: a core without a queue.

Left out for good, with the reason in `PROJECT.json`: the 68040 core (its submodule
is empty here), Denise and the HDMI scaler (pixel pipelines), ports to other boards,
Amiga-side software, serial-bus sequencers that run once, older copies of the firmware.

The plan, in order. Each line is a module, what it composes with, and what it is for.

1. **`SdramCache`**: `CpuCache` with its snoop port, `CPU_SM_SDWAI` and
   `CPU_SM_FILLW`, composed with the slots of `SdramCtrl`, and the warm reset of both.
   Properties: what the chipset writes is never answered from an old copy; what the CPU posts
   is seen by the chipset in order; a snoop that coincides with a clear or a fill is not lost.
2. **`CiaTimer`, `CiaInt`, `PaulaInt`**: reload at the underflow, read-to-clear and
   set/clear in the same clock. Properties: no event is lost, none counted twice.
3. **`PaulaAudio`**, **`Toccata`** and the interrupt-driven sound mixer of the firmware, which
   shares a sample queue with the main loop.
4. **`Autoconfig`**: boards configure one at a time, at disjoint addresses.
5. **`CpuWrapper`** (`TG68K.vhd`, `cpu_enable_cadence.v`): request masking, address
   decode and cadence, so that the port assumption of `CpuCache` is discharged rather than
   assumed.
