# Tagged memory on a lowRISC/Rocket chip: a TLA+ model

The repository is a RISC-V system on a chip, written in Chisel, whose 64-bit
words carry tags, with the software that boots it. Tags travel with values
through the core, are checked at indirect jumps, are stored beside the data in
both cache levels, and live in a separate partition of main memory behind a *tag
cache*. Software controls the checks, the memory map and the timer through
*processor control registers* (PCRs) that all cores share. A boot loader reads the
operating system from a FAT volume on an SD card, and machine-mode firmware
serves it afterwards.

This directory models the parts in which order matters most, cycle by cycle for
the hardware and call by call for the software: the tag cache, the PCRs, the tags
in the pipeline, the file system, the SD card driver and the firmware. It
says what they promise, checks it with TLC on small instances, and proves it with
TLAPS for every size; of the file system the layer below directories and files is
proved.

    tlc -workers 2 -config TagCache.cfg MCTagCache      one run
    tlapm TagCacheControl.tla                           the proofs of one module

Paths below are relative to the repository.

## 1. The system

| Part | Source | State | Talks to |
|---|---|---|---|
| Tag cache | `uncore/.../tagcache.scala` | a tracker with 17 used states, two arrays | L2 (TileLink), converter |
| PCR control | `uncore/.../pcr.scala` | control registers, clock, host word, reset counter | all cores, tag cache, host |
| CSR file | `rocket/.../csr.scala` | CSRs, waiting flag, copies of time and host word | pipeline, PCR control |
| Tag check unit | `rocket/.../tag_check_unit.scala` | copy of the tag control register | pipeline, update bus |
| Tag ALU, tag pipeline | `rocket/.../tag_alu.scala`, `rocket.scala` | tags in every stage, tag register file, scoreboard | divider, data cache, CSR file |
| Memory and I/O map | `uncore/.../memspace.scala`, `iospace.scala` | two copies of a map | update bus, tag cache, data cache |
| L2 cache | `uncore/.../cache.scala` | trackers, write-back unit, arrays | L1 caches, tag cache |
| TileLink | `uncore/.../tilelink.scala`, `network.scala` | finish queues, arbiters | everything on chip |
| Firmware | `fpga/board/kc705/bbl/` | per-hart data, two message queues | operating system, UART, harts |
| File system | `fpga/board/kc705/driver/ff.c` | window, FAT, open files | boot loader, card driver |
| SD card driver | `fpga/board/kc705/driver/diskio.c`, `spi.c` | state and type of the card, SPI registers | file system, card |

What makes these parts hard: the two halves of the tag cache's tracker run
concurrently and share one memory port and one command flag; its counters are
never reset; an acknowledgement is valid for one cycle only; the way and the
victim chosen at lookup are used many cycles later. Around the PCRs, several
cores, a host that answers when it likes and a clock share one request port and
one update bus without back-pressure. In the pipeline a tag may come from five
places, and the instruction that made it may still be replayed or trap. The
firmware's interrupt handlers and the operating system share two linked queues; the
file system keeps the same sector in a window, in file buffers and on the disk, and the power
may fail between any two accesses. `PROJECT.json` lists these hazards with their
lines and the properties that watch them.

## 2. Modules

| Module | Content |
|---|---|
| `TaggedMemory` | what the tag cache promises the L2: a memory whose blocks carry their tags |
| `TagCache` | the tag cache with its arrays, the L2's outer side, the FinishUnit and memory |
| `TagCacheControl` | proofs: types, control and ways; the data invariant, with the request and its lookup |
| `TagCacheEvict`, `TagCacheData` | proofs: the tags at rest and the victim; refill, grant, coherence and refinement |
| `Pcr`, `PcrProofs` | PCR control, the cores' side of it, the copies of registers, the host |
| `TagPipeline`, `TagPipelineProofs` | the tags in the five stages, against the instructions in their order |
| `Sbi`, `SbiProofs` | the firmware: interrupts, timers, boot, the message queues |
| `FatTable`, `FatTableProofs` | the bottom of the FAT file system: window, FAT, cluster chains |
| `FatVolume`, `FatFs` | directory tables; the calls |
| `FileStore` | what it promises an application: a tree of files, open files with a position |
| `SdCard`, `SdCardProofs` | the card driver with the card |
| `BlockStore` | what it promises the file system: an array of sectors with a sync |
| `MC...` | instances for TLC |

In the hardware models **one step of `Next` is one clock cycle**. A Chisel
register is a variable with the register's name, a wire is an operator over the
current state, and the blocks of the code (`when`s that drive one group of
registers) are conjuncts of the step. Where two assignments to a register meet in
a cycle, the last one in the code wins, and the model's IF has that order. In
`FatFs` and `SdCard`, which are sequential, **one step is one call**; functions
of the code are operators from state to state, and errors and early returns are
passed on as the code does. In `Sbi` one step is one call or one interrupt, which run
with interrupts off. Inputs that a component cannot foresee are chosen with `\E`.
Definitions named `X_Something` and marked *Mutant* are deliberately wrong
variants of `X`; no specification uses them, they record which mistake each
property would reveal.

### 2.1 `TagCache`

| Model | Code |
|---|---|
| `Request`, `Collect`, `Receive`, `CmdSent` | the request receiver, the collection of a write's beats, the read data, `cmd_sent` (391-432, 472-495, 533-536) |
| `tl_out_acquire_valid`, `Burst` | the memory port (499-542) |
| `SIdle` ... `SBusy`, `Fsm` | the tag state machine, one operator per state (629-733); `s_dummy_wait` is unreachable and left out |
| `WriteBack`, `Refill`, `GrantHandler` | buffers of the victim, of the refill and of the grant |
| `MetadataArray`, `DataArray` | the arrays with their latencies and the reset sweep (739-829) |
| `Memory` | the converter as the tracker sees it: one burst at a time, any delay |
| `Moves`, `Transactors`, `OuterArbiter`, `FinishUnit` | the L2: acquire trackers, the write-back unit that an acquire waits for, their arbiter, the finish queue |

A block address is the record `[tag, idx, row, slot]`; blocks that agree on tag
and idx share a line of the tag cache. Lines of DRAM and of BRAM live in two tag
partitions (`tagAddrConv`). The partition's base and the shifts are abstracted
to the pair of partition and line; that the shifts are injective is not checked
here. Address translation by the memory map is the identity on the requested
blocks. Each beat carries a data cell and a tag cell `<<value, beat>>`, so beats
that are lost, stale, doubled or swapped are visible. Registers that are dead
when a request is accepted are set to `Junk` then, so that use of old content is
visible as well, and fewer states are distinct.

`golden` (last acknowledged payload) and `done` (the transaction completed in
this cycle) are history variables. With them the refinement mapping `TM` is
direct: `mem <- golden`, `pend <-` the open requests.

Environment, from the code: no two transactions of the L2 are for one block
(`cache.scala` 937-940); an acquire tracker that replaces a dirty block sends its
acquire only after the write-back unit has its acknowledgement (915-921); an
offered acquire is held until it is taken (locking arbiters); a finish is always
taken. The L2 is the last level cache and its writes are releases. PutBlock
acquires, which the tag cache accepts but which this L2 does not send, are
included in one run by `AcqKinds`.

### 2.2 `Pcr`

| Model | Code |
|---|---|
| `chosen`, `out_ready`, `fire` | the round-robin arbiter and its condition (`pcr.scala` 113-118) |
| `ReadReg`, `wdata`, `Registers` | address decoding, CSR commands, the registers (120-160, 192-272) |
| `update_reg`, `update_host`, `update_clock` | the update bus (163-263) |
| `Clock`, `SoftReset`, `Interrupts` | 171-190, 266-275 |
| `WaitResp`, `Fromhost`, `Timer` | the core's side (`csr.scala` 372-385, 444-445, 500-517) |
| `NextAccess`, `Pipeline` | an access in write back is finished, or replayed and held in decode while `csr_stall` (`rocket.scala` 380-390, 459-509) |
| `TagCheckUnit` | the copy of the tag control register, and the debug trap |
| `Spaces` | the maps in the tag cache and in every data cache: collected, in effect |
| `Host` | a host that takes a word when it likes and answers every word, in any order; that of the test bench (`host_behav.sv` 20) takes none |

A register's value is the set of its bits: CSRRS is union, CSRRC difference. Two
details of the code are kept as they are: core 0 takes the clock's data in
every cycle without an update, because of the precedence of `&&` and `||` at
`csr.scala` 506-507; and `!x === id` at line 500 compares a negated number.
Registers without a reset value (`reg_int_en`, `mtimecmp`, the bases of disabled
map sections) start with any value; map registers of index 0 stand for those
with a reset value and those of higher index for those without. A soft reset
resets the cores but not PCR control, the tag check unit or the maps
(`power_on_reset`, `tile.scala` 29-30). Privilege checks are left out: the
accesses are those that pass them. Debug traps happen in any cycle in which the
debug bit is set. What the cores access is chosen once, by the variable `prog`,
among programs that each concern one group of registers.

`posted`, `call`, `unwritten` and `trapped` are history variables.

### 2.3 `TagPipeline`

The stages `ex`, `mem` and `wb` carry an instruction (operation, registers, and
for a load the tag in memory), the tags of its operands and of its result; `trf`
is the tag register file, `sboard` the scoreboard, `div` the divider, `missed` and
`coming` the loads that the data cache will answer late. `arch` is the reference:
the tags that the retired instructions left, one after the other. One step is one
cycle of `rocket.scala`: `ctrl_stalld`, bypass selection at decode, the operands
and the checks of execute, `killm_common`, replay and traps in write-back, the two
write ports of the register file. The environment may miss, refuse or fault any
access, redirect, interrupt, and finish a division or a late load when it likes,
where the code allows it. Both jump checks are on; the trap that switches them
off is part of `Pcr`. FPU and RoCC are left out.

### 2.4 `Sbi`

One action per call of `mtrap.c`, per entry of `mentry.S` and per step of
`minit.c`; `pc[h]` says where hart `h` is in its start or whether it runs the operating
system. The two message queues are linked through `sbi_private_data` as in the
code; the properties say that a link structure *is* a list by asking for a
bijection from `1 .. n` onto its messages that follows the links, which needs no
recursion. `where`, `got`, `asked` and `lost` are history variables.

Read from the code and kept: `num_harts` is 1 (`minit.c` 8), so that the other harts
of a larger chip end parked in `wfi`, and the operating system runs on hart 0; a
character that arrives before the next READ is queued ends in a panic (`mtrap.c`
125). The CSR behind `send_ipi` is commented out (`csr.scala` 185), so its access is an
illegal instruction in machine mode, and `mcall_send_ipi` to hart 0 panics (`mtrap.c`
330, 428-431); to another hart it is refused. The instance has two harts: the one that
runs and one that must stay parked.

### 2.5 `FatTable`, `FatVolume` and `FatFs`

A function of `ff.c` takes the machine (disk, FATFS object, the fault that will
strike) and returns it with a result; `Then` and `After` thread results the way
`if (res == FR_OK)` does. Sectors hold what the code reads from them: FAT
entries, directory entries or bytes. The loops over clusters (`remove_chain`, the
search in `create_chain`) are a round, which is an operator, and `Loop`, which
repeats it while it says so; those over directories, of which nothing is proved,
are recursive operators. `seen` is a history variable: the tree and the handles as the
application sees them through the buffers, from which the mapping to `FileStore` is read.

Every call that `ffconf.h` builds is an action, `f_mount` with and without a file system
object and `f_chdrive` included. A path names no drive, so that on drive 1, which has no
volume, a call by name is refused. The drive is always ready and writable and has a
FAT32 volume, and volumes are far below the limits of 65535 entries in a directory and
of 4 GB in a file.

The application keeps the rules that the code leaves to it: with `_FS_LOCK` 0 a
file open for writing is opened once and an open object is not removed or renamed
(`ffconf.h` 217-226); a directory is not moved into itself, nor removed while it
is read; a volume is remounted or unmounted only with nothing open; a name is not
renamed to itself. `f_mount` does not flush the window, so a refused call followed by a
remount loses a cluster: `NothingLost` is therefore claimed for the run without
remounts. `f_rename` is left out of the run with faults, since the code itself
concedes that it may leave a cross-linked object then (`ff.c` 3774).

### 2.6 `SdCard`

One step is one call of `diskio.c`; a call meets at most one fault, at any of its
exchanges: an error response to any command, a wrong echo of CMD8, a bad token, a
rejected block, a card that is pulled, missing, stays busy, or stays busy where the
code waits without a bound. The card is environment: its type, mode, the block it is
still programming. Kept from the code:

* a card of version 1 is accepted only when the last try succeeds (line 343 has `||`
  where the other branch has `&&`);
* `Stat` stays initialised after a failed re-initialisation while the SPI is disabled,
  and the next call then waits for ever (353, `hung`);
* the waits after a block (237-238) have no bound, and a card that stays busy there
  holds the driver for ever (`hung` too);
* an absent card reads as ready;
* the answer to CMD12 is not looked at (400): a read may return OK while its transfer
  is still open on the card. `OpenTransferRefused` is about what happens next.

The loops of the code (polling, the blocks of a transfer) are `Loop`, a recursive
function of the number of rounds that are left: apart from the waits named above each
loop has a bound, its counter of tries or its count of blocks.

## 3. Runs

| Run | Checks | Distinct states |
|---|---|---|
| `tagcache` | `Coherent`, `AckAccepted`, `BurstDiscipline`, `ControlInv`, `ImplementsTaggedMemory` | 256,254 |
| `tagcache_ways` | `TypeOK`, `OneWayPerLine` | 79,533 |
| `tagcache_live` | `EveryRequestAnswered` | 27,346 |
| `pcr` | `TypeOK`, `CopiesAgree`, `TagCtrlAgrees`, `NoWordLost`, `TimerNotEarly`, `CommitTakesRegisters` | 85,784 |
| `pcr_replay` | `AccessCompletes`: violated, see 6 | |
| `pcr_call` | `PollGetsAnswer`: violated, see 6 | |
| `tagpipeline` | `OperandTagsRight`, `TagTrapExact`, `FileRight`, `ScoreboardExact` | 67,357 |
| `sbi` | `ResponseSignalled`, `QueuesSound`, `CharsInOrder`, `TimerKept`, `BootOrder`, `ResponseReceived`, `CharDelivered` | 170,997 |
| `fatfs_file` | `VolumeSound`, `NothingLost`, `ImplementsFileStore` | 70,748 |
| `fatfs_tree` | `VolumeSound`, `CwdNamed`, `ListingComplete`, `ImplementsFileStore` | 31,020 |
| `fatfs_fault` | `Durable`, `VolumeSound`, `ClosedIsSaved` | 80,966 |
| `sdcard` | `BusFree`, `AddressesRight`, `InitialisedIsAwake`, `OpenTransferRefused`, `ImplementsBlockStore` | 9,952 |

Deadlock is checked except in `sbi` (panic and shutdown stop a hart) and `sdcard`
(the driver may hang, see 2.6); none is found.

**Bounds.** `tagcache` has both acquire trackers of the configuration, two beats
(the least with a first and a last one; the code has four), one set with one
way so that every second line evicts, a row with two blocks so that a write may
hit its neighbour, and a line in each partition. The trackers are symmetric;
only safety is checked with symmetry. `tagcache_ways` has two ways and three
lines, so that victims are really chosen, and every power-up content of the
metadata. `tagcache_live` has the instance of `tagcache` with one payload:
control does not depend on data. The PCR runs have two cores, which is enough
for every collision on the port and on the bus, and registers of one bit. `Div`,
`ResetCycles` and `MaxTime` stand for 64, 20 and the end of a 70-bit counter;
`wall_clock` stops at its bound, named in the guard of `Clock`. `ResetCycles` is
2 because a core needs one cycle to be cleared. `tagpipeline` has two registers
beside `x0` and every class of instruction, in any order; loads to `x0` and user
tag bits are covered by the proof only. `sbi` has two harts, three
messages and two characters: a queue with a head, a tail and one in between, and an
overrun. The file system runs have three to four
clusters, so that the volume fills, sectors of two bytes or entries, so that
transfers start and end inside sectors, and five or six calls (`MaxCalls`):
enough to open, write past a cluster, seek, truncate or free, close and use the
freed clusters again. `Counts`, `Offsets` and `MaxSize` put transfers inside a
sector, across sectors and across clusters. Written data and directory clusters
are not mixed in the tree run. `fatfs_fault` lets each of the first `MaxIo` accesses
of a call fail, once; a failed `f_sync` and its repetition are within its five calls. The
two handles are symmetric. `sdcard` has three sectors, calls of at most two, so that a transfer may
run past its end into a third, a try counter of four bits that wraps as the code's does,
and cards that need one, two or four polls, the last too many. The contents of a sector
are symmetric, and states that differ only in the answer of the last call are one
(`VIEW`): no step looks at it, and the action properties read it in the step that gives
it.

**Fairness.** `tagcache_live`: the clock ticks; memory eventually takes an
offered beat and eventually answers an open burst (DRAM controllers do, and
nothing the tag cache does depends on when); the L2 eventually has the next
beat of a write in its buffer. No fairness is assumed of the tracker itself,
which is synchronous, nor of the choice between acquire and release: that
releases do not starve acquires follows from the write-back unit serving the
acquires. `pcr_replay`: an access that is not held in decode is eventually
executed, and the host eventually takes a word it is offered (that of the test bench,
which ends the simulation instead, never does; the access hangs all the same). `sbi`: while
the software interrupt of hart 0 is up, the operating system takes it and asks for the
response (that is what its handler does); and a device interrupt that is raised is
served. Weak fairness is enough: unless the hart stops, nothing but these steps ends
either condition.

## 4. What is proved

For every value of the constants that satisfies the assumptions in the modules.
These are: at least two beats, non-empty sets of ways, tags and blocks, and
markers (`NoId`, `Junk`) that are no values; at least one core and a reset of at
least two cycles; finite sets of harts and messages with hart 0; any set of
registers with `x0` and any program; a sector of at least one byte, at least one
try, and otherwise any sizes, cards and places at which a call of the card driver
meets its fault; a volume with at least one cluster, one or two FATs, and markers
(`EOC`, `Bad`) above every cluster and sector number.

| Theorem | Says |
|---|---|
| `TypeCorrect` | types; every counter stays in its buffer, at most one finish is queued |
| `ControlCorrect` | `ControlInv`, if the L2 sends no acquire with data |
| `BurstsAreWhole`, `AcksAreAccepted` | `BurstDiscipline`, `AckAccepted`, under the same assumption |
| `WaysStayRight`, `LinesAreUnique` | `WayInv`, `OneWayPerLine`, for every power-up content |
| `PathsStayRight`, `TagsStayCoherent` | `PathInv`, `Coherent`, if the L2 sends no acquire with data |
| `CacheIsTaggedMemory` | `ImplementsTaggedMemory`: the tag cache refines `TaggedMemory`, under the same assumption |
| `PcrTypeCorrect`, `HostGetsEveryWord` | `TypeOK`, `NoWordLost` |
| `MapsAgree`, `CommitsTakeRegisters` | `CopiesAgree`, `CommitTakesRegisters` |
| `TagControlAgrees`, `TimersAreNotEarly` | `TagCtrlAgrees`, `TimerNotEarly` |
| `OperandTagsAreRight`, `TagTrapsAreExact`, `FileIsRight`, `ScoreboardIsExact` | the four properties of `TagPipeline`, for every program |
| `ResponseSignalledHolds`, `TimerKeptHolds`, `BootOrderHolds` | the properties of `Sbi` of the same names, for any set of harts and messages |
| `QueuesAreSound`, `CharsAreInOrder` | `QueuesSound`, `CharsInOrder`, for any number of messages and characters |
| `BusFreed`, `AddressedRight`, `InitialisedAwake` | `BusFree`, `AddressesRight`, `InitialisedIsAwake`, for any number of sectors, any card and any one fault per call |
| `OpenRefused` | `OpenTransferRefused`, likewise |
| `SdRefinement` | `ImplementsBlockStore`: the calls of `diskio.c` refine `BlockStore`, for transfers of any length |
| `Synced` | when `sync_fs` returns OK, the disk holds what the file system sees, FSInfo apart; an error of the disk is reported |
| `ChainRemoved`, `ChainExtended` | what `remove_chain` and `create_chain` do to the table and to the number of free clusters, for every disk error |
| `RemoveSpares`, `CreateSpares` | outside the FAT and FSInfo both write only the sector in the window, with what it holds, also when the power is lost |
| `RemoveSound`, `CreateSound` | both keep the table sound: links go to clusters in use, no two to the same, none in a circle |
| `ChainGrows`, `OthersStay` | the chain that is extended grows by one free cluster; chains apart from the one that is extended or removed stay |

**Control of the tag cache.** Neither `BurstDiscipline` nor `AckAccepted` is
inductive: whether a beat belongs to the open burst depends on which half of
the tracker opened it, on three counters that are never reset, and on what the
client has still to send. `ControlInv` has four parts: `L2Inv` (an acquire is a
single beat and presented until taken), `DataInv` (while `acq_data_process`
holds, the port carries exactly the beats the data transfer has counted),
`FsmInv` (afterwards it carries what the state of the tag state machine and its
counter say, and otherwise nothing) and `AckInv` (until a write is acknowledged its client
waits). The proof follows the phases of a request: transfer of the data (read
command, read data, write beats, response), then the states that use the port
for tags, the states that leave it alone, the grant, and idle. The assumption
on acquires is needed: for an acquire with data the code sets `is_read` too
(line 395), and `DataInv` fails.

**Ways.** `OneWayPerLine` depends on the way latched at lookup. `WayInv` says
that from the lookup to the metadata write the latched way is the only one that
may hold the request's line, and that the sets already swept have no duplicate.

**Data of the tag cache.** Between a request and its acknowledgement a word rests
in a dozen buffers, and two of them (`mem_tag_data_write`, `refill_data`) follow
another one a cycle late. `PathInv` says for every phase which rows of which
buffer are right, on top of `ControlInv` (whose beat is on the port) and `WayInv`
(which way is meant). Its ten parts follow the word: `OwnerInv` (the client that is
served waits for the block being worked on), `BlockInv` (the block in memory),
`CollectInv` (the tags that a write brings), `ReadInv` (the data that a read
fetches), `LookupInv` (what the lookup found is still so), `TagInv` (the cached
entry, and the tag partition where no dirty line stands for it), `EvictInv` and
`WriteBackInv` (the victim from the data array to the partition), `RefillInv` (the
line from the partition to the data array) and `GrantInv` (the beats that were
granted, and those to come). The counters say how far each copy has got; the late
buffers are right below the counter, and in their last row only once the counter
has moved. That is where at least two beats are needed. The proof has one lemma
per part, each resting on lemmas that say what a cycle does to one group of
registers.

**Refinement.** `CacheIsTaggedMemory` maps every cycle to a step of
`TaggedMemory`. A cycle without a last grant may only open requests, each for a
block that no other open request is for, and so is a step without completion
or a stutter. In the cycle of the last grant the request of `tag_out` completes:
for a write `golden` takes its payload, for a read `GrantInv` says that
every beat, the last one included, carries the data and the tags of `golden`.
Several requests may open in the cycle in which one completes, which the abstract
step allows as well.

**PCRs.** `NoWordLost` is inductive with the types. `PcrInv` joins it with
`CopiesAgree`, `TagCtrlAgrees` and `TimerNotEarly`. The timer part needs that
`\div` is monotonic, which is proved from its definition, and that the arbiter
chooses a requester, which needs the least element of a set of numbers and is
taken from the well-foundedness of the naturals.

**Pipeline.** `PipeInv` says of each stage that the operand tags are those of
`arch` after the instructions ahead of it, but only of a stage that is not
condemned: once an instruction ahead traps or is replayed, what follows it may
hold anything, because it will be killed. Registers that are due from the divider
or the cache are exempt while the scoreboard holds them, and the scoreboard part
says that it holds exactly those.

**Firmware.** `ResponseSignalled`, `TimerKept` and `BootOrder` are inductive with the types
and a few facts on harts that are under way. For the queues `ListInv` asks for
an order of each queue (a bijection that follows the links), with head, size and
tail read from it; the list lemmas say what pushing, appending and popping do to
such an order. `CharsInOrder` also needs that the characters in the response queue
are sorted, older than the one in the receiver and younger than those delivered.

**Card driver.** The three invariants follow from `SdInv`, what holds between two
calls: the bus is free unless the driver hangs, a card that passes for initialised is
awake, and `CardType` fits a card that is awake. It is inductive only because every function of the driver keeps a contract
on the way, however an exchange in it goes wrong. `Keeps` is what every function
below the calls keeps: the variables of the driver, the empty FIFO, and by
`Settles` the sectors, of which only the block being programmed may still change.
`Commanded` and `Opened` say in which mode a command leaves the card. The argument
for `AddressesRight` is in `disk_initialize`: an SDHC card that is taken for one of
version 1 is never woken there, since it stays idle without the HCS bit, so a wrong
type meets no card that takes commands. `OpenRefused` follows from what a card with an
open transfer does with the command that a read or write starts with: it does not accept
it, so the call that succeeds has found the card ready (`ServedReady`). For the loops there is one rule each
(`PollRule`, `ReadRule`, `WriteRule`): what a round keeps holds after the loop. They
rest on an induction over the naturals for sets instead of operators
(`SetInduction`), which follows from the well-foundedness of the naturals.
`HasRead` and `HasWritten` are the invariants of the transfers: the blocks so far
are those of the sectors, and the sectors so far have the blocks. With them
each call maps to one step of `BlockStore`: a call that succeeds to `Read`, `Write`
or `Sync`, one that fails to `Fail`, with the length of what it has written as
witness.

**FAT.** These theorems are about operators: a function of `ff.c` called with any
machine of `Machines`, with a fault at any of its disk accesses. `Table` is the FAT
as the file system sees it, through the window. `Spares` says what no function may
do even when the power is lost: outside the FAT only the sector in the window is
written, with what the window holds. `Steps` adds that a function keeps the disk's
fault plan and, on a machine that is `Healthy` (the power stays on, and a clean
window is what its sector holds), that the window stays right and the sectors
outside the FAT look the same. `Struck` says that the fault has met this call, so
that an error is never reported without one. A chain is a function from `1 .. n` to
clusters, without repetition, that follows the links to an end mark; it needs no
recursion, and `ChainShort` bounds it by the number of clusters, which is why
`NFatEnt` rounds are enough. `Removing` is the invariant of `remove_chain`: after `i`
rounds the first `k` clusters of the chain are free and nothing else has changed;
`Searching` is that of the search: every cluster it has passed is in use, so that
"no free cluster" is said of a full volume only. `RemoveRule` and `SearchRule` carry such an
invariant through a loop, by the induction for sets (`SetInduction`) that the card
driver uses too. The number of free clusters is the cardinality of `FreeSet`, counted
one by one. `SoundTable` says that there is no circle by asking for a way out of every
set of clusters instead of a statement over paths; marking, linking and cutting keep
it. The hypotheses are those under which the calls use these functions: `VolumeSound`,
which the three runs check after every call, has among its parts that the window is
right and that the table is sound. `FatTable` is a module of its own because the
prover cannot use one with recursive operators.

**Only model-checked.** Liveness (`EveryRequestAnswered`, `ResponseReceived`,
`CharDelivered`), which is out of this prover's reach. The properties of `FatFs`:
what they say of directory trees (that a path names one entry, that every cluster
is on the chain of one object) is defined by recursion over the volume, and a proof
would be an induction over chains that every call rebuilds; the theorems on
`FatTable` are the steps of such a proof that concern the table. PutBlock
acquires, for which only `TypeOK` and `OneWayPerLine` are claimed.

## 5. Not modelled

* The inner side of the L2 with the coherence policy, the L1 caches, TLB and page
  table walker, the TileLink crossbars, the NASTI converters and the NASTI
  interconnect. `TagCache` and `TagPipeline` have what they see of them.
* Privilege levels, trap entry and return, and the plain CSRs of the CSR file.
* Pure functions: `tagAddrConv` and `addrFromTag` bit by bit (the latter carries the
  dirty bit until the mask of the partition cuts it), the translation of addresses by
  the maps.
* The second copy of the tag control register, in the data cache (`nbdcache.scala`
  796-804), which follows the update bus and which a debug trap does not clear.
* Details of timing that no property tells apart: after a soft reset the stages of the
  core drain for some cycles, where the model empties them at once; the converter
  accepts a beat in a few states in which `CanAccept` refuses it and in which the tag
  cache offers none (`tilelink.scala` 1614, 1634).
* In the firmware the emulation of instructions, page tables and the ELF loader;
  in the file system FAT12 and FAT16, partition tables and the rejection of volumes, the
  status of the drive, a second volume, time stamps, the characters of names and the options that `ffconf.h` switches off.
* The arithmetic of ALU, multiplier and FPU and the decode tables (data), the RoCC
  interface (not built), Chisel itself, the toolchain and simulators.

The modules cover a small share of the lines of the repository. Three quarters of
these are copies of Linux headers (99,838 lines) and matrices for a benchmark
(23,076), which contain no behaviour; most of the remaining 38,800 are software
floating point, instruction tests, assembler tables and encodings.

Spots that were met on the way and that no property covers, because the code
around them never leads there or because they concern what is left out: a
PutBlock acquire sets `is_read` (`tagcache.scala` 395); the registers of the I/O map
are updated in a loop over `nMemSections` (`pcr.scala` 243); a directory whose new
cluster cannot be cleaned keeps it (`ff.c` 1187); every hart mounts the volume
when it starts, also while hart 0 reads from it (`minit.c` 132).

## 6. Where the code and its comments or users disagree

* **A PCR access that is not ready never completes** (`pcr_replay`). `csr.scala`
  383 replays such an access ("pcr write but not ready"); the condition at 500
  also marks it as waiting for a response ("or waiting pcr response", 384).
  Since nothing was accepted, no response comes, and the stall keeps the replayed
  access in decode until a soft reset. One core that writes `ptohost` again
  before the host has taken the first word is enough. When line 500 leaves such
  an access alone, the model satisfies the property.
* **A poll returns an old answer** (`pcr_call`). The system calls of the
  benchmarks and of the proxy kernel poll with `swap_csr(mfromhost, 0)`
  (`riscv-tests/benchmarks/common/syscalls.c` 25-26, `riscv-pk/pk/mtrap.c`) and
  rely on the swap to clear the register. `csr.scala` 445 accepts a write only
  while the register is zero, so the first answer stays and the second
  poll returns it at once.

Smaller ones, kept in the models as the code has them: `f_getfree` stores the
count of a scan that failed (`ff.c` 3481); `f_sync` clears `FA__WRITTEN` before the
entry is on the disk, so that a repeated call does not write it (`ff.c` 2864):
`ClosedIsSaved` shows that it is still in the window then, but a loss of power can take
it; a write that is aborted leaves what it changed in the buffer of the file without
`FA__WRITTEN` (`ff.c` 2755-2756), so that `f_close` drops it; `mcall_send_ipi` writes a CSR
that the chip does not have (`mtrap.c` 330, `csr.scala` 185); and the lines of `diskio.c`
named in 2.6.
