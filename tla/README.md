# RV640 in TLA+

RV640 emulates a RISC-V machine (one hart, RAM, timer, interrupt controller,
UART) for Linux and, with the guest's RAM paged to disk, for DOS on an 8088.
The program is single-threaded; what makes it hard is state that is copied,
cached or raised on edges and read at another time: a page cache with
write-back, a one-line instruction cache, interrupt bits that a device sets and
the hart clears, firmware that shares the machine timer with its guest, and
error returns that are logged and then ignored; and, with no hardware to lean
on, instructions put together from shifts, masks and products of halves.

The modules translate the sources under `src/src`. Names are kept where TLA+
allows it (`_lookupPage`, `rv_setInterrupt`, `pindingIrq`). `PROJECT.json` maps
each definition to its lines. `CONFIG_RV64` is commented out in both CMake files
(`cmake/linux`, `cmake/dos`), so this commit builds RV32; the code for both word
sizes is modelled.

## The system and its parts

| Part | State | Operations | Talks to |
|---|---|---|---|
| `memory.c`, flat | one array | `mem_read`, `mem_write`, `mem_cmp` | called by the bus |
| `memory.c`, `CONFIG_DOS` | page frames (`addr`, `dirty`, `data`), LRU list, swap files | the same, and `_lookupPage`, `_storePage`, `_loadPage`, `_swapLruHead`, `mem_init`, `mem_destroy` | the DOS file calls |
| `bus.c` | device table, LR/SC reservation | `bus_register`, `bus_read`, `bus_write`, `bus_reservation...` | devices, hart, SBI |
| `cpu/rv*.{c,h}` | mode, pc, CSRs, `trap`, `irq`, `wfi`, instruction cache | `rv_run`, `_trap`, `_interrupt`, `_doTrap`, `_xret`, `_readCSR`, `_writeCSR`, `_fetch`, `_doLOAD`, `_doSTORE`, `_doAMO` | bus, SBI; devices set its `mip` bits |
| `cpu/rv_base.h`, `rv_cext.h`, `rv_instr.h` | none | the two decoders; what an instruction computes | |
| `dev/aclint.c` | `mtime`, `mtimecmp`, `pindingIrq`, `msip` | stores, `aclint_tick`, `aclint_setMtimecmp` | sets the hart's MTI and MSI |
| `dev/plic.c` | priorities, pending, per context enable, threshold, claim, claims in service | stores, claim, completion, `plic_interrupt` | sets the hart's SEI and MEI |
| `dev/ns16550a.c` | ring buffer, `ier`, `lcr` | register accesses, `ns16550_push` | PLIC |
| `sbi.c` | none of its own | ecall, interrupt and exception entry, `sbi_startHart` | hart's CSRs, ACLINT |
| `device_tree.c` | phandle counter, node under construction | `dt_init`, `dt_add...`, `dt_finish` | libfdt |
| `main.c`, `ui.c` | the loop; the terminal | options, creation in order, loading of the image, `_vmDestroy`; then run 100 instructions, tick, sleep while idle, poll the keyboard | all of the above |

Hard behaviours, each listed at its line under `hazards` in `PROJECT.json`:
transfers to the swap files that fall short and are used all the same; eviction
between the chunks of one access; pointer surgery on the LRU list; the
edge-triggered timer against a hart that clears its own pending bit; interrupts
that are looked for only when a flag is set; exceptions and interrupts with
the same cause number; keys that arrive while the UART's interrupt is in
service or before the guest has set anything up; unsigned differences and sums
at the ends of their range; a trap in the middle of an instruction that goes on;
views of one register through another (`sstatus`, `sie`, `sip`); immediates
scattered over an instruction in a different way in each format; and, at start,
any call failing while the parts before it are there and those after are not.

## Modules

Five groups: RAM (FlatMemory to LruListProofs), start-up (SwapLayout to
BootProofs), hart with timer and firmware (RvHart to MachineProofs), console
(Plic to ConsoleProofs), and the instructions (Bus to InstrProofs). A component's
theorems are in a module of their own that extends it, named `...Proofs`.

* **FlatMemory** is the abstract specification of RAM: an array of bytes. It is
  also what `memory.c` is without `CONFIG_DOS`.
* **PagedMemory** is the DOS build. A call runs chunk by chunk, one action per
  turn of the loop of `mem_read`, `mem_write` or `mem_cmp`, each with the whole
  of `_lookupPage`: the hit or the eviction, the write-back of a dirty page, the
  load. Every transfer may stop after any number of bytes (a failed seek is a
  transfer of none); as in the code the frame then keeps its old address and
  is used all the same. `mem_destroy` stores frame by frame. The list is
  represented by each frame's position; `mem` (what a flat memory would hold)
  and `lost` (the pages that a failed transfer involved) are history. The
  refinement mapping to FlatMemory is at the end of the module: a write takes
  effect at its call, a read when its loop is over.
  **PagedMemoryProofs** has the theorems on one memory, **PagedRefinesProofs**
  the refinement.
* **LruList** is the list at the level of `next`, `prev` and `lruListHead`, with
  the walk of `_lookupPage` one frame per step. `age` is history. It justifies
  the positions that PagedMemory uses. **LruListProofs** has the theorems.
* **SwapLayout** is the loop of `mem_init` that derives shift and mask from the
  size of a swap file, and the split of an address that uses them.
* **DeviceTree** is `device_tree.c`: the phandles, and what in each node refers
  to the board or to another node.
* **Boot** composes the two with `main`, from its first line to the loop, in
  both builds: the options, `mem_init` one frame and one swap file at a time,
  the devices, the tree, the image chunk by chunk, and `_vmDestroy`. Every call
  that the code tests for failure may fail, and so may the seek, the tell and the
  opens of the swap files whose failure it does not see (`missed`). `held` are
  the buffers and the file of `_buildDeviceTree` and the loaders. `disk` is the
  swap files as `mem_init` makes them: what the tree, the image and the guest
  write afterwards goes through the frames and is PagedMemory's. Frames and handles keep what they
  were (`"freed"`, `"closed"`, or the zero of a `static`), because `mem_destroy`
  leaves pointers and handles alone and runs twice after a failed `mem_init`;
  `strays` collects what is released without being held. **BootProofs** has
  the theorems on start-up and on the swap files.
* **RvHart** has the trap and interrupt logic as operators from the machine's
  record to the machine's record, as the C functions mutate `*self`. Bit fields
  are sets of bit numbers. The six CSR instructions are there with `_readCSR`
  and `_writeCSR` for every CSR: the privilege and read-only checks, the counter
  enables, and the masks of the supervisor views. **Aclint** and **Sbi** build on it the same way, and
  **Machine** is the state machine: `main`'s loop around `rv_run`, the guest
  being any program over a set of instructions. The C asserts of `sbi.c` are
  collected in the field `failed`. Whether the SBI is there (`--no-sbi`) is
  chosen at the start. **MCMachine** has the guests of the runs, and
  **MachineProofs** the theorems.
* **Plic** and **Ns16550a** build on RvHart too, and **Console** is their state
  machine: keys, and a guest's driver one device access at a time. The guest is
  not part of the repository; its driver is modelled on what Linux's PLIC and
  8250 drivers do, and is marked external in the map. **ConsoleProofs** has
  the theorems.
* **Bus** is the registration, the range check and the reservation, with
  addresses that wrap. **MemAccess** is the hart in front of it: `_fetch` with
  its cached line, and loads, stores, AMOs, LR, SC, CBO.ZERO and fences as the
  sequences of `_readMem`, `_writeMem` and `_writeReg` that they are, each of
  which looks at the trap raised before it. **MCMemAccess** gives it a board,
  and **MemAccessProofs** has the theorems.
* **Decode** is both decoders; an instruction is the set of its bits. **Alu** is
  what the integer instructions compute on words of `XLEN` bits: 32 in this build,
  with the multiplications of `..._RV32`; 64 with `CONFIG_RV64`, which also has
  the products of halves and the instructions on halves. `&`, `|` and `^` are intersection, union
  and symmetric difference of the sets of bits of their operands. **Instr** gives
  them words and operands and holds the reference: the formats, the expansion of
  every two-byte instruction, exact products and quotients on integers.
  **InstrProofs** has the theorems about the arithmetic.

## Runs

| Run | Shows |
|---|---|
| `paged_fail` | Two frames, three pages, transfers that may fail: `Containment` (a page no failed transfer involved reads as from a flat memory), `DestroyFlushes` (and is in the swap files after `mem_destroy`), `AnswersRight` (reads and compares return the right bytes). |
| `paged_refines` | `ImplementsFlat`: without failures the paged memory implements FlatMemory, with accesses over three pages and only two frames. |
| `lru_list` | Five frames: the pointers thread all frames in order of use in both directions, the walk passes none by, evicts only the least recently used, and ends. |
| `boot` | `main` with any call failing, both builds, 1 to 8 swap files, swap files left from earlier runs, images from empty to larger than RAM, text offsets in, at the end of and beyond it. `PageInSwap` and `PagesApart` (every page has a place in an open file, and its own); `Released` (whatever the way out, RAM and swap files are released and the terminal is restored, nothing else stays but the three leaks under Findings, and nothing is released twice once `mem_init` has succeeded); `SwapFilesWhole` (a `mem_init` that returns true leaves whole swap files with what was in them, unless a call failed that it does not check); `TreeRight` (the hart starts with a tree that describes the board and is intact unless the image reaches up to it). |
| `swap_layout_any` | Violation: see Findings. |
| `guests` | A kernel on the SBI that writes every interrupt bit it can reach, faults, calls, returns to U mode and to itself while the timer ticks and the console interrupts; and a program in M, S and U mode without the SBI. `SbiAssertsHold`, `UndelegatedOnly`, `SbiTransparent`, `TrapReturns`, and `Confined` (below machine mode no instruction changes what belongs to it). |
| `sbi_timer` | Deadlines in the past, the future and "never", set through the SBI and behind its back, with and without WFI: `PendingNoticed`, `TimerNotLost`, `IdleNotPast`, and `TimerFires` (liveness). |
| `sbi_probe` | Violation: see Findings. |
| `console` | Keys between any two accesses of a driver that is set up in any order and may mask its interrupt again, in both PLIC contexts: `RingIsFifo`, `ClaimCurrent`, `DeliveryNotLost`, `UnreadSignalled`, and `KeysRead` (liveness). |
| `mem_access` | Any sequence of fetches, loads, stores, atomics and fences of one and two halfwords in and around the devices, below the top of the address space: `AllOrNothing` (an instruction that traps has done nothing), `ScPaired`, `FetchesMemory`. |
| `access_wraps` | Violation: see Findings. The same board with every address. |
| `instr` | `DecodesRight`, `ProductsRight`, `DivisionsRight`, `ShiftsRight`, `OrderRight`: the decoders and the arithmetic against the RISC-V specification. |

The longest run (`guests`) takes about four minutes, `boot` and `mem_access`
under one.

### Bounds

Two frames and three pages are the smallest paged memory in which an access
evicts a page it has used itself; a third value of a byte would add nothing,
since bytes are only copied and compared. The runs have pages of one byte, so
that an access of several bytes crosses a page at each; accesses that begin inside
a page are in the theorems, `PagedAnswersRight` and `PagedImplementsFlat`, which
are about every page size. Five frames let the list's head,
its tail, their neighbours and a middle frame be different ones. In Boot a page is 2 bytes and RAM 8 or 16 pages; only ratios matter to
the shift. Two frames are enough for an allocation to fail before, between and
after. Old swap files are missing, less than a page, a page and whole. `MaxMissed`
is one unseen failure in a start, at any file and call. The buffer has 4 bytes and the tree 3: images of 0 to 20 bytes end inside
a buffer, at its end, below the tree, in it, at the end of the smallest RAM and
behind it; the text offsets put them at the start of RAM, inside it, at its end,
and, with 66 and an address of 6 bits, where only the truncation brings them back.
Two instruction addresses (`NPC`) tell "the same instruction" from "the next";
the clock stops at `MaxTime`, past every deadline that is armed. In `guests`
the interrupts that matter are those the guest can enable, so one tick per
instruction and a clock of three values are enough for the timer to come at any
moment. In `sbi_timer` `cyclesPerStep` and `TicksPerUs` are 2, so that rounding
happens, and `WordMax` is beyond `MaxTime`: the timer's properties say
themselves (`late`) that they hold until the clock reaches `CPU_UINT_MAX`, which
in this RV32 build is after about seven minutes of guest time; from then on the
property fails, and that is not the subject of a run. A ring buffer of three wraps
at every fill level. The board of MCMemAccess has two adjacent devices and RAM registered first;
`Reach` stops below the address from which an access wraps, except in
`access_wraps`, where it is the last address. The line has three
halfwords in six of RAM: hits, misses, words that straddle the line's end and
the end of RAM where no line fits. In `instr` every two-byte word is tried for
both builds, and every opcode with up to two of the other 25 bits: each bit of
an immediate is moved by itself, so one bit shows where it goes and two show
that they do not meet. With `XLEN` at 8 all pairs of words are tried; what is
checked of them is proved for every length (below).

### Fairness

* `LruList`: weak fairness of the walk's steps; it is a loop of one function.
* `Machine`: weak fairness of `main`'s loop, which never blocks, and strong
  fairness of an instruction that does not trap. The second is an assumption on
  the guest and it is needed: after a trap `rv_run` executes an instruction
  before it looks for interrupts again, so a guest that traps on every one is
  never interrupted.
* `Console`: weak fairness of taking a due interrupt and of each step of the
  handler, since `rv_run` is called for ever; and of the guest, that it does not
  keep its interrupts off or the divisor latch on for ever and has only so much
  to transmit. Nothing is assumed of the keyboard.

`CHECK_DEADLOCK` is off for PagedMemory, which ends after `mem_destroy`, and for
Boot, where `main` returns.

## Proofs

TLAPS checks all of these for every value of the constants that satisfies the
named assumptions, which TLC evaluates in every run. In each module the argument
is the same: an inductive invariant, a lemma per operator on what it preserves,
a step per action, and the theorems from there.

**RAM** (`PagedMemoryProofs`, `PagedRefinesProofs`): every number of frames (at
least two) and pages (at least as many), every page size, access size and byte
set, with and without failing transfers (`PagedAssumption`).

* `PagedTypeCorrect`: types, and that a call in progress stays inside RAM.
* `PagedContainment`, `PagedDestroyFlushes`. `Containment` alone is not
  inductive: an eviction drops a clean frame, so one must know that it agrees
  with the swap file, and that no second frame bears the same page. `PagedInv`
  adds, for the pages that are not lost: at most one frame bears a page
  (`BorneOnce`), that frame is right (`FrameRight`), a clean frame agrees with
  swap (`CleanRight`), a page in no frame is right in swap (`SwapRight`), and
  what `mem_destroy` has stored is right (`StoredRight`). `MissLooked` says what
  an eviction with two possibly short transfers leaves behind,
  `UseFrameCoherent` that any use of the frame found preserves coherence.
* `PagedAnswersRight`. The property is about calls that are over; `AnswerInv`
  is about those that are not: the bytes behind the loop are right, page and
  offset are where the next byte is, a comparison that left its loop early met a
  difference.
* `PagedImplementsFlat`: `IOMayFail = FALSE => (PagedSpec => ImplementsFlat)`.
  `RefinesInv` adds that nothing is lost. A chunk is a stutter of the flat
  memory because a write's remaining bytes are already in its mapping
  (`MemData`); the call is the flat write.

**LRU list** (`LruListProofs`): every number of frames from two on
(`LruAssumption`; with one frame `_swapLruHead` would make it its own successor).

* `LruListThreaded`, `LruWalkMissesNone`: inductive together with the types;
  `SwapLruHeadThreads` is the pointer surgery.
* `LruEvictsOldest`: the action property `EvictsLru`.

**Start-up** (`BootProofs`): every number of frames, page size, image size,
text offset, buffer and tree size, 1, 2, 4 or 8 swap files, and every set of RAM sizes that
are a whole number of pages for each file, up to 2^30 bytes, the largest that
`main.c:255` accepts (`SwapAssumption`, `BootAssumption`).

* `SwapPagesApart`, `SwapPagesInside`. `SwapOK` is the loop's invariant:
  `filePosMask + 1 = 2^fileNoShift` and `n * 2^fileNoShift` is the size of a
  file. No two pages share a place for any size; that each lies in an open file
  needs sizes that are powers of two, a hypothesis of the theorem, since
  `swap_layout_any` refutes it for others.
* `BootReleases`. `BootInv` adds which handles are set at which step
  (`HandlesOK`) and that nothing is released before `main` is on its way out
  (`NoneReleased`): without it a second `mem_destroy` could not be told from the
  first. `HeldInv` says what the tree's and the loaders' code holds at each step.
* `BootSwapWhole`. `FilesInv` follows the loop over the swap files: those before
  `k` are open and large enough (`AllDone`), file `k` is as far as the loop is
  (`LoopOK`), and whatever was lost has one of its reasons (`LostOK`).
* `BootTreeRight`. `TreeInv` adds what is on the bus and in the tree after each
  call of `_buildDeviceTree`, and that the tree is whole exactly as long as the
  image has not reached it.

**Hart, timer and SBI** (`MachineProofs`): every guest program over well-formed
instructions (`GuestAssumption`: operands in the range of their registers),
every clock width, length of a round and idle limit.

* `MachineTyped`, `InterruptsNoticed` and `SbiEnteredForCallsAndTimer` for every
  such guest; `SbiNeverAsserts` if it makes only the calls that the SBI
  implements (`KnownCalls`; for others see Findings); `TimerNeverLost` if it
  runs on the SBI (`DOMAIN Instr = {TRUE}`; on a bare hart the handler is the
  guest's own).
* The invariant is `Good(m, late)`, on the machine's record, because `rv_run`
  is a chain of calls that each change it: each operator (`rv_setInterrupt`,
  `_trap`, `_doTrap`, `_xret`, `_writeCSR`, the SBI's handlers) has a lemma that
  it preserves `Good`. `SbiOK` is why the SBI's asserts hold: below machine
  mode a guest cannot get at the delegation registers, nor at a machine interrupt
  enable other than the timer's. `TimerOK` ties `pindingIrq` to the clock, and to
  `mip` or the trap that is being taken.
* `SbiInvisible`, `TrapsReturn`: each follows a trap and its return through
  both operators from a state that satisfies the invariant.
* `IdleStopsInTime` and `GuestConfined`: the action properties.

**Console** (`ConsoleProofs`): every size of the ring buffer and alphabet, one
to three interrupt numbers (`PlicAssumption`), both contexts.

* `ConsoleTyped`, `RingBufferIsQueue`, `ClaimsAreCurrent`,
  `InterruptsDelivered`, `CharactersSignalled`. The properties are inductive
  only together: whether a character is signalled depends on what is claimed,
  and delivery on what the claim register shows. `ConsoleInv` adds that the
  handler runs in the guest's mode with its interrupt delegated (`HartOK`) and
  that the divisor latch is off while it reads (`UartOK`).

**Accesses** (`MemAccessProofs`): every board (`BusAssumption`), line size and
set of access sizes.

* `FetchCorrect` and `InstructionsAtomic`, for all addresses. `AccessInv` adds
  that the line in the cache was loaded from its own address after the last
  fence (`LineOK`).
* `OneScForEachLr` (an action property), with `NoWrap`: the guest uses no address
  from which an access wraps. `_includes`, which also compares a store with the
  reservation, is not a range check beyond that (Findings). `ResOK` says that
  a valid reservation was made by an LR with nothing in between.

**Instructions** (`InstrProofs`): every length of a word that is a power of two
and at least 4 (`XLENAssumption`: `CPU_SHIFT_MASK` is one less than the length),
so the 32 of this build and the 64 of `CONFIG_RV64`. The operands are words (`Operands`), which is
inductive; the rest holds of any two words.

* `InstrProducts`: the school's multiplication of two digits by two, for any base
  (`SchoolbookRight`), and that negating a product of two words, `~hi + (lo == 0)`,
  negates its high word (`NegatedHighWord`).
* `InstrDivisions`: C's quotient is no larger than the dividend, so that it fits
  except in the one case that the code takes out (`CDivSize`), and a number that
  fits is read back after the casts (`RoundTrip`, `Extended`).
* `InstrShifts`: a word is the number of its bits (`NumberOfBits`), masks are
  remainders (`MaskLow`, `MaskHigh`), setting high bits is an addition (`OrHigh`),
  and so the sign that SRA puts in front, `~(((x & sign) >> s) - 1)`, rounds down
  (`SraRight`).
* `InstrOrder`: sign extension keeps the signed and the unsigned order
  (`ExtendedOrder`), and the size that a jump takes off is added again (`WBack`).

The powers of two and the number of a set of bits are recursive functions. What
they compute is proved by induction on sets (`UpTo`): a set of numbers that
contains 0 and each successor has no least counterexample. The library states
that with `WFMin`, which takes a set in the place of a predicate.

Only model-checked:

* liveness (`LookupReturns`, `TimerFires`, `KeysRead`), out of the prover's
  reach;
* `DecodesRight`: the instructions are finitely many, and TLC goes through all
  that `InstrSpec` gives the decoders. There is no constant to generalise; a
  proof would be the same cases again.

## Findings

* **Swap files of other sizes** (`swap_layout_any`). The shift is taken from the
  trailing zero bits of a file's size. For 24 MB in one file, which
  `--mem-size` accepts, the pages from 8 MB on belong to a file that was never
  opened.
* **Probe** (`sbi_probe`). The SBI reports IPI, RFENCE, SYSRESET and FWFT as
  present and has none of them: a call ends in `assert(false)`, or in a
  release build in "not supported".

* **Accesses that wrap** (`access_wraps`). The sum of `_includes` (`bus.c:16`)
  wraps, so an access that reaches the top of the address space (on RV32 a load at
  `0xFFFFFFFC`, or the fetch of a line there) passes the check of RAM and is
  made behind the end of RAM, against the asserts of `memory.c:352` and
  `memory.c:378`, in the place of an access fault.

Seen while modelling and not the subject of a run. None of these is excluded
from the models unless it says so.

* Hart: a delegated supervisor interrupt is taken in machine mode when `SIE` is
  clear (`cpu/rv.c:62`), and `SPP` cannot hold that mode, so that `TrapReturns`
  is restricted to traps that do not lower the privilege. A compressed
  instruction in the last two bytes of RAM cannot be fetched (`cpu/rv.c:99`).
* Instructions: SLLW masks its amount with the mask of a 64-bit shift
  (`cpu/rv_instr.h:871`), which C leaves undefined from 32 on; `ShiftsRight`
  says so. Some reserved encodings are accepted: AMOs with a funct3 of 4 or
  more, LOAD with funct3 7, shamt[5] on RV32, and `c.lui x0, 0`, which is a hint.
  An LR that faults makes a reservation all the same, and a store that overlaps
  a reservation without lying inside it leaves it.
* Timer: on RV32 `CPU_UINT_MAX`, which stands for "never" (`sbi.c:173`), is
  reached after about seven minutes: a disarmed timer is then due at once, and a
  deadline armed afterwards raises no edge. The timer's properties end there
  (`late`). In the DOS build `aclint_tick` takes 16 bits, so that an idle sleep of
  more ticks moves the clock by less (`dev/aclint.c:91`, `main.c:412`); the model
  moves it by all of them.
* RAM: after a failed `mem_init`, `mem_destroy` runs twice, and before any it
  runs over handles that are 0; such a start also overwrites the first page of
  the first swap file with zeroes. The seek to the end of a swap file and the tell
  are not checked (`memory.c:260`): after a failed seek the file is overwritten
  from its start, after a failed tell it is not grown; and where a file cannot
  be opened, creating it empties it (`memory.c:28`). `Released` and
  `SwapFilesWhole` state exactly that much. An image that does not fit, or that ends exactly with RAM, ends in
  an assertion (`memory.c:378`); what the DOS build does then is not followed.
* Start-up: three failures leak. `main` does not call `dt_destroy` when `dt_init`
  fails after its malloc (`main.c:54`); the image file stays open without memory
  for the buffer (`main.c:106`, `main.c:170`); that buffer is not freed after a
  short or wrong header (`main.c:113`, `main.c:124`). The process ends after each.
  `Released` names them (`Leak`). `ui_getch` always returns true, so the `_vmDestroy` behind the loop
  is not reached; it reads `STDERR` while `ui_init` makes `STDIN` non-blocking.
  An image that cannot be read to its end is read for ever (`main.c:137`).
* Device tree: the PLIC's `#interrupt-cells` and `riscv,ndev` are given each
  other's value, which is right because both are 1; `stdout-path` is a phandle.

## Not modelled

* The upper halves of counters and `mstatush` (RV32, this build) as registers of
  their own: they take the same paths as the counters and `mscratch`. The
  values of registers that are storage only (vectors, scratch, trap values).
* Characters, colours and the status line of the screen, logging,
  `mem_dumpImage` and `bus_dump`: output only. Of the arguments only what is
  accepted matters.
* Text in the device tree, and how libfdt fills the buffer.
* The link register that JAL and JALR write.
* PLIC interrupt numbers from four on, where the code's split into words leaves
  its arrays (`dev/plic.c:17`); the board has one interrupt.
* Reads of the UART with the divisor latch on, which return a byte that was
  never set: no register's state changes.
* `third_party/dtc` and `buildroot`: not this program's code.

## Plan

Every part that changes state is modelled, and every safety property of the
runs is a theorem except `DecodesRight`, for which TLC is exhaustive. What would
add to it: the list as PagedMemory uses it, that LruList implements the
positions (`EvictsLru` and `NoFrameMissed` are the two facts that it takes).
