-------------------------------- MODULE Boot --------------------------------
(***************************************************************************)
(* main from its first line to the loop that runs the hart, and every way  *)
(* out of it: the options, mem_init with its frames and swap files, the    *)
(* devices, the device tree, the image, and _vmDestroy.  Whatever can fail *)
(* may fail.  Each of main's calls is a step, and so is each turn of the   *)
(* loops of mem_init.  SwapLayout has the loop that splits addresses.      *)
(***************************************************************************)
EXTENDS SwapLayout, DeviceTree, Integers, FiniteSets

CONSTANTS MEM_PAGES,
          OldSizes,       \* the sizes of swap files from earlier runs
          ImageSizes,     \* the sizes of image files
          TextOffsets,    \* the 64-bit offsets in the headers of kernel images
          AddrMod,        \* 2 ^ XLEN
          DtbSize, BufSize, WordSize,
          MaxMissed       \* bound: failures that mem_init does not notice

\* The buffer for the image is 512 words.
ASSUME BootAssumption ==
  /\ MEM_PAGES \in Nat \ {0} /\ DtbSize \in Nat \ {0} /\ BufSize \in Nat \ {0} /\ WordSize \in Nat \ {0}
  /\ OldSizes \subseteq Nat /\ ImageSizes \subseteq Nat /\ TextOffsets \subseteq Nat
  /\ AddrMod \in Nat \ {0} /\ MaxMissed \in Nat /\ WordSize <= BufSize
  /\ \A s \in Sizes : MEM_PAGES * MEM_PAGE_SIZE <= s /\ DtbSize + WordSize <= s

VARIABLES opts,       \* the build (CONFIG_DOS) and the options that matter later
          step, k,    \* where main is, and the loop's variable there
          frames,     \* pages[i].data, or data in frame 1: "null", "live" or "freed"
          swapFiles,  \* the handles: "zero" and "none" are 0 and -1, "open", "closed"
          disk,       \* the swap files as mem_init makes them: the size, and where what was there is lost
          swapPos,    \* of mem_init
          missed,     \* history: <<file, call>> for calls whose failure mem_init does not notice
          devices,    \* what is registered with the bus, as <<base, device>>
          dtb,        \* the device tree in RAM: "none", "whole" or "overwritten"
          image,      \* where the image starts, and its size
          textPtr,    \* how far it is loaded
          held,       \* the memory and files of _buildDeviceTree and the loaders
          hart,       \* the mode it was started in, or "off"
          terminal,   \* "saved" and "raw" before and after ui_init
          strays      \* history: what was released without being held

fileVars == <<disk, swapPos, missed>>
memVars == <<frames, swapFiles, fileVars, strays>>
loadVars == <<image, textPtr>>
vmVars == <<devices, dt, dtb, loadVars, held, hart, terminal>>
bootVars == <<swapVars, opts, step, k, memVars, vmVars>>

Frame == 1 .. MEM_PAGES
File == 0 .. MAX_SWAP_FILES - 1

Board == <<<<"RAM_BASE", "ram">>, <<"ACLINT_BASE", "aclint">>, <<"PLIC_BASE", "plic">>, <<"UART_BASE", "uart0">>>>

\* _vm is zero; the swap files may be there from an earlier run, whole or not
BootInit ==
  /\ SwapInit
  /\ opts \in [dos : BOOLEAN, kernel : BOOLEAN, noSBI : BOOLEAN]
  /\ step = "start" /\ k = 0
  /\ frames = [f \in Frame |-> "null"]
  /\ swapFiles = [i \in File |-> "zero"]
  /\ \E old \in OldSizes : disk = [i \in File |-> [size |-> old, lost |-> {}]]
  /\ swapPos = 0 /\ missed = {}
  /\ devices = <<>> /\ dt = EmptyTree /\ dtb = "none"
  /\ image = [start |-> 0, size |-> 0] /\ textPtr = 0 /\ held = {}
  /\ hart = "off" /\ terminal = "saved"
  /\ strays = {}

Goto(from, to) == step = from /\ step' = to /\ k' = 0

\* Mutant: a way out that forgets _vmDestroy.
MutantFails(from) == step = from /\ step' = (IF from = "image" THEN "exited" ELSE "destroy") /\ k' = 0

\* _vmDestroy(); return 1;
Fails(from) == Goto(from, "destroy")

\* The DOS build leaves the terminal alone.
ui_init ==
  /\ Goto("start", "args")
  /\ terminal' = IF opts.dos THEN terminal ELSE "raw"
  /\ UNCHANGED <<swapVars, opts, memVars, devices, dt, dtb, loadVars, held, hart>>

\* What it accepts is what BootInit has: a size, one, two, four or eight files.
_parseArgs ==
  /\ Goto("args", IF opts.dos THEN "frames" ELSE "data") \/ Fails("args")
  /\ UNCHANGED <<swapVars, opts, memVars, vmVars>>

-----------------------------------------------------------------------------
\* mem_init without CONFIG_DOS
InitFlat ==
  /\ \/ Goto("data", "devices") /\ frames' = [frames EXCEPT ![1] = "live"] /\ ready' = TRUE
     \/ Fails("data") /\ UNCHANGED <<frames, ready>>
  /\ UNCHANGED <<size, nSwapFiles, n, filePosMask, fileNoShift, a, opts, swapFiles, fileVars, strays, vmVars>>

\* The error paths of mem_init call mem_destroy themselves.
MemFails(from) == Goto(from, "mem_destroy")

AllocFrame ==
  /\ step = "frames" /\ k < MEM_PAGES
  /\ \/ /\ frames' = [frames EXCEPT ![k + 1] = "live"]
        /\ k' = k + 1 /\ UNCHANGED step
     \/ MemFails("frames") /\ UNCHANGED frames
  /\ UNCHANGED <<swapVars, opts, swapFiles, fileVars, strays, vmVars>>

FramesDone ==
  /\ k = MEM_PAGES /\ Goto("frames", "shift")
  /\ UNCHANGED <<swapVars, opts, memVars, vmVars>>

Shift ==
  /\ step = "shift" /\ TrailingZero
  /\ UNCHANGED <<opts, step, k, memVars, vmVars>>

ShiftDone ==
  /\ n % 2 # 0 /\ Goto("shift", "open")
  /\ swapFiles' = [i \in File |-> "none"]
  /\ UNCHANGED <<swapVars, opts, frames, fileVars, strays, vmVars>>

\* These calls for file k fail, and mem_init goes on.
Miss(calls) ==
  /\ missed' = missed \cup {<<k, c>> : c \in calls}
  /\ Cardinality(missed') <= MaxMissed

\* _dosFOpen(fileName) of file k opens the file; if it cannot, it creates the
\* file, which empties one that is there.
_dosFOpen(call) ==
  /\ swapFiles' = [swapFiles EXCEPT ![k] = "open"]
  /\ \/ UNCHANGED <<disk, missed>>
     \/ /\ disk[k].size > 0 /\ Miss({call})
        /\ disk' = [disk EXCEPT ![k] =
                      [size |-> 0, lost |-> @.lost \cup {p \in 0 .. @.size - 1 : p % MEM_PAGE_SIZE = 0}]]

\* It does neither.
OpenFails(from) ==
  /\ swapFiles' = [swapFiles EXCEPT ![k] = "none"]
  /\ MemFails(from)
  /\ UNCHANGED <<disk, missed>>

OpenFile ==
  /\ step = "open" /\ k < nSwapFiles
  /\ \/ _dosFOpen("open") /\ step' = "seek" /\ UNCHANGED k
     \/ OpenFails("open")
  /\ UNCHANGED <<swapVars, opts, frames, swapPos, strays, vmVars>>

\* _dosFSeek to the end and _dosFTell, of which either may fail
SeekEnd ==
  /\ step = "seek" /\ step' = "grow"
  /\ \E calls \in SUBSET {"seek", "tell"} :
       /\ Miss(calls)
       /\ swapPos' = IF "tell" \in calls THEN -1 ELSE IF "seek" \in calls THEN 0 ELSE disk[k].size
  /\ UNCHANGED <<swapVars, opts, k, frames, swapFiles, disk, strays, vmVars>>

\* Mutant: the last page is taken to be there.
MutantShort == swapPos # -1 /\ swapPos + MEM_PAGE_SIZE < nFileSize

\* The comparison is unsigned: -1 is not below the size.
Short == swapPos # -1 /\ swapPos < nFileSize

\* A file after _dosFWrite of that many bytes
Written(d, pos, bytes) ==
  [size |-> IF pos + bytes > d.size THEN pos + bytes ELSE d.size,
   lost |-> IF bytes > 0 /\ pos < d.size THEN d.lost \cup {pos} ELSE d.lost]

\* a page of zeroes where the file stands, or too little written
GrowFile ==
  /\ step = "grow" /\ Short
  /\ \E bytes \in 0 .. MEM_PAGE_SIZE :
       /\ disk' = [disk EXCEPT ![k] = Written(@, swapPos, bytes)]
       /\ \/ bytes = MEM_PAGE_SIZE /\ swapPos' = swapPos + MEM_PAGE_SIZE /\ UNCHANGED <<step, k>>
          \/ bytes < MEM_PAGE_SIZE /\ swapPos' = 0 /\ MemFails("grow")
  /\ UNCHANGED <<swapVars, opts, frames, swapFiles, missed, strays, vmVars>>

\* The file is closed and opened again.
ReopenFile ==
  /\ step = "grow" /\ ~Short
  /\ \/ _dosFOpen("reopen") /\ step' = "open" /\ k' = k + 1
     \/ OpenFails("grow")
  /\ swapPos' = 0
  /\ UNCHANGED <<swapVars, opts, frames, strays, vmVars>>

\* The first pages are loaded into the frames (PagedMemory).
FilesDone ==
  /\ k = nSwapFiles /\ Goto("open", "devices")
  /\ ready' = TRUE
  /\ UNCHANGED <<size, nSwapFiles, n, filePosMask, fileNoShift, a, opts, memVars, vmVars>>

\* mem_destroy writes a frame back if the handle of its page's file is not
\* negative.  Until the first pages are loaded every frame has address zero and
\* no page; after that the frames go back to their own pages (PagedMemory).
StoresZeroes == opts.dos /\ ~ready /\ fileNoShift # 0 /\ swapFiles[_lookupSwapFile(0)] = "open"

\* It is called by mem_init and by _vmDestroy and leaves pointers and handles as they are.
mem_destroy ==
  /\ frames' = [f \in Frame |-> IF frames[f] = "live" THEN "freed" ELSE frames[f]]
  /\ swapFiles' = [i \in File |-> IF opts.dos /\ swapFiles[i] = "open" THEN "closed" ELSE swapFiles[i]]
  /\ \E bytes \in 0 .. MEM_PAGE_SIZE :
       disk' = IF StoresZeroes THEN [disk EXCEPT ![_lookupSwapFile(0)] = Written(@, FilePos(0), bytes)] ELSE disk
  /\ strays' = strays \cup {<<"free", f>> : f \in {g \in Frame : frames[g] = "freed"}}
                      \cup {<<"close", i>> : i \in {j \in File : opts.dos /\ swapFiles[j] \in {"zero", "closed"}}}
  /\ UNCHANGED <<swapVars, swapPos, missed>>

MemInitFails ==
  /\ Goto("mem_destroy", "destroy")
  /\ mem_destroy
  /\ UNCHANGED <<opts, vmVars>>

\* The other parts' destroy functions do nothing.
_vmDestroy ==
  /\ Goto("destroy", "exited")
  /\ mem_destroy
  /\ terminal' = "saved"
  /\ UNCHANGED <<opts, devices, dt, dtb, loadVars, held, hart>>

-----------------------------------------------------------------------------
\* RAM, ACLINT, PLIC and UART, as many as the bus has room for
RegisterDevice ==
  /\ step = "devices" /\ k < Len(Board)
  /\ devices' = Append(devices, Board[k + 1])
  /\ k' = k + 1
  /\ UNCHANGED <<swapVars, opts, step, memVars, dt, dtb, loadVars, held, hart, terminal>>

\* _buildDeviceTree: the k-th of its calls
_buildDeviceTree ==
  /\ \/ k = 4 /\ Goto("devices", "tree") /\ dt_init /\ held' = held \cup {"tree buffer"}
     \/ step = "tree" /\ k' = k + 1 /\ UNCHANGED <<step, held>> /\
          CASE k = 0 -> dt_addMemeory(Board[1])
            [] k = 1 -> dt_addAclint(Board[2])
            [] k = 2 -> dt_addPlic(Board[3], PLIC_INTERRUPTS)
            [] k = 3 -> dt_addNs16550a(Board[4], NS16550A_IRQ)
            [] k = 4 -> dt_finish
            [] OTHER -> FALSE
  /\ UNCHANGED <<swapVars, opts, memVars, devices, dtb, loadVars, hart, terminal>>

\* dt_init has no memory for the buffer, or has it and libfdt fails, after
\* which main does not call dt_destroy: the buffer stays.
dt_initFails ==
  /\ k = 4 /\ Fails("devices")
  /\ held' \in {held, held \cup {"tree buffer"}}
  /\ UNCHANGED <<swapVars, opts, memVars, devices, dt, dtb, loadVars, hart, terminal>>

\* An error of libfdt later, and dt_destroy
TreeFails ==
  /\ k \in 1 .. 4 /\ Fails("tree")
  /\ held' = held \ {"tree buffer"}
  /\ UNCHANGED <<swapVars, opts, memVars, devices, dt, dtb, loadVars, hart, terminal>>

ALIGN_DOWN(x, al) == (x \div al) * al
dtbAddress == ALIGN_DOWN(size - DtbSize, WordSize)

\* bus_write of the tree to the end of RAM, which in the DOS build goes
\* through the frames (PagedMemory), and dt_destroy
WriteTree ==
  /\ k = 5 /\ Goto("tree", "image")
  /\ dtb' = "whole"
  /\ held' = held \ {"tree buffer"}
  /\ UNCHANGED <<swapVars, opts, memVars, devices, dt, loadVars, hart, terminal>>

NoImageFile ==
  /\ Fails("image")
  /\ UNCHANGED <<swapVars, opts, memVars, vmVars>>

\* No memory for the buffer: the file stays open.
NoImageBuffer ==
  /\ Fails("image")
  /\ held' = held \cup {"image file"}
  /\ UNCHANGED <<swapVars, opts, memVars, devices, dt, dtb, loadVars, hart, terminal>>

\* A kernel whose header is short or wrong: the file is closed, the buffer stays.
BadHeader ==
  /\ opts.kernel /\ Fails("image")
  /\ held' = held \cup {"image buffer"}
  /\ UNCHANGED <<swapVars, opts, memVars, devices, dt, dtb, loadVars, hart, terminal>>

\* A kernel's first read is its header, which must fill the buffer; the offset
\* in it is cut to an address.
OpenImage ==
  /\ Goto("image", "load")
  /\ \E bytes \in ImageSizes, text_offset \in (IF opts.kernel THEN TextOffsets ELSE {0}) :
       /\ opts.kernel => bytes >= BufSize
       /\ image' = [start |-> text_offset % AddrMod, size |-> bytes]
       /\ textPtr' = text_offset % AddrMod
  /\ held' = held \cup {"image file", "image buffer"}
  /\ UNCHANGED <<swapVars, opts, memVars, devices, dt, dtb, hart, terminal>>

ImageEnd == image.start + image.size
Chunk == IF ImageEnd - textPtr < BufSize THEN ImageEnd - textPtr ELSE BufSize

\* The assertions of mem_write, which the DOS build has not: an empty write
\* behind the end fails too, after an image that fills the memory.
Fits == textPtr + Chunk <= size /\ (textPtr < size \/ opts.dos)

Overlaps == Chunk > 0 /\ textPtr < dtbAddress + DtbSize /\ textPtr + Chunk > dtbAddress

\* mem_write of a buffer, through the frames in the DOS build (PagedMemory); it
\* was the last if the file ended before the buffer.  Then both are released.
LoadChunk ==
  /\ step = "load" /\ Fits
  /\ textPtr' = textPtr + Chunk
  /\ dtb' = IF Overlaps THEN "overwritten" ELSE dtb
  /\ step' = IF Chunk < BufSize THEN "reset" ELSE "load"
  /\ held' = IF Chunk < BufSize THEN held \ {"image file", "image buffer"} ELSE held
  /\ UNCHANGED <<swapVars, opts, k, memVars, devices, dt, image, hart, terminal>>

\* The assertion fails; what the DOS build does instead, writing to the frame
\* that it meant to load the page into, is not followed.
ImageTooLarge ==
  /\ ~Fits /\ Goto("load", "aborted")
  /\ UNCHANGED <<swapVars, opts, memVars, vmVars>>

\* rv_reset in machine mode, or sbi_startHart
StartHart ==
  /\ Goto("reset", "run")
  /\ hart' = IF opts.noSBI THEN "M" ELSE "S"
  /\ UNCHANGED <<swapVars, opts, memVars, devices, dt, dtb, loadVars, held, terminal>>

\* The loop ends when ui_getch returns false, which it never does.  The guest's
\* accesses go to the swap files in the DOS build.
Run ==
  /\ step = "run" /\ opts.dos /\ Access
  /\ UNCHANGED <<opts, step, k, memVars, vmVars>>

BootNext ==
  \/ ui_init \/ _parseArgs \/ InitFlat
  \/ AllocFrame \/ FramesDone \/ Shift \/ ShiftDone
  \/ OpenFile \/ SeekEnd \/ GrowFile \/ ReopenFile \/ FilesDone \/ MemInitFails
  \/ RegisterDevice \/ _buildDeviceTree \/ dt_initFails \/ TreeFails \/ WriteTree
  \/ NoImageFile \/ NoImageBuffer \/ BadHeader \/ OpenImage \/ LoadChunk \/ ImageTooLarge
  \/ StartHart \/ Run \/ _vmDestroy

BootSpec == BootInit /\ [][BootNext]_bootVars

-----------------------------------------------------------------------------
\* What main may leave unreleased, and after which failure: the tree's buffer
\* when dt_init fails after allocating it (main.c:54), the image file when there
\* is no memory for the image's buffer (main.c:106, 170), and that buffer when a
\* kernel's header is short or wrong (main.c:113, 124).
Leak ==
  \/ held = {"tree buffer"} /\ dt = EmptyTree
  \/ held = {"image file"} /\ dtb = "whole"
  \/ held = {"image buffer"} /\ dtb = "whole" /\ opts.kernel

\* However main leaves, the guest's memory does not stay behind: the frames are
\* freed, the swap files closed, and the terminal is as it was.  Of the buffers
\* and the file that it used on the way at most one stays, after one of the
\* failures of Leak, and none while the hart runs.  And once mem_init has
\* returned true frames and swap files are released once.  (Before, mem_destroy
\* runs twice or over a memory that was never set up: frames are freed and
\* handles closed that are not held, handle 0 among them.)
Released ==
  /\ step = "exited" => /\ \A f \in Frame : frames[f] # "live"
                        /\ \A i \in File : swapFiles[i] # "open"
                        /\ terminal = "saved"
                        /\ held = {} \/ Leak
  /\ step = "run" => held = {}
  /\ ready => strays = {}

Missed(i, calls) == \E c \in calls : <<i, c>> \in missed

\* Once mem_init has returned true, every swap file is open and has its share
\* of the RAM, unless the tell of its position failed or the second open emptied
\* it; and mem_init has written over nothing that an earlier run left there,
\* unless an open emptied the file or the seek to its end failed.  (What the
\* tree, the image and the guest write over, they write later and to their own
\* addresses.)  A mem_init that returns false writes over the first page of the
\* first file, with a frame that nothing was loaded into, and no other.
SwapFilesWhole ==
  /\ (ready /\ opts.dos /\ step # "exited") =>
       \A i \in 0 .. nSwapFiles - 1 :
         /\ swapFiles[i] = "open"
         /\ disk[i].size >= nFileSize \/ Missed(i, {"tell", "reopen"})
  /\ \A i \in File : disk[i].lost # {} => \/ Missed(i, {"open", "seek", "reopen"})
                                          \/ i = 0 /\ ~ready /\ disk[i].lost = {0}

\* The hart runs on a whole machine: the device tree that a1 points to
\* describes the devices on the bus and their interrupts, and it is intact
\* unless the image, which is loaded after it, reaches up to it.
TreeRight ==
  step = "run" =>
    /\ Describes(dt, {devices[j] : j \in DOMAIN devices})
    /\ (dtb = "whole") = (ImageEnd <= dtbAddress)
    /\ textPtr = ImageEnd
=============================================================================
