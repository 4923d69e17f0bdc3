# Shiggy OS in TLA+

Shiggy is a 32-bit hobby operating system in C: a boot loader, a polled shell
loop in `kernel/main.c`, a FAT32 driver on an ATA disk, a network stack on an
RTL8139, and a keyboard driver that does its work in the interrupt. There is no
scheduler: one main loop runs commands to their end, and interrupts fall into
it anywhere. Nothing masks them for the sake of a critical section.

These modules model the parts in which state, order, interruption and failure
matter, check them with TLC on small instances, and prove some of the results
with TLAPS for every value of the constants. All paths below are in `src/`.

- [The system](#the-system)
- [Modules and code](#modules-and-code)
- [Runs](#runs)
- [Fairness](#fairness)
- [Proofs](#proofs)
- [What the work has shown](#what-the-work-has-shown)
- [Not modelled](#not-modelled)
- [Plan](#plan)
- [How to run](#how-to-run)

## The system

| Component | State | Operations | Talks to |
|---|---|---|---|
| FAT32 driver, `src/fs/fat32.c` | on disk: boot sector, two FATs, clusters; in RAM: geometry, `next_free_hint`, a `dir_t` per call | `fat32_fs_init`, `format_fs`, create file and directory, delete, read, list, resolve | ATA driver, `malloc`, called by commands and by TAB |
| ATA, `src/drivers/ata.c` | the controller's registers, the drive | read and write one sector by PIO, identify, drive size | called by FAT32, by TAB in the interrupt, by `diskinfo` |
| Shell, `src/kernel/main.c`, and commands, `src/apps/` | `current_dir_cluster`, `current_dir`, the line | take a line, split it, run a command | keyboard, everything else |
| Memory, `src/lib/memory.c` | `free_list`, `free_mem_addr`, block headers | `malloc`, `free`, byte copies | called by the main loop and by TAB |
| Keyboard, `src/drivers/keyboard.c` | `input_buffer`, `input_size`, `ready`, shift and 0xE0 flags | `keyboard_callback` (interrupt), `handle_tab`, `sconf` | FAT32 and memory (TAB), console |
| Network, `src/network/main.c` | receive ring and `rx_read_ptr`, send ring, `gw_mac`, `tcp_conn_t` | poll, ARP, ping, DNS, UDP, TCP connect, request, send, receive, close | the card, the timer |
| Console, `src/drivers/vga.c`, `mouse.c` | framebuffer, `screen_buf`, cursor, blink flag and the cell it was drawn in | print, scroll, erase, clear, blink | main loop, keyboard and timer interrupts |
| Clock, `src/drivers/cmos.c` | CMOS registers | read hour, minute, date | `time` |
| Timer and interrupts, `src/cpu/` | `timer_ticks`, handler table | tick, dispatch | everything that waits |
| ACPI, PCI, speaker, boot loader, graphics, library | little or none | | |

What is hard about it, and what makes each part correct:

* **FAT32.** Every operation is a series of single sector writes, and the power
  may fail between any two. Operations must take effect at one write or not at
  all; chains must stay disjoint, complete and without links to free clusters;
  names must stay unique; a full disk must not lose clusters or hang the
  driver; the second FAT must follow the first; the geometry chosen by
  `compute_layout` must be the one every later boot derives.
* **ATA.** A transfer is hundreds of register accesses, and TAB may start another
  one between any two of them. The drive may fail, or answer after the driver has
  given up. A sector must be read and written whole, and every call must end.
* **Receive path.** The card writes the ring while the driver reads it, the
  driver returns the bytes *before* its caller has used them, pointers wrap.
  Every frame stored must come out once, in order and unharmed.
* **Network calls.** Every identifier is a constant and nothing drains the ring
  between calls, so a late answer looks like a fresh one. Waits must end however
  much noise arrives, and requests must go to the right next hop.
* **TCP.** No retransmission and no reordering in the driver: what it
  acknowledges must have been shown, nothing must be acknowledged that was
  never sent, and every command must end.
* **Keyboard.** Interrupt and main loop share a buffer, a size and a flag with
  no lock. A command must get the line that was typed; the copy must stop.
* **Console.** A command prints while keys are echoed and the timer blinks a
  cursor that exists only in the framebuffer. The text must stay what was written,
  and nothing may be stored outside `screen_buf`.
* **Memory.** TAB calls `malloc` in the interrupt while the main loop may be in
  the middle of it.

`PROJECT.json` lists the hazards one by one, at their lines, with the properties
that watch each of them.

## Modules and code

### FAT32: `Directory`, `Fat32`, `Fat32Properties`, `Fat32Tree`, `FileSystem`

```
Directory <- Fat32 <- Fat32Properties <- Fat32Tree <- MCFat32
                                             | INSTANCE
                                          FileSystem
```

`Directory` has what `fat32.c` does to the directory image in RAM: the slots,
`scan_next` (`Met`, `Pending`, `EntryName`), the lookup, the search for a run of free
slots, insertion, deletion, and `build_short_name`. A name is a sequence of
*pieces*, each the thirteen characters of one VFAT slot. What the driver does
character by character (folding case, making an 8.3 name, putting `~N` into it,
the checksum) is a table given by constants: properties tell names apart by
whether they collide. `MakeShort` is a function of the name, `Tilde` one of a
short name and a number, `Fold` one of a piece.

`Fat32` has the disk (`boot`, `fat`, `mirror`, `data`) and the driver. The C
code calls `ata_write_sector` deep inside its functions; in the model an
operation *issues* writes into `io` in the order of the code, and `DiskWrite`
performs the first of them. Nothing else happens until `io` is empty, as in the
code, except that `PowerCut` may. `pc` names the place in the operation:

| `pc` | In `fat32.c` |
|---|---|
| `off`, `format` | before `fat32_fs_init`, in `format_fs` |
| `alloc` | the allocation loop of `fat32_create_file`, or `fat32_create_dir` |
| `name`, `search`, `extend`, `retry`, `place` | `dir_insert`, its one retry included |
| `save` | `dir_save`, one write for each sector of the image |
| `free`, `abort` | `free_cluster_chain`, for a deletion and for a failed creation |
| `fail` | no room after the retry: the entry is larger than a cluster |

The loop of `free_cluster_chain` also ends after `data_clusters + 2` rounds (line 191).
The model leaves that guard out: a chain has to end by itself, and does (`CallsReturn`).

A call that returns before it writes is a stuttering step. `cd` is `ChangeDir`.
`torn` and `lost` are history: which windows a power cut fell into, and which
clusters a failed creation could not give back.

`Fat32Tree` adds `tree`, what a caller could read back from the disk, and states
that the driver implements `FileSystem`: an abstract tree in which a file or
directory appears, or a file disappears, in one step. The refinement mapping
computes the tree from the bytes on the disk with the driver's own scan, without the
entry of a deletion that cannot be taken back (`Gone`), and
`sound <- torn = {}` ends the promise when the power failed in a window in which
the code cannot keep it. The windows are spelled out in `HalfDone`, and the runs
show there are no others.

### Geometry: `Layout`

Drive size, `compute_layout` round by round, the boot sector and
`init_from_disk` with its defaults for fields that are zero, and 32-bit sector counts as
they are in the code. `answered` is what `ata_identify` returned when the disk was
formatted: a drive that did not answer is taken for one of 64 MB (`Total`). `Format` may
happen on a disk that is formatted already, as a failed read of the boot sector makes
`is_formatted` return 0. `Foreign` lists boot sectors another system may have left.

### ATA: `SectorDisk`, `Ata`, `AtaProperties`

`Ata` has `ata_read_sector`, `ata_write_sector` and `ata_identify` register access
by register access. `cpu` has the call of the command and the one of TAB: where it
is, its LBA, how often it still polls, its buffer; a command stands still while
TAB's call runs, as the handler does not return before. `regs` and `dev` are the
drive: `Work` and `Fail` are what it does by itself, at any speed, and `Takes` is
what becomes of a register written while it is at it. `Wait` is `ata_wait_bsy` and
`ata_wait_drq`, which give up; `IdentifyWait` never does. `FatWriteEntry` and
`EntryStep` are the loop of `fat_write_entry` over the copies of the FAT, failed
reads unnoticed. A sector has a few words and an LBA a few digits.

`SectorDisk` is the abstract specification: sectors that are read and written
whole. It is what `Fat32` relies on when its `DiskWrite` changes a sector in one
step. `AtaProperties` has the refinement (`ImplementsSectors`), which ends
(`sound <- torn = {}`) in three windows:

| In `torn` | Window |
|---|---|
| `tab` | TAB's read begins while the drive is at work on the command's, or behind an LBA register in which the two differ (`Tears`) |
| `timeout` | a wait gives up on a drive that is still at work; the late answer goes to the next call |
| `diskinfo` | `diskinfo` calls `ata_get_drive_size`, which reads the answer to an IDENTIFY DEVICE nobody sent |

### Receive path: `RxQueue`, `RxRing`

`RxRing` models the ring byte by byte: a byte of memory is a frame's number, the
part of the frame and the offset in that part. `Receive` is the card (which
wraps, drops frames that do not fit, and stops short of a full ring), `Poll` is
`rtl8139_poll_rx`, `Release` is the end of its caller's use of the pointer it
returned. `RxQueue` is the abstract specification, a queue of frames with one in
hand. `Net` and `Tcp` INSTANCE that same queue instead of the ring: what
`RxRing` is proved to implement is what they rely on. `starts` and `accepted` are
history: where each frame begins, counted in bytes from the first, and its length.

### Datagram calls: `Net`

`arp_resolve`, `net_ping`, `net_dns_resolve`, `net_udp_send_to` and
`net_udp_recv`, under `ping` and `ncat -u`. `at` is the wait loop the processor
is in; `Arrive` and `Tick` interleave with it. A frame is the number of the
request it answers, and what it says follows from that request; 0 is a frame
nobody asked for.

### TCP: `Tcp`

`tcp_connect`, `tcp_request`, `net_tcp_send`, `net_tcp_recv`, `net_tcp_close`
under `nettest` and `ncat`. Sequence numbers are modulo `M` and start next to
the wrap. The peer sends a stream of `Stream` bytes and a FIN (alone or riding
on the last byte), repeats what it has not heard acknowledged, and may refuse;
frames may be lost. `wire` is what the driver has sent, bare acknowledgements
apart; `told` is the highest of those.

### Keyboard: `Keyboard`

`Prefix`, `Skip`, `Letter`, `Backspace`, `Tab`, `Enter` are the handler, atomic
because interrupts are off in it; `Spin`, `Copy` (one character), `Reset`,
`Clear` are the statements of `sconf`; `Run` is the command. `typed`, `entered`,
`hurried`, `enters` and `lines` are history: what the user meant.

### Console: `Console`

`PrintStep` is `print_char`, `ScreenClear` and `PrintCenter` are `clear` with its
title, statement by statement and cell by cell; `Key` is the echo of the keyboard handler
(`EchoLetter`, `EchoBackslash`, `EchoBackspace`, `EchoCompletion`, `EchoList`,
`EchoEnter`), `Blink` the timer's. `entry` is what of the handler's and `sconf`'s state the
echo depends on; a letter that does not fit in `input_buffer` (`MaxInput`) is not echoed. Both run at once between any two statements of the command. `tty` has the
globals of `vga.c`, with two screens: `screen` is the framebuffer, `buf` is
`screen_buf`, and the cursor is only on the first. `page` is what has been written and not
erased, on a page without end. `torn` ends the promise in the windows `BlinkTears`,
`KeyTears`, `EraseTears`, `FeedTears`, `FillsLine`, `CursorLeft` and
`ScrubsErased`, each spelled out in terms of the statement the command is at.

### Memory: `Heap`

`malloc` and `free` of the main loop, one action per memory access (`Test`,
`Advance`, `Unlink`, `Link`, `Bump`, `SetSize`, `Grow`, `Freed`); `Tab` is a whole
allocation and release by the interrupt. `FreeList` is what the links run through
before they reach NULL (`Walk`, a recursive function). `torn` is set when TAB falls
into one of the three windows `Tears` names, after which the list may be anything and
the model stops: `malloc` is about to take, from behind another block, the very block
TAB moves; it has read which block comes next, and TAB moves that one; it has read
`free_mem_addr`, and TAB reads it, too.

### The proof modules

`Fat32Proofs`, `DiskProofs`, `KeyboardProofs`, `RxRingProofs`, `TcpProofs`, `NetProofs`,
`HeapProofs` and `AtaProofs` extend the modules they are about and hold the theorems and
their lemmas; see [Proofs](#proofs). They define nothing of the models. `KeyboardProofs` has
both sides of the keyboard interrupt, the line (`Keyboard`) and the screen (`Console`), whose
names (`ConsoleSpec`, `entry`, `strokes`) keep clear of each other. `DiskProofs` goes on
where `Fat32Proofs` ends, with the names and the refinement, and has the proofs about `Layout`, too; the
names of that module (`LayoutSpec`, `record`, `phase`) keep clear of those of `Fat32`.

## Runs

All bounds are constants of the cfgs or `MC` modules. `CHECK_DEADLOCK FALSE`
appears where the model really may come to rest: the bound on frames, requests,
keys, calls or addresses is used up. `fat32` and both `layout_` runs check for
deadlock.

| Run | States | What it checks |
|---|---|---|
| `fat32` | 317,199 | Three names of one 8.3 form and one that no cluster has room for, subdirectories, up to two power cuts anywhere. `Accounted`: in use are the root, what entries name, what chains link, and exactly what a failed creation lost. `NamesUnique`: every entry decodes to the name it was created with, and no two match. `ChainsDisjoint`, `NoDangling`, `ChainsComplete`, `NeverOverwrites`, `MirrorLags`, `ShortsUnique`. `GivesUpOnlyWhenFull`: "disk full" is true wherever the hint stands, and a directory refuses an entry only at its limit or when the entry is larger than a cluster. `ImplementsFileSystem`, and `CallsReturn` under fairness. |
| `layout_own` | 17,992 | `FatCovers`, `DataOnDisk`, `GeometryKept` for about 600 drive sizes, with drives that answer IDENTIFY and ones that do not. |
| `layout_foreign` | | Violation of `CountsClusters`, see below. |
| `ata` | 643,280 | `ImplementsSectors`, `EntriesKept` (the copies of the FAT hold what was written, but where the drive failed), `SectorCallsEnd` under fairness. |
| `rx_frames` | 6,294 | `UnreadIntact`, `HeldIntact`, `ImplementsQueue`, and `Drained` under fairness: a ring of 32 bytes goes round several times. |
| `rx_boundary` | | Violation of `HeldWhole`, see below. |
| `net_calls` | 2,509,464 | `RightNextHop`, `OwnAnswer`, `CommandsReturn`. |
| `tcp_stream` | 369,874 | `AckedIsShown`, `ShownInOrder`, `AckHonest`, `FinAcked`, `CommandsEnd`. |
| `keyboard_lines` | 514,002 | `LineIsTyped`, `BufferIsTyped`, `CopyStops`, `NoPhantomLine`, `HandedOver`. |
| `keyboard_tab` | | Violation of `TabCompletesWord`, see below. |
| `console` | 2,939,575 | `TextIsShown`, `StoresInside`. |
| `heap_tab` | 367,559 | `LiveDisjoint`, `ListSound`, with TAB between any two memory accesses. |

`fat32` and `layout_own` also check the type invariant of their module. Those of
`Keyboard`, `RxRing`, `Net` and `Tcp` are theorems, too, and not run.

Why the bounds are enough for the questions asked:

* `fat32`: three data clusters and four slots a sector. The root takes one of the
  clusters; three of the names take one, two and three slots, so a second entry may
  extend the directory, cross the sector boundary or reuse slots freed by a
  run of deletions; the files have no cluster, all that the root leaves free, and
  one more, so the disk fills in every operation: while allocating a second block,
  while extending, and before anything. The fourth name takes five slots, so that
  `dir_insert` may find no room even behind the cluster it added, and gives up (`fail`).
  `MAX_ALT` is 2 instead of 9, so that the alternatives run out, and two checksums collide. Two power cuts let one cut leave
  the state the next one falls into. The state constraint `Bounded` ends behaviours behind
  a cut inside a window, where the properties are exempt anyway (the step into
  the window is checked), and behind the boot after the last cut.
* `layout_own`: sizes around 4096 sectors, where the driver falls back to 64 MB,
  on either side of the 64 MB it assumes of a drive without IDENTIFY, where a FAT sector
  boundary is near, too (the iteration alternates between two sizes), and the largest ones. All others are covered by the proof.
* `ata`: two digits of LBA and two words tell a mixed address and a mixed sector
  from whole ones; one poll before a wait gives up, two calls of the command and
  one TAB let a window be hit by any call and the next call meet what it left.
  The constraint `Bounded` ends behaviours behind a window, but lets the call that
  timed out run to its end, so that `SectorCallsEnd` covers it.
* `rx_frames`: lengths with different remainders modulo four, frames that end
  before, at and across the end of the ring, six frames against a ring that
  holds two at a time.
* `net_calls`: six requests let a wait be given up and its answer arrive in a
  later call of the same or of another kind, and are what `ping` of a name takes; the queue is one frame long, and
  frames that find it full arrive later. Pings are two instead of four.
* `tcp_stream`: three bytes, the middle one of which can be lost or repeated
  while the others pass; sequence numbers 13 and 14 modulo 16 wrap within the
  stream; a buffer of four makes `nettest` run full. The peer repeats itself as often as it
  likes: `MaxRepeats` bounds the count, not the repetitions, and once it is reached `shown`
  notes only bytes it does not have yet.
* `keyboard_lines`: a buffer of five bytes is filled beyond its limit by six keys, and
  a line, a key between any two statements of `sconf` and a second line fit in
  six.
* `console`: three rows and columns, so a line fills in the middle of a scroll;
  four characters of a command, three keys and two blinks fall between any of
  its statements, and an input line of two letters can be full. Behaviours are not
  followed behind a window (`Bounded`).
* `heap_tab`: three live blocks and a free list of several blocks of different
  sizes: first fit at the head, in the middle, at the end, and none.

## Fairness

* `Fat32`: `WF(Work)` and `WF(Boot)`. An operation that has begun runs on; it
  never waits. Nobody has to call anything, and the power may fail.
* `Ata`: `WF(Step)`, in `FairSpec`: a processor in the middle of a call executes its
  next access. Of the drive nothing is assumed, it may stay busy for ever; therefore
  `SectorCallsEnd` leaves `ata_identify` out.
* `RxRing`: `WF(Poll)`, for `Drained` only: commands that wait for an answer poll
  in a loop. Frames need not arrive.
* `Net`, `Tcp`: `WF(Work)`, the processor runs its loop, and `WF(Tick)`, the
  timer interrupt advances `timer_ticks` until the deadline has passed. Nothing
  is assumed of the network, of the peer or of the user. `ncat.c:118` pushes the deadline
  back whenever data come, so `CommandsEnd` exempts the behaviours in which the peer never
  stops sending `ncat` data, repeated or not (`Talking` again and again). `nettest`,
  connecting and draining have deadlines nobody moves and are not exempt.
* `Keyboard`: `WF(Main)`: when a handler returns, the main loop goes on.

No strong fairness is used anywhere. `Heap` and `Console` state no liveness.

## Proofs

`tlapm` checks every proof to the last leaf. Assumptions are those named in the
modules (`SlotAssumption`, `NameAssumption`, `LengthAssumption`, `DiskAssumption`,
`LayoutAssumption`, `KeyboardAssumption`, `RingAssumption`, `NetAssumption`,
`TcpAssumption`, `HeapAssumption`, `AtaAssumption`, `ConsoleAssumption`, `NoneIsNoRequest`), and TLC evaluates them in the runs. Besides the sorts of the
constants, they say that a sector holds three entries or more, that there are
clusters and fewer of them than the FAT's reserved values, and that drives are
smaller than 2^28 sectors, which ATA words 60-61 cannot exceed; that the ring is
a multiple of four bytes and divides 2^16, and every frame fits into it; that the
gateway is a host of the subnet; that sequence numbers have room for twice the
stream; that blocks have a header and requests are not empty; that there is at least
one copy of the FAT, which `fat32_mount` sees to, and that "no command" is no command.
`LengthAssumption` says that a name has no more pieces than `scan_next` remembers: names come
from a line of at most 255 characters (`keyboard.c:6`), and twenty slots hold 260
(`fat32.c:21`).

**`DiskProofs`: the geometry is right for every drive.** `compute_layout`
iterates for the FAT size up to sixteen times and takes whatever it has then;
for some sizes it alternates for ever. `FatCovers` does not follow from a
fixpoint, so the inductive invariant `LayoutInv` says how far the last two sizes
may be apart: `Gap(round)`, which starts at 2097152 and falls by a factor of
about 64 each round (`Contraction`), until one sector is left. One sector is
what the `+ 1` of the formula makes up for (`StopsCovered`). The second half of
the invariant ties the boot sector to the driver's variables, which gives
`DataOnDisk` and `GeometryKept`. Theorems: `LayoutInductive`,
`LayoutTypeCorrect`, `LayoutFatCovers`, `LayoutDataOnDisk`, `LayoutGeometryKept`.

**`Fat32Proofs`: lemmas on directory images.** What the searches, the
insertion and the deletion return and preserve: a run of free slots is a run of
free slots inside the image (`FreeRunFree`), an insertion gives an image again
(`InsertType`), and so on. `Least` and `Greatest` are `CHOOSE`s; that they choose
something rests on the well-foundedness of `<`.

**`Fat32Proofs`: types.** `TypesHold` says more than that variables have types:
whatever is pending is a write of a sector of the right kind to a cluster that
exists, so no operation ever writes outside the data region, for any disk size,
set of names and number of power cuts. The invariant `TypeInv` adds to `TypeOK`
that an operation that works on an image has loaded it (as many sectors as
clusters, at least one) and that it has a name where it needs one. The chain walk
is a recursive function; that it has a value at all is a lemma (`WalkExists`,
from finite tables that extend each other), and `ChainType` bounds it.

**`Fat32Proofs`: the mirror.** `MirrorsAgree` proves `MirrorLags`: between any two
sector writes and after any number of power cuts the two FATs differ in at most
one entry for each cut plus the one being written. That is not inductive: the
state must say what is *going to be* written. `MirrorInv` says so: while the
driver computes nothing is pending; the pending writes are `Balanced` (each
write of the first copy is followed at once by its mate on the second) or they
start with the second half of a pair whose first half is on the disk; a power
cut throws away at most one such half and pays for it with one cut. Formatting
overwrites whole copies and is followed write by write. Every sequence the
driver issues is shown to be balanced (`BalancedWrites`, `BalancedLinks`,
`BalancedExtension`), and `MirrorNext` is the induction step.

**`Fat32Proofs`: the chains.** `ChainsDisjoint`, `NoDangling` and `NeverOverwrites`, for every
disk and directory size, set of names and number of power cuts. All three are about
what is reachable, and a proof by following chains would be an induction for each sector
write. `ChainInv` says instead that *there is* a set `L` of clusters, those of the
directories, and that the disk is `TwoWorlds`: no link leads from `L` to the rest or
back, everything in `L` is a directory sector in use, every visible entry lies in `L`,
and it names a cluster of `L` just when it is a directory's. Which clusters a link or
an entry of one world can reach is then decided without walking; `Disjoint` and `Leads`
state the properties themselves for what the sectors show. The rest of the invariant is what
an operation holds in RAM between two sector writes: the clusters it has
allocated are outside `L`, named by nobody, and linked at most in their own order
(`Owned`); its image is what the disk holds, but for the cluster being added (`LoadInv`,
`ExtendInv`); the sectors `dir_save` has yet to write differ from the disk in the one
slot that leads somewhere (`SaveInv`, `ToCome`); and nothing leads to the cluster freed next
but the entry under deletion (`FreeInv`). `L` changes in two steps only, when a new directory's
entry reaches the disk and when an extension is linked. Each kind of sector write has a
lemma about any table and region (`MarkDisk`, `LinkDisk`, `ZeroDisk`, `JoinDisk`,
`AddEntry`, `RemoveEntry`), each action a lemma of its own (`CreateChains` to `CutChains`,
`AllocWrite` to `SaveWrite`), and `ChainNext` puts them together. Theorems:
`ChainInvariant`, `NoClusterIsShared`, `NothingDangles`, `WritesStayInside`. As in the
properties, nothing is claimed behind a cut inside one of the windows of `HalfDone`.

**`Fat32Proofs`: giving up.** `NoEarlyGivingUp` proves `GivesUpOnlyWhenFull`: the two halves of
the search, from the hint and from the start, cover the table (`FullTable`), and no directory
is loaded with more clusters than `dir_load` reads (`ChainBound`, `DirShort`), and after
`dir_extend` the image ends with an empty sector, in which a search finds room for whatever
fits into one (`EmptySectorHasRoom`, `Roomy`).

**`Fat32Proofs`: complete files.** `FilesAreComplete` proves `ChainsComplete`. That a chain has a
certain length is again not said by walking it: `Held` says that there *is* a sequence of
clusters, each linked to the next, the last to EOC, all of them data, that begins where the
entry points and is as long as its size. `FilesInv` says that every file shown has one, but
the one under deletion, and follows the one under creation to its entry: its clusters are marked
(`MarkedInv`); each is linked and filled, or a write that does so has been issued (`BlocksInv`);
all of it is on the disk when the name is chosen, and until the entry is written (`ReadyInv`). The
file under deletion is complete until its first cluster is freed (`WholeVictim`), which
is what a power cut before that needs. Every other sector write touches a set of clusters
into which nothing outside leads (`Untouched`: the directories, the new chain, the cluster
to be freed), and a file that begins outside of it keeps what it has (`HeldAvoids`, `HeldKept`).
What is held is what `fat32_read_file` walks (`HeldIsWalked`), and it fits the disk, because no
cluster comes twice (`HeldFits`).

**`Fat32Proofs`: the space.** `SpaceIsAccounted` proves `Accounted`, whose hard half is that every
cluster in use has a reason. Between two calls the reason is an entry, a link, or a creation that
failed; in the middle of a call it may be the call itself, so `SpaceInv` has a set `Mine` of the clusters the
running operation answers for: the new chain until its entry is on the disk, the cluster being
added to the directory until it is linked, the one being freed and the one freed next. `PlacedIn`
says that a cluster in use is the root, is led to, is lost or is one of `Mine`. That is not inductive by
itself, as overwriting a link takes away a reason: `EndInv` says that what is marked or linked
next ends a chain, or has the very link that is about to be written. `FreedIn` says of the entry
under deletion that the cluster it names is free or about to be, so that taking the entry
away leaves nothing behind; `LinkedInv` that a creation that gives up after its contents were
written has linked its chain, so that `free_cluster_chain` finds all of it; and `LostIn` that
nothing ever leads to a lost cluster again, because only clusters that are free are allocated. Each sector
write is shown to keep the reasons (`Keeps`) and to make none for a lost cluster (`Spares`).
`AccountInv` holds for `cuts = 0` only, as the property does: a power cut in a
creation leaves its clusters marked, in a window of `HalfDone` or outside.

**`DiskProofs`: the names.** `NamesAreUnique` proves `NamesUnique`, for every set of names and table
of 8.3 forms and checksums, colliding ones included, every sector size and disk. What a scan makes of an
entry depends on all slots before it, so the property is not inductive: an insertion could
complete a name that is not its own, and a deletion could leave LFN slots that the next
entry picks up. `Readable` says instead what every slot has to do with its neighbours: after
the end mark there are only end marks, which is why looking at the slots in front of it is
enough (`EndLast`, `VisibleEntries`); behind an LFN slot
comes another one or an entry, never a free slot (`NoOrphans`); every entry has in front of it
exactly the slots that spell its name, or none if its short name does (`Spells`); and no two names match
(`Apart`). The scan then gives back what was spelled (`SpelledName`), whatever the checksums,
because nothing else is pending at that entry (`MetIs`). `InsertReads` shows that an insertion into the
*first* run of free slots keeps all this: the slot in front of that run is taken
(`TakenBefore`), and as no orphan is in front of it either, the new slots join nobody's name.
`MarkReads` does it for a deletion that has marked its slots up to any of them, `AppendReads` for a
directory that grows, `NewSectorsRead` for the root and for a new directory. `ReadInv` is
the invariant of the driver: all directories on the disk read back, but the one being saved
(`AllReadable`); the image in RAM is that directory, with the cluster that is about to be linked
(`DircInv`); it lacks the name to be inserted, which `dir_find` did not find, and the slot is that of the first run
(`ImageInv`); and while `dir_save` is under way there *is* an old image that reads back, of which the new one
is an insertion or a deletion, and the sectors on the disk are those of the new one
up to the next write, of the old one from there on (`SavedFrom`). Such a mixture reads back unless
the operation is half done in the sense of `HalfDone` (`SavedMix`): that window is exact. Which directory a
write changes is settled by the chains: two directories have no cluster in common
(`DirectoriesApart`), so a write to one leaves the others (`OtherDirsKept`), and other writes leave all
(`OutsideReads`). `ReadInv` was model-checked on the instance of `fat32` before it was proved.

`ShortsAreUnique` proves `ShortsUnique` from the same invariant, which says that every short name is one that
`build_short_name` tries for the name of its entry (`ShowsShorts`), and a new one is not in use (`NewShort`).
That it finds one is a matter of counting (`SomeAlternative`): an alternative in use belongs to an
entry whose name competes for it, two of them to two names, and the new name itself is not there. The proof corrected the
property: it used to count the names of one 8.3 form, but a name that is *written* like an
alternative, `README~1.TXT`, takes one away as well, so it is the names whose alternatives meet (`Rivals`)
that must not be too many. The property holds at any moment, also while a save has
written half of an entry: the sectors then show entries of the old image or of the new one (`SavedShorts`).

**`DiskProofs`: the tree.** `FileSystemImplemented` proves `ImplementsFileSystem`: every step of the driver is
a step of `FileSystem` or leaves the tree as it is, for every disk, directory size, set of names and contents,
from every state the power may have left. It rests on all the invariants before, and adds two.
`CreateInv` says that a creation still has the blocks its caller gave. `TreeInv` says which tree
`tree` is: the one on the disk, but for the entry of `Gone`; while a new entry is not on the disk
(`Unsaved`), the one with the *old* image of the directory being saved in place of what is
there, which is what the window in which names decode wrongly must not change. The
argument goes directory by directory: the nodes of a tree are those of one directory and those of the others
(`TreeWith`), the others stay when neither their clusters nor their files change (`OthersSame`), and no write
touches a file that is listed, unless it is the one under deletion (`FilesApart`, proved with the
chains). What the directory at hand lists is read off its image (`Lists`): a
save that has reached the entry's own sector lists the new entry and before that
the old ones (`SavedLists`, from the mixture of sectors the names speak of). So a
creation takes effect with exactly the sector that has its entry (`EntryWritten`), `TreeCreated` shows that the
new node is `Create`'s or `Mkdir`'s, that its name was free and its blocks are read back in order
(`NewBody`), and a deletion takes effect when the freeing of its chain begins, or the marking of its slot if it has
none (`FileGoes`). A power cut between leaves the tree, or ends the promise in one of
the windows of `HalfDone`. The liveness of the calls is not part of it.

**`KeyboardProofs`: the line.** All four safety properties of `keyboard_lines`, for
every size of the buffer, set of names and number of keys. `KeyboardInv` says what
the interrupt may have done between two statements of `sconf`: the last byte of
the buffer is always NUL (`BufferInv`), which is why the copy stops; `ready` and the
number of lines ended and handed over move together (`CountInv`); and, as long as
no key fell into the window, the buffer is what was typed and the characters copied
so far are the beginning of it (`TextInv`). That the handler's search for the last word
finds one rests on finite sets having a greatest element.

**`RxRingProofs`: the ring.** For every ring, slack and set of lengths. All pointers are
totals modulo the ring (`PointerInv`): `wr` of what the card has written, `rd` and the
16-bit CAPR of what the driver has taken, and they are less than a ring apart.
`MemoryInv` is the strengthening: a frame that *begins* less than a ring behind the card
is whole in memory, taken or not. It is inductive where "frames not yet taken are whole"
is not enough for `HeldIntact`, because the frame in the caller's hands is already
given back. `RingImplementsQueue` is the safety part of the refinement: every step of
`RxRing` is a step of `RxQueue` or a stutter. The module begins with lemmas on `%` with a
modulus that is not a fixed number, which the SMT solver cannot find by itself.

**`NetProofs`: the next hop.** `NetInv` says that `gw` is the gateway's address or not
known, that a command about to send has the next hop of its own request in hand
(`HopInv`), and what each command knows where (`CommandInv`): a ping or a datagram has
a host, a query has a name, and only queries are for names (`QueryInv`), so that an
answer that has an address leads to a host. `NetRightNextHop` and `NetTypeCorrect`
follow, for every set of hosts and any order of frames.

**`NetProofs`: the own answer.** `NetOwnAnswer` says that a command acts on the answer to
its own request unless a wait was given up before. A frame carries no more than a
constant identifier, so nothing in the state of the command tells answers apart; what
does is where frames can be. `AnswerInv` says that an answer is in one place only, in
flight, in the ring or in hand (`OnceInv`); that one which is still outstanding is the
answer to the call in progress, or a wait on its channel, or on the one a datagram
shares with DNS, was given up (`LateInv`); and that an echo goes to the host it was
made for (`PeerInv`). A call that ends well has taken its only answer, which is why
the next call starts with none outstanding.

**`TcpProofs`: acknowledgements.** `AckHonest` for every stream, buffer and modulus, over
any losses and repetitions. It is not inductive: it needs that what is in the queue was
sent by the peer (`Honest`: a segment with data has the number of a byte that was sent, one
with FIN comes from a peer at its end), that `ack` is the number behind some byte that
was sent while the driver goes on receiving (`AckInv`), and that it takes nothing behind
a FIN. That a number tells which byte it is (`OffsetOfNumber`) is where the modulus
has to have room. `TcpTypeCorrect` says that `nettest` never overruns its buffer.

**`TcpProofs`: the order of the stream.** `AckedIsShown`, `ShownInOrder` and `FinAcked`
for every stream, buffer and modulus. They need what the queue as a whole says, so
`OrderInv` looks at the segment in hand and the queue as one sequence, `Frames`:
nothing is on its way before the peer has heard of the driver (`QuietInv`); without
losses every byte before a segment was acknowledged or rides in front of it
(`GapInv`); without repetitions none was acknowledged before and none comes twice, and
`ack` is where the stream goes on (`OnceInv`); a FIN rides on a byte only if the peer's
does (`RidingInv`); and what the user has seen lies below what was acknowledged, with all
that comes before it (`ShownInv`). Each step of the driver takes the first frame, puts one
behind the last or leaves them alone, so `TakeGapless`, `JoinGapless`, `DoneGapless` and
their like for doubles do the work for all of them.

**`HeapProofs`: the free list.** `LiveDisjoint` and `ListSound` for every header, word size
and request, TAB included. A list in memory is what a walk finds, and a proof about walks
would be an induction for each step; `HeapInv` says instead that *there is* a set `L` of
blocks and a rank for each, such that the list's head has the lowest, each block
links to the next one in rank, and the last to NULL (`InOrder`). Taking a block out,
putting one in front and moving one to the front change ranks and two links
(`CutTo`, `CutBetween`, `PutInFront`, `MoveToFront`). `SearchInv` is what a half
finished `malloc` may rely on: its `p` comes behind its `q` when it will be taken, and `t`
behind `p`; TAB keeps that, except in the windows `Tears` names, and what it may
do otherwise is leave a block on no list (it leaks, and drops out of `L`).
`ListIsInOrder` shows at the end that such a list is what `FreeList` computes.

**`AtaProofs`: transfers.** `AtaInv` is `TypeOK` and, until the first window of `Tears` is
hit, `Sound`: the drive works for the call that runs and for no other, and is as far as
that call is (`DriveInv`, with `Reads`, `Writes`, `Flushes` and `Identifies`); a call has
written its registers and passed the words up to its index, or the drive reported an
error for its sector (`CallInv`, for the command and for TAB); while TAB writes the LBA
registers they are those of the command as far as that has written its own (`Agree`);
and of the copies of the FAT those passed hold the new entry, the one at hand is being
written, and the ones to come lack that entry at most (`FatInv`). One lemma, `CallStep`,
says what a step of a call must preserve, in terms of the call before and after, and
every register access is an instance of it. `AtaEntriesKept` and `AtaTypeCorrect` follow;
`AtaImplementsSectors` is the refinement of `SectorDisk`: the sector is written at the
step in which the drive has the last word, and read at the one in which the driver
takes it.

**`KeyboardProofs`: the screen.** `StoresInside` and `TextIsShown` for every screen of two
rows and columns or more, any number of characters, keys and blinks, and every input limit
with room for two lines of that length above the last row. `ConsoleInv` says, until the first window of `torn`, what
the screen, the driver's globals and the page have to do with each other at *each statement* of
the command (`Statement`): between two characters the screen shows the page, and the cursor or nothing
behind it (`Good`); at `feed` the cursor is back in the first column (`FedReturn`); after it the screen may
be a line ahead of the page (`Fed`), or the page of the screen (`Fallen`); and so on through scroll,
store, draw and the cells of a `clear`. `drawn` is why a scroll takes no cursor with it: the driver
knows of no cursor but the one that is shown (`Known`). Two more parts make that inductive.
`TailOK` says that the letters BACKSPACE may still erase are on the screen, and that the lines they
fill have no gap: only then is going back one cell the same as taking off the
last letter of the page (`RubOut`). `EntryOK` says that they are no more than two input lines
hold, so that they cannot scroll away. A character printed in an interrupt keeps `Good`
(`LetterPrinted`, `NewlinePrinted`), and so does a text of any length
(`EchoIs`, `EchoStep`): `Echo` is a recursive function, and that it exists, and what its n-th value
is, is proved with a least counterexample (`LeastInSet`) in place of an induction.

**Model-checked only.** Every safety property and action property of the runs is proved, `TabCompletesWord`,
`CountsClusters` and `HeldWhole` being false. Out of the
provers' reach, so left to TLC for good: liveness (`CallsReturn`, `SectorCallsEnd`,
`Drained`, `CommandsReturn`, `CommandsEnd`, `HandedOver`, and the fair part of the refinements), and what
recursive definitions compute for every input.

## What the work has shown

Three places where code and comments disagree, each with a run that ends in a
counterexample:

* `CountsClusters` (`layout_foreign`). `fat32.c:62` says `data_clusters` is the
  number of clusters on the disk; `init_from_disk` counts sectors (line 840).
  That is the same on disks the driver formats, and eight times too much on one
  with eight sectors per cluster, which `is_formatted` accepts.
* `HeldWhole` (`rx_boundary`). `network/main.c:78` says frames are split across
  the end of the ring; `rtl8139_poll_rx` returns one pointer (line 141), and what
  lies behind the end is not the rest of the frame.
* `TabCompletesWord` (`keyboard_tab`). `keyboard.c:53` speaks of the word being
  typed; `prefix_case` compares up to the next NUL, so text erased by BACKSPACE,
  or left by a longer line before, takes part. In the run, where `aa` and `ab` are
  commands, the keys a, a, BACKSPACE, TAB complete the word `a`, which both begin with,
  to `aa`, because the erased letter still counts.

What properties had to exempt to be true, which is worth knowing:

* A power cut tears the file system in three windows (`HalfDone`): while
  formatting after the boot sector is written; in a deletion, from the first
  cluster freed until the entry is marked; in an insertion, when LFN slots are on
  the disk in an earlier sector and the entry is not, which leaves orphans that
  a later entry may pick up. Every other cut leaves the tree before or after.
* A creation that runs out of space after its second cluster leaks all but the
  first: `free_cluster_chain` runs before the links are written (`lost`).
* Drives of 4096 sectors and less, and drives of any size that do not answer IDENTIFY, are
  formatted as 64 MB ones (`fat32.c:686`): on a smaller drive the data region then ends
  behind the drive. `DataOnDisk` exempts those and no others.
* A read of the boot sector that fails makes `is_formatted` return 0 (line 848), or
  `init_from_disk` return early (line 828), and `fat32_fs_init` then formats the disk,
  whatever was on it. The code says so, and `Format` does it; no property can forbid it.
* `ncat` stays with a peer that sends or repeats data for ever; every other wait ends.
* The second FAT is never read, nor are the backup boot sector and FSInfo.
* `ShortsUnique` ends at the tenth name of one 8.3 form.
* A frame handed out by the ring is overwritten if the card goes once round
  before the caller is done with it (`Overrun`).
* After a wait was given up, the late answer is accepted as the next one's: a DNS
  answer for the next name, or for a datagram of `ncat -u` (`OwnAnswer`).
* TCP: after a loss, bytes are acknowledged that were never seen; repeated
  segments are shown twice; `ncat` drops data that comes with the FIN, and the
  end of `nettest`'s buffer drops the rest while acknowledging it.
* A key hit between ENTER and the return of `sconf` may merge two lines or be
  lost (`hurried`); otherwise the command gets the line that was typed.
* TAB tears a transfer of the command in the window of `Tears`, which is most of it:
  the drive then has a mixed address, or the command reads TAB's sector. Between
  calls, and while both name the same sector, TAB does no harm.
* A wait of the ATA driver that gives up leaves the drive at work; its answer is
  taken by the next call, which may be for another sector. A write goes on whatever its
  waits say. `ata_identify` waits for good. `diskinfo` reads a drive nobody asked.
* `fat_write_entry` writes an uninitialized buffer back after a read that failed
  (`EntriesKept` exempts sectors the drive reported an error for).
* A blink leaves a stray cursor, or wipes a letter, when it falls between the store and the
  advance of `print_char`, or finds the cursor behind the last column; so does a newline
  that leaves a visible cursor. The echo of a key in the middle of a scroll puts text into
  the wrong line. `do_backspace` does not erase in `screen_buf`: a letter that was erased
  comes back when a scroll scrubs the cursor. A backslash is not echoed, but a
  BACKSPACE takes it for a letter, and erases the one before.
* That BACKSPACE erases what was typed depends on the size of the screen: `do_backspace` stops
  at its first cell, so a letter that has scrolled away stays in the text while `input_size`
  goes down. The proof failed there until the model had the limit of `input_buffer`. With the
  255 letters that fit between ENTER and the return of `sconf`, and 255 more behind it, 510
  of the 2400 cells are needed at most, so the real screen keeps the promise.
* TAB corrupts the heap in exactly three windows of `malloc` (`Tears`); in all
  others it does no harm, or leaks a block at worst.

## Not modelled

* **Failing sector transfers in `Fat32`.** What the driver of the disk does then is in
  `Ata`, with `fat_write_entry`; what the other operations of the file system leave
  behind when a write is refused is not.
* **Mouse, real time clock.** The clock is read while it may be updating, the result is
  shown and forgotten: no state depends on it.
* **ATA**: a drive that is not there (status 0: every call returns at once), and
  the interrupt handler, which only acknowledges.
* **Console**: formats, colours, fonts, bit planes and pixels; a glyph is drawn in one
  step.
* **Disks formatted elsewhere**, except for their geometry: `Fat32` has one
  sector per cluster and chains no longer than the driver makes them.
* **ACPI, PCI, PIC, IDT, boot loader, speaker**: register set-up without state
  worth a model. **Graphics**: floating point. **Library**: pure helpers that the
  models use by what they compute. **Host tools**: not part of the system.
* In modelled parts: shift and caps lock, GUI mode; the send ring of four
  slots; checksums of IP, UDP and TCP; splitting a line into words; the last
  two bytes `ncat` puts behind a line of 254 characters or more. `ncat` that leaves its
  loop on the peer's FIN sends none of its own: the connection stays half open, and as
  the code does nothing there, there is nothing to check.

## Plan

Done, in this order: FAT32 with crashes and its refinement; geometry and its
proofs; ring and queue; datagram calls; TCP; keyboard; heap; the type and mirror
theorems of FAT32; ATA under TAB and failing drives; the console; the theorems
of the keyboard, the ring (with the refinement), the datagram calls and TCP; those of the
heap, of ATA (with the refinement), of the answers and of the order of the stream; the
chains, the files, the space, the names and the refinement of FAT32; the screen.

Next, models:

1. `Fat32` over `SectorDisk` with writes that the drive refuses, and what operations
   guarantee then.
2. `ncat`'s line buffer, and the send ring of four slots, in `Tcp`.
3. `Rtc`: hour and minute read from a clock that ticks, into a run with the timer.

## How to run

```
tlc -config MCFat32.cfg MCFat32
tlapm Fat32Proofs.tla
tlapm DiskProofs.tla
```

The largest run is `console`; each takes less than a minute or two. `PROJECT.json` has the list of
runs, the mutants that show that each property can fail, the lines of code each
definition stands for, and the hazards.
