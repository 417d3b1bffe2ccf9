# Formal model of the Lunar pre-kernel

The Lunar pre-kernel (`src/pre_kernel`) runs between a boot loader (Limine or
Tartarus) and the Lunar kernel.  One core builds a physical memory map, loads the
kernel image, builds page tables, a page database and per-core blocks, starts the
other cores, and then all cores jump into the kernel together.  This directory
holds TLA+ modules that model that program from its source, TLC configurations
that check them on small instances, and TLAPS proofs of the central results for
every instance.

Paths below are relative to `src/pre_kernel`.

## 1. The system

| part | state | operations | used by |
| --- | --- | --- | --- |
| physical memory manager (`src/memory/pmm.c`) | `g_pmm_map`, `g_pmm_map_size`; slots past the size keep old contents | `pmm_map_add`, `pmm_map_set` (recursive), `pmm_alloc_ext`, `pmm_alloc`, `pmm_alloc_at`, `pmm_free`, snapshots | everything |
| boot protocols (`src/boot/limine.c`, `tartarus.c`) | the boot loader's tables, the boot information block, a mailbox for each core | report the memory map, copy framebuffers and modules, start a core | entry points |
| page tables (`src/arch/*/ptm.c`) | `g_ptm` and the tables in memory | `ptm_init`, `ptm_map`, `ptm_map_at`, `ptm_create_hhdm_mappings` | loader, page database, hand-off |
| kernel loader (`src/loader/elfldr.c`) | `elfldr_loader_info_t` | load each PT_LOAD segment, find `prekernel_boot_info` | `prekernel_init` |
| page database (`src/memory/pagedb.c`) | none of its own | map a database slot for every page of memory | `prekernel_init` |
| core setup and hand-off (`src/init.c`, `src/arch/*/arch.c`) | `g_kernel_entry_point`, `g_ap_init_lock`, `g_running_cores`, `g_core_count`, the start information of every core | `arch_setup_cpus`, `prekernel_init_ap`, `sync_and_handoff` | all cores |
| machine initialisation (`src/arch/*/machine.c`) | registers, GDT and TSS of a core | `arch_machine_init` | all cores |
| publication of the memory map (`src/init.c:96-131`) | `mm_entries` of the boot information | retry until the block is large enough, convert the types | `prekernel_init` |
| console (`src/log.c`, `src/panic.c`, `src/runtime/ubsan.c`, `src/arch/x86_64/hardware/16550uart.c`) | `g_arch_16550uart_works`, the registers of the port | test and configure the port, print, panic, report undefined behaviour | all cores |
| RISC-V platform tables (`src/arch/riscv64/acpi.c`, `fdt.c`, `isa.c`) | the ISA strings of the boot information | find the paging mode and the instruction set, split the ISA string | `ptm_init`, `prekernel_init` |
| uACPI callbacks, C runtime (`src/runtime/mem.c`) | none | - | - |

What is hard in this code:

* `pmm_map_set` edits the array it is scanning, calls itself in the middle of an
  iteration, reads the slot after the last entry without asking whether it is in
  use, and joins a range to at most one neighbour.  `pmm_free` is the same
  function, and only works on ranges that one entry contains.
* A snapshot is sized before it allocates its own pages, which changes the map,
  and copies slots that are not in use.
* Cores are started one at a time while the boot processor is still working; they
  read plain variables after an atomic flag, and meet at a counter.  A core may
  panic on the way.
* The kernel gets a description of memory while other cores still execute in
  memory the description calls usable.
* The page table walk has to widen the rights of tables it passes, replaces what it
  finds in the last one, and refuses to go through a large page; the order and the
  sizes of the requests decide which of these happens.
* The page database and the direct map are made from snapshots, in which some slots
  are not in use, and take memory from the map they describe.
* The kernel's segments may share pages, and begin and end inside them.
* A RISC-V hart may see the two stores that start it in either order.
* All cores print through one serial port without a lock, and a port that stops
  sending must stop nobody.
* Firmware may provide ACPI tables, a device tree, both or parts of both, and the
  layout of the ISA strings is computed twice, once for the size and once for the copy.

Correctness, part by part: the map is a partition of the reported memory in which
the highest type wins, allocations are disjoint, stay whole and come from free
memory, and nothing is lost when the array is full; snapshots are complete; every
core gets its own id, stack, cpu-local area and block; nobody enters the kernel
before everybody is ready and everything the kernel is given exists; all cores get
there unless one panics; and then none does.  A request to map a range maps exactly
its pages with the rights asked for; the direct map reaches all memory, the page
database has a mapped element for every page; the kernel finds its segments where it
was linked to be, and a description of memory that is complete and true.  Printing ends
whatever the port does and loses nothing while the port works; a panic never returns.
The kernel reads the firmware's ISA string, and a machine whose device tree is complete
boots whatever its ACPI tables lack.

## 2. Modules

| module | what it is |
| --- | --- |
| `Pmm` | `pmm.c` at code level: variables `g_pmm_map`, `g_pmm_map_size`, the stack of activations of `pmm_map_set`, and why the machine has stopped.  One action per branch of one loop iteration, and one per way of ending the function |
| `PmmClients` | `Pmm` under its callers: the memory map is reported, then pages are allocated and freed and snapshots taken.  Holds the properties |
| `PageKinds` | what the memory manager promises: every address has one kind.  `PmmClients` implements it (`ImplementsPageKinds`) |
| `PmmInvariant` | the inductive invariants `IInv` and `StrongInv` |
| `PmmOverlap` | the manager while ranges that overlap are reported |
| `PageDb` | the memory manager's reports and allocations followed by `pagedb_setup`, with the snapshots that really occur |
| `Publish` | `PageDb` followed by the allocations of the core setup and the publication of the memory map in `prekernel_init`, which takes its own memory from that map |
| `PublishInvariant` | the inductive invariants of `Publish` and of the page database |
| `MemoryProofs` | proofs about all of the above, in this order: the map and its allocations; reported memory and snapshots; the refinement of `PageKinds`; ranges that overlap; the published map; the page database |
| `Handoff` | `arch_setup_cpus` of both architectures, the rest of `prekernel_init`, `prekernel_init_ap`, `arch_machine_init` and `sync_and_handoff`, one core's step between two accesses to shared memory being one action |
| `Rendezvous` | what the hand-off promises; `Handoff` implements it |
| `HandoffInvariant`, `HandoffProofs` | the inductive invariant of `Handoff`, and the proofs from it |
| `AddressSpace` | what the page table code promises: a request is carried out page by page and nothing else changes; pages asked for with rights that the processor refuses are out of reach |
| `Paging` | constants and notions both architectures share |
| `Ptm` | `arch/x86_64/ptm.c`: the walk of `map_page`, one table at a time; implements `AddressSpace` for two roots |
| `PtmClients` | `Ptm` under its users in the order of `prekernel_init`: loader and page database, `ptm_create_hhdm_mappings`, `arch_prepare_handoff` |
| `PtmRiscv` | `arch/riscv64/ptm.c`, where tables carry no rights, an entry without rights reads as a table, and the two roots may have different depths; implements `AddressSpace` too |
| `PagingProofs` | lemmas about blocks, levels and tables that both architectures need |
| `PtmProofs`, `PtmRiscvProofs` | the inductive invariants of the walks, and the proofs from them |
| `KernelLoader` | `elfldr_load_kernel`: program headers, pages, contents, and the section `prekernel_boot_info` |
| `BootInfo` | the boot information block of both protocols, and then `KernelLoader` on the same memory |
| `BootInfoProofs` | the inductive invariant of the boot information and the loader, and the proofs from it |
| `Console` | `16550uart.c`, `log.c`, `panic.c`, `ssp.c`, `ubsan.c` and uACPI's log callback: the port is tested and configured register by register, then cores print; one access to the port is one action, and so is each byte the port sends |
| `ConsoleInvariant`, `ConsoleProofs` | the inductive invariant of `Console`, and the proofs from it |
| `Platform` | `arch_acpi_detect_mmu_levels`, `arch_fdt_detect_mmu_levels`, `arch_parse_extentions` and `parse_isa_string` of RISC-V |
| `PlatformProofs` | the inductive invariant of `parse_isa_string`, and the proofs from it |
| `MC*` | the ranges, requests, snapshots and images used for model checking |

How state corresponds:

* Addresses are natural numbers and a page has `PTM_PAGE_GRANULARITY` of them;
  wrap-around at 2^64 is not modelled (no range of a real memory map reaches it).
* `calls` holds the parameters and the loop index of every activation of
  `pmm_map_set`, innermost first.  The parameters change during the scan in the
  code too.  `SplitRange` replaces its own activation by the two calls that the
  code makes just before it returns.
* `panic` is the message of the panic that stopped the machine.  Reading one entry
  past a full array (`pmm.c:113`) is undefined: it ends either in a stop by the
  sanitizer or in the panic of `map_insert`.  A third outcome is not modelled: in a build
  without the sanitizer the word behind the array may happen to match the range, and is
  then extended outside the map, and the range lost.  What lies there is not known here.
* In `Handoff`, `argument` and `goto_address` are the two words of a core's
  mailbox (for Tartarus `argument` and `park_address`), `start_info` the block of
  `core_start_info_t`, and `arch_info[k] = c` says that slot k holds the GDT and TSS of
  core c (x86_64, written by the core), or its global pointer (riscv64, written by the
  boot processor).  `args` is what a core passes to the trampoline.  Stores become
  visible in program order, as on x86_64, except that a hart may see the two stores into
  its mailbox the other way round (`EarlyGoto`, `LateArgument`): they are plain, and
  nothing orders them.  All other shared data is read after the acquire of
  `g_ap_init_lock`, which orders it.  A hart that got no argument follows a null
  pointer, and `riscv64_early_trap_handler` keeps it.  A core whose CPU lacks FXSR
  panics; the boot processor may also panic before it publishes the memory map (out of
  memory, bad image).
* In `Ptm` and `PtmRiscv` an entry of a table is named by its level and by the block of
  addresses it translates, not by the page that holds it: every table comes fresh from
  `pmm_alloc` and has one entry that refers to it.  `request` is what is left of the
  call of `ptm_map`, `level` the loop variable of `map_page`, and `Translation` what the
  processor's own walk gives.  On riscv64 `SetPage` stores what `map_page` stores, which
  for a request without rights is V alone: a "table" to every later walk (`KindOf`).
* In `PageDb`, `db` is the set of pairs of a database address and the frame mapped
  there, so that a page mapped twice shows as two pairs.  The tables that `ptm_map`
  allocates on the way are allocations that may or may not happen.
* In `Publish`, `SetupCores` is one allocation of the core setup (`init.c:86-94`), and
  happens as often as memory allows: the start information, a block and a stack for each
  core, the snapshot and the tables of the direct map, the trampoline's.  That the
  direct map gives its snapshot back is left out there.
* In `KernelLoader`, a byte of memory is named by its offset in the image's file, and
  the memory manager may return any free pages.  `space` is what was asked of `ptm_map`;
  what a processor makes of it is the page table modules' part.  `BootInfo` gives every range that is
  written a content of its own, so that a range that is overwritten shows.
* In `Console`, `uart` holds the registers of the port as the code uses them, with the
  data and interrupt registers standing for the divisor while DLAB is set.  The scripts
  are the register writes of the set-up functions in order; a read-modify-write of the
  line register is one access, since only the boot processor runs it.  The delays of the
  self test are steps of the port, which may be late.  A text is a sequence of pieces of
  one character each, and a character is known by the core that printed it.  The
  hardware (`Device`, `WriteData`, `Transmit`) is external; the port is found with nothing left to
  send.
* In `Platform`, a table is the sequence of its nodes with what the code asks of them.
  Offsets in the ISA string and in its buffer are real: what the kernel reads back is
  computed from the buffer (`ReadBack`).  `rdsp_physical` is "stale" when the boot loader
  gave none and the page of the block was not zero (`limine.c:123`).

How modules compose: `PmmClients` and `PmmOverlap` extend `Pmm`, `PageDb` extends
`PmmClients`, whose actions it uses, and `Publish` extends `PageDb`: one behaviour goes
from the first report of memory to the published map.  `PtmClients` extends `Ptm`, and
`BootInfo` extends `KernelLoader`.  What one part needs of another that is modelled apart
is stated as an assumption of the module (the form of a snapshot, of an image) and is
what a property of the other shows: a snapshot's unused slots lie in reported memory
(`StaleSlotsReported`).

## 3. Runs

| run | question | size |
| --- | --- | --- |
| `pmm` | all operations, disjoint ranges with unaligned edges; an array of 6 slots, which may overflow, and an allocation at a fixed address; also checks the inductive invariant `StrongInv` | 27 000 states |
| `pmm_overlap` | any 3 ranges out of 45 (6 addresses, 3 types) in any order | 205 000 |
| `pmm_edge` | counterexample: two ranges that share an edge | - |
| `handoff` | 4 cores of either architecture, boot processor at index 1, any set of cores without FXSR, any order of a hart's mailbox stores; also checks the inductive invariant | 10 000 |
| `handoff_arch` | counterexample: the last core's block | - |
| `handoff_usable` | counterexample: usable memory still in use | - |
| `ptm` | any two early requests out of seven, the direct map of any of 20 snapshots, the trampoline; with and without NX and 1G pages | 79 000 |
| `ptm_riscv` | any sequence of requests and of slots of the direct map, on two sets of tables, of 3 or 4 and of 3 levels; requests without rights and for writing alone among them | 43 000 |
| `publish` | reports and allocations, then the database, the core setup with any number of allocations, and the publication, retries included | 88 000 |
| `boot_info` | five boot loader tables of both protocols, then 30 layouts of program headers with different sections, each with any amount of memory in use | 347 000 |
| `console` | five kinds of port, then two calls of any of three cores that print any message, panic or report; also checks the inductive invariant | 302 000 |
| `platform` | ISA strings of up to 6 characters, with combinations of ACPI nodes and device trees | 54 000 |

Bounds.  A page has 4 addresses, so a range can start and end at any offset in a
page.  `MCRegions` of `MCPmm` has free memory that is unaligned at its start, two
adjacent ranges of different types and an empty range; sizes of 0, 1 and 2 pages
with at most 3 allocations at a time (`MaxOwned`) let a freed page lie between,
before and after others of both allocation types, which are all the neighbour
cases of `pmm.c:109-117`.  With 6 slots (`PMM_MAP_MAX_ENTRIES`) most behaviours fit
and some fill the array, both with and without a neighbour to join.  For overlaps, three ranges are enough for one
to meet two entries with different outcomes.  Four cores give three that can be
overtaken by each other.

Tables have two entries (a block has two blocks of the next size), and a page two
addresses, so that four levels fit into 32 addresses; this keeps every relation between
the sizes that the walk distinguishes.  Requests include one that needs every page size,
ones that overlap it with smaller pages and other rights, an unsuitable physical address
and empty and unaligned ones; those of `MCPtmRiscv` also one without rights and one for
writing alone.  The direct map may start at any page (`ClientsAssumption`); that of
`MCPtm` starts at a top-level block.  The snapshots of `MCPtm` have entries that share a page,
and a third slot that is empty or repeats memory of the second, as unused slots do.  In
`MCPublish` a page holds two elements and two thirds, so that elements lie across pages;
`BootHhdmSizes` has a value below the map's end and one above it that is not aligned;
`MaxTables` = 1 lets a table come out of the map at every place, and a page holds eight
entries of the description, so that the block may be too small after its own
allocation.  The names of `MCBootInfo` end before,
at and after the end of a page.  Its images have two segments in all
relative positions, of which one may be empty or have less in the file than in memory.

In `MCConsole.cfg`, three cores and a FIFO of three bytes are the smallest instance in which
every core can write into the room that all of them saw; the retries of the self test
and the looks at the transmitter are cut from 5 and 100000 to 2, which keeps a first, a
repeated and a last one.  `FIFO_DEPTH` exceeds the number of cores that print at once,
which is the assumption `ConsoleAssumption` (`FIFO_DEPTH > ApCount`) behind `NoOverrun`:
a real port has 16.  In `MCPlatform`, strings over two letters and the underscore contain empty
extensions, leading and trailing underscores and none at all, and pages of the buffer are
small enough for the strings to reach their end.

Fairness.  `FairSpec` of `PmmClients` says that a call under way continues: there
is one thread and no interrupt.  `Fairness` of `Handoff` says that every core keeps
executing: each is a processor of its own and none is ever stopped by another.
Nothing is assumed of what a core is waiting for.  `Console` assumes the same of the
cores and nothing of the port: `Transmit` has no fairness.  `Publish`, `Platform`,
`PtmClients` and `PtmRiscv` assume that the boot processor, the only one that executes this code, goes on
with what it has begun.  All fairness is weak.

`CHECK_DEADLOCK FALSE` is set because the pre-kernel does stop: in a panic, and when
the last core has entered the kernel.

### What the counterexamples show

* `pmm_edge`: a range of a higher type reported over an entry with the same start
  (or end) and a shorter length is inserted beside it, because `pmm.c:80` compares
  both edges strictly.  `HighestTypeWins` shows that this is the only relative
  position of two ranges that goes wrong, and `AllocationInOneEntry` that
  allocating and freeing never produce it.
* `handoff_arch`: `core_id++` at `arch.c:86` happens before `core_id` is used as an
  index at `arch.c:89`.  The slots of different cores are still distinct
  (`OwnResources`), but the last one is one past the array.  The rounding to a page
  hides this unless the blocks fill their pages; the RISC-V code has the same lines.
* `handoff_usable`: the pre-kernel's image and the boot loader's stacks are
  published as usable (`init.c:117`), and the first core that leaves the barrier
  enters the kernel while others have still to leave the loop at `init.c:26`.

### What the passing runs say besides

Some properties are stated with the exceptions that the code really has:

* `IsaKept`: of an ISA string without an underscore (`rv64imafdc`) the first letter is
  lost and the rest is published as an extension with an empty base, because
  `isa.c:14` uses the length 0 for "none found yet".
* `OverrunBounded`: the size of the ISA buffer does not count the padding before the
  pointers, so the last string may end up to a pointer's size less one byte past the
  allocated pages.
* `CompleteTreeBoots`: ACPI tables without an ISA string node are not followed by the
  device tree but by a null pointer (`acpi.c:84`), and a Limine boot without an RSDP
  depends on the page of the block being zero, although `bootinfo.h:89` says
  "can be 0 if not provided".
* `ImplementsAddressSpace` on riscv64: a segment of the kernel without R is passed on as
  it is (`elfldr.c:109`).  Without any right the entry is V alone, which at the last level
  is nothing and to a later walk a pointer to a table; W without R is reserved.  The
  processor faults on the pages of either, and they are exactly what such a request puts
  out of reach.  On x86_64 every page that is mapped can be read.
* `ImageLoaded`: the part of a segment that shares a page with a later one is lost from
  the kernel's view, the whole of the page being the later one's.
* `SnapshotComplete`: a snapshot whose pages are at address 0 panics (`pmm.c:167`),
  since `pmm_alloc` gives page 0 out like any other and the caller takes it for NULL.
* `DescriptionEnds`: a panic counts as an end.  One of them is that of `ptm_map` for a
  database that starts after an unaligned `hhdm_size` (`pagedb.c:16`).
* `NoOverrun`: with more cores than the FIFO has places, each of which prints as it
  starts (`machine.c:51`), characters may be lost.
* `AllEnterKernel`: on riscv64 a hart that reads its mailbox too early traps, and then no
  core enters the kernel (`KernelReady`).
* `OnlyLogged` is about ports with a loopback and a FIFO: a 16450 that is late with the
  bytes of the self test sends them.

Seen while reading, outside the models: `riscv64_init_gp` loads 0 and ignores the global
pointer that it is given (`handoff.S:52`); `write_xcr0` is never set, so XCR0 is never
written (`machine.c:48, 104`); and `arch.c:70` clears the core block with the size of the
larger architecture block, which from 25 cores on (and 168 bytes each) reaches the
pages after it.

## 4. Proofs

Every theorem holds for every value of the constants that satisfies the named
assumptions of its module, plus the hypotheses given below.

| part | theorem | statement | hypotheses |
| --- | --- | --- | --- |
| `MemoryProofs` | `TypeCorrect` | `[]TypeOK` | none |
| | `Invariance` | `[]IInv` | disjoint ranges |
| | `MapStaysSorted` | `[]MapSorted` | disjoint ranges |
| | `AllocationsStayWhole` | `[]AllocationInOneEntry` | disjoint ranges |
| | `SlotsStayReported` | `[]StaleSlotsReported` | none |
| | `StrongInvariance` | `[]StrongInv` | disjoint ranges |
| | `SnapshotsComplete` | `[]SnapshotComplete` | disjoint ranges |
| | `PageKindsImplemented` | `ImplementsPageKinds` | disjoint ranges |
| | `HighestTypeAlwaysWins` | `OverlapSpec => []HighestTypeWins` | none |
| | `MapPublishedTruthfully` | `[]PublishedTruth` | disjoint ranges |
| | `PagedbAlwaysInside` | `[]PagedbInside` | disjoint ranges, (S) |
| | `PagedbAlwaysMappedOnce` | `[]PagedbMappedOnce` | disjoint ranges, (S) |
| | `PagedbEndsComplete` | `[]PagedbComplete` | disjoint ranges, (S) |
| `BootInfoProofs` | `BootInfoAlwaysIntact` | `[]BootInfoIntact` | none |
| | `ImageAlwaysLoaded` | `[]ImageLoaded` | none |
| | `KernelInfoAlwaysFound` | `[]KernelInfoFound` | none |
| `HandoffProofs` | `Invariance` | `[]IInv` | none |
| | `CoresOwnTheirResources` | `[]OwnResources` | none |
| | `KernelIsReady` | `[]KernelReady` | none |
| | `StartedRowsFrozen` | `StartInfoFrozen` | none |
| | `RendezvousImplemented` | `ImplementsRendezvous` | none |
| `ConsoleProofs` | `Invariance` | `[]IInv` | none |
| | `PortStaysReady` | `[]PortReady` | none |
| | `OnlyLoggedLeaves` | `[]OnlyLogged` | none |
| | `NothingLost` | `[]NoOverrun` | none |
| `PtmProofs` | `Invariance` | `[](IInv /\ ClientTypes)` | none |
| | `PagesDecide` | `[]PageDecides` | (D) |
| | `AddressSpacesImplemented` | `ImplementsAddressSpace` | (D) |
| | `DirectMapComplete` | `[]DirectMapped` | (D), (L) |
| | `TrampolineReachable` | `[]TrampolineInBoth` | (D) |
| | `RemapOnlyForSharedPages` | `[]RemapNeedsSharedPage` | (D), (O) |
| `PtmRiscvProofs` | `Invariance` | `[]IInv` | none |
| | `PagesStayWellPlaced` | `[]PagesWellPlaced` | (W) |
| | `AddressSpacesImplemented` | `ImplementsAddressSpace`, for any rights asked for | none |
| `PlatformProofs` | `ParserPositions` | `[]ParseInv` | none |
| | `IsaAlwaysKept` | `[]IsaKept` | none |
| | `OverrunAlwaysBounded` | `[]OverrunBounded` | none |

"Disjoint ranges" is `RegionsDisjoint`: no address is in two of the ranges that the boot
loader reports.  (S), and (D), (W), (L) and (O), are explained below.  Where the table
says "none", the theorem needs no more than the assumptions of the module.

The proof that a step preserves an invariant has one lemma or step per action, and
under it one step per conjunct that the action can disturb.

### The memory manager

`MapSorted` and `AllocationInOneEntry` are not inductive.  In the middle of a scan
some memory is in no entry: it is held by the parameters of the activations.  `IInv`
says where: an activation that is alone either covers memory that no entry has
(`Clear`) or lies inside one entry the scan has not reached (`InsideAhead`); when
there are two, the lower one has just cut its range out of an entry and the upper one
puts back what came after it.  The recursion is therefore never deeper than two.
`Held` follows each allocation through that state, `TodoInv` keeps memory that is
still to be reported out of the map, and `StaleInv` says that an unused slot starts
where mapped memory starts, which is why the comparison of `pmm.c:113` with an
unused slot never succeeds: the range above every entry would have to end where
mapped memory starts.  The disjointness hypothesis is needed: `pmm_edge` is a
counterexample without it.

`StrongInv` adds two parts.  `KnownInv` says that the slots, the activations and the
allocations only hold memory that has been reported; `StaleSlotsReported` is its first
part, and it needs no disjointness, since every branch of the scan only moves, cuts or
joins what is there.  `RoomInv` counts, while a snapshot's own pages are being
allocated, how many entries the activations can still add: one each, and one more when
a lone activation lies inside an entry that it has yet to split.  That is the
two slots that the snapshot has been given beyond the size of the map.

`PageKindsImplemented` maps an address to the type it will have when the calls have
returned (`SettledKind`): that of the activation that covers it, where it is forced or
higher, or else of the entry that contains it.  Every branch of an iteration hands
memory from the one to the other, and leaves that type alone.

With ranges that overlap most of `IInv` fails: the stack of activations may be of any
depth, and allocated types do not occur.  `OverlapInv` is what a scan preserves then.
`KindInv` speaks of what an entry or an activation gives to an address (`HasType`) and
says that the highest of these is the highest reported.  Each branch may drop a type only
where a type as high remains, which is the lemma on each branch (`TypesKept`).  `StackInv`
says that the entries an activation has passed have nothing of its range left, and
`GapInv` that an activation which `SplitRange` has left for later is separated from
those above it by an entry, so that none of them meets an address of another.  All of it
holds until the scan meets a range that covers an entry and shares one of its edges;
`edgeMissed` remembers this, and it is the one exception that `HighestTypeWins` makes.

### The page database and the published map

`PublishInvariant` holds the invariants.  Both proofs are about all the steps of one
behaviour, from the first report to the publication, and rest on `StrongInv`.

For `PublishedTruth`, `TruthInv` says what becomes of every reported address: if an
allocation has it then it was reported as free, and otherwise the type it settles to is
the type it was reported with.  Allocations of the clients, of the database, of the core
setup and of the block itself all change the map by way of the same few lemmas
(`AllocMemory` and its like).  `BlockInv` says that the block of the description is the
one that was asked for last.  That the entries fit is a count: they are numbered by their
place in the map.

For the page database, `HhdmInv` says that the direct map reaches all memory (the size
that the boot loader gave, raised to the end of each range); `SlotsInv` that every slot of
the snapshot, in use or not, ends below that, and that every address of memory is in a
slot that no earlier slot starts above.  This is what is left of the order of the map:
slots that are not in use come last and repeat older memory.  `WindowInv` keeps the walk
on whole pages and inside the window, `FramesInv` keeps the pages that are mapped below
those that will be, each with an allocation of its own.  `WalkInv` is the heart: below
`pagedb_mapped_end` there may be holes, where memory has them, but none above the start
of every slot so far.  A slot that starts lower than that point, as an unused slot may,
is cut at `pagedb_mapped_end` without loss when no slot before it starts
higher.  `Described` follows when the walk ends.  Byte offsets are kept relative to pages
(`AtPage`), so that the products of variables stay in a few lemmas.

* (S) `[]InArray`: a snapshot, which has two slots more than the map has entries, does
  not reach past `g_pmm_map`.  With a map of 1023 or 1024 entries it does: `memcpy`
  (`pmm.c:171`) then copies what the linker put behind the array, and nothing can be said
  of a database made from that.  `PublishedTruth` does not need it.

TLC has checked these invariants and (S) in every state of the instance of `MCPublish`.

### The boot information and the loader

`BootIInv` says that everything written so far is there, in pages that are allocated
(`WrittenKept`), and that from the block's pointer to the end of its pages nothing has
been written (`BlockRoom`), where the pointer is a function of the records so far
(`FramebufferAt`, `ModuleAt`).  The size that is computed before the first store is the
same sum over the same records, although the code computes it in a loop of its own.
Every later allocation is of pages that nobody has, so that it disturbs nothing.  For the
loader, `HeadersLoaded` says of each header so far that some segment has its bytes in
pages of its own, and that its pages are mapped there unless a later header has touched
them.  Three facts are about all numbers up to some number, for instance that the sums of
sizes grow.  They are proved without induction, from the least number for which the fact
fails (`LeastNumber`, from the library's theorem that the finite subsets of the numbers
are well-founded).

### The hand-off

`OwnResources` and `KernelReady` are not inductive, since they say nothing of a core
that has been told of its row and has not used it yet.  `IInv` fixes what every core
is given as a function of its place in the list (`IdOf`, `SlotOf`, `RowOf`).  `LoopInv`
says how far `arch_setup_cpus` has come, `RowsInv` that the rows of started cores are
final, `CoresInv` what each core holds at each point of its way, `BspInv` what the boot
processor has published when it releases the lock, and `BarrierInv` that
`g_running_cores` is the number of cores that have arrived.  The last one is a
cardinality argument: the counter reaches the number of cores only if all of them have
arrived.  The theorems hold for any number of cores, any position of the boot
processor, and both architectures.

### The console

`PortInv` states the registers of the port before each write of the two scripts, so
that every byte of the self test and of the divisor is seen to stay inside: DLAB is set
while the divisor is written, the loop is closed during the test, and the flush comes
before it opens.  `TurnsInv` keeps the other cores silent until the boot processor has
finished.  `FifoInv` is the counting argument behind `NoOverrun`: a core that saw the
transmitter empty sends one byte before it looks again, so the bytes in the FIFO and the
cores about to send are together no more than there are cores, unless a wait was given
up.  This is where `ConsoleAssumption` is used: the FIFO has a place for every core.

### The page tables

The invariants are in the proof modules.  `WalkInv` says that the walk has
passed only tables; on x86_64, where rights are hierarchical, also that each of them now
allows what is asked for.  `TablesInv` says that where there is no table there is nothing
beneath, so that a new table brings no old entry back.  From these, a step that creates or
widens a table changes no translation, and the step that stores a page changes exactly
the addresses of its block: that is the refinement of `AddressSpace`, proved for both
architectures.

Nothing is assumed of the rights that callers of the riscv64 code ask for.  An entry
stored without rights reads as a table, and what keeps it harmless is that it is at the
last level: a request without rights is for one page, as the loader's are
(`RequestsAssumption`, `elfldr.c:107-113`), so that no walk ever goes through it.

The hypotheses are about what the boot loader and the callers hand over:

* (D) `Decides(BootTable)`: in the tables found at the start, each table allows what the
  pages below it allow.  A table that withheld a right from its pages would begin to
  grant it when a request widens the table, and a page nobody asked for would change.
* (W) `WellPlaced(BootTable)`: the pages found at the start are aligned to their size.
* (L) the trampoline ends below the direct map.  It is at 0x1000 (`arch.c:50`) and the
  direct map in the upper half.
* (O) what is mapped before the direct map lies outside it, and no empty slot of a
  snapshot starts within a page; a slot that was never used is zero.  An empty slot that
  starts within a page would still be rounded to a page of its own.

The properties of the direct map need more.  `DirectInv` says, slot by slot, what has
been mapped and that the rest of the slot in progress is what is left of the request
(`OrderInv`, `AskedInv`, `SlotsInv`).  A later slot may replace a page of an earlier
one, by one that maps the same addresses with the same rights.  `TrampolineInv` does the
same for the two requests of `arch_prepare_handoff`.  `OwnersInv` gives every page of
the direct map a slot it came from, so that a request that meets a large page has met a
page that another slot shares.  TLC has checked these invariants on the instance
of `MCPtm`, which also satisfies (D), (L) and (O); `MCPtmRiscv` satisfies (W).

### The ISA string

`ParseInv` ties the parser's two places together.  `PlaceInv` gives the one in the buffer
as a function of the one in the string: every character that the loop has passed takes
one byte after the pointers, underscores included, for each of these has become the NUL
of a piece.  It also says that there are no more pieces than underscores passed, so that
the pointers end where the first piece begins: no piece, and no pointer, is stored over
another.  From the two follows where the copy ends, which is `OverrunBounded`.
`ContentInv` says that the pieces found through the pointers, put together again, are the
string up to the next piece.  The last underscore is the exception of `IsaKept`: the loop
ends before it makes a piece of what follows.

What the kernel reads is a concatenation of any number of strings (`FlattenSeq`), which
is defined as a recursive function.  One piece more is one concatenation more
(`FlattenMore`): two such functions agree because there is no least place where they
differ, and one exists because there is no least length without one.  `LeastNumber`
stands in for induction here too.  The assumptions are that the string contains no NUL,
being a C string, and that the part of the buffer that is looked at (`MaxOffset`) is as
long as the longest string needs.  TLC has checked the parts of `ParseInv` in every state
of the instance of `MCPlatform`.

### Only model-checked

* Liveness: `CallsReturn`, `AllReported`, `AllEnterKernel`, `HandoffPrepared`,
  `MapReturns`, `DescriptionEnds`, `CallsEnd`, `CompleteTreeBoots`.  Fairness and ENABLED
  are out of the prover's reach.
* The statements that `pmm_edge`, `handoff_arch` and `handoff_usable` refute.

## 5. What is not modelled, and the plan

Not modelled: the values of the boot information's fields, of control registers and of
descriptors (they are constants of the code or copies of what the boot loader gave, and
nothing reads them back); formatting (nanoprintf is a vendored library without state);
`memset`, `memmove` and the string functions beyond what `Platform` uses;
`arch_16550uart_read` and `arch_16550uart_data_ready`, which nobody calls; libfdt and
uACPI, which are not in the repository.  Addresses do not wrap around.  Weak memory is
modelled where the code relies on plain stores without an acquire after them, the
mailboxes, and nowhere else.

Every safety property of the passing runs is proved, and so are the three refinements.
What is left to do: a description of the memory behind `g_pmm_map`, without which nothing
can be said of a snapshot that reaches past it; and the order of stores of a hart beyond
the mailboxes.
