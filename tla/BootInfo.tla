------------------------------ MODULE BootInfo ------------------------------
(***************************************************************************)
(* The boot information block that both boot protocols make for the kernel *)
(* (limine.c, tartarus.c), up to the loading of the kernel.  Its size is   *)
(* computed ahead from the boot loader's tables; then the block is filled  *)
(* record by record through a pointer that nobody checks, while modules    *)
(* are copied to pages of their own.  Composed with KernelLoader, which    *)
(* takes its pages from the same memory.                                   *)
(***************************************************************************)
EXTENDS KernelLoader, FiniteSets

CONSTANTS
    BootTables,             \* what the boot loader's tables may hold
    BOOTINFO_SIZE, FRAMEBUFFER_SIZE, MODULE_SIZE,   \* sizes of the records
    ACPI_PAGES              \* pages of the early buffer for ACPI tables

ASSUME BootInfoAssumption ==
    /\ {BOOTINFO_SIZE, FRAMEBUFFER_SIZE, MODULE_SIZE, ACPI_PAGES} \subseteq Nat
    /\ \A b \in BootTables :
          /\ b.protocol \in {"limine", "tartarus"} /\ b.rsdp \in BOOLEAN
          /\ b.framebuffers \in Nat
          /\ b.modules \in Seq([name : Nat, size : Nat])

VARIABLES
    boot,                   \* the boot loader's tables
    boot_stage,             \* where the entry point and prekernel_init are
    n,                      \* the record that is next
    boot_info_block_pointer,
    rdsp_physical,          \* whether the field is not 0
    written                 \* what has been written: set of ranges

bootVars == <<boot, boot_stage, n, boot_info_block_pointer, rdsp_physical, written>>
loaderVars == <<image, stage, i, info, space>>

BootInit ==
    /\ Init
    /\ boot \in BootTables
    /\ boot_stage = "block" /\ n = 1
    /\ boot_info_block_pointer = 0 /\ rdsp_physical = FALSE /\ written = {}

----------------------------------------------------------------------------

\* Mutant: the name without the byte that ends it.
NameUnterminated(m) == m.name
\* A module's name as it is stored; name is its strlen.
NameSize(m) == m.name + 1

\* The names of the first modules together.
NamesSize[k \in 0..Len(boot.modules)] ==
    IF k = 0 THEN 0 ELSE NamesSize[k - 1] + NameSize(boot.modules[k])

boot_info_block_size ==
    MATH_ALIGN_UP(BOOTINFO_SIZE + FRAMEBUFFER_SIZE * boot.framebuffers
                    + MODULE_SIZE * Len(boot.modules) + NamesSize[Len(boot.modules)])

PagesFor(bytes) == MATH_ALIGN_UP(bytes) \div PTM_PAGE_GRANULARITY

\* Every range gets contents of its own, so that losing any of it shows.
Fresh == -3 - Cardinality(written)
Filled(mem, base, length, content) ==
    [a \in DOMAIN mem |-> IF base <= a /\ a < base + length THEN content ELSE mem[a]]
Written(base, length, content) == [base |-> base, length |-> length, content |-> content]

\* The field rdsp_physical: Tartarus's entry copies it, Limine's leaves what it finds
\* in the page when there are no ACPI tables.
RsdpField ==
    IF boot.protocol = "tartarus" THEN {boot.rsdp}
    ELSE IF boot.rsdp THEN {TRUE} ELSE BOOLEAN

\* The block, and the fields of bootinfo_t.
AllocateBlock ==
    /\ boot_stage = "block"
    /\ \E p \in 0..PhysicalPages :
         /\ CanTake(p, PagesFor(boot_info_block_size))
         /\ taken' = taken \cup Run(p, PagesFor(boot_info_block_size))
         /\ LET base == p * PTM_PAGE_GRANULARITY
            IN  /\ memory' = Filled(memory, base, BOOTINFO_SIZE, Fresh)
                /\ written' = written \cup {Written(base, BOOTINFO_SIZE, Fresh)}
                /\ boot_info_block_pointer' = base + BOOTINFO_SIZE
    /\ rdsp_physical' \in RsdpField
    /\ boot_stage' = "framebuffers"
    /\ UNCHANGED <<loaderVars, boot, n>>

WriteFramebuffer ==
    /\ boot_stage = "framebuffers" /\ n <= boot.framebuffers
    /\ memory' = Filled(memory, boot_info_block_pointer, FRAMEBUFFER_SIZE, Fresh)
    /\ written' = written \cup {Written(boot_info_block_pointer, FRAMEBUFFER_SIZE, Fresh)}
    /\ boot_info_block_pointer' = boot_info_block_pointer + FRAMEBUFFER_SIZE
    /\ n' = n + 1
    /\ UNCHANGED <<loaderVars, taken, boot, boot_stage, rdsp_physical>>

StartModules ==
    /\ boot_stage = "framebuffers" /\ n > boot.framebuffers
    /\ boot_stage' = "modules" /\ n' = 1
    /\ UNCHANGED <<loaderVars, memory, taken, boot, boot_info_block_pointer,
                   rdsp_physical, written>>

module == boot.modules[n]
AtModule == boot_stage = "modules" /\ n <= Len(boot.modules)

\* The record, then the name; the module itself is copied to new pages.
CopyModule ==
    /\ AtModule /\ boot.protocol = "limine"
    /\ \E p \in 0..PhysicalPages :
         LET size == MODULE_SIZE + module.name + 1
             record == Written(boot_info_block_pointer, size, Fresh)
             data == Written(p * PTM_PAGE_GRANULARITY, module.size, Fresh - 1)
         IN  /\ CanTake(p, PagesFor(module.size))
             /\ taken' = taken \cup Run(p, PagesFor(module.size))
             /\ memory' = Filled(Filled(memory, record.base, size, record.content),
                                 data.base, data.length, data.content)
             /\ written' = written \cup {record, data}
             /\ boot_info_block_pointer' = boot_info_block_pointer + size
    /\ n' = n + 1
    /\ UNCHANGED <<loaderVars, boot, boot_stage, rdsp_physical>>

\* Tartarus's modules stay where the boot loader put them.
KeepModule ==
    /\ AtModule /\ boot.protocol = "tartarus"
    /\ LET size == MODULE_SIZE + module.name + 1
           record == Written(boot_info_block_pointer, size, Fresh)
       IN  /\ memory' = Filled(memory, record.base, size, record.content)
           /\ written' = written \cup {record}
           /\ boot_info_block_pointer' = boot_info_block_pointer + size
    /\ n' = n + 1
    /\ UNCHANGED <<loaderVars, taken, boot, boot_stage, rdsp_physical>>

EndModules ==
    /\ boot_stage = "modules" /\ n > Len(boot.modules)
    /\ boot_stage' = "acpi"
    /\ UNCHANGED <<loaderVars, memory, taken, boot, n, boot_info_block_pointer,
                   rdsp_physical, written>>

\* prekernel_init gives uACPI a buffer if it is told of ACPI tables.  What it finds
\* there is not known: it may refuse.
SetupAcpi ==
    /\ boot_stage = "acpi"
    /\ IF rdsp_physical
         THEN /\ \E p \in 0..PhysicalPages :
                    /\ CanTake(p, ACPI_PAGES)
                    /\ taken' = taken \cup Run(p, ACPI_PAGES)
              /\ boot_stage' \in {"load", "failed to setup acpi tables"}
         ELSE UNCHANGED taken /\ boot_stage' = "load"
    /\ UNCHANGED <<loaderVars, memory, boot, n, boot_info_block_pointer,
                   rdsp_physical, written>>

NoRoom(pages) == \A p \in 0..PhysicalPages : ~CanTake(p, pages)

EarlyOutOfMemory ==
    /\ \/ boot_stage = "block" /\ NoRoom(PagesFor(boot_info_block_size))
       \/ AtModule /\ boot.protocol = "limine" /\ NoRoom(PagesFor(module.size))
       \/ boot_stage = "acpi" /\ rdsp_physical /\ NoRoom(ACPI_PAGES)
    /\ boot_stage' = "out of memory"
    /\ UNCHANGED <<loaderVars, memory, taken, boot, n, boot_info_block_pointer,
                   rdsp_physical, written>>

LoadKernel == boot_stage = "load" /\ Next /\ UNCHANGED bootVars

BootNext ==
    \/ AllocateBlock \/ WriteFramebuffer \/ StartModules
    \/ CopyModule \/ KeepModule \/ EndModules
    \/ SetupAcpi \/ EarlyOutOfMemory
    \/ LoadKernel

BootSpec == BootInit /\ [][BootNext]_<<vars, bootVars>>

----------------------------------------------------------------------------

\* Nothing that was written for the kernel is ever lost: every record, name and
\* module lies in pages that were allocated for it and keeps its contents while the
\* rest of the block is filled, the modules copied and the kernel loaded, although
\* no store into the block is checked against its size (limine.c:112-186,
\* tartarus.c:56-110).
BootInfoIntact ==
    \A w \in written : \A a \in w.base..(w.base + w.length - 1) :
        /\ a \in DOMAIN memory /\ memory[a] = w.content
        /\ a \div PTM_PAGE_GRANULARITY \in taken
=============================================================================
