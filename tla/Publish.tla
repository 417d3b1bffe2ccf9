------------------------------ MODULE Publish ------------------------------
(***************************************************************************)
(* The end of the memory manager's work, after the page database:          *)
(* prekernel_init describes memory to the kernel (init.c:96-131).  The     *)
(* description needs memory itself, and getting that changes what is to be *)
(* described.                                                              *)
(***************************************************************************)
EXTENDS PageDb

CONSTANT MM_ENTRY_SIZE      \* sizeof(bootinfo_mm_entry_t), in address units

ASSUME EntrySizeAssumption == MM_ENTRY_SIZE \in Nat \ {0}

VARIABLES
    pmm_map_entries,        \* how many entries the block is to hold
    block,                  \* the block it has got
    mm_entries              \* what the kernel will read in it: a set of entries

publishVars == <<pmm_map_entries, block, mm_entries>>
pagedbResult == <<hhdm_size, slots, i, segment, frame, db, tables>>
bootVars == <<vars, dbVars, publishVars>>

NoBlock == [base |-> 0, length |-> 0, type |-> ALLOCATED, pages |-> 0]

PublishInit ==
    /\ DbInit
    /\ pmm_map_entries = 0 /\ block = NoBlock /\ mm_entries = {}

BlockPages(n) ==
    MATH_CEIL(n * MM_ENTRY_SIZE, PTM_PAGE_GRANULARITY) \div PTM_PAGE_GRANULARITY

\* Between the database and the description memory is taken once or more: for the
\* start information, for the block and the stacks of each core, for tables.
SettingUp == stage \in {"done", "cores"} /\ Idle

SetupCores ==
    /\ SettingUp
    /\ \E k \in Live, n \in PageCounts, t \in AllocTypes :
         LET addr == MATH_CEIL(g_pmm_map[k].base, PTM_PAGE_GRANULARITY)
         IN  /\ pmm_alloc_ext(n, PTM_PAGE_GRANULARITY, t, addr)
             /\ Own(addr, n, t)
    /\ stage' = "cores"
    /\ UNCHANGED <<todo, snapshot, pagedbResult, publishVars>>

CoresOutOfMemory ==
    /\ SettingUp
    /\ \E n \in PageCounts : pmm_alloc_ext_fails(n, PTM_PAGE_GRANULARITY)
    /\ UNCHANGED <<dbVars, publishVars, todo, owned, snapshot>>

Start ==
    /\ stage = "cores" /\ Idle
    /\ pmm_map_entries' = g_pmm_map_size
    /\ stage' = "allocate"
    /\ UNCHANGED <<vars, pagedbResult, block, mm_entries>>

AllocateBlock ==
    /\ stage = "allocate"
    /\ \E k \in Live :
         LET n == BlockPages(pmm_map_entries)
             addr == MATH_CEIL(g_pmm_map[k].base, PTM_PAGE_GRANULARITY)
         IN  /\ pmm_alloc_ext(n, PTM_PAGE_GRANULARITY, ALLOCATED, addr)
             /\ Own(addr, n, ALLOCATED)
             /\ block' = Allocation(addr, n, ALLOCATED)
    /\ stage' = "check"
    /\ UNCHANGED <<pmm_map_entries, mm_entries, pagedbResult, todo, snapshot>>

BlockOutOfMemory ==
    /\ stage = "allocate"
    /\ pmm_alloc_ext_fails(BlockPages(pmm_map_entries), PTM_PAGE_GRANULARITY)
    /\ UNCHANGED <<dbVars, publishVars, todo, owned, snapshot>>

\* Mutant: nobody looks.
NeverTooSmall == FALSE
TooSmall == g_pmm_map_size > pmm_map_entries

\* Mutant: the same again.
SameSize == pmm_map_entries
LargerSize == pmm_map_entries * 2

Retry ==
    /\ stage = "check" /\ TooSmall
    /\ pmm_free(block.base, block.pages)
    /\ owned' = owned \ {block}
    /\ pmm_map_entries' = LargerSize
    /\ stage' = "allocate"
    /\ UNCHANGED <<block, mm_entries, pagedbResult, todo, snapshot>>

EFI_RECLAIMABLE == 4
ACPI_RECLAIMABLE == 5
ACPI_NVS == 6

\* The type of an entry as the kernel sees it.
PublishedType(t) ==
    CASE t \in {FREE, BOOTLOADER_RECLAIMABLE, EFI_RECLAIMABLE} -> "USABLE"
      [] t = ALLOCATED -> "RECLAIMABLE"
      [] t = USED -> "USED"
      [] t = ACPI_RECLAIMABLE -> "ACPI_RECLAIMABLE"
      [] t = ACPI_NVS -> "ACPI_NVS"
      [] t = RESERVED -> "RESERVED"
      [] t = BAD -> "BAD"

Copy ==
    /\ stage = "check" /\ Idle /\ ~TooSmall
    /\ mm_entries' = {[base |-> g_pmm_map[k].base, length |-> g_pmm_map[k].length,
                       type |-> PublishedType(g_pmm_map[k].type), index |-> k] : k \in Live}
    /\ stage' = "published"
    /\ UNCHANGED <<vars, pagedbResult, pmm_map_entries, block>>

Publishing ==
    \/ SetupCores \/ CoresOutOfMemory \/ Start
    \/ AllocateBlock \/ BlockOutOfMemory \/ Retry \/ Copy

PublishNext ==
    \/ DbNext /\ UNCHANGED publishVars
    \/ Publishing

\* The boot processor goes on with what it has begun.
PublishSpec ==
    /\ PublishInit /\ [][PublishNext]_bootVars
    /\ WF_bootVars(Scan /\ UNCHANGED publishVars)
    /\ WF_bootVars(Setup /\ UNCHANGED publishVars)
    /\ WF_bootVars(Publishing)

----------------------------------------------------------------------------
(* Properties.                                                             *)

\* What an address is for, from what was reported and allocated.
TrueType(a) ==
    IF \E o \in owned : InRange(a, o)
      THEN (CHOOSE o \in owned : InRange(a, o)).type
      ELSE (CHOOSE r \in Regions : InRange(a, r)).type

\* However the allocation of the block split and joined entries, the block has
\* room for all of them, and the kernel reads one type for every reported address,
\* the true one: no memory that is allocated, the block itself included, is usable,
\* none that is free is withheld, and nothing is described twice (init.c:98-131).
PublishedTruth ==
    stage = "published" =>
        /\ Cardinality(mm_entries) * MM_ENTRY_SIZE <= block.length
        /\ \A a \in Address :
              {e.type : e \in {m \in mm_entries : InRange(a, m)}} =
                  IF \E r \in Regions : InRange(a, r) THEN {PublishedType(TrueType(a))} ELSE {}

\* The database is set up and the map is published, or the machine has stopped:
\* the loop over the snapshot takes from the map it describes, and every attempt
\* to publish may split more entries than the one before (pagedb.c:23, init.c:98).
DescriptionEnds == stage = "setup" ~> (stage = "published" \/ panic # "no")
=============================================================================
