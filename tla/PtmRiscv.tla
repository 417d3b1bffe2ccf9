------------------------------ MODULE PtmRiscv ------------------------------
(***************************************************************************)
(* The page tables of the RISC-V pre-kernel (arch/riscv64/ptm.c).  Here an *)
(* entry with any right is a page and one with none refers to a table, so  *)
(* tables carry no rights, and a page asked for without any is stored as a *)
(* table; and the boot loader's tables, to which the trampoline is added,  *)
(* may have fewer levels than the pre-kernel's own.                        *)
(***************************************************************************)
EXTENDS Paging

CONSTANTS
    BootLevels,             \* levels of the boot loader's tables, from satp
    BootTable,              \* the boot loader's tables
    Requests,               \* what ptm_map and ptm_map_at are asked for
    Slots,                  \* slots of the snapshot that the direct map is made from
    hhdm_offset,            \* where the direct map starts
    BAD                     \* the type of memory that is not mapped

Root == {"own", "boot"}

VARIABLES
    entries,                \* the tables, by root and node
    g_level_count,          \* levels of the pre-kernel's own tables
    initialised,            \* ptm_init has run
    request,                \* what is left of the current call of ptm_map
    level,                  \* where the walk of map_page is
    panic

vars == <<entries, g_level_count, initialised, request, level, panic>>

EntryType == [kind : {"absent", "table", "page"}, rights : SUBSET Rights, paddr : Nat]
Absent == [kind |-> "absent", rights |-> {}, paddr |-> 0]

ASSUME BootAssumption ==
    /\ BootLevels \in 3..LevelCount
    /\ BootTable \in [Nodes -> EntryType]
    /\ NothingBeneath(BootTable, BootLevels)

\* The loader passes on the rights of a segment, which may be none at all, and asks
\* for one page at a time (elfldr.c:107-113); every other caller asks for READ.
ASSUME RequestsAssumption ==
    \A r \in Requests :
        /\ r \in [vaddr : Nat, paddr : Nat, length : Nat, flags : SUBSET Rights]
        /\ r.flags = {} => r.length <= PTM_PAGE_GRANULARITY
        /\ r.vaddr + r.length <= TopAddress

ASSUME SlotsAssumption ==
    /\ hhdm_offset \in Nat
    /\ \A s \in Slots : /\ s \in [base : Nat, length : Nat, type : Nat]
                       /\ hhdm_offset + s.base + s.length <= TopAddress

NoRequest ==
    [root |-> "own", vaddr |-> 0, paddr |-> 0, length |-> 0, rights |-> {"READ"}]

Init ==
    /\ entries = [r \in Root |-> IF r = "boot" THEN BootTable ELSE [n \in Nodes |-> Absent]]
    /\ g_level_count = 3
    /\ initialised = FALSE
    /\ request = NoRequest
    /\ level = 0
    /\ panic = "no"

\* What ACPI and, failing that, the device tree say; 0 is neither.
detect_max_level_count == {0} \cup 3..LevelCount

ptm_init ==
    /\ panic = "no" /\ ~initialised
    /\ \E n \in detect_max_level_count :
          IF n = 0
            THEN /\ panic' = "failed_to_detect_paging_mode"
                 /\ UNCHANGED <<g_level_count, initialised>>
            ELSE /\ g_level_count' = n
                 /\ initialised' = TRUE
                 /\ UNCHANGED panic
    /\ UNCHANGED <<entries, request, level>>

Idle == panic = "no" /\ initialised /\ request.length <= 0

----------------------------------------------------------------------------
(* Requests.                                                               *)

Ask(root, levels, r) ==
    /\ Idle
    /\ IF Unaligned(r.vaddr, r.paddr, r.length)
         THEN panic' = "unaligned" /\ UNCHANGED <<request, level>>
         ELSE /\ request' = [root |-> root, vaddr |-> r.vaddr, paddr |-> r.paddr,
                             length |-> r.length, rights |-> r.flags]
              /\ level' = levels
              /\ UNCHANGED panic
    /\ UNCHANGED <<entries, g_level_count, initialised>>

ptm_map(r) == Ask("own", g_level_count, r)
ptm_map_at(r) == Ask("boot", BootLevels, r)

\* One round of the loop of ptm_create_hhdm_mappings: the whole pages that a slot
\* touches.  Slots are taken in any order here.
MapSlot(s) ==
    /\ s.type # BAD
    /\ LET offset == s.base % PTM_PAGE_GRANULARITY
           length == s.length + offset
           short == length % PTM_PAGE_GRANULARITY
       IN  ptm_map([vaddr |-> hhdm_offset + s.base - offset, paddr |-> s.base - offset,
                    length |-> IF short = 0 THEN length
                               ELSE length + PTM_PAGE_GRANULARITY - short,
                    flags |-> {"READ", "WRITE"}])

total_levels == IF request.root = "own" THEN g_level_count ELSE BootLevels

----------------------------------------------------------------------------
(* map_page.                                                               *)

\* Mutant: the physical address is not looked at.
FitsVirtual(l) == request.vaddr % PageSize[l] = 0 /\ request.length >= PageSize[l]
FitsLevel(l) ==
    /\ request.vaddr % PageSize[l] = 0
    /\ request.paddr % PageSize[l] = 0
    /\ request.length >= PageSize[l]

\* The largest page that can translate the start of what is left.
choose_target_level ==
    CHOOSE l \in 1..3 :
        /\ l = 1 \/ FitsLevel(l)
        /\ \A m \in (l + 1)..3 : ~FitsLevel(m)

Here == Node(level, request.vaddr)
entry == entries[request.root][Here]

Mapping == panic = "no" /\ request.length > 0

\* Mutant: the walk goes on through a page as if it were a table.
NotAPage == FALSE
MeetsPage == entry.kind = "page"

Descend ==
    /\ Mapping /\ level > choose_target_level
    /\ ~MeetsPage
    /\ entries' = IF entry.kind = "table" THEN entries
                  ELSE [entries EXCEPT ![request.root][Here].kind = "table"]
    /\ level' = level - 1
    /\ UNCHANGED <<g_level_count, initialised, request, panic>>

\* pmm_alloc has no page for a new table, or for the first one.
OutOfMemory ==
    /\ panic = "no"
    /\ initialised =>
          Mapping /\ level > choose_target_level /\ entry.kind = "absent"
    /\ panic' = "out_of_memory"
    /\ UNCHANGED <<entries, g_level_count, initialised, request, level>>

RemapPanic ==
    /\ Mapping /\ level > choose_target_level
    /\ MeetsPage
    /\ panic' = "walked_into_existing_leaf_pte"
    /\ UNCHANGED <<entries, g_level_count, initialised, request, level>>

\* Mutant: the request does not advance.
Repeat == UNCHANGED request
Advance ==
    request' = [request EXCEPT !.vaddr = @ + PageSize[level], !.paddr = @ + PageSize[level],
                               !.length = @ - PageSize[level]]

\* An entry with no right but V does not translate: it is a pointer to a table.
KindOf(rights) == IF rights = {} THEN "table" ELSE "page"

\* The entry is stored whatever it was, a table included.
SetPage ==
    /\ Mapping /\ level = choose_target_level
    /\ entries' = [entries EXCEPT ![request.root][Here] =
                     [kind |-> KindOf(request.rights), rights |-> request.rights,
                      paddr |-> request.paddr]]
    /\ Advance
    /\ level' = total_levels
    /\ UNCHANGED <<g_level_count, initialised, panic>>

map_page == Descend \/ OutOfMemory \/ RemapPanic \/ SetPage

Next ==
    \/ ptm_init \/ map_page
    \/ \E r \in Requests : ptm_map(r) \/ ptm_map_at(r)
    \/ \E s \in Slots : MapSlot(s)

Spec == Init /\ [][Next]_vars

\* One thread: a call that has started goes on.
FairSpec == Spec /\ WF_vars(map_page)

----------------------------------------------------------------------------
(* What the processor makes of the tables.                                 *)

\* Rights with which a page faults on every access: an entry with V alone, at the
\* last level where there is no table to go to, and those with W but not R, which
\* are reserved.
Refused == {f \in SUBSET Rights : f = {} \/ ("WRITE" \in f /\ "READ" \notin f)}

LevelsOf(root) == IF root = "own" THEN g_level_count ELSE BootLevels

Translate(table, levels, v) ==
    IF \E l \in 1..levels : IsPage(table, levels, l, v)
      THEN LET l == CHOOSE l \in 1..levels : IsPage(table, levels, l, v)
               e == table[Node(l, v)]
           IN  IF e.rights \in Refused THEN Unmapped
               ELSE [paddr |-> e.paddr + (v % PageSize[l]), rights |-> e.rights]
      ELSE Unmapped

Translation(root, v) == Translate(entries[root], LevelsOf(root), v)

----------------------------------------------------------------------------
(* Properties.                                                             *)

\* The tables implement the address spaces, as those of x86_64 do: each request
\* maps its pages in order with the rights asked for, whatever the number of
\* levels of its tables, and changes no other page (ptm_map, ptm_map_at,
\* ptm.c:92-118).  A request for rights that are refused puts its pages out of
\* reach, and still changes no other, although its entry may read as a table's.
Spaces == INSTANCE AddressSpace WITH
    space <- [root \in Root |-> [v \in Page |-> Translation(root, v)]],
    pending <- request,
    stopped <- panic # "no"
ImplementsAddressSpace == Spaces!Spec

\* A page is stored where the hardware accepts it: aligned to its size, and not
\* larger than a gigabyte; a level above the third never holds one (ptm.c:73-79).
WellPlaced(table) ==
    \A n \in Nodes :
        table[n].kind = "page" => n[1] <= 3 /\ table[n].paddr % PageSize[n[1]] = 0
PagesWellPlaced == \A root \in Root : WellPlaced(entries[root])

\* Every request ends, or stops the machine (the loop of ptm_map, ptm.c:96).
MapReturns == request.length > 0 ~> (request.length = 0 \/ panic # "no")
=============================================================================
