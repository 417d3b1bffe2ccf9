-------------------------------- MODULE Ptm --------------------------------
(***************************************************************************)
(* The page tables of the x86_64 pre-kernel (arch/x86_64/ptm.c): its own,  *)
(* and the boot loader's, to which it adds the hand-off trampoline.        *)
(*                                                                         *)
(* One step is one iteration of the walk of map_page or the store that     *)
(* ends it.  Rights are hierarchical on this architecture: a page can be   *)
(* written only if every entry on the way to it allows it, and executed    *)
(* only if none forbids it, so the walk has to widen what it passes.       *)
(***************************************************************************)
EXTENDS Paging

CONSTANTS
    BootTable,              \* the boot loader's tables
    Requests                \* what the loader and the page database map

Root == {"own", "boot"}

VARIABLES
    entries,                \* the tables, by root and node
    g_x86_64_cpu_nx_support,
    g_x86_64_cpu_pdpe1gb_support,
    initialised,            \* ptm_init has run
    request,                \* what is left of the current call of ptm_map
    level,                  \* where the walk of map_page is
    panic

features == <<g_x86_64_cpu_nx_support, g_x86_64_cpu_pdpe1gb_support, initialised>>
vars == <<entries, features, request, level, panic>>

EntryType == [kind : {"absent", "table", "page"}, rw : BOOLEAN, nx : BOOLEAN, paddr : Nat]
Absent == [kind |-> "absent", rw |-> FALSE, nx |-> FALSE, paddr |-> 0]

ASSUME BootTableAssumption ==
    /\ BootTable \in [Nodes -> EntryType]
    /\ NothingBeneath(BootTable, LevelCount)
ASSUME RequestsAssumption ==
    \A r \in Requests :
        /\ r \in [vaddr : Nat, paddr : Nat, length : Nat, flags : SUBSET Rights]
        /\ r.vaddr + r.length <= TopAddress

NoRequest == [root |-> "own", vaddr |-> 0, paddr |-> 0, length |-> 0,
              rw |-> FALSE, nx |-> FALSE]

Init ==
    /\ entries = [r \in Root |-> IF r = "boot" THEN BootTable ELSE [n \in Nodes |-> Absent]]
    /\ g_x86_64_cpu_nx_support = FALSE
    /\ g_x86_64_cpu_pdpe1gb_support = FALSE
    /\ initialised = FALSE
    /\ request = NoRequest
    /\ level = LevelCount
    /\ panic = "no"

\* The top-level table is cleared, and cpuid is asked what the processor can do.
ptm_init ==
    /\ panic = "no" /\ ~initialised
    /\ initialised' = TRUE
    /\ g_x86_64_cpu_nx_support' \in BOOLEAN
    /\ g_x86_64_cpu_pdpe1gb_support' \in BOOLEAN
    /\ UNCHANGED <<entries, request, level, panic>>

Idle == panic = "no" /\ initialised /\ request.length <= 0

----------------------------------------------------------------------------
(* Requests.                                                               *)

Ask(root, r) ==
    /\ Idle
    /\ IF Unaligned(r.vaddr, r.paddr, r.length)
         THEN panic' = "unaligned_mapping" /\ UNCHANGED request
         ELSE /\ request' = [root |-> root, vaddr |-> r.vaddr, paddr |-> r.paddr,
                             length |-> r.length, rw |-> "WRITE" \in r.flags,
                             nx |-> g_x86_64_cpu_nx_support /\ "EXEC" \notin r.flags]
              /\ UNCHANGED panic
    /\ UNCHANGED <<entries, features, level>>

ptm_map(r) == Ask("own", r)
ptm_map_at(r) == Ask("boot", r)

----------------------------------------------------------------------------
(* map_page.                                                               *)

\* Mutant: how much is left of the request is not looked at.
FitsAnyLength(l) == request.paddr % PageSize[l] = 0 /\ request.vaddr % PageSize[l] = 0

\* A page of this level can translate the start of the request.
FitsLevel(l) ==
    /\ request.paddr % PageSize[l] = 0
    /\ request.vaddr % PageSize[l] = 0
    /\ request.length >= PageSize[l]

\* The level whose entry becomes the page: the size is chosen anew for what is
\* left of the request.
lowest_level ==
    IF g_x86_64_cpu_pdpe1gb_support /\ FitsLevel(3) THEN 3
    ELSE IF FitsLevel(2) THEN 2 ELSE 1

Here == Node(level, request.vaddr)
entry == entries[request.root][Here]

Mapping == panic = "no" /\ request.length > 0

\* Mutant: a table that forbids execution goes on doing so.
PassedNx == IF entry.kind = "absent"
              THEN [kind |-> "table", rw |-> request.rw, nx |-> request.nx, paddr |-> 0]
              ELSE [entry EXCEPT !.rw = @ \/ request.rw]

\* The entry after the walk has gone through it: a new table gets the rights of
\* the request, an existing one keeps its own and gets those in addition.
Passed == IF entry.kind = "absent"
            THEN [kind |-> "table", rw |-> request.rw, nx |-> request.nx, paddr |-> 0]
            ELSE [entry EXCEPT !.rw = @ \/ request.rw, !.nx = @ /\ request.nx]

Descend ==
    /\ Mapping /\ level > lowest_level
    /\ entry.kind # "page"
    /\ entries' = [entries EXCEPT ![request.root][Here] = Passed]
    /\ level' = level - 1
    /\ UNCHANGED <<features, request, panic>>

\* pmm_alloc has no page for a new table, or for the first one.
OutOfMemory ==
    /\ panic = "no"
    /\ initialised => Mapping /\ level > lowest_level /\ entry.kind = "absent"
    /\ panic' = "out_of_memory"
    /\ UNCHANGED <<entries, features, request, level>>

\* The walk meets a large page.
RemapPanic ==
    /\ Mapping /\ level > lowest_level
    /\ entry.kind = "page"
    /\ panic' = "cannot_remap"
    /\ UNCHANGED <<entries, features, request, level>>

\* Mutants: the request does not advance; only its virtual address does.
Repeat == UNCHANGED request
AdvanceVirtual ==
    request' = [request EXCEPT !.vaddr = @ + PageSize[level], !.length = @ - PageSize[level]]
\* The rest of the request, and a new walk for it.
Advance ==
    request' = [request EXCEPT !.vaddr = @ + PageSize[level], !.paddr = @ + PageSize[level],
                               !.length = @ - PageSize[level]]

\* The page is stored whatever the entry was, a table included.
SetPage ==
    /\ Mapping /\ level = lowest_level
    /\ entries' = [entries EXCEPT ![request.root][Here] =
                     [kind |-> "page", rw |-> request.rw, nx |-> request.nx,
                      paddr |-> request.paddr]]
    /\ Advance
    /\ level' = LevelCount
    /\ UNCHANGED <<features, panic>>

map_page == Descend \/ OutOfMemory \/ RemapPanic \/ SetPage

----------------------------------------------------------------------------
(* What the processor makes of the tables.                                 *)

MayWrite(table, l, v) == \A m \in l..LevelCount : table[Node(m, v)].rw
MayExecute(table, l, v) == \A m \in l..LevelCount : ~table[Node(m, v)].nx

RightsOf(rw, nx) ==
    {"READ"} \cup (IF rw THEN {"WRITE"} ELSE {}) \cup (IF nx THEN {} ELSE {"EXEC"})

Translate(table, v) ==
    IF \E l \in Level : IsPage(table, LevelCount, l, v)
      THEN LET l == CHOOSE l \in Level : IsPage(table, LevelCount, l, v)
           IN  [paddr |-> table[Node(l, v)].paddr + (v % PageSize[l]),
                rights |-> RightsOf(MayWrite(table, l, v), ~MayExecute(table, l, v))]
      ELSE Unmapped

Translation(root, v) == Translate(entries[root], v)

----------------------------------------------------------------------------
(* Properties.                                                             *)

\* Rights are decided by the page alone: every table on the way to a page allows
\* what the page allows, whatever was mapped through it before and after and with
\* which rights (ptm.c:69, 72, 74).
Decides(table) ==
    \A l \in Level, v \in Page :
        IsPage(table, LevelCount, l, v) =>
            /\ table[Node(l, v)].rw => MayWrite(table, l, v)
            /\ ~table[Node(l, v)].nx => MayExecute(table, l, v)
PageDecides == \A root \in Root : Decides(entries[root])

\* The tables implement the address spaces: each request maps its pages, in order
\* and with the rights asked for, no step changes any other page, and the steps
\* of a walk change none at all (ptm_map, ptm_map_at, ptm.c:97-129).
Spaces == INSTANCE AddressSpace WITH
    space <- [root \in Root |-> [v \in Page |-> Translation(root, v)]],
    pending <- [root |-> request.root, vaddr |-> request.vaddr, paddr |-> request.paddr,
                length |-> request.length, rights |-> RightsOf(request.rw, request.nx)],
    stopped <- panic # "no",
    Refused <- {}
ImplementsAddressSpace == Spaces!Spec
=============================================================================
