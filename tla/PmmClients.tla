----------------------------- MODULE PmmClients -----------------------------
(***************************************************************************)
(* The memory manager of Pmm under the calls the rest of the pre-kernel    *)
(* makes: the boot protocol reports the memory map range by range          *)
(* (limine.c, tartarus.c), and only then do the loader, the page tables,   *)
(* the page database and the core setup allocate and free pages, and take  *)
(* and free snapshots of the map.  The boot processor makes every call, so *)
(* an operation starts only when the one before it has returned.           *)
(***************************************************************************)
EXTENDS Pmm, FiniteSets

CONSTANTS
    Regions,            \* what the boot protocol reports: set of Entry
    PageCounts,         \* sizes asked for
    AllocTypes,         \* types asked for
    FixedAddresses,     \* addresses pmm_alloc_at is asked for; it has no caller
    ENTRY_SIZE,         \* sizeof(pmm_map_entry_t), in address units
    Address,            \* the addresses the properties look at
    MaxOwned            \* bound: allocations outstanding at a time

ASSUME RegionsAssumption == Regions \subseteq Entry
ASSUME ClientsAssumption ==
    /\ PageCounts \subseteq Nat
    /\ AllocTypes \subseteq Types \ {FREE}
    /\ FixedAddresses \subseteq Nat
    /\ ENTRY_SIZE \in Nat \ {0}
    /\ Address \subseteq Nat
    /\ MaxOwned \in Nat

VARIABLES
    todo,               \* ranges not reported yet
    owned,              \* allocations not freed yet
    snapshot            \* the snapshot being made or in use

vars == <<g_pmm_map, g_pmm_map_size, calls, panic, todo, owned, snapshot>>

\* An allocation, as its owner knows it: the pages are what it will free.
Allocation(addr, n, t) ==
    [base |-> addr, length |-> Pages(n), type |-> t, pages |-> n]

NoSnapshot == [state |-> "none"]

\* Mutant: room for one more entry only.
SnapshotSlotsOne(size) == size + 1
\* How many slots a snapshot of a map of the given size copies.
SnapshotSlots(size) == size + 2

SnapshotPages(count) ==
    MATH_CEIL(count * ENTRY_SIZE, PTM_PAGE_GRANULARITY) \div PTM_PAGE_GRANULARITY

Init ==
    /\ PmmInit
    /\ todo = Regions
    /\ owned = {}
    /\ snapshot = NoSnapshot

----------------------------------------------------------------------------
(* Operations.                                                             *)

\* The boot protocol's loop over its memory map.
Report(r) ==
    /\ pmm_map_add(r.base, r.length, r.type)
    /\ todo' = todo \ {r}
    /\ UNCHANGED <<owned, snapshot>>

MayCall == todo = {} /\ snapshot.state # "allocating"

MayOwn == Cardinality(owned) < MaxOwned

\* Nobody frees an allocation of no pages, so it is not remembered.
Own(addr, n, t) ==
    owned' = IF n = 0 THEN owned ELSE owned \cup {Allocation(addr, n, t)}

Allocate(n, t) ==
    /\ MayCall /\ MayOwn
    /\ \E k \in Live :
         LET addr == MATH_CEIL(g_pmm_map[k].base, PTM_PAGE_GRANULARITY)
         IN  /\ pmm_alloc_ext(n, PTM_PAGE_GRANULARITY, t, addr)
             /\ Own(addr, n, t)
    /\ UNCHANGED <<todo, snapshot>>

AllocateAt(addr, n, t) ==
    /\ MayCall /\ MayOwn
    /\ pmm_alloc_at(addr, n, t)
    /\ Own(addr, n, t)
    /\ UNCHANGED <<todo, snapshot>>

\* Also the end of pmm_create_snapshot when its pages cannot be had.
OutOfMemory(n) ==
    /\ MayCall
    /\ pmm_alloc_ext_fails(n, PTM_PAGE_GRANULARITY)
    /\ UNCHANGED <<todo, owned, snapshot>>

\* Snapshots are freed by pmm_free_snapshot.
Release(o) ==
    /\ MayCall
    /\ snapshot.state = "taken" => o # snapshot.allocation
    /\ pmm_free(o.base, o.pages)
    /\ owned' = owned \ {o}
    /\ UNCHANGED <<todo, snapshot>>

\* pmm_create_snapshot up to its call of pmm_alloc: the size of the copy is
\* fixed before the allocation, which itself changes the map.
pmm_create_snapshot ==
    /\ MayCall /\ MayOwn /\ snapshot.state = "none"
    /\ \E k \in Live :
         LET count == SnapshotSlots(g_pmm_map_size)
             n == SnapshotPages(count)
             addr == MATH_CEIL(g_pmm_map[k].base, PTM_PAGE_GRANULARITY)
         IN  /\ pmm_alloc_ext(n, PTM_PAGE_GRANULARITY, ALLOCATED, addr)
             /\ Own(addr, n, ALLOCATED)
             /\ snapshot' = [state |-> "allocating", count |-> count,
                             allocation |-> Allocation(addr, n, ALLOCATED)]
    /\ UNCHANGED todo

\* The rest of it: the checks, and the copy of count slots.  Pages at address 0,
\* which pmm_alloc may well return, are taken for a failure.
FillSnapshot ==
    /\ Idle /\ snapshot.state = "allocating"
    /\ LET block == snapshot.allocation
           null == block.base = 0
       IN  IF null \/ Pages(SnapshotPages(g_pmm_map_size)) > block.length
             THEN /\ panic' = IF null THEN "failed to allocate memory for pmm snapshot"
                              ELSE "pmm snapshot size exceeds allocated memory"
                  /\ UNCHANGED snapshot
             ELSE /\ snapshot' = [snapshot EXCEPT !.state = "taken"]
                  /\ UNCHANGED panic
    /\ UNCHANGED <<g_pmm_map, g_pmm_map_size, calls, todo, owned>>

pmm_free_snapshot ==
    /\ MayCall /\ snapshot.state = "taken"
    /\ pmm_free(snapshot.allocation.base, snapshot.allocation.pages)
    /\ owned' = owned \ {snapshot.allocation}
    /\ snapshot' = NoSnapshot
    /\ UNCHANGED todo

MapSet == pmm_map_set /\ UNCHANGED <<todo, owned, snapshot>>

Next ==
    \/ \E r \in todo : Report(r)
    \/ \E n \in PageCounts, t \in AllocTypes : Allocate(n, t)
    \/ \E a \in FixedAddresses, n \in PageCounts, t \in AllocTypes : AllocateAt(a, n, t)
    \/ \E n \in PageCounts \cup {SnapshotPages(SnapshotSlots(g_pmm_map_size))} : OutOfMemory(n)
    \/ \E o \in owned : Release(o)
    \/ pmm_create_snapshot \/ FillSnapshot \/ pmm_free_snapshot
    \/ MapSet

Spec == Init /\ [][Next]_vars

\* A call that has started keeps running: nothing else uses the processor.
FairSpec == Spec /\ WF_vars(MapSet) /\ WF_vars(FillSnapshot)

----------------------------------------------------------------------------
(* What the map says.                                                      *)

NONE == -1

\* The type the map gives to an address.
MapKind(a) ==
    IF \E k \in Live : InRange(a, g_pmm_map[k])
      THEN g_pmm_map[CHOOSE k \in Live : InRange(a, g_pmm_map[k])].type
      ELSE NONE

\* The type it will have once the calls under way have returned.
SettledKind(a) ==
    IF \E c \in 1..Len(calls) : InRange(a, calls[c])
      THEN LET c == calls[CHOOSE c \in 1..Len(calls) : InRange(a, calls[c])]
           IN  IF c.force \/ c.type > MapKind(a) THEN c.type ELSE MapKind(a)
      ELSE MapKind(a)

Within(r, s) == s.base <= r.base /\ End(r) <= End(s)

----------------------------------------------------------------------------
(* Properties.                                                             *)

AllocationType == [base : Nat, length : Nat, type : Types, pages : Nat]

SnapshotType ==
    {NoSnapshot} \cup
    [state : {"allocating", "taken"}, count : Nat, allocation : AllocationType]

\* The state variables have the types of the code's, and the map is never
\* larger than its array (pmm.c:9-10).
TypeOK ==
    /\ g_pmm_map \in [Slots -> Entry]
    /\ g_pmm_map_size \in 0..PMM_MAP_MAX_ENTRIES
    /\ calls \in Seq(Call)
    /\ panic \in {"no", "memory map overflow", "read past g_pmm_map",
                  "out of memory", "failed to allocate memory for pmm snapshot",
                  "pmm snapshot size exceeds allocated memory"}
    /\ todo \subseteq Regions
    /\ owned \subseteq AllocationType
    /\ snapshot \in SnapshotType

\* After any number of reports, allocations and frees, and between any two
\* steps of pmm_map_set, the entries in use are non-empty, in increasing order
\* and disjoint: an address is never given two types (pmm_map_set, pmm.c:24).
MapSorted ==
    /\ \A k \in Live : g_pmm_map[k].length > 0
    /\ \A j, k \in Live : j < k => End(g_pmm_map[j]) <= g_pmm_map[k].base

\* An allocation stays inside one entry of its own type however its neighbours
\* were joined to it or freed from it.  pmm_free depends on it: a range that
\* covers an entry and shares one edge with it is not handled (pmm.c:80, 158).
AllocationInOneEntry ==
    calls = <<>> =>
        \A o \in owned :
            \E k \in Live : Within(o, g_pmm_map[k]) /\ g_pmm_map[k].type = o.type

\* A slot past the entries in use still describes memory that was reported, so
\* neither the unguarded comparison in pmm_map_set (pmm.c:113) nor a snapshot,
\* which copies two slots more than the map had (pmm.c:164, 171), makes anything
\* of memory that does not exist.
StaleSlotsReported ==
    \A k \in Slots : \A a \in Address :
        InRange(a, g_pmm_map[k]) => \E r \in Regions \ todo : InRange(a, r)

\* A snapshot has room for every entry the map has once the snapshot's own
\* pages are allocated, which may split a free entry in three (pmm.c:164-171).
SnapshotComplete ==
    Idle /\ snapshot.state = "allocating" => g_pmm_map_size <= snapshot.count

\* The map implements the abstract manager: reporting, allocating and freeing
\* change the type of exactly the addresses they are about, an allocation only
\* takes free addresses, and the steps of pmm_map_set change no settled type.
Kinds == INSTANCE PageKinds WITH
            kind <- [a \in Address |-> SettledKind(a)],
            reported <- Regions \ todo,
            stopped <- panic # "no"
ImplementsPageKinds == Kinds!Spec

\* Every operation returns or stops the machine: the scan of pmm_map_set ends
\* although it inserts into and deletes from the map it walks over (pmm.c:25).
CallsReturn == calls # <<>> ~> (calls = <<>> \/ panic # "no")
============================================================================
