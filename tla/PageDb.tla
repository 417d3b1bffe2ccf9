------------------------------- MODULE PageDb -------------------------------
(***************************************************************************)
(* The page database (memory/pagedb.c): an array with one element for each *)
(* page of physical memory, of which only the parts that describe memory   *)
(* are mapped.  pagedb_setup walks a snapshot of the memory map while the  *)
(* pages it maps, and the tables to map them with, are taken out of the    *)
(* map itself.  Composed with the memory manager, so that the snapshots,   *)
(* the slots that are not in use included, are those that can occur.       *)
(***************************************************************************)
EXTENDS PmmClients, FiniteSetsExt

CONSTANTS
    pagedb_entry_size,      \* what the kernel image asks for
    hhdm_offset,
    BootHhdmSizes,          \* what boot_info->hhdm_size may hold before
    kernel_base,
    MaxTables               \* bound: tables that ptm_map allocates

ASSUME PageDbAssumption ==
    /\ pagedb_entry_size \in Nat
    /\ hhdm_offset \in Nat /\ kernel_base \in Nat /\ MaxTables \in Nat
    /\ BootHhdmSizes \subseteq Nat
    /\ BAD \notin AllocTypes

VARIABLES
    stage,                  \* where prekernel_init and pagedb_setup are
    hhdm_size,
    slots,                  \* snapshot.entries
    i,                      \* the slot that is being looked at
    cursor, end,            \* what is left of the segment being mapped
    pagedb_mapped_end,
    frame,                  \* the page that is about to be mapped
    db,                     \* what has been mapped: pairs of address and frame
    tables                  \* how many tables ptm_map has allocated

dbVars == <<stage, hhdm_size, slots, i, cursor, end, pagedb_mapped_end, frame, db, tables>>
segment == <<cursor, end, pagedb_mapped_end>>

DbInit ==
    /\ Init
    /\ stage = "before" /\ hhdm_size = 0 /\ slots = <<>> /\ i = 0
    /\ cursor = 0 /\ end = 0 /\ pagedb_mapped_end = 0
    /\ frame = 0 /\ db = {} /\ tables = 0

\* The boot protocol and the kernel loader; the bound leaves room for the snapshot.
Before ==
    /\ stage = "before"
    /\ \/ \E r \in todo : Report(r)
       \/ /\ Cardinality(owned) + 1 < MaxOwned
          /\ \E n \in PageCounts, t \in AllocTypes : Allocate(n, t)
    /\ UNCHANGED dbVars

Scan == MapSet /\ UNCHANGED dbVars

----------------------------------------------------------------------------

\* Mutant: only what the boot loader said.
BootSize(b) == b
\* The direct map reaches at least to the end of the last entry.
DirectMapSize(b) == Max({b} \cup {End(g_pmm_map[k]) : k \in Live})

ComputeHhdmSize ==
    /\ stage = "before" /\ Idle /\ todo = {}
    /\ \E b \in BootHhdmSizes : hhdm_size' = DirectMapSize(b)
    /\ stage' = "setup"
    /\ UNCHANGED <<vars, slots, i, segment, frame, db, tables>>

system_page_count == MATH_CEIL(hhdm_size, PTM_PAGE_GRANULARITY) \div PTM_PAGE_GRANULARITY
pagedb_size == MATH_CEIL(system_page_count * pagedb_entry_size, PTM_PAGE_GRANULARITY)
pagedb_base == hhdm_offset + hhdm_size + PTM_PAGE_GRANULARITY

pagedb_setup ==
    /\ stage = "setup" /\ panic = "no"
    /\ IF pagedb_base + pagedb_size > kernel_base
         THEN panic' = "pagedb overlaps with kernel image" /\ UNCHANGED stage
         ELSE stage' = "snapshot" /\ UNCHANGED panic
    /\ pagedb_mapped_end' = pagedb_base
    /\ UNCHANGED <<g_pmm_map, g_pmm_map_size, calls, todo, owned, snapshot>>
    /\ UNCHANGED <<hhdm_size, slots, i, cursor, end, frame, db, tables>>

StartSnapshot ==
    /\ stage = "snapshot"
    /\ pmm_create_snapshot
    /\ UNCHANGED dbVars

CopySnapshot ==
    /\ stage = "snapshot"
    /\ FillSnapshot
    /\ slots' = [k \in 0..(snapshot.count - 1) |-> g_pmm_map[k]]
    /\ stage' = "slot"
    /\ UNCHANGED <<hhdm_size, i, segment, frame, db, tables>>

----------------------------------------------------------------------------
(* The loop over the snapshot.                                             *)

Element(a) == (a \div PTM_PAGE_GRANULARITY) * pagedb_entry_size

\* Mutant: what is mapped already is not looked at.
SegmentStartAlone(e) == pagedb_base + MATH_FLOOR(Element(e.base), PTM_PAGE_GRANULARITY)
SegmentStart(e) ==
    Max({pagedb_base + MATH_FLOOR(Element(e.base), PTM_PAGE_GRANULARITY), pagedb_mapped_end})

\* Mutant: the last page of elements is cut off.
SegmentEndShort(e) == pagedb_base + MATH_FLOOR(Element(End(e)), PTM_PAGE_GRANULARITY)
SegmentEnd(e) == pagedb_base + MATH_CEIL(Element(End(e)), PTM_PAGE_GRANULARITY)

NothingToMap(e) == e.type = BAD \/ SegmentStart(e) >= SegmentEnd(e)

AtSlot == stage = "slot" /\ Idle /\ i < snapshot.count

SkipSlot ==
    /\ AtSlot /\ NothingToMap(slots[i])
    /\ i' = i + 1
    /\ UNCHANGED <<vars, stage, hhdm_size, slots, segment, frame, db, tables>>

BeginSegment ==
    /\ AtSlot /\ ~NothingToMap(slots[i])
    /\ cursor' = SegmentStart(slots[i])
    /\ end' = SegmentEnd(slots[i])
    /\ stage' = "frame"
    /\ UNCHANGED <<vars, hhdm_size, slots, i, pagedb_mapped_end, frame, db, tables>>

\* A page for the owner of the database, or for its tables.
AllocatePage(t, addr) ==
    /\ pmm_alloc_ext(1, PTM_PAGE_GRANULARITY, t, addr)
    /\ Own(addr, 1, t)
    /\ UNCHANGED <<todo, snapshot>>

AllocateFrame ==
    /\ stage = "frame"
    /\ \E k \in Live :
         LET addr == MATH_CEIL(g_pmm_map[k].base, PTM_PAGE_GRANULARITY)
         IN  AllocatePage(USED, addr) /\ frame' = addr
    /\ stage' = "map"
    /\ UNCHANGED <<hhdm_size, slots, i, segment, db, tables>>

\* ptm_map needs a table on the way to the page.
AllocateTable ==
    /\ stage = "map" /\ tables < MaxTables
    /\ cursor % PTM_PAGE_GRANULARITY = 0
    /\ \E k \in Live :
         AllocatePage(ALLOCATED, MATH_CEIL(g_pmm_map[k].base, PTM_PAGE_GRANULARITY))
    /\ tables' = tables + 1
    /\ UNCHANGED <<stage, hhdm_size, slots, i, segment, frame, db>>

PageOutOfMemory ==
    /\ \/ stage \in {"frame", "map"} /\ pmm_alloc_ext_fails(1, PTM_PAGE_GRANULARITY)
       \/ /\ stage = "snapshot" /\ snapshot = NoSnapshot
          /\ pmm_alloc_ext_fails(SnapshotPages(SnapshotSlots(g_pmm_map_size)),
                                 PTM_PAGE_GRANULARITY)
    /\ UNCHANGED <<todo, owned, snapshot, dbVars>>

NextPage == cursor + PTM_PAGE_GRANULARITY

MapPage ==
    /\ stage = "map" /\ Idle
    /\ cursor % PTM_PAGE_GRANULARITY = 0
    /\ db' = db \cup {<<cursor, frame>>}
    /\ cursor' = NextPage
    /\ IF NextPage < end
         THEN stage' = "frame" /\ UNCHANGED <<i, pagedb_mapped_end>>
         ELSE stage' = "slot" /\ i' = i + 1 /\ pagedb_mapped_end' = end
    /\ UNCHANGED <<vars, hhdm_size, slots, end, frame, tables>>

\* The direct map does not end at a page, so no part of the database starts at one.
UnalignedPage ==
    /\ stage = "map" /\ Idle
    /\ cursor % PTM_PAGE_GRANULARITY # 0
    /\ panic' = "unaligned mapping"
    /\ UNCHANGED <<g_pmm_map, g_pmm_map_size, calls, todo, owned, snapshot, dbVars>>

FreeSnapshot ==
    /\ stage = "slot" /\ i = snapshot.count
    /\ pmm_free_snapshot
    /\ stage' = "done"
    /\ UNCHANGED <<hhdm_size, slots, i, segment, frame, db, tables>>

Setup ==
    \/ pagedb_setup \/ StartSnapshot \/ CopySnapshot
    \/ SkipSlot \/ BeginSegment
    \/ AllocateFrame \/ AllocateTable \/ PageOutOfMemory \/ MapPage \/ UnalignedPage
    \/ FreeSnapshot

DbNext == Before \/ Scan \/ ComputeHhdmSize \/ Setup

----------------------------------------------------------------------------
(* Properties.                                                             *)

Finished == stage = "done" /\ Idle

IsMemory(a) == \E r \in Regions : InRange(a, r) /\ r.type # BAD

\* Every page that is wholly memory has its element of the database mapped, from
\* the first byte to the last, although the element may lie across two pages of
\* the database and the page across two entries of the map (pagedb.c:37-40).
PagedbComplete ==
    Finished =>
        \A p \in 0..(system_page_count - 1) :
            (\A a \in Pages(p)..(Pages(p + 1) - 1) : IsMemory(a)) =>
                \A b \in (p * pagedb_entry_size)..((p + 1) * pagedb_entry_size - 1) :
                    \E m \in db : m[1] <= pagedb_base + b
                                  /\ pagedb_base + b < m[1] + PTM_PAGE_GRANULARITY

\* No page of the database is mapped twice, for slots that share pages of it or for
\* slots that are not in use, and each has a frame of its own that nothing else
\* in the map can be given (pagedb.c:40, 45).
PagedbMappedOnce ==
    /\ \A m, n \in db : m # n => m[1] # n[1] /\ m[2] # n[2]
    /\ Idle => \A m \in db : \E k \in Live :
                  /\ g_pmm_map[k].type = USED
                  /\ g_pmm_map[k].base <= m[2]
                  /\ m[2] + PTM_PAGE_GRANULARITY <= End(g_pmm_map[k])

\* What is mapped lies in the range that the kernel is told and below its image,
\* whatever slots that are not in use say (pagedb.c:13, 18-19, 38).
PagedbInside ==
    \A m \in db :
        /\ pagedb_base <= m[1]
        /\ m[1] + PTM_PAGE_GRANULARITY <= pagedb_base + pagedb_size
        /\ m[1] + PTM_PAGE_GRANULARITY <= kernel_base
=============================================================================
