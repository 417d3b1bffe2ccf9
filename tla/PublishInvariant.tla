-------------------------- MODULE PublishInvariant --------------------------
(***************************************************************************)
(* Inductive invariants of Publish when the reported ranges are disjoint:  *)
(* what the memory is used for, how far pagedb_setup has come with the     *)
(* snapshot, and what prekernel_init knows of the block it publishes in.   *)
(***************************************************************************)
EXTENDS Publish, PmmInvariant

----------------------------------------------------------------------------
(* The memory and the publication.                                         *)

\* Some allocation has the address.
Taken(a) == \E o \in owned : InRange(a, o)

\* Only free memory is allocated; what is not has the type it was reported with.
TruthInv ==
    \A r \in Regions \ todo : \A a \in r.base..(End(r) - 1) :
        IF Taken(a) THEN r.type = FREE ELSE SettledKind(a) = r.type

Walking == stage \in {"slot", "frame", "map"}

\* The snapshot belongs to the walk, and the ranges have been reported before it.
PassInv ==
    /\ stage # "before" => todo = {}
    /\ stage = "snapshot" => snapshot.state # "taken"
    /\ Walking => snapshot.state = "taken"
    /\ stage # "snapshot" /\ ~Walking => snapshot.state = "none"

\* The block is what was asked for last, and it is freed before the next is.
BlockInv ==
    /\ pmm_map_entries \in Nat
    /\ stage = "allocate" => pmm_map_entries > 0 \/ (calls = <<>> /\ g_pmm_map_size = 0)
    /\ stage = "check" =>
         /\ pmm_map_entries > 0 /\ block \in owned
         /\ block.length = Pages(BlockPages(pmm_map_entries)) /\ block.type = ALLOCATED

MemoryInv == StrongInv /\ TruthInv /\ PassInv /\ BlockInv

\* The invariant for PublishedTruth.  Nothing happens once the machine has stopped,
\* so that only what holds in between has to be known of the memory.
PublishInv ==
    /\ panic = "no" => MemoryInv
    /\ stage = "published" => calls = <<>> /\ panic = "no"
    /\ PublishedTruth

----------------------------------------------------------------------------
(* The page database.                                                      *)

\* The snapshot does not reach past the array that it is copied from.
InArray == snapshot.state # "none" => snapshot.count <= PMM_MAP_MAX_ENTRIES

\* Some page of the database that is mapped has the address.
Mapped(x) == \E m \in db : m[1] <= x /\ x < m[1] + PTM_PAGE_GRANULARITY

\* A page of the database starts at the address.
AtPage(x) == \E q \in 0..x : x = pagedb_base + q * PTM_PAGE_GRANULARITY

\* The page with the element of the entry's first page.
FirstPage(e) == pagedb_base + MATH_FLOOR(Element(e.base), PTM_PAGE_GRANULARITY)

Early == stage \in {"before", "setup", "snapshot"}
Mapping == stage \in {"frame", "map"}

DbTypes ==
    /\ hhdm_size \in Nat /\ i \in Nat /\ cursor \in Nat /\ end \in Nat
    /\ pagedb_mapped_end \in Nat /\ frame \in Nat /\ db \subseteq Nat \X Nat
    /\ Early => i = 0 /\ db = {}

\* Nobody allocates bad memory, and snapshots are not used memory.
OwnersInv ==
    /\ \A o \in owned : o.type # BAD
    /\ snapshot.state # "none" => snapshot.allocation.type = ALLOCATED

\* The direct map reaches to the end of memory.
HhdmInv == stage # "before" => \A r \in Regions : r.length > 0 => End(r) <= hhdm_size

\* The part that is being mapped consists of whole pages of the database.
WindowInv ==
    /\ stage \notin {"before", "setup"} =>
         /\ pagedb_base + pagedb_size <= kernel_base
         /\ AtPage(pagedb_mapped_end)
         /\ stage = "snapshot" => pagedb_mapped_end = pagedb_base
    /\ Mapping =>
         /\ AtPage(cursor) /\ AtPage(end) /\ cursor < end
         /\ pagedb_mapped_end <= cursor /\ end <= pagedb_base + pagedb_size

\* The slot is for memory, and none before it starts higher.
InOrder(k) ==
    /\ slots[k].type # BAD
    /\ \A j \in 0..(k - 1) : slots[j].base <= slots[k].base

\* The slots describe memory that the direct map reaches, and all of it.
SlotsInv ==
    Walking =>
        /\ slots \in [0..(snapshot.count - 1) -> Entry]
        /\ \A k \in 0..(snapshot.count - 1) : End(slots[k]) <= hhdm_size
        /\ \A r \in Regions : r.type # BAD => \A a \in r.base..(End(r) - 1) :
              \E k \in 0..(snapshot.count - 1) : InRange(a, slots[k]) /\ InOrder(k)
        /\ i <= snapshot.count /\ (Mapping => i < snapshot.count)

\* What is mapped lies below what will be, in frames that are allocated.
FramesInv ==
    /\ \A m \in db : m[1] < (IF Mapping THEN cursor ELSE pagedb_mapped_end)
    /\ \A m \in db : Allocation(m[2], 1, USED) \in owned
    /\ stage = "map" =>
         /\ Allocation(frame, 1, USED) \in owned
         /\ \A m \in db : m[2] # frame

\* What has been mapped.  Below pagedb_mapped_end there may be holes, but none above
\* the start of every slot so far.
WalkInv ==
    /\ Walking =>
         /\ \A x \in pagedb_base..(pagedb_mapped_end - 1) :
              (\A j \in 0..(i - 1) : slots[j].type # BAD => FirstPage(slots[j]) <= x)
                 => Mapped(x)
         /\ \A k \in 0..(i - 1) : InOrder(k) =>
              \A x \in FirstPage(slots[k])..(SegmentEnd(slots[k]) - 1) : Mapped(x)
    /\ Mapping =>
         /\ slots[i].type # BAD /\ end = SegmentEnd(slots[i])
         /\ \A x \in SegmentStart(slots[i])..(cursor - 1) : Mapped(x)

\* The elements of all memory are mapped.
Described ==
    \A p \in 0..(system_page_count - 1) :
        (\A a \in Pages(p)..(Pages(p + 1) - 1) : IsMemory(a)) =>
            \A b \in (p * pagedb_entry_size)..((p + 1) * pagedb_entry_size - 1) :
                Mapped(pagedb_base + b)

\* What holds of the database while the machine runs.
DbInv ==
    /\ DbTypes /\ OwnersInv /\ HhdmInv /\ WindowInv /\ SlotsInv /\ FramesInv /\ WalkInv
    /\ ~Early /\ ~Walking => Described

\* The invariant for the page database.
PagedbInv ==
    /\ panic = "no" => DbInv
    /\ PagedbInside
    /\ \A m, n \in db : m # n => m[1] # n[1] /\ m[2] # n[2]
=============================================================================
