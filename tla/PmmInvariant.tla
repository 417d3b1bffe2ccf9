---------------------------- MODULE PmmInvariant ----------------------------
(***************************************************************************)
(* An inductive invariant of PmmClients when the reported ranges are       *)
(* disjoint.  It says where the activations of pmm_map_set are with their  *)
(* ranges, and where memory is that the map does not show in between.      *)
(***************************************************************************)
EXTENDS PmmClients

\* Usable and reclaimable memory is reported in disjoint ranges, and on most
\* machines so is the rest.
RegionsDisjoint ==
    \A r, s \in Regions :
        r = s \/ r.length = 0 \/ s.length = 0 \/ ~Overlap(r, s)

Pending == 1..Len(calls)

\* Some entry in use, or some range on its way into the map, has the address.
Covered(a) ==
    \/ \E k \in Live : InRange(a, g_pmm_map[k])
    \/ \E c \in Pending : InRange(a, calls[c])

\* No entry in use has an address of the range.
Clear(r) == r.length = 0 \/ \A k \in Live : ~Overlap(r, g_pmm_map[k])

\* The range is inside one entry that the scan will still reach.
InsideAhead(c) ==
    c.force /\ \E k \in Live : c.i <= k /\ Within(c, g_pmm_map[k])

\* A call that is alone takes its range out of one entry or adds memory that
\* no entry has.  A call below another is what SplitEntry left behind: both
\* ranges are out of the map, the recursive call's being the higher.
CallsInv ==
    /\ Len(calls) <= 2
    /\ Len(calls) = 1 => Clear(calls[1]) \/ InsideAhead(calls[1])
    /\ Len(calls) = 2 =>
         /\ Clear(calls[1]) /\ Clear(calls[2])
         /\ calls[1].length > 0
         /\ End(calls[2]) <= calls[1].base

\* Memory not reported yet is unknown to the map.
TodoInv ==
    \A r \in todo : r.length > 0 =>
        /\ \A k \in Live : ~Overlap(r, g_pmm_map[k])
        /\ \A c \in Pending : ~Overlap(r, calls[c])

\* The map or a range on its way into it holds the whole allocation.
Held(o) ==
    \/ \E k \in Live : Within(o, g_pmm_map[k]) /\ g_pmm_map[k].type = o.type
    \/ \E c \in Pending : Within(o, calls[c]) /\ calls[c].type = o.type

\* Allocations are disjoint and never free memory; one that the current call is
\* not about keeps clear of the call's range.
OwnedInv ==
    /\ \A o, p \in owned : o = p \/ ~Overlap(o, p)
    /\ \A o \in owned :
         /\ o.length > 0 /\ o.length = Pages(o.pages) /\ o.type # FREE
         /\ Held(o)
         /\ \A c \in Pending :
              ~Overlap(o, calls[c]) \/ (Within(o, calls[c]) /\ o.type = calls[c].type)

\* A slot that is not in use starts where some memory of the map does, so it
\* never starts just above the highest entry.
StaleInv ==
    \A k \in Slots \ Live : g_pmm_map[k].base = 0 \/ Covered(g_pmm_map[k].base)

SnapshotInv == snapshot.state # "none" => snapshot.allocation \in owned

\* While ranges are still being reported nothing has been allocated.
PhaseInv == todo # {} => owned = {} /\ snapshot = NoSnapshot

\* The invariant: it is preserved by every step of the map and of its clients,
\* which MapSorted and AllocationInOneEntry alone are not, since an iteration of
\* the scan may leave memory out of the map for a while (pmm.c:43-45, 82, 101).
IInv ==
    /\ TypeOK
    /\ MapSorted
    /\ CallsInv
    /\ TodoInv
    /\ OwnedInv
    /\ StaleInv
    /\ SnapshotInv
    /\ PhaseInv

----------------------------------------------------------------------------
(* Two more parts, for what is kept past the map and beside it.            *)

\* A reported range has the address.
Known(a) == \E r \in Regions \ todo : InRange(a, r)

KnownRange(r) == \A a \in r.base..(End(r) - 1) : Known(a)

\* Every slot of the array, in use or not, every range on its way into the map
\* and every allocation lies in reported memory.
KnownInv ==
    /\ \A k \in Slots : KnownRange(g_pmm_map[k])
    /\ \A c \in Pending : KnownRange(calls[c])
    /\ \A o \in owned : KnownRange(o) /\ o.length = Pages(o.pages)
    /\ snapshot.state # "none" =>
         KnownRange(snapshot.allocation)
           /\ snapshot.allocation.length = Pages(snapshot.allocation.pages)

\* While a snapshot's pages are allocated every activation can still add one
\* entry, and the first one that splits an entry a second.
RoomInv ==
    snapshot.state = "allocating" =>
        /\ \A c \in Pending : calls[c].length > 0
        /\ g_pmm_map_size + Len(calls) <= snapshot.count
        /\ Len(calls) = 1 /\ InsideAhead(calls[1]) => g_pmm_map_size + 2 <= snapshot.count

\* The whole invariant.
StrongInv == IInv /\ KnownInv /\ RoomInv
============================================================================
