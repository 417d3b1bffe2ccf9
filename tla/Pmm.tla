-------------------------------- MODULE Pmm --------------------------------
(***************************************************************************)
(* The physical memory map of the pre-kernel (memory/pmm.c): a fixed array *)
(* of typed ranges, edited in place by pmm_map_set.                        *)
(*                                                                         *)
(* pmm_map_set calls itself, so its activations are kept on a stack: one   *)
(* step of this module is one iteration of its scan over the map, or the   *)
(* code that follows the scan.  Array slots past g_pmm_map_size keep what  *)
(* was last written to them, because the code may read them.               *)
(***************************************************************************)
EXTENDS Integers, Sequences

CONSTANTS
    PMM_MAP_MAX_ENTRIES,    \* capacity of g_pmm_map
    PTM_PAGE_GRANULARITY    \* size of a page, in address units

ASSUME CapacityAssumption == PMM_MAP_MAX_ENTRIES \in Nat \ {0}
ASSUME PageAssumption == PTM_PAGE_GRANULARITY \in Nat \ {0}

VARIABLES
    g_pmm_map,              \* the array, 0-based as in the code
    g_pmm_map_size,         \* how many of its slots are in use
    calls,                  \* activations of pmm_map_set, innermost first
    panic                   \* "no", or why the pre-kernel has stopped

pmmVars == <<g_pmm_map, g_pmm_map_size, calls, panic>>

----------------------------------------------------------------------------
(* pmm_map_type_t.  The order of the enumeration is the precedence rule.   *)

FREE == 0
ALLOCATED == 1
USED == 2
BOOTLOADER_RECLAIMABLE == 3
RESERVED == 7
BAD == 8
Types == FREE..BAD

Slots == 0..(PMM_MAP_MAX_ENTRIES - 1)
Live == 0..(g_pmm_map_size - 1)

Entry == [base : Nat, length : Nat, type : Types]
Call == [base : Nat, length : Nat, type : Types, force : BOOLEAN, i : Nat]

ZeroEntry == [base |-> 0, length |-> 0, type |-> FREE]

End(r) == r.base + r.length
InRange(a, r) == r.base <= a /\ a < End(r)
Overlap(r, s) == r.base < End(s) /\ s.base < End(r)

PmmInit ==
    /\ g_pmm_map = [k \in Slots |-> ZeroEntry]
    /\ g_pmm_map_size = 0
    /\ calls = <<>>
    /\ panic = "no"

Idle == calls = <<>> /\ panic = "no"

----------------------------------------------------------------------------
(* Editing the array.                                                      *)

\* Mutant: the last entry is not moved.
InsertedShort(k, e) ==
    [j \in Slots |-> IF j = k THEN e
                     ELSE IF k < j /\ j < g_pmm_map_size THEN g_pmm_map[j - 1]
                     ELSE g_pmm_map[j]]

\* map_insert, when the map is not full.
Inserted(k, e) ==
    [j \in Slots |-> IF j = k THEN e
                     ELSE IF k < j /\ j <= g_pmm_map_size THEN g_pmm_map[j - 1]
                     ELSE g_pmm_map[j]]

\* Mutant: the last entry is not moved.
DeletedShort(k) ==
    [j \in Slots |-> IF k <= j /\ j < g_pmm_map_size - 2 THEN g_pmm_map[j + 1]
                     ELSE g_pmm_map[j]]

\* map_delete.  The last slot in use is not cleared.
Deleted(k) ==
    [j \in Slots |-> IF k <= j /\ j < g_pmm_map_size - 1 THEN g_pmm_map[j + 1]
                     ELSE g_pmm_map[j]]

----------------------------------------------------------------------------
(* The scan of pmm_map_set: one action for each way an iteration ends.     *)

top == calls[1]
cur == g_pmm_map[top.i]

Scanning == calls # <<>> /\ panic = "no" /\ top.i < g_pmm_map_size

\* Mutants: force is ignored; the types are.
OverrideByType == top.type > cur.type
OverrideAlways == TRUE
Override == top.type > cur.type \/ top.force

OverlapStart == top.base > cur.base /\ top.base < End(cur)
OverlapEnd == End(top) > cur.base /\ End(top) < End(cur)
Covers == top.base < cur.base /\ End(top) > End(cur)
Equals == top.base = cur.base /\ top.length = cur.length

\* The range starts or ends together with the entry and reaches beyond it on
\* the other side.  No branch of the code handles this.
SharesEdge ==
    \/ top.base = cur.base /\ cur.length > 0 /\ End(top) > End(cur)
    \/ top.base < cur.base /\ cur.length > 0 /\ End(top) = End(cur)

\* Mutant: the index is not advanced after an entry was changed or skipped.
SameEntry == UNCHANGED calls
NextEntry == calls' = [calls EXCEPT ![1].i = @ + 1]
Return == calls' = Tail(calls)

\* The range lies strictly inside the entry and wins: the entry keeps the part
\* before it, and a recursive call puts back the part after it.
SplitEntry ==
    /\ Scanning /\ OverlapStart /\ OverlapEnd /\ Override
    /\ g_pmm_map' = [g_pmm_map EXCEPT ![top.i].length = top.base - cur.base]
    /\ calls' = <<[base |-> End(top), length |-> End(cur) - End(top),
                   type |-> cur.type, force |-> TRUE, i |-> 0]>>
                \o [calls EXCEPT ![1].i = @ + 1]
    /\ UNCHANGED <<g_pmm_map_size, panic>>

\* The range lies inside an entry that wins: nothing is left to record.
RejectRange ==
    /\ Scanning
    /\ (OverlapStart /\ OverlapEnd) \/ Equals
    /\ ~Override
    /\ Return
    /\ UNCHANGED <<g_pmm_map, g_pmm_map_size, panic>>

\* The range covers the end of the entry, and one of the two gives way.
TrimEntryEnd ==
    /\ Scanning /\ OverlapStart /\ ~OverlapEnd /\ Override
    /\ g_pmm_map' = [g_pmm_map EXCEPT ![top.i].length = top.base - cur.base]
    /\ NextEntry
    /\ UNCHANGED <<g_pmm_map_size, panic>>

TrimRangeStart ==
    /\ Scanning /\ OverlapStart /\ ~OverlapEnd /\ ~Override
    /\ calls' = [calls EXCEPT ![1].base = End(cur),
                              ![1].length = End(top) - End(cur),
                              ![1].i = @ + 1]
    /\ UNCHANGED <<g_pmm_map, g_pmm_map_size, panic>>

\* The range covers the start of the entry, and one of the two gives way.
TrimEntryStart ==
    /\ Scanning /\ OverlapEnd /\ ~OverlapStart /\ Override
    /\ g_pmm_map' = [g_pmm_map EXCEPT ![top.i].base = End(top),
                                      ![top.i].length = End(cur) - End(top)]
    /\ NextEntry
    /\ UNCHANGED <<g_pmm_map_size, panic>>

TrimRangeEnd ==
    /\ Scanning /\ OverlapEnd /\ ~OverlapStart /\ ~Override
    /\ calls' = [calls EXCEPT ![1].length = cur.base - top.base, ![1].i = @ + 1]
    /\ UNCHANGED <<g_pmm_map, g_pmm_map_size, panic>>

\* The range replaces the whole entry; the scan stays at the same index,
\* where the next entry now is.
DropEntry ==
    /\ Scanning /\ (Covers \/ Equals) /\ Override
    /\ g_pmm_map' = Deleted(top.i)
    /\ g_pmm_map_size' = g_pmm_map_size - 1
    /\ UNCHANGED <<calls, panic>>

\* The range reaches beyond an entry that wins, on both sides: two recursive
\* calls, made one after the other, replace this one.
SplitRange ==
    /\ Scanning /\ Covers /\ ~Override
    /\ calls' = <<[top EXCEPT !.length = cur.base - top.base, !.i = 0]>>
                \o [calls EXCEPT ![1].base = End(cur),
                                 ![1].length = End(top) - End(cur),
                                 ![1].i = 0]
    /\ UNCHANGED <<g_pmm_map, g_pmm_map_size, panic>>

\* No branch applies.
SkipEntry ==
    /\ Scanning
    /\ ~OverlapStart /\ ~OverlapEnd /\ ~Covers /\ ~Equals
    /\ NextEntry
    /\ UNCHANGED <<g_pmm_map, g_pmm_map_size, panic>>

----------------------------------------------------------------------------
(* After the scan: the range that is left is joined to a neighbour of the  *)
(* same type or inserted.                                                  *)

Scanned == calls # <<>> /\ panic = "no" /\ top.i >= g_pmm_map_size

\* Entry k is the first in use whose base is above the range's, or the first
\* unused slot.
IsPlace(k) ==
    /\ \A j \in 0..(k - 1) : g_pmm_map[j].base <= top.base
    /\ k < g_pmm_map_size => g_pmm_map[k].base > top.base

JoinsPrevious(k) ==
    /\ k # 0
    /\ g_pmm_map[k - 1].type = top.type
    /\ End(g_pmm_map[k - 1]) = top.base

\* Mutant: the types are not compared.
JoinsAnyNext(k) == g_pmm_map[k].base = End(top)

\* The code reads this slot without asking whether it is in use.
JoinsNext(k) ==
    /\ g_pmm_map[k].type = top.type
    /\ g_pmm_map[k].base = End(top)

EmptyRange ==
    /\ Scanned /\ top.length = 0
    /\ Return
    /\ UNCHANGED <<g_pmm_map, g_pmm_map_size, panic>>

ExtendPrevious(k) ==
    /\ Scanned /\ top.length # 0
    /\ IsPlace(k) /\ JoinsPrevious(k)
    /\ g_pmm_map' = [g_pmm_map EXCEPT ![k - 1].length = @ + top.length]
    /\ Return
    /\ UNCHANGED <<g_pmm_map_size, panic>>

ExtendNext(k) ==
    /\ Scanned /\ top.length # 0
    /\ IsPlace(k) /\ ~JoinsPrevious(k)
    /\ k \in Slots /\ JoinsNext(k)
    /\ g_pmm_map' = [g_pmm_map EXCEPT ![k].base = top.base,
                                      ![k].length = @ + top.length]
    /\ Return
    /\ UNCHANGED <<g_pmm_map_size, panic>>

InsertRange(k) ==
    /\ Scanned /\ top.length # 0
    /\ IsPlace(k) /\ ~JoinsPrevious(k)
    /\ g_pmm_map_size < PMM_MAP_MAX_ENTRIES /\ ~JoinsNext(k)
    /\ g_pmm_map' = Inserted(k, [base |-> top.base, length |-> top.length,
                                 type |-> top.type])
    /\ g_pmm_map_size' = g_pmm_map_size + 1
    /\ Return
    /\ UNCHANGED panic

\* A full map and no neighbour to join: map_insert panics.
MapOverflow(k) ==
    /\ Scanned /\ top.length # 0
    /\ IsPlace(k) /\ ~JoinsPrevious(k)
    /\ g_pmm_map_size = PMM_MAP_MAX_ENTRIES
    /\ k \in Slots => ~JoinsNext(k)
    /\ panic' = "memory map overflow"
    /\ UNCHANGED <<g_pmm_map, g_pmm_map_size, calls>>

\* In the same state, with the range above every entry, the comparison with
\* the following slot reads past the array: a build with the sanitizer stops
\* there, another one goes on with whatever the linker put there.
ReadPastArray(k) ==
    /\ Scanned /\ top.length # 0
    /\ IsPlace(k) /\ ~JoinsPrevious(k)
    /\ k = PMM_MAP_MAX_ENTRIES
    /\ panic' = "read past g_pmm_map"
    /\ UNCHANGED <<g_pmm_map, g_pmm_map_size, calls>>

pmm_map_set ==
    \/ SplitEntry \/ RejectRange
    \/ TrimEntryEnd \/ TrimRangeStart \/ TrimEntryStart \/ TrimRangeEnd
    \/ DropEntry \/ SplitRange \/ SkipEntry
    \/ EmptyRange
    \/ \E k \in 0..g_pmm_map_size :
          \/ ExtendPrevious(k) \/ ExtendNext(k) \/ InsertRange(k)
          \/ MapOverflow(k) \/ ReadPastArray(k)

----------------------------------------------------------------------------
(* The operations of pmm.h.  Each is the part that runs before its call of *)
(* pmm_map_set, which it ends with.                                        *)

Enter(b, l, t, f) ==
    calls' = <<[base |-> b, length |-> l, type |-> t, force |-> f, i |-> 0]>>

pmm_map_add(b, l, t) ==
    /\ Idle
    /\ IF l = 0 THEN UNCHANGED calls ELSE Enter(b, l, t, FALSE)
    /\ UNCHANGED <<g_pmm_map, g_pmm_map_size, panic>>

\* Rounding; the one for allocations is up (mutant: down).
MATH_FLOOR(x, a) == (x \div a) * a
MATH_CEIL(x, a) == ((x + a - 1) \div a) * a

Pages(n) == n * PTM_PAGE_GRANULARITY

\* The entry can hold n pages at the given alignment.
Fits(k, n, alignment) ==
    LET e == g_pmm_map[k]
        b == MATH_CEIL(e.base, alignment)
    IN  e.type = FREE /\ b < End(e) /\ e.length - (b - e.base) >= Pages(n)

FirstFit(k, n, alignment) ==
    Fits(k, n, alignment) /\ \A j \in 0..(k - 1) : ~Fits(j, n, alignment)

\* addr is the address the caller gets back.
pmm_alloc_ext(n, alignment, t, addr) ==
    /\ Idle
    /\ \E k \in Live : /\ FirstFit(k, n, alignment)
                       /\ addr = MATH_CEIL(g_pmm_map[k].base, alignment)
    /\ Enter(addr, Pages(n), t, TRUE)
    /\ UNCHANGED <<g_pmm_map, g_pmm_map_size, panic>>

pmm_alloc_ext_fails(n, alignment) ==
    /\ Idle
    /\ \A k \in Live : ~Fits(k, n, alignment)
    /\ panic' = "out of memory"
    /\ UNCHANGED <<g_pmm_map, g_pmm_map_size, calls>>

\* The address is inside one free entry with all the pages that follow it.
FreeAt(addr, n) ==
    \E k \in Live : /\ g_pmm_map[k].type = FREE
                    /\ g_pmm_map[k].base <= addr
                    /\ addr + Pages(n) <= End(g_pmm_map[k])

\* When no entry qualifies the code returns false and has changed nothing.
pmm_alloc_at(addr, n, t) ==
    /\ Idle
    /\ FreeAt(addr, n)
    /\ Enter(addr, Pages(n), t, TRUE)
    /\ UNCHANGED <<g_pmm_map, g_pmm_map_size, panic>>

pmm_free(addr, n) ==
    /\ Idle
    /\ Enter(addr, Pages(n), FREE, TRUE)
    /\ UNCHANGED <<g_pmm_map, g_pmm_map_size, panic>>
============================================================================
