---------------------------- MODULE MemoryProofs ----------------------------
(***************************************************************************)
(* Proofs about the memory map and what is made of it, for every set of    *)
(* reported ranges, every map capacity, page and element size and sequence *)
(* of allocations and frees.                                               *)
(*   - PmmClients: the map is well formed, the slots that are not in use,  *)
(*     the allocations and the snapshots are as the clients need them, and *)
(*     the map implements the abstract manager of PageKinds;               *)
(*   - PmmOverlap: of the ranges that give an address a type, the highest  *)
(*     type wins;                                                          *)
(*   - PageDb and Publish: for any memory map of disjoint ranges the page  *)
(*     database describes all memory and stays inside its window, and the  *)
(*     kernel is told the truth about every address.                       *)
(***************************************************************************)
EXTENDS PublishInvariant, PmmOverlap, FiniteSetTheorems, TLAPS

----------------------------------------------------------------------------
(* Arithmetic.                                                             *)

\* Rounding up (MATH_CEIL in lib/math.h) gives an address that is not lower.
LEMMA CeilUp ==
  ASSUME NEW x \in Nat, NEW a \in Nat \ {0}
  PROVE  MATH_CEIL(x, a) \in Nat /\ MATH_CEIL(x, a) >= x
<1> DEFINE q == (x + a - 1) \div a
<1>1. q \in Nat
  BY SMT
<1>2. x + a - 1 < a * (q + 1)
  BY SMT
<1>3. a * (q + 1) = q * a + a
  BY <1>1, SMT
<1> QED
  BY <1>1, <1>2, <1>3, SMT DEF MATH_CEIL

\* The heights of a stack that is neither empty nor higher than two.
LEMMA OneOrTwo ==
  ASSUME NEW n \in Nat, n >= 1, n <= 2
  PROVE  n = 1 \/ n = 2
  OBVIOUS

\* A number of pages has a length, which is positive unless there are none.
LEMMA PagesLength ==
  ASSUME NEW n \in Nat
  PROVE  Pages(n) \in Nat /\ (n # 0 => Pages(n) > 0)
  BY PageAssumption, SMT DEF Pages

\* The number of pages pmm_create_snapshot asks for is a number.
LEMMA SnapshotPagesNat ==
  ASSUME NEW n \in Nat
  PROVE  SnapshotPages(n) \in Nat
<1>1. n * ENTRY_SIZE \in Nat
  BY ClientsAssumption, SMT
<1>2. MATH_CEIL(n * ENTRY_SIZE, PTM_PAGE_GRANULARITY) \in Nat
  BY <1>1, CeilUp, PageAssumption
<1> QED
  BY <1>2, PageAssumption, SMT DEF SnapshotPages

\* Two of those pages hold an entry or more, so a snapshot has pages.
LEMMA SnapshotPagesPositive ==
  ASSUME NEW n \in Nat \ {0}
  PROVE  SnapshotPages(n) # 0
<1> DEFINE x == n * ENTRY_SIZE
<1> DEFINE q == (x + PTM_PAGE_GRANULARITY - 1) \div PTM_PAGE_GRANULARITY
<1>1. x \in Nat /\ x > 0
  BY ClientsAssumption, SMT
<1>2. q \in Nat /\ q # 0
  BY <1>1, PageAssumption, SMT
<1>3. (q * PTM_PAGE_GRANULARITY) \div PTM_PAGE_GRANULARITY = q
  BY <1>2, PageAssumption, SMT
<1> QED
  BY <1>2, <1>3 DEF SnapshotPages, MATH_CEIL

----------------------------------------------------------------------------
(* Types.                                                                  *)

\* The types hold at the start.
LEMMA TypeInit == Init => TypeOK
  BY CapacityAssumption DEF Init, PmmInit, TypeOK, Slots, Entry, ZeroEntry, Types, FREE, BAD,
     SnapshotType, NoSnapshot

\* A stack of calls that is not empty.
LEMMA StackFacts ==
  ASSUME NEW S, NEW s \in Seq(S), s # <<>>
  PROVE  /\ Len(s) \in Nat /\ Len(s) >= 1
         /\ s[1] \in S
         /\ Tail(s) \in Seq(S)
         /\ Len(Tail(s)) = Len(s) - 1
         /\ \A j \in 1..(Len(s) - 1) : Tail(s)[j] = s[j + 1]
         /\ \A x \in S : /\ [s EXCEPT ![1] = x] \in Seq(S)
                         /\ Len([s EXCEPT ![1] = x]) = Len(s)
                         /\ [s EXCEPT ![1] = x][1] = x
                         /\ \A j \in 2..Len(s) : [s EXCEPT ![1] = x][j] = s[j]
  OBVIOUS

\* Any call of a stack.
LEMMA ElementType ==
  ASSUME NEW S, NEW s \in Seq(S), NEW n \in 1..Len(s)
  PROVE  s[n] \in S
  OBVIOUS

\* Pushing a call.
LEMMA PushFacts ==
  ASSUME NEW S, NEW s \in Seq(S), NEW x \in S
  PROVE  /\ <<x>> \o s \in Seq(S)
         /\ Len(<<x>> \o s) = Len(s) + 1
         /\ (<<x>> \o s)[1] = x
         /\ \A j \in 1..Len(s) : (<<x>> \o s)[j + 1] = s[j]
  OBVIOUS

\* Making and changing a call.
LEMMA CallFacts ==
  /\ \A b, l, j \in Nat : \A t \in Types : \A f \in BOOLEAN :
        [base |-> b, length |-> l, type |-> t, force |-> f, i |-> j] \in Call
  /\ \A c \in Call : /\ c.base \in Nat /\ c.length \in Nat /\ c.i \in Nat
                     /\ c.type \in Types /\ c.force \in BOOLEAN
  /\ \A c \in Call : \A b, l, j \in Nat :
        /\ [c EXCEPT !.base = b, !.length = l, !.i = j] \in Call
        /\ [c EXCEPT !.length = l, !.i = j] \in Call
  BY DEF Call

\* The fields of an entry.
LEMMA EntryFacts ==
  \A e \in Entry :
     /\ e.base \in Nat /\ e.length \in Nat /\ e.type \in Types
     /\ \A b, l \in Nat : /\ [e EXCEPT !.length = l] \in Entry
                          /\ [e EXCEPT !.base = b, !.length = l] \in Entry
  BY DEF Entry

\* The steps of pmm_map_set preserve the types.
LEMMA TypeMapSet ==
  ASSUME TypeOK, MapSet
  PROVE  TypeOK'
<1> USE DEF MapSet
<1>0. /\ g_pmm_map \in [Slots -> Entry]
      /\ g_pmm_map_size \in 0..PMM_MAP_MAX_ENTRIES
      /\ calls \in Seq(Call)
  BY DEF TypeOK
<1>a. SUFFICES /\ g_pmm_map' \in [Slots -> Entry]
               /\ g_pmm_map_size' \in 0..PMM_MAP_MAX_ENTRIES
               /\ calls' \in Seq(Call)
               /\ panic' \in {panic, "memory map overflow", "read past g_pmm_map"}
  BY DEF TypeOK
<1> DEFINE Good == /\ g_pmm_map' \in [Slots -> Entry]
                   /\ g_pmm_map_size' \in 0..PMM_MAP_MAX_ENTRIES
                   /\ calls' \in Seq(Call)
                   /\ panic' \in {panic, "memory map overflow", "read past g_pmm_map"}
<1>1. ASSUME calls # <<>>
      PROVE  top \in Call /\ Tail(calls) \in Seq(Call)
  BY <1>0, <1>1, StackFacts DEF top
<1>2. ASSUME Scanning
      PROVE  /\ top.i \in Slots /\ cur \in Entry /\ top \in Call
             /\ [calls EXCEPT ![1].i = @ + 1] \in Seq(Call)
  <2>1. calls # <<>> /\ top \in Call /\ top.i < g_pmm_map_size
    BY <1>1, <1>2 DEF Scanning
  <2>2. top.i \in Slots
    BY <2>1, <1>0, CapacityAssumption DEF Slots, Call
  <2>3. [top EXCEPT !.i = @ + 1] \in Call
    BY <2>1 DEF Call
  <2>4. [calls EXCEPT ![1] = [top EXCEPT !.i = @ + 1]] \in Seq(Call)
    BY <2>1, <2>3, <1>0, StackFacts
  <2> QED BY <2>1, <2>2, <2>4, <1>0 DEF cur, top
<1>3. CASE SplitEntry
  <2> DEFINE f == [base |-> End(top), length |-> End(cur) - End(top),
                   type |-> cur.type, force |-> TRUE, i |-> 0]
  <2>1. top \in Call /\ top.i \in Slots /\ cur \in Entry
    BY <1>0, <1>1, <1>2, <1>3 DEF SplitEntry, Scanning
  <2>a. End(top) \in Nat /\ End(cur) - End(top) \in Nat
    BY <2>1, <1>3 DEF SplitEntry, OverlapEnd, End, Call, Entry
  <2>2. f \in Call
    BY <2>1, <2>a, CallFacts, EntryFacts
  <2>3. top.base - cur.base \in Nat
    BY <1>0, <2>1, <1>3 DEF SplitEntry, OverlapStart, End, Call, Entry
  <2>4. g_pmm_map' \in [Slots -> Entry]
    BY <1>0, <2>1, <2>3, <1>3 DEF SplitEntry, Entry, cur
  <2>5. calls' \in Seq(Call)
    BY <1>0, <2>2, <1>2, <1>3, PushFacts DEF SplitEntry
  <2> QED BY <2>4, <2>5, <1>3, <1>0 DEF SplitEntry
<1>4. CASE RejectRange
  BY <1>0, <1>4, <1>1 DEF RejectRange, Scanning, Return
<1>5. CASE TrimEntryEnd
  <2>1. top \in Call /\ top.i \in Slots /\ cur \in Entry
    BY <1>0, <1>1, <1>2, <1>5 DEF TrimEntryEnd, Scanning
  <2>2. top.base - cur.base \in Nat
    BY <1>0, <2>1, <1>5 DEF TrimEntryEnd, OverlapStart, End, Call, Entry
  <2>3. g_pmm_map' \in [Slots -> Entry]
    BY <1>0, <2>1, <2>2, <1>5 DEF TrimEntryEnd, Entry, cur
  <2> QED BY <1>0, <2>3, <1>2, <1>5 DEF TrimEntryEnd, NextEntry
<1>6. CASE TrimRangeStart
  <2>1. top \in Call /\ top.i \in Slots /\ cur \in Entry
    BY <1>0, <1>1, <1>2, <1>6 DEF TrimRangeStart, Scanning
  <2>2. End(cur) \in Nat /\ End(top) - End(cur) \in Nat
    BY <1>0, <2>1, <1>6, SMTT(30) DEF TrimRangeStart, OverlapStart, OverlapEnd, End, Call, Entry
  <2>3. [top EXCEPT !.base = End(cur), !.length = End(top) - End(cur), !.i = @ + 1] \in Call
    <3>1. top.i + 1 \in Nat
      BY <2>1 DEF Call
    <3> QED BY <2>1, <2>2, <3>1, CallFacts
  <2>4. calls' = [calls EXCEPT ![1] = [top EXCEPT !.base = End(cur),
                             !.length = End(top) - End(cur), !.i = @ + 1]]
    BY <1>0, <1>6 DEF TrimRangeStart, top
  <2>5. calls' \in Seq(Call)
    BY <2>3, <2>4, <1>6, <1>0, StackFacts DEF TrimRangeStart, Scanning
  <2> QED BY <2>5, <1>6, <1>0 DEF TrimRangeStart
<1>7. CASE TrimEntryStart
  <2>1. top \in Call /\ top.i \in Slots /\ cur \in Entry
    BY <1>0, <1>1, <1>2, <1>7 DEF TrimEntryStart, Scanning
  <2>2. End(top) \in Nat /\ End(cur) - End(top) \in Nat
    BY <1>0, <2>1, <1>7 DEF TrimEntryStart, OverlapEnd, End, Call, Entry
  <2>3. g_pmm_map' \in [Slots -> Entry]
    BY <1>0, <2>1, <2>2, <1>7 DEF TrimEntryStart, Entry, cur
  <2> QED BY <1>0, <2>3, <1>2, <1>7 DEF TrimEntryStart, NextEntry
<1>8. CASE TrimRangeEnd
  <2>1. top \in Call /\ top.i \in Slots /\ cur \in Entry
    BY <1>0, <1>1, <1>2, <1>8 DEF TrimRangeEnd, Scanning
  <2>2. cur.base - top.base \in Nat
    BY <1>0, <2>1, <1>8 DEF TrimRangeEnd, OverlapStart, OverlapEnd, End, Call, Entry
  <2>3. [top EXCEPT !.length = cur.base - top.base, !.i = @ + 1] \in Call
    <3>1. top.i + 1 \in Nat
      BY <2>1 DEF Call
    <3> QED BY <2>1, <2>2, <3>1, CallFacts
  <2>4. calls' = [calls EXCEPT ![1] = [top EXCEPT !.length = cur.base - top.base, !.i = @ + 1]]
    BY <1>0, <1>8 DEF TrimRangeEnd, top
  <2>5. calls' \in Seq(Call)
    BY <2>3, <2>4, <1>8, <1>0, StackFacts DEF TrimRangeEnd, Scanning
  <2> QED BY <2>5, <1>8, <1>0 DEF TrimRangeEnd
<1>9. CASE DropEntry
  <2>1. g_pmm_map_size \in 1..PMM_MAP_MAX_ENTRIES
    BY <1>0, <1>1, <1>9, CapacityAssumption DEF DropEntry, Scanning, Call
  <2>2. Deleted(top.i) \in [Slots -> Entry]
    BY <1>0, <2>1, <1>1, <1>9, CapacityAssumption DEF Deleted, Slots, DropEntry, Scanning, Call
  <2> QED BY <1>0, <2>1, <2>2, <1>9, CapacityAssumption DEF DropEntry
<1>10. CASE SplitRange
  <2>1. top \in Call /\ top.i \in Slots /\ cur \in Entry
    BY <1>0, <1>1, <1>2, <1>10 DEF SplitRange, Scanning
  <2>2. cur.base - top.base \in Nat /\ End(cur) \in Nat /\ End(top) - End(cur) \in Nat
    BY <1>0, <2>1, <1>10, SMTT(30) DEF SplitRange, Covers, End, Call, Entry
  <2>3. [top EXCEPT !.length = cur.base - top.base, !.i = 0] \in Call
    BY <1>0, <2>1, <2>2 DEF Call
  <2>4. [calls EXCEPT ![1].base = End(cur), ![1].length = End(top) - End(cur), ![1].i = 0]
          \in Seq(Call)
    <3>1. [top EXCEPT !.base = End(cur), !.length = End(top) - End(cur), !.i = 0] \in Call
      BY <1>0, <2>1, <2>2 DEF Call
    <3>2. [calls EXCEPT ![1] = [top EXCEPT !.base = End(cur),
                       !.length = End(top) - End(cur), !.i = 0]] \in Seq(Call)
      BY <3>1, <1>10, <1>0, StackFacts DEF SplitRange, Scanning
    <3> QED BY <3>2 DEF top
  <2>5. calls' \in Seq(Call)
    BY <1>0, <2>3, <2>4, <1>10, PushFacts DEF SplitRange
  <2> QED BY <2>5, <1>10, <1>0 DEF SplitRange
<1>11. CASE SkipEntry
  BY <1>0, <1>11, <1>2 DEF SkipEntry, NextEntry
<1>12. CASE EmptyRange
  BY <1>0, <1>12, <1>1 DEF EmptyRange, Scanned, Return
<1>13. ASSUME NEW k \in 0..g_pmm_map_size, ExtendPrevious(k)
       PROVE  Good
  <2>1. top \in Call /\ Tail(calls) \in Seq(Call) /\ k - 1 \in Slots
    BY <1>0, <1>1, <1>13, CapacityAssumption DEF ExtendPrevious, Scanned, JoinsPrevious, Slots
  <2>2. g_pmm_map' \in [Slots -> Entry]
    <3>0. g_pmm_map[k - 1] \in Entry /\ g_pmm_map[k - 1].length \in Nat
      BY <1>0, <2>1, EntryFacts
    <3>1. [g_pmm_map[k - 1] EXCEPT !.length = @ + top.length] \in Entry
      <4>1. top.base \in Nat /\ top.length \in Nat
        BY <2>1 DEF Call
      <4>2. \A l \in Nat : l + top.length \in Nat
        BY <4>1
      <4> QED BY <3>0, <4>1, <4>2, EntryFacts
    <3> QED BY <1>0, <2>1, <3>1, <1>13 DEF ExtendPrevious
  <2> QED BY <1>0, <2>1, <2>2, <1>13 DEF ExtendPrevious, Return
<1>14. ASSUME NEW k \in 0..g_pmm_map_size, ExtendNext(k)
       PROVE  Good
  <2>1. top \in Call /\ Tail(calls) \in Seq(Call) /\ k \in Slots
    BY <1>0, <1>1, <1>14 DEF ExtendNext, Scanned
  <2>2. g_pmm_map' \in [Slots -> Entry]
    <3>0. g_pmm_map[k] \in Entry /\ g_pmm_map[k].length \in Nat
      BY <1>0, <2>1, EntryFacts
    <3>1. [g_pmm_map[k] EXCEPT !.base = top.base, !.length = @ + top.length] \in Entry
      <4>1. top.base \in Nat /\ top.length \in Nat
        BY <2>1 DEF Call
      <4>2. \A l \in Nat : l + top.length \in Nat
        BY <4>1
      <4> QED BY <3>0, <4>1, <4>2, EntryFacts
    <3> QED BY <1>0, <2>1, <3>1, <1>14 DEF ExtendNext
  <2> QED BY <1>0, <2>1, <2>2, <1>14 DEF ExtendNext, Return
<1>15. ASSUME NEW k \in 0..g_pmm_map_size, InsertRange(k)
       PROVE  Good
  <2>1. top \in Call /\ Tail(calls) \in Seq(Call)
    BY <1>0, <1>1, <1>15 DEF InsertRange, Scanned
  <2> DEFINE e == [base |-> top.base, length |-> top.length, type |-> top.type]
  <2>2. e \in Entry
    BY <1>0, <2>1 DEF Entry, Call
  <2>3. Inserted(k, e) \in [Slots -> Entry]
    BY <1>0, <2>2, CapacityAssumption DEF Inserted, Slots
  <2> QED BY <1>0, <2>1, <2>3, <1>15, CapacityAssumption DEF InsertRange, Return
<1>16. ASSUME NEW k \in 0..g_pmm_map_size, MapOverflow(k) \/ ReadPastArray(k)
       PROVE  Good
  BY <1>0, <1>16 DEF MapOverflow, ReadPastArray
<1> QED
  BY <1>3, <1>4, <1>5, <1>6, <1>7, <1>8, <1>9, <1>10, <1>11, <1>12, <1>13, <1>14,
     <1>15, <1>16 DEF pmm_map_set
----------------------------------------------------------------------------
(* What the invariant says of the entry the scan is at.                    *)

\* The parts of the invariant that are about the map.
MapInv == MapSorted /\ CallsInv /\ TodoInv /\ OwnedInv /\ StaleInv

\* The entries in use.
LEMMA LiveFacts ==
  ASSUME TypeOK
  PROVE  /\ g_pmm_map_size \in Nat /\ PMM_MAP_MAX_ENTRIES \in Nat
         /\ g_pmm_map_size <= PMM_MAP_MAX_ENTRIES
         /\ \A k \in Live : /\ k \in Nat /\ k < g_pmm_map_size /\ k \in Slots
                            /\ g_pmm_map[k] \in Entry
<1>1. /\ g_pmm_map \in [Slots -> Entry]
      /\ g_pmm_map_size \in 0..PMM_MAP_MAX_ENTRIES
  BY DEF TypeOK
<1>2. \A k \in Live : k \in Nat /\ k < g_pmm_map_size /\ k \in Slots
  BY <1>1, CapacityAssumption DEF Live, Slots
<1> QED
  BY <1>1, <1>2, CapacityAssumption

\* The bounds of the ranges, for steps that need no more of them.
LEMMA Bounds ==
  /\ \A e \in Entry : e.base \in Nat /\ End(e) \in Nat /\ e.base <= End(e)
                      /\ (e.length > 0 => e.base < End(e))
  /\ \A c \in Call : c.base \in Nat /\ End(c) \in Nat /\ c.base <= End(c)
                     /\ (c.length > 0 => c.base < End(c))
  /\ \A o \in AllocationType : o.base \in Nat /\ End(o) \in Nat /\ o.base <= End(o)
                               /\ (o.length > 0 => o.base < End(o))
<1>1. \A e \in Entry : e.base \in Nat /\ End(e) \in Nat /\ e.base <= End(e)
                      /\ (e.length > 0 => e.base < End(e))
  BY DEF Entry, End
<1>2. \A c \in Call : c.base \in Nat /\ End(c) \in Nat /\ c.base <= End(c)
                     /\ (c.length > 0 => c.base < End(c))
  BY DEF Call, End
<1>3. \A o \in AllocationType : o.base \in Nat /\ End(o) \in Nat /\ o.base <= End(o)
                               /\ (o.length > 0 => o.base < End(o))
  BY DEF AllocationType, End
<1> QED BY <1>1, <1>2, <1>3

\* The entries in use, as bounds: each is non-empty, and of two different ones
\* one is below the other.
LEMMA LiveBounds ==
  ASSUME TypeOK, MapSorted
  PROVE  /\ \A k \in Live : /\ k \in Nat /\ k \in Slots
                            /\ g_pmm_map[k].base \in Nat /\ End(g_pmm_map[k]) \in Nat
                            /\ g_pmm_map[k].base < End(g_pmm_map[k])
         /\ \A j, k \in Live : j # k => \/ End(g_pmm_map[j]) <= g_pmm_map[k].base
                                         \/ End(g_pmm_map[k]) <= g_pmm_map[j].base
<1>1. \A k \in Live : k \in Nat /\ k \in Slots /\ g_pmm_map[k] \in Entry
  BY LiveFacts
<1>2. \A j, k \in Nat : j # k => j < k \/ k < j
  OBVIOUS
<1> QED BY <1>1, <1>2, Bounds, Zenon DEF MapSorted

\* The call on top and the entry it is looking at.
LEMMA ScanFacts ==
  ASSUME TypeOK, MapSorted, Scanning
  PROVE  /\ top \in Call /\ cur \in Entry /\ cur.length > 0
         /\ top.i \in Live /\ top.i \in Slots
         /\ Len(calls) \in Nat /\ Len(calls) >= 1
<1>1. /\ g_pmm_map \in [Slots -> Entry]
      /\ g_pmm_map_size \in 0..PMM_MAP_MAX_ENTRIES
      /\ calls \in Seq(Call)
  BY DEF TypeOK
<1>2. top \in Call /\ Len(calls) \in Nat /\ Len(calls) >= 1
  BY <1>1, StackFacts DEF Scanning, top
<1>3. top.i \in Live /\ top.i \in Slots
  BY <1>1, <1>2, CapacityAssumption DEF Scanning, Live, Slots, Call
<1> QED
  BY <1>1, <1>2, <1>3 DEF MapSorted, cur

\* A range that meets the entry at hand is alone on the stack, forced, and
\* inside that entry.
LEMMA Hit ==
  ASSUME TypeOK, MapSorted, CallsInv, Scanning, Overlap(top, cur), top.length > 0
  PROVE  Len(calls) = 1 /\ top.force /\ Within(top, cur)
<1>1. /\ top \in Call /\ cur \in Entry /\ top.i \in Live
      /\ Len(calls) \in Nat /\ Len(calls) >= 1
  BY ScanFacts
<1>2. ~Clear(top)
  BY <1>1 DEF Clear, cur, Call
<1>3. Len(calls) = 1 /\ InsideAhead(top)
  <2>0. Len(calls) <= 2
    BY Zenon DEF CallsInv
  <2>1. Len(calls) = 1 \/ Len(calls) = 2
    BY <1>1, <2>0, OneOrTwo
  <2>2. Len(calls) # 2
    BY <1>2 DEF CallsInv, top
  <2> QED BY <2>1, <2>2, <1>2, Zenon DEF CallsInv, top
<1>4. PICK k \in Live : top.i <= k /\ Within(top, g_pmm_map[k])
  BY <1>3 DEF InsideAhead
<1>5. g_pmm_map[k] \in Entry
  BY <1>4, LiveFacts
<1>6. top.i \in Nat /\ k \in Nat
  BY <1>1, <1>4, LiveFacts
<1>7. ASSUME top.i < k PROVE FALSE
  <2>1. End(cur) <= g_pmm_map[k].base
    BY <1>1, <1>4, <1>7 DEF MapSorted, cur
  <2> QED
    BY <2>1, <1>1, <1>4, <1>5 DEF Overlap, Within, End, Call, Entry
<1>8. k = top.i
  BY <1>4, <1>6, <1>7
<1> QED
  BY <1>3, <1>4, <1>8 DEF InsideAhead, cur

\* Every branch that cuts a range or an entry is one where they meet.
LEMMA Meets ==
  ASSUME TypeOK, MapSorted, Scanning
  PROVE  /\ OverlapStart /\ ~OverlapEnd => Overlap(top, cur) /\ top.length > 0
         /\ OverlapEnd /\ ~OverlapStart => Overlap(top, cur) /\ top.length > 0
         /\ Covers \/ Equals => Overlap(top, cur) /\ top.length > 0
         /\ OverlapStart /\ OverlapEnd => Overlap(top, cur)
<1>1. top \in Call /\ cur \in Entry /\ cur.length > 0
  BY ScanFacts
<1> QED
  BY <1>1 DEF OverlapStart, OverlapEnd, Covers, Equals, Overlap, End, Call, Entry
----------------------------------------------------------------------------
(* The stack after a step.                                                 *)

\* The scan goes on to the next entry.
LEMMA NextEntryFacts ==
  ASSUME TypeOK, Scanning, NextEntry
  PROVE  /\ Len(calls') = Len(calls) /\ Pending' = Pending
         /\ calls'[1] = [top EXCEPT !.i = @ + 1]
         /\ \A c \in 2..Len(calls) : calls'[c] = calls[c]
<1>1. calls \in Seq(Call) /\ calls # <<>>
  BY DEF TypeOK, Scanning
<1>2. top \in Call
  BY <1>1, StackFacts DEF top
<1>3. [top EXCEPT !.i = @ + 1] \in Call
  BY <1>2 DEF Call
<1>4. calls' = [calls EXCEPT ![1] = [top EXCEPT !.i = @ + 1]]
  BY DEF NextEntry, top
<1> QED
  BY <1>1, <1>3, <1>4, StackFacts DEF Pending

\* The call on top returns.
LEMMA ReturnFacts ==
  ASSUME TypeOK, calls # <<>>, Return
  PROVE  /\ Len(calls) \in Nat /\ Len(calls) >= 1
         /\ Len(calls') = Len(calls) - 1
         /\ \A c \in Pending' : c + 1 \in Pending /\ calls'[c] = calls[c + 1]
         /\ \A c \in Pending : c # 1 => c - 1 \in Pending' /\ calls'[c - 1] = calls[c]
<1>1. calls \in Seq(Call) /\ calls' = Tail(calls)
  BY DEF TypeOK, Return
<1>2. /\ Len(calls) \in Nat /\ Len(calls) >= 1
      /\ Len(calls') = Len(calls) - 1
      /\ \A j \in 1..(Len(calls) - 1) : calls'[j] = calls[j + 1]
  BY <1>1, StackFacts
<1>3. \A n \in Nat : \A c \in 1..(n - 1) : c + 1 \in 1..n
  OBVIOUS
<1>4. \A n \in Nat : \A c \in 1..n : c # 1 => c - 1 \in 1..(n - 1) /\ (c - 1) + 1 = c
  OBVIOUS
<1>5. \A c \in Pending' : c + 1 \in Pending /\ calls'[c] = calls[c + 1]
  BY <1>2, <1>3 DEF Pending
<1>6. \A c \in Pending : c # 1 => c - 1 \in Pending' /\ calls'[c - 1] = calls[c]
  BY <1>2, <1>4 DEF Pending
<1> QED
  BY <1>2, <1>5, <1>6
----------------------------------------------------------------------------
(* The steps that take the range out of the entry that has it.             *)

\* Memory covered before a step is covered after it, and a slot that is not in
\* use is one that was not, or held an entry that was in use.
LEMMA StaleStep ==
  ASSUME TypeOK, TypeOK', StaleInv, MapSorted,
         \A a \in Nat : Covered(a) => Covered(a)',
         \A k \in Slots \ Live' : \E j \in Slots : g_pmm_map'[k] = g_pmm_map[j]
  PROVE  StaleInv'
<1>1. SUFFICES ASSUME NEW k \in Slots \ Live', g_pmm_map'[k].base # 0
               PROVE  (Covered(g_pmm_map[k].base))'
  BY Zenon DEF StaleInv, Slots
<1>2. PICK j \in Slots : g_pmm_map'[k] = g_pmm_map[j]
  OBVIOUS
<1>3. g_pmm_map[j] \in Entry /\ g_pmm_map[j].base \in Nat
  BY EntryFacts DEF TypeOK
<1>4. PICK a \in Nat : a = g_pmm_map[j].base
  BY <1>3
<1>5. Covered(a)
  <2>1. CASE j \in Live
    <3>1. g_pmm_map[j].length > 0
      BY <2>1 DEF MapSorted
    <3>2. InRange(a, g_pmm_map[j])
      BY <1>3, <1>4, <3>1 DEF InRange, End, Entry
    <3> QED BY <2>1, <3>2, Zenon DEF Covered
  <2>2. CASE j \notin Live
    BY <2>2, <1>1, <1>2, <1>4, Zenon DEF StaleInv
  <2> QED BY <2>1, <2>2
<1>6. Covered(a)'
  BY <1>5
<1>7. a = g_pmm_map'[k].base
  BY <1>2, <1>4
<1> QED
  BY <1>6, <1>7, Zenon DEF Covered

\* The height of a stack that holds one call.
LEMMA CallsInvOne ==
  ASSUME Len(calls') = 1, (Clear(calls[1]))'
  PROVE  CallsInv'
<1>1. Len(calls') <= 2 /\ Len(calls') # 2
  OBVIOUS
<1> QED BY <1>1, Zenon DEF CallsInv

\* The range was at one end of the entry, which keeps the rest.
LEMMA TrimEntryInv ==
  ASSUME TypeOK, TypeOK', MapInv, TrimEntryEnd \/ TrimEntryStart,
         UNCHANGED <<todo, owned, snapshot>>
  PROVE  MapInv'
<1> USE DEF MapInv
<1>1. Scanning /\ NextEntry /\ Overlap(top, cur) /\ top.length > 0
  BY Meets DEF TrimEntryEnd, TrimEntryStart
<1>2. /\ top \in Call /\ cur \in Entry /\ cur.length > 0
      /\ top.i \in Live /\ top.i \in Slots
  BY <1>1, ScanFacts
<1>3. Len(calls) = 1 /\ Within(top, cur)
  BY <1>1, Hit
<1>4. /\ Len(calls') = 1 /\ Pending = {1} /\ Pending' = {1}
      /\ calls'[1] = [top EXCEPT !.i = @ + 1] /\ calls[1] = top
  BY <1>1, <1>3, NextEntryFacts DEF Pending, top
<1>5. /\ calls'[1].base = top.base /\ calls'[1].length = top.length
      /\ calls'[1].type = top.type /\ End(calls'[1]) = End(top)
  BY <1>2, <1>4 DEF Call, End
<1>6. /\ Live' = Live
      /\ \A k \in Slots : k # top.i => g_pmm_map'[k] = g_pmm_map[k]
  BY <1>2 DEF TrimEntryEnd, TrimEntryStart, Live, TypeOK, cur
<1>7. /\ g_pmm_map'[top.i].type = cur.type /\ g_pmm_map'[top.i].length > 0
      /\ \/ /\ g_pmm_map'[top.i].base = cur.base
            /\ End(g_pmm_map'[top.i]) = top.base /\ End(cur) = End(top)
         \/ /\ g_pmm_map'[top.i].base = End(top)
            /\ End(g_pmm_map'[top.i]) = End(cur) /\ cur.base = top.base
      /\ g_pmm_map'[top.i] \in Entry
  <2>1. CASE TrimEntryEnd
    <3>1. g_pmm_map'[top.i] = [cur EXCEPT !.length = top.base - cur.base]
      BY <2>1, <1>2 DEF TrimEntryEnd, TypeOK, cur
    <3> QED
      BY <2>1, <3>1, <1>2, <1>3 DEF TrimEntryEnd, Entry, End, Call, OverlapStart, OverlapEnd, Within
  <2>2. CASE TrimEntryStart
    <3>1. g_pmm_map'[top.i] = [cur EXCEPT !.base = End(top), !.length = End(cur) - End(top)]
      BY <2>2, <1>2 DEF TrimEntryStart, TypeOK, cur
    <3>2. /\ End(top) \in Nat /\ End(cur) - End(top) \in Nat /\ End(cur) - End(top) > 0
          /\ cur.base = top.base /\ End(top) + (End(cur) - End(top)) = End(cur)
      BY <2>2, <1>2, <1>3 DEF TrimEntryStart, Entry, End, Call, OverlapStart, OverlapEnd, Within
    <3>3. /\ g_pmm_map'[top.i] \in Entry /\ g_pmm_map'[top.i].type = cur.type
          /\ g_pmm_map'[top.i].base = End(top)
          /\ g_pmm_map'[top.i].length = End(cur) - End(top)
      BY <3>1, <3>2, <1>2 DEF Entry
    <3>4. End(g_pmm_map'[top.i]) = End(cur)
      BY <3>2, <3>3 DEF End
    <3> QED BY <3>2, <3>3, <3>4
  <2> QED BY <2>1, <2>2
<1>8. \A k \in Live : k \in Nat /\ k \in Slots /\ g_pmm_map[k] \in Entry
  BY LiveFacts
<1>9. MapSorted'
  BY <1>2, <1>6, <1>7, <1>8 DEF MapSorted, End, Entry, Call, cur
<1>10. CallsInv'
  <2>1. ASSUME NEW k \in Live' PROVE ~Overlap(calls'[1], g_pmm_map'[k])
    BY <2>1, <1>2, <1>5, <1>6, <1>7, <1>8 DEF MapSorted, Overlap, End, Entry, Call, cur
  <2>2. (Clear(calls[1]))'
    BY <2>1, Zenon DEF Clear
  <2> QED BY <2>2, <1>4, CallsInvOne
<1>11. TodoInv'
  <2>1. SUFFICES ASSUME NEW r \in todo, r.length > 0
                 PROVE  /\ \A k \in Live' : ~Overlap(r, g_pmm_map'[k])
                        /\ \A c \in Pending' : ~Overlap(r, calls'[c])
    BY Zenon DEF TodoInv
  <2>2. r \in Entry
    BY RegionsAssumption DEF TypeOK
  <2>3. /\ \A k \in Live : ~Overlap(r, g_pmm_map[k])
        /\ ~Overlap(r, top)
    BY <2>1, <1>4 DEF TodoInv
  <2> QED
    BY <2>2, <2>3, <1>2, <1>4, <1>5, <1>6, <1>7, <1>8 DEF Overlap, End, Entry, Call, cur
<1>12. OwnedInv'
  <2>1. SUFFICES ASSUME NEW o \in owned
                 PROVE  /\ (Held(o))'
                        /\ \A c \in Pending' : \/ ~Overlap(o, calls'[c])
                                               \/ Within(o, calls'[c]) /\ o.type = calls'[c].type
    BY Zenon DEF OwnedInv
  <2>2. /\ o \in AllocationType /\ o.length > 0 /\ Held(o)
        /\ ~Overlap(o, top) \/ (Within(o, top) /\ o.type = top.type)
    BY <1>4 DEF OwnedInv, TypeOK
  <2>3. \/ ~Overlap(o, calls'[1])
        \/ Within(o, calls'[1]) /\ o.type = calls'[1].type
    BY <2>2, <1>5 DEF Overlap, Within, End
  <2>4. (Held(o))'
    <3>1. CASE Within(o, top) /\ o.type = top.type
      <4>1. Within(o, calls'[1]) /\ calls'[1].type = o.type
        BY <3>1, <1>5 DEF Within, End
      <4> QED BY <4>1, <1>4, Zenon DEF Held
    <3>2. CASE ~(Within(o, top) /\ o.type = top.type)
      <4>1. PICK k \in Live : Within(o, g_pmm_map[k]) /\ g_pmm_map[k].type = o.type
        BY <3>2, <2>2, <1>4, Zenon DEF Held
      <4>2. Within(o, g_pmm_map'[k]) /\ g_pmm_map'[k].type = o.type
        BY <4>1, <3>2, <2>2, <1>2, <1>6, <1>7, <1>8
           DEF Within, Overlap, End, Entry, Call, AllocationType, cur
      <4> QED BY <4>2, <1>6, Zenon DEF Held
    <3> QED BY <3>1, <3>2
  <2> QED BY <2>3, <2>4, <1>4
<1>13. \A a \in Nat : Covered(a) => Covered(a)'
  <2>1. SUFFICES ASSUME NEW a \in Nat, Covered(a) PROVE Covered(a)'
    OBVIOUS
  <2>2. CASE InRange(a, top)
    <3>1. InRange(a, calls'[1])
      BY <2>2, <1>5 DEF InRange, End
    <3> QED BY <3>1, <1>4, Zenon DEF Covered
  <2>3. CASE ~InRange(a, top)
    <3>1. PICK k \in Live : InRange(a, g_pmm_map[k])
      BY <2>1, <2>3, <1>4, Zenon DEF Covered
    <3>2. InRange(a, g_pmm_map'[k])
      BY <3>1, <2>3, <1>2, <1>6, <1>7, <1>8 DEF InRange, End, Entry, Call, cur
    <3> QED BY <3>2, <1>6, Zenon DEF Covered
  <2> QED BY <2>2, <2>3
<1>14. StaleInv'
  BY <1>2, <1>6, <1>13, StaleStep, Zenon
<1> QED
  BY <1>9, <1>10, <1>11, <1>12, <1>14

\* The range was the whole entry.
LEMMA DropEntryInv ==
  ASSUME TypeOK, TypeOK', MapInv, DropEntry, UNCHANGED <<todo, owned, snapshot>>
  PROVE  MapInv'
<1> USE DEF MapInv
<1>1. Scanning /\ Overlap(top, cur) /\ top.length > 0 /\ (Covers \/ Equals)
  BY Meets DEF DropEntry
<1>2. /\ top \in Call /\ cur \in Entry /\ cur.length > 0
      /\ top.i \in Live /\ top.i \in Slots /\ top.i \in Nat
  BY <1>1, ScanFacts, LiveFacts
<1>3. Len(calls) = 1 /\ Within(top, cur)
  BY <1>1, Hit
<1>4. /\ calls' = calls /\ Pending = {1} /\ Pending' = {1} /\ calls[1] = top
  BY <1>3 DEF DropEntry, Pending, top
<1>5. End(top) = End(cur) /\ top.base = cur.base
  BY <1>1, <1>2, <1>3 DEF Covers, Equals, Within, End, Entry, Call
<1> DEFINE old(k) == IF k < top.i THEN k ELSE k + 1
<1>6. /\ \A k \in Live' : /\ k \in Nat /\ old(k) \in Live /\ old(k) # top.i
                          /\ g_pmm_map'[k] = g_pmm_map[old(k)]
      /\ \A k \in Live : k < top.i => k \in Live' /\ old(k) = k
      /\ \A k \in Live : k > top.i => k - 1 \in Live' /\ old(k - 1) = k
  <2>1. /\ g_pmm_map_size \in Nat /\ PMM_MAP_MAX_ENTRIES \in Nat
        /\ g_pmm_map_size <= PMM_MAP_MAX_ENTRIES /\ top.i < g_pmm_map_size
    BY <1>1, LiveFacts DEF Scanning
  <2>2. g_pmm_map_size' = g_pmm_map_size - 1 /\ g_pmm_map' = Deleted(top.i)
    BY DEF DropEntry
  <2> QED BY <2>1, <2>2, <1>2 DEF Deleted, Live, Slots
<1>7. \A k \in Live : k # top.i => \E j \in Live' : g_pmm_map'[j] = g_pmm_map[k]
  <2>1. SUFFICES ASSUME NEW k \in Live, k # top.i
                 PROVE  \E j \in Live' : g_pmm_map'[j] = g_pmm_map[k]
    OBVIOUS
  <2>2. k \in Nat
    BY LiveFacts
  <2>3. CASE k < top.i
    BY <2>3, <1>6
  <2>4. CASE k > top.i
    BY <2>4, <1>6
  <2> QED BY <2>1, <2>2, <2>3, <2>4, <1>2
<1>8. \A k \in Live : k \in Nat /\ k \in Slots /\ g_pmm_map[k] \in Entry
  BY LiveFacts
<1>9. MapSorted'
  <2>1. \A k \in Live' : g_pmm_map'[k].length > 0
    BY <1>6 DEF MapSorted
  <2>2. ASSUME NEW j \in Live', NEW k \in Live', j < k
        PROVE  End(g_pmm_map'[j]) <= g_pmm_map'[k].base
    <3>1. old(j) \in Live /\ old(k) \in Live /\ old(j) < old(k)
      BY <2>2, <1>2, <1>6
    <3> QED BY <3>1, <1>6 DEF MapSorted
  <2> QED BY <2>1, <2>2 DEF MapSorted
<1>10. CallsInv'
  <2>1. ASSUME NEW k \in Live' PROVE ~Overlap(calls'[1], g_pmm_map'[k])
    <3> DEFINE j == old(k)
    <3>1. j \in Live /\ j # top.i /\ g_pmm_map'[k] = g_pmm_map[j] /\ g_pmm_map[j] \in Entry
          /\ j \in Nat
      BY <1>6, <1>8
    <3>2. End(g_pmm_map[j]) <= cur.base \/ End(cur) <= g_pmm_map[j].base
      BY <3>1, <1>2 DEF MapSorted, cur
    <3> QED
      BY <3>1, <3>2, <1>2, <1>4, <1>5 DEF Overlap, End, Entry, Call
  <2>2. (Clear(calls[1]))'
    BY <2>1, Zenon DEF Clear
  <2> QED BY <2>2, <1>3, <1>4, CallsInvOne
<1>11. TodoInv'
  BY <1>4, <1>6, Zenon DEF TodoInv
<1>12. OwnedInv'
  <2>1. SUFFICES ASSUME NEW o \in owned PROVE (Held(o))'
    BY <1>4, Zenon DEF OwnedInv
  <2>2. /\ o \in AllocationType /\ o.length > 0 /\ Held(o)
        /\ ~Overlap(o, top) \/ (Within(o, top) /\ o.type = top.type)
    BY <1>4 DEF OwnedInv, TypeOK
  <2>3. CASE Within(o, top) /\ o.type = top.type
    BY <2>3, <1>4, Zenon DEF Held
  <2>4. CASE ~(Within(o, top) /\ o.type = top.type)
    <3>1. PICK k \in Live : Within(o, g_pmm_map[k]) /\ g_pmm_map[k].type = o.type
      BY <2>4, <2>2, <1>4, Zenon DEF Held
    <3>2. k # top.i
      BY <3>1, <2>4, <2>2, <1>2, <1>5 DEF Within, Overlap, End, Entry, Call, AllocationType, cur
    <3> QED BY <3>1, <3>2, <1>7, Zenon DEF Held
  <2> QED BY <2>3, <2>4
<1>13. \A a \in Nat : Covered(a) => Covered(a)'
  <2>1. SUFFICES ASSUME NEW a \in Nat, Covered(a) PROVE Covered(a)'
    OBVIOUS
  <2>2. CASE InRange(a, top)
    BY <2>2, <1>4, Zenon DEF Covered
  <2>3. CASE ~InRange(a, top)
    <3>1. PICK k \in Live : InRange(a, g_pmm_map[k])
      BY <2>1, <2>3, <1>4, Zenon DEF Covered
    <3>2. k # top.i
      BY <3>1, <2>3, <1>2, <1>5 DEF InRange, End, Entry, Call, cur
    <3> QED BY <3>1, <3>2, <1>7, Zenon DEF Covered
  <2> QED BY <2>2, <2>3
<1>14. \A k \in Slots \ Live' : \E j \in Slots : g_pmm_map'[k] = g_pmm_map[j]
  <2>1. g_pmm_map_size \in Nat /\ g_pmm_map_size <= PMM_MAP_MAX_ENTRIES
        /\ PMM_MAP_MAX_ENTRIES \in Nat /\ top.i < g_pmm_map_size
    BY <1>1, LiveFacts DEF Scanning
  <2>2. g_pmm_map_size' = g_pmm_map_size - 1 /\ g_pmm_map' = Deleted(top.i)
    BY DEF DropEntry
  <2> QED BY <2>1, <2>2, <1>2 DEF Deleted, Live, Slots
<1>15. StaleInv'
  BY <1>13, <1>14, StaleStep, Zenon
<1> QED
  BY <1>9, <1>10, <1>11, <1>12, <1>15

\* The range was inside the entry, which keeps what is below it; what is above
\* goes back into the map by a call of its own.
LEMMA SplitEntryInv ==
  ASSUME TypeOK, TypeOK', MapInv, SplitEntry, UNCHANGED <<todo, owned, snapshot>>
  PROVE  MapInv'
<1> USE DEF MapInv
<1>1. /\ Scanning /\ Overlap(top, cur) /\ OverlapStart /\ OverlapEnd
      /\ calls \in Seq(Call) /\ calls # <<>>
  BY Meets DEF SplitEntry, Scanning, TypeOK
<1>2. /\ top \in Call /\ cur \in Entry /\ cur.length > 0
      /\ top.i \in Live /\ top.i \in Slots
      /\ Len(calls) \in Nat /\ Len(calls) >= 1
  BY <1>1, ScanFacts
<1>3. Len(calls) = 1
  <2>1. CASE top.length > 0
    BY <2>1, <1>1, Hit
  <2>2. CASE ~(top.length > 0)
    <3>1. Len(calls) <= 2 /\ Len(calls) # 2
      BY <2>2, Zenon DEF CallsInv, top
    <3> QED BY <3>1, <1>2, OneOrTwo
  <2> QED BY <2>1, <2>2
<1> DEFINE f == [base |-> End(top), length |-> End(cur) - End(top),
                 type |-> cur.type, force |-> TRUE, i |-> 0]
           g == [top EXCEPT !.i = @ + 1]
<1>4. /\ Pending = {1} /\ calls[1] = top
      /\ Len(calls') = 2 /\ Pending' = {1, 2} /\ calls'[1] = f /\ calls'[2] = g
      /\ f \in Call /\ g \in Call
  <2>1. f \in Call /\ g \in Call
    <3>1. End(top) \in Nat /\ End(cur) - End(top) \in Nat
      BY <1>1, <1>2, SMTT(30) DEF OverlapEnd, End, Call, Entry
    <3>2. f \in Call
      BY <3>1, <1>2, CallFacts, EntryFacts
    <3>3. g \in Call
      BY <1>2 DEF Call
    <3> QED BY <3>2, <3>3
  <2> DEFINE s == [calls EXCEPT ![1] = g]
  <2>2. s \in Seq(Call) /\ Len(s) = 1 /\ s[1] = g
    BY <2>1, <1>1, <1>3, StackFacts
  <2>3. calls' = <<f>> \o s
    BY DEF SplitEntry, top
  <2>4. Len(calls') = 2 /\ calls'[1] = f
    <3> HIDE DEF s, f
    <3> QED BY <2>1, <2>2, <2>3, PushFacts
  <2>5. calls'[1 + 1] = s[1]
    <3>1. 1 \in 1..Len(s)
      BY <2>2
    <3> HIDE DEF s, f
    <3> QED BY <3>1, <2>1, <2>2, <2>3, PushFacts
  <2> QED BY <2>1, <2>2, <2>4, <2>5, <1>3 DEF Pending, top
<1>5. /\ calls'[2].base = top.base /\ calls'[2].length = top.length
      /\ calls'[2].type = top.type /\ End(calls'[2]) = End(top)
  BY <1>2, <1>4 DEF Call, End
<1>n. /\ End(top) \in Nat /\ End(cur) \in Nat
      /\ cur.base < top.base /\ top.base <= End(top) /\ End(top) < End(cur)
  BY <1>1, <1>2 DEF OverlapStart, OverlapEnd, Call, Entry, End
<1>6. /\ calls'[1].base = End(top) /\ calls'[1].type = cur.type
      /\ calls'[1].length > 0 /\ End(calls'[1]) = End(cur)
      /\ calls'[1].base \in Nat /\ calls'[1].length \in Nat
  <2>2. /\ calls'[1].base = End(top) /\ calls'[1].type = cur.type
        /\ calls'[1].length = End(cur) - End(top)
    BY <1>4
  <2>3. \A m, n \in Nat : m + (n - m) = n /\ (m < n => n - m > 0)
    OBVIOUS
  <2>4. End(calls'[1]) = End(cur) /\ calls'[1].length > 0
    <3>1. End(calls'[1]) = calls'[1].base + calls'[1].length
      BY DEF End
    <3>2. End(calls'[1]) = End(top) + (End(cur) - End(top))
      BY <3>1, <2>2
    <3>3. End(top) + (End(cur) - End(top)) = End(cur) /\ End(cur) - End(top) > 0
      BY <1>n, <2>3
    <3> QED BY <3>2, <3>3, <2>2
  <2>5. calls'[1].base \in Nat /\ calls'[1].length \in Nat
    BY <1>4, CallFacts
  <2> QED BY <2>2, <2>4, <2>5
<1> HIDE DEF f, g
<1>7. /\ Live' = Live
      /\ \A k \in Slots : k # top.i => g_pmm_map'[k] = g_pmm_map[k]
  BY <1>2 DEF SplitEntry, Live, TypeOK, cur
<1>a. g_pmm_map'[top.i] = [cur EXCEPT !.length = top.base - cur.base]
  BY <1>2 DEF SplitEntry, TypeOK, cur
<1>8. /\ g_pmm_map'[top.i].type = cur.type /\ g_pmm_map'[top.i].length > 0
      /\ g_pmm_map'[top.i].base = cur.base /\ End(g_pmm_map'[top.i]) = top.base
      /\ g_pmm_map'[top.i] \in Entry
  BY <1>2, <1>n, <1>a DEF Entry, Call, End
<1>9. \A k \in Live : k \in Nat /\ k \in Slots /\ g_pmm_map[k] \in Entry
  BY LiveFacts
<1>b. /\ top.base \in Nat /\ End(top) \in Nat /\ cur.base \in Nat /\ End(cur) \in Nat
      /\ \A k \in Live : g_pmm_map[k].base \in Nat /\ End(g_pmm_map[k]) \in Nat
  BY <1>2, Bounds, LiveBounds
<1>10. MapSorted'
  <2>1. \A k \in Live' : g_pmm_map'[k].length > 0
    BY <1>7, <1>8, <1>9 DEF MapSorted
  <2>2. ASSUME NEW j \in Live, NEW k \in Live, j < k
        PROVE  End(g_pmm_map'[j]) <= g_pmm_map'[k].base
    <3>1. End(g_pmm_map[j]) <= g_pmm_map[k].base
      BY <2>2 DEF MapSorted
    <3>2. j # k
      BY <2>2, <1>9
    <3>3. CASE j = top.i
      <4>1. g_pmm_map'[k] = g_pmm_map[k] /\ End(cur) <= g_pmm_map[k].base
        BY <3>1, <3>2, <3>3, <1>7, <1>9 DEF cur
      <4> QED BY <4>1, <3>3, <1>8, <1>n, <1>b
    <3>4. CASE k = top.i
      BY <3>1, <3>2, <3>4, <1>7, <1>8, <1>9 DEF cur
    <3>5. CASE j # top.i /\ k # top.i
      BY <3>1, <3>5, <1>7, <1>9
    <3> QED BY <3>3, <3>4, <3>5
  <2> QED BY <2>1, <2>2, <1>7, Zenon DEF MapSorted
<1>11. CallsInv'
  <2>1. ASSUME NEW k \in Live'
        PROVE  /\ ~Overlap(calls'[1], g_pmm_map'[k])
               /\ ~Overlap(calls'[2], g_pmm_map'[k])
    <3>1. CASE k = top.i
      BY <3>1, <1>2, <1>n, <1>5, <1>6, <1>8, SMTT(30) DEF Overlap, End, Entry, Call
    <3>2. CASE k # top.i
      <4>1. g_pmm_map'[k] = g_pmm_map[k] /\ g_pmm_map[k] \in Entry /\ k \in Nat /\ top.i \in Nat
        BY <3>2, <1>2, <1>7, <1>9
      <4>2. End(g_pmm_map[k]) <= cur.base \/ End(cur) <= g_pmm_map[k].base
        BY <4>1, <3>2, <1>2, <1>7 DEF MapSorted, cur
      <4> QED
        BY <4>1, <4>2, <1>b, <1>n, <1>5, <1>6, <1>7 DEF Overlap
    <3> QED BY <3>1, <3>2
  <2>2. (Clear(calls[1]))' /\ (Clear(calls[2]))'
    BY <2>1, Zenon DEF Clear
  <2>3. End(calls'[2]) <= calls'[1].base /\ calls'[1].length > 0
    BY <1>5, <1>6
  <2>4. Len(calls') <= 2 /\ Len(calls') # 1
    BY <1>4
  <2> QED BY <2>2, <2>3, <2>4, Zenon DEF CallsInv
<1>12. TodoInv'
  <2>1. SUFFICES ASSUME NEW r \in todo, r.length > 0
                 PROVE  /\ \A k \in Live' : ~Overlap(r, g_pmm_map'[k])
                        /\ \A c \in Pending' : ~Overlap(r, calls'[c])
    BY Zenon DEF TodoInv
  <2>2. r \in Entry
    BY RegionsAssumption DEF TypeOK
  <2>3. /\ \A k \in Live : ~Overlap(r, g_pmm_map[k])
        /\ ~Overlap(r, top) /\ ~Overlap(r, cur)
    BY <2>1, <1>2, <1>4 DEF TodoInv, cur
  <2>4. \A k \in Live' : ~Overlap(r, g_pmm_map'[k])
    <3>1. r.base \in Nat /\ End(r) \in Nat /\ r.base < End(r)
      BY <2>1, <2>2, Bounds
    <3>2. ~Overlap(r, g_pmm_map'[top.i])
      BY <3>1, <2>3, <1>b, <1>n, <1>8 DEF Overlap
    <3> QED BY <3>2, <2>3, <1>7, <1>9, Zenon
  <2>5. ~Overlap(r, calls'[1]) /\ ~Overlap(r, calls'[2])
    BY <2>2, <2>3, <1>2, <1>n, <1>5, <1>6 DEF Overlap, End, Entry, Call
  <2> QED BY <2>4, <2>5, <1>4
<1>13. OwnedInv'
  <2>1. SUFFICES ASSUME NEW o \in owned
                 PROVE  /\ (Held(o))'
                        /\ \A c \in Pending' : \/ ~Overlap(o, calls'[c])
                                               \/ Within(o, calls'[c]) /\ o.type = calls'[c].type
    BY Zenon DEF OwnedInv
  <2>2. /\ o \in AllocationType /\ o.length > 0 /\ Held(o)
        /\ ~Overlap(o, top) \/ (Within(o, top) /\ o.type = top.type)
    BY <1>4 DEF OwnedInv, TypeOK
  <2>3. \/ ~Overlap(o, calls'[2])
        \/ Within(o, calls'[2]) /\ o.type = calls'[2].type
    BY <2>2, <1>5 DEF Overlap, Within, End
  <2>4. CASE Within(o, top) /\ o.type = top.type
    <3>1. Within(o, calls'[2]) /\ calls'[2].type = o.type
      BY <2>4, <1>5 DEF Within, End
    <3>2. ~Overlap(o, calls'[1])
      BY <2>4, <2>2, <1>2, <1>n, <1>6 DEF Within, Overlap, End, Call, AllocationType
    <3>3. (Held(o))'
      BY <3>1, <1>4, Zenon DEF Held
    <3> QED BY <3>2, <3>3, <2>3, <1>4
  <2>5. CASE ~(Within(o, top) /\ o.type = top.type)
    <3>1. PICK k \in Live : Within(o, g_pmm_map[k]) /\ g_pmm_map[k].type = o.type
      BY <2>5, <2>2, <1>4, Zenon DEF Held
    <3>2. CASE k = top.i
      <4>1. \/ End(o) <= top.base
            \/ End(top) <= o.base
        BY <3>1, <3>2, <2>2, <2>5, <1>2, <1>n, <1>6, SMTT(30)
           DEF Overlap, Within, End, Entry, Call, AllocationType, cur
      <4>2. CASE End(o) <= top.base
        <5>1. Within(o, g_pmm_map'[k]) /\ g_pmm_map'[k].type = o.type
          BY <4>2, <3>1, <3>2, <1>8 DEF Within, cur
        <5>2. ~Overlap(o, calls'[1])
          BY <4>2, <2>2, <1>2, <1>n, <1>6 DEF Overlap, End, Call, AllocationType
        <5>3. (Held(o))'
          BY <5>1, <1>7, Zenon DEF Held
        <5> QED BY <5>2, <5>3, <2>3, <1>4
      <4>3. CASE End(top) <= o.base
        <5>1. Within(o, calls'[1]) /\ calls'[1].type = o.type
          BY <4>3, <3>1, <3>2, <1>6 DEF Within, cur
        <5>2. (Held(o))'
          BY <5>1, <1>4, Zenon DEF Held
        <5> QED BY <5>1, <5>2, <2>3, <1>4
      <4> QED BY <4>1, <4>2, <4>3
    <3>3. CASE k # top.i
      <4>1. g_pmm_map'[k] = g_pmm_map[k] /\ g_pmm_map[k] \in Entry /\ k \in Nat /\ top.i \in Nat
        BY <3>3, <1>2, <1>7, <1>9
      <4>2. End(g_pmm_map[k]) <= cur.base \/ End(cur) <= g_pmm_map[k].base
        BY <4>1, <3>3, <1>2 DEF MapSorted, cur
      <4>3. ~Overlap(o, calls'[1])
        <5>1. o.base \in Nat /\ End(o) \in Nat /\ o.base < End(o)
          BY <2>2, Bounds
        <5> QED BY <5>1, <4>2, <3>1, <1>b, <1>n, <1>6 DEF Within, Overlap
      <4>4. (Held(o))'
        BY <4>1, <3>1, <1>7, Zenon DEF Held
      <4> QED BY <4>3, <4>4, <2>3, <1>4
    <3> QED BY <3>2, <3>3
  <2> QED BY <2>4, <2>5
<1>14. \A a \in Nat : Covered(a) => Covered(a)'
  <2>1. SUFFICES ASSUME NEW a \in Nat, Covered(a) PROVE Covered(a)'
    OBVIOUS
  <2>2. CASE InRange(a, top)
    <3>1. InRange(a, calls'[2])
      BY <2>2, <1>5 DEF InRange, End
    <3> QED BY <3>1, <1>4, Zenon DEF Covered
  <2>3. CASE ~InRange(a, top)
    <3>1. PICK k \in Live : InRange(a, g_pmm_map[k])
      BY <2>1, <2>3, <1>4, Zenon DEF Covered
    <3>2. InRange(a, g_pmm_map'[k]) \/ InRange(a, calls'[1])
      <4>1. CASE k = top.i
        <5>1. InRange(a, cur)
          BY <4>1, <3>1 DEF cur
        <5> QED BY <5>1, <4>1, <2>3, <1>b, <1>n, <1>6, <1>8 DEF InRange
      <4>2. CASE k # top.i
        BY <4>2, <3>1, <1>7, <1>9
      <4> QED BY <4>1, <4>2
    <3> QED BY <3>2, <1>4, <1>7, Zenon DEF Covered
  <2> QED BY <2>2, <2>3
<1>15. StaleInv'
  BY <1>2, <1>7, <1>14, StaleStep, Zenon
<1> QED
  BY <1>10, <1>11, <1>12, <1>13, <1>15
----------------------------------------------------------------------------
(* The steps that leave the map as it is.                                  *)

\* Moving on from an entry changes no range.
LEMMA SkipEntryInv ==
  ASSUME TypeOK, TypeOK', MapInv, SkipEntry, UNCHANGED <<todo, owned, snapshot>>
  PROVE  MapInv'
<1> USE DEF MapInv
<1>1. Scanning /\ NextEntry
  BY DEF SkipEntry
<1>2. /\ top \in Call /\ cur \in Entry /\ cur.length > 0 /\ top.i \in Live
      /\ Len(calls) \in Nat /\ Len(calls) >= 1
  BY <1>1, ScanFacts
<1>3. /\ Len(calls') = Len(calls) /\ Pending' = Pending
      /\ calls'[1] = [top EXCEPT !.i = @ + 1]
      /\ \A c \in 2..Len(calls) : calls'[c] = calls[c]
  BY <1>1, NextEntryFacts
<1>4. /\ calls'[1].base = top.base /\ calls'[1].length = top.length
      /\ calls'[1].type = top.type /\ calls'[1].force = top.force
      /\ calls'[1].i = top.i + 1
  BY <1>2, <1>3 DEF Call
<1>5. /\ g_pmm_map' = g_pmm_map /\ g_pmm_map_size' = g_pmm_map_size /\ Live' = Live
  BY DEF SkipEntry, Live
<1>6. \A c \in Pending : /\ calls'[c].base = calls[c].base
                         /\ calls'[c].length = calls[c].length
                         /\ calls'[c].type = calls[c].type
                         /\ End(calls'[c]) = End(calls[c])
  <2>1. SUFFICES ASSUME NEW c \in Pending
                 PROVE  /\ calls'[c].base = calls[c].base
                        /\ calls'[c].length = calls[c].length
                        /\ calls'[c].type = calls[c].type
    BY DEF End
  <2>2. c = 1 \/ c \in 2..Len(calls)
    BY <1>2 DEF Pending
  <2> QED BY <2>2, <1>3, <1>4 DEF top
<1>7. MapSorted'
  BY <1>5, Zenon DEF MapSorted
<1>8. CallsInv'
  <2>1. ASSUME NEW c \in Pending, Clear(calls[c]) PROVE (Clear(calls[c]))'
    BY <2>1, <1>5, <1>6 DEF Clear, Overlap
  <2>2. 1 \in Pending
    BY <1>2 DEF Pending
  <2>3. CASE Len(calls) = 1
    <3>1. CASE Clear(calls[1])
      BY <3>1, <2>1, <2>2, <2>3, <1>3, CallsInvOne
    <3>2. CASE ~Clear(calls[1])
      <4>1. top.force /\ InsideAhead(top)
        <5>1. InsideAhead(top)
          BY <3>2, <2>3, Zenon DEF CallsInv, top
        <5> QED BY <5>1, Zenon DEF InsideAhead
      <4>2. PICK k \in Live : top.i <= k /\ Within(top, g_pmm_map[k])
        BY <4>1, Zenon DEF InsideAhead
      <4>3. top.length > 0
        <5>1. top.length # 0
          BY <3>2, Zenon DEF Clear, top
        <5> QED BY <5>1, <1>2 DEF Call
      <4>4. k # top.i
        <5>1. SUFFICES ASSUME Within(top, cur) PROVE FALSE
          BY <4>2 DEF cur
        <5> QED
          BY <5>1, <4>3, <1>2 DEF SkipEntry, OverlapStart, OverlapEnd, Equals, Within, End,
             Call, Entry
      <4>5. calls'[1].i <= k
        BY <4>2, <4>4, <1>2, <1>4, LiveFacts
      <4>6. Within(calls'[1], g_pmm_map'[k]) /\ calls'[1].force /\ k \in Live'
        <5>1. End(calls'[1]) = End(top)
          BY <2>2, <1>6 DEF top
        <5> QED BY <5>1, <4>1, <4>2, <1>4, <1>5 DEF Within
      <4>7. (InsideAhead(calls[1]))'
        BY <4>5, <4>6, Zenon DEF InsideAhead
      <4>8. Len(calls') = 1 /\ Len(calls') <= 2 /\ Len(calls') # 2
        BY <2>3, <1>3
      <4> QED BY <4>7, <4>8, Zenon DEF CallsInv
    <3> QED BY <3>1, <3>2
  <2>4. CASE Len(calls) = 2
    <3>1. /\ Clear(calls[1]) /\ Clear(calls[2])
          /\ calls[1].length > 0 /\ End(calls[2]) <= calls[1].base
      BY <2>4, Zenon DEF CallsInv
    <3>2. 2 \in Pending
      BY <2>4 DEF Pending
    <3>3. (Clear(calls[1]))' /\ (Clear(calls[2]))'
      BY <3>1, <3>2, <2>1, <2>2
    <3>4. calls'[1].length > 0 /\ End(calls'[2]) <= calls'[1].base
      BY <3>1, <3>2, <2>2, <1>6
    <3>5. Len(calls') <= 2 /\ Len(calls') # 1
      BY <2>4, <1>3
    <3> QED BY <3>3, <3>4, <3>5, Zenon DEF CallsInv
  <2>5. Len(calls) <= 2
    BY Zenon DEF CallsInv
  <2> QED BY <2>3, <2>4, <2>5, <1>2, OneOrTwo
<1>9. TodoInv'
  BY <1>3, <1>5, <1>6 DEF TodoInv, Overlap
<1>10. OwnedInv'
  <2>1. SUFFICES ASSUME NEW o \in owned
                 PROVE  /\ (Held(o))'
                        /\ \A c \in Pending' : \/ ~Overlap(o, calls'[c])
                                               \/ Within(o, calls'[c]) /\ o.type = calls'[c].type
    BY Zenon DEF OwnedInv
  <2>2. /\ Held(o)
        /\ \A c \in Pending : ~Overlap(o, calls[c]) \/ (Within(o, calls[c]) /\ o.type = calls[c].type)
    BY Zenon DEF OwnedInv
  <2>3. (Held(o))'
    BY <2>2, <1>3, <1>5, <1>6 DEF Held, Within
  <2> QED BY <2>2, <2>3, <1>3, <1>6 DEF Overlap, Within
<1>11. \A a \in Nat : Covered(a) => Covered(a)'
  BY <1>3, <1>5, <1>6 DEF Covered, InRange
<1>12. StaleInv'
  BY <1>5, <1>11, StaleStep, Zenon
<1> QED
  BY <1>7, <1>8, <1>9, <1>10, <1>12

\* The return of a call whose range is empty.
LEMMA PopEmptyInv ==
  ASSUME TypeOK, TypeOK', MapInv, calls # <<>>, top.length = 0, Return,
         UNCHANGED <<g_pmm_map, g_pmm_map_size, todo, owned, snapshot>>
  PROVE  MapInv'
<1> USE DEF MapInv
<1>1. /\ top \in Call /\ Len(calls) \in Nat /\ Len(calls) >= 1
  BY StackFacts DEF TypeOK, top
<1>2. Len(calls) = 1
  <2>1. Len(calls) <= 2
    BY Zenon DEF CallsInv
  <2>2. Len(calls) # 2
    BY <1>1 DEF CallsInv, top
  <2> QED BY <2>1, <2>2, <1>1, OneOrTwo
<1>3. Pending = {1} /\ Len(calls') = 0 /\ Pending' = {} /\ Live' = Live
  BY <1>2, ReturnFacts DEF Pending, Live
<1>4. MapSorted'
  BY <1>3, Zenon DEF MapSorted
<1>5. CallsInv'
  <2>1. Len(calls') <= 2 /\ Len(calls') # 1 /\ Len(calls') # 2
    BY <1>3
  <2> QED BY <2>1, Zenon DEF CallsInv
<1>6. TodoInv'
  BY <1>3 DEF TodoInv
<1>7. OwnedInv'
  <2>1. SUFFICES ASSUME NEW o \in owned PROVE (Held(o))'
    BY <1>3, Zenon DEF OwnedInv
  <2>2. Held(o) /\ o.length > 0 /\ o \in AllocationType
    BY DEF OwnedInv, TypeOK
  <2>3. ~Within(o, top)
    BY <2>2, <1>1 DEF Within, End, Call, AllocationType
  <2> QED BY <2>2, <2>3, <1>3 DEF Held, top
<1>8. \A a \in Nat : Covered(a) => Covered(a)'
  <2>1. \A a \in Nat : ~InRange(a, top)
    BY <1>1 DEF InRange, End, Call
  <2> QED BY <2>1, <1>3 DEF Covered, top
<1>9. StaleInv'
  BY <1>3, <1>8, StaleStep, Zenon
<1> QED
  BY <1>4, <1>5, <1>6, <1>7, <1>9
----------------------------------------------------------------------------
(* The steps that put the range into the map.                              *)

\* The place found for the range separates the entries below it from those
\* above it.
PlaceAt(k) ==
    /\ top \in Call /\ top.base < End(top)
    /\ \A j \in Live : j < k => End(g_pmm_map[j]) <= top.base
    /\ \A j \in Live : j >= k => End(top) <= g_pmm_map[j].base

LEMMA PlaceFacts ==
  ASSUME TypeOK, MapInv, Scanned, top.length # 0,
         NEW k \in 0..g_pmm_map_size, IsPlace(k)
  PROVE  /\ top \in Call /\ top.base < End(top)
         /\ Len(calls) = 1 \/ Len(calls) = 2
         /\ Len(calls) = 2 => /\ End(calls[2]) <= top.base /\ Clear(calls[2])
                              /\ calls[2] \in Call
         /\ \A j \in Live : j < k => End(g_pmm_map[j]) <= top.base
         /\ \A j \in Live : j >= k => End(top) <= g_pmm_map[j].base
         /\ PlaceAt(k)
<1> USE DEF MapInv
<1>1. /\ calls \in Seq(Call) /\ calls # <<>>
      /\ top \in Call /\ Len(calls) \in Nat /\ Len(calls) >= 1
  BY StackFacts DEF TypeOK, Scanned, top
<1>2. top.base \in Nat /\ End(top) \in Nat /\ top.base < End(top)
  BY <1>1 DEF Call, End
<1>3. Len(calls) = 1 \/ Len(calls) = 2
  <2>1. Len(calls) <= 2
    BY Zenon DEF CallsInv
  <2> QED BY <2>1, <1>1, OneOrTwo
<1>4. Len(calls) = 2 => /\ End(calls[2]) <= top.base /\ Clear(calls[2])
                        /\ calls[2] \in Call
  <2>1. ASSUME Len(calls) = 2 PROVE calls[2] \in Call
    <3>1. 2 \in 1..Len(calls)
      BY <2>1
    <3> QED BY <3>1, <1>1, ElementType
  <2> QED BY <2>1, Zenon DEF CallsInv, top
<1>5. Clear(top)
  <2>1. ~InsideAhead(top)
    <3>1. ASSUME NEW j \in Live PROVE ~(top.i <= j)
      BY <3>1, <1>1, LiveFacts DEF Scanned, Call
    <3> QED BY <3>1, Zenon DEF InsideAhead
  <2> QED BY <2>1, <1>3, Zenon DEF CallsInv, top
<1>6. \A j \in Live : /\ j \in Nat /\ g_pmm_map[j].base \in Nat /\ End(g_pmm_map[j]) \in Nat
                      /\ g_pmm_map[j].base < End(g_pmm_map[j])
                      /\ ~(top.base < End(g_pmm_map[j]) /\ g_pmm_map[j].base < End(top))
  BY <1>5, LiveBounds, Zenon DEF Clear, Overlap
<1>7. ASSUME NEW j \in Live, j < k
      PROVE  End(g_pmm_map[j]) <= top.base
  <2>1. g_pmm_map[j].base <= top.base
    BY <1>7, <1>6, LiveFacts DEF IsPlace
  <2> QED BY <2>1, <1>2, <1>6
<1>8. ASSUME NEW j \in Live, j >= k
      PROVE  End(top) <= g_pmm_map[j].base
  <2>1. k \in Live /\ k < g_pmm_map_size
    BY <1>8, <1>6, LiveFacts DEF Live
  <2>2. g_pmm_map[k].base > top.base
    BY <2>1 DEF IsPlace
  <2>3. j = k \/ End(g_pmm_map[k]) <= g_pmm_map[j].base
    <3>1. j = k \/ k < j
      BY <2>1, <1>8, <1>6
    <3> QED BY <3>1, <2>1, Zenon DEF MapSorted
  <2> QED BY <2>1, <2>2, <2>3, <1>2, <1>6
<1> QED
  BY <1>1, <1>2, <1>3, <1>4, <1>7, <1>8 DEF PlaceAt

\* Being inside a range that is inside another.
LEMMA WithinTrans ==
  ASSUME NEW r, NEW s, NEW u, Within(r, s), Within(s, u),
         r.base \in Nat, s.base \in Nat, u.base \in Nat,
         End(r) \in Nat, End(s) \in Nat, End(u) \in Nat
  PROVE  Within(r, u)
  BY DEF Within

\* The range is in the map with everything that was there before, and with
\* nothing else.
Absorbs ==
    /\ MapSorted'
    /\ \A j \in Live : \E m \in Live' :
         Within(g_pmm_map[j], g_pmm_map'[m]) /\ g_pmm_map'[m].type = g_pmm_map[j].type
    /\ \E m \in Live' : Within(top, g_pmm_map'[m]) /\ g_pmm_map'[m].type = top.type
    /\ \A m \in Live' : \A b, e \in Nat :
         (/\ b < e /\ (e <= top.base \/ End(top) <= b)
          /\ \A j \in Live : e <= g_pmm_map[j].base \/ End(g_pmm_map[j]) <= b)
         => e <= g_pmm_map'[m].base \/ End(g_pmm_map'[m]) <= b
    /\ \A m \in Slots \ Live' : \E j \in Slots : g_pmm_map'[m] = g_pmm_map[j]

\* An entry above the range keeps its end, and takes the range if it touches it; and
\* an entry that is not where it was starts no lower than the range.
AbsorbsInPlace ==
    /\ \A j \in Live : End(top) <= g_pmm_map[j].base =>
         \E m \in Live' :
            /\ g_pmm_map'[m].type = g_pmm_map[j].type
            /\ End(g_pmm_map'[m]) = End(g_pmm_map[j])
            /\ \/ g_pmm_map'[m].base = g_pmm_map[j].base
               \/ g_pmm_map'[m].base = top.base /\ g_pmm_map[j].base = End(top)
    /\ \A m \in Live' :
         \/ m \in Live /\ g_pmm_map'[m] = g_pmm_map[m]
         \/ top.base <= g_pmm_map'[m].base
         \/ m \in Live /\ End(g_pmm_map[m]) = top.base

\* Then the call may return.
LEMMA AbsorbInv ==
  ASSUME TypeOK, TypeOK', MapInv, Scanned, top.length # 0, Return,
         NEW k \in 0..g_pmm_map_size, IsPlace(k),
         UNCHANGED <<todo, owned, snapshot>>, Absorbs
  PROVE  MapInv'
<1> USE DEF MapInv, Absorbs
<1>1. /\ top \in Call /\ top.base < End(top)
      /\ Len(calls) = 1 \/ Len(calls) = 2
      /\ Len(calls) = 2 => /\ End(calls[2]) <= top.base /\ Clear(calls[2])
                           /\ calls[2] \in Call
  BY PlaceFacts
<1>2. top.base \in Nat /\ End(top) \in Nat
  BY <1>1, Bounds
<1>3. calls # <<>> /\ calls[1] = top
  BY DEF Scanned, top
<1>4. /\ Len(calls') = Len(calls) - 1
      /\ \A c \in Pending' : c + 1 \in Pending /\ calls'[c] = calls[c + 1]
      /\ \A c \in Pending : c # 1 => c - 1 \in Pending' /\ calls'[c - 1] = calls[c]
  BY <1>3, ReturnFacts
<1>5. \A j \in Live : g_pmm_map[j].base \in Nat /\ End(g_pmm_map[j]) \in Nat
  BY LiveBounds
<1>6. \A m \in Live' : g_pmm_map'[m].base \in Nat /\ End(g_pmm_map'[m]) \in Nat
  <2>1. \A m \in Live' : m \in Slots
    <3>1. g_pmm_map_size' \in 0..PMM_MAP_MAX_ENTRIES
      BY DEF TypeOK
    <3> QED BY <3>1, CapacityAssumption DEF Live, Slots
  <2>2. \A m \in Live' : g_pmm_map'[m] \in Entry
    BY <2>1 DEF TypeOK
  <2> QED BY <2>2, Bounds
\* A range that keeps clear of the old map and of the new range keeps clear of
\* the new map.
<1>7. ASSUME NEW r, r.base \in Nat, End(r) \in Nat, r.base < End(r),
             ~Overlap(r, top), \A j \in Live : ~Overlap(r, g_pmm_map[j])
      PROVE  \A m \in Live' : ~Overlap(r, g_pmm_map'[m])
  <2>1. End(r) <= top.base \/ End(top) <= r.base
    BY <1>7, <1>2 DEF Overlap
  <2>2. \A j \in Live : End(r) <= g_pmm_map[j].base \/ End(g_pmm_map[j]) <= r.base
    BY <1>7, <1>5 DEF Overlap
  <2>3. \A m \in Live' : End(r) <= g_pmm_map'[m].base \/ End(g_pmm_map'[m]) <= r.base
    BY <2>1, <2>2, <1>7, Zenon
  <2> QED BY <2>3, <1>6, <1>7 DEF Overlap
<1>8. CallsInv'
  <2>1. CASE Len(calls) = 1
    <3>1. Len(calls') <= 2 /\ Len(calls') # 1 /\ Len(calls') # 2
      BY <2>1, <1>4
    <3> QED BY <3>1, Zenon DEF CallsInv
  <2>2. CASE Len(calls) = 2
    <3>1. Len(calls') = 1 /\ calls'[1] = calls[2]
      <4>1. Len(calls') = 1 /\ 1 \in Pending'
        BY <2>2, <1>4 DEF Pending
      <4> QED BY <4>1, <1>4
    <3>2. calls[2] \in Call /\ Clear(calls[2]) /\ End(calls[2]) <= top.base
      BY <2>2, <1>1
    <3>3. CASE calls[2].length = 0
      <4>1. (Clear(calls[1]))'
        BY <3>1, <3>3, Zenon DEF Clear
      <4> QED BY <4>1, <3>1, CallsInvOne
    <3>4. CASE calls[2].length # 0
      <4>1. /\ calls[2].base \in Nat /\ End(calls[2]) \in Nat /\ calls[2].base < End(calls[2])
        <5>1. calls[2].length > 0
          BY <3>2, <3>4 DEF Call
        <5> QED BY <5>1, <3>2, Bounds
      <4>2. \A j \in Live : ~Overlap(calls[2], g_pmm_map[j])
        BY <3>2, <3>4, Zenon DEF Clear
      <4>3. ~Overlap(calls[2], top)
        BY <3>2, <4>1, <1>2 DEF Overlap
      <4>4. \A m \in Live' : ~Overlap(calls[2], g_pmm_map'[m])
        BY <4>1, <4>2, <4>3, <1>7
      <4>5. (Clear(calls[1]))'
        BY <4>4, <3>1, Zenon DEF Clear
      <4> QED BY <4>5, <3>1, CallsInvOne
    <3> QED BY <3>3, <3>4
  <2> QED BY <2>1, <2>2, <1>1
<1>9. 1 \in Pending
  BY <1>1 DEF Pending
<1>10. TodoInv'
  <2>1. SUFFICES ASSUME NEW r \in todo, r.length > 0
                 PROVE  /\ \A m \in Live' : ~Overlap(r, g_pmm_map'[m])
                        /\ \A c \in Pending' : ~Overlap(r, calls'[c])
    BY Zenon DEF TodoInv
  <2>2. r \in Entry
    BY RegionsAssumption DEF TypeOK
  <2>3. r.base \in Nat /\ End(r) \in Nat /\ r.base < End(r)
    BY <2>1, <2>2, Bounds
  <2>4. /\ \A j \in Live : ~Overlap(r, g_pmm_map[j])
        /\ \A c \in Pending : ~Overlap(r, calls[c])
    BY <2>1, Zenon DEF TodoInv
  <2>5. ~Overlap(r, top)
    BY <2>4, <1>9, <1>3
  <2>6. \A m \in Live' : ~Overlap(r, g_pmm_map'[m])
    BY <2>3, <2>4, <2>5, <1>7
  <2>7. \A c \in Pending' : ~Overlap(r, calls'[c])
    BY <2>4, <1>4
  <2> QED BY <2>6, <2>7
<1>11. OwnedInv'
  <2>1. SUFFICES ASSUME NEW o \in owned
                 PROVE  /\ (Held(o))'
                        /\ \A c \in Pending' : \/ ~Overlap(o, calls'[c])
                                               \/ Within(o, calls'[c]) /\ o.type = calls'[c].type
    BY Zenon DEF OwnedInv
  <2>2. /\ Held(o)
        /\ \A c \in Pending : ~Overlap(o, calls[c]) \/ (Within(o, calls[c]) /\ o.type = calls[c].type)
    BY Zenon DEF OwnedInv
  <2>3. o.base \in Nat /\ End(o) \in Nat
    BY Bounds DEF TypeOK
  <2>4. ASSUME NEW j \in Live, Within(o, g_pmm_map[j]), g_pmm_map[j].type = o.type
        PROVE  (Held(o))'
    <3>1. PICK m \in Live' : /\ Within(g_pmm_map[j], g_pmm_map'[m])
                             /\ g_pmm_map'[m].type = g_pmm_map[j].type
      BY <2>4
    <3>2. Within(o, g_pmm_map'[m])
      BY <3>1, <2>3, <2>4, <1>5, <1>6, WithinTrans
    <3> QED BY <3>1, <3>2, <2>4, Zenon DEF Held
  <2>5. ASSUME NEW c \in Pending, Within(o, calls[c]), calls[c].type = o.type
        PROVE  (Held(o))'
    <3>1. CASE c = 1
      <4>1. Within(o, top) /\ top.type = o.type
        BY <3>1, <2>5, <1>3
      <4>2. PICK m \in Live' : Within(top, g_pmm_map'[m]) /\ g_pmm_map'[m].type = top.type
        OBVIOUS
      <4>3. Within(o, g_pmm_map'[m])
        BY <4>1, <4>2, <2>3, <1>2, <1>6, WithinTrans
      <4> QED BY <4>1, <4>2, <4>3, Zenon DEF Held
    <3>2. CASE c # 1
      <4>1. c - 1 \in Pending' /\ calls'[c - 1] = calls[c]
        BY <3>2, <1>4
      <4> QED BY <4>1, <2>5, Zenon DEF Held
    <3> QED BY <3>1, <3>2
  <2>6. (Held(o))'
    BY <2>2, <2>4, <2>5, Zenon DEF Held
  <2>7. ASSUME NEW c \in Pending'
        PROVE  \/ ~Overlap(o, calls'[c])
               \/ Within(o, calls'[c]) /\ o.type = calls'[c].type
    <3>1. c + 1 \in Pending /\ calls'[c] = calls[c + 1]
      BY <2>7, <1>4
    <3> QED BY <3>1, <2>2
  <2> QED BY <2>6, <2>7
<1>12. \A a \in Nat : Covered(a) => Covered(a)'
  <2>1. SUFFICES ASSUME NEW a \in Nat, Covered(a) PROVE Covered(a)'
    OBVIOUS
  <2>2. ASSUME NEW j \in Live, InRange(a, g_pmm_map[j]) PROVE Covered(a)'
    <3>1. PICK m \in Live' : Within(g_pmm_map[j], g_pmm_map'[m])
      OBVIOUS
    <3>2. InRange(a, g_pmm_map'[m])
      BY <3>1, <2>2, <1>5, <1>6 DEF Within, InRange
    <3> QED BY <3>2, Zenon DEF Covered
  <2>3. ASSUME NEW c \in Pending, InRange(a, calls[c]) PROVE Covered(a)'
    <3>1. CASE c = 1
      <4>1. PICK m \in Live' : Within(top, g_pmm_map'[m])
        OBVIOUS
      <4>2. InRange(a, g_pmm_map'[m])
        BY <4>1, <3>1, <2>3, <1>2, <1>3, <1>6 DEF Within, InRange
      <4> QED BY <4>2, Zenon DEF Covered
    <3>2. CASE c # 1
      <4>1. c - 1 \in Pending' /\ calls'[c - 1] = calls[c]
        BY <3>2, <1>4
      <4> QED BY <4>1, <2>3, Zenon DEF Covered
    <3> QED BY <3>1, <3>2
  <2> QED BY <2>1, <2>2, <2>3, Zenon DEF Covered
<1>13. StaleInv'
  BY <1>12, StaleStep, Zenon
<1> QED
  BY <1>8, <1>10, <1>11, <1>13
\* The range goes to the end of the entry before it.
LEMMA ExtendPreviousAbsorbs ==
  ASSUME TypeOK, TypeOK', MapSorted, NEW k \in 0..g_pmm_map_size, PlaceAt(k),
         ExtendPrevious(k)
  PROVE  Absorbs /\ AbsorbsInPlace
<1> DEFINE p == k - 1
<1>1. /\ Scanned /\ top.length # 0 /\ IsPlace(k) /\ Return
      /\ k # 0 /\ g_pmm_map[p].type = top.type /\ End(g_pmm_map[p]) = top.base
      /\ g_pmm_map_size' = g_pmm_map_size
  BY DEF ExtendPrevious, JoinsPrevious
<1>2. /\ top \in Call /\ top.base < End(top)
      /\ \A j \in Live : j < k => End(g_pmm_map[j]) <= top.base
      /\ \A j \in Live : j >= k => End(top) <= g_pmm_map[j].base
  BY DEF PlaceAt
<1>3. top.base \in Nat /\ top.length \in Nat /\ End(top) \in Nat /\ End(top) = top.base + top.length
  BY <1>2 DEF Call, End
<1>4. p \in Live /\ p \in Slots /\ p \in Nat /\ k \in Nat /\ p < k
  <2>1. g_pmm_map_size \in Nat /\ PMM_MAP_MAX_ENTRIES \in Nat
        /\ g_pmm_map_size <= PMM_MAP_MAX_ENTRIES
    BY LiveFacts
  <2> QED BY <2>1, <1>1 DEF Live, Slots
<1>5. /\ Live' = Live
      /\ \A j \in Slots : j # p => g_pmm_map'[j] = g_pmm_map[j]
      /\ g_pmm_map'[p] = [g_pmm_map[p] EXCEPT !.length = @ + top.length]
  BY <1>1, <1>4 DEF ExtendPrevious, TypeOK, Live
<1>6. /\ g_pmm_map'[p].base = g_pmm_map[p].base /\ g_pmm_map'[p].type = g_pmm_map[p].type
      /\ End(g_pmm_map'[p]) = End(top) /\ g_pmm_map'[p].length > 0
  <2>1. g_pmm_map[p] \in Entry
    BY <1>4, LiveFacts
  <2>2. /\ g_pmm_map'[p].base = g_pmm_map[p].base /\ g_pmm_map'[p].type = g_pmm_map[p].type
        /\ g_pmm_map'[p].length = g_pmm_map[p].length + top.length
    BY <2>1, <1>5 DEF Entry
  <2>3. g_pmm_map[p].base + g_pmm_map[p].length = top.base
    BY <1>1 DEF End
  <2>4. g_pmm_map[p].base \in Nat /\ g_pmm_map[p].length \in Nat
    BY <2>1, EntryFacts
  <2>5. g_pmm_map'[p].base + g_pmm_map'[p].length = End(top)
    BY <2>2, <2>3, <2>4, <1>3
  <2>6. g_pmm_map'[p].length > 0
    BY <2>2, <2>4, <1>1, <1>3
  <2> QED BY <2>2, <2>5, <2>6 DEF End
<1>7. /\ MapSorted
      /\ \A j \in Live : /\ j \in Nat /\ j \in Slots
                         /\ g_pmm_map[j].base \in Nat /\ End(g_pmm_map[j]) \in Nat
                         /\ g_pmm_map[j].base < End(g_pmm_map[j])
  BY LiveBounds
<1>8. MapSorted'
  <2>1. \A j \in Live' : g_pmm_map'[j].length > 0
    BY <1>5, <1>6, <1>7, Zenon DEF MapSorted
  <2>2. ASSUME NEW h \in Live, NEW j \in Live, h < j
        PROVE  End(g_pmm_map'[h]) <= g_pmm_map'[j].base
    <3>1. End(g_pmm_map[h]) <= g_pmm_map[j].base /\ h # j
      BY <2>2, <1>7 DEF MapSorted
    <3>2. CASE h = p
      <4>1. j >= k /\ g_pmm_map'[j] = g_pmm_map[j]
        BY <3>2, <3>1, <2>2, <1>4, <1>5, <1>7
      <4> QED BY <4>1, <3>2, <1>2, <1>6
    <3>3. CASE h # p
      BY <3>1, <3>3, <1>5, <1>6, <1>7
    <3> QED BY <3>2, <3>3
  <2> QED BY <2>1, <2>2, <1>5, Zenon DEF MapSorted
<1>9. \A j \in Live : \E m \in Live' :
         Within(g_pmm_map[j], g_pmm_map'[m]) /\ g_pmm_map'[m].type = g_pmm_map[j].type
  <2>1. \A j \in Live : Within(g_pmm_map[j], g_pmm_map'[j]) /\ g_pmm_map'[j].type = g_pmm_map[j].type
    <3>1. Within(g_pmm_map[p], g_pmm_map'[p])
      BY <1>1, <1>2, <1>3, <1>4, <1>6, <1>7 DEF Within
    <3>2. \A j \in Live : j # p => Within(g_pmm_map[j], g_pmm_map'[j])
      BY <1>5, <1>7 DEF Within
    <3> QED BY <3>1, <3>2, <1>5, <1>6, <1>7, Zenon
  <2> QED BY <2>1, <1>5
<1>10. \E m \in Live' : Within(top, g_pmm_map'[m]) /\ g_pmm_map'[m].type = top.type
  <2>1. Within(top, g_pmm_map'[p]) /\ g_pmm_map'[p].type = top.type
    BY <1>1, <1>3, <1>4, <1>6, <1>7 DEF Within
  <2> QED BY <2>1, <1>4, <1>5
<1>11. ASSUME NEW m \in Live', NEW b \in Nat, NEW e \in Nat, b < e,
              e <= top.base \/ End(top) <= b,
              \A j \in Live : e <= g_pmm_map[j].base \/ End(g_pmm_map[j]) <= b
       PROVE  e <= g_pmm_map'[m].base \/ End(g_pmm_map'[m]) <= b
  <2>1. CASE m = p
    BY <2>1, <1>11, <1>1, <1>2, <1>3, <1>4, <1>6, <1>7
  <2>2. CASE m # p
    BY <2>2, <1>11, <1>5, <1>7
  <2> QED BY <2>1, <2>2
<1>12. \A m \in Slots \ Live' : \E j \in Slots : g_pmm_map'[m] = g_pmm_map[j]
  BY <1>4, <1>5
<1>13. AbsorbsInPlace
  <2>1. ASSUME NEW j \in Live, End(top) <= g_pmm_map[j].base
        PROVE  j \in Live' /\ g_pmm_map'[j] = g_pmm_map[j]
    BY <2>1, <1>1, <1>2, <1>3, <1>4, <1>5, <1>7
  <2>2. ASSUME NEW m \in Live'
        PROVE  \/ m \in Live /\ g_pmm_map'[m] = g_pmm_map[m]
               \/ m \in Live /\ End(g_pmm_map[m]) = top.base
    BY <1>1, <1>5, <1>7
  <2> QED BY <2>1, <2>2 DEF AbsorbsInPlace
<1> QED
  BY <1>8, <1>9, <1>10, <1>11, <1>12, <1>13, Zenon DEF Absorbs

\* The entry that the range joins from below is in use: nothing starts just above
\* the highest entry, in an unused slot either.
LEMMA ExtendNextLive ==
  ASSUME TypeOK, MapInv, NEW k \in 0..g_pmm_map_size, ExtendNext(k)
  PROVE  k \in Live
<1>1. /\ Scanned /\ top.length # 0 /\ IsPlace(k) /\ Return
      /\ k \in Slots /\ g_pmm_map[k].type = top.type /\ g_pmm_map[k].base = End(top)
      /\ g_pmm_map_size' = g_pmm_map_size
  BY DEF ExtendNext, JoinsNext
<1>2. /\ top \in Call /\ top.base < End(top)
      /\ Len(calls) = 1 \/ Len(calls) = 2
      /\ Len(calls) = 2 => End(calls[2]) <= top.base /\ calls[2] \in Call
      /\ \A j \in Live : j < k => End(g_pmm_map[j]) <= top.base
      /\ \A j \in Live : j >= k => End(top) <= g_pmm_map[j].base
  BY <1>1, PlaceFacts
<1>3. top.base \in Nat /\ top.length \in Nat /\ End(top) \in Nat /\ End(top) = top.base + top.length
  BY <1>2 DEF Call, End
<1>4. /\ MapSorted
      /\ \A j \in Live : /\ j \in Nat /\ j \in Slots
                         /\ g_pmm_map[j].base \in Nat /\ End(g_pmm_map[j]) \in Nat
                         /\ g_pmm_map[j].base < End(g_pmm_map[j])
  BY LiveBounds DEF MapInv
<1>5. g_pmm_map_size \in Nat /\ k \in Nat /\ k <= g_pmm_map_size
  BY LiveFacts
<1>6. k \in Live
  <2>1. SUFFICES ASSUME k \notin Live PROVE FALSE
    OBVIOUS
  <2>2. k = g_pmm_map_size
    BY <2>1, <1>5 DEF Live
  <2>3. \A j \in Live : j < k
    BY <2>2, LiveFacts
  <2>4. g_pmm_map[k].base # 0
    BY <1>1, <1>2, <1>3
  <2>5. Covered(g_pmm_map[k].base)
    BY <2>1, <2>4, <1>1, Zenon DEF MapInv, StaleInv
  <2>6. \A j \in Live : ~InRange(End(top), g_pmm_map[j])
    BY <2>3, <1>2, <1>3, <1>4 DEF InRange
  <2>7. ASSUME NEW c \in Pending PROVE ~InRange(End(top), calls[c])
    <3>1. c = 1 \/ (c = 2 /\ Len(calls) = 2)
      <4>1. CASE Len(calls) = 1
        BY <4>1, <2>7 DEF Pending
      <4>2. CASE Len(calls) = 2
        BY <4>2, <2>7 DEF Pending
      <4> QED BY <4>1, <4>2, <1>2
    <3>2. ~InRange(End(top), top)
      BY <1>3 DEF InRange
    <3>3. ASSUME Len(calls) = 2 PROVE ~InRange(End(top), calls[2])
      <4>1. End(calls[2]) \in Nat /\ End(calls[2]) <= top.base
        BY <3>3, <1>2, Bounds
      <4> QED BY <4>1, <1>2, <1>3 DEF InRange
    <3> QED BY <3>1, <3>2, <3>3 DEF top
  <2> QED BY <2>5, <2>6, <2>7, <1>1, Zenon DEF Covered
<1> QED
  BY <1>6

\* The range goes to the start of the entry after it.
LEMMA ExtendNextAbsorbs ==
  ASSUME TypeOK, TypeOK', MapSorted, NEW k \in 0..g_pmm_map_size, PlaceAt(k), k \in Live,
         ExtendNext(k)
  PROVE  Absorbs /\ AbsorbsInPlace
<1>1. /\ Scanned /\ top.length # 0 /\ IsPlace(k) /\ Return
      /\ k \in Slots /\ g_pmm_map[k].type = top.type /\ g_pmm_map[k].base = End(top)
      /\ g_pmm_map_size' = g_pmm_map_size
  BY DEF ExtendNext, JoinsNext
<1>2. /\ top \in Call /\ top.base < End(top)
      /\ \A j \in Live : j < k => End(g_pmm_map[j]) <= top.base
      /\ \A j \in Live : j >= k => End(top) <= g_pmm_map[j].base
  BY DEF PlaceAt
<1>3. top.base \in Nat /\ top.length \in Nat /\ End(top) \in Nat /\ End(top) = top.base + top.length
  BY <1>2 DEF Call, End
<1>4. /\ MapSorted
      /\ \A j \in Live : /\ j \in Nat /\ j \in Slots
                         /\ g_pmm_map[j].base \in Nat /\ End(g_pmm_map[j]) \in Nat
                         /\ g_pmm_map[j].base < End(g_pmm_map[j])
  BY LiveBounds
<1>5. g_pmm_map_size \in Nat /\ k \in Nat /\ k <= g_pmm_map_size
  BY LiveFacts
<1>6. k \in Live
  OBVIOUS
<1>7. /\ Live' = Live
      /\ \A j \in Slots : j # k => g_pmm_map'[j] = g_pmm_map[j]
      /\ g_pmm_map'[k] = [g_pmm_map[k] EXCEPT !.base = top.base, !.length = @ + top.length]
  BY <1>1 DEF ExtendNext, TypeOK, Live
<1>8. /\ g_pmm_map'[k].base = top.base /\ g_pmm_map'[k].type = g_pmm_map[k].type
      /\ End(g_pmm_map'[k]) = End(g_pmm_map[k]) /\ g_pmm_map'[k].length > 0
  <2>1. g_pmm_map[k] \in Entry
    BY <1>6, LiveFacts
  <2>2. /\ g_pmm_map'[k].base = top.base /\ g_pmm_map'[k].type = g_pmm_map[k].type
        /\ g_pmm_map'[k].length = g_pmm_map[k].length + top.length
    BY <2>1, <1>7 DEF Entry
  <2>3. g_pmm_map[k].base \in Nat /\ g_pmm_map[k].length \in Nat
    BY <2>1, EntryFacts
  <2>4. g_pmm_map'[k].base + g_pmm_map'[k].length = g_pmm_map[k].base + g_pmm_map[k].length
    BY <2>2, <2>3, <1>1, <1>3
  <2>5. g_pmm_map'[k].length > 0
    BY <2>2, <2>3, <1>1, <1>3
  <2> QED BY <2>2, <2>4, <2>5 DEF End
<1>9. MapSorted'
  <2>1. \A j \in Live' : g_pmm_map'[j].length > 0
    BY <1>4, <1>7, <1>8, Zenon DEF MapSorted
  <2>2. ASSUME NEW h \in Live, NEW j \in Live, h < j
        PROVE  End(g_pmm_map'[h]) <= g_pmm_map'[j].base
    <3>1. End(g_pmm_map[h]) <= g_pmm_map[j].base /\ h # j
      BY <2>2, <1>4 DEF MapSorted
    <3>2. CASE j = k
      <4>1. g_pmm_map'[h] = g_pmm_map[h] /\ End(g_pmm_map[h]) <= top.base
        BY <3>2, <3>1, <2>2, <1>2, <1>4, <1>7
      <4> QED BY <4>1, <3>2, <1>8
    <3>3. CASE j # k
      BY <3>1, <3>3, <1>4, <1>7, <1>8
    <3> QED BY <3>2, <3>3
  <2> QED BY <2>1, <2>2, <1>7, Zenon DEF MapSorted
<1>10. \A j \in Live : \E m \in Live' :
          Within(g_pmm_map[j], g_pmm_map'[m]) /\ g_pmm_map'[m].type = g_pmm_map[j].type
  <2>1. \A j \in Live : Within(g_pmm_map[j], g_pmm_map'[j]) /\ g_pmm_map'[j].type = g_pmm_map[j].type
    <3>1. Within(g_pmm_map[k], g_pmm_map'[k])
      BY <1>1, <1>2, <1>3, <1>4, <1>6, <1>8 DEF Within
    <3>2. \A j \in Live : j # k => Within(g_pmm_map[j], g_pmm_map'[j])
      BY <1>4, <1>7 DEF Within
    <3> QED BY <3>1, <3>2, <1>4, <1>7, <1>8, Zenon
  <2> QED BY <2>1, <1>7
<1>11. \E m \in Live' : Within(top, g_pmm_map'[m]) /\ g_pmm_map'[m].type = top.type
  <2>1. Within(top, g_pmm_map'[k]) /\ g_pmm_map'[k].type = top.type
    BY <1>1, <1>3, <1>4, <1>6, <1>8 DEF Within
  <2> QED BY <2>1, <1>6, <1>7
<1>12. ASSUME NEW m \in Live', NEW b \in Nat, NEW e \in Nat, b < e,
              e <= top.base \/ End(top) <= b,
              \A j \in Live : e <= g_pmm_map[j].base \/ End(g_pmm_map[j]) <= b
       PROVE  e <= g_pmm_map'[m].base \/ End(g_pmm_map'[m]) <= b
  <2>1. CASE m = k
    BY <2>1, <1>12, <1>1, <1>2, <1>3, <1>4, <1>6, <1>8
  <2>2. CASE m # k
    BY <2>2, <1>12, <1>4, <1>7
  <2> QED BY <2>1, <2>2
<1>13. \A m \in Slots \ Live' : \E j \in Slots : g_pmm_map'[m] = g_pmm_map[j]
  BY <1>6, <1>7
<1>14. AbsorbsInPlace
  <2>1. ASSUME NEW j \in Live
        PROVE  /\ j \in Live' /\ g_pmm_map'[j].type = g_pmm_map[j].type
               /\ End(g_pmm_map'[j]) = End(g_pmm_map[j])
               /\ \/ g_pmm_map'[j].base = g_pmm_map[j].base
                  \/ g_pmm_map'[j].base = top.base /\ g_pmm_map[j].base = End(top)
    <3>1. CASE j = k
      BY <3>1, <1>1, <1>7, <1>8
    <3>2. CASE j # k
      <4>1. j \in Live' /\ g_pmm_map'[j] = g_pmm_map[j]
        BY <3>2, <1>4, <1>7
      <4> QED BY <4>1
    <3> QED BY <3>1, <3>2
  <2>2. ASSUME NEW m \in Live'
        PROVE  \/ m \in Live /\ g_pmm_map'[m] = g_pmm_map[m]
               \/ top.base <= g_pmm_map'[m].base
    <3>1. m = k => top.base <= g_pmm_map'[m].base
      BY <1>3, <1>8
    <3> QED BY <3>1, <1>4, <1>7
  <2> QED BY <2>1, <2>2 DEF AbsorbsInPlace
<1> QED
  BY <1>9, <1>10, <1>11, <1>12, <1>13, <1>14, Zenon DEF Absorbs

\* The range becomes an entry of its own, and the entries above it move up.
LEMMA InsertRangeAbsorbs ==
  ASSUME TypeOK, TypeOK', MapSorted, NEW k \in 0..g_pmm_map_size, PlaceAt(k),
         InsertRange(k)
  PROVE  Absorbs /\ AbsorbsInPlace
<1> DEFINE new(j) == IF j < k THEN j ELSE j + 1
           old(m) == IF m < k THEN m ELSE m - 1
           e == [base |-> top.base, length |-> top.length, type |-> top.type]
<1>1. /\ Scanned /\ top.length # 0 /\ IsPlace(k) /\ Return
      /\ g_pmm_map_size < PMM_MAP_MAX_ENTRIES
      /\ g_pmm_map_size' = g_pmm_map_size + 1
      /\ g_pmm_map' = Inserted(k, e)
  BY DEF InsertRange
<1>2. /\ top \in Call /\ top.base < End(top)
      /\ \A j \in Live : j < k => End(g_pmm_map[j]) <= top.base
      /\ \A j \in Live : j >= k => End(top) <= g_pmm_map[j].base
  BY DEF PlaceAt
<1>3. top.base \in Nat /\ top.length \in Nat /\ End(top) \in Nat /\ top.length > 0
  BY <1>1, <1>2 DEF Call, End
<1>4. /\ MapSorted
      /\ \A j \in Live : /\ j \in Nat /\ j \in Slots
                         /\ g_pmm_map[j].base \in Nat /\ End(g_pmm_map[j]) \in Nat
                         /\ g_pmm_map[j].base < End(g_pmm_map[j])
  BY LiveBounds
<1>5. /\ g_pmm_map_size \in Nat /\ PMM_MAP_MAX_ENTRIES \in Nat /\ k \in Nat
      /\ k <= g_pmm_map_size /\ g_pmm_map_size < PMM_MAP_MAX_ENTRIES
  BY <1>1, LiveFacts
<1>6. /\ k \in Live' /\ k \in Slots
      /\ g_pmm_map'[k] = e
      /\ \A j \in Live : new(j) \in Live' /\ new(j) # k /\ g_pmm_map'[new(j)] = g_pmm_map[j]
      /\ \A m \in Live' : m \in Nat /\ (m # k => old(m) \in Live /\ g_pmm_map'[m] = g_pmm_map[old(m)])
      /\ \A m \in Slots \ Live' : g_pmm_map'[m] = g_pmm_map[m]
  <2> HIDE DEF e
  <2> QED BY <1>1, <1>5 DEF Inserted, Live, Slots
<1>7. /\ g_pmm_map'[k].base = top.base /\ g_pmm_map'[k].length = top.length
      /\ g_pmm_map'[k].type = top.type /\ End(g_pmm_map'[k]) = End(top)
  BY <1>6 DEF End
<1> HIDE DEF e
<1>8. MapSorted'
  <2>1. \A m \in Live' : g_pmm_map'[m].length > 0
    <3>1. \A j \in Live : g_pmm_map[j].length > 0
      BY <1>4 DEF MapSorted
    <3> QED BY <3>1, <1>3, <1>6, <1>7
  <2>2. ASSUME NEW h \in Live', NEW j \in Live', h < j
        PROVE  End(g_pmm_map'[h]) <= g_pmm_map'[j].base
    <3>0. h \in Nat /\ j \in Nat
      BY <1>6
    <3>1. CASE h = k
      <4>1. j # k /\ old(j) \in Live /\ g_pmm_map'[j] = g_pmm_map[old(j)] /\ old(j) >= k
        BY <3>0, <3>1, <2>2, <1>5, <1>6
      <4> QED BY <4>1, <3>1, <1>2, <1>7
    <3>2. CASE j = k
      <4>1. h # k /\ old(h) \in Live /\ g_pmm_map'[h] = g_pmm_map[old(h)] /\ old(h) < k
        BY <3>0, <3>2, <2>2, <1>5, <1>6
      <4> QED BY <4>1, <3>2, <1>2, <1>7
    <3>3. CASE h # k /\ j # k
      <4>1. /\ old(h) \in Live /\ g_pmm_map'[h] = g_pmm_map[old(h)]
            /\ old(j) \in Live /\ g_pmm_map'[j] = g_pmm_map[old(j)]
        BY <3>3, <1>6
      <4>2. old(h) < old(j)
        BY <3>0, <3>3, <2>2, <1>5
      <4> QED BY <4>1, <4>2, <1>4 DEF MapSorted
    <3> QED BY <3>1, <3>2, <3>3
  <2> QED BY <2>1, <2>2, Zenon DEF MapSorted
<1>9. \A j \in Live : \E m \in Live' :
         Within(g_pmm_map[j], g_pmm_map'[m]) /\ g_pmm_map'[m].type = g_pmm_map[j].type
  <2>1. \A j \in Live : Within(g_pmm_map[j], g_pmm_map[j])
    BY <1>4 DEF Within
  <2> QED BY <2>1, <1>6
<1>10. \E m \in Live' : Within(top, g_pmm_map'[m]) /\ g_pmm_map'[m].type = top.type
  <2>1. Within(top, g_pmm_map'[k]) /\ g_pmm_map'[k].type = top.type
    BY <1>3, <1>7 DEF Within
  <2> QED BY <2>1, <1>6
<1>11. ASSUME NEW m \in Live', NEW b \in Nat, NEW f \in Nat, b < f,
              f <= top.base \/ End(top) <= b,
              \A j \in Live : f <= g_pmm_map[j].base \/ End(g_pmm_map[j]) <= b
       PROVE  f <= g_pmm_map'[m].base \/ End(g_pmm_map'[m]) <= b
  <2>1. CASE m = k
    BY <2>1, <1>11, <1>7
  <2>2. CASE m # k
    BY <2>2, <1>11, <1>6
  <2> QED BY <2>1, <2>2
<1>12. \A m \in Slots \ Live' : \E j \in Slots : g_pmm_map'[m] = g_pmm_map[j]
  BY <1>6
<1>13. AbsorbsInPlace
  <2>1. ASSUME NEW m \in Live'
        PROVE  \/ m \in Live /\ g_pmm_map'[m] = g_pmm_map[m]
               \/ top.base <= g_pmm_map'[m].base
    <3>1. CASE m = k
      BY <3>1, <1>3, <1>7
    <3>2. CASE m < k
      <4>1. m # k /\ old(m) = m
        BY <3>2, <1>5, <1>6
      <4> QED BY <4>1, <1>6
    <3>3. CASE m > k
      <4>1. m # k /\ old(m) >= k
        BY <3>3, <1>5, <1>6
      <4>2. old(m) \in Live /\ g_pmm_map'[m] = g_pmm_map[old(m)]
        BY <4>1, <1>6
      <4>3. End(top) <= g_pmm_map'[m].base /\ g_pmm_map'[m].base \in Nat
        BY <4>1, <4>2, <1>2, <1>4
      <4> QED BY <4>3, <1>2, <1>3
    <3> QED BY <3>1, <3>2, <3>3, <1>5, <1>6
  <2>2. \A j \in Live : \E m \in Live' : g_pmm_map'[m] = g_pmm_map[j]
    BY <1>6
  <2> QED BY <2>1, <2>2, Zenon DEF AbsorbsInPlace
<1> QED
  BY <1>8, <1>9, <1>10, <1>11, <1>12, <1>13, Zenon DEF Absorbs

\* Every step of pmm_map_set preserves the invariant of the map.
LEMMA MapSetInv ==
  ASSUME TypeOK, TypeOK', MapInv, MapSet
  PROVE  MapInv'
<1>0. UNCHANGED <<todo, owned, snapshot>> /\ pmm_map_set /\ MapSorted /\ CallsInv
  BY DEF MapSet, MapInv
<1>1. ASSUME Scanning, Overlap(top, cur), top.length > 0 PROVE Override
  BY <1>0, <1>1, Hit DEF Override
<1>2. CASE SplitEntry
  BY <1>0, <1>2, SplitEntryInv
<1>3. CASE RejectRange
  <2>1. Scanning /\ ~Override /\ Return /\ calls # <<>>
    BY <1>3 DEF RejectRange, Scanning
  <2>2. Overlap(top, cur)
    BY <1>0, <1>3, <2>1, Meets DEF RejectRange
  <2>3. top \in Call
    BY <1>0, <2>1, ScanFacts
  <2>4. top.length = 0
    BY <1>1, <2>1, <2>2, <2>3 DEF Call
  <2> QED BY <1>0, <1>3, <2>1, <2>4, PopEmptyInv DEF RejectRange
<1>4. CASE TrimEntryEnd \/ TrimEntryStart
  BY <1>0, <1>4, TrimEntryInv
<1>5. CASE TrimRangeStart \/ TrimRangeEnd \/ SplitRange
  <2>1. Scanning /\ ~Override
    BY <1>5 DEF TrimRangeStart, TrimRangeEnd, SplitRange
  <2>2. Overlap(top, cur) /\ top.length > 0
    BY <1>0, <1>5, <2>1, Meets DEF TrimRangeStart, TrimRangeEnd, SplitRange
  <2> QED BY <1>1, <2>1, <2>2
<1>6. CASE DropEntry
  BY <1>0, <1>6, DropEntryInv
<1>7. CASE SkipEntry
  BY <1>0, <1>7, SkipEntryInv
<1>8. CASE EmptyRange
  BY <1>0, <1>8, PopEmptyInv DEF EmptyRange, Scanned
<1>9. ASSUME NEW k \in 0..g_pmm_map_size, ExtendPrevious(k) PROVE MapInv'
  <2>1. Scanned /\ top.length # 0 /\ Return /\ IsPlace(k)
    BY <1>9 DEF ExtendPrevious
  <2>2. Absorbs
    BY <1>0, <1>9, <2>1, PlaceFacts, ExtendPreviousAbsorbs
  <2> QED BY <1>0, <2>1, <2>2, AbsorbInv
<1>10. ASSUME NEW k \in 0..g_pmm_map_size, ExtendNext(k) PROVE MapInv'
  <2>1. Scanned /\ top.length # 0 /\ Return /\ IsPlace(k)
    BY <1>10 DEF ExtendNext
  <2>2. Absorbs
    BY <1>0, <1>10, <2>1, PlaceFacts, ExtendNextLive, ExtendNextAbsorbs
  <2> QED BY <1>0, <2>1, <2>2, AbsorbInv
<1>11. ASSUME NEW k \in 0..g_pmm_map_size, InsertRange(k) PROVE MapInv'
  <2>1. Scanned /\ top.length # 0 /\ Return /\ IsPlace(k)
    BY <1>11 DEF InsertRange
  <2>2. Absorbs
    BY <1>0, <1>11, <2>1, PlaceFacts, InsertRangeAbsorbs
  <2> QED BY <1>0, <2>1, <2>2, AbsorbInv
<1>12. ASSUME NEW k \in 0..g_pmm_map_size, MapOverflow(k) \/ ReadPastArray(k) PROVE MapInv'
  <2>1. UNCHANGED <<g_pmm_map, g_pmm_map_size, calls, todo, owned>>
    BY <1>0, <1>12 DEF MapOverflow, ReadPastArray
  <2> QED
    BY <2>1, ZenonT(60) DEF MapInv, MapSorted, CallsInv, TodoInv, OwnedInv, StaleInv, Live, Pending,
       Clear, InsideAhead, Covered, Held
<1> QED
  BY <1>0, <1>2, <1>3, <1>4, <1>5, <1>6, <1>7, <1>8, <1>9, <1>10, <1>11, <1>12
     DEF pmm_map_set
----------------------------------------------------------------------------
(* The clients.                                                            *)

\* The stack when an operation has just called pmm_map_set.
LEMMA EnterFacts ==
  ASSUME NEW b \in Nat, NEW l \in Nat, NEW t \in Types, NEW f \in BOOLEAN, Enter(b, l, t, f)
  PROVE  /\ calls' \in Seq(Call) /\ Len(calls') = 1
         /\ calls'[1] = [base |-> b, length |-> l, type |-> t, force |-> f, i |-> 0]
         /\ calls'[1] \in Call
<1> DEFINE c == [base |-> b, length |-> l, type |-> t, force |-> f, i |-> 0]
<1>1. c \in Call /\ calls' = <<c>>
  BY CallFacts DEF Enter
<1> HIDE DEF c
<1>2. calls' \in Seq(Call) /\ Len(calls') = 1 /\ calls'[1] = c
  BY <1>1
<1> QED BY <1>1, <1>2 DEF c

\* What the search of pmm_alloc_ext finds: free memory of one entry.
LEMMA AllocFacts ==
  ASSUME TypeOK, NEW n \in Nat, NEW t, NEW addr,
         pmm_alloc_ext(n, PTM_PAGE_GRANULARITY, t, addr)
  PROVE  /\ addr \in Nat
         /\ \E k \in Live : /\ g_pmm_map[k].type = FREE /\ g_pmm_map[k].base <= addr
                            /\ addr + Pages(n) <= End(g_pmm_map[k])
<1>1. PICK k \in Live : /\ Fits(k, n, PTM_PAGE_GRANULARITY)
                        /\ addr = MATH_CEIL(g_pmm_map[k].base, PTM_PAGE_GRANULARITY)
  BY DEF pmm_alloc_ext, FirstFit
<1>2. g_pmm_map[k] \in Entry
  BY LiveFacts
<1>3. g_pmm_map[k].base \in Nat /\ g_pmm_map[k].length \in Nat
  BY <1>2, EntryFacts
<1>4. addr \in Nat /\ addr >= g_pmm_map[k].base
  BY <1>1, <1>3, CeilUp, PageAssumption
<1>5. /\ g_pmm_map[k].type = FREE
      /\ g_pmm_map[k].length - (addr - g_pmm_map[k].base) >= Pages(n)
  BY <1>1 DEF Fits
<1>6. Pages(n) \in Nat
  BY PagesLength
<1>7. addr + Pages(n) <= End(g_pmm_map[k])
  BY <1>3, <1>4, <1>5, <1>6 DEF End
<1> QED BY <1>4, <1>5, <1>7

\* A new allocation is one.
LEMMA AllocationFacts ==
  ASSUME NEW addr \in Nat, NEW n \in Nat, NEW t \in Types
  PROVE  Allocation(addr, n, t) \in AllocationType
  BY PagesLength DEF Allocation, AllocationType

\* Every step preserves the types.
LEMMA TypeNext == TypeOK /\ [Next]_vars => TypeOK'
<1> SUFFICES ASSUME TypeOK, [Next]_vars PROVE TypeOK'
  OBVIOUS
<1>0. /\ g_pmm_map \in [Slots -> Entry] /\ g_pmm_map_size \in 0..PMM_MAP_MAX_ENTRIES
      /\ calls \in Seq(Call) /\ todo \subseteq Regions /\ owned \subseteq AllocationType
      /\ snapshot \in SnapshotType
  BY DEF TypeOK
<1>a. ALLOCATED \in Types /\ FREE \in Types
  BY DEF ALLOCATED, FREE, BAD, Types
<1>b. ASSUME NEW b \in Nat, NEW l \in Nat, NEW t \in Types, NEW f \in BOOLEAN,
             Enter(b, l, t, f), UNCHANGED <<g_pmm_map, g_pmm_map_size, panic>>,
             todo' \subseteq Regions, owned' \subseteq AllocationType, snapshot' \in SnapshotType
      PROVE  TypeOK'
  <2>1. calls' \in Seq(Call)
    BY <1>b, EnterFacts
  <2> QED BY <1>b, <2>1 DEF TypeOK
<1>c. ASSUME NEW addr \in Nat, NEW n \in Nat, NEW t \in Types, Own(addr, n, t)
      PROVE  owned' \subseteq AllocationType
  <2>1. Allocation(addr, n, t) \in AllocationType
    BY AllocationFacts
  <2> QED BY <1>0, <1>c, <2>1 DEF Own
<1>1. ASSUME NEW r \in todo, Report(r) PROVE TypeOK'
  <2>1. /\ r.base \in Nat /\ r.length \in Nat /\ r.type \in Types
    BY <1>0, RegionsAssumption, EntryFacts
  <2>2. /\ UNCHANGED <<g_pmm_map, g_pmm_map_size, panic, owned, snapshot>>
        /\ todo' \subseteq Regions
        /\ UNCHANGED calls \/ Enter(r.base, r.length, r.type, FALSE)
    BY <1>0, <1>1 DEF Report, pmm_map_add
  <2>3. CASE UNCHANGED calls
    BY <2>2, <2>3 DEF TypeOK
  <2>4. CASE Enter(r.base, r.length, r.type, FALSE)
    BY <1>0, <2>1, <2>2, <2>4, <1>b
  <2> QED BY <2>2, <2>3, <2>4
<1>2. ASSUME NEW n \in PageCounts, NEW t \in AllocTypes, Allocate(n, t) PROVE TypeOK'
  <2>1. n \in Nat /\ t \in Types
    BY ClientsAssumption
  <2>2. PICK addr : pmm_alloc_ext(n, PTM_PAGE_GRANULARITY, t, addr) /\ Own(addr, n, t)
    BY <1>2 DEF Allocate
  <2>3. addr \in Nat /\ Pages(n) \in Nat
    BY <2>1, <2>2, AllocFacts, PagesLength
  <2>4. owned' \subseteq AllocationType
    BY <2>1, <2>2, <2>3, <1>c
  <2> QED BY <1>0, <1>2, <2>1, <2>2, <2>3, <2>4, <1>b DEF pmm_alloc_ext, Allocate
<1>3. ASSUME NEW addr \in FixedAddresses, NEW n \in PageCounts, NEW t \in AllocTypes,
             AllocateAt(addr, n, t)
      PROVE  TypeOK'
  <2>1. n \in Nat /\ t \in Types /\ addr \in Nat
    BY ClientsAssumption
  <2>2. Pages(n) \in Nat
    BY <2>1, PagesLength
  <2>3. owned' \subseteq AllocationType
    BY <1>3, <2>1, <1>c DEF AllocateAt
  <2> QED BY <1>0, <1>3, <2>1, <2>2, <2>3, <1>b DEF AllocateAt, pmm_alloc_at
<1>4. ASSUME NEW n, OutOfMemory(n) PROVE TypeOK'
  BY <1>4 DEF OutOfMemory, pmm_alloc_ext_fails, TypeOK
<1>5. ASSUME NEW o \in owned, Release(o) PROVE TypeOK'
  <2>1. o.base \in Nat /\ o.pages \in Nat
    BY <1>0 DEF AllocationType
  <2>2. Pages(o.pages) \in Nat
    BY <2>1, PagesLength
  <2> QED BY <1>0, <1>5, <1>a, <2>1, <2>2, <1>b DEF Release, pmm_free
<1>6. CASE pmm_create_snapshot
  <2> DEFINE count == SnapshotSlots(g_pmm_map_size)
             n == SnapshotPages(count)
  <2>1. count \in Nat /\ n \in Nat
    BY <1>0, CapacityAssumption, SnapshotPagesNat DEF SnapshotSlots
  <2> HIDE DEF n
  <2>2. PICK addr : /\ pmm_alloc_ext(n, PTM_PAGE_GRANULARITY, ALLOCATED, addr)
                    /\ Own(addr, n, ALLOCATED)
                    /\ snapshot' = [state |-> "allocating", count |-> count,
                                    allocation |-> Allocation(addr, n, ALLOCATED)]
    BY <1>6 DEF pmm_create_snapshot, n
  <2>3. addr \in Nat /\ Pages(n) \in Nat
    BY <2>1, <2>2, AllocFacts, PagesLength
  <2>4. owned' \subseteq AllocationType
    BY <1>a, <2>1, <2>2, <2>3, <1>c
  <2>5. snapshot' \in SnapshotType
    BY <1>a, <2>1, <2>2, <2>3, AllocationFacts DEF SnapshotType
  <2> QED BY <1>0, <1>6, <1>a, <2>1, <2>2, <2>3, <2>4, <2>5, <1>b
         DEF pmm_alloc_ext, pmm_create_snapshot
<1>7. CASE FillSnapshot
  <2>1. [snapshot EXCEPT !.state = "taken"] \in SnapshotType
    <3>1. snapshot # NoSnapshot
      <4>1. snapshot.state = "allocating"
        BY <1>7 DEF FillSnapshot
      <4>2. NoSnapshot.state = "none"
        BY DEF NoSnapshot
      <4> QED BY <4>1, <4>2
    <3>2. snapshot \in [state : {"allocating", "taken"}, count : Nat, allocation : AllocationType]
      BY <1>0, <3>1 DEF SnapshotType
    <3>3. [snapshot EXCEPT !.state = "taken"]
            \in [state : {"allocating", "taken"}, count : Nat, allocation : AllocationType]
      BY <3>2
    <3> QED BY <3>3 DEF SnapshotType
  <2> QED BY <1>0, <1>7, <2>1 DEF FillSnapshot, TypeOK
<1>8. CASE pmm_free_snapshot
  <2>1. snapshot.allocation \in AllocationType
    BY <1>0, <1>8 DEF pmm_free_snapshot, SnapshotType, NoSnapshot
  <2>2. snapshot.allocation.base \in Nat /\ snapshot.allocation.pages \in Nat
    BY <2>1 DEF AllocationType
  <2>3. Pages(snapshot.allocation.pages) \in Nat
    BY <2>2, PagesLength
  <2>4. NoSnapshot \in SnapshotType
    BY DEF SnapshotType
  <2> QED BY <1>0, <1>8, <1>a, <2>2, <2>3, <2>4, <1>b DEF pmm_free_snapshot, pmm_free
<1>9. CASE MapSet
  BY <1>9, TypeMapSet
<1>10. CASE UNCHANGED vars
  BY <1>10 DEF vars, TypeOK
<1> QED
  BY <1>1, <1>2, <1>3, <1>4, <1>5, <1>6, <1>7, <1>8, <1>9, <1>10 DEF Next

\* For every capacity, page size, memory map and set of requests, overlapping
\* memory maps included, the state variables keep the types of the code's
\* (pmm.c:9-10): the size of the map never exceeds its array, lengths never
\* become negative when pmm_map_set cuts ranges and entries.
THEOREM TypeCorrect == Spec => []TypeOK
<1>1. Init => TypeOK
  BY TypeInit
<1>2. TypeOK /\ [Next]_vars => TypeOK'
  BY TypeNext
<1> QED
  BY <1>1, <1>2, PTL DEF Spec
----------------------------------------------------------------------------
(* The invariant under the clients' steps.                                 *)

\* A call is made for a range inside one entry or apart from all of them, and
\* for the allocations that follow from it.
LEMMA EnterInv ==
  ASSUME TypeOK, TypeOK', MapInv, Idle, NEW c \in Call, calls' = <<c>>,
         UNCHANGED <<g_pmm_map, g_pmm_map_size>>, todo' \subseteq todo,
         Clear(c) \/ InsideAhead(c),
         \A r \in todo' : r.length > 0 => ~Overlap(r, c),
         \A o, p \in owned' : o = p \/ ~Overlap(o, p),
         \A o \in owned' :
            \/ o \in owned /\ ~Overlap(o, c)
            \/ /\ o.length > 0 /\ o.length = Pages(o.pages) /\ o.type # FREE
               /\ Within(o, c) /\ o.type = c.type
  PROVE  MapInv'
<1> USE DEF MapInv
<1>1. calls = <<>> /\ Pending = {} /\ Live' = Live
  BY DEF Idle, Pending, Live
<1>2. Len(calls') = 1 /\ Pending' = {1} /\ calls'[1] = c
  BY DEF Pending
<1>3. MapSorted'
  BY <1>1, Zenon DEF MapSorted
<1>4. CallsInv'
  <2>1. (Clear(calls[1]))' \/ (InsideAhead(calls[1]))'
    BY <1>1, <1>2, Zenon DEF Clear, InsideAhead
  <2>2. Len(calls') <= 2 /\ Len(calls') # 2
    BY <1>2
  <2> QED BY <2>1, <2>2, Zenon DEF CallsInv
<1>5. TodoInv'
  BY <1>1, <1>2, Zenon DEF TodoInv
<1>6. OwnedInv'
  <2>1. SUFFICES ASSUME NEW o \in owned'
                 PROVE  /\ o.length > 0 /\ o.length = Pages(o.pages) /\ o.type # FREE
                        /\ (Held(o))'
                        /\ ~Overlap(o, c) \/ (Within(o, c) /\ o.type = c.type)
    BY <1>2, Zenon DEF OwnedInv
  <2>2. CASE o \in owned /\ ~Overlap(o, c)
    <3>1. o.length > 0 /\ o.length = Pages(o.pages) /\ o.type # FREE /\ Held(o)
      BY <2>2, Zenon DEF OwnedInv
    <3>2. (Held(o))'
      BY <3>1, <1>1, Zenon DEF Held
    <3> QED BY <2>2, <3>1, <3>2
  <2>3. CASE /\ o.length > 0 /\ o.length = Pages(o.pages) /\ o.type # FREE
             /\ Within(o, c) /\ o.type = c.type
    <3>1. (Held(o))'
      BY <2>3, <1>2, Zenon DEF Held
    <3> QED BY <2>3, <3>1
  <2> QED BY <2>2, <2>3
<1>7. \A a \in Nat : Covered(a) => Covered(a)'
  BY <1>1, Zenon DEF Covered
<1>8. StaleInv'
  BY <1>1, <1>7, StaleStep, Zenon
<1> QED
  BY <1>3, <1>4, <1>5, <1>6, <1>8

\* The types and the map part of the invariant for a range inside one entry.
LEMMA EnterInsideInv ==
  ASSUME TypeOK, TypeOK', MapInv, Idle, NEW b \in Nat, NEW l \in Nat, NEW t \in Types,
         Enter(b, l, t, TRUE), UNCHANGED <<g_pmm_map, g_pmm_map_size, todo>>,
         NEW k \in Live, g_pmm_map[k].base <= b, b + l <= End(g_pmm_map[k]),
         \A o, p \in owned' : o = p \/ ~Overlap(o, p),
         \A o \in owned' :
            \/ o \in owned /\ (End(o) <= b \/ b + l <= o.base)
            \/ /\ o.length > 0 /\ o.length = Pages(o.pages) /\ o.type # FREE
               /\ o.base = b /\ o.length = l /\ o.type = t
  PROVE  MapInv'
<1> DEFINE c == [base |-> b, length |-> l, type |-> t, force |-> TRUE, i |-> 0]
<1>1. c \in Call /\ calls' = <<c>>
  BY CallFacts DEF Enter
<1>2. c.base = b /\ c.length = l /\ c.type = t /\ c.force = TRUE /\ c.i = 0 /\ End(c) = b + l
  BY DEF End
<1> HIDE DEF c
<1>3. InsideAhead(c)
  <2>1. c.i <= k
    BY <1>2, LiveFacts
  <2>2. Within(c, g_pmm_map[k])
    BY <1>2 DEF Within
  <2>3. c.force
    BY <1>2
  <2> QED BY <2>1, <2>2, <2>3, Zenon DEF InsideAhead
<1>4. ASSUME NEW r \in todo', r.length > 0 PROVE ~Overlap(r, c)
  <2>1. ~Overlap(r, g_pmm_map[k])
    BY <1>4 DEF MapInv, TodoInv
  <2>2. r \in Entry
    BY <1>4, RegionsAssumption DEF TypeOK
  <2>3. r.base \in Nat /\ End(r) \in Nat
    BY <2>2, Bounds
  <2>4. g_pmm_map[k].base \in Nat /\ End(g_pmm_map[k]) \in Nat
    BY LiveBounds DEF MapInv
  <2> QED BY <2>1, <2>3, <2>4, <1>2 DEF Overlap
<1>5. ASSUME NEW o \in owned'
      PROVE  \/ o \in owned /\ ~Overlap(o, c)
             \/ /\ o.length > 0 /\ o.length = Pages(o.pages) /\ o.type # FREE
                /\ Within(o, c) /\ o.type = c.type
  <2>1. o.base \in Nat /\ End(o) \in Nat
    BY <1>5, Bounds DEF TypeOK
  <2>2. CASE o \in owned /\ (End(o) <= b \/ b + l <= o.base)
    <3>1. ~Overlap(o, c)
      BY <2>1, <2>2, <1>2 DEF Overlap
    <3> QED BY <2>2, <3>1
  <2>3. CASE /\ o.length > 0 /\ o.length = Pages(o.pages) /\ o.type # FREE
             /\ o.base = b /\ o.length = l /\ o.type = t
    <3>1. Within(o, c)
      BY <2>3, <1>2 DEF Within, End
    <3> QED BY <2>3, <3>1, <1>2
  <2> QED BY <2>2, <2>3
<1> QED
  BY <1>1, <1>3, <1>4, <1>5, EnterInv, Zenon

\* An allocation: the memory is in a free entry, so that nobody else has it.
LEMMA AllocInv ==
  ASSUME TypeOK, TypeOK', MapInv, Idle, NEW addr \in Nat, NEW n \in Nat, NEW t \in Types,
         t # FREE, Enter(addr, Pages(n), t, TRUE), Own(addr, n, t),
         UNCHANGED <<g_pmm_map, g_pmm_map_size, todo>>,
         NEW k \in Live, g_pmm_map[k].type = FREE, g_pmm_map[k].base <= addr,
         addr + Pages(n) <= End(g_pmm_map[k])
  PROVE  MapInv'
<1> DEFINE a == Allocation(addr, n, t)
<1>1. Pages(n) \in Nat /\ (n # 0 => Pages(n) > 0)
  BY PagesLength
<1>2. /\ a.base = addr /\ a.length = Pages(n) /\ a.type = t /\ a.pages = n
      /\ End(a) = addr + Pages(n)
  BY DEF Allocation, End
<1> HIDE DEF a
<1>3. owned' = IF n = 0 THEN owned ELSE owned \cup {a}
  BY DEF Own, a
<1>4. ASSUME NEW o \in owned PROVE End(o) <= addr \/ addr + Pages(n) <= o.base
  <2>1. Held(o) /\ o.type # FREE
    BY Zenon DEF MapInv, OwnedInv
  <2>2. Pending = {}
    BY DEF Idle, Pending
  <2>3. PICK j \in Live : Within(o, g_pmm_map[j]) /\ g_pmm_map[j].type = o.type
    BY <2>1, <2>2, Zenon DEF Held
  <2>4. j # k
    BY <2>1, <2>3
  <2>5. o.base \in Nat /\ End(o) \in Nat
    BY Bounds DEF TypeOK
  <2>6. /\ g_pmm_map[j].base \in Nat /\ End(g_pmm_map[j]) \in Nat
        /\ g_pmm_map[k].base \in Nat /\ End(g_pmm_map[k]) \in Nat
        /\ End(g_pmm_map[j]) <= g_pmm_map[k].base \/ End(g_pmm_map[k]) <= g_pmm_map[j].base
    BY <2>4, LiveBounds DEF MapInv
  <2> QED BY <2>3, <2>5, <2>6, <1>1 DEF Within
<1>5. ASSUME NEW o \in owned, n # 0 PROVE ~Overlap(o, a) /\ ~Overlap(a, o)
  <2>1. o.base \in Nat /\ End(o) \in Nat
    BY Bounds DEF TypeOK
  <2> QED BY <2>1, <1>1, <1>2, <1>4 DEF Overlap
<1>6. \A o, p \in owned : o = p \/ ~Overlap(o, p)
  BY Zenon DEF MapInv, OwnedInv
<1>7. \A o, p \in owned' : o = p \/ ~Overlap(o, p)
  <2>1. CASE n = 0
    BY <2>1, <1>3, <1>6
  <2>2. CASE n # 0
    <3>1. owned' = owned \cup {a}
      BY <2>2, <1>3
    <3> QED BY <3>1, <2>2, <1>5, <1>6, Zenon
  <2> QED BY <2>1, <2>2
<1>8. ASSUME NEW o \in owned'
      PROVE  \/ o \in owned /\ (End(o) <= addr \/ addr + Pages(n) <= o.base)
             \/ /\ o.length > 0 /\ o.length = Pages(o.pages) /\ o.type # FREE
                /\ o.base = addr /\ o.length = Pages(n) /\ o.type = t
  <2>1. o \in owned \/ (o = a /\ n # 0)
    BY <1>3
  <2> QED BY <2>1, <1>1, <1>2, <1>4
<1>9. \A o \in owned' :
         \/ o \in owned /\ (End(o) <= addr \/ addr + Pages(n) <= o.base)
         \/ /\ o.length > 0 /\ o.length = Pages(o.pages) /\ o.type # FREE
            /\ o.base = addr /\ o.length = Pages(n) /\ o.type = t
  BY <1>8, Zenon
<1>10. UNCHANGED <<g_pmm_map, g_pmm_map_size, todo>> /\ Pages(n) \in Nat
  BY <1>1
<1> QED
  BY <1>7, <1>9, <1>10, EnterInsideInv, ZenonT(60)

\* A free: the allocation is still in one entry, and apart from the others.
LEMMA FreeInv ==
  ASSUME TypeOK, TypeOK', MapInv, NEW o \in owned, pmm_free(o.base, o.pages),
         owned' = owned \ {o}, UNCHANGED todo
  PROVE  MapInv'
<1>1. /\ Idle /\ Enter(o.base, Pages(o.pages), FREE, TRUE)
      /\ UNCHANGED <<g_pmm_map, g_pmm_map_size>>
  BY DEF pmm_free
<1>2. /\ o.length = Pages(o.pages) /\ Held(o)
      /\ \A p \in owned : p = o \/ ~Overlap(p, o)
  BY Zenon DEF MapInv, OwnedInv
<1>3. o \in AllocationType
  BY Zenon DEF TypeOK
<1>4. o.base \in Nat /\ o.length \in Nat /\ FREE \in Types /\ End(o) = o.base + o.length
  BY <1>3 DEF AllocationType, FREE, BAD, Types, End
<1>5. PICK k \in Live : Within(o, g_pmm_map[k])
  <2>1. Pending = {}
    BY <1>1 DEF Idle, Pending
  <2> QED BY <2>1, <1>2, Zenon DEF Held
<1>6. g_pmm_map[k].base <= o.base /\ o.base + o.length <= End(g_pmm_map[k])
  BY <1>4, <1>5 DEF Within
<1>7. \A p, q \in owned' : p = q \/ ~Overlap(p, q)
  <2>1. \A p, q \in owned : p = q \/ ~Overlap(p, q)
    BY Zenon DEF MapInv, OwnedInv
  <2> QED BY <2>1
<1>8. ASSUME NEW p \in owned'
      PROVE  p \in owned /\ (End(p) <= o.base \/ o.base + o.length <= p.base)
  <2>1. p \in owned /\ ~Overlap(p, o)
    BY <1>2, <1>8
  <2>2. p.base \in Nat /\ End(p) \in Nat
    BY <2>1, Bounds DEF TypeOK
  <2> QED BY <2>1, <2>2, <1>4 DEF Overlap
<1>9. Enter(o.base, o.length, FREE, TRUE)
  BY <1>1, <1>2
<1> QED
  BY <1>1, <1>4, <1>6, <1>7, <1>8, <1>9, EnterInsideInv, Zenon
\* The invariant holds at the start.
LEMMA InvInit == Init => IInv
<1> SUFFICES ASSUME Init PROVE IInv
  OBVIOUS
<1>1. TypeOK
  BY TypeInit
<1>2. Live = {} /\ Pending = {} /\ owned = {} /\ snapshot = NoSnapshot /\ calls = <<>>
  BY DEF Init, PmmInit, Live, Pending
<1>3. Len(calls) <= 2 /\ Len(calls) # 1 /\ Len(calls) # 2
  BY <1>2
<1>4. snapshot.state = "none"
  BY <1>2 DEF NoSnapshot
<1>5. StaleInv
  <2>1. \A k \in Slots : g_pmm_map[k].base = 0
    BY DEF Init, PmmInit, ZeroEntry
  <2> QED BY <2>1, Zenon DEF StaleInv
<1>6. MapSorted /\ CallsInv /\ TodoInv /\ OwnedInv
  BY <1>2, <1>3, Zenon DEF MapSorted, CallsInv, TodoInv, OwnedInv
<1>7. SnapshotInv /\ PhaseInv
  BY <1>2, <1>4 DEF SnapshotInv, PhaseInv
<1> QED BY <1>1, <1>5, <1>6, <1>7 DEF IInv

\* A report adds memory that no entry, and no range still to be reported, has.
LEMMA ReportInv ==
  ASSUME RegionsDisjoint, IInv, TypeOK', NEW r \in todo, Report(r)
  PROVE  MapInv'
<1>1. /\ Idle /\ todo' = todo \ {r} /\ owned' = owned
      /\ UNCHANGED <<g_pmm_map, g_pmm_map_size>>
      /\ IF r.length = 0 THEN UNCHANGED calls ELSE Enter(r.base, r.length, r.type, FALSE)
  BY DEF Report, pmm_map_add
<1>2. TypeOK /\ MapInv /\ owned = {}
  BY Zenon DEF IInv, MapInv, PhaseInv
<1>3. r \in Entry /\ r \in Regions
  BY <1>2, RegionsAssumption DEF TypeOK
<1>4. r.base \in Nat /\ r.length \in Nat /\ r.type \in Types
  BY <1>3, EntryFacts
<1>5. CASE r.length = 0
  <2>1. UNCHANGED calls
    BY <1>1, <1>5
  <2>2. Live' = Live /\ Pending' = Pending
    BY <1>1, <2>1 DEF Live, Pending
  <2>3. MapSorted' /\ CallsInv' /\ StaleInv'
    BY <1>1, <1>2, <2>1, <2>2, Zenon DEF MapInv, MapSorted, CallsInv, StaleInv, Clear,
       InsideAhead, Covered
  <2>4. TodoInv'
    <3>1. \A s \in todo' : s \in todo
      BY <1>1
    <3> QED BY <3>1, <1>1, <1>2, <2>1, <2>2, Zenon DEF MapInv, TodoInv
  <2>5. OwnedInv'
    BY <1>1, <1>2, Zenon DEF OwnedInv
  <2> QED BY <2>3, <2>4, <2>5 DEF MapInv
<1>6. CASE r.length # 0
  <2> DEFINE c == [base |-> r.base, length |-> r.length, type |-> r.type, force |-> FALSE, i |-> 0]
  <2>1. c \in Call /\ calls' = <<c>>
    BY <1>1, <1>4, <1>6, CallFacts DEF Enter
  <2>2. c.base = r.base /\ c.length = r.length /\ End(c) = End(r)
    BY DEF End
  <2> HIDE DEF c
  <2>3. r.length > 0
    BY <1>4, <1>6
  <2>4. Clear(c)
    <3>1. \A k \in Live : ~Overlap(r, g_pmm_map[k])
      BY <1>2, <2>3 DEF MapInv, TodoInv
    <3>2. \A k \in Live : ~Overlap(c, g_pmm_map[k])
      BY <3>1, <2>2 DEF Overlap
    <3> QED BY <3>2, Zenon DEF Clear
  <2>5. ASSUME NEW s \in todo', s.length > 0 PROVE ~Overlap(s, c)
    <3>1. s \in Regions /\ s # r
      BY <1>1, <1>2, <2>5 DEF TypeOK
    <3>2. ~Overlap(s, r)
      <4>1. s.length # 0
        BY <2>5
      <4> QED BY <4>1, <3>1, <1>3, <1>6, Zenon DEF RegionsDisjoint
    <3> QED BY <3>2, <2>2 DEF Overlap
  <2>6. todo' \subseteq todo /\ owned' = {}
    BY <1>1, <1>2
  <2> QED
    BY <1>1, <1>2, <2>1, <2>4, <2>5, <2>6, EnterInv, ZenonT(60)
<1> QED BY <1>5, <1>6

\* Every step preserves the invariant.
LEMMA InvNext ==
  ASSUME RegionsDisjoint
  PROVE  IInv /\ [Next]_vars => IInv'
<1> SUFFICES ASSUME IInv, [Next]_vars PROVE IInv'
  OBVIOUS
<1>0. TypeOK /\ MapInv /\ SnapshotInv /\ PhaseInv
  BY Zenon DEF IInv, MapInv
<1>a. TypeOK'
  BY <1>0, TypeNext
<1>b. SUFFICES MapInv' /\ SnapshotInv' /\ PhaseInv'
  BY <1>a, Zenon DEF IInv, MapInv
<1>1. ASSUME NEW r \in todo, Report(r) PROVE MapInv' /\ SnapshotInv' /\ PhaseInv'
  <2>1. MapInv'
    BY <1>1, <1>a, ReportInv
  <2>2. owned = {} /\ snapshot = NoSnapshot /\ UNCHANGED <<owned, snapshot>>
    BY <1>0, <1>1 DEF PhaseInv, Report
  <2>3. snapshot'.state = "none"
    BY <2>2 DEF NoSnapshot
  <2> QED BY <2>1, <2>2, <2>3 DEF SnapshotInv, PhaseInv
<1>c. ASSUME NEW n \in Nat, NEW t \in Types, NEW addr, t # FREE,
             pmm_alloc_ext(n, PTM_PAGE_GRANULARITY, t, addr), Own(addr, n, t), UNCHANGED todo
      PROVE  MapInv'
  <2>1. addr \in Nat
    BY <1>0, <1>c, AllocFacts
  <2>2. PICK k \in Live : /\ g_pmm_map[k].type = FREE /\ g_pmm_map[k].base <= addr
                          /\ addr + Pages(n) <= End(g_pmm_map[k])
    BY <1>0, <1>c, AllocFacts
  <2>3. Idle /\ Enter(addr, Pages(n), t, TRUE) /\ UNCHANGED <<g_pmm_map, g_pmm_map_size, todo>>
    BY <1>c DEF pmm_alloc_ext
  <2> QED BY <1>0, <1>a, <1>c, <2>1, <2>2, <2>3, AllocInv, ZenonT(60)
<1>d. ASSUME NEW addr, NEW n, NEW t, Own(addr, n, t) PROVE owned \subseteq owned'
  BY <1>d DEF Own
<1>2. ASSUME NEW n \in PageCounts, NEW t \in AllocTypes, Allocate(n, t)
      PROVE  MapInv' /\ SnapshotInv' /\ PhaseInv'
  <2>1. n \in Nat /\ t \in Types /\ t # FREE
    BY ClientsAssumption
  <2>2. PICK addr : pmm_alloc_ext(n, PTM_PAGE_GRANULARITY, t, addr) /\ Own(addr, n, t)
    BY <1>2 DEF Allocate
  <2>3. todo' = todo /\ todo = {} /\ snapshot' = snapshot
    BY <1>2 DEF Allocate, MayCall
  <2>4. MapInv'
    BY <2>1, <2>2, <2>3, <1>c
  <2>5. owned \subseteq owned'
    BY <2>2, <1>d
  <2> QED BY <1>0, <2>3, <2>4, <2>5 DEF SnapshotInv, PhaseInv
<1>3. ASSUME NEW addr \in FixedAddresses, NEW n \in PageCounts, NEW t \in AllocTypes,
             AllocateAt(addr, n, t)
      PROVE  MapInv' /\ SnapshotInv' /\ PhaseInv'
  <2>1. n \in Nat /\ t \in Types /\ t # FREE /\ addr \in Nat
    BY ClientsAssumption
  <2>2. /\ Idle /\ Enter(addr, Pages(n), t, TRUE) /\ Own(addr, n, t) /\ FreeAt(addr, n)
        /\ UNCHANGED <<g_pmm_map, g_pmm_map_size, todo>> /\ todo = {} /\ snapshot' = snapshot
    BY <1>3 DEF AllocateAt, pmm_alloc_at, MayCall
  <2>3. PICK k \in Live : /\ g_pmm_map[k].type = FREE /\ g_pmm_map[k].base <= addr
                          /\ addr + Pages(n) <= End(g_pmm_map[k])
    BY <2>2 DEF FreeAt
  <2>4. MapInv'
    BY <1>0, <1>a, <2>1, <2>2, <2>3, AllocInv, ZenonT(60)
  <2>5. owned \subseteq owned'
    BY <2>2, <1>d
  <2> QED BY <1>0, <2>2, <2>4, <2>5 DEF SnapshotInv, PhaseInv
<1>e. ASSUME UNCHANGED <<g_pmm_map, g_pmm_map_size, calls, todo, owned>> PROVE MapInv'
  BY <1>0, <1>e, ZenonT(60) DEF MapInv, MapSorted, CallsInv, TodoInv, OwnedInv, StaleInv, Live,
     Pending, Clear, InsideAhead, Covered, Held
<1>4. ASSUME NEW n, OutOfMemory(n) PROVE MapInv' /\ SnapshotInv' /\ PhaseInv'
  <2>1. UNCHANGED <<g_pmm_map, g_pmm_map_size, calls, todo, owned, snapshot>>
    BY <1>4 DEF OutOfMemory, pmm_alloc_ext_fails
  <2> QED BY <1>0, <1>e, <2>1 DEF SnapshotInv, PhaseInv
<1>5. ASSUME NEW o \in owned, Release(o) PROVE MapInv' /\ SnapshotInv' /\ PhaseInv'
  <2>1. /\ pmm_free(o.base, o.pages) /\ owned' = owned \ {o} /\ UNCHANGED <<todo, snapshot>>
        /\ todo = {} /\ snapshot.state # "allocating"
        /\ snapshot.state = "taken" => o # snapshot.allocation
    BY <1>5 DEF Release, MayCall
  <2>2. MapInv'
    BY <1>0, <1>a, <2>1, FreeInv
  <2>3. snapshot.state \in {"none", "allocating", "taken"}
    <3>1. NoSnapshot.state = "none"
      BY DEF NoSnapshot
    <3>2. snapshot \in SnapshotType
      BY <1>0 DEF TypeOK
    <3> QED BY <3>1, <3>2 DEF SnapshotType
  <2> QED BY <1>0, <2>1, <2>2, <2>3 DEF SnapshotInv, PhaseInv
<1>6. CASE pmm_create_snapshot
  <2> DEFINE count == SnapshotSlots(g_pmm_map_size)
             n == SnapshotPages(count)
  <2>1. g_pmm_map_size \in Nat
    BY <1>0, LiveFacts
  <2>2. count \in Nat \ {0}
    BY <2>1 DEF SnapshotSlots
  <2>3. n \in Nat /\ n # 0
    BY <2>2, SnapshotPagesNat, SnapshotPagesPositive
  <2>4. PICK addr : /\ pmm_alloc_ext(n, PTM_PAGE_GRANULARITY, ALLOCATED, addr)
                    /\ Own(addr, n, ALLOCATED)
                    /\ snapshot' = [state |-> "allocating", count |-> count,
                                    allocation |-> Allocation(addr, n, ALLOCATED)]
    BY <1>6 DEF pmm_create_snapshot
  <2> HIDE DEF n
  <2>5. todo' = todo /\ todo = {}
    BY <1>6 DEF pmm_create_snapshot, MayCall
  <2>6. ALLOCATED \in Types /\ ALLOCATED # FREE
    BY DEF ALLOCATED, FREE, BAD, Types
  <2>7. MapInv'
    BY <2>3, <2>4, <2>5, <2>6, <1>c
  <2>8. snapshot'.allocation \in owned'
    <3>1. snapshot'.allocation = Allocation(addr, n, ALLOCATED)
      BY <2>4
    <3>2. Allocation(addr, n, ALLOCATED) \in owned'
      BY <2>3, <2>4 DEF Own
    <3> QED BY <3>1, <3>2
  <2> QED BY <2>5, <2>7, <2>8 DEF SnapshotInv, PhaseInv
<1>7. CASE FillSnapshot
  <2>1. /\ UNCHANGED <<g_pmm_map, g_pmm_map_size, calls, todo, owned>>
        /\ snapshot.state = "allocating"
        /\ snapshot' = snapshot \/ snapshot' = [snapshot EXCEPT !.state = "taken"]
    BY <1>7 DEF FillSnapshot
  <2>2. snapshot # NoSnapshot
    <3>1. NoSnapshot.state = "none"
      BY DEF NoSnapshot
    <3> QED BY <3>1, <2>1
  <2>3. snapshot \in [state : {"allocating", "taken"}, count : Nat, allocation : AllocationType]
    BY <1>0, <2>2 DEF TypeOK, SnapshotType
  <2>4. snapshot'.allocation = snapshot.allocation
    BY <2>1, <2>3
  <2>5. todo = {}
    BY <1>0, <2>2 DEF PhaseInv
  <2>6. snapshot.allocation \in owned
    BY <1>0, <2>1 DEF SnapshotInv
  <2> QED BY <2>1, <2>4, <2>5, <2>6, <1>e DEF SnapshotInv, PhaseInv
<1>8. CASE pmm_free_snapshot
  <2> DEFINE o == snapshot.allocation
  <2>1. /\ pmm_free(o.base, o.pages) /\ owned' = owned \ {o} /\ UNCHANGED todo
        /\ todo = {} /\ snapshot.state = "taken" /\ snapshot' = NoSnapshot
    BY <1>8 DEF pmm_free_snapshot, MayCall
  <2>2. o \in owned
    BY <1>0, <2>1 DEF SnapshotInv
  <2>3. MapInv'
    BY <1>0, <1>a, <2>1, <2>2, FreeInv
  <2>4. snapshot'.state = "none"
    BY <2>1 DEF NoSnapshot
  <2> QED BY <2>1, <2>3, <2>4 DEF SnapshotInv, PhaseInv
<1>9. CASE MapSet
  <2>1. MapInv'
    BY <1>0, <1>9, <1>a, MapSetInv
  <2> QED BY <1>0, <1>9, <2>1 DEF MapSet, SnapshotInv, PhaseInv
<1>10. CASE UNCHANGED vars
  BY <1>0, <1>10, <1>e DEF vars, SnapshotInv, PhaseInv
<1> QED
  BY <1>1, <1>2, <1>3, <1>4, <1>5, <1>6, <1>7, <1>8, <1>9, <1>10 DEF Next

\* When the reported ranges are disjoint, the inductive invariant holds of every
\* reachable state: what pmm_map_set has taken out of the map at any point of
\* its scan (pmm.c:25-104) is exactly the range it is about, inside one entry or
\* clear of all, and every allocation is in the map or about to be.
THEOREM Invariance ==
  ASSUME RegionsDisjoint
  PROVE  Spec => []IInv
<1>1. Init => IInv
  BY InvInit
<1>2. IInv /\ [Next]_vars => IInv'
  BY InvNext
<1> QED
  BY <1>1, <1>2, PTL DEF Spec

\* Between any two steps of pmm_map_set, after any sequence of reports,
\* allocations, frees and snapshots, the entries of the map are non-empty,
\* sorted and disjoint (pmm_map_set, pmm.c:24-120).
THEOREM MapStaysSorted ==
  ASSUME RegionsDisjoint
  PROVE  Spec => []MapSorted
<1>1. IInv => MapSorted
  BY DEF IInv
<1> QED
  BY <1>1, Invariance, PTL

\* Whenever no call is under way, every allocation that has not been freed is
\* inside one entry of its own type: pmm_free (pmm.c:158) never meets the case
\* pmm_map_set does not handle.
THEOREM AllocationsStayWhole ==
  ASSUME RegionsDisjoint
  PROVE  Spec => []AllocationInOneEntry
<1>1. IInv => AllocationInOneEntry
  <2> SUFFICES ASSUME IInv, calls = <<>>, NEW o \in owned
               PROVE  \E k \in Live : Within(o, g_pmm_map[k]) /\ g_pmm_map[k].type = o.type
    BY DEF AllocationInOneEntry
  <2>1. Held(o)
    BY Zenon DEF IInv, OwnedInv
  <2>2. Pending = {}
    BY DEF Pending
  <2> QED BY <2>1, <2>2, Zenon DEF Held
<1> QED
  BY <1>1, Invariance, PTL

----------------------------------------------------------------------------
(* Memory that is known to the array stays reported memory.                *)

\* Some slot, in use or not, or some range on its way into the map has the address.
Seen(a) ==
    \/ \E k \in Slots : InRange(a, g_pmm_map[k])
    \/ \E c \in Pending : InRange(a, calls[c])

\* The call on top and the entry it is at.
LEMMA TopFacts ==
  ASSUME TypeOK, calls # <<>>
  PROVE  /\ calls \in Seq(Call) /\ g_pmm_map \in [Slots -> Entry]
         /\ top \in Call /\ 1 \in Pending /\ Len(calls) \in Nat /\ Len(calls) >= 1
         /\ Scanning => top.i \in Slots /\ cur \in Entry
<1>1. calls \in Seq(Call) /\ g_pmm_map \in [Slots -> Entry]
  BY DEF TypeOK
<1>2. top \in Call /\ Len(calls) \in Nat /\ Len(calls) >= 1
  BY <1>1, StackFacts DEF top
<1>3. 1 \in Pending
  BY <1>2 DEF Pending
<1>4. Scanning => top.i \in Slots
  BY <1>2, CapacityAssumption DEF Scanning, Slots, Call, TypeOK
<1> QED
  BY <1>1, <1>2, <1>3, <1>4 DEF cur

\* The scan shrinks ranges, moves slots and joins what is adjacent: no address
\* becomes known to the array that was not known to it or to a call.
LEMMA SeenMapSet ==
  ASSUME TypeOK, TypeOK', MapSet, NEW a \in Nat, Seen(a)'
  PROVE  Seen(a)
<1>1. calls # <<>> /\ pmm_map_set
  BY DEF MapSet, pmm_map_set, SplitEntry, RejectRange, TrimEntryEnd, TrimRangeStart,
     TrimEntryStart,
     TrimRangeEnd, DropEntry, SplitRange, SkipEntry, EmptyRange, ExtendPrevious, ExtendNext,
     InsertRange, MapOverflow, ReadPastArray, Scanning, Scanned
<1>2. /\ calls \in Seq(Call) /\ g_pmm_map \in [Slots -> Entry]
      /\ top \in Call /\ 1 \in Pending /\ Len(calls) \in Nat /\ Len(calls) >= 1
      /\ Scanning => top.i \in Slots /\ cur \in Entry
  BY <1>1, TopFacts
<1>3. /\ \A k \in Slots : InRange(a, g_pmm_map[k]) => Seen(a)
      /\ \A c \in Pending : InRange(a, calls[c]) => Seen(a)
  BY Zenon DEF Seen
<1>4. /\ InRange(a, top) => Seen(a)
      /\ Scanning /\ InRange(a, cur) => Seen(a)
  BY <1>2, <1>3 DEF top, cur
<1> DEFINE MapKnown == \A k \in Slots : InRange(a, g_pmm_map'[k]) => Seen(a)
           CallsKnown == \A c \in Pending' : InRange(a, calls'[c]) => Seen(a)
<1>5. MapKnown /\ CallsKnown => Seen(a)
  BY Zenon DEF Seen
<1> HIDE DEF Seen
<1>6. UNCHANGED g_pmm_map => MapKnown
  BY <1>3
<1>7. UNCHANGED calls => CallsKnown
  BY <1>3 DEF Pending
<1>8. Return => CallsKnown
  BY <1>1, <1>3, ReturnFacts
<1>9. Scanning /\ NextEntry => CallsKnown
  <2> SUFFICES ASSUME Scanning, NextEntry PROVE CallsKnown
    OBVIOUS
  <2>1. /\ Len(calls') = Len(calls) /\ Pending' = Pending
        /\ calls'[1] = [top EXCEPT !.i = @ + 1]
        /\ \A c \in 2..Len(calls) : calls'[c] = calls[c]
    BY NextEntryFacts
  <2>2. InRange(a, calls'[1]) => InRange(a, top)
    BY <1>2, <2>1 DEF InRange, End, Call
  <2>3. \A c \in Pending : c = 1 \/ c \in 2..Len(calls)
    BY <1>2 DEF Pending
  <2> QED
    BY <1>3, <1>4, <2>1, <2>2, <2>3
\* One entry is replaced.
<1>10. ASSUME NEW k \in Slots, NEW e, g_pmm_map' = [g_pmm_map EXCEPT ![k] = e],
              InRange(a, e) => Seen(a)
       PROVE  MapKnown
  <2>1. g_pmm_map'[k] = e /\ \A j \in Slots \ {k} : g_pmm_map'[j] = g_pmm_map[j]
    BY <1>2, <1>10
  <2> QED
    BY <1>3, <1>10, <2>1
\* The call on top is replaced.
<1>11. ASSUME NEW s, s = [calls EXCEPT ![1] = s[1]], InRange(a, s[1]) => Seen(a)
       PROVE  \A c \in 1..Len(s) : InRange(a, s[c]) => Seen(a)
  <2>1. Len(s) = Len(calls) /\ \A c \in Pending : c # 1 => s[c] = calls[c]
    BY <1>2, <1>11 DEF Pending
  <2> QED
    BY <1>3, <1>11, <2>1 DEF Pending
<1>12. CASE SplitEntry
  <2>1. /\ Scanning /\ OverlapStart /\ OverlapEnd
        /\ g_pmm_map' = [g_pmm_map EXCEPT ![top.i].length = top.base - cur.base]
    BY <1>12 DEF SplitEntry
  <2> DEFINE e == [cur EXCEPT !.length = top.base - cur.base]
             f == [base |-> End(top), length |-> End(cur) - End(top),
                   type |-> cur.type, force |-> TRUE, i |-> 0]
             s == [calls EXCEPT ![1].i = @ + 1]
  <2>2. g_pmm_map' = [g_pmm_map EXCEPT ![top.i] = e] /\ top.i \in Slots
    BY <1>2, <2>1 DEF cur
  <2>3. InRange(a, e) => InRange(a, cur)
    BY <1>2, <2>1 DEF InRange, End, Entry, Call, OverlapStart
  <2>4. MapKnown
    BY <1>4, <1>10, <2>1, <2>2, <2>3
  <2>5. InRange(a, f) => InRange(a, cur)
    BY <1>2, <2>1, SMTT(30) DEF InRange, End, Entry, Call, OverlapEnd
  <2>6. f \in Call
    <3>0. top.base \in Nat /\ top.length \in Nat /\ cur.base \in Nat /\ cur.length \in Nat
      BY <1>2, <2>1, CallFacts, EntryFacts
    <3>1. End(top) \in Nat /\ End(cur) - End(top) \in Nat
      BY <2>1, <3>0 DEF End, OverlapEnd
    <3> QED BY <1>2, <2>1, <3>1, CallFacts, EntryFacts
  <2>7. s \in Seq(Call) /\ Len(s) = Len(calls) /\ s[1] = [top EXCEPT !.i = @ + 1]
        /\ s = [calls EXCEPT ![1] = s[1]]
    <3>1. s = [calls EXCEPT ![1] = [top EXCEPT !.i = @ + 1]]
      BY <1>2 DEF top
    <3> DEFINE t == [top EXCEPT !.i = @ + 1]
    <3>2. t \in Call
      <4>1. top \in Call /\ top.i + 1 \in Nat
        BY <1>2 DEF Call
      <4> QED BY <4>1 DEF Call
    <3>3. s = [calls EXCEPT ![1] = t]
      BY <3>1
    <3> HIDE DEF s, t
    <3>4. s \in Seq(Call) /\ Len(s) = Len(calls) /\ s[1] = t
      BY <1>2, <3>2, <3>3
    <3> QED BY <3>3, <3>4 DEF t
  <2>8. InRange(a, s[1]) => Seen(a)
    BY <1>2, <1>4, <2>7, ZenonT(60) DEF InRange, End, Call
  <2>9. calls' = <<f>> \o s
    BY <1>12 DEF SplitEntry
  <2>10. \A c \in 1..Len(s) : InRange(a, s[c]) => Seen(a)
    <3> HIDE DEF s
    <3> QED BY <1>11, <2>7, <2>8
  <2> HIDE DEF f, s
  <2>11. /\ Len(calls') = Len(s) + 1 /\ calls'[1] = f
         /\ \A j \in 1..Len(s) : calls'[j + 1] = s[j]
    BY <2>6, <2>7, <2>9, PushFacts
  <2>12. \A c \in Pending' : c = 1 \/ c - 1 \in 1..Len(s)
    BY <1>2, <2>7, <2>11 DEF Pending
  <2>13. CallsKnown
    <3> SUFFICES ASSUME NEW c \in Pending', InRange(a, calls'[c]) PROVE Seen(a)
      OBVIOUS
    <3>1. CASE c = 1
      BY <1>4, <2>1, <2>5, <2>11, <3>1
    <3>2. CASE c # 1
      <4>1. c - 1 \in 1..Len(s) /\ calls'[c] = s[c - 1]
        <5>1. c \in Int /\ c - 1 \in 1..Len(s)
          BY <2>12, <3>2 DEF Pending
        <5>2. (c - 1) + 1 = c
          BY <5>1
        <5> QED BY <2>11, <5>1, <5>2
      <4> QED BY <2>10, <4>1
    <3> QED BY <3>1, <3>2
  <2> QED
    BY <1>5, <2>4, <2>13
<1>13. CASE RejectRange
  BY <1>5, <1>6, <1>8, <1>13 DEF RejectRange
<1>14. CASE TrimEntryEnd
  <2>1. /\ Scanning /\ OverlapStart /\ NextEntry
        /\ g_pmm_map' = [g_pmm_map EXCEPT ![top.i].length = top.base - cur.base]
    BY <1>14 DEF TrimEntryEnd
  <2> DEFINE e == [cur EXCEPT !.length = top.base - cur.base]
  <2>2. g_pmm_map' = [g_pmm_map EXCEPT ![top.i] = e] /\ top.i \in Slots
    BY <1>2, <2>1 DEF cur
  <2>3. InRange(a, e) => InRange(a, cur)
    BY <1>2, <2>1 DEF InRange, End, Entry, Call, OverlapStart
  <2> QED
    BY <1>4, <1>5, <1>9, <1>10, <2>1, <2>2, <2>3
<1>15. CASE TrimEntryStart
  <2>1. /\ Scanning /\ OverlapEnd /\ NextEntry
        /\ g_pmm_map' = [g_pmm_map EXCEPT ![top.i].base = End(top),
                                          ![top.i].length = End(cur) - End(top)]
    BY <1>15 DEF TrimEntryStart
  <2> DEFINE e == [cur EXCEPT !.base = End(top), !.length = End(cur) - End(top)]
  <2>2. g_pmm_map' = [g_pmm_map EXCEPT ![top.i] = e] /\ top.i \in Slots
    BY <1>2, <2>1 DEF cur
  <2>3. InRange(a, e) => InRange(a, cur)
    BY <1>2, <2>1, SMTT(30) DEF InRange, End, Entry, Call, OverlapEnd
  <2> QED
    BY <1>4, <1>5, <1>9, <1>10, <2>1, <2>2, <2>3
<1>16. CASE TrimRangeStart
  <2>1. /\ Scanning /\ OverlapStart /\ UNCHANGED g_pmm_map
        /\ calls' = [calls EXCEPT ![1].base = End(cur), ![1].length = End(top) - End(cur),
                                  ![1].i = @ + 1]
    BY <1>16 DEF TrimRangeStart
  <2> DEFINE t == [top EXCEPT !.base = End(cur), !.length = End(top) - End(cur), !.i = @ + 1]
  <2>2. calls' = [calls EXCEPT ![1] = t] /\ calls'[1] = t
    <3>1. calls' = [calls EXCEPT ![1] = t]
      BY <1>2, <2>1 DEF top
    <3> HIDE DEF t
    <3> QED BY <1>2, <3>1
  <2>3. InRange(a, t) => InRange(a, top)
    BY <1>2, <2>1, SMTT(30) DEF InRange, End, Entry, Call, OverlapStart
  <2> HIDE DEF t
  <2>4. CallsKnown
    BY <1>4, <1>11, <2>2, <2>3 DEF Pending
  <2> QED
    BY <1>5, <1>6, <2>1, <2>4
<1>17. CASE TrimRangeEnd
  <2>1. /\ Scanning /\ OverlapEnd /\ UNCHANGED g_pmm_map
        /\ calls' = [calls EXCEPT ![1].length = cur.base - top.base, ![1].i = @ + 1]
    BY <1>17 DEF TrimRangeEnd
  <2> DEFINE t == [top EXCEPT !.length = cur.base - top.base, !.i = @ + 1]
  <2>2. calls' = [calls EXCEPT ![1] = t] /\ calls'[1] = t
    <3>1. calls' = [calls EXCEPT ![1] = t]
      BY <1>2, <2>1 DEF top
    <3> HIDE DEF t
    <3> QED BY <1>2, <3>1
  <2>3. InRange(a, t) => InRange(a, top)
    BY <1>2, <2>1 DEF InRange, End, Entry, Call, OverlapEnd
  <2> HIDE DEF t
  <2>4. CallsKnown
    BY <1>4, <1>11, <2>2, <2>3 DEF Pending
  <2> QED
    BY <1>5, <1>6, <2>1, <2>4
<1>18. CASE DropEntry
  <2>1. Scanning /\ g_pmm_map' = Deleted(top.i) /\ UNCHANGED calls
    BY <1>18 DEF DropEntry
  <2>2. \A j \in Slots : \E m \in Slots : g_pmm_map'[j] = g_pmm_map[m]
    <3> SUFFICES ASSUME NEW j \in Slots PROVE \E m \in Slots : g_pmm_map'[j] = g_pmm_map[m]
      OBVIOUS
    <3> DEFINE m == IF top.i <= j /\ j < g_pmm_map_size - 1 THEN j + 1 ELSE j
    <3>1. g_pmm_map'[j] = g_pmm_map[m]
      BY <2>1 DEF Deleted
    <3>2. m \in Slots
      BY LiveFacts DEF Slots
    <3> QED BY <3>1, <3>2
  <2> QED
    BY <1>3, <1>5, <1>7, <2>1, <2>2
<1>19. CASE SplitRange
  <2>1. Scanning /\ Covers /\ UNCHANGED g_pmm_map
    BY <1>19 DEF SplitRange
  <2> DEFINE t == [top EXCEPT !.base = End(cur), !.length = End(top) - End(cur), !.i = 0]
             f == [top EXCEPT !.length = cur.base - top.base, !.i = 0]
             s == [calls EXCEPT ![1].base = End(cur), ![1].length = End(top) - End(cur), ![1].i = 0]
  <2>2. InRange(a, t) => InRange(a, top)
    BY <1>2, <2>1, SMTT(30) DEF InRange, End, Entry, Call, Covers
  <2>3. InRange(a, f) => InRange(a, top)
    BY <1>2, <2>1 DEF InRange, End, Entry, Call, Covers
  <2>4. t \in Call /\ f \in Call
    <3>1. top.base \in Nat /\ top.length \in Nat /\ cur.base \in Nat /\ cur.length \in Nat
      BY <1>2, <2>1, CallFacts, EntryFacts
    <3>2. End(cur) \in Nat /\ End(top) - End(cur) \in Nat /\ cur.base - top.base \in Nat
      BY <2>1, <3>1 DEF End, Covers
    <3>3. top \in Call
      BY <1>2
    <3> QED BY <3>2, <3>3 DEF Call
  <2>5. s = [calls EXCEPT ![1] = t]
    BY <1>2 DEF top
  <2>6. calls' = <<f>> \o s
    BY <1>19 DEF SplitRange
  <2> HIDE DEF t, f, s
  <2>7. s \in Seq(Call) /\ Len(s) = Len(calls) /\ s[1] = t
    BY <1>2, <2>4, <2>5
  <2>8. \A c \in 1..Len(s) : InRange(a, s[c]) => Seen(a)
    BY <1>4, <1>11, <2>2, <2>5, <2>7
  <2>9. /\ Len(calls') = Len(s) + 1 /\ calls'[1] = f
        /\ \A j \in 1..Len(s) : calls'[j + 1] = s[j]
    BY <2>4, <2>6, <2>7, PushFacts
  <2>10. CallsKnown
    <3> SUFFICES ASSUME NEW c \in Pending', InRange(a, calls'[c]) PROVE Seen(a)
      OBVIOUS
    <3>1. CASE c = 1
      BY <1>4, <2>3, <2>9, <3>1
    <3>2. CASE c # 1
      <4>1. c \in Int /\ c - 1 \in 1..Len(s)
        BY <1>2, <2>7, <2>9, <3>2 DEF Pending
      <4>2. (c - 1) + 1 = c
        BY <4>1
      <4>3. calls'[c] = s[c - 1]
        BY <2>9, <4>1, <4>2
      <4> QED BY <2>8, <4>1, <4>3
    <3> QED BY <3>1, <3>2
  <2> QED
    BY <1>5, <1>6, <2>1, <2>10
<1>20. CASE SkipEntry
  BY <1>5, <1>6, <1>9, <1>20 DEF SkipEntry
<1>21. CASE EmptyRange
  BY <1>5, <1>6, <1>8, <1>21 DEF EmptyRange
<1>22. ASSUME NEW k \in 0..g_pmm_map_size, ExtendPrevious(k) PROVE Seen(a)
  <2>1. /\ Return /\ k - 1 \in Slots /\ End(g_pmm_map[k - 1]) = top.base
        /\ g_pmm_map' = [g_pmm_map EXCEPT ![k - 1].length = @ + top.length]
    <3>1. k # 0 /\ End(g_pmm_map[k - 1]) = top.base
      BY <1>22 DEF ExtendPrevious, JoinsPrevious
    <3>2. k - 1 \in Slots
      BY <3>1, LiveFacts DEF Slots
    <3> QED BY <1>22, <3>1, <3>2 DEF ExtendPrevious
  <2> DEFINE p == g_pmm_map[k - 1]
             e == [p EXCEPT !.length = @ + top.length]
  <2>2. p \in Entry /\ g_pmm_map' = [g_pmm_map EXCEPT ![k - 1] = e]
    BY <1>2, <2>1
  <2>3. InRange(a, e) => InRange(a, p) \/ InRange(a, top)
    <3>1. e.base = p.base /\ e.length = p.length + top.length
      BY <2>2 DEF Entry
    <3>2. /\ p.base \in Nat /\ p.length \in Nat /\ top.base \in Nat /\ top.length \in Nat
          /\ p.base + p.length = top.base
      BY <1>2, <2>1, <2>2 DEF Entry, Call, End
    <3> HIDE DEF e, p
    <3> QED BY <3>1, <3>2 DEF InRange, End
  <2>4. InRange(a, e) => Seen(a)
    BY <1>3, <1>4, <2>1, <2>3
  <2> HIDE DEF e
  <2> QED
    BY <1>5, <1>8, <1>10, <2>1, <2>2, <2>4
<1>23. ASSUME NEW k \in 0..g_pmm_map_size, ExtendNext(k) PROVE Seen(a)
  <2>1. /\ Return /\ k \in Slots /\ g_pmm_map[k].base = End(top)
        /\ g_pmm_map' = [g_pmm_map EXCEPT ![k].base = top.base, ![k].length = @ + top.length]
    BY <1>23 DEF ExtendNext, JoinsNext
  <2> DEFINE p == g_pmm_map[k]
             e == [p EXCEPT !.base = top.base, !.length = @ + top.length]
  <2>2. p \in Entry /\ g_pmm_map' = [g_pmm_map EXCEPT ![k] = e]
    BY <1>2, <2>1
  <2>3. InRange(a, e) => InRange(a, p) \/ InRange(a, top)
    <3>1. e.base = top.base /\ e.length = p.length + top.length
      BY <2>2 DEF Entry
    <3>2. /\ p.base \in Nat /\ p.length \in Nat /\ top.base \in Nat /\ top.length \in Nat
          /\ p.base = top.base + top.length
      BY <1>2, <2>1, <2>2 DEF Entry, Call, End
    <3> HIDE DEF e, p
    <3> QED BY <3>1, <3>2 DEF InRange, End
  <2>4. InRange(a, e) => Seen(a)
    BY <1>3, <1>4, <2>1, <2>3
  <2> HIDE DEF e
  <2> QED
    BY <1>5, <1>8, <1>10, <2>1, <2>2, <2>4
<1>24. ASSUME NEW k \in 0..g_pmm_map_size, InsertRange(k) PROVE Seen(a)
  <2> DEFINE e == [base |-> top.base, length |-> top.length, type |-> top.type]
  <2>1. Return /\ g_pmm_map' = Inserted(k, e)
    BY <1>24 DEF InsertRange
  <2>2. InRange(a, e) => InRange(a, top)
    BY DEF InRange, End
  <2> HIDE DEF e
  <2>3. \A j \in Slots : g_pmm_map'[j] = e \/ \E m \in Slots : g_pmm_map'[j] = g_pmm_map[m]
    <3> SUFFICES ASSUME NEW j \in Slots, g_pmm_map'[j] # e
                 PROVE  \E m \in Slots : g_pmm_map'[j] = g_pmm_map[m]
      OBVIOUS
    <3> DEFINE m == IF k < j /\ j <= g_pmm_map_size THEN j - 1 ELSE j
    <3>1. g_pmm_map'[j] = g_pmm_map[m]
      BY <2>1 DEF Inserted
    <3>2. m \in Slots
      BY LiveFacts DEF Slots
    <3> QED BY <3>1, <3>2
  <2>4. MapKnown
    BY <1>3, <1>4, <2>2, <2>3
  <2> QED
    BY <1>5, <1>8, <2>1, <2>4
<1>25. ASSUME NEW k \in 0..g_pmm_map_size, MapOverflow(k) \/ ReadPastArray(k) PROVE Seen(a)
  BY <1>5, <1>6, <1>7, <1>25 DEF MapOverflow, ReadPastArray
<1> QED
  BY <1>1, <1>12, <1>13, <1>14, <1>15, <1>16, <1>17, <1>18, <1>19, <1>20, <1>21, <1>22, <1>23,
     <1>24, <1>25 DEF pmm_map_set

\* Ranges of reported memory, address by address.
LEMMA RangeKnown ==
  ASSUME NEW b \in Nat, NEW f \in Nat, NEW a \in Nat
  PROVE  a \in b..(f - 1) <=> b <= a /\ a < f
  OBVIOUS

\* What KnownInv says of the map and the calls under way.
LEMMA SeenIsKnown ==
  ASSUME TypeOK, KnownInv, NEW a \in Nat, Seen(a)
  PROVE  Known(a)
<1>1. CASE \E k \in Slots : InRange(a, g_pmm_map[k])
  <2>1. PICK k \in Slots : InRange(a, g_pmm_map[k])
    BY <1>1
  <2>2. g_pmm_map[k].base \in Nat /\ End(g_pmm_map[k]) \in Nat
    BY Bounds DEF TypeOK
  <2>3. a \in g_pmm_map[k].base..(End(g_pmm_map[k]) - 1)
    BY <2>1, <2>2, RangeKnown DEF InRange
  <2> QED BY <2>3, Zenon DEF KnownInv, KnownRange
<1>2. CASE \E c \in Pending : InRange(a, calls[c])
  <2>1. PICK c \in Pending : InRange(a, calls[c])
    BY <1>2
  <2>2. calls[c] \in Call
    BY <2>1, ElementType DEF TypeOK, Pending
  <2>3. calls[c].base \in Nat /\ End(calls[c]) \in Nat
    BY <2>2, Bounds
  <2>4. a \in calls[c].base..(End(calls[c]) - 1)
    BY <2>1, <2>3, RangeKnown DEF InRange
  <2> QED BY <2>4, Zenon DEF KnownInv, KnownRange
<1> QED
  BY <1>1, <1>2 DEF Seen

\* The converse, after a step.
LEMMA KnownAfter ==
  ASSUME TypeOK, TypeOK', \A a \in Nat : Seen(a)' => Known(a)'
  PROVE  /\ \A k \in Slots : KnownRange(g_pmm_map[k])'
         /\ \A c \in Pending' : (\A a \in calls'[c].base..(End(calls'[c]) - 1) : Known(a)')
<1>1. ASSUME NEW k \in Slots, NEW a \in g_pmm_map'[k].base..(End(g_pmm_map'[k]) - 1)
      PROVE  Known(a)'
  <2>1. g_pmm_map'[k] \in Entry
    BY DEF TypeOK, Slots
  <2>2. g_pmm_map'[k].base \in Nat /\ End(g_pmm_map'[k]) \in Nat
    BY <2>1, Bounds
  <2>3. a \in Nat /\ InRange(a, g_pmm_map'[k])
    BY <1>1, <2>2 DEF InRange
  <2>4. Seen(a)'
    BY <2>3, Zenon DEF Seen, Slots
  <2> QED BY <2>3, <2>4
<1>2. ASSUME NEW c \in Pending', NEW a \in calls'[c].base..(End(calls'[c]) - 1)
      PROVE  Known(a)'
  <2>1. calls'[c] \in Call
    BY <1>2, ElementType DEF TypeOK, Pending
  <2>2. calls'[c].base \in Nat /\ End(calls'[c]) \in Nat
    BY <2>1, Bounds
  <2>3. a \in Nat /\ InRange(a, calls'[c])
    BY <1>2, <2>2 DEF InRange
  <2>4. Seen(a)'
    BY <2>3, Zenon DEF Seen
  <2> QED BY <2>3, <2>4
<1>3. \A k \in Slots : KnownRange(g_pmm_map[k])'
  BY <1>1, Zenon DEF KnownRange, End, Slots
<1> QED
  BY <1>2, <1>3, Zenon

\* A range inside a slot or a call is known.
LEMMA KnownPart ==
  ASSUME TypeOK, KnownInv, NEW b \in Nat, NEW f \in Nat,
         \A a \in Nat : b <= a /\ a < f => Seen(a)
  PROVE  \A a \in b..(f - 1) : Known(a)
<1> SUFFICES ASSUME NEW a \in b..(f - 1) PROVE Known(a)
  OBVIOUS
<1>1. a \in Nat /\ b <= a /\ a < f
  OBVIOUS
<1>2. Seen(a)
  BY <1>1
<1> QED
  BY <1>1, <1>2, SeenIsKnown

\* An operation has entered the map with a known range.
LEMMA EnterKnown ==
  ASSUME TypeOK, TypeOK', KnownInv, calls = <<>>, todo' \subseteq todo, UNCHANGED g_pmm_map,
         NEW b \in Nat, NEW l \in Nat, NEW t \in Types, NEW f \in BOOLEAN,
         Enter(b, l, t, f), \A a \in b..(b + l - 1) : Known(a)'
  PROVE  \A a \in Nat : Seen(a)' => Known(a)'
<1> SUFFICES ASSUME NEW a \in Nat, Seen(a)' PROVE Known(a)'
  OBVIOUS
<1>1. Known(a) => Known(a)'
  BY Zenon DEF Known
<1>2. CASE \E k \in Slots : InRange(a, g_pmm_map'[k])
  <2>1. Seen(a)
    BY <1>2, Zenon DEF Seen
  <2> QED BY <1>1, <2>1, SeenIsKnown
<1>3. CASE \E c \in Pending' : InRange(a, calls'[c])
  <2>1. PICK c \in Pending' : InRange(a, calls'[c])
    BY <1>3
  <2>2. /\ Len(calls') = 1
        /\ calls'[1] = [base |-> b, length |-> l, type |-> t, force |-> f, i |-> 0]
    BY EnterFacts
  <2>3. c = 1
    BY <2>2 DEF Pending
  <2>4. InRange(a, [base |-> b, length |-> l, type |-> t, force |-> f, i |-> 0])
    BY <2>1, <2>2, <2>3
  <2>5. a \in b..(b + l - 1)
    BY <2>4 DEF InRange, End
  <2> QED BY <2>5
<1> QED
  BY <1>2, <1>3, Zenon DEF Seen, Slots

\* The parts of KnownInv after a step.
OwnedKnown(o) == (\A a \in o.base..(End(o) - 1) : Known(a)) /\ o.length = Pages(o.pages)

LEMMA KnownStep ==
  ASSUME TypeOK, TypeOK', KnownInv, todo' \subseteq todo,
         \A a \in Nat : Seen(a)' => Known(a)',
         \A o \in owned' \ owned : OwnedKnown(o)',
         snapshot' = snapshot \/ snapshot'.state = "none" \/ OwnedKnown(snapshot.allocation)'
  PROVE  KnownInv'
<1>1. \A a : Known(a) => Known(a)'
  BY Zenon DEF Known
<1>2. \A o \in owned' : OwnedKnown(o)'
  <2>1. \A o \in owned : OwnedKnown(o)
    BY Zenon DEF KnownInv, KnownRange, OwnedKnown
  <2>2. \A o : OwnedKnown(o) => OwnedKnown(o)'
    BY <1>1, Zenon DEF OwnedKnown
  <2> QED BY <2>1, <2>2
<1>3. snapshot'.state # "none" => OwnedKnown(snapshot.allocation)'
  <2>1. snapshot.state # "none" => OwnedKnown(snapshot.allocation)
    BY Zenon DEF KnownInv, KnownRange, OwnedKnown
  <2>2. snapshot' = snapshot /\ OwnedKnown(snapshot.allocation) => OwnedKnown(snapshot.allocation)'
    BY <1>1, Zenon DEF OwnedKnown, End
  <2> QED BY <2>1, <2>2
<1>4. /\ \A k \in Slots : KnownRange(g_pmm_map[k])'
      /\ \A c \in Pending' : (\A a \in calls'[c].base..(End(calls'[c]) - 1) : Known(a)')
  BY KnownAfter
<1> QED
  BY <1>2, <1>3, <1>4, Zenon DEF KnownInv, KnownRange, OwnedKnown, End, Slots

\* Pages taken out of one entry.
LEMMA AllocKnown ==
  ASSUME TypeOK, TypeOK', KnownInv, Idle, NEW addr \in Nat, NEW n \in Nat, NEW t \in Types,
         Enter(addr, Pages(n), t, TRUE), UNCHANGED <<g_pmm_map, todo>>,
         NEW k \in Live, g_pmm_map[k].base <= addr, addr + Pages(n) <= End(g_pmm_map[k]),
         NEW o, o = Allocation(addr, n, t)
  PROVE  /\ \A a \in Nat : Seen(a)' => Known(a)'
         /\ OwnedKnown(o)'
<1>1. PICK l \in Nat : l = Pages(n)
  BY PagesLength
<1>2. PICK f \in Nat : f = addr + l
  BY <1>1
<1>3. k \in Slots /\ g_pmm_map[k] \in Entry
  BY LiveFacts
<1>4. \A a \in Nat : addr <= a /\ a < f => Seen(a)
  <2>1. g_pmm_map[k].base \in Nat /\ End(g_pmm_map[k]) \in Nat
    BY <1>3, Bounds
  <2> SUFFICES ASSUME NEW a \in Nat, addr <= a, a < f PROVE Seen(a)
    OBVIOUS
  <2>2. InRange(a, g_pmm_map[k])
    BY <1>1, <1>2, <2>1 DEF InRange
  <2> QED BY <1>3, <2>2, Zenon DEF Seen
<1>5. \A a \in addr..(f - 1) : Known(a)
  BY <1>4, KnownPart
<1>6. \A a \in addr..(f - 1) : Known(a)'
  BY <1>5, Zenon DEF Known
<1>7. \A a \in Nat : Seen(a)' => Known(a)'
  <2>1. calls = <<>> /\ Enter(addr, l, t, TRUE)
    BY <1>1, Zenon DEF Idle
  <2>2. \A a \in addr..(addr + l - 1) : Known(a)'
    <3>1. \A a \in addr..(addr + l - 1) : a \in addr..(f - 1)
      BY <1>2
    <3> QED BY <1>6, <3>1, Zenon
  <2> QED BY <2>1, <2>2, EnterKnown
<1>8. o.base = addr /\ o.length = Pages(n) /\ o.pages = n
  BY DEF Allocation
<1>9. End(o) = f
  BY <1>1, <1>2, <1>8 DEF End
<1> QED
  BY <1>6, <1>7, <1>8, <1>9, Zenon DEF OwnedKnown

LEMMA FreeKnown ==
  ASSUME TypeOK, TypeOK', KnownInv, NEW o \in AllocationType, OwnedKnown(o),
         pmm_free(o.base, o.pages), UNCHANGED todo
  PROVE  \A a \in Nat : Seen(a)' => Known(a)'
<1>1. PICK l \in Nat : l = Pages(o.pages)
  BY PagesLength DEF AllocationType
<1>2. /\ calls = <<>> /\ Enter(o.base, l, FREE, TRUE) /\ UNCHANGED g_pmm_map
  BY <1>1 DEF pmm_free, Idle
<1>3. PICK b \in Nat : b = o.base
  BY DEF AllocationType
<1>4. End(o) = b + l
  BY <1>1, <1>3 DEF OwnedKnown, End
<1>5. \A a \in b..(b + l - 1) : Known(a)
  <2>1. \A a \in o.base..(End(o) - 1) : Known(a)
    BY DEF OwnedKnown
  <2>2. \A a \in b..(b + l - 1) : a \in o.base..(End(o) - 1)
    BY <1>3, <1>4
  <2> QED BY <2>1, <2>2, Zenon
<1>6. \A a \in b..(b + l - 1) : Known(a)'
  BY <1>5, Zenon DEF Known
<1>7. FREE \in Types
  BY DEF FREE, Types, BAD
<1> QED
  BY <1>2, <1>3, <1>6, <1>7, EnterKnown

\* KnownInv is inductive whatever the reported ranges are.
LEMMA KnownNext ==
  ASSUME TypeOK, TypeOK', KnownInv, [Next]_vars
  PROVE  KnownInv'
<1> DEFINE Same == \A a \in Nat : Seen(a)' => Known(a)'
<1>1. ASSUME UNCHANGED <<g_pmm_map, calls, todo>> PROVE Same
  <2>1. \A a : Seen(a)' => Seen(a)
    BY <1>1, Zenon DEF Seen, Pending, Slots
  <2>2. \A a : Known(a) => Known(a)'
    BY <1>1, Zenon DEF Known
  <2> QED BY <2>1, <2>2, SeenIsKnown
<1>2. ASSUME NEW r \in todo, Report(r) PROVE KnownInv'
  <2>1. /\ Idle /\ todo' = todo \ {r} /\ UNCHANGED <<owned, snapshot, g_pmm_map>>
        /\ IF r.length = 0 THEN UNCHANGED calls ELSE Enter(r.base, r.length, r.type, FALSE)
    BY <1>2 DEF Report, pmm_map_add
  <2>2. r \in Entry /\ r \in Regions \ todo'
    BY <2>1, RegionsAssumption DEF TypeOK
  <2>3. \A a : Known(a) => Known(a)'
    BY <2>1, Zenon DEF Known
  <2>4. CASE r.length = 0
    <3>1. \A a : Seen(a)' => Seen(a)
      BY <2>1, <2>4, Zenon DEF Seen, Pending, Slots
    <3>2. Same
      BY <2>3, <3>1, SeenIsKnown
    <3> QED BY <2>1, <3>2, KnownStep
  <2>5. CASE r.length # 0
    <3>1. r.base \in Nat /\ r.length \in Nat /\ r.type \in Types
      BY <2>2, EntryFacts
    <3>2. \A a \in r.base..(r.base + r.length - 1) : InRange(a, r)
      BY <3>1 DEF InRange, End
    <3>3. \A a \in r.base..(r.base + r.length - 1) : Known(a)'
      BY <2>2, <3>2, Zenon DEF Known
    <3>4. Same
      BY <2>1, <2>5, <3>1, <3>3, EnterKnown DEF Idle
    <3> QED BY <2>1, <3>4, KnownStep
  <2> QED BY <2>4, <2>5
<1>3. ASSUME NEW n \in Nat, NEW t \in Types, NEW addr,
             pmm_alloc_ext(n, PTM_PAGE_GRANULARITY, t, addr), UNCHANGED todo,
             NEW o, o = Allocation(addr, n, t)
      PROVE  Same /\ OwnedKnown(o)'
  <2>1. addr \in Nat
    BY <1>3, AllocFacts
  <2>2. PICK k \in Live : g_pmm_map[k].base <= addr /\ addr + Pages(n) <= End(g_pmm_map[k])
    BY <1>3, AllocFacts
  <2>3. Idle /\ Enter(addr, Pages(n), t, TRUE) /\ UNCHANGED <<g_pmm_map, todo>>
    BY <1>3 DEF pmm_alloc_ext
  <2> QED BY <1>3, <2>1, <2>2, <2>3, AllocKnown
<1>4. ASSUME NEW addr, NEW n, NEW t, Own(addr, n, t) PROVE owned' \ owned \subseteq {Allocation(addr, n, t)}
  BY <1>4 DEF Own
<1>5. ASSUME NEW n \in PageCounts, NEW t \in AllocTypes, Allocate(n, t) PROVE KnownInv'
  <2>1. n \in Nat /\ t \in Types
    BY ClientsAssumption
  <2>2. PICK addr : pmm_alloc_ext(n, PTM_PAGE_GRANULARITY, t, addr) /\ Own(addr, n, t)
    BY <1>5 DEF Allocate
  <2>3. todo' = todo /\ snapshot' = snapshot
    BY <1>5 DEF Allocate
  <2>4. PICK o : o = Allocation(addr, n, t)
    OBVIOUS
  <2>5. Same /\ OwnedKnown(o)'
    BY <2>4, <1>3, <2>1, <2>2, <2>3
  <2>6. \A x \in owned' \ owned : OwnedKnown(x)'
    BY <1>4, <2>2, <2>4, <2>5
  <2> QED BY <2>3, <2>5, <2>6, KnownStep
<1>6. ASSUME NEW addr \in FixedAddresses, NEW n \in PageCounts, NEW t \in AllocTypes,
             AllocateAt(addr, n, t)
      PROVE  KnownInv'
  <2>1. n \in Nat /\ t \in Types /\ addr \in Nat
    BY ClientsAssumption
  <2>2. /\ Idle /\ Enter(addr, Pages(n), t, TRUE) /\ Own(addr, n, t) /\ FreeAt(addr, n)
        /\ UNCHANGED <<g_pmm_map, todo, snapshot>>
    BY <1>6 DEF AllocateAt, pmm_alloc_at
  <2>3. PICK k \in Live : g_pmm_map[k].base <= addr /\ addr + Pages(n) <= End(g_pmm_map[k])
    BY <2>2 DEF FreeAt
  <2>4. PICK o : o = Allocation(addr, n, t)
    OBVIOUS
  <2>5. Same /\ OwnedKnown(o)'
    BY <2>4, <2>1, <2>2, <2>3, AllocKnown
  <2>6. \A x \in owned' \ owned : OwnedKnown(x)'
    BY <1>4, <2>2, <2>4, <2>5
  <2> QED BY <2>2, <2>5, <2>6, KnownStep
<1>7. ASSUME NEW n, OutOfMemory(n) PROVE KnownInv'
  <2>1. UNCHANGED <<g_pmm_map, calls, todo, owned, snapshot>>
    BY <1>7 DEF OutOfMemory, pmm_alloc_ext_fails
  <2> QED BY <1>1, <2>1, KnownStep
<1>8. ASSUME NEW o \in owned, Release(o) PROVE KnownInv'
  <2>1. pmm_free(o.base, o.pages) /\ owned' = owned \ {o} /\ UNCHANGED <<todo, snapshot>>
    BY <1>8 DEF Release
  <2>2. o \in AllocationType /\ OwnedKnown(o)
    BY Zenon DEF TypeOK, KnownInv, KnownRange, OwnedKnown
  <2>3. Same
    BY <2>1, <2>2, FreeKnown
  <2> QED BY <2>1, <2>3, KnownStep
<1>9. CASE pmm_create_snapshot
  <2>1. PICK count \in Nat : count = SnapshotSlots(g_pmm_map_size)
    BY LiveFacts DEF SnapshotSlots
  <2>2. PICK n \in Nat : n = SnapshotPages(count)
    BY SnapshotPagesNat
  <2>3. PICK addr : /\ pmm_alloc_ext(n, PTM_PAGE_GRANULARITY, ALLOCATED, addr)
                    /\ Own(addr, n, ALLOCATED)
                    /\ snapshot' = [state |-> "allocating", count |-> count,
                                    allocation |-> Allocation(addr, n, ALLOCATED)]
    BY <1>9, <2>1, <2>2 DEF pmm_create_snapshot
  <2>4. todo' = todo /\ ALLOCATED \in Types
    BY <1>9 DEF pmm_create_snapshot, ALLOCATED, BAD, FREE, Types
  <2>5. PICK o : o = Allocation(addr, n, ALLOCATED)
    OBVIOUS
  <2>6. Same /\ OwnedKnown(o)'
    BY <1>3, <2>3, <2>4, <2>5
  <2>7. \A x \in owned' \ owned : OwnedKnown(x)'
    BY <1>4, <2>3, <2>5, <2>6
  <2>8. snapshot'.allocation = o
    BY <2>3, <2>5
  <2>9. OwnedKnown(snapshot.allocation)'
    BY <2>6, <2>8, Zenon DEF OwnedKnown, End
  <2> QED BY <2>4, <2>6, <2>7, <2>9, KnownStep
<1>10. CASE FillSnapshot
  <2>1. /\ UNCHANGED <<g_pmm_map, calls, todo, owned>>
        /\ snapshot.state = "allocating"
        /\ snapshot' = snapshot \/ snapshot' = [snapshot EXCEPT !.state = "taken"]
    BY <1>10 DEF FillSnapshot
  <2>2. snapshot # NoSnapshot
    <3>1. NoSnapshot.state = "none"
      BY DEF NoSnapshot
    <3> QED BY <3>1, <2>1
  <2>3. snapshot \in [state : {"allocating", "taken"}, count : Nat, allocation : AllocationType]
    BY <2>2 DEF TypeOK, SnapshotType
  <2>4. snapshot'.allocation = snapshot.allocation
    BY <2>1, <2>3
  <2>5. OwnedKnown(snapshot.allocation)
    BY <2>1, Zenon DEF KnownInv, KnownRange, OwnedKnown
  <2>6. OwnedKnown(snapshot.allocation)'
    BY <2>1, <2>4, <2>5, Zenon DEF OwnedKnown, Known, End
  <2> QED BY <1>1, <2>1, <2>6, KnownStep
<1>11. CASE pmm_free_snapshot
  <2> DEFINE o == snapshot.allocation
  <2>1. /\ pmm_free(o.base, o.pages) /\ owned' = owned \ {o} /\ UNCHANGED todo
        /\ snapshot.state = "taken" /\ snapshot' = NoSnapshot
    BY <1>11 DEF pmm_free_snapshot
  <2>2. snapshot # NoSnapshot
    <3>1. NoSnapshot.state = "none"
      BY DEF NoSnapshot
    <3> QED BY <3>1, <2>1
  <2>3. o \in AllocationType
    BY <2>2 DEF TypeOK, SnapshotType
  <2>4. OwnedKnown(o)
    BY <2>1, Zenon DEF KnownInv, KnownRange, OwnedKnown
  <2>5. Same
    BY <2>1, <2>3, <2>4, FreeKnown
  <2>6. snapshot'.state = "none"
    BY <2>1 DEF NoSnapshot
  <2> QED BY <2>1, <2>5, <2>6, KnownStep
<1>12. CASE MapSet
  <2>1. UNCHANGED <<todo, owned, snapshot>>
    BY <1>12 DEF MapSet
  <2>2. \A a \in Nat : Seen(a)' => Seen(a)
    BY <1>12, SeenMapSet
  <2>3. \A a : Known(a) => Known(a)'
    BY <2>1, Zenon DEF Known
  <2>4. Same
    BY <2>2, <2>3, SeenIsKnown
  <2> QED BY <2>1, <2>4, KnownStep
<1>13. CASE UNCHANGED vars
  <2>1. UNCHANGED <<g_pmm_map, calls, todo, owned, snapshot>>
    BY <1>13 DEF vars
  <2> QED BY <1>1, <2>1, KnownStep
<1> QED
  BY <1>2, <1>5, <1>6, <1>7, <1>8, <1>9, <1>10, <1>11, <1>12, <1>13 DEF Next

\* KnownInv holds at first.
LEMMA KnownInit == Init => KnownInv
<1> SUFFICES ASSUME Init PROVE KnownInv
  OBVIOUS
<1>1. \A k \in Slots : g_pmm_map[k].base = 0 /\ End(g_pmm_map[k]) = 0
  BY DEF Init, PmmInit, ZeroEntry, End
<1>2. \A k \in Slots : KnownRange(g_pmm_map[k])
  BY <1>1 DEF KnownRange
<1>3. Pending = {} /\ owned = {} /\ snapshot.state = "none"
  BY DEF Init, PmmInit, Pending, NoSnapshot
<1> QED
  BY <1>2, <1>3 DEF KnownInv

\* For any reported ranges, disjoint or not: every slot of the array describes
\* reported memory only, whatever was last written to it (pmm.c:113, 164, 171).
THEOREM SlotsStayReported == Spec => []StaleSlotsReported
<1>1. Init => TypeOK /\ KnownInv
  BY TypeInit, KnownInit
<1>2. TypeOK /\ KnownInv /\ [Next]_vars => TypeOK' /\ KnownInv'
  BY TypeNext, KnownNext
<1>3. TypeOK /\ KnownInv => StaleSlotsReported
  <2> SUFFICES ASSUME TypeOK, KnownInv, NEW k \in Slots, NEW a \in Address, InRange(a, g_pmm_map[k])
               PROVE  \E r \in Regions \ todo : InRange(a, r)
    BY DEF StaleSlotsReported
  <2>1. a \in Nat /\ Seen(a)
    BY ClientsAssumption DEF Seen
  <2> QED BY <2>1, SeenIsKnown DEF Known
<1> QED
  BY <1>1, <1>2, <1>3, PTL DEF Spec

----------------------------------------------------------------------------
(* Room in a snapshot.                                                     *)

\* The range of the call that an entry has been put in for is not inside one.
LEMMA InsertedNotInside ==
  ASSUME TypeOK, TypeOK', MapInv, NEW k \in 0..g_pmm_map_size, InsertRange(k),
         Len(calls) = 2, calls[2].length > 0
  PROVE  ~InsideAhead(calls[1])'
<1> DEFINE e == [base |-> top.base, length |-> top.length, type |-> top.type]
<1>1. /\ Scanned /\ top.length # 0 /\ IsPlace(k) /\ Return /\ calls # <<>>
      /\ g_pmm_map_size < PMM_MAP_MAX_ENTRIES
      /\ g_pmm_map_size' = g_pmm_map_size + 1
      /\ g_pmm_map' = Inserted(k, e)
  BY DEF InsertRange, Scanned
<1>2. /\ top \in Call /\ End(calls[2]) <= top.base /\ Clear(calls[2]) /\ calls[2] \in Call
  BY <1>1, PlaceFacts
<1>3. Len(calls') = 1 /\ calls'[1] = calls[2]
  <2>1. /\ Len(calls') = Len(calls) - 1
        /\ \A c \in Pending' : c + 1 \in Pending /\ calls'[c] = calls[c + 1]
    BY <1>1, ReturnFacts
  <2>2. Len(calls') = 1 /\ 1 \in Pending'
    BY <2>1 DEF Pending
  <2> QED BY <2>1, <2>2
<1>4. g_pmm_map_size \in Nat /\ PMM_MAP_MAX_ENTRIES \in Nat /\ k \in Nat /\ k <= g_pmm_map_size
  BY LiveFacts
<1>5. \A m \in Live' : g_pmm_map'[m] = e \/ \E j \in Live : g_pmm_map'[m] = g_pmm_map[j]
  <2> HIDE DEF e
  <2>1. SUFFICES ASSUME NEW m \in Live', m # k PROVE \E j \in Live : g_pmm_map'[m] = g_pmm_map[j]
    BY <1>1, <1>4 DEF Inserted, Live, Slots
  <2>2. m \in Nat /\ m <= g_pmm_map_size /\ m \in Slots
    BY <1>1, <1>4 DEF Live, Slots
  <2>3. CASE m < k
    BY <1>1, <1>4, <2>1, <2>2, <2>3 DEF Inserted, Live
  <2>4. CASE m > k
    <3>1. m - 1 \in Live /\ g_pmm_map'[m] = g_pmm_map[m - 1]
      BY <1>1, <1>4, <2>2, <2>4 DEF Inserted, Live
    <3> QED BY <3>1
  <2> QED BY <1>4, <2>1, <2>2, <2>3, <2>4
<1>6. calls[2].base \in Nat /\ End(calls[2]) \in Nat /\ calls[2].base < End(calls[2])
  BY <1>2, Bounds
<1>7. ASSUME NEW m \in Live' PROVE ~Within(calls[2], g_pmm_map'[m])
  <2>1. CASE g_pmm_map'[m] = e
    <3>1. g_pmm_map'[m].base = top.base
      BY <2>1
    <3>2. top.base \in Nat
      BY <1>2, Bounds
    <3> QED BY <1>2, <1>6, <3>1, <3>2 DEF Within
  <2>2. CASE \E j \in Live : g_pmm_map'[m] = g_pmm_map[j]
    <3>1. PICK j \in Live : g_pmm_map'[m] = g_pmm_map[j]
      BY <2>2
    <3>2. ~Overlap(calls[2], g_pmm_map[j])
      <4>1. calls[2].length # 0
        OBVIOUS
      <4> QED BY <1>2, <4>1, Zenon DEF Clear
    <3>3. /\ g_pmm_map[j].base \in Nat /\ End(g_pmm_map[j]) \in Nat
      BY LiveBounds DEF MapInv
    <3>4. ~Within(calls[2], g_pmm_map[j])
      BY <1>6, <3>2, <3>3 DEF Within, Overlap
    <3> QED BY <3>1, <3>4
  <2> QED BY <1>5, <2>1, <2>2
<1>8. ASSUME NEW m \in Live' PROVE ~Within(calls'[1], g_pmm_map'[m])
  BY <1>3, <1>7
<1> QED
  BY <1>8, Zenon DEF InsideAhead, Within, End

\* A range that meets the entry the scan is at is inside it, ahead of the scan.
LEMMA HitAhead ==
  ASSUME TypeOK, MapInv, Scanning, Overlap(top, cur), top.length > 0
  PROVE  InsideAhead(calls[1]) /\ Len(calls) = 1 /\ Override
<1>1. MapSorted /\ CallsInv
  BY DEF MapInv
<1>2. Len(calls) = 1 /\ top.force /\ Within(top, cur)
  BY <1>1, Hit
<1>3. top \in Call /\ top.i \in Live /\ calls[1] = top
  BY <1>1, ScanFacts DEF top
<1>4. top.i <= top.i /\ Within(top, g_pmm_map[top.i])
  BY <1>2, <1>3, LiveFacts DEF cur
<1> QED
  BY <1>2, <1>3, <1>4, Zenon DEF InsideAhead, Override

\* The steps of pmm_map_set leave room in the snapshot.
LEMMA RoomMapSet ==
  ASSUME TypeOK, TypeOK', MapInv, RoomInv, MapSet
  PROVE  RoomInv'
<1>0. snapshot' = snapshot /\ pmm_map_set
  BY DEF MapSet
<1>a. SUFFICES ASSUME snapshot.state = "allocating"
               PROVE  /\ \A c \in Pending' : calls'[c].length > 0
                      /\ g_pmm_map_size' + Len(calls') <= snapshot.count
                      /\ Len(calls') = 1 /\ InsideAhead(calls[1])'
                           => g_pmm_map_size' + 2 <= snapshot.count
  BY <1>0, Zenon DEF RoomInv
<1>b. /\ \A c \in Pending : calls[c].length > 0
      /\ g_pmm_map_size + Len(calls) <= snapshot.count
      /\ Len(calls) = 1 /\ InsideAhead(calls[1]) => g_pmm_map_size + 2 <= snapshot.count
  BY <1>a, Zenon DEF RoomInv
<1>c. /\ MapSorted /\ g_pmm_map_size \in Nat /\ snapshot.count \in Nat
      /\ calls \in Seq(Call) /\ Len(calls) \in Nat
  <2>1. NoSnapshot.state # "allocating"
    BY DEF NoSnapshot
  <2>2. snapshot.count \in Nat
    BY <1>a, <2>1 DEF TypeOK, SnapshotType
  <2>3. calls \in Seq(Call) /\ MapSorted
    BY Zenon DEF MapInv, TypeOK
  <2>4. Len(calls) \in Nat
    BY <2>3
  <2> QED BY <2>2, <2>3, <2>4, LiveFacts
<1>d. ASSUME calls # <<>>
      PROVE  Len(calls) >= 1 /\ top.length > 0 /\ calls[1] = top /\ top \in Call
  <2>1. Len(calls) >= 1 /\ top \in Call
    BY <1>c, <1>d, StackFacts DEF top
  <2>2. 1 \in Pending
    BY <1>c, <2>1 DEF Pending
  <2> QED BY <1>b, <2>1, <2>2 DEF top
<1>1. CASE SplitEntry
  <2>1. /\ Scanning /\ Overlap(top, cur) /\ calls # <<>>
        /\ OverlapEnd /\ g_pmm_map_size' = g_pmm_map_size
    BY <1>1, <1>c, Meets DEF SplitEntry, Scanning
  <2>2. Len(calls) = 1 /\ InsideAhead(calls[1]) /\ top.length > 0
    BY <1>d, <2>1, HitAhead
  <2>3. top \in Call /\ cur \in Entry
    BY <1>c, <2>1, ScanFacts
  <2> DEFINE f == [base |-> End(top), length |-> End(cur) - End(top),
                   type |-> cur.type, force |-> TRUE, i |-> 0]
             g == [top EXCEPT !.i = @ + 1]
             s == [calls EXCEPT ![1] = g]
  <2>4. End(top) \in Nat /\ End(cur) - End(top) \in Nat /\ End(cur) - End(top) > 0
    BY <2>1, <2>3 DEF OverlapEnd, End, Call, Entry
  <2>5. f \in Call /\ f.length > 0
    BY <2>3, <2>4, CallFacts, EntryFacts
  <2>6. g \in Call /\ g.length = top.length
    BY <2>3 DEF Call
  <2>7. s \in Seq(Call) /\ Len(s) = 1 /\ s[1] = g
    BY <1>c, <2>1, <2>2, <2>6, StackFacts
  <2>8. calls' = <<f>> \o s
    BY <1>1 DEF SplitEntry, top
  <2>9. Len(calls') = 2 /\ calls'[1] = f /\ calls'[1 + 1] = s[1]
    <3>1. 1 \in 1..Len(s)
      BY <2>7
    <3> HIDE DEF f, s
    <3>2. Len(calls') = 2 /\ calls'[1] = f
      BY <2>5, <2>7, <2>8, PushFacts, SMTT(30)
    <3>3. calls'[1 + 1] = s[1]
      BY <3>1, <2>5, <2>7, <2>8, PushFacts
    <3> QED BY <3>2, <3>3
  <2>10. ASSUME NEW c \in Pending' PROVE calls'[c].length > 0
    <3>1. c = 1 \/ c = 2
      BY <2>9 DEF Pending
    <3> HIDE DEF f, g
    <3> QED BY <3>1, <2>2, <2>5, <2>6, <2>7, <2>9
  <2> QED BY <1>b, <1>c, <2>1, <2>2, <2>9, <2>10
<1>2. CASE TrimEntryEnd \/ TrimEntryStart
  <2>1. /\ Scanning /\ NextEntry /\ Overlap(top, cur) /\ calls # <<>>
        /\ g_pmm_map_size' = g_pmm_map_size
    BY <1>2, <1>c, Meets DEF TrimEntryEnd, TrimEntryStart, Scanning
  <2>2. Len(calls) = 1 /\ InsideAhead(calls[1])
    BY <1>d, <2>1, HitAhead
  <2>3. /\ Len(calls') = Len(calls) /\ Pending' = Pending
        /\ calls'[1] = [top EXCEPT !.i = @ + 1]
    BY <2>1, NextEntryFacts
  <2>4. calls'[1].length = top.length
    BY <1>d, <2>1, <2>3 DEF Call
  <2>5. ASSUME NEW c \in Pending' PROVE calls'[c].length > 0
    <3>1. c = 1
      BY <2>2, <2>3 DEF Pending
    <3> QED BY <3>1, <1>d, <2>1, <2>4
  <2> QED BY <1>b, <1>c, <2>1, <2>2, <2>3, <2>5
<1>3. CASE DropEntry
  <2>1. /\ Scanning /\ Overlap(top, cur) /\ calls # <<>> /\ calls' = calls
        /\ g_pmm_map_size' = g_pmm_map_size - 1
    BY <1>3, <1>c, Meets DEF DropEntry, Scanning
  <2>2. Pending' = Pending
    BY <2>1 DEF Pending
  <2>3. Len(calls) = 1
    BY <1>d, <2>1, HitAhead
  <2>4. \A c \in Pending' : calls'[c].length > 0
    BY <1>b, <2>1, <2>2
  <2> QED BY <1>b, <1>c, <2>1, <2>3, <2>4
<1>4. CASE SkipEntry
  <2>1. /\ Scanning /\ NextEntry /\ calls # <<>>
        /\ UNCHANGED <<g_pmm_map, g_pmm_map_size>>
    BY <1>4 DEF SkipEntry, Scanning
  <2>2. /\ Len(calls') = Len(calls) /\ Pending' = Pending
        /\ calls'[1] = [top EXCEPT !.i = @ + 1]
        /\ \A c \in 2..Len(calls) : calls'[c] = calls[c]
    BY <2>1, NextEntryFacts
  <2>3. top \in Call /\ calls[1] = top /\ top.length > 0
    BY <1>d, <2>1
  <2>4. /\ calls'[1].length = top.length /\ calls'[1].base = top.base
        /\ calls'[1].force = top.force /\ calls'[1].i = top.i + 1
    BY <2>2, <2>3 DEF Call
  <2>5. ASSUME NEW c \in Pending' PROVE calls'[c].length > 0
    <3>1. c \in Pending /\ (c = 1 \/ c \in 2..Len(calls))
      BY <1>c, <2>2 DEF Pending
    <3> QED BY <3>1, <1>b, <2>2, <2>3, <2>4
  <2>6. ASSUME InsideAhead(calls[1])' PROVE InsideAhead(calls[1])
    <3>1. PICK k \in Live : /\ calls'[1].force /\ calls'[1].i <= k
                            /\ Within(calls'[1], g_pmm_map[k])
      BY <2>1, <2>6, Zenon DEF InsideAhead, Live, Within, End
    <3>2. End(calls'[1]) = End(top) /\ top.force
      BY <2>4, <3>1 DEF End
    <3>3. Within(top, g_pmm_map[k])
      BY <2>4, <3>1, <3>2 DEF Within
    <3>4. top.i <= k
      BY <2>3, <2>4, <3>1, LiveFacts DEF Call
    <3> QED BY <2>3, <3>2, <3>3, <3>4, Zenon DEF InsideAhead
  <2> QED BY <1>b, <2>1, <2>2, <2>5, <2>6
<1>5. ASSUME NEW k \in 0..g_pmm_map_size, ExtendPrevious(k) \/ ExtendNext(k) \/ InsertRange(k),
             calls # <<>>, Return, g_pmm_map_size' \in {g_pmm_map_size, g_pmm_map_size + 1},
             g_pmm_map_size' # g_pmm_map_size => InsertRange(k)
      PROVE  /\ \A c \in Pending' : calls'[c].length > 0
             /\ g_pmm_map_size' + Len(calls') <= snapshot.count
             /\ Len(calls') = 1 /\ InsideAhead(calls[1])'
                  => g_pmm_map_size' + 2 <= snapshot.count
  <2>1. /\ Len(calls) >= 1 /\ Len(calls') = Len(calls) - 1
        /\ \A c \in Pending' : c + 1 \in Pending /\ calls'[c] = calls[c + 1]
    BY <1>5, ReturnFacts
  <2>2. \A c \in Pending' : calls'[c].length > 0
    BY <1>b, <2>1
  <2>3. g_pmm_map_size' + Len(calls') <= snapshot.count
    BY <1>b, <1>c, <1>5, <2>1
  <2>4. ASSUME Len(calls') = 1, InsideAhead(calls[1])' PROVE g_pmm_map_size' + 2 <= snapshot.count
    <3>1. Len(calls) = 2
      <4>1. Len(calls) \in Nat /\ Len(calls) - 1 = 1
        BY <1>c, <2>1, <2>4
      <4> QED BY <4>1
    <3>2. CASE g_pmm_map_size' = g_pmm_map_size
      BY <1>b, <3>1, <3>2
    <3>3. CASE g_pmm_map_size' # g_pmm_map_size
      <4>1. 2 \in Pending
        BY <3>1 DEF Pending
      <4>2. calls[2].length > 0
        BY <4>1, <1>b
      <4> QED BY <1>5, <2>4, <3>1, <3>3, <4>2, InsertedNotInside
    <3> QED BY <3>2, <3>3
  <2> QED BY <2>2, <2>3, <2>4
<1>6. ASSUME NEW k \in 0..g_pmm_map_size, ExtendPrevious(k) \/ ExtendNext(k) \/ InsertRange(k)
      PROVE  /\ calls # <<>> /\ Return
             /\ g_pmm_map_size' \in {g_pmm_map_size, g_pmm_map_size + 1}
             /\ g_pmm_map_size' # g_pmm_map_size => InsertRange(k)
  BY <1>6 DEF ExtendPrevious, ExtendNext, InsertRange, Scanned
<1>7. ASSUME NEW k, MapOverflow(k) \/ ReadPastArray(k)
      PROVE  UNCHANGED <<g_pmm_map, g_pmm_map_size, calls>>
  BY <1>7 DEF MapOverflow, ReadPastArray
<1>8. ASSUME UNCHANGED <<g_pmm_map, g_pmm_map_size, calls>>
      PROVE  /\ \A c \in Pending' : calls'[c].length > 0
             /\ g_pmm_map_size' + Len(calls') <= snapshot.count
             /\ Len(calls') = 1 /\ InsideAhead(calls[1])'
                  => g_pmm_map_size' + 2 <= snapshot.count
  <2>1. InsideAhead(calls[1])' => InsideAhead(calls[1])
    BY <1>8, Zenon DEF InsideAhead, Live, Within, End
  <2>2. \A c \in Pending' : calls'[c].length > 0
    BY <1>8, <1>b, Zenon DEF Pending
  <2> QED BY <1>b, <1>8, <2>1, <2>2
<1>9. ~EmptyRange
  BY <1>d DEF EmptyRange, Scanned, Call
<1>10. ~RejectRange /\ ~TrimRangeStart /\ ~TrimRangeEnd /\ ~SplitRange
  <2>1. SUFFICES ASSUME RejectRange \/ TrimRangeStart \/ TrimRangeEnd \/ SplitRange PROVE FALSE
    OBVIOUS
  <2>2. Scanning /\ ~Override /\ calls # <<>>
    BY <2>1 DEF RejectRange, TrimRangeStart, TrimRangeEnd, SplitRange, Scanning
  <2>3. Overlap(top, cur)
    BY <2>1, <2>2, <1>c, Meets DEF RejectRange, TrimRangeStart, TrimRangeEnd, SplitRange
  <2> QED BY <1>d, <2>2, <2>3, HitAhead
<1> QED
  BY <1>0, <1>1, <1>2, <1>3, <1>4, <1>5, <1>6, <1>7, <1>8, <1>9, <1>10 DEF pmm_map_set

\* Every step leaves room in the snapshot.
LEMMA RoomNext ==
  ASSUME IInv, RoomInv, TypeOK', [Next]_vars
  PROVE  RoomInv'
<1>0. TypeOK /\ MapInv /\ PhaseInv
  BY Zenon DEF IInv, MapInv
<1>1. ASSUME snapshot'.state # "allocating" PROVE RoomInv'
  BY <1>1, Zenon DEF RoomInv
<1>2. ASSUME UNCHANGED <<g_pmm_map, g_pmm_map_size, calls, snapshot>> PROVE RoomInv'
  <2>1. InsideAhead(calls[1])' => InsideAhead(calls[1])
    BY <1>2, Zenon DEF InsideAhead, Live, Within, End
  <2> QED BY <1>2, <2>1, Zenon DEF RoomInv, Pending
<1>3. NoSnapshot.state # "allocating"
  BY DEF NoSnapshot
<1>4. ASSUME NEW r \in todo, Report(r) PROVE RoomInv'
  BY <1>0, <1>1, <1>3, <1>4 DEF PhaseInv, Report
<1>5. ASSUME MayCall, snapshot' = snapshot PROVE RoomInv'
  BY <1>1, <1>5 DEF MayCall
<1>6. CASE \/ \E n \in PageCounts, t \in AllocTypes : Allocate(n, t)
           \/ \E a \in FixedAddresses, n \in PageCounts, t \in AllocTypes : AllocateAt(a, n, t)
           \/ \E n \in PageCounts \cup {SnapshotPages(SnapshotSlots(g_pmm_map_size))} : OutOfMemory(n)
           \/ \E o \in owned : Release(o)
  BY <1>5, <1>6 DEF Allocate, AllocateAt, OutOfMemory, Release
<1>7. CASE pmm_create_snapshot
  <2>1. g_pmm_map_size \in Nat
    BY <1>0, LiveFacts
  <2>2. PICK count \in Nat : count = g_pmm_map_size + 2
    BY <2>1
  <2>3. PICK n \in Nat : n = SnapshotPages(count) /\ n # 0
    BY <2>1, <2>2, SnapshotPagesNat, SnapshotPagesPositive
  <2>4. SnapshotSlots(g_pmm_map_size) = count
    BY <2>2 DEF SnapshotSlots
  <2>5. PICK addr : /\ pmm_alloc_ext(n, PTM_PAGE_GRANULARITY, ALLOCATED, addr)
                    /\ snapshot' = [state |-> "allocating", count |-> count,
                                    allocation |-> Allocation(addr, n, ALLOCATED)]
    BY <1>7, <2>3, <2>4 DEF pmm_create_snapshot
  <2>6. Pages(n) \in Nat /\ Pages(n) > 0 /\ addr \in Nat /\ ALLOCATED \in Types
    BY <1>0, <2>3, <2>5, PagesLength, AllocFacts DEF ALLOCATED, Types, FREE, BAD
  <2>7. Enter(addr, Pages(n), ALLOCATED, TRUE) /\ UNCHANGED g_pmm_map_size
    BY <2>5 DEF pmm_alloc_ext
  <2>8. /\ Len(calls') = 1
        /\ calls'[1] = [base |-> addr, length |-> Pages(n), type |-> ALLOCATED,
                        force |-> TRUE, i |-> 0]
    <3> HIDE DEF Enter
    <3> QED BY <2>6, <2>7, EnterFacts
  <2>9. ASSUME NEW c \in Pending' PROVE calls'[c].length > 0
    BY <2>6, <2>8 DEF Pending
  <2>10. snapshot'.count = count
    BY <2>5
  <2>11. g_pmm_map_size' + Len(calls') <= count /\ g_pmm_map_size' + 2 <= count
    BY <2>1, <2>2, <2>7, <2>8
  <2> QED BY <2>9, <2>10, <2>11, Zenon DEF RoomInv
<1>8. CASE FillSnapshot
  <2>1. /\ UNCHANGED <<g_pmm_map, g_pmm_map_size, calls>>
        /\ snapshot.state = "allocating"
        /\ snapshot' = snapshot \/ snapshot' = [snapshot EXCEPT !.state = "taken"]
    BY <1>8 DEF FillSnapshot
  <2>2. snapshot \in [state : {"allocating", "taken"}, count : Nat, allocation : AllocationType]
    BY <1>0, <1>3, <2>1 DEF TypeOK, SnapshotType
  <2>3. CASE snapshot' = [snapshot EXCEPT !.state = "taken"]
    BY <1>1, <2>2, <2>3
  <2> QED BY <1>2, <2>1, <2>3
<1>9. CASE pmm_free_snapshot
  BY <1>1, <1>3, <1>9 DEF pmm_free_snapshot
<1>10. CASE MapSet
  BY <1>0, <1>10, RoomMapSet
<1>11. CASE UNCHANGED vars
  BY <1>2, <1>11 DEF vars
<1> QED
  BY <1>4, <1>6, <1>7, <1>8, <1>9, <1>10, <1>11 DEF Next

\* The whole invariant holds of every reachable state when the reported ranges
\* are disjoint: besides IInv, the array and the allocations stay in reported
\* memory, and a snapshot in the making keeps room for what its own allocation
\* may still add to the map (pmm.c:43-45, 164-171).
THEOREM StrongInvariance ==
  ASSUME RegionsDisjoint
  PROVE  Spec => []StrongInv
<1>1. Init => StrongInv
  <2>1. Init => snapshot.state # "allocating"
    BY DEF Init, NoSnapshot
  <2>2. Init => RoomInv
    BY <2>1, Zenon DEF RoomInv
  <2> QED BY <2>2, InvInit, KnownInit DEF StrongInv
<1>2. StrongInv /\ [Next]_vars => StrongInv'
  <2>1. SUFFICES ASSUME IInv, KnownInv, RoomInv, [Next]_vars PROVE StrongInv'
    BY DEF StrongInv
  <2>2. IInv' /\ TypeOK /\ TypeOK'
    <3>1. IInv'
      BY <2>1, InvNext
    <3> QED BY <2>1, <3>1, Zenon DEF IInv
  <2>3. KnownInv'
    BY <2>1, <2>2, KnownNext
  <2>4. RoomInv'
    BY <2>1, <2>2, RoomNext
  <2> QED BY <2>2, <2>3, <2>4 DEF StrongInv
<1> QED
  BY <1>1, <1>2, PTL DEF Spec

\* With disjoint ranges, a snapshot's slots are enough for the map as it is once
\* the snapshot's own pages are in it (pmm_create_snapshot, pmm.c:164-171).
THEOREM SnapshotsComplete ==
  ASSUME RegionsDisjoint
  PROVE  Spec => []SnapshotComplete
<1>1. StrongInv => SnapshotComplete
  <2> SUFFICES ASSUME IInv, RoomInv, Idle, snapshot.state = "allocating"
               PROVE  g_pmm_map_size <= snapshot.count
    BY DEF StrongInv, SnapshotComplete
  <2>1. g_pmm_map_size + Len(calls) <= snapshot.count
    BY Zenon DEF RoomInv
  <2>2. Len(calls) = 0 /\ g_pmm_map_size \in Nat
    BY LiveFacts DEF Idle, IInv
  <2> QED BY <2>1, <2>2
<1> QED
  BY <1>1, StrongInvariance, PTL

----------------------------------------------------------------------------
(* What the settled type of an address is.                                 *)

\* A range on its way into the map has the last word about an address, an entry
\* in use the next.
Gives(a, t) ==
    \/ \E c \in Pending : InRange(a, calls[c]) /\ calls[c].type = t
    \/ /\ \A c \in Pending : ~InRange(a, calls[c])
       /\ \E k \in Live : InRange(a, g_pmm_map[k]) /\ g_pmm_map[k].type = t

\* The type the map gives to an address is its entry's.
LEMMA MapKindIs ==
  ASSUME TypeOK, MapSorted, NEW a \in Nat
  PROVE  /\ \A k \in Live : InRange(a, g_pmm_map[k]) => MapKind(a) = g_pmm_map[k].type
         /\ (\A k \in Live : ~InRange(a, g_pmm_map[k])) => MapKind(a) = NONE
<1>1. ASSUME NEW k \in Live, InRange(a, g_pmm_map[k]) PROVE MapKind(a) = g_pmm_map[k].type
  <2> DEFINE m == CHOOSE j \in Live : InRange(a, g_pmm_map[j])
  <2>1. m \in Live /\ InRange(a, g_pmm_map[m])
    BY <1>1, Zenon
  <2> HIDE DEF m
  <2>2. m = k
    BY <1>1, <2>1, LiveBounds DEF InRange
  <2>3. MapKind(a) = g_pmm_map[m].type
    BY <1>1, Zenon DEF MapKind, m
  <2> QED BY <2>2, <2>3
<1>2. ASSUME \A k \in Live : ~InRange(a, g_pmm_map[k]) PROVE MapKind(a) = NONE
  BY <1>2, Zenon DEF MapKind
<1> QED BY <1>1, <1>2

\* Ranges on their way into the map are disjoint, and win.
LEMMA PendingWins ==
  ASSUME TypeOK, MapSorted, CallsInv, NEW a \in Nat, NEW c \in Pending, InRange(a, calls[c])
  PROVE  /\ calls[c].force \/ calls[c].type > MapKind(a)
         /\ \A d \in Pending : InRange(a, calls[d]) => d = c
<1>1. /\ calls \in Seq(Call) /\ Len(calls) \in Nat
      /\ c \in Int /\ 1 <= c /\ c <= Len(calls) /\ Len(calls) <= 2
  <2>1. calls \in Seq(Call)
    BY DEF TypeOK
  <2>2. Len(calls) <= 2
    BY Zenon DEF CallsInv
  <2> QED BY <2>1, <2>2 DEF Pending
<1>2. calls[c] \in Call
  BY <1>1, ElementType DEF Pending
<1>3. /\ calls[c].base \in Nat /\ End(calls[c]) \in Nat /\ calls[c].type \in Types
      /\ calls[c].length # 0
  <2>1. calls[c].base \in Nat /\ End(calls[c]) \in Nat
    BY <1>2, Bounds
  <2>2. calls[c].length # 0
    BY <1>2 DEF InRange, End, Call
  <2> QED BY <1>2, <2>1, <2>2, CallFacts
<1>4. Len(calls) = 1 \/ Len(calls) = 2
  <2>1. \A n \in Nat : 1 <= c /\ c <= n /\ n <= 2 => n = 1 \/ n = 2
    BY <1>1
  <2> QED BY <1>1, <2>1, Zenon
<1>5. Clear(calls[c]) \/ calls[c].force
  <2>1. CASE Len(calls) = 1
    <3>1. c = 1
      BY <1>1, <2>1
    <3> QED BY <2>1, <3>1, Zenon DEF CallsInv, InsideAhead
  <2>2. CASE Len(calls) = 2
    <3>1. c = 1 \/ c = 2
      BY <1>1, <2>2
    <3> QED BY <2>2, <3>1, Zenon DEF CallsInv
  <2> QED BY <1>4, <2>1, <2>2
<1>6. ASSUME Clear(calls[c]) PROVE calls[c].type > MapKind(a)
  <2>1. \A k \in Live : ~Overlap(calls[c], g_pmm_map[k])
    BY <1>3, <1>6, Zenon DEF Clear
  <2>2. \A k \in Live : ~InRange(a, g_pmm_map[k])
    BY <1>3, <2>1, LiveBounds DEF Overlap, InRange
  <2>3. MapKind(a) = NONE
    BY <2>2, MapKindIs
  <2> QED BY <1>3, <2>3 DEF NONE, Types, FREE, BAD
<1>7. ASSUME NEW d \in Pending, InRange(a, calls[d]) PROVE d = c
  <2>1. CASE Len(calls) = 1
    BY <1>1, <2>1 DEF Pending
  <2>2. CASE Len(calls) = 2
    <3>1. End(calls[2]) <= calls[1].base
      BY <2>2, Zenon DEF CallsInv
    <3>2. calls[1] \in Call /\ calls[2] \in Call
      <4>1. 1 \in 1..Len(calls) /\ 2 \in 1..Len(calls)
        BY <2>2
      <4> QED BY <1>1, <4>1, ElementType
    <3>3. End(calls[2]) \in Nat /\ calls[1].base \in Nat
      BY <3>2, Bounds
    <3>4. ~(InRange(a, calls[1]) /\ InRange(a, calls[2]))
      BY <3>1, <3>3 DEF InRange
    <3>5. (c = 1 \/ c = 2) /\ (d = 1 \/ d = 2)
      BY <1>1, <2>2 DEF Pending
    <3> QED BY <1>7, <3>4, <3>5
  <2> QED BY <1>4, <2>1, <2>2
<1> QED BY <1>5, <1>6, <1>7

LEMMA SettledIs ==
  ASSUME NEW a \in Nat, NEW t
  PROVE  IInv => /\ Gives(a, t) => SettledKind(a) = t
                 /\ ~Covered(a) => SettledKind(a) = NONE
<1> SUFFICES ASSUME TypeOK, MapSorted, CallsInv
             PROVE  /\ Gives(a, t) => SettledKind(a) = t
                    /\ ~Covered(a) => SettledKind(a) = NONE
  BY Zenon DEF IInv
<1>1. ASSUME NEW c \in Pending, InRange(a, calls[c]) PROVE SettledKind(a) = calls[c].type
  <2> DEFINE d == CHOOSE x \in 1..Len(calls) : InRange(a, calls[x])
  <2>1. d \in Pending /\ InRange(a, calls[d]) /\ \E x \in 1..Len(calls) : InRange(a, calls[x])
    BY <1>1, Zenon DEF Pending
  <2> HIDE DEF d
  <2>2. d = c
    BY <1>1, <2>1, PendingWins
  <2>3. calls[d].force \/ calls[d].type > MapKind(a)
    BY <2>1, PendingWins
  <2>4. SettledKind(a) = IF calls[d].force \/ calls[d].type > MapKind(a)
                           THEN calls[d].type ELSE MapKind(a)
    BY <2>1, Zenon DEF SettledKind, d
  <2> QED BY <2>2, <2>3, <2>4
<1>2. ASSUME \A c \in Pending : ~InRange(a, calls[c]) PROVE SettledKind(a) = MapKind(a)
  BY <1>2, Zenon DEF SettledKind, Pending
<1>3. ASSUME Gives(a, t) PROVE SettledKind(a) = t
  <2>1. CASE \E c \in Pending : InRange(a, calls[c]) /\ calls[c].type = t
    BY <1>1, <2>1
  <2>2. CASE /\ \A c \in Pending : ~InRange(a, calls[c])
             /\ \E k \in Live : InRange(a, g_pmm_map[k]) /\ g_pmm_map[k].type = t
    BY <1>2, <2>2, MapKindIs
  <2> QED BY <1>3, <2>1, <2>2, Zenon DEF Gives
<1>4. ASSUME ~Covered(a) PROVE SettledKind(a) = NONE
  <2>1. /\ \A c \in Pending : ~InRange(a, calls[c])
        /\ \A k \in Live : ~InRange(a, g_pmm_map[k])
    BY <1>4, Zenon DEF Covered
  <2> QED BY <1>2, <2>1, MapKindIs
<1> QED BY <1>3, <1>4

LEMMA SettledAfter ==
  ASSUME NEW a \in Nat, NEW t
  PROVE  (IInv => /\ Gives(a, t) => SettledKind(a) = t
                  /\ ~Covered(a) => SettledKind(a) = NONE)'
<1>1. IInv => /\ Gives(a, t) => SettledKind(a) = t
              /\ ~Covered(a) => SettledKind(a) = NONE
  BY SettledIs
<1> QED BY <1>1, PTL

\* A step changes neither the type an address has nor the addresses that have one.
Keeps(a) ==
    /\ \A t : Gives(a, t) => Gives(a, t)'
    /\ Covered(a)' => Covered(a)

LEMMA KeepsKind ==
  ASSUME IInv, IInv', NEW a \in Nat, Keeps(a)
  PROVE  SettledKind(a)' = SettledKind(a)
<1>1. CASE Covered(a)
  <2>1. PICK t : Gives(a, t)
    BY <1>1, Zenon DEF Covered, Gives
  <2>2. Gives(a, t)'
    BY <2>1 DEF Keeps
  <2>3. SettledKind(a) = t
    BY <2>1, SettledIs
  <2>4. SettledKind(a)' = t
    BY <2>2, SettledAfter
  <2> QED BY <2>3, <2>4
<1>2. CASE ~Covered(a)
  <2>1. ~Covered(a)'
    BY <1>2 DEF Keeps
  <2> QED BY <1>2, <2>1, SettledIs, SettledAfter
<1> QED BY <1>1, <1>2

\* Nothing that the types depend on changes.
LEMMA KeepsSame ==
  ASSUME UNCHANGED <<g_pmm_map, g_pmm_map_size, calls>>, NEW a
  PROVE  Keeps(a)
  BY Zenon DEF Keeps, Gives, Covered, Pending, Live

\* The entries in use after a step.
LEMMA LiveAfter ==
  ASSUME TypeOK'
  PROVE  \A m \in Live' : g_pmm_map'[m].base \in Nat /\ End(g_pmm_map'[m]) \in Nat
<1>1. g_pmm_map_size' \in 0..PMM_MAP_MAX_ENTRIES /\ g_pmm_map' \in [Slots -> Entry]
  BY DEF TypeOK, Slots
<1>2. \A m \in Live' : m \in Slots
  <2>1. PICK s \in 0..PMM_MAP_MAX_ENTRIES : g_pmm_map_size' = s
    BY <1>1
  <2> QED BY <2>1, CapacityAssumption DEF Live, Slots
<1>3. \A m \in Live' : g_pmm_map'[m] \in Entry
  BY <1>1, <1>2
<1> QED BY <1>3, Bounds

\* The range of the call that returns is in the map.
LEMMA AbsorbKeeps ==
  ASSUME TypeOK, TypeOK', MapInv, Scanned, top.length # 0, Return,
         NEW k \in 0..g_pmm_map_size, IsPlace(k), Absorbs, NEW a \in Nat
  PROVE  Keeps(a)
<1>1. /\ top \in Call /\ calls # <<>> /\ calls[1] = top
      /\ MapSorted /\ CallsInv
  BY PlaceFacts DEF Scanned, top, MapInv
<1>2. top.base \in Nat /\ End(top) \in Nat
  BY <1>1, Bounds
<1>3. /\ \A c \in Pending' : c + 1 \in Pending /\ calls'[c] = calls[c + 1]
      /\ \A c \in Pending : c # 1 => c - 1 \in Pending' /\ calls'[c - 1] = calls[c]
      /\ 1 \in Pending
  <2>1. Len(calls) \in Nat /\ Len(calls) >= 1
    BY <1>1, ReturnFacts
  <2>2. 1 \in Pending
    BY <2>1 DEF Pending
  <2> QED BY <1>1, <2>2, ReturnFacts, Zenon
<1>4. \A j \in Live : g_pmm_map[j].base \in Nat /\ End(g_pmm_map[j]) \in Nat
  BY <1>1, LiveBounds
<1>5. \A m \in Live' : g_pmm_map'[m].base \in Nat /\ End(g_pmm_map'[m]) \in Nat
  BY LiveAfter
<1>6. ASSUME NEW t, Gives(a, t) PROVE Gives(a, t)'
  <2>1. ASSUME NEW c \in Pending, c # 1, InRange(a, calls[c]), calls[c].type = t
        PROVE  Gives(a, t)'
    <3>1. c - 1 \in Pending' /\ calls'[c - 1] = calls[c]
      BY <1>3, <2>1
    <3> QED BY <2>1, <3>1, Zenon DEF Gives
  <2>2. ASSUME \A c \in Pending : c # 1 => ~InRange(a, calls[c])
        PROVE  \A c \in Pending' : ~InRange(a, calls'[c])
    <3>1. \A c \in Pending' : c + 1 # 1
      BY DEF Pending
    <3> QED BY <1>3, <2>2, <3>1
  <2>3. ASSUME InRange(a, top), top.type = t PROVE Gives(a, t)'
    <3>1. PICK m \in Live' : Within(top, g_pmm_map'[m]) /\ g_pmm_map'[m].type = top.type
      BY DEF Absorbs
    <3>2. InRange(a, g_pmm_map'[m])
      BY <1>2, <1>5, <2>3, <3>1 DEF InRange, Within
    <3>3. \A c \in Pending : c # 1 => ~InRange(a, calls[c])
      BY <1>1, <1>3, <2>3, PendingWins
    <3> QED BY <2>2, <2>3, <3>1, <3>2, <3>3, Zenon DEF Gives
  <2>4. ASSUME \A c \in Pending : ~InRange(a, calls[c]),
               NEW j \in Live, InRange(a, g_pmm_map[j]), g_pmm_map[j].type = t
        PROVE  Gives(a, t)'
    <3>1. PICK m \in Live' : /\ Within(g_pmm_map[j], g_pmm_map'[m])
                             /\ g_pmm_map'[m].type = g_pmm_map[j].type
      BY DEF Absorbs
    <3>2. InRange(a, g_pmm_map'[m])
      BY <1>4, <1>5, <2>4, <3>1 DEF InRange, Within
    <3> QED BY <2>2, <2>4, <3>1, <3>2, Zenon DEF Gives
  <2> QED BY <1>1, <1>6, <2>1, <2>3, <2>4, Zenon DEF Gives
<1>7. ASSUME Covered(a)', ~Covered(a) PROVE FALSE
  <2>1. /\ \A j \in Live : ~InRange(a, g_pmm_map[j])
        /\ \A c \in Pending : ~InRange(a, calls[c])
    BY <1>7, Zenon DEF Covered
  <2>2. \A c \in Pending' : ~InRange(a, calls'[c])
    BY <1>3, <2>1
  <2>3. PICK m \in Live' : InRange(a, g_pmm_map'[m])
    BY <1>7, <2>2, Zenon DEF Covered
  <2>4. a + 1 <= top.base \/ End(top) <= a
    BY <1>1, <1>2, <1>3, <2>1 DEF InRange
  <2>5. \A j \in Live : a + 1 <= g_pmm_map[j].base \/ End(g_pmm_map[j]) <= a
    BY <1>4, <2>1 DEF InRange
  <2>6. a + 1 \in Nat /\ a < a + 1
    OBVIOUS
  <2>7. a + 1 <= g_pmm_map'[m].base \/ End(g_pmm_map'[m]) <= a
    BY <2>4, <2>5, <2>6, Zenon DEF Absorbs
  <2> QED BY <1>5, <2>3, <2>7 DEF InRange
<1> QED BY <1>6, <1>7 DEF Keeps

\* A call that is alone and about one entry.
LEMMA AloneKeeps ==
  ASSUME Pending = {1}, NEW a,
         InRange(a, calls[1]) =>
            \E c \in Pending' : InRange(a, calls'[c]) /\ calls'[c].type = calls[1].type,
         \A k \in Live : InRange(a, g_pmm_map[k]) /\ ~InRange(a, calls[1]) =>
            \/ \E c \in Pending' : InRange(a, calls'[c]) /\ calls'[c].type = g_pmm_map[k].type
            \/ /\ \A c \in Pending' : ~InRange(a, calls'[c])
               /\ \E m \in Live' : InRange(a, g_pmm_map'[m]) /\ g_pmm_map'[m].type = g_pmm_map[k].type,
         Covered(a)' => Covered(a)
  PROVE  Keeps(a)
<1>1. ASSUME NEW t, Gives(a, t) PROVE Gives(a, t)'
  <2>1. CASE InRange(a, calls[1])
    <3>1. calls[1].type = t
      BY <1>1, <2>1, Zenon DEF Gives
    <3> QED BY <2>1, <3>1, Zenon DEF Gives
  <2>2. CASE ~InRange(a, calls[1])
    <3>1. PICK k \in Live : InRange(a, g_pmm_map[k]) /\ g_pmm_map[k].type = t
      BY <1>1, <2>2, Zenon DEF Gives
    <3> QED BY <2>2, <3>1, Zenon DEF Gives
  <2> QED BY <2>1, <2>2
<1> QED BY <1>1 DEF Keeps

\* The entry keeps what is outside the range.
LEMMA TrimKeeps ==
  ASSUME TypeOK, MapInv, TrimEntryEnd \/ TrimEntryStart, NEW a \in Nat
  PROVE  Keeps(a)
<1>1. /\ Scanning /\ NextEntry /\ Overlap(top, cur) /\ top.length > 0 /\ calls # <<>>
      /\ MapSorted /\ CallsInv /\ g_pmm_map_size' = g_pmm_map_size
  BY Meets DEF TrimEntryEnd, TrimEntryStart, MapInv, Scanning
<1>2. Len(calls) = 1 /\ Within(top, cur)
  BY <1>1, Hit
<1>3. /\ top \in Call /\ cur \in Entry /\ top.i \in Live /\ top.i \in Slots
  BY <1>1, ScanFacts
<1>4. /\ Pending = {1} /\ Pending' = {1} /\ calls[1] = top
      /\ calls'[1] = [top EXCEPT !.i = @ + 1]
  BY <1>1, <1>2, NextEntryFacts DEF Pending, top
<1>5. /\ calls'[1].type = top.type
      /\ InRange(a, calls'[1]) <=> InRange(a, top)
  BY <1>3, <1>4 DEF Call, InRange, End
<1>6. PICK e : /\ g_pmm_map' = [g_pmm_map EXCEPT ![top.i] = e]
               /\ e.type = cur.type
               /\ InRange(a, e) <=> InRange(a, cur) /\ ~InRange(a, top)
  <2>1. CASE TrimEntryEnd
    <3> DEFINE e == [cur EXCEPT !.length = top.base - cur.base]
    <3>1. g_pmm_map' = [g_pmm_map EXCEPT ![top.i] = e]
      BY <1>3, <2>1 DEF TrimEntryEnd, cur, TypeOK
    <3>2. OverlapStart /\ ~OverlapEnd
      BY <2>1 DEF TrimEntryEnd
    <3>3. e.type = cur.type /\ e.base = cur.base /\ e.length = top.base - cur.base
      BY <1>3 DEF Entry
    <3> HIDE DEF e
    <3>4. InRange(a, e) <=> InRange(a, cur) /\ ~InRange(a, top)
      BY <1>2, <1>3, <3>2, <3>3 DEF InRange, End, Entry, Call, OverlapStart, OverlapEnd, Within
    <3> QED BY <3>1, <3>3, <3>4
  <2>2. CASE TrimEntryStart
    <3> DEFINE e == [cur EXCEPT !.base = End(top), !.length = End(cur) - End(top)]
    <3>1. g_pmm_map' = [g_pmm_map EXCEPT ![top.i] = e]
      BY <1>3, <2>2 DEF TrimEntryStart, cur, TypeOK
    <3>2. OverlapEnd /\ ~OverlapStart
      BY <2>2 DEF TrimEntryStart
    <3>3. e.type = cur.type /\ e.base = End(top) /\ e.length = End(cur) - End(top)
      BY <1>3 DEF Entry
    <3> HIDE DEF e
    <3>4. InRange(a, e) <=> InRange(a, cur) /\ ~InRange(a, top)
      BY <1>2, <1>3, <3>2, <3>3 DEF InRange, End, Entry, Call, OverlapStart, OverlapEnd, Within
    <3> QED BY <3>1, <3>3, <3>4
  <2> QED BY <2>1, <2>2
<1>7. /\ Live' = Live /\ g_pmm_map'[top.i] = e
      /\ \A k \in Live : k # top.i => g_pmm_map'[k] = g_pmm_map[k]
  <2>1. g_pmm_map \in [Slots -> Entry] /\ \A k \in Live : k \in Slots
    BY LiveFacts DEF TypeOK
  <2> QED BY <1>1, <1>3, <1>6, <2>1 DEF Live
<1>8. InRange(a, top) => \E c \in Pending' : InRange(a, calls'[c]) /\ calls'[c].type = top.type
  BY <1>4, <1>5
<1>9. ASSUME NEW k \in Live, InRange(a, g_pmm_map[k]), ~InRange(a, top)
      PROVE  /\ \A c \in Pending' : ~InRange(a, calls'[c])
             /\ \E m \in Live' : InRange(a, g_pmm_map'[m]) /\ g_pmm_map'[m].type = g_pmm_map[k].type
  <2>1. InRange(a, g_pmm_map'[k]) /\ g_pmm_map'[k].type = g_pmm_map[k].type
    BY <1>6, <1>7, <1>9 DEF cur
  <2> QED BY <1>4, <1>5, <1>7, <1>9, <2>1
<1>10. ASSUME Covered(a)' PROVE Covered(a)
  <2>1. CASE \E c \in Pending' : InRange(a, calls'[c])
    BY <1>4, <1>5, <2>1, Zenon DEF Covered
  <2>2. CASE \E k \in Live' : InRange(a, g_pmm_map'[k])
    <3>1. PICK k \in Live : InRange(a, g_pmm_map'[k])
      BY <1>7, <2>2
    <3>2. InRange(a, g_pmm_map[k])
      BY <1>6, <1>7, <3>1 DEF cur
    <3> QED BY <3>2, Zenon DEF Covered
  <2> QED BY <1>10, <2>1, <2>2, Zenon DEF Covered
<1> QED BY <1>4, <1>8, <1>9, <1>10, AloneKeeps

\* The entry is inside the range.
LEMMA DropKeeps ==
  ASSUME TypeOK, MapInv, DropEntry, NEW a \in Nat
  PROVE  Keeps(a)
<1>1. /\ Scanning /\ (Covers \/ Equals) /\ Overlap(top, cur) /\ top.length > 0
      /\ MapSorted /\ CallsInv /\ g_pmm_map_size' = g_pmm_map_size - 1
      /\ g_pmm_map' = Deleted(top.i) /\ calls' = calls
  BY Meets DEF DropEntry, MapInv
<1>2. Len(calls) = 1
  BY <1>1, Hit
<1>3. /\ top \in Call /\ cur \in Entry /\ top.i \in Live /\ top.i \in Nat
  BY <1>1, ScanFacts, LiveFacts
<1>4. Pending = {1} /\ Pending' = {1} /\ calls[1] = top /\ calls'[1] = top
  BY <1>1, <1>2 DEF Pending, top
<1>5. InRange(a, cur) => InRange(a, top)
  BY <1>1, <1>3 DEF Covers, Equals, InRange, End, Call, Entry
<1>6. /\ g_pmm_map_size \in Nat /\ PMM_MAP_MAX_ENTRIES \in Nat
      /\ g_pmm_map_size <= PMM_MAP_MAX_ENTRIES
  BY LiveFacts
<1>7. \A k \in Live : k # top.i => \E m \in Live' : g_pmm_map'[m] = g_pmm_map[k]
  <2> SUFFICES ASSUME NEW k \in Live, k # top.i PROVE \E m \in Live' : g_pmm_map'[m] = g_pmm_map[k]
    OBVIOUS
  <2>1. k \in Nat /\ k < g_pmm_map_size
    BY LiveFacts
  <2>2. top.i < g_pmm_map_size
    BY <1>3, LiveFacts
  <2>3. CASE k < top.i
    <3>1. k \in Live' /\ k \in Slots /\ ~(top.i <= k)
      BY <1>1, <1>3, <1>6, <2>1, <2>2, <2>3 DEF Live, Slots
    <3> QED BY <1>1, <3>1 DEF Deleted
  <2>4. CASE k > top.i
    <3>1. /\ k - 1 \in Live' /\ k - 1 \in Slots /\ top.i <= k - 1 /\ k - 1 < g_pmm_map_size - 1
          /\ (k - 1) + 1 = k
      BY <1>1, <1>3, <1>6, <2>1, <2>2, <2>4 DEF Live, Slots
    <3>2. g_pmm_map'[k - 1] = g_pmm_map[(k - 1) + 1]
      BY <1>1, <3>1 DEF Deleted
    <3> QED BY <3>1, <3>2
  <2> QED BY <1>3, <2>1, <2>3, <2>4
<1>8. \A m \in Live' : \E k \in Live : g_pmm_map'[m] = g_pmm_map[k]
  <2> SUFFICES ASSUME NEW m \in Live' PROVE \E k \in Live : g_pmm_map'[m] = g_pmm_map[k]
    OBVIOUS
  <2>1. m \in Live /\ m + 1 \in Live /\ m \in Slots
    BY <1>1, <1>6 DEF Live, Slots
  <2> QED BY <1>1, <2>1 DEF Deleted
<1>9. InRange(a, top) => \E c \in Pending' : InRange(a, calls'[c]) /\ calls'[c].type = top.type
  BY <1>4
<1>10. ASSUME NEW k \in Live, InRange(a, g_pmm_map[k]), ~InRange(a, top)
       PROVE  /\ \A c \in Pending' : ~InRange(a, calls'[c])
              /\ \E m \in Live' : InRange(a, g_pmm_map'[m]) /\ g_pmm_map'[m].type = g_pmm_map[k].type
  <2>1. k # top.i
    BY <1>5, <1>10 DEF cur
  <2>2. PICK m \in Live' : g_pmm_map'[m] = g_pmm_map[k]
    BY <1>7, <2>1
  <2> QED BY <1>4, <1>10, <2>2
<1>11. ASSUME Covered(a)' PROVE Covered(a)
  <2>1. CASE \E c \in Pending' : InRange(a, calls'[c])
    BY <1>4, <2>1, Zenon DEF Covered
  <2>2. CASE \E k \in Live' : InRange(a, g_pmm_map'[k])
    BY <1>8, <2>2, Zenon DEF Covered
  <2> QED BY <1>11, <2>1, <2>2, Zenon DEF Covered
<1> QED BY <1>4, <1>9, <1>10, <1>11, AloneKeeps

\* What the entry loses is on its way back into the map.
LEMMA SplitKeeps ==
  ASSUME TypeOK, MapInv, SplitEntry, NEW a \in Nat
  PROVE  Keeps(a)
<1>1. /\ Scanning /\ OverlapStart /\ OverlapEnd /\ Overlap(top, cur)
      /\ MapSorted /\ CallsInv /\ g_pmm_map_size' = g_pmm_map_size
      /\ calls \in Seq(Call) /\ calls # <<>>
  BY Meets DEF SplitEntry, MapInv, Scanning, TypeOK
<1>2. /\ top \in Call /\ cur \in Entry /\ top.i \in Live /\ top.i \in Slots
      /\ Len(calls) \in Nat /\ Len(calls) >= 1
  BY <1>1, ScanFacts
<1>3. Len(calls) = 1
  <2>1. CASE top.length > 0
    BY <2>1, <1>1, Hit
  <2>2. CASE ~(top.length > 0)
    <3>1. Len(calls) <= 2 /\ Len(calls) # 2
      BY <1>1, <2>2, Zenon DEF CallsInv, top
    <3> QED BY <3>1, <1>2, OneOrTwo
  <2> QED BY <2>1, <2>2
<1>4. /\ top.base \in Nat /\ End(top) \in Nat /\ cur.base \in Nat /\ End(cur) \in Nat
      /\ cur.base < top.base /\ top.base <= End(top) /\ End(top) < End(cur)
      /\ cur.type \in Types
  BY <1>1, <1>2 DEF OverlapStart, OverlapEnd, Call, Entry, End
<1> DEFINE f == [base |-> End(top), length |-> End(cur) - End(top),
                 type |-> cur.type, force |-> TRUE, i |-> 0]
           g == [top EXCEPT !.i = @ + 1]
           s == [calls EXCEPT ![1] = g]
<1>5. f \in Call /\ f.type = cur.type /\ (InRange(a, f) <=> End(top) <= a /\ a < End(cur))
  <2>1. End(cur) - End(top) \in Nat /\ End(top) + (End(cur) - End(top)) = End(cur)
    BY <1>4
  <2>2. f \in Call
    BY <1>4, <2>1, CallFacts
  <2>3. f.base = End(top) /\ f.type = cur.type /\ End(f) = End(cur)
    BY <2>1 DEF End
  <2> HIDE DEF f
  <2> QED BY <2>2, <2>3 DEF InRange
<1>6. g \in Call /\ g.type = top.type /\ (InRange(a, g) <=> InRange(a, top))
  BY <1>2 DEF Call, InRange, End
<1>7. s \in Seq(Call) /\ Len(s) = 1 /\ s[1] = g
  BY <1>1, <1>3, <1>6, StackFacts
<1>8. calls' = <<f>> \o s
  BY DEF SplitEntry, top
<1> HIDE DEF f, g, s
<1>9. Len(calls') = 2 /\ calls'[1] = f
  <2>1. Len(calls') = Len(s) + 1 /\ calls'[1] = f
    BY <1>5, <1>7, <1>8, PushFacts
  <2> QED BY <1>7, <2>1
<1>10. calls'[2] = g
  <2>1. 1 \in 1..Len(s)
    BY <1>7
  <2>2. calls'[1 + 1] = s[1]
    BY <1>5, <1>7, <1>8, <2>1, PushFacts
  <2> QED BY <1>7, <2>2
<1>11. Pending = {1} /\ Pending' = {1, 2} /\ calls[1] = top
  BY <1>3, <1>9 DEF Pending, top
<1> DEFINE e == [cur EXCEPT !.length = top.base - cur.base]
<1>12. g_pmm_map' = [g_pmm_map EXCEPT ![top.i] = e]
  BY <1>2 DEF SplitEntry, cur, TypeOK
<1>13. e.type = cur.type /\ (InRange(a, e) <=> cur.base <= a /\ a < top.base)
  <2>1. e.type = cur.type /\ e.base = cur.base /\ e.length = top.base - cur.base
    BY <1>2 DEF Entry
  <2> HIDE DEF e
  <2> QED BY <1>4, <2>1 DEF InRange, End
<1> HIDE DEF e
<1>14. /\ Live' = Live /\ g_pmm_map'[top.i] = e
       /\ \A k \in Live : k # top.i => g_pmm_map'[k] = g_pmm_map[k]
  <2>1. g_pmm_map \in [Slots -> Entry] /\ \A k \in Live : k \in Slots
    BY LiveFacts DEF TypeOK
  <2> QED BY <1>1, <1>2, <1>12, <2>1 DEF Live
<1>15. /\ InRange(a, cur) <=> cur.base <= a /\ a < End(cur)
       /\ InRange(a, top) <=> top.base <= a /\ a < End(top)
  BY DEF InRange
<1>16. InRange(a, top) => \E c \in Pending' : InRange(a, calls'[c]) /\ calls'[c].type = top.type
  BY <1>6, <1>10, <1>11
<1>17. ASSUME NEW k \in Live, InRange(a, g_pmm_map[k]), ~InRange(a, top)
       PROVE  \/ \E c \in Pending' : InRange(a, calls'[c]) /\ calls'[c].type = g_pmm_map[k].type
              \/ /\ \A c \in Pending' : ~InRange(a, calls'[c])
                 /\ \E m \in Live' : InRange(a, g_pmm_map'[m]) /\ g_pmm_map'[m].type = g_pmm_map[k].type
  <2>1. ~InRange(a, g)
    BY <1>6, <1>17
  <2>2. CASE k = top.i
    <3>1. g_pmm_map[k] = cur
      BY <2>2 DEF cur
    <3>2. CASE End(top) <= a
      <4>1. InRange(a, f)
        BY <1>5, <1>15, <1>17, <3>1, <3>2
      <4> QED BY <1>5, <1>9, <1>11, <3>1, <4>1
    <3>3. CASE ~(End(top) <= a)
      <4>1. InRange(a, e) /\ ~InRange(a, f)
        BY <1>4, <1>5, <1>13, <1>15, <1>17, <3>1, <3>3
      <4>2. \A c \in Pending' : ~InRange(a, calls'[c])
        BY <1>9, <1>10, <1>11, <2>1, <4>1
      <4>3. InRange(a, g_pmm_map'[k]) /\ g_pmm_map'[k].type = g_pmm_map[k].type
        BY <1>13, <1>14, <2>2, <3>1, <4>1
      <4> QED BY <1>14, <4>2, <4>3
    <3> QED BY <3>2, <3>3
  <2>3. CASE k # top.i
    <3>1. ~InRange(a, cur)
      <4>1. \/ End(g_pmm_map[k]) <= cur.base \/ End(cur) <= g_pmm_map[k].base
        BY <1>1, <1>2, <2>3, LiveBounds DEF cur
      <4>2. g_pmm_map[k].base \in Nat /\ End(g_pmm_map[k]) \in Nat
        BY <1>1, LiveBounds
      <4> QED BY <1>4, <1>17, <4>1, <4>2 DEF InRange
    <3>2. ~InRange(a, f)
      BY <1>4, <1>5, <1>15, <3>1
    <3>3. \A c \in Pending' : ~InRange(a, calls'[c])
      BY <1>9, <1>10, <1>11, <2>1, <3>2
    <3>4. g_pmm_map'[k] = g_pmm_map[k]
      BY <1>14, <2>3
    <3> QED BY <1>14, <1>17, <3>3, <3>4
  <2> QED BY <2>2, <2>3
<1>18. ASSUME Covered(a)' PROVE Covered(a)
  <2>1. InRange(a, cur) => Covered(a)
    BY <1>2, Zenon DEF Covered, cur
  <2>2. InRange(a, top) => Covered(a)
    BY <1>11, Zenon DEF Covered
  <2>3. CASE \E c \in Pending' : InRange(a, calls'[c])
    <3>1. InRange(a, f) \/ InRange(a, g)
      BY <1>9, <1>10, <1>11, <2>3
    <3> QED BY <1>4, <1>5, <1>6, <1>15, <2>1, <2>2, <3>1
  <2>4. CASE \E k \in Live' : InRange(a, g_pmm_map'[k])
    <3>1. PICK k \in Live : InRange(a, g_pmm_map'[k])
      BY <1>14, <2>4
    <3>2. CASE k = top.i
      BY <1>4, <1>13, <1>14, <1>15, <2>1, <3>1, <3>2
    <3>3. CASE k # top.i
      BY <1>14, <3>1, <3>3, Zenon DEF Covered
    <3> QED BY <3>2, <3>3
  <2> QED BY <1>18, <2>3, <2>4, Zenon DEF Covered
<1> QED BY <1>11, <1>16, <1>17, <1>18, AloneKeeps

\* The scan goes on.
LEMMA SkipKeeps ==
  ASSUME TypeOK, SkipEntry, NEW a \in Nat
  PROVE  Keeps(a)
<1>1. Scanning /\ NextEntry /\ calls # <<>> /\ UNCHANGED <<g_pmm_map, g_pmm_map_size>>
  BY DEF SkipEntry, Scanning
<1>2. /\ Len(calls') = Len(calls) /\ Pending' = Pending
      /\ calls'[1] = [top EXCEPT !.i = @ + 1]
      /\ \A c \in 2..Len(calls) : calls'[c] = calls[c]
  BY <1>1, NextEntryFacts
<1>3. top \in Call /\ calls[1] = top /\ Len(calls) \in Nat
  <2>1. calls \in Seq(Call)
    BY DEF TypeOK
  <2> QED BY <1>1, <2>1, StackFacts DEF top
<1>4. calls'[1].type = top.type /\ (InRange(a, calls'[1]) <=> InRange(a, top))
  BY <1>2, <1>3 DEF Call, InRange, End
<1>5. \A c \in Pending : /\ calls'[c].type = calls[c].type
                         /\ InRange(a, calls'[c]) <=> InRange(a, calls[c])
  <2>1. \A c \in Pending : c = 1 \/ c \in 2..Len(calls)
    BY <1>3 DEF Pending
  <2> QED BY <1>2, <1>3, <1>4, <2>1
<1>6. Live' = Live /\ g_pmm_map' = g_pmm_map
  BY <1>1 DEF Live
<1> QED BY <1>2, <1>5, <1>6, Zenon DEF Keeps, Gives, Covered

\* A call with nothing left returns.
LEMMA PopKeeps ==
  ASSUME TypeOK, calls # <<>>, top.length = 0, Return, NEW a \in Nat,
         UNCHANGED <<g_pmm_map, g_pmm_map_size>>
  PROVE  Keeps(a)
<1>1. /\ \A c \in Pending' : c + 1 \in Pending /\ calls'[c] = calls[c + 1]
      /\ \A c \in Pending : c # 1 => c - 1 \in Pending' /\ calls'[c - 1] = calls[c]
  BY ReturnFacts
<1>2. top \in Call /\ calls[1] = top
  BY StackFacts DEF TypeOK, top
<1>3. ~InRange(a, calls[1])
  BY <1>2 DEF InRange, End, Call
<1>4. Live' = Live /\ g_pmm_map' = g_pmm_map
  BY DEF Live
<1>5. ASSUME NEW t, Gives(a, t) PROVE Gives(a, t)'
  <2>1. CASE \E c \in Pending : InRange(a, calls[c]) /\ calls[c].type = t
    <3>1. PICK c \in Pending : InRange(a, calls[c]) /\ calls[c].type = t
      BY <2>1
    <3>2. c - 1 \in Pending' /\ calls'[c - 1] = calls[c]
      BY <1>1, <1>3, <3>1
    <3> QED BY <3>1, <3>2, Zenon DEF Gives
  <2>2. CASE /\ \A c \in Pending : ~InRange(a, calls[c])
             /\ \E k \in Live : InRange(a, g_pmm_map[k]) /\ g_pmm_map[k].type = t
    <3>1. \A c \in Pending' : ~InRange(a, calls'[c])
      BY <1>1, <2>2
    <3> QED BY <1>4, <2>2, <3>1, Zenon DEF Gives
  <2> QED BY <1>5, <2>1, <2>2, Zenon DEF Gives
<1>6. ASSUME Covered(a)' PROVE Covered(a)
  BY <1>1, <1>4, <1>6, Zenon DEF Covered
<1> QED BY <1>5, <1>6 DEF Keeps

\* No step of pmm_map_set changes a settled type.
LEMMA MapSetKeeps ==
  ASSUME TypeOK, TypeOK', MapInv, pmm_map_set, NEW a \in Nat
  PROVE  Keeps(a)
<1>0. MapSorted /\ CallsInv
  BY DEF MapInv
<1>1. ASSUME Scanning, Overlap(top, cur), top.length > 0 PROVE Override
  BY <1>0, <1>1, Hit DEF Override
<1>2. CASE SplitEntry
  BY <1>2, SplitKeeps
<1>3. CASE RejectRange
  <2>1. /\ Scanning /\ ~Override /\ Return /\ calls # <<>>
        /\ UNCHANGED <<g_pmm_map, g_pmm_map_size>>
    BY <1>3 DEF RejectRange, Scanning
  <2>2. Overlap(top, cur)
    BY <1>0, <1>3, <2>1, Meets DEF RejectRange
  <2>3. top \in Call
    BY <1>0, <2>1, ScanFacts
  <2>4. top.length = 0
    BY <1>1, <2>1, <2>2, <2>3 DEF Call
  <2> QED BY <2>1, <2>4, PopKeeps
<1>4. CASE TrimEntryEnd \/ TrimEntryStart
  BY <1>4, TrimKeeps
<1>5. CASE TrimRangeStart \/ TrimRangeEnd \/ SplitRange
  <2>1. Scanning /\ ~Override
    BY <1>5 DEF TrimRangeStart, TrimRangeEnd, SplitRange
  <2>2. Overlap(top, cur) /\ top.length > 0
    BY <1>0, <1>5, <2>1, Meets DEF TrimRangeStart, TrimRangeEnd, SplitRange
  <2> QED BY <1>1, <2>1, <2>2
<1>6. CASE DropEntry
  BY <1>6, DropKeeps
<1>7. CASE SkipEntry
  BY <1>7, SkipKeeps
<1>8. CASE EmptyRange
  BY <1>8, PopKeeps DEF EmptyRange, Scanned
<1>9. ASSUME NEW k \in 0..g_pmm_map_size, ExtendPrevious(k) \/ ExtendNext(k) \/ InsertRange(k)
      PROVE  Keeps(a)
  <2>1. Scanned /\ top.length # 0 /\ Return /\ IsPlace(k)
    BY <1>9 DEF ExtendPrevious, ExtendNext, InsertRange
  <2>2. Absorbs
    <3>1. PlaceAt(k) /\ MapSorted
      BY <2>1, PlaceFacts DEF MapInv
    <3> QED BY <1>9, <3>1, ExtendPreviousAbsorbs, ExtendNextLive, ExtendNextAbsorbs,
               InsertRangeAbsorbs
  <2> QED BY <2>1, <2>2, AbsorbKeeps
<1>10. ASSUME NEW k \in 0..g_pmm_map_size, MapOverflow(k) \/ ReadPastArray(k) PROVE Keeps(a)
  BY <1>10, KeepsSame DEF MapOverflow, ReadPastArray
<1> QED
  BY <1>2, <1>3, <1>4, <1>5, <1>6, <1>7, <1>8, <1>9, <1>10 DEF pmm_map_set

----------------------------------------------------------------------------
(* The abstract manager.                                                   *)

\* The types when an operation has just called pmm_map_set.
LEMMA EnterKinds ==
  ASSUME IInv, IInv', calls = <<>>, UNCHANGED <<g_pmm_map, g_pmm_map_size>>,
         NEW b \in Nat, NEW l \in Nat, NEW t \in Types, NEW f \in BOOLEAN, Enter(b, l, t, f),
         NEW a \in Nat
  PROVE  SettledKind(a)' = IF b <= a /\ a < b + l THEN t ELSE SettledKind(a)
<1>1. /\ Len(calls') = 1
      /\ calls'[1] = [base |-> b, length |-> l, type |-> t, force |-> f, i |-> 0]
  BY EnterFacts
<1>2. /\ Pending = {} /\ Pending' = {1} /\ calls'[1].type = t
      /\ InRange(a, calls'[1]) <=> b <= a /\ a < b + l
  BY <1>1 DEF Pending, InRange, End
<1>3. Live' = Live /\ g_pmm_map' = g_pmm_map
  BY DEF Live
<1>4. CASE b <= a /\ a < b + l
  <2>1. Gives(a, t)'
    BY <1>2, <1>4, Zenon DEF Gives
  <2> QED BY <1>4, <2>1, SettledAfter
<1>5. CASE ~(b <= a /\ a < b + l)
  <2>1. \A c \in Pending' : ~InRange(a, calls'[c])
    BY <1>2, <1>5
  <2>2. Keeps(a)
    BY <1>2, <1>3, <2>1, Zenon DEF Keeps, Gives, Covered
  <2> QED BY <1>5, <2>2, KeepsKind
<1> QED BY <1>4, <1>5

\* Addresses of an entry have its type when no call is under way.
LEMMA EntryKind ==
  ASSUME IInv, calls = <<>>, NEW k \in Live, NEW a \in Nat, InRange(a, g_pmm_map[k])
  PROVE  SettledKind(a) = g_pmm_map[k].type
<1>1. Pending = {}
  BY DEF Pending
<1>2. PICK t : t = g_pmm_map[k].type
  OBVIOUS
<1>3. Gives(a, t)
  BY <1>1, <1>2, Zenon DEF Gives
<1> QED BY <1>2, <1>3, SettledIs

\* Pages are taken out of a free entry: an allocation, or nothing for no pages.
LEMMA AllocImplements ==
  ASSUME IInv, IInv', todo = {}, Idle, NEW addr \in Nat, NEW n \in Nat, NEW t \in Types, t # FREE,
         Enter(addr, Pages(n), t, TRUE), Own(addr, n, t),
         UNCHANGED <<g_pmm_map, g_pmm_map_size, panic, todo>>,
         NEW k \in Live, g_pmm_map[k].type = FREE, g_pmm_map[k].base <= addr,
         addr + Pages(n) <= End(g_pmm_map[k])
  PROVE  [Kinds!Next]_Kinds!kindsVars
<1>1. PICK l \in Nat : l = Pages(n)
  BY PagesLength
<1>2. Enter(addr, l, t, TRUE) /\ calls = <<>> /\ panic = "no" /\ TypeOK
  BY <1>1, Zenon DEF Idle, IInv
<1>3. \A a \in Address : a \in Nat
  BY ClientsAssumption
<1>4. \A a \in Address : SettledKind(a)' = IF addr <= a /\ a < addr + l THEN t ELSE SettledKind(a)
  BY <1>2, <1>3, EnterKinds
<1>5. CASE n = 0
  <2>1. l = 0 /\ owned' = owned
    BY <1>1, <1>5, PageAssumption DEF Pages, Own
  <2>2. \A a \in Address : SettledKind(a)' = SettledKind(a)
    BY <1>3, <1>4, <2>1
  <2>3. [a \in Address |-> SettledKind(a)]' = [a \in Address |-> SettledKind(a)]
    BY <2>2, Zenon
  <2> QED BY <2>1, <2>3, Zenon DEF Kinds!kindsVars
<1>6. CASE n # 0
  <2>1. PICK o : o = Allocation(addr, n, t)
    OBVIOUS
  <2>2. /\ o.base = addr /\ o.length = l /\ o.type = t
        /\ owned' = owned \cup {o}
    BY <1>1, <1>6, <2>1 DEF Own, Allocation
  <2>3. \A a \in Address : Kinds!Covers(o, a) <=> addr <= a /\ a < addr + l
    BY <2>2 DEF Kinds!Covers
  <2>4. g_pmm_map[k].base \in Nat /\ End(g_pmm_map[k]) \in Nat
    BY <1>2, LiveFacts, Bounds
  <2>5. ASSUME NEW a \in Address, Kinds!Covers(o, a) PROVE SettledKind(a) = FREE
    <3>1. InRange(a, g_pmm_map[k])
      BY <1>1, <1>3, <2>3, <2>4, <2>5 DEF InRange
    <3> QED BY <1>2, <1>3, <3>1, EntryKind
  <2>6. [a \in Address |-> SettledKind(a)]'
          = [a \in Address |-> IF Kinds!Covers(o, a) THEN o.type
                               ELSE [x \in Address |-> SettledKind(x)][a]]
    <3>1. \A a \in Address : SettledKind(a)' = IF Kinds!Covers(o, a) THEN o.type ELSE SettledKind(a)
      BY <1>4, <2>2, <2>3
    <3> QED BY <3>1, Zenon
  <2>7. Kinds!Allocate(o)
    <3>1. Regions \ todo = Regions
      OBVIOUS
    <3>2. \A a \in Address : Kinds!Covers(o, a) => [x \in Address |-> SettledKind(x)][a] = FREE
      BY <2>5
    <3>3. o.type \in Types \ {FREE}
      BY <2>2
    <3> QED BY <1>2, <2>2, <2>6, <3>1, <3>2, <3>3, Zenon DEF Kinds!Allocate
  <2> QED BY <2>2, <2>7 DEF Kinds!Next
<1> QED BY <1>5, <1>6

\* An allocation is given back.
LEMMA FreeImplements ==
  ASSUME IInv, IInv', NEW o \in owned, pmm_free(o.base, o.pages), owned' = owned \ {o},
         UNCHANGED todo
  PROVE  Kinds!Next
<1>1. o \in AllocationType /\ o.length = Pages(o.pages)
  BY Zenon DEF IInv, TypeOK, OwnedInv
<1>2. PICK b \in Nat : b = o.base
  BY <1>1 DEF AllocationType
<1>3. PICK l \in Nat : l = o.length
  BY <1>1 DEF AllocationType
<1>4. /\ Enter(b, l, FREE, TRUE) /\ calls = <<>> /\ panic = "no"
      /\ UNCHANGED <<g_pmm_map, g_pmm_map_size, panic>>
  BY <1>1, <1>2, <1>3, Zenon DEF pmm_free, Idle
<1>5. FREE \in Types /\ TRUE \in BOOLEAN
  BY DEF FREE, BAD, Types
<1>6. ASSUME NEW a \in Address
      PROVE  SettledKind(a)' = IF Kinds!Covers(o, a) THEN FREE ELSE SettledKind(a)
  <2>1. a \in Nat
    BY ClientsAssumption
  <2>2. SettledKind(a)' = IF b <= a /\ a < b + l THEN FREE ELSE SettledKind(a)
    BY <1>4, <1>5, <2>1, EnterKinds
  <2> QED BY <1>2, <1>3, <2>2 DEF Kinds!Covers
<1>7. [a \in Address |-> SettledKind(a)]'
        = [a \in Address |-> IF Kinds!Covers(o, a) THEN FREE
                             ELSE [x \in Address |-> SettledKind(x)][a]]
  BY <1>6, Zenon
<1>8. Kinds!Free(o)
  BY <1>4, <1>7, Zenon DEF Kinds!Free
<1> QED BY <1>8 DEF Kinds!Next

\* A range is reported.  Nothing is known yet about its addresses.
LEMMA ReportImplements ==
  ASSUME IInv, IInv', NEW r \in todo, Report(r)
  PROVE  Kinds!Next
<1>1. /\ calls = <<>> /\ panic = "no" /\ todo' = todo \ {r}
      /\ UNCHANGED <<owned, g_pmm_map, g_pmm_map_size, panic>>
      /\ IF r.length = 0 THEN UNCHANGED calls ELSE Enter(r.base, r.length, r.type, FALSE)
  BY DEF Report, pmm_map_add, Idle
<1>2. r \in Entry /\ r \in Regions /\ owned = {} /\ TypeOK
  <2>1. TypeOK /\ PhaseInv
    BY Zenon DEF IInv
  <2> QED BY <2>1, RegionsAssumption DEF TypeOK, PhaseInv
<1>3. r.base \in Nat /\ r.length \in Nat /\ r.type \in Types /\ End(r) \in Nat
  BY <1>2, EntryFacts, Bounds
<1>4. ASSUME NEW a \in Address
      PROVE  SettledKind(a)' = IF Kinds!Covers(r, a) /\ r.type > SettledKind(a) THEN r.type
                               ELSE SettledKind(a)
  <2>1. a \in Nat
    BY ClientsAssumption
  <2>2. Kinds!Covers(r, a) <=> r.base <= a /\ a < r.base + r.length
    BY DEF Kinds!Covers
  <2>3. CASE r.length = 0
    <3>1. ~Kinds!Covers(r, a)
      BY <1>3, <2>1, <2>2, <2>3
    <3>2. Keeps(a)
      BY <1>1, <2>3, KeepsSame
    <3> QED BY <2>1, <3>1, <3>2, KeepsKind
  <2>4. CASE r.length # 0
    <3>1. SettledKind(a)' = IF r.base <= a /\ a < r.base + r.length THEN r.type
                            ELSE SettledKind(a)
      BY <1>1, <1>3, <2>1, <2>4, EnterKinds
    <3>2. ASSUME Kinds!Covers(r, a) PROVE r.type > SettledKind(a)
      <4>1. r.length > 0
        BY <1>3, <2>4
      <4>2. \A k \in Live : ~Overlap(r, g_pmm_map[k])
        BY <4>1, Zenon DEF IInv, TodoInv
      <4>3. \A k \in Live : g_pmm_map[k].base \in Nat /\ End(g_pmm_map[k]) \in Nat
        BY <1>2, LiveFacts, Bounds
      <4>4. r.base <= a /\ a < End(r)
        BY <2>2, <3>2 DEF End
      <4>5. \A k \in Live : ~InRange(a, g_pmm_map[k])
        BY <1>3, <2>1, <4>2, <4>3, <4>4 DEF Overlap, InRange
      <4>6. Pending = {}
        BY <1>1 DEF Pending
      <4>7. ~Covered(a)
        BY <4>5, <4>6, Zenon DEF Covered
      <4>8. SettledKind(a) = NONE
        BY <2>1, <4>7, SettledIs
      <4> QED BY <1>3, <4>8 DEF NONE, Types, FREE, BAD
    <3> QED BY <2>2, <3>1, <3>2
  <2> QED BY <2>3, <2>4
<1>5. [a \in Address |-> SettledKind(a)]'
        = [a \in Address |->
             IF Kinds!Covers(r, a) /\ r.type > [x \in Address |-> SettledKind(x)][a]
               THEN r.type ELSE [x \in Address |-> SettledKind(x)][a]]
  BY <1>4, Zenon
<1>6. (Regions \ todo)' = (Regions \ todo) \cup {r} /\ r \notin Regions \ todo
  BY <1>1, <1>2
<1>7. Kinds!Report(r)
  BY <1>1, <1>2, <1>5, <1>6, Zenon DEF Kinds!Report
<1> QED BY <1>2, <1>7 DEF Kinds!Next

\* A step of the manager is a step of the abstract one, or none.
LEMMA NextImplements ==
  ASSUME IInv, IInv', [Next]_vars
  PROVE  [Kinds!Next]_Kinds!kindsVars
<1>0. TypeOK /\ TypeOK' /\ MapInv
  BY Zenon DEF IInv, MapInv
<1>1. \A a \in Address : a \in Nat
  BY ClientsAssumption
<1>2. ASSUME \A a \in Address : Keeps(a)
      PROVE  [a \in Address |-> SettledKind(a)]' = [a \in Address |-> SettledKind(a)]
  <2>1. \A a \in Address : SettledKind(a)' = SettledKind(a)
    BY <1>1, <1>2, KeepsKind
  <2> QED BY <2>1, Zenon
\* Nothing but the way to the same types, or the machine has stopped.
<1>3. ASSUME \A a \in Address : Keeps(a), UNCHANGED <<todo, owned>>,
             panic' = panic \/ (panic = "no" /\ panic' # "no")
      PROVE  [Kinds!Next]_Kinds!kindsVars
  <2>1. [a \in Address |-> SettledKind(a)]' = [a \in Address |-> SettledKind(a)]
    BY <1>2, <1>3
  <2>2. CASE panic' = panic
    BY <1>3, <2>1, <2>2, Zenon DEF Kinds!kindsVars
  <2>3. CASE panic = "no" /\ panic' # "no"
    <3>1. Kinds!Stop
      BY <1>3, <2>1, <2>3, Zenon DEF Kinds!Stop
    <3> QED BY <3>1 DEF Kinds!Next
  <2> QED BY <1>3, <2>2, <2>3
<1>4. ASSUME NEW r \in todo, Report(r) PROVE Kinds!Next
  BY <1>4, ReportImplements
<1>5. ASSUME NEW n \in Nat, NEW t \in Types, NEW addr, t # FREE, todo = {},
             pmm_alloc_ext(n, PTM_PAGE_GRANULARITY, t, addr), Own(addr, n, t), UNCHANGED todo
      PROVE  [Kinds!Next]_Kinds!kindsVars
  <2>1. addr \in Nat
    BY <1>0, <1>5, AllocFacts
  <2>2. PICK k \in Live : /\ g_pmm_map[k].type = FREE /\ g_pmm_map[k].base <= addr
                          /\ addr + Pages(n) <= End(g_pmm_map[k])
    BY <1>0, <1>5, AllocFacts
  <2>3. /\ Idle /\ Enter(addr, Pages(n), t, TRUE)
        /\ UNCHANGED <<g_pmm_map, g_pmm_map_size, panic, todo>>
    BY <1>5 DEF pmm_alloc_ext
  <2> QED BY <1>5, <2>1, <2>2, <2>3, AllocImplements
<1>6. ASSUME NEW n \in PageCounts, NEW t \in AllocTypes, Allocate(n, t)
      PROVE  [Kinds!Next]_Kinds!kindsVars
  <2>1. n \in Nat /\ t \in Types /\ t # FREE
    BY ClientsAssumption
  <2>2. PICK addr : pmm_alloc_ext(n, PTM_PAGE_GRANULARITY, t, addr) /\ Own(addr, n, t)
    BY <1>6 DEF Allocate
  <2>3. todo' = todo /\ todo = {}
    BY <1>6 DEF Allocate, MayCall
  <2> QED BY <1>5, <2>1, <2>2, <2>3
<1>7. ASSUME NEW addr \in FixedAddresses, NEW n \in PageCounts, NEW t \in AllocTypes,
             AllocateAt(addr, n, t)
      PROVE  [Kinds!Next]_Kinds!kindsVars
  <2>1. n \in Nat /\ t \in Types /\ t # FREE /\ addr \in Nat
    BY ClientsAssumption
  <2>2. /\ Idle /\ Enter(addr, Pages(n), t, TRUE) /\ Own(addr, n, t) /\ FreeAt(addr, n)
        /\ UNCHANGED <<g_pmm_map, g_pmm_map_size, panic, todo>> /\ todo = {}
    BY <1>7 DEF AllocateAt, pmm_alloc_at, MayCall
  <2>3. PICK k \in Live : /\ g_pmm_map[k].type = FREE /\ g_pmm_map[k].base <= addr
                          /\ addr + Pages(n) <= End(g_pmm_map[k])
    BY <2>2 DEF FreeAt
  <2> QED BY <2>1, <2>2, <2>3, AllocImplements
<1>8. ASSUME NEW n, OutOfMemory(n) PROVE [Kinds!Next]_Kinds!kindsVars
  <2>1. /\ UNCHANGED <<g_pmm_map, g_pmm_map_size, calls, todo, owned>>
        /\ panic = "no" /\ panic' # "no"
    BY <1>8 DEF OutOfMemory, pmm_alloc_ext_fails, Idle
  <2> QED BY <1>3, <2>1, KeepsSame
<1>9. ASSUME NEW o \in owned, Release(o) PROVE Kinds!Next
  BY <1>9, FreeImplements DEF Release
<1>10. CASE pmm_create_snapshot
  <2>1. PICK count \in Nat \ {0} : count = SnapshotSlots(g_pmm_map_size)
    BY <1>0, LiveFacts DEF SnapshotSlots
  <2>2. PICK n \in Nat : n = SnapshotPages(count)
    BY SnapshotPagesNat
  <2>3. PICK addr : /\ pmm_alloc_ext(n, PTM_PAGE_GRANULARITY, ALLOCATED, addr)
                    /\ Own(addr, n, ALLOCATED)
    BY <1>10, <2>1, <2>2 DEF pmm_create_snapshot
  <2>4. todo' = todo /\ todo = {}
    BY <1>10 DEF pmm_create_snapshot, MayCall
  <2>5. ALLOCATED \in Types /\ ALLOCATED # FREE
    BY DEF ALLOCATED, FREE, BAD, Types
  <2> QED BY <1>5, <2>3, <2>4, <2>5
<1>11. CASE FillSnapshot
  <2>1. /\ UNCHANGED <<g_pmm_map, g_pmm_map_size, calls, todo, owned>>
        /\ panic' = panic \/ (panic = "no" /\ panic' # "no")
    BY <1>11 DEF FillSnapshot, Idle
  <2> QED BY <1>3, <2>1, KeepsSame
<1>12. CASE pmm_free_snapshot
  <2>1. PICK o : o = snapshot.allocation
    OBVIOUS
  <2>2. /\ pmm_free(o.base, o.pages) /\ owned' = owned \ {o} /\ UNCHANGED todo
        /\ snapshot.state # "none"
    BY <1>12, <2>1 DEF pmm_free_snapshot
  <2>3. o \in owned
    BY <2>1, <2>2, Zenon DEF IInv, SnapshotInv
  <2> QED BY <2>2, <2>3, FreeImplements
<1>13. CASE MapSet
  <2>1. UNCHANGED <<todo, owned>> /\ pmm_map_set
    BY <1>13 DEF MapSet
  <2>2. \A a \in Address : Keeps(a)
    BY <1>0, <1>1, <2>1, MapSetKeeps
  <2>3. panic' = panic \/ (panic = "no" /\ panic' # "no")
    BY <2>1
       DEF pmm_map_set, SplitEntry, RejectRange, TrimEntryEnd, TrimRangeStart, TrimEntryStart,
       TrimRangeEnd, DropEntry, SplitRange, SkipEntry, EmptyRange, ExtendPrevious, ExtendNext,
       InsertRange, MapOverflow, ReadPastArray, Scanned
  <2> QED BY <1>3, <2>1, <2>2, <2>3
<1>14. CASE UNCHANGED vars
  <2>1. UNCHANGED <<g_pmm_map, g_pmm_map_size, calls, panic, todo, owned>>
    BY <1>14 DEF vars
  <2> QED BY <1>3, <2>1, KeepsSame
<1> QED
  BY <1>4, <1>6, <1>7, <1>8, <1>9, <1>10, <1>11, <1>12, <1>13, <1>14 DEF Next

\* When the reported ranges are disjoint the map implements PageKinds: through
\* every iteration of pmm_map_set (pmm.c:24-133) each address keeps the type that
\* the reports, allocations and frees so far have given it, an allocation takes
\* free addresses only and a free gives back exactly its own.
THEOREM PageKindsImplemented ==
  ASSUME RegionsDisjoint
  PROVE  Spec => ImplementsPageKinds
<1>1. Init => Kinds!Init
  <2> SUFFICES ASSUME Init PROVE Kinds!Init
    OBVIOUS
  <2>1. IInv
    BY InvInit
  <2>2. /\ Live = {} /\ Pending = {} /\ owned = {} /\ todo = Regions /\ panic = "no"
    BY DEF Init, PmmInit, Live, Pending
  <2>3. \A a : ~Covered(a)
    BY <2>2, Zenon DEF Covered
  <2>4. \A a \in Address : SettledKind(a) = NONE
    BY <2>1, <2>3, ClientsAssumption, SettledIs
  <2>5. [a \in Address |-> SettledKind(a)] = [a \in Address |-> Kinds!NONE]
    BY <2>4, Zenon DEF NONE, Kinds!NONE
  <2>6. Regions \ todo = {}
    BY <2>2
  <2> QED BY <2>2, <2>5, <2>6, Zenon DEF Kinds!Init
<1>2. IInv /\ IInv' /\ [Next]_vars => [Kinds!Next]_Kinds!kindsVars
  BY NextImplements
<1> QED
  BY <1>1, <1>2, Invariance, PTL DEF Spec, ImplementsPageKinds, Kinds!Spec

----------------------------------------------------------------------------
(* Ranges that overlap: the invariant.                                     *)

\* An entry in use, or a range on its way into the map, gives the type to the address.
HasType(a, t) ==
    \/ \E k \in Live : InRange(a, g_pmm_map[k]) /\ g_pmm_map[k].type = t
    \/ \E c \in Pending : InRange(a, calls[c]) /\ calls[c].type = t

\* The highest type that the map or a range on its way gives is the highest reported.
KindInv ==
    /\ \A a \in Nat, t \in Types :
          HasType(a, t) => \E r \in Reported : InRange(a, r) /\ t <= r.type
    /\ \A r \in Reported, a \in Nat :
          InRange(a, r) => \E t \in Types : HasType(a, t) /\ r.type <= t

\* A range has no address of an entry in use, or of one that its scan has passed.
Apart(c) == \A k \in Live : ~Overlap(c, g_pmm_map[k])
ApartBefore(c) == \A k \in Live : k < c.i => ~Overlap(c, g_pmm_map[k])

\* The calls below the top are what SplitRange left for later and have not started,
\* but the second one has when the top puts back the end of an entry for it.
StackInv ==
    /\ \A c \in Pending : c # 1 => calls[c].length > 0 /\ ~calls[c].force
    /\ calls # <<>> =>
         /\ top.force \/ top.length = 0 => Apart(top)
         /\ ApartBefore(top)
         /\ ~top.force =>
              \A c \in Pending : calls[c].type = top.type /\ (c # 1 => calls[c].i = 0)
         /\ top.force =>
              /\ top.length > 0 /\ Len(calls) >= 2
              /\ End(calls[2]) = top.base
              /\ ApartBefore(calls[2])
              /\ \A c \in Pending : c > 2 => calls[c].i = 0 /\ calls[c].type = calls[2].type

\* Below each call that has not started there is an entry that made SplitRange divide
\* the range, and the calls above it on the stack are about memory below that entry.
NotStarted(d) == d > 2 \/ (d = 2 /\ ~top.force)
Divides(k, d) ==
    /\ g_pmm_map[k].type >= calls[d].type
    /\ End(g_pmm_map[k]) <= calls[d].base
    /\ \A j \in Pending : j < d => End(calls[j]) <= g_pmm_map[k].base
GapInv == \A d \in Pending : NotStarted(d) => \E k \in Live : Divides(k, d)

OverlapInv == MapSorted /\ StaleInv /\ KindInv /\ StackInv /\ GapInv

----------------------------------------------------------------------------
(* What the steps of the scan keep.                                        *)

\* No address loses or gains a type that is the highest it has.
TypesKept ==
    \A a \in Nat, t \in Types :
        /\ HasType(a, t) => \E u \in Types : t <= u /\ HasType(a, u)'
        /\ HasType(a, t)' => \E u \in Types : t <= u /\ HasType(a, u)

LEMMA KindStep ==
  ASSUME TypesKept, KindInv, UNCHANGED todo
  PROVE  KindInv'
<1>1. Reported' = Reported /\ \A r \in Reported : r.type \in Types
  BY RegionsAssumption DEF Reported, Entry
<1>2. \A t, u \in Types : t \in Int /\ u \in Int
  BY DEF Types, FREE, BAD
<1>3. ASSUME NEW a \in Nat, NEW t \in Types, HasType(a, t)'
      PROVE  \E r \in Reported : InRange(a, r) /\ t <= r.type
  <2>1. PICK u \in Types : t <= u /\ HasType(a, u)
    BY <1>3, Zenon DEF TypesKept
  <2>2. PICK r \in Reported : InRange(a, r) /\ u <= r.type
    BY <2>1, Zenon DEF KindInv
  <2>3. t <= r.type
    BY <2>1, <2>2, <1>1, <1>2
  <2> QED BY <2>2, <2>3
<1>4. ASSUME NEW a \in Nat, NEW r \in Reported, InRange(a, r)
      PROVE  \E t \in Types : HasType(a, t)' /\ r.type <= t
  <2>1. PICK u \in Types : HasType(a, u) /\ r.type <= u
    BY <1>4, Zenon DEF KindInv
  <2>2. PICK t \in Types : u <= t /\ HasType(a, t)'
    BY <2>1, Zenon DEF TypesKept
  <2>3. r.type <= t
    BY <2>1, <2>2, <1>1, <1>2
  <2> QED BY <2>2, <2>3
<1> QED
  BY <1>1, <1>3, <1>4, Zenon DEF KindInv

\* The types of the calls.
LEMMA PendingFacts ==
  ASSUME TypeOK
  PROVE  \A c \in Pending : /\ c \in Nat /\ calls[c] \in Call
                            /\ calls[c].base \in Nat /\ End(calls[c]) \in Nat
                            /\ calls[c].length \in Nat /\ calls[c].i \in Nat
                            /\ calls[c].base <= End(calls[c])
                            /\ (calls[c].length > 0 => calls[c].base < End(calls[c]))
                            /\ calls[c].type \in Types /\ calls[c].force \in BOOLEAN
<1> SUFFICES ASSUME NEW c \in Pending
             PROVE  /\ c \in Nat /\ calls[c] \in Call
                    /\ calls[c].base \in Nat /\ End(calls[c]) \in Nat
                    /\ calls[c].length \in Nat /\ calls[c].i \in Nat
                    /\ calls[c].base <= End(calls[c])
                    /\ (calls[c].length > 0 => calls[c].base < End(calls[c]))
                    /\ calls[c].type \in Types /\ calls[c].force \in BOOLEAN
  OBVIOUS
<1>1. calls \in Seq(Call)
  BY DEF TypeOK
<1>2. c \in Nat /\ calls[c] \in Call
  BY <1>1, ElementType DEF Pending
<1> QED
  BY <1>2, Bounds, CallFacts

\* An address has some type exactly if it is covered.
LEMMA CoveredHasType ==
  ASSUME TypeOK
  PROVE  \A a \in Nat : Covered(a) <=> \E t \in Types : HasType(a, t)
<1>1. \A k \in Live : g_pmm_map[k].type \in Types
  BY LiveFacts, EntryFacts
<1>2. \A c \in Pending : calls[c].type \in Types
  BY PendingFacts
<1> QED
  BY <1>1, <1>2, Zenon DEF Covered, HasType

\* What TypesKept gives for the slots that are not in use.
LEMMA StaleKept ==
  ASSUME TypeOK, TypeOK', StaleInv, MapSorted, TypesKept,
         \A k \in Slots \ Live' : \E j \in Slots : g_pmm_map'[k] = g_pmm_map[j]
  PROVE  StaleInv'
<1>1. \A a \in Nat : Covered(a) => Covered(a)'
  <2>1. \A a \in Nat : Covered(a)' <=> \E t \in Types : HasType(a, t)'
    <3>1. TypeOK' => (\A a \in Nat : Covered(a) <=> \E t \in Types : HasType(a, t))'
      BY CoveredHasType, PTL
    <3> QED BY <3>1
  <2> QED BY <2>1, CoveredHasType, Zenon DEF TypesKept
<1> QED
  BY <1>1, StaleStep

\* The entries in use after a step.
LEMMA EntriesAfter ==
  ASSUME TypeOK'
  PROVE  \A m \in Live' : /\ m \in Nat /\ g_pmm_map'[m] \in Entry
                           /\ g_pmm_map'[m].base \in Nat /\ End(g_pmm_map'[m]) \in Nat
                           /\ g_pmm_map'[m].type \in Types
<1>1. g_pmm_map_size' \in 0..PMM_MAP_MAX_ENTRIES /\ g_pmm_map' \in [Slots -> Entry]
  BY DEF TypeOK, Slots
<1>2. \A m \in Live' : m \in Slots /\ m \in Nat
  <2>1. PICK s \in 0..PMM_MAP_MAX_ENTRIES : g_pmm_map_size' = s
    BY <1>1
  <2> QED BY <2>1, CapacityAssumption DEF Live, Slots
<1>3. \A m \in Live' : g_pmm_map'[m] \in Entry
  BY <1>1, <1>2
<1> QED BY <1>2, <1>3, Bounds, EntryFacts

\* A call that meets an entry is no recursive call of SplitEntry.
LEMMA HitFacts ==
  ASSUME TypeOK, MapSorted, StackInv, Scanning, Overlap(top, cur)
  PROVE  /\ ~top.force /\ top.length > 0 /\ 1 \in Pending /\ calls[1] = top
         /\ \A c \in Pending : /\ ~calls[c].force /\ calls[c].length > 0
                               /\ calls[c].type = top.type
                               /\ (c # 1 => calls[c].i = 0)
<1>1. calls # <<>> /\ top.i \in Live /\ top \in Call /\ Len(calls) \in Nat /\ Len(calls) >= 1
  BY ScanFacts DEF Scanning
<1>2. ~Apart(top)
  BY <1>1 DEF Apart, cur
<1>3. ~(top.force \/ top.length = 0)
  BY <1>1, <1>2, Zenon DEF StackInv
<1>4. top.length > 0
  BY <1>1, <1>3 DEF Call
<1>5. 1 \in Pending /\ calls[1] = top
  BY <1>1 DEF Pending, top
<1> QED
  BY <1>1, <1>3, <1>4, <1>5, Zenon DEF StackInv

\* Every way in which an iteration changes something is a way to overlap; and every
\* way to overlap but that of SharesEdge is one of them.
LEMMA MeetsAll ==
  ASSUME TypeOK, MapSorted, Scanning
  PROVE  /\ OverlapStart => Overlap(top, cur)
         /\ OverlapEnd => Overlap(top, cur)
         /\ Covers \/ Equals => Overlap(top, cur)
         /\ Overlap(top, cur) => OverlapStart \/ OverlapEnd \/ Covers \/ Equals \/ SharesEdge
<1>1. top \in Call /\ cur \in Entry /\ cur.length > 0
  BY ScanFacts
<1> QED
  BY <1>1 DEF OverlapStart, OverlapEnd, Covers, Equals, SharesEdge, Overlap, End, Call, Entry

\* The entries in use, and the one the scan is at.
LEMMA ScanBounds ==
  ASSUME TypeOK, MapSorted, Scanning
  PROVE  /\ top.i \in Live /\ top.i \in Nat /\ top.i \in Slots
         /\ cur = g_pmm_map[top.i] /\ cur \in Entry
         /\ cur.base \in Nat /\ End(cur) \in Nat /\ cur.base < End(cur)
         /\ cur.length \in Nat /\ cur.type \in Types /\ End(cur) = cur.base + cur.length
         /\ top \in Call /\ top.base \in Nat /\ End(top) \in Nat /\ top.base <= End(top)
         /\ top.length \in Nat /\ End(top) = top.base + top.length /\ top.type \in Types
         /\ \A k \in Live : /\ k \in Nat /\ k \in Slots
                            /\ g_pmm_map[k] \in Entry /\ g_pmm_map[k].type \in Types
                            /\ g_pmm_map[k].base \in Nat /\ End(g_pmm_map[k]) \in Nat
                            /\ g_pmm_map[k].base < End(g_pmm_map[k])
                            /\ (k < top.i => End(g_pmm_map[k]) <= cur.base)
                            /\ (k > top.i => End(cur) <= g_pmm_map[k].base)
<1>1. /\ top \in Call /\ cur \in Entry /\ cur.length > 0
      /\ top.i \in Live /\ top.i \in Slots
  BY ScanFacts
<1>2. \A k \in Live : /\ k \in Nat /\ k \in Slots
                      /\ g_pmm_map[k] \in Entry
                      /\ g_pmm_map[k].base \in Nat /\ End(g_pmm_map[k]) \in Nat
                      /\ g_pmm_map[k].base < End(g_pmm_map[k])
  BY LiveBounds, LiveFacts
<1>3. \A k \in Live : g_pmm_map[k].type \in Types
  BY <1>2, EntryFacts
<1>4. cur = g_pmm_map[top.i]
  BY DEF cur
<1>5. \A k \in Live : /\ (k < top.i => End(g_pmm_map[k]) <= cur.base)
                      /\ (k > top.i => End(cur) <= g_pmm_map[k].base)
  BY <1>1, <1>2, <1>4 DEF MapSorted
<1>6. /\ top.base \in Nat /\ End(top) \in Nat /\ top.base <= End(top) /\ top.type \in Types
      /\ top.length \in Nat
  BY <1>1, Bounds, CallFacts
<1>7. cur.length \in Nat
  BY <1>1, EntryFacts
<1> QED
  BY <1>1, <1>2, <1>3, <1>4, <1>5, <1>6, <1>7 DEF End

----------------------------------------------------------------------------
(* The steps of the scan.                                                  *)

\* The range of every call is what it was.
SameRanges ==
    /\ Pending' = Pending /\ Len(calls') = Len(calls)
    /\ \A c \in Pending :
         /\ calls'[c].base = calls[c].base /\ calls'[c].length = calls[c].length
         /\ calls'[c].type = calls[c].type /\ calls'[c].force = calls[c].force
         /\ End(calls'[c]) = End(calls[c])
         /\ c # 1 => calls'[c] = calls[c]

LEMMA NextEntrySame ==
  ASSUME TypeOK, Scanning, NextEntry
  PROVE  /\ SameRanges /\ calls' # <<>> /\ top' = calls'[1]
         /\ 1 \in Pending /\ calls[1] = top
         /\ top'.i = top.i + 1
<1>1. /\ Len(calls') = Len(calls) /\ Pending' = Pending
      /\ calls'[1] = [top EXCEPT !.i = @ + 1]
      /\ \A c \in 2..Len(calls) : calls'[c] = calls[c]
  BY NextEntryFacts
<1>2. calls # <<>> /\ calls \in Seq(Call) /\ Len(calls) \in Nat /\ Len(calls) >= 1 /\ top \in Call
  BY StackFacts DEF Scanning, TypeOK, top
<1>3. 1 \in Pending /\ \A c \in Pending : c # 1 => c \in 2..Len(calls)
  BY <1>2 DEF Pending
<1>4. /\ calls'[1].base = top.base /\ calls'[1].length = top.length
      /\ calls'[1].type = top.type /\ calls'[1].force = top.force /\ calls'[1].i = top.i + 1
  BY <1>1, <1>2 DEF Call
<1>5. calls' # <<>>
  BY <1>1, <1>2
<1> QED
  BY <1>1, <1>3, <1>4, <1>5 DEF SameRanges, End, top

\* Entries that keep their types and only lose what the range on top has, of a type
\* that is higher.
LEMMA ShrinkKept ==
  ASSUME TypeOK, TypeOK', Scanning, MapSorted, SameRanges, top.type > cur.type,
         \A k \in Live : k # top.i => \E j \in Live' : g_pmm_map'[j] = g_pmm_map[k],
         \A j \in Live' : \E k \in Live : /\ g_pmm_map'[j].type = g_pmm_map[k].type
                                          /\ Within(g_pmm_map'[j], g_pmm_map[k]),
         \A a \in Nat : InRange(a, cur) =>
            \/ InRange(a, top)
            \/ \E j \in Live' : InRange(a, g_pmm_map'[j]) /\ g_pmm_map'[j].type = cur.type
  PROVE  TypesKept
<1>1. \A t \in Types : t \in Int
  BY DEF Types, FREE, BAD
<1>2. 1 \in Pending /\ calls[1] = top /\ top.type \in Types /\ cur.type \in Types
  <2>1. Len(calls) \in Nat /\ Len(calls) >= 1
    BY ScanFacts
  <2> QED BY <2>1, ScanBounds DEF Pending, top
<1>3. \A a \in Nat, c \in Pending : InRange(a, calls'[c]) <=> InRange(a, calls[c])
  BY Zenon DEF SameRanges, InRange
<1>4. ASSUME NEW a \in Nat, NEW t \in Types, HasType(a, t)
      PROVE  \E u \in Types : t <= u /\ HasType(a, u)'
  <2>1. CASE \E c \in Pending : InRange(a, calls[c]) /\ calls[c].type = t
    <3>1. HasType(a, t)'
      BY <2>1, <1>3, Zenon DEF HasType, SameRanges
    <3> QED BY <3>1, <1>1
  <2>2. ASSUME NEW k \in Live, InRange(a, g_pmm_map[k]), g_pmm_map[k].type = t
        PROVE  \E u \in Types : t <= u /\ HasType(a, u)'
    <3>1. CASE k # top.i
      <4>1. HasType(a, t)'
        BY <3>1, <2>2, Zenon DEF HasType
      <4> QED BY <4>1, <1>1
    <3>2. CASE k = top.i
      <4>1. InRange(a, cur) /\ cur.type = t
        BY <3>2, <2>2 DEF cur
      <4>2. CASE InRange(a, top)
        <5>1. PICK u \in Types : u = top.type
          BY <1>2
        <5>2. HasType(a, u)'
          <6>1. 1 \in Pending' /\ InRange(a, calls'[1]) /\ calls'[1].type = u
            BY <5>1, <4>2, <1>2, <1>3 DEF SameRanges
          <6> QED BY <6>1, Zenon DEF HasType
        <5>3. t <= u
          BY <5>1, <4>1, <1>1, <1>2
        <5> QED BY <5>2, <5>3
      <4>3. CASE \E j \in Live' : InRange(a, g_pmm_map'[j]) /\ g_pmm_map'[j].type = cur.type
        <5>1. HasType(a, t)'
          BY <4>1, <4>3, Zenon DEF HasType
        <5> QED BY <5>1, <1>1
      <4> QED BY <4>1, <4>2, <4>3
    <3> QED BY <3>1, <3>2
  <2> QED BY <1>4, <2>1, <2>2, Zenon DEF HasType
<1>5. ASSUME NEW a \in Nat, NEW t \in Types, HasType(a, t)'
      PROVE  \E u \in Types : t <= u /\ HasType(a, u)
  <2>1. HasType(a, t)
    <3>1. CASE \E c \in Pending' : InRange(a, calls'[c]) /\ calls'[c].type = t
      BY <3>1, <1>3, Zenon DEF HasType, SameRanges
    <3>2. ASSUME NEW j \in Live', InRange(a, g_pmm_map'[j]), g_pmm_map'[j].type = t
          PROVE  HasType(a, t)
      <4>1. PICK k \in Live : /\ g_pmm_map'[j].type = g_pmm_map[k].type
                              /\ Within(g_pmm_map'[j], g_pmm_map[k])
        OBVIOUS
      <4>2. /\ g_pmm_map[k].base \in Nat /\ End(g_pmm_map[k]) \in Nat
        BY ScanBounds
      <4>3. g_pmm_map'[j].base \in Nat /\ End(g_pmm_map'[j]) \in Nat
        BY EntriesAfter
      <4>4. InRange(a, g_pmm_map[k])
        BY <4>1, <4>2, <4>3, <3>2 DEF InRange, Within
      <4> QED BY <4>1, <4>4, <3>2, Zenon DEF HasType
    <3> QED BY <1>5, <3>1, <3>2, Zenon DEF HasType
  <2> QED BY <2>1, <1>1
<1> QED
  BY <1>4, <1>5, Zenon DEF TypesKept

\* Such a step of the scan keeps what is known of the calls.
LEMMA ShrinkStack ==
  ASSUME TypeOK, TypeOK', Scanning, MapSorted, StackInv, GapInv, SameRanges,
         Overlap(top, cur), top.type > cur.type, calls' # <<>>,
         \A k \in Live : k # top.i => \E j \in Live' : g_pmm_map'[j] = g_pmm_map[k],
         \A j \in Live' : j < calls'[1].i => ~Overlap(calls'[1], g_pmm_map'[j])
  PROVE  StackInv' /\ GapInv'
<1>1. /\ ~top.force /\ top.length > 0 /\ 1 \in Pending /\ calls[1] = top
      /\ \A c \in Pending : /\ ~calls[c].force /\ calls[c].length > 0
                            /\ calls[c].type = top.type
                            /\ (c # 1 => calls[c].i = 0)
  BY HitFacts
<1>2. \A t \in Types : t \in Int
  BY DEF Types, FREE, BAD
<1>3. /\ ~calls'[1].force /\ calls'[1].length > 0
      /\ \A c \in Pending' : /\ ~calls'[c].force /\ calls'[c].length > 0
                             /\ calls'[c].type = calls'[1].type
                             /\ (c # 1 => calls'[c].i = 0)
  BY <1>1 DEF SameRanges
<1>4. StackInv'
  <2>1. calls'[1].length # 0
    BY <1>3
  <2>2. ApartBefore(top)'
    BY Zenon DEF ApartBefore, top
  <2> QED BY <1>3, <2>1, <2>2, Zenon DEF StackInv, top
<1>5. GapInv'
  <2>1. SUFFICES ASSUME NEW d \in Pending', NotStarted(d)'
                 PROVE  \E k \in Live' : Divides(k, d)'
    BY Zenon DEF GapInv
  <2>2. d \in Pending /\ NotStarted(d) /\ d \in Nat
    <3>1. d \in Pending /\ (d > 2 \/ d = 2) /\ d \in Nat
      BY <2>1, PendingFacts DEF NotStarted, SameRanges
    <3> QED BY <3>1, <1>1 DEF NotStarted
  <2>3. PICK k \in Live : Divides(k, d)
    BY <2>2, Zenon DEF GapInv
  <2>4. k # top.i
    <3>1. g_pmm_map[k].type >= top.type /\ g_pmm_map[k].type \in Types
      BY <2>2, <2>3, <1>1, ScanBounds DEF Divides
    <3> QED BY <3>1, <1>2, ScanBounds
  <2>5. PICK j \in Live' : g_pmm_map'[j] = g_pmm_map[k]
    BY <2>4
  <2>6. Divides(j, d)'
    <3>1. calls'[d].type = calls[d].type /\ calls'[d].base = calls[d].base
      BY <2>2 DEF SameRanges
    <3>2. ASSUME NEW e \in Pending', e < d PROVE End(calls'[e]) <= g_pmm_map'[j].base
      BY <3>2, <2>3, <2>5 DEF SameRanges, Divides
    <3> QED BY <3>1, <3>2, <2>3, <2>5 DEF Divides
  <2> QED BY <2>6
<1> QED
  BY <1>4, <1>5

\* The range covers one end of the entry and wins.
LEMMA TrimEntryOverlap ==
  ASSUME TypeOK, TypeOK', OverlapInv, TrimEntryEnd \/ TrimEntryStart,
         UNCHANGED <<todo, owned, snapshot>>
  PROVE  OverlapInv'
<1> USE DEF OverlapInv
<1>1. /\ Scanning /\ Override /\ NextEntry /\ g_pmm_map_size' = g_pmm_map_size
      /\ Overlap(top, cur)
  BY MeetsAll DEF TrimEntryEnd, TrimEntryStart
<1>2. ~top.force /\ top.length > 0 /\ top.type > cur.type
  BY <1>1, HitFacts DEF Override
<1>3. /\ SameRanges /\ calls' # <<>> /\ top' = calls'[1]
      /\ 1 \in Pending /\ calls[1] = top
      /\ calls'[1].i = top.i + 1
  BY <1>1, NextEntrySame
<1>4. /\ top.i \in Live /\ top.i \in Nat /\ top.i \in Slots /\ cur = g_pmm_map[top.i]
      /\ cur \in Entry /\ cur.base \in Nat /\ End(cur) \in Nat
      /\ top.base \in Nat /\ End(top) \in Nat /\ top.base < End(top)
      /\ \A k \in Live : k \in Nat /\ k \in Slots
  BY <1>1, <1>2, ScanBounds DEF End
<1> DEFINE e == g_pmm_map'[top.i]
<1>5. /\ Live' = Live
      /\ \A k \in Slots : k # top.i => g_pmm_map'[k] = g_pmm_map[k]
      /\ e.type = cur.type
      /\ \/ e.base = cur.base /\ End(e) = top.base /\ End(cur) <= End(top)
         \/ e.base = End(top) /\ End(e) = End(cur) /\ top.base <= cur.base
      /\ cur.base <= e.base /\ e.base < End(e) /\ End(e) <= End(cur) /\ e.length > 0
  <2>1. g_pmm_map \in [Slots -> Entry]
    BY DEF TypeOK, Slots
  <2>2. Live' = Live
    BY <1>1 DEF Live
  <2>3. CASE TrimEntryEnd
    <3>1. g_pmm_map' = [g_pmm_map EXCEPT ![top.i].length = top.base - cur.base]
          /\ OverlapStart /\ ~OverlapEnd
      BY <2>3 DEF TrimEntryEnd
    <3>2. e.base = cur.base /\ e.type = cur.type /\ e.length = top.base - cur.base
      BY <3>1, <2>1, <1>4 DEF Entry
    <3>3. \A k \in Slots : k # top.i => g_pmm_map'[k] = g_pmm_map[k]
      BY <3>1, <2>1
    <3> HIDE DEF e
    <3> QED BY <3>1, <3>2, <3>3, <2>2, <1>4, <1>1 DEF OverlapStart, OverlapEnd, Overlap, End
  <2>4. CASE TrimEntryStart
    <3>1. g_pmm_map' = [g_pmm_map EXCEPT ![top.i].base = End(top),
                                         ![top.i].length = End(cur) - End(top)]
          /\ ~OverlapStart /\ OverlapEnd
      BY <2>4 DEF TrimEntryStart
    <3>2. e.base = End(top) /\ e.type = cur.type /\ e.length = End(cur) - End(top)
      BY <3>1, <2>1, <1>4 DEF Entry
    <3>3. \A k \in Slots : k # top.i => g_pmm_map'[k] = g_pmm_map[k]
      BY <3>1, <2>1
    <3>4. End(e) = e.base + e.length
      BY DEF End
    <3> HIDE DEF e
    <3>5. End(e) = End(cur)
      BY <3>2, <3>4, <1>4
    <3>6. End(top) < End(cur) /\ cur.base < End(top) /\ top.base <= cur.base
      BY <3>1, <1>1, <1>4 DEF OverlapStart, OverlapEnd, Overlap
    <3> QED BY <3>2, <3>3, <3>5, <3>6, <2>2, <1>4
  <2> QED BY <2>3, <2>4
<1>6. \A k \in Live' : k \in Live /\ (k # top.i => g_pmm_map'[k] = g_pmm_map[k])
                       /\ Within(g_pmm_map'[k], g_pmm_map[k])
                       /\ g_pmm_map'[k].type = g_pmm_map[k].type
                       /\ g_pmm_map'[k].base < End(g_pmm_map'[k])
                       /\ g_pmm_map'[k].length > 0
  <2> SUFFICES ASSUME NEW k \in Live'
               PROVE  /\ k \in Live /\ (k # top.i => g_pmm_map'[k] = g_pmm_map[k])
                      /\ Within(g_pmm_map'[k], g_pmm_map[k])
                      /\ g_pmm_map'[k].type = g_pmm_map[k].type
                      /\ g_pmm_map'[k].base < End(g_pmm_map'[k])
                      /\ g_pmm_map'[k].length > 0
    OBVIOUS
  <2>1. k \in Live /\ k \in Slots
    BY <1>4, <1>5
  <2>2. CASE k # top.i
    BY <2>1, <2>2, <1>5, <1>1, ScanBounds DEF Within, MapSorted
  <2>3. CASE k = top.i
    BY <2>1, <2>3, <1>5, <1>4 DEF Within
  <2> QED BY <2>2, <2>3
<1>7. MapSorted'
  <2>1. ASSUME NEW j \in Live', NEW k \in Live', j < k
        PROVE  End(g_pmm_map'[j]) <= g_pmm_map'[k].base
    <3>1. /\ End(g_pmm_map[j]) <= g_pmm_map[k].base
          /\ g_pmm_map[k].base \in Nat /\ End(g_pmm_map[j]) \in Nat
          /\ g_pmm_map'[k].base \in Nat /\ End(g_pmm_map'[j]) \in Nat
      BY <2>1, <1>6, <1>1, ScanBounds, EntriesAfter DEF MapSorted
    <3> QED BY <3>1, <1>6 DEF Within
  <2> QED BY <2>1, <1>6 DEF MapSorted
<1>8. TypesKept
  <2>1. \A a \in Nat : InRange(a, cur) =>
            \/ InRange(a, top)
            \/ \E j \in Live' : InRange(a, g_pmm_map'[j]) /\ g_pmm_map'[j].type = cur.type
    <3>1. SUFFICES ASSUME NEW a \in Nat, InRange(a, cur), ~InRange(a, top)
                   PROVE  InRange(a, e)
      BY <1>4, <1>5
    <3>2. End(e) \in Nat /\ e.base \in Nat
      BY <1>4, <1>5, EntriesAfter
    <3> HIDE DEF e
    <3> QED BY <3>1, <3>2, <1>4, <1>5 DEF InRange
  <2>2. \A k \in Live : k # top.i => \E j \in Live' : g_pmm_map'[j] = g_pmm_map[k]
    BY <1>4, <1>5
  <2>3. \A j \in Live' : \E k \in Live : /\ g_pmm_map'[j].type = g_pmm_map[k].type
                                         /\ Within(g_pmm_map'[j], g_pmm_map[k])
    BY <1>6
  <2> QED BY <2>1, <2>2, <2>3, <1>1, <1>2, <1>3, ShrinkKept, Zenon
<1>9. StaleInv'
  <2>1. \A k \in Slots \ Live' : \E j \in Slots : g_pmm_map'[k] = g_pmm_map[j]
    BY <1>4, <1>5
  <2> QED BY <2>1, <1>8, StaleKept, Zenon
<1>10. StackInv' /\ GapInv'
  <2>1. \A j \in Live' : j < calls'[1].i => ~Overlap(calls'[1], g_pmm_map'[j])
    <3>1. SUFFICES ASSUME NEW j \in Live', j < top.i + 1 PROVE ~Overlap(top, g_pmm_map'[j])
      BY <1>3 DEF SameRanges, Overlap
    <3>2. CASE j = top.i
      BY <3>2, <1>4, <1>5 DEF Overlap
    <3>3. CASE j # top.i
      <4>1. ApartBefore(top)
        BY <1>1, Zenon DEF StackInv, Scanning
      <4>2. j < top.i /\ j \in Live
        BY <3>1, <3>3, <1>4, <1>5
      <4> QED BY <4>1, <4>2, <3>3, <1>6 DEF ApartBefore
    <3> QED BY <3>2, <3>3
  <2>2. \A k \in Live : k # top.i => \E j \in Live' : g_pmm_map'[j] = g_pmm_map[k]
    BY <1>4, <1>5
  <2> QED BY <2>1, <2>2, <1>1, <1>2, <1>3, ShrinkStack, Zenon
<1>11. KindInv'
  BY <1>8, KindStep
<1> QED
  BY <1>7, <1>9, <1>10, <1>11

\* The range covers the entry and wins.
LEMMA DropEntryOverlap ==
  ASSUME TypeOK, TypeOK', OverlapInv, DropEntry, UNCHANGED <<todo, owned, snapshot>>
  PROVE  OverlapInv'
<1> USE DEF OverlapInv
<1>1. Scanning /\ Override /\ calls' = calls /\ Overlap(top, cur) /\ (Covers \/ Equals)
  BY MeetsAll DEF DropEntry
<1>2. ~top.force /\ top.type > cur.type /\ 1 \in Pending /\ calls[1] = top
  BY <1>1, HitFacts DEF Override
<1>3. SameRanges /\ calls' # <<>>
  BY <1>1, Zenon DEF SameRanges, Pending, Scanning
<1>4. /\ top.i \in Live /\ top.i \in Nat /\ top.i \in Slots /\ cur = g_pmm_map[top.i]
      /\ cur.base \in Nat /\ End(cur) \in Nat
      /\ top.base \in Nat /\ End(top) \in Nat
      /\ \A k \in Live : k \in Nat
  BY <1>1, ScanBounds
<1> DEFINE old(k) == IF k < top.i THEN k ELSE k + 1
<1>5. /\ g_pmm_map_size \in Nat /\ PMM_MAP_MAX_ENTRIES \in Nat
      /\ g_pmm_map_size <= PMM_MAP_MAX_ENTRIES /\ top.i < g_pmm_map_size
      /\ g_pmm_map_size' = g_pmm_map_size - 1 /\ g_pmm_map' = Deleted(top.i)
  BY <1>1, LiveFacts DEF Scanning, DropEntry
<1>6. /\ \A k \in Live' : /\ k \in Nat /\ old(k) \in Live /\ old(k) # top.i
                          /\ g_pmm_map'[k] = g_pmm_map[old(k)]
      /\ \A k \in Live : k < top.i => k \in Live' /\ old(k) = k
      /\ \A k \in Live : k > top.i => k - 1 \in Live' /\ old(k - 1) = k
      /\ \A k \in Slots \ Live' : \E j \in Slots : g_pmm_map'[k] = g_pmm_map[j]
  BY <1>4, <1>5 DEF Deleted, Live, Slots
<1>7. \A k \in Live : k # top.i => \E j \in Live' : g_pmm_map'[j] = g_pmm_map[k]
  <2>1. SUFFICES ASSUME NEW k \in Live, k # top.i
                 PROVE  \E j \in Live' : g_pmm_map'[j] = g_pmm_map[k]
    OBVIOUS
  <2>2. CASE k < top.i
    BY <2>2, <1>6
  <2>3. CASE k > top.i
    BY <2>3, <1>6
  <2> QED BY <2>1, <2>2, <2>3, <1>4
<1>8. MapSorted'
  <2>1. \A k \in Live' : g_pmm_map'[k].length > 0
    BY <1>6 DEF MapSorted
  <2>2. ASSUME NEW j \in Live', NEW k \in Live', j < k
        PROVE  End(g_pmm_map'[j]) <= g_pmm_map'[k].base
    <3>1. old(j) \in Live /\ old(k) \in Live /\ old(j) < old(k)
      BY <2>2, <1>4, <1>6
    <3> QED BY <3>1, <1>6 DEF MapSorted
  <2> QED BY <2>1, <2>2 DEF MapSorted
<1>9. TypesKept
  <2>1. \A a \in Nat : InRange(a, cur) => InRange(a, top)
    <3>1. top.base <= cur.base /\ End(cur) <= End(top)
      BY <1>1, <1>4 DEF Covers, Equals, End
    <3> QED BY <3>1, <1>4 DEF InRange
  <2>2. \A j \in Live' : \E k \in Live : /\ g_pmm_map'[j].type = g_pmm_map[k].type
                                         /\ Within(g_pmm_map'[j], g_pmm_map[k])
    <3>1. ASSUME NEW j \in Live', NEW k \in Live, g_pmm_map'[j] = g_pmm_map[k]
          PROVE  Within(g_pmm_map'[j], g_pmm_map[k])
      <4>1. g_pmm_map[k].base \in Nat /\ End(g_pmm_map[k]) \in Nat
        BY <1>1, ScanBounds
      <4> QED BY <3>1, <4>1 DEF Within
    <3> QED BY <3>1, <1>6
  <2> QED BY <2>1, <2>2, <1>7, <1>1, <1>2, <1>3, ShrinkKept, Zenon
<1>10. StaleInv'
  BY <1>6, <1>9, StaleKept, Zenon
<1>11. StackInv' /\ GapInv'
  <2>1. \A j \in Live' : j < calls'[1].i => ~Overlap(calls'[1], g_pmm_map'[j])
    <3>1. SUFFICES ASSUME NEW j \in Live', j < top.i PROVE ~Overlap(top, g_pmm_map'[j])
      BY <1>1, <1>2
    <3>2. ApartBefore(top)
      BY <1>1, Zenon DEF StackInv, Scanning
    <3>3. j \in Live /\ g_pmm_map'[j] = g_pmm_map[j]
      BY <3>1, <1>6
    <3> QED BY <3>1, <3>2, <3>3 DEF ApartBefore
  <2> QED BY <2>1, <1>1, <1>2, <1>3, <1>7, ShrinkStack, Zenon
<1>12. KindInv'
  BY <1>9, KindStep
<1> QED
  BY <1>8, <1>10, <1>11, <1>12

\* A step that changes nothing but the index of the scan.
LEMMA SameTypes ==
  ASSUME UNCHANGED <<g_pmm_map, g_pmm_map_size>>, SameRanges
  PROVE  TypesKept
<1>1. \A t \in Types : t <= t
  BY DEF Types, FREE, BAD
<1>2. \A a : \A c \in Pending : InRange(a, calls'[c]) <=> InRange(a, calls[c])
  BY Zenon DEF SameRanges, InRange
<1>3. \A a, t : HasType(a, t)' <=> HasType(a, t)
  BY <1>2, Zenon DEF HasType, SameRanges, Live
<1> QED
  BY <1>1, <1>3, Zenon DEF TypesKept

\* The range has nothing of the entry.
LEMMA SkipEntryOverlap ==
  ASSUME TypeOK, TypeOK', OverlapInv, SkipEntry, ~SharesEdge,
         UNCHANGED <<todo, owned, snapshot>>
  PROVE  OverlapInv'
<1> USE DEF OverlapInv
<1>1. /\ Scanning /\ NextEntry /\ UNCHANGED <<g_pmm_map, g_pmm_map_size>> /\ Live' = Live
      /\ ~Overlap(top, cur)
  BY MeetsAll DEF SkipEntry, Live
<1>2. /\ SameRanges /\ calls' # <<>> /\ top' = calls'[1]
      /\ 1 \in Pending /\ calls[1] = top
      /\ calls'[1].i = top.i + 1 /\ calls # <<>>
  BY <1>1, NextEntrySame DEF Scanning
<1>3. /\ top.i \in Live /\ top.i \in Nat /\ cur = g_pmm_map[top.i]
      /\ \A k \in Live : k \in Nat
  BY <1>1, ScanBounds
<1>4. MapSorted'
  BY <1>1, Zenon DEF MapSorted
<1>5. TypesKept
  BY <1>1, <1>2, SameTypes
<1>6. StaleInv'
  BY <1>1, <1>5, StaleKept, Zenon
<1>7. KindInv'
  BY <1>5, KindStep
<1>8. \A c \in Pending : /\ Apart(calls[c]) => Apart(calls[c])'
                         /\ c # 1 => (ApartBefore(calls[c]) => ApartBefore(calls[c])')
  BY <1>1, <1>2, Zenon DEF Apart, ApartBefore, Overlap, SameRanges
<1>9. ApartBefore(calls[1])'
  <2>1. SUFFICES ASSUME NEW k \in Live, k < top.i + 1 PROVE ~Overlap(top, g_pmm_map[k])
    BY <1>1, <1>2 DEF ApartBefore, SameRanges, Overlap
  <2>2. CASE k = top.i
    BY <2>2, <1>1, <1>3
  <2>3. CASE k # top.i
    <3>1. ApartBefore(top)
      BY <1>2, Zenon DEF StackInv
    <3>2. k < top.i
      BY <2>1, <2>3, <1>3
    <3> QED BY <3>1, <3>2, Zenon DEF ApartBefore
  <2> QED BY <2>2, <2>3
<1>10. StackInv'
  <2>1. \A c \in Pending' : c # 1 => calls'[c].length > 0 /\ ~calls'[c].force
    BY <1>2, Zenon DEF StackInv, SameRanges
  <2>2. /\ calls'[1].force = top.force /\ calls'[1].length = top.length
        /\ calls'[1].base = top.base /\ calls'[1].type = top.type /\ Len(calls') = Len(calls)
        /\ Pending' = Pending /\ \A c \in Pending : calls'[c].type = calls[c].type
        /\ \A c \in Pending : c # 1 => calls'[c] = calls[c]
    BY <1>2 DEF SameRanges
  <2>3. calls'[1].force \/ calls'[1].length = 0 => Apart(calls[1])'
    BY <1>2, <1>8, <2>2, Zenon DEF StackInv
  <2>4. ~calls'[1].force => \A c \in Pending' : /\ calls'[c].type = calls'[1].type
                                                /\ (c # 1 => calls'[c].i = 0)
    BY <1>2, <2>2, Zenon DEF StackInv
  <2>5. ASSUME calls'[1].force
        PROVE  /\ calls'[1].length > 0 /\ Len(calls') >= 2
               /\ End(calls'[2]) = calls'[1].base
               /\ ApartBefore(calls[2])'
               /\ \A c \in Pending' : c > 2 => calls'[c].i = 0 /\ calls'[c].type = calls'[2].type
    <3>1. /\ top.length > 0 /\ Len(calls) >= 2
          /\ End(calls[2]) = top.base
          /\ ApartBefore(calls[2])
          /\ \A c \in Pending : c > 2 => calls[c].i = 0 /\ calls[c].type = calls[2].type
      BY <2>5, <2>2, <1>2, Zenon DEF StackInv
    <3>2. Len(calls) \in Nat
      BY <1>1, ScanFacts
    <3>3. 2 \in Pending /\ \A c \in Pending : c > 2 => c # 1
      BY <3>1, <3>2 DEF Pending
    <3>4. ApartBefore(calls[2])'
      BY <3>1, <3>3, <1>8
    <3> QED BY <3>1, <3>3, <3>4, <2>2, <1>1
  <2> QED BY <1>2, <1>9, <2>1, <2>3, <2>4, <2>5, Zenon DEF StackInv
<1>11. GapInv'
  <2>1. SUFFICES ASSUME NEW d \in Pending', NotStarted(d)'
                 PROVE  \E k \in Live' : Divides(k, d)'
    BY Zenon DEF GapInv
  <2>2. d \in Pending /\ NotStarted(d)
    BY <2>1, <1>2, Zenon DEF NotStarted, SameRanges
  <2>3. PICK k \in Live : Divides(k, d)
    BY <2>2, Zenon DEF GapInv
  <2>4. Divides(k, d)'
    BY <2>2, <2>3, <1>1, <1>2, Zenon DEF Divides, SameRanges
  <2> QED BY <2>4, <1>1
<1> QED
  BY <1>4, <1>6, <1>7, <1>10, <1>11

----------------------------------------------------------------------------
(* The steps with which a call returns.                                    *)

\* The call below has not started, or its scan has passed nothing that it meets.
LEMMA PopStack ==
  ASSUME TypeOK, StackInv, calls # <<>>, Return, \A k \in Live' : k \in Nat,
         top.force => \A j \in Live' : j < calls[2].i => ~Overlap(calls[2], g_pmm_map'[j])
  PROVE  StackInv'
<1>1. /\ Len(calls) \in Nat /\ Len(calls) >= 1
      /\ \A c \in Pending' : c + 1 \in Pending /\ calls'[c] = calls[c + 1]
      /\ Len(calls') = Len(calls) - 1
  BY ReturnFacts
<1>2. \A c \in Pending' : c \in Nat /\ c >= 1 /\ c + 1 # 1 /\ (c # 1 => c + 1 > 2)
  BY <1>1 DEF Pending
<1>3. \A c \in Pending' : calls'[c].length > 0 /\ ~calls'[c].force
  BY <1>1, <1>2, Zenon DEF StackInv
<1>4. ASSUME calls' # <<>>
      PROVE  1 \in Pending' /\ 2 \in Pending /\ calls'[1] = calls[2]
  <2>1. Len(calls') >= 1
    <3>1. calls' = Tail(calls) /\ calls \in Seq(Call) /\ Tail(calls) \in Seq(Call)
      BY StackFacts DEF Return, TypeOK
    <3>2. Len(calls') # 0
      BY <1>4, <3>1
    <3> QED BY <3>2, <1>1
  <2> QED BY <2>1, <1>1 DEF Pending
<1>5. ASSUME calls' # <<>>
      PROVE  /\ ~calls'[1].force /\ calls'[1].length # 0
             /\ \A c \in Pending' : /\ calls'[c].type = calls'[1].type
                                    /\ (c # 1 => calls'[c].i = 0)
  <2>1. ~calls'[1].force /\ calls'[1].length # 0
    BY <1>3, <1>4, <1>5
  <2>2. ASSUME NEW c \in Pending'
        PROVE  calls'[c].type = calls'[1].type /\ (c # 1 => calls'[c].i = 0)
    <3>1. c + 1 \in Pending /\ calls'[c] = calls[c + 1] /\ c + 1 # 1 /\ (c # 1 => c + 1 > 2)
      BY <1>1, <1>2
    <3>2. CASE ~top.force
      BY <3>1, <3>2, <1>4, <1>5, Zenon DEF StackInv
    <3>3. CASE top.force
      BY <3>1, <3>3, <1>4, <1>5, Zenon DEF StackInv
    <3> QED BY <3>2, <3>3
  <2> QED BY <2>1, <2>2
<1>6. ASSUME calls' # <<>> PROVE ApartBefore(calls[1])'
  <2>1. SUFFICES ASSUME NEW j \in Live', j < calls[2].i PROVE ~Overlap(calls[2], g_pmm_map'[j])
    BY <1>4, <1>6, Zenon DEF ApartBefore
  <2>2. CASE ~top.force
    <3>1. calls[2].i = 0
      BY <2>2, <1>4, <1>6 DEF StackInv
    <3> QED BY <2>1, <3>1
  <2> QED BY <2>1, <2>2
<1> QED
  BY <1>3, <1>5, <1>6, Zenon DEF StackInv, top

\* Each call that has not started still has an entry that divides it from the calls
\* above it.
LEMMA PopGap ==
  ASSUME TypeOK, MapSorted, StackInv, GapInv, calls # <<>>, Return,
         \A j \in Live : End(top) <= g_pmm_map[j].base =>
           \E m \in Live' :
              /\ g_pmm_map'[m].type = g_pmm_map[j].type
              /\ End(g_pmm_map'[m]) = End(g_pmm_map[j])
              /\ \/ g_pmm_map'[m].base = g_pmm_map[j].base
                 \/ g_pmm_map'[m].base = top.base /\ g_pmm_map[j].base = End(top)
  PROVE  GapInv'
<1>1. /\ Len(calls) \in Nat /\ Len(calls) >= 1
      /\ \A c \in Pending' : c + 1 \in Pending /\ calls'[c] = calls[c + 1]
  BY ReturnFacts
<1>2. \A c \in Pending' : c \in Nat /\ c >= 1 /\ c + 1 >= 2
  <2>1. Len(calls') = Len(calls) - 1
    BY ReturnFacts
  <2> QED BY <2>1, <1>1 DEF Pending
<1>3. 1 \in Pending /\ calls[1] = top /\ End(top) \in Nat /\ top.base \in Nat
  <2>1. 1 \in Pending
    BY <1>1 DEF Pending
  <2> QED BY <2>1, PendingFacts DEF top
<1>4. SUFFICES ASSUME NEW d \in Pending', NotStarted(d)'
               PROVE  \E k \in Live' : Divides(k, d)'
  BY Zenon DEF GapInv
<1>5. d \in Nat /\ d >= 2 /\ d + 1 \in Pending /\ d + 1 > 2 /\ NotStarted(d + 1)
  BY <1>1, <1>2, <1>4 DEF NotStarted
<1>6. PICK k \in Live : Divides(k, d + 1)
  BY <1>5, Zenon DEF GapInv
<1>7. /\ g_pmm_map[k].type >= calls[d + 1].type
      /\ End(g_pmm_map[k]) <= calls[d + 1].base
      /\ \A j \in Pending : j < d + 1 => End(calls[j]) <= g_pmm_map[k].base
      /\ End(top) <= g_pmm_map[k].base
  BY <1>3, <1>5, <1>6 DEF Divides
<1>8. PICK m \in Live' :
              /\ g_pmm_map'[m].type = g_pmm_map[k].type
              /\ End(g_pmm_map'[m]) = End(g_pmm_map[k])
              /\ \/ g_pmm_map'[m].base = g_pmm_map[k].base
                 \/ g_pmm_map'[m].base = top.base /\ g_pmm_map[k].base = End(top)
  BY <1>7
<1>9. ASSUME NEW j \in Pending', j < d
      PROVE  End(calls'[j]) <= g_pmm_map'[m].base
  <2>1. j + 1 \in Pending /\ calls'[j] = calls[j + 1] /\ j + 1 < d + 1 /\ j + 1 >= 2
        /\ j \in Nat
    <3>1. j + 1 \in Pending /\ calls'[j] = calls[j + 1]
      BY <1>1, <1>9, Zenon
    <3>2. j \in Nat /\ j + 1 >= 2
      BY <1>2, <1>9, Zenon
    <3>3. d \in Nat
      BY <1>5
    <3>4. j + 1 < d + 1
      BY <1>9, <3>2, <3>3
    <3> QED BY <3>1, <3>2, <3>4
  <2>2. End(calls[j + 1]) <= g_pmm_map[k].base
    BY <1>7, <2>1
  <2>3. CASE g_pmm_map'[m].base = g_pmm_map[k].base
    BY <2>1, <2>2, <2>3, Zenon
  <2>4. CASE g_pmm_map'[m].base = top.base /\ g_pmm_map[k].base = End(top)
    <3>1. CASE j + 1 = 2 /\ top.force
      <4>1. End(calls[2]) = top.base
        BY <3>1, Zenon DEF StackInv
      <4>2. End(calls[2]) \in Nat
        BY <2>1, <3>1, PendingFacts
      <4> QED BY <4>1, <4>2, <3>1, <2>1, <2>4, <1>3
    <3>2. CASE ~(j + 1 = 2 /\ top.force)
      <4>1. NotStarted(j + 1)
        BY <3>2, <2>1 DEF NotStarted
      <4>2. PICK n \in Live : Divides(n, j + 1)
        BY <4>1, <2>1, Zenon DEF GapInv
      <4>3. End(top) <= g_pmm_map[n].base /\ End(g_pmm_map[n]) <= calls[j + 1].base
        BY <4>2, <2>1, <1>3 DEF Divides
      <4>4. /\ g_pmm_map[n].base \in Nat /\ End(g_pmm_map[n]) \in Nat
            /\ g_pmm_map[n].base < End(g_pmm_map[n])
        BY LiveBounds
      <4>5. /\ calls[j + 1].base \in Nat /\ End(calls[j + 1]) \in Nat
            /\ calls[j + 1].base <= End(calls[j + 1])
        BY <2>1, PendingFacts
      <4> QED BY <4>3, <4>4, <4>5, <2>2, <2>4, <1>3
    <3> QED BY <3>1, <3>2
  <2> QED BY <1>8, <2>3, <2>4
<1>10. calls'[d] = calls[d + 1]
  BY <1>1, <1>4
<1>11. Divides(m, d)'
  BY <1>7, <1>8, <1>9, <1>10 DEF Divides
<1> QED
  BY <1>11

\* The map has what it had, and the memory of the range with its type or a higher one.
LEMMA PopTypes ==
  ASSUME TypeOK, TypeOK', calls # <<>>, Return,
         \A a \in Nat, j \in Live : InRange(a, g_pmm_map[j]) =>
            \E m \in Live' : InRange(a, g_pmm_map'[m]) /\ g_pmm_map'[m].type = g_pmm_map[j].type,
         \A a \in Nat : InRange(a, top) =>
            \E m \in Live' : InRange(a, g_pmm_map'[m]) /\ top.type <= g_pmm_map'[m].type,
         \A a \in Nat, m \in Live' : InRange(a, g_pmm_map'[m]) =>
            \/ InRange(a, top) /\ g_pmm_map'[m].type = top.type
            \/ \E j \in Live : InRange(a, g_pmm_map[j]) /\ g_pmm_map[j].type = g_pmm_map'[m].type
  PROVE  TypesKept
<1>1. /\ \A c \in Pending' : c + 1 \in Pending /\ calls'[c] = calls[c + 1]
      /\ \A c \in Pending : c # 1 => c - 1 \in Pending' /\ calls'[c - 1] = calls[c]
      /\ 1 \in Pending /\ calls[1] = top
  BY ReturnFacts DEF Pending, top
<1>2. \A t \in Types : t <= t
  BY DEF Types, FREE, BAD
<1>3. \A m \in Live' : g_pmm_map'[m].type \in Types
  BY EntriesAfter
<1>4. ASSUME NEW a \in Nat, NEW t \in Types, HasType(a, t)
      PROVE  \E u \in Types : t <= u /\ HasType(a, u)'
  <2>1. ASSUME NEW j \in Live, InRange(a, g_pmm_map[j]), g_pmm_map[j].type = t
        PROVE  HasType(a, t)'
    <3>1. PICK m \in Live' : InRange(a, g_pmm_map'[m]) /\ g_pmm_map'[m].type = t
      BY <2>1
    <3> QED BY <3>1, Zenon DEF HasType
  <2>2. ASSUME NEW c \in Pending, c # 1, InRange(a, calls[c]), calls[c].type = t
        PROVE  HasType(a, t)'
    <3>1. c - 1 \in Pending' /\ calls'[c - 1] = calls[c]
      BY <1>1, <2>2
    <3> QED BY <2>2, <3>1, Zenon DEF HasType
  <2>3. ASSUME InRange(a, top), top.type = t
        PROVE  \E u \in Types : t <= u /\ HasType(a, u)'
    <3>1. PICK m \in Live' : InRange(a, g_pmm_map'[m]) /\ t <= g_pmm_map'[m].type
      BY <2>3
    <3>2. PICK u \in Types : u = g_pmm_map'[m].type
      BY <1>3
    <3>3. HasType(a, u)'
      BY <3>1, <3>2, Zenon DEF HasType
    <3> QED BY <3>1, <3>2, <3>3
  <2> QED BY <1>1, <1>2, <1>4, <2>1, <2>2, <2>3, Zenon DEF HasType
<1>5. ASSUME NEW a \in Nat, NEW t \in Types, HasType(a, t)'
      PROVE  HasType(a, t)
  <2>1. ASSUME NEW m \in Live', InRange(a, g_pmm_map'[m]), g_pmm_map'[m].type = t
        PROVE  HasType(a, t)
    BY <1>1, <2>1, Zenon DEF HasType
  <2>2. ASSUME NEW c \in Pending', InRange(a, calls'[c]), calls'[c].type = t
        PROVE  HasType(a, t)
    BY <1>1, <2>2, Zenon DEF HasType
  <2> QED BY <1>5, <2>1, <2>2, Zenon DEF HasType
<1> QED
  BY <1>2, <1>4, <1>5, Zenon DEF TypesKept

\* The range is empty, or inside an entry that wins.
LEMMA RejectOverlap ==
  ASSUME TypeOK, TypeOK', OverlapInv, RejectRange \/ EmptyRange,
         UNCHANGED <<todo, owned, snapshot>>
  PROVE  OverlapInv'
<1> USE DEF OverlapInv
<1>1. /\ calls # <<>> /\ Return /\ UNCHANGED <<g_pmm_map, g_pmm_map_size>>
      /\ Live' = Live
  BY DEF RejectRange, EmptyRange, Live, Scanning, Scanned
<1>2. \A a \in Nat : InRange(a, top) =>
        \E m \in Live' : InRange(a, g_pmm_map'[m]) /\ top.type <= g_pmm_map'[m].type
  <2>1. CASE EmptyRange
    <3>1. top.length = 0 /\ top.base \in Nat /\ top.length \in Nat
      <4>1. top \in Call
        BY <1>1, StackFacts DEF TypeOK, top
      <4> QED BY <2>1, <4>1, CallFacts DEF EmptyRange
    <3> QED BY <3>1 DEF InRange, End
  <2>2. CASE RejectRange
    <3>1. Scanning /\ ~Override /\ ((OverlapStart /\ OverlapEnd) \/ Equals)
      BY <2>2 DEF RejectRange
    <3>2. /\ top.i \in Live /\ cur = g_pmm_map[top.i] /\ cur.base \in Nat /\ End(cur) \in Nat
          /\ top.base \in Nat /\ End(top) \in Nat /\ cur.type \in Types /\ top.type \in Types
      BY <3>1, ScanBounds
    <3>3. cur.base <= top.base /\ End(top) <= End(cur)
      BY <3>1, <3>2 DEF OverlapStart, OverlapEnd, Equals, End
    <3>4. top.type <= cur.type
      BY <3>1, <3>2 DEF Override, Types, FREE, BAD
    <3>5. \A a \in Nat : InRange(a, top) => InRange(a, cur)
      BY <3>2, <3>3 DEF InRange
    <3> QED BY <3>2, <3>4, <3>5, <1>1
  <2> QED BY <2>1, <2>2
<1>3. TypesKept
  BY <1>1, <1>2, PopTypes, Zenon
<1>4. ~top.force
  <2>1. CASE EmptyRange
    BY <2>1, <1>1 DEF EmptyRange, StackInv
  <2>2. CASE RejectRange
    BY <2>2 DEF RejectRange, Override
  <2> QED BY <2>1, <2>2
<1>5. MapSorted' /\ \A k \in Live' : k \in Nat
  BY <1>1, LiveFacts, Zenon DEF MapSorted
<1>6. StackInv'
  BY <1>1, <1>4, <1>5, PopStack, Zenon
<1>7. GapInv'
  BY <1>1, PopGap, Zenon
<1>8. StaleInv'
  BY <1>1, <1>3, StaleKept, Zenon
<1>9. KindInv'
  BY <1>3, KindStep
<1> QED
  BY <1>5, <1>6, <1>7, <1>8, <1>9

\* The place of a range whose scan has ended.
LEMMA PlaceOverlap ==
  ASSUME TypeOK, OverlapInv, Scanned, top.length # 0,
         NEW k \in 0..g_pmm_map_size, IsPlace(k)
  PROVE  PlaceAt(k)
<1> USE DEF OverlapInv
<1>1. calls # <<>> /\ top \in Call
  BY StackFacts DEF TypeOK, Scanned, top
<1>2. top.base \in Nat /\ End(top) \in Nat /\ top.base < End(top)
  BY <1>1 DEF Call, End
<1>3. \A j \in Live : /\ j \in Nat /\ g_pmm_map[j].base \in Nat /\ End(g_pmm_map[j]) \in Nat
                      /\ g_pmm_map[j].base < End(g_pmm_map[j])
  BY LiveBounds
<1>4. \A j \in Live : ~(top.base < End(g_pmm_map[j]) /\ g_pmm_map[j].base < End(top))
  <2>1. ApartBefore(top)
    BY <1>1, Zenon DEF StackInv
  <2>2. \A j \in Live : j < top.i
    BY <1>1, LiveFacts DEF Scanned, Call
  <2> QED BY <2>1, <2>2, Zenon DEF ApartBefore, Overlap
<1>5. ASSUME NEW j \in Live, j < k PROVE End(g_pmm_map[j]) <= top.base
  <2>1. g_pmm_map[j].base <= top.base
    BY <1>5, <1>3, LiveFacts DEF IsPlace
  <2> QED BY <2>1, <1>2, <1>3, <1>4
<1>6. ASSUME NEW j \in Live, j >= k PROVE End(top) <= g_pmm_map[j].base
  <2>1. k \in Live /\ k < g_pmm_map_size
    BY <1>6, <1>3, LiveFacts DEF Live
  <2>2. g_pmm_map[k].base > top.base
    BY <2>1 DEF IsPlace
  <2>3. j = k \/ End(g_pmm_map[k]) <= g_pmm_map[j].base
    <3>1. j = k \/ k < j
      BY <2>1, <1>6, <1>3
    <3> QED BY <3>1, <2>1, Zenon DEF MapSorted
  <2> QED BY <2>1, <2>2, <2>3, <1>2, <1>3, <1>4
<1> QED
  BY <1>1, <1>2, <1>5, <1>6 DEF PlaceAt

\* The entry that the range joins from below is in use: a call that has not started
\* has an entry in use below it.
LEMMA ExtendNextOverlap ==
  ASSUME TypeOK, OverlapInv, NEW k \in 0..g_pmm_map_size, ExtendNext(k), PlaceAt(k)
  PROVE  k \in Live
<1> USE DEF OverlapInv
<1>1. /\ calls # <<>> /\ k \in Slots /\ g_pmm_map[k].base = End(top)
  BY DEF ExtendNext, JoinsNext, Scanned
<1>2. /\ top \in Call /\ top.base \in Nat /\ End(top) \in Nat /\ top.base < End(top)
      /\ \A j \in Live : j < k => End(g_pmm_map[j]) <= top.base
  BY Bounds DEF PlaceAt
<1>3. SUFFICES ASSUME k \notin Live PROVE FALSE
  OBVIOUS
<1>4. \A j \in Live : j < k
  <2>1. g_pmm_map_size \in Nat
    BY LiveFacts
  <2> QED BY <2>1, <1>3 DEF Live
<1>5. \A j \in Live : /\ g_pmm_map[j].base \in Nat /\ End(g_pmm_map[j]) \in Nat
                      /\ g_pmm_map[j].base < End(g_pmm_map[j])
                      /\ End(g_pmm_map[j]) <= top.base
  BY <1>2, <1>4, LiveBounds
<1>6. Covered(End(top))
  <2>1. End(top) # 0
    BY <1>2
  <2> QED BY <1>1, <1>3, <2>1, Zenon DEF StaleInv
<1>7. \A j \in Live : ~InRange(End(top), g_pmm_map[j])
  BY <1>2, <1>5 DEF InRange
<1>8. ASSUME NEW c \in Pending PROVE ~InRange(End(top), calls[c])
  <2>1. c \in Nat /\ c >= 1 /\ 1 \in Pending
    <3>1. Len(calls) \in Nat
      BY <1>1, StackFacts DEF TypeOK
    <3> QED BY <3>1 DEF Pending
  <2>2. CASE c = 1
    <3>1. ~InRange(End(top), top)
      BY <1>2 DEF InRange
    <3> QED BY <2>2, <3>1 DEF top
  <2>3. CASE c = 2 /\ top.force
    <3>1. End(calls[2]) = top.base
      BY <2>3, <1>1, Zenon DEF StackInv
    <3> QED BY <2>3, <3>1, <1>2 DEF InRange
  <2>4. CASE c # 1 /\ ~(c = 2 /\ top.force)
    <3>1. NotStarted(c)
      BY <2>1, <2>4 DEF NotStarted
    <3>2. PICK n \in Live : Divides(n, c)
      BY <3>1, Zenon DEF GapInv
    <3>3. End(top) <= g_pmm_map[n].base
      BY <2>1, <2>4, <3>2 DEF Divides, top
    <3> QED BY <3>3, <1>2, <1>5
  <2> QED BY <2>2, <2>3, <2>4
<1> QED
  BY <1>6, <1>7, <1>8, Zenon DEF Covered

\* The range is put into the map.
LEMMA AbsorbOverlap ==
  ASSUME TypeOK, TypeOK', OverlapInv, NEW k \in 0..g_pmm_map_size,
         ExtendPrevious(k) \/ ExtendNext(k) \/ InsertRange(k),
         UNCHANGED <<todo, owned, snapshot>>
  PROVE  OverlapInv'
<1> USE DEF OverlapInv
<1>1. calls # <<>> /\ Return /\ PlaceAt(k)
  BY PlaceOverlap DEF ExtendPrevious, ExtendNext, InsertRange, Scanned
<1>2. Absorbs /\ AbsorbsInPlace
  BY <1>1, ExtendNextOverlap, ExtendPreviousAbsorbs, ExtendNextAbsorbs, InsertRangeAbsorbs
<1>3. /\ top \in Call /\ top.base \in Nat /\ End(top) \in Nat /\ top.base < End(top)
  BY <1>1, Bounds DEF PlaceAt
<1>4. \A j \in Live : g_pmm_map[j].base \in Nat /\ End(g_pmm_map[j]) \in Nat
                      /\ g_pmm_map[j].type \in Types
  BY LiveBounds, LiveFacts, EntryFacts
<1>5. \A m \in Live' : m \in Nat /\ g_pmm_map'[m].base \in Nat /\ End(g_pmm_map'[m]) \in Nat
  BY EntriesAfter
<1>6. MapSorted'
  BY <1>2 DEF Absorbs
<1>7. \A a \in Nat, j \in Live : InRange(a, g_pmm_map[j]) =>
        \E m \in Live' : InRange(a, g_pmm_map'[m]) /\ g_pmm_map'[m].type = g_pmm_map[j].type
  <2>1. SUFFICES ASSUME NEW a \in Nat, NEW j \in Live, InRange(a, g_pmm_map[j])
                 PROVE  \E m \in Live' : /\ InRange(a, g_pmm_map'[m])
                                         /\ g_pmm_map'[m].type = g_pmm_map[j].type
    OBVIOUS
  <2>2. PICK m \in Live' : /\ Within(g_pmm_map[j], g_pmm_map'[m])
                           /\ g_pmm_map'[m].type = g_pmm_map[j].type
    BY <1>2 DEF Absorbs
  <2> QED BY <2>1, <2>2, <1>4, <1>5 DEF Within, InRange
<1>8. \A a \in Nat : InRange(a, top) =>
        \E m \in Live' : InRange(a, g_pmm_map'[m]) /\ top.type = g_pmm_map'[m].type
  <2>1. PICK m \in Live' : Within(top, g_pmm_map'[m]) /\ g_pmm_map'[m].type = top.type
    BY <1>2 DEF Absorbs
  <2> QED BY <2>1, <1>3, <1>5 DEF Within, InRange
<1>9. ASSUME NEW a \in Nat, NEW m \in Live', InRange(a, g_pmm_map'[m])
      PROVE  \/ InRange(a, top) /\ g_pmm_map'[m].type = top.type
             \/ \E j \in Live : InRange(a, g_pmm_map[j]) /\ g_pmm_map[j].type = g_pmm_map'[m].type
  <2>1. ASSUME NEW n \in Live', InRange(a, g_pmm_map'[n]) PROVE n = m
    <3>1. n < m \/ m < n \/ n = m
      BY <1>5
    <3>2. /\ n < m => End(g_pmm_map'[n]) <= g_pmm_map'[m].base
          /\ m < n => End(g_pmm_map'[m]) <= g_pmm_map'[n].base
      BY <1>6 DEF MapSorted
    <3> QED BY <3>1, <3>2, <1>5, <1>9, <2>1 DEF InRange
  <2>2. CASE InRange(a, top)
    BY <2>1, <2>2, <1>8
  <2>3. ASSUME NEW j \in Live, InRange(a, g_pmm_map[j])
        PROVE  g_pmm_map[j].type = g_pmm_map'[m].type
    BY <2>1, <2>3, <1>7
  <2>4. CASE ~InRange(a, top) /\ \A j \in Live : ~InRange(a, g_pmm_map[j])
    <3>1. a + 1 <= top.base \/ End(top) <= a
      BY <2>4, <1>3 DEF InRange
    <3>2. \A j \in Live : a + 1 <= g_pmm_map[j].base \/ End(g_pmm_map[j]) <= a
      BY <2>4, <1>4 DEF InRange
    <3>3. a + 1 <= g_pmm_map'[m].base \/ End(g_pmm_map'[m]) <= a
      <4>1. a \in Nat /\ a + 1 \in Nat /\ a < a + 1
        OBVIOUS
      <4> QED BY <3>1, <3>2, <4>1, <1>2, Zenon DEF Absorbs
    <3> QED BY <3>3, <1>9, <1>5 DEF InRange
  <2> QED BY <2>2, <2>3, <2>4
<1>10. TypesKept
  <2>1. top.type <= top.type
    <3>1. top.type \in Types
      BY <1>3, CallFacts
    <3> QED BY <3>1 DEF Types, FREE, BAD
  <2>2. \A a \in Nat : InRange(a, top) =>
          \E m \in Live' : InRange(a, g_pmm_map'[m]) /\ top.type <= g_pmm_map'[m].type
    BY <2>1, <1>8
  <2> QED BY <2>2, <1>1, <1>7, <1>9, PopTypes, Zenon
<1>11. StaleInv'
  <2>1. \A m \in Slots \ Live' : \E j \in Slots : g_pmm_map'[m] = g_pmm_map[j]
    BY <1>2 DEF Absorbs
  <2> QED BY <2>1, <1>10, StaleKept, Zenon
<1>12. StackInv'
  <2>1. ASSUME top.force, NEW j \in Live', j < calls[2].i
        PROVE  ~Overlap(calls[2], g_pmm_map'[j])
    <3>1. /\ 2 \in Pending /\ End(calls[2]) = top.base /\ ApartBefore(calls[2])
          /\ calls[2].length > 0
      <4>1. Len(calls) \in Nat /\ Len(calls) >= 2 /\ End(calls[2]) = top.base
            /\ ApartBefore(calls[2])
        BY <1>1, <2>1, StackFacts DEF StackInv, TypeOK
      <4>2. 2 \in Pending
        BY <4>1 DEF Pending
      <4> QED BY <4>1, <4>2 DEF StackInv
    <3>2. /\ calls[2].base \in Nat /\ End(calls[2]) \in Nat /\ calls[2].base < End(calls[2])
      BY <3>1, PendingFacts
    <3>3. CASE j \in Live /\ g_pmm_map'[j] = g_pmm_map[j]
      BY <3>1, <3>3, <2>1, Zenon DEF ApartBefore
    <3>4. CASE top.base <= g_pmm_map'[j].base
      BY <3>1, <3>2, <3>4, <1>3, <1>5 DEF Overlap
    <3>5. CASE j \in Live /\ End(g_pmm_map[j]) = top.base
      <4>1. ~Overlap(calls[2], g_pmm_map[j]) /\ g_pmm_map[j].base < End(g_pmm_map[j])
        BY <3>1, <3>5, <2>1, LiveBounds DEF ApartBefore
      <4> QED BY <4>1, <3>1, <3>2, <3>5, <1>3, <1>4 DEF Overlap
    <3> QED BY <3>3, <3>4, <3>5, <1>2 DEF AbsorbsInPlace
  <2>2. \A j \in Live' : j \in Nat
    BY <1>5
  <2> QED BY <2>1, <2>2, <1>1, PopStack
<1>13. GapInv'
  BY <1>1, <1>2, PopGap, Zenon DEF AbsorbsInPlace
<1>14. KindInv'
  BY <1>10, KindStep
<1> QED
  BY <1>6, <1>11, <1>12, <1>13, <1>14

----------------------------------------------------------------------------
(* The steps in which the range gives way, and those that push a call.     *)

\* The stack when the call on top is changed.
LEMMA TopChanged ==
  ASSUME TypeOK, calls # <<>>, NEW y \in Call, calls' = [calls EXCEPT ![1] = y]
  PROVE  /\ Pending' = Pending /\ Len(calls) \in Nat /\ Len(calls) >= 1 /\ calls' # <<>>
         /\ 1 \in Pending /\ calls[1] = top /\ calls'[1] = y
         /\ \A c \in Pending : c # 1 => calls'[c] = calls[c]
<1>1. /\ calls \in Seq(Call) /\ Len(calls) \in Nat /\ Len(calls) >= 1
      /\ Len(calls') = Len(calls) /\ calls'[1] = y
      /\ \A c \in 2..Len(calls) : calls'[c] = calls[c]
  <2>1. calls \in Seq(Call)
    BY DEF TypeOK
  <2> QED BY <2>1, StackFacts
<1>2. 1 \in Pending /\ \A c \in Pending : c # 1 => c \in 2..Len(calls)
  BY <1>1 DEF Pending
<1>3. calls' # <<>> /\ Pending' = Pending
  BY <1>1 DEF Pending
<1>4. calls[1] = top
  BY DEF top
<1> QED
  BY <1>1, <1>2, <1>3, <1>4, Zenon

\* The stack when the call on top is changed and another one pushed.
LEMMA Pushed ==
  ASSUME TypeOK, calls # <<>>, NEW x \in Call, NEW y \in Call,
         calls' = <<x>> \o [calls EXCEPT ![1] = y]
  PROVE  /\ Len(calls) \in Nat /\ Len(calls) >= 1 /\ Len(calls') = Len(calls) + 1
         /\ Len(calls') >= 2 /\ calls' # <<>> /\ 1 \in Pending /\ calls[1] = top
         /\ 1 \in Pending' /\ calls'[1] = x /\ 2 \in Pending' /\ calls'[2] = y
         /\ \A c \in Pending' : c \in Nat /\ c >= 1
         /\ \A c \in Pending' : c # 1 /\ c # 2 =>
              c > 2 /\ c - 1 \in Pending /\ c - 1 # 1 /\ calls'[c] = calls[c - 1]
         /\ \A c \in Pending : c # 1 => c + 1 \in Pending' /\ calls'[c + 1] = calls[c]
<1> DEFINE s == [calls EXCEPT ![1] = y]
<1>1. /\ s \in Seq(Call) /\ Len(calls) \in Nat /\ Len(calls) >= 1
      /\ Len(s) = Len(calls) /\ s[1] = y
      /\ \A c \in 2..Len(calls) : s[c] = calls[c]
  <2>1. calls \in Seq(Call)
    BY DEF TypeOK
  <2> QED BY <2>1, StackFacts
<1>2. calls' = <<x>> \o s
  OBVIOUS
<1> HIDE DEF s
<1>3. /\ Len(calls') = Len(calls) + 1 /\ calls'[1] = x
      /\ \A j \in 1..Len(calls) : calls'[j + 1] = s[j]
  BY <1>1, <1>2, PushFacts
<1>4. 1 \in Pending /\ 1 \in Pending' /\ 2 \in Pending' /\ calls'[2] = y
  <2>1. 1 \in 1..Len(calls) /\ 1 + 1 = 2
    BY <1>1
  <2> QED BY <2>1, <1>1, <1>3 DEF Pending
<1>5. ASSUME NEW c \in Pending, c # 1
      PROVE  c + 1 \in Pending' /\ calls'[c + 1] = calls[c]
  BY <1>1, <1>3, <1>5 DEF Pending
<1>6. ASSUME NEW c \in Pending', c # 1, c # 2
      PROVE  c > 2 /\ c - 1 \in Pending /\ c - 1 # 1 /\ calls'[c] = calls[c - 1]
  <2>1. c - 1 \in Pending /\ c - 1 # 1 /\ (c - 1) + 1 = c /\ c > 2
    BY <1>1, <1>3, <1>6 DEF Pending
  <2> QED BY <1>5, <2>1
<1>7. \A c \in Pending' : c \in Nat /\ c >= 1
  BY <1>1, <1>3 DEF Pending
<1>8. calls' # <<>> /\ Len(calls') >= 2
  BY <1>1, <1>3
<1>9. calls[1] = top
  BY DEF top
<1> QED
  BY <1>1, <1>3, <1>4, <1>5, <1>6, <1>7, <1>8, <1>9, Zenon

\* The entry wins against a part of the range.
LEMMA TrimRangeOverlap ==
  ASSUME TypeOK, TypeOK', OverlapInv, TrimRangeStart \/ TrimRangeEnd,
         UNCHANGED <<todo, owned, snapshot>>
  PROVE  OverlapInv'
<1> USE DEF OverlapInv
<1>1. /\ Scanning /\ ~Override /\ UNCHANGED <<g_pmm_map, g_pmm_map_size>> /\ Live' = Live
      /\ Overlap(top, cur) /\ calls # <<>>
  BY MeetsAll DEF TrimRangeStart, TrimRangeEnd, Live, Scanning
<1>2. /\ ~top.force /\ top.length > 0
      /\ \A c \in Pending : /\ ~calls[c].force /\ calls[c].length > 0
                            /\ calls[c].type = top.type
                            /\ (c # 1 => calls[c].i = 0)
  BY <1>1, HitFacts
<1>3. /\ top.i \in Live /\ top.i \in Nat /\ cur = g_pmm_map[top.i]
      /\ cur.base \in Nat /\ End(cur) \in Nat /\ cur.base < End(cur) /\ cur.type \in Types
      /\ top \in Call /\ top.base \in Nat /\ End(top) \in Nat /\ top.base <= End(top)
      /\ top.type \in Types
      /\ \A k \in Live : /\ k \in Nat
                         /\ g_pmm_map[k].base \in Nat /\ End(g_pmm_map[k]) \in Nat
                         /\ g_pmm_map[k].base < End(g_pmm_map[k])
                         /\ (k < top.i => End(g_pmm_map[k]) <= cur.base)
                         /\ (k > top.i => End(cur) <= g_pmm_map[k].base)
  BY <1>1, ScanBounds
<1>4. top.type <= cur.type
  <2>1. ~(top.type > cur.type)
    BY <1>1 DEF Override
  <2>2. top.type \in Int /\ cur.type \in Int
    BY <1>3 DEF Types, FREE, BAD
  <2> QED BY <2>1, <2>2
<1>5. PICK y \in Call : /\ calls' = [calls EXCEPT ![1] = y]
                        /\ y.type = top.type /\ ~y.force /\ y.i = top.i + 1
                        /\ y.base \in Nat /\ End(y) \in Nat
                        /\ top.base <= y.base /\ y.base <= End(y) /\ End(y) <= End(top)
                        /\ \/ End(cur) = y.base /\ End(y) = End(top) /\ cur.base < top.base
                           \/ y.base = top.base /\ End(y) = cur.base /\ End(top) < End(cur)
  <2>1. CASE TrimRangeStart
    <3>1. OverlapStart /\ ~OverlapEnd
      BY <2>1 DEF TrimRangeStart
    <3>2. cur.base < top.base /\ top.base < End(cur) /\ End(cur) <= End(top)
      BY <1>3, <3>1 DEF OverlapStart, OverlapEnd
    <3> DEFINE y == [top EXCEPT !.base = End(cur), !.length = End(top) - End(cur), !.i = @ + 1]
    <3>3. calls' = [calls EXCEPT ![1] = y]
      BY <2>1 DEF TrimRangeStart, top
    <3>4. End(top) - End(cur) \in Nat /\ top.i + 1 \in Nat
      BY <1>3, <3>2
    <3>5. /\ y \in Call /\ y.type = top.type /\ y.force = top.force /\ y.i = top.i + 1
          /\ y.base = End(cur) /\ y.length = End(top) - End(cur)
      BY <1>3, <3>4 DEF Call
    <3>6. End(y) = y.base + y.length
      BY DEF End
    <3> HIDE DEF y
    <3>7. End(y) = End(top)
      BY <1>3, <3>5, <3>6
    <3>8. /\ y.base \in Nat /\ End(y) \in Nat /\ ~y.force
          /\ top.base <= y.base /\ y.base <= End(y) /\ End(y) <= End(top)
      BY <1>2, <1>3, <3>2, <3>5, <3>7
    <3> QED BY <3>2, <3>3, <3>5, <3>7, <3>8, Zenon
  <2>2. CASE TrimRangeEnd
    <3>1. ~OverlapStart /\ OverlapEnd
      BY <2>2 DEF TrimRangeEnd
    <3>2. top.base <= cur.base /\ cur.base < End(top) /\ End(top) < End(cur)
      BY <1>1, <1>3, <3>1 DEF OverlapStart, OverlapEnd, Overlap
    <3> DEFINE y == [top EXCEPT !.length = cur.base - top.base, !.i = @ + 1]
    <3>3. calls' = [calls EXCEPT ![1] = y]
      BY <2>2 DEF TrimRangeEnd, top
    <3>4. cur.base - top.base \in Nat /\ top.i + 1 \in Nat
      BY <1>3, <3>2
    <3>5. /\ y \in Call /\ y.type = top.type /\ y.force = top.force /\ y.i = top.i + 1
          /\ y.base = top.base /\ y.length = cur.base - top.base
      BY <1>3, <3>4 DEF Call
    <3>6. End(y) = y.base + y.length
      BY DEF End
    <3> HIDE DEF y
    <3>7. End(y) = cur.base
      BY <1>3, <3>5, <3>6
    <3>8. /\ y.base \in Nat /\ End(y) \in Nat /\ ~y.force
          /\ top.base <= y.base /\ y.base <= End(y) /\ End(y) <= End(top)
      BY <1>2, <1>3, <3>2, <3>5, <3>7
    <3> QED BY <3>2, <3>3, <3>5, <3>7, <3>8, Zenon
  <2> QED BY <2>1, <2>2
<1>6. /\ Pending' = Pending /\ calls' # <<>> /\ 1 \in Pending /\ calls[1] = top /\ calls'[1] = y
      /\ \A c \in Pending : c # 1 => calls'[c] = calls[c]
  BY <1>1, <1>5, TopChanged
<1>7. \A a \in Nat : /\ InRange(a, top) => InRange(a, y) \/ InRange(a, cur)
                     /\ InRange(a, y) => InRange(a, top)
  BY <1>3, <1>5 DEF InRange
<1>8. TypesKept
  <2>1. \A t \in Types : t <= t
    BY DEF Types, FREE, BAD
  <2>2. ASSUME NEW a \in Nat, NEW t \in Types, HasType(a, t)
        PROVE  \E u \in Types : t <= u /\ HasType(a, u)'
    <3>1. ASSUME NEW j \in Live, InRange(a, g_pmm_map[j]), g_pmm_map[j].type = t
          PROVE  HasType(a, t)'
      BY <1>1, <3>1, Zenon DEF HasType
    <3>2. ASSUME NEW c \in Pending, c # 1, InRange(a, calls[c]), calls[c].type = t
          PROVE  HasType(a, t)'
      BY <1>6, <3>2, Zenon DEF HasType
    <3>3. ASSUME InRange(a, top), top.type = t
          PROVE  \E u \in Types : t <= u /\ HasType(a, u)'
      <4>1. CASE InRange(a, y)
        <5>1. HasType(a, t)'
          BY <1>5, <1>6, <3>3, <4>1, Zenon DEF HasType
        <5> QED BY <2>1, <5>1
      <4>2. CASE InRange(a, cur)
        <5>1. PICK u \in Types : u = cur.type
          BY <1>3
        <5>2. HasType(a, u)'
          BY <1>1, <1>3, <4>2, <5>1, Zenon DEF HasType
        <5> QED BY <1>4, <3>3, <5>1, <5>2
      <4> QED BY <1>7, <3>3, <4>1, <4>2
    <3> QED BY <1>6, <2>1, <2>2, <3>1, <3>2, <3>3, Zenon DEF HasType
  <2>3. ASSUME NEW a \in Nat, NEW t \in Types, HasType(a, t)' PROVE HasType(a, t)
    <3>1. ASSUME NEW j \in Live', InRange(a, g_pmm_map'[j]), g_pmm_map'[j].type = t
          PROVE  HasType(a, t)
      BY <1>1, <3>1, Zenon DEF HasType
    <3>2. ASSUME NEW c \in Pending', InRange(a, calls'[c]), calls'[c].type = t
          PROVE  HasType(a, t)
      BY <1>5, <1>6, <1>7, <3>2, Zenon DEF HasType
    <3> QED BY <2>3, <3>1, <3>2, Zenon DEF HasType
  <2> QED BY <2>1, <2>2, <2>3, Zenon DEF TypesKept
<1>9. ASSUME NEW k \in Live, y.length = 0 \/ k < top.i + 1
      PROVE  ~Overlap(y, g_pmm_map[k])
  <2>1. y.length = 0 => y.base = End(y)
    BY <1>5 DEF End
  <2>2. k < top.i => ~Overlap(top, g_pmm_map[k])
    BY <1>1, Zenon DEF StackInv, ApartBefore
  <2>3. k < top.i \/ k = top.i \/ k > top.i
    BY <1>3
  <2> QED BY <1>3, <1>5, <1>9, <2>1, <2>2, <2>3 DEF Overlap
<1>10. MapSorted'
  BY <1>1, Zenon DEF MapSorted
<1>11. StackInv'
  <2>1. y.length = 0 => Apart(top)'
    BY <1>1, <1>6, <1>9 DEF Apart, top
  <2>2. ApartBefore(top)'
    BY <1>1, <1>5, <1>6, <1>9 DEF ApartBefore, top
  <2>3. \A c \in Pending' : c # 1 => calls'[c].length > 0 /\ ~calls'[c].force
    BY <1>2, <1>6
  <2>4. \A c \in Pending' : calls'[c].type = y.type /\ (c # 1 => calls'[c].i = 0)
    BY <1>2, <1>5, <1>6
  <2>5. top' = y
    BY <1>6 DEF top
  <2> QED BY <1>5, <2>1, <2>2, <2>3, <2>4, <2>5, Zenon DEF StackInv
<1>12. GapInv'
  <2>1. SUFFICES ASSUME NEW d \in Pending', NotStarted(d)'
                 PROVE  \E k \in Live' : Divides(k, d)'
    BY Zenon DEF GapInv
  <2>2. d \in Pending /\ d # 1 /\ NotStarted(d) /\ d \in Nat /\ d > 1
    BY <1>2, <1>6, <2>1, PendingFacts DEF NotStarted
  <2>3. PICK k \in Live : Divides(k, d)
    BY <2>2, Zenon DEF GapInv
  <2>4. ASSUME NEW j \in Pending, j < d PROVE End(calls'[j]) <= g_pmm_map[k].base
    <3>1. End(calls[j]) <= g_pmm_map[k].base /\ End(calls[j]) \in Nat /\ g_pmm_map[k].base \in Nat
      BY <1>3, <2>3, <2>4, PendingFacts DEF Divides
    <3>2. j = 1 => End(y) <= g_pmm_map[k].base
      BY <1>3, <1>5, <1>6, <3>1
    <3> QED BY <1>6, <3>1, <3>2
  <2>5. Divides(k, d)'
    BY <1>1, <1>6, <2>2, <2>3, <2>4 DEF Divides
  <2> QED BY <1>1, <2>5
<1>13. StaleInv'
  BY <1>1, <1>8, StaleKept, Zenon
<1>14. KindInv'
  BY <1>8, KindStep
<1> QED
  BY <1>10, <1>11, <1>12, <1>13, <1>14

\* The entry wins against the middle of the range: it divides the two parts.
LEMMA SplitRangeOverlap ==
  ASSUME TypeOK, TypeOK', OverlapInv, SplitRange, UNCHANGED <<todo, owned, snapshot>>
  PROVE  OverlapInv'
<1> USE DEF OverlapInv
<1>1. /\ Scanning /\ Covers /\ ~Override /\ UNCHANGED <<g_pmm_map, g_pmm_map_size>>
      /\ Live' = Live /\ Overlap(top, cur) /\ calls # <<>>
  BY MeetsAll DEF SplitRange, Live, Scanning
<1>2. /\ ~top.force /\ top.length > 0
      /\ \A c \in Pending : /\ ~calls[c].force /\ calls[c].length > 0
                            /\ calls[c].type = top.type
                            /\ (c # 1 => calls[c].i = 0)
  BY <1>1, HitFacts
<1>3. /\ top.i \in Live /\ cur = g_pmm_map[top.i]
      /\ cur.base \in Nat /\ End(cur) \in Nat /\ cur.base < End(cur) /\ cur.type \in Types
      /\ top \in Call /\ top.base \in Nat /\ End(top) \in Nat /\ top.type \in Types
      /\ \A k \in Live : k \in Nat /\ g_pmm_map[k].base \in Nat
  BY <1>1, ScanBounds
<1>4. top.type <= cur.type
  <2>1. ~(top.type > cur.type)
    BY <1>1 DEF Override
  <2>2. top.type \in Int /\ cur.type \in Int
    BY <1>3 DEF Types, FREE, BAD
  <2> QED BY <2>1, <2>2
<1>5. top.base < cur.base /\ End(cur) < End(top)
  BY <1>1, <1>3 DEF Covers
<1>6. PICK x \in Call, y \in Call :
         /\ calls' = <<x>> \o [calls EXCEPT ![1] = y]
         /\ x.type = top.type /\ ~x.force /\ x.i = 0 /\ x.length > 0
         /\ x.base = top.base /\ End(x) = cur.base
         /\ y.type = top.type /\ ~y.force /\ y.i = 0 /\ y.length > 0
         /\ y.base = End(cur) /\ End(y) = End(top)
  <2> DEFINE x == [top EXCEPT !.length = cur.base - top.base, !.i = 0]
             y == [top EXCEPT !.base = End(cur), !.length = End(top) - End(cur), !.i = 0]
  <2>1. calls' = <<x>> \o [calls EXCEPT ![1] = y]
    BY DEF SplitRange, top
  <2>2. cur.base - top.base \in Nat /\ End(top) - End(cur) \in Nat
    BY <1>3, <1>5
  <2>3. /\ x \in Call /\ x.type = top.type /\ x.force = top.force /\ x.i = 0
        /\ x.base = top.base /\ x.length = cur.base - top.base
    BY <1>3, <2>2 DEF Call
  <2>4. /\ y \in Call /\ y.type = top.type /\ y.force = top.force /\ y.i = 0
        /\ y.base = End(cur) /\ y.length = End(top) - End(cur)
    BY <1>3, <2>2 DEF Call
  <2>5. End(x) = x.base + x.length /\ End(y) = y.base + y.length
    BY DEF End
  <2> HIDE DEF x, y
  <2>6. End(x) = cur.base /\ End(y) = End(top) /\ x.length > 0 /\ y.length > 0
    BY <1>3, <1>5, <2>3, <2>4, <2>5
  <2> QED BY <1>2, <2>1, <2>3, <2>4, <2>6, Zenon
<1>7. /\ calls' # <<>> /\ 1 \in Pending /\ calls[1] = top
      /\ 1 \in Pending' /\ calls'[1] = x /\ 2 \in Pending' /\ calls'[2] = y
      /\ \A c \in Pending' : c \in Nat /\ c >= 1
      /\ \A c \in Pending' : c # 1 /\ c # 2 =>
           c > 2 /\ c - 1 \in Pending /\ c - 1 # 1 /\ calls'[c] = calls[c - 1]
      /\ \A c \in Pending : c # 1 => c + 1 \in Pending' /\ calls'[c + 1] = calls[c]
  BY <1>1, <1>6, Pushed
<1>8. \A a \in Nat : /\ InRange(a, top) => InRange(a, x) \/ InRange(a, y) \/ InRange(a, cur)
                     /\ InRange(a, x) \/ InRange(a, y) => InRange(a, top)
  BY <1>3, <1>5, <1>6 DEF InRange
<1>9. TypesKept
  <2>1. \A t \in Types : t <= t
    BY DEF Types, FREE, BAD
  <2>2. ASSUME NEW a \in Nat, NEW t \in Types, HasType(a, t)
        PROVE  \E u \in Types : t <= u /\ HasType(a, u)'
    <3>1. ASSUME NEW j \in Live, InRange(a, g_pmm_map[j]), g_pmm_map[j].type = t
          PROVE  HasType(a, t)'
      BY <1>1, <3>1, Zenon DEF HasType
    <3>2. ASSUME NEW c \in Pending, c # 1, InRange(a, calls[c]), calls[c].type = t
          PROVE  HasType(a, t)'
      <4>1. c + 1 \in Pending' /\ calls'[c + 1] = calls[c]
        BY <1>7, <3>2
      <4> QED BY <3>2, <4>1, Zenon DEF HasType
    <3>3. ASSUME InRange(a, top), top.type = t
          PROVE  \E u \in Types : t <= u /\ HasType(a, u)'
      <4>1. CASE InRange(a, x) \/ InRange(a, y)
        <5>1. HasType(a, t)'
          BY <1>6, <1>7, <3>3, <4>1, ZenonT(60) DEF HasType
        <5> QED BY <2>1, <5>1
      <4>2. CASE InRange(a, cur)
        <5>1. PICK u \in Types : u = cur.type
          BY <1>3
        <5>2. HasType(a, u)'
          BY <1>1, <1>3, <4>2, <5>1, Zenon DEF HasType
        <5> QED BY <1>4, <3>3, <5>1, <5>2
      <4> QED BY <1>8, <3>3, <4>1, <4>2
    <3> QED BY <1>7, <2>1, <2>2, <3>1, <3>2, <3>3, Zenon DEF HasType
  <2>3. ASSUME NEW a \in Nat, NEW t \in Types, HasType(a, t)' PROVE HasType(a, t)
    <3>1. ASSUME NEW j \in Live', InRange(a, g_pmm_map'[j]), g_pmm_map'[j].type = t
          PROVE  HasType(a, t)
      BY <1>1, <3>1, Zenon DEF HasType
    <3>2. ASSUME NEW c \in Pending', InRange(a, calls'[c]), calls'[c].type = t
          PROVE  HasType(a, t)
      <4>1. CASE c = 1 \/ c = 2
        <5>1. InRange(a, top) /\ top.type = t
          BY <1>6, <1>7, <1>8, <3>2, <4>1
        <5> QED BY <1>7, <5>1, Zenon DEF HasType
      <4>2. CASE c # 1 /\ c # 2
        BY <1>7, <3>2, <4>2, Zenon DEF HasType
      <4> QED BY <4>1, <4>2
    <3> QED BY <2>3, <3>1, <3>2, Zenon DEF HasType
  <2> QED BY <2>1, <2>2, <2>3, Zenon DEF TypesKept
<1>10. MapSorted'
  BY <1>1, Zenon DEF MapSorted
<1>11. StackInv'
  <2>1. top' = x /\ x.length # 0
    BY <1>6, <1>7 DEF top
  <2>2. ApartBefore(top)'
    BY <1>1, <1>3, <1>6, <2>1 DEF ApartBefore
  <2>3. ASSUME NEW c \in Pending'
        PROVE  /\ calls'[c].length > 0 /\ ~calls'[c].force
               /\ calls'[c].type = x.type /\ calls'[c].i = 0
    <3>1. CASE c = 1 \/ c = 2
      BY <1>6, <1>7, <3>1
    <3>2. CASE c # 1 /\ c # 2
      <4>1. c - 1 \in Pending /\ c - 1 # 1 /\ calls'[c] = calls[c - 1]
        BY <1>7, <3>2
      <4> QED BY <1>2, <1>6, <4>1, Zenon
    <3> QED BY <3>1, <3>2
  <2> QED BY <1>6, <2>1, <2>2, <2>3, Zenon DEF StackInv
<1>12. GapInv'
  <2>1. SUFFICES ASSUME NEW d \in Pending', NotStarted(d)'
                 PROVE  \E k \in Live' : Divides(k, d)'
    BY Zenon DEF GapInv
  <2>2. d \in Nat /\ d > 1
    BY <1>7, <2>1 DEF NotStarted
  <2>3. CASE d = 2
    <3>1. ASSUME NEW j \in Pending', j < d PROVE End(calls'[j]) <= cur.base
      <4>1. j = 1
        BY <1>7, <2>3, <3>1
      <4> QED BY <1>3, <1>6, <1>7, <4>1
    <3>2. cur.type >= y.type /\ End(cur) <= y.base
      BY <1>3, <1>4, <1>6 DEF Types, FREE, BAD
    <3>3. g_pmm_map'[top.i] = cur /\ top.i \in Live'
      BY <1>1, <1>3
    <3>4. PICK k \in Live' : g_pmm_map'[k] = cur
      BY <3>3
    <3>5. Divides(k, d)'
      BY <1>7, <2>3, <3>1, <3>2, <3>4 DEF Divides
    <3> QED BY <3>5
  <2>4. CASE d # 2
    <3>1. d - 1 \in Pending /\ d - 1 # 1 /\ calls'[d] = calls[d - 1] /\ d - 1 \in Nat /\ d - 1 >= 2
      <4>1. d # 1 /\ d # 2 /\ d - 1 \in Nat /\ d - 1 >= 2
        BY <2>2, <2>4
      <4> QED BY <1>7, <4>1
    <3>2. NotStarted(d - 1)
      <4>1. d - 1 > 2 \/ d - 1 = 2
        BY <2>2, <2>4
      <4> QED BY <1>2, <4>1, Zenon DEF NotStarted
    <3>3. PICK k \in Live : Divides(k, d - 1)
      BY <3>1, <3>2, Zenon DEF GapInv
    <3>4. \A j \in Pending : j < d - 1 => End(calls[j]) <= g_pmm_map[k].base
      BY <3>3 DEF Divides
    <3>5. End(top) <= g_pmm_map[k].base
      BY <1>7, <3>1, <3>4
    <3>6. ASSUME NEW j \in Pending', j < d PROVE End(calls'[j]) <= g_pmm_map[k].base
      <4>1. CASE j = 1 \/ j = 2
        <5>1. End(calls'[j]) = cur.base \/ End(calls'[j]) = End(top)
          BY <1>6, <1>7, <4>1
        <5>2. g_pmm_map[k].base \in Nat
          BY <1>3
        <5> QED BY <1>3, <1>5, <3>5, <5>1, <5>2
      <4>2. CASE j # 1 /\ j # 2
        <5>1. j - 1 \in Pending /\ calls'[j] = calls[j - 1] /\ j \in Nat
          BY <1>7, <4>2
        <5>2. j - 1 < d - 1
          BY <2>2, <3>6, <5>1
        <5> QED BY <3>4, <5>1, <5>2
      <4> QED BY <4>1, <4>2
    <3>7. Divides(k, d)'
      BY <1>1, <3>1, <3>3, <3>6 DEF Divides
    <3> QED BY <1>1, <3>7
  <2> QED BY <2>3, <2>4
<1>13. StaleInv'
  BY <1>1, <1>9, StaleKept, Zenon
<1>14. KindInv'
  BY <1>9, KindStep
<1> QED
  BY <1>10, <1>11, <1>12, <1>13, <1>14

\* The range wins the middle of the entry: the end of the entry is on its way back.
LEMMA SplitEntryOverlap ==
  ASSUME TypeOK, TypeOK', OverlapInv, SplitEntry, UNCHANGED <<todo, owned, snapshot>>
  PROVE  OverlapInv'
<1> USE DEF OverlapInv
<1>1. /\ Scanning /\ Override /\ OverlapStart /\ OverlapEnd /\ g_pmm_map_size' = g_pmm_map_size
      /\ Live' = Live /\ Overlap(top, cur) /\ calls # <<>>
  BY MeetsAll DEF SplitEntry, Live, Scanning
<1>2. /\ ~top.force /\ top.length > 0 /\ top.type > cur.type
      /\ \A c \in Pending : /\ ~calls[c].force /\ calls[c].length > 0
                            /\ calls[c].type = top.type
                            /\ (c # 1 => calls[c].i = 0)
  BY <1>1, HitFacts DEF Override
<1>3. /\ top.i \in Live /\ top.i \in Nat /\ top.i \in Slots /\ cur = g_pmm_map[top.i]
      /\ cur \in Entry
      /\ cur.base \in Nat /\ End(cur) \in Nat /\ cur.base < End(cur) /\ cur.type \in Types
      /\ top \in Call /\ top.base \in Nat /\ End(top) \in Nat /\ top.type \in Types
      /\ End(top) = top.base + top.length /\ top.length \in Nat
      /\ \A k \in Live : /\ k \in Nat /\ k \in Slots /\ g_pmm_map[k].type \in Types
                         /\ g_pmm_map[k].base \in Nat /\ End(g_pmm_map[k]) \in Nat
                         /\ g_pmm_map[k].base < End(g_pmm_map[k])
                         /\ (k < top.i => End(g_pmm_map[k]) <= cur.base)
                         /\ (k > top.i => End(cur) <= g_pmm_map[k].base)
  BY <1>1, ScanBounds
<1>4. cur.base < top.base /\ top.base < End(top) /\ End(top) < End(cur)
  <2>1. cur.base < top.base /\ End(top) < End(cur)
    BY <1>1 DEF OverlapStart, OverlapEnd
  <2> QED BY <1>2, <1>3, <2>1
<1> DEFINE e == g_pmm_map'[top.i]
<1>5. /\ \A k \in Slots : k # top.i => g_pmm_map'[k] = g_pmm_map[k]
      /\ e.type = cur.type /\ e.base = cur.base /\ End(e) = top.base /\ e.length > 0
  <2>1. g_pmm_map \in [Slots -> Entry]
    BY DEF TypeOK, Slots
  <2>2. g_pmm_map' = [g_pmm_map EXCEPT ![top.i].length = top.base - cur.base]
    BY DEF SplitEntry
  <2>3. e.base = cur.base /\ e.type = cur.type /\ e.length = top.base - cur.base
    BY <1>3, <2>1, <2>2 DEF Entry
  <2>4. End(e) = e.base + e.length
    BY DEF End
  <2>5. \A k \in Slots : k # top.i => g_pmm_map'[k] = g_pmm_map[k]
    BY <2>1, <2>2
  <2> HIDE DEF e
  <2> QED BY <1>3, <1>4, <2>3, <2>4, <2>5
<1> HIDE DEF e
<1>6. PICK x \in Call, y \in Call :
         /\ calls' = <<x>> \o [calls EXCEPT ![1] = y]
         /\ x.type = cur.type /\ x.force /\ x.i = 0 /\ x.length > 0
         /\ x.base = End(top) /\ End(x) = End(cur)
         /\ y.type = top.type /\ ~y.force /\ y.i = top.i + 1 /\ y.length > 0
         /\ y.base = top.base /\ End(y) = End(top)
  <2> DEFINE x == [base |-> End(top), length |-> End(cur) - End(top),
                   type |-> cur.type, force |-> TRUE, i |-> 0]
             y == [top EXCEPT !.i = @ + 1]
  <2>1. calls' = <<x>> \o [calls EXCEPT ![1] = y]
    BY DEF SplitEntry, top
  <2>2. End(cur) - End(top) \in Nat /\ End(cur) - End(top) > 0
    BY <1>3, <1>4
  <2>3. /\ x \in Call /\ x.type = cur.type /\ x.force /\ x.i = 0
        /\ x.base = End(top) /\ x.length = End(cur) - End(top)
    BY <1>3, <2>2 DEF Call
  <2>4. /\ y \in Call /\ y.type = top.type /\ y.force = top.force /\ y.i = top.i + 1
        /\ y.base = top.base /\ y.length = top.length
    BY <1>3 DEF Call
  <2>5. End(x) = x.base + x.length /\ End(y) = y.base + y.length
    BY DEF End
  <2> HIDE DEF x, y
  <2>6. End(x) = End(cur) /\ End(y) = End(top) /\ x.length > 0 /\ y.length > 0
    BY <1>2, <1>3, <2>2, <2>3, <2>4, <2>5
  <2> QED BY <1>2, <2>1, <2>3, <2>4, <2>6, Zenon
<1>7. /\ calls' # <<>> /\ 1 \in Pending /\ calls[1] = top
      /\ 1 \in Pending' /\ calls'[1] = x /\ 2 \in Pending' /\ calls'[2] = y
      /\ \A c \in Pending' : c \in Nat /\ c >= 1
      /\ \A c \in Pending' : c # 1 /\ c # 2 =>
           c > 2 /\ c - 1 \in Pending /\ c - 1 # 1 /\ calls'[c] = calls[c - 1]
      /\ \A c \in Pending : c # 1 => c + 1 \in Pending' /\ calls'[c + 1] = calls[c]
      /\ Len(calls') >= 2
  BY <1>1, <1>6, Pushed
<1>8. \A a \in Nat : InRange(a, cur) <=>
         InRange(a, e) \/ (InRange(a, top) /\ InRange(a, cur)) \/ InRange(a, x)
  BY <1>3, <1>4, <1>5, <1>6 DEF InRange
<1>9. \A a \in Nat : InRange(a, y) <=> InRange(a, top)
  BY <1>6, Zenon DEF InRange
<1>10. ASSUME NEW k \in Live
       PROVE  \/ k # top.i /\ g_pmm_map'[k] = g_pmm_map[k]
              \/ k = top.i /\ g_pmm_map'[k] = e
  BY <1>3, <1>5 DEF e
<1>11. TypesKept
  <2>1. \A t \in Types : t <= t
    BY DEF Types, FREE, BAD
  <2>2. ASSUME NEW a \in Nat, NEW t \in Types, HasType(a, t)
        PROVE  \E u \in Types : t <= u /\ HasType(a, u)'
    <3>1. ASSUME NEW j \in Live, InRange(a, g_pmm_map[j]), g_pmm_map[j].type = t
          PROVE  \E u \in Types : t <= u /\ HasType(a, u)'
      <4>1. CASE j # top.i \/ InRange(a, e)
        <5>1. InRange(a, g_pmm_map'[j]) /\ g_pmm_map'[j].type = t
          <6>1. CASE j # top.i
            BY <1>10, <3>1, <6>1
          <6>2. CASE j = top.i
            BY <1>3, <1>5, <1>10, <3>1, <4>1, <6>2
          <6> QED BY <6>1, <6>2
        <5>2. HasType(a, t)'
          BY <1>1, <5>1, Zenon DEF HasType
        <5> QED BY <2>1, <5>2
      <4>2. CASE j = top.i /\ ~InRange(a, e)
        <5>1. InRange(a, cur) /\ cur.type = t
          BY <1>3, <3>1, <4>2
        <5>2. CASE InRange(a, x)
          <6>1. HasType(a, t)'
            <7>1. InRange(a, calls'[1]) /\ calls'[1].type = t
              BY <1>6, <1>7, <5>1, <5>2
            <7> QED BY <1>7, <7>1, Zenon DEF HasType
          <6> QED BY <2>1, <6>1
        <5>3. CASE InRange(a, top)
          <6>1. PICK u \in Types : u = top.type
            BY <1>3
          <6>2. InRange(a, calls'[2]) /\ calls'[2].type = u
            BY <1>6, <1>7, <1>9, <5>3, <6>1
          <6>3. HasType(a, u)'
            BY <1>7, <6>2, Zenon DEF HasType
          <6>4. t <= u
            BY <1>2, <5>1, <6>1 DEF Types, FREE, BAD
          <6> QED BY <6>3, <6>4
        <5> QED BY <1>8, <4>2, <5>1, <5>2, <5>3
      <4> QED BY <4>1, <4>2
    <3>2. ASSUME NEW c \in Pending, c # 1, InRange(a, calls[c]), calls[c].type = t
          PROVE  HasType(a, t)'
      <4>1. c + 1 \in Pending' /\ calls'[c + 1] = calls[c]
        BY <1>7, <3>2
      <4> QED BY <3>2, <4>1, Zenon DEF HasType
    <3>3. ASSUME InRange(a, top), top.type = t
          PROVE  HasType(a, t)'
      <4>1. InRange(a, calls'[2]) /\ calls'[2].type = t
        BY <1>6, <1>7, <1>9, <3>3
      <4> QED BY <1>7, <4>1, Zenon DEF HasType
    <3> QED BY <1>7, <2>1, <2>2, <3>1, <3>2, <3>3, Zenon DEF HasType
  <2>3. ASSUME NEW a \in Nat, NEW t \in Types, HasType(a, t)' PROVE HasType(a, t)
    <3>0. InRange(a, e) \/ InRange(a, x) => HasType(a, cur.type)
      BY <1>3, <1>8, Zenon DEF HasType
    <3>1. ASSUME NEW j \in Live', InRange(a, g_pmm_map'[j]), g_pmm_map'[j].type = t
          PROVE  HasType(a, t)
      <4>1. CASE j # top.i
        <5>1. j \in Live /\ g_pmm_map'[j] = g_pmm_map[j]
          BY <1>1, <1>10, <4>1
        <5> QED BY <3>1, <5>1, Zenon DEF HasType
      <4>2. CASE j = top.i
        <5>1. InRange(a, e) /\ t = cur.type
          BY <1>1, <1>5, <1>10, <3>1, <4>2
        <5> QED BY <3>0, <5>1
      <4> QED BY <4>1, <4>2
    <3>2. ASSUME NEW c \in Pending', InRange(a, calls'[c]), calls'[c].type = t
          PROVE  HasType(a, t)
      <4>1. CASE c = 1
        BY <1>6, <1>7, <3>0, <3>2, <4>1
      <4>2. CASE c = 2
        <5>1. InRange(a, top) /\ top.type = t
          BY <1>6, <1>7, <1>9, <3>2, <4>2
        <5> QED BY <1>7, <5>1, Zenon DEF HasType
      <4>3. CASE c # 1 /\ c # 2
        BY <1>7, <3>2, <4>3, Zenon DEF HasType
      <4> QED BY <4>1, <4>2, <4>3
    <3> QED BY <2>3, <3>1, <3>2, Zenon DEF HasType
  <2> QED BY <2>1, <2>2, <2>3, Zenon DEF TypesKept
<1>12. MapSorted'
  <2>1. ASSUME NEW k \in Live' PROVE g_pmm_map'[k].length > 0
    BY <1>1, <1>5, <1>10 DEF MapSorted
  <2>2. ASSUME NEW j \in Live', NEW k \in Live', j < k
        PROVE  End(g_pmm_map'[j]) <= g_pmm_map'[k].base
    <3>1. j \in Live /\ k \in Live /\ End(g_pmm_map[j]) <= g_pmm_map[k].base
      BY <1>1, <2>2 DEF MapSorted
    <3>2. End(g_pmm_map'[j]) <= End(g_pmm_map[j]) /\ End(g_pmm_map'[j]) \in Nat
      <4>1. CASE j # top.i
        BY <1>3, <1>10, <3>1, <4>1
      <4>2. CASE j = top.i
        <5>1. End(g_pmm_map'[j]) = top.base /\ End(g_pmm_map[j]) = End(cur)
          BY <1>3, <1>5, <1>10, <3>1, <4>2
        <5> QED BY <1>3, <1>4, <5>1
      <4> QED BY <4>1, <4>2
    <3>3. g_pmm_map'[k].base = g_pmm_map[k].base
      BY <1>3, <1>5, <1>10, <3>1
    <3>4. End(g_pmm_map[j]) \in Nat /\ g_pmm_map[k].base \in Nat
      BY <1>3, <3>1
    <3> QED BY <3>1, <3>2, <3>3, <3>4
  <2> QED BY <2>1, <2>2 DEF MapSorted
<1>13. StackInv'
  <2>1. top' = x
    BY <1>7 DEF top
  <2>2. ASSUME NEW k \in Live' PROVE ~Overlap(x, g_pmm_map'[k])
    <3>1. CASE k # top.i
      <4>1. /\ k \in Live /\ g_pmm_map'[k] = g_pmm_map[k]
            /\ End(g_pmm_map[k]) <= cur.base \/ End(cur) <= g_pmm_map[k].base
        <5>1. k < top.i \/ k > top.i
          BY <1>1, <1>3, <3>1
        <5> QED BY <1>1, <1>3, <1>10, <3>1, <5>1
      <4>2. g_pmm_map[k].base \in Nat /\ End(g_pmm_map[k]) \in Nat
        BY <1>3, <4>1
      <4> QED BY <1>3, <1>4, <1>6, <4>1, <4>2 DEF Overlap
    <3>2. CASE k = top.i
      <4>1. g_pmm_map'[k] = e
        BY <1>3, <1>10, <3>2
      <4> QED BY <1>3, <1>4, <1>5, <1>6, <4>1 DEF Overlap
    <3> QED BY <3>1, <3>2
  <2>3. Apart(top)' /\ ApartBefore(top)'
    BY <2>1, <2>2, Zenon DEF Apart, ApartBefore
  <2>4. ASSUME NEW k \in Live', k < y.i PROVE ~Overlap(y, g_pmm_map'[k])
    <3>1. CASE k # top.i
      <4>1. k \in Live /\ g_pmm_map'[k] = g_pmm_map[k] /\ k < top.i
        BY <1>1, <1>3, <1>6, <1>10, <2>4, <3>1
      <4>2. ~Overlap(top, g_pmm_map[k])
        BY <1>1, <4>1, Zenon DEF StackInv, ApartBefore
      <4> QED BY <1>6, <4>1, <4>2 DEF Overlap
    <3>2. CASE k = top.i
      <4>1. g_pmm_map'[k] = e
        BY <1>3, <1>10, <3>2
      <4> QED BY <1>3, <1>5, <1>6, <4>1 DEF Overlap
    <3> QED BY <3>1, <3>2
  <2>5. ApartBefore(calls[2])'
    BY <1>7, <2>4, Zenon DEF ApartBefore
  <2>6. ASSUME NEW c \in Pending', c # 1
        PROVE  /\ calls'[c].length > 0 /\ ~calls'[c].force
               /\ calls'[c].type = y.type /\ (c > 2 => calls'[c].i = 0)
    <3>1. CASE c = 2
      BY <1>6, <1>7, <3>1
    <3>2. CASE c # 2
      <4>1. c - 1 \in Pending /\ c - 1 # 1 /\ calls'[c] = calls[c - 1]
        BY <1>7, <2>6, <3>2
      <4> QED BY <1>2, <1>6, <4>1, Zenon
    <3> QED BY <3>1, <3>2
  <2>7. \A c \in Pending' : c > 2 => c # 1
    BY <1>7
  <2>8. top'.force /\ top'.length > 0 /\ Len(calls') >= 2 /\ End(calls'[2]) = top'.base
    BY <1>6, <1>7, <2>1
  <2>9. \A c \in Pending' : c > 2 => calls'[c].i = 0 /\ calls'[c].type = calls'[2].type
    BY <1>7, <2>6, <2>7, Zenon
  <2> QED BY <2>3, <2>5, <2>6, <2>8, <2>9, Zenon DEF StackInv
<1>14. GapInv'
  <2>1. SUFFICES ASSUME NEW d \in Pending', NotStarted(d)'
                 PROVE  \E k \in Live' : Divides(k, d)'
    BY Zenon DEF GapInv
  <2>2. d \in Nat /\ d > 2 /\ d # 1 /\ d # 2
    <3>1. top' = x
      BY <1>7 DEF top
    <3>2. d > 2
      BY <1>6, <2>1, <3>1, Zenon DEF NotStarted
    <3> QED BY <1>7, <3>2
  <2>3. d - 1 \in Pending /\ calls'[d] = calls[d - 1]
    BY <1>7, <2>2
  <2>4. NotStarted(d - 1)
    <3>1. d - 1 > 2 \/ d - 1 = 2
      BY <2>2
    <3> QED BY <1>2, <3>1, Zenon DEF NotStarted
  <2>5. PICK k \in Live : Divides(k, d - 1)
    BY <2>3, <2>4, Zenon DEF GapInv
  <2>6. \A j \in Pending : j < d - 1 => End(calls[j]) <= g_pmm_map[k].base
    BY <2>5 DEF Divides
  <2>7. End(top) <= g_pmm_map[k].base
    <3>1. 1 < d - 1
      BY <2>2
    <3> QED BY <1>7, <2>6, <3>1
  <2>8. k # top.i
    <3>1. g_pmm_map[k].type >= top.type
      BY <1>2, <2>3, <2>5 DEF Divides
    <3>2. \A t \in Types : t \in Int
      BY DEF Types, FREE, BAD
    <3>3. g_pmm_map[k].type \in Int /\ top.type \in Int /\ cur.type \in Int
      BY <1>3, <3>2
    <3> QED BY <1>2, <1>3, <3>1, <3>3
  <2>9. End(cur) <= g_pmm_map[k].base /\ g_pmm_map[k].base \in Nat
    <3>1. k < top.i \/ k > top.i
      BY <1>3, <2>8
    <3>2. /\ g_pmm_map[k].base \in Nat /\ End(g_pmm_map[k]) \in Nat
          /\ g_pmm_map[k].base < End(g_pmm_map[k])
          /\ (k < top.i => End(g_pmm_map[k]) <= cur.base)
          /\ (k > top.i => End(cur) <= g_pmm_map[k].base)
      BY <1>3
    <3> QED BY <1>3, <1>4, <2>7, <3>1, <3>2
  <2>10. ASSUME NEW j \in Pending', j < d PROVE End(calls'[j]) <= g_pmm_map[k].base
    <3>1. CASE j = 1 \/ j = 2
      <4>1. End(calls'[j]) = End(cur) \/ End(calls'[j]) = End(top)
        BY <1>6, <1>7, <3>1
      <4> QED BY <2>7, <2>9, <4>1
    <3>2. CASE j # 1 /\ j # 2
      <4>1. j - 1 \in Pending /\ calls'[j] = calls[j - 1] /\ j \in Nat
        BY <1>7, <3>2
      <4>2. j - 1 < d - 1
        BY <2>2, <2>10, <4>1
      <4> QED BY <2>6, <4>1, <4>2
    <3> QED BY <3>1, <3>2
  <2>11. k \in Live' /\ g_pmm_map'[k] = g_pmm_map[k]
    BY <1>1, <1>10, <2>8
  <2>12. Divides(k, d)'
    BY <2>3, <2>5, <2>10, <2>11 DEF Divides
  <2> QED BY <2>11, <2>12
<1>15. StaleInv'
  <2>1. \A k \in Slots \ Live' : \E j \in Slots : g_pmm_map'[k] = g_pmm_map[j]
    BY <1>1, <1>3, <1>5
  <2> QED BY <1>11, <2>1, StaleKept, Zenon
<1>16. KindInv'
  BY <1>11, KindStep
<1> QED
  BY <1>12, <1>13, <1>14, <1>15, <1>16

\* Nothing that the invariant is about changes.
LEMMA OverlapSame ==
  ASSUME OverlapInv, UNCHANGED <<g_pmm_map, g_pmm_map_size, calls, todo>>
  PROVE  OverlapInv'
<1>1. Live' = Live /\ Pending' = Pending /\ top' = top /\ Reported' = Reported
  BY Zenon DEF Live, Pending, top, Reported
<1>2. MapSorted' /\ StaleInv' /\ KindInv'
  BY <1>1, Zenon DEF OverlapInv, MapSorted, StaleInv, Covered, KindInv, HasType
<1>3. StackInv'
  BY <1>1, Zenon DEF OverlapInv, StackInv, Apart, ApartBefore
<1>4. GapInv'
  BY <1>1, Zenon DEF OverlapInv, GapInv, NotStarted, Divides
<1> QED
  BY <1>2, <1>3, <1>4 DEF OverlapInv

\* Every step of pmm_map_set that does not skip an entry sharing an edge with the range.
LEMMA MapSetOverlap ==
  ASSUME TypeOK, TypeOK', OverlapInv, MapSet, ~(Scanning /\ SharesEdge)
  PROVE  OverlapInv'
<1>1. UNCHANGED <<todo, owned, snapshot>> /\ pmm_map_set
  BY DEF MapSet
<1>2. CASE SplitEntry
  BY <1>1, <1>2, SplitEntryOverlap
<1>3. CASE RejectRange \/ EmptyRange
  BY <1>1, <1>3, RejectOverlap
<1>4. CASE TrimEntryEnd \/ TrimEntryStart
  BY <1>1, <1>4, TrimEntryOverlap
<1>5. CASE TrimRangeStart \/ TrimRangeEnd
  BY <1>1, <1>5, TrimRangeOverlap
<1>6. CASE DropEntry
  BY <1>1, <1>6, DropEntryOverlap
<1>7. CASE SplitRange
  BY <1>1, <1>7, SplitRangeOverlap
<1>8. CASE SkipEntry
  <2>1. ~SharesEdge
    BY <1>8 DEF SkipEntry
  <2> QED BY <1>1, <1>8, <2>1, SkipEntryOverlap
<1>9. ASSUME NEW k \in 0..g_pmm_map_size, ExtendPrevious(k) \/ ExtendNext(k) \/ InsertRange(k)
      PROVE  OverlapInv'
  BY <1>1, <1>9, AbsorbOverlap
<1>10. ASSUME NEW k \in 0..g_pmm_map_size, MapOverflow(k) \/ ReadPastArray(k) PROVE OverlapInv'
  BY <1>1, <1>10, OverlapSame DEF MapOverflow, ReadPastArray
<1> QED
  BY <1>1, <1>2, <1>3, <1>4, <1>5, <1>6, <1>7, <1>8, <1>9, <1>10 DEF pmm_map_set

\* A range is reported.
LEMMA ReportOverlap ==
  ASSUME TypeOK, TypeOK', OverlapInv, NEW r \in todo, Report(r)
  PROVE  OverlapInv'
<1> USE DEF OverlapInv
<1>1. /\ r \in Entry /\ r.base \in Nat /\ r.length \in Nat /\ r.type \in Types
      /\ Reported' = Reported \cup {r}
      /\ UNCHANGED <<g_pmm_map, g_pmm_map_size>> /\ Live' = Live /\ calls = <<>>
  <2>1. r \in Regions /\ todo \subseteq Regions /\ todo' = todo \ {r}
    BY DEF TypeOK, Report
  <2>2. r \in Entry
    BY <2>1, RegionsAssumption
  <2>3. Reported' = Reported \cup {r}
    BY <2>1 DEF Reported
  <2> QED BY <2>2, <2>3, EntryFacts DEF Report, pmm_map_add, Idle, Live
<1>2. Pending = {}
  BY <1>1 DEF Pending
<1>3. \/ r.length = 0 /\ Pending' = {} /\ calls' = <<>>
      \/ /\ r.length > 0 /\ Pending' = {1} /\ calls' # <<>>
         /\ calls'[1] = [base |-> r.base, length |-> r.length, type |-> r.type,
                         force |-> FALSE, i |-> 0]
  <2>1. CASE r.length = 0
    <3>1. calls' = calls
      BY <2>1 DEF Report, pmm_map_add
    <3> QED BY <1>1, <1>2, <2>1, <3>1 DEF Pending
  <2>2. CASE r.length # 0
    <3>1. Enter(r.base, r.length, r.type, FALSE)
      BY <2>2 DEF Report, pmm_map_add
    <3>2. /\ Len(calls') = 1
          /\ calls'[1] = [base |-> r.base, length |-> r.length, type |-> r.type,
                          force |-> FALSE, i |-> 0]
      BY <1>1, <3>1, EnterFacts
    <3>3. Pending' = {1} /\ calls' # <<>> /\ r.length > 0
      BY <1>1, <2>2, <3>2 DEF Pending
    <3> QED BY <3>2, <3>3, Zenon
  <2> QED BY <2>1, <2>2
<1>4. \A a \in Nat, t \in Types : HasType(a, t)' <=> HasType(a, t) \/ (InRange(a, r) /\ t = r.type)
  <2>1. SUFFICES ASSUME NEW a \in Nat, NEW t \in Types
                 PROVE  HasType(a, t)' <=> HasType(a, t) \/ (InRange(a, r) /\ t = r.type)
    OBVIOUS
  <2>2. (\E k \in Live' : InRange(a, g_pmm_map'[k]) /\ g_pmm_map'[k].type = t) <=> HasType(a, t)
    BY <1>1, <1>2, Zenon DEF HasType
  <2>3. (\E c \in Pending' : InRange(a, calls'[c]) /\ calls'[c].type = t)
          <=> (InRange(a, r) /\ t = r.type)
    <3>1. CASE r.length = 0
      <4>1. ~InRange(a, r)
        BY <1>1, <3>1 DEF InRange, End
      <4> QED BY <1>3, <3>1, <4>1
    <3>2. CASE r.length # 0
      <4>1. Pending' = {1} /\ calls'[1].type = r.type /\ (InRange(a, calls'[1]) <=> InRange(a, r))
        BY <1>3, <3>2 DEF InRange, End
      <4> QED BY <4>1
    <3> QED BY <3>1, <3>2
  <2> QED BY <2>2, <2>3, Zenon DEF HasType
<1>5. KindInv'
  <2>1. \A t \in Types : t <= t
    BY DEF Types, FREE, BAD
  <2>2. ASSUME NEW a \in Nat, NEW t \in Types, HasType(a, t)'
        PROVE  \E q \in Reported' : InRange(a, q) /\ t <= q.type
    <3>1. CASE HasType(a, t)
      BY <1>1, <3>1, Zenon DEF KindInv
    <3>2. CASE InRange(a, r) /\ t = r.type
      BY <1>1, <2>1, <3>2
    <3> QED BY <1>4, <2>2, <3>1, <3>2
  <2>3. ASSUME NEW q \in Reported', NEW a \in Nat, InRange(a, q)
        PROVE  \E t \in Types : HasType(a, t)' /\ q.type <= t
    <3>1. CASE q \in Reported
      <4>1. PICK t \in Types : HasType(a, t) /\ q.type <= t
        BY <2>3, <3>1, Zenon DEF KindInv
      <4> QED BY <1>4, <4>1
    <3>2. CASE q = r
      <4>1. PICK t \in Types : t = r.type
        BY <1>1
      <4>2. HasType(a, t)'
        BY <1>4, <2>3, <3>2, <4>1
      <4> QED BY <2>1, <3>2, <4>1, <4>2
    <3> QED BY <1>1, <3>1, <3>2
  <2> QED BY <2>2, <2>3, Zenon DEF KindInv
<1>6. MapSorted'
  BY <1>1, Zenon DEF MapSorted
<1>7. StaleInv'
  <2>1. \A a : Covered(a) => Covered(a)'
    BY <1>1, <1>2, Zenon DEF Covered
  <2> QED BY <1>1, <2>1, Zenon DEF StaleInv
<1>8. StackInv'
  <2>1. CASE r.length = 0
    <3>1. Pending' = {} /\ calls' = <<>>
      BY <1>3, <2>1
    <3> QED BY <3>1, Zenon DEF StackInv
  <2>2. CASE r.length # 0
    <3>1. /\ Pending' = {1} /\ top' = calls'[1] /\ ~top'.force /\ top'.i = 0 /\ top'.length # 0
      BY <1>3, <2>2 DEF top
    <3>2. ApartBefore(top)'
      <4>1. \A k \in Live' : ~(k < 0)
        BY <1>1, LiveFacts
      <4> QED BY <3>1, <4>1, Zenon DEF ApartBefore
    <3>3. \A c \in Pending' : c = 1
      BY <3>1
    <3> QED BY <3>1, <3>2, <3>3, Zenon DEF StackInv
  <2> QED BY <2>1, <2>2
<1>9. GapInv'
  <2>1. \A d \in Pending' : ~NotStarted(d)'
    BY <1>3 DEF NotStarted
  <2> QED BY <2>1, Zenon DEF GapInv
<1> QED
  BY <1>5, <1>6, <1>7, <1>8, <1>9

----------------------------------------------------------------------------
(* The highest type wins.                                                  *)

LEMMA MaxIs ==
  ASSUME NEW S \in SUBSET Int, NEW m \in S, \A y \in S : m >= y
  PROVE  Max(S) = m
<1>1. \E x \in S : \A y \in S : x >= y
  OBVIOUS
<1>2. PICK x \in S : x = Max(S) /\ \A y \in S : x >= y
  BY <1>1 DEF Max
<1>3. x >= m /\ m >= x
  BY <1>2
<1> QED BY <1>2, <1>3

\* When no call is under way the map gives each address the highest type reported.
LEMMA KindReported ==
  ASSUME TypeOK, MapSorted, KindInv, calls = <<>>, NEW a \in Nat
  PROVE  MapKind(a) = ReportedKind(a)
<1> DEFINE S == {NONE} \cup {r.type : r \in {q \in Reported : InRange(a, q)}}
<1>1. \A t : HasType(a, t) <=> \E k \in Live : InRange(a, g_pmm_map[k]) /\ g_pmm_map[k].type = t
  <2>1. Pending = {}
    BY DEF Pending
  <2> QED BY <2>1 DEF HasType
<1>2. \A r \in Reported : r.type \in Types
  BY RegionsAssumption, EntryFacts DEF Reported
<1>3. \A t \in Types : t \in Int /\ t >= NONE
  BY DEF Types, FREE, BAD, NONE
<1>4. S \in SUBSET Int /\ NONE \in S /\ NONE \in Int
  BY <1>2, <1>3 DEF NONE
<1>5. \A y \in S : y = NONE \/ \E r \in Reported : InRange(a, r) /\ y = r.type
  OBVIOUS
<1>6. \A r \in Reported : InRange(a, r) => r.type \in S
  OBVIOUS
<1>7. ReportedKind(a) = Max(S)
  BY DEF ReportedKind
<1> HIDE DEF S
<1>8. CASE ~\E k \in Live : InRange(a, g_pmm_map[k])
  <2>1. \A r \in Reported : ~InRange(a, r)
    BY <1>1, <1>8, Zenon DEF KindInv
  <2>2. \A y \in S : NONE >= y
    BY <1>4, <1>5, <2>1
  <2>3. Max(S) = NONE
    BY <1>4, <2>2, MaxIs
  <2> QED BY <1>7, <1>8, <2>3 DEF MapKind
<1>9. CASE \E k \in Live : InRange(a, g_pmm_map[k])
  <2>1. PICK k \in Live : /\ InRange(a, g_pmm_map[k])
                          /\ MapKind(a) = g_pmm_map[k].type
    <3> DEFINE n == CHOOSE k \in Live : InRange(a, g_pmm_map[k])
    <3>1. n \in Live /\ InRange(a, g_pmm_map[n])
      BY <1>9
    <3>2. MapKind(a) = g_pmm_map[n].type
      BY <1>9 DEF MapKind
    <3> QED BY <3>1, <3>2
  <2>2. PICK t \in Types : t = MapKind(a)
    BY <2>1, LiveFacts, EntryFacts
  <2>3. HasType(a, t)
    BY <1>1, <2>1, <2>2
  <2>4. ASSUME NEW u, HasType(a, u) PROVE u = t
    <3>1. PICK j \in Live : InRange(a, g_pmm_map[j]) /\ g_pmm_map[j].type = u
      BY <1>1, <2>4
    <3>2. j = k
      <4>1. /\ g_pmm_map[j].base \in Nat /\ End(g_pmm_map[j]) \in Nat
            /\ g_pmm_map[k].base \in Nat /\ End(g_pmm_map[k]) \in Nat
            /\ (j # k => \/ End(g_pmm_map[j]) <= g_pmm_map[k].base
                         \/ End(g_pmm_map[k]) <= g_pmm_map[j].base)
        BY LiveBounds
      <4> QED BY <2>1, <3>1, <4>1 DEF InRange
    <3> QED BY <2>1, <2>2, <3>1, <3>2
  <2>5. \A r \in Reported : InRange(a, r) => r.type <= t
    BY <2>4, Zenon DEF KindInv
  <2>6. PICK r \in Reported : InRange(a, r) /\ t <= r.type
    BY <2>2, <2>3, Zenon DEF KindInv
  <2>7. t = r.type
    BY <1>2, <1>3, <2>5, <2>6
  <2>8. t \in S
    BY <1>6, <2>6, <2>7
  <2>9. \A y \in S : t >= y
    BY <1>3, <1>5, <2>2, <2>5, <1>2
  <2>10. Max(S) = t
    BY <1>4, <2>8, <2>9, MaxIs
  <2> QED BY <1>7, <2>2, <2>10
<1> QED
  BY <1>8, <1>9

\* TypeOK and, unless an entry was missed, the invariant.
OInv == TypeOK /\ edgeMissed \in BOOLEAN /\ (edgeMissed \/ OverlapInv)

LEMMA OverlapInitInv == OverlapInit => OInv
<1> SUFFICES ASSUME OverlapInit PROVE OInv
  OBVIOUS
<1>1. TypeOK
  BY TypeInit DEF OverlapInit
<1>2. /\ Live = {} /\ calls = <<>> /\ Pending = {} /\ Reported = {}
      /\ \A k \in Slots : g_pmm_map[k].base = 0
  BY DEF OverlapInit, Init, PmmInit, Live, Pending, Reported, ZeroEntry
<1>3. MapSorted /\ StaleInv /\ StackInv /\ GapInv
  BY <1>2, Zenon DEF MapSorted, StaleInv, StackInv, GapInv
<1>4. KindInv
  BY <1>2, Zenon DEF KindInv, HasType
<1> QED
  BY <1>1, <1>3, <1>4 DEF OverlapInit, OInv, OverlapInv

LEMMA OverlapStep ==
  ASSUME OInv, [OverlapNext]_overlapVars
  PROVE  OInv'
<1>1. TypeOK
  BY DEF OInv
<1>2. CASE UNCHANGED overlapVars
  <2>1. /\ UNCHANGED <<g_pmm_map, g_pmm_map_size, calls, panic, todo, owned, snapshot, edgeMissed>>
    BY <1>2 DEF overlapVars, vars
  <2>2. TypeOK'
    BY <1>1, <2>1, Zenon DEF TypeOK
  <2>3. OverlapInv => OverlapInv'
    BY <2>1, OverlapSame
  <2> QED BY <2>1, <2>2, <2>3, Zenon DEF OInv
<1>3. CASE OverlapNext
  <2>1. ReportNext \/ MapSet
    BY <1>3 DEF OverlapNext
  <2>2. edgeMissed' = (edgeMissed \/ (Scanning /\ SharesEdge))
    BY <1>3 DEF OverlapNext
  <2>3. TypeOK'
    <3>1. Next
      BY <2>1 DEF ReportNext, Next
    <3> QED BY <1>1, <3>1, TypeNext
  <2>4. edgeMissed' \in BOOLEAN
    BY <2>2, Zenon
  <2>5. ASSUME ~edgeMissed' PROVE OverlapInv'
    <3>1. ~edgeMissed /\ ~(Scanning /\ SharesEdge)
      BY <2>2, <2>5, Zenon
    <3>2. OverlapInv
      BY <3>1, Zenon DEF OInv
    <3>3. CASE MapSet
      BY <1>1, <2>3, <3>1, <3>2, <3>3, MapSetOverlap
    <3>4. CASE ReportNext
      <4>1. PICK r \in todo : Report(r)
        BY <3>4 DEF ReportNext
      <4> QED BY <1>1, <2>3, <3>2, <4>1, ReportOverlap
    <3> QED BY <2>1, <3>3, <3>4
  <2> QED BY <2>3, <2>4, <2>5, Zenon DEF OInv
<1> QED
  BY <1>2, <1>3

\* For any set of ranges, reported in any order, and at every step of pmm_map_set, the map
\* is sorted and disjoint, and whenever it is not being edited each address has the
\* highest type reported for it, unless the scan has met a range that covers an entry
\* and shares one edge with it (pmm.c:24-120).
THEOREM HighestTypeAlwaysWins == OverlapSpec => []HighestTypeWins
<1>1. OverlapInit => OInv
  BY OverlapInitInv
<1>2. OInv /\ [OverlapNext]_overlapVars => OInv'
  BY OverlapStep
<1>3. OInv => HighestTypeWins
  <2>1. SUFFICES ASSUME OInv, ~edgeMissed PROVE HighestTypeWins
    BY Zenon DEF HighestTypeWins
  <2>2. TypeOK /\ MapSorted /\ KindInv
    BY <2>1, Zenon DEF OInv, OverlapInv
  <2>3. ASSUME calls = <<>>, NEW a \in Address PROVE MapKind(a) = ReportedKind(a)
    <3>1. a \in Nat
      BY ClientsAssumption
    <3> QED BY <2>2, <2>3, <3>1, KindReported
  <2> QED BY <2>2, <2>3 DEF HighestTypeWins
<1> QED
  BY <1>1, <1>2, <1>3, PTL DEF OverlapSpec

----------------------------------------------------------------------------
(* The memory.                                                             *)

\* An allocation by any of the clients: the invariant of the map.
LEMMA AllocStrong ==
  ASSUME StrongInv, todo = {}, snapshot.state # "allocating",
         NEW n \in Nat, NEW t \in Types, t # FREE, NEW addr,
         pmm_alloc_ext(n, PTM_PAGE_GRANULARITY, t, addr), Own(addr, n, t),
         UNCHANGED <<todo, snapshot>>
  PROVE  StrongInv'
<1>0. TypeOK /\ MapInv /\ SnapshotInv /\ PhaseInv /\ KnownInv
  BY Zenon DEF StrongInv, IInv, MapInv
<1>1. addr \in Nat
  BY <1>0, AllocFacts
<1>2. PICK k \in Live : /\ g_pmm_map[k].type = FREE /\ g_pmm_map[k].base <= addr
                        /\ addr + Pages(n) <= End(g_pmm_map[k])
  BY <1>0, AllocFacts
<1>3. /\ Idle /\ Enter(addr, Pages(n), t, TRUE)
      /\ UNCHANGED <<g_pmm_map, g_pmm_map_size, panic>>
  BY DEF pmm_alloc_ext
<1>4. PICK o : o = Allocation(addr, n, t)
  OBVIOUS
<1>5. o \in AllocationType /\ (owned' = owned \/ owned' = owned \cup {o})
  BY <1>1, <1>4, AllocationFacts DEF Own
<1>6. TypeOK'
  <2>1. Pages(n) \in Nat
    BY PagesLength
  <2>2. calls' \in Seq(Call)
    BY <1>1, <1>3, <2>1, EnterFacts
  <2>3. owned' \subseteq AllocationType
    BY <1>0, <1>5 DEF TypeOK
  <2> QED BY <1>0, <1>3, <2>2, <2>3 DEF TypeOK
<1>7. MapInv'
  BY <1>0, <1>1, <1>2, <1>3, <1>6, AllocInv, ZenonT(60)
<1>8. SnapshotInv' /\ PhaseInv'
  BY <1>0, <1>5 DEF SnapshotInv, PhaseInv
<1>9. KnownInv'
  <2>1. (\A a \in Nat : Seen(a)' => Known(a)') /\ OwnedKnown(o)'
    BY <1>0, <1>1, <1>2, <1>3, <1>4, <1>6, AllocKnown
  <2>2. \A x \in owned' \ owned : OwnedKnown(x)'
    BY <1>5, <2>1
  <2> QED BY <1>0, <1>6, <2>1, <2>2, KnownStep
<1>10. RoomInv'
  BY Zenon DEF RoomInv
<1> QED BY <1>6, <1>7, <1>8, <1>9, <1>10, Zenon DEF StrongInv, IInv, MapInv

\* A step of the clients of PmmClients: the same.
LEMMA NextStrong ==
  ASSUME RegionsDisjoint, StrongInv, [Next]_vars
  PROVE  StrongInv'
<1>1. IInv /\ KnownInv /\ RoomInv
  BY Zenon DEF StrongInv
<1>2. IInv'
  BY <1>1, InvNext
<1>3. TypeOK /\ TypeOK'
  BY <1>1, <1>2, Zenon DEF IInv
<1>4. KnownInv'
  BY <1>1, <1>3, KnownNext
<1>5. RoomInv'
  BY <1>1, <1>3, RoomNext
<1> QED BY <1>2, <1>4, <1>5, Zenon DEF StrongInv

----------------------------------------------------------------------------
(* What the memory is used for.                                            *)

\* The same, for addresses one by one.
LEMMA TruthOf ==
  ASSUME TruthInv, NEW r \in Regions \ todo, NEW a \in Nat, InRange(a, r)
  PROVE  IF Taken(a) THEN r.type = FREE ELSE SettledKind(a) = r.type
<1>1. r.base \in Nat /\ End(r) \in Nat
  BY RegionsAssumption, Bounds
<1>2. a \in r.base..(End(r) - 1)
  BY <1>1 DEF InRange
<1> QED BY <1>2 DEF TruthInv

LEMMA TruthFrom ==
  ASSUME \A r \in Regions \ todo' : \A a \in Nat :
           InRange(a, r) => IF Taken(a)' THEN r.type = FREE ELSE SettledKind(a)' = r.type
  PROVE  TruthInv'
<1>1. SUFFICES ASSUME NEW r \in Regions \ todo', NEW a \in r.base..(End(r) - 1)
               PROVE  IF Taken(a)' THEN r.type = FREE ELSE SettledKind(a)' = r.type
  BY Zenon DEF TruthInv, End
<1>2. r.base \in Nat /\ End(r) \in Nat
  BY RegionsAssumption, Bounds
<1>3. a \in Nat /\ InRange(a, r)
  BY <1>2 DEF InRange
<1> QED BY <1>3

\* The types are kept, and so are the allocations.
LEMMA TruthKeeps ==
  ASSUME IInv, IInv', TruthInv, UNCHANGED <<todo, owned>>, \A a \in Nat : Keeps(a)
  PROVE  TruthInv'
<1>1. ASSUME NEW r \in Regions \ todo', NEW a \in Nat, InRange(a, r)
      PROVE  IF Taken(a)' THEN r.type = FREE ELSE SettledKind(a)' = r.type
  <2>1. IF Taken(a) THEN r.type = FREE ELSE SettledKind(a) = r.type
    BY <1>1, TruthOf
  <2>2. SettledKind(a)' = SettledKind(a)
    BY KeepsKind
  <2>3. Taken(a)' <=> Taken(a)
    BY DEF Taken
  <2> QED BY <2>1, <2>2, <2>3
<1> QED BY <1>1, TruthFrom

\* An allocation takes free memory.
LEMMA AllocTruth ==
  ASSUME IInv, IInv', TruthInv, Idle, NEW addr \in Nat, NEW n \in Nat, NEW t \in Types,
         Enter(addr, Pages(n), t, TRUE), Own(addr, n, t),
         UNCHANGED <<g_pmm_map, g_pmm_map_size, todo>>,
         NEW k \in Live, g_pmm_map[k].type = FREE, g_pmm_map[k].base <= addr,
         addr + Pages(n) <= End(g_pmm_map[k])
  PROVE  TruthInv'
<1>1. PICK l \in Nat : l = Pages(n)
  BY PagesLength
<1>2. PICK o : o = Allocation(addr, n, t)
  OBVIOUS
<1>3. o.base = addr /\ End(o) = addr + l
  BY <1>1, <1>2 DEF Allocation, End
<1>4. calls = <<>> /\ Enter(addr, l, t, TRUE) /\ TypeOK
  BY <1>1, Zenon DEF Idle, IInv
<1>5. ASSUME NEW r \in Regions \ todo', NEW a \in Nat, InRange(a, r)
      PROVE  IF Taken(a)' THEN r.type = FREE ELSE SettledKind(a)' = r.type
  <2>1. IF Taken(a) THEN r.type = FREE ELSE SettledKind(a) = r.type
    BY <1>5, TruthOf
  <2>2. SettledKind(a)' = IF addr <= a /\ a < addr + l THEN t ELSE SettledKind(a)
    BY <1>4, EnterKinds
  <2>3. CASE addr <= a /\ a < addr + l
    <3>1. g_pmm_map[k].base \in Nat /\ End(g_pmm_map[k]) \in Nat
      BY <1>4, LiveFacts, Bounds
    <3>2. InRange(a, g_pmm_map[k])
      BY <1>1, <2>3, <3>1 DEF InRange
    <3>3. SettledKind(a) = FREE
      BY <1>4, <3>2, EntryKind
    <3>4. r.type = FREE
      BY <2>1, <3>3
    <3>5. n # 0
      BY <1>1, <2>3, PageAssumption DEF Pages
    <3>6. o \in owned' /\ InRange(a, o)
      BY <1>2, <1>3, <2>3, <3>5 DEF Own, InRange
    <3>7. Taken(a)'
      BY <3>6, Zenon DEF Taken
    <3> QED BY <3>4, <3>7
  <2>4. CASE ~(addr <= a /\ a < addr + l)
    <3>1. ~InRange(a, o)
      BY <1>3, <2>4 DEF InRange
    <3>2. owned' = owned \/ owned' = owned \cup {o}
      BY <1>2 DEF Own
    <3>3. Taken(a)' <=> Taken(a)
      BY <3>1, <3>2 DEF Taken
    <3> QED BY <2>1, <2>2, <2>4, <3>3
  <2> QED BY <2>3, <2>4
<1> QED BY <1>5, TruthFrom

\* A free gives it back.
LEMMA FreeTruth ==
  ASSUME IInv, IInv', TruthInv, NEW o \in owned, pmm_free(o.base, o.pages),
         owned' = owned \ {o}, UNCHANGED todo
  PROVE  TruthInv'
<1>1. /\ o \in AllocationType /\ o.length = Pages(o.pages) /\ TypeOK
      /\ \A p \in owned : p = o \/ ~Overlap(p, o)
  BY Zenon DEF IInv, TypeOK, OwnedInv
<1>2. PICK b \in Nat : b = o.base
  BY <1>1 DEF AllocationType
<1>3. PICK l \in Nat : l = o.length
  BY <1>1 DEF AllocationType
<1>4. /\ Enter(b, l, FREE, TRUE) /\ calls = <<>>
      /\ UNCHANGED <<g_pmm_map, g_pmm_map_size>>
  BY <1>1, <1>2, <1>3, Zenon DEF pmm_free, Idle
<1>5. FREE \in Types /\ TRUE \in BOOLEAN
  BY DEF FREE, BAD, Types
<1>6. ASSUME NEW r \in Regions \ todo', NEW a \in Nat, InRange(a, r)
      PROVE  IF Taken(a)' THEN r.type = FREE ELSE SettledKind(a)' = r.type
  <2>1. IF Taken(a) THEN r.type = FREE ELSE SettledKind(a) = r.type
    BY <1>6, TruthOf
  <2>2. SettledKind(a)' = IF b <= a /\ a < b + l THEN FREE ELSE SettledKind(a)
    BY <1>4, <1>5, EnterKinds
  <2>3. InRange(a, o) <=> b <= a /\ a < b + l
    BY <1>2, <1>3 DEF InRange, End
  <2>4. CASE InRange(a, o)
    <3>1. Taken(a)
      BY <2>4, Zenon DEF Taken
    <3> QED BY <2>1, <2>2, <2>3, <2>4, <3>1
  <2>5. CASE ~InRange(a, o)
    <3>1. Taken(a)' <=> Taken(a)
      BY <2>5 DEF Taken
    <3> QED BY <2>1, <2>2, <2>3, <2>5, <3>1
  <2> QED BY <2>4, <2>5
<1> QED BY <1>6, TruthFrom

\* A report gives its own addresses their type.
LEMMA ReportTruth ==
  ASSUME RegionsDisjoint, IInv, IInv', TruthInv, NEW q \in todo, Report(q)
  PROVE  TruthInv'
<1>1. /\ calls = <<>> /\ todo' = todo \ {q}
      /\ UNCHANGED <<owned, g_pmm_map, g_pmm_map_size>>
      /\ IF q.length = 0 THEN UNCHANGED calls ELSE Enter(q.base, q.length, q.type, FALSE)
  BY DEF Report, pmm_map_add, Idle
<1>2. q \in Entry /\ q \in Regions /\ owned = {} /\ TypeOK
  <2>1. TypeOK /\ PhaseInv
    BY Zenon DEF IInv
  <2> QED BY <2>1, RegionsAssumption DEF TypeOK, PhaseInv
<1>3. /\ q.base \in Nat /\ q.length \in Nat /\ q.type \in Types /\ End(q) = q.base + q.length
  BY <1>2, EntryFacts DEF End
<1>4. ASSUME NEW a \in Nat
      PROVE  SettledKind(a)' = IF InRange(a, q) THEN q.type ELSE SettledKind(a)
  <2>1. CASE q.length = 0
    <3>1. ~InRange(a, q)
      BY <1>3, <2>1 DEF InRange
    <3>2. Keeps(a)
      BY <1>1, <2>1, KeepsSame
    <3> QED BY <3>1, <3>2, KeepsKind
  <2>2. CASE q.length # 0
    <3>1. SettledKind(a)' = IF q.base <= a /\ a < q.base + q.length THEN q.type
                            ELSE SettledKind(a)
      BY <1>1, <1>3, <2>2, EnterKinds
    <3> QED BY <1>3, <3>1 DEF InRange
  <2> QED BY <2>1, <2>2
<1>5. ASSUME NEW r \in Regions \ todo', NEW a \in Nat, InRange(a, r)
      PROVE  IF Taken(a)' THEN r.type = FREE ELSE SettledKind(a)' = r.type
  <2>1. ~Taken(a) /\ ~Taken(a)'
    BY <1>1, <1>2 DEF Taken
  <2>2. CASE r = q
    BY <1>4, <1>5, <2>1, <2>2
  <2>3. CASE r # q
    <3>1. r \in Regions \ todo /\ r \in Entry
      BY <1>1, <2>3, RegionsAssumption
    <3>2. SettledKind(a) = r.type
      BY <1>5, <2>1, <3>1, TruthOf
    <3>3. ~InRange(a, q)
      <4>1. r.length = 0 \/ q.length = 0 \/ ~Overlap(r, q)
        BY <1>2, <2>3, Zenon DEF RegionsDisjoint
      <4>2. r.base \in Nat /\ r.length \in Nat /\ End(r) = r.base + r.length
        BY <3>1, EntryFacts DEF End
      <4> QED BY <1>3, <1>5, <4>1, <4>2 DEF Overlap, InRange
    <3> QED BY <1>4, <2>1, <3>2, <3>3
  <2> QED BY <2>2, <2>3
<1> QED BY <1>5, TruthFrom

\* Both for the search that pmm_alloc_ext makes.
LEMMA AllocMemory ==
  ASSUME StrongInv, TruthInv, todo = {}, snapshot.state # "allocating",
         NEW n \in Nat, NEW t \in Types, t # FREE, NEW addr,
         pmm_alloc_ext(n, PTM_PAGE_GRANULARITY, t, addr), Own(addr, n, t),
         UNCHANGED <<todo, snapshot>>
  PROVE  StrongInv' /\ TruthInv'
<1>1. StrongInv'
  BY AllocStrong
<1>2. IInv /\ IInv' /\ TypeOK
  BY <1>1, Zenon DEF StrongInv, IInv
<1>3. addr \in Nat
  BY <1>2, AllocFacts
<1>4. PICK k \in Live : /\ g_pmm_map[k].type = FREE /\ g_pmm_map[k].base <= addr
                        /\ addr + Pages(n) <= End(g_pmm_map[k])
  BY <1>2, AllocFacts
<1>5. /\ Idle /\ Enter(addr, Pages(n), t, TRUE)
      /\ UNCHANGED <<g_pmm_map, g_pmm_map_size, todo>>
  BY DEF pmm_alloc_ext
<1>6. TruthInv'
  BY <1>2, <1>3, <1>4, <1>5, AllocTruth, ZenonT(60)
<1> QED BY <1>1, <1>6

\* The steps of PmmClients that occur here.
LEMMA ClientMemory ==
  ASSUME RegionsDisjoint, StrongInv, TruthInv,
         \/ \E r \in todo : Report(r)
         \/ \E n \in PageCounts, t \in AllocTypes : Allocate(n, t)
         \/ \E o \in owned : Release(o)
         \/ pmm_create_snapshot \/ FillSnapshot \/ pmm_free_snapshot \/ MapSet
         \/ UNCHANGED vars
  PROVE  StrongInv' /\ TruthInv'
<1>1. StrongInv'
  BY NextStrong, Zenon DEF Next
<1>2. IInv /\ IInv' /\ TypeOK /\ TypeOK' /\ MapInv
  BY <1>1, Zenon DEF StrongInv, IInv, MapInv
<1> SUFFICES TruthInv'
  BY <1>1
<1>3. ASSUME NEW n \in Nat, NEW t \in Types, NEW addr,
             pmm_alloc_ext(n, PTM_PAGE_GRANULARITY, t, addr), Own(addr, n, t), UNCHANGED todo
      PROVE  TruthInv'
  <2>1. addr \in Nat
    BY <1>2, <1>3, AllocFacts
  <2>2. PICK k \in Live : /\ g_pmm_map[k].type = FREE /\ g_pmm_map[k].base <= addr
                          /\ addr + Pages(n) <= End(g_pmm_map[k])
    BY <1>2, <1>3, AllocFacts
  <2>3. /\ Idle /\ Enter(addr, Pages(n), t, TRUE)
        /\ UNCHANGED <<g_pmm_map, g_pmm_map_size, todo>>
    BY <1>3 DEF pmm_alloc_ext
  <2> QED BY <1>2, <1>3, <2>1, <2>2, <2>3, AllocTruth, ZenonT(60)
<1>4. ASSUME NEW r \in todo, Report(r) PROVE TruthInv'
  BY <1>2, <1>4, ReportTruth
<1>5. ASSUME NEW n \in PageCounts, NEW t \in AllocTypes, Allocate(n, t) PROVE TruthInv'
  <2>1. n \in Nat /\ t \in Types
    BY ClientsAssumption
  <2>2. PICK addr : pmm_alloc_ext(n, PTM_PAGE_GRANULARITY, t, addr) /\ Own(addr, n, t)
    BY <1>5 DEF Allocate
  <2>3. todo' = todo
    BY <1>5 DEF Allocate
  <2> QED BY <1>3, <2>1, <2>2, <2>3
<1>6. ASSUME NEW o \in owned, Release(o) PROVE TruthInv'
  BY <1>2, <1>6, FreeTruth DEF Release
<1>7. CASE pmm_create_snapshot
  <2>1. PICK count \in Nat \ {0} : count = SnapshotSlots(g_pmm_map_size)
    BY <1>2, LiveFacts DEF SnapshotSlots
  <2>2. PICK n \in Nat : n = SnapshotPages(count)
    BY SnapshotPagesNat
  <2>3. PICK addr : /\ pmm_alloc_ext(n, PTM_PAGE_GRANULARITY, ALLOCATED, addr)
                    /\ Own(addr, n, ALLOCATED)
    BY <1>7, <2>1, <2>2 DEF pmm_create_snapshot
  <2>4. todo' = todo /\ ALLOCATED \in Types
    BY <1>7 DEF pmm_create_snapshot, ALLOCATED, FREE, BAD, Types
  <2> QED BY <1>3, <2>3, <2>4
<1>8. ASSUME UNCHANGED <<g_pmm_map, g_pmm_map_size, calls, todo, owned>> PROVE TruthInv'
  BY <1>2, <1>8, KeepsSame, TruthKeeps
<1>9. CASE FillSnapshot
  BY <1>8, <1>9 DEF FillSnapshot
<1>10. CASE pmm_free_snapshot
  <2>1. PICK o : o = snapshot.allocation
    OBVIOUS
  <2>2. /\ pmm_free(o.base, o.pages) /\ owned' = owned \ {o} /\ UNCHANGED todo
        /\ snapshot.state # "none"
    BY <1>10, <2>1 DEF pmm_free_snapshot
  <2>3. o \in owned
    BY <1>2, <2>1, <2>2, Zenon DEF IInv, SnapshotInv
  <2> QED BY <1>2, <2>2, <2>3, FreeTruth
<1>11. CASE MapSet
  <2>1. UNCHANGED <<todo, owned>> /\ pmm_map_set
    BY <1>11 DEF MapSet
  <2>2. \A a \in Nat : Keeps(a)
    BY <1>2, <2>1, MapSetKeeps
  <2> QED BY <1>2, <2>1, <2>2, TruthKeeps
<1>12. CASE UNCHANGED vars
  BY <1>8, <1>12 DEF vars
<1> QED
  BY <1>4, <1>5, <1>6, <1>7, <1>9, <1>10, <1>11, <1>12

\* Nothing happens once the machine has stopped.
LEMMA StepsRun ==
  ASSUME PublishNext
  PROVE  panic = "no"
<1>1. MapSet => panic = "no"
  BY DEF MapSet, pmm_map_set, SplitEntry, RejectRange, TrimEntryEnd, TrimRangeStart,
     TrimEntryStart, TrimRangeEnd, DropEntry, SplitRange, SkipEntry, EmptyRange,
     ExtendPrevious, ExtendNext, InsertRange, MapOverflow, ReadPastArray, Scanning, Scanned
<1>2. Before => panic = "no"
  BY DEF Before, Report, Allocate, pmm_map_add, pmm_alloc_ext, Idle
<1>3. ComputeHhdmSize => panic = "no"
  BY DEF ComputeHhdmSize, Idle
<1>4. Setup => panic = "no"
  BY DEF Setup, pagedb_setup, StartSnapshot, CopySnapshot, SkipSlot, BeginSegment, AtSlot,
     AllocateFrame, AllocateTable, AllocatePage, PageOutOfMemory, MapPage, UnalignedPage,
     FreeSnapshot, pmm_create_snapshot, FillSnapshot, pmm_free_snapshot, pmm_alloc_ext,
     pmm_alloc_ext_fails, pmm_free, Idle
<1>5. Publishing => panic = "no"
  BY DEF Publishing, SetupCores, CoresOutOfMemory, Start, AllocateBlock, BlockOutOfMemory,
     Retry, Copy, SettingUp, pmm_alloc_ext, pmm_alloc_ext_fails, pmm_free, Idle
<1> QED BY <1>1, <1>2, <1>3, <1>4, <1>5 DEF PublishNext, DbNext, Scan

----------------------------------------------------------------------------
(* The steps of the pre-kernel.                                            *)

\* The pages that are asked for are a number of pages, and enough.
LEMMA BlockPagesFacts ==
  ASSUME NEW n \in Nat
  PROVE  /\ BlockPages(n) \in Nat
         /\ Pages(BlockPages(n)) >= n * MM_ENTRY_SIZE
         /\ n > 0 => BlockPages(n) # 0
<1> DEFINE x == n * MM_ENTRY_SIZE
           g == PTM_PAGE_GRANULARITY
           q == (x + g - 1) \div g
<1>1. x \in Nat /\ (n > 0 => x > 0) /\ g \in Nat \ {0}
  BY EntrySizeAssumption, PageAssumption, SMT
<1> HIDE DEF x, g
<1>2. q \in Nat /\ x + g - 1 < g * (q + 1)
  BY <1>1, SMT
<1>3. (q * g) \div g = q
  BY <1>1, <1>2, SMT
<1> HIDE DEF q
<1>4. BlockPages(n) = q
  BY <1>3 DEF BlockPages, MATH_CEIL, x, g, q
<1>5. g * (q + 1) = q * g + g
  BY <1>1, <1>2, SMT
<1>6. Pages(q) = q * g /\ q * g \in Int
  BY <1>1, <1>2 DEF Pages, g
<1>7. q * g >= x
  BY <1>1, <1>2, <1>5, <1>6
<1>8. q = 0 => q * g = 0
  BY <1>1
<1> QED BY <1>1, <1>2, <1>4, <1>6, <1>7, <1>8 DEF x

\* No client can change the memory's invariants.
LEMMA MemoryStep ==
  ASSUME RegionsDisjoint, PublishInv, PublishNext, panic' = "no"
  PROVE  StrongInv' /\ TruthInv'
<1>0. StrongInv /\ TruthInv /\ PassInv /\ BlockInv
  BY StepsRun DEF PublishInv, MemoryInv
<1>1. ALLOCATED \in Types /\ ALLOCATED # FREE /\ USED \in Types /\ USED # FREE
  BY DEF ALLOCATED, USED, FREE, BAD, Types
<1>2. CASE Before
  <2>1. \/ \E r \in todo : Report(r)
        \/ \E n \in PageCounts, t \in AllocTypes : Allocate(n, t)
    BY <1>2 DEF Before
  <2> QED BY <1>0, <2>1, ClientMemory, Zenon
<1>3. CASE Scan
  BY <1>0, <1>3, ClientMemory, Zenon DEF Scan
<1>4. CASE UNCHANGED vars
  BY <1>0, <1>4, ClientMemory, Zenon
<1>5. CASE ComputeHhdmSize \/ SkipSlot \/ BeginSegment \/ MapPage \/ Start \/ Copy
  BY <1>4, <1>5, Zenon DEF ComputeHhdmSize, SkipSlot, BeginSegment, MapPage, Start, Copy
<1>6. CASE pagedb_setup
  <2>1. panic = "no" /\ "pagedb overlaps with kernel image" # "no"
    BY <1>6 DEF pagedb_setup
  <2>2. UNCHANGED vars
    BY <1>6, <2>1 DEF pagedb_setup, vars
  <2> QED BY <1>4, <2>2
<1>7. CASE StartSnapshot
  BY <1>0, <1>7, ClientMemory, Zenon DEF StartSnapshot
<1>8. CASE CopySnapshot
  BY <1>0, <1>8, ClientMemory, Zenon DEF CopySnapshot
<1>9. CASE FreeSnapshot
  BY <1>0, <1>9, ClientMemory, Zenon DEF FreeSnapshot
<1>10. CASE AllocateFrame \/ AllocateTable
  <2>0. PICK t \in {USED, ALLOCATED} : \E addr : AllocatePage(t, addr)
    BY <1>10 DEF AllocateFrame, AllocateTable
  <2>1. PICK addr : AllocatePage(t, addr)
    BY <2>0
  <2>2. todo = {} /\ snapshot.state # "allocating"
    BY <1>0, <1>10 DEF PassInv, Walking, AllocateFrame, AllocateTable
  <2>3. /\ pmm_alloc_ext(1, PTM_PAGE_GRANULARITY, t, addr) /\ Own(addr, 1, t)
        /\ UNCHANGED <<todo, snapshot>>
    BY <2>1 DEF AllocatePage
  <2>4. t \in Types /\ t # FREE /\ 1 \in Nat
    BY <1>1
  <2> QED BY <1>0, <2>2, <2>3, <2>4, AllocMemory
<1>11. CASE SetupCores
  <2>0. PICK n \in PageCounts, t \in AllocTypes :
           \E addr : pmm_alloc_ext(n, PTM_PAGE_GRANULARITY, t, addr) /\ Own(addr, n, t)
    BY <1>11 DEF SetupCores
  <2>1. PICK addr : pmm_alloc_ext(n, PTM_PAGE_GRANULARITY, t, addr) /\ Own(addr, n, t)
    BY <2>0
  <2>2. UNCHANGED <<todo, snapshot>> /\ stage \in {"done", "cores"}
    BY <1>11 DEF SetupCores, SettingUp
  <2>3. todo = {} /\ snapshot.state # "allocating"
    BY <1>0, <2>2 DEF PassInv, Walking
  <2>4. n \in Nat /\ t \in Types /\ t # FREE
    BY ClientsAssumption
  <2> QED BY <1>0, <2>1, <2>2, <2>3, <2>4, AllocMemory
<1>12. CASE AllocateBlock
  <2>1. PICK n \in Nat : n = BlockPages(pmm_map_entries)
    BY <1>0, BlockPagesFacts DEF BlockInv
  <2>2. PICK addr : pmm_alloc_ext(n, PTM_PAGE_GRANULARITY, ALLOCATED, addr) /\ Own(addr, n, ALLOCATED)
    BY <1>12, <2>1 DEF AllocateBlock
  <2>3. UNCHANGED <<todo, snapshot>> /\ stage = "allocate"
    BY <1>12 DEF AllocateBlock
  <2>4. todo = {} /\ snapshot.state # "allocating"
    BY <1>0, <2>3 DEF PassInv, Walking
  <2> QED BY <1>0, <1>1, <2>2, <2>3, <2>4, AllocMemory
<1>13. CASE Retry
  <2>1. /\ stage = "check" /\ pmm_free(block.base, block.pages) /\ owned' = owned \ {block}
        /\ UNCHANGED <<todo, snapshot>>
    BY <1>13 DEF Retry
  <2>2. todo = {} /\ snapshot.state = "none" /\ block \in owned
    BY <1>0, <2>1 DEF PassInv, Walking, BlockInv
  <2>3. Release(block)
    BY <2>1, <2>2 DEF Release, MayCall
  <2> QED BY <1>0, <2>2, <2>3, ClientMemory, Zenon
<1>14. CASE PageOutOfMemory \/ UnalignedPage \/ CoresOutOfMemory \/ BlockOutOfMemory
  <2>1. panic' = "out of memory" \/ panic' = "unaligned mapping"
    BY <1>14 DEF PageOutOfMemory, UnalignedPage, CoresOutOfMemory, BlockOutOfMemory,
       pmm_alloc_ext_fails
  <2> QED BY <2>1
<1> QED
  BY <1>2, <1>3, <1>5, <1>6, <1>7, <1>8, <1>9, <1>10, <1>11, <1>12, <1>13, <1>14
     DEF PublishNext, DbNext, Setup, Publishing

\* The parts that follow the stages of prekernel_init.
LEMMA StageStep ==
  ASSUME PublishInv, PublishNext, panic' = "no"
  PROVE  PassInv' /\ BlockInv'
<1>0. PassInv /\ BlockInv /\ TypeOK
  BY StepsRun DEF PublishInv, MemoryInv, StrongInv, IInv
<1>s. /\ snapshot \in SnapshotType /\ pmm_map_entries \in Nat /\ g_pmm_map_size \in Nat
      /\ NoSnapshot.state = "none"
  BY <1>0, LiveFacts DEF TypeOK, BlockInv, NoSnapshot
\* Steps of the memory manager or of the page database leave the block alone.
<1>1. ASSUME UNCHANGED publishVars, stage' \notin {"allocate", "check"} PROVE BlockInv'
  BY <1>1, <1>0 DEF BlockInv, publishVars
<1>2. CASE Before /\ UNCHANGED publishVars
  <2>1. /\ stage = "before" /\ stage' = "before" /\ snapshot' = snapshot
    BY <1>2 DEF Before, dbVars, Report, Allocate
  <2>2. BlockInv'
    BY <1>1, <1>2, <2>1
  <2> QED BY <1>0, <2>1, <2>2 DEF PassInv, Walking
<1>3. CASE Scan /\ UNCHANGED publishVars
  <2>1. UNCHANGED <<todo, owned, snapshot, stage>> /\ calls # <<>>
    BY <1>3 DEF Scan, MapSet, dbVars, pmm_map_set, SplitEntry, RejectRange, TrimEntryEnd,
       TrimRangeStart, TrimEntryStart, TrimRangeEnd, DropEntry, SplitRange, SkipEntry,
       EmptyRange, ExtendPrevious, ExtendNext, InsertRange, MapOverflow, ReadPastArray,
       Scanning, Scanned
  <2>2. UNCHANGED <<pmm_map_entries, block>>
    BY <1>3 DEF publishVars
  <2> QED BY <1>0, <2>1, <2>2 DEF PassInv, Walking, BlockInv
<1>4. CASE ComputeHhdmSize /\ UNCHANGED publishVars
  <2>1. /\ stage = "before" /\ stage' = "setup" /\ todo = {} /\ UNCHANGED <<todo, snapshot>>
    BY <1>4 DEF ComputeHhdmSize, vars
  <2>2. BlockInv'
    BY <1>1, <1>4, <2>1
  <2> QED BY <1>0, <2>1, <2>2 DEF PassInv, Walking
<1>5. CASE pagedb_setup /\ UNCHANGED publishVars
  <2>1. /\ stage = "setup" /\ stage' = "snapshot" /\ UNCHANGED <<todo, snapshot>>
    BY <1>5 DEF pagedb_setup
  <2>2. BlockInv'
    BY <1>1, <1>5, <2>1
  <2> QED BY <1>0, <2>1, <2>2 DEF PassInv, Walking
<1>6. CASE StartSnapshot /\ UNCHANGED publishVars
  <2>1. /\ stage = "snapshot" /\ stage' = "snapshot" /\ UNCHANGED todo
        /\ snapshot'.state = "allocating"
    BY <1>6 DEF StartSnapshot, dbVars, pmm_create_snapshot
  <2>2. BlockInv'
    BY <1>1, <1>6, <2>1
  <2> QED BY <1>0, <2>1, <2>2 DEF PassInv, Walking
<1>7. CASE CopySnapshot /\ UNCHANGED publishVars
  <2>1. /\ stage = "snapshot" /\ stage' = "slot" /\ UNCHANGED todo
        /\ snapshot.state = "allocating" /\ snapshot' = [snapshot EXCEPT !.state = "taken"]
    BY <1>7 DEF CopySnapshot, FillSnapshot
  <2>2. snapshot'.state = "taken"
    BY <1>s, <2>1 DEF SnapshotType
  <2>3. BlockInv'
    BY <1>1, <1>7, <2>1
  <2> QED BY <1>0, <2>1, <2>2, <2>3 DEF PassInv, Walking
<1>8. CASE (SkipSlot \/ BeginSegment \/ MapPage \/ AllocateFrame \/ AllocateTable)
           /\ UNCHANGED publishVars
  <2>1. Walking /\ Walking' /\ UNCHANGED <<todo, snapshot>>
    BY <1>8 DEF SkipSlot, BeginSegment, MapPage, AllocateFrame, AllocateTable, AtSlot,
       AllocatePage, vars, Walking
  <2>2. BlockInv'
    BY <1>1, <1>8, <2>1 DEF Walking
  <2> QED BY <1>0, <2>1, <2>2 DEF PassInv, Walking
<1>9. CASE FreeSnapshot /\ UNCHANGED publishVars
  <2>1. /\ stage = "slot" /\ stage' = "done" /\ UNCHANGED todo /\ snapshot' = NoSnapshot
    BY <1>9 DEF FreeSnapshot, pmm_free_snapshot
  <2>2. BlockInv'
    BY <1>1, <1>9, <2>1
  <2> QED BY <1>0, <1>s, <2>1, <2>2 DEF PassInv, Walking
<1>10. CASE SetupCores
  <2>1. /\ stage \in {"done", "cores"} /\ stage' = "cores"
        /\ UNCHANGED <<todo, snapshot, publishVars>>
    BY <1>10 DEF SetupCores, SettingUp
  <2>2. BlockInv'
    BY <1>1, <2>1
  <2> QED BY <1>0, <2>1, <2>2 DEF PassInv, Walking
<1>11. CASE Start
  <2>1. /\ stage = "cores" /\ stage' = "allocate" /\ UNCHANGED <<todo, snapshot>>
        /\ pmm_map_entries' = g_pmm_map_size /\ UNCHANGED <<g_pmm_map_size, calls>>
        /\ calls = <<>>
    BY <1>11 DEF Start, vars, Idle
  <2> QED BY <1>0, <1>s, <2>1 DEF PassInv, Walking, BlockInv
<1>12. CASE AllocateBlock
  <2>1. /\ stage = "allocate" /\ stage' = "check"
        /\ UNCHANGED <<todo, snapshot, pmm_map_entries>>
    BY <1>12 DEF AllocateBlock
  <2>2. PICK n \in Nat : n = BlockPages(pmm_map_entries)
    BY <1>s, BlockPagesFacts
  <2>3. PICK addr : Own(addr, n, ALLOCATED) /\ block' = Allocation(addr, n, ALLOCATED)
    BY <1>12, <2>2 DEF AllocateBlock
  <2>4. pmm_map_entries > 0
    <3>1. Live # {}
      BY <1>12 DEF AllocateBlock
    <3>2. g_pmm_map_size # 0
      BY <1>s, <3>1 DEF Live
    <3> QED BY <1>0, <2>1, <3>2 DEF BlockInv
  <2>5. n # 0
    BY <1>s, <2>2, <2>4, BlockPagesFacts
  <2>6. block' \in owned' /\ block'.length = Pages(n) /\ block'.type = ALLOCATED
    BY <2>3, <2>5 DEF Own, Allocation
  <2>7. BlockInv'
    BY <1>s, <2>1, <2>2, <2>4, <2>6 DEF BlockInv
  <2> QED BY <1>0, <2>1, <2>7 DEF PassInv, Walking
<1>13. CASE Retry
  <2>1. /\ stage = "check" /\ stage' = "allocate" /\ UNCHANGED <<todo, snapshot>>
        /\ pmm_map_entries' = pmm_map_entries * 2
    BY <1>13 DEF Retry, LargerSize
  <2>2. pmm_map_entries > 0
    BY <1>0, <2>1 DEF BlockInv
  <2>3. pmm_map_entries' \in Nat /\ pmm_map_entries' > 0
    BY <1>s, <2>1, <2>2
  <2> QED BY <1>0, <2>1, <2>3 DEF PassInv, Walking, BlockInv
<1>14. CASE Copy
  <2>1. /\ stage = "check" /\ stage' = "published"
        /\ UNCHANGED <<todo, snapshot, pmm_map_entries>>
    BY <1>14 DEF Copy, vars
  <2> QED BY <1>0, <1>s, <2>1 DEF PassInv, Walking, BlockInv
<1>15. CASE PageOutOfMemory \/ UnalignedPage \/ CoresOutOfMemory \/ BlockOutOfMemory
  <2>1. panic' = "out of memory" \/ panic' = "unaligned mapping"
    BY <1>15 DEF PageOutOfMemory, UnalignedPage, CoresOutOfMemory, BlockOutOfMemory,
       pmm_alloc_ext_fails
  <2> QED BY <2>1
<1> QED
  BY <1>2, <1>3, <1>4, <1>5, <1>6, <1>7, <1>8, <1>9, <1>10, <1>11, <1>12, <1>13, <1>14, <1>15
     DEF PublishNext, DbNext, Setup, Publishing

----------------------------------------------------------------------------
(* What the kernel is told.                                                *)

\* Between calls an address of memory is in an entry of the type that it has.
LEMMA EntryOf ==
  ASSUME RegionsDisjoint, StrongInv, TruthInv, todo = {}, calls = <<>>,
         NEW a \in Nat, NEW r \in Regions, InRange(a, r)
  PROVE  \E k \in Live : InRange(a, g_pmm_map[k]) /\ g_pmm_map[k].type = TrueType(a)
<1>0. IInv /\ TypeOK /\ OwnedInv /\ Pending = {}
  <2>1. IInv /\ TypeOK /\ OwnedInv
    BY Zenon DEF StrongInv, IInv
  <2> QED BY <2>1 DEF Pending
<1>1. CASE Taken(a)
  <2> DEFINE o == CHOOSE x \in owned : InRange(a, x)
  <2>1. o \in owned /\ InRange(a, o) /\ TrueType(a) = o.type
    BY <1>1, Zenon DEF Taken, TrueType
  <2> HIDE DEF o
  <2>2. Held(o)
    BY <1>0, <2>1, Zenon DEF OwnedInv
  <2>3. PICK k \in Live : Within(o, g_pmm_map[k]) /\ g_pmm_map[k].type = o.type
    BY <1>0, <2>2, Zenon DEF Held
  <2>4. /\ o.base \in Nat /\ End(o) \in Nat
        /\ g_pmm_map[k].base \in Nat /\ End(g_pmm_map[k]) \in Nat
    BY <1>0, <2>1, Bounds, LiveFacts DEF TypeOK
  <2>5. InRange(a, g_pmm_map[k])
    BY <2>1, <2>3, <2>4 DEF InRange, Within
  <2> QED BY <2>1, <2>3, <2>5
<1>2. CASE ~Taken(a)
  <2> DEFINE q == CHOOSE x \in Regions : InRange(a, x)
  <2>1. q \in Regions /\ InRange(a, q) /\ TrueType(a) = q.type
    BY <1>2, Zenon DEF Taken, TrueType
  <2> HIDE DEF q
  <2>2. SettledKind(a) = q.type
    BY <1>2, <2>1, TruthOf
  <2>3. q.type \in Types
    BY <2>1, RegionsAssumption, EntryFacts
  <2>4. SettledKind(a) # NONE
    BY <2>2, <2>3 DEF NONE, Types, FREE, BAD
  <2>5. Covered(a)
    BY <1>0, <2>4, SettledIs
  <2>6. PICK k \in Live : InRange(a, g_pmm_map[k])
    BY <1>0, <2>5, Zenon DEF Covered
  <2>7. SettledKind(a) = g_pmm_map[k].type
    BY <1>0, <2>6, EntryKind
  <2> QED BY <2>1, <2>2, <2>6, <2>7
<1> QED BY <1>1, <1>2

\* No entry has an address that was not reported.
LEMMA EntryKnown ==
  ASSUME StrongInv, NEW a \in Nat, NEW k \in Live, InRange(a, g_pmm_map[k])
  PROVE  \E r \in Regions \ todo : InRange(a, r)
<1>1. TypeOK /\ KnownInv
  BY Zenon DEF StrongInv, IInv
<1>2. k \in Slots
  BY <1>1, LiveFacts
<1>3. Seen(a)
  BY <1>2, Zenon DEF Seen
<1> QED BY <1>1, <1>3, SeenIsKnown DEF Known

\* A set whose members have different numbers below s has at most s of them.
LEMMA Numbered ==
  ASSUME NEW s \in Nat, NEW M, \A m \in M : m.index \in 0..(s - 1),
         \A m, n \in M : m.index = n.index => m = n
  PROVE  Cardinality(M) \in Nat /\ Cardinality(M) <= s
<1> DEFINE S == 0..(s - 1)
           f == [m \in M |-> m.index]
<1>1. IsFiniteSet(S) /\ Cardinality(S) = s
  <2>1. s - 1 \in Int /\ 0 \in Int
    OBVIOUS
  <2>2. IsFiniteSet(S) /\ Cardinality(S) = IF 0 > s - 1 THEN 0 ELSE (s - 1) - 0 + 1
    BY <2>1, FS_Interval
  <2> QED BY <2>2
<1> HIDE DEF S
<1>2. f \in Injection(M, S)
  BY Zenon DEF Injection, IsInjective, S
<1> HIDE DEF f
<1>3. IsFiniteSet(M) /\ Cardinality(M) <= Cardinality(S)
  BY <1>1, <1>2, FS_Injection
<1> QED BY <1>1, <1>3, FS_CardinalityType

\* The copy of the map tells the truth, and fits.
LEMMA CopyTruth ==
  ASSUME RegionsDisjoint, PublishInv, Copy
  PROVE  PublishedTruth'
<1>0. /\ StrongInv /\ TruthInv /\ PassInv /\ BlockInv /\ stage = "check"
      /\ calls = <<>> /\ todo = {} /\ TypeOK /\ MapSorted
  BY DEF PublishInv, MemoryInv, Copy, Idle, PassInv, StrongInv, IInv
<1>1. /\ UNCHANGED <<owned, block>> /\ ~(g_pmm_map_size > pmm_map_entries)
      /\ mm_entries' = {[base |-> g_pmm_map[k].base, length |-> g_pmm_map[k].length,
                         type |-> PublishedType(g_pmm_map[k].type), index |-> k] : k \in Live}
  BY DEF Copy, vars, TooSmall
<1>2. Cardinality(mm_entries') * MM_ENTRY_SIZE <= block'.length
  <2>1. PICK s \in Nat : s = g_pmm_map_size
    BY <1>0, LiveFacts
  <2>2. /\ \A m \in mm_entries' : m.index \in 0..(s - 1)
        /\ \A m, n \in mm_entries' : m.index = n.index => m = n
    BY <1>1, <2>1 DEF Live
  <2>3. PICK c \in Nat : c = Cardinality(mm_entries') /\ c <= s
    BY <2>2, Numbered
  <2>4. PICK n \in Nat : n = pmm_map_entries
    BY <1>0 DEF BlockInv
  <2>5. c <= n
    BY <1>1, <2>1, <2>3, <2>4
  <2>6. c * MM_ENTRY_SIZE <= n * MM_ENTRY_SIZE /\ c * MM_ENTRY_SIZE \in Nat /\ n * MM_ENTRY_SIZE \in Nat
    BY <2>5, EntrySizeAssumption, SMT
  <2>7. Pages(BlockPages(n)) >= n * MM_ENTRY_SIZE /\ Pages(BlockPages(n)) \in Nat
    BY BlockPagesFacts, PagesLength
  <2>8. block'.length = Pages(BlockPages(n))
    BY <1>0, <1>1, <2>4 DEF BlockInv
  <2> QED BY <2>3, <2>6, <2>7, <2>8
<1>3. ASSUME NEW a \in Address
      PROVE  {e.type : e \in {m \in mm_entries' : InRange(a, m)}} =
               IF \E r \in Regions : InRange(a, r) THEN {PublishedType(TrueType(a)')} ELSE {}
  <2>1. a \in Nat
    BY ClientsAssumption
  <2>2. TrueType(a)' = TrueType(a)
    BY <1>1 DEF TrueType, InRange, End
  <2>3. ASSUME NEW m \in mm_entries', InRange(a, m)
        PROVE  \E k \in Live : InRange(a, g_pmm_map[k]) /\ m.type = PublishedType(g_pmm_map[k].type)
    <3>1. PICK k \in Live :
             m = [base |-> g_pmm_map[k].base, length |-> g_pmm_map[k].length,
                  type |-> PublishedType(g_pmm_map[k].type), index |-> k]
      BY <1>1
    <3>2. InRange(a, g_pmm_map[k]) /\ m.type = PublishedType(g_pmm_map[k].type)
      BY <2>3, <3>1 DEF InRange, End
    <3> QED BY <3>2
  <2>4. CASE \E r \in Regions : InRange(a, r)
    <3>1. PICK k \in Live : InRange(a, g_pmm_map[k]) /\ g_pmm_map[k].type = TrueType(a)
      BY <1>0, <2>1, <2>4, EntryOf
    <3>2. ASSUME NEW m \in mm_entries', InRange(a, m) PROVE m.type = PublishedType(TrueType(a))
      <4>1. PICK j \in Live : InRange(a, g_pmm_map[j]) /\ m.type = PublishedType(g_pmm_map[j].type)
        BY <2>3, <3>2
      <4>2. j = k
        BY <1>0, <2>1, <3>1, <4>1, LiveBounds DEF InRange
      <4> QED BY <3>1, <4>1, <4>2
    <3>3. PICK m \in mm_entries' : InRange(a, m)
      <4>1. PICK m : m = [base |-> g_pmm_map[k].base, length |-> g_pmm_map[k].length,
                          type |-> PublishedType(g_pmm_map[k].type), index |-> k]
        OBVIOUS
      <4>2. m \in mm_entries'
        BY <1>1, <4>1
      <4>3. InRange(a, m)
        BY <3>1, <4>1 DEF InRange, End
      <4> QED BY <4>2, <4>3
    <3>4. {e.type : e \in {x \in mm_entries' : InRange(a, x)}} = {PublishedType(TrueType(a))}
      BY <3>2, <3>3, Zenon
    <3> QED BY <2>2, <2>4, <3>4
  <2>5. CASE ~\E r \in Regions : InRange(a, r)
    <3>1. \A m \in mm_entries' : ~InRange(a, m)
      BY <1>0, <2>1, <2>3, <2>5, EntryKnown
    <3> QED BY <2>5, <3>1
  <2> QED BY <2>4, <2>5
<1> QED
  BY <1>2, <1>3, Zenon DEF PublishedTruth, InRange, End

\* Nothing has happened yet.
LEMMA PublishInitInv == PublishInit => PublishInv
<1> SUFFICES ASSUME PublishInit PROVE PublishInv
  OBVIOUS
<1>1. /\ Init /\ stage = "before" /\ pmm_map_entries = 0
      /\ todo = Regions /\ snapshot = NoSnapshot
  BY DEF PublishInit, DbInit, Init
<1>2. IInv /\ KnownInv
  BY <1>1, InvInit, KnownInit
<1>3. snapshot.state = "none"
  BY <1>1 DEF NoSnapshot
<1>4. StrongInv
  BY <1>2, <1>3 DEF StrongInv, RoomInv
<1>5. TruthInv
  BY <1>1 DEF TruthInv
<1>6. PassInv /\ BlockInv
  BY <1>1, <1>3 DEF PassInv, Walking, BlockInv
<1> QED BY <1>1, <1>4, <1>5, <1>6 DEF PublishInv, MemoryInv, PublishedTruth

\* Only the copy ends in the last stage, and nothing leaves it.
LEMMA PublishedStep ==
  ASSUME RegionsDisjoint, PublishInv, PublishNext, stage' = "published"
  PROVE  Copy
<1>0. panic = "no" /\ (stage = "published" => calls = <<>> /\ snapshot.state = "none")
  BY StepsRun DEF PublishInv, MemoryInv, PassInv, Walking
<1>1. CASE DbNext
  <2>1. stage # "published"
    <3>1. Before \/ ComputeHhdmSize \/ Setup => stage # "published"
      BY DEF Before, ComputeHhdmSize, Setup, pagedb_setup, StartSnapshot,
         CopySnapshot, SkipSlot, BeginSegment, AtSlot, AllocateFrame, AllocateTable,
         PageOutOfMemory, MapPage, UnalignedPage, FreeSnapshot
    <3>2. Scan => calls # <<>>
      BY DEF Scan, MapSet, pmm_map_set, SplitEntry, RejectRange, TrimEntryEnd,
         TrimRangeStart, TrimEntryStart, TrimRangeEnd, DropEntry, SplitRange, SkipEntry,
         EmptyRange, ExtendPrevious, ExtendNext, InsertRange, MapOverflow, ReadPastArray,
         Scanning, Scanned
    <3> QED BY <1>0, <1>1, <3>1, <3>2 DEF DbNext
  <2>2. stage' = stage \/ stage' \in {"setup", "snapshot", "slot", "frame", "map", "done"}
    BY <1>1 DEF DbNext, Before, Scan, ComputeHhdmSize, Setup, pagedb_setup, StartSnapshot,
       CopySnapshot, SkipSlot, BeginSegment, AllocateFrame, AllocateTable,
       PageOutOfMemory, MapPage, UnalignedPage, FreeSnapshot, dbVars
  <2> QED BY <2>1, <2>2
<1>2. CASE SetupCores \/ CoresOutOfMemory \/ Start \/ AllocateBlock \/ BlockOutOfMemory \/ Retry
  BY <1>2 DEF SetupCores, CoresOutOfMemory, Start, AllocateBlock, BlockOutOfMemory, Retry,
     SettingUp, dbVars
<1> QED BY <1>1, <1>2 DEF PublishNext, Publishing

LEMMA PublishStep ==
  ASSUME RegionsDisjoint, PublishInv, [PublishNext]_bootVars
  PROVE  PublishInv'
<1>1. CASE UNCHANGED bootVars
  <2>1. /\ UNCHANGED <<vars, stage, pmm_map_entries, block, mm_entries>>
        /\ UNCHANGED <<calls, panic, todo, owned, snapshot, g_pmm_map_size>>
    BY <1>1 DEF bootVars, vars, dbVars, publishVars
  <2>2. panic' = "no" => StrongInv' /\ TruthInv'
    BY <2>1, ClientMemory, Zenon DEF PublishInv, MemoryInv
  <2>3. panic' = "no" => PassInv' /\ BlockInv'
    BY <2>1 DEF PublishInv, MemoryInv, PassInv, Walking, BlockInv
  <2>4. \A a : TrueType(a)' = TrueType(a)
    BY <2>1 DEF TrueType, InRange, End
  <2>5. PublishedTruth'
    BY <2>1, <2>4, Zenon DEF PublishInv, PublishedTruth, InRange, End
  <2> QED BY <2>1, <2>2, <2>3, <2>5 DEF PublishInv, MemoryInv
<1>2. CASE PublishNext
  <2>1. panic' = "no" => MemoryInv'
    BY <1>2, MemoryStep, StageStep DEF MemoryInv
  <2>2. CASE Copy
    <3>1. calls' = <<>> /\ panic' = "no"
      BY <2>2 DEF Copy, vars, Idle
    <3> QED BY <2>1, <2>2, <3>1, CopyTruth DEF PublishInv
  <2>3. CASE ~Copy
    <3>1. stage' # "published"
      BY <1>2, <2>3, PublishedStep
    <3> QED BY <2>1, <3>1 DEF PublishInv, PublishedTruth
  <2> QED BY <2>2, <2>3
<1> QED BY <1>1, <1>2

\* Whatever was allocated before and in between, the kernel is told the true type of
\* every reported address, and the entries fit in the block (init.c:98-131).
THEOREM MapPublishedTruthfully ==
  ASSUME RegionsDisjoint
  PROVE  PublishSpec => []PublishedTruth
<1>1. PublishInit => PublishInv
  BY PublishInitInv
<1>2. PublishInv /\ [PublishNext]_bootVars => PublishInv'
  BY PublishStep
<1>3. PublishInv => PublishedTruth
  BY DEF PublishInv
<1> QED BY <1>1, <1>2, <1>3, PTL DEF PublishSpec

----------------------------------------------------------------------------
(* Whole pages.                                                            *)

LEMMA Scaled ==
  ASSUME NEW x \in Nat, NEW y \in Nat, x <= y, NEW s \in Nat
  PROVE  x * s \in Nat /\ y * s \in Nat /\ x * s <= y * s
  BY SMT

\* Of two multiples of the size of a page the lower ends where the higher starts.
LEMMA Multiples ==
  ASSUME NEW g \in Nat \ {0}, NEW q \in Nat, NEW r \in Nat, q * g < r * g
  PROVE  q * g + g <= r * g
<1>1. q + 1 \in Nat /\ (q + 1) * g = q * g + g /\ q * g \in Nat /\ r * g \in Nat
  BY SMT
<1>2. r <= q => r * g <= q * g
  BY Scaled
<1>3. q + 1 <= r
  BY <1>1, <1>2
<1>4. (q + 1) * g <= r * g
  BY <1>1, <1>3, Scaled
<1> QED BY <1>1, <1>4

\* Rounding down and up.
LEMMA FloorIs ==
  ASSUME NEW x \in Nat, NEW g \in Nat \ {0}
  PROVE  /\ x \div g \in Nat /\ MATH_FLOOR(x, g) = (x \div g) * g /\ MATH_FLOOR(x, g) \in Nat
         /\ MATH_FLOOR(x, g) <= x /\ x < MATH_FLOOR(x, g) + g
<1> DEFINE q == x \div g
<1>1. q \in Nat /\ g * q <= x /\ x < g * (q + 1)
  BY SMT
<1> HIDE DEF q
<1>2. g * (q + 1) = q * g + g /\ g * q = q * g /\ q * g \in Nat
  BY <1>1, SMT
<1>3. MATH_FLOOR(x, g) = q * g
  BY DEF MATH_FLOOR, q
<1> QED BY <1>1, <1>2, <1>3 DEF q

LEMMA CeilIs ==
  ASSUME NEW x \in Nat, NEW g \in Nat \ {0}
  PROVE  /\ MATH_CEIL(x, g) \in Nat
         /\ \E q \in Nat : MATH_CEIL(x, g) = q * g /\ MATH_CEIL(x, g) \div g = q
         /\ x <= MATH_CEIL(x, g) /\ MATH_CEIL(x, g) < x + g
<1> DEFINE q == (x + g - 1) \div g
<1>1. q \in Nat /\ g * q <= x + g - 1 /\ x + g - 1 < g * (q + 1) /\ (q * g) \div g = q
  BY SMT
<1> HIDE DEF q
<1>2. g * (q + 1) = q * g + g /\ g * q = q * g /\ q * g \in Nat
  BY <1>1, SMT
<1>3. MATH_CEIL(x, g) = q * g
  BY DEF MATH_CEIL, q
<1>4. x <= q * g /\ q * g < x + g
  BY <1>1, <1>2
<1> QED BY <1>1, <1>2, <1>3, <1>4

LEMMA QuotientGrows ==
  ASSUME NEW x \in Nat, NEW y \in Nat, x <= y, NEW g \in Nat \ {0}
  PROVE  x \div g <= y \div g
<1>1. PICK q \in Nat : q = x \div g /\ q * g \in Nat /\ q * g <= x
  BY FloorIs
<1>2. PICK r \in Nat : r = y \div g /\ r * g \in Nat /\ y < r * g + g
  BY FloorIs
<1>3. (r + 1) * g = r * g + g /\ r + 1 \in Nat
  BY <1>2, SMT
<1>4. r + 1 <= q => r * g + g <= q * g
  BY <1>1, <1>3, Scaled
<1>5. q <= r
  BY <1>1, <1>2, <1>4
<1> QED BY <1>1, <1>2, <1>5

LEMMA FloorGrows ==
  ASSUME NEW x \in Nat, NEW y \in Nat, x <= y, NEW g \in Nat \ {0}
  PROVE  MATH_FLOOR(x, g) <= MATH_FLOOR(y, g)
<1>1. x \div g \in Nat /\ y \div g \in Nat /\ x \div g <= y \div g
  BY QuotientGrows, FloorIs
<1> QED BY <1>1, Scaled DEF MATH_FLOOR

LEMMA CeilGrows ==
  ASSUME NEW x \in Nat, NEW y \in Nat, x <= y, NEW g \in Nat \ {0}
  PROVE  MATH_CEIL(x, g) <= MATH_CEIL(y, g)
<1>1. PICK q \in Nat : q = (x + g - 1) \div g
  <2>1. x + g - 1 \in Nat
    OBVIOUS
  <2> QED BY <2>1, FloorIs
<1>2. PICK r \in Nat : r = (y + g - 1) \div g
  <2>1. y + g - 1 \in Nat
    OBVIOUS
  <2> QED BY <2>1, FloorIs
<1>3. q <= r
  <2>1. x + g - 1 \in Nat /\ y + g - 1 \in Nat /\ x + g - 1 <= y + g - 1
    OBVIOUS
  <2> QED BY <1>1, <1>2, <2>1, QuotientGrows
<1> QED BY <1>1, <1>2, <1>3, Scaled DEF MATH_CEIL

----------------------------------------------------------------------------
(* The elements.                                                           *)

LEMMA ElementNat ==
  ASSUME NEW a \in Nat
  PROVE  Element(a) \in Nat
  BY PageAssumption, PageDbAssumption, FloorIs, Scaled DEF Element

LEMMA ElementGrows ==
  ASSUME NEW a \in Nat, NEW b \in Nat, a <= b
  PROVE  Element(a) <= Element(b)
<1>1. PICK p \in Nat : p = a \div PTM_PAGE_GRANULARITY
  BY PageAssumption, FloorIs
<1>2. PICK q \in Nat : q = b \div PTM_PAGE_GRANULARITY
  BY PageAssumption, FloorIs
<1>3. p <= q
  BY <1>1, <1>2, PageAssumption, QuotientGrows
<1> QED BY <1>1, <1>2, <1>3, PageDbAssumption, Scaled DEF Element

\* The element of a page.
LEMMA ElementOf ==
  ASSUME NEW p \in Nat
  PROVE  /\ \A a \in Nat : a < Pages(p + 1) => Element(a) <= p * pagedb_entry_size
         /\ \A a \in Nat : Pages(p) <= a => p * pagedb_entry_size <= Element(a)
<1> DEFINE g == PTM_PAGE_GRANULARITY
<1>0. g \in Nat \ {0} /\ pagedb_entry_size \in Nat
  BY PageAssumption, PageDbAssumption
<1> HIDE DEF g
<1>1. /\ p * g \in Nat /\ (p + 1) * g = p * g + g /\ p + 1 \in Nat
      /\ Pages(p) = p * g /\ Pages(p + 1) = (p + 1) * g
  <2>1. p * g \in Nat /\ (p + 1) * g = p * g + g
    BY <1>0, SMT
  <2> QED BY <2>1 DEF Pages, g
<1>2. ASSUME NEW a \in Nat, a < p * g + g PROVE Element(a) <= p * pagedb_entry_size
  <2>1. PICK q \in Nat : q = a \div g /\ q * g \in Nat /\ q * g <= a
    BY <1>0, FloorIs
  <2>2. p + 1 <= q => p * g + g <= q * g
    BY <1>0, <1>1, <2>1, Scaled
  <2>3. q <= p
    BY <1>0, <1>1, <1>2, <2>1, <2>2
  <2> QED BY <1>0, <2>1, <2>3, Scaled DEF Element, g
<1>3. ASSUME NEW a \in Nat, p * g <= a PROVE p * pagedb_entry_size <= Element(a)
  <2>1. PICK q \in Nat : q = a \div g /\ q * g \in Nat /\ a < q * g + g
    BY <1>0, FloorIs
  <2>2. (q + 1) * g = q * g + g /\ q + 1 \in Nat
    BY <1>0, <2>1, SMT
  <2>3. q + 1 <= p => q * g + g <= p * g
    BY <1>0, <1>1, <2>1, <2>2, Scaled
  <2>4. p <= q
    BY <1>0, <1>1, <1>3, <2>1, <2>3
  <2> QED BY <1>0, <2>1, <2>4, Scaled DEF Element, g
<1> QED BY <1>1, <1>2, <1>3

----------------------------------------------------------------------------
(* Where the database is.                                                  *)

LEMMA Geometry ==
  ASSUME hhdm_size \in Nat
  PROVE  /\ pagedb_base \in Nat /\ system_page_count \in Nat /\ pagedb_size \in Nat
         /\ Element(hhdm_size) <= system_page_count * pagedb_entry_size
         /\ system_page_count * pagedb_entry_size \in Nat
<1>0. PTM_PAGE_GRANULARITY \in Nat \ {0} /\ pagedb_entry_size \in Nat /\ hhdm_offset \in Nat
  BY PageAssumption, PageDbAssumption
<1>1. PICK q \in Nat : /\ MATH_CEIL(hhdm_size, PTM_PAGE_GRANULARITY) = q * PTM_PAGE_GRANULARITY
                       /\ system_page_count = q
                       /\ hhdm_size <= q * PTM_PAGE_GRANULARITY
  BY <1>0, CeilIs DEF system_page_count
<1>2. q * pagedb_entry_size \in Nat
  BY <1>0, Scaled
<1>3. pagedb_size \in Nat
  BY <1>0, <1>1, <1>2, CeilIs DEF pagedb_size
<1>4. Element(hhdm_size) <= q * pagedb_entry_size
  <2>1. q * PTM_PAGE_GRANULARITY \in Nat /\ Pages(q) = q * PTM_PAGE_GRANULARITY
    BY <1>0, Scaled DEF Pages
  <2>2. (q + 1) * PTM_PAGE_GRANULARITY = q * PTM_PAGE_GRANULARITY + PTM_PAGE_GRANULARITY
    BY <1>0, SMT
  <2>3. hhdm_size < Pages(q + 1)
    BY <1>0, <1>1, <2>1, <2>2 DEF Pages
  <2> QED BY <2>3, ElementOf
<1> QED BY <1>0, <1>1, <1>2, <1>3, <1>4 DEF pagedb_base

LEMMA AtPageIs ==
  ASSUME hhdm_size \in Nat, NEW q \in Nat
  PROVE  /\ pagedb_base + q * PTM_PAGE_GRANULARITY \in Nat
         /\ AtPage(pagedb_base + q * PTM_PAGE_GRANULARITY)
<1>0. PTM_PAGE_GRANULARITY \in Nat \ {0} /\ pagedb_base \in Nat
  BY PageAssumption, Geometry
<1>1. q * PTM_PAGE_GRANULARITY \in Nat /\ q <= q * PTM_PAGE_GRANULARITY
  BY <1>0, SMT
<1>2. PICK x \in Nat : x = pagedb_base + q * PTM_PAGE_GRANULARITY
  BY <1>0, <1>1
<1>3. q \in 0..x
  BY <1>0, <1>1, <1>2
<1> QED BY <1>2, <1>3 DEF AtPage

LEMMA NextPageAt ==
  ASSUME hhdm_size \in Nat, NEW x \in Nat, NEW y \in Nat, AtPage(x), AtPage(y), x < y
  PROVE  /\ x + PTM_PAGE_GRANULARITY <= y /\ AtPage(x + PTM_PAGE_GRANULARITY)
         /\ pagedb_base <= x
<1> DEFINE g == PTM_PAGE_GRANULARITY
           B == pagedb_base
<1>0. g \in Nat \ {0} /\ B \in Nat
  BY PageAssumption, Geometry
<1>1. PICK q \in Nat : x = B + q * g
  BY DEF AtPage
<1>2. PICK r \in Nat : y = B + r * g
  BY DEF AtPage
<1>3. q * g \in Nat /\ r * g \in Nat /\ (q + 1) * g = q * g + g /\ q + 1 \in Nat
  BY <1>0, SMT
<1>4. AtPage(B + (q + 1) * g)
  BY <1>3, AtPageIs
<1> HIDE DEF g, B
<1>5. q * g < r * g
  BY <1>0, <1>1, <1>2, <1>3
<1>6. q * g + g <= r * g
  BY <1>0, <1>5, Multiples
<1>7. x + g <= y /\ B <= x /\ x + g = B + (q + 1) * g
  BY <1>0, <1>1, <1>2, <1>3, <1>6
<1> QED BY <1>4, <1>7 DEF g, B

\* The pages of the database for a slot.
LEMMA SlotPages ==
  ASSUME hhdm_size \in Nat, NEW e \in Entry
  PROVE  /\ FirstPage(e) \in Nat /\ SegmentEnd(e) \in Nat
         /\ pagedb_base <= FirstPage(e)
         /\ AtPage(FirstPage(e)) /\ AtPage(SegmentEnd(e))
         /\ End(e) <= hhdm_size => SegmentEnd(e) <= pagedb_base + pagedb_size
<1>0. /\ PTM_PAGE_GRANULARITY \in Nat \ {0} /\ pagedb_base \in Nat /\ pagedb_size \in Nat
      /\ e.base \in Nat /\ End(e) \in Nat
  BY PageAssumption, Geometry, Bounds
<1>1. Element(e.base) \in Nat /\ Element(End(e)) \in Nat
  BY <1>0, ElementNat
<1>2. PICK q \in Nat : MATH_FLOOR(Element(e.base), PTM_PAGE_GRANULARITY) = q * PTM_PAGE_GRANULARITY
  BY <1>0, <1>1, FloorIs
<1>3. PICK r \in Nat : MATH_CEIL(Element(End(e)), PTM_PAGE_GRANULARITY) = r * PTM_PAGE_GRANULARITY
  BY <1>0, <1>1, CeilIs
<1>4. /\ FirstPage(e) = pagedb_base + q * PTM_PAGE_GRANULARITY
      /\ SegmentEnd(e) = pagedb_base + r * PTM_PAGE_GRANULARITY
  BY <1>2, <1>3 DEF FirstPage, SegmentEnd
<1>5. q * PTM_PAGE_GRANULARITY \in Nat
  BY <1>0, Scaled
<1>6. ASSUME End(e) <= hhdm_size PROVE SegmentEnd(e) <= pagedb_base + pagedb_size
  <2>1. PICK n \in Nat : n = system_page_count * pagedb_entry_size
    BY Geometry
  <2>2. Element(End(e)) <= Element(hhdm_size) /\ Element(hhdm_size) <= n
        /\ Element(hhdm_size) \in Nat
    BY <1>0, <1>6, <2>1, ElementGrows, ElementNat, Geometry
  <2>3. Element(End(e)) <= n
    BY <1>1, <2>2
  <2>4. MATH_CEIL(Element(End(e)), PTM_PAGE_GRANULARITY) <= pagedb_size
    BY <1>0, <1>1, <2>1, <2>3, CeilGrows DEF pagedb_size
  <2>5. MATH_CEIL(Element(End(e)), PTM_PAGE_GRANULARITY) \in Nat
    BY <1>0, <1>1, CeilIs
  <2> QED BY <1>0, <2>4, <2>5 DEF SegmentEnd
<1>7. FirstPage(e) \in Nat /\ SegmentEnd(e) \in Nat /\ AtPage(FirstPage(e)) /\ AtPage(SegmentEnd(e))
  BY <1>4, AtPageIs
<1>8. pagedb_base <= FirstPage(e)
  BY <1>0, <1>4, <1>5
<1> QED BY <1>6, <1>7, <1>8

LEMMA FirstPageGrows ==
  ASSUME hhdm_size \in Nat, NEW e \in Entry, NEW f \in Entry, e.base <= f.base
  PROVE  FirstPage(e) <= FirstPage(f)
<1>0. /\ PTM_PAGE_GRANULARITY \in Nat \ {0} /\ pagedb_base \in Nat
      /\ e.base \in Nat /\ f.base \in Nat
  BY PageAssumption, Geometry, Bounds
<1>1. Element(e.base) \in Nat /\ Element(f.base) \in Nat /\ Element(e.base) <= Element(f.base)
  BY <1>0, ElementNat, ElementGrows
<1>2. PICK x \in Nat : x = MATH_FLOOR(Element(e.base), PTM_PAGE_GRANULARITY)
  BY <1>0, <1>1, FloorIs
<1>3. PICK y \in Nat : y = MATH_FLOOR(Element(f.base), PTM_PAGE_GRANULARITY)
  BY <1>0, <1>1, FloorIs
<1>4. x <= y
  BY <1>0, <1>1, <1>2, <1>3, FloorGrows
<1> QED BY <1>0, <1>2, <1>3, <1>4 DEF FirstPage

\* Mapping starts at the first page, or where the slots before it have ended.
LEMMA StartIs ==
  ASSUME hhdm_size \in Nat, pagedb_mapped_end \in Nat, NEW e \in Entry
  PROVE  /\ SegmentStart(e) \in {FirstPage(e), pagedb_mapped_end}
         /\ SegmentStart(e) \in Nat
         /\ FirstPage(e) <= SegmentStart(e) /\ pagedb_mapped_end <= SegmentStart(e)
<1>1. PICK x \in Nat : x = FirstPage(e)
  BY SlotPages
<1>2. PICK y \in Nat : y = pagedb_mapped_end
  OBVIOUS
<1>3. SegmentStart(e) = Max({x, y})
  BY <1>1, <1>2 DEF SegmentStart, FirstPage
<1>4. Max({x, y}) = IF x <= y THEN y ELSE x
  <2>1. {x, y} \in SUBSET Int
    OBVIOUS
  <2>2. CASE x <= y
    <3>1. y \in {x, y} /\ \A z \in {x, y} : y >= z
      BY <2>2
    <3> QED BY <2>1, <2>2, <3>1, MaxIs
  <2>3. CASE ~(x <= y)
    <3>1. x \in {x, y} /\ \A z \in {x, y} : x >= z
      BY <2>3
    <3> QED BY <2>1, <2>3, <3>1, MaxIs
  <2> QED BY <2>2, <2>3
<1> QED BY <1>1, <1>2, <1>3, <1>4

\* A slot with the last byte of a page has the page's element.
LEMMA PageInSlot ==
  ASSUME hhdm_size \in Nat, NEW e \in Entry, NEW p \in Nat, InRange(Pages(p + 1) - 1, e)
  PROVE  /\ FirstPage(e) <= pagedb_base + p * pagedb_entry_size
         /\ pagedb_base + (p + 1) * pagedb_entry_size <= SegmentEnd(e)
<1>0. /\ PTM_PAGE_GRANULARITY \in Nat \ {0} /\ pagedb_base \in Nat
      /\ e.base \in Nat /\ End(e) \in Nat /\ pagedb_entry_size \in Nat
  BY PageAssumption, Geometry, Bounds, PageDbAssumption
<1>1. PICK n \in Nat : n = Pages(p + 1) /\ n > 0
  BY PagesLength
<1>2. e.base < n /\ n <= End(e)
  BY <1>0, <1>1 DEF InRange
<1>3. PICK x \in Nat : x = p * pagedb_entry_size
  BY <1>0, Scaled
<1>4. PICK y \in Nat : y = (p + 1) * pagedb_entry_size
  BY <1>0, Scaled
<1>5. Element(e.base) \in Nat /\ Element(e.base) <= x
  BY <1>0, <1>1, <1>2, <1>3, ElementOf, ElementNat
<1>6. Element(End(e)) \in Nat /\ y <= Element(End(e))
  BY <1>0, <1>1, <1>2, <1>4, ElementOf, ElementNat
<1>7. PICK f \in Nat : f = MATH_FLOOR(Element(e.base), PTM_PAGE_GRANULARITY) /\ f <= Element(e.base)
  BY <1>0, <1>5, FloorIs
<1>8. PICK c \in Nat : c = MATH_CEIL(Element(End(e)), PTM_PAGE_GRANULARITY) /\ Element(End(e)) <= c
  BY <1>0, <1>6, CeilIs
<1>9. f <= x /\ y <= c
  BY <1>5, <1>6, <1>7, <1>8
<1> QED BY <1>0, <1>3, <1>4, <1>7, <1>8, <1>9 DEF FirstPage, SegmentEnd

----------------------------------------------------------------------------
(* The size of the direct map.                                             *)

\* It is a number that no entry in use ends beyond.
LEMMA DirectMapIs ==
  ASSUME TypeOK, MapSorted, NEW b \in Nat
  PROVE  /\ DirectMapSize(b) \in Nat
         /\ \A k \in Live : End(g_pmm_map[k]) <= DirectMapSize(b)
<1> DEFINE S == {b} \cup {End(g_pmm_map[k]) : k \in Live}
<1>0. PICK s \in Nat : s = g_pmm_map_size
  BY LiveFacts
<1>1. \A k \in Live : /\ k \in Nat /\ g_pmm_map[k].base \in Nat /\ End(g_pmm_map[k]) \in Nat
                      /\ g_pmm_map[k].base < End(g_pmm_map[k])
  BY LiveBounds
<1>2. S \in SUBSET Int
  BY <1>1
<1>3. PICK m \in S : \A y \in S : m >= y
  <2>1. CASE s = 0
    <3>1. Live = {}
      BY <1>0, <2>1 DEF Live
    <3>2. \A y \in S : b >= y
      BY <3>1
    <3> QED BY <3>2
  <2>2. CASE s # 0
    <3>1. PICK n \in Live : n = s - 1
      BY <1>0, <2>2 DEF Live
    <3>2. ASSUME NEW k \in Live PROVE End(g_pmm_map[k]) <= End(g_pmm_map[n])
      <4>1. k = n \/ k < n
        BY <1>0, <3>1 DEF Live
      <4>2. k < n => End(g_pmm_map[k]) <= g_pmm_map[n].base
        BY Zenon DEF MapSorted
      <4> QED BY <1>1, <4>1, <4>2
    <3>3. PICK l \in Nat : l = End(g_pmm_map[n])
      BY <1>1
    <3>4. \A y \in S : y = b \/ y <= l
      BY <3>2, <3>3
    <3>5. l \in S /\ b \in S
      BY <3>3
    <3>6. CASE b <= l
      <4>1. \A y \in S : l >= y
        BY <1>2, <3>4, <3>6
      <4> QED BY <3>5, <4>1
    <3>7. CASE ~(b <= l)
      <4>1. \A y \in S : b >= y
        BY <1>2, <3>4, <3>7
      <4> QED BY <3>5, <4>1
    <3> QED BY <3>6, <3>7
  <2> QED BY <2>1, <2>2
<1>4. DirectMapSize(b) = m
  BY <1>2, <1>3, MaxIs DEF DirectMapSize
<1>5. m \in Nat
  BY <1>1
<1>6. \A k \in Live : End(g_pmm_map[k]) \in S
  OBVIOUS
<1> HIDE DEF S
<1>7. \A k \in Live : End(g_pmm_map[k]) <= m
  BY <1>1, <1>3, <1>5, <1>6
<1> QED BY <1>4, <1>5, <1>7

\* Nor does memory.
LEMMA HhdmStep ==
  ASSUME RegionsDisjoint, StrongInv, TruthInv, ComputeHhdmSize
  PROVE  hhdm_size' \in Nat /\ HhdmInv'
<1>0. TypeOK /\ MapSorted /\ todo = {} /\ calls = <<>>
  BY DEF StrongInv, IInv, ComputeHhdmSize, Idle
<1>1. PICK b \in Nat : hhdm_size' = DirectMapSize(b)
  BY PageDbAssumption DEF ComputeHhdmSize
<1>2. PICK h \in Nat : h = hhdm_size' /\ \A k \in Live : End(g_pmm_map[k]) <= h
  BY <1>0, <1>1, DirectMapIs
<1>3. ASSUME NEW r \in Regions, r.length > 0 PROVE End(r) <= h
  <2>1. r \in Entry /\ r.base \in Nat /\ End(r) \in Nat /\ r.base < End(r)
    BY <1>3, RegionsAssumption, Bounds
  <2>2. PICK a \in Nat : a = End(r) - 1
    BY <2>1
  <2>3. InRange(a, r)
    BY <2>1, <2>2 DEF InRange
  <2>4. PICK k \in Live : InRange(a, g_pmm_map[k])
    BY <1>0, <2>3, EntryOf
  <2>5. End(g_pmm_map[k]) \in Nat /\ End(g_pmm_map[k]) <= h
    BY <1>0, <1>2, LiveBounds
  <2> QED BY <2>1, <2>2, <2>4, <2>5 DEF InRange
<1> QED BY <1>2, <1>3 DEF HhdmInv, End

----------------------------------------------------------------------------
(* The slots.                                                              *)

\* What any slot of the array describes is below the end of memory.
LEMMA SlotBelow ==
  ASSUME StrongInv, calls = <<>>, hhdm_size \in Nat,
         \A r \in Regions : r.length > 0 => End(r) <= hhdm_size, NEW k \in Slots
  PROVE  End(g_pmm_map[k]) <= hhdm_size
<1>0. TypeOK /\ MapSorted /\ StaleInv /\ KnownInv /\ Pending = {}
  <2>1. TypeOK /\ MapSorted /\ StaleInv /\ KnownInv
    BY Zenon DEF StrongInv, IInv
  <2> QED BY <2>1 DEF Pending
<1>1. ASSUME NEW a \in Nat, Known(a) PROVE a < hhdm_size
  <2>1. PICK r \in Regions : InRange(a, r)
    BY <1>1 DEF Known
  <2>2. r \in Entry /\ r.base \in Nat /\ r.length \in Nat /\ End(r) = r.base + r.length
    BY RegionsAssumption, EntryFacts DEF End
  <2>3. r.length > 0 /\ a < End(r)
    BY <2>1, <2>2 DEF InRange
  <2> QED BY <2>2, <2>3
<1>2. g_pmm_map[k] \in Entry
  BY <1>0 DEF TypeOK
<1>3. PICK b \in Nat : b = g_pmm_map[k].base
  BY <1>2, EntryFacts
<1>4. PICK l \in Nat : l = g_pmm_map[k].length
  BY <1>2, EntryFacts
<1>5. End(g_pmm_map[k]) = b + l
  BY <1>3, <1>4 DEF End
<1>6. CASE l > 0
  <2>1. PICK a \in Nat : a = b + l - 1
    BY <1>6
  <2>2. a \in g_pmm_map[k].base..(End(g_pmm_map[k]) - 1)
    BY <1>3, <1>5, <1>6, <2>1
  <2>3. Known(a)
    BY <1>0, <2>2 DEF KnownInv, KnownRange
  <2> QED BY <1>1, <1>5, <2>1, <2>3
<1>7. CASE l = 0
  <2>1. k \notin Live
    <3>1. k \in Live => g_pmm_map[k].length > 0
      BY <1>0, Zenon DEF MapSorted
    <3> QED BY <1>4, <1>7, <3>1
  <2>2. b = 0 \/ Covered(b)
    BY <1>0, <1>3, <2>1 DEF StaleInv
  <2>3. ASSUME Covered(b) PROVE b < hhdm_size
    <3>1. PICK j \in Live : InRange(b, g_pmm_map[j])
      BY <1>0, <2>3 DEF Covered
    <3>2. j \in Slots
      BY <1>0, LiveFacts
    <3>3. Seen(b)
      BY <3>1, <3>2 DEF Seen
    <3> QED BY <1>0, <1>1, <3>3, SeenIsKnown
  <2> QED BY <1>5, <1>7, <2>2, <2>3
<1> QED BY <1>6, <1>7

\* What is not bad memory is in some entry that is not either.
LEMMA EntryForMemory ==
  ASSUME RegionsDisjoint, StrongInv, TruthInv, OwnersInv, todo = {}, calls = <<>>,
         NEW r \in Regions, r.type # BAD, NEW a \in r.base..(End(r) - 1)
  PROVE  \E k \in Live :
            /\ InRange(a, g_pmm_map[k]) /\ g_pmm_map[k].type # BAD
            /\ \A j \in 0..(k - 1) : g_pmm_map[j].base <= g_pmm_map[k].base
<1>0. TypeOK /\ MapSorted
  BY DEF StrongInv, IInv
<1>1. r \in Entry /\ r.base \in Nat /\ End(r) \in Nat
  BY RegionsAssumption, Bounds
<1>2. a \in Nat /\ InRange(a, r)
  BY <1>1 DEF InRange
<1>3. PICK k \in Live : InRange(a, g_pmm_map[k]) /\ g_pmm_map[k].type = TrueType(a)
  BY <1>2, EntryOf
<1>4. TrueType(a) # BAD
  <2>1. CASE Taken(a)
    <3> DEFINE o == CHOOSE x \in owned : InRange(a, x)
    <3>1. o \in owned /\ TrueType(a) = o.type
      BY <2>1, Zenon DEF Taken, TrueType
    <3> HIDE DEF o
    <3> QED BY <3>1 DEF OwnersInv
  <2>2. CASE ~Taken(a)
    <3> DEFINE q == CHOOSE x \in Regions : InRange(a, x)
    <3>1. q \in Regions /\ InRange(a, q) /\ TrueType(a) = q.type
      BY <1>2, <2>2, Zenon DEF Taken, TrueType
    <3> HIDE DEF q
    <3>2. /\ q \in Entry /\ q.base \in Nat /\ q.length \in Nat /\ r.length \in Nat
          /\ End(q) = q.base + q.length /\ End(r) = r.base + r.length
      BY <3>1, RegionsAssumption, EntryFacts DEF End
    <3>3. q.length # 0 /\ r.length # 0 /\ Overlap(q, r)
      BY <1>1, <1>2, <3>1, <3>2 DEF InRange, Overlap
    <3>4. q = r
      BY <3>1, <3>3 DEF RegionsDisjoint
    <3> QED BY <3>1, <3>4
  <2> QED BY <2>1, <2>2
<1>5. ASSUME NEW j \in 0..(k - 1) PROVE g_pmm_map[j].base <= g_pmm_map[k].base
  <2>1. j \in Live /\ j < k
    BY <1>0, LiveFacts DEF Live
  <2>2. End(g_pmm_map[j]) <= g_pmm_map[k].base
    BY <2>1 DEF MapSorted, StrongInv, IInv
  <2> QED BY <1>0, <2>1, <2>2, LiveBounds
<1> QED BY <1>3, <1>4, <1>5

----------------------------------------------------------------------------
(* The walk.                                                               *)

\* The slots below count are entries, and the one being looked at is one of them.
LEMMA SlotFacts ==
  ASSUME SlotsInv, Walking
  PROVE  \A k \in 0..(snapshot.count - 1) : slots[k] \in Entry
  BY DEF SlotsInv

\* Where a slot in order overlaps what has been mapped, there is no hole.
LEMMA NoHole ==
  ASSUME DbTypes, SlotsInv, WalkInv, Walking, snapshot.count \in Nat, i < snapshot.count,
         InOrder(i), NEW x \in Nat, FirstPage(slots[i]) <= x, x < pagedb_mapped_end
  PROVE  Mapped(x)
<1>0. /\ hhdm_size \in Nat /\ i \in Nat /\ pagedb_mapped_end \in Nat
      /\ i \in 0..(snapshot.count - 1)
  BY DEF DbTypes
<1>1. slots[i] \in Entry /\ FirstPage(slots[i]) \in Nat /\ pagedb_base <= FirstPage(slots[i])
      /\ pagedb_base \in Nat
  BY <1>0, SlotFacts, SlotPages, Geometry
<1>2. ASSUME NEW j \in 0..(i - 1) PROVE FirstPage(slots[j]) <= x
  <2>1. slots[j].base <= slots[i].base
    BY <1>2 DEF InOrder
  <2>2. j \in 0..(snapshot.count - 1)
    BY <1>0
  <2>3. slots[j] \in Entry
    BY <2>2, SlotFacts
  <2>4. FirstPage(slots[j]) \in Nat /\ FirstPage(slots[j]) <= FirstPage(slots[i])
    BY <1>0, <1>1, <2>1, <2>3, FirstPageGrows, SlotPages
  <2> QED BY <1>1, <2>4
<1>3. x \in pagedb_base..(pagedb_mapped_end - 1)
  BY <1>0, <1>1
<1>4. \A y \in pagedb_base..(pagedb_mapped_end - 1) :
        (\A j \in 0..(i - 1) : slots[j].type # BAD => FirstPage(slots[j]) <= y) => Mapped(y)
  BY Zenon DEF WalkInv
<1> QED BY <1>2, <1>3, <1>4, Zenon

\* At the end of the walk all memory is described.
LEMMA WalkDescribes ==
  ASSUME DbTypes, SlotsInv, WalkInv, Walking, snapshot.count \in Nat, i = snapshot.count
  PROVE  Described
<1>0. /\ hhdm_size \in Nat /\ pagedb_base \in Nat /\ system_page_count \in Nat
      /\ pagedb_entry_size \in Nat
  BY Geometry, PageDbAssumption DEF DbTypes
<1> SUFFICES ASSUME NEW p \in 0..(system_page_count - 1),
                    \A a \in Pages(p)..(Pages(p + 1) - 1) : IsMemory(a),
                    NEW b \in (p * pagedb_entry_size)..((p + 1) * pagedb_entry_size - 1)
             PROVE  Mapped(pagedb_base + b)
  BY Zenon DEF Described
<1>1. p \in Nat /\ p + 1 \in Nat
  BY <1>0
<1>2. PICK m \in Nat : m = Pages(p)
  BY <1>1, PagesLength
<1>3. PICK n \in Nat : n = Pages(p + 1) /\ m < n
  <2>1. (p + 1) * PTM_PAGE_GRANULARITY = p * PTM_PAGE_GRANULARITY + PTM_PAGE_GRANULARITY
    BY <1>1, PageAssumption, SMT
  <2>2. Pages(p + 1) = m + PTM_PAGE_GRANULARITY
    BY <1>2, <2>1 DEF Pages
  <2> QED BY <2>2, PageAssumption
<1>4. PICK a \in Nat : a = n - 1 /\ a \in m..(n - 1)
  BY <1>3
<1>5. PICK r \in Regions : InRange(a, r) /\ r.type # BAD
  BY <1>2, <1>3, <1>4 DEF IsMemory
<1>6. a \in r.base..(End(r) - 1)
  <2>1. r.base \in Nat /\ End(r) \in Nat
    BY RegionsAssumption, Bounds
  <2> QED BY <1>5, <2>1 DEF InRange
<1>7. PICK k \in 0..(snapshot.count - 1) : InRange(a, slots[k]) /\ InOrder(k)
  BY <1>5, <1>6, Zenon DEF SlotsInv
<1>8. slots[k] \in Entry /\ k \in 0..(i - 1)
  BY SlotFacts
<1>9. /\ FirstPage(slots[k]) <= pagedb_base + p * pagedb_entry_size
      /\ pagedb_base + (p + 1) * pagedb_entry_size <= SegmentEnd(slots[k])
      /\ FirstPage(slots[k]) \in Nat /\ SegmentEnd(slots[k]) \in Nat
  BY <1>0, <1>1, <1>3, <1>4, <1>7, <1>8, PageInSlot, SlotPages
<1>10. PICK x \in Nat : x = p * pagedb_entry_size
  BY <1>0, <1>1, Scaled
<1>11. PICK y \in Nat : y = (p + 1) * pagedb_entry_size
  BY <1>0, <1>1, Scaled
<1>12. b \in x..(y - 1)
  BY <1>10, <1>11
<1>13. pagedb_base + b \in FirstPage(slots[k])..(SegmentEnd(slots[k]) - 1)
  BY <1>0, <1>9, <1>10, <1>11, <1>12
<1> QED BY <1>7, <1>8, <1>13, Zenon DEF WalkInv

\* Where the database is does not change with the rest of the state.
LEMMA SamePlace ==
  ASSUME UNCHANGED hhdm_size
  PROVE  /\ pagedb_base' = pagedb_base /\ pagedb_size' = pagedb_size
         /\ system_page_count' = system_page_count
         /\ \A x : AtPage(x)' <=> AtPage(x)
         /\ UNCHANGED db => Described' <=> Described
         /\ UNCHANGED db => \A x : Mapped(x)' <=> Mapped(x)
<1>1. pagedb_base' = pagedb_base /\ pagedb_size' = pagedb_size
      /\ system_page_count' = system_page_count
  BY DEF pagedb_base, pagedb_size, system_page_count
<1>2. \A x : AtPage(x)' <=> AtPage(x)
  BY <1>1 DEF AtPage
<1>3. UNCHANGED db => \A x : Mapped(x)' <=> Mapped(x)
  BY DEF Mapped
<1>4. UNCHANGED db => Described' <=> Described
  BY <1>1, Zenon DEF Described, Mapped, IsMemory, InRange, End, Pages
<1> QED BY <1>1, <1>2, <1>3, <1>4

LEMMA SameSlots ==
  ASSUME UNCHANGED <<hhdm_size, slots>>
  PROVE  /\ \A k : FirstPage(slots[k])' = FirstPage(slots[k])
         /\ \A k : SegmentEnd(slots[k])' = SegmentEnd(slots[k])
         /\ \A k : InOrder(k)' <=> InOrder(k)
         /\ UNCHANGED pagedb_mapped_end => \A k : SegmentStart(slots[k])' = SegmentStart(slots[k])
<1>1. pagedb_base' = pagedb_base
  BY SamePlace
<1>2. \A k : FirstPage(slots[k])' = FirstPage(slots[k])
  BY <1>1, Zenon DEF FirstPage, Element
<1>3. \A k : SegmentEnd(slots[k])' = SegmentEnd(slots[k])
  BY <1>1, Zenon DEF SegmentEnd, Element, End
<1>4. \A k : InOrder(k)' <=> InOrder(k)
  BY Zenon DEF InOrder
<1>5. UNCHANGED pagedb_mapped_end => \A k : SegmentStart(slots[k])' = SegmentStart(slots[k])
  BY <1>1, Zenon DEF SegmentStart, Element
<1> QED BY <1>2, <1>3, <1>4, <1>5

----------------------------------------------------------------------------
(* The owners.                                                             *)

\* Used memory stays so, and what becomes allocated is not bad.
LEMMA OwnersStep ==
  ASSUME PublishNext, OwnersInv, TypeOK, BlockInv
  PROVE  /\ OwnersInv'
         /\ \A o \in owned : o.type = USED => o \in owned'
<1>0. /\ USED # BAD /\ ALLOCATED # BAD /\ USED # ALLOCATED /\ NoSnapshot.state = "none"
  BY DEF USED, ALLOCATED, BAD, NoSnapshot
<1>t. snapshot \in SnapshotType
  BY Zenon DEF TypeOK
<1>a. \A addr, n, t : Allocation(addr, n, t).type = t
  BY DEF Allocation
<1>1. ASSUME NEW addr, NEW n, NEW t, Own(addr, n, t), t # BAD, UNCHANGED snapshot
      PROVE  OwnersInv' /\ \A o \in owned : o.type = USED => o \in owned'
  <2>1. PICK o : o = Allocation(addr, n, t) /\ o.type = t
    BY <1>a
  <2>2. owned' = owned \/ owned' = owned \cup {o}
    BY <1>1, <2>1 DEF Own
  <2> QED BY <1>1, <2>1, <2>2 DEF OwnersInv
<1>2. ASSUME UNCHANGED <<owned, snapshot>>
      PROVE  OwnersInv' /\ \A o \in owned : o.type = USED => o \in owned'
  BY <1>2 DEF OwnersInv
<1>3. CASE Before
  <2>1. CASE \E r \in todo : Report(r)
    BY <1>2, <2>1 DEF Report
  <2>2. CASE \E n \in PageCounts, t \in AllocTypes : Allocate(n, t)
    <3>1. PICK n \in PageCounts, t \in AllocTypes : Allocate(n, t)
      BY <2>2
    <3>2. PICK addr : Own(addr, n, t) /\ UNCHANGED snapshot
      BY <3>1 DEF Allocate
    <3> QED BY <1>1, <3>2, PageDbAssumption
  <2> QED BY <1>3, <2>1, <2>2 DEF Before
<1>4. CASE Scan \/ ComputeHhdmSize \/ pagedb_setup \/ SkipSlot \/ BeginSegment \/ MapPage
           \/ PageOutOfMemory \/ UnalignedPage \/ CoresOutOfMemory \/ Start \/ BlockOutOfMemory
           \/ Copy
  BY <1>2, <1>4 DEF Scan, MapSet, ComputeHhdmSize, pagedb_setup, SkipSlot, BeginSegment,
     MapPage, PageOutOfMemory, UnalignedPage, CoresOutOfMemory, Start, BlockOutOfMemory, Copy,
     vars
<1>5. CASE StartSnapshot
  <2>1. PICK addr, n : /\ Own(addr, n, ALLOCATED)
                       /\ snapshot'.allocation = Allocation(addr, n, ALLOCATED)
    BY <1>5 DEF StartSnapshot, pmm_create_snapshot
  <2>2. PICK o : o = Allocation(addr, n, ALLOCATED) /\ o.type = ALLOCATED
    BY <1>a
  <2>3. owned' = owned \/ owned' = owned \cup {o}
    BY <2>1, <2>2 DEF Own
  <2> QED BY <1>0, <2>1, <2>2, <2>3 DEF OwnersInv
<1>6. CASE CopySnapshot
  <2>1. UNCHANGED owned /\ snapshot.state = "allocating"
    BY <1>6 DEF CopySnapshot, FillSnapshot
  <2>2. snapshot' = snapshot \/ snapshot' = [snapshot EXCEPT !.state = "taken"]
    BY <1>6 DEF CopySnapshot, FillSnapshot
  <2>3. snapshot \in [state : {"allocating", "taken"}, count : Nat, allocation : AllocationType]
    BY <1>0, <1>t, <2>1 DEF SnapshotType
  <2>4. snapshot'.allocation = snapshot.allocation
    BY <2>2, <2>3
  <2> QED BY <2>1, <2>4 DEF OwnersInv
<1>7. CASE FreeSnapshot
  <2>1. /\ snapshot.state = "taken" /\ owned' = owned \ {snapshot.allocation}
        /\ snapshot' = NoSnapshot
    BY <1>7 DEF FreeSnapshot, pmm_free_snapshot
  <2> QED BY <1>0, <2>1 DEF OwnersInv
<1>8. CASE AllocateFrame \/ AllocateTable
  <2>1. PICK t \in {USED, ALLOCATED} :
           \E addr : AllocatePage(t, addr)
    BY <1>8 DEF AllocateFrame, AllocateTable
  <2>2. \E addr : Own(addr, 1, t) /\ UNCHANGED snapshot
    BY <2>1 DEF AllocatePage
  <2> QED BY <1>0, <1>1, <2>1, <2>2
<1>9. CASE SetupCores
  <2>1. PICK n \in PageCounts, t \in AllocTypes :
           \E addr : Own(addr, n, t) /\ UNCHANGED snapshot
    BY <1>9 DEF SetupCores
  <2> QED BY <1>1, <2>1, PageDbAssumption
<1>10. CASE AllocateBlock
  <2>1. PICK addr, n : Own(addr, n, ALLOCATED) /\ UNCHANGED snapshot
    BY <1>10 DEF AllocateBlock
  <2> QED BY <1>0, <1>1, <2>1
<1>11. CASE Retry
  <2>1. owned' = owned \ {block} /\ UNCHANGED snapshot /\ stage = "check"
    BY <1>11 DEF Retry
  <2>2. block.type = ALLOCATED
    BY <2>1 DEF BlockInv
  <2> QED BY <1>0, <2>1, <2>2 DEF OwnersInv
<1> QED
  BY <1>3, <1>4, <1>5, <1>6, <1>7, <1>8, <1>9, <1>10, <1>11
     DEF PublishNext, DbNext, Setup, Publishing

----------------------------------------------------------------------------
(* The steps of pagedb_setup.                                              *)

\* The database is left alone.
LEMMA DbKept ==
  ASSUME DbInv, UNCHANGED dbVars, OwnersInv', \A o \in owned : o.type = USED => o \in owned',
         Walking => UNCHANGED snapshot
  PROVE  DbInv'
<1>0. UNCHANGED <<stage, hhdm_size, slots, i, cursor, end, pagedb_mapped_end, frame, db>>
  BY DEF dbVars
<1>1. /\ DbTypes /\ HhdmInv /\ WindowInv /\ SlotsInv /\ FramesInv /\ WalkInv
      /\ (~Early /\ ~Walking => Described)
  BY Zenon DEF DbInv
<1>2. /\ Early' = Early /\ Walking' = Walking /\ Mapping' = Mapping
  BY <1>0 DEF Early, Walking, Mapping
<1>3. DbTypes' /\ HhdmInv'
  BY <1>0, <1>1, <1>2 DEF DbTypes, HhdmInv
<1>4. WindowInv'
  BY <1>0, <1>1, <1>2, SamePlace, Zenon DEF WindowInv
<1>5. SlotsInv'
  BY <1>0, <1>1, <1>2, SameSlots DEF SlotsInv
<1>6. FramesInv'
  <2>1. \A x : Allocation(x, 1, USED).type = USED
    BY DEF Allocation
  <2>2. \A x : Allocation(x, 1, USED) \in owned => Allocation(x, 1, USED) \in owned'
    BY <2>1
  <2> QED BY <1>0, <1>1, <1>2, <2>2 DEF FramesInv
<1>7. WalkInv'
  <2>1. pagedb_base' = pagedb_base
    BY <1>0, SamePlace
  <2> QED BY <1>0, <1>1, <1>2, <2>1, SamePlace, SameSlots DEF WalkInv
<1>8. (~Early /\ ~Walking => Described)'
  BY <1>0, <1>1, <1>2, SamePlace, Zenon
<1> QED BY <1>3, <1>4, <1>5, <1>6, <1>7, <1>8 DEF DbInv

\* The parts of the invariant, for steps that need some of them.
LEMMA DbParts ==
  ASSUME DbInv
  PROVE  /\ DbTypes /\ OwnersInv /\ HhdmInv /\ WindowInv /\ SlotsInv /\ FramesInv /\ WalkInv
         /\ hhdm_size \in Nat /\ i \in Nat /\ cursor \in Nat /\ end \in Nat
         /\ pagedb_mapped_end \in Nat /\ frame \in Nat /\ db \subseteq Nat \X Nat
         /\ pagedb_base \in Nat /\ pagedb_size \in Nat
  BY Geometry DEF DbInv, DbTypes

LEMMA HhdmDb ==
  ASSUME RegionsDisjoint, StrongInv, TruthInv, DbInv, OwnersInv', ComputeHhdmSize
  PROVE  DbInv'
<1>1. hhdm_size' \in Nat /\ HhdmInv'
  BY HhdmStep
<1>2. /\ stage = "before" /\ stage' = "setup"
      /\ UNCHANGED <<slots, i, cursor, end, pagedb_mapped_end, frame, db>>
  BY DEF ComputeHhdmSize, segment
<1>3. Early' /\ ~Walking' /\ ~Mapping' /\ Early
  BY <1>2 DEF Early, Walking, Mapping
<1>4. DbTypes'
  BY <1>1, <1>2, <1>3, DbParts DEF DbTypes
<1>5. i' = 0 /\ db' = {}
  BY <1>2, <1>3, DbParts DEF DbTypes
<1>6. WindowInv' /\ SlotsInv' /\ WalkInv'
  BY <1>2, <1>3 DEF WindowInv, SlotsInv, WalkInv
<1>7. FramesInv'
  BY <1>2, <1>5 DEF FramesInv
<1> QED BY <1>1, <1>3, <1>4, <1>6, <1>7 DEF DbInv

LEMMA SetupDb ==
  ASSUME DbInv, OwnersInv', pagedb_setup, panic' = "no"
  PROVE  DbInv'
<1>1. /\ stage = "setup" /\ stage' = "snapshot" /\ ~(pagedb_base + pagedb_size > kernel_base)
      /\ pagedb_mapped_end' = pagedb_base
      /\ UNCHANGED <<hhdm_size, slots, i, cursor, end, frame, db>>
  BY DEF pagedb_setup
<1>2. Early' /\ ~Walking' /\ ~Mapping' /\ Early
  BY <1>1 DEF Early, Walking, Mapping
<1>3. DbTypes' /\ HhdmInv'
  BY <1>1, <1>2, DbParts DEF DbTypes, HhdmInv
<1>4. i' = 0 /\ db' = {}
  BY <1>1, <1>2, DbParts DEF DbTypes
<1>5. AtPage(pagedb_base)
  <2>1. 0 \in 0..pagedb_base /\ pagedb_base = pagedb_base + 0 * PTM_PAGE_GRANULARITY
    BY DbParts, PageAssumption
  <2> QED BY <2>1, Zenon DEF AtPage
<1>6. WindowInv'
  <2>1. PICK b \in Nat : b = pagedb_base
    BY DbParts
  <2>2. pagedb_base' = b /\ pagedb_size' = pagedb_size /\ AtPage(b)'
    BY <1>1, <1>5, <2>1, SamePlace
  <2>3. b + pagedb_size <= kernel_base
    BY <1>1, <2>1, DbParts, PageDbAssumption
  <2>4. AtPage(pagedb_mapped_end)'
    BY <1>1, <2>1, <2>2, Zenon DEF AtPage
  <2> QED BY <1>1, <1>2, <2>1, <2>2, <2>3, <2>4, Zenon DEF WindowInv
<1>7. SlotsInv' /\ WalkInv'
  BY <1>2 DEF SlotsInv, WalkInv, Walking, Mapping
<1>8. FramesInv'
  BY <1>1, <1>4 DEF FramesInv
<1> QED BY <1>2, <1>3, <1>6, <1>7, <1>8 DEF DbInv

LEMMA CopyDb ==
  ASSUME RegionsDisjoint, StrongInv, TruthInv, PassInv, DbInv, OwnersInv', InArray', CopySnapshot,
         panic' = "no"
  PROVE  DbInv'
<1>1. /\ stage = "snapshot" /\ stage' = "slot" /\ Idle /\ snapshot.state = "allocating"
      /\ snapshot' = [snapshot EXCEPT !.state = "taken"]
      /\ slots' = [k \in 0..(snapshot.count - 1) |-> g_pmm_map[k]]
      /\ UNCHANGED <<hhdm_size, i, cursor, end, pagedb_mapped_end, frame, db>>
  <2>1. /\ "pmm snapshot size exceeds allocated memory" # "no"
        /\ "failed to allocate memory for pmm snapshot" # "no"
    OBVIOUS
  <2> QED BY <2>1 DEF CopySnapshot, FillSnapshot, segment
<1>2. calls = <<>> /\ todo = {} /\ TypeOK /\ MapSorted /\ RoomInv
  BY <1>1 DEF Idle, PassInv, StrongInv, IInv
<1>3. Early /\ ~Early' /\ Walking' /\ ~Mapping'
  BY <1>1 DEF Early, Walking, Mapping
<1>4. i = 0 /\ db = {}
  BY <1>3, DbParts DEF DbTypes
<1>5. DbTypes' /\ HhdmInv'
  BY <1>1, <1>3, DbParts DEF DbTypes, HhdmInv
<1>6. WindowInv' /\ pagedb_mapped_end = pagedb_base /\ pagedb_base' = pagedb_base
  <2>1. /\ pagedb_base + pagedb_size <= kernel_base
        /\ AtPage(pagedb_mapped_end) /\ pagedb_mapped_end = pagedb_base
    BY <1>1, DbParts DEF WindowInv
  <2> QED BY <1>1, <1>3, <2>1, SamePlace, Zenon DEF WindowInv
<1>t. snapshot \in [state : {"allocating", "taken"}, count : Nat, allocation : AllocationType]
  <2>1. snapshot \in SnapshotType
    BY <1>2, Zenon DEF TypeOK
  <2>2. NoSnapshot.state # "allocating"
    BY DEF NoSnapshot
  <2> QED BY <1>1, <2>1, <2>2 DEF SnapshotType
<1>7. PICK c \in Nat : c = snapshot.count /\ c = snapshot'.count
  BY <1>1, <1>t
<1>8. c <= PMM_MAP_MAX_ENTRIES /\ g_pmm_map_size <= c
  <2>1. snapshot'.state = "taken"
    BY <1>1, <1>t
  <2>2. g_pmm_map_size + Len(calls) <= c
    BY <1>1, <1>2, <1>7, Zenon DEF RoomInv
  <2>3. Len(calls) = 0 /\ g_pmm_map_size \in Nat
    BY <1>2, LiveFacts
  <2> QED BY <1>7, <2>1, <2>2, <2>3 DEF InArray
<1>9. /\ \A k \in 0..(c - 1) : k \in Slots /\ slots'[k] = g_pmm_map[k]
      /\ slots' = [k \in 0..(c - 1) |-> g_pmm_map[k]]
  BY <1>1, <1>7, <1>8, CapacityAssumption DEF Slots
<1>10. Live \subseteq 0..(c - 1)
  BY <1>2, <1>7, <1>8, LiveFacts DEF Live
<1>11. SlotsInv'
  <2>1. slots' \in [0..(c - 1) -> Entry]
    BY <1>2, <1>9 DEF TypeOK
  <2>2. ASSUME NEW k \in 0..(c - 1) PROVE End(slots'[k]) <= hhdm_size
    <3>1. \A r \in Regions : r.length > 0 => End(r) <= hhdm_size
      BY <1>1, DbParts DEF HhdmInv
    <3>2. End(g_pmm_map[k]) <= hhdm_size
      BY <1>2, <1>9, <3>1, DbParts, SlotBelow
    <3> QED BY <1>9, <3>2
  <2>3. ASSUME NEW r \in Regions, r.type # BAD, NEW a \in r.base..(End(r) - 1)
        PROVE  \E k \in 0..(c - 1) : InRange(a, slots'[k]) /\ InOrder(k)'
    <3>1. OwnersInv
      BY DbParts
    <3>2. PICK k \in Live :
            /\ InRange(a, g_pmm_map[k]) /\ g_pmm_map[k].type # BAD
            /\ \A j \in 0..(k - 1) : g_pmm_map[j].base <= g_pmm_map[k].base
      BY <1>2, <2>3, <3>1, EntryForMemory
    <3>3. k \in 0..(c - 1) /\ slots'[k] = g_pmm_map[k]
      BY <1>9, <1>10
    <3>4. \A j \in 0..(k - 1) : slots'[j] = g_pmm_map[j]
      BY <1>9, <3>3
    <3>5. InOrder(k)'
      BY <3>2, <3>3, <3>4 DEF InOrder
    <3> QED BY <3>2, <3>3, <3>5
  <2>4. i' <= c
    BY <1>1, <1>4, <1>7
  <2> QED BY <1>1, <1>3, <1>7, <2>1, <2>2, <2>3, <2>4, Zenon DEF SlotsInv, InRange, End
<1>12. FramesInv'
  BY <1>1, <1>3, <1>4 DEF FramesInv
<1>13. WalkInv'
  <2>1. /\ pagedb_base'..(pagedb_mapped_end' - 1) = {} /\ 0..(i' - 1) = {}
    BY <1>1, <1>4, <1>6, DbParts
  <2> QED BY <1>3, <2>1 DEF WalkInv
<1> QED BY <1>3, <1>5, <1>6, <1>11, <1>12, <1>13 DEF DbInv

\* The walk is over.
LEMMA AfterDb ==
  ASSUME DbInv, OwnersInv', \A o \in owned : o.type = USED => o \in owned',
         ~Early, ~Mapping, Described, stage' \in {"done", "cores", "allocate", "check", "published"},
         UNCHANGED <<hhdm_size, slots, i, cursor, end, pagedb_mapped_end, frame, db>>
  PROVE  DbInv'
<1>1. ~Early' /\ ~Walking' /\ ~Mapping' /\ stage' # "map" /\ stage # "before" /\ stage # "setup"
  BY DEF Early, Walking, Mapping
<1>2. DbTypes' /\ HhdmInv'
  BY <1>1, DbParts DEF DbTypes, HhdmInv
<1>3. WindowInv'
  <2>1. pagedb_base + pagedb_size <= kernel_base /\ AtPage(pagedb_mapped_end)
    BY <1>1, DbParts, Zenon DEF WindowInv
  <2>2. stage' # "snapshot"
    OBVIOUS
  <2> QED BY <1>1, <2>1, <2>2, SamePlace, Zenon DEF WindowInv
<1>4. SlotsInv' /\ WalkInv'
  BY <1>1 DEF SlotsInv, WalkInv, Walking, Mapping
<1>5. FramesInv'
  <2>1. \A x : Allocation(x, 1, USED).type = USED
    BY DEF Allocation
  <2>2. \A x : Allocation(x, 1, USED) \in owned => Allocation(x, 1, USED) \in owned'
    BY <2>1
  <2>3. (\A m \in db : m[1] < pagedb_mapped_end) /\ (\A m \in db : Allocation(m[2], 1, USED) \in owned)
    BY DbParts, Zenon DEF FramesInv
  <2> QED BY <1>1, <2>2, <2>3, Zenon DEF FramesInv
<1>6. Described'
  BY SamePlace
<1> QED BY <1>1, <1>2, <1>3, <1>4, <1>5, <1>6 DEF DbInv

\* The walk goes on with the same slots.
LEMMA SlotsKept ==
  ASSUME SlotsInv, HhdmInv, Walking, Walking', UNCHANGED <<hhdm_size, slots, snapshot>>,
         i' <= snapshot.count, Mapping' => i' < snapshot.count
  PROVE  /\ SlotsInv' /\ HhdmInv' /\ ~Early' /\ stage' # "snapshot"
         /\ stage' # "before" /\ stage' # "setup"
<1>1. \A k : InOrder(k)' <=> InOrder(k)
  BY SameSlots
<1>2. stage # "before" /\ stage' # "before" /\ stage' # "setup" /\ ~Early' /\ stage' # "snapshot"
  BY DEF Walking, Early
<1>3. SlotsInv'
  BY <1>1, Zenon DEF SlotsInv, InRange, End
<1>4. HhdmInv'
  BY <1>2 DEF HhdmInv
<1> QED BY <1>2, <1>3, <1>4

LEMMA SkipDb ==
  ASSUME DbInv, OwnersInv', snapshot.count \in Nat, SkipSlot
  PROVE  DbInv'
<1>1. /\ stage = "slot" /\ stage' = "slot" /\ i < snapshot.count /\ i' = i + 1
      /\ NothingToMap(slots[i])
      /\ UNCHANGED <<hhdm_size, slots, cursor, end, pagedb_mapped_end, frame, db, snapshot, owned>>
  BY DEF SkipSlot, AtSlot, segment, vars
<1>2. Walking /\ Walking' /\ ~Mapping /\ ~Mapping' /\ ~Early
  BY <1>1 DEF Walking, Mapping, Early
<1>3. SlotsInv' /\ HhdmInv' /\ ~Early'
  BY <1>1, <1>2, DbParts, SlotsKept
<1>4. DbTypes'
  BY <1>1, <1>3, DbParts DEF DbTypes
<1>5. WindowInv'
  <2>1. pagedb_base + pagedb_size <= kernel_base /\ AtPage(pagedb_mapped_end)
    BY <1>1, DbParts, Zenon DEF WindowInv
  <2>2. stage' # "snapshot"
    BY <1>1
  <2> QED BY <1>1, <1>2, <2>1, <2>2, SamePlace, Zenon DEF WindowInv
<1>6. FramesInv'
  BY <1>1, <1>2, DbParts DEF FramesInv
<1>7. WalkInv'
  <2>0. PICK b \in Nat : b = pagedb_base
    BY DbParts
  <2>1. PICK t \in Nat : t = pagedb_mapped_end
    BY DbParts
  <2>p. PICK n \in Nat : n = i
    BY DbParts
  <2>2. ASSUME NEW x \in b..(t - 1),
               \A j \in 0..n : slots[j].type # BAD => FirstPage(slots[j]) <= x
        PROVE  Mapped(x)
    <3>1. \A j \in 0..(n - 1) : j \in 0..n
      OBVIOUS
    <3> QED BY <1>2, <2>0, <2>1, <2>2, <2>p, <3>1, DbParts, Zenon DEF WalkInv
  <2>3. ASSUME NEW k \in 0..n, InOrder(k), NEW x \in FirstPage(slots[k])..(SegmentEnd(slots[k]) - 1)
        PROVE  Mapped(x)
    <3>1. CASE k # n
      <4>1. k \in 0..(n - 1)
        BY <3>1
      <4> QED BY <1>2, <2>3, <2>p, <4>1, DbParts, Zenon DEF WalkInv
    <3>2. CASE k = n
      <4>1. slots[n] \in Entry
        BY <1>1, <1>2, <2>p, DbParts, SlotFacts
      <4>2. /\ FirstPage(slots[n]) \in Nat /\ SegmentEnd(slots[n]) \in Nat
            /\ SegmentStart(slots[n]) \in {FirstPage(slots[n]), t} /\ SegmentStart(slots[n]) \in Nat
        BY <2>1, <4>1, DbParts, SlotPages, StartIs
      <4>3. x \in Nat /\ FirstPage(slots[n]) <= x /\ x < SegmentEnd(slots[n])
        BY <2>3, <3>2, <4>2
      <4>4. SegmentStart(slots[n]) >= SegmentEnd(slots[n])
        BY <1>1, <2>3, <2>p, <3>2 DEF NothingToMap, InOrder
      <4>5. x < t
        BY <4>2, <4>3, <4>4
      <4> QED BY <1>1, <1>2, <2>1, <2>3, <2>p, <3>2, <4>3, <4>5, DbParts, NoHole
    <3> QED BY <3>1, <3>2
  <2>4. i' - 1 = n
    BY <1>1, <2>p
  <2>5. pagedb_base' = b /\ pagedb_mapped_end' = t
    BY <1>1, <2>0, <2>1, SamePlace
  <2>6. \A x : Mapped(x)' <=> Mapped(x)
    BY <1>1, SamePlace
  <2> QED BY <1>1, <1>2, <2>2, <2>3, <2>4, <2>5, <2>6, SameSlots, Zenon DEF WalkInv
<1> QED BY <1>2, <1>3, <1>4, <1>5, <1>6, <1>7 DEF DbInv

LEMMA BeginDb ==
  ASSUME DbInv, OwnersInv', snapshot.count \in Nat, BeginSegment
  PROVE  DbInv'
<1>1. /\ stage = "slot" /\ stage' = "frame" /\ i < snapshot.count
      /\ slots[i].type # BAD /\ ~(SegmentStart(slots[i]) >= SegmentEnd(slots[i]))
      /\ cursor' = SegmentStart(slots[i]) /\ end' = SegmentEnd(slots[i])
      /\ UNCHANGED <<hhdm_size, slots, i, pagedb_mapped_end, frame, db, snapshot, owned>>
  BY DEF BeginSegment, AtSlot, vars, NothingToMap
<1>2. Walking /\ Walking' /\ ~Mapping /\ Mapping' /\ ~Early
  BY <1>1 DEF Walking, Mapping, Early
<1>3. SlotsInv' /\ HhdmInv' /\ ~Early'
  BY <1>1, <1>2, DbParts, SlotsKept
<1>4. i \in 0..(snapshot.count - 1) /\ slots[i] \in Entry /\ End(slots[i]) <= hhdm_size
  <2>1. i \in 0..(snapshot.count - 1)
    BY <1>1, DbParts
  <2> QED BY <1>2, <2>1, DbParts, SlotFacts DEF SlotsInv
<1>5. PICK s \in Nat : /\ s = SegmentStart(slots[i]) /\ s \in {FirstPage(slots[i]), pagedb_mapped_end}
                       /\ pagedb_mapped_end <= s
  BY <1>4, DbParts, StartIs
<1>6. PICK e \in Nat : /\ e = SegmentEnd(slots[i]) /\ AtPage(e) /\ AtPage(FirstPage(slots[i]))
                       /\ e <= pagedb_base + pagedb_size
  BY <1>4, DbParts, SlotPages
<1>7. DbTypes'
  BY <1>1, <1>3, <1>5, <1>6, DbParts DEF DbTypes
<1>8. pagedb_base + pagedb_size <= kernel_base /\ AtPage(pagedb_mapped_end) /\ AtPage(s)
  <2>1. pagedb_base + pagedb_size <= kernel_base /\ AtPage(pagedb_mapped_end)
    BY <1>1, DbParts, Zenon DEF WindowInv
  <2> QED BY <1>5, <1>6, <2>1
<1>9. WindowInv'
  <2>1. cursor' = s /\ end' = e /\ s < e /\ pagedb_mapped_end' = pagedb_mapped_end
    BY <1>1, <1>5, <1>6
  <2>2. stage' # "snapshot"
    BY <1>1
  <2>3. /\ AtPage(s)' /\ AtPage(e)' /\ AtPage(pagedb_mapped_end)
        /\ pagedb_base' = pagedb_base /\ pagedb_size' = pagedb_size
    BY <1>1, <1>6, <1>8, SamePlace
  <2>4. AtPage(cursor)' /\ AtPage(end)' /\ AtPage(pagedb_mapped_end)'
    BY <2>1, <2>3, Zenon DEF AtPage
  <2> QED BY <1>2, <1>5, <1>6, <1>8, <2>1, <2>2, <2>3, <2>4, Zenon DEF WindowInv
<1>10. FramesInv'
  <2>1. ASSUME NEW m \in db PROVE m[1] < s
    <3>1. m[1] < pagedb_mapped_end
      BY <1>2, DbParts DEF FramesInv
    <3>2. m[1] \in Nat
      BY DbParts
    <3> QED BY <1>5, <3>1, <3>2, DbParts
  <2> QED BY <1>1, <1>2, <1>5, <2>1, DbParts DEF FramesInv
<1>11. WalkInv'
  <2>1. cursor' = s /\ SegmentStart(slots[i])' = s /\ s..(s - 1) = {}
    <3>1. s..(s - 1) = {}
      OBVIOUS
    <3>2. SegmentStart(slots[i])' = SegmentStart(slots[i])
      BY <1>1, SamePlace DEF SegmentStart, Element
    <3> QED BY <1>1, <1>5, <3>1, <3>2
  <2>2. slots'[i'].type # BAD /\ end' = SegmentEnd(slots[i])'
    BY <1>1, SamePlace DEF SegmentEnd, Element, End
  <2>3. \A x : Mapped(x)' <=> Mapped(x)
    BY <1>1, SamePlace
  <2>4. pagedb_base' = pagedb_base /\ pagedb_mapped_end' = pagedb_mapped_end /\ i' = i
    BY <1>1, SamePlace
  <2>5. /\ \A k : FirstPage(slots[k])' = FirstPage(slots[k])
        /\ \A k : SegmentEnd(slots[k])' = SegmentEnd(slots[k])
        /\ \A k : InOrder(k)' <=> InOrder(k)
    BY <1>1, SameSlots
  <2>6. /\ \A x \in pagedb_base..(pagedb_mapped_end - 1) :
             (\A j \in 0..(i - 1) : slots[j].type # BAD => FirstPage(slots[j]) <= x)
                => Mapped(x)
        /\ \A k \in 0..(i - 1) : InOrder(k) =>
             \A x \in FirstPage(slots[k])..(SegmentEnd(slots[k]) - 1) : Mapped(x)
    BY <1>2, DbParts, Zenon DEF WalkInv
  <2>7. (Walking =>
         /\ \A x \in pagedb_base..(pagedb_mapped_end - 1) :
              (\A j \in 0..(i - 1) : slots[j].type # BAD => FirstPage(slots[j]) <= x)
                 => Mapped(x)
         /\ \A k \in 0..(i - 1) : InOrder(k) =>
              \A x \in FirstPage(slots[k])..(SegmentEnd(slots[k]) - 1) : Mapped(x))'
    BY <1>1, <2>3, <2>4, <2>5, <2>6, Zenon
  <2>8. (\A x \in SegmentStart(slots[i])..(cursor - 1) : Mapped(x))'
    BY <2>1
  <2> QED BY <1>2, <2>2, <2>7, <2>8, Zenon DEF WalkInv
<1> QED BY <1>2, <1>3, <1>7, <1>9, <1>10, <1>11 DEF DbInv

\* A page that has just been allocated is the frame of no other page.
LEMMA FrameFresh ==
  ASSUME IInv, FramesInv, db \subseteq Nat \X Nat, NEW t, NEW addr,
         pmm_alloc_ext(1, PTM_PAGE_GRANULARITY, t, addr)
  PROVE  addr \in Nat /\ \A m \in db : m[2] # addr
<1>0. TypeOK /\ MapSorted /\ OwnedInv /\ calls = <<>> /\ Pending = {} /\ USED # FREE
  <2>1. TypeOK /\ MapSorted /\ OwnedInv
    BY Zenon DEF IInv
  <2>2. calls = <<>>
    BY DEF pmm_alloc_ext, Idle
  <2> QED BY <2>1, <2>2 DEF Pending, USED, FREE
<1>1. PICK k \in Live : /\ addr \in Nat /\ g_pmm_map[k].type = FREE /\ g_pmm_map[k].base <= addr
                        /\ addr + Pages(1) <= End(g_pmm_map[k])
  BY <1>0, AllocFacts
<1>2. PICK l \in Nat : l = Pages(1) /\ l > 0
  BY PagesLength
<1>3. ASSUME NEW m \in db, m[2] = addr PROVE FALSE
  <2>1. PICK o \in owned : o = Allocation(addr, 1, USED)
    BY <1>3 DEF FramesInv
  <2>2. o.base = addr /\ End(o) = addr + l /\ o.type = USED
    BY <1>2, <2>1 DEF Allocation, End
  <2>3. Held(o)
    BY <1>0, Zenon DEF OwnedInv
  <2>4. PICK j \in Live : Within(o, g_pmm_map[j]) /\ g_pmm_map[j].type = USED
    BY <1>0, <2>2, <2>3 DEF Held
  <2>5. g_pmm_map[j].base <= addr /\ addr + l <= End(g_pmm_map[j])
    BY <2>2, <2>4 DEF Within
  <2>6. j # k
    BY <1>0, <1>1, <2>4
  <2> QED BY <1>0, <1>1, <1>2, <2>5, <2>6, LiveBounds
<1> QED BY <1>1, <1>3

\* Pages are allocated for the database and for its tables.
LEMMA PageDbKept ==
  ASSUME DbInv, OwnersInv', \A o \in owned : o.type = USED => o \in owned',
         stage \in {"frame", "map"}, stage' = "map",
         UNCHANGED <<snapshot, hhdm_size, slots, i, cursor, end, pagedb_mapped_end, db>>,
         frame' \in Nat, Allocation(frame', 1, USED) \in owned', \A m \in db : m[2] # frame'
  PROVE  DbInv'
<1>1. Walking /\ Walking' /\ Mapping /\ Mapping' /\ ~Early
  BY DEF Walking, Mapping, Early
<1>2. i < snapshot.count /\ i <= snapshot.count
  BY <1>1, DbParts DEF SlotsInv
<1>3. SlotsInv' /\ HhdmInv' /\ ~Early'
  BY <1>1, <1>2, DbParts, SlotsKept
<1>4. DbTypes'
  BY <1>3, DbParts DEF DbTypes
<1>5. WindowInv'
  <2>1. /\ pagedb_base + pagedb_size <= kernel_base /\ AtPage(pagedb_mapped_end)
        /\ AtPage(cursor) /\ AtPage(end) /\ cursor < end
        /\ pagedb_mapped_end <= cursor /\ end <= pagedb_base + pagedb_size
    BY <1>1, DbParts, Zenon DEF WindowInv, Mapping
  <2>2. stage' # "snapshot"
    OBVIOUS
  <2> QED BY <1>1, <2>1, <2>2, SamePlace, Zenon DEF WindowInv
<1>6. FramesInv'
  <2>1. \A x : Allocation(x, 1, USED).type = USED
    BY DEF Allocation
  <2>2. \A x : Allocation(x, 1, USED) \in owned => Allocation(x, 1, USED) \in owned'
    BY <2>1
  <2>3. (\A m \in db : m[1] < cursor) /\ (\A m \in db : Allocation(m[2], 1, USED) \in owned)
    BY <1>1, DbParts, Zenon DEF FramesInv
  <2> QED BY <1>1, <2>2, <2>3, Zenon DEF FramesInv
<1>7. WalkInv'
  <2>1. \A x : Mapped(x)' <=> Mapped(x)
    BY SamePlace
  <2>2. pagedb_base' = pagedb_base
    BY SamePlace
  <2>3. /\ \A k : FirstPage(slots[k])' = FirstPage(slots[k])
        /\ \A k : SegmentEnd(slots[k])' = SegmentEnd(slots[k])
        /\ \A k : InOrder(k)' <=> InOrder(k)
        /\ \A k : SegmentStart(slots[k])' = SegmentStart(slots[k])
    BY SameSlots
  <2>4. /\ \A x \in pagedb_base..(pagedb_mapped_end - 1) :
             (\A j \in 0..(i - 1) : slots[j].type # BAD => FirstPage(slots[j]) <= x)
                => Mapped(x)
        /\ \A k \in 0..(i - 1) : InOrder(k) =>
             \A x \in FirstPage(slots[k])..(SegmentEnd(slots[k]) - 1) : Mapped(x)
        /\ slots[i].type # BAD /\ end = SegmentEnd(slots[i])
        /\ \A x \in SegmentStart(slots[i])..(cursor - 1) : Mapped(x)
    BY <1>1, DbParts, Zenon DEF WalkInv
  <2>5. (Walking =>
         /\ \A x \in pagedb_base..(pagedb_mapped_end - 1) :
              (\A j \in 0..(i - 1) : slots[j].type # BAD => FirstPage(slots[j]) <= x)
                 => Mapped(x)
         /\ \A k \in 0..(i - 1) : InOrder(k) =>
              \A x \in FirstPage(slots[k])..(SegmentEnd(slots[k]) - 1) : Mapped(x))'
    BY <2>1, <2>2, <2>3, <2>4, Zenon
  <2>6. PICK n : n = i /\ n = i'
    OBVIOUS
  <2>7. SegmentEnd(slots[n])' = SegmentEnd(slots[n]) /\ SegmentStart(slots[n])' = SegmentStart(slots[n])
    BY <2>3
  <2>8. SegmentEnd(slots[i])' = SegmentEnd(slots[n]) /\ SegmentStart(slots[i])' = SegmentStart(slots[n])
    BY <2>6, SamePlace DEF SegmentEnd, SegmentStart, Element, End
  <2>9. (slots[i].type # BAD /\ end = SegmentEnd(slots[i]))'
    BY <2>4, <2>6, <2>8
  <2>10. (\A x \in SegmentStart(slots[i])..(cursor - 1) : Mapped(x))'
    <3>1. SegmentStart(slots[i])' = SegmentStart(slots[i]) /\ cursor' = cursor
      BY <2>6, <2>8
    <3> QED BY <2>1, <2>4, <3>1, Zenon
  <2> QED BY <1>1, <2>5, <2>9, <2>10, Zenon DEF WalkInv
<1> QED BY <1>1, <1>3, <1>4, <1>5, <1>6, <1>7 DEF DbInv

LEMMA FrameDb ==
  ASSUME IInv, DbInv, OwnersInv', \A o \in owned : o.type = USED => o \in owned', AllocateFrame
  PROVE  DbInv'
<1>1. PICK addr : /\ pmm_alloc_ext(1, PTM_PAGE_GRANULARITY, USED, addr) /\ Own(addr, 1, USED)
                  /\ frame' = addr /\ UNCHANGED snapshot
  BY DEF AllocateFrame, AllocatePage
<1>2. /\ stage = "frame" /\ stage' = "map"
      /\ UNCHANGED <<hhdm_size, slots, i, cursor, end, pagedb_mapped_end, db>>
  BY DEF AllocateFrame, segment
<1>3. FramesInv /\ db \subseteq Nat \X Nat
  BY DbParts
<1>4. addr \in Nat /\ \A m \in db : m[2] # addr
  BY <1>1, <1>3, FrameFresh
<1>5. Allocation(frame', 1, USED) \in owned'
  BY <1>1 DEF Own
<1> QED BY <1>1, <1>2, <1>4, <1>5, PageDbKept

LEMMA TableDb ==
  ASSUME DbInv, OwnersInv', \A o \in owned : o.type = USED => o \in owned', AllocateTable
  PROVE  DbInv'
<1>1. /\ stage = "map" /\ stage' = "map"
      /\ UNCHANGED <<snapshot, hhdm_size, slots, i, cursor, end, pagedb_mapped_end, db, frame>>
  BY DEF AllocateTable, AllocatePage, segment
<1>2. Allocation(frame, 1, USED) \in owned /\ (\A m \in db : m[2] # frame) /\ frame \in Nat
  BY <1>1, DbParts, Zenon DEF FramesInv
<1>3. Allocation(frame', 1, USED) \in owned'
  <2>1. Allocation(frame, 1, USED).type = USED
    BY DEF Allocation
  <2> QED BY <1>1, <1>2, <2>1
<1> QED BY <1>1, <1>2, <1>3, PageDbKept

\* A page of the database is mapped: the last of its segment, or not.
LEMMA MapDb ==
  ASSUME DbInv, OwnersInv', snapshot.count \in Nat, MapPage
  PROVE  DbInv'
<1> DEFINE G == PTM_PAGE_GRANULARITY
<1>1. /\ stage = "map" /\ db' = db \cup {<<cursor, frame>>} /\ cursor' = cursor + G
      /\ IF cursor + G < end
           THEN stage' = "frame" /\ UNCHANGED <<i, pagedb_mapped_end>>
           ELSE stage' = "slot" /\ i' = i + 1 /\ pagedb_mapped_end' = end
      /\ UNCHANGED <<hhdm_size, slots, end, frame, snapshot, owned>>
  BY DEF MapPage, NextPage, vars
<1>2. /\ Walking /\ Walking' /\ Mapping /\ ~Early
      /\ stage' # "map"
  BY <1>1 DEF Walking, Mapping, Early
<1>m. /\ cursor + G < end => Mapping' /\ UNCHANGED <<i, pagedb_mapped_end>>
      /\ ~(cursor + G < end) => ~Mapping' /\ i' = i + 1 /\ pagedb_mapped_end' = end
  BY <1>1 DEF Mapping
<1>3. /\ pagedb_base + pagedb_size <= kernel_base /\ AtPage(pagedb_mapped_end)
      /\ AtPage(cursor) /\ AtPage(end) /\ cursor < end
      /\ pagedb_mapped_end <= cursor /\ end <= pagedb_base + pagedb_size
  BY <1>2, DbParts, Zenon DEF WindowInv, Early, Mapping
<1>4. /\ cursor + G <= end /\ AtPage(cursor + G) /\ pagedb_base <= cursor
      /\ G \in Nat \ {0}
  BY <1>3, DbParts, NextPageAt, PageAssumption
<1>5. i < snapshot.count /\ i \in 0..(snapshot.count - 1) /\ slots[i] \in Entry
  <2>1. i < snapshot.count
    BY <1>2, DbParts DEF SlotsInv
  <2>2. i \in 0..(snapshot.count - 1)
    BY <2>1, DbParts
  <2> QED BY <1>2, <2>1, <2>2, DbParts, SlotFacts
<1>6. SlotsInv' /\ HhdmInv' /\ ~Early' /\ stage' # "snapshot"
  <2>1. i' <= snapshot.count /\ (Mapping' => i' < snapshot.count)
    BY <1>m, <1>5, DbParts
  <2> QED BY <1>1, <1>2, <2>1, DbParts, SlotsKept
<1>7. DbTypes'
  BY <1>1, <1>4, <1>6, DbParts DEF DbTypes
<1>8. \A m \in db' : m \in db \/ m = <<cursor, frame>>
  BY <1>1
<1>9. \A x \in Nat : Mapped(x) \/ (cursor <= x /\ x < cursor + G) => Mapped(x)'
  <2>1. ASSUME NEW x \in Nat, Mapped(x) PROVE Mapped(x)'
    BY <1>1, <2>1 DEF Mapped
  <2>2. ASSUME NEW x \in Nat, cursor <= x, x < cursor + G PROVE Mapped(x)'
    <3>0. PICK m : m = <<cursor, frame>>
      OBVIOUS
    <3>1. m \in db' /\ m[1] = cursor
      BY <1>1, <3>0
    <3> QED BY <2>2, <3>1 DEF Mapped
  <2> QED BY <2>1, <2>2
<1>p. PICK b \in Nat : b = pagedb_base /\ b = pagedb_base'
  BY <1>1, SamePlace, DbParts
<1>10. WindowInv'
  <2>1. \A x : AtPage(x)' <=> AtPage(x)
    BY <1>1, SamePlace
  <2>2. AtPage(cursor)' /\ AtPage(end)' /\ AtPage(pagedb_mapped_end)'
    <3>1. PICK x : x = cursor' /\ AtPage(x)
      BY <1>1, <1>4
    <3>2. PICK y : y = end' /\ AtPage(y)
      BY <1>1, <1>3
    <3>3. PICK z : z = pagedb_mapped_end' /\ AtPage(z)
      BY <1>1, <1>3
    <3> QED BY <2>1, <3>1, <3>2, <3>3 DEF AtPage
  <2>3. pagedb_base' + pagedb_size' <= kernel_base /\ end' <= pagedb_base' + pagedb_size'
    BY <1>1, <1>3, SamePlace
  <2>4. Mapping' => cursor' < end' /\ pagedb_mapped_end' <= cursor'
    BY <1>1, <1>m, <1>3, <1>4, DbParts
  <2> QED BY <1>6, <2>2, <2>3, <2>4 DEF WindowInv
<1>11. FramesInv'
  <2>1. /\ \A m \in db : m[1] < cursor /\ m[1] \in Nat
        /\ \A m \in db : Allocation(m[2], 1, USED) \in owned
        /\ Allocation(frame, 1, USED) \in owned
    BY <1>1, <1>2, DbParts DEF FramesInv
  <2>2. (IF Mapping THEN cursor ELSE pagedb_mapped_end)' = cursor + G
    BY <1>1, <1>m, <1>4, DbParts
  <2>3. \A m \in db' : m[1] < cursor + G
    BY <1>4, <1>8, <2>1, DbParts
  <2>4. \A m \in db' : Allocation(m[2], 1, USED) \in owned'
    BY <1>1, <1>8, <2>1
  <2> QED BY <1>2, <2>2, <2>3, <2>4 DEF FramesInv
\* The part of the walk so far.
<1>12. /\ \A x \in pagedb_base..(pagedb_mapped_end - 1) :
             (\A j \in 0..(i - 1) : slots[j].type # BAD => FirstPage(slots[j]) <= x)
                => Mapped(x)
       /\ \A k \in 0..(i - 1) : InOrder(k) =>
             \A x \in FirstPage(slots[k])..(SegmentEnd(slots[k]) - 1) : Mapped(x)
       /\ slots[i].type # BAD /\ end = SegmentEnd(slots[i])
       /\ \A x \in SegmentStart(slots[i])..(cursor - 1) : Mapped(x)
  BY <1>2, DbParts, Zenon DEF WalkInv
<1>13. /\ SegmentStart(slots[i]) \in {FirstPage(slots[i]), pagedb_mapped_end}
       /\ SegmentStart(slots[i]) \in Nat /\ FirstPage(slots[i]) \in Nat
       /\ pagedb_base <= FirstPage(slots[i])
  BY <1>5, DbParts, StartIs, SlotPages
<1>14. ASSUME NEW x \in Nat, SegmentStart(slots[i]) <= x, x < cursor + G
       PROVE  Mapped(x)'
  <2>1. CASE x < cursor
    <3>1. x \in SegmentStart(slots[i])..(cursor - 1)
      BY <1>13, <1>14, <2>1, DbParts
    <3> QED BY <1>9, <1>12, <3>1
  <2>2. CASE ~(x < cursor)
    BY <1>9, <1>14, <2>2, DbParts
  <2> QED BY <2>1, <2>2
<1>15. /\ \A k : FirstPage(slots[k])' = FirstPage(slots[k])
       /\ \A k : SegmentEnd(slots[k])' = SegmentEnd(slots[k])
       /\ \A k : InOrder(k)' <=> InOrder(k)
  BY <1>1, SameSlots
<1>16. CASE cursor + G < end
  <2>1. UNCHANGED <<i, pagedb_mapped_end>>
    BY <1>1, <1>16
  <2>2. ASSUME NEW x \in pagedb_base..(pagedb_mapped_end - 1),
               \A j \in 0..(i - 1) : slots[j].type # BAD => FirstPage(slots[j]) <= x
        PROVE  Mapped(x)'
    <3>1. x \in Nat
      BY DbParts
    <3> QED BY <1>9, <1>12, <2>2, <3>1
  <2>3. ASSUME NEW k \in 0..(i - 1), InOrder(k),
               NEW x \in FirstPage(slots[k])..(SegmentEnd(slots[k]) - 1)
        PROVE  Mapped(x)'
    <3>1. k \in 0..(snapshot.count - 1)
      BY <1>5, DbParts
    <3>2. FirstPage(slots[k]) \in Nat /\ SegmentEnd(slots[k]) \in Nat
      BY <1>2, <3>1, DbParts, SlotFacts, SlotPages
    <3>3. x \in Nat
      BY <3>2
    <3> QED BY <1>9, <1>12, <2>3, <3>3
  <2>4. ASSUME NEW x \in SegmentStart(slots[i])..(cursor + G - 1) PROVE Mapped(x)'
    <3>1. x \in Nat /\ SegmentStart(slots[i]) <= x /\ x < cursor + G
      BY <1>4, <1>13, DbParts
    <3> QED BY <1>14, <3>1
  <2>5. SegmentStart(slots[i])' = SegmentStart(slots[i])
        /\ SegmentEnd(slots[i])' = SegmentEnd(slots[i])
    BY <1>1, <2>1, SamePlace DEF SegmentStart, SegmentEnd, Element, End
  <2>6. (Walking =>
          /\ \A x \in pagedb_base..(pagedb_mapped_end - 1) :
               (\A j \in 0..(i - 1) : slots[j].type # BAD => FirstPage(slots[j]) <= x)
                  => Mapped(x)
          /\ \A k \in 0..(i - 1) : InOrder(k) =>
               \A x \in FirstPage(slots[k])..(SegmentEnd(slots[k]) - 1) : Mapped(x))'
    BY <1>1, <1>p, <1>15, <2>1, <2>2, <2>3, Zenon
  <2>7. (\A x \in SegmentStart(slots[i])..(cursor - 1) : Mapped(x))'
    <3>1. cursor' = cursor + G
      BY <1>1
    <3>2. PICK s \in Nat : s = SegmentStart(slots[i]) /\ s = SegmentStart(slots[i])'
      BY <1>13, <2>5
    <3>3. \A x \in s..(cursor + G - 1) : Mapped(x)'
      BY <2>4, <3>2
    <3>4. ASSUME NEW x \in s..(cursor' - 1) PROVE Mapped(x)'
      <4>1. x \in s..(cursor + G - 1)
        BY <1>4, <3>1, DbParts
      <4> QED BY <3>3, <4>1, Zenon
    <3> QED BY <3>2, <3>4, Zenon
  <2>8. (slots[i].type # BAD /\ end = SegmentEnd(slots[i]))'
    BY <1>1, <1>12, <2>1, <2>5
  <2>9. WalkInv'
    BY <2>6, <2>7, <2>8, Zenon DEF WalkInv
  <2> QED BY <1>6, <1>7, <1>10, <1>11, <1>2, <2>9 DEF DbInv
<1>17. CASE ~(cursor + G < end)
  <2>1. i' = i + 1 /\ pagedb_mapped_end' = end /\ cursor + G = end /\ ~Mapping'
    BY <1>m, <1>4, <1>17, DbParts
  <2>0. PICK n \in Nat : n = i /\ i' - 1 = n
    BY <2>1, DbParts
  <2>2. ASSUME NEW x \in pagedb_base..(end - 1),
               \A j \in 0..n : slots[j].type # BAD => FirstPage(slots[j]) <= x
        PROVE  Mapped(x)'
    <3>1. x \in Nat /\ x < end /\ pagedb_base <= x
      BY DbParts
    <3>2. CASE SegmentStart(slots[i]) <= x
      BY <1>14, <2>1, <3>1, <3>2
    <3>3. CASE ~(SegmentStart(slots[i]) <= x)
      <4>1. n \in 0..n
        OBVIOUS
      <4>2. FirstPage(slots[n]) <= x
        BY <1>12, <2>0, <2>2, <4>1
      <4>3. x < pagedb_mapped_end
        BY <1>13, <2>0, <3>1, <3>3, <4>2, DbParts
      <4>4. x \in pagedb_base..(pagedb_mapped_end - 1)
        BY <3>1, <4>3, DbParts
      <4>5. \A j \in 0..(n - 1) : j \in 0..n
        OBVIOUS
      <4>6. Mapped(x)
        BY <1>12, <2>0, <2>2, <4>4, <4>5, Zenon
      <4> QED BY <1>9, <3>1, <4>6
    <3> QED BY <3>2, <3>3
  <2>3. ASSUME NEW k \in 0..n, InOrder(k),
               NEW x \in FirstPage(slots[k])..(SegmentEnd(slots[k]) - 1)
        PROVE  Mapped(x)'
    <3>1. k \in 0..(snapshot.count - 1)
      BY <1>5, <2>0, DbParts
    <3>2. FirstPage(slots[k]) \in Nat /\ SegmentEnd(slots[k]) \in Nat
      BY <1>2, <3>1, DbParts, SlotFacts, SlotPages
    <3>3. x \in Nat /\ FirstPage(slots[k]) <= x /\ x < SegmentEnd(slots[k])
      BY <3>2
    <3>4. CASE k # n
      <4>1. k \in 0..(n - 1)
        BY <3>4
      <4>2. Mapped(x)
        BY <1>12, <2>0, <2>3, <4>1, Zenon
      <4> QED BY <1>9, <3>3, <4>2
    <3>5. CASE k = n
      <4>1. x < end /\ FirstPage(slots[i]) <= x /\ InOrder(i)
        BY <1>12, <2>0, <2>3, <3>3, <3>5
      <4>2. CASE SegmentStart(slots[i]) <= x
        BY <1>14, <2>1, <3>3, <4>1, <4>2
      <4>3. CASE ~(SegmentStart(slots[i]) <= x)
        <5>1. x < pagedb_mapped_end
          BY <1>13, <3>3, <4>1, <4>3, DbParts
        <5>2. Mapped(x)
          BY <1>2, <1>5, <3>3, <4>1, <5>1, DbParts, NoHole
        <5> QED BY <1>9, <3>3, <5>2
      <4> QED BY <4>2, <4>3
    <3> QED BY <3>4, <3>5
  <2>4. WalkInv'
    <3>1. (Walking =>
            /\ \A x \in pagedb_base..(pagedb_mapped_end - 1) :
                 (\A j \in 0..(i - 1) : slots[j].type # BAD => FirstPage(slots[j]) <= x)
                    => Mapped(x)
            /\ \A k \in 0..(i - 1) : InOrder(k) =>
                 \A x \in FirstPage(slots[k])..(SegmentEnd(slots[k]) - 1) : Mapped(x))'
      <4>1. pagedb_base' = pagedb_base /\ slots' = slots /\ pagedb_mapped_end' = end /\ i' - 1 = n
        BY <1>1, <1>p, <2>0, <2>1
      <4> QED BY <1>15, <2>2, <2>3, <4>1, Zenon
    <3> QED BY <2>1, <3>1, Zenon DEF WalkInv
  <2> QED BY <1>6, <1>7, <1>10, <1>11, <1>2, <2>4 DEF DbInv
<1> QED BY <1>16, <1>17

----------------------------------------------------------------------------
(* The database in every state.                                            *)

\* Every step of the pre-kernel.
LEMMA DbStep ==
  ASSUME RegionsDisjoint, PublishInv, DbInv, InArray', PublishNext, panic' = "no"
  PROVE  DbInv'
<1>0. /\ StrongInv /\ TruthInv /\ PassInv /\ BlockInv /\ IInv /\ TypeOK
  BY StepsRun DEF PublishInv, MemoryInv, StrongInv, IInv
<1>1. OwnersInv' /\ \A o \in owned : o.type = USED => o \in owned'
  BY <1>0, DbParts, OwnersStep
<1>2. Walking => snapshot.count \in Nat
  <2>1. snapshot \in SnapshotType /\ (Walking => snapshot.state = "taken")
    BY <1>0, Zenon DEF TypeOK, PassInv
  <2>2. NoSnapshot.state # "taken"
    BY DEF NoSnapshot
  <2> QED BY <2>1, <2>2 DEF SnapshotType
<1>3. CASE Before \/ Scan \/ StartSnapshot
  <2>1. UNCHANGED dbVars
    BY <1>3 DEF Before, Scan, StartSnapshot
  <2>2. Walking => UNCHANGED snapshot
    BY <1>3 DEF Before, Scan, StartSnapshot, Walking, MapSet
  <2> QED BY <1>1, <2>1, <2>2, DbKept
<1>4. CASE ComputeHhdmSize
  BY <1>0, <1>1, <1>4, HhdmDb
<1>5. CASE pagedb_setup
  BY <1>1, <1>5, SetupDb
<1>6. CASE CopySnapshot
  BY <1>0, <1>1, <1>6, CopyDb
<1>7. CASE SkipSlot
  <2>1. Walking
    BY <1>7 DEF SkipSlot, AtSlot, Walking
  <2> QED BY <1>1, <1>2, <1>7, <2>1, SkipDb
<1>8. CASE BeginSegment
  <2>1. Walking
    BY <1>8 DEF BeginSegment, AtSlot, Walking
  <2> QED BY <1>1, <1>2, <1>8, <2>1, BeginDb
<1>9. CASE AllocateFrame
  BY <1>0, <1>1, <1>9, FrameDb
<1>10. CASE AllocateTable
  BY <1>1, <1>10, TableDb
<1>11. CASE MapPage
  <2>1. Walking
    BY <1>11 DEF MapPage, Walking
  <2> QED BY <1>1, <1>2, <1>11, <2>1, MapDb
<1>12. CASE FreeSnapshot
  <2>1. /\ stage = "slot" /\ i = snapshot.count /\ stage' = "done"
        /\ UNCHANGED <<hhdm_size, slots, i, cursor, end, pagedb_mapped_end, frame, db>>
    BY <1>12 DEF FreeSnapshot, segment
  <2>2. Walking /\ ~Early /\ ~Mapping
    BY <2>1 DEF Walking, Early, Mapping
  <2>3. Described
    BY <1>2, <2>1, <2>2, DbParts, WalkDescribes
  <2> QED BY <1>1, <2>1, <2>2, <2>3, AfterDb
<1>13. CASE SetupCores \/ Start \/ AllocateBlock \/ Retry \/ Copy
  <2>1. /\ stage \in {"done", "cores", "allocate", "check"}
        /\ stage' \in {"done", "cores", "allocate", "check", "published"}
        /\ UNCHANGED <<hhdm_size, slots, i, cursor, end, pagedb_mapped_end, frame, db>>
    BY <1>13 DEF SetupCores, Start, AllocateBlock, Retry, Copy, SettingUp, pagedbResult, segment
  <2>2. ~Early /\ ~Walking /\ ~Mapping
    BY <2>1 DEF Early, Walking, Mapping
  <2>3. Described
    BY <2>2 DEF DbInv
  <2> QED BY <1>1, <2>1, <2>2, <2>3, AfterDb
<1>14. CASE PageOutOfMemory \/ UnalignedPage \/ CoresOutOfMemory \/ BlockOutOfMemory
  <2>1. panic' = "out of memory" \/ panic' = "unaligned mapping"
    BY <1>14 DEF PageOutOfMemory, UnalignedPage, CoresOutOfMemory, BlockOutOfMemory,
       pmm_alloc_ext_fails
  <2> QED BY <2>1
<1> QED
  BY <1>3, <1>4, <1>5, <1>6, <1>7, <1>8, <1>9, <1>10, <1>11, <1>12, <1>13, <1>14
     DEF PublishNext, DbNext, Setup, Publishing

\* The database itself changes when a page of it is mapped, and only then.
LEMMA DbSame ==
  ASSUME PublishNext
  PROVE  ComputeHhdmSize \/ MapPage \/ UNCHANGED <<db, hhdm_size>>
<1>1. CASE DbNext
  BY <1>1 DEF DbNext, Before, Scan, Setup, pagedb_setup, StartSnapshot, CopySnapshot,
     SkipSlot, BeginSegment, AllocateFrame, AllocateTable, PageOutOfMemory, UnalignedPage,
     FreeSnapshot, dbVars
<1>2. CASE Publishing
  BY <1>2 DEF Publishing, SetupCores, CoresOutOfMemory, Start, AllocateBlock,
     BlockOutOfMemory, Retry, Copy, pagedbResult, dbVars
<1> QED BY <1>1, <1>2 DEF PublishNext

LEMMA MappedStep ==
  ASSUME DbInv, PagedbInside, \A m, n \in db : m # n => m[1] # n[1] /\ m[2] # n[2], PublishNext
  PROVE  /\ PagedbInside'
         /\ \A m, n \in db' : m # n => m[1] # n[1] /\ m[2] # n[2]
<1>1. CASE UNCHANGED <<db, hhdm_size>>
  <2>1. pagedb_base' = pagedb_base /\ pagedb_size' = pagedb_size
    BY <1>1, SamePlace
  <2> QED BY <1>1, <2>1 DEF PagedbInside
<1>2. CASE ComputeHhdmSize
  <2>1. db' = {}
    BY <1>2, DbParts DEF ComputeHhdmSize, DbTypes, Early
  <2> QED BY <2>1 DEF PagedbInside
<1>3. CASE MapPage
  <2> DEFINE G == PTM_PAGE_GRANULARITY
  <2>1. /\ stage = "map" /\ db' = db \cup {<<cursor, frame>>} /\ UNCHANGED hhdm_size
    BY <1>3 DEF MapPage
  <2>2. PICK m : m = <<cursor, frame>> /\ db' = db \cup {m}
    BY <2>1
  <2>3. m[1] = cursor /\ m[2] = frame
    BY <2>2
  <2>4. pagedb_base' = pagedb_base /\ pagedb_size' = pagedb_size
    BY <2>1, SamePlace
  <2>5. /\ pagedb_base + pagedb_size <= kernel_base
        /\ AtPage(cursor) /\ AtPage(end) /\ cursor < end /\ end <= pagedb_base + pagedb_size
    BY <2>1, DbParts, Zenon DEF WindowInv, Mapping
  <2>6. cursor + G <= end /\ pagedb_base <= cursor /\ G \in Nat
    BY <2>5, DbParts, NextPageAt, PageAssumption
  <2>7. /\ pagedb_base <= m[1] /\ m[1] + G <= pagedb_base + pagedb_size /\ m[1] + G <= kernel_base
    BY <2>3, <2>5, <2>6, DbParts, PageDbAssumption
  <2>8. PagedbInside'
    BY <2>2, <2>4, <2>7 DEF PagedbInside
  <2>9. \A n \in db : n[1] < cursor /\ n[1] \in Nat /\ n[2] # frame
    BY <2>1, DbParts DEF FramesInv, Mapping
  <2>10. \A n \in db : n[1] # m[1] /\ n[2] # m[2]
    BY <2>3, <2>9, DbParts
  <2> QED BY <2>2, <2>8, <2>10, ZenonT(60)
<1> QED BY <1>1, <1>2, <1>3, DbSame

LEMMA PagedbInitInv == PublishInit => PagedbInv
<1> SUFFICES ASSUME PublishInit PROVE PagedbInv
  OBVIOUS
<1>1. /\ stage = "before" /\ hhdm_size = 0 /\ i = 0 /\ cursor = 0 /\ end = 0
      /\ pagedb_mapped_end = 0 /\ frame = 0 /\ db = {} /\ owned = {} /\ snapshot = NoSnapshot
  BY DEF PublishInit, DbInit, Init
<1>2. Early /\ ~Walking /\ ~Mapping
  BY <1>1 DEF Early, Walking, Mapping
<1>3. DbTypes /\ HhdmInv /\ WindowInv /\ SlotsInv /\ FramesInv /\ WalkInv
  BY <1>1, <1>2 DEF DbTypes, HhdmInv, WindowInv, SlotsInv, FramesInv, WalkInv
<1>4. OwnersInv
  BY <1>1 DEF OwnersInv, NoSnapshot
<1> QED BY <1>1, <1>2, <1>3, <1>4 DEF PagedbInv, DbInv, PagedbInside

LEMMA PagedbStep ==
  ASSUME RegionsDisjoint, PublishInv, PagedbInv, InArray', [PublishNext]_bootVars
  PROVE  PagedbInv'
<1>1. CASE UNCHANGED bootVars
  <2>1. UNCHANGED <<dbVars, owned, snapshot, panic, db, hhdm_size>>
    BY <1>1 DEF bootVars, vars, dbVars
  <2>2. panic' = "no" => DbInv'
    <3>1. ASSUME DbInv PROVE DbInv'
      <4>1. OwnersInv'
        BY <2>1, <3>1, DbParts DEF OwnersInv
      <4> QED BY <2>1, <3>1, <4>1, DbKept
    <3> QED BY <2>1, <3>1 DEF PagedbInv
  <2>3. PagedbInside'
    <3>1. pagedb_base' = pagedb_base /\ pagedb_size' = pagedb_size
      BY <2>1, SamePlace
    <3> QED BY <2>1, <3>1 DEF PagedbInv, PagedbInside
  <2> QED BY <2>1, <2>2, <2>3 DEF PagedbInv
<1>2. CASE PublishNext
  <2>1. DbInv
    BY <1>2, StepsRun DEF PagedbInv
  <2>2. panic' = "no" => DbInv'
    BY <1>2, <2>1, DbStep
  <2>3. /\ PagedbInside'
        /\ \A m, n \in db' : m # n => m[1] # n[1] /\ m[2] # n[2]
    BY <1>2, <2>1, MappedStep, Zenon DEF PagedbInv
  <2> QED BY <2>2, <2>3, Zenon DEF PagedbInv
<1> QED BY <1>1, <1>2

\* A snapshot copies two slots more than the map has entries.  As long as those are
\* slots of the array, and not what the linker has put behind it (pmm.c:164, 171),
\* the invariant of the page database holds.
THEOREM PagedbInvariance ==
  ASSUME RegionsDisjoint
  PROVE  PublishSpec /\ []InArray => [](PublishInv /\ PagedbInv)
<1>1. PublishInit => PublishInv /\ PagedbInv
  BY PublishInitInv, PagedbInitInv
<1>2. PublishInv /\ PagedbInv /\ InArray' /\ [PublishNext]_bootVars => PublishInv' /\ PagedbInv'
  BY PublishStep, PagedbStep
<1> QED BY <1>1, <1>2, PTL DEF PublishSpec

\* Whatever the slots say, also those that are not in use, nothing is mapped outside
\* the range that the kernel is told, or into its image (pagedb.c:13, 18-19, 38).
THEOREM PagedbAlwaysInside ==
  ASSUME RegionsDisjoint
  PROVE  PublishSpec /\ []InArray => []PagedbInside
<1>1. PagedbInv => PagedbInside
  BY DEF PagedbInv
<1> QED BY <1>1, PagedbInvariance, PTL

\* No page of the database is mapped twice, and each has a frame of its own that the
\* map gives to nobody else, although slots share pages and the frames come out of
\* the map while the snapshot is walked (pagedb.c:38-45).
THEOREM PagedbAlwaysMappedOnce ==
  ASSUME RegionsDisjoint
  PROVE  PublishSpec /\ []InArray => []PagedbMappedOnce
<1>1. PublishInv /\ PagedbInv => PagedbMappedOnce
  <2> SUFFICES ASSUME PublishInv, PagedbInv PROVE PagedbMappedOnce
    OBVIOUS
  <2>1. \A m, n \in db : m # n => m[1] # n[1] /\ m[2] # n[2]
    BY Zenon DEF PagedbInv
  <2>2. ASSUME Idle, NEW m \in db
        PROVE  \E k \in Live : /\ g_pmm_map[k].type = USED
                               /\ g_pmm_map[k].base <= m[2]
                               /\ m[2] + PTM_PAGE_GRANULARITY <= End(g_pmm_map[k])
    <3>1. StrongInv /\ DbInv /\ calls = <<>>
      BY <2>2 DEF Idle, PublishInv, MemoryInv, PagedbInv
    <3>2. OwnedInv /\ Pending = {}
      BY <3>1 DEF StrongInv, IInv, Pending
    <3>3. PICK o \in owned : o = Allocation(m[2], 1, USED)
      BY <2>2, <3>1, DbParts DEF FramesInv
    <3>4. Held(o)
      BY <3>2, Zenon DEF OwnedInv
    <3>5. PICK k \in Live : Within(o, g_pmm_map[k]) /\ g_pmm_map[k].type = o.type
      BY <3>2, <3>4 DEF Held
    <3>6. o.base = m[2] /\ o.type = USED /\ End(o) = m[2] + PTM_PAGE_GRANULARITY
      <4>1. Pages(1) = PTM_PAGE_GRANULARITY
        BY PageAssumption DEF Pages
      <4> QED BY <3>3, <4>1 DEF Allocation, End
    <3> QED BY <3>5, <3>6 DEF Within
  <2> QED BY <2>1, <2>2 DEF PagedbMappedOnce
<1> QED BY <1>1, PagedbInvariance, PTL

\* When the walk is over, the element of every page that is wholly memory is mapped
\* from its first byte to its last (pagedb.c:23-47).
THEOREM PagedbEndsComplete ==
  ASSUME RegionsDisjoint
  PROVE  PublishSpec /\ []InArray => []PagedbComplete
<1>1. PagedbInv => PagedbComplete
  <2> SUFFICES ASSUME PagedbInv, Finished PROVE Described
    BY Zenon DEF Described, Mapped, PagedbComplete
  <2>1. DbInv /\ ~Early /\ ~Walking
    BY DEF PagedbInv, Finished, Idle, Early, Walking
  <2> QED BY <2>1 DEF DbInv
<1> QED BY <1>1, PagedbInvariance, PTL
=============================================================================
