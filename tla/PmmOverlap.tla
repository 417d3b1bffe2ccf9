----------------------------- MODULE PmmOverlap -----------------------------
(***************************************************************************)
(* The memory manager while the boot protocol reports ranges that overlap: *)
(* Limine promises disjoint ranges only for usable and reclaimable memory. *)
(* The highest type must win for every address, in whatever order the      *)
(* ranges come.  A history variable remembers whether the scan has met the *)
(* one relative position of two ranges that the code does not handle.      *)
(***************************************************************************)
EXTENDS PmmClients, FiniteSetsExt

CONSTANT MaxReports     \* bound: how many of Regions are reported

ASSUME MaxReportsAssumption == MaxReports \in 0..Cardinality(Regions)

VARIABLE edgeMissed     \* the scan skipped an entry that the range covers

overlapVars == <<vars, edgeMissed>>

OverlapInit == Init /\ edgeMissed = FALSE

Reported == Regions \ todo

ReportNext == Cardinality(Reported) < MaxReports /\ \E r \in todo : Report(r)

OverlapNext ==
    /\ ReportNext \/ MapSet
    /\ edgeMissed' = (edgeMissed \/ (Scanning /\ SharesEdge))

OverlapSpec == OverlapInit /\ [][OverlapNext]_overlapVars /\ WF_overlapVars(OverlapNext)

\* The type the reported ranges give to an address.
ReportedKind(a) ==
    Max({NONE} \cup {r.type : r \in {q \in Reported : InRange(a, q)}})

----------------------------------------------------------------------------
\* Whatever ranges are reported and in whatever order, the map is sorted and
\* disjoint and each address has the highest type reported for it, unless the
\* scan met a range that covers an entry and shares an edge with it (pmm.c:80).
HighestTypeWins ==
    edgeMissed \/ (MapSorted /\ (calls = <<>> =>
                                   \A a \in Address : MapKind(a) = ReportedKind(a)))

\* Overlapping ranges never make the recursion of pmm_map_set run away: all
\* reports are processed, or the map overflows (pmm.c:24-120).
AllReported == <>((Cardinality(Reported) = MaxReports /\ calls = <<>>) \/ panic # "no")

\* The map never holds two entries for the same address (pmm.c:79: "Entry falls
\* over map entry" is the case where the range replaces the whole entry).
MapDisjoint ==
    calls = <<>> => \A j, k \in Live : j # k => ~Overlap(g_pmm_map[j], g_pmm_map[k])
============================================================================
