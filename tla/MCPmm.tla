------------------------------- MODULE MCPmm -------------------------------
(***************************************************************************)
(* Instances of PmmClients with disjoint reported ranges.                  *)
(***************************************************************************)
EXTENDS PmmInvariant

Region(b, e, t) == [base |-> b, length |-> e - b, type |-> t]

\* Free memory that starts and ends off a page boundary, next to memory of the
\* types that allocations get; pages are 4 units.
MCRegions == {Region(1, 18, FREE), Region(18, 20, USED), Region(20, 24, FREE),
              Region(24, 24, BAD)}
MCAddress == 0..25
============================================================================
