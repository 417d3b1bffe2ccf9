---------------------------- MODULE MCPmmOverlap ----------------------------
(***************************************************************************)
(* Instances of PmmOverlap: MaxReports ranges, in any order, out of all    *)
(* the ranges of a small grid with three precedences.                      *)
(***************************************************************************)
EXTENDS PmmOverlap

Grid == 0..5
MCRegions == {[base |-> b, length |-> e - b, type |-> t] :
                 <<b, e, t>> \in {q \in Grid \X Grid \X {USED, RESERVED, BAD} :
                                    q[1] < q[2]}}
MCAddress == Grid
============================================================================
