------------------------------- MODULE MCPtm -------------------------------
(***************************************************************************)
(* An instance of PtmClients with two entries in every table.  Pages have  *)
(* two addresses, so that requests and slots can be unaligned; the lower   *)
(* half of the addresses is the kernel's, the upper half the direct map.   *)
(***************************************************************************)
EXTENDS PtmClients

MCPageSize == <<2, 4, 8, 16>>

Ask4(v, p, n, f) == [vaddr |-> v, paddr |-> p, length |-> n, flags |-> f]

\* Memory of several large pages, parts of it again, a page of code, read-only
\* data at a physical address that does not suit a large page, code in a large
\* page, and requests that are empty or unaligned.
MCRequests ==
    { Ask4(0, 0, 16, {"READ", "WRITE"}),
      Ask4(4, 4, 6, {"READ", "WRITE"}),
      Ask4(2, 6, 2, {"READ", "EXEC"}),
      Ask4(8, 2, 4, {"READ"}),
      Ask4(12, 4, 4, {"READ", "EXEC"}),
      Ask4(0, 0, 0, {"READ"}),
      Ask4(1, 1, 2, {"READ"}) }

MCTrampoline == [vaddr |-> 2, paddr |-> 10, length |-> 2]

\* The boot loader has mapped the upper half of a lower table with a large page.
MCBootTable ==
    [n \in Nodes |->
        IF n \in {<<4, 0>>, <<3, 0>>}
          THEN [kind |-> "table", rw |-> TRUE, nx |-> FALSE, paddr |-> 0]
        ELSE IF n = <<2, 1>>
          THEN [kind |-> "page", rw |-> TRUE, nx |-> FALSE, paddr |-> 4]
        ELSE Absent]

Slots3(a, b, c, d, t, e, f) ==
    << [base |-> a, length |-> b - a, type |-> 0],
       [base |-> c, length |-> d - c, type |-> t],
       [base |-> e, length |-> f - e, type |-> 0] >>

\* Two entries of the map and a slot that is not in use.
MCSnapshots ==
    { Slots3(q[1], q[2], q[3], q[4], t, s[1], s[2]) :
        q \in {p \in {0, 3} \X {4, 7} \X {7, 8} \X {16} :
                  p[1] < p[2] /\ p[2] <= p[3]},
        t \in {0, 8},
        s \in {<<0, 0>>, <<12, 16>>} }
=============================================================================
