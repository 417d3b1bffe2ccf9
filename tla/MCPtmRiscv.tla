----------------------------- MODULE MCPtmRiscv -----------------------------
(***************************************************************************)
(* An instance of PtmRiscv with two entries in every table; the boot       *)
(* loader uses one level less than the pre-kernel may.                     *)
(***************************************************************************)
EXTENDS PtmRiscv

MCPageSize == <<2, 4, 8, 16>>

Ask4(v, p, n, f) == [vaddr |-> v, paddr |-> p, length |-> n, flags |-> f]

MCRequests ==
    { Ask4(0, 0, 16, {"READ", "WRITE"}),
      Ask4(2, 6, 2, {"READ", "EXEC"}),
      Ask4(4, 0, 2, {}),
      Ask4(8, 2, 4, {"WRITE"}),
      Ask4(0, 0, 0, {"READ"}),
      Ask4(1, 1, 2, {"READ"}) }

\* Free memory that ends inside a page, more of it in that page, and bad memory.
MCSlots ==
    { [base |-> 0, length |-> 5, type |-> 0], [base |-> 5, length |-> 3, type |-> 2],
      [base |-> 6, length |-> 2, type |-> 8] }

\* A large page, and a table for the rest of its block.
MCBootTable ==
    [n \in Nodes |->
        IF n = <<3, 0>> THEN [kind |-> "table", rights |-> {}, paddr |-> 0]
        ELSE IF n = <<2, 1>>
          THEN [kind |-> "page", rights |-> {"READ", "WRITE"}, paddr |-> 4]
        ELSE Absent]
=============================================================================
