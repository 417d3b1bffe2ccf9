----------------------------- MODULE MCPlatform -----------------------------
(***************************************************************************)
(* Instances of Platform: every combination of small tables with one       *)
(* string, and every string of up to six characters with one set of tables.*)
(***************************************************************************)
EXTENDS Platform

MCNodes == {[type |-> "isa", mmu |-> "none"], [type |-> "other", mmu |-> "none"]}
           \cup [type : {"mmu"}, mmu : {"sv39", "sv57", "reserved"}]
MCCpus == {[cpu |-> FALSE, mmu |-> "none", isa |-> FALSE]}
          \cup [cpu : {TRUE}, mmu : {"none", "sv48", "unknown"}, isa : BOOLEAN]

MCLetters == {"r", "v"}

UpTo(S, n) == UNION {[1..k -> S] : k \in 0..n}

MCMachines ==
    [rsdp : BOOLEAN, rhct : BOOLEAN, nodes : UpTo(MCNodes, 2),
     dtb : {TRUE}, dtb_valid : {TRUE}, has_cpus : {TRUE}, cpus : UpTo(MCCpus, 2),
     string : {<<"r", Underscore, "v">>}]
    \cup
    [rsdp : BOOLEAN, rhct : {TRUE}, nodes : UpTo(MCNodes, 2),
     dtb : BOOLEAN, dtb_valid : BOOLEAN, has_cpus : BOOLEAN,
     cpus : {<<[cpu |-> TRUE, mmu |-> "sv48", isa |-> TRUE]>>}, string : {<<"r", Underscore, "v">>}]
    \cup
    [rsdp : {FALSE}, rhct : {FALSE}, nodes : {<<>>},
     dtb : {TRUE}, dtb_valid : {TRUE}, has_cpus : {TRUE},
     cpus : {<<[cpu |-> TRUE, mmu |-> "sv48", isa |-> TRUE]>>},
     string : UpTo(MCLetters \cup {Underscore}, 6)]
=============================================================================
