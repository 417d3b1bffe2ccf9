---------------------------- MODULE AddressSpace ----------------------------
(***************************************************************************)
(* What the page table code promises: a request to map a range is carried  *)
(* out from its start to its end, each page getting exactly the physical   *)
(* address and the rights that were asked for, and no other page of any    *)
(* address space changes.  It may stop the machine instead.  Some rights   *)
(* are none the processor can give: pages asked for with them are out of   *)
(* reach afterwards, whatever was there before.                            *)
(***************************************************************************)
EXTENDS Integers

CONSTANTS
    Page,               \* the addresses of pages
    Refused,            \* the sets of rights that give no access at all
    Unmapped            \* what an address out of reach translates to

VARIABLES
    space,              \* what each page of each address space translates to
    pending,            \* what is left of the current request
    stopped

spaceVars == <<space, pending, stopped>>

Init ==
    /\ pending.length = 0
    /\ stopped = FALSE

Begin ==
    /\ ~stopped /\ pending.length = 0
    /\ UNCHANGED <<space, stopped>>

\* What the request makes of an address v of its range.
Mapped(v) ==
    IF pending.rights \in Refused THEN Unmapped
    ELSE [paddr |-> pending.paddr + (v - pending.vaddr), rights |-> pending.rights]

\* The first n addresses of the request are mapped.
Progress(n) ==
    /\ ~stopped /\ 0 < n /\ n <= pending.length
    /\ pending' = [pending EXCEPT !.vaddr = @ + n, !.paddr = @ + n, !.length = @ - n]
    /\ space' = [space EXCEPT ![pending.root] =
                   [v \in Page |->
                      IF pending.vaddr <= v /\ v < pending.vaddr + n
                        THEN Mapped(v) ELSE space[pending.root][v]]]
    /\ UNCHANGED stopped

Stop ==
    /\ ~stopped
    /\ stopped' = TRUE
    /\ UNCHANGED <<space, pending>>

Next == Begin \/ Progress(pending.length - pending'.length) \/ Stop

Spec == Init /\ [][Next]_spaceVars
=============================================================================
