----------------------------- MODULE PtmClients -----------------------------
(***************************************************************************)
(* The page tables under their users, in the order of prekernel_init: the  *)
(* loader and the page database map what they need, the direct map is made *)
(* from a snapshot of the physical memory map, and the trampoline is added *)
(* to the boot loader's tables and to the pre-kernel's own.                *)
(***************************************************************************)
EXTENDS Ptm, Sequences

CONSTANTS
    Snapshots,              \* the slots that a snapshot may hold
    hhdm_offset,            \* where the direct map starts
    PhysicalTop,            \* end of physical memory
    BAD,                    \* the type of memory that is not mapped
    Trampoline,             \* where the hand-off code goes, and its pages
    MaxEarly                \* bound: requests before the direct map

Slot == [base : Nat, length : Nat, type : Nat]

ASSUME ClientsAssumption ==
    /\ Snapshots \subseteq Seq(Slot)
    /\ hhdm_offset \in Nat /\ hhdm_offset % PTM_PAGE_GRANULARITY = 0
    /\ PhysicalTop \in Nat /\ hhdm_offset + PhysicalTop <= TopAddress
    /\ \A s \in Snapshots : \A k \in 1..Len(s) : s[k].base + s[k].length <= PhysicalTop
    /\ Trampoline \in [vaddr : Nat, paddr : Nat, length : Nat]
    /\ Trampoline.vaddr + Trampoline.length <= TopAddress
    /\ MaxEarly \in Nat

VARIABLES
    phase, early,
    snapshot, k             \* the loop of ptm_create_hhdm_mappings

clientVars == <<vars, phase, early, snapshot, k>>

ClientInit ==
    /\ Init
    /\ phase = "early" /\ early = 0
    /\ snapshot = <<>> /\ k = 1

----------------------------------------------------------------------------

EarlyRequest(r) ==
    /\ phase = "early" /\ early < MaxEarly
    /\ ptm_map(r)
    /\ early' = early + 1
    /\ UNCHANGED <<phase, snapshot, k>>

\* The snapshot holds two slots that need not be in use (pmm_create_snapshot).
StartDirectMap ==
    /\ phase = "early" /\ Idle
    /\ phase' = "direct_map"
    /\ snapshot' \in Snapshots
    /\ UNCHANGED <<vars, early, k>>

\* Mutant: what the start gains is not added to the length.
RoundedAlone(s) ==
    LET base == s.base - (s.base % PTM_PAGE_GRANULARITY)
        length == s.length
    IN  [base |-> base,
         length |-> IF length % PTM_PAGE_GRANULARITY = 0 THEN length
                    ELSE length + PTM_PAGE_GRANULARITY - (length % PTM_PAGE_GRANULARITY)]

\* The whole pages that a slot touches.
Rounded(s) ==
    LET base == s.base - (s.base % PTM_PAGE_GRANULARITY)
        length == s.length + (s.base % PTM_PAGE_GRANULARITY)
    IN  [base |-> base,
         length |-> IF length % PTM_PAGE_GRANULARITY = 0 THEN length
                    ELSE length + PTM_PAGE_GRANULARITY - (length % PTM_PAGE_GRANULARITY)]

MapSlot ==
    /\ phase = "direct_map" /\ k <= Len(snapshot)
    /\ snapshot[k].type # BAD
    /\ LET r == Rounded(snapshot[k])
       IN  ptm_map([vaddr |-> hhdm_offset + r.base, paddr |-> r.base,
                    length |-> r.length, flags |-> {"READ", "WRITE"}])
    /\ k' = k + 1
    /\ UNCHANGED <<phase, early, snapshot>>

SkipSlot ==
    /\ phase = "direct_map" /\ Idle /\ k <= Len(snapshot)
    /\ snapshot[k].type = BAD
    /\ k' = k + 1
    /\ UNCHANGED <<vars, phase, early, snapshot>>

EndDirectMap ==
    /\ phase = "direct_map" /\ Idle /\ k > Len(snapshot)
    /\ phase' = "boot_trampoline"
    /\ UNCHANGED <<vars, early, snapshot, k>>

\* Mutant: mapped like data.
TrampolineData == {"READ", "WRITE"}
TrampolineFlags == {"READ", "EXEC"}

TrampolineRequest ==
    [vaddr |-> Trampoline.vaddr, paddr |-> Trampoline.paddr,
     length |-> Trampoline.length, flags |-> TrampolineFlags]

MapTrampolineBoot ==
    /\ phase = "boot_trampoline"
    /\ ptm_map_at(TrampolineRequest)
    /\ phase' = "own_trampoline"
    /\ UNCHANGED <<early, snapshot, k>>

MapTrampolineOwn ==
    /\ phase = "own_trampoline"
    /\ ptm_map(TrampolineRequest)
    /\ phase' = "done"
    /\ UNCHANGED <<early, snapshot, k>>

Users ==
    \/ StartDirectMap \/ MapSlot \/ SkipSlot \/ EndDirectMap
    \/ MapTrampolineBoot \/ MapTrampolineOwn

Library == (ptm_init \/ map_page) /\ UNCHANGED <<phase, early, snapshot, k>>

ClientNext == Users \/ Library \/ \E r \in Requests : EarlyRequest(r)

ClientSpec == ClientInit /\ [][ClientNext]_clientVars

\* One thread, which goes on until it has prepared the hand-off.
FairClientSpec == ClientSpec /\ WF_clientVars(Library) /\ WF_clientVars(Users)

----------------------------------------------------------------------------
(* Properties.                                                             *)

PageOf(a) == a - (a % PTM_PAGE_GRANULARITY)
Reachable(s) == s.base..(s.base + s.length - 1)
Mapped == {j \in 1..Len(snapshot) : snapshot[j].type # BAD}

\* When the direct map is finished, all memory of every slot that is not bad can
\* be read and written at its offset and executed only on a processor that cannot
\* forbid it, although slots share pages and the rounding makes pages large
\* (ptm_create_hhdm_mappings, ptm.c:131-159).
DirectMapped ==
    phase \in {"boot_trampoline", "own_trampoline", "done"} =>
        \A j \in Mapped : \A a \in Reachable(snapshot[j]) :
            Translation("own", PageOf(hhdm_offset + a)) =
                [paddr |-> PageOf(a), rights |-> RightsOf(TRUE, g_x86_64_cpu_nx_support)]

\* The direct map stops the machine only if two slots of the snapshot touch the
\* same page: nothing that was mapped before, and no choice of page sizes for
\* slots of their own, makes it meet a large page (ptm.c:71, 104-105).
RemapNeedsSharedPage ==
    phase = "direct_map" /\ panic = "cannot_remap" =>
        \E i, j \in Mapped :
            /\ i # j
            /\ {PageOf(a) : a \in Reachable(snapshot[i])}
                 \cap {PageOf(a) : a \in Reachable(snapshot[j])} # {}

\* The trampoline loads the pre-kernel's tables while it runs from the boot
\* loader's: both must have its pages at the same place, executable
\* (arch_prepare_handoff, arch.c:49-50; handoff.asm:10).
TrampolineInBoth ==
    phase = "done" /\ Idle =>
        \A v \in Page : Trampoline.vaddr <= v /\ v < Trampoline.vaddr + Trampoline.length =>
            /\ Translation("own", v) = Translation("boot", v)
            /\ "EXEC" \in Translation("own", v).rights

\* The hand-off is prepared in the end, or the machine has stopped.
HandoffPrepared == <>((phase = "done" /\ Idle) \/ panic # "no")
=============================================================================
