-------------------------- MODULE HandoffInvariant --------------------------
(***************************************************************************)
(* An inductive invariant of Handoff, for any number of cores and any      *)
(* index of the boot processor among them.  It says what a core's place in *)
(* the program implies for the memory that cores share, and which row of   *)
(* the blocks of arch_setup_cpus belongs to which core.                    *)
(***************************************************************************)
EXTENDS Handoff

\* The id that arch_setup_cpus gives the core at index c: 0 is the boot
\* processor's, the others count from 1 in the order of their indices.
IdOf(c) == IF c = Bsp THEN 0 ELSE IF c < Bsp THEN c + 1 ELSE c

SlotOf(c) == IF c = Bsp THEN 0 ELSE IdOf(c) + 1

\* What the core's start information says once it is filled in.
RowOf(c) == [core_id |-> IdOf(c), stack |-> IdOf(c) + 1, cpu_local |-> IdOf(c),
             arch_pointer |-> SlotOf(c)]

ArgsOf(c) == [entry |-> TRUE, stack |-> IdOf(c) + 1, boot_info |-> c = Bsp,
              core_id |-> IdOf(c)]

Filling == {"argument", "goto_address", "late_argument"}
Arrived == {"wait", "trampoline", "kernel"}

\* The core's row is filled in.
Prepared(c) ==
    /\ stacks > 0
    /\ \/ c = Bsp
       \/ c < i
       \/ (c = i /\ pc[Bsp] \in Filling)

\* The core is started, or it is being started and the step named p comes next.
StoresDone(c, p) ==
    /\ c # Bsp
    /\ c < i \/ (c = i /\ pc[Bsp] = p)

\* The loop of arch_setup_cpus: the locals follow from the index.
LoopInv ==
    /\ stacks \in {0, core_id}
    /\ stacks = 0 => i = 0 /\ pc[Bsp] \in {"prepare", "panic"}
    /\ pc[Bsp] = "prepare" => stacks = 0
    /\ core_id = IF pc[Bsp] \in Filling THEN IdOf(i) + 1
                 ELSE IF i <= Bsp THEN i + 1 ELSE i
    /\ pc[Bsp] \in Filling => i < CoreCount /\ i # Bsp
    /\ pc[Bsp] = "late_argument" => arch = "riscv64"

\* The blocks and the mailboxes: each core has a row of its own, which it is
\* only told of when the row is complete.
RowInv(c) ==
    /\ Prepared(c) => start_info[IdOf(c)] = RowOf(c)
    /\ Prepared(c) /\ arch = "riscv64" => arch_info[SlotOf(c)] = c
    /\ argument[c] = IF StoresDone(c, "goto_address") THEN IdOf(c) ELSE None
    /\ goto_address[c] <=> StoresDone(c, "late_argument")
RowsInv == \A c \in Core : RowInv(c)

\* How far the boot processor is, by what it has stored for the others.
BspInv ==
    /\ pc[Bsp] \notin {"parked", "spin"}
    /\ pc[Bsp] \notin BspEarly \cup {"panic", "trap"} => mm_published = "USABLE" /\ info[Bsp] = 0
    /\ pc[Bsp] \notin (BspEarly \cup {"panic", "trap"}) \ {"publish"} => trampoline /\ i = CoreCount
    /\ pc[Bsp] \in {"core_count", "release"} \cup Finished => g_kernel_entry_point
    /\ pc[Bsp] \in {"release"} \cup Finished => g_core_count = CoreCount
    /\ g_ap_init_lock = 1 <=> pc[Bsp] \in Finished

\* How far each core is, by what it holds and has stored for itself.
ApInv(c) ==
    /\ pc[c] \notin BspEarly \cup BspLate
    /\ pc[c] # "parked" => goto_address[c]
    /\ pc[c] \in InMachineInit \cup Finished => g_ap_init_lock = 1
    /\ arch = "x86_64" /\ pc[c] # "parked" => info[c] # None
CoreInv(c) ==
    /\ info[c] # None => info[c] = IdOf(c) /\ Prepared(c)
    /\ pc[c] \in {"gdt", "gs_base"} \cup BspLate \cup Finished => info[c] # None
    /\ pc[c] \in {"gs_base"} \cup BspLate \cup Finished => arch_info[SlotOf(c)] = c
    /\ pc[c] = "gdt" => arch = "x86_64"
    /\ pc[c] \in BspLate \cup Finished => gs_base[c] = IdOf(c)
    /\ pc[c] \in Finished \ {"call_handoff"} => args[c] = ArgsOf(c)
CoresInv == \A c \in Core : CoreInv(c) /\ (c # Bsp => ApInv(c))

\* The counter counts the cores that have passed it, and a core that went on
\* saw all of them there.
ArrivedCores == {c \in Core : pc[c] \in Arrived}
BarrierInv ==
    /\ g_running_cores = Cardinality(ArrivedCores)
    /\ (\E c \in Core : pc[c] \in {"trampoline", "kernel"}) => ArrivedCores = Core

\* The invariant: it is preserved by every step of every core, which KernelReady
\* and OwnResources alone are not, since they say nothing of a core that has been
\* told of its row and has not used it yet (arch.c:83-92, init.c:23-29).
IInv ==
    /\ TypeOK
    /\ LoopInv
    /\ RowsInv
    /\ BspInv
    /\ CoresInv
    /\ BarrierInv
============================================================================
