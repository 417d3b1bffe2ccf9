------------------------------ MODULE Handoff ------------------------------
(***************************************************************************)
(* From one running core to all cores in the kernel: the boot processor    *)
(* prepares the start information of every core and starts the others      *)
(* (arch_setup_cpus), finishes its own work while they spin on             *)
(* g_ap_init_lock, and all cores meet in sync_and_handoff.                 *)
(*                                                                         *)
(* Cores are the boot protocol's indices; each takes its own steps, and a  *)
(* step is what runs between two accesses to memory that cores share.      *)
(* Both architectures: on riscv64 a core may see the two stores that start *)
(* it in either order.                                                     *)
(***************************************************************************)
EXTENDS Integers, FiniteSets

CONSTANTS
    CoreCount,              \* boot_info->core_count
    Bsp,                    \* index of the boot processor
    ARCH_INFO_SIZE,         \* sizeof(arch_core_start_info_t)
    PAGE                    \* PTM_PAGE_GRANULARITY, in the same unit

Core == 0..(CoreCount - 1)

ASSUME CoreAssumption == CoreCount \in Nat \ {0} /\ Bsp \in Core
ASSUME SizeAssumption == ARCH_INFO_SIZE \in Nat \ {0} /\ PAGE \in Nat \ {0}

VARIABLES
    arch,                   \* "x86_64" or "riscv64"
    \* written by the boot processor, read by all
    start_info,             \* core_start_info_block
    argument,               \* boot protocol mailbox: which start_info a core gets
    goto_address,           \* boot protocol mailbox: the core may leave its park loop
    trampoline,             \* g_boot_trampoline is set
    mm_published,           \* what the kernel's memory map says of the pre-kernel image
    g_kernel_entry_point,   \* TRUE when set
    g_core_count,
    g_ap_init_lock,
    \* written by all
    g_running_cores,
    arch_info,              \* arch_start_info_block: the core that a slot is for, when
                            \* its GDT and TSS, or its global pointer, are filled in
    \* each core's own
    pc,
    info,                   \* the start_info index the core was started with
    gs_base,                \* the cpu-local area in the core's gs base or sscratch
    args,                   \* what it gives to the trampoline
    has_fxsr,               \* cpuid reports FXSR; x86_64 only
    \* local to arch_setup_cpus
    i, core_id, stacks      \* stacks: how many have been allocated

shared == <<arch, start_info, argument, goto_address, trampoline, mm_published,
            g_kernel_entry_point, g_core_count, g_ap_init_lock>>
perCore == <<info, gs_base, args, has_fxsr>>
setup == <<i, core_id, stacks>>

vars == <<shared, g_running_cores, arch_info, pc, perCore, setup>>

None == -1
Zeroed == [core_id |-> 0, stack |-> 0, cpu_local |-> 0, arch_pointer |-> None]

NoArgs == [entry |-> FALSE, stack |-> 0, boot_info |-> FALSE, core_id |-> None]

Init ==
    /\ arch \in {"x86_64", "riscv64"}
    /\ start_info = [k \in Core |-> Zeroed]
    /\ argument = [c \in Core |-> None]
    /\ goto_address = [c \in Core |-> FALSE]
    /\ trampoline = FALSE
    /\ mm_published = "unset"
    /\ g_kernel_entry_point = FALSE
    /\ g_core_count = 0
    /\ g_ap_init_lock = 0
    /\ g_running_cores = 0
    /\ arch_info = [k \in 0..CoreCount |-> None]
    /\ pc = [c \in Core |-> IF c = Bsp THEN "prepare" ELSE "parked"]
    /\ info = [c \in Core |-> None]
    /\ gs_base = [c \in Core |-> None]
    /\ args = [c \in Core |-> NoArgs]
    /\ has_fxsr \in [Core -> BOOLEAN]
    /\ arch = "riscv64" => \A c \in Core : has_fxsr[c]
    /\ i = 0 /\ core_id = 1 /\ stacks = 0

Goto(c, from, to) == pc[c] = from /\ pc' = [pc EXCEPT ![c] = to]

----------------------------------------------------------------------------
(* The boot processor up to the release of the others (prekernel_init).    *)

\* On riscv64 the boot processor fills in the architecture's part for every core.
FilledByBsp(slot, c) ==
    IF arch = "riscv64" THEN [arch_info EXCEPT ![slot] = c] ELSE arch_info

\* Everything before arch_setup_cpus has filled in its own start information.
SetupBsp ==
    /\ Goto(Bsp, "prepare", "loop")
    /\ stacks' = stacks + 1
    /\ start_info' = [start_info EXCEPT ![0] =
                        [core_id |-> 0, stack |-> stacks + 1, cpu_local |-> 0,
                         arch_pointer |-> 0]]
    /\ arch_info' = FilledByBsp(0, Bsp)
    /\ UNCHANGED <<arch, argument, goto_address, trampoline, mm_published, g_kernel_entry_point,
                   g_core_count, g_ap_init_lock, g_running_cores, perCore, i, core_id>>

\* Mutant: the boot processor is not left out.
EveryCore == TRUE
\* The core at index i is to be started (g_boot_core_is_bsp is false of it).
IsAp == i # Bsp

\* Mutant: the id is not advanced.
SameCoreId == core_id
NextCoreId == core_id + 1

\* Mutant: the block is cleared in every iteration.
FilledAlone(k, r) == [j \in Core |-> IF j = k THEN r ELSE Zeroed]
Filled(k, r) == [start_info EXCEPT ![k] = r]

\* One iteration for another core: the start information is filled in, with
\* arch_pointer computed after core_id was incremented, and then the core is
\* started by writing its mailbox.
FillStartInfo ==
    /\ i < CoreCount /\ IsAp
    /\ Goto(Bsp, "loop", "argument")
    /\ start_info' = Filled(core_id, [core_id |-> core_id, stack |-> stacks + 1,
                                      cpu_local |-> core_id, arch_pointer |-> NextCoreId])
    /\ stacks' = stacks + 1
    /\ core_id' = NextCoreId
    /\ arch_info' = FilledByBsp(NextCoreId, i)
    /\ UNCHANGED <<arch, argument, goto_address, trampoline, mm_published, g_kernel_entry_point,
                   g_core_count, g_ap_init_lock, g_running_cores, perCore, i>>

\* The two stores of limine_start_ap, here in the order of the program.
StartApArgument ==
    /\ Goto(Bsp, "argument", "goto_address")
    /\ argument' = [argument EXCEPT ![i] = core_id - 1]
    /\ UNCHANGED <<arch, start_info, goto_address, trampoline, mm_published,
                   g_kernel_entry_point, g_core_count, g_ap_init_lock,
                   g_running_cores, arch_info, perCore, setup>>

StartApGoto ==
    /\ Goto(Bsp, "goto_address", "loop")
    /\ goto_address' = [goto_address EXCEPT ![i] = TRUE]
    /\ i' = i + 1
    /\ UNCHANGED <<arch, start_info, argument, trampoline, mm_published, g_kernel_entry_point,
                   g_core_count, g_ap_init_lock, g_running_cores, arch_info, perCore,
                   core_id, stacks>>

\* They are plain stores: another hart may see the second one first.
EarlyGoto ==
    /\ arch = "riscv64"
    /\ Goto(Bsp, "argument", "late_argument")
    /\ goto_address' = [goto_address EXCEPT ![i] = TRUE]
    /\ UNCHANGED <<arch, start_info, argument, trampoline, mm_published, g_kernel_entry_point,
                   g_core_count, g_ap_init_lock, g_running_cores, arch_info, perCore, setup>>

LateArgument ==
    /\ Goto(Bsp, "late_argument", "loop")
    /\ argument' = [argument EXCEPT ![i] = core_id - 1]
    /\ i' = i + 1
    /\ UNCHANGED <<arch, start_info, goto_address, trampoline, mm_published,
                   g_kernel_entry_point, g_core_count, g_ap_init_lock,
                   g_running_cores, arch_info, perCore, core_id, stacks>>

SkipBsp ==
    /\ pc[Bsp] = "loop" /\ i < CoreCount /\ ~IsAp
    /\ i' = i + 1
    /\ UNCHANGED <<shared, g_running_cores, arch_info, pc, perCore, core_id, stacks>>

\* The direct map is built and the trampoline copied and mapped.
PrepareHandoff ==
    /\ i = CoreCount
    /\ Goto(Bsp, "loop", "publish")
    /\ trampoline' = TRUE
    /\ UNCHANGED <<arch, start_info, argument, goto_address, mm_published, g_kernel_entry_point,
                   g_core_count, g_ap_init_lock, g_running_cores, arch_info, perCore, setup>>

\* The memory that holds the pre-kernel's code, and the stacks that the boot
\* protocol gave the cores, as the boot protocol's memory map reports them.
ImageType == "BOOTLOADER_RECLAIMABLE"

\* The type an entry of the map gets in the map for the kernel.
PublishedType(t) ==
    IF t \in {"BOOTLOADER_RECLAIMABLE", "EFI_RECLAIMABLE", "FREE"} THEN "USABLE"
    ELSE IF t = "ALLOCATED" THEN "RECLAIMABLE" ELSE t

PublishMemoryMap ==
    /\ Goto(Bsp, "publish", "control_registers")
    /\ mm_published' = PublishedType(ImageType)
    /\ info' = [info EXCEPT ![Bsp] = 0]
    /\ UNCHANGED <<arch, start_info, argument, goto_address, trampoline, g_kernel_entry_point,
                   g_core_count, g_ap_init_lock, g_running_cores, arch_info, gs_base,
                   args, has_fxsr, setup>>

SetEntryPoint ==
    /\ Goto(Bsp, "entry_point", "core_count")
    /\ g_kernel_entry_point' = TRUE
    /\ UNCHANGED <<arch, start_info, argument, goto_address, trampoline, mm_published,
                   g_core_count, g_ap_init_lock, g_running_cores, arch_info, perCore, setup>>

\* Mutants: one core too many, one too few.
OneMore == CoreCount + 1
OneFewer == CoreCount - 1
ExpectedCores == CoreCount

SetCoreCount ==
    /\ Goto(Bsp, "core_count", "release")
    /\ g_core_count' = ExpectedCores
    /\ UNCHANGED <<arch, start_info, argument, goto_address, trampoline, mm_published,
                   g_kernel_entry_point, g_ap_init_lock, g_running_cores, arch_info,
                   perCore, setup>>

ReleaseAps ==
    /\ Goto(Bsp, "release", "call_handoff")
    /\ g_ap_init_lock' = 1
    /\ UNCHANGED <<arch, start_info, argument, goto_address, trampoline, mm_published,
                   g_kernel_entry_point, g_core_count, g_running_cores, arch_info,
                   perCore, setup>>

\* Running out of memory, an unusable kernel image and the like: the boot
\* processor loops forever in panic, whatever the others are doing.
BspPanic ==
    /\ pc[Bsp] \in {"prepare", "loop", "publish"}
    /\ pc' = [pc EXCEPT ![Bsp] = "panic"]
    /\ UNCHANGED <<shared, g_running_cores, arch_info, perCore, setup>>

Prekernel ==
    \/ SetupBsp \/ FillStartInfo \/ StartApArgument \/ StartApGoto
    \/ EarlyGoto \/ LateArgument \/ SkipBsp \/ PrepareHandoff \/ PublishMemoryMap
    \/ SetEntryPoint \/ SetCoreCount \/ ReleaseAps \/ BspPanic

----------------------------------------------------------------------------
(* Another core: park loop, then prekernel_init_ap.                        *)

LeavePark(c) ==
    /\ goto_address[c]
    /\ Goto(c, "parked", "spin")
    /\ info' = [info EXCEPT ![c] = argument[c]]
    /\ UNCHANGED <<shared, g_running_cores, arch_info, gs_base, args, has_fxsr, setup>>

\* Mutant: the core does not wait.
NotLocked == TRUE
Released == g_ap_init_lock # 0

SeeRelease(c) ==
    /\ Released
    /\ Goto(c, "spin", "control_registers")
    /\ UNCHANGED <<shared, g_running_cores, arch_info, perCore, setup>>

----------------------------------------------------------------------------
(* Every core: arch_machine_init, then sync_and_handoff.                   *)

SetupControlRegisters(c) ==
    /\ arch = "x86_64"
    /\ Goto(c, "control_registers", IF has_fxsr[c] THEN "gdt" ELSE "panic")
    /\ UNCHANGED <<shared, g_running_cores, arch_info, perCore, setup>>

\* Status and trap vector, then the cpu-local area; a hart that got no start
\* information follows a null pointer and ends in riscv64_early_trap_handler.
SetupStatus(c) ==
    /\ arch = "riscv64"
    /\ Goto(c, "control_registers", IF info[c] # None THEN "gs_base" ELSE "trap")
    /\ UNCHANGED <<shared, g_running_cores, arch_info, perCore, setup>>

SetupGdt(c) ==
    /\ Goto(c, "gdt", "gs_base")
    /\ arch_info' = [arch_info EXCEPT ![start_info[info[c]].arch_pointer] = c]
    /\ UNCHANGED <<shared, g_running_cores, perCore, setup>>

SetupGsBase(c) ==
    /\ Goto(c, "gs_base", IF c = Bsp THEN "entry_point" ELSE "call_handoff")
    /\ gs_base' = [gs_base EXCEPT ![c] = start_info[info[c]].cpu_local]
    /\ UNCHANGED <<shared, g_running_cores, arch_info, info, args, has_fxsr, setup>>

GetsBootInfo(c) == c = Bsp

\* The arguments of sync_and_handoff are evaluated by its caller.
CallHandoff(c) ==
    /\ Goto(c, "call_handoff", "arrive")
    /\ args' = [args EXCEPT ![c] =
                  [entry |-> g_kernel_entry_point, stack |-> start_info[info[c]].stack,
                   boot_info |-> GetsBootInfo(c),
                   core_id |-> IF c = Bsp THEN 0 ELSE start_info[info[c]].core_id]]
    /\ UNCHANGED <<shared, g_running_cores, arch_info, info, gs_base, has_fxsr, setup>>

Arrive(c) ==
    /\ Goto(c, "arrive", "wait")
    /\ g_running_cores' = g_running_cores + 1
    /\ UNCHANGED <<shared, arch_info, perCore, setup>>

AllRunning == g_running_cores >= g_core_count

\* The last look at the counter, and the jump to the trampoline.
LeaveBarrier(c) ==
    /\ AllRunning
    /\ Goto(c, "wait", "trampoline")
    /\ UNCHANGED <<shared, g_running_cores, arch_info, perCore, setup>>

\* The trampoline changes to the kernel's page tables and stack, puts the boot
\* information and the core's id where the kernel looks for them, and jumps.
Trampoline(c) ==
    /\ arch = "x86_64"
    /\ Goto(c, "trampoline", "kernel")
    /\ UNCHANGED <<shared, g_running_cores, arch_info, perCore, setup>>

\* The same on riscv64, the stack first.
TrampolineRiscv(c) ==
    /\ arch = "riscv64"
    /\ Goto(c, "trampoline", "kernel")
    /\ UNCHANGED <<shared, g_running_cores, arch_info, perCore, setup>>

AnyCore(c) ==
    \/ LeavePark(c) \/ SeeRelease(c)
    \/ SetupControlRegisters(c) \/ SetupStatus(c) \/ SetupGdt(c) \/ SetupGsBase(c)
    \/ CallHandoff(c) \/ Arrive(c) \/ LeaveBarrier(c)
    \/ Trampoline(c) \/ TrampolineRiscv(c)

Next == Prekernel \/ \E c \in Core : AnyCore(c)

\* Every core executes on its own processor, so each keeps taking steps.
Fairness == WF_vars(Prekernel) /\ \A c \in Core : WF_vars(AnyCore(c))

Spec == Init /\ [][Next]_vars
FairSpec == Spec /\ Fairness

----------------------------------------------------------------------------
(* Properties.                                                             *)

Started == {c \in Core : goto_address[c] /\ argument[c] # None}
InKernel == {c \in Core : pc[c] = "kernel"}
InMachineInit == {"control_registers", "gdt", "gs_base"}
BspEarly == {"prepare", "loop", "argument", "goto_address", "late_argument", "publish"}
BspLate == {"entry_point", "core_count", "release"}
Finished == {"call_handoff", "arrive", "wait", "trampoline", "kernel"}
Stopped == {c \in Core : pc[c] \in {"panic", "trap"}}

\* The types of the globals of init.c:17-21 and of the blocks that
\* arch_setup_cpus fills in: no core is started with an index outside them.
TypeOK ==
    /\ arch \in {"x86_64", "riscv64"}
    /\ start_info \in [Core -> [core_id : Core, stack : 0..CoreCount, cpu_local : Core,
                                arch_pointer : {None} \cup 0..CoreCount]]
    /\ argument \in [Core -> {None} \cup Core]
    /\ goto_address \in [Core -> BOOLEAN]
    /\ trampoline \in BOOLEAN /\ mm_published \in {"unset", "USABLE"}
    /\ g_kernel_entry_point \in BOOLEAN
    /\ g_core_count \in {0, CoreCount}
    /\ g_ap_init_lock \in {0, 1}
    /\ g_running_cores \in 0..CoreCount
    /\ arch_info \in [0..CoreCount -> {None} \cup Core]
    /\ pc \in [Core -> {"parked", "spin", "panic", "trap"} \cup InMachineInit
                       \cup BspEarly \cup BspLate \cup Finished]
    /\ info \in [Core -> {None} \cup Core]
    /\ gs_base \in [Core -> {None} \cup Core]
    /\ args \in [Core -> [entry : BOOLEAN, stack : 0..CoreCount, boot_info : BOOLEAN,
                          core_id : {None} \cup Core]]
    /\ has_fxsr \in [Core -> BOOLEAN]
    /\ i \in 0..CoreCount /\ core_id \in 1..CoreCount /\ stacks \in 0..CoreCount

\* When the first core enters the kernel, no core has stopped, every core has
\* finished its machine initialisation and all the kernel is given exists: entry
\* point, memory map, trampoline; and exactly one core, with id 0, is given the
\* boot information (sync_and_handoff, init.c:23-29, 39, 141).
KernelReady ==
    InKernel # {} =>
        /\ Stopped = {} /\ mm_published # "unset" /\ trampoline
        /\ \A c \in Core :
              /\ arch_info[start_info[info[c]].arch_pointer] = c
              /\ args[c].entry /\ (args[c].boot_info <=> args[c].core_id = 0)
              /\ gs_base[c] = args[c].core_id
        /\ {args[c].core_id : c \in Core} = Core

\* No two cores share a core id, a stack or a cpu-local area, and the BSP has
\* id 0, whichever index the boot protocol gives it (arch.c:72-93).
OwnResources ==
    \A c, d \in Started \cup {Bsp} :
        LET p == start_info[IF c = Bsp THEN 0 ELSE argument[c]]
            q == start_info[IF d = Bsp THEN 0 ELSE argument[d]]
        IN  stacks > 0 /\ c # d =>
                /\ p.core_id # q.core_id
                /\ p.stack # q.stack
                /\ p.cpu_local # q.cpu_local
                /\ p.arch_pointer # q.arch_pointer

\* Once a core has been started and has its argument, its start information is not
\* touched again: it may be reading it (arch.c:83-92).
StartInfoFrozen ==
    [][\A c \in Started :
          argument'[c] = argument[c] /\ start_info'[argument[c]] = start_info[argument[c]]
      ]_vars

\* Unless some core stops, every core reaches the kernel: nobody waits for a core
\* that was never started or a count that was never set.  No core stops but for an
\* early panic, a missing feature, or an argument that it read too early.
AllEnterKernel ==
    <>(\/ \A c \in Core : pc[c] = "kernel"
       \/ pc[Bsp] = "panic" \/ \E c \in Core : pc[c] = "panic" /\ ~has_fxsr[c]
       \/ arch = "riscv64" /\ \E c \in Core : pc[c] = "trap" /\ info[c] = None)

\* The counter and the lock implement the rendezvous.
Where == [c \in Core |-> IF pc[c] \in {"trampoline", "kernel"} THEN "kernel"
                         ELSE IF pc[c] = "wait" THEN "arrived" ELSE "boot"]
Barrier == INSTANCE Rendezvous WITH where <- Where
ImplementsRendezvous == Barrier!Spec

----------------------------------------------------------------------------
(* What the comments say.                                                  *)

\* "we just need to allocate one for them" (arch.c:88): the GDT and TSS of every
\* started core are inside the pages allocated for arch_start_info_block.
ALIGN_UP(x, a) == ((x + a - 1) \div a) * a
ArchInfoAllocated ==
    \A c \in Started :
        (start_info[argument[c]].arch_pointer + 1) * ARCH_INFO_SIZE
            <= ALIGN_UP(ARCH_INFO_SIZE * CoreCount, PAGE)

\* "Usable and free memory" (bootinfo.h:57): once the kernel has the map, memory
\* that it calls usable is not what some core still executes from and has its
\* stack in, as a core does until it leaves sync_and_handoff (init.c:26, 117-119).
UsableIsFree ==
    Bsp \in InKernel /\ mm_published = "USABLE" => InKernel = Core
============================================================================
