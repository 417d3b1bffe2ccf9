--------------------------- MODULE HandoffProofs ---------------------------
(***************************************************************************)
(* Proofs about Handoff, for every number of cores, every index of the     *)
(* boot processor and both architectures: the invariant of                 *)
(* HandoffInvariant is inductive, and from it follow what the kernel is    *)
(* given, the cores' own resources and the rendezvous.                     *)
(***************************************************************************)
EXTENDS HandoffInvariant, FiniteSetTheorems, TLAPS

----------------------------------------------------------------------------
(* The numbering of the cores.                                             *)

\* The ids of arch_setup_cpus are a numbering of the cores from 0, in which the boot
\* processor has 0; no two cores have one id or one slot of arch_start_info_block.
LEMMA IdFacts ==
  /\ \A c \in Core : /\ IdOf(c) \in Core /\ SlotOf(c) \in 0..CoreCount
                     /\ IdOf(c) = 0 <=> c = Bsp
                     /\ IdOf(c) + 1 \in 1..CoreCount
                     /\ IdOf(c) # None
  /\ \A c, d \in Core : /\ IdOf(c) = IdOf(d) => c = d
                        /\ SlotOf(c) = SlotOf(d) => c = d
  BY CoreAssumption DEF IdOf, SlotOf, Core, None

\* Every id belongs to a core.
LEMMA IdOnto ==
  ASSUME NEW n \in Core
  PROVE  \E c \in Core : IdOf(c) = n
<1>1. CASE n = 0
  BY <1>1, CoreAssumption DEF IdOf
<1>2. CASE n > 0 /\ n <= Bsp
  <2>1. n - 1 \in Core /\ n - 1 # Bsp /\ n - 1 < Bsp
    BY <1>2, CoreAssumption DEF Core
  <2> QED
    BY <2>1 DEF IdOf, Core
<1>3. CASE n > Bsp
  BY <1>3, CoreAssumption DEF IdOf, Core
<1> QED
  BY <1>1, <1>2, <1>3, CoreAssumption DEF Core

\* The rows that arch_setup_cpus fills in are rows of the block.
LEMMA RowType ==
  ASSUME NEW c \in Core
  PROVE  RowOf(c) \in [core_id : Core, stack : 0..CoreCount, cpu_local : Core,
                       arch_pointer : {None} \cup 0..CoreCount]
  BY IdFacts DEF RowOf

----------------------------------------------------------------------------
(* What a step leaves alone.                                               *)

\* A core that goes on changes its own program counter only.
LEMMA GotoEffect ==
  ASSUME TypeOK, NEW c \in Core, NEW from, NEW to, Goto(c, from, to)
  PROVE  /\ pc[c] = from /\ pc'[c] = to
         /\ \A d \in Core : d # c => pc'[d] = pc[d]
  BY DEF TypeOK, Goto

\* The types of the loop's locals.
LEMMA LocalTypes ==
  ASSUME IInv
  PROVE  /\ i \in Nat /\ i <= CoreCount /\ stacks \in Nat /\ core_id \in Nat /\ core_id >= 1
         /\ Bsp \in Nat /\ Bsp < CoreCount /\ CoreCount \in Nat
         /\ \A d \in Core : d \in Nat /\ d < CoreCount
         /\ i < CoreCount => i \in Core
<1>1. /\ i \in 0..CoreCount /\ core_id \in 1..CoreCount /\ stacks \in 0..CoreCount
  BY DEF IInv, TypeOK
<1> QED
  BY <1>1, CoreAssumption DEF Core

\* The start information a core was given is its own.
LEMMA OwnRow ==
  ASSUME IInv, NEW c \in Core, info[c] # None
  PROVE  /\ info[c] = IdOf(c) /\ Prepared(c)
         /\ start_info[info[c]].core_id = IdOf(c)
         /\ start_info[info[c]].stack = IdOf(c) + 1
         /\ start_info[info[c]].cpu_local = IdOf(c)
         /\ start_info[info[c]].arch_pointer = SlotOf(c)
<1>1. info[c] = IdOf(c) /\ start_info[IdOf(c)] = RowOf(c) /\ Prepared(c)
  BY DEF IInv, CoresInv, CoreInv, RowsInv, RowInv
<1> QED
  BY <1>1 DEF RowOf

\* A core keeps its part of the invariant when only others take steps.
LEMMA OtherCore ==
  ASSUME NEW d \in Core, CoreInv(d), d # Bsp => ApInv(d),
         pc'[d] = pc[d], info'[d] = info[d], gs_base'[d] = gs_base[d], args'[d] = args[d],
         arch' = arch, goto_address[d] => goto_address'[d],
         g_ap_init_lock = 1 => g_ap_init_lock' = 1,
         Prepared(d) => Prepared(d)',
         arch_info[SlotOf(d)] = d => arch_info'[SlotOf(d)] = d
  PROVE  CoreInv(d)' /\ (d # Bsp => ApInv(d)')
  BY DEF CoreInv, ApInv, BspEarly, BspLate, InMachineInit, Finished, None, IdOf, SlotOf, ArgsOf

\* So it is enough to look at the core that takes the step.
LEMMA OtherCores ==
  ASSUME CoresInv, NEW c \in Core,
         \A d \in Core \ {c} :
           /\ pc'[d] = pc[d] /\ info'[d] = info[d] /\ gs_base'[d] = gs_base[d] /\ args'[d] = args[d]
           /\ goto_address[d] => goto_address'[d]
           /\ Prepared(d) => Prepared(d)'
           /\ arch_info[SlotOf(d)] = d => arch_info'[SlotOf(d)] = d,
         arch' = arch, g_ap_init_lock = 1 => g_ap_init_lock' = 1,
         CoreInv(c)', c # Bsp => ApInv(c)'
  PROVE  CoresInv'
<1> SUFFICES ASSUME NEW d \in Core PROVE CoreInv(d)' /\ (d # Bsp => ApInv(d)')
  BY DEF CoresInv
<1>1. CASE d = c
  BY <1>1
<1>2. CASE d # c
  BY <1>2, OtherCore DEF CoresInv
<1> QED BY <1>1, <1>2

\* The counter is right after a step that passes no point it counts.
LEMMA BarrierFrame ==
  ASSUME BarrierInv, UNCHANGED g_running_cores,
         \A d \in Core : pc'[d] \in Arrived <=> pc[d] \in Arrived,
         \A d \in Core : pc'[d] \in {"trampoline", "kernel"} => pc[d] \in {"trampoline", "kernel"}
  PROVE  BarrierInv'
  <1>1. ArrivedCores' = ArrivedCores
     BY DEF ArrivedCores
  <1> QED BY <1>1 DEF BarrierInv

\* The cores that have arrived are some of the cores; if they are as many, they are all.
LEMMA ArrivedFinite ==
  ASSUME NEW p
  PROVE  LET S == {c \in Core : p[c] \in Arrived}
         IN  /\ IsFiniteSet(S) /\ Cardinality(S) \in 0..CoreCount
             /\ Cardinality(S) >= CoreCount => S = Core
<1> DEFINE S == {c \in Core : p[c] \in Arrived}
<1>1. IsFiniteSet(Core) /\ Cardinality(Core) = CoreCount
  BY FS_Interval, CoreAssumption DEF Core
<1>2. S \in SUBSET Core
  OBVIOUS
<1>3. /\ IsFiniteSet(S) /\ Cardinality(S) <= Cardinality(Core)
      /\ Cardinality(Core) = Cardinality(S) => Core = S
  BY <1>1, <1>2, FS_Subset
<1>4. Cardinality(S) \in Nat
  BY <1>3, FS_CardinalityType
<1> QED
  BY <1>1, <1>3, <1>4, CoreAssumption

\* The rows stay as they are while the boot processor does something else.
LEMMA RowsFrame ==
  ASSUME RowsInv, UNCHANGED <<arch, start_info, argument, goto_address, arch_info, i, stacks>>,
         pc'[Bsp] \in Filling <=> pc[Bsp] \in Filling,
         pc'[Bsp] = "goto_address" <=> pc[Bsp] = "goto_address",
         pc'[Bsp] = "late_argument" <=> pc[Bsp] = "late_argument"
  PROVE  RowsInv'
  BY DEF RowsInv, RowInv, Prepared, StoresDone, IdOf, SlotOf, RowOf, None

\* So do the locals of arch_setup_cpus.
LEMMA LoopFrame ==
  ASSUME LoopInv, UNCHANGED <<arch, core_id, i, stacks>>,
         pc'[Bsp] \in Filling <=> pc[Bsp] \in Filling,
         pc'[Bsp] # "prepare", pc'[Bsp] # "late_argument",
         pc[Bsp] = "prepare" => pc'[Bsp] = "panic",
         stacks # 0 \/ pc'[Bsp] = "panic" 
  PROVE  LoopInv'
  BY DEF LoopInv, IdOf

\* A core past arch_setup_cpus leaves the loop's locals and the rows alone; the one
\* thing it may write is its GDT and TSS.
LEMMA CoreFrame ==
  ASSUME IInv, NEW c \in Core, NEW from, NEW to, Goto(c, from, to),
         from \notin BspEarly \cup {"panic"}, to \notin BspEarly, UNCHANGED <<shared, setup>>,
         arch_info' = arch_info \/ arch = "x86_64"
  PROVE  LoopInv' /\ RowsInv' /\ \A d \in Core : Prepared(d) => Prepared(d)'
<1>1. \/ pc'[Bsp] = pc[Bsp]
      \/ pc[Bsp] \notin BspEarly /\ pc'[Bsp] \notin BspEarly
  BY GotoEffect, CoreAssumption DEF IInv
<1>2. /\ pc'[Bsp] \in Filling <=> pc[Bsp] \in Filling
      /\ pc'[Bsp] = "goto_address" <=> pc[Bsp] = "goto_address"
      /\ pc'[Bsp] = "late_argument" <=> pc[Bsp] = "late_argument"
      /\ pc'[Bsp] = "prepare" <=> pc[Bsp] = "prepare"
  BY <1>1 DEF BspEarly, Filling
<1>3. LoopInv'
  <2>1. stacks = 0 => pc'[Bsp] \in {"prepare", "panic"}
    BY GotoEffect, CoreAssumption DEF IInv, LoopInv, BspEarly
  <2> QED BY <1>2, <2>1 DEF IInv, LoopInv, shared, setup, IdOf
<1>4. RowsInv'
  BY <1>2
     DEF IInv, RowsInv, RowInv, Prepared, StoresDone, IdOf, SlotOf, RowOf, None, shared, setup
<1>5. \A d \in Core : Prepared(d) => Prepared(d)'
  BY <1>2 DEF Prepared, setup
<1> QED BY <1>3, <1>4, <1>5

\* What the boot processor does in arch_setup_cpus for a core disturbs no core that
\* already runs.
LEMMA EarlyFrame ==
  ASSUME IInv, pc[Bsp] \in BspEarly, pc'[Bsp] \in BspEarly, stacks > 0 => stacks' > 0,
         \A d \in Core \ {Bsp} :
           /\ pc'[d] = pc[d]
           /\ goto_address[d] => goto_address'[d]
           /\ Prepared(d) => Prepared(d)'
           /\ arch_info[SlotOf(d)] = d => arch_info'[SlotOf(d)] = d,
         pc'[Bsp] # "publish",
         UNCHANGED <<arch, g_ap_init_lock, g_running_cores, perCore>>
  PROVE  BspInv' /\ CoresInv' /\ BarrierInv'
<1>1. BspInv'
  BY DEF IInv, BspInv, BspEarly, Finished
<1>2. CoreInv(Bsp)'
  <2>1. Prepared(Bsp) => Prepared(Bsp)'
    BY DEF Prepared
  <2> QED
    BY <2>1, CoreAssumption
       DEF IInv, CoresInv, CoreInv, BspEarly, BspLate, Finished, perCore, IdOf, None
<1>3. CoresInv'
  BY <1>2, OtherCores, CoreAssumption DEF IInv, perCore
<1>4. BarrierInv'
  BY BarrierFrame DEF IInv, BspEarly, Arrived
<1> QED BY <1>1, <1>3, <1>4

----------------------------------------------------------------------------
(* The boot processor in arch_setup_cpus.                                  *)

\* The boot processor fills in its own row.
LEMMA SetupBspStep ==
  ASSUME IInv, SetupBsp
  PROVE  IInv'
<1>1. /\ pc[Bsp] = "prepare" /\ pc'[Bsp] = "loop"
      /\ \A d \in Core : d # Bsp => pc'[d] = pc[d]
  BY GotoEffect, CoreAssumption DEF IInv, SetupBsp
<1>2. stacks = 0 /\ stacks' = 1 /\ i = 0 /\ core_id = 1
  BY <1>1, CoreAssumption DEF IInv, LoopInv, SetupBsp, Filling, Core
<1>3. start_info' = [start_info EXCEPT ![0] = RowOf(Bsp)]
  BY <1>2 DEF SetupBsp, RowOf, IdOf, SlotOf
<1>4. 0 \in Core /\ RowOf(Bsp) \in [core_id : Core, stack : 0..CoreCount, cpu_local : Core,
                      arch_pointer : {None} \cup 0..CoreCount]
  BY CoreAssumption DEF RowOf, IdOf, SlotOf, Core
<1>5. TypeOK'
  <2>1. start_info' \in [Core -> [core_id : Core, stack : 0..CoreCount, cpu_local : Core,
                      arch_pointer : {None} \cup 0..CoreCount]]
    BY <1>3, <1>4 DEF IInv, TypeOK
  <2>2. arch_info' \in [0..CoreCount -> {None} \cup Core]
    BY CoreAssumption DEF IInv, TypeOK, SetupBsp, FilledByBsp
  <2>3. pc' \in [Core -> {"parked", "spin", "panic", "trap"} \cup InMachineInit
                       \cup BspEarly \cup BspLate \cup Finished]
    BY DEF IInv, TypeOK, SetupBsp, Goto, BspEarly
  <2>4. stacks' \in 0..CoreCount
    BY <1>2, CoreAssumption
  <2> QED
    BY <2>1, <2>2, <2>3, <2>4 DEF IInv, TypeOK, SetupBsp, perCore
<1>6. LoopInv'
  BY <1>1, <1>2, CoreAssumption DEF SetupBsp, LoopInv, Filling, Core
<1>7. RowsInv'
  <2> SUFFICES ASSUME NEW d \in Core PROVE RowInv(d)'
    BY DEF RowsInv
  <2>1. ~ d < i
    BY <1>2 DEF Core
  <2>2. CASE d = Bsp
    <3>1. start_info'[IdOf(Bsp)] = RowOf(Bsp)
      BY <1>3, <1>4 DEF IInv, TypeOK, IdOf
    <3>2. arch = "riscv64" => arch_info'[SlotOf(Bsp)] = Bsp
      BY CoreAssumption DEF SetupBsp, FilledByBsp, SlotOf, IInv, TypeOK
    <3>3. argument[d] = None /\ ~goto_address[d]
      BY <2>2 DEF IInv, RowsInv, RowInv, StoresDone
    <3> QED
      BY <2>2, <3>1, <3>2, <3>3 DEF RowInv, SetupBsp, StoresDone, None, IdOf, SlotOf, RowOf
  <2>3. CASE d # Bsp
    BY <1>1, <1>2, <2>1, <2>3 DEF RowInv, SetupBsp, StoresDone, Prepared, Filling, None, IInv,
       RowsInv, IdOf, RowOf, SlotOf
  <2> QED BY <2>2, <2>3
<1>8. BspInv' /\ CoresInv' /\ BarrierInv'
  <2>1. ASSUME NEW d \in Core \ {Bsp}
        PROVE arch_info'[SlotOf(d)] = arch_info[SlotOf(d)]
    BY IdFacts, CoreAssumption DEF SetupBsp, FilledByBsp, IInv, TypeOK, SlotOf
  <2>2. \A d \in Core : ~Prepared(d)
    BY <1>2 DEF Prepared
  <2> QED
    BY <1>1, <1>2, <2>1, <2>2, EarlyFrame DEF SetupBsp, BspEarly
<1> QED
  BY <1>5, <1>6, <1>7, <1>8 DEF IInv

\* It fills in the row of the next core: no other core's row is written (arch.c:83-92).
LEMMA FillStartInfoStep ==
  ASSUME IInv, FillStartInfo
  PROVE  IInv'
<1>1. /\ pc[Bsp] = "loop" /\ pc'[Bsp] = "argument"
      /\ \A d \in Core : d # Bsp => pc'[d] = pc[d]
  BY GotoEffect, CoreAssumption DEF IInv, FillStartInfo
<1>2. i \in Core /\ i # Bsp
  BY CoreAssumption DEF IInv, TypeOK, FillStartInfo, IsAp, Core
<1>3. core_id = IdOf(i) /\ stacks = core_id /\ stacks > 0
  <2>1. core_id = IF i <= Bsp THEN i + 1 ELSE i
    BY <1>1 DEF IInv, LoopInv, Filling
  <2>2. stacks = core_id /\ core_id >= 1
    BY <1>1, LocalTypes DEF IInv, LoopInv
  <2> QED
    BY <1>2, <2>1, <2>2, LocalTypes DEF IdOf
<1>4. start_info' = [start_info EXCEPT ![IdOf(i)] = RowOf(i)]
  BY <1>2, <1>3 DEF FillStartInfo, RowOf, SlotOf, Filled, NextCoreId
<1>5. arch_info' = IF arch = "riscv64" THEN [arch_info EXCEPT ![SlotOf(i)] = i] ELSE arch_info
  BY <1>2, <1>3 DEF FillStartInfo, FilledByBsp, SlotOf, NextCoreId
<1>6. RowOf(i) \in [core_id : Core, stack : 0..CoreCount, cpu_local : Core,
                    arch_pointer : {None} \cup 0..CoreCount]
  BY <1>2, IdFacts DEF RowOf
<1>7. TypeOK'
  <2>1. start_info' \in [Core -> [core_id : Core, stack : 0..CoreCount, cpu_local : Core,
                      arch_pointer : {None} \cup 0..CoreCount]]
    BY <1>4, <1>6 DEF IInv, TypeOK
  <2>2. arch_info' \in [0..CoreCount -> {None} \cup Core]
    BY <1>2, <1>5 DEF IInv, TypeOK
  <2>3. pc' \in [Core -> {"parked", "spin", "panic", "trap"} \cup InMachineInit
                       \cup BspEarly \cup BspLate \cup Finished]
    BY DEF IInv, TypeOK, FillStartInfo, Goto, BspEarly
  <2>4. stacks' \in 0..CoreCount /\ core_id' \in 1..CoreCount
    BY <1>2, <1>3, IdFacts, CoreAssumption DEF FillStartInfo, NextCoreId
  <2> QED
    BY <2>1, <2>2, <2>3, <2>4 DEF IInv, TypeOK, FillStartInfo, perCore
<1>8. LoopInv'
  BY <1>1, <1>2, <1>3, CoreAssumption
     DEF FillStartInfo, LoopInv, Filling, NextCoreId, IdOf, IInv, Core
<1>9. RowsInv'
  <2> SUFFICES ASSUME NEW d \in Core PROVE RowInv(d)'
    BY DEF RowsInv
  <2>1. RowInv(d)
    BY DEF IInv, RowsInv
  <2>2. /\ argument'[d] = IF StoresDone(d, "goto_address")' THEN IdOf(d) ELSE None
        /\ goto_address'[d] <=> StoresDone(d, "late_argument")'
    BY <1>1, <2>1 DEF RowInv, StoresDone, FillStartInfo, IdOf, None
  <2>3. CASE d = i
    <3>1. start_info'[IdOf(d)] = RowOf(d)
      BY <1>4, <2>3, IdFacts DEF IInv, TypeOK
    <3>2. arch = "riscv64" => arch_info'[SlotOf(d)] = d
      BY <1>5, <2>3, IdFacts DEF IInv, TypeOK
    <3> QED
      BY <2>2, <3>1, <3>2 DEF RowInv, FillStartInfo, IdOf, SlotOf, RowOf, None
  <2>4. CASE d # i
    <3>1. start_info'[IdOf(d)] = start_info[IdOf(d)]
      BY <1>2, <1>4, <2>4, IdFacts DEF IInv, TypeOK
    <3>2. arch_info'[SlotOf(d)] = arch_info[SlotOf(d)]
      BY <1>2, <1>5, <2>4, IdFacts DEF IInv, TypeOK
    <3>3. Prepared(d)' => Prepared(d)
      BY <1>1, <1>3, <2>4 DEF Prepared, FillStartInfo
    <3> QED
      BY <2>1, <2>2, <3>1, <3>2, <3>3 DEF RowInv, FillStartInfo, IdOf, SlotOf, RowOf, None
  <2> QED BY <2>3, <2>4
<1>10. BspInv' /\ CoresInv' /\ BarrierInv'
  <2>1. ASSUME NEW d \in Core, arch_info[SlotOf(d)] = d
        PROVE arch_info'[SlotOf(d)] = d
    BY <1>2, <1>5, <2>1, IdFacts DEF IInv, TypeOK
  <2>2. stacks' > 0
    BY <1>3, LocalTypes DEF FillStartInfo
  <2>3. \A d \in Core : Prepared(d) => Prepared(d)'
    BY <1>1, <2>2 DEF Prepared, Filling, FillStartInfo
  <2> QED
    BY <1>1, <2>1, <2>2, <2>3, EarlyFrame DEF FillStartInfo, BspEarly
<1> QED
  BY <1>7, <1>8, <1>9, <1>10 DEF IInv

\* The argument is stored for the core at index i, which was not started.
LEMMA StartApArgumentStep ==
  ASSUME IInv, StartApArgument
  PROVE  IInv'
<1>1. /\ pc[Bsp] = "argument" /\ pc'[Bsp] = "goto_address"
      /\ \A d \in Core : d # Bsp => pc'[d] = pc[d]
  BY GotoEffect, CoreAssumption DEF IInv, StartApArgument
<1>2. /\ i \in Core /\ i # Bsp /\ core_id = IdOf(i) + 1 /\ stacks > 0
      /\ i \in Nat /\ CoreCount \in Nat /\ Bsp \in Nat /\ i < CoreCount /\ core_id \in Nat
      /\ \A d \in Core : d \in Nat /\ d < CoreCount
  <2>1. i < CoreCount /\ i # Bsp /\ core_id = IdOf(i) + 1 /\ stacks = core_id
    BY <1>1 DEF IInv, LoopInv, Filling
  <2> QED
    BY <2>1, LocalTypes
<1>3. core_id - 1 = IdOf(i)
  BY <1>2, IdFacts DEF Core
<1>4. TypeOK'
  <2>1. argument' \in [Core -> {None} \cup Core]
    BY <1>2, <1>3, IdFacts DEF IInv, TypeOK, StartApArgument
  <2>2. pc' \in [Core -> {"parked", "spin", "panic", "trap"} \cup InMachineInit
                       \cup BspEarly \cup BspLate \cup Finished]
    BY DEF IInv, TypeOK, StartApArgument, Goto, BspEarly
  <2> QED
    BY <2>1, <2>2 DEF IInv, TypeOK, StartApArgument, perCore, setup
<1>5. LoopInv'
  BY <1>1 DEF IInv, LoopInv, Filling, StartApArgument, setup, IdOf
<1>6. RowsInv'
  <2> SUFFICES ASSUME NEW d \in Core PROVE RowInv(d)'
    BY DEF RowsInv
  <2>1. RowInv(d)
    BY DEF IInv, RowsInv
  <2>2. Prepared(d)' <=> Prepared(d)
    BY <1>1, <1>2 DEF Prepared, Filling, StartApArgument, setup
  <2>3. argument'[d] = IF StoresDone(d, "goto_address")' THEN IdOf(d) ELSE None
    <3>1. CASE d = i
      BY <1>1, <1>2, <1>3, <3>1 DEF IInv, TypeOK, StartApArgument, StoresDone, setup
    <3>2. CASE d # i
      BY <1>1, <2>1, <3>2 DEF IInv, TypeOK, StartApArgument, StoresDone, setup, RowInv, None
    <3> QED
      BY <3>1, <3>2
  <2>4. goto_address'[d] <=> StoresDone(d, "late_argument")'
    BY <1>1, <2>1 DEF RowInv, StoresDone, StartApArgument, setup
  <2> QED
    BY <2>1, <2>2, <2>3, <2>4 DEF RowInv, StartApArgument, setup, IdOf, SlotOf, RowOf, None
<1>7. BspInv' /\ CoresInv' /\ BarrierInv'
  <2>1. \A d \in Core : Prepared(d) => Prepared(d)'
    BY <1>1, <1>2 DEF Prepared, Filling, StartApArgument, setup
  <2>2. \A d \in Core : goto_address[d] => goto_address'[d]
    BY DEF IInv, TypeOK, StartApArgument
  <2> QED
    BY <1>1, <2>1, <2>2, EarlyFrame DEF StartApArgument, BspEarly, setup
<1> QED
  BY <1>4, <1>5, <1>6, <1>7 DEF IInv

\* The second store of limine_start_ap lets the core go, with its argument in place.
LEMMA StartApGotoStep ==
  ASSUME IInv, StartApGoto
  PROVE  IInv'
<1>1. /\ pc[Bsp] = "goto_address" /\ pc'[Bsp] = "loop"
      /\ \A d \in Core : d # Bsp => pc'[d] = pc[d]
  BY GotoEffect, CoreAssumption DEF IInv, StartApGoto
<1>2. /\ i \in Core /\ i # Bsp /\ core_id = IdOf(i) + 1 /\ stacks > 0
      /\ i \in Nat /\ CoreCount \in Nat /\ Bsp \in Nat /\ i < CoreCount /\ core_id \in Nat
      /\ \A d \in Core : d \in Nat /\ d < CoreCount
  <2>1. i < CoreCount /\ i # Bsp /\ core_id = IdOf(i) + 1 /\ stacks = core_id
    BY <1>1 DEF IInv, LoopInv, Filling
  <2> QED
    BY <2>1, LocalTypes
<1>3. TypeOK'
  <2>1. goto_address' \in [Core -> BOOLEAN]
    BY DEF IInv, TypeOK, StartApGoto
  <2>2. pc' \in [Core -> {"parked", "spin", "panic", "trap"} \cup InMachineInit
                       \cup BspEarly \cup BspLate \cup Finished]
    BY DEF IInv, TypeOK, StartApGoto, Goto, BspEarly
  <2>3. i' \in 0..CoreCount
    BY <1>2 DEF StartApGoto
  <2> QED
    BY <2>1, <2>2, <2>3 DEF IInv, TypeOK, StartApGoto, perCore, setup
<1>4. LoopInv'
  BY <1>1, <1>2 DEF IInv, LoopInv, Filling, StartApGoto, IdOf
<1>5. RowsInv'
  <2> SUFFICES ASSUME NEW d \in Core PROVE RowInv(d)'
    BY DEF RowsInv
  <2>1. RowInv(d)
    BY DEF IInv, RowsInv
  <2>2. Prepared(d)' <=> Prepared(d)
    BY <1>1, <1>2 DEF Prepared, Filling, StartApGoto, setup
  <2>3. argument'[d] = IF StoresDone(d, "goto_address")' THEN IdOf(d) ELSE None
    <3>1. StoresDone(d, "goto_address")' <=> StoresDone(d, "goto_address")
      BY <1>1, <1>2 DEF StoresDone, StartApGoto
    <3> QED
      BY <2>1, <3>1 DEF RowInv, StartApGoto, None
  <2>4. goto_address'[d] <=> StoresDone(d, "late_argument")'
    <3>1. CASE d = i
      BY <1>1, <1>2, <3>1 DEF IInv, TypeOK, StartApGoto, StoresDone
    <3>2. CASE d # i
      <4>1. StoresDone(d, "late_argument")' <=> StoresDone(d, "late_argument")
        BY <1>1, <1>2, <3>2 DEF StoresDone, StartApGoto
      <4>2. goto_address'[d] = goto_address[d]
        BY <3>2 DEF IInv, TypeOK, StartApGoto
      <4> QED
        BY <2>1, <4>1, <4>2 DEF RowInv
    <3> QED
      BY <3>1, <3>2
  <2> QED
    BY <2>1, <2>2, <2>3, <2>4 DEF RowInv, StartApGoto, setup, IdOf, SlotOf, RowOf, None
<1>6. BspInv' /\ CoresInv' /\ BarrierInv'
  <2>1. \A d \in Core : Prepared(d) => Prepared(d)'
    BY <1>1, <1>2 DEF Prepared, Filling, StartApGoto, setup
  <2>2. \A d \in Core : goto_address[d] => goto_address'[d]
    BY DEF IInv, TypeOK, StartApGoto
  <2> QED
    BY <1>1, <2>1, <2>2, EarlyFrame DEF StartApGoto, BspEarly, setup
<1> QED
  BY <1>3, <1>4, <1>5, <1>6 DEF IInv

\* On riscv64 the core may be let go before its argument is there.
LEMMA EarlyGotoStep ==
  ASSUME IInv, EarlyGoto
  PROVE  IInv'
<1>1. /\ pc[Bsp] = "argument" /\ pc'[Bsp] = "late_argument"
      /\ \A d \in Core : d # Bsp => pc'[d] = pc[d]
  BY GotoEffect, CoreAssumption DEF IInv, EarlyGoto
<1>2. /\ i \in Core /\ i # Bsp /\ core_id = IdOf(i) + 1 /\ stacks > 0
      /\ i \in Nat /\ CoreCount \in Nat /\ Bsp \in Nat /\ i < CoreCount /\ core_id \in Nat
      /\ \A d \in Core : d \in Nat /\ d < CoreCount
  <2>1. i < CoreCount /\ i # Bsp /\ core_id = IdOf(i) + 1 /\ stacks = core_id
    BY <1>1 DEF IInv, LoopInv, Filling
  <2> QED
    BY <2>1, LocalTypes
<1>3. TypeOK'
  <2>1. goto_address' \in [Core -> BOOLEAN]
    BY DEF IInv, TypeOK, EarlyGoto
  <2>2. pc' \in [Core -> {"parked", "spin", "panic", "trap"} \cup InMachineInit
                       \cup BspEarly \cup BspLate \cup Finished]
    BY DEF IInv, TypeOK, EarlyGoto, Goto, BspEarly
  <2> QED
    BY <2>1, <2>2 DEF IInv, TypeOK, EarlyGoto, perCore, setup
<1>4. LoopInv'
  BY <1>1 DEF IInv, LoopInv, Filling, EarlyGoto, setup, IdOf
<1>5. RowsInv'
  <2> SUFFICES ASSUME NEW d \in Core PROVE RowInv(d)'
    BY DEF RowsInv
  <2>1. RowInv(d)
    BY DEF IInv, RowsInv
  <2>2. Prepared(d)' <=> Prepared(d)
    BY <1>1, <1>2 DEF Prepared, Filling, EarlyGoto, setup
  <2>3. argument'[d] = IF StoresDone(d, "goto_address")' THEN IdOf(d) ELSE None
    BY <1>1, <2>1 DEF RowInv, StoresDone, EarlyGoto, setup, None
  <2>4. goto_address'[d] <=> StoresDone(d, "late_argument")'
    <3>1. CASE d = i
      BY <1>1, <1>2, <3>1 DEF IInv, TypeOK, EarlyGoto, StoresDone, setup
    <3>2. CASE d # i
      <4>1. StoresDone(d, "late_argument")' <=> StoresDone(d, "late_argument")
        BY <3>2 DEF StoresDone, EarlyGoto, setup
      <4>2. goto_address'[d] = goto_address[d]
        BY <3>2 DEF IInv, TypeOK, EarlyGoto
      <4> QED
        BY <2>1, <4>1, <4>2 DEF RowInv
    <3> QED
      BY <3>1, <3>2
  <2> QED
    BY <2>1, <2>2, <2>3, <2>4 DEF RowInv, EarlyGoto, setup, IdOf, SlotOf, RowOf, None
<1>6. BspInv' /\ CoresInv' /\ BarrierInv'
  <2>1. \A d \in Core : Prepared(d) => Prepared(d)'
    BY <1>1, <1>2 DEF Prepared, Filling, EarlyGoto, setup
  <2>2. \A d \in Core : goto_address[d] => goto_address'[d]
    BY DEF IInv, TypeOK, EarlyGoto
  <2> QED
    BY <1>1, <2>1, <2>2, EarlyFrame DEF EarlyGoto, BspEarly, setup
<1> QED
  BY <1>3, <1>4, <1>5, <1>6 DEF IInv

\* The argument that comes late is still the right one.
LEMMA LateArgumentStep ==
  ASSUME IInv, LateArgument
  PROVE  IInv'
<1>1. /\ pc[Bsp] = "late_argument" /\ pc'[Bsp] = "loop"
      /\ \A d \in Core : d # Bsp => pc'[d] = pc[d]
  BY GotoEffect, CoreAssumption DEF IInv, LateArgument
<1>2. /\ i \in Core /\ i # Bsp /\ core_id = IdOf(i) + 1 /\ stacks > 0
      /\ i \in Nat /\ CoreCount \in Nat /\ Bsp \in Nat /\ i < CoreCount /\ core_id \in Nat
      /\ \A d \in Core : d \in Nat /\ d < CoreCount
  <2>1. i < CoreCount /\ i # Bsp /\ core_id = IdOf(i) + 1 /\ stacks = core_id
    BY <1>1 DEF IInv, LoopInv, Filling
  <2> QED
    BY <2>1, LocalTypes
<1>3. /\ i' = i + 1 /\ i' \in Nat /\ core_id' = core_id /\ stacks' = stacks
      /\ argument' = [argument EXCEPT ![i] = IdOf(i)]
  <2>1. i' = i + 1 /\ core_id' = core_id /\ stacks' = stacks
    BY DEF LateArgument
  <2>2. core_id - 1 = IdOf(i)
    BY <1>2, IdFacts DEF Core
  <2>3. argument' = [argument EXCEPT ![i] = core_id - 1]
    BY DEF LateArgument
  <2>4. i' \in Nat
    BY <1>2, <2>1
  <2>5. argument' = [argument EXCEPT ![i] = IdOf(i)]
    BY <2>2, <2>3, Zenon
  <2> QED
    BY <2>1, <2>4, <2>5
<1>4. TypeOK'
  <2>1. argument' \in [Core -> {None} \cup Core]
    BY <1>2, <1>3, IdFacts DEF IInv, TypeOK
  <2>2. pc' \in [Core -> {"parked", "spin", "panic", "trap"} \cup InMachineInit
                       \cup BspEarly \cup BspLate \cup Finished]
    BY DEF IInv, TypeOK, LateArgument, Goto, BspEarly
  <2>3. i' \in 0..CoreCount
    BY <1>2, <1>3
  <2> QED
    BY <2>1, <2>2, <2>3 DEF IInv, TypeOK, LateArgument, perCore, setup
<1>5. LoopInv'
  <2>1. arch' = arch
    BY DEF LateArgument
  <2> QED
    BY <1>1, <1>2, <1>3, <2>1 DEF IInv, LoopInv, Filling, IdOf
<1>6. RowsInv'
  <2> SUFFICES ASSUME NEW d \in Core PROVE RowInv(d)'
    BY DEF RowsInv
  <2>1. RowInv(d)
    BY DEF IInv, RowsInv
  <2>2. d \in Nat
    BY <1>2
  <2>3. Prepared(d)' <=> Prepared(d)
    BY <1>1, <1>2, <1>3, <2>2 DEF Prepared, Filling
  <2>4. argument'[d] = IF StoresDone(d, "goto_address")' THEN IdOf(d) ELSE None
    <3>1. CASE d = i
      BY <1>1, <1>2, <1>3, <3>1 DEF IInv, TypeOK, StoresDone
    <3>2. CASE d # i
      <4>1. StoresDone(d, "goto_address")' <=> StoresDone(d, "goto_address")
        BY <1>1, <1>2, <1>3, <2>2, <3>2 DEF StoresDone
      <4>2. argument'[d] = argument[d]
        BY <1>3, <3>2 DEF IInv, TypeOK
      <4> QED
        BY <2>1, <4>1, <4>2 DEF RowInv, None
    <3> QED
      BY <3>1, <3>2
  <2>5. goto_address'[d] <=> StoresDone(d, "late_argument")'
    <3>1. StoresDone(d, "late_argument")' <=> StoresDone(d, "late_argument")
      BY <1>1, <1>2, <1>3, <2>2 DEF StoresDone
    <3> QED
      BY <2>1, <3>1 DEF RowInv, LateArgument
  <2> QED
    BY <2>1, <2>3, <2>4, <2>5 DEF RowInv, LateArgument, setup, IdOf, SlotOf, RowOf, None
<1>7. BspInv' /\ CoresInv' /\ BarrierInv'
  <2>1. \A d \in Core : Prepared(d) => Prepared(d)'
    <3> TAKE d \in Core
    <3>1. d \in Nat
      BY <1>2
    <3> QED
      BY <1>1, <1>2, <1>3, <3>1 DEF Prepared, Filling
  <2> QED
    BY <1>1, <1>3, <2>1, EarlyFrame DEF LateArgument, BspEarly
<1> QED
  BY <1>4, <1>5, <1>6, <1>7 DEF IInv

\* The boot processor passes its own index.
LEMMA SkipBspStep ==
  ASSUME IInv, SkipBsp
  PROVE  IInv'
<1>1. i = Bsp /\ i' = i + 1 /\ pc[Bsp] = "loop" 
      /\ pc' = pc /\ core_id' = core_id /\ stacks' = stacks
  BY DEF SkipBsp, IsAp
<1>2. /\ stacks > 0 /\ core_id = i + 1
      /\ i \in Nat /\ CoreCount \in Nat /\ Bsp < CoreCount
      /\ \A d \in Core : d \in Nat /\ d < CoreCount
  BY <1>1, LocalTypes DEF IInv, LoopInv, Filling
<1>3. TypeOK'
  <2>1. i' \in 0..CoreCount
    BY <1>1, <1>2
  <2> QED
    BY <2>1 DEF IInv, TypeOK, SkipBsp, shared, perCore
<1>4. LoopInv'
  <2>1. arch' = arch
    BY DEF SkipBsp, shared
  <2> QED
    BY <1>1, <1>2, <2>1 DEF IInv, LoopInv, Filling
<1>5. RowsInv'
  <2> SUFFICES ASSUME NEW d \in Core PROVE RowInv(d)'
    BY DEF RowsInv
  <2>1. RowInv(d)
    BY DEF IInv, RowsInv
  <2>2. d \in Nat
    BY <1>2
  <2>3. Prepared(d)' <=> Prepared(d)
    BY <1>1, <1>2, <2>2 DEF Prepared, Filling
  <2>4. /\ StoresDone(d, "goto_address")' <=> StoresDone(d, "goto_address")
        /\ StoresDone(d, "late_argument")' <=> StoresDone(d, "late_argument")
    BY <1>1, <1>2, <2>2 DEF StoresDone
  <2> QED
    BY <2>1, <2>3, <2>4 DEF RowInv, SkipBsp, shared, IdOf, SlotOf, RowOf, None
<1>6. BspInv' /\ CoresInv' /\ BarrierInv'
  <2>1. \A d \in Core : Prepared(d) => Prepared(d)'
    <3> TAKE d \in Core
    <3>1. d \in Nat
      BY <1>2
    <3> QED
      BY <1>1, <1>2, <3>1 DEF Prepared, Filling
  <2> QED
    BY <1>1, <2>1, EarlyFrame DEF SkipBsp, BspEarly, shared
<1> QED
  BY <1>3, <1>4, <1>5, <1>6 DEF IInv

\* A boot processor that panics stays there, and the others spin.
LEMMA BspPanicStep ==
  ASSUME IInv, BspPanic
  PROVE  IInv'
<1>1. /\ pc[Bsp] \in {"prepare", "loop", "publish"} /\ pc'[Bsp] = "panic"
      /\ \A d \in Core : d # Bsp => pc'[d] = pc[d]
  BY CoreAssumption DEF IInv, TypeOK, BspPanic
<1>2. TypeOK'
  BY DEF IInv, TypeOK, BspPanic, shared, perCore, setup
<1>3. LoopInv'
  BY <1>1 DEF IInv, LoopInv, Filling, BspPanic, shared, setup
<1>4. RowsInv'
  BY <1>1, RowsFrame DEF IInv, BspPanic, shared, setup, Filling
<1>5. BspInv'
  BY <1>1 DEF IInv, BspInv, BspPanic, shared, perCore, setup, BspEarly, Finished
<1>6. CoresInv'
  <2>1. \A d \in Core : Prepared(d) => Prepared(d)'
    BY <1>1 DEF Prepared, Filling, BspPanic, setup
  <2>2. CoreInv(Bsp)'
    BY <1>1, <2>1, CoreAssumption
       DEF IInv, CoresInv, CoreInv, BspPanic, shared, perCore, BspLate, Finished, IdOf, None
  <2> QED
    BY <1>1, <2>1, <2>2, OtherCores, CoreAssumption DEF IInv, BspPanic, shared, perCore
<1>7. BarrierInv'
  BY <1>1, BarrierFrame DEF IInv, BspPanic, Arrived
<1> QED
  BY <1>2, <1>3, <1>4, <1>5, <1>6, <1>7 DEF IInv

----------------------------------------------------------------------------
(* The boot processor from arch_setup_cpus to the release of the others.   *)

\* When the loop has ended, every core is started and the trampoline is there.
LEMMA PrepareHandoffStep ==
  ASSUME IInv, PrepareHandoff
  PROVE  IInv'
<1>1. /\ pc[Bsp] = "loop" /\ pc'[Bsp] = "publish"
      /\ \A d \in Core : d # Bsp => pc'[d] = pc[d]
  BY GotoEffect, CoreAssumption DEF IInv, PrepareHandoff
<1>2. TypeOK'
  BY CoreAssumption
     DEF IInv, PrepareHandoff, TypeOK, Goto, BspEarly, BspLate, InMachineInit, Finished,
         perCore, setup
<1>3. LoopInv'
  BY <1>1, LoopFrame DEF IInv, PrepareHandoff, setup, Filling, LoopInv
<1>4. RowsInv'
  BY <1>1, RowsFrame DEF IInv, PrepareHandoff, setup, Filling
<1>5. BspInv'
  BY <1>1, CoreAssumption
     DEF IInv, BspInv, PrepareHandoff, perCore, setup, BspEarly, Finished, TypeOK
<1>6. CoresInv'
  <2>1. CoreInv(Bsp)'
    BY <1>1, CoreAssumption
       DEF IInv, CoresInv, CoreInv, PrepareHandoff, perCore, setup, Prepared, Filling, BspLate,
           Finished,
           IdOf, SlotOf, None, LoopInv
  <2> QED
    BY <1>1, <2>1, OtherCores, CoreAssumption
       DEF IInv, PrepareHandoff, perCore, setup, Prepared, Filling, TypeOK
<1>7. BarrierInv'
  BY <1>1, BarrierFrame DEF IInv, PrepareHandoff, Arrived
<1> QED
  BY <1>2, <1>3, <1>4, <1>5, <1>6, <1>7 DEF IInv

\* The memory map is published before any core goes on to its machine initialisation.
LEMMA PublishMemoryMapStep ==
  ASSUME IInv, PublishMemoryMap
  PROVE  IInv'
<1>1. /\ pc[Bsp] = "publish" /\ pc'[Bsp] = "control_registers"
      /\ \A d \in Core : d # Bsp => pc'[d] = pc[d]
  BY GotoEffect, CoreAssumption DEF IInv, PublishMemoryMap
<1>2. TypeOK'
  <2>1. info' \in [Core -> {None} \cup Core]
    <3>1. 0 \in Core
      BY CoreAssumption DEF Core
    <3> QED
      BY <3>1 DEF IInv, TypeOK, PublishMemoryMap
  <2>2. pc' \in [Core -> {"parked", "spin", "panic", "trap"} \cup InMachineInit
                       \cup BspEarly \cup BspLate \cup Finished]
    BY DEF IInv, TypeOK, PublishMemoryMap, Goto, InMachineInit
  <2> QED
    BY <2>1, <2>2 DEF IInv, TypeOK, PublishMemoryMap, setup, PublishedType, ImageType
<1>3. LoopInv'
  BY <1>1, LoopFrame DEF IInv, PublishMemoryMap, setup, Filling, LoopInv
<1>4. RowsInv'
  BY <1>1, RowsFrame DEF IInv, PublishMemoryMap, setup, Filling
<1>5. BspInv'
  BY <1>1, CoreAssumption
     DEF IInv, BspInv, PublishMemoryMap, perCore, setup, BspEarly, Finished, TypeOK,
         PublishedType, ImageType
<1>6. CoresInv'
  <2>1. CoreInv(Bsp)'
    <3>1. info'[Bsp] = 0
      BY CoreAssumption DEF IInv, TypeOK, PublishMemoryMap
    <3>2. Prepared(Bsp)'
      <4>1. stacks \in Nat /\ stacks # 0
        BY <1>1, LocalTypes DEF IInv, LoopInv
      <4>2. stacks' = stacks
        BY DEF PublishMemoryMap, setup
      <4> QED
        BY <4>1, <4>2 DEF Prepared
    <3> QED
      BY <1>1, <3>1, <3>2 DEF CoreInv, BspLate, Finished, IdOf
  <2> QED
    BY <1>1, <2>1, OtherCores, CoreAssumption
       DEF IInv, PublishMemoryMap, perCore, setup, Prepared, Filling, TypeOK
<1>7. BarrierInv'
  BY <1>1, BarrierFrame DEF IInv, PublishMemoryMap, Arrived
<1> QED
  BY <1>2, <1>3, <1>4, <1>5, <1>6, <1>7 DEF IInv

\* The entry point is set before the count.
LEMMA SetEntryPointStep ==
  ASSUME IInv, SetEntryPoint
  PROVE  IInv'
<1>1. /\ pc[Bsp] = "entry_point" /\ pc'[Bsp] = "core_count"
      /\ \A d \in Core : d # Bsp => pc'[d] = pc[d]
  BY GotoEffect, CoreAssumption DEF IInv, SetEntryPoint
<1>2. TypeOK'
  BY CoreAssumption
     DEF IInv, SetEntryPoint, TypeOK, Goto, BspEarly, BspLate, InMachineInit, Finished, perCore,
         setup
<1>3. LoopInv'
  BY <1>1, LoopFrame DEF IInv, SetEntryPoint, setup, Filling, LoopInv
<1>4. RowsInv'
  BY <1>1, RowsFrame DEF IInv, SetEntryPoint, setup, Filling
<1>5. BspInv'
  BY <1>1, CoreAssumption
     DEF IInv, BspInv, SetEntryPoint, perCore, setup, BspEarly, Finished, TypeOK
<1>6. CoresInv'
  <2>1. CoreInv(Bsp)'
    BY <1>1, CoreAssumption
       DEF IInv, CoresInv, CoreInv, SetEntryPoint, perCore, setup, Prepared, Filling, BspLate,
           Finished,
           IdOf, SlotOf, None, LoopInv
  <2> QED
    BY <1>1, <2>1, OtherCores, CoreAssumption
       DEF IInv, SetEntryPoint, perCore, setup, Prepared, Filling, TypeOK
<1>7. BarrierInv'
  BY <1>1, BarrierFrame DEF IInv, SetEntryPoint, Arrived
<1> QED
  BY <1>2, <1>3, <1>4, <1>5, <1>6, <1>7 DEF IInv

\* The count is set before the release, so no core sees it as zero.
LEMMA SetCoreCountStep ==
  ASSUME IInv, SetCoreCount
  PROVE  IInv'
<1>1. /\ pc[Bsp] = "core_count" /\ pc'[Bsp] = "release"
      /\ \A d \in Core : d # Bsp => pc'[d] = pc[d]
  BY GotoEffect, CoreAssumption DEF IInv, SetCoreCount
<1>2. TypeOK'
  BY CoreAssumption
     DEF IInv, SetCoreCount, TypeOK, Goto, BspEarly, BspLate, InMachineInit, Finished, perCore,
         setup, ExpectedCores
<1>3. LoopInv'
  BY <1>1, LoopFrame DEF IInv, SetCoreCount, setup, Filling, LoopInv
<1>4. RowsInv'
  BY <1>1, RowsFrame DEF IInv, SetCoreCount, setup, Filling
<1>5. BspInv'
  BY <1>1, CoreAssumption
     DEF IInv, BspInv, SetCoreCount, perCore, setup, BspEarly, Finished, TypeOK, ExpectedCores
<1>6. CoresInv'
  <2>1. CoreInv(Bsp)'
    BY <1>1, CoreAssumption
       DEF IInv, CoresInv, CoreInv, SetCoreCount, perCore, setup, Prepared, Filling, BspLate,
           Finished,
           IdOf, SlotOf, None, LoopInv
  <2> QED
    BY <1>1, <2>1, OtherCores, CoreAssumption
       DEF IInv, SetCoreCount, perCore, setup, Prepared, Filling, TypeOK
<1>7. BarrierInv'
  BY <1>1, BarrierFrame DEF IInv, SetCoreCount, Arrived
<1> QED
  BY <1>2, <1>3, <1>4, <1>5, <1>6, <1>7 DEF IInv

\* The others are released when all that they will use is there.
LEMMA ReleaseApsStep ==
  ASSUME IInv, ReleaseAps
  PROVE  IInv'
<1>1. /\ pc[Bsp] = "release" /\ pc'[Bsp] = "call_handoff"
      /\ \A d \in Core : d # Bsp => pc'[d] = pc[d]
  BY GotoEffect, CoreAssumption DEF IInv, ReleaseAps
<1>2. TypeOK'
  BY CoreAssumption
     DEF IInv, ReleaseAps, TypeOK, Goto, BspEarly, BspLate, InMachineInit, Finished, perCore,
         setup
<1>3. LoopInv'
  BY <1>1, LoopFrame DEF IInv, ReleaseAps, setup, Filling, LoopInv
<1>4. RowsInv'
  BY <1>1, RowsFrame DEF IInv, ReleaseAps, setup, Filling
<1>5. BspInv'
  BY <1>1, CoreAssumption
     DEF IInv, BspInv, ReleaseAps, perCore, setup, BspEarly, Finished, TypeOK
<1>6. CoresInv'
  <2>1. CoreInv(Bsp)'
    BY <1>1, CoreAssumption
       DEF IInv, CoresInv, CoreInv, ReleaseAps, perCore, setup, Prepared, Filling, BspLate,
           Finished,
           IdOf, SlotOf, None, LoopInv
  <2> QED
    BY <1>1, <2>1, OtherCores, CoreAssumption
       DEF IInv, ReleaseAps, perCore, setup, Prepared, Filling, TypeOK
<1>7. BarrierInv'
  BY <1>1, BarrierFrame DEF IInv, ReleaseAps, Arrived
<1> QED
  BY <1>2, <1>3, <1>4, <1>5, <1>6, <1>7 DEF IInv

----------------------------------------------------------------------------
(* Every core: the park loop, arch_machine_init and sync_and_handoff.      *)

\* A core at the barrier only goes on when every core has arrived: the count was set
\* before any core was released.
LEMMA BarrierOpens ==
  ASSUME IInv, NEW c \in Core, LeaveBarrier(c)
  PROVE  ArrivedCores = Core
<1>1. g_core_count = CoreCount
  BY DEF LeaveBarrier, Goto, IInv, BspInv, CoresInv, ApInv, Finished
<1>2. Cardinality(ArrivedCores) >= CoreCount
  BY <1>1 DEF LeaveBarrier, AllRunning, IInv, BarrierInv
<1> QED
  BY <1>2, ArrivedFinite DEF ArrivedCores

\* A core leaves its park loop with its own row, or on riscv64 with none.
LEMMA LeaveParkStep ==
  ASSUME IInv, NEW c \in Core, LeavePark(c)
  PROVE  IInv'
<1>1. /\ pc[c] = "parked" /\ pc'[c] = "spin"
      /\ \A d \in Core : d # c => pc'[d] = pc[d]
  BY GotoEffect DEF IInv, LeavePark
<1>2. /\ c # Bsp /\ info'[c] = argument[c]
      /\ argument[c] # None => argument[c] = IdOf(c) /\ Prepared(c)
      /\ arch = "x86_64" => argument[c] # None
  <2>1. c # Bsp /\ info'[c] = argument[c]
    BY <1>1 DEF IInv, BspInv, LeavePark, TypeOK
  <2>2. RowInv(c) /\ goto_address[c]
    BY DEF IInv, RowsInv, LeavePark
  <2>3. stacks \in Nat /\ i \in Nat /\ c \in Nat
    BY LocalTypes
  <2>4. StoresDone(c, "late_argument")
    BY <2>2 DEF RowInv
  <2>5. stacks # 0
    <3>1. stacks = 0 => i = 0 /\ pc[Bsp] # "late_argument"
      BY DEF IInv, LoopInv
    <3> QED
      BY <2>3, <2>4, <3>1 DEF StoresDone
  <2>6. argument[c] # None => argument[c] = IdOf(c) /\ StoresDone(c, "goto_address")
    BY <2>2 DEF RowInv
  <2>7. argument[c] # None => argument[c] = IdOf(c) /\ Prepared(c)
    <3>1. stacks > 0
      BY <2>3, <2>5
    <3> QED
      BY <2>6, <3>1 DEF StoresDone, Prepared, Filling
  <2>8. arch = "x86_64" => argument[c] # None
    BY <2>2, IdFacts DEF RowInv, StoresDone, IInv, LoopInv
  <2> QED
    BY <2>1, <2>7, <2>8
<1>3. TypeOK'
  <2>1. info' \in [Core -> {None} \cup Core]
    BY DEF IInv, TypeOK, LeavePark
  <2>2. pc' \in [Core -> {"parked", "spin", "panic", "trap"} \cup InMachineInit
                       \cup BspEarly \cup BspLate \cup Finished]
    BY DEF IInv, TypeOK, LeavePark, Goto
  <2> QED
    BY <2>1, <2>2 DEF IInv, TypeOK, LeavePark, shared, setup
<1>4. LoopInv' /\ RowsInv' /\ \A d \in Core : Prepared(d) => Prepared(d)'
  <2>1. PICK to : Goto(c, "parked", to) /\ to \in {"spin"}
    BY DEF LeavePark
  <2>2. /\ "parked" \notin BspEarly \cup {"panic"} /\ to \notin BspEarly
        /\ UNCHANGED <<shared, setup>>
        /\ arch_info' = arch_info \/ arch = "x86_64"
    BY <1>1, <2>1 DEF LeavePark, BspEarly, perCore
  <2> QED
    BY <2>1, <2>2, CoreFrame
<1>5. BspInv'
  BY <1>1, CoreAssumption
     DEF IInv, BspInv, CoresInv, ApInv, LeavePark, shared, perCore, setup, BspEarly, Finished,
         TypeOK
<1>6. CoresInv'
  <2>1. CoreInv(c)'
    BY <1>1, <1>2, <1>4 DEF CoreInv, BspLate, Finished, IdOf, None
  <2>2. c # Bsp => ApInv(c)'
    BY <1>1, <1>2 DEF ApInv, LeavePark, shared, BspEarly, BspLate, InMachineInit, Finished, None
  <2> QED
    BY <1>1, <1>4, <2>1, <2>2, OtherCores DEF IInv, LeavePark, shared, perCore, TypeOK
<1>7. BarrierInv'
  BY <1>1, BarrierFrame DEF IInv, LeavePark, Arrived, perCore, shared
<1> QED
  BY <1>3, <1>4, <1>5, <1>6, <1>7 DEF IInv

\* A core that sees the release finds all that the boot processor stored before.
LEMMA SeeReleaseStep ==
  ASSUME IInv, NEW c \in Core, SeeRelease(c)
  PROVE  IInv'
<1>1. /\ pc[c] = "spin" /\ pc'[c] = "control_registers"
      /\ \A d \in Core : d # c => pc'[d] = pc[d]
  BY GotoEffect DEF IInv, SeeRelease
<1>2. TypeOK'
  BY CoreAssumption
     DEF IInv, SeeRelease, TypeOK, Goto, BspLate, InMachineInit, Finished, shared, perCore, setup
<1>3. LoopInv' /\ RowsInv' /\ \A d \in Core : Prepared(d) => Prepared(d)'
  <2>1. PICK to : Goto(c, "spin", to) /\ to \in {"control_registers"}
    BY DEF SeeRelease
  <2>2. /\ "spin" \notin BspEarly \cup {"panic"} /\ to \notin BspEarly
        /\ UNCHANGED <<shared, setup>>
        /\ arch_info' = arch_info \/ arch = "x86_64"
    BY <1>1, <2>1 DEF SeeRelease, BspEarly, perCore
  <2> QED
    BY <2>1, <2>2, CoreFrame
<1>4. BspInv'
  BY <1>1, CoreAssumption
     DEF IInv, BspInv, CoresInv, ApInv, SeeRelease, shared, perCore, setup, BspEarly, Finished,
         TypeOK, Released
<1>5. CoresInv'
  <2>1. CoreInv(c)'
    BY <1>1, <1>3
       DEF IInv, CoresInv, CoreInv, SeeRelease, shared, perCore, BspLate, Finished, IdOf,
           SlotOf, None,
           ArgsOf, Released
  <2>2. c # Bsp => ApInv(c)'
    BY <1>1
       DEF IInv, CoresInv, CoreInv, ApInv, SeeRelease, shared, perCore, BspEarly, BspLate,
           InMachineInit,
           Finished, None, TypeOK, Released
  <2> QED
    BY <1>1, <1>3, <2>1, <2>2, OtherCores DEF IInv, SeeRelease, shared, perCore, TypeOK
<1>6. BarrierInv'
  BY <1>1, BarrierFrame DEF IInv, SeeRelease, Arrived, perCore, shared
<1> QED
  BY <1>2, <1>3, <1>4, <1>5, <1>6 DEF IInv

\* A core on x86_64 comes here with its start information.
LEMMA SetupControlRegistersStep ==
  ASSUME IInv, NEW c \in Core, SetupControlRegisters(c)
  PROVE  IInv'
<1>1. /\ pc[c] = "control_registers" /\ pc'[c] \in {"gdt", "panic"}
      /\ \A d \in Core : d # c => pc'[d] = pc[d]
  BY GotoEffect DEF IInv, SetupControlRegisters
<1>2. TypeOK'
  BY CoreAssumption
     DEF IInv, SetupControlRegisters, TypeOK, Goto, BspLate, InMachineInit, Finished, shared,
         perCore, setup
<1>3. LoopInv' /\ RowsInv' /\ \A d \in Core : Prepared(d) => Prepared(d)'
  <2>1. PICK to : Goto(c, "control_registers", to) /\ to \in {"gdt", "panic"}
    BY DEF SetupControlRegisters
  <2>2. /\ "control_registers" \notin BspEarly \cup {"panic"} /\ to \notin BspEarly
        /\ UNCHANGED <<shared, setup>>
        /\ arch_info' = arch_info \/ arch = "x86_64"
    BY <1>1, <2>1 DEF SetupControlRegisters, BspEarly, perCore
  <2> QED
    BY <2>1, <2>2, CoreFrame
<1>4. BspInv'
  BY <1>1, CoreAssumption
     DEF IInv, BspInv, CoresInv, ApInv, SetupControlRegisters, shared, perCore, setup, BspEarly,
         Finished, TypeOK
<1>5. CoresInv'
  <2>1. CoreInv(c)'
    <3>1. info[c] # None
      <4>1. CASE c = Bsp
        <5>1. info[Bsp] = 0
          BY <1>1, <4>1 DEF IInv, BspInv, BspEarly
        <5> QED
          BY <4>1, <5>1 DEF None
      <4>2. CASE c # Bsp
        BY <1>1, <4>2 DEF IInv, CoresInv, ApInv, SetupControlRegisters
      <4> QED
        BY <4>1, <4>2
    <3> QED
      BY <1>1, <1>3, <3>1
         DEF IInv, CoresInv, CoreInv, SetupControlRegisters, shared, perCore, BspLate, Finished,
             IdOf, None
  <2>2. c # Bsp => ApInv(c)'
    BY <1>1
       DEF IInv, CoresInv, CoreInv, ApInv, SetupControlRegisters, shared, perCore, BspEarly,
           BspLate, InMachineInit,
           Finished, None, TypeOK
  <2> QED
    BY <1>1, <1>3, <2>1, <2>2, OtherCores
       DEF IInv, SetupControlRegisters, shared, perCore, TypeOK
<1>6. BarrierInv'
  BY <1>1, BarrierFrame DEF IInv, SetupControlRegisters, Arrived, perCore, shared
<1> QED
  BY <1>2, <1>3, <1>4, <1>5, <1>6 DEF IInv

\* A hart that goes on has start information, and its slot was filled in by the
\* boot processor.
LEMMA SetupStatusStep ==
  ASSUME IInv, NEW c \in Core, SetupStatus(c)
  PROVE  IInv'
<1>1. /\ pc[c] = "control_registers" /\ pc'[c] \in {"gs_base", "trap"}
      /\ \A d \in Core : d # c => pc'[d] = pc[d]
  BY GotoEffect DEF IInv, SetupStatus
<1>2. TypeOK'
  BY CoreAssumption
     DEF IInv, SetupStatus, TypeOK, Goto, BspLate, InMachineInit, Finished, shared, perCore,
         setup
<1>3. LoopInv' /\ RowsInv' /\ \A d \in Core : Prepared(d) => Prepared(d)'
  <2>1. PICK to : Goto(c, "control_registers", to) /\ to \in {"gs_base", "trap"}
    BY DEF SetupStatus
  <2>2. /\ "control_registers" \notin BspEarly \cup {"panic"} /\ to \notin BspEarly
        /\ UNCHANGED <<shared, setup>>
        /\ arch_info' = arch_info \/ arch = "x86_64"
    BY <1>1, <2>1 DEF SetupStatus, BspEarly, perCore
  <2> QED
    BY <2>1, <2>2, CoreFrame
<1>4. BspInv'
  BY <1>1, CoreAssumption
     DEF IInv, BspInv, CoresInv, ApInv, SetupStatus, shared, perCore, setup, BspEarly, Finished,
         TypeOK
<1>5. CoresInv'
  <2>1. CoreInv(c)'
    <3>1. pc'[c] = IF info[c] # None THEN "gs_base" ELSE "trap"
      BY GotoEffect DEF IInv, SetupStatus
    <3>2. info[c] # None => arch_info[SlotOf(c)] = c
      BY OwnRow DEF IInv, RowsInv, RowInv, SetupStatus
    <3> QED
      BY <1>3, <3>1, <3>2
         DEF IInv, CoresInv, CoreInv, SetupStatus, shared, perCore, BspLate, Finished,
             IdOf, SlotOf, None
  <2>2. c # Bsp => ApInv(c)'
    BY <1>1
       DEF IInv, CoresInv, CoreInv, ApInv, SetupStatus, shared, perCore, BspEarly, BspLate,
           InMachineInit,
           Finished, None, TypeOK
  <2> QED
    BY <1>1, <1>3, <2>1, <2>2, OtherCores DEF IInv, SetupStatus, shared, perCore, TypeOK
<1>6. BarrierInv'
  BY <1>1, BarrierFrame DEF IInv, SetupStatus, Arrived, perCore, shared
<1> QED
  BY <1>2, <1>3, <1>4, <1>5, <1>6 DEF IInv

\* A core writes its own GDT and TSS.
LEMMA SetupGdtStep ==
  ASSUME IInv, NEW c \in Core, SetupGdt(c)
  PROVE  IInv'
<1>1. /\ pc[c] = "gdt" /\ pc'[c] = "gs_base"
      /\ \A d \in Core : d # c => pc'[d] = pc[d]
  BY GotoEffect DEF IInv, SetupGdt
<1>2. info[c] # None /\ arch_info' = [arch_info EXCEPT ![SlotOf(c)] = c]
  <2>1. info[c] # None
    BY <1>1 DEF IInv, CoresInv, CoreInv
  <2>2. start_info[info[c]].arch_pointer = SlotOf(c)
    BY <2>1, OwnRow
  <2> QED
    BY <2>1, <2>2 DEF SetupGdt
<1>3. TypeOK'
  BY CoreAssumption
     DEF IInv, SetupGdt, TypeOK, Goto, BspLate, InMachineInit, Finished, shared, perCore, setup
<1>4. LoopInv' /\ RowsInv' /\ \A d \in Core : Prepared(d) => Prepared(d)'
  <2>1. PICK to : Goto(c, "gdt", to) /\ to \in {"gs_base"}
    BY DEF SetupGdt
  <2>2. /\ "gdt" \notin BspEarly \cup {"panic"} /\ to \notin BspEarly
        /\ UNCHANGED <<shared, setup>>
        /\ arch_info' = arch_info \/ arch = "x86_64"
    BY <1>1, <2>1 DEF SetupGdt, BspEarly, perCore, IInv, CoresInv, CoreInv
  <2> QED
    BY <2>1, <2>2, CoreFrame
<1>5. BspInv'
  BY <1>1, CoreAssumption
     DEF IInv, BspInv, CoresInv, ApInv, SetupGdt, shared, perCore, setup, BspEarly, Finished,
         TypeOK
<1>6. CoresInv'
  <2>1. CoreInv(c)'
    <3>1. arch_info'[SlotOf(c)] = c
      BY <1>2, IdFacts DEF IInv, TypeOK
    <3> QED
      BY <1>1, <1>2, <1>4, <3>1
         DEF IInv, CoresInv, CoreInv, SetupGdt, shared, perCore, BspLate, Finished, IdOf, SlotOf,
             None
  <2>2. c # Bsp => ApInv(c)'
    BY <1>1
       DEF IInv, CoresInv, CoreInv, ApInv, SetupGdt, shared, perCore, BspEarly, BspLate,
           InMachineInit,
           Finished, None, TypeOK
  <2> QED
    <3>1. ASSUME NEW d \in Core, arch_info[SlotOf(d)] = d
          PROVE  arch_info'[SlotOf(d)] = d
      BY <1>2, <3>1, IdFacts DEF IInv, TypeOK
    <3> QED
      BY <1>1, <1>4, <2>1, <2>2, <3>1, OtherCores DEF IInv, SetupGdt, shared, perCore
<1>7. BarrierInv'
  BY <1>1, BarrierFrame DEF IInv, SetupGdt, Arrived, perCore, shared
<1> QED
  BY <1>3, <1>4, <1>5, <1>6, <1>7 DEF IInv

\* A core loads its own cpu-local area.
LEMMA SetupGsBaseStep ==
  ASSUME IInv, NEW c \in Core, SetupGsBase(c)
  PROVE  IInv'
<1>1. /\ pc[c] = "gs_base" /\ pc'[c] \in {"entry_point", "call_handoff"}
      /\ \A d \in Core : d # c => pc'[d] = pc[d]
  BY GotoEffect DEF IInv, SetupGsBase
<1>2. /\ info[c] # None /\ gs_base' = [gs_base EXCEPT ![c] = IdOf(c)]
      /\ pc'[c] = IF c = Bsp THEN "entry_point" ELSE "call_handoff"
  <2>1. info[c] # None
    BY <1>1 DEF IInv, CoresInv, CoreInv
  <2>2. pc'[c] = IF c = Bsp THEN "entry_point" ELSE "call_handoff"
    BY GotoEffect DEF IInv, SetupGsBase
  <2>3. start_info[info[c]].cpu_local = IdOf(c)
    BY <2>1, OwnRow
  <2> QED
    BY <2>1, <2>2, <2>3 DEF SetupGsBase
<1>3. TypeOK'
  <2>1. gs_base' \in [Core -> {None} \cup Core]
    BY <1>2, IdFacts DEF IInv, TypeOK
  <2>2. pc' \in [Core -> {"parked", "spin", "panic", "trap"} \cup InMachineInit
                       \cup BspEarly \cup BspLate \cup Finished]
    BY DEF IInv, TypeOK, SetupGsBase, Goto, BspLate, Finished
  <2> QED
    BY <2>1, <2>2 DEF IInv, TypeOK, SetupGsBase, shared, setup
<1>4. LoopInv' /\ RowsInv' /\ \A d \in Core : Prepared(d) => Prepared(d)'
  <2>1. PICK to : Goto(c, "gs_base", to) /\ to \in {"entry_point", "call_handoff"}
    BY DEF SetupGsBase
  <2>2. /\ "gs_base" \notin BspEarly \cup {"panic"} /\ to \notin BspEarly
        /\ UNCHANGED <<shared, setup>>
        /\ arch_info' = arch_info \/ arch = "x86_64"
    BY <1>1, <2>1 DEF SetupGsBase, BspEarly, perCore
  <2> QED
    BY <2>1, <2>2, CoreFrame
<1>5. BspInv'
  <2>1. CASE c = Bsp
    BY <1>1, <1>2, <2>1 DEF IInv, BspInv, SetupGsBase, shared, setup, BspEarly, Finished
  <2>2. CASE c # Bsp
    BY <1>1, <2>2, CoreAssumption DEF IInv, BspInv, SetupGsBase, shared, setup
  <2> QED
    BY <2>1, <2>2
<1>6. CoresInv'
  <2>1. CoreInv(c)'
    <3>1. gs_base'[c] = IdOf(c)
      BY <1>2 DEF IInv, TypeOK
    <3> QED
      BY <1>1, <1>2, <1>4, <3>1
         DEF IInv, CoresInv, CoreInv, SetupGsBase, shared, BspLate, Finished, IdOf, SlotOf, None
  <2>2. c # Bsp => ApInv(c)'
    BY <1>1, <1>2
       DEF IInv, CoresInv, ApInv, SetupGsBase, shared, BspEarly, BspLate, InMachineInit,
           Finished,
           None
  <2> QED
    BY <1>1, <1>4, <2>1, <2>2, OtherCores DEF IInv, SetupGsBase, shared, perCore, TypeOK
<1>7. BarrierInv'
  BY <1>1, BarrierFrame DEF IInv, SetupGsBase, Arrived, perCore, shared
<1> QED
  BY <1>3, <1>4, <1>5, <1>6, <1>7 DEF IInv

\* A core calls sync_and_handoff with its own stack and id and with the entry point.
LEMMA CallHandoffStep ==
  ASSUME IInv, NEW c \in Core, CallHandoff(c)
  PROVE  IInv'
<1>1. /\ pc[c] = "call_handoff" /\ pc'[c] = "arrive"
      /\ \A d \in Core : d # c => pc'[d] = pc[d]
  BY GotoEffect DEF IInv, CallHandoff
<1>2. info[c] # None /\ args' = [args EXCEPT ![c] = ArgsOf(c)]
  <2>1. info[c] # None
    BY <1>1 DEF IInv, CoresInv, CoreInv, Finished
  <2>2. g_kernel_entry_point = TRUE
    <3>1. g_kernel_entry_point \in BOOLEAN
      BY DEF IInv, TypeOK
    <3>2. pc[Bsp] \in Finished
      BY <1>1 DEF IInv, BspInv, CoresInv, ApInv, Finished
    <3> QED
      BY <3>1, <3>2 DEF IInv, BspInv
  <2>3. start_info[info[c]].stack = IdOf(c) + 1 /\ start_info[info[c]].core_id = IdOf(c)
    BY <2>1, OwnRow
  <2>4. (IF c = Bsp THEN 0 ELSE IdOf(c)) = IdOf(c)
    BY DEF IdOf
  <2> QED
    BY <2>1, <2>2, <2>3, <2>4 DEF CallHandoff, GetsBootInfo, ArgsOf
<1>3. TypeOK'
  <2>1. ArgsOf(c) \in [entry : BOOLEAN, stack : 0..CoreCount, boot_info : BOOLEAN,
                        core_id : {None} \cup Core]
    BY IdFacts DEF ArgsOf
  <2>2. args' \in [Core -> [entry : BOOLEAN, stack : 0..CoreCount, boot_info : BOOLEAN,
                            core_id : {None} \cup Core]]
    BY <1>2, <2>1 DEF IInv, TypeOK
  <2>3. pc' \in [Core -> {"parked", "spin", "panic", "trap"} \cup InMachineInit
                       \cup BspEarly \cup BspLate \cup Finished]
    BY DEF IInv, TypeOK, CallHandoff, Goto, Finished
  <2> QED
    BY <2>2, <2>3 DEF IInv, TypeOK, CallHandoff, shared, setup
<1>4. LoopInv' /\ RowsInv' /\ \A d \in Core : Prepared(d) => Prepared(d)'
  <2>1. PICK to : Goto(c, "call_handoff", to) /\ to \in {"arrive"}
    BY DEF CallHandoff
  <2>2. /\ "call_handoff" \notin BspEarly \cup {"panic"} /\ to \notin BspEarly
        /\ UNCHANGED <<shared, setup>>
        /\ arch_info' = arch_info \/ arch = "x86_64"
    BY <1>1, <2>1 DEF CallHandoff, BspEarly, perCore
  <2> QED
    BY <2>1, <2>2, CoreFrame
<1>5. BspInv'
  BY <1>1, CoreAssumption
     DEF IInv, BspInv, CoresInv, ApInv, CallHandoff, shared, perCore, setup, BspEarly, Finished,
         TypeOK
<1>6. CoresInv'
  <2>1. CoreInv(c)'
    <3>1. args'[c] = ArgsOf(c)
      BY <1>2 DEF IInv, TypeOK
    <3> QED
      BY <1>1, <1>2, <1>4, <3>1
         DEF IInv, CoresInv, CoreInv, CallHandoff, shared, BspLate, Finished, IdOf, SlotOf, None,
             ArgsOf
  <2>2. c # Bsp => ApInv(c)'
    BY <1>1
       DEF IInv, CoresInv, CoreInv, ApInv, CallHandoff, shared, perCore, BspEarly, BspLate,
           InMachineInit,
           Finished, None, TypeOK
  <2> QED
    BY <1>1, <1>4, <2>1, <2>2, OtherCores DEF IInv, CallHandoff, shared, perCore, TypeOK
<1>7. BarrierInv'
  BY <1>1, BarrierFrame DEF IInv, CallHandoff, Arrived, perCore, shared
<1> QED
  BY <1>3, <1>4, <1>5, <1>6, <1>7 DEF IInv

\* The increment counts the core once.
LEMMA ArriveStep ==
  ASSUME IInv, NEW c \in Core, Arrive(c)
  PROVE  IInv'
<1>1. /\ pc[c] = "arrive" /\ pc'[c] = "wait"
      /\ \A d \in Core : d # c => pc'[d] = pc[d]
  BY GotoEffect DEF IInv, Arrive
<1>2. /\ ArrivedCores' = ArrivedCores \cup {c} /\ c \notin ArrivedCores
      /\ IsFiniteSet(ArrivedCores) /\ IsFiniteSet(ArrivedCores')
  BY <1>1, ArrivedFinite DEF ArrivedCores, Arrived
<1>3. g_running_cores' = Cardinality(ArrivedCores')
  BY <1>2, FS_AddElement DEF IInv, BarrierInv, Arrive
<1>4. TypeOK'
  <2>1. g_running_cores' \in 0..CoreCount
    BY <1>3, ArrivedFinite DEF ArrivedCores
  <2>2. pc' \in [Core -> {"parked", "spin", "panic", "trap"} \cup InMachineInit
                       \cup BspEarly \cup BspLate \cup Finished]
    BY DEF IInv, TypeOK, Arrive, Goto, Finished
  <2> QED
    BY <2>1, <2>2 DEF IInv, TypeOK, Arrive, shared, perCore, setup
<1>5. LoopInv' /\ RowsInv' /\ \A d \in Core : Prepared(d) => Prepared(d)'
  <2>1. PICK to : Goto(c, "arrive", to) /\ to \in {"wait"}
    BY DEF Arrive
  <2>2. /\ "arrive" \notin BspEarly \cup {"panic"} /\ to \notin BspEarly
        /\ UNCHANGED <<shared, setup>>
        /\ arch_info' = arch_info \/ arch = "x86_64"
    BY <1>1, <2>1 DEF Arrive, BspEarly, perCore
  <2> QED
    BY <2>1, <2>2, CoreFrame
<1>6. BspInv'
  BY <1>1, CoreAssumption
     DEF IInv, BspInv, CoresInv, ApInv, Arrive, shared, perCore, setup, BspEarly, Finished,
         TypeOK
<1>7. CoresInv'
  <2>1. CoreInv(c)'
    BY <1>1, <1>5
       DEF IInv, CoresInv, CoreInv, Arrive, shared, perCore, BspLate, Finished, IdOf, SlotOf,
           None,
           ArgsOf
  <2>2. c # Bsp => ApInv(c)'
    BY <1>1
       DEF IInv, CoresInv, CoreInv, ApInv, Arrive, shared, perCore, BspEarly, BspLate,
           InMachineInit,
           Finished, None, TypeOK
  <2> QED
    BY <1>1, <1>5, <2>1, <2>2, OtherCores DEF IInv, Arrive, shared, perCore, TypeOK
<1>8. BarrierInv'
  <2>1. (\E d \in Core : pc'[d] \in {"trampoline", "kernel"}) => ArrivedCores = Core
    BY <1>1 DEF IInv, BarrierInv
  <2>2. ArrivedCores = Core => ArrivedCores' = Core
    BY <1>2
  <2> QED
    BY <1>3, <2>1, <2>2 DEF BarrierInv
<1> QED
  BY <1>4, <1>5, <1>6, <1>7, <1>8 DEF IInv

\* A core that leaves the barrier leaves no core behind: the count was set before
\* any core arrived.
LEMMA LeaveBarrierStep ==
  ASSUME IInv, NEW c \in Core, LeaveBarrier(c)
  PROVE  IInv'
<1>1. /\ pc[c] = "wait" /\ pc'[c] = "trampoline"
      /\ \A d \in Core : d # c => pc'[d] = pc[d]
  BY GotoEffect DEF IInv, LeaveBarrier
<1>2. TypeOK'
  BY CoreAssumption
     DEF IInv, LeaveBarrier, TypeOK, Goto, BspLate, InMachineInit, Finished, shared, perCore,
         setup
<1>3. LoopInv' /\ RowsInv' /\ \A d \in Core : Prepared(d) => Prepared(d)'
  <2>1. PICK to : Goto(c, "wait", to) /\ to \in {"trampoline"}
    BY DEF LeaveBarrier
  <2>2. /\ "wait" \notin BspEarly \cup {"panic"} /\ to \notin BspEarly
        /\ UNCHANGED <<shared, setup>>
        /\ arch_info' = arch_info \/ arch = "x86_64"
    BY <1>1, <2>1 DEF LeaveBarrier, BspEarly, perCore
  <2> QED
    BY <2>1, <2>2, CoreFrame
<1>4. BspInv'
  BY <1>1, CoreAssumption
     DEF IInv, BspInv, CoresInv, ApInv, LeaveBarrier, shared, perCore, setup, BspEarly,
         Finished, TypeOK
<1>5. CoresInv'
  <2>1. CoreInv(c)'
    BY <1>1, <1>3
       DEF IInv, CoresInv, CoreInv, LeaveBarrier, shared, perCore, BspLate, Finished, IdOf,
           SlotOf, None,
           ArgsOf
  <2>2. c # Bsp => ApInv(c)'
    BY <1>1
       DEF IInv, CoresInv, CoreInv, ApInv, LeaveBarrier, shared, perCore, BspEarly, BspLate,
           InMachineInit,
           Finished, None, TypeOK
  <2> QED
    BY <1>1, <1>3, <2>1, <2>2, OtherCores DEF IInv, LeaveBarrier, shared, perCore, TypeOK
<1>6. BarrierInv'
  <2>1. ArrivedCores' = ArrivedCores
    BY <1>1 DEF ArrivedCores, Arrived
  <2>2. ArrivedCores = Core
    BY BarrierOpens
  <2> QED
    BY <2>1, <2>2 DEF IInv, BarrierInv, LeaveBarrier
<1> QED
  BY <1>2, <1>3, <1>4, <1>5, <1>6 DEF IInv

\* The trampoline changes nothing that others look at.
LEMMA TrampolineStep ==
  ASSUME IInv, NEW c \in Core, Trampoline(c)
  PROVE  IInv'
<1>1. /\ pc[c] = "trampoline" /\ pc'[c] = "kernel"
      /\ \A d \in Core : d # c => pc'[d] = pc[d]
  BY GotoEffect DEF IInv, Trampoline
<1>2. TypeOK'
  BY CoreAssumption
     DEF IInv, Trampoline, TypeOK, Goto, BspLate, InMachineInit, Finished, shared, perCore, setup
<1>3. LoopInv' /\ RowsInv' /\ \A d \in Core : Prepared(d) => Prepared(d)'
  <2>1. PICK to : Goto(c, "trampoline", to) /\ to \in {"kernel"}
    BY DEF Trampoline
  <2>2. /\ "trampoline" \notin BspEarly \cup {"panic"} /\ to \notin BspEarly
        /\ UNCHANGED <<shared, setup>>
        /\ arch_info' = arch_info \/ arch = "x86_64"
    BY <1>1, <2>1 DEF Trampoline, BspEarly, perCore
  <2> QED
    BY <2>1, <2>2, CoreFrame
<1>4. BspInv'
  BY <1>1, CoreAssumption
     DEF IInv, BspInv, CoresInv, ApInv, Trampoline, shared, perCore, setup, BspEarly, Finished,
         TypeOK
<1>5. CoresInv'
  <2>1. CoreInv(c)'
    BY <1>1, <1>3
       DEF IInv, CoresInv, CoreInv, Trampoline, shared, perCore, BspLate, Finished, IdOf,
           SlotOf, None,
           ArgsOf
  <2>2. c # Bsp => ApInv(c)'
    BY <1>1
       DEF IInv, CoresInv, CoreInv, ApInv, Trampoline, shared, perCore, BspEarly, BspLate,
           InMachineInit,
           Finished, None, TypeOK
  <2> QED
    BY <1>1, <1>3, <2>1, <2>2, OtherCores DEF IInv, Trampoline, shared, perCore, TypeOK
<1>6. BarrierInv'
  BY <1>1, BarrierFrame DEF IInv, Trampoline, Arrived
<1> QED
  BY <1>2, <1>3, <1>4, <1>5, <1>6 DEF IInv

\* Nor does the one of riscv64.
LEMMA TrampolineRiscvStep ==
  ASSUME IInv, NEW c \in Core, TrampolineRiscv(c)
  PROVE  IInv'
<1>1. /\ pc[c] = "trampoline" /\ pc'[c] = "kernel"
      /\ \A d \in Core : d # c => pc'[d] = pc[d]
  BY GotoEffect DEF IInv, TrampolineRiscv
<1>2. TypeOK'
  BY CoreAssumption
     DEF IInv, TrampolineRiscv, TypeOK, Goto, BspLate, InMachineInit, Finished, shared, perCore,
         setup
<1>3. LoopInv' /\ RowsInv' /\ \A d \in Core : Prepared(d) => Prepared(d)'
  <2>1. PICK to : Goto(c, "trampoline", to) /\ to \in {"kernel"}
    BY DEF TrampolineRiscv
  <2>2. /\ "trampoline" \notin BspEarly \cup {"panic"} /\ to \notin BspEarly
        /\ UNCHANGED <<shared, setup>>
        /\ arch_info' = arch_info \/ arch = "x86_64"
    BY <1>1, <2>1 DEF TrampolineRiscv, BspEarly, perCore
  <2> QED
    BY <2>1, <2>2, CoreFrame
<1>4. BspInv'
  BY <1>1, CoreAssumption
     DEF IInv, BspInv, CoresInv, ApInv, TrampolineRiscv, shared, perCore, setup, BspEarly,
         Finished, TypeOK
<1>5. CoresInv'
  <2>1. CoreInv(c)'
    BY <1>1, <1>3
       DEF IInv, CoresInv, CoreInv, TrampolineRiscv, shared, perCore, BspLate, Finished, IdOf,
           SlotOf, None,
           ArgsOf
  <2>2. c # Bsp => ApInv(c)'
    BY <1>1
       DEF IInv, CoresInv, CoreInv, ApInv, TrampolineRiscv, shared, perCore, BspEarly, BspLate,
           InMachineInit,
           Finished, None, TypeOK
  <2> QED
    BY <1>1, <1>3, <2>1, <2>2, OtherCores DEF IInv, TrampolineRiscv, shared, perCore, TypeOK
<1>6. BarrierInv'
  BY <1>1, BarrierFrame DEF IInv, TrampolineRiscv, Arrived
<1> QED
  BY <1>2, <1>3, <1>4, <1>5, <1>6 DEF IInv

----------------------------------------------------------------------------
(* The theorems.                                                           *)

\* The invariant holds when the pre-kernel starts.
LEMMA InvInit == Init => IInv
<1> SUFFICES ASSUME Init PROVE IInv
  OBVIOUS
<1>1. TypeOK
  <2>1. 0 \in Core /\ 1 \in 1..CoreCount /\ 0 \in 0..CoreCount
    BY CoreAssumption DEF Core
  <2> QED
    BY <2>1 DEF Init, TypeOK, Zeroed, NoArgs, BspEarly
<1>2. LoopInv
  BY CoreAssumption DEF Init, LoopInv, Filling, Core
<1>3. RowsInv
  <2>1. \A c \in Core : c \in Nat
    BY CoreAssumption DEF Core
  <2> QED
    BY <2>1, CoreAssumption DEF Init, RowsInv, RowInv, Prepared, StoresDone, None
<1>4. BspInv
  BY CoreAssumption DEF Init, BspInv, BspEarly, Finished
<1>5. CoresInv
  BY DEF Init, CoresInv, CoreInv, ApInv, None, BspEarly, BspLate, InMachineInit, Finished
<1>6. BarrierInv
  <2>1. ArrivedCores = {}
    BY DEF Init, ArrivedCores, Arrived
  <2> QED
    BY <2>1, FS_EmptySet DEF Init, BarrierInv
<1> QED
  BY <1>1, <1>2, <1>3, <1>4, <1>5, <1>6 DEF IInv

\* Every step of every core keeps it.
LEMMA InvNext == IInv /\ [Next]_vars => IInv'
<1> SUFFICES ASSUME IInv, [Next]_vars PROVE IInv'
  OBVIOUS
<1>1. CASE Prekernel
  BY <1>1, SetupBspStep, FillStartInfoStep, StartApArgumentStep, StartApGotoStep, EarlyGotoStep,
     LateArgumentStep, SkipBspStep, PrepareHandoffStep, PublishMemoryMapStep, SetEntryPointStep,
     SetCoreCountStep, ReleaseApsStep, BspPanicStep DEF Prekernel
<1>2. CASE \E c \in Core : AnyCore(c)
  BY <1>2, LeaveParkStep, SeeReleaseStep, SetupControlRegistersStep, SetupStatusStep,
     SetupGdtStep, SetupGsBaseStep, CallHandoffStep, ArriveStep, LeaveBarrierStep,
     TrampolineStep, TrampolineRiscvStep DEF AnyCore
<1>3. CASE UNCHANGED vars
  <2>1. UNCHANGED <<shared, setup, perCore, pc, arch_info, g_running_cores>>
    BY <1>3 DEF vars
  <2>2. TypeOK'
    BY <2>1 DEF IInv, TypeOK, shared, setup, perCore
  <2>3. LoopInv' /\ RowsInv' /\ BspInv'
    BY <2>1 DEF IInv, LoopInv, RowsInv, RowInv, BspInv, Prepared, StoresDone, shared, setup,
       perCore, IdOf, SlotOf, RowOf, None
  <2>4. CoresInv' /\ BarrierInv'
    BY <2>1
       DEF IInv, CoresInv, CoreInv, ApInv, BarrierInv, ArrivedCores, Prepared, shared, setup,
       perCore, IdOf, SlotOf, ArgsOf, None
  <2> QED
    BY <2>2, <2>3, <2>4 DEF IInv
<1> QED
  BY <1>1, <1>2, <1>3 DEF Next

\* The inductive invariant, and with it the types, hold in every reachable state,
\* for every number of cores, whichever of them is the boot processor.
THEOREM Invariance == Spec => []IInv
  BY InvInit, InvNext, PTL DEF Spec

\* No two started cores are given the same core id, stack, cpu-local area or slot
\* of arch_start_info_block, wherever the boot processor is in the list
\* (arch_setup_cpus, arch.c:72-93).
THEOREM CoresOwnTheirResources == Spec => []OwnResources
<1>1. IInv => OwnResources
  <2> SUFFICES ASSUME IInv, NEW c \in Started \cup {Bsp}, NEW d \in Started \cup {Bsp},
                      stacks > 0, c # d
               PROVE  LET p == start_info[IF c = Bsp THEN 0 ELSE argument[c]]
                          q == start_info[IF d = Bsp THEN 0 ELSE argument[d]]
                      IN  /\ p.core_id # q.core_id
                          /\ p.stack # q.stack
                          /\ p.cpu_local # q.cpu_local
                          /\ p.arch_pointer # q.arch_pointer
    BY DEF OwnResources
  <2>1. ASSUME NEW e \in Started \cup {Bsp}
        PROVE  /\ e \in Core /\ start_info[IF e = Bsp THEN 0 ELSE argument[e]] = RowOf(e)
               /\ IdOf(e) \in Nat
    <3>1. e \in Core
      BY CoreAssumption DEF Started
    <3>2. IdOf(e) \in Nat
      BY <3>1, IdFacts, CoreAssumption DEF Core
    <3>3. CASE e = Bsp
      BY <3>1, <3>2, <3>3 DEF IInv, RowsInv, RowInv, Prepared, IdOf
    <3>4. CASE e # Bsp
      <4>1. argument[e] = IdOf(e) /\ StoresDone(e, "goto_address")
        BY <3>1, <3>4 DEF Started, IInv, RowsInv, RowInv
      <4>2. Prepared(e)
        BY <4>1 DEF StoresDone, Prepared, Filling
      <4> QED
        BY <3>1, <3>2, <3>4, <4>1, <4>2 DEF IInv, RowsInv, RowInv
    <3> QED
      BY <3>3, <3>4
  <2>2. IdOf(c) # IdOf(d) /\ SlotOf(c) # SlotOf(d)
    BY <2>1, IdFacts
  <2>3. IdOf(c) \in Nat /\ IdOf(d) \in Nat
    BY <2>1
  <2>4. IdOf(c) + 1 # IdOf(d) + 1
    BY <2>2, <2>3
  <2>5. /\ start_info[IF c = Bsp THEN 0 ELSE argument[c]] = RowOf(c)
        /\ start_info[IF d = Bsp THEN 0 ELSE argument[d]] = RowOf(d)
    BY <2>1
  <2>6. /\ RowOf(c).core_id # RowOf(d).core_id /\ RowOf(c).stack # RowOf(d).stack
        /\ RowOf(c).cpu_local # RowOf(d).cpu_local
        /\ RowOf(c).arch_pointer # RowOf(d).arch_pointer
    BY <2>2, <2>4 DEF RowOf
  <2> QED
    BY <2>5, <2>6, Zenon
<1> QED
  BY <1>1, Invariance, PTL

\* When a core enters the kernel, none has stopped, all have finished their machine
\* initialisation with what is their own, and the entry point, the memory map and
\* the trampoline are there (sync_and_handoff, init.c:23-29).
THEOREM KernelIsReady == Spec => []KernelReady
<1>1. IInv => KernelReady
  <2> SUFFICES ASSUME IInv, InKernel # {}
               PROVE  /\ Stopped = {} /\ mm_published # "unset" /\ trampoline
                      /\ \A c \in Core :
                            /\ arch_info[start_info[info[c]].arch_pointer] = c
                            /\ args[c].entry /\ (args[c].boot_info <=> args[c].core_id = 0)
                            /\ gs_base[c] = args[c].core_id
                      /\ {args[c].core_id : c \in Core} = Core
    BY DEF KernelReady
  <2>1. \A c \in Core : pc[c] \in Arrived
    BY DEF InKernel, IInv, BarrierInv, ArrivedCores
  <2>2. Stopped = {}
    BY <2>1 DEF Stopped, Arrived
  <2>3. mm_published = "USABLE" /\ trampoline
    BY <2>1, CoreAssumption DEF IInv, BspInv, Arrived, BspEarly
  <2>4. ASSUME NEW c \in Core
        PROVE  /\ info[c] # None /\ arch_info[SlotOf(c)] = c
               /\ gs_base[c] = IdOf(c) /\ args[c] = ArgsOf(c)
    BY <2>1 DEF IInv, CoresInv, CoreInv, Arrived, Finished
  <2>5. ASSUME NEW c \in Core
        PROVE  arch_info[start_info[info[c]].arch_pointer] = c
    BY <2>4, OwnRow
  <2>6. ASSUME NEW c \in Core
        PROVE  /\ args[c].entry /\ (args[c].boot_info <=> args[c].core_id = 0)
               /\ args[c].core_id = IdOf(c)
    <3>1. args[c].entry = TRUE /\ args[c].boot_info = (c = Bsp) /\ args[c].core_id = IdOf(c)
      <4>1. args[c] = ArgsOf(c)
        BY <2>4
      <4>2. ArgsOf(c).entry = TRUE
        BY DEF ArgsOf
      <4>3. ArgsOf(c).boot_info = (c = Bsp)
        BY DEF ArgsOf
      <4>4. ArgsOf(c).core_id = IdOf(c)
        BY DEF ArgsOf
      <4> QED
        BY <4>1, <4>2, <4>3, <4>4, Zenon
    <3>2. IdOf(c) = 0 <=> c = Bsp
      BY IdFacts
    <3> QED
      BY <3>1, <3>2
  <2>7. {args[c].core_id : c \in Core} = Core
    BY <2>6, IdFacts, IdOnto
  <2> QED
    BY <2>2, <2>3, <2>4, <2>5, <2>6, <2>7
<1> QED
  BY <1>1, Invariance, PTL

\* A row that a started core may be reading is not written again (arch.c:83-92).
THEOREM StartedRowsFrozen == Spec => StartInfoFrozen
<1>1. IInv /\ [Next]_vars =>
        [\A c \in Started :
            argument'[c] = argument[c] /\ start_info'[argument[c]] = start_info[argument[c]]]_vars
  <2> SUFFICES ASSUME IInv, Next, NEW c \in Started
               PROVE  /\ argument'[c] = argument[c]
                      /\ start_info'[argument[c]] = start_info[argument[c]]
    OBVIOUS
  <2>1. /\ c \in Core /\ c # Bsp /\ argument[c] = IdOf(c) /\ IdOf(c) \in Core /\ IdOf(c) # 0
        /\ StoresDone(c, "goto_address") /\ StoresDone(c, "late_argument")
    BY IdFacts DEF Started, IInv, RowsInv, RowInv, StoresDone
  <2>2. c < i
    BY <2>1 DEF StoresDone
  <2>3. c \in Nat /\ i \in Nat
    BY <2>1, LocalTypes
  <2>4. CASE SetupBsp
    BY <2>1, <2>4 DEF SetupBsp, IInv, TypeOK
  <2>5. CASE FillStartInfo
    <3>1. i \in Core /\ i # Bsp /\ core_id = IdOf(i)
      <4>1. pc[Bsp] = "loop" /\ i < CoreCount /\ i # Bsp
        BY <2>5 DEF FillStartInfo, Goto, IsAp
      <4>2. core_id = IF i <= Bsp THEN i + 1 ELSE i
        BY <4>1 DEF IInv, LoopInv, Filling
      <4> QED
        BY <4>1, <4>2, LocalTypes DEF IdOf
    <3>2. IdOf(c) # IdOf(i)
      BY <2>1, <2>2, <2>3, <3>1, IdFacts
    <3> QED
      BY <2>1, <2>5, <3>1, <3>2 DEF FillStartInfo, Filled, IInv, TypeOK
  <2>6. CASE StartApArgument \/ LateArgument
    BY <2>1, <2>2, <2>3, <2>6 DEF StartApArgument, LateArgument, IInv, TypeOK
  <2>7. CASE ~(SetupBsp \/ FillStartInfo \/ StartApArgument \/ LateArgument)
    <3>1. UNCHANGED <<argument, start_info>>
      BY <2>7 DEF Next, Prekernel, AnyCore, StartApGoto, EarlyGoto, SkipBsp, PrepareHandoff,
         PublishMemoryMap, SetEntryPoint, SetCoreCount, ReleaseAps, BspPanic, LeavePark,
         SeeRelease, SetupControlRegisters, SetupStatus, SetupGdt, SetupGsBase, CallHandoff,
         Arrive, LeaveBarrier, Trampoline, TrampolineRiscv, shared
    <3> QED
      BY <3>1
  <2> QED
    BY <2>4, <2>5, <2>6, <2>7
<1> QED
  BY <1>1, Invariance, PTL DEF Spec, StartInfoFrozen

\* The steps by which a core arrives or leaves are those of the rendezvous, and all
\* other steps change nothing that it can see.
LEMMA RendezvousStep == IInv /\ [Next]_vars => [Barrier!Next]_Where
<1> SUFFICES ASSUME IInv, [Next]_vars PROVE Barrier!Next \/ Where' = Where
  OBVIOUS
<1>1. ASSUME NEW c \in Core, Arrive(c)
      PROVE  Barrier!Arrive(c)
  <2>1. /\ pc[c] = "arrive" /\ pc'[c] = "wait"
        /\ \A d \in Core : d # c => pc'[d] = pc[d]
    BY <1>1, GotoEffect DEF IInv, Arrive
  <2>2. Where[c] = "boot"
    BY <2>1 DEF Where
  <2>3. Where' = [Where EXCEPT ![c] = "arrived"]
    BY <2>1 DEF Where
  <2> QED
    BY <2>2, <2>3 DEF Barrier!Arrive
<1>2. ASSUME NEW c \in Core, LeaveBarrier(c)
      PROVE  Barrier!Enter(c)
  <2>1. /\ pc[c] = "wait" /\ pc'[c] = "trampoline"
        /\ \A d \in Core : d # c => pc'[d] = pc[d]
    BY <1>2, GotoEffect DEF IInv, LeaveBarrier
  <2>2. ArrivedCores = Core
    BY <1>2, BarrierOpens
  <2>3. Where[c] = "arrived" /\ \A d \in Core : Where[d] # "boot"
    BY <2>1, <2>2 DEF Where, ArrivedCores, Arrived
  <2>4. Where' = [Where EXCEPT ![c] = "kernel"]
    BY <2>1 DEF Where
  <2> QED
    BY <2>3, <2>4 DEF Barrier!Enter
<1>3. ASSUME NEW c \in Core, Trampoline(c) \/ TrampolineRiscv(c)
      PROVE  Where' = Where
  <2>1. /\ pc[c] = "trampoline" /\ pc'[c] = "kernel"
        /\ \A d \in Core : d # c => pc'[d] = pc[d]
    BY <1>3, GotoEffect DEF IInv, Trampoline, TrampolineRiscv
  <2> QED
    BY <2>1 DEF Where
<1>4. ASSUME NEW c \in Core, NEW from, NEW to, Goto(c, from, to),
             from \notin Arrived, to \notin Arrived
      PROVE  Where' = Where
  <2>1. /\ pc[c] = from /\ pc'[c] = to
        /\ \A d \in Core : d # c => pc'[d] = pc[d]
    BY <1>4, GotoEffect DEF IInv
  <2> QED
    BY <1>4, <2>1 DEF Where, Arrived
<1>5. CASE Prekernel
  <2>1. CASE SkipBsp
    BY <2>1 DEF SkipBsp, Where
  <2>2. CASE BspPanic
    <3>1. PICK from : Goto(Bsp, from, "panic") /\ from \notin Arrived
      BY <2>2 DEF BspPanic, Goto, Arrived
    <3> QED
      BY <1>4, <3>1, CoreAssumption DEF Arrived
  <2>3. CASE Prekernel /\ ~SkipBsp /\ ~BspPanic
    <3>1. PICK from, to : Goto(Bsp, from, to) /\ from \notin Arrived /\ to \notin Arrived
      BY <2>3 DEF Prekernel, SetupBsp, FillStartInfo, StartApArgument, StartApGoto, EarlyGoto,
         LateArgument, PrepareHandoff, PublishMemoryMap, SetEntryPoint, SetCoreCount, ReleaseAps,
         Arrived
    <3> QED
      BY <1>4, <3>1, CoreAssumption
  <2> QED
    BY <1>5, <2>1, <2>2, <2>3
<1>6. ASSUME NEW c \in Core, AnyCore(c)
      PROVE  Barrier!Next \/ Where' = Where
  <2>1. CASE Arrive(c) \/ LeaveBarrier(c)
    BY <1>1, <1>2, <2>1 DEF Barrier!Next
  <2>2. CASE Trampoline(c) \/ TrampolineRiscv(c)
    BY <1>3, <2>2
  <2>3. CASE LeavePark(c) \/ SeeRelease(c) \/ SetupControlRegisters(c) \/ SetupStatus(c)
             \/ SetupGdt(c) \/ SetupGsBase(c) \/ CallHandoff(c)
    <3>1. PICK from, to : Goto(c, from, to) /\ from \notin Arrived /\ to \notin Arrived
      BY <2>3 DEF LeavePark, SeeRelease, SetupControlRegisters, SetupStatus, SetupGdt,
         SetupGsBase, CallHandoff, Arrived
    <3> QED
      BY <1>4, <3>1
  <2> QED
    BY <1>6, <2>1, <2>2, <2>3 DEF AnyCore
<1>7. CASE UNCHANGED vars
  BY <1>7 DEF vars, Where
<1> QED
  BY <1>5, <1>6, <1>7 DEF Next

\* The lock and the counter of init.c implement the rendezvous: no core goes on to
\* the kernel before all of them have arrived.
THEOREM RendezvousImplemented == Spec => ImplementsRendezvous
<1>1. Init => Barrier!Init
  <2> SUFFICES ASSUME Init PROVE Where = [c \in Core |-> "boot"]
    BY DEF Barrier!Init
  <2> QED
    BY DEF Init, Where
<1> QED
  BY <1>1, RendezvousStep, Invariance, PTL DEF Spec, ImplementsRendezvous, Barrier!Spec
============================================================================
