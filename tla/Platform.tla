------------------------------ MODULE Platform ------------------------------
(***************************************************************************)
(* What a RISC-V boot processor learns from firmware: the depth of the     *)
(* page tables (ptm_init) and the instruction set (arch_parse_extentions), *)
(* from ACPI's RHCT or from the device tree, and the strings it makes of   *)
(* the instruction set for the kernel (parse_isa_string), in a buffer from *)
(* the memory manager.  Tables are sequences of the facts the code looks   *)
(* for.  Offsets in a string and in the buffer count from 0.               *)
(***************************************************************************)
EXTENDS Integers, Sequences, SequencesExt

CONSTANTS
    Machines,               \* what firmware may provide: a set of records
    Letters,                \* the characters of a string, apart from the underscore
    POINTER,                \* sizeof(char*), alignof(char*)
    PTM_PAGE_GRANULARITY,
    MaxOffset               \* bound: offsets in the buffer that are looked at, enough for
                            \* every string

\* What stands between the extensions.
Underscore == "_"

ASSUME PlatformAssumption ==
    /\ POINTER \in Nat \ {0} /\ PTM_PAGE_GRANULARITY \in Nat \ {0} /\ MaxOffset \in Nat
    /\ "NUL" \notin Letters /\ Underscore \notin Letters
    /\ \A m \in Machines :
          /\ {m.rsdp, m.rhct, m.dtb} \subseteq BOOLEAN
          /\ m.string \in Seq(Letters \cup {Underscore})
          /\ Len(m.string) + (Len(m.string) + 2) * POINTER <= MaxOffset

VARIABLES
    fw,                     \* the tables of this machine
    rdsp_physical,          \* "zero", "rsdp", or "stale": whatever the page held
    pc,
    level_count,            \* g_ptm.level_count
    \* of parse_isa_string
    isa_string_len, extention_count,
    buffer,                 \* offset -> what was stored there
    cursor, p, ext_index,
    pointers                \* index -> the offset stored in extensions[index]

parser == <<isa_string_len, extention_count, buffer, cursor, p, ext_index, pointers>>
vars == <<fw, rdsp_physical, pc, level_count, parser>>

Init ==
    /\ fw \in Machines
    /\ rdsp_physical = "stale"
    /\ pc = "entry"
    /\ level_count = 0
    /\ isa_string_len = 0 /\ extention_count = 0
    /\ buffer = [o \in 0..MaxOffset |-> "free"]
    /\ cursor = 0 /\ p = 0 /\ ext_index = 0 /\ pointers = <<>>

----------------------------------------------------------------------------
(* Up to ptm_init.                                                         *)

\* The boot information: a field without a value from the boot loader is not
\* written, so that it may be zero by chance only.
Entry ==
    /\ pc = "entry"
    /\ rdsp_physical' \in IF fw.rsdp THEN {"rsdp"} ELSE {"zero", "stale"}
    /\ pc' = "acpi"
    /\ UNCHANGED <<fw, level_count, parser>>

Rdsp == rdsp_physical # "zero"

\* uACPI is started if there is an address, and rejects one that is none.
SetupAcpi ==
    /\ pc = "acpi"
    /\ pc' = IF rdsp_physical = "stale" THEN "panic" ELSE "levels"
    /\ UNCHANGED <<fw, rdsp_physical, level_count, parser>>

Levels(mmu) ==
    CASE mmu = "sv57" -> 5 [] mmu = "sv48" -> 4 [] mmu = "sv39" -> 3 [] OTHER -> 0

\* The first node of the RHCT of a type; 0 if there is none.
RhctNode(type) == SelectInSeq(fw.nodes, LAMBDA n : n.type = type)

arch_acpi_detect_mmu_levels ==
    LET k == RhctNode("mmu")
    IN  IF Rdsp /\ fw.rhct /\ k # 0 THEN Levels(fw.nodes[k].mmu) ELSE 0

\* The device tree is there, has a header and has /cpus.
TreeReadable == fw.dtb /\ fw.dtb_valid /\ fw.has_cpus
\* The first subnode of /cpus for a cpu: the loop does not look further.
FirstCpu == SelectInSeq(fw.cpus, LAMBDA n : n.cpu)
TreeMmu == IF TreeReadable /\ FirstCpu # 0 THEN fw.cpus[FirstCpu].mmu ELSE "none"

\* Mutant: nobody asks the device tree.
OnlyAcpi == 0
arch_fdt_detect_mmu_levels == Levels(TreeMmu)

\* ptm_init; a tree with a type that is not known, and no type at all, panic.
DetectLevels ==
    /\ pc = "levels"
    /\ level_count' = IF arch_acpi_detect_mmu_levels # 0 THEN arch_acpi_detect_mmu_levels
                      ELSE arch_fdt_detect_mmu_levels
    /\ pc' = IF level_count' = 0 THEN "panic" ELSE "extensions"
    /\ UNCHANGED <<fw, rdsp_physical, parser>>

----------------------------------------------------------------------------
(* arch_parse_extentions, after the kernel has been loaded.                *)

\* A RHCT without the string: a null pointer is followed.
ParseAcpi ==
    /\ pc = "extensions" /\ Rdsp /\ fw.rhct
    /\ pc' = IF RhctNode("isa") # 0 THEN "parse" ELSE "fault"
    /\ UNCHANGED <<fw, rdsp_physical, level_count, parser>>

\* Here any cpu will do.
TreeIsa == TreeReadable /\ \E k \in 1..Len(fw.cpus) : fw.cpus[k].cpu /\ fw.cpus[k].isa

ParseFdt ==
    /\ pc = "extensions" /\ ~(Rdsp /\ fw.rhct)
    /\ pc' = IF TreeIsa THEN "parse" ELSE "panic"
    /\ UNCHANGED <<fw, rdsp_physical, level_count, parser>>

----------------------------------------------------------------------------
(* parse_isa_string.                                                       *)

isa_string == fw.string
isa_len == Len(isa_string)
At(o) == IF o = isa_len THEN "NUL" ELSE isa_string[o + 1]

MATH_ALIGN_UP(x, a) == ((x + a - 1) \div a) * a

Underscores == {o \in 0..(isa_len - 1) : At(o) = Underscore}
\* A length of 0 counts as none.
BaseLength == IF Underscores \ {0} = {} THEN 0 ELSE Min(Underscores \ {0})

\* Mutant: the pointers are not counted.
StringSize == MATH_ALIGN_UP(isa_len + 1, PTM_PAGE_GRANULARITY)
info_size ==
    MATH_ALIGN_UP(isa_len + 1 + (extention_count + 1) * POINTER, PTM_PAGE_GRANULARITY)

\* Where extensions begins, and the first string after it.
extensions == MATH_ALIGN_UP(isa_string_len + 1, POINTER)

\* Mutant: no slot for the last pointer.
StringsTooSoon(len, count) == MATH_ALIGN_UP(len + 1, POINTER) + count * POINTER
FirstString(len, count) == MATH_ALIGN_UP(len + 1, POINTER) + (count + 1) * POINTER

\* A copy of n characters of the string from offset from, terminated, at offset to.
Stored(b, to, from, n) ==
    [o \in 0..MaxOffset |-> IF o = to + n THEN "NUL"
                            ELSE IF o \in to..(to + n - 1) THEN At(from + o - to) ELSE b[o]]

\* Up to the loop.  An empty string has no character after its first one: what
\* is read there is not part of it.
StartParse ==
    /\ pc = "parse"
    /\ extention_count' = Cardinality(Underscores)
    /\ isa_string_len' = BaseLength
    /\ cursor' = FirstString(isa_string_len', extention_count')
    /\ buffer' = Stored(buffer, 0, 0, isa_string_len')
    /\ p' = isa_string_len' + 1
    /\ pc' \in IF isa_len = 0 THEN {"wild", "done"} ELSE {"loop"}
    /\ UNCHANGED <<fw, rdsp_physical, level_count, ext_index, pointers>>

\* The offset of the next underscore, or of the end.
NextEnd == Min({o \in p..isa_len : At(o) \in {Underscore, "NUL"}})

\* One iteration: pointer, characters, and on to the next.
CopyExtension ==
    LET end == NextEnd
        slot == extensions + ext_index * POINTER
    IN  /\ pc = "loop" /\ At(p) # "NUL"
        /\ pointers' = Append(pointers, cursor)
        /\ buffer' = Stored([o \in 0..MaxOffset |->
                                IF o \in slot..(slot + POINTER - 1) THEN "pointer" ELSE buffer[o]],
                            cursor, p, end - p)
        /\ cursor' = cursor + (end - p) + 1
        /\ ext_index' = ext_index + 1
        /\ p' = IF At(end) = "NUL" THEN p ELSE end + 1
        /\ pc' = IF At(end) = "NUL" THEN "done" ELSE "loop"
        /\ UNCHANGED <<fw, rdsp_physical, level_count, isa_string_len, extention_count>>

EndParse ==
    /\ pc = "loop" /\ At(p) = "NUL"
    /\ pc' = "done"
    /\ UNCHANGED <<fw, rdsp_physical, level_count, parser>>

Next ==
    \/ Entry \/ SetupAcpi \/ DetectLevels \/ ParseAcpi \/ ParseFdt
    \/ StartParse \/ CopyExtension \/ EndParse

\* Nothing else uses the processor.
Spec == Init /\ [][Next]_vars /\ WF_vars(Next)

----------------------------------------------------------------------------
(* Properties.                                                             *)

\* What the kernel finds at an offset of the buffer, up to the end of the string.
StringAt(o) ==
    LET end == Min({e \in o..MaxOffset : buffer[e] = "NUL"} \cup {MaxOffset})
    IN  [k \in 1..(end - o) |-> buffer[o + k - 1]]

\* What the kernel reads, put together again.
ReadBack ==
    StringAt(0) \o FlattenSeq([k \in 1..ext_index |-> <<Underscore>> \o StringAt(pointers[k])])

WithoutLast(s) ==
    IF s # <<>> /\ s[Len(s)] = Underscore THEN SubSeq(s, 1, Len(s) - 1) ELSE s

\* The kernel reads the firmware's string, less an underscore at its end, through
\* pointers that no string has overwritten; of a string without an underscore the
\* first letter is lost and the rest is taken for an extension (isa.c:12-61).
IsaKept ==
    pc = "done" /\ isa_len > 0 =>
        /\ ReadBack = WithoutLast(IF Underscores # {} THEN isa_string
                                  ELSE <<Underscore>> \o Tail(isa_string))
        /\ \A o \in extensions..(extensions + ext_index * POINTER - 1) : buffer[o] = "pointer"

\* The strings end in the pages allocated for them or, because the size does not
\* count the alignment of the pointers, less than a pointer after (isa.c:17-30).
OverrunBounded ==
    pc \in {"loop", "done"} => cursor < info_size + POINTER

\* A machine with a complete device tree gets both answers, with or without ACPI
\* tables that lack them, and the depth is one that some table declares.  What can
\* stop it is a RHCT without the string, or a stale pointer taken for the RSDP
\* (ptm.c:33-40, arch.c:59-68, acpi.c:84, limine.c:123).
CompleteTreeBoots ==
    pc = "acpi" /\ TreeIsa /\ Levels(TreeMmu) # 0 /\ isa_len > 0
    /\ rdsp_physical # "stale" /\ (fw.rsdp /\ fw.rhct => RhctNode("isa") # 0)
        ~> /\ pc = "done"
           /\ level_count \in {Levels(TreeMmu)} \cup
                {Levels(fw.nodes[k].mmu) : k \in {j \in 1..Len(fw.nodes) : fw.rhct /\ fw.rsdp}}
=============================================================================
