---------------------------- MODULE KernelLoader ----------------------------
(***************************************************************************)
(* Loading the kernel image (loader/elfldr.c), called by prekernel_init.   *)
(* Every PT_LOAD segment gets pages of its own and is mapped where it      *)
(* wants to be, also when it shares a page with another; then the section  *)
(* in which the kernel says what it needs is looked up in what was loaded. *)
(***************************************************************************)
EXTENDS Integers, Sequences, SequencesExt

CONSTANTS
    PTM_PAGE_GRANULARITY,   \* size of a page, in bytes
    SEGMENT_SIZE,           \* sizeof(bootinfo_segment_t)
    Images,                 \* the kernels that may have been linked in
    PhysicalPages,          \* bound: pages of physical memory
    TopAddress              \* bound: the kernel is below it; UINTPTR_MAX

Flags == {"READ", "WRITE", "EXEC"}
ProgramHeader == [load : BOOLEAN, vaddr : Nat, memsz : Nat, filesz : Nat,
                  offset : Nat, flags : SUBSET Flags]
Section == [named : BOOLEAN, addr : Nat]

\* A linker's output: no segment has more in the file than in memory.
ASSUME ImagesAssumption ==
    \A m \in Images :
        /\ m.phdrs \in Seq(ProgramHeader) /\ m.sections \in Seq(Section)
        /\ \A h \in Range(m.phdrs) : h.filesz <= h.memsz /\ h.vaddr + h.memsz <= TopAddress
ASSUME SizesAssumption ==
    /\ PTM_PAGE_GRANULARITY \in Nat \ {0} /\ SEGMENT_SIZE \in Nat
    /\ PhysicalPages \in Nat /\ TopAddress \in Nat

VARIABLES
    image,                  \* what lies at _binary_kernel_elf_start
    stage,                  \* "start", "load", "loaded", or how it failed
    i,                      \* the program header that is next
    segments, kernel_base, kernel_info,     \* elfldr_loader_info_t
    space,                  \* what was asked of ptm_map for each virtual page
    memory,                 \* contents of physical memory
    taken                   \* physical pages that are allocated

info == <<segments, kernel_base, kernel_info>>
vars == <<image, stage, i, info, space, memory, taken>>

\* A byte of memory is the byte of the file at an offset, or one of these.
Unknown == -2
Zero == -1
Null == -1
Unmapped == [paddr |-> -1, flags |-> {}]

Page == {v \in 0..(TopAddress - 1) : v % PTM_PAGE_GRANULARITY = 0}

Init ==
    /\ image \in Images
    /\ stage = "start" /\ i = 1
    /\ segments = <<>> /\ kernel_base = 0 /\ kernel_info = Null
    /\ space = [v \in Page |-> Unmapped]
    /\ memory = [a \in 0..(PhysicalPages * PTM_PAGE_GRANULARITY - 1) |-> Unknown]
    /\ taken \in {0..(n - 1) : n \in 0..PhysicalPages}     \* by the boot protocol

elf_supported(h) ==
    /\ h.magic = "ELF" /\ h.class = 64 /\ h.data = "2LSB"
    /\ h.machine = "expected" /\ h.type \in {"EXEC", "DYN"}

MATH_FLOOR(x) == x - (x % PTM_PAGE_GRANULARITY)
MATH_ALIGN_UP(x) == MATH_FLOOR(x + PTM_PAGE_GRANULARITY - 1)

\* The memory manager gives any pages that are not in use; an allocation of no
\* pages gets the address of one that is not, and leaves it to others.
Run(p, n) == p..(p + n - 1)
CanTake(p, n) ==
    /\ p < PhysicalPages /\ p + n <= PhysicalPages
    /\ (Run(p, n) \cup {p}) \cap taken = {}

----------------------------------------------------------------------------

Unsupported ==
    /\ stage = "start" /\ ~elf_supported(image.header)
    /\ stage' = "unsupported elf file"
    /\ UNCHANGED <<image, i, info, space, memory, taken>>

load_count == Len(SelectSeq(image.phdrs, LAMBDA h : h.load))
SegmentsPages == MATH_ALIGN_UP(load_count * SEGMENT_SIZE) \div PTM_PAGE_GRANULARITY

StartLoading ==
    /\ stage = "start" /\ elf_supported(image.header)
    /\ \E p \in 0..PhysicalPages :
          CanTake(p, SegmentsPages) /\ taken' = taken \cup Run(p, SegmentsPages)
    /\ stage' = "load"
    /\ kernel_base' = TopAddress
    /\ UNCHANGED <<image, i, segments, kernel_info, space, memory>>

phdr == image.phdrs[i]
start_vaddr == MATH_FLOOR(phdr.vaddr)
end_vaddr == MATH_ALIGN_UP(phdr.vaddr + phdr.memsz)
SegmentPages == (end_vaddr - start_vaddr) \div PTM_PAGE_GRANULARITY

Loading == stage = "load" /\ i <= Len(image.phdrs)

\* Mutant: copied to the start of the page.
CopiedToPage(paddr) == paddr
\* Where the first byte of the segment is in its pages.
LoadAddress(paddr) == paddr + (phdr.vaddr - start_vaddr)

LowestBase == IF kernel_base > phdr.vaddr THEN phdr.vaddr ELSE kernel_base

\* The page tables are changed page by page, which nobody sees.
internal_elf_handle_pt_load ==
    /\ Loading /\ phdr.load
    /\ \E p \in 0..PhysicalPages :
         LET paddr == p * PTM_PAGE_GRANULARITY
             dest == LoadAddress(paddr)
         IN  /\ CanTake(p, SegmentPages)
             /\ taken' = taken \cup Run(p, SegmentPages)
             /\ space' = [v \in Page |->
                  IF start_vaddr <= v /\ v < end_vaddr
                    THEN [paddr |-> paddr + (v - start_vaddr), flags |-> phdr.flags]
                    ELSE space[v]]
             /\ memory' = [a \in DOMAIN memory |->
                  IF dest <= a /\ a < dest + phdr.filesz THEN phdr.offset + (a - dest)
                  ELSE IF paddr <= a /\ a < paddr + (end_vaddr - start_vaddr) THEN Zero
                  ELSE memory[a]]
             /\ segments' = Append(segments,
                  [paddr |-> paddr + (phdr.vaddr - start_vaddr), vaddr |-> phdr.vaddr,
                   size |-> phdr.memsz, flags |-> phdr.flags])
    /\ kernel_base' = LowestBase
    /\ i' = i + 1
    /\ UNCHANGED <<image, stage, kernel_info>>

OutOfMemory ==
    /\ \/ /\ stage = "start" /\ elf_supported(image.header)
          /\ \A p \in 0..PhysicalPages : ~CanTake(p, SegmentsPages)
       \/ /\ Loading /\ phdr.load
          /\ \A p \in 0..PhysicalPages : ~CanTake(p, SegmentPages)
    /\ stage' = "out of memory"
    /\ UNCHANGED <<image, i, info, space, memory, taken>>

SkipHeader ==
    /\ Loading /\ ~phdr.load
    /\ i' = i + 1
    /\ UNCHANGED <<image, stage, info, space, memory, taken>>

----------------------------------------------------------------------------
(* prekernel_boot_info.                                                    *)

AllLoaded == stage = "load" /\ i > Len(image.phdrs)

NoSections ==
    /\ AllLoaded /\ ~image.sectionTable
    /\ stage' = "cannot locate prekernel_boot_info"
    /\ UNCHANGED <<image, i, info, space, memory, taken>>

\* Mutant: one byte too far.
InSegmentClosed(a, s) == s.vaddr <= a /\ a <= s.vaddr + s.size
InSegment(a, s) == s.vaddr <= a /\ a < s.vaddr + s.size

\* The first section of that name in the first segment that it starts in.
FindKernelInfo ==
    /\ AllLoaded /\ image.sectionTable
    /\ LET k == SelectInSeq(image.sections, LAMBDA s : s.named)
           j == IF k = 0 THEN 0
                ELSE SelectInSeq(segments, LAMBDA s : InSegment(image.sections[k].addr, s))
       IN  IF j = 0
             THEN /\ kernel_info' = Null
                  /\ stage' = "failed to locate prekernel_boot_info"
             ELSE /\ kernel_info' = segments[j].paddr
                                      + (image.sections[k].addr - segments[j].vaddr)
                  /\ stage' = "loaded"
    /\ UNCHANGED <<image, i, segments, kernel_base, space, memory, taken>>

\* elfldr_load_kernel; prekernel_init panics when it fails.
Next ==
    \/ Unsupported \/ StartLoading
    \/ internal_elf_handle_pt_load \/ SkipHeader \/ OutOfMemory
    \/ NoSections \/ FindKernelInfo

Spec == Init /\ [][Next]_vars

----------------------------------------------------------------------------
(* Properties.                                                             *)

Loads == {n \in 1..Len(image.phdrs) : image.phdrs[n].load}
Touches(n, v) ==
    /\ MATH_FLOOR(image.phdrs[n].vaddr) <= v
    /\ v < MATH_ALIGN_UP(image.phdrs[n].vaddr + image.phdrs[n].memsz)

\* What the image has at an address of one of its segments.
Contents(n, a) ==
    LET h == image.phdrs[n]
    IN  IF a - h.vaddr < h.filesz THEN h.offset + (a - h.vaddr) ELSE Zero

\* Every byte of the kernel's segments is in physical memory that no other segment
\* uses, for which ptm_map was asked where the segment was linked to be and with its
\* rights; only a page that a later segment also touches is the later one's, so
\* that what is lost stays inside the pages they share (elfldr.c:102-116).
ImageLoaded ==
    stage = "loaded" =>
        \A n \in Loads : \A a \in image.phdrs[n].vaddr
                                    ..(image.phdrs[n].vaddr + image.phdrs[n].memsz - 1) :
            LET v == MATH_FLOOR(a)
            IN  (\A m \in Loads : m > n => ~Touches(m, v)) =>
                    /\ space[v].flags = image.phdrs[n].flags
                    /\ memory[space[v].paddr + (a - v)] = Contents(n, a)

\* What the pre-kernel reads through kernel_info, by its physical address, is what
\* the image has at the address of the section; and it gives up only when the
\* image has no such section in a segment (elfldr.c:158-178).
KernelInfoFound ==
    LET named == {n \in 1..Len(image.sections) : image.sections[n].named}
        HoldsFirst(n, a) == /\ image.phdrs[n].vaddr <= a
                            /\ a < image.phdrs[n].vaddr + image.phdrs[n].memsz
        First(n) == n \in named /\ \A m \in named : n <= m
    IN  /\ stage = "loaded" =>
              \E n \in named, l \in Loads :
                  /\ First(n) /\ HoldsFirst(l, image.sections[n].addr)
                  /\ memory[kernel_info] = Contents(l, image.sections[n].addr)
        /\ stage = "failed to locate prekernel_boot_info" =>
              \A n \in named, l \in Loads : First(n) => ~HoldsFirst(l, image.sections[n].addr)
=============================================================================
