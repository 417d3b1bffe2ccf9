--------------------------- MODULE BootInfoProofs ---------------------------
(***************************************************************************)
(* Proofs about BootInfo and KernelLoader: for every image, every set of   *)
(* tables of a boot loader and every size of the records, nothing that is  *)
(* written for the kernel is lost, and a loaded image is where it was      *)
(* linked to be.                                                           *)
(***************************************************************************)
EXTENDS BootInfo, FiniteSetTheorems, TLAPS

----------------------------------------------------------------------------
(* The inductive invariant.                                                *)

LoadedSegment == [paddr : Nat, vaddr : Nat, size : Nat, flags : SUBSET Flags]

Bytes(base, length) == base..(base + length - 1)

\* A byte of memory in a page that is allocated.
Occupied(m) == m \in DOMAIN memory /\ m \div PTM_PAGE_GRANULARITY \in taken

\* The headers that have been loaded.
Done == {k \in Loads : k < i}

\* The segment has the bytes of the header in pages of its own.
Placed(k, s) ==
    /\ s.vaddr = image.phdrs[k].vaddr /\ s.size = image.phdrs[k].memsz
    /\ \A a \in Bytes(image.phdrs[k].vaddr, image.phdrs[k].memsz) :
          /\ Occupied(s.paddr + (a - image.phdrs[k].vaddr))
          /\ memory[s.paddr + (a - image.phdrs[k].vaddr)] = Contents(k, a)

\* Where no later header has been, the pages are mapped to those of the segment.
MappedTo(k, s) ==
    \A v \in Page :
        Touches(k, v) /\ (\A q \in Done : q > k => ~Touches(q, v)) =>
            space[v] = [paddr |-> s.paddr + (v - image.phdrs[k].vaddr),
                        flags |-> image.phdrs[k].flags]

SegmentSet == {segments[k] : k \in 1..Len(segments)}
HeadersLoaded == \A k \in Done : \E s \in SegmentSet : Placed(k, s) /\ MappedTo(k, s)
SegmentsPlaced == \A s \in SegmentSet : \E k \in Done : Placed(k, s)

LoaderTypes ==
    /\ image \in Images /\ i \in Nat \ {0}
    /\ segments \in Seq(LoadedSegment)
    /\ DOMAIN memory = 0..(PhysicalPages * PTM_PAGE_GRANULARITY - 1)

LoaderStages ==
    /\ stage = "start" => i = 1 /\ segments = <<>>
    /\ stage = "loaded" => i > Len(image.phdrs)

LoaderInv ==
    LoaderTypes /\ LoaderStages /\ HeadersLoaded /\ SegmentsPlaced /\ KernelInfoFound

\* What was written is there, in pages that are allocated.
Kept(w, mem, pages) ==
    /\ w.base \in Nat /\ w.length \in Nat
    /\ \A a \in Bytes(w.base, w.length) :
          a \in DOMAIN mem /\ a \div PTM_PAGE_GRANULARITY \in pages /\ mem[a] = w.content
WrittenKept == \A w \in written : Kept(w, memory, taken)

BlockPages == PagesFor(boot_info_block_size)

\* How far the block has been filled when it is a record's turn.
FramebufferAt(k) == BOOTINFO_SIZE + FRAMEBUFFER_SIZE * (k - 1)
ModuleAt(k) ==
    BOOTINFO_SIZE + FRAMEBUFFER_SIZE * boot.framebuffers
      + MODULE_SIZE * (k - 1) + NamesSize[k - 1]
BlockOffset == IF boot_stage = "framebuffers" THEN FramebufferAt(n) ELSE ModuleAt(n)

\* The block is allocated, and what is behind the pointer in it has not been written.
BlockAt(p) ==
    /\ p + BlockPages <= PhysicalPages
    /\ Run(p, BlockPages) \subseteq taken
    /\ boot_info_block_pointer = p * PTM_PAGE_GRANULARITY + BlockOffset
    /\ \A w \in written : \A a \in Bytes(w.base, w.length) :
          ~(boot_info_block_pointer <= a /\ a < (p + BlockPages) * PTM_PAGE_GRANULARITY)

BlockRoom == boot_stage \in {"framebuffers", "modules"} => \E p \in 0..PhysicalPages : BlockAt(p)

BootTypes ==
    /\ boot \in BootTables /\ n \in Nat \ {0}
    /\ boot_stage = "framebuffers" => n <= boot.framebuffers + 1
    /\ boot_stage = "modules" => n <= Len(boot.modules) + 1
    /\ boot_stage = "block" => n = 1 /\ written = {}

BootInv ==
    /\ BootTypes /\ WrittenKept /\ BlockRoom
    /\ boot_stage # "load" => stage = "start"

BootIInv == LoaderInv /\ BootInv

----------------------------------------------------------------------------
(* Arithmetic.                                                             *)

G == PTM_PAGE_GRANULARITY

\* A quotient and its remainder.
LEMMA Divide ==
  ASSUME NEW x \in Nat
  PROVE  /\ x \div G \in Nat /\ x % G \in Nat /\ x % G < G
         /\ x = G * (x \div G) + (x % G)
<1> DEFINE g == PTM_PAGE_GRANULARITY
<1>1. g \in Nat \ {0}
  BY SizesAssumption
<1> HIDE DEF g
<1>2. x \div g \in Nat
  BY <1>1, SMT
<1>3. x % g \in Nat /\ x % g < g
  BY <1>1, SMT
<1>4. x = g * (x \div g) + (x % g)
  BY <1>1, SMT
<1> QED BY <1>2, <1>3, <1>4 DEF g, G

\* A multiple below the next one is no larger.
LEMMA Between ==
  ASSUME NEW p \in Nat, NEW q \in Nat, G * p < G * (q + 1)
  PROVE  p <= q
<1>1. G \in Nat \ {0}
  BY SizesAssumption DEF G
<1> QED BY <1>1, SMT

\* Products with the size of a page.
LEMMA Multiples ==
  ASSUME NEW p \in Nat, NEW q \in Nat
  PROVE  /\ G \in Nat \ {0} /\ G * p \in Nat /\ p * G = G * p
         /\ G * (p + q) = G * p + G * q /\ (p + q) * G = p * G + q * G
         /\ G * (p + 1) = G * p + G
         /\ (G * p) \div G = p /\ (G * p) % G = 0
         /\ p <= q => G * p <= G * q
<1>1. G \in Nat \ {0}
  BY SizesAssumption DEF G
<1>2. G * p \in Nat /\ p * G = G * p
  BY <1>1, SMT
<1>3. G * (p + q) = G * p + G * q /\ (p + q) * G = p * G + q * G
  BY <1>1, SMT
<1>4. G * (p + 1) = G * p + G
  BY <1>1, SMT
<1>5. (G * p) \div G = p /\ (G * p) % G = 0
  BY <1>1, SMT
<1>6. p <= q => G * p <= G * q
  BY <1>1, SMT
<1> QED BY <1>1, <1>2, <1>3, <1>4, <1>5, <1>6

\* Rounding down to a page (MATH_FLOOR in lib/math.h).
LEMMA FloorFacts ==
  ASSUME NEW x \in Nat
  PROVE  /\ MATH_FLOOR(x) \in Nat /\ MATH_FLOOR(x) <= x /\ x < MATH_FLOOR(x) + G
         /\ MATH_FLOOR(x) = G * (x \div G)
         /\ MATH_FLOOR(x) % G = 0 /\ MATH_FLOOR(x) \div G = x \div G
<1>1. /\ x \div G \in Nat /\ x % G \in Nat /\ x % G < G
      /\ x = G * (x \div G) + (x % G)
  BY Divide
<1>2. /\ G \in Nat \ {0} /\ G * (x \div G) \in Nat
      /\ (G * (x \div G)) \div G = x \div G /\ (G * (x \div G)) % G = 0
  BY <1>1, Multiples
<1>3. MATH_FLOOR(x) = x - (x % G)
  BY DEF MATH_FLOOR, G
<1>4. MATH_FLOOR(x) = G * (x \div G)
  BY <1>1, <1>2, <1>3, SMT
<1>5. MATH_FLOOR(x) \in Nat /\ MATH_FLOOR(x) <= x /\ x < MATH_FLOOR(x) + G
  BY <1>1, <1>2, <1>3, SMT
<1> QED BY <1>2, <1>4, <1>5

\* It keeps the order.
LEMMA FloorMonotone ==
  ASSUME NEW x \in Nat, NEW y \in Nat, x <= y
  PROVE  MATH_FLOOR(x) <= MATH_FLOOR(y)
<1> DEFINE p == x \div G
           q == y \div G
<1>1. /\ MATH_FLOOR(x) = G * p /\ MATH_FLOOR(x) <= x
      /\ MATH_FLOOR(y) = G * q /\ y < MATH_FLOOR(y) + G
      /\ MATH_FLOOR(x) \in Nat /\ MATH_FLOOR(y) \in Nat
  BY FloorFacts
<1>2. p \in Nat /\ q \in Nat
  BY Divide
<1> HIDE DEF p, q
<1>3. G * (q + 1) = G * q + G /\ G \in Nat
  BY <1>2, Multiples
<1>4. G * p < G * (q + 1)
  BY <1>1, <1>3, SMT
<1>5. p <= q
  BY <1>2, <1>4, Between
<1>6. G * p <= G * q
  BY <1>2, <1>5, Multiples
<1> QED BY <1>1, <1>6

\* Rounding up gives whole pages (MATH_ALIGN_UP in lib/math.h).
LEMMA AlignUpFacts ==
  ASSUME NEW x \in Nat
  PROVE  /\ MATH_ALIGN_UP(x) \in Nat /\ x <= MATH_ALIGN_UP(x)
         /\ MATH_ALIGN_UP(x) % G = 0
         /\ PagesFor(x) \in Nat /\ MATH_ALIGN_UP(x) = G * PagesFor(x)
<1>1. G \in Nat \ {0}
  BY Multiples
<1> DEFINE y == x + G - 1
<1>2. y \in Nat /\ MATH_ALIGN_UP(x) = MATH_FLOOR(y)
  BY <1>1, SMT DEF MATH_ALIGN_UP, G
<1> HIDE DEF y
<1>3. /\ MATH_FLOOR(y) \in Nat /\ y < MATH_FLOOR(y) + G
      /\ MATH_FLOOR(y) = G * (y \div G)
      /\ MATH_FLOOR(y) % G = 0 /\ MATH_FLOOR(y) \div G = y \div G
  BY <1>2, FloorFacts
<1>4. y \div G \in Nat
  BY <1>2, Divide
<1>5. PagesFor(x) = y \div G
  BY <1>2, <1>3 DEF PagesFor, G
<1>6. x <= MATH_FLOOR(y)
  BY <1>1, <1>3, SMT DEF y
<1> QED BY <1>2, <1>3, <1>4, <1>5, <1>6

\* The bytes of a run of pages are in its pages.
LEMMA InRun ==
  ASSUME NEW p \in Nat, NEW k \in Nat, NEW m \in Nat, p * G <= m, m < (p + k) * G
  PROVE  m \div G \in Run(p, k)
<1> DEFINE q == m \div G
<1>1. q \in Nat /\ m % G \in Nat /\ m % G < G /\ m = G * q + (m % G)
  BY Divide
<1> HIDE DEF q
<1>2. /\ G \in Nat /\ p * G = G * p /\ G * p \in Nat
      /\ G * q \in Nat /\ G * (q + 1) = G * q + G
  BY <1>1, Multiples
<1>3. (p + k) * G = G * (p + k) /\ G * (p + k) \in Nat
  <2>1. p + k \in Nat
    OBVIOUS
  <2> QED BY <2>1, Multiples
<1>4. p <= q
  <2>1. G * p < G * (q + 1)
    BY <1>1, <1>2, SMT
  <2> QED BY <1>1, <2>1, Between
<1>5. q < p + k
  <2>1. CASE k = 0 /\ p = 0
    <3>1. (p + k) * G = 0
      BY <2>1, <1>2, SMT
    <3> QED BY <3>1
  <2>2. CASE p + k >= 1
    <3> DEFINE t == p + k - 1
    <3>1. t \in Nat /\ t + 1 = p + k
      BY <2>2
    <3> HIDE DEF t
    <3>2. G * q < G * (t + 1)
      BY <1>1, <1>2, <1>3, <3>1, SMT
    <3>3. q <= t
      BY <1>1, <3>1, <3>2, Between
    <3> QED BY <1>1, <3>1, <3>3
  <2> QED BY <2>1, <2>2
<1> QED BY <1>1, <1>4, <1>5 DEF q, Run

\* A run of pages that are there lies in memory.
LEMMA RunInMemory ==
  ASSUME NEW p \in Nat, NEW k \in Nat, p + k <= PhysicalPages
  PROVE  (p + k) * G <= PhysicalPages * G /\ (p + k) * G \in Nat /\ p * G \in Nat
<1>1. PhysicalPages \in Nat
  BY SizesAssumption
<1>2. G * (p + k) <= G * PhysicalPages
  BY <1>1, Multiples
<1>3. (p + k) * G = G * (p + k) /\ PhysicalPages * G = G * PhysicalPages
  BY <1>1, Multiples
<1>4. G * (p + k) \in Nat /\ G * p \in Nat /\ p * G = G * p
  <2>1. p + k \in Nat
    OBVIOUS
  <2> QED BY <2>1, Multiples
<1> QED BY <1>2, <1>3, <1>4

----------------------------------------------------------------------------
(* The least number of a set, and what follows from it: the first element  *)
(* of a sequence with a property, and sums over the start of a sequence.   *)

\* A set of numbers has a least one.
LEMMA LeastNumber ==
  ASSUME NEW S \in SUBSET Nat, S # {}
  PROVE  \E m \in S : \A k \in S : m <= k
<1> DEFINE T == {S \cap (0..k) : k \in S}
<1>1. IsWellFoundedOn(StrictSubsetOrdering(Nat), FiniteSubsetsOf(Nat))
  BY FS_StrictSubsetOrderingWellFounded
<1>2. T # {}
  OBVIOUS
<1>3. T \subseteq FiniteSubsetsOf(Nat)
  <2> SUFFICES ASSUME NEW k \in S PROVE S \cap (0..k) \in FiniteSubsetsOf(Nat)
    OBVIOUS
  <2>1. IsFiniteSet(0..k)
    BY FS_Interval
  <2>2. IsFiniteSet(S \cap (0..k))
    BY <2>1, FS_Subset
  <2> QED BY <2>2 DEF FiniteSubsetsOf
<1>4. PICK x \in T : \A y \in T : ~(<<y, x>> \in StrictSubsetOrdering(Nat))
  <2> HIDE DEF T
  <2> QED BY <1>1, <1>2, <1>3, WFMin
<1>5. PICK m \in S : x = S \cap (0..m)
  OBVIOUS
<1>6. ASSUME NEW k \in S, k < m PROVE FALSE
  <2> DEFINE y == S \cap (0..k)
  <2>1. y \in SUBSET Nat /\ x \in SUBSET Nat
    BY <1>5
  <2>2. y \subseteq x /\ y # x
    <3>1. m \in x /\ m \notin y
      BY <1>5, <1>6
    <3>2. y \subseteq x
      BY <1>5, <1>6
    <3> QED BY <3>1, <3>2
  <2>3. <<y, x>> \in StrictSubsetOrdering(Nat)
    <3> HIDE DEF y
    <3> QED BY <2>1, <2>2 DEF StrictSubsetOrdering
  <2> QED BY <2>3, <1>4
<1> QED BY <1>6

\* So it has a minimum.
LEMMA MinFacts ==
  ASSUME NEW S \in SUBSET Nat, S # {}
  PROVE  Min(S) \in S /\ \A k \in S : Min(S) <= k
<1>1. \E m \in S : \A k \in S : m <= k
  BY LeastNumber
<1> QED BY <1>1, Zenon DEF Min

\* The elements of a sequence.
LEMMA SeqElement ==
  ASSUME NEW R, NEW s \in Seq(R)
  PROVE  /\ Len(s) \in Nat /\ DOMAIN s = 1..Len(s)
         /\ \A k \in 1..Len(s) : s[k] \in R
  OBVIOUS

\* The size of a name as it is stored.
LEMMA NameSizeNat ==
  ASSUME boot \in BootTables, NEW k \in 1..Len(boot.modules)
  PROVE  /\ Len(boot.modules) \in Nat /\ boot.framebuffers \in Nat
         /\ boot.modules[k] \in [name : Nat, size : Nat]
         /\ NameSize(boot.modules[k]) \in Nat
         /\ NameSize(boot.modules[k]) = boot.modules[k].name + 1
<1>1. boot.modules \in Seq([name : Nat, size : Nat]) /\ boot.framebuffers \in Nat
  BY BootInfoAssumption
<1>2. Len(boot.modules) \in Nat /\ boot.modules[k] \in [name : Nat, size : Nat]
  BY <1>1, SeqElement, Zenon
<1> QED BY <1>1, <1>2 DEF NameSize

\* A function that sums the first of them.
Sums(k, f) ==
    /\ f \in [0..k -> Nat] /\ f[0] = 0
    /\ \A q \in 1..k : f[q] = f[q - 1] + NameSize(boot.modules[q])

\* There is one for any number of modules.
LEMMA SumsExist ==
  ASSUME boot \in BootTables, NEW k \in 0..Len(boot.modules)
  PROVE  \E f : Sums(k, f)
<1> DEFINE S == {q \in 0..Len(boot.modules) : ~\E f : Sums(q, f)}
<1>1. Len(boot.modules) \in Nat
  BY BootInfoAssumption
<1>2. SUFFICES ASSUME S # {} PROVE FALSE
  OBVIOUS
<1>3. PICK m \in S : \A q \in S : m <= q
  <2>1. S \in SUBSET Nat
    BY <1>1
  <2> HIDE DEF S
  <2> QED BY <1>2, <2>1, LeastNumber
<1>4. m # 0
  <2>1. Sums(0, [q \in 0..0 |-> 0])
    BY DEF Sums
  <2> QED BY <2>1
<1>5. m \in 1..Len(boot.modules) /\ m - 1 \in 0..Len(boot.modules) /\ m - 1 \notin S
  BY <1>1, <1>3, <1>4
<1>6. PICK f : Sums(m - 1, f)
  BY <1>5
<1> DEFINE g == [q \in 0..m |-> IF q = m THEN f[m - 1] + NameSize(boot.modules[m]) ELSE f[q]]
<1>7. Sums(m, g)
  <2>1. f \in [0..(m - 1) -> Nat] /\ f[0] = 0
        /\ \A q \in 1..(m - 1) : f[q] = f[q - 1] + NameSize(boot.modules[q])
    BY <1>6 DEF Sums
  <2>2. NameSize(boot.modules[m]) \in Nat
    BY <1>5, NameSizeNat
  <2>3. m \in Nat /\ m >= 1
    BY <1>1, <1>5
  <2>4. g \in [0..m -> Nat] /\ g[0] = 0
    BY <2>1, <2>2, <2>3
  <2>5. ASSUME NEW q \in 1..m PROVE g[q] = g[q - 1] + NameSize(boot.modules[q])
    <3>1. CASE q = m
      BY <2>1, <2>3, <3>1
    <3>2. CASE q # m
      <4>1. q \in 1..(m - 1) /\ g[q] = f[q] /\ g[q - 1] = f[q - 1]
        BY <2>3, <3>2
      <4> QED BY <2>1, <4>1
    <3> QED BY <3>1, <3>2
  <2> QED BY <2>4, <2>5 DEF Sums
<1> QED BY <1>5, <1>7

\* NamesSize is that function.
LEMMA NamesSizeFacts ==
  ASSUME boot \in BootTables
  PROVE  Sums(Len(boot.modules), NamesSize)
<1> DEFINE L == Len(boot.modules)
           Def(f) == [q \in 0..L |-> IF q = 0 THEN 0 ELSE f[q - 1] + NameSize(boot.modules[q])]
<1>1. L \in Nat
  BY BootInfoAssumption
<1>2. PICK f : Sums(L, f)
  BY <1>1, SumsExist
<1>3. f = Def(f)
  <2>1. ASSUME NEW q \in 0..L PROVE f[q] = Def(f)[q]
    <3>1. CASE q = 0
      BY <1>2, <3>1 DEF Sums
    <3>2. CASE q # 0
      BY <1>1, <1>2, <3>2 DEF Sums
    <3> QED BY <3>1, <3>2
  <2>2. f = [q \in 0..L |-> f[q]]
    BY <1>2 DEF Sums
  <2> QED BY <2>1, <2>2
<1>4. NamesSize = Def(NamesSize)
  BY <1>3, Zenon DEF NamesSize
<1>5. NamesSize[0] = 0
  <2>1. Def(NamesSize)[0] = 0
    BY <1>1
  <2> QED BY <1>4, <2>1
<1>6. ASSUME NEW q \in 1..L
      PROVE  NamesSize[q] = NamesSize[q - 1] + NameSize(boot.modules[q])
  <2>1. Def(NamesSize)[q] = NamesSize[q - 1] + NameSize(boot.modules[q])
    BY <1>1, <1>6
  <2> QED BY <1>4, <2>1
<1>7. NamesSize \in [0..L -> Nat]
  <2> DEFINE S == {q \in 0..L : NamesSize[q] \notin Nat}
  <2>1. S = {}
    <3>1. SUFFICES ASSUME S # {} PROVE FALSE
      OBVIOUS
    <3>2. PICK m \in S : \A q \in S : m <= q
      <4>1. S \in SUBSET Nat
        BY <1>1
      <4> HIDE DEF S
      <4> QED BY <3>1, <4>1, LeastNumber
    <3>3. m # 0
      BY <1>5, <3>2
    <3>4. m \in 1..L /\ m - 1 \in 0..L /\ m - 1 \notin S
      BY <1>1, <3>2, <3>3
    <3>5. NamesSize[m - 1] \in Nat /\ NameSize(boot.modules[m]) \in Nat
      BY <3>4, NameSizeNat
    <3> QED BY <1>6, <3>2, <3>4, <3>5
  <2>2. NamesSize = [q \in 0..L |-> NamesSize[q]]
    <3> DEFINE N == NamesSize
    <3>1. N = Def(N)
      BY <1>4
    <3> HIDE DEF N
    <3>2. N = [q \in 0..L |-> N[q]]
      BY <3>1
    <3> QED BY <3>2 DEF N
  <2> QED BY <2>1, <2>2
<1> QED BY <1>5, <1>6, <1>7 DEF Sums

\* The names of more modules are no shorter.
LEMMA NamesSizeMonotone ==
  ASSUME boot \in BootTables,
         NEW k \in 0..Len(boot.modules), NEW q \in 0..Len(boot.modules), k <= q
  PROVE  NamesSize[k] <= NamesSize[q]
<1> DEFINE L == Len(boot.modules)
           S == {t \in k..L : NamesSize[t] < NamesSize[k]}
<1>1. L \in Nat
  BY BootInfoAssumption
<1>2. Sums(L, NamesSize)
  BY NamesSizeFacts
<1>3. \A t \in 0..L : NamesSize[t] \in Nat
  BY <1>2 DEF Sums
<1>4. S = {}
  <2>1. SUFFICES ASSUME S # {} PROVE FALSE
    OBVIOUS
  <2>2. PICK m \in S : \A t \in S : m <= t
    <3>1. S \in SUBSET Nat
      BY <1>1
    <3> HIDE DEF S
    <3> QED BY <2>1, <3>1, LeastNumber
  <2>3. m # k
    BY <1>3, <2>2
  <2>4. m \in 1..L /\ m - 1 \in k..L /\ m - 1 \notin S
    BY <1>1, <2>2, <2>3
  <2>5. NameSize(boot.modules[m]) \in Nat /\ NamesSize[m] = NamesSize[m - 1] + NameSize(boot.modules[m])
    BY <1>2, <2>4, NameSizeNat DEF Sums
  <2>6. NamesSize[m - 1] >= NamesSize[k]
    BY <1>1, <1>3, <2>4
  <2>7. NamesSize[m] < NamesSize[k]
    BY <2>2
  <2>8. NamesSize[m - 1] \in Nat /\ NamesSize[m] \in Nat /\ NamesSize[k] \in Nat
    BY <1>1, <1>3, <2>4
  <2> QED BY <2>5, <2>6, <2>7, <2>8
<1>5. q \in k..L /\ q \notin S
  BY <1>1, <1>4
<1>6. ~(NamesSize[q] < NamesSize[k])
  BY <1>5
<1> QED BY <1>3, <1>6

----------------------------------------------------------------------------
(* Program headers.                                                        *)

\* A header of an image.
LEMMA HeaderFacts ==
  ASSUME image \in Images, NEW k \in 1..Len(image.phdrs)
  PROVE  /\ Len(image.phdrs) \in Nat
         /\ image.phdrs[k] \in ProgramHeader
         /\ image.phdrs[k].filesz <= image.phdrs[k].memsz
         /\ image.phdrs[k].vaddr + image.phdrs[k].memsz <= TopAddress
<1>1. /\ image.phdrs \in Seq(ProgramHeader)
      /\ \A h \in Range(image.phdrs) : h.filesz <= h.memsz /\ h.vaddr + h.memsz <= TopAddress
  BY ImagesAssumption
<1>2. /\ Len(image.phdrs) \in Nat /\ DOMAIN image.phdrs = 1..Len(image.phdrs)
      /\ image.phdrs[k] \in ProgramHeader
  BY <1>1, SeqElement, Zenon
<1>3. image.phdrs[k] \in Range(image.phdrs)
  BY <1>2, Zenon DEF Range
<1> QED BY <1>1, <1>2, <1>3, Zenon

\* The fields of a header are numbers.
LEMMA HeaderNumbers ==
  ASSUME image \in Images, NEW k \in 1..Len(image.phdrs)
  PROVE  /\ image.phdrs[k].vaddr \in Nat /\ image.phdrs[k].memsz \in Nat
         /\ image.phdrs[k].filesz \in Nat /\ image.phdrs[k].offset \in Nat
         /\ image.phdrs[k].flags \in SUBSET Flags
<1>1. image.phdrs[k] \in ProgramHeader
  BY HeaderFacts
<1> QED BY <1>1 DEF ProgramHeader

StartVaddr(k) == MATH_FLOOR(image.phdrs[k].vaddr)
EndVaddr(k) == MATH_ALIGN_UP(image.phdrs[k].vaddr + image.phdrs[k].memsz)
PageCount(k) == (EndVaddr(k) - StartVaddr(k)) \div PTM_PAGE_GRANULARITY

\* The pages that a header touches contain its bytes.
LEMMA Geometry ==
  ASSUME image \in Images, NEW k \in 1..Len(image.phdrs)
  PROVE  /\ StartVaddr(k) \in Nat /\ EndVaddr(k) \in Nat
         /\ StartVaddr(k) <= image.phdrs[k].vaddr
         /\ image.phdrs[k].vaddr + image.phdrs[k].memsz <= EndVaddr(k)
         /\ PageCount(k) \in Nat
         /\ EndVaddr(k) - StartVaddr(k) = PageCount(k) * G
<1> DEFINE x == image.phdrs[k].vaddr
           y == image.phdrs[k].vaddr + image.phdrs[k].memsz
<1>1. x \in Nat /\ y \in Nat /\ x <= y
  BY HeaderNumbers, SMT
<1>2. StartVaddr(k) = MATH_FLOOR(x) /\ EndVaddr(k) = MATH_ALIGN_UP(y)
  BY DEF StartVaddr, EndVaddr
<1>3. PageCount(k) = (EndVaddr(k) - StartVaddr(k)) \div G
  BY DEF PageCount, G
<1> HIDE DEF x, y
<1>4. StartVaddr(k) \in Nat /\ StartVaddr(k) <= x /\ StartVaddr(k) = G * (x \div G) /\ x \div G \in Nat
  BY <1>1, <1>2, FloorFacts, Divide
<1>5. EndVaddr(k) \in Nat /\ y <= EndVaddr(k) /\ EndVaddr(k) = G * PagesFor(y) /\ PagesFor(y) \in Nat
  BY <1>1, <1>2, AlignUpFacts
<1> DEFINE a == x \div G
           b == PagesFor(y)
<1> HIDE DEF a, b
<1>6. a \in Nat /\ b \in Nat /\ G * a <= G * b /\ StartVaddr(k) = G * a /\ EndVaddr(k) = G * b
  BY <1>1, <1>4, <1>5, SMT DEF a, b
<1>7. a <= b
  <2>1. G * (b + 1) = G * b + G /\ G \in Nat \ {0} /\ G * a \in Nat /\ G * b \in Nat
    BY <1>6, Multiples
  <2>2. G * a < G * (b + 1)
    BY <1>6, <2>1, SMT
  <2> QED BY <1>6, <2>2, Between
<1> DEFINE c == b - a
<1>8. c \in Nat /\ b = a + c
  BY <1>6, <1>7
<1> HIDE DEF c
<1>9. G * (a + c) = G * a + G * c /\ G * c \in Nat /\ (G * c) \div G = c /\ c * G = G * c
  BY <1>6, <1>8, Multiples
<1>10. EndVaddr(k) - StartVaddr(k) = G * c
  BY <1>4, <1>6, <1>8, <1>9, SMT
<1>11. PageCount(k) = c
  BY <1>3, <1>9, <1>10
<1> QED BY <1>4, <1>5, <1>8, <1>9, <1>10, <1>11 DEF x, y

\* The page of a byte of a segment is one of those that the header touches.
LEMMA PageOfByte ==
  ASSUME image \in Images, NEW k \in 1..Len(image.phdrs),
         NEW a \in Bytes(image.phdrs[k].vaddr, image.phdrs[k].memsz)
  PROVE  /\ a \in Nat /\ MATH_FLOOR(a) \in Page /\ MATH_FLOOR(a) <= a
         /\ Touches(k, MATH_FLOOR(a))
<1>1. /\ image.phdrs[k].vaddr \in Nat /\ image.phdrs[k].memsz \in Nat
      /\ image.phdrs[k].vaddr + image.phdrs[k].memsz <= TopAddress
  BY HeaderNumbers, HeaderFacts
<1>2. /\ a \in Nat /\ image.phdrs[k].vaddr <= a
      /\ a < image.phdrs[k].vaddr + image.phdrs[k].memsz
  BY <1>1, SMT DEF Bytes
<1>3. MATH_FLOOR(a) \in Nat /\ MATH_FLOOR(a) <= a /\ MATH_FLOOR(a) % G = 0
  BY <1>2, FloorFacts
<1>4. MATH_FLOOR(image.phdrs[k].vaddr) <= MATH_FLOOR(a)
  BY <1>1, <1>2, FloorMonotone
<1>5. /\ EndVaddr(k) \in Nat
      /\ image.phdrs[k].vaddr + image.phdrs[k].memsz <= EndVaddr(k)
  BY Geometry
<1>6. MATH_FLOOR(a) < EndVaddr(k)
  BY <1>1, <1>2, <1>3, <1>5, SMT
<1>7. MATH_FLOOR(a) \in Page
  <2>1. TopAddress \in Nat /\ MATH_FLOOR(a) < TopAddress
    BY <1>1, <1>2, <1>3, SizesAssumption, SMT
  <2>2. MATH_FLOOR(a) \in 0..(TopAddress - 1)
    BY <1>3, <2>1, SMT
  <2> QED BY <1>3, <2>2 DEF Page, G
<1> QED BY <1>2, <1>3, <1>4, <1>6, <1>7 DEF Touches, EndVaddr

----------------------------------------------------------------------------
(* The kernel loader.                                                      *)

\* A step that changes no byte of an allocated page and frees none.
Undisturbed ==
    /\ DOMAIN memory' = DOMAIN memory /\ taken \subseteq taken'
    /\ \A m \in DOMAIN memory :
          m \div PTM_PAGE_GRANULARITY \in taken => memory'[m] = memory[m]

\* What was placed stays where it is.
LEMMA PlacedKept ==
  ASSUME Undisturbed, image' = image, NEW k, NEW s, Placed(k, s)
  PROVE  Placed(k, s)'
<1>1. s.vaddr = image.phdrs[k].vaddr /\ s.size = image.phdrs[k].memsz
  BY DEF Placed
<1>2. ASSUME NEW a \in Bytes(image.phdrs[k].vaddr, image.phdrs[k].memsz)
      PROVE  /\ Occupied(s.paddr + (a - image.phdrs[k].vaddr))'
             /\ memory'[s.paddr + (a - image.phdrs[k].vaddr)] = Contents(k, a)
  <2> DEFINE m == s.paddr + (a - image.phdrs[k].vaddr)
  <2>1. m \in DOMAIN memory /\ m \div PTM_PAGE_GRANULARITY \in taken /\ memory[m] = Contents(k, a)
    BY DEF Placed, Occupied
  <2> HIDE DEF m
  <2>2. m \in DOMAIN memory' /\ m \div PTM_PAGE_GRANULARITY \in taken' /\ memory'[m] = Contents(k, a)
    BY <2>1, Zenon DEF Undisturbed
  <2> QED BY <2>2 DEF m, Occupied
<1>3. \A a : Contents(k, a)' = Contents(k, a)
  BY DEF Contents
<1>4. (s.vaddr = image.phdrs[k].vaddr /\ s.size = image.phdrs[k].memsz)'
  BY <1>1
<1>5. Bytes(image'.phdrs[k].vaddr, image'.phdrs[k].memsz)
        = Bytes(image.phdrs[k].vaddr, image.phdrs[k].memsz)
  OBVIOUS
<1> QED BY <1>2, <1>3, <1>4, <1>5 DEF Placed, Bytes

\* The header of the step that loads a segment.
LEMMA LoadHeader ==
  ASSUME LoaderInv, Loading, phdr.load
  PROVE  /\ i \in 1..Len(image.phdrs) /\ i \in Loads /\ Len(image.phdrs) \in Nat
         /\ image.phdrs[i].vaddr \in Nat /\ image.phdrs[i].memsz \in Nat
         /\ image.phdrs[i].filesz \in Nat /\ image.phdrs[i].offset \in Nat
         /\ image.phdrs[i].filesz <= image.phdrs[i].memsz
         /\ image.phdrs[i].flags \in SUBSET Flags
         /\ start_vaddr = StartVaddr(i) /\ end_vaddr = EndVaddr(i)
         /\ SegmentPages = PageCount(i) /\ phdr = image.phdrs[i]
         /\ start_vaddr \in Nat /\ end_vaddr \in Nat /\ SegmentPages \in Nat
         /\ start_vaddr <= image.phdrs[i].vaddr
         /\ image.phdrs[i].vaddr + image.phdrs[i].memsz <= end_vaddr
         /\ end_vaddr - start_vaddr = SegmentPages * G
<1>1. image \in Images /\ i \in Nat \ {0} /\ i <= Len(image.phdrs)
  BY DEF LoaderInv, LoaderTypes, Loading
<1>2. Len(image.phdrs) \in Nat
  <2>1. image.phdrs \in Seq(ProgramHeader)
    BY <1>1, ImagesAssumption
  <2> QED BY <2>1, SeqElement, Zenon
<1>3. i \in 1..Len(image.phdrs)
  BY <1>1, <1>2
<1>4. i \in Loads
  BY <1>3 DEF Loads, phdr
<1>5. /\ start_vaddr = StartVaddr(i) /\ end_vaddr = EndVaddr(i)
      /\ SegmentPages = PageCount(i) /\ phdr = image.phdrs[i]
  BY DEF start_vaddr, end_vaddr, SegmentPages, phdr, StartVaddr, EndVaddr, PageCount
<1>6. /\ StartVaddr(i) \in Nat /\ EndVaddr(i) \in Nat
      /\ StartVaddr(i) <= image.phdrs[i].vaddr
      /\ image.phdrs[i].vaddr + image.phdrs[i].memsz <= EndVaddr(i)
      /\ PageCount(i) \in Nat
      /\ EndVaddr(i) - StartVaddr(i) = PageCount(i) * G
  BY <1>1, <1>3, Geometry
<1>7. /\ image.phdrs[i].vaddr \in Nat /\ image.phdrs[i].memsz \in Nat
      /\ image.phdrs[i].filesz \in Nat /\ image.phdrs[i].offset \in Nat
      /\ image.phdrs[i].flags \in SUBSET Flags
  BY <1>1, <1>3, HeaderNumbers
<1>8. image.phdrs[i].filesz <= image.phdrs[i].memsz
  BY <1>1, <1>3, HeaderFacts
<1> QED BY <1>2, <1>3, <1>4, <1>5, <1>6, <1>7, <1>8

\* The segment that a step adds, if its pages start at page p.
NewSegment(p) ==
    [paddr |-> p * PTM_PAGE_GRANULARITY + (phdr.vaddr - start_vaddr), vaddr |-> phdr.vaddr,
     size |-> phdr.memsz, flags |-> phdr.flags]

\* The step that loads the next segment into the pages from page p.
LoadsAt(p) ==
    /\ CanTake(p, SegmentPages)
    /\ taken' = taken \cup Run(p, SegmentPages)
    /\ space' = [v \in Page |->
         IF start_vaddr <= v /\ v < end_vaddr
           THEN [paddr |-> p * G + (v - start_vaddr), flags |-> phdr.flags]
           ELSE space[v]]
    /\ memory' = [a \in DOMAIN memory |->
         IF LoadAddress(p * G) <= a /\ a < LoadAddress(p * G) + phdr.filesz
           THEN phdr.offset + (a - LoadAddress(p * G))
         ELSE IF p * G <= a /\ a < p * G + (end_vaddr - start_vaddr) THEN Zero
         ELSE memory[a]]
    /\ segments' = Append(segments, NewSegment(p))
    /\ i' = i + 1
    /\ UNCHANGED <<image, stage, kernel_info>>

\* Every step of internal_elf_handle_pt_load is one of these.
LEMMA LoadsSomewhere ==
  ASSUME internal_elf_handle_pt_load
  PROVE  \E p \in 0..PhysicalPages : LoadsAt(p)
  BY DEF internal_elf_handle_pt_load, LoadsAt, NewSegment, G

\* A segment's pages are new ones, so that nothing that is in memory is lost.
LEMMA LoadUndisturbed ==
  ASSUME LoaderInv, Loading, phdr.load, NEW p \in 0..PhysicalPages, LoadsAt(p)
  PROVE  Undisturbed
<1> DEFINE b == p * G
           d == b + (image.phdrs[i].vaddr - start_vaddr)
           z == b + (end_vaddr - start_vaddr)
<1>1. /\ phdr = image.phdrs[i] /\ start_vaddr \in Nat /\ end_vaddr \in Nat
      /\ SegmentPages \in Nat /\ start_vaddr <= image.phdrs[i].vaddr
      /\ image.phdrs[i].vaddr + image.phdrs[i].memsz <= end_vaddr
      /\ end_vaddr - start_vaddr = SegmentPages * G
      /\ image.phdrs[i].vaddr \in Nat /\ image.phdrs[i].memsz \in Nat
      /\ image.phdrs[i].filesz \in Nat /\ image.phdrs[i].filesz <= image.phdrs[i].memsz
  BY LoadHeader
<1>2. p \in Nat /\ PhysicalPages \in Nat /\ Run(p, SegmentPages) \cap taken = {}
  BY SizesAssumption DEF LoadsAt, CanTake
<1>3. b \in Nat /\ (p + SegmentPages) * G = b + SegmentPages * G
  BY <1>1, <1>2, Multiples
<1>4. z = (p + SegmentPages) * G /\ d + image.phdrs[i].filesz <= z /\ b <= d
      /\ z \in Nat /\ d \in Nat
  BY <1>1, <1>3, SMT
<1>5. LoadAddress(b) = d
  BY <1>1 DEF LoadAddress
<1>6. memory' = [a \in DOMAIN memory |->
         IF d <= a /\ a < d + image.phdrs[i].filesz THEN image.phdrs[i].offset + (a - d)
         ELSE IF b <= a /\ a < z THEN Zero ELSE memory[a]]
  BY <1>1, <1>5 DEF LoadsAt
<1>7. DOMAIN memory' = DOMAIN memory /\ taken \subseteq taken'
  BY <1>6 DEF LoadsAt
<1>8. ASSUME NEW m \in DOMAIN memory, m \div G \in taken
      PROVE  memory'[m] = memory[m]
  <2>1. m \in Nat
    BY DEF LoaderInv, LoaderTypes
  <2>2. ~(b <= m /\ m < z)
    <3>1. SUFFICES ASSUME b <= m, m < z PROVE FALSE
      OBVIOUS
    <3>2. m \div G \in Run(p, SegmentPages)
      BY <1>1, <1>2, <1>4, <2>1, <3>1, InRun
    <3> QED BY <1>2, <1>8, <3>2
  <2>3. ~(d <= m /\ m < d + image.phdrs[i].filesz)
    BY <1>1, <1>3, <1>4, <2>1, <2>2, SMT
  <2> HIDE DEF b, d, z
  <2> QED BY <1>6, <2>2, <2>3
<1> QED BY <1>7, <1>8 DEF Undisturbed, G

\* The new segment has the bytes of its header.
LEMMA NewPlaced ==
  ASSUME LoaderInv, Loading, phdr.load, NEW p \in 0..PhysicalPages, LoadsAt(p),
         NEW k, k = i, NEW s, s = NewSegment(p)
  PROVE  s \in LoadedSegment /\ Placed(k, s)'
<1> DEFINE H == image.phdrs[i]
           b == p * G
           d == b + (H.vaddr - start_vaddr)
           z == b + (end_vaddr - start_vaddr)
<1>1. /\ phdr = H /\ start_vaddr \in Nat /\ end_vaddr \in Nat
      /\ SegmentPages \in Nat /\ start_vaddr <= H.vaddr
      /\ H.vaddr + H.memsz <= end_vaddr
      /\ end_vaddr - start_vaddr = SegmentPages * G
      /\ H.vaddr \in Nat /\ H.memsz \in Nat /\ H.flags \in SUBSET Flags
      /\ H.filesz \in Nat /\ H.filesz <= H.memsz /\ H.offset \in Nat
  BY LoadHeader
<1>2. p \in Nat /\ PhysicalPages \in Nat /\ p + SegmentPages <= PhysicalPages
  BY SizesAssumption DEF LoadsAt, CanTake
<1>3. /\ b \in Nat /\ (p + SegmentPages) * G = b + SegmentPages * G
      /\ (p + SegmentPages) * G <= PhysicalPages * G
  BY <1>1, <1>2, Multiples, RunInMemory
<1>4. z = (p + SegmentPages) * G /\ b <= d /\ z \in Nat /\ d \in Nat
  BY <1>1, <1>3, SMT
<1>5. LoadAddress(b) = d
  BY <1>1 DEF LoadAddress
<1>6. memory' = [a \in DOMAIN memory |->
         IF d <= a /\ a < d + H.filesz THEN H.offset + (a - d)
         ELSE IF b <= a /\ a < z THEN Zero ELSE memory[a]]
  BY <1>1, <1>5 DEF LoadsAt
<1>7. s = [paddr |-> d, vaddr |-> H.vaddr, size |-> H.memsz, flags |-> H.flags]
  BY <1>1 DEF NewSegment, G
<1>8. s \in LoadedSegment /\ s.paddr = d /\ s.vaddr = H.vaddr /\ s.size = H.memsz
  <2> HIDE DEF H, d
  <2> QED BY <1>1, <1>4, <1>7 DEF LoadedSegment
<1>9. image' = image /\ taken' = taken \cup Run(p, SegmentPages)
  BY DEF LoadsAt
<1>10. ASSUME NEW a \in Bytes(H.vaddr, H.memsz)
       PROVE  /\ d + (a - H.vaddr) \in DOMAIN memory'
              /\ (d + (a - H.vaddr)) \div G \in taken'
              /\ memory'[d + (a - H.vaddr)] = Contents(i, a)
  <2> DEFINE m == d + (a - H.vaddr)
  <2>1. a \in Int /\ H.vaddr <= a /\ a < H.vaddr + H.memsz
    BY <1>1 DEF Bytes
  <2>2. m \in Nat /\ b <= m /\ m < z /\ d <= m /\ (m < d + H.filesz <=> a - H.vaddr < H.filesz)
        /\ m - d = a - H.vaddr
    BY <1>1, <1>3, <1>4, <2>1, SMT
  <2>3. m \in DOMAIN memory
    <3>1. DOMAIN memory = 0..(PhysicalPages * G - 1)
      BY DEF LoaderInv, LoaderTypes, G
    <3>2. PhysicalPages * G \in Nat
      BY <1>2, Multiples
    <3> HIDE DEF m, z, b, d
    <3> QED BY <1>3, <1>4, <2>2, <3>1, <3>2
  <2>4. m \div G \in Run(p, SegmentPages)
    BY <1>1, <1>2, <1>4, <2>2, InRun
  <2>5. memory'[m] = Contents(i, a)
    <3> HIDE DEF m, z, b, d
    <3>1. memory'[m] = IF m < d + H.filesz THEN H.offset + (m - d) ELSE Zero
      BY <1>6, <2>2, <2>3
    <3>2. memory'[m] = IF a - H.vaddr < H.filesz THEN H.offset + (a - H.vaddr) ELSE Zero
      BY <2>2, <3>1
    <3> QED BY <3>2 DEF Contents
  <2>6. DOMAIN memory' = DOMAIN memory
    BY <1>6
  <2> HIDE DEF m
  <2>7. m \in DOMAIN memory' /\ m \div G \in taken' /\ memory'[m] = Contents(i, a)
    BY <1>9, <2>3, <2>4, <2>5, <2>6
  <2> QED BY <2>7 DEF m
<1>11. Placed(k, s)'
  <2>1. \A a : Contents(k, a)' = Contents(k, a)
    BY <1>9 DEF Contents
  <2>2. /\ image'.phdrs[k] = H
        /\ \A a \in Bytes(H.vaddr, H.memsz) :
              /\ s.paddr + (a - H.vaddr) \in DOMAIN memory'
              /\ (s.paddr + (a - H.vaddr)) \div G \in taken'
              /\ memory'[s.paddr + (a - H.vaddr)] = Contents(k, a)
    BY <1>8, <1>9, <1>10
  <2> QED
    BY <1>8, <2>1, <2>2 DEF Placed, Occupied, Bytes, G
<1> QED BY <1>8, <1>11

\* Appending a segment adds it to those that there are.
LEMMA SegmentsAppend ==
  ASSUME segments \in Seq(LoadedSegment), NEW s \in LoadedSegment,
         segments' = Append(segments, s)
  PROVE  segments' \in Seq(LoadedSegment) /\ SegmentSet' = SegmentSet \cup {s}
<1>1. /\ segments' \in Seq(LoadedSegment) /\ Len(segments) \in Nat
      /\ Len(segments') = Len(segments) + 1
      /\ \A k \in 1..Len(segments) : segments'[k] = segments[k]
      /\ segments'[Len(segments) + 1] = s
  <2> DEFINE A == LoadedSegment
  <2>1. segments \in Seq(A) /\ s \in A
    OBVIOUS
  <2> HIDE DEF A
  <2>2. /\ segments' \in Seq(A) /\ Len(segments) \in Nat
        /\ Len(segments') = Len(segments) + 1
        /\ \A k \in 1..Len(segments) : segments'[k] = segments[k]
        /\ segments'[Len(segments) + 1] = s
    BY <2>1
  <2> QED BY <2>2 DEF A
<1>2. ASSUME NEW t \in SegmentSet' PROVE t \in SegmentSet \cup {s}
  <2>1. PICK k \in 1..Len(segments') : t = segments'[k]
    BY DEF SegmentSet
  <2>2. k \in 1..Len(segments) \/ k = Len(segments) + 1
    BY <1>1, <2>1
  <2> QED BY <1>1, <2>1, <2>2 DEF SegmentSet
<1>3. ASSUME NEW t \in SegmentSet PROVE t \in SegmentSet'
  <2>1. PICK k \in 1..Len(segments) : t = segments[k]
    BY DEF SegmentSet
  <2>2. k \in 1..Len(segments') /\ t = segments'[k]
    BY <1>1, <2>1
  <2> QED BY <2>2 DEF SegmentSet
<1>4. s \in SegmentSet'
  <2>1. Len(segments) + 1 \in 1..Len(segments')
    BY <1>1
  <2> QED BY <1>1, <2>1 DEF SegmentSet
<1>5. SegmentSet' = SegmentSet \cup {s}
  BY <1>2, <1>3, <1>4, Zenon
<1> QED BY <1>1, <1>5

\* The headers before the next one, with and without this one.
LEMMA DoneNext ==
  ASSUME LoaderInv, i' = i + 1, image' = image
  PROVE  Done' = IF i \in Loads THEN Done \cup {i} ELSE Done
<1>1. Loads' = Loads
  BY DEF Loads
<1>2. i \in Nat /\ \A k \in Loads : k \in Int
  <2>1. i \in Nat
    BY DEF LoaderInv, LoaderTypes
  <2>2. \A k \in Loads : k \in Int
    BY DEF Loads
  <2> QED BY <2>1, <2>2
<1>3. Done' = {k \in Loads : k < i + 1} /\ Done = {k \in Loads : k < i}
  BY <1>1 DEF Done
<1>4. \A k \in Loads : k < i + 1 <=> k < i \/ k = i
  BY <1>2
<1> HIDE DEF Done
<1>5. CASE i \in Loads
  <2>1. Done' = Done \cup {i}
    BY <1>3, <1>4, <1>5, <1>2
  <2> QED BY <1>5, <2>1
<1>6. CASE i \notin Loads
  <2>1. Done' = Done
    BY <1>3, <1>4, <1>6
  <2> QED BY <1>6, <2>1
<1> QED BY <1>5, <1>6

\* Loading a segment keeps the invariant.
LEMMA LoadStep ==
  ASSUME LoaderInv, internal_elf_handle_pt_load
  PROVE  LoaderInv' /\ Undisturbed
<1>1. Loading /\ phdr.load
  BY DEF internal_elf_handle_pt_load
<1>2. PICK p \in 0..PhysicalPages : LoadsAt(p)
  BY LoadsSomewhere
<1>3. Undisturbed
  BY <1>1, <1>2, LoadUndisturbed
<1>4. /\ image' = image /\ stage' = stage /\ stage = "load" /\ i' = i + 1
      /\ segments' = Append(segments, NewSegment(p))
  BY <1>1, <1>2 DEF LoadsAt, Loading
<1>5. PICK k : k = i
  OBVIOUS
<1>6. PICK s : s = NewSegment(p)
  OBVIOUS
<1>7. s \in LoadedSegment /\ Placed(k, s)'
  BY <1>1, <1>2, <1>5, <1>6, NewPlaced
<1>8. segments \in Seq(LoadedSegment) /\ image \in Images /\ i \in Nat \ {0}
  BY DEF LoaderInv, LoaderTypes
<1>9. segments' \in Seq(LoadedSegment) /\ SegmentSet' = SegmentSet \cup {s}
  BY <1>4, <1>6, <1>7, <1>8, SegmentsAppend
<1>10. k \in Loads
  BY <1>1, <1>5, LoadHeader
<1>11. Done' = Done \cup {k}
  BY <1>4, <1>5, <1>10, DoneNext
<1>12. LoaderTypes'
  BY <1>3, <1>4, <1>8, <1>9 DEF LoaderTypes, Undisturbed, LoaderInv
<1>13. LoaderStages'
  BY <1>4 DEF LoaderStages
<1>14. KernelInfoFound'
  BY <1>4 DEF KernelInfoFound
<1>15. SegmentsPlaced'
  <2> SUFFICES ASSUME NEW t \in SegmentSet' PROVE \E q \in Done' : Placed(q, t)'
    BY DEF SegmentsPlaced
  <2>1. CASE t = s
    BY <1>7, <1>11, <2>1
  <2>2. CASE t \in SegmentSet
    <3>1. PICK q \in Done : Placed(q, t)
      BY <2>2 DEF LoaderInv, SegmentsPlaced
    <3>2. Placed(q, t)'
      BY <1>3, <1>4, <3>1, PlacedKept
    <3> QED BY <1>11, <3>1, <3>2
  <2> QED BY <1>9, <2>1, <2>2
<1>16. \A q, v : Touches(q, v)' = Touches(q, v)
  BY <1>4 DEF Touches
<1>17. /\ start_vaddr = StartVaddr(k) /\ end_vaddr = EndVaddr(k) /\ phdr = image.phdrs[k]
       /\ image.phdrs[k].vaddr \in Nat /\ start_vaddr \in Nat
  BY <1>1, <1>5, LoadHeader
<1>18. \A v : Touches(k, v) <=> start_vaddr <= v /\ v < end_vaddr
  BY <1>17 DEF Touches, StartVaddr, EndVaddr
<1>19. ASSUME NEW v \in Page
       PROVE  space'[v] = IF Touches(k, v)
                            THEN [paddr |-> p * G + (v - start_vaddr), flags |-> phdr.flags]
                            ELSE space[v]
  <2>1. space' = [u \in Page |->
           IF start_vaddr <= u /\ u < end_vaddr
             THEN [paddr |-> p * G + (u - start_vaddr), flags |-> phdr.flags]
             ELSE space[u]]
    BY <1>2 DEF LoadsAt
  <2> QED BY <2>1, <1>18
<1>20. MappedTo(k, s)'
  <2> SUFFICES ASSUME NEW v \in Page, Touches(k, v)
      PROVE  space'[v] = [paddr |-> s.paddr + (v - image'.phdrs[k].vaddr),
                          flags |-> image'.phdrs[k].flags]
    BY <1>16 DEF MappedTo, Page
  <2>1. space'[v] = [paddr |-> p * G + (v - start_vaddr), flags |-> phdr.flags]
    BY <1>19
  <2>2. s.paddr = p * G + (image.phdrs[k].vaddr - start_vaddr)
    BY <1>6, <1>17 DEF NewSegment, G
  <2>3. v \in Int /\ p * G \in Int
    <3>1. p \in Nat /\ TopAddress \in Nat
      BY SizesAssumption
    <3> QED BY <3>1, Multiples DEF Page
  <2>4. s.paddr + (v - image.phdrs[k].vaddr) = p * G + (v - start_vaddr)
    BY <1>17, <2>2, <2>3
  <2> QED BY <1>4, <1>17, <2>1, <2>4
<1>21. ASSUME NEW q \in Done, NEW t, MappedTo(q, t) PROVE MappedTo(q, t)'
  <2> SUFFICES ASSUME NEW v \in Page, Touches(q, v), \A r \in Done' : r > q => ~Touches(r, v)
      PROVE  space'[v] = [paddr |-> t.paddr + (v - image'.phdrs[q].vaddr),
                          flags |-> image'.phdrs[q].flags]
    BY <1>16 DEF MappedTo, Page
  <2>1. k > q /\ k \in Done'
    <3>1. q < i /\ q \in Int
      BY DEF Done, Loads
    <3> QED BY <1>5, <1>8, <1>11, <3>1
  <2>2. ~Touches(k, v)
    BY <2>1
  <2>3. space'[v] = space[v]
    BY <1>19, <2>2
  <2>4. \A r \in Done : r > q => ~Touches(r, v)
    BY <1>11
  <2>5. space[v] = [paddr |-> t.paddr + (v - image.phdrs[q].vaddr),
                    flags |-> image.phdrs[q].flags]
    BY <1>21, <2>4 DEF MappedTo
  <2> QED BY <1>4, <2>3, <2>5
<1>22. HeadersLoaded'
  <2> SUFFICES ASSUME NEW q \in Done'
      PROVE  \E t \in SegmentSet' : Placed(q, t)' /\ MappedTo(q, t)'
    BY DEF HeadersLoaded
  <2>1. CASE q = k
    BY <1>7, <1>9, <1>20, <2>1
  <2>2. CASE q \in Done
    <3>1. PICK t \in SegmentSet : Placed(q, t) /\ MappedTo(q, t)
      BY <2>2 DEF LoaderInv, HeadersLoaded
    <3>2. Placed(q, t)'
      BY <1>3, <1>4, <3>1, PlacedKept
    <3>3. MappedTo(q, t)'
      BY <1>21, <2>2, <3>1
    <3> QED BY <1>9, <3>1, <3>2, <3>3
  <2> QED BY <1>11, <2>1, <2>2
<1> QED BY <1>3, <1>12, <1>13, <1>14, <1>15, <1>22 DEF LoaderInv

\* A step that loads nothing keeps what is loaded.
LEMMA LoadedKept ==
  ASSUME LoaderInv, Undisturbed, UNCHANGED <<image, segments, space>>, Done' = Done
  PROVE  HeadersLoaded' /\ SegmentsPlaced'
<1>1. image' = image /\ segments' = segments /\ space' = space
  OBVIOUS
<1>2. SegmentSet' = SegmentSet
  BY <1>1 DEF SegmentSet
<1>3. ASSUME NEW k, NEW s, MappedTo(k, s) PROVE MappedTo(k, s)'
  <2>1. \A q, v : Touches(q, v)' = Touches(q, v)
    BY <1>1 DEF Touches
  <2> QED BY <1>1, <1>3, <2>1 DEF MappedTo, Page
<1>4. \A k, s : Placed(k, s) => Placed(k, s)'
  BY <1>1, PlacedKept
<1>5. HeadersLoaded'
  BY <1>2, <1>3, <1>4, Zenon DEF LoaderInv, HeadersLoaded
<1>6. SegmentsPlaced'
  BY <1>2, <1>4, Zenon DEF LoaderInv, SegmentsPlaced
<1> QED BY <1>5, <1>6

Named == {k \in 1..Len(image.sections) : image.sections[k].named}

\* The section that is looked for is the first of its name.
LEMMA FirstSection ==
  ASSUME image \in Images
  PROVE  LET k == SelectInSeq(image.sections, LAMBDA s : s.named)
         IN  IF Named = {} THEN k = 0
             ELSE k \in Named /\ k # 0 /\ \A m \in Named : k <= m
<1> DEFINE k == SelectInSeq(image.sections, LAMBDA s : s.named)
<1>1. k = IF Named = {} THEN 0 ELSE Min(Named)
  BY DEF SelectInSeq, Named
<1>2. Named \in SUBSET Nat /\ 0 \notin Named
  <2>1. Len(image.sections) \in Nat
    <3>1. image.sections \in Seq(Section)
      BY ImagesAssumption
    <3> QED BY <3>1, SeqElement, Zenon
  <2> QED BY <2>1 DEF Named
<1> HIDE DEF k
<1>3. CASE Named = {}
  BY <1>1, <1>3 DEF k
<1>4. CASE Named # {}
  <2>1. Min(Named) \in Named /\ \A m \in Named : Min(Named) <= m
    BY <1>2, <1>4, MinFacts
  <2>2. k \in Named /\ k # 0 /\ \A m \in Named : k <= m
    BY <1>1, <1>2, <1>4, <2>1, Zenon
  <2> QED BY <1>4, <2>2, Zenon DEF k
<1> QED BY <1>3, <1>4

Holding(a) == {k \in 1..Len(segments) : InSegment(a, segments[k])}

\* So is the segment.
LEMMA FirstSegment ==
  ASSUME segments \in Seq(LoadedSegment), NEW a, Holding(a) # {}
  PROVE  Min(Holding(a)) \in Holding(a) /\ Min(Holding(a)) # 0
<1>1. Holding(a) \in SUBSET Nat /\ 0 \notin Holding(a)
  <2>1. Len(segments) \in Nat
    BY SeqElement
  <2> QED BY <2>1 DEF Holding
<1>2. Min(Holding(a)) \in Holding(a)
  BY <1>1, MinFacts
<1> QED BY <1>1, <1>2, Zenon

\* When no header is left, all of them are done.
LEMMA AllDone ==
  ASSUME LoaderInv, i > Len(image.phdrs)
  PROVE  Done = Loads
<1>1. Len(image.phdrs) \in Nat /\ i \in Nat
  <2>1. image.phdrs \in Seq(ProgramHeader) /\ i \in Nat
    BY ImagesAssumption DEF LoaderInv, LoaderTypes
  <2> QED BY <2>1, SeqElement, Zenon
<1>2. \A k \in Loads : k < i
  BY <1>1 DEF Loads
<1> QED BY <1>2 DEF Done

\* Looking up the section finds it whenever it is in a segment.
LEMMA FindStep ==
  ASSUME LoaderInv, FindKernelInfo
  PROVE  LoaderInv' /\ Undisturbed
<1>1. /\ AllLoaded /\ image' = image /\ i' = i /\ segments' = segments /\ space' = space
      /\ memory' = memory /\ taken' = taken
  BY DEF FindKernelInfo
<1>2. Undisturbed
  BY <1>1 DEF Undisturbed
<1>3. LoaderTypes /\ image \in Images /\ segments \in Seq(LoadedSegment)
  BY DEF LoaderInv, LoaderTypes
<1>4. i > Len(image.phdrs) /\ Done = Loads /\ Done' = Done
  <2>1. i > Len(image.phdrs)
    BY <1>1 DEF AllLoaded
  <2> QED BY <1>1, <2>1, AllDone DEF Done, Loads
<1> DEFINE k == SelectInSeq(image.sections, LAMBDA s : s.named)
           a == image.sections[k].addr
           j == IF k = 0 THEN 0 ELSE SelectInSeq(segments, LAMBDA s : InSegment(a, s))
<1>5. IF j = 0 THEN stage' = "failed to locate prekernel_boot_info"
               ELSE /\ stage' = "loaded"
                    /\ kernel_info' = segments[j].paddr + (a - segments[j].vaddr)
  BY DEF FindKernelInfo
<1>6. IF Named = {} THEN k = 0 ELSE k \in Named /\ k # 0 /\ \A m \in Named : k <= m
  BY <1>3, FirstSection
<1>7. k # 0 => IF Holding(a) = {} THEN j = 0 ELSE j \in Holding(a) /\ j # 0
  <2>1. k # 0 => j = IF Holding(a) = {} THEN 0 ELSE Min(Holding(a))
    BY DEF SelectInSeq, Holding
  <2> HIDE DEF a, j, k
  <2>2. Holding(a) # {} => Min(Holding(a)) \in Holding(a) /\ Min(Holding(a)) # 0
    BY <1>3, FirstSegment
  <2> QED BY <2>1, <2>2, Zenon
<1>8. k = 0 => j = 0
  OBVIOUS
<1> HIDE DEF k, a, j
<1>9. k # 0 => a \in Nat /\ a = image.sections[k].addr
  <2> SUFFICES ASSUME k # 0 PROVE a \in Nat /\ a = image.sections[k].addr
    OBVIOUS
  <2>1. k \in 1..Len(image.sections)
    BY <1>6 DEF Named
  <2>2. image.sections \in Seq(Section)
    BY <1>3, ImagesAssumption
  <2>3. image.sections[k] \in Section
    BY <2>1, <2>2, SeqElement, Zenon
  <2> QED BY <2>3 DEF Section, a
<1> DEFINE Holds(l, x) == /\ image.phdrs[l].vaddr <= x
                          /\ x < image.phdrs[l].vaddr + image.phdrs[l].memsz
<1>10. ASSUME j = 0, k # 0, NEW l \in Loads PROVE ~Holds(l, a)
  <2>1. PICK s \in SegmentSet : Placed(l, s)
    BY <1>4 DEF LoaderInv, HeadersLoaded
  <2>2. PICK x \in 1..Len(segments) : s = segments[x]
    BY DEF SegmentSet
  <2>3. s.vaddr = image.phdrs[l].vaddr /\ s.size = image.phdrs[l].memsz
    BY <2>1 DEF Placed
  <2>4. Holding(a) = {}
    BY <1>7, <1>10
  <2>5. ~InSegment(a, s)
    BY <2>2, <2>4 DEF Holding
  <2> QED BY <2>3, <2>5 DEF InSegment
<1>11. ASSUME j # 0 PROVE \E l \in Loads : Holds(l, a) /\ memory[kernel_info'] = Contents(l, a)
  <2>1. k # 0 /\ j \in Holding(a)
    BY <1>7, <1>8, <1>11
  <2>2. PICK s : s = segments[j]
    OBVIOUS
  <2>3. s \in SegmentSet /\ InSegment(a, s)
    BY <2>1, <2>2 DEF Holding, SegmentSet
  <2>4. PICK l \in Loads : Placed(l, s)
    BY <1>4, <2>3 DEF LoaderInv, SegmentsPlaced
  <2>5. s.vaddr = image.phdrs[l].vaddr /\ s.size = image.phdrs[l].memsz
    BY <2>4 DEF Placed
  <2>6. Holds(l, a)
    BY <2>3, <2>5 DEF InSegment
  <2>7. a \in Bytes(image.phdrs[l].vaddr, image.phdrs[l].memsz)
    <3>1. l \in 1..Len(image.phdrs)
      BY DEF Loads
    <3>2. image.phdrs[l].vaddr \in Nat /\ image.phdrs[l].memsz \in Nat
      BY <1>3, <3>1, HeaderNumbers
    <3> QED BY <1>9, <2>1, <2>6, <3>2 DEF Bytes
  <2>8. memory[s.paddr + (a - image.phdrs[l].vaddr)] = Contents(l, a)
    BY <2>4, <2>7 DEF Placed
  <2>9. kernel_info' = s.paddr + (a - image.phdrs[l].vaddr)
    BY <1>5, <1>11, <2>2, <2>5
  <2> QED BY <2>6, <2>8, <2>9
<1>12. Loads' = Loads /\ \A l, x : Contents(l, x)' = Contents(l, x)
  BY <1>1 DEF Loads, Contents
<1>13. KernelInfoFound'
  <2>1. CASE j = 0
    <3>1. stage' = "failed to locate prekernel_boot_info"
      BY <1>5, <2>1
    <3>2. ASSUME NEW x \in Named, \A m \in Named : x <= m, NEW l \in Loads
          PROVE  ~Holds(l, image.sections[x].addr)
      <4>1. k \in Named /\ k # 0 /\ \A m \in Named : k <= m
        BY <1>6
      <4>2. x = k
        <5>1. x \in Int /\ k \in Int /\ x <= k /\ k <= x
          BY <3>2, <4>1 DEF Named
        <5> QED BY <5>1
      <4> QED BY <1>9, <1>10, <2>1, <4>1, <4>2
    <3> HIDE DEF Holds
    <3>3. \A x \in Named, l \in Loads :
             (x \in Named /\ \A m \in Named : x <= m) => ~Holds(l, image.sections[x].addr)
      BY <3>2, Zenon
    <3> QED BY <1>1, <1>12, <3>1, <3>3 DEF KernelInfoFound, Named, Holds
  <2>2. CASE j # 0
    <3>1. stage' = "loaded"
      BY <1>5, <2>2
    <3>2. k \in Named /\ k # 0 /\ \A m \in Named : k <= m
      BY <1>6, <1>8, <2>2
    <3>3. PICK l \in Loads : Holds(l, a) /\ memory[kernel_info'] = Contents(l, a)
      BY <1>11, <2>2
    <3>4. a = image.sections[k].addr
      BY <1>9, <3>2
    <3> QED BY <1>1, <1>12, <3>1, <3>2, <3>3, <3>4 DEF KernelInfoFound, Named
  <2> QED BY <2>1, <2>2
<1>14. LoaderTypes'
  BY <1>1, <1>3 DEF LoaderTypes
<1>15. LoaderStages'
  BY <1>1, <1>4, <1>5 DEF LoaderStages
<1>16. HeadersLoaded' /\ SegmentsPlaced'
  BY <1>1, <1>2, <1>4, LoadedKept
<1> QED BY <1>2, <1>13, <1>14, <1>15, <1>16 DEF LoaderInv

\* The steps that load nothing and find nothing.
LEMMA OtherLoaderStep ==
  ASSUME LoaderInv, Unsupported \/ StartLoading \/ SkipHeader \/ OutOfMemory \/ NoSections
  PROVE  LoaderInv' /\ Undisturbed
<1>1. /\ image' = image /\ segments' = segments /\ space' = space /\ memory' = memory
      /\ taken \subseteq taken'
  <2>1. CASE Unsupported
    BY <2>1 DEF Unsupported, info
  <2>2. CASE StartLoading
    BY <2>2 DEF StartLoading
  <2>3. CASE SkipHeader
    BY <2>3 DEF SkipHeader, info
  <2>4. CASE OutOfMemory
    BY <2>4 DEF OutOfMemory, info
  <2>5. CASE NoSections
    BY <2>5 DEF NoSections, info
  <2> QED BY <2>1, <2>2, <2>3, <2>4, <2>5
<1>2. Undisturbed
  BY <1>1 DEF Undisturbed
<1>3. i \in Nat /\ (i' = i \/ (i' = i + 1 /\ i \notin Loads))
  <2>1. i \in Nat
    BY DEF LoaderInv, LoaderTypes
  <2>2. CASE SkipHeader
    BY <2>1, <2>2 DEF SkipHeader, Loads, phdr
  <2>3. CASE Unsupported \/ StartLoading \/ OutOfMemory \/ NoSections
    BY <2>1, <2>3 DEF Unsupported, StartLoading, OutOfMemory, NoSections
  <2> QED BY <2>2, <2>3
<1>4. Done' = Done
  <2>1. CASE i' = i
    BY <1>1, <2>1 DEF Done, Loads
  <2>2. CASE i' = i + 1 /\ i \notin Loads
    BY <1>1, <2>2, DoneNext
  <2> QED BY <1>3, <2>1, <2>2
<1>5. stage' \notin {"start", "loaded", "failed to locate prekernel_boot_info"}
  <2>1. CASE Unsupported
    BY <2>1 DEF Unsupported
  <2>2. CASE StartLoading
    BY <2>2 DEF StartLoading
  <2>3. CASE SkipHeader
    BY <2>3 DEF SkipHeader, Loading
  <2>4. CASE OutOfMemory
    BY <2>4 DEF OutOfMemory
  <2>5. CASE NoSections
    BY <2>5 DEF NoSections
  <2> QED BY <2>1, <2>2, <2>3, <2>4, <2>5
<1>6. LoaderTypes'
  BY <1>1, <1>3 DEF LoaderInv, LoaderTypes
<1>7. LoaderStages' /\ KernelInfoFound'
  BY <1>5 DEF LoaderStages, KernelInfoFound
<1>8. HeadersLoaded' /\ SegmentsPlaced'
  BY <1>1, <1>2, <1>4, LoadedKept
<1> QED BY <1>2, <1>6, <1>7, <1>8 DEF LoaderInv

\* The loader keeps its invariant, and changes no byte that is not its own.
LEMMA LoaderNext ==
  ASSUME LoaderInv, Next
  PROVE  LoaderInv' /\ Undisturbed
<1>1. CASE internal_elf_handle_pt_load
  BY <1>1, LoadStep
<1>2. CASE FindKernelInfo
  BY <1>2, FindStep
<1>3. CASE Unsupported \/ StartLoading \/ SkipHeader \/ OutOfMemory \/ NoSections
  BY <1>3, OtherLoaderStep
<1> QED BY <1>1, <1>2, <1>3 DEF Next

----------------------------------------------------------------------------
(* The boot information block.                                             *)

RawSize ==
    BOOTINFO_SIZE + FRAMEBUFFER_SIZE * boot.framebuffers
      + MODULE_SIZE * Len(boot.modules) + NamesSize[Len(boot.modules)]

\* The sizes and counts that the block is made of.
LEMMA BootNumbers ==
  ASSUME boot \in BootTables
  PROVE  /\ BOOTINFO_SIZE \in Nat /\ FRAMEBUFFER_SIZE \in Nat /\ MODULE_SIZE \in Nat
         /\ ACPI_PAGES \in Nat
         /\ boot.framebuffers \in Nat /\ Len(boot.modules) \in Nat
         /\ NamesSize[0] = 0
         /\ \A k \in 0..Len(boot.modules) :
               NamesSize[k] \in Nat /\ NamesSize[k] <= NamesSize[Len(boot.modules)]
<1>1. /\ BOOTINFO_SIZE \in Nat /\ FRAMEBUFFER_SIZE \in Nat /\ MODULE_SIZE \in Nat
      /\ ACPI_PAGES \in Nat /\ boot.framebuffers \in Nat
  BY BootInfoAssumption
<1>2. Len(boot.modules) \in Nat
  BY BootInfoAssumption
<1>3. NamesSize[0] = 0 /\ \A k \in 0..Len(boot.modules) : NamesSize[k] \in Nat
  BY NamesSizeFacts DEF Sums
<1>4. ASSUME NEW k \in 0..Len(boot.modules) PROVE NamesSize[k] <= NamesSize[Len(boot.modules)]
  <2>1. Len(boot.modules) \in 0..Len(boot.modules) /\ k <= Len(boot.modules)
    BY <1>2
  <2> QED BY <2>1, NamesSizeMonotone
<1> QED BY <1>1, <1>2, <1>3, <1>4

\* Products with the size of a record.
LEMMA Products ==
  ASSUME NEW x \in Nat, NEW p \in Nat, NEW q \in Nat
  PROVE  /\ x * p \in Nat /\ x * (p + 1) = x * p + x /\ x * 0 = 0
         /\ p <= q => x * p <= x * q
<1>1. x * p \in Nat /\ x * (p + 1) = x * p + x /\ x * 0 = 0
  BY SMT
<1>2. p <= q => x * p <= x * q
  BY SMT
<1> QED BY <1>1, <1>2

\* The block has at least the size that was added up.
LEMMA BlockSizeFacts ==
  ASSUME boot \in BootTables
  PROVE  RawSize \in Nat /\ BlockPages \in Nat /\ RawSize <= BlockPages * G
         /\ BOOTINFO_SIZE <= RawSize
<1>1. /\ BOOTINFO_SIZE \in Nat /\ FRAMEBUFFER_SIZE \in Nat /\ MODULE_SIZE \in Nat
      /\ boot.framebuffers \in Nat /\ Len(boot.modules) \in Nat
      /\ NamesSize[Len(boot.modules)] \in Nat
  BY BootNumbers
<1>2. FRAMEBUFFER_SIZE * boot.framebuffers \in Nat /\ MODULE_SIZE * Len(boot.modules) \in Nat
  BY <1>1, Products
<1>3. RawSize \in Nat /\ BOOTINFO_SIZE <= RawSize
  <2> DEFINE u == FRAMEBUFFER_SIZE * boot.framebuffers
             x == MODULE_SIZE * Len(boot.modules)
             y == NamesSize[Len(boot.modules)]
  <2>1. RawSize = BOOTINFO_SIZE + u + x + y
    BY DEF RawSize
  <2>2. u \in Nat /\ x \in Nat /\ y \in Nat
    BY <1>1, <1>2
  <2> HIDE DEF u, x, y
  <2> QED BY <1>1, <2>1, <2>2
<1>4. boot_info_block_size = MATH_ALIGN_UP(RawSize)
  BY DEF boot_info_block_size, RawSize
<1> HIDE DEF RawSize
<1>5. boot_info_block_size \in Nat /\ RawSize <= boot_info_block_size
  BY <1>3, <1>4, AlignUpFacts
<1>6. /\ BlockPages \in Nat /\ boot_info_block_size <= G * BlockPages
  BY <1>5, AlignUpFacts DEF BlockPages
<1>7. BlockPages * G = G * BlockPages /\ G * BlockPages \in Nat
  BY <1>6, Multiples
<1> QED BY <1>3, <1>5, <1>6, <1>7

\* There is room for the next framebuffer's record.
LEMMA FramebufferRoom ==
  ASSUME boot \in BootTables, NEW k \in Nat \ {0}
  PROVE  /\ FramebufferAt(k) \in Nat
         /\ FramebufferAt(k) + FRAMEBUFFER_SIZE = FramebufferAt(k + 1)
         /\ k <= boot.framebuffers => FramebufferAt(k + 1) <= RawSize
<1> DEFINE f == FRAMEBUFFER_SIZE
           q == k - 1
           L == Len(boot.modules)
<1>1. /\ BOOTINFO_SIZE \in Nat /\ f \in Nat /\ MODULE_SIZE \in Nat
      /\ boot.framebuffers \in Nat /\ L \in Nat /\ NamesSize[L] \in Nat
  BY BootNumbers
<1>2. q \in Nat /\ q + 1 = k
  OBVIOUS
<1>3. FramebufferAt(k) = BOOTINFO_SIZE + f * q /\ FramebufferAt(k + 1) = BOOTINFO_SIZE + f * k
  BY DEF FramebufferAt
<1>4. RawSize = BOOTINFO_SIZE + f * boot.framebuffers + MODULE_SIZE * L + NamesSize[L]
  BY DEF RawSize
<1> HIDE DEF q, f, L
<1>5. f * q \in Nat /\ f * (q + 1) = f * q + f
  BY <1>1, <1>2, Products
<1>6. k <= boot.framebuffers => f * k <= f * boot.framebuffers
  BY <1>1, Products
<1>7. f * k \in Nat /\ f * boot.framebuffers \in Nat /\ MODULE_SIZE * L \in Nat
  BY <1>1, Products
<1>8. f * k = f * q + f
  BY <1>2, <1>5
<1>9. k <= boot.framebuffers => FramebufferAt(k + 1) <= RawSize
  BY <1>1, <1>3, <1>4, <1>6, <1>7
<1> QED BY <1>1, <1>3, <1>5, <1>8, <1>9 DEF f

\* There is room for the next module's record and name.
LEMMA ModuleRoom ==
  ASSUME boot \in BootTables, NEW k \in 1..Len(boot.modules)
  PROVE  /\ ModuleAt(k) \in Nat
         /\ ModuleAt(k) + (MODULE_SIZE + boot.modules[k].name + 1) = ModuleAt(k + 1)
         /\ ModuleAt(k + 1) <= RawSize
         /\ boot.modules[k].name \in Nat /\ boot.modules[k].size \in Nat
<1> DEFINE f == FRAMEBUFFER_SIZE * boot.framebuffers
           x == MODULE_SIZE
           q == k - 1
           L == Len(boot.modules)
<1>1. /\ BOOTINFO_SIZE \in Nat /\ FRAMEBUFFER_SIZE \in Nat /\ x \in Nat
      /\ boot.framebuffers \in Nat /\ L \in Nat
  BY BootNumbers
<1>2. q \in Nat /\ q + 1 = k /\ k \in 0..L /\ q \in 0..L /\ k <= L /\ k \in Nat
  BY <1>1
<1>3. NamesSize[k] \in Nat /\ NamesSize[q] \in Nat /\ NamesSize[L] \in Nat
      /\ NamesSize[k] <= NamesSize[L]
  <2>1. L \in 0..L
    BY <1>1
  <2> QED BY <1>2, <2>1, BootNumbers
<1>4. NamesSize[k] = NamesSize[q] + NameSize(boot.modules[k])
  BY NamesSizeFacts DEF Sums
<1>5. /\ boot.modules[k] \in [name : Nat, size : Nat]
      /\ NameSize(boot.modules[k]) = boot.modules[k].name + 1
  BY NameSizeNat
<1>6. boot.modules[k].name \in Nat /\ boot.modules[k].size \in Nat
  BY <1>5
<1>7. /\ ModuleAt(k) = BOOTINFO_SIZE + f + x * q + NamesSize[q]
      /\ ModuleAt(k + 1) = BOOTINFO_SIZE + f + x * k + NamesSize[k]
  BY <1>2 DEF ModuleAt
<1>8. RawSize = BOOTINFO_SIZE + f + x * L + NamesSize[L]
  BY DEF RawSize
<1>9. f \in Nat
  BY <1>1, Products
<1> HIDE DEF f, x, q, L
<1>10. x * q \in Nat /\ x * (q + 1) = x * q + x
  BY <1>1, <1>2, Products
<1>11. x * k <= x * L /\ x * k \in Nat /\ x * L \in Nat
  BY <1>1, <1>2, Products
<1>12. x * k = x * q + x
  BY <1>2, <1>10
<1> DEFINE u == x * q
           y == x * k
           z == x * L
           r == NamesSize[q]
           s == NamesSize[k]
           t == NamesSize[L]
           m == boot.modules[k].name
<1>13. /\ u \in Nat /\ y \in Nat /\ z \in Nat /\ y <= z /\ y = u + x
       /\ r \in Nat /\ s \in Nat /\ t \in Nat /\ s <= t
  BY <1>3, <1>10, <1>11, <1>12
<1>14. /\ ModuleAt(k) = BOOTINFO_SIZE + f + u + r
       /\ ModuleAt(k + 1) = BOOTINFO_SIZE + f + y + s
       /\ RawSize = BOOTINFO_SIZE + f + z + t
  BY <1>7, <1>8
<1>15. s = r + (m + 1) /\ m \in Nat
  BY <1>4, <1>5, <1>6
<1> HIDE DEF u, y, z, r, s, t, m
<1>16. ModuleAt(k) \in Nat /\ ModuleAt(k + 1) <= RawSize
  BY <1>1, <1>9, <1>13, <1>14
<1>17. ModuleAt(k) + (x + m + 1) = ModuleAt(k + 1)
  BY <1>1, <1>9, <1>13, <1>14, <1>15
<1> QED BY <1>6, <1>16, <1>17 DEF x, m

\* Filling a range keeps what was written elsewhere.
LEMMA FillKeeps ==
  ASSUME NEW w, NEW mem, NEW pages, NEW more, pages \subseteq more, Kept(w, mem, pages),
         NEW base \in Nat, NEW length \in Nat, NEW content,
         \A a \in Bytes(w.base, w.length) : ~(base <= a /\ a < base + length)
  PROVE  Kept(w, Filled(mem, base, length, content), more)
<1> DEFINE f == Filled(mem, base, length, content)
<1>1. DOMAIN f = DOMAIN mem
  BY DEF Filled
<1>2. ASSUME NEW a \in Bytes(w.base, w.length) PROVE a \in DOMAIN mem => f[a] = mem[a]
  BY DEF Filled
<1> HIDE DEF f
<1>3. Kept(w, f, more)
  BY <1>1, <1>2 DEF Kept
<1> QED BY <1>3 DEF f

\* What a range is filled with is there.
LEMMA FillWrites ==
  ASSUME NEW mem, NEW pages, NEW base \in Nat, NEW length \in Nat, NEW content,
         \A a \in Bytes(base, length) : a \in DOMAIN mem /\ a \div G \in pages
  PROVE  Kept(Written(base, length, content), Filled(mem, base, length, content), pages)
<1> DEFINE f == Filled(mem, base, length, content)
           w == Written(base, length, content)
<1>1. w.base = base /\ w.length = length /\ w.content = content
  BY DEF Written
<1>2. DOMAIN f = DOMAIN mem
  BY DEF Filled
<1>3. ASSUME NEW a \in Bytes(base, length) PROVE f[a] = content
  <2>1. a \in DOMAIN mem
    OBVIOUS
  <2>2. base <= a /\ a < base + length
    BY DEF Bytes
  <2> QED BY <2>1, <2>2 DEF Filled
<1> HIDE DEF f, w
<1>4. Kept(w, f, pages)
  BY <1>1, <1>2, <1>3 DEF Kept, G
<1> QED BY <1>4 DEF f, w

\* The bytes of a run of pages that is in memory.
LEMMA RunBytes ==
  ASSUME LoaderTypes, NEW p \in Nat, NEW k \in Nat, p + k <= PhysicalPages,
         NEW base \in Nat, NEW length \in Nat, p * G <= base, base + length <= (p + k) * G
  PROVE  \A a \in Bytes(base, length) : a \in DOMAIN memory /\ a \div G \in Run(p, k)
<1> SUFFICES ASSUME NEW a \in Bytes(base, length)
             PROVE  a \in DOMAIN memory /\ a \div G \in Run(p, k)
  OBVIOUS
<1>1. (p + k) * G <= PhysicalPages * G /\ (p + k) * G \in Nat /\ p * G \in Nat
  BY RunInMemory
<1>2. a \in Nat /\ base <= a /\ a < base + length
  BY DEF Bytes
<1>3. p * G <= a /\ a < (p + k) * G
  BY <1>1, <1>2
<1>4. a \div G \in Run(p, k)
  BY <1>2, <1>3, InRun
<1>5. PhysicalPages * G \in Nat
  <2>1. PhysicalPages \in Nat
    BY SizesAssumption
  <2> QED BY <2>1, Multiples
<1>6. DOMAIN memory = 0..(PhysicalPages * G - 1)
  BY DEF LoaderTypes, G
<1>7. a < PhysicalPages * G
  BY <1>1, <1>2, <1>3, <1>5
<1>8. a \in DOMAIN memory
  BY <1>2, <1>5, <1>6, <1>7
<1> QED BY <1>4, <1>8

\* What was written stays through a step that disturbs no allocated page.
LEMMA WrittenUndisturbed ==
  ASSUME WrittenKept, Undisturbed, written' = written
  PROVE  WrittenKept'
<1> SUFFICES ASSUME NEW w \in written PROVE Kept(w, memory', taken')
  BY DEF WrittenKept
<1>1. Kept(w, memory, taken)
  BY DEF WrittenKept
<1>2. ASSUME NEW a, a \in DOMAIN memory, a \div PTM_PAGE_GRANULARITY \in taken
      PROVE  /\ a \in DOMAIN memory' /\ a \div PTM_PAGE_GRANULARITY \in taken'
             /\ memory'[a] = memory[a]
  BY <1>2 DEF Undisturbed
<1> QED BY <1>1, <1>2 DEF Kept

\* Until the loader has started, it only needs the memory to be there.
LEMMA EarlyLoader ==
  ASSUME LoaderInv, stage = "start", UNCHANGED loaderVars, DOMAIN memory' = DOMAIN memory
  PROVE  LoaderInv'
<1>1. image' = image /\ stage' = stage /\ i' = i /\ segments' = segments
  BY DEF loaderVars, info
<1>2. i = 1 /\ segments = <<>>
  BY DEF LoaderInv, LoaderStages
<1>3. Done' = {} /\ SegmentSet' = {}
  <2>1. i' = 1 /\ segments' = <<>> /\ Len(segments') = 0
    BY <1>1, <1>2
  <2>2. Done' = {}
    BY <2>1 DEF Done, Loads
  <2>3. SegmentSet' = {}
    BY <2>1 DEF SegmentSet
  <2> QED BY <2>2, <2>3
<1>4. HeadersLoaded' /\ SegmentsPlaced'
  BY <1>3 DEF HeadersLoaded, SegmentsPlaced
<1>5. LoaderTypes'
  BY <1>1 DEF LoaderInv, LoaderTypes
<1>6. LoaderStages' /\ KernelInfoFound'
  BY <1>1, <1>2 DEF LoaderStages, KernelInfoFound
<1> QED BY <1>4, <1>5, <1>6 DEF LoaderInv

\* Getting pages for something else.
LEMMA TakeStep ==
  ASSUME taken \subseteq taken', memory' = memory
  PROVE  Undisturbed
  BY DEF Undisturbed

\* The block's pages, seen from a step that writes into it or takes pages.
LEMMA BlockInMemory ==
  ASSUME LoaderTypes, boot \in BootTables, NEW p \in 0..PhysicalPages, BlockAt(p)
  PROVE  /\ p \in Nat /\ BlockPages \in Nat /\ p * G \in Nat
         /\ (p + BlockPages) * G = p * G + BlockPages * G
         /\ RawSize \in Nat /\ RawSize <= BlockPages * G /\ BlockPages * G \in Nat
         /\ \A a : (a \in Nat /\ p * G <= a /\ a < (p + BlockPages) * G) =>
               a \in DOMAIN memory /\ a \div G \in taken
<1>1. p \in Nat /\ p + BlockPages <= PhysicalPages /\ Run(p, BlockPages) \subseteq taken
  BY SizesAssumption DEF BlockAt
<1>2. BlockPages \in Nat /\ RawSize \in Nat /\ RawSize <= BlockPages * G
  BY BlockSizeFacts
<1>3. /\ (p + BlockPages) * G = p * G + BlockPages * G
      /\ p * G \in Nat /\ BlockPages * G \in Nat
  BY <1>1, <1>2, Multiples
<1>4. ASSUME NEW a \in Nat, p * G <= a, a < (p + BlockPages) * G
      PROVE  a \in DOMAIN memory /\ a \div G \in taken
  <2>1. a \in Bytes(p * G, BlockPages * G)
    BY <1>3, <1>4 DEF Bytes
  <2>2. a \in DOMAIN memory /\ a \div G \in Run(p, BlockPages)
    <3>1. p * G <= p * G /\ p * G + BlockPages * G <= (p + BlockPages) * G
      BY <1>3
    <3> QED BY <1>1, <1>2, <1>3, <2>1, <3>1, RunBytes
  <2> QED BY <1>1, <2>2
<1> QED BY <1>1, <1>2, <1>3, <1>4

\* A record is written where nothing has been written, and within the block.
LEMMA RecordStep ==
  ASSUME LoaderTypes, WrittenKept, boot \in BootTables,
         NEW p \in 0..PhysicalPages, BlockAt(p), BlockOffset \in Nat,
         NEW size \in Nat, BlockOffset + size <= RawSize, NEW content
  PROVE  LET b == boot_info_block_pointer
             m == Filled(memory, b, size, content)
         IN  /\ b \in Nat /\ p * G <= b /\ b + size <= (p + BlockPages) * G
             /\ \A w \in written : Kept(w, m, taken)
             /\ Kept(Written(b, size, content), m, taken)
<1> DEFINE b == boot_info_block_pointer
           m == Filled(memory, b, size, content)
<1>1. b = p * G + BlockOffset
  BY DEF BlockAt, G
<1>2. /\ p \in Nat /\ BlockPages \in Nat /\ p * G \in Nat
      /\ (p + BlockPages) * G = p * G + BlockPages * G
      /\ RawSize \in Nat /\ RawSize <= BlockPages * G /\ BlockPages * G \in Nat
      /\ \A a : (a \in Nat /\ p * G <= a /\ a < (p + BlockPages) * G) =>
            a \in DOMAIN memory /\ a \div G \in taken
  BY BlockInMemory
<1>3. b \in Nat /\ p * G <= b /\ b + size <= (p + BlockPages) * G
  BY <1>1, <1>2
<1>4. \A a \in Bytes(b, size) : a \in DOMAIN memory /\ a \div G \in taken
  <2> SUFFICES ASSUME NEW a \in Bytes(b, size)
               PROVE  a \in Nat /\ p * G <= a /\ a < (p + BlockPages) * G
    BY <1>2
  <2>1. a \in Int /\ b <= a /\ a < b + size
    BY <1>3 DEF Bytes
  <2> HIDE DEF b
  <2> QED BY <1>2, <1>3, <2>1
<1>5. ASSUME NEW w \in written PROVE Kept(w, m, taken)
  <2>1. Kept(w, memory, taken)
    BY DEF WrittenKept
  <2>2. ASSUME NEW a \in Bytes(w.base, w.length) PROVE ~(b <= a /\ a < b + size)
    <3>1. ~(b <= a /\ a < (p + BlockPages) * G)
      BY DEF BlockAt, G
    <3>2. a \in Int
      BY <2>1 DEF Kept, Bytes
    <3>3. (p + BlockPages) * G \in Nat
      BY <1>2
    <3> HIDE DEF b
    <3> QED BY <1>3, <3>1, <3>2, <3>3
  <2> HIDE DEF b
  <2> QED BY <1>3, <2>1, <2>2, FillKeeps
<1>6. Kept(Written(b, size, content), m, taken)
  <2> HIDE DEF b
  <2> QED BY <1>3, <1>4, FillWrites
<1> QED BY <1>3, <1>5, <1>6

\* The sizes depend on the boot loader's tables only.
LEMMA SizesUnchanged ==
  ASSUME boot' = boot
  PROVE  /\ NamesSize' = NamesSize /\ BlockPages' = BlockPages
         /\ \A k : FramebufferAt(k)' = FramebufferAt(k) /\ ModuleAt(k)' = ModuleAt(k)
<1>1. NamesSize' = NamesSize
  BY DEF NamesSize, NameSize
<1>2. BlockPages' = BlockPages
  BY <1>1 DEF BlockPages, PagesFor, boot_info_block_size
<1>3. \A k : FramebufferAt(k)' = FramebufferAt(k) /\ ModuleAt(k)' = ModuleAt(k)
  BY <1>1 DEF FramebufferAt, ModuleAt
<1> QED BY <1>1, <1>2, <1>3

\* The pointer has moved over what was written last.
LEMMA BlockAdvance ==
  ASSUME LoaderTypes, WrittenKept, boot \in BootTables, boot' = boot, taken \subseteq taken',
         NEW p \in 0..PhysicalPages, BlockAt(p), BlockOffset \in Nat, NEW size \in Nat,
         boot_info_block_pointer' = boot_info_block_pointer + size,
         BlockOffset' = BlockOffset + size,
         \A w \in written' : w \notin written =>
             \A a \in Bytes(w.base, w.length) :
                 ~(boot_info_block_pointer' <= a /\ a < (p + BlockPages) * G)
  PROVE  BlockAt(p)'
<1>1. BlockPages' = BlockPages
  BY SizesUnchanged
<1>2. /\ p \in Nat /\ BlockPages \in Nat /\ p * G \in Nat
      /\ (p + BlockPages) * G = p * G + BlockPages * G /\ BlockPages * G \in Nat
  BY BlockInMemory
<1>3. boot_info_block_pointer = p * G + BlockOffset
  BY DEF BlockAt, G
<1>4. boot_info_block_pointer' = p * G + BlockOffset'
  BY <1>2, <1>3
<1>5. ASSUME NEW w \in written', NEW a \in Bytes(w.base, w.length)
      PROVE  ~(boot_info_block_pointer' <= a /\ a < (p + BlockPages) * G)
  <2>1. CASE w \notin written
    BY <2>1
  <2>2. CASE w \in written
    <3>1. ~(boot_info_block_pointer <= a /\ a < (p + BlockPages) * G)
      BY <2>2 DEF BlockAt, G
    <3>2. a \in Int
      BY <2>2 DEF WrittenKept, Kept, Bytes
    <3>3. (p + BlockPages) * G \in Nat /\ boot_info_block_pointer \in Nat
      BY <1>2, <1>3
    <3> QED BY <3>1, <3>2, <3>3
  <2> QED BY <2>1, <2>2
<1>6. p + BlockPages <= PhysicalPages /\ Run(p, BlockPages) \subseteq taken'
  BY DEF BlockAt
<1>7. Run(p, BlockPages)' = Run(p, BlockPages)
  BY <1>1 DEF Run
<1> QED BY <1>1, <1>4, <1>5, <1>6, <1>7 DEF BlockAt, G

\* The block is allocated and its head written.
LEMMA AllocateBlockStep ==
  ASSUME BootIInv, AllocateBlock
  PROVE  BootIInv'
<1>1. /\ LoaderInv /\ LoaderTypes /\ BootTypes /\ WrittenKept /\ boot_stage = "block"
      /\ stage = "start" /\ n = 1 /\ written = {} /\ boot \in BootTables
  BY DEF BootIInv, BootInv, BootTypes, LoaderInv, AllocateBlock
<1>2. boot' = boot /\ n' = n /\ UNCHANGED loaderVars /\ boot_stage' = "framebuffers"
  BY DEF AllocateBlock
<1> DEFINE base(p) == p * PTM_PAGE_GRANULARITY
<1>3. PICK p \in 0..PhysicalPages :
        /\ CanTake(p, BlockPages) /\ taken' = taken \cup Run(p, BlockPages)
        /\ memory' = Filled(memory, base(p), BOOTINFO_SIZE, Fresh)
        /\ written' = written \cup {Written(base(p), BOOTINFO_SIZE, Fresh)}
        /\ boot_info_block_pointer' = base(p) + BOOTINFO_SIZE
  BY DEF AllocateBlock, BlockPages
<1> DEFINE b == p * G
           w == Written(b, BOOTINFO_SIZE, Fresh)
<1>4. /\ memory' = Filled(memory, b, BOOTINFO_SIZE, Fresh) /\ written' = {w}
      /\ boot_info_block_pointer' = b + BOOTINFO_SIZE
  BY <1>1, <1>3 DEF G
<1>5. p \in Nat /\ PhysicalPages \in Nat /\ p + BlockPages <= PhysicalPages
  BY <1>3, SizesAssumption DEF CanTake
<1>6. /\ BlockPages \in Nat /\ RawSize \in Nat /\ RawSize <= BlockPages * G
      /\ BOOTINFO_SIZE <= RawSize /\ BOOTINFO_SIZE \in Nat
  BY <1>1, BlockSizeFacts, BootNumbers
<1>7. b \in Nat /\ (p + BlockPages) * G = b + BlockPages * G /\ BlockPages * G \in Nat
  BY <1>5, <1>6, Multiples
<1>8. b + BOOTINFO_SIZE <= (p + BlockPages) * G /\ p * G <= b
  BY <1>6, <1>7
<1> HIDE DEF b
<1>9. \A a \in Bytes(b, BOOTINFO_SIZE) : a \in DOMAIN memory /\ a \div G \in taken'
  <2>1. \A a \in Bytes(b, BOOTINFO_SIZE) : a \in DOMAIN memory /\ a \div G \in Run(p, BlockPages)
    BY <1>1, <1>5, <1>6, <1>7, <1>8, RunBytes
  <2> QED BY <1>3, <2>1
<1>10. Kept(w, memory', taken')
  BY <1>4, <1>6, <1>7, <1>9, FillWrites
<1>11. WrittenKept'
  BY <1>4, <1>10 DEF WrittenKept
<1>12. BlockPages' = BlockPages /\ FramebufferAt(1)' = FramebufferAt(1)
  BY <1>2, SizesUnchanged
<1>13. BlockOffset' = BOOTINFO_SIZE
  <2>1. BlockOffset' = FramebufferAt(1)
    BY <1>1, <1>2, <1>12 DEF BlockOffset, FramebufferAt
  <2>2. FRAMEBUFFER_SIZE \in Nat
    BY <1>1, BootNumbers
  <2>3. FRAMEBUFFER_SIZE * (1 - 1) = 0
    BY <2>2, Products
  <2> QED BY <1>6, <2>1, <2>3 DEF FramebufferAt
<1>14. BlockAt(p)'
  <2>1. boot_info_block_pointer' = p * G + BlockOffset'
    BY <1>4, <1>13 DEF b
  <2>2. ASSUME NEW u \in written', NEW a \in Bytes(u.base, u.length)
        PROVE  ~(boot_info_block_pointer' <= a /\ a < (p + BlockPages) * G)
    <3>1. u = w
      BY <1>4
    <3>2. a \in Bytes(b, BOOTINFO_SIZE)
      BY <3>1 DEF Written
    <3>3. a \in Int /\ a < b + BOOTINFO_SIZE
      BY <1>6, <1>7, <3>2 DEF Bytes
    <3> QED BY <1>4, <1>6, <1>7, <3>3
  <2>3. Run(p, BlockPages)' = Run(p, BlockPages)
    BY <1>12 DEF Run
  <2> QED BY <1>3, <1>5, <1>12, <2>1, <2>2, <2>3 DEF BlockAt, G
<1>15. BlockRoom'
  BY <1>14 DEF BlockRoom
<1>16. BootTypes'
  BY <1>1, <1>2, BootNumbers DEF BootTypes
<1>17. LoaderInv'
  <2>1. DOMAIN memory' = DOMAIN memory
    BY <1>4 DEF Filled
  <2> QED BY <1>1, <1>2, <2>1, EarlyLoader
<1>18. stage' = "start"
  BY <1>1, <1>2 DEF loaderVars
<1> QED BY <1>11, <1>15, <1>16, <1>17, <1>18 DEF BootIInv, BootInv

\* A framebuffer's record is written.
LEMMA WriteFramebufferStep ==
  ASSUME BootIInv, WriteFramebuffer
  PROVE  BootIInv'
<1>1. /\ LoaderInv /\ LoaderTypes /\ BootTypes /\ WrittenKept /\ BlockRoom
      /\ boot_stage = "framebuffers" /\ n <= boot.framebuffers
      /\ stage = "start" /\ boot \in BootTables /\ n \in Nat \ {0}
  BY DEF BootIInv, BootInv, BootTypes, LoaderInv, WriteFramebuffer
<1> DEFINE b == boot_info_block_pointer
           f == FRAMEBUFFER_SIZE
           w == Written(b, f, Fresh)
<1>2. /\ boot' = boot /\ n' = n + 1 /\ UNCHANGED loaderVars /\ boot_stage' = boot_stage
      /\ taken' = taken /\ memory' = Filled(memory, b, f, Fresh)
      /\ written' = written \cup {w} /\ boot_info_block_pointer' = b + f
  BY DEF WriteFramebuffer
<1>3. PICK p \in 0..PhysicalPages : BlockAt(p)
  BY <1>1 DEF BlockRoom
<1>4. /\ FramebufferAt(n) \in Nat /\ FramebufferAt(n) + f = FramebufferAt(n + 1)
      /\ FramebufferAt(n + 1) <= RawSize /\ f \in Nat
  BY <1>1, FramebufferRoom, BootNumbers
<1>5. BlockOffset = FramebufferAt(n) /\ BlockOffset' = FramebufferAt(n + 1)
  <2>1. PICK k : k = n + 1
    OBVIOUS
  <2>2. FramebufferAt(k)' = FramebufferAt(k)
    BY <1>2, SizesUnchanged
  <2>3. BlockOffset' = FramebufferAt(k)'
    BY <1>1, <1>2, <2>1 DEF BlockOffset, FramebufferAt
  <2> QED BY <1>1, <2>1, <2>2, <2>3 DEF BlockOffset
<1>6. /\ b \in Nat /\ p * G <= b /\ b + f <= (p + BlockPages) * G
      /\ \A u \in written : Kept(u, memory', taken')
      /\ Kept(w, memory', taken')
  <2>1. BlockOffset \in Nat /\ BlockOffset + f <= RawSize
    BY <1>4, <1>5
  <2> HIDE DEF w
  <2> QED BY <1>1, <1>2, <1>3, <1>4, <2>1, RecordStep DEF w
<1>7. WrittenKept'
  BY <1>2, <1>6 DEF WrittenKept
<1>8. BlockAt(p)'
  <2>1. ASSUME NEW u \in written', u \notin written, NEW a \in Bytes(u.base, u.length)
        PROVE  ~(boot_info_block_pointer' <= a /\ a < (p + BlockPages) * G)
    <3>1. u = w
      BY <1>2, <2>1
    <3>2. a \in Bytes(b, f)
      BY <2>1, <3>1 DEF Written
    <3>3. a \in Int /\ a < b + f
      BY <1>4, <1>6, <3>2 DEF Bytes
    <3> QED BY <1>2, <1>4, <1>6, <3>3
  <2>2. BlockOffset' = BlockOffset + f /\ BlockOffset \in Nat /\ taken \subseteq taken'
    BY <1>2, <1>4, <1>5
  <2> HIDE DEF w
  <2> QED BY <1>1, <1>2, <1>3, <1>4, <2>1, <2>2, BlockAdvance
<1>9. BlockRoom'
  BY <1>8 DEF BlockRoom
<1>10. BootTypes'
  BY <1>1, <1>2, BootNumbers DEF BootTypes
<1>11. LoaderInv'
  <2>1. DOMAIN memory' = DOMAIN memory
    BY <1>2 DEF Filled
  <2> QED BY <1>1, <1>2, <2>1, EarlyLoader
<1>12. stage' = "start"
  BY <1>1, <1>2 DEF loaderVars
<1> QED BY <1>7, <1>9, <1>10, <1>11, <1>12 DEF BootIInv, BootInv

\* The record of the module that is next, and where it goes.
LEMMA ModuleFacts ==
  ASSUME BootIInv, AtModule
  PROVE  /\ LoaderInv /\ LoaderTypes /\ BootTypes /\ WrittenKept /\ BlockRoom
         /\ boot_stage = "modules" /\ stage = "start" /\ boot \in BootTables
         /\ n \in 1..Len(boot.modules) /\ Len(boot.modules) \in Nat
         /\ module.size \in Nat /\ MODULE_SIZE + module.name + 1 \in Nat
         /\ BlockOffset = ModuleAt(n) /\ ModuleAt(n) \in Nat
         /\ ModuleAt(n) + (MODULE_SIZE + module.name + 1) = ModuleAt(n + 1)
         /\ ModuleAt(n + 1) <= RawSize
<1>1. /\ LoaderInv /\ LoaderTypes /\ BootTypes /\ WrittenKept /\ BlockRoom
      /\ boot_stage = "modules" /\ n <= Len(boot.modules)
      /\ stage = "start" /\ boot \in BootTables /\ n \in Nat \ {0}
  BY DEF BootIInv, BootInv, BootTypes, LoaderInv, AtModule
<1>2. Len(boot.modules) \in Nat /\ MODULE_SIZE \in Nat
  BY <1>1, BootNumbers
<1>3. n \in 1..Len(boot.modules)
  BY <1>1, <1>2
<1>4. module = boot.modules[n]
  BY DEF module
<1>5. /\ ModuleAt(n) \in Nat /\ ModuleAt(n + 1) <= RawSize
      /\ ModuleAt(n) + (MODULE_SIZE + boot.modules[n].name + 1) = ModuleAt(n + 1)
      /\ boot.modules[n].name \in Nat /\ boot.modules[n].size \in Nat
  BY <1>1, <1>3, ModuleRoom
<1>6. BlockOffset = ModuleAt(n)
  BY <1>1 DEF BlockOffset
<1>7. module.size \in Nat /\ MODULE_SIZE + module.name + 1 \in Nat
  <2>1. PICK m : m = boot.modules[n]
    OBVIOUS
  <2>2. m.name \in Nat /\ m.size \in Nat
    BY <1>5, <2>1
  <2>3. MODULE_SIZE + m.name + 1 \in Nat
    BY <1>2, <2>2
  <2> QED BY <1>4, <2>1, <2>2, <2>3
<1> QED BY <1>1, <1>2, <1>3, <1>4, <1>5, <1>6, <1>7

\* The next module's turn.
LEMMA NextModule ==
  ASSUME BootIInv, AtModule, boot' = boot, n' = n + 1, boot_stage' = boot_stage
  PROVE  /\ BlockOffset' = BlockOffset + (MODULE_SIZE + module.name + 1)
         /\ BootTypes'
<1>1. /\ boot_stage = "modules" /\ boot \in BootTables
      /\ n \in 1..Len(boot.modules) /\ Len(boot.modules) \in Nat
      /\ BlockOffset = ModuleAt(n)
      /\ ModuleAt(n) + (MODULE_SIZE + module.name + 1) = ModuleAt(n + 1)
  BY ModuleFacts
<1>2. PICK k : k = n + 1
  OBVIOUS
<1>3. ModuleAt(k)' = ModuleAt(k)
  BY SizesUnchanged
<1>4. BlockOffset' = ModuleAt(k)'
  BY <1>1, <1>2 DEF BlockOffset, ModuleAt
<1>5. BootTypes'
  BY <1>1 DEF BootTypes
<1> QED BY <1>1, <1>2, <1>3, <1>4, <1>5

\* Tartarus: the record and the name.
LEMMA KeepModuleStep ==
  ASSUME BootIInv, KeepModule
  PROVE  BootIInv'
<1> DEFINE b == boot_info_block_pointer
           s == MODULE_SIZE + module.name + 1
           w == Written(b, s, Fresh)
<1>1. AtModule
  BY DEF KeepModule
<1>2. /\ LoaderInv /\ LoaderTypes /\ WrittenKept /\ BlockRoom
      /\ boot_stage = "modules" /\ stage = "start" /\ boot \in BootTables
      /\ s \in Nat /\ BlockOffset \in Nat /\ BlockOffset + s <= RawSize
  <2> HIDE DEF s
  <2>1. s = MODULE_SIZE + module.name + 1
    BY DEF s
  <2> QED BY <1>1, <2>1, ModuleFacts
<1>3. /\ boot' = boot /\ n' = n + 1 /\ UNCHANGED loaderVars /\ boot_stage' = boot_stage
      /\ taken' = taken /\ memory' = Filled(memory, w.base, s, w.content)
      /\ written' = written \cup {w} /\ boot_info_block_pointer' = b + s
  BY DEF KeepModule
<1>4. memory' = Filled(memory, b, s, Fresh)
  BY <1>3 DEF Written
<1>5. BlockOffset' = BlockOffset + s /\ BootTypes'
  BY <1>1, <1>3, NextModule
<1>6. PICK p \in 0..PhysicalPages : BlockAt(p)
  BY <1>2 DEF BlockRoom
<1> HIDE DEF s
<1>7. /\ b \in Nat /\ p * G <= b /\ b + s <= (p + BlockPages) * G
      /\ \A u \in written : Kept(u, memory', taken')
      /\ Kept(w, memory', taken')
  <2> HIDE DEF w
  <2> QED BY <1>2, <1>3, <1>4, <1>6, RecordStep DEF w
<1>8. WrittenKept'
  BY <1>3, <1>7 DEF WrittenKept
<1>9. BlockAt(p)'
  <2>1. ASSUME NEW u \in written', u \notin written, NEW a \in Bytes(u.base, u.length)
        PROVE  ~(boot_info_block_pointer' <= a /\ a < (p + BlockPages) * G)
    <3>1. u = w
      BY <1>3, <2>1
    <3>2. a \in Bytes(b, s)
      BY <2>1, <3>1 DEF Written
    <3>3. a \in Int /\ a < b + s
      BY <1>2, <1>7, <3>2 DEF Bytes
    <3> QED BY <1>2, <1>3, <1>7, <3>3
  <2>2. taken \subseteq taken'
    BY <1>3
  <2> HIDE DEF w
  <2> QED BY <1>2, <1>3, <1>5, <1>6, <2>1, <2>2, BlockAdvance
<1>10. BlockRoom'
  BY <1>9 DEF BlockRoom
<1>11. LoaderInv'
  <2>1. DOMAIN memory' = DOMAIN memory
    BY <1>4 DEF Filled
  <2> QED BY <1>2, <1>3, <2>1, EarlyLoader
<1>12. stage' = "start"
  BY <1>2, <1>3 DEF loaderVars
<1> QED BY <1>5, <1>8, <1>10, <1>11, <1>12 DEF BootIInv, BootInv

\* Limine: the record and the name, and the module in pages of its own.
LEMMA CopyModuleStep ==
  ASSUME BootIInv, CopyModule
  PROVE  BootIInv'
<1> DEFINE b == boot_info_block_pointer
           s == MODULE_SIZE + module.name + 1
           z == module.size
           w == Written(b, s, Fresh)
           m == Filled(memory, b, s, Fresh)
<1>1. AtModule
  BY DEF CopyModule
<1>2. /\ LoaderInv /\ LoaderTypes /\ WrittenKept /\ BlockRoom
      /\ boot_stage = "modules" /\ stage = "start" /\ boot \in BootTables
      /\ s \in Nat /\ BlockOffset \in Nat /\ BlockOffset + s <= RawSize /\ z \in Nat
  <2> HIDE DEF s
  <2>1. s = MODULE_SIZE + module.name + 1
    BY DEF s
  <2> QED BY <1>1, <2>1, ModuleFacts
<1>3. boot' = boot /\ n' = n + 1 /\ UNCHANGED loaderVars /\ boot_stage' = boot_stage
  BY DEF CopyModule
<1>4. PICK q \in 0..PhysicalPages :
        LET data == Written(q * PTM_PAGE_GRANULARITY, z, Fresh - 1)
        IN  /\ CanTake(q, PagesFor(z))
            /\ taken' = taken \cup Run(q, PagesFor(z))
            /\ memory' = Filled(Filled(memory, w.base, s, w.content),
                                data.base, data.length, data.content)
            /\ written' = written \cup {w, data}
            /\ boot_info_block_pointer' = b + s
  BY DEF CopyModule
<1> DEFINE e == q * G
           d == Written(e, z, Fresh - 1)
<1>5. /\ taken' = taken \cup Run(q, PagesFor(z))
      /\ memory' = Filled(m, e, z, Fresh - 1)
      /\ written' = written \cup {w, d}
      /\ boot_info_block_pointer' = b + s
  BY <1>4 DEF Written, G
<1>6. /\ q \in Nat /\ q + PagesFor(z) <= PhysicalPages
      /\ Run(q, PagesFor(z)) \cap taken = {}
  BY <1>4, SizesAssumption DEF CanTake
<1>7. BlockOffset' = BlockOffset + s /\ BootTypes'
  BY <1>1, <1>3, NextModule
<1>8. PICK p \in 0..PhysicalPages : BlockAt(p)
  BY <1>2 DEF BlockRoom
<1> HIDE DEF s, z
<1>9. PagesFor(z) \in Nat /\ z <= G * PagesFor(z)
  BY <1>2, AlignUpFacts
<1>10. e \in Nat /\ (q + PagesFor(z)) * G = e + PagesFor(z) * G
       /\ PagesFor(z) * G = G * PagesFor(z) /\ G * PagesFor(z) \in Nat
  BY <1>6, <1>9, Multiples
<1>11. q * G <= e /\ e + z <= (q + PagesFor(z)) * G
  BY <1>2, <1>9, <1>10
<1> HIDE DEF e
<1>12. \A a \in Bytes(e, z) : a \in DOMAIN memory /\ a \div G \in Run(q, PagesFor(z))
  BY <1>2, <1>6, <1>9, <1>10, <1>11, RunBytes
<1>13. /\ b \in Nat /\ p * G <= b /\ b + s <= (p + BlockPages) * G
       /\ \A u \in written : Kept(u, m, taken)
       /\ Kept(w, m, taken)
  <2> HIDE DEF w, m
  <2> QED BY <1>2, <1>8, RecordStep DEF w, m
<1>14. ASSUME NEW u, Kept(u, m, taken) PROVE Kept(u, memory', taken')
  <2>1. ASSUME NEW a \in Bytes(u.base, u.length) PROVE ~(e <= a /\ a < e + z)
    <3>1. SUFFICES ASSUME e <= a, a < e + z PROVE FALSE
      OBVIOUS
    <3>2. a \in Int /\ a \div G \in taken
      BY <1>14 DEF Kept, Bytes, G
    <3>3. a \in Bytes(e, z)
      BY <1>2, <1>10, <3>1, <3>2 DEF Bytes
    <3> QED BY <1>6, <1>12, <3>2, <3>3
  <2>2. taken \subseteq taken'
    BY <1>5
  <2> HIDE DEF m
  <2> QED BY <1>2, <1>5, <1>10, <1>14, <2>1, <2>2, FillKeeps
<1>15. Kept(d, memory', taken')
  <2>1. DOMAIN m = DOMAIN memory
    BY DEF Filled
  <2>2. \A a \in Bytes(e, z) : a \in DOMAIN m /\ a \div G \in taken'
    BY <1>5, <1>12, <2>1
  <2> HIDE DEF m
  <2> QED BY <1>2, <1>5, <1>10, <2>2, FillWrites
<1>16. WrittenKept'
  <2> SUFFICES ASSUME NEW u \in written' PROVE Kept(u, memory', taken')
    BY DEF WrittenKept
  <2> HIDE DEF w, d, m
  <2> QED BY <1>5, <1>13, <1>14, <1>15
<1>17. BlockAt(p)'
  <2>1. ASSUME NEW u \in written', u \notin written, NEW a \in Bytes(u.base, u.length)
        PROVE  ~(boot_info_block_pointer' <= a /\ a < (p + BlockPages) * G)
    <3>1. CASE u = w
      <4>1. a \in Bytes(b, s)
        BY <2>1, <3>1 DEF Written
      <4>2. a \in Int /\ a < b + s
        BY <1>2, <1>13, <4>1 DEF Bytes
      <4> QED BY <1>2, <1>5, <1>13, <4>2
    <3>2. CASE u = d
      <4>1. a \in Bytes(e, z)
        BY <2>1, <3>2 DEF Written
      <4>2. a \in Nat /\ a \div G \notin taken
        <5>1. a \in Nat
          BY <1>2, <1>10, <4>1 DEF Bytes
        <5> QED BY <1>6, <1>12, <4>1, <5>1
      <4>3. ~(p * G <= a /\ a < (p + BlockPages) * G)
        BY <1>2, <1>8, <4>2, BlockInMemory
      <4>4. p * G \in Nat /\ p * G <= b
        BY <1>2, <1>8, <1>13, BlockInMemory
      <4> QED BY <1>2, <1>5, <1>13, <4>2, <4>3, <4>4
    <3> HIDE DEF w, d
    <3> QED BY <1>5, <2>1, <3>1, <3>2
  <2>2. taken \subseteq taken'
    BY <1>5
  <2> HIDE DEF w, d, m
  <2> QED BY <1>2, <1>3, <1>5, <1>7, <1>8, <2>1, <2>2, BlockAdvance
<1>18. BlockRoom'
  BY <1>17 DEF BlockRoom
<1>19. LoaderInv'
  <2>1. DOMAIN memory' = DOMAIN memory
    BY <1>5 DEF Filled
  <2> QED BY <1>2, <1>3, <2>1, EarlyLoader
<1>20. stage' = "start"
  BY <1>2, <1>3 DEF loaderVars
<1> QED BY <1>7, <1>16, <1>18, <1>19, <1>20 DEF BootIInv, BootInv

\* The steps between the parts.
LEMMA BetweenSteps ==
  ASSUME BootIInv, StartModules \/ EndModules \/ SetupAcpi \/ EarlyOutOfMemory
  PROVE  BootIInv'
<1>1. /\ UNCHANGED loaderVars /\ memory' = memory /\ boot' = boot /\ written' = written
      /\ boot_info_block_pointer' = boot_info_block_pointer
      /\ boot_stage \notin {"load", "failed to setup acpi tables", "out of memory"}
  <2>1. CASE StartModules
    BY <2>1 DEF StartModules
  <2>2. CASE EndModules
    BY <2>2 DEF EndModules
  <2>3. CASE SetupAcpi
    BY <2>3 DEF SetupAcpi
  <2>4. CASE EarlyOutOfMemory
    BY <2>4 DEF EarlyOutOfMemory, AtModule
  <2> QED BY <2>1, <2>2, <2>3, <2>4
<1>2. taken \subseteq taken'
  BY DEF StartModules, EndModules, SetupAcpi, EarlyOutOfMemory
<1>3. LoaderInv /\ BootTypes /\ WrittenKept /\ BlockRoom /\ stage = "start" /\ stage' = "start"
  BY <1>1 DEF BootIInv, BootInv, loaderVars
<1>4. LoaderInv'
  BY <1>1, <1>3, EarlyLoader
<1>5. WrittenKept'
  BY <1>1, <1>2, <1>3, TakeStep, WrittenUndisturbed
<1>6. CASE StartModules
  <2>1. /\ boot_stage = "framebuffers" /\ n > boot.framebuffers /\ n' = 1
        /\ boot_stage' = "modules" /\ taken' = taken
    BY <1>6 DEF StartModules
  <2>2. boot \in BootTables /\ n \in Nat /\ n <= boot.framebuffers + 1
    BY <1>3, <2>1 DEF BootTypes
  <2>3. /\ boot.framebuffers \in Nat /\ Len(boot.modules) \in Nat /\ MODULE_SIZE \in Nat
        /\ FRAMEBUFFER_SIZE \in Nat /\ NamesSize[0] = 0 /\ BOOTINFO_SIZE \in Nat
    BY <2>2, BootNumbers
  <2>4. n - 1 = boot.framebuffers
    BY <2>1, <2>2, <2>3
  <2>5. BlockPages' = BlockPages /\ ModuleAt(1)' = ModuleAt(1)
    BY <1>1, SizesUnchanged
  <2>6. BlockOffset' = ModuleAt(1)
    BY <2>1, <2>5 DEF BlockOffset, ModuleAt
  <2>7. ModuleAt(1) = BOOTINFO_SIZE + FRAMEBUFFER_SIZE * boot.framebuffers
    <3>1. MODULE_SIZE * 0 = 0 /\ FRAMEBUFFER_SIZE * boot.framebuffers \in Nat
      BY <2>3, Products
    <3> QED BY <2>3, <3>1 DEF ModuleAt
  <2>8. BlockOffset = BOOTINFO_SIZE + FRAMEBUFFER_SIZE * boot.framebuffers
    BY <2>1, <2>4 DEF BlockOffset, FramebufferAt
  <2>9. PICK p \in 0..PhysicalPages : BlockAt(p)
    BY <1>3, <2>1 DEF BlockRoom
  <2>10. Run(p, BlockPages)' = Run(p, BlockPages)
    BY <2>5 DEF Run
  <2>11. BlockAt(p)'
    BY <1>1, <2>1, <2>5, <2>6, <2>7, <2>8, <2>9, <2>10 DEF BlockAt
  <2>12. BlockRoom'
    BY <2>11 DEF BlockRoom
  <2>13. BootTypes'
    BY <1>1, <2>1, <2>2, <2>3 DEF BootTypes
  <2> QED BY <1>3, <1>4, <1>5, <2>12, <2>13 DEF BootIInv, BootInv
<1>7. CASE EndModules \/ SetupAcpi \/ EarlyOutOfMemory
  <2>1. boot_stage' \in {"acpi", "load", "failed to setup acpi tables", "out of memory"} /\ n' = n
    <3>1. CASE EndModules
      BY <3>1 DEF EndModules
    <3>2. CASE SetupAcpi
      BY <3>2 DEF SetupAcpi
    <3>3. CASE EarlyOutOfMemory
      BY <3>3 DEF EarlyOutOfMemory
    <3> QED BY <1>7, <3>1, <3>2, <3>3
  <2>2. BlockRoom'
    BY <2>1 DEF BlockRoom
  <2>3. BootTypes'
    BY <1>1, <1>3, <2>1 DEF BootTypes
  <2> QED BY <1>3, <1>4, <1>5, <2>2, <2>3 DEF BootIInv, BootInv
<1> QED BY <1>6, <1>7

\* Loading the kernel disturbs nothing that was written.
LEMMA LoadKernelStep ==
  ASSUME BootIInv, LoadKernel
  PROVE  BootIInv'
<1>1. LoaderInv /\ BootTypes /\ WrittenKept /\ boot_stage = "load" /\ Next /\ UNCHANGED bootVars
  BY DEF BootIInv, BootInv, LoadKernel
<1>2. LoaderInv' /\ Undisturbed
  BY <1>1, LoaderNext
<1>3. boot' = boot /\ boot_stage' = boot_stage /\ n' = n /\ written' = written
  BY <1>1 DEF bootVars
<1>4. WrittenKept'
  BY <1>1, <1>2, <1>3, WrittenUndisturbed
<1>5. BootTypes' /\ BlockRoom' /\ boot_stage' = "load"
  BY <1>1, <1>3 DEF BootTypes, BlockRoom
<1> QED BY <1>2, <1>4, <1>5 DEF BootIInv, BootInv

\* The invariant holds at the start.
LEMMA BootIInvInit == BootInit => BootIInv
<1> SUFFICES ASSUME BootInit PROVE BootIInv
  OBVIOUS
<1>1. /\ image \in Images /\ stage = "start" /\ i = 1 /\ segments = <<>>
      /\ memory = [a \in 0..(PhysicalPages * PTM_PAGE_GRANULARITY - 1) |-> Unknown]
  BY DEF BootInit, Init
<1>2. boot \in BootTables /\ boot_stage = "block" /\ n = 1 /\ written = {}
  BY DEF BootInit
<1>3. Done = {} /\ SegmentSet = {}
  <2>1. Len(segments) = 0
    BY <1>1
  <2>2. Done = {}
    BY <1>1 DEF Done, Loads
  <2>3. SegmentSet = {}
    BY <2>1 DEF SegmentSet
  <2> QED BY <2>2, <2>3
<1>4. HeadersLoaded /\ SegmentsPlaced
  BY <1>3 DEF HeadersLoaded, SegmentsPlaced
<1>5. LoaderTypes
  BY <1>1 DEF LoaderTypes
<1>6. LoaderStages /\ KernelInfoFound
  BY <1>1 DEF LoaderStages, KernelInfoFound
<1>7. BootTypes /\ WrittenKept /\ BlockRoom
  BY <1>2 DEF BootTypes, WrittenKept, BlockRoom
<1> QED BY <1>1, <1>4, <1>5, <1>6, <1>7 DEF BootIInv, BootInv, LoaderInv

\* A step that changes nothing.
LEMMA BootStutter ==
  ASSUME BootIInv, UNCHANGED <<vars, bootVars>>
  PROVE  BootIInv'
<1>1. /\ image' = image /\ stage' = stage /\ i' = i /\ segments' = segments
      /\ kernel_info' = kernel_info /\ space' = space /\ memory' = memory /\ taken' = taken
      /\ boot' = boot /\ boot_stage' = boot_stage /\ n' = n /\ written' = written
      /\ boot_info_block_pointer' = boot_info_block_pointer
  BY DEF vars, bootVars, info
<1>2. LoaderInv /\ BootTypes /\ WrittenKept /\ BlockRoom
      /\ (boot_stage # "load" => stage = "start")
  BY DEF BootIInv, BootInv
<1>3. Undisturbed
  BY <1>1 DEF Undisturbed
<1>4. HeadersLoaded' /\ SegmentsPlaced'
  <2>1. Done' = Done
    BY <1>1 DEF Done, Loads
  <2> QED BY <1>1, <1>2, <1>3, <2>1, LoadedKept
<1>5. LoaderTypes' /\ LoaderStages'
  BY <1>1, <1>2 DEF LoaderInv, LoaderTypes, LoaderStages
<1>6. KernelInfoFound'
  <2>1. Loads' = Loads /\ \A l, x : Contents(l, x)' = Contents(l, x)
    BY <1>1 DEF Loads, Contents
  <2> QED BY <1>1, <1>2, <2>1 DEF LoaderInv, KernelInfoFound
<1>7. WrittenKept'
  BY <1>1, <1>2, <1>3, WrittenUndisturbed
<1>8. BlockRoom'
  <2>1. BlockPages' = BlockPages /\ \A k : FramebufferAt(k)' = FramebufferAt(k) /\ ModuleAt(k)' = ModuleAt(k)
    BY <1>1, SizesUnchanged
  <2>2. BlockOffset' = BlockOffset
    BY <1>1, <2>1 DEF BlockOffset
  <2>3. \A p : BlockAt(p)' = BlockAt(p)
    BY <1>1, <2>1, <2>2 DEF BlockAt, Run
  <2> QED BY <1>1, <1>2, <2>3 DEF BlockRoom
<1>9. BootTypes'
  BY <1>1, <1>2 DEF BootTypes
<1> QED BY <1>1, <1>2, <1>4, <1>5, <1>6, <1>7, <1>8, <1>9 DEF BootIInv, BootInv, LoaderInv

\* Every step keeps the invariant.
LEMMA BootIInvNext == BootIInv /\ [BootNext]_<<vars, bootVars>> => BootIInv'
<1> SUFFICES ASSUME BootIInv, [BootNext]_<<vars, bootVars>> PROVE BootIInv'
  OBVIOUS
<1>1. CASE AllocateBlock
  BY <1>1, AllocateBlockStep
<1>2. CASE WriteFramebuffer
  BY <1>2, WriteFramebufferStep
<1>3. CASE CopyModule
  BY <1>3, CopyModuleStep
<1>4. CASE KeepModule
  BY <1>4, KeepModuleStep
<1>5. CASE StartModules \/ EndModules \/ SetupAcpi \/ EarlyOutOfMemory
  BY <1>5, BetweenSteps
<1>6. CASE LoadKernel
  BY <1>6, LoadKernelStep
<1>7. CASE UNCHANGED <<vars, bootVars>>
  BY <1>7, BootStutter
<1> QED BY <1>1, <1>2, <1>3, <1>4, <1>5, <1>6, <1>7 DEF BootNext

----------------------------------------------------------------------------
(* The theorems.                                                           *)

\* The invariant gives what was written.
LEMMA BootInfoIntactHolds == BootIInv => BootInfoIntact
<1> SUFFICES ASSUME BootIInv, NEW w \in written,
                    NEW a \in w.base..(w.base + w.length - 1)
             PROVE  /\ a \in DOMAIN memory /\ memory[a] = w.content
                    /\ a \div PTM_PAGE_GRANULARITY \in taken
  BY DEF BootInfoIntact
<1>1. Kept(w, memory, taken)
  BY DEF BootIInv, BootInv, WrittenKept
<1> QED BY <1>1 DEF Kept, Bytes

\* The invariant gives the loaded image.
LEMMA ImageLoadedHolds == BootIInv => ImageLoaded
<1> SUFFICES ASSUME BootIInv, stage = "loaded", NEW k \in Loads,
                    NEW a \in Bytes(image.phdrs[k].vaddr, image.phdrs[k].memsz),
                    \A m \in Loads : m > k => ~Touches(m, MATH_FLOOR(a))
             PROVE  /\ space[MATH_FLOOR(a)].flags = image.phdrs[k].flags
                    /\ memory[space[MATH_FLOOR(a)].paddr + (a - MATH_FLOOR(a))] = Contents(k, a)
  BY DEF ImageLoaded, Bytes
<1>1. LoaderInv /\ image \in Images /\ segments \in Seq(LoadedSegment)
  BY DEF BootIInv, LoaderInv, LoaderTypes
<1>2. Done = Loads
  BY <1>1, AllDone DEF LoaderInv, LoaderStages
<1>3. PICK s \in SegmentSet : Placed(k, s) /\ MappedTo(k, s)
  BY <1>1, <1>2 DEF LoaderInv, HeadersLoaded
<1>4. s.paddr \in Nat
  <2>1. s \in LoadedSegment
    <3>1. PICK x \in 1..Len(segments) : s = segments[x]
      BY DEF SegmentSet
    <3> QED BY <1>1, <3>1, SeqElement, Zenon
  <2> QED BY <2>1 DEF LoadedSegment
<1>5. k \in 1..Len(image.phdrs)
  BY DEF Loads
<1> DEFINE v == MATH_FLOOR(a)
<1>6. a \in Nat /\ v \in Page /\ v <= a /\ Touches(k, v)
  BY <1>1, <1>5, PageOfByte
<1>7. image.phdrs[k].vaddr \in Nat
  BY <1>1, <1>5, HeaderNumbers
<1>8. space[v] = [paddr |-> s.paddr + (v - image.phdrs[k].vaddr), flags |-> image.phdrs[k].flags]
  BY <1>2, <1>3, <1>6 DEF MappedTo
<1>9. v \in Int
  BY <1>6, SizesAssumption DEF Page
<1> HIDE DEF v
<1>10. space[v].paddr + (a - v) = s.paddr + (a - image.phdrs[k].vaddr)
  <2>1. space[v].paddr = s.paddr + (v - image.phdrs[k].vaddr)
    BY <1>8
  <2> QED BY <1>4, <1>6, <1>7, <1>9, <2>1
<1>11. memory[s.paddr + (a - image.phdrs[k].vaddr)] = Contents(k, a)
  BY <1>3 DEF Placed
<1>12. space[v].flags = image.phdrs[k].flags
  BY <1>8
<1> QED BY <1>10, <1>11, <1>12 DEF v

\* Nothing that was written for the kernel is ever lost: for every boot loader's
\* tables and all sizes of records and pages, every store through the unchecked
\* pointer into the block stays inside what was computed ahead (limine.c, tartarus.c).
THEOREM BootInfoAlwaysIntact == BootSpec => []BootInfoIntact
  BY BootIInvInit, BootIInvNext, BootInfoIntactHolds, PTL DEF BootSpec

\* Every byte of a loaded image is where it was linked to be, with the rights of its
\* segment, in whatever order and on whatever shared pages the headers of the image
\* put their segments (internal_elf_handle_pt_load).
THEOREM ImageAlwaysLoaded == BootSpec => []ImageLoaded
  BY BootIInvInit, BootIInvNext, ImageLoadedHolds, PTL DEF BootSpec

\* elfldr_load_kernel finds the kernel's own section exactly when a segment holds it,
\* and what it points at is what the image has there.
THEOREM KernelInfoAlwaysFound == BootSpec => []KernelInfoFound
<1>1. BootIInv => KernelInfoFound
  BY DEF BootIInv, LoaderInv
<1> QED BY BootIInvInit, BootIInvNext, <1>1, PTL DEF BootSpec
=============================================================================
