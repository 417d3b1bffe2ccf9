---------------------------- MODULE PagingProofs ----------------------------
(***************************************************************************)
(* What the proofs about both architectures' page tables have in common:   *)
(* arithmetic of blocks of addresses, which entry of a table translates an *)
(* address, and what storing one entry does to the walks of all addresses. *)
(* Nothing here depends on the number of levels or on the sizes of pages.  *)
(***************************************************************************)
EXTENDS Paging, TLAPS

----------------------------------------------------------------------------
(* Arithmetic.                                                             *)

\* A quotient and its remainder.
LEMMA Divide ==
  ASSUME NEW a \in Nat, NEW s \in Nat \ {0}
  PROVE  /\ a \div s \in Nat /\ a % s \in Nat /\ a % s < s
         /\ a = s * (a \div s) + (a % s)
<1>1. a \div s \in Nat
  BY SMT
<1>2. a % s \in Nat /\ a % s < s
  BY SMT
<1>3. a = s * (a \div s) + (a % s)
  BY SMT
<1> QED BY <1>1, <1>2, <1>3

\* A number without remainder is a product.
LEMMA Factor ==
  ASSUME NEW a \in Nat, NEW s \in Nat \ {0}, a % s = 0
  PROVE  \E n \in Nat : a = s * n
<1>1. a \div s \in Nat /\ a = s * (a \div s)
  BY Divide
<1> QED BY <1>1

\* The quotient and the remainder of a product and a rest.
LEMMA Quotient ==
  ASSUME NEW s \in Nat \ {0}, NEW q \in Nat, NEW r \in Nat, r < s
  PROVE  (s * q + r) \div s = q /\ (s * q + r) % s = r
  BY SMT

\* A product has no remainder.
LEMMA MultipleOf ==
  ASSUME NEW s \in Nat \ {0}, NEW q \in Nat
  PROVE  s * q \in Nat /\ (s * q) % s = 0
  BY SMT

\* A multiple below the next one is no larger.
LEMMA Between ==
  ASSUME NEW s \in Nat \ {0}, NEW p \in Nat, NEW q \in Nat, s * p < s * (q + 1)
  PROVE  p <= q
  BY SMT

\* The addresses of a block of s addresses are those with the same quotient.
LEMMA SameBlock ==
  ASSUME NEW s \in Nat \ {0}, NEW a \in Nat, NEW b \in Nat, b % s = 0
  PROVE  /\ (a \div s = b \div s) <=> (b <= a /\ a < b + s)
         /\ a \div s = b \div s => a % s = a - b
<1> DEFINE p == a \div s
           q == b \div s
           r == a % s
<1>1. p \in Nat /\ q \in Nat /\ r \in Nat /\ r < s /\ a = s * p + r /\ b = s * q
  BY Divide
<1>2. s * p \in Nat /\ s * q \in Nat /\ s * (p + 1) = s * p + s /\ s * (q + 1) = s * q + s
  BY <1>1, SMT
<1>3. ASSUME b <= a, a < b + s PROVE p = q
  <2>1. s * p < s * (q + 1)
    BY <1>1, <1>2, <1>3, SMT
  <2>2. s * q < s * (p + 1)
    BY <1>1, <1>2, <1>3, SMT
  <2> QED BY <1>1, <2>1, <2>2, Between, SMT
<1>4. ASSUME p = q PROVE b <= a /\ a < b + s /\ r = a - b
  BY <1>1, <1>2, <1>4, SMT
<1> QED BY <1>3, <1>4

\* Two addresses of a block are in the same block of any multiple of its size.
LEMMA Nested ==
  ASSUME NEW s \in Nat \ {0}, NEW t \in Nat \ {0}, t % s = 0,
         NEW a \in Nat, NEW b \in Nat, a \div s = b \div s
  PROVE  a \div t = b \div t
<1>1. PICK n \in Nat : t = s * n
  BY Factor
<1>2. ASSUME NEW x \in Nat PROVE x \div t = (x \div s) \div n
  <2> DEFINE q == x \div s
             r == x % s
             p == q \div n
             u == q % n
  <2>0. n \in Nat \ {0}
    BY <1>1, SMT
  <2>1. q \in Nat /\ r \in Nat /\ r < s /\ x = s * q + r
    BY Divide
  <2>2. p \in Nat /\ u \in Nat /\ u < n /\ q = n * p + u
    BY <2>0, <2>1, Divide
  <2> HIDE DEF q, r, p, u
  <2>3. x = t * p + (s * u + r)
    <3>1. s * q = s * (n * p) + s * u
      BY <2>0, <2>2, SMT
    <3>2. s * (n * p) = (s * n) * p
      BY <2>0, <2>2, SMT
    <3> QED BY <1>1, <2>0, <2>1, <2>2, <3>1, <3>2, SMT
  <2>4. s * u + r \in Nat /\ s * u + r < t
    <3>1. s * (u + 1) <= s * n
      BY <2>0, <2>2, SMT
    <3>2. s * (u + 1) = s * u + s /\ s * u \in Nat
      BY <2>0, <2>2, SMT
    <3> QED BY <1>1, <2>0, <2>1, <2>2, <3>1, <3>2, SMT
  <2>5. (t * p + (s * u + r)) \div t = p
    BY <2>2, <2>4, Quotient
  <2> QED BY <2>3, <2>5 DEF p, q
<1> QED BY <1>2

\* Sums and differences of multiples, and the gap between two of them.
LEMMA Multiples ==
  ASSUME NEW s \in Nat \ {0}, NEW a \in Nat, NEW b \in Nat, a % s = 0, b % s = 0
  PROVE  /\ (a + b) % s = 0
         /\ a >= b => (a - b) % s = 0
         /\ a > b => a >= b + s
<1> DEFINE p == a \div s
           q == b \div s
<1>1. p \in Nat /\ q \in Nat /\ a = s * p /\ b = s * q
  BY Divide
<1> HIDE DEF p, q
<1>2. a + b = s * (p + q) + 0
  BY <1>1, SMT
<1>3. (s * (p + q) + 0) % s = 0
  BY <1>1, Quotient
<1>4. ASSUME a >= b PROVE (a - b) % s = 0
  <2>1. p >= q
    <3>1. s * q < s * (p + 1)
      BY <1>1, <1>4, SMT
    <3> QED BY <1>1, <3>1, Between
  <2>2. a - b = s * (p - q) + 0 /\ p - q \in Nat
    BY <1>1, <2>1, SMT
  <2>3. (s * (p - q) + 0) % s = 0
    BY <2>2, Quotient
  <2> QED BY <2>2, <2>3
<1>5. ASSUME a > b PROVE a >= b + s
  <2>1. p > q
    BY <1>1, <1>5, SMT
  <2>2. s * (q + 1) <= s * p
    BY <1>1, <2>1, SMT
  <2>3. s * (q + 1) = s * q + s
    BY <1>1, SMT
  <2> QED BY <1>1, <2>2, <2>3, SMT
<1> QED BY <1>2, <1>3, <1>4, <1>5

\* Being a multiple is transitive.
LEMMA MultipleOfMultiple ==
  ASSUME NEW s \in Nat \ {0}, NEW t \in Nat \ {0}, t % s = 0, NEW a \in Nat, a % t = 0
  PROVE  a % s = 0
<1>1. PICK n \in Nat : t = s * n
  BY Factor
<1>2. PICK p \in Nat : a = t * p
  BY Factor
<1>3. a = s * (n * p) + 0 /\ n * p \in Nat
  BY <1>1, <1>2, SMT
<1>4. (s * (n * p) + 0) % s = 0
  BY <1>3, Quotient
<1> QED BY <1>3, <1>4

\* Page sizes are positive, and each is a multiple of every smaller one.
LEMMA SizeFacts ==
  ASSUME NEW l \in Level
  PROVE  /\ PageSize[l] \in Nat \ {0}
         /\ PageSize[l] % PTM_PAGE_GRANULARITY = 0
         /\ PTM_PAGE_GRANULARITY \in Nat \ {0} /\ 1 \in Level
         /\ \A m \in Level : l <= m => PageSize[m] % PageSize[l] = 0
<1>1. \A m \in Level : PageSize[m] \in Nat \ {0}
  BY PageSizeAssumption
<1>2. \A m \in Level : PageSize[m] % PageSize[m] = 0
  <2> TAKE m \in Level
  <2>1. PICK s \in Nat \ {0} : s = PageSize[m]
    BY <1>1
  <2>2. s % s = 0
    BY SMT
  <2> QED BY <2>1, <2>2
<1>3. 1 \in Level /\ l >= 1
  BY LevelAssumption DEF Level
<1>4. \A k, m \in Level : k <= m => PageSize[m] % PageSize[k] = 0
  <2> TAKE k, m \in Level
  <2>1. CASE k = m
    BY <1>2, <2>1
  <2>2. CASE k # m
    BY <2>2, PageSizeAssumption, LevelAssumption DEF Level
  <2> QED BY <2>1, <2>2
<1> QED BY <1>1, <1>3, <1>4 DEF PTM_PAGE_GRANULARITY

\* The address space is made of whole pages of every size.
LEMMA TopMultiple ==
  ASSUME NEW l \in Level
  PROVE  TopAddress \in Nat /\ TopAddress % PageSize[l] = 0
<1>1. LevelCount \in Level /\ l <= LevelCount
  BY LevelAssumption DEF Level
<1>2. /\ PageSize[l] \in Nat \ {0} /\ PageSize[LevelCount] \in Nat \ {0}
      /\ PageSize[LevelCount] % PageSize[l] = 0
  BY <1>1, SizeFacts
<1> QED BY <1>2, TopAssumption, MultipleOfMultiple

\* Where the whole pages that a range touches start.
FloorPage(base) == base - (base % PTM_PAGE_GRANULARITY)
\* The length of those pages.
CeilPages(base, size) ==
    LET length == size + (base % PTM_PAGE_GRANULARITY)
    IN  IF length % PTM_PAGE_GRANULARITY = 0 THEN length
        ELSE length + PTM_PAGE_GRANULARITY - (length % PTM_PAGE_GRANULARITY)

\* Rounding to whole pages covers the range, by less than a page more at its end,
\* and stays within the address space.
LEMMA WholePages ==
  ASSUME NEW base \in Nat, NEW size \in Nat, NEW offset \in Nat,
         offset + base + size <= TopAddress
  PROVE  /\ FloorPage(base) \in Nat /\ CeilPages(base, size) \in Nat
         /\ FloorPage(base) % PTM_PAGE_GRANULARITY = 0
         /\ CeilPages(base, size) % PTM_PAGE_GRANULARITY = 0
         /\ FloorPage(base) <= base
         /\ base + size <= FloorPage(base) + CeilPages(base, size)
         /\ FloorPage(base) + CeilPages(base, size) < base + size + PTM_PAGE_GRANULARITY
         /\ (offset + FloorPage(base)) % PTM_PAGE_GRANULARITY = 0 =>
               offset + FloorPage(base) + CeilPages(base, size) <= TopAddress
<1>1. PICK g \in Nat \ {0} : g = PTM_PAGE_GRANULARITY /\ TopAddress % g = 0
  BY SizeFacts, TopMultiple, LevelAssumption DEF Level, PTM_PAGE_GRANULARITY
<1>0. PICK o, length, short, n :
        /\ o = base % g /\ length = size + o /\ short = length % g
        /\ n = IF short = 0 THEN length ELSE length + g - short
  OBVIOUS
<1>2. TopAddress \in Nat
  BY TopAssumption
<1>3. PICK d \in Nat : o \in Nat /\ o < g /\ base = g * d + o
  BY <1>1, <1>0, Divide
<1>4. g * d \in Nat /\ (g * d) % g = 0
  BY MultipleOf, Zenon
<1>5. base - o = g * d
  BY <1>3, <1>4, SMT
<1>6. length \in Nat /\ base - o \in Nat /\ offset + (base - o) \in Nat
      /\ offset + (base - o) + length <= TopAddress
  <2>1. PICK x \in Nat : x = g * d
    BY <1>4
  <2>2. base = x + o /\ base - o = x
    BY <1>3, <1>5, <2>1
  <2>3. length = size + o
    BY <1>0
  <2> QED BY <1>2, <1>3, <2>1, <2>2, <2>3
<1>7. PICK q \in Nat : length = g * q + short /\ short \in Nat /\ short < g
  <2>1. short = length % g
    BY <1>0
  <2>2. /\ length \div g \in Nat /\ length % g \in Nat /\ length % g < g
        /\ length = g * (length \div g) + (length % g)
    BY <1>6, Divide, Zenon
  <2> QED BY <2>1, <2>2, Zenon
<1>8. g * q \in Nat /\ (g * q) % g = 0
  BY MultipleOf, Zenon
<1>9. PICK x \in Nat : x = g * q /\ length = x + short /\ x % g = 0
  BY <1>7, <1>8
<1>10. n = IF short = 0 THEN x ELSE x + g
  BY <1>1, <1>7, <1>9, <1>0
<1>11. n \in Nat /\ n >= length
  BY <1>7, <1>9, <1>10
<1>12. n % g = 0
  <2>1. g % g = 0
    BY SMT
  <2>2. (x + g) % g = 0
    BY <1>9, <2>1, Multiples
  <2> QED BY <1>9, <1>10, <2>2
<1>13. PICK v \in Nat : v = offset + (base - o)
  BY <1>6
<1>14. ASSUME v % g = 0 PROVE v + n <= TopAddress
  <2>1. CASE short = 0
    BY <1>6, <1>7, <1>9, <1>10, <1>13, <2>1
  <2>2. CASE short # 0
    <3>1. v + x \in Nat /\ (v + x) % g = 0
      <4>1. v % g = 0 /\ x % g = 0
        BY <1>9, <1>14
      <4>2. (v + x) % g = 0
        BY <4>1, Multiples, Zenon
      <4> QED BY <4>2
    <3>2. TopAddress > v + x
      BY <1>2, <1>6, <1>7, <1>9, <1>13, <2>2
    <3>3. TopAddress >= v + x + g
      BY <1>1, <1>2, <3>1, <3>2, Multiples
    <3> QED BY <1>2, <1>9, <1>10, <2>2, <3>3
  <2> QED BY <2>1, <2>2
<1>15. FloorPage(base) = base - o /\ CeilPages(base, size) = n
  BY <1>1, <1>0 DEF FloorPage, CeilPages
<1>16. base - o <= base /\ base + size <= (base - o) + n /\ (base - o) + n < base + size + g
  <2>1. length = size + o
    BY <1>0
  <2>2. n < length + g
    BY <1>7, <1>9, <1>10
  <2> QED BY <1>3, <1>6, <1>11, <2>1, <2>2
<1>17. base - o \in Nat /\ (base - o) % g = 0
  BY <1>4, <1>5, <1>6
<1>18. (offset + (base - o)) % g = 0 => offset + (base - o) + n <= TopAddress
  BY <1>13, <1>14
<1> QED BY <1>1, <1>11, <1>12, <1>15, <1>16, <1>17, <1>18, Zenon

----------------------------------------------------------------------------
(* Entries and walks.                                                      *)

\* Every address has an entry in every level.
LEMMA NodeIn ==
  ASSUME NEW l \in Level, NEW v \in Address
  PROVE  Node(l, v) \in Nodes
<1>1. PICK s \in Nat \ {0} : s = PageSize[l] /\ TopAddress % s = 0
  BY SizeFacts, TopMultiple
<1>2. TopAddress \in Nat /\ v \in Nat /\ v < TopAddress
  BY TopAssumption DEF Address
<1> DEFINE p == v \div s
           q == TopAddress \div s
<1>3. p \in Nat /\ q \in Nat /\ v % s \in Nat /\ v = s * p + (v % s) /\ TopAddress = s * q
  <2>1. p \in Nat /\ v % s \in Nat /\ v = s * p + (v % s)
    BY <1>2, Divide
  <2>2. q \in Nat /\ TopAddress = s * q + (TopAddress % s)
    BY <1>2, Divide
  <2>3. q \in Nat /\ TopAddress = s * q
    BY <1>1, <1>2, <2>2, SMT
  <2> QED BY <2>1, <2>3
<1> HIDE DEF p, q
<1>4. p < q
  BY <1>2, <1>3, SMT
<1>5. p <= v
  BY <1>3, SMT
<1>6. p \in Address
  BY <1>2, <1>3, <1>5 DEF Address
<1> QED BY <1>1, <1>4, <1>6 DEF Node, Nodes, p, q

\* Addresses that share an entry share all entries above it.
LEMMA NodeUp ==
  ASSUME NEW l \in Level, NEW m \in Level, l <= m, NEW v \in Nat, NEW w \in Nat,
         Node(l, v) = Node(l, w)
  PROVE  Node(m, v) = Node(m, w)
<1>1. /\ PageSize[l] \in Nat \ {0} /\ PageSize[m] \in Nat \ {0}
      /\ PageSize[m] % PageSize[l] = 0
  BY SizeFacts
<1>2. v \div PageSize[l] = w \div PageSize[l]
  BY DEF Node
<1>3. v \div PageSize[m] = w \div PageSize[m]
  BY <1>1, <1>2, Nested
<1> QED BY <1>3 DEF Node

\* The addresses that share the entry of an aligned address are its block.
LEMMA NodeBlock ==
  ASSUME NEW l \in Level, NEW v \in Nat, NEW w \in Nat, w % PageSize[l] = 0
  PROVE  /\ Node(l, v) = Node(l, w) <=> (w <= v /\ v < w + PageSize[l])
         /\ Node(l, v) = Node(l, w) => v % PageSize[l] = v - w
<1>1. PageSize[l] \in Nat \ {0}
  BY SizeFacts
<1>2. /\ (v \div PageSize[l] = w \div PageSize[l]) <=> (w <= v /\ v < w + PageSize[l])
      /\ v \div PageSize[l] = w \div PageSize[l] => v % PageSize[l] = v - w
  <2>1. PICK s \in Nat \ {0} : s = PageSize[l]
    BY <1>1
  <2>2. w % s = 0
    BY <2>1
  <2>3. /\ (v \div s = w \div s) <=> (w <= v /\ v < w + s)
        /\ v \div s = w \div s => v % s = v - w
    BY <2>2, SameBlock
  <2> QED BY <2>1, <2>3
<1>3. Node(l, v) = Node(l, w) <=> v \div PageSize[l] = w \div PageSize[l]
  BY DEF Node
<1> QED BY <1>2, <1>3
----------------------------------------------------------------------------
(* Tables.                                                                 *)

\* A walk ends at one page.
LEMMA OnePage ==
  ASSUME NEW table, NEW levels \in Nat, NEW v,
         NEW l \in 1..levels, NEW m \in 1..levels,
         IsPage(table, levels, l, v), IsPage(table, levels, m, v)
  PROVE  l = m
<1>1. ASSUME NEW i \in 1..levels, NEW j \in 1..levels, i < j,
             IsPage(table, levels, i, v), IsPage(table, levels, j, v)
      PROVE  FALSE
  <2>1. j \in (i + 1)..levels
    BY <1>1
  <2>2. table[Node(j, v)].kind = "table" /\ table[Node(j, v)].kind = "page"
    BY <1>1, <2>1, Zenon DEF IsPage
  <2> QED BY <2>2
<1>2. l < m \/ m < l \/ l = m
  OBVIOUS
<1> QED BY <1>1, <1>2

\* The page at which a walk ends is the one that the processor finds.
LEMMA ChosenPage ==
  ASSUME NEW table, NEW levels \in Nat, NEW v, NEW l \in 1..levels,
         IsPage(table, levels, l, v)
  PROVE  (CHOOSE k \in 1..levels : IsPage(table, levels, k, v)) = l
<1> DEFINE c == CHOOSE k \in 1..levels : IsPage(table, levels, k, v)
<1>1. c \in 1..levels /\ IsPage(table, levels, c, v)
  BY Zenon
<1> HIDE DEF c
<1>2. c = l
  BY <1>1, OnePage
<1> QED BY <1>2 DEF c

\* A store at the end of a walk leaves no entry without a table to be in.
LEMMA StoreBeneath ==
  ASSUME NEW table, NEW new, NEW levels \in 1..LevelCount, NothingBeneath(table, levels),
         NEW k \in 1..levels, NEW w \in Address,
         \A m \in (k + 1)..levels : table[Node(m, w)].kind = "table",
         new[Node(k, w)].kind # "absent",
         \A n \in Nodes : n # Node(k, w) => new[n] = table[n]
  PROVE  NothingBeneath(new, levels)
<1> SUFFICES ASSUME NEW v \in Address, NEW m \in 1..levels, NEW l \in 1..m,
                    new[Node(m, v)].kind = "absent"
             PROVE  new[Node(l, v)].kind = "absent"
  BY DEF NothingBeneath
<1>1. /\ l \in Level /\ m \in Level /\ k \in Level /\ l <= m /\ l \in 1..levels
      /\ v \in Nat /\ w \in Nat
  BY LevelAssumption DEF Level, Address
<1>2. Node(m, v) \in Nodes /\ Node(l, v) \in Nodes
  BY <1>1, NodeIn
<1>3. Node(m, v) # Node(k, w)
  BY Zenon
<1>4. table[Node(m, v)].kind = "absent"
  BY <1>2, <1>3
<1>5. table[Node(l, v)].kind = "absent"
  BY <1>4, Zenon DEF NothingBeneath
<1>6. Node(l, v) # Node(k, w)
  <2> SUFFICES ASSUME Node(l, v) = Node(k, w) PROVE FALSE
    OBVIOUS
  <2>1. l = k
    BY DEF Node
  <2>2. Node(m, v) = Node(m, w)
    BY <1>1, <2>1, NodeUp
  <2>3. m # k
    BY <1>3, <2>2
  <2>4. m \in (k + 1)..levels
    BY <1>1, <2>1, <2>3
  <2>5. table[Node(m, w)].kind = "table"
    BY <2>4
  <2> QED BY <1>4, <2>2, <2>5
<1> QED BY <1>2, <1>5, <1>6

\* A walk that goes on through an entry, to a new table or to an old one, does not
\* change at which pages walks end.
LEMMA TableKeepsPages ==
  ASSUME NEW table, NEW new, NEW levels \in 1..LevelCount, NothingBeneath(table, levels),
         NEW k \in 1..levels, NEW w \in Address,
         table[Node(k, w)].kind \in {"absent", "table"},
         new[Node(k, w)].kind = "table",
         \A n \in Nodes : n # Node(k, w) => new[n] = table[n],
         NEW v \in Address, NEW l \in 1..levels
  PROVE  IsPage(new, levels, l, v) <=> IsPage(table, levels, l, v)
<1>1. /\ l \in Level /\ k \in Level /\ v \in Nat /\ w \in Nat
      /\ \A m \in (l + 1)..levels : m \in Level /\ m \in 1..levels
  BY LevelAssumption DEF Level, Address
<1>2. /\ Node(l, v) \in Nodes
      /\ \A m \in (l + 1)..levels : Node(m, v) \in Nodes
  BY <1>1, NodeIn
<1>3. ASSUME IsPage(table, levels, l, v) PROVE IsPage(new, levels, l, v)
  <2>1. Node(l, v) # Node(k, w)
    BY <1>3 DEF IsPage
  <2>2. new[Node(l, v)].kind = "page"
    BY <1>2, <1>3, <2>1 DEF IsPage
  <2>3. ASSUME NEW m \in (l + 1)..levels PROVE new[Node(m, v)].kind = "table"
    <3>1. table[Node(m, v)].kind = "table"
      BY <1>3 DEF IsPage
    <3>2. CASE Node(m, v) = Node(k, w)
      BY <3>2
    <3>3. CASE Node(m, v) # Node(k, w)
      BY <1>2, <3>1, <3>3
    <3> QED BY <3>2, <3>3
  <2> QED BY <2>2, <2>3 DEF IsPage
<1>4. ASSUME IsPage(new, levels, l, v) PROVE IsPage(table, levels, l, v)
  <2>1. new[Node(l, v)].kind = "page"
    BY <1>4 DEF IsPage
  <2>2. Node(l, v) # Node(k, w)
    BY <2>1
  <2>3. table[Node(l, v)].kind = "page"
    BY <1>2, <2>1, <2>2
  <2>4. ASSUME NEW m \in (l + 1)..levels PROVE table[Node(m, v)].kind = "table"
    <3>1. new[Node(m, v)].kind = "table"
      BY <1>4 DEF IsPage
    <3>2. CASE Node(m, v) = Node(k, w)
      <4>1. table[Node(m, v)].kind # "absent"
        <5>1. m \in 1..levels /\ l \in 1..m
          BY <1>1
        <5> QED BY <2>3, <5>1 DEF NothingBeneath
      <4> QED BY <3>2, <4>1
    <3>3. CASE Node(m, v) # Node(k, w)
      BY <1>2, <3>1, <3>3
    <3> QED BY <3>2, <3>3
  <2> QED BY <2>3, <2>4 DEF IsPage
<1> QED BY <1>3, <1>4

\* A page that is stored at the end of a walk is found there.
LEMMA NewPageFound ==
  ASSUME NEW table, NEW new, NEW levels \in 1..LevelCount,
         NEW k \in 1..levels, NEW w \in Address,
         \A m \in (k + 1)..levels : table[Node(m, w)].kind = "table",
         new[Node(k, w)].kind = "page",
         \A n \in Nodes : n # Node(k, w) => new[n] = table[n],
         NEW v \in Address, Node(k, v) = Node(k, w)
  PROVE  IsPage(new, levels, k, v)
<1>1. k \in Level /\ v \in Nat /\ w \in Nat
  BY LevelAssumption DEF Level, Address
<1>2. ASSUME NEW m \in (k + 1)..levels PROVE new[Node(m, v)].kind = "table"
  <2>1. m \in Level /\ k <= m /\ m # k
    BY <1>1, LevelAssumption DEF Level
  <2>2. Node(m, v) = Node(m, w) /\ Node(m, w) \in Nodes
    BY <1>1, <2>1, NodeUp, NodeIn
  <2>3. Node(m, w) # Node(k, w)
    BY <2>1 DEF Node
  <2> QED BY <2>2, <2>3
<1> QED BY <1>2 DEF IsPage

\* A store changes no walk that does not come to it.
LEMMA OtherWalks ==
  ASSUME NEW table, NEW new, NEW levels \in 1..LevelCount,
         NEW k \in 1..levels, NEW w \in Address,
         \A n \in Nodes : n # Node(k, w) => new[n] = table[n],
         NEW v \in Address, Node(k, v) # Node(k, w)
  PROVE  \A m \in 1..levels : new[Node(m, v)] = table[Node(m, v)]
<1> TAKE m \in 1..levels
<1>1. m \in Level /\ k \in Level
  BY LevelAssumption DEF Level
<1>2. Node(m, v) \in Nodes
  BY <1>1, NodeIn
<1>3. Node(m, v) # Node(k, w)
  BY DEF Node
<1> QED BY <1>2, <1>3

\* Walks through the same entries end at the same page.
LEMMA SameWalk ==
  ASSUME NEW table, NEW new, NEW levels \in Nat, NEW v,
         \A m \in 1..levels : new[Node(m, v)] = table[Node(m, v)],
         NEW l \in 1..levels
  PROVE  IsPage(new, levels, l, v) <=> IsPage(table, levels, l, v)
<1>1. \A m \in (l + 1)..levels : m \in 1..levels
  OBVIOUS
<1> QED BY <1>1, Zenon DEF IsPage
=============================================================================
