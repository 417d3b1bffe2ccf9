----------------------------- MODULE PtmProofs -----------------------------
(***************************************************************************)
(* Proofs about the page tables of the x86_64 pre-kernel and their users.  *)
(* Rights are hierarchical here, so the invariant also says that every     *)
(* table a walk has passed allows what the request asks for.  It gives the *)
(* rights of every page, with them the abstract address spaces, and with   *)
(* those what the direct map and the trampoline rely on.                   *)
(***************************************************************************)
EXTENDS PtmClients, PagingProofs

\* What is left of a request.
RequestType ==
    [root : Root, vaddr : Nat, paddr : Nat, length : Nat, rw : BOOLEAN, nx : BOOLEAN]

\* The types of the state.
TypeOK ==
    /\ entries \in [Root -> [Nodes -> EntryType]]
    /\ g_x86_64_cpu_nx_support \in BOOLEAN
    /\ request \in RequestType
    /\ level \in Level

\* A request that was accepted goes on being made of whole pages below the top.
RequestInv ==
    /\ ~Unaligned(request.vaddr, request.paddr, request.length)
    /\ request.vaddr + request.length <= TopAddress

\* A table that the walk has passed, which now allows what is asked for.
PassedTable(e) == e.kind = "table" /\ (request.rw => e.rw) /\ (e.nx => request.nx)

\* The walk starts at the top, does not go below the level chosen for the page, and
\* has passed only tables that allow what is asked for.
WalkInv ==
    /\ request.length = 0 => level = LevelCount
    /\ Mapping =>
          /\ lowest_level <= level
          /\ \A m \in (level + 1)..LevelCount :
                PassedTable(entries[request.root][Node(m, request.vaddr)])

\* New tables are empty.
TablesInv == \A root \in Root : NothingBeneath(entries[root], LevelCount)

\* Before ptm_init nothing is asked for.
FreshInv == ~initialised => request.length = 0

\* The inductive invariant of the tables.
IInv == TypeOK /\ RequestInv /\ FreshInv /\ WalkInv /\ TablesInv

----------------------------------------------------------------------------
(* Rights.                                                                 *)

\* Levels, as the lemmas about tables have them.
LEMMA AllLevels == LevelCount \in Nat /\ LevelCount \in 1..LevelCount /\ Level = 1..LevelCount
  BY LevelAssumption DEF Level

\* Going down a level, through a new table or one that then allows no less, leaves
\* the rights to the pages.
LEMMA TableDecides ==
  ASSUME NEW table, NEW new, NothingBeneath(table, LevelCount),
         NEW j \in Level, NEW w \in Address,
         table[Node(j, w)].kind \in {"absent", "table"},
         new[Node(j, w)].kind = "table",
         table[Node(j, w)].kind = "table" =>
            /\ table[Node(j, w)].rw => new[Node(j, w)].rw
            /\ new[Node(j, w)].nx => table[Node(j, w)].nx,
         \A n \in Nodes : n # Node(j, w) => new[n] = table[n],
         Decides(table)
  PROVE  Decides(new)
<1> SUFFICES ASSUME NEW l \in Level, NEW v \in Page, IsPage(new, LevelCount, l, v)
             PROVE  /\ new[Node(l, v)].rw => MayWrite(new, l, v)
                    /\ ~new[Node(l, v)].nx => MayExecute(new, l, v)
  BY DEF Decides
<1>0. v \in Address
  BY DEF Page
<1>1. IsPage(table, LevelCount, l, v)
  BY <1>0, AllLevels, TableKeepsPages
<1>2. Node(l, v) # Node(j, w)
  BY Zenon DEF IsPage
<1>3. new[Node(l, v)] = table[Node(l, v)]
  BY <1>0, <1>2, NodeIn
<1>4. ASSUME NEW m \in l..LevelCount
      PROVE  \/ new[Node(m, v)] = table[Node(m, v)]
             \/ /\ table[Node(m, v)].rw => new[Node(m, v)].rw
                /\ new[Node(m, v)].nx => table[Node(m, v)].nx
  <2>1. CASE Node(m, v) # Node(j, w)
    <3>1. m \in Level
      BY DEF Level
    <3> QED BY <1>0, <2>1, <3>1, NodeIn
  <2>2. CASE Node(m, v) = Node(j, w)
    <3>1. m # l
      BY <1>2, <2>2
    <3>2. m \in (l + 1)..LevelCount
      BY <3>1, LevelAssumption DEF Level
    <3>3. table[Node(m, v)].kind = "table"
      BY <1>1, <3>2, Zenon DEF IsPage
    <3> QED BY <2>2, <3>3, Zenon
  <2> QED BY <2>1, <2>2
<1>5. ASSUME new[Node(l, v)].rw PROVE MayWrite(new, l, v)
  <2>1. MayWrite(table, l, v)
    BY <1>1, <1>3, <1>5, Zenon DEF Decides
  <2> QED BY <1>4, <2>1, Zenon DEF MayWrite
<1>6. ASSUME ~new[Node(l, v)].nx PROVE MayExecute(new, l, v)
  <2>1. MayExecute(table, l, v)
    BY <1>1, <1>3, <1>6, Zenon DEF Decides
  <2> QED BY <1>4, <2>1, Zenon DEF MayExecute
<1> QED BY <1>5, <1>6

\* A page stored under tables that allow what it allows decides its rights.
LEMMA PageStoreDecides ==
  ASSUME NEW table, NEW new, NEW j \in Level, NEW w \in Address,
         \A m \in (j + 1)..LevelCount :
            /\ table[Node(m, w)].kind = "table"
            /\ new[Node(j, w)].rw => table[Node(m, w)].rw
            /\ table[Node(m, w)].nx => new[Node(j, w)].nx,
         new[Node(j, w)].kind = "page",
         \A n \in Nodes : n # Node(j, w) => new[n] = table[n],
         Decides(table)
  PROVE  Decides(new)
<1> SUFFICES ASSUME NEW l \in Level, NEW v \in Page, IsPage(new, LevelCount, l, v)
             PROVE  /\ new[Node(l, v)].rw => MayWrite(new, l, v)
                    /\ ~new[Node(l, v)].nx => MayExecute(new, l, v)
  BY DEF Decides
<1>0. v \in Address /\ v \in Nat /\ w \in Nat
  BY DEF Page, Address
<1>1. CASE Node(j, v) = Node(j, w)
  <2>1. IsPage(new, LevelCount, j, v)
    BY <1>0, <1>1, AllLevels, NewPageFound
  <2>2. l = j
    BY <2>1, AllLevels, OnePage
  <2>3. ASSUME NEW m \in j..LevelCount
        PROVE  /\ new[Node(j, w)].rw => new[Node(m, v)].rw
               /\ new[Node(m, v)].nx => new[Node(j, w)].nx
    <3>1. CASE m = j
      BY <1>1, <3>1, Zenon
    <3>2. CASE m # j
      <4>1. m \in (j + 1)..LevelCount /\ m \in Level /\ j <= m
        BY <3>2, LevelAssumption DEF Level
      <4>2. Node(m, v) = Node(m, w) /\ Node(m, w) \in Nodes /\ Node(m, w) # Node(j, w)
        <5>1. Node(m, w) # Node(j, w)
          BY <3>2 DEF Node
        <5> QED BY <1>0, <1>1, <4>1, <5>1, NodeUp, NodeIn
      <4>3. new[Node(m, v)] = table[Node(m, w)]
        BY <4>2
      <4> QED BY <4>1, <4>3, Zenon
    <3> QED BY <3>1, <3>2
  <2> QED BY <1>1, <2>2, <2>3, Zenon DEF MayWrite, MayExecute
<1>2. CASE Node(j, v) # Node(j, w)
  <2>1. \A m \in Level : new[Node(m, v)] = table[Node(m, v)]
    <3>1. j \in 1..LevelCount /\ LevelCount \in 1..LevelCount
      BY AllLevels
    <3>2. \A m \in 1..LevelCount : new[Node(m, v)] = table[Node(m, v)]
      BY <1>0, <1>2, <3>1, OtherWalks
    <3> QED BY <3>2, AllLevels
  <2>2. IsPage(table, LevelCount, l, v)
    BY <2>1, AllLevels, SameWalk
  <2>3. /\ table[Node(l, v)].rw => MayWrite(table, l, v)
        /\ ~table[Node(l, v)].nx => MayExecute(table, l, v)
    BY <2>2, Zenon DEF Decides
  <2>4. \A m \in l..LevelCount : new[Node(m, v)] = table[Node(m, v)]
    BY <2>1, LevelAssumption DEF Level
  <2> QED BY <2>1, <2>3, <2>4, Zenon DEF MayWrite, MayExecute
<1> QED BY <1>1, <1>2

----------------------------------------------------------------------------
(* Translations.                                                           *)

\* The translation of an address whose walk ends at a page that decides its rights.
LEMMA TranslateIs ==
  ASSUME NEW table \in [Nodes -> EntryType], Decides(table), NEW v \in Page, NEW l \in Level,
         IsPage(table, LevelCount, l, v)
  PROVE  Translate(table, v) =
            [paddr |-> table[Node(l, v)].paddr + (v % PageSize[l]),
             rights |-> RightsOf(table[Node(l, v)].rw, table[Node(l, v)].nx)]
<1>1. (CHOOSE j \in Level : IsPage(table, LevelCount, j, v)) = l
  BY AllLevels, ChosenPage
<1>2. Translate(table, v) =
        [paddr |-> table[Node(l, v)].paddr + (v % PageSize[l]),
         rights |-> RightsOf(MayWrite(table, l, v), ~MayExecute(table, l, v))]
  BY <1>1, Zenon DEF Translate
<1>3. Node(l, v) \in Nodes
  BY NodeIn DEF Page
<1>4. table[Node(l, v)].rw \in BOOLEAN /\ table[Node(l, v)].nx \in BOOLEAN
  BY <1>3 DEF EntryType
<1>5. l \in l..LevelCount
  BY LevelAssumption DEF Level
<1>6. MayWrite(table, l, v) <=> table[Node(l, v)].rw
  BY <1>5, Zenon DEF Decides, MayWrite
<1>7. MayExecute(table, l, v) <=> ~table[Node(l, v)].nx
  BY <1>5, Zenon DEF Decides, MayExecute
<1>8. RightsOf(MayWrite(table, l, v), ~MayExecute(table, l, v))
        = RightsOf(table[Node(l, v)].rw, table[Node(l, v)].nx)
  BY <1>6, <1>7, Zenon DEF RightsOf
<1> QED BY <1>2, <1>8, Zenon

\* And of one whose walk ends nowhere.
LEMMA TranslateNone ==
  ASSUME NEW table, NEW v, \A l \in Level : ~IsPage(table, LevelCount, l, v)
  PROVE  Translate(table, v) = Unmapped
  BY Zenon DEF Translate

\* Tables with the same walks translate the same.
LEMMA TranslateSame ==
  ASSUME NEW table \in [Nodes -> EntryType], NEW new \in [Nodes -> EntryType],
         Decides(table), Decides(new), NEW v \in Page,
         \A l \in Level : IsPage(new, LevelCount, l, v) <=> IsPage(table, LevelCount, l, v),
         \A l \in Level :
            IsPage(table, LevelCount, l, v) => new[Node(l, v)] = table[Node(l, v)]
  PROVE  Translate(new, v) = Translate(table, v)
<1>1. CASE \E l \in Level : IsPage(table, LevelCount, l, v)
  <2>1. PICK l \in Level : IsPage(table, LevelCount, l, v)
    BY <1>1
  <2>2. IsPage(new, LevelCount, l, v) /\ new[Node(l, v)] = table[Node(l, v)]
    BY <2>1
  <2>3. Translate(table, v) =
          [paddr |-> table[Node(l, v)].paddr + (v % PageSize[l]),
           rights |-> RightsOf(table[Node(l, v)].rw, table[Node(l, v)].nx)]
    BY <2>1, TranslateIs
  <2>4. Translate(new, v) =
          [paddr |-> new[Node(l, v)].paddr + (v % PageSize[l]),
           rights |-> RightsOf(new[Node(l, v)].rw, new[Node(l, v)].nx)]
    BY <2>2, TranslateIs
  <2> QED BY <2>2, <2>3, <2>4, Zenon
<1>2. CASE \A l \in Level : ~IsPage(table, LevelCount, l, v)
  <2>1. \A l \in Level : ~IsPage(new, LevelCount, l, v)
    BY <1>2
  <2> QED BY <1>2, <2>1, TranslateNone
<1> QED BY <1>1, <1>2

----------------------------------------------------------------------------
(* Where a walk is.                                                        *)

\* The parts of a request.
LEMMA RequestFields ==
  ASSUME TypeOK
  PROVE  /\ request.root \in Root /\ request.vaddr \in Nat /\ request.paddr \in Nat
         /\ request.length \in Nat /\ request.rw \in BOOLEAN /\ request.nx \in BOOLEAN
  BY DEF TypeOK, RequestType

\* A request that has not ended has a page or more left.
LEMMA AlignedFits ==
  ASSUME TypeOK, RequestInv, request.length > 0
  PROVE  FitsLevel(1)
<1>1. /\ request.vaddr % PageSize[1] = 0 /\ request.paddr % PageSize[1] = 0
      /\ request.length % PageSize[1] = 0
  BY DEF RequestInv, Unaligned, PTM_PAGE_GRANULARITY
<1>2. PICK s \in Nat \ {0} : s = PageSize[1]
  BY SizeFacts, LevelAssumption DEF Level
<1>3. PICK n \in Nat : n = request.length /\ n > 0
  BY RequestFields
<1>4. n % s = 0 /\ 0 % s = 0
  BY <1>1, <1>2, <1>3, SMT
<1>5. n >= 0 + s
  BY <1>3, <1>4, Multiples
<1>6. n >= s
  BY <1>5
<1> QED BY <1>1, <1>2, <1>3, <1>6 DEF FitsLevel

\* The level chosen for the next page is one of three, and its page fits.
LEMMA LowestFits ==
  ASSUME TypeOK, RequestInv, request.length > 0
  PROVE  lowest_level \in 1..3 /\ FitsLevel(lowest_level)
  BY AlignedFits DEF lowest_level

\* The same after a step.
LEMMA LowestBound == TypeOK /\ RequestInv /\ request.length > 0 => lowest_level \in 1..3
  BY LowestFits

\* The same of the next state.
LEMMA LowestBoundNext ==
  (TypeOK /\ RequestInv /\ request.length > 0 => lowest_level \in 1..3)'
  BY LowestBound, PTL

\* The walk is at an entry of a table.
LEMMA WalkFacts ==
  ASSUME IInv, Mapping
  PROVE  /\ level \in Level
         /\ request.vaddr \in Address
         /\ Here \in Nodes
         /\ entry \in EntryType
         /\ lowest_level \in 1..3 /\ FitsLevel(lowest_level) /\ lowest_level <= level
<1>1. request.root \in Root /\ request.vaddr \in Nat /\ request.length \in Nat
  BY RequestFields DEF IInv
<1>2. request.length > 0 /\ lowest_level <= level
  BY DEF Mapping, IInv, WalkInv
<1>3. lowest_level \in 1..3 /\ FitsLevel(lowest_level)
  BY <1>2, LowestFits DEF IInv
<1>4. level \in Level
  BY DEF IInv, TypeOK
<1>5. request.vaddr \in Address
  BY <1>1, <1>2, TopAssumption DEF IInv, RequestInv, Address
<1>6. Here \in Nodes
  BY <1>4, <1>5, NodeIn DEF Here
<1>7. entry \in EntryType
  BY <1>1, <1>6 DEF entry, IInv, TypeOK
<1> QED BY <1>2, <1>3, <1>4, <1>5, <1>6, <1>7

\* The entry that the walk leaves behind, and what it allows.
LEMMA PassedFacts ==
  ASSUME IInv, Mapping, entry.kind # "page"
  PROVE  /\ Passed \in EntryType
         /\ PassedTable(Passed)
         /\ entry.kind = "table" =>
               (entry.rw => Passed.rw) /\ (Passed.nx => entry.nx)
         /\ entry.kind \in {"absent", "table"}
<1>1. request.rw \in BOOLEAN /\ request.nx \in BOOLEAN
  BY RequestFields DEF IInv
<1>2. entry \in EntryType
  BY WalkFacts
<1>3. PICK e \in EntryType : e = entry
  BY <1>2
<1>4. e.kind \in {"absent", "table"} /\ e.rw \in BOOLEAN /\ e.nx \in BOOLEAN /\ e.paddr \in Nat
  BY <1>3 DEF EntryType
<1>5. CASE e.kind = "absent"
  <2>1. Passed = [kind |-> "table", rw |-> request.rw, nx |-> request.nx, paddr |-> 0]
    BY <1>3, <1>5, Zenon DEF Passed
  <2>2. Passed \in EntryType
    BY <1>1, <2>1 DEF EntryType
  <2>3. Passed.kind = "table" /\ Passed.rw = request.rw /\ Passed.nx = request.nx
    BY <2>1, Zenon
  <2> QED BY <1>3, <1>4, <1>5, <2>2, <2>3 DEF PassedTable
<1>6. CASE e.kind = "table"
  <2>1. Passed = [e EXCEPT !.rw = @ \/ request.rw, !.nx = @ /\ request.nx]
    BY <1>3, <1>6, Zenon DEF Passed
  <2>2. Passed = [kind |-> e.kind, rw |-> (e.rw \/ request.rw), nx |-> (e.nx /\ request.nx),
                  paddr |-> e.paddr]
    BY <2>1 DEF EntryType
  <2>3. Passed \in EntryType
    BY <1>1, <1>4, <2>2 DEF EntryType
  <2>4. /\ Passed.kind = "table" /\ (Passed.rw <=> (e.rw \/ request.rw))
        /\ (Passed.nx <=> (e.nx /\ request.nx))
    BY <1>6, <2>2, Zenon
  <2> QED BY <1>3, <1>4, <1>6, <2>3, <2>4, Zenon DEF PassedTable
<1> QED BY <1>4, <1>5, <1>6

\* What going down one level writes.
LEMMA DescendWrites ==
  ASSUME IInv, Descend
  PROVE  /\ Mapping /\ level > lowest_level
         /\ entries' \in [Root -> [Nodes -> EntryType]]
         /\ entries'[request.root][Here] = Passed
         /\ \A n \in Nodes : n # Here => entries'[request.root][n] = entries[request.root][n]
         /\ \A root \in Root : root # request.root => entries'[root] = entries[root]
         /\ level' = level - 1
         /\ UNCHANGED <<features, request, panic>> /\ entry.kind # "page"
<1>1. /\ Mapping /\ level > lowest_level /\ level' = level - 1
      /\ UNCHANGED <<features, request, panic>> /\ entry.kind # "page"
      /\ entries' = [entries EXCEPT ![request.root][Here] = Passed]
  BY DEF Descend
<1>2. /\ Here \in Nodes /\ request.root \in Root
      /\ entries \in [Root -> [Nodes -> EntryType]]
  BY <1>1, WalkFacts, RequestFields DEF IInv, TypeOK
<1>3. PICK e \in EntryType : e = Passed
  BY <1>1, PassedFacts
<1>4. PICK h : h = Here
  OBVIOUS
<1>5. entries' = [entries EXCEPT ![request.root] = [entries[request.root] EXCEPT ![h] = e]]
  BY <1>1, <1>3, <1>4
<1>6. /\ entries' \in [Root -> [Nodes -> EntryType]]
      /\ entries'[request.root][h] = e
      /\ \A n \in Nodes : n # h => entries'[request.root][n] = entries[request.root][n]
      /\ \A root \in Root : root # request.root => entries'[root] = entries[root]
  BY <1>2, <1>4, <1>5
<1> QED BY <1>1, <1>3, <1>4, <1>6

\* What storing a page writes.
LEMMA SetPageWrites ==
  ASSUME IInv, SetPage
  PROVE  /\ Mapping /\ level = lowest_level
         /\ entries' \in [Root -> [Nodes -> EntryType]]
         /\ entries'[request.root][Here] =
              [kind |-> "page", rw |-> request.rw, nx |-> request.nx, paddr |-> request.paddr]
         /\ \A n \in Nodes : n # Here => entries'[request.root][n] = entries[request.root][n]
         /\ \A root \in Root : root # request.root => entries'[root] = entries[root]
         /\ level' = LevelCount
         /\ UNCHANGED <<features, panic>>
<1>1. /\ Mapping /\ level = lowest_level /\ level' = LevelCount
      /\ UNCHANGED <<features, panic>>
      /\ entries' = [entries EXCEPT ![request.root][Here] =
                       [kind |-> "page", rw |-> request.rw, nx |-> request.nx,
                        paddr |-> request.paddr]]
  BY DEF SetPage
<1>2. /\ Here \in Nodes /\ request.root \in Root
      /\ entries \in [Root -> [Nodes -> EntryType]]
  BY <1>1, WalkFacts, RequestFields DEF IInv, TypeOK
<1>3. PICK e \in EntryType :
        e = [kind |-> "page", rw |-> request.rw, nx |-> request.nx, paddr |-> request.paddr]
  BY RequestFields DEF EntryType, IInv
<1>4. PICK h : h = Here
  OBVIOUS
<1>5. entries' = [entries EXCEPT ![request.root] = [entries[request.root] EXCEPT ![h] = e]]
  BY <1>1, <1>3, <1>4
<1>6. /\ entries' \in [Root -> [Nodes -> EntryType]]
      /\ entries'[request.root][h] = e
      /\ \A n \in Nodes : n # h => entries'[request.root][n] = entries[request.root][n]
      /\ \A root \in Root : root # request.root => entries'[root] = entries[root]
  BY <1>2, <1>4, <1>5
<1> QED BY <1>1, <1>3, <1>4, <1>6

\* What is left of the request after a page has been stored.
LEMMA AdvanceFacts ==
  ASSUME IInv, SetPage
  PROVE  /\ request' = [root |-> request.root, vaddr |-> request.vaddr + PageSize[level],
                        paddr |-> request.paddr + PageSize[level],
                        length |-> request.length - PageSize[level],
                        rw |-> request.rw, nx |-> request.nx]
         /\ request' \in RequestType
         /\ RequestInv'
         /\ PageSize[level] \in Nat \ {0} /\ PageSize[level] <= request.length
         /\ PageSize[level] % PTM_PAGE_GRANULARITY = 0
<1>1. Mapping /\ level = lowest_level /\ Advance
  BY DEF SetPage
<1>2. level \in Level /\ FitsLevel(level)
  BY <1>1, WalkFacts
<1>3. PICK p \in Nat \ {0} : p = PageSize[level] /\ p % PTM_PAGE_GRANULARITY = 0
  BY <1>2, SizeFacts
<1>4. PICK g \in Nat \ {0} : g = PTM_PAGE_GRANULARITY
  BY <1>2, SizeFacts
<1>5. p <= request.length
  BY <1>2, <1>3 DEF FitsLevel
<1>6. /\ request.root \in Root /\ request.vaddr \in Nat /\ request.paddr \in Nat
      /\ request.length \in Nat /\ request.rw \in BOOLEAN /\ request.nx \in BOOLEAN
  BY RequestFields DEF IInv
<1>7. request' = [root |-> request.root, vaddr |-> request.vaddr + p,
                  paddr |-> request.paddr + p, length |-> request.length - p,
                  rw |-> request.rw, nx |-> request.nx]
  BY <1>1, <1>3 DEF Advance, IInv, TypeOK, RequestType
<1>8. /\ request'.vaddr = request.vaddr + p /\ request'.paddr = request.paddr + p
      /\ request'.length = request.length - p
  BY <1>7, Zenon
<1>9. request' \in RequestType
  <2>1. /\ request.vaddr + p \in Nat /\ request.paddr + p \in Nat /\ request.length - p \in Nat
    BY <1>5, <1>6
  <2> QED BY <1>6, <1>7, <2>1 DEF RequestType
<1>10. /\ request.vaddr % g = 0 /\ request.paddr % g = 0 /\ request.length % g = 0
       /\ p % g = 0
  BY <1>3, <1>4 DEF IInv, RequestInv, Unaligned
<1>11. /\ (request.vaddr + p) % g = 0 /\ (request.paddr + p) % g = 0
       /\ (request.length - p) % g = 0
  BY <1>5, <1>6, <1>10, Multiples
<1>12. request'.vaddr + request'.length <= TopAddress
  BY <1>5, <1>6, <1>8, TopAssumption DEF IInv, RequestInv
<1>13. RequestInv'
  BY <1>4, <1>8, <1>11, <1>12 DEF RequestInv, Unaligned
<1> QED BY <1>3, <1>5, <1>7, <1>9, <1>13

\* The entries above the walk.
LEMMA Above ==
  ASSUME IInv, Mapping
  PROVE  \A m \in (level + 1)..LevelCount :
            PassedTable(entries[request.root][Node(m, request.vaddr)])
  BY DEF IInv, WalkInv

----------------------------------------------------------------------------
(* The invariant.                                                          *)

\* Going down keeps the invariant: the entries that were passed are tables that
\* allow what is asked for.
LEMMA DescendInv ==
  ASSUME IInv, Descend
  PROVE  IInv'
<1>1. /\ Mapping /\ level > lowest_level
      /\ entries' \in [Root -> [Nodes -> EntryType]]
      /\ entries'[request.root][Here] = Passed
      /\ \A n \in Nodes : n # Here => entries'[request.root][n] = entries[request.root][n]
      /\ \A root \in Root : root # request.root => entries'[root] = entries[root]
      /\ level' = level - 1
      /\ UNCHANGED <<g_x86_64_cpu_nx_support, g_x86_64_cpu_pdpe1gb_support, request, panic>>
  BY DescendWrites DEF features
<1>2. /\ level \in Level /\ request.vaddr \in Address /\ Here \in Nodes
      /\ lowest_level \in 1..3 /\ request.root \in Root /\ request.length > 0
  BY <1>1, WalkFacts, RequestFields DEF IInv, Mapping
<1>3. PassedTable(Passed)
  BY DescendWrites, PassedFacts
<1>4. level' \in Level /\ level' + 1 = level
  BY <1>1, <1>2, LevelAssumption DEF Level
<1>5. TypeOK'
  BY <1>1, <1>4 DEF IInv, TypeOK
<1>6. RequestInv'
  BY <1>1 DEF IInv, RequestInv
<1>7. lowest_level' = lowest_level
  BY <1>1 DEF lowest_level, FitsLevel
<1>8. ASSUME NEW m \in level..LevelCount
      PROVE  PassedTable(entries'[request.root][Node(m, request.vaddr)])
  <2>1. CASE m = level
    BY <1>1, <1>3, <2>1, Zenon DEF Here
  <2>2. CASE m # level
    <3>1. m \in (level + 1)..LevelCount /\ m \in Level
      BY <1>2, <2>2, LevelAssumption DEF Level
    <3>2. Node(m, request.vaddr) \in Nodes /\ Node(m, request.vaddr) # Here
      BY <1>2, <2>2, <3>1, NodeIn DEF Here, Node
    <3>3. PassedTable(entries[request.root][Node(m, request.vaddr)])
      BY <1>1, <3>1, Above
    <3> QED BY <1>1, <3>2, <3>3
  <2> QED BY <2>1, <2>2
<1>9. WalkInv'
  <2>1. request'.length # 0 /\ lowest_level' <= level'
    BY <1>1, <1>2, <1>4, <1>7 DEF Level
  <2>2. \A m \in (level' + 1)..LevelCount :
          PassedTable(entries'[request'.root][Node(m, request'.vaddr)])
    BY <1>1, <1>4, <1>8
  <2>3. \A m \in (level' + 1)..LevelCount :
          PassedTable(entries[request.root][Node(m, request.vaddr)])'
    BY <1>1, <2>2, Zenon DEF PassedTable
  <2> QED BY <2>1, <2>3 DEF WalkInv
<1>10. TablesInv'
  <2> SUFFICES ASSUME NEW root \in Root
               PROVE  NothingBeneath(entries'[root], LevelCount)
    BY DEF TablesInv
  <2>1. NothingBeneath(entries[root], LevelCount)
    BY DEF IInv, TablesInv
  <2>2. CASE root # request.root
    BY <1>1, <2>1, <2>2
  <2>3. CASE root = request.root
    <3>1. entries'[root][Node(level, request.vaddr)].kind # "absent"
      BY <1>1, <1>3, <2>3, Zenon DEF Here, PassedTable
    <3>2. \A n \in Nodes : n # Node(level, request.vaddr) => entries'[root][n] = entries[root][n]
      BY <1>1, <2>3 DEF Here
    <3>3. \A m \in (level + 1)..LevelCount :
            entries[root][Node(m, request.vaddr)].kind = "table"
      BY <1>1, <2>3, Above DEF PassedTable
    <3> QED BY <1>2, <2>1, <3>1, <3>2, <3>3, AllLevels, StoreBeneath
  <2> QED BY <2>2, <2>3
<1>11. FreshInv'
  BY DescendWrites DEF IInv, FreshInv, features
<1> QED BY <1>5, <1>6, <1>9, <1>10, <1>11 DEF IInv

\* Storing a page keeps the invariant: a new walk starts at the top.
LEMMA SetPageInv ==
  ASSUME IInv, SetPage
  PROVE  IInv'
<1>1. /\ Mapping /\ level = lowest_level
      /\ entries' \in [Root -> [Nodes -> EntryType]]
      /\ entries'[request.root][Here].kind = "page"
      /\ \A n \in Nodes : n # Here => entries'[request.root][n] = entries[request.root][n]
      /\ \A root \in Root : root # request.root => entries'[root] = entries[root]
      /\ level' = LevelCount
      /\ UNCHANGED <<g_x86_64_cpu_nx_support, g_x86_64_cpu_pdpe1gb_support, panic>>
  BY SetPageWrites DEF features
<1>2. /\ level \in Level /\ request.vaddr \in Address /\ Here \in Nodes
      /\ request.root \in Root
  BY <1>1, WalkFacts, RequestFields DEF IInv
<1>3. request' \in RequestType /\ RequestInv'
  BY AdvanceFacts
<1>4. TypeOK'
  BY <1>1, <1>3, LevelAssumption DEF IInv, TypeOK, Level
<1>5. WalkInv'
  <2> SUFFICES ASSUME Mapping'
               PROVE  /\ lowest_level' <= level'
                      /\ \A m \in (level' + 1)..LevelCount :
                            PassedTable(entries[request.root][Node(m, request.vaddr)])'
    BY <1>1 DEF WalkInv
  <2>1. lowest_level' \in 1..3
    BY <1>3, <1>4, LowestBoundNext DEF Mapping
  <2>2. (LevelCount + 1)..LevelCount = {}
    BY LevelAssumption
  <2> QED BY <1>1, <2>1, <2>2, LevelAssumption
<1>6. TablesInv'
  <2> SUFFICES ASSUME NEW root \in Root
               PROVE  NothingBeneath(entries'[root], LevelCount)
    BY DEF TablesInv
  <2>1. NothingBeneath(entries[root], LevelCount)
    BY DEF IInv, TablesInv
  <2>2. CASE root # request.root
    BY <1>1, <2>1, <2>2
  <2>3. CASE root = request.root
    <3>1. entries'[root][Node(level, request.vaddr)].kind # "absent"
      BY <1>1, <2>3 DEF Here
    <3>2. \A n \in Nodes : n # Node(level, request.vaddr) => entries'[root][n] = entries[root][n]
      BY <1>1, <2>3 DEF Here
    <3>3. \A m \in (level + 1)..LevelCount :
            entries[root][Node(m, request.vaddr)].kind = "table"
      BY <1>1, <2>3, Above DEF PassedTable
    <3> QED BY <1>2, <2>1, <3>1, <3>2, <3>3, AllLevels, StoreBeneath
  <2> QED BY <2>2, <2>3
<1>7. FreshInv'
  <2>1. request.length > 0
    BY <1>1 DEF Mapping
  <2> QED BY <2>1, SetPageWrites DEF IInv, FreshInv, features
<1> QED BY <1>3, <1>4, <1>5, <1>6, <1>7 DEF IInv

\* Nothing is asked for and nothing mapped at the start.
LEMMA InitInv == Init => IInv
<1> SUFFICES ASSUME Init PROVE IInv
  OBVIOUS
<1>1. TypeOK
  <2>1. Absent \in EntryType
    BY DEF Absent, EntryType
  <2>2. [n \in Nodes |-> Absent] \in [Nodes -> EntryType]
    BY <2>1
  <2>3. entries \in [Root -> [Nodes -> EntryType]]
    BY <2>2, BootTableAssumption DEF Init
  <2>4. request \in RequestType
    BY DEF Init, NoRequest, RequestType, Root
  <2>5. level \in Level
    BY LevelAssumption DEF Init, Level
  <2>6. g_x86_64_cpu_nx_support \in BOOLEAN
    BY Zenon DEF Init
  <2> QED BY <2>3, <2>4, <2>5, <2>6, Zenon DEF TypeOK
<1>2. RequestInv
  <2>1. PICK g \in Nat \ {0} : g = PTM_PAGE_GRANULARITY
    BY SizeFacts, LevelAssumption DEF Level
  <2>2. 0 % g = 0
    BY SMT
  <2>3. request.vaddr = 0 /\ request.paddr = 0 /\ request.length = 0
    BY DEF Init, NoRequest
  <2> QED BY <2>1, <2>2, <2>3, TopAssumption DEF RequestInv, Unaligned
<1>3. WalkInv
  <2>1. request.length = 0 /\ level = LevelCount
    BY DEF Init, NoRequest
  <2> QED BY <2>1 DEF WalkInv, Mapping
<1>4. TablesInv
  <2>1. NothingBeneath(entries["boot"], LevelCount)
    BY BootTableAssumption DEF Init, Root
  <2>2. NothingBeneath(entries["own"], LevelCount)
    <3> SUFFICES ASSUME NEW v \in Address, NEW m \in 1..LevelCount, NEW l \in 1..m
                 PROVE  entries["own"][Node(l, v)].kind = "absent"
      BY DEF NothingBeneath
    <3>1. \A n \in Nodes : entries["own"][n].kind = "absent"
      BY DEF Init, Root, Absent
    <3>2. l \in Level
      BY LevelAssumption DEF Level
    <3> QED BY <3>1, <3>2, NodeIn
  <2> QED BY <2>1, <2>2 DEF TablesInv, Root
<1>5. FreshInv
  BY DEF Init, NoRequest, FreshInv
<1> QED BY <1>1, <1>2, <1>3, <1>4, <1>5 DEF IInv

\* A step that leaves the tables and the request, and may stop the machine.
LEMMA QuietInv ==
  ASSUME IInv, UNCHANGED <<entries, features, request, level>>,
         panic' # "no" \/ panic' = panic
  PROVE  IInv'
<1>1. lowest_level' = lowest_level
  BY DEF lowest_level, FitsLevel, features
<1>2. TypeOK' /\ RequestInv' /\ FreshInv' /\ TablesInv'
  BY DEF IInv, TypeOK, RequestInv, FreshInv, TablesInv, features
<1>3. WalkInv'
  BY <1>1 DEF IInv, WalkInv, Mapping, PassedTable
<1> QED BY <1>2, <1>3 DEF IInv

\* ptm_init asks the processor while nothing is being mapped.
LEMMA PtmInitInv ==
  ASSUME IInv, ptm_init
  PROVE  IInv'
<1>1. /\ UNCHANGED <<entries, request, level>> /\ g_x86_64_cpu_nx_support' \in BOOLEAN
      /\ request.length = 0
  BY DEF ptm_init, IInv, FreshInv
<1>2. TypeOK' /\ RequestInv' /\ FreshInv' /\ TablesInv'
  BY <1>1 DEF IInv, TypeOK, RequestInv, FreshInv, TablesInv
<1>3. WalkInv'
  BY <1>1 DEF IInv, WalkInv, Mapping
<1> QED BY <1>2, <1>3 DEF IInv

\* A request of whole pages below the top.
GoodRequest(r) ==
    /\ r \in [vaddr : Nat, paddr : Nat, length : Nat, flags : SUBSET Rights]
    /\ ~Unaligned(r.vaddr, r.paddr, r.length) => r.vaddr + r.length <= TopAddress

\* A request that ptm_map or ptm_map_at accepts.
LEMMA AskFacts ==
  ASSUME IInv, NEW root \in Root, NEW r, GoodRequest(r), Ask(root, r),
         ~Unaligned(r.vaddr, r.paddr, r.length)
  PROVE  /\ request'.root = root /\ request'.vaddr = r.vaddr /\ request'.paddr = r.paddr
         /\ request'.length = r.length
         /\ request'.rw = ("WRITE" \in r.flags)
         /\ request'.nx = (g_x86_64_cpu_nx_support /\ "EXEC" \notin r.flags)
         /\ request' \in RequestType
         /\ UNCHANGED <<entries, features, level, panic>>
<1>1. /\ request' = [root |-> root, vaddr |-> r.vaddr, paddr |-> r.paddr,
                     length |-> r.length, rw |-> "WRITE" \in r.flags,
                     nx |-> g_x86_64_cpu_nx_support /\ "EXEC" \notin r.flags]
      /\ UNCHANGED <<entries, features, level, panic>>
  BY DEF Ask
<1>2. r.vaddr \in Nat /\ r.paddr \in Nat /\ r.length \in Nat
  BY DEF GoodRequest
<1>3. PICK w \in BOOLEAN, x \in BOOLEAN :
        w = ("WRITE" \in r.flags) /\ x = (g_x86_64_cpu_nx_support /\ "EXEC" \notin r.flags)
  <2>1. ("WRITE" \in r.flags) \in BOOLEAN
    OBVIOUS
  <2>2. (g_x86_64_cpu_nx_support /\ "EXEC" \notin r.flags) \in BOOLEAN
    OBVIOUS
  <2> QED BY <2>1, <2>2, Zenon
<1>4. request' = [root |-> root, vaddr |-> r.vaddr, paddr |-> r.paddr,
                  length |-> r.length, rw |-> w, nx |-> x]
  BY <1>1, <1>3, Zenon
<1>5. request' \in RequestType
  BY <1>2, <1>4 DEF RequestType
<1>6. /\ request'.root = root /\ request'.vaddr = r.vaddr /\ request'.paddr = r.paddr
      /\ request'.length = r.length /\ request'.rw = w /\ request'.nx = x
  BY <1>4, Zenon
<1> QED BY <1>1, <1>3, <1>5, <1>6, Zenon

\* Such a request starts a walk at the top.
LEMMA AskInv ==
  ASSUME IInv, NEW root \in Root, NEW r, GoodRequest(r), Ask(root, r)
  PROVE  IInv'
<1>1. CASE Unaligned(r.vaddr, r.paddr, r.length)
  <2>1. UNCHANGED <<entries, features, request, level>> /\ panic' # "no"
    BY <1>1 DEF Ask
  <2> QED BY <2>1, QuietInv
<1>2. CASE ~Unaligned(r.vaddr, r.paddr, r.length)
  <2>1. /\ request'.vaddr = r.vaddr /\ request'.paddr = r.paddr
        /\ request'.length = r.length /\ request' \in RequestType
        /\ UNCHANGED <<entries, g_x86_64_cpu_nx_support, level, panic>>
    BY <1>2, AskFacts DEF features
  <2>2. level = LevelCount
    <3>1. request.length = 0
      BY RequestFields DEF Ask, Idle, IInv
    <3> QED BY <3>1 DEF IInv, WalkInv
  <2>3. TypeOK'
    BY <2>1 DEF IInv, TypeOK
  <2>4. RequestInv'
    BY <1>2, <2>1 DEF RequestInv, Unaligned, GoodRequest
  <2>5. WalkInv'
    <3> SUFFICES ASSUME Mapping'
                 PROVE  /\ lowest_level' <= level'
                        /\ \A m \in (level' + 1)..LevelCount :
                              PassedTable(entries[request.root][Node(m, request.vaddr)])'
      BY <2>1, <2>2 DEF WalkInv
    <3>1. lowest_level' \in 1..3
      BY <2>3, <2>4, LowestBoundNext DEF Mapping
    <3>2. (LevelCount + 1)..LevelCount = {}
      BY LevelAssumption
    <3> QED BY <2>1, <2>2, <3>1, <3>2, LevelAssumption
  <2>6. TablesInv'
    BY <2>1 DEF IInv, TablesInv
  <2>7. FreshInv'
    BY <1>2, AskFacts DEF Ask, Idle, FreshInv, features
  <2> QED BY <2>3, <2>4, <2>5, <2>6, <2>7 DEF IInv
<1> QED BY <1>1, <1>2

----------------------------------------------------------------------------
(* The users.                                                              *)

\* The loop of ptm_create_hhdm_mappings.
ClientTypes ==
    /\ snapshot = <<>> \/ snapshot \in Snapshots
    /\ k \in Nat \ {0}

\* The pages of a slot of a snapshot: they contain its memory, and the direct map of
\* them ends below the top.
LEMMA RoundedFacts ==
  ASSUME NEW s, s \in Slot, s.base + s.length <= PhysicalTop,
         NEW r, r = Rounded(s)
  PROVE  /\ r.base \in Nat /\ r.length \in Nat
         /\ r.base % PTM_PAGE_GRANULARITY = 0 /\ r.length % PTM_PAGE_GRANULARITY = 0
         /\ hhdm_offset \in Nat /\ hhdm_offset % PTM_PAGE_GRANULARITY = 0
         /\ r.base <= s.base /\ s.base + s.length <= r.base + r.length
         /\ r.base + r.length < s.base + s.length + PTM_PAGE_GRANULARITY
         /\ hhdm_offset + r.base + r.length <= TopAddress
<1>1. /\ s.base \in Nat /\ s.length \in Nat /\ PhysicalTop \in Nat /\ TopAddress \in Nat
      /\ hhdm_offset \in Nat /\ hhdm_offset + PhysicalTop <= TopAddress
  BY ClientsAssumption, TopAssumption DEF Slot
<1>2. hhdm_offset + s.base + s.length <= TopAddress
  BY <1>1
<1>3. PICK g \in Nat \ {0} : g = PTM_PAGE_GRANULARITY
  BY SizeFacts, LevelAssumption DEF Level
<1>4. hhdm_offset % g = 0
  BY <1>3, ClientsAssumption
<1>5. PICK f, n : f = FloorPage(s.base) /\ n = CeilPages(s.base, s.length)
  OBVIOUS
<1>6. /\ f \in Nat /\ n \in Nat /\ f % g = 0 /\ n % g = 0
      /\ f <= s.base /\ s.base + s.length <= f + n /\ f + n < s.base + s.length + g
      /\ (hhdm_offset + f) % g = 0 => hhdm_offset + f + n <= TopAddress
  BY <1>1, <1>2, <1>3, <1>5, WholePages
<1>7. r.base = f /\ r.length = n
  BY <1>5 DEF Rounded, FloorPage, CeilPages
<1>8. (hhdm_offset + f) % g = 0
  BY <1>1, <1>4, <1>6, Multiples, Zenon
<1> QED BY <1>1, <1>3, <1>4, <1>6, <1>7, <1>8

\* A slot of a snapshot.
LEMMA SlotFacts ==
  ASSUME ClientTypes, NEW j \in 1..Len(snapshot)
  PROVE  snapshot[j] \in Slot /\ snapshot[j].base + snapshot[j].length <= PhysicalTop
<1>1. CASE snapshot = <<>>
  BY <1>1
<1>2. CASE snapshot \in Snapshots
  <2>1. snapshot \in Seq(Slot)
    BY <1>2, ClientsAssumption
  <2>2. snapshot[j].base + snapshot[j].length <= PhysicalTop
    BY <1>2, ClientsAssumption
  <2> QED BY <2>1, <2>2
<1> QED BY <1>1, <1>2 DEF ClientTypes

\* What is asked for by the direct map and by the trampoline.
SlotRequest(s) ==
    [vaddr |-> hhdm_offset + Rounded(s).base, paddr |-> Rounded(s).base,
     length |-> Rounded(s).length, flags |-> {"READ", "WRITE"}]

\* The request for a slot is made of whole pages below the top.
LEMMA SlotGood ==
  ASSUME NEW s, s \in Slot, s.base + s.length <= PhysicalTop
  PROVE  /\ GoodRequest(SlotRequest(s))
         /\ ~Unaligned(SlotRequest(s).vaddr, SlotRequest(s).paddr, SlotRequest(s).length)
<1>1. PICK r : r = Rounded(s)
  OBVIOUS
<1>2. /\ r.base \in Nat /\ r.length \in Nat
      /\ r.base % PTM_PAGE_GRANULARITY = 0 /\ r.length % PTM_PAGE_GRANULARITY = 0
      /\ hhdm_offset \in Nat /\ hhdm_offset % PTM_PAGE_GRANULARITY = 0
      /\ hhdm_offset + r.base + r.length <= TopAddress
  BY <1>1, RoundedFacts
<1>3. SlotRequest(s) = [vaddr |-> hhdm_offset + r.base, paddr |-> r.base,
                        length |-> r.length, flags |-> {"READ", "WRITE"}]
  BY <1>1 DEF SlotRequest
<1>4. PICK q : q = SlotRequest(s)
  OBVIOUS
<1>5. q.vaddr = hhdm_offset + r.base /\ q.paddr = r.base /\ q.length = r.length
  BY <1>3, <1>4
<1>6. q \in [vaddr : Nat, paddr : Nat, length : Nat, flags : SUBSET Rights]
  BY <1>2, <1>3, <1>4 DEF Rights
<1>7. (hhdm_offset + r.base) % PTM_PAGE_GRANULARITY = 0
  <2>1. PTM_PAGE_GRANULARITY \in Nat \ {0}
    BY SizeFacts, LevelAssumption DEF Level
  <2> QED BY <1>2, <2>1, Multiples, Zenon
<1> QED BY <1>2, <1>4, <1>5, <1>6, <1>7 DEF GoodRequest, Unaligned

\* The request for the trampoline ends below the top.
LEMMA TrampolineGood == GoodRequest(TrampolineRequest)
<1>1. /\ Trampoline.vaddr \in Nat /\ Trampoline.paddr \in Nat /\ Trampoline.length \in Nat
      /\ Trampoline.vaddr + Trampoline.length <= TopAddress
  BY ClientsAssumption
<1> QED BY <1>1 DEF GoodRequest, TrampolineRequest, TrampolineFlags, Rights

\* What a step of the users and of the library does to the tables.
LEMMA ClientSteps ==
  ASSUME ClientTypes, [ClientNext]_clientVars
  PROVE  \/ ptm_init \/ map_page
         \/ \E root \in Root : \E r : GoodRequest(r) /\ Ask(root, r)
         \/ UNCHANGED vars
<1>0. "own" \in Root /\ "boot" \in Root
  BY DEF Root
<1>1. ASSUME NEW r \in Requests, EarlyRequest(r)
      PROVE  GoodRequest(r) /\ Ask("own", r)
  BY <1>1, RequestsAssumption DEF EarlyRequest, ptm_map, GoodRequest
<1>2. CASE MapSlot
  <2>1. k \in 1..Len(snapshot)
    <3>1. Len(snapshot) \in Nat
      <4>1. CASE snapshot = <<>>
        BY <4>1
      <4>2. CASE snapshot \in Snapshots
        <5>1. snapshot \in Seq(Slot)
          BY <4>2, ClientsAssumption
        <5> QED BY <5>1
      <4> QED BY <4>1, <4>2 DEF ClientTypes
    <3> QED BY <1>2, <3>1 DEF MapSlot, ClientTypes
  <2>2. GoodRequest(SlotRequest(snapshot[k]))
    BY <2>1, SlotFacts, SlotGood
  <2>3. Ask("own", SlotRequest(snapshot[k]))
    BY <1>2 DEF MapSlot, ptm_map, SlotRequest
  <2> QED BY <1>0, <2>2, <2>3
<1>3. CASE MapTrampolineBoot
  BY <1>0, <1>3, TrampolineGood DEF MapTrampolineBoot, ptm_map_at
<1>4. CASE MapTrampolineOwn
  BY <1>0, <1>4, TrampolineGood DEF MapTrampolineOwn, ptm_map
<1>5. CASE StartDirectMap \/ SkipSlot \/ EndDirectMap \/ UNCHANGED clientVars
  BY <1>5 DEF StartDirectMap, SkipSlot, EndDirectMap, clientVars
<1> QED BY <1>0, <1>1, <1>2, <1>3, <1>4, <1>5 DEF ClientNext, Users, Library

\* Every step keeps the invariant.
LEMMA NextInv ==
  ASSUME IInv, ClientTypes, [ClientNext]_clientVars
  PROVE  IInv' /\ ClientTypes'
<1>1. IInv'
  <2>1. CASE ptm_init
    BY <2>1, PtmInitInv
  <2>2. CASE OutOfMemory \/ RemapPanic
    <3>1. UNCHANGED <<entries, features, request, level>> /\ panic' # "no"
      BY <2>2 DEF OutOfMemory, RemapPanic
    <3> QED BY <3>1, QuietInv
  <2>3. ASSUME NEW root \in Root, NEW r, GoodRequest(r), Ask(root, r) PROVE IInv'
    BY <2>3, AskInv
  <2>4. CASE UNCHANGED vars
    BY <2>4, QuietInv DEF vars
  <2> QED BY <2>1, <2>2, <2>3, <2>4, ClientSteps, DescendInv, SetPageInv DEF map_page
<1>2. ClientTypes'
  <2>1. k' \in Nat \ {0}
    BY DEF ClientTypes, ClientNext, Users, Library, EarlyRequest, StartDirectMap, MapSlot,
       SkipSlot, EndDirectMap, MapTrampolineBoot, MapTrampolineOwn, clientVars
  <2>2. snapshot' = snapshot \/ snapshot' \in Snapshots
    BY DEF ClientNext, Users, Library, EarlyRequest, StartDirectMap, MapSlot,
       SkipSlot, EndDirectMap, MapTrampolineBoot, MapTrampolineOwn, clientVars
  <2> QED BY <2>1, <2>2 DEF ClientTypes
<1> QED BY <1>1, <1>2

\* The tables, the request and the walk stay well formed.
THEOREM Invariance == ClientSpec => [](IInv /\ ClientTypes)
<1>1. ClientInit => IInv /\ ClientTypes
  BY InitInv DEF ClientInit, ClientTypes
<1>2. (IInv /\ ClientTypes) /\ [ClientNext]_clientVars => (IInv /\ ClientTypes)'
  BY NextInv
<1> QED BY <1>1, <1>2, PTL DEF ClientSpec

----------------------------------------------------------------------------
(* Rights, step by step.                                                   *)

\* A step at an entry of one of the tables.
LEMMA DescendDecides ==
  ASSUME IInv, Descend, PageDecides
  PROVE  PageDecides'
<1>1. /\ Mapping /\ entries'[request.root][Here] = Passed
      /\ \A n \in Nodes : n # Here => entries'[request.root][n] = entries[request.root][n]
      /\ \A root \in Root : root # request.root => entries'[root] = entries[root]
      /\ entry.kind # "page"
  BY DescendWrites
<1> SUFFICES ASSUME NEW root \in Root PROVE Decides(entries'[root])
  BY DEF PageDecides
<1>2. Decides(entries[root]) /\ NothingBeneath(entries[root], LevelCount)
  BY DEF PageDecides, IInv, TablesInv
<1>3. CASE root # request.root
  BY <1>1, <1>2, <1>3
<1>4. CASE root = request.root
  <2>1. PICK j \in Level, w \in Address : j = level /\ w = request.vaddr
    BY <1>1, WalkFacts
  <2>2. PICK table, new : table = entries[root] /\ new = entries'[root]
    OBVIOUS
  <2>3. table[Node(j, w)] = entry /\ new[Node(j, w)] = Passed
    BY <1>1, <1>4, <2>1, <2>2 DEF entry, Here
  <2>4. /\ table[Node(j, w)].kind \in {"absent", "table"}
        /\ new[Node(j, w)].kind = "table"
        /\ table[Node(j, w)].kind = "table" =>
              /\ table[Node(j, w)].rw => new[Node(j, w)].rw
              /\ new[Node(j, w)].nx => table[Node(j, w)].nx
    BY <1>1, <2>3, PassedFacts, Zenon DEF PassedTable
  <2>5. \A n \in Nodes : n # Node(j, w) => new[n] = table[n]
    BY <1>1, <1>4, <2>1, <2>2 DEF Here
  <2>6. Decides(new)
    BY <1>2, <2>2, <2>4, <2>5, TableDecides
  <2> QED BY <2>2, <2>6
<1> QED BY <1>3, <1>4

\* The fields of a page.
LEMMA PageFields ==
  ASSUME NEW e, NEW rw, NEW nx, NEW p,
         e = [kind |-> "page", rw |-> rw, nx |-> nx, paddr |-> p]
  PROVE  e.kind = "page" /\ e.rw = rw /\ e.nx = nx /\ e.paddr = p
<1>1. e.kind = "page"
  OBVIOUS
<1>2. e.rw = rw
  OBVIOUS
<1>3. e.nx = nx
  OBVIOUS
<1>4. e.paddr = p
  OBVIOUS
<1> QED BY <1>1, <1>2, <1>3, <1>4

\* A page is stored under tables that the walk has made to allow it.
LEMMA SetPageDecides ==
  ASSUME IInv, SetPage, PageDecides
  PROVE  PageDecides'
<1>1. /\ Mapping
      /\ entries'[request.root][Here] =
           [kind |-> "page", rw |-> request.rw, nx |-> request.nx, paddr |-> request.paddr]
      /\ \A n \in Nodes : n # Here => entries'[request.root][n] = entries[request.root][n]
      /\ \A root \in Root : root # request.root => entries'[root] = entries[root]
  BY SetPageWrites
<1> SUFFICES ASSUME NEW root \in Root PROVE Decides(entries'[root])
  BY DEF PageDecides
<1>2. Decides(entries[root])
  BY DEF PageDecides
<1>3. CASE root # request.root
  BY <1>1, <1>2, <1>3
<1>4. CASE root = request.root
  <2>1. PICK j \in Level, w \in Address : j = level /\ w = request.vaddr
    BY <1>1, WalkFacts
  <2>2. PICK table, new : table = entries[root] /\ new = entries'[root]
    OBVIOUS
  <2>3. /\ new[Node(j, w)].kind = "page" /\ new[Node(j, w)].rw = request.rw
        /\ new[Node(j, w)].nx = request.nx
    <3>1. new[Node(j, w)] = [kind |-> "page", rw |-> request.rw, nx |-> request.nx,
                             paddr |-> request.paddr]
      BY <1>1, <1>4, <2>1, <2>2 DEF Here
    <3> QED BY <3>1, PageFields
  <2>4. \A m \in (j + 1)..LevelCount : PassedTable(table[Node(m, w)])
    BY <1>1, <1>4, <2>1, <2>2, Above
  <2>5. \A m \in (j + 1)..LevelCount :
          /\ table[Node(m, w)].kind = "table"
          /\ new[Node(j, w)].rw => table[Node(m, w)].rw
          /\ table[Node(m, w)].nx => new[Node(j, w)].nx
    BY <2>3, <2>4, Zenon DEF PassedTable
  <2>6. \A n \in Nodes : n # Node(j, w) => new[n] = table[n]
    BY <1>1, <1>4, <2>1, <2>2 DEF Here
  <2>7. Decides(new)
    BY <1>2, <2>2, <2>3, <2>5, <2>6, PageStoreDecides
  <2> QED BY <2>2, <2>7
<1> QED BY <1>3, <1>4

\* Every step leaves the rights to the pages.
LEMMA NextDecides ==
  ASSUME IInv, ClientTypes, PageDecides, [ClientNext]_clientVars
  PROVE  PageDecides'
<1>1. ASSUME entries' = entries PROVE PageDecides'
  BY <1>1 DEF PageDecides
<1>2. CASE ptm_init \/ OutOfMemory \/ RemapPanic \/ UNCHANGED vars
  BY <1>1, <1>2 DEF ptm_init, OutOfMemory, RemapPanic, vars
<1>3. ASSUME NEW root \in Root, NEW r, Ask(root, r) PROVE PageDecides'
  BY <1>1, <1>3 DEF Ask
<1> QED BY <1>2, <1>3, ClientSteps, DescendDecides, SetPageDecides DEF map_page

\* The rights of every page are those of its own entry, through all requests: the
\* walk widens what it passes and nothing narrows it again (ptm.c:69, 72, 74).  The
\* boot loader's tables have to be like that to begin with.
THEOREM PagesDecide ==
  ASSUME Decides(BootTable)
  PROVE  ClientSpec => []PageDecides
<1>1. ClientInit => PageDecides
  <2> SUFFICES ASSUME ClientInit, NEW root \in Root PROVE Decides(entries[root])
    BY DEF PageDecides
  <2>1. CASE root = "boot"
    BY <2>1 DEF ClientInit, Init, Root
  <2>2. CASE root = "own"
    <3>1. \A n \in Nodes : entries[root][n].kind = "absent"
      BY <2>2 DEF ClientInit, Init, Root, Absent
    <3>2. ASSUME NEW l \in Level, NEW v \in Page PROVE ~IsPage(entries[root], LevelCount, l, v)
      <4>1. Node(l, v) \in Nodes
        BY NodeIn DEF Page
      <4> QED BY <3>1, <4>1 DEF IsPage
    <3> QED BY <3>2, Zenon DEF Decides
  <2> QED BY <2>1, <2>2 DEF Root
<1>2. IInv /\ ClientTypes /\ PageDecides /\ [ClientNext]_clientVars => PageDecides'
  BY NextDecides
<1> QED BY <1>1, <1>2, Invariance, PTL DEF ClientSpec

----------------------------------------------------------------------------
(* The address spaces.                                                     *)

\* Going down a level changes no translation.
LEMMA DescendTranslation ==
  ASSUME IInv, Descend, PageDecides, NEW root \in Root, NEW v \in Page
  PROVE  Translation(root, v)' = Translation(root, v)
<1>1. /\ Mapping /\ entries'[request.root][Here] = Passed
      /\ \A n \in Nodes : n # Here => entries'[request.root][n] = entries[request.root][n]
      /\ \A r \in Root : r # request.root => entries'[r] = entries[r]
      /\ entry.kind # "page"
  BY DescendWrites
<1>2. CASE root # request.root
  BY <1>1, <1>2 DEF Translation
<1>3. CASE root = request.root
  <2>1. PICK table \in [Nodes -> EntryType], new \in [Nodes -> EntryType] :
          table = entries[root] /\ new = entries'[root]
    BY DescendWrites DEF IInv, TypeOK
  <2>2. Decides(table) /\ Decides(new) /\ NothingBeneath(table, LevelCount)
    BY <2>1, DescendDecides DEF PageDecides, IInv, TablesInv
  <2>3. PICK j \in Level, w \in Address : j = level /\ w = request.vaddr
    BY <1>1, WalkFacts
  <2>4. table[Node(j, w)] = entry /\ new[Node(j, w)] = Passed
    BY <1>1, <1>3, <2>1, <2>3 DEF entry, Here
  <2>5. /\ table[Node(j, w)].kind \in {"absent", "table"}
        /\ new[Node(j, w)].kind = "table"
    BY <1>1, <2>4, PassedFacts DEF PassedTable
  <2>6. \A n \in Nodes : n # Node(j, w) => new[n] = table[n]
    BY <1>1, <1>3, <2>1, <2>3 DEF Here
  <2>7. v \in Address
    BY DEF Page
  <2>8. ASSUME NEW l \in Level
        PROVE  /\ IsPage(new, LevelCount, l, v) <=> IsPage(table, LevelCount, l, v)
               /\ IsPage(table, LevelCount, l, v) => new[Node(l, v)] = table[Node(l, v)]
    <3>1. IsPage(new, LevelCount, l, v) <=> IsPage(table, LevelCount, l, v)
      BY <2>2, <2>5, <2>6, <2>7, AllLevels, TableKeepsPages
    <3>2. ASSUME IsPage(table, LevelCount, l, v) PROVE new[Node(l, v)] = table[Node(l, v)]
      <4>1. Node(l, v) \in Nodes
        BY <2>7, NodeIn
      <4>2. Node(l, v) # Node(j, w)
        BY <2>5, <3>2 DEF IsPage
      <4> QED BY <2>6, <4>1, <4>2
    <3> QED BY <3>1, <3>2
  <2>9. Translate(new, v) = Translate(table, v)
    BY <2>2, <2>8, TranslateSame
  <2> QED BY <2>1, <2>9 DEF Translation
<1> QED BY <1>2, <1>3

\* Storing a page changes the translation of its addresses, and no other.
LEMMA SetPageTranslation ==
  ASSUME IInv, SetPage, PageDecides, NEW root \in Root, NEW v \in Page
  PROVE  Translation(root, v)' =
            IF /\ root = request.root
               /\ request.vaddr <= v /\ v < request.vaddr + PageSize[level]
            THEN [paddr |-> request.paddr + (v - request.vaddr),
                  rights |-> RightsOf(request.rw, request.nx)]
            ELSE Translation(root, v)
<1>1. /\ Mapping /\ level = lowest_level
      /\ entries'[request.root][Here] =
           [kind |-> "page", rw |-> request.rw, nx |-> request.nx, paddr |-> request.paddr]
      /\ \A n \in Nodes : n # Here => entries'[request.root][n] = entries[request.root][n]
      /\ \A r \in Root : r # request.root => entries'[r] = entries[r]
  BY SetPageWrites
<1>2. CASE root # request.root
  BY <1>1, <1>2 DEF Translation
<1>3. CASE root = request.root
  <2>1. PICK table \in [Nodes -> EntryType], new \in [Nodes -> EntryType] :
          table = entries[root] /\ new = entries'[root]
    BY SetPageWrites DEF IInv, TypeOK
  <2>2. Decides(table) /\ Decides(new)
    BY <2>1, SetPageDecides DEF PageDecides
  <2>3. PICK j \in Level, w \in Address :
          j = level /\ w = request.vaddr /\ w % PageSize[j] = 0
    BY <1>1, WalkFacts DEF FitsLevel
  <2>4. v \in Address /\ v \in Nat /\ w \in Nat
    BY DEF Page, Address
  <2>5. /\ new[Node(j, w)].kind = "page" /\ new[Node(j, w)].rw = request.rw
        /\ new[Node(j, w)].nx = request.nx /\ new[Node(j, w)].paddr = request.paddr
    <3>1. new[Node(j, w)] = [kind |-> "page", rw |-> request.rw, nx |-> request.nx,
                             paddr |-> request.paddr]
      BY <1>1, <1>3, <2>1, <2>3 DEF Here
    <3> QED BY <3>1, PageFields
  <2>6. \A n \in Nodes : n # Node(j, w) => new[n] = table[n]
    BY <1>1, <1>3, <2>1, <2>3 DEF Here
  <2>7. \A m \in (j + 1)..LevelCount : table[Node(m, w)].kind = "table"
    BY <1>1, <1>3, <2>1, <2>3, Above DEF PassedTable
  <2>8. /\ Node(j, v) = Node(j, w) <=> (w <= v /\ v < w + PageSize[j])
        /\ Node(j, v) = Node(j, w) => v % PageSize[j] = v - w
    BY <2>3, <2>4, NodeBlock
  <2>9. CASE Node(j, v) = Node(j, w)
    <3>1. IsPage(new, LevelCount, j, v)
      BY <2>4, <2>5, <2>6, <2>7, <2>9, AllLevels, NewPageFound
    <3>2. Translate(new, v) =
            [paddr |-> new[Node(j, v)].paddr + (v % PageSize[j]),
             rights |-> RightsOf(new[Node(j, v)].rw, new[Node(j, v)].nx)]
      BY <2>2, <3>1, TranslateIs
    <3>3. Translate(new, v) =
            [paddr |-> request.paddr + (v - w), rights |-> RightsOf(request.rw, request.nx)]
      BY <2>5, <2>8, <2>9, <3>2, Zenon
    <3> QED BY <1>3, <2>1, <2>3, <2>8, <2>9, <3>3, Zenon DEF Translation
  <2>10. CASE Node(j, v) # Node(j, w)
    <3>1. j \in 1..LevelCount /\ LevelCount \in 1..LevelCount /\ LevelCount \in Nat
      BY AllLevels
    <3>2. \A m \in 1..LevelCount : new[Node(m, v)] = table[Node(m, v)]
      BY <2>4, <2>6, <2>10, <3>1, OtherWalks
    <3>3. \A l \in 1..LevelCount :
            IsPage(new, LevelCount, l, v) <=> IsPage(table, LevelCount, l, v)
      BY <3>1, <3>2, SameWalk
    <3>4. Translate(new, v) = Translate(table, v)
      BY <2>2, <3>2, <3>3, AllLevels, TranslateSame
    <3> QED BY <1>3, <2>1, <2>3, <2>8, <2>10, <3>4, Zenon DEF Translation
  <2> QED BY <2>9, <2>10
<1> QED BY <1>2, <1>3

\* A step that changes no translation, and stops the machine or ends or begins
\* nothing but a request that has ended, is one of the address spaces.
LEMMA QuietStep ==
  ASSUME \A root \in Root, v \in Page : Translation(root, v)' = Translation(root, v),
         \/ request' = request /\ panic' = panic
         \/ request' = request /\ panic = "no" /\ panic' # "no"
         \/ request.length = 0 /\ panic = "no" /\ panic' = panic
  PROVE  [Spaces!Next]_Spaces!spaceVars
<1>1. [root \in Root |-> [v \in Page |-> Translation(root, v)]]'
        = [root \in Root |-> [v \in Page |-> Translation(root, v)]]
  OBVIOUS
<1>2. CASE request' = request /\ panic' = panic
  BY <1>1, <1>2 DEF Spaces!spaceVars
<1>3. CASE request' = request /\ panic = "no" /\ panic' # "no"
  <2>1. Spaces!Stop
    BY <1>1, <1>3, Zenon DEF Spaces!Stop
  <2> QED BY <2>1 DEF Spaces!Next
<1>4. CASE request.length = 0 /\ panic = "no" /\ panic' = panic
  <2>1. Spaces!Begin
    BY <1>1, <1>4, Zenon DEF Spaces!Begin
  <2> QED BY <2>1 DEF Spaces!Next
<1> QED BY <1>2, <1>3, <1>4

\* Storing a page carries out the request as far as the page goes.
LEMMA SetPageProgress ==
  ASSUME IInv, SetPage, PageDecides
  PROVE  Spaces!Next
<1>1. PICK p \in Nat \ {0} : p = PageSize[level] /\ p <= request.length
  BY AdvanceFacts
<1>2. request' = [root |-> request.root, vaddr |-> request.vaddr + p,
                  paddr |-> request.paddr + p, length |-> request.length - p,
                  rw |-> request.rw, nx |-> request.nx]
  BY <1>1, AdvanceFacts
<1>3. /\ request.root \in Root /\ request.vaddr \in Nat /\ request.paddr \in Nat
      /\ request.length \in Nat
  BY RequestFields DEF IInv
<1>4. request.length - request'.length = p
  BY <1>1, <1>2, <1>3
<1> DEFINE asked == RightsOf(request.rw, request.nx)
           S == [root \in Root |-> [v \in Page |-> Translation(root, v)]]
           T == [v \in Page |->
                   IF request.vaddr <= v /\ v < request.vaddr + p
                     THEN [paddr |-> request.paddr + (v - request.vaddr),
                           rights |-> asked]
                     ELSE S[request.root][v]]
           pending == [root |-> request.root, vaddr |-> request.vaddr,
                       paddr |-> request.paddr, length |-> request.length,
                       rights |-> asked]
<1>5. pending' = [pending EXCEPT !.vaddr = @ + p, !.paddr = @ + p, !.length = @ - p]
  <2>1. asked' = asked
    BY <1>2 DEF RightsOf
  <2>2. /\ request'.root = request.root /\ request'.vaddr = request.vaddr + p
        /\ request'.paddr = request.paddr + p /\ request'.length = request.length - p
    BY <1>2
  <2>3. PICK a, b, c, d, e :
          /\ a = request.root /\ b = request.vaddr /\ c = request.paddr
          /\ d = request.length /\ e = asked
    OBVIOUS
  <2> HIDE DEF asked
  <2>4. pending = [root |-> a, vaddr |-> b, paddr |-> c, length |-> d, rights |-> e]
    BY <2>3, Zenon
  <2>5. pending' = [root |-> a, vaddr |-> b + p, paddr |-> c + p, length |-> d - p,
                    rights |-> e]
    BY <2>1, <2>2, <2>3, Zenon
  <2>6. PICK f, g : f = pending /\ g = pending'
    OBVIOUS
  <2>7. /\ f = [root |-> a, vaddr |-> b, paddr |-> c, length |-> d, rights |-> e]
        /\ g = [root |-> a, vaddr |-> b + p, paddr |-> c + p, length |-> d - p,
                rights |-> e]
    BY <2>4, <2>5, <2>6
  <2> HIDE DEF pending
  <2>8. f.vaddr = b /\ f.paddr = c /\ f.length = d
    BY <2>7
  <2>9. f \in [root : {a}, vaddr : {b}, paddr : {c}, length : {d}, rights : {e}]
    BY <2>7
  <2>10. g = [f EXCEPT !.vaddr = b + p, !.paddr = c + p, !.length = d - p]
    <3>1. /\ b \in Nat /\ c \in Nat /\ d \in Nat
          /\ b + p \in Nat /\ c + p \in Nat /\ d - p \in Nat
      BY <1>1, <1>3, <2>3
    <3>2. f \in [root : {a}, vaddr : Nat, paddr : Nat, length : Nat, rights : {e}]
      BY <2>7, <3>1
    <3>3. PICK h : h = [f EXCEPT !.vaddr = b + p, !.paddr = c + p, !.length = d - p]
      OBVIOUS
    <3>4. h \in [root : {a}, vaddr : Nat, paddr : Nat, length : Nat, rights : {e}]
      BY <3>1, <3>2, <3>3
    <3>5. h.root = a /\ h.vaddr = b + p /\ h.paddr = c + p /\ h.length = d - p /\ h.rights = e
      BY <3>2, <3>3
    <3>6. h = [root |-> h.root, vaddr |-> h.vaddr, paddr |-> h.paddr,
               length |-> h.length, rights |-> h.rights]
      BY <3>4
    <3> QED BY <2>7, <3>3, <3>5, <3>6, Zenon
  <2>11. g = [f EXCEPT !.vaddr = @ + p, !.paddr = @ + p, !.length = @ - p]
    BY <2>8, <2>10, Zenon
  <2> QED BY <2>6, <2>11
<1>6. S' = [S EXCEPT ![request.root] = T]
  <2>1. PICK N : N = S'
    OBVIOUS
  <2>2. ASSUME NEW root \in Root, NEW v \in Page
        PROVE  N[root][v] = IF root = request.root THEN T[v] ELSE S[root][v]
    <3>1. N[root][v] = Translation(root, v)'
      BY <2>1
    <3>2. S[root][v] = Translation(root, v)
      OBVIOUS
    <3>3. Translation(root, v)' =
            IF /\ root = request.root
               /\ request.vaddr <= v /\ v < request.vaddr + p
            THEN [paddr |-> request.paddr + (v - request.vaddr), rights |-> asked]
            ELSE Translation(root, v)
      BY <1>1, SetPageTranslation
    <3>4. root = request.root => T[v] =
            IF request.vaddr <= v /\ v < request.vaddr + p
            THEN [paddr |-> request.paddr + (v - request.vaddr), rights |-> asked]
            ELSE S[root][v]
      BY Zenon
    <3> HIDE DEF S, T, asked
    <3> QED BY <3>1, <3>2, <3>3, <3>4, Zenon
  <2>3. /\ N = [x \in Root |-> [v \in Page |-> N[x][v]]]
        /\ S = [x \in Root |-> [v \in Page |-> S[x][v]]]
        /\ T = [v \in Page |-> T[v]]
    BY <2>1
  <2> HIDE DEF S, T
  <2>4. N = [S EXCEPT ![request.root] = T]
    <3>1. PICK a, b, r : a = S /\ b = T /\ r = request.root
      OBVIOUS
    <3>2. r \in Root /\ r = request.root
      BY <1>3, <3>1
    <3>3. /\ N = [x \in Root |-> [v \in Page |-> N[x][v]]]
          /\ a = [x \in Root |-> [v \in Page |-> a[x][v]]]
          /\ b = [v \in Page |-> b[v]]
      BY <2>3, <3>1, Zenon
    <3>4. \A x \in Root, v \in Page : N[x][v] = IF x = r THEN b[v] ELSE a[x][v]
      BY <2>2, <3>1, <3>2, Zenon
    <3>5. ASSUME NEW x \in Root, x # r PROVE N[x] = a[x]
      <4>1. N[x] = [v \in Page |-> N[x][v]] /\ a[x] = [v \in Page |-> a[x][v]]
        BY <3>3, Zenon
      <4>2. \A v \in Page : N[x][v] = a[x][v]
        BY <3>4, <3>5
      <4> QED BY <4>1, <4>2, Zenon
    <3>6. N[r] = b
      <4>1. N[r] = [v \in Page |-> N[r][v]]
        BY <3>2, <3>3, Zenon
      <4>2. \A v \in Page : N[r][v] = b[v]
        BY <3>2, <3>4
      <4> QED BY <3>3, <4>1, <4>2, Zenon
    <3>7. N = [x \in Root |-> N[x]] /\ a = [x \in Root |-> a[x]]
      BY <3>3
    <3>8. N = [a EXCEPT ![r] = b]
      BY <3>5, <3>6, <3>7
    <3> QED BY <3>1, <3>2, <3>8, Zenon
  <2> QED BY <2>1, <2>4
<1>7. panic = "no" /\ panic' = panic
  BY DEF SetPage, Mapping
<1>8. Spaces!Progress(p)
  <2>1. 0 < p /\ p <= request.length /\ ~(panic # "no") /\ (panic # "no")' = (panic # "no")
    BY <1>1, <1>7
  <2>2. S' = [S EXCEPT ![request.root] =
                [v \in Page |->
                   IF request.vaddr <= v /\ v < request.vaddr + p
                     THEN [paddr |-> request.paddr + (v - request.vaddr),
                           rights |-> asked]
                     ELSE S[request.root][v]]]
    BY <1>6
  <2>3. /\ pending.root = request.root /\ pending.vaddr = request.vaddr
        /\ pending.paddr = request.paddr /\ pending.length = request.length
        /\ pending.rights = asked
    OBVIOUS
  <2>4. S' = [S EXCEPT ![pending.root] =
                [v \in Page |->
                   IF pending.vaddr <= v /\ v < pending.vaddr + p
                     THEN [paddr |-> pending.paddr + (v - pending.vaddr),
                           rights |-> pending.rights]
                     ELSE S[pending.root][v]]]
    <3> HIDE DEF S, asked, pending
    <3> QED BY <2>2, <2>3, Zenon
  <2>5. 0 < p /\ p <= pending.length
    BY <2>1, <2>3
  <2> DEFINE M(v) == IF pending.rights \in {} THEN Unmapped
                     ELSE [paddr |-> pending.paddr + (v - pending.vaddr),
                           rights |-> pending.rights]
  <2>6. S' = [S EXCEPT ![pending.root] =
                [v \in Page |-> IF pending.vaddr <= v /\ v < pending.vaddr + p
                                THEN M(v) ELSE S[pending.root][v]]]
    <3> HIDE DEF S, asked, pending
    <3>1. ASSUME NEW v PROVE M(v) = [paddr |-> pending.paddr + (v - pending.vaddr),
                                     rights |-> pending.rights]
      BY Zenon
    <3> HIDE DEF M
    <3> QED BY <2>4, <3>1, Zenon
  <2> QED BY <1>5, <2>1, <2>5, <2>6, Zenon DEF Spaces!Progress, Spaces!Mapped
<1> QED BY <1>4, <1>8 DEF Spaces!Next

\* Every step is a step of the address spaces, or changes nothing of them.
LEMMA NextImplements ==
  ASSUME IInv, ClientTypes, PageDecides, [ClientNext]_clientVars
  PROVE  [Spaces!Next]_Spaces!spaceVars
<1>1. ASSUME entries' = entries
      PROVE  \A root \in Root, v \in Page : Translation(root, v)' = Translation(root, v)
  BY <1>1 DEF Translation
<1>2. CASE ptm_init
  <2>1. entries' = entries /\ request' = request /\ panic' = panic
    BY <1>2 DEF ptm_init
  <2> QED BY <1>1, <2>1, QuietStep
<1>3. CASE Descend
  <2>1. \A root \in Root, v \in Page : Translation(root, v)' = Translation(root, v)
    BY <1>3, DescendTranslation
  <2>2. request' = request /\ panic' = panic
    BY <1>3 DEF Descend
  <2> QED BY <2>1, <2>2, QuietStep
<1>4. CASE OutOfMemory \/ RemapPanic
  <2>1. entries' = entries /\ request' = request /\ panic = "no" /\ panic' # "no"
    BY <1>4 DEF OutOfMemory, RemapPanic, Mapping
  <2> QED BY <1>1, <2>1, QuietStep
<1>5. CASE SetPage
  BY <1>5, SetPageProgress
<1>6. ASSUME NEW root \in Root, NEW r, Ask(root, r) PROVE [Spaces!Next]_Spaces!spaceVars
  <2>1. /\ entries' = entries /\ panic = "no" /\ request.length <= 0
        /\ (request' = request /\ panic' # "no") \/ panic' = panic
    BY <1>6 DEF Ask, Idle
  <2>2. request.length = 0
    BY <2>1, RequestFields DEF IInv
  <2> QED BY <1>1, <2>1, <2>2, QuietStep
<1>7. CASE UNCHANGED vars
  <2>1. entries' = entries /\ request' = request /\ panic' = panic
    BY <1>7 DEF vars
  <2> QED BY <1>1, <2>1, QuietStep
<1> QED BY <1>2, <1>3, <1>4, <1>5, <1>6, <1>7, ClientSteps DEF map_page

\* The x86_64 tables implement the address spaces: every request maps its pages, in
\* order and with the rights asked for although rights are hierarchical, and neither
\* the walk nor the widening of the tables it passes changes any other page (ptm_map,
\* ptm_map_at, ptm.c:97-129).  The boot loader's tables have to leave the rights of
\* their pages to the pages to begin with.
THEOREM AddressSpacesImplemented ==
  ASSUME Decides(BootTable)
  PROVE  ClientSpec => ImplementsAddressSpace
<1>1. ClientInit => Spaces!Init
  BY DEF ClientInit, Init, NoRequest, Spaces!Init
<1>2. /\ IInv /\ ClientTypes /\ PageDecides /\ [ClientNext]_clientVars
      => [Spaces!Next]_Spaces!spaceVars
  BY NextImplements
<1>3. ClientSpec => []PageDecides
  BY PagesDecide
<1> QED
  BY <1>1, <1>2, <1>3, Invariance, PTL DEF ClientSpec, ImplementsAddressSpace, Spaces!Spec

----------------------------------------------------------------------------
(* The users of the tables.                                                *)

\* The pages of a slot in the direct map.
SlotPages(s) ==
    {v \in Page : /\ hhdm_offset + Rounded(s).base <= v
                  /\ v < hhdm_offset + Rounded(s).base + Rounded(s).length}
\* What such a page has to translate to.
Direct(v) ==
    [paddr |-> v - hhdm_offset, rights |-> RightsOf(TRUE, g_x86_64_cpu_nx_support)]

\* The page is in what is left of a request for the pre-kernel's own tables.
Pending(v) ==
    request.root = "own" /\ request.vaddr <= v /\ v < request.vaddr + request.length

\* Where prekernel_init is.
OrderInv ==
    /\ phase \in {"early", "direct_map", "boot_trampoline", "own_trampoline", "done"}
    /\ phase = "early" => k = 1
    /\ phase # "early" => initialised
    /\ phase \in {"boot_trampoline", "own_trampoline", "done"} => k > Len(snapshot)

\* What can be in progress there.
AskedInv ==
    request.length > 0 =>
        /\ phase = "direct_map" =>
              /\ request.root = "own" /\ request.rw = TRUE
              /\ request.nx = g_x86_64_cpu_nx_support
              /\ request.vaddr = hhdm_offset + request.paddr
        /\ phase # "boot_trampoline"
        /\ phase = "own_trampoline" => request.root = "boot"
        /\ phase = "done" => request.vaddr + request.length <= hhdm_offset

\* The slots that the direct map has come past are mapped but for what is pending.
SlotsInv ==
    \A j \in 1..Len(snapshot) : j < k /\ snapshot[j].type # BAD =>
        \A v \in SlotPages(snapshot[j]) : Pending(v) \/ Translation("own", v) = Direct(v)

\* The inductive invariant of the direct map.
DirectInv == OrderInv /\ AskedInv /\ SlotsInv

\* What is left of the request for the trampoline, for a set of tables.
TrampolinePart(root) ==
    /\ request.root = root /\ request.rw = FALSE /\ request.nx = FALSE
    /\ request.vaddr >= Trampoline.vaddr
    /\ request.vaddr - Trampoline.vaddr = request.paddr - Trampoline.paddr
    /\ request.vaddr + request.length = Trampoline.vaddr + Trampoline.length
\* What a page of the trampoline has to translate to.
TrampolinePage(v) ==
    [paddr |-> Trampoline.paddr + (v - Trampoline.vaddr), rights |-> RightsOf(FALSE, FALSE)]
\* The pages of the trampoline below an address are there.
TrampolineUpTo(root, top) ==
    \A v \in Page : Trampoline.vaddr <= v /\ v < top =>
        Translation(root, v) = TrampolinePage(v)

\* The inductive invariant of the trampoline.
TrampolineInv ==
    /\ phase = "own_trampoline" /\ panic = "no" =>
          TrampolinePart("boot") /\ TrampolineUpTo("boot", request.vaddr)
    /\ phase = "done" /\ panic = "no" =>
          /\ TrampolineUpTo("boot", Trampoline.vaddr + Trampoline.length)
          /\ TrampolinePart("own") /\ TrampolineUpTo("own", request.vaddr)

\* What a step of map_page does to the address spaces.
LEMMA WalkTranslation ==
  ASSUME IInv, PageDecides, map_page
  PROVE  /\ features' = features
         /\ \/ /\ request' = request
               /\ \A root \in Root, v \in Page : Translation(root, v)' = Translation(root, v)
            \/ /\ panic = "no" /\ panic' = panic /\ request.length > 0
               /\ request'.root = request.root
               /\ request'.rw = request.rw /\ request'.nx = request.nx
               /\ \E p \in Nat \ {0} :
                    /\ p <= request.length
                    /\ request'.vaddr = request.vaddr + p
                    /\ request'.paddr = request.paddr + p
                    /\ request'.length = request.length - p
                    /\ \A root \in Root, v \in Page :
                         Translation(root, v)' =
                            IF root = request.root /\ request.vaddr <= v /\ v < request.vaddr + p
                            THEN [paddr |-> request.paddr + (v - request.vaddr),
                                  rights |-> RightsOf(request.rw, request.nx)]
                            ELSE Translation(root, v)
<1>1. features' = features
  BY DEF map_page, Descend, SetPage, OutOfMemory, RemapPanic
<1>2. CASE OutOfMemory \/ RemapPanic
  <2>1. entries' = entries /\ request' = request
    BY <1>2 DEF OutOfMemory, RemapPanic
  <2> QED BY <1>1, <2>1 DEF Translation
<1>3. CASE Descend
  <2>1. request' = request
    BY <1>3 DEF Descend
  <2> QED BY <1>1, <1>3, <2>1, DescendTranslation
<1>4. CASE SetPage
  <2>1. panic = "no" /\ panic' = panic /\ request.length > 0
    BY <1>4 DEF SetPage, Mapping
  <2>2. PICK p \in Nat \ {0} : p = PageSize[level] /\ p <= request.length
    BY <1>4, AdvanceFacts
  <2>3. request' = [root |-> request.root, vaddr |-> request.vaddr + p,
                    paddr |-> request.paddr + p, length |-> request.length - p,
                    rw |-> request.rw, nx |-> request.nx]
    BY <1>4, <2>2, AdvanceFacts
  <2>4. /\ request'.root = request.root /\ request'.vaddr = request.vaddr + p
        /\ request'.paddr = request.paddr + p /\ request'.length = request.length - p
        /\ request'.rw = request.rw /\ request'.nx = request.nx
    BY <2>3, Zenon
  <2>5. \A root \in Root, v \in Page :
          Translation(root, v)' =
             IF root = request.root /\ request.vaddr <= v /\ v < request.vaddr + p
             THEN [paddr |-> request.paddr + (v - request.vaddr),
                   rights |-> RightsOf(request.rw, request.nx)]
             ELSE Translation(root, v)
    BY <1>4, <2>2, SetPageTranslation
  <2> QED BY <1>1, <2>1, <2>2, <2>4, <2>5, Zenon
<1> QED BY <1>2, <1>3, <1>4 DEF map_page

\* A step of map_page takes pages from what is pending and maps them.
LEMMA WalkDirect ==
  ASSUME IInv, ClientTypes, PageDecides, DirectInv, map_page,
         UNCHANGED <<phase, early, snapshot, k>>
  PROVE  DirectInv'
<1>1. features' = features
  BY WalkTranslation
<1>2. OrderInv'
  BY <1>1 DEF DirectInv, OrderInv, features
<1>3. g_x86_64_cpu_nx_support' = g_x86_64_cpu_nx_support /\ "own" \in Root
  BY <1>1 DEF features, Root
<1>4. CASE /\ request' = request
           /\ \A root \in Root, v \in Page : Translation(root, v)' = Translation(root, v)
  <2>1. AskedInv'
    BY <1>3, <1>4 DEF DirectInv, AskedInv
  <2>2. \A v \in Page : Translation("own", v)' = Translation("own", v)
    BY <1>3, <1>4
  <2>3. \A v \in Page : Pending(v)' = Pending(v) /\ Direct(v)' = Direct(v)
    BY <1>3, <1>4 DEF Pending, Direct
  <2>4. SlotsInv'
    BY <2>2, <2>3, Zenon DEF DirectInv, SlotsInv, SlotPages
  <2> QED BY <1>2, <2>1, <2>4 DEF DirectInv
<1>5. ASSUME request.length > 0,
             request'.root = request.root,
             request'.rw = request.rw, request'.nx = request.nx,
             NEW p \in Nat \ {0},
             p <= request.length,
             request'.vaddr = request.vaddr + p,
             request'.paddr = request.paddr + p,
             request'.length = request.length - p,
             \A root \in Root, v \in Page :
               Translation(root, v)' =
                  IF root = request.root /\ request.vaddr <= v /\ v < request.vaddr + p
                  THEN [paddr |-> request.paddr + (v - request.vaddr),
                        rights |-> RightsOf(request.rw, request.nx)]
                  ELSE Translation(root, v)
      PROVE  DirectInv'
  <2>0. /\ request.vaddr \in Nat /\ request.paddr \in Nat /\ request.length \in Nat
        /\ hhdm_offset \in Nat
    BY RequestFields, ClientsAssumption DEF IInv
  <2>1. AskedInv'
    <3>1. request.vaddr + p = hhdm_offset + (request.paddr + p)
            <=> request.vaddr = hhdm_offset + request.paddr
      BY <2>0
    <3>2. (request.vaddr + p) + (request.length - p) = request.vaddr + request.length
      BY <2>0
    <3> QED BY <1>3, <1>5, <3>1, <3>2, Zenon DEF DirectInv, AskedInv
  <2>2. SlotsInv'
    <3> SUFFICES ASSUME NEW j \in 1..Len(snapshot), j < k, snapshot[j].type # BAD,
                        NEW v \in SlotPages(snapshot[j])
                 PROVE  Pending(v)' \/ Translation("own", v)' = Direct(v)'
      BY Zenon DEF SlotsInv, SlotPages
    <3>1. v \in Page /\ v \in Nat
      BY DEF SlotPages, Page, Address
    <3>2. Pending(v) \/ Translation("own", v) = Direct(v)
      BY DEF DirectInv, SlotsInv
    <3>3. Direct(v)' = Direct(v)
      BY <1>3 DEF Direct
    <3>4. CASE request.root = "own" /\ request.vaddr <= v /\ v < request.vaddr + p
      <4>1. phase = "direct_map"
        <5>1. phase # "early"
          BY DEF DirectInv, OrderInv
        <5>2. v >= hhdm_offset
          <6>1. PICK r : r = Rounded(snapshot[j])
            OBVIOUS
          <6>2. hhdm_offset + r.base <= v /\ r.base \in Nat
            BY <6>1, SlotFacts, RoundedFacts DEF SlotPages
          <6> QED BY <2>0, <3>1, <6>2
        <5>3. phase # "done"
          <6>1. v < request.vaddr + request.length
            BY <1>5, <2>0, <3>1, <3>4
          <6> QED BY <1>5, <2>0, <3>1, <5>2, <6>1 DEF DirectInv, AskedInv
        <5> QED BY <1>5, <3>4, <5>1, <5>3 DEF DirectInv, OrderInv, AskedInv
      <4>2. /\ request.rw = TRUE /\ request.nx = g_x86_64_cpu_nx_support
            /\ request.vaddr = hhdm_offset + request.paddr
        BY <1>5, <4>1 DEF DirectInv, AskedInv
      <4>3. Translation("own", v)' = [paddr |-> request.paddr + (v - request.vaddr),
                                      rights |-> RightsOf(request.rw, request.nx)]
        BY <1>3, <1>5, <3>1, <3>4
      <4>4. request.paddr + (v - request.vaddr) = v - hhdm_offset
        BY <2>0, <3>1, <4>2
      <4>5. Translation("own", v)' = Direct(v)
        BY <4>2, <4>3, <4>4, Zenon DEF Direct
      <4> QED BY <3>3, <4>5
    <3>5. CASE ~(request.root = "own" /\ request.vaddr <= v /\ v < request.vaddr + p)
      <4>1. Translation("own", v)' = Translation("own", v)
        BY <1>3, <1>5, <3>1, <3>5
      <4>2. ASSUME Pending(v) PROVE Pending(v)'
        <5>1. request.root = "own" /\ request.vaddr + p <= v /\ v < request.vaddr + request.length
          BY <1>5, <2>0, <3>1, <3>5, <4>2 DEF Pending
        <5>2. v < (request.vaddr + p) + (request.length - p)
          BY <2>0, <3>1, <5>1
        <5> QED BY <1>5, <5>1, <5>2 DEF Pending
      <4> QED BY <3>2, <3>3, <4>1, <4>2
    <3> QED BY <3>4, <3>5
  <2> QED BY <1>2, <2>1, <2>2 DEF DirectInv
<1> QED BY <1>4, <1>5, WalkTranslation

\* The length of a snapshot.
LEMMA SnapshotLength ==
  ASSUME ClientTypes
  PROVE  Len(snapshot) \in Nat
<1>1. CASE snapshot = <<>>
  BY <1>1
<1>2. CASE snapshot \in Snapshots
  <2>1. snapshot \in Seq(Slot)
    BY <1>2, ClientsAssumption
  <2> QED BY <2>1
<1> QED BY <1>1, <1>2 DEF ClientTypes

\* Nothing is pending between two requests: the slots that the direct map has come
\* past are mapped.
LEMMA IdleDirect ==
  ASSUME IInv, SlotsInv, request.length = 0, NEW j \in 1..Len(snapshot), j < k,
         snapshot[j].type # BAD, NEW v \in SlotPages(snapshot[j])
  PROVE  Translation("own", v) = Direct(v)
<1>1. request.vaddr \in Nat /\ v \in Nat
  BY RequestFields DEF IInv, SlotPages, Page, Address
<1>2. ~Pending(v)
  BY <1>1 DEF Pending
<1> QED BY <1>2 DEF SlotsInv

\* A step that asks for something, or only goes on to the next phase, leaves the
\* slots that the direct map has come past.
LEMMA AskSlots ==
  ASSUME IInv, SlotsInv, request.length = 0, entries' = entries, features' = features,
         snapshot' = snapshot,
         \A j \in 1..Len(snapshot) : j < k' /\ snapshot[j].type # BAD =>
            j < k \/ \A v \in SlotPages(snapshot[j]) : Pending(v)'
  PROVE  SlotsInv'
<1> SUFFICES ASSUME NEW j \in 1..Len(snapshot), j < k', snapshot[j].type # BAD,
                    NEW v \in SlotPages(snapshot[j])
             PROVE  Pending(v)' \/ Translation("own", v)' = Direct(v)'
  BY Zenon DEF SlotsInv, SlotPages
<1>1. Translation("own", v)' = Translation("own", v) /\ Direct(v)' = Direct(v)
  BY DEF Translation, Direct, features
<1>2. CASE j < k
  BY <1>1, <1>2, IdleDirect
<1> QED BY <1>2

\* The next slot of the snapshot is asked for, all its pages at their offset.
LEMMA MapSlotAsks ==
  ASSUME IInv, ClientTypes, MapSlot, NEW r, r = Rounded(snapshot[k])
  PROVE  /\ request'.root = "own" /\ request'.vaddr = hhdm_offset + r.base
         /\ request'.paddr = r.base /\ request'.length = r.length
         /\ request'.rw = TRUE /\ request'.nx = g_x86_64_cpu_nx_support
         /\ UNCHANGED <<entries, features>>
         /\ request.length = 0 /\ k \in 1..Len(snapshot)
<1>1. /\ phase = "direct_map" /\ phase' = phase /\ snapshot' = snapshot /\ k' = k + 1
      /\ k <= Len(snapshot) /\ Ask("own", SlotRequest(snapshot[k]))
  BY DEF MapSlot, ptm_map, SlotRequest
<1>2. k \in 1..Len(snapshot)
  BY <1>1, SnapshotLength DEF ClientTypes
<1>3. PICK s : s = snapshot[k] /\ r = Rounded(s)
  OBVIOUS
<1>4. /\ GoodRequest(SlotRequest(s)) /\ r.base \in Nat /\ r.length \in Nat
      /\ ~Unaligned(SlotRequest(s).vaddr, SlotRequest(s).paddr, SlotRequest(s).length)
  BY <1>2, <1>3, SlotFacts, SlotGood, RoundedFacts
<1>5. /\ SlotRequest(s).vaddr = hhdm_offset + r.base /\ SlotRequest(s).paddr = r.base
      /\ SlotRequest(s).length = r.length /\ SlotRequest(s).flags = {"READ", "WRITE"}
  BY <1>3 DEF SlotRequest
<1>6. /\ request'.root = "own" /\ request'.vaddr = hhdm_offset + r.base
      /\ request'.paddr = r.base /\ request'.length = r.length
      /\ request'.rw = TRUE /\ request'.nx = g_x86_64_cpu_nx_support
      /\ UNCHANGED <<entries, features>>
  <2>1. PICK q : q = SlotRequest(s)
    OBVIOUS
  <2>2. Ask("own", q) /\ GoodRequest(q) /\ ~Unaligned(q.vaddr, q.paddr, q.length)
    BY <1>1, <1>3, <1>4, <2>1
  <2>3. /\ request'.root = "own" /\ request'.vaddr = q.vaddr /\ request'.paddr = q.paddr
        /\ request'.length = q.length
        /\ request'.rw = ("WRITE" \in q.flags)
        /\ request'.nx = (g_x86_64_cpu_nx_support /\ "EXEC" \notin q.flags)
        /\ UNCHANGED <<entries, features>>
    <3>1. "own" \in Root
      BY DEF Root
    <3> QED BY <2>2, <3>1, AskFacts, Zenon
  <2>4. "WRITE" \in q.flags /\ "EXEC" \notin q.flags
    BY <1>5, <2>1
  <2>5. g_x86_64_cpu_nx_support \in BOOLEAN
    BY DEF IInv, TypeOK
  <2>6. request'.rw = TRUE /\ request'.nx = g_x86_64_cpu_nx_support
    BY <2>3, <2>4, <2>5, Zenon
  <2> QED BY <1>5, <2>1, <2>3, <2>6
<1>7. request.length = 0
  BY <1>1, RequestFields DEF Ask, Idle, IInv
<1> QED BY <1>2, <1>6, <1>7

\* The direct map goes on to the next slot.
LEMMA MapSlotDirect ==
  ASSUME IInv, ClientTypes, DirectInv, MapSlot
  PROVE  DirectInv'
<1>1. /\ phase = "direct_map" /\ phase' = phase /\ snapshot' = snapshot /\ k' = k + 1
  BY DEF MapSlot
<1>3. PICK r : r = Rounded(snapshot[k])
  OBVIOUS
<1>6. /\ request'.root = "own" /\ request'.vaddr = hhdm_offset + r.base
      /\ request'.paddr = r.base /\ request'.length = r.length
      /\ request'.rw = TRUE /\ request'.nx = g_x86_64_cpu_nx_support
      /\ UNCHANGED <<entries, features>>
      /\ request.length = 0 /\ k \in 1..Len(snapshot)
  BY <1>3, MapSlotAsks
<1>8. OrderInv'
  BY <1>1, <1>6 DEF DirectInv, OrderInv, features
<1>9. AskedInv'
  BY <1>1, <1>6 DEF AskedInv, features
<1>10. SlotsInv'
  <2>1. ASSUME NEW j \in 1..Len(snapshot), j < k', snapshot[j].type # BAD
        PROVE  j < k \/ \A v \in SlotPages(snapshot[j]) : Pending(v)'
    <3>1. CASE j = k
      BY <1>3, <1>6, <3>1 DEF SlotPages, Pending
    <3> QED BY <1>1, <2>1, <3>1 DEF ClientTypes
  <2> QED BY <1>1, <1>6, <2>1, AskSlots DEF DirectInv
<1> QED BY <1>8, <1>9, <1>10 DEF DirectInv

\* The trampoline is asked for below the direct map.
LEMMA MapTrampolineDirect ==
  ASSUME IInv, ClientTypes, DirectInv, MapTrampolineBoot \/ MapTrampolineOwn,
         Trampoline.vaddr + Trampoline.length <= hhdm_offset
  PROVE  DirectInv'
<1>1. PICK root \in Root :
        /\ Ask(root, TrampolineRequest)
        /\ (root = "boot" /\ phase' = "own_trampoline") \/ phase' = "done"
        /\ phase \in {"boot_trampoline", "own_trampoline"}
        /\ UNCHANGED <<snapshot, k>>
  BY DEF MapTrampolineBoot, MapTrampolineOwn, ptm_map, ptm_map_at, Root
<1>2. request.length = 0 /\ entries' = entries /\ features' = features
  BY <1>1, RequestFields DEF Ask, Idle, IInv
<1>3. OrderInv'
  BY <1>1, <1>2 DEF DirectInv, OrderInv, features
<1>4. AskedInv'
  <2>1. CASE Unaligned(TrampolineRequest.vaddr, TrampolineRequest.paddr,
                       TrampolineRequest.length)
    <3>1. request' = request
      BY <1>1, <2>1 DEF Ask
    <3> QED BY <1>2, <3>1 DEF AskedInv
  <2>2. CASE ~Unaligned(TrampolineRequest.vaddr, TrampolineRequest.paddr,
                        TrampolineRequest.length)
    <3>1. /\ request'.root = root /\ request'.vaddr = TrampolineRequest.vaddr
          /\ request'.length = TrampolineRequest.length
      BY <1>1, <2>2, AskFacts, TrampolineGood
    <3>2. TrampolineRequest.vaddr + TrampolineRequest.length <= hhdm_offset
      BY DEF TrampolineRequest
    <3> QED BY <1>1, <3>1, <3>2 DEF AskedInv
  <2> QED BY <2>1, <2>2
<1>5. SlotsInv'
  BY <1>1, <1>2, AskSlots DEF DirectInv
<1> QED BY <1>3, <1>4, <1>5 DEF DirectInv

\* Every step keeps the direct map.
LEMMA NextDirect ==
  ASSUME IInv, ClientTypes, PageDecides, DirectInv, [ClientNext]_clientVars,
         Trampoline.vaddr + Trampoline.length <= hhdm_offset
  PROVE  DirectInv'
<1>1. CASE map_page /\ UNCHANGED <<phase, early, snapshot, k>>
  BY <1>1, WalkDirect
<1>2. CASE phase' = "early" /\ phase = "early" /\ k' = k
  <2>1. k' = 1
    BY <1>2 DEF DirectInv, OrderInv
  <2>2. OrderInv' /\ AskedInv'
    BY <1>2, <2>1 DEF OrderInv, AskedInv
  <2>3. SlotsInv'
    BY <2>1 DEF SlotsInv
  <2> QED BY <2>2, <2>3 DEF DirectInv
<1>3. CASE ptm_init /\ UNCHANGED <<phase, early, snapshot, k>>
  <2>1. phase = "early"
    BY <1>3 DEF ptm_init, DirectInv, OrderInv
  <2> QED BY <1>2, <1>3, <2>1
<1>4. ASSUME NEW r \in Requests, EarlyRequest(r) PROVE DirectInv'
  BY <1>2, <1>4 DEF EarlyRequest
<1>5. CASE StartDirectMap
  <2>1. k' = 1 /\ request.length = 0 /\ request' = request
    BY <1>5, RequestFields DEF StartDirectMap, Idle, DirectInv, OrderInv, IInv, vars
  <2>2. OrderInv' /\ AskedInv'
    BY <1>5, <2>1 DEF StartDirectMap, Idle, OrderInv, AskedInv, vars, features
  <2>3. SlotsInv'
    BY <2>1 DEF SlotsInv
  <2> QED BY <2>2, <2>3 DEF DirectInv
<1>6. CASE SkipSlot \/ EndDirectMap
  <2>1. /\ request.length = 0 /\ request' = request /\ entries' = entries
        /\ features' = features /\ snapshot' = snapshot
    BY <1>6, RequestFields DEF SkipSlot, EndDirectMap, Idle, IInv, vars
  <2>2. OrderInv'
    BY <1>6, <2>1 DEF SkipSlot, EndDirectMap, DirectInv, OrderInv, features
  <2>3. AskedInv'
    BY <2>1 DEF AskedInv
  <2>4. \A j \in 1..Len(snapshot) : j < k' /\ snapshot[j].type # BAD => j < k
    BY <1>6 DEF SkipSlot, EndDirectMap, ClientTypes
  <2>5. SlotsInv'
    BY <2>1, <2>4, AskSlots DEF DirectInv
  <2> QED BY <2>2, <2>3, <2>5 DEF DirectInv
<1>7. CASE UNCHANGED clientVars
  <2>1. UNCHANGED <<entries, features, request, phase, snapshot, k>>
    BY <1>7 DEF clientVars, vars
  <2>2. OrderInv' /\ AskedInv'
    BY <2>1 DEF DirectInv, OrderInv, AskedInv, features
  <2>3. \A v : Pending(v)' = Pending(v) /\ Direct(v)' = Direct(v)
               /\ Translation("own", v)' = Translation("own", v)
    BY <2>1 DEF Pending, Direct, Translation, features
  <2>4. SlotsInv'
    BY <2>1, <2>3, Zenon DEF DirectInv, SlotsInv, SlotPages
  <2> QED BY <2>2, <2>4 DEF DirectInv
<1> QED BY <1>1, <1>3, <1>4, <1>5, <1>6, <1>7, MapSlotDirect, MapTrampolineDirect
     DEF ClientNext, Users, Library

\* A page that holds memory of a slot is one of the pages of the slot.
LEMMA MemoryInSlotPages ==
  ASSUME NEW s, s \in Slot, s.base + s.length <= PhysicalTop, NEW a \in Reachable(s)
  PROVE  /\ PageOf(hhdm_offset + a) \in SlotPages(s)
         /\ PageOf(hhdm_offset + a) - hhdm_offset = PageOf(a)
<1>1. PICK g \in Nat \ {0} : g = PTM_PAGE_GRANULARITY
  BY SizeFacts, LevelAssumption DEF Level
<1>2. PICK r : r = Rounded(s)
  OBVIOUS
<1>3. /\ r.base \in Nat /\ r.length \in Nat /\ r.base % g = 0 /\ r.length % g = 0
      /\ hhdm_offset \in Nat /\ hhdm_offset % g = 0
      /\ r.base <= s.base /\ s.base + s.length <= r.base + r.length
      /\ hhdm_offset + r.base + r.length <= TopAddress
  BY <1>1, <1>2, RoundedFacts
<1>4. a \in Nat /\ s.base <= a /\ a < s.base + s.length /\ s.base \in Nat /\ s.length \in Nat
  BY DEF Reachable, Slot
<1>5. PICK q \in Nat, o \in Nat : o = a % g /\ q = a - o /\ o < g /\ q % g = 0
  <2>1. PICK d \in Nat : a % g \in Nat /\ a % g < g /\ a = g * d + (a % g)
    BY <1>4, Divide
  <2>2. g * d \in Nat /\ (g * d) % g = 0
    BY MultipleOf
  <2> QED BY <1>4, <2>1, <2>2
<1>6. (hhdm_offset + q) % g = 0
  BY <1>3, <1>5, Multiples, Zenon
<1>7. (hhdm_offset + a) % g = o
  <2>1. PICK b \in Nat : b = hhdm_offset + q /\ b % g = 0
    BY <1>3, <1>5, <1>6
  <2>2. PICK n \in Nat : b = g * n
    BY <2>1, Factor
  <2>3. hhdm_offset + a = g * n + o
    <3>1. hhdm_offset + a = b + o
      BY <1>3, <1>4, <1>5, <2>1
    <3> QED BY <2>2, <3>1, Zenon
  <2>4. (g * n + o) % g = o
    BY <1>5, Quotient
  <2> QED BY <2>3, <2>4
<1>8. PageOf(a) = q /\ PageOf(hhdm_offset + a) = hhdm_offset + q
  <2>1. (hhdm_offset + a) - o = hhdm_offset + q
    BY <1>3, <1>4, <1>5
  <2> QED BY <1>1, <1>5, <1>7, <2>1 DEF PageOf
<1>9. r.base <= q
  <2>1. CASE q < r.base
    <3>1. r.base >= q + g
      BY <1>3, <1>5, <2>1, Multiples
    <3> QED BY <1>3, <1>4, <1>5, <2>1, <3>1
  <2> QED BY <1>3, <1>5, <2>1
<1>10. q < r.base + r.length
  <2>1. q <= a
    BY <1>4, <1>5
  <2>2. PICK x \in Nat, y \in Nat : x = r.base + r.length /\ y = s.base + s.length
    BY <1>3, <1>4
  <2>3. a < y /\ y <= x
    BY <1>3, <1>4, <2>2
  <2>4. q < x
    BY <1>4, <1>5, <2>1, <2>2, <2>3
  <2> QED BY <2>2, <2>4
<1>11. hhdm_offset + q \in Page
  <2>1. hhdm_offset + q < TopAddress /\ TopAddress \in Nat
    BY <1>3, <1>5, <1>10, TopAssumption
  <2> QED BY <1>1, <1>3, <1>5, <1>6, <2>1 DEF Page, Address
<1>12. hhdm_offset + q \in SlotPages(s)
  BY <1>2, <1>3, <1>5, <1>9, <1>10, <1>11 DEF SlotPages
<1> QED BY <1>3, <1>5, <1>8, <1>12

\* The invariant says what the property says.
LEMMA DirectInvMeans == IInv /\ ClientTypes /\ DirectInv => DirectMapped
<1> SUFFICES ASSUME IInv, ClientTypes, DirectInv,
                    phase \in {"boot_trampoline", "own_trampoline", "done"},
                    NEW j \in Mapped, NEW a \in Reachable(snapshot[j])
             PROVE  Translation("own", PageOf(hhdm_offset + a)) =
                       [paddr |-> PageOf(a), rights |-> RightsOf(TRUE, g_x86_64_cpu_nx_support)]
  BY DEF DirectMapped
<1>1. j \in 1..Len(snapshot) /\ snapshot[j].type # BAD
  BY DEF Mapped
<1>2. j < k
  BY <1>1, SnapshotLength DEF DirectInv, OrderInv, ClientTypes
<1>3. snapshot[j] \in Slot /\ snapshot[j].base + snapshot[j].length <= PhysicalTop
  BY <1>1, SlotFacts
<1>4. PICK v : v = PageOf(hhdm_offset + a)
  OBVIOUS
<1>5. v \in SlotPages(snapshot[j]) /\ v - hhdm_offset = PageOf(a)
  BY <1>3, <1>4, MemoryInSlotPages
<1>6. ~Pending(v)
  <2>1. v \in Nat /\ hhdm_offset \in Nat /\ request.vaddr \in Nat /\ request.length \in Nat
    BY <1>5, RequestFields, ClientsAssumption DEF IInv, SlotPages, Page, Address
  <2>2. hhdm_offset <= v
    <3>1. PICK r : r = Rounded(snapshot[j])
      OBVIOUS
    <3>2. r.base \in Nat /\ hhdm_offset + r.base <= v
      BY <1>3, <1>5, <3>1, RoundedFacts DEF SlotPages
    <3> QED BY <2>1, <3>2
  <2>3. CASE request.length = 0
    BY <2>1, <2>3 DEF Pending
  <2>4. CASE request.length > 0 /\ phase = "own_trampoline"
    BY <2>4 DEF DirectInv, AskedInv, Pending
  <2>5. CASE request.length > 0 /\ phase = "done"
    BY <2>1, <2>2, <2>5 DEF DirectInv, AskedInv, Pending
  <2> QED BY <2>1, <2>3, <2>4, <2>5 DEF DirectInv, AskedInv
<1>7. Translation("own", v) = Direct(v)
  BY <1>1, <1>2, <1>5, <1>6 DEF DirectInv, SlotsInv
<1> QED BY <1>4, <1>5, <1>7, Zenon DEF Direct

\* All memory of the snapshot is in the direct map, at its offset, for every snapshot,
\* every layout of it into pages of every size, and every order of requests before.
\* The trampoline is mapped afterwards and must be below (it is at 0x1000, arch.c:50).
THEOREM DirectMapComplete ==
  ASSUME Decides(BootTable), Trampoline.vaddr + Trampoline.length <= hhdm_offset
  PROVE  ClientSpec => []DirectMapped
<1>1. ClientInit => DirectInv
  <2> SUFFICES ASSUME ClientInit PROVE DirectInv
    OBVIOUS
  <2>1. phase = "early" /\ k = 1 /\ request.length = 0
    BY DEF ClientInit, Init, NoRequest
  <2>2. OrderInv /\ AskedInv
    BY <2>1 DEF OrderInv, AskedInv
  <2>3. SlotsInv
    BY <2>1 DEF SlotsInv
  <2> QED BY <2>2, <2>3 DEF DirectInv
<1>2. /\ IInv /\ ClientTypes /\ PageDecides /\ DirectInv /\ [ClientNext]_clientVars
      => DirectInv'
  BY NextDirect
<1>3. ClientSpec => []PageDecides
  BY PagesDecide
<1> QED BY <1>1, <1>2, <1>3, Invariance, DirectInvMeans, PTL DEF ClientSpec

----------------------------------------------------------------------------
(* The trampoline.                                                         *)

\* The trampoline is asked for: nothing of it has to be there yet.
LEMMA MapTrampolinePart ==
  ASSUME IInv, NEW root \in Root, Ask(root, TrampolineRequest), panic' = "no"
  PROVE  TrampolinePart(root)' /\ request'.vaddr = Trampoline.vaddr
<1>1. PICK q : q = TrampolineRequest
  OBVIOUS
<1>2. /\ q.vaddr = Trampoline.vaddr /\ q.paddr = Trampoline.paddr
      /\ q.length = Trampoline.length /\ q.flags = {"READ", "EXEC"}
  BY <1>1 DEF TrampolineRequest, TrampolineFlags
<1>3. GoodRequest(q) /\ Ask(root, q) /\ ~Unaligned(q.vaddr, q.paddr, q.length)
  <2>1. Ask(root, q)
    BY <1>1
  <2> QED BY <1>1, <2>1, TrampolineGood DEF Ask
<1>4. /\ request'.root = root /\ request'.vaddr = q.vaddr /\ request'.paddr = q.paddr
      /\ request'.length = q.length
      /\ request'.rw = ("WRITE" \in q.flags)
      /\ request'.nx = (g_x86_64_cpu_nx_support /\ "EXEC" \notin q.flags)
  BY <1>3, AskFacts, Zenon
<1>5. "WRITE" \notin q.flags /\ "EXEC" \in q.flags
  BY <1>2
<1>6. request'.rw = FALSE /\ request'.nx = FALSE
  <2>1. ("WRITE" \in q.flags) = FALSE
    BY <1>5
  <2>2. (g_x86_64_cpu_nx_support /\ "EXEC" \notin q.flags) = FALSE
    BY <1>5
  <2>3. request'.rw = FALSE
    BY <1>4, <2>1, Zenon
  <2>4. request'.nx = FALSE
    BY <1>4, <2>2, Zenon
  <2> QED BY <2>3, <2>4
<1>7. Trampoline.vaddr \in Nat /\ Trampoline.paddr \in Nat /\ Trampoline.length \in Nat
  BY ClientsAssumption
<1> QED BY <1>2, <1>4, <1>6, <1>7 DEF TrampolinePart

\* A step of map_page maps pages of the trampoline and leaves the others.
LEMMA WalkPart ==
  ASSUME IInv, PageDecides, map_page, panic' = "no", NEW root \in Root,
         TrampolinePart(root), TrampolineUpTo(root, request.vaddr)
  PROVE  /\ TrampolinePart(root)' /\ TrampolineUpTo(root, request.vaddr)'
         /\ \A r \in Root, v \in Page :
              r # root => Translation(r, v)' = Translation(r, v)
<1>1. CASE /\ request' = request
           /\ \A r \in Root, v \in Page : Translation(r, v)' = Translation(r, v)
  BY <1>1, Zenon DEF TrampolinePart, TrampolineUpTo, TrampolinePage
<1>2. ASSUME request'.root = request.root,
             request'.rw = request.rw, request'.nx = request.nx,
             NEW p \in Nat \ {0},
             p <= request.length,
             request'.vaddr = request.vaddr + p,
             request'.paddr = request.paddr + p,
             request'.length = request.length - p,
             \A r \in Root, v \in Page :
               Translation(r, v)' =
                  IF r = request.root /\ request.vaddr <= v /\ v < request.vaddr + p
                  THEN [paddr |-> request.paddr + (v - request.vaddr),
                        rights |-> RightsOf(request.rw, request.nx)]
                  ELSE Translation(r, v)
      PROVE  /\ TrampolinePart(root)' /\ TrampolineUpTo(root, request.vaddr)'
             /\ \A r \in Root, v \in Page :
                  r # root => Translation(r, v)' = Translation(r, v)
  <2>0. /\ request.vaddr \in Nat /\ request.paddr \in Nat /\ request.length \in Nat
        /\ Trampoline.vaddr \in Nat /\ Trampoline.paddr \in Nat /\ Trampoline.length \in Nat
    BY RequestFields, ClientsAssumption DEF IInv
  <2>1. /\ request.root = root /\ request.rw = FALSE /\ request.nx = FALSE
        /\ request.vaddr >= Trampoline.vaddr
        /\ request.vaddr - Trampoline.vaddr = request.paddr - Trampoline.paddr
        /\ request.vaddr + request.length = Trampoline.vaddr + Trampoline.length
    BY DEF TrampolinePart
  <2>2. TrampolinePart(root)'
    <3>1. /\ request.vaddr + p >= Trampoline.vaddr
          /\ (request.vaddr + p) - Trampoline.vaddr = (request.paddr + p) - Trampoline.paddr
          /\ (request.vaddr + p) + (request.length - p) = Trampoline.vaddr + Trampoline.length
      BY <2>0, <2>1
    <3> QED BY <1>2, <2>1, <3>1, Zenon DEF TrampolinePart
  <2>3. ASSUME NEW v \in Page, Trampoline.vaddr <= v, v < request.vaddr + p
        PROVE  Translation(root, v)' = TrampolinePage(v)
    <3>0. v \in Nat
      BY DEF Page, Address
    <3>1. CASE request.vaddr <= v
      <4>1. Translation(root, v)' = [paddr |-> request.paddr + (v - request.vaddr),
                                     rights |-> RightsOf(request.rw, request.nx)]
        BY <1>2, <2>1, <2>3, <3>1
      <4>2. request.paddr + (v - request.vaddr) = Trampoline.paddr + (v - Trampoline.vaddr)
        BY <2>0, <2>1, <3>0
      <4> QED BY <2>1, <4>1, <4>2, Zenon DEF TrampolinePage
    <3>2. CASE v < request.vaddr
      <4>1. Translation(root, v)' = Translation(root, v)
        BY <1>2, <2>0, <3>0, <3>2
      <4> QED BY <2>3, <3>2, <4>1 DEF TrampolineUpTo
    <3> QED BY <2>0, <3>0, <3>1, <3>2
  <2>4. TrampolineUpTo(root, request.vaddr)'
    BY <1>2, <2>3, Zenon DEF TrampolineUpTo, TrampolinePage
  <2>5. \A r \in Root, v \in Page : r # root => Translation(r, v)' = Translation(r, v)
    BY <1>2, <2>1
  <2> QED BY <2>2, <2>4, <2>5
<1> QED BY <1>1, <1>2, WalkTranslation

\* Every step keeps the order of prekernel_init.
LEMMA NextOrder ==
  ASSUME IInv, ClientTypes, OrderInv, [ClientNext]_clientVars
  PROVE  OrderInv'
<1>1. initialised' = initialised \/ initialised'
  BY DEF ClientNext, Users, Library, EarlyRequest, StartDirectMap, MapSlot, SkipSlot,
     EndDirectMap, MapTrampolineBoot, MapTrampolineOwn, ptm_map, ptm_map_at, Ask, ptm_init,
     map_page, Descend, OutOfMemory, RemapPanic, SetPage, clientVars, vars, features
<1>2. CASE UNCHANGED <<phase, snapshot, k>>
  BY <1>1, <1>2 DEF OrderInv
<1>3. CASE StartDirectMap
  BY <1>3 DEF StartDirectMap, Idle, OrderInv, vars, features
<1>4. CASE MapSlot \/ SkipSlot \/ EndDirectMap
  BY <1>1, <1>4 DEF MapSlot, SkipSlot, EndDirectMap, OrderInv
<1>5. CASE MapTrampolineBoot \/ MapTrampolineOwn
  BY <1>1, <1>5 DEF MapTrampolineBoot, MapTrampolineOwn, OrderInv
<1> QED BY <1>2, <1>3, <1>4, <1>5
     DEF ClientNext, Users, Library, EarlyRequest, clientVars

\* Every step keeps what is known of the trampoline.
LEMMA NextTrampoline ==
  ASSUME IInv, ClientTypes, PageDecides, OrderInv, TrampolineInv, [ClientNext]_clientVars
  PROVE  TrampolineInv'
<1>0. "own" \in Root /\ "boot" \in Root
  BY DEF Root
<1>1. CASE phase' \notin {"own_trampoline", "done"}
  BY <1>1 DEF TrampolineInv
<1>2. CASE panic' # "no"
  BY <1>2 DEF TrampolineInv
<1>3. ASSUME MapTrampolineBoot, panic' = "no" PROVE TrampolineInv'
  <2>1. TrampolinePart("boot")' /\ request'.vaddr = Trampoline.vaddr
    BY <1>0, <1>3, MapTrampolinePart DEF MapTrampolineBoot, ptm_map_at
  <2>2. TrampolineUpTo("boot", request.vaddr)'
    <3>1. Trampoline.vaddr \in Nat /\ \A v \in Page : v \in Nat
      BY ClientsAssumption DEF Page, Address
    <3> QED BY <2>1, <3>1 DEF TrampolineUpTo
  <2>3. phase' = "own_trampoline"
    BY <1>3 DEF MapTrampolineBoot
  <2> QED BY <2>1, <2>2, <2>3 DEF TrampolineInv
<1>4. ASSUME MapTrampolineOwn, panic' = "no" PROVE TrampolineInv'
  <2>0. Ask("own", TrampolineRequest) /\ phase = "own_trampoline" /\ phase' = "done"
    BY <1>4 DEF MapTrampolineOwn, ptm_map
  <2>1. TrampolinePart("own")' /\ request'.vaddr = Trampoline.vaddr
    BY <1>0, <1>4, <2>0, MapTrampolinePart
  <2>2. TrampolineUpTo("own", request.vaddr)'
    <3>1. Trampoline.vaddr \in Nat /\ \A v \in Page : v \in Nat
      BY ClientsAssumption DEF Page, Address
    <3> QED BY <2>1, <3>1 DEF TrampolineUpTo
  <2>3. request.length = 0 /\ panic = "no" /\ entries' = entries
    BY <2>0, RequestFields DEF Ask, Idle, IInv
  <2>4. TrampolinePart("boot") /\ TrampolineUpTo("boot", request.vaddr)
    BY <2>0, <2>3 DEF TrampolineInv
  <2>5. request.vaddr = Trampoline.vaddr + Trampoline.length
    BY <2>3, <2>4, RequestFields DEF TrampolinePart, IInv
  <2>6. TrampolineUpTo("boot", Trampoline.vaddr + Trampoline.length)'
    BY <2>3, <2>4, <2>5, Zenon DEF TrampolineUpTo, Translation, TrampolinePage
  <2> QED BY <2>0, <2>1, <2>2, <2>6 DEF TrampolineInv
<1>5. ASSUME map_page, UNCHANGED <<phase, early, snapshot, k>>, panic' = "no",
             phase \in {"own_trampoline", "done"}
      PROVE  TrampolineInv'
  <2>1. panic = "no"
    BY <1>5 DEF map_page, Descend, SetPage, OutOfMemory, RemapPanic, Mapping
  <2>2. CASE phase = "own_trampoline"
    <3>1. TrampolinePart("boot")' /\ TrampolineUpTo("boot", request.vaddr)'
      BY <1>0, <1>5, <2>1, <2>2, WalkPart DEF TrampolineInv
    <3> QED BY <1>5, <2>2, <3>1 DEF TrampolineInv
  <2>3. CASE phase = "done"
    <3>1. /\ TrampolinePart("own")' /\ TrampolineUpTo("own", request.vaddr)'
          /\ \A r \in Root, v \in Page : r # "own" => Translation(r, v)' = Translation(r, v)
      BY <1>0, <1>5, <2>1, <2>3, WalkPart DEF TrampolineInv
    <3>2. \A v \in Page : Translation("boot", v)' = Translation("boot", v)
      BY <1>0, <3>1
    <3>3. TrampolineUpTo("boot", Trampoline.vaddr + Trampoline.length)
      BY <2>1, <2>3 DEF TrampolineInv
    <3>4. TrampolineUpTo("boot", Trampoline.vaddr + Trampoline.length)'
      BY <3>2, <3>3, Zenon DEF TrampolineUpTo, TrampolinePage
    <3> QED BY <1>5, <2>3, <3>1, <3>4 DEF TrampolineInv
  <2> QED BY <1>5, <2>2, <2>3
<1>6. ASSUME UNCHANGED clientVars PROVE TrampolineInv'
  <2>1. UNCHANGED <<entries, request, panic, phase>>
    BY <1>6 DEF clientVars, vars
  <2>2. /\ TrampolinePart("own")' <=> TrampolinePart("own")
        /\ TrampolinePart("boot")' <=> TrampolinePart("boot")
    BY <2>1 DEF TrampolinePart
  <2>3. \A r, v : Translation(r, v)' = Translation(r, v)
    BY <2>1 DEF Translation
  <2> QED BY <2>1, <2>2, <2>3, Zenon DEF TrampolineInv, TrampolineUpTo, TrampolinePage
<1>7. ASSUME phase' \in {"own_trampoline", "done"}, panic' = "no",
             ~MapTrampolineBoot, ~MapTrampolineOwn, ~UNCHANGED clientVars
      PROVE  /\ map_page /\ UNCHANGED <<phase, early, snapshot, k>>
             /\ phase \in {"own_trampoline", "done"}
  <2>1. Library
    BY <1>7 DEF ClientNext, Users, EarlyRequest, StartDirectMap, MapSlot, SkipSlot, EndDirectMap
  <2>2. ~ptm_init
    BY <1>7, <2>1 DEF OrderInv, ptm_init, Library
  <2> QED BY <1>7, <2>1, <2>2 DEF Library
<1> QED BY <1>1, <1>2, <1>3, <1>4, <1>5, <1>6, <1>7

\* The invariant says what the property says.
LEMMA TrampolineInvMeans == IInv /\ TrampolineInv => TrampolineInBoth
<1> SUFFICES ASSUME IInv, TrampolineInv, phase = "done", Idle, NEW v \in Page,
                    Trampoline.vaddr <= v, v < Trampoline.vaddr + Trampoline.length
             PROVE  /\ Translation("own", v) = Translation("boot", v)
                    /\ "EXEC" \in Translation("own", v).rights
  BY DEF TrampolineInBoth
<1>1. request.length = 0 /\ panic = "no"
  BY RequestFields DEF Idle, IInv
<1>2. /\ TrampolineUpTo("boot", Trampoline.vaddr + Trampoline.length)
      /\ TrampolinePart("own") /\ TrampolineUpTo("own", request.vaddr)
  BY <1>1 DEF TrampolineInv
<1>3. request.vaddr = Trampoline.vaddr + Trampoline.length
  BY <1>1, <1>2, RequestFields DEF TrampolinePart, IInv
<1>4. Translation("own", v) = TrampolinePage(v) /\ Translation("boot", v) = TrampolinePage(v)
  BY <1>2, <1>3 DEF TrampolineUpTo
<1>5. TrampolinePage(v).rights = RightsOf(FALSE, FALSE)
  BY DEF TrampolinePage
<1>6. "EXEC" \in RightsOf(FALSE, FALSE)
  BY DEF RightsOf
<1> QED BY <1>4, <1>5, <1>6

\* The trampoline is at the same place in both sets of tables, and executable, whatever
\* was mapped there or near it before: the request for it is the last for its pages.
THEOREM TrampolineReachable ==
  ASSUME Decides(BootTable)
  PROVE  ClientSpec => []TrampolineInBoth
<1>1. ClientInit => OrderInv /\ TrampolineInv
  BY DEF ClientInit, OrderInv, TrampolineInv
<1>2. /\ IInv /\ ClientTypes /\ OrderInv /\ [ClientNext]_clientVars
      => OrderInv'
  BY NextOrder
<1>3. /\ IInv /\ ClientTypes /\ PageDecides /\ OrderInv /\ TrampolineInv
      /\ [ClientNext]_clientVars
      => TrampolineInv'
  BY NextTrampoline
<1>4. ClientSpec => []PageDecides
  BY PagesDecide
<1> QED BY <1>1, <1>2, <1>3, <1>4, Invariance, TrampolineInvMeans, PTL DEF ClientSpec

----------------------------------------------------------------------------
(* When the direct map meets a large page.                                 *)

\* The address belongs to the direct map.
InDirectMap(v) == hhdm_offset <= v /\ v < hhdm_offset + PhysicalTop

\* What is asked for before the direct map, and by it.
SourceInv ==
    request.length > 0 =>
        /\ phase = "early" =>
              \/ request.vaddr + request.length <= hhdm_offset
              \/ request.vaddr >= hhdm_offset + PhysicalTop
        /\ phase = "direct_map" =>
              /\ request.root = "own" /\ k - 1 \in Mapped
              /\ \A v \in Page : Pending(v) => v \in SlotPages(snapshot[k - 1])

\* The page of the direct map was mapped for a slot that it has come past, and if
\* that is the current one then by a part of the request that has been carried out.
Owned(v) ==
    \E j \in Mapped : j < k /\ v \in SlotPages(snapshot[j]) /\ (j < k - 1 \/ ~Pending(v))

\* Nothing else is mapped in the direct map.
OwnersInv ==
    phase \in {"early", "direct_map"} =>
        \A v \in Page : InDirectMap(v) /\ Translation("own", v) # Unmapped => Owned(v)

\* A page of a slot holds memory of the slot, unless the slot is empty and starts
\* within a page: the rounding makes a whole page of that.
LEMMA SlotPageHasMemory ==
  ASSUME NEW s, s \in Slot, s.base + s.length <= PhysicalTop,
         s.length = 0 => s.base % PTM_PAGE_GRANULARITY = 0,
         NEW v \in SlotPages(s)
  PROVE  InDirectMap(v) /\ \E a \in Reachable(s) : PageOf(a) = v - hhdm_offset
<1>1. PICK g \in Nat \ {0} : g = PTM_PAGE_GRANULARITY
  BY SizeFacts, LevelAssumption DEF Level
<1>2. PICK r : r = Rounded(s)
  OBVIOUS
<1>3. /\ r.base \in Nat /\ r.length \in Nat /\ r.base % g = 0 /\ r.length % g = 0
      /\ hhdm_offset \in Nat /\ hhdm_offset % g = 0
      /\ r.base <= s.base /\ s.base + s.length <= r.base + r.length
      /\ r.base + r.length < s.base + s.length + g
  BY <1>1, <1>2, RoundedFacts
<1>4. /\ v \in Nat /\ v % g = 0 /\ hhdm_offset + r.base <= v
      /\ v < hhdm_offset + r.base + r.length
  BY <1>1, <1>2 DEF SlotPages, Page, Address
<1>5. s.base \in Nat /\ s.length \in Nat /\ PhysicalTop \in Nat
  BY ClientsAssumption DEF Slot
<1>6. PICK q \in Nat : q = v - hhdm_offset
  BY <1>3, <1>4
<1>7. q % g = 0
  <2>1. v >= hhdm_offset
    BY <1>3, <1>4
  <2> QED BY <1>3, <1>4, <1>6, <2>1, Multiples, Zenon
<1>8. r.base <= q /\ q < r.base + r.length
  BY <1>3, <1>4, <1>6
<1>9. q + g <= r.base + r.length
  <2>1. PICK e \in Nat : e = r.base + r.length
    BY <1>3
  <2>2. e % g = 0
    BY <1>3, <2>1, Multiples, Zenon
  <2>3. e >= q + g
    BY <1>7, <1>8, <2>1, <2>2, Multiples
  <2> QED BY <2>1, <2>3
<1>10. q < s.base + s.length
  BY <1>3, <1>5, <1>9
<1>11. InDirectMap(v)
  BY <1>3, <1>4, <1>5, <1>6, <1>10 DEF InDirectMap
<1>12. CASE s.base <= q
  <2>1. q \in Reachable(s)
    BY <1>5, <1>10, <1>12 DEF Reachable
  <2>2. PageOf(q) = q
    BY <1>1, <1>7 DEF PageOf
  <2> QED BY <1>6, <1>11, <2>1, <2>2
<1>13. CASE q < s.base
  <2>1. PICK o \in Nat : o = s.base % g /\ o < g /\ r.base = s.base - o
    <3>1. s.base % g \in Nat /\ s.base % g < g
      BY <1>5, Divide
    <3>2. r.base = s.base - (s.base % g)
      BY <1>1, <1>2 DEF Rounded
    <3> QED BY <3>1, <3>2
  <2>2. q = r.base
    <3>1. CASE q > r.base
      <4>1. q >= r.base + g
        BY <1>3, <1>7, <3>1, Multiples
      <4> QED BY <1>3, <1>5, <1>13, <2>1, <4>1
    <3> QED BY <1>3, <1>8, <3>1
  <2>3. s.length > 0
    <3>1. CASE s.length = 0
      <4>1. o = 0
        BY <1>1, <2>1, <3>1
      <4> QED BY <1>5, <1>13, <2>1, <2>2, <4>1
    <3> QED BY <1>5, <3>1
  <2>4. s.base \in Reachable(s)
    BY <1>5, <2>3 DEF Reachable
  <2>5. PageOf(s.base) = q
    BY <1>1, <2>1, <2>2 DEF PageOf
  <2> QED BY <1>6, <1>11, <2>4, <2>5
<1> QED BY <1>3, <1>5, <1>12, <1>13

\* No page is unmapped.
LEMMA MappedIsNot ==
  ASSUME NEW a \in Nat, NEW rights
  PROVE  [paddr |-> a, rights |-> rights] # Unmapped
  BY DEF Unmapped

\* A step of map_page maps only pages of the request.
LEMMA WalkOwners ==
  ASSUME IInv, ClientTypes, PageDecides, SourceInv, OwnersInv, map_page,
         UNCHANGED <<phase, early, snapshot, k>>
  PROVE  SourceInv' /\ OwnersInv'
<1>0. "own" \in Root
  BY DEF Root
<1>1. CASE /\ request' = request
           /\ \A root \in Root, v \in Page : Translation(root, v)' = Translation(root, v)
  <2>1. \A v : Pending(v)' <=> Pending(v)
    BY <1>1 DEF Pending
  <2>2. SourceInv'
    BY <1>1, <2>1, Zenon DEF SourceInv, Mapped, SlotPages
  <2>3. \A v \in Page : Translation("own", v)' = Translation("own", v)
    BY <1>0, <1>1
  <2>4. \A v : Owned(v)' <=> Owned(v)
    BY <2>1, Zenon DEF Owned, Mapped, SlotPages
  <2>5. OwnersInv'
    BY <2>3, <2>4, Zenon DEF OwnersInv, InDirectMap
  <2> QED BY <2>2, <2>5
<1>2. ASSUME request.length > 0,
             request'.root = request.root,
             NEW p \in Nat \ {0},
             p <= request.length,
             request'.vaddr = request.vaddr + p,
             request'.length = request.length - p,
             \A root \in Root, v \in Page :
               \/ root = request.root /\ request.vaddr <= v /\ v < request.vaddr + p
               \/ Translation(root, v)' = Translation(root, v)
      PROVE  SourceInv' /\ OwnersInv'
  <2>0. /\ request.vaddr \in Nat /\ request.length \in Nat /\ hhdm_offset \in Nat
        /\ PhysicalTop \in Nat /\ \A v \in Page : v \in Nat
    BY RequestFields, ClientsAssumption DEF IInv, Page, Address
  <2>1. (request.vaddr + p) + (request.length - p) = request.vaddr + request.length
    BY <2>0
  <2>2. ASSUME NEW v \in Page, Pending(v)' PROVE Pending(v)
    BY <1>2, <2>0, <2>1, <2>2 DEF Pending
  <2>3. SourceInv'
    <3>1. \/ request.vaddr + request.length <= hhdm_offset
          \/ request.vaddr >= hhdm_offset + PhysicalTop
          => \/ (request.vaddr + p) + (request.length - p) <= hhdm_offset
             \/ request.vaddr + p >= hhdm_offset + PhysicalTop
      BY <2>0, <2>1
    <3> QED BY <1>2, <2>2, <3>1, Zenon DEF SourceInv, Mapped, SlotPages
  <2>4. OwnersInv'
    <3> SUFFICES ASSUME phase \in {"early", "direct_map"}, NEW v \in Page, InDirectMap(v),
                        Translation("own", v)' # Unmapped
                 PROVE  Owned(v)'
      BY Zenon DEF OwnersInv, InDirectMap
    <3>1. CASE request.root = "own" /\ request.vaddr <= v /\ v < request.vaddr + p
      <4>1. Pending(v)
        BY <1>2, <2>0, <3>1 DEF Pending
      <4>2. phase = "direct_map"
        BY <1>2, <2>0, <4>1 DEF SourceInv, InDirectMap, Pending
      <4>3. k - 1 \in Mapped /\ v \in SlotPages(snapshot[k - 1])
        BY <1>2, <4>1, <4>2 DEF SourceInv
      <4>4. ~Pending(v)'
        BY <1>2, <2>0, <3>1 DEF Pending
      <4>5. k - 1 < k
        BY DEF ClientTypes
      <4> QED BY <4>3, <4>4, <4>5, Zenon DEF Owned, Mapped, SlotPages
    <3>2. CASE ~(request.root = "own" /\ request.vaddr <= v /\ v < request.vaddr + p)
      <4>1. Translation("own", v)' = Translation("own", v)
        BY <1>0, <1>2, <3>2
      <4>2. Owned(v)
        BY <4>1 DEF OwnersInv
      <4> QED BY <2>2, <4>2, Zenon DEF Owned, Mapped, SlotPages
    <3> QED BY <3>1, <3>2
  <2> QED BY <2>3, <2>4
<1> QED BY <1>1, <1>2, WalkTranslation

\* Every step keeps what was mapped for whom.
LEMMA NextOwners ==
  ASSUME IInv, ClientTypes, PageDecides, OrderInv, SourceInv, OwnersInv,
         [ClientNext]_clientVars,
         \A r \in Requests : \/ r.vaddr + r.length <= hhdm_offset
                             \/ r.vaddr >= hhdm_offset + PhysicalTop
  PROVE  SourceInv' /\ OwnersInv'
<1>1. CASE map_page /\ UNCHANGED <<phase, early, snapshot, k>>
  BY <1>1, WalkOwners
<1>2. CASE phase' \notin {"early", "direct_map"}
  BY <1>2 DEF SourceInv, OwnersInv
<1>3. ASSUME UNCHANGED <<entries, request, phase, snapshot, k>> PROVE SourceInv' /\ OwnersInv'
  <2>1. \A v : Pending(v)' <=> Pending(v)
    BY <1>3 DEF Pending
  <2>2. \A v : Translation("own", v)' = Translation("own", v)
    BY <1>3 DEF Translation
  <2>3. SourceInv'
    BY <1>3, <2>1, Zenon DEF SourceInv, Mapped, SlotPages
  <2>4. OwnersInv'
    BY <1>3, <2>1, <2>2, Zenon DEF OwnersInv, InDirectMap, Owned, Mapped, SlotPages
  <2> QED BY <2>3, <2>4
<1>4. CASE ptm_init /\ UNCHANGED <<phase, early, snapshot, k>>
  BY <1>3, <1>4 DEF ptm_init
<1>5. ASSUME entries' = entries, phase = "early", k' = k,
             \A v \in Page : InDirectMap(v) => Translation("own", v) = Unmapped
      PROVE  OwnersInv'
  <2>1. \A v : Translation("own", v)' = Translation("own", v)
    BY <1>5 DEF Translation
  <2> QED BY <1>5, <2>1, Zenon DEF OwnersInv, InDirectMap
<1>6. ASSUME phase = "early"
      PROVE  \A v \in Page : InDirectMap(v) => Translation("own", v) = Unmapped
  <2>1. k = 1
    BY <1>6 DEF OrderInv
  <2>2. \A v : ~Owned(v)
    BY <2>1 DEF Owned, Mapped
  <2> QED BY <1>6, <2>2 DEF OwnersInv
<1>7. ASSUME NEW r \in Requests, EarlyRequest(r) PROVE SourceInv' /\ OwnersInv'
  <2>1. Ask("own", r) /\ phase = "early" /\ phase' = phase /\ UNCHANGED <<snapshot, k>>
    BY <1>7 DEF EarlyRequest, ptm_map
  <2>2. entries' = entries
    BY <2>1 DEF Ask
  <2>3. CASE request' = request
    BY <1>3, <2>1, <2>2, <2>3
  <2>4. CASE request' # request
    <3>1. ~Unaligned(r.vaddr, r.paddr, r.length)
      BY <2>1, <2>4 DEF Ask
    <3>2. GoodRequest(r) /\ "own" \in Root
      BY RequestsAssumption DEF GoodRequest, Root
    <3>3. request'.vaddr = r.vaddr /\ request'.length = r.length
      BY <2>1, <3>1, <3>2, AskFacts
    <3>4. SourceInv'
      BY <2>1, <3>3 DEF SourceInv
    <3> QED BY <1>5, <1>6, <2>1, <2>2, <3>4
  <2> QED BY <2>3, <2>4
<1>8. CASE StartDirectMap
  <2>1. /\ phase = "early" /\ entries' = entries /\ request' = request /\ k' = k
        /\ request.length = 0
    BY <1>8, RequestFields DEF StartDirectMap, vars, Idle, IInv
  <2>2. SourceInv'
    BY <2>1 DEF SourceInv
  <2> QED BY <1>5, <1>6, <2>1, <2>2
<1>9. CASE MapSlot \/ SkipSlot
  <2>1. /\ phase = "direct_map" /\ phase' = phase /\ snapshot' = snapshot /\ k' = k + 1
        /\ k <= Len(snapshot) /\ entries' = entries /\ request.length = 0
    BY <1>9, RequestFields
       DEF MapSlot, SkipSlot, ptm_map, Ask, Idle, IInv, vars
  <2>2. k \in Nat /\ k \in 1..Len(snapshot)
    BY <2>1, SnapshotLength DEF ClientTypes
  <2>3. OwnersInv'
    <3> SUFFICES ASSUME NEW v \in Page, InDirectMap(v), Translation("own", v)' # Unmapped
                 PROVE  Owned(v)'
      BY Zenon DEF OwnersInv, InDirectMap
    <3>1. Translation("own", v)' = Translation("own", v)
      BY <2>1 DEF Translation
    <3>2. Owned(v)
      BY <2>1, <3>1 DEF OwnersInv
    <3>3. PICK j \in Mapped : j < k /\ v \in SlotPages(snapshot[j])
      BY <3>2 DEF Owned
    <3>4. j < k' /\ j < k' - 1
      BY <2>1, <2>2, <3>3 DEF Mapped
    <3>5. j \in Mapped' /\ v \in SlotPages(snapshot[j])'
      BY <2>1, <3>3 DEF Mapped, SlotPages
    <3> QED BY <3>4, <3>5 DEF Owned
  <2>4. CASE SkipSlot
    <3>1. request' = request
      BY <2>4 DEF SkipSlot, vars
    <3>2. SourceInv'
      BY <2>1, <3>1 DEF SourceInv
    <3> QED BY <2>3, <3>2
  <2>5. CASE MapSlot
    <3>1. PICK s, r : s = snapshot[k] /\ r = Rounded(s)
      OBVIOUS
    <3>2. /\ request'.root = "own" /\ request'.vaddr = hhdm_offset + r.base
          /\ request'.length = r.length
      BY <2>5, <3>1, MapSlotAsks
    <3>3. k' - 1 = k /\ k \in Mapped'
      BY <2>1, <2>2, <2>5 DEF MapSlot, Mapped
    <3>4. \A v \in Page : Pending(v)' => v \in SlotPages(s)
      BY <3>1, <3>2 DEF Pending, SlotPages
    <3>5. snapshot'[k' - 1] = s
      BY <2>1, <3>1, <3>3
    <3>6. \A v \in Page : Pending(v)' => v \in SlotPages(snapshot[k - 1])'
      BY <3>4, <3>5, Zenon DEF SlotPages
    <3>7. SourceInv'
      BY <2>1, <3>2, <3>3, <3>6, Zenon DEF SourceInv
    <3> QED BY <2>3, <3>7
  <2> QED BY <1>9, <2>4, <2>5
<1>10. CASE EndDirectMap \/ MapTrampolineBoot \/ MapTrampolineOwn
  BY <1>2, <1>10 DEF EndDirectMap, MapTrampolineBoot, MapTrampolineOwn
<1>11. CASE UNCHANGED clientVars
  BY <1>3, <1>11 DEF clientVars, vars
<1> QED BY <1>1, <1>4, <1>7, <1>8, <1>9, <1>10, <1>11 DEF ClientNext, Users, Library

\* The walk of the direct map stops at a page that was mapped for another slot.
LEMMA RemapShared ==
  ASSUME IInv, ClientTypes, PageDecides, SourceInv, OwnersInv, RemapPanic,
         phase = "direct_map",
         \A s \in Snapshots : \A j \in 1..Len(s) :
            s[j].length = 0 => s[j].base % PTM_PAGE_GRANULARITY = 0
  PROVE  \E i, j \in Mapped :
            /\ i # j
            /\ {PageOf(a) : a \in Reachable(snapshot[i])}
                 \cap {PageOf(a) : a \in Reachable(snapshot[j])} # {}
<1>1. /\ Mapping /\ entry.kind = "page" /\ request.length > 0
      /\ request.root = "own"
  BY DEF RemapPanic, Mapping, SourceInv
<1>2. PICK v : v = request.vaddr
  OBVIOUS
<1>3. v \in Page /\ Pending(v)
  <2>1. v \in Address /\ request.length \in Nat /\ v \in Nat
    BY <1>1, <1>2, WalkFacts, RequestFields DEF IInv, Address
  <2>2. v % PTM_PAGE_GRANULARITY = 0
    BY <1>2 DEF IInv, RequestInv, Unaligned
  <2> QED BY <1>1, <1>2, <2>1, <2>2 DEF Page, Pending
<1>4. k - 1 \in Mapped /\ v \in SlotPages(snapshot[k - 1])
  BY <1>1, <1>3 DEF SourceInv
<1>5. ASSUME NEW j \in Mapped, v \in SlotPages(snapshot[j])
      PROVE  /\ InDirectMap(v)
             /\ v - hhdm_offset \in {PageOf(a) : a \in Reachable(snapshot[j])}
  <2>1. j \in 1..Len(snapshot)
    BY DEF Mapped
  <2>2. snapshot \in Snapshots
    BY <2>1 DEF ClientTypes
  <2>3. snapshot[j] \in Slot /\ snapshot[j].base + snapshot[j].length <= PhysicalTop
    BY <2>1, SlotFacts
  <2>4. snapshot[j].length = 0 => snapshot[j].base % PTM_PAGE_GRANULARITY = 0
    BY <2>1, <2>2
  <2>5. InDirectMap(v) /\ \E a \in Reachable(snapshot[j]) : PageOf(a) = v - hhdm_offset
    BY <1>5, <2>3, <2>4, SlotPageHasMemory
  <2> QED BY <2>5
<1>6. Translation("own", v) # Unmapped
  <2>1. PICK l \in Level, table \in [Nodes -> EntryType] :
          l = level /\ table = entries["own"]
    BY <1>1, WalkFacts DEF IInv, TypeOK, Root
  <2>2. table[Node(l, v)].kind = "page"
    BY <1>1, <1>2, <2>1 DEF entry, Here
  <2>3. \A m \in (l + 1)..LevelCount : table[Node(m, v)].kind = "table"
    BY <1>1, <1>2, <2>1, Above DEF PassedTable
  <2>4. IsPage(table, LevelCount, l, v)
    BY <2>2, <2>3 DEF IsPage
  <2>5. Decides(table)
    BY <2>1 DEF PageDecides, Root
  <2>6. Translate(table, v) =
          [paddr |-> table[Node(l, v)].paddr + (v % PageSize[l]),
           rights |-> RightsOf(table[Node(l, v)].rw, table[Node(l, v)].nx)]
    BY <1>3, <2>4, <2>5, TranslateIs
  <2>7. table[Node(l, v)].paddr + (v % PageSize[l]) \in Nat
    <3>1. Node(l, v) \in Nodes /\ v \in Nat
      BY <1>3, NodeIn DEF Page, Address
    <3>2. table[Node(l, v)] \in EntryType
      BY <2>1, <3>1 DEF IInv, TypeOK, Root
    <3>3. PICK s \in Nat \ {0} : s = PageSize[l]
      BY SizeFacts
    <3>4. v % s \in Nat
      BY <3>1, Divide
    <3> QED BY <3>2, <3>3, <3>4 DEF EntryType
  <2> QED BY <2>1, <2>6, <2>7, MappedIsNot DEF Translation
<1>7. PICK j \in Mapped : /\ j < k /\ v \in SlotPages(snapshot[j])
                          /\ j < k - 1 \/ ~Pending(v)
  <2>1. InDirectMap(v)
    BY <1>4, <1>5
  <2> QED BY <1>3, <1>6, <2>1 DEF OwnersInv, Owned
<1>8. j # k - 1
  BY <1>3, <1>7 DEF ClientTypes, Mapped
<1>9. /\ v - hhdm_offset \in {PageOf(a) : a \in Reachable(snapshot[j])}
      /\ v - hhdm_offset \in {PageOf(a) : a \in Reachable(snapshot[k - 1])}
  BY <1>4, <1>5, <1>7
<1> QED BY <1>4, <1>7, <1>8, <1>9

\* The direct map stops at a large page only where two slots touch one page, for every
\* snapshot and whatever was mapped before.  What is mapped before has to be outside
\* the direct map, and an empty slot must not start within a page: the rounding makes
\* a whole page of such a slot although it has no memory (ptm.c:149-153).
THEOREM RemapOnlyForSharedPages ==
  ASSUME Decides(BootTable),
         \A r \in Requests : \/ r.vaddr + r.length <= hhdm_offset
                             \/ r.vaddr >= hhdm_offset + PhysicalTop,
         \A s \in Snapshots : \A j \in 1..Len(s) :
            s[j].length = 0 => s[j].base % PTM_PAGE_GRANULARITY = 0
  PROVE  ClientSpec => []RemapNeedsSharedPage
<1>1. ClientInit => OrderInv /\ SourceInv /\ OwnersInv /\ RemapNeedsSharedPage
  <2> SUFFICES ASSUME ClientInit
               PROVE  OrderInv /\ SourceInv /\ OwnersInv /\ RemapNeedsSharedPage
    OBVIOUS
  <2>0. phase = "early" /\ k = 1 /\ request.length = 0
    BY DEF ClientInit, Init, NoRequest
  <2>1. \A n \in Nodes : entries["own"][n].kind = "absent"
    BY DEF ClientInit, Init, Root, Absent
  <2>2. ASSUME NEW v \in Page PROVE Translation("own", v) = Unmapped
    <3>1. ASSUME NEW l \in Level PROVE ~IsPage(entries["own"], LevelCount, l, v)
      <4>1. Node(l, v) \in Nodes
        BY NodeIn DEF Page
      <4> QED BY <2>1, <4>1 DEF IsPage
    <3> QED BY <3>1, TranslateNone DEF Translation
  <2>3. OwnersInv
    BY <2>2 DEF OwnersInv
  <2>4. OrderInv /\ SourceInv /\ RemapNeedsSharedPage
    BY <2>0 DEF OrderInv, SourceInv, RemapNeedsSharedPage
  <2> QED BY <2>3, <2>4
<1>2. IInv /\ ClientTypes /\ OrderInv /\ [ClientNext]_clientVars => OrderInv'
  BY NextOrder
<1>3. /\ IInv /\ ClientTypes /\ PageDecides /\ OrderInv /\ SourceInv /\ OwnersInv
      /\ [ClientNext]_clientVars
      => SourceInv' /\ OwnersInv'
  BY NextOwners
<1>4. ASSUME IInv, ClientTypes, PageDecides, OrderInv, SourceInv, OwnersInv,
             RemapNeedsSharedPage, [ClientNext]_clientVars
      PROVE  RemapNeedsSharedPage'
  <2> SUFFICES ASSUME phase' = "direct_map", panic' = "cannot_remap"
               PROVE  RemapNeedsSharedPage'
    BY DEF RemapNeedsSharedPage
  <2>1. CASE RemapPanic /\ UNCHANGED <<phase, early, snapshot, k>>
    <3>1. \E i, j \in Mapped :
            /\ i # j
            /\ {PageOf(a) : a \in Reachable(snapshot[i])}
                 \cap {PageOf(a) : a \in Reachable(snapshot[j])} # {}
      BY <1>4, <2>1, RemapShared
    <3> QED BY <2>1, <3>1 DEF RemapNeedsSharedPage, Mapped
  <2>2. CASE UNCHANGED clientVars
    BY <1>4, <2>2 DEF RemapNeedsSharedPage, Mapped, clientVars, vars
  <2>3. \/ RemapPanic /\ UNCHANGED <<phase, early, snapshot, k>>
        \/ UNCHANGED clientVars
    BY <1>4 DEF ClientNext, Users, Library, EarlyRequest, StartDirectMap, MapSlot, SkipSlot,
       EndDirectMap, MapTrampolineBoot, MapTrampolineOwn, ptm_map, ptm_map_at, Ask, ptm_init,
       map_page, Descend, OutOfMemory, SetPage, Mapping, Idle, vars
  <2> QED BY <2>1, <2>2, <2>3
<1>5. ClientSpec => []PageDecides
  BY PagesDecide
<1> QED BY <1>1, <1>2, <1>3, <1>4, <1>5, Invariance, PTL DEF ClientSpec
============================================================================
