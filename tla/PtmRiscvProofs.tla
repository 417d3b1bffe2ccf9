--------------------------- MODULE PtmRiscvProofs ---------------------------
(***************************************************************************)
(* Proofs about the page tables of the riscv64 pre-kernel.  The invariant  *)
(* says where a walk is: every entry that it has passed is a table, and an *)
(* entry that is absent has nothing beneath it, so that a new table brings *)
(* no old entries back.  With it every step is one of the abstract address *)
(* spaces, for tables of any depth and pages of any sizes.                 *)
(***************************************************************************)
EXTENDS PtmRiscv, PagingProofs

\* What is left of a request.
RequestType == [root : Root, vaddr : Nat, paddr : Nat, length : Nat, rights : SUBSET Rights]

\* The types of the state.
TypeOK ==
    /\ entries \in [Root -> [Nodes -> EntryType]]
    /\ g_level_count \in 3..LevelCount
    /\ initialised \in BOOLEAN
    /\ request \in RequestType
    /\ level \in 0..LevelCount

\* A request that was accepted goes on being made of whole pages below the top, and
\* of one page at most where it asks for no right.
RequestInv ==
    /\ ~Unaligned(request.vaddr, request.paddr, request.length)
    /\ request.vaddr + request.length <= TopAddress
    /\ request.rights = {} => request.length <= PTM_PAGE_GRANULARITY

\* Before ptm_init nothing is mapped or asked for.
FreshInv ==
    ~initialised =>
        /\ request.length = 0
        /\ \A n \in Nodes : entries["own"][n].kind = "absent"

\* The walk is between the top and the level chosen, and has passed only tables.
WalkInv ==
    Mapping =>
        /\ choose_target_level <= level /\ level <= total_levels
        /\ \A m \in (level + 1)..total_levels :
              entries[request.root][Node(m, request.vaddr)].kind = "table"

\* New tables are empty.
TablesInv == \A root \in Root : NothingBeneath(entries[root], LevelsOf(root))

\* The inductive invariant.
IInv == TypeOK /\ RequestInv /\ FreshInv /\ WalkInv /\ TablesInv

----------------------------------------------------------------------------
(* Helpers.                                                                *)

\* The parts of a request.
LEMMA RequestFields ==
  ASSUME TypeOK
  PROVE  /\ request.root \in Root /\ request.vaddr \in Nat /\ request.paddr \in Nat
         /\ request.length \in Nat /\ request.rights \in SUBSET Rights
  BY DEF TypeOK, RequestType

\* A request that has not ended has a page or more left.
LEMMA AlignedFits ==
  ASSUME TypeOK, RequestInv, request.length > 0
  PROVE  FitsLevel(1)
<1>1. /\ request.vaddr % PageSize[1] = 0 /\ request.paddr % PageSize[1] = 0
      /\ request.length % PageSize[1] = 0
  BY DEF RequestInv, Unaligned, PTM_PAGE_GRANULARITY
<1>2. PICK s \in Nat \ {0} : s = PageSize[1]
  BY SizeFacts, LevelAssumption DEF Level
<1>3. PICK n \in Nat : n = request.length /\ n > 0
  BY RequestFields
<1>4. n % s = 0 /\ 0 % s = 0
  BY <1>1, <1>2, <1>3, SMT
<1>5. n >= 0 + s
  BY <1>3, <1>4, Multiples
<1>6. n >= s
  BY <1>5
<1> QED BY <1>1, <1>2, <1>3, <1>6 DEF FitsLevel

\* choose_target_level returns a level whose page fits the rest of the request.
LEMMA TargetFits ==
  ASSUME TypeOK, RequestInv, request.length > 0
  PROVE  choose_target_level \in 1..3 /\ FitsLevel(choose_target_level)
<1> DEFINE P(l) == /\ l = 1 \/ FitsLevel(l)
                   /\ \A m \in (l + 1)..3 : ~FitsLevel(m)
<1>1. \E l \in 1..3 : P(l)
  <2>1. CASE FitsLevel(3)
    <3>1. P(3)
      BY <2>1
    <3> QED BY <3>1
  <2>2. CASE ~FitsLevel(3) /\ FitsLevel(2)
    <3>1. P(2)
      BY <2>2
    <3> QED BY <3>1
  <2>3. CASE ~FitsLevel(3) /\ ~FitsLevel(2)
    <3>1. \A m \in 2..3 : m = 2 \/ m = 3
      OBVIOUS
    <3>2. P(1)
      BY <2>3, <3>1
    <3> QED BY <3>2
  <2> QED BY <2>1, <2>2, <2>3
<1>2. choose_target_level \in 1..3 /\ P(choose_target_level)
  BY <1>1, Zenon DEF choose_target_level
<1>3. FitsLevel(choose_target_level)
  BY <1>2, AlignedFits
<1> QED BY <1>2, <1>3

\* The largest page is chosen by what is left alone, and its level is one of three.
LEMMA TargetBound == TypeOK /\ RequestInv /\ request.length > 0 => choose_target_level \in 1..3
  BY TargetFits

\* The same of the next state.
LEMMA TargetBoundNext ==
  (TypeOK /\ RequestInv /\ request.length > 0 => choose_target_level \in 1..3)'
  BY TargetBound, PTL

\* Both sets of tables have three levels or more.
LEMMA LevelsFacts ==
  ASSUME TypeOK, NEW root \in Root
  PROVE  LevelsOf(root) \in 3..LevelCount /\ LevelsOf(root) \in 1..LevelCount
  BY BootAssumption, LevelAssumption DEF TypeOK, LevelsOf

\* Where a walk is.
LEMMA WalkFacts ==
  ASSUME IInv, Mapping
  PROVE  /\ level \in 1..total_levels /\ level \in Level
         /\ total_levels = LevelsOf(request.root)
         /\ total_levels \in 1..LevelCount
         /\ request.vaddr \in Address
         /\ Here \in Nodes
         /\ entry \in EntryType
         /\ choose_target_level \in 1..3 /\ FitsLevel(choose_target_level)
<1>1. request.root \in Root /\ request.vaddr \in Nat /\ request.length \in Nat
  BY RequestFields DEF IInv
<1>2. request.length > 0 /\ choose_target_level <= level /\ level <= total_levels
  BY DEF Mapping, IInv, WalkInv
<1>3. choose_target_level \in 1..3 /\ FitsLevel(choose_target_level)
  BY <1>2, TargetFits DEF IInv
<1>4. total_levels = LevelsOf(request.root)
  BY DEF total_levels, LevelsOf
<1>5. total_levels \in 1..LevelCount
  BY <1>1, <1>4, LevelsFacts DEF IInv
<1>6. level \in 0..LevelCount
  BY DEF IInv, TypeOK
<1>7. level \in 1..total_levels /\ level \in Level
  BY <1>2, <1>3, <1>5, <1>6, LevelAssumption DEF Level
<1>8. request.vaddr \in Address
  BY <1>1, <1>2, TopAssumption DEF IInv, RequestInv, Address
<1>9. Here \in Nodes
  BY <1>7, <1>8, NodeIn DEF Here
<1>10. entry \in EntryType
  BY <1>1, <1>9 DEF entry, IInv, TypeOK
<1> QED BY <1>3, <1>4, <1>5, <1>7, <1>8, <1>9, <1>10

----------------------------------------------------------------------------
(* Requests.                                                               *)

\* A request that ptm_map or ptm_map_at accepts starts a walk at the top.
LEMMA AskInv ==
  ASSUME IInv, NEW root \in Root, NEW r, Ask(root, LevelsOf(root), r),
         r \in [vaddr : Nat, paddr : Nat, length : Nat, flags : SUBSET Rights],
         r.flags = {} => r.length <= PTM_PAGE_GRANULARITY,
         ~Unaligned(r.vaddr, r.paddr, r.length) => r.vaddr + r.length <= TopAddress
  PROVE  IInv'
<1>0. /\ r.vaddr \in Nat /\ r.paddr \in Nat /\ r.length \in Nat /\ r.flags \in SUBSET Rights
      /\ entries' = entries /\ g_level_count' = g_level_count
      /\ initialised' = initialised /\ initialised /\ panic = "no"
  BY DEF Ask, Idle
<1>1. CASE Unaligned(r.vaddr, r.paddr, r.length)
  <2>1. request' = request /\ level' = level /\ panic' # "no"
    BY <1>1 DEF Ask
  <2> QED BY <1>0, <2>1
       DEF IInv, TypeOK, RequestInv, FreshInv, WalkInv, TablesInv, Mapping, LevelsOf
<1>2. CASE ~Unaligned(r.vaddr, r.paddr, r.length)
  <2>1. /\ request' = [root |-> root, vaddr |-> r.vaddr, paddr |-> r.paddr,
                       length |-> r.length, rights |-> r.flags]
        /\ level' = LevelsOf(root) /\ panic' = panic
    BY <1>2 DEF Ask
  <2>2. /\ request'.root = root /\ request'.vaddr = r.vaddr /\ request'.paddr = r.paddr
        /\ request'.length = r.length /\ request'.rights = r.flags
    BY <2>1
  <2>3. TypeOK'
    BY <1>0, <2>1, LevelsFacts DEF IInv, TypeOK, RequestType
  <2>4. RequestInv'
    BY <1>2, <2>2 DEF RequestInv, Unaligned
  <2>5. FreshInv'
    BY <1>0 DEF FreshInv
  <2>6. total_levels' = LevelsOf(root) /\ LevelsOf(root) \in 3..LevelCount
    BY <1>0, <2>2, LevelsFacts DEF total_levels, LevelsOf, IInv
  <2>7. WalkInv'
    <3> SUFFICES ASSUME Mapping'
                 PROVE  /\ choose_target_level' <= level' /\ level' <= total_levels'
                        /\ \A m \in (level' + 1)..total_levels' :
                              entries'[request'.root][Node(m, request'.vaddr)].kind = "table"
      BY DEF WalkInv
    <3>1. choose_target_level' \in 1..3
      BY <2>3, <2>4, TargetBoundNext DEF Mapping
    <3>2. PICK n \in 3..LevelCount : n = LevelsOf(root)
      BY <2>6
    <3>3. (n + 1)..n = {}
      BY LevelAssumption
    <3> QED BY <2>1, <2>6, <3>1, <3>2, <3>3, LevelAssumption
  <2>8. TablesInv'
    BY <1>0 DEF IInv, TablesInv, LevelsOf
  <2> QED BY <2>3, <2>4, <2>5, <2>7, <2>8 DEF IInv
<1> QED BY <1>1, <1>2

----------------------------------------------------------------------------
(* The walk.                                                               *)

\* What going down one level writes.
LEMMA DescendWrites ==
  ASSUME IInv, Descend
  PROVE  /\ Mapping /\ level > choose_target_level
         /\ entry.kind \in {"absent", "table"}
         /\ entries' \in [Root -> [Nodes -> EntryType]]
         /\ entries'[request.root][Here].kind = "table"
         /\ \A n \in Nodes : n # Here => entries'[request.root][n] = entries[request.root][n]
         /\ \A root \in Root : root # request.root => entries'[root] = entries[root]
         /\ level' = level - 1
         /\ UNCHANGED <<g_level_count, initialised, request, panic>>
<1>1. /\ Mapping /\ level > choose_target_level /\ level' = level - 1
      /\ UNCHANGED <<g_level_count, initialised, request, panic>> /\ ~MeetsPage
  BY DEF Descend
<1>2. /\ Here \in Nodes /\ entry \in EntryType /\ request.root \in Root
      /\ entries \in [Root -> [Nodes -> EntryType]]
  BY <1>1, WalkFacts, RequestFields DEF IInv, TypeOK
<1>3. entry.kind \in {"absent", "table"}
  BY <1>1, <1>2 DEF MeetsPage, EntryType
<1>4. CASE entry.kind = "table"
  <2>1. entries' = entries
    BY <1>4 DEF Descend
  <2> QED BY <1>1, <1>2, <1>3, <1>4, <2>1 DEF entry
<1>5. CASE entry.kind # "table"
  <2>1. entries' = [entries EXCEPT ![request.root][Here].kind = "table"]
    BY <1>5 DEF Descend
  <2>2. PICK h : h = Here
    OBVIOUS
  <2>3. entries' = [entries EXCEPT ![request.root] =
                      [entries[request.root] EXCEPT ![h] =
                         [entries[request.root][h] EXCEPT !.kind = "table"]]]
    BY <2>1, <2>2
  <2>4. [entries[request.root][h] EXCEPT !.kind = "table"] \in EntryType
    BY <1>2, <2>2 DEF EntryType, entry
  <2>5. PICK e \in EntryType : /\ e = [entries[request.root][h] EXCEPT !.kind = "table"]
                               /\ e.kind = "table"
    BY <1>2, <2>2, <2>4 DEF entry, EntryType
  <2>6. entries' = [entries EXCEPT ![request.root] = [entries[request.root] EXCEPT ![h] = e]]
    BY <2>3, <2>5
  <2>7. /\ entries' \in [Root -> [Nodes -> EntryType]]
        /\ entries'[request.root][h] = e
        /\ \A n \in Nodes : n # h => entries'[request.root][n] = entries[request.root][n]
        /\ \A root \in Root : root # request.root => entries'[root] = entries[root]
    BY <1>2, <2>2, <2>6
  <2> QED BY <1>1, <1>3, <2>2, <2>5, <2>7
<1> QED BY <1>4, <1>5

\* What storing a page writes.
LEMMA SetPageWrites ==
  ASSUME IInv, SetPage
  PROVE  /\ Mapping /\ level = choose_target_level
         /\ entries' \in [Root -> [Nodes -> EntryType]]
         /\ entries'[request.root][Here] = [kind |-> KindOf(request.rights),
                                            rights |-> request.rights, paddr |-> request.paddr]
         /\ \A n \in Nodes : n # Here => entries'[request.root][n] = entries[request.root][n]
         /\ \A root \in Root : root # request.root => entries'[root] = entries[root]
         /\ level' = total_levels
         /\ UNCHANGED <<g_level_count, initialised, panic>>
<1>1. /\ Mapping /\ level = choose_target_level /\ level' = total_levels
      /\ UNCHANGED <<g_level_count, initialised, panic>>
      /\ entries' = [entries EXCEPT ![request.root][Here] =
                       [kind |-> KindOf(request.rights), rights |-> request.rights,
                        paddr |-> request.paddr]]
  BY DEF SetPage
<1>2. /\ Here \in Nodes /\ request.root \in Root
      /\ entries \in [Root -> [Nodes -> EntryType]]
  BY <1>1, WalkFacts, RequestFields DEF IInv, TypeOK
<1>3. PICK e \in EntryType :
        e = [kind |-> KindOf(request.rights), rights |-> request.rights,
             paddr |-> request.paddr]
  <2>1. KindOf(request.rights) \in {"absent", "table", "page"}
    BY DEF KindOf
  <2>2. request.rights \in SUBSET Rights /\ request.paddr \in Nat
    BY RequestFields DEF IInv
  <2> QED BY <2>1, <2>2 DEF EntryType
<1>4. PICK h : h = Here
  OBVIOUS
<1>5. entries' = [entries EXCEPT ![request.root] = [entries[request.root] EXCEPT ![h] = e]]
  BY <1>1, <1>3, <1>4
<1>6. /\ entries' \in [Root -> [Nodes -> EntryType]]
      /\ entries'[request.root][h] = e
      /\ \A n \in Nodes : n # h => entries'[request.root][n] = entries[request.root][n]
      /\ \A root \in Root : root # request.root => entries'[root] = entries[root]
  BY <1>2, <1>4, <1>5
<1> QED BY <1>1, <1>3, <1>4, <1>6

\* What is left of the request after a page has been stored.
LEMMA AdvanceFacts ==
  ASSUME IInv, SetPage
  PROVE  /\ request' = [root |-> request.root, vaddr |-> request.vaddr + PageSize[level],
                        paddr |-> request.paddr + PageSize[level],
                        length |-> request.length - PageSize[level],
                        rights |-> request.rights]
         /\ request' \in RequestType
         /\ RequestInv'
         /\ PageSize[level] \in Nat \ {0} /\ PageSize[level] <= request.length
<1>1. Mapping /\ level = choose_target_level /\ Advance
  BY DEF SetPage
<1>2. level \in Level /\ FitsLevel(level)
  BY <1>1, WalkFacts
<1>3. PICK p \in Nat \ {0} : p = PageSize[level] /\ p % PTM_PAGE_GRANULARITY = 0
  BY <1>2, SizeFacts
<1>4. PICK g \in Nat \ {0} : g = PTM_PAGE_GRANULARITY
  BY <1>2, SizeFacts
<1>5. p <= request.length
  BY <1>2, <1>3 DEF FitsLevel
<1>6. /\ request.root \in Root /\ request.vaddr \in Nat /\ request.paddr \in Nat
      /\ request.length \in Nat /\ request.rights \in SUBSET Rights
  BY RequestFields DEF IInv
<1>7. request' = [root |-> request.root, vaddr |-> request.vaddr + p,
                  paddr |-> request.paddr + p, length |-> request.length - p,
                  rights |-> request.rights]
  BY <1>1, <1>3 DEF Advance, IInv, TypeOK, RequestType
<1>8. /\ request'.vaddr = request.vaddr + p /\ request'.paddr = request.paddr + p
      /\ request'.length = request.length - p
  BY <1>7
<1>9. request' \in RequestType
  BY <1>5, <1>6, <1>7 DEF RequestType
<1>10. /\ request.vaddr % g = 0 /\ request.paddr % g = 0 /\ request.length % g = 0
       /\ p % g = 0
  BY <1>3, <1>4 DEF IInv, RequestInv, Unaligned
<1>11. /\ (request.vaddr + p) % g = 0 /\ (request.paddr + p) % g = 0
       /\ (request.length - p) % g = 0
  BY <1>5, <1>6, <1>10, Multiples
<1>12. request'.vaddr + request'.length <= TopAddress
  BY <1>5, <1>6, <1>8, TopAssumption DEF IInv, RequestInv
<1>13. request'.rights = {} => request'.length <= PTM_PAGE_GRANULARITY
  <2>1. request'.rights = request.rights
    BY <1>7
  <2>2. request.rights = {} => request.length <= g
    BY <1>4 DEF IInv, RequestInv
  <2> QED BY <1>4, <1>6, <1>8, <2>1, <2>2
<1>14. RequestInv'
  BY <1>4, <1>8, <1>11, <1>12, <1>13 DEF RequestInv, Unaligned
<1> QED BY <1>3, <1>5, <1>7, <1>9, <1>14

\* Going down keeps the invariant: the entries that were passed are tables.
LEMMA DescendInv ==
  ASSUME IInv, Descend
  PROVE  IInv'
<1>1. /\ Mapping /\ level > choose_target_level
      /\ entries' \in [Root -> [Nodes -> EntryType]]
      /\ entries'[request.root][Here].kind = "table"
      /\ \A n \in Nodes : n # Here => entries'[request.root][n] = entries[request.root][n]
      /\ \A root \in Root : root # request.root => entries'[root] = entries[root]
      /\ level' = level - 1
      /\ UNCHANGED <<g_level_count, initialised, request, panic>>
  BY DescendWrites
<1>2. /\ level \in 1..total_levels /\ level \in Level
      /\ total_levels = LevelsOf(request.root) /\ total_levels \in 1..LevelCount
      /\ request.vaddr \in Address /\ Here \in Nodes /\ choose_target_level \in 1..3
      /\ request.root \in Root
  BY <1>1, WalkFacts, RequestFields DEF IInv
<1>3. TypeOK'
  BY <1>1, <1>2, LevelAssumption DEF IInv, TypeOK
<1>4. RequestInv'
  BY <1>1 DEF IInv, RequestInv
<1>5. FreshInv'
  <2>1. request.length > 0
    BY <1>1 DEF Mapping
  <2> QED BY <1>1, <2>1 DEF IInv, FreshInv
<1>6. choose_target_level' = choose_target_level /\ total_levels' = total_levels
  BY <1>1 DEF choose_target_level, FitsLevel, total_levels
<1>7. \A m \in (level + 1)..total_levels :
        entries[request.root][Node(m, request.vaddr)].kind = "table"
  BY <1>1 DEF IInv, WalkInv
<1>8. ASSUME NEW m \in level..total_levels
      PROVE  entries'[request.root][Node(m, request.vaddr)].kind = "table"
  <2>1. CASE m = level
    BY <1>1, <2>1 DEF Here
  <2>2. CASE m # level
    <3>1. m \in (level + 1)..total_levels /\ m \in Level
      BY <1>2, <2>2, LevelAssumption DEF Level
    <3>2. Node(m, request.vaddr) \in Nodes /\ Node(m, request.vaddr) # Here
      BY <1>2, <2>2, <3>1, NodeIn DEF Here, Node
    <3> QED BY <1>1, <1>7, <3>1, <3>2
  <2> QED BY <2>1, <2>2
<1>9. WalkInv'
  <2>1. choose_target_level' <= level' /\ level' <= total_levels' /\ level' + 1 = level
    BY <1>1, <1>2, <1>6 DEF Level
  <2> QED BY <1>1, <1>6, <1>8, <2>1 DEF WalkInv
<1>10. TablesInv'
  <2> SUFFICES ASSUME NEW root \in Root
               PROVE  NothingBeneath(entries'[root], LevelsOf(root)')
    BY DEF TablesInv
  <2>1. LevelsOf(root)' = LevelsOf(root) /\ NothingBeneath(entries[root], LevelsOf(root))
    BY <1>1 DEF LevelsOf, IInv, TablesInv
  <2>2. CASE root # request.root
    BY <1>1, <2>1, <2>2
  <2>3. CASE root = request.root
    <3>1. /\ entries'[root][Node(level, request.vaddr)].kind # "absent"
          /\ \A n \in Nodes : n # Node(level, request.vaddr) => entries'[root][n] = entries[root][n]
      BY <1>1, <2>3 DEF Here
    <3>2. NothingBeneath(entries[root], total_levels)
      BY <1>2, <2>1, <2>3
    <3>3. NothingBeneath(entries'[root], total_levels)
      BY <1>2, <1>7, <2>3, <3>1, <3>2, StoreBeneath
    <3> QED BY <1>2, <2>1, <2>3, <3>3
  <2> QED BY <2>2, <2>3
<1> QED BY <1>3, <1>4, <1>5, <1>9, <1>10 DEF IInv

\* Storing a page keeps the invariant: a new walk starts at the top.
LEMMA SetPageInv ==
  ASSUME IInv, SetPage
  PROVE  IInv'
<1>1. /\ Mapping /\ level = choose_target_level
      /\ entries' \in [Root -> [Nodes -> EntryType]]
      /\ entries'[request.root][Here].kind # "absent"
      /\ \A n \in Nodes : n # Here => entries'[request.root][n] = entries[request.root][n]
      /\ \A root \in Root : root # request.root => entries'[root] = entries[root]
      /\ level' = total_levels
      /\ UNCHANGED <<g_level_count, initialised, panic>>
  BY SetPageWrites DEF KindOf
<1>2. /\ level \in 1..total_levels /\ level \in Level
      /\ total_levels = LevelsOf(request.root) /\ total_levels \in 1..LevelCount
      /\ request.vaddr \in Address /\ Here \in Nodes /\ choose_target_level \in 1..3
      /\ request.root \in Root /\ LevelsOf(request.root) \in 3..LevelCount
  BY <1>1, WalkFacts, RequestFields, LevelsFacts DEF IInv
<1>3. request' \in RequestType /\ RequestInv' /\ request'.root = request.root
  BY AdvanceFacts
<1>4. TypeOK'
  BY <1>1, <1>2, <1>3, LevelAssumption DEF IInv, TypeOK
<1>5. FreshInv'
  <2>1. request.length > 0
    BY <1>1 DEF Mapping
  <2>2. initialised
    BY <2>1 DEF IInv, FreshInv
  <2> QED BY <1>1, <2>2 DEF FreshInv
<1>6. total_levels' = total_levels
  BY <1>1, <1>3 DEF total_levels
<1>7. WalkInv'
  <2> SUFFICES ASSUME Mapping'
               PROVE  /\ choose_target_level' <= level' /\ level' <= total_levels'
                      /\ \A m \in (level' + 1)..total_levels' :
                            entries'[request'.root][Node(m, request'.vaddr)].kind = "table"
    BY DEF WalkInv
  <2>1. choose_target_level' \in 1..3
    BY <1>3, <1>4, TargetBoundNext DEF Mapping
  <2>2. PICK n \in 3..LevelCount : n = total_levels
    BY <1>2
  <2>3. (n + 1)..n = {}
    BY LevelAssumption
  <2> QED BY <1>1, <1>6, <2>1, <2>2, <2>3, LevelAssumption
<1>8. \A m \in (level + 1)..total_levels :
        entries[request.root][Node(m, request.vaddr)].kind = "table"
  BY <1>1 DEF IInv, WalkInv
<1>9. TablesInv'
  <2> SUFFICES ASSUME NEW root \in Root
               PROVE  NothingBeneath(entries'[root], LevelsOf(root)')
    BY DEF TablesInv
  <2>1. LevelsOf(root)' = LevelsOf(root) /\ NothingBeneath(entries[root], LevelsOf(root))
    BY <1>1 DEF LevelsOf, IInv, TablesInv
  <2>2. CASE root # request.root
    BY <1>1, <2>1, <2>2
  <2>3. CASE root = request.root
    <3>1. /\ entries'[root][Node(level, request.vaddr)].kind # "absent"
          /\ \A n \in Nodes : n # Node(level, request.vaddr) => entries'[root][n] = entries[root][n]
      BY <1>1, <2>3 DEF Here
    <3>2. NothingBeneath(entries[root], total_levels)
      BY <1>2, <2>1, <2>3
    <3>3. NothingBeneath(entries'[root], total_levels)
      BY <1>2, <1>8, <2>3, <3>1, <3>2, StoreBeneath
    <3> QED BY <1>2, <2>1, <2>3, <3>3
  <2> QED BY <2>2, <2>3
<1> QED BY <1>3, <1>4, <1>5, <1>7, <1>9 DEF IInv

\* Nothing is mapped before ptm_init.
LEMMA InitInv == Init => IInv
<1> SUFFICES ASSUME Init PROVE IInv
  OBVIOUS
<1>1. TypeOK
  <2>1. Absent \in EntryType
    BY DEF Absent, EntryType
  <2>2. [n \in Nodes |-> Absent] \in [Nodes -> EntryType]
    BY <2>1
  <2>3. entries \in [Root -> [Nodes -> EntryType]]
    BY <2>2, BootAssumption DEF Init
  <2>4. request \in RequestType
    BY DEF Init, NoRequest, RequestType, Root, Rights
  <2>5. g_level_count \in 3..LevelCount /\ level \in 0..LevelCount
    <3>1. g_level_count = 3 /\ level = 0
      BY DEF Init
    <3> QED BY <3>1, LevelAssumption
  <2>6. initialised \in BOOLEAN
    BY Zenon DEF Init
  <2> QED BY <2>3, <2>4, <2>5, <2>6, Zenon DEF TypeOK
<1>2. RequestInv
  <2>1. PICK g \in Nat \ {0} : g = PTM_PAGE_GRANULARITY
    BY SizeFacts, LevelAssumption DEF Level
  <2>2. 0 % g = 0
    BY SMT
  <2> QED BY <2>1, <2>2, TopAssumption DEF Init, NoRequest, RequestInv, Unaligned
<1>3. request.length = 0 /\ \A n \in Nodes : entries["own"][n].kind = "absent"
  BY DEF Init, NoRequest, Root, Absent
<1>4. FreshInv /\ WalkInv
  BY <1>3 DEF FreshInv, WalkInv, Mapping
<1>5. TablesInv
  <2>1. NothingBeneath(entries["boot"], LevelsOf("boot"))
    BY BootAssumption DEF Init, Root, LevelsOf
  <2>2. NothingBeneath(entries["own"], LevelsOf("own"))
    <3> SUFFICES ASSUME NEW v \in Address, NEW m \in 1..LevelsOf("own"), NEW l \in 1..m
                 PROVE  entries["own"][Node(l, v)].kind = "absent"
      BY DEF NothingBeneath
    <3>1. l \in Level
      BY <1>1, LevelsFacts, LevelAssumption DEF Level, Root
    <3> QED BY <1>3, <3>1, NodeIn
  <2> QED BY <2>1, <2>2 DEF TablesInv, Root
<1> QED BY <1>1, <1>2, <1>4, <1>5 DEF IInv

\* ptm_init decides the number of levels while the own tables are empty.
LEMMA PtmInitInv ==
  ASSUME IInv, ptm_init
  PROVE  IInv'
<1>1. /\ ~initialised /\ UNCHANGED <<entries, request, level>>
      /\ g_level_count' \in 3..LevelCount /\ initialised' \in BOOLEAN
  BY DEF ptm_init, detect_max_level_count, IInv, TypeOK
<1>2. request.length = 0 /\ \A n \in Nodes : entries["own"][n].kind = "absent"
  BY <1>1 DEF IInv, FreshInv
<1>3. TypeOK' /\ RequestInv' /\ FreshInv'
  BY <1>1, <1>2 DEF IInv, TypeOK, RequestInv, FreshInv
<1>4. WalkInv'
  BY <1>1, <1>2 DEF WalkInv, Mapping
<1>5. TablesInv'
  <2>1. NothingBeneath(entries'["boot"], LevelsOf("boot")')
    BY <1>1 DEF IInv, TablesInv, LevelsOf, Root
  <2>2. ASSUME NEW v \in Address, NEW m \in 1..g_level_count', NEW l \in 1..m
        PROVE  entries["own"][Node(l, v)].kind = "absent"
    <3>1. l \in Level
      BY <1>1, LevelAssumption DEF Level
    <3> QED BY <1>2, <3>1, NodeIn
  <2>3. NothingBeneath(entries'["own"], LevelsOf("own")')
    BY <1>1, <2>2 DEF NothingBeneath, LevelsOf
  <2> QED BY <2>1, <2>3 DEF TablesInv, Root
<1> QED BY <1>3, <1>4, <1>5 DEF IInv

\* A step that only stops the machine, or none.
LEMMA StopInv ==
  ASSUME IInv, UNCHANGED <<entries, g_level_count, initialised, request, level>>,
         panic' # "no" \/ panic' = panic
  PROVE  IInv'
<1>1. choose_target_level' = choose_target_level /\ total_levels' = total_levels
  BY DEF choose_target_level, FitsLevel, total_levels
<1>2. TypeOK' /\ RequestInv' /\ FreshInv' /\ TablesInv'
  BY DEF IInv, TypeOK, RequestInv, FreshInv, TablesInv, LevelsOf
<1>3. WalkInv'
  BY <1>1 DEF IInv, WalkInv, Mapping
<1> QED BY <1>2, <1>3 DEF IInv

\* What a slot of the snapshot makes ptm_create_hhdm_mappings ask for.
LEMMA SlotAsks ==
  ASSUME NEW s \in Slots, MapSlot(s)
  PROVE  \E r \in [vaddr : Nat, paddr : Nat, length : Nat, flags : SUBSET Rights] :
            /\ ptm_map(r)
            /\ r.flags = {} => r.length <= PTM_PAGE_GRANULARITY
            /\ ~Unaligned(r.vaddr, r.paddr, r.length) => r.vaddr + r.length <= TopAddress
<1>1. /\ s.base \in Nat /\ s.length \in Nat /\ hhdm_offset \in Nat
      /\ hhdm_offset + s.base + s.length <= TopAddress
  BY SlotsAssumption
<1>2. PICK f, n : f = FloorPage(s.base) /\ n = CeilPages(s.base, s.length)
  OBVIOUS
<1>3. /\ f \in Nat /\ n \in Nat
      /\ (hhdm_offset + f) % PTM_PAGE_GRANULARITY = 0 => hhdm_offset + f + n <= TopAddress
  BY <1>1, <1>2, WholePages
<1> DEFINE r == [vaddr |-> hhdm_offset + f, paddr |-> f, length |-> n,
                 flags |-> {"READ", "WRITE"}]
<1>4. ptm_map(r)
  <2>1. s.base % PTM_PAGE_GRANULARITY \in Nat
    BY <1>1, SizeFacts, Divide, LevelAssumption DEF Level
  <2>2. hhdm_offset + s.base - (s.base % PTM_PAGE_GRANULARITY)
          = hhdm_offset + (s.base - (s.base % PTM_PAGE_GRANULARITY))
    BY <1>1, <2>1
  <2> QED BY <1>2, <2>2 DEF MapSlot, FloorPage, CeilPages
<1>5. r \in [vaddr : Nat, paddr : Nat, length : Nat, flags : SUBSET Rights]
  BY <1>1, <1>3 DEF Rights
<1>6. ~Unaligned(r.vaddr, r.paddr, r.length) => r.vaddr + r.length <= TopAddress
  BY <1>3 DEF Unaligned
<1> QED BY <1>4, <1>5, <1>6

\* Every step keeps the invariant.
LEMMA NextInv == IInv /\ [Next]_vars => IInv'
<1> SUFFICES ASSUME IInv, [Next]_vars PROVE IInv'
  OBVIOUS
<1>1. CASE ptm_init
  BY <1>1, PtmInitInv
<1>2. CASE map_page
  <2>1. CASE OutOfMemory \/ RemapPanic
    <3>1. UNCHANGED <<entries, g_level_count, initialised, request, level>> /\ panic' # "no"
      BY <2>1 DEF OutOfMemory, RemapPanic
    <3> QED BY <3>1, StopInv
  <2> QED BY <1>2, <2>1, DescendInv, SetPageInv DEF map_page
<1>3. LevelsOf("own") = g_level_count /\ LevelsOf("boot") = BootLevels
  BY DEF LevelsOf
<1>4. ASSUME NEW r, ptm_map(r) \/ ptm_map_at(r),
             r \in [vaddr : Nat, paddr : Nat, length : Nat, flags : SUBSET Rights],
             r.flags = {} => r.length <= PTM_PAGE_GRANULARITY,
             ~Unaligned(r.vaddr, r.paddr, r.length) => r.vaddr + r.length <= TopAddress
      PROVE  IInv'
  BY <1>3, <1>4, AskInv DEF ptm_map, ptm_map_at, Root
<1>5. ASSUME NEW r \in Requests, ptm_map(r) \/ ptm_map_at(r) PROVE IInv'
  BY <1>4, <1>5, RequestsAssumption
<1>6. ASSUME NEW s \in Slots, MapSlot(s) PROVE IInv'
  BY <1>4, <1>6, SlotAsks
<1>7. CASE UNCHANGED vars
  BY <1>7, StopInv DEF vars
<1> QED BY <1>1, <1>2, <1>5, <1>6, <1>7 DEF Next

\* The tables and the request stay well formed.
THEOREM Invariance == Spec => []IInv
  BY InitInv, NextInv, PTL DEF Spec

----------------------------------------------------------------------------
(* Where pages are.                                                        *)

\* A page is stored at a level of at most three, where its address is aligned.
LEMMA NextWellPlaced ==
  ASSUME IInv, PagesWellPlaced, [Next]_vars
  PROVE  PagesWellPlaced'
<1>1. CASE entries' = entries
  BY <1>1 DEF PagesWellPlaced, WellPlaced
<1>2. ASSUME Mapping, NEW new, new = entries'[request.root],
             \A n \in Nodes : n # Here => new[n] = entries[request.root][n],
             \A root \in Root : root # request.root => entries'[root] = entries[root],
             new[Here].kind = "page" =>
                Here[1] <= 3 /\ new[Here].paddr % PageSize[Here[1]] = 0
      PROVE  PagesWellPlaced'
  <2>1. ASSUME NEW root \in Root, root # request.root PROVE WellPlaced(entries'[root])
    BY <1>2, <2>1 DEF PagesWellPlaced
  <2>2. WellPlaced(entries[request.root])
    BY RequestFields DEF PagesWellPlaced, IInv
  <2>3. WellPlaced(new)
    BY <1>2, <2>2, Zenon DEF WellPlaced
  <2> QED BY <1>2, <2>1, <2>3 DEF PagesWellPlaced
<1>3. CASE Descend
  <2>1. /\ Mapping /\ entries'[request.root][Here].kind = "table"
        /\ \A n \in Nodes : n # Here => entries'[request.root][n] = entries[request.root][n]
        /\ \A root \in Root : root # request.root => entries'[root] = entries[root]
    BY <1>3, DescendWrites
  <2> QED BY <1>2, <2>1
<1>4. CASE SetPage
  <2>1. /\ Mapping /\ level = choose_target_level
        /\ entries'[request.root][Here].paddr = request.paddr
        /\ \A n \in Nodes : n # Here => entries'[request.root][n] = entries[request.root][n]
        /\ \A root \in Root : root # request.root => entries'[root] = entries[root]
    BY <1>4, SetPageWrites
  <2>2. level <= 3 /\ request.paddr % PageSize[level] = 0 /\ Here[1] = level
    BY <2>1, WalkFacts DEF FitsLevel, Here, Node
  <2> QED BY <1>2, <2>1, <2>2
<1>5. CASE OutOfMemory \/ RemapPanic \/ ptm_init \/ UNCHANGED vars
  BY <1>1, <1>5 DEF OutOfMemory, RemapPanic, ptm_init, vars
<1>6. ASSUME NEW r, ptm_map(r) \/ ptm_map_at(r) PROVE PagesWellPlaced'
  BY <1>1, <1>6 DEF ptm_map, ptm_map_at, Ask
<1>7. ASSUME NEW s \in Slots, MapSlot(s) PROVE PagesWellPlaced'
  BY <1>6, <1>7, SlotAsks
<1> QED BY <1>3, <1>4, <1>5, <1>6, <1>7 DEF Next, map_page

\* Every page, whatever the request and the sizes chosen for it, is aligned to its
\* size and at most a gigabyte (choose_target_level, ptm.c:73-79), provided that the
\* boot loader's own pages are.
THEOREM PagesStayWellPlaced ==
  ASSUME WellPlaced(BootTable)
  PROVE  Spec => []PagesWellPlaced
<1>1. Init => PagesWellPlaced
  <2> SUFFICES ASSUME Init, NEW root \in Root PROVE WellPlaced(entries[root])
    BY DEF PagesWellPlaced
  <2>1. CASE root = "boot"
    BY <2>1 DEF Init, Root
  <2>2. CASE root = "own"
    <3>1. \A n \in Nodes : entries[root][n].kind = "absent"
      BY <2>2 DEF Init, Root, Absent
    <3> QED BY <3>1 DEF WellPlaced
  <2> QED BY <2>1, <2>2 DEF Root
<1>2. IInv /\ PagesWellPlaced /\ [Next]_vars => PagesWellPlaced'
  BY NextWellPlaced
<1> QED BY <1>1, <1>2, Invariance, PTL DEF Spec

----------------------------------------------------------------------------
(* Translations.                                                           *)

\* What an entry that is a page makes of an address of its block.
Given(e, offset) ==
    IF e.rights \in Refused THEN Unmapped
    ELSE [paddr |-> e.paddr + offset, rights |-> e.rights]

\* The translation of an address whose walk ends at a page.
LEMMA TranslateIs ==
  ASSUME NEW table, NEW levels \in Nat, NEW v, NEW l \in 1..levels,
         IsPage(table, levels, l, v)
  PROVE  Translate(table, levels, v) = Given(table[Node(l, v)], v % PageSize[l])
<1>1. (CHOOSE k \in 1..levels : IsPage(table, levels, k, v)) = l
  BY ChosenPage
<1> QED BY <1>1, Zenon DEF Translate, Given

\* And of one whose walk ends nowhere.
LEMMA TranslateNone ==
  ASSUME NEW table, NEW levels, NEW v, \A l \in 1..levels : ~IsPage(table, levels, l, v)
  PROVE  Translate(table, levels, v) = Unmapped
  BY Zenon DEF Translate

\* Tables with the same walks translate the same.
LEMMA TranslateSame ==
  ASSUME NEW table, NEW new, NEW levels \in Nat, NEW v,
         \A l \in 1..levels : IsPage(new, levels, l, v) <=> IsPage(table, levels, l, v),
         \A l \in 1..levels :
            IsPage(table, levels, l, v) => new[Node(l, v)] = table[Node(l, v)]
  PROVE  Translate(new, levels, v) = Translate(table, levels, v)
<1>1. CASE \E l \in 1..levels : IsPage(table, levels, l, v)
  <2>1. PICK l \in 1..levels : IsPage(table, levels, l, v)
    BY <1>1
  <2>2. IsPage(new, levels, l, v) /\ new[Node(l, v)] = table[Node(l, v)]
    BY <2>1
  <2>3. Translate(table, levels, v) = Given(table[Node(l, v)], v % PageSize[l])
    BY <2>1, TranslateIs
  <2>4. Translate(new, levels, v) = Given(new[Node(l, v)], v % PageSize[l])
    BY <2>2, TranslateIs
  <2> QED BY <2>2, <2>3, <2>4, Zenon
<1>2. CASE \A l \in 1..levels : ~IsPage(table, levels, l, v)
  <2>1. \A l \in 1..levels : ~IsPage(new, levels, l, v)
    BY <1>2
  <2> QED BY <1>2, <2>1, TranslateNone
<1> QED BY <1>1, <1>2

\* Going down a level changes no translation.
LEMMA DescendTranslation ==
  ASSUME IInv, Descend, NEW root \in Root, NEW v \in Address
  PROVE  Translation(root, v)' = Translation(root, v)
<1>1. /\ Mapping /\ entry.kind \in {"absent", "table"}
      /\ entries'[request.root][Here].kind = "table"
      /\ \A n \in Nodes : n # Here => entries'[request.root][n] = entries[request.root][n]
      /\ \A r \in Root : r # request.root => entries'[r] = entries[r]
      /\ g_level_count' = g_level_count
  BY DescendWrites
<1>2. LevelsOf(root)' = LevelsOf(root)
  BY <1>1 DEF LevelsOf
<1>3. CASE root # request.root
  BY <1>1, <1>2, <1>3 DEF Translation
<1>4. CASE root = request.root
  <2>1. PICK levels \in 1..LevelCount : levels = LevelsOf(root)
    BY LevelsFacts DEF IInv
  <2>2. PICK table, new : table = entries[root] /\ new = entries'[root]
    OBVIOUS
  <2>3. PICK k \in 1..levels, w \in Address : k = level /\ w = request.vaddr
    BY <1>1, <1>4, <2>1, WalkFacts
  <2>4. NothingBeneath(table, levels)
    BY <2>1, <2>2 DEF IInv, TablesInv
  <2>5. /\ table[Node(k, w)].kind \in {"absent", "table"}
        /\ new[Node(k, w)].kind = "table"
        /\ \A n \in Nodes : n # Node(k, w) => new[n] = table[n]
    BY <1>1, <1>4, <2>2, <2>3 DEF Here, entry
  <2>6. \A l \in 1..levels : IsPage(new, levels, l, v) <=> IsPage(table, levels, l, v)
    BY <2>4, <2>5, TableKeepsPages
  <2>7. ASSUME NEW l \in 1..levels, IsPage(table, levels, l, v)
        PROVE  new[Node(l, v)] = table[Node(l, v)]
    <3>1. Node(l, v) \in Nodes
      BY NodeIn, LevelAssumption DEF Level
    <3>2. Node(l, v) # Node(k, w)
      BY <2>5, <2>7 DEF IsPage
    <3> QED BY <2>5, <3>1, <3>2
  <2>8. Translate(new, levels, v) = Translate(table, levels, v)
    BY <2>6, <2>7, LevelAssumption, TranslateSame
  <2> QED BY <1>2, <2>1, <2>2, <2>8 DEF Translation
<1> QED BY <1>3, <1>4

\* A request for no right is for one page, which goes into a table of the last level.
LEMMA NoRightsLastLevel ==
  ASSUME IInv, Mapping, request.rights = {}
  PROVE  choose_target_level = 1
<1>1. PICK l \in 1..3 : l = choose_target_level /\ FitsLevel(l)
  BY WalkFacts
<1>2. request.length >= PageSize[l] /\ request.length <= PageSize[1]
  BY <1>1 DEF FitsLevel, IInv, RequestInv, PTM_PAGE_GRANULARITY
<1>3. CASE l # 1
  <2>1. l \in Level /\ 1 \in Level /\ 1 < l
    BY <1>1, <1>3, LevelAssumption DEF Level
  <2>2. PICK a, b \in Nat : a = PageSize[1] /\ b = PageSize[l] /\ b > a
    BY <2>1, PageSizeAssumption
  <2>3. request.length \in Nat
    BY RequestFields DEF IInv
  <2> QED BY <1>2, <2>2, <2>3
<1> QED BY <1>1, <1>3

\* An entry of the last level without rights is not a page, and a walk through it has
\* met none before it.
LEMMA NoPageFound ==
  ASSUME NEW table, NEW new, NEW levels \in 1..LevelCount, NEW w \in Address,
         \A m \in 2..levels : table[Node(m, w)].kind = "table",
         new[Node(1, w)].kind = "table",
         \A n \in Nodes : n # Node(1, w) => new[n] = table[n],
         NEW v \in Address, Node(1, v) = Node(1, w)
  PROVE  \A l \in 1..levels : ~IsPage(new, levels, l, v)
<1> SUFFICES ASSUME NEW l \in 1..levels PROVE new[Node(l, v)].kind = "table"
  BY DEF IsPage
<1>1. v \in Nat /\ w \in Nat /\ l \in Level /\ 1 \in Level /\ 1 <= l
  BY LevelAssumption DEF Level, Address
<1>2. Node(l, v) = Node(l, w) /\ Node(l, w) \in Nodes
  BY <1>1, NodeUp, NodeIn
<1>3. CASE l # 1
  <2>1. l \in 2..levels /\ Node(l, w) # Node(1, w)
    BY <1>1, <1>3, LevelAssumption DEF Node
  <2> QED BY <1>2, <2>1
<1> QED BY <1>2, <1>3

\* What a request makes of an address of its range.
Asked(v) ==
    IF request.rights \in Refused THEN Unmapped
    ELSE [paddr |-> request.paddr + (v - request.vaddr), rights |-> request.rights]

\* Storing an entry changes the translation of its addresses, and no other.
LEMMA SetPageTranslation ==
  ASSUME IInv, SetPage, NEW root \in Root, NEW v \in Address
  PROVE  Translation(root, v)' =
            IF /\ root = request.root
               /\ request.vaddr <= v /\ v < request.vaddr + PageSize[level]
            THEN Asked(v) ELSE Translation(root, v)
<1>1. /\ Mapping /\ level = choose_target_level
      /\ entries'[request.root][Here] = [kind |-> KindOf(request.rights),
                                         rights |-> request.rights, paddr |-> request.paddr]
      /\ \A n \in Nodes : n # Here => entries'[request.root][n] = entries[request.root][n]
      /\ \A r \in Root : r # request.root => entries'[r] = entries[r]
      /\ g_level_count' = g_level_count
  BY SetPageWrites
<1>2. LevelsOf(root)' = LevelsOf(root)
  BY <1>1 DEF LevelsOf
<1>3. CASE root # request.root
  BY <1>1, <1>2, <1>3 DEF Translation
<1>4. CASE root = request.root
  <2>1. PICK levels \in 1..LevelCount : levels = LevelsOf(root)
    BY LevelsFacts DEF IInv
  <2>2. PICK table, new : table = entries[root] /\ new = entries'[root]
    OBVIOUS
  <2>3. PICK k \in 1..levels, w \in Address : k = level /\ w = request.vaddr
    BY <1>1, <1>4, <2>1, WalkFacts
  <2>4. /\ k \in Level /\ w \in Nat /\ v \in Nat /\ w % PageSize[k] = 0
        /\ total_levels = levels
    BY <1>1, <1>4, <2>1, <2>3, WalkFacts DEF FitsLevel, Address
  <2>5. /\ new[Node(k, w)] = [kind |-> KindOf(request.rights),
                              rights |-> request.rights, paddr |-> request.paddr]
        /\ \A n \in Nodes : n # Node(k, w) => new[n] = table[n]
    BY <1>1, <1>4, <2>2, <2>3 DEF Here
  <2>6. \A m \in (k + 1)..levels : table[Node(m, w)].kind = "table"
    BY <1>1, <1>4, <2>2, <2>3, <2>4 DEF IInv, WalkInv
  <2>7. /\ Node(k, v) = Node(k, w) <=> (w <= v /\ v < w + PageSize[k])
        /\ Node(k, v) = Node(k, w) => v % PageSize[k] = v - w
    BY <2>4, NodeBlock
  <2>8. CASE Node(k, v) = Node(k, w)
    <3>1. ASSUME request.rights # {} PROVE Translate(new, levels, v) = Asked(v)
      <4>1. new[Node(k, w)].kind = "page"
        BY <2>5, <3>1 DEF KindOf
      <4>2. IsPage(new, levels, k, v)
        BY <2>5, <2>6, <2>8, <4>1, NewPageFound
      <4>3. Translate(new, levels, v) = Given(new[Node(k, v)], v % PageSize[k])
        BY <4>2, LevelAssumption, TranslateIs
      <4>4. /\ new[Node(k, v)].rights = request.rights
            /\ new[Node(k, v)].paddr = request.paddr /\ v % PageSize[k] = v - request.vaddr
        BY <2>3, <2>5, <2>7, <2>8
      <4> QED BY <4>3, <4>4, Zenon DEF Given, Asked
    <3>2. ASSUME request.rights = {} PROVE Translate(new, levels, v) = Asked(v)
      <4>1. k = 1
        BY <1>1, <2>3, <3>2, NoRightsLastLevel
      <4>2. new[Node(1, w)].kind = "table"
        BY <2>5, <3>2, <4>1 DEF KindOf
      <4>3. \A m \in 2..levels : table[Node(m, w)].kind = "table"
        BY <2>6, <4>1
      <4>4. \A l \in 1..levels : ~IsPage(new, levels, l, v)
        BY <2>5, <2>8, <4>1, <4>2, <4>3, NoPageFound
      <4>5. Translate(new, levels, v) = Unmapped
        BY <4>4, TranslateNone
      <4> QED BY <3>2, <4>5 DEF Asked, Refused
    <3>3. Translate(new, levels, v) = Asked(v)
      BY <3>1, <3>2
    <3> QED BY <1>2, <1>4, <2>1, <2>2, <2>3, <2>7, <2>8, <3>3 DEF Translation
  <2>9. CASE Node(k, v) # Node(k, w)
    <3>1. \A m \in 1..levels : new[Node(m, v)] = table[Node(m, v)]
      BY <2>5, <2>9, OtherWalks
    <3>2. \A l \in 1..levels : IsPage(new, levels, l, v) <=> IsPage(table, levels, l, v)
      BY <3>1, LevelAssumption, SameWalk
    <3>3. Translate(new, levels, v) = Translate(table, levels, v)
      BY <3>1, <3>2, LevelAssumption, TranslateSame
    <3> QED BY <1>2, <1>4, <2>1, <2>2, <2>3, <2>7, <2>9, <3>3 DEF Translation
  <2> QED BY <2>8, <2>9
<1> QED BY <1>3, <1>4

\* Before ptm_init nothing is mapped, whatever the number of levels.
LEMMA PtmInitTranslation ==
  ASSUME IInv, ptm_init, NEW root \in Root, NEW v \in Address
  PROVE  Translation(root, v)' = Translation(root, v)
<1>1. ~initialised /\ entries' = entries /\ g_level_count' \in 3..LevelCount
  BY DEF ptm_init, detect_max_level_count, IInv, TypeOK
<1>2. CASE root = "boot"
  BY <1>1, <1>2 DEF Translation, LevelsOf
<1>3. CASE root = "own"
  <2>1. \A n \in Nodes : entries["own"][n].kind = "absent"
    BY <1>1 DEF IInv, FreshInv
  <2>2. ASSUME NEW levels \in 3..LevelCount
        PROVE  Translate(entries["own"], levels, v) = Unmapped
    <3>1. ASSUME NEW l \in 1..levels PROVE ~IsPage(entries["own"], levels, l, v)
      <4>1. Node(l, v) \in Nodes
        BY NodeIn, LevelAssumption DEF Level
      <4> QED BY <2>1, <4>1 DEF IsPage
    <3> QED BY <3>1, TranslateNone
  <2>3. g_level_count \in 3..LevelCount
    BY DEF IInv, TypeOK
  <2> QED BY <1>1, <1>3, <2>2, <2>3 DEF Translation, LevelsOf
<1> QED BY <1>2, <1>3 DEF Root

----------------------------------------------------------------------------
(* The address spaces.                                                     *)

\* A step that changes no translation, and stops the machine or ends or begins
\* nothing but a request that has ended, is one of the address spaces.
LEMMA QuietStep ==
  ASSUME \A root \in Root, v \in Page : Translation(root, v)' = Translation(root, v),
         \/ request' = request /\ panic' = panic
         \/ request' = request /\ panic = "no" /\ panic' # "no"
         \/ request.length = 0 /\ panic = "no" /\ panic' = panic
  PROVE  [Spaces!Next]_Spaces!spaceVars
<1>1. [root \in Root |-> [v \in Page |-> Translation(root, v)]]'
        = [root \in Root |-> [v \in Page |-> Translation(root, v)]]
  OBVIOUS
<1>2. CASE request' = request /\ panic' = panic
  BY <1>1, <1>2 DEF Spaces!spaceVars
<1>3. CASE request' = request /\ panic = "no" /\ panic' # "no"
  <2>1. Spaces!Stop
    BY <1>1, <1>3, Zenon DEF Spaces!Stop
  <2> QED BY <2>1 DEF Spaces!Next
<1>4. CASE request.length = 0 /\ panic = "no" /\ panic' = panic
  <2>1. Spaces!Begin
    BY <1>1, <1>4, Zenon DEF Spaces!Begin
  <2> QED BY <2>1 DEF Spaces!Next
<1> QED BY <1>2, <1>3, <1>4

\* Storing a page carries out the request as far as the page goes.
LEMMA SetPageProgress ==
  ASSUME IInv, SetPage
  PROVE  Spaces!Next
<1>1. PICK p \in Nat \ {0} : p = PageSize[level] /\ p <= request.length
  BY AdvanceFacts
<1>2. request' = [root |-> request.root, vaddr |-> request.vaddr + p,
                  paddr |-> request.paddr + p, length |-> request.length - p,
                  rights |-> request.rights]
  BY <1>1, AdvanceFacts
<1>3. /\ request.root \in Root /\ request.vaddr \in Nat /\ request.paddr \in Nat
      /\ request.length \in Nat
  BY RequestFields DEF IInv
<1>4. request.length - request'.length = p
  BY <1>1, <1>2, <1>3
<1>5. request' = [request EXCEPT !.vaddr = @ + p, !.paddr = @ + p, !.length = @ - p]
  BY <1>1, Zenon DEF SetPage, Advance
<1> DEFINE S == [root \in Root |-> [v \in Page |-> Translation(root, v)]]
           T == [v \in Page |->
                   IF request.vaddr <= v /\ v < request.vaddr + p
                     THEN Asked(v) ELSE S[request.root][v]]
<1>6. S' = [S EXCEPT ![request.root] = T]
  <2>1. PICK N : N = S'
    OBVIOUS
  <2>2. ASSUME NEW root \in Root, NEW v \in Page
        PROVE  N[root][v] = IF root = request.root THEN T[v] ELSE S[root][v]
    <3>1. N[root][v] = Translation(root, v)'
      BY <2>1
    <3>2. S[root][v] = Translation(root, v)
      OBVIOUS
    <3>3. Translation(root, v)' =
            IF /\ root = request.root
               /\ request.vaddr <= v /\ v < request.vaddr + p
            THEN Asked(v) ELSE Translation(root, v)
      BY <1>1, SetPageTranslation DEF Page
    <3>4. root = request.root => T[v] =
            IF request.vaddr <= v /\ v < request.vaddr + p
            THEN Asked(v) ELSE S[root][v]
      BY Zenon
    <3> HIDE DEF S, T
    <3> QED BY <3>1, <3>2, <3>3, <3>4, Zenon
  <2>3. /\ N = [x \in Root |-> [v \in Page |-> N[x][v]]]
        /\ S = [x \in Root |-> [v \in Page |-> S[x][v]]]
        /\ T = [v \in Page |-> T[v]]
    BY <2>1
  <2> HIDE DEF S, T
  <2>4. N = [S EXCEPT ![request.root] = T]
    <3>1. PICK a, b, r : a = S /\ b = T /\ r = request.root
      OBVIOUS
    <3>2. r \in Root /\ r = request.root
      BY <1>3, <3>1
    <3>3. /\ N = [x \in Root |-> [v \in Page |-> N[x][v]]]
          /\ a = [x \in Root |-> [v \in Page |-> a[x][v]]]
          /\ b = [v \in Page |-> b[v]]
      BY <2>3, <3>1, Zenon
    <3>4. \A x \in Root, v \in Page : N[x][v] = IF x = r THEN b[v] ELSE a[x][v]
      BY <2>2, <3>1, <3>2, Zenon
    <3>5. ASSUME NEW x \in Root, x # r PROVE N[x] = a[x]
      <4>1. N[x] = [v \in Page |-> N[x][v]] /\ a[x] = [v \in Page |-> a[x][v]]
        BY <3>3, Zenon
      <4>2. \A v \in Page : N[x][v] = a[x][v]
        BY <3>4, <3>5
      <4> QED BY <4>1, <4>2, Zenon
    <3>6. N[r] = b
      <4>1. N[r] = [v \in Page |-> N[r][v]]
        BY <3>2, <3>3, Zenon
      <4>2. \A v \in Page : N[r][v] = b[v]
        BY <3>2, <3>4
      <4> QED BY <3>3, <4>1, <4>2, Zenon
    <3>7. N = [x \in Root |-> N[x]] /\ a = [x \in Root |-> a[x]]
      BY <3>3
    <3>8. N = [a EXCEPT ![r] = b]
      BY <3>5, <3>6, <3>7
    <3> QED BY <3>1, <3>2, <3>8, Zenon
  <2> QED BY <2>1, <2>4
<1>7. panic = "no" /\ panic' = panic
  BY DEF SetPage, Mapping
<1>8. Spaces!Progress(p)
  <2>1. 0 < p /\ p <= request.length /\ ~(panic # "no") /\ (panic # "no")' = (panic # "no")
    BY <1>1, <1>7
  <2>2. S' = [S EXCEPT ![request.root] =
                [v \in Page |->
                   IF request.vaddr <= v /\ v < request.vaddr + p
                     THEN Asked(v) ELSE S[request.root][v]]]
    BY <1>6
  <2> QED BY <1>5, <2>1, <2>2, Zenon DEF Spaces!Progress, Spaces!Mapped, Asked
<1> QED BY <1>4, <1>8 DEF Spaces!Next

\* Every step is a step of the address spaces, or changes nothing of them.
LEMMA NextImplements == IInv /\ [Next]_vars => [Spaces!Next]_Spaces!spaceVars
<1> SUFFICES ASSUME IInv, [Next]_vars PROVE [Spaces!Next]_Spaces!spaceVars
  OBVIOUS
<1>0. Page \subseteq Address
  BY DEF Page
<1>1. ASSUME entries' = entries, g_level_count' = g_level_count
      PROVE  \A root \in Root, v \in Page : Translation(root, v)' = Translation(root, v)
  BY <1>1 DEF Translation, LevelsOf
<1>2. CASE ptm_init
  <2>1. \A root \in Root, v \in Page : Translation(root, v)' = Translation(root, v)
    BY <1>0, <1>2, PtmInitTranslation
  <2>2. request' = request /\ panic = "no"
    BY <1>2 DEF ptm_init
  <2> QED BY <2>1, <2>2, QuietStep
<1>3. CASE Descend
  <2>1. \A root \in Root, v \in Page : Translation(root, v)' = Translation(root, v)
    BY <1>0, <1>3, DescendTranslation
  <2>2. request' = request /\ panic' = panic
    BY <1>3 DEF Descend
  <2> QED BY <2>1, <2>2, QuietStep
<1>4. CASE OutOfMemory \/ RemapPanic
  <2>1. /\ entries' = entries /\ g_level_count' = g_level_count
        /\ request' = request /\ panic = "no" /\ panic' # "no"
    BY <1>4 DEF OutOfMemory, RemapPanic, Mapping
  <2> QED BY <1>1, <2>1, QuietStep
<1>5. CASE SetPage
  BY <1>5, SetPageProgress
<1>6. ASSUME NEW r, ptm_map(r) \/ ptm_map_at(r) PROVE [Spaces!Next]_Spaces!spaceVars
  <2>1. PICK root, levels : Ask(root, levels, r)
    BY <1>6 DEF ptm_map, ptm_map_at
  <2>2. /\ entries' = entries /\ g_level_count' = g_level_count
        /\ panic = "no" /\ request.length <= 0
        /\ (request' = request /\ panic' # "no") \/ panic' = panic
    BY <2>1 DEF Ask, Idle
  <2>3. request.length = 0
    BY <2>2, RequestFields DEF IInv
  <2> QED BY <1>1, <2>2, <2>3, QuietStep
<1>7. ASSUME NEW s \in Slots, MapSlot(s) PROVE [Spaces!Next]_Spaces!spaceVars
  BY <1>6, <1>7, SlotAsks
<1>8. CASE UNCHANGED vars
  <2>1. /\ entries' = entries /\ g_level_count' = g_level_count
        /\ request' = request /\ panic' = panic
    BY <1>8 DEF vars
  <2> QED BY <1>1, <2>1, QuietStep
<1> QED BY <1>2, <1>3, <1>4, <1>5, <1>6, <1>7, <1>8 DEF Next, map_page

\* The RISC-V tables implement the address spaces: every request maps its pages, in
\* order and with the rights asked for, in tables of any depth, and neither the walk
\* nor a new table changes any other page (ptm_map, ptm_map_at, ptm.c:92-118).
THEOREM AddressSpacesImplemented == Spec => ImplementsAddressSpace
<1>1. Init => Spaces!Init
  BY DEF Init, NoRequest, Spaces!Init
<1> QED
  BY <1>1, NextImplements, Invariance, PTL DEF Spec, ImplementsAddressSpace, Spaces!Spec
============================================================================
