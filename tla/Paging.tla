------------------------------- MODULE Paging -------------------------------
(***************************************************************************)
(* What the page tables of both architectures have in common.  An entry of *)
(* a table of level l translates PageSize[l] addresses, and is identified  *)
(* here by l and by which such block it translates: the tables that hold   *)
(* the entries are pages of their own, fresh from pmm_alloc, that nothing  *)
(* else refers to.  A block that gets a page of its own in place of a      *)
(* table leaves the entries of that table behind, out of reach.            *)
(***************************************************************************)
EXTENDS Integers

CONSTANTS
    LevelCount,             \* g_ptm.level_count
    PageSize,               \* what an entry of each level translates
    TopAddress              \* bound: virtual addresses are below it

Level == 1..LevelCount
PTM_PAGE_GRANULARITY == PageSize[1]

ASSUME LevelAssumption == LevelCount \in Nat /\ LevelCount >= 3
ASSUME PageSizeAssumption ==
    /\ PageSize \in [Level -> Nat \ {0}]
    /\ \A l, m \in Level :
          l < m => PageSize[m] % PageSize[l] = 0 /\ PageSize[m] > PageSize[l]
ASSUME TopAssumption == TopAddress \in Nat /\ TopAddress % PageSize[LevelCount] = 0

Address == 0..(TopAddress - 1)
Page == {v \in Address : v % PTM_PAGE_GRANULARITY = 0}

Node(l, v) == <<l, v \div PageSize[l]>>
Nodes == {n \in Level \X Address : n[2] < TopAddress \div PageSize[n[1]]}

\* The walk for v in a table of that many levels ends at a page of level l.
IsPage(table, levels, l, v) ==
    /\ \A m \in (l + 1)..levels : table[Node(m, v)].kind = "table"
    /\ table[Node(l, v)].kind = "page"

\* An entry that is absent refers to no table, so there are no entries beneath it.
NothingBeneath(table, levels) ==
    \A v \in Address : \A m \in 1..levels : \A l \in 1..m :
        table[Node(m, v)].kind = "absent" => table[Node(l, v)].kind = "absent"

Rights == {"READ", "WRITE", "EXEC"}
Unmapped == [paddr |-> -1, rights |-> {}]

\* ptm_map and ptm_map_at refuse anything that is not made of whole pages.
Unaligned(v, p, length) ==
    \/ v % PTM_PAGE_GRANULARITY # 0
    \/ p % PTM_PAGE_GRANULARITY # 0
    \/ length % PTM_PAGE_GRANULARITY # 0
=============================================================================
