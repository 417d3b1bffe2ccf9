----------------------------- MODULE PageKinds -----------------------------
(***************************************************************************)
(* What the physical memory manager promises, with no map at all: every    *)
(* address has one kind.  The boot loader's ranges give an address the     *)
(* highest of the types reported for it, an allocation takes free          *)
(* addresses only, and freeing an allocation gives back exactly what it    *)
(* took.  The manager may stop the machine at any time (it panics when     *)
(* memory or map slots run out), and does nothing afterwards.              *)
(***************************************************************************)
EXTENDS Integers

CONSTANTS
    Address,            \* the addresses looked at
    Regions,            \* the ranges the boot loader reports
    Types,              \* the kinds of memory, in order of precedence
    FREE                \* the kind that may be allocated

NONE == -1              \* memory nobody reported

VARIABLES
    kind,               \* the kind of each address
    reported,           \* the ranges reported so far
    owned,              \* the allocations that have not been freed
    stopped

kindsVars == <<kind, reported, owned, stopped>>

Covers(r, a) == r.base <= a /\ a < r.base + r.length

Init ==
    /\ kind = [a \in Address |-> NONE]
    /\ reported = {}
    /\ owned = {}
    /\ stopped = FALSE

\* The ranges are all reported before anything is allocated.
Report(r) ==
    /\ ~stopped /\ r \notin reported /\ owned = {}
    /\ reported' = reported \cup {r}
    /\ kind' = [a \in Address |->
                  IF Covers(r, a) /\ r.type > kind[a] THEN r.type ELSE kind[a]]
    /\ UNCHANGED <<owned, stopped>>

Allocate(r) ==
    /\ ~stopped /\ reported = Regions
    /\ r.type \in Types \ {FREE}
    /\ \A a \in Address : Covers(r, a) => kind[a] = FREE
    /\ kind' = [a \in Address |-> IF Covers(r, a) THEN r.type ELSE kind[a]]
    /\ owned' = owned \cup {r}
    /\ UNCHANGED <<reported, stopped>>

Free(r) ==
    /\ ~stopped /\ r \in owned
    /\ kind' = [a \in Address |-> IF Covers(r, a) THEN FREE ELSE kind[a]]
    /\ owned' = owned \ {r}
    /\ UNCHANGED <<reported, stopped>>

Stop ==
    /\ ~stopped
    /\ stopped' = TRUE
    /\ UNCHANGED <<kind, reported, owned>>

Next ==
    \/ \E r \in Regions : Report(r)
    \/ \E r \in owned' : Allocate(r)
    \/ \E r \in owned : Free(r)
    \/ Stop

Spec == Init /\ [][Next]_kindsVars
============================================================================
