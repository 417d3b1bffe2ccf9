----------------------------- MODULE Rendezvous -----------------------------
(***************************************************************************)
(* What the end of the pre-kernel promises the kernel: cores arrive one by *)
(* one, and none goes on to the kernel before all of them have arrived.    *)
(***************************************************************************)
CONSTANT Core

VARIABLE where          \* where each core is: "boot", "arrived" or "kernel"

Init == where = [c \in Core |-> "boot"]

Arrive(c) ==
    /\ where[c] = "boot"
    /\ where' = [where EXCEPT ![c] = "arrived"]

Enter(c) ==
    /\ where[c] = "arrived"
    /\ \A d \in Core : where[d] # "boot"
    /\ where' = [where EXCEPT ![c] = "kernel"]

Next == \E c \in Core : Arrive(c) \/ Enter(c)

Spec == Init /\ [][Next]_where
============================================================================
