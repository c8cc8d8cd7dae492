---------------------------- MODULE ResourcePool ----------------------------
(***************************************************************************)
(* What a connection pool promises its clients, whatever it does inside:   *)
(* a resource has one holder at a time, a client holds one resource at a   *)
(* time, and a resource that was taken can only come back from the client  *)
(* that took it.                                                           *)
(***************************************************************************)
CONSTANTS Clients, Resources, NoResource

VARIABLES opened,   \* the pool has been filled
          free,     \* the resources nobody holds
          holds     \* what each client holds

vars == <<opened, free, holds>>

Init ==
    /\ opened = FALSE
    /\ free = {}
    /\ holds = [c \in Clients |-> NoResource]

Open ==
    /\ ~opened
    /\ opened' = TRUE
    /\ free' = Resources
    /\ UNCHANGED holds

Take(c) ==
    /\ holds[c] = NoResource
    /\ \E r \in free :
          /\ free' = free \ {r}
          /\ holds' = [holds EXCEPT ![c] = r]
    /\ UNCHANGED opened

GiveBack(c) ==
    /\ holds[c] # NoResource
    /\ free' = free \cup {holds[c]}
    /\ holds' = [holds EXCEPT ![c] = NoResource]
    /\ UNCHANGED opened

Next == Open \/ \E c \in Clients : Take(c) \/ GiveBack(c)

Spec == Init /\ [][Next]_vars
=============================================================================
