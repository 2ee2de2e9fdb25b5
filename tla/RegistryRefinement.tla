------------------------- MODULE RegistryRefinement -------------------------
(* The registry implements the Directory: how its state is read as one.    *)
EXTENDS Registry

dirBar == {k \in Keys : channels[k] # None}

(* The publisher owns its key from its count to its guard's first store.   *)
Owners(k) == {s \in Streamers : pc[s] = "live" /\ key[s] = k}
Sole(S) == IF S = {} THEN None ELSE CHOOSE s \in S : TRUE
ownerBar == [k \in Keys |-> Sole(Owners(k))]

Subscribed(k) == {l \in Listeners : pc[l] = "live" /\ key[l] = k}
subsBar == [k \in Keys |-> Subscribed(k)]

Abstract == INSTANCE Directory WITH
  dir <- dirBar, owner <- ownerBar, subs <- subsBar,
  admitted <- Counted, seated <- Seated

(* Every behaviour of the lock-and-atomics code is a behaviour of the      *)
(* Directory: in particular a key is only ever closed when nobody uses it, *)
(* and a publisher or listener only ever joins an open key.                *)
ImplementsDirectory == Abstract!Spec
=============================================================================
