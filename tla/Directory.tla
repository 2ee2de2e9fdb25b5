----------------------------- MODULE Directory ------------------------------
(***************************************************************************)
(* What the channel registry promises, without locks, objects or memory    *)
(* operations: a directory of open stream keys, at most one owner and a    *)
(* bounded set of subscribers per key, and server-wide places that are     *)
(* taken before and given back after the key itself.                       *)
(***************************************************************************)
EXTENDS Naturals, FiniteSets

CONSTANTS Streamers, Listeners, Keys, None,
          MaxStreamers, MaxListenersTotal, MaxListenersPerStream

VARIABLES
  dir,        \* the open keys
  owner,      \* key -> its publisher, or None
  subs,       \* key -> its subscribed listeners
  admitted,   \* publishers that hold a server-wide place
  seated      \* listeners that hold a server-wide place

vars == <<dir, owner, subs, admitted, seated>>

HasRoom(limit, set) == limit = 0 \/ Cardinality(set) < limit

Init ==
  /\ dir = {}
  /\ owner = [k \in Keys |-> None]
  /\ subs = [k \in Keys |-> {}]
  /\ admitted = {}
  /\ seated = {}

Open(k) ==
  /\ k \notin dir
  /\ dir' = dir \cup {k}
  /\ UNCHANGED <<owner, subs, admitted, seated>>

(* A key is closed only when nobody uses it.                               *)
Close(k) ==
  /\ k \in dir
  /\ owner[k] = None
  /\ subs[k] = {}
  /\ dir' = dir \ {k}
  /\ UNCHANGED <<owner, subs, admitted, seated>>

Admit(s, k) ==
  /\ k \in dir
  /\ owner[k] = None
  /\ s \notin admitted
  /\ HasRoom(MaxStreamers, admitted)
  /\ owner' = [owner EXCEPT ![k] = s]
  /\ admitted' = admitted \cup {s}
  /\ UNCHANGED <<dir, subs, seated>>

Retire(s, k) ==
  /\ owner[k] = s
  /\ owner' = [owner EXCEPT ![k] = None]
  /\ UNCHANGED <<dir, subs, admitted, seated>>

Release(s) ==
  /\ s \in admitted
  /\ \A k \in Keys : owner[k] # s
  /\ admitted' = admitted \ {s}
  /\ UNCHANGED <<dir, owner, subs, seated>>

Sit(l) ==
  /\ l \notin seated
  /\ HasRoom(MaxListenersTotal, seated)
  /\ seated' = seated \cup {l}
  /\ UNCHANGED <<dir, owner, subs, admitted>>

Join(l, k) ==
  /\ l \in seated
  /\ k \in dir
  /\ \A other \in Keys : l \notin subs[other]
  /\ HasRoom(MaxListenersPerStream, subs[k])
  /\ subs' = [subs EXCEPT ![k] = @ \cup {l}]
  /\ UNCHANGED <<dir, owner, admitted, seated>>

Leave(l, k) ==
  /\ l \in subs[k]
  /\ subs' = [subs EXCEPT ![k] = @ \ {l}]
  /\ UNCHANGED <<dir, owner, admitted, seated>>

Stand(l) ==
  /\ l \in seated
  /\ \A k \in Keys : l \notin subs[k]
  /\ seated' = seated \ {l}
  /\ UNCHANGED <<dir, owner, subs, admitted>>

Next ==
  \/ \E k \in Keys : Open(k) \/ Close(k)
  \/ \E s \in Streamers : Release(s) \/ \E k \in Keys : Admit(s, k) \/ Retire(s, k)
  \/ \E l \in Listeners :
       Sit(l) \/ Stand(l) \/ \E k \in Keys : Join(l, k) \/ Leave(l, k)

Spec == Init /\ [][Next]_vars
=============================================================================
