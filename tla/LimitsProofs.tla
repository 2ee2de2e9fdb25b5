---------------------------- MODULE LimitsProofs ----------------------------
(***************************************************************************)
(* Proofs about what the server refuses: IpLimits, for any addresses,      *)
(* limits, table size, window of at least two ticks and horizon; Blacklist *)
(* for any sessions, IDs, addresses and bound of its table; a publisher's  *)
(* TokenBucket, for any rates, burst and sizes.                            *)
(***************************************************************************)
EXTENDS IpLimits, Blacklist, FiniteSetTheorems, TLAPS

Tracked(ip) == entries[ip] # None
Unused(e)   == \A kind \in Kinds : e.places[kind] = 0

(* No instant in the table lies in the future.                             *)
ClockInv ==
  /\ last_pruned <= now
  /\ \A ip \in Ips : Tracked(ip) =>
       /\ entries[ip].last_seen <= now
       /\ entries[ip].window_started <= entries[ip].last_seen + 1
       /\ entries[ip].window_started <= now

(* Pruning leaves no unused entry that is two windows old.                 *)
PruneInv ==
  \A ip \in Ips :
    Tracked(ip) /\ Unused(entries[ip]) => last_pruned < entries[ip].last_seen + 2 * Window

(* Each recent request belongs to a window it is at most one window        *)
(* younger than and has a place of its own in it within the budget;        *)
(* windows of one address start at least a window apart.                   *)
RecentOf(ip, r) ==
  /\ r[2] <= r[1] /\ r[1] <= r[2] + Window /\ r[1] <= now /\ r[1] + Window > now
  /\ r[3] < MaxRequests
  /\ \A q \in recent[ip] :
       \/ q[2] = r[2] /\ (q[3] = r[3] => q = r)
       \/ q[2] + Window <= r[2] \/ r[2] + Window <= q[2]
  /\ IF Tracked(ip)
       THEN /\ \/ r[2] = entries[ip].window_started /\ r[3] < entries[ip].request_count
               \/ r[2] + Window <= entries[ip].window_started
            /\ r[2] <= entries[ip].last_seen + 1
       ELSE r[2] + Window < now

RecentInv == \A ip \in Ips : \A r \in recent[ip] : RecentOf(ip, r)

IInv == TypeOK /\ PlacesExact /\ ClockInv /\ PruneInv /\ RecentInv

LEMMA Initially == Init => IInv
<1> SUFFICES ASSUME Init PROVE IInv
  OBVIOUS
<1> USE DEF Init
<1>1. Size(entries) = 0
  <2>1. {ip \in Ips : entries[ip] # None} = {}
    OBVIOUS
  <2>2. QED
    BY <2>1, FS_EmptySet DEF Size
<1>2. TypeOK
  BY <1>1, IpLimitsAssumption DEF TypeOK
<1>3. PlacesExact
  BY IpLimitsAssumption DEF PlacesExact, Limit, Kinds
<1>4. ClockInv /\ PruneInv /\ RecentInv
  BY DEF ClockInv, PruneInv, RecentInv, RecentOf, Tracked
<1>5. QED
  BY <1>2, <1>3, <1>4 DEF IInv

(* What a look-up's pruning leaves.                                        *)
LEMMA PrunedFacts ==
  ASSUME IInv, NEW t \in Instants, Prune(t)
  PROVE  /\ Pruned(t) \in [Ips -> Entry \cup {None}]
         /\ Size(Pruned(t)) \in Nat
         /\ Size(Pruned(t)) <= MaxEntries
         /\ last_pruned' \in Nat /\ last_pruned' <= now
         /\ \A ip \in Ips :
              \/ /\ Pruned(t)[ip] = entries[ip]
                 /\ Tracked(ip) /\ Unused(entries[ip]) =>
                      last_pruned' < entries[ip].last_seen + 2 * Window
              \/ /\ Tracked(ip) /\ Pruned(t)[ip] = None
                 /\ Unused(entries[ip])
                 /\ t >= entries[ip].last_seen + 2 * Window
<1> USE IpLimitsAssumption DEF IInv, TypeOK
<1>1. Pruned(t) \in [Ips -> Entry \cup {None}]
  BY DEF Pruned
<1>2. {ip \in Ips : Pruned(t)[ip] # None} \subseteq {ip \in Ips : entries[ip] # None}
  BY DEF Pruned
<1>3. IsFiniteSet({ip \in Ips : entries[ip] # None})
  BY FS_Subset
<1>4. Size(Pruned(t)) \in Nat /\ Size(Pruned(t)) <= Size(entries) /\ Size(entries) \in Nat
  BY <1>2, <1>3, FS_Subset, FS_CardinalityType DEF Size
<1>5. t \in Nat /\ t <= now
  BY DEF Instants
<1>6. last_pruned' \in Nat /\ last_pruned' <= now
  BY <1>5 DEF Prune, ClockInv
<1>7. ASSUME NEW ip \in Ips
      PROVE  \/ /\ Pruned(t)[ip] = entries[ip]
                /\ Tracked(ip) /\ Unused(entries[ip]) =>
                     last_pruned' < entries[ip].last_seen + 2 * Window
             \/ /\ Tracked(ip) /\ Pruned(t)[ip] = None
                /\ Unused(entries[ip])
                /\ t >= entries[ip].last_seen + 2 * Window
  <2>1. CASE ~PruneDue(t)
    BY <2>1 DEF Pruned, Prune, PruneInv
  <2>2. CASE PruneDue(t) /\ ~Tracked(ip)
    BY <2>2 DEF Pruned, Tracked
  <2>3. CASE PruneDue(t) /\ Tracked(ip)
    <3>1. entries[ip] \in Entry /\ entries[ip].last_seen \in Nat
      BY <2>3 DEF Tracked, Entry
    <3>2. Idle(entries[ip], t) <=>
            Unused(entries[ip]) /\ t >= entries[ip].last_seen + 2 * Window
      BY <1>5, <3>1 DEF Idle, Unused, Since
    <3>3. CASE Idle(entries[ip], t)
      BY <2>3, <3>2, <3>3 DEF Pruned, Tracked
    <3>4. CASE ~Idle(entries[ip], t)
      BY <1>5, <2>3, <3>1, <3>2, <3>4 DEF Pruned, Tracked, Prune
    <3>5. QED
      BY <3>3, <3>4
  <2>4. QED
    BY <2>1, <2>2, <2>3
<1>8. QED
  BY <1>1, <1>4, <1>6, <1>7

(* A refusal for want of room only prunes.                                 *)
LEMMA RefusedKeeps ==
  ASSUME IInv, NEW ip \in Ips, NEW t \in Instants, Prune(t), Refused(ip, t),
         UNCHANGED <<now, live, recent>>
  PROVE  IInv'
<1> USE IpLimitsAssumption
<1>0. entries' = Pruned(t) /\ t \in Nat /\ t <= now /\ now \in Nat
  BY DEF Refused, Instants, IInv, TypeOK
<1>1. TypeOK'
  BY <1>0, PrunedFacts DEF IInv, TypeOK, Size
<1>2. PlacesExact'
  BY <1>0, PrunedFacts DEF IInv, PlacesExact, Unused, Tracked
<1>3. ClockInv' /\ PruneInv'
  BY <1>0, PrunedFacts DEF IInv, ClockInv, PruneInv, Tracked, Unused
<1>4. RecentInv'
  <2> SUFFICES ASSUME NEW other \in Ips, NEW r \in recent[other], entries'[other] = None,
                      Tracked(other)
               PROVE  r[2] + Window < now
    BY <1>0, PrunedFacts DEF IInv, RecentInv, RecentOf, Tracked
  <2>1. t >= entries[other].last_seen + 2 * Window
    BY <1>0, PrunedFacts DEF Tracked
  <2>2. r[2] <= entries[other].last_seen + 1 /\ r[2] \in Nat
    BY DEF IInv, RecentInv, RecentOf, TypeOK
  <2>3. entries[other].last_seen \in Nat
    BY DEF IInv, TypeOK, Tracked, Entry
  <2>4. QED
    BY <1>0, <2>1, <2>2, <2>3
<1>5. QED
  BY <1>1, <1>2, <1>3, <1>4 DEF IInv

(* Once pruned away, an address has no recent request near its next entry. *)
LEMMA ForgottenIsOld ==
  ASSUME IInv, NEW t \in Instants, Prune(t), NEW ip \in Ips, Pruned(t)[ip] = None,
         NEW r \in recent[ip]
  PROVE  r[2] + Window <= t
<1> USE IpLimitsAssumption
<1>1. t \in Nat /\ t <= now /\ now <= t + 1 /\ now \in Nat /\ r[2] \in Nat
  BY DEF Instants, IInv, TypeOK
<1>2. CASE ~Tracked(ip)
  BY <1>1, <1>2 DEF IInv, RecentInv, RecentOf
<1>3. CASE Tracked(ip)
  <2>1. t >= entries[ip].last_seen + 2 * Window
    BY <1>3, PrunedFacts DEF Tracked
  <2>2. r[2] <= entries[ip].last_seen + 1 /\ entries[ip].last_seen \in Nat
    BY <1>3 DEF IInv, RecentInv, RecentOf, TypeOK, Tracked, Entry
  <2>3. QED
    BY <1>1, <2>1, <2>2
<1>4. QED
  BY <1>2, <1>3

LEMMA FoundFacts ==
  ASSUME IInv, NEW t \in Instants, Prune(t), NEW ip \in Ips
  PROVE  /\ Found(ip, t) \in Entry
         /\ \A kind \in Kinds : Found(ip, t).places[kind] = live[ip][kind]
         /\ Found(ip, t).window_started <= now
         /\ \A r \in recent[ip] :
              \/ /\ r[2] = Found(ip, t).window_started
                 /\ r[3] < Found(ip, t).request_count
              \/ r[2] + Window <= Found(ip, t).window_started
<1> USE IpLimitsAssumption
<1>1. t \in Nat /\ t <= now /\ now <= t + 1 /\ now \in Nat
  BY DEF Instants, IInv, TypeOK
<1>2. CASE Pruned(t)[ip] # None
  <2>1. Pruned(t)[ip] = entries[ip] /\ Tracked(ip) /\ Found(ip, t) = entries[ip]
    BY <1>2, PrunedFacts DEF Tracked, Found
  <2>2. QED
    BY <2>1 DEF IInv, TypeOK, PlacesExact, ClockInv, RecentInv, RecentOf, Tracked
<1>3. CASE Pruned(t)[ip] = None
  <2>1. Found(ip, t) = [window_started |-> t, request_count |-> 0,
                        places |-> [kind \in Kinds |-> 0], last_seen |-> t]
    BY <1>3 DEF Found
  <2>2. Found(ip, t) \in Entry
    BY <1>1, <2>1 DEF Entry
  <2>3. \A kind \in Kinds : live[ip][kind] = 0
    BY <1>3, PrunedFacts DEF IInv, PlacesExact, Tracked, Unused
  <2>4. QED
    BY <1>1, <1>3, <2>1, <2>2, <2>3, ForgottenIsOld
<1>4. QED
  BY <1>2, <1>3

(* A look-up that stores its entry, whatever it counted in it.             *)
LEMMA StoreKeeps ==
  ASSUME IInv, NEW t \in Instants, NEW ip \in Ips, NEW e \in Entry,
         Prune(t), ~TableFull(ip, t), Store(ip, t, e), now' = now,
         live' \in [Ips -> [Kinds -> Nat]],
         \A other \in Ips \ {ip} : live'[other] = live[other],
         \A kind \in Kinds : live'[ip][kind] = e.places[kind] /\ e.places[kind] <= Limit[kind],
         e.window_started <= now,
         \A r \in recent[ip] :
           \/ r[2] = e.window_started /\ r[3] < e.request_count
           \/ r[2] + Window <= e.window_started,
         recent' \in [Ips -> SUBSET (Nat \X Nat \X Nat)],
         \A other \in Ips \ {ip} : recent'[other] = recent[other],
         \A r \in recent'[ip] :
           \/ r \in recent[ip]
           \/ /\ r = <<now, e.window_started, e.request_count - 1>>
              /\ r[3] < MaxRequests
              /\ now <= e.window_started + Window
              /\ \A q \in recent[ip] : q[2] = r[2] => q[3] < r[3]
  PROVE  IInv'
<1> USE IpLimitsAssumption
<1> DEFINE stored == [e EXCEPT !.last_seen = t]
<1>1. t \in Nat /\ t <= now /\ now <= t + 1 /\ now \in Nat
  BY DEF Instants, IInv, TypeOK
<1>2. /\ entries' = [Pruned(t) EXCEPT ![ip] = stored]
      /\ stored \in Entry /\ stored # None
      /\ stored.last_seen = t /\ stored.places = e.places
      /\ stored.window_started = e.window_started
      /\ stored.request_count = e.request_count
  BY <1>1 DEF Store, Entry
<1> HIDE DEF stored
<1>3. Pruned(t) \in [Ips -> Entry \cup {None}]
  BY PrunedFacts
<1>4. entries'[ip] = stored /\ \A other \in Ips \ {ip} : entries'[other] = Pruned(t)[other]
  BY <1>2, <1>3
<1>5. Size(entries') <= MaxEntries
  <2> DEFINE before == {o \in Ips : Pruned(t)[o] # None}
             after == {o \in Ips : entries'[o] # None}
  <2>1. after = before \cup {ip} /\ IsFiniteSet(before)
    BY <1>2, <1>4, FS_Subset
  <2>2. CASE ip \in before
    <3>1. after = before
      BY <2>1, <2>2
    <3>2. QED
      BY <3>1, PrunedFacts DEF Size
  <2>3. CASE ip \notin before
    <3>1. Size(Pruned(t)) < MaxEntries
      BY <2>3 DEF TableFull, HasRoom
    <3>2. Cardinality(after) = Cardinality(before) + 1
      BY <2>1, <2>3, FS_AddElement
    <3>3. QED
      BY <3>1, <3>2, PrunedFacts DEF Size
  <2>4. QED
    BY <2>2, <2>3
<1>6. TypeOK'
  BY <1>1, <1>2, <1>3, <1>5, PrunedFacts DEF IInv, TypeOK, Size
<1>7. PlacesExact'
  <2>1. ASSUME NEW kind \in Kinds
        PROVE  /\ live'[ip][kind] = IF entries'[ip] = None THEN 0
                                    ELSE entries'[ip].places[kind]
               /\ live'[ip][kind] <= Limit[kind]
    BY <1>2, <1>4
  <2>2. ASSUME NEW other \in Ips \ {ip}, NEW kind \in Kinds
        PROVE  /\ live'[other][kind] = IF entries'[other] = None THEN 0
                                       ELSE entries'[other].places[kind]
               /\ live'[other][kind] <= Limit[kind]
    <3>1. live'[other] = live[other] /\ entries'[other] = Pruned(t)[other]
      BY <1>4
    <3>2. /\ live[other][kind] = IF entries[other] = None THEN 0 ELSE entries[other].places[kind]
          /\ live[other][kind] <= Limit[kind]
      BY DEF IInv, PlacesExact
    <3>3. \/ Pruned(t)[other] = entries[other]
          \/ Pruned(t)[other] = None /\ entries[other] # None /\ entries[other].places[kind] = 0
      BY PrunedFacts DEF Tracked, Unused
    <3>4. QED
      BY <3>1, <3>2, <3>3
  <2>3. ASSUME NEW other \in Ips, NEW kind \in Kinds
        PROVE  /\ live'[other][kind] = IF entries'[other] = None THEN 0
                                       ELSE entries'[other].places[kind]
               /\ live'[other][kind] <= Limit[kind]
    <3>1. CASE other = ip
      BY <2>1, <3>1
    <3>2. CASE other # ip
      BY <2>2, <3>2
    <3>3. QED
      BY <3>1, <3>2
  <2>4. QED
    BY <2>3 DEF PlacesExact, Limit
<1>8. ClockInv'
  BY <1>1, <1>2, <1>4, PrunedFacts DEF IInv, ClockInv, Tracked, Entry
<1>9. PruneInv'
  BY <1>1, <1>2, <1>4, PrunedFacts DEF IInv, PruneInv, Tracked, Unused
<1>10. RecentInv'
  <2>1. ASSUME NEW other \in Ips \ {ip}, NEW r \in recent[other], entries'[other] = None,
               Tracked(other)
        PROVE  r[2] + Window < now
    <3>1. t >= entries[other].last_seen + 2 * Window
      BY <1>4, <2>1, PrunedFacts DEF Tracked
    <3>2. r[2] <= entries[other].last_seen + 1 /\ r[2] \in Nat
      BY <2>1 DEF IInv, RecentInv, RecentOf, TypeOK
    <3>3. entries[other].last_seen \in Nat
      BY <2>1 DEF IInv, TypeOK, Tracked, Entry
    <3>4. QED
      BY <1>1, <3>1, <3>2, <3>3
  <2>2. ASSUME NEW other \in Ips \ {ip}, NEW r \in recent'[other]
        PROVE  RecentOf(other, r)'
    <3>1. r \in recent[other] /\ RecentOf(other, r)
      BY <2>2 DEF IInv, RecentInv
    <3>2. CASE entries'[other] = None /\ Tracked(other)
      BY <2>1, <2>2, <3>1, <3>2 DEF RecentOf, Tracked
    <3>3. CASE entries'[other] = entries[other]
      BY <2>2, <3>1, <3>3 DEF RecentOf, Tracked
    <3>4. QED
      BY <1>4, <3>2, <3>3, PrunedFacts
  <2>3. ASSUME NEW r \in recent'[ip]
        PROVE  RecentOf(ip, r)'
    <3>1. /\ r \in Nat \X Nat \X Nat /\ e.window_started \in Nat /\ e.request_count \in Nat
          /\ recent[ip] \in SUBSET (Nat \X Nat \X Nat)
      BY <2>3 DEF Entry, IInv, TypeOK
    <3>2. /\ r[2] <= r[1] /\ r[1] <= r[2] + Window /\ r[1] <= now /\ r[1] + Window > now
          /\ r[3] < MaxRequests
      BY <1>1, <2>3, <3>1 DEF IInv, RecentInv, RecentOf
    <3>3. \A q \in recent'[ip] :
            \/ q[2] = r[2] /\ (q[3] = r[3] => q = r)
            \/ q[2] + Window <= r[2] \/ r[2] + Window <= q[2]
      <4> SUFFICES ASSUME NEW q \in recent'[ip]
                   PROVE  \/ q[2] = r[2] /\ (q[3] = r[3] => q = r)
                          \/ q[2] + Window <= r[2] \/ r[2] + Window <= q[2]
        OBVIOUS
      <4> DEFINE new == <<now, e.window_started, e.request_count - 1>>
      <4>1. q \in Nat \X Nat \X Nat
        OBVIOUS
      <4>2. CASE r \in recent[ip] /\ q \in recent[ip]
        BY <4>2 DEF IInv, RecentInv, RecentOf
      <4>3. CASE r = new /\ q = new
        BY <4>3
      <4>4. CASE r = new /\ q \in recent[ip] /\ r \notin recent[ip]
        <5>1. q[2] = r[2] => q[3] < r[3]
          BY <2>3, <4>4
        <5>2. q[2] = r[2] \/ q[2] + Window <= r[2]
          BY <4>4
        <5>3. QED
          BY <3>1, <4>1, <5>1, <5>2
      <4>5. CASE q = new /\ r \in recent[ip] /\ q \notin recent[ip]
        <5>1. r[2] = q[2] => r[3] < q[3]
          BY <4>5
        <5>2. r[2] = q[2] \/ r[2] + Window <= q[2]
          BY <4>5
        <5>3. QED
          BY <3>1, <4>1, <5>1, <5>2
      <4>6. QED
        BY <2>3, <4>2, <4>3, <4>4, <4>5
    <3>4. /\ entries'[ip] # None
          /\ \/ r[2] = entries'[ip].window_started /\ r[3] < entries'[ip].request_count
             \/ r[2] + Window <= entries'[ip].window_started
          /\ r[2] <= entries'[ip].last_seen + 1
      BY <1>1, <1>2, <1>4, <2>3, <3>1
    <3>5. QED
      BY <3>2, <3>3, <3>4 DEF RecentOf, Tracked
  <2>4. QED
    BY <2>2, <2>3, Zenon DEF RecentInv
<1>11. QED
  BY <1>6, <1>7, <1>8, <1>9, <1>10 DEF IInv

(* Starting a new window keeps windows apart and the request inside one.   *)
LEMMA RenewedFacts ==
  ASSUME IInv, NEW t \in Instants, Prune(t), NEW ip \in Ips
  PROVE  LET e == Renewed(Found(ip, t), t) IN
           /\ e \in Entry /\ e.places = Found(ip, t).places
           /\ e.window_started <= now /\ now <= e.window_started + Window
           /\ \A r \in recent[ip] :
                \/ r[2] = e.window_started /\ r[3] < e.request_count
                \/ r[2] + Window <= e.window_started
<1> DEFINE f == Found(ip, t)
           e == Renewed(f, t)
<1> USE IpLimitsAssumption
<1>1. t \in Nat /\ t <= now /\ now <= t + 1 /\ now \in Nat
  BY DEF Instants, IInv, TypeOK
<1>2. /\ f \in Entry /\ f.window_started \in Nat /\ f.window_started <= now
      /\ \A r \in recent[ip] :
           \/ r[2] = f.window_started /\ r[3] < f.request_count
           \/ r[2] + Window <= f.window_started
  BY FoundFacts DEF Entry
<1>3. \A r \in recent[ip] : r[2] \in Nat
  BY DEF IInv, TypeOK
<1> HIDE DEF f
<1>4. CASE WindowOver(f, t)
  <2>1. /\ e = [f EXCEPT !.window_started = t, !.request_count = 0]
        /\ t >= f.window_started + Window
    BY <1>1, <1>2, <1>4 DEF Renewed, WindowOver, Since
  <2> HIDE DEF e
  <2>2. e \in Entry /\ e.places = f.places /\ e.window_started = t
    BY <1>1, <1>2, <2>1 DEF Entry
  <2>3. QED
    BY <1>1, <1>2, <1>3, <2>1, <2>2 DEF f, e
<1>5. CASE ~WindowOver(f, t)
  <2>1. e = f /\ now <= f.window_started + Window
    BY <1>1, <1>2, <1>5 DEF Renewed, WindowOver, Since
  <2>2. QED
    BY <1>2, <2>1 DEF f
<1>6. QED
  BY <1>4, <1>5

LEMMA RequestKeeps ==
  ASSUME IInv, NEW ip \in Ips, NEW t \in Instants, Request(ip, t)
  PROVE  IInv'
<1>1. CASE Refused(ip, t) /\ UNCHANGED recent
  BY <1>1, RefusedKeeps DEF Request
<1>2. CASE ~TableFull(ip, t)
  <2> DEFINE e == Renewed(Found(ip, t), t)
  <2>1. /\ Prune(t) /\ now' = now /\ live' = live
        /\ \/ /\ e.request_count < MaxRequests
              /\ Store(ip, t, [e EXCEPT !.request_count = @ + 1])
              /\ recent' = [recent EXCEPT ![ip] =
                              @ \cup {<<now, e.window_started, e.request_count>>}]
           \/ Store(ip, t, e) /\ recent' = recent
    <3>1. ~Refused(ip, t) /\ Prune(t) /\ now' = now /\ live' = live
      BY <1>2 DEF Request, Refused
    <3>2. QED
      BY <1>2, <3>1 DEF Request
  <2>2. /\ e \in Entry /\ e.window_started <= now /\ now <= e.window_started + Window
        /\ \A kind \in Kinds : live'[ip][kind] = e.places[kind] /\ e.places[kind] <= Limit[kind]
        /\ \A r \in recent[ip] :
             \/ r[2] = e.window_started /\ r[3] < e.request_count
             \/ r[2] + Window <= e.window_started
    BY <2>1, RenewedFacts, FoundFacts DEF IInv, PlacesExact
  <2>3. live' \in [Ips -> [Kinds -> Nat]] /\ now \in Nat
        /\ recent \in [Ips -> SUBSET (Nat \X Nat \X Nat)]
    BY <2>1 DEF IInv, TypeOK
  <2> HIDE DEF e
  <2>4. CASE Store(ip, t, e) /\ recent' = recent
    BY <1>2, <2>1, <2>2, <2>3, <2>4, StoreKeeps
  <2>5. CASE /\ e.request_count < MaxRequests
             /\ Store(ip, t, [e EXCEPT !.request_count = @ + 1])
             /\ recent' = [recent EXCEPT ![ip] =
                             @ \cup {<<now, e.window_started, e.request_count>>}]
    <3> DEFINE counted == [e EXCEPT !.request_count = @ + 1]
               new == <<now, e.window_started, e.request_count>>
    <3>1. /\ counted \in Entry /\ counted.places = e.places
          /\ counted.window_started = e.window_started
          /\ counted.request_count = e.request_count + 1 /\ e.request_count \in Nat
          /\ new \in Nat \X Nat \X Nat
      BY <2>2, <2>3 DEF Entry
    <3>2. /\ recent' \in [Ips -> SUBSET (Nat \X Nat \X Nat)]
          /\ \A other \in Ips \ {ip} : recent'[other] = recent[other]
          /\ recent'[ip] = recent[ip] \cup {new}
      BY <2>3, <2>5, <3>1
    <3>3. \A r \in recent'[ip] :
            \/ r \in recent[ip]
            \/ /\ r = <<now, counted.window_started, counted.request_count - 1>>
               /\ r[3] < MaxRequests
               /\ now <= counted.window_started + Window
               /\ \A q \in recent[ip] : q[2] = r[2] => q[3] < r[3]
      <4>1. e.window_started \in Nat /\ \A q \in recent[ip] : q[2] \in Nat
        BY <2>2, <2>3 DEF Entry
      <4>2. \A q \in recent[ip] : q[2] = e.window_started => q[3] < e.request_count
        BY <2>2, <4>1, IpLimitsAssumption
      <4>3. QED
        BY <2>2, <2>5, <3>1, <3>2, <4>2
    <3>6. \A r \in recent[ip] :
            \/ r[2] = counted.window_started /\ r[3] < counted.request_count
            \/ r[2] + Window <= counted.window_started
      <4>1. \A r \in recent[ip] : r[3] \in Nat
        BY <2>3
      <4>2. QED
        BY <2>2, <3>1, <4>1
    <3>4. Store(ip, t, counted)
      BY <2>5
    <3> HIDE DEF counted, new
    <3>5. QED
      BY <1>2, <2>1, <2>2, <2>3, <3>1, <3>2, <3>3, <3>4, <3>6, StoreKeeps
  <2>6. QED
    BY <2>1, <2>4, <2>5
<1>3. QED
  BY <1>1, <1>2 DEF Request, Refused

LEMMA AcquireKeeps ==
  ASSUME IInv, NEW ip \in Ips, NEW kind \in Kinds, NEW t \in Instants, Acquire(ip, kind, t)
  PROVE  IInv'
<1>1. CASE Refused(ip, t) /\ UNCHANGED live
  BY <1>1, RefusedKeeps DEF Acquire
<1>2. CASE ~TableFull(ip, t)
  <2> DEFINE e == Found(ip, t)
  <2>1. /\ Prune(t) /\ now' = now /\ recent' = recent
        /\ \/ /\ e.places[kind] < Limit[kind]
              /\ Store(ip, t, [e EXCEPT !.places[kind] = @ + 1])
              /\ live' = [live EXCEPT ![ip][kind] = @ + 1]
           \/ Store(ip, t, e) /\ live' = live
    BY <1>2 DEF Acquire, Refused
  <2>2. /\ e \in Entry /\ e.window_started <= now
        /\ \A k \in Kinds : e.places[k] = live[ip][k] /\ live[ip][k] <= Limit[k]
        /\ \A r \in recent[ip] :
             \/ r[2] = e.window_started /\ r[3] < e.request_count
             \/ r[2] + Window <= e.window_started
    BY <2>1, FoundFacts DEF IInv, PlacesExact
  <2>3. /\ live \in [Ips -> [Kinds -> Nat]] /\ recent' \in [Ips -> SUBSET (Nat \X Nat \X Nat)]
        /\ e.places \in [Kinds -> Nat] /\ Limit[kind] \in Nat
    BY <2>1, <2>2, IpLimitsAssumption DEF IInv, TypeOK, Entry, Limit, Kinds
  <2> HIDE DEF e
  <2>4. CASE Store(ip, t, e) /\ live' = live
    BY <1>2, <2>1, <2>2, <2>3, <2>4, StoreKeeps
  <2>5. CASE /\ e.places[kind] < Limit[kind]
             /\ Store(ip, t, [e EXCEPT !.places[kind] = @ + 1])
             /\ live' = [live EXCEPT ![ip][kind] = @ + 1]
    <3> DEFINE taken == [e.places EXCEPT ![kind] = @ + 1]
               counted == [e EXCEPT !.places = taken]
    <3>0. live' = [live EXCEPT ![ip] = [live[ip] EXCEPT ![kind] = live[ip][kind] + 1]]
      BY <2>5
    <3>1. /\ taken \in [Kinds -> Nat]
          /\ [live[ip] EXCEPT ![kind] = live[ip][kind] + 1] \in [Kinds -> Nat]
      BY <2>3
    <3>2. \A k \in Kinds : live'[ip][k] = taken[k] /\ taken[k] <= Limit[k]
      BY <2>2, <2>3, <2>5, <3>0
    <3>3. /\ live' \in [Ips -> [Kinds -> Nat]]
          /\ \A other \in Ips \ {ip} : live'[other] = live[other]
      BY <2>3, <3>0, <3>1
    <3>4. Store(ip, t, counted)
      BY <2>5
    <3> HIDE DEF taken
    <3>5. /\ counted \in Entry /\ counted.places = taken
          /\ counted.window_started = e.window_started
          /\ counted.request_count = e.request_count
      BY <2>2, <3>1 DEF Entry
    <3> HIDE DEF counted
    <3>6. QED
      BY <1>2, <2>1, <2>2, <2>3, <3>2, <3>3, <3>4, <3>5, StoreKeeps
  <2>6. QED
    BY <2>1, <2>4, <2>5
<1>3. QED
  BY <1>1, <1>2 DEF Acquire, Refused

LEMMA ReleaseKeeps ==
  ASSUME IInv, NEW ip \in Ips, NEW kind \in Kinds, Release(ip, kind)
  PROVE  IInv'
<1> USE IpLimitsAssumption
<1> DEFINE e == entries[ip]
           freed == Freed(e, kind)
<1>1. /\ e \in Entry /\ e # None /\ now \in Nat /\ live[ip] \in [Kinds -> Nat]
      /\ \A k \in Kinds : live[ip][k] = e.places[k]
      /\ e.places[kind] > 0
  BY DEF Release, IInv, TypeOK, PlacesExact
<1>2. /\ freed \in Entry /\ freed.last_seen = now
      /\ freed.window_started = e.window_started /\ freed.request_count = e.request_count
      /\ freed.places = [e.places EXCEPT ![kind] = e.places[kind] - 1]
  <2> DEFINE left == [e.places EXCEPT ![kind] = Since(@, 1)]
  <2>1. Since(e.places[kind], 1) = e.places[kind] - 1
    BY <1>1 DEF Since, Entry
  <2>2. left \in [Kinds -> Nat] /\ left = [e.places EXCEPT ![kind] = e.places[kind] - 1]
    BY <1>1, <2>1 DEF Entry
  <2>3. freed = [e EXCEPT !.places = left, !.last_seen = now]
    BY DEF Freed
  <2> HIDE DEF left, freed
  <2>4. QED
    BY <1>1, <2>2, <2>3 DEF Entry
<1>3. /\ entries' = [entries EXCEPT ![ip] = freed]
      /\ live' = [live EXCEPT ![ip][kind] = @ - 1]
      /\ now' = now /\ last_pruned' = last_pruned /\ recent' = recent
  BY <1>1 DEF Release
<1> HIDE DEF freed
<1>4. entries'[ip] = freed /\ \A other \in Ips \ {ip} : entries'[other] = entries[other]
  BY <1>3 DEF IInv, TypeOK
<1>5. {o \in Ips : entries'[o] # None} = {o \in Ips : entries[o] # None}
  BY <1>1, <1>2, <1>4
<1>6. TypeOK'
  <2>1. live' \in [Ips -> [Kinds -> Nat]]
    BY <1>1, <1>3 DEF IInv, TypeOK
  <2>2. QED
    BY <1>1, <1>2, <1>3, <1>5, <2>1 DEF IInv, TypeOK, Size
<1>7. PlacesExact'
  <2>1. ASSUME NEW other \in Ips \ {ip}, NEW k \in Kinds
        PROVE  /\ live'[other][k] = IF entries'[other] = None THEN 0
                                    ELSE entries'[other].places[k]
               /\ live'[other][k] <= Limit[k]
    BY <1>3, <1>4 DEF IInv, PlacesExact, TypeOK
  <2>2. ASSUME NEW k \in Kinds
        PROVE  live'[ip][k] = entries'[ip].places[k] /\ live'[ip][k] <= Limit[k]
    <3>1. e.places \in [Kinds -> Nat] /\ Limit[k] \in Nat
      BY <1>1 DEF Entry, Limit, Kinds
    <3>2. live'[ip][k] = IF k = kind THEN live[ip][k] - 1 ELSE live[ip][k]
      BY <1>1, <1>3 DEF IInv, TypeOK
    <3>3. live[ip][k] <= Limit[k] /\ live[ip][k] \in Nat
      BY <1>1 DEF IInv, PlacesExact
    <3>4. QED
      BY <1>1, <1>2, <1>4, <3>1, <3>2, <3>3
  <2>3. ASSUME NEW other \in Ips, NEW k \in Kinds
        PROVE  /\ live'[other][k] = IF entries'[other] = None THEN 0
                                    ELSE entries'[other].places[k]
               /\ live'[other][k] <= Limit[k]
    <3>1. CASE other = ip
      BY <1>2, <1>4, <2>2, <3>1
    <3>2. CASE other # ip
      BY <2>1, <3>2
    <3>3. QED
      BY <3>1, <3>2
  <2>4. QED
    BY <2>3 DEF PlacesExact, Limit
<1>8. ClockInv' /\ PruneInv'
  BY <1>1, <1>2, <1>3, <1>4 DEF IInv, TypeOK, ClockInv, PruneInv, Tracked, Unused, Entry
<1>9. RecentInv'
  <2> SUFFICES ASSUME NEW other \in Ips, NEW r \in recent[other]
               PROVE  RecentOf(other, r)'
    BY <1>3 DEF RecentInv
  <2>1. RecentOf(other, r) /\ r \in Nat \X Nat \X Nat
    BY DEF IInv, RecentInv, TypeOK
  <2>2. CASE other # ip
    BY <1>3, <1>4, <2>1, <2>2 DEF RecentOf, Tracked
  <2>3. CASE other = ip
    <3>1. e.last_seen <= now /\ e.last_seen \in Nat
      BY <1>1 DEF IInv, ClockInv, Tracked, Entry
    <3>2. QED
      BY <1>1, <1>2, <1>3, <1>4, <2>1, <2>3, <3>1 DEF RecentOf, Tracked
  <2>4. QED
    BY <2>2, <2>3
<1>10. QED
  BY <1>6, <1>7, <1>8, <1>9 DEF IInv

LEMMA TickKeeps ==
  ASSUME IInv, Tick
  PROVE  IInv'
<1> USE IpLimitsAssumption
<1>1. /\ now \in Nat /\ now' = now + 1
      /\ entries' = entries /\ last_pruned' = last_pruned /\ live' = live
      /\ recent' = [ip \in Ips |-> {r \in recent[ip] : r[1] + Window > now'}]
  BY DEF Tick, table, IInv, TypeOK
<1>2. TypeOK'
  BY <1>1 DEF IInv, TypeOK, Size
<1>3. PlacesExact' /\ PruneInv'
  BY <1>1 DEF IInv, PlacesExact, PruneInv, Tracked, Unused
<1>4. ClockInv'
  BY <1>1 DEF IInv, TypeOK, ClockInv, Tracked, Entry
<1>5. RecentInv'
  <2> SUFFICES ASSUME NEW ip \in Ips, NEW r \in recent'[ip]
               PROVE  RecentOf(ip, r)'
    BY DEF RecentInv
  <2>1. /\ r \in recent[ip] /\ RecentOf(ip, r) /\ r[1] + Window > now'
        /\ r \in Nat \X Nat \X Nat /\ recent'[ip] \subseteq recent[ip]
    BY <1>1 DEF IInv, TypeOK, RecentInv
  <2>2. QED
    BY <1>1, <2>1 DEF RecentOf, Tracked
<1>6. QED
  BY <1>2, <1>3, <1>4, <1>5 DEF IInv

LEMMA Stepwise == IInv /\ [Next]_vars => IInv'
<1> SUFFICES ASSUME IInv, [Next]_vars PROVE IInv'
  OBVIOUS
<1>1. CASE UNCHANGED vars
  BY <1>1
  DEF vars, table, IInv, TypeOK, Size, PlacesExact, ClockInv, PruneInv, RecentInv, RecentOf,
      Tracked, Unused
<1>2. QED
  BY <1>1, RequestKeeps, AcquireKeeps, ReleaseKeeps, TickKeeps DEF Next

LEMMA Inductive == Spec => []IInv
  BY Initially, Stepwise, PTL DEF Spec
-----------------------------------------------------------------------------
(* The table never outgrows MAX_IP_LIMIT_ENTRIES (limits.rs:46-55).        *)
THEOREM TypeCorrect == Spec => []TypeOK
<1>1. IInv => TypeOK
  BY DEF IInv
<1>2. QED
  BY <1>1, Inductive, PTL

(* The places of an address are its live guards (limits.rs:223-276).       *)
THEOREM PlacesAreExact == Spec => []PlacesExact
<1>1. IInv => PlacesExact
  BY DEF IInv
<1>2. QED
  BY <1>1, Inductive, PTL

(* Pruning makes room: a newcomer is refused only by addresses with a      *)
(* guard or seen within three windows (limits.rs:33-55).                   *)
THEOREM TableServesNewcomers == Spec => []FullTableIsBusy
<1>1. ASSUME IInv PROVE FullTableIsBusy
  <2> SUFFICES ASSUME NEW t \in Instants, NEW other \in Ips, Pruned(t)[other] # None,
                      \A kind \in Kinds : live[other][kind] = 0
               PROVE  now <= entries[other].last_seen + 3 * Window
    BY DEF FullTableIsBusy
  <2> USE IpLimitsAssumption
  <2>1. t \in Nat /\ t <= now /\ now <= t + 1 /\ now \in Nat /\ last_pruned \in Nat
    BY <1>1 DEF Instants, IInv, TypeOK
  <2>2. /\ entries[other] # None /\ ~(PruneDue(t) /\ Idle(entries[other], t))
        /\ entries[other].last_seen \in Nat
    BY <1>1 DEF Pruned, IInv, TypeOK, Entry
  <2>3. Unused(entries[other])
    BY <1>1, <2>2 DEF IInv, PlacesExact, Unused
  <2>4. CASE PruneDue(t)
    <3>1. t < entries[other].last_seen + 2 * Window
      BY <2>1, <2>2, <2>3, <2>4 DEF Idle, Unused, Since
    <3>2. QED
      BY <2>1, <2>2, <3>1
  <2>5. CASE ~PruneDue(t)
    <3>1. t < last_pruned + Window
      BY <2>1, <2>5 DEF PruneDue, Since
    <3>2. last_pruned < entries[other].last_seen + 2 * Window
      BY <1>1, <2>2, <2>3 DEF IInv, PruneInv, Tracked
    <3>3. QED
      BY <2>1, <2>2, <3>1, <3>2
  <2>6. QED
    BY <2>4, <2>5
<1>2. QED
  BY <1>1, Inductive, PTL

(* Recent requests were paid by at most two windows.                       *)
LEMMA TwoWindows ==
  ASSUME IInv, NEW ip \in Ips
  PROVE  \E w \in Nat : \A q, r \in recent[ip] : q[2] # w /\ r[2] # w => q[2] = r[2]
<1> USE IpLimitsAssumption
<1>1. /\ now \in Nat /\ recent[ip] \in SUBSET (Nat \X Nat \X Nat)
      /\ \A r \in recent[ip] : RecentOf(ip, r)
  BY DEF IInv, TypeOK, RecentInv
<1>2. CASE recent[ip] = {}
  BY <1>2
<1>3. CASE recent[ip] # {}
  <2>1. PICK p \in recent[ip] : TRUE
    BY <1>3
  <2>2. p[2] \in Nat
    BY <1>1
  <2>3. ASSUME NEW q \in recent[ip], NEW r \in recent[ip], q[2] # p[2], r[2] # p[2]
        PROVE  q[2] = r[2]
    <3>1. /\ q \in Nat \X Nat \X Nat /\ r \in Nat \X Nat \X Nat
          /\ p \in Nat \X Nat \X Nat
      BY <1>1
    <3>2. /\ q[2] + Window <= p[2] \/ p[2] + Window <= q[2]
          /\ r[2] + Window <= p[2] \/ p[2] + Window <= r[2]
          /\ q[2] = r[2] \/ q[2] + Window <= r[2] \/ r[2] + Window <= q[2]
      BY <1>1, <2>3 DEF RecentOf
    <3>3. \A x \in {p, q, r} : x[2] <= now /\ now < x[2] + 2 * Window
      BY <1>1, <3>1 DEF RecentOf
    <3>4. QED
      BY <1>1, <3>1, <3>2, <3>3
  <2>4. QED
    BY <2>2, <2>3
<1>4. QED
  BY <1>2, <1>3

(* An address is admitted at most twice its budget in any stretch of one   *)
(* window's length, whatever is pruned in between (limits.rs:127-152).     *)
THEOREM BudgetCorrect == Spec => []BudgetKept
<1>1. ASSUME IInv PROVE BudgetKept
  <2> SUFFICES ASSUME NEW ip \in Ips
               PROVE  Cardinality(recent[ip]) <= 2 * MaxRequests
    BY DEF BudgetKept
  <2> USE IpLimitsAssumption
  <2>1. PICK w \in Nat :
          \A q, r \in recent[ip] : q[2] # w /\ r[2] # w => q[2] = r[2]
    BY <1>1, TwoWindows
  <2> DEFINE place == [r \in recent[ip] |-> IF r[2] = w THEN r[3] ELSE MaxRequests + r[3]]
             places == 0 .. (2 * MaxRequests - 1)
  <2>2. \A r \in recent[ip] :
          r[3] \in Nat /\ r[3] < MaxRequests /\ r \in Nat \X Nat \X Nat
    BY <1>1 DEF IInv, TypeOK, RecentInv, RecentOf
  <2>3. place \in [recent[ip] -> places]
    BY <2>2
  <2>4. ASSUME NEW q \in recent[ip], NEW r \in recent[ip], place[q] = place[r]
        PROVE  q = r
    <3>1. q[2] = r[2] /\ q[3] = r[3]
      BY <2>1, <2>2, <2>4
    <3>2. \/ q[2] = r[2] /\ (q[3] = r[3] => q = r)
          \/ q[2] + Window <= r[2] \/ r[2] + Window <= q[2]
      BY <1>1 DEF IInv, RecentInv, RecentOf
    <3>3. QED
      BY <2>2, <3>1, <3>2
  <2> HIDE DEF place, places
  <2>5. place \in Injection(recent[ip], places)
    BY <2>3, <2>4 DEF Injection, IsInjective
  <2>6. IsFiniteSet(places) /\ Cardinality(places) = 2 * MaxRequests
    BY FS_Interval DEF places
  <2>7. QED
    BY <2>5, <2>6, FS_Injection
<1>2. QED
  BY <1>1, Inductive, PTL
-----------------------------------------------------------------------------
(* The publisher bans.                                                     *)

(* Sites and locations that go together, and what a session carries there. *)
SessionInv ==
  \A p \in Sessions :
    /\ pc[p] = "idle" => site[p] = "ingest"
    /\ pc[p] # "idle" => key[p] \in Keys /\ address[p] \in Addresses
    /\ pc[p] = "ipcheck" => site[p] \in {"ingest", "startup"}
    /\ pc[p] = "record" => key[p] \in blacklist

(* Where a session owns the flag of its channel.                           *)
Owns(p) ==
  \/ pc[p] \in {"count", "running", "ending"}
  \/ pc[p] \in {"check", "record", "ipcheck"} /\ site[p] \in {"startup", "notified"}

OwnerInv ==
  /\ \A p \in Sessions : Owns(p) => streamer[key[p]]
  /\ \A p, q \in Sessions : Owns(p) /\ Owns(q) /\ key[p] = key[q] => p = q

(* Past the startup check, a session is no longer looked at but through    *)
(* the notification.                                                       *)
Unwatched(p) == pc[p] = "running" \/ (pc[p] = "ipcheck" /\ site[p] = "startup")

KickInv ==
  \A p \in Sessions :
    Unwatched(p) /\ key[p] \in blacklist =>
      permit[key[p]] \/ key[p] \in pending \/ loaded = key[p]

(* Nobody is blocked without cause: every ban was caught, and an ID that   *)
(* overflowed still has an address caught under it.                        *)
BlockedForCause ==
  /\ bans \subseteq caught
  /\ \A k \in overflowed : \E b \in caught : b[2] = k

CaughtInv ==
  /\ \A b \in caught : b \in bans \/ b[2] \in overflowed
  /\ BlockedForCause

BansInv ==
  /\ BansTypeOK /\ SessionInv /\ OwnerInv /\ KickInv /\ CaughtInv
  /\ BansCounted /\ NoStaleBan

LEMMA FiniteTable ==
  \A S \in SUBSET (Addresses \X Keys) : IsFiniteSet(S) /\ Cardinality(S) \in Nat
  BY BansAssumption, FS_Product, FS_Subset, FS_CardinalityType

LEMMA BansInitially == BansInit => BansInv
<1> SUFFICES ASSUME BansInit PROVE BansInv
  OBVIOUS
<1>1. BansTypeOK
  BY DEF BansInit, BansTypeOK, Locations, Sites
<1>2. SessionInv /\ OwnerInv /\ KickInv
  BY DEF BansInit, SessionInv, OwnerInv, Owns, KickInv, Unwatched
<1>3. CaughtInv /\ NoStaleBan
  BY DEF BansInit, CaughtInv, BlockedForCause, NoStaleBan
<1>4. BansCounted
  BY FS_EmptySet, BansAssumption DEF BansInit, BansCounted
<1>5. QED
  BY <1>1, <1>2, <1>3, <1>4 DEF BansInv

(* A step that touches neither the list nor the table.                     *)
LEMMA TableKept ==
  ASSUME BansInv, UNCHANGED <<blacklist, banTable>>
  PROVE  CaughtInv' /\ BansCounted' /\ NoStaleBan'
  BY DEF BansInv, banTable, CaughtInv, BlockedForCause, BansCounted, NoStaleBan

LEMMA BansStepwise == BansInv /\ [BansNext]_bansVars => BansInv'
<1> SUFFICES ASSUME BansInv, [BansNext]_bansVars PROVE BansInv'
  OBVIOUS
<1> USE BansAssumption DEF banTable, reload, session
<1>a. BansTypeOK /\ SessionInv /\ OwnerInv /\ KickInv
  BY DEF BansInv
<1>1. ASSUME NEW p \in Sessions, NEW k \in Keys, NEW a \in Addresses, Publish(p, k, a)
      PROVE  BansInv'
  <2>1. BansTypeOK'
    BY <1>1, <1>a DEF Publish, BansTypeOK, Locations
  <2>2. SessionInv' /\ OwnerInv' /\ KickInv'
    BY <1>1, <1>a DEF Publish, BansTypeOK, SessionInv, OwnerInv, Owns, KickInv, Unwatched
  <2>3. QED
    BY <1>1, <2>1, <2>2, TableKept DEF Publish, BansInv
<1>2. ASSUME NEW p \in Sessions, Check(p) PROVE BansInv'
  <2>1. BansTypeOK'
    BY <1>2, <1>a DEF Check, Goto, WhenClear, BansTypeOK, Locations, Sites
  <2>2. SessionInv' /\ OwnerInv' /\ KickInv'
    BY <1>2, <1>a
    DEF Check, Goto, WhenClear, BansTypeOK, Sites, SessionInv, OwnerInv, Owns, KickInv, Unwatched
  <2>3. QED
    BY <1>2, <2>1, <2>2, TableKept DEF Check, BansInv
<1>3. ASSUME NEW p \in Sessions, Record(p) PROVE BansInv'
  <2>1. BansTypeOK'
    BY <1>3, <1>a DEF Record, Goto, WhenListed, BansTypeOK, Locations, Sites, SessionInv
  <2>2. SessionInv' /\ OwnerInv' /\ KickInv'
    BY <1>3, <1>a
    DEF Record, Goto, WhenListed, BansTypeOK, Sites, SessionInv, OwnerInv, Owns, KickInv, Unwatched
  <2>3. CaughtInv' /\ NoStaleBan'
    BY <1>3, <1>a
    DEF Record, BansInv, CaughtInv, BlockedForCause, NoStaleBan, SessionInv, BansTypeOK
  <2>4. BansCounted'
    <3>1. CASE UNCHANGED <<bans, associations>>
      BY <3>1 DEF BansInv, BansCounted
    <3>2. CASE ~UNCHANGED <<bans, associations>>
      <4>1. /\ <<address[p], key[p]>> \notin bans
            /\ associations < MaxBans
            /\ bans' = bans \cup {<<address[p], key[p]>>}
            /\ associations' = associations + 1
        BY <1>3, <3>2 DEF Record
      <4>2. Cardinality(bans') = Cardinality(bans) + 1
        BY <1>a, <4>1, FiniteTable, FS_AddElement DEF BansTypeOK
      <4>3. QED
        BY <1>a, <4>1, <4>2 DEF BansInv, BansCounted, BansTypeOK
    <3>3. QED
      BY <3>1, <3>2
  <2>5. QED
    BY <2>1, <2>2, <2>3, <2>4 DEF BansInv
<1>4. ASSUME NEW p \in Sessions, CheckIp(p) PROVE BansInv'
  <2>1. PICK l \in Locations : Goto(p, l) /\ l \in {"idle", "ending", "reserve", "running"}
                               /\ (site[p] = "ingest" => l \in {"idle", "reserve"})
                               /\ (site[p] = "startup" => l \in {"ending", "running"})
    BY <1>4, <1>a DEF CheckIp, SessionInv, Locations
  <2>2. BansTypeOK'
    BY <1>4, <1>a, <2>1 DEF CheckIp, Goto, BansTypeOK, Sites
  <2>3. SessionInv' /\ OwnerInv' /\ KickInv'
    BY <1>4, <1>a, <2>1
    DEF CheckIp, Goto, BansTypeOK, SessionInv, OwnerInv, Owns, KickInv, Unwatched
  <2>4. QED
    BY <1>4, <2>2, <2>3, TableKept DEF CheckIp, BansInv
<1>5. ASSUME NEW p \in Sessions, Reserve(p) PROVE BansInv'
  <2>1. CASE streamer[key[p]]
    <3>1. Goto(p, "idle") /\ UNCHANGED streamer
      BY <1>5, <2>1 DEF Reserve
    <3>2. BansTypeOK' /\ SessionInv' /\ OwnerInv' /\ KickInv'
      BY <1>5, <1>a, <3>1
      DEF Reserve, Goto, BansTypeOK, Sites, Locations, SessionInv, OwnerInv, Owns, KickInv, Unwatched
    <3>3. QED
      BY <1>5, <3>2, TableKept DEF Reserve, BansInv
  <2>2. CASE ~streamer[key[p]]
    <3>1. Goto(p, "count") /\ streamer' = [streamer EXCEPT ![key[p]] = TRUE]
      BY <1>5, <2>2 DEF Reserve
    <3>2. BansTypeOK'
      BY <1>5, <1>a, <3>1 DEF Reserve, Goto, BansTypeOK, Sites, Locations
    <3>3. SessionInv' /\ KickInv'
      BY <1>5, <1>a, <3>1 DEF Reserve, Goto, BansTypeOK, SessionInv, KickInv, Unwatched
    <3>4. OwnerInv'
      BY <1>5, <1>a, <2>2, <3>1
      DEF Reserve, Goto, BansTypeOK, SessionInv, OwnerInv, Owns
    <3>5. QED
      BY <1>5, <3>2, <3>3, <3>4, TableKept DEF Reserve, BansInv
  <2>3. QED
    BY <2>1, <2>2
<1>6. ASSUME NEW p \in Sessions, TakeNotification(p) PROVE BansInv'
  <2>1. BansTypeOK'
    BY <1>6, <1>a DEF TakeNotification, CheckAt, BansTypeOK, Sites, Locations
  <2>2. SessionInv' /\ OwnerInv'
    BY <1>6, <1>a DEF TakeNotification, CheckAt, BansTypeOK, SessionInv, OwnerInv, Owns
  <2>3. KickInv'
    BY <1>6, <1>a
    DEF TakeNotification, CheckAt, BansTypeOK, SessionInv, OwnerInv, Owns, KickInv, Unwatched
  <2>4. QED
    BY <1>6, <2>1, <2>2, <2>3, TableKept DEF TakeNotification, BansInv
<1>7. ASSUME NEW p \in Sessions, Finish(p) PROVE BansInv'
  <2>1. BansTypeOK' /\ SessionInv' /\ OwnerInv' /\ KickInv'
    BY <1>7, <1>a
    DEF Finish, Goto, BansTypeOK, Locations, SessionInv, OwnerInv, Owns, KickInv, Unwatched
  <2>2. QED
    BY <1>7, <2>1, TableKept DEF Finish, BansInv
<1>8. ASSUME NEW p \in Sessions, Drop(p) PROVE BansInv'
  <2>1. BansTypeOK'
    BY <1>8, <1>a DEF Drop, FinalCheck, CheckAt, BansTypeOK, Sites, Locations
  <2>2. SessionInv' /\ KickInv'
    BY <1>8, <1>a DEF Drop, FinalCheck, CheckAt, BansTypeOK, SessionInv, KickInv, Unwatched
  <2>3. OwnerInv'
    BY <1>8, <1>a DEF Drop, FinalCheck, CheckAt, BansTypeOK, SessionInv, OwnerInv, Owns
  <2>4. QED
    BY <1>8, <2>1, <2>2, <2>3, TableKept DEF Drop, BansInv
<1>9. ASSUME NEW k \in Keys, Discard(k) PROVE BansInv'
  <2>1. BansTypeOK' /\ SessionInv' /\ OwnerInv'
    BY <1>9, <1>a DEF Discard, BansTypeOK, SessionInv, OwnerInv, Owns
  <2>2. \A p \in Sessions : Unwatched(p) => key[p] # k
    BY <1>9, <1>a DEF Discard, Unwatched, OwnerInv, Owns
  <2>3. KickInv'
    BY <1>9, <1>a, <2>2 DEF Discard, KickInv, Unwatched, BansTypeOK
  <2>4. QED
    BY <1>9, <2>1, <2>3, TableKept DEF Discard, BansInv
<1>10. ASSUME NEW ids \in SUBSET Keys, Reload(ids) PROVE BansInv'
  <2> USE DEF Kept, Recount, OverflowLeft
  <2>1. Kept(ids) \in SUBSET (Addresses \X Keys)
    BY <1>a DEF BansTypeOK
  <2>2. BansTypeOK'
    BY <1>10, <1>a, <2>1, FiniteTable DEF Reload, BansTypeOK
  <2>3. SessionInv' /\ OwnerInv'
    BY <1>10, <1>a DEF Reload, IdsReadLocked, SessionInv, OwnerInv, Owns
  <2>4. KickInv'
    BY <1>10, <1>a DEF Reload, KickInv, Unwatched
  <2>5. CaughtInv' /\ NoStaleBan'
    BY <1>10 DEF Reload, BansInv, CaughtInv, BlockedForCause, NoStaleBan
  <2>6. BansCounted'
    <3>1. Cardinality(Kept(ids)) <= Cardinality(bans)
      BY <1>a, FiniteTable, FS_Subset DEF BansTypeOK
    <3>2. QED
      BY <1>10, <1>a, <2>1, <3>1, FiniteTable DEF Reload, BansInv, BansCounted, BansTypeOK
  <2>7. QED
    BY <2>2, <2>3, <2>4, <2>5, <2>6 DEF BansInv
<1>11. ASSUME NEW k \in Keys, NotifyLoad(k) PROVE BansInv'
  <2>1. BansTypeOK' /\ SessionInv' /\ OwnerInv'
    BY <1>11, <1>a DEF NotifyLoad, BansTypeOK, SessionInv, OwnerInv, Owns
  <2>2. KickInv'
    BY <1>11, <1>a DEF NotifyLoad, KickInv, Unwatched, OwnerInv, Owns, BansTypeOK
  <2>3. QED
    BY <1>11, <2>1, <2>2, TableKept DEF NotifyLoad, BansInv
<1>12. ASSUME NotifyOne PROVE BansInv'
  <2>1. BansTypeOK' /\ SessionInv' /\ OwnerInv' /\ KickInv'
    BY <1>12, <1>a
    DEF NotifyOne, BansTypeOK, SessionInv, OwnerInv, Owns, KickInv, Unwatched
  <2>2. QED
    BY <1>12, <2>1, TableKept DEF NotifyOne, BansInv
<1>13. CASE UNCHANGED bansVars
  <2>1. BansTypeOK' /\ SessionInv' /\ OwnerInv' /\ KickInv'
    BY <1>13, <1>a DEF bansVars, BansTypeOK, SessionInv, OwnerInv, Owns, KickInv, Unwatched
  <2>2. QED
    BY <1>13, <2>1, TableKept DEF bansVars, BansInv
<1>14. ASSUME NEW p \in Sessions, Count(p) PROVE BansInv'
  <2>1. CASE Goto(p, "idle") /\ streamer' = [streamer EXCEPT ![key[p]] = FALSE]
    <3>1. BansTypeOK' /\ SessionInv' /\ KickInv'
      BY <1>14, <1>a, <2>1
      DEF Count, Goto, BansTypeOK, Sites, Locations, SessionInv, KickInv, Unwatched
    <3>2. OwnerInv'
      BY <1>14, <1>a, <2>1 DEF Count, Goto, BansTypeOK, SessionInv, OwnerInv, Owns
    <3>3. QED
      BY <1>14, <3>1, <3>2, TableKept DEF Count, BansInv
  <2>2. CASE CheckAt(p, "startup") /\ UNCHANGED streamer
    <3>1. BansTypeOK' /\ SessionInv' /\ OwnerInv' /\ KickInv'
      BY <1>14, <1>a, <2>2
      DEF Count, CheckAt, BansTypeOK, Sites, Locations, SessionInv, OwnerInv, Owns, KickInv, Unwatched
    <3>2. QED
      BY <1>14, <3>1, TableKept DEF Count, BansInv
  <2>3. CASE Goto(p, "ending") /\ UNCHANGED streamer
    <3>1. BansTypeOK' /\ SessionInv' /\ OwnerInv' /\ KickInv'
      BY <1>14, <1>a, <2>3
      DEF Count, Goto, BansTypeOK, Sites, Locations, SessionInv, OwnerInv, Owns, KickInv, Unwatched
    <3>2. QED
      BY <1>14, <3>1, TableKept DEF Count, BansInv
  <2>4. QED
    BY <1>14, <2>1, <2>2, <2>3 DEF Count, StartupCheck
<1>15. QED
  BY <1>1, <1>2, <1>3, <1>4, <1>5, <1>6, <1>7, <1>8, <1>9, <1>10, <1>11, <1>12, <1>13, <1>14
  DEF BansNext

LEMMA BansInductive == BansSpec => []BansInv
  BY BansInitially, BansStepwise, PTL DEF BansSpec

(* Type correctness of the blacklist model.                                *)
THEOREM BansTypeCorrect == BansSpec => []BansTypeOK
<1>1. BansInv => BansTypeOK
  BY DEF BansInv
<1>2. QED
  BY <1>1, BansInductive, PTL

(* The ban table counts its bans exactly and stays within its bound        *)
(* (block_streamer_ip_if_blacklisted, replace_stream_blacklist).           *)
THEOREM BansAreCounted == BansSpec => []BansCounted
<1>1. BansInv => BansCounted
  BY DEF BansInv
<1>2. QED
  BY <1>1, BansInductive, PTL

(* No interleaving of a check and a reload leaves a ban behind whose ID is *)
(* no longer listed.                                                       *)
THEOREM BansAreCurrent == BansSpec => []NoStaleBan
<1>1. BansInv => NoStaleBan
  BY DEF BansInv
<1>2. QED
  BY <1>1, BansInductive, PTL

(* An address caught under an ID stays blocked as long as the ID is listed, *)
(* however full the table is.                                              *)
THEOREM FailsClosed == BansSpec => []CaughtStayBlocked
<1>1. BansInv => CaughtStayBlocked
  <2> SUFFICES ASSUME BansInv, NEW b \in caught PROVE Blocked(b[1])
    BY DEF CaughtStayBlocked
  <2>1. b \in Addresses \X Keys
    BY DEF BansInv, BansTypeOK
  <2>2. b[2] \in Keys /\ b = <<b[1], b[2]>>
    BY <2>1
  <2>3. b \in bans \/ b[2] \in overflowed
    BY DEF BansInv, CaughtInv
  <2>4. QED
    BY <2>2, <2>3 DEF Blocked
<1>2. QED
  BY <1>1, BansInductive, PTL

(* No kick is lost between the reload task and the session it must end.    *)
THEOREM NoKickLost == BansSpec => []KickOnItsWay
<1>1. BansInv => KickOnItsWay
  <2> SUFFICES ASSUME BansInv, NEW p \in Sessions, pc[p] = "running", key[p] \in blacklist
               PROVE  permit[key[p]] \/ key[p] \in pending \/ loaded = key[p]
    BY DEF KickOnItsWay
  <2>1. Unwatched(p)
    BY DEF Unwatched
  <2>2. QED
    BY <2>1, Zenon DEF BansInv, KickInv
<1>2. QED
  BY <1>1, BansInductive, PTL
-----------------------------------------------------------------------------
(* A publisher's token bucket. It is an instance, whose constants and      *)
(* variables but the clock are its own.                                    *)
CONSTANTS Rates, Low, High, Burst, Sizes
VARIABLES rate, available, updated, initialized, windows, refused

Bucket == INSTANCE TokenBucket

(* What is available is what the greatest rate may still owe to each       *)
(* stretch of time, and at least what the least rate owes to one of them.  *)
Owed(r, w) == r * Burst + r * (updated - w.from)

BucketInv ==
  /\ Bucket!Configured
  /\ Bucket!TypeOK
  /\ ~initialized => windows = {}
  /\ \A w \in windows : w.granted + available <= Owed(High, w)
  /\ initialized => \E w \in windows : w.granted + available >= Owed(Low, w)
  /\ refused > 0 => initialized /\ refused > available

LEMMA Monotone == \A a, b, c \in Nat : a <= b => a * c <= b * c
  OBVIOUS

(* The debt after more time.                                               *)
LEMMA Longer == \A r, a, b, c \in Nat : a <= b /\ b <= c =>
                  r * (c - a) = r * (b - a) + r * (c - b) /\ r * (c - a) >= r * (b - a)
<1> SUFFICES ASSUME NEW r \in Nat, NEW a \in Nat, NEW b \in Nat, NEW c \in Nat, a <= b, b <= c
             PROVE  r * (c - a) = r * (b - a) + r * (c - b) /\ r * (c - a) >= r * (b - a)
  OBVIOUS
<1>1. b - a \in Nat /\ c - b \in Nat /\ c - a = (b - a) + (c - b)
  OBVIOUS
<1>2. r * ((b - a) + (c - b)) = r * (b - a) + r * (c - b)
  BY <1>1
<1>3. r * (c - b) \in Nat /\ r * (b - a) \in Nat
  BY <1>1
<1> QED
  BY <1>1, <1>2, <1>3

LEMMA BucketInitially == Bucket!Configured /\ Bucket!Init => BucketInv
<1> SUFFICES ASSUME Bucket!Configured, Bucket!Init PROVE BucketInv
  OBVIOUS
<1>1. rate \in Rates /\ windows = {} /\ refused = 0 /\ ~initialized
  BY DEF Bucket!Init
<1>2. Bucket!TypeOK
  <2>1. now \in Nat /\ available \in Nat /\ updated \in Nat /\ updated <= now /\ refused \in Nat
    BY DEF Bucket!Init
  <2>2. rate \in Rates /\ initialized \in BOOLEAN
    BY DEF Bucket!Init
  <2>3. windows \subseteq [from : Nat, granted : Nat] /\ \A w \in windows : w.from <= updated
    BY <1>1
  <2> QED
    BY <2>1, <2>2, <2>3, Zenon DEF Bucket!TypeOK
<1>3. ~(refused > 0)
  BY <1>1
<1>4. \A w \in windows : w.granted + available <= Owed(High, w)
  BY <1>1
<1>5. windows = {} /\ ~initialized
  BY <1>1
<1> QED
  BY <1>2, <1>3, <1>4, <1>5 DEF BucketInv

(* A refill is bounded by what each stretch is owed, and reaches what one  *)
(* of them, or a new one, is owed.                                         *)
LEMMA RefillFits ==
  ASSUME BucketInv
  PROVE  /\ Bucket!Refilled \in Nat /\ Bucket!Refilled <= High * Burst
         /\ \A w \in windows : w.granted + Bucket!Refilled <= High * Burst + High * (now - w.from)
         /\ \/ Bucket!Refilled >= Low * Burst
            \/ \E w \in windows : w.granted + Bucket!Refilled >= Low * Burst + Low * (now - w.from)
<1> DEFINE gain == (now - updated) * rate
           full == rate * Burst
<1>1. /\ rate \in Nat /\ Low \in Nat /\ High \in Nat /\ Burst \in Nat
      /\ Low <= rate /\ rate <= High
      /\ now \in Nat /\ updated \in Nat /\ updated <= now /\ available \in Nat
  BY DEF BucketInv, Bucket!TypeOK, Bucket!Configured
<1>2. /\ full \in Nat /\ Low * Burst <= full /\ full <= High * Burst
      /\ Low * Burst \in Nat /\ High * Burst \in Nat
  BY <1>1, Monotone
<1>3. now - updated \in Nat
  BY <1>1
<1>4. /\ gain \in Nat
      /\ Low * (now - updated) <= gain /\ gain <= High * (now - updated)
      /\ Low * (now - updated) \in Nat /\ High * (now - updated) \in Nat
  BY <1>1, <1>3, Monotone
<1>5. Bucket!Refilled = IF initialized THEN Bucket!Least(available + gain, full) ELSE full
  BY DEF Bucket!Refilled
<1>6. \A w \in windows : /\ w.from \in Nat /\ w.granted \in Nat /\ w.from <= updated
                         /\ w.granted + available <= Owed(High, w)
  BY DEF BucketInv, Bucket!TypeOK
<1> HIDE DEF gain, full
<1>7. Bucket!Refilled \in Nat /\ Bucket!Refilled <= full /\ (initialized => Bucket!Refilled <= available + gain)
  BY <1>1, <1>2, <1>4, <1>5 DEF Bucket!Least
<1>8. ASSUME NEW w \in windows
      PROVE  w.granted + Bucket!Refilled <= High * Burst + High * (now - w.from)
  <2>1. initialized
    BY DEF BucketInv
  <2>2. High * (now - w.from) = High * (updated - w.from) + High * (now - updated)
    BY <1>1, <1>6, Longer
  <2>3. updated - w.from \in Nat /\ High * (updated - w.from) \in Nat
    BY <1>1, <1>6
  <2>4. /\ w.granted \in Nat
        /\ w.granted + available <= High * Burst + High * (updated - w.from)
    BY <1>6 DEF Owed
  <2>5. Bucket!Refilled <= available + gain
    BY <1>7, <2>1
  <2> DEFINE a == High * Burst
             b == High * (updated - w.from)
             c == High * (now - updated)
             d == High * (now - w.from)
             g == w.granted
  <2>6. /\ a \in Nat /\ b \in Nat /\ c \in Nat /\ g \in Nat /\ d = b + c
        /\ g + available <= a + b /\ gain <= c
    BY <1>2, <1>4, <2>2, <2>3, <2>4
  <2> HIDE DEF a, b, c, d, g
  <2>7. g + Bucket!Refilled <= a + d
    BY <1>1, <1>4, <1>7, <2>5, <2>6
  <2> QED
    BY <2>7 DEF a, d, g
<1>9. CASE Bucket!Refilled = full
  BY <1>2, <1>7, <1>8, <1>9
<1>10. CASE Bucket!Refilled # full
  <2>1. initialized /\ Bucket!Refilled = available + gain
    BY <1>5, <1>10 DEF Bucket!Least
  <2>2. PICK w \in windows : w.granted + available >= Owed(Low, w)
    BY <2>1 DEF BucketInv
  <2>3. Low * (now - w.from) = Low * (updated - w.from) + Low * (now - updated)
    BY <1>1, <1>6, Longer
  <2>4. Low * (updated - w.from) \in Nat
    BY <1>1, <1>6
  <2>5. w.granted + Bucket!Refilled >= Low * Burst + Low * (now - w.from)
    BY <1>1, <1>2, <1>4, <1>6, <2>1, <2>2, <2>3, <2>4 DEF Owed
  <2> QED
    BY <1>2, <1>7, <1>8, <2>5
<1> QED
  BY <1>9, <1>10

LEMMA OwedNat == \A r \in Nat, f \in Nat :
                   Burst \in Nat /\ updated \in Nat /\ f <= updated
                     => r * Burst \in Nat /\ r * (updated - f) \in Nat
<1> SUFFICES ASSUME NEW r \in Nat, NEW f \in Nat,
                    Burst \in Nat, updated \in Nat, f <= updated
             PROVE  r * Burst \in Nat /\ r * (updated - f) \in Nat
  OBVIOUS
<1>1. updated - f \in Nat
  OBVIOUS
<1> QED
  BY <1>1

LEMMA IsOverRate == BucketInv => Bucket!NeverOverRate
<1> SUFFICES ASSUME BucketInv, NEW w \in windows
             PROVE  w.granted <= High * Burst + High * (now - w.from)
  BY DEF Bucket!NeverOverRate
<1>1. Bucket!Refilled \in Nat /\ w.granted + Bucket!Refilled <= High * Burst + High * (now - w.from)
  BY RefillFits
<1>2. w.granted \in Nat /\ High * Burst \in Nat /\ High * (now - w.from) \in Nat
  <2>1. High \in Nat /\ Burst \in Nat
    BY DEF BucketInv, Bucket!Configured
  <2>2. /\ w.granted \in Nat /\ w.from \in Nat /\ w.from <= updated
        /\ now \in Nat /\ updated \in Nat /\ updated <= now
    BY DEF BucketInv, Bucket!TypeOK
  <2>3. now - w.from \in Nat
    BY <2>2
  <2> QED
    BY <2>1, <2>2, <2>3
<1> QED
  BY <1>1, <1>2

LEMMA IsPaced == BucketInv => Bucket!PacedIsServed
<1> SUFFICES ASSUME BucketInv, refused > 0
             PROVE  \E w \in windows :
                      w.granted + refused > Low * Burst + Low * (updated - w.from)
  BY DEF Bucket!PacedIsServed
<1>1. initialized /\ refused > available
  BY DEF BucketInv
<1>2. PICK w \in windows : w.granted + available >= Owed(Low, w)
  BY <1>1 DEF BucketInv
<1>3. /\ w.granted \in Nat /\ w.from \in Nat /\ updated \in Nat /\ w.from <= updated
      /\ available \in Nat /\ refused \in Nat /\ Low \in Nat /\ Burst \in Nat
  BY DEF BucketInv, Bucket!TypeOK, Bucket!Configured
<1>4. Low * Burst \in Nat /\ Low * (updated - w.from) \in Nat
  BY <1>3, OwedNat
<1>5. w.granted + available >= Low * Burst + Low * (updated - w.from)
  BY <1>2 DEF Owed
<1>6. w.granted + refused > Low * Burst + Low * (updated - w.from)
  BY <1>1, <1>3, <1>4, <1>5
<1> QED
  BY <1>6

LEMMA TickStep == BucketInv /\ Bucket!Tick => BucketInv'
<1> SUFFICES ASSUME BucketInv, Bucket!Tick PROVE BucketInv'
  OBVIOUS
<1>1. /\ now' = now + 1
      /\ UNCHANGED <<rate, available, updated, initialized, windows, refused>>
  BY DEF Bucket!Tick
<1>2. Bucket!TypeOK'
  <2>1. now' \in Nat /\ updated' <= now' /\ updated' \in Nat
    BY <1>1 DEF BucketInv, Bucket!TypeOK
  <2> QED
    BY <1>1, <2>1, Zenon DEF BucketInv, Bucket!TypeOK
<1> QED
  BY <1>1, <1>2, Zenon DEF BucketInv, Owed

LEMMA SelectStep == ASSUME NEW r \in Rates, BucketInv, Bucket!SelectQuality(r) PROVE BucketInv'
<1>1. rate' = r /\ UNCHANGED <<now, available, updated, initialized, windows, refused>>
  BY DEF Bucket!SelectQuality
<1>2. Bucket!TypeOK'
  BY <1>1, Zenon DEF BucketInv, Bucket!TypeOK
<1> QED
  BY <1>1, <1>2, Zenon DEF BucketInv, Owed

(* The windows after a call, by where they come from.                      *)
LEMMA Windows ==
  ASSUME BucketInv, NEW granted \in Nat, Bucket!Asked(granted)
  PROVE  /\ \A v \in windows' :
              \/ \E w \in windows : v = [w EXCEPT !.granted = @ + granted]
              \/ v = [from |-> now, granted |-> granted]
         /\ \A w \in windows : [w EXCEPT !.granted = @ + granted] \in windows'
         /\ \/ \E w \in windows : w.from = now
            \/ [from |-> now, granted |-> granted] \in windows'
  BY DEF Bucket!Asked, Bucket!Grown

(* A call that leaves what was refilled less what it granted.              *)
LEMMA AllowKeeps ==
  ASSUME BucketInv, NEW granted \in Nat, granted <= Bucket!Refilled,
         updated' = now, initialized' = TRUE, Bucket!Asked(granted),
         available' = Bucket!Refilled - granted, UNCHANGED <<now, rate>>,
         refused' \in Nat, refused' > 0 => refused' > available'
  PROVE  BucketInv'
<1>1. /\ Low \in Nat /\ High \in Nat /\ Burst \in Nat /\ now \in Nat
      /\ Low * Burst \in Nat /\ High * Burst \in Nat
      /\ Low * Burst <= High * Burst
  <2>1. /\ Low \in Nat /\ High \in Nat /\ Burst \in Nat /\ Low <= High
    BY DEF BucketInv, Bucket!Configured
  <2>2. now \in Nat
    BY DEF BucketInv, Bucket!TypeOK
  <2> QED
    BY <2>1, <2>2, Monotone
<1>2. /\ Bucket!Refilled \in Nat /\ Bucket!Refilled <= High * Burst
      /\ \A w \in windows : w.granted + Bucket!Refilled <= High * Burst + High * (now - w.from)
      /\ \/ Bucket!Refilled >= Low * Burst
         \/ \E w \in windows : w.granted + Bucket!Refilled >= Low * Burst + Low * (now - w.from)
  BY RefillFits
<1>3. \A w \in windows : /\ w \in [from : Nat, granted : Nat]
                         /\ w.from <= now
  BY DEF BucketInv, Bucket!TypeOK
<1>4. \A w \in windows :
        LET v == [w EXCEPT !.granted = @ + granted]
        IN  v \in [from : Nat, granted : Nat] /\ v.from = w.from
            /\ v.granted = w.granted + granted
  BY <1>3
<1>5. \A v \in windows' : v \in [from : Nat, granted : Nat] /\ v.from <= now
  <2> SUFFICES ASSUME NEW v \in windows'
               PROVE  v \in [from : Nat, granted : Nat] /\ v.from <= now
    OBVIOUS
  <2>1. CASE \E w \in windows : v = [w EXCEPT !.granted = @ + granted]
    BY <1>3, <1>4, <2>1
  <2>2. CASE v = [from |-> now, granted |-> granted]
    BY <1>1, <2>2
  <2> QED
    BY <2>1, <2>2, Windows
<1>6. Bucket!TypeOK'
  <2>1. available' \in Nat /\ updated' \in Nat /\ updated' <= now' /\ now' \in Nat
    BY <1>1, <1>2
  <2>2. windows' \subseteq [from : Nat, granted : Nat] /\ \A v \in windows' : v.from <= updated'
    BY <1>5
  <2>3. rate' \in Rates
    BY DEF BucketInv, Bucket!TypeOK
  <2> QED
    BY <2>1, <2>2, <2>3 DEF Bucket!TypeOK
<1>7. ASSUME NEW v \in windows'
      PROVE  v.granted + available' <= High * Burst + High * (now - v.from)
  <2>1. CASE \E w \in windows : v = [w EXCEPT !.granted = @ + granted]
    <3>1. PICK w \in windows : v = [w EXCEPT !.granted = @ + granted]
      BY <2>1
    <3>2. v.from = w.from /\ v.granted = w.granted + granted /\ w.granted \in Nat
      BY <1>3, <1>4, <3>1
    <3>3. v.granted + available' = w.granted + Bucket!Refilled
      BY <1>2, <3>2
    <3> QED
      BY <1>2, <3>2, <3>3
  <2>2. CASE v = [from |-> now, granted |-> granted]
    <3>1. v.granted + available' = Bucket!Refilled /\ High * (now - v.from) = 0
      BY <1>1, <1>2, <2>2
    <3> QED
      BY <1>1, <1>2, <3>1
  <2> QED
    BY <2>1, <2>2, Windows
<1>8. \E v \in windows' : v.granted + available' >= Low * Burst + Low * (now - v.from)
  <2>1. CASE \E w \in windows : w.granted + Bucket!Refilled >= Low * Burst + Low * (now - w.from)
    <3>1. PICK w \in windows : w.granted + Bucket!Refilled >= Low * Burst + Low * (now - w.from)
      BY <2>1
    <3> DEFINE v == [w EXCEPT !.granted = @ + granted]
    <3>2. v \in windows' /\ v.from = w.from /\ v.granted = w.granted + granted /\ w.granted \in Nat
      BY <1>3, <1>4, Windows
    <3> HIDE DEF v
    <3>3. v.granted + available' = w.granted + Bucket!Refilled
      BY <1>2, <3>2
    <3> QED
      BY <3>1, <3>2, <3>3
  <2>2. CASE Bucket!Refilled >= Low * Burst /\ \E w \in windows : w.from = now
    <3>1. PICK w \in windows : w.from = now
      BY <2>2
    <3> DEFINE v == [w EXCEPT !.granted = @ + granted]
    <3>2. v \in windows' /\ v.from = now /\ v.granted = w.granted + granted /\ w.granted \in Nat
      BY <1>3, <1>4, <3>1, Windows
    <3> HIDE DEF v
    <3>3. v.granted + available' = w.granted + Bucket!Refilled /\ Low * (now - v.from) = 0
      BY <1>1, <1>2, <3>2
    <3> QED
      BY <1>1, <1>2, <2>2, <3>2, <3>3
  <2>3. CASE Bucket!Refilled >= Low * Burst /\ [from |-> now, granted |-> granted] \in windows'
    <3> DEFINE v == [from |-> now, granted |-> granted]
    <3>1. v.granted + available' = Bucket!Refilled /\ Low * (now - v.from) = 0
      BY <1>1, <1>2
    <3> QED
      BY <1>1, <1>2, <2>3, <3>1
  <2> QED
    BY <1>2, <2>1, <2>2, <2>3, Windows
<1>9. \A w \in windows' : w.granted + available' <= Owed(High, w)'
  BY <1>7 DEF Owed
<1>10. \E w \in windows' : w.granted + available' >= Owed(Low, w)'
  BY <1>8 DEF Owed
<1> QED
  BY <1>6, <1>9, <1>10, Zenon DEF BucketInv

LEMMA AllowStep == ASSUME NEW units \in Sizes, BucketInv, Bucket!Allow(units) PROVE BucketInv'
<1>1. units \in Nat
  BY DEF BucketInv, Bucket!Configured
<1>2. Bucket!Refilled \in Nat
  BY RefillFits
<1>3. CASE units > Bucket!Refilled
  <2>1. available' = Bucket!Refilled /\ Bucket!Asked(0) /\ refused' = units
    BY <1>1, <1>2, <1>3 DEF Bucket!Allow, Bucket!Affordable
  <2>2. available' = Bucket!Refilled - 0 /\ 0 <= Bucket!Refilled /\ refused' > available'
    BY <1>2, <1>3, <2>1
  <2> QED
    BY <1>1, <2>1, <2>2, AllowKeeps DEF Bucket!Allow
<1>4. CASE ~(units > Bucket!Refilled)
  <2>1. available' = Bucket!Refilled - units /\ Bucket!Asked(units) /\ refused' = 0
    BY <1>1, <1>2, <1>4 DEF Bucket!Allow, Bucket!Affordable
  <2>2. units <= Bucket!Refilled /\ ~(refused' > 0) /\ refused' \in Nat
    BY <1>1, <1>2, <1>4, <2>1
  <2> QED
    BY <1>1, <2>1, <2>2, AllowKeeps DEF Bucket!Allow
<1> QED
  BY <1>3, <1>4

LEMMA Unmoved == BucketInv /\ UNCHANGED Bucket!vars => BucketInv'
<1> SUFFICES ASSUME BucketInv, UNCHANGED Bucket!vars PROVE BucketInv'
  OBVIOUS
<1>1. UNCHANGED <<now, rate, available, updated, initialized, windows, refused>>
  BY DEF Bucket!vars
<1>2. Bucket!TypeOK'
  BY <1>1, Zenon DEF BucketInv, Bucket!TypeOK
<1> QED
  BY <1>1, <1>2, Zenon DEF BucketInv, Owed

LEMMA BucketInductive == BucketInv /\ [Bucket!Next]_Bucket!vars => BucketInv'
<1> SUFFICES ASSUME BucketInv, [Bucket!Next]_Bucket!vars PROVE BucketInv'
  OBVIOUS
<1>1. CASE Bucket!Tick
  BY <1>1, TickStep
<1>2. ASSUME NEW r \in Rates, Bucket!SelectQuality(r) PROVE BucketInv'
  BY <1>2, SelectStep
<1>3. ASSUME NEW units \in Sizes, Bucket!Allow(units) PROVE BucketInv'
  BY <1>3, AllowStep
<1>4. CASE UNCHANGED Bucket!vars
  BY <1>4, Unmoved
<1> QED
  BY <1>1, <1>2, <1>3, <1>4 DEF Bucket!Next

(* The bucket's values are of their types (allow_at).                      *)
THEOREM BucketTypeCorrect == ASSUME Bucket!Configured PROVE Bucket!Spec => []Bucket!TypeOK
<1>1. BucketInv => Bucket!TypeOK
  BY DEF BucketInv
<1> QED
  BY BucketInitially, BucketInductive, <1>1, PTL DEF Bucket!Spec

(* No stretch of time is granted more than the greatest rate and burst     *)
(* allow, whatever quality is selected in between (allow_at's refill).     *)
THEOREM RateHeld == ASSUME Bucket!Configured PROVE Bucket!Spec => []Bucket!NeverOverRate
  BY BucketInitially, BucketInductive, IsOverRate, PTL DEF Bucket!Spec

(* allow_at refuses no publisher that keeps to the least rate and burst.   *)
THEOREM PacedServed == ASSUME Bucket!Configured PROVE Bucket!Spec => []Bucket!PacedIsServed
  BY BucketInitially, BucketInductive, IsPaced, PTL DEF Bucket!Spec
=============================================================================
