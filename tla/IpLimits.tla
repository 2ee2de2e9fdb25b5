------------------------------ MODULE IpLimits ------------------------------
(***************************************************************************)
(* The per-address table of the VRCStreamer server (limits.rs): one entry  *)
(* per client address with a fixed window of HTTP requests and the places  *)
(* its publishers and RTSP connections hold, pruned lazily and bounded in  *)
(* size.                                                                   *)
(*                                                                         *)
(* The table is behind one mutex, so an operation is one step.  Time is    *)
(* counted in ticks.  allow_http_request and try_acquire_ip read the clock *)
(* before they wait for the mutex: their instant may be a tick old, and a  *)
(* tick is at most half a window.                                          *)
(***************************************************************************)
EXTENDS Integers, FiniteSets

CONSTANTS
  Ips,
  None,
  MaxEntries,          \* MAX_IP_LIMIT_ENTRIES
  Window,              \* HTTP_RATE_LIMIT_WINDOW_SECS, in ticks
  MaxRequests,         \* MAX_HTTP_REQUESTS_PER_IP, 0 means unlimited
  MaxStreamersPerIp,   \* 0 means unlimited
  MaxListenersPerIp,   \* 0 means unlimited
  MaxTime              \* bound of the model: the clock stops here

Kinds == {"streamers", "listeners"}
Limit == [kind \in Kinds |->
            IF kind = "streamers" THEN MaxStreamersPerIp ELSE MaxListenersPerIp]

Entry == [window_started : Nat, request_count : Nat, places : [Kinds -> Nat],
          last_seen : Nat]

ASSUME IpLimitsAssumption ==
  /\ IsFiniteSet(Ips)
  /\ MaxEntries \in Nat /\ MaxTime \in Nat
  /\ Window \in Nat /\ Window >= 2
  /\ MaxRequests \in Nat /\ MaxStreamersPerIp \in Nat /\ MaxListenersPerIp \in Nat
  /\ None \notin Entry

VARIABLES
  now,          \* the clock
  entries,      \* IpLimitTable.entries: address -> entry, or None
  last_pruned,
  live,         \* guards alive, by address and kind
  recent        \* history: requests admitted in the last Window ticks, as
                \* <<when, start of the window that paid, place in it>>

table == <<entries, last_pruned>>
vars  == <<now, table, live, recent>>

Init ==
  /\ now = 0
  /\ entries = [ip \in Ips |-> None]
  /\ last_pruned = 0
  /\ live = [ip \in Ips |-> [kind \in Kinds |-> 0]]
  /\ recent = [ip \in Ips |-> {}]

(* Instant::duration_since saturates at zero.                              *)
Since(t, s) == IF t >= s THEN t - s ELSE 0

Instants == {t \in {now, now - 1} : t \in Nat}
-----------------------------------------------------------------------------
IdlePublishers(e, t) ==                  \* variant: RTSP connections forgotten
  e.places["streamers"] = 0 /\ Since(t, e.last_seen) >= 2 * Window

IdleUncounted(e, t) ==                   \* variant: a counted request keeps it
  /\ \A kind \in Kinds : e.places[kind] = 0
  /\ e.request_count = 0
  /\ Since(t, e.last_seen) >= 2 * Window

Idle(e, t) ==
  /\ \A kind \in Kinds : e.places[kind] = 0
  /\ Since(t, e.last_seen) >= 2 * Window

PruneDue(t) == Since(t, last_pruned) >= Window

(* prune_if_due, at the start of every look-up.                            *)
Pruned(t) ==
  IF PruneDue(t)
    THEN [ip \in Ips |-> IF entries[ip] # None /\ Idle(entries[ip], t) THEN None
                                                                       ELSE entries[ip]]
    ELSE entries

Prune(t) == last_pruned' = IF PruneDue(t) THEN t ELSE last_pruned

Size(es) == Cardinality({ip \in Ips : es[ip] # None})

HasRoom(es) == Size(es) < MaxEntries

(* A new address finds no room.                                            *)
TableFull(ip, t) == LET es == Pruned(t) IN es[ip] = None /\ ~HasRoom(es)

(* IpLimitTable::entry: the entry of an address, made when there is none.  *)
Found(ip, t) ==
  LET es == Pruned(t) IN
  IF es[ip] # None
    THEN es[ip]
    ELSE [window_started |-> t, request_count |-> 0,
          places |-> [kind \in Kinds |-> 0], last_seen |-> t]

Store(ip, t, e) == entries' = [Pruned(t) EXCEPT ![ip] = [e EXCEPT !.last_seen = t]]

Refused(ip, t) ==
  /\ TableFull(ip, t)
  /\ entries' = Pruned(t)

WindowOverEarly(e, t) == Since(t, e.window_started) + 1 >= Window   \* variant
WindowOver(e, t) == Since(t, e.window_started) >= Window

Renewed(e, t) == IF WindowOver(e, t)
                   THEN [e EXCEPT !.window_started = t, !.request_count = 0]
                   ELSE e

(* allow_http_request: a request of one of the HTTP endpoints.             *)
Request(ip, t) ==
  /\ MaxRequests # 0
  /\ Prune(t)
  /\ \/ Refused(ip, t) /\ UNCHANGED recent
     \/ LET e == Renewed(Found(ip, t), t) IN
          /\ ~TableFull(ip, t)
          /\ \/ /\ e.request_count < MaxRequests
                /\ Store(ip, t, [e EXCEPT !.request_count = @ + 1])
                /\ recent' = [recent EXCEPT ![ip] = @ \cup {<<now, e.window_started, e.request_count>>}]
             \/ /\ e.request_count >= MaxRequests
                /\ Store(ip, t, e)
                /\ UNCHANGED recent
  /\ UNCHANGED <<now, live>>

(* try_acquire_ip: a publisher request or an accepted RTSP connection.     *)
Acquire(ip, kind, t) ==
  /\ Limit[kind] # 0
  /\ Prune(t)
  /\ \/ Refused(ip, t) /\ UNCHANGED live
     \/ LET e == Found(ip, t) IN
          /\ ~TableFull(ip, t)
          /\ \/ /\ e.places[kind] < Limit[kind]
                /\ Store(ip, t, [e EXCEPT !.places[kind] = @ + 1])
                /\ live' = [live EXCEPT ![ip][kind] = @ + 1]
             \/ /\ e.places[kind] >= Limit[kind]
                /\ Store(ip, t, e)
                /\ UNCHANGED live
  /\ UNCHANGED <<now, recent>>

Freed(e, kind) == [e EXCEPT !.places[kind] = Since(@, 1), !.last_seen = now]

(* IpLimitGuard::drop.  It reads the clock under the mutex, and its        *)
(* subtraction saturates.                                                  *)
Release(ip, kind) ==
  /\ live[ip][kind] > 0
  /\ live' = [live EXCEPT ![ip][kind] = @ - 1]
  /\ entries' = IF entries[ip] = None THEN entries
                ELSE [entries EXCEPT ![ip] = Freed(@, kind)]
  /\ UNCHANGED <<now, last_pruned, recent>>

Tick ==
  /\ now < MaxTime
  /\ now' = now + 1
  /\ recent' = [ip \in Ips |-> {r \in recent[ip] : r[1] + Window > now'}]
  /\ UNCHANGED <<table, live>>

Next ==
  \/ Tick
  \/ \E ip \in Ips, t \in Instants :
       Request(ip, t) \/ \E kind \in Kinds : Acquire(ip, kind, t)
  \/ \E ip \in Ips, kind \in Kinds : Release(ip, kind)

Spec == Init /\ [][Next]_vars
-----------------------------------------------------------------------------
(* The table never outgrows its bound.                                     *)
TypeOK ==
  /\ now \in Nat
  /\ entries \in [Ips -> Entry \cup {None}]
  /\ Size(entries) <= MaxEntries
  /\ last_pruned \in Nat
  /\ live \in [Ips -> [Kinds -> Nat]]
  /\ recent \in [Ips -> SUBSET (Nat \X Nat \X Nat)]

(* An address's places are the guards alive for it, never more than its    *)
(* limit: no pruning forgets a guard, no release is lost or masked by the  *)
(* saturating subtraction.                                                 *)
PlacesExact ==
  \A ip \in Ips, kind \in Kinds :
    /\ live[ip][kind] = IF entries[ip] = None THEN 0 ELSE entries[ip].places[kind]
    /\ live[ip][kind] <= Limit[kind]

(* Fixed windows admit at most two budgets in any stretch of one window's  *)
(* length, even when an entry was pruned and made again in between.        *)
BudgetKept == \A ip \in Ips : Cardinality(recent[ip]) <= 2 * MaxRequests

(* A new address is only ever refused for room while the table is in use:  *)
(* every entry the refusal leaves has a guard or was seen within three     *)
(* windows, so idle addresses cannot lock others out for good.             *)
FullTableIsBusy ==
  \A ip \in Ips, t \in Instants :
    TableFull(ip, t) =>
      LET left == Pruned(t) IN
      \A other \in Ips :
        \/ left[other] = None
        \/ \E kind \in Kinds : live[other][kind] # 0
        \/ now <= entries[other].last_seen + 3 * Window
=============================================================================
