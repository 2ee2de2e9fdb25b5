------------------------------ MODULE Registry ------------------------------
(***************************************************************************)
(* The channel registry of the VRCStreamer server: the map from stream     *)
(* keys to shared Channel objects, the reservation a streamer or a         *)
(* listener takes in a channel, the server-wide connection, streamer and   *)
(* listener counters, and the guards that give everything back.            *)
(*                                                                         *)
(* Every session is a process of the multi-thread runtime.  One action is  *)
(* one atomic memory operation or one critical section, so the processes   *)
(* interleave exactly where the code lets them.  Atomics are sequentially  *)
(* consistent here.                                                        *)
(*                                                                         *)
(* Admission checks that read no shared registry state (origin, password,  *)
(* stream code) and the per-address tables have modules of their own or    *)
(* are left out; a refused attempt that changes nothing is no step.        *)
(***************************************************************************)
EXTENDS Naturals, FiniteSets

CONSTANTS
  Streamers,              \* publisher sessions (WebSocket /ingest requests)
  Listeners,              \* RTSP connections
  Keys,                   \* stream keys (hash of the code)
  Chans,                  \* addresses of Channel objects
  None,
  MaxConnections,         \* MAX_CONNECTIONS, 0 means unlimited
  MaxStreamers,           \* MAX_STREAMERS, 0 means unlimited
  MaxListenersTotal,      \* MAX_LISTENERS_TOTAL, 0 means unlimited
  MaxListenersPerStream   \* MAX_LISTENERS_PER_STREAM, 0 means unlimited

Procs == Streamers \cup Listeners

ASSUME ProcsAssumption ==
  /\ IsFiniteSet(Streamers)
  /\ IsFiniteSet(Listeners)
  /\ Streamers \cap Listeners = {}
  /\ None \notin Procs \cup Keys \cup Chans

ASSUME LimitsAssumption ==
  /\ MaxConnections \in Nat
  /\ MaxStreamers \in Nat
  /\ MaxListenersTotal \in Nat
  /\ MaxListenersPerStream \in Nat

VARIABLES
  pc,                  \* where each session is in the code
  key,                 \* the stream key a session works with, or None
  chan,                \* the Arc<Channel> a session holds, or None
  resume,              \* where a session goes on after cleanup_channel
  channels,            \* AppState.channels: key -> mapped object, or None
  readers,             \* sessions holding the channels lock for reading
  writer,              \* the session holding it for writing, or None
  streamer,            \* Channel.streamer
  listeners,           \* Channel.listeners
  active_connections,
  active_streamers,
  active_listeners

object   == <<streamer, listeners>>
lock     == <<readers, writer>>
counters == <<active_connections, active_streamers, active_listeners>>
local    == <<key, chan, resume>>
vars     == <<pc, local, channels, lock, object, counters>>

Locations ==
  { "idle",       \* no connection
    "connected",  \* holds a ConnectionGuard
    "lookup",     \* about to take the read lock in reserve_channel
    "hit",        \* read lock held, the key was mapped
    "miss",       \* read lock released, the key was not mapped
    "inserted",   \* write lock held, the key is mapped
    "flagged",    \* streamer: Channel.streamer won, not counted yet
    "overflow",   \* listener: refused by the channel, still counted
    "live",       \* reservation complete, guard owned by the session
    "dropping",   \* the guard gave the channel back, not the counter
    "sweep",      \* cleanup_channel: load streamer
    "sweep2",     \* cleanup_channel: load listeners
    "sweep3",     \* cleanup_channel: take the write lock
    "closing" }   \* about to drop the ConnectionGuard

LimitAllows(limit, current) == limit = 0 \/ current < limit

At(p, l) == pc[p] = l
Goto(p, l) == pc' = [pc EXCEPT ![p] = l]

CanRead  == writer = None
CanWrite == writer = None /\ readers = {}

(* An address the allocator may hand out: no map entry and no Arc uses it. *)
Fresh(c) == /\ \A k \in Keys : channels[k] # c
            /\ \A p \in Procs : chan[p] # c

Init ==
  /\ pc = [p \in Procs |-> "idle"]
  /\ key = [p \in Procs |-> None]
  /\ chan = [p \in Procs |-> None]
  /\ resume = [p \in Procs |-> "closing"]
  /\ channels = [k \in Keys |-> None]
  /\ readers = {}
  /\ writer = None
  /\ streamer = [c \in Chans |-> FALSE]
  /\ listeners = [c \in Chans |-> 0]
  /\ active_connections = 0
  /\ active_streamers = 0
  /\ active_listeners = 0
-----------------------------------------------------------------------------
(* try_acquire_connection: a publisher request and an accepted RTSP socket *)
(* take their ConnectionGuard.                                             *)
Connect(p) ==
  /\ At(p, "idle")
  /\ LimitAllows(MaxConnections, active_connections)
  /\ active_connections' = active_connections + 1
  /\ Goto(p, "connected")
  /\ UNCHANGED <<local, channels, lock, object, active_streamers, active_listeners>>

(* A publisher goes straight on to reserve_channel for its key.            *)
Publish(s, k) ==
  /\ At(s, "connected")
  /\ key' = [key EXCEPT ![s] = k]
  /\ Goto(s, "lookup")
  /\ UNCHANGED <<chan, resume, channels, lock, object, counters>>

(* subscribe_listener first takes a place in the server-wide count.        *)
Subscribe(l, k) ==
  /\ At(l, "connected")
  /\ LimitAllows(MaxListenersTotal, active_listeners)
  /\ active_listeners' = active_listeners + 1
  /\ key' = [key EXCEPT ![l] = k]
  /\ Goto(l, "lookup")
  /\ UNCHANGED <<chan, resume, channels, lock, object, active_connections, active_streamers>>

(* Variant: the read lock is released right after the lookup.              *)
LookupReleasing(p) ==
  /\ At(p, "lookup")
  /\ CanRead
  /\ IF channels[key[p]] # None
       THEN /\ chan' = [chan EXCEPT ![p] = channels[key[p]]]
            /\ Goto(p, "hit")
       ELSE Goto(p, "miss") /\ UNCHANGED chan
  /\ UNCHANGED <<key, resume, channels, lock, object, counters>>

(* reserve_channel takes the read lock; a mapped key keeps it, an unmapped *)
(* one releases it before the write lock is asked for.                     *)
Lookup(p) ==
  /\ At(p, "lookup")
  /\ CanRead
  /\ IF channels[key[p]] # None
       THEN /\ chan' = [chan EXCEPT ![p] = channels[key[p]]]
            /\ readers' = readers \cup {p}
            /\ Goto(p, "hit")
       ELSE /\ Goto(p, "miss")
            /\ UNCHANGED <<chan, readers>>
  /\ UNCHANGED <<key, resume, channels, writer, object, counters>>

(* entry(key).or_insert_with(Channel::new) under the write lock: somebody  *)
(* else may have mapped the key since the miss.                            *)
FindOrInsert(p) ==
  /\ At(p, "miss")
  /\ CanWrite
  /\ writer' = p
  /\ \/ /\ channels[key[p]] # None
        /\ chan' = [chan EXCEPT ![p] = channels[key[p]]]
        /\ UNCHANGED <<channels, object>>
     \/ /\ channels[key[p]] = None
        /\ \E c \in Chans :
             /\ Fresh(c)
             /\ channels' = [channels EXCEPT ![key[p]] = c]
             /\ streamer' = [streamer EXCEPT ![c] = FALSE]
             /\ listeners' = [listeners EXCEPT ![c] = 0]
             /\ chan' = [chan EXCEPT ![p] = c]
  /\ Goto(p, "inserted")
  /\ UNCHANGED <<key, resume, readers, counters>>

Reserving(p) == At(p, "hit") \/ At(p, "inserted")

(* Variant: the write guard outlives the call.                             *)
UnlockReader(p) ==
  /\ readers' = readers \ {p}
  /\ UNCHANGED writer

Unlock(p) ==
  /\ readers' = readers \ {p}
  /\ writer' = IF writer = p THEN None ELSE writer

(* Variant: a swap instead of a compare-exchange.                          *)
ReserveStreamerSwap(s) ==
  /\ Reserving(s)
  /\ Unlock(s)
  /\ streamer' = [streamer EXCEPT ![chan[s]] = TRUE]
  /\ Goto(s, "flagged")
  /\ UNCHANGED <<local, channels, listeners, counters>>

(* The streamer's reservation, made under whichever lock is held: one      *)
(* compare_exchange(false, true).  The loser answers 409 without touching  *)
(* the channel and drops its ConnectionGuard.                              *)
ReserveStreamer(s) ==
  /\ Reserving(s)
  /\ Unlock(s)
  /\ \/ /\ ~streamer[chan[s]]
        /\ streamer' = [streamer EXCEPT ![chan[s]] = TRUE]
        /\ Goto(s, "flagged")
        /\ UNCHANGED <<key, chan>>
     \/ /\ streamer[chan[s]]
        /\ key' = [key EXCEPT ![s] = None]
        /\ chan' = [chan EXCEPT ![s] = None]
        /\ Goto(s, "closing")
        /\ UNCHANGED streamer
  /\ UNCHANGED <<resume, channels, listeners, counters>>

(* The listener's reservation: one fetch_update bounded by the per-stream  *)
(* limit.                                                                  *)
ReserveListener(l) ==
  /\ Reserving(l)
  /\ Unlock(l)
  /\ \/ /\ LimitAllows(MaxListenersPerStream, listeners[chan[l]])
        /\ listeners' = [listeners EXCEPT ![chan[l]] = @ + 1]
        /\ Goto(l, "live")
     \/ /\ ~LimitAllows(MaxListenersPerStream, listeners[chan[l]])
        /\ Goto(l, "overflow")
        /\ UNCHANGED listeners
  /\ UNCHANGED <<local, channels, streamer, counters>>

(* Variant: the StreamerGuard exists before the count is taken, so a       *)
(* streamer over the limit gives back a place it never had.                *)
CountStreamerGuarded(s) ==
  /\ At(s, "flagged")
  /\ \/ /\ LimitAllows(MaxStreamers, active_streamers)
        /\ active_streamers' = active_streamers + 1
        /\ Goto(s, "live")
        /\ UNCHANGED <<streamer, resume>>
     \/ /\ ~LimitAllows(MaxStreamers, active_streamers)
        /\ streamer' = [streamer EXCEPT ![chan[s]] = FALSE]
        /\ resume' = [resume EXCEPT ![s] = "closing"]
        /\ Goto(s, "dropping")
        /\ UNCHANGED active_streamers
  /\ UNCHANGED <<key, chan, channels, lock, listeners, active_connections, active_listeners>>

(* ingest_ws counts the streamer after it won the channel; over the limit  *)
(* it takes the flag back and cleans up before it answers 429.             *)
CountStreamer(s) ==
  /\ At(s, "flagged")
  /\ \/ /\ LimitAllows(MaxStreamers, active_streamers)
        /\ active_streamers' = active_streamers + 1
        /\ Goto(s, "live")
        /\ UNCHANGED <<streamer, resume>>
     \/ /\ ~LimitAllows(MaxStreamers, active_streamers)
        /\ streamer' = [streamer EXCEPT ![chan[s]] = FALSE]
        /\ resume' = [resume EXCEPT ![s] = "closing"]
        /\ Goto(s, "sweep")
        /\ UNCHANGED active_streamers
  /\ UNCHANGED <<key, chan, channels, lock, listeners, active_connections, active_listeners>>

(* A listener the channel refused leaves the server-wide count and cleans  *)
(* up; its RTSP connection stays open and may try again.                   *)
Uncount(l) ==
  /\ At(l, "overflow")
  /\ active_listeners' = active_listeners - 1
  /\ resume' = [resume EXCEPT ![l] = "connected"]
  /\ Goto(l, "sweep")
  /\ UNCHANGED <<key, chan, channels, lock, object, active_connections, active_streamers>>

(* StreamerGuard::drop gives the channel back first ...                    *)
DropStreamer(s) ==
  /\ At(s, "live")
  /\ streamer' = [streamer EXCEPT ![chan[s]] = FALSE]
  /\ resume' = [resume EXCEPT ![s] = "closing"]
  /\ Goto(s, "dropping")
  /\ UNCHANGED <<key, chan, channels, lock, listeners, counters>>

(* ... and the counter later, before cleanup_channel.                      *)
UncountStreamer(s) ==
  /\ At(s, "dropping")
  /\ active_streamers' = active_streamers - 1
  /\ Goto(s, "sweep")
  /\ UNCHANGED <<local, channels, lock, object, active_connections, active_listeners>>

(* ListenerGuard::drop: the channel first, then the server-wide count.     *)
DropListener(l) ==
  /\ At(l, "live")
  /\ listeners' = [listeners EXCEPT ![chan[l]] = @ - 1]
  /\ resume' = [resume EXCEPT ![l] = "closing"]
  /\ Goto(l, "dropping")
  /\ UNCHANGED <<key, chan, channels, lock, streamer, counters>>

(* Variant: the guard does not clean up.                                   *)
UncountListenerOnly(l) ==
  /\ At(l, "dropping")
  /\ active_listeners' = active_listeners - 1
  /\ key' = [key EXCEPT ![l] = None]
  /\ chan' = [chan EXCEPT ![l] = None]
  /\ Goto(l, "closing")
  /\ UNCHANGED <<resume, channels, lock, object, active_connections, active_streamers>>

UncountListener(l) ==
  /\ At(l, "dropping")
  /\ active_listeners' = active_listeners - 1
  /\ Goto(l, "sweep")
  /\ UNCHANGED <<local, channels, lock, object, active_connections, active_streamers>>

-----------------------------------------------------------------------------
(* cleanup_channel.  Leaving it drops the session's Arc.                   *)
SweepDone(p) ==
  /\ Goto(p, resume[p])
  /\ key' = [key EXCEPT ![p] = None]
  /\ chan' = [chan EXCEPT ![p] = None]

(* The check without the lock reads the two fields one after the other.    *)
SweepLoadStreamer(p) ==
  /\ At(p, "sweep")
  /\ IF streamer[chan[p]] THEN SweepDone(p)
                          ELSE Goto(p, "sweep2") /\ UNCHANGED <<key, chan>>
  /\ UNCHANGED <<resume, channels, lock, object, counters>>

SweepLoadListeners(p) ==
  /\ At(p, "sweep2")
  /\ IF listeners[chan[p]] # 0 THEN SweepDone(p)
                               ELSE Goto(p, "sweep3") /\ UNCHANGED <<key, chan>>
  /\ UNCHANGED <<resume, channels, lock, object, counters>>

(* Variant: no second look at the fields.                                  *)
RemovableUnchecked(p) == channels[key[p]] = chan[p]

Removable(p) ==
  /\ channels[key[p]] = chan[p]
  /\ ~streamer[chan[p]]
  /\ listeners[chan[p]] = 0

(* Under the write lock: remove the entry if it still is this object and   *)
(* still is unused.                                                        *)
SweepRemove(p) ==
  /\ At(p, "sweep3")
  /\ CanWrite
  /\ channels' = IF Removable(p) THEN [channels EXCEPT ![key[p]] = None]
                                 ELSE channels
  /\ SweepDone(p)
  /\ UNCHANGED <<resume, lock, object, counters>>

(* ConnectionGuard::drop, at the end of a session or of a refused request. *)
Disconnect(p) ==
  /\ At(p, "closing")
  /\ active_connections' = active_connections - 1
  /\ Goto(p, "idle")
  /\ UNCHANGED <<local, channels, lock, object, active_streamers, active_listeners>>

(* An RTSP client hangs up without a subscription.                         *)
HangUp(l) ==
  /\ At(l, "connected")
  /\ Goto(l, "closing")
  /\ UNCHANGED <<local, channels, lock, object, counters>>
-----------------------------------------------------------------------------
Shared(p) ==
  \/ Connect(p) \/ Lookup(p) \/ FindOrInsert(p)
  \/ SweepLoadStreamer(p) \/ SweepLoadListeners(p) \/ SweepRemove(p)
  \/ Disconnect(p)

StreamerStep(s) ==
  \/ \E k \in Keys : Publish(s, k)
  \/ ReserveStreamer(s) \/ CountStreamer(s) \/ DropStreamer(s) \/ UncountStreamer(s)

ListenerStep(l) ==
  \/ \E k \in Keys : Subscribe(l, k)
  \/ ReserveListener(l) \/ Uncount(l) \/ DropListener(l) \/ UncountListener(l)
  \/ HangUp(l)

Next ==
  \/ \E p \in Procs : Shared(p)
  \/ \E s \in Streamers : StreamerStep(s)
  \/ \E l \in Listeners : ListenerStep(l)

(* What the server does by itself once a session is on its way.  Clients   *)
(* need not connect, subscribe or leave.                                   *)
LockStep(p) == Lookup(p) \/ FindOrInsert(p) \/ SweepRemove(p)

OwnStep(p) ==
  \/ SweepLoadStreamer(p) \/ SweepLoadListeners(p) \/ Disconnect(p)
  \/ /\ p \in Streamers
     /\ \/ \E k \in Keys : Publish(p, k)
        \/ ReserveStreamer(p) \/ CountStreamer(p) \/ UncountStreamer(p)
  \/ /\ p \in Listeners
     /\ ReserveListener(p) \/ Uncount(p) \/ UncountListener(p)

(* The scheduler runs every task, and std's RwLock does not starve a       *)
(* waiter: the lock acquisitions are strongly fair.                        *)
Fairness == \A p \in Procs : SF_vars(LockStep(p)) /\ WF_vars(OwnStep(p))

Spec == Init /\ [][Next]_vars
FairSpec == Spec /\ Fairness
-----------------------------------------------------------------------------
TypeOK ==
  /\ pc \in [Procs -> Locations]
  /\ key \in [Procs -> Keys \cup {None}]
  /\ chan \in [Procs -> Chans \cup {None}]
  /\ resume \in [Procs -> {"connected", "closing"}]
  /\ channels \in [Keys -> Chans \cup {None}]
  /\ readers \in SUBSET Procs
  /\ writer \in Procs \cup {None}
  /\ streamer \in [Chans -> BOOLEAN]
  /\ listeners \in [Chans -> Nat]
  /\ active_connections \in Nat
  /\ active_streamers \in Nat
  /\ active_listeners \in Nat

(* Who holds what, read off the sessions' positions in the code.           *)
Connected == {p \in Procs : pc[p] # "idle"}
Counted   == {s \in Streamers : pc[s] \in {"live", "dropping"}}
Seated    == {l \in Listeners :
               pc[l] \in {"lookup", "hit", "miss", "inserted", "overflow", "live", "dropping"}}
Flagging(c)  == {s \in Streamers : pc[s] \in {"flagged", "live"} /\ chan[s] = c}
Listening(c) == {l \in Listeners : pc[l] = "live" /\ chan[l] = c}
Publishing(k) == {s \in Streamers : pc[s] \in {"flagged", "live"} /\ key[s] = k}

Within(limit, n) == limit = 0 \/ n <= limit

(* The three server-wide counters count the sessions that hold a place,    *)
(* at every step of every interleaving, and no configured limit is ever    *)
(* exceeded: no admission is lost or given back twice.                     *)
CountersExact ==
  /\ active_connections = Cardinality(Connected)
  /\ active_streamers = Cardinality(Counted)
  /\ active_listeners = Cardinality(Seated)
  /\ Within(MaxConnections, active_connections)
  /\ Within(MaxStreamers, active_streamers)
  /\ Within(MaxListenersTotal, active_listeners)

(* A channel's own fields agree with the sessions that reserved it.        *)
ChannelExact ==
  \A c \in Chans :
    /\ streamer[c] <=> Flagging(c) # {}
    /\ listeners[c] = Cardinality(Listening(c))
    /\ Within(MaxListenersPerStream, listeners[c])

(* main.rs:750, "Keep the channel mapped until the caller's atomic         *)
(* reservation is complete": a session that is reserving or has reserved a *)
(* channel holds the object the map gives for its key, so a listener never *)
(* sits on an orphan its publisher does not feed.                          *)
NoOrphan ==
  \A p \in Procs :
    pc[p] \in {"hit", "inserted", "flagged", "live"} => channels[key[p]] = chan[p]

(* A stream key has one publisher at a time, over all objects that ever    *)
(* stood for it.                                                           *)
OnePublisher ==
  \A k \in Keys : Cardinality(Publishing(k)) <= 1

(* A session that left, was refused or failed gives everything back: it    *)
(* does not stay inside the server for ever.                               *)
DepartureCompletes ==
  \A p \in Procs :
    pc[p] \in {"overflow", "dropping", "sweep", "sweep2", "sweep3", "closing"}
      ~> pc[p] \in {"idle", "connected"}

(* An entry nobody uses is eventually removed or used again.               *)
UnusedEntryGoes ==
  \A k \in Keys :
    LET used == IF channels[k] = None THEN TRUE
                ELSE streamer[channels[k]] \/ listeners[channels[k]] # 0
    IN ~used ~> used
=============================================================================
