--------------------------- MODULE RegistryProofs ---------------------------
(***************************************************************************)
(* Proofs about Registry, for any sessions, keys, objects and limits, and  *)
(* that it implements Directory.                                           *)
(***************************************************************************)
EXTENDS RegistryRefinement, Integers, FiniteSetTheorems, TLAPS

Placed(p) == pc[p] \in {"hit", "inserted", "flagged", "overflow", "live",
                        "dropping", "sweep", "sweep2", "sweep3"}

(* Where a session works with a key and an object, it has them; only a     *)
(* streamer is ever flagged and only a listener overflows.                 *)
LocalInv ==
  /\ \A p \in Procs : Placed(p) => chan[p] \in Chans /\ key[p] \in Keys
  /\ \A p \in Procs : pc[p] \in {"lookup", "miss"} => key[p] \in Keys
  /\ \A l \in Listeners : pc[l] # "flagged"
  /\ \A s \in Streamers : pc[s] # "overflow" /\ resume[s] = "closing"

(* The lock is held exactly by the sessions inside reserve_channel, and a  *)
(* writer excludes everybody else.                                         *)
LockInv ==
  /\ readers = {p \in Procs : pc[p] = "hit"}
  /\ \A p \in Procs : pc[p] = "inserted" <=> writer = p
  /\ writer # None => readers = {}

(* The types that hold before anything is known about the counters: that   *)
(* they never fall below zero is a consequence of what they count.         *)
Shape ==
  /\ pc \in [Procs -> Locations]
  /\ key \in [Procs -> Keys \cup {None}]
  /\ chan \in [Procs -> Chans \cup {None}]
  /\ resume \in [Procs -> {"connected", "closing"}]
  /\ channels \in [Keys -> Chans \cup {None}]
  /\ readers \in SUBSET Procs
  /\ writer \in Procs \cup {None}
  /\ streamer \in [Chans -> BOOLEAN]
  /\ listeners \in [Chans -> Int]
  /\ active_connections \in Int
  /\ active_streamers \in Int
  /\ active_listeners \in Int

TypeInv == Shape /\ LocalInv

LEMMA TypeInit == Init => TypeInv
  BY ProcsAssumption
  DEF Init, TypeInv, Shape, LocalInv, Placed, Locations, Procs

LEMMA TypeStep == TypeInv /\ [Next]_vars => TypeInv'
<1> SUFFICES ASSUME TypeInv, [Next]_vars PROVE TypeInv'
  OBVIOUS
<1> USE ProcsAssumption
    DEF TypeInv, Shape, LocalInv, Placed, Locations, At, Goto, local, lock, object, counters
<1>1. ASSUME NEW p \in Procs, Connect(p) PROVE TypeInv'
  BY <1>1 DEF Connect, Procs
<1>2. ASSUME NEW p \in Procs, Lookup(p) PROVE TypeInv'
  BY <1>2 DEF Lookup, Procs
<1>3. ASSUME NEW p \in Procs, FindOrInsert(p) PROVE TypeInv'
  <2>1. CASE channels[key[p]] # None
    BY <1>3, <2>1 DEF FindOrInsert, Procs
  <2>2. CASE channels[key[p]] = None
    <3>1. PICK c \in Chans :
            /\ channels' = [channels EXCEPT ![key[p]] = c]
            /\ streamer' = [streamer EXCEPT ![c] = FALSE]
            /\ listeners' = [listeners EXCEPT ![c] = 0]
            /\ chan' = [chan EXCEPT ![p] = c]
      BY <1>3, <2>2 DEF FindOrInsert
    <3>2. QED
      BY <1>3, <3>1 DEF FindOrInsert, Procs
  <2>3. QED
    BY <2>1, <2>2
<1>4. ASSUME NEW p \in Procs, SweepLoadStreamer(p) PROVE TypeInv'
  BY <1>4 DEF SweepLoadStreamer, SweepDone, Procs
<1>5. ASSUME NEW p \in Procs, SweepLoadListeners(p) PROVE TypeInv'
  BY <1>5 DEF SweepLoadListeners, SweepDone, Procs
<1>6. ASSUME NEW p \in Procs, SweepRemove(p) PROVE TypeInv'
  BY <1>6 DEF SweepRemove, SweepDone, Procs
<1>7. ASSUME NEW p \in Procs, Disconnect(p) PROVE TypeInv'
  BY <1>7 DEF Disconnect, Procs
<1>8. ASSUME NEW s \in Streamers, NEW k \in Keys, Publish(s, k) PROVE TypeInv'
  BY <1>8 DEF Publish, Procs
<1>9. ASSUME NEW s \in Streamers, ReserveStreamer(s) PROVE TypeInv'
  <2>1. s \in Procs /\ chan[s] \in Chans /\ key[s] \in Keys
    BY <1>9 DEF ReserveStreamer, Reserving, Procs
  <2>2. CASE pc'[s] = "flagged"
    <3>1. /\ streamer' = [streamer EXCEPT ![chan[s]] = TRUE]
          /\ Goto(s, "flagged")
          /\ UNCHANGED <<key, chan>>
      BY <1>9, <2>2 DEF ReserveStreamer
    <3>2. QED
      BY <1>9, <2>1, <2>2, <3>1 DEF ReserveStreamer, Unlock
  <2>3. CASE pc'[s] # "flagged"
    <3>1. /\ UNCHANGED streamer
          /\ key' = [key EXCEPT ![s] = None]
          /\ chan' = [chan EXCEPT ![s] = None]
          /\ Goto(s, "closing")
      BY <1>9, <2>1, <2>3 DEF ReserveStreamer
    <3>2. QED
      BY <1>9, <2>1, <3>1 DEF ReserveStreamer, Unlock
  <2>4. QED
    BY <2>2, <2>3
<1>10. ASSUME NEW s \in Streamers, CountStreamer(s) PROVE TypeInv'
  <2>1. s \in Procs /\ chan[s] \in Chans /\ key[s] \in Keys
    BY <1>10 DEF CountStreamer, Procs
  <2>2. CASE pc'[s] = "live"
    <3>1. Goto(s, "live") /\ active_streamers' = active_streamers + 1 /\ UNCHANGED <<streamer, resume>>
      BY <1>10, <2>1, <2>2 DEF CountStreamer
    <3>2. QED
      BY <1>10, <2>1, <3>1 DEF CountStreamer
  <2>3. CASE pc'[s] # "live"
    <3>1. /\ Goto(s, "sweep")
          /\ streamer' = [streamer EXCEPT ![chan[s]] = FALSE]
          /\ resume' = [resume EXCEPT ![s] = "closing"]
          /\ UNCHANGED active_streamers
      BY <1>10, <2>1, <2>3 DEF CountStreamer
    <3>2. QED
      BY <1>10, <2>1, <3>1 DEF CountStreamer
  <2>4. QED
    BY <2>2, <2>3
<1>11. ASSUME NEW s \in Streamers, DropStreamer(s) PROVE TypeInv'
  BY <1>11 DEF DropStreamer, Procs
<1>12. ASSUME NEW s \in Streamers, UncountStreamer(s) PROVE TypeInv'
  BY <1>12 DEF UncountStreamer, Procs
<1>13. ASSUME NEW l \in Listeners, NEW k \in Keys, Subscribe(l, k) PROVE TypeInv'
  BY <1>13 DEF Subscribe, Procs
<1>14. ASSUME NEW l \in Listeners, ReserveListener(l) PROVE TypeInv'
  BY <1>14 DEF ReserveListener, Reserving, Unlock, Procs
<1>15. ASSUME NEW l \in Listeners, Uncount(l) PROVE TypeInv'
  BY <1>15 DEF Uncount, Procs
<1>16. ASSUME NEW l \in Listeners, DropListener(l) PROVE TypeInv'
  BY <1>16 DEF DropListener, Procs
<1>17. ASSUME NEW l \in Listeners, UncountListener(l) PROVE TypeInv'
  BY <1>17 DEF UncountListener, Procs
<1>18. ASSUME NEW l \in Listeners, HangUp(l) PROVE TypeInv'
  BY <1>18 DEF HangUp, Procs
<1>19. CASE UNCHANGED vars
  BY <1>19 DEF vars
<1>20. QED
  BY <1>1, <1>2, <1>3, <1>4, <1>5, <1>6, <1>7, <1>8, <1>9, <1>10, <1>11, <1>12,
     <1>13, <1>14, <1>15, <1>16, <1>17, <1>18, <1>19
  DEF Next, Shared, StreamerStep, ListenerStep
-----------------------------------------------------------------------------
(* Sets of sessions are finite, and one session joining or leaving such a  *)
(* set changes its size by one.                                            *)
LEMMA FiniteSessions ==
  /\ IsFiniteSet(Procs)
  /\ \A S \in SUBSET Procs : IsFiniteSet(S) /\ Cardinality(S) \in Nat
<1>1. IsFiniteSet(Procs)
  BY ProcsAssumption, FS_Union DEF Procs
<1>2. QED
  BY <1>1, FS_Subset, FS_CardinalityType

LEMMA JoinCount ==
  ASSUME NEW S \in SUBSET Procs, NEW p \in Procs, p \notin S
  PROVE  Cardinality(S \cup {p}) = Cardinality(S) + 1
  BY FiniteSessions, FS_AddElement

LEMMA LeaveCount ==
  ASSUME NEW S \in SUBSET Procs, NEW p \in S
  PROVE  Cardinality(S \ {p}) = Cardinality(S) - 1
  BY FiniteSessions, FS_RemoveElement

LEMMA RoomForOne ==
  ASSUME NEW limit \in Nat, NEW n \in Nat, LimitAllows(limit, n)
  PROVE  Within(limit, n + 1)
  BY DEF LimitAllows, Within

LEMMA OneLess ==
  ASSUME NEW limit \in Nat, NEW n \in Nat, Within(limit, n)
  PROVE  Within(limit, n - 1)
  BY DEF Within

LEMMA HolderTypes ==
  /\ Connected \in SUBSET Procs
  /\ Counted \in SUBSET Procs
  /\ Seated \in SUBSET Procs
  BY DEF Connected, Counted, Seated, Procs

(* Where the three sets of place holders go when one session moves.        *)
LEMMA HoldersMove ==
  ASSUME pc \in [Procs -> Locations], NEW p \in Procs, NEW x, Goto(p, x)
  PROVE
    /\ Connected' = IF x # "idle" THEN Connected \cup {p} ELSE Connected \ {p}
    /\ Counted' = IF p \in Streamers /\ x \in {"live", "dropping"}
                    THEN Counted \cup {p} ELSE Counted \ {p}
    /\ Seated' = IF /\ p \in Listeners
                    /\ x \in {"lookup", "hit", "miss", "inserted",
                              "overflow", "live", "dropping"}
                   THEN Seated \cup {p} ELSE Seated \ {p}
<1> USE DEF Goto, Procs
<1>1. \A q \in Procs : pc'[q] = IF q = p THEN x ELSE pc[q]
  OBVIOUS
<1>2. Connected' = IF x # "idle" THEN Connected \cup {p} ELSE Connected \ {p}
  BY <1>1 DEF Connected
<1>3. Counted' = IF p \in Streamers /\ x \in {"live", "dropping"}
                   THEN Counted \cup {p} ELSE Counted \ {p}
  BY <1>1 DEF Counted
<1>4. Seated' = IF /\ p \in Listeners
                   /\ x \in {"lookup", "hit", "miss", "inserted",
                             "overflow", "live", "dropping"}
                  THEN Seated \cup {p} ELSE Seated \ {p}
  BY <1>1 DEF Seated
<1>5. QED
  BY <1>2, <1>3, <1>4

(* A move that changes no counter and takes or gives back no place.        *)
SamePlaces(p, x) ==
  /\ pc[p] = "idle" <=> x = "idle"
  /\ p \in Counted <=> p \in Streamers /\ x \in {"live", "dropping"}
  /\ p \in Seated <=> /\ p \in Listeners
                      /\ x \in {"lookup", "hit", "miss", "inserted",
                                "overflow", "live", "dropping"}

LEMMA CountersKept ==
  ASSUME TypeInv, CountersExact, NEW p \in Procs, NEW x, Goto(p, x),
         SamePlaces(p, x), UNCHANGED counters
  PROVE  CountersExact'
<1>1. Connected' = Connected /\ Counted' = Counted /\ Seated' = Seated
  <2>1. p \in Connected <=> x # "idle"
    BY DEF SamePlaces, Connected
  <2>2. pc \in [Procs -> Locations]
    BY DEF TypeInv, Shape
  <2>3. /\ Connected' = IF x # "idle" THEN Connected \cup {p} ELSE Connected \ {p}
        /\ Counted' = IF p \in Counted THEN Counted \cup {p} ELSE Counted \ {p}
        /\ Seated' = IF p \in Seated THEN Seated \cup {p} ELSE Seated \ {p}
    BY <2>2, HoldersMove DEF SamePlaces
  <2>4. QED
    BY <2>1, <2>3
<1>2. QED
  BY <1>1 DEF CountersExact, counters, Within

LEMMA CountersInit == Init => CountersExact
<1> SUFFICES ASSUME Init PROVE CountersExact
  OBVIOUS
<1>1. Connected = {} /\ Counted = {} /\ Seated = {}
  BY DEF Init, Connected, Counted, Seated, Procs
<1>2. QED
  BY <1>1, FS_EmptySet, LimitsAssumption DEF Init, CountersExact, Within

LEMMA CountersStep == TypeInv /\ CountersExact /\ [Next]_vars => CountersExact'
<1> SUFFICES ASSUME TypeInv, CountersExact, [Next]_vars PROVE CountersExact'
  OBVIOUS
<1>a. /\ pc \in [Procs -> Locations]
      /\ \A p \in Procs : resume[p] \in {"connected", "closing"}
      /\ active_connections \in Nat /\ active_streamers \in Nat /\ active_listeners \in Nat
  BY HolderTypes, FiniteSessions DEF TypeInv, Shape, CountersExact
<1>b. /\ \A s \in Streamers : s \in Procs /\ s \notin Listeners
      /\ \A l \in Listeners : l \in Procs /\ l \notin Streamers
  BY ProcsAssumption DEF Procs
<1>c. \A p \in Procs : pc[p] \in {"sweep", "sweep2", "sweep3"} => SamePlaces(p, resume[p])
  BY <1>a DEF SamePlaces, Counted, Seated
<1> USE DEF At
<1>1. ASSUME NEW p \in Procs, Connect(p) PROVE CountersExact'
  <2>1. /\ Goto(p, "connected") /\ p \notin Connected /\ p \notin Counted /\ p \notin Seated
    BY <1>1 DEF Connect, Connected, Counted, Seated
  <2>2. Connected' = Connected \cup {p} /\ Counted' = Counted /\ Seated' = Seated
    BY <2>1, <1>a, HoldersMove
  <2>3. active_connections' = Cardinality(Connected') /\ Within(MaxConnections, active_connections')
    BY <1>1, <1>a, <2>1, <2>2, JoinCount, HolderTypes, RoomForOne, LimitsAssumption
    DEF Connect, CountersExact
  <2>4. QED
    BY <1>1, <2>2, <2>3 DEF Connect, CountersExact, Within
<1>2. ASSUME NEW p \in Procs, Lookup(p) PROVE CountersExact'
  <2>1. SamePlaces(p, "hit") /\ SamePlaces(p, "miss")
    BY <1>2, <1>b DEF Lookup, SamePlaces, Counted, Seated, Procs
  <2>2. QED
    BY <1>2, <2>1, CountersKept DEF Lookup
<1>3. ASSUME NEW p \in Procs, FindOrInsert(p) PROVE CountersExact'
  <2>1. SamePlaces(p, "inserted")
    BY <1>3, <1>b DEF FindOrInsert, SamePlaces, Counted, Seated, Procs
  <2>2. QED
    BY <1>3, <2>1, CountersKept DEF FindOrInsert
<1>4. ASSUME NEW p \in Procs, SweepLoadStreamer(p) PROVE CountersExact'
  <2>1. SamePlaces(p, "sweep2") /\ SamePlaces(p, resume[p])
    BY <1>4, <1>b, <1>c DEF SweepLoadStreamer, SamePlaces, Counted, Seated
  <2>2. QED
    BY <1>4, <2>1, CountersKept DEF SweepLoadStreamer, SweepDone
<1>5. ASSUME NEW p \in Procs, SweepLoadListeners(p) PROVE CountersExact'
  <2>1. SamePlaces(p, "sweep3") /\ SamePlaces(p, resume[p])
    BY <1>5, <1>b, <1>c DEF SweepLoadListeners, SamePlaces, Counted, Seated
  <2>2. QED
    BY <1>5, <2>1, CountersKept DEF SweepLoadListeners, SweepDone
<1>6. ASSUME NEW p \in Procs, SweepRemove(p) PROVE CountersExact'
  BY <1>6, <1>c, CountersKept DEF SweepRemove, SweepDone
<1>7. ASSUME NEW p \in Procs, Disconnect(p) PROVE CountersExact'
  <2>1. /\ Goto(p, "idle") /\ p \in Connected /\ p \notin Counted /\ p \notin Seated
    BY <1>7 DEF Disconnect, Connected, Counted, Seated
  <2>2. Connected' = Connected \ {p} /\ Counted' = Counted /\ Seated' = Seated
    BY <2>1, <1>a, HoldersMove
  <2>3. active_connections' = Cardinality(Connected') /\ Within(MaxConnections, active_connections')
    BY <1>7, <1>a, <2>1, <2>2, LeaveCount, HolderTypes, OneLess, LimitsAssumption
    DEF Disconnect, CountersExact
  <2>4. QED
    BY <1>7, <2>2, <2>3 DEF Disconnect, CountersExact, Within
<1>8. ASSUME NEW s \in Streamers, NEW k \in Keys, Publish(s, k) PROVE CountersExact'
  <2>1. SamePlaces(s, "lookup")
    BY <1>8, <1>b DEF Publish, SamePlaces, Counted, Seated
  <2>2. QED
    BY <1>8, <1>b, <2>1, CountersKept DEF Publish
<1>9. ASSUME NEW s \in Streamers, ReserveStreamer(s) PROVE CountersExact'
  <2>1. SamePlaces(s, "flagged") /\ SamePlaces(s, "closing")
    BY <1>9, <1>b DEF ReserveStreamer, Reserving, SamePlaces, Counted, Seated
  <2>2. QED
    BY <1>9, <1>b, <2>1, CountersKept DEF ReserveStreamer
<1>10. ASSUME NEW s \in Streamers, CountStreamer(s) PROVE CountersExact'
  <2>1. s \in Procs /\ s \in Connected /\ s \notin Counted /\ s \notin Seated
    BY <1>10, <1>b DEF CountStreamer, Connected, Counted, Seated
  <2>2. CASE LimitAllows(MaxStreamers, active_streamers)
    <3>1. Goto(s, "live") /\ active_streamers' = active_streamers + 1
      BY <1>10, <2>2 DEF CountStreamer
    <3>2. Connected' = Connected /\ Counted' = Counted \cup {s} /\ Seated' = Seated
      BY <2>1, <3>1, <1>a, <1>b, HoldersMove
    <3>3. active_streamers' = Cardinality(Counted') /\ Within(MaxStreamers, active_streamers')
      BY <1>a, <2>1, <2>2, <3>1, <3>2, JoinCount, HolderTypes, RoomForOne, LimitsAssumption
      DEF CountersExact
    <3>4. QED
      BY <1>10, <3>2, <3>3 DEF CountStreamer, CountersExact, Within
  <2>3. CASE ~LimitAllows(MaxStreamers, active_streamers)
    <3>1. SamePlaces(s, "sweep")
      BY <1>10, <2>1, <1>b DEF CountStreamer, SamePlaces
    <3>2. QED
      BY <1>10, <2>1, <2>3, <3>1, CountersKept DEF CountStreamer, counters
  <2>4. QED
    BY <2>2, <2>3
<1>11. ASSUME NEW s \in Streamers, DropStreamer(s) PROVE CountersExact'
  <2>1. SamePlaces(s, "dropping")
    BY <1>11, <1>b DEF DropStreamer, SamePlaces, Counted, Seated
  <2>2. QED
    BY <1>11, <1>b, <2>1, CountersKept DEF DropStreamer
<1>12. ASSUME NEW s \in Streamers, UncountStreamer(s) PROVE CountersExact'
  <2>1. s \in Procs /\ Goto(s, "sweep") /\ s \in Connected /\ s \in Counted /\ s \notin Seated
    BY <1>12, <1>b DEF UncountStreamer, Connected, Counted, Seated
  <2>2. Connected' = Connected /\ Counted' = Counted \ {s} /\ Seated' = Seated
    BY <2>1, <1>a, HoldersMove
  <2>3. active_streamers' = Cardinality(Counted') /\ Within(MaxStreamers, active_streamers')
    BY <1>12, <1>a, <2>1, <2>2, LeaveCount, HolderTypes, OneLess, LimitsAssumption
    DEF UncountStreamer, CountersExact
  <2>4. QED
    BY <1>12, <2>2, <2>3 DEF UncountStreamer, CountersExact, Within
<1>13. ASSUME NEW l \in Listeners, NEW k \in Keys, Subscribe(l, k) PROVE CountersExact'
  <2>1. l \in Procs /\ Goto(l, "lookup") /\ l \in Connected /\ l \notin Counted /\ l \notin Seated
    BY <1>13, <1>b DEF Subscribe, Connected, Counted, Seated
  <2>2. Connected' = Connected /\ Counted' = Counted /\ Seated' = Seated \cup {l}
    BY <2>1, <1>a, HoldersMove
  <2>3. active_listeners' = Cardinality(Seated') /\ Within(MaxListenersTotal, active_listeners')
    BY <1>13, <1>a, <2>1, <2>2, JoinCount, HolderTypes, RoomForOne, LimitsAssumption
    DEF Subscribe, CountersExact
  <2>4. QED
    BY <1>13, <2>2, <2>3 DEF Subscribe, CountersExact, Within
<1>14. ASSUME NEW l \in Listeners, ReserveListener(l) PROVE CountersExact'
  <2>1. SamePlaces(l, "live") /\ SamePlaces(l, "overflow")
    BY <1>14, <1>b DEF ReserveListener, Reserving, SamePlaces, Counted, Seated
  <2>2. QED
    BY <1>14, <1>b, <2>1, CountersKept DEF ReserveListener
<1>15. ASSUME NEW l \in Listeners, Uncount(l) PROVE CountersExact'
  <2>1. l \in Procs /\ Goto(l, "sweep") /\ l \in Connected /\ l \notin Counted /\ l \in Seated
    BY <1>15, <1>b DEF Uncount, Connected, Counted, Seated
  <2>2. Connected' = Connected /\ Counted' = Counted /\ Seated' = Seated \ {l}
    BY <2>1, <1>a, HoldersMove
  <2>3. active_listeners' = Cardinality(Seated') /\ Within(MaxListenersTotal, active_listeners')
    BY <1>15, <1>a, <2>1, <2>2, LeaveCount, HolderTypes, OneLess, LimitsAssumption
    DEF Uncount, CountersExact
  <2>4. QED
    BY <1>15, <2>2, <2>3 DEF Uncount, CountersExact, Within
<1>16. ASSUME NEW l \in Listeners, DropListener(l) PROVE CountersExact'
  <2>1. SamePlaces(l, "dropping")
    BY <1>16, <1>b DEF DropListener, SamePlaces, Counted, Seated
  <2>2. QED
    BY <1>16, <1>b, <2>1, CountersKept DEF DropListener
<1>17. ASSUME NEW l \in Listeners, UncountListener(l) PROVE CountersExact'
  <2>1. l \in Procs /\ Goto(l, "sweep") /\ l \in Connected /\ l \notin Counted /\ l \in Seated
    BY <1>17, <1>b DEF UncountListener, Connected, Counted, Seated
  <2>2. Connected' = Connected /\ Counted' = Counted /\ Seated' = Seated \ {l}
    BY <2>1, <1>a, HoldersMove
  <2>3. active_listeners' = Cardinality(Seated') /\ Within(MaxListenersTotal, active_listeners')
    BY <1>17, <1>a, <2>1, <2>2, LeaveCount, HolderTypes, OneLess, LimitsAssumption
    DEF UncountListener, CountersExact
  <2>4. QED
    BY <1>17, <2>2, <2>3 DEF UncountListener, CountersExact, Within
<1>18. ASSUME NEW l \in Listeners, HangUp(l) PROVE CountersExact'
  <2>1. SamePlaces(l, "closing")
    BY <1>18, <1>b DEF HangUp, SamePlaces, Counted, Seated
  <2>2. QED
    BY <1>18, <1>b, <2>1, CountersKept DEF HangUp
<1>19. CASE UNCHANGED vars
  BY <1>19 DEF vars, counters, CountersExact, Connected, Counted, Seated, Within
<1>20. QED
  BY <1>1, <1>2, <1>3, <1>4, <1>5, <1>6, <1>7, <1>8, <1>9, <1>10, <1>11, <1>12,
     <1>13, <1>14, <1>15, <1>16, <1>17, <1>18, <1>19
  DEF Next, Shared, StreamerStep, ListenerStep
-----------------------------------------------------------------------------
LEMMA LockInit == Init => LockInv
  BY ProcsAssumption DEF Init, LockInv, Procs

LEMMA LockStepKeeps == TypeInv /\ LockInv /\ [Next]_vars => LockInv'
<1> SUFFICES ASSUME TypeInv, LockInv, [Next]_vars PROVE LockInv'
  OBVIOUS
<1>a. /\ pc \in [Procs -> Locations] /\ None \notin Procs
      /\ \A p \in Procs : resume[p] \in {"connected", "closing"}
      /\ \A s \in Streamers : s \in Procs
      /\ \A l \in Listeners : l \in Procs
  BY ProcsAssumption DEF TypeInv, Shape, Procs
<1> USE <1>a DEF LockInv, At, Goto, lock
<1>1. ASSUME NEW p \in Procs, NEW x, Goto(p, x), UNCHANGED lock,
             pc[p] \notin {"hit", "inserted"}, x \notin {"hit", "inserted"}
      PROVE  LockInv'
  BY <1>1
<1>2. ASSUME NEW p \in Procs, Lookup(p) PROVE LockInv'
  BY <1>2 DEF Lookup, CanRead
<1>3. ASSUME NEW p \in Procs, FindOrInsert(p) PROVE LockInv'
  BY <1>3 DEF FindOrInsert, CanWrite
<1>4. ASSUME NEW p \in Procs, Reserving(p), Unlock(p), NEW x, Goto(p, x),
             x \notin {"hit", "inserted"}
      PROVE  LockInv'
  BY <1>4 DEF Reserving, Unlock
<1>5. ASSUME NEW p \in Procs, Shared(p) PROVE LockInv'
  BY <1>1, <1>2, <1>3, <1>5
  DEF Shared, Connect, SweepLoadStreamer, SweepLoadListeners, SweepRemove, SweepDone, Disconnect
<1>6. ASSUME NEW s \in Streamers, StreamerStep(s) PROVE LockInv'
  BY <1>1, <1>4, <1>6
  DEF StreamerStep, Publish, ReserveStreamer, CountStreamer, DropStreamer, UncountStreamer
<1>7. ASSUME NEW l \in Listeners, ListenerStep(l) PROVE LockInv'
  BY <1>1, <1>4, <1>7
  DEF ListenerStep, Subscribe, ReserveListener, Uncount, DropListener, UncountListener, HangUp
<1>8. CASE UNCHANGED vars
  BY <1>8 DEF vars
<1>9. QED
  BY <1>5, <1>6, <1>7, <1>8 DEF Next
-----------------------------------------------------------------------------
(* A channel is flagged by one streamer at a time.                         *)
OneFlag ==
  \A s, t \in Streamers :
    /\ pc[s] \in {"flagged", "live"}
    /\ pc[t] \in {"flagged", "live"}
    /\ chan[s] = chan[t]
    => s = t

ChannelInv == ChannelExact /\ OneFlag /\ NoOrphan

LEMMA UserTypes ==
  \A c : Flagging(c) \in SUBSET Procs /\ Listening(c) \in SUBSET Procs
  BY DEF Flagging, Listening, Procs

(* Only the session that moves may change the object it works with.        *)
Moves(p, x) ==
  /\ Goto(p, x)
  /\ \A q \in Procs \ {p} : chan'[q] = chan[q] /\ key'[q] = key[q]

LEMMA UsersMove ==
  ASSUME pc \in [Procs -> Locations], NEW p \in Procs, NEW x, Moves(p, x), NEW c
  PROVE
    /\ Flagging(c)' = IF p \in Streamers /\ x \in {"flagged", "live"} /\ chan'[p] = c
                        THEN Flagging(c) \cup {p} ELSE Flagging(c) \ {p}
    /\ Listening(c)' = IF p \in Listeners /\ x = "live" /\ chan'[p] = c
                         THEN Listening(c) \cup {p} ELSE Listening(c) \ {p}
<1>1. \A q \in Procs : /\ pc'[q] = IF q = p THEN x ELSE pc[q]
                       /\ q # p => chan'[q] = chan[q]
  BY DEF Moves, Goto
<1>2. Flagging(c)' = IF p \in Streamers /\ x \in {"flagged", "live"} /\ chan'[p] = c
                       THEN Flagging(c) \cup {p} ELSE Flagging(c) \ {p}
  BY <1>1 DEF Flagging, Procs
<1>3. Listening(c)' = IF p \in Listeners /\ x = "live" /\ chan'[p] = c
                        THEN Listening(c) \cup {p} ELSE Listening(c) \ {p}
  BY <1>1 DEF Listening, Procs
<1>4. QED
  BY <1>2, <1>3

(* A session that neither held a reservation nor gets one.                 *)
Bystander(p, x) ==
  /\ p \in Streamers => pc[p] \notin {"flagged", "live"} /\ x \notin {"flagged", "live"}
  /\ p \in Listeners => pc[p] # "live" /\ x # "live"

LEMMA ChannelKept ==
  ASSUME TypeInv, ChannelExact, OneFlag, NEW p \in Procs, NEW x, Moves(p, x),
         Bystander(p, x), UNCHANGED object
  PROVE  ChannelExact' /\ OneFlag'
<1>1. pc \in [Procs -> Locations]
  BY DEF TypeInv, Shape
<1>2. \A c : Flagging(c)' = Flagging(c) /\ Listening(c)' = Listening(c)
  <2> TAKE c
  <2>1. p \notin Flagging(c) /\ p \notin Listening(c)
    BY DEF Bystander, Flagging, Listening
  <2>2. /\ Flagging(c)' = Flagging(c) \ {p}
        /\ Listening(c)' = Listening(c) \ {p}
    BY <1>1, UsersMove DEF Bystander
  <2>3. QED
    BY <2>1, <2>2
<1>3. ChannelExact'
  BY <1>2 DEF ChannelExact, object, Within
<1>4. OneFlag'
  BY <1>1 DEF OneFlag, Moves, Goto, Bystander, Procs
<1>5. QED
  BY <1>3, <1>4

Using == {"hit", "inserted", "flagged", "live"}

LEMMA OrphanKept ==
  ASSUME TypeInv, NoOrphan, NEW p \in Procs, NEW x, Moves(p, x),
         UNCHANGED channels, x \in Using => channels[key'[p]] = chan'[p]
  PROVE  NoOrphan'
  BY DEF TypeInv, Shape, NoOrphan, Moves, Goto, Using

LEMMA ChannelInit == Init => ChannelInv
<1> SUFFICES ASSUME Init PROVE ChannelInv
  OBVIOUS
<1>1. \A c : Flagging(c) = {} /\ Listening(c) = {}
  BY DEF Init, Flagging, Listening, Procs
<1>2. ChannelExact
  BY <1>1, FS_EmptySet, LimitsAssumption DEF Init, ChannelExact, Within
<1>3. OneFlag /\ NoOrphan
  BY DEF Init, OneFlag, NoOrphan, Procs
<1>4. QED
  BY <1>2, <1>3 DEF ChannelInv

(* A key that is reserved or being reserved is not removed: its sweeper    *)
(* finds the reservation when it re-checks under the write lock.           *)
LEMMA RemovalIsSafe ==
  ASSUME TypeInv, LockInv, ChannelInv, NEW p \in Procs, SweepRemove(p), Removable(p),
         NEW q \in Procs, q # p, pc[q] \in Using
  PROVE  key[q] # key[p]
<1> SUFFICES ASSUME key[q] = key[p] PROVE FALSE
  OBVIOUS
<1>1. chan[q] = chan[p] /\ chan[p] \in Chans
  BY DEF ChannelInv, NoOrphan, Using, Removable, TypeInv, LocalInv, Placed, SweepRemove, At
<1>2. pc[q] \in {"flagged", "live"}
  BY ProcsAssumption DEF SweepRemove, CanWrite, LockInv, Using
<1>3. CASE q \in Streamers
  BY <1>1, <1>2, <1>3 DEF ChannelInv, ChannelExact, Flagging, Removable
<1>4. CASE q \in Listeners
  <2>1. q \in Listening(chan[p])
    BY <1>1, <1>2, <1>4 DEF Listening, TypeInv, LocalInv
  <2>2. Cardinality(Listening(chan[p])) = 0
    BY <1>1 DEF ChannelInv, ChannelExact, Removable
  <2>3. Listening(chan[p]) = {}
    BY <2>2, UserTypes, FiniteSessions, FS_EmptySet
  <2>4. QED
    BY <2>1, <2>3
<1>5. QED
  BY <1>3, <1>4 DEF Procs

(* An address nobody uses carries no reservation, so the fields a new      *)
(* Channel starts with are the ones the address already had.               *)
LEMMA FreshIsUnused ==
  ASSUME TypeInv, ChannelExact, NEW c \in Chans, Fresh(c)
  PROVE  ~streamer[c] /\ listeners[c] = 0
<1>1. Flagging(c) = {} /\ Listening(c) = {}
  BY DEF Fresh, Flagging, Listening, Procs
<1>2. QED
  BY <1>1, FS_EmptySet DEF ChannelExact

LEMMA ChannelStep == TypeInv /\ LockInv /\ ChannelInv /\ [Next]_vars => ChannelInv'
<1> SUFFICES ASSUME TypeInv, LockInv, ChannelInv, [Next]_vars PROVE ChannelInv'
  OBVIOUS
<1>a. /\ pc \in [Procs -> Locations]
      /\ chan \in [Procs -> Chans \cup {None}] /\ key \in [Procs -> Keys \cup {None}]
      /\ channels \in [Keys -> Chans \cup {None}]
      /\ streamer \in [Chans -> BOOLEAN] /\ listeners \in [Chans -> Int]
      /\ \A p \in Procs : resume[p] \in {"connected", "closing"}
  BY DEF TypeInv, Shape
<1>b. /\ \A s \in Streamers : s \in Procs /\ s \notin Listeners
      /\ \A l \in Listeners : l \in Procs /\ l \notin Streamers
      /\ None \notin Chans
  BY ProcsAssumption DEF Procs
<1>c. /\ \A p \in Procs : Placed(p) => chan[p] \in Chans /\ key[p] \in Keys
      /\ \A p \in Procs : pc[p] \in {"lookup", "miss"} => key[p] \in Keys
  BY DEF TypeInv, LocalInv
<1>d. ChannelExact /\ OneFlag /\ NoOrphan
  BY DEF ChannelInv
<1>e. \A c \in Chans : Cardinality(Listening(c)) \in Nat
  BY UserTypes, FiniteSessions
<1>0. ASSUME NEW p \in Procs, NEW x, Moves(p, x), Bystander(p, x), x \notin Using,
             UNCHANGED <<channels, object>>
      PROVE  ChannelInv'
  <2>1. ChannelExact' /\ OneFlag'
    BY <1>0, <1>d, ChannelKept
  <2>2. NoOrphan'
    BY <1>0, <1>d, OrphanKept
  <2>3. QED
    BY <2>1, <2>2 DEF ChannelInv
<1> USE DEF At
<1>1. ASSUME NEW p \in Procs, Connect(p) PROVE ChannelInv'
  BY <1>0, <1>1 DEF Connect, Moves, Bystander, Using, local
<1>2. ASSUME NEW p \in Procs, Lookup(p) PROVE ChannelInv'
  <2>1. CASE channels[key[p]] = None
    <3>1. Moves(p, "miss") /\ Bystander(p, "miss") /\ UNCHANGED <<channels, object>>
      BY <1>2, <2>1 DEF Lookup, Moves, Bystander
    <3>2. QED
      BY <1>0, <3>1 DEF Using
  <2>2. CASE channels[key[p]] # None
    <3>1. Moves(p, "hit") /\ Bystander(p, "hit") /\ UNCHANGED <<channels, object>>
      BY <1>2, <1>a, <2>2 DEF Lookup, Moves, Bystander
    <3>2. channels[key'[p]] = chan'[p]
      BY <1>2, <1>a, <2>2 DEF Lookup
    <3>3. QED
      BY <1>d, <3>1, <3>2, ChannelKept, OrphanKept DEF ChannelInv
  <2>3. QED
    BY <2>1, <2>2
<1>3. ASSUME NEW p \in Procs, FindOrInsert(p) PROVE ChannelInv'
  <2>1. Moves(p, "inserted") /\ Bystander(p, "inserted") /\ key[p] \in Keys
    BY <1>3, <1>a, <1>c DEF FindOrInsert, Moves, Bystander
  <2>2. CASE channels[key[p]] # None
    <3>1. UNCHANGED <<channels, object>> /\ channels[key'[p]] = chan'[p]
      BY <1>3, <1>a, <2>2 DEF FindOrInsert
    <3>2. QED
      BY <1>d, <2>1, <3>1, ChannelKept, OrphanKept DEF ChannelInv
  <2>3. CASE channels[key[p]] = None
    <3>1. PICK c \in Chans :
            /\ Fresh(c)
            /\ channels' = [channels EXCEPT ![key[p]] = c]
            /\ streamer' = [streamer EXCEPT ![c] = FALSE]
            /\ listeners' = [listeners EXCEPT ![c] = 0]
            /\ chan' = [chan EXCEPT ![p] = c]
      BY <1>3, <2>3 DEF FindOrInsert
    <3>2. UNCHANGED object
      <4>1. ~streamer[c] /\ listeners[c] = 0
        BY <1>d, <3>1, FreshIsUnused
      <4>2. streamer' = streamer /\ listeners' = listeners
        BY <1>a, <3>1, <4>1
      <4>3. QED
        BY <4>2 DEF object
    <3>3. ChannelExact' /\ OneFlag'
      BY <1>d, <2>1, <3>2, ChannelKept
    <3>4. NoOrphan'
      <4> SUFFICES ASSUME NEW q \in Procs, pc'[q] \in Using
                   PROVE  channels'[key'[q]] = chan'[q]
        BY DEF NoOrphan, Using
      <4>1. CASE q = p
        BY <1>3, <1>a, <2>1, <3>1, <4>1 DEF FindOrInsert
      <4>2. CASE q # p
        <5>1. pc[q] \in Using /\ key'[q] = key[q] /\ chan'[q] = chan[q]
          BY <1>a, <2>1, <4>2 DEF Moves, Goto
        <5>2. channels[key[q]] = chan[q] /\ chan[q] \in Chans /\ key[q] \in Keys
          BY <1>c, <1>d, <5>1 DEF NoOrphan, Using, Placed
        <5>3. key[q] # key[p]
          BY <1>b, <2>3, <5>2
        <5>4. QED
          BY <1>a, <3>1, <5>1, <5>2, <5>3
      <4>3. QED
        BY <4>1, <4>2
    <3>5. QED
      BY <3>3, <3>4 DEF ChannelInv
  <2>4. QED
    BY <2>2, <2>3
<1>4. ASSUME NEW p \in Procs, SweepLoadStreamer(p) PROVE ChannelInv'
  <2>1. PICK x \in {"sweep2", "connected", "closing"} : Moves(p, x)
    BY <1>4, <1>a DEF SweepLoadStreamer, SweepDone, Moves
  <2>2. QED
    BY <1>0, <1>4, <2>1 DEF SweepLoadStreamer, Bystander, Using
<1>5. ASSUME NEW p \in Procs, SweepLoadListeners(p) PROVE ChannelInv'
  <2>1. PICK x \in {"sweep3", "connected", "closing"} : Moves(p, x)
    BY <1>5, <1>a DEF SweepLoadListeners, SweepDone, Moves
  <2>2. QED
    BY <1>0, <1>5, <2>1 DEF SweepLoadListeners, Bystander, Using
<1>6. ASSUME NEW p \in Procs, SweepRemove(p) PROVE ChannelInv'
  <2>1. PICK x \in {"connected", "closing"} : Moves(p, x)
    BY <1>6, <1>a DEF SweepRemove, SweepDone, Moves
  <2>2. Bystander(p, x) /\ UNCHANGED object /\ x \notin Using
    BY <1>6, <2>1 DEF SweepRemove, Bystander, Using
  <2>3. CASE ~Removable(p)
    BY <1>0, <1>6, <2>1, <2>2, <2>3 DEF SweepRemove
  <2>4. CASE Removable(p)
    <3>1. ChannelExact' /\ OneFlag'
      BY <1>d, <2>1, <2>2, ChannelKept
    <3>2. NoOrphan'
      <4> SUFFICES ASSUME NEW q \in Procs, pc'[q] \in Using
                   PROVE  channels'[key'[q]] = chan'[q]
        BY DEF NoOrphan, Using
      <4>1. q # p /\ pc[q] \in Using /\ key'[q] = key[q] /\ chan'[q] = chan[q]
        BY <1>a, <2>1, <2>2 DEF Moves, Goto
      <4>2. key[q] # key[p]
        BY <1>6, <2>4, <4>1, RemovalIsSafe
      <4>3. channels' = [channels EXCEPT ![key[p]] = None]
        BY <1>6, <2>4 DEF SweepRemove
      <4>4. channels[key[q]] = chan[q] /\ key[q] \in Keys
        BY <1>c, <1>d, <4>1 DEF NoOrphan, Using, Placed
      <4>5. QED
        BY <1>a, <4>1, <4>2, <4>3, <4>4
    <3>3. QED
      BY <3>1, <3>2 DEF ChannelInv
  <2>5. QED
    BY <2>3, <2>4
<1>7. ASSUME NEW p \in Procs, Disconnect(p) PROVE ChannelInv'
  BY <1>0, <1>7 DEF Disconnect, Moves, Bystander, Using, local
<1>8. ASSUME NEW s \in Streamers, NEW k \in Keys, Publish(s, k) PROVE ChannelInv'
  <2>1. Moves(s, "lookup") /\ Bystander(s, "lookup")
    BY <1>8, <1>a, <1>b DEF Publish, Moves, Bystander
  <2>2. QED
    BY <1>0, <1>8, <1>b, <2>1 DEF Publish, Using
<1>9. ASSUME NEW s \in Streamers, ReserveStreamer(s) PROVE ChannelInv'
  <2>1. /\ chan[s] \in Chans /\ key[s] \in Keys /\ s \in Procs
        /\ channels[key[s]] = chan[s] /\ pc[s] \notin {"flagged", "live"}
    BY <1>9, <1>b, <1>c, <1>d DEF ReserveStreamer, Reserving, NoOrphan, Placed
  <2>2. CASE pc'[s] = "flagged"
    <3>1. /\ ~streamer[chan[s]]
          /\ streamer' = [streamer EXCEPT ![chan[s]] = TRUE]
          /\ Moves(s, "flagged") /\ UNCHANGED <<key, chan>>
      BY <1>9, <1>a, <2>1, <2>2 DEF ReserveStreamer, Moves, Goto
    <3>2. Flagging(chan[s]) = {}
      BY <1>d, <2>1, <3>1 DEF ChannelExact
    <3>3. \A c : /\ Flagging(c)' = IF c = chan[s] THEN {s} ELSE Flagging(c)
                 /\ Listening(c)' = Listening(c)
      <4> TAKE c
      <4>1. s \notin Flagging(c) /\ s \notin Listening(c)
        BY <1>b, <2>1 DEF Flagging, Listening
      <4>2. /\ Flagging(c)' = IF chan[s] = c THEN Flagging(c) \cup {s} ELSE Flagging(c) \ {s}
            /\ Listening(c)' = Listening(c) \ {s}
        BY <1>a, <1>b, <2>1, <3>1, UsersMove
      <4>3. QED
        BY <3>2, <4>1, <4>2
    <3>4. ChannelExact'
      BY <1>9, <1>a, <1>d, <2>1, <3>1, <3>3 DEF ReserveStreamer, ChannelExact, Within
    <3>5. OneFlag'
      <4> SUFFICES ASSUME NEW t \in Streamers, t # s, pc'[t] \in {"flagged", "live"},
                          chan'[t] = chan'[s]
                   PROVE  FALSE
        BY <1>a, <1>b, <1>d, <3>1 DEF OneFlag, Moves, Goto
      <4>1. t \in Flagging(chan[s])
        BY <1>a, <1>b, <3>1 DEF Flagging, Moves, Goto
      <4>2. QED
        BY <3>2, <4>1
    <3>6. NoOrphan'
      BY <1>9, <1>d, <2>1, <3>1, OrphanKept DEF ReserveStreamer
    <3>7. QED
      BY <3>4, <3>5, <3>6 DEF ChannelInv
  <2>3. CASE pc'[s] # "flagged"
    <3>1. Moves(s, "closing") /\ Bystander(s, "closing") /\ UNCHANGED <<channels, object>>
      BY <1>9, <1>a, <1>b, <2>1, <2>3 DEF ReserveStreamer, Moves, Goto, Bystander, object
    <3>2. QED
      BY <1>0, <2>1, <3>1 DEF Using
  <2>4. QED
    BY <2>2, <2>3
<1>10. ASSUME NEW s \in Streamers, CountStreamer(s) PROVE ChannelInv'
  <2>1. /\ chan[s] \in Chans /\ key[s] \in Keys /\ s \in Procs
        /\ channels[key[s]] = chan[s] /\ pc[s] = "flagged"
        /\ UNCHANGED <<key, chan, channels, listeners>>
    BY <1>10, <1>b, <1>c, <1>d DEF CountStreamer, NoOrphan, Placed
  <2>2. CASE pc'[s] = "live"
    <3>1. Moves(s, "live") /\ UNCHANGED streamer
      BY <1>10, <1>a, <2>1, <2>2 DEF CountStreamer, Moves, Goto
    <3>2. \A c : Flagging(c)' = Flagging(c) /\ Listening(c)' = Listening(c)
      BY <1>a, <1>b, <2>1, <3>1 DEF Flagging, Listening, Moves, Goto
    <3>3. ChannelExact'
      BY <1>d, <2>1, <3>1, <3>2 DEF ChannelExact, Within
    <3>4. OneFlag'
      BY <1>a, <1>d, <2>1, <3>1 DEF OneFlag, Moves, Goto
    <3>5. NoOrphan'
      BY <1>d, <2>1, <3>1, OrphanKept
    <3>6. QED
      BY <3>3, <3>4, <3>5 DEF ChannelInv
  <2>3. CASE pc'[s] # "live"
    <3>1. Moves(s, "sweep") /\ streamer' = [streamer EXCEPT ![chan[s]] = FALSE]
      BY <1>10, <1>a, <2>1, <2>3 DEF CountStreamer, Moves, Goto
    <3>2. \A c : /\ Flagging(c)' = Flagging(c) \ {s}
                 /\ Listening(c)' = Listening(c) \ {s}
      BY <1>a, <1>b, <2>1, <3>1, UsersMove
    <3>3. \A c : /\ Flagging(c)' = IF c = chan[s] THEN {} ELSE Flagging(c)
                 /\ Listening(c)' = Listening(c)
      BY <1>b, <1>d, <2>1, <3>2 DEF Flagging, Listening, OneFlag
    <3>4. ChannelExact'
      BY <1>a, <1>d, <2>1, <3>1, <3>3 DEF ChannelExact, Within
    <3>5. OneFlag'
      BY <1>a, <1>d, <2>1, <3>1 DEF OneFlag, Moves, Goto
    <3>6. NoOrphan'
      BY <1>d, <2>1, <3>1, OrphanKept DEF Using
    <3>7. QED
      BY <3>4, <3>5, <3>6 DEF ChannelInv
  <2>4. QED
    BY <2>2, <2>3
<1>11. ASSUME NEW s \in Streamers, DropStreamer(s) PROVE ChannelInv'
  <2>1. /\ chan[s] \in Chans /\ s \in Procs /\ pc[s] = "live"
        /\ UNCHANGED <<key, chan, channels, listeners>>
        /\ streamer' = [streamer EXCEPT ![chan[s]] = FALSE]
        /\ Moves(s, "dropping")
    BY <1>11, <1>b, <1>c DEF DropStreamer, Placed, Moves
  <2>2. \A c : /\ Flagging(c)' = Flagging(c) \ {s}
               /\ Listening(c)' = Listening(c) \ {s}
    BY <1>a, <1>b, <2>1, UsersMove
  <2>3. \A c : /\ Flagging(c)' = IF c = chan[s] THEN {} ELSE Flagging(c)
               /\ Listening(c)' = Listening(c)
    BY <1>b, <1>d, <2>1, <2>2 DEF Flagging, Listening, OneFlag
  <2>4. ChannelExact'
    BY <1>a, <1>d, <2>1, <2>3 DEF ChannelExact, Within
  <2>5. OneFlag'
    BY <1>a, <1>d, <2>1 DEF OneFlag, Moves, Goto
  <2>6. NoOrphan'
    BY <1>d, <2>1, OrphanKept DEF Using
  <2>7. QED
    BY <2>4, <2>5, <2>6 DEF ChannelInv
<1>12. ASSUME NEW s \in Streamers, UncountStreamer(s) PROVE ChannelInv'
  <2>1. Moves(s, "sweep") /\ Bystander(s, "sweep")
    BY <1>12, <1>b DEF UncountStreamer, Moves, Bystander, local
  <2>2. QED
    BY <1>0, <1>12, <1>b, <2>1 DEF UncountStreamer, Using
<1>13. ASSUME NEW l \in Listeners, NEW k \in Keys, Subscribe(l, k) PROVE ChannelInv'
  <2>1. Moves(l, "lookup") /\ Bystander(l, "lookup")
    BY <1>13, <1>a, <1>b DEF Subscribe, Moves, Bystander
  <2>2. QED
    BY <1>0, <1>13, <1>b, <2>1 DEF Subscribe, Using
<1>14. ASSUME NEW l \in Listeners, ReserveListener(l) PROVE ChannelInv'
  <2>1. /\ chan[l] \in Chans /\ key[l] \in Keys /\ l \in Procs
        /\ channels[key[l]] = chan[l] /\ pc[l] # "live" /\ listeners[chan[l]] \in Nat
        /\ UNCHANGED <<key, chan, channels, streamer>>
    BY <1>14, <1>b, <1>c, <1>d, <1>e
    DEF ReserveListener, Reserving, NoOrphan, Placed, local, ChannelExact
  <2>2. CASE pc'[l] = "live"
    <3>1. /\ Moves(l, "live")
          /\ LimitAllows(MaxListenersPerStream, listeners[chan[l]])
          /\ listeners' = [listeners EXCEPT ![chan[l]] = @ + 1]
      BY <1>14, <1>a, <2>1, <2>2 DEF ReserveListener, Moves, Goto
    <3>2. \A c : /\ Flagging(c)' = Flagging(c)
                 /\ Listening(c)' = IF c = chan[l] THEN Listening(c) \cup {l} ELSE Listening(c)
                 /\ l \notin Listening(c)
      <4> TAKE c
      <4>1. l \notin Flagging(c) /\ l \notin Listening(c)
        BY <1>b, <2>1 DEF Flagging, Listening
      <4>2. /\ Flagging(c)' = Flagging(c) \ {l}
            /\ Listening(c)' = IF chan[l] = c THEN Listening(c) \cup {l} ELSE Listening(c) \ {l}
        BY <1>a, <1>b, <2>1, <3>1, UsersMove
      <4>3. QED
        BY <4>1, <4>2
    <3>3. /\ Cardinality(Listening(chan[l])') = listeners[chan[l]] + 1
          /\ Within(MaxListenersPerStream, listeners[chan[l]] + 1)
      BY <1>d, <2>1, <3>1, <3>2, JoinCount, UserTypes, RoomForOne, LimitsAssumption
      DEF ChannelExact
    <3>4. ChannelExact'
      BY <1>a, <1>d, <2>1, <3>1, <3>2, <3>3 DEF ChannelExact, Within
    <3>5. OneFlag'
      BY <1>a, <1>b, <1>d, <2>1, <3>1 DEF OneFlag, Moves, Goto
    <3>6. NoOrphan'
      BY <1>d, <2>1, <3>1, OrphanKept
    <3>7. QED
      BY <3>4, <3>5, <3>6 DEF ChannelInv
  <2>3. CASE pc'[l] # "live"
    <3>1. Moves(l, "overflow") /\ Bystander(l, "overflow") /\ UNCHANGED <<channels, object>>
      BY <1>14, <1>a, <1>b, <2>1, <2>3 DEF ReserveListener, Moves, Goto, Bystander, object
    <3>2. QED
      BY <1>0, <2>1, <3>1 DEF Using
  <2>4. QED
    BY <2>2, <2>3
<1>15. ASSUME NEW l \in Listeners, Uncount(l) PROVE ChannelInv'
  <2>1. Moves(l, "sweep") /\ Bystander(l, "sweep")
    BY <1>15, <1>b DEF Uncount, Moves, Bystander
  <2>2. QED
    BY <1>0, <1>15, <1>b, <2>1 DEF Uncount, Using
<1>16. ASSUME NEW l \in Listeners, DropListener(l) PROVE ChannelInv'
  <2>1. /\ chan[l] \in Chans /\ l \in Procs /\ pc[l] = "live"
        /\ UNCHANGED <<key, chan, channels, streamer>>
        /\ listeners' = [listeners EXCEPT ![chan[l]] = @ - 1]
        /\ Moves(l, "dropping")
        /\ listeners[chan[l]] \in Nat
    BY <1>16, <1>b, <1>c, <1>d, <1>e DEF DropListener, Placed, Moves, ChannelExact
  <2>2. \A c : /\ Flagging(c)' = Flagging(c)
               /\ Listening(c)' = Listening(c) \ {l}
    <3>1. \A c : /\ Flagging(c)' = Flagging(c) \ {l}
                 /\ Listening(c)' = Listening(c) \ {l}
      BY <1>a, <1>b, <2>1, UsersMove
    <3>2. \A c : l \notin Flagging(c)
      BY <1>b DEF Flagging
    <3>3. QED
      BY <3>1, <3>2
  <2>3. /\ l \in Listening(chan[l])
        /\ \A c : c # chan[l] => Listening(c)' = Listening(c)
    BY <2>1, <2>2 DEF Listening
  <2>4. /\ Cardinality(Listening(chan[l])') = listeners[chan[l]] - 1
        /\ Within(MaxListenersPerStream, listeners[chan[l]] - 1)
    BY <1>d, <2>1, <2>2, <2>3, LeaveCount, UserTypes, OneLess, LimitsAssumption
    DEF ChannelExact
  <2>5. ChannelExact'
    BY <1>a, <1>d, <2>1, <2>2, <2>3, <2>4 DEF ChannelExact, Within
  <2>6. OneFlag'
    BY <1>a, <1>b, <1>d, <2>1 DEF OneFlag, Moves, Goto
  <2>7. NoOrphan'
    BY <1>d, <2>1, OrphanKept DEF Using
  <2>8. QED
    BY <2>5, <2>6, <2>7 DEF ChannelInv
<1>17. ASSUME NEW l \in Listeners, UncountListener(l) PROVE ChannelInv'
  <2>1. Moves(l, "sweep") /\ Bystander(l, "sweep")
    BY <1>17, <1>b DEF UncountListener, Moves, Bystander, local
  <2>2. QED
    BY <1>0, <1>17, <1>b, <2>1 DEF UncountListener, Using
<1>18. ASSUME NEW l \in Listeners, HangUp(l) PROVE ChannelInv'
  <2>1. Moves(l, "closing") /\ Bystander(l, "closing")
    BY <1>18, <1>b DEF HangUp, Moves, Bystander, local
  <2>2. QED
    BY <1>0, <1>18, <1>b, <2>1 DEF HangUp, Using
<1>19. CASE UNCHANGED vars
  BY <1>19, <1>d
  DEF vars, local, object, ChannelInv, ChannelExact, OneFlag, NoOrphan, Flagging, Listening, Within
<1>20. QED
  BY <1>1, <1>2, <1>3, <1>4, <1>5, <1>6, <1>7, <1>8, <1>9, <1>10, <1>11, <1>12,
     <1>13, <1>14, <1>15, <1>16, <1>17, <1>18, <1>19
  DEF Next, Shared, StreamerStep, ListenerStep
-----------------------------------------------------------------------------
IInv == TypeInv /\ LockInv /\ CountersExact /\ ChannelInv

LEMMA Inductive == Spec => []IInv
<1>1. Init => IInv
  BY TypeInit, LockInit, CountersInit, ChannelInit DEF IInv
<1>2. IInv /\ [Next]_vars => IInv'
  BY TypeStep, LockStepKeeps, CountersStep, ChannelStep DEF IInv
<1>3. QED
  BY <1>1, <1>2, PTL DEF Spec

(* Type correctness: in particular no counter of the server or of a        *)
(* channel ever drops below zero, although every guard subtracts blindly.  *)
THEOREM TypeCorrect == Spec => []TypeOK
<1>1. IInv => TypeOK
  <2> SUFFICES ASSUME IInv PROVE TypeOK
    OBVIOUS
  <2>1. /\ active_connections \in Nat /\ active_streamers \in Nat
        /\ active_listeners \in Nat
    BY HolderTypes, FiniteSessions DEF IInv, CountersExact
  <2>2. \A c \in Chans : listeners[c] \in Nat
    BY UserTypes, FiniteSessions DEF IInv, ChannelInv, ChannelExact
  <2>3. listeners \in [Chans -> Nat]
    BY <2>2 DEF IInv, TypeInv, Shape
  <2>4. QED
    BY <2>1, <2>3 DEF IInv, TypeInv, Shape, TypeOK
<1>2. QED
  BY <1>1, Inductive, PTL

(* For any number of sessions and any limits, the server-wide counters     *)
(* count their holders exactly and stay within the limits (try_acquire_    *)
(* connection, ingest_ws, subscribe_listener and the three guards' drops). *)
THEOREM CountersCorrect == Spec => []CountersExact
<1>1. IInv => CountersExact
  BY DEF IInv
<1>2. QED
  BY <1>1, Inductive, PTL

(* A channel's streamer flag and listener count are those of the sessions  *)
(* that reserved it, within the per-stream limit.                          *)
THEOREM ChannelCorrect == Spec => []ChannelExact
<1>1. IInv => ChannelExact
  BY DEF IInv, ChannelInv
<1>2. QED
  BY <1>1, Inductive, PTL

(* reserve_channel and cleanup_channel never leave a session on an object  *)
(* that is not the mapped one for its key.                                 *)
THEOREM ReservedIsMapped == Spec => []NoOrphan
<1>1. IInv => NoOrphan
  BY DEF IInv, ChannelInv
<1>2. QED
  BY <1>1, Inductive, PTL

(* No interleaving gives one stream key two publishers.                    *)
THEOREM SinglePublisher == Spec => []OnePublisher
<1>1. IInv => OnePublisher
  <2> SUFFICES ASSUME IInv, NEW k \in Keys PROVE Cardinality(Publishing(k)) <= 1
    BY DEF OnePublisher
  <2>1. \A s, t \in Publishing(k) : s = t
    BY DEF IInv, ChannelInv, OneFlag, NoOrphan, Publishing, Procs
  <2>2. CASE Publishing(k) = {}
    BY <2>2, FS_EmptySet
  <2>3. CASE Publishing(k) # {}
    <3>1. PICK s : Publishing(k) = {s}
      BY <2>1, <2>3
    <3>2. QED
      BY <3>1, FS_Singleton
  <2>4. QED
    BY <2>2, <2>3
<1>2. QED
  BY <1>1, Inductive, PTL
-----------------------------------------------------------------------------
(* Registry implements Directory.  Each step of a session is an operation  *)
(* of the Directory or leaves what the Directory sees alone.               *)

LEMMA SessionSorts ==
  /\ \A s \in Streamers : s \in Procs /\ s \notin Listeners /\ s # None
  /\ \A l \in Listeners : l \in Procs /\ l \notin Streamers
  /\ None \notin Chans
  BY ProcsAssumption DEF Procs

(* The Directory counts as the Registry does.                              *)
LEMMA SameCardinality == \A S : Abstract!Cardinality(S) = Cardinality(S)
  BY DEF Abstract!Cardinality, Cardinality

LEMMA AttachedMove ==
  ASSUME pc \in [Procs -> Locations], NEW p \in Procs, NEW x, Moves(p, x), NEW k
  PROVE
    /\ Owners(k)' = IF p \in Streamers /\ x = "live" /\ key'[p] = k
                      THEN Owners(k) \cup {p} ELSE Owners(k) \ {p}
    /\ Subscribed(k)' = IF p \in Listeners /\ x = "live" /\ key'[p] = k
                          THEN Subscribed(k) \cup {p} ELSE Subscribed(k) \ {p}
<1>1. \A q \in Procs : /\ pc'[q] = IF q = p THEN x ELSE pc[q]
                       /\ q # p => key'[q] = key[q]
  BY DEF Moves, Goto
<1>2. Owners(k)' = IF p \in Streamers /\ x = "live" /\ key'[p] = k
                     THEN Owners(k) \cup {p} ELSE Owners(k) \ {p}
  BY <1>1 DEF Owners, Procs
<1>3. Subscribed(k)' = IF p \in Listeners /\ x = "live" /\ key'[p] = k
                         THEN Subscribed(k) \cup {p} ELSE Subscribed(k) \ {p}
  BY <1>1 DEF Subscribed, Procs
<1>4. QED
  BY <1>2, <1>3

(* A key's publisher is the one live streamer of that key.                 *)
LEMMA OwnerOfKey ==
  ASSUME IInv, NEW k \in Keys
  PROVE  /\ \A s, t \in Owners(k) : s = t
         /\ ownerBar[k] = None \/ ownerBar[k] \in Owners(k)
         /\ Owners(k) = {} => ownerBar[k] = None
         /\ \A s : Owners(k) = {s} => ownerBar[k] = s
<1>1. \A s, t \in Owners(k) : s = t
  BY DEF IInv, ChannelInv, OneFlag, NoOrphan, Owners, Procs
<1>2. \A s : Owners(k) = {s} => ownerBar[k] = s
  BY DEF ownerBar, Sole
<1>3. QED
  BY <1>1, <1>2 DEF ownerBar, Sole

(* A session that is not live before or after the step detaches nobody.    *)
LEMMA NobodyAttaches ==
  ASSUME TypeInv, NEW p \in Procs, NEW x, Moves(p, x), pc[p] # "live", x # "live"
  PROVE  UNCHANGED <<ownerBar, subsBar>>
<1>1. \A k : Owners(k)' = Owners(k) /\ Subscribed(k)' = Subscribed(k)
  <2> TAKE k
  <2>1. p \notin Owners(k) /\ p \notin Subscribed(k)
    BY DEF Owners, Subscribed
  <2>2. Owners(k)' = Owners(k) \ {p} /\ Subscribed(k)' = Subscribed(k) \ {p}
    BY AttachedMove DEF TypeInv, Shape
  <2>3. QED
    BY <2>1, <2>2
<1>2. QED
  BY <1>1 DEF ownerBar, subsBar

(* A step at which a session takes or gives back no server-wide place.     *)
KeepsPlace(p, x) ==
  /\ p \in Counted <=> p \in Streamers /\ x \in {"live", "dropping"}
  /\ p \in Seated <=> /\ p \in Listeners
                      /\ x \in {"lookup", "hit", "miss", "inserted",
                                "overflow", "live", "dropping"}

LEMMA PlacesKept ==
  ASSUME TypeInv, NEW p \in Procs, NEW x, Moves(p, x), KeepsPlace(p, x)
  PROVE  UNCHANGED <<Counted, Seated>>
<1>1. /\ Counted' = IF p \in Counted THEN Counted \cup {p} ELSE Counted \ {p}
      /\ Seated' = IF p \in Seated THEN Seated \cup {p} ELSE Seated \ {p}
  BY HoldersMove DEF TypeInv, Shape, Moves, KeepsPlace
<1>2. QED
  BY <1>1

LEMMA Quiet ==
  ASSUME TypeInv, NEW p \in Procs, NEW x, Moves(p, x), KeepsPlace(p, x),
         pc[p] # "live", x # "live", UNCHANGED channels
  PROVE  UNCHANGED Abstract!vars
<1>1. UNCHANGED <<ownerBar, subsBar, Counted, Seated>>
  BY NobodyAttaches, PlacesKept
<1>2. UNCHANGED dirBar
  BY DEF dirBar
<1>3. QED
  BY <1>1, <1>2 DEF Abstract!vars

(* FindOrInsert opens a key that was closed.                               *)
LEMMA InsertOpens ==
  ASSUME IInv, NEW p \in Procs, FindOrInsert(p), channels[key[p]] = None
  PROVE  Abstract!Open(key[p])
<1>1. key[p] \in Keys /\ pc[p] = "miss" /\ Moves(p, "inserted")
  BY DEF IInv, TypeInv, Shape, LocalInv, FindOrInsert, At, Moves
<1>2. KeepsPlace(p, "inserted")
  BY <1>1, SessionSorts DEF KeepsPlace, Counted, Seated, Procs
<1>3. UNCHANGED <<ownerBar, subsBar, Counted, Seated>>
  BY <1>1, <1>2, NobodyAttaches, PlacesKept DEF IInv
<1>4. PICK c \in Chans : channels' = [channels EXCEPT ![key[p]] = c]
  BY DEF FindOrInsert
<1>5. key[p] \notin dirBar /\ dirBar' = dirBar \cup {key[p]}
  BY <1>1, <1>4, SessionSorts DEF dirBar, IInv, TypeInv, Shape
<1>6. QED
  BY <1>3, <1>5 DEF Abstract!Open

(* SweepRemove closes a key only when nobody publishes or listens on it.   *)
LEMMA RemovalCloses ==
  ASSUME IInv, NEW p \in Procs, SweepRemove(p), Removable(p)
  PROVE  Abstract!Close(key[p])
<1>1. /\ key[p] \in Keys /\ chan[p] \in Chans /\ pc[p] = "sweep3"
      /\ resume[p] \in {"connected", "closing"} /\ Moves(p, resume[p])
  BY DEF IInv, TypeInv, Shape, LocalInv, Placed, SweepRemove, SweepDone, At, Moves
<1>2. KeepsPlace(p, resume[p])
  BY <1>1 DEF KeepsPlace, Counted, Seated
<1>3. UNCHANGED <<ownerBar, subsBar, Counted, Seated>>
  BY <1>1, <1>2, NobodyAttaches, PlacesKept DEF IInv
<1>4. key[p] \in dirBar /\ dirBar' = dirBar \ {key[p]}
  BY <1>1, SessionSorts DEF dirBar, IInv, TypeInv, Shape, SweepRemove, Removable
<1>5. \A q \in Procs : pc[q] = "live" => key[q] # key[p]
  BY <1>1, RemovalIsSafe DEF IInv, Using
<1>6. Owners(key[p]) = {} /\ Subscribed(key[p]) = {}
  BY <1>5 DEF Owners, Subscribed, Procs
<1>7. ownerBar[key[p]] = None /\ subsBar[key[p]] = {}
  BY <1>1, <1>6, OwnerOfKey DEF subsBar
<1>8. QED
  BY <1>3, <1>4, <1>7 DEF Abstract!Close

(* A streamer that is counted takes a key nobody owns.                     *)
LEMMA CountAdmits ==
  ASSUME IInv, NEW s \in Streamers, CountStreamer(s),
         LimitAllows(MaxStreamers, active_streamers)
  PROVE  Abstract!Admit(s, key[s])
<1>1. /\ s \in Procs /\ s \notin Listeners /\ pc[s] = "flagged"
      /\ key[s] \in Keys /\ channels[key[s]] = chan[s] /\ chan[s] \in Chans
      /\ Moves(s, "live") /\ key' = key /\ UNCHANGED channels
  BY SessionSorts
  DEF CountStreamer, At, Moves, IInv, TypeInv, LocalInv, Placed, ChannelInv, NoOrphan
<1>2. Owners(key[s]) = {}
  BY <1>1 DEF Owners, IInv, ChannelInv, OneFlag, NoOrphan, Procs
<1>3. \A k : /\ Owners(k)' = IF k = key[s] THEN {s} ELSE Owners(k)
             /\ Subscribed(k)' = Subscribed(k)
  <2> TAKE k
  <2>1. s \notin Owners(k) /\ s \notin Subscribed(k)
    BY <1>1 DEF Owners, Subscribed
  <2>2. /\ Owners(k)' = IF key[s] = k THEN Owners(k) \cup {s} ELSE Owners(k) \ {s}
        /\ Subscribed(k)' = Subscribed(k) \ {s}
    BY <1>1, AttachedMove DEF IInv, TypeInv, Shape
  <2>3. QED
    BY <1>2, <2>1, <2>2
<1>4. ownerBar' = [ownerBar EXCEPT ![key[s]] = s] /\ UNCHANGED <<dirBar, subsBar>>
  <2>1. UNCHANGED dirBar
    BY <1>1 DEF dirBar
  <2>2. UNCHANGED subsBar
    BY <1>3 DEF subsBar
  <2>3. Sole({s}) = s
    BY DEF Sole
  <2>4. QED
    BY <1>1, <1>3, <2>1, <2>2, <2>3 DEF ownerBar
<1>5. s \notin Counted /\ Counted' = Counted \cup {s} /\ Seated' = Seated
  <2>1. s \notin Counted /\ s \notin Seated
    BY <1>1 DEF Counted, Seated
  <2>2. Counted' = Counted \cup {s} /\ Seated' = Seated \ {s}
    BY <1>1, HoldersMove DEF IInv, TypeInv, Shape, Moves
  <2>3. QED
    BY <2>1, <2>2
<1>6. ownerBar[key[s]] = None /\ key[s] \in dirBar
  BY <1>1, <1>2, OwnerOfKey, SessionSorts DEF dirBar
<1>7. Abstract!HasRoom(MaxStreamers, Counted)
  BY SameCardinality DEF Abstract!HasRoom, LimitAllows, IInv, CountersExact
<1>8. QED
  BY <1>4, <1>5, <1>6, <1>7 DEF Abstract!Admit

(* StreamerGuard::drop ends the ownership before the place is given back.  *)
LEMMA DropRetires ==
  ASSUME IInv, NEW s \in Streamers, DropStreamer(s)
  PROVE  Abstract!Retire(s, key[s])
<1>1. /\ s \in Procs /\ s \notin Listeners /\ pc[s] = "live" /\ key[s] \in Keys
      /\ Moves(s, "dropping") /\ UNCHANGED channels
  BY SessionSorts DEF DropStreamer, At, Moves, IInv, TypeInv, LocalInv, Placed
<1>2. Owners(key[s]) = {s}
  <2>1. s \in Owners(key[s])
    BY <1>1 DEF Owners
  <2>2. QED
    BY <1>1, <2>1, OwnerOfKey
<1>3. \A k : /\ Owners(k)' = IF k = key[s] THEN {} ELSE Owners(k)
             /\ Subscribed(k)' = Subscribed(k)
  <2> TAKE k
  <2>1. s \notin Subscribed(k) /\ (k # key[s] => s \notin Owners(k))
    BY <1>1 DEF Owners, Subscribed
  <2>2. Owners(k)' = Owners(k) \ {s} /\ Subscribed(k)' = Subscribed(k) \ {s}
    BY <1>1, AttachedMove DEF IInv, TypeInv, Shape
  <2>3. QED
    BY <1>2, <2>1, <2>2
<1>4. ownerBar' = [ownerBar EXCEPT ![key[s]] = None] /\ UNCHANGED <<dirBar, subsBar>>
  <2>1. UNCHANGED dirBar
    BY <1>1 DEF dirBar
  <2>2. UNCHANGED subsBar
    BY <1>3 DEF subsBar
  <2>3. Sole({}) = None
    BY DEF Sole
  <2>4. QED
    BY <1>1, <1>3, <2>1, <2>2, <2>3 DEF ownerBar
<1>5. KeepsPlace(s, "dropping")
  BY <1>1 DEF KeepsPlace, Counted, Seated
<1>6. UNCHANGED <<Counted, Seated>>
  BY <1>1, <1>5, PlacesKept DEF IInv
<1>7. ownerBar[key[s]] = s
  BY <1>1, <1>2, OwnerOfKey
<1>8. QED
  BY <1>4, <1>6, <1>7 DEF Abstract!Retire

LEMMA UncountReleases ==
  ASSUME IInv, NEW s \in Streamers, UncountStreamer(s)
  PROVE  Abstract!Release(s)
<1>1. /\ s \in Procs /\ s \notin Listeners /\ s # None /\ pc[s] = "dropping"
      /\ Moves(s, "sweep") /\ UNCHANGED channels
  BY SessionSorts DEF UncountStreamer, At, Moves, local
<1>2. UNCHANGED <<dirBar, ownerBar, subsBar>>
  BY <1>1, NobodyAttaches DEF IInv, dirBar
<1>3. s \in Counted /\ s \notin Seated
  BY <1>1 DEF Counted, Seated
<1>4. Counted' = Counted \ {s} /\ Seated' = Seated \ {s}
  BY <1>1, HoldersMove DEF IInv, TypeInv, Shape, Moves
<1>5. ASSUME NEW k \in Keys PROVE ownerBar[k] # s
  <2>1. s \notin Owners(k)
    BY <1>1 DEF Owners
  <2>2. QED
    BY <1>1, <2>1, OwnerOfKey
<1>6. QED
  BY <1>2, <1>3, <1>4, <1>5 DEF Abstract!Release

LEMMA SubscribeSits ==
  ASSUME IInv, NEW l \in Listeners, NEW k \in Keys, Subscribe(l, k)
  PROVE  Abstract!Sit(l)
<1>1. /\ l \in Procs /\ l \notin Streamers /\ pc[l] = "connected"
      /\ Moves(l, "lookup") /\ UNCHANGED channels
  BY SessionSorts DEF Subscribe, At, Moves, IInv, TypeInv, Shape
<1>2. UNCHANGED <<dirBar, ownerBar, subsBar>>
  BY <1>1, NobodyAttaches DEF IInv, dirBar
<1>3. l \notin Counted /\ l \notin Seated
  BY <1>1 DEF Counted, Seated
<1>4. Counted' = Counted \ {l} /\ Seated' = Seated \cup {l}
  BY <1>1, HoldersMove DEF IInv, TypeInv, Shape, Moves
<1>5. Abstract!HasRoom(MaxListenersTotal, Seated)
  BY SameCardinality DEF Abstract!HasRoom, LimitAllows, IInv, CountersExact, Subscribe
<1>6. QED
  BY <1>2, <1>3, <1>4, <1>5 DEF Abstract!Sit

(* The listeners of a key all sit on its mapped object, so the object's    *)
(* count bounds the subscribers of the key.                                *)
LEMMA SubscribersListen ==
  ASSUME IInv, NEW k \in Keys, channels[k] \in Chans
  PROVE  Cardinality(Subscribed(k)) <= listeners[channels[k]]
<1>1. Subscribed(k) \subseteq Listening(channels[k])
  BY DEF Subscribed, Listening, IInv, ChannelInv, NoOrphan, Procs
<1>2. Cardinality(Subscribed(k)) <= Cardinality(Listening(channels[k]))
  BY <1>1, UserTypes, FiniteSessions, FS_Subset
<1>3. QED
  BY <1>2 DEF IInv, ChannelInv, ChannelExact

LEMMA ReserveJoins ==
  ASSUME IInv, NEW l \in Listeners, ReserveListener(l),
         LimitAllows(MaxListenersPerStream, listeners[chan[l]])
  PROVE  Abstract!Join(l, key[l])
<1>1. /\ l \in Procs /\ l \notin Streamers /\ pc[l] \in {"hit", "inserted"}
      /\ key[l] \in Keys /\ channels[key[l]] = chan[l] /\ chan[l] \in Chans
      /\ Moves(l, "live") /\ key' = key /\ UNCHANGED channels
  BY SessionSorts
  DEF ReserveListener, Reserving, At, Moves, local, IInv, TypeInv, LocalInv, Placed,
      ChannelInv, NoOrphan
<1>2. \A k : l \notin Owners(k) /\ l \notin Subscribed(k)
  BY <1>1 DEF Owners, Subscribed
<1>3. \A k : /\ Owners(k)' = Owners(k)
             /\ Subscribed(k)' = IF k = key[l] THEN Subscribed(k) \cup {l} ELSE Subscribed(k)
  <2> TAKE k
  <2>1. /\ Owners(k)' = Owners(k) \ {l}
        /\ Subscribed(k)' = IF key[l] = k THEN Subscribed(k) \cup {l} ELSE Subscribed(k) \ {l}
    BY <1>1, AttachedMove DEF IInv, TypeInv, Shape
  <2>2. QED
    BY <1>2, <2>1
<1>4. /\ subsBar' = [subsBar EXCEPT ![key[l]] = @ \cup {l}]
      /\ UNCHANGED <<dirBar, ownerBar>>
  BY <1>1, <1>3 DEF ownerBar, subsBar, dirBar
<1>5. KeepsPlace(l, "live") /\ l \in Seated
  BY <1>1 DEF KeepsPlace, Counted, Seated
<1>6. UNCHANGED <<Counted, Seated>>
  BY <1>1, <1>5, PlacesKept DEF IInv
<1>7. key[l] \in dirBar /\ \A other \in Keys : l \notin subsBar[other]
  BY <1>1, <1>2, SessionSorts DEF dirBar, subsBar
<1>8. Abstract!HasRoom(MaxListenersPerStream, subsBar[key[l]])
  <2>1. Cardinality(Subscribed(key[l])) <= listeners[chan[l]]
    BY <1>1, SubscribersListen
  <2>2. Cardinality(Subscribed(key[l])) \in Nat /\ listeners[chan[l]] \in Int
    <3>1. Subscribed(key[l]) \in SUBSET Procs
      BY DEF Subscribed, Procs
    <3>2. QED
      BY <1>1, <3>1, FiniteSessions DEF IInv, TypeInv, Shape
  <2>3. subsBar[key[l]] = Subscribed(key[l])
    BY <1>1 DEF subsBar
  <2>4. QED
    BY <2>1, <2>2, <2>3, SameCardinality, LimitsAssumption DEF Abstract!HasRoom, LimitAllows
<1>9. QED
  BY <1>4, <1>5, <1>6, <1>7, <1>8 DEF Abstract!Join

LEMMA DropLeaves ==
  ASSUME IInv, NEW l \in Listeners, DropListener(l)
  PROVE  Abstract!Leave(l, key[l])
<1>1. /\ l \in Procs /\ l \notin Streamers /\ pc[l] = "live" /\ key[l] \in Keys
      /\ Moves(l, "dropping") /\ UNCHANGED channels
  BY SessionSorts DEF DropListener, At, Moves, IInv, TypeInv, LocalInv, Placed
<1>2. \A k : l \notin Owners(k) /\ (l \in Subscribed(k) <=> k = key[l])
  BY <1>1 DEF Owners, Subscribed
<1>3. \A k : /\ Owners(k)' = Owners(k)
             /\ Subscribed(k)' = IF k = key[l] THEN Subscribed(k) \ {l} ELSE Subscribed(k)
  <2> TAKE k
  <2>1. Owners(k)' = Owners(k) \ {l} /\ Subscribed(k)' = Subscribed(k) \ {l}
    BY <1>1, AttachedMove DEF IInv, TypeInv, Shape
  <2>2. QED
    BY <1>2, <2>1
<1>4. /\ subsBar' = [subsBar EXCEPT ![key[l]] = @ \ {l}]
      /\ UNCHANGED <<dirBar, ownerBar>>
  BY <1>1, <1>3 DEF ownerBar, subsBar, dirBar
<1>5. KeepsPlace(l, "dropping")
  BY <1>1 DEF KeepsPlace, Counted, Seated
<1>6. UNCHANGED <<Counted, Seated>>
  BY <1>1, <1>5, PlacesKept DEF IInv
<1>7. l \in subsBar[key[l]]
  BY <1>1, <1>2 DEF subsBar
<1>8. QED
  BY <1>4, <1>6, <1>7 DEF Abstract!Leave

(* A listener gives its server-wide place back, refused or unsubscribed.   *)
LEMMA UncountStands ==
  ASSUME IInv, NEW l \in Listeners, Uncount(l) \/ UncountListener(l)
  PROVE  Abstract!Stand(l)
<1>1. /\ l \in Procs /\ l \notin Streamers /\ pc[l] \in {"overflow", "dropping"}
      /\ Moves(l, "sweep") /\ UNCHANGED channels
  BY SessionSorts DEF Uncount, UncountListener, At, Moves, local
<1>2. UNCHANGED <<dirBar, ownerBar, subsBar>>
  BY <1>1, NobodyAttaches DEF IInv, dirBar
<1>3. l \notin Counted /\ l \in Seated
  BY <1>1 DEF Counted, Seated
<1>4. Counted' = Counted \ {l} /\ Seated' = Seated \ {l}
  BY <1>1, HoldersMove DEF IInv, TypeInv, Shape, Moves
<1>5. \A k \in Keys : l \notin subsBar[k]
  BY <1>1 DEF subsBar, Subscribed
<1>6. QED
  BY <1>2, <1>3, <1>4, <1>5 DEF Abstract!Stand

LEMMA StepSimulates == IInv /\ [Next]_vars => [Abstract!Next]_Abstract!vars
<1> SUFFICES ASSUME IInv, [Next]_vars PROVE Abstract!Next \/ UNCHANGED Abstract!vars
  OBVIOUS
<1>a. /\ TypeInv /\ \A p \in Procs : Placed(p) \/ pc[p] = "miss" => key[p] \in Keys
      /\ \A p \in Procs : resume[p] \in {"connected", "closing"}
  BY DEF IInv, TypeInv, Shape, LocalInv
<1>b. /\ chan \in [Procs -> Chans \cup {None}] /\ key \in [Procs -> Keys \cup {None}]
      /\ \A k \in Keys : channels[k] \in Chans \cup {None}
  BY DEF IInv, TypeInv, Shape
<1> USE DEF At
<1>1. ASSUME NEW p \in Procs, Connect(p) PROVE UNCHANGED Abstract!vars
  <2>1. Moves(p, "connected") /\ KeepsPlace(p, "connected")
    BY <1>1 DEF Connect, Moves, local, KeepsPlace, Counted, Seated
  <2>2. QED
    BY <1>1, <1>a, <2>1, Quiet DEF Connect
<1>2. ASSUME NEW p \in Procs, Lookup(p) PROVE UNCHANGED Abstract!vars
  <2>1. PICK x \in {"hit", "miss"} : Moves(p, x)
    BY <1>2, <1>b DEF Lookup, Moves
  <2>2. KeepsPlace(p, x)
    BY <1>2, <2>1, SessionSorts DEF Lookup, KeepsPlace, Counted, Seated, Procs
  <2>3. QED
    BY <1>2, <1>a, <2>1, <2>2, Quiet DEF Lookup
<1>3. ASSUME NEW p \in Procs, FindOrInsert(p) PROVE Abstract!Next \/ UNCHANGED Abstract!vars
  <2>1. CASE channels[key[p]] = None
    <3>1. Abstract!Open(key[p])
      BY <1>3, <2>1, InsertOpens
    <3>2. QED
      BY <1>3, <1>a, <3>1 DEF Abstract!Next, FindOrInsert
  <2>2. CASE channels[key[p]] # None
    <3>1. Moves(p, "inserted") /\ KeepsPlace(p, "inserted")
      BY <1>3, <2>2, <1>b, SessionSorts
      DEF FindOrInsert, Moves, KeepsPlace, Counted, Seated, Procs
    <3>2. QED
      BY <1>3, <1>a, <2>2, <3>1, Quiet DEF FindOrInsert
  <2>3. QED
    BY <2>1, <2>2
<1>4. ASSUME NEW p \in Procs, SweepLoadStreamer(p) PROVE UNCHANGED Abstract!vars
  <2>1. PICK x \in {"sweep2", "connected", "closing"} : Moves(p, x)
    BY <1>4, <1>a, <1>b DEF SweepLoadStreamer, SweepDone, Moves
  <2>2. KeepsPlace(p, x)
    BY <1>4, <2>1 DEF SweepLoadStreamer, KeepsPlace, Counted, Seated
  <2>3. QED
    BY <1>4, <1>a, <2>1, <2>2, Quiet DEF SweepLoadStreamer
<1>5. ASSUME NEW p \in Procs, SweepLoadListeners(p) PROVE UNCHANGED Abstract!vars
  <2>1. PICK x \in {"sweep3", "connected", "closing"} : Moves(p, x)
    BY <1>5, <1>a, <1>b DEF SweepLoadListeners, SweepDone, Moves
  <2>2. KeepsPlace(p, x)
    BY <1>5, <2>1 DEF SweepLoadListeners, KeepsPlace, Counted, Seated
  <2>3. QED
    BY <1>5, <1>a, <2>1, <2>2, Quiet DEF SweepLoadListeners
<1>6. ASSUME NEW p \in Procs, SweepRemove(p) PROVE Abstract!Next \/ UNCHANGED Abstract!vars
  <2>1. CASE Removable(p)
    <3>1. Abstract!Close(key[p])
      BY <1>6, <2>1, RemovalCloses
    <3>2. QED
      BY <1>6, <1>a, <3>1 DEF Abstract!Next, SweepRemove, Placed
  <2>2. CASE ~Removable(p)
    <3>1. Moves(p, resume[p]) /\ KeepsPlace(p, resume[p])
      BY <1>6, <1>a, <1>b DEF SweepRemove, SweepDone, Moves, KeepsPlace, Counted, Seated
    <3>2. QED
      BY <1>6, <1>a, <2>2, <3>1, Quiet DEF SweepRemove
  <2>3. QED
    BY <2>1, <2>2
<1>7. ASSUME NEW p \in Procs, Disconnect(p) PROVE UNCHANGED Abstract!vars
  <2>1. Moves(p, "idle") /\ KeepsPlace(p, "idle")
    BY <1>7 DEF Disconnect, Moves, local, KeepsPlace, Counted, Seated
  <2>2. QED
    BY <1>7, <1>a, <2>1, Quiet DEF Disconnect
<1>8. ASSUME NEW s \in Streamers, NEW k \in Keys, Publish(s, k) PROVE UNCHANGED Abstract!vars
  <2>1. s \in Procs /\ Moves(s, "lookup") /\ KeepsPlace(s, "lookup")
    BY <1>8, <1>b, SessionSorts DEF Publish, Moves, KeepsPlace, Counted, Seated
  <2>2. QED
    BY <1>8, <1>a, <2>1, Quiet DEF Publish
<1>9. ASSUME NEW s \in Streamers, ReserveStreamer(s) PROVE UNCHANGED Abstract!vars
  <2>1. PICK x \in {"flagged", "closing"} : Moves(s, x)
    BY <1>9, <1>b, SessionSorts DEF ReserveStreamer, Moves
  <2>2. s \in Procs /\ pc[s] \in {"hit", "inserted"} /\ KeepsPlace(s, x)
    BY <1>9, <2>1, SessionSorts DEF ReserveStreamer, Reserving, KeepsPlace, Counted, Seated
  <2>3. QED
    BY <1>9, <1>a, <2>1, <2>2, Quiet DEF ReserveStreamer
<1>10. ASSUME NEW s \in Streamers, CountStreamer(s)
       PROVE  Abstract!Next \/ UNCHANGED Abstract!vars
  <2>1. s \in Procs /\ pc[s] = "flagged" /\ key[s] \in Keys
    BY <1>10, <1>a, SessionSorts DEF CountStreamer, Placed
  <2>2. CASE LimitAllows(MaxStreamers, active_streamers)
    <3>1. Abstract!Admit(s, key[s])
      BY <1>10, <2>2, CountAdmits
    <3>2. QED
      BY <2>1, <3>1 DEF Abstract!Next
  <2>3. CASE ~LimitAllows(MaxStreamers, active_streamers)
    <3>1. Moves(s, "sweep") /\ KeepsPlace(s, "sweep")
      BY <1>10, <2>1, <2>3, SessionSorts DEF CountStreamer, Moves, KeepsPlace, Counted, Seated
    <3>2. QED
      BY <1>10, <1>a, <2>1, <3>1, Quiet DEF CountStreamer
  <2>4. QED
    BY <2>2, <2>3
<1>11. ASSUME NEW s \in Streamers, DropStreamer(s) PROVE Abstract!Next
  <2>1. Abstract!Retire(s, key[s]) /\ key[s] \in Keys
    BY <1>11, <1>a, DropRetires, SessionSorts DEF DropStreamer, Placed
  <2>2. QED
    BY <2>1 DEF Abstract!Next
<1>12. ASSUME NEW s \in Streamers, UncountStreamer(s) PROVE Abstract!Next
  BY <1>12, UncountReleases DEF Abstract!Next
<1>13. ASSUME NEW l \in Listeners, NEW k \in Keys, Subscribe(l, k) PROVE Abstract!Next
  BY <1>13, SubscribeSits DEF Abstract!Next
<1>14. ASSUME NEW l \in Listeners, ReserveListener(l)
       PROVE  Abstract!Next \/ UNCHANGED Abstract!vars
  <2>1. l \in Procs /\ pc[l] \in {"hit", "inserted"} /\ key[l] \in Keys
    BY <1>14, <1>a, SessionSorts DEF ReserveListener, Reserving, Placed
  <2>2. CASE LimitAllows(MaxListenersPerStream, listeners[chan[l]])
    <3>1. Abstract!Join(l, key[l])
      BY <1>14, <2>2, ReserveJoins
    <3>2. QED
      BY <2>1, <3>1 DEF Abstract!Next
  <2>3. CASE ~LimitAllows(MaxListenersPerStream, listeners[chan[l]])
    <3>1. Moves(l, "overflow") /\ KeepsPlace(l, "overflow")
      BY <1>14, <2>1, <2>3, SessionSorts
      DEF ReserveListener, Moves, local, KeepsPlace, Counted, Seated
    <3>2. QED
      BY <1>14, <1>a, <2>1, <3>1, Quiet DEF ReserveListener
  <2>4. QED
    BY <2>2, <2>3
<1>15. ASSUME NEW l \in Listeners, Uncount(l) \/ UncountListener(l) PROVE Abstract!Next
  BY <1>15, UncountStands DEF Abstract!Next
<1>16. ASSUME NEW l \in Listeners, DropListener(l) PROVE Abstract!Next
  <2>1. Abstract!Leave(l, key[l]) /\ key[l] \in Keys
    BY <1>16, <1>a, DropLeaves, SessionSorts DEF DropListener, Placed
  <2>2. QED
    BY <2>1 DEF Abstract!Next
<1>17. ASSUME NEW l \in Listeners, HangUp(l) PROVE UNCHANGED Abstract!vars
  <2>1. l \in Procs /\ Moves(l, "closing") /\ KeepsPlace(l, "closing")
    BY <1>17, SessionSorts DEF HangUp, Moves, local, KeepsPlace, Counted, Seated
  <2>2. QED
    BY <1>17, <1>a, <2>1, Quiet DEF HangUp
<1>18. CASE UNCHANGED vars
  <2>1. UNCHANGED <<pc, key, channels>>
    BY <1>18 DEF vars, local
  <2>2. \A k : Owners(k)' = Owners(k) /\ Subscribed(k)' = Subscribed(k)
    BY <2>1 DEF Owners, Subscribed
  <2>3. QED
    BY <2>1, <2>2 DEF Abstract!vars, dirBar, ownerBar, subsBar, Counted, Seated
<1>19. QED
  BY <1>1, <1>2, <1>3, <1>4, <1>5, <1>6, <1>7, <1>8, <1>9, <1>10, <1>11, <1>12,
     <1>13, <1>14, <1>15, <1>16, <1>17, <1>18
  DEF Next, Shared, StreamerStep, ListenerStep

(* Every behaviour of the locks and atomics of the registry is one of the  *)
(* Directory, for any sessions, keys, objects and limits: reserve_channel  *)
(* and cleanup_channel close a key only when it has neither a publisher    *)
(* nor a listener, and admissions and departures are single steps that     *)
(* respect every limit.                                                    *)
THEOREM Refines == Spec => ImplementsDirectory
<1>1. Init => Abstract!Init
  <2> SUFFICES ASSUME Init PROVE Abstract!Init
    OBVIOUS
  <2>1. \A k : Owners(k) = {} /\ Subscribed(k) = {}
    BY DEF Init, Owners, Subscribed, Procs
  <2>2. Sole({}) = None
    BY DEF Sole
  <2>3. ownerBar = [k \in Keys |-> None] /\ subsBar = [k \in Keys |-> {}]
    BY <2>1, <2>2 DEF ownerBar, subsBar
  <2>4. dirBar = {} /\ Counted = {} /\ Seated = {}
    BY DEF Init, dirBar, Counted, Seated, Procs
  <2>5. QED
    BY <2>3, <2>4 DEF Abstract!Init
<1>2. QED
  BY <1>1, StepSimulates, Inductive, PTL DEF Spec, Abstract!Spec, ImplementsDirectory
=============================================================================
