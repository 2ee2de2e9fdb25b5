----------------------------- MODULE Blacklist ------------------------------
(***************************************************************************)
(* The stream blacklist of the VRCStreamer server: the reload task that    *)
(* replaces the list of banned stream IDs, the table that links publisher  *)
(* addresses to the banned IDs they used, the four points where a          *)
(* publisher session checks itself, and the notification that kicks a      *)
(* running session.                                                        *)
(*                                                                         *)
(* Locks.  A check holds the ID list for reading until the ban is          *)
(* recorded (location "record"); replacing the list holds it, and the ban  *)
(* table, for writing and is one step.  One Channel object stands for a    *)
(* key here: Registry's ReservedIsMapped says all reservations of a key    *)
(* are on the same one.                                                    *)
(*                                                                         *)
(* The names of the specification differ from those of IpLimits, beside    *)
(* which it is extended by LimitsProofs.                                   *)
(***************************************************************************)
EXTENDS Naturals, FiniteSets

CONSTANTS
  Sessions,     \* publisher requests, reused after they end
  Keys,         \* stream IDs
  Addresses,    \* publisher addresses
  Nil,
  MaxBans       \* MAX_STREAMER_IP_BANS

ASSUME BansAssumption ==
  /\ MaxBans \in Nat
  /\ IsFiniteSet(Addresses) /\ IsFiniteSet(Keys)
  /\ Nil \notin Keys \cup Addresses

VARIABLES
  pc, site, key, address, \* per session: location, which check, its key and address
  blacklist,          \* AppState.stream_blacklist
  bans,               \* StreamerIpBans.by_ip, as <<address, ID>> pairs
  associations,       \* StreamerIpBans.associations
  overflowed,         \* StreamerIpBans.overflowed_ids
  streamer,           \* Channel.streamer
  permit,             \* Channel.blacklist_notify holds a notification
  pending,            \* IDs the reload task has yet to look at
  loaded,             \* the ID it found a streamer for and is about to notify
  caught              \* history: pairs seen under an ID blacklisted ever since

session  == <<pc, site, key, address>>
banTable == <<bans, associations, overflowed, caught>>
reload   == <<pending, loaded>>
bansVars == <<session, blacklist, banTable, streamer, permit, reload>>

Sites == {"ingest", "startup", "notified", "final"}
Locations == {"idle", "check", "record", "ipcheck", "reserve", "count", "running", "ending"}

BansInit ==
  /\ pc = [p \in Sessions |-> "idle"]
  /\ site = [p \in Sessions |-> "ingest"]
  /\ key = [p \in Sessions |-> Nil]
  /\ address = [p \in Sessions |-> Nil]
  /\ blacklist \in SUBSET Keys
  /\ bans = {} /\ associations = 0 /\ overflowed = {} /\ caught = {}
  /\ streamer = [k \in Keys |-> FALSE]
  /\ permit = [k \in Keys |-> FALSE]
  /\ pending = {} /\ loaded = Nil

(* Where a session goes when its check at a site finds its ID listed ...   *)
WhenListed(s) == IF s \in {"ingest", "final"} THEN "idle" ELSE "ending"
(* ... and when it does not.                                               *)
WhenClear(s) == CASE s \in {"ingest", "startup"} -> "ipcheck"
                  [] s = "notified" -> "running"
                  [] s = "final" -> "idle"

Goto(p, l) ==
  /\ pc' = [pc EXCEPT ![p] = l]
  /\ IF l = "idle"
       THEN /\ key' = [key EXCEPT ![p] = Nil]
            /\ address' = [address EXCEPT ![p] = Nil]
            /\ site' = [site EXCEPT ![p] = "ingest"]
       ELSE UNCHANGED <<key, address, site>>

CheckAt(p, s) ==
  /\ pc' = [pc EXCEPT ![p] = "check"]
  /\ site' = [site EXCEPT ![p] = s]
  /\ UNCHANGED <<key, address>>
-----------------------------------------------------------------------------
(* A publisher's request reaches ingest_ws's first blacklist check.        *)
Publish(p, k, a) ==
  /\ pc[p] = "idle"
  /\ pc' = [pc EXCEPT ![p] = "check"]
  /\ key' = [key EXCEPT ![p] = k]
  /\ address' = [address EXCEPT ![p] = a]
  /\ UNCHANGED <<site, blacklist, banTable, streamer, permit, reload>>

(* block_streamer_ip_if_blacklisted, first half: look the ID up.  A listed *)
(* ID keeps the read lock.                                                 *)
Check(p) ==
  /\ pc[p] = "check"
  /\ Goto(p, IF key[p] \in blacklist THEN "record" ELSE WhenClear(site[p]))
  /\ UNCHANGED <<blacklist, banTable, streamer, permit, reload>>

(* Variant: a full table drops the ban instead of remembering the ID.      *)
RecordIfRoom(p) ==
  /\ pc[p] = "record"
  /\ LET pair == <<address[p], key[p]>> IN
       /\ caught' = caught \cup {pair}
       /\ bans' = IF associations < MaxBans THEN bans \cup {pair} ELSE bans
       /\ associations' = Cardinality(bans')
  /\ Goto(p, WhenListed(site[p]))
  /\ UNCHANGED <<overflowed, blacklist, streamer, permit, reload>>

(* Second half, under the table's write lock: link the address to the ID,  *)
(* or, when the table is full, remember the ID alone.                      *)
Record(p) ==
  /\ pc[p] = "record"
  /\ LET pair == <<address[p], key[p]>> IN
       /\ caught' = caught \cup {pair}
       /\ \/ /\ pair \in bans
             /\ UNCHANGED <<bans, associations, overflowed>>
          \/ /\ pair \notin bans
             /\ associations < MaxBans
             /\ bans' = bans \cup {pair}
             /\ associations' = associations + 1
             /\ UNCHANGED overflowed
          \/ /\ pair \notin bans
             /\ associations >= MaxBans
             /\ overflowed' = overflowed \cup {key[p]}
             /\ UNCHANGED <<bans, associations>>
  /\ Goto(p, WhenListed(site[p]))
  /\ UNCHANGED <<blacklist, streamer, permit, reload>>

(* streamer_ip_is_blocked.                                                 *)
Blocked(a) == (\E k \in Keys : <<a, k>> \in bans) \/ overflowed # {}

CheckIp(p) ==
  /\ pc[p] = "ipcheck"
  /\ Goto(p, CASE Blocked(address[p]) /\ site[p] = "ingest"   -> "idle"
               [] Blocked(address[p]) /\ site[p] = "startup"  -> "ending"
               [] ~Blocked(address[p]) /\ site[p] = "ingest"  -> "reserve"
               [] ~Blocked(address[p]) /\ site[p] = "startup" -> "running")
  /\ UNCHANGED <<blacklist, banTable, streamer, permit, reload>>

(* The check at the top of streamer_session.                               *)
StartupCheckSkipped(p) == Goto(p, "running")   \* variant
StartupCheck(p) == CheckAt(p, "startup")

(* The compare_exchange in ingest_ws: 409, or the channel is won.          *)
Reserve(p) ==
  /\ pc[p] = "reserve"
  /\ \/ /\ streamer[key[p]]
        /\ Goto(p, "idle")
        /\ UNCHANGED streamer
     \/ /\ ~streamer[key[p]]
        /\ streamer' = [streamer EXCEPT ![key[p]] = TRUE]
        /\ Goto(p, "count")
  /\ UNCHANGED <<blacklist, banTable, permit, reload>>

(* MAX_STREAMERS (any outcome here: Registry has the counter) gives the    *)
(* channel back or lets the guard be built; the guard is dropped unused    *)
(* when the WebSocket upgrade never completes.                             *)
Count(p) ==
  /\ pc[p] = "count"
  /\ \/ /\ streamer' = [streamer EXCEPT ![key[p]] = FALSE]
        /\ Goto(p, "idle")
     \/ StartupCheck(p) /\ UNCHANGED streamer
     \/ Goto(p, "ending") /\ UNCHANGED streamer
  /\ UNCHANGED <<blacklist, banTable, permit, reload>>

(* The select loop takes the notification and checks the ID again.         *)
TakeNotification(p) ==
  /\ pc[p] = "running"
  /\ permit[key[p]]
  /\ permit' = [permit EXCEPT ![key[p]] = FALSE]
  /\ CheckAt(p, "notified")
  /\ UNCHANGED <<blacklist, banTable, streamer, reload>>

(* The publisher leaves, times out or breaks a rule.                       *)
Finish(p) ==
  /\ pc[p] = "running"
  /\ Goto(p, "ending")
  /\ UNCHANGED <<blacklist, banTable, streamer, permit, reload>>

(* The check in StreamerGuard::drop.                                       *)
FinalCheckSkipped(p) == Goto(p, "idle")        \* variant
FinalCheck(p) == CheckAt(p, "final")

(* StreamerGuard::drop: the flag first, then a last check of the ID.       *)
Drop(p) ==
  /\ pc[p] = "ending"
  /\ streamer' = [streamer EXCEPT ![key[p]] = FALSE]
  /\ FinalCheck(p)
  /\ UNCHANGED <<blacklist, banTable, permit, reload>>

(* cleanup_channel may discard an unused Channel, and with it a stored     *)
(* notification.                                                           *)
Discard(k) ==
  /\ ~streamer[k]
  /\ permit[k]
  /\ permit' = [permit EXCEPT ![k] = FALSE]
  /\ UNCHANGED <<session, blacklist, banTable, streamer, reload>>
-----------------------------------------------------------------------------
IdsNeverLocked == FALSE   \* variant: released before the ban is recorded
IdsReadLocked == \E p \in Sessions : pc[p] = "record"

(* What the reload leaves of the table.                                    *)
Kept(entries) == {b \in bans : b[2] \in entries}

RecountLess(entries) ==                        \* variant: overflowed pairs too
  associations - Cardinality({b \in caught : b[2] \notin entries})
Recount(entries) == Cardinality(Kept(entries))

OverflowLeft(entries) == overflowed \cap entries

(* replace_stream_blacklist: the list changes and the bans of IDs that are *)
(* no longer on it go, under both write locks.  A file that cannot be read *)
(* or parsed keeps the previous list; a missing one is an empty list.      *)
Reload(entries) ==
  /\ pending = {} /\ loaded = Nil
  /\ ~IdsReadLocked
  /\ entries # blacklist
  /\ blacklist' = entries
  /\ bans' = Kept(entries)
  /\ associations' = Recount(entries)
  /\ overflowed' = OverflowLeft(entries)
  /\ caught' = {b \in caught : b[2] \in entries}
  /\ pending' = entries
  /\ UNCHANGED <<session, streamer, permit, loaded>>

(* notify_blacklisted_streamers loads the flag of one listed channel ...   *)
NotifyLoad(k) ==
  /\ k \in pending
  /\ loaded = Nil
  /\ pending' = pending \ {k}
  /\ loaded' = IF streamer[k] THEN k ELSE Nil
  /\ UNCHANGED <<session, blacklist, banTable, streamer, permit>>

(* ... and notifies it a moment later.                                     *)
NotifyOne ==
  /\ loaded # Nil
  /\ permit' = [permit EXCEPT ![loaded] = TRUE]
  /\ loaded' = Nil
  /\ UNCHANGED <<session, blacklist, banTable, streamer, pending>>

BansNext ==
  \/ \E p \in Sessions :
       \/ \E k \in Keys, a \in Addresses : Publish(p, k, a)
       \/ Check(p) \/ Record(p) \/ CheckIp(p) \/ Reserve(p) \/ Count(p)
       \/ TakeNotification(p) \/ Finish(p) \/ Drop(p)
  \/ \E entries \in SUBSET Keys : Reload(entries)
  \/ \E k \in Keys : NotifyLoad(k) \/ Discard(k)
  \/ NotifyOne

(* The server's own steps go on; publishers and the operator do as they    *)
(* please.  A session in its loop gets back to the notification as long as *)
(* its sends complete, which is assumed.                                   *)
Fairness ==
  /\ \A p \in Sessions :
       WF_bansVars(Check(p) \/ Record(p) \/ CheckIp(p) \/ Reserve(p)
                   \/ Count(p) \/ TakeNotification(p) \/ Drop(p))
  /\ WF_bansVars(NotifyOne \/ \E k \in Keys : NotifyLoad(k))

BansSpec == BansInit /\ [][BansNext]_bansVars
FairBansSpec == BansSpec /\ Fairness
-----------------------------------------------------------------------------
BansTypeOK ==
  /\ pc \in [Sessions -> Locations]
  /\ site \in [Sessions -> Sites]
  /\ key \in [Sessions -> Keys \cup {Nil}]
  /\ address \in [Sessions -> Addresses \cup {Nil}]
  /\ blacklist \in SUBSET Keys
  /\ bans \in SUBSET (Addresses \X Keys)
  /\ associations \in Nat
  /\ overflowed \in SUBSET Keys
  /\ streamer \in [Keys -> BOOLEAN]
  /\ permit \in [Keys -> BOOLEAN]
  /\ pending \in SUBSET Keys
  /\ loaded \in Keys \cup {Nil}
  /\ caught \in SUBSET (Addresses \X Keys)

(* The ban table's counter is the number of bans it holds and never        *)
(* exceeds its bound, through concurrent records and reloads.              *)
BansCounted == associations = Cardinality(bans) /\ associations <= MaxBans

(* A ban, and an overflowed ID, only stands for an ID that is on the list: *)
(* removing an ID frees the addresses it blocked, even when a session of   *)
(* that ID is in the middle of a check.                                    *)
NoStaleBan ==
  /\ \A b \in bans : b[2] \in blacklist
  /\ overflowed \subseteq blacklist

(* Fail closed: an address caught under an ID that has been listed ever    *)
(* since stays blocked, whether its ban was recorded or overflowed.        *)
CaughtStayBlocked == \A b \in caught : Blocked(b[1])

(* No kick is lost: a session that passed its startup check and runs under *)
(* a listed ID has a notification waiting for it or the reload task is     *)
(* still going to give it one.                                             *)
KickOnItsWay ==
  \A p \in Sessions :
    pc[p] = "running" /\ key[p] \in blacklist =>
      permit[key[p]] \/ key[p] \in pending \/ loaded = key[p]

(* A running session whose ID stays listed is caught, whether it is kicked *)
(* or slips away first.                                                    *)
RunningIsCaught ==
  \A p \in Sessions, k \in Keys, a \in Addresses :
    pc[p] = "running" /\ key[p] = k /\ address[p] = a /\ k \in blacklist
      ~> <<a, k>> \in caught \/ k \notin blacklist
=============================================================================
