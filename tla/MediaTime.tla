----------------------------- MODULE MediaTime ------------------------------
(***************************************************************************)
(* The time of a packet on its way through the VRCStreamer server: the     *)
(* publisher stamps it with a narrow counter at its track's rate, ingest   *)
(* unwraps that to one common rate (MediaTimestampNormalizer of            *)
(* websocket.rs), and a listener's media task maps it to its own play time *)
(* and back to a narrow counter (RtpMediaTimeline and RtpClock of rtsp.rs).*)
(*                                                                         *)
(* Packets are taken at ticks of now, at which every clock steps: the      *)
(* rates of the code are 8 and 15 in ticks of a 6000th of a second, and    *)
(* the common one is 8.                                                    *)
(***************************************************************************)
EXTENDS Integers, Sequences

CONSTANTS
  Tracks, None,
  Rate,                 \* AAC_SAMPLE_RATE and H264_CLOCK_RATE, in ticks of now
  Common,               \* MEDIA_CLOCK_RATE
  Modulus,              \* 2^32
  Reanchor,             \* MEDIA_TIMELINE_REANCHOR_TICKS
  Joined,               \* the media task's play_started_at, a tick of now
  Silence,              \* a track's longest silence, in ticks of now
  Buffer,               \* bound of the model: a track's packets under way
  MaxTime, MaxEpoch     \* bounds of the model

Source == 0 .. Modulus - 1
Packets == [at : Nat, media_timestamp : Nat]
Anchors == [source_timestamp : Nat, play_timestamp : Int]

(* What the theorems assume of the constants.                              *)
Configured ==
  /\ None \notin Source \cup Anchors
  /\ Common \in Nat \ {0} /\ Modulus \in Nat \ {0} /\ Reanchor \in Nat \ {0}
  /\ \A k \in Tracks : Rate[k] \in Nat \ {0}
  /\ \A k \in Tracks : Silence[k] \in Nat
  /\ {Joined, Buffer, MaxTime, MaxEpoch} \subseteq Nat

(* No track is silent for more than half its counter's range.              *)
ShortSilences == \A k \in Tracks : 2 * (Silence[k] * Rate[k]) <= Modulus

VARIABLES
  now,
  previous, wrap_offset,       \* the normalizer of each track
  sent,                        \* history: when each track's last packet was taken
  flight,                      \* each track's packets on the way to the listener
  resync_epoch,                \* as the media task has read it
  epoch, anchor,               \* RtpMediaTimeline
  lags                         \* history: how far from the time they were taken at
                               \* packets of a track were placed since a resync, and
                               \* how far the timestamps they left with are from it

publisher == <<previous, wrap_offset, sent>>
listener  == <<resync_epoch, epoch, anchor, lags>>
vars      == <<now, publisher, flight, listener>>

Init ==
  /\ now = 0
  /\ previous = [k \in Tracks |-> None] /\ wrap_offset = [k \in Tracks |-> 0]
  /\ sent = [k \in Tracks |-> 0]
  /\ flight = [k \in Tracks |-> <<>>]
  /\ resync_epoch = 0 /\ epoch = 0 /\ anchor = None
  /\ lags = {}

Tick ==
  /\ now < MaxTime /\ \A k \in Tracks : now - sent[k] < Silence[k]
  /\ now' = now + 1
  /\ UNCHANGED <<publisher, flight, listener>>
-----------------------------------------------------------------------------
(* The client stamps a packet.                                             *)
Stamp(k) == (now * Rate[k]) % Modulus

(* MediaTimestampNormalizer::normalize                                     *)
Wrapped(k) ==
  /\ previous[k] # None /\ Stamp(k) < previous[k]
  /\ previous[k] - Stamp(k) > (Modulus - 1) \div 2

Offset(k) == wrap_offset[k] + (IF Wrapped(k) THEN Modulus ELSE 0)

Normalized(k) == ((Offset(k) + Stamp(k)) * Common) \div Rate[k]

Publish(k) ==
  /\ previous[k] = None \/ sent[k] < now
  /\ Len(flight[k]) < Buffer
  /\ wrap_offset' = [wrap_offset EXCEPT ![k] = Offset(k)]
  /\ previous' = [previous EXCEPT ![k] = Stamp(k)]
  /\ sent' = [sent EXCEPT ![k] = now]
  /\ flight' = [flight EXCEPT
       ![k] = Append(@, [at |-> now, media_timestamp |-> Normalized(k)])]
  /\ UNCHANGED <<now, listener>>
-----------------------------------------------------------------------------
(* A receiver that lags, or has a backlog, goes on with the newest.        *)
Drop(k) ==
  /\ flight[k] # <<>>
  /\ flight' = [flight EXCEPT ![k] = <<>>]
  /\ UNCHANGED <<now, publisher, listener>>

(* The media task reads a new epoch, and both tracks subscribe anew.       *)
Resync ==
  /\ now >= Joined /\ resync_epoch < MaxEpoch
  /\ resync_epoch' = resync_epoch + 1
  /\ flight' = [k \in Tracks |-> <<>>]
  /\ UNCHANGED <<now, publisher, epoch, anchor, lags>>

Kept == epoch = resync_epoch /\ anchor # None

(* RtpClock::media_timestamp                                               *)
ClockTime == (now - Joined) * Common

(* The anchor a packet is mapped by, and the one it leaves.                *)
AnchorFor(packet) ==
  IF Kept THEN anchor
  ELSE [source_timestamp |-> packet.media_timestamp, play_timestamp |-> ClockTime]

PlayTime(packet) ==
  AnchorFor(packet).play_timestamp
    + (packet.media_timestamp - AnchorFor(packet).source_timestamp)

Moved(packet) ==
  IF packet.media_timestamp - AnchorFor(packet).source_timestamp >= Reanchor
    THEN [source_timestamp |-> packet.media_timestamp, play_timestamp |-> PlayTime(packet)]
    ELSE AnchorFor(packet)

(* The division of i64, which truncates: a packet that was taken before    *)
(* the one at the anchor may have a negative play time.                    *)
Quotient(x) == IF x >= 0 THEN x \div Common ELSE -((-x) \div Common)

(* RtpClock::timestamp_at, from a base of 0.                               *)
TimestampAt(k, play_timestamp) == Quotient(play_timestamp * Rate[k]) % Modulus

Lag(k, packet) ==
  [track |-> k, lag |-> PlayTime(packet) - packet.at * Common,
   offset |-> (TimestampAt(k, PlayTime(packet)) - packet.at * Rate[k]) % Modulus]

(* handle_event: RtpMediaTimeline::map of the packet received.             *)
Map(k) ==
  /\ now >= Joined /\ flight[k] # <<>>
  /\ LET packet == Head(flight[k]) IN
     /\ anchor' = Moved(packet)
     /\ lags' = (IF Kept THEN lags ELSE {}) \cup {Lag(k, packet)}
  /\ epoch' = resync_epoch
  /\ flight' = [flight EXCEPT ![k] = Tail(@)]
  /\ UNCHANGED <<now, publisher, resync_epoch>>

Next ==
  \/ Tick
  \/ Resync
  \/ \E k \in Tracks : Publish(k) \/ Drop(k) \/ Map(k)

Spec == Init /\ [][Next]_vars
-----------------------------------------------------------------------------
TypeOK ==
  /\ now \in Nat
  /\ previous \in [Tracks -> Source \cup {None}] /\ wrap_offset \in [Tracks -> Nat]
  /\ sent \in [Tracks -> Nat]
  /\ flight \in [Tracks -> Seq(Packets)]
  /\ resync_epoch \in Nat /\ epoch \in Nat
  /\ anchor \in Anchors \cup {None}
  /\ lags \subseteq [track : Tracks, lag : Int, offset : Source]

(* No silence being longer than half a counter's range, what a listener    *)
(* gets of either track since a resync is placed at one distance from the  *)
(* time it was taken at, across wraps, re-anchoring, losses and delays.    *)
OneLag == \A a, b \in lags : a.lag = b.lag

(* A conversion between two rates rounds, and there are two of them.       *)
Rounding(k) == (Rate[k] - 1) \div Common + 1

(* A negative quotient that is truncated is one tick later.                *)
Truncation(k) == IF Rate[k] % Common = 0 THEN 0 ELSE 1

(* However long a track was silent, and however often its counter wrapped  *)
(* unseen, the timestamps that leave are those of one clock, up to the     *)
(* rounding: a wrap that was missed is one of the track's own counter.     *)
TracksAgree ==
  \E lag \in 0 .. Modulus * Common - 1 : \A a \in lags :
    (TimestampAt(a.track, lag) - a.offset + Truncation(a.track)) % Modulus
      <= Rounding(a.track) + Truncation(a.track)
=============================================================================
