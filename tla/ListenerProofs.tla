--------------------------- MODULE ListenerProofs ---------------------------
(***************************************************************************)
(* Proofs about what a listener gets: RtspSession, for any streams, range  *)
(* of channels, limit of requests and deadline; and MediaTime, for any     *)
(* tracks, rates, counters, delays, losses and resyncs.                    *)
(***************************************************************************)
EXTENDS RtspSession, Integers, Sequences, TLAPS

(* Without a Media3 player nothing is omitted, so the subscription has     *)
(* both receivers until PLAY; and the key is that of the subscription      *)
(* until another stream is described.                                      *)
Subscribed ==
  /\ guard = None => setup = {} /\ accepted = {}
  /\ ~media3 => ~omitted
  /\ ~media3 /\ ~Playing /\ guard # None => receivers = Tracks
  /\ ~redescribed /\ guard # None => key = guard

Apart(one, other) == \A a, v \in {0, 1} : one + a # other + v

IInv == TypeOK /\ Subscribed /\ ChannelsDisjoint /\ OneStream

LEMMA Initially == Init => IInv
<1> SUFFICES ASSUME Init PROVE IInv
  OBVIOUS
<1>1. TypeOK
  <2>1. remaining \in 0 .. Timeout /\ requests \in 0 .. MaxRequests /\ 0 \in 0 .. Top - 1
    BY RtspAssumption DEF Init
  <2>2. channel \in [Tracks -> 0 .. Top - 1]
    BY <2>1 DEF Init
  <2> QED
    BY <2>1, <2>2 DEF Init, TypeOK
<1>2. Subscribed /\ OneStream
  BY DEF Init, Subscribed, OneStream, Playing
<1>3. ChannelsDisjoint
  BY DEF Init, ChannelsDisjoint, Tracks
<1> QED
  BY <1>1, <1>2, <1>3 DEF IInv

(* Pairs that do not overlap share no channel.                             *)
LEMMA OverlapIsNotApart == \A c, d \in Nat : ~Overlap(c, d) => Apart(c, d) /\ Apart(d, c)
  BY DEF Overlap, Apart

(* Of channels 0, 2 and 4 one is free of any other pair.                   *)
LEMMA SelectedFits ==
  ASSUME TypeOK, NEW track \in Tracks, NEW requested \in Channels \cup {None}
  PROVE  /\ Selected(track, requested) \in 0 .. Top - 1
         /\ Available(track, Selected(track, requested))
<1> DEFINE free == {c \in Channels : c % 2 = 0 /\ c <= Top - 3 /\ Available(track, c)}
           taken == channel[Other(track)]
<1>1. Top \in Nat /\ Top >= 7 /\ None \notin Nat
  BY RtspAssumption
<1>2. taken \in 0 .. Top - 1
  BY DEF TypeOK, Other, Tracks
<1>3. \E c \in {0, 2, 4} : ~Overlap(c, taken)
  BY <1>1, <1>2 DEF Overlap
<1>4. \A c \in {0, 2, 4} : c \in Channels /\ c % 2 = 0 /\ c <= Top - 3 /\ c # Top
  BY <1>1 DEF Channels
<1>5. free # {}
  BY <1>3, <1>4 DEF Available, Fits
<1>6. free \in SUBSET Nat
  BY <1>1 DEF Channels
<1>7. \E c \in free : \A d \in free : c <= d
  <2>1. \A d \in free : d \in Nat /\ d % 2 = 0
    BY <1>6
  <2>2. {0, 2, 4} \cap free # {}
    BY <1>3, <1>4 DEF Available, Fits
  <2> HIDE DEF free
  <2>3. CASE 0 \in free
    BY <2>1, <2>3
  <2>4. CASE 0 \notin free /\ 2 \in free
    <3>1. \A d \in free : d # 0 /\ d # 1
      BY <2>1, <2>4
    <3> QED
      BY <2>1, <2>4, <3>1
  <2>5. CASE 0 \notin free /\ 2 \notin free
    <3>1. \A d \in free : d # 0 /\ d # 1 /\ d # 2 /\ d # 3
      BY <2>1, <2>5
    <3> QED
      BY <2>1, <2>2, <2>5, <3>1
  <2> QED
    BY <2>3, <2>4, <2>5
<1>8. Preferred(track, requested) \in Channels
  BY <1>1 DEF Preferred, Channels
<1>9. Selected(track, requested) \in Channels /\ Available(track, Selected(track, requested))
  <2>1. CASE Available(track, Preferred(track, requested))
    BY <2>1, <1>8 DEF Selected
  <2>2. CASE ~Available(track, Preferred(track, requested))
    <3> DEFINE least == CHOOSE c \in free : \A d \in free : c <= d
    <3>1. least \in free
      BY <1>7
    <3>2. Selected(track, requested) = least
      BY <2>2, <1>5 DEF Selected
    <3> QED
      BY <3>1, <3>2
  <2> QED
    BY <2>1, <2>2
<1> QED
  BY <1>1, <1>9 DEF Channels, Available, Fits

LEMMA RequestTypes ==
  TypeOK /\ Request => /\ open' \in BOOLEAN /\ remaining' \in 0 .. Timeout
                       /\ requests' \in 0 .. MaxRequests /\ media3' \in BOOLEAN
<1> SUFFICES ASSUME TypeOK, Request
             PROVE  /\ open' \in BOOLEAN /\ remaining' \in 0 .. Timeout
                    /\ requests' \in 0 .. MaxRequests /\ media3' \in BOOLEAN
  OBVIOUS
<1>1. requests' \in 0 .. MaxRequests
  BY RtspAssumption DEF Request, TypeOK
<1>2. open' \in BOOLEAN /\ remaining' \in 0 .. Timeout /\ media3' \in BOOLEAN
  BY DEF Request, TypeOK
<1> QED
  BY <1>1, <1>2

LEMMA AskStep == IInv /\ Ask => IInv'
<1> SUFFICES ASSUME IInv, Ask PROVE IInv'
  OBVIOUS
<1>1. /\ UNCHANGED <<key, guard, receivers, setup, channel, omitted, media>>
      /\ UNCHANGED <<accepted, redescribed>> /\ Request /\ TypeOK
  BY DEF Ask, session, history, IInv
<1>2. TypeOK'
  BY <1>1, RequestTypes, Zenon DEF TypeOK
<1>3. ~media3' => ~media3
  BY <1>1 DEF Request, TypeOK
<1>4. Subscribed'
  BY <1>1, <1>3, Zenon DEF IInv, Subscribed, Playing
<1> QED
  BY <1>1, <1>2, <1>4, Zenon DEF IInv, ChannelsDisjoint, OneStream

LEMMA DescribeStep ==
  ASSUME IInv, NEW stream \in Streams, NEW live \in BOOLEAN, Describe(stream, live)
  PROVE  IInv'
<1>1. /\ Request /\ TypeOK /\ key' = stream /\ omitted' = (media3' /\ ~live)
      /\ redescribed' = (redescribed \/ (guard # None /\ stream # guard))
      /\ UNCHANGED <<guard, receivers, setup, channel, media, accepted>>
  BY DEF Describe, IInv
<1>2. TypeOK'
  <2>1. omitted' \in BOOLEAN /\ redescribed' \in BOOLEAN
    BY <1>1, RequestTypes DEF TypeOK
  <2> QED
    BY <1>1, <2>1, RequestTypes, Zenon DEF TypeOK
<1>3. ~media3' => ~media3
  BY <1>1 DEF Request, TypeOK
<1>4. Subscribed'
  BY <1>1, <1>3 DEF IInv, Subscribed, Playing
<1>5. OneStream' /\ ChannelsDisjoint'
  BY <1>1 DEF IInv, OneStream, ChannelsDisjoint
<1> QED
  BY <1>2, <1>4, <1>5 DEF IInv

LEMMA SetupStep ==
  ASSUME IInv, NEW uri \in Streams \cup {None}, NEW asked \in Tracks,
         NEW requested \in Channels \cup {None}, Setup(uri, asked, requested)
  PROVE  IInv'
<1> DEFINE stream == IF uri # None THEN uri ELSE key
           track == Track(asked)
           selected == Selected(track, requested)
<1>1. /\ Request /\ TypeOK /\ stream # None /\ SetupFor(stream)
      /\ IF guard = None THEN guard' = stream /\ receivers' = FirstReceivers
                         ELSE UNCHANGED <<guard, receivers>>
      /\ key' = stream
      /\ channel' = [channel EXCEPT ![track] = selected]
      /\ setup' = setup \cup {track}
      /\ accepted' = accepted \cup {stream}
      /\ UNCHANGED <<omitted, media, redescribed>>
  BY DEF Setup, IInv
<1>2. track \in Tracks /\ stream \in Streams
  BY <1>1 DEF Track, Tracks, TypeOK
<1>3. selected \in 0 .. Top - 1 /\ Available(track, selected)
  BY <1>1, <1>2, SelectedFits
<1> HIDE DEF stream, track, selected
<1>4. channel \in [Tracks -> 0 .. Top - 1] /\ channel' \in [Tracks -> 0 .. Top - 1]
  BY <1>1, <1>2, <1>3 DEF TypeOK
<1>5. TypeOK'
  <2>1. /\ key' \in Streams \cup {None} /\ guard' \in Streams \cup {None}
        /\ receivers' \subseteq Tracks
    BY <1>1, <1>2 DEF TypeOK, FirstReceivers, Tracks
  <2>2. setup' \subseteq Tracks /\ accepted' \subseteq Streams
    BY <1>1, <1>2 DEF TypeOK
  <2> QED
    BY <1>1, <1>4, <2>1, <2>2, RequestTypes, Zenon DEF TypeOK
<1>6. ~media3' => ~media3
  BY <1>1 DEF Request, TypeOK
<1>7. Subscribed'
  BY <1>1, <1>6 DEF IInv, Subscribed, Playing, SetupFor, FirstReceivers, Advertised
<1>8. OneStream'
  BY <1>1 DEF IInv, Subscribed, OneStream, SetupFor
<1>9. ChannelsDisjoint'
  <2> SUFFICES ASSUME setup' = Tracks PROVE Apart(channel'["audio"], channel'["video"])
    BY DEF ChannelsDisjoint, Apart
  <2>1. Other(track) \in setup /\ Other(track) \in Tracks /\ Other(track) # track
    BY <1>1, <1>2 DEF Other, Tracks
  <2>2. ~Overlap(selected, channel[Other(track)])
    BY <1>3, <2>1 DEF Available
  <2>3. channel'[track] = selected /\ channel'[Other(track)] = channel[Other(track)]
    BY <1>1, <1>2, <1>4, <2>1
  <2>4. channel[Other(track)] \in Nat /\ selected \in Nat
    BY <1>3, <1>4, <2>1
  <2>5. /\ Apart(channel'[track], channel'[Other(track)])
        /\ Apart(channel'[Other(track)], channel'[track])
    BY <2>2, <2>3, <2>4, OverlapIsNotApart
  <2> QED
    BY <1>2, <2>5 DEF Other, Tracks
<1> QED
  BY <1>5, <1>7, <1>8, <1>9 DEF IInv

LEMMA PlayStep == IInv /\ Play => IInv'
<1> SUFFICES ASSUME IInv, Play PROVE IInv'
  OBVIOUS
<1>1. /\ Request /\ TypeOK /\ setup # {} /\ ~Playing
      /\ receivers' = IF "audio" \in setup \ receivers THEN receivers ELSE receivers \ setup
      /\ media' = IF setup \subseteq receivers THEN setup ELSE None
      /\ UNCHANGED <<key, guard, setup, channel, omitted>>
      /\ UNCHANGED <<accepted, redescribed>>
  BY DEF Play, IInv, history
<1>2. TypeOK'
  <2>1. receivers' \subseteq Tracks /\ media' \in {None} \cup SUBSET Tracks
    BY <1>1 DEF TypeOK
  <2> QED
    BY <1>1, <2>1, RequestTypes, Zenon DEF TypeOK
<1>3. ~media3' => ~media3
  BY <1>1 DEF Request, TypeOK
<1>4. Subscribed'
  <2>1. ~media3' => media' = setup /\ guard # None
    <3> SUFFICES ASSUME ~media3' PROVE media' = setup /\ guard # None
      OBVIOUS
    <3>1. guard # None
      BY <1>1 DEF IInv, Subscribed
    <3>2. receivers = Tracks
      BY <1>1, <1>3, <3>1 DEF IInv, Subscribed
    <3> QED
      BY <1>1, <3>1, <3>2 DEF TypeOK
  <2>2. ~media3' => Playing'
    BY <1>1, <2>1, RtspAssumption DEF Playing, TypeOK
  <2> QED
    BY <1>1, <1>3, <2>2, Zenon DEF IInv, Subscribed
<1> QED
  BY <1>1, <1>2, <1>4, Zenon DEF IInv, ChannelsDisjoint, OneStream

(* Steps that leave the session as it is.                                  *)
LEMMA SameSession ==
  ASSUME IInv, open' \in BOOLEAN, remaining' \in 0 .. Timeout,
         UNCHANGED <<requests, session, media3, history>>
  PROVE  IInv'
<1>1. /\ UNCHANGED <<key, guard, receivers, setup, channel, omitted, media>>
      /\ UNCHANGED <<accepted, redescribed, requests, media3>>
  BY DEF session, history
<1>2. TypeOK'
  BY <1>1, Zenon DEF IInv, TypeOK
<1>3. Subscribed'
  <2>1. (~media3' => ~media3) /\ (~redescribed' => ~redescribed) /\ (~omitted => ~omitted')
    BY <1>1
  <2> QED
    BY <1>1, <2>1 DEF IInv, Subscribed, Playing
<1>4. ChannelsDisjoint' /\ OneStream'
  BY <1>1, Zenon DEF IInv, ChannelsDisjoint, OneStream
<1> QED
  BY <1>2, <1>3, <1>4 DEF IInv

LEMMA ClosedStep == IInv /\ Closed => IInv'
<1> SUFFICES ASSUME IInv, Closed PROVE IInv'
  OBVIOUS
<1>1. open' \in BOOLEAN /\ remaining' \in 0 .. Timeout
  BY DEF Closed, IInv, TypeOK
<1> QED
  BY <1>1, SameSession DEF Closed

LEMMA TimeStep == IInv /\ (Tick \/ Interleaved) => IInv'
<1> SUFFICES ASSUME IInv, Tick \/ Interleaved PROVE IInv'
  OBVIOUS
<1>1. open' \in BOOLEAN /\ UNCHANGED <<requests, session, media3, history>>
  BY DEF Tick, Interleaved, IInv, TypeOK
<1>2. remaining' \in 0 .. Timeout
  BY RtspAssumption DEF Tick, Interleaved, TimeLeft, IInv, TypeOK
<1> QED
  BY <1>1, <1>2, SameSession

LEMMA Inductive == IInv /\ [Next]_vars => IInv'
<1> SUFFICES ASSUME IInv, [Next]_vars PROVE IInv'
  OBVIOUS
<1>1. CASE Ask
  BY <1>1, AskStep
<1>2. ASSUME NEW stream \in Streams, NEW live \in BOOLEAN, Describe(stream, live)
      PROVE  IInv'
  BY <1>2, DescribeStep
<1>3. ASSUME NEW uri \in Streams \cup {None}, NEW asked \in Tracks,
             NEW requested \in Channels \cup {None}, Setup(uri, asked, requested)
      PROVE  IInv'
  BY <1>3, SetupStep
<1>4. CASE Play
  BY <1>4, PlayStep
<1>5. CASE End \/ MediaEnds \/ TimeOut
  BY <1>5, ClosedStep DEF End, MediaEnds, TimeOut
<1>6. CASE Tick \/ Interleaved
  BY <1>6, TimeStep
<1>7. CASE UNCHANGED vars
  <2>1. open' \in BOOLEAN /\ remaining' \in 0 .. Timeout
    BY <1>7 DEF vars, IInv, TypeOK
  <2>2. UNCHANGED <<requests, session, media3, history>>
    BY <1>7 DEF vars, session, history
  <2> QED
    BY <2>1, <2>2, SameSession
<1> QED
  BY <1>1, <1>2, <1>3, <1>4, <1>5, <1>6, <1>7 DEF Next

LEMMA Parts == IInv => TypeOK /\ ChannelsDisjoint /\ OneStream /\ Playable
<1> SUFFICES ASSUME IInv, ~media3, ~Playing PROVE setup \subseteq receivers
  BY DEF IInv, Playable
<1>1. CASE guard = None
  BY <1>1 DEF IInv, Subscribed
<1>2. CASE guard # None
  BY <1>2 DEF IInv, Subscribed, TypeOK
<1> QED
  BY <1>1, <1>2

LEMMA Always == Spec => []IInv
  BY Initially, Inductive, PTL DEF Spec

(* Types, and every pair of channels fits (handle_rtsp_request).           *)
THEOREM TypeCorrect == Spec => []TypeOK
  BY Always, Parts, PTL

(* select_rtsp_interleaved_channel keeps the tracks apart, for any range   *)
(* of channels of at least eight.                                          *)
THEOREM TracksApart == Spec => []ChannelsDisjoint
  BY Always, Parts, PTL

(* What SETUP accepted has a receiver for PLAY (a player without Media3).  *)
THEOREM SetupIsPlayable == Spec => []Playable
  BY Always, Parts, PTL

(* SETUP's comparison of keys holds a session to its subscription, until   *)
(* DESCRIBE overwrites the key.                                            *)
THEOREM StreamKept == Spec => []OneStream
  BY Always, Parts, PTL
-----------------------------------------------------------------------------
(* The time of the packets. It is an instance, whose constants and         *)
(* variables are its own: it holds for any tracks, not just for two.       *)
CONSTANTS MediaTracks, Rate, Common, Modulus, Reanchor, Joined, Silence, Buffer, MaxTime, MaxEpoch
VARIABLES now, previous, wrap_offset, sent, flight, resync_epoch, epoch, anchor, lags

Media == INSTANCE MediaTime WITH Tracks <- MediaTracks

LEMMA Division == \A m \in Nat \ {0}, x \in Nat :
  /\ x \div m \in Nat /\ x % m \in 0 .. m - 1
  /\ x = m * (x \div m) + (x % m)
  OBVIOUS

LEMMA Floored == \A m \in Nat \ {0}, x \in Int :
  /\ x \div m \in Int /\ x % m \in 0 .. m - 1
  /\ x = m * (x \div m) + (x % m)
  OBVIOUS

LEMMA Divided ==
  ASSUME NEW m \in Nat \ {0}, NEW x \in Int, NEW q \in Int, NEW p \in 0 .. m - 1, x = m * q + p
  PROVE  x \div m = q /\ x % m = p
<1> DEFINE a == x \div m
           b == x % m
<1>1. a \in Int /\ b \in 0 .. m - 1 /\ x = m * a + b
  BY Floored
<1> HIDE DEF a, b
<1> DEFINE d == a - q
<1>2. d \in Int /\ m * d = p - b
  BY <1>1
<1>3. ~(d >= 1)
  <2> SUFFICES ASSUME d >= 1 PROVE FALSE
    OBVIOUS
  <2>1. d - 1 \in Nat /\ m * (d - 1) \in Nat /\ m * d = m * (d - 1) + m
    BY <1>2
  <2> QED
    BY <1>1, <1>2, <2>1
<1>4. ~(d <= -1)
  <2> SUFFICES ASSUME d <= -1 PROVE FALSE
    OBVIOUS
  <2>1. -1 - d \in Nat /\ m * (-1 - d) \in Nat /\ m * d = -(m * (-1 - d)) - m
    BY <1>2
  <2> QED
    BY <1>1, <1>2, <2>1
<1>5. a = q
  BY <1>1, <1>2, <1>3, <1>4
<1>6. b = p
  BY <1>1, <1>5
<1> QED
  BY <1>5, <1>6 DEF a, b

LEMMA Shifts ==
  ASSUME NEW m \in Nat \ {0}, NEW x \in Int, NEW q \in Int
  PROVE  /\ (x + m * q) \div m = (x \div m) + q
         /\ (x + m * q) % m = x % m
<1> DEFINE a == x \div m
           b == x % m
           y == x + m * q
<1>1. a \in Int /\ b \in 0 .. m - 1 /\ x = m * a + b
  BY Floored
<1> HIDE DEF a, b
<1>2. m * q \in Int /\ m * a \in Int /\ m * (a + q) = m * a + m * q /\ a + q \in Int
  BY <1>1
<1>3. y \in Int /\ y = m * (a + q) + b
  BY <1>1, <1>2
<1> HIDE DEF y
<1>4. y \div m = a + q /\ y % m = b
  BY <1>1, <1>2, <1>3, Divided
<1> QED
  BY <1>4 DEF a, b, y

LEMMA Exact == \A m \in Nat \ {0}, x \in Nat : (m * x) \div m = x
<1> SUFFICES ASSUME NEW m \in Nat \ {0}, NEW x \in Nat PROVE (m * x) \div m = x
  OBVIOUS
<1>1. m * x \in Int /\ m * x = m * x + 0 /\ 0 \in 0 .. m - 1
  OBVIOUS
<1> QED
  BY <1>1, Divided

(* The division of the code is at most one above the floor, and none where *)
(* the common rate divides the track's.                                    *)
LEMMA Truncated ==
  ASSUME Media!Configured, NEW k \in MediaTracks, NEW t \in Int
  PROVE  \E late \in 0 .. Media!Truncation(k) :
           Media!Quotient(t * Rate[k]) = ((t * Rate[k]) \div Common) + late
<1> DEFINE r == Rate[k]
           x == t * r
           q == x \div Common
           o == x % Common
<1>1. r \in Nat \ {0} /\ Common \in Nat \ {0} /\ x \in Int
  BY DEF Media!Configured
<1>2. Media!Truncation(k) = IF r % Common = 0 THEN 0 ELSE 1
  BY DEF Media!Truncation
<1>3. Media!Quotient(x) = IF x >= 0 THEN q ELSE -((-x) \div Common)
  BY DEF Media!Quotient
<1>4. r % Common = 0 => o = 0
  <2> SUFFICES ASSUME r % Common = 0 PROVE o = 0
    OBVIOUS
  <2> DEFINE h == r \div Common
             g == r % Common
  <2>1. g = 0
    OBVIOUS
  <2>2. h \in Int /\ r = Common * h + g
    <3>1. r \in Int /\ Common \in Nat \ {0}
      BY <1>1
    <3>2. \A y \in Int : y \div Common \in Int /\ y = Common * (y \div Common) + (y % Common)
      BY <3>1, Floored
    <3> QED
      BY <3>1, <3>2
  <2> HIDE DEF h, g
  <2>3. x = Common * (t * h) + 0 /\ t * h \in Int /\ 0 \in 0 .. Common - 1
    BY <1>1, <2>1, <2>2
  <2> HIDE DEF x
  <2> QED
    BY <1>1, <2>3, Divided
<1> HIDE DEF x
<1>5. q \in Int /\ o \in 0 .. Common - 1 /\ x = Common * q + o
  BY <1>1, Floored
<1> HIDE DEF q, o
<1>6. CASE o = 0
  <2>1. -x = Common * (-q) + 0 /\ -q \in Int /\ -x \in Int /\ 0 \in 0 .. Common - 1
    BY <1>1, <1>5, <1>6
  <2>2. (-x) \div Common = -q
    BY <1>1, <2>1, Divided
  <2>3. Media!Quotient(x) = q + 0 /\ 0 \in 0 .. Media!Truncation(k)
    BY <1>2, <1>3, <1>5, <2>2
  <2> QED
    BY <2>3 DEF x, q
<1>7. CASE o # 0
  <2> DEFINE i == -q - 1
             p == Common - o
  <2>1. i \in Int /\ -x \in Int /\ p \in 0 .. Common - 1
    BY <1>1, <1>5, <1>7
  <2>2. -x = Common * i + p
    BY <1>1, <1>5
  <2> HIDE DEF i, p
  <2>3. (-x) \div Common = i
    BY <1>1, <2>1, <2>2, Divided
  <2>4. (-x) \div Common = -q - 1
    BY <2>3 DEF i
  <2>5. Media!Truncation(k) = 1 /\ Media!Quotient(x) \in {q + 0, q + 1}
    BY <1>2, <1>3, <1>4, <1>5, <1>7, <2>4
  <2> QED
    BY <2>5 DEF x, q
<1> QED
  BY <1>6, <1>7

(* A counter that moved by at most half its range has wrapped just when it *)
(* stepped back by more than that.                                         *)
LEMMA HalfRange ==
  ASSUME NEW m \in Nat \ {0}, NEW x \in Nat, NEW y \in Nat, x <= y, 2 * (y - x) <= m
  PROVE  y - (y % m) = (x - (x % m))
           + (IF (y % m) < (x % m) /\ (x % m) - (y % m) > (m - 1) \div 2 THEN m ELSE 0)
<1> DEFINE a == x \div m
           b == y \div m
           p == x % m
           q == y % m
           h == (m - 1) \div 2
<1>1. /\ a \in Nat /\ p \in 0 .. m - 1 /\ x = m * a + p
      /\ b \in Nat /\ q \in 0 .. m - 1 /\ y = m * b + q
  BY Division
<1>2. h \in Nat /\ 2 * h <= m - 1
  OBVIOUS
<1> HIDE DEF a, b, p, q, h
<1>3. b - a \in Int /\ m * (b - a) = m * b - m * a /\ m * a \in Nat /\ m * b \in Nat
  BY <1>1
<1>4. m * (b - a) = (y - x) + p - q
  BY <1>1, <1>3
<1>5. ~(b - a <= -1)
  <2> SUFFICES ASSUME b - a <= -1 PROVE FALSE
    OBVIOUS
  <2> DEFINE d == -1 - (b - a)
  <2>1. d \in Nat /\ m * d \in Nat /\ m * (b - a) = -(m * d) - m
    BY <1>3
  <2> QED
    BY <1>1, <1>4, <2>1
<1>6. ~(b - a >= 2)
  <2> SUFFICES ASSUME b - a >= 2 PROVE FALSE
    OBVIOUS
  <2> DEFINE d == (b - a) - 2
  <2>1. d \in Nat /\ m * d \in Nat /\ m * (b - a) = m * d + 2 * m
    BY <1>3
  <2> QED
    BY <1>1, <1>4, <2>1
<1>7. CASE b = a
  <2>1. q - p = y - x /\ m * b = m * a
    BY <1>1, <1>3, <1>4, <1>7
  <2>2. y - q = x - p /\ ~(q < p)
    BY <1>1, <1>3, <2>1
  <2> QED
    BY <2>2 DEF p, q
<1>8. CASE b = a + 1
  <2>1. m * (b - a) = m
    BY <1>1, <1>8
  <2>2. p - q = m - (y - x)
    BY <1>1, <1>4, <2>1
  <2>3. q < p /\ p - q > h
    BY <1>1, <1>2, <2>2
  <2>4. y - q = x - p + m
    BY <1>1, <1>3, <2>1
  <2> QED
    BY <2>3, <2>4 DEF p, q, h
<1> QED
  BY <1>1, <1>5, <1>6, <1>7, <1>8
LEMMA TailAt == \A s \in Seq(Media!Packets) : s # <<>> =>
  \A i \in 1 .. Len(Tail(s)) : i + 1 \in 1 .. Len(s) /\ Tail(s)[i] = s[i + 1]
<1> SUFFICES ASSUME NEW s \in Seq(Media!Packets), s # <<>>, NEW i \in 1 .. Len(Tail(s))
             PROVE  i + 1 \in 1 .. Len(s) /\ Tail(s)[i] = s[i + 1]
  OBVIOUS
<1>1. Len(s) \in Nat /\ Len(Tail(s)) = Len(s) - 1
  OBVIOUS
<1> QED
  BY <1>1
-----------------------------------------------------------------------------
(* The steps of the media time, whatever the silences.                     *)

(* The packets of a track under way, and the one that Publish adds.        *)
Under(k) == {flight[k][i] : i \in 1 .. Len(flight[k])}
Stamped(k) == [at |-> now, media_timestamp |-> Media!Normalized(k)]

(* Play time is this far ahead of media time.                              *)
Distance == anchor.play_timestamp - anchor.source_timestamp

LEMMA StampIsTyped ==
  ASSUME Media!Configured, Media!TypeOK, NEW k \in MediaTracks
  PROVE  /\ Media!Stamp(k) \in Media!Source /\ Media!Offset(k) \in Nat
         /\ Media!Offset(k) \in {wrap_offset[k], wrap_offset[k] + Modulus}
         /\ Stamped(k) \in Media!Packets
<1>1. /\ Rate[k] \in Nat \ {0} /\ Modulus \in Nat \ {0} /\ Common \in Nat \ {0}
      /\ now \in Nat /\ wrap_offset[k] \in Nat
  BY DEF Media!Configured, Media!TypeOK
<1>2. Media!Stamp(k) \in Media!Source
  <2>1. now * Rate[k] \in Nat
    BY <1>1
  <2> QED
    BY <1>1, <2>1, Division DEF Media!Stamp, Media!Source
<1>3. Media!Offset(k) \in Nat /\ Media!Offset(k) \in {wrap_offset[k], wrap_offset[k] + Modulus}
  BY <1>1 DEF Media!Offset
<1>4. Media!Normalized(k) \in Nat
  <2>1. (Media!Offset(k) + Media!Stamp(k)) * Common \in Nat
    BY <1>1, <1>2, <1>3 DEF Media!Source
  <2> QED
    BY <1>1, <2>1, Division DEF Media!Normalized
<1> QED
  BY <1>1, <1>2, <1>3, <1>4 DEF Stamped, Media!Packets

LEMMA Ingested ==
  ASSUME Media!TypeOK, [Media!Next]_Media!vars, NEW k \in MediaTracks
  PROVE  \/ /\ Media!Publish(k) /\ now' = now /\ sent'[k] = now
            /\ previous'[k] = Media!Stamp(k) /\ wrap_offset'[k] = Media!Offset(k)
         \/ /\ sent'[k] = sent[k] /\ previous'[k] = previous[k]
            /\ wrap_offset'[k] = wrap_offset[k]
            /\ now' = now \/ (now' = now + 1 /\ now - sent[k] < Silence[k])
<1>1. CASE Media!Tick
  BY <1>1 DEF Media!Tick, Media!publisher
<1>2. ASSUME NEW j \in MediaTracks, Media!Publish(j)
      PROVE  \/ /\ Media!Publish(k) /\ now' = now /\ sent'[k] = now
                /\ previous'[k] = Media!Stamp(k) /\ wrap_offset'[k] = Media!Offset(k)
             \/ /\ sent'[k] = sent[k] /\ previous'[k] = previous[k]
                /\ wrap_offset'[k] = wrap_offset[k] /\ now' = now
  <2>1. /\ wrap_offset' = [wrap_offset EXCEPT ![j] = Media!Offset(j)]
        /\ previous' = [previous EXCEPT ![j] = Media!Stamp(j)]
        /\ sent' = [sent EXCEPT ![j] = now] /\ now' = now
    BY <1>2 DEF Media!Publish
  <2>2. /\ previous \in [MediaTracks -> Media!Source \cup {None}]
        /\ wrap_offset \in [MediaTracks -> Nat] /\ sent \in [MediaTracks -> Nat]
    BY DEF Media!TypeOK
  <2> QED
    BY <1>2, <2>1, <2>2, Zenon
<1>3. CASE UNCHANGED <<now, Media!publisher>>
  BY <1>3 DEF Media!publisher
<1>4. Media!Resync \/ (\E j \in MediaTracks : Media!Drop(j) \/ Media!Map(j)) \/ UNCHANGED Media!vars
        => UNCHANGED <<now, Media!publisher>>
  BY DEF Media!Resync, Media!Drop, Media!Map, Media!vars
<1> QED
  BY <1>1, <1>2, <1>3, <1>4 DEF Media!Next

LEMMA Underway ==
  ASSUME Media!TypeOK, [Media!Next]_Media!vars, NEW k \in MediaTracks, NEW p \in Under(k)'
  PROVE  p \in Under(k) \/ (Media!Publish(k) /\ p = Stamped(k))
<1>1. flight \in [MediaTracks -> Seq(Media!Packets)] /\ flight[k] \in Seq(Media!Packets)
  BY DEF Media!TypeOK
<1>2. PICK i \in 1 .. Len(flight'[k]) : p = flight'[k][i]
  BY DEF Under
<1>3. CASE flight'[k] = flight[k]
  BY <1>2, <1>3 DEF Under
<1>4. CASE flight'[k] = <<>>
  BY <1>2, <1>4
<1>5. CASE Media!Publish(k) /\ flight'[k] = Append(flight[k], Stamped(k))
  <2>1. CASE i = Len(flight[k]) + 1
    BY <1>1, <1>2, <1>5, <2>1
  <2>2. CASE i # Len(flight[k]) + 1
    <3>1. i \in 1 .. Len(flight[k]) /\ flight'[k][i] = flight[k][i]
      BY <1>1, <1>2, <1>5, <2>2
    <3> QED
      BY <1>2, <3>1 DEF Under
  <2> QED
    BY <2>1, <2>2
<1>6. CASE flight[k] # <<>> /\ flight'[k] = Tail(flight[k])
  <2>1. i + 1 \in 1 .. Len(flight[k]) /\ flight'[k][i] = flight[k][i + 1]
    BY <1>1, <1>2, <1>6, TailAt, Zenon
  <2> QED
    BY <1>2, <2>1 DEF Under
<1>7. ASSUME NEW j \in MediaTracks, Media!Publish(j)
      PROVE  flight'[k] = flight[k] \/ (j = k /\ flight'[k] = Append(flight[k], Stamped(k)))
  <2>1. flight' = [flight EXCEPT ![j] = Append(@, Stamped(j))]
    BY <1>7 DEF Media!Publish, Stamped
  <2> QED
    BY <1>1, <2>1, Zenon
<1>8. ASSUME NEW j \in MediaTracks, Media!Drop(j) PROVE flight'[k] = flight[k] \/ flight'[k] = <<>>
  BY <1>1, <1>8, Zenon DEF Media!Drop
<1>9. ASSUME NEW j \in MediaTracks, Media!Map(j)
      PROVE  flight'[k] = flight[k] \/ (flight[k] # <<>> /\ flight'[k] = Tail(flight[k]))
  <2>1. flight[j] # <<>> /\ flight' = [flight EXCEPT ![j] = Tail(@)]
    BY <1>9 DEF Media!Map
  <2> QED
    BY <1>1, <2>1, Zenon
<1>10. CASE Media!Tick \/ UNCHANGED Media!vars
  BY <1>3, <1>10 DEF Media!Tick, Media!vars
<1>11. CASE Media!Resync
  BY <1>4, <1>11 DEF Media!Resync
<1> QED
  BY <1>3, <1>4, <1>5, <1>6, <1>7, <1>8, <1>9, <1>10, <1>11, Zenon DEF Media!Next
-----------------------------------------------------------------------------
(* Where a packet is placed, and the timestamp it leaves with, when play   *)
(* time is d ahead of media time.                                          *)
PlacedAt(k, p, d) ==
  [track |-> k, lag |-> d - (p.at * Common - p.media_timestamp),
   offset |-> (Media!TimestampAt(k, d + p.media_timestamp) - p.at * Rate[k]) % Modulus]

(* Mapping a packet keeps the anchor's distance.                           *)
LEMMA AtAnchor ==
  ASSUME Media!Configured, Media!TypeOK, NEW packet \in Media!Packets
  PROVE  LET a == Media!AnchorFor(packet)
             d == a.play_timestamp - a.source_timestamp
         IN  /\ Media!Moved(packet) \in Media!Anchors /\ d \in Int
             /\ Media!Moved(packet).play_timestamp - Media!Moved(packet).source_timestamp = d
             /\ Media!PlayTime(packet) = d + packet.media_timestamp
<1> DEFINE a == Media!AnchorFor(packet)
<1>1. Media!ClockTime \in Int
  <2>1. now - Joined \in Int /\ Common \in Int
    BY DEF Media!TypeOK, Media!Configured
  <2> QED
    BY <2>1 DEF Media!ClockTime
<1>2. packet.media_timestamp \in Nat
  BY DEF Media!Packets
<1>3. a \in Media!Anchors
  BY <1>1, <1>2 DEF Media!TypeOK, Media!AnchorFor, Media!Kept, Media!Anchors
<1> HIDE DEF a
<1>4. a.source_timestamp \in Nat /\ a.play_timestamp \in Int
  BY <1>3 DEF Media!Anchors
<1>5. Media!PlayTime(packet) = a.play_timestamp + (packet.media_timestamp - a.source_timestamp)
  BY DEF Media!PlayTime, a
<1>6. Media!Moved(packet) =
        IF packet.media_timestamp - a.source_timestamp >= Reanchor
          THEN [source_timestamp |-> packet.media_timestamp, play_timestamp |-> Media!PlayTime(packet)]
          ELSE a
  BY DEF Media!Moved, a
<1>7. Media!PlayTime(packet) \in Int
  BY <1>2, <1>4, <1>5
<1>8. /\ Media!Moved(packet) \in Media!Anchors
      /\ Media!Moved(packet).play_timestamp - Media!Moved(packet).source_timestamp
            = a.play_timestamp - a.source_timestamp
  <2>1. CASE packet.media_timestamp - a.source_timestamp >= Reanchor
    BY <1>2, <1>4, <1>5, <1>6, <1>7, <2>1 DEF Media!Anchors
  <2>2. CASE ~(packet.media_timestamp - a.source_timestamp >= Reanchor)
    BY <1>3, <1>6, <2>2
  <2> QED
    BY <2>1, <2>2
<1>9. Media!PlayTime(packet) = (a.play_timestamp - a.source_timestamp) + packet.media_timestamp
  BY <1>2, <1>4, <1>5
<1> QED
  BY <1>4, <1>8, <1>9 DEF a

LEMMA Mapped ==
  ASSUME Media!Configured, Media!TypeOK, NEW k \in MediaTracks, Media!Map(k)
  PROVE  \E p \in Under(k) :
           /\ p \in Media!Packets /\ anchor' \in Media!Anchors /\ Distance' \in Int
           /\ Media!Kept => anchor # None /\ Distance' = Distance
           /\ lags' = (IF Media!Kept THEN lags ELSE {}) \cup {PlacedAt(k, p, Distance')}
<1> DEFINE p == Head(flight[k])
           d == Media!AnchorFor(p).play_timestamp - Media!AnchorFor(p).source_timestamp
<1>1. /\ flight[k] \in Seq(Media!Packets) /\ flight[k] # <<>>
      /\ anchor' = Media!Moved(p)
      /\ lags' = (IF Media!Kept THEN lags ELSE {}) \cup {Media!Lag(k, p)}
  BY DEF Media!Map, Media!TypeOK
<1>2. p = flight[k][1] /\ 1 \in 1 .. Len(flight[k]) /\ p \in Media!Packets
  BY <1>1
<1>3. p \in Under(k)
  BY <1>2 DEF Under
<1> HIDE DEF p
<1>4. /\ Media!Moved(p) \in Media!Anchors /\ d \in Int
      /\ Media!Moved(p).play_timestamp - Media!Moved(p).source_timestamp = d
      /\ Media!PlayTime(p) = d + p.media_timestamp
  BY <1>2, AtAnchor
<1>5. Media!Kept => anchor # None /\ d = Distance
  BY DEF Media!AnchorFor, Media!Kept, Distance
<1> HIDE DEF d
<1>6. Distance' = d
  BY <1>1, <1>4 DEF Distance
<1>7. Media!Lag(k, p) = PlacedAt(k, p, d)
  <2>1. p.at * Common \in Int /\ p.media_timestamp \in Int
    BY <1>2 DEF Media!Packets, Media!Configured
  <2>2. Media!PlayTime(p) - p.at * Common = d - (p.at * Common - p.media_timestamp)
    BY <1>4, <2>1
  <2> QED
    BY <1>4, <2>2, Zenon DEF Media!Lag, PlacedAt
<1> QED
  BY <1>1, <1>2, <1>3, <1>4, <1>5, <1>6, <1>7

LEMMA PlacedIsTyped ==
  ASSUME Media!Configured, NEW k \in MediaTracks, NEW p \in Media!Packets, NEW d \in Int
  PROVE  /\ PlacedAt(k, p, d) \in [track : MediaTracks, lag : Int, offset : Media!Source]
         /\ PlacedAt(k, p, d).track = k
         /\ PlacedAt(k, p, d).lag = d - (p.at * Common - p.media_timestamp)
         /\ PlacedAt(k, p, d).offset =
              (Media!TimestampAt(k, d + p.media_timestamp) - p.at * Rate[k]) % Modulus
<1> DEFINE out == Media!TimestampAt(k, d + p.media_timestamp) - p.at * Rate[k]
           lag == d - (p.at * Common - p.media_timestamp)
<1>1. /\ Rate[k] \in Nat \ {0} /\ Modulus \in Nat \ {0} /\ Common \in Nat \ {0}
      /\ p.at \in Nat /\ p.media_timestamp \in Nat
  BY DEF Media!Configured, Media!Packets
<1>2. p.at * Common \in Int /\ p.at * Rate[k] \in Int /\ (d + p.media_timestamp) * Rate[k] \in Int
  BY <1>1
<1>3. Media!TimestampAt(k, d + p.media_timestamp) \in Int
  <2> DEFINE x == (d + p.media_timestamp) * Rate[k]
             y == Media!Quotient(x)
  <2>1. x \in Int
    BY <1>2
  <2> HIDE DEF x
  <2>2. y \in Int
    BY <1>1, <2>1, Floored DEF Media!Quotient
  <2> HIDE DEF y
  <2>3. y % Modulus \in Int
    BY <1>1, <2>2, Floored
  <2> QED
    BY <2>3 DEF Media!TimestampAt, x, y
<1>4. out \in Int /\ lag \in Int
  BY <1>1, <1>2, <1>3
<1>5. PlacedAt(k, p, d) = [track |-> k, lag |-> lag, offset |-> out % Modulus]
  BY DEF PlacedAt
<1> HIDE DEF out, lag
<1>6. out % Modulus \in Media!Source
  BY <1>1, <1>4, Floored DEF Media!Source
<1>7. /\ PlacedAt(k, p, d) \in [track : MediaTracks, lag : Int, offset : Media!Source]
      /\ PlacedAt(k, p, d).track = k /\ PlacedAt(k, p, d).lag = lag
      /\ PlacedAt(k, p, d).offset = out % Modulus
  BY <1>4, <1>5, <1>6
<1> QED
  BY <1>7 DEF out, lag

(* What was placed since the resync, after a step.                         *)
LEMMA Placed ==
  ASSUME Media!Configured, Media!TypeOK, [Media!Next]_Media!vars, NEW b \in lags'
  PROVE  \/ b \in lags /\ (anchor # None => anchor' # None /\ Distance' = Distance)
         \/ /\ anchor' # None /\ Distance' \in Int
            /\ \E k \in MediaTracks : \E p \in Under(k) :
                 p \in Media!Packets /\ b = PlacedAt(k, p, Distance')
<1>1. CASE UNCHANGED <<anchor, lags>>
  BY <1>1 DEF Distance
<1>2. ASSUME NEW k \in MediaTracks, Media!Map(k)
      PROVE  \/ b \in lags /\ anchor' # None /\ Distance' = Distance
             \/ /\ anchor' # None /\ Distance' \in Int
                /\ \E p \in Under(k) : p \in Media!Packets /\ b = PlacedAt(k, p, Distance')
  <2>1. PICK p \in Under(k) :
          /\ p \in Media!Packets /\ anchor' \in Media!Anchors /\ Distance' \in Int
          /\ Media!Kept => anchor # None /\ Distance' = Distance
          /\ lags' = (IF Media!Kept THEN lags ELSE {}) \cup {PlacedAt(k, p, Distance')}
    BY <1>2, Mapped
  <2>2. anchor' # None
    BY <2>1 DEF Media!Configured
  <2>3. CASE b = PlacedAt(k, p, Distance')
    BY <2>1, <2>2, <2>3
  <2>4. CASE b \in lags /\ Media!Kept
    BY <2>1, <2>2, <2>4
  <2> QED
    BY <2>1, <2>3, <2>4
<1>3. (Media!Tick \/ Media!Resync \/ \E k \in MediaTracks : Media!Publish(k) \/ Media!Drop(k))
        \/ UNCHANGED Media!vars => UNCHANGED <<anchor, lags>>
  BY DEF Media!Tick, Media!Resync, Media!Publish, Media!Drop, Media!vars, Media!listener
<1> QED
  BY <1>1, <1>2, <1>3, Zenon DEF Media!Next
-----------------------------------------------------------------------------
LEMMA MediaStartsTyped == Media!Configured /\ Media!Init => Media!TypeOK
  BY DEF Media!Init, Media!TypeOK

LEMMA MediaStaysTyped ==
  Media!Configured /\ Media!TypeOK /\ [Media!Next]_Media!vars => Media!TypeOK'
<1> SUFFICES ASSUME Media!Configured, Media!TypeOK, [Media!Next]_Media!vars PROVE Media!TypeOK'
  OBVIOUS
<1>1. /\ now \in Nat /\ resync_epoch \in Nat /\ epoch \in Nat
      /\ previous \in [MediaTracks -> Media!Source \cup {None}]
      /\ wrap_offset \in [MediaTracks -> Nat] /\ sent \in [MediaTracks -> Nat]
      /\ flight \in [MediaTracks -> Seq(Media!Packets)] /\ anchor \in Media!Anchors \cup {None}
      /\ lags \subseteq [track : MediaTracks, lag : Int, offset : Media!Source]
  BY DEF Media!TypeOK
<1>2. CASE Media!Tick
  BY <1>1, <1>2 DEF Media!Tick, Media!publisher, Media!listener, Media!TypeOK, Media!Source
<1>3. CASE Media!Resync
  BY <1>1, <1>3 DEF Media!Resync, Media!publisher, Media!TypeOK, Media!Source
<1>4. ASSUME NEW k \in MediaTracks, Media!Publish(k) PROVE Media!TypeOK'
  <2>1. /\ Media!Stamp(k) \in Media!Source /\ Media!Offset(k) \in Nat
        /\ Stamped(k) \in Media!Packets
    BY StampIsTyped
  <2>2. /\ wrap_offset' = [wrap_offset EXCEPT ![k] = Media!Offset(k)]
        /\ previous' = [previous EXCEPT ![k] = Media!Stamp(k)]
        /\ sent' = [sent EXCEPT ![k] = now]
        /\ flight' = [flight EXCEPT ![k] = Append(@, Stamped(k))]
        /\ UNCHANGED <<now, resync_epoch, epoch, anchor, lags>>
    BY <1>4 DEF Media!Publish, Media!listener, Stamped
  <2>3. /\ previous' \in [MediaTracks -> Media!Source \cup {None}]
        /\ wrap_offset' \in [MediaTracks -> Nat] /\ sent' \in [MediaTracks -> Nat]
    BY <1>1, <2>1, <2>2, Zenon
  <2>4. flight' \in [MediaTracks -> Seq(Media!Packets)]
    <3>1. Append(flight[k], Stamped(k)) \in Seq(Media!Packets)
      BY <1>1, <2>1
    <3> QED
      BY <1>1, <2>2, <3>1, Zenon
  <2> QED
    BY <1>1, <2>2, <2>3, <2>4, Zenon DEF Media!TypeOK, Media!Source
<1>5. ASSUME NEW k \in MediaTracks, Media!Drop(k) PROVE Media!TypeOK'
  <2>1. flight' \in [MediaTracks -> Seq(Media!Packets)]
    BY <1>1, <1>5 DEF Media!Drop
  <2> QED
    BY <1>1, <1>5, <2>1, Zenon DEF Media!Drop, Media!publisher, Media!listener, Media!TypeOK, Media!Source
<1>6. ASSUME NEW k \in MediaTracks, Media!Map(k) PROVE Media!TypeOK'
  <2>1. flight' \in [MediaTracks -> Seq(Media!Packets)]
    BY <1>1, <1>6 DEF Media!Map
  <2>2. PICK p \in Under(k) :
          /\ p \in Media!Packets /\ anchor' \in Media!Anchors /\ Distance' \in Int
          /\ lags' = (IF Media!Kept THEN lags ELSE {}) \cup {PlacedAt(k, p, Distance')}
    BY <1>6, Mapped
  <2>3. lags' \subseteq [track : MediaTracks, lag : Int, offset : Media!Source]
    <3>1. PlacedAt(k, p, Distance') \in [track : MediaTracks, lag : Int, offset : Media!Source]
      BY <2>2, PlacedIsTyped
    <3> QED
      BY <1>1, <2>2, <3>1, Zenon
  <2> QED
    BY <1>1, <1>6, <2>1, <2>2, <2>3, Zenon DEF Media!Map, Media!publisher, Media!TypeOK, Media!Source
<1>7. CASE UNCHANGED Media!vars
  BY <1>1, <1>7, Zenon DEF Media!vars, Media!publisher, Media!listener, Media!TypeOK, Media!Source
<1> QED
  BY <1>2, <1>3, <1>4, <1>5, <1>6, <1>7 DEF Media!Next

(* Counters, offsets, packets and anchors keep their types.                *)
THEOREM MediaTypeCorrect == ASSUME Media!Configured PROVE Media!Spec => []Media!TypeOK
<1>1. Media!Configured'
  BY DEF Media!Configured, Media!Source, Media!Anchors
<1> QED
  BY MediaStartsTyped, MediaStaysTyped, PTL DEF Media!Spec
-----------------------------------------------------------------------------
(* No track being silent for more than half its counter's range, common    *)
(* time is the time a packet was taken at.                                 *)
Assumed == Media!Configured /\ Media!ShortSilences

(* What a normalizer remembers of the last packet is the time it was taken *)
(* at, unwrapped.                                                          *)
Unwrapped ==
  \A k \in MediaTracks :
    /\ sent[k] <= now /\ now - sent[k] <= Silence[k]
    /\ previous[k] = None => sent[k] = 0 /\ wrap_offset[k] = 0
    /\ previous[k] # None =>
         /\ previous[k] = (sent[k] * Rate[k]) % Modulus
         /\ wrap_offset[k] = (sent[k] * Rate[k]) - ((sent[k] * Rate[k]) % Modulus)

InCommonTime == \A k \in MediaTracks : \A p \in Under(k) : p.media_timestamp = p.at * Common

OfTheAnchor == \A a \in lags : anchor # None /\ a.lag = Distance

MediaInv == Assumed /\ Media!TypeOK /\ Unwrapped /\ InCommonTime /\ OfTheAnchor

LEMMA MediaInitially == Assumed /\ Media!Init => MediaInv
<1> SUFFICES ASSUME Assumed, Media!Init PROVE MediaInv
  OBVIOUS
<1>1. /\ now = 0 /\ previous = [k \in MediaTracks |-> None] /\ wrap_offset = [k \in MediaTracks |-> 0]
      /\ sent = [k \in MediaTracks |-> 0] /\ flight = [k \in MediaTracks |-> <<>>] /\ lags = {}
  BY DEF Media!Init
<1>2. Media!TypeOK
  BY MediaStartsTyped DEF Assumed
<1>3. Unwrapped
  <2> SUFFICES ASSUME NEW k \in MediaTracks
               PROVE  /\ sent[k] = 0 /\ wrap_offset[k] = 0 /\ previous[k] = None
                      /\ sent[k] <= now /\ now - sent[k] <= Silence[k]
    BY DEF Unwrapped
  <2>1. sent[k] = 0 /\ wrap_offset[k] = 0 /\ previous[k] = None
    BY <1>1
  <2>2. Silence[k] \in Nat
    BY DEF Assumed, Media!Configured
  <2> QED
    BY <1>1, <2>1, <2>2
<1>4. InCommonTime
  BY <1>1 DEF InCommonTime, Under
<1>5. OfTheAnchor
  BY <1>1 DEF OfTheAnchor
<1> QED
  BY <1>2, <1>3, <1>4, <1>5 DEF MediaInv

(* Ingest turns a stamp into the common time it was taken at.              *)
LEMMA NormalizedIsTime ==
  ASSUME MediaInv, NEW k \in MediaTracks
  PROVE  /\ Media!Stamp(k) \in Media!Source /\ Media!Stamp(k) = (now * Rate[k]) % Modulus
         /\ Media!Offset(k) \in Nat /\ Media!Offset(k) = (now * Rate[k]) - ((now * Rate[k]) % Modulus)
         /\ Media!Normalized(k) = now * Common
<1> DEFINE r == Rate[k]
           x == sent[k] * r
           y == now * r
<1>1. /\ r \in Nat \ {0} /\ Modulus \in Nat \ {0} /\ Common \in Nat \ {0}
      /\ now \in Nat /\ sent[k] \in Nat /\ sent[k] <= now /\ Silence[k] \in Nat
      /\ now - sent[k] <= Silence[k] /\ None \notin Media!Source
  <2>1. /\ r \in Nat \ {0} /\ Modulus \in Nat \ {0} /\ Common \in Nat \ {0}
        /\ Silence[k] \in Nat /\ None \notin Media!Source
    BY DEF MediaInv, Assumed, Media!Configured, Media!Source
  <2>2. now \in Nat /\ sent[k] \in Nat
    BY DEF MediaInv, Media!TypeOK
  <2>3. sent[k] <= now /\ now - sent[k] <= Silence[k]
    BY DEF MediaInv, Unwrapped
  <2> QED
    BY <2>1, <2>2, <2>3
<1>2. x \in Nat /\ y \in Nat /\ x <= y /\ 2 * (y - x) <= Modulus
  <2>1. now - sent[k] \in Nat /\ y - x = (now - sent[k]) * r
    BY <1>1
  <2>2. (now - sent[k]) * r <= Silence[k] * r /\ (now - sent[k]) * r \in Nat
    BY <1>1, <2>1
  <2>3. 2 * (Silence[k] * r) <= Modulus /\ Silence[k] * r \in Nat
    BY <1>1 DEF MediaInv, Assumed, Media!ShortSilences
  <2>4. x \in Nat /\ y \in Nat
    BY <1>1
  <2> QED
    BY <2>1, <2>2, <2>3, <2>4, <1>1
<1> HIDE DEF x, y
<1>3. Media!Stamp(k) = y % Modulus /\ y % Modulus \in Media!Source
  <2>1. Media!Stamp(k) = y % Modulus
    BY DEF Media!Stamp, y
  <2>2. y % Modulus \in 0 .. Modulus - 1
    BY <1>1, <1>2, Division
  <2> QED
    BY <2>1, <2>2 DEF Media!Source
<1>4. x % Modulus \in 0 .. Modulus - 1 /\ y % Modulus \in 0 .. Modulus - 1
  BY <1>1, <1>2, Division
<1>5. Media!Offset(k) = y - (y % Modulus)
  <2>1. CASE previous[k] = None
    <3>1. wrap_offset[k] = 0 /\ x = 0
      BY <1>1, <2>1 DEF MediaInv, Unwrapped, x
    <3>2. Media!Offset(k) = 0
      BY <2>1, <3>1 DEF Media!Offset, Media!Wrapped
    <3>3. y < Modulus
      BY <1>1, <1>2, <3>1
    <3>4. y % Modulus = y
      BY <1>1, <1>2, <3>3
    <3> QED
      BY <1>2, <3>2, <3>4
  <2>2. CASE previous[k] # None
    <3>1. previous[k] = x % Modulus /\ wrap_offset[k] = x - (x % Modulus)
      BY <2>2 DEF MediaInv, Unwrapped, x
    <3>2. Media!Wrapped(k) <=> /\ (y % Modulus) < (x % Modulus)
                         /\ (x % Modulus) - (y % Modulus) > (Modulus - 1) \div 2
      BY <1>3, <2>2, <3>1 DEF Media!Wrapped
    <3>3. y - (y % Modulus) = (x - (x % Modulus)) + (IF Media!Wrapped(k) THEN Modulus ELSE 0)
      BY <1>1, <1>2, <3>2, HalfRange
    <3> QED
      BY <3>1, <3>3 DEF Media!Offset
  <2> QED
    BY <2>1, <2>2
<1>6. y - (y % Modulus) \in Nat
  <2>1. /\ y \div Modulus \in Nat /\ y % Modulus \in 0 .. Modulus - 1
        /\ y = Modulus * (y \div Modulus) + (y % Modulus)
    BY <1>1, <1>2, Division
  <2>2. Modulus * (y \div Modulus) \in Nat
    BY <1>1, <2>1
  <2> QED
    BY <1>1, <1>2, <2>1, <2>2
<1>7. Media!Normalized(k) = now * Common
  <2>1. Media!Offset(k) + Media!Stamp(k) = y
    BY <1>2, <1>3, <1>4, <1>5
  <2>2. Media!Normalized(k) = (y * Common) \div r
    BY <2>1 DEF Media!Normalized
  <2>3. y * Common = r * (now * Common) /\ now * Common \in Nat
    BY <1>1 DEF y
  <2> QED
    BY <1>1, <2>2, <2>3, Exact
<1> QED
  BY <1>3, <1>5, <1>6, <1>7 DEF y
LEMMA MediaInductive == MediaInv /\ [Media!Next]_Media!vars => MediaInv'
<1> SUFFICES ASSUME MediaInv, [Media!Next]_Media!vars PROVE MediaInv'
  OBVIOUS
<1>1. Media!Configured /\ Media!TypeOK /\ Assumed'
  BY DEF MediaInv, Assumed, Media!Configured, Media!ShortSilences, Media!Source, Media!Anchors
<1>2. Media!TypeOK'
  BY <1>1, MediaStaysTyped
<1>3. Unwrapped'
  <2> SUFFICES ASSUME NEW k \in MediaTracks
               PROVE  /\ sent'[k] <= now' /\ now' - sent'[k] <= Silence[k]
                      /\ previous'[k] = None => sent'[k] = 0 /\ wrap_offset'[k] = 0
                      /\ previous'[k] # None =>
                           /\ previous'[k] = (sent'[k] * Rate[k]) % Modulus
                           /\ wrap_offset'[k] =
                                (sent'[k] * Rate[k]) - ((sent'[k] * Rate[k]) % Modulus)
    BY DEF Unwrapped
  <2>1. now \in Nat /\ sent[k] \in Nat /\ Silence[k] \in Nat /\ None \notin Media!Source
    BY <1>1 DEF Media!TypeOK, Media!Configured
  <2>2. CASE /\ now' = now /\ sent'[k] = now
             /\ previous'[k] = Media!Stamp(k) /\ wrap_offset'[k] = Media!Offset(k)
    <3>1. /\ Media!Stamp(k) \in Media!Source /\ Media!Stamp(k) = (now * Rate[k]) % Modulus
          /\ Media!Offset(k) = (now * Rate[k]) - ((now * Rate[k]) % Modulus)
      BY NormalizedIsTime
    <3>2. previous'[k] # None /\ now' - sent'[k] <= Silence[k] /\ sent'[k] <= now'
      BY <2>1, <2>2, <3>1
    <3> QED
      BY <2>2, <3>1, <3>2
  <2>3. CASE /\ sent'[k] = sent[k] /\ previous'[k] = previous[k]
             /\ wrap_offset'[k] = wrap_offset[k]
             /\ now' = now \/ (now' = now + 1 /\ now - sent[k] < Silence[k])
    <3>1. sent[k] <= now' /\ now' - sent[k] <= Silence[k]
      BY <2>1, <2>3 DEF MediaInv, Unwrapped
    <3> QED
      BY <2>3, <3>1, Zenon DEF MediaInv, Unwrapped
  <2> QED
    BY <1>1, <2>2, <2>3, Ingested, Zenon
<1>4. InCommonTime'
  <2> SUFFICES ASSUME NEW k \in MediaTracks, NEW p \in Under(k)'
               PROVE  p.media_timestamp = p.at * Common
    BY DEF InCommonTime
  <2>1. CASE p \in Under(k)
    BY <2>1 DEF MediaInv, InCommonTime
  <2>2. CASE p = Stamped(k)
    BY <2>2, NormalizedIsTime DEF Stamped
  <2> QED
    BY <1>1, <2>1, <2>2, Underway
<1>5. OfTheAnchor'
  <2> SUFFICES ASSUME NEW b \in lags' PROVE anchor' # None /\ b.lag = Distance'
    BY DEF OfTheAnchor
  <2>1. CASE b \in lags /\ (anchor # None => anchor' # None /\ Distance' = Distance)
    BY <2>1 DEF MediaInv, OfTheAnchor
  <2>2. ASSUME NEW k \in MediaTracks, NEW p \in Under(k), p \in Media!Packets,
               Distance' \in Int, b = PlacedAt(k, p, Distance')
        PROVE  b.lag = Distance'
    <3>1. p.media_timestamp = p.at * Common /\ p.media_timestamp \in Nat
      BY <2>2 DEF MediaInv, InCommonTime, Media!Packets
    <3>2. b.lag = Distance' - (p.at * Common - p.media_timestamp)
      BY <1>1, <2>2, PlacedIsTyped
    <3> QED
      BY <2>2, <3>1, <3>2
  <2> QED
    BY <1>1, <2>1, <2>2, Placed
<1> QED
  BY <1>1, <1>2, <1>3, <1>4, <1>5 DEF MediaInv

(* While no track is silent for more than half its counter's range, what a *)
(* listener gets since a resync is placed at one distance from the time it *)
(* was taken at, whichever track it is of (normalize and map).             *)
THEOREM LagIsOne == ASSUME Media!Configured, Media!ShortSilences PROVE Media!Spec => []Media!OneLag
<1>1. MediaInv => Media!OneLag
  BY DEF MediaInv, OfTheAnchor, Media!OneLag
<1>2. Media!Init => MediaInv
  BY MediaInitially DEF Assumed
<1> QED
  BY <1>1, <1>2, MediaInductive, PTL DEF Media!Spec
-----------------------------------------------------------------------------
(* With any silences: a wrap that a normalizer misses, or sees where there *)
(* were several, shifts common time by whole ranges of the track's counter.*)

(* e is a number of ranges of k's counter, in common time, rounded up.     *)
WholeRanges(k, e) ==
  e \in Int /\ \E w \in Int : e * Rate[k] - (Modulus * Common) * w \in 0 .. Rate[k] - 1

OffsetsWhole == \A k \in MediaTracks : \E w \in Int : wrap_offset[k] = Modulus * w

ShiftedWhole ==
  \A k \in MediaTracks : \A p \in Under(k) : WholeRanges(k, p.at * Common - p.media_timestamp)

(* The offset of a timestamp that converts the distance lag, late by one   *)
(* tick at most.                                                           *)
Converts(k, lag, offset) ==
  \E late \in 0 .. Media!Truncation(k) :
    offset = (((lag * Rate[k]) \div Common) + late) % Modulus

OfTheClock ==
  \A a \in lags :
    /\ anchor # None /\ Distance \in Int /\ WholeRanges(a.track, Distance - a.lag)
    /\ Converts(a.track, a.lag, a.offset)

ClockInv ==
  Media!Configured /\ Media!TypeOK /\ OffsetsWhole /\ ShiftedWhole /\ OfTheClock

LEMMA ClockInitially == Media!Configured /\ Media!Init => ClockInv
<1> SUFFICES ASSUME Media!Configured, Media!Init PROVE ClockInv
  OBVIOUS
<1>1. /\ wrap_offset = [k \in MediaTracks |-> 0]
      /\ flight = [k \in MediaTracks |-> <<>>] /\ lags = {}
  BY DEF Media!Init
<1>2. OffsetsWhole
  <2>1. Modulus * 0 = 0 /\ 0 \in Int
    BY DEF Media!Configured
  <2> QED
    BY <1>1, <2>1 DEF OffsetsWhole
<1>3. ShiftedWhole
  BY <1>1 DEF ShiftedWhole, Under
<1>4. OfTheClock
  BY <1>1 DEF OfTheClock
<1> QED
  BY <1>2, <1>3, <1>4, MediaStartsTyped DEF ClockInv

(* What a normalizer adds to a stamp is whole, and the packet is shifted   *)
(* by the ranges it missed.                                                *)
LEMMA NormalizedIsShifted ==
  ASSUME ClockInv, NEW k \in MediaTracks
  PROVE  /\ \E w \in Int : Media!Offset(k) = Modulus * w
         /\ WholeRanges(k, now * Common - Media!Normalized(k))
<1> DEFINE r == Rate[k]
           y == now * r
<1>1. /\ r \in Nat \ {0} /\ Modulus \in Nat \ {0} /\ Common \in Nat \ {0} /\ now \in Nat
      /\ Media!Offset(k) \in Nat
      /\ Media!Offset(k) \in {wrap_offset[k], wrap_offset[k] + Modulus}
  BY StampIsTyped DEF ClockInv, Media!Configured, Media!TypeOK
<1>2. PICK w \in Int : Media!Offset(k) = Modulus * w
  <2>1. PICK v \in Int : wrap_offset[k] = Modulus * v
    BY DEF ClockInv, OffsetsWhole
  <2>2. Modulus * (v + 1) = Modulus * v + Modulus /\ v + 1 \in Int
    BY <1>1
  <2> QED
    BY <1>1, <2>1, <2>2
<1>3. y \in Nat /\ Media!Stamp(k) = y % Modulus
  BY <1>1 DEF Media!Stamp
<1> HIDE DEF y
<1> DEFINE q == y \div Modulus
           s == y % Modulus
<1>4. q \in Int /\ s \in Int /\ y = Modulus * q + s
  BY <1>1, <1>3, Floored
<1> HIDE DEF q, s
<1> DEFINE u == Modulus * w + s
<1>5. /\ u \in Int /\ y - u = Modulus * (q - w) /\ q - w \in Int
      /\ Media!Normalized(k) = (u * Common) \div r
  <2>1. u \in Int /\ Modulus * (q - w) = Modulus * q - Modulus * w
    BY <1>1, <1>2, <1>4
  <2>2. Media!Normalized(k) = (u * Common) \div r
    BY <1>2, <1>3 DEF Media!Normalized, s
  <2> QED
    BY <1>1, <1>2, <1>4, <2>1, <2>2
<1> HIDE DEF u
<1> DEFINE n == (u * Common) \div r
           o == (u * Common) % r
<1>6. n \in Int /\ o \in 0 .. r - 1 /\ u * Common = r * n + o
  <2>1. u * Common \in Int
    BY <1>1, <1>5
  <2> QED
    BY <1>1, <2>1, Floored
<1>7. Media!Normalized(k) = n
  BY <1>5
<1> HIDE DEF n, o
<1> DEFINE e == now * Common - n
<1>8. e \in Int
  BY <1>1, <1>6
<1>9. e * r = y * Common - r * n
  BY <1>1, <1>6 DEF y
<1>10. y * Common - u * Common = (Modulus * Common) * (q - w)
  <2>1. y * Common - u * Common = (y - u) * Common
    BY <1>1, <1>3, <1>5
  <2>2. \A d \in Int : (Modulus * d) * Common = (Modulus * Common) * d
    BY <1>1
  <2> QED
    BY <1>5, <2>1, <2>2
<1>11. e * r - (Modulus * Common) * (q - w) = o
  <2>1. (Modulus * Common) * (q - w) \in Int /\ y * Common \in Int /\ u * Common \in Int /\ r * n \in Int
    BY <1>1, <1>3, <1>5, <1>6
  <2> QED
    BY <1>6, <1>9, <1>10, <2>1
<1> HIDE DEF e
<1>12. WholeRanges(k, e)
  BY <1>5, <1>6, <1>8, <1>11 DEF WholeRanges
<1> QED
  BY <1>2, <1>7, <1>12 DEF e

(* A packet that is shifted by e leaves with a timestamp that is a         *)
(* conversion of what is left of the distance.                             *)
LEMMA PlacedByClock ==
  ASSUME Media!Configured, NEW k \in MediaTracks, NEW p \in Media!Packets, NEW d \in Int
  PROVE  LET b == PlacedAt(k, p, d)
         IN  Converts(k, b.lag, b.offset)
<1> DEFINE b == PlacedAt(k, p, d)
           r == Rate[k]
           l == b.lag
           at == p.at
           lr == l * r
           ar == at * r
           t == lr \div Common
<1>1. /\ r \in Nat \ {0} /\ Modulus \in Nat \ {0} /\ Common \in Nat \ {0}
      /\ at \in Nat /\ p.media_timestamp \in Nat
  BY DEF Media!Configured, Media!Packets
<1>2. /\ l = d - (at * Common - p.media_timestamp)
      /\ b.offset = (Media!TimestampAt(k, d + p.media_timestamp) - ar) % Modulus
  BY PlacedIsTyped
<1> HIDE DEF l, b
<1>3. l \in Int /\ d + p.media_timestamp = l + at * Common /\ ar \in Int /\ lr \in Int
  <2>1. at * Common \in Int
    BY <1>1
  <2>2. l \in Int /\ d + p.media_timestamp = l + at * Common
    BY <1>1, <1>2, <2>1
  <2> QED
    BY <1>1, <2>2
<1> HIDE DEF at
<1>4. (l + at * Common) * r = lr + Common * ar
  BY <1>1, <1>3
<1> HIDE DEF lr, ar
<1>5. ((l + at * Common) * r) \div Common = t + ar
  <2>1. (lr + Common * ar) \div Common = (lr \div Common) + ar
    BY <1>1, <1>3, Shifts
  <2> QED
    BY <1>4, <2>1
<1>6. t \in Int
  BY <1>1, <1>3, Floored
<1>7. PICK late \in 0 .. Media!Truncation(k) :
        Media!Quotient((d + p.media_timestamp) * r)
          = (((d + p.media_timestamp) * r) \div Common) + late
  <2>1. d + p.media_timestamp \in Int
    BY <1>1
  <2> QED
    BY <2>1, Truncated
<1>8. late \in Int
  BY DEF Media!Truncation
<1> HIDE DEF t
<1> DEFINE tl == t + late
<1>9. Media!TimestampAt(k, d + p.media_timestamp) = (tl + ar) % Modulus
  <2>1. Media!Quotient((d + p.media_timestamp) * r) = tl + ar
    BY <1>3, <1>5, <1>6, <1>7, <1>8
  <2> QED
    BY <2>1 DEF Media!TimestampAt
<1>10. tl \in Int
  BY <1>6, <1>8
<1> HIDE DEF tl
<1> DEFINE v == tl + ar
           z == v \div Modulus
           o == v % Modulus
<1>11. v \in Int
  BY <1>3, <1>10
<1> HIDE DEF v
<1>12. z \in Int /\ o \in Int /\ v = Modulus * z + o
  BY <1>1, <1>11, Floored
<1> HIDE DEF z, o
<1>13. o - ar = tl + Modulus * (-z) /\ -z \in Int
  <2>1. Modulus * (-z) = -(Modulus * z) /\ Modulus * z \in Int
    BY <1>1, <1>12
  <2> QED
    BY <1>3, <1>10, <1>12, <2>1 DEF v
<1>14. (o - ar) % Modulus = tl % Modulus
  <2> DEFINE y == -z
  <2>1. y \in Int /\ o - ar = tl + Modulus * y
    BY <1>13
  <2> HIDE DEF y
  <2>2. (tl + Modulus * y) % Modulus = tl % Modulus
    BY <1>1, <1>10, <2>1, Shifts
  <2> QED
    BY <2>1, <2>2
<1>15. Media!TimestampAt(k, d + p.media_timestamp) = o
  BY <1>9 DEF o, v
<1>16. b.offset = tl % Modulus
  BY <1>2, <1>14, <1>15
<1> QED
  BY <1>16 DEF Converts, tl, t, lr, l, b

LEMMA ClockInductive == ClockInv /\ [Media!Next]_Media!vars => ClockInv'
<1> SUFFICES ASSUME ClockInv, [Media!Next]_Media!vars PROVE ClockInv'
  OBVIOUS
<1>1. Media!Configured /\ Media!TypeOK /\ Media!Configured'
  BY DEF ClockInv, Media!Configured, Media!Source, Media!Anchors
<1>2. Media!TypeOK'
  BY <1>1, MediaStaysTyped
<1>3. OffsetsWhole'
  <2> SUFFICES ASSUME NEW k \in MediaTracks PROVE \E w \in Int : wrap_offset'[k] = Modulus * w
    BY DEF OffsetsWhole
  <2>1. wrap_offset'[k] \in {wrap_offset[k], Media!Offset(k)}
    BY <1>1, Ingested
  <2> QED
    BY <2>1, NormalizedIsShifted DEF ClockInv, OffsetsWhole
<1>4. ShiftedWhole'
  <2> SUFFICES ASSUME NEW k \in MediaTracks, NEW p \in Under(k)'
               PROVE  WholeRanges(k, p.at * Common - p.media_timestamp)
    BY DEF ShiftedWhole, WholeRanges
  <2>1. CASE p \in Under(k)
    BY <2>1 DEF ClockInv, ShiftedWhole
  <2>2. CASE p = Stamped(k)
    BY <2>2, NormalizedIsShifted DEF Stamped
  <2> QED
    BY <1>1, <2>1, <2>2, Underway
<1>5. OfTheClock'
  <2> SUFFICES ASSUME NEW b \in lags'
               PROVE  /\ anchor' # None /\ Distance' \in Int
                      /\ WholeRanges(b.track, Distance' - b.lag)
                      /\ Converts(b.track, b.lag, b.offset)
    BY DEF OfTheClock, WholeRanges, Converts, Media!Truncation
  <2>1. CASE b \in lags /\ (anchor # None => anchor' # None /\ Distance' = Distance)
    BY <2>1 DEF ClockInv, OfTheClock
  <2>2. ASSUME NEW k \in MediaTracks, NEW p \in Under(k), p \in Media!Packets,
               Distance' \in Int, b = PlacedAt(k, p, Distance')
        PROVE  /\ WholeRanges(b.track, Distance' - b.lag)
               /\ Converts(b.track, b.lag, b.offset)
    <3> DEFINE d == Distance'
               e == p.at * Common - p.media_timestamp
    <3>1. d \in Int /\ b = PlacedAt(k, p, d)
      BY <2>2
    <3>2. WholeRanges(k, e)
      BY DEF ClockInv, ShiftedWhole
    <3>3. b.track = k /\ b.lag = d - e
      BY <1>1, <2>2, <3>1, PlacedIsTyped
    <3>4. Converts(k, b.lag, b.offset)
      BY <1>1, <2>2, <3>1, PlacedByClock
    <3>5. e \in Int
      BY <3>2 DEF WholeRanges
    <3> HIDE DEF d, e
    <3>6. d - b.lag = e
      BY <3>1, <3>3, <3>5
    <3> QED
      BY <3>2, <3>3, <3>4, <3>6 DEF d
  <2> QED
    BY <1>1, <2>1, <2>2, Placed
<1> QED
  BY <1>1, <1>2, <1>3, <1>4, <1>5 DEF ClockInv

(* Two conversions of one distance, one of which is shifted by whole       *)
(* ranges, differ by the rounding at most.                                 *)
LEMMA Rounds ==
  ASSUME NEW r \in Nat \ {0}, NEW c \in Nat \ {0}, NEW m \in Nat \ {0},
         NEW d \in Int, NEW e \in Int, NEW w \in Int,
         e * r - (m * c) * w \in 0 .. r - 1
  PROVE  ((((d * r) \div c) % m) - ((((d - e) * r) \div c) % m)) % m <= (r - 1) \div c + 1
<1> DEFINE x == d * r
           f == e * r - (m * c) * w
           y == x - f
           t == x \div c
           u == y \div c
           h == (r - 1) \div c
<1>1. x \in Int /\ e * r \in Int /\ (m * c) * w \in Int /\ m * w \in Int
  OBVIOUS
<1>2. f \in 0 .. r - 1
  OBVIOUS
<1>3. (d - e) * r = x - e * r
  OBVIOUS
<1>4. (m * c) * w = -(c * (-(m * w))) /\ -(m * w) \in Int
  OBVIOUS
<1>5. (d - e) * r = y + c * (-(m * w))
  BY <1>1, <1>3, <1>4
<1>6. y \in Int
  BY <1>1, <1>2
<1>7. ((d - e) * r) \div c = u + (-(m * w))
  BY <1>4, <1>5, <1>6, Shifts
<1>8. t \in Int /\ x % c \in 0 .. c - 1 /\ x = c * t + (x % c)
  BY <1>1, Floored
<1>9. u \in Int /\ y % c \in 0 .. c - 1 /\ y = c * u + (y % c)
  BY <1>6, Floored
<1>10. h \in Int /\ (r - 1) % c \in 0 .. c - 1 /\ r - 1 = c * h + ((r - 1) % c)
  <2>1. r - 1 \in Int
    OBVIOUS
  <2> QED
    BY <2>1, Floored
<1>11. x - y = f
  BY <1>1, <1>2
<1> HIDE DEF f, y, x, t, u, h
<1> DEFINE g == t - u
           p == x % c
           q == y % c
           o == (r - 1) % c
<1>12. g \in Int /\ p \in 0 .. c - 1 /\ q \in 0 .. c - 1 /\ o \in 0 .. c - 1
  BY <1>8, <1>9, <1>10
<1>13. c * g = f - p + q
  <2>1. c * g = c * t - c * u /\ c * t \in Int /\ c * u \in Int
    BY <1>8, <1>9
  <2> QED
    BY <1>2, <1>8, <1>9, <1>11, <2>1
<1> HIDE DEF g, p, q, o
<1>14. g >= 0
  <2> SUFFICES ASSUME g <= -1 PROVE FALSE
    BY <1>12
  <2>1. -1 - g \in Nat /\ c * (-1 - g) \in Nat /\ c * g = -(c * (-1 - g)) - c
    BY <1>12
  <2> QED
    BY <1>2, <1>12, <1>13, <2>1
<1>15. g <= h + 1
  <2> SUFFICES ASSUME g >= h + 2 PROVE FALSE
    BY <1>10, <1>12
  <2> DEFINE n == g - (h + 2)
  <2>1. n \in Nat /\ c * n \in Nat /\ c * g = c * n + c * h + 2 * c /\ c * h \in Int
    BY <1>10, <1>12
  <2>2. r - 1 = c * h + o
    BY <1>10 DEF o
  <2> QED
    BY <1>2, <1>12, <1>13, <2>1, <2>2
<1>16. (u + (-(m * w))) % m = u % m
  <2>1. -(m * w) = m * (-w) /\ -w \in Int
    OBVIOUS
  <2>2. \A v \in Int : (u + m * v) % m = u % m
    BY <1>9, Shifts
  <2>3. (u + m * (-w)) % m = u % m
    BY <2>1, <2>2
  <2> QED
    BY <2>1, <2>3
<1>17. ((t % m) - (u % m)) % m = g % m
  <2> DEFINE i == t \div m
             j == u \div m
             a == t % m
             b == u % m
  <2>1. i \in Int /\ a \in Int /\ t = m * i + a /\ j \in Int /\ b \in Int /\ u = m * j + b
    BY <1>8, <1>9, Floored
  <2>2. g = t - u
    BY DEF g
  <2> HIDE DEF i, j, a, b
  <2> DEFINE n == j - i
  <2>3. n \in Int /\ m * n = m * j - m * i /\ m * j \in Int /\ m * i \in Int
    BY <2>1
  <2> HIDE DEF n
  <2>4. a - b = g + m * n
    BY <2>1, <2>2, <2>3
  <2>5. (g + m * n) % m = g % m
    BY <1>12, <2>3, Shifts
  <2> QED
    BY <2>4, <2>5 DEF a, b
<1>18. g % m <= g
  <2> DEFINE i == g \div m
             a == g % m
  <2>1. g \in Nat
    BY <1>12, <1>14
  <2>2. i \in Nat /\ a \in 0 .. m - 1 /\ g = m * i + a
    BY <2>1, Division
  <2> HIDE DEF i, a
  <2>3. m * i \in Nat
    BY <2>2
  <2>4. a <= g
    BY <2>1, <2>2, <2>3
  <2> QED
    BY <2>4 DEF a
<1>19. g % m \in Int
  BY <1>12, Floored
<1>20. g % m <= h + 1
  BY <1>10, <1>12, <1>15, <1>18, <1>19
<1> QED
  BY <1>7, <1>16, <1>17, <1>20 DEF x, t, h

(* What is late by up to s is as far off, on either side.                  *)
LEMMA RoundsLate ==
  ASSUME NEW m \in Nat \ {0}, NEW x \in Int, NEW y \in Int, NEW n \in Int,
         NEW s \in Nat, NEW late \in 0 .. s, ((x % m) - (y % m)) % m <= n
  PROVE  (((x % m) - ((y + late) % m)) + s) % m <= n + s
<1> DEFINE a == x % m
           b == y % m
           j == y \div m
           c == (y + late) % m
           i == (y + late) \div m
           g == (a - b) % m
           h == (a - b) \div m
<1>1. a \in Int /\ b \in Int /\ j \in Int /\ y = m * j + b
  BY Floored
<1>2. c \in Int /\ i \in Int /\ y + late = m * i + c
  <2>1. y + late \in Int
    OBVIOUS
  <2> QED
    BY <2>1, Floored
<1>3. g <= n
  OBVIOUS
<1>4. g \in Nat /\ h \in Int /\ a - b = m * h + g
  <2> HIDE DEF a, b
  <2>1. a - b \in Int
    BY <1>1
  <2>2. g \in 0 .. m - 1 /\ h \in Int /\ a - b = m * h + g
    BY <2>1, Floored
  <2> QED
    BY <2>2
<1> HIDE DEF a, b, j, c, i, g, h
<1> DEFINE z == h - j + i
           f == g + (s - late)
<1>5. f \in Nat /\ f \in Int /\ f <= n + s /\ z \in Int
  BY <1>1, <1>2, <1>3, <1>4
<1>6. (a - c) + s = f + m * z
  <2>1. m * z = m * h - m * j + m * i /\ m * h \in Int /\ m * j \in Int /\ m * i \in Int
    BY <1>1, <1>2, <1>4
  <2> QED
    BY <1>1, <1>2, <1>4, <2>1
<1> HIDE DEF f, z
<1>7. (f + m * z) % m = f % m
  BY <1>5, Shifts
<1>8. f % m <= f /\ f % m \in Int
  <2> DEFINE u == f \div m
             w == f % m
  <2>1. u \in Nat /\ w \in 0 .. m - 1 /\ f = m * u + w
    BY <1>5, Division
  <2> HIDE DEF u, w
  <2>2. m * u \in Nat
    BY <2>1
  <2>3. w <= f /\ w \in Int
    BY <1>5, <2>1, <2>2
  <2> QED
    BY <2>3 DEF w
<1>9. ((a - c) + s) % m <= n + s
  BY <1>5, <1>6, <1>7, <1>8
<1> QED
  BY <1>9 DEF a, c

(* A clock is the same a whole common range later.                         *)
LEMMA OneRangeLater ==
  ASSUME Media!Configured, NEW k \in MediaTracks, NEW d \in Int
  PROVE  /\ d % (Modulus * Common) \in 0 .. Modulus * Common - 1
         /\ Media!TimestampAt(k, d % (Modulus * Common)) = ((d * Rate[k]) \div Common) % Modulus
<1> DEFINE r == Rate[k]
           n == Modulus * Common
           z == d \div n
           l == d % n
           lr == l * r
           zr == z * r
           t == lr \div Common
<1>1. r \in Nat \ {0} /\ Modulus \in Nat \ {0} /\ Common \in Nat \ {0}
  BY DEF Media!Configured
<1>2. n \in Nat \ {0}
  BY <1>1
<1>3. z \in Int /\ l \in 0 .. n - 1 /\ d = n * z + l
  <2> HIDE DEF n
  <2> QED
    BY <1>2, Floored
<1> HIDE DEF z, l
<1>4. /\ d * r = lr + Common * (Modulus * zr)
      /\ lr \in Int /\ zr \in Int /\ Modulus * zr \in Int
  BY <1>1, <1>3
<1> HIDE DEF lr, zr
<1>5. t \in Int
  BY <1>1, <1>4, Floored
<1>6. ((d * r) \div Common) % Modulus = t % Modulus
  <2> DEFINE mz == Modulus * zr
  <2>1. (lr + Common * mz) \div Common = t + mz
    <3> HIDE DEF mz
    <3>1. mz \in Int
      BY <1>4 DEF mz
    <3> QED
      BY <1>1, <1>4, <3>1, Shifts
  <2> HIDE DEF t
  <2>2. (t + Modulus * zr) % Modulus = t % Modulus
    BY <1>1, <1>4, <1>5, Shifts
  <2> QED
    BY <1>4, <2>1, <2>2
<1> HIDE DEF t
<1>7. Media!TimestampAt(k, l) = t % Modulus
  <2>1. lr >= 0
    BY <1>1, <1>3 DEF lr
  <2> QED
    BY <2>1 DEF Media!TimestampAt, Media!Quotient, t, lr
<1> QED
  BY <1>3, <1>6, <1>7 DEF l

(* Whatever normalize makes of long silences, the timestamps that map and  *)
(* timestamp_at give both tracks are those of one clock, up to Rounding:   *)
(* with the rates of the code one tick of the audio's and two of the       *)
(* video's, which counts 90000 a second, or one the other way where a      *)
(* negative play time is truncated.                                        *)
THEOREM OneClock == ASSUME Media!Configured PROVE Media!Spec => []Media!TracksAgree
<1>1. ClockInv => Media!TracksAgree
  <2> SUFFICES ASSUME ClockInv PROVE Media!TracksAgree
    OBVIOUS
  <2>1. CASE lags = {}
    <3>1. 0 \in 0 .. Modulus * Common - 1
      BY DEF Media!Configured
    <3> QED
      BY <2>1, <3>1 DEF Media!TracksAgree
  <2>2. CASE lags # {}
    <3> DEFINE d == Distance
               lag == d % (Modulus * Common)
    <3>1. d \in Int
      BY <2>2 DEF ClockInv, OfTheClock
    <3> HIDE DEF d
    <3>2. ASSUME NEW a \in lags
          PROVE  (Media!TimestampAt(a.track, lag) - a.offset + Media!Truncation(a.track)) % Modulus
                   <= Media!Rounding(a.track) + Media!Truncation(a.track)
      <4> DEFINE k == a.track
                 s == Media!Truncation(k)
                 e == d - a.lag
                 x == (d * Rate[k]) \div Common
                 y == ((d - e) * Rate[k]) \div Common
      <4>1. k \in MediaTracks /\ a.lag \in Int
        BY DEF ClockInv, Media!TypeOK
      <4>2. /\ WholeRanges(k, e) /\ e \in Int
            /\ Converts(k, a.lag, a.offset)
        BY DEF ClockInv, OfTheClock, WholeRanges, d
      <4>3. a.lag = d - e
        BY <3>1, <4>1
      <4> HIDE DEF k, e
      <4>4. PICK w \in Int : e * Rate[k] - (Modulus * Common) * w \in 0 .. Rate[k] - 1
        BY <4>2 DEF WholeRanges
      <4>5. Rate[k] \in Nat \ {0} /\ Modulus \in Nat \ {0} /\ Common \in Nat \ {0}
        BY <4>1 DEF ClockInv, Media!Configured
      <4>6. ((x % Modulus) - (y % Modulus)) % Modulus <= Media!Rounding(k)
        BY <3>1, <4>2, <4>4, <4>5, Rounds DEF Media!Rounding
      <4>7. Media!TimestampAt(k, lag) = x % Modulus
        BY <3>1, <4>1, OneRangeLater DEF ClockInv
      <4>8. PICK late \in 0 .. s : a.offset = (y + late) % Modulus
        BY <4>2, <4>3 DEF Converts
      <4>9. x \in Int /\ y \in Int /\ s \in Nat /\ Media!Rounding(k) \in Int
        <5>1. d * Rate[k] \in Int /\ (d - e) * Rate[k] \in Int /\ Rate[k] - 1 \in Int
          BY <3>1, <4>2, <4>5
        <5>2. x \in Int /\ y \in Int /\ (Rate[k] - 1) \div Common \in Int
          BY <4>5, <5>1, Floored
        <5> QED
          BY <5>2 DEF Media!Rounding, Media!Truncation
      <4> HIDE DEF x, y, s
      <4>10. (((x % Modulus) - a.offset) + s) % Modulus <= Media!Rounding(k) + s
        BY <4>5, <4>6, <4>8, <4>9, RoundsLate
      <4> QED
        BY <4>7, <4>10 DEF s, k
    <3>3. lag \in 0 .. Modulus * Common - 1
      <4>1. PICK a \in lags : TRUE
        BY <2>2
      <4>2. a.track \in MediaTracks
        BY DEF ClockInv, Media!TypeOK
      <4> QED
        BY <3>1, <4>2, OneRangeLater DEF ClockInv
    <3> QED
      BY <3>2, <3>3 DEF Media!TracksAgree
  <2> QED
    BY <2>1, <2>2
<1> QED
  BY <1>1, ClockInitially, ClockInductive, PTL DEF Media!Spec
=============================================================================
