---------------------------- MODULE RtspSession -----------------------------
(***************************************************************************)
(* One RTSP connection of the VRCStreamer server (handle_rtsp_client of    *)
(* rtsp.rs): the requests of a client in any order, what each leaves in    *)
(* the session, and the deadline of the handshake.                         *)
(*                                                                         *)
(* The channel's counters are those of Registry, what the media task sends *)
(* is Relay's. A response is written at once: a peer that does not read is *)
(* not modelled.                                                           *)
(***************************************************************************)
EXTENDS Naturals

CONSTANTS
  Streams, None,
  Top,                   \* u8::MAX, the greatest interleaved channel
  MaxRequests,           \* max_rtsp_requests_per_connection
  Timeout                \* rtsp_handshake_timeout, in ticks

Tracks == {"audio", "video"}

ASSUME RtspAssumption ==
  /\ Top \in Nat /\ Top >= 7 /\ None \notin Streams \cup Nat
  /\ \A tracks \in SUBSET Tracks : tracks # None
  /\ MaxRequests \in Nat \ {0} /\ Timeout \in Nat \ {0}

VARIABLES
  open,                  \* the connection's loop runs
  remaining,             \* time to the handshake deadline
  requests,
  key, guard,            \* the session's key; the stream it is subscribed to
  receivers,             \* the tracks whose audio_rx, video_rx is there
  setup, channel,        \* per track
  media3, omitted,       \* androidx_media3, video_omitted
  media,                 \* the tracks the media task sends, None without one
  accepted,              \* history: streams of the SETUPs that were accepted
  redescribed            \* history: another stream was described since

session == <<key, guard, receivers, setup, channel, omitted, media>>
history == <<accepted, redescribed>>
vars    == <<open, remaining, requests, session, media3, history>>

Channels == 0 .. Top

Init ==
  /\ open = TRUE /\ remaining = Timeout /\ requests = 0
  /\ key = None /\ guard = None /\ receivers = {}
  /\ setup = {} /\ channel = [t \in Tracks |-> 0]
  /\ media3 = FALSE /\ omitted = FALSE /\ media = None
  /\ accepted = {} /\ redescribed = FALSE

Playing == media # None

(* The loop reads while there is a media task, or time.                    *)
Reading == open /\ (Playing \/ remaining > 0)
-----------------------------------------------------------------------------
(* A request within the connection's limit; its headers may show a Media3  *)
(* player.                                                                 *)
Request ==
  /\ Reading
  /\ requests < MaxRequests /\ requests' = requests + 1
  /\ media3' \in {media3, TRUE}
  /\ UNCHANGED <<open, remaining>>

(* A request that changes nothing: OPTIONS, GET_PARAMETER, an unknown      *)
(* method, and every answer with an error before the session is changed.   *)
Ask == Request /\ UNCHANGED <<session, history>>

Advertised == ~omitted

Describe(stream, live) ==
  /\ Request
  /\ key' = stream
  /\ omitted' = (media3' /\ ~live)
  /\ redescribed' = (redescribed \/ (guard # None /\ stream # guard))
  /\ UNCHANGED <<guard, receivers, setup, channel, media, accepted>>

Track(asked) == IF Advertised THEN asked ELSE "audio"
Other(track) == IF track = "audio" THEN "video" ELSE "audio"

(* rtsp_channel_pairs_overlap                                              *)
SameChannel(one, other) == one = other                            \* variant
Overlap(one, other) == one <= other + 1 /\ other <= one + 1

Fits(candidate) == candidate # Top

Available(track, candidate) ==
  /\ Fits(candidate)
  /\ Other(track) \in setup => ~Overlap(candidate, channel[Other(track)])

Preferred(track, requested) ==
  IF requested # None THEN requested
  ELSE IF track = "audio" /\ Advertised THEN 2 ELSE 0

(* select_rtsp_interleaved_channel                                         *)
Selected(track, requested) ==
  LET free == {c \in Channels : c % 2 = 0 /\ c <= Top - 3 /\ Available(track, c)}
  IN  IF Available(track, Preferred(track, requested)) \/ free = {}
        THEN Preferred(track, requested)
        ELSE CHOOSE c \in free : \A d \in free : c <= d

SetupForAny(stream) == TRUE                                       \* variant
SetupFor(stream) == guard = None \/ key = stream

FirstReceiversOnly == {"audio"}                                   \* variant
FirstReceivers == IF Advertised THEN Tracks ELSE {"audio"}

Setup(uri, asked, requested) ==
  LET stream == IF uri # None THEN uri ELSE key
      track  == Track(asked)
  IN  /\ Request
      /\ stream # None /\ SetupFor(stream)
      /\ IF guard = None THEN guard' = stream /\ receivers' = FirstReceivers
                         ELSE UNCHANGED <<guard, receivers>>
      /\ key' = stream
      /\ channel' = [channel EXCEPT ![track] = Selected(track, requested)]
      /\ setup' = setup \cup {track}
      /\ accepted' = accepted \cup {stream}
      /\ UNCHANGED <<omitted, media, redescribed>>

(* The first PLAY hands the receivers to the media task. One it misses is  *)
(* an error, after the audio receiver has been taken.                      *)
Play ==
  /\ Request
  /\ setup # {} /\ ~Playing
  /\ receivers' = IF "audio" \in setup \ receivers THEN receivers ELSE receivers \ setup
  /\ media' = IF setup \subseteq receivers THEN setup ELSE None
  /\ UNCHANGED <<key, guard, setup, channel, omitted, history>>
-----------------------------------------------------------------------------
Closed == open' = FALSE /\ UNCHANGED <<remaining, requests, session, media3, history>>

(* TEARDOWN, one request too many, the peer's end or an error.             *)
End == Reading /\ Closed

(* The media task has ended.                                               *)
MediaEnds == open /\ Playing /\ Closed

Tick ==
  /\ remaining > 0 /\ remaining' = remaining - 1
  /\ UNCHANGED <<open, requests, session, media3, history>>

TimeOut == open /\ ~Playing /\ remaining = 0 /\ Closed

(* An interleaved packet of the peer takes the loop round once more.       *)
TimeoutEach == Timeout                                            \* variant
TimeLeft == remaining

Interleaved ==
  /\ Reading
  /\ remaining' = TimeLeft
  /\ UNCHANGED <<open, requests, session, media3, history>>

Next ==
  \/ Ask
  \/ \E stream \in Streams, live \in BOOLEAN : Describe(stream, live)
  \/ \E uri \in Streams \cup {None}, asked \in Tracks, requested \in Channels \cup {None} :
       Setup(uri, asked, requested)
  \/ Play \/ End \/ MediaEnds \/ Tick \/ TimeOut \/ Interleaved

(* Time passes, and tokio polls the loop that is past its deadline.        *)
Spec == Init /\ [][Next]_vars /\ WF_vars(Tick) /\ WF_vars(TimeOut)
-----------------------------------------------------------------------------
TypeOK ==
  /\ open \in BOOLEAN /\ remaining \in 0 .. Timeout /\ requests \in 0 .. MaxRequests
  /\ key \in Streams \cup {None} /\ guard \in Streams \cup {None}
  /\ receivers \subseteq Tracks /\ setup \subseteq Tracks
  /\ channel \in [Tracks -> 0 .. Top - 1]
  /\ media3 \in BOOLEAN /\ omitted \in BOOLEAN
  /\ media \in {None} \cup SUBSET Tracks
  /\ accepted \subseteq Streams /\ redescribed \in BOOLEAN

(* However its tracks were set up, and set up again, their pairs of        *)
(* interleaved channels are apart.                                         *)
ChannelsDisjoint ==
  setup = Tracks =>
    \A a, v \in {0, 1} : channel["audio"] + a # channel["video"] + v

(* A player to which video was never denied can play what it has set up.   *)
Playable == ~media3 /\ ~Playing => setup \subseteq receivers

(* Unless another stream is described in between, a client sets up tracks  *)
(* of the stream that it is subscribed to, whatever it asks for.           *)
OneStream == ~redescribed => accepted \subseteq {guard}

(* A connection that does not come to play is closed.                      *)
HandshakeEnds == <>(~open \/ Playing)
=============================================================================
