-------------------------------- MODULE Page --------------------------------
(***************************************************************************)
(* The page of the VRCStreamer client around a session: the selected       *)
(* server and its answers, the link that is shown, the start of a session, *)
(* its restart under a new link and a change of its encoder, all of them   *)
(* running into one another (client.js, and start and                      *)
(* restartActiveWithCurrentSources of streamer.js).                        *)
(*                                                                         *)
(* A server is named by its key. The inside of a capture, of the sources   *)
(* and of an encoder swap is left to VideoSource and AudioEncoding; the    *)
(* video presets, texts, passwords and the page's data are left out.       *)
(***************************************************************************)
EXTENDS Naturals, FiniteSets

CONSTANTS
  None, Custom,
  Listed, First,        \* the servers of config.json, and its first
  Addresses,            \* what the user types as a server of their own
  Modes,                \* of the encoder
  MaxCodes,             \* bounds of the model: stream codes,
  MaxHashes             \*   calls of updateUrl at a time

Codes   == 1 .. MaxCodes
Keys    == Listed \cup Addresses
Kinds   == {"mic", "video"}       \* the sources a session can have together

ASSUME PageAssumption ==
  /\ First \in Listed /\ Custom \notin Keys /\ None \notin Keys
  /\ Addresses # {} /\ Modes # {}
  /\ {"loading", "offline"} \cap Keys = {}
  /\ MaxCodes \in Nat \ {0} /\ MaxHashes \in Nat

VARIABLES
  choice, address,      \* the server select, the address in the custom form
  requested,            \* customConnectRequested
  bookmarks, known,     \* bookmarkedServers, servers whose media address is known
  status,               \* "loading", "offline", or the key of who said online
  lookups,              \* the calls of refreshStats that wait for an answer
  code, shown,          \* streamCode, and the link that is shown
  digests,              \* the calls of updateUrl that wait for the hash
  link, rest,           \* linkRestartInFlight, and what is still to be restarted
  attempt,              \* the start or the added source under way
  active, session,      \* the session
  mode, swap            \* the encoder select, and the change of it under way

server == <<choice, address, requested, bookmarks, known, status, lookups>>
url    == <<code, shown, digests>>
stream == <<link, rest, attempt, active, session>>
coder  == <<mode, swap>>
vars   == <<server, url, stream, coder>>

Steps   == {"none", "capturing", "opening", "building", "installing", "adding"}
Sockets == {"none", "open", "closed"}

NoSwap    == [on |-> "none", from |-> None]
NoSession == [code |-> 0, key |-> None, mode |-> None, sources |-> {}, socket |-> "none"]
NoAttempt ==
  [step |-> "none", kind |-> "none", restart |-> FALSE,
   code |-> 0, key |-> None, mode |-> None, socket |-> "none"]

Init ==
  /\ choice = First /\ address \in Addresses /\ requested = FALSE
  /\ bookmarks = {} /\ known = Listed
  /\ status = "loading" /\ lookups = {}
  /\ code = 1 /\ digests = {}
  /\ shown = <<code, choice>>
  /\ link = FALSE /\ rest = {} /\ attempt = NoAttempt
  /\ active = FALSE /\ session = NoSession
  /\ mode \in Modes /\ swap = NoSwap

Key  == IF choice = Custom THEN address ELSE choice     \* currentServerKey
Busy == attempt.step # "none"                           \* sourceRequestInFlight
-----------------------------------------------------------------------------
(* The link.                                                               *)

(* updateUrl up to its await; later calls outdate the earlier ones.        *)
UpdateUrl(c, renewal) ==
  /\ Cardinality(digests) < MaxHashes
  /\ digests' = {[d EXCEPT !.newest = FALSE] : d \in digests}
                  \cup {[code |-> c, newest |-> TRUE, renewal |-> renewal]}

(* The link of code c on the server that is selected when it is shown.     *)
Link(c) == IF Key \in known THEN <<c, Key>> ELSE None

ShownAnyway(d) == Link(d.code)                                    \* variant
Shown(d) == IF d.newest THEN Link(d.code) ELSE shown

(* cleanup: the session ends, and a swap with it, as its call will learn.  *)
Cleanup ==
  /\ active' = FALSE /\ session' = NoSession
  /\ swap' = IF swap = NoSwap THEN swap ELSE [swap EXCEPT !.on = "orphan"]

StopIfActive ==
  IF active THEN Cleanup ELSE UNCHANGED <<active, session, swap>>

(* newLink, up to its await.                                               *)
NewLink ==
  /\ ~Busy /\ ~link /\ swap = NoSwap
  /\ code < MaxCodes
  /\ link' = TRUE
  /\ code' = code + 1
  /\ UpdateUrl(code + 1, TRUE)
  /\ UNCHANGED <<server, shown, rest, attempt, active, session, coder>>

FirstOf(kinds) == IF "mic" \in kinds THEN "mic" ELSE "video"

(* restartActiveWithCurrentSources up to its first await: start does       *)
(* nothing while a source is requested.                                    *)
RestartForgetting ==                                              \* variant
  IF ~active \/ session.sources = {} THEN UNCHANGED <<stream, swap>>
  ELSE /\ Cleanup
       /\ rest' = session.sources \ {FirstOf(session.sources)}
       /\ attempt' = [NoAttempt EXCEPT !.step = "capturing", !.restart = TRUE,
                        !.kind = FirstOf(session.sources), !.code = code]
       /\ UNCHANGED link
Restart ==
  IF ~active \/ session.sources = {}
    THEN link' = FALSE /\ UNCHANGED <<rest, attempt, active, session, swap>>
    ELSE /\ Cleanup
         /\ IF Busy THEN link' = FALSE /\ UNCHANGED <<rest, attempt>>
            ELSE /\ rest' = session.sources \ {FirstOf(session.sources)}
                 /\ attempt' = [NoAttempt EXCEPT !.step = "capturing", !.restart = TRUE,
                                  !.kind = FirstOf(session.sources), !.code = code]
                 /\ UNCHANGED link

(* The continuation of updateUrl, and that of newLink after its own.       *)
Digested(d) ==
  /\ d \in digests
  /\ digests' = digests \ {d}
  /\ shown' = Shown(d)
  /\ IF d.renewal THEN Restart ELSE UNCHANGED <<stream, swap>>
  /\ UNCHANGED <<server, code, mode>>
-----------------------------------------------------------------------------
(* The server.                                                             *)

(* refreshStats up to its await. Two calls for the same server and the     *)
(* same reason at a time are one: Poll may ask again after the answer.     *)
Lookup(key, connect) == lookups' = lookups \cup {[key |-> key, connect |-> connect]}

(* connectSelectedServer after key was selected, up to its await.          *)
ConnectTo(key, connect) ==
  /\ status' = "loading"
  /\ UpdateUrl(code, FALSE)
  /\ Lookup(key, connect)

(* The server select: a session ends; a custom server awaits its form.     *)
SelectServer(s) ==
  /\ s \in Listed \cup bookmarks /\ s # choice
  /\ StopIfActive
  /\ choice' = s
  /\ ConnectTo(s, FALSE)
  /\ UNCHANGED <<address, requested, bookmarks, known, code, shown, link, rest, attempt, mode>>

SelectCustom ==
  /\ choice # Custom
  /\ StopIfActive
  /\ choice' = Custom /\ requested' = FALSE
  /\ status' = "loading"
  /\ UpdateUrl(code, FALSE)
  /\ UNCHANGED <<address, bookmarks, known, lookups, code, shown, link, rest, attempt, mode>>

(* removeSelectedBookmarkedServer                                          *)
RemoveBookmark ==
  /\ choice \in bookmarks
  /\ StopIfActive
  /\ bookmarks' = bookmarks \ {choice} /\ known' = known \ {choice}
  /\ choice' = First
  /\ ConnectTo(First, FALSE)
  /\ UNCHANGED <<address, requested, code, shown, link, rest, attempt, mode>>

(* updateCustomVisibility: the form goes with a session, but the page may  *)
(* not look at it again before the first source is in.                     *)
FormLocked == active /\ attempt.step # "installing"

(* Typing in the form of the custom server, an address or a password.      *)
EditCustom(a) ==
  /\ choice = Custom /\ ~FormLocked
  /\ address' = a /\ requested' = FALSE
  /\ status' = "loading"
  /\ UNCHANGED <<choice, bookmarks, known, lookups, url, stream, coder>>

(* connectCustomServer up to its await.                                    *)
ConnectCustom ==
  /\ choice = Custom /\ ~FormLocked
  /\ requested' = TRUE
  /\ ConnectTo(address, TRUE)
  /\ UNCHANGED <<choice, address, bookmarks, known, code, shown, stream, coder>>

(* refreshStats, every now and then.                                       *)
Poll ==
  /\ choice # Custom \/ requested
  /\ Lookup(Key, FALSE)
  /\ UNCHANGED <<choice, address, requested, bookmarks, known, status, url, stream, coder>>

(* applyServerInfo of the server named key, which may offer no video.      *)
ApplyInfo(key) ==
  IF key # Key THEN UNCHANGED <<known, digests, session>>
  ELSE /\ known' = known \cup {key}
       /\ UpdateUrl(code, FALSE)
       /\ \/ UNCHANGED session
          \/ session' = [session EXCEPT !.sources = @ \ {"video"}]

(* saveCustomServer                                                        *)
SaveCustom(key) ==
  /\ bookmarks' = bookmarks \cup ({key} \ Listed)
  /\ choice' = key
  /\ requested' = FALSE

ConcernsAny(key) == TRUE                                          \* variant
Concerns(key) == key = Key

(* The continuation of refreshStats, and of the connect it was called by.  *)
Answered(l) ==
  /\ l \in lookups
  /\ IF Concerns(l.key)
       THEN /\ ApplyInfo(l.key)
            /\ status' = l.key
            /\ IF l.connect THEN SaveCustom(l.key) ELSE UNCHANGED <<bookmarks, choice, requested>>
       ELSE UNCHANGED <<known, digests, session, status, bookmarks, choice, requested>>
  /\ lookups' = lookups \ {l}
  /\ UNCHANGED <<address, code, shown, link, rest, attempt, active, coder>>

Unanswered(l) ==
  /\ l \in lookups
  /\ status' = IF Concerns(l.key) THEN "offline" ELSE status
  /\ lookups' = lookups \ {l}
  /\ UNCHANGED <<choice, address, requested, bookmarks, known, url, stream, coder>>
-----------------------------------------------------------------------------
(* The start of a session, and the sources added to it.                    *)

Start(kind) ==
  /\ status \in Keys                    \* the buttons are off otherwise
  /\ ~active /\ ~Busy
  /\ attempt' = [NoAttempt EXCEPT !.step = "capturing", !.kind = kind, !.code = code]
  /\ UNCHANGED <<server, url, link, rest, active, session, coder>>

Add(kind) ==
  /\ active /\ ~Busy
  /\ attempt' = [NoAttempt EXCEPT !.step = "adding", !.kind = kind]
  /\ UNCHANGED <<server, url, link, rest, active, session, coder>>

(* A start or an addition is over: a restart goes on with the next source. *)
Over(on) ==
  IF ~attempt.restart THEN attempt' = NoAttempt /\ UNCHANGED <<link, rest>>
  ELSE IF on /\ rest # {}
    THEN /\ attempt' = [NoAttempt EXCEPT !.step = "adding", !.restart = TRUE,
                          !.kind = FirstOf(rest)]
         /\ rest' = rest \ {FirstOf(rest)}
         /\ UNCHANGED link
    ELSE attempt' = NoAttempt /\ rest' = {} /\ link' = FALSE

(* The capture and the encoder are there: the socket to the server that is *)
(* selected now.                                                           *)
Open ==
  /\ attempt.step = "capturing"
  /\ attempt' = [attempt EXCEPT !.step = "opening", !.key = Key, !.mode = mode]
  /\ UNCHANGED <<server, url, link, rest, active, session, coder>>

(* handleStreamerMessage with the hello.                                   *)
Hello ==
  /\ attempt.step = "opening"
  /\ attempt' = [attempt EXCEPT !.step = "building", !.socket = "open"]
  /\ ApplyInfo(attempt.key)
  /\ UNCHANGED <<choice, address, requested, bookmarks, status, lookups,
                 code, shown, link, rest, active, coder>>

(* The graph, the capture node and the wake lock are there.                *)
Activate ==
  /\ attempt.step = "building"
  /\ active' = TRUE
  /\ session' = [code |-> attempt.code, key |-> attempt.key, mode |-> attempt.mode,
                 sources |-> {}, socket |-> attempt.socket]
  /\ attempt' = [attempt EXCEPT !.step = "installing"]
  /\ UNCHANGED <<server, url, link, rest, coder>>

(* The source is in; when the session is over nothing is installed.        *)
Installed ==
  /\ attempt.step \in {"installing", "adding"}
  /\ session' = IF active THEN [session EXCEPT !.sources = @ \cup {attempt.kind}] ELSE session
  /\ Over(active)
  /\ UNCHANGED <<server, url, active, coder>>

(* A step of the start fails or takes too long.                            *)
AttemptFails ==
  /\ Busy
  /\ IF attempt.step = "installing" THEN StopIfActive /\ Over(FALSE)
     ELSE Over(active) /\ UNCHANGED <<active, session, swap>>
  /\ UNCHANGED <<server, url, mode>>

(* The socket closes: nobody listens for it while the session is built.    *)
SocketCloses ==
  \/ /\ attempt.step = "building" /\ attempt.socket = "open"
     /\ attempt' = [attempt EXCEPT !.socket = "closed"]
     /\ UNCHANGED <<server, url, link, rest, active, session, coder>>
  \/ /\ active /\ session.socket = "open"
     /\ Cleanup
     /\ UNCHANGED <<server, url, link, rest, attempt, mode>>

(* removeAudioSource, removeVideoSource                                    *)
RemoveSource(kind) ==
  /\ active /\ kind \in session.sources
  /\ session' = [session EXCEPT !.sources = @ \ {kind}]
  /\ UNCHANGED <<server, url, link, rest, attempt, active, coder>>

(* stop, failActive                                                        *)
Stop ==
  /\ active
  /\ Cleanup
  /\ UNCHANGED <<server, url, link, rest, attempt, mode>>
-----------------------------------------------------------------------------
(* The encoder select, off while anything else is under way.               *)
SelectMode(m) ==
  /\ active /\ session.sources # {} /\ m # mode
  /\ ~Busy /\ ~link /\ swap = NoSwap
  /\ mode' = m
  /\ swap' = [on |-> "running", from |-> mode]
  /\ UNCHANGED <<server, url, stream>>

(* replaceAudioEncoder of the session that is still there.                 *)
Swapped ==
  /\ swap.on = "running"
  /\ session' = [session EXCEPT !.mode = mode]
  /\ swap' = NoSwap
  /\ UNCHANGED <<server, url, link, rest, attempt, active, mode>>

RevertedAnyway == swap.from                                       \* variant
Reverted == IF swap.on = "running" THEN swap.from ELSE mode

(* The catch: the select goes back, unless the session is another.         *)
SwapFails ==
  /\ swap # NoSwap
  /\ mode' = Reverted
  /\ swap' = NoSwap
  /\ UNCHANGED <<server, url, stream>>

Next ==
  \/ NewLink \/ \E d \in digests : Digested(d)
  \/ \E s \in Keys : SelectServer(s)
  \/ SelectCustom \/ RemoveBookmark \/ ConnectCustom \/ Poll
  \/ \E a \in Addresses : EditCustom(a)
  \/ \E l \in lookups : Answered(l) \/ Unanswered(l)
  \/ \E kind \in Kinds : Start(kind) \/ Add(kind) \/ RemoveSource(kind)
  \/ Open \/ Hello \/ Activate \/ Installed \/ AttemptFails
  \/ SocketCloses \/ Stop
  \/ \E m \in Modes : SelectMode(m)
  \/ Swapped \/ SwapFails

Spec == Init /\ [][Next]_vars
-----------------------------------------------------------------------------
TypeOK ==
  /\ choice \in Keys \cup {Custom} /\ address \in Addresses /\ requested \in BOOLEAN
  /\ bookmarks \subseteq Addresses /\ known \subseteq Keys
  /\ status \in Keys \cup {"loading", "offline"}
  /\ lookups \subseteq [key : Keys, connect : BOOLEAN]
  /\ code \in Codes /\ shown \in (Codes \X Keys) \cup {None}
  /\ digests \subseteq [code : Codes, newest : BOOLEAN, renewal : BOOLEAN]
  /\ link \in BOOLEAN /\ rest \subseteq Kinds
  /\ attempt \in {NoAttempt} \cup
       [step : Steps, kind : Kinds, restart : BOOLEAN, code : Codes \cup {0},
        key : Keys \cup {None}, mode : Modes \cup {None}, socket : Sockets]
  /\ active \in BOOLEAN
  /\ session \in [code : Codes \cup {0}, key : Keys \cup {None}, mode : Modes \cup {None},
                   sources : SUBSET Kinds, socket : Sockets]
  /\ mode \in Modes
  /\ swap \in {NoSwap} \cup [on : {"running", "orphan"}, from : Modes]

(* A stream can be started only on the selected server's own word: the     *)
(* late answer of another server does not make it online.                  *)
OnlineIsSelected == status \in Keys => status = Key

(* When no hash is on its way, the link shown is that of the code and the  *)
(* server in use, in whatever order the hashes came (a custom address that *)
(* is still being typed is not in use).                                    *)
LinkSettled == digests = {} /\ (choice # Custom \/ requested) => shown = Link(code)

(* The encoder select names the encoder of the session, also when a change *)
(* asked for in an earlier session fails during this one.                  *)
ModeInStep == active /\ swap.on # "running" => mode = session.mode

(* The new link button is off exactly as long as newLink is at work, on    *)
(* its hash or on the sources it restarts: whatever fails, stops or is     *)
(* selected in the meantime, it comes back, and never too early.           *)
LinkUnderWay ==
  /\ link <=> attempt.restart \/ \E d \in digests : d.renewal
  /\ rest # {} => attempt.restart

(* "Generate Another Link", "Paste this link into video player": when     *)
(* nothing is under way, the code of the link is the one being streamed to.*)
NewLinkIsLive == active /\ ~Busy /\ ~link => session.code = code
=============================================================================
