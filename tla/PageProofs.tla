----------------------------- MODULE PageProofs -----------------------------
(***************************************************************************)
(* Proofs about Page, for any servers, addresses, modes and bounds.        *)
(***************************************************************************)
EXTENDS Page, TLAPS

(* A hash that may still be shown is of the current code, and one is on    *)
(* its way whenever the link is out of date.                               *)
InUse == choice # Custom \/ requested

LinkInv ==
  /\ \A d \in digests : d.newest => d.code = code
  /\ InUse => shown = Link(code) \/ \E d \in digests : d.newest

(* One call of newLink at a time, and in one place only.                   *)
LockInv ==
  /\ LinkUnderWay
  /\ \A d, e \in digests : d.renewal /\ e.renewal => d = e
  /\ attempt.restart => Busy /\ \A d \in digests : ~d.renewal

(* A start finds no session, and from its connection on no encoder change. *)
ModeInv ==
  /\ ModeInStep
  /\ attempt.step \in {"capturing", "opening", "building"} => ~active
  /\ attempt.step \in {"opening", "building"} => attempt.mode = mode
  /\ swap.on = "running" => active /\ swap.from = session.mode

Inv == TypeOK /\ OnlineIsSelected /\ LinkInv /\ LockInv /\ ModeInv
-----------------------------------------------------------------------------
LEMMA Initially == Init => Inv
<1> SUFFICES ASSUME Init PROVE Inv
  OBVIOUS
<1> USE PageAssumption DEF Init
<1>1. TypeOK
  <2>1. code \in Codes /\ First \in Keys
    BY DEF Codes, Keys
  <2>2. session \in [code : Codes \cup {0}, key : Keys \cup {None}, mode : Modes \cup {None},
                     sources : SUBSET Kinds, socket : Sockets]
    BY DEF NoSession, Sockets
  <2> QED
    BY <2>1, <2>2 DEF TypeOK, Keys
<1>2. OnlineIsSelected
  BY DEF OnlineIsSelected
<1>3. LinkInv
  BY DEF LinkInv, InUse, Link, Key, Keys
<1>4. LockInv
  BY DEF LockInv, LinkUnderWay, NoAttempt
<1>5. ModeInv
  BY DEF ModeInv, ModeInStep, NoAttempt, NoSwap
<1> QED
  BY <1>1, <1>2, <1>3, <1>4, <1>5 DEF Inv

(* What a call of updateUrl does to the hashes under way.                  *)
LEMMA UpdateUrlKeeps ==
  ASSUME TypeOK, NEW c \in Codes, NEW renewal \in BOOLEAN, UpdateUrl(c, renewal)
  PROVE  /\ digests' \subseteq [code : Codes, newest : BOOLEAN, renewal : BOOLEAN]
         /\ \A d \in digests' : d.newest => d.code = c
         /\ \E d \in digests' : d.newest
         /\ (\E d \in digests' : d.renewal) <=> renewal \/ \E d \in digests : d.renewal
         /\ (\A d, e \in digests : d.renewal /\ e.renewal => d = e)
            /\ (renewal => \A d \in digests : ~d.renewal)
              => \A d, e \in digests' : d.renewal /\ e.renewal => d = e
<1> DEFINE D == [code : Codes, newest : BOOLEAN, renewal : BOOLEAN]
           new == [code |-> c, newest |-> TRUE, renewal |-> renewal]
           Old(d) == [d EXCEPT !.newest = FALSE]
<1>1. digests \subseteq D
  BY DEF TypeOK
<1>2. digests' = {Old(d) : d \in digests} \cup {new}
  BY DEF UpdateUrl
<1>3. \A d \in D : Old(d) \in D /\ ~Old(d).newest /\ Old(d).renewal = d.renewal
  OBVIOUS
<1>4. new \in D /\ new.newest /\ new.code = c /\ new.renewal = renewal
  OBVIOUS
<1> HIDE DEF D, new, Old
<1> QED
  BY <1>1, <1>2, <1>3, <1>4 DEF D

(* The server in use is one of the servers.                                *)
LEMMA KeyIsKey == TypeOK => Key \in Keys
  BY DEF TypeOK, Key, Keys
-----------------------------------------------------------------------------
(* A session that ends, a link that is asked for, a server's word.         *)
LEMMA CleanupKeeps ==
  ASSUME TypeOK, Cleanup
  PROVE  /\ active' = FALSE /\ session' = NoSession
         /\ swap' \in {NoSwap} \cup [on : {"running", "orphan"}, from : Modes]
         /\ swap'.on # "running"
<1>1. swap \in {NoSwap} \cup [on : {"running", "orphan"}, from : Modes]
  BY DEF TypeOK
<1>2. CASE swap = NoSwap
  BY <1>2 DEF Cleanup, NoSwap
<1>3. CASE swap # NoSwap
  <2>1. swap \in [on : {"running", "orphan"}, from : Modes]
    BY <1>1, <1>3
  <2>2. swap' = [swap EXCEPT !.on = "orphan"]
    BY <1>3 DEF Cleanup
  <2> QED
    BY <2>1, <2>2 DEF Cleanup
<1> QED
  BY <1>2, <1>3

SessionType ==
  [code : Codes \cup {0}, key : Keys \cup {None}, mode : Modes \cup {None},
   sources : SUBSET Kinds, socket : Sockets]

BusyType ==
  [step : Steps, kind : Kinds, restart : BOOLEAN,
   code : Codes \cup {0}, key : Keys \cup {None}, mode : Modes \cup {None}, socket : Sockets]

AttemptType == {NoAttempt} \cup BusyType

DigestType == [code : Codes, newest : BOOLEAN, renewal : BOOLEAN]

LEMMA EmptyRecords ==
  /\ NoSession \in SessionType
  /\ NoAttempt \in AttemptType /\ NoAttempt.step = "none" /\ ~NoAttempt.restart
<1>1. NoSession \in SessionType
  BY DEF NoSession, SessionType, Sockets
<1>2. NoAttempt \in AttemptType
  BY DEF NoAttempt, AttemptType, BusyType, Steps, Sockets
<1> QED
  BY <1>1, <1>2 DEF NoAttempt

LEMMA BusyIsTyped == attempt \in AttemptType /\ Busy => attempt \in BusyType
  BY EmptyRecords DEF AttemptType, Busy

LEMMA ApplyInfoKeeps ==
  ASSUME TypeOK, NEW key \in Keys, ApplyInfo(key)
  PROVE  /\ known' \subseteq Keys /\ digests' \subseteq DigestType
         /\ session' \in SessionType
         /\ session'.mode = session.mode /\ session'.code = session.code
         /\ \/ known' = known /\ digests' = digests
            \/ UpdateUrl(code, FALSE)
<1>1. CASE key # Key
  BY <1>1 DEF ApplyInfo, TypeOK, DigestType, SessionType
<1>2. CASE key = Key
  <2>1. UpdateUrl(code, FALSE) /\ known' = known \cup {key}
    BY <1>2 DEF ApplyInfo
  <2>2. digests' \subseteq DigestType
    BY <2>1, UpdateUrlKeeps DEF TypeOK, DigestType
  <2>3. session \in SessionType
    BY DEF TypeOK, SessionType
  <2>4. session' = session \/ session' = [session EXCEPT !.sources = @ \ {"video"}]
    BY <1>2 DEF ApplyInfo
  <2>5. session' \in SessionType /\ session'.mode = session.mode /\ session'.code = session.code
    BY <2>3, <2>4 DEF SessionType
  <2> QED
    BY <2>1, <2>2, <2>5 DEF TypeOK
<1> QED
  BY <1>1, <1>2

LEMMA OverKeeps ==
  ASSUME TypeOK, NEW on \in BOOLEAN, Over(on)
  PROVE  /\ attempt' \in AttemptType /\ link' \in BOOLEAN /\ rest' \subseteq Kinds
         /\ attempt'.step \in {"none", "adding"}
         /\ attempt'.restart => attempt.restart /\ attempt'.step = "adding" /\ link' = link
         /\ attempt.restart /\ ~attempt'.restart => ~link' /\ rest' = {}
         /\ ~attempt.restart => link' = link /\ rest' = rest
<1>0. link \in BOOLEAN /\ rest \subseteq Kinds
  BY DEF TypeOK
<1>1. CASE ~attempt.restart
  BY <1>0, <1>1, EmptyRecords DEF Over
<1>2. CASE attempt.restart /\ on /\ rest # {}
  <2>1. FirstOf(rest) \in Kinds
    BY DEF FirstOf, Kinds
  <2>2. attempt' = [NoAttempt EXCEPT !.step = "adding", !.restart = TRUE, !.kind = FirstOf(rest)]
    BY <1>2 DEF Over
  <2>3. attempt' \in AttemptType
    BY <2>1, <2>2 DEF NoAttempt, AttemptType, BusyType, Steps, Sockets
  <2>4. attempt'.step = "adding" /\ attempt'.restart
    BY <2>2 DEF NoAttempt
  <2> QED
    BY <1>2, <2>3, <2>4 DEF Over, TypeOK
<1>3. CASE attempt.restart /\ ~(on /\ rest # {})
  BY <1>3, EmptyRecords DEF Over
<1> QED
  BY <1>1, <1>2, <1>3
-----------------------------------------------------------------------------
(* A restart: nothing, or a session that ends and perhaps a start.         *)
LEMMA RestartKeeps ==
  ASSUME TypeOK, Restart
  PROVE  /\ attempt' \in AttemptType /\ link' \in BOOLEAN /\ rest' \subseteq Kinds
         /\ active' \in BOOLEAN /\ session' \in SessionType
         /\ swap' \in {NoSwap} \cup [on : {"running", "orphan"}, from : Modes]
         /\ \/ active' = active /\ session' = session /\ swap' = swap
            \/ active' = FALSE /\ swap'.on # "running"
         /\ \/ ~link' /\ attempt' = attempt /\ rest' = rest
            \/ /\ link' = link /\ active' = FALSE /\ attempt'.restart
               /\ attempt'.step = "capturing"
<1>0. swap \in {NoSwap} \cup [on : {"running", "orphan"}, from : Modes]
  BY DEF TypeOK
<1>1. CASE ~active \/ session.sources = {}
  BY <1>0, <1>1 DEF Restart, TypeOK, AttemptType, BusyType, SessionType
<1>2. CASE ~(~active \/ session.sources = {}) /\ Busy
  BY <1>2, CleanupKeeps, EmptyRecords DEF Restart, TypeOK, AttemptType, BusyType
<1>3. CASE ~(~active \/ session.sources = {}) /\ ~Busy
  <2>1. Cleanup /\ link' = link /\ rest' = session.sources \ {FirstOf(session.sources)}
    BY <1>3 DEF Restart
  <2>2. attempt' = [NoAttempt EXCEPT !.step = "capturing", !.restart = TRUE,
                      !.kind = FirstOf(session.sources), !.code = code]
    BY <1>3 DEF Restart
  <2>3. FirstOf(session.sources) \in Kinds /\ code \in Codes
    BY DEF FirstOf, Kinds, TypeOK
  <2>4. attempt' \in AttemptType
    BY <2>2, <2>3 DEF NoAttempt, AttemptType, BusyType, Steps, Sockets
  <2>5. attempt'.step = "capturing" /\ attempt'.restart
    BY <2>2 DEF NoAttempt
  <2>6. rest' \subseteq Kinds
    BY <2>1 DEF TypeOK
  <2> QED
    BY <2>1, <2>4, <2>5, <2>6, CleanupKeeps, EmptyRecords DEF TypeOK
<1> QED
  BY <1>1, <1>2, <1>3

LEMMA StopIfActiveKeeps ==
  ASSUME TypeOK, StopIfActive
  PROVE  /\ active' = FALSE /\ session' \in SessionType
         /\ swap' \in {NoSwap} \cup [on : {"running", "orphan"}, from : Modes]
         /\ swap'.on # "running" \/ swap' = swap
<1>0. swap \in {NoSwap} \cup [on : {"running", "orphan"}, from : Modes]
  BY DEF TypeOK
<1>1. CASE active
  BY <1>1, CleanupKeeps, EmptyRecords DEF StopIfActive
<1>2. CASE ~active
  BY <1>0, <1>2 DEF StopIfActive, TypeOK, SessionType
<1> QED
  BY <1>1, <1>2

(* The link is of a code and a server, or nothing.                         *)
LEMMA LinkType ==
  ASSUME TypeOK, NEW c \in Codes PROVE Link(c) \in (Codes \X Keys) \cup {None}
  BY KeyIsKey DEF Link
-----------------------------------------------------------------------------
(* Types, for each part of the state on its own.                           *)
ServerType ==
  /\ choice \in Keys \cup {Custom} /\ address \in Addresses /\ requested \in BOOLEAN
  /\ bookmarks \subseteq Addresses /\ known \subseteq Keys
  /\ status \in Keys \cup {"loading", "offline"}
  /\ lookups \subseteq [key : Keys, connect : BOOLEAN]

UrlType ==
  /\ code \in Codes /\ shown \in (Codes \X Keys) \cup {None}
  /\ digests \subseteq DigestType

StreamType ==
  /\ link \in BOOLEAN /\ rest \subseteq Kinds /\ attempt \in AttemptType
  /\ active \in BOOLEAN /\ session \in SessionType

CoderType ==
  /\ mode \in Modes
  /\ swap \in {NoSwap} \cup [on : {"running", "orphan"}, from : Modes]

LEMMA Types == TypeOK <=> ServerType /\ UrlType /\ StreamType /\ CoderType
  BY DEF TypeOK, ServerType, UrlType, StreamType, CoderType, DigestType, AttemptType, BusyType, SessionType

LEMMA TypesNext == TypeOK' <=> ServerType' /\ UrlType' /\ StreamType' /\ CoderType'
  BY DEF TypeOK, ServerType, UrlType, StreamType, CoderType, DigestType, AttemptType, BusyType, SessionType

LEMMA ConnectKeeps ==
  ASSUME TypeOK, NEW key \in Keys, NEW connect \in BOOLEAN, ConnectTo(key, connect)
  PROVE  /\ status' = "loading" /\ digests' \subseteq DigestType
         /\ lookups' \subseteq [key : Keys, connect : BOOLEAN]
<1>1. code \in Codes /\ lookups \subseteq [key : Keys, connect : BOOLEAN]
  BY DEF TypeOK
<1>2. digests' \subseteq DigestType
  BY <1>1, UpdateUrlKeeps DEF ConnectTo, DigestType
<1> QED
  BY <1>1, <1>2 DEF ConnectTo, Lookup

LEMMA TypeStep == TypeOK /\ [Next]_vars => TypeOK'
<1> SUFFICES ASSUME TypeOK, [Next]_vars
             PROVE  ServerType' /\ UrlType' /\ StreamType' /\ CoderType'
  BY TypesNext
<1>0. /\ ServerType /\ UrlType /\ StreamType /\ CoderType
      /\ Key \in Keys /\ First \in Keys /\ Listed \subseteq Keys /\ Addresses \subseteq Keys
  BY Types, KeyIsKey, PageAssumption DEF Keys
<1>1. CASE NewLink
  <2>1. code + 1 \in Codes
    BY <1>0, <1>1, PageAssumption DEF NewLink, Codes, UrlType
  <2>2. digests' \subseteq DigestType
    BY <1>1, <2>1, UpdateUrlKeeps DEF NewLink, DigestType
  <2> QED
    BY <1>0, <1>1, <2>1, <2>2 DEF NewLink, server, coder, ServerType, UrlType, StreamType, CoderType
<1>2. ASSUME NEW d \in digests, Digested(d)
      PROVE  ServerType' /\ UrlType' /\ StreamType' /\ CoderType'
  <2>1. digests' \subseteq digests /\ shown' = Shown(d) /\ UNCHANGED <<server, code, mode>>
    BY <1>2 DEF Digested
  <2>2. d \in DigestType
    BY <1>0 DEF UrlType
  <2>3. Link(d.code) \in (Codes \X Keys) \cup {None}
    BY <2>2, LinkType DEF DigestType
  <2>4. ServerType' /\ UrlType'
    BY <1>0, <2>1, <2>3 DEF server, ServerType, UrlType, Shown
  <2>5. CASE d.renewal
    BY <1>0, <1>2, <2>4, <2>5, RestartKeeps DEF Digested, StreamType, CoderType
  <2>6. CASE ~d.renewal
    BY <1>0, <1>2, <2>4, <2>6 DEF Digested, stream, StreamType, CoderType
  <2> QED
    BY <2>5, <2>6
<1>3. ASSUME NEW s \in Keys, SelectServer(s)
      PROVE  ServerType' /\ UrlType' /\ StreamType' /\ CoderType'
  <2>1. StopIfActive /\ ConnectTo(s, FALSE)
    BY <1>3 DEF SelectServer
  <2> QED
    BY <1>0, <1>3, <2>1, StopIfActiveKeeps, ConnectKeeps
    DEF SelectServer, ServerType, UrlType, StreamType, CoderType
<1>4. CASE SelectCustom
  <2>1. StopIfActive /\ UpdateUrl(code, FALSE)
    BY <1>4 DEF SelectCustom
  <2>2. digests' \subseteq DigestType
    BY <1>0, <2>1, UpdateUrlKeeps DEF UrlType, DigestType
  <2> QED
    BY <1>0, <1>4, <2>1, <2>2, StopIfActiveKeeps
    DEF SelectCustom, ServerType, UrlType, StreamType, CoderType
<1>5. CASE RemoveBookmark
  <2>1. StopIfActive /\ ConnectTo(First, FALSE)
    BY <1>5 DEF RemoveBookmark
  <2> QED
    BY <1>0, <1>5, <2>1, StopIfActiveKeeps, ConnectKeeps
    DEF RemoveBookmark, ServerType, UrlType, StreamType, CoderType
<1>6. CASE ConnectCustom
  <2>1. ConnectTo(address, TRUE) /\ address \in Keys
    BY <1>0, <1>6 DEF ConnectCustom, ServerType
  <2> QED
    BY <1>0, <1>6, <2>1, ConnectKeeps
    DEF ConnectCustom, stream, coder, ServerType, UrlType, StreamType, CoderType
<1>7. CASE Poll
  <2>1. [key |-> Key, connect |-> FALSE] \in [key : Keys, connect : BOOLEAN]
    BY <1>0
  <2> QED
    BY <1>0, <1>7, <2>1
    DEF Poll, Lookup, url, stream, coder, ServerType, UrlType, StreamType, CoderType
<1>8. ASSUME NEW a \in Addresses, EditCustom(a)
      PROVE  ServerType' /\ UrlType' /\ StreamType' /\ CoderType'
  BY <1>0, <1>8 DEF EditCustom, url, stream, coder, ServerType, UrlType, StreamType, CoderType
<1>9. ASSUME NEW l \in lookups, Answered(l)
      PROVE  ServerType' /\ UrlType' /\ StreamType' /\ CoderType'
  <2>1. l.key \in Keys
    BY <1>0 DEF ServerType
  <2>2. CASE Concerns(l.key)
    <3>1. ApplyInfo(l.key)
      BY <1>9, <2>2 DEF Answered
    <3>2. CASE l.connect
      BY <1>0, <1>9, <2>1, <2>2, <3>1, <3>2, ApplyInfoKeeps, PageAssumption
      DEF Answered, SaveCustom, coder, Keys, ServerType, UrlType, StreamType, CoderType
    <3>3. CASE ~l.connect
      BY <1>0, <1>9, <2>1, <2>2, <3>1, <3>3, ApplyInfoKeeps
      DEF Answered, coder, ServerType, UrlType, StreamType, CoderType
    <3> QED
      BY <3>2, <3>3
  <2>3. CASE ~Concerns(l.key)
    BY <1>0, <1>9, <2>3 DEF Answered, coder, ServerType, UrlType, StreamType, CoderType
  <2> QED
    BY <2>2, <2>3
<1>10. ASSUME NEW l \in lookups, Unanswered(l)
       PROVE  ServerType' /\ UrlType' /\ StreamType' /\ CoderType'
  BY <1>0, <1>10 DEF Unanswered, url, stream, coder, ServerType, UrlType, StreamType, CoderType
<1>11. ASSUME NEW kind \in Kinds, Start(kind) \/ Add(kind)
       PROVE  ServerType' /\ UrlType' /\ StreamType' /\ CoderType'
  <2>1. attempt' \in AttemptType
    BY <1>0, <1>11 DEF Start, Add, NoAttempt, AttemptType, BusyType, Steps, Sockets, UrlType
  <2> QED
    BY <1>0, <1>11, <2>1
    DEF Start, Add, server, url, coder, ServerType, UrlType, StreamType, CoderType
<1>12. ASSUME NEW kind \in Kinds, RemoveSource(kind)
       PROVE  ServerType' /\ UrlType' /\ StreamType' /\ CoderType'
  <2>1. session' \in SessionType
    BY <1>0, <1>12 DEF RemoveSource, SessionType, StreamType
  <2> QED
    BY <1>0, <1>12, <2>1
    DEF RemoveSource, server, url, coder, ServerType, UrlType, StreamType, CoderType
<1>13. CASE Open
  <2>1. attempt' \in AttemptType
    <3>1. attempt \in BusyType /\ mode \in Modes
      BY <1>0, <1>13, BusyIsTyped DEF Open, Busy, StreamType, CoderType
    <3> QED
      BY <1>0, <1>13, <3>1 DEF Open, AttemptType, BusyType, Steps
  <2> QED
    BY <1>0, <1>13, <2>1
    DEF Open, server, url, coder, ServerType, UrlType, StreamType, CoderType
<1>14. CASE Hello
  <2>1. attempt' \in AttemptType /\ attempt.key \in Keys \cup {None}
    <3>1. attempt \in BusyType
      BY <1>0, <1>14, BusyIsTyped DEF Hello, Busy, StreamType
    <3> QED
      BY <1>14, <3>1 DEF Hello, AttemptType, BusyType, Steps, Sockets
  <2>2. CASE attempt.key = Key
    BY <1>0, <1>14, <2>1, <2>2, ApplyInfoKeeps
    DEF Hello, coder, ServerType, UrlType, StreamType, CoderType
  <2>3. CASE attempt.key # Key
    BY <1>0, <1>14, <2>1, <2>3
    DEF Hello, ApplyInfo, coder, ServerType, UrlType, StreamType, CoderType
  <2> QED
    BY <2>2, <2>3
<1>15. CASE Activate
  <2>1. attempt' \in AttemptType /\ session' \in SessionType
    <3>1. attempt \in BusyType
      BY <1>0, <1>15, BusyIsTyped DEF Activate, Busy, StreamType
    <3> QED
      BY <1>15, <3>1 DEF Activate, AttemptType, BusyType, SessionType, Steps
  <2> QED
    BY <1>0, <1>15, <2>1
    DEF Activate, server, url, coder, ServerType, UrlType, StreamType, CoderType
<1>16. CASE Installed
  <2>1. Over(active) /\ active \in BOOLEAN
    BY <1>0, <1>16 DEF Installed, StreamType
  <2>2. session' \in SessionType
    <3>1. attempt.kind \in Kinds
      BY <1>0, <1>16, BusyIsTyped DEF Installed, Busy, StreamType, BusyType
    <3> QED
      BY <1>0, <1>16, <3>1 DEF Installed, SessionType, StreamType
  <2> QED
    BY <1>0, <1>16, <2>1, <2>2, OverKeeps
    DEF Installed, server, url, coder, ServerType, UrlType, StreamType, CoderType
<1>17. CASE AttemptFails
  <2>1. CASE attempt.step = "installing"
    BY <1>0, <1>17, <2>1, OverKeeps, StopIfActiveKeeps
    DEF AttemptFails, server, url, ServerType, UrlType, StreamType, CoderType
  <2>2. CASE attempt.step # "installing"
    <3>1. Over(active) /\ active \in BOOLEAN
      BY <1>0, <1>17, <2>2 DEF AttemptFails, StreamType
    <3> QED
      BY <1>0, <1>17, <2>2, <3>1, OverKeeps
      DEF AttemptFails, server, url, ServerType, UrlType, StreamType, CoderType
  <2> QED
    BY <2>1, <2>2
<1>18. CASE SocketCloses
  <2>1. CASE attempt.step = "building" /\ attempt' = [attempt EXCEPT !.socket = "closed"]
             /\ UNCHANGED <<server, url, link, rest, active, session, coder>>
    <3>1. attempt \in BusyType
      BY <1>0, <2>1, BusyIsTyped DEF Busy, StreamType
    <3>2. attempt' \in AttemptType
      BY <2>1, <3>1 DEF AttemptType, BusyType, Sockets
    <3> QED
      BY <1>0, <2>1, <3>2 DEF server, url, coder, ServerType, UrlType, StreamType, CoderType
  <2>2. CASE Cleanup /\ UNCHANGED <<server, url, link, rest, attempt, mode>>
    BY <1>0, <2>2, CleanupKeeps, EmptyRecords
    DEF server, url, ServerType, UrlType, StreamType, CoderType
  <2> QED
    BY <1>18, <2>1, <2>2 DEF SocketCloses
<1>19. CASE Stop
  BY <1>0, <1>19, CleanupKeeps, EmptyRecords
  DEF Stop, server, url, ServerType, UrlType, StreamType, CoderType
<1>20. ASSUME NEW m \in Modes, SelectMode(m)
       PROVE  ServerType' /\ UrlType' /\ StreamType' /\ CoderType'
  BY <1>0, <1>20 DEF SelectMode, server, url, stream, ServerType, UrlType, StreamType, CoderType
<1>21. CASE Swapped
  <2>1. session' \in SessionType
    BY <1>0, <1>21 DEF Swapped, SessionType, StreamType, CoderType
  <2> QED
    BY <1>0, <1>21, <2>1
    DEF Swapped, server, url, ServerType, UrlType, StreamType, CoderType
<1>22. CASE SwapFails
  <2>1. swap \in [on : {"running", "orphan"}, from : Modes]
    BY <1>0, <1>22 DEF SwapFails, CoderType
  <2> QED
    BY <1>0, <1>22, <2>1
    DEF SwapFails, Reverted, server, url, stream, ServerType, UrlType, StreamType, CoderType
<1>23. CASE UNCHANGED vars
  BY <1>0, <1>23
  DEF vars, server, url, stream, coder, ServerType, UrlType, StreamType, CoderType
<1> QED
  BY <1>1, <1>2, <1>3, <1>4, <1>5, <1>6, <1>7, <1>8, <1>9, <1>10, <1>11, <1>12, <1>13, <1>14,
     <1>15, <1>16, <1>17, <1>18, <1>19, <1>20, <1>21, <1>22, <1>23 DEF Next
-----------------------------------------------------------------------------
(* Only an answer about the selected server puts it online, and every      *)
(* selection takes it off.                                                 *)
LEMMA OnlineStep == TypeOK /\ OnlineIsSelected /\ [Next]_vars => OnlineIsSelected'
<1> SUFFICES ASSUME TypeOK, OnlineIsSelected, [Next]_vars PROVE OnlineIsSelected'
  OBVIOUS
<1> USE DEF OnlineIsSelected
<1>0. "loading" \notin Keys /\ "offline" \notin Keys /\ Custom \notin Keys
  BY PageAssumption
<1>1. CASE UNCHANGED <<choice, address, status>>
  BY <1>1 DEF Key
<1>2. CASE status' \in {"loading", "offline"}
  BY <1>0, <1>2
<1>3. ASSUME NEW l \in lookups, Answered(l) PROVE OnlineIsSelected'
  <2>1. CASE Concerns(l.key) /\ l.connect
    <3>1. choice' = l.key /\ status' = l.key /\ l.key \in Keys
      BY <1>3, <2>1 DEF Answered, SaveCustom, TypeOK
    <3> QED
      BY <1>0, <3>1 DEF Key
  <2>2. CASE Concerns(l.key) /\ ~l.connect
    BY <1>3, <2>2 DEF Answered, Concerns, Key
  <2>3. CASE ~Concerns(l.key)
    BY <1>3, <2>3, <1>1 DEF Answered
  <2> QED
    BY <2>1, <2>2, <2>3
<1>4. ASSUME NEW l \in lookups, Unanswered(l) PROVE OnlineIsSelected'
  BY <1>0, <1>4 DEF Unanswered, Concerns, Key
<1>5. CASE \/ SelectCustom \/ RemoveBookmark \/ ConnectCustom
           \/ \E s \in Keys : SelectServer(s)
           \/ \E a \in Addresses : EditCustom(a)
  BY <1>2, <1>5
  DEF SelectServer, SelectCustom, RemoveBookmark, ConnectCustom, EditCustom, ConnectTo
<1>6. CASE \/ NewLink \/ Poll \/ Open \/ Hello \/ Activate
           \/ Installed \/ AttemptFails \/ SocketCloses \/ Stop \/ Swapped \/ SwapFails
           \/ \E d \in digests : Digested(d)
           \/ \E kind \in Kinds : Start(kind) \/ Add(kind) \/ RemoveSource(kind)
           \/ \E m \in Modes : SelectMode(m)
  <2>1. CASE NewLink \/ Poll \/ Open \/ Hello \/ Activate \/ Installed
    BY <1>1, <2>1 DEF NewLink, Poll, Open, Hello, Activate, Installed, server
  <2>2. CASE AttemptFails \/ SocketCloses \/ Stop \/ Swapped \/ SwapFails
    BY <1>1, <2>2 DEF AttemptFails, SocketCloses, Stop, Swapped, SwapFails, server
  <2>3. CASE \/ \E d \in digests : Digested(d)
             \/ \E kind \in Kinds : Start(kind) \/ Add(kind) \/ RemoveSource(kind)
             \/ \E m \in Modes : SelectMode(m)
    BY <1>1, <2>3 DEF Digested, Start, Add, RemoveSource, SelectMode, server
  <2> QED
    BY <1>6, <2>1, <2>2, <2>3
<1>7. CASE UNCHANGED vars
  BY <1>1, <1>7 DEF vars, server
<1> QED
  BY <1>3, <1>4, <1>5, <1>6, <1>7 DEF Next
-----------------------------------------------------------------------------
(* Whatever changes the code, the server or what is known of it calls      *)
(* updateUrl, and of the hashes under way only the newest may be shown.    *)
LEMMA LinkStep == TypeOK /\ LinkInv /\ [Next]_vars => LinkInv'
<1> SUFFICES ASSUME TypeOK, LinkInv, [Next]_vars PROVE LinkInv'
  OBVIOUS
<1> USE DEF LinkInv
<1>0. code \in Codes
  BY DEF TypeOK
<1>1. CASE UNCHANGED <<choice, address, requested, known, url>>
  BY <1>1 DEF InUse, Link, Key, url
<1>2. CASE UpdateUrl(code, FALSE) /\ UNCHANGED code
  <2>1. (\A d \in digests' : d.newest => d.code = code) /\ \E d \in digests' : d.newest
    BY <1>0, <1>2, UpdateUrlKeeps
  <2> QED
    BY <1>2, <2>1
<1>3. CASE NewLink
  <2>0. code' = code + 1 /\ UpdateUrl(code + 1, TRUE) /\ code < MaxCodes
    BY <1>3 DEF NewLink
  <2>1. code + 1 \in Codes
    BY <1>0, <2>0, PageAssumption DEF Codes
  <2>2. /\ \A d \in digests' : d.newest => d.code = code + 1
        /\ \E d \in digests' : d.newest
    BY <2>0, <2>1, UpdateUrlKeeps, Zenon
  <2> QED
    BY <2>0, <2>2
<1>4. ASSUME NEW d \in digests, Digested(d) PROVE LinkInv'
  <2>1. digests' = digests \ {d} /\ shown' = Shown(d)
        /\ UNCHANGED <<choice, address, requested, known, code>>
    BY <1>4 DEF Digested, server
  <2>2. CASE d.newest
    <3>1. shown' = Link(code)
      BY <2>1, <2>2 DEF Shown
    <3> QED
      BY <2>1, <3>1 DEF Link, Key
  <2>3. CASE ~d.newest
    BY <2>1, <2>3 DEF Shown, InUse, Link, Key
  <2> QED
    BY <2>2, <2>3
<1>5. CASE \/ SelectCustom \/ RemoveBookmark \/ ConnectCustom \/ \E s \in Keys : SelectServer(s)
  BY <1>2, <1>5 DEF SelectServer, SelectCustom, RemoveBookmark, ConnectCustom, ConnectTo, coder
<1>6. ASSUME NEW a \in Addresses, EditCustom(a) PROVE LinkInv'
  BY <1>6 DEF EditCustom, InUse, url
<1>7. ASSUME NEW l \in lookups, Answered(l) PROVE LinkInv'
  <2>1. CASE Concerns(l.key)
    BY <1>2, <1>7, <2>1 DEF Answered, Concerns, ApplyInfo, coder
  <2>2. CASE ~Concerns(l.key)
    BY <1>1, <1>7, <2>2 DEF Answered, url
  <2> QED
    BY <2>1, <2>2
<1>8. CASE Hello
  BY <1>1, <1>2, <1>8 DEF Hello, ApplyInfo, url
<1>9. CASE \/ Poll \/ Open \/ Activate \/ Installed \/ AttemptFails \/ SocketCloses \/ Stop
           \/ Swapped \/ SwapFails \/ \E l \in lookups : Unanswered(l)
           \/ \E kind \in Kinds : Start(kind) \/ Add(kind) \/ RemoveSource(kind)
           \/ \E m \in Modes : SelectMode(m)
  <2>1. CASE Poll \/ Open \/ Activate \/ Installed \/ \E l \in lookups : Unanswered(l)
    BY <1>1, <2>1 DEF Poll, Open, Activate, Installed, Unanswered, server
  <2>2. CASE AttemptFails \/ SocketCloses \/ Stop \/ Swapped \/ SwapFails
    BY <1>1, <2>2 DEF AttemptFails, SocketCloses, Stop, Swapped, SwapFails, server
  <2>3. CASE \/ \E kind \in Kinds : Start(kind) \/ Add(kind) \/ RemoveSource(kind)
             \/ \E m \in Modes : SelectMode(m)
    BY <1>1, <2>3 DEF Start, Add, RemoveSource, SelectMode, server
  <2> QED
    BY <1>9, <2>1, <2>2, <2>3
<1>10. CASE UNCHANGED vars
  BY <1>1, <1>10 DEF vars, server
<1> QED
  BY <1>3, <1>4, <1>5, <1>6, <1>7, <1>8, <1>9, <1>10 DEF Next
-----------------------------------------------------------------------------
(* The lock and its holder change together.                                *)
LEMMA LockStep == TypeOK /\ LockInv /\ [Next]_vars => LockInv'
<1> SUFFICES ASSUME TypeOK, LockInv, [Next]_vars PROVE LockInv'
  OBVIOUS
<1> USE DEF LockInv, LinkUnderWay, Busy
<1>0. code \in Codes
  BY DEF TypeOK
<1>1. ASSUME UNCHANGED digests \/ UpdateUrl(code, FALSE),
             UNCHANGED <<link, rest>>, attempt'.restart = attempt.restart,
             attempt.restart => attempt'.step # "none"
      PROVE  LockInv'
  <2>1. CASE UNCHANGED digests
    BY <1>1, <2>1
  <2>2. CASE UpdateUrl(code, FALSE)
    <3>1. /\ (\E d \in digests' : d.renewal) <=> \E d \in digests : d.renewal
          /\ \A d, e \in digests' : d.renewal /\ e.renewal => d = e
      BY <1>0, <2>2, UpdateUrlKeeps, Zenon
    <3> QED
      BY <1>1, <3>1
  <2> QED
    BY <1>1, <2>1, <2>2
<1>2. CASE NewLink
  <2>1. /\ UpdateUrl(code + 1, TRUE) /\ code < MaxCodes
        /\ link' = TRUE /\ UNCHANGED <<rest, attempt>> /\ ~link
    BY <1>2 DEF NewLink
  <2>0. code + 1 \in Codes
    BY <1>0, <2>1, PageAssumption DEF Codes
  <2>2. ~attempt.restart /\ \A d \in digests : ~d.renewal
    BY <2>1, Zenon
  <2>3. /\ \E d \in digests' : d.renewal
        /\ \A d, e \in digests' : d.renewal /\ e.renewal => d = e
    BY <2>0, <2>1, <2>2, UpdateUrlKeeps, Zenon
  <2> QED
    BY <2>1, <2>2, <2>3
<1>3. ASSUME NEW d \in digests, Digested(d) PROVE LockInv'
  <2>1. digests' = digests \ {d}
    BY <1>3 DEF Digested
  <2>2. CASE d.renewal
    <3>1. Restart /\ ~attempt.restart /\ link /\ rest = {}
      BY <1>3, <2>2 DEF Digested
    <3>2. \A e \in digests' : ~e.renewal
      BY <2>1, <2>2
    <3> QED
      BY <3>1, <3>2, RestartKeeps
  <2>3. CASE ~d.renewal
    BY <1>3, <2>1, <2>3 DEF Digested, stream
  <2> QED
    BY <2>2, <2>3
<1>4. CASE \/ SelectCustom \/ RemoveBookmark \/ ConnectCustom \/ \E s \in Keys : SelectServer(s)
  BY <1>1, <1>4
  DEF SelectServer, SelectCustom, RemoveBookmark, ConnectCustom, ConnectTo, stream
<1>5. ASSUME NEW l \in lookups, Answered(l) PROVE LockInv'
  BY <1>1, <1>5 DEF Answered, ApplyInfo
<1>6. CASE Open \/ Hello \/ Activate
  <2>1. attempt \in BusyType
    BY <1>6, BusyIsTyped DEF Open, Hello, Activate, TypeOK, AttemptType, BusyType
  <2>2. attempt'.restart = attempt.restart /\ attempt'.step # "none"
    BY <1>6, <2>1 DEF Open, Hello, Activate, BusyType
  <2> QED
    BY <1>1, <1>6, <2>2 DEF Open, Hello, Activate, ApplyInfo, url
<1>7. CASE SocketCloses
  <2>1. CASE attempt.step = "building" /\ attempt' = [attempt EXCEPT !.socket = "closed"]
             /\ UNCHANGED <<server, url, link, rest, active, session, coder>>
    <3>1. attempt \in BusyType
      BY <2>1, BusyIsTyped DEF TypeOK, AttemptType, BusyType
    <3>2. attempt'.restart = attempt.restart /\ attempt'.step # "none"
      BY <2>1, <3>1 DEF BusyType
    <3> QED
      BY <1>1, <2>1, <3>2 DEF url
  <2>2. CASE UNCHANGED <<url, link, rest, attempt>>
    BY <1>1, <2>2 DEF url
  <2> QED
    BY <1>7, <2>1, <2>2 DEF SocketCloses
<1>8. CASE Installed \/ AttemptFails
  <2>1. UNCHANGED digests /\ \E on \in BOOLEAN : Over(on)
    BY <1>8 DEF Installed, AttemptFails, url, TypeOK
  <2> QED
    BY <2>1, OverKeeps
<1>9. ASSUME NEW kind \in Kinds, Start(kind) \/ Add(kind) PROVE LockInv'
  <2>1. ~attempt.restart /\ ~attempt'.restart
    BY <1>9 DEF Start, Add, NoAttempt
  <2> QED
    BY <1>1, <1>9, <2>1 DEF Start, Add, url
<1>10. CASE \/ Poll \/ Stop \/ Swapped \/ SwapFails
            \/ \E l \in lookups : Unanswered(l)
            \/ \E a \in Addresses : EditCustom(a)
            \/ \E kind \in Kinds : RemoveSource(kind)
            \/ \E m \in Modes : SelectMode(m)
  BY <1>1, <1>10
  DEF Poll, Stop, Swapped, SwapFails, Unanswered, EditCustom, RemoveSource, SelectMode, url, stream
<1>11. CASE UNCHANGED vars
  BY <1>1, <1>11 DEF vars, url, stream
<1> QED
  BY <1>2, <1>3, <1>4, <1>5, <1>6, <1>7, <1>8, <1>9, <1>10, <1>11 DEF Next
-----------------------------------------------------------------------------
(* The select changes only in a session that follows it or with no start   *)
(* under way, and a change that outlives its session leaves it alone.      *)
LEMMA ModeStep == TypeOK /\ ModeInv /\ [Next]_vars => ModeInv'
<1> SUFFICES ASSUME TypeOK, ModeInv, [Next]_vars PROVE ModeInv'
  OBVIOUS
<1> USE DEF ModeInv, ModeInStep
<1>1. ASSUME UNCHANGED <<coder, attempt, active>>, session'.mode = session.mode
      PROVE  ModeInv'
  BY <1>1 DEF coder
<1>2. ASSUME active' = FALSE, swap'.on # "running", UNCHANGED <<mode, attempt>>
      PROVE  ModeInv'
  BY <1>2
<1>3. ASSUME StopIfActive, UNCHANGED <<mode, attempt>> PROVE ModeInv'
  <2>1. CASE active
    BY <1>2, <1>3, <2>1, CleanupKeeps DEF StopIfActive
  <2>2. CASE ~active
    BY <1>1, <1>3, <2>2 DEF StopIfActive, coder
  <2> QED
    BY <2>1, <2>2
<1>4. CASE \/ SelectCustom \/ RemoveBookmark \/ \E s \in Keys : SelectServer(s)
  BY <1>3, <1>4 DEF SelectServer, SelectCustom, RemoveBookmark
<1>5. CASE \/ NewLink \/ Poll \/ ConnectCustom
           \/ \E a \in Addresses : EditCustom(a)
           \/ \E l \in lookups : Unanswered(l)
  BY <1>1, <1>5 DEF NewLink, Poll, ConnectCustom, EditCustom, Unanswered, stream
<1>6. ASSUME NEW d \in digests, Digested(d) PROVE ModeInv'
  <2>1. CASE d.renewal
    <3>1. Restart /\ mode' = mode
      BY <1>6, <2>1 DEF Digested
    <3>2. CASE active' = FALSE /\ swap'.on # "running"
      <4>1. CASE attempt' = attempt
        BY <1>2, <3>1, <3>2, <4>1
      <4>2. CASE attempt'.step = "capturing"
        BY <3>2, <4>2
      <4> QED
        BY <3>1, <4>1, <4>2, RestartKeeps
    <3>3. CASE active' = active /\ session' = session /\ swap' = swap
      <4>1. CASE attempt' = attempt
        BY <1>1, <3>1, <3>3, <4>1 DEF coder
      <4>2. CASE attempt'.step = "capturing" /\ active' = FALSE
        BY <3>1, <3>3, <4>2
      <4> QED
        BY <3>1, <4>1, <4>2, RestartKeeps
    <3> QED
      BY <3>1, <3>2, <3>3, RestartKeeps
  <2>2. CASE ~d.renewal
    BY <1>1, <1>6, <2>2 DEF Digested, stream, coder
  <2> QED
    BY <2>1, <2>2
<1>7. ASSUME NEW l \in lookups, Answered(l) PROVE ModeInv'
  <2>1. l.key \in Keys
    BY DEF TypeOK
  <2>2. session'.mode = session.mode
    <3>1. CASE Concerns(l.key)
      BY <1>7, <2>1, <3>1, ApplyInfoKeeps DEF Answered
    <3>2. CASE ~Concerns(l.key)
      BY <1>7, <3>2 DEF Answered
    <3> QED
      BY <3>1, <3>2
  <2> QED
    BY <1>1, <1>7, <2>2 DEF Answered
<1>8. ASSUME NEW kind \in Kinds, Start(kind) \/ Add(kind) PROVE ModeInv'
  <2>1. \/ attempt'.step = "capturing" /\ ~active
        \/ attempt'.step = "adding"
    BY <1>8 DEF Start, Add, NoAttempt
  <2>2. UNCHANGED <<active, session, coder>>
    BY <1>8 DEF Start, Add
  <2> QED
    BY <2>1, <2>2 DEF coder
<1>9. ASSUME NEW kind \in Kinds, RemoveSource(kind) PROVE ModeInv'
  BY <1>1, <1>9 DEF RemoveSource, TypeOK
<1>10. CASE Open
  <2>1. attempt \in BusyType
    BY <1>10, BusyIsTyped DEF Open, TypeOK, AttemptType, BusyType, Busy
  <2>2. attempt'.mode = mode /\ attempt'.step = "opening"
    BY <1>10, <2>1 DEF Open, BusyType
  <2> QED
    BY <1>10, <2>2 DEF Open, coder
<1>11. CASE Hello
  <2>1. attempt \in BusyType
    BY <1>11, BusyIsTyped DEF Hello, TypeOK, AttemptType, BusyType, Busy
  <2>2. attempt'.mode = attempt.mode /\ attempt'.step = "building"
    BY <1>11, <2>1 DEF Hello, BusyType
  <2>3. session'.mode = session.mode
    BY <1>11, ApplyInfoKeeps DEF Hello, ApplyInfo, TypeOK
  <2> QED
    BY <1>11, <2>2, <2>3 DEF Hello, coder
<1>12. CASE Activate
  <2>1. attempt \in BusyType
    BY <1>12, BusyIsTyped DEF Activate, TypeOK, AttemptType, BusyType, Busy
  <2>2. attempt'.step = "installing" /\ session'.mode = mode /\ active' = TRUE
    BY <1>12, <2>1 DEF Activate, BusyType
  <2>3. swap.on # "running"
    BY <1>12 DEF Activate
  <2> QED
    BY <1>12, <2>2, <2>3 DEF Activate, coder
<1>13. CASE Installed
  <2>1. Over(active) /\ active \in BOOLEAN
    BY <1>13 DEF Installed, TypeOK
  <2>2. attempt'.step \in {"none", "adding"}
    BY <2>1, OverKeeps
  <2>3. session'.mode = session.mode
    BY <1>13 DEF Installed, TypeOK
  <2> QED
    BY <1>13, <2>2, <2>3 DEF Installed, coder
<1>14. CASE AttemptFails
  <2>1. attempt'.step \in {"none", "adding"}
    BY <1>14, OverKeeps DEF AttemptFails, TypeOK
  <2>2. CASE attempt.step = "installing" /\ active
    BY <1>14, <2>1, <2>2, CleanupKeeps DEF AttemptFails, StopIfActive
  <2>3. CASE UNCHANGED <<active, session, swap>>
    BY <1>14, <2>1, <2>3 DEF AttemptFails
  <2> QED
    BY <1>14, <2>2, <2>3 DEF AttemptFails, StopIfActive
<1>15. CASE SocketCloses
  <2>1. CASE attempt.step = "building" /\ attempt' = [attempt EXCEPT !.socket = "closed"]
             /\ UNCHANGED <<server, url, link, rest, active, session, coder>>
    <3>1. attempt \in BusyType
      BY <2>1, BusyIsTyped DEF TypeOK, AttemptType, BusyType, Busy
    <3>2. attempt'.step = attempt.step /\ attempt'.mode = attempt.mode
      BY <2>1, <3>1 DEF BusyType
    <3> QED
      BY <2>1, <3>2 DEF coder
  <2>2. CASE Cleanup /\ UNCHANGED <<attempt, mode>>
    BY <1>2, <2>2, CleanupKeeps
  <2> QED
    BY <1>15, <2>1, <2>2 DEF SocketCloses
<1>16. CASE Stop
  BY <1>2, <1>16, CleanupKeeps DEF Stop
<1>17. ASSUME NEW m \in Modes, SelectMode(m) PROVE ModeInv'
  BY <1>17 DEF SelectMode, stream, NoSwap, Busy
<1>18. CASE Swapped
  <2>1. session'.mode = mode
    BY <1>18 DEF Swapped, TypeOK
  <2> QED
    BY <1>18, <2>1 DEF Swapped, NoSwap
<1>19. CASE SwapFails
  BY <1>19 DEF SwapFails, Reverted, stream, NoSwap
<1>20. CASE UNCHANGED vars
  BY <1>1, <1>20 DEF vars, stream
<1> QED
  BY <1>4, <1>5, <1>6, <1>7, <1>8, <1>9, <1>10, <1>11, <1>12, <1>13, <1>14, <1>15, <1>16,
     <1>17, <1>18, <1>19, <1>20 DEF Next
-----------------------------------------------------------------------------
LEMMA Invariance == Spec => []Inv
<1>1. Inv /\ [Next]_vars => Inv'
  BY TypeStep, OnlineStep, LinkStep, LockStep, ModeStep DEF Inv
<1> QED
  BY <1>1, Initially, PTL DEF Spec

(* The late answer of another server never makes a server online: what the *)
(* start buttons rely on (client.js, refreshStats).                        *)
THEOREM Online == Spec => []OnlineIsSelected
  BY Invariance, PTL DEF Inv

(* The link settles on the code and the server in use, however the hashes  *)
(* overtake one another (client.js, updateUrl).                            *)
THEOREM LinkSettles == Spec => []LinkSettled
<1>1. Inv => LinkSettled
  BY DEF Inv, LinkInv, InUse, LinkSettled
<1> QED
  BY <1>1, Invariance, PTL

(* The encoder select names the encoder of the session, also after a       *)
(* change that fails in a later session (client.js, the select's onchange).  *)
THEOREM ModeFollows == Spec => []ModeInStep
<1>1. Inv => ModeInStep
  BY DEF Inv, ModeInv
<1> QED
  BY <1>1, Invariance, PTL

(* The new-link button is off exactly while newLink is at work, whatever   *)
(* fails or is stopped meanwhile (client.js, newLink).                     *)
THEOREM LockReleased == Spec => []LinkUnderWay
<1>1. Inv => LinkUnderWay
  BY DEF Inv, LockInv
<1> QED
  BY <1>1, Invariance, PTL
=============================================================================
