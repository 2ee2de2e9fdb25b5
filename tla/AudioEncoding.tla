--------------------------- MODULE AudioEncoding ---------------------------
(***************************************************************************)
(* Audio path of the VRCStreamer client: capture blocks go through an AAC  *)
(* encoder in a worker and its packets to the WebSocket; the encoder can   *)
(* be exchanged while the session runs (streamer.js, aac-worker.js).       *)
(*                                                                         *)
(* The page and every worker are event loops that exchange messages in     *)
(* order.  A step of the page is one event with the promise continuations  *)
(* it sets off; a terminated worker does nothing more, but what it had     *)
(* posted may still arrive.  A session that ends ends the way `cleanup'    *)
(* does, whatever the reason.                                              *)
(***************************************************************************)
EXTENDS Naturals, Sequences, FiniteSets

CONSTANTS
  Sessions,
  None,
  MaxEncoders,          \* bound of the model: workers ever created
  MaxBlocks,            \* bound of the model: blocks captured in a session
  MaxBuffered           \* maxAudioBufferedBlocks

Encoders == 1 .. MaxEncoders

ASSUME AudioAssumption ==
  /\ MaxEncoders \in Nat /\ MaxBlocks \in Nat /\ MaxBuffered \in Nat \ {0}
  /\ None \notin Sessions

VARIABLES
  active,               \* app.active
  starting,             \* the call of start under way
  swapping,             \* the call of replaceAudioEncoder under way
  encoder, captured,    \* per session: its encoder, blocks captured
  worker,               \* per encoder: both ends of its message ports
  last, done            \* history: last block sent, blocks sent or dropped on the page

session == <<encoder, captured>>
history == <<last, done>>
vars    == <<active, starting, swapping, session, worker, history>>

Flush  == 0             \* in an inbox, among the blocks 1, 2, ...
Blocks == 1 .. MaxBlocks

Messages ==
  [type : {"ready", "packet", "consumed", "flushed", "error"},
   block : Blocks \cup {0}, queue : Nat]

Post(type, block, queue) == [type |-> type, block |-> block, queue |-> queue]

(* createAacEncoder: state and counters of the page, queues of the worker. *)
Unused ==
  [state |-> "unused", owner |-> None, pending |-> 0, queue |-> 0,
   inbox |-> <<>>, codec |-> <<>>, outbox |-> <<>>]

Created(s) == [Unused EXCEPT !.state = "loading", !.owner = s]

NoSwap == [step |-> "none", session |-> None, encoder |-> 0, buffers |-> <<>>]

NoStart == [step |-> "none", session |-> None, encoder |-> 0]

Init ==
  /\ active = None
  /\ starting = NoStart /\ swapping = NoSwap
  /\ encoder = [s \in Sessions |-> 0]
  /\ captured = [s \in Sessions |-> 0]
  /\ worker = [e \in Encoders |-> Unused]
  /\ last = [s \in Sessions |-> 0]
  /\ done = [s \in Sessions |-> {}]
-----------------------------------------------------------------------------
(* Operations of the page on an encoder.                                   *)

Fresh(e) ==
  /\ worker[e].state = "unused"
  /\ \A d \in 1 .. e - 1 : worker[d].state # "unused"

Closed(w) == [w EXCEPT !.state = "closed", !.inbox = <<>>, !.codec = <<>>]

Close(open) == [e \in Encoders |-> IF e \in open THEN Closed(worker[e]) ELSE worker[e]]

RoomPending(w) == IF w.pending < MaxBuffered THEN MaxBuffered - w.pending ELSE 0  \* variant
Room(w) == MaxBuffered - (w.pending + w.queue)

(* encode, for a sequence of blocks: the first ones that find room.        *)
Accepted(w, blocks) ==
  SubSeq(blocks, 1, IF Room(w) < Len(blocks) THEN Room(w) ELSE Len(blocks))

Encode(w, blocks) ==
  [w EXCEPT !.inbox = @ \o Accepted(w, blocks), !.pending = @ + Len(Accepted(w, blocks))]

Elements(seq) == {seq[n] : n \in DOMAIN seq}

Account(s, blocks) == done' = [done EXCEPT ![s] = @ \cup blocks]

Flushing(s) == swapping.step = "flushing" /\ swapping.session = s

(* cleanup: the session, its encoder, a swap and its encoder.              *)
CleanupSwapLeft(s) ==                                             \* variant
  /\ active' = None
  /\ worker' = Close({encoder[s]})
  /\ swapping' = NoSwap
CleanupUnsettled(s) ==                                            \* variant
  /\ active' = None
  /\ worker' = Close({encoder[s]} \cup
       (IF swapping.session = s THEN {swapping.encoder} ELSE {}))
  /\ UNCHANGED swapping
Cleanup(s) ==
  /\ active' = None
  /\ worker' = Close({encoder[s]} \cup
       (IF swapping.session = s THEN {swapping.encoder} ELSE {}))
  /\ swapping' = IF swapping.session = s THEN NoSwap ELSE swapping
-----------------------------------------------------------------------------
(* The life of a session.                                                  *)

Start(s) ==
  /\ active = None /\ starting = NoStart
  /\ encoder[s] = 0
  /\ \E e \in Encoders :
       /\ Fresh(e)
       /\ starting' = [step |-> "loading", session |-> s, encoder |-> e]
       /\ worker' = [worker EXCEPT ![e] = Created(s)]
  /\ UNCHANGED <<active, swapping, session, history>>

(* The socket is open and said hello.                                      *)
Connect ==
  /\ starting.step = "connecting"
  /\ active' = starting.session
  /\ encoder' = [encoder EXCEPT ![starting.session] = starting.encoder]
  /\ starting' = [starting EXCEPT !.step = "resuming"]
  /\ UNCHANGED <<swapping, captured, worker, history>>

(* start returns; before Connect it gives up.                              *)
Started ==
  /\ starting.step \in {"connecting", "resuming"}
  /\ starting' = NoStart
  /\ worker' = IF starting.step = "connecting" THEN Close({starting.encoder}) ELSE worker
  /\ UNCHANGED <<active, swapping, session, history>>

(* stop, a closed socket, a stalled upload or a flush that takes too long. *)
Stop ==
  /\ active # None
  /\ Cleanup(active)
  /\ UNCHANGED <<starting, session, history>>

(* replaceAudioEncoder, which the page calls one at a time.                *)
SwitchMode ==
  /\ active # None
  /\ starting = NoStart /\ swapping = NoSwap
  /\ \E e \in Encoders :
       /\ Fresh(e)
       /\ swapping' = [NoSwap EXCEPT !.step = "preparing", !.session = active, !.encoder = e]
       /\ worker' = [worker EXCEPT ![e] = Created(active)]
  /\ UNCHANGED <<active, starting, session, history>>

ReadyTimeout ==
  /\ swapping.step = "preparing"
  /\ worker' = Close({swapping.encoder})
  /\ swapping' = NoSwap
  /\ UNCHANGED <<active, starting, session, history>>

Full(buffers) == Len(buffers) >= MaxBuffered

BufferedFirst(buffers, block) == <<block>> \o buffers             \* variant
Buffered(buffers, block) == Append(buffers, block)

(* encodeAudioBlock.                                                       *)
Capture(s) ==
  /\ active = s
  /\ captured[s] < MaxBlocks
  /\ captured' = [captured EXCEPT ![s] = @ + 1]
  /\ LET block == captured[s] + 1 IN
     \/ /\ Account(s, {block})                      \* stale
        /\ UNCHANGED <<swapping, worker>>
     \/ /\ Flushing(s)
        /\ swapping' = [swapping EXCEPT !.buffers =
                          Buffered(IF Full(@) THEN Tail(@) ELSE @, block)]
        /\ Account(s, IF Full(swapping.buffers) THEN {Head(swapping.buffers)} ELSE {})
        /\ UNCHANGED worker
     \/ /\ ~Flushing(s)
        /\ LET w == worker[encoder[s]] IN
           /\ worker' = [worker EXCEPT ![encoder[s]] = Encode(w, <<block>>)]
           /\ Account(s, {block} \ Elements(Accepted(w, <<block>>)))
        /\ UNCHANGED swapping
  /\ UNCHANGED <<active, starting, encoder, last>>
-----------------------------------------------------------------------------
(* Messages of a worker reach the page.                                    *)

Receive(e, type) == worker[e].outbox # <<>> /\ Head(worker[e].outbox).type = type

Taken(w) == [w EXCEPT !.outbox = Tail(@)]

Take(e) == worker' = [worker EXCEPT ![e] = Taken(@)]

(* The encoder is ready; a swap asks the previous one to flush.            *)
ReceiveReady(e) ==
  /\ Receive(e, "ready")
  /\ \/ /\ starting.step = "loading" /\ starting.encoder = e
        /\ starting' = [starting EXCEPT !.step = "connecting"]
        /\ Take(e) /\ UNCHANGED swapping
     \/ /\ swapping.step = "preparing" /\ swapping.encoder = e
        /\ swapping' = [swapping EXCEPT !.step = "flushing"]
        /\ worker' = [worker EXCEPT ![e] = Taken(@),
                        ![encoder[swapping.session]].inbox = Append(@, Flush)]
        /\ UNCHANGED starting
     \/ /\ worker[e].state = "closed"
        /\ Take(e) /\ UNCHANGED <<starting, swapping>>
  /\ UNCHANGED <<active, session, history>>

(* sendAudioPacket; a stale packet, a congested or closing socket or an    *)
(* exhausted budget drops it.                                              *)
ReceivePacket(e) ==
  /\ Receive(e, "packet")
  /\ LET s == worker[e].owner
         m == Head(worker[e].outbox) IN
     /\ worker' = [worker EXCEPT ![e] = [Taken(@) EXCEPT !.queue = m.queue]]
     /\ IF active = s /\ encoder[s] = e
          THEN /\ Account(s, {m.block})
               /\ \/ last' = [last EXCEPT ![s] = m.block]
                  \/ UNCHANGED last
          ELSE UNCHANGED history
  /\ UNCHANGED <<active, starting, swapping, session>>

ReceiveConsumed(e) ==
  /\ Receive(e, "consumed")
  /\ worker' = [worker EXCEPT ![e] =
       [Taken(worker[e]) EXCEPT !.pending = IF @ > 0 THEN @ - 1 ELSE 0,
                                !.queue = Head(worker[e].outbox).queue]]
  /\ UNCHANGED <<active, starting, swapping, session, history>>

ReceiveFlushedForgetting(e) ==                                    \* variant
  /\ Receive(e, "flushed")
  /\ LET s == swapping.session IN
     IF swapping.step = "flushing" /\ encoder[s] = e
       THEN /\ encoder' = [encoder EXCEPT ![s] = swapping.encoder]
            /\ worker' = [worker EXCEPT ![e] = Closed(Taken(@))]
            /\ swapping' = NoSwap
       ELSE Take(e) /\ UNCHANGED <<encoder, swapping>>
  /\ UNCHANGED <<active, starting, captured, history>>

(* completeAudioEncoderSwap: the buffered blocks go to the new encoder.    *)
ReceiveFlushed(e) ==
  /\ Receive(e, "flushed")
  /\ LET s == swapping.session
         next == swapping.encoder IN
     IF swapping.step = "flushing" /\ encoder[s] = e
       THEN /\ encoder' = [encoder EXCEPT ![s] = next]
            /\ worker' = [worker EXCEPT ![e] = Closed(Taken(@)),
                            ![next] = Encode(@, swapping.buffers)]
            /\ Account(s, Elements(swapping.buffers) \
                              Elements(Accepted(worker[next], swapping.buffers)))
            /\ swapping' = NoSwap
       ELSE Take(e) /\ UNCHANGED <<encoder, swapping, done>>
  /\ UNCHANGED <<active, starting, captured, last>>

(* The promises of the encoder are rejected, then handleAacEncoderError.   *)
ReceiveError(e) ==
  /\ Receive(e, "error")
  /\ LET s == worker[e].owner IN
     \/ /\ starting.step = "loading" /\ starting.encoder = e
        /\ starting' = NoStart /\ worker' = Close({e})
        /\ UNCHANGED <<active, swapping>>
     \/ /\ swapping.step = "preparing" /\ swapping.encoder = e
        /\ swapping' = NoSwap /\ worker' = Close({e})
        /\ UNCHANGED <<active, starting>>
     \/ /\ active = s
        /\ encoder[s] = e \/ (Flushing(s) /\ swapping.encoder = e)
        /\ Cleanup(s)
        /\ UNCHANGED starting
     \/ /\ worker[e].state = "closed" \/ (starting.step = "connecting" /\ starting.encoder = e)
        /\ Take(e)
        /\ UNCHANGED <<active, starting, swapping>>
  /\ UNCHANGED <<session, history>>

Deliver(e) ==
  \/ ReceiveReady(e) \/ ReceivePacket(e) \/ ReceiveConsumed(e)
  \/ ReceiveFlushed(e) \/ ReceiveError(e)
-----------------------------------------------------------------------------
(* A worker.                                                               *)

Work(e, w) ==
  /\ worker' = [worker EXCEPT ![e] = w]
  /\ UNCHANGED <<active, starting, swapping, session, history>>

Say(w, m) == [w EXCEPT !.outbox = Append(@, m)]

(* encodeQueueSize: the blocks the codec still holds.                      *)
Queued(codec) == Cardinality({n \in DOMAIN codec : codec[n] # Flush})

Load(e) ==
  /\ worker[e].state = "loading"
  /\ \E type \in {"ready", "error"} :
       Work(e, Say([worker[e] EXCEPT !.state = "loaded"], Post(type, 0, 0)))

(* A block enters the codec and is acknowledged; a flush waits in line.    *)
Consume(e) ==
  /\ worker[e].inbox # <<>>
  /\ LET w == worker[e]
         block == Head(w.inbox)
         codec == Append(w.codec, block)
         taken == [w EXCEPT !.inbox = Tail(@), !.codec = codec] IN
     Work(e, IF block = Flush THEN taken
             ELSE Say(taken, Post("consumed", 0, Queued(codec))))

(* The codec puts out a packet, or has none left of those to flush.        *)
Output(e) ==
  /\ worker[e].codec # <<>>
  /\ LET w == worker[e]
         block == Head(w.codec)
         left == [w EXCEPT !.codec = Tail(@)] IN
     Work(e, Say(left, IF block = Flush THEN Post("flushed", 0, 0)
                       ELSE Post("packet", block, Queued(left.codec))))

(* A block cannot be encoded.                                              *)
Break(e) ==
  /\ worker[e].inbox # <<>> /\ Head(worker[e].inbox) # Flush
  /\ Work(e, Say([worker[e] EXCEPT !.inbox = Tail(@)], Post("error", 0, 0)))

(* The codec fails of itself, or the script does: what it held is lost.    *)
(* Blocks that follow may Break; that they may also be taken is allowed.   *)
(* After "flushed" a failure would change nothing: the page closes the     *)
(* worker before it reads on.                                              *)
Fail(e) ==
  /\ worker[e].state = "loaded"
  /\ \A n \in DOMAIN worker[e].outbox :          \* bound: one error on its way
       worker[e].outbox[n].type \notin {"error", "flushed"}
  /\ Work(e, Say([worker[e] EXCEPT !.codec = <<>>], Post("error", 0, 0)))

Next ==
  \/ Connect \/ Started \/ Stop \/ SwitchMode \/ ReadyTimeout
  \/ \E s \in Sessions : Start(s) \/ Capture(s)
  \/ \E e \in Encoders : Deliver(e) \/ Load(e) \/ Consume(e) \/ Output(e)
  \/ \E e \in Encoders : Break(e) \/ Fail(e)

Spec == Init /\ [][Next]_vars

(* Event loops run.  Timers are not counted on.                            *)
Fairness ==
  \A e \in Encoders :
    WF_vars(Deliver(e)) /\ WF_vars(Load(e)) /\ WF_vars(Consume(e)) /\ WF_vars(Output(e))

FairSpec == Spec /\ Fairness
-----------------------------------------------------------------------------
TypeOK ==
  /\ active \in Sessions \cup {None}
  /\ starting.step \in {"none", "loading", "connecting", "resuming"}
  /\ swapping.step \in {"none", "preparing", "flushing"}
  /\ swapping.buffers \in Seq(Blocks) /\ Len(swapping.buffers) <= MaxBuffered
  /\ encoder \in [Sessions -> Encoders \cup {0}]
  /\ captured \in [Sessions -> 0 .. MaxBlocks]
  /\ \A e \in Encoders :
       /\ worker[e].state \in {"unused", "loading", "loaded", "closed"}
       /\ worker[e].owner \in Sessions \cup {None}
       /\ worker[e].pending \in Nat /\ worker[e].queue \in Nat
       /\ worker[e].inbox \in Seq(Blocks \cup {Flush})
       /\ worker[e].codec \in Seq(Blocks \cup {Flush})
       /\ worker[e].outbox \in Seq(Messages)

(* The packets of a session go out in the order of capture, over any       *)
(* number of encoder swaps.                                                *)
SentInOrder == [][\A s \in Sessions : last'[s] >= last[s]]_vars

Using == {starting.encoder, swapping.encoder} \cup (IF active = None THEN {} ELSE {encoder[active]})

(* Every worker that is not closed is in use: none is left running by a    *)
(* stop, a failure or a swap, at whatever point of the other.              *)
NoStrayEncoder ==
  \A e \in Encoders : worker[e].state \in {"loading", "loaded"} => e \in Using

Packets(w) == {w.outbox[n].block : n \in {i \in DOMAIN w.outbox : w.outbox[i].type = "packet"}}

Held(w) == Elements(w.inbox) \cup Elements(w.codec) \cup Packets(w)

Failing(s) ==
  \E e \in Encoders : worker[e].owner = s /\
    \E n \in DOMAIN worker[e].outbox : worker[e].outbox[n].type = "error"

(* A block captured by the running session was sent, is on its way, or was *)
(* dropped by a rule of the page: a swap loses nothing by the way.         *)
Accounted ==
  active # None => LET s == active IN
    \/ Failing(s)
    \/ 1 .. captured[s] \subseteq
         done[s] \cup Held(worker[encoder[s]])
         \cup (IF Flushing(s) THEN Elements(swapping.buffers) ELSE {})

(* The worker and its codec never hold more than the limit, although the   *)
(* page knows of the codec's queue only what the last message said.        *)
Backpressure ==
  \A e \in Encoders :
    Queued(worker[e].inbox) + Queued(worker[e].codec) <= MaxBuffered

(* A call of replaceAudioEncoder returns, without its timers, even when    *)
(* the session ends or fails under it.                                     *)
SwapSettles == (swapping # NoSwap) ~> (swapping = NoSwap)
=============================================================================
