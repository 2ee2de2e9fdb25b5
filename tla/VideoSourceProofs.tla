------------------------- MODULE VideoSourceProofs -------------------------
(***************************************************************************)
(* Proofs about VideoSource: whatever is replaced, hidden, stopped or      *)
(* fails while something else is under way, no worker and no clone of a    *)
(* track is left behind, and the server knows whether there is a video.    *)
(***************************************************************************)
EXTENDS VideoSource, TLAPS

WorkerStates ==
  [state : {"unused", "loading", "ready", "closed"}, feed : Calls \cup {0},
   maker : Nat, source : Nat, timer : BOOLEAN, pending : Calls \cup {0},
   inbox : Seq(Calls \cup {Placeholder}), shows : Calls \cup {0}]

CallStates ==
  [step : Waiting \cup {"none", "done"}, source : Nat, worker : Workers \cup {0},
   kind : {"none", "install", "create", "unhide"}]

Requests ==
  [step : {"none", "capturing", "creating", "setting", "closing"}, source : Nat,
   worker : Workers \cup {0}, previous : Nat, started : BOOLEAN]

(* What is captured, and who holds it.                                     *)
CaptureInv ==
  /\ active \in BOOLEAN /\ screen \in BOOLEAN
  /\ captured \in 0 .. MaxSources /\ current \in 0 .. captured
  /\ hidden \subseteq 1 .. captured /\ live \subseteq 1 .. captured

ShapeInv ==
  /\ server \in BOOLEAN /\ video \in Workers \cup {0} /\ clones \subseteq Calls
  /\ worker \in [Workers -> WorkerStates]
  /\ call \in [Calls -> CallStates]
  /\ request \in Requests

(* A request that made a worker finds the session without a video, one     *)
(* that did not uses the session's; one that withdraws has closed its own. *)
RequestInv ==
  /\ request.step \in {"none", "capturing"} => request.worker = 0 /\ ~request.started
  /\ request.step \in {"creating", "setting"} => request.worker \in Workers
  /\ request.step = "closing" =>
        request.worker \in Workers /\ request.started /\ ~Running(request.worker)
  /\ request.started => video = 0
  /\ ~request.started /\ request.worker # 0 /\ Running(request.worker) => request.worker = video
  /\ video # 0 => worker[video].state # "unused"

(* A worker that runs is in use; the source it was given last is that of   *)
(* its pending call, and no call is in its inbox but that one.             *)
WorkerInv(w) ==
  /\ Running(w) => w \in {video, request.worker}
  /\ worker[w].state = "loading" =>
        request.step = "creating" /\ request.started /\ request.worker = w
  /\ worker[w].pending # 0 =>
       /\ worker[w].state = "ready"
       /\ call[worker[w].pending].worker = w
       /\ call[worker[w].pending].step \in {"posted", "accepted"}
  /\ \A n \in DOMAIN worker[w].inbox : worker[w].inbox[n] # Placeholder =>
       /\ worker[w].inbox[n] = worker[w].pending
       /\ call[worker[w].inbox[n]].step = "posted"
       /\ \A m \in DOMAIN worker[w].inbox : worker[w].inbox[m] # Placeholder => m = n

(* A call that waits is the request's own, or one that shows a source      *)
(* again in the session's video.                                           *)
CallInv(k) ==
  call[k].step \in Waiting =>
    /\ call[k].worker \in Workers /\ worker[call[k].worker].state \in {"ready", "closed"}
    /\ call[k].step \in {"posted", "accepted"} => worker[call[k].worker].pending = k
    /\ \/ /\ call[k].kind = "unhide" /\ call[k].source \in 1 .. captured
          /\ Running(call[k].worker) => call[k].worker = video
       \/ /\ call[k].kind \in {"install", "create"}
          /\ request.step = "setting" /\ request.worker = call[k].worker
          /\ request.started <=> call[k].kind = "create"

Requesting(k) == call[k].step \in Waiting /\ call[k].kind # "unhide"
OneCall == \A j, k \in Calls : Requesting(j) /\ Requesting(k) => j = k

(* The two conjuncts of NothingStray.                                      *)
Tended(k) == call[k].step \in Waiting \/ (video # 0 /\ worker[video].feed = k)
ClonesInv == \A k \in clones : Tended(k)

CoreInv ==
  /\ ShapeInv /\ RequestInv /\ OneCall /\ ClonesInv /\ ServerInStep
  /\ \A w \in Workers : WorkerInv(w)
  /\ \A k \in Calls : CallInv(k)

IInv == CaptureInv /\ CoreInv
-----------------------------------------------------------------------------
(* A worker's timer is all that changes.                                   *)
LEMMA TimerStopped ==
  ASSUME ShapeInv, NEW w \in Workers, worker' = [worker EXCEPT ![w].timer = FALSE]
  PROVE  /\ worker' \in [Workers -> WorkerStates]
         /\ \A v \in Workers :
              /\ worker'[v].state = worker[v].state /\ worker'[v].pending = worker[v].pending
              /\ worker'[v].inbox = worker[v].inbox /\ worker'[v].feed = worker[v].feed
<1> DEFINE x == [worker[w] EXCEPT !.timer = FALSE]
<1>1. /\ x \in WorkerStates /\ x.state = worker[w].state /\ x.pending = worker[w].pending
      /\ x.inbox = worker[w].inbox /\ x.feed = worker[w].feed
  BY DEF ShapeInv, WorkerStates
<1>2. worker' = [worker EXCEPT ![w] = x]
  OBVIOUS
<1> HIDE DEF x
<1> QED
  BY <1>1, <1>2 DEF ShapeInv

LEMMA NoZero == 0 \notin Calls /\ 0 \notin Workers
BY DEF Calls, Workers

LEMMA Initially == Init => IInv
<1> SUFFICES ASSUME Init PROVE IInv
  OBVIOUS
<1>1. Unmade \in WorkerStates /\ NoCall \in CallStates /\ NoRequest \in Requests
  <2>1. <<>> \in Seq(Calls \cup {Placeholder}) /\ 0 \in Calls \cup {0} /\ 0 \in Workers \cup {0}
    OBVIOUS
  <2> QED
    BY <2>1 DEF Unmade, NoCall, NoRequest, WorkerStates, CallStates, Requests, Waiting
<1>2. CaptureInv /\ ShapeInv
  <2>1. worker \in [Workers -> WorkerStates] /\ call \in [Calls -> CallStates]
    BY <1>1 DEF Init
  <2>2. captured \in 0 .. MaxSources /\ current \in 0 .. captured
    BY SourceAssumption DEF Init
  <2> QED
    BY <1>1, <2>1, <2>2 DEF Init, CaptureInv, ShapeInv
<1>3. RequestInv /\ OneCall /\ ClonesInv /\ ServerInStep
  BY DEF Init, NoCall, NoRequest, RequestInv, OneCall, Requesting, ClonesInv, ServerInStep, Waiting
<1>4. ASSUME NEW w \in Workers PROVE WorkerInv(w)
  BY <1>4 DEF Init, Unmade, WorkerInv, Running
<1>5. ASSUME NEW k \in Calls PROVE CallInv(k)
  BY <1>5 DEF Init, NoCall, CallInv, Waiting
<1> QED
  BY <1>2, <1>3, <1>4, <1>5 DEF IInv, CoreInv

(* What the operators of the model change.                                 *)

LEMMA SettledMoves ==
  ASSUME ShapeInv, NEW k \in Calls \cup {0}, NEW p \in Calls \cup {0}, call' = Settled(k, p)
  PROVE  /\ call' \in [Calls -> CallStates]
         /\ \A j \in Calls :
              /\ call'[j].worker = call[j].worker /\ call'[j].kind = call[j].kind
              /\ call'[j].source = call[j].source
              /\ j # k /\ j # p => call'[j].step = call[j].step
              /\ j = k => call'[j].step = "done"
              /\ j = p /\ j # k => call'[j].step = "rejected"
BY DEF Settled, ShapeInv, CallStates, Waiting

LEMMA CalledMoves ==
  ASSUME ShapeInv, NEW k \in Calls, NEW kind \in {"install", "create", "unhide"}, NEW s \in Nat,
         NEW w \in Workers, CallSource(k, kind, s, w)
  PROVE  /\ call' \in [Calls -> CallStates]
         /\ call[k].step = "none" /\ call'[k].step = "constraining"
         /\ call'[k].kind = kind /\ call'[k].source = s /\ call'[k].worker = w
         /\ \A j \in Calls \ {k} : call'[j] = call[j]
         /\ clones' = clones \cup {k}
BY DEF CallSource, Fresh, ShapeInv, CallStates, Waiting

(* The others are left alone, and worker w is closed.                      *)
Shut(w, k) ==
  /\ worker' \in [Workers -> WorkerStates]
  /\ \A v \in Workers \ {w} : worker'[v] = worker[v]
  /\ worker'[w].state = "closed" /\ worker'[w].pending = 0 /\ worker'[w].inbox = <<>>
  /\ worker'[w].feed = 0
  /\ clones' = clones \ {k, worker[w].feed}

LEMMA CloseMoves ==
  ASSUME ShapeInv, NEW w \in Workers, NEW k, Close(w, k)
  PROVE  Shut(w, k)
<1>1. worker[w] \in WorkerStates /\ <<>> \in Seq(Calls \cup {Placeholder})
  BY DEF ShapeInv
<1>2. [Stopped(worker[w]) EXCEPT !.timer = FALSE, !.feed = 0] \in WorkerStates
  BY <1>1 DEF Stopped, WorkerStates
<1>3. worker' = [worker EXCEPT ![w] = [Stopped(@) EXCEPT !.timer = FALSE, !.feed = 0]]
  BY DEF Close
<1> QED
  BY <1>1, <1>2, <1>3 DEF Close, Shut, Stopped, ShapeInv, WorkerStates

LEMMA CoveredMoves ==
  ASSUME NEW r \in WorkerStates, NEW s \in Nat, NEW timer \in BOOLEAN
  PROVE  /\ Covered(r, s, timer) \in WorkerStates
         /\ Covered(r, s, timer).state = r.state /\ Covered(r, s, timer).pending = r.pending
         /\ Covered(r, s, timer).feed = 0
         /\ Covered(r, s, timer).inbox \in {r.inbox, Append(r.inbox, Placeholder)}
<1>1. r.inbox \in Seq(Calls \cup {Placeholder})
  BY DEF WorkerStates
<1>2. Append(r.inbox, Placeholder) \in Seq(Calls \cup {Placeholder})
  BY <1>1
<1> QED
  BY <1>1, <1>2 DEF Covered, WorkerStates

(* A worker that stays as it was, or gets a placeholder, or stops.         *)
Calm(w) ==
  \/ /\ worker'[w].state = worker[w].state /\ worker'[w].pending = worker[w].pending
     /\ worker'[w].inbox \in {worker[w].inbox, Append(worker[w].inbox, Placeholder)}
     /\ worker[w].pending # 0 =>
          /\ call'[worker[w].pending].worker = call[worker[w].pending].worker
          /\ call'[worker[w].pending].step = call[worker[w].pending].step
  \/ worker'[w].state # "loading" /\ worker'[w].pending = 0 /\ worker'[w].inbox = <<>>

LEMMA CalmKeeps ==
  ASSUME ShapeInv, NEW w \in Workers, WorkerInv(w), Calm(w),
         Running(w)' => w \in {video', request'.worker},
         worker'[w].state = "loading" => request' = request
  PROVE  WorkerInv(w)'
<1>1. /\ worker[w].inbox \in Seq(Calls \cup {Placeholder})
      /\ Append(worker[w].inbox, Placeholder) \in Seq(Calls \cup {Placeholder})
  BY DEF ShapeInv, WorkerStates
<1>2. CASE worker'[w].state # "loading" /\ worker'[w].pending = 0 /\ worker'[w].inbox = <<>>
  BY <1>2 DEF WorkerInv
<1>3. CASE worker'[w].state = worker[w].state /\ worker'[w].inbox = worker[w].inbox
             /\ worker'[w].pending = worker[w].pending
             /\ (worker[w].pending # 0 =>
                  /\ call'[worker[w].pending].worker = call[worker[w].pending].worker
                  /\ call'[worker[w].pending].step = call[worker[w].pending].step)
  BY <1>3 DEF WorkerInv, Placeholder
<1>4. CASE worker'[w].state = worker[w].state
             /\ worker'[w].inbox = Append(worker[w].inbox, Placeholder)
             /\ worker'[w].pending = worker[w].pending
             /\ (worker[w].pending # 0 =>
                  /\ call'[worker[w].pending].worker = call[worker[w].pending].worker
                  /\ call'[worker[w].pending].step = call[worker[w].pending].step)
  <2>1. \A n \in DOMAIN worker'[w].inbox : worker'[w].inbox[n] # Placeholder =>
          n \in DOMAIN worker[w].inbox /\ worker'[w].inbox[n] = worker[w].inbox[n]
    BY <1>1, <1>4
  <2> QED
    BY <1>4, <2>1 DEF WorkerInv, Placeholder
<1> QED
  BY <1>2, <1>3, <1>4 DEF Calm
-----------------------------------------------------------------------------
(* A worker is closed, whoever does it, and the session is without video.  *)
LEMMA Closes ==
  ASSUME IInv, NEW w \in Workers, NEW k \in Calls \cup {0},
         Close(w, k), video' = 0, captured' = captured,
         w = video \/ (request.started /\ w = request.worker),
         k # 0 => Requesting(k) /\ (call[k].worker = w \/ call[k].step = "rejected"),
         \/ request' = request /\ k = 0 /\ ~request.started /\ server' = FALSE
         \/ /\ request' = NoRequest /\ server' = FALSE
            /\ \A j \in Calls : Requesting(j) => j = k
         \/ /\ request' = [request EXCEPT !.step = "closing"] /\ UNCHANGED <<active, server>>
            /\ request.started /\ w = request.worker
            /\ \A j \in Calls : Requesting(j) => j = k
  PROVE  CoreInv'
<1> DEFINE p == worker[w].pending
<1>0. /\ ShapeInv /\ RequestInv /\ OneCall /\ ClonesInv /\ ServerInStep
      /\ \A v \in Workers : WorkerInv(v)
      /\ \A j \in Calls : CallInv(j)
  BY DEF IInv, CoreInv
<1>1. p \in Calls \cup {0} /\ request \in Requests /\ (p # 0 => call[p].step \in {"posted", "accepted"}
         /\ call[p].worker = w)
  BY <1>0 DEF ShapeInv, WorkerStates, WorkerInv
<1>2. Shut(w, k)
  BY <1>0, CloseMoves
<1>3. /\ call' \in [Calls -> CallStates]
      /\ \A j \in Calls :
           /\ call'[j].worker = call[j].worker /\ call'[j].kind = call[j].kind
           /\ call'[j].source = call[j].source
           /\ j # k /\ j # p => call'[j].step = call[j].step
           /\ j = k => call'[j].step = "done"
           /\ j = p /\ j # k => call'[j].step = "rejected"
  BY <1>0, <1>1, SettledMoves DEF Close
<1>4. NoRequest \in Requests /\ [request EXCEPT !.step = "closing"] \in Requests
  BY <1>1 DEF NoRequest, Requests
<1>5. ShapeInv'
  BY <1>0, <1>2, <1>3, <1>4 DEF ShapeInv, Shut
<1>6. \A v \in Workers : Running(v)' => v # w /\ worker'[v] = worker[v] /\ v \in {video, request.worker}
  BY <1>0, <1>2 DEF Shut, Running, WorkerInv
<1>7. \A v \in Workers : ~Running(v)'
  <2>1. ASSUME NEW v \in Workers, Running(v)' PROVE FALSE
    <3>1. v # w /\ v \in {video, request.worker} /\ Running(v)
      BY <1>6, <2>1 DEF Running
    <3>2. CASE request.started
      BY <1>0, <3>1, <3>2, NoZero DEF RequestInv
    <3>3. CASE ~request.started
      BY <1>0, <3>1, <3>3, NoZero DEF RequestInv
    <3> QED
      BY <3>2, <3>3
  <2> QED
    BY <2>1
<1>8. RequestInv' /\ ServerInStep'
  <2>1. request'.worker # 0 => ~Running(request.worker)'
    BY <1>1, <1>4, <1>7 DEF Requests
  <2>2. CASE request' = request /\ ~request.started /\ server' = FALSE
    BY <1>0, <2>1, <2>2 DEF RequestInv, ServerInStep
  <2>3. CASE request' = NoRequest /\ server' = FALSE
    BY <2>3 DEF RequestInv, ServerInStep, NoRequest
  <2>4. CASE /\ request' = [request EXCEPT !.step = "closing"] /\ UNCHANGED <<active, server>>
             /\ request.started /\ w = request.worker
    <3>1. request'.step = "closing" /\ request'.worker = w /\ request'.started
      BY <1>1, <2>4 DEF Requests
    <3>2. ~Running(request.worker)'
      BY <1>7, <3>1
    <3> QED
      BY <1>0, <2>4, <3>1, <3>2 DEF RequestInv, ServerInStep
  <2> QED
    BY <2>2, <2>3, <2>4
<1>9. \A j \in Calls : (call[j].step \in Waiting /\ j # k <=> call'[j].step \in Waiting)
  BY <1>1, <1>3, NoZero DEF Waiting
<1>10. OneCall'
  BY <1>0, <1>3, <1>9 DEF OneCall, Requesting
<1>11. ClonesInv'
  BY <1>0, <1>1, <1>2, <1>3, <1>9, NoZero DEF ClonesInv, Tended, Shut, RequestInv, ShapeInv
<1>12. ASSUME NEW v \in Workers PROVE WorkerInv(v)'
  <2>1. worker'[v].state # "loading" /\ ~Running(v)'
    BY <1>7, <1>12 DEF Running
  <2>2. Calm(v)
    <3>1. CASE v = w
      BY <1>2, <3>1 DEF Calm, Shut
    <3>2. CASE v # w
      <4> DEFINE q == worker[v].pending
      <4>1. q \in Calls \cup {0} /\ WorkerInv(v)
        BY <1>0, <1>12 DEF ShapeInv, WorkerStates
      <4>2. q # 0 => q # p /\ q # k
        BY <1>1, <3>2, <4>1 DEF WorkerInv
      <4>3. q # 0 => call'[q].worker = call[q].worker /\ call'[q].step = call[q].step
        BY <1>3, <4>1, <4>2
      <4>4. worker'[v] = worker[v]
        BY <1>2, <3>2 DEF Shut
      <4> QED
        BY <4>3, <4>4 DEF Calm
    <3> QED
      BY <3>1, <3>2
  <2> QED
    BY <1>0, <1>12, <2>1, <2>2, CalmKeeps
<1>13. ASSUME NEW j \in Calls PROVE CallInv(j)'
  <2>1. SUFFICES ASSUME call'[j].step \in Waiting PROVE CallInv(j)'
    BY DEF CallInv
  <2>2. call[j].step \in Waiting /\ j # k /\ CallInv(j)
    BY <1>0, <1>9, <1>13, <2>1
  <2>3. call[j].worker \in Workers /\ worker'[call[j].worker].state \in {"ready", "closed"}
    BY <1>2, <2>2 DEF CallInv, Shut
  <2>4. call'[j].step \in {"posted", "accepted"} => worker'[call[j].worker].pending = j
    BY <1>1, <1>2, <1>3, <1>13, <2>2, NoZero DEF CallInv, Shut
  <2>5. call[j].kind # "unhide" => request' = request
    BY <1>13, <2>2 DEF Requesting
  <2> QED
    BY <1>3, <1>7, <1>13, <2>2, <2>3, <2>4, <2>5 DEF CallInv
<1> QED
  BY <1>5, <1>8, <1>10, <1>11, <1>12, <1>13 DEF CoreInv

(* A request that has no worker may begin or end.                          *)
Idle == [step : {"none", "capturing"}, source : Nat, worker : {0}, previous : Nat, started : {FALSE}]
Unrequested == request' = request \/ (request \in Idle /\ request' \in Idle)

(* Workers stay or get a placeholder, and only the clones they were fed    *)
(* with are stopped.                                                       *)
LEMMA Rests ==
  ASSUME IInv, Unrequested, UNCHANGED <<active, captured, video, server, call>>,
         \/ UNCHANGED <<worker, clones>>
         \/ /\ video # 0
            /\ \E s \in Nat, timer \in BOOLEAN : ShowPlaceholder(s, timer)
  PROVE  CoreInv'
<1>0. /\ ShapeInv /\ RequestInv /\ OneCall /\ ClonesInv /\ ServerInStep
      /\ \A v \in Workers : WorkerInv(v)
      /\ \A j \in Calls : CallInv(j)
  BY DEF IInv, CoreInv
<1>1. /\ worker' \in [Workers -> WorkerStates]
      /\ \A v \in Workers :
           /\ worker'[v].state = worker[v].state /\ worker'[v].pending = worker[v].pending
           /\ worker'[v].inbox \in {worker[v].inbox, Append(worker[v].inbox, Placeholder)}
           /\ v # video => worker'[v] = worker[v]
      /\ clones' \subseteq clones
      /\ \A k \in clones' : video # 0 /\ worker[video].feed = k => worker'[video].feed = k
  <2>1. CASE UNCHANGED <<worker, clones>>
    BY <1>0, <2>1 DEF ShapeInv
  <2>2. CASE video # 0 /\ \E s \in Nat, timer \in BOOLEAN : ShowPlaceholder(s, timer)
    <3>1. PICK s \in Nat, timer \in BOOLEAN : ShowPlaceholder(s, timer)
      BY <2>2
    <3>2. video \in Workers /\ worker[video] \in WorkerStates
      BY <1>0, <2>2 DEF ShapeInv
    <3>3. worker' = [worker EXCEPT ![video] = Covered(worker[video], s, timer)]
          /\ clones' = clones \ {worker[video].feed}
      BY <3>1 DEF ShowPlaceholder
    <3>4. /\ Covered(worker[video], s, timer) \in WorkerStates
          /\ Covered(worker[video], s, timer).state = worker[video].state
          /\ Covered(worker[video], s, timer).pending = worker[video].pending
          /\ Covered(worker[video], s, timer).inbox \in
               {worker[video].inbox, Append(worker[video].inbox, Placeholder)}
      BY <3>2, CoveredMoves
    <3> QED
      BY <1>0, <3>2, <3>3, <3>4 DEF ShapeInv
  <2> QED
    BY <2>1, <2>2
<1>2. /\ request' \in Requests /\ request'.worker = request.worker
      /\ request'.started = request.started
      /\ request.step \notin {"none", "capturing"} \/ request'.step \notin {"none", "capturing"}
           => request' = request
  BY <1>0 DEF Unrequested, Idle, Requests, ShapeInv
<1>3. ShapeInv'
  BY <1>0, <1>1, <1>2 DEF ShapeInv
<1>4. \A v \in Workers : Running(v)' = Running(v)
  BY <1>1 DEF Running
<1>5. RequestInv' /\ OneCall' /\ ServerInStep'
  <2>1. request.worker # 0 => (Running(request.worker)' <=> Running(request.worker))
    BY <1>0, <1>1, <1>2 DEF Running, ShapeInv, Requests
  <2>2. request'.step \in {"none", "capturing"} => request'.worker = 0 /\ ~request'.started
    BY <1>0, <1>2 DEF RequestInv, ShapeInv, Requests
  <2>3. video' # 0 => worker'[video'].state # "unused"
    BY <1>0, <1>1 DEF RequestInv, ShapeInv
  <2> QED
    BY <1>0, <1>2, <2>1, <2>2, <2>3, NoZero DEF RequestInv, OneCall, Requesting, ServerInStep
<1>6. ClonesInv'
  BY <1>0, <1>1 DEF ClonesInv, Tended
<1>7. ASSUME NEW v \in Workers PROVE WorkerInv(v)'
  <2>1. Calm(v)
    BY <1>1, <1>7 DEF Calm
  <2>2. Running(v)' => v \in {video', request'.worker}
    BY <1>0, <1>2, <1>4, <1>7 DEF WorkerInv
  <2>3. worker'[v].state = "loading" => request' = request
    BY <1>0, <1>1, <1>2, <1>7 DEF WorkerInv
  <2> QED
    BY <1>0, <1>7, <2>1, <2>2, <2>3, CalmKeeps
<1>8. ASSUME NEW j \in Calls PROVE CallInv(j)'
  BY <1>0, <1>1, <1>2, <1>4, <1>8 DEF CallInv
<1> QED
  BY <1>3, <1>5, <1>6, <1>7, <1>8 DEF CoreInv

(* A rejected call ends and takes its clone with it.                       *)
LEMMA Settles ==
  ASSUME IInv, NEW k \in Calls, call[k].step = "rejected",
         call' = Settled(k, 0), clones' = clones \ {k},
         UNCHANGED <<active, captured, video, server, worker>>,
         \/ request' = request /\ call[k].kind = "unhide"
         \/ request' = NoRequest /\ Requesting(k) /\ ~request.started
  PROVE  CoreInv'
<1>0. /\ ShapeInv /\ RequestInv /\ OneCall /\ ClonesInv /\ ServerInStep
      /\ \A v \in Workers : WorkerInv(v)
      /\ \A j \in Calls : CallInv(j)
  BY DEF IInv, CoreInv
<1>1. /\ call' \in [Calls -> CallStates]
      /\ \A j \in Calls :
           /\ call'[j].worker = call[j].worker /\ call'[j].kind = call[j].kind
           /\ call'[j].source = call[j].source
           /\ j # k => call'[j].step = call[j].step
           /\ j = k => call'[j].step = "done"
  BY <1>0, SettledMoves, NoZero
<1>2. NoRequest \in Requests /\ NoRequest.step = "none" /\ NoRequest.worker = 0 /\ ~NoRequest.started
  BY DEF NoRequest, Requests
<1>3. ShapeInv'
  BY <1>0, <1>1, <1>2 DEF ShapeInv
<1>4. ASSUME NEW j \in Calls, call'[j].step \in Waiting
      PROVE  /\ j # k /\ call[j].step \in Waiting /\ call'[j].step = call[j].step
             /\ call[j].kind # "unhide" => request' = request
  BY <1>0, <1>1, <1>4 DEF OneCall, Requesting, Waiting
<1>5. RequestInv' /\ OneCall' /\ ServerInStep'
  BY <1>0, <1>1, <1>2, <1>4 DEF RequestInv, OneCall, Requesting, ServerInStep, Running
<1>6. ClonesInv'
  BY <1>0, <1>1 DEF ClonesInv, Tended, ShapeInv
<1>7. ASSUME NEW v \in Workers PROVE WorkerInv(v)'
  <2>1. worker[v].pending # 0 => worker[v].pending \in Calls \ {k}
    BY <1>0, <1>7 DEF WorkerInv, ShapeInv, WorkerStates
  <2>2. Calm(v)
    BY <1>1, <1>7, <2>1 DEF Calm
  <2>3. Running(v)' => v \in {video', request'.worker}
    BY <1>0, <1>2, <1>7, NoZero DEF WorkerInv, RequestInv, Running
  <2>4. worker'[v].state = "loading" => request' = request
    BY <1>0, <1>7 DEF WorkerInv, CallInv, Requesting
  <2> QED
    BY <1>0, <1>7, <2>2, <2>3, <2>4, CalmKeeps
<1>8. ASSUME NEW j \in Calls PROVE CallInv(j)'
  BY <1>0, <1>1, <1>4, <1>8 DEF CallInv, Running
<1> QED
  BY <1>3, <1>5, <1>6, <1>7, <1>8 DEF CoreInv

(* An accepted call ends, and its clone feeds the session's video.         *)
LEMMA Feeds ==
  ASSUME IInv, NEW k \in Calls, call[k].step = "accepted",
         worker' = [worker EXCEPT ![call[k].worker].feed = k, ![call[k].worker].pending = 0,
                                  ![call[k].worker].source = call[k].source],
         clones' = clones \ {worker[call[k].worker].feed},
         call' = Settled(k, 0),
         UNCHANGED <<active, captured, server>>,
         \/ call[k].kind = "unhide" /\ video' = video /\ request' = request
         \/ call[k].kind = "install" /\ video' = video /\ request' = NoRequest
         \/ call[k].kind = "create" /\ video' = call[k].worker /\ request' = NoRequest
  PROVE  CoreInv'
<1> DEFINE w == call[k].worker
<1>0. /\ ShapeInv /\ RequestInv /\ OneCall /\ ClonesInv /\ ServerInStep
      /\ \A v \in Workers : WorkerInv(v)
      /\ \A j \in Calls : CallInv(j)
  BY DEF IInv, CoreInv
<1>1. /\ call' \in [Calls -> CallStates]
      /\ \A j \in Calls :
           /\ call'[j].worker = call[j].worker /\ call'[j].kind = call[j].kind
           /\ call'[j].source = call[j].source
           /\ j # k => call'[j].step = call[j].step
           /\ j = k => call'[j].step = "done"
  BY <1>0, SettledMoves, NoZero
<1>2. NoRequest \in Requests /\ NoRequest.step = "none" /\ NoRequest.worker = 0 /\ ~NoRequest.started
  BY DEF NoRequest, Requests
<1>3. CallInv(k) /\ call[k].step \in Waiting /\ call[k] \in CallStates
  BY <1>0 DEF Waiting, ShapeInv
<1>4. w \in Workers /\ worker[w].pending = k /\ worker[w].state = "ready" /\ Running(w)
  BY <1>0, <1>3, NoZero DEF CallInv, WorkerInv, Running
<1>5. /\ worker' \in [Workers -> WorkerStates]
      /\ \A v \in Workers \ {w} : worker'[v] = worker[v]
      /\ worker'[w].state = "ready" /\ worker'[w].pending = 0 /\ worker'[w].feed = k
      /\ worker'[w].inbox = worker[w].inbox
  <2>1. worker[w] \in WorkerStates /\ call[k].source \in Nat
    BY <1>0, <1>3, <1>4 DEF ShapeInv, CallStates
  <2>2. [worker[w] EXCEPT !.feed = k, !.pending = 0, !.source = call[k].source] \in WorkerStates
    BY <2>1 DEF WorkerStates
  <2>3. worker' = [worker EXCEPT ![w] = [@ EXCEPT !.feed = k, !.pending = 0, !.source = call[k].source]]
    BY <1>4
  <2> QED
    BY <1>0, <1>4, <2>1, <2>2, <2>3 DEF ShapeInv, WorkerStates
<1>6. video' = w /\ (call[k].kind = "create" => video = 0 /\ request.started)
      /\ (call[k].kind # "create" => video = w)
  BY <1>0, <1>3, <1>4, NoZero DEF CallInv, RequestInv
<1>7. ShapeInv'
  BY <1>0, <1>1, <1>2, <1>4, <1>5, <1>6 DEF ShapeInv
<1>8. ASSUME NEW j \in Calls, call'[j].step \in Waiting
      PROVE  /\ j # k /\ call[j].step \in Waiting /\ call'[j].step = call[j].step
             /\ call[j].kind # "unhide" => request' = request
  BY <1>0, <1>1, <1>3, <1>8 DEF OneCall, Requesting, Waiting
<1>9. \A v \in Workers : Running(v)' = Running(v)
  BY <1>4, <1>5 DEF Running
<1>10. \A v \in Workers : Running(v) /\ request' = NoRequest => v = w
  BY <1>0, <1>3, <1>4, <1>6, NoZero DEF WorkerInv, RequestInv, CallInv, Requesting
<1>11. RequestInv' /\ OneCall' /\ ServerInStep'
  <2>1. OneCall'
    BY <1>0, <1>1, <1>8 DEF OneCall, Requesting
  <2>2. CASE request' = NoRequest
    BY <1>0, <1>2, <1>3, <1>4, <1>5, <1>6, <2>1, <2>2, NoZero DEF RequestInv, ServerInStep, CallInv
  <2>3. CASE request' = request /\ video' = video
    <3>1. request.worker # 0 => (Running(request.worker)' <=> Running(request.worker))
      BY <1>0, <1>9, <2>3 DEF ShapeInv, Requests, Running
    <3> QED
      BY <1>0, <1>5, <1>6, <2>1, <2>3, <3>1, NoZero DEF RequestInv, ServerInStep
  <2> QED
    BY <2>1, <2>2, <2>3
<1>12. ClonesInv'
  BY <1>0, <1>1, <1>4, <1>5, <1>6, NoZero DEF ClonesInv, Tended, ShapeInv
<1>13. ASSUME NEW v \in Workers PROVE WorkerInv(v)'
  <2>1. Running(v)' => v \in {video', request'.worker}
    BY <1>0, <1>2, <1>6, <1>9, <1>10, <1>13 DEF WorkerInv
  <2>2. CASE v = w
    <3>1. \A n \in DOMAIN worker[w].inbox : worker[w].inbox[n] = Placeholder
      BY <1>0, <1>4 DEF WorkerInv
    <3>2. \A n \in DOMAIN worker'[v].inbox : ~(worker'[v].inbox[n] # Placeholder)
      BY <1>5, <2>2, <3>1
    <3>3. worker'[v].state = "ready" /\ worker'[v].pending = 0
      BY <1>5, <2>2
    <3> QED
      BY <2>1, <3>2, <3>3 DEF WorkerInv
  <2>3. CASE v # w
    <3>1. worker[v].pending \in Calls \cup {0} /\ WorkerInv(v) /\ worker'[v] = worker[v]
      BY <1>0, <1>5, <1>13, <2>3 DEF ShapeInv, WorkerStates
    <3>2. worker[v].pending # 0 => worker[v].pending # k
      BY <2>3, <3>1 DEF WorkerInv
    <3>3. Calm(v)
      BY <1>1, <3>1, <3>2 DEF Calm
    <3>4. worker'[v].state = "loading" => request' = request
      BY <1>10, <1>13, <2>3, <3>1 DEF Running
    <3> QED
      BY <1>0, <1>13, <2>1, <3>3, <3>4, CalmKeeps
  <2> QED
    BY <2>2, <2>3
<1>14. ASSUME NEW j \in Calls PROVE CallInv(j)'
  <2>1. SUFFICES ASSUME call'[j].step \in Waiting PROVE CallInv(j)'
    BY DEF CallInv
  <2>2. j # k /\ call[j].step \in Waiting /\ call'[j].step = call[j].step /\ CallInv(j)
        /\ (call[j].kind # "unhide" => request' = request)
    BY <1>0, <1>8, <1>14, <2>1
  <2>3. call[j].step \in {"posted", "accepted"} => call[j].worker # w
    BY <1>4, <2>2 DEF CallInv
  <2>4. Running(call[j].worker)' /\ call[j].kind = "unhide" => call[j].worker = video'
    <3>1. call[j].worker \in Workers
      BY <2>2 DEF CallInv
    <3> QED
      BY <1>1, <1>6, <1>9, <1>14, <2>2, <3>1, NoZero DEF CallInv, Running
  <2> QED
    BY <1>1, <1>5, <1>14, <2>2, <2>3, <2>4 DEF CallInv, Running
<1> QED
  BY <1>7, <1>11, <1>12, <1>13, <1>14 DEF CoreInv

(* setSource is called, and worker w may have become ready.                *)
LEMMA Calling ==
  ASSUME IInv, NEW k \in Calls, NEW kind \in {"install", "create", "unhide"}, NEW s \in Nat,
         NEW w \in Workers, CallSource(k, kind, s, w),
         UNCHANGED <<active, video, server>>, request' \in Requests,
         \/ captured' = captured
         \/ captured' = captured + 1 /\ captured \in Nat,
         \/ /\ kind = "unhide" /\ s \in 1 .. captured /\ w = video /\ request' = request
            /\ worker' = [worker EXCEPT ![w].timer = FALSE]
         \/ /\ kind = "install" /\ w = video /\ request.step = "capturing"
            /\ request'.step = "setting" /\ request'.worker = w /\ ~request'.started
            /\ worker' = [worker EXCEPT ![w].timer = FALSE]
         \/ /\ kind = "create" /\ worker[w].state = "loading"
            /\ request' = [request EXCEPT !.step = "setting"]
            /\ worker' = [worker EXCEPT ![w].state = "ready"]
  PROVE  CoreInv'
<1>0. /\ ShapeInv /\ RequestInv /\ OneCall /\ ClonesInv /\ ServerInStep
      /\ \A v \in Workers : WorkerInv(v)
      /\ \A j \in Calls : CallInv(j)
  BY DEF IInv, CoreInv
<1>1. /\ call' \in [Calls -> CallStates]
      /\ call[k].step = "none" /\ call'[k].step = "constraining"
      /\ call'[k].kind = kind /\ call'[k].source = s /\ call'[k].worker = w
      /\ \A j \in Calls \ {k} : call'[j] = call[j]
      /\ clones' = clones \cup {k}
  BY <1>0, CalledMoves
<1>2. /\ worker' \in [Workers -> WorkerStates]
      /\ \A v \in Workers :
           /\ worker'[v].pending = worker[v].pending /\ worker'[v].inbox = worker[v].inbox
           /\ worker'[v].feed = worker[v].feed
           /\ v # w \/ kind # "create" => worker'[v].state = worker[v].state
      /\ kind = "create" => worker'[w].state = "ready"
  <2>1. CASE kind # "create" /\ worker' = [worker EXCEPT ![w].timer = FALSE]
    BY <1>0, <2>1, TimerStopped
  <2>2. CASE kind = "create" /\ worker' = [worker EXCEPT ![w].state = "ready"]
    <3> DEFINE x == [worker[w] EXCEPT !.state = "ready"]
    <3>1. /\ x \in WorkerStates /\ x.state = "ready" /\ x.pending = worker[w].pending
          /\ x.inbox = worker[w].inbox /\ x.feed = worker[w].feed
      BY <1>0 DEF ShapeInv, WorkerStates
    <3>2. worker' = [worker EXCEPT ![w] = x]
      BY <2>2
    <3> HIDE DEF x
    <3> QED
      BY <1>0, <2>2, <3>1, <3>2 DEF ShapeInv
  <2> QED
    BY <2>1, <2>2
<1>3. CASE kind = "create"
  <2>1. /\ request.step = "creating" /\ request.started /\ request.worker = w /\ video = 0
        /\ worker[w].pending = 0
    BY <1>0, <1>3 DEF WorkerInv, RequestInv
  <2>2. /\ request'.step = "setting" /\ request'.started /\ request'.worker = w
    BY <1>0, <1>3, <2>1 DEF ShapeInv, Requests
  <2>3. \A j \in Calls : ~Requesting(j)
    BY <1>0, <2>1 DEF CallInv, Requesting
  <2>4. ShapeInv' /\ RequestInv' /\ OneCall' /\ ServerInStep'
    BY <1>0, <1>1, <1>2, <2>1, <2>2, <2>3 DEF ShapeInv, RequestInv, OneCall, Requesting, ServerInStep
  <2>5. ClonesInv'
    BY <1>0, <1>1, <2>1 DEF ClonesInv, Tended, Waiting, ShapeInv
  <2>6. ASSUME NEW v \in Workers PROVE WorkerInv(v)'
    <3>1. CASE v = w
      <4>1. /\ \A n \in DOMAIN worker'[v].inbox : ~(worker'[v].inbox[n] # Placeholder)
            /\ worker'[v].state = "ready" /\ worker'[v].pending = 0
        BY <1>0, <1>2, <1>3, <2>1, <3>1 DEF WorkerInv, Placeholder
      <4> QED
        BY <2>2, <3>1, <4>1 DEF WorkerInv
    <3>2. CASE v # w
      <4>1. WorkerInv(v) /\ ~Running(v) /\ worker[v].pending = 0
        BY <1>0, <2>1, <2>6, <3>2, NoZero DEF WorkerInv, Running
      <4>2. \A n \in DOMAIN worker'[v].inbox : ~(worker'[v].inbox[n] # Placeholder)
        BY <1>2, <2>6, <4>1 DEF WorkerInv, Placeholder
      <4>3. worker'[v].state = worker[v].state /\ worker'[v].pending = 0
        BY <1>2, <2>6, <3>2, <4>1
      <4> QED
        BY <4>1, <4>2, <4>3 DEF WorkerInv, Running
    <3> QED
      BY <3>1, <3>2
  <2>7. ASSUME NEW j \in Calls PROVE CallInv(j)'
    <3>1. CASE j = k
      BY <1>1, <1>2, <1>3, <2>2, <3>1 DEF CallInv
    <3>2. CASE j # k
      <4>1. CallInv(j) /\ ~Requesting(j) /\ call'[j] = call[j]
        BY <1>0, <1>1, <2>3, <2>7, <3>2
      <4>2. call[j].step \in Waiting => call[j].worker # w
        BY <1>3, <4>1 DEF CallInv
      <4> QED
        BY <1>0, <1>1, <1>2, <4>1, <4>2 DEF CallInv, Requesting, Running
    <3> QED
      BY <3>1, <3>2
  <2> QED
    BY <2>4, <2>5, <2>6, <2>7 DEF CoreInv
<1>4. CASE kind # "create"
  <2>1. w = video /\ ~request.started /\ ~request'.started
        /\ worker[w].state \in {"ready", "closed"}
    BY <1>0, <1>4, NoZero DEF RequestInv, WorkerInv, ShapeInv, WorkerStates
  <2>2. \/ kind = "unhide" /\ s \in 1 .. captured /\ request' = request
        \/ /\ kind = "install" /\ request.step = "capturing"
           /\ request'.step = "setting" /\ request'.worker = w
    BY <1>4
  <2>3. request' # request => \A j \in Calls : ~Requesting(j)
    BY <1>0, <2>2 DEF CallInv, Requesting
  <2>4. \A v \in Workers : Running(v)' = Running(v)
    BY <1>2, <1>4 DEF Running
  <2>5. ShapeInv'
    BY <1>0, <1>1, <1>2 DEF ShapeInv
  <2>6. OneCall' /\ ServerInStep'
    <3>1. kind = "install" => request' # request
      BY <2>2
    <3> QED
      BY <1>0, <1>1, <2>1, <2>2, <2>3, <3>1 DEF OneCall, Requesting, ServerInStep, Waiting
  <2>7. RequestInv'
    <3>1. request.worker \in Workers => Running(request.worker)' \in {Running(request.worker)}
                                        \/ request' # request
      BY <1>2, <1>4 DEF Running
    <3> QED
      BY <1>0, <1>2, <1>4, <2>1, <2>2, <3>1, NoZero DEF RequestInv, Running, ShapeInv, Requests
  <2>8. ClonesInv'
    BY <1>0, <1>1, <1>2, <2>1 DEF ClonesInv, Tended, Waiting, ShapeInv
  <2>9. ASSUME NEW v \in Workers PROVE WorkerInv(v)'
    <3>1. worker[v].pending # 0 => worker[v].pending \in Calls \ {k}
      BY <1>0, <1>1, <2>9 DEF WorkerInv, ShapeInv, WorkerStates
    <3>2. Calm(v)
      BY <1>1, <1>2, <1>4, <2>9, <3>1 DEF Calm
    <3>3. Running(v)' => v \in {video', request'.worker}
      BY <1>0, <2>2, <2>4, <2>9, NoZero DEF WorkerInv, RequestInv
    <3>4. worker'[v].state = "loading" => request' = request
      BY <1>0, <1>2, <1>4, <2>2, <2>9 DEF WorkerInv
    <3> QED
      BY <1>0, <2>9, <3>2, <3>3, <3>4, CalmKeeps
  <2>10. ASSUME NEW j \in Calls PROVE CallInv(j)'
    <3>1. CASE j = k
      BY <1>0, <1>1, <1>2, <1>4, <2>1, <2>2, <3>1 DEF CallInv, Running, IInv, CaptureInv
    <3>2. CASE j # k
      <4>1. CallInv(j) /\ call'[j] = call[j]
        BY <1>0, <1>1, <2>10, <3>2
      <4>2. request' # request => ~Requesting(j)
        BY <2>3, <2>10
      <4>3. captured' >= captured /\ captured \in Nat /\ captured' \in Nat
        BY DEF IInv, CaptureInv
      <4> QED
        BY <1>0, <1>1, <1>2, <1>4, <2>4, <4>1, <4>2, <4>3 DEF CallInv, Requesting
    <3> QED
      BY <3>1, <3>2
  <2> QED
    BY <2>5, <2>6, <2>7, <2>8, <2>9, <2>10 DEF CoreInv
<1> QED
  BY <1>3, <1>4

(* A worker is made for a session that has no video.                       *)
LEMMA Making ==
  ASSUME IInv, NEW w \in Workers, NEW m \in Nat, worker[w].state = "unused",
         worker' = [worker EXCEPT ![w] = [Unmade EXCEPT !.state = "loading", !.maker = m]],
         UNCHANGED <<active, video, call, clones>>, server' = TRUE, captured' = captured + 1,
         video = 0, request.step = "capturing", request' \in Requests,
         request'.step = "creating", request'.worker = w, request'.started
  PROVE  CoreInv'
<1>0. /\ ShapeInv /\ RequestInv /\ OneCall /\ ClonesInv /\ ServerInStep
      /\ \A v \in Workers : WorkerInv(v)
      /\ \A j \in Calls : CallInv(j)
  BY DEF IInv, CoreInv
<1>1. /\ worker' \in [Workers -> WorkerStates]
      /\ \A v \in Workers \ {w} : worker'[v] = worker[v]
      /\ worker'[w].state = "loading" /\ worker'[w].pending = 0 /\ worker'[w].inbox = <<>>
  <2>1. <<>> \in Seq(Calls \cup {Placeholder}) /\ 0 \in Calls \cup {0}
    OBVIOUS
  <2>2. [Unmade EXCEPT !.state = "loading", !.maker = m] \in WorkerStates
    BY <2>1 DEF WorkerStates, Unmade
  <2> QED
    BY <1>0, <2>2 DEF ShapeInv, Unmade
<1>2. request.worker = 0 /\ \A j \in Calls : ~Requesting(j)
  BY <1>0 DEF RequestInv, CallInv, Requesting
<1>3. \A v \in Workers : ~Running(v)
  BY <1>0, <1>2, NoZero DEF WorkerInv
<1>4. ShapeInv' /\ RequestInv' /\ OneCall' /\ ClonesInv' /\ ServerInStep'
  BY <1>0, <1>1, <1>2 DEF ShapeInv, RequestInv, OneCall, Requesting, ClonesInv, Tended, ServerInStep
<1>5. ASSUME NEW v \in Workers PROVE WorkerInv(v)'
  <2>1. CASE v = w
    BY <1>1, <2>1 DEF WorkerInv
  <2>2. CASE v # w
    BY <1>0, <1>1, <1>3, <1>5, <2>2 DEF WorkerInv, Running
  <2> QED
    BY <2>1, <2>2
<1>6. ASSUME NEW j \in Calls PROVE CallInv(j)'
  <2>1. CallInv(j) /\ ~Requesting(j) /\ captured \in Nat
    BY <1>0, <1>2, <1>6 DEF IInv, CaptureInv
  <2>2. call[j].step \in Waiting => call[j].worker # w /\ call[j].worker \in Workers
    BY <2>1 DEF CallInv
  <2> QED
    BY <1>1, <1>3, <2>1, <2>2 DEF CallInv, Requesting, Running
<1> QED
  BY <1>4, <1>5, <1>6 DEF CoreInv

(* A worker that was ready fails, and its pending call with it.            *)
LEMMA Breaks ==
  ASSUME IInv, NEW w \in Workers, worker[w].state = "ready",
         NEW timer \in BOOLEAN,
         call' = Settled(0, worker[w].pending),
         UNCHANGED <<active, captured, video, server, request>>,
         \/ worker' = [worker EXCEPT ![w] = Stopped(@)] /\ clones' = clones
         \/ /\ worker' = [worker EXCEPT ![w] = Covered(Stopped(@), 0, timer)]
            /\ clones' = clones \ {worker[w].feed} /\ video # 0
  PROVE  CoreInv'
<1> DEFINE p == worker[w].pending
<1>0. /\ ShapeInv /\ RequestInv /\ OneCall /\ ClonesInv /\ ServerInStep
      /\ \A v \in Workers : WorkerInv(v)
      /\ \A j \in Calls : CallInv(j)
  BY DEF IInv, CoreInv
<1>1. p \in Calls \cup {0} /\ (p # 0 => call[p].step \in {"posted", "accepted"} /\ call[p].worker = w)
  BY <1>0 DEF ShapeInv, WorkerStates, WorkerInv
<1>2. /\ call' \in [Calls -> CallStates]
      /\ \A j \in Calls :
           /\ call'[j].worker = call[j].worker /\ call'[j].kind = call[j].kind
           /\ call'[j].source = call[j].source
           /\ j # p => call'[j].step = call[j].step
           /\ j = p => call'[j].step = "rejected"
  BY <1>0, <1>1, SettledMoves, NoZero
<1>3. /\ Stopped(worker[w]) \in WorkerStates /\ Stopped(worker[w]).state = "closed"
      /\ Stopped(worker[w]).pending = 0 /\ Stopped(worker[w]).inbox = <<>>
      /\ Stopped(worker[w]).feed = worker[w].feed
  <2>1. <<>> \in Seq(Calls \cup {Placeholder}) /\ 0 \in Calls \cup {0} /\ worker[w] \in WorkerStates
    BY <1>0 DEF ShapeInv
  <2> QED
    BY <2>1 DEF Stopped, WorkerStates
<1>4. /\ Covered(Stopped(worker[w]), 0, timer) \in WorkerStates
      /\ Covered(Stopped(worker[w]), 0, timer).state = "closed"
      /\ Covered(Stopped(worker[w]), 0, timer).pending = 0
      /\ Covered(Stopped(worker[w]), 0, timer).inbox = <<>>
  <2>1. Covered(Stopped(worker[w]), 0, timer).inbox = Stopped(worker[w]).inbox
    BY <1>3 DEF Covered, WorkerStates
  <2> QED
    BY <1>3, <2>1, CoveredMoves
<1>5. /\ worker' \in [Workers -> WorkerStates]
      /\ \A v \in Workers \ {w} : worker'[v] = worker[v]
      /\ worker'[w].state = "closed" /\ worker'[w].pending = 0 /\ worker'[w].inbox = <<>>
      /\ clones' \subseteq clones
      /\ \A k \in clones' : worker[w].feed = k => worker'[w].feed = k
  BY <1>0, <1>3, <1>4 DEF ShapeInv
<1>6. ShapeInv'
  BY <1>0, <1>2, <1>5 DEF ShapeInv
<1>7. \A v \in Workers : Running(v)' => Running(v) /\ v # w
  BY <1>5 DEF Running
<1>8. \A j \in Calls : call'[j].step \in Waiting <=> call[j].step \in Waiting
  BY <1>1, <1>2, NoZero DEF Waiting
<1>9. RequestInv' /\ OneCall' /\ ServerInStep'
  <2>1. request.worker # 0 => (Running(request.worker)' => Running(request.worker))
    BY <1>0, <1>7 DEF ShapeInv, Requests
  <2>2. video # 0 => worker'[video].state # "unused"
    BY <1>0, <1>5 DEF RequestInv, ShapeInv
  <2> QED
    BY <1>0, <1>2, <1>8, <2>1, <2>2, NoZero DEF RequestInv, OneCall, Requesting, ServerInStep
<1>10. ClonesInv'
  BY <1>0, <1>5, <1>8 DEF ClonesInv, Tended, ShapeInv
<1>11. ASSUME NEW v \in Workers PROVE WorkerInv(v)'
  <2>1. worker[v].pending # 0 /\ v # w => worker[v].pending \in Calls \ {p}
    BY <1>0, <1>1, <1>11 DEF WorkerInv, ShapeInv, WorkerStates
  <2>2. Calm(v)
    BY <1>2, <1>5, <1>11, <2>1 DEF Calm
  <2>3. Running(v)' => v \in {video', request'.worker}
    BY <1>0, <1>7, <1>11 DEF WorkerInv
  <2> QED
    BY <1>0, <1>11, <2>2, <2>3, CalmKeeps
<1>12. ASSUME NEW j \in Calls PROVE CallInv(j)'
  <2>1. SUFFICES ASSUME call'[j].step \in Waiting PROVE CallInv(j)'
    BY DEF CallInv
  <2>2. CallInv(j) /\ call[j].step \in Waiting /\ call[j].worker \in Workers
    BY <1>0, <1>8, <1>12, <2>1 DEF CallInv
  <2>3. worker'[call[j].worker].state \in {"ready", "closed"}
    BY <1>5, <2>2 DEF CallInv
  <2>4. call'[j].step \in {"posted", "accepted"} => worker'[call[j].worker].pending = j
    BY <1>2, <1>5, <1>12, <2>2 DEF CallInv
  <2> QED
    BY <1>2, <1>7, <1>12, <2>2, <2>3, <2>4 DEF CallInv
<1> QED
  BY <1>6, <1>9, <1>10, <1>11, <1>12 DEF CoreInv

(* A worker reads a message: a source, whose call it accepts, or a         *)
(* placeholder.                                                            *)
LEMMA ServeKeeps == ASSUME IInv, NEW w \in Workers, Serve(w) PROVE CoreInv'
<1> DEFINE h == Head(worker[w].inbox)
<1>0. /\ ShapeInv /\ RequestInv /\ OneCall /\ ClonesInv /\ ServerInStep
      /\ \A v \in Workers : WorkerInv(v)
      /\ \A j \in Calls : CallInv(j)
  BY DEF IInv, CoreInv
<1>1. /\ worker[w] \in WorkerStates /\ worker[w].inbox \in Seq(Calls \cup {Placeholder})
      /\ worker[w].inbox # <<>> /\ WorkerInv(w)
  BY <1>0 DEF Serve, ShapeInv, WorkerStates
<1>2. /\ h = worker[w].inbox[1] /\ 1 \in DOMAIN worker[w].inbox
      /\ h \in Calls \cup {0} /\ Tail(worker[w].inbox) \in Seq(Calls \cup {Placeholder})
      /\ \A n \in DOMAIN Tail(worker[w].inbox) :
           n + 1 \in DOMAIN worker[w].inbox /\ Tail(worker[w].inbox)[n] = worker[w].inbox[n + 1]
           /\ n + 1 # 1
  BY <1>1 DEF Placeholder
<1>3. UNCHANGED <<session, captured, hidden, live, clones, request>>
  BY DEF Serve
<1>4. /\ worker' \in [Workers -> WorkerStates]
      /\ \A v \in Workers :
           /\ worker'[v].state = worker[v].state /\ worker'[v].feed = worker[v].feed
           /\ worker'[v].pending = worker[v].pending
           /\ v # w => worker'[v].inbox = worker[v].inbox
      /\ worker'[w].inbox = Tail(worker[w].inbox)
  <2>1. worker' = [worker EXCEPT ![w].inbox = Tail(@), ![w].shows = h]
    BY DEF Serve
  <2> QED
    BY <1>0, <1>1, <1>2, <2>1 DEF ShapeInv, WorkerStates
<1>5. /\ call' \in [Calls -> CallStates]
      /\ \A j \in Calls :
           /\ call'[j].worker = call[j].worker /\ call'[j].kind = call[j].kind
           /\ call'[j].source = call[j].source
           /\ j # h => call'[j].step = call[j].step
           /\ j = h => call'[j].step = "accepted"
  BY <1>0 DEF Serve, ShapeInv, CallStates, Waiting
<1>6. h # 0 => call[h].step = "posted" /\ h = worker[w].pending /\ call[h].worker = w
  BY <1>1, <1>2 DEF WorkerInv, Placeholder
<1>7. \A j \in Calls : call'[j].step \in Waiting <=> call[j].step \in Waiting
  BY <1>5, <1>6, NoZero DEF Waiting
<1>8. ShapeInv'
  BY <1>0, <1>3, <1>4, <1>5 DEF ShapeInv, session
<1>9. RequestInv' /\ OneCall' /\ ServerInStep' /\ ClonesInv'
  <2>1. request.worker # 0 => (Running(request.worker)' <=> Running(request.worker))
    BY <1>0, <1>3, <1>4 DEF ShapeInv, Requests, Running
  <2>2. video # 0 => worker'[video].state # "unused"
    BY <1>0, <1>4 DEF RequestInv, ShapeInv
  <2>3. ClonesInv'
    BY <1>0, <1>3, <1>4, <1>7 DEF ClonesInv, Tended, ShapeInv, session
  <2> QED
    BY <1>0, <1>3, <1>5, <1>7, <2>1, <2>2, <2>3, NoZero DEF RequestInv, OneCall, Requesting, ServerInStep, session
<1>10. ASSUME NEW v \in Workers PROVE WorkerInv(v)'
  <2>1. WorkerInv(v) /\ worker[v].pending \in Calls \cup {0}
    BY <1>0, <1>10 DEF ShapeInv, WorkerStates
  <2>2. Running(v)' => v \in {video', request'.worker}
    BY <1>3, <1>4, <1>10, <2>1 DEF WorkerInv, Running, session
  <2>3. worker'[v].pending # 0 =>
          /\ worker'[v].state = "ready" /\ call'[worker'[v].pending].worker = v
          /\ call'[worker'[v].pending].step \in {"posted", "accepted"}
    BY <1>4, <1>5, <1>10, <2>1 DEF WorkerInv
  <2>4. worker'[v].state = "loading" =>
          request'.step = "creating" /\ request'.started /\ request'.worker = v
    BY <1>3, <1>4, <1>10, <2>1 DEF WorkerInv
  <2>5. CASE v = w
    <3>1. h # Placeholder => \A n \in DOMAIN Tail(worker[w].inbox) : Tail(worker[w].inbox)[n] = Placeholder
      BY <1>1, <1>2 DEF WorkerInv
    <3>2. h = Placeholder => call' = call
      BY <1>0, <1>5, NoZero DEF Placeholder, Serve, ShapeInv
    <3>3. ASSUME NEW n \in DOMAIN worker'[v].inbox, worker'[v].inbox[n] # Placeholder
          PROVE  /\ worker'[v].inbox[n] = worker'[v].pending
                 /\ call'[worker'[v].inbox[n]].step = "posted"
                 /\ \A m \in DOMAIN worker'[v].inbox : worker'[v].inbox[m] # Placeholder => m = n
      <4>1. /\ worker'[v].inbox = Tail(worker[w].inbox) /\ worker'[v].pending = worker[w].pending
            /\ call' = call
        BY <1>4, <2>5, <3>1, <3>2, <3>3
      <4>2. n + 1 \in DOMAIN worker[w].inbox /\ worker[w].inbox[n + 1] = worker'[v].inbox[n]
        BY <1>2, <3>3, <4>1
      <4>3. \A m \in DOMAIN worker'[v].inbox : worker'[v].inbox[m] # Placeholder => m + 1 = n + 1
        BY <1>1, <1>2, <3>3, <4>1, <4>2 DEF WorkerInv
      <4>4. DOMAIN worker'[v].inbox \subseteq Nat
        BY <1>2, <4>1
      <4>5. \A m \in DOMAIN worker'[v].inbox : worker'[v].inbox[m] # Placeholder => m = n
        BY <3>3, <4>3, <4>4
      <4> QED
        BY <1>1, <3>3, <4>1, <4>2, <4>5 DEF WorkerInv
    <3> QED
      BY <2>2, <2>3, <2>4, <3>3 DEF WorkerInv
  <2>6. CASE v # w
    <3>1. worker[v].pending # 0 => worker[v].pending # h
      BY <1>6, <2>1, <2>6 DEF WorkerInv
    <3>2. Calm(v)
      BY <1>4, <1>5, <1>10, <2>1, <2>6, <3>1 DEF Calm
    <3> QED
      BY <1>0, <1>3, <1>10, <2>1, <2>2, <3>2, CalmKeeps
  <2> QED
    BY <2>5, <2>6
<1>11. ASSUME NEW j \in Calls PROVE CallInv(j)'
  <2>1. SUFFICES ASSUME call'[j].step \in Waiting PROVE CallInv(j)'
    BY DEF CallInv
  <2>2. CallInv(j) /\ call[j].step \in Waiting /\ call[j].worker \in Workers
    BY <1>0, <1>7, <1>11, <2>1 DEF CallInv
  <2>3. call'[j].step \in {"posted", "accepted"} => worker'[call[j].worker].pending = j
    BY <1>4, <1>5, <1>6, <1>11, <2>2, NoZero DEF CallInv
  <2> QED
    BY <1>3, <1>4, <1>5, <1>11, <2>2, <2>3 DEF CallInv, Running, session
<1> QED
  BY <1>8, <1>9, <1>10, <1>11 DEF CoreInv

(* The worker an installation made is withdrawn.                           *)
LEMMA Withdraws ==
  ASSUME IInv, NEW k \in Calls \cup {0}, Withdraw(k), UNCHANGED <<active, captured>>,
         request.started, request.step \in {"creating", "setting"},
         k = 0 => request.step = "creating",
         k # 0 => Requesting(k)
  PROVE  CoreInv'
<1>0. ShapeInv /\ RequestInv /\ OneCall /\ \A j \in Calls : CallInv(j)
  BY DEF IInv, CoreInv
<1>1. request.worker \in Workers /\ video = 0
  BY <1>0 DEF RequestInv
<1>2. \A j \in Calls : Requesting(j) => j = k
  BY <1>0 DEF OneCall, CallInv, Requesting
<1>3. k # 0 => call[k].worker = request.worker
  BY <1>0 DEF CallInv, Requesting
<1> QED
  BY <1>1, <1>2, <1>3, Closes DEF Withdraw

(* The worker that was withdrawn has ended.                                *)
LEMMA Ends ==
  ASSUME IInv, request.step = "closing", request' = NoRequest, server' = FALSE,
         UNCHANGED <<active, captured, video, worker, call, clones>>
  PROVE  CoreInv'
<1>0. /\ ShapeInv /\ RequestInv /\ OneCall /\ ClonesInv
      /\ \A v \in Workers : WorkerInv(v)
      /\ \A j \in Calls : CallInv(j)
  BY DEF IInv, CoreInv
<1>1. NoRequest \in Requests /\ NoRequest.step = "none" /\ NoRequest.worker = 0 /\ ~NoRequest.started
  BY DEF NoRequest, Requests
<1>2. video = 0 /\ \A v \in Workers : ~Running(v)
  BY <1>0, NoZero DEF RequestInv, WorkerInv
<1>3. ShapeInv' /\ RequestInv' /\ OneCall' /\ ClonesInv' /\ ServerInStep'
  BY <1>0, <1>1, <1>2 DEF ShapeInv, RequestInv, OneCall, Requesting, ClonesInv, Tended, ServerInStep
<1>4. ASSUME NEW v \in Workers PROVE WorkerInv(v)'
  BY <1>0, <1>2, <1>4 DEF WorkerInv, Running
<1>5. ASSUME NEW j \in Calls PROVE CallInv(j)'
  BY <1>0, <1>5 DEF CallInv, Running
<1> QED
  BY <1>3, <1>4, <1>5 DEF CoreInv

(* An installation that failed gives up what it had.                       *)
LEMMA GivesUp ==
  ASSUME IInv, NEW k \in Calls \cup {0}, GiveUp(k), UNCHANGED <<active, captured>>,
         k = 0 => request.step = "closing",
         k # 0 => call[k].step = "rejected" /\ call[k].kind = "install"
  PROVE  CoreInv'
<1>0. /\ ShapeInv /\ RequestInv /\ OneCall
      /\ \A j \in Calls : CallInv(j)
  BY DEF IInv, CoreInv
<1>1. request' = NoRequest
  BY DEF GiveUp
<1>2. CASE k = 0
  <2>1. video = 0 /\ request.started
    BY <1>0, <1>2 DEF RequestInv
  <2>2. call' = Settled(0, 0) /\ clones' = clones \ {0} /\ server' = (server /\ ~request.started)
        /\ UNCHANGED <<video, worker>>
    BY <1>2, <2>1 DEF GiveUp
  <2>3. call' = call /\ clones' = clones /\ server' = FALSE
    BY <1>0, <2>1, <2>2, NoZero DEF Settled, ShapeInv
  <2> QED
    BY <1>1, <1>2, <2>2, <2>3, Ends
<1>3. CASE k # 0
  <2>1. CallInv(k) /\ Requesting(k) /\ call[k].step = "rejected" /\ k \in Calls
    BY <1>0, <1>3 DEF Requesting, Waiting
  <2>2. ~request.started /\ \A j \in Calls : Requesting(j) => j = k
    BY <1>0, <1>3, <2>1 DEF CallInv, Requesting, OneCall
  <2>3. CASE video # 0 /\ worker[video].source = request.source
    <3>1. Close(video, k) /\ video' = 0 /\ server' = FALSE /\ video \in Workers
      BY <1>0, <2>3 DEF GiveUp, StopVideo, ShapeInv
    <3> QED
      BY <1>1, <2>1, <2>2, <3>1, Closes
  <2>4. CASE ~(video # 0 /\ worker[video].source = request.source)
    <3>1. /\ call' = Settled(k, 0) /\ clones' = clones \ {k} /\ UNCHANGED <<video, worker>>
          /\ server' = (server /\ ~request.started)
      BY <2>4 DEF GiveUp
    <3>2. server' = server
      BY <1>0, <2>2, <3>1 DEF ShapeInv
    <3> QED
      BY <1>1, <2>1, <2>2, <3>1, <3>2, Settles
  <2> QED
    BY <2>3, <2>4
<1> QED
  BY <1>2, <1>3

(* A timer is stopped.                                                     *)
LEMMA Ticks ==
  ASSUME IInv, NEW w \in Workers, worker' = [worker EXCEPT ![w].timer = FALSE],
         UNCHANGED <<active, captured, video, server, call, clones, request>>
  PROVE  CoreInv'
<1>0. /\ ShapeInv /\ RequestInv /\ OneCall /\ ClonesInv /\ ServerInStep
      /\ \A v \in Workers : WorkerInv(v)
      /\ \A j \in Calls : CallInv(j)
  BY DEF IInv, CoreInv
<1>1. /\ worker' \in [Workers -> WorkerStates]
      /\ \A v \in Workers :
           /\ worker'[v].state = worker[v].state /\ worker'[v].pending = worker[v].pending
           /\ worker'[v].inbox = worker[v].inbox /\ worker'[v].feed = worker[v].feed
  BY <1>0, TimerStopped
<1>2. \A v \in Workers : Running(v)' = Running(v)
  BY <1>1 DEF Running
<1>3. ShapeInv' /\ OneCall' /\ ServerInStep'
  BY <1>0, <1>1 DEF ShapeInv, OneCall, Requesting, ServerInStep
<1>4. RequestInv' /\ ClonesInv'
  <2>1. request.worker # 0 => (Running(request.worker)' <=> Running(request.worker))
    BY <1>0, <1>2 DEF ShapeInv, Requests
  <2>2. video # 0 => worker'[video].state = worker[video].state
    BY <1>0, <1>1 DEF ShapeInv
  <2>3. video # 0 => worker'[video].feed = worker[video].feed
    BY <1>0, <1>1 DEF ShapeInv
  <2> QED
    BY <1>0, <2>1, <2>2, <2>3, NoZero DEF RequestInv, ClonesInv, Tended
<1>5. ASSUME NEW v \in Workers PROVE WorkerInv(v)'
  BY <1>0, <1>1, <1>2, <1>5 DEF WorkerInv
<1>6. ASSUME NEW j \in Calls PROVE CallInv(j)'
  BY <1>0, <1>1, <1>2, <1>6 DEF CallInv
<1> QED
  BY <1>3, <1>4, <1>5, <1>6 DEF CoreInv

(* A session without a video is over.                                      *)
LEMMA Ceases ==
  ASSUME IInv, ~active', server' = FALSE,
         UNCHANGED <<captured, video, worker, call, clones, request>>
  PROVE  CoreInv'
<1>0. /\ ShapeInv /\ RequestInv /\ OneCall /\ ClonesInv
      /\ \A v \in Workers : WorkerInv(v)
      /\ \A j \in Calls : CallInv(j)
  BY DEF IInv, CoreInv
<1>1. ShapeInv' /\ RequestInv' /\ OneCall' /\ ClonesInv' /\ ServerInStep'
  BY <1>0 DEF ShapeInv, RequestInv, Running, OneCall, Requesting, ClonesInv, Tended, ServerInStep
<1>2. ASSUME NEW v \in Workers PROVE WorkerInv(v)'
  BY <1>0, <1>2 DEF WorkerInv, Running
<1>3. ASSUME NEW j \in Calls PROVE CallInv(j)'
  BY <1>0, <1>3 DEF CallInv, Running
<1> QED
  BY <1>1, <1>2, <1>3 DEF CoreInv

(* A call is posted, or rejected because its worker closed or is busy.     *)
LEMMA ConstrainedKeeps == ASSUME IInv, NEW c \in Calls, Constrained(c) PROVE CoreInv'
<1> DEFINE w == call[c].worker
           free == worker[w].state = "ready" /\ worker[w].pending = 0
<1>0. /\ w \in Workers /\ call[c].step = "constraining"
      /\ ShapeInv /\ RequestInv /\ OneCall /\ ClonesInv /\ ServerInStep
      /\ \A v \in Workers : WorkerInv(v)
      /\ \A k \in Calls : CallInv(k)
  BY DEF Constrained, IInv, CoreInv, CallInv, Waiting
<1>1. UNCHANGED <<session, captured, hidden, live, clones, request>>
  BY DEF Constrained
<1>2. /\ \A k \in Calls : /\ call'[k] \in CallStates
                          /\ call'[k].worker = call[k].worker /\ call'[k].kind = call[k].kind
                          /\ call'[k].source = call[k].source
                          /\ k # c => call'[k].step = call[k].step
      /\ call' \in [Calls -> CallStates]
      /\ call'[c].step = IF free THEN "posted" ELSE "rejected"
  BY <1>0 DEF Constrained, ShapeInv, CallStates, Waiting
<1>3. /\ worker' \in [Workers -> WorkerStates]
      /\ \A v \in Workers :
           /\ worker'[v].state = worker[v].state /\ worker'[v].feed = worker[v].feed
           /\ v # w \/ ~free => worker'[v].pending = worker[v].pending /\ worker'[v].inbox = worker[v].inbox
      /\ free => worker'[w].pending = c /\ worker'[w].inbox = Append(worker[w].inbox, c)
  <2>1. CASE free
    <3>1. worker' = [worker EXCEPT ![w].pending = c, ![w].inbox = Append(@, c)]
      BY <2>1 DEF Constrained
    <3>2. worker[w] \in WorkerStates /\ Append(worker[w].inbox, c) \in Seq(Calls \cup {Placeholder})
      BY <1>0 DEF ShapeInv, WorkerStates
    <3> QED
      BY <1>0, <2>1, <3>1, <3>2 DEF ShapeInv, WorkerStates
  <2>2. CASE ~free
    BY <1>0, <2>2 DEF Constrained, ShapeInv, WorkerStates
  <2> QED
    BY <2>1, <2>2
<1>4. ShapeInv'
  BY <1>0, <1>1, <1>2, <1>3 DEF ShapeInv, session
<1>5. RequestInv' /\ OneCall' /\ ServerInStep'
  BY <1>0, <1>1, <1>2, <1>3 DEF session, RequestInv, OneCall, Requesting, ServerInStep, Running, Waiting, ShapeInv, Requests
<1>6. ASSUME NEW v \in Workers PROVE WorkerInv(v)'
  <2>1. /\ WorkerInv(v) /\ worker[v].pending \in Calls \cup {0}
        /\ worker[v].inbox \in Seq(Calls \cup {Placeholder})
    BY <1>0 DEF ShapeInv, WorkerStates
  <2>2. CASE v = w /\ free
    <3>1. \A n \in DOMAIN worker[v].inbox : worker[v].inbox[n] = Placeholder
      BY <1>0, <2>1, <2>2, NoZero DEF WorkerInv, Placeholder
    <3>2. /\ DOMAIN worker'[v].inbox = 1 .. Len(worker[v].inbox) + 1
          /\ worker'[v].inbox[Len(worker[v].inbox) + 1] = c
          /\ \A n \in 1 .. Len(worker[v].inbox) : worker'[v].inbox[n] = Placeholder
      BY <1>3, <2>1, <2>2, <3>1
    <3>3. Running(v)' = Running(v)
      BY <1>3 DEF Running
    <3>4. Running(v)' => v \in {video', request'.worker}
      BY <1>1, <2>1, <3>3 DEF session, WorkerInv
    <3>5. /\ worker'[v].state = "ready" /\ worker'[v].pending = c
          /\ call'[c].worker = v /\ call'[c].step = "posted"
      BY <1>2, <1>3, <2>2
    <3>6. \A n \in DOMAIN worker'[v].inbox :
            worker'[v].inbox[n] # Placeholder => n = Len(worker[v].inbox) + 1 /\ worker'[v].inbox[n] = c
      BY <3>2
    <3> QED
      BY <3>4, <3>5, <3>6 DEF WorkerInv
  <2>3. CASE ~(v = w /\ free)
    BY <1>0, <1>1, <1>2, <1>3, <2>1, <2>3 DEF session, WorkerInv, Running, Waiting
  <2> QED
    BY <2>2, <2>3
<1>7. ASSUME NEW k \in Calls PROVE CallInv(k)'
  BY <1>0, <1>1, <1>2, <1>3, <1>7, NoZero DEF session, CallInv, Running, Waiting
<1>8. ClonesInv'
  BY <1>0, <1>1, <1>2, <1>3 DEF session, ClonesInv, Tended, Waiting, ShapeInv
<1> QED
  BY <1>4, <1>5, <1>6, <1>7, <1>8 DEF CoreInv

(* The steps of a request.                                                 *)

LEMMA NoRequestIdle == NoRequest \in Idle /\ [NoRequest EXCEPT !.step = "capturing"] \in Idle
BY DEF NoRequest, Idle

LEMMA IdleRequest == ASSUME IInv, request.step \in {"none", "capturing"} PROVE request \in Idle
BY DEF IInv, CoreInv, ShapeInv, RequestInv, Requests, Idle

LEMMA DisposeMoves ==
  ASSUME NEW s, Dispose(s), UNCHANGED video
  PROVE  /\ live' = live \ {s}
         /\ \/ UNCHANGED <<worker, clones>>
            \/ video # 0 /\ \E z \in Nat, timer \in BOOLEAN : ShowPlaceholder(z, timer)
<1>1. CASE s # 0 /\ video # 0 /\ worker[video].source = s
  <2>1. ShowPlaceholder(0, TRUE)
    BY <1>1 DEF Dispose
  <2> QED
    BY <1>1, <2>1 DEF Dispose
<1>2. CASE ~(s # 0 /\ video # 0 /\ worker[video].source = s)
  BY <1>2 DEF Dispose
<1> QED
  BY <1>1, <1>2

LEMMA InstallVideoKeeps == ASSUME IInv, InstallVideo PROVE IInv'
<1> DEFINE s == captured + 1
<1>1. /\ request.step = "capturing" /\ captured \in Nat /\ current \in Nat /\ s \in Nat
      /\ ShapeInv
  BY DEF InstallVideo, IInv, CoreInv, CaptureInv, Sources
<1>2. /\ captured' = s /\ current' = s /\ screen' = FALSE /\ live' = live \cup {s}
      /\ captured < MaxSources /\ UNCHANGED <<active, video, hidden>>
  BY DEF InstallVideo
<1>3. CaptureInv'
  <2>1. CaptureInv
    BY DEF IInv
  <2>2. s \in 0 .. MaxSources /\ s \in 1 .. s /\ s \in 0 .. s /\ 1 .. captured \subseteq 1 .. s
    BY <1>1, <1>2, SourceAssumption
  <2>3. hidden \subseteq 1 .. s /\ live \cup {s} \subseteq 1 .. s
    BY <2>1, <2>2 DEF CaptureInv
  <2>4. active \in BOOLEAN
    BY <2>1 DEF CaptureInv
  <2> QED
    BY <1>2, <2>2, <2>3, <2>4 DEF CaptureInv
<1>4. CASE video # 0
  <2>1. PICK k \in Calls : CallSource(k, "install", s, video)
    BY <1>4 DEF InstallVideo
  <2>2. /\ worker' = [worker EXCEPT ![video].timer = FALSE] /\ server' = server
        /\ request' = [step |-> "setting", source |-> s, worker |-> video, previous |-> current,
                       started |-> FALSE]
    BY <1>4 DEF InstallVideo
  <2>3. video \in Workers /\ request' \in Requests
    BY <1>1, <1>4, <2>2 DEF ShapeInv, Requests
  <2>4. CoreInv'
    BY <1>1, <1>2, <2>1, <2>2, <2>3, Calling
  <2> QED
    BY <1>3, <2>4 DEF IInv
<1>5. CASE video = 0
  <2>1. PICK w \in Workers :
          /\ worker[w].state = "unused"
          /\ worker' = [worker EXCEPT ![w] = [Unmade EXCEPT !.state = "loading", !.maker = s]]
          /\ request' = [step |-> "creating", source |-> s, worker |-> w, previous |-> current,
                         started |-> TRUE]
    BY <1>5 DEF InstallVideo
  <2>2. UNCHANGED <<call, clones>> /\ server' = TRUE
    BY <1>5 DEF InstallVideo
  <2>3. request' \in Requests
    BY <1>1, <2>1 DEF Requests
  <2>4. CoreInv'
    BY <1>1, <1>2, <1>5, <2>1, <2>2, <2>3, Making
  <2> QED
    BY <1>3, <2>4 DEF IInv
<1> QED
  BY <1>4, <1>5

LEMMA GiveUpCaptures ==
  ASSUME CaptureInv, NEW k, GiveUp(k), UNCHANGED <<active, screen, captured, hidden>>
  PROVE  CaptureInv'
<1>1. live' \subseteq live /\ current' \in {0, current}
  BY DEF GiveUp
<1> QED
  BY <1>1, SourceAssumption DEF CaptureInv

LEMMA WithdrawCaptures ==
  ASSUME CaptureInv, NEW k, Withdraw(k), UNCHANGED <<active, screen, captured, hidden>>
  PROVE  CaptureInv'
BY DEF Withdraw, CaptureInv

LEMMA WorkerReadyKeeps == ASSUME IInv, NEW w \in Workers, WorkerReady(w) PROVE IInv'
<1>1. /\ ShapeInv /\ CaptureInv /\ worker[w].state = "loading" /\ request.step = "creating"
      /\ request.started /\ UNCHANGED <<active, screen, captured, hidden>>
  BY DEF WorkerReady, IInv, CoreInv, WorkerInv
<1>2. CASE active
  <2>1. PICK k \in Calls : CallSource(k, "create", request.source, w)
    BY <1>2 DEF WorkerReady
  <2>2. /\ worker' = [worker EXCEPT ![w].state = "ready"]
        /\ request' = [request EXCEPT !.step = "setting"]
        /\ UNCHANGED <<current, video, server, live>>
    BY <1>2 DEF WorkerReady
  <2>3. request.source \in Nat /\ request' \in Requests
    BY <1>1, <2>2 DEF ShapeInv, Requests
  <2>4. CoreInv'
    BY <1>1, <2>1, <2>2, <2>3, Calling
  <2> QED
    BY <1>1, <2>2, <2>4 DEF IInv, CaptureInv
<1>3. CASE ~active
  <2>1. Withdraw(0)
    BY <1>3 DEF WorkerReady
  <2> QED
    BY <1>1, <2>1, Withdraws, WithdrawCaptures DEF IInv
<1> QED
  BY <1>2, <1>3

LEMMA ClosingKeeps ==
  ASSUME IInv, (\E w \in Workers : LoadFails(w)) \/ WorkerClosed
  PROVE  IInv'
<1>1. ASSUME NEW w \in Workers, LoadFails(w) PROVE IInv'
  <2>1. /\ CaptureInv /\ request.step = "creating" /\ request.started
        /\ Withdraw(0) /\ UNCHANGED <<active, screen, captured, hidden>>
    BY <1>1 DEF LoadFails, IInv, CoreInv, WorkerInv
  <2> QED
    BY <2>1, Withdraws, WithdrawCaptures DEF IInv
<1>2. CASE WorkerClosed
  <2>1. /\ CaptureInv /\ request.step = "closing"
        /\ GiveUp(0) /\ UNCHANGED <<active, screen, captured, hidden>>
    BY <1>2 DEF WorkerClosed, IInv
  <2> QED
    BY <2>1, GivesUp, GiveUpCaptures DEF IInv
<1> QED
  BY <1>1, <1>2

LEMMA SourceReadyKeeps == ASSUME IInv, NEW k \in Calls, SourceReady(k) PROVE IInv'
<1> DEFINE w == call[k].worker
           Fed == /\ worker' = [worker EXCEPT ![w].feed = k, ![w].pending = 0,
                                              ![w].source = call[k].source]
                  /\ clones' = clones \ {worker[w].feed}
                  /\ call' = Settled(k, 0)
<1>1. CaptureInv /\ call[k].step = "accepted" /\ UNCHANGED <<active, screen, captured, hidden>>
  BY DEF SourceReady, IInv
<1>2. \/ call[k].kind = "unhide" /\ Fed /\ UNCHANGED <<current, video, server, live, request>>
      \/ /\ call[k].kind = "install" /\ Fed /\ Installed(call[k].source)
         /\ UNCHANGED <<current, video, server>>
      \/ /\ call[k].kind = "create" /\ active /\ Fed /\ Installed(call[k].source) /\ video' = w
         /\ UNCHANGED <<current, server>>
      \/ call[k].kind = "create" /\ ~active /\ Withdraw(k)
  BY DEF SourceReady
<1>3. CASE ~Withdraw(k)
  <2>1. CoreInv'
    BY <1>1, <1>2, <1>3, Feeds DEF Installed
  <2>2. live' \subseteq live /\ current' = current
    BY <1>2, <1>3 DEF Installed
  <2> QED
    BY <1>1, <2>1, <2>2 DEF IInv, CaptureInv
<1>4. CASE call[k].kind = "create" /\ Withdraw(k)
  <2>1. Requesting(k) /\ k # 0 /\ CallInv(k)
    BY <1>1, <1>4, NoZero DEF Requesting, Waiting, IInv, CoreInv
  <2>2. request.started /\ request.step = "setting"
    BY <1>4, <2>1 DEF CallInv, Requesting
  <2> QED
    BY <1>1, <1>4, <2>1, <2>2, Withdraws, WithdrawCaptures DEF IInv
<1>5. CASE call[k].kind # "create"
  <2>1. CoreInv'
    BY <1>1, <1>2, <1>5, Feeds DEF Installed
  <2>2. live' \subseteq live /\ current' = current
    BY <1>2, <1>5 DEF Installed
  <2> QED
    BY <1>1, <2>1, <2>2 DEF IInv, CaptureInv
<1> QED
  BY <1>3, <1>4, <1>5

LEMMA SourceRejectedKeeps == ASSUME IInv, NEW k \in Calls, SourceRejected(k) PROVE IInv'
<1>1. /\ CaptureInv /\ CallInv(k) /\ call[k].step = "rejected" /\ call[k].step \in Waiting /\ k # 0
      /\ UNCHANGED <<active, screen, captured>>
  BY NoZero DEF SourceRejected, IInv, CoreInv, Waiting
<1>2. CASE call[k].kind = "unhide"
  <2>1. /\ call' = Settled(k, 0) /\ clones' = clones \ {k}
        /\ UNCHANGED <<current, video, server, live, worker, request>>
        /\ hidden' \subseteq hidden \cup {call[k].source}
    BY <1>2 DEF SourceRejected
  <2>2. CoreInv'
    BY <1>1, <1>2, <2>1, Settles
  <2> QED
    BY <1>1, <1>2, <2>1, <2>2 DEF IInv, CaptureInv, CallInv
<1>3. CASE call[k].kind = "install"
  <2>1. GiveUp(k) /\ hidden' = hidden
    BY <1>3 DEF SourceRejected
  <2> QED
    BY <1>1, <1>3, <2>1, GivesUp, GiveUpCaptures DEF IInv
<1>4. CASE call[k].kind = "create"
  <2>1. Withdraw(k) /\ hidden' = hidden /\ Requesting(k)
    BY <1>1, <1>4 DEF SourceRejected, Requesting
  <2>2. request.started /\ request.step = "setting"
    BY <1>1, <1>4 DEF CallInv
  <2> QED
    BY <1>1, <2>1, <2>2, Withdraws, WithdrawCaptures DEF IInv
<1> QED
  BY <1>2, <1>3, <1>4 DEF SourceRejected

LEMMA WorkerFailsKeeps == ASSUME IInv, NEW w \in Workers, WorkerFails(w) PROVE IInv'
<1>1. /\ CaptureInv /\ worker[w].state = "ready" /\ call' = Settled(0, worker[w].pending)
      /\ UNCHANGED <<active, screen, video, server, captured, hidden, request>>
      /\ current' \in {0, current} /\ live' \subseteq live
      /\ \/ worker' = [worker EXCEPT ![w] = Stopped(@)] /\ clones' = clones
         \/ /\ worker' = [worker EXCEPT ![w] = Covered(Stopped(@), 0, TRUE)]
            /\ clones' = clones \ {worker[w].feed} /\ video # 0
  BY DEF WorkerFails, IInv
<1>2. CoreInv'
  BY <1>1, Breaks
<1> QED
  BY <1>1, <1>2 DEF IInv, CaptureInv

(* The steps of the user, and time.                                        *)

LEMMA RemovalKeeps == ASSUME IInv, InstallScreen \/ RemoveVideo PROVE IInv'
<1>1. /\ UNCHANGED <<active, video, server, captured, hidden, call>>
      /\ current' = 0 /\ screen' \in BOOLEAN /\ Dispose(current)
      /\ Unrequested
  BY IdleRequest, NoRequestIdle DEF InstallScreen, RemoveVideo, Unrequested, IInv, CaptureInv
<1>2. CoreInv' /\ live' \subseteq live
  BY <1>1, DisposeMoves, Rests
<1> QED
  BY <1>1, <1>2, SourceAssumption DEF IInv, CaptureInv

LEMMA AskingKeeps == ASSUME IInv, Request \/ CaptureFails PROVE IInv'
<1>1. /\ UNCHANGED <<session, captured, hidden, live, clones, worker, call>> /\ Unrequested
  BY IdleRequest, NoRequestIdle DEF Request, CaptureFails, Unrequested
<1>2. CoreInv'
  BY <1>1, Rests DEF session
<1> QED
  BY <1>1, <1>2 DEF IInv, CaptureInv, session

LEMMA HideKeeps == ASSUME IInv, Hide PROVE IInv'
<1>1. /\ UNCHANGED <<session, captured, live, call, request>> /\ hidden' = hidden \cup {current}
      /\ current # 0 /\ CaptureInv
      /\ IF video # 0 THEN ShowPlaceholder(current, FALSE) ELSE UNCHANGED <<worker, clones>>
  BY DEF Hide, IInv
<1>2. current \in Nat /\ current \in 1 .. captured
  BY <1>1 DEF CaptureInv
<1>3. \/ UNCHANGED <<worker, clones>>
      \/ video # 0 /\ \E z \in Nat, timer \in BOOLEAN : ShowPlaceholder(z, timer)
  BY <1>1, <1>2
<1>4. CoreInv'
  BY <1>1, <1>3, Rests DEF session, Unrequested
<1> QED
  BY <1>1, <1>2, <1>4 DEF IInv, CaptureInv, session

LEMMA UnhideKeeps == ASSUME IInv, Unhide PROVE IInv'
<1>1. /\ UNCHANGED <<session, captured, live, request>> /\ hidden' \subseteq hidden
      /\ current \in hidden /\ CaptureInv /\ ShapeInv
  BY DEF Unhide, IInv, CoreInv
<1>2. CASE video = 0
  <2>1. UNCHANGED <<worker, call, clones>>
    BY <1>2 DEF Unhide
  <2>2. CoreInv'
    BY <1>1, <2>1, Rests DEF session, Unrequested
  <2> QED
    BY <1>1, <2>2 DEF IInv, CaptureInv, session
<1>3. CASE video # 0
  <2>1. PICK k \in Calls : CallSource(k, "unhide", current, video)
    BY <1>3 DEF Unhide
  <2>2. worker' = [worker EXCEPT ![video].timer = FALSE]
    BY <1>3 DEF Unhide
  <2>3. current \in 1 .. captured /\ current \in Nat /\ video \in Workers /\ request \in Requests
    BY <1>1, <1>3 DEF CaptureInv, ShapeInv
  <2>4. CoreInv'
    BY <1>1, <2>1, <2>2, <2>3, Calling DEF session
  <2> QED
    BY <1>1, <2>4 DEF IInv, CaptureInv, session
<1> QED
  BY <1>2, <1>3

(* A video is stopped by its timer, or because the session is over.        *)
LEMMA StoppingKeeps == ASSUME IInv, StopTimer \/ Cleanup PROVE IInv'
<1>1. /\ CaptureInv /\ ShapeInv /\ RequestInv
      /\ current' \in {0, current} /\ live' \subseteq live /\ active' \in BOOLEAN /\ screen' \in BOOLEAN
      /\ UNCHANGED <<captured, hidden, request>>
  BY DEF StopTimer, Cleanup, IInv, CoreInv, CaptureInv
<1>2. CaptureInv'
  BY <1>1, SourceAssumption DEF CaptureInv
<1>3. CASE StopVideo(0) /\ video # 0
  <2>1. video \in Workers /\ ~request.started
    BY <1>1, <1>3 DEF ShapeInv, RequestInv
  <2>2. CoreInv'
    BY <1>1, <1>3, <2>1, Closes DEF StopVideo
  <2> QED
    BY <1>2, <2>2 DEF IInv
<1>4. CASE StopTimer /\ current # 0
  <2>1. /\ UNCHANGED <<active, video, server, call, clones>>
        /\ worker' = [worker EXCEPT ![video].timer = FALSE] /\ video \in Workers
    BY <1>1, <1>4 DEF StopTimer, ShapeInv
  <2>2. CoreInv'
    BY <1>1, <2>1, Ticks
  <2> QED
    BY <1>2, <2>2 DEF IInv
<1>5. CASE Cleanup /\ video = 0
  <2>1. ~active' /\ UNCHANGED <<video, worker, call, clones>> /\ server' = FALSE
    BY <1>5 DEF Cleanup
  <2>2. CoreInv'
    BY <1>1, <2>1, Ceases
  <2> QED
    BY <1>2, <2>2 DEF IInv
<1> QED
  BY <1>3, <1>4, <1>5 DEF StopTimer, Cleanup

LEMMA Steps == IInv /\ [Next]_vars => IInv'
<1> SUFFICES ASSUME IInv, [Next]_vars PROVE IInv'
  OBVIOUS
<1>1. CASE Request \/ CaptureFails
  BY <1>1, AskingKeeps
<1>2. CASE InstallScreen \/ RemoveVideo
  BY <1>2, RemovalKeeps
<1>3. CASE InstallVideo
  BY <1>3, InstallVideoKeeps
<1>4. CASE Hide
  BY <1>4, HideKeeps
<1>5. CASE Unhide
  BY <1>5, UnhideKeeps
<1>6. CASE StopTimer \/ Cleanup
  BY <1>6, StoppingKeeps
<1>7. ASSUME NEW w \in Workers, WorkerReady(w) PROVE IInv'
  BY <1>7, WorkerReadyKeeps
<1>8. ASSUME NEW w \in Workers, Serve(w) PROVE IInv'
  <2>1. UNCHANGED <<session, captured, hidden, live>>
    BY <1>8 DEF Serve
  <2> QED
    BY <1>8, <2>1, ServeKeeps DEF IInv, CaptureInv, session
<1>9. ASSUME NEW w \in Workers, WorkerFails(w) PROVE IInv'
  BY <1>9, WorkerFailsKeeps
<1>10. ASSUME NEW k \in Calls, Constrained(k) PROVE IInv'
  <2>1. UNCHANGED <<session, captured, hidden, live>>
    BY <1>10 DEF Constrained
  <2> QED
    BY <1>10, <2>1, ConstrainedKeeps DEF IInv, CaptureInv, session
<1>11. ASSUME NEW k \in Calls, SourceReady(k) PROVE IInv'
  BY <1>11, SourceReadyKeeps
<1>12. ASSUME NEW k \in Calls, SourceRejected(k) PROVE IInv'
  BY <1>12, SourceRejectedKeeps
<1>13. CASE (\E w \in Workers : LoadFails(w)) \/ WorkerClosed
  BY <1>13, ClosingKeeps
<1>14. CASE UNCHANGED vars
  <2>1. CoreInv'
    BY <1>14, Rests DEF vars, session, Unrequested
  <2> QED
    BY <1>14, <2>1 DEF IInv, CaptureInv, vars, session
<1> QED
  BY <1>1, <1>2, <1>3, <1>4, <1>5, <1>6, <1>7, <1>8, <1>9, <1>10, <1>11, <1>12, <1>13, <1>14 DEF Next

LEMMA Invariance == Spec => []IInv
BY Initially, Steps, PTL DEF Spec
-----------------------------------------------------------------------------
(* Every variable has its type: the sources hidden and those whose stream  *)
(* runs were captured, and a worker's messages are calls and placeholders. *)
THEOREM TypeCorrect == Spec => []TypeOK
<1>1. IInv => TypeOK
  <2> SUFFICES ASSUME IInv PROVE TypeOK
    OBVIOUS
  <2>1. \A w \in Workers :
          /\ worker[w].state \in {"unused", "loading", "ready", "closed"}
          /\ {worker[w].feed, worker[w].pending, worker[w].shows} \subseteq Calls \cup {0}
          /\ worker[w].inbox \in Seq(Calls \cup {Placeholder})
    BY DEF IInv, CoreInv, ShapeInv, WorkerStates
  <2>2. \A k \in Calls : call[k].step \in Waiting \cup {"none", "done"}
    BY DEF IInv, CoreInv, ShapeInv, CallStates
  <2>3. request.step \in {"none", "capturing", "creating", "setting", "closing"}
    BY DEF IInv, CoreInv, ShapeInv, Requests
  <2>4. current \in Sources \cup {0}
    BY SourceAssumption DEF IInv, CaptureInv, Sources
  <2> QED
    BY <2>1, <2>2, <2>3, <2>4 DEF TypeOK, IInv, CoreInv, CaptureInv, ShapeInv
<1> QED
  BY Invariance, <1>1, PTL

(* However calls of setSource, failures, replacements and the end of the   *)
(* session follow one another, every running worker and every running      *)
(* clone of a track belongs to the session's video or to a call that is    *)
(* still to settle: nothing keeps a camera or a worker alive.              *)
THEOREM NothingIsLeft == Spec => []NothingStray
<1>1. IInv => NothingStray
  BY DEF IInv, CoreInv, WorkerInv, ClonesInv, Tended, NothingStray
<1> QED
  BY Invariance, <1>1, PTL

(* The server was told of a video just when the session has one or is      *)
(* making one.                                                             *)
THEOREM ServerKnows == Spec => []ServerInStep
<1>1. IInv => ServerInStep
  BY DEF IInv, CoreInv
<1> QED
  BY Invariance, <1>1, PTL
=============================================================================
