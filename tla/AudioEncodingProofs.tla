------------------------ MODULE AudioEncodingProofs ------------------------
(***************************************************************************)
(* Proofs about AudioEncoding: over any number of encoders exchanged while *)
(* a session captures, fails or stops, no worker is left behind, the worker *)
(* never holds more blocks than the limit, packets go out in the order of  *)
(* capture and every block is accounted for.                               *)
(***************************************************************************)
EXTENDS AudioEncoding, Integers, FiniteSetTheorems, FunctionTheorems, SequenceTheorems, TLAPS

-----------------------------------------------------------------------------
(* Sequences and the blocks counted in them.                               *)

(* The elements of a set of positions are counted as well one place down.  *)
LEMMA Shift ==
  ASSUME NEW S \in SUBSET Int, IsFiniteSet(S), NEW T \in SUBSET Int,
         \A n \in S : n - 1 \in T, \A n \in T : n + 1 \in S
  PROVE  IsFiniteSet(T) /\ Cardinality(T) = Cardinality(S)
<1> DEFINE f == [n \in S |-> n - 1]
<1>1. f \in [S -> T]
  OBVIOUS
<1>2. \A a, b \in S : f[a] = f[b] => a = b
  OBVIOUS
<1>3. \A t \in T : \E s \in S : f[s] = t
  <2> SUFFICES ASSUME NEW t \in T PROVE \E s \in S : f[s] = t
    OBVIOUS
  <2>1. t + 1 \in S /\ f[t + 1] = t
    OBVIOUS
  <2> QED
    BY <2>1
<1>4. f \in Bijection(S, T)
  <2> HIDE DEF f
  <2> QED
    BY <1>1, <1>2, <1>3, Fun_IsBij
<1>5. ExistsBijection(S, T)
  BY <1>4, Fun_ExistsBij
<1> QED
  BY <1>5, FS_Bijection

(* The elements of a sequence that is cut at its head, or appended to.     *)
LEMMA TailElements ==
  ASSUME NEW S, NEW q \in Seq(S), q # <<>>
  PROVE  /\ Tail(q) \in Seq(S) /\ Len(Tail(q)) = Len(q) - 1 /\ Len(q) \in Nat
         /\ 1 \in DOMAIN q /\ q[1] = Head(q) /\ Head(q) \in S
         /\ Len(q) = 1 <=> Tail(q) = <<>>
         /\ \A n \in DOMAIN Tail(q) : /\ n \in Nat /\ n + 1 \in DOMAIN q /\ Tail(q)[n] = q[n + 1]
                                      /\ n + 1 = Len(q) <=> n = Len(Tail(q))
<1>1. /\ Tail(q) \in Seq(S) /\ Len(Tail(q)) = Len(q) - 1 /\ Len(q) \in Nat
      /\ 1 \in DOMAIN q /\ q[1] = Head(q) /\ Head(q) \in S
  OBVIOUS
<1>2. Len(q) = 1 <=> Tail(q) = <<>>
  <2>1. \A r \in Seq(S) : r # <<>> => Len(r) \in Nat \ {0}
    BY EmptySeq
  <2>2. CASE Tail(q) = <<>>
    <3>1. Len(Tail(q)) = 0
      <4>1. Len(<<>>) = 0
        OBVIOUS
      <4> QED
        BY <2>2, <4>1, Zenon
    <3> QED
      BY <1>1, <2>2, <3>1
  <2>3. CASE Tail(q) # <<>>
    <3>1. Len(Tail(q)) \in Nat \ {0}
      BY <1>1, <2>1, <2>3
    <3> QED
      BY <1>1, <2>3, <3>1
  <2> QED
    BY <2>2, <2>3
<1>3. \A n \in DOMAIN Tail(q) : /\ n \in Nat /\ n + 1 \in DOMAIN q /\ Tail(q)[n] = q[n + 1]
                                 /\ n + 1 = Len(q) <=> n = Len(Tail(q))
  BY <1>1
<1> QED
  BY <1>1, <1>2, <1>3

LEMMA AppendElements ==
  ASSUME NEW S, NEW q \in Seq(S), NEW x \in S
  PROVE  /\ Append(q, x) \in Seq(S) /\ Len(Append(q, x)) = Len(q) + 1 /\ Len(q) \in Nat
         /\ DOMAIN Append(q, x) = 1 .. Len(q) + 1 /\ DOMAIN q = 1 .. Len(q)
         /\ Append(q, x)[Len(q) + 1] = x
         /\ \A n \in DOMAIN q : Append(q, x)[n] = q[n]
         /\ \A n \in DOMAIN Append(q, x) : n \in DOMAIN q \/ n = Len(q) + 1
OBVIOUS

Items == Blocks \cup {Flush}

Places(q) == {n \in DOMAIN q : q[n] # Flush}

LEMMA PlacesFinite ==
  ASSUME NEW q \in Seq(Items)
  PROVE  /\ IsFiniteSet(Places(q)) /\ Places(q) \in SUBSET Int
         /\ Queued(q) = Cardinality(Places(q)) /\ Queued(q) \in Nat
<1>1. Places(q) \in SUBSET (1 .. Len(q)) /\ Len(q) \in Nat
  BY DEF Places
<1>2. IsFiniteSet(Places(q))
  <2>1. IsFiniteSet(1 .. Len(q))
    BY <1>1, FS_Interval
  <2> QED
    BY <1>1, <2>1, FS_Subset
<1>3. Queued(q) = Cardinality(Places(q))
  BY DEF Places, Queued
<1> QED
  BY <1>1, <1>2, <1>3, FS_CardinalityType

LEMMA QueuedEmpty == Queued(<<>>) = 0
<1>1. {n \in DOMAIN <<>> : <<>>[n] # Flush} = {}
  OBVIOUS
<1> QED
  BY <1>1, FS_EmptySet DEF Queued

LEMMA QueuedAppend ==
  ASSUME NEW q \in Seq(Items), NEW x \in Items
  PROVE  Queued(Append(q, x)) = IF x = Flush THEN Queued(q) ELSE Queued(q) + 1
<1> DEFINE l == Len(q) + 1
<1>0. Append(q, x) \in Seq(Items)
  OBVIOUS
<1>1. Places(Append(q, x)) = IF x = Flush THEN Places(q) ELSE Places(q) \cup {l}
  BY DEF Places
<1>2. l \notin Places(q)
  BY DEF Places
<1>3. Cardinality(Places(q) \cup {l}) = Cardinality(Places(q)) + 1
  <2> HIDE DEF l
  <2> QED
    BY <1>2, PlacesFinite, FS_AddElement
<1> QED
  BY <1>0, <1>1, <1>3, PlacesFinite

LEMMA QueuedTail ==
  ASSUME NEW q \in Seq(Items), q # <<>>
  PROVE  Queued(q) = IF Head(q) = Flush THEN Queued(Tail(q)) ELSE Queued(Tail(q)) + 1
<1> DEFINE S == Places(q) \ {1}
<1>0. Tail(q) \in Seq(Items)
  OBVIOUS
<1>1. \A n \in S : n - 1 \in Places(Tail(q))
  BY DEF Places
<1>2. \A n \in Places(Tail(q)) : n + 1 \in S
  BY DEF Places
<1>3. /\ IsFiniteSet(S) /\ S \in SUBSET Int
      /\ Cardinality(S) = IF 1 \in Places(q) THEN Cardinality(Places(q)) - 1
                          ELSE Cardinality(Places(q))
  BY PlacesFinite, FS_RemoveElement
<1>4. Cardinality(Places(Tail(q))) = Cardinality(S)
  <2> HIDE DEF S
  <2> QED
    BY <1>0, <1>1, <1>2, <1>3, PlacesFinite, Shift
<1>5. 1 \in Places(q) <=> Head(q) # Flush
  BY DEF Places
<1>6. Queued(q) = Cardinality(Places(q)) /\ Queued(q) \in Nat
  BY PlacesFinite
<1>7. Queued(Tail(q)) = Cardinality(Places(Tail(q)))
  BY <1>0, PlacesFinite
<1> QED
  BY <1>3, <1>4, <1>5, <1>6, <1>7

LEMMA QueuedConcat ==
  ASSUME NEW q \in Seq(Items), NEW r \in Seq(Items)
  PROVE  Queued(q \o r) <= Queued(q) + Len(r)
<1> DEFINE I == Len(q) + 1 .. Len(q) + Len(r)
<1>0. q \o r \in Seq(Items)
  OBVIOUS
<1>1. Places(q \o r) \in SUBSET (Places(q) \cup I)
  BY DEF Places
<1>a. Len(q) \in Nat /\ Len(r) \in Nat
  OBVIOUS
<1>2. IsFiniteSet(I) /\ Cardinality(I) = Len(r)
  <2> DEFINE a == Len(q) + 1
             b == Len(q) + Len(r)
  <2>1. a \in Int /\ b \in Int /\ I = a .. b /\ (IF a > b THEN 0 ELSE b - a + 1) = Len(r)
    BY <1>a
  <2> HIDE DEF a, b, I
  <2>2. IsFiniteSet(a .. b) /\ Cardinality(a .. b) = IF a > b THEN 0 ELSE b - a + 1
    BY <2>1, FS_Interval
  <2> QED
    BY <2>1, <2>2
<1>3. /\ IsFiniteSet(Places(q) \cup I)
      /\ Cardinality(Places(q) \cup I) <= Cardinality(Places(q)) + Cardinality(I)
  <2> HIDE DEF I
  <2>1. IsFiniteSet(Places(q)) /\ Cardinality(Places(q)) \in Nat
    BY PlacesFinite
  <2>2. IsFiniteSet(Places(q) \cap I)
    BY <2>1, FS_Subset
  <2>3. Cardinality(Places(q) \cap I) \in Nat
    BY <2>2, FS_CardinalityType
  <2>4. /\ IsFiniteSet(Places(q) \cup I)
        /\ Cardinality(Places(q) \cup I) =
             Cardinality(Places(q)) + Cardinality(I) - Cardinality(Places(q) \cap I)
    BY <1>2, <2>1, FS_Union
  <2> QED
    BY <1>a, <1>2, <2>1, <2>3, <2>4
<1>4. Cardinality(Places(q \o r)) <= Cardinality(Places(q) \cup I)
  BY <1>1, <1>3, FS_Subset
<1>5. Queued(q \o r) = Cardinality(Places(q \o r)) /\ Queued(q \o r) \in Nat
  BY <1>0, PlacesFinite
<1>6. Queued(q) = Cardinality(Places(q)) /\ Queued(q) \in Nat
  BY PlacesFinite
<1>7. Cardinality(Places(q) \cup I) \in Nat
  BY <1>3, FS_CardinalityType
<1> QED
  BY <1>a, <1>2, <1>3, <1>4, <1>5, <1>6, <1>7

(* What a message may be: a packet has a block.                            *)
Sound == {m \in Messages : m.type = "packet" => m.block # 0}

(* The acknowledgements after the n-th message.                            *)
After(outbox, n) == {i \in DOMAIN outbox : n < i /\ outbox[i].type = "consumed"}

Consumed(outbox, n) == Cardinality(After(outbox, n))

LEMMA AfterFinite ==
  ASSUME NEW o \in Seq(Sound), NEW n \in Nat
  PROVE  /\ IsFiniteSet(After(o, n)) /\ After(o, n) \in SUBSET Int
         /\ Consumed(o, n) \in Nat
<1>1. After(o, n) \in SUBSET (1 .. Len(o)) /\ Len(o) \in Nat
  BY DEF After
<1>2. IsFiniteSet(After(o, n))
  <2>1. IsFiniteSet(1 .. Len(o))
    BY <1>1, FS_Interval
  <2> QED
    BY <1>1, <2>1, FS_Subset
<1> QED
  BY <1>1, <1>2, FS_CardinalityType DEF Consumed

LEMMA ConsumedNone ==
  ASSUME NEW o \in Seq(Sound), NEW n \in Nat,
         \A i \in DOMAIN o : n < i => o[i].type # "consumed"
  PROVE  Consumed(o, n) = 0
<1>1. After(o, n) = {}
  BY DEF After
<1> QED
  BY <1>1, FS_EmptySet DEF Consumed

LEMMA ConsumedAppend ==
  ASSUME NEW o \in Seq(Sound), NEW m \in Sound, NEW n \in 0 .. Len(o)
  PROVE  Consumed(Append(o, m), n) =
           IF m.type = "consumed" THEN Consumed(o, n) + 1 ELSE Consumed(o, n)
<1> DEFINE l == Len(o) + 1
<1>1. After(Append(o, m), n) = IF m.type = "consumed" THEN After(o, n) \cup {l} ELSE After(o, n)
  BY DEF After
<1>2. l \notin After(o, n)
  BY DEF After
<1>3. Cardinality(After(o, n) \cup {l}) = Cardinality(After(o, n)) + 1
  <2> HIDE DEF l
  <2>1. IsFiniteSet(After(o, n))
    BY AfterFinite
  <2> QED
    BY <1>2, <2>1, FS_AddElement
<1> QED
  BY <1>1, <1>3 DEF Consumed

LEMMA ConsumedTail ==
  ASSUME NEW o \in Seq(Sound), o # <<>>, NEW n \in Nat
  PROVE  /\ Consumed(Tail(o), n) = Consumed(o, n + 1)
         /\ Consumed(o, 0) = IF Head(o).type = "consumed" THEN Consumed(o, 1) + 1 ELSE Consumed(o, 1)
<1>0. Tail(o) \in Seq(Sound)
  OBVIOUS
<1>1. \A i \in After(o, n + 1) : i - 1 \in After(Tail(o), n)
  BY DEF After
<1>2. \A i \in After(Tail(o), n) : i + 1 \in After(o, n + 1)
  BY DEF After
<1>3. Cardinality(After(Tail(o), n)) = Cardinality(After(o, n + 1))
  <2>1. IsFiniteSet(After(o, n + 1)) /\ After(o, n + 1) \in SUBSET Int
    BY n + 1 \in Nat, AfterFinite
  <2>2. After(Tail(o), n) \in SUBSET Int
    BY <1>0, AfterFinite
  <2> QED
    BY <1>1, <1>2, <2>1, <2>2, Shift
<1>4. After(o, 0) = IF Head(o).type = "consumed" THEN After(o, 1) \cup {1} ELSE After(o, 1)
  BY DEF After
<1>5. 1 \notin After(o, 1)
  BY DEF After
<1>6. Cardinality(After(o, 1) \cup {1}) = Cardinality(After(o, 1)) + 1
  BY <1>5, AfterFinite, FS_AddElement
<1> QED
  BY <1>3, <1>4, <1>6 DEF Consumed
-----------------------------------------------------------------------------
(* What the page, and the worker itself, do to a worker.                   *)

Worker ==
  [state : {"unused", "loading", "loaded", "closed"}, owner : Sessions \cup {None},
   pending : Nat, queue : Nat, inbox : Seq(Items), codec : Seq(Items), outbox : Seq(Sound)]

Asked(w) == [w EXCEPT !.inbox = Append(@, Flush)]

Heard(w) == [Taken(w) EXCEPT !.queue = Head(w.outbox).queue]

Credited(w) ==
  [Taken(w) EXCEPT !.pending = IF @ > 0 THEN @ - 1 ELSE 0, !.queue = Head(w.outbox).queue]

Loaded(w, type) == Say([w EXCEPT !.state = "loaded"], Post(type, 0, 0))

Consuming(w) ==
  LET block == Head(w.inbox)
      codec == Append(w.codec, block)
      taken == [w EXCEPT !.inbox = Tail(@), !.codec = codec] IN
  IF block = Flush THEN taken ELSE Say(taken, Post("consumed", 0, Queued(codec)))

Putting(w) ==
  LET block == Head(w.codec)
      left == [w EXCEPT !.codec = Tail(@)] IN
  Say(left, IF block = Flush THEN Post("flushed", 0, 0)
            ELSE Post("packet", block, Queued(left.codec)))

Breaking(w) == Say([w EXCEPT !.inbox = Tail(@)], Post("error", 0, 0))

Failed(w) == Say([w EXCEPT !.codec = <<>>], Post("error", 0, 0))

(* Two states of a worker that differ in its queues and counters.          *)
Keeps(v, w) == v.state = w.state /\ v.owner = w.owner

LEMMA UnusedFields == Unused \in Worker
<1>1. <<>> \in Seq(Items) /\ <<>> \in Seq(Sound)
  OBVIOUS
<1> QED
  BY <1>1 DEF Unused, Worker

LEMMA CreatedFields ==
  ASSUME NEW s \in Sessions
  PROVE  /\ Created(s) \in Worker
         /\ Created(s).state = "loading" /\ Created(s).owner = s
         /\ Created(s).pending = 0 /\ Created(s).queue = 0
         /\ Created(s).inbox = <<>> /\ Created(s).codec = <<>> /\ Created(s).outbox = <<>>
<1>1. <<>> \in Seq(Items) /\ <<>> \in Seq(Sound)
  OBVIOUS
<1> QED
  BY <1>1 DEF Created, Unused, Worker

LEMMA ClosedFields ==
  ASSUME NEW w \in Worker
  PROVE  /\ Closed(w) \in Worker
         /\ Closed(w).state = "closed" /\ Closed(w).owner = w.owner
         /\ Closed(w).inbox = <<>> /\ Closed(w).codec = <<>> /\ Closed(w).outbox = w.outbox
<1>1. <<>> \in Seq(Items)
  OBVIOUS
<1> QED
  BY <1>1 DEF Closed, Worker

LEMMA TakenFields ==
  ASSUME NEW w \in Worker, w.outbox # <<>>
  PROVE  /\ Taken(w) \in Worker /\ Keeps(Taken(w), w)
         /\ Taken(w).pending = w.pending /\ Taken(w).queue = w.queue
         /\ Taken(w).inbox = w.inbox /\ Taken(w).codec = w.codec
         /\ Taken(w).outbox = Tail(w.outbox)
<1>1. Tail(w.outbox) \in Seq(Sound)
  BY DEF Worker
<1> QED
  BY <1>1 DEF Taken, Worker, Keeps

LEMMA HeadSound ==
  ASSUME NEW w \in Worker, w.outbox # <<>>
  PROVE  Head(w.outbox) \in Sound /\ Head(w.outbox).queue \in Nat
BY DEF Worker, Sound, Messages

LEMMA HeardFields ==
  ASSUME NEW w \in Worker, w.outbox # <<>>
  PROVE  /\ Heard(w) \in Worker /\ Keeps(Heard(w), w)
         /\ Heard(w).pending = w.pending /\ Heard(w).queue = Head(w.outbox).queue
         /\ Heard(w).inbox = w.inbox /\ Heard(w).codec = w.codec
         /\ Heard(w).outbox = Tail(w.outbox)
<1>1. Tail(w.outbox) \in Seq(Sound)
  BY DEF Worker
<1> QED
  BY <1>1, HeadSound DEF Heard, Taken, Worker, Keeps

LEMMA CreditedFields ==
  ASSUME NEW w \in Worker, w.outbox # <<>>
  PROVE  /\ Credited(w) \in Worker /\ Keeps(Credited(w), w)
         /\ Credited(w).pending = IF w.pending > 0 THEN w.pending - 1 ELSE 0
         /\ Credited(w).queue = Head(w.outbox).queue
         /\ Credited(w).inbox = w.inbox /\ Credited(w).codec = w.codec
         /\ Credited(w).outbox = Tail(w.outbox)
<1>1. Tail(w.outbox) \in Seq(Sound)
  BY DEF Worker
<1>2. (IF w.pending > 0 THEN w.pending - 1 ELSE 0) \in Nat
  BY DEF Worker
<1> QED
  BY <1>1, <1>2, HeadSound DEF Credited, Taken, Worker, Keeps

LEMMA AskedFields ==
  ASSUME NEW w \in Worker
  PROVE  /\ Asked(w) \in Worker /\ Keeps(Asked(w), w)
         /\ Asked(w).pending = w.pending /\ Asked(w).queue = w.queue
         /\ Asked(w).inbox = Append(w.inbox, Flush) /\ Asked(w).codec = w.codec
         /\ Asked(w).outbox = w.outbox
<1>1. Append(w.inbox, Flush) \in Seq(Items)
  BY DEF Worker, Items
<1> QED
  BY <1>1 DEF Asked, Worker, Keeps

LEMMA AcceptedSeq ==
  ASSUME NEW w \in Worker, NEW blocks \in Seq(Blocks)
  PROVE  /\ Accepted(w, blocks) \in Seq(Blocks) /\ Accepted(w, blocks) \in Seq(Items)
         /\ Len(Accepted(w, blocks)) <= Len(blocks)
         /\ \A n \in 1 .. Len(Accepted(w, blocks)) : Accepted(w, blocks)[n] = blocks[n]
         /\ Len(Accepted(w, blocks)) = 0 \/
              Len(Accepted(w, blocks)) <= MaxBuffered - (w.pending + w.queue)
<1> DEFINE k == IF Room(w) < Len(blocks) THEN Room(w) ELSE Len(blocks)
<1>1. /\ k \in Int /\ k <= Len(blocks) /\ k <= Room(w)
      /\ Room(w) = MaxBuffered - (w.pending + w.queue)
  BY AudioAssumption DEF Room, Worker
<1>2. Accepted(w, blocks) = SubSeq(blocks, 1, k)
  BY DEF Accepted
<1>3. \A n \in 1 .. k : blocks[n] \in Blocks
  BY <1>1
<1> HIDE DEF k
<1>4. /\ SubSeq(blocks, 1, k) \in Seq(Blocks)
      /\ Len(SubSeq(blocks, 1, k)) = IF 1 <= k THEN k - 1 + 1 ELSE 0
      /\ \A n \in 1 .. k - 1 + 1 : SubSeq(blocks, 1, k)[n] = blocks[1 + n - 1]
  BY <1>1, <1>3, SubSeqProperties
<1>5. SubSeq(blocks, 1, k) \in Seq(Items)
  BY <1>4 DEF Items
<1> QED
  BY <1>1, <1>2, <1>4, <1>5

LEMMA EncodeFields ==
  ASSUME NEW w \in Worker, NEW blocks \in Seq(Blocks)
  PROVE  LET a == Accepted(w, blocks) IN
         /\ Encode(w, blocks) \in Worker /\ Keeps(Encode(w, blocks), w)
         /\ Encode(w, blocks).pending = w.pending + Len(a)
         /\ Encode(w, blocks).queue = w.queue
         /\ Encode(w, blocks).inbox = w.inbox \o a /\ Encode(w, blocks).codec = w.codec
         /\ Encode(w, blocks).outbox = w.outbox
<1> DEFINE a == Accepted(w, blocks)
<1>1. w.inbox \o a \in Seq(Items) /\ w.pending + Len(a) \in Nat
  BY AcceptedSeq DEF Worker
<1> QED
  BY <1>1 DEF Encode, Worker, Keeps

LEMMA LoadedFields ==
  ASSUME NEW w \in Worker, NEW type \in {"ready", "error"}
  PROVE  /\ Loaded(w, type) \in Worker
         /\ Loaded(w, type).state = "loaded" /\ Loaded(w, type).owner = w.owner
         /\ Loaded(w, type).pending = w.pending /\ Loaded(w, type).queue = w.queue
         /\ Loaded(w, type).inbox = w.inbox /\ Loaded(w, type).codec = w.codec
         /\ Loaded(w, type).outbox = Append(w.outbox, Post(type, 0, 0))
<1>1. Append(w.outbox, Post(type, 0, 0)) \in Seq(Sound)
  <2>1. Post(type, 0, 0) \in Sound
    BY DEF Post, Sound, Messages
  <2> QED
    BY <2>1 DEF Worker
<1> QED
  BY <1>1 DEF Loaded, Say, Worker

LEMMA ConsumingFields ==
  ASSUME NEW w \in Worker, w.inbox # <<>>
  PROVE  LET block == Head(w.inbox)
             codec == Append(w.codec, block)
             m == Post("consumed", 0, Queued(codec)) IN
         /\ Consuming(w) \in Worker /\ Keeps(Consuming(w), w)
         /\ block \in Items /\ codec \in Seq(Items) /\ m \in Sound
         /\ Consuming(w).pending = w.pending /\ Consuming(w).queue = w.queue
         /\ Consuming(w).inbox = Tail(w.inbox) /\ Consuming(w).codec = codec
         /\ Consuming(w).outbox = IF block = Flush THEN w.outbox ELSE Append(w.outbox, m)
<1> DEFINE block == Head(w.inbox)
           codec == Append(w.codec, block)
           m == Post("consumed", 0, Queued(codec))
<1>1. block \in Items /\ codec \in Seq(Items) /\ Tail(w.inbox) \in Seq(Items)
  BY DEF Worker
<1>2. m \in Sound
  <2>1. Queued(codec) \in Nat
    BY <1>1, PlacesFinite
  <2> QED
    BY <2>1 DEF Post, Sound, Messages
<1>3. Append(w.outbox, m) \in Seq(Sound)
  BY <1>2 DEF Worker
<1> HIDE DEF m, codec, block
<1>4. Consuming(w) = IF block = Flush THEN [w EXCEPT !.inbox = Tail(@), !.codec = codec]
                     ELSE Say([w EXCEPT !.inbox = Tail(@), !.codec = codec], m)
  BY DEF Consuming, block, codec, m
<1>5. /\ Consuming(w) \in Worker /\ Keeps(Consuming(w), w)
      /\ Consuming(w).pending = w.pending /\ Consuming(w).queue = w.queue
      /\ Consuming(w).inbox = Tail(w.inbox) /\ Consuming(w).codec = codec
      /\ Consuming(w).outbox = IF block = Flush THEN w.outbox ELSE Append(w.outbox, m)
  BY <1>1, <1>3, <1>4 DEF Say, Worker, Keeps
<1> QED
  BY <1>1, <1>2, <1>5 DEF block, codec, m

LEMMA PuttingFields ==
  ASSUME NEW w \in Worker, w.codec # <<>>
  PROVE  LET block == Head(w.codec)
             m == IF block = Flush THEN Post("flushed", 0, 0)
                  ELSE Post("packet", block, Queued(Tail(w.codec))) IN
         /\ Putting(w) \in Worker /\ Keeps(Putting(w), w)
         /\ block \in Items /\ Tail(w.codec) \in Seq(Items) /\ m \in Sound
         /\ Putting(w).pending = w.pending /\ Putting(w).queue = w.queue
         /\ Putting(w).inbox = w.inbox /\ Putting(w).codec = Tail(w.codec)
         /\ Putting(w).outbox = Append(w.outbox, m)
<1> DEFINE block == Head(w.codec)
           m == IF block = Flush THEN Post("flushed", 0, 0)
                ELSE Post("packet", block, Queued(Tail(w.codec)))
<1>1. block \in Items /\ Tail(w.codec) \in Seq(Items)
  BY DEF Worker
<1>2. m \in Sound
  <2>1. Queued(Tail(w.codec)) \in Nat
    BY <1>1, PlacesFinite
  <2> QED
    BY <1>1, <2>1 DEF Post, Sound, Messages, Items, Flush
<1>3. Append(w.outbox, m) \in Seq(Sound)
  BY <1>2 DEF Worker
<1>4. Putting(w) = Say([w EXCEPT !.codec = Tail(@)], m)
  BY DEF Putting, Worker
<1> HIDE DEF m
<1>5. /\ Putting(w) \in Worker /\ Keeps(Putting(w), w)
      /\ Putting(w).pending = w.pending /\ Putting(w).queue = w.queue
      /\ Putting(w).inbox = w.inbox /\ Putting(w).codec = Tail(w.codec)
      /\ Putting(w).outbox = Append(w.outbox, m)
  BY <1>1, <1>3, <1>4 DEF Say, Worker, Keeps
<1> QED
  BY <1>1, <1>2, <1>5 DEF m

LEMMA BreakingFields ==
  ASSUME NEW w \in Worker, w.inbox # <<>>
  PROVE  /\ Breaking(w) \in Worker /\ Keeps(Breaking(w), w)
         /\ Breaking(w).pending = w.pending /\ Breaking(w).queue = w.queue
         /\ Breaking(w).inbox = Tail(w.inbox) /\ Breaking(w).codec = w.codec
         /\ Breaking(w).outbox = Append(w.outbox, Post("error", 0, 0))
<1>1. Tail(w.inbox) \in Seq(Items)
  BY DEF Worker
<1>2. Append(w.outbox, Post("error", 0, 0)) \in Seq(Sound)
  <2>1. Post("error", 0, 0) \in Sound
    BY DEF Post, Sound, Messages
  <2> QED
    BY <2>1 DEF Worker
<1> QED
  BY <1>1, <1>2 DEF Breaking, Say, Worker, Keeps

LEMMA FailedFields ==
  ASSUME NEW w \in Worker
  PROVE  /\ Failed(w) \in Worker /\ Keeps(Failed(w), w)
         /\ Failed(w).pending = w.pending /\ Failed(w).queue = w.queue
         /\ Failed(w).inbox = w.inbox /\ Failed(w).codec = <<>>
         /\ Failed(w).outbox = Append(w.outbox, Post("error", 0, 0))
<1>1. <<>> \in Seq(Items)
  OBVIOUS
<1>2. Append(w.outbox, Post("error", 0, 0)) \in Seq(Sound)
  <2>1. Post("error", 0, 0) \in Sound
    BY DEF Post, Sound, Messages
  <2> QED
    BY <2>1 DEF Worker
<1> QED
  BY <1>1, <1>2 DEF Failed, Say, Worker, Keeps
-----------------------------------------------------------------------------
(* First part of the inductive invariant: who uses which worker.           *)

Starts ==
  [step : {"none", "loading", "connecting", "resuming"},
   session : Sessions \cup {None}, encoder : Encoders \cup {0}]

Swaps ==
  [step : {"none", "preparing", "flushing"}, session : Sessions \cup {None},
   encoder : Encoders \cup {0}, buffers : Seq(Blocks)]

ShapeInv ==
  /\ active \in Sessions \cup {None}
  /\ starting \in Starts
  /\ swapping \in Swaps /\ Len(swapping.buffers) <= MaxBuffered
  /\ encoder \in [Sessions -> Encoders \cup {0}]
  /\ captured \in [Sessions -> 0 .. MaxBlocks]
  /\ worker \in [Encoders -> Worker]
  /\ last \in [Sessions -> Blocks \cup {0}]
  /\ done \in [Sessions -> SUBSET Nat]

Open(e) == worker[e].state \in {"loading", "loaded"}

Current(e) == active # None /\ encoder[active] = e

(* A call of start owns its encoder until the session has it.              *)
StartInv ==
  /\ starting.step = "none" => starting = NoStart
  /\ starting.step # "none" => starting.session \in Sessions /\ starting.encoder \in Encoders
  /\ starting.step \in {"loading", "connecting"} =>
       /\ active = None /\ encoder[starting.session] = 0
       /\ Open(starting.encoder) /\ worker[starting.encoder].owner = starting.session
  /\ starting.step = "connecting" => worker[starting.encoder].state = "loaded"
  /\ starting.step = "resuming" /\ Open(starting.encoder) => Current(starting.encoder)

(* A swap is the running session's, and its encoder is not yet in use.     *)
SwapInv ==
  /\ swapping.step = "none" => swapping = NoSwap
  /\ swapping.step # "none" =>
       /\ starting = NoStart /\ active # None /\ swapping.session = active
       /\ swapping.encoder \in Encoders /\ Open(swapping.encoder) /\ ~Current(swapping.encoder)
       /\ worker[swapping.encoder].owner = active
  /\ swapping.step = "preparing" => swapping.buffers = <<>>
  /\ swapping.step = "flushing" => worker[swapping.encoder].state = "loaded"

(* The running session has a loaded encoder; one that never ran, nothing.  *)
ActiveInv ==
  /\ active # None =>
       /\ encoder[active] \in Encoders /\ worker[encoder[active]].state = "loaded"
       /\ worker[encoder[active]].owner = active
       /\ starting.step \in {"none", "resuming"}
  /\ \A s \in Sessions : encoder[s] = 0 => captured[s] = 0 /\ last[s] = 0

(* A worker that has not loaded, or was made for no session, holds nothing *)
(* and said nothing.                                                       *)
QuietInv(e) ==
  worker[e].state \in {"unused", "loading"} \/ worker[e].owner = None =>
    worker[e].inbox = <<>> /\ worker[e].codec = <<>> /\ worker[e].outbox = <<>>

LifeInv ==
  StartInv /\ SwapInv /\ ActiveInv /\ (\A e \in Encoders : QuietInv(e)) /\ NoStrayEncoder

LEMMA Zero == 0 \notin Encoders /\ None \notin Sessions
BY AudioAssumption DEF Encoders

LEMMA LifeInit == Init => ShapeInv /\ LifeInv
<1> SUFFICES ASSUME Init PROVE ShapeInv /\ LifeInv
  OBVIOUS
<1>1. worker \in [Encoders -> Worker] /\ \A e \in Encoders : worker[e] = Unused
  BY UnusedFields DEF Init
<1>2. starting = NoStart /\ NoStart \in Starts /\ NoStart.step = "none"
  BY DEF Init, NoStart, Starts
<1>3. /\ swapping = NoSwap /\ NoSwap \in Swaps /\ NoSwap.step = "none"
      /\ Len(NoSwap.buffers) = 0
  <2>1. <<>> \in Seq(Blocks)
    OBVIOUS
  <2> QED
    BY <2>1 DEF Init, NoSwap, Swaps
<1>4. /\ encoder \in [Sessions -> Encoders \cup {0}] /\ captured \in [Sessions -> 0 .. MaxBlocks]
      /\ last \in [Sessions -> Blocks \cup {0}] /\ done \in [Sessions -> SUBSET Nat]
      /\ active = None /\ \A s \in Sessions : captured[s] = 0 /\ last[s] = 0
  BY AudioAssumption DEF Init
<1>5. Unused.state = "unused" /\ Unused.inbox = <<>> /\ Unused.codec = <<>> /\ Unused.outbox = <<>>
  BY DEF Unused
<1> QED
  BY <1>1, <1>2, <1>3, <1>4, <1>5, AudioAssumption
     DEF ShapeInv, LifeInv, StartInv, SwapInv, ActiveInv, QuietInv, NoStrayEncoder

(* One worker changes, but not its state nor its owner.                    *)
LEMMA Steady ==
  ASSUME ShapeInv, LifeInv, NEW e \in Encoders, NEW v \in Worker,
         worker' = [worker EXCEPT ![e] = v], Keeps(v, worker[e]),
         worker[e].state \in {"unused", "loading"} \/ worker[e].owner = None =>
           v.inbox = <<>> /\ v.codec = <<>> /\ v.outbox = <<>>,
         UNCHANGED <<active, starting, swapping, encoder>>,
         captured' \in [Sessions -> 0 .. MaxBlocks], last' \in [Sessions -> Blocks \cup {0}],
         done' \in [Sessions -> SUBSET Nat],
         \A s \in Sessions : encoder[s] = 0 => captured'[s] = 0 /\ last'[s] = 0
  PROVE  ShapeInv' /\ LifeInv'
<1>1. /\ worker' \in [Encoders -> Worker] /\ worker'[e] = v
      /\ \A d \in Encoders : d # e => worker'[d] = worker[d]
  BY DEF ShapeInv
<1>2. \A d \in Encoders : worker'[d].state = worker[d].state /\ worker'[d].owner = worker[d].owner
  BY <1>1 DEF Keeps
<1>3. active' = active /\ starting' = starting /\ swapping' = swapping /\ encoder' = encoder
  OBVIOUS
<1>4. ShapeInv'
  BY <1>1, <1>3 DEF ShapeInv
<1>5. StartInv'
  BY <1>2, <1>3 DEF LifeInv, StartInv, Open, Current
<1>6. SwapInv'
  BY <1>2, <1>3 DEF LifeInv, SwapInv, Open, Current
<1>7. ActiveInv'
  BY <1>2, <1>3 DEF LifeInv, ActiveInv
<1>8. \A d \in Encoders : QuietInv(d)'
  BY <1>1, <1>2 DEF LifeInv, QuietInv
<1>9. NoStrayEncoder'
  BY <1>2, <1>3 DEF LifeInv, NoStrayEncoder, Using
<1> QED
  BY <1>4, <1>5, <1>6, <1>7, <1>8, <1>9 DEF LifeInv

LEMMA CloseFields ==
  ASSUME ShapeInv, NEW open, worker' = Close(open)
  PROVE  /\ worker' \in [Encoders -> Worker]
         /\ \A e \in Encoders :
              worker'[e] = IF e \in open THEN Closed(worker[e]) ELSE worker[e]
         /\ \A e \in Encoders : worker'[e].owner = worker[e].owner
         /\ \A e \in open \cap Encoders : worker'[e].state = "closed"
<1>1. \A e \in Encoders : /\ Closed(worker[e]) \in Worker /\ Closed(worker[e]).owner = worker[e].owner
                          /\ Closed(worker[e]).state = "closed"
  BY ClosedFields DEF ShapeInv
<1> QED
  BY <1>1 DEF Close, ShapeInv

(* Closing leaves a worker that holds nothing.                             *)
LEMMA CloseQuiet ==
  ASSUME ShapeInv, \A e \in Encoders : QuietInv(e), NEW open, worker' = Close(open)
  PROVE  \A e \in Encoders : QuietInv(e)'
<1> SUFFICES ASSUME NEW e \in Encoders PROVE QuietInv(e)'
  OBVIOUS
<1>1. \/ /\ worker'[e].state = "closed" /\ worker'[e].owner = worker[e].owner
         /\ worker'[e].inbox = <<>> /\ worker'[e].codec = <<>>
         /\ worker'[e].outbox = worker[e].outbox
      \/ worker'[e] = worker[e]
  BY CloseFields, ClosedFields DEF ShapeInv
<1> QED
  BY <1>1 DEF QuietInv

(* The session that ends takes everything with it.                         *)
LEMMA CleanupLife ==
  ASSUME ShapeInv, LifeInv, active # None, Cleanup(active),
         UNCHANGED <<starting, session, history>>
  PROVE  ShapeInv' /\ LifeInv'
<1> DEFINE open == {encoder[active]} \cup
                     (IF swapping.session = active THEN {swapping.encoder} ELSE {})
<1>1. /\ active' = None /\ worker' = Close(open)
      /\ UNCHANGED <<starting, encoder, captured, last, done>>
  BY DEF Cleanup, session, history
<1>2. /\ NoSwap \in Swaps /\ NoSwap.step = "none" /\ NoSwap.buffers = <<>> /\ NoSwap.encoder = 0
      /\ NoSwap.session = None
  <2>1. <<>> \in Seq(Blocks)
    OBVIOUS
  <2> QED
    BY <2>1 DEF NoSwap, Swaps
<1>3. swapping' = NoSwap
  BY <1>2 DEF Cleanup, LifeInv, SwapInv
<1>4. /\ worker' \in [Encoders -> Worker]
      /\ \A e \in Encoders : e \in open => worker'[e].state = "closed"
      /\ \A e \in Encoders : e \notin open => worker'[e] = worker[e]
  <2> HIDE DEF open
  <2> QED
    BY <1>1, CloseFields
<1>5. starting.step \in {"none", "resuming"}
  BY DEF LifeInv, ActiveInv
<1>6. encoder[active] \in open /\ (swapping.step # "none" => swapping.encoder \in open)
  BY DEF LifeInv, SwapInv
<1>6a. swapping.step = "none" => swapping.encoder = 0
  BY <1>2 DEF LifeInv, SwapInv
<1> HIDE DEF open
<1>7. ShapeInv'
  BY <1>1, <1>2, <1>3, <1>4, AudioAssumption DEF ShapeInv
<1>8. StartInv'
  BY <1>1, <1>4, <1>5, <1>6 DEF LifeInv, StartInv, Open, Current
<1>9. SwapInv' /\ ActiveInv'
  BY <1>1, <1>2, <1>3 DEF LifeInv, SwapInv, ActiveInv
<1>10. \A e \in Encoders : QuietInv(e)'
  BY <1>1, CloseQuiet DEF LifeInv
<1>11. NoStrayEncoder'
  <2> SUFFICES ASSUME NEW e \in Encoders, worker'[e].state \in {"loading", "loaded"}
               PROVE  e \in Using'
    BY DEF NoStrayEncoder
  <2>1. e \notin open /\ worker'[e] = worker[e]
    BY <1>4
  <2>2. e \in Using
    BY <2>1 DEF LifeInv, NoStrayEncoder
  <2>3. e = starting.encoder
    BY <1>6, <1>6a, <2>1, <2>2, Zero DEF Using
  <2> QED
    BY <1>1, <2>3 DEF Using
<1> QED
  BY <1>7, <1>8, <1>9, <1>10, <1>11 DEF LifeInv

LEMMA StartLife ==
  ASSUME ShapeInv, LifeInv, NEW s \in Sessions, Start(s)
  PROVE  ShapeInv' /\ LifeInv'
<1> PICK e \in Encoders :
      /\ Fresh(e)
      /\ starting' = [step |-> "loading", session |-> s, encoder |-> e]
      /\ worker' = [worker EXCEPT ![e] = Created(s)]
  BY DEF Start
<1>1. /\ active = None /\ active' = None /\ starting = NoStart /\ encoder[s] = 0
      /\ UNCHANGED <<swapping, encoder, captured, last, done>>
  BY DEF Start, session, history
<1>2. /\ worker' \in [Encoders -> Worker] /\ worker'[e] = Created(s)
      /\ \A d \in Encoders : d # e => worker'[d] = worker[d]
  BY CreatedFields DEF ShapeInv
<1>3. /\ starting' \in Starts /\ starting'.step = "loading"
      /\ starting'.session = s /\ starting'.encoder = e
  BY DEF Starts
<1>4. swapping.step = "none" /\ swapping.encoder = 0
  BY <1>1 DEF LifeInv, SwapInv, NoSwap, ShapeInv, Swaps
<1>5. ShapeInv'
  BY <1>1, <1>2, <1>3 DEF ShapeInv
<1>6. StartInv'
  BY <1>1, <1>2, <1>3, CreatedFields DEF StartInv, Open
<1>7. SwapInv' /\ ActiveInv'
  BY <1>1, <1>4 DEF LifeInv, SwapInv, ActiveInv
<1>8. \A d \in Encoders : QuietInv(d)'
  BY <1>2, CreatedFields DEF LifeInv, QuietInv
<1>9. NoStrayEncoder'
  <2>1. \A d \in Encoders : worker[d].state \in {"loading", "loaded"} => d \in Using
    BY DEF LifeInv, NoStrayEncoder
  <2>2. Using = {0}
    BY <1>1, <1>4 DEF Using, NoStart
  <2>3. e \in Using'
    BY <1>3 DEF Using
  <2> QED
    BY <1>2, <2>1, <2>2, <2>3, Zero DEF NoStrayEncoder
<1> QED
  BY <1>5, <1>6, <1>7, <1>8, <1>9 DEF LifeInv

LEMMA ConnectLife ==
  ASSUME ShapeInv, LifeInv, Connect
  PROVE  ShapeInv' /\ LifeInv'
<1> DEFINE s == starting.session
           e == starting.encoder
<1>1. /\ starting.step = "connecting" /\ active' = s
      /\ encoder' = [encoder EXCEPT ![s] = e]
      /\ starting' = [starting EXCEPT !.step = "resuming"]
      /\ UNCHANGED <<swapping, captured, worker, last, done>>
  BY DEF Connect, history
<1>2. /\ s \in Sessions /\ e \in Encoders /\ active = None /\ encoder[s] = 0
      /\ worker[e].state = "loaded" /\ worker[e].owner = s
  BY <1>1 DEF LifeInv, StartInv
<1>3. /\ starting' \in Starts /\ starting'.step = "resuming"
      /\ starting'.session = s /\ starting'.encoder = e
  BY <1>1 DEF ShapeInv, Starts
<1>4. /\ encoder' \in [Sessions -> Encoders \cup {0}] /\ encoder'[s] = e
      /\ \A r \in Sessions : r # s => encoder'[r] = encoder[r]
  BY <1>1, <1>2 DEF ShapeInv
<1>5. swapping.step = "none" /\ swapping.encoder = 0
  BY <1>2 DEF LifeInv, SwapInv, NoSwap, ShapeInv, Swaps
<1> HIDE DEF s, e
<1>6. ShapeInv'
  BY <1>1, <1>2, <1>3, <1>4 DEF ShapeInv
<1>7. StartInv'
  BY <1>1, <1>2, <1>3, <1>4, Zero DEF StartInv, Open, Current
<1>8. SwapInv' /\ ActiveInv'
  BY <1>1, <1>2, <1>3, <1>4, <1>5, Zero DEF LifeInv, SwapInv, ActiveInv
<1>9. \A d \in Encoders : QuietInv(d)'
  <2>1. worker' = worker
    BY <1>1
  <2> QED
    BY <2>1 DEF LifeInv, QuietInv
<1>10. NoStrayEncoder'
  <2>1. Using = {e, 0} /\ e \in Using'
    BY <1>2, <1>3, <1>5 DEF Using, e
  <2> QED
    BY <1>1, <2>1, Zero DEF LifeInv, NoStrayEncoder
<1> QED
  BY <1>6, <1>7, <1>8, <1>9, <1>10 DEF LifeInv

LEMMA StartedLife ==
  ASSUME ShapeInv, LifeInv, Started
  PROVE  ShapeInv' /\ LifeInv'
<1> DEFINE open == IF starting.step = "connecting" THEN {starting.encoder} ELSE {}
<1>1. /\ starting.step \in {"connecting", "resuming"} /\ starting' = NoStart
      /\ UNCHANGED <<active, swapping, encoder, captured, last, done>>
  BY DEF Started, session, history
<1>2. NoStart \in Starts /\ NoStart.step = "none" /\ NoStart.encoder = 0
  BY DEF NoStart, Starts
<1>3. worker' = Close(open)
  <2>1. CASE starting.step = "connecting"
    BY <2>1 DEF Started
  <2>2. CASE starting.step # "connecting"
    <3>1. worker' = worker /\ open = {}
      BY <2>2 DEF Started
    <3>2. worker = [e \in Encoders |-> worker[e]]
      BY DEF ShapeInv
    <3> QED
      BY <3>1, <3>2 DEF Close
  <2> QED
    BY <2>1, <2>2
<1>4. /\ worker' \in [Encoders -> Worker]
      /\ \A e \in Encoders : e \in open => worker'[e].state = "closed"
      /\ \A e \in Encoders : e \notin open => worker'[e] = worker[e]
  <2> HIDE DEF open
  <2> QED
    BY <1>3, CloseFields
<1>5. swapping.step = "none"
  BY <1>1, <1>2 DEF LifeInv, SwapInv
<1>6. open # {} => active = None /\ open = {starting.encoder}
  BY DEF LifeInv, StartInv
<1>6a. starting.step = "resuming" /\ Open(starting.encoder) => Current(starting.encoder)
  BY DEF LifeInv, StartInv
<1>6b. starting.step = "connecting" => starting.encoder \in open
  OBVIOUS
<1> HIDE DEF open
<1>7. ShapeInv'
  BY <1>1, <1>2, <1>4 DEF ShapeInv
<1>8. StartInv' /\ SwapInv'
  BY <1>1, <1>2, <1>5 DEF LifeInv, StartInv, SwapInv
<1>9. ActiveInv'
  BY <1>1, <1>2, <1>4, <1>6 DEF LifeInv, ActiveInv
<1>10. \A e \in Encoders : QuietInv(e)'
  BY <1>3, CloseQuiet DEF LifeInv
<1>11. NoStrayEncoder'
  <2> SUFFICES ASSUME NEW e \in Encoders, worker'[e].state \in {"loading", "loaded"}
               PROVE  e \in Using'
    BY DEF NoStrayEncoder
  <2>1. e \notin open /\ worker'[e] = worker[e]
    BY <1>4
  <2>2. e \in Using
    BY <2>1 DEF LifeInv, NoStrayEncoder
  <2>3. e = starting.encoder => Current(e)
    BY <1>1, <1>6a, <1>6b, <2>1 DEF Open
  <2> QED
    BY <1>1, <2>2, <2>3 DEF Using, Current
<1> QED
  BY <1>7, <1>8, <1>9, <1>10, <1>11 DEF LifeInv
LEMMA SwitchModeLife ==
  ASSUME ShapeInv, LifeInv, SwitchMode
  PROVE  ShapeInv' /\ LifeInv'
<1> PICK e \in Encoders :
      /\ Fresh(e)
      /\ swapping' = [NoSwap EXCEPT !.step = "preparing", !.session = active, !.encoder = e]
      /\ worker' = [worker EXCEPT ![e] = Created(active)]
  BY DEF SwitchMode
<1>1. /\ active # None /\ active \in Sessions /\ starting = NoStart /\ swapping = NoSwap
      /\ UNCHANGED <<active, starting, encoder, captured, last, done>>
  BY DEF SwitchMode, session, history, ShapeInv
<1>2. /\ worker' \in [Encoders -> Worker] /\ worker'[e] = Created(active)
      /\ \A d \in Encoders : d # e => worker'[d] = worker[d]
  BY <1>1, CreatedFields DEF ShapeInv
<1>3. /\ swapping' \in Swaps /\ swapping'.step = "preparing" /\ swapping'.session = active
      /\ swapping'.encoder = e /\ swapping'.buffers = <<>>
  <2>1. <<>> \in Seq(Blocks)
    OBVIOUS
  <2> QED
    BY <1>1, <2>1 DEF NoSwap, Swaps
<1>4. NoSwap.encoder = 0 /\ NoStart.encoder = 0 /\ NoStart.step = "none"
  BY DEF NoSwap, NoStart
<1>5. worker[e].state = "unused"
  BY DEF Fresh
<1>6. encoder[active] \in Encoders /\ encoder[active] # e
  BY <1>1, <1>5 DEF LifeInv, ActiveInv
<1>7. ShapeInv'
  BY <1>1, <1>2, <1>3, AudioAssumption DEF ShapeInv
<1>8. StartInv'
  BY <1>1, <1>4 DEF StartInv
<1>9. SwapInv'
  <2>1. worker'[e].state = "loading" /\ worker'[e].owner = active
    BY <1>1, <1>2, CreatedFields
  <2> QED
    BY <1>1, <1>3, <1>6, <2>1 DEF SwapInv, Open, Current
<1>10. ActiveInv'
  BY <1>1, <1>2, <1>6 DEF LifeInv, ActiveInv
<1>11. \A d \in Encoders : QuietInv(d)'
  BY <1>1, <1>2, CreatedFields DEF LifeInv, QuietInv
<1>12. NoStrayEncoder'
  <2>1. Using = {0, encoder[active]}
    BY <1>1, <1>4 DEF Using
  <2>2. e \in Using' /\ encoder[active] \in Using'
    BY <1>1, <1>3 DEF Using
  <2>3. \A d \in Encoders : worker[d].state \in {"loading", "loaded"} => d \in Using
    BY DEF LifeInv, NoStrayEncoder
  <2> QED
    BY <1>2, <2>1, <2>2, <2>3, Zero DEF NoStrayEncoder
<1> QED
  BY <1>7, <1>8, <1>9, <1>10, <1>11, <1>12 DEF LifeInv

(* A swap that ends before its encoder is used closes that encoder.        *)
LEMMA SwapDropped ==
  ASSUME ShapeInv, LifeInv, swapping.step # "none",
         worker' = Close({swapping.encoder}), swapping' = NoSwap,
         UNCHANGED <<active, starting, session, history>>
  PROVE  ShapeInv' /\ LifeInv'
<1>1. UNCHANGED <<active, starting, encoder, captured, last, done>>
  BY DEF session, history
<1>2. /\ NoSwap \in Swaps /\ NoSwap.step = "none" /\ Len(NoSwap.buffers) = 0
      /\ NoSwap.encoder = 0
  <2>1. <<>> \in Seq(Blocks)
    OBVIOUS
  <2> QED
    BY <2>1 DEF NoSwap, Swaps
<1>3. /\ worker' \in [Encoders -> Worker]
      /\ \A e \in Encoders : e = swapping.encoder => worker'[e].state = "closed"
      /\ \A e \in Encoders : e # swapping.encoder => worker'[e] = worker[e]
  BY CloseFields
<1>4. /\ starting = NoStart /\ active # None /\ encoder[active] # swapping.encoder
      /\ NoStart.step = "none" /\ NoStart.encoder = 0
  BY DEF LifeInv, SwapInv, Current, NoStart
<1>5. ShapeInv'
  <2>1. MaxBuffered \in Nat
    BY AudioAssumption
  <2>2. swapping' \in Swaps /\ Len(swapping'.buffers) <= MaxBuffered
    BY <1>2, <2>1
  <2> QED
    BY <1>1, <1>3, <2>2 DEF ShapeInv
<1>6. StartInv' /\ SwapInv'
  BY <1>1, <1>2, <1>4 DEF StartInv, SwapInv
<1>7. ActiveInv'
  BY <1>1, <1>3, <1>4 DEF LifeInv, ActiveInv
<1>8. \A e \in Encoders : QuietInv(e)'
  BY CloseQuiet DEF LifeInv
<1>9. NoStrayEncoder'
  <2> SUFFICES ASSUME NEW e \in Encoders, worker'[e].state \in {"loading", "loaded"}
               PROVE  e \in Using'
    BY DEF NoStrayEncoder
  <2>1. e # swapping.encoder /\ worker'[e] = worker[e]
    BY <1>3
  <2>2. e \in Using
    BY <2>1 DEF LifeInv, NoStrayEncoder
  <2>3. e = encoder[active]
    BY <1>4, <2>1, <2>2, Zero DEF Using
  <2> QED
    BY <1>1, <1>4, <2>3 DEF Using
<1> QED
  BY <1>5, <1>6, <1>7, <1>8, <1>9 DEF LifeInv

(* A block captured goes to the swap's buffers.                            *)
LEMMA BufferedFields ==
  ASSUME ShapeInv, NEW block \in Blocks
  PROVE  LET kept == IF Full(swapping.buffers) THEN Tail(swapping.buffers) ELSE swapping.buffers
             buffers == Buffered(kept, block) IN
         /\ Full(swapping.buffers) => swapping.buffers # <<>> /\ Head(swapping.buffers) \in Blocks
         /\ kept \in Seq(Blocks) /\ buffers = Append(kept, block)
         /\ buffers \in Seq(Blocks) /\ Len(buffers) <= MaxBuffered
         /\ [swapping EXCEPT !.buffers = buffers] \in Swaps
<1> DEFINE b == swapping.buffers
           kept == IF Full(b) THEN Tail(b) ELSE b
           buffers == Buffered(kept, block)
<1>1. /\ b \in Seq(Blocks) /\ Len(b) <= MaxBuffered /\ swapping \in Swaps
      /\ MaxBuffered \in Nat \ {0}
  BY AudioAssumption DEF ShapeInv, Swaps
<1> HIDE DEF b
<1>2. Full(b) => b # <<>> /\ Head(b) \in Blocks /\ Len(Tail(b)) < MaxBuffered
  BY <1>1 DEF Full
<1>3. kept \in Seq(Blocks) /\ Len(kept) < MaxBuffered
  BY <1>1, <1>2 DEF Full
<1> HIDE DEF kept
<1>4. buffers = Append(kept, block) /\ buffers \in Seq(Blocks) /\ Len(buffers) <= MaxBuffered
  BY <1>1, <1>3 DEF Buffered
<1>5. [swapping EXCEPT !.buffers = buffers] \in Swaps
  <2> HIDE DEF buffers
  <2> QED
    BY <1>1, <1>4 DEF Swaps
<1> QED
  BY <1>2, <1>3, <1>4, <1>5 DEF b, kept

(* The block that is captured, and the counters.                           *)
LEMMA CaptureCounts ==
  ASSUME ShapeInv, NEW s \in Sessions, Capture(s)
  PROVE  /\ active = s /\ active # None
         /\ captured[s] + 1 \in Blocks /\ captured[s] \in Nat
         /\ captured' \in [Sessions -> 0 .. MaxBlocks] /\ captured'[s] = captured[s] + 1
         /\ \A r \in Sessions : r # s => captured'[r] = captured[r]
         /\ UNCHANGED <<active, starting, encoder, last>>
BY AudioAssumption DEF ShapeInv, Capture, Blocks

LEMMA CaptureLife ==
  ASSUME ShapeInv, LifeInv, NEW s \in Sessions, Capture(s)
  PROVE  ShapeInv' /\ LifeInv'
<1> DEFINE block == captured[s] + 1
           e == encoder[s]
           w == worker[e]
<1>1. /\ active = s /\ active # None /\ block \in Blocks /\ captured[s] \in Nat
      /\ captured' \in [Sessions -> 0 .. MaxBlocks] /\ captured'[s] = captured[s] + 1
      /\ \A r \in Sessions : r # s => captured'[r] = captured[r]
      /\ UNCHANGED <<active, starting, encoder, last>>
  BY CaptureCounts
<1>2. e \in Encoders /\ w \in Worker /\ w.state = "loaded" /\ w.owner # None
  BY <1>1 DEF ShapeInv, LifeInv, ActiveInv
<1>3. \A r \in Sessions : encoder[r] = 0 => captured'[r] = 0 /\ last'[r] = 0
  BY <1>1, <1>2, Zero DEF LifeInv, ActiveInv
<1>4. block \in Nat /\ <<block>> \in Seq(Blocks)
  BY <1>1
<1>5. last' \in [Sessions -> Blocks \cup {0}]
  BY <1>1 DEF ShapeInv
<1> HIDE DEF block
<1>6. CASE Account(s, {block}) /\ UNCHANGED <<swapping, worker>>
  <2>1. done' \in [Sessions -> SUBSET Nat]
    BY <1>4, <1>6 DEF Account, ShapeInv
  <2>2. worker' = [worker EXCEPT ![e] = w] /\ Keeps(w, w)
    BY <1>6, <1>2 DEF ShapeInv, Keeps
  <2>3. UNCHANGED <<active, starting, swapping, encoder>>
    BY <1>1, <1>6
  <2> QED
    BY <1>1, <1>2, <1>3, <1>5, <2>1, <2>2, <2>3, Steady
<1>7. CASE /\ Flushing(s)
           /\ swapping' = [swapping EXCEPT !.buffers =
                             Buffered(IF Full(@) THEN Tail(@) ELSE @, block)]
           /\ Account(s, IF Full(swapping.buffers) THEN {Head(swapping.buffers)} ELSE {})
           /\ UNCHANGED worker
  <2> DEFINE kept == IF Full(swapping.buffers) THEN Tail(swapping.buffers) ELSE swapping.buffers
             buffers == Buffered(kept, block)
  <2>1. /\ Full(swapping.buffers) => Head(swapping.buffers) \in Blocks
        /\ buffers \in Seq(Blocks) /\ Len(buffers) <= MaxBuffered
        /\ [swapping EXCEPT !.buffers = buffers] \in Swaps
    BY <1>1, BufferedFields
  <2>2. swapping' = [swapping EXCEPT !.buffers = buffers]
    BY <1>7 DEF ShapeInv, Swaps
  <2>3. done' \in [Sessions -> SUBSET Nat]
    <3> DEFINE lost == IF Full(swapping.buffers) THEN {Head(swapping.buffers)} ELSE {}
    <3>1. lost \in SUBSET Nat
      BY <2>1 DEF Blocks
    <3>2. done' = [done EXCEPT ![s] = @ \cup lost]
      BY <1>7 DEF Account
    <3> HIDE DEF lost
    <3> QED
      BY <3>1, <3>2 DEF ShapeInv
  <2>4. swapping.step = "flushing"
    BY <1>7 DEF Flushing
  <2> HIDE DEF buffers
  <2>5. /\ swapping' \in Swaps /\ swapping'.buffers = buffers /\ swapping'.step = swapping.step
        /\ swapping'.session = swapping.session /\ swapping'.encoder = swapping.encoder
    BY <2>1, <2>2 DEF ShapeInv, Swaps
  <2>6. worker' = worker
    BY <1>7
  <2>7. ShapeInv'
    BY <1>1, <1>5, <2>1, <2>3, <2>5, <2>6 DEF ShapeInv
  <2>8. StartInv' /\ ActiveInv'
    BY <1>1, <1>3, <2>6 DEF LifeInv, StartInv, ActiveInv, Open, Current
  <2>9. SwapInv'
    BY <1>1, <2>4, <2>5, <2>6 DEF LifeInv, SwapInv, Open, Current
  <2>10. \A d \in Encoders : QuietInv(d)'
    BY <2>6 DEF LifeInv, QuietInv
  <2>11. NoStrayEncoder'
    BY <1>1, <2>5, <2>6 DEF LifeInv, NoStrayEncoder, Using
  <2> QED
    BY <2>7, <2>8, <2>9, <2>10, <2>11 DEF LifeInv
<1>8. CASE /\ worker' = [worker EXCEPT ![e] = Encode(w, <<block>>)]
           /\ Account(s, {block} \ Elements(Accepted(w, <<block>>)))
           /\ UNCHANGED swapping
  <2>1. done' \in [Sessions -> SUBSET Nat]
    BY <1>4, <1>8 DEF Account, ShapeInv
  <2>2. Encode(w, <<block>>) \in Worker /\ Keeps(Encode(w, <<block>>), w)
    BY <1>2, <1>4, EncodeFields
  <2>3. UNCHANGED <<active, starting, swapping, encoder>>
    BY <1>1, <1>8
  <2> QED
    BY <1>1, <1>2, <1>3, <1>5, <1>8, <2>1, <2>2, <2>3, Steady
<1>9. \/ Account(s, {block}) /\ UNCHANGED <<swapping, worker>>
      \/ /\ Flushing(s)
         /\ swapping' = [swapping EXCEPT !.buffers =
                           Buffered(IF Full(@) THEN Tail(@) ELSE @, block)]
         /\ Account(s, IF Full(swapping.buffers) THEN {Head(swapping.buffers)} ELSE {})
         /\ UNCHANGED worker
      \/ /\ worker' = [worker EXCEPT ![e] = Encode(w, <<block>>)]
         /\ Account(s, {block} \ Elements(Accepted(w, <<block>>)))
         /\ UNCHANGED swapping
  BY DEF Capture, block
<1> QED
  BY <1>6, <1>7, <1>8, <1>9
-----------------------------------------------------------------------------
(* What each step of a worker or a message does.                           *)

LEMMA HeadTyped ==
  ASSUME ShapeInv, NEW e \in Encoders, NEW type, Receive(e, type)
  PROVE  /\ worker[e] \in Worker /\ worker[e].outbox # <<>>
         /\ Head(worker[e].outbox) \in Sound /\ Head(worker[e].outbox).type = type
         /\ worker[e].outbox \in Seq(Sound)
<1>1. worker[e] \in Worker /\ worker[e].outbox # <<>>
  BY DEF ShapeInv, Receive
<1> QED
  BY <1>1, HeadSound DEF Receive, Worker

LEMMA LoadDoes ==
  ASSUME ShapeInv, NEW e \in Encoders, Load(e)
  PROVE  /\ worker[e].state = "loading"
         /\ \E type \in {"ready", "error"} : worker' = [worker EXCEPT ![e] = Loaded(worker[e], type)]
         /\ UNCHANGED <<active, starting, swapping, encoder, captured, last, done>>
BY DEF Load, Work, Loaded, session, history

LEMMA ConsumeDoes ==
  ASSUME ShapeInv, NEW e \in Encoders, Consume(e)
  PROVE  /\ worker[e].inbox # <<>>
         /\ worker' = [worker EXCEPT ![e] = Consuming(worker[e])]
         /\ UNCHANGED <<active, starting, swapping, encoder, captured, last, done>>
BY DEF Consume, Work, Consuming, session, history

LEMMA OutputDoes ==
  ASSUME ShapeInv, NEW e \in Encoders, Output(e)
  PROVE  /\ worker[e].codec # <<>>
         /\ worker' = [worker EXCEPT ![e] = Putting(worker[e])]
         /\ UNCHANGED <<active, starting, swapping, encoder, captured, last, done>>
BY DEF Output, Work, Putting, session, history

LEMMA BreakDoes ==
  ASSUME ShapeInv, NEW e \in Encoders, Break(e)
  PROVE  /\ worker[e].inbox # <<>> /\ Head(worker[e].inbox) # Flush
         /\ worker' = [worker EXCEPT ![e] = Breaking(worker[e])]
         /\ UNCHANGED <<active, starting, swapping, encoder, captured, last, done>>
BY DEF Break, Work, Breaking, session, history

LEMMA FailDoes ==
  ASSUME ShapeInv, NEW e \in Encoders, Fail(e)
  PROVE  /\ worker[e].state = "loaded"
         /\ \A n \in DOMAIN worker[e].outbox : worker[e].outbox[n].type # "flushed"
         /\ worker' = [worker EXCEPT ![e] = Failed(worker[e])]
         /\ UNCHANGED <<active, starting, swapping, encoder, captured, last, done>>
BY DEF Fail, Work, Failed, session, history

LEMMA ConsumedDoes ==
  ASSUME ShapeInv, NEW e \in Encoders, ReceiveConsumed(e)
  PROVE  /\ worker' = [worker EXCEPT ![e] = Credited(worker[e])]
         /\ UNCHANGED <<active, starting, swapping, encoder, captured, last, done>>
BY DEF ReceiveConsumed, Credited, session, history

LEMMA PacketDoes ==
  ASSUME ShapeInv, LifeInv, NEW e \in Encoders, ReceivePacket(e)
  PROVE  worker[e].owner \in Sessions /\
         LET s == worker[e].owner
             b == Head(worker[e].outbox).block IN
         /\ worker' = [worker EXCEPT ![e] = Heard(worker[e])]
         /\ \/ /\ active = s /\ encoder[s] = e /\ Account(s, {b})
               /\ last' = [last EXCEPT ![s] = b] \/ last' = last
            \/ ~(active = s /\ encoder[s] = e) /\ UNCHANGED <<last, done>>
         /\ UNCHANGED <<active, starting, swapping, encoder, captured>>
<1>1. worker[e].owner \in Sessions
  <2>1. worker[e].outbox # <<>> /\ worker[e].owner \in Sessions \cup {None}
    BY DEF ReceivePacket, Receive, ShapeInv, Worker
  <2> QED
    BY <2>1 DEF LifeInv, QuietInv
<1> QED
  BY <1>1 DEF ReceivePacket, Heard, session, history, ShapeInv

(* The swap is done: the session has the new encoder.                      *)
Swapped(e) ==
  LET s == active
      next == swapping.encoder IN
  /\ swapping.step = "flushing" /\ active # None /\ encoder[s] = e
  /\ next \in Encoders /\ next # e
  /\ encoder' = [encoder EXCEPT ![s] = next]
  /\ worker' = [worker EXCEPT ![e] = Closed(Taken(worker[e])),
                            ![next] = Encode(worker[next], swapping.buffers)]
  /\ Account(s, Elements(swapping.buffers) \
                  Elements(Accepted(worker[next], swapping.buffers)))
  /\ swapping' = NoSwap
  /\ UNCHANGED <<active, starting, captured, last>>

LEMMA FlushedDoes ==
  ASSUME ShapeInv, LifeInv, NEW e \in Encoders, ReceiveFlushed(e)
  PROVE  \/ Swapped(e)
         \/ /\ ~(swapping.step = "flushing" /\ active # None /\ encoder[active] = e)
            /\ worker' = [worker EXCEPT ![e] = Taken(worker[e])]
            /\ UNCHANGED <<active, starting, swapping, encoder, captured, last, done>>
<1>1. swapping.step = "flushing" => /\ swapping.session = active /\ active # None
                                    /\ swapping.encoder \in Encoders
                                    /\ encoder[active] # swapping.encoder
  BY DEF LifeInv, SwapInv, Current
<1>2. CASE swapping.step = "flushing" /\ encoder[swapping.session] = e
  <2> DEFINE next == swapping.encoder
  <2>1. next # e /\ next \in Encoders /\ worker \in [Encoders -> Worker]
    BY <1>1, <1>2 DEF ShapeInv
  <2>2. worker' = [worker EXCEPT ![e] = Closed(Taken(@)), ![next] = Encode(@, swapping.buffers)]
    BY <1>2 DEF ReceiveFlushed
  <2>3. worker' = [worker EXCEPT ![e] = Closed(Taken(worker[e])),
                                 ![next] = Encode(worker[next], swapping.buffers)]
    <3> HIDE DEF next
    <3> QED
      BY <2>1, <2>2
  <2> QED
    BY <1>1, <1>2, <2>1, <2>3 DEF ReceiveFlushed, Swapped
<1>3. CASE ~(swapping.step = "flushing" /\ encoder[swapping.session] = e)
  <2>1. worker' = [worker EXCEPT ![e] = Taken(worker[e])]
    BY <1>3 DEF ReceiveFlushed, Take
  <2> QED
    BY <1>1, <1>3, <2>1 DEF ReceiveFlushed
<1> QED
  BY <1>2, <1>3

(* An encoder of start is ready, one of a swap is, or a closed one was.    *)
LEMMA ReadyDoes ==
  ASSUME ShapeInv, LifeInv, NEW e \in Encoders, ReceiveReady(e)
  PROVE  /\ UNCHANGED <<active, encoder, captured, last, done>>
         /\ \/ /\ starting.step = "loading" /\ starting.encoder = e
               /\ starting' = [starting EXCEPT !.step = "connecting"]
               /\ worker' = [worker EXCEPT ![e] = Taken(worker[e])]
               /\ UNCHANGED swapping
            \/ /\ swapping.step = "preparing" /\ swapping.encoder = e
               /\ active # None /\ encoder[active] \in Encoders /\ encoder[active] # e
               /\ swapping' = [swapping EXCEPT !.step = "flushing"]
               /\ worker' = [worker EXCEPT ![e] = Taken(worker[e]),
                               ![encoder[active]] = Asked(worker[encoder[active]])]
               /\ UNCHANGED starting
            \/ /\ worker[e].state = "closed"
               /\ worker' = [worker EXCEPT ![e] = Taken(worker[e])]
               /\ UNCHANGED <<starting, swapping>>
<1>1. swapping.step = "preparing" => /\ swapping.session = active /\ active # None
                                     /\ encoder[active] # swapping.encoder
                                     /\ encoder[active] \in Encoders
  BY DEF LifeInv, SwapInv, ActiveInv, Current
<1>2. UNCHANGED <<active, encoder, captured, last, done>>
  BY DEF ReceiveReady, session, history
<1>3. CASE /\ starting.step = "loading" /\ starting.encoder = e
           /\ starting' = [starting EXCEPT !.step = "connecting"]
           /\ Take(e) /\ UNCHANGED swapping
  BY <1>2, <1>3 DEF Take
<1>4. CASE /\ swapping.step = "preparing" /\ swapping.encoder = e
           /\ swapping' = [swapping EXCEPT !.step = "flushing"]
           /\ worker' = [worker EXCEPT ![e] = Taken(@),
                           ![encoder[swapping.session]].inbox = Append(@, Flush)]
           /\ UNCHANGED starting
  <2> DEFINE c == encoder[active]
  <2>1. worker' = [worker EXCEPT ![e] = Taken(@), ![c].inbox = Append(@, Flush)]
    BY <1>1, <1>4
  <2>2. worker' = [worker EXCEPT ![e] = Taken(worker[e]), ![c] = Asked(worker[c])]
    <3>1. c # e /\ c \in Encoders /\ worker \in [Encoders -> Worker]
      BY <1>1, <1>4 DEF ShapeInv
    <3> HIDE DEF c
    <3> QED
      BY <2>1, <3>1 DEF Asked
  <2> QED
    BY <1>1, <1>2, <1>4, <2>2
<1>5. CASE worker[e].state = "closed" /\ Take(e) /\ UNCHANGED <<starting, swapping>>
  BY <1>2, <1>5 DEF Take
<1> QED
  BY <1>3, <1>4, <1>5 DEF ReceiveReady

(* An error ends a start or a swap that waits for the encoder or the       *)
(* session that uses it, or comes too late.                                *)
LEMMA ErrorDoes ==
  ASSUME ShapeInv, LifeInv, NEW e \in Encoders, ReceiveError(e)
  PROVE  /\ UNCHANGED <<encoder, captured, last, done>>
         /\ \/ /\ starting.step = "loading" /\ starting.encoder = e
               /\ starting' = NoStart /\ worker' = Close({e})
               /\ UNCHANGED <<active, swapping>>
            \/ /\ swapping.step = "preparing" /\ swapping.encoder = e
               /\ swapping' = NoSwap /\ worker' = Close({e})
               /\ UNCHANGED <<active, starting>>
            \/ /\ active # None /\ Cleanup(active) /\ UNCHANGED starting
            \/ /\ worker[e].state = "closed"
                    \/ (starting.step = "connecting" /\ starting.encoder = e)
               /\ worker' = [worker EXCEPT ![e] = Taken(worker[e])]
               /\ UNCHANGED <<active, starting, swapping>>
<1>1. UNCHANGED <<encoder, captured, last, done>>
  BY DEF ReceiveError, session, history
<1>2. CASE /\ active = worker[e].owner
           /\ encoder[active] = e \/ (Flushing(active) /\ swapping.encoder = e)
           /\ Cleanup(active) /\ UNCHANGED starting
  <2>1. worker[e].outbox # <<>>
    BY DEF ReceiveError, Receive
  <2>2. active # None
    BY <1>2, <2>1 DEF LifeInv, QuietInv
  <2> QED
    BY <1>1, <1>2, <2>2
<1>3. CASE \/ /\ starting.step = "loading" /\ starting.encoder = e
              /\ starting' = NoStart /\ worker' = Close({e})
              /\ UNCHANGED <<active, swapping>>
           \/ /\ swapping.step = "preparing" /\ swapping.encoder = e
              /\ swapping' = NoSwap /\ worker' = Close({e})
              /\ UNCHANGED <<active, starting>>
           \/ /\ worker[e].state = "closed"
                   \/ (starting.step = "connecting" /\ starting.encoder = e)
              /\ Take(e)
              /\ UNCHANGED <<active, starting, swapping>>
  BY <1>1, <1>3 DEF Take
<1> QED
  BY <1>2, <1>3 DEF ReceiveError
(* A worker's queues change: the life of the workers goes on.              *)
LEMMA SteadyWorker ==
  ASSUME ShapeInv, LifeInv, NEW e \in Encoders, NEW v \in Worker,
         worker' = [worker EXCEPT ![e] = v], Keeps(v, worker[e]),
         worker[e].state \in {"unused", "loading"} \/ worker[e].owner = None =>
           v.inbox = <<>> /\ v.codec = <<>> /\ v.outbox = <<>>,
         UNCHANGED <<active, starting, swapping, encoder, captured, last, done>>
  PROVE  ShapeInv' /\ LifeInv'
<1>1. /\ captured' \in [Sessions -> 0 .. MaxBlocks] /\ last' \in [Sessions -> Blocks \cup {0}]
      /\ done' \in [Sessions -> SUBSET Nat]
  BY DEF ShapeInv
<1>2. \A s \in Sessions : encoder[s] = 0 => captured'[s] = 0 /\ last'[s] = 0
  BY DEF LifeInv, ActiveInv
<1> QED
  BY <1>1, <1>2, Steady

(* One that said something, or holds something, has loaded.                *)
LEMMA Loads ==
  ASSUME LifeInv, NEW e \in Encoders,
         worker[e].outbox # <<>> \/ worker[e].inbox # <<>> \/ worker[e].codec # <<>>
  PROVE  worker[e].state \notin {"unused", "loading"} /\ worker[e].owner # None
BY DEF LifeInv, QuietInv

(* One that has loaded was made for a session: it is in use.               *)
LEMMA LoadedOwned ==
  ASSUME ShapeInv, LifeInv, NEW e \in Encoders, worker[e].state = "loaded"
  PROVE  worker[e].owner \in Sessions
<1>1. e \in Using
  BY DEF LifeInv, NoStrayEncoder
<1>2. CASE active # None /\ e = encoder[active]
  BY <1>2 DEF LifeInv, ActiveInv, ShapeInv
<1>3. CASE e = starting.encoder
  <2>1. starting.step # "none"
    BY <1>3, Zero DEF LifeInv, StartInv, NoStart
  <2>2. starting.step \in {"loading", "connecting", "resuming"}
    BY <2>1 DEF ShapeInv, Starts
  <2>3. CASE starting.step = "resuming"
    BY <1>3, <2>3 DEF LifeInv, StartInv, ActiveInv, ShapeInv, Open, Current
  <2>4. CASE starting.step # "resuming"
    BY <1>3, <2>2, <2>4 DEF LifeInv, StartInv
  <2> QED
    BY <2>3, <2>4
<1>4. CASE e = swapping.encoder
  <2>1. swapping.step # "none"
    BY <1>4, Zero DEF LifeInv, SwapInv, NoSwap
  <2> QED
    BY <1>4, <2>1 DEF LifeInv, SwapInv, ShapeInv
<1> QED
  BY <1>1, <1>2, <1>3, <1>4 DEF Using

LEMMA WorkLife ==
  ASSUME ShapeInv, LifeInv, NEW e \in Encoders,
         Consume(e) \/ Output(e) \/ Break(e) \/ Fail(e)
  PROVE  ShapeInv' /\ LifeInv'
<1>0. worker[e] \in Worker
  BY DEF ShapeInv
<1>1. CASE Consume(e)
  BY <1>0, <1>1, ConsumeDoes, ConsumingFields, Loads, SteadyWorker
<1>2. CASE Output(e)
  BY <1>0, <1>2, OutputDoes, PuttingFields, Loads, SteadyWorker
<1>3. CASE Break(e)
  BY <1>0, <1>3, BreakDoes, BreakingFields, Loads, SteadyWorker
<1>4. CASE Fail(e)
  <2>1. worker[e].state = "loaded" /\ worker[e].owner # None
    BY <1>4, FailDoes, LoadedOwned, Zero
  <2> QED
    BY <1>0, <1>4, <2>1, FailDoes, FailedFields, SteadyWorker
<1> QED
  BY <1>1, <1>2, <1>3, <1>4

LEMMA TakenLife ==
  ASSUME ShapeInv, LifeInv, NEW e \in Encoders, worker[e].outbox # <<>>,
         worker' = [worker EXCEPT ![e] = Taken(worker[e])],
         UNCHANGED <<active, starting, swapping, encoder, captured, last, done>>
  PROVE  ShapeInv' /\ LifeInv'
<1>0. worker[e] \in Worker
  BY DEF ShapeInv
<1> QED
  BY <1>0, TakenFields, Loads, SteadyWorker

LEMMA ConsumedLife ==
  ASSUME ShapeInv, LifeInv, NEW e \in Encoders, ReceiveConsumed(e)
  PROVE  ShapeInv' /\ LifeInv'
<1>0. worker[e] \in Worker /\ worker[e].outbox # <<>>
  BY HeadTyped DEF ReceiveConsumed
<1> QED
  BY <1>0, ConsumedDoes, CreditedFields, Loads, SteadyWorker

LEMMA PacketLife ==
  ASSUME ShapeInv, LifeInv, NEW e \in Encoders, ReceivePacket(e)
  PROVE  ShapeInv' /\ LifeInv'
<1> DEFINE s == worker[e].owner
           b == Head(worker[e].outbox).block
<1>1. /\ worker[e] \in Worker /\ worker[e].outbox # <<>> /\ b \in Blocks \cup {0}
  BY HeadTyped DEF ReceivePacket, Sound, Messages
<1>2. /\ s \in Sessions
      /\ worker' = [worker EXCEPT ![e] = Heard(worker[e])]
      /\ \/ /\ active = s /\ encoder[s] = e /\ Account(s, {b})
            /\ last' = [last EXCEPT ![s] = b] \/ last' = last
         \/ UNCHANGED <<last, done>>
      /\ UNCHANGED <<active, starting, swapping, encoder, captured>>
  BY PacketDoes
<1> HIDE DEF b, s
<1>3. /\ captured' \in [Sessions -> 0 .. MaxBlocks] /\ last' \in [Sessions -> Blocks \cup {0}]
  BY <1>1, <1>2 DEF ShapeInv
<1>4. done' \in [Sessions -> SUBSET Nat]
  <2>1. {b} \in SUBSET Nat
    BY <1>1 DEF Blocks
  <2>2. done' = done \/ done' = [done EXCEPT ![s] = @ \cup {b}]
    BY <1>2 DEF Account
  <2> QED
    BY <2>1, <2>2 DEF ShapeInv
<1>5. \A r \in Sessions : encoder[r] = 0 => captured'[r] = 0 /\ last'[r] = 0
  BY <1>2, Zero DEF LifeInv, ActiveInv, ShapeInv
<1>6. Heard(worker[e]) \in Worker /\ Keeps(Heard(worker[e]), worker[e])
  BY <1>1, HeardFields
<1>7. worker[e].state \notin {"unused", "loading"} /\ worker[e].owner # None
  BY <1>1, Loads
<1> QED
  BY <1>2, <1>3, <1>4, <1>5, <1>6, <1>7, Steady

LEMMA LoadLife ==
  ASSUME ShapeInv, LifeInv, NEW e \in Encoders, Load(e)
  PROVE  ShapeInv' /\ LifeInv'
<1> PICK type \in {"ready", "error"} : worker' = [worker EXCEPT ![e] = Loaded(worker[e], type)]
  BY LoadDoes
<1>1. /\ worker[e].state = "loading"
      /\ UNCHANGED <<active, starting, swapping, encoder, captured, last, done>>
  BY LoadDoes
<1>2. worker[e] \in Worker
  BY DEF ShapeInv
<1>3. /\ worker' \in [Encoders -> Worker] /\ worker'[e].state = "loaded"
      /\ worker'[e].owner = worker[e].owner
      /\ \A d \in Encoders : d # e => worker'[d] = worker[d]
  BY <1>2, LoadedFields DEF ShapeInv
<1>4. \A d \in Encoders :
        /\ worker'[d].owner = worker[d].owner
        /\ worker'[d].state \in {"loading", "loaded"} <=> worker[d].state \in {"loading", "loaded"}
        /\ worker[d].state = "loaded" => worker'[d].state = "loaded"
  BY <1>1, <1>3
<1>5. worker[e].owner # None
  <2>1. e \in Using
    BY <1>1 DEF LifeInv, NoStrayEncoder
  <2>2. e = starting.encoder \/ e = swapping.encoder \/ Current(e)
    BY <2>1 DEF Using, Current
  <2>3. ~Current(e)
    BY <1>1 DEF LifeInv, ActiveInv, Current
  <2>4. swapping.step # "none" /\ e = swapping.encoder => worker[e].owner # None
    BY DEF LifeInv, SwapInv
  <2>5. starting.step # "none" /\ e = starting.encoder => worker[e].owner # None
    BY <1>1, <2>3, Zero DEF LifeInv, StartInv, Open, ShapeInv, Starts
  <2>6. NoSwap.encoder = 0 /\ NoStart.encoder = 0
    BY DEF NoSwap, NoStart
  <2>7. swapping.step = "none" => swapping.encoder = 0
    BY <2>6 DEF LifeInv, SwapInv
  <2>8. starting.step = "none" => starting.encoder = 0
    BY <2>6 DEF LifeInv, StartInv
  <2> QED
    BY <2>2, <2>3, <2>4, <2>5, <2>7, <2>8, Zero
<1>6. ShapeInv'
  BY <1>1, <1>3 DEF ShapeInv
<1>7. StartInv'
  BY <1>1, <1>4 DEF LifeInv, StartInv, Open, Current
<1>8. SwapInv'
  BY <1>1, <1>4 DEF LifeInv, SwapInv, Open, Current
<1>9. ActiveInv'
  BY <1>1, <1>4 DEF LifeInv, ActiveInv
<1>10. \A d \in Encoders : QuietInv(d)'
  BY <1>3, <1>5 DEF LifeInv, QuietInv
<1>11. NoStrayEncoder'
  BY <1>1, <1>4 DEF LifeInv, NoStrayEncoder, Using
<1> QED
  BY <1>6, <1>7, <1>8, <1>9, <1>10, <1>11 DEF LifeInv

LEMMA ReadyLife ==
  ASSUME ShapeInv, LifeInv, NEW e \in Encoders, ReceiveReady(e)
  PROVE  ShapeInv' /\ LifeInv'
<1>0. worker[e] \in Worker /\ worker[e].outbox # <<>>
  BY HeadTyped DEF ReceiveReady
<1>1. UNCHANGED <<active, encoder, captured, last, done>>
  BY ReadyDoes
<1>2. Taken(worker[e]) \in Worker /\ Keeps(Taken(worker[e]), worker[e])
  BY <1>0, TakenFields
<1>3. worker[e].state \notin {"unused", "loading"} /\ worker[e].owner # None
  BY <1>0, Loads
<1>4. CASE /\ starting.step = "loading" /\ starting.encoder = e
           /\ starting' = [starting EXCEPT !.step = "connecting"]
           /\ worker' = [worker EXCEPT ![e] = Taken(worker[e])]
           /\ UNCHANGED swapping
  <2>1. /\ starting' \in Starts /\ starting'.step = "connecting"
        /\ starting'.session = starting.session /\ starting'.encoder = e
    BY <1>4 DEF ShapeInv, Starts
  <2>2. /\ worker' \in [Encoders -> Worker]
        /\ \A d \in Encoders : Keeps(worker'[d], worker[d])
        /\ \A d \in Encoders : d # e => worker'[d] = worker[d]
    BY <1>2, <1>4 DEF ShapeInv, Keeps
  <2>3. worker[e].state = "loaded"
    BY <1>0, <1>3, <1>4 DEF LifeInv, StartInv, Open
  <2>4. ShapeInv'
    BY <1>1, <1>4, <2>1, <2>2 DEF ShapeInv
  <2>5. StartInv'
    BY <1>1, <1>4, <2>1, <2>2, <2>3 DEF LifeInv, StartInv, Open, Keeps
  <2>6. swapping.step = "none" /\ swapping.step' = "none" /\ swapping.buffers' = swapping.buffers
    BY <1>4 DEF LifeInv, SwapInv, NoStart
  <2>7. SwapInv'
    BY <1>4, <2>6 DEF LifeInv, SwapInv
  <2>8. active = None
    BY <1>4 DEF LifeInv, StartInv
  <2>9. ActiveInv'
    BY <1>1, <2>8 DEF LifeInv, ActiveInv
  <2>10. \A d \in Encoders : QuietInv(d)'
    BY <1>3, <2>2 DEF LifeInv, QuietInv, Keeps
  <2>11. NoStrayEncoder'
    BY <1>1, <1>4, <2>1, <2>2 DEF LifeInv, NoStrayEncoder, Using, Keeps
  <2> QED
    BY <2>4, <2>5, <2>7, <2>9, <2>10, <2>11 DEF LifeInv
<1>5. CASE /\ swapping.step = "preparing" /\ swapping.encoder = e
           /\ active # None /\ encoder[active] \in Encoders /\ encoder[active] # e
           /\ swapping' = [swapping EXCEPT !.step = "flushing"]
           /\ worker' = [worker EXCEPT ![e] = Taken(worker[e]),
                           ![encoder[active]] = Asked(worker[encoder[active]])]
           /\ UNCHANGED starting
  <2> DEFINE c == encoder[active]
  <2>0. c \in Encoders /\ c # e /\ worker[c] \in Worker /\ worker[c].state = "loaded"
        /\ worker[c].owner # None
    BY <1>5 DEF ShapeInv, LifeInv, ActiveInv
  <2>1. /\ swapping' \in Swaps /\ swapping'.step = "flushing"
        /\ swapping'.session = swapping.session /\ swapping'.encoder = e
        /\ swapping'.buffers = swapping.buffers
    BY <1>5 DEF ShapeInv, Swaps
  <2>2. Asked(worker[c]) \in Worker /\ Keeps(Asked(worker[c]), worker[c])
    BY <2>0, AskedFields
  <2> HIDE DEF c
  <2>3. /\ worker' \in [Encoders -> Worker]
        /\ \A d \in Encoders : Keeps(worker'[d], worker[d])
        /\ \A d \in Encoders : d # e /\ d # c => worker'[d] = worker[d]
    BY <1>2, <1>5, <2>0, <2>2 DEF ShapeInv, Keeps, c
  <2>4. worker[e].state = "loaded"
    BY <1>0, <1>3, <1>5 DEF LifeInv, SwapInv, Open
  <2>5. ShapeInv'
    BY <1>1, <1>5, <2>1, <2>3 DEF ShapeInv
  <2>6. StartInv'
    BY <1>1, <1>5, <2>3 DEF LifeInv, StartInv, Open, Current, Keeps
  <2>7. SwapInv'
    BY <1>1, <1>5, <2>1, <2>3, <2>4 DEF LifeInv, SwapInv, Open, Current, Keeps
  <2>8. ActiveInv'
    BY <1>1, <1>5, <2>3 DEF LifeInv, ActiveInv, Keeps
  <2>9. \A d \in Encoders : QuietInv(d)'
    BY <1>3, <2>0, <2>3 DEF LifeInv, QuietInv, Keeps
  <2>10. NoStrayEncoder'
    BY <1>1, <1>5, <2>1, <2>3 DEF LifeInv, NoStrayEncoder, Using, Keeps
  <2> QED
    BY <2>5, <2>6, <2>7, <2>8, <2>9, <2>10 DEF LifeInv
<1>6. CASE /\ worker' = [worker EXCEPT ![e] = Taken(worker[e])]
           /\ UNCHANGED <<starting, swapping>>
  BY <1>0, <1>1, <1>6, TakenLife
<1> QED
  BY <1>4, <1>5, <1>6, ReadyDoes
(* The worker that is dropped, and the one that takes the blocks.          *)
LEMMA SwappedFields ==
  ASSUME ShapeInv, LifeInv, NEW e \in Encoders, worker[e].outbox # <<>>, Swapped(e)
  PROVE  LET next == swapping.encoder IN
         /\ next \in Encoders /\ next # e /\ worker[next] \in Worker
         /\ worker[next].state = "loaded" /\ worker[next].owner = active
         /\ swapping.buffers \in Seq(Blocks)
         /\ active \in Sessions /\ active # None /\ encoder[active] = e
         /\ worker' \in [Encoders -> Worker]
         /\ worker'[e] = Closed(Taken(worker[e])) /\ worker'[e].state = "closed"
         /\ worker'[e].owner = worker[e].owner
         /\ worker'[next] = Encode(worker[next], swapping.buffers)
         /\ Keeps(worker'[next], worker[next])
         /\ \A d \in Encoders : d # e /\ d # next => worker'[d] = worker[d]
         /\ encoder' \in [Sessions -> Encoders \cup {0}] /\ encoder'[active] = next
         /\ \A s \in Sessions : s # active => encoder'[s] = encoder[s]
         /\ swapping' = NoSwap /\ NoSwap \in Swaps /\ NoSwap.step = "none"
         /\ NoSwap.buffers = <<>> /\ NoSwap.encoder = 0
         /\ starting = NoStart /\ NoStart.step = "none" /\ NoStart.encoder = 0
         /\ UNCHANGED <<active, starting, captured, last>>
<1> DEFINE next == swapping.encoder
           blocks == swapping.buffers
<1>1. /\ swapping.step = "flushing" /\ active # None /\ active \in Sessions /\ encoder[active] = e
      /\ next \in Encoders /\ next # e
      /\ encoder' = [encoder EXCEPT ![active] = next]
      /\ worker' = [worker EXCEPT ![e] = Closed(Taken(worker[e])),
                                  ![next] = Encode(worker[next], blocks)]
      /\ swapping' = NoSwap /\ UNCHANGED <<active, starting, captured, last>>
  BY DEF Swapped, ShapeInv
<1>2. /\ worker[next] \in Worker /\ worker[next].state = "loaded" /\ worker[next].owner = active
      /\ blocks \in Seq(Blocks) /\ starting = NoStart
  BY <1>1 DEF ShapeInv, Swaps, LifeInv, SwapInv
<1>3. Encode(worker[next], blocks) \in Worker /\ Keeps(Encode(worker[next], blocks), worker[next])
  BY <1>2, EncodeFields
<1>4. worker[e] \in Worker
  BY DEF ShapeInv
<1>5. /\ Closed(Taken(worker[e])) \in Worker /\ Closed(Taken(worker[e])).state = "closed"
      /\ Closed(Taken(worker[e])).owner = worker[e].owner
  BY <1>4, TakenFields, ClosedFields DEF Keeps
<1>6. /\ NoSwap \in Swaps /\ NoSwap.step = "none" /\ NoSwap.buffers = <<>> /\ NoSwap.encoder = 0
      /\ NoStart.step = "none" /\ NoStart.encoder = 0
  <2>1. <<>> \in Seq(Blocks)
    OBVIOUS
  <2> QED
    BY <2>1 DEF NoSwap, Swaps, NoStart
<1> HIDE DEF next, blocks
<1>7. /\ worker' \in [Encoders -> Worker]
      /\ worker'[e] = Closed(Taken(worker[e])) /\ worker'[next] = Encode(worker[next], blocks)
      /\ \A d \in Encoders : d # e /\ d # next => worker'[d] = worker[d]
  BY <1>1, <1>3, <1>5 DEF ShapeInv
<1>8. /\ encoder' \in [Sessions -> Encoders \cup {0}] /\ encoder'[active] = next
      /\ \A s \in Sessions : s # active => encoder'[s] = encoder[s]
  BY <1>1 DEF ShapeInv
<1> QED
  BY <1>1, <1>2, <1>3, <1>5, <1>6, <1>7, <1>8 DEF next, blocks

LEMMA SwappedLife ==
  ASSUME ShapeInv, LifeInv, NEW e \in Encoders, worker[e].outbox # <<>>, Swapped(e)
  PROVE  ShapeInv' /\ LifeInv'
<1> DEFINE next == swapping.encoder
           blocks == swapping.buffers
<1>1. /\ next \in Encoders /\ next # e /\ worker[next] \in Worker
      /\ worker[next].state = "loaded" /\ worker[next].owner = active
      /\ blocks \in Seq(Blocks)
      /\ active \in Sessions /\ active # None /\ encoder[active] = e
      /\ worker' \in [Encoders -> Worker]
      /\ worker'[e] = Closed(Taken(worker[e])) /\ worker'[e].state = "closed"
      /\ worker'[e].owner = worker[e].owner
      /\ worker'[next] = Encode(worker[next], blocks)
      /\ Keeps(worker'[next], worker[next])
      /\ \A d \in Encoders : d # e /\ d # next => worker'[d] = worker[d]
      /\ encoder' \in [Sessions -> Encoders \cup {0}] /\ encoder'[active] = next
      /\ \A s \in Sessions : s # active => encoder'[s] = encoder[s]
      /\ swapping' = NoSwap /\ NoSwap \in Swaps /\ NoSwap.step = "none"
      /\ NoSwap.buffers = <<>> /\ NoSwap.encoder = 0
      /\ starting = NoStart /\ NoStart.step = "none" /\ NoStart.encoder = 0
      /\ UNCHANGED <<active, starting, captured, last>>
  BY SwappedFields
<1>2. done' \in [Sessions -> SUBSET Nat]
  <2> DEFINE lost == Elements(blocks) \ Elements(Accepted(worker[next], blocks))
  <2>1. lost \in SUBSET Nat
    <3>1. blocks \in Seq(Blocks) /\ Blocks \subseteq Nat
      BY <1>1 DEF Blocks
    <3> HIDE DEF blocks
    <3>2. Elements(blocks) \in SUBSET Nat
      <4>1. \A n \in DOMAIN blocks : blocks[n] \in Blocks
        BY <3>1
      <4> QED
        BY <3>1, <4>1 DEF Elements
    <3> QED
      BY <3>2
  <2>2. done' = [done EXCEPT ![active] = @ \cup lost]
    BY DEF Swapped, Account
  <2> HIDE DEF lost
  <2> QED
    BY <1>1, <2>1, <2>2 DEF ShapeInv
<1> HIDE DEF next, blocks
<1>3. ShapeInv'
  <2>1. MaxBuffered \in Nat
    BY AudioAssumption
  <2>2. Len(swapping'.buffers) <= MaxBuffered
    BY <1>1, <2>1
  <2> QED
    BY <1>1, <1>2, <2>2 DEF ShapeInv
<1>4. StartInv' /\ SwapInv'
  BY <1>1 DEF StartInv, SwapInv
<1>5. ActiveInv'
  BY <1>1, Zero DEF LifeInv, ActiveInv, Keeps
<1>6. \A d \in Encoders : QuietInv(d)'
  <2>1. worker[e].owner # None /\ worker[next].owner # None
    BY <1>1, Loads
  <2> QED
    BY <1>1, <2>1 DEF LifeInv, QuietInv, Keeps
<1>7. NoStrayEncoder'
  <2>1. Using = {0, next, e}
    BY <1>1 DEF Using, next
  <2>2. next \in Using'
    BY <1>1 DEF Using
  <2> QED
    BY <1>1, <2>1, <2>2, Zero DEF LifeInv, NoStrayEncoder
<1> QED
  BY <1>3, <1>4, <1>5, <1>6, <1>7 DEF LifeInv

LEMMA FlushedLife ==
  ASSUME ShapeInv, LifeInv, NEW e \in Encoders, ReceiveFlushed(e)
  PROVE  ShapeInv' /\ LifeInv'
<1>0. worker[e].outbox # <<>>
  BY HeadTyped DEF ReceiveFlushed
<1> QED
  BY <1>0, FlushedDoes, SwappedLife, TakenLife

(* A start that fails while its encoder loads.                             *)
LEMMA StartFails ==
  ASSUME ShapeInv, LifeInv, starting.step = "loading",
         starting' = NoStart, worker' = Close({starting.encoder}),
         UNCHANGED <<active, swapping, encoder, captured, last, done>>
  PROVE  ShapeInv' /\ LifeInv'
<1> DEFINE e == starting.encoder
<1>1. /\ active = None /\ e \in Encoders /\ Open(e)
  BY DEF LifeInv, StartInv
<1>2. NoStart \in Starts /\ NoStart.step = "none" /\ NoStart.encoder = 0
  BY DEF NoStart, Starts
<1>3. /\ worker' \in [Encoders -> Worker] /\ worker'[e].state = "closed"
      /\ \A d \in Encoders : d # e => worker'[d] = worker[d]
  <2>1. e \in {e} \cap Encoders /\ \A d : d # e => d \notin {e}
    BY <1>1
  <2> HIDE DEF e
  <2> QED
    BY <2>1, CloseFields DEF e
<1>4. /\ swapping.step = "none" /\ swapping.encoder = 0
  BY <1>1 DEF LifeInv, SwapInv, NoSwap, ShapeInv, Swaps
<1>5. ShapeInv'
  BY <1>2, <1>3 DEF ShapeInv
<1>6. StartInv' /\ SwapInv' /\ ActiveInv'
  BY <1>1, <1>2, <1>4 DEF LifeInv, StartInv, SwapInv, ActiveInv
<1>7. \A d \in Encoders : QuietInv(d)'
  BY CloseQuiet DEF LifeInv
<1>8. NoStrayEncoder'
  <2>1. Using = {e, 0}
    BY <1>1, <1>4 DEF Using
  <2> QED
    BY <1>3, <2>1, Zero DEF LifeInv, NoStrayEncoder
<1> QED
  BY <1>5, <1>6, <1>7, <1>8 DEF LifeInv

LEMMA ErrorLife ==
  ASSUME ShapeInv, LifeInv, NEW e \in Encoders, ReceiveError(e)
  PROVE  ShapeInv' /\ LifeInv'
<1>0. worker[e].outbox # <<>>
  BY HeadTyped DEF ReceiveError
<1>1. UNCHANGED <<session, history>> /\ UNCHANGED <<encoder, captured, last, done>>
  BY ErrorDoes DEF session, history
<1>2. CASE /\ starting.step = "loading" /\ starting.encoder = e
           /\ starting' = NoStart /\ worker' = Close({e})
           /\ UNCHANGED <<active, swapping>>
  BY <1>1, <1>2, StartFails
<1>3. CASE /\ swapping.step = "preparing" /\ swapping.encoder = e
           /\ swapping' = NoSwap /\ worker' = Close({e})
           /\ UNCHANGED <<active, starting>>
  BY <1>1, <1>3, SwapDropped
<1>4. CASE active # None /\ Cleanup(active) /\ UNCHANGED starting
  BY <1>1, <1>4, CleanupLife
<1>5. CASE /\ worker' = [worker EXCEPT ![e] = Taken(worker[e])]
           /\ UNCHANGED <<active, starting, swapping>>
  BY <1>0, <1>1, <1>5, TakenLife
<1> QED
  BY <1>2, <1>3, <1>4, <1>5, ErrorDoes

LEMMA LifeNext == ShapeInv /\ LifeInv /\ [Next]_vars => ShapeInv' /\ LifeInv'
<1> SUFFICES ASSUME ShapeInv, LifeInv, [Next]_vars PROVE ShapeInv' /\ LifeInv'
  OBVIOUS
<1>1. CASE Connect
  BY <1>1, ConnectLife
<1>2. CASE Started
  BY <1>2, StartedLife
<1>3. CASE Stop
  BY <1>3, CleanupLife DEF Stop
<1>4. CASE SwitchMode
  BY <1>4, SwitchModeLife
<1>5. CASE ReadyTimeout
  BY <1>5, SwapDropped DEF ReadyTimeout
<1>6. ASSUME NEW s \in Sessions, Start(s) \/ Capture(s) PROVE ShapeInv' /\ LifeInv'
  BY <1>6, StartLife, CaptureLife
<1>7. ASSUME NEW e \in Encoders, Deliver(e) PROVE ShapeInv' /\ LifeInv'
  BY <1>7, ReadyLife, PacketLife, ConsumedLife, FlushedLife, ErrorLife DEF Deliver
<1>8. ASSUME NEW e \in Encoders, Load(e) \/ Consume(e) \/ Output(e) \/ Break(e) \/ Fail(e)
      PROVE  ShapeInv' /\ LifeInv'
  BY <1>8, LoadLife, WorkLife
<1>9. CASE UNCHANGED vars
  <2>1. UNCHANGED <<active, starting, swapping, encoder, captured, worker, last, done>>
    BY <1>9 DEF vars, session, history
  <2>2. ShapeInv'
    BY <2>1 DEF ShapeInv
  <2>3. LifeInv'
    BY <2>1 DEF LifeInv, StartInv, SwapInv, ActiveInv, QuietInv, NoStrayEncoder, Using, Open, Current
  <2> QED
    BY <2>2, <2>3
<1> QED
  BY <1>1, <1>2, <1>3, <1>4, <1>5, <1>6, <1>7, <1>8, <1>9 DEF Next
-----------------------------------------------------------------------------
(* Second part: what is between the page and the codec of a worker.        *)

(* A flush is the last thing asked of a worker, and answered last.         *)
FlushLast(w) ==
  /\ \A n \in DOMAIN w.inbox : w.inbox[n] = Flush => n = Len(w.inbox)
  /\ \A n \in DOMAIN w.codec : w.codec[n] = Flush => n = Len(w.codec) /\ w.inbox = <<>>
  /\ \A n \in DOMAIN w.outbox : w.outbox[n].type = "flushed" =>
       n = Len(w.outbox) /\ w.codec = <<>> /\ w.inbox = <<>>

NoFlush(w) ==
  /\ \A n \in DOMAIN w.inbox : w.inbox[n] # Flush
  /\ \A n \in DOMAIN w.codec : w.codec[n] # Flush
  /\ \A n \in DOMAIN w.outbox : w.outbox[n].type # "flushed"

(* Packets and acknowledgements report the codec's queue.                  *)
Reports(m) == m.type \in {"packet", "consumed"}

(* The page counts every block in the inbox and every block acknowledged   *)
(* but not yet heard of; a report, and the page's own figure, fall short   *)
(* of the codec's queue at most by the acknowledgements that follow.       *)
Counted(w) ==
  /\ Queued(w.inbox) + Consumed(w.outbox, 0) <= w.pending
  /\ Queued(w.codec) <= w.queue + Consumed(w.outbox, 0)
  /\ \A n \in DOMAIN w.outbox : Reports(w.outbox[n]) =>
       Queued(w.codec) <= w.outbox[n].queue + Consumed(w.outbox, n)
  /\ Queued(w.inbox) + Queued(w.codec) <= MaxBuffered

Busy(w, flushing) == FlushLast(w) /\ (flushing \/ NoFlush(w)) /\ Counted(w)

Idle(w) ==
  /\ w.inbox = <<>> /\ w.codec = <<>>
  /\ w.state \in {"loading", "loaded"} =>
       /\ w.pending = 0 /\ w.queue = 0
       /\ \A n \in DOMAIN w.outbox : w.outbox[n].type \in {"ready", "error"}

PipeInv ==
  \A e \in Encoders :
    /\ Current(e) => Busy(worker[e], swapping.step = "flushing")
    /\ ~Current(e) => Idle(worker[e])

LEMMA ConsumingCounted ==
  ASSUME NEW w \in Worker, w.inbox # <<>>, Counted(w)
  PROVE  Counted(Consuming(w))
<1> DEFINE v == Consuming(w)
           block == Head(w.inbox)
           codec == Append(w.codec, block)
           m == Post("consumed", 0, Queued(codec))
<1>1. /\ v \in Worker /\ block \in Items /\ codec \in Seq(Items) /\ m \in Sound
      /\ v.pending = w.pending /\ v.queue = w.queue
      /\ v.inbox = Tail(w.inbox) /\ v.codec = codec
      /\ v.outbox = IF block = Flush THEN w.outbox ELSE Append(w.outbox, m)
  BY ConsumingFields
<1>2. /\ w.inbox \in Seq(Items) /\ w.codec \in Seq(Items) /\ w.outbox \in Seq(Sound)
      /\ w.pending \in Nat /\ w.queue \in Nat /\ MaxBuffered \in Nat
  BY AudioAssumption DEF Worker
<1>3. m.type = "consumed" /\ m.queue = Queued(codec)
  BY DEF Post
<1>4. Queued(codec) = IF block = Flush THEN Queued(w.codec) ELSE Queued(w.codec) + 1
  BY <1>1, <1>2, QueuedAppend
<1>5. Queued(w.inbox) = IF block = Flush THEN Queued(Tail(w.inbox)) ELSE Queued(Tail(w.inbox)) + 1
  BY <1>2, QueuedTail
<1>6. /\ Queued(w.codec) \in Nat /\ Queued(w.inbox) \in Nat /\ Queued(Tail(w.inbox)) \in Nat
      /\ Queued(codec) \in Nat
  <2>1. Tail(w.inbox) \in Seq(Items)
    BY <1>2
  <2> QED
    BY <1>1, <1>2, <2>1, PlacesFinite
<1>7. \A n \in 0 .. Len(w.outbox) :
        /\ Consumed(w.outbox, n) \in Nat
        /\ Consumed(Append(w.outbox, m), n) = Consumed(w.outbox, n) + 1
  <2> SUFFICES ASSUME NEW n \in 0 .. Len(w.outbox)
               PROVE  /\ Consumed(w.outbox, n) \in Nat
                      /\ Consumed(Append(w.outbox, m), n) = Consumed(w.outbox, n) + 1
    OBVIOUS
  <2>1. n \in Nat
    BY <1>2
  <2> HIDE DEF m
  <2> QED
    BY <1>1, <1>2, <1>3, <2>1, ConsumedAppend, AfterFinite
<1>7a. 0 \in 0 .. Len(w.outbox) /\ Consumed(w.outbox, 0) \in Nat
  <2>1. 0 \in 0 .. Len(w.outbox)
    BY <1>2
  <2> QED
    BY <1>7, <2>1
<1> HIDE DEF v, m, codec, block
<1>8. CASE block = Flush
  <2>1. v.outbox = w.outbox /\ Queued(v.codec) = Queued(w.codec) /\ Queued(v.inbox) = Queued(w.inbox)
    BY <1>1, <1>4, <1>5, <1>6, <1>8
  <2>2. v.pending = w.pending /\ v.queue = w.queue
    BY <1>1
  <2> QED
    BY <2>1, <2>2, Zenon DEF Counted, v
<1>9. CASE block # Flush
  <2> DEFINE o == Append(w.outbox, m)
  <2>1. v.outbox = o
    BY <1>1, <1>9
  <2>2. o \in Seq(Sound) /\ Len(o) = Len(w.outbox) + 1 /\ o[Len(o)] = m
        /\ \A n \in 1 .. Len(w.outbox) : o[n] = w.outbox[n]
    BY <1>1, <1>2
  <2>3. Consumed(o, 0) = Consumed(w.outbox, 0) + 1 /\ Consumed(w.outbox, 0) \in Nat
    BY <1>7, <1>7a
  <2>4. Consumed(o, Len(o)) \in Nat
    <3>1. Len(o) \in Nat
      BY <2>2
    <3> HIDE DEF o
    <3> QED
      BY <2>2, <3>1, AfterFinite
  <2>5. \A n \in DOMAIN o : Reports(o[n]) => Queued(codec) <= o[n].queue + Consumed(o, n)
    <3> SUFFICES ASSUME NEW n \in DOMAIN o, Reports(o[n])
                 PROVE  Queued(codec) <= o[n].queue + Consumed(o, n)
      OBVIOUS
    <3>1. CASE n = Len(o)
      BY <1>3, <1>6, <2>2, <2>4, <3>1
    <3>2. CASE n # Len(o)
      <4>1. n \in 1 .. Len(w.outbox) /\ o[n] = w.outbox[n] /\ w.outbox[n] \in Sound
        BY <1>2, <2>2, <3>2
      <4>2. Queued(w.codec) <= w.outbox[n].queue + Consumed(w.outbox, n)
        BY <1>2, <4>1 DEF Counted
      <4>3. w.outbox[n].queue \in Nat
        BY <4>1 DEF Sound, Messages
      <4>4. /\ Consumed(o, n) = Consumed(w.outbox, n) + 1 /\ Consumed(w.outbox, n) \in Nat
        BY <1>2, <1>7, <4>1
      <4> QED
        BY <1>4, <1>6, <1>9, <4>1, <4>2, <4>3, <4>4
    <3> QED
      BY <3>1, <3>2
  <2> HIDE DEF o
  <2>6. /\ Queued(v.inbox) + Consumed(v.outbox, 0) <= v.pending
        /\ Queued(v.codec) <= v.queue + Consumed(v.outbox, 0)
        /\ Queued(v.inbox) + Queued(v.codec) <= MaxBuffered
    <3>1. /\ Queued(w.inbox) + Consumed(w.outbox, 0) <= w.pending
          /\ Queued(w.codec) <= w.queue + Consumed(w.outbox, 0)
          /\ Queued(w.inbox) + Queued(w.codec) <= MaxBuffered
      BY DEF Counted
    <3>2. /\ Queued(w.inbox) = Queued(v.inbox) + 1 /\ Queued(v.inbox) \in Nat
          /\ Queued(v.codec) = Queued(w.codec) + 1 /\ Queued(w.codec) \in Nat
          /\ v.pending = w.pending /\ v.queue = w.queue
      BY <1>1, <1>4, <1>5, <1>6, <1>9
    <3>3. Consumed(v.outbox, 0) = Consumed(w.outbox, 0) + 1 /\ Consumed(w.outbox, 0) \in Nat
      BY <2>1, <2>3
    <3>4. w.pending \in Nat /\ w.queue \in Nat /\ MaxBuffered \in Nat
      BY <1>2
    <3>5. Queued(v.inbox) + Consumed(v.outbox, 0) <= v.pending
      BY <3>1, <3>2, <3>3, <3>4
    <3>6. Queued(v.codec) <= v.queue + Consumed(v.outbox, 0)
      BY <3>1, <3>2, <3>3, <3>4
    <3>7. Queued(v.inbox) + Queued(v.codec) <= MaxBuffered
      BY <3>1, <3>2, <3>4
    <3> QED
      BY <3>5, <3>6, <3>7
  <2>7. v.outbox = o /\ v.codec = codec
    BY <1>1, <2>1
  <2> QED
    BY <2>5, <2>6, <2>7, Zenon DEF Counted, v
<1> QED
  BY <1>8, <1>9 DEF v

(* The codec's queue gets no longer and the inbox no fuller, and a message *)
(* that acknowledges nothing is posted.                                    *)
LEMMA PostedCounted ==
  ASSUME NEW w \in Worker, Counted(w), NEW v \in Worker, NEW m \in Sound,
         v.outbox = Append(w.outbox, m), m.type # "consumed",
         Reports(m) => m.queue = Queued(v.codec),
         v.pending = w.pending, v.queue = w.queue,
         Queued(v.inbox) <= Queued(w.inbox), Queued(v.codec) <= Queued(w.codec)
  PROVE  Counted(v)
<1>1. /\ w.inbox \in Seq(Items) /\ w.codec \in Seq(Items) /\ w.outbox \in Seq(Sound)
      /\ v.inbox \in Seq(Items) /\ v.codec \in Seq(Items) /\ v.outbox \in Seq(Sound)
      /\ w.pending \in Nat /\ w.queue \in Nat /\ MaxBuffered \in Nat
  BY AudioAssumption DEF Worker
<1>2. /\ Queued(w.codec) \in Nat /\ Queued(w.inbox) \in Nat
      /\ Queued(v.codec) \in Nat /\ Queued(v.inbox) \in Nat
  BY <1>1, PlacesFinite
<1> DEFINE o == v.outbox
<1>3. Len(o) = Len(w.outbox) + 1 /\ o[Len(o)] = m
      /\ \A n \in 1 .. Len(w.outbox) : o[n] = w.outbox[n]
  BY <1>1
<1>4. \A n \in 0 .. Len(w.outbox) :
        /\ Consumed(w.outbox, n) \in Nat
        /\ Consumed(o, n) = Consumed(w.outbox, n)
  <2> SUFFICES ASSUME NEW n \in 0 .. Len(w.outbox)
               PROVE  /\ Consumed(w.outbox, n) \in Nat
                      /\ Consumed(o, n) = Consumed(w.outbox, n)
    OBVIOUS
  <2>1. n \in Nat
    BY <1>1
  <2> QED
    BY <1>1, <2>1, ConsumedAppend, AfterFinite
<1>5. Consumed(o, 0) = Consumed(w.outbox, 0) /\ Consumed(w.outbox, 0) \in Nat
  <2>1. 0 \in 0 .. Len(w.outbox)
    BY <1>1
  <2> QED
    BY <1>4, <2>1
<1>6. Consumed(o, Len(o)) \in Nat
  <2>1. Len(o) \in Nat
    BY <1>1
  <2> QED
    BY <1>1, <2>1, AfterFinite
<1>7. \A n \in DOMAIN o : Reports(o[n]) => Queued(v.codec) <= o[n].queue + Consumed(o, n)
  <2> SUFFICES ASSUME NEW n \in DOMAIN o, Reports(o[n])
               PROVE  Queued(v.codec) <= o[n].queue + Consumed(o, n)
    OBVIOUS
  <2>1. CASE n = Len(o)
    BY <1>2, <1>3, <1>6, <2>1
  <2>2. CASE n # Len(o)
    <3>1. n \in 1 .. Len(w.outbox) /\ o[n] = w.outbox[n] /\ w.outbox[n] \in Sound
      BY <1>1, <1>3, <2>2
    <3>2. Queued(w.codec) <= w.outbox[n].queue + Consumed(w.outbox, n)
      BY <1>1, <3>1 DEF Counted
    <3>3. w.outbox[n].queue \in Nat
      BY <3>1 DEF Sound, Messages
    <3>4. /\ Consumed(o, n) = Consumed(w.outbox, n) /\ Consumed(w.outbox, n) \in Nat
      BY <1>1, <1>4, <3>1
    <3> QED
      BY <1>2, <3>1, <3>2, <3>3, <3>4
  <2> QED
    BY <2>1, <2>2
<1>8. /\ Queued(v.inbox) + Consumed(o, 0) <= v.pending
      /\ Queued(v.codec) <= v.queue + Consumed(o, 0)
      /\ Queued(v.inbox) + Queued(v.codec) <= MaxBuffered
  <2>1. /\ Queued(w.inbox) + Consumed(w.outbox, 0) <= w.pending
        /\ Queued(w.codec) <= w.queue + Consumed(w.outbox, 0)
        /\ Queued(w.inbox) + Queued(w.codec) <= MaxBuffered
    BY DEF Counted
  <2>2. w.pending \in Nat /\ w.queue \in Nat /\ MaxBuffered \in Nat
    BY <1>1
  <2>3. v.pending = w.pending /\ v.queue = w.queue
    OBVIOUS
  <2> HIDE DEF o
  <2>4. Queued(v.inbox) <= Queued(w.inbox) /\ Queued(v.codec) <= Queued(w.codec)
    OBVIOUS
  <2>5. Queued(v.inbox) + Consumed(o, 0) <= v.pending
    BY <1>2, <1>5, <2>1, <2>2, <2>3, <2>4
  <2>6. Queued(v.codec) <= v.queue + Consumed(o, 0)
    BY <1>2, <1>5, <2>1, <2>2, <2>3, <2>4
  <2>7. Queued(v.inbox) + Queued(v.codec) <= MaxBuffered
    BY <1>2, <2>1, <2>2, <2>4
  <2> QED
    BY <2>5, <2>6, <2>7
<1> QED
  BY <1>7, <1>8 DEF Counted

LEMMA PuttingCounted ==
  ASSUME NEW w \in Worker, w.codec # <<>>, Counted(w)
  PROVE  Counted(Putting(w))
<1> DEFINE v == Putting(w)
           m == IF Head(w.codec) = Flush THEN Post("flushed", 0, 0)
                ELSE Post("packet", Head(w.codec), Queued(Tail(w.codec)))
<1>1. /\ v \in Worker /\ m \in Sound /\ Tail(w.codec) \in Seq(Items)
      /\ v.pending = w.pending /\ v.queue = w.queue /\ v.inbox = w.inbox
      /\ v.codec = Tail(w.codec) /\ v.outbox = Append(w.outbox, m)
  BY PuttingFields
<1>2. m.type # "consumed" /\ (Reports(m) => m.queue = Queued(Tail(w.codec)))
  BY DEF Post, Reports
<1>3. w.inbox \in Seq(Items) /\ w.codec \in Seq(Items)
  BY DEF Worker
<1>4. Queued(Tail(w.codec)) <= Queued(w.codec) /\ Queued(w.inbox) \in Nat
  <2>1. Queued(w.inbox) \in Nat /\ Queued(Tail(w.codec)) \in Nat
    BY <1>1, <1>3, PlacesFinite
  <2> QED
    BY <1>3, <2>1, QueuedTail
<1>5. Queued(v.inbox) <= Queued(w.inbox) /\ Queued(v.codec) <= Queued(w.codec)
  BY <1>1, <1>4
<1> HIDE DEF v, m
<1>6. Counted(v)
  BY <1>1, <1>2, <1>5, PostedCounted
<1> QED
  BY <1>6 DEF v

LEMMA BreakingCounted ==
  ASSUME NEW w \in Worker, w.inbox # <<>>, Counted(w)
  PROVE  Counted(Breaking(w))
<1> DEFINE v == Breaking(w)
           m == Post("error", 0, 0)
<1>1. /\ v \in Worker /\ v.pending = w.pending /\ v.queue = w.queue
      /\ v.inbox = Tail(w.inbox) /\ v.codec = w.codec /\ v.outbox = Append(w.outbox, m)
  BY BreakingFields
<1>2. m \in Sound /\ m.type # "consumed" /\ ~Reports(m)
  BY DEF Post, Reports, Sound, Messages
<1>3. w.inbox \in Seq(Items) /\ w.codec \in Seq(Items) /\ Tail(w.inbox) \in Seq(Items)
  BY DEF Worker
<1>4. Queued(Tail(w.inbox)) <= Queued(w.inbox) /\ Queued(w.codec) \in Nat
  <2>1. Queued(w.codec) \in Nat /\ Queued(Tail(w.inbox)) \in Nat
    BY <1>3, PlacesFinite
  <2> QED
    BY <1>3, <2>1, QueuedTail
<1>5. Queued(v.inbox) <= Queued(w.inbox) /\ Queued(v.codec) <= Queued(w.codec)
  BY <1>1, <1>4
<1> HIDE DEF v, m
<1>6. Counted(v)
  BY <1>1, <1>2, <1>5, PostedCounted
<1> QED
  BY <1>6 DEF v

LEMMA FailedCounted ==
  ASSUME NEW w \in Worker, Counted(w)
  PROVE  Counted(Failed(w))
<1> DEFINE v == Failed(w)
           m == Post("error", 0, 0)
<1>1. /\ v \in Worker /\ v.pending = w.pending /\ v.queue = w.queue
      /\ v.inbox = w.inbox /\ v.codec = <<>> /\ v.outbox = Append(w.outbox, m)
  BY FailedFields
<1>2. m \in Sound /\ m.type # "consumed" /\ ~Reports(m)
  BY DEF Post, Reports, Sound, Messages
<1>3. w.inbox \in Seq(Items) /\ w.codec \in Seq(Items)
  BY DEF Worker
<1>4. Queued(w.inbox) \in Nat /\ Queued(w.codec) \in Nat /\ Queued(<<>>) = 0
  BY <1>3, PlacesFinite, QueuedEmpty
<1> HIDE DEF v, m
<1>5. Queued(v.inbox) <= Queued(w.inbox) /\ Queued(v.codec) <= Queued(w.codec)
  BY <1>1, <1>4
<1>6. Counted(v)
  BY <1>1, <1>2, <1>5, PostedCounted
<1> QED
  BY <1>6 DEF v

(* The page hears a report: it takes over the figure, and one block fewer  *)
(* is pending when the report acknowledges one.                            *)
LEMMA ReportCounted ==
  ASSUME NEW w \in Worker, Counted(w), w.outbox # <<>>, Reports(Head(w.outbox)),
         NEW v \in Worker, v.inbox = w.inbox, v.codec = w.codec, v.outbox = Tail(w.outbox),
         v.queue = Head(w.outbox).queue,
         Head(w.outbox).type # "consumed" => v.pending = w.pending,
         Head(w.outbox).type = "consumed" =>
           v.pending = IF w.pending > 0 THEN w.pending - 1 ELSE 0
  PROVE  Counted(v)
<1> DEFINE o == w.outbox
           q == Tail(o)
<1>1. /\ w.inbox \in Seq(Items) /\ w.codec \in Seq(Items) /\ o \in Seq(Sound) /\ q \in Seq(Sound)
      /\ w.pending \in Nat /\ w.queue \in Nat /\ MaxBuffered \in Nat
  BY AudioAssumption DEF Worker
<1>2. Queued(w.codec) \in Nat /\ Queued(w.inbox) \in Nat
  BY <1>1, PlacesFinite
<1>3. /\ Len(q) = Len(o) - 1 /\ Len(o) \in Nat /\ o[1] = Head(o) /\ 1 \in DOMAIN o
      /\ \A n \in DOMAIN q : q[n] = o[n + 1] /\ n + 1 \in DOMAIN o /\ n \in Nat
  BY <1>1
<1>4. Consumed(o, 0) = IF Head(o).type = "consumed" THEN Consumed(o, 1) + 1 ELSE Consumed(o, 1)
  BY <1>1, ConsumedTail
<1>5. \A n \in Nat : Consumed(q, n) = Consumed(o, n + 1)
  BY <1>1, ConsumedTail
<1>6. Consumed(o, 1) \in Nat /\ Consumed(q, 0) = Consumed(o, 1)
  <2>1. 0 \in Nat /\ 1 \in Nat /\ 0 + 1 = 1
    OBVIOUS
  <2>2. Consumed(q, 0) = Consumed(o, 0 + 1)
    BY <1>5, <2>1
  <2>3. Consumed(o, 1) \in Nat
    BY <1>1, <2>1, AfterFinite
  <2> QED
    BY <2>2, <2>3
<1>7. /\ Queued(w.inbox) + Consumed(o, 0) <= w.pending
      /\ Queued(w.codec) <= Head(o).queue + Consumed(o, 1)
      /\ Queued(w.inbox) + Queued(w.codec) <= MaxBuffered
  BY <1>3 DEF Counted
<1>8. \A n \in DOMAIN q : Reports(q[n]) => Queued(w.codec) <= q[n].queue + Consumed(q, n)
  BY <1>3, <1>5 DEF Counted
<1>9. Queued(w.inbox) + Consumed(q, 0) <= v.pending
  <2> HIDE DEF o, q
  <2>1. CASE Head(o).type = "consumed"
    BY <1>1, <1>2, <1>4, <1>6, <1>7, <2>1 DEF o
  <2>2. CASE Head(o).type # "consumed"
    BY <1>1, <1>2, <1>4, <1>6, <1>7, <2>2 DEF o
  <2> QED
    BY <2>1, <2>2
<1>10. v.outbox = q /\ Queued(w.codec) <= v.queue + Consumed(q, 0)
  BY <1>6, <1>7
<1> HIDE DEF o, q
<1> QED
  BY <1>7, <1>8, <1>9, <1>10 DEF Counted

LEMMA EncodeCounted ==
  ASSUME NEW w \in Worker, Counted(w), NEW blocks \in Seq(Blocks)
  PROVE  Counted(Encode(w, blocks))
<1> DEFINE v == Encode(w, blocks)
           a == Accepted(w, blocks)
<1>1. /\ v \in Worker /\ v.pending = w.pending + Len(a) /\ v.queue = w.queue
      /\ v.inbox = w.inbox \o a /\ v.codec = w.codec /\ v.outbox = w.outbox
  BY EncodeFields
<1>2. /\ a \in Seq(Items) /\ Len(a) \in Nat
      /\ Len(a) = 0 \/ Len(a) <= MaxBuffered - (w.pending + w.queue)
  BY AcceptedSeq
<1>3. /\ w.inbox \in Seq(Items) /\ w.codec \in Seq(Items) /\ w.outbox \in Seq(Sound)
      /\ w.pending \in Nat /\ w.queue \in Nat /\ MaxBuffered \in Nat
  BY AudioAssumption DEF Worker
<1> HIDE DEF v, a
<1>4. Queued(v.inbox) <= Queued(w.inbox) + Len(a)
  BY <1>1, <1>2, <1>3, QueuedConcat
<1>5. Queued(v.inbox) \in Nat /\ Queued(w.inbox) \in Nat /\ Queued(w.codec) \in Nat
  BY <1>1, <1>3, PlacesFinite DEF Worker
<1>6. Consumed(w.outbox, 0) \in Nat
  BY <1>3, AfterFinite
<1>7. /\ Queued(w.inbox) + Consumed(w.outbox, 0) <= w.pending
      /\ Queued(w.codec) <= w.queue + Consumed(w.outbox, 0)
      /\ Queued(w.inbox) + Queued(w.codec) <= MaxBuffered
  BY DEF Counted
<1>8. Queued(v.inbox) + Consumed(w.outbox, 0) <= v.pending
  BY <1>1, <1>2, <1>3, <1>4, <1>5, <1>6, <1>7
<1>9. Queued(v.inbox) + Queued(w.codec) <= MaxBuffered
  <2>1. w.pending \in Nat /\ w.queue \in Nat /\ MaxBuffered \in Nat
    BY <1>3
  <2>2. CASE Len(a) = 0
    BY <1>4, <1>5, <1>7, <2>1, <2>2
  <2>3. CASE Len(a) <= MaxBuffered - (w.pending + w.queue)
    BY <1>2, <1>4, <1>5, <1>6, <1>7, <2>1, <2>3
  <2> QED
    BY <1>2, <2>2, <2>3
<1>10. Counted(v)
  BY <1>1, <1>8, <1>9 DEF Counted
<1> QED
  BY <1>10 DEF v

LEMMA AskedCounted ==
  ASSUME NEW w \in Worker, Counted(w)
  PROVE  Counted(Asked(w))
<1>1. w.inbox \in Seq(Items) /\ Flush \in Items
  BY DEF Worker, Items
<1>2. Queued(Append(w.inbox, Flush)) = Queued(w.inbox)
  BY <1>1, QueuedAppend
<1> QED
  BY <1>2, AskedFields DEF Counted

(* An encoder not yet in use has nothing to count.                         *)
LEMMA IdleCounted ==
  ASSUME NEW w \in Worker, Idle(w), w.state \in {"loading", "loaded"}
  PROVE  Counted(w) /\ FlushLast(w) /\ NoFlush(w)
<1>1. /\ w.inbox = <<>> /\ w.codec = <<>> /\ w.pending = 0 /\ w.queue = 0
      /\ \A n \in DOMAIN w.outbox : w.outbox[n].type \in {"ready", "error"}
  BY DEF Idle
<1>2. w.outbox \in Seq(Sound) /\ MaxBuffered \in Nat
  BY AudioAssumption DEF Worker
<1>3. Consumed(w.outbox, 0) = 0
  BY <1>1, <1>2, ConsumedNone
<1>4. FlushLast(w) /\ NoFlush(w)
  BY <1>1 DEF FlushLast, NoFlush
<1>5. Counted(w)
  BY <1>1, <1>2, <1>3, QueuedEmpty DEF Counted, Reports
<1> QED
  BY <1>4, <1>5

(* The flush stays behind the blocks.                                      *)
LEMMA ConsumingTidy ==
  ASSUME NEW w \in Worker, w.inbox # <<>>, FlushLast(w)
  PROVE  FlushLast(Consuming(w)) /\ (NoFlush(w) => NoFlush(Consuming(w)))
<1> DEFINE v == Consuming(w)
           block == Head(w.inbox)
           codec == Append(w.codec, block)
           m == Post("consumed", 0, Queued(codec))
<1>1. /\ v \in Worker /\ block \in Items /\ codec \in Seq(Items) /\ m \in Sound
      /\ v.inbox = Tail(w.inbox) /\ v.codec = codec
      /\ v.outbox = IF block = Flush THEN w.outbox ELSE Append(w.outbox, m)
  BY ConsumingFields
<1>2. w.inbox \in Seq(Items) /\ w.codec \in Seq(Items) /\ w.outbox \in Seq(Sound)
  BY DEF Worker
<1>3. m.type # "flushed"
  BY DEF Post
<1> HIDE DEF v, m
<1>4. /\ \A n \in DOMAIN w.codec : w.codec[n] # Flush
      /\ \A n \in DOMAIN w.outbox : w.outbox[n].type # "flushed"
  BY DEF FlushLast
<1>5. \A n \in DOMAIN v.outbox : v.outbox[n].type # "flushed"
  BY <1>1, <1>2, <1>3, <1>4, AppendElements
<1>6. \A n \in DOMAIN w.inbox : w.inbox[n] = Flush => n = Len(w.inbox)
  BY DEF FlushLast
<1>7. \A n \in DOMAIN v.inbox : v.inbox[n] = Flush => n = Len(v.inbox)
  BY <1>1, <1>2, <1>6
<1>8. \A n \in DOMAIN v.codec : v.codec[n] = Flush =>
        n = Len(v.codec) /\ block = Flush /\ v.inbox = <<>>
  <2>1. \A n \in DOMAIN v.codec : v.codec[n] = Flush => n = Len(v.codec) /\ block = Flush
    BY <1>1, <1>2, <1>4
  <2>2. block = Flush => Len(w.inbox) = 1
    BY <1>2, <1>6, TailElements
  <2>3. Len(w.inbox) = 1 => v.inbox = <<>>
    BY <1>1, <1>2, TailElements
  <2> QED
    BY <2>1, <2>2, <2>3
<1>9. FlushLast(v)
  BY <1>5, <1>7, <1>8 DEF FlushLast
<1>10. NoFlush(w) => NoFlush(v)
  <2> SUFFICES ASSUME NoFlush(w) PROVE NoFlush(v)
    OBVIOUS
  <2>1. block # Flush
    BY <1>2 DEF NoFlush
  <2>2. \A n \in DOMAIN v.inbox : v.inbox[n] # Flush
    BY <1>1, <1>2 DEF NoFlush
  <2> QED
    BY <1>5, <1>8, <2>1, <2>2 DEF NoFlush
<1> QED
  BY <1>9, <1>10 DEF v

LEMMA PuttingTidy ==
  ASSUME NEW w \in Worker, w.codec # <<>>, FlushLast(w)
  PROVE  FlushLast(Putting(w)) /\ (NoFlush(w) => NoFlush(Putting(w)))
<1> DEFINE v == Putting(w)
           block == Head(w.codec)
           m == IF block = Flush THEN Post("flushed", 0, 0)
                ELSE Post("packet", block, Queued(Tail(w.codec)))
<1>1. /\ v \in Worker /\ block \in Items /\ m \in Sound
      /\ v.inbox = w.inbox /\ v.codec = Tail(w.codec) /\ v.outbox = Append(w.outbox, m)
  BY PuttingFields
<1>2. w.inbox \in Seq(Items) /\ w.codec \in Seq(Items) /\ w.outbox \in Seq(Sound)
  BY DEF Worker
<1>3. m.type = "flushed" <=> block = Flush
  BY DEF Post
<1> HIDE DEF v, m
<1>4. /\ \A n \in DOMAIN w.outbox : w.outbox[n].type # "flushed"
      /\ \A n \in DOMAIN w.codec : w.codec[n] = Flush => n = Len(w.codec) /\ w.inbox = <<>>
      /\ \A n \in DOMAIN w.inbox : w.inbox[n] = Flush => n = Len(w.inbox)
  BY DEF FlushLast
<1>5. \A n \in DOMAIN v.codec : v.codec[n] = Flush => n = Len(v.codec) /\ v.inbox = <<>>
  BY <1>1, <1>2, <1>4
<1>6. \A n \in DOMAIN v.outbox : v.outbox[n].type = "flushed" => n = Len(v.outbox) /\ block = Flush
  BY <1>1, <1>2, <1>3, <1>4
<1>7. block = Flush => v.codec = <<>> /\ v.inbox = <<>>
  <2>1. block = Flush => Len(w.codec) = 1 /\ w.inbox = <<>>
    BY <1>2, <1>4, TailElements
  <2>2. Len(w.codec) = 1 => v.codec = <<>>
    BY <1>1, <1>2, TailElements
  <2> QED
    BY <1>1, <2>1, <2>2
<1>8. FlushLast(v)
  BY <1>1, <1>4, <1>5, <1>6, <1>7 DEF FlushLast
<1>9. NoFlush(w) => NoFlush(v)
  <2> SUFFICES ASSUME NoFlush(w) PROVE NoFlush(v)
    OBVIOUS
  <2>1. block # Flush
    BY <1>2 DEF NoFlush
  <2>2. \A n \in DOMAIN v.codec : v.codec[n] # Flush
    BY <1>1, <1>2 DEF NoFlush
  <2> QED
    BY <1>1, <1>6, <2>1, <2>2 DEF NoFlush
<1> QED
  BY <1>8, <1>9 DEF v

LEMMA BreakingTidy ==
  ASSUME NEW w \in Worker, w.inbox # <<>>, FlushLast(w)
  PROVE  FlushLast(Breaking(w)) /\ (NoFlush(w) => NoFlush(Breaking(w)))
<1> DEFINE v == Breaking(w)
           m == Post("error", 0, 0)
<1>1. /\ v \in Worker /\ v.inbox = Tail(w.inbox) /\ v.codec = w.codec
      /\ v.outbox = Append(w.outbox, m)
  BY BreakingFields
<1>2. w.inbox \in Seq(Items) /\ w.codec \in Seq(Items) /\ w.outbox \in Seq(Sound)
  BY DEF Worker
<1>3. m.type # "flushed" /\ m \in Sound
  BY DEF Post, Sound, Messages
<1> HIDE DEF v, m
<1>4. /\ \A n \in DOMAIN w.codec : w.codec[n] # Flush
      /\ \A n \in DOMAIN w.outbox : w.outbox[n].type # "flushed"
      /\ \A n \in DOMAIN w.inbox : w.inbox[n] = Flush => n = Len(w.inbox)
  BY DEF FlushLast
<1>5. /\ \A n \in DOMAIN v.outbox : v.outbox[n].type # "flushed"
      /\ \A n \in DOMAIN v.codec : v.codec[n] # Flush
  BY <1>1, <1>2, <1>3, <1>4
<1>a. /\ Len(v.inbox) = Len(w.inbox) - 1 /\ Len(w.inbox) \in Nat
      /\ \A n \in DOMAIN v.inbox : /\ n \in Nat /\ n + 1 \in DOMAIN w.inbox
                                   /\ v.inbox[n] = w.inbox[n + 1]
  BY <1>1, <1>2, TailElements
<1>6. \A n \in DOMAIN v.inbox : v.inbox[n] = Flush => n = Len(v.inbox)
  BY <1>4, <1>a
<1>7. NoFlush(w) => \A n \in DOMAIN v.inbox : v.inbox[n] # Flush
  BY <1>a DEF NoFlush
<1> QED
  BY <1>5, <1>6, <1>7 DEF FlushLast, NoFlush, v

LEMMA FailedTidy ==
  ASSUME NEW w \in Worker, FlushLast(w),
         \A n \in DOMAIN w.outbox : w.outbox[n].type # "flushed"
  PROVE  FlushLast(Failed(w)) /\ (NoFlush(w) => NoFlush(Failed(w)))
<1> DEFINE v == Failed(w)
           m == Post("error", 0, 0)
<1>1. v.inbox = w.inbox /\ v.codec = <<>> /\ v.outbox = Append(w.outbox, m)
  BY FailedFields
<1>2. w.outbox \in Seq(Sound) /\ m.type # "flushed" /\ m \in Sound
  BY DEF Worker, Post, Sound, Messages
<1> HIDE DEF v, m
<1>3. \A n \in DOMAIN v.outbox : v.outbox[n].type # "flushed"
  BY <1>1, <1>2, AppendElements
<1>4. \A n \in DOMAIN v.codec : FALSE
  BY <1>1
<1> QED
  BY <1>1, <1>3, <1>4 DEF FlushLast, NoFlush, v

LEMMA TailTidy ==
  ASSUME NEW w \in Worker, w.outbox # <<>>, FlushLast(w),
         NEW v \in Worker, v.inbox = w.inbox, v.codec = w.codec, v.outbox = Tail(w.outbox)
  PROVE  FlushLast(v) /\ (NoFlush(w) => NoFlush(v))
<1>1. w.outbox \in Seq(Sound)
  BY DEF Worker
<1>2. \A n \in DOMAIN v.outbox : /\ v.outbox[n] = w.outbox[n + 1] /\ n + 1 \in DOMAIN w.outbox
                                 /\ n + 1 = Len(w.outbox) => n = Len(v.outbox)
  BY <1>1, TailElements
<1>3. FlushLast(v)
  BY <1>2 DEF FlushLast
<1>4. NoFlush(w) => NoFlush(v)
  BY <1>2 DEF NoFlush
<1> QED
  BY <1>3, <1>4

(* The flush is asked for once; blocks are handed over before it.          *)
LEMMA AskedTidy ==
  ASSUME NEW w \in Worker, NoFlush(w)
  PROVE  FlushLast(Asked(w))
<1>1. /\ Asked(w).inbox = Append(w.inbox, Flush) /\ Asked(w).codec = w.codec
      /\ Asked(w).outbox = w.outbox
  BY AskedFields
<1>2. w.inbox \in Seq(Items)
  BY DEF Worker
<1>3. \A n \in DOMAIN Asked(w).inbox : Asked(w).inbox[n] = Flush => n = Len(Asked(w).inbox)
  BY <1>1, <1>2 DEF NoFlush
<1> QED
  BY <1>1, <1>3 DEF FlushLast, NoFlush

LEMMA EncodeTidy ==
  ASSUME NEW w \in Worker, NoFlush(w), NEW blocks \in Seq(Blocks)
  PROVE  FlushLast(Encode(w, blocks)) /\ NoFlush(Encode(w, blocks))
<1> DEFINE a == Accepted(w, blocks)
           v == Encode(w, blocks)
<1>1. v.inbox = w.inbox \o a /\ v.codec = w.codec /\ v.outbox = w.outbox
  BY EncodeFields
<1>2. w.inbox \in Seq(Items) /\ a \in Seq(Blocks)
  BY AcceptedSeq DEF Worker
<1> HIDE DEF a, v
<1>3. \A n \in DOMAIN a : a[n] # Flush
  <2>1. \A n \in DOMAIN a : a[n] \in Blocks
    BY <1>2
  <2> QED
    BY <2>1 DEF Blocks, Flush
<1>4. \A n \in DOMAIN v.inbox : v.inbox[n] # Flush
  BY <1>1, <1>2, <1>3 DEF NoFlush
<1> QED
  BY <1>1, <1>4 DEF FlushLast, NoFlush, v
(* An encoder not yet in use hears of nothing but its loading.             *)
LEMMA IdleTail ==
  ASSUME NEW w \in Worker, Idle(w), w.outbox # <<>>, NEW v \in Worker,
         Keeps(v, w), v.inbox = w.inbox, v.codec = w.codec, v.outbox = Tail(w.outbox),
         \/ v.pending = w.pending /\ v.queue = w.queue
         \/ Head(w.outbox).type \in {"packet", "consumed"}
  PROVE  Idle(v)
<1>1. w.outbox \in Seq(Sound)
  BY DEF Worker
<1>2. \A n \in DOMAIN v.outbox : v.outbox[n] = w.outbox[n + 1] /\ n + 1 \in DOMAIN w.outbox
  BY <1>1, TailElements
<1>3. 1 \in DOMAIN w.outbox /\ w.outbox[1] = Head(w.outbox)
  BY <1>1, TailElements
<1>4. w.state \in {"loading", "loaded"} =>
        v.pending = w.pending /\ v.queue = w.queue
  BY <1>3 DEF Idle
<1> QED
  BY <1>2, <1>4 DEF Idle, Keeps

LEMMA IdleTaken ==
  ASSUME NEW w \in Worker, Idle(w), w.outbox # <<>>
  PROVE  Idle(Taken(w))
BY TakenFields, IdleTail

LEMMA IdleClosed ==
  ASSUME NEW w \in Worker
  PROVE  Idle(Closed(w))
BY ClosedFields DEF Idle

LEMMA IdleCreated ==
  ASSUME NEW s \in Sessions
  PROVE  Idle(Created(s))
<1>1. \A n \in DOMAIN <<>> : FALSE
  OBVIOUS
<1> QED
  BY <1>1, CreatedFields DEF Idle

LEMMA IdleLoaded ==
  ASSUME NEW w \in Worker, w.state = "loading", Idle(w), NEW type \in {"ready", "error"}
  PROVE  Idle(Loaded(w, type))
<1> DEFINE v == Loaded(w, type)
           m == Post(type, 0, 0)
<1>1. /\ v.pending = w.pending /\ v.queue = w.queue /\ v.inbox = w.inbox /\ v.codec = w.codec
      /\ v.outbox = Append(w.outbox, m)
  BY LoadedFields
<1>2. w.outbox \in Seq(Sound) /\ m \in Sound /\ m.type \in {"ready", "error"}
  BY DEF Worker, Post, Sound, Messages
<1> HIDE DEF v, m
<1>3. \A n \in DOMAIN v.outbox : v.outbox[n].type \in {"ready", "error"}
  BY <1>1, <1>2, AppendElements DEF Idle
<1> QED
  BY <1>1, <1>3 DEF Idle, v

LEMMA IdleFailed ==
  ASSUME NEW w \in Worker, w.state = "loaded", Idle(w)
  PROVE  Idle(Failed(w))
<1> DEFINE v == Failed(w)
           m == Post("error", 0, 0)
<1>1. /\ v.pending = w.pending /\ v.queue = w.queue /\ v.inbox = w.inbox /\ v.codec = <<>>
      /\ v.outbox = Append(w.outbox, m)
  BY FailedFields
<1>2. w.outbox \in Seq(Sound) /\ m \in Sound /\ m.type \in {"ready", "error"}
  BY DEF Worker, Post, Sound, Messages
<1> HIDE DEF v, m
<1>3. \A n \in DOMAIN v.outbox : v.outbox[n].type \in {"ready", "error"}
  BY <1>1, <1>2, AppendElements DEF Idle
<1> QED
  BY <1>1, <1>3 DEF Idle, v

(* The running session's encoder is loaded.                                *)
LEMMA CurrentLoaded ==
  ASSUME ShapeInv, LifeInv, NEW e \in Encoders, Current(e)
  PROVE  worker[e].state = "loaded" /\ worker[e] \in Worker /\ active # None
BY DEF ShapeInv, LifeInv, ActiveInv, Current

(* One worker changes, the session and its encoder do not.                 *)
LEMMA PipeSteady ==
  ASSUME ShapeInv, PipeInv, NEW e \in Encoders, NEW v, worker' = [worker EXCEPT ![e] = v],
         UNCHANGED <<active, encoder>>,
         swapping'.step = "flushing" <=> swapping.step = "flushing",
         Current(e) => Busy(v, swapping.step = "flushing"),
         ~Current(e) => Idle(v)
  PROVE  PipeInv'
<1>1. worker'[e] = v /\ \A d \in Encoders : d # e => worker'[d] = worker[d]
  BY DEF ShapeInv
<1>2. \A d \in Encoders : Current(d)' <=> Current(d)
  BY DEF Current
<1> SUFFICES ASSUME NEW d \in Encoders
             PROVE  /\ Current(d) => Busy(worker'[d], swapping'.step = "flushing")
                    /\ ~Current(d) => Idle(worker'[d])
  BY <1>2 DEF PipeInv
<1>3. CASE d = e
  BY <1>1, <1>3 DEF Busy
<1>4. CASE d # e
  BY <1>1, <1>4 DEF PipeInv, Busy
<1> QED
  BY <1>3, <1>4

LEMMA PipeSame ==
  ASSUME PipeInv, worker' = worker, UNCHANGED <<active, encoder>>,
         swapping'.step = "flushing" <=> swapping.step = "flushing"
  PROVE  PipeInv'
BY DEF PipeInv, Busy, Current

(* Workers are closed, the session's own only with the session.            *)
LEMMA PipeClosed ==
  ASSUME ShapeInv, PipeInv, NEW open, worker' = Close(open), UNCHANGED encoder,
         \/ active' = None /\ \A e \in Encoders : Current(e) => e \in open
         \/ /\ active' = active /\ \A e \in Encoders : Current(e) => e \notin open
            /\ swapping'.step = "flushing" <=> swapping.step = "flushing"
  PROVE  PipeInv'
<1>1. \A e \in Encoders :
        worker'[e] = IF e \in open THEN Closed(worker[e]) ELSE worker[e]
  BY CloseFields
<1>2. \A e \in Encoders : Idle(Closed(worker[e]))
  BY IdleClosed DEF ShapeInv
<1>3. CASE active' = None /\ \A e \in Encoders : Current(e) => e \in open
  <2>1. \A e \in Encoders : ~Current(e)'
    BY <1>3 DEF Current
  <2>2. \A e \in Encoders : Idle(worker'[e])
    BY <1>1, <1>2, <1>3 DEF PipeInv
  <2> QED
    BY <2>1, <2>2 DEF PipeInv
<1>4. CASE /\ active' = active /\ \A e \in Encoders : Current(e) => e \notin open
           /\ swapping'.step = "flushing" <=> swapping.step = "flushing"
  <2>1. \A e \in Encoders : Current(e)' <=> Current(e)
    BY <1>4 DEF Current
  <2>2. \A e \in Encoders : Current(e) => Busy(worker'[e], swapping'.step = "flushing")
    BY <1>1, <1>4 DEF PipeInv, Busy
  <2>3. \A e \in Encoders : ~Current(e) => Idle(worker'[e])
    BY <1>1, <1>2 DEF PipeInv
  <2> QED
    BY <2>1, <2>2, <2>3 DEF PipeInv
<1> QED
  BY <1>3, <1>4

LEMMA WorkPipe ==
  ASSUME ShapeInv, LifeInv, PipeInv, NEW e \in Encoders,
         Consume(e) \/ Output(e) \/ Break(e) \/ Fail(e)
  PROVE  PipeInv'
<1> DEFINE w == worker[e]
<1>1. w \in Worker
  BY DEF ShapeInv
<1>2. ~Current(e) => w.inbox = <<>> /\ w.codec = <<>>
  BY DEF PipeInv, Idle
<1>3. Current(e) => /\ FlushLast(w) /\ Counted(w)
                    /\ swapping.step = "flushing" \/ NoFlush(w)
  BY DEF PipeInv, Busy
<1> HIDE DEF w
<1>4. CASE Consume(e)
  <2>1. w.inbox # <<>> /\ worker' = [worker EXCEPT ![e] = Consuming(w)]
        /\ UNCHANGED <<active, encoder, swapping>>
    BY <1>4, ConsumeDoes DEF w
  <2>2. Busy(Consuming(w), swapping.step = "flushing")
    BY <1>1, <1>2, <1>3, <2>1, ConsumingTidy, ConsumingCounted DEF Busy
  <2> QED
    BY <1>2, <2>1, <2>2, PipeSteady
<1>5. CASE Output(e)
  <2>1. w.codec # <<>> /\ worker' = [worker EXCEPT ![e] = Putting(w)]
        /\ UNCHANGED <<active, encoder, swapping>>
    BY <1>5, OutputDoes DEF w
  <2>2. Busy(Putting(w), swapping.step = "flushing")
    BY <1>1, <1>2, <1>3, <2>1, PuttingTidy, PuttingCounted DEF Busy
  <2> QED
    BY <1>2, <2>1, <2>2, PipeSteady
<1>6. CASE Break(e)
  <2>1. w.inbox # <<>> /\ worker' = [worker EXCEPT ![e] = Breaking(w)]
        /\ UNCHANGED <<active, encoder, swapping>>
    BY <1>6, BreakDoes DEF w
  <2>2. Busy(Breaking(w), swapping.step = "flushing")
    BY <1>1, <1>2, <1>3, <2>1, BreakingTidy, BreakingCounted DEF Busy
  <2> QED
    BY <1>2, <2>1, <2>2, PipeSteady
<1>7. CASE Fail(e)
  <2>1. /\ w.state = "loaded" /\ \A n \in DOMAIN w.outbox : w.outbox[n].type # "flushed"
        /\ worker' = [worker EXCEPT ![e] = Failed(w)] /\ UNCHANGED <<active, encoder, swapping>>
    BY <1>7, FailDoes DEF w
  <2>2. Current(e) => Busy(Failed(w), swapping.step = "flushing")
    BY <1>1, <1>3, <2>1, FailedTidy, FailedCounted DEF Busy
  <2>3. ~Current(e) => Idle(Failed(w))
    <3>1. ~Current(e) => Idle(w)
      BY DEF PipeInv, w
    <3> QED
      BY <1>1, <2>1, <3>1, IdleFailed
  <2> QED
    BY <2>1, <2>2, <2>3, PipeSteady
<1> QED
  BY <1>4, <1>5, <1>6, <1>7

LEMMA LoadPipe ==
  ASSUME ShapeInv, LifeInv, PipeInv, NEW e \in Encoders, Load(e)
  PROVE  PipeInv'
<1> PICK type \in {"ready", "error"} : worker' = [worker EXCEPT ![e] = Loaded(worker[e], type)]
  BY LoadDoes
<1>1. worker[e].state = "loading" /\ UNCHANGED <<active, encoder, swapping>>
  BY LoadDoes
<1>2. ~Current(e)
  BY <1>1, CurrentLoaded
<1>3. worker[e] \in Worker /\ Idle(worker[e])
  BY <1>2 DEF ShapeInv, PipeInv
<1>4. Idle(Loaded(worker[e], type))
  BY <1>1, <1>3, IdleLoaded
<1> QED
  BY <1>1, <1>2, <1>4, PipeSteady

LEMMA ReportPipe ==
  ASSUME ShapeInv, LifeInv, PipeInv, NEW e \in Encoders, ReceivePacket(e) \/ ReceiveConsumed(e)
  PROVE  PipeInv'
<1> DEFINE w == worker[e]
           v == IF ReceivePacket(e) THEN Heard(w) ELSE Credited(w)
<1>1. /\ w \in Worker /\ w.outbox # <<>>
      /\ Head(w.outbox).type = IF ReceivePacket(e) THEN "packet" ELSE "consumed"
  BY HeadTyped DEF ReceivePacket, ReceiveConsumed
<1>2. worker' = [worker EXCEPT ![e] = v] /\ UNCHANGED <<active, encoder, swapping>>
  BY PacketDoes, ConsumedDoes
<1>3. /\ v \in Worker /\ Keeps(v, w) /\ v.inbox = w.inbox /\ v.codec = w.codec
      /\ v.outbox = Tail(w.outbox) /\ v.queue = Head(w.outbox).queue
      /\ Head(w.outbox).type # "consumed" => v.pending = w.pending
      /\ Head(w.outbox).type = "consumed" =>
           v.pending = IF w.pending > 0 THEN w.pending - 1 ELSE 0
  BY <1>1, HeardFields, CreditedFields
<1>4. Head(w.outbox).type \in {"packet", "consumed"}
  BY <1>1
<1>5. Reports(Head(w.outbox))
  BY <1>4 DEF Reports
<1> HIDE DEF v
<1>6. Current(e) => /\ FlushLast(w) /\ Counted(w)
                    /\ swapping.step = "flushing" \/ NoFlush(w)
  BY DEF PipeInv, Busy
<1>7. ~Current(e) => Idle(w)
  BY DEF PipeInv
<1> HIDE DEF w
<1>8. Current(e) => Busy(v, swapping.step = "flushing")
  <2>1. Current(e) => Counted(v)
    BY <1>1, <1>3, <1>5, <1>6, ReportCounted
  <2>2. Current(e) => FlushLast(v) /\ (NoFlush(w) => NoFlush(v))
    BY <1>1, <1>3, <1>6, TailTidy
  <2> QED
    BY <1>6, <2>1, <2>2 DEF Busy
<1>9. ~Current(e) => Idle(v)
  BY <1>1, <1>3, <1>4, <1>7, IdleTail
<1> QED
  BY <1>2, <1>8, <1>9, PipeSteady
LEMMA TakenPipe ==
  ASSUME ShapeInv, PipeInv, NEW e \in Encoders, worker[e].outbox # <<>>, ~Current(e),
         worker' = [worker EXCEPT ![e] = Taken(worker[e])],
         UNCHANGED <<active, encoder, swapping>>
  PROVE  PipeInv'
<1>1. worker[e] \in Worker /\ Idle(worker[e])
  BY DEF ShapeInv, PipeInv
<1>2. Idle(Taken(worker[e]))
  BY <1>1, IdleTaken
<1> QED
  BY <1>2, PipeSteady

LEMMA ReadyPipe ==
  ASSUME ShapeInv, LifeInv, PipeInv, NEW e \in Encoders, ReceiveReady(e)
  PROVE  PipeInv'
<1>0. worker[e] \in Worker /\ worker[e].outbox # <<>>
  BY HeadTyped DEF ReceiveReady
<1>1. UNCHANGED <<active, encoder>>
  BY ReadyDoes
<1>2. CASE /\ starting.step = "loading" /\ worker' = [worker EXCEPT ![e] = Taken(worker[e])]
           /\ UNCHANGED swapping
  <2>1. ~Current(e)
    BY <1>2 DEF LifeInv, StartInv, Current
  <2> QED
    BY <1>0, <1>1, <1>2, <2>1, TakenPipe
<1>3. CASE /\ worker[e].state = "closed" /\ worker' = [worker EXCEPT ![e] = Taken(worker[e])]
           /\ UNCHANGED swapping
  <2>1. ~Current(e)
    BY <1>3, CurrentLoaded
  <2> QED
    BY <1>0, <1>1, <1>3, <2>1, TakenPipe
<1>4. CASE /\ swapping.step = "preparing" /\ swapping.encoder = e
           /\ active # None /\ encoder[active] \in Encoders /\ encoder[active] # e
           /\ swapping' = [swapping EXCEPT !.step = "flushing"]
           /\ worker' = [worker EXCEPT ![e] = Taken(worker[e]),
                           ![encoder[active]] = Asked(worker[encoder[active]])]
  <2> DEFINE c == encoder[active]
  <2>1. c \in Encoders /\ c # e /\ worker[c] \in Worker /\ Current(c)
        /\ \A d \in Encoders : Current(d) <=> d = c
    BY <1>4 DEF ShapeInv, Current
  <2>2. /\ worker'[c] = Asked(worker[c]) /\ worker'[e] = Taken(worker[e])
        /\ \A d \in Encoders : d # e /\ d # c => worker'[d] = worker[d]
    <3>1. worker' = [worker EXCEPT ![e] = Taken(worker[e]), ![c] = Asked(worker[c])]
      BY <1>4
    <3> HIDE DEF c
    <3> QED
      BY <2>1, <3>1 DEF ShapeInv
  <2>3. swapping'.step = "flushing" /\ \A d \in Encoders : Current(d)' <=> Current(d)
    BY <1>1, <1>4 DEF ShapeInv, Swaps, Current
  <2>4. NoFlush(worker[c]) /\ Counted(worker[c])
    BY <1>4, <2>1 DEF PipeInv, Busy
  <2> HIDE DEF c
  <2>5. Busy(Asked(worker[c]), swapping'.step = "flushing")
    BY <2>1, <2>3, <2>4, AskedCounted, AskedTidy DEF Busy
  <2>6. Idle(Taken(worker[e]))
    BY <1>0, <2>1, IdleTaken DEF PipeInv
  <2> SUFFICES ASSUME NEW d \in Encoders
               PROVE  /\ Current(d) => Busy(worker'[d], swapping'.step = "flushing")
                      /\ ~Current(d) => Idle(worker'[d])
    BY <2>3 DEF PipeInv
  <2>7. CASE d = c
    BY <2>1, <2>2, <2>5, <2>7
  <2>8. CASE d = e
    BY <2>1, <2>2, <2>6, <2>8
  <2>9. CASE d # c /\ d # e
    BY <2>1, <2>2, <2>9 DEF PipeInv
  <2> QED
    BY <2>7, <2>8, <2>9
<1> QED
  BY <1>2, <1>3, <1>4, ReadyDoes

LEMMA SwappedPipe ==
  ASSUME ShapeInv, LifeInv, PipeInv, NEW e \in Encoders, worker[e].outbox # <<>>, Swapped(e)
  PROVE  PipeInv'
<1> DEFINE next == swapping.encoder
           blocks == swapping.buffers
<1>1. /\ next \in Encoders /\ next # e /\ worker[next] \in Worker
      /\ worker[next].state = "loaded" /\ blocks \in Seq(Blocks)
      /\ active \in Sessions /\ active # None /\ encoder[active] = e /\ active' = active
      /\ worker'[e] = Closed(Taken(worker[e]))
      /\ worker'[next] = Encode(worker[next], blocks)
      /\ \A d \in Encoders : d # e /\ d # next => worker'[d] = worker[d]
      /\ encoder'[active] = next
  BY SwappedFields
<1>2. \A d \in Encoders : (Current(d) <=> d = e) /\ (Current(d)' <=> d = next)
  BY <1>1 DEF Current
<1> HIDE DEF next, blocks
<1>3. Idle(worker[next])
  BY <1>1, <1>2 DEF PipeInv
<1>4. Counted(worker[next]) /\ NoFlush(worker[next])
  BY <1>1, <1>3, IdleCounted
<1>5. Busy(Encode(worker[next], blocks), swapping'.step = "flushing")
  BY <1>1, <1>4, EncodeCounted, EncodeTidy DEF Busy
<1>6. Idle(Closed(Taken(worker[e])))
  <2>1. Taken(worker[e]) \in Worker
    BY TakenFields DEF ShapeInv
  <2> QED
    BY <2>1, IdleClosed
<1> SUFFICES ASSUME NEW d \in Encoders
             PROVE  /\ Current(d)' => Busy(worker'[d], swapping'.step = "flushing")
                    /\ ~Current(d)' => Idle(worker'[d])
  BY DEF PipeInv
<1>7. CASE d = e
  BY <1>1, <1>2, <1>6, <1>7
<1>8. CASE d = next
  BY <1>1, <1>2, <1>5, <1>8
<1>9. CASE d # e /\ d # next
  BY <1>1, <1>2, <1>9 DEF PipeInv
<1> QED
  BY <1>7, <1>8, <1>9

LEMMA FlushedPipe ==
  ASSUME ShapeInv, LifeInv, PipeInv, NEW e \in Encoders, ReceiveFlushed(e)
  PROVE  PipeInv'
<1>0. worker[e].outbox # <<>> /\ Head(worker[e].outbox).type = "flushed"
      /\ worker[e].outbox \in Seq(Sound)
  BY HeadTyped DEF ReceiveFlushed
<1>1. CASE Swapped(e)
  BY <1>0, <1>1, SwappedPipe
<1>2. CASE /\ ~(swapping.step = "flushing" /\ active # None /\ encoder[active] = e)
           /\ worker' = [worker EXCEPT ![e] = Taken(worker[e])]
           /\ UNCHANGED <<active, encoder, swapping>>
  <2>1. ~NoFlush(worker[e])
    BY <1>0, TailElements DEF NoFlush
  <2>2. ~Current(e)
    BY <1>2, <2>1 DEF PipeInv, Busy, Current
  <2> QED
    BY <1>0, <1>2, <2>2, TakenPipe
<1> QED
  BY <1>1, <1>2, FlushedDoes

(* Cleanup closes the encoder of the session.                              *)
LEMMA CleanupPipe ==
  ASSUME ShapeInv, PipeInv, active # None, Cleanup(active), UNCHANGED encoder
  PROVE  PipeInv'
<1> DEFINE open == {encoder[active]} \cup
                     (IF swapping.session = active THEN {swapping.encoder} ELSE {})
<1>1. active' = None /\ worker' = Close(open)
  BY DEF Cleanup
<1>2. \A e \in Encoders : Current(e) => e \in open
  BY DEF Current
<1> HIDE DEF open
<1> QED
  BY <1>1, <1>2, PipeClosed

LEMMA NotCurrent ==
  ASSUME LifeInv
  PROVE  /\ starting.step \in {"loading", "connecting"} => \A e \in Encoders : ~Current(e)
         /\ swapping.step # "none" => ~Current(swapping.encoder)
BY DEF LifeInv, StartInv, SwapInv, Current

LEMMA ErrorPipe ==
  ASSUME ShapeInv, LifeInv, PipeInv, NEW e \in Encoders, ReceiveError(e)
  PROVE  PipeInv'
<1>0. worker[e].outbox # <<>>
  BY HeadTyped DEF ReceiveError
<1>1. UNCHANGED encoder
  BY ErrorDoes
<1>2. CASE /\ starting.step = "loading" /\ worker' = Close({e}) /\ UNCHANGED <<active, swapping>>
  BY <1>1, <1>2, NotCurrent, PipeClosed
<1>3. CASE /\ swapping.step = "preparing" /\ swapping.encoder = e
           /\ swapping' = NoSwap /\ worker' = Close({e}) /\ UNCHANGED active
  <2>1. ~Current(e) /\ swapping'.step # "flushing" /\ swapping.step # "flushing"
    BY <1>3, NotCurrent DEF NoSwap
  <2> QED
    BY <1>1, <1>3, <2>1, PipeClosed
<1>4. CASE active # None /\ Cleanup(active)
  BY <1>1, <1>4, CleanupPipe
<1>5. CASE /\ worker[e].state = "closed" \/ starting.step = "connecting"
           /\ worker' = [worker EXCEPT ![e] = Taken(worker[e])]
           /\ UNCHANGED <<active, swapping>>
  <2>1. ~Current(e)
    BY <1>5, NotCurrent, CurrentLoaded
  <2> QED
    BY <1>0, <1>1, <1>5, <2>1, TakenPipe
<1> QED
  BY <1>2, <1>3, <1>4, <1>5, ErrorDoes

LEMMA LifePipe ==
  ASSUME ShapeInv, LifeInv, PipeInv,
         \/ Connect \/ Started \/ Stop \/ SwitchMode \/ ReadyTimeout
         \/ \E s \in Sessions : Start(s)
  PROVE  PipeInv'
<1>1. CASE Connect
  <2> DEFINE s == starting.session
             e == starting.encoder
  <2>1. /\ starting.step = "connecting" /\ active' = s
        /\ encoder' = [encoder EXCEPT ![s] = e] /\ UNCHANGED <<worker, swapping>>
    BY <1>1 DEF Connect
  <2>2. /\ s \in Sessions /\ e \in Encoders /\ active = None /\ worker[e].state = "loaded"
        /\ worker[e] \in Worker
    BY <2>1 DEF ShapeInv, LifeInv, StartInv
  <2> HIDE DEF s, e
  <2>3. \A d \in Encoders : ~Current(d) /\ (Current(d)' <=> d = e)
    BY <2>1, <2>2, Zero DEF Current, ShapeInv
  <2>4. Busy(worker[e], swapping'.step = "flushing")
    BY <2>2, <2>3, IdleCounted DEF PipeInv, Busy
  <2> QED
    BY <2>1, <2>2, <2>3, <2>4 DEF PipeInv
<1>2. CASE Started
  <2>1. UNCHANGED <<active, encoder, swapping>>
    BY <1>2 DEF Started, session
  <2>2. CASE starting.step = "connecting"
    <3>1. worker' = Close({starting.encoder})
      BY <1>2, <2>2 DEF Started
    <3> QED
      BY <2>1, <2>2, <3>1, NotCurrent, PipeClosed
  <2>3. CASE starting.step # "connecting"
    BY <1>2, <2>1, <2>3, PipeSame DEF Started
  <2> QED
    BY <2>2, <2>3
<1>3. CASE Stop
  BY <1>3, CleanupPipe DEF Stop, session
<1>4. CASE SwitchMode
  <2> PICK e \in Encoders :
        /\ Fresh(e)
        /\ swapping' = [NoSwap EXCEPT !.step = "preparing", !.session = active, !.encoder = e]
        /\ worker' = [worker EXCEPT ![e] = Created(active)]
    BY <1>4 DEF SwitchMode
  <2>1. /\ UNCHANGED <<active, encoder>> /\ active \in Sessions
        /\ swapping.step # "flushing" /\ swapping'.step # "flushing"
    BY <1>4 DEF SwitchMode, session, NoSwap, ShapeInv
  <2>2. ~Current(e)
    BY CurrentLoaded DEF Fresh
  <2>3. Idle(Created(active))
    BY <2>1, IdleCreated
  <2> QED
    BY <2>1, <2>2, <2>3, PipeSteady
<1>5. CASE ReadyTimeout
  <2>1. /\ swapping.step = "preparing" /\ worker' = Close({swapping.encoder})
        /\ swapping' = NoSwap /\ UNCHANGED <<active, encoder>>
    BY <1>5 DEF ReadyTimeout, session
  <2>2. \A e \in Encoders : Current(e) => e \notin {swapping.encoder}
    BY <2>1, NotCurrent
  <2>3. swapping'.step # "flushing" /\ swapping.step # "flushing"
    BY <2>1 DEF NoSwap
  <2> QED
    BY <2>1, <2>2, <2>3, PipeClosed
<1>6. ASSUME NEW s \in Sessions, Start(s) PROVE PipeInv'
  <2> PICK e \in Encoders : Fresh(e) /\ worker' = [worker EXCEPT ![e] = Created(s)]
    BY <1>6 DEF Start
  <2>1. UNCHANGED <<active, encoder, swapping>>
    BY <1>6 DEF Start, session
  <2>2. ~Current(e)
    BY CurrentLoaded DEF Fresh
  <2>3. Idle(Created(s))
    BY IdleCreated
  <2> QED
    BY <2>1, <2>2, <2>3, PipeSteady
<1> QED
  BY <1>1, <1>2, <1>3, <1>4, <1>5, <1>6

(* No block is handed over after the flush.                                *)
LEMMA CapturePipe ==
  ASSUME ShapeInv, LifeInv, PipeInv, NEW s \in Sessions, Capture(s)
  PROVE  PipeInv'
<1> DEFINE block == captured[s] + 1
           e == encoder[s]
           w == worker[e]
<1>1. /\ active = s /\ active # None /\ block \in Blocks
      /\ UNCHANGED <<active, encoder>>
  BY CaptureCounts
<1>2. /\ e \in Encoders /\ w \in Worker /\ Current(e)
  BY <1>1 DEF ShapeInv, LifeInv, ActiveInv, Current
<1>3. <<block>> \in Seq(Blocks)
  BY <1>1
<1>4. CASE UNCHANGED <<swapping, worker>>
  BY <1>1, <1>4, PipeSame
<1>5. CASE /\ swapping' = [swapping EXCEPT !.buffers =
                             Buffered(IF Full(@) THEN Tail(@) ELSE @, block)]
           /\ UNCHANGED worker
  <2>1. swapping'.step = swapping.step
    BY <1>5 DEF ShapeInv, Swaps
  <2> QED
    BY <1>1, <1>5, <2>1, PipeSame
<1>6. CASE /\ ~Flushing(s) /\ worker' = [worker EXCEPT ![e] = Encode(w, <<block>>)]
           /\ UNCHANGED swapping
  <2>1. swapping.step # "flushing"
    BY <1>1, <1>6 DEF Flushing, LifeInv, SwapInv
  <2>2. NoFlush(w) /\ Counted(w)
    BY <1>2, <2>1 DEF PipeInv, Busy
  <2> HIDE DEF block, w, e
  <2>3. Busy(Encode(w, <<block>>), swapping.step = "flushing")
    BY <1>2, <1>3, <2>2, EncodeCounted, EncodeTidy DEF Busy
  <2> QED
    BY <1>1, <1>2, <1>6, <2>3, PipeSteady DEF w
<1> QED
  BY <1>4, <1>5, <1>6 DEF Capture

LEMMA PipeInit == Init => PipeInv
<1> SUFFICES ASSUME Init PROVE PipeInv
  OBVIOUS
<1>1. \A e \in Encoders : worker[e] = Unused /\ ~Current(e)
  BY DEF Init, Current
<1>2. Idle(Unused)
  BY DEF Idle, Unused
<1> QED
  BY <1>1, <1>2 DEF PipeInv

LEMMA PipeNext == ShapeInv /\ LifeInv /\ PipeInv /\ [Next]_vars => PipeInv'
<1> SUFFICES ASSUME ShapeInv, LifeInv, PipeInv, [Next]_vars PROVE PipeInv'
  OBVIOUS
<1>1. CASE Connect \/ Started \/ Stop \/ SwitchMode \/ ReadyTimeout
  BY <1>1, LifePipe
<1>2. ASSUME NEW s \in Sessions, Start(s) \/ Capture(s) PROVE PipeInv'
  BY <1>2, LifePipe, CapturePipe
<1>3. ASSUME NEW e \in Encoders, Deliver(e) PROVE PipeInv'
  BY <1>3, ReadyPipe, ReportPipe, FlushedPipe, ErrorPipe DEF Deliver
<1>4. ASSUME NEW e \in Encoders, Load(e) \/ Consume(e) \/ Output(e) \/ Break(e) \/ Fail(e)
      PROVE  PipeInv'
  BY <1>4, LoadPipe, WorkPipe
<1>5. CASE UNCHANGED vars
  BY <1>5, PipeSame DEF vars, session
<1> QED
  BY <1>1, <1>2, <1>3, <1>4, <1>5 DEF Next
-----------------------------------------------------------------------------
(* Third part: the blocks of the running session, in order from the        *)
(* packets that arrive to the blocks the page still buffers.               *)

(* The blocks of the packets in an outbox, at their places.                *)
Marks(o) == [n \in DOMAIN o |-> IF o[n].type = "packet" THEN o[n].block ELSE Flush]

Names(q) == Elements(q) \ {Flush}

Asc(q) ==
  \A i, j \in DOMAIN q : i < j /\ q[i] # Flush /\ q[j] # Flush => q[i] < q[j]

LEMMA NamesBlocks ==
  ASSUME NEW q \in Seq(Items)
  PROVE  Names(q) \subseteq Blocks /\ Names(q) \subseteq Nat
<1>1. \A n \in DOMAIN q : q[n] \in Items
  OBVIOUS
<1>2. Names(q) \subseteq Blocks
  BY <1>1 DEF Names, Elements, Items
<1> QED
  BY <1>2 DEF Blocks

LEMMA NamesEmpty == Names(<<>>) = {} /\ Asc(<<>>)
<1>1. \A n \in DOMAIN <<>> : FALSE
  OBVIOUS
<1> QED
  BY <1>1 DEF Names, Elements, Asc

LEMMA NamesTail ==
  ASSUME NEW q \in Seq(Items), q # <<>>
  PROVE  Names(q) = Names(Tail(q)) \cup ({Head(q)} \ {Flush})
<1>1. /\ 1 \in DOMAIN q /\ q[1] = Head(q)
      /\ \A n \in DOMAIN Tail(q) : n + 1 \in DOMAIN q /\ Tail(q)[n] = q[n + 1]
  BY TailElements
<1>2. \A n \in DOMAIN q : n = 1 \/ (n - 1 \in DOMAIN Tail(q) /\ Tail(q)[n - 1] = q[n])
  OBVIOUS
<1>3. \A x \in Names(q) : x \in Names(Tail(q)) \cup ({Head(q)} \ {Flush})
  <2> SUFFICES ASSUME NEW x \in Names(q), x # Head(q) PROVE x \in Names(Tail(q))
    BY DEF Names
  <2> PICK n \in DOMAIN q : x = q[n] /\ x # Flush
    BY DEF Names, Elements
  <2>1. n - 1 \in DOMAIN Tail(q) /\ Tail(q)[n - 1] = x
    BY <1>1, <1>2
  <2> QED
    BY <2>1 DEF Names, Elements
<1>4. \A x \in Names(Tail(q)) \cup ({Head(q)} \ {Flush}) : x \in Names(q)
  BY <1>1 DEF Names, Elements
<1> QED
  BY <1>3, <1>4

LEMMA NamesAppend ==
  ASSUME NEW q \in Seq(Items), NEW x \in Items
  PROVE  Names(Append(q, x)) = Names(q) \cup ({x} \ {Flush})
<1>1. /\ Len(q) + 1 \in DOMAIN Append(q, x) /\ Append(q, x)[Len(q) + 1] = x
      /\ \A n \in DOMAIN q : n \in DOMAIN Append(q, x) /\ Append(q, x)[n] = q[n]
      /\ \A n \in DOMAIN Append(q, x) : n \in DOMAIN q \/ n = Len(q) + 1
  BY AppendElements
<1> QED
  BY <1>1 DEF Names, Elements

LEMMA NamesConcat ==
  ASSUME NEW q \in Seq(Items), NEW r \in Seq(Items)
  PROVE  /\ q \o r \in Seq(Items) /\ Names(q \o r) = Names(q) \cup Names(r)
         /\ \A i \in DOMAIN (q \o r) :
              \/ i \in DOMAIN q /\ (q \o r)[i] = q[i]
              \/ /\ i - Len(q) \in DOMAIN r /\ (q \o r)[i] = r[i - Len(q)]
                 /\ \A j \in DOMAIN q : j < i
         /\ Len(q) \in Nat /\ DOMAIN (q \o r) \subseteq Nat
<1>1. /\ q \o r \in Seq(Items) /\ Len(q) \in Nat /\ Len(r) \in Nat /\ DOMAIN (q \o r) \subseteq Nat
      /\ DOMAIN q = 1 .. Len(q) /\ DOMAIN r = 1 .. Len(r)
      /\ DOMAIN (q \o r) = 1 .. Len(q) + Len(r)
      /\ \A i \in 1 .. Len(q) + Len(r) :
           (q \o r)[i] = IF i <= Len(q) THEN q[i] ELSE r[i - Len(q)]
  BY ConcatProperties
<1>2. \A i \in DOMAIN (q \o r) :
        \/ i \in DOMAIN q /\ (q \o r)[i] = q[i]
        \/ /\ i - Len(q) \in DOMAIN r /\ (q \o r)[i] = r[i - Len(q)]
           /\ \A j \in DOMAIN q : j < i
  BY <1>1
<1>3. \A i \in DOMAIN q : i \in DOMAIN (q \o r) /\ (q \o r)[i] = q[i]
  BY <1>1
<1>4. \A i \in DOMAIN r : Len(q) + i \in DOMAIN (q \o r) /\ (q \o r)[Len(q) + i] = r[i]
  BY <1>1
<1>5. Names(q \o r) = Names(q) \cup Names(r)
  <2> DEFINE p == q \o r
  <2>1. Names(p) \subseteq Names(q) \cup Names(r)
    BY <1>2 DEF Names, Elements
  <2>2. Names(q) \subseteq Names(p)
    BY <1>3 DEF Names, Elements
  <2>3. Names(r) \subseteq Names(p)
    BY <1>4 DEF Names, Elements
  <2> QED
    BY <2>1, <2>2, <2>3
<1> QED
  BY <1>1, <1>2, <1>5

LEMMA AscTail ==
  ASSUME NEW q \in Seq(Items), q # <<>>, Asc(q)
  PROVE  /\ Asc(Tail(q))
         /\ Head(q) # Flush => \A x \in Names(Tail(q)) : Head(q) < x
<1>1. /\ 1 \in DOMAIN q /\ q[1] = Head(q)
      /\ \A n \in DOMAIN Tail(q) : n \in Nat /\ n + 1 \in DOMAIN q /\ Tail(q)[n] = q[n + 1]
                                   /\ 1 < n + 1
  <2>1. Tail(q) \in Seq(Items)
    BY TailElements
  <2>2. \A n \in DOMAIN Tail(q) : n >= 1
    BY <2>1
  <2> QED
    BY <2>2, TailElements
<1>2. Asc(Tail(q))
  BY <1>1 DEF Asc
<1>3. Head(q) # Flush => \A x \in Names(Tail(q)) : Head(q) < x
  BY <1>1 DEF Asc, Names, Elements
<1> QED
  BY <1>2, <1>3

LEMMA AscAppend ==
  ASSUME NEW q \in Seq(Items), NEW x \in Items, Asc(q),
         x # Flush => \A y \in Names(q) : y < x
  PROVE  Asc(Append(q, x))
<1> DEFINE r == Append(q, x)
<1>1. /\ Len(q) \in Nat /\ DOMAIN r = 1 .. Len(q) + 1 /\ DOMAIN q = 1 .. Len(q)
      /\ r[Len(q) + 1] = x /\ \A n \in DOMAIN q : r[n] = q[n]
  BY AppendElements
<1>2. \A n \in DOMAIN q : q[n] # Flush => q[n] \in Names(q)
  BY DEF Names, Elements
<1> HIDE DEF r
<1> SUFFICES ASSUME NEW i \in DOMAIN r, NEW j \in DOMAIN r, i < j, r[i] # Flush, r[j] # Flush
             PROVE  r[i] < r[j]
  BY DEF Asc, r
<1>3. i \in DOMAIN q
  BY <1>1
<1>4. CASE j \in DOMAIN q
  BY <1>1, <1>3, <1>4 DEF Asc
<1>5. CASE j \notin DOMAIN q
  <2>1. r[j] = x
    BY <1>1, <1>5
  <2> QED
    BY <1>1, <1>2, <1>3, <2>1
<1> QED
  BY <1>4, <1>5

LEMMA AscConcat ==
  ASSUME NEW q \in Seq(Items), NEW r \in Seq(Items), Asc(q), Asc(r),
         \A x \in Names(q), y \in Names(r) : x < y
  PROVE  Asc(q \o r)
<1> DEFINE c == q \o r
<1>1. /\ \A i \in DOMAIN c :
           \/ i \in DOMAIN q /\ c[i] = q[i]
           \/ i - Len(q) \in DOMAIN r /\ c[i] = r[i - Len(q)] /\ \A j \in DOMAIN q : j < i
      /\ Len(q) \in Nat /\ DOMAIN c \subseteq Nat
  BY NamesConcat
<1>2. /\ \A n \in DOMAIN q : q[n] # Flush => q[n] \in Names(q)
      /\ \A n \in DOMAIN r : r[n] # Flush => r[n] \in Names(r)
  BY DEF Names, Elements
<1> HIDE DEF c
<1> SUFFICES ASSUME NEW i \in DOMAIN c, NEW j \in DOMAIN c, i < j, c[i] # Flush, c[j] # Flush
             PROVE  c[i] < c[j]
  BY DEF Asc, c
<1>3. CASE i \in DOMAIN q /\ c[i] = q[i] /\ j \in DOMAIN q /\ c[j] = q[j]
  BY <1>3 DEF Asc
<1>4. CASE /\ i \in DOMAIN q /\ c[i] = q[i]
           /\ j - Len(q) \in DOMAIN r /\ c[j] = r[j - Len(q)]
  BY <1>2, <1>4
<1>5. CASE /\ i - Len(q) \in DOMAIN r /\ c[i] = r[i - Len(q)]
           /\ j - Len(q) \in DOMAIN r /\ c[j] = r[j - Len(q)]
  <2>1. i - Len(q) < j - Len(q)
    BY <1>1
  <2> QED
    BY <1>5, <2>1 DEF Asc
<1>6. ~(i - Len(q) \in DOMAIN r /\ (\A n \in DOMAIN q : n < i) /\ j \in DOMAIN q)
  BY <1>1
<1> QED
  BY <1>1, <1>3, <1>4, <1>5, <1>6

(* The first blocks of a sequence.                                         *)
LEMMA AscAccepted ==
  ASSUME NEW w \in Worker, NEW blocks \in Seq(Blocks), Asc(blocks)
  PROVE  LET a == Accepted(w, blocks) IN
         /\ Asc(a) /\ Names(a) \subseteq Names(blocks)
         /\ Names(a) = Elements(a) /\ Names(blocks) = Elements(blocks)
<1> DEFINE a == Accepted(w, blocks)
<1>1. a \in Seq(Blocks) /\ Len(a) <= Len(blocks) /\ \A n \in 1 .. Len(a) : a[n] = blocks[n]
  BY AcceptedSeq
<1> HIDE DEF a
<1>2. \A n \in DOMAIN a : n \in DOMAIN blocks /\ a[n] = blocks[n]
  BY <1>1
<1>3. /\ \A n \in DOMAIN blocks : blocks[n] \in Blocks
      /\ \A n \in DOMAIN a : a[n] \in Blocks
  BY <1>1
<1>4. Flush \notin Blocks
  BY DEF Blocks, Flush
<1>5. Asc(a)
  BY <1>2 DEF Asc
<1>6. Names(a) = Elements(a) /\ Names(blocks) = Elements(blocks)
  BY <1>3, <1>4 DEF Names, Elements
<1>7. Elements(a) \subseteq Elements(blocks)
  BY <1>2 DEF Elements
<1> QED
  BY <1>5, <1>6, <1>7 DEF a

LEMMA MarksTyped ==
  ASSUME NEW o \in Seq(Sound)
  PROVE  /\ Marks(o) \in Seq(Items) /\ Len(Marks(o)) = Len(o) /\ DOMAIN Marks(o) = DOMAIN o
         /\ \A n \in DOMAIN o : /\ o[n] \in Sound
                                /\ Marks(o)[n] = IF o[n].type = "packet" THEN o[n].block ELSE Flush
                                /\ o[n].type = "packet" => Marks(o)[n] # Flush
<1>1. \A n \in DOMAIN o : o[n] \in Sound
  OBVIOUS
<1>2. \A n \in DOMAIN o : /\ Marks(o)[n] = IF o[n].type = "packet" THEN o[n].block ELSE Flush
                          /\ Marks(o)[n] \in Items
                          /\ o[n].type = "packet" => Marks(o)[n] # Flush
  BY <1>1 DEF Marks, Sound, Messages, Items, Flush
<1>3. DOMAIN Marks(o) = 1 .. Len(o) /\ DOMAIN o = 1 .. Len(o) /\ Len(o) \in Nat
  BY DEF Marks
<1>4. Marks(o) = [n \in 1 .. Len(o) |-> Marks(o)[n]]
  BY <1>3 DEF Marks
<1>5. Marks(o) \in Seq(Items) /\ Len(Marks(o)) = Len(o)
  BY <1>2, <1>3, <1>4
<1> QED
  BY <1>1, <1>2, <1>3, <1>5

LEMMA MarksTail ==
  ASSUME NEW o \in Seq(Sound), o # <<>>
  PROVE  /\ Marks(o) # <<>> /\ Marks(Tail(o)) = Tail(Marks(o))
         /\ Head(Marks(o)) = IF Head(o).type = "packet" THEN Head(o).block ELSE Flush
<1> DEFINE m == Marks(o)
           t == Tail(o)
<1>1. m \in Seq(Items) /\ Len(m) = Len(o) /\ DOMAIN m = DOMAIN o
  BY MarksTyped
<1>2. t \in Seq(Sound) /\ Len(t) = Len(o) - 1 /\ 1 \in DOMAIN o /\ o[1] = Head(o) /\ Len(o) \in Nat
      /\ \A n \in DOMAIN t : n + 1 \in DOMAIN o /\ t[n] = o[n + 1]
  BY TailElements
<1>3. Marks(t) \in Seq(Items) /\ Len(Marks(t)) = Len(t) /\ DOMAIN Marks(t) = DOMAIN t
  BY <1>2, MarksTyped
<1>4. m # <<>>
  BY <1>1, <1>2
<1>5. Tail(m) \in Seq(Items) /\ Len(Tail(m)) = Len(m) - 1 /\ m[1] = Head(m)
      /\ \A n \in DOMAIN Tail(m) : Tail(m)[n] = m[n + 1]
  BY <1>1, <1>4, TailElements
<1>6. \A n \in 1 .. Len(Tail(m)) : Marks(t)[n] = Tail(m)[n]
  <2> SUFFICES ASSUME NEW n \in 1 .. Len(Tail(m)) PROVE Marks(t)[n] = Tail(m)[n]
    OBVIOUS
  <2>1. n \in DOMAIN t /\ n \in DOMAIN Tail(m)
    BY <1>1, <1>2, <1>5
  <2>2. t[n] = o[n + 1] /\ n + 1 \in DOMAIN o /\ Tail(m)[n] = m[n + 1]
    BY <1>2, <1>5, <2>1
  <2>3. /\ Marks(t)[n] = IF t[n].type = "packet" THEN t[n].block ELSE Flush
        /\ m[n + 1] = IF o[n + 1].type = "packet" THEN o[n + 1].block ELSE Flush
    BY <1>2, <2>1, <2>2, MarksTyped
  <2> QED
    BY <2>2, <2>3
<1>7. Marks(t) = Tail(m)
  <2> HIDE DEF m, t
  <2> QED
    BY <1>1, <1>2, <1>3, <1>5, <1>6, SeqEqual
<1>8. Head(m) = IF Head(o).type = "packet" THEN Head(o).block ELSE Flush
  BY <1>2, <1>5, MarksTyped
<1> QED
  BY <1>4, <1>7, <1>8

LEMMA MarksAppend ==
  ASSUME NEW o \in Seq(Sound), NEW m \in Sound
  PROVE  Marks(Append(o, m)) =
           Append(Marks(o), IF m.type = "packet" THEN m.block ELSE Flush)
<1> DEFINE x == IF m.type = "packet" THEN m.block ELSE Flush
           p == Append(o, m)
           r == Append(Marks(o), x)
<1>1. x \in Items
  BY DEF Sound, Messages, Items, Flush
<1>2. /\ p \in Seq(Sound) /\ Len(p) = Len(o) + 1 /\ Len(o) \in Nat /\ p[Len(o) + 1] = m
      /\ DOMAIN p = 1 .. Len(o) + 1 /\ DOMAIN o = 1 .. Len(o)
      /\ \A n \in DOMAIN o : p[n] = o[n]
  BY AppendElements
<1>3. Marks(o) \in Seq(Items) /\ Len(Marks(o)) = Len(o) /\ DOMAIN Marks(o) = DOMAIN o
  BY MarksTyped
<1>4. Marks(p) \in Seq(Items) /\ Len(Marks(p)) = Len(p)
  BY <1>2, MarksTyped
<1> HIDE DEF x
<1>5. /\ r \in Seq(Items) /\ Len(r) = Len(o) + 1 /\ r[Len(o) + 1] = x
      /\ \A n \in DOMAIN o : r[n] = Marks(o)[n]
  <2>1. /\ r \in Seq(Items) /\ Len(r) = Len(Marks(o)) + 1 /\ r[Len(Marks(o)) + 1] = x
        /\ \A n \in DOMAIN Marks(o) : r[n] = Marks(o)[n]
    BY <1>1, <1>3, AppendElements
  <2> HIDE DEF r
  <2> QED
    BY <1>3, <2>1
<1> HIDE DEF p, r
<1>6. \A n \in 1 .. Len(p) : Marks(p)[n] = r[n]
  <2> SUFFICES ASSUME NEW n \in 1 .. Len(p) PROVE Marks(p)[n] = r[n]
    OBVIOUS
  <2>1. Marks(p)[n] = IF p[n].type = "packet" THEN p[n].block ELSE Flush
    BY <1>2, MarksTyped
  <2>2. CASE n = Len(o) + 1
    BY <1>2, <1>5, <2>1, <2>2 DEF x
  <2>3. CASE n # Len(o) + 1
    <3>1. n \in DOMAIN o /\ p[n] = o[n] /\ r[n] = Marks(o)[n]
      BY <1>2, <1>5, <2>3
    <3>2. Marks(o)[n] = IF o[n].type = "packet" THEN o[n].block ELSE Flush
      BY <3>1, MarksTyped
    <3> QED
      BY <2>1, <3>1, <3>2
  <2> QED
    BY <2>2, <2>3
<1>7. Marks(p) = r
  BY <1>2, <1>4, <1>5, <1>6, SeqEqual
<1> QED
  BY <1>7 DEF p, r, x
(* Arriving, in the codec, in the inbox and in the page's buffers.         *)
Apart(p, c, i, b, lo, hi) ==
  /\ \A x \in p, y \in c \cup i \cup b : x < y
  /\ \A x \in c, y \in i \cup b : x < y
  /\ \A x \in i, y \in b : x < y
  /\ \A x \in p \cup c \cup i \cup b : lo < x /\ x <= hi

Ordered(w, b, lo, hi) ==
  /\ Asc(Marks(w.outbox)) /\ Asc(w.codec) /\ Asc(w.inbox) /\ Asc(b)
  /\ Apart(Names(Marks(w.outbox)), Names(w.codec), Names(w.inbox), Names(b), lo, hi)
  /\ lo <= hi

Broken(w) == \E n \in DOMAIN w.outbox : w.outbox[n].type = "error"

OnTheWay(w) == Names(Marks(w.outbox)) \cup Names(w.codec) \cup Names(w.inbox)

Kept(w, b, hi, sent) == Broken(w) \/ 1 .. hi \subseteq sent \cup OnTheWay(w) \cup Names(b)

(* Blocks on the way of the running session: below the last one captured,  *)
(* beyond the last one sent, none lost unless the codec failed.            *)
LineInv ==
  active # None =>
    /\ Ordered(worker[encoder[active]], swapping.buffers, last[active], captured[active])
    /\ Kept(worker[encoder[active]], swapping.buffers, captured[active], done[active])

(* The queues of a worker, typed.                                          *)
LEMMA LineTyped ==
  ASSUME NEW w \in Worker
  PROVE  /\ w.outbox \in Seq(Sound) /\ Marks(w.outbox) \in Seq(Items)
         /\ w.codec \in Seq(Items) /\ w.inbox \in Seq(Items)
         /\ Names(Marks(w.outbox)) \subseteq Nat /\ Names(w.codec) \subseteq Nat
         /\ Names(w.inbox) \subseteq Nat
<1>1. w.outbox \in Seq(Sound) /\ w.codec \in Seq(Items) /\ w.inbox \in Seq(Items)
  BY DEF Worker
<1>2. Marks(w.outbox) \in Seq(Items)
  BY <1>1, MarksTyped
<1> QED
  BY <1>1, <1>2, NamesBlocks

(* A message that is no packet adds nothing to the marks.                  *)
LEMMA MarksOther ==
  ASSUME NEW o \in Seq(Sound), NEW m \in Sound, m.type # "packet", Asc(Marks(o))
  PROVE  /\ Names(Marks(Append(o, m))) = Names(Marks(o)) /\ Asc(Marks(Append(o, m)))
<1>1. Marks(Append(o, m)) = Append(Marks(o), Flush)
  BY MarksAppend
<1>2. Marks(o) \in Seq(Items) /\ Flush \in Items
  BY MarksTyped DEF Items
<1> QED
  BY <1>1, <1>2, NamesAppend, AscAppend

LEMMA BrokenAppend ==
  ASSUME NEW o \in Seq(Sound), NEW m \in Sound, NEW w, w.outbox = o,
         NEW v, v.outbox = Append(o, m)
  PROVE  /\ Broken(w) => Broken(v)
         /\ m.type = "error" => Broken(v)
<1>1. /\ Len(o) + 1 \in DOMAIN Append(o, m) /\ Append(o, m)[Len(o) + 1] = m
      /\ \A n \in DOMAIN o : n \in DOMAIN Append(o, m) /\ Append(o, m)[n] = o[n]
  BY AppendElements
<1> QED
  BY <1>1 DEF Broken

LEMMA BrokenTail ==
  ASSUME NEW w \in Worker, w.outbox # <<>>, Head(w.outbox).type # "error",
         NEW v, v.outbox = Tail(w.outbox)
  PROVE  Broken(w) => Broken(v)
<1>1. w.outbox \in Seq(Sound)
  BY DEF Worker
<1>2. /\ w.outbox[1] = Head(w.outbox) /\ v.outbox \in Seq(Sound)
      /\ \A n \in DOMAIN w.outbox :
           n = 1 \/ (n - 1 \in DOMAIN v.outbox /\ v.outbox[n - 1] = w.outbox[n])
  BY <1>1
<1> QED
  BY <1>2 DEF Broken

LEMMA ConsumingLine ==
  ASSUME NEW w \in Worker, w.inbox # <<>>, NEW b, NEW lo, NEW hi, NEW sent,
         Ordered(w, b, lo, hi)
  PROVE  /\ Ordered(Consuming(w), b, lo, hi)
         /\ Kept(w, b, hi, sent) => Kept(Consuming(w), b, hi, sent)
<1> DEFINE v == Consuming(w)
           h == Head(w.inbox)
           m == Post("consumed", 0, Queued(Append(w.codec, h)))
           P == Names(Marks(w.outbox))
           C == Names(w.codec)
           I == Names(w.inbox)
<1>1. /\ h \in Items /\ m \in Sound
      /\ v.inbox = Tail(w.inbox) /\ v.codec = Append(w.codec, h)
      /\ v.outbox = IF h = Flush THEN w.outbox ELSE Append(w.outbox, m)
  BY ConsumingFields
<1>2. /\ w.outbox \in Seq(Sound) /\ Marks(w.outbox) \in Seq(Items)
      /\ w.codec \in Seq(Items) /\ w.inbox \in Seq(Items)
  BY LineTyped
<1>3. m.type # "packet"
  BY DEF Post
<1> HIDE DEF v, m
<1>4. /\ Asc(Marks(w.outbox)) /\ Asc(w.codec) /\ Asc(w.inbox) /\ Asc(b)
      /\ Apart(P, C, I, Names(b), lo, hi)
  BY DEF Ordered
<1>5. /\ Names(Marks(v.outbox)) = P /\ Asc(Marks(v.outbox))
      /\ Broken(w) => Broken(v)
  <2>1. CASE h = Flush
    BY <1>1, <1>4, <2>1 DEF Broken
  <2>2. CASE h # Flush
    BY <1>1, <1>2, <1>3, <1>4, <2>2, MarksOther, BrokenAppend
  <2> QED
    BY <2>1, <2>2
<1>6. /\ I = Names(v.inbox) \cup ({h} \ {Flush}) /\ Asc(v.inbox)
      /\ h # Flush => \A x \in Names(v.inbox) : h < x
  BY <1>1, <1>2, <1>4, NamesTail, AscTail
<1>7. /\ Names(v.codec) = C \cup ({h} \ {Flush})
  BY <1>1, <1>2, NamesAppend
<1>8. Asc(v.codec)
  <2>1. h # Flush => h \in I
    BY <1>6
  <2>2. h # Flush => \A y \in C : y < h
    BY <1>4, <2>1 DEF Apart
  <2> QED
    BY <1>1, <1>2, <1>4, <2>2, AscAppend
<1> HIDE DEF P, C, I, h
<1>9. Apart(P, Names(v.codec), Names(v.inbox), Names(b), lo, hi)
  BY <1>4, <1>6, <1>7 DEF Apart
<1>10. Ordered(v, b, lo, hi)
  BY <1>4, <1>5, <1>6, <1>8, <1>9 DEF Ordered
<1>11. OnTheWay(v) = OnTheWay(w)
  BY <1>5, <1>6, <1>7 DEF OnTheWay, P, C, I
<1> QED
  BY <1>5, <1>10, <1>11 DEF Kept, v

LEMMA PuttingLine ==
  ASSUME NEW w \in Worker, w.codec # <<>>, NEW b, NEW lo, NEW hi, NEW sent,
         Ordered(w, b, lo, hi)
  PROVE  /\ Ordered(Putting(w), b, lo, hi)
         /\ Kept(w, b, hi, sent) => Kept(Putting(w), b, hi, sent)
<1> DEFINE v == Putting(w)
           h == Head(w.codec)
           m == IF h = Flush THEN Post("flushed", 0, 0)
                ELSE Post("packet", h, Queued(Tail(w.codec)))
           P == Names(Marks(w.outbox))
           C == Names(w.codec)
           I == Names(w.inbox)
<1>1. /\ h \in Items /\ m \in Sound
      /\ v.inbox = w.inbox /\ v.codec = Tail(w.codec) /\ v.outbox = Append(w.outbox, m)
  BY PuttingFields
<1>2. /\ w.outbox \in Seq(Sound) /\ Marks(w.outbox) \in Seq(Items)
      /\ w.codec \in Seq(Items) /\ w.inbox \in Seq(Items)
  BY LineTyped
<1>3. (IF m.type = "packet" THEN m.block ELSE Flush) = h
  BY DEF Post, Flush
<1> HIDE DEF v, m
<1>4. /\ Asc(Marks(w.outbox)) /\ Asc(w.codec) /\ Asc(w.inbox) /\ Asc(b)
      /\ Apart(P, C, I, Names(b), lo, hi)
  BY DEF Ordered
<1>5. Marks(v.outbox) = Append(Marks(w.outbox), h)
  BY <1>1, <1>2, <1>3, MarksAppend
<1>6. Names(Marks(v.outbox)) = P \cup ({h} \ {Flush})
  BY <1>1, <1>2, <1>5, NamesAppend
<1>7. /\ C = Names(v.codec) \cup ({h} \ {Flush}) /\ Asc(v.codec)
      /\ h # Flush => \A x \in Names(v.codec) : h < x
  BY <1>1, <1>2, <1>4, NamesTail, AscTail
<1>8. Asc(Marks(v.outbox))
  <2>1. h # Flush => h \in C
    BY <1>7
  <2>2. h # Flush => \A y \in P : y < h
    BY <1>4, <2>1 DEF Apart
  <2> QED
    BY <1>1, <1>2, <1>4, <1>5, <2>2, AscAppend
<1>9. Broken(w) => Broken(v)
  BY <1>1, <1>2, BrokenAppend
<1> HIDE DEF P, C, I, h
<1>10. Apart(Names(Marks(v.outbox)), Names(v.codec), I, Names(b), lo, hi)
  BY <1>4, <1>6, <1>7 DEF Apart
<1>11. Ordered(v, b, lo, hi)
  BY <1>1, <1>4, <1>7, <1>8, <1>10 DEF Ordered, I
<1>12. OnTheWay(v) = OnTheWay(w)
  BY <1>1, <1>6, <1>7 DEF OnTheWay, P, C, I
<1> QED
  BY <1>9, <1>11, <1>12 DEF Kept, v

LEMMA BreakingLine ==
  ASSUME NEW w \in Worker, w.inbox # <<>>, NEW b, NEW lo, NEW hi, NEW sent,
         Ordered(w, b, lo, hi)
  PROVE  Ordered(Breaking(w), b, lo, hi) /\ Kept(Breaking(w), b, hi, sent)
<1> DEFINE v == Breaking(w)
           m == Post("error", 0, 0)
           P == Names(Marks(w.outbox))
           C == Names(w.codec)
           I == Names(w.inbox)
<1>1. v.inbox = Tail(w.inbox) /\ v.codec = w.codec /\ v.outbox = Append(w.outbox, m)
  BY BreakingFields
<1>2. /\ w.outbox \in Seq(Sound) /\ Marks(w.outbox) \in Seq(Items)
      /\ w.codec \in Seq(Items) /\ w.inbox \in Seq(Items)
  BY LineTyped
<1>3. m \in Sound /\ m.type = "error"
  BY DEF Post, Sound, Messages
<1> HIDE DEF v, m
<1>4. /\ Asc(Marks(w.outbox)) /\ Asc(w.codec) /\ Asc(w.inbox) /\ Asc(b)
      /\ Apart(P, C, I, Names(b), lo, hi)
  BY DEF Ordered
<1>5. Names(Marks(v.outbox)) = P /\ Asc(Marks(v.outbox)) /\ Broken(v)
  BY <1>1, <1>2, <1>3, <1>4, MarksOther, BrokenAppend
<1>6. Names(v.inbox) \subseteq I /\ Asc(v.inbox)
  BY <1>1, <1>2, <1>4, NamesTail, AscTail
<1> HIDE DEF P, C, I
<1>7. Apart(P, C, Names(v.inbox), Names(b), lo, hi)
  BY <1>4, <1>6 DEF Apart
<1>8. Ordered(v, b, lo, hi)
  BY <1>1, <1>4, <1>5, <1>6, <1>7 DEF Ordered, C
<1> QED
  BY <1>5, <1>8 DEF Kept, v

LEMMA FailedLine ==
  ASSUME NEW w \in Worker, NEW b, NEW lo, NEW hi, NEW sent, Ordered(w, b, lo, hi)
  PROVE  Ordered(Failed(w), b, lo, hi) /\ Kept(Failed(w), b, hi, sent)
<1> DEFINE v == Failed(w)
           m == Post("error", 0, 0)
           P == Names(Marks(w.outbox))
           C == Names(w.codec)
           I == Names(w.inbox)
<1>1. v.inbox = w.inbox /\ v.codec = <<>> /\ v.outbox = Append(w.outbox, m)
  BY FailedFields
<1>2. w.outbox \in Seq(Sound) /\ m \in Sound /\ m.type = "error"
  BY LineTyped DEF Post, Sound, Messages
<1> HIDE DEF v, m
<1>3. /\ Asc(Marks(w.outbox)) /\ Asc(w.inbox) /\ Asc(b) /\ lo <= hi
      /\ Apart(P, C, I, Names(b), lo, hi)
  BY DEF Ordered
<1>4. Names(Marks(v.outbox)) = P /\ Asc(Marks(v.outbox)) /\ Broken(v)
  BY <1>1, <1>2, <1>3, MarksOther, BrokenAppend
<1>5. Names(v.codec) = {} /\ Asc(v.codec)
  BY <1>1, NamesEmpty
<1> HIDE DEF P, C, I
<1>6. Apart(P, {}, I, Names(b), lo, hi)
  BY <1>3 DEF Apart
<1>7. Ordered(v, b, lo, hi)
  BY <1>1, <1>3, <1>4, <1>5, <1>6 DEF Ordered, I
<1> QED
  BY <1>4, <1>7 DEF Kept, v

(* A message is taken; a packet is counted as sent or dropped.             *)
LEMMA TailLine ==
  ASSUME NEW w \in Worker, w.outbox # <<>>, NEW b, NEW lo \in Nat, NEW hi, NEW sent,
         Ordered(w, b, lo, hi), Head(w.outbox).type # "error",
         NEW v, v.inbox = w.inbox, v.codec = w.codec, v.outbox = Tail(w.outbox),
         NEW low, low = lo \/ (Head(w.outbox).type = "packet" /\ low = Head(w.outbox).block),
         NEW more, sent \subseteq more, Head(w.outbox).type = "packet" => Head(w.outbox).block \in more
  PROVE  /\ Ordered(v, b, low, hi) /\ low >= lo
         /\ Kept(w, b, hi, sent) => Kept(v, b, hi, more)
<1> DEFINE o == w.outbox
           h == Head(Marks(o))
           P == Names(Marks(o))
           C == Names(w.codec)
           I == Names(w.inbox)
           B == Names(b)
<1>1. /\ o \in Seq(Sound) /\ Marks(o) \in Seq(Items) /\ P \subseteq Nat
  BY LineTyped
<1>2. /\ Marks(o) # <<>> /\ Marks(Tail(o)) = Tail(Marks(o))
      /\ h = IF Head(o).type = "packet" THEN Head(o).block ELSE Flush
  BY <1>1, MarksTail
<1>3. Head(o).type = "packet" => h # Flush
  BY <1>1, <1>2, MarksTyped, TailElements
<1>4. /\ Asc(Marks(o)) /\ Asc(w.codec) /\ Asc(w.inbox) /\ Asc(b)
      /\ Apart(P, C, I, B, lo, hi) /\ lo <= hi
  BY DEF Ordered
<1>5. /\ P = Names(Marks(v.outbox)) \cup ({h} \ {Flush}) /\ Asc(Marks(v.outbox))
      /\ h # Flush => \A x \in Names(Marks(v.outbox)) : h < x
  BY <1>1, <1>2, <1>4, NamesTail, AscTail
<1>6. Broken(w) => Broken(v)
  BY BrokenTail
<1>7. low = lo \/ (h # Flush /\ low = h)
  BY <1>2, <1>3
<1>8. h # Flush => h \in more /\ h \in P
  BY <1>2, <1>3, <1>5
<1> HIDE DEF P, C, I, B, h, o
<1>9. Apart(Names(Marks(v.outbox)), C, I, B, low, hi) /\ low >= lo /\ low <= hi
  <2>1. Apart(Names(Marks(v.outbox)), C, I, B, lo, hi)
    BY <1>4, <1>5 DEF Apart
  <2>2. CASE low = lo
    BY <1>4, <2>1, <2>2
  <2>3. CASE h # Flush /\ low = h
    <3>1. \A x \in Names(Marks(v.outbox)) \cup C \cup I \cup B : h < x
      BY <1>4, <1>5, <1>8, <2>3 DEF Apart
    <3>2. h > lo /\ h \in Nat /\ h <= hi
      BY <1>1, <1>4, <1>8, <2>3 DEF Apart
    <3> QED
      BY <2>1, <2>3, <3>1, <3>2 DEF Apart
  <2> QED
    BY <1>7, <2>2, <2>3
<1>10. Ordered(v, b, low, hi)
  BY <1>4, <1>5, <1>9 DEF Ordered, C, I, B
<1>11. OnTheWay(w) \subseteq OnTheWay(v) \cup more
  BY <1>5, <1>8 DEF OnTheWay, P, o
<1> QED
  BY <1>6, <1>9, <1>10, <1>11 DEF Kept
LEMMA AskedLine ==
  ASSUME NEW w \in Worker, NEW b, NEW lo, NEW hi, NEW sent, Ordered(w, b, lo, hi)
  PROVE  /\ Ordered(Asked(w), b, lo, hi)
         /\ Kept(w, b, hi, sent) => Kept(Asked(w), b, hi, sent)
<1>1. /\ Asked(w).inbox = Append(w.inbox, Flush) /\ Asked(w).codec = w.codec
      /\ Asked(w).outbox = w.outbox
  BY AskedFields
<1>2. w.inbox \in Seq(Items) /\ Flush \in Items
  BY LineTyped DEF Items
<1>3. Names(Asked(w).inbox) = Names(w.inbox)
  BY <1>1, <1>2, NamesAppend
<1>4. Asc(Asked(w).inbox)
  BY <1>1, <1>2, AscAppend DEF Ordered
<1>5. OnTheWay(Asked(w)) = OnTheWay(w) /\ Broken(Asked(w)) = Broken(w)
  BY <1>1, <1>3, Zenon DEF OnTheWay, Broken
<1> QED
  BY <1>1, <1>3, <1>4, <1>5 DEF Ordered, Kept

LEMMA Higher ==
  ASSUME NEW hi \in Nat
  PROVE  1 .. hi + 1 = (1 .. hi) \cup {hi + 1}
OBVIOUS

(* A block that is captured, and dropped at once.                          *)
LEMMA StaleLine ==
  ASSUME NEW w \in Worker, NEW b \in Seq(Blocks), NEW lo \in Nat, NEW hi \in Nat, NEW sent,
         Ordered(w, b, lo, hi)
  PROVE  /\ Ordered(w, b, lo, hi + 1)
         /\ Kept(w, b, hi, sent) => Kept(w, b, hi + 1, sent \cup {hi + 1})
<1> DEFINE P == Names(Marks(w.outbox))
           C == Names(w.codec)
           I == Names(w.inbox)
           B == Names(b)
<1>1. P \subseteq Nat /\ C \subseteq Nat /\ I \subseteq Nat /\ B \subseteq Nat
  <2>1. b \in Seq(Items)
    BY DEF Items
  <2> QED
    BY <2>1, LineTyped, NamesBlocks
<1>2. Apart(P, C, I, B, lo, hi) /\ lo <= hi
  BY DEF Ordered
<1> HIDE DEF P, C, I, B
<1>3. Apart(P, C, I, B, lo, hi + 1) /\ lo <= hi + 1
  BY <1>1, <1>2 DEF Apart
<1>4. Ordered(w, b, lo, hi + 1)
  BY <1>3 DEF Ordered, P, C, I, B
<1> QED
  BY <1>4, Higher DEF Kept

(* One that the encoder is given, when it has room.                        *)
LEMMA EncodeLine ==
  ASSUME NEW w \in Worker, NEW b, Names(b) = {}, NEW lo \in Nat, NEW hi \in Nat, NEW sent,
         hi + 1 \in Blocks, Ordered(w, b, lo, hi)
  PROVE  LET v == Encode(w, <<hi + 1>>) IN
         /\ Ordered(v, b, lo, hi + 1)
         /\ Kept(w, b, hi, sent) =>
              Kept(v, b, hi + 1, sent \cup ({hi + 1} \ Elements(Accepted(w, <<hi + 1>>))))
<1> DEFINE x == hi + 1
           q == <<x>>
           a == Accepted(w, q)
           v == Encode(w, q)
           P == Names(Marks(w.outbox))
           C == Names(w.codec)
           I == Names(w.inbox)
<1>1. q \in Seq(Blocks) /\ Asc(q) /\ Elements(q) = {x}
  BY DEF Asc, Elements
<1> HIDE DEF q
<1>2. v.inbox = w.inbox \o a /\ v.codec = w.codec /\ v.outbox = w.outbox
  BY <1>1, EncodeFields
<1>3. /\ a \in Seq(Items) /\ Asc(a) /\ Names(a) \subseteq {x} /\ Names(a) = Elements(a)
  BY <1>1, AcceptedSeq, AscAccepted
<1> HIDE DEF a, v
<1>4. /\ P \subseteq Nat /\ C \subseteq Nat /\ I \subseteq Nat /\ w.inbox \in Seq(Items)
  BY LineTyped
<1>5. /\ Asc(Marks(w.outbox)) /\ Asc(w.codec) /\ Asc(w.inbox) /\ Asc(b)
      /\ Apart(P, C, I, {}, lo, hi) /\ lo <= hi
  BY DEF Ordered
<1>6. Names(v.inbox) = I \cup Names(a)
  BY <1>2, <1>3, <1>4, NamesConcat
<1>7. \A y \in I : y < x
  <2> HIDE DEF P, C, I
  <2> QED
    BY <1>4, <1>5 DEF Apart
<1>8. Asc(v.inbox)
  <2>1. \A y \in Names(w.inbox), z \in Names(a) : y < z
    BY <1>3, <1>7
  <2> QED
    BY <1>2, <1>3, <1>4, <1>5, <2>1, AscConcat
<1> HIDE DEF P, C, I
<1>9. Apart(P, C, Names(v.inbox), {}, lo, x) /\ lo <= x
  <2>1. \A y \in P \cup C \cup I : y \in Nat /\ y <= hi /\ y < x /\ lo < y
    BY <1>4, <1>5 DEF Apart
  <2>2. x \in Nat /\ lo < x
    BY <1>5
  <2> QED
    BY <1>3, <1>5, <1>6, <2>1, <2>2 DEF Apart
<1>10. Ordered(v, b, lo, x)
  BY <1>2, <1>5, <1>8, <1>9 DEF Ordered, P, C
<1>11. OnTheWay(v) = OnTheWay(w) \cup Elements(a) /\ Broken(v) = Broken(w)
  BY <1>2, <1>3, <1>6, Zenon DEF OnTheWay, Broken, I
<1>12. Kept(w, b, hi, sent) => Kept(v, b, x, sent \cup ({x} \ Elements(a)))
  BY <1>11, Higher DEF Kept
<1> QED
  BY <1>10, <1>12 DEF v, a, q

(* One that is buffered while the previous encoder flushes, the oldest     *)
(* making room.                                                            *)
LEMMA BufferedLine ==
  ASSUME ShapeInv, NEW w \in Worker, NEW lo \in Nat, NEW hi \in Nat, NEW sent,
         hi + 1 \in Blocks, Ordered(w, swapping.buffers, lo, hi)
  PROVE  LET b == swapping.buffers
             kept == IF Full(b) THEN Tail(b) ELSE b
             lost == IF Full(b) THEN {Head(b)} ELSE {}
             new == Buffered(kept, hi + 1) IN
         /\ Ordered(w, new, lo, hi + 1)
         /\ Kept(w, b, hi, sent) => Kept(w, new, hi + 1, sent \cup lost)
<1> DEFINE x == hi + 1
           b == swapping.buffers
           kept == IF Full(b) THEN Tail(b) ELSE b
           lost == IF Full(b) THEN {Head(b)} ELSE {}
           new == Buffered(kept, x)
           P == Names(Marks(w.outbox))
           C == Names(w.codec)
           I == Names(w.inbox)
<1>1. /\ Full(b) => b # <<>> /\ Head(b) \in Blocks
      /\ kept \in Seq(Blocks) /\ new = Append(kept, x) /\ b \in Seq(Blocks)
  BY BufferedFields DEF ShapeInv, Swaps
<1>2. b \in Seq(Items) /\ kept \in Seq(Items) /\ x \in Items /\ x # Flush /\ x \in Nat
  <2>1. x \in Items /\ x # Flush /\ x \in Nat
    BY DEF Items, Blocks, Flush
  <2> HIDE DEF b, kept
  <2> QED
    BY <1>1, <2>1 DEF Items
<1> HIDE DEF b
<1>3. /\ Asc(Marks(w.outbox)) /\ Asc(w.codec) /\ Asc(w.inbox) /\ Asc(b)
      /\ Apart(P, C, I, Names(b), lo, hi) /\ lo <= hi
  BY DEF Ordered, b
<1>4. Names(b) \subseteq Names(kept) \cup lost /\ Names(kept) \subseteq Names(b) /\ Asc(kept)
  <2>1. CASE Full(b)
    BY <1>1, <1>2, <1>3, <2>1, NamesTail, AscTail
  <2>2. CASE ~Full(b)
    BY <1>3, <2>2
  <2> QED
    BY <2>1, <2>2
<1> HIDE DEF kept, new
<1>5. /\ P \subseteq Nat /\ C \subseteq Nat /\ I \subseteq Nat /\ Names(b) \subseteq Nat
  BY <1>2, LineTyped, NamesBlocks
<1> HIDE DEF P, C, I, lost
<1>6. Names(new) = Names(kept) \cup {x}
  BY <1>1, <1>2, NamesAppend
<1>7. \A y \in P \cup C \cup I \cup Names(b) : y \in Nat /\ y < x /\ lo < y /\ y <= x
  BY <1>3, <1>5 DEF Apart
<1>8. Asc(new)
  BY <1>1, <1>2, <1>4, <1>7, AscAppend
<1>9. Apart(P, C, I, Names(new), lo, x) /\ lo <= x
  <2>1. lo < x
    BY <1>3
  <2> QED
    BY <1>2, <1>3, <1>4, <1>6, <1>7, <2>1 DEF Apart
<1>10. Ordered(w, new, lo, x)
  BY <1>3, <1>8, <1>9 DEF Ordered, P, C, I
<1>11. Kept(w, b, hi, sent) => Kept(w, new, x, sent \cup lost)
  BY <1>4, <1>6, Higher DEF Kept
<1> QED
  BY <1>10, <1>11 DEF b, kept, lost, new

(* An encoder not yet in use has no blocks, one that flushed is done with  *)
(* them.                                                                   *)
LEMMA IdleLine ==
  ASSUME NEW w \in Worker, Idle(w), w.state \in {"loading", "loaded"}
  PROVE  /\ Names(Marks(w.outbox)) = {} /\ Names(w.codec) = {} /\ Names(w.inbox) = {}
         /\ Asc(Marks(w.outbox)) /\ Asc(w.codec) /\ Asc(w.inbox)
<1>1. w.outbox \in Seq(Sound) /\ w.codec = <<>> /\ w.inbox = <<>>
  BY LineTyped DEF Idle
<1>2. \A n \in DOMAIN Marks(w.outbox) : Marks(w.outbox)[n] = Flush
  BY <1>1, MarksTyped DEF Idle
<1>3. Names(Marks(w.outbox)) = {} /\ Asc(Marks(w.outbox))
  BY <1>2 DEF Names, Elements, Asc
<1> QED
  BY <1>1, <1>3, NamesEmpty

LEMMA FlushedLine ==
  ASSUME NEW w \in Worker, w.outbox # <<>>, Head(w.outbox).type = "flushed", FlushLast(w)
  PROVE  OnTheWay(w) = {} /\ ~Broken(w)
<1>1. w.outbox \in Seq(Sound) /\ 1 \in DOMAIN w.outbox /\ w.outbox[1] = Head(w.outbox)
  BY LineTyped, TailElements
<1>2. Len(w.outbox) = 1 /\ w.codec = <<>> /\ w.inbox = <<>>
  BY <1>1 DEF FlushLast
<1>3. \A n \in DOMAIN w.outbox : w.outbox[n].type = "flushed"
  BY <1>1, <1>2
<1>4. Names(Marks(w.outbox)) = {}
  BY <1>1, <1>3, MarksTyped DEF Names, Elements
<1>5. ~Broken(w)
  BY <1>3 DEF Broken
<1> QED
  BY <1>2, <1>4, <1>5, NamesEmpty DEF OnTheWay
-----------------------------------------------------------------------------
(* The steps.  Nothing changes for the running session's encoder.          *)
LEMMA LineSame ==
  ASSUME LineInv, UNCHANGED <<active, encoder, captured, last, done>>,
         active # None => /\ worker'[encoder[active]] = worker[encoder[active]]
                          /\ swapping'.buffers = swapping.buffers
  PROVE  LineInv'
<1>1. SUFFICES ASSUME active # None
               PROVE  /\ Ordered(worker'[encoder[active]], swapping'.buffers,
                                 last[active], captured[active])
                      /\ Kept(worker'[encoder[active]], swapping'.buffers,
                              captured[active], done[active])
  BY Zenon DEF LineInv
<1> QED
  BY <1>1, Zenon DEF LineInv

LEMMA LineOther ==
  ASSUME ShapeInv, LifeInv, LineInv, NEW e \in Encoders, ~Current(e), NEW v,
         worker' = [worker EXCEPT ![e] = v],
         UNCHANGED <<active, encoder, captured, last, done>>,
         swapping'.buffers = swapping.buffers
  PROVE  LineInv'
<1>1. active # None => worker'[encoder[active]] = worker[encoder[active]]
  BY DEF Current, ShapeInv, LifeInv, ActiveInv
<1> QED
  BY <1>1, LineSame

(* Something does: the blocks and the counters of the session.             *)
LEMMA LineMoved ==
  ASSUME active' # None,
         Ordered(worker'[encoder'[active']], swapping'.buffers, last'[active'], captured'[active']),
         Kept(worker'[encoder'[active']], swapping'.buffers, captured'[active'], done'[active'])
  PROVE  LineInv'
BY Zenon DEF LineInv

(* The running session, its encoder and what is known of them.             *)
LEMMA Running ==
  ASSUME ShapeInv, LifeInv, LineInv, NEW e \in Encoders, Current(e)
  PROVE  /\ active # None /\ active \in Sessions /\ encoder[active] = e
         /\ worker[e] \in Worker /\ worker[e].owner = active
         /\ last[active] \in Nat /\ captured[active] \in Nat
         /\ swapping.buffers \in Seq(Blocks)
         /\ Ordered(worker[e], swapping.buffers, last[active], captured[active])
         /\ Kept(worker[e], swapping.buffers, captured[active], done[active])
<1>1. active # None /\ active \in Sessions /\ encoder[active] = e
  BY DEF Current, ShapeInv
<1>2. worker[e] \in Worker /\ worker[e].owner = active /\ swapping.buffers \in Seq(Blocks)
  BY <1>1 DEF ShapeInv, Swaps, LifeInv, ActiveInv
<1>3. last[active] \in Nat /\ captured[active] \in Nat
  BY <1>1 DEF ShapeInv, Blocks
<1>4. /\ Ordered(worker[e], swapping.buffers, last[active], captured[active])
      /\ Kept(worker[e], swapping.buffers, captured[active], done[active])
  BY <1>1, Zenon DEF LineInv
<1> QED
  BY <1>1, <1>2, <1>3, <1>4

LEMMA WorkLine ==
  ASSUME ShapeInv, LifeInv, LineInv, NEW e \in Encoders,
         Consume(e) \/ Output(e) \/ Break(e) \/ Fail(e)
  PROVE  LineInv'
<1> DEFINE w == worker[e]
           s == active
           b == swapping.buffers
<1>1. PICK v : /\ worker' = [worker EXCEPT ![e] = v]
               /\ \/ w.inbox # <<>> /\ (v = Consuming(w) \/ v = Breaking(w))
                  \/ w.codec # <<>> /\ v = Putting(w)
                  \/ v = Failed(w)
  BY ConsumeDoes, OutputDoes, BreakDoes, FailDoes
<1>2. UNCHANGED <<active, starting, swapping, encoder, captured, last, done>>
  BY ConsumeDoes, OutputDoes, BreakDoes, FailDoes
<1>3. CASE ~Current(e)
  BY <1>1, <1>2, <1>3, LineOther
<1>4. CASE Current(e)
  <2>1. /\ s # None /\ encoder[s] = e /\ w \in Worker
        /\ Ordered(w, b, last[s], captured[s]) /\ Kept(w, b, captured[s], done[s])
    BY <1>4, Running
  <2> HIDE DEF w, b, s
  <2>2. Ordered(v, b, last[s], captured[s]) /\ Kept(v, b, captured[s], done[s])
    BY <1>1, <2>1, ConsumingLine, BreakingLine, PuttingLine, FailedLine
  <2>3. worker'[e] = v
    BY <1>1 DEF ShapeInv
  <2> QED
    BY <1>2, <2>1, <2>2, <2>3, LineMoved DEF b, s
<1> QED
  BY <1>3, <1>4

LEMMA LoadLine ==
  ASSUME ShapeInv, LifeInv, LineInv, NEW e \in Encoders, Load(e)
  PROVE  LineInv'
<1>1. ~Current(e)
  BY LoadDoes, CurrentLoaded
<1> QED
  BY <1>1, LoadDoes, LineOther

LEMMA ConsumedLine ==
  ASSUME ShapeInv, LifeInv, LineInv, NEW e \in Encoders, ReceiveConsumed(e)
  PROVE  LineInv'
<1> DEFINE w == worker[e]
           v == Credited(w)
           s == active
           b == swapping.buffers
<1>1. /\ worker' = [worker EXCEPT ![e] = v]
      /\ UNCHANGED <<active, starting, swapping, encoder, captured, last, done>>
  BY ConsumedDoes
<1>2. w \in Worker /\ w.outbox # <<>> /\ Head(w.outbox).type = "consumed"
  BY HeadTyped DEF ReceiveConsumed
<1>3. v.inbox = w.inbox /\ v.codec = w.codec /\ v.outbox = Tail(w.outbox)
  BY <1>2, CreditedFields
<1> HIDE DEF v
<1>4. CASE ~Current(e)
  BY <1>1, <1>4, LineOther
<1>5. CASE Current(e)
  <2>1. /\ s # None /\ encoder[s] = e /\ last[s] \in Nat
        /\ Ordered(w, b, last[s], captured[s]) /\ Kept(w, b, captured[s], done[s])
    BY <1>5, Running
  <2> HIDE DEF w, b, s
  <2>2. Ordered(v, b, last[s], captured[s]) /\ Kept(v, b, captured[s], done[s])
    BY <1>2, <1>3, <2>1, TailLine
  <2>3. worker'[e] = v
    BY <1>1 DEF ShapeInv
  <2> QED
    BY <1>1, <2>1, <2>2, <2>3, LineMoved DEF b, s
<1> QED
  BY <1>4, <1>5

(* The packet that arrives is the oldest block on the way.                 *)
LEMMA PacketLine ==
  ASSUME ShapeInv, LifeInv, LineInv, NEW e \in Encoders, ReceivePacket(e)
  PROVE  LineInv' /\ \A r \in Sessions : last'[r] >= last[r]
<1> DEFINE w == worker[e]
           v == Heard(w)
           s == active
           b == swapping.buffers
           x == Head(w.outbox).block
<1>1. /\ w.owner \in Sessions
      /\ worker' = [worker EXCEPT ![e] = v]
      /\ \/ /\ s = w.owner /\ encoder[s] = e /\ Account(s, {x})
            /\ last' = [last EXCEPT ![s] = x] \/ last' = last
         \/ ~(s = w.owner /\ encoder[w.owner] = e) /\ UNCHANGED <<last, done>>
      /\ UNCHANGED <<active, starting, swapping, encoder, captured>>
  BY PacketDoes
<1>2. w \in Worker /\ w.outbox # <<>> /\ Head(w.outbox).type = "packet"
  BY HeadTyped DEF ReceivePacket
<1>3. v.inbox = w.inbox /\ v.codec = w.codec /\ v.outbox = Tail(w.outbox)
  BY <1>2, HeardFields
<1>4. \A r \in Sessions : last[r] \in Nat
  BY DEF ShapeInv, Blocks
<1> HIDE DEF v, x
<1>5. CASE ~Current(e)
  <2>1. UNCHANGED <<last, done>>
    BY <1>1, <1>5, Zero DEF Current
  <2>2. LineInv'
    BY <1>1, <1>5, <2>1, LineOther
  <2> QED
    BY <1>4, <2>1, <2>2
<1>6. CASE Current(e)
  <2>1. /\ s # None /\ s \in Sessions /\ encoder[s] = e /\ last[s] \in Nat /\ w.owner = s
        /\ Ordered(w, b, last[s], captured[s]) /\ Kept(w, b, captured[s], done[s])
    BY <1>6, Running
  <2> HIDE DEF s, b
  <2>2. Account(s, {x}) /\ (last' = [last EXCEPT ![s] = x] \/ last' = last)
    BY <1>1, <2>1
  <2>3. done'[s] = done[s] \cup {x}
    BY <2>1, <2>2 DEF Account, ShapeInv
  <2>4. /\ last'[s] = last[s] \/ last'[s] = x
        /\ \A r \in Sessions : r # s => last'[r] = last[r]
    BY <2>1, <2>2 DEF ShapeInv
  <2> HIDE DEF w
  <2>5. /\ Ordered(v, b, last'[s], captured[s]) /\ last'[s] >= last[s]
        /\ Kept(v, b, captured[s], done'[s])
    <3>1. x = Head(w.outbox).block
      BY DEF x, w
    <3>2. done[s] \subseteq done'[s] /\ x \in done'[s]
      BY <2>3
    <3> QED
      BY <1>2, <1>3, <2>1, <2>4, <3>1, <3>2, TailLine
  <2>6. worker'[e] = v
    BY <1>1 DEF ShapeInv
  <2>7. LineInv'
    BY <1>1, <2>1, <2>5, <2>6, LineMoved DEF b, s
  <2>8. \A r \in Sessions : last'[r] >= last[r]
    BY <1>4, <2>4, <2>5
  <2> QED
    BY <2>7, <2>8
<1> QED
  BY <1>5, <1>6

LEMMA ReadyLine ==
  ASSUME ShapeInv, LifeInv, LineInv, NEW e \in Encoders, ReceiveReady(e)
  PROVE  LineInv'
<1>1. UNCHANGED <<active, encoder, captured, last, done>>
  BY ReadyDoes
<1>2. CASE /\ starting.step = "loading" \/ worker[e].state = "closed"
           /\ worker' = [worker EXCEPT ![e] = Taken(worker[e])]
           /\ UNCHANGED swapping
  <2>1. ~Current(e)
    BY <1>2, NotCurrent, CurrentLoaded
  <2> QED
    BY <1>1, <1>2, <2>1, LineOther
<1>3. CASE /\ swapping.step = "preparing" /\ swapping.encoder = e
           /\ active # None /\ encoder[active] \in Encoders /\ encoder[active] # e
           /\ swapping' = [swapping EXCEPT !.step = "flushing"]
           /\ worker' = [worker EXCEPT ![e] = Taken(worker[e]),
                           ![encoder[active]] = Asked(worker[encoder[active]])]
  <2> DEFINE c == encoder[active]
             s == active
             b == swapping.buffers
  <2>1. c \in Encoders /\ c # e /\ Current(c)
    BY <1>3 DEF Current
  <2>2. worker'[c] = Asked(worker[c])
    <3>1. worker' = [worker EXCEPT ![e] = Taken(worker[e]), ![c] = Asked(worker[c])]
      BY <1>3
    <3> HIDE DEF c
    <3> QED
      BY <2>1, <3>1 DEF ShapeInv
  <2>3. swapping'.buffers = b
    BY <1>3 DEF ShapeInv, Swaps
  <2>4. /\ worker[c] \in Worker
        /\ Ordered(worker[c], b, last[s], captured[s]) /\ Kept(worker[c], b, captured[s], done[s])
    <3> HIDE DEF c
    <3> QED
      BY <2>1, Running
  <2> HIDE DEF c, b, s
  <2>5. /\ Ordered(Asked(worker[c]), b, last[s], captured[s])
        /\ Kept(Asked(worker[c]), b, captured[s], done[s])
    BY <2>4, AskedLine
  <2> QED
    BY <1>1, <1>3, <2>2, <2>3, <2>5, LineMoved DEF c, s
<1> QED
  BY <1>2, <1>3, ReadyDoes

(* The old encoder is done with its blocks; the new one takes those the    *)
(* page buffered, and the page drops the rest.                             *)
LEMMA TakesOver ==
  ASSUME NEW w \in Worker, NEW n \in Worker, NEW b \in Seq(Blocks),
         NEW lo, NEW hi \in Nat, NEW sent,
         w.outbox # <<>>, Head(w.outbox).type = "flushed", FlushLast(w),
         Idle(n), n.state = "loaded",
         Ordered(w, b, lo, hi), Kept(w, b, hi, sent)
  PROVE  /\ Ordered(Encode(n, b), <<>>, lo, hi)
         /\ Kept(Encode(n, b), <<>>, hi, sent \cup (Elements(b) \ Elements(Accepted(n, b))))
<1> DEFINE a == Accepted(n, b)
           v == Encode(n, b)
<1>1. /\ v.inbox = n.inbox \o a /\ v.codec = n.codec /\ v.outbox = n.outbox
      /\ a \in Seq(Items)
  BY EncodeFields, AcceptedSeq
<1>2. n.inbox = <<>> /\ n.codec = <<>>
  BY DEF Idle
<1>3. /\ Names(Marks(n.outbox)) = {} /\ Names(n.codec) = {} /\ Names(n.inbox) = {}
      /\ Asc(Marks(n.outbox)) /\ Asc(n.codec)
  BY IdleLine
<1>4. Asc(b) /\ Apart(Names(Marks(w.outbox)), Names(w.codec), Names(w.inbox), Names(b), lo, hi)
      /\ lo <= hi
  BY DEF Ordered
<1>5. /\ Asc(a) /\ Names(a) \subseteq Names(b) /\ Names(a) = Elements(a) /\ Names(b) = Elements(b)
  BY <1>4, AscAccepted
<1> HIDE DEF a, v
<1>6. v.inbox = a
  BY <1>1, <1>2
<1>7. OnTheWay(v) = Names(a)
  BY <1>1, <1>3, <1>6 DEF OnTheWay
<1>8. Names(<<>>) = {} /\ Asc(<<>>)
  BY NamesEmpty
<1>9. Apart({}, {}, Names(a), {}, lo, hi)
  BY <1>4, <1>5 DEF Apart
<1>10. Ordered(v, <<>>, lo, hi)
  BY <1>1, <1>3, <1>4, <1>5, <1>6, <1>8, <1>9 DEF Ordered
<1>11. 1 .. hi \subseteq sent \cup Names(b)
  BY FlushedLine DEF Kept
<1>12. Kept(v, <<>>, hi, sent \cup (Elements(b) \ Elements(a)))
  BY <1>5, <1>7, <1>11 DEF Kept
<1> QED
  BY <1>10, <1>12 DEF a, v

LEMMA SwappedLine ==
  ASSUME ShapeInv, LifeInv, PipeInv, LineInv, NEW e \in Encoders,
         worker[e].outbox # <<>>, Head(worker[e].outbox).type = "flushed", Swapped(e)
  PROVE  LineInv'
<1> DEFINE next == swapping.encoder
           b == swapping.buffers
           w == worker[e]
           n == worker[next]
           s == active
           more == done[s] \cup (Elements(b) \ Elements(Accepted(n, b)))
<1>1. /\ next \in Encoders /\ next # e /\ n \in Worker /\ n.state = "loaded"
      /\ b \in Seq(Blocks) /\ s \in Sessions /\ s # None /\ encoder[s] = e
      /\ worker'[next] = Encode(n, b) /\ encoder'[s] = next
      /\ swapping'.buffers = <<>>
      /\ UNCHANGED <<active, captured, last>>
  BY SwappedFields
<1>2. Current(e) /\ ~Current(next)
  BY <1>1 DEF Current
<1>3. FlushLast(w) /\ Idle(n)
  BY <1>1, <1>2 DEF PipeInv, Busy
<1>4. done'[s] = more
  BY <1>1 DEF Swapped, Account, ShapeInv
<1>5. /\ w \in Worker /\ captured[s] \in Nat
      /\ Ordered(w, b, last[s], captured[s]) /\ Kept(w, b, captured[s], done[s])
  BY <1>2, Running
<1>6. w.outbox # <<>> /\ Head(w.outbox).type = "flushed"
  OBVIOUS
<1> HIDE DEF next, b, w, n, s
<1>7. Ordered(Encode(n, b), <<>>, last[s], captured[s]) /\ Kept(Encode(n, b), <<>>, captured[s], more)
  BY <1>1, <1>3, <1>5, <1>6, TakesOver
<1> HIDE DEF more
<1> QED
  BY <1>1, <1>4, <1>7, LineMoved DEF s

LEMMA FlushLine ==
  ASSUME ShapeInv, LifeInv, PipeInv, LineInv, NEW e \in Encoders, ReceiveFlushed(e)
  PROVE  LineInv' /\ last' = last
<1>0. worker[e].outbox # <<>> /\ Head(worker[e].outbox).type = "flushed"
      /\ worker[e].outbox \in Seq(Sound)
  BY HeadTyped DEF ReceiveFlushed
<1>1. CASE Swapped(e)
  BY <1>0, <1>1, SwappedLine DEF Swapped
<1>2. CASE /\ ~(swapping.step = "flushing" /\ active # None /\ encoder[active] = e)
           /\ worker' = [worker EXCEPT ![e] = Taken(worker[e])]
           /\ UNCHANGED <<active, starting, swapping, encoder, captured, last, done>>
  <2>1. ~NoFlush(worker[e])
    BY <1>0, TailElements DEF NoFlush
  <2>2. ~Current(e)
    BY <1>2, <2>1 DEF PipeInv, Busy, Current
  <2> QED
    BY <1>2, <2>2, LineOther
<1> QED
  BY <1>1, <1>2, FlushedDoes

(* A worker that is not the session's is closed, or the session ends.      *)
LEMMA ClosedLine ==
  ASSUME ShapeInv, LifeInv, LineInv, NEW e, worker' = Close({e}), ~Current(e),
         UNCHANGED <<active, encoder, captured, last, done>>,
         swapping'.buffers = swapping.buffers
  PROVE  LineInv'
<1>1. \A d \in Encoders : d # e => worker'[d] = worker[d]
  BY CloseFields
<1>2. active # None => worker'[encoder[active]] = worker[encoder[active]]
  BY <1>1 DEF Current, LifeInv, ActiveInv
<1> QED
  BY <1>2, LineSame

LEMMA DroppedLine ==
  ASSUME ShapeInv, LifeInv, LineInv, swapping.step = "preparing",
         worker' = Close({swapping.encoder}), swapping' = NoSwap,
         UNCHANGED <<active, encoder, captured, last, done>>
  PROVE  LineInv'
<1>1. swapping'.buffers = swapping.buffers
  BY DEF LifeInv, SwapInv, NoSwap
<1> QED
  BY <1>1, NotCurrent, ClosedLine

LEMMA ErrorLine ==
  ASSUME ShapeInv, LifeInv, LineInv, NEW e \in Encoders, ReceiveError(e)
  PROVE  LineInv' /\ last' = last
<1>1. UNCHANGED <<encoder, captured, last, done>>
  BY ErrorDoes
<1>2. CASE starting.step = "loading" /\ worker' = Close({e}) /\ UNCHANGED <<active, swapping>>
  BY <1>1, <1>2, NotCurrent, ClosedLine
<1>3. CASE /\ swapping.step = "preparing" /\ swapping.encoder = e
           /\ swapping' = NoSwap /\ worker' = Close({e}) /\ UNCHANGED active
  BY <1>1, <1>3, DroppedLine
<1>4. CASE active # None /\ Cleanup(active)
  BY <1>1, <1>4 DEF Cleanup, LineInv
<1>5. CASE /\ worker[e].state = "closed" \/ starting.step = "connecting"
           /\ worker' = [worker EXCEPT ![e] = Taken(worker[e])]
           /\ UNCHANGED <<active, swapping>>
  <2>1. ~Current(e)
    BY <1>5, NotCurrent, CurrentLoaded
  <2> QED
    BY <1>1, <1>5, <2>1, LineOther
<1> QED
  BY <1>1, <1>2, <1>3, <1>4, <1>5, ErrorDoes

LEMMA LifeLine ==
  ASSUME ShapeInv, LifeInv, PipeInv, LineInv,
         \/ Connect \/ Started \/ Stop \/ SwitchMode \/ ReadyTimeout
         \/ \E s \in Sessions : Start(s)
  PROVE  LineInv' /\ last' = last
<1>1. CASE Connect
  <2> DEFINE s == starting.session
             e == starting.encoder
             w == worker[e]
  <2>1. /\ starting.step = "connecting" /\ active' = s
        /\ encoder' = [encoder EXCEPT ![s] = e]
        /\ UNCHANGED <<swapping, captured, worker, last, done>>
    BY <1>1 DEF Connect, history
  <2>2. /\ s \in Sessions /\ s # None /\ e \in Encoders /\ w \in Worker /\ w.state = "loaded"
        /\ captured[s] = 0 /\ last[s] = 0 /\ ~Current(e) /\ active = None
    BY <2>1, NotCurrent, Zero DEF ShapeInv, LifeInv, StartInv, ActiveInv
  <2>3. swapping.buffers = <<>>
    BY <2>2 DEF LifeInv, SwapInv, NoSwap
  <2>4. encoder'[s] = e
    BY <2>1, <2>2 DEF ShapeInv
  <2> HIDE DEF s, e, w
  <2>5. Idle(w)
    BY <2>2 DEF PipeInv, w
  <2>6. /\ Names(Marks(w.outbox)) = {} /\ Names(w.codec) = {} /\ Names(w.inbox) = {}
        /\ Asc(Marks(w.outbox)) /\ Asc(w.codec) /\ Asc(w.inbox)
    BY <2>2, <2>5, IdleLine
  <2>7. Ordered(w, <<>>, 0, 0)
    BY <2>6, NamesEmpty DEF Ordered, Apart
  <2>8. Kept(w, <<>>, 0, done[s])
    <3>1. 1 .. 0 = {}
      OBVIOUS
    <3> QED
      BY <3>1 DEF Kept
  <2>9. LineInv'
    BY <2>1, <2>2, <2>3, <2>4, <2>7, <2>8, LineMoved DEF w
  <2> QED
    BY <2>1, <2>9
<1>2. CASE Started
  <2>1. UNCHANGED <<active, encoder, swapping, captured, last, done>>
    BY <1>2 DEF Started, session, history
  <2>2. CASE starting.step = "connecting"
    <3>1. worker' = Close({starting.encoder}) /\ starting.encoder \in Encoders
      BY <1>2, <2>2 DEF Started, LifeInv, StartInv
    <3> QED
      BY <2>1, <2>2, <3>1, NotCurrent, ClosedLine
  <2>3. CASE starting.step # "connecting"
    BY <1>2, <2>1, <2>3, LineSame DEF Started
  <2> QED
    BY <2>2, <2>3
<1>3. CASE Stop
  BY <1>3 DEF Stop, Cleanup, LineInv, history
<1>4. CASE SwitchMode
  <2> PICK e \in Encoders :
        /\ Fresh(e)
        /\ swapping' = [NoSwap EXCEPT !.step = "preparing", !.session = active, !.encoder = e]
        /\ worker' = [worker EXCEPT ![e] = Created(active)]
    BY <1>4 DEF SwitchMode
  <2>1. /\ UNCHANGED <<active, encoder, captured, last, done>>
        /\ swapping'.buffers = swapping.buffers
    BY <1>4 DEF SwitchMode, session, history, NoSwap
  <2>2. ~Current(e)
    BY CurrentLoaded DEF Fresh
  <2> QED
    BY <2>1, <2>2, LineOther
<1>5. CASE ReadyTimeout
  BY <1>5, DroppedLine DEF ReadyTimeout, session, history
<1>6. ASSUME NEW s \in Sessions, Start(s) PROVE LineInv' /\ last' = last
  <2> PICK e \in Encoders : Fresh(e) /\ worker' = [worker EXCEPT ![e] = Created(s)]
    BY <1>6 DEF Start
  <2>1. UNCHANGED <<active, encoder, swapping, captured, last, done>>
    BY <1>6 DEF Start, session, history
  <2>2. ~Current(e)
    BY CurrentLoaded DEF Fresh
  <2> QED
    BY <2>1, <2>2, LineOther
<1> QED
  BY <1>1, <1>2, <1>3, <1>4, <1>5, <1>6

(* The next block: dropped, buffered behind the others, or encoded.        *)
LEMMA CaptureLine ==
  ASSUME ShapeInv, LifeInv, LineInv, NEW s \in Sessions, Capture(s)
  PROVE  LineInv' /\ last' = last
<1> DEFINE hi == captured[s]
           e == encoder[s]
           w == worker[e]
           b == swapping.buffers
<1>1. /\ active = s /\ s # None /\ hi + 1 \in Blocks /\ hi \in Nat /\ captured'[s] = hi + 1
      /\ UNCHANGED <<active, starting, encoder, last>>
  BY CaptureCounts
<1>2. e \in Encoders /\ Current(e)
  BY <1>1 DEF LifeInv, ActiveInv, Current
<1>3. /\ w \in Worker /\ last[s] \in Nat /\ b \in Seq(Blocks)
      /\ Ordered(w, b, last[s], hi) /\ Kept(w, b, hi, done[s])
  <2> HIDE DEF e
  <2> QED
    BY <1>1, <1>2, Running
<1>4. \A q : Account(s, q) => done'[s] = done[s] \cup q
  BY DEF Account, ShapeInv
<1>5. CASE Account(s, {hi + 1}) /\ UNCHANGED <<swapping, worker>>
  <2> HIDE DEF hi, b, w
  <2>1. Ordered(w, b, last[s], hi + 1) /\ Kept(w, b, hi + 1, done[s] \cup {hi + 1})
    BY <1>1, <1>3, StaleLine
  <2> QED
    BY <1>1, <1>4, <1>5, <2>1, LineMoved DEF w, b
<1>6. CASE /\ swapping' = [swapping EXCEPT !.buffers =
                             Buffered(IF Full(@) THEN Tail(@) ELSE @, hi + 1)]
           /\ Account(s, IF Full(b) THEN {Head(b)} ELSE {})
           /\ UNCHANGED worker
  <2> DEFINE new == Buffered(IF Full(b) THEN Tail(b) ELSE b, hi + 1)
             lost == IF Full(b) THEN {Head(b)} ELSE {}
  <2>1. swapping'.buffers = new
    BY <1>6 DEF ShapeInv, Swaps
  <2>2. Ordered(w, new, last[s], hi + 1) /\ Kept(w, new, hi + 1, done[s] \cup lost)
    <3> HIDE DEF hi, w
    <3> QED
      BY <1>1, <1>3, BufferedLine
  <2> HIDE DEF new, lost, hi, w
  <2>3. done'[s] = done[s] \cup lost
    BY <1>4, <1>6 DEF lost, b
  <2> QED
    BY <1>1, <1>6, <2>1, <2>2, <2>3, LineMoved DEF w
<1>7. CASE /\ ~Flushing(s)
           /\ worker' = [worker EXCEPT ![e] = Encode(w, <<hi + 1>>)]
           /\ Account(s, {hi + 1} \ Elements(Accepted(w, <<hi + 1>>)))
           /\ UNCHANGED swapping
  <2> DEFINE v == Encode(w, <<hi + 1>>)
             more == {hi + 1} \ Elements(Accepted(w, <<hi + 1>>))
  <2>1. b = <<>>
    BY <1>1, <1>7 DEF Flushing, LifeInv, SwapInv, NoSwap, ShapeInv, Swaps
  <2>2. worker'[e] = v
    <3> HIDE DEF v
    <3> QED
      BY <1>2, <1>7 DEF ShapeInv, v
  <2>3. done'[s] = done[s] \cup more
    BY <1>4, <1>7
  <2> HIDE DEF hi, w, b
  <2>4. Ordered(v, b, last[s], hi + 1) /\ Kept(v, b, hi + 1, done[s] \cup more)
    BY <1>1, <1>3, <2>1, NamesEmpty, EncodeLine
  <2> HIDE DEF v, more
  <2> QED
    BY <1>1, <1>7, <2>2, <2>3, <2>4, LineMoved DEF b
<1> QED
  BY <1>1, <1>5, <1>6, <1>7 DEF Capture

LEMMA LineInit == Init => LineInv
BY DEF Init, LineInv

LEMMA LineNext ==
  ShapeInv /\ LifeInv /\ PipeInv /\ LineInv /\ [Next]_vars =>
    LineInv' /\ \A s \in Sessions : last'[s] >= last[s]
<1> SUFFICES ASSUME ShapeInv, LifeInv, PipeInv, LineInv, [Next]_vars
             PROVE  LineInv' /\ \A s \in Sessions : last'[s] >= last[s]
  OBVIOUS
<1>0. last' = last => \A s \in Sessions : last'[s] >= last[s]
  BY DEF ShapeInv, Blocks
<1>1. CASE Connect \/ Started \/ Stop \/ SwitchMode \/ ReadyTimeout
  BY <1>0, <1>1, LifeLine
<1>2. ASSUME NEW s \in Sessions, Start(s) \/ Capture(s)
      PROVE  LineInv' /\ last' = last
  BY <1>2, LifeLine, CaptureLine
<1>3. ASSUME NEW e \in Encoders, Deliver(e)
      PROVE  LineInv' /\ \A s \in Sessions : last'[s] >= last[s]
  BY <1>0, <1>3, ReadyLine, ReadyDoes, PacketLine, ConsumedLine, ConsumedDoes, FlushLine, ErrorLine
     DEF Deliver
<1>4. ASSUME NEW e \in Encoders, Load(e) \/ Consume(e) \/ Output(e) \/ Break(e) \/ Fail(e)
      PROVE  LineInv' /\ last' = last
  BY <1>4, LoadLine, LoadDoes, WorkLine, ConsumeDoes, OutputDoes, BreakDoes, FailDoes
<1>5. CASE UNCHANGED vars
  BY <1>0, <1>5, LineSame DEF vars, session, history
<1> QED
  BY <1>0, <1>1, <1>2, <1>3, <1>4, <1>5 DEF Next
-----------------------------------------------------------------------------
(* The inductive invariant, and what it means.                             *)
IInv == ShapeInv /\ LifeInv /\ PipeInv /\ LineInv

InOrder == \A s \in Sessions : last'[s] >= last[s]

LEMMA Initially == Init => IInv
BY LifeInit, PipeInit, LineInit DEF IInv

LEMMA Inductive == IInv /\ [Next]_vars => IInv' /\ InOrder
BY LifeNext, PipeNext, LineNext DEF IInv, InOrder

LEMMA Invariance == Spec => []IInv
BY Initially, Inductive, PTL DEF Spec

(* A worker that serves holds at most MaxBuffered blocks, one that does    *)
(* not holds none.                                                         *)
LEMMA Bounded == IInv => Backpressure
<1> SUFFICES ASSUME IInv, NEW e \in Encoders
             PROVE  Queued(worker[e].inbox) + Queued(worker[e].codec) <= MaxBuffered
  BY DEF Backpressure
<1>1. CASE Current(e)
  BY <1>1 DEF IInv, PipeInv, Busy, Counted
<1>2. CASE ~Current(e)
  <2>1. Queued(worker[e].inbox) = 0 /\ Queued(worker[e].codec) = 0
    BY <1>2, QueuedEmpty DEF IInv, PipeInv, Idle
  <2> QED
    BY <2>1, AudioAssumption
<1> QED
  BY <1>1, <1>2

(* The names of the marks are the blocks of the packets.                   *)
LEMMA NamesPackets ==
  ASSUME NEW w \in Worker
  PROVE  OnTheWay(w) \subseteq Held(w)
<1>1. w.outbox \in Seq(Sound)
  BY LineTyped
<1>2. Names(Marks(w.outbox)) \subseteq Packets(w)
  <2> SUFFICES ASSUME NEW x \in Names(Marks(w.outbox)) PROVE x \in Packets(w)
    OBVIOUS
  <2>1. PICK n \in DOMAIN Marks(w.outbox) : x = Marks(w.outbox)[n]
    BY DEF Names, Elements
  <2>2. n \in DOMAIN w.outbox /\ w.outbox[n].type = "packet" /\ x = w.outbox[n].block
    BY <1>1, <2>1, MarksTyped DEF Names
  <2> QED
    BY <2>2 DEF Packets
<1>3. Names(w.codec) \subseteq Elements(w.codec) /\ Names(w.inbox) \subseteq Elements(w.inbox)
  BY DEF Names
<1> QED
  BY <1>2, <1>3 DEF OnTheWay, Held

LEMMA NoneMissing == IInv => Accounted
<1> SUFFICES ASSUME IInv, active # None, ~Failing(active)
             PROVE  1 .. captured[active] \subseteq
                      done[active] \cup Held(worker[encoder[active]])
                      \cup (IF Flushing(active) THEN Elements(swapping.buffers) ELSE {})
  BY DEF Accounted
<1> DEFINE e == encoder[active]
           w == worker[e]
           b == swapping.buffers
<1>1. e \in Encoders /\ Current(e)
  BY DEF IInv, LifeInv, ActiveInv, Current
<1>2. w \in Worker /\ w.owner = active /\ Kept(w, b, captured[active], done[active])
  <2> HIDE DEF e
  <2> QED
    BY <1>1, Running DEF IInv
<1>3. ~Broken(w)
  <2> HIDE DEF e
  <2> QED
    BY <1>1, <1>2 DEF Failing, Broken
<1> HIDE DEF w, e
<1>4. 1 .. captured[active] \subseteq done[active] \cup OnTheWay(w) \cup Names(b)
  BY <1>2, <1>3 DEF Kept
<1>5. Names(b) \subseteq IF Flushing(active) THEN Elements(b) ELSE {}
  <2>1. CASE Flushing(active)
    BY <2>1 DEF Names
  <2>2. CASE ~Flushing(active)
    <3>1. b = <<>>
      BY <2>2 DEF Flushing, IInv, LifeInv, SwapInv, NoSwap, ShapeInv, Swaps
    <3> QED
      BY <2>2, <3>1, NamesEmpty
  <2> QED
    BY <2>1, <2>2
<1>6. OnTheWay(w) \subseteq Held(w)
  BY <1>2, NamesPackets
<1> QED
  BY <1>4, <1>5, <1>6 DEF w, e

LEMMA Typed == IInv => TypeOK
<1> SUFFICES ASSUME IInv PROVE TypeOK
  OBVIOUS
<1>1. ShapeInv
  BY DEF IInv
<1>2. /\ active \in Sessions \cup {None}
      /\ starting.step \in {"none", "loading", "connecting", "resuming"}
      /\ swapping.step \in {"none", "preparing", "flushing"}
      /\ swapping.buffers \in Seq(Blocks) /\ Len(swapping.buffers) <= MaxBuffered
      /\ encoder \in [Sessions -> Encoders \cup {0}]
      /\ captured \in [Sessions -> 0 .. MaxBlocks]
  BY <1>1 DEF ShapeInv, Starts, Swaps
<1>3. ASSUME NEW e \in Encoders
      PROVE  /\ worker[e].state \in {"unused", "loading", "loaded", "closed"}
             /\ worker[e].owner \in Sessions \cup {None}
             /\ worker[e].pending \in Nat /\ worker[e].queue \in Nat
             /\ worker[e].inbox \in Seq(Blocks \cup {Flush})
             /\ worker[e].codec \in Seq(Blocks \cup {Flush})
             /\ worker[e].outbox \in Seq(Messages)
  <2>1. worker[e] \in Worker
    BY <1>1 DEF ShapeInv
  <2>2. worker[e].outbox \in Seq(Messages)
    <3>1. worker[e].outbox \in Seq(Sound) /\ \A m \in Sound : m \in Messages
      BY <2>1 DEF Worker, Sound
    <3> QED
      BY <3>1
  <2> QED
    BY <2>1, <2>2 DEF Worker, Items
<1> QED
  BY <1>2, <1>3 DEF TypeOK
-----------------------------------------------------------------------------
(* Every variable keeps its type: the queues hold blocks and flushes, what *)
(* the page buffers during a swap stays within maxAudioBufferedBlocks.     *)
THEOREM TypeCorrect == Spec => []TypeOK
BY Invariance, Typed, PTL

(* Whatever ends a session, a start or a swap (stop, an error of either    *)
(* encoder, the ready timeout), every worker created is terminated or in   *)
(* use: createAacEncoder leaks none.                                       *)
THEOREM NoneIsLeft == Spec => []NoStrayEncoder
<1>1. IInv => NoStrayEncoder
  BY DEF IInv, LifeInv
<1> QED
  BY Invariance, <1>1, PTL

(* The limit the page puts on an encoder holds of the worker's own queues, *)
(* although the page counts by the messages that reached it.               *)
THEOREM LimitHeld == Spec => []Backpressure
BY Invariance, Bounded, PTL

(* Over any number of swaps, a block that was captured was sent, is on its *)
(* way or was dropped by a rule of the page, unless the codec failed.      *)
THEOREM NothingLost == Spec => []Accounted
BY Invariance, NoneMissing, PTL

(* Packets go out in the order of capture over any number of swaps:        *)
(* completeAudioEncoderSwap hands over after the last old packet.          *)
THEOREM OrderKept == Spec => SentInOrder
<1>1. IInv /\ [Next]_vars => [InOrder]_vars
  BY Inductive
<1> QED
  BY Invariance, <1>1, PTL DEF Spec, SentInOrder, InOrder
=============================================================================
