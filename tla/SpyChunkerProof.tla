-------------------------- MODULE SpyChunkerProof --------------------------
(***************************************************************************)
(* Proofs about the chunked dump, for every queue capacity, every set of   *)
(* requests and every width of the counters, as long as no request wraps   *)
(* wf_start (NoWrap), and about the client that writes what it receives to *)
(* files.                                                                  *)
(***************************************************************************)
EXTENDS SpyChunker, AcquireClient, TLAPS

Running == rpc \in {"pop", "send", "join"}

(* Which program points of the two threads go together.                    *)
ControlInv ==
  /\ Running <=> ppc # "none"
  /\ Running => Accepts(req)
  /\ ppc \in {"fill", "push", "close"} => ~closed
  /\ ppc = "done" => closed
  /\ "router" \in notEmpty => rpc = "pop"
  /\ "producer" \in notFull => ppc = "push"
  /\ rpc = "join" => queue = <<>> /\ closed
  /\ ppc \in {"fill", "push"} => ~hadError
  /\ ppc = "push" => wfStart < req.n
  /\ ppc \in {"close", "done"} => hadError \/ wfStart >= req.n

(* A packet is the piece the abstract stream would deliver at its start.   *)
PieceAt(p) == IF req.n - p < req.c THEN req.n - p ELSE req.c
GoodPacket(p) == p.start < req.n /\ p.count = PieceAt(p.start)

(* Where the packet that leaves the queue next must start, and where the   *)
(* producer must go on.                                                    *)
Front == IF rpc = "send" THEN packet.start + packet.count ELSE Delivered
Back == IF queue = <<>> THEN Front
        ELSE queue[Len(queue)].start + queue[Len(queue)].count

(* The delivered waveforms, the packet in hand, the queue and the producer *)
(* tile the range 0..n.                                                    *)
ChainInv ==
  Running =>
    /\ Delivered <= req.n
    /\ rpc = "send" => packet.start = Delivered /\ GoodPacket(packet)
    /\ \A i \in 1..Len(queue) : GoodPacket(queue[i])
    /\ queue # <<>> => queue[1].start = Front
    /\ \A i \in 1..(Len(queue) - 1) :
         queue[i + 1].start = queue[i].start + queue[i].count
    /\ Back = IF wfStart < req.n THEN wfStart ELSE req.n
    /\ last.final <=> Delivered = req.n
    /\ finals = IF Delivered = req.n THEN 1 ELSE 0

IInv == TypeOK /\ ControlInv /\ NoLostWakeup /\ ChainInv /\ OneFinal

-----------------------------------------------------------------------------
LEMMA ModType ==
  ASSUME NEW x \in Nat PROVE x % Modulus \in UInt32
BY RequestsAssumption DEF UInt32

LEMMA ModSmall ==
  ASSUME NEW x \in Nat, x < Modulus PROVE x % Modulus = x
BY RequestsAssumption

LEMMA ReqType ==
  ASSUME NEW q \in Requests
  PROVE /\ q.n \in Nat /\ q.n < Modulus
        /\ q.c \in Nat /\ q.c < Modulus
BY RequestsAssumption

LEMMA RecordTypes ==
  /\ NoPacket \in Packet
  /\ NoResponse \in Response
  /\ Refusal \in Response
  /\ 0 \in UInt32
<1>1. 0 \in UInt32
  BY RequestsAssumption DEF UInt32
<1>2. NoPacket \in Packet
  BY <1>1 DEF NoPacket, Packet
<1>3. NoResponse \in Response
  BY <1>1 DEF NoResponse, Response
<1>4. Refusal \in Response
  BY <1>1, <1>3 DEF NoResponse, Refusal, Response
<1> QED
  BY <1>1, <1>2, <1>3, <1>4

LEMMA InitIInv == Init => IInv
<1> SUFFICES ASSUME Init PROVE IInv
  OBVIOUS
<1>1. TypeOK
  <2>1. queue \in Seq(Packet) /\ Len(queue) <= Capacity
    BY CapacityAssumption DEF Init, QueueInit
  <2>2. packet \in Packet /\ last \in Response
        /\ wfStart \in UInt32 /\ seq \in UInt32
        /\ hadError \in BOOLEAN /\ closed \in BOOLEAN
    BY RecordTypes, Zenon DEF Init, QueueInit
  <2> QED
    BY <2>1, <2>2 DEF Init, QueueInit, TypeOK
<1>2. ControlInv /\ NoLostWakeup /\ ChainInv /\ OneFinal
  BY DEF Init, QueueInit, ControlInv, NoLostWakeup, ChainInv, OneFinal, Running
<1> QED
  BY <1>1, <1>2 DEF IInv

LEMMA StepTypeOK ==
  ASSUME IInv, Next PROVE TypeOK'
<1> USE DEF IInv, TypeOK
<1>0. req.n \in Nat /\ req.n < Modulus /\ req.c \in Nat
  BY ReqType
<1>1. CASE Receive
  <2>1. queue' \in Seq(Packet) /\ Len(queue') <= Capacity
    BY <1>1, CapacityAssumption DEF Receive
  <2>2. packet' \in Packet /\ last' \in Response
        /\ wfStart' \in UInt32 /\ seq' \in UInt32
        /\ hadError' \in BOOLEAN /\ closed' \in BOOLEAN
    BY <1>1, RecordTypes, Zenon DEF Receive
  <2> QED
    BY <1>1, <2>1, <2>2 DEF Receive
<1>2. CASE Reject
  <2>1. last' \in Response /\ hadError' \in BOOLEAN
    BY <1>2, RecordTypes, Zenon DEF Reject
  <2> QED
    BY <1>2, <2>1 DEF Reject, queueVars
<1>3. CASE PopPacket
  <2>1. CASE Pop /\ packet' = Head(queue) /\ rpc' = "send"
    <3>1. packet' \in Packet /\ queue' \in Seq(Packet)
          /\ Len(queue') <= Capacity
      BY <2>1, CapacityAssumption DEF Pop
    <3>2. notFull' \subseteq {"producer"}
      BY <2>1 DEF Pop, AfterPop, NotifyOne
    <3> QED
      BY <1>3, <2>1, <3>1, <3>2 DEF PopPacket, Pop
  <2>2. CASE PopWaits("router") /\ UNCHANGED <<packet, rpc>>
    BY <1>3, <2>2 DEF PopPacket, PopWaits
  <2>3. CASE PopEnds /\ rpc' = "join" /\ UNCHANGED packet
    BY <1>3, <2>3 DEF PopPacket, PopEnds, queueVars
  <2> QED
    BY <1>3, <2>1, <2>2, <2>3 DEF PopPacket
<1>4. CASE SendChunk
  <2>1. last' \in Response
    BY <1>4 DEF SendChunk, Packet, Response, IsFinal
  <2>2. finals' \in 0..2
    BY <1>4 DEF SendChunk
  <2> QED
    BY <1>4, <2>1, <2>2 DEF SendChunk, queueVars
<1>5. CASE Join
  BY <1>5 DEF Join, queueVars
<1>6. CASE SendThrows
  BY <1>6 DEF SendThrows
<1>7. CASE Restart
  BY <1>7 DEF Restart, queueVars
<1>8. CASE Fill
  BY <1>8 DEF Fill, queueVars
<1>9. CASE PushPacket
  <2> DEFINE new == [seq |-> seq, start |-> wfStart, count |-> WfCount]
  <2>1. wfStart < req.n
    BY <1>9 DEF PushPacket, ControlInv
  <2>2. new \in Packet
    <3>1. WfCount \in UInt32
      BY <1>0, <2>1, RequestsAssumption DEF UInt32, WfCount
    <3> QED
      BY <3>1 DEF Packet
  <2>3. CASE PushWaits("producer") /\ UNCHANGED <<seq, wfStart, ppc>>
    BY <1>9, <2>3 DEF PushPacket, PushWaits
  <2>4. CASE Push(new) /\ seq' = (seq + 1) % Modulus
             /\ wfStart' = (wfStart + req.c) % Modulus /\ ppc' = "fill"
    <3>1. seq' \in UInt32 /\ wfStart' \in UInt32
      <4>1. seq + 1 \in Nat /\ wfStart + req.c \in Nat
        BY <1>0, RequestsAssumption DEF UInt32
      <4> QED
        BY <2>4, <4>1, ModType
    <3> HIDE DEF new
    <3>2. queue' \in Seq(Packet) /\ Len(queue') <= Capacity
      BY <2>2, <2>4, CapacityAssumption DEF Push, HasRoom
    <3>3. /\ notEmpty' \subseteq {"router"}
          /\ closed' = closed
          /\ notFull' = notFull
      BY <2>4 DEF Push, NotifyOne
    <3> QED
      BY <1>9, <2>4, <3>1, <3>2, <3>3 DEF PushPacket
  <2> QED
    BY <1>9, <2>3, <2>4 DEF PushPacket
<1>10. CASE CloseQueue
  BY <1>10 DEF CloseQueue, Close
<1>11. CASE Wakeup
  BY <1>11 DEF Wakeup, SpuriousWakeup
<1> QED
  BY <1>1, <1>2, <1>3, <1>4, <1>5, <1>6, <1>7, <1>8, <1>9, <1>10, <1>11
  DEF Next, RouterStep, ProducerStep

LEMMA StepControlInv ==
  ASSUME NoWrap, IInv, Next, TypeOK' PROVE ControlInv'
<1> USE DEF IInv, ControlInv, Running, Accepts
<1>0. req.n \in Nat /\ req.n < Modulus /\ req.c \in Nat
  BY ReqType DEF TypeOK
<1>1. CASE Receive
  BY <1>0, <1>1 DEF Receive, queueVars, TypeOK
<1>2. CASE Reject
  BY <1>0, <1>2 DEF Reject, queueVars, TypeOK
<1>3. CASE PopPacket
  BY <1>0, <1>3 DEF PopPacket, Pop, PopWaits, PopEnds, AfterPop, NotifyOne,
     Waiting, queueVars, TypeOK
<1>4. CASE SendChunk
  BY <1>0, <1>4 DEF SendChunk, queueVars, TypeOK
<1>5. CASE Join
  BY <1>0, <1>5 DEF Join, queueVars, TypeOK
<1>6. CASE SendThrows
  BY <1>0, <1>6 DEF SendThrows, queueVars, TypeOK
<1>7. CASE Restart
  BY <1>0, <1>7 DEF Restart, queueVars, TypeOK
<1>8. CASE Fill
  BY <1>0, <1>8 DEF Fill, queueVars, TypeOK
<1>9. CASE PushPacket
  BY <1>0, <1>9 DEF PushPacket, Push, PushWaits, HasRoom, NotifyOne, Waiting,
     WfCount, queueVars, TypeOK
<1>10. CASE CloseQueue
  BY <1>0, <1>10 DEF CloseQueue, Close, queueVars, TypeOK
<1>11. CASE Wakeup
  BY <1>0, <1>11 DEF Wakeup, SpuriousWakeup, queueVars, TypeOK
<1> QED
  BY <1>1, <1>2, <1>3, <1>4, <1>5, <1>6, <1>7, <1>8, <1>9, <1>10, <1>11
  DEF Next, RouterStep, ProducerStep

LEMMA StepNoLostWakeup ==
  ASSUME NoWrap, IInv, Next, TypeOK' PROVE NoLostWakeup'
<1> USE DEF IInv, ControlInv, NoLostWakeup
<1>0. req.n \in Nat /\ req.n < Modulus /\ req.c \in Nat
  BY ReqType DEF TypeOK
<1>1. CASE Receive
  BY <1>0, <1>1 DEF Receive, queueVars, TypeOK
<1>2. CASE Reject
  BY <1>0, <1>2 DEF Reject, queueVars, TypeOK
<1>3. CASE PopPacket
  BY <1>0, <1>3 DEF PopPacket, Pop, PopWaits, PopEnds, AfterPop, NotifyOne,
     Waiting, queueVars, TypeOK
<1>4. CASE SendChunk
  BY <1>0, <1>4 DEF SendChunk, queueVars, TypeOK
<1>5. CASE Join
  BY <1>0, <1>5 DEF Join, queueVars, TypeOK
<1>6. CASE SendThrows
  BY <1>0, <1>6 DEF SendThrows, queueVars, TypeOK
<1>7. CASE Restart
  BY <1>0, <1>7 DEF Restart, queueVars, TypeOK
<1>8. CASE Fill
  BY <1>0, <1>8 DEF Fill, queueVars, TypeOK
<1>9. CASE PushPacket
  <2>1. CASE PushWaits("producer")
    BY <1>9, <2>1, CapacityAssumption DEF PushPacket, PushWaits, HasRoom,
       TypeOK
  <2>2. ASSUME NEW p, Push(p) PROVE NoLostWakeup'
    BY <1>9, <2>2 DEF PushPacket, Push, NotifyOne, Waiting, TypeOK
  <2> QED
    BY <1>9, <2>1, <2>2 DEF PushPacket
<1>10. CASE CloseQueue
  BY <1>0, <1>10 DEF CloseQueue, Close, queueVars, TypeOK
<1>11. CASE Wakeup
  BY <1>0, <1>11 DEF Wakeup, SpuriousWakeup, queueVars, TypeOK
<1> QED
  BY <1>1, <1>2, <1>3, <1>4, <1>5, <1>6, <1>7, <1>8, <1>9, <1>10, <1>11
  DEF Next, RouterStep, ProducerStep

(* The arithmetic of the counters: no packet ends past numberOfWaveforms,  *)
(* so neither its end nor the next wf_start wraps.                         *)
LEMMA PacketFits ==
  ASSUME TypeOK, NEW p \in Packet, GoodPacket(p), Accepts(req)
  PROVE /\ p.start + p.count <= req.n
        /\ p.count > 0
        /\ IsFinal(p) <=> p.start + p.count = req.n
<1>1. /\ req.n \in Nat /\ req.n < Modulus /\ req.c \in Nat
      /\ p.start \in Nat /\ p.count \in Nat
  BY ReqType, RequestsAssumption DEF TypeOK, Packet, UInt32
<1>2. p.start + p.count <= req.n /\ p.count > 0
  BY <1>1 DEF GoodPacket, PieceAt, Accepts
<1>3. (p.start + p.count) % Modulus = p.start + p.count
  <2>1. p.start + p.count \in Nat /\ p.start + p.count < Modulus
    BY <1>1, <1>2, RequestsAssumption
  <2> QED
    BY <2>1, ModSmall
<1>4. IsFinal(p) <=> p.start + p.count = req.n
  BY <1>1, <1>2, <1>3 DEF IsFinal
<1> QED
  BY <1>2, <1>4

LEMMA StepChainInv ==
  ASSUME NoWrap, IInv, Next, TypeOK' PROVE ChainInv'
<1> USE DEF IInv
<1>0. /\ req.n \in Nat /\ req.n < Modulus /\ req.c \in Nat
      /\ wfStart \in Nat /\ last.start \in Nat /\ last.count \in Nat
      /\ packet.start \in Nat /\ packet.count \in Nat
  BY ReqType, RequestsAssumption DEF TypeOK, Packet, Response, UInt32
<1>1. CASE Receive
  <2>1. req'.n \in Nat /\ req'.n > 0
    BY <1>1, ReqType DEF Receive, Accepts
  <2> QED
    BY <1>1, <2>1
    DEF Receive, ChainInv, Running, Front, Back, Delivered, NoResponse
<1>2. CASE Reject
  BY <1>2 DEF Reject, ChainInv, Running
<1>3. CASE PopPacket
  <2>1. CASE Pop /\ packet' = Head(queue) /\ rpc' = "send"
    <3>1. Running /\ rpc = "pop" /\ queue # <<>> /\ queue \in Seq(Packet)
          /\ queue' = Tail(queue) /\ packet' = queue[1]
      BY <1>3, <2>1 DEF PopPacket, Pop, Running, TypeOK
    <3>2. /\ Len(queue) \in Nat \ {0} /\ Len(queue') = Len(queue) - 1
          /\ \A i \in 1..Len(queue') : queue'[i] = queue[i + 1]
          /\ queue' = <<>> <=> Len(queue) = 1
      <4>1. Len(queue) \in Nat \ {0} /\ queue' \in Seq(Packet)
        BY <3>1
      <4>2. Len(queue') = Len(queue) - 1
        BY <3>1
      <4>3. \A i \in 1..Len(queue') : queue'[i] = queue[i + 1]
        BY <3>1, <4>1
      <4>4. queue' = <<>> <=> Len(queue') = 0
        BY <4>1
      <4> QED
        BY <4>1, <4>2, <4>3, <4>4
    <3>3. UNCHANGED <<Delivered, req, wfStart, last, finals>>
      BY <1>3 DEF PopPacket, Delivered
    <3>4. GoodPacket(queue[1]) /\ queue[1].start = Delivered
      BY <3>1, <3>2 DEF ChainInv, Front
    <3>5. Front' = queue[1].start + queue[1].count
      BY <2>1, <3>1 DEF Front
    <3>6. Back' = Back
      BY <3>1, <3>2, <3>5 DEF Back
    <3>7. \A i \in 1..Len(queue') : GoodPacket(queue'[i])
      BY <3>1, <3>2 DEF ChainInv
    <3>8. queue' # <<>> => queue'[1].start = Front'
      BY <3>1, <3>2, <3>5 DEF ChainInv
    <3>9. \A i \in 1..(Len(queue') - 1) :
            queue'[i + 1].start = queue'[i].start + queue'[i].count
      BY <3>1, <3>2 DEF ChainInv
    <3> QED
      BY <2>1, <3>1, <3>3, <3>4, <3>6, <3>7, <3>8, <3>9
      DEF ChainInv, Running, GoodPacket, PieceAt
  <2>2. CASE PopWaits("router") /\ UNCHANGED <<packet, rpc>>
    BY <1>3, <2>2
    DEF PopPacket, PopWaits, ChainInv, Running, Front, Back, Delivered,
        GoodPacket, PieceAt
  <2>3. CASE PopEnds /\ rpc' = "join" /\ UNCHANGED packet
    BY <1>3, <2>3
    DEF PopPacket, PopEnds, queueVars, ChainInv, Running, Front, Back,
        Delivered, GoodPacket, PieceAt
  <2> QED
    BY <1>3, <2>1, <2>2, <2>3 DEF PopPacket
<1>4. CASE SendChunk
  <2>1. GoodPacket(packet) /\ Accepts(req) /\ packet.start = Delivered
    BY <1>4 DEF SendChunk, ChainInv, Running, ControlInv
  <2>2. /\ packet.start + packet.count <= req.n /\ packet.count > 0
        /\ IsFinal(packet) <=> packet.start + packet.count = req.n
    BY <2>1, PacketFits DEF TypeOK
  <2>3. finals = 0 /\ Delivered' = packet.start + packet.count
        /\ (last'.final <=> IsFinal(packet))
    BY <1>0, <1>4, <2>1, <2>2 DEF SendChunk, ChainInv, Running, Delivered
  <2>4. Front' = Front /\ Back' = Back
    BY <1>4, <2>3 DEF SendChunk, Front, Back, queueVars
  <2> QED
    BY <1>0, <1>4, <2>2, <2>3, <2>4
    DEF SendChunk, ChainInv, Running, GoodPacket, PieceAt, queueVars
<1>5. CASE Join
  BY <1>5 DEF Join, ChainInv, Running
<1>6. CASE SendThrows
  BY <1>6 DEF SendThrows, ChainInv, Running
<1>7. CASE Restart
  BY <1>7 DEF Restart, ChainInv, Running
<1>8. CASE Fill
  BY <1>8 DEF Fill, queueVars, ChainInv, Running, Front, Back, Delivered,
              GoodPacket, PieceAt
<1>9. CASE PushPacket
  <2> DEFINE new == [seq |-> seq, start |-> wfStart, count |-> WfCount]
  <2>1. CASE PushWaits("producer") /\ UNCHANGED <<seq, wfStart, ppc>>
    BY <1>9, <2>1
    DEF PushPacket, PushWaits, ChainInv, Running, Front, Back, Delivered,
        GoodPacket, PieceAt
  <2>2. CASE Push(new) /\ wfStart' = (wfStart + req.c) % Modulus
    <3>1. Running /\ wfStart < req.n /\ ~closed /\ Accepts(req)
      BY <1>9 DEF PushPacket, ControlInv
    <3>2. wfStart' = wfStart + req.c
      <4>1. wfStart + req.c < Modulus
        BY <1>0, <3>1, RequestsAssumption DEF NoWrap, TypeOK
      <4> QED
        BY <1>0, <2>2, <4>1, ModSmall
    <3>3. queue' = Append(queue, new)
      BY <2>2, <3>1 DEF Push
    <3>4. Back = wfStart
      BY <3>1 DEF ChainInv
    <3>5. GoodPacket(new) /\ new.start = wfStart
          /\ new.start + new.count
               = IF wfStart' < req.n THEN wfStart' ELSE req.n
      BY <1>0, <3>1, <3>2 DEF GoodPacket, PieceAt, WfCount
    <3> HIDE DEF new
    <3>6. /\ Front' = Front
          /\ UNCHANGED <<Delivered, req, rpc, packet, last, finals>>
      BY <1>9 DEF PushPacket, Front, Delivered
    <3>7. /\ queue \in Seq(Packet)
          /\ queue' # <<>>
          /\ Len(queue') = Len(queue) + 1
          /\ queue'[Len(queue')] = new
          /\ \A i \in 1..Len(queue) : queue'[i] = queue[i]
      BY <3>3 DEF TypeOK
    <3>8. Back' = new.start + new.count
      BY <3>7 DEF Back
    <3>9. \A i \in 1..Len(queue') : GoodPacket(queue'[i])
      BY <3>1, <3>5, <3>7 DEF ChainInv
    <3>10. queue'[1].start = Front
      BY <3>1, <3>4, <3>5, <3>7 DEF ChainInv, Back
    <3>11. \A i \in 1..(Len(queue') - 1) :
             queue'[i + 1].start = queue'[i].start + queue'[i].count
      BY <3>1, <3>4, <3>5, <3>7 DEF ChainInv, Back
    <3> QED
      BY <1>0, <3>1, <3>5, <3>6, <3>8, <3>9, <3>10, <3>11
      DEF ChainInv, Running, GoodPacket, PieceAt
  <2> QED
    BY <1>9, <2>1, <2>2 DEF PushPacket
<1>10. CASE CloseQueue
  BY <1>10 DEF CloseQueue, Close, ChainInv, Running, Front, Back, Delivered,
               GoodPacket, PieceAt
<1>11. CASE Wakeup
  BY <1>11 DEF Wakeup, SpuriousWakeup, ChainInv, Running, Front, Back,
               Delivered, GoodPacket, PieceAt
<1> QED
  BY <1>1, <1>2, <1>3, <1>4, <1>5, <1>6, <1>7, <1>8, <1>9, <1>10, <1>11
  DEF Next, RouterStep, ProducerStep

LEMMA StepOneFinal ==
  ASSUME IInv, Next, TypeOK', ChainInv' PROVE OneFinal'
<1> USE DEF IInv
<1>0. req.n \in Nat /\ finals \in 0..2
  BY ReqType DEF TypeOK
<1>1. CASE Running'
  <2>0. req' \in Requests /\ req'.n \in Nat
    BY ReqType DEF TypeOK
  <2>1. finals' <= 1 /\ (finals' = 1 => Delivered' = req'.n /\ last'.final)
    BY <1>1, <2>0 DEF ChainInv
  <2>2. ASSUME finals' = 1 PROVE rpc' # "send" /\ queue' = <<>>
    <3>1. Delivered' = req'.n
      BY <2>1, <2>2
    <3>2. rpc' # "send"
      BY <1>1, <2>0, <3>1 DEF ChainInv, GoodPacket
    <3>3. queue' = <<>>
      <4>1. SUFFICES ASSUME queue' # <<>> PROVE FALSE
        OBVIOUS
      <4>2. 1 \in 1..Len(queue')
        BY <4>1 DEF TypeOK
      <4>3. queue'[1].start = req'.n /\ queue'[1].start < req'.n
        BY <1>1, <3>1, <3>2, <4>1, <4>2 DEF ChainInv, GoodPacket, Front
      <4> QED
        BY <2>0, <4>3
    <3> QED
      BY <3>2, <3>3
  <2> QED
    BY <2>1, <2>2 DEF OneFinal
<1>2. CASE ~Running'
  <2>1. CASE Reject
    BY <2>1 DEF Reject, OneFinal
  <2>2. CASE ~Reject
    <3>1. Join \/ SendThrows \/ Restart \/ Wakeup
      BY <1>2, <2>2
      DEF Next, RouterStep, ProducerStep, Running, ControlInv, Receive,
          PopPacket, SendChunk, Fill, PushPacket, CloseQueue
    <3>2. UNCHANGED <<queue, last, finals, req>> /\ rpc' # "send"
      BY <1>2, <3>1
      DEF Join, SendThrows, Restart, Wakeup, SpuriousWakeup, queueVars, Running
    <3> QED
      BY <3>2 DEF OneFinal, Delivered
  <2> QED
    BY <2>1, <2>2
<1> QED
  BY <1>1, <1>2

LEMMA StepIInv ==
  ASSUME NoWrap, IInv, [Next]_vars PROVE IInv'
<1>1. CASE Next
  BY <1>1, StepTypeOK, StepControlInv, StepNoLostWakeup, StepChainInv,
     StepOneFinal DEF IInv
<1>2. CASE UNCHANGED vars
  BY <1>2
  DEF IInv, TypeOK, ControlInv, NoLostWakeup, ChainInv, OneFinal, vars,
      queueVars, Running, Front, Back, Delivered, GoodPacket, PieceAt, Accepts
<1> QED
  BY <1>1, <1>2

(* The inductive invariant holds of every behaviour.                       *)
LEMMA Inductive == NoWrap => (Spec => []IInv)
<1> SUFFICES ASSUME NoWrap PROVE Spec => []IInv
  OBVIOUS
<1>1. Init => IInv
  BY InitIInv
<1>2. IInv /\ [Next]_vars => IInv'
  BY StepIInv
<1> QED
  BY <1>1, <1>2, PTL DEF Spec

(* Every variable of the router thread, the producer thread and their      *)
(* queue keeps its type, and the queue never holds more than its capacity. *)
THEOREM TypeCorrect == NoWrap => (Spec => []TypeOK)
<1> SUFFICES ASSUME NoWrap PROVE Spec => []TypeOK
  OBVIOUS
<1>1. IInv => TypeOK
  BY DEF IInv
<1>2. Spec => []IInv
  BY Inductive
<1> QED
  BY <1>1, <1>2, PTL

(* No thread sleeps in BoundedQueue although its predicate holds; the two  *)
(* threads never both sleep.                                               *)
THEOREM WakeupsAreKept == NoWrap => (Spec => []NoLostWakeup)
<1> SUFFICES ASSUME NoWrap PROVE Spec => []NoLostWakeup
  OBVIOUS
<1>1. IInv => NoLostWakeup
  BY DEF IInv
<1>2. Spec => []IInv
  BY Inductive
<1> QED
  BY <1>1, <1>2, PTL

(* isFinal is sent at most once and is the end of the stream.              *)
THEOREM FinalIsFinal == NoWrap => (Spec => []OneFinal)
<1> SUFFICES ASSUME NoWrap PROVE Spec => []OneFinal
  OBVIOUS
<1>1. IInv => OneFinal
  BY DEF IInv
<1>2. Spec => []IInv
  BY Inductive
<1> QED
  BY <1>1, <1>2, PTL

(* When the router thread has popped the end of the queue and there was no *)
(* error, everything was delivered.                                        *)
LEMMA AllDelivered ==
  ASSUME IInv, rpc = "join", ~hadError PROVE Delivered = req.n
<1>1. Running /\ queue = <<>> /\ closed
  BY DEF IInv, ControlInv, Running
<1>2. ppc = "done"
  BY <1>1 DEF IInv, TypeOK, ControlInv
<1>3. wfStart >= req.n /\ wfStart \in Nat /\ req.n \in Nat
  BY <1>2, ReqType, RequestsAssumption DEF IInv, ControlInv, TypeOK, UInt32
<1> QED
  BY <1>1, <1>3 DEF IInv, ChainInv, Back, Front

(* A stream that ends without an error has sent its isFinal response.      *)
THEOREM EndsAreAnnounced == NoWrap => (Spec => []EndIsAnnounced)
<1> SUFFICES ASSUME NoWrap PROVE Spec => []EndIsAnnounced
  OBVIOUS
<1>1. IInv => EndIsAnnounced
  BY AllDelivered DEF EndIsAnnounced, IInv, ChainInv, Running
<1>2. Spec => []IInv
  BY Inductive
<1> QED
  BY <1>1, <1>2, PTL

-----------------------------------------------------------------------------
LEMMA StepStream ==
  ASSUME NoWrap, IInv, [Next]_vars
  PROVE [Stream!StreamNext]_(Stream!streamVars)
<1> USE DEF Stream!streamVars, Delivered
<1>1. CASE Receive
  BY <1>1 DEF Receive, NoResponse, Stream!StreamNext, Stream!Begin
<1>2. CASE Reject
  BY <1>2 DEF Reject, NoResponse, Refusal, Stream!StreamNext, Stream!Refuse
<1>3. CASE PopPacket
  BY <1>3 DEF PopPacket
<1>4. CASE SendChunk
  <2>1. /\ GoodPacket(packet) /\ packet.start = Delivered
        /\ req.n \in Nat
    BY <1>4, ReqType DEF IInv, TypeOK, SendChunk, ChainInv, Running
  <2> QED
    BY <1>4, <2>1
    DEF SendChunk, GoodPacket, PieceAt, Stream!StreamNext, Stream!Deliver,
        Stream!Piece
<1>5. CASE Join
  <2>1. Delivered = req.n \/ hadError
    BY <1>5, AllDelivered DEF Join
  <2> QED
    BY <1>5, <2>1 DEF Join, Stream!StreamNext, Stream!End
<1>6. CASE SendThrows
  BY <1>6 DEF SendThrows, Stream!StreamNext, Stream!Abort
<1>7. CASE Restart
  BY <1>7 DEF Restart
<1>8. CASE Fill
  BY <1>8 DEF Fill, IInv, ControlInv, Running, Stream!StreamNext, Stream!Fail
<1>9. CASE PushPacket
  BY <1>9 DEF PushPacket
<1>10. CASE CloseQueue
  BY <1>10 DEF CloseQueue
<1>11. CASE Wakeup
  BY <1>11 DEF Wakeup
<1>12. CASE UNCHANGED vars
  BY <1>12 DEF vars
<1> QED
  BY <1>1, <1>2, <1>3, <1>4, <1>5, <1>6, <1>7, <1>8, <1>9, <1>10, <1>11, <1>12
  DEF Next, RouterStep, ProducerStep

(* The chunked dump implements the abstract stream: waveforms in order,    *)
(* each exactly once, cut short only by an error or by the server's end.   *)
THEOREM Refinement == NoWrap => (Spec => ImplementsChunkStream)
<1> SUFFICES ASSUME NoWrap PROVE Spec => Stream!StreamSpec
  BY DEF ImplementsChunkStream
<1>1. Init => Stream!StreamInit
  BY DEF Init, Stream!StreamInit, Delivered, NoResponse
<1>2. IInv /\ [Next]_vars => [Stream!StreamNext]_(Stream!streamVars)
  BY StepStream
<1>3. Spec => []IInv
  BY Inductive
<1> QED
  BY <1>1, <1>2, <1>3, PTL DEF Spec, Stream!StreamSpec

-----------------------------------------------------------------------------
(***************************************************************************)
(*                      How long an answer takes                           *)
(***************************************************************************)
(* The steps that are left of the answer to a request.  A waveform that is *)
(* not read yet stands for the six steps of a chunk that holds only it:    *)
(* fill, push, pop and send, and a test in vain by each thread.  A packet  *)
(* in the queue stands for three: pop, send and a test by the producer.    *)
Unread(w, n) == IF w < n THEN n - w ELSE 0

ProducerLeft(at, w, n) ==
  CASE at = "fill"  -> 6 * Unread(w, n) + 3
    [] at = "push"  -> 6 * Unread(w, n) + 2
    [] at = "close" -> 2
    [] OTHER        -> 0

RouterLeft(at) ==
  CASE at = "pop" -> 2 [] at = "send" -> 3 [] at = "join" -> 1 [] OTHER -> 0

WorkLeft == ProducerLeft(ppc, wfStart, req.n) + RouterLeft(rpc) + 3 * Len(queue)

(* A thread that is awake may test its predicate once before it waits.     *)
Awake(t, waiters) == IF t \in waiters THEN 0 ELSE 1

StreamLeft == WorkLeft + Awake("router", notEmpty) + Awake("producer", notFull)

StreamCost(n) == 6 * n + 7

(* One of the two threads is awake and at a line that does not wait for    *)
(* the other.                                                              *)
CanGoOn ==
  \/ rpc = "send" \/ (rpc = "pop" /\ ~Waiting("router"))
  \/ rpc = "join" /\ ppc = "done"
  \/ ppc \in {"fill", "close"} \/ (ppc = "push" /\ ~Waiting("producer"))

WorkInv == Running => WorkLeft <= StreamCost(req.n) - 2

LEMMA UnreadFacts ==
  ASSUME NEW w \in Nat, NEW n \in Nat
  PROVE  /\ Unread(w, n) \in Nat /\ Unread(w, n) <= n
         /\ w < n => Unread(w, n) >= 1
         /\ \A c \in Nat \ {0} : w < n => Unread(w + c, n) + 1 <= Unread(w, n)
BY DEF Unread

(* What a step takes from each part of the sum.                            *)
LEMMA StreamStep ==
  ASSUME NoWrap, IInv, Running, RouterStep \/ ProducerStep
  PROVE  /\ StreamLeft' < StreamLeft /\ StreamLeft' \in Nat /\ StreamLeft \in Nat
         /\ WorkLeft' <= WorkLeft /\ WorkLeft' \in Nat /\ WorkLeft \in Nat /\ req' = req
<1> DEFINE U == Unread(wfStart, req.n)
           V == Unread(wfStart', req.n)
           L == Len(queue)
           M == Len(queue')
           A == Awake("router", notEmpty)
           B == Awake("producer", notFull)
           C == Awake("router", notEmpty')
           D == Awake("producer", notFull')
           P == ProducerLeft(ppc, wfStart, req.n)
           Q == ProducerLeft(ppc', wfStart', req.n)
           R == RouterLeft(rpc)
           S == RouterLeft(rpc')
<1>0. Modulus \in Nat /\ req \in Requests /\ Accepts(req) /\ req.n \in Nat /\ req.c \in Nat
  BY ReqType, RequestsAssumption DEF IInv, TypeOK, ControlInv
<1>1. /\ req.n \in Nat /\ req.c \in Nat \ {0} /\ req.n + req.c <= Modulus
      /\ wfStart \in Nat /\ wfStart < Modulus /\ queue \in Seq(Packet)
  <2>1. req.c # 0 /\ req.n + req.c <= Modulus
    BY <1>0 DEF Accepts, NoWrap
  <2>2. wfStart \in Nat /\ wfStart < Modulus /\ queue \in Seq(Packet)
    BY <1>0 DEF IInv, TypeOK, UInt32
  <2> QED  BY <1>0, <2>1, <2>2
<1>2. U \in Nat /\ L \in Nat /\ A \in {0, 1} /\ B \in {0, 1} /\ C \in {0, 1} /\ D \in {0, 1}
  <2>1. U \in Nat
    BY <1>1, UnreadFacts
  <2>2. L \in Nat
    BY <1>1
  <2>3. A \in {0, 1} /\ B \in {0, 1} /\ C \in {0, 1} /\ D \in {0, 1}
    BY DEF Awake
  <2> QED  BY <2>1, <2>2, <2>3
<1>3. /\ P = (CASE ppc = "fill" -> 6 * U + 3 [] ppc = "push" -> 6 * U + 2
                [] ppc = "close" -> 2 [] OTHER -> 0)
      /\ Q = (CASE ppc' = "fill" -> 6 * V + 3 [] ppc' = "push" -> 6 * V + 2
                [] ppc' = "close" -> 2 [] OTHER -> 0)
  BY DEF ProducerLeft
<1>4. /\ R = (CASE rpc = "pop" -> 2 [] rpc = "send" -> 3 [] rpc = "join" -> 1 [] OTHER -> 0)
      /\ S = (CASE rpc' = "pop" -> 2 [] rpc' = "send" -> 3 [] rpc' = "join" -> 1 [] OTHER -> 0)
  BY DEF RouterLeft
<1>5. req' = req
  BY DEF RouterStep, ProducerStep, PopPacket, SendChunk, Join, Fill, PushPacket, CloseQueue
<1>6. /\ StreamLeft = P + R + 3 * L + A + B /\ WorkLeft = P + R + 3 * L
      /\ StreamLeft' = Q + S + 3 * M + C + D /\ WorkLeft' = Q + S + 3 * M
  BY <1>5 DEF StreamLeft, WorkLeft
<1>7. notEmpty \subseteq {"router"} /\ notFull \subseteq {"producer"}
  BY DEF IInv, TypeOK
<1>8. P \in Nat /\ R \in Nat
  BY <1>2, <1>3, <1>4
<1>9. /\ Q \in Nat /\ S \in Nat /\ M \in Nat
      /\ Q + S + 3 * M + C + D < P + R + 3 * L + A + B
      /\ Q + S + 3 * M <= P + R + 3 * L
  <2>1. CASE PopPacket
    <3>0. ppc' = ppc /\ wfStart' = wfStart /\ Q = P
      BY <2>1, <1>5 DEF PopPacket
    <3>1. CASE Pop /\ rpc' = "send"
      <4>1. M = L - 1 /\ M \in Nat /\ C = A
        BY <3>1, <1>1 DEF Pop
      <4>2. R = 2 /\ S = 3
        BY <2>1, <3>1, <1>4 DEF PopPacket
      <4> HIDE DEF U, V, L, M, A, B, C, D, P, Q, R, S
      <4> QED  BY <3>0, <4>1, <4>2, <1>2, <1>8
    <3>2. CASE PopWaits("router") /\ UNCHANGED rpc
      <4>1. M = L /\ D = B /\ A = 1 /\ C = 0 /\ S = R
        BY <2>1, <3>2 DEF PopWaits, PopPacket, Waiting, Awake
      <4> HIDE DEF U, V, L, M, A, B, C, D, P, Q, R, S
      <4> QED  BY <3>0, <4>1, <1>2, <1>8
    <3>3. CASE PopEnds /\ rpc' = "join"
      <4>1. M = L /\ C = A /\ D = B
        BY <3>3 DEF PopEnds, queueVars
      <4>2. R = 2 /\ S = 1
        BY <2>1, <3>3, <1>4 DEF PopPacket
      <4> HIDE DEF U, V, L, M, A, B, C, D, P, Q, R, S
      <4> QED  BY <3>0, <4>1, <4>2, <1>2, <1>8
    <3> QED  BY <2>1, <3>1, <3>2, <3>3 DEF PopPacket
  <2>2. CASE SendChunk
    <3>1. Q = P /\ M = L /\ C = A /\ D = B
      BY <2>2, <1>5 DEF SendChunk, queueVars
    <3>2. R = 3 /\ S = 2
      BY <2>2, <1>4 DEF SendChunk
    <3> HIDE DEF U, V, L, M, A, B, C, D, P, Q, R, S
    <3> QED  BY <3>1, <3>2, <1>2, <1>8
  <2>3. CASE Join
    <3>1. M = L /\ C = A /\ D = B /\ ppc' = "none"
      BY <2>3 DEF Join, queueVars
    <3>2. R = 1 /\ S = 0 /\ Q = 0
      BY <2>3, <1>3, <1>4 DEF Join
    <3> HIDE DEF U, V, L, M, A, B, C, D, P, Q, R, S
    <3> QED  BY <3>1, <3>2, <1>2, <1>8
  <2>4. CASE Fill
    <3>1. M = L /\ C = A /\ D = B /\ S = R /\ V = U /\ ppc = "fill" /\ ppc' \in {"push", "close"}
      BY <2>4, <1>5 DEF Fill, queueVars
    <3>2. P = 6 * U + 3 /\ Q \in {6 * U + 2, 2}
      BY <3>1, <1>3
    <3> HIDE DEF U, V, L, M, A, B, C, D, P, Q, R, S
    <3> QED  BY <3>1, <3>2, <1>2, <1>8
  <2>5. CASE PushPacket
    <3>0. S = R /\ ppc = "push" /\ P = 6 * U + 2
      BY <2>5, <1>3 DEF PushPacket
    <3>1. CASE PushWaits("producer") /\ UNCHANGED <<seq, wfStart, ppc>>
      <4>1. M = L /\ C = A /\ B = 1 /\ D = 0 /\ Q = P
        BY <2>5, <3>1, <1>5 DEF PushWaits, PushPacket, Waiting, Awake
      <4> HIDE DEF U, V, L, M, A, B, C, D, P, Q, R, S
      <4> QED  BY <3>0, <4>1, <1>2, <1>8
    <3>2. CASE ~(PushWaits("producer") /\ UNCHANGED <<seq, wfStart, ppc>>)
      <4>1. PICK p \in Packet : queue' = Append(queue, p)
        <5>1. ~closed
          BY <3>0 DEF IInv, ControlInv
        <5>2. WfCount \in UInt32
          <6>1. wfStart < req.n /\ req.n < Modulus
            BY <3>0, ReqType, <1>0 DEF IInv, ControlInv
          <6> QED  BY <6>1, <1>0, <1>1 DEF WfCount, UInt32
        <5>3. [seq |-> seq, start |-> wfStart, count |-> WfCount] \in Packet
          BY <5>2 DEF IInv, TypeOK, Packet
        <5> QED  BY <2>5, <3>2, <5>1, <5>3 DEF PushPacket, Push
      <4>2. M = L + 1 /\ D = B
        BY <2>5, <3>2, <4>1, <1>1 DEF PushPacket, Push
      <4>3. wfStart < req.n /\ ppc' = "fill" /\ wfStart' = wfStart + req.c
        <5>1. wfStart < req.n
          BY <3>0 DEF IInv, ControlInv
        <5>2. (wfStart + req.c) % Modulus = wfStart + req.c
          <6> DEFINE w == wfStart + req.c
          <6>1. w \in Nat /\ w < Modulus
            BY <5>1, <1>0, <1>1
          <6> HIDE DEF w
          <6>2. w % Modulus = w
            BY <6>1, ModSmall
          <6> QED  BY <6>2 DEF w
        <5> QED  BY <2>5, <3>2, <5>1, <5>2 DEF PushPacket
      <4>4. V \in Nat /\ V + 1 <= U
        <5>1. wfStart + req.c \in Nat
          BY <1>1
        <5>2. Unread(wfStart + req.c, req.n) \in Nat
          BY <5>1, <1>0, UnreadFacts
        <5>3. Unread(wfStart + req.c, req.n) + 1 <= U
          BY <4>3, <1>0, <1>1, UnreadFacts
        <5> QED  BY <4>3, <5>2, <5>3
      <4>5. Q = 6 * V + 3
        BY <4>3, <1>3
      <4> HIDE DEF U, V, L, M, A, B, C, D, P, Q, R, S
      <4> QED  BY <3>0, <4>2, <4>4, <4>5, <1>2, <1>8
    <3> QED  BY <3>1, <3>2
  <2>6. CASE CloseQueue
    <3>1. M = L /\ D = B /\ S = R /\ P = 2 /\ Q = 0
      <4>1. "producer" \notin notFull
        BY <2>6 DEF CloseQueue, IInv, ControlInv
      <4>2. ppc = "close" /\ ppc' = "done" /\ queue' = queue /\ notFull' = {} /\ rpc' = rpc
        BY <2>6 DEF CloseQueue, Close
      <4> QED  BY <4>1, <4>2, <1>3 DEF Awake
    <3> HIDE DEF U, V, L, M, A, B, C, D, P, Q, R, S
    <3> QED  BY <3>1, <1>2, <1>8
  <2> QED  BY <2>1, <2>2, <2>3, <2>4, <2>5, <2>6 DEF RouterStep, ProducerStep
<1> HIDE DEF U, V, L, M, A, B, C, D, P, Q, R, S
<1> QED  BY <1>2, <1>5, <1>6, <1>8, <1>9

(* A spurious wakeup leaves the work as it is.                             *)
LEMMA WakeupStep ==
  ASSUME IInv, Wakeup
  PROVE  WorkLeft' = WorkLeft /\ StreamLeft' <= StreamLeft + 1 /\ req' = req
<1> DEFINE A == Awake("router", notEmpty)
           B == Awake("producer", notFull)
           C == Awake("router", notEmpty')
           D == Awake("producer", notFull')
           W == WorkLeft
<1>1. /\ queue' = queue /\ rpc' = rpc /\ ppc' = ppc /\ wfStart' = wfStart /\ req' = req
      /\ \E t \in {"router", "producer"} : notEmpty' = notEmpty \ {t} /\ notFull' = notFull \ {t}
  BY DEF Wakeup, SpuriousWakeup
<1>2. W' = W
  BY <1>1 DEF WorkLeft
<1>3. C + D <= A + B + 1 /\ {A, B, C, D} \subseteq {0, 1}
  BY <1>1 DEF Awake, IInv, TypeOK
<1>4. W \in Nat
  <2>1. req.n \in Nat /\ wfStart \in Nat /\ Len(queue) \in Nat
    BY ReqType DEF IInv, TypeOK, UInt32
  <2>2. Unread(wfStart, req.n) \in Nat
    BY <2>1, UnreadFacts
  <2> QED  BY <2>1, <2>2 DEF WorkLeft, ProducerLeft, RouterLeft
<1>5. StreamLeft = W + A + B /\ StreamLeft' = W' + C + D
  BY DEF StreamLeft
<1> HIDE DEF A, B, C, D, W
<1>6. StreamLeft' <= StreamLeft + 1
  BY <1>2, <1>3, <1>4, <1>5
<1> QED  BY <1>1, <1>2, <1>6 DEF W

(* Both threads are never stuck: a router that sleeps found the queue open *)
(* and empty, a producer that sleeps found it full.                        *)
LEMMA SomeoneGoesOn == IInv /\ Running => CanGoOn
BY CapacityAssumption
   DEF IInv, TypeOK, ControlInv, NoLostWakeup, Running, CanGoOn, Waiting

LEMMA WorkStarts == IInv /\ Receive => WorkInv'
<1> SUFFICES ASSUME IInv, Receive PROVE WorkInv'
  OBVIOUS
<1>1. req' \in Requests /\ req'.n \in Nat
  BY ReqType DEF Receive
<1>2. ppc' = "fill" /\ rpc' = "pop" /\ wfStart' = 0 /\ queue' = <<>>
  BY DEF Receive
<1>3. Unread(wfStart', req'.n) <= req'.n /\ Unread(wfStart', req'.n) \in Nat
  BY <1>1, <1>2, UnreadFacts
<1>4. WorkLeft' = 6 * Unread(wfStart', req'.n) + 5
  BY <1>2, <1>3 DEF WorkLeft, ProducerLeft, RouterLeft
<1> QED  BY <1>1, <1>3, <1>4 DEF WorkInv, StreamCost

LEMMA WorkKeeps == NoWrap /\ IInv /\ WorkInv /\ [Next]_vars => WorkInv'
<1> SUFFICES ASSUME NoWrap, IInv, WorkInv, [Next]_vars PROVE WorkInv'
  OBVIOUS
<1>0. req.n \in Nat
  BY ReqType DEF IInv, TypeOK
<1>1. CASE RouterStep \/ ProducerStep
  <2>1. Running' => Running
    BY <1>1 DEF Running, RouterStep, ProducerStep, PopPacket, SendChunk, Join, Fill,
                PushPacket, CloseQueue
  <2>2. CASE Running
    <3>1. WorkLeft' <= WorkLeft /\ req' = req /\ WorkLeft <= StreamCost(req.n) - 2
      BY <1>1, <2>2, StreamStep DEF WorkInv
    <3>2. WorkLeft \in Int /\ WorkLeft' \in Int
      BY <1>1, <2>2, StreamStep
    <3> QED  BY <3>1, <3>2, <1>0 DEF WorkInv, StreamCost
  <2> QED  BY <2>1, <2>2 DEF WorkInv
<1>2. CASE Wakeup
  BY <1>2, WakeupStep DEF WorkInv, Running, Wakeup
<1>3. CASE Receive
  BY <1>3, WorkStarts
<1>4. CASE Reject \/ SendThrows \/ Restart
  BY <1>4 DEF Reject, SendThrows, Restart, WorkInv, Running
<1>5. CASE UNCHANGED vars
  BY <1>5 DEF vars, queueVars, WorkInv, Running, WorkLeft
<1> QED  BY <1>1, <1>2, <1>3, <1>4, <1>5 DEF Next

(* An answer takes no more steps than StreamCost: at every moment one of   *)
(* the threads can go on, each of their steps takes one of the steps that  *)
(* are left, and a condition variable that wakes without a reason costs    *)
(* one test of a predicate.                                                *)
StreamIsBounded ==
  /\ [](Running => CanGoOn /\ StreamLeft \in 0..StreamCost(req.n))
  /\ [][Running => /\ RouterStep \/ ProducerStep => StreamLeft' < StreamLeft
                   /\ Wakeup => StreamLeft' <= StreamLeft + 1]_vars

(* For every capacity and request: the router thread and the producer do   *)
(* not wait for each other, and do not go round for ever.                  *)
THEOREM StreamsAreBounded == NoWrap => (Spec => StreamIsBounded)
<1> SUFFICES ASSUME NoWrap PROVE Spec => StreamIsBounded
  OBVIOUS
<1>1. Init => WorkInv
  BY DEF Init, WorkInv, Running
<1>2. IInv /\ WorkInv /\ [Next]_vars => WorkInv'
  BY WorkKeeps
<1>3. IInv /\ WorkInv => (Running => CanGoOn /\ StreamLeft \in 0..StreamCost(req.n))
  <2> SUFFICES ASSUME IInv, WorkInv, Running PROVE StreamLeft \in 0..StreamCost(req.n)
    BY SomeoneGoesOn
  <2>1. req.n \in Nat /\ wfStart \in Nat /\ Len(queue) \in Nat
    BY ReqType DEF IInv, TypeOK, UInt32
  <2>2. Unread(wfStart, req.n) \in Nat
    BY <2>1, UnreadFacts
  <2>3. WorkLeft \in Nat
    BY <2>1, <2>2 DEF WorkLeft, ProducerLeft, RouterLeft
  <2>4. WorkLeft <= 6 * req.n + 5
    BY <2>1 DEF WorkInv, StreamCost
  <2>5. /\ Awake("router", notEmpty) \in {0, 1} /\ Awake("producer", notFull) \in {0, 1}
    BY DEF Awake
  <2> QED  BY <2>1, <2>3, <2>4, <2>5 DEF StreamLeft, StreamCost
<1>4. IInv /\ [Next]_vars =>
        [Running => /\ RouterStep \/ ProducerStep => StreamLeft' < StreamLeft
                    /\ Wakeup => StreamLeft' <= StreamLeft + 1]_vars
  BY StreamStep, WakeupStep
<1>5. Spec => []IInv
  BY Inductive
<1> QED  BY <1>1, <1>2, <1>3, <1>4, <1>5, PTL DEF Spec, StreamIsBounded

-----------------------------------------------------------------------------
(* The acquisitions of AcquireClient.                                      *)

(* A process: its fields, and those that count.                            *)
ProcessOk(p) ==
  /\ p = [n |-> p.n, mode |-> p.mode, wfs |-> p.wfs, append |-> p.append, k |-> p.k,
          base |-> p.base, waiting |-> p.waiting, final |-> p.final, exit |-> p.exit]
  /\ p.mode \in Modes
  /\ p.n \in Nat /\ p.wfs \in Nat \ {0} /\ p.k \in Nat \ {0} /\ p.base \in Nat

Request == [id : Nat \X Nat, mode : Modes, sent : Nat, wfs : Nat \ {0}]
Reply == [version : {2}, type : {301, 257}, correl : Nat \X Nat,
          data : Seq(Nat), ok : BOOLEAN, final : BOOLEAN]

KindInv ==
  /\ ProcessOk(acq)
  /\ file \in Seq(Nat) /\ line \in Seq(Request) /\ inbox \in Seq(Reply)
  /\ trigger \in Nat /\ origin \in Seq(Nat) /\ Len(origin) = trigger

(* The waveforms of a reply are triggers made for the process it answers,  *)
(* and replies have them in the order in which they came.                  *)
ReplyInv ==
  /\ \A j \in DOMAIN inbox :
       /\ inbox[j].ok => Len(inbox[j].data) >= 1
       /\ \A a \in DOMAIN inbox[j].data :
            /\ inbox[j].data[a] \in 1..trigger
            /\ origin[inbox[j].data[a]] = inbox[j].correl[1]
  /\ \A j, h \in DOMAIN inbox : j < h =>
       \A a \in DOMAIN inbox[j].data, b \in DOMAIN inbox[h].data :
         inbox[j].data[a] < inbox[h].data[b]

(* What a process in the mode of the oscilloscope has written, and that    *)
(* what it has yet to read is younger.                                     *)
Written == (acq.base + 1)..Len(file)
OscInv ==
  acq.n > 0 /\ acq.mode = "osc" =>
    /\ Len(file) = acq.base + acq.k - 1
    /\ acq.exit = "zero" => acq.k = acq.wfs + 1
    /\ \A i \in Written : file[i] \in 1..trigger /\ origin[file[i]] = acq.n
    /\ \A i, j \in Written : i < j => file[i] < file[j]
    /\ \A i \in Written, h \in DOMAIN inbox : \A b \in DOMAIN inbox[h].data :
         file[i] < inbox[h].data[b]

DumpInv ==
  acq.mode = "dump" /\ Acquiring => acq.base = IF acq.append THEN Len(file) ELSE 0

AcquireInv == KindInv /\ ReplyInv /\ OscInv /\ DumpInv

LEMMA AcquireStarts == AcquireInit => AcquireInv
<1> SUFFICES ASSUME AcquireInit PROVE AcquireInv
  OBVIOUS
<1>1. acq = [n |-> 0, mode |-> "osc", wfs |-> 1, append |-> FALSE, k |-> 1, base |-> 0,
             waiting |-> FALSE, final |-> FALSE, exit |-> "zero"]
  BY DEF AcquireInit, AcqProcess
<1>2. ProcessOk(acq)
  BY <1>1 DEF ProcessOk, Modes
<1>3. KindInv
  <2>1. \A S : <<>> \in Seq(S)
    OBVIOUS
  <2> QED BY <1>2, <2>1 DEF KindInv, AcquireInit
<1>4. ReplyInv /\ OscInv /\ DumpInv
  <2>1. DOMAIN inbox = {} /\ acq.n = 0 /\ acq.mode = "osc"
    <3>1. inbox = <<>>
      BY DEF AcquireInit
    <3> QED BY <3>1, <1>1
  <2> QED BY <2>1 DEF ReplyInv, OscInv, DumpInv
<1> QED BY <1>3, <1>4 DEF AcquireInv

(* The rest of the replies after the first one.                            *)
LEMMA ReadOne ==
  ASSUME KindInv, ReplyInv, inbox # <<>>
  PROVE /\ Head(inbox) \in Reply /\ Head(inbox) = inbox[1] /\ 1 \in DOMAIN inbox
        /\ Tail(inbox) \in Seq(Reply)
        /\ \A j \in DOMAIN Tail(inbox) :
             j + 1 \in DOMAIN inbox /\ Tail(inbox)[j] = inbox[j + 1] /\ 1 < j + 1
BY DEF KindInv

(* Reading a reply leaves what ReplyInv says of the others.                *)
LEMMA ReadKeeps ==
  ASSUME KindInv, ReplyInv, inbox # <<>>, inbox' = Tail(inbox),
         trigger' = trigger, origin' = origin
  PROVE ReplyInv'
<1>1. \A j \in DOMAIN inbox' : j \in Nat /\ j + 1 \in DOMAIN inbox /\ inbox'[j] = inbox[j + 1]
  <2>1. Tail(inbox) \in Seq(Reply)
    BY ReadOne
  <2>2. \A j \in DOMAIN Tail(inbox) : j \in Nat
    BY <2>1
  <2> QED BY <2>2, ReadOne
<1>2. \A j, h \in DOMAIN inbox' : j < h => j + 1 < h + 1
  BY <1>1
<1> HIDE DEF ReplyInv
<1>3. ASSUME NEW j \in DOMAIN inbox'
      PROVE /\ inbox'[j].ok => Len(inbox'[j].data) >= 1
            /\ \A a \in DOMAIN inbox'[j].data :
                 /\ inbox'[j].data[a] \in 1..trigger
                 /\ origin[inbox'[j].data[a]] = inbox'[j].correl[1]
  BY <1>1 DEF ReplyInv
<1>4. ASSUME NEW j \in DOMAIN inbox', NEW h \in DOMAIN inbox', j < h
      PROVE \A a \in DOMAIN inbox'[j].data, b \in DOMAIN inbox'[h].data :
              inbox'[j].data[a] < inbox'[h].data[b]
  BY <1>1, <1>2, <1>4 DEF ReplyInv
<1> QED BY <1>3, <1>4 DEF ReplyInv

(* A reply that comes with waveforms w newer than all before.              *)
LEMMA ArriveKeeps ==
  ASSUME KindInv, ReplyInv, OscInv, NEW m \in Reply, NEW w \in Nat,
         inbox' = Append(inbox, m), acq' = acq, file' = file,
         trigger' = trigger + w, origin' \in Seq(Nat), Len(origin') = trigger',
         \A t \in 1..trigger : origin'[t] = origin[t],
         m.ok => Len(m.data) >= 1,
         \A a \in DOMAIN m.data : /\ m.data[a] \in (trigger + 1)..(trigger + w)
                                  /\ origin'[m.data[a]] = m.correl[1]
  PROVE inbox' \in Seq(Reply) /\ ReplyInv' /\ OscInv'
<1>1. /\ inbox' \in Seq(Reply)
      /\ \A j \in DOMAIN inbox' : \/ j \in DOMAIN inbox /\ inbox'[j] = inbox[j] /\ j <= Len(inbox)
                                  \/ j = Len(inbox) + 1 /\ inbox'[j] = m
  BY DEF KindInv
<1>2. trigger \in Nat /\ Len(inbox) \in Nat /\ \A j \in DOMAIN inbox' : j \in Nat
  BY <1>1 DEF KindInv
<1>3. ReplyInv'
  <2>1. ASSUME NEW j \in DOMAIN inbox'
        PROVE /\ inbox'[j].ok => Len(inbox'[j].data) >= 1
              /\ \A a \in DOMAIN inbox'[j].data :
                   /\ inbox'[j].data[a] \in 1..trigger'
                   /\ origin'[inbox'[j].data[a]] = inbox'[j].correl[1]
    <3>1. CASE j \in DOMAIN inbox /\ inbox'[j] = inbox[j]
      BY <3>1, <1>2 DEF ReplyInv
    <3>2. CASE inbox'[j] = m
      BY <3>2, <1>2
    <3> QED BY <3>1, <3>2, <1>1
  <2>2. ASSUME NEW j \in DOMAIN inbox', NEW h \in DOMAIN inbox', j < h,
               NEW a \in DOMAIN inbox'[j].data, NEW b \in DOMAIN inbox'[h].data
        PROVE inbox'[j].data[a] < inbox'[h].data[b]
    <3>1. j \in DOMAIN inbox /\ inbox'[j] = inbox[j]
      BY <2>2, <1>1, <1>2
    <3>2. CASE h \in DOMAIN inbox /\ inbox'[h] = inbox[h]
      BY <3>1, <3>2, <2>2 DEF ReplyInv
    <3>3. CASE inbox'[h] = m
      <4>1. inbox[j].data[a] \in 1..trigger
        BY <3>1 DEF ReplyInv
      <4>2. m.data[b] \in (trigger + 1)..(trigger + w)
        BY <3>3
      <4> QED BY <4>1, <4>2, <3>1, <3>3, <1>2
    <3> QED BY <3>2, <3>3, <1>1
  <2> QED BY <2>1, <2>2 DEF ReplyInv
<1>4. OscInv'
  <2> SUFFICES ASSUME acq.n > 0, acq.mode = "osc" PROVE OscInv'
    BY DEF OscInv
  <2>0. Written' = Written
    BY DEF Written
  <2>1. \A i \in Written : file[i] \in 1..trigger /\ origin[file[i]] = acq.n
    BY DEF OscInv
  <2>2. \A i \in Written : file[i] \in 1..trigger' /\ origin'[file[i]] = acq.n
    BY <2>1, <1>2
  <2>3. ASSUME NEW i \in Written, NEW h \in DOMAIN inbox', NEW b \in DOMAIN inbox'[h].data
        PROVE file[i] < inbox'[h].data[b]
    <3>1. CASE h \in DOMAIN inbox /\ inbox'[h] = inbox[h]
      BY <3>1 DEF OscInv
    <3>2. CASE inbox'[h] = m
      <4>1. m.data[b] \in (trigger + 1)..(trigger + w)
        BY <3>2
      <4> QED BY <4>1, <2>1, <3>2, <1>2
    <3> QED BY <3>1, <3>2, <1>1
  <2> QED BY <2>0, <2>2, <2>3 DEF OscInv
<1> QED BY <1>1, <1>3, <1>4

(* A change of the process that its waits and ends make.                   *)
LEMMA SameProcess ==
  ASSUME KindInv, ReplyInv, OscInv, DumpInv, ProcessOk(acq'),
         acq'.n = acq.n, acq'.mode = acq.mode, acq'.wfs = acq.wfs, acq'.k = acq.k,
         acq'.base = acq.base, acq'.append = acq.append,
         acq'.exit \in {acq.exit, "error"},
         UNCHANGED <<file, inbox, trigger, origin>>,
         line' \in Seq(Request)
  PROVE AcquireInv'
<1>1. KindInv'
  BY DEF KindInv
<1>2. ReplyInv' /\ Written' = Written
  BY DEF ReplyInv, Written
<1>3. OscInv'
  BY <1>2 DEF OscInv
<1>4. DumpInv'
  BY DEF DumpInv, Acquiring
<1> QED BY <1>1, <1>2, <1>3, <1>4 DEF AcquireInv

LEMMA RaisedOk ==
  ASSUME NEW p, ProcessOk(p)
  PROVE /\ ProcessOk(Raised(p)) /\ Raised(p).exit = "error"
        /\ Raised(p).n = p.n /\ Raised(p).mode = p.mode /\ Raised(p).wfs = p.wfs
        /\ Raised(p).k = p.k /\ Raised(p).base = p.base /\ Raised(p).append = p.append
BY DEF ProcessOk, Raised

(* A process that has written a waveform, and is in the state e then.      *)
Wrote(p, e) == [p EXCEPT !.k = @ + 1, !.waiting = FALSE, !.exit = e]

LEMMA WroteOk ==
  ASSUME NEW p, ProcessOk(p), NEW e
  PROVE /\ ProcessOk(Wrote(p, e)) /\ Wrote(p, e).exit = e
        /\ Wrote(p, e).n = p.n /\ Wrote(p, e).mode = p.mode
        /\ Wrote(p, e).wfs = p.wfs /\ Wrote(p, e).k = p.k + 1
        /\ Wrote(p, e).base = p.base
<1> DEFINE r == Wrote(p, e)
<1>1. r = [n |-> p.n, mode |-> p.mode, wfs |-> p.wfs, append |-> p.append, k |-> p.k + 1,
           base |-> p.base, waiting |-> FALSE, final |-> p.final, exit |-> e]
  <2>1. r = [p EXCEPT !.k = @ + 1, !.waiting = FALSE, !.exit = e]
    BY DEF Wrote
  <2> HIDE DEF r
  <2> QED BY <2>1 DEF ProcessOk
<1> HIDE DEF r
<1>2. /\ r.exit = e /\ r.n = p.n /\ r.mode = p.mode /\ r.wfs = p.wfs /\ r.k = p.k + 1
      /\ r.base = p.base /\ r.append = p.append /\ r.waiting = FALSE /\ r.final = p.final
  BY <1>1
<1>3. p.k + 1 \in Nat \ {0}
  BY DEF ProcessOk
<1>4. ProcessOk(r)
  BY <1>1, <1>2, <1>3 DEF ProcessOk
<1> QED BY <1>2, <1>4 DEF r

(* A process that has read a reply which it does not write.                *)
LEMMA Dropped ==
  ASSUME AcquireInv, inbox # <<>>, inbox' = Tail(inbox), ProcessOk(acq'),
         acq'.n = acq.n, acq'.mode = acq.mode, acq'.wfs = acq.wfs, acq'.k = acq.k,
         acq'.base = acq.base, acq'.append = acq.append,
         acq'.exit \in {acq.exit, "error"} \/ acq.mode \notin {"osc", "dump"},
         UNCHANGED <<file, line, trigger, origin>>
  PROVE AcquireInv'
<1> USE DEF AcquireInv
<1>1. KindInv'
  BY ReadOne DEF KindInv
<1>2. ReplyInv' /\ Written' = Written
  BY ReadKeeps DEF Written
<1>3. OscInv'
  <2> SUFFICES ASSUME acq.n > 0, acq.mode = "osc" PROVE OscInv'
    BY DEF OscInv
  <2>1. ASSUME NEW i \in Written, NEW h \in DOMAIN inbox', NEW b \in DOMAIN inbox'[h].data
        PROVE file[i] < inbox'[h].data[b]
    <3>1. h + 1 \in DOMAIN inbox /\ inbox'[h] = inbox[h + 1]
      BY ReadOne
    <3> QED BY <3>1 DEF OscInv
  <2> QED BY <1>2, <2>1 DEF OscInv
<1>4. DumpInv'
  BY DEF DumpInv, Acquiring
<1> QED BY <1>1, <1>2, <1>3, <1>4

(* One step per action.                                                    *)
LEMMA AcquireKeeps == AcquireInv /\ [AcquireNext]_acquireVars => AcquireInv'
<1> SUFFICES ASSUME AcquireInv, [AcquireNext]_acquireVars PROVE AcquireInv'
  OBVIOUS
<1>0. KindInv /\ ReplyInv /\ OscInv /\ DumpInv /\ ProcessOk(acq)
  BY DEF AcquireInv, KindInv
<1>1. ASSUME NEW mode \in Modes, NEW wfs \in 1..MaxWaveforms, NEW append \in BOOLEAN,
             StartAcquire(mode, wfs, append)
      PROVE AcquireInv'
  <2> DEFINE kept == IF append \/ mode = "dump" THEN file ELSE <<>>
             base == IF append THEN Len(file) ELSE 0
  <2>1. /\ file' = kept /\ inbox' = <<>>
        /\ acq' = [AcqProcess(acq.n + 1, mode, wfs, append) EXCEPT !.base = base]
        /\ UNCHANGED <<line, trigger, losses, origin>>
    BY <1>1 DEF StartAcquire
  <2>2. kept \in Seq(Nat) /\ base \in Nat
    BY <1>0 DEF KindInv
  <2>3. /\ mode = "dump" => base = IF append THEN Len(kept) ELSE 0
        /\ mode = "osc" => Len(kept) = base
    BY <1>0 DEF KindInv
  <2> HIDE DEF kept, base
  <2>4. acq' = [n |-> acq.n + 1, mode |-> mode, wfs |-> wfs, append |-> append, k |-> 1,
                base |-> base, waiting |-> FALSE, final |-> FALSE, exit |-> "running"]
    BY <2>1 DEF AcqProcess
  <2>5. wfs \in Nat \ {0} /\ acq.n + 1 \in Nat
    BY <1>0, AcquireAssumption DEF ProcessOk
  <2>6. ProcessOk(acq')
    BY <2>4, <2>5, <2>2 DEF ProcessOk
  <2>7. KindInv'
    <3>1. <<>> \in Seq(Reply)
      OBVIOUS
    <3> QED BY <2>1, <2>2, <2>6, <3>1, <1>0 DEF KindInv
  <2>8. ReplyInv'
    <3>1. DOMAIN inbox' = {}
      BY <2>1
    <3> QED BY <3>1 DEF ReplyInv
  <2>9. OscInv'
    <3> SUFFICES ASSUME acq'.n > 0, acq'.mode = "osc" PROVE OscInv'
      BY DEF OscInv
    <3>1. Len(file') = base /\ acq'.base = base /\ acq'.k = 1 /\ acq'.exit = "running"
      BY <2>1, <2>3, <2>4
    <3>2. Written' = {}
      BY <3>1, <2>2 DEF Written
    <3> QED BY <3>1, <3>2, <2>2 DEF OscInv
  <2>10. DumpInv'
    <3>1. acq'.mode = mode /\ acq'.append = append /\ acq'.base = base
      BY <2>4
    <3> QED BY <3>1, <2>1, <2>3 DEF DumpInv
  <2> QED BY <2>7, <2>8, <2>9, <2>10 DEF AcquireInv
<1>2. CASE AcqSend
  <2>1. /\ acq' = [acq EXCEPT !.waiting = TRUE]
        /\ UNCHANGED <<file, inbox, trigger, losses, origin>>
    BY <1>2 DEF AcqSend
  <2>2. line' \in Seq(Request)
    <3> DEFINE r == [id |-> <<acq.n, acq.k>>, mode |-> acq.mode, sent |-> 0,
                     wfs |-> IF acq.mode = "osc" THEN 1 ELSE acq.wfs]
    <3>1. line' = line \/ line' = Append(line, r)
      BY <1>2 DEF AcqSend
    <3>2. r \in Request
      BY <1>0 DEF ProcessOk, Request, KindInv
    <3>3. line \in Seq(Request)
      BY <1>0 DEF KindInv
    <3> HIDE DEF r
    <3> QED BY <3>1, <3>2, <3>3
  <2>3. /\ ProcessOk(acq') /\ acq'.exit = acq.exit
        /\ acq'.n = acq.n /\ acq'.mode = acq.mode /\ acq'.wfs = acq.wfs /\ acq'.k = acq.k
        /\ acq'.base = acq.base /\ acq'.append = acq.append
    BY <2>1, <1>0 DEF ProcessOk
  <2> QED BY <1>0, <2>1, <2>2, <2>3, SameProcess
<1>3. CASE ServeReply
  <2> DEFINE r == Head(line)
             count == IF r.mode = "stream" THEN 1 ELSE r.wfs
             end == r.mode # "stream" \/ r.sent + 1 = r.wfs
             data == [i \in 1..count |-> trigger + i]
             m == Envelope(r, data, TRUE, end)
             own == [i \in 1..count |-> r.id[1]]
  <2>1. /\ line # <<>> /\ inbox' = Reaches(m) /\ trigger' = trigger + count
        /\ origin' = origin \o own
        /\ line' = (IF end THEN Tail(line) ELSE <<[r EXCEPT !.sent = @ + 1]>> \o Tail(line))
        /\ UNCHANGED <<acq, file, losses>>
    BY <1>3 DEF ServeReply
  <2>2. r \in Request /\ Tail(line) \in Seq(Request) /\ trigger \in Nat
    BY <2>1, <1>0 DEF KindInv
  <2>3. line' \in Seq(Request)
    <3>1. [r EXCEPT !.sent = @ + 1] \in Request
      <4>1. \A q \in Request : [q EXCEPT !.sent = @ + 1] \in Request
        BY DEF Request
      <4> HIDE DEF r
      <4> QED BY <4>1, <2>2
    <3> HIDE DEF r, end
    <3> QED BY <3>1, <2>1, <2>2
  <2>4. count \in Nat \ {0} /\ r.id \in Nat \X Nat /\ r.id[1] \in Nat
    BY <2>2 DEF Request
  <2>5. /\ own \in Seq(Nat) /\ Len(own) = count /\ data \in Seq(Nat) /\ Len(data) = count
        /\ DOMAIN data = 1..count
        /\ \A a \in 1..count : data[a] = trigger + a /\ own[a] = r.id[1]
    <3> HIDE DEF r, count
    <3> QED BY <2>2, <2>4
  <2>6. end \in BOOLEAN
    BY Zenon
  <2>7. m \in Reply /\ m.data = data /\ m.correl = r.id
    <3> HIDE DEF r, data, end
    <3>1. TypeOf(r.mode) \in {301, 257}
      BY DEF TypeOf
    <3> QED BY <2>4, <2>5, <2>6, <3>1 DEF Envelope, Reply
  <2> HIDE DEF r, count, end, data, own
  <2>8. /\ origin' \in Seq(Nat) /\ Len(origin') = trigger'
        /\ \A t \in 1..trigger : origin'[t] = origin[t]
        /\ \A a \in 1..count : origin'[trigger + a] = own[a]
    <3>1. origin \in Seq(Nat) /\ Len(origin) = trigger /\ trigger \in Nat /\ count \in Nat
      BY <1>0, <2>4 DEF KindInv
    <3>2. origin' = origin \o own /\ trigger' = trigger + count
      BY <2>1
    <3>3. own \in Seq(Nat) /\ Len(own) = count
      BY <2>5
    <3>4. origin \o own \in Seq(Nat) /\ Len(origin \o own) = trigger + count
      BY <3>1, <3>3
    <3>5. \A t \in 1..trigger : (origin \o own)[t] = origin[t]
      BY <3>1, <3>3
    <3>6. \A a \in 1..count : (origin \o own)[trigger + a] = own[a]
      BY <3>1, <3>3
    <3> QED BY <3>2, <3>4, <3>5, <3>6
  <2>9. \A a \in DOMAIN m.data : /\ m.data[a] \in (trigger + 1)..(trigger + count)
                                 /\ origin'[m.data[a]] = m.correl[1]
    <3> HIDE DEF m
    <3> QED BY <2>2, <2>4, <2>5, <2>7, <2>8
  <2> HIDE DEF m
  <2>10. inbox' \in Seq(Reply) /\ ReplyInv' /\ OscInv'
    <3>1. CASE Acquiring
      <4>1. inbox' = Append(inbox, m)
        BY <2>1, <3>1 DEF Reaches
      <4>2. Len(m.data) >= 1
        BY <2>4, <2>5, <2>7
      <4> QED BY <4>1, <4>2, <2>1, <2>4, <2>7, <2>8, <2>9, <1>0, ArriveKeeps
    <3>2. CASE ~Acquiring
      <4>1. inbox' = inbox /\ acq' = acq /\ file' = file /\ Written' = Written
        BY <2>1, <3>2 DEF Reaches, Written
      <4>2. \A t \in 1..trigger : t \in 1..trigger' /\ origin'[t] = origin[t]
        <5>1. trigger \in Nat /\ count \in Nat /\ trigger' = trigger + count
          BY <2>1, <2>2, <2>4
        <5>2. 1..trigger \subseteq 1..trigger'
          BY <5>1
        <5> QED BY <5>2, <2>8
      <4>3. ReplyInv'
        BY <4>1, <4>2, <1>0 DEF ReplyInv
      <4>4. OscInv'
        BY <4>1, <4>2, <1>0 DEF OscInv
      <4> QED BY <4>1, <4>3, <4>4, <1>0 DEF KindInv
    <3> QED BY <3>1, <3>2
  <2>11. KindInv'
    BY <2>1, <2>2, <2>3, <2>4, <2>8, <2>10, <1>0 DEF KindInv
  <2>12. DumpInv'
    BY <2>1, <1>0 DEF DumpInv, Acquiring
  <2> QED BY <2>10, <2>11, <2>12 DEF AcquireInv
<1>4. CASE ServeFails
  <2> DEFINE m == Envelope(Head(line), <<>>, FALSE, TRUE)
  <2>1. /\ line # <<>> /\ (inbox' = Reaches(m) \/ inbox' = inbox)
        /\ line' = Tail(line) /\ UNCHANGED <<acq, file, trigger, losses, origin>>
    BY <1>4 DEF ServeFails
  <2>2. Head(line) \in Request /\ line' \in Seq(Request)
    BY <1>4, <2>1, <1>0 DEF KindInv, ServeFails
  <2>3. m \in Reply /\ m.data = <<>> /\ ~m.ok
    <3>1. Head(line).id \in Nat \X Nat /\ TypeOf(Head(line).mode) \in {301, 257}
      BY <2>2 DEF Request, TypeOf
    <3>2. <<>> \in Seq(Nat) /\ FALSE \in BOOLEAN /\ TRUE \in BOOLEAN
      OBVIOUS
    <3> QED BY <3>1, <3>2 DEF Envelope, Reply
  <2> HIDE DEF m
  <2>4. inbox' \in Seq(Reply) /\ ReplyInv' /\ OscInv'
    <3>1. CASE inbox' = Append(inbox, m)
      <4>1. trigger' = trigger + 0 /\ origin' \in Seq(Nat) /\ Len(origin') = trigger'
        BY <2>1, <1>0 DEF KindInv
      <4>2. \A a \in DOMAIN m.data : FALSE
        BY <2>3
      <4> QED BY <3>1, <4>1, <4>2, <2>1, <2>3, <1>0, ArriveKeeps
    <3>2. CASE inbox' = inbox
      BY <3>2, <2>1, <1>0 DEF KindInv, ReplyInv, OscInv, Written
    <3> QED BY <3>1, <3>2, <2>1 DEF Reaches
  <2>5. KindInv' /\ DumpInv'
    BY <2>1, <2>2, <2>4, <1>0 DEF KindInv, DumpInv, Acquiring
  <2> QED BY <2>4, <2>5 DEF AcquireInv
<1>5. CASE LoseRequests
  <2>1. line' \in Seq(Request) /\ UNCHANGED <<acq, file, inbox, trigger, origin>>
    BY <1>5 DEF LoseRequests
  <2> QED BY <2>1, <1>0, SameProcess
<1>6. CASE ReceiveOsc
  <2> DEFINE m == Head(inbox)
  <2>1. /\ Acquiring /\ acq.mode = "osc" /\ inbox # <<>> /\ inbox' = Tail(inbox)
        /\ UNCHANGED <<line, trigger, losses, origin>>
    BY <1>6 DEF ReceiveOsc
  <2>2. CASE ~v2_request(m)
    <3>1. file' = file /\ acq' = Raised(acq)
      BY <1>6, <2>2 DEF ReceiveOsc
    <3>2. /\ ProcessOk(acq') /\ acq'.exit = "error"
          /\ acq'.n = acq.n /\ acq'.mode = acq.mode /\ acq'.wfs = acq.wfs /\ acq'.k = acq.k
          /\ acq'.base = acq.base /\ acq'.append = acq.append
      BY <3>1, <1>0, RaisedOk
    <3> QED BY <3>1, <3>2, <2>1, Dropped
  <2>3. CASE v2_request(m)
    <3> DEFINE d == m.data[1]
    <3>1. /\ file' = file \o <<d>>
          /\ acq' = [acq EXCEPT !.k = @ + 1, !.waiting = FALSE,
                                !.exit = IF acq.k = acq.wfs THEN "zero" ELSE @]
      BY <1>6, <2>3 DEF ReceiveOsc
    <3>2. /\ ProcessOk(acq') /\ acq'.n = acq.n /\ acq'.mode = "osc" /\ acq'.wfs = acq.wfs
          /\ acq'.k = acq.k + 1 /\ acq'.base = acq.base
          /\ acq'.exit = IF acq.k = acq.wfs THEN "zero" ELSE acq.exit
      <4> DEFINE e == IF acq.k = acq.wfs THEN "zero" ELSE acq.exit
      <4>1. acq' = Wrote(acq, e)
        BY <3>1 DEF Wrote
      <4> HIDE DEF e
      <4>2. /\ ProcessOk(acq') /\ acq'.n = acq.n /\ acq'.mode = acq.mode
            /\ acq'.wfs = acq.wfs /\ acq'.k = acq.k + 1 /\ acq'.base = acq.base
            /\ acq'.exit = e
        BY <4>1, <1>0, WroteOk
      <4> QED BY <4>2, <2>1 DEF e
    <3>3. acq.exit = "running"
      BY <2>1 DEF Acquiring
    <3>4. /\ m = inbox[1] /\ 1 \in DOMAIN inbox /\ m \in Reply /\ Tail(inbox) \in Seq(Reply)
      BY <2>1, <1>0, ReadOne
    <3>5. m.correl[1] = acq.n /\ m.ok
      BY <2>3 DEF v2_request
    <3>6. m.data \in Seq(Nat) /\ Len(m.data) >= 1
      <4>1. m.data \in Seq(Nat)
        BY <3>4 DEF Reply
      <4>2. Len(m.data) >= 1
        BY <3>4, <3>5, <1>0 DEF ReplyInv
      <4> QED BY <4>1, <4>2
    <3>7. 1 \in DOMAIN m.data
      BY <3>6
    <3>8. d \in 1..trigger /\ origin[d] = acq.n
      BY <3>4, <3>5, <3>7, <1>0 DEF ReplyInv
    <3>9. ASSUME NEW h \in DOMAIN inbox', NEW b \in DOMAIN inbox'[h].data
          PROVE d < inbox'[h].data[b]
      <4>1. h + 1 \in DOMAIN inbox /\ inbox'[h] = inbox[h + 1] /\ 1 < h + 1
        BY <2>1, <1>0, ReadOne
      <4> QED BY <4>1, <3>4, <3>7, <1>0 DEF ReplyInv
    <3>10. acq.n > 0 => \A i \in Written : /\ file[i] < d /\ file[i] \in 1..trigger
                                           /\ origin[file[i]] = acq.n
      BY <3>4, <3>7, <2>1, <1>0 DEF OscInv
    <3> HIDE DEF d
    <3>11. /\ file \in Seq(Nat) /\ trigger \in Nat /\ Len(file) \in Nat
           /\ acq.base \in Nat /\ acq.k \in Nat \ {0} /\ acq.wfs \in Nat
      BY <1>0 DEF KindInv, ProcessOk
    <3>12. /\ file' \in Seq(Nat) /\ Len(file') = Len(file) + 1
           /\ \A i \in 1..Len(file) : file'[i] = file[i]
           /\ file'[Len(file) + 1] = d
      BY <3>1, <3>8, <3>11
    <3>13. KindInv'
      BY <2>1, <3>2, <3>4, <3>12, <1>0 DEF KindInv
    <3>14. ReplyInv'
      BY <2>1, <1>0, ReadKeeps
    <3>15. OscInv'
      <4> SUFFICES ASSUME acq.n > 0 PROVE OscInv'
        BY <3>2 DEF OscInv
      <4>1. Len(file) = acq.base + acq.k - 1
        BY <2>1, <1>0 DEF OscInv
      <4>2. \A i \in Written' : \/ i \in Written /\ i < Len(file) + 1 /\ file'[i] = file[i]
                                \/ i = Len(file) + 1 /\ file'[i] = d
        <5>1. Written' = (acq.base + 1)..(Len(file) + 1) /\ Written = (acq.base + 1)..Len(file)
          BY <3>2, <3>12 DEF Written
        <5>2. acq.base \in Nat /\ Len(file) \in Nat /\ acq.base + 1 <= Len(file) + 1
          BY <3>11, <4>1
        <5>3. \A i \in Written' : (i \in 1..Len(file) /\ i \in Written) \/ i = Len(file) + 1
          BY <5>1, <5>2
        <5>4. \A i \in 1..Len(file) : i < Len(file) + 1
          BY <5>2
        <5> QED BY <5>3, <5>4, <3>12
      <4>3. ASSUME NEW i \in Written'
            PROVE file'[i] \in 1..trigger /\ origin[file'[i]] = acq.n
        BY <4>2, <3>8, <3>10
      <4>4. ASSUME NEW i \in Written', NEW j \in Written', i < j
            PROVE file'[i] < file'[j]
        <5>1. CASE j \in Written /\ file'[j] = file[j]
          <6>1. i \in Nat /\ j \in Nat /\ j < Len(file) + 1
            BY <5>1, <3>2, <3>11, <3>12 DEF Written
          <6>2. i \in Written /\ file'[i] = file[i]
            BY <6>1, <4>2, <4>4, <3>11
          <6> QED BY <5>1, <6>2, <4>4, <2>1, <1>0 DEF OscInv
        <5>2. CASE j = Len(file) + 1 /\ file'[j] = d
          <6>1. i \in Written /\ file'[i] = file[i]
            BY <5>2, <4>2, <4>4, <3>11
          <6> QED BY <5>2, <6>1, <3>10
        <5> QED BY <5>1, <5>2, <4>2
      <4>5. ASSUME NEW i \in Written', NEW h \in DOMAIN inbox', NEW b \in DOMAIN inbox'[h].data
            PROVE file'[i] < inbox'[h].data[b]
        <5>1. CASE i \in Written /\ file'[i] = file[i]
          <6>1. h + 1 \in DOMAIN inbox /\ inbox'[h] = inbox[h + 1]
            BY <2>1, <1>0, ReadOne
          <6> QED BY <5>1, <6>1, <2>1, <1>0 DEF OscInv
        <5>2. CASE file'[i] = d
          BY <5>2, <3>9
        <5> QED BY <5>1, <5>2, <4>2
      <4>6. Len(file') = acq'.base + acq'.k - 1 /\ (acq'.exit = "zero" => acq'.k = acq'.wfs + 1)
        BY <4>1, <3>2, <3>3, <3>11, <3>12
      <4>7. trigger' = trigger /\ origin' = origin /\ acq'.n = acq.n
        BY <2>1, <3>2
      <4> QED BY <4>3, <4>4, <4>5, <4>6, <4>7 DEF OscInv
    <3>16. DumpInv'
      BY <3>2 DEF DumpInv
    <3> QED BY <3>13, <3>14, <3>15, <3>16 DEF AcquireInv
  <2> QED BY <2>2, <2>3
<1>7. CASE ReceiveDump
  <2> DEFINE m == Head(inbox)
  <2>1. /\ Acquiring /\ acq.mode = "dump" /\ inbox # <<>> /\ inbox' = Tail(inbox)
        /\ UNCHANGED <<line, trigger, losses, origin>>
    BY <1>7 DEF ReceiveDump
  <2>2. CASE file' = file /\ acq' = Raised(acq)
    <3>1. /\ ProcessOk(acq') /\ acq'.exit = "error"
          /\ acq'.n = acq.n /\ acq'.mode = acq.mode /\ acq'.wfs = acq.wfs /\ acq'.k = acq.k
          /\ acq'.base = acq.base /\ acq'.append = acq.append
      BY <2>2, <1>0, RaisedOk
    <3> QED BY <3>1, <2>1, <2>2, Dropped
  <2>3. CASE /\ file' = (IF acq.append THEN file ELSE <<>>) \o m.data
             /\ acq' = [acq EXCEPT !.exit = "zero"]
    <3>1. ProcessOk(acq') /\ acq'.mode = "dump" /\ acq'.exit = "zero"
      BY <2>3, <2>1, <1>0 DEF ProcessOk
    <3>2. m \in Reply /\ Tail(inbox) \in Seq(Reply)
      BY <2>1, <1>0, ReadOne
    <3>3. m.data \in Seq(Nat)
      BY <3>2 DEF Reply
    <3> HIDE DEF m
    <3>4. file' \in Seq(Nat)
      BY <2>3, <3>3, <1>0 DEF KindInv
    <3>5. KindInv'
      BY <2>1, <3>1, <3>2, <3>4, <1>0 DEF KindInv
    <3>6. ReplyInv'
      BY <2>1, <1>0, ReadKeeps
    <3>7. OscInv' /\ DumpInv'
      BY <3>1 DEF OscInv, DumpInv, Acquiring
    <3> QED BY <3>5, <3>6, <3>7 DEF AcquireInv
  <2> QED BY <1>7, <2>2, <2>3 DEF ReceiveDump
<1>8. CASE ReceiveChunk
  <2> DEFINE m == Head(inbox)
             mine == m.correl[1] = acq.n /\ m.type = TypeOf("stream")
             seen == [acq EXCEPT !.final = @ \/ (mine /\ m.final /\ m.ok)]
  <2>1. /\ Acquiring /\ acq.mode \in {"stream", "v1"} /\ inbox # <<>> /\ inbox' = Tail(inbox)
        /\ UNCHANGED <<line, trigger, losses, origin>>
        /\ file' \in {file, file \o m.data}
        /\ \/ acq' = seen
           \/ acq' = [seen EXCEPT !.exit = "zero"]
           \/ acq' = [seen EXCEPT !.exit = IF m.final THEN "zero" ELSE @]
    BY <1>8 DEF ReceiveChunk
  <2>2. /\ ProcessOk(seen) /\ seen.mode = acq.mode
    BY <1>0 DEF ProcessOk
  <2> HIDE DEF seen
  <2>3. ProcessOk(acq') /\ acq'.mode \in {"stream", "v1"}
    BY <2>1, <2>2 DEF ProcessOk
  <2>4. m \in Reply /\ Tail(inbox) \in Seq(Reply)
    BY <2>1, <1>0, ReadOne
  <2>5. m.data \in Seq(Nat)
    BY <2>4 DEF Reply
  <2> HIDE DEF m
  <2>6. file' \in Seq(Nat)
    <3>1. file \in Seq(Nat)
      BY <1>0 DEF KindInv
    <3>2. file \o m.data \in Seq(Nat)
      BY <3>1, <2>5
    <3> QED BY <3>1, <3>2, <2>1
  <2>7. KindInv'
    BY <2>1, <2>3, <2>4, <2>6, <1>0 DEF KindInv
  <2>8. ReplyInv'
    BY <2>1, <1>0, ReadKeeps
  <2>9. OscInv' /\ DumpInv'
    BY <2>3 DEF OscInv, DumpInv
  <2> QED BY <2>7, <2>8, <2>9 DEF AcquireInv
<1>9. CASE AcqTimeout
  <2>1. acq' = Raised(acq) /\ UNCHANGED <<file, line, inbox, trigger, losses, origin>>
    BY <1>9 DEF AcqTimeout, stream_envelope
  <2>2. /\ ProcessOk(acq') /\ acq'.exit = "error"
        /\ acq'.n = acq.n /\ acq'.mode = acq.mode /\ acq'.wfs = acq.wfs /\ acq'.k = acq.k
        /\ acq'.base = acq.base /\ acq'.append = acq.append
    BY <2>1, <1>0, RaisedOk
  <2>3. line' \in Seq(Request)
    BY <2>1, <1>0 DEF KindInv
  <2> QED BY <2>1, <2>2, <2>3, <1>0, SameProcess
<1>10. CASE UNCHANGED acquireVars
  BY <1>10, <1>0, SameProcess DEF acquireVars, KindInv
<1> QED BY <1>1, <1>2, <1>3, <1>4, <1>5, <1>6, <1>7, <1>8, <1>9, <1>10 DEF AcquireNext

(* A dump changes the files only in the step in which it ends well, by as  *)
(* many waveforms as it asked for.                                         *)
LEMMA DumpStep ==
  ASSUME AcquireInv, AcquireNext, acq.mode = "dump", file' # file, acq'.n = acq.n
  PROVE acq'.exit = "zero" /\ Len(file') = acq.base + acq.wfs
<1>0. KindInv /\ ReplyInv /\ DumpInv /\ ProcessOk(acq)
  BY DEF AcquireInv, KindInv
<1>1. ReceiveDump
  <2>1. ASSUME NEW mode \in Modes, NEW wfs \in 1..MaxWaveforms, NEW append \in BOOLEAN,
               StartAcquire(mode, wfs, append)
        PROVE FALSE
    <3>1. acq'.n = acq.n + 1
      BY <2>1 DEF StartAcquire, AcqProcess
    <3> QED BY <3>1, <1>0 DEF ProcessOk
  <2>2. ~AcqSend /\ ~ServeReply /\ ~ServeFails /\ ~LoseRequests /\ ~AcqTimeout
    BY DEF AcqSend, ServeReply, ServeFails, LoseRequests, AcqTimeout
  <2>3. ~ReceiveOsc /\ ~ReceiveChunk
    BY DEF ReceiveOsc, ReceiveChunk
  <2> QED BY <2>1, <2>2, <2>3 DEF AcquireNext
<1> DEFINE m == Head(inbox)
<1>2. /\ Acquiring /\ inbox # <<>> /\ Len(m.data) = acq.wfs
      /\ file' = (IF acq.append THEN file ELSE <<>>) \o m.data
      /\ acq' = [acq EXCEPT !.exit = "zero"]
  BY <1>1 DEF ReceiveDump, Reshapes
<1>3. m \in Reply
  BY <1>2, <1>0, ReadOne
<1>4. m.data \in Seq(Nat)
  BY <1>3 DEF Reply
<1>5. acq'.exit = "zero"
  BY <1>2, <1>0 DEF ProcessOk
<1>6. acq.base = IF acq.append THEN Len(file) ELSE 0
  BY <1>2, <1>0 DEF DumpInv
<1> HIDE DEF m
<1>7. file \in Seq(Nat) /\ acq.wfs \in Nat
  BY <1>0 DEF KindInv, ProcessOk
<1>8. CASE acq.append
  <2>1. file' = file \o m.data /\ acq.base = Len(file)
    BY <1>2, <1>6, <1>8
  <2>2. Len(file \o m.data) = Len(file) + Len(m.data)
    BY <1>4, <1>7
  <2> QED BY <2>1, <2>2, <1>2, <1>5
<1>9. CASE ~acq.append
  <2>1. file' = <<>> \o m.data /\ acq.base = 0
    BY <1>2, <1>6, <1>9
  <2>2. Len(<<>> \o m.data) = Len(m.data)
    BY <1>4
  <2> QED BY <2>1, <2>2, <1>2, <1>5, <1>7
<1> QED BY <1>8, <1>9

(* However late the replies to earlier processes come and whatever the     *)
(* server loses: an acquisition in the mode of the oscilloscope writes     *)
(* waveforms of its own triggers, in order and each once, and a dump puts  *)
(* all that it asked for into the files, or nothing.                       *)
THEOREM AcquisitionsWhole == AcquireSpec => AcquiredIsWhole
<1>1. AcquireInv => OscWritesOwn
  <2> SUFFICES ASSUME AcquireInv, acq.n > 0, acq.mode = "osc" PROVE OscWritesOwn
    BY DEF OscWritesOwn
  <2>1. acq.base \in Nat /\ acq.k \in Nat /\ acq.wfs \in Nat /\ Len(file) \in Nat
    BY DEF AcquireInv, KindInv, ProcessOk
  <2> QED BY <2>1 DEF AcquireInv, OscInv, Written, OscWritesOwn
<1>2. AcquireInv /\ [AcquireNext]_acquireVars =>
        [acq.mode = "dump" /\ file' # file /\ acq'.n = acq.n =>
           acq'.exit = "zero" /\ Len(file') = acq.base + acq.wfs]_acquireVars
  BY DumpStep
<1>3. AcquireSpec => []AcquireInv
  BY AcquireStarts, AcquireKeeps, PTL DEF AcquireSpec
<1>4. AcquireSpec => []OscWritesOwn
  BY <1>1, <1>3, PTL
<1>5. AcquireSpec => DumpIsWhole
  BY <1>2, <1>3, PTL DEF AcquireSpec, DumpIsWhole
<1> QED BY <1>4, <1>5 DEF AcquiredIsWhole
=============================================================================
