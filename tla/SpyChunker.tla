----------------------------- MODULE SpyChunker -----------------------------
(***************************************************************************)
(* for_each_spybuffer_chunk and the branch of the router loop that calls   *)
(* it.  For one request the router thread starts a producer thread, which  *)
(* reads the spy buffers chunk by chunk into a BoundedQueue of two, and    *)
(* itself pops the chunks and sends one response for each.  The samples    *)
(* are abstracted to the range of waveforms a chunk covers.                *)
(*                                                                         *)
(* A response that cannot be sent throws out of for_each_spybuffer_chunk   *)
(* while the producer is joinable, and std::~thread terminates the server; *)
(* systemd starts it again.                                                *)
(***************************************************************************)
EXTENDS BoundedQueue, Integers

CONSTANTS
  Requests,  \* records [n, c, ok]: numberOfWaveforms, chunkSize, and whether
             \* the payload parses and its other fields are valid
  MaxChunk,  \* the largest chunkSize, 1024
  Modulus    \* uint32_t counters, 2^32

ASSUME RequestsAssumption ==
  /\ Modulus \in Nat \ {0}
  /\ MaxChunk \in Nat
  /\ Requests # {}
  /\ Requests \subseteq
       [n : 0..(Modulus - 1), c : 0..(Modulus - 1), ok : BOOLEAN]

VARIABLES
  req,       \* the request being answered
  rpc,       \* the router thread
  ppc,       \* the producer thread
  wfStart,   \* wf_start
  seq,       \* seq
  packet,    \* the packet popped last
  hadError,  \* had_error
  last,      \* the last response to this request
  finals     \* responses to this request with isFinal set

vars == <<queueVars, req, rpc, ppc, wfStart, seq, packet, hadError, last,
          finals>>

UInt32 == 0..(Modulus - 1)
Packet == [seq : UInt32, start : UInt32, count : UInt32]
Response == [seq : UInt32, start : UInt32, count : UInt32,
             success : BOOLEAN, final : BOOLEAN]

NoResponse == [seq |-> 0, start |-> 0, count |-> 0,
               success |-> FALSE, final |-> FALSE]

(* The fields a refusal leaves unset are zero.                             *)
Refusal == [NoResponse EXCEPT !.final = TRUE]

(* Mutant: a request for no waveforms is let through.                      *)
Accepts_NoWaveforms(q) == q.ok /\ q.c > 0 /\ q.c <= MaxChunk

(* The checks before the producer starts.                                  *)
Accepts(q) == q.ok /\ q.n > 0 /\ q.c > 0 /\ q.c <= MaxChunk

NoPacket == [seq |-> 0, start |-> 0, count |-> 0]

Init ==
  /\ QueueInit
  /\ req \in Requests
  /\ rpc = "recv" /\ ppc = "none"
  /\ wfStart = 0 /\ seq = 0 /\ packet = NoPacket
  /\ hadError = FALSE /\ last = NoResponse /\ finals = 0

-----------------------------------------------------------------------------
(* The router thread                                                       *)

Receive ==
  /\ rpc = "recv"
  /\ req' \in {q \in Requests : Accepts(q)}
  /\ rpc' = "pop" /\ ppc' = "fill"
  /\ wfStart' = 0 /\ seq' = 0 /\ packet' = NoPacket
  /\ hadError' = FALSE /\ last' = NoResponse /\ finals' = 0
  /\ queue' = <<>> /\ closed' = FALSE /\ notEmpty' = {} /\ notFull' = {}

(* A payload that does not parse or a check that throws: one response with *)
(* success false and isFinal true.                                         *)
Reject ==
  /\ rpc = "recv"
  /\ \E q \in Requests : ~Accepts(q)
  /\ hadError' = FALSE /\ last' = Refusal /\ finals' = 1
  /\ UNCHANGED <<queueVars, req, rpc, ppc, wfStart, seq, packet>>

PopPacket ==
  /\ rpc = "pop" /\ ~Waiting("router")
  /\ \/ Pop /\ packet' = Head(queue) /\ rpc' = "send"
     \/ PopWaits("router") /\ UNCHANGED <<packet, rpc>>
     \/ PopEnds /\ rpc' = "join" /\ UNCHANGED packet
  /\ UNCHANGED <<req, ppc, wfStart, seq, hadError, last, finals>>

(* Mutant: isFinal is off by one.                                          *)
IsFinal_OneEarly(p) == p.start + p.count + 1 >= req.n

IsFinal(p) == (p.start + p.count) % Modulus >= req.n

SendChunk ==
  /\ rpc = "send"
  /\ last' = [seq |-> packet.seq, start |-> packet.start,
              count |-> packet.count, success |-> ~hadError,
              final |-> IsFinal(packet)]
  /\ finals' = IF IsFinal(packet) /\ finals < 2 THEN finals + 1 ELSE finals
  /\ rpc' = "pop"
  /\ UNCHANGED <<queueVars, req, ppc, wfStart, seq, packet, hadError>>

Join ==
  /\ rpc = "join" /\ ppc = "done"
  /\ rpc' = "recv" /\ ppc' = "none"
  /\ UNCHANGED <<queueVars, req, wfStart, seq, packet, hadError, last, finals>>

(* on_chunk throws: the unwinding destroys a joinable thread.              *)
SendThrows ==
  /\ rpc = "send"
  /\ rpc' = "terminated" /\ ppc' = "none"
  /\ notEmpty' = {} /\ notFull' = {}
  /\ UNCHANGED <<queue, closed, req, wfStart, seq, packet, hadError, last,
                 finals>>

(* Restart=on-failure in daphne.service.                                   *)
Restart ==
  /\ rpc = "terminated" /\ rpc' = "recv"
  /\ UNCHANGED <<queueVars, req, ppc, wfStart, seq, packet, hadError, last,
                 finals>>

-----------------------------------------------------------------------------
(* The producer thread                                                     *)

(* Mutant: every chunk has chunkSize waveforms, the last one too.          *)
WfCount_NoMin == req.c

WfCount == IF req.n - wfStart < req.c THEN req.n - wfStart ELSE req.c

(* The spy buffers of one chunk are read; an exception ends the loop.      *)
Fill ==
  /\ ppc = "fill"
  /\ \/ wfStart < req.n /\ ppc' = "push" /\ UNCHANGED hadError
     \/ wfStart < req.n /\ ppc' = "close" /\ hadError' = TRUE
     \/ wfStart >= req.n /\ ppc' = "close" /\ UNCHANGED hadError
  /\ UNCHANGED <<queueVars, req, rpc, wfStart, seq, packet, last, finals>>

PushPacket ==
  /\ ppc = "push" /\ ~Waiting("producer")
  /\ \/ /\ Push([seq |-> seq, start |-> wfStart, count |-> WfCount])
        /\ seq' = (seq + 1) % Modulus
        /\ wfStart' = (wfStart + req.c) % Modulus
        /\ ppc' = "fill"
     \/ PushWaits("producer") /\ UNCHANGED <<seq, wfStart, ppc>>
  /\ UNCHANGED <<req, rpc, packet, hadError, last, finals>>

CloseQueue ==
  /\ ppc = "close" /\ Close /\ ppc' = "done"
  /\ UNCHANGED <<req, rpc, wfStart, seq, packet, hadError, last, finals>>

Wakeup ==
  /\ \E t \in {"router", "producer"} : SpuriousWakeup(t)
  /\ UNCHANGED <<req, rpc, ppc, wfStart, seq, packet, hadError, last, finals>>

-----------------------------------------------------------------------------
RouterStep == PopPacket \/ SendChunk \/ Join
ProducerStep == Fill \/ PushPacket \/ CloseQueue

Next == \/ Receive \/ Reject \/ RouterStep \/ SendThrows \/ Restart
        \/ ProducerStep \/ Wakeup

(* Both threads are scheduled; no request needs to come, no send needs to  *)
(* fail and no spurious wakeup needs to happen.                            *)
Spec == Init /\ [][Next]_vars /\ WF_vars(RouterStep) /\ WF_vars(ProducerStep)

-----------------------------------------------------------------------------
(* uint32_t wf_start passes numberOfWaveforms without wrapping to zero.    *)
NoWrap == \A q \in Requests : Accepts(q) => q.n + q.c <= Modulus

TypeOK ==
  /\ queue \in Seq(Packet) /\ Len(queue) <= Capacity
  /\ closed \in BOOLEAN
  /\ notEmpty \subseteq {"router"} /\ notFull \subseteq {"producer"}
  /\ req \in Requests
  /\ rpc \in {"recv", "pop", "send", "join", "terminated"}
  /\ ppc \in {"none", "fill", "push", "close", "done"}
  /\ wfStart \in UInt32 /\ seq \in UInt32 /\ packet \in Packet
  /\ hadError \in BOOLEAN
  /\ last \in Response
  /\ finals \in 0..2

(* A thread asleep on a condition variable of the queue has a reason to be: *)
(* nobody can both have made its predicate true and not have woken it.     *)
NoLostWakeup ==
  /\ "router" \in notEmpty => queue = <<>> /\ ~closed
  /\ "producer" \in notFull => Len(queue) = Capacity /\ ~closed

(* The waveforms delivered to the client so far.                           *)
Delivered == last.start + last.count

(* A client stops reading at isFinal: at most one response to a request    *)
(* carries it, no response follows that one, and it covers the last        *)
(* waveform asked for.                                                     *)
OneFinal ==
  /\ finals <= 1
  /\ finals = 1 /\ last # Refusal =>
       last.final /\ Delivered = req.n /\ rpc # "send" /\ queue = <<>>

(* A stream that ends without an error has told its client so: a client    *)
(* that saw no isFinal would wait until its timeout.                       *)
EndIsAnnounced == rpc = "join" /\ ~hadError => finals = 1

(* The responses to a request are the abstract chunk stream: in order, no  *)
(* waveform twice or never, and cut short only by an error.                *)
Stream == INSTANCE ChunkStream WITH
  request <- req,
  open <- rpc \in {"pop", "send", "join"},
  pos <- Delivered,
  failed <- hadError

ImplementsChunkStream == Stream!StreamSpec

(* A request that was accepted gives the router thread back, whether or    *)
(* not the producer failed, and whoever waits for whom in the queue.       *)
StreamEnds ==
  rpc \in {"pop", "send", "join"} ~> rpc \in {"recv", "terminated"}

=============================================================================
