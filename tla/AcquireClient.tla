---------------------------- MODULE AcquireClient ----------------------------
(***************************************************************************)
(* protobuf_acquire_list_channels.py, which writes waveforms of the server *)
(* to one file per channel.  Its modes:                                    *)
(*   osc       one request and one reply per waveform                      *)
(*   dump      one request, one reply (-legacy)                            *)
(*   stream    one request, replies in chunks (the default)                *)
(*   v1        as stream, in the deprecated envelope (--no-v2)             *)
(*                                                                         *)
(* Every process uses the identity client-compat, so that the replies to   *)
(* one that gave up reach the next one.  A waveform is the number of its   *)
(* trigger; the files of the channels grow together and are one here.      *)
(***************************************************************************)
EXTENDS Integers, Sequences

CONSTANTS
  MaxProcesses,   \* bound: processes, one after the other
  MaxWaveforms,   \* bound: -N
  MaxLosses       \* bound: restarts of the server

ASSUME AcquireAssumption ==
  /\ MaxProcesses \in Nat /\ MaxLosses \in Nat
  /\ MaxWaveforms \in Nat \ {0}

VARIABLES
  acq,       \* the process that runs, or ran last
  file,      \* what the files hold
  line,      \* requests on their way to the server, or being answered
  inbox,     \* replies in the socket of the process
  trigger,   \* triggers so far
  losses,    \* restarts so far
  origin     \* history: the process that each trigger was made for

acquireVars == <<acq, file, line, inbox, trigger, losses, origin>>

Modes == {"osc", "dump", "stream", "v1"}

(* base is the length of the file when the process began to write, final   *)
(* is whether the last chunk of a stream was received.                     *)
AcqProcess(n, mode, wfs, append) ==
  [n |-> n, mode |-> mode, wfs |-> wfs, append |-> append, k |-> 1, base |-> 0,
   waiting |-> FALSE, final |-> FALSE, exit |-> "running"]

AcquireInit ==
  /\ acq = [AcqProcess(0, "osc", 1, FALSE) EXCEPT !.exit = "zero"]
  /\ file = <<>> /\ line = <<>> /\ inbox = <<>>
  /\ trigger = 0 /\ losses = 0 /\ origin = <<>>

Acquiring == acq.exit = "running"

(* dump opens the files when it writes, the others here.                   *)
StartAcquire(mode, wfs, append) ==
  /\ ~Acquiring /\ acq.n < MaxProcesses
  /\ LET kept == IF append \/ mode = "dump" THEN file ELSE <<>>
     IN /\ file' = kept
        /\ acq' = [AcqProcess(acq.n + 1, mode, wfs, append)
                     EXCEPT !.base = IF append THEN Len(file) ELSE 0]
  /\ inbox' = <<>>
  /\ UNCHANGED <<line, trigger, losses, origin>>

(* The server reads no request in the deprecated envelope.                 *)
AcqSend ==
  /\ Acquiring /\ ~acq.waiting
  /\ acq' = [acq EXCEPT !.waiting = TRUE]
  /\ line' = IF acq.mode = "v1" THEN line
             ELSE Append(line, [id |-> <<acq.n, acq.k>>, mode |-> acq.mode, sent |-> 0,
                                wfs |-> IF acq.mode = "osc" THEN 1 ELSE acq.wfs])
  /\ UNCHANGED <<file, inbox, trigger, losses, origin>>

-----------------------------------------------------------------------------
(* MT2_DUMP_SPYBUFFER_RESP and MT2_DUMP_SPYBUFFER_CHUNK_RESP.              *)
TypeOf(mode) == IF mode = "stream" THEN 301 ELSE 257

Envelope(r, data, ok, final) ==
  [version |-> 2, type |-> TypeOf(r.mode), correl |-> r.id,
   data |-> data, ok |-> ok, final |-> final]

Reaches(m) == IF Acquiring THEN Append(inbox, m) ELSE inbox

(* One reply of the server: a dump, or a chunk of one waveform.            *)
ServeReply ==
  /\ line # <<>>
  /\ LET r == Head(line)
         count == IF r.mode = "stream" THEN 1 ELSE r.wfs
         last == r.mode # "stream" \/ r.sent + 1 = r.wfs
     IN /\ inbox' = Reaches(Envelope(r, [i \in 1..count |-> trigger + i], TRUE, last))
        /\ trigger' = trigger + count
        /\ origin' = origin \o [i \in 1..count |-> r.id[1]]
        /\ line' = IF last THEN Tail(line)
                   ELSE <<[r EXCEPT !.sent = @ + 1]>> \o Tail(line)
  /\ UNCHANGED <<acq, file, losses>>

(* An error: a reply without data, or a stream that just ends.             *)
ServeFails ==
  /\ line # <<>>
  /\ \/ inbox' = Reaches(Envelope(Head(line), <<>>, FALSE, TRUE))
     \/ Head(line).mode = "stream" /\ inbox' = inbox
  /\ line' = Tail(line)
  /\ UNCHANGED <<acq, file, trigger, losses, origin>>

LoseRequests ==
  /\ losses < MaxLosses /\ line # <<>>
  /\ losses' = losses + 1 /\ line' = <<>>
  /\ UNCHANGED <<acq, file, inbox, trigger, origin>>

-----------------------------------------------------------------------------
(* Mutant: any reply of the right type is taken.                           *)
v2_request_Any(m) == m.type = TypeOf("osc") /\ m.ok

(* v2_request raises unless the reply is to this request.                  *)
v2_request(m) == m.correl = <<acq.n, acq.k>> /\ m.type = TypeOf("osc") /\ m.ok

(* The bytes of a ControlEnvelopeV2 read as a ControlEnvelope: its type is *)
(* the version, and its payload, where a number is, is empty.              *)
ParseV1(m) == [type |-> m.version, data |-> <<>>]

(* What stream_envelope yields is compared with the type of V2, or with    *)
(* DUMP_SPYBUFFER_CHUNK.                                                   *)
TakesChunk(m) ==
  ParseV1(m).type = IF acq.mode = "v1" THEN 100 ELSE TypeOf("stream")

Raised(p) == [p EXCEPT !.exit = "error"]

ReceiveOsc ==
  /\ Acquiring /\ acq.waiting /\ acq.mode = "osc" /\ inbox # <<>>
  /\ LET m == Head(inbox)
     IN IF v2_request(m)
        THEN /\ file' = file \o <<m.data[1]>>
             /\ acq' = [acq EXCEPT !.k = @ + 1, !.waiting = FALSE,
                                   !.exit = IF acq.k = acq.wfs THEN "zero" ELSE @]
        ELSE file' = file /\ acq' = Raised(acq)
  /\ inbox' = Tail(inbox)
  /\ UNCHANGED <<line, trigger, losses, origin>>

(* Mutant: what does not have the size asked for is written too.           *)
Reshapes_Any(m) == TRUE

Reshapes(m) == Len(m.data) = acq.wfs

(* The type is asserted, the correlation is not looked at.                 *)
ReceiveDump ==
  /\ Acquiring /\ acq.waiting /\ acq.mode = "dump" /\ inbox # <<>>
  /\ LET m == Head(inbox)
     IN IF m.type = TypeOf("dump") /\ Reshapes(m)
        THEN /\ file' = (IF acq.append THEN file ELSE <<>>) \o m.data
             /\ acq' = [acq EXCEPT !.exit = "zero"]
        ELSE file' = file /\ acq' = Raised(acq)
  /\ inbox' = Tail(inbox)
  /\ UNCHANGED <<line, trigger, losses, origin>>

ReceiveChunk ==
  /\ Acquiring /\ acq.waiting /\ acq.mode \in {"stream", "v1"} /\ inbox # <<>>
  /\ LET m == Head(inbox)
         mine == m.correl[1] = acq.n /\ m.type = TypeOf("stream")
         seen == [acq EXCEPT !.final = @ \/ (mine /\ m.final /\ m.ok)]
     IN IF ~TakesChunk(m) THEN file' = file /\ acq' = seen
        ELSE IF ~m.ok THEN file' = file /\ acq' = [seen EXCEPT !.exit = "zero"]
        ELSE /\ file' = file \o m.data
             /\ acq' = [seen EXCEPT !.exit = IF m.final THEN "zero" ELSE @]
  /\ inbox' = Tail(inbox)
  /\ UNCHANGED <<line, trigger, losses, origin>>

(* Mutant: the wait goes on.                                               *)
stream_envelope_Again(p) == p

stream_envelope(p) == Raised(p)

(* RCVTIMEO.                                                               *)
AcqTimeout ==
  /\ Acquiring /\ acq.waiting
  /\ acq' = stream_envelope(acq)
  /\ UNCHANGED <<file, line, inbox, trigger, losses, origin>>

AcquireNext ==
  \/ \E mode \in Modes, wfs \in 1..MaxWaveforms, append \in BOOLEAN :
       StartAcquire(mode, wfs, append)
  \/ AcqSend \/ ReceiveOsc \/ ReceiveDump \/ ReceiveChunk \/ AcqTimeout
  \/ ServeReply \/ ServeFails \/ LoseRequests

AcquireSpec == AcquireInit /\ [][AcquireNext]_acquireVars

(* The process goes on, and a wait ends with a reply or the timeout.       *)
AcquireFairness ==
  /\ WF_acquireVars(AcqSend)
  /\ WF_acquireVars(ReceiveOsc \/ ReceiveDump \/ ReceiveChunk)
  /\ WF_acquireVars(AcqTimeout)

-----------------------------------------------------------------------------
(* What an acquisition in the mode of the oscilloscope has written, all of *)
(* it or the part before an error, are waveforms of its own triggers in    *)
(* their order, each once, after what was in the files when it appends:    *)
(* replies to an earlier process that come late are not among them.        *)
OscWritesOwn ==
  acq.n > 0 /\ acq.mode = "osc" =>
    /\ \A i \in (acq.base + 1)..Len(file) : origin[file[i]] = acq.n
    /\ \A i, k \in (acq.base + 1)..Len(file) : i < k => file[i] < file[k]
    /\ acq.exit = "zero" => Len(file) = acq.base + acq.wfs

(* A dump that ends without an error has put as many waveforms as it asked *)
(* for into the files, and one that fails has left them as they were; they *)
(* may be those of an earlier request.                                     *)
DumpIsWhole ==
  [][acq.mode = "dump" /\ file' # file /\ acq'.n = acq.n =>
       acq'.exit = "zero" /\ Len(file') = acq.base + acq.wfs]_acquireVars

(* Every acquisition ends, whatever the server does.                       *)
AcquireEnds == Acquiring ~> ~Acquiring

(* "Acquire waveforms from multiple channels (legacy or streaming)": a     *)
(* stream whose chunks all arrived is in the files.                        *)
StreamIsSaved ==
  acq.mode = "stream" /\ acq.final => Len(file) = acq.base + acq.wfs

(* The files hold whole acquisitions: the process's own where replies are  *)
(* checked.                                                                *)
AcquiredIsWhole == []OscWritesOwn /\ DumpIsWhole
=============================================================================
