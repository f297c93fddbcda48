---------------------------- MODULE ClientsProof ----------------------------
(***************************************************************************)
(* The router and its clients: outcomes are true and backlogs bounded for  *)
(* any clients and any bounds.  What the command line clients write back,  *)
(* plot and end with is what the server answered to them, for every number *)
(* of AFEs, processes, late messages, restarts and writes of others.       *)
(***************************************************************************)
EXTENDS RouterServer, Scripts, SequenceTheorems, TLAPS

(***************************************************************************)
(*                        The router                                       *)
(*                                                                         *)
(* What is known of a client is a predicate on its values (ClientOk); one  *)
(* lemma per step says that the step's new values satisfy it, and the      *)
(* actions only apply these lemmas.                                        *)
(***************************************************************************)

Outcome == {"result", "empty", "mismatch", "timeout"}

(* Requests on the way are requests that were sent, and replies name a     *)
(* request that was served and tell how.                                   *)
SentRequest(rq) ==
  {r \in Envelope : r.msg_id <= Len(rq) /\ r.kind = rq[r.msg_id]}

TrueReply(rq, sv) ==
  {p \in Response :
     /\ p.correl_id <= Len(rq) /\ p.correl_id \in sv
     /\ p.body = "result" => rq[p.correl_id] = "handled"
     /\ p.body = "empty" => rq[p.correl_id] \in {"throws", "unknown"}}

TrueOutcomes(rq, oc, sv) ==
  \A n \in 1..Len(oc) :
    /\ oc[n] \in {"result", "empty"} => n \in sv
    /\ oc[n] = "result" => rq[n] = "handled"
    /\ oc[n] = "empty" => rq[n] \in {"throws", "unknown"}

(* w is 1 while the client waits: all requests but the one at hand have an *)
(* outcome.                                                                *)
ClientOk(rq, oc, w, ts, tc, sv, to) ==
  /\ rq \in Seq(Kind) /\ Len(rq) <= MaxRequests
  /\ oc \in Seq(Outcome)
  /\ w \in {0, 1} /\ to \in Nat
  /\ sv \subseteq 1..MaxRequests
  /\ ts \in Seq(SentRequest(rq))
  /\ tc \in Seq(TrueReply(rq, sv))
  /\ Len(oc) + w = Len(rq)
  /\ TrueOutcomes(rq, oc, sv)
  /\ Len(ts) + Len(tc) <= to + w

AtHand(c) == IF c \in waiting THEN 1 ELSE 0

ClientInv(c) == ClientOk(requests[c], outcomes[c], AtHand(c), toServer[c],
                         toClient[c], served[c], timeouts[c])

IInv == TypeOK /\ \A c \in Client : ClientInv(c)

-----------------------------------------------------------------------------
(* A part of a sequence.                                                   *)
LEMMA Part ==
  ASSUME NEW S, NEW s \in Seq(S), NEW i \in 1..(Len(s) + 1),
         NEW j \in 0..Len(s)
  PROVE  SubSeq(s, i, j) \in Seq(S) /\ Len(SubSeq(s, i, j)) \in 0..Len(s)
<1>1. i \in Nat /\ j \in Nat /\ Len(s) \in Nat /\ 1 <= i /\ j <= Len(s)
  BY LenProperties
<1>2. \A k \in i..j : s[k] \in S
  BY <1>1, ElementOfSeq
<1>3. /\ SubSeq(s, i, j) \in Seq(S)
      /\ Len(SubSeq(s, i, j)) = IF i <= j THEN j - i + 1 ELSE 0
  BY <1>1, <1>2, SubSeqProperties
<1> QED
  BY <1>1, <1>3

(* A new request.                                                          *)
LEMMA SendOk ==
  ASSUME NEW rq, NEW oc, NEW ts, NEW tc, NEW sv, NEW to, NEW k \in Kind,
         ClientOk(rq, oc, 0, ts, tc, sv, to), Len(rq) < MaxRequests
  PROVE  ClientOk(Append(rq, k), oc, 1,
                  Append(ts, [msg_id |-> Len(rq) + 1, kind |-> k]),
                  tc, sv, to)
<1> DEFINE r == [msg_id |-> Len(rq) + 1, kind |-> k]
           rq2 == Append(rq, k)
<1>0. /\ rq \in Seq(Kind) /\ oc \in Seq(Outcome)
      /\ ts \in Seq(SentRequest(rq)) /\ tc \in Seq(TrueReply(rq, sv))
      /\ Len(rq) \in Nat /\ MaxRequests \in Nat /\ to \in Nat
      /\ Len(oc) = Len(rq) /\ Len(oc) \in Nat
  BY BoundsAssumption, LenProperties DEF ClientOk
<1>1. /\ rq2 \in Seq(Kind) /\ Len(rq2) = Len(rq) + 1
      /\ \A n \in 1..Len(rq) : rq2[n] = rq[n]
      /\ rq2[Len(rq) + 1] = k
  BY <1>0, AppendProperties
<1>2. SentRequest(rq) \subseteq SentRequest(rq2)
  BY <1>0, <1>1 DEF SentRequest, Envelope
<1>3. r \in SentRequest(rq2)
  BY <1>0, <1>1 DEF SentRequest, Envelope
<1>4. /\ Append(ts, r) \in Seq(SentRequest(rq2))
      /\ Len(Append(ts, r)) = Len(ts) + 1
  <2>1. ts \in Seq(SentRequest(rq2))
    BY <1>0, <1>2, SeqMonotonic
  <2> QED
    BY <2>1, <1>3, AppendProperties
<1>5. tc \in Seq(TrueReply(rq2, sv))
  <2>1. TrueReply(rq, sv) \subseteq TrueReply(rq2, sv)
    BY <1>0, <1>1 DEF TrueReply, Response
  <2> QED
    BY <2>1, <1>0, SeqMonotonic
<1>6. TrueOutcomes(rq2, oc, sv)
  BY <1>0, <1>1 DEF ClientOk, TrueOutcomes
<1>7. Len(ts) \in Nat /\ Len(tc) \in Nat
  BY <1>0, LenProperties
<1> QED
  BY <1>0, <1>1, <1>4, <1>5, <1>6, <1>7 DEF ClientOk

(* A pass of the router loop for a client, whose socket is open or not.    *)
LEMMA ServeOk ==
  ASSUME NEW rq, NEW oc, NEW w, NEW ts, NEW tc, NEW sv, NEW to,
         ClientOk(rq, oc, w, ts, tc, sv, to), ts # <<>>
  PROVE  /\ ClientOk(rq, oc, w, Tail(ts), tc,
                     sv \cup {Head(ts).msg_id}, to)
         /\ ClientOk(rq, oc, w, Tail(ts), tc \o Replies(Head(ts)),
                     sv \cup {Head(ts).msg_id}, to)
<1> DEFINE r == Head(ts)
           sv2 == sv \cup {r.msg_id}
<1>0. /\ ts \in Seq(SentRequest(rq)) /\ tc \in Seq(TrueReply(rq, sv))
      /\ w \in {0, 1} /\ to \in Nat /\ MaxRequests \in Nat
      /\ Len(ts) + Len(tc) <= to + w
      /\ sv \subseteq 1..MaxRequests
  BY BoundsAssumption DEF ClientOk
<1>1. /\ r \in SentRequest(rq) /\ Tail(ts) \in Seq(SentRequest(rq))
      /\ Len(Tail(ts)) = Len(ts) - 1
  BY <1>0, HeadTailProperties
<1>2. /\ r.msg_id \in 1..MaxRequests /\ r.msg_id <= Len(rq)
      /\ r.kind \in Kind /\ r.kind = rq[r.msg_id]
  BY <1>1 DEF SentRequest, Envelope
<1>3. tc \in Seq(TrueReply(rq, sv2))
  <2>1. TrueReply(rq, sv) \subseteq TrueReply(rq, sv2)
    BY DEF TrueReply
  <2> QED
    BY <2>1, <1>0, SeqMonotonic
<1>4. /\ Replies(r) \in Seq(TrueReply(rq, sv2))
      /\ Len(Replies(r)) \in {0, 1}
  <2>1. CASE r.kind = "ignored"
    BY <2>1, EmptySeq DEF Replies
  <2>2. CASE r.kind # "ignored"
    <3> DEFINE p == MakeResponse(r, IF r.kind = "handled" THEN "result"
                                                          ELSE "empty")
    <3>1. p \in TrueReply(rq, sv2)
      <4>1. /\ p \in Response /\ p.correl_id = r.msg_id
            /\ p.body = IF r.kind = "handled" THEN "result" ELSE "empty"
        BY <1>2 DEF Response, MakeResponse
      <4>2. r.kind = "handled" \/ r.kind \in {"throws", "unknown"}
        BY <1>2, <2>2 DEF Kind, Answered
      <4> HIDE DEF p
      <4> QED
        BY <1>2, <4>1, <4>2 DEF TrueReply
    <3>2. Replies(r) = <<p>>
      BY <2>2 DEF Replies
    <3> HIDE DEF p
    <3>3. ASSUME NEW S, NEW e \in S PROVE <<e>> \in Seq(S) /\ Len(<<e>>) = 1
      OBVIOUS
    <3> QED
      BY <3>1, <3>2, <3>3
  <2> QED
    BY <2>1, <2>2
<1>5. /\ tc \o Replies(r) \in Seq(TrueReply(rq, sv2))
      /\ Len(tc \o Replies(r)) = Len(tc) + Len(Replies(r))
  BY <1>3, <1>4, ConcatProperties
<1>6. TrueOutcomes(rq, oc, sv2)
  BY DEF ClientOk, TrueOutcomes
<1>7. sv2 \subseteq 1..MaxRequests
  BY <1>0, <1>2
<1>8. Len(ts) \in Nat /\ Len(tc) \in Nat
  BY <1>0, LenProperties
<1>9. /\ Len(Tail(ts)) + Len(tc) <= to + w
      /\ Len(Tail(ts)) + Len(tc \o Replies(r)) <= to + w
  <2> DEFINE l == Len(Replies(r))
             lt == Len(ts)
             lc == Len(tc)
  <2>1. /\ l \in {0, 1} /\ lt \in Nat /\ lc \in Nat
        /\ w \in {0, 1} /\ to \in Nat /\ lt + lc <= to + w
    BY <1>0, <1>4, <1>8
  <2>2. Len(Tail(ts)) = lt - 1 /\ Len(tc \o Replies(r)) = lc + l
    BY <1>1, <1>5
  <2> HIDE DEF l, lt, lc
  <2>3. lt - 1 + lc <= to + w /\ lt - 1 + (lc + l) <= to + w
    BY <2>1
  <2> QED
    BY <2>2, <2>3 DEF lc
<1> QED
  BY <1>1, <1>3, <1>5, <1>6, <1>7, <1>9 DEF ClientOk

(* The client takes the reply it waits for.                                *)
LEMMA AcceptOk ==
  ASSUME NEW rq, NEW oc, NEW ts, NEW tc, NEW sv, NEW to,
         ClientOk(rq, oc, 1, ts, tc, sv, to), tc # <<>>,
         Head(tc).correl_id = Len(rq)
  PROVE  ClientOk(rq, Append(oc, Head(tc).body), 0, ts, Tail(tc), sv, to)
<1> DEFINE p == Head(tc)
           oc2 == Append(oc, p.body)
<1>0. /\ rq \in Seq(Kind) /\ oc \in Seq(Outcome)
      /\ ts \in Seq(SentRequest(rq)) /\ tc \in Seq(TrueReply(rq, sv))
      /\ Len(rq) \in Nat /\ Len(oc) \in Nat /\ Len(ts) \in Nat
      /\ Len(tc) \in Nat /\ to \in Nat
      /\ Len(oc) + 1 = Len(rq) /\ Len(ts) + Len(tc) <= to + 1
  BY LenProperties DEF ClientOk
<1>1. /\ p \in TrueReply(rq, sv) /\ Tail(tc) \in Seq(TrueReply(rq, sv))
      /\ Len(Tail(tc)) = Len(tc) - 1
  BY <1>0, HeadTailProperties
<1>2. /\ p.body \in Outcome /\ p.body \in {"result", "empty"}
      /\ p.correl_id \in sv
      /\ p.body = "result" => rq[p.correl_id] = "handled"
      /\ p.body = "empty" => rq[p.correl_id] \in {"throws", "unknown"}
  BY <1>1 DEF TrueReply, Response, Outcome
<1>3. /\ oc2 \in Seq(Outcome) /\ Len(oc2) = Len(oc) + 1
      /\ \A n \in 1..Len(oc) : oc2[n] = oc[n]
      /\ oc2[Len(oc) + 1] = p.body
  BY <1>0, <1>2, AppendProperties
<1>4. TrueOutcomes(rq, oc2, sv)
  <2> SUFFICES ASSUME NEW n \in 1..Len(oc2)
               PROVE  /\ oc2[n] \in {"result", "empty"} => n \in sv
                      /\ oc2[n] = "result" => rq[n] = "handled"
                      /\ oc2[n] = "empty" => rq[n] \in {"throws", "unknown"}
    BY DEF TrueOutcomes
  <2>1. CASE n <= Len(oc)
    BY <1>0, <1>3, <2>1 DEF ClientOk, TrueOutcomes
  <2>2. CASE n = Len(oc) + 1
    BY <1>0, <1>2, <1>3, <2>2
  <2> QED
    BY <1>0, <1>3, <2>1, <2>2
<1> QED
  BY <1>0, <1>1, <1>3, <1>4 DEF ClientOk

(* The request at hand ends without a reply of its own: a timeout, or a    *)
(* reply to another request is taken from the socket.                      *)
LEMMA NoAnswerOk ==
  ASSUME NEW rq, NEW oc, NEW ts, NEW tc, NEW sv, NEW to,
         ClientOk(rq, oc, 1, ts, tc, sv, to)
  PROVE  /\ ClientOk(rq, Append(oc, "timeout"), 0, ts, tc, sv, to + 1)
         /\ tc # <<>> =>
              ClientOk(rq, Append(oc, "mismatch"), 0, ts, Tail(tc), sv, to)
<1>0. /\ oc \in Seq(Outcome)
      /\ ts \in Seq(SentRequest(rq)) /\ tc \in Seq(TrueReply(rq, sv))
      /\ Len(rq) \in Nat /\ Len(oc) \in Nat /\ Len(ts) \in Nat
      /\ Len(tc) \in Nat /\ to \in Nat
      /\ Len(oc) + 1 = Len(rq) /\ Len(ts) + Len(tc) <= to + 1
  BY LenProperties DEF ClientOk
<1>1. ASSUME NEW o \in {"timeout", "mismatch"}
      PROVE  /\ Append(oc, o) \in Seq(Outcome)
             /\ Len(Append(oc, o)) = Len(oc) + 1
             /\ TrueOutcomes(rq, Append(oc, o), sv)
  <2>1. /\ Append(oc, o) \in Seq(Outcome)
        /\ Len(Append(oc, o)) = Len(oc) + 1
        /\ \A n \in 1..Len(oc) : Append(oc, o)[n] = oc[n]
        /\ Append(oc, o)[Len(oc) + 1] = o
    BY <1>0, AppendProperties DEF Outcome
  <2>2. ASSUME NEW n \in 1..(Len(oc) + 1)
        PROVE  n \in 1..Len(oc) \/ n = Len(oc) + 1
    BY <1>0
  <2> QED
    BY <2>1, <2>2 DEF ClientOk, TrueOutcomes
<1>2. ClientOk(rq, Append(oc, "timeout"), 0, ts, tc, sv, to + 1)
  BY <1>0, <1>1 DEF ClientOk
<1>3. ASSUME tc # <<>>
      PROVE  ClientOk(rq, Append(oc, "mismatch"), 0, ts, Tail(tc), sv, to)
  <2>1. /\ Tail(tc) \in Seq(TrueReply(rq, sv))
        /\ Len(Tail(tc)) = Len(tc) - 1
    BY <1>0, <1>3, HeadTailProperties
  <2> QED
    BY <1>0, <1>1, <2>1 DEF ClientOk
<1> QED
  BY <1>2, <1>3

(* Messages at the end of a queue are lost.                                *)
LEMMA LossOk ==
  ASSUME NEW rq, NEW oc, NEW w, NEW ts, NEW tc, NEW sv, NEW to,
         ClientOk(rq, oc, w, ts, tc, sv, to),
         NEW i \in 1..(Len(ts) + 1), NEW j \in 0..Len(ts),
         NEW m \in 0..Len(tc)
  PROVE  ClientOk(rq, oc, w, SubSeq(ts, i, j), SubSeq(tc, 1, m), sv, to)
<1>0. /\ ts \in Seq(SentRequest(rq)) /\ tc \in Seq(TrueReply(rq, sv))
      /\ Len(ts) \in Nat /\ Len(tc) \in Nat /\ to \in Nat /\ w \in {0, 1}
      /\ Len(ts) + Len(tc) <= to + w
  BY LenProperties DEF ClientOk
<1>1. 1 \in 1..(Len(tc) + 1)
  BY <1>0
<1>2. /\ SubSeq(ts, i, j) \in Seq(SentRequest(rq))
      /\ Len(SubSeq(ts, i, j)) \in 0..Len(ts)
      /\ SubSeq(tc, 1, m) \in Seq(TrueReply(rq, sv))
      /\ Len(SubSeq(tc, 1, m)) \in 0..Len(tc)
  BY <1>0, <1>1, Part
<1>3. Len(SubSeq(ts, i, j)) + Len(SubSeq(tc, 1, m)) <= to + w
  BY <1>0, <1>2
<1> QED
  BY <1>2, <1>3 DEF ClientOk

(* The client closes its socket.                                           *)
LEMMA CloseOk ==
  ASSUME NEW rq, NEW oc, NEW w, NEW ts, NEW tc, NEW sv, NEW to,
         ClientOk(rq, oc, w, ts, tc, sv, to), NEW n \in 0..Len(ts)
  PROVE  ClientOk(rq, oc, w, SubSeq(ts, 1, n), <<>>, sv, to)
<1>1. /\ 0 \in 0..Len(tc) /\ 1 \in 1..(Len(ts) + 1)
      /\ SubSeq(tc, 1, 0) = <<>>
  BY LenProperties, SubSeqEmpty DEF ClientOk
<1>2. ClientOk(rq, oc, w, SubSeq(ts, 1, n), SubSeq(tc, 1, 0), sv, to)
  BY <1>1, LossOk
<1> QED
  BY <1>1, <1>2

-----------------------------------------------------------------------------
(* What TypeOK says of the values of one client follows from ClientOk.     *)
LEMMA ClientTypes ==
  ASSUME NEW rq, NEW oc, NEW w, NEW ts, NEW tc, NEW sv, NEW to,
         ClientOk(rq, oc, w, ts, tc, sv, to)
  PROVE  /\ rq \in Seq(Kind) /\ oc \in Seq(Outcome)
         /\ ts \in Seq(Envelope) /\ tc \in Seq(Response)
         /\ sv \in SUBSET (1..MaxRequests) /\ to \in Nat
<1>1. /\ SentRequest(rq) \subseteq Envelope
      /\ TrueReply(rq, sv) \subseteq Response
  BY DEF SentRequest, TrueReply
<1> QED
  BY <1>1, SeqMonotonic DEF ClientOk

(* The functions keep their domain.                                        *)
IsClientFunction(f) == f = [c \in Client |-> f[c]]

Functions ==
  /\ IsClientFunction(requests) /\ IsClientFunction(outcomes)
  /\ IsClientFunction(toServer) /\ IsClientFunction(toClient)
  /\ IsClientFunction(served) /\ IsClientFunction(timeouts)
  /\ waiting \subseteq Client /\ open \subseteq Client /\ crashes \in Nat

(* TypeOK is the sum of the two.                                           *)
LEMMA TypeFromParts ==
  Functions /\ (\A c \in Client : ClientInv(c)) => TypeOK
<1> SUFFICES ASSUME Functions, \A c \in Client : ClientInv(c)
             PROVE  TypeOK
  OBVIOUS
<1>1. \A c \in Client :
        /\ requests[c] \in Seq(Kind) /\ outcomes[c] \in Seq(Outcome)
        /\ toServer[c] \in Seq(Envelope) /\ toClient[c] \in Seq(Response)
        /\ served[c] \in SUBSET (1..MaxRequests) /\ timeouts[c] \in Nat
  BY ClientTypes DEF ClientInv
<1> QED
  BY <1>1 DEF Functions, IsClientFunction, TypeOK, Outcome

LEMMA InitInv == Init => IInv
<1> SUFFICES ASSUME Init PROVE IInv
  OBVIOUS
<1>1. ASSUME NEW c \in Client PROVE ClientInv(c)
  <2>1. /\ requests[c] = <<>> /\ outcomes[c] = <<>> /\ AtHand(c) = 0
        /\ toServer[c] = <<>> /\ toClient[c] = <<>>
        /\ served[c] = {} /\ timeouts[c] = 0
    BY <1>1 DEF Init, AtHand
  <2>2. ClientOk(<<>>, <<>>, 0, <<>>, <<>>, {}, 0)
    BY BoundsAssumption, EmptySeq DEF ClientOk, TrueOutcomes
  <2> QED
    BY <2>1, <2>2 DEF ClientInv
<1>2. Functions
  BY DEF Init, Functions, IsClientFunction
<1> QED
  BY <1>1, <1>2, TypeFromParts DEF IInv

(* A step of client c leaves the values of the others alone.               *)
LEMMA OthersKept ==
  ASSUME NEW c \in Client, NEW d \in Client, d # c, ClientInv(d),
         requests'[d] = requests[d], outcomes'[d] = outcomes[d],
         (d \in waiting') <=> (d \in waiting),
         toServer'[d] = toServer[d], toClient'[d] = toClient[d],
         served'[d] = served[d], timeouts'[d] = timeouts[d]
  PROVE  ClientInv(d)'
<1>1. AtHand(d)' = AtHand(d)
  BY DEF AtHand
<1> QED
  BY <1>1 DEF ClientInv

(* TypeFromParts for the next state.                                       *)
LEMMA TypeFromPartsPrimed ==
  ASSUME Functions', \A c \in Client : ClientInv(c)'
  PROVE  IInv'
<1>1. (Functions /\ (\A c \in Client : ClientInv(c)) => TypeOK)'
  BY TypeFromParts, PTL
<1> QED
  BY <1>1 DEF IInv

(* Every step keeps what is known of every client.                         *)
LEMMA StepInv == IInv /\ [Next]_vars => IInv'
<1> SUFFICES ASSUME IInv, [Next]_vars PROVE IInv'
  OBVIOUS
<1> USE DEF IInv
<1>1. ASSUME NEW c \in Client, Send(c) PROVE IInv'
  <2>1. PICK k \in Kind :
          /\ requests'[c] = Append(requests[c], k)
          /\ toServer'[c] = Append(toServer[c],
                [msg_id |-> Len(requests[c]) + 1, kind |-> k])
    BY <1>1 DEF Send, MsgId, TypeOK
  <2>2. /\ outcomes'[c] = outcomes[c] /\ toClient'[c] = toClient[c]
        /\ served'[c] = served[c] /\ timeouts'[c] = timeouts[c]
        /\ AtHand(c) = 0 /\ AtHand(c)' = 1
        /\ Len(requests[c]) < MaxRequests
    BY <1>1 DEF Send, AtHand
  <2>c. ClientInv(c)'
    BY <2>1, <2>2, SendOk DEF ClientInv
  <2>o. ASSUME NEW d \in Client, d # c PROVE ClientInv(d)'
    <3>1. /\ requests'[d] = requests[d] /\ outcomes'[d] = outcomes[d]
          /\ toServer'[d] = toServer[d] /\ toClient'[d] = toClient[d]
          /\ served'[d] = served[d] /\ timeouts'[d] = timeouts[d]
      BY <1>1, <2>o DEF Send, TypeOK
    <3>2. (d \in waiting') <=> (d \in waiting)
      BY <1>1, <2>o DEF Send
    <3> QED
      BY <2>o, <3>1, <3>2, OthersKept DEF IInv
  <2>f. Functions'
    BY <1>1 DEF Send, TypeOK, Functions, IsClientFunction
  <2> QED
    BY <2>c, <2>o, <2>f, TypeFromPartsPrimed
<1>2. ASSUME NEW c \in Client, Serve(c) PROVE IInv'
  <2>1. /\ toServer[c] # <<>> /\ toServer'[c] = Tail(toServer[c])
        /\ toClient'[c] = IF c \in open
             THEN toClient[c] \o Replies(Head(toServer[c])) ELSE toClient[c]
        /\ served'[c] = served[c] \cup {Head(toServer[c]).msg_id}
    BY <1>2 DEF Serve, TypeOK
  <2>2. /\ requests'[c] = requests[c] /\ outcomes'[c] = outcomes[c]
        /\ timeouts'[c] = timeouts[c] /\ AtHand(c)' = AtHand(c)
    BY <1>2 DEF Serve, AtHand
  <2>c. ClientInv(c)'
    <3>1. CASE c \in open
      <4>1. toClient'[c] = toClient[c] \o Replies(Head(toServer[c]))
        BY <2>1, <3>1
      <4>2. ClientOk(requests[c], outcomes[c], AtHand(c), Tail(toServer[c]),
                     toClient[c] \o Replies(Head(toServer[c])),
                     served[c] \cup {Head(toServer[c]).msg_id}, timeouts[c])
        BY <2>1, ServeOk DEF ClientInv
      <4> QED
        BY <2>1, <2>2, <4>1, <4>2 DEF ClientInv
    <3>2. CASE c \notin open
      <4>1. toClient'[c] = toClient[c]
        BY <2>1, <3>2
      <4> QED
        BY <2>1, <2>2, <4>1, ServeOk DEF ClientInv
    <3> QED
      BY <3>1, <3>2
  <2>o. ASSUME NEW d \in Client, d # c PROVE ClientInv(d)'
    <3>1. /\ requests'[d] = requests[d] /\ outcomes'[d] = outcomes[d]
          /\ toServer'[d] = toServer[d] /\ toClient'[d] = toClient[d]
          /\ served'[d] = served[d] /\ timeouts'[d] = timeouts[d]
      BY <1>2, <2>o DEF Serve, TypeOK
    <3>2. (d \in waiting') <=> (d \in waiting)
      BY <1>2, <2>o DEF Serve
    <3> QED
      BY <2>o, <3>1, <3>2, OthersKept DEF IInv
  <2>f. Functions'
    BY <1>2 DEF Serve, TypeOK, Functions, IsClientFunction
  <2> QED
    BY <2>c, <2>o, <2>f, TypeFromPartsPrimed
<1>3. ASSUME NEW c \in Client, Accept(c) PROVE IInv'
  <2>1. /\ toClient[c] # <<>> /\ toClient'[c] = Tail(toClient[c])
        /\ Head(toClient[c]).correl_id = Len(requests[c])
        /\ outcomes'[c] = Append(outcomes[c], Head(toClient[c]).body)
    BY <1>3 DEF Accept, End, Matches, MsgId, TypeOK
  <2>2. /\ requests'[c] = requests[c] /\ toServer'[c] = toServer[c]
        /\ served'[c] = served[c] /\ timeouts'[c] = timeouts[c]
        /\ AtHand(c) = 1 /\ AtHand(c)' = 0
    BY <1>3 DEF Accept, End, AtHand
  <2>c. ClientInv(c)'
    BY <2>1, <2>2, AcceptOk DEF ClientInv
  <2>o. ASSUME NEW d \in Client, d # c PROVE ClientInv(d)'
    <3>1. /\ requests'[d] = requests[d] /\ outcomes'[d] = outcomes[d]
          /\ toServer'[d] = toServer[d] /\ toClient'[d] = toClient[d]
          /\ served'[d] = served[d] /\ timeouts'[d] = timeouts[d]
      BY <1>3, <2>o DEF Accept, End, TypeOK
    <3>2. (d \in waiting') <=> (d \in waiting)
      BY <1>3, <2>o DEF Accept, End
    <3> QED
      BY <2>o, <3>1, <3>2, OthersKept DEF IInv
  <2>f. Functions'
    BY <1>3 DEF Accept, End, TypeOK, Functions, IsClientFunction
  <2> QED
    BY <2>c, <2>o, <2>f, TypeFromPartsPrimed
<1>4. ASSUME NEW c \in Client, RefuseAndKeep(c) PROVE IInv'
  <2>1. /\ toClient[c] # <<>> /\ toClient'[c] = Tail(toClient[c])
        /\ outcomes'[c] = Append(outcomes[c], "mismatch")
    BY <1>4 DEF RefuseAndKeep, End, TypeOK
  <2>2. /\ requests'[c] = requests[c] /\ toServer'[c] = toServer[c]
        /\ served'[c] = served[c] /\ timeouts'[c] = timeouts[c]
        /\ AtHand(c) = 1 /\ AtHand(c)' = 0
    BY <1>4 DEF RefuseAndKeep, End, AtHand
  <2>c. ClientInv(c)'
    BY <2>1, <2>2, NoAnswerOk DEF ClientInv
  <2>o. ASSUME NEW d \in Client, d # c PROVE ClientInv(d)'
    <3>1. /\ requests'[d] = requests[d] /\ outcomes'[d] = outcomes[d]
          /\ toServer'[d] = toServer[d] /\ toClient'[d] = toClient[d]
          /\ served'[d] = served[d] /\ timeouts'[d] = timeouts[d]
      BY <1>4, <2>o DEF RefuseAndKeep, End, TypeOK
    <3>2. (d \in waiting') <=> (d \in waiting)
      BY <1>4, <2>o DEF RefuseAndKeep, End
    <3> QED
      BY <2>o, <3>1, <3>2, OthersKept DEF IInv
  <2>f. Functions'
    <3>1. /\ IsClientFunction(requests') /\ IsClientFunction(outcomes')
          /\ IsClientFunction(toServer') /\ IsClientFunction(toClient')
          /\ IsClientFunction(served') /\ IsClientFunction(timeouts')
      BY <1>4 DEF RefuseAndKeep, End, TypeOK, IsClientFunction
    <3>2. /\ waiting' \subseteq Client
          /\ open' \subseteq Client
          /\ crashes' \in Nat
      BY <1>4 DEF RefuseAndKeep, End, TypeOK
    <3> QED
      BY <3>1, <3>2 DEF Functions, IsClientFunction
  <2> QED
    BY <2>c, <2>o, <2>f, TypeFromPartsPrimed
<1>5. ASSUME NEW c \in Client, RefuseAndClose(c) PROVE IInv'
  <2>1. /\ toClient[c] # <<>> /\ toClient'[c] = <<>>
        /\ outcomes'[c] = Append(outcomes[c], "mismatch")
    BY <1>5 DEF RefuseAndClose, End, Close, TypeOK
  <2>2. PICK n \in 0..Len(toServer[c]) :
          toServer'[c] = SubSeq(toServer[c], 1, n)
    BY <1>5 DEF RefuseAndClose, Close, TypeOK
  <2>3. /\ requests'[c] = requests[c]
        /\ served'[c] = served[c] /\ timeouts'[c] = timeouts[c]
        /\ AtHand(c) = 1 /\ AtHand(c)' = 0
    BY <1>5 DEF RefuseAndClose, End, AtHand
  <2>4. ClientOk(requests[c], outcomes'[c], 0, toServer[c],
                 Tail(toClient[c]), served[c], timeouts[c])
    BY <2>1, <2>3, NoAnswerOk DEF ClientInv
  <2>5. ClientOk(requests[c], outcomes'[c], 0, SubSeq(toServer[c], 1, n),
                 <<>>, served[c], timeouts[c])
    BY <2>4, CloseOk
  <2>c. ClientInv(c)'
    BY <2>1, <2>2, <2>3, <2>5 DEF ClientInv
  <2>o. ASSUME NEW d \in Client, d # c PROVE ClientInv(d)'
    <3>1. /\ requests'[d] = requests[d] /\ outcomes'[d] = outcomes[d]
          /\ toServer'[d] = toServer[d] /\ toClient'[d] = toClient[d]
          /\ served'[d] = served[d] /\ timeouts'[d] = timeouts[d]
      BY <1>5, <2>o DEF RefuseAndClose, End, Close, TypeOK
    <3>2. (d \in waiting') <=> (d \in waiting)
      BY <1>5, <2>o DEF RefuseAndClose, End, Close
    <3> QED
      BY <2>o, <3>1, <3>2, OthersKept DEF IInv
  <2>f. Functions'
    <3>1. /\ IsClientFunction(requests') /\ IsClientFunction(outcomes')
          /\ IsClientFunction(toServer') /\ IsClientFunction(toClient')
          /\ IsClientFunction(served') /\ IsClientFunction(timeouts')
      BY <1>5 DEF RefuseAndClose, End, Close, TypeOK, IsClientFunction
    <3>2. /\ waiting' \subseteq Client
          /\ open' \subseteq Client
          /\ crashes' \in Nat
      BY <1>5 DEF RefuseAndClose, End, Close, TypeOK
    <3> QED
      BY <3>1, <3>2 DEF Functions, IsClientFunction
  <2> QED
    BY <2>c, <2>o, <2>f, TypeFromPartsPrimed
<1>6. ASSUME NEW c \in Client, Timeout(c) PROVE IInv'
  <2>1. /\ outcomes'[c] = Append(outcomes[c], "timeout")
        /\ timeouts'[c] = timeouts[c] + 1
    BY <1>6 DEF Timeout, End, TypeOK
  <2>2. /\ requests'[c] = requests[c] /\ served'[c] = served[c]
        /\ AtHand(c) = 1 /\ AtHand(c)' = 0
    BY <1>6 DEF Timeout, End, AtHand
  <2>3. ClientOk(requests[c], outcomes'[c], 0, toServer[c],
                 toClient[c], served[c], timeouts'[c])
    BY <2>1, <2>2, NoAnswerOk DEF ClientInv
  <2>c. ClientInv(c)'
    <3>1. CASE c \in Reopeners
      <4>1. PICK n \in 0..Len(toServer[c]) :
              toServer'[c] = SubSeq(toServer[c], 1, n)
        BY <1>6, <3>1 DEF Timeout, Close, TypeOK
      <4>2. toClient'[c] = <<>>
        BY <1>6, <3>1 DEF Timeout, Close, TypeOK
      <4>3. ClientOk(requests[c], outcomes'[c], 0, SubSeq(toServer[c], 1, n),
                     <<>>, served[c], timeouts'[c])
        BY <2>3, CloseOk
      <4> QED
        BY <2>2, <4>1, <4>2, <4>3 DEF ClientInv
    <3>2. CASE c \notin Reopeners
      BY <1>6, <3>2, <2>2, <2>3 DEF Timeout, ClientInv
    <3> QED
      BY <3>1, <3>2
  <2>o. ASSUME NEW d \in Client, d # c PROVE ClientInv(d)'
    <3>1. /\ requests'[d] = requests[d] /\ outcomes'[d] = outcomes[d]
          /\ toServer'[d] = toServer[d] /\ toClient'[d] = toClient[d]
          /\ served'[d] = served[d] /\ timeouts'[d] = timeouts[d]
      BY <1>6, <2>o DEF Timeout, End, Close, TypeOK
    <3>2. (d \in waiting') <=> (d \in waiting)
      BY <1>6, <2>o DEF Timeout, End, Close
    <3> QED
      BY <2>o, <3>1, <3>2, OthersKept DEF IInv
  <2>f. Functions'
    BY <1>6 DEF Timeout, End, Close, TypeOK, Functions, IsClientFunction
  <2> QED
    BY <2>c, <2>o, <2>f, TypeFromPartsPrimed
<1>7. ASSUME Crash PROVE IInv'
  <2>1. PICK n, k \in [Client -> 0..MaxRequests] :
          /\ \A c \in Client : /\ n[c] <= Len(toClient[c])
                              /\ k[c] <= Len(toServer[c])
          /\ toClient' = [c \in Client |-> SubSeq(toClient[c], 1, n[c])]
          /\ toServer' = [c \in Client |->
               SubSeq(toServer[c], k[c] + 1, Len(toServer[c]))]
    BY <1>7 DEF Crash
  <2>2. ASSUME NEW c \in Client PROVE ClientInv(c)'
    <3>1. /\ requests'[c] = requests[c] /\ outcomes'[c] = outcomes[c]
          /\ served'[c] = served[c] /\ timeouts'[c] = timeouts[c]
          /\ AtHand(c)' = AtHand(c)
          /\ toServer'[c] =
               SubSeq(toServer[c], k[c] + 1, Len(toServer[c]))
          /\ toClient'[c] = SubSeq(toClient[c], 1, n[c])
      BY <1>7, <2>1 DEF Crash, AtHand
    <3>2. /\ n[c] \in 0..Len(toClient[c])
          /\ k[c] + 1 \in 1..(Len(toServer[c]) + 1)
          /\ Len(toServer[c]) \in 0..Len(toServer[c])
      BY <2>1, LenProperties, BoundsAssumption DEF TypeOK
    <3>3. ClientOk(requests[c], outcomes[c], AtHand(c),
                   SubSeq(toServer[c], k[c] + 1, Len(toServer[c])),
                   SubSeq(toClient[c], 1, n[c]), served[c], timeouts[c])
      BY <3>2, LossOk DEF ClientInv
    <3> QED
      BY <3>1, <3>3 DEF ClientInv
  <2>3. IsClientFunction(toServer)' /\ IsClientFunction(toClient)'
    BY <2>1, Zenon DEF IsClientFunction
  <2>4. Functions'
    <3>1. /\ UNCHANGED <<requests, outcomes, waiting, open, served, timeouts>>
          /\ crashes' = crashes + 1
      BY <1>7 DEF Crash
    <3> QED
      BY <2>3, <3>1 DEF TypeOK, Functions, IsClientFunction
  <2> QED
    BY <2>2, <2>4, TypeFromPartsPrimed
<1>8. ASSUME UNCHANGED vars PROVE IInv'
  BY <1>8 DEF vars, TypeOK, ClientInv, AtHand
<1> QED
  BY <1>1, <1>2, <1>3, <1>4, <1>5, <1>6, <1>7, <1>8 DEF Next, Receive

(* Envelopes, replies and outcomes keep their types, the message ids their *)
(* range.                                                                  *)
THEOREM RouterTypeCorrect == Spec => []TypeOK
<1>1. IInv => TypeOK
  BY DEF IInv
<1> QED
  BY InitInv, StepInv, <1>1, PTL DEF Spec

(* A client never takes the reply to another of its requests for the one   *)
(* it waits for, and what it takes tells how the server dealt with it.     *)
THEOREM OutcomesTrue == Spec => []OutcomesAreTrue
<1>1. IInv => OutcomesAreTrue
  BY DEF IInv, ClientInv, ClientOk, TrueOutcomes, OutcomesAreTrue
<1> QED
  BY InitInv, StepInv, <1>1, PTL DEF Spec

(* A client has at most one message on the way for its request at hand and *)
(* one for each of its timeouts.                                           *)
THEOREM BacklogBounded == Spec => []BacklogIsBounded
<1>1. IInv => BacklogIsBounded
  BY DEF IInv, ClientInv, ClientOk, AtHand, BacklogIsBounded
<1> QED
  BY InitInv, StepInv, <1>1, PTL DEF Spec

(***************************************************************************)
(*                        The scripts                                      *)
(***************************************************************************)
(* The types that ScriptsTypeOK leaves open.                               *)
Op == {"info", "read", "readAll", "write", "writeAll", "set", "configure",
       "align", "sample"}
Check == {"type", "correl", "payload", "success"}
Reaction == {"raise", "record", "skip", "reopen"}
Exit == {"running", "zero", "one", "error"}
StepType == [op : Op, t : Target, checks : SUBSET Check,
             bad : Reaction, late : Reaction]
ProcessType ==
  [script : Script, n : Nat, pos : Nat, waiting : BOOLEAN,
   got : [Target -> Seq(Value)], all : Seq(Value), failures : BOOLEAN,
   ok : BOOLEAN, plot : BOOLEAN, exit : Exit]
Request == [script : Script, id : Nat \X Nat, op : Op, t : Target, arg : Value]
Answer == [ok : BOOLEAN, vals : Seq(Value), empty : BOOLEAN]
Message == [id : Nat \X Nat, op : Op, t : Target, reply : Answer]

Types ==
  /\ proc \in ProcessType /\ proc.n <= MaxRuns
  /\ pipe \in Seq(Request) /\ socket \in Seq(Message)
  /\ reg \in [Target -> Value] /\ held \in [Target -> SUBSET Value]
  /\ curves \in [t : 0..MaxPoints, bias : [Target -> Seq(Value)]]

(* A step whose correlation is checked does not pass over a bad reply      *)
(* without a note of it; what is read is checked to be one's own, and what *)
(* is plotted to be a sample that was taken.                               *)
Careful(step) ==
  /\ "correl" \in step.checks => {step.bad, step.late} \subseteq {"raise", "record"}
  /\ step.op \in {"read", "readAll"} => "correl" \in step.checks
  /\ step.op = "sample" => {"type", "success"} \subseteq step.checks
CarefulStep == {step \in StepType : Careful(step)}

(* Where a process may be.                                                 *)
PlaceInv ==
  /\ proc.pos \in 1..(Len(Program[proc.script]) + 1)
  /\ proc.waiting => Running /\ ~AtEnd
  /\ proc.n > 0 /\ proc.exit \in {"zero", "one"} =>
       AtEnd \/ proc.script = "monitor"

(* A message of process n, which runs script s, is about the step that its *)
(* id names.                                                               *)
OfStep(m, n, s) ==
  /\ m.id[1] <= n
  /\ m.id[1] = n => /\ m.id[2] \in DOMAIN Program[s]
                    /\ m.op = Program[s][m.id[2]].op
                    /\ m.t = Program[s][m.id[2]].t

(* A request on its way; h are the values held since process n started.    *)
RequestOk(r, n, s, h) ==
  /\ OfStep(r, n, s)
  /\ r.id[1] = n => r.script = s
  /\ r.id[1] = n /\ r.op = "write" => r.arg \in h[r.t] \cup {0}
  /\ r.id[1] = n /\ r.op = "writeAll" => \A t \in Target : r.arg \in h[t]

(* Values of all AFEs, each held since process n started.                  *)
AllHeld(vals, h) ==
  Len(vals) = Afes /\ \A i \in 1..Afes : vals[i] \in h[i - 1]

(* A reply in the socket: its values were held since process n started,    *)
(* though it may be the reply to an earlier one.                           *)
ReplyOk(m, n, s, h, done) ==
  /\ OfStep(m, n, s)
  /\ m.id[1] = n => m.id[2] \in done
  /\ ~m.reply.ok => m.reply.vals = <<>>
  /\ m.reply.ok /\ m.op \in {"read", "sample"} =>
       Len(m.reply.vals) = 1 /\ m.reply.vals[1] \in h[m.t]
  /\ m.reply.ok /\ m.op = "readAll" => AllHeld(m.reply.vals, h)

(* What a process has read.                                                *)
ReadOk(p, h) ==
  /\ \A t \in Target : p.got[t] # <<>> =>
       Len(p.got[t]) = 1 /\ p.got[t][1] \in h[t] \cup {0}
  /\ p.all # <<>> => AllHeld(p.all, h)

(* The steps before pos that check their correlation are handled.          *)
Through(pos, s, done) ==
  \A p \in 1..(pos - 1) : "correl" \in Program[s][p].checks =>
    p \in done \/ Program[s][p].op \in {"write", "writeAll"}

HandledInv ==
  proc.n > 0 /\ proc.exit # "error" /\ ~proc.failures =>
    Through(proc.pos, proc.script, handled)

(* The curves of the monitor.                                              *)
CurveOk(curve, values) ==
  Len(curve) <= MaxPoints /\ \A i \in 1..Len(curve) : curve[i] \in values

MessagesInv ==
  /\ \A i \in 1..Len(pipe) : RequestOk(pipe[i], proc.n, proc.script, held)
  /\ \A i \in 1..Len(socket) :
       ReplyOk(socket[i], proc.n, proc.script, held, handled)

ScriptsInv ==
  /\ Types /\ PlaceInv /\ MessagesInv /\ ReadOk(proc, held) /\ HandledInv
  /\ \A t \in Target : CurveOk(curves.bias[t], held[t])

-----------------------------------------------------------------------------
(* The programs.                                                           *)

LEMMA TargetFacts == 0 \in Target /\ Target \subseteq Nat /\ Afes \in Nat \ {0}
BY ScriptsAssumption DEF Target

LEMMA ForAfesCareful ==
  ASSUME NEW op \in Op, NEW checks \in SUBSET Check,
         NEW bad \in Reaction, NEW late \in Reaction,
         \A t \in Target : Careful(Step(op, t, checks, bad, late))
  PROVE ForAfes(op, checks, bad, late) \in Seq(CarefulStep)
<1>1. \A i \in 1..Afes : Step(op, i - 1, checks, bad, late) \in CarefulStep
  <2>1. SUFFICES ASSUME NEW i \in 1..Afes
                 PROVE Step(op, i - 1, checks, bad, late) \in CarefulStep
    OBVIOUS
  <2>2. i - 1 \in Target
    BY TargetFacts DEF Target
  <2>3. Step(op, i - 1, checks, bad, late) \in StepType
    BY <2>2 DEF Step, StepType
  <2> QED BY <2>2, <2>3 DEF CarefulStep
<1>2. Afes \in Nat
  BY TargetFacts
<1> HIDE DEF CarefulStep
<1> QED BY <1>1, <1>2 DEF ForAfes

(* Every step of every program is careful.                                 *)
LEMMA ProgramFacts ==
  /\ \A s \in Script : Program[s] \in Seq(CarefulStep)
  /\ {"info", "monitor"} \subseteq Script
  /\ \A p \in DOMAIN Program["monitor"] :
       "correl" \notin Program["monitor"][p].checks
<1>1. /\ SmokeChecks \in Seq(CarefulStep) /\ SmokeForced \in Seq(CarefulStep)
      /\ SmokeIntrusive \in Seq(CarefulStep)
  <2>1. /\ Step("info", 0, {"correl"}, "record", "record") \in CarefulStep
        /\ Step("set", 0, {"correl"}, "raise", "raise") \in CarefulStep
        /\ Step("configure", 0, {"correl"}, "record", "record") \in CarefulStep
    BY TargetFacts DEF Step, StepType, CarefulStep, Careful, Op, Check, Reaction
  <2> QED BY <2>1 DEF SmokeChecks, SmokeForced, SmokeIntrusive
<1>2. SmokeReads \in Seq(CarefulStep)
  <2>1. Step("readAll", 0, {"correl"}, "record", "record") \in CarefulStep
    BY TargetFacts DEF Step, StepType, CarefulStep, Careful, Op, Check, Reaction
  <2>2. ForAfes("read", {"correl"}, "record", "record") \in Seq(CarefulStep)
    BY ForAfesCareful DEF Step, Careful, Op, Check, Reaction
  <2> QED BY <2>1, <2>2, ConcatProperties DEF SmokeReads
<1>3. SmokeWrites \in Seq(CarefulStep)
  <2>1. Step("writeAll", 0, {"correl"}, "record", "record") \in CarefulStep
    BY TargetFacts DEF Step, StepType, CarefulStep, Careful, Op, Check, Reaction
  <2>2. ForAfes("write", {"correl"}, "record", "record") \in Seq(CarefulStep)
    BY ForAfesCareful DEF Step, Careful, Op, Check, Reaction
  <2> QED BY <2>1, <2>2, ConcatProperties DEF SmokeWrites
<1>4. /\ ConfigureStep \in CarefulStep /\ AlignStep \in CarefulStep
      /\ send_configure_request \in CarefulStep /\ OnceStep \in CarefulStep
      /\ InfoStep \in CarefulStep /\ TestRegStep \in CarefulStep
  BY TargetFacts DEF ConfigureStep, AlignStep, send_configure_request, OnceStep,
     InfoStep, TestRegStep, Step, StepType, CarefulStep, Careful, Op, Check, Reaction
<1>5. BiasSteps \in Seq(CarefulStep)
  BY ForAfesCareful DEF BiasSteps, Step, Careful, Op, Check, Reaction
<1>6. SnapshotSteps \in Seq(CarefulStep)
  <2>1. Step("readAll", 0, {"type", "correl", "payload"}, "raise", "raise") \in CarefulStep
    BY TargetFacts DEF Step, StepType, CarefulStep, Careful, Op, Check, Reaction
  <2>2. ForAfes("read", {"type", "correl", "payload"}, "raise", "raise")
          \in Seq(CarefulStep)
    BY ForAfesCareful DEF Step, Careful, Op, Check, Reaction
  <2> QED BY <2>1, <2>2, ConcatProperties DEF SnapshotSteps
<1>7. ThresholdSteps \in Seq(CarefulStep) /\ SlowcontrolSteps \in Seq(CarefulStep)
  <2>1. /\ Step("configure", 0, {"type", "correl", "payload"}, "raise", "raise") \in CarefulStep
        /\ Step("info", 0, {"type", "correl", "payload"}, "raise", "raise") \in CarefulStep
        /\ Step("info", 0, {"correl"}, "raise", "raise") \in CarefulStep
        /\ Step("align", 0, {"correl"}, "raise", "raise") \in CarefulStep
        /\ Step("configure", 0, {"correl"}, "raise", "raise") \in CarefulStep
    BY TargetFacts DEF Step, StepType, CarefulStep, Careful, Op, Check, Reaction
  <2> QED BY <2>1 DEF ThresholdSteps, SlowcontrolSteps
<1>8. DaphneSteps \in Seq(CarefulStep)
  <2>1. Step("align", 0, {"correl"}, "raise", "raise") \in CarefulStep
    BY TargetFacts DEF Step, StepType, CarefulStep, Careful, Op, Check, Reaction
  <2>2. ForAfes("set", {"correl"}, "raise", "raise") \in Seq(CarefulStep)
    BY ForAfesCareful DEF Step, Careful, Op, Check, Reaction
  <2> QED BY <2>1, <2>2, ConcatProperties DEF DaphneSteps
<1>9. AfeFunctionSteps \in Seq(CarefulStep) /\ MonitorSteps \in Seq(CarefulStep)
  BY ForAfesCareful DEF AfeFunctionSteps, MonitorSteps, Step, Careful, Op, Check, Reaction
<1>10. ProbeSteps \in Seq(CarefulStep)
  <2>1. /\ Step("info", 0, {}, "skip", "reopen") \in CarefulStep
        /\ Step("info", 0, {}, "skip", "skip") \in CarefulStep
    BY TargetFacts DEF Step, StepType, CarefulStep, Careful, Op, Check, Reaction
  <2> QED BY <2>1 DEF ProbeSteps
<1>11. \A s \in Script : Program[s] \in Seq(CarefulStep)
  <2> HIDE DEF CarefulStep
  <2>1. SmokeChecks \o SmokeReads \o SmokeIntrusive \in Seq(CarefulStep)
    BY <1>1, <1>2, ConcatProperties
  <2>2. SmokeReads \o SmokeWrites \o SmokeForced \in Seq(CarefulStep)
    BY <1>1, <1>2, <1>3, ConcatProperties
  <2>3. /\ <<ConfigureStep, AlignStep>> \in Seq(CarefulStep)
        /\ <<ConfigureStep>> \in Seq(CarefulStep) /\ <<AlignStep>> \in Seq(CarefulStep)
        /\ <<send_configure_request>> \in Seq(CarefulStep)
        /\ <<OnceStep>> \in Seq(CarefulStep) /\ <<InfoStep>> \in Seq(CarefulStep)
        /\ <<TestRegStep>> \in Seq(CarefulStep)
    BY <1>4
  <2>4. <<ConfigureStep>> \o BiasSteps \o <<AlignStep>> \in Seq(CarefulStep)
    BY <2>3, <1>5, ConcatProperties
  <2>5. Script = {"smoke", "writeback", "configure", "bias", "seed", "snapshot",
                  "threshold", "slowcontrol", "daphne", "afeFunction", "probe",
                  "once", "info", "testreg", "monitor"}
    BY Zenon DEF Script, Program
  <2>6. /\ Program["smoke"] = SmokeChecks \o SmokeReads \o SmokeIntrusive
        /\ Program["writeback"] = SmokeReads \o SmokeWrites \o SmokeForced
        /\ Program["bias"] = <<ConfigureStep>> \o BiasSteps \o <<AlignStep>>
    BY DEF Program
  <2>7. /\ Program["configure"] = <<ConfigureStep, AlignStep>>
        /\ Program["seed"] = <<send_configure_request>>
        /\ Program["once"] = <<OnceStep>> /\ Program["info"] = <<InfoStep>>
        /\ Program["testreg"] = <<TestRegStep>>
    BY DEF Program
  <2>8. /\ Program["snapshot"] = SnapshotSteps /\ Program["threshold"] = ThresholdSteps
        /\ Program["slowcontrol"] = SlowcontrolSteps /\ Program["daphne"] = DaphneSteps
        /\ Program["afeFunction"] = AfeFunctionSteps /\ Program["probe"] = ProbeSteps
        /\ Program["monitor"] = MonitorSteps
    BY DEF Program
  <2>9. /\ Program["smoke"] \in Seq(CarefulStep)
        /\ Program["writeback"] \in Seq(CarefulStep)
        /\ Program["bias"] \in Seq(CarefulStep)
    BY <2>1, <2>2, <2>4, <2>6, Zenon
  <2>10. /\ Program["configure"] \in Seq(CarefulStep)
         /\ Program["seed"] \in Seq(CarefulStep)
         /\ Program["once"] \in Seq(CarefulStep)
         /\ Program["info"] \in Seq(CarefulStep)
         /\ Program["testreg"] \in Seq(CarefulStep)
    BY <2>3, <2>7, Zenon
  <2>11. /\ Program["snapshot"] \in Seq(CarefulStep)
         /\ Program["threshold"] \in Seq(CarefulStep)
         /\ Program["slowcontrol"] \in Seq(CarefulStep)
         /\ Program["daphne"] \in Seq(CarefulStep)
         /\ Program["afeFunction"] \in Seq(CarefulStep)
         /\ Program["probe"] \in Seq(CarefulStep)
         /\ Program["monitor"] \in Seq(CarefulStep)
    BY <2>8, <1>6, <1>7, <1>8, <1>9, <1>10, Zenon
  <2> QED BY <2>5, <2>9, <2>10, <2>11
<1>12. {"info", "monitor"} \subseteq Script
  BY DEF Script, Program
<1>13. Program["monitor"] = MonitorSteps
  BY DEF Program
<1>14. \A p \in DOMAIN MonitorSteps : "correl" \notin MonitorSteps[p].checks
  BY DEF MonitorSteps, ForAfes, Step
<1> QED BY <1>11, <1>12, <1>13, <1>14

-----------------------------------------------------------------------------
(* What messages and readings keep when more values have been held.        *)

Grows(h, g) == \A t \in Target : h[t] \subseteq g[t]

LEMMA AllHeldGrows ==
  ASSUME NEW h, NEW g, Grows(h, g), NEW vals, AllHeld(vals, h)
  PROVE AllHeld(vals, g)
<1>1. \A i \in 1..Afes : i - 1 \in Target
  BY TargetFacts DEF Target
<1> QED BY <1>1 DEF AllHeld, Grows

LEMMA RequestGrows ==
  ASSUME NEW h, NEW g, Grows(h, g), NEW r \in Request, NEW n, NEW s,
         RequestOk(r, n, s, h)
  PROVE RequestOk(r, n, s, g)
<1>1. r.t \in Target
  BY DEF Request
<1> QED BY <1>1 DEF RequestOk, Grows

LEMMA ReplyGrows ==
  ASSUME NEW h, NEW g, Grows(h, g), NEW m \in Message, NEW n, NEW s,
         NEW done, NEW more, done \subseteq more, ReplyOk(m, n, s, h, done)
  PROVE ReplyOk(m, n, s, g, more)
<1>1. m.t \in Target
  BY DEF Message
<1>2. m.reply.ok /\ m.op = "readAll" => AllHeld(m.reply.vals, g)
  BY AllHeldGrows DEF ReplyOk
<1> QED BY <1>1, <1>2 DEF ReplyOk, Grows

LEMMA ReadGrows ==
  ASSUME NEW h, NEW g, Grows(h, g), NEW p, ReadOk(p, h)
  PROVE ReadOk(p, g)
<1>1. p.all # <<>> => AllHeld(p.all, g)
  BY AllHeldGrows DEF ReadOk
<1> QED BY <1>1 DEF ReadOk, Grows

LEMMA CurveGrows ==
  ASSUME NEW h, NEW g, Grows(h, g), NEW c,
         \A t \in Target : CurveOk(c[t], h[t])
  PROVE \A t \in Target : CurveOk(c[t], g[t])
BY DEF CurveOk, Grows

(* A handler: what it leaves in the registers and answers.                 *)
LEMMA OutcomeFacts ==
  ASSUME reg \in [Target -> Value], NEW r \in Request, NEW o \in Outcomes(r)
  PROVE /\ o.reg \in [Target -> Value]
        /\ o.reply \in Answer
        /\ ~o.reply.ok => o.reply.vals = <<>>
        /\ o.reply.ok /\ r.op \in {"read", "sample"} =>
             Len(o.reply.vals) = 1 /\ o.reply.vals[1] = o.reg[r.t]
        /\ o.reply.ok /\ r.op = "readAll" =>
             Len(o.reply.vals) = Afes
             /\ \A i \in 1..Afes : o.reply.vals[i] = o.reg[i - 1]
<1> DEFINE Reply(ok, vals, empty) == [ok |-> ok, vals |-> vals, empty |-> empty]
           Bad == {Reply(FALSE, <<>>, FALSE), Reply(FALSE, <<>>, TRUE)}
           Good(vals) == Reply(TRUE, vals, FALSE)
           First(n) == [t \in Target |-> IF t < n THEN r.arg ELSE reg[t]]
           All == [i \in 1..Afes |-> reg[i - 1]]
           Same(replies) == {[reg |-> reg, reply |-> x] : x \in replies}
<1>1. r.arg \in Value /\ r.t \in Target /\ reg[r.t] \in Value /\ r.op \in Op
  BY DEF Request
<1>2. \A x \in Bad : x \in Answer /\ ~x.ok /\ x.vals = <<>>
  <2>1. <<>> \in Seq(Value)
    OBVIOUS
  <2>2. \A e \in BOOLEAN : /\ Reply(FALSE, <<>>, e) \in Answer
                           /\ ~Reply(FALSE, <<>>, e).ok
                           /\ Reply(FALSE, <<>>, e).vals = <<>>
    BY <2>1, Zenon DEF Answer
  <2> HIDE DEF Reply
  <2> QED BY <2>2
<1>3. \A n : First(n) \in [Target -> Value]
  BY <1>1
<1>4. [reg EXCEPT ![r.t] = r.arg] \in [Target -> Value]
  BY <1>1
<1>5. All \in Seq(Value) /\ Len(All) = Afes /\ \A i \in 1..Afes : All[i] = reg[i - 1]
  <2>1. \A i \in 1..Afes : i - 1 \in Target
    BY TargetFacts DEF Target
  <2>2. \A i \in 1..Afes : reg[i - 1] \in Value
    BY <2>1
  <2> QED BY <2>2, TargetFacts
<1>6. \A vals \in Seq(Value) :
        Good(vals) \in Answer /\ Good(vals).ok /\ Good(vals).vals = vals
  BY DEF Answer
<1>7. <<reg[r.t]>> \in Seq(Value) /\ Len(<<reg[r.t]>>) = 1 /\ <<reg[r.t]>>[1] = reg[r.t]
  BY <1>1
<1>8. <<>> \in Seq(Value)
  OBVIOUS
<1>9. CASE r.op \in {"read", "sample"}
  <2>1. o \in Same(Bad \cup {Good(<<reg[r.t]>>)})
    BY <1>9 DEF Outcomes
  <2>2. PICK x \in Bad \cup {Good(<<reg[r.t]>>)} : o = [reg |-> reg, reply |-> x]
    BY <2>1
  <2>3. o.reg = reg /\ o.reply = x
    BY <2>2
  <2>4. CASE x \in Bad
    BY <2>3, <2>4, <1>2, <1>9
  <2>5. CASE x = Good(<<reg[r.t]>>)
    <3>1. x \in Answer /\ x.ok /\ x.vals = <<reg[r.t]>>
      BY <2>5, <1>6, <1>7
    <3> QED BY <3>1, <2>3, <1>7, <1>9
  <2> QED BY <2>4, <2>5
<1>10. CASE r.op = "readAll"
  <2>1. o \in Same(Bad \cup {Good(All)})
    BY <1>10 DEF Outcomes
  <2> HIDE DEF All
  <2>2. PICK x \in Bad \cup {Good(All)} : o = [reg |-> reg, reply |-> x]
    BY <2>1
  <2>3. o.reg = reg /\ o.reply = x
    BY <2>2
  <2>4. CASE x \in Bad
    BY <2>3, <2>4, <1>2, <1>10
  <2>5. CASE x = Good(All)
    <3>1. x \in Answer /\ x.ok /\ x.vals = All
      BY <2>5, <1>6, <1>5
    <3> QED BY <3>1, <2>3, <1>5, <1>10
  <2> QED BY <2>4, <2>5
<1>11. CASE r.op \in {"write", "set"}
  <2>1. o \in Same(Bad) \cup {[reg |-> [reg EXCEPT ![r.t] = r.arg], reply |-> Good(<<>>)]}
    BY <1>11 DEF Outcomes
  <2>2. CASE o \in Same(Bad)
    <3>1. PICK x \in Bad : o = [reg |-> reg, reply |-> x]
      BY <2>2
    <3>2. o.reg = reg /\ o.reply = x
      BY <3>1
    <3> QED BY <3>2, <1>2, <1>11
  <2>3. CASE o = [reg |-> [reg EXCEPT ![r.t] = r.arg], reply |-> Good(<<>>)]
    BY <2>3, <1>4, <1>6, <1>8, <1>11
  <2> QED BY <2>1, <2>2, <2>3
<1>12. CASE r.op \in {"writeAll", "configure"}
  <2>1. o \in {[reg |-> First(n), reply |-> x] : n \in Target, x \in Bad}
                \cup {[reg |-> First(Afes), reply |-> Good(<<>>)]}
    BY <1>12 DEF Outcomes
  <2> HIDE DEF First
  <2>2. CASE o \in {[reg |-> First(n), reply |-> x] : n \in Target, x \in Bad}
    <3>1. PICK n \in Target, x \in Bad : o = [reg |-> First(n), reply |-> x]
      BY <2>2
    <3>2. o.reg = First(n) /\ o.reply = x
      BY <3>1
    <3> QED BY <3>2, <1>2, <1>3, <1>12
  <2>3. CASE o = [reg |-> First(Afes), reply |-> Good(<<>>)]
    BY <2>3, <1>3, <1>6, <1>8, <1>12
  <2> QED BY <2>1, <2>2, <2>3
<1>13. CASE r.op \in {"info", "align"}
  <2>1. o \in Same(Bad \cup {Good(<<>>)})
    BY <1>13 DEF Outcomes
  <2>2. PICK x \in Bad \cup {Good(<<>>)} : o = [reg |-> reg, reply |-> x]
    BY <2>1
  <2>3. o.reg = reg /\ o.reply = x
    BY <2>2
  <2>4. CASE x \in Bad
    BY <2>3, <2>4, <1>2, <1>13
  <2>5. CASE x = Good(<<>>)
    <3>1. x \in Answer /\ x.ok /\ x.vals = <<>>
      BY <2>5, <1>6, <1>8
    <3> QED BY <3>1, <2>3, <1>13
  <2> QED BY <2>2, <2>4, <2>5
<1> QED BY <1>1, <1>9, <1>10, <1>11, <1>12, <1>13 DEF Op

(* The step a process is at.                                               *)
LEMMA NowFacts ==
  ASSUME Types, PlaceInv, ~AtEnd
  PROVE /\ proc.pos \in DOMAIN Program[proc.script]
        /\ Now \in CarefulStep /\ Now = Program[proc.script][proc.pos]
        /\ proc.pos + 1 \in 1..(Len(Program[proc.script]) + 1)
<1>1. proc.script \in Script
  BY DEF Types, ProcessType
<1>2. Program[proc.script] \in Seq(CarefulStep)
  BY <1>1, ProgramFacts
<1> HIDE DEF CarefulStep
<1> QED BY <1>2 DEF PlaceInv, AtEnd, Now

-----------------------------------------------------------------------------
LEMMA NewProcess ==
  ASSUME NEW s \in Script, NEW n \in Nat, NEW plot \in BOOLEAN
  PROVE Process(s, n, plot) \in ProcessType
<1> DEFINE unread == [t \in Target |-> <<>>]
<1>1. unread \in [Target -> Seq(Value)] /\ <<>> \in Seq(Value) /\ 1 \in Nat
  OBVIOUS
<1> HIDE DEF unread
<1>2. [script |-> s, n |-> n, pos |-> 1, waiting |-> FALSE,
       got |-> unread, all |-> <<>>, failures |-> FALSE,
       ok |-> FALSE, plot |-> plot, exit |-> "running"] \in ProcessType
  BY <1>1 DEF ProcessType, Exit
<1> QED BY <1>2 DEF Process, unread

(* The initial state.                                                      *)
LEMMA ScriptsInitInv == ScriptsOff => ScriptsInv
<1> SUFFICES ASSUME ScriptsOff PROVE ScriptsInv
  OBVIOUS
<1> USE DEF ScriptsOff
<1>1. /\ proc.script = "info" /\ proc.n = 0 /\ proc.pos = 1 /\ proc.waiting = FALSE
      /\ proc.got = [t \in Target |-> <<>>] /\ proc.all = <<>> /\ proc.exit = "zero"
  BY DEF NoProcess, Process
<1>2. proc \in ProcessType
  <2>1. Process("info", 0, FALSE) \in ProcessType
    BY NewProcess, ProgramFacts
  <2> QED BY <2>1 DEF NoProcess, ProcessType, Exit
<1>3. reg \in [Target -> Value]
  <2>1. \A t \in Target : t % 2 \in 0..1
    BY TargetFacts
  <2>2. \A t \in Target : 1 + (t % 2) \in Value
    BY <2>1 DEF Value
  <2> QED BY <2>2
<1>4. curves \in [t : 0..MaxPoints, bias : [Target -> Seq(Value)]]
      /\ \A t \in Target : curves.bias[t] = <<>>
  <2>1. 0 \in 0..MaxPoints
    BY ScriptsAssumption
  <2> QED BY <2>1 DEF NoCurves
<1>5. held \in [Target -> SUBSET Value]
  OBVIOUS
<1>6. pipe \in Seq(Request) /\ socket \in Seq(Message) /\ Len(pipe) = 0 /\ Len(socket) = 0
  OBVIOUS
<1>7. Types
  BY <1>1, <1>2, <1>3, <1>4, <1>5, <1>6, ScriptsAssumption DEF Types
<1>8. PlaceInv
  <2>1. Program["info"] \in Seq(CarefulStep)
    BY ProgramFacts
  <2>2. Len(Program["info"]) \in Nat
    BY <2>1
  <2> QED BY <2>2, <1>1 DEF PlaceInv
<1>9. MessagesInv
  BY <1>6 DEF MessagesInv
<1>10. ReadOk(proc, held)
  BY <1>1 DEF ReadOk
<1>11. HandledInv
  BY <1>1 DEF HandledInv
<1>12. \A t \in Target : CurveOk(curves.bias[t], held[t])
  BY <1>4, ScriptsAssumption DEF CurveOk
<1> QED BY <1>7, <1>8, <1>9, <1>10, <1>11, <1>12 DEF ScriptsInv

(* A new process: what is on its way is of earlier ones.                   *)
LEMMA StartStep ==
  ASSUME ScriptsInv, NEW s \in Script, NEW plot \in BOOLEAN, StartProcess(s, plot)
  PROVE ScriptsInv'
<1> USE DEF StartProcess
<1>1. /\ proc'.script = s /\ proc'.n = proc.n + 1 /\ proc'.pos = 1
      /\ proc'.waiting = FALSE /\ proc'.got = [t \in Target |-> <<>>]
      /\ proc'.all = <<>> /\ proc'.exit = "running"
  BY DEF Process
<1>2. proc.n \in Nat /\ proc.n + 1 \in Nat /\ proc.n + 1 <= MaxRuns
  BY ScriptsAssumption DEF ScriptsInv, Types, ProcessType
<1>3. proc' \in ProcessType
  BY <1>2, NewProcess
<1>4. curves' \in [t : 0..MaxPoints, bias : [Target -> Seq(Value)]]
      /\ \A t \in Target : curves'.bias[t] = <<>>
  <2>1. 0 \in 0..MaxPoints
    BY ScriptsAssumption
  <2> QED BY <2>1 DEF NoCurves
<1>5. reg \in [Target -> Value] /\ held' \in [Target -> SUBSET Value]
  BY DEF ScriptsInv, Types
<1>6. pipe \in Seq(Request) /\ pipe' = pipe /\ socket' \in Seq(Message) /\ Len(socket') = 0
  BY DEF ScriptsInv, Types
<1>7. Types'
  BY <1>1, <1>2, <1>3, <1>4, <1>5, <1>6 DEF Types
<1>8. PlaceInv'
  <2>1. Program[s] \in Seq(CarefulStep)
    BY ProgramFacts
  <2>2. Len(Program[s]) \in Nat
    BY <2>1
  <2> QED BY <2>2, <1>1 DEF PlaceInv
<1>9. MessagesInv'
  <2>1. \A i \in 1..Len(pipe) : pipe[i] \in Request /\ pipe[i].id[1] <= proc.n
    BY <1>6 DEF ScriptsInv, MessagesInv, RequestOk, OfStep
  <2>2. \A i \in 1..Len(pipe) : pipe[i].id[1] \in Nat
    BY <2>1 DEF Request
  <2>3. \A i \in 1..Len(pipe) : pipe[i].id[1] <= proc.n + 1 /\ pipe[i].id[1] # proc.n + 1
    BY <2>1, <2>2, <1>2
  <2>4. \A i \in 1..Len(pipe) : RequestOk(pipe[i], proc.n + 1, s, held')
    BY <2>3 DEF RequestOk, OfStep
  <2> QED BY <2>4, <1>1, <1>6 DEF MessagesInv
<1>10. ReadOk(proc', held')
  BY <1>1 DEF ReadOk
<1>11. HandledInv'
  BY <1>1 DEF HandledInv, Through
<1>12. \A t \in Target : CurveOk(curves'.bias[t], held'[t])
  BY <1>4, ScriptsAssumption DEF CurveOk
<1> QED BY <1>7, <1>8, <1>9, <1>10, <1>11, <1>12 DEF ScriptsInv

(* A write-back that is left out.                                          *)
LEMMA SkipStepInv == ASSUME ScriptsInv, SkipStep PROVE ScriptsInv'
<1> USE DEF SkipStep
<1>0. Types /\ PlaceInv /\ proc \in ProcessType
  BY DEF ScriptsInv, Types
<1>1. /\ Now = Program[proc.script][proc.pos]
      /\ proc.pos + 1 \in 1..(Len(Program[proc.script]) + 1)
  BY <1>0, NowFacts
<1>2. /\ proc' \in ProcessType /\ proc'.pos = proc.pos + 1 /\ proc'.waiting = proc.waiting
      /\ proc'.script = proc.script /\ proc'.n = proc.n /\ proc'.got = proc.got
      /\ proc'.all = proc.all /\ proc'.exit = proc.exit /\ proc'.failures = proc.failures
  BY <1>0 DEF ProcessType
<1>3. Types'
  BY <1>0, <1>2 DEF Types
<1>4. PlaceInv'
  BY <1>0, <1>1, <1>2 DEF PlaceInv, Running, AtEnd
<1>5. MessagesInv'
  BY <1>2 DEF ScriptsInv, MessagesInv
<1>6. ReadOk(proc', held')
  BY <1>2 DEF ScriptsInv, ReadOk
<1>7. HandledInv'
  <2>1. Now.op \in {"write", "writeAll"}
    BY DEF Skipped
  <2>2. proc.pos \in Nat /\ proc.pos >= 1
    BY <1>0 DEF PlaceInv
  <2>3. Through(proc.pos, proc.script, handled) =>
          Through(proc.pos + 1, proc.script, handled)
    BY <2>1, <2>2, <1>1 DEF Through
  <2> QED BY <2>3, <1>2 DEF HandledInv, ScriptsInv
<1> QED BY <1>3, <1>4, <1>5, <1>6, <1>7 DEF ScriptsInv

(* A request is sent.                                                      *)
LEMMA SendStepInv == ASSUME ScriptsInv, SendStep PROVE ScriptsInv'
<1> USE DEF SendStep
<1>0. Types /\ PlaceInv /\ proc \in ProcessType
  BY DEF ScriptsInv, Types
<1>1. /\ proc.pos \in DOMAIN Program[proc.script] /\ proc.pos \in Nat
      /\ Now = Program[proc.script][proc.pos] /\ Now.op \in Op /\ Now.t \in Target
  <2>1. Now \in StepType
    BY <1>0, NowFacts DEF CarefulStep
  <2> QED BY <2>1, <1>0, NowFacts DEF StepType, ProcessType
<1>2. /\ proc' \in ProcessType /\ proc'.pos = proc.pos /\ proc'.waiting = TRUE
      /\ proc'.script = proc.script /\ proc'.n = proc.n /\ proc'.got = proc.got
      /\ proc'.all = proc.all /\ proc'.exit = proc.exit /\ proc'.failures = proc.failures
  BY <1>0 DEF ProcessType
<1>3. /\ proc.script \in Script /\ proc.n \in Nat /\ proc.all \in Seq(Value)
      /\ \A t \in Target : proc.got[t] \in Seq(Value)
  BY <1>0 DEF ProcessType
<1> DEFINE r == [script |-> proc.script, id |-> <<proc.n, proc.pos>>,
                 op |-> Now.op, t |-> Now.t, arg |-> Argument(Now)]
<1>4. Now.op = "write" => Argument(Now) \in Value
                          /\ Argument(Now) \in held[Now.t] \cup {0}
  <2> SUFFICES ASSUME Now.op = "write"
               PROVE Argument(Now) \in Value /\ Argument(Now) \in held[Now.t] \cup {0}
    OBVIOUS
  <2>1. proc.got[Now.t] # <<>> /\ proc.got[Now.t] \in Seq(Value)
    BY <1>1, <1>3 DEF Skipped
  <2>2. Len(proc.got[Now.t]) = 1 /\ proc.got[Now.t][1] \in held[Now.t] \cup {0}
    BY <2>1, <1>1 DEF ScriptsInv, ReadOk
  <2>3. Argument(Now) = proc.got[Now.t][1]
    BY DEF Argument
  <2>4. proc.got[Now.t][1] \in Value
    BY <2>1, <2>2
  <2> QED BY <2>2, <2>3, <2>4
<1>5. Now.op = "writeAll" => Argument(Now) \in Value
                             /\ \A t \in Target : Argument(Now) \in held[t]
  <2> SUFFICES ASSUME Now.op = "writeAll"
               PROVE Argument(Now) \in Value /\ \A t \in Target : Argument(Now) \in held[t]
    OBVIOUS
  <2>1. proc.all # <<>> /\ \A i \in DOMAIN proc.all : proc.all[i] = proc.all[1]
    BY DEF Skipped, Uniform
  <2>2. Len(proc.all) = Afes /\ \A i \in 1..Afes : proc.all[i] \in held[i - 1]
    BY <2>1 DEF ScriptsInv, ReadOk, AllHeld
  <2>3. Argument(Now) = proc.all[1]
    BY DEF Argument
  <2>4. Argument(Now) \in Value
    BY <2>1, <2>3, <1>3
  <2>5. DOMAIN proc.all = 1..Afes
    BY <2>2, <1>3
  <2>6. ASSUME NEW t \in Target PROVE Argument(Now) \in held[t]
    <3>1. t + 1 \in 1..Afes /\ (t + 1) - 1 = t
      BY TargetFacts DEF Target
    <3>2. proc.all[t + 1] = proc.all[1] /\ proc.all[t + 1] \in held[(t + 1) - 1]
      BY <3>1, <2>1, <2>2, <2>5
    <3> QED BY <3>1, <3>2, <2>3
  <2> QED BY <2>4, <2>6
<1>6. Argument(Now) \in Value
  <2>1. CASE Now.op \notin {"write", "writeAll"}
    BY <2>1 DEF Argument, Value
  <2> QED BY <2>1, <1>4, <1>5
<1>7. r \in Request
  BY <1>1, <1>3, <1>6 DEF Request
<1>8. RequestOk(r, proc.n, proc.script, held)
  <2>1. r.id[1] = proc.n /\ r.id[2] = proc.pos /\ r.op = Now.op /\ r.t = Now.t
        /\ r.script = proc.script /\ r.arg = Argument(Now)
    OBVIOUS
  <2> HIDE DEF r
  <2> QED BY <2>1, <1>1, <1>3, <1>4, <1>5 DEF RequestOk, OfStep
<1>9. pipe' = Append(pipe, r)
  OBVIOUS
<1> HIDE DEF r
<1>10. /\ pipe \in Seq(Request) /\ pipe' \in Seq(Request) /\ Len(pipe') = Len(pipe) + 1
       /\ \A i \in 1..Len(pipe) : pipe'[i] = pipe[i]
       /\ pipe'[Len(pipe) + 1] = r
  BY <1>0, <1>7, <1>9 DEF Types
<1>11. Types'
  BY <1>0, <1>2, <1>10 DEF Types
<1>12. PlaceInv'
  BY <1>0, <1>2 DEF PlaceInv, Running, AtEnd
<1>13. MessagesInv'
  <2>1. \A i \in 1..Len(pipe) : RequestOk(pipe[i], proc.n, proc.script, held)
    BY DEF ScriptsInv, MessagesInv
  <2>2. \A i \in 1..(Len(pipe) + 1) : RequestOk(pipe'[i], proc.n, proc.script, held)
    <3>1. ASSUME NEW i \in 1..(Len(pipe) + 1)
          PROVE RequestOk(pipe'[i], proc.n, proc.script, held)
      <4>1. i = Len(pipe) + 1 \/ i \in 1..Len(pipe)
        BY <1>10
      <4> QED BY <4>1, <2>1, <1>8, <1>10
    <3> QED BY <3>1
  <2>3. \A i \in 1..Len(socket) :
          ReplyOk(socket[i], proc.n, proc.script, held, handled)
    BY DEF ScriptsInv, MessagesInv
  <2> QED BY <2>2, <2>3, <1>2, <1>10 DEF MessagesInv
<1>14. ReadOk(proc', held')
  BY <1>2 DEF ScriptsInv, ReadOk
<1>15. HandledInv'
  BY <1>2 DEF HandledInv, ScriptsInv
<1> QED BY <1>11, <1>12, <1>13, <1>14, <1>15 DEF ScriptsInv

(* The router handles a request, of this process or of an earlier one.     *)
LEMMA HandleStepInv == ASSUME ScriptsInv, HandleStep PROVE ScriptsInv'
<1> DEFINE r == Head(pipe)
<1>0. Types /\ PlaceInv /\ proc \in ProcessType
  BY DEF ScriptsInv, Types
<1>1. PICK o \in Outcomes(r) :
        /\ reg' = o.reg
        /\ held' = HeldWith(o.reg)
        /\ handled' = IF r.id[1] = proc.n THEN handled \cup {r.id[2]} ELSE handled
        /\ socket' = IF Running /\ SameIdentity(r)
                     THEN Append(socket, [id |-> r.id, op |-> r.op, t |-> r.t,
                                          reply |-> o.reply])
                     ELSE socket
  BY DEF HandleStep
<1>2. pipe # <<>> /\ pipe' = Tail(pipe) /\ UNCHANGED <<proc, curves, faults>>
  BY DEF HandleStep
<1>3. /\ r \in Request /\ r = pipe[1] /\ pipe' \in Seq(Request)
      /\ Len(pipe') = Len(pipe) - 1 /\ Len(pipe) \in Nat /\ Len(pipe) >= 1
      /\ \A i \in 1..Len(pipe') : pipe'[i] = pipe[i + 1] /\ pipe'[i] \in Request
  BY <1>0, <1>2 DEF Types
<1> HIDE DEF r
<1>4. /\ o.reg \in [Target -> Value]
      /\ o.reply \in Answer
      /\ ~o.reply.ok => o.reply.vals = <<>>
      /\ o.reply.ok /\ r.op \in {"read", "sample"} =>
           Len(o.reply.vals) = 1 /\ o.reply.vals[1] = o.reg[r.t]
      /\ o.reply.ok /\ r.op = "readAll" =>
           Len(o.reply.vals) = Afes
           /\ \A i \in 1..Afes : o.reply.vals[i] = o.reg[i - 1]
  BY <1>0, <1>3, OutcomeFacts DEF Types
<1>5. /\ held' \in [Target -> SUBSET Value] /\ Grows(held, held')
      /\ \A t \in Target : o.reg[t] \in held'[t]
  BY <1>0, <1>1, <1>4 DEF HeldWith, Types, Grows
<1>6. handled \subseteq handled'
  BY <1>1
<1> DEFINE m == [id |-> r.id, op |-> r.op, t |-> r.t, reply |-> o.reply]
<1>7. m \in Message
  BY <1>3, <1>4 DEF Request, Message
<1>8. ReplyOk(m, proc.n, proc.script, held', handled')
  <2>1. m.id = r.id /\ m.op = r.op /\ m.t = r.t /\ m.reply = o.reply
    OBVIOUS
  <2>2. OfStep(r, proc.n, proc.script)
    BY <1>3 DEF ScriptsInv, MessagesInv, RequestOk
  <2>3. r.t \in Target
    BY <1>3 DEF Request
  <2>4. \A i \in 1..Afes : i - 1 \in Target
    BY TargetFacts DEF Target
  <2> HIDE DEF m
  <2>5. OfStep(m, proc.n, proc.script)
    BY <2>1, <2>2 DEF OfStep
  <2>6. m.id[1] = proc.n => m.id[2] \in handled'
    BY <2>1, <1>1
  <2>7. ~m.reply.ok => m.reply.vals = <<>>
    BY <2>1, <1>4
  <2>8. m.reply.ok /\ m.op \in {"read", "sample"} =>
          Len(m.reply.vals) = 1 /\ m.reply.vals[1] \in held'[m.t]
    BY <2>1, <2>3, <1>4, <1>5
  <2>9. m.reply.ok /\ m.op = "readAll" => AllHeld(m.reply.vals, held')
    BY <2>1, <2>4, <1>4, <1>5 DEF AllHeld
  <2> QED BY <2>5, <2>6, <2>7, <2>8, <2>9 DEF ReplyOk
<1>9. socket' = Append(socket, m) \/ socket' = socket
  BY <1>1
<1> HIDE DEF m
<1>10. /\ socket' \in Seq(Message)
       /\ \A i \in 1..Len(socket') : ReplyOk(socket'[i], proc.n, proc.script, held', handled')
  <2>1. \A i \in 1..Len(socket) : ReplyOk(socket[i], proc.n, proc.script, held', handled')
    <3>1. ASSUME NEW i \in 1..Len(socket)
          PROVE ReplyOk(socket[i], proc.n, proc.script, held', handled')
      <4>1. socket[i] \in Message
        BY <1>0 DEF Types
      <4>2. ReplyOk(socket[i], proc.n, proc.script, held, handled)
        BY DEF ScriptsInv, MessagesInv
      <4> QED BY <4>1, <4>2, <1>5, <1>6, ReplyGrows
    <3> QED BY <3>1
  <2>2. CASE socket' = socket
    BY <2>1, <2>2, <1>0 DEF Types
  <2>3. CASE socket' = Append(socket, m)
    <3>1. /\ socket' \in Seq(Message) /\ Len(socket') = Len(socket) + 1
          /\ \A i \in 1..Len(socket) : socket'[i] = socket[i]
          /\ socket'[Len(socket) + 1] = m /\ Len(socket) \in Nat
      BY <2>3, <1>0, <1>7 DEF Types
    <3>2. ASSUME NEW i \in 1..(Len(socket) + 1)
          PROVE ReplyOk(socket'[i], proc.n, proc.script, held', handled')
      <4>1. i = Len(socket) + 1 \/ i \in 1..Len(socket)
        BY <3>1
      <4> QED BY <4>1, <3>1, <2>1, <1>8
    <3> QED BY <3>1, <3>2
  <2> QED BY <2>2, <2>3, <1>9
<1>11. \A i \in 1..Len(pipe') : RequestOk(pipe'[i], proc.n, proc.script, held')
  <2>1. ASSUME NEW i \in 1..Len(pipe')
        PROVE RequestOk(pipe'[i], proc.n, proc.script, held')
    <3>1. i + 1 \in 1..Len(pipe) /\ pipe'[i] = pipe[i + 1] /\ pipe'[i] \in Request
      BY <1>3
    <3>2. RequestOk(pipe'[i], proc.n, proc.script, held)
      BY <3>1 DEF ScriptsInv, MessagesInv
    <3> QED BY <3>1, <3>2, <1>5, RequestGrows
  <2> QED BY <2>1
<1>12. Types'
  BY <1>0, <1>1, <1>2, <1>3, <1>4, <1>5, <1>10 DEF Types
<1>13. PlaceInv'
  BY <1>0, <1>2 DEF PlaceInv, Running, AtEnd
<1>14. MessagesInv'
  BY <1>2, <1>10, <1>11 DEF MessagesInv
<1>15. ReadOk(proc', held')
  <2>1. ReadOk(proc, held')
    BY <1>5, ReadGrows DEF ScriptsInv
  <2> QED BY <2>1, <1>2
<1>16. HandledInv'
  BY <1>2, <1>6 DEF HandledInv, ScriptsInv, Through
<1>17. \A t \in Target : CurveOk(curves'.bias[t], held'[t])
  <2>1. \A t \in Target : CurveOk(curves.bias[t], held[t])
    BY DEF ScriptsInv
  <2> DEFINE b == curves.bias
  <2>2. \A t \in Target : CurveOk(b[t], held[t])
    BY <2>1
  <2> HIDE DEF b
  <2>3. \A t \in Target : CurveOk(b[t], held'[t])
    BY <2>2, <1>5, CurveGrows
  <2> QED BY <2>3, <1>2 DEF b
<1> QED BY <1>12, <1>13, <1>14, <1>15, <1>16, <1>17 DEF ScriptsInv

LEMMA RestartStepInv == ASSUME ScriptsInv, RestartRouter PROVE ScriptsInv'
<1> USE DEF RestartRouter
<1>1. pipe' \in Seq(Request) /\ Len(pipe') = 0
  OBVIOUS
<1>2. Types'
  BY <1>1 DEF ScriptsInv, Types
<1>3. PlaceInv'
  BY DEF ScriptsInv, PlaceInv, Running, AtEnd
<1>4. MessagesInv'
  BY <1>1 DEF ScriptsInv, MessagesInv
<1> QED BY <1>2, <1>3, <1>4 DEF ScriptsInv, ReadOk, HandledInv

(* Another client writes a register: its old value has still been held.    *)
LEMMA OtherStepInv ==
  ASSUME ScriptsInv, NEW u \in Target, OtherWrites(u) PROVE ScriptsInv'
<1> USE DEF OtherWrites
<1>0. Types /\ PlaceInv /\ proc \in ProcessType
  BY DEF ScriptsInv, Types
<1>1. reg' \in [Target -> Value]
  <2>1. reg[u] \in Value /\ reg[u] > 0 /\ reg \in [Target -> Value]
    BY <1>0 DEF Types
  <2>2. 3 - reg[u] \in Value
    BY <2>1 DEF Value
  <2>3. reg' = [reg EXCEPT ![u] = 3 - reg[u]]
    OBVIOUS
  <2> QED BY <2>1, <2>2, <2>3
<1>2. held' \in [Target -> SUBSET Value] /\ Grows(held, held')
  BY <1>0, <1>1 DEF HeldWith, Types, Grows
<1>3. Types'
  BY <1>0, <1>1, <1>2 DEF Types
<1>4. PlaceInv'
  BY <1>0 DEF PlaceInv, Running, AtEnd
<1>5. MessagesInv'
  <2>1. ASSUME NEW i \in 1..Len(pipe)
        PROVE RequestOk(pipe[i], proc.n, proc.script, held')
    <3>1. pipe[i] \in Request
      BY <1>0 DEF Types
    <3>2. RequestOk(pipe[i], proc.n, proc.script, held)
      BY DEF ScriptsInv, MessagesInv
    <3> QED BY <3>1, <3>2, <1>2, RequestGrows
  <2>2. ASSUME NEW i \in 1..Len(socket)
        PROVE ReplyOk(socket[i], proc.n, proc.script, held', handled)
    <3>1. socket[i] \in Message
      BY <1>0 DEF Types
    <3>2. ReplyOk(socket[i], proc.n, proc.script, held, handled)
      BY DEF ScriptsInv, MessagesInv
    <3>3. handled \subseteq handled
      OBVIOUS
    <3> QED BY <3>1, <3>2, <3>3, <1>2, ReplyGrows
  <2> QED BY <2>1, <2>2 DEF MessagesInv
<1>6. ReadOk(proc', held')
  <2>1. ReadOk(proc, held')
    BY <1>2, ReadGrows DEF ScriptsInv
  <2> QED BY <2>1
<1>7. HandledInv'
  BY DEF HandledInv, ScriptsInv
<1>8. \A t \in Target : CurveOk(curves'.bias[t], held'[t])
  <2> DEFINE b == curves.bias
  <2>1. \A t \in Target : CurveOk(b[t], held[t])
    BY DEF ScriptsInv
  <2> HIDE DEF b
  <2>2. \A t \in Target : CurveOk(b[t], held'[t])
    BY <2>1, <1>2, CurveGrows
  <2> QED BY <2>2 DEF b
<1> QED BY <1>3, <1>4, <1>5, <1>6, <1>7, <1>8 DEF ScriptsInv

-----------------------------------------------------------------------------
(* A bad reply or a timeout.                                               *)

LEMMA OnFailureFacts ==
  ASSUME proc \in ProcessType, NEW what \in Reaction, NEW q, q = OnFailure(proc, what)
  PROVE /\ q \in ProcessType /\ q.waiting = FALSE
        /\ q.script = proc.script /\ q.n = proc.n /\ q.got = proc.got /\ q.all = proc.all
        /\ what = "raise" => q.exit = "error" /\ q.pos = proc.pos
        /\ what # "raise" => q.exit = proc.exit /\ q.pos = proc.pos + 1
        /\ what # "raise" /\ ~q.failures => ~proc.failures /\ what # "record"
<1>1. CASE what = "raise"
  <2>1. q = [proc EXCEPT !.exit = "error", !.waiting = FALSE]
    BY <1>1 DEF OnFailure
  <2> QED BY <1>1, <2>1 DEF ProcessType, Exit
<1>2. CASE what # "raise"
  <2> DEFINE noted == proc.failures \/ what = "record"
  <2>1. q = [proc EXCEPT !.pos = @ + 1, !.waiting = FALSE, !.failures = noted]
    BY <1>2 DEF OnFailure
  <2>2. noted \in BOOLEAN
    OBVIOUS
  <2>3. ~noted => ~proc.failures /\ what # "record"
    OBVIOUS
  <2> HIDE DEF noted
  <2>4. /\ q \in ProcessType /\ q.waiting = FALSE /\ q.script = proc.script
        /\ q.n = proc.n /\ q.got = proc.got /\ q.all = proc.all
        /\ q.exit = proc.exit /\ q.pos = proc.pos + 1 /\ q.failures = noted
    <3>1. proc.pos + 1 \in Nat
      BY DEF ProcessType
    <3>2. q = [proc EXCEPT !.pos = proc.pos + 1, !.waiting = FALSE, !.failures = noted]
      BY <2>1
    <3>3. q \in ProcessType
      BY <3>1, <3>2, <2>2, Zenon DEF ProcessType
    <3>4. /\ q.waiting = FALSE /\ q.script = proc.script
          /\ q.n = proc.n /\ q.got = proc.got /\ q.all = proc.all
          /\ q.exit = proc.exit /\ q.pos = proc.pos + 1 /\ q.failures = noted
      BY <3>2, Zenon DEF ProcessType
    <3> QED BY <3>3, <3>4
  <2> QED BY <1>2, <2>3, <2>4
<1> QED BY <1>1, <1>2

LEMMA FailureKeeps ==
  ASSUME ScriptsInv, Running, proc.waiting, NEW what \in {Now.bad, Now.late},
         proc' = OnFailure(proc, what), handled' = handled, held' = held
  PROVE /\ proc' \in ProcessType /\ proc'.n = proc.n /\ proc'.script = proc.script
        /\ PlaceInv' /\ ReadOk(proc', held') /\ HandledInv'
<1>0. Types /\ PlaceInv /\ proc \in ProcessType /\ ~AtEnd
  BY DEF ScriptsInv, Types, PlaceInv
<1>1. /\ Now \in CarefulStep /\ Now = Program[proc.script][proc.pos]
      /\ proc.pos + 1 \in 1..(Len(Program[proc.script]) + 1)
  BY <1>0, NowFacts
<1>2. what \in Reaction /\ ("correl" \in Now.checks => what \in {"raise", "record"})
  BY <1>1 DEF CarefulStep, Careful, StepType
<1>3. /\ proc' \in ProcessType /\ proc'.waiting = FALSE
      /\ proc'.script = proc.script /\ proc'.n = proc.n
      /\ proc'.got = proc.got /\ proc'.all = proc.all
      /\ what = "raise" => proc'.exit = "error" /\ proc'.pos = proc.pos
      /\ what # "raise" => proc'.exit = proc.exit /\ proc'.pos = proc.pos + 1
      /\ what # "raise" /\ ~proc'.failures => ~proc.failures /\ what # "record"
  <2> DEFINE q == OnFailure(proc, what)
  <2>1. /\ q \in ProcessType /\ q.waiting = FALSE
        /\ q.script = proc.script /\ q.n = proc.n /\ q.got = proc.got /\ q.all = proc.all
        /\ what = "raise" => q.exit = "error" /\ q.pos = proc.pos
        /\ what # "raise" => q.exit = proc.exit /\ q.pos = proc.pos + 1
        /\ what # "raise" /\ ~q.failures => ~proc.failures /\ what # "record"
    BY <1>0, <1>2, OnFailureFacts, Zenon
  <2>2. proc' = q
    OBVIOUS
  <2> HIDE DEF q
  <2> QED BY <2>1, <2>2
<1>4. PlaceInv'
  <2>1. proc'.pos \in 1..(Len(Program[proc'.script]) + 1)
    BY <1>0, <1>1, <1>3 DEF PlaceInv
  <2>2. proc'.exit \in {"error", "running"}
    BY <1>3 DEF Running
  <2> QED BY <1>3, <2>1, <2>2 DEF PlaceInv
<1>5. ReadOk(proc', held')
  BY <1>3 DEF ScriptsInv, ReadOk
<1>6. HandledInv'
  <2> SUFFICES ASSUME proc'.n > 0, proc'.exit # "error", ~proc'.failures
               PROVE Through(proc'.pos, proc'.script, handled')
    BY DEF HandledInv
  <2>1. what # "raise" /\ what # "record" /\ ~proc.failures
        /\ proc'.pos = proc.pos + 1 /\ proc.exit # "error" /\ proc.n > 0
    BY <1>3
  <2>2. "correl" \notin Now.checks
    BY <1>2, <2>1
  <2>3. Through(proc.pos, proc.script, handled)
    BY <2>1 DEF ScriptsInv, HandledInv
  <2>4. proc.pos \in Nat /\ proc.pos >= 1
    BY <1>0 DEF PlaceInv
  <2>5. Through(proc.pos + 1, proc.script, handled)
    BY <2>2, <2>3, <2>4, <1>1 DEF Through
  <2> QED BY <2>1, <2>5, <1>3
<1> QED BY <1>3, <1>4, <1>5, <1>6

(* The rest of the socket after a reply was read.                          *)
LEMMA SocketTail ==
  ASSUME Types, socket # <<>>
  PROVE /\ Tail(socket) \in Seq(Message) /\ Head(socket) = socket[1]
        /\ Head(socket) \in Message /\ 1 \in 1..Len(socket)
        /\ \A i \in 1..Len(Tail(socket)) :
             i + 1 \in 1..Len(socket) /\ Tail(socket)[i] = socket[i + 1]
BY DEF Types

LEMMA RefuseStepInv == ASSUME ScriptsInv, RefuseReply PROVE ScriptsInv'
<1> USE DEF RefuseReply
<1>0. Types
  BY DEF ScriptsInv
<1>1. /\ proc' \in ProcessType /\ proc'.n = proc.n /\ proc'.script = proc.script
      /\ PlaceInv' /\ ReadOk(proc', held') /\ HandledInv'
  BY FailureKeeps
<1>2. Types'
  BY <1>0, <1>1, SocketTail DEF Types
<1>3. MessagesInv'
  <2>1. \A i \in 1..Len(socket') : ReplyOk(socket'[i], proc.n, proc.script, held, handled)
    BY <1>0, SocketTail DEF ScriptsInv, MessagesInv
  <2> QED BY <2>1, <1>1 DEF ScriptsInv, MessagesInv
<1> QED BY <1>1, <1>2, <1>3 DEF ScriptsInv

LEMMA TimeoutStepInv == ASSUME ScriptsInv, StepTimesOut PROVE ScriptsInv'
<1> USE DEF StepTimesOut
<1>0. Types
  BY DEF ScriptsInv
<1>1. /\ proc' \in ProcessType /\ proc'.n = proc.n /\ proc'.script = proc.script
      /\ PlaceInv' /\ ReadOk(proc', held') /\ HandledInv'
  BY FailureKeeps
<1>2. socket' = <<>> \/ socket' = socket
  OBVIOUS
<1>3. /\ socket' \in Seq(Message)
      /\ \A i \in 1..Len(socket') : ReplyOk(socket'[i], proc.n, proc.script, held, handled)
  <2>1. CASE socket' = <<>>
    <3>1. <<>> \in Seq(Message) /\ Len(<<>>) = 0
      OBVIOUS
    <3>2. socket' \in Seq(Message) /\ Len(socket') = 0
      BY <2>1, <3>1, Zenon
    <3> QED BY <3>2
  <2>2. CASE socket' = socket
    BY <2>2, <1>0 DEF ScriptsInv, MessagesInv, Types
  <2> QED BY <1>2, <2>1, <2>2
<1>4. Types'
  BY <1>0, <1>1, <1>3 DEF Types
<1>5. MessagesInv'
  BY <1>1, <1>3 DEF ScriptsInv, MessagesInv
<1> QED BY <1>1, <1>4, <1>5 DEF ScriptsInv

(* The end of a process.                                                   *)
LEMMA EndStepInv == ASSUME ScriptsInv, EndProcess \/ Interrupt PROVE ScriptsInv'
<1>0. Types /\ PlaceInv /\ proc \in ProcessType
  BY DEF ScriptsInv, Types
<1>1. /\ UNCHANGED <<pipe, socket, reg, curves, faults, held, handled>>
      /\ proc.exit = "running" /\ (AtEnd \/ proc.script = "monitor")
      /\ proc'.pos = proc.pos /\ proc'.waiting = FALSE
      /\ proc'.script = proc.script /\ proc'.n = proc.n /\ proc'.got = proc.got
      /\ proc'.all = proc.all /\ proc'.failures = proc.failures
      /\ proc'.exit \in {"zero", "one"} /\ proc' \in ProcessType
  <2>1. CASE EndProcess
    <3>1. ExitOf(proc) \in {"zero", "one"} /\ ExitOf(proc) \in Exit
      BY DEF ExitOf, Exit
    <3>2. ~proc.waiting /\ proc.waiting \in BOOLEAN
      BY <1>0, <2>1 DEF EndProcess, PlaceInv, ProcessType
    <3>3. proc' = [proc EXCEPT !.exit = ExitOf(proc)]
      BY <2>1 DEF EndProcess
    <3>4. /\ proc'.pos = proc.pos /\ proc'.waiting = proc.waiting
          /\ proc'.script = proc.script /\ proc'.n = proc.n /\ proc'.got = proc.got
          /\ proc'.all = proc.all /\ proc'.failures = proc.failures
          /\ proc'.exit = ExitOf(proc) /\ proc' \in ProcessType
      BY <3>1, <3>3, <1>0 DEF ProcessType
    <3> QED BY <2>1, <3>1, <3>2, <3>4 DEF EndProcess, Running
  <2>2. CASE Interrupt
    BY <2>2, <1>0 DEF Interrupt, Running, ProcessType, Exit
  <2> QED BY <2>1, <2>2
<1>2. Types'
  BY <1>0, <1>1 DEF Types
<1>3. PlaceInv'
  BY <1>0, <1>1 DEF PlaceInv, AtEnd
<1>4. MessagesInv'
  BY <1>1 DEF ScriptsInv, MessagesInv
<1>5. ReadOk(proc', held')
  BY <1>1 DEF ScriptsInv, ReadOk
<1>6. HandledInv'
  BY <1>1 DEF ScriptsInv, HandledInv
<1>7. \A t \in Target : CurveOk(curves'.bias[t], held'[t])
  BY <1>1 DEF ScriptsInv
<1> QED BY <1>2, <1>3, <1>4, <1>5, <1>6, <1>7 DEF ScriptsInv

(* The end of a sweep: the monitor checks no correlation.                  *)
LEMMA SweepStepInv == ASSUME ScriptsInv, EndSweep PROVE ScriptsInv'
<1> USE DEF EndSweep
<1>0. Types /\ PlaceInv /\ proc \in ProcessType
  BY DEF ScriptsInv, Types
<1>1. /\ proc'.waiting = proc.waiting
      /\ proc'.script = proc.script /\ proc'.n = proc.n /\ proc'.got = proc.got
      /\ proc'.all = proc.all /\ proc'.failures = proc.failures
      /\ \/ proc'.exit = "error" /\ proc'.pos = proc.pos
         \/ proc'.exit = proc.exit /\ proc'.pos = 1
      /\ proc' \in ProcessType
  <2>1. CASE proc' = [proc EXCEPT !.exit = "error"]
    BY <2>1, <1>0 DEF ProcessType, Exit
  <2>2. CASE proc' = [proc EXCEPT !.pos = 1]
    <3> HIDE DEF EndSweep
    <3>1. proc' \in ProcessType /\ proc'.pos = 1 /\ proc'.exit = proc.exit
      BY <2>2, <1>0 DEF ProcessType
    <3>2. /\ proc'.waiting = proc.waiting
          /\ proc'.script = proc.script /\ proc'.n = proc.n /\ proc'.got = proc.got
          /\ proc'.all = proc.all /\ proc'.failures = proc.failures
      BY <2>2, <1>0, Zenon DEF ProcessType
    <3> QED BY <3>1, <3>2
  <2> QED BY <2>1, <2>2
<1>2. /\ curves' \in [t : 0..MaxPoints, bias : [Target -> Seq(Value)]]
      /\ curves'.bias = curves.bias
  <2>1. curves \in [t : 0..MaxPoints, bias : [Target -> Seq(Value)]]
    BY <1>0 DEF Types
  <2>2. curves.t \in 0..MaxPoints
    BY <2>1
  <2>3. (IF curves.t < MaxPoints THEN curves.t + 1 ELSE curves.t) \in 0..MaxPoints
    BY <2>2, ScriptsAssumption
  <2> QED BY <2>1, <2>3
<1>3. Types'
  BY <1>0, <1>1, <1>2 DEF Types
<1>4. PlaceInv'
  <2>1. ~proc.waiting
    BY <1>0 DEF PlaceInv
  <2>2. proc'.exit \in {"error", "running"}
    BY <1>1 DEF Running
  <2>3. Program[proc.script] \in Seq(CarefulStep)
    BY <1>0, ProgramFacts DEF ProcessType
  <2>4. Len(Program[proc.script]) \in Nat
    BY <2>3
  <2>5. proc'.pos \in 1..(Len(Program[proc'.script]) + 1)
    BY <1>0, <1>1, <2>4 DEF PlaceInv
  <2> QED BY <1>1, <2>1, <2>2, <2>5 DEF PlaceInv
<1>5. MessagesInv'
  BY <1>1 DEF ScriptsInv, MessagesInv
<1>6. ReadOk(proc', held')
  BY <1>1 DEF ScriptsInv, ReadOk
<1>7. HandledInv'
  BY <1>1 DEF HandledInv, Through
<1>8. \A t \in Target : CurveOk(curves'.bias[t], held'[t])
  BY <1>2 DEF ScriptsInv
<1> QED BY <1>3, <1>4, <1>5, <1>6, <1>7, <1>8 DEF ScriptsInv

-----------------------------------------------------------------------------
(* A reply is taken.                                                       *)

(* What is kept of it.                                                     *)
LEMMA KeptFacts ==
  ASSUME proc \in ProcessType, NEW m \in Message, NEW v \in Seq(Value),
         v = m.reply.vals, Now.t \in Target
  PROVE /\ Kept(proc, m) \in ProcessType
        /\ Kept(proc, m).script = proc.script /\ Kept(proc, m).n = proc.n
        /\ Kept(proc, m).pos = proc.pos /\ Kept(proc, m).exit = proc.exit
        /\ Kept(proc, m).failures = proc.failures
        /\ Now.op = "read" =>
             /\ Kept(proc, m).got = [proc.got EXCEPT ![Now.t] =
                                       IF v = <<>> THEN <<0>> ELSE <<v[1]>>]
             /\ Kept(proc, m).all = proc.all
        /\ Now.op = "readAll" =>
             Kept(proc, m).all = v /\ Kept(proc, m).got = proc.got
        /\ Now.op \notin {"read", "readAll"} =>
             Kept(proc, m).all = proc.all /\ Kept(proc, m).got = proc.got
<1>1. m.reply.ok \in BOOLEAN
  BY DEF Message, Answer
<1>2. CASE Now.op = "read"
  <2> DEFINE x == IF v = <<>> THEN <<0>> ELSE <<v[1]>>
  <2>1. x \in Seq(Value)
    <3>1. v # <<>> => v[1] \in Value
      OBVIOUS
    <3>2. 0 \in Value
      BY DEF Value
    <3> QED BY <3>1, <3>2
  <2>2. Kept(proc, m) = [proc EXCEPT !.got[Now.t] = x]
    BY <1>2 DEF Kept
  <2> HIDE DEF x
  <2>3. proc.got \in [Target -> Seq(Value)]
    BY DEF ProcessType
  <2>4. [proc.got EXCEPT ![Now.t] = x] \in [Target -> Seq(Value)]
    BY <2>1, <2>3
  <2> DEFINE g == [proc.got EXCEPT ![Now.t] = x]
  <2>5. Kept(proc, m) = [proc EXCEPT !.got = g]
    BY <2>2
  <2>6. g \in [Target -> Seq(Value)]
    BY <2>4
  <2> HIDE DEF g
  <2>7. /\ Kept(proc, m) \in ProcessType
        /\ Kept(proc, m).script = proc.script /\ Kept(proc, m).n = proc.n
        /\ Kept(proc, m).pos = proc.pos /\ Kept(proc, m).exit = proc.exit
        /\ Kept(proc, m).failures = proc.failures
        /\ Kept(proc, m).got = g /\ Kept(proc, m).all = proc.all
    BY <2>5, <2>6, Zenon DEF ProcessType
  <2> QED BY <2>7, <1>2 DEF g, x
<1>3. CASE Now.op = "readAll"
  <2>1. Kept(proc, m) = [proc EXCEPT !.all = v]
    BY <1>3 DEF Kept
  <2>2. /\ Kept(proc, m) \in ProcessType
        /\ Kept(proc, m).script = proc.script /\ Kept(proc, m).n = proc.n
        /\ Kept(proc, m).pos = proc.pos /\ Kept(proc, m).exit = proc.exit
        /\ Kept(proc, m).failures = proc.failures
        /\ Kept(proc, m).got = proc.got /\ Kept(proc, m).all = v
    BY <2>1, Zenon DEF ProcessType
  <2> QED BY <2>2, <1>3
<1>4. CASE Now.op = "configure"
  <2>1. Kept(proc, m) = [proc EXCEPT !.ok = m.reply.ok]
    BY <1>4 DEF Kept
  <2>2. /\ Kept(proc, m) \in ProcessType
        /\ Kept(proc, m).script = proc.script /\ Kept(proc, m).n = proc.n
        /\ Kept(proc, m).pos = proc.pos /\ Kept(proc, m).exit = proc.exit
        /\ Kept(proc, m).failures = proc.failures
        /\ Kept(proc, m).got = proc.got /\ Kept(proc, m).all = proc.all
    BY <2>1, <1>1, Zenon DEF ProcessType
  <2> QED BY <2>2, <1>4
<1>5. CASE Now.op \notin {"read", "readAll", "configure"}
  <2>1. Kept(proc, m) = proc
    BY <1>5 DEF Kept
  <2> QED BY <2>1, <1>5
<1> QED BY <1>2, <1>3, <1>4, <1>5

(* A point added to a curve that keeps the last MaxPoints.                 *)
LEMMA PointFacts ==
  ASSUME NEW c \in Seq(Value), NEW h \in SUBSET Value, CurveOk(c, h), NEW v \in h
  PROVE Point(c, v) \in Seq(Value) /\ CurveOk(Point(c, v), h)
<1>0. MaxPoints \in Nat /\ MaxPoints >= 1 /\ v \in Value
  BY ScriptsAssumption
<1>1. CASE Len(c) < MaxPoints
  <2>1. Point(c, v) = Append(c, v)
    BY <1>1 DEF Point
  <2> DEFINE d == Append(c, v)
  <2>2. /\ d \in Seq(Value) /\ Len(d) = Len(c) + 1 /\ Len(c) \in Nat
        /\ d[Len(c) + 1] = v /\ \A i \in 1..Len(c) : d[i] = c[i]
    BY <1>0
  <2> HIDE DEF d
  <2>3. ASSUME NEW i \in 1..Len(d) PROVE d[i] \in h
    <3>1. i = Len(c) + 1 \/ i \in 1..Len(c)
      BY <2>2
    <3> QED BY <3>1, <2>2 DEF CurveOk
  <2>4. Len(d) <= MaxPoints
    BY <2>2, <1>0, <1>1
  <2> QED BY <2>1, <2>2, <2>3, <2>4 DEF CurveOk, d
<1>2. CASE ~(Len(c) < MaxPoints)
  <2>1. Point(c, v) = Append(Tail(c), v)
    BY <1>2 DEF Point
  <2>2. Len(c) = MaxPoints /\ c # <<>>
    BY <1>0, <1>2 DEF CurveOk
  <2> DEFINE e == Tail(c)
             d == Append(e, v)
  <2>3. /\ e \in Seq(Value) /\ Len(e) = Len(c) - 1 /\ Len(c) \in Nat
        /\ \A i \in 1..Len(e) : e[i] = c[i + 1]
    BY <2>2
  <2>4. /\ d \in Seq(Value) /\ Len(d) = Len(e) + 1
        /\ d[Len(e) + 1] = v /\ \A i \in 1..Len(e) : d[i] = e[i]
    <3> HIDE DEF e
    <3> QED BY <1>0, <2>3
  <2> HIDE DEF d, e
  <2>5. ASSUME NEW i \in 1..Len(d) PROVE d[i] \in h
    <3>1. i = Len(e) + 1 \/ i \in 1..Len(e)
      BY <2>3, <2>4, <2>2, <1>0
    <3>2. CASE i \in 1..Len(e)
      <4>1. i + 1 \in 1..Len(c)
        BY <2>3, <3>2
      <4> QED BY <4>1, <3>2, <2>3, <2>4 DEF CurveOk
    <3> QED BY <3>1, <3>2, <2>4
  <2>6. Len(d) <= MaxPoints
    BY <2>2, <2>3, <2>4, <1>0
  <2> QED BY <2>1, <2>4, <2>5, <2>6 DEF CurveOk, d, e
<1> QED BY <1>1, <1>2

LEMMA TakeStepInv == ASSUME ScriptsInv, TakeReply PROVE ScriptsInv'
<1> DEFINE m == Head(socket)
           q == Kept(proc, m)
           v == m.reply.vals
<1>0. Types /\ PlaceInv /\ proc \in ProcessType /\ ~AtEnd
  BY DEF ScriptsInv, Types, TakeReply, PlaceInv
<1>1. /\ Running /\ proc.waiting /\ socket # <<>> /\ ~Refuses(Now, m)
      /\ proc' = [q EXCEPT !.pos = @ + 1, !.waiting = FALSE]
      /\ curves' = IF Now.op = "sample" THEN Sampled(m) ELSE curves
      /\ socket' = Tail(socket)
      /\ UNCHANGED <<pipe, reg, faults, held, handled>>
  BY DEF TakeReply
<1>2. /\ Now \in CarefulStep /\ Now = Program[proc.script][proc.pos]
      /\ proc.pos \in Nat /\ proc.pos >= 1
      /\ proc.pos + 1 \in 1..(Len(Program[proc.script]) + 1)
  BY <1>0, NowFacts DEF PlaceInv
<1>3. /\ Now.t \in Target /\ Now.op \in Op
      /\ Now.op \in {"read", "readAll"} => "correl" \in Now.checks
      /\ Now.op = "sample" => "type" \in Now.checks /\ "success" \in Now.checks
  BY <1>2 DEF CarefulStep, StepType, Careful
<1>4. m \in Message /\ ReplyOk(m, proc.n, proc.script, held, handled)
  BY <1>0, <1>1, SocketTail DEF ScriptsInv, MessagesInv
<1>5. v \in Seq(Value) /\ m.t \in Target /\ m.reply \in Answer
  BY <1>4 DEF Message, Answer
<1>6. "correl" \in Now.checks =>
        m.id = <<proc.n, proc.pos>> /\ m.id[1] = proc.n /\ m.id[2] = proc.pos
  BY <1>1 DEF Refuses
<1>7. "correl" \in Now.checks => m.op = Now.op /\ m.t = Now.t /\ proc.pos \in handled
  BY <1>2, <1>4, <1>6 DEF ReplyOk, OfStep
<1>8. Now.op = "sample" => m.op = "sample" /\ m.reply.ok
  BY <1>1, <1>3 DEF Refuses
<1> HIDE DEF m
<1>9. /\ q \in ProcessType
      /\ q.script = proc.script /\ q.n = proc.n
      /\ q.pos = proc.pos /\ q.exit = proc.exit
      /\ q.failures = proc.failures
      /\ Now.op = "read" =>
           /\ q.got = [proc.got EXCEPT ![Now.t] = IF v = <<>> THEN <<0>> ELSE <<v[1]>>]
           /\ q.all = proc.all
      /\ Now.op = "readAll" => q.all = v /\ q.got = proc.got
      /\ Now.op \notin {"read", "readAll"} => q.all = proc.all /\ q.got = proc.got
  <2> HIDE DEF v
  <2>1. v = m.reply.vals
    BY DEF v
  <2> QED BY <1>0, <1>3, <1>4, <1>5, <2>1, KeptFacts
<1>10. ReadOk(q, held)
  <2>0. ReadOk(proc, held) /\ proc.got \in [Target -> Seq(Value)]
    BY <1>0 DEF ScriptsInv, ProcessType
  <2>1. CASE Now.op = "read"
    <3>1. m.op = "read" /\ m.t = Now.t
      BY <1>3, <1>7, <2>1
    <3>2. v # <<>> => v[1] \in held[Now.t]
      BY <3>1, <1>4 DEF ReplyOk
    <3>3. ASSUME NEW t \in Target, q.got[t] # <<>>
          PROVE Len(q.got[t]) = 1 /\ q.got[t][1] \in held[t] \cup {0}
      <4>1. CASE t = Now.t
        <5>1. q.got[t] = IF v = <<>> THEN <<0>> ELSE <<v[1]>>
          BY <4>1, <1>9, <2>0, <2>1
        <5> QED BY <5>1, <4>1, <3>2
      <4>2. CASE t # Now.t
        <5>1. q.got[t] = proc.got[t]
          BY <4>2, <1>9, <2>0, <2>1
        <5> QED BY <5>1, <3>3, <2>0 DEF ReadOk
      <4> QED BY <4>1, <4>2
    <3>4. q.all = proc.all
      BY <1>9, <2>1
    <3> HIDE DEF q
    <3> QED BY <3>3, <3>4, <2>0 DEF ReadOk
  <2>2. CASE Now.op = "readAll"
    <3>1. m.op = "readAll"
      BY <1>3, <1>7, <2>2
    <3>2. v # <<>> => AllHeld(v, held)
      BY <3>1, <1>4 DEF ReplyOk
    <3>3. q.all = v /\ q.got = proc.got
      BY <1>9, <2>2
    <3> HIDE DEF q, v
    <3> QED BY <3>2, <3>3, <2>0 DEF ReadOk
  <2>3. CASE Now.op \notin {"read", "readAll"}
    <3>1. q.all = proc.all /\ q.got = proc.got
      BY <1>9, <2>3
    <3> HIDE DEF q
    <3> QED BY <3>1, <2>0 DEF ReadOk
  <2> QED BY <2>1, <2>2, <2>3
<1>11. /\ proc' \in ProcessType /\ proc'.waiting = FALSE
       /\ proc'.script = proc.script /\ proc'.n = proc.n
       /\ proc'.pos = proc.pos + 1 /\ proc'.exit = proc.exit
       /\ proc'.failures = proc.failures /\ proc'.got = q.got /\ proc'.all = q.all
  <2> HIDE DEF q
  <2>1. proc' = [q EXCEPT !.pos = proc.pos + 1, !.waiting = FALSE]
    BY <1>1, <1>9
  <2>2. proc.pos + 1 \in Nat
    BY <1>2
  <2>3. proc' \in ProcessType
    BY <1>9, <2>1, <2>2, Zenon DEF ProcessType
  <2>4. /\ proc'.waiting = FALSE
        /\ proc'.script = q.script /\ proc'.n = q.n
        /\ proc'.pos = proc.pos + 1 /\ proc'.exit = q.exit
        /\ proc'.failures = q.failures /\ proc'.got = q.got /\ proc'.all = q.all
    BY <1>9, <2>1, Zenon DEF ProcessType
  <2> QED BY <2>3, <2>4, <1>9
<1> HIDE DEF q
<1>12. ReadOk(proc', held')
  BY <1>1, <1>10, <1>11 DEF ReadOk
<1>13. PlaceInv'
  <2>1. proc'.exit = "running"
    BY <1>1, <1>11 DEF Running
  <2> QED BY <2>1, <1>2, <1>11 DEF PlaceInv
<1>14. HandledInv'
  <2> SUFFICES ASSUME proc'.n > 0, proc'.exit # "error", ~proc'.failures
               PROVE Through(proc'.pos, proc'.script, handled')
    BY DEF HandledInv
  <2>1. Through(proc.pos, proc.script, handled)
    BY <1>11 DEF ScriptsInv, HandledInv
  <2>2. Through(proc.pos + 1, proc.script, handled)
    BY <2>1, <1>2, <1>7 DEF Through
  <2> QED BY <2>2, <1>1, <1>11
<1>15. /\ curves' \in [t : 0..MaxPoints, bias : [Target -> Seq(Value)]]
       /\ \A t \in Target : CurveOk(curves'.bias[t], held[t])
  <2>0. /\ curves \in [t : 0..MaxPoints, bias : [Target -> Seq(Value)]]
        /\ \A t \in Target : CurveOk(curves.bias[t], held[t])
        /\ held \in [Target -> SUBSET Value]
    BY <1>0 DEF Types, ScriptsInv
  <2>1. CASE curves' = curves
    BY <2>0, <2>1
  <2>2. CASE curves' # curves
    <3>1. Now.op = "sample" /\ curves' = [curves EXCEPT !.bias[m.t] = Point(@, v[1])]
      BY <2>2, <1>1 DEF Sampled
    <3>2. v[1] \in held[m.t]
      BY <3>1, <1>4, <1>8 DEF ReplyOk
    <3> DEFINE d == Point(curves.bias[m.t], v[1])
    <3>3. d \in Seq(Value) /\ CurveOk(d, held[m.t])
      <4>1. /\ curves.bias[m.t] \in Seq(Value) /\ CurveOk(curves.bias[m.t], held[m.t])
            /\ held[m.t] \in SUBSET Value
        BY <2>0, <1>5
      <4> QED BY <4>1, <3>2, PointFacts
    <3>4. curves' = [curves EXCEPT !.bias[m.t] = d]
      BY <3>1
    <3> HIDE DEF d
    <3>5. curves' \in [t : 0..MaxPoints, bias : [Target -> Seq(Value)]]
      BY <3>3, <3>4, <2>0, <1>5
    <3>6. \A t \in Target : curves'.bias[t] = IF t = m.t THEN d ELSE curves.bias[t]
      BY <3>4, <2>0, <1>5
    <3> QED BY <3>3, <3>5, <3>6, <2>0
  <2> QED BY <2>1, <2>2
<1>16. Types'
  <2>1. socket' \in Seq(Message)
    BY <1>0, <1>1, SocketTail
  <2> QED BY <2>1, <1>0, <1>1, <1>11, <1>15 DEF Types
<1>17. MessagesInv'
  <2>1. \A i \in 1..Len(socket') : ReplyOk(socket'[i], proc.n, proc.script, held, handled)
    BY <1>0, <1>1, SocketTail DEF ScriptsInv, MessagesInv
  <2> QED BY <2>1, <1>1, <1>11 DEF ScriptsInv, MessagesInv
<1>18. \A t \in Target : CurveOk(curves'.bias[t], held'[t])
  BY <1>1, <1>15
<1> QED BY <1>12, <1>13, <1>14, <1>16, <1>17, <1>18 DEF ScriptsInv

-----------------------------------------------------------------------------
LEMMA ScriptsInductive == ScriptsInv /\ [ScriptsNext]_scriptVars => ScriptsInv'
<1> SUFFICES ASSUME ScriptsInv, [ScriptsNext]_scriptVars PROVE ScriptsInv'
  OBVIOUS
<1>1. CASE UNCHANGED scriptVars
  BY <1>1 DEF scriptVars, ScriptsInv, Types, PlaceInv, MessagesInv, ReadOk, HandledInv,
     Running, AtEnd
<1>2. CASE ScriptsNext
  BY <1>2, StartStep, SkipStepInv, SendStepInv, TakeStepInv, RefuseStepInv,
     TimeoutStepInv, EndStepInv, SweepStepInv, HandleStepInv, RestartStepInv,
     OtherStepInv DEF ScriptsNext
<1> QED BY <1>1, <1>2

LEMMA ScriptsInvImplies == ScriptsInv => ScriptsAreTrue
<1> SUFFICES ASSUME ScriptsInv PROVE ScriptsAreTrue
  OBVIOUS
<1>0. Types /\ PlaceInv /\ proc \in ProcessType
  BY DEF ScriptsInv, Types
<1>1. ScriptsTypeOK
  <2>1. curves.t \in 0..MaxPoints
    BY <1>0 DEF Types
  <2>2. proc.script \in Script /\ proc.n \in Nat /\ proc.exit \in Exit
    BY <1>0 DEF ProcessType
  <2>3. proc.n \in 0..MaxRuns
    BY <2>2, <1>0, ScriptsAssumption DEF Types
  <2>4. \A t \in Target : Len(curves.bias[t]) <= MaxPoints
    BY DEF ScriptsInv, CurveOk
  <2> QED BY <1>0, <2>1, <2>2, <2>3, <2>4 DEF ScriptsTypeOK, Types, PlaceInv, Exit
<1>2. WriteBackIsRead
  <2>1. DOMAIN pipe = 1..Len(pipe)
    BY <1>0 DEF Types
  <2> QED BY <2>1 DEF ScriptsInv, MessagesInv, RequestOk, WriteBackIsRead
<1>3. EndIsHandled
  <2> SUFFICES ASSUME proc.n > 0, proc.exit \in {"zero", "one"}, ~proc.failures,
                      NEW p \in DOMAIN Program[proc.script],
                      "correl" \in Program[proc.script][p].checks
               PROVE p \in handled \/ Program[proc.script][p].op \in {"write", "writeAll"}
    BY DEF EndIsHandled
  <2>1. proc.script # "monitor"
    BY ProgramFacts
  <2>2. AtEnd
    BY <1>0, <2>1 DEF PlaceInv
  <2>3. Through(proc.pos, proc.script, handled)
    BY DEF ScriptsInv, HandledInv
  <2>4. Program[proc.script] \in Seq(CarefulStep)
    BY <1>0, ProgramFacts DEF ProcessType
  <2>5. p \in 1..Len(Program[proc.script]) /\ Len(Program[proc.script]) \in Nat
    BY <2>4
  <2>6. p \in 1..(proc.pos - 1)
    BY <2>2, <2>5, <1>0 DEF AtEnd, PlaceInv
  <2> QED BY <2>3, <2>6 DEF Through
<1>4. SamplesAreTrue
  <2> SUFFICES ASSUME NEW t \in Target, NEW i \in DOMAIN curves.bias[t]
               PROVE curves.bias[t][i] \in held[t]
    BY DEF SamplesAreTrue
  <2>1. curves.bias[t] \in Seq(Value)
    BY <1>0 DEF Types
  <2>2. i \in 1..Len(curves.bias[t])
    BY <2>1
  <2> QED BY <2>2 DEF ScriptsInv, CurveOk
<1> QED BY <1>1, <1>2, <1>3, <1>4 DEF ScriptsAreTrue

(* What the command line clients write back, plot and end with is what the *)
(* server answered to them, whatever is late, lost or restarted            *)
(* (ScriptsAreTrue).                                                       *)
THEOREM ScriptsTrue == ScriptsSpec => []ScriptsAreTrue
<1>1. ScriptsSpec => []ScriptsInv
  BY ScriptsInitInv, ScriptsInductive, PTL DEF ScriptsSpec
<1> QED BY <1>1, ScriptsInvImplies, PTL

-----------------------------------------------------------------------------
(* How long a script takes.                                                *)

(* A step of a program is a request and what ends its wait.  A process     *)
(* that is not waiting has both of every step from pos on before it, and   *)
(* its exit.                                                               *)
StepsLeft(p) ==
  IF p.exit # "running" THEN 0
  ELSE 2 * (Len(Program[p.script]) + 1 - p.pos) + (IF p.waiting THEN 0 ELSE 1)

(* The longest program is that of the smoke test that writes back.         *)
LongestProgram == 2 * Afes + 3
ScriptCost == 2 * LongestProgram + 1

ProcessStep ==
  SkipStep \/ SendStep \/ TakeReply \/ RefuseReply \/ StepTimesOut \/ EndProcess \/ Interrupt
ServerOrOthers == HandleStep \/ RestartRouter \/ \E t \in Target : OtherWrites(t)

LEMMA ForAfesLength ==
  ASSUME NEW op \in Op, NEW checks \in SUBSET Check,
         NEW bad \in Reaction, NEW late \in Reaction
  PROVE  LET s == ForAfes(op, checks, bad, late) IN s \in Seq(StepType) /\ Len(s) = Afes
<1>1. \A i \in 1..Afes : Step(op, i - 1, checks, bad, late) \in StepType
  BY TargetFacts DEF Step, StepType, Target
<1>2. Afes \in Nat
  BY TargetFacts
<1> HIDE DEF StepType
<1> QED  BY <1>1, <1>2 DEF ForAfes

LEMMA JoinedLength ==
  ASSUME NEW a \in Seq(StepType), NEW b \in Seq(StepType)
  PROVE  a \o b \in Seq(StepType) /\ Len(a \o b) = Len(a) + Len(b)
BY ConcatProperties

LEMMA ThreeLength ==
  ASSUME NEW a \in Seq(StepType), NEW b \in Seq(StepType), NEW c \in Seq(StepType)
  PROVE  Len(a \o b \o c) = (Len(a) + Len(b)) + Len(c)
<1>1. a \o b \in Seq(StepType) /\ Len(a \o b) = Len(a) + Len(b)
  BY JoinedLength
<1> DEFINE d == a \o b
<1> HIDE DEF d
<1>2. d \in Seq(StepType) /\ Len(d) = Len(a) + Len(b)
  BY <1>1 DEF d
<1>3. Len(d \o c) = Len(d) + Len(c)
  BY <1>2, JoinedLength
<1> QED  BY <1>2, <1>3 DEF d

LEMMA ProgramLength ==
  \A s \in Script : Len(Program[s]) \in Nat /\ Len(Program[s]) <= LongestProgram
<1> USE DEF Op, Check, Reaction
<1>1. Afes \in Nat \ {0}
  BY TargetFacts
<1>2. \A op \in Op, checks \in SUBSET Check, t \in {0}, bad, late \in Reaction :
        Step(op, t, checks, bad, late) \in StepType
  BY TargetFacts DEF Step, StepType
<1>3. /\ ForAfes("read", {"correl"}, "record", "record") \in Seq(StepType)
      /\ Len(ForAfes("read", {"correl"}, "record", "record")) = Afes
      /\ ForAfes("write", {"correl"}, "record", "record") \in Seq(StepType)
      /\ Len(ForAfes("write", {"correl"}, "record", "record")) = Afes
  BY ForAfesLength
<1>4. /\ BiasSteps \in Seq(StepType) /\ Len(BiasSteps) = Afes
      /\ AfeFunctionSteps \in Seq(StepType) /\ Len(AfeFunctionSteps) = Afes
      /\ MonitorSteps \in Seq(StepType) /\ Len(MonitorSteps) = Afes
  BY ForAfesLength DEF BiasSteps, AfeFunctionSteps, MonitorSteps
<1>5. /\ ForAfes("read", {"type", "correl", "payload"}, "raise", "raise") \in Seq(StepType)
      /\ Len(ForAfes("read", {"type", "correl", "payload"}, "raise", "raise")) = Afes
      /\ ForAfes("set", {"correl"}, "raise", "raise") \in Seq(StepType)
      /\ Len(ForAfes("set", {"correl"}, "raise", "raise")) = Afes
  BY ForAfesLength
<1>6. /\ SmokeChecks \in Seq(StepType) /\ Len(SmokeChecks) = 1
      /\ SmokeForced \in Seq(StepType) /\ Len(SmokeForced) = 1
      /\ SmokeIntrusive \in Seq(StepType) /\ Len(SmokeIntrusive) = 1
      /\ <<ConfigureStep>> \in Seq(StepType) /\ <<AlignStep>> \in Seq(StepType)
      /\ <<Step("readAll", 0, {"correl"}, "record", "record")>> \in Seq(StepType)
      /\ <<Step("writeAll", 0, {"correl"}, "record", "record")>> \in Seq(StepType)
      /\ <<Step("readAll", 0, {"type", "correl", "payload"}, "raise", "raise")>> \in Seq(StepType)
      /\ <<Step("align", 0, {"correl"}, "raise", "raise")>> \in Seq(StepType)
  BY <1>2 DEF SmokeChecks, SmokeForced, SmokeIntrusive, ConfigureStep, AlignStep
<1> HIDE DEF Op, Check, Reaction, StepType
<1>7. /\ SmokeReads \in Seq(StepType) /\ Len(SmokeReads) = 1 + Afes
      /\ SmokeWrites \in Seq(StepType) /\ Len(SmokeWrites) = Afes + 1
  <2>1. Len(<<Step("readAll", 0, {"correl"}, "record", "record")>>) = 1
        /\ Len(<<Step("writeAll", 0, {"correl"}, "record", "record")>>) = 1
    OBVIOUS
  <2>2. SmokeReads \in Seq(StepType) /\ Len(SmokeReads) = 1 + Afes
    BY <1>3, <1>6, <2>1, JoinedLength DEF SmokeReads
  <2>3. SmokeWrites \in Seq(StepType) /\ Len(SmokeWrites) = Afes + 1
    BY <1>3, <1>6, <2>1, JoinedLength DEF SmokeWrites
  <2> QED  BY <2>2, <2>3
<1>8. Len(SnapshotSteps) = 1 + Afes /\ Len(DaphneSteps) = Afes + 1
  <2>1. Len(<<Step("readAll", 0, {"type", "correl", "payload"}, "raise", "raise")>>) = 1
        /\ Len(<<Step("align", 0, {"correl"}, "raise", "raise")>>) = 1
    OBVIOUS
  <2>2. Len(SnapshotSteps) = 1 + Afes
    BY <1>5, <1>6, <2>1, JoinedLength DEF SnapshotSteps
  <2>3. Len(DaphneSteps) = Afes + 1
    BY <1>5, <1>6, <2>1, JoinedLength DEF DaphneSteps
  <2> QED  BY <2>2, <2>3
<1>9. Len(SmokeChecks \o SmokeReads \o SmokeIntrusive) = (1 + (1 + Afes)) + 1
  <2>1. Len(SmokeChecks \o SmokeReads \o SmokeIntrusive)
          = (Len(SmokeChecks) + Len(SmokeReads)) + Len(SmokeIntrusive)
    <3>1. /\ SmokeChecks \in Seq(StepType) /\ SmokeReads \in Seq(StepType)
          /\ SmokeIntrusive \in Seq(StepType)
      BY <1>6, <1>7
    <3> QED  BY <3>1, ThreeLength, Zenon
  <2>2. /\ Len(SmokeChecks) = 1 /\ Len(SmokeReads) = 1 + Afes /\ Len(SmokeIntrusive) = 1
    BY <1>6, <1>7
  <2> QED  BY <2>1, <2>2, Zenon
<1>10. Len(SmokeReads \o SmokeWrites \o SmokeForced) = ((1 + Afes) + (Afes + 1)) + 1
  <2>1. Len(SmokeReads \o SmokeWrites \o SmokeForced)
          = (Len(SmokeReads) + Len(SmokeWrites)) + Len(SmokeForced)
    <3>1. /\ SmokeReads \in Seq(StepType) /\ SmokeWrites \in Seq(StepType)
          /\ SmokeForced \in Seq(StepType)
      BY <1>6, <1>7
    <3> QED  BY <3>1, ThreeLength, Zenon
  <2>2. /\ Len(SmokeReads) = 1 + Afes /\ Len(SmokeWrites) = Afes + 1 /\ Len(SmokeForced) = 1
    BY <1>6, <1>7
  <2> QED  BY <2>1, <2>2, Zenon
<1>11. Len(<<ConfigureStep>> \o BiasSteps \o <<AlignStep>>) = (1 + Afes) + 1
  <2>1. Len(<<ConfigureStep>>) = 1 /\ Len(<<AlignStep>>) = 1
    OBVIOUS
  <2>2. /\ <<ConfigureStep>> \o BiasSteps \in Seq(StepType)
        /\ Len(<<ConfigureStep>> \o BiasSteps) = 1 + Afes
    BY <1>4, <1>6, <2>1, JoinedLength
  <2> QED  BY <1>6, <2>1, <2>2, JoinedLength
<1>12. /\ Len(ThresholdSteps) = 2 /\ Len(SlowcontrolSteps) = 3 /\ Len(ProbeSteps) = 2
       /\ Len(<<ConfigureStep, AlignStep>>) = 2 /\ Len(<<send_configure_request>>) = 1
       /\ Len(<<OnceStep>>) = 1 /\ Len(<<InfoStep>>) = 1 /\ Len(<<TestRegStep>>) = 1
  BY DEF ThresholdSteps, SlowcontrolSteps, ProbeSteps
<1>13. \A s \in Script :
         Len(Program[s]) \in {1, 2, 3, Afes, 1 + Afes, Afes + 1, (1 + Afes) + 1,
                              (1 + (1 + Afes)) + 1, ((1 + Afes) + (Afes + 1)) + 1}
  <2> TAKE s \in Script
  <2>1. CASE s \in {"smoke", "writeback", "bias"}
    BY <1>9, <1>10, <1>11, <2>1 DEF Program
  <2>2. CASE s \in {"snapshot", "daphne", "afeFunction", "monitor"}
    BY <1>4, <1>8, <2>2 DEF Program
  <2>3. CASE s \in {"threshold", "slowcontrol", "probe", "configure"}
    BY <1>12, <2>3 DEF Program
  <2>4. CASE s \in {"seed", "once", "info", "testreg"}
    BY <1>12, <2>4 DEF Program
  <2> QED  BY <2>1, <2>2, <2>3, <2>4 DEF Script, Program
<1> TAKE s \in Script
<1> DEFINE len == Len(Program[s])
<1>14. len \in {1, 2, 3, Afes, 1 + Afes, Afes + 1, (1 + Afes) + 1,
                (1 + (1 + Afes)) + 1, ((1 + Afes) + (Afes + 1)) + 1}
  BY <1>13
<1> HIDE DEF len
<1>15. len \in Nat /\ len <= 2 * Afes + 3
  BY <1>1, <1>14
<1> QED  BY <1>15 DEF len, LongestProgram

(* What a process has done, by where it is.                                *)
LEMMA ProcessTakesOne ==
  ASSUME ScriptsInv, ProcessStep
  PROVE  /\ proc'.script = proc.script
         /\ \/ proc.exit = "running" /\ proc'.exit # "running"
            \/ /\ proc.exit = "running" /\ proc'.exit = "running"
               /\ \/ proc'.pos = proc.pos /\ ~proc.waiting /\ proc'.waiting
                  \/ proc'.pos = proc.pos + 1 /\ ~proc'.waiting
<1>0. proc \in ProcessType /\ Types /\ PlaceInv
  BY DEF ScriptsInv, Types
<1>1. CASE SkipStep
  BY <1>0, <1>1 DEF SkipStep, Running, ProcessType
<1>2. CASE SendStep
  BY <1>0, <1>2 DEF SendStep, Running, ProcessType
<1>3. CASE TakeReply
  <2>1. /\ Running /\ proc.waiting /\ socket # <<>> /\ ~AtEnd
        /\ proc' = [Kept(proc, Head(socket)) EXCEPT !.pos = @ + 1, !.waiting = FALSE]
    BY <1>0, <1>3 DEF TakeReply, PlaceInv
  <2>2. Head(socket) \in Message /\ Head(socket).reply.vals \in Seq(Value)
    <3>1. Head(socket) \in Message
      BY <1>0, <2>1 DEF Types
    <3> QED  BY <3>1 DEF Message, Answer
  <2>3. Now.t \in Target
    BY <1>0, <2>1, NowFacts DEF CarefulStep, StepType
  <2>4. /\ Kept(proc, Head(socket)) \in ProcessType
        /\ Kept(proc, Head(socket)).script = proc.script
        /\ Kept(proc, Head(socket)).pos = proc.pos
        /\ Kept(proc, Head(socket)).exit = proc.exit
    BY <1>0, <2>2, <2>3, KeptFacts
  <2> DEFINE q == Kept(proc, Head(socket))
  <2> HIDE DEF q
  <2>5. q \in ProcessType /\ q.script = proc.script /\ q.pos = proc.pos /\ q.exit = proc.exit
    BY <2>4 DEF q
  <2>6. proc' = [q EXCEPT !.pos = q.pos + 1, !.waiting = FALSE]
    BY <2>1 DEF q
  <2>7. proc'.script = q.script /\ proc'.pos = q.pos + 1 /\ proc'.waiting = FALSE
        /\ proc'.exit = q.exit
    BY <2>5, <2>6, Zenon DEF ProcessType
  <2> QED  BY <2>1, <2>5, <2>7 DEF Running
<1>4. CASE RefuseReply \/ StepTimesOut
  <2>1. PICK what \in Reaction : proc' = OnFailure(proc, what)
    <3>1. Now.bad \in Reaction /\ Now.late \in Reaction
      BY <1>0, <1>4, NowFacts DEF RefuseReply, StepTimesOut, PlaceInv, CarefulStep, StepType
    <3> QED  BY <1>4, <3>1 DEF RefuseReply, StepTimesOut
  <2>2. proc.exit = "running"
    BY <1>4 DEF RefuseReply, StepTimesOut, Running
  <2> QED  BY <1>0, <2>1, <2>2, OnFailureFacts
<1>5. CASE EndProcess
  <2>1. proc.exit = "running" /\ proc' = [proc EXCEPT !.exit = ExitOf(proc)]
    BY <1>5 DEF EndProcess, Running
  <2>2. ExitOf(proc) # "running"
    BY DEF ExitOf
  <2> QED  BY <1>0, <2>1, <2>2 DEF ProcessType
<1>6. CASE Interrupt
  BY <1>0, <1>6 DEF Interrupt, Running, ProcessType
<1> QED  BY <1>1, <1>2, <1>3, <1>4, <1>5, <1>6 DEF ProcessStep

(* A script has at most ScriptCost steps (the monitor in each of its       *)
(* sweeps): each of its steps takes one, whether its request was answered, *)
(* refused or timed out, and neither late replies nor restarts of the      *)
(* server add one.                                                         *)
ScriptIsBounded ==
  /\ [](StepsLeft(proc) \in 0..ScriptCost)
  /\ [][/\ ProcessStep => StepsLeft(proc)' < StepsLeft(proc)
        /\ ServerOrOthers => StepsLeft(proc)' = StepsLeft(proc)]_scriptVars

(* For any number of AFEs, processes, restarts and messages under way: no  *)
(* script tries anything again.                                            *)
THEOREM ScriptsAreBounded == ScriptsSpec => ScriptIsBounded
<1>1. ASSUME ScriptsInv PROVE StepsLeft(proc) \in 0..ScriptCost
  <2> DEFINE n == Len(Program[proc.script])
  <2>1. proc.script \in Script /\ proc.pos \in 1..(n + 1) /\ proc.waiting \in BOOLEAN
    BY <1>1 DEF ScriptsInv, Types, PlaceInv, ProcessType
  <2>2. n \in Nat /\ n <= 2 * Afes + 3 /\ Afes \in Nat
    BY <2>1, ProgramLength, TargetFacts DEF LongestProgram
  <2>3. StepsLeft(proc) = IF proc.exit # "running" THEN 0
                          ELSE 2 * (n + 1 - proc.pos) + (IF proc.waiting THEN 0 ELSE 1)
    BY DEF StepsLeft
  <2>4. ScriptCost = 2 * (2 * Afes + 3) + 1
    BY DEF ScriptCost, LongestProgram
  <2> HIDE DEF n
  <2> DEFINE left == 2 * (n + 1 - proc.pos)
  <2>5. left \in Int /\ left >= 0 /\ left <= 2 * (2 * Afes + 3)
    BY <2>1, <2>2
  <2> HIDE DEF left
  <2>6. StepsLeft(proc) \in {0, left, left + 1}
    BY <2>3, <2>5 DEF left
  <2> QED  BY <2>2, <2>4, <2>5, <2>6
<1>2. ASSUME ScriptsInv, ScriptsInv', ProcessStep PROVE StepsLeft(proc)' < StepsLeft(proc)
  <2> DEFINE n == Len(Program[proc.script])
  <2>1. /\ n \in Nat /\ proc.pos \in 1..(n + 1) /\ proc.waiting \in BOOLEAN
        /\ proc.waiting => proc.pos # n + 1
    <3>1. proc.script \in Script /\ proc.pos \in 1..(n + 1) /\ proc.waiting \in BOOLEAN
          /\ (proc.waiting => ~AtEnd)
      BY <1>2 DEF ScriptsInv, Types, PlaceInv, ProcessType
    <3> QED  BY <3>1, ProgramLength DEF AtEnd
  <2>2. proc'.pos \in 1..(n + 1) /\ proc'.script = proc.script
    BY <1>2, ProcessTakesOne DEF ScriptsInv, PlaceInv
  <2>3. StepsLeft(proc) = IF proc.exit # "running" THEN 0
                          ELSE 2 * (n + 1 - proc.pos) + (IF proc.waiting THEN 0 ELSE 1)
    BY DEF StepsLeft
  <2>4. StepsLeft(proc)' = IF proc'.exit # "running" THEN 0
                           ELSE 2 * (n + 1 - proc'.pos) + (IF proc'.waiting THEN 0 ELSE 1)
    BY <2>2 DEF StepsLeft
  <2> HIDE DEF n
  <2>5. \/ proc.exit = "running" /\ proc'.exit # "running"
        \/ /\ proc.exit = "running" /\ proc'.exit = "running"
           /\ \/ proc'.pos = proc.pos /\ ~proc.waiting /\ proc'.waiting
              \/ proc'.pos = proc.pos + 1 /\ ~proc'.waiting
    BY <1>2, ProcessTakesOne
  <2> QED  BY <2>1, <2>2, <2>3, <2>4, <2>5
<1>3. ASSUME ScriptsInv, ServerOrOthers PROVE StepsLeft(proc)' = StepsLeft(proc)
  <2>1. proc' = proc
    BY <1>3 DEF ServerOrOthers, HandleStep, RestartRouter, OtherWrites
  <2> QED  BY <2>1 DEF StepsLeft
<1>4. ScriptsSpec => []ScriptsInv
  BY ScriptsInitInv, ScriptsInductive, PTL DEF ScriptsSpec
<1>5. ScriptsInv => StepsLeft(proc) \in 0..ScriptCost
  BY <1>1
<1>6. ScriptsInv /\ ScriptsInv' /\ [ScriptsNext]_scriptVars =>
        [/\ ProcessStep => StepsLeft(proc)' < StepsLeft(proc)
         /\ ServerOrOthers => StepsLeft(proc)' = StepsLeft(proc)]_scriptVars
  BY <1>2, <1>3
<1> QED  BY <1>4, <1>5, <1>6, PTL DEF ScriptsSpec, ScriptIsBounded
=============================================================================
