---------------------------- MODULE RouterServer ----------------------------
(***************************************************************************)
(* Requests and replies between clients and the router loop of             *)
(* daphneServer.  A client sends one ControlEnvelopeV2 at a time and waits *)
(* for a reply or its timeout; the server handles one request after the    *)
(* other and answers each with an envelope whose correl_id is the          *)
(* request's msg_id.  The reply to a request that timed out still comes,   *)
(* and is the first thing the client reads after its next request.         *)
(*                                                                         *)
(* Two kinds of clients live longer than one request: HDMezzClient keeps   *)
(* its socket whatever happens (Keepers); the acquisition worker of osc.py *)
(* closes its socket after a timeout or an error and opens another with    *)
(* the same ZMQ identity (Reopeners), so that the ROUTER delivers to the   *)
(* new socket what was meant for the old one.                              *)
(*                                                                         *)
(* The n-th request of a client has msg_id n.  Connections are FIFO.       *)
(* Chunked dumps are in SpyChunker, what a handler does in the modules of  *)
(* the handlers.                                                           *)
(***************************************************************************)
EXTENDS Integers, Sequences

CONSTANTS
  Keepers, Reopeners,  \* the clients
  MaxRequests,         \* bound: requests of a client
  MaxTimeouts,         \* bound: timeouts of a client
  MaxCrashes           \* bound: crashes of the server

ASSUME BoundsAssumption ==
  MaxRequests \in Nat /\ MaxTimeouts \in Nat /\ MaxCrashes \in Nat

Client == Keepers \cup Reopeners

(* What the router does with a request: its handler returns, throws, does  *)
(* not exist, or the message is dropped (no payload frame, too large, not  *)
(* an envelope, a v1 envelope, another version or direction).              *)
Answered == {"handled", "throws", "unknown"}
Kind == Answered \cup {"ignored"}

VARIABLES
  requests,    \* kinds of the requests each client has sent
  outcomes,    \* how each of them ended, in order
  waiting,     \* clients that wait for a reply
  open,        \* clients whose socket is open
  toServer,    \* requests on their way, by client
  toClient,    \* replies on their way or in the client's socket
  served,      \* history: requests the server has handled, by client
  timeouts,    \* history: timeouts of each client
  crashes

vars == <<requests, outcomes, waiting, open, toServer, toClient, served,
          timeouts, crashes>>

-----------------------------------------------------------------------------
Init ==
  /\ requests = [c \in Client |-> <<>>]
  /\ outcomes = [c \in Client |-> <<>>]
  /\ waiting = {} /\ open = {}
  /\ toServer = [c \in Client |-> <<>>]
  /\ toClient = [c \in Client |-> <<>>]
  /\ served = [c \in Client |-> {}]
  /\ timeouts = [c \in Client |-> 0]
  /\ crashes = 0

(* The msg_id of the request at hand.                                      *)
MsgId(c) == Len(requests[c])

Send(c) ==
  /\ c \notin waiting /\ Len(requests[c]) < MaxRequests
  /\ open' = open \cup {c}
  /\ waiting' = waiting \cup {c}
  /\ \E k \in Kind :
       /\ requests' = [requests EXCEPT ![c] = Append(@, k)]
       /\ toServer' = [toServer EXCEPT
            ![c] = Append(@, [msg_id |-> MsgId(c) + 1, kind |-> k])]
  /\ UNCHANGED <<outcomes, toClient, served, timeouts, crashes>>

-----------------------------------------------------------------------------
(* make_response.                                                          *)
MakeResponse(r, body) == [correl_id |-> r.msg_id, body |-> body]

(* Mutant: a handler that throws is logged and not answered.               *)
Replies_Silent(r) ==
  IF r.kind \in {"ignored", "throws"} THEN <<>>
  ELSE <<MakeResponse(r, IF r.kind = "handled" THEN "result" ELSE "empty")>>

(* Mutant: the error path falls through to the reply of the normal one.    *)
Replies_Twice(r) ==
  CASE r.kind = "ignored" -> <<>>
    [] r.kind = "throws" ->
         <<MakeResponse(r, "empty"), MakeResponse(r, "empty")>>
    [] OTHER ->
         <<MakeResponse(r, IF r.kind = "handled" THEN "result" ELSE "empty")>>

(* What one pass of the loop sends for a request.                          *)
Replies(r) ==
  IF r.kind = "ignored" THEN <<>>
  ELSE <<MakeResponse(r, IF r.kind = "handled" THEN "result" ELSE "empty")>>

(* One pass of the loop.  A reply to a client without a connection is      *)
(* dropped by the ROUTER socket.                                           *)
Serve(c) ==
  /\ toServer[c] # <<>>
  /\ LET r == Head(toServer[c]) IN
       /\ toClient' = [toClient EXCEPT
            ![c] = IF c \in open THEN @ \o Replies(r) ELSE @]
       /\ served' = [served EXCEPT ![c] = @ \cup {r.msg_id}]
  /\ toServer' = [toServer EXCEPT ![c] = Tail(@)]
  /\ UNCHANGED <<requests, outcomes, waiting, open, timeouts, crashes>>

(* The server ends on an uncaught exception and is started again: the      *)
(* requests that have reached it are lost, those still in a client's       *)
(* socket are sent to the new one, and the last of the replies may be      *)
(* lost.                                                                   *)
Crash ==
  /\ crashes < MaxCrashes
  /\ crashes' = crashes + 1
  /\ \E n, k \in [Client -> 0..MaxRequests] :
       /\ \A c \in Client : /\ n[c] <= Len(toClient[c])
                           /\ k[c] <= Len(toServer[c])
       /\ toClient' = [c \in Client |-> SubSeq(toClient[c], 1, n[c])]
       /\ toServer' = [c \in Client |->
            SubSeq(toServer[c], k[c] + 1, Len(toServer[c]))]
  /\ UNCHANGED <<requests, outcomes, waiting, open, served, timeouts>>

-----------------------------------------------------------------------------
(* The request at hand ends for the client.                                *)
End(c, outcome) ==
  /\ waiting' = waiting \ {c}
  /\ outcomes' = [outcomes EXCEPT ![c] = Append(@, outcome)]

(* The socket and what it holds are gone (LINGER 0).  The requests that    *)
(* have left it stay, the others do not.                                   *)
Close(c) ==
  /\ open' = open \ {c}
  /\ toClient' = [toClient EXCEPT ![c] = <<>>]
  /\ \E n \in 0..Len(toServer[c]) :
       toServer' = [toServer EXCEPT ![c] = SubSeq(@, 1, n)]

(* Mutant: the correlation is not looked at.                               *)
Matches_Any(c, rep) == TRUE

Matches(c, rep) == rep.correl_id = MsgId(c)

(* The reply at the head of the socket is the one waited for.              *)
Accept(c) ==
  /\ c \in waiting /\ toClient[c] # <<>>
  /\ Matches(c, Head(toClient[c]))
  /\ End(c, Head(toClient[c]).body)
  /\ toClient' = [toClient EXCEPT ![c] = Tail(@)]
  /\ UNCHANGED <<requests, open, toServer, served, timeouts, crashes>>

(* HDMezzClient raises and goes on with the socket as it is.               *)
RefuseAndKeep(c) ==
  /\ c \in waiting \cap Keepers /\ toClient[c] # <<>>
  /\ ~Matches(c, Head(toClient[c]))
  /\ End(c, "mismatch")
  /\ toClient' = [toClient EXCEPT ![c] = Tail(@)]
  /\ UNCHANGED <<requests, open, toServer, served, timeouts, crashes>>

(* The worker of osc.py closes its link.                                   *)
RefuseAndClose(c) ==
  /\ c \in waiting \cap Reopeners /\ toClient[c] # <<>>
  /\ ~Matches(c, Head(toClient[c]))
  /\ End(c, "mismatch")
  /\ Close(c)
  /\ UNCHANGED <<requests, served, timeouts, crashes>>

Timeout(c) ==
  /\ c \in waiting /\ timeouts[c] < MaxTimeouts
  /\ End(c, "timeout")
  /\ timeouts' = [timeouts EXCEPT ![c] = @ + 1]
  /\ IF c \in Reopeners THEN Close(c)
     ELSE UNCHANGED <<open, toServer, toClient>>
  /\ UNCHANGED <<requests, served, crashes>>

Receive(c) == Accept(c) \/ RefuseAndKeep(c) \/ RefuseAndClose(c)

Next ==
  \/ \E c \in Client : Send(c) \/ Serve(c) \/ Receive(c) \/ Timeout(c)
  \/ Crash

(* The router loop never stops and the ROUTER socket takes the clients in  *)
(* turn; a client that waits reads what arrives.  Nothing forces a         *)
(* timeout.                                                                *)
Spec ==
  /\ Init /\ [][Next]_vars
  /\ \A c \in Client : WF_vars(Serve(c)) /\ WF_vars(Receive(c))

-----------------------------------------------------------------------------
Envelope == [msg_id : 1..MaxRequests, kind : Kind]
Response == [correl_id : 1..MaxRequests, body : {"result", "empty"}]

TypeOK ==
  /\ requests \in [Client -> Seq(Kind)]
  /\ outcomes \in [Client ->
                     Seq({"result", "empty", "mismatch", "timeout"})]
  /\ waiting \subseteq Client /\ open \subseteq Client
  /\ toServer \in [Client -> Seq(Envelope)]
  /\ toClient \in [Client -> Seq(Response)]
  /\ served \in [Client -> SUBSET (1..MaxRequests)]
  /\ timeouts \in [Client -> Nat]
  /\ crashes \in Nat

(* A result that a client takes for its n-th request was computed for that *)
(* request, and an empty payload means that its handler threw or does not  *)
(* exist; late replies, reopened sockets and restarts included.            *)
OutcomesAreTrue ==
  \A c \in Client : \A n \in 1..Len(outcomes[c]) :
    /\ outcomes[c][n] \in {"result", "empty"} => n \in served[c]
    /\ outcomes[c][n] = "result" => requests[c][n] = "handled"
    /\ outcomes[c][n] = "empty" => requests[c][n] \in {"throws", "unknown"}

(* What is on the way to and from a client is at most its request at hand  *)
(* and one message for each of its timeouts: refused replies and reopened  *)
(* sockets do not let the queues grow.                                     *)
BacklogIsBounded ==
  \A c \in Client :
    Len(toServer[c]) + Len(toClient[c]) <=
      timeouts[c] + (IF c \in waiting THEN 1 ELSE 0)

(* A request that the router answers ends without the client's timeout, as *)
(* long as the server does not crash: it is answered, or a late reply ends *)
(* it.                                                                     *)
AnswersArrive ==
  \A c \in Client :
    (/\ c \in waiting /\ requests[c][MsgId(c)] \in Answered
     /\ crashes = 0) ~> (c \notin waiting \/ crashes > 0)

=============================================================================
