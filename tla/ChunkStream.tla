---------------------------- MODULE ChunkStream ----------------------------
(***************************************************************************)
(* What a chunked spy buffer dump promises its client: the waveforms 0, 1, *)
(* ..., n-1 arrive in order, in pieces of chunkSize (the last one may be   *)
(* shorter), each exactly once, and the stream stops early only after an   *)
(* error in the server.                                                    *)
(***************************************************************************)
EXTENDS Naturals

CONSTANT Requests   \* records with n and c: numberOfWaveforms and chunkSize

VARIABLES
  request,   \* the request being answered
  open,      \* a stream is under way
  pos,       \* waveforms delivered so far
  failed     \* the server met an error in this stream

streamVars == <<request, open, pos, failed>>

Piece(q, p) == IF q.n - p < q.c THEN q.n - p ELSE q.c

StreamInit == request \in Requests /\ ~open /\ pos = 0 /\ ~failed

Begin == /\ ~open
         /\ request' \in Requests
         /\ open' = TRUE /\ pos' = 0 /\ failed' = FALSE

Deliver == /\ open /\ pos < request.n
           /\ pos' = pos + Piece(request, pos)
           /\ UNCHANGED <<request, open, failed>>

Fail == open /\ ~failed /\ failed' = TRUE /\ UNCHANGED <<request, open, pos>>

End == /\ open
       /\ pos = request.n \/ failed
       /\ open' = FALSE
       /\ UNCHANGED <<request, pos, failed>>

(* The server dies in the middle of a stream.                              *)
Abort == open /\ open' = FALSE /\ UNCHANGED <<request, pos, failed>>

(* A request is refused with a single failure response.                    *)
Refuse == /\ ~open
          /\ pos' = 0 /\ failed' = FALSE
          /\ UNCHANGED <<request, open>>

StreamNext == Begin \/ Deliver \/ Fail \/ End \/ Abort \/ Refuse

StreamSpec == StreamInit /\ [][StreamNext]_streamVars

=============================================================================
