------------------------------ MODULE MCClients ------------------------------
(***************************************************************************)
(* Instance for TLC of the chunked spy buffer dump and of the command line *)
(* clients.  A behaviour is that of one of them: they share no state, so   *)
(* their state spaces add up.                                              *)
(***************************************************************************)
EXTENDS SpyChunker, Scripts, SeedOverlay, AcquireClient

VARIABLE system   \* the system of this behaviour

(* SpyChunker in 3-bit arithmetic: every request that does not wrap.       *)
MCRequests ==
  {q \in [n : 0..7, c : 0..4, ok : BOOLEAN] : q.n + q.c <= 8}

allVars == <<vars, scriptVars, seedVars, acquireVars, system>>

(* The systems that do not run are in one state.                           *)
ChunkerOff ==
  /\ QueueInit /\ req = [n |-> 0, c |-> 0, ok |-> FALSE]
  /\ rpc = "recv" /\ ppc = "none" /\ wfStart = 0 /\ seq = 0
  /\ packet = NoPacket /\ hadError = FALSE /\ last = NoResponse /\ finals = 0

AllInit ==
  \/ system = "chunker" /\ Init /\ ScriptsOff /\ SeedOff /\ AcquireInit
  \/ system = "scripts" /\ ChunkerOff /\ ScriptsOff /\ SeedOff /\ AcquireInit
  \/ system = "seed" /\ ChunkerOff /\ ScriptsOff /\ SeedInit /\ AcquireInit
  \/ system = "acquire" /\ ChunkerOff /\ ScriptsOff /\ SeedOff /\ AcquireInit

OnlyChunker == system = "chunker" /\ UNCHANGED <<scriptVars, seedVars, acquireVars, system>>
OnlyScripts == system = "scripts" /\ UNCHANGED <<vars, seedVars, acquireVars, system>>
OnlySeed == system = "seed" /\ UNCHANGED <<vars, scriptVars, acquireVars, system>>
OnlyAcquire == system = "acquire" /\ UNCHANGED <<vars, scriptVars, seedVars, system>>

(* The server always goes on; the clients come to an end.                  *)
ClientsEnded == system # "chunker" /\ UNCHANGED allVars

AllNext ==
  \/ OnlyChunker /\ Next
  \/ OnlyScripts /\ ScriptsNext
  \/ OnlySeed /\ SeedNext
  \/ OnlyAcquire /\ AcquireNext
  \/ ClientsEnded

AllSpec ==
  /\ AllInit /\ [][AllNext]_allVars
  /\ WF_vars(OnlyChunker /\ RouterStep) /\ WF_vars(OnlyChunker /\ ProducerStep)
  /\ ScriptsFairness /\ AcquireFairness

(* The router thread comes back from every dump, and every script and      *)
(* acquisition comes to its end.                                           *)
ProgramsEnd == StreamEnds /\ ScriptsEnd /\ AcquireEnds
=============================================================================
