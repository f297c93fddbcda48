---------------------------- MODULE PowerControl ----------------------------
(***************************************************************************)
(* What the control of the HD mezzanines promises of the rails: they are   *)
(* switched for one job at a time, one rail a step, and a step changes no  *)
(* other rail of any block.  A job is a client's request, which succeeds   *)
(* when the rails of its block are those it wants, or a shutdown, which    *)
(* begins only on a block with a latched alert and ends with no rail on.   *)
(* An alert is latched while its flag is up, and taken back by a client.   *)
(* Jobs may fail at any moment, and leave the rails as they are.           *)
(***************************************************************************)
CONSTANTS Block, Rails

VARIABLES
  port,    \* rails that are on, of each block
  over,    \* over-power flags
  alert,   \* latched alerts
  job,     \* who switches rails: "nobody", "client" or "safety", where, and
           \* the rails wanted
  answer   \* of the last power request: "none", "ok", or "error"

powerVars == <<port, over, alert, job, answer>>

Idle == [who |-> "nobody"]
Free == job.who = "nobody"

PowerInit ==
  /\ port \in [Block -> SUBSET Rails]
  /\ over = [b \in Block |-> {}] /\ alert = [b \in Block |-> {}]
  /\ job = Idle /\ answer = "none"

(* A request is taken or refused; it has no effect yet.                    *)
Ask ==
  /\ job.who # "client"
  /\ answer' \in {"none", "error"}
  /\ UNCHANGED <<port, over, alert, job>>

Begin(b, want) ==
  /\ Free /\ answer = "none"
  /\ job' = [who |-> "client", blk |-> b, want |-> want]
  /\ UNCHANGED <<port, over, alert, answer>>

BeginShutdown(b) ==
  /\ Free /\ alert[b] # {}
  /\ job' = [who |-> "safety", blk |-> b, want |-> {}]
  /\ UNCHANGED <<port, over, alert, answer>>

SwitchRail(r) ==
  /\ ~Free
  /\ port' = [port EXCEPT ![job.blk] =
                IF r \in job.want THEN @ \cup {r} ELSE @ \ {r}]
  /\ UNCHANGED <<over, alert, job, answer>>

Leave(outcome) ==
  /\ ~Free
  /\ job' = Idle
  /\ answer' = IF job.who = "client" THEN outcome ELSE answer
  /\ UNCHANGED <<port, over, alert>>

Complete == Leave("ok") /\ port[job.blk] = job.want
GiveUp == Leave("error")

Latch(b, r) ==
  /\ Free /\ r \in over[b]
  /\ alert' = [alert EXCEPT ![b] = @ \cup {r}]
  /\ UNCHANGED <<port, over, job, answer>>

Clear(b) ==
  /\ Free
  /\ alert' = [alert EXCEPT ![b] = {}]
  /\ UNCHANGED <<port, over, job, answer>>

(* The flag of a rail comes up while the rail is on, and may drop.         *)
Flag(b, r) ==
  /\ \/ r \in port[b] /\ over' = [over EXCEPT ![b] = @ \cup {r}]
     \/ over' = [over EXCEPT ![b] = @ \ {r}]
  /\ UNCHANGED <<port, alert, job, answer>>

PowerNext ==
  \/ Ask \/ Complete \/ GiveUp
  \/ \E b \in Block : BeginShutdown(b) \/ Clear(b)
  \/ \E b \in Block, want \in SUBSET Rails : Begin(b, want)
  \/ \E r \in Rails : SwitchRail(r)
  \/ \E b \in Block, r \in Rails : Latch(b, r) \/ Flag(b, r)

PowerSpec == PowerInit /\ [][PowerNext]_powerVars
=============================================================================
