------------------------------- MODULE HDMezz -------------------------------
(***************************************************************************)
(* Power control of the HD mezzanines.                                     *)
(*                                                                         *)
(* Five AFE blocks sit behind one I2C switch on /dev/i2c-2.  Every access  *)
(* to a block is a transaction: write the switch (selectAfeBlock), then    *)
(* talk to the device behind it.  Two threads of daphneServer do this: the *)
(* router thread, in the HD mezzanine handlers, and the I2C_2 monitor,     *)
(* which latches over-power alerts and switches alerted rails off.  They   *)
(* share one HDMezzDriver and are kept apart by Daphne::i2c_2_mutex.       *)
(*                                                                         *)
(* A transaction is two steps here (select, access), so that a schedule in *)
(* which the other thread moves the switch in between is a behaviour of    *)
(* the model unless the mutex excludes it.  Any transaction may fail: the  *)
(* exception abandons the handler or the monitor pass and releases the     *)
(* mutex.  A write is verified by a read of its own, so a write may take   *)
(* effect and still be reported as a failure.                              *)
(***************************************************************************)
EXTENDS Integers

CONSTANTS
  NumBlocks,    \* number of AFE blocks behind the switch (5 on the board)
  Settings,     \* shunt/scale/shutdown settings of a rail, abstractly
  Factory,      \* the settings the driver is constructed with
  MaxRequests,  \* bound: requests the clients send
  MaxFaults     \* bound: I2C transactions that fail

ASSUME BlocksAssumption == NumBlocks \in Nat \ {0}
ASSUME SettingsAssumption == Factory \in Settings /\ "mixed" \notin Settings
                             /\ "invalid" \notin Settings
ASSUME BoundsAssumption == MaxRequests \in Nat /\ MaxFaults \in Nat

Block == 0 .. NumBlocks - 1
Rails == {"5V", "3V3"}
Thread == {"server", "monitor"}
NoThread == "nobody"
NoBlock == -1

(* What a rail's settings may be: one of Settings, or a mixture of two of  *)
(* them when an error struck half way.                                     *)
Setting == Settings \cup {"mixed"}

(* The HD mezzanine requests the router dispatches.  "readConfig" stands   *)
(* for the handler that only reads the driver under the mutex.             *)
Request ==
       [op : {"enable"}, on : BOOLEAN]
  \cup [op : {"configure"}, set : Settings \cup {"invalid"}]
  \cup [op : {"power"}, want : SUBSET Rails]
  \cup [op : {"clear"}]
  \cup [op : {"readConfig"}]

VARIABLES
  \* the hardware
  mux,          \* block the I2C switch is set to
  port,         \* rails each block's TCA9536 output port drives on
  over,         \* over-power flag (AFF) of each block and rail
  hwSet,        \* settings held in the INA232 of each block and rail
  \* HDMezzDriver
  enabled,      \* enabled_afeBlocks
  powerStatus,  \* powerStatus5V / powerStatus3V3: one flag per rail
  swSet,        \* settings the driver holds for each block and rail
  \* atomics of Daphne, read by clients
  isPowered,    \* HDMezz_5V_is_powered / HDMezz_3V3_is_powered
  alert,        \* HDMezz_5V_alert / HDMezz_3V3_alert
  \* threads
  mutex,        \* owner of i2c_2_mutex
  pc, blk, rail, sel, out,   \* per thread: control, block, rail, switch
                             \* written, local output_port
  req, reply,   \* the request the server works on, and its outcome
  requests, faults           \* spent bounds

hw == <<mux, port, over, hwSet>>
drv == <<enabled, powerStatus, swSet>>
pub == <<isPowered, alert>>
locals == <<blk, rail, out>>
vars == <<hw, drv, pub, mutex, pc, locals, sel, req, reply, requests, faults>>

(* Control points at which a thread owns the mutex; at those in            *)
(* Transaction it is inside an I2C transaction.                            *)
Transaction == {"measure", "alert", "portRead", "portWrite", "portVerify",
                "calBegin", "calEnd", "direction"}
Locked == Transaction \cup {"block", "decide", "locked"}

TypeOK ==
  /\ mux \in Block \cup {NoBlock}
  /\ port \in [Block -> SUBSET Rails]
  /\ over \in [Block -> SUBSET Rails]
  /\ hwSet \in [Block -> [Rails -> Setting]]
  /\ enabled \in [Block -> BOOLEAN]
  /\ powerStatus \in SUBSET Rails
  /\ swSet \in [Block -> [Rails -> Setting]]
  /\ isPowered \in [Block -> SUBSET Rails]
  /\ alert \in [Block -> SUBSET Rails]
  /\ mutex \in Thread \cup {NoThread}
  /\ pc \in [Thread -> Locked \cup {"idle", "lock"}]
  /\ blk \in [Thread -> 0 .. NumBlocks]
  /\ \A t \in Thread : pc[t] \in Transaction \cup {"decide", "locked", "lock"}
                         => blk[t] \in Block
  /\ rail \in [Thread -> Rails]
  /\ sel \in [Thread -> BOOLEAN]
  /\ out \in [Thread -> SUBSET Rails]
  /\ req \in Request
  /\ reply \in {"none", "ok", "error"}
  /\ requests \in 0 .. MaxRequests
  /\ faults \in 0 .. MaxFaults

(* The server starts with no block enabled and every rail believed on      *)
(* (powerStatus5V = powerStatus3V3 = true); what the boards' output ports  *)
(* hold at that time is not the server's doing.                            *)
Init ==
  /\ mux = NoBlock
  /\ port \in [Block -> SUBSET Rails]
  /\ over = [b \in Block |-> {}]
  /\ hwSet = [b \in Block |-> [r \in Rails |-> "mixed"]]
  /\ enabled = [b \in Block |-> FALSE]
  /\ powerStatus = Rails
  /\ swSet = [b \in Block |-> [r \in Rails |-> Factory]]
  /\ isPowered = [b \in Block |-> {}]
  /\ alert = [b \in Block |-> {}]
  /\ mutex = NoThread
  /\ pc = [t \in Thread |-> "idle"]
  /\ blk = [t \in Thread |-> 0]
  /\ rail = [t \in Thread |-> "5V"]
  /\ sel = [t \in Thread |-> FALSE]
  /\ out = [t \in Thread |-> {}]
  /\ req = [op |-> "readConfig"]
  /\ reply = "none"
  /\ requests = 0
  /\ faults = 0

-----------------------------------------------------------------------------
(* Control flow shared by the two threads.                                 *)

Goto(t, label) == pc' = [pc EXCEPT ![t] = label]

(* Mutant: the mutex is taken without waiting for it.                      *)
Acquire_NoWait(t) == mutex' = t

Acquire(t) == mutex = NoThread /\ mutex' = t

(* The thread leaves its locked section: ~unique_lock or ~I2C2BusGuard.    *)
Unlock(t) ==
  /\ mutex' = NoThread
  /\ Goto(t, "idle")

(* The next iteration of the monitor's loop over the blocks.               *)
NextBlock ==
  /\ blk' = [blk EXCEPT !["monitor"] = @ + 1]
  /\ Goto("monitor", "block")
  /\ UNCHANGED mutex

(* An exception: the monitor's catch ends the pass, the server's catch     *)
(* answers with success = false.                                           *)
Throw(t) ==
  /\ Unlock(t)
  /\ sel' = [sel EXCEPT ![t] = FALSE]
  /\ reply' = IF t = "server" THEN "error" ELSE reply
  /\ UNCHANGED <<locals, req, requests>>

(* A thread is inside an I2C transaction.  A latched alert is not read      *)
(* again, so then there is none.                                           *)
InTransaction(t) ==
  /\ pc[t] \in Transaction
  /\ ~(pc[t] = "alert" /\ rail[t] \in alert[blk[t]])

(* selectAfeBlock: refuse a block that is not enabled, else write the      *)
(* switch.                                                                 *)
SelectAfeBlock(t) ==
  /\ InTransaction(t)
  /\ ~sel[t]
  /\ \/ /\ enabled[blk[t]]
        /\ mux' = blk[t]
        /\ sel' = [sel EXCEPT ![t] = TRUE]
        /\ UNCHANGED <<mutex, pc, locals, req, reply, requests>>
     \/ /\ ~enabled[blk[t]]
        /\ Throw(t)
        /\ UNCHANGED mux
  /\ UNCHANGED <<port, over, hwSet, drv, pub, faults>>

(* Any transaction may fail, before or after the switch was written.       *)
BusError(t) ==
  /\ InTransaction(t)
  /\ faults < MaxFaults
  /\ faults' = faults + 1
  /\ Throw(t)
  /\ UNCHANGED <<hw, drv, pub>>

(* The device half of a transaction at control point p, reached with the   *)
(* switch written; the next transaction writes it again.                   *)
Access(t, p) ==
  /\ pc[t] = p
  /\ sel[t]
  /\ sel' = [sel EXCEPT ![t] = FALSE]
  /\ UNCHANGED <<mux, over, req, requests, faults>>

-----------------------------------------------------------------------------
(* powerOn_HDMezzAfeBlock, called for "5V" and then for "3V3" by both      *)
(* threads.                                                                *)

(* The rails thread t is asked to leave on: the monitor switches off.      *)
Want(t) == IF t = "server" THEN req.want ELSE {}

(* Mutant: the power-off branch does not clear the bit.                    *)
Switch_OnlyOn(t, rails) == rails \cup ({rail[t]} \cap Want(t))

(* The rail of the call switched in a set of rails, the others as they are. *)
Switch(t, rails) ==
  IF rail[t] \in Want(t) THEN rails \cup {rail[t]} ELSE rails \ {rail[t]}

ReadOutputPort(t) ==
  /\ Access(t, "portRead")
  /\ out' = [out EXCEPT ![t] = port[mux]]
  /\ Goto(t, "portWrite")
  /\ UNCHANGED <<port, hwSet, drv, pub, mutex, blk, rail, reply>>

(* The write of writeTCA9536Register.  Its readback is the next step and   *)
(* uses the same switch setting.                                           *)
WriteOutputPort(t) ==
  /\ pc[t] = "portWrite"
  /\ sel[t]
  /\ port' = [port EXCEPT ![mux] = Switch(t, out[t])]
  /\ Goto(t, "portVerify")
  /\ UNCHANGED <<mux, over, hwSet, drv, pub, mutex, locals, sel, req, reply,
                 requests, faults>>

(* Mutant: output_port is read once for both rails.                        *)
SecondRail_ReadsOnce == "portWrite"

(* The call for the second rail reads the output port anew.                *)
SecondRail == "portRead"

VerifyOutputPort(t) ==
  /\ Access(t, "portVerify")
  /\ powerStatus' = Switch(t, powerStatus)
  /\ \/ /\ rail[t] = "5V"
        /\ rail' = [rail EXCEPT ![t] = "3V3"]
        /\ Goto(t, SecondRail)
        /\ UNCHANGED <<mutex, blk, reply>>
     \/ /\ rail[t] = "3V3" /\ t = "server"
        /\ Unlock(t)
        /\ reply' = "ok"
        /\ UNCHANGED <<blk, rail>>
     \/ /\ rail[t] = "3V3" /\ t = "monitor"
        /\ NextBlock
        /\ UNCHANGED <<rail, reply>>
  /\ UNCHANGED <<port, hwSet, enabled, swSet, pub, out>>

-----------------------------------------------------------------------------
(* i2c_2_monitor_thread.                                                   *)

Monitor == "monitor"

(* try_to_lock; when the server owns the mutex the monitor just sleeps.    *)
TryLock ==
  /\ pc[Monitor] = "idle"
  /\ Acquire(Monitor)
  /\ Goto(Monitor, "block")
  /\ blk' = [blk EXCEPT ![Monitor] = 0]
  /\ UNCHANGED <<hw, drv, pub, rail, sel, out, req, reply, requests, faults>>

(* Mutant: a block whose alert is latched is not visited again.            *)
Visited_NotAlerted(b) == enabled[b] /\ alert[b] = {}

Visited(b) == enabled[b]

(* The head of the loop: publish what the driver believes of the rails, or *)
(* skip a block that is not enabled.                                       *)
MonitorBlock ==
  /\ pc[Monitor] = "block"
  /\ blk[Monitor] \in Block
  /\ \/ /\ Visited(blk[Monitor])
        /\ isPowered' = [isPowered EXCEPT ![blk[Monitor]] = powerStatus]
        /\ Goto(Monitor, "measure")
        /\ UNCHANGED <<mutex, blk>>
     \/ /\ ~Visited(blk[Monitor])
        /\ NextBlock
        /\ UNCHANGED isPowered
  /\ UNCHANGED <<hw, drv, alert, rail, sel, out, req, reply, requests, faults>>

EndPass ==
  /\ pc[Monitor] = "block"
  /\ blk[Monitor] = NumBlocks
  /\ Unlock(Monitor)
  /\ UNCHANGED <<hw, drv, pub, locals, sel, req, reply, requests, faults>>

(* Mutant: only the 3V3 rail is checked for an alert.                      *)
FirstChecked_3V3 == "3V3"

FirstChecked == "5V"

(* The six reads of voltage, current and power, as one transaction: their  *)
(* values feed no decision of the server.                                  *)
Measure ==
  /\ Access(Monitor, "measure")
  /\ Goto(Monitor, "alert")
  /\ rail' = [rail EXCEPT ![Monitor] = FirstChecked]
  /\ UNCHANGED <<port, hwSet, drv, pub, mutex, blk, out, reply>>

AfterAlert ==
  IF rail[Monitor] = "5V"
    THEN /\ rail' = [rail EXCEPT ![Monitor] = "3V3"]
         /\ UNCHANGED pc
    ELSE /\ Goto(Monitor, "decide")
         /\ UNCHANGED rail

AlertAlreadyLatched ==
  /\ pc[Monitor] = "alert"
  /\ ~sel[Monitor]
  /\ rail[Monitor] \in alert[blk[Monitor]]
  /\ AfterAlert
  /\ UNCHANGED <<hw, drv, pub, mutex, blk, sel, out, req, reply, requests,
                 faults>>

CheckAlertStatus ==
  /\ Access(Monitor, "alert")
  /\ alert' = [alert EXCEPT ![blk[Monitor]] =
                 @ \cup ({rail[Monitor]} \cap over[mux])]
  /\ AfterAlert
  /\ UNCHANGED <<port, hwSet, drv, isPowered, mutex, blk, out, reply>>

(* Mutant: both rails must be published as powered.                        *)
ShutdownNeeded_Both(b) == alert[b] # {} /\ isPowered[b] = Rails

(* Mutant: the alert is not looked at.                                     *)
ShutdownNeeded_Powered(b) == isPowered[b] # {}

(* An alert is latched and a rail is published as powered: the monitor     *)
(* then switches both rails off.                                           *)
ShutdownNeeded(b) == alert[b] # {} /\ isPowered[b] # {}

Decide ==
  /\ pc[Monitor] = "decide"
  /\ \/ /\ ShutdownNeeded(blk[Monitor])
        /\ Goto(Monitor, "portRead")
        /\ rail' = [rail EXCEPT ![Monitor] = "5V"]
        /\ UNCHANGED <<mutex, blk>>
     \/ /\ ~ShutdownNeeded(blk[Monitor])
        /\ NextBlock
        /\ UNCHANGED rail
  /\ UNCHANGED <<hw, drv, pub, sel, out, req, reply, requests, faults>>

-----------------------------------------------------------------------------
(* The handlers of the router thread.                                      *)

Server == "server"

(* The block numbers that pass the handlers' range check (0..4).           *)
AcceptedBlock == Block

(* A request arrives for a block the board has and the handler waits for   *)
(* the mutex.                                                              *)
Receive(b, r) ==
  /\ pc[Server] = "idle"
  /\ requests < MaxRequests
  /\ requests' = requests + 1
  /\ req' = r
  /\ reply' = "none"
  /\ blk' = [blk EXCEPT ![Server] = b]
  /\ Goto(Server, "lock")
  /\ UNCHANGED <<hw, drv, pub, mutex, rail, sel, out, faults>>

(* A block number above 4, or no driver: refused before the mutex.         *)
Refuse ==
  /\ pc[Server] = "idle"
  /\ requests < MaxRequests
  /\ requests' = requests + 1
  /\ reply' = "error"
  /\ UNCHANGED <<hw, drv, pub, mutex, pc, locals, sel, req, faults>>

(* I2C2BusGuard.                                                           *)
Lock ==
  /\ pc[Server] = "lock"
  /\ Acquire(Server)
  /\ Goto(Server, "locked")
  /\ UNCHANGED <<hw, drv, pub, locals, sel, req, reply, requests, faults>>

(* A handler that needs no I2C finishes with the mutex still held.         *)
Finish(op) ==
  /\ pc[Server] = "locked"
  /\ req.op = op
  /\ Unlock(Server)
  /\ reply' = "ok"
  /\ UNCHANGED <<hw, locals, sel, req, requests, faults>>

SetHDMezzBlockEnable ==
  /\ Finish("enable")
  /\ enabled' = [enabled EXCEPT ![blk[Server]] = req.on]
  /\ UNCHANGED <<powerStatus, swSet, pub>>

ReadHDMezzBlockConfig ==
  /\ Finish("readConfig")
  /\ UNCHANGED <<drv, pub>>

(* Mutant: the flags of every block are cleared.                           *)
Cleared_All(b) == [c \in Block |-> {}]

Cleared(b) == [alert EXCEPT ![b] = {}]

ClearHDMezzAlertFlag ==
  /\ Finish("clear")
  /\ alert' = Cleared(blk[Server])
  /\ UNCHANGED <<drv, isPowered>>

(* setHDMezzPowerStates goes straight to powerOn_HDMezzAfeBlock.           *)
SetHDMezzPowerStates ==
  /\ pc[Server] = "locked"
  /\ req.op = "power"
  /\ Goto(Server, "portRead")
  /\ rail' = [rail EXCEPT ![Server] = "5V"]
  /\ UNCHANGED <<hw, drv, pub, mutex, blk, sel, out, req, reply, requests,
                 faults>>

(* The settings s after some of the six setters (each for 5V, then 3V3): a  *)
(* value that is not positive stops them with an exception.                *)
PartlySet(s) ==
  {[r \in Rails |-> IF r \in touched THEN "mixed" ELSE s[r]] :
     touched \in {{}, {"5V"}, Rails}}

(* configureHDMezzBlock: the setters, then the INA232 of each rail and the *)
(* TCA9536.                                                                *)
ConfigureHDMezzBlock ==
  /\ pc[Server] = "locked"
  /\ req.op = "configure"
  /\ \/ /\ req.set # "invalid"
        /\ swSet' = [swSet EXCEPT ![blk[Server]] = [r \in Rails |-> req.set]]
        /\ Goto(Server, "calBegin")
        /\ rail' = [rail EXCEPT ![Server] = "5V"]
        /\ UNCHANGED <<mutex, reply>>
     \/ /\ req.set = "invalid"
        /\ \E p \in PartlySet(swSet[blk[Server]]) :
             swSet' = [swSet EXCEPT ![blk[Server]] = p]
        /\ Unlock(Server)
        /\ reply' = "error"
        /\ UNCHANGED rail
  /\ UNCHANGED <<hw, enabled, powerStatus, pub, blk, sel, out, req, requests,
                 faults>>

(* configureHdMezzAfeBlock, rail by rail: the first of the four verified   *)
(* register writes leaves the INA232 between two settings, the last one    *)
(* completes it.                                                           *)
CalibrateBegin ==
  /\ Access(Server, "calBegin")
  /\ hwSet' = [hwSet EXCEPT ![mux][rail[Server]] = "mixed"]
  /\ Goto(Server, "calEnd")
  /\ UNCHANGED <<port, drv, pub, mutex, locals, reply>>

CalibrateEnd ==
  /\ Access(Server, "calEnd")
  /\ hwSet' = [hwSet EXCEPT ![mux][rail[Server]] =
                 swSet[blk[Server]][rail[Server]]]
  /\ IF rail[Server] = "5V"
       THEN /\ rail' = [rail EXCEPT ![Server] = "3V3"]
            /\ Goto(Server, "calBegin")
       ELSE /\ Goto(Server, "direction")
            /\ UNCHANGED rail
  /\ UNCHANGED <<port, drv, pub, mutex, blk, out, reply>>

(* The TCA9536 pins become outputs and the handler answers.                *)
SetDirection ==
  /\ Access(Server, "direction")
  /\ Unlock(Server)
  /\ reply' = "ok"
  /\ UNCHANGED <<port, hwSet, drv, pub, locals>>

-----------------------------------------------------------------------------
(* The INA232 raises its flag while the rail is on, and drops it when it   *)
(* may.                                                                    *)
OverPower(b, r) ==
  /\ r \in port[b]
  /\ over' = [over EXCEPT ![b] = @ \cup {r}]
  /\ UNCHANGED <<mux, port, hwSet, drv, pub, mutex, pc, locals, sel, req,
                 reply, requests, faults>>

PowerNormal(b, r) ==
  /\ r \in over[b]
  /\ over' = [over EXCEPT ![b] = @ \ {r}]
  /\ UNCHANGED <<mux, port, hwSet, drv, pub, mutex, pc, locals, sel, req,
                 reply, requests, faults>>

MonitorStep ==
  \/ TryLock \/ MonitorBlock \/ EndPass
  \/ SelectAfeBlock(Monitor)
  \/ Measure \/ AlertAlreadyLatched \/ CheckAlertStatus \/ Decide
  \/ ReadOutputPort(Monitor) \/ WriteOutputPort(Monitor)
  \/ VerifyOutputPort(Monitor)

ServerStep ==
  \/ Lock
  \/ SetHDMezzBlockEnable \/ ReadHDMezzBlockConfig \/ ClearHDMezzAlertFlag
  \/ SetHDMezzPowerStates \/ ConfigureHDMezzBlock
  \/ SelectAfeBlock(Server)
  \/ CalibrateBegin \/ CalibrateEnd \/ SetDirection
  \/ ReadOutputPort(Server) \/ WriteOutputPort(Server)
  \/ VerifyOutputPort(Server)

Environment ==
  \/ \E b \in AcceptedBlock, r \in Request : Receive(b, r)
  \/ Refuse
  \/ \E t \in Thread : BusError(t)
  \/ \E b \in Block, r \in Rails : OverPower(b, r) \/ PowerNormal(b, r)

Next == MonitorStep \/ ServerStep \/ Environment

Spec == Init /\ [][Next]_vars

(* Both threads keep running: the operating system schedules them and a    *)
(* transaction returns or fails.  Nothing is assumed of clients, of the    *)
(* power flags or of faults.                                               *)
FairSpec == Spec /\ WF_vars(MonitorStep) /\ WF_vars(ServerStep)

-----------------------------------------------------------------------------
(* Only the owner of i2c_2_mutex is between its lock and its unlock, and a  *)
(* device access reaches the block the thread selected: the other thread   *)
(* never moves the switch between selectAfeBlock and the access            *)
(* (DaphneI2CDrivers.cpp:301-387).                                         *)
BusExclusive ==
  \A t \in Thread : /\ pc[t] \in Locked <=> mutex = t
                    /\ sel[t] => pc[t] \in Transaction /\ mux = blk[t]

(* powerOn_HDMezzAfeBlock is a read-modify-write of the output port: when   *)
(* it writes, the value it read is still the port's, so it never undoes a  *)
(* rail change made by the other thread.                                   *)
NoLostUpdate ==
  \A t \in Thread : pc[t] = "portWrite" => out[t] = port[blk[t]]

(* A success answer is true when it is given: setHDMezzPowerStates leaves   *)
(* exactly the requested rails on, configureHDMezzBlock leaves the INA232s *)
(* with the settings the driver reports.                                   *)
SuccessIsTrue ==
  [][reply = "none" /\ reply' = "ok" =>
       /\ req.op = "power" => port'[blk[Server]] = req.want
       /\ req.op = "configure" =>
               hwSet'[blk[Server]] = swSet'[blk[Server]]]_vars

(* "Check and latch the alert condition" (monitoring.cpp:34): only          *)
(* clearHDMezzAlertFlag for that block takes a latched alert back; no      *)
(* reading of the monitor and no other handler does.                       *)
AlertStaysLatched ==
  [][\A b \in Block :
       \/ alert[b] \subseteq alert'[b]
       \/ pc[Server] = "locked" /\ req.op = "clear" /\ blk[Server] = b]_vars

(* The two threads together control the rails as PowerControl says: a job  *)
(* lasts from the first read of an output port to the readback of its last *)
(* write, or to an error (DaphneI2CDrivers.cpp:207-231), and is nobody     *)
(* else's meanwhile.                                                       *)
Switching == {"portRead", "portWrite", "portVerify"}

Job ==
  IF pc[Server] \in Switching
    THEN [who |-> "client", blk |-> blk[Server], want |-> req.want]
    ELSE IF pc[Monitor] \in Switching
      THEN [who |-> "safety", blk |-> blk[Monitor], want |-> {}]
      ELSE [who |-> "nobody"]

PowerAnswer == IF req.op = "power" THEN reply ELSE "none"

Power == INSTANCE PowerControl WITH job <- Job, answer <- PowerAnswer

ImplementsPowerControl == Power!PowerSpec

(* "If there's an alert and the rail is powered, power off the rails for    *)
(* safety" (monitoring.cpp:38): when the monitor is done with an enabled   *)
(* block whose alert is latched, the block's output port drives no rail.   *)
AlertedBlockIsOff ==
  [][\A b \in Block :
       /\ pc[Monitor] \in {"decide", "portVerify"} /\ blk[Monitor] = b
       /\ pc'[Monitor] = "block"
       /\ alert[b] # {}
       => port'[b] = {}]_vars

(* The same as a promise about the future: an alert on an enabled block     *)
(* gets its rails switched off, unless a client clears it or disables the  *)
(* block first, even if a client keeps the power on meanwhile.             *)
AlertShutsDown ==
  \A b \in Block :
    alert[b] # {} /\ enabled[b]
      ~> port[b] = {} \/ alert[b] = {} \/ ~enabled[b]

(* An over-power flag that stays up on an enabled block is latched, however *)
(* the requests of clients interleave with the monitor's try_to_lock, as   *)
(* long as they come to an end: requests without end could starve it.      *)
OverPowerIsLatched ==
  \A b \in Block, r \in Rails :
    <>[](r \in over[b] /\ enabled[b]) => <>(r \in alert[b])

(* The monitor protects a single block: over power is latched, a latched    *)
(* alert switches the rails off, and the pass that saw it does so itself.  *)
AlertsAreActedOn == AlertedBlockIsOff /\ AlertShutsDown /\ OverPowerIsLatched
=============================================================================
