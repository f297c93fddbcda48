---------------------------- MODULE HDMezzProof ----------------------------
(***************************************************************************)
(* Proofs about HDMezz and the control panel, for any number of blocks and *)
(* any bounds; one about alerts is for one block, see there.               *)
(***************************************************************************)
EXTENDS HDMezz, HDMezzPanel, TLAPS

(* Where each thread's control may be, and what the request under way is   *)
(* at the points the handlers reach.                                       *)
ControlInv ==
  /\ pc[Monitor] \notin {"lock", "locked", "calBegin", "calEnd", "direction"}
  /\ pc[Server] \notin {"block", "measure", "alert", "decide"}
  /\ pc[Server] \in {"portRead", "portWrite", "portVerify"} => req.op = "power"
  /\ pc[Server] \in {"calBegin", "calEnd", "direction"} => req.op = "configure"

(* How far powerOn_HDMezzAfeBlock has come: the first rail is as wanted    *)
(* when the second is worked on, and so is a rail that was just written.   *)
SwitchInv ==
  /\ pc[Server] \in {"portRead", "portWrite", "portVerify"}
     /\ rail[Server] = "3V3"
       => ("5V" \in port[blk[Server]] <=> "5V" \in req.want)
  /\ pc[Server] = "portVerify"
       => (rail[Server] \in port[blk[Server]] <=> rail[Server] \in req.want)

(* How far configureHdMezzAfeBlock has come.                               *)
CalibrateInv ==
  LET b == blk[Server] IN
  /\ pc[Server] \in {"calBegin", "calEnd"} /\ rail[Server] = "3V3"
       => hwSet[b]["5V"] = swSet[b]["5V"]
  /\ pc[Server] = "direction" => hwSet[b] = swSet[b]

(* The inductive invariant.                                                *)
IInv == TypeOK /\ BusExclusive /\ NoLostUpdate /\ ControlInv /\ SwitchInv
        /\ CalibrateInv

LEMMA InvStep == IInv /\ Next => IInv'
  <1> SUFFICES ASSUME IInv, Next PROVE IInv'
    OBVIOUS
  <1> USE DEF IInv, Server, Monitor, Thread, Rails, Locked, Transaction, hw,
      drv,
              pub, locals
  <1>TryLock. CASE TryLock
    BY <1>TryLock, BlocksAssumption, BoundsAssumption
    DEF TryLock, Acquire, Goto, TypeOK, BusExclusive, NoLostUpdate, ControlInv,
        SwitchInv, CalibrateInv, Block, Setting, Request, NoThread, NoBlock
  <1>MonitorBlock. CASE MonitorBlock
    <2>1. TypeOK'
      <3>1. CASE Visited(blk[Monitor])
        <4>1. isPowered' \in [Block -> SUBSET Rails]
          <5>1. isPowered' = [isPowered EXCEPT ![blk[Monitor]] = powerStatus]
            BY <1>MonitorBlock, <3>1 DEF MonitorBlock
          <5>. QED
            BY <5>1 DEF TypeOK
        <4>2. /\ pc' = [pc EXCEPT ![Monitor] = "measure"]
              /\ blk[Monitor] \in Block
              /\ UNCHANGED <<mutex, blk>>
          BY <1>MonitorBlock, <3>1 DEF MonitorBlock, Goto
        <4>. QED
          BY <1>MonitorBlock, <4>1, <4>2 DEF MonitorBlock, TypeOK
      <3>2. CASE ~Visited(blk[Monitor])
        <4>1. blk' \in [Thread -> 0 .. NumBlocks]
          BY <1>MonitorBlock, <3>2, BlocksAssumption
          DEF MonitorBlock, NextBlock, TypeOK, Block
        <4>. QED
          BY <1>MonitorBlock, <3>2, <4>1
          DEF MonitorBlock, NextBlock, Goto, TypeOK
      <3>. QED
        BY <3>1, <3>2
    <2>2. BusExclusive'
      BY <1>MonitorBlock
      DEF MonitorBlock, NextBlock, Goto, Visited, TypeOK, BusExclusive,
          ControlInv, NoThread
    <2>3. NoLostUpdate'
      BY <1>MonitorBlock
      DEF MonitorBlock, NextBlock, Goto, Visited, TypeOK, BusExclusive,
          NoLostUpdate, Block, ControlInv
    <2>4. ControlInv'
      BY <1>MonitorBlock
      DEF MonitorBlock, NextBlock, Goto, Visited, TypeOK, BusExclusive,
          ControlInv
    <2>5. SwitchInv'
      BY <1>MonitorBlock
      DEF MonitorBlock, NextBlock, Goto, Visited, TypeOK, BusExclusive,
          NoLostUpdate, ControlInv, SwitchInv, Block
    <2>6. CalibrateInv'
      BY <1>MonitorBlock
      DEF MonitorBlock, NextBlock, Goto, Visited, TypeOK, BusExclusive,
          ControlInv, CalibrateInv, Block, Setting
    <2>. QED
      BY <2>1, <2>2, <2>3, <2>4, <2>5, <2>6 DEF IInv
  <1>EndPass. CASE EndPass
    BY <1>EndPass, BlocksAssumption, BoundsAssumption
    DEF EndPass, Unlock, Goto, TypeOK, BusExclusive, NoLostUpdate, ControlInv,
        SwitchInv, CalibrateInv, Block, Setting, Request, NoThread, NoBlock
  <1>Measure. CASE Measure
    BY <1>Measure, BlocksAssumption, BoundsAssumption
    DEF Measure, Access, Goto, FirstChecked, TypeOK, BusExclusive,
        NoLostUpdate, ControlInv, SwitchInv, CalibrateInv, Block, Setting,
        Request, NoThread, NoBlock
  <1>AlertAlreadyLatched. CASE AlertAlreadyLatched
    BY <1>AlertAlreadyLatched, BlocksAssumption, BoundsAssumption
    DEF AlertAlreadyLatched, AfterAlert, Goto, TypeOK, BusExclusive,
        NoLostUpdate, ControlInv, SwitchInv, CalibrateInv, Block, Setting,
        Request, NoThread, NoBlock
  <1>CheckAlertStatus. CASE CheckAlertStatus
    BY <1>CheckAlertStatus, BlocksAssumption, BoundsAssumption
    DEF CheckAlertStatus, Access, AfterAlert, Goto, TypeOK, BusExclusive,
        NoLostUpdate, ControlInv, SwitchInv, CalibrateInv, Block, Setting,
        Request, NoThread, NoBlock
  <1>Decide. CASE Decide
    BY <1>Decide, BlocksAssumption, BoundsAssumption
    DEF Decide, NextBlock, Goto, TypeOK, BusExclusive, NoLostUpdate,
        ControlInv, SwitchInv, CalibrateInv, Block, Setting, Request, NoThread,
        NoBlock
  <1>Lock. CASE Lock
    BY <1>Lock, BlocksAssumption, BoundsAssumption
    DEF Lock, Acquire, Goto, TypeOK, BusExclusive, NoLostUpdate, ControlInv,
        SwitchInv, CalibrateInv, Block, Setting, Request, NoThread, NoBlock
  <1>SetHDMezzBlockEnable. CASE SetHDMezzBlockEnable
    BY <1>SetHDMezzBlockEnable, BlocksAssumption, BoundsAssumption
    DEF SetHDMezzBlockEnable, Finish, Unlock, Goto, TypeOK, BusExclusive,
        NoLostUpdate, ControlInv, SwitchInv, CalibrateInv, Block, Setting,
        Request, NoThread, NoBlock
  <1>ReadHDMezzBlockConfig. CASE ReadHDMezzBlockConfig
    BY <1>ReadHDMezzBlockConfig, BlocksAssumption, BoundsAssumption
    DEF ReadHDMezzBlockConfig, Finish, Unlock, Goto, TypeOK, BusExclusive,
        NoLostUpdate, ControlInv, SwitchInv, CalibrateInv, Block, Setting,
        Request, NoThread, NoBlock
  <1>ClearHDMezzAlertFlag. CASE ClearHDMezzAlertFlag
    BY <1>ClearHDMezzAlertFlag, BlocksAssumption, BoundsAssumption
    DEF ClearHDMezzAlertFlag, Finish, Unlock, Goto, Cleared, TypeOK,
        BusExclusive, NoLostUpdate, ControlInv, SwitchInv, CalibrateInv, Block,
        Setting, Request, NoThread, NoBlock
  <1>SetHDMezzPowerStates. CASE SetHDMezzPowerStates
    BY <1>SetHDMezzPowerStates, BlocksAssumption, BoundsAssumption
    DEF SetHDMezzPowerStates, Goto, TypeOK, BusExclusive, NoLostUpdate,
        ControlInv, SwitchInv, CalibrateInv, Block, Setting, Request, NoThread,
        NoBlock
  <1>ConfigureHDMezzBlock. CASE ConfigureHDMezzBlock
    <2>1. TypeOK'
      <3>1. swSet' \in [Block -> [Rails -> Setting]]
        <4>0. swSet \in [Block -> [Rails -> Setting]]
          BY DEF TypeOK
        <4>1. req.set \in Settings \cup {"invalid"}
          BY <1>ConfigureHDMezzBlock DEF ConfigureHDMezzBlock, TypeOK, Request
        <4>2. CASE req.set # "invalid"
          <5>1. [r \in Rails |-> req.set] \in [Rails -> Setting]
            BY <4>1, <4>2 DEF Setting
          <5>2. swSet' = [swSet EXCEPT
                            ![blk[Server]] = [r \in Rails |-> req.set]]
            BY <4>2, <1>ConfigureHDMezzBlock DEF ConfigureHDMezzBlock
          <5>. QED
            BY <4>0, <5>1, <5>2
        <4>3. CASE req.set = "invalid"
          <5>1. ASSUME NEW s \in [Rails -> Setting], NEW p \in PartlySet(s)
                PROVE  p \in [Rails -> Setting]
            BY DEF PartlySet, Setting
          <5>2. blk[Server] \in Block
            BY <1>ConfigureHDMezzBlock DEF ConfigureHDMezzBlock, TypeOK
          <5>3. PICK p \in PartlySet(swSet[blk[Server]]) :
                  swSet' = [swSet EXCEPT ![blk[Server]] = p]
            BY <4>3, <1>ConfigureHDMezzBlock DEF ConfigureHDMezzBlock
          <5>4. p \in [Rails -> Setting]
            BY <4>0, <5>1, <5>2, <5>3
          <5>. QED
            BY <4>0, <5>3, <5>4
        <4>. QED
          BY <4>2, <4>3
      <3>. QED
        BY <3>1, <1>ConfigureHDMezzBlock
        DEF ConfigureHDMezzBlock, Goto, Unlock, TypeOK, NoThread
    <2>2. BusExclusive'
      BY <1>ConfigureHDMezzBlock
      DEF ConfigureHDMezzBlock, Goto, Unlock, PartlySet, TypeOK, BusExclusive,
          ControlInv, NoThread
    <2>3. NoLostUpdate'
      BY <1>ConfigureHDMezzBlock
      DEF ConfigureHDMezzBlock, Goto, Unlock, PartlySet, TypeOK, BusExclusive,
          NoLostUpdate, Block, ControlInv
    <2>4. ControlInv'
      BY <1>ConfigureHDMezzBlock
      DEF ConfigureHDMezzBlock, Goto, Unlock, PartlySet, TypeOK, BusExclusive,
          ControlInv
    <2>5. SwitchInv'
      BY <1>ConfigureHDMezzBlock
      DEF ConfigureHDMezzBlock, Goto, Unlock, PartlySet, TypeOK, BusExclusive,
          NoLostUpdate, ControlInv, SwitchInv, Block
    <2>6. CalibrateInv'
      BY <1>ConfigureHDMezzBlock
      DEF ConfigureHDMezzBlock, Goto, Unlock, PartlySet, TypeOK, BusExclusive,
          ControlInv, CalibrateInv, Block, Setting
    <2>. QED
      BY <2>1, <2>2, <2>3, <2>4, <2>5, <2>6 DEF IInv
  <1>CalibrateBegin. CASE CalibrateBegin
    BY <1>CalibrateBegin, BlocksAssumption, BoundsAssumption
    DEF CalibrateBegin, Access, Goto, TypeOK, BusExclusive, NoLostUpdate,
        ControlInv, SwitchInv, CalibrateInv, Block, Setting, Request, NoThread,
        NoBlock
  <1>CalibrateEnd. CASE CalibrateEnd
    BY <1>CalibrateEnd, BlocksAssumption, BoundsAssumption
    DEF CalibrateEnd, Access, Goto, TypeOK, BusExclusive, NoLostUpdate,
        ControlInv, SwitchInv, CalibrateInv, Block, Setting, Request, NoThread,
        NoBlock
  <1>SetDirection. CASE SetDirection
    BY <1>SetDirection, BlocksAssumption, BoundsAssumption
    DEF SetDirection, Access, Unlock, Goto, TypeOK, BusExclusive, NoLostUpdate,
        ControlInv, SwitchInv, CalibrateInv, Block, Setting, Request, NoThread,
        NoBlock
  <1>Refuse. CASE Refuse
    BY <1>Refuse, BlocksAssumption, BoundsAssumption
    DEF Refuse, TypeOK, BusExclusive, NoLostUpdate, ControlInv, SwitchInv,
        CalibrateInv, Block, Setting, Request, NoThread, NoBlock
  <1>SelectAfeBlock. ASSUME NEW t \in Thread, SelectAfeBlock(t) PROVE IInv'
    <2>1. TypeOK'
      <3>1. CASE enabled[blk[t]]
        <4>1. /\ mux' = blk[t] /\ sel' = [sel EXCEPT ![t] = TRUE]
              /\ UNCHANGED <<port, over, hwSet, drv, pub, mutex, pc, locals,
                             req, reply, requests, faults>>
          BY <1>SelectAfeBlock, <3>1 DEF SelectAfeBlock
        <4>2. sel' \in [Thread -> BOOLEAN]
          BY <4>1, Zenon DEF TypeOK
        <4>3. blk[t] \in Block
          BY <1>SelectAfeBlock DEF SelectAfeBlock, InTransaction, TypeOK
        <4>. QED
          BY <4>1, <4>2, <4>3 DEF TypeOK, drv, pub, locals
      <3>2. CASE ~enabled[blk[t]]
        <4>1. Throw(t) /\ UNCHANGED mux
          BY <1>SelectAfeBlock, <3>2 DEF SelectAfeBlock
        <4>2. /\ reply' \in {"none", "ok", "error"}
              /\ sel' \in [Thread -> BOOLEAN]
          BY <4>1 DEF Throw, TypeOK
        <4>. QED
          BY <1>SelectAfeBlock, <4>1, <4>2
          DEF SelectAfeBlock, Throw, Unlock, Goto, TypeOK, NoThread
      <3>. QED
        BY <3>1, <3>2
    <2>2. BusExclusive'
      BY <1>SelectAfeBlock
      DEF SelectAfeBlock, InTransaction, Throw, Unlock, Goto, TypeOK,
          BusExclusive, ControlInv, NoThread
    <2>3. NoLostUpdate'
      BY <1>SelectAfeBlock
      DEF SelectAfeBlock, InTransaction, Throw, Unlock, Goto, TypeOK,
          BusExclusive, NoLostUpdate, Block, ControlInv
    <2>4. ControlInv'
      BY <1>SelectAfeBlock
      DEF SelectAfeBlock, InTransaction, Throw, Unlock, Goto, TypeOK,
          BusExclusive, ControlInv
    <2>5. SwitchInv'
      BY <1>SelectAfeBlock
      DEF SelectAfeBlock, InTransaction, Throw, Unlock, Goto, TypeOK,
          BusExclusive, NoLostUpdate, ControlInv, SwitchInv, Block
    <2>6. CalibrateInv'
      BY <1>SelectAfeBlock
      DEF SelectAfeBlock, InTransaction, Throw, Unlock, Goto, TypeOK,
          BusExclusive, ControlInv, CalibrateInv, Block, Setting
    <2>. QED
      BY <2>1, <2>2, <2>3, <2>4, <2>5, <2>6 DEF IInv
  <1>BusError. ASSUME NEW t \in Thread, BusError(t) PROVE IInv'
    BY <1>BusError, BlocksAssumption, BoundsAssumption
    DEF BusError, InTransaction, Throw, Unlock, Goto, TypeOK, BusExclusive,
        NoLostUpdate, ControlInv, SwitchInv, CalibrateInv, Block, Setting,
        Request, NoThread, NoBlock
  <1>ReadOutputPort. ASSUME NEW t \in Thread, ReadOutputPort(t) PROVE IInv'
    BY <1>ReadOutputPort, BlocksAssumption, BoundsAssumption
    DEF ReadOutputPort, Access, Goto, TypeOK, BusExclusive, NoLostUpdate,
        ControlInv, SwitchInv, CalibrateInv, Block, Setting, Request, NoThread,
        NoBlock
  <1>WriteOutputPort. ASSUME NEW t \in Thread, WriteOutputPort(t) PROVE IInv'
    BY <1>WriteOutputPort, BlocksAssumption, BoundsAssumption
    DEF WriteOutputPort, Switch, Want, Goto, TypeOK, BusExclusive,
        NoLostUpdate, ControlInv, SwitchInv, CalibrateInv, Block, Setting,
        Request, NoThread, NoBlock
  <1>VerifyOutputPort. ASSUME NEW t \in Thread, VerifyOutputPort(t) PROVE IInv'
    <2>1. TypeOK'
      <3>1. powerStatus' \in SUBSET Rails
        BY <1>VerifyOutputPort DEF VerifyOutputPort, Switch, TypeOK
      <3>2. blk[t] \in Block
        BY <1>VerifyOutputPort DEF VerifyOutputPort, Access, TypeOK
      <3>3. CASE rail[t] = "5V"
        BY <1>VerifyOutputPort, <3>1, <3>2, <3>3
        DEF VerifyOutputPort, Access, Goto, SecondRail, TypeOK
      <3>4. CASE rail[t] = "3V3" /\ t = "server"
        BY <1>VerifyOutputPort, <3>1, <3>4
        DEF VerifyOutputPort, Access, Unlock, Goto, TypeOK, NoThread
      <3>5. CASE rail[t] = "3V3" /\ t = "monitor"
        <4>1. blk' \in [Thread -> 0 .. NumBlocks]
          BY <1>VerifyOutputPort, <3>2, <3>5, BlocksAssumption
          DEF VerifyOutputPort, NextBlock, TypeOK, Block
        <4>. QED
          BY <1>VerifyOutputPort, <3>1, <3>5, <4>1
          DEF VerifyOutputPort, Access, NextBlock, Goto, TypeOK
      <3>. QED
        BY <3>3, <3>4, <3>5 DEF TypeOK
    <2>2. BusExclusive'
      BY <1>VerifyOutputPort
      DEF VerifyOutputPort, Access, Switch, Want, Unlock, NextBlock, Goto,
          SecondRail, TypeOK, BusExclusive, ControlInv, NoThread
    <2>3. NoLostUpdate'
      BY <1>VerifyOutputPort
      DEF VerifyOutputPort, Access, Switch, Want, Unlock, NextBlock, Goto,
          SecondRail, TypeOK, BusExclusive, NoLostUpdate, Block, ControlInv
    <2>4. ControlInv'
      BY <1>VerifyOutputPort
      DEF VerifyOutputPort, Access, Switch, Want, Unlock, NextBlock, Goto,
          SecondRail, TypeOK, BusExclusive, ControlInv
    <2>5. SwitchInv'
      BY <1>VerifyOutputPort
      DEF VerifyOutputPort, Access, Switch, Want, Unlock, NextBlock, Goto,
          SecondRail, TypeOK, BusExclusive, NoLostUpdate, ControlInv,
          SwitchInv, Block
    <2>6. CalibrateInv'
      BY <1>VerifyOutputPort
      DEF VerifyOutputPort, Access, Switch, Want, Unlock, NextBlock, Goto,
          SecondRail, TypeOK, BusExclusive, ControlInv, CalibrateInv, Block,
          Setting
    <2>. QED
      BY <2>1, <2>2, <2>3, <2>4, <2>5, <2>6 DEF IInv
  <1>Receive. ASSUME NEW b \in Block, NEW r \in Request, Receive(b, r)
              PROVE  IInv'
    BY <1>Receive, BlocksAssumption, BoundsAssumption
    DEF Receive, Goto, TypeOK, BusExclusive, NoLostUpdate, ControlInv,
        SwitchInv, CalibrateInv, Block, Setting, Request, NoThread, NoBlock
  <1>OverPower. ASSUME NEW b \in Block, NEW r \in Rails,
                       OverPower(b, r) \/ PowerNormal(b, r)
                PROVE  IInv'
    <2>1. TypeOK'
      <3>1. over' \in [Block -> SUBSET Rails]
        BY <1>OverPower DEF OverPower, PowerNormal, TypeOK
      <3>. QED
        BY <1>OverPower, <3>1 DEF OverPower, PowerNormal, TypeOK
    <2>2. BusExclusive'
      BY <1>OverPower
      DEF OverPower, PowerNormal, TypeOK, BusExclusive, ControlInv, NoThread
    <2>3. NoLostUpdate'
      BY <1>OverPower
      DEF OverPower, PowerNormal, TypeOK, BusExclusive, NoLostUpdate, Block,
          ControlInv
    <2>4. ControlInv'
      BY <1>OverPower
      DEF OverPower, PowerNormal, TypeOK, BusExclusive, ControlInv
    <2>5. SwitchInv'
      BY <1>OverPower
      DEF OverPower, PowerNormal, TypeOK, BusExclusive, NoLostUpdate,
          ControlInv, SwitchInv, Block
    <2>6. CalibrateInv'
      BY <1>OverPower
      DEF OverPower, PowerNormal, TypeOK, BusExclusive, ControlInv,
          CalibrateInv, Block, Setting
    <2>. QED
      BY <2>1, <2>2, <2>3, <2>4, <2>5, <2>6 DEF IInv
  <1>. QED
    BY <1>TryLock, <1>MonitorBlock, <1>EndPass, <1>Measure,
       <1>AlertAlreadyLatched, <1>CheckAlertStatus, <1>Decide, <1>Lock,
       <1>SetHDMezzBlockEnable, <1>ReadHDMezzBlockConfig,
       <1>ClearHDMezzAlertFlag, <1>SetHDMezzPowerStates,
       <1>ConfigureHDMezzBlock, <1>CalibrateBegin, <1>CalibrateEnd,
       <1>SetDirection, <1>Refuse, <1>SelectAfeBlock, <1>BusError,
       <1>ReadOutputPort, <1>WriteOutputPort, <1>VerifyOutputPort,
       <1>Receive, <1>OverPower
       DEF Next, MonitorStep, ServerStep, Environment, AcceptedBlock

LEMMA InvInit == Init => IInv
  BY BlocksAssumption, SettingsAssumption, BoundsAssumption
  DEF Init, IInv, TypeOK, BusExclusive, NoLostUpdate, ControlInv, SwitchInv,
      CalibrateInv, Block, Setting, Request, Rails, Thread, Locked,
      Transaction,
      NoThread, NoBlock, Server, Monitor

LEMMA InvStutter == IInv /\ UNCHANGED vars => IInv'
  BY DEF vars, hw, drv, pub, locals, IInv, TypeOK, BusExclusive, NoLostUpdate,
         ControlInv, SwitchInv, CalibrateInv

LEMMA Invariance == Spec => []IInv
  <1>1. IInv /\ [Next]_vars => IInv'
    BY InvStep, InvStutter
  <1>. QED
    BY InvInit, <1>1, PTL DEF Spec

(* Every state of HDMezz has the types of the code's variables, whatever    *)
(* the number of blocks, requests and faults.                              *)
THEOREM TypeCorrect == Spec => []TypeOK
  BY Invariance, PTL DEF IInv

(* i2c_2_mutex makes an I2C transaction (selectAfeBlock and the access      *)
(* behind the switch) exclusive: no access reaches another block.          *)
THEOREM BusIsExclusive == Spec => []BusExclusive
  BY Invariance, PTL DEF IInv

(* The read-modify-writes of powerOn_HDMezzAfeBlock lose no update.         *)
THEOREM UpdatesAreKept == Spec => []NoLostUpdate
  BY Invariance, PTL DEF IInv

(* A success answer of setHDMezzPowerStates or configureHDMezzBlock is true *)
(* of the hardware at the time it is given.                                *)
THEOREM AnswersAreTrue == Spec => SuccessIsTrue
  <1> DEFINE Good == reply = "none" /\ reply' = "ok" =>
                 /\ req.op = "power" => port'[blk[Server]] = req.want
                 /\ req.op = "configure" =>
                         hwSet'[blk[Server]] = swSet'[blk[Server]]
  <1>1. IInv /\ [Next]_vars => [Good]_vars
    <2> SUFFICES ASSUME IInv, Next, reply = "none", reply' = "ok"
                 PROVE  /\ req.op = "power" => port'[blk[Server]] = req.want
                        /\ req.op = "configure"
                             => hwSet'[blk[Server]] = swSet'[blk[Server]]
      OBVIOUS
    <2>1. \/ VerifyOutputPort(Server) /\ rail[Server] = "3V3"
          \/ SetDirection
          \/ SetHDMezzBlockEnable \/ ReadHDMezzBlockConfig
          \/ ClearHDMezzAlertFlag
      BY DEF Next, MonitorStep, ServerStep, Environment, TryLock, MonitorBlock,
             EndPass, SelectAfeBlock, Throw, Measure, AlertAlreadyLatched,
             CheckAlertStatus, Decide, ReadOutputPort, WriteOutputPort,
             VerifyOutputPort, Lock, SetHDMezzPowerStates,
             ConfigureHDMezzBlock,
             CalibrateBegin, CalibrateEnd, Receive, Refuse, BusError,
             OverPower,
             PowerNormal, Server, Monitor, Thread
    <2>2. CASE VerifyOutputPort(Server) /\ rail[Server] = "3V3"
      <3>1. req.op = "power" /\ req.want \in SUBSET Rails
        BY <2>2 DEF VerifyOutputPort, Access, IInv, ControlInv, TypeOK, Server,
                    Request
      <3>2. port[blk[Server]] \in SUBSET Rails
        BY <2>2 DEF VerifyOutputPort, Access, IInv, TypeOK, Server, Thread,
                    Transaction
      <3>3. /\ "5V" \in port[blk[Server]] <=> "5V" \in req.want
            /\ "3V3" \in port[blk[Server]] <=> "3V3" \in req.want
        BY <2>2 DEF VerifyOutputPort, Access, IInv, SwitchInv, Server
      <3>4. port' = port
        BY <2>2 DEF VerifyOutputPort
      <3>. QED
        BY <3>1, <3>2, <3>3, <3>4 DEF Rails
    <2>3. CASE SetDirection
      BY <2>3 DEF SetDirection, Access, IInv, ControlInv, CalibrateInv, drv,
                  Server
    <2>4. CASE \/ SetHDMezzBlockEnable \/ ReadHDMezzBlockConfig
               \/ ClearHDMezzAlertFlag
      BY <2>4 DEF SetHDMezzBlockEnable, ReadHDMezzBlockConfig,
                  ClearHDMezzAlertFlag, Finish
    <2>. QED
      BY <2>1, <2>2, <2>3, <2>4
  <1>. QED
    BY Invariance, <1>1, PTL DEF Spec, SuccessIsTrue

(* A latched alert is taken back only by clearHDMezzAlertFlag for that      *)
(* block.                                                                  *)
THEOREM AlertsAreLatched == Spec => AlertStaysLatched
  <1> DEFINE Kept == \A b \in Block :
                \/ alert[b] \subseteq alert'[b]
                \/ pc[Server] = "locked" /\ req.op = "clear" /\ blk[Server] = b
  <1>1. IInv /\ [Next]_vars => [Kept]_vars
    <2> SUFFICES ASSUME IInv, Next PROVE Kept
      OBVIOUS
    <2>1. UNCHANGED alert \/ CheckAlertStatus \/ ClearHDMezzAlertFlag
      BY DEF Next, MonitorStep, ServerStep, Environment, TryLock, MonitorBlock,
             EndPass, SelectAfeBlock, Measure, AlertAlreadyLatched, Decide,
             ReadOutputPort, WriteOutputPort, VerifyOutputPort, Lock,
             SetHDMezzBlockEnable, ReadHDMezzBlockConfig, SetHDMezzPowerStates,
             ConfigureHDMezzBlock, CalibrateBegin, CalibrateEnd, SetDirection,
             Receive, Refuse, BusError, OverPower, PowerNormal, pub
    <2>2. CASE UNCHANGED alert
      BY <2>2
    <2>3. CASE CheckAlertStatus
      BY <2>3 DEF CheckAlertStatus, IInv, TypeOK
    <2>4. CASE ClearHDMezzAlertFlag
      BY <2>4 DEF ClearHDMezzAlertFlag, Finish, Cleared, IInv, TypeOK
    <2>. QED
      BY <2>1, <2>2, <2>3, <2>4
  <1>. QED
    BY Invariance, <1>1, PTL DEF Spec, AlertStaysLatched

-----------------------------------------------------------------------------
(* What the monitor leaves of an alerted block.                            *)

(* How far the monitor's shutdown has come, on any number of blocks.       *)
ShutdownInv ==
  /\ pc[Monitor] \in {"portRead", "portWrite", "portVerify"}
     /\ rail[Monitor] = "3V3"
       => "5V" \notin port[blk[Monitor]]
  /\ pc[Monitor] = "portVerify" => rail[Monitor] \notin port[blk[Monitor]]

LEMMA ShutdownStep ==
  ASSUME IInv, ShutdownInv, [Next]_vars
  PROVE  ShutdownInv'
<1>. USE DEF Monitor, Server, Thread, Rails
<1>0. /\ port \in [Block -> SUBSET Rails] /\ pc \in [Thread -> Locked \cup {"idle", "lock"}]
      /\ blk \in [Thread -> 0 .. NumBlocks] /\ rail \in [Thread -> Rails]
      /\ \A t \in Thread : pc[t] \in Transaction \cup {"decide", "locked", "lock"}
                             => blk[t] \in Block
  BY DEF IInv, TypeOK
<1>1. /\ \A t \in Thread : /\ pc[t] \in Locked <=> mutex = t
                           /\ sel[t] => pc[t] \in Transaction /\ mux = blk[t]
      /\ \A t \in Thread : pc[t] = "portWrite" => out[t] = port[blk[t]]
  BY DEF IInv, BusExclusive, NoLostUpdate
<1>2. pc[Server] \in {"portRead", "portWrite", "portVerify"} =>
        pc[Monitor] \notin {"portRead", "portWrite", "portVerify"}
  BY <1>1 DEF Locked, Transaction
<1>3. /\ pc[Monitor] \in {"portRead", "portWrite", "portVerify"} => blk[Monitor] \in Block
      /\ pc[Server] \in {"portRead", "portWrite", "portVerify"} => blk[Server] \in Block
  BY <1>0 DEF Transaction
<1>4. CASE WriteOutputPort(Monitor)
  <2>1. /\ pc[Monitor] = "portWrite" /\ mux = blk[Monitor] /\ blk[Monitor] \in Block
        /\ port' = [port EXCEPT ![mux] = out[Monitor] \ {rail[Monitor]}]
        /\ pc' = [pc EXCEPT ![Monitor] = "portVerify"]
        /\ rail' = rail /\ blk' = blk /\ out[Monitor] = port[blk[Monitor]]
    BY <1>1, <1>3, <1>4 DEF WriteOutputPort, Switch, Want, Goto, locals
  <2>2. port'[blk'[Monitor]] = port[blk[Monitor]] \ {rail[Monitor]}
    BY <1>0, <2>1
  <2>. QED
    BY <2>1, <2>2 DEF ShutdownInv
<1>5. CASE VerifyOutputPort(Monitor)
  <2>1. pc[Monitor] = "portVerify" /\ port' = port
    BY <1>5 DEF VerifyOutputPort, Access
  <2>2. CASE rail[Monitor] = "5V" /\ rail' = [rail EXCEPT ![Monitor] = "3V3"]
             /\ pc' = [pc EXCEPT ![Monitor] = SecondRail] /\ blk' = blk
    BY <1>0, <2>1, <2>2 DEF ShutdownInv, SecondRail
  <2>3. CASE pc' = [pc EXCEPT ![Monitor] = "block"]
    BY <1>0, <2>3 DEF ShutdownInv
  <2>. QED
    BY <1>5, <2>2, <2>3 DEF VerifyOutputPort, Goto, NextBlock
<1>6. CASE WriteOutputPort(Server)
  <2>1. pc[Server] = "portWrite" /\ pc' = [pc EXCEPT ![Server] = "portVerify"]
    BY <1>6 DEF WriteOutputPort, Goto
  <2>2. pc'[Monitor] \notin {"portRead", "portWrite", "portVerify"}
    BY <1>0, <1>2, <2>1
  <2>. QED
    BY <2>2 DEF ShutdownInv
<1>7. CASE ~WriteOutputPort(Monitor) /\ ~VerifyOutputPort(Monitor) /\ ~WriteOutputPort(Server)
  <2>1. port' = port
    BY <1>7 DEF Next, MonitorStep, ServerStep, Environment, vars, hw, TryLock, MonitorBlock,
       EndPass, SelectAfeBlock, Measure, Access, AlertAlreadyLatched, CheckAlertStatus, Decide,
       ReadOutputPort, Lock, SetHDMezzBlockEnable, Finish, ReadHDMezzBlockConfig,
       ClearHDMezzAlertFlag, SetHDMezzPowerStates, ConfigureHDMezzBlock, CalibrateBegin,
       CalibrateEnd, SetDirection, VerifyOutputPort, Receive, Refuse, BusError, OverPower,
       PowerNormal
  <2>2. CASE Decide \/ Measure \/ AlertAlreadyLatched \/ CheckAlertStatus \/ MonitorBlock
             \/ TryLock \/ EndPass
    <3>1. \/ pc'[Monitor] \notin {"portRead", "portWrite", "portVerify"}
          \/ pc'[Monitor] = "portRead" /\ rail'[Monitor] = "5V"
      BY <1>0, <2>2 DEF Decide, Measure, AlertAlreadyLatched, CheckAlertStatus, MonitorBlock,
         TryLock, EndPass, Goto, NextBlock, Unlock, AfterAlert, Access
    <3>. QED
      BY <3>1 DEF ShutdownInv
  <2>3. CASE ReadOutputPort(Monitor)
    <3>1. pc[Monitor] = "portRead" /\ pc' = [pc EXCEPT ![Monitor] = "portWrite"]
          /\ rail' = rail /\ blk' = blk
      BY <2>3 DEF ReadOutputPort, Access, Goto
    <3>. QED
      BY <1>0, <2>1, <3>1 DEF ShutdownInv
  <2>4. CASE SelectAfeBlock(Monitor) \/ BusError(Monitor)
    <3>1. \/ pc'[Monitor] = "idle"
          \/ pc' = pc /\ rail' = rail /\ blk' = blk
      BY <1>0, <2>4 DEF SelectAfeBlock, BusError, Throw, Unlock, Goto, locals
    <3>. QED
      BY <2>1, <3>1 DEF ShutdownInv
  <2>5. CASE ServerStep \/ BusError(Server) \/ Refuse
             \/ \E b \in AcceptedBlock, r \in Request : Receive(b, r)
    <3>1. pc'[Monitor] = pc[Monitor] /\ rail'[Monitor] = rail[Monitor]
          /\ blk'[Monitor] = blk[Monitor]
      BY <1>0, <1>7, <2>5 DEF ServerStep, Lock, SetHDMezzBlockEnable, Finish, Goto, Unlock,
         ReadHDMezzBlockConfig, ClearHDMezzAlertFlag, SetHDMezzPowerStates,
         ConfigureHDMezzBlock, CalibrateBegin, CalibrateEnd, SetDirection, ReadOutputPort,
         VerifyOutputPort, Receive, Refuse, BusError, Throw, SelectAfeBlock, locals
    <3>. QED
      BY <2>1, <3>1 DEF ShutdownInv
  <2>6. CASE UNCHANGED vars \/ \E b \in Block, r \in Rails : OverPower(b, r) \/ PowerNormal(b, r)
    <3>1. pc' = pc /\ rail' = rail /\ blk' = blk
      BY <2>6 DEF vars, locals, OverPower, PowerNormal
    <3>. QED
      BY <2>1, <3>1 DEF ShutdownInv
  <2>7. \/ Decide \/ Measure \/ AlertAlreadyLatched \/ CheckAlertStatus \/ MonitorBlock
        \/ TryLock \/ EndPass \/ ReadOutputPort(Monitor)
        \/ SelectAfeBlock(Monitor) \/ BusError(Monitor)
        \/ ServerStep \/ BusError(Server) \/ Refuse
        \/ (\E b \in AcceptedBlock, r \in Request : Receive(b, r))
        \/ UNCHANGED vars \/ \E b \in Block, r \in Rails : OverPower(b, r) \/ PowerNormal(b, r)
    BY <1>7 DEF Next, MonitorStep, Environment
  <2>. QED
    BY <2>2, <2>3, <2>4, <2>5, <2>6, <2>7
<1>. QED
  BY <1>4, <1>5, <1>6, <1>7

(* With one block and no fault, what the driver believes of the rails is   *)
(* never less than what the port drives, but between a write and its       *)
(* readback; and what was published in a pass is what the driver believes. *)
Seen == {"measure", "alert", "decide"}

BelievedInv ==
  /\ \A t \in Thread :
       pc[t] = "portVerify" =>
         /\ sel[t] /\ port[0] \subseteq powerStatus \cup {rail[t]}
         /\ rail[t] \in port[0] => rail[t] \in Want(t)
  /\ (\A t \in Thread : pc[t] # "portVerify") => port[0] \subseteq powerStatus
  /\ pc[Monitor] \in Seen => isPowered[0] = powerStatus

(* A step that neither writes nor verifies an output port.                 *)
LEMMA BelievedKept ==
  ASSUME BelievedInv, port' = port, powerStatus' = powerStatus, isPowered' = isPowered,
         \A t \in Thread :
           /\ pc'[t] = "portVerify" <=> pc[t] = "portVerify"
           /\ pc[t] = "portVerify" => sel'[t] = sel[t] /\ rail'[t] = rail[t],
         pc[Server] = "portVerify" => req' = req,
         pc'[Monitor] \in Seen => pc[Monitor] \in Seen
  PROVE  BelievedInv'
<1>1. \A t \in Thread : pc[t] = "portVerify" => Want(t)' = Want(t)
  BY DEF Want, Thread, Server
<1>. QED
  BY <1>1 DEF BelievedInv

LEMMA BelievedStep ==
  ASSUME NumBlocks = 1, MaxFaults = 0, IInv, BelievedInv, [Next]_vars
  PROVE  BelievedInv'
<1>. USE DEF Monitor, Server, Thread
<1>0. /\ port \in [Block -> SUBSET Rails] /\ pc \in [Thread -> Locked \cup {"idle", "lock"}]
      /\ isPowered \in [Block -> SUBSET Rails]
      /\ blk \in [Thread -> 0 .. NumBlocks] /\ rail \in [Thread -> Rails]
      /\ sel \in [Thread -> BOOLEAN] /\ faults \in 0 .. MaxFaults
      /\ \A t \in Thread : pc[t] \in Transaction \cup {"decide", "locked", "lock"}
                             => blk[t] \in Block
  BY DEF IInv, TypeOK
<1>1. /\ \A t \in Thread : /\ pc[t] \in Locked <=> mutex = t
                           /\ sel[t] => pc[t] \in Transaction /\ mux = blk[t]
      /\ \A t \in Thread : pc[t] = "portWrite" => out[t] = port[blk[t]]
  BY DEF IInv, BusExclusive, NoLostUpdate
<1>2. Block = {0}
  BY DEF Block
<1>3. \A t \in Thread : pc[t] \in Transaction => blk[t] = 0
  BY <1>0, <1>2
<1>4. \A t, u \in Thread : pc[t] \in Locked /\ pc[u] \in Locked => t = u
  BY <1>1
<1>5. "portVerify" \in Locked /\ "portWrite" \in Locked /\ Seen \subseteq Locked
      /\ "portVerify" \in Transaction /\ "portWrite" \in Transaction
      /\ "portVerify" \notin Seen /\ "portWrite" \notin Seen
  BY DEF Locked, Transaction, Seen
<1>6. ASSUME NEW t \in Thread, WriteOutputPort(t) PROVE BelievedInv'
  <2>1. /\ pc[t] = "portWrite" /\ sel[t] /\ mux = 0 /\ out[t] = port[0]
        /\ port' = [port EXCEPT ![mux] = Switch(t, out[t])]
        /\ pc' = [pc EXCEPT ![t] = "portVerify"]
        /\ rail' = rail /\ sel' = sel /\ powerStatus' = powerStatus
        /\ isPowered' = isPowered /\ req' = req
    BY <1>1, <1>3, <1>5, <1>6 DEF WriteOutputPort, Goto, locals, drv, pub
  <2>2. port'[0] = Switch(t, port[0])
    BY <1>0, <1>2, <2>1
  <2>3. \A u \in Thread : pc[u] # "portVerify"
    BY <1>4, <1>5, <2>1
  <2>4. port[0] \subseteq powerStatus
    BY <2>3 DEF BelievedInv
  <2>5. /\ port'[0] \subseteq powerStatus \cup {rail[t]}
        /\ rail[t] \in port'[0] => rail[t] \in Want(t)
    BY <2>2, <2>4 DEF Switch
  <2>6. \A u \in Thread : pc'[u] = "portVerify" <=> u = t
    BY <1>0, <2>1, <2>3
  <2>7. pc'[Monitor] \notin Seen
    BY <1>0, <1>4, <1>5, <2>1
  <2>8. Want(t)' = Want(t)
    BY <2>1 DEF Want
  <2>. QED
    BY <2>1, <2>5, <2>6, <2>7, <2>8 DEF BelievedInv
<1>7. ASSUME NEW t \in Thread, VerifyOutputPort(t) PROVE BelievedInv'
  <2>1. /\ pc[t] = "portVerify" /\ powerStatus' = Switch(t, powerStatus) /\ port' = port
        /\ isPowered' = isPowered
    BY <1>7 DEF VerifyOutputPort, Access, pub
  <2>2. \E p \in {"portRead", "idle", "block"} : pc' = [pc EXCEPT ![t] = p]
    BY <1>7 DEF VerifyOutputPort, Goto, NextBlock, Unlock, SecondRail
  <2>3. \A u \in Thread : u # t => pc[u] # "portVerify" /\ pc[u] \notin Seen
    BY <1>4, <1>5, <2>1
  <2>4. \A u \in Thread : pc'[u] # "portVerify"
    BY <1>0, <2>2, <2>3
  <2>5. pc'[Monitor] \notin Seen
    BY <1>0, <2>2, <2>3 DEF Seen
  <2>6. port[0] \subseteq powerStatus \cup {rail[t]} /\ (rail[t] \in port[0] => rail[t] \in Want(t))
    BY <2>1 DEF BelievedInv
  <2>7. port'[0] \subseteq powerStatus'
    BY <2>1, <2>6 DEF Switch
  <2>. QED
    BY <2>4, <2>5, <2>7 DEF BelievedInv
<1>8. CASE MonitorBlock
  <2>1. pc[Monitor] = "block" /\ port' = port /\ powerStatus' = powerStatus
        /\ sel' = sel /\ rail' = rail /\ req' = req
    BY <1>8 DEF MonitorBlock, hw, drv
  <2>2. CASE isPowered' = [isPowered EXCEPT ![blk[Monitor]] = powerStatus]
             /\ pc' = [pc EXCEPT ![Monitor] = "measure"] /\ blk[Monitor] \in Block
    <3>1. isPowered'[0] = powerStatus
      BY <1>0, <1>2, <2>2
    <3>2. \A t \in Thread : pc'[t] = "portVerify" <=> pc[t] = "portVerify"
      BY <1>0, <2>1, <2>2
    <3>3. \A t \in Thread : Want(t)' = Want(t)
      BY <2>1 DEF Want
    <3>. QED
      BY <2>1, <3>1, <3>2, <3>3 DEF BelievedInv
  <2>3. CASE isPowered' = isPowered /\ pc' = [pc EXCEPT ![Monitor] = "block"]
    <3>1. /\ \A t \in Thread : pc'[t] = "portVerify" <=> pc[t] = "portVerify"
          /\ pc'[Monitor] \notin Seen
      BY <1>0, <2>1, <2>3 DEF Seen
    <3>. QED
      BY <2>1, <2>3, <3>1, BelievedKept
  <2>. QED
    BY <1>8, <2>2, <2>3 DEF MonitorBlock, NextBlock, Goto
<1>9. ASSUME NEW t \in Thread, SelectAfeBlock(t) PROVE BelievedInv'
  <2>1. ~sel[t] /\ port' = port /\ powerStatus' = powerStatus /\ isPowered' = isPowered
        /\ rail' = rail /\ req' = req /\ (pc' = pc \/ pc' = [pc EXCEPT ![t] = "idle"])
        /\ \E v \in BOOLEAN : sel' = [sel EXCEPT ![t] = v]
    BY <1>9 DEF SelectAfeBlock, Throw, Unlock, Goto, drv, pub, locals
  <2>2. pc[t] # "portVerify"
    BY <2>1 DEF BelievedInv
  <2>3. \A u \in Thread : /\ pc'[u] = "portVerify" <=> pc[u] = "portVerify"
                          /\ pc[u] = "portVerify" => sel'[u] = sel[u]
    BY <1>0, <2>1, <2>2
  <2>4. pc'[Monitor] \in Seen => pc[Monitor] \in Seen
    BY <1>0, <2>1 DEF Seen
  <2>. QED
    BY <2>1, <2>3, <2>4, BelievedKept
<1>10. CASE Measure \/ AlertAlreadyLatched \/ CheckAlertStatus \/ Decide \/ TryLock \/ EndPass
            \/ ReadOutputPort(Monitor)
  <2>1. port' = port /\ powerStatus' = powerStatus /\ isPowered' = isPowered
        /\ req' = req /\ pc[Monitor] # "portVerify"
    BY <1>10 DEF Measure, AlertAlreadyLatched, CheckAlertStatus, Decide, TryLock, EndPass,
       ReadOutputPort, Access, hw, drv, pub
  <2>2. \E p : pc' = [pc EXCEPT ![Monitor] = p] /\ p # "portVerify"
               /\ (p \in Seen => pc[Monitor] \in Seen)
    <3>1. CASE Measure
      BY <3>1 DEF Measure, Access, Goto, Seen
    <3>2. CASE AlertAlreadyLatched \/ CheckAlertStatus
      <4>1. pc[Monitor] = "alert" /\ (pc' = pc \/ pc' = [pc EXCEPT ![Monitor] = "decide"])
        BY <3>2 DEF AlertAlreadyLatched, CheckAlertStatus, Access, AfterAlert, Goto
      <4>2. pc' = pc => pc' = [pc EXCEPT ![Monitor] = "alert"]
        BY <1>0, <4>1
      <4>. QED
        BY <4>1, <4>2 DEF Seen
    <3>3. CASE Decide
      BY <3>3 DEF Decide, Goto, NextBlock, Seen
    <3>4. CASE TryLock \/ EndPass \/ ReadOutputPort(Monitor)
      BY <3>4 DEF TryLock, EndPass, ReadOutputPort, Access, Goto, Unlock, Seen
    <3>. QED
      BY <1>10, <3>1, <3>2, <3>3, <3>4
  <2>3. sel'[Server] = sel[Server] /\ rail'[Server] = rail[Server]
    BY <1>0, <1>10 DEF Measure, AlertAlreadyLatched, CheckAlertStatus, Decide, TryLock, EndPass,
       ReadOutputPort, Access, AfterAlert, locals
  <2>4. \A t \in Thread : pc'[t] = "portVerify" <=> pc[t] = "portVerify"
    BY <1>0, <2>1, <2>2
  <2>5. pc'[Monitor] \in Seen => pc[Monitor] \in Seen
    BY <1>0, <2>2
  <2>. QED
    BY <2>1, <2>3, <2>4, <2>5, BelievedKept
<1>11. CASE \/ Lock \/ SetHDMezzBlockEnable \/ ReadHDMezzBlockConfig \/ ClearHDMezzAlertFlag
            \/ SetHDMezzPowerStates \/ ConfigureHDMezzBlock
            \/ CalibrateBegin \/ CalibrateEnd \/ SetDirection \/ ReadOutputPort(Server)
            \/ Refuse \/ \E b \in AcceptedBlock, r \in Request : Receive(b, r)
  <2>1. port' = port /\ powerStatus' = powerStatus /\ isPowered' = isPowered
        /\ pc[Server] # "portVerify"
        /\ \/ pc' = pc
           \/ \E p \in {"idle", "lock", "locked", "portRead", "portWrite", "calBegin", "calEnd",
                        "direction"} : pc' = [pc EXCEPT ![Server] = p]
    BY <1>11 DEF Lock, SetHDMezzBlockEnable, Finish, Goto, Unlock,
         ReadHDMezzBlockConfig, ClearHDMezzAlertFlag, SetHDMezzPowerStates,
         ConfigureHDMezzBlock, CalibrateBegin, CalibrateEnd, SetDirection, ReadOutputPort,
         Receive, Refuse, Access, hw, drv, pub
  <2>2. sel'[Monitor] = sel[Monitor] /\ rail'[Monitor] = rail[Monitor]
    BY <1>0, <1>11 DEF Lock, SetHDMezzBlockEnable, Finish, Goto, Unlock,
         ReadHDMezzBlockConfig, ClearHDMezzAlertFlag, SetHDMezzPowerStates,
         ConfigureHDMezzBlock, CalibrateBegin, CalibrateEnd, SetDirection, ReadOutputPort,
         Receive, Refuse, Access, locals
  <2>3. \A t \in Thread : pc'[t] = "portVerify" <=> pc[t] = "portVerify"
    BY <1>0, <2>1
  <2>4. pc'[Monitor] = pc[Monitor]
    BY <1>0, <2>1
  <2>. QED
    BY <2>1, <2>2, <2>3, <2>4, BelievedKept
<1>12. CASE UNCHANGED vars \/ \E b \in Block, r \in Rails : OverPower(b, r) \/ PowerNormal(b, r)
  <2>1. /\ port' = port /\ powerStatus' = powerStatus /\ isPowered' = isPowered
        /\ pc' = pc /\ sel' = sel /\ rail' = rail /\ req' = req
    BY <1>12 DEF vars, hw, drv, pub, locals, OverPower, PowerNormal
  <2>. QED
    BY <2>1, BelievedKept
<1>13. \A t \in Thread : ~BusError(t)
  BY <1>0 DEF BusError
<1>. QED
  BY <1>6, <1>7, <1>8, <1>9, <1>10, <1>11, <1>12, <1>13
     DEF Next, MonitorStep, ServerStep, Environment

LEMMA ShutdownAlways == Spec => [](IInv /\ ShutdownInv)
<1>1. Init => ShutdownInv
  BY DEF Init, ShutdownInv, Monitor, Thread
<1>2. IInv /\ ShutdownInv /\ [Next]_vars => ShutdownInv'
  BY ShutdownStep
<1>. QED
  BY <1>1, <1>2, Invariance, PTL DEF Spec

LEMMA BelievedAlways ==
  ASSUME NumBlocks = 1, MaxFaults = 0
  PROVE  Spec => [](IInv /\ BelievedInv)
<1>1. Init => BelievedInv
  <2>1. 0 \in Block
    BY DEF Block
  <2>. QED
    BY <2>1 DEF Init, BelievedInv, Monitor, Server, Thread, Seen
<1>2. IInv /\ BelievedInv /\ [Next]_vars => BelievedInv'
  BY BelievedStep
<1>. QED
  BY <1>1, <1>2, Invariance, PTL DEF Spec

(* How the monitor may leave a block.                                      *)
LEMMA LeavesBlock ==
  ASSUME IInv, [Next]_vars, pc[Monitor] \in {"decide", "portVerify"}, pc'[Monitor] = "block"
  PROVE  /\ port' = port
         /\ \/ pc[Monitor] = "decide" /\ ~ShutdownNeeded(blk[Monitor])
            \/ pc[Monitor] = "portVerify" /\ rail[Monitor] = "3V3"
<1>. USE DEF Monitor, Server, Thread
<1>1. pc \in [Thread -> Locked \cup {"idle", "lock"}] /\ mutex = Monitor
      /\ pc[Server] \notin Locked
  BY DEF IInv, TypeOK, BusExclusive, Locked, Transaction
<1>2. \/ Decide \/ VerifyOutputPort(Monitor) \/ SelectAfeBlock(Monitor) \/ BusError(Monitor)
      \/ pc'[Monitor] = pc[Monitor] \/ Lock
  <2>1. ~(TryLock \/ MonitorBlock \/ EndPass \/ Measure \/ AlertAlreadyLatched
            \/ CheckAlertStatus \/ ReadOutputPort(Monitor) \/ WriteOutputPort(Monitor))
    BY DEF TryLock, MonitorBlock, EndPass, Measure, AlertAlreadyLatched,
       CheckAlertStatus, ReadOutputPort, WriteOutputPort, Access
  <2>2. ~(\/ SetHDMezzBlockEnable \/ ReadHDMezzBlockConfig \/ ClearHDMezzAlertFlag
          \/ SetHDMezzPowerStates \/ ConfigureHDMezzBlock \/ SelectAfeBlock(Server)
          \/ CalibrateBegin \/ CalibrateEnd \/ SetDirection
          \/ ReadOutputPort(Server) \/ WriteOutputPort(Server)
          \/ VerifyOutputPort(Server) \/ BusError(Server))
    BY <1>1 DEF SetHDMezzBlockEnable, ReadHDMezzBlockConfig, ClearHDMezzAlertFlag, Finish,
       SetHDMezzPowerStates, ConfigureHDMezzBlock, SelectAfeBlock, CalibrateBegin,
       CalibrateEnd, SetDirection, ReadOutputPort, WriteOutputPort, VerifyOutputPort,
       BusError, InTransaction, Access, Locked, Transaction
  <2>3. (\E b \in AcceptedBlock, r \in Request : Receive(b, r)) => pc'[Monitor] = pc[Monitor]
    BY <1>1 DEF Receive, Goto
  <2>4. Refuse \/ UNCHANGED vars
          \/ (\E b \in Block, r \in Rails : OverPower(b, r) \/ PowerNormal(b, r))
          => pc' = pc
    BY DEF Refuse, vars, OverPower, PowerNormal
  <2>. QED
    BY <2>1, <2>2, <2>3, <2>4 DEF Next, MonitorStep, ServerStep, Environment
<1>3. ~Lock /\ pc'[Monitor] # pc[Monitor]
  BY <1>1 DEF Lock, Acquire, NoThread
<1>4. ~SelectAfeBlock(Monitor) /\ ~BusError(Monitor)
  BY <1>1, <1>3 DEF SelectAfeBlock, BusError, Throw, Unlock, Goto
<1>5. CASE Decide
  BY <1>1, <1>5 DEF Decide, Goto, hw
<1>6. CASE VerifyOutputPort(Monitor)
  BY <1>1, <1>6 DEF VerifyOutputPort, Access, Goto, SecondRail
<1>. QED
  BY <1>2, <1>3, <1>4, <1>5, <1>6

(* A shutdown that the monitor has decided leaves the port with no rail,   *)
(* on any number of blocks and whatever transactions fail: a pass that     *)
(* comes to its end has switched off both.                                 *)
ShutdownIsWhole ==
  [][\A b \in Block :
       /\ pc[Monitor] = "portVerify" /\ blk[Monitor] = b /\ pc'[Monitor] = "block"
       => port'[b] = {}]_vars

(* The monitor holds i2c_2_mutex over both calls of powerOn, so that the   *)
(* rail it switched off first is still off when it is done.                *)
THEOREM ShutdownsAreWhole == Spec => ShutdownIsWhole
<1>1. ASSUME IInv, ShutdownInv, [Next]_vars, pc[Monitor] = "portVerify",
             pc'[Monitor] = "block"
      PROVE  port'[blk[Monitor]] = {}
  <2>1. port' = port /\ rail[Monitor] = "3V3"
    BY <1>1, LeavesBlock
  <2>2. port[blk[Monitor]] \subseteq Rails
    BY <1>1 DEF IInv, TypeOK, Monitor, Thread, Transaction
  <2>. QED
    BY <1>1, <2>1, <2>2 DEF ShutdownInv, Rails
<1>2. IInv /\ ShutdownInv /\ [Next]_vars =>
        [\A b \in Block :
           /\ pc[Monitor] = "portVerify" /\ blk[Monitor] = b /\ pc'[Monitor] = "block"
           => port'[b] = {}]_vars
  BY <1>1
<1>. QED
  BY <1>2, ShutdownAlways, PTL DEF Spec, ShutdownIsWhole

(* With one block and no failed transaction the monitor leaves no block    *)
(* whose alert is latched with a rail on.  With more blocks it may: the    *)
(* flags of the driver, which it publishes and decides by, are shared.     *)
THEOREM SingleBlockIsOff ==
  ASSUME NumBlocks = 1, MaxFaults = 0
  PROVE  Spec => AlertedBlockIsOff
<1>1. ASSUME IInv, ShutdownInv, BelievedInv, [Next]_vars, NEW b \in Block,
             pc[Monitor] \in {"decide", "portVerify"}, blk[Monitor] = b,
             pc'[Monitor] = "block", alert[b] # {}
      PROVE  port'[b] = {}
  <2>0. b = 0 /\ port[b] \subseteq Rails
    BY <1>1 DEF Block, IInv, TypeOK
  <2>1. CASE pc[Monitor] = "portVerify"
    <3>1. port' = port /\ rail[Monitor] = "3V3"
      BY <1>1, <2>1, LeavesBlock
    <3>. QED
      BY <1>1, <2>0, <2>1, <3>1 DEF ShutdownInv, Rails
  <2>2. CASE pc[Monitor] = "decide"
    <3>1. port' = port /\ isPowered[0] = {}
      BY <1>1, <2>0, <2>2, LeavesBlock DEF ShutdownNeeded
    <3>2. isPowered[0] = powerStatus
      BY <1>1, <2>2 DEF BelievedInv, Seen
    <3>3. \A t \in Thread : pc[t] # "portVerify"
      BY <1>1, <2>2 DEF IInv, BusExclusive, Monitor, Server, Thread, Locked, Transaction
    <3>. QED
      BY <1>1, <2>0, <3>1, <3>2, <3>3 DEF BelievedInv
  <2>. QED
    BY <1>1, <2>1, <2>2
<1>2. IInv /\ ShutdownInv /\ BelievedInv /\ [Next]_vars =>
        [\A b \in Block :
           /\ pc[Monitor] \in {"decide", "portVerify"} /\ blk[Monitor] = b
           /\ pc'[Monitor] = "block"
           /\ alert[b] # {}
           => port'[b] = {}]_vars
  BY <1>1
<1>. QED
  BY <1>2, ShutdownAlways, BelievedAlways, PTL DEF Spec, AlertedBlockIsOff

-----------------------------------------------------------------------------
(* HDMezz implements PowerControl.                                         *)

(* A request that is served has no answer yet, and a block that is shut    *)
(* down has a latched alert all the time.                                  *)
ServedInv ==
  /\ pc[Server] # "idle" => reply = "none"
  /\ pc[Monitor] \in Switching => alert[blk[Monitor]] # {}

PowerInv == IInv /\ ShutdownInv /\ ServedInv

(* What the proof uses of the types and of the mutex.                      *)
LEMMA PowerFacts ==
  ASSUME IInv
  PROVE  /\ port \in [Block -> SUBSET Rails] /\ over \in [Block -> SUBSET Rails]
         /\ alert \in [Block -> SUBSET Rails] /\ blk \in [Thread -> 0 .. NumBlocks]
         /\ pc \in [Thread -> Locked \cup {"idle", "lock"}] /\ rail \in [Thread -> Rails]
         /\ req \in Request
         /\ \A t \in Thread : pc[t] \in Transaction \cup {"decide", "locked", "lock"}
                                => blk[t] \in Block
         /\ \A t \in Thread : sel[t] => pc[t] \in Transaction /\ mux = blk[t]
         /\ pc[Server] \in Locked => pc[Monitor] \notin Locked
         /\ pc[Server] \in Switching => req.op = "power"
         /\ pc[Server] \in {"calBegin", "calEnd", "direction"} => req.op = "configure"
         /\ pc[Monitor] \notin {"lock", "locked", "calBegin", "calEnd", "direction"}
         /\ pc[Server] \notin {"block", "measure", "alert", "decide"}
         /\ \A t \in Thread : pc[t] = "portWrite" => out[t] = port[blk[t]]
<1>. USE DEF Monitor, Server, Thread, Switching
<1>1. TypeOK /\ BusExclusive /\ NoLostUpdate /\ ControlInv
  BY DEF IInv
<1>2. pc[Server] \in Locked => pc[Monitor] \notin Locked
  BY <1>1 DEF BusExclusive
<1>. QED
  BY <1>1, <1>2 DEF TypeOK, BusExclusive, NoLostUpdate, ControlInv

LEMMA LockedFacts ==
  /\ Switching \subseteq Transaction /\ Transaction \subseteq Locked
  /\ "decide" \in Locked /\ "locked" \in Locked /\ "block" \in Locked
  /\ "idle" \notin Locked /\ "lock" \notin Locked
BY DEF Switching, Transaction, Locked

(* The job of a state.                                                     *)
LEMMA JobFacts ==
  ASSUME IInv
  PROVE  /\ pc[Server] \in Switching =>
              /\ Job = [who |-> "client", blk |-> blk[Server], want |-> req.want]
              /\ Job.who = "client"
         /\ pc[Monitor] \in Switching =>
              /\ Job = [who |-> "safety", blk |-> blk[Monitor], want |-> {}]
              /\ Job.who = "safety"
         /\ pc[Server] \notin Switching /\ pc[Monitor] \notin Switching =>
              Job = [who |-> "nobody"] /\ Job.who = "nobody"
         /\ pc[Server] \in Locked \/ pc[Monitor] \in Locked =>
              /\ pc[Server] \notin Switching => Job.who # "client"
              /\ pc[Monitor] \notin Switching => Job.who # "safety"
<1>1. ~(pc[Server] \in Switching /\ pc[Monitor] \in Switching)
  BY PowerFacts, LockedFacts
<1>. QED
  BY <1>1 DEF Job

LEMMA ServedStep ==
  ASSUME PowerInv, [Next]_vars
  PROVE  ServedInv'
<1>. USE DEF Monitor, Server, Thread
<1>1. IInv /\ ServedInv
  BY DEF PowerInv
<1>2. /\ pc \in [Thread -> Locked \cup {"idle", "lock"}] /\ blk \in [Thread -> 0 .. NumBlocks]
      /\ alert \in [Block -> SUBSET Rails]
      /\ pc[Server] \in Locked => pc[Monitor] \notin Locked
      /\ pc[Server] \notin {"block", "measure", "alert", "decide"}
      /\ pc[Monitor] \notin {"lock", "locked", "calBegin", "calEnd", "direction"}
      /\ pc[Monitor] \in Switching \cup {"alert"} => blk[Monitor] \in Block
  BY <1>1, PowerFacts DEF Switching, Transaction
<1>3. pc'[Server] # "idle" => reply' = "none"
  <2>1. CASE MonitorStep
    <3>1. pc'[Server] = pc[Server] /\ reply' = reply
      BY <1>2, <2>1 DEF MonitorStep, TryLock, MonitorBlock, EndPass, SelectAfeBlock, Measure,
         AlertAlreadyLatched, CheckAlertStatus, Decide, ReadOutputPort, WriteOutputPort,
         VerifyOutputPort, Throw, Unlock, NextBlock, Goto, AfterAlert, Access, locals
    <3>. QED
      BY <1>1, <3>1 DEF ServedInv
  <2>2. CASE ServerStep
    <3>1. pc[Server] # "idle"
      BY <2>2 DEF ServerStep, Lock, SetHDMezzBlockEnable, ReadHDMezzBlockConfig,
         ClearHDMezzAlertFlag, Finish, SetHDMezzPowerStates, ConfigureHDMezzBlock,
         SelectAfeBlock, InTransaction, Transaction, CalibrateBegin, CalibrateEnd,
         SetDirection, ReadOutputPort, WriteOutputPort, VerifyOutputPort, Access
    <3>2. reply' = reply \/ pc'[Server] = "idle"
      BY <1>2, <2>2 DEF ServerStep, Lock, SetHDMezzBlockEnable, ReadHDMezzBlockConfig,
         ClearHDMezzAlertFlag, Finish, SetHDMezzPowerStates, ConfigureHDMezzBlock,
         SelectAfeBlock, Throw, Unlock, Goto, CalibrateBegin, CalibrateEnd,
         SetDirection, ReadOutputPort, WriteOutputPort, VerifyOutputPort, Access
    <3>. QED
      BY <1>1, <3>1, <3>2 DEF ServedInv
  <2>3. CASE Environment \/ UNCHANGED vars
    <3>1. \/ reply' = "none"
          \/ pc'[Server] = "idle"
          \/ reply' = reply /\ pc'[Server] = pc[Server]
      BY <1>2, <2>3 DEF Environment, vars, Receive, Refuse, BusError, Throw, Unlock, Goto,
         OverPower, PowerNormal
    <3>. QED
      BY <1>1, <3>1 DEF ServedInv
  <2>. QED
    BY <2>1, <2>2, <2>3 DEF Next
<1>4. ASSUME pc'[Monitor] \in Switching PROVE alert'[blk'[Monitor]] # {}
  <2>1. CASE Decide
    <3>1. pc' = [pc EXCEPT ![Monitor] = "block"]
          \/ (alert[blk[Monitor]] # {} /\ blk' = blk)
      BY <2>1 DEF Decide, NextBlock, Goto, ShutdownNeeded
    <3>. QED
      BY <1>2, <1>4, <2>1, <3>1 DEF Decide, pub, Switching
  <2>2. CASE ~Decide
    <3>1. pc[Monitor] \in Switching /\ blk'[Monitor] = blk[Monitor]
      <4>1. CASE MonitorStep
        BY <1>2, <1>4, <2>2, <4>1 DEF MonitorStep, TryLock, MonitorBlock, EndPass,
           SelectAfeBlock, Measure, AlertAlreadyLatched, CheckAlertStatus, ReadOutputPort,
           WriteOutputPort, VerifyOutputPort, Throw, Unlock, NextBlock, Goto, AfterAlert,
           Access, locals, Switching
      <4>2. CASE ServerStep
        BY <1>2, <1>4, <4>2 DEF ServerStep, Lock, SetHDMezzBlockEnable, ReadHDMezzBlockConfig,
           ClearHDMezzAlertFlag, Finish, SetHDMezzPowerStates, ConfigureHDMezzBlock,
           SelectAfeBlock, Throw, Unlock, Goto, CalibrateBegin, CalibrateEnd,
           SetDirection, ReadOutputPort, WriteOutputPort, VerifyOutputPort, Access, locals
      <4>3. CASE Environment \/ UNCHANGED vars
        BY <1>2, <1>4, <4>3 DEF Environment, vars, Receive, Refuse, BusError, Throw, Unlock,
           Goto, OverPower, PowerNormal, locals, Switching
      <4>. QED
        BY <4>1, <4>2, <4>3 DEF Next
    <3>2. alert' = alert
      <4>1. ~CheckAlertStatus
        BY <3>1 DEF CheckAlertStatus, Access, Switching
      <4>2. ~ClearHDMezzAlertFlag
        BY <1>2, <3>1, LockedFacts DEF ClearHDMezzAlertFlag, Finish
      <4>. QED
        BY <2>2, <4>1, <4>2
        DEF Next, MonitorStep, ServerStep, Environment, TryLock, MonitorBlock, vars,
             EndPass, SelectAfeBlock, Measure, AlertAlreadyLatched,
             ReadOutputPort, WriteOutputPort, VerifyOutputPort, Lock,
             SetHDMezzBlockEnable, ReadHDMezzBlockConfig, SetHDMezzPowerStates,
             ConfigureHDMezzBlock, CalibrateBegin, CalibrateEnd, SetDirection,
             Receive, Refuse, BusError, OverPower, PowerNormal, pub
    <3>. QED
      BY <1>1, <3>1, <3>2 DEF ServedInv
  <2>. QED
    BY <2>1, <2>2
<1>. QED
  BY <1>3, <1>4 DEF ServedInv

(* Steps that the abstract control does not see, and those that end a job  *)
(* with an error.                                                          *)
LEMMA StepUnseen ==
  ASSUME port' = port, over' = over, alert' = alert, Job' = Job, PowerAnswer' = PowerAnswer
  PROVE  UNCHANGED Power!powerVars
BY DEF Power!powerVars

LEMMA StepThrows ==
  ASSUME PowerInv, NEW t \in Thread, pc[t] \in Transaction, Throw(t),
         port' = port, over' = over, alert' = alert
  PROVE  [Power!PowerNext]_(Power!powerVars)
<1>. USE DEF Monitor, Server, Thread
<1>1. IInv /\ ServedInv
  BY DEF PowerInv
<1>2. /\ pc' = [pc EXCEPT ![t] = "idle"] /\ blk' = blk /\ req' = req
      /\ reply' = IF t = Server THEN "error" ELSE reply
  BY DEF Throw, Unlock, Goto, locals
<1>3. /\ pc \in [Thread -> Locked \cup {"idle", "lock"}]
      /\ pc[Server] \in Locked => pc[Monitor] \notin Locked
      /\ pc[Server] \in Switching => req.op = "power"
      /\ pc[Server] \in {"calBegin", "calEnd", "direction"} => req.op = "configure"
      /\ pc[Server] \notin {"block", "measure", "alert", "decide"}
  BY <1>1, PowerFacts
<1>4. pc[t] \in Locked /\ "idle" \notin Switching
  BY LockedFacts DEF Switching
<1>5. \A u \in Thread : u # t => pc'[u] = pc[u] /\ pc[u] \notin Switching
  BY <1>2, <1>3, <1>4, LockedFacts
<1>6. pc'[Server] \notin Switching /\ pc'[Monitor] \notin Switching
  BY <1>2, <1>3, <1>4, <1>5
<1>7. Job' = [who |-> "nobody"]
  BY <1>6 DEF Job
<1>8. CASE pc[t] \in Switching
  <2>1. CASE t = Server
    <3>1. Job.who = "client" /\ PowerAnswer' = "error"
      BY <1>1, <1>2, <1>3, <1>8, <2>1, JobFacts DEF PowerAnswer
    <3>2. Power!GiveUp
      BY <1>7, <3>1 DEF Power!GiveUp, Power!Leave, Power!Free, Power!Idle
    <3>. QED
      BY <3>2 DEF Power!PowerNext
  <2>2. CASE t = Monitor
    <3>1. Job.who = "safety" /\ PowerAnswer' = PowerAnswer
      BY <1>1, <1>2, <1>8, <2>2, JobFacts DEF PowerAnswer
    <3>2. Power!GiveUp
      BY <1>7, <3>1 DEF Power!GiveUp, Power!Leave, Power!Free, Power!Idle
    <3>. QED
      BY <3>2 DEF Power!PowerNext
  <2>. QED
    BY <2>1, <2>2
<1>9. CASE pc[t] \notin Switching
  <2>1. Job = [who |-> "nobody"]
    BY <1>1, <1>5, <1>9, JobFacts
  <2>2. PowerAnswer' = PowerAnswer
    <3>1. CASE t = Server
      <4>1. req.op = "configure"
        BY <1>3, <1>9, <3>1 DEF Transaction, Switching
      <4>. QED
        BY <1>2, <4>1 DEF PowerAnswer
    <3>2. CASE t = Monitor
      BY <1>2, <3>2 DEF PowerAnswer
    <3>. QED
      BY <3>1, <3>2
  <2>. QED
    BY <1>7, <2>1, <2>2, StepUnseen
<1>. QED
  BY <1>8, <1>9

(* The steps of powerOn_HDMezzAfeBlock.                                    *)
LEMMA StepSwitches ==
  ASSUME PowerInv, NEW t \in Thread,
         ReadOutputPort(t) \/ WriteOutputPort(t) \/ VerifyOutputPort(t)
  PROVE  [Power!PowerNext]_(Power!powerVars)
<1>. USE DEF Monitor, Server, Thread
<1>1. IInv /\ ServedInv /\ ShutdownInv /\ SwitchInv
  BY DEF PowerInv, IInv
<1>3. /\ pc \in [Thread -> Locked \cup {"idle", "lock"}]
      /\ port \in [Block -> SUBSET Rails] /\ rail \in [Thread -> Rails]
      /\ pc[Server] \in Locked => pc[Monitor] \notin Locked
      /\ pc[Server] \in Switching => req.op = "power"
      /\ req \in Request
      /\ \A u \in Thread : pc[u] \in Transaction \cup {"decide", "locked", "lock"}
                                => blk[u] \in Block
      /\ \A u \in Thread : sel[u] => pc[u] \in Transaction /\ mux = blk[u]
      /\ \A u \in Thread : pc[u] = "portWrite" => out[u] = port[blk[u]]
  BY <1>1, PowerFacts
<1>4. over' = over /\ alert' = alert /\ req' = req
  BY DEF ReadOutputPort, WriteOutputPort, VerifyOutputPort, Access, pub
<1>5. pc[t] \in Switching /\ sel[t] /\ mux = blk[t] /\ blk[t] \in Block
  BY <1>3 DEF ReadOutputPort, WriteOutputPort, VerifyOutputPort, Access, Switching, Transaction
<1>6. \A u \in Thread : u # t => pc[u] \notin Switching
  BY <1>3, <1>5, LockedFacts
<1>7. /\ t = Server => Job = [who |-> "client", blk |-> blk[t], want |-> Want(t)]
      /\ t = Monitor => Job = [who |-> "safety", blk |-> blk[t], want |-> Want(t)]
  BY <1>1, <1>5, JobFacts DEF Want
<1>8. ~Power!Free /\ Job.blk = blk[t] /\ Job.want = Want(t)
      /\ Job.who = IF t = Server THEN "client" ELSE "safety"
  BY <1>7 DEF Power!Free
<1>9. ASSUME pc'[t] \in Switching, \A u \in Thread : u # t => pc'[u] = pc[u],
             blk' = blk
      PROVE  Job' = Job
  BY <1>4, <1>5, <1>6, <1>9 DEF Job
<1>10. CASE ReadOutputPort(t)
  <2>1. pc' = [pc EXCEPT ![t] = "portWrite"] /\ blk' = blk /\ port' = port /\ reply' = reply
    BY <1>10 DEF ReadOutputPort, Goto
  <2>2. Job' = Job
    BY <1>3, <1>9, <2>1 DEF Switching
  <2>. QED
    BY <1>4, <2>1, <2>2, StepUnseen DEF PowerAnswer
<1>11. CASE WriteOutputPort(t)
  <2>1. /\ pc' = [pc EXCEPT ![t] = "portVerify"] /\ blk' = blk /\ reply' = reply
        /\ port' = [port EXCEPT ![mux] = Switch(t, out[t])] /\ pc[t] = "portWrite"
    BY <1>11 DEF WriteOutputPort, Goto, locals
  <2>2. Job' = Job /\ PowerAnswer' = PowerAnswer
    BY <1>3, <1>4, <1>9, <2>1 DEF Switching, PowerAnswer
  <2>3. port' = [port EXCEPT ![Job.blk] = IF rail[t] \in Job.want
                                          THEN port[Job.blk] \cup {rail[t]}
                                          ELSE port[Job.blk] \ {rail[t]}]
    BY <1>3, <1>5, <1>8, <2>1 DEF Switch
  <2>4. port' = [port EXCEPT ![Job.blk] = IF rail[t] \in Job.want
                                          THEN @ \cup {rail[t]} ELSE @ \ {rail[t]}]
    BY <2>3
  <2>5. Power!SwitchRail(rail[t]) /\ rail[t] \in Rails
    BY <1>3, <1>4, <1>8, <2>2, <2>4 DEF Power!SwitchRail
  <2>. QED
    BY <2>5 DEF Power!PowerNext
<1>12. CASE VerifyOutputPort(t)
  <2>1. pc[t] = "portVerify" /\ port' = port
    BY <1>12 DEF VerifyOutputPort, Access
  <2>2. CASE pc' = [pc EXCEPT ![t] = "portRead"] /\ blk' = blk /\ reply' = reply
    <3>1. Job' = Job
      BY <1>3, <1>9, <2>2 DEF Switching
    <3>. QED
      BY <1>4, <2>1, <2>2, <3>1, StepUnseen DEF PowerAnswer
  <2>3. CASE /\ rail[t] = "3V3"
             /\ \E p \in {"idle", "block"} : pc' = [pc EXCEPT ![t] = p]
             /\ reply' = IF t = Server THEN "ok" ELSE reply
    <3>1. Job' = [who |-> "nobody"]
      <4>1. pc'[Server] \notin Switching /\ pc'[Monitor] \notin Switching
        BY <1>3, <1>6, <2>3 DEF Switching
      <4>. QED
        BY <4>1 DEF Job
    <3>2. PowerAnswer' = IF Job.who = "client" THEN "ok" ELSE PowerAnswer
      BY <1>3, <1>4, <1>5, <1>8, <2>3 DEF PowerAnswer
    <3>3. port[blk[t]] = Want(t)
      <4>1. port[blk[t]] \subseteq Rails /\ Want(t) \subseteq Rails
        <5>1. t = Server => req.want \subseteq Rails
          BY <1>3, <1>5 DEF Request
        <5>. QED
          BY <1>3, <1>5, <5>1 DEF Want
      <4>2. \A r \in Rails : r \in port[blk[t]] <=> r \in Want(t)
        BY <1>1, <2>1, <2>3 DEF ShutdownInv, SwitchInv, Want, Rails
      <4>. QED
        BY <4>1, <4>2
    <3>4. Power!Complete
      BY <1>4, <1>8, <2>1, <3>1, <3>2, <3>3
      DEF Power!Complete, Power!Leave, Power!Idle
    <3>. QED
      BY <3>4 DEF Power!PowerNext
  <2>. QED
    BY <1>12, <2>2, <2>3 DEF VerifyOutputPort, Goto, NextBlock, Unlock, SecondRail
<1>. QED
  BY <1>10, <1>11, <1>12

(* The job of a step that moves nobody into or out of powerOn.             *)
LEMMA JobKept ==
  ASSUME \A u \in Thread : pc'[u] \in Switching <=> pc[u] \in Switching,
         \A u \in Thread : pc[u] \in Switching => blk'[u] = blk[u],
         pc[Server] \in Switching => req' = req
  PROVE  Job' = Job
BY DEF Job, Server, Monitor, Thread

(* The steps of the monitor outside of powerOn.                            *)
LEMMA StepMonitor ==
  ASSUME PowerInv, MonitorStep,
         ~ReadOutputPort(Monitor), ~WriteOutputPort(Monitor), ~VerifyOutputPort(Monitor),
         ~SelectAfeBlock(Monitor)
  PROVE  [Power!PowerNext]_(Power!powerVars)
<1>. USE DEF Monitor, Server, Thread
<1>1. IInv /\ ServedInv
  BY DEF PowerInv
<1>2. /\ pc \in [Thread -> Locked \cup {"idle", "lock"}] /\ blk \in [Thread -> 0 .. NumBlocks]
      /\ alert \in [Block -> SUBSET Rails] /\ rail \in [Thread -> Rails]
      /\ pc[Server] \in Locked => pc[Monitor] \notin Locked
      /\ pc[Monitor] \in {"alert", "decide"} => blk[Monitor] \in Block
      /\ sel[Monitor] => mux = blk[Monitor]
  BY <1>1, PowerFacts DEF Transaction
<1>3. /\ port' = port /\ over' = over /\ req' = req /\ reply' = reply
      /\ pc'[Server] = pc[Server] /\ blk'[Server] = blk[Server] /\ pc[Monitor] \notin Switching
  BY <1>2 DEF MonitorStep, TryLock, MonitorBlock, EndPass, Measure, AlertAlreadyLatched,
     CheckAlertStatus, Decide, NextBlock, Unlock, Goto, AfterAlert, Access, locals, hw, Switching
<1>4. PowerAnswer' = PowerAnswer
  BY <1>3 DEF PowerAnswer
<1>5. CASE Decide /\ pc'[Monitor] = "portRead"
  <2>1. ShutdownNeeded(blk[Monitor]) /\ blk' = blk /\ alert' = alert /\ pc[Monitor] = "decide"
    BY <1>2, <1>5 DEF Decide, NextBlock, Goto, pub
  <2>2. pc[Server] \notin Switching
    BY <1>2, <2>1, LockedFacts
  <2>3. Job' = [who |-> "safety", blk |-> blk[Monitor], want |-> {}]
    BY <1>3, <1>5, <2>1, <2>2 DEF Job, Switching
  <2>4. Power!Free
    BY <1>1, <1>3, <2>2, JobFacts DEF Power!Free
  <2>5. Power!BeginShutdown(blk[Monitor]) /\ blk[Monitor] \in Block
    BY <1>2, <1>3, <1>4, <2>1, <2>3, <2>4 DEF Power!BeginShutdown, ShutdownNeeded
  <2>. QED
    BY <2>5 DEF Power!PowerNext
<1>6. CASE ~(Decide /\ pc'[Monitor] = "portRead")
  <2>1. pc'[Monitor] \notin Switching
    BY <1>2, <1>6 DEF MonitorStep, TryLock, MonitorBlock, EndPass, Measure,
       AlertAlreadyLatched, CheckAlertStatus, Decide, NextBlock, Unlock, Goto, AfterAlert,
       Access, Switching
  <2>2. Job' = Job
    BY <1>3, <2>1, JobKept
  <2>3. CASE CheckAlertStatus
    <3>1. /\ pc[Monitor] = "alert" /\ mux = blk[Monitor] /\ blk[Monitor] \in Block
          /\ alert' = [alert EXCEPT ![blk[Monitor]] = @ \cup ({rail[Monitor]} \cap over[mux])]
      BY <1>2, <2>3 DEF CheckAlertStatus, Access
    <3>2. CASE rail[Monitor] \in over[blk[Monitor]]
      <4>1. pc[Server] \notin Switching
        BY <1>2, <3>1, LockedFacts DEF Transaction
      <4>2. Power!Free
        BY <1>1, <1>3, <4>1, JobFacts DEF Power!Free
      <4>3. alert' = [alert EXCEPT ![blk[Monitor]] = @ \cup {rail[Monitor]}]
        <5>1. {rail[Monitor]} \cap over[mux] = {rail[Monitor]}
          BY <3>1, <3>2
        <5>. QED
          BY <3>1, <5>1
      <4>4. Power!Latch(blk[Monitor], rail[Monitor])
        BY <1>3, <1>4, <2>2, <3>2, <4>2, <4>3 DEF Power!Latch
      <4>. QED
        BY <1>2, <3>1, <4>4 DEF Power!PowerNext
    <3>3. CASE rail[Monitor] \notin over[blk[Monitor]]
      <4>1. {rail[Monitor]} \cap over[mux] = {}
        BY <3>1, <3>3
      <4>2. alert' = alert
        BY <1>2, <3>1, <4>1
      <4>. QED
        BY <1>3, <1>4, <2>2, <4>2, StepUnseen
    <3>. QED
      BY <3>2, <3>3
  <2>4. CASE ~CheckAlertStatus
    <3>1. alert' = alert
      BY <2>4 DEF MonitorStep, TryLock, MonitorBlock, EndPass, Measure,
         AlertAlreadyLatched, Decide, pub
    <3>. QED
      BY <1>3, <1>4, <2>2, <3>1, StepUnseen
  <2>. QED
    BY <2>3, <2>4
<1>. QED
  BY <1>5, <1>6

(* The steps of the handlers outside of powerOn.                           *)
LEMMA StepServer ==
  ASSUME PowerInv, ServerStep,
         ~ReadOutputPort(Server), ~WriteOutputPort(Server), ~VerifyOutputPort(Server),
         ~SelectAfeBlock(Server)
  PROVE  [Power!PowerNext]_(Power!powerVars)
<1>. USE DEF Monitor, Server, Thread
<1>1. IInv /\ ServedInv
  BY DEF PowerInv
<1>2. /\ pc \in [Thread -> Locked \cup {"idle", "lock"}]
      /\ blk \in [Thread -> 0 .. NumBlocks] /\ req \in Request
      /\ pc[Server] \in Locked => pc[Monitor] \notin Locked
      /\ pc[Server] \in {"calBegin", "calEnd", "direction"} => req.op = "configure"
      /\ pc[Server] = "locked" => blk[Server] \in Block
      /\ pc[Server] # "idle" => reply = "none"
  BY <1>1, PowerFacts DEF ServedInv
<1>3. /\ port' = port /\ over' = over /\ req' = req
      /\ pc'[Monitor] = pc[Monitor] /\ blk' = blk /\ pc[Server] \notin Switching
  BY <1>2 DEF ServerStep, Lock, SetHDMezzBlockEnable, ReadHDMezzBlockConfig,
     ClearHDMezzAlertFlag, Finish, SetHDMezzPowerStates, ConfigureHDMezzBlock, Unlock, Goto,
     CalibrateBegin, CalibrateEnd, SetDirection, Access, locals, hw, Switching
<1>4. CASE SetHDMezzPowerStates
  <2>1. /\ pc[Server] = "locked" /\ req.op = "power" /\ pc'[Server] = "portRead"
        /\ alert' = alert /\ reply' = reply
    BY <1>2, <1>4 DEF SetHDMezzPowerStates, Goto, pub
  <2>2. pc[Monitor] \notin Switching
    BY <1>2, <2>1, LockedFacts
  <2>3. Job' = [who |-> "client", blk |-> blk[Server], want |-> req.want]
    BY <1>3, <2>1 DEF Job, Switching
  <2>4. Power!Free
    BY <1>1, <1>3, <2>2, JobFacts DEF Power!Free
  <2>5. PowerAnswer' = PowerAnswer /\ PowerAnswer = "none"
    BY <1>2, <1>3, <2>1 DEF PowerAnswer
  <2>6. Power!Begin(blk[Server], req.want)
    BY <1>3, <2>1, <2>3, <2>4, <2>5 DEF Power!Begin
  <2>7. blk[Server] \in Block /\ req.want \in SUBSET Rails
    BY <1>2, <2>1 DEF Request
  <2>. QED
    BY <2>6, <2>7 DEF Power!PowerNext
<1>5. CASE ~SetHDMezzPowerStates
  <2>1. pc'[Server] \notin Switching
    BY <1>2, <1>5 DEF ServerStep, Lock, SetHDMezzBlockEnable, ReadHDMezzBlockConfig,
       ClearHDMezzAlertFlag, Finish, ConfigureHDMezzBlock, Unlock, Goto,
       CalibrateBegin, CalibrateEnd, SetDirection, Access, Switching
  <2>2. Job' = Job
    BY <1>3, <2>1, JobKept
  <2>3. PowerAnswer' = PowerAnswer
    <3>1. req.op = "power" => reply' = reply
      BY <1>2, <1>5 DEF ServerStep, Lock, SetHDMezzBlockEnable, ReadHDMezzBlockConfig,
         ClearHDMezzAlertFlag, Finish, ConfigureHDMezzBlock,
         CalibrateBegin, CalibrateEnd, SetDirection, Access
    <3>. QED
      BY <1>3, <3>1 DEF PowerAnswer
  <2>4. CASE ClearHDMezzAlertFlag
    <3>1. pc[Server] = "locked" /\ alert' = [alert EXCEPT ![blk[Server]] = {}]
      BY <2>4 DEF ClearHDMezzAlertFlag, Finish, Cleared
    <3>2. pc[Monitor] \notin Switching
      BY <1>2, <3>1, LockedFacts
    <3>3. Power!Free
      BY <1>1, <1>3, <3>2, JobFacts DEF Power!Free
    <3>4. Power!Clear(blk[Server]) /\ blk[Server] \in Block
      BY <1>2, <1>3, <2>2, <2>3, <3>1, <3>3 DEF Power!Clear
    <3>. QED
      BY <3>4 DEF Power!PowerNext
  <2>5. CASE ~ClearHDMezzAlertFlag
    <3>1. alert' = alert
      BY <1>5, <2>5 DEF ServerStep, Lock, SetHDMezzBlockEnable, ReadHDMezzBlockConfig,
         ConfigureHDMezzBlock, CalibrateBegin, CalibrateEnd, SetDirection, pub
    <3>. QED
      BY <1>3, <2>2, <2>3, <3>1, StepUnseen
  <2>. QED
    BY <2>4, <2>5
<1>. QED
  BY <1>4, <1>5

(* selectAfeBlock moves the switch, or throws.                             *)
LEMMA StepSelects ==
  ASSUME PowerInv, NEW t \in Thread, SelectAfeBlock(t)
  PROVE  [Power!PowerNext]_(Power!powerVars)
<1>1. /\ pc[t] \in Transaction
      /\ port' = port /\ over' = over /\ alert' = alert
  BY DEF SelectAfeBlock, InTransaction, pub
<1>2. CASE Throw(t)
  BY <1>1, <1>2, StepThrows
<1>3. CASE UNCHANGED <<pc, locals, req, reply>>
  BY <1>1, <1>3, StepUnseen DEF Job, PowerAnswer, locals
<1>. QED
  BY <1>2, <1>3 DEF SelectAfeBlock

(* Requests that arrive, failed transactions and the flags of the INA232s. *)
LEMMA StepEnvironment ==
  ASSUME PowerInv, Environment
  PROVE  [Power!PowerNext]_(Power!powerVars)
<1>. USE DEF Monitor, Server, Thread
<1>1. IInv /\ ServedInv
  BY DEF PowerInv
<1>2. pc \in [Thread -> Locked \cup {"idle", "lock"}] /\ blk \in [Thread -> 0 .. NumBlocks]
  BY <1>1, PowerFacts
<1>3. CASE Refuse \/ \E b \in AcceptedBlock, r \in Request : Receive(b, r)
  <2>1. /\ pc[Server] = "idle" /\ pc'[Server] \in {"idle", "lock"} /\ pc'[Monitor] = pc[Monitor]
        /\ blk'[Monitor] = blk[Monitor] /\ reply' \in {"none", "error"}
        /\ port' = port /\ over' = over /\ alert' = alert
    BY <1>2, <1>3 DEF Refuse, Receive, Goto, locals, hw, pub
  <2>2. pc[Server] \notin Switching /\ pc'[Server] \notin Switching
    BY <2>1 DEF Switching
  <2>3. Job' = Job /\ PowerAnswer' \in {"none", "error"}
    BY <2>1, <2>2, JobKept DEF PowerAnswer
  <2>4. Job.who # "client"
    BY <2>2 DEF Job
  <2>5. Power!Ask
    BY <2>1, <2>3, <2>4 DEF Power!Ask
  <2>. QED
    BY <2>5 DEF Power!PowerNext
<1>4. ASSUME NEW t \in Thread, BusError(t)
      PROVE  [Power!PowerNext]_(Power!powerVars)
  BY <1>4, StepThrows DEF BusError, InTransaction, hw, pub
<1>5. ASSUME NEW b \in Block, NEW r \in Rails, OverPower(b, r) \/ PowerNormal(b, r)
      PROVE  [Power!PowerNext]_(Power!powerVars)
  <2>1. /\ port' = port /\ alert' = alert /\ Job' = Job /\ PowerAnswer' = PowerAnswer
    BY <1>5 DEF OverPower, PowerNormal, pub, Job, PowerAnswer, locals
  <2>2. Power!Flag(b, r)
    BY <1>5, <2>1 DEF Power!Flag, OverPower, PowerNormal
  <2>. QED
    BY <2>2 DEF Power!PowerNext
<1>. QED
  BY <1>3, <1>4, <1>5 DEF Environment

LEMMA StepPower == PowerInv /\ [Next]_vars => [Power!PowerNext]_(Power!powerVars)
<1> SUFFICES ASSUME PowerInv, [Next]_vars
             PROVE  [Power!PowerNext]_(Power!powerVars)
  OBVIOUS
<1>. Monitor \in Thread /\ Server \in Thread
  BY DEF Monitor, Server, Thread
<1>1. CASE UNCHANGED vars
  BY <1>1, StepUnseen DEF vars, hw, pub, locals, Job, PowerAnswer
<1>2. CASE Environment
  BY <1>2, StepEnvironment
<1>3. ASSUME NEW t \in Thread, ReadOutputPort(t) \/ WriteOutputPort(t) \/ VerifyOutputPort(t)
      PROVE  [Power!PowerNext]_(Power!powerVars)
  BY <1>3, StepSwitches
<1>4. ASSUME NEW t \in Thread, SelectAfeBlock(t)
      PROVE  [Power!PowerNext]_(Power!powerVars)
  BY <1>4, StepSelects
<1>5. CASE MonitorStep
  BY <1>3, <1>4, <1>5, StepMonitor
<1>6. CASE ServerStep
  BY <1>3, <1>4, <1>6, StepServer
<1>. QED
  BY <1>1, <1>2, <1>5, <1>6 DEF Next

(* The handlers and the monitor, with the switch, the mutex and the        *)
(* readbacks between them, control the rails as PowerControl promises, for *)
(* any number of blocks, requests and failed transactions: one job at a    *)
(* time from its first read of an output port to its last readback.        *)
THEOREM PowerRefinement == Spec => ImplementsPowerControl
<1>1. Init => Power!PowerInit
  BY DEF Init, Power!PowerInit, Power!Idle, Job, PowerAnswer, Switching, Server, Monitor,
     Thread
<1>2. Init => ServedInv
  BY DEF Init, ServedInv, Switching, Server, Monitor, Thread
<1>3. IInv /\ ShutdownInv /\ ServedInv /\ [Next]_vars => ServedInv'
  BY ServedStep DEF PowerInv
<1>4. IInv /\ ShutdownInv /\ ServedInv /\ [Next]_vars => [Power!PowerNext]_(Power!powerVars)
  BY StepPower DEF PowerInv
<1>. QED
  BY <1>1, <1>2, <1>3, <1>4, ShutdownAlways, PTL DEF Spec, Power!PowerSpec, ImplementsPowerControl

-----------------------------------------------------------------------------
(* How long i2c_2_mutex is held.                                           *)

(* The longest way of a thread to its unlock: the monitor takes twenty     *)
(* steps at most for a block, twelve of them in the two calls of powerOn,  *)
(* and a handler no more than thirteen.                                    *)
Later(t, b) == IF t = Monitor THEN 20 * (NumBlocks - 1 - b) + 1 ELSE 0
FirstRail(r) == IF r = "5V" THEN 1 ELSE 0
ToSelect(s) == IF s THEN 0 ELSE 1

Held(t, p, r, s, b) ==
  CASE p = "block" -> 20 * (NumBlocks - b) + 1
    [] p = "measure" -> Later(t, b) + 18 + ToSelect(s)
    [] p = "alert" -> Later(t, b) + 14 + 2 * FirstRail(r) + ToSelect(s)
    [] p = "decide" -> Later(t, b) + 13
    [] p = "locked" -> 13
    [] p = "portRead" -> Later(t, b) + 5 + 6 * FirstRail(r) + ToSelect(s)
    [] p = "portWrite" -> Later(t, b) + 3 + 6 * FirstRail(r) + ToSelect(s)
    [] p = "portVerify" -> Later(t, b) + 1 + 6 * FirstRail(r) + ToSelect(s)
    [] p = "calBegin" -> 5 + 4 * FirstRail(r) + ToSelect(s)
    [] p = "calEnd" -> 3 + 4 * FirstRail(r) + ToSelect(s)
    [] p = "direction" -> 1 + ToSelect(s)
    [] OTHER -> 0

HeldSteps(t) == Held(t, pc[t], rail[t], sel[t], blk[t])

(* A thread holds the mutex for as many steps of its own and no more: each *)
(* takes one at least, and no step of anyone else adds one.                *)
HeldBound ==
  \A t \in Thread : /\ HeldSteps(t) \in 0 .. (20 * NumBlocks + 1)
                    /\ mutex = t <=> HeldSteps(t) > 0

HeldAct ==
  /\ mutex = Monitor /\ MonitorStep => HeldSteps(Monitor)' < HeldSteps(Monitor)
  /\ mutex = Server /\ ServerStep => HeldSteps(Server)' < HeldSteps(Server)
  /\ \A t \in Thread :
       mutex = t => HeldSteps(t)' < HeldSteps(t) \/ HeldSteps(t)' = HeldSteps(t)

MutexIsGivenUp == []HeldBound /\ [][HeldAct]_vars

(* The cases of Held as facts, with h, l, f and a for its parts.           *)
HeldParts(p, h, l, f, a) ==
  /\ p = "measure" => h = l + 18 + a
  /\ p = "alert" => h = l + 14 + 2 * f + a
  /\ p = "decide" => h = l + 13
  /\ p = "portRead" => h = l + 5 + 6 * f + a
  /\ p = "portWrite" => h = l + 3 + 6 * f + a
  /\ p = "portVerify" => h = l + 1 + 6 * f + a
  /\ p = "calBegin" => h = 5 + 4 * f + a
  /\ p = "calEnd" => h = 3 + 4 * f + a
  /\ p = "direction" => h = 1 + a
  /\ p = "locked" => h = 13

LEMMA HeldCases ==
  ASSUME NEW t, NEW p, NEW r, NEW s, NEW b
  PROVE  /\ HeldParts(p, Held(t, p, r, s, b), Later(t, b), FirstRail(r), ToSelect(s))
         /\ p = "block" => Held(t, p, r, s, b) = 20 * (NumBlocks - b) + 1
         /\ p \in {"idle", "lock"} => Held(t, p, r, s, b) = 0
BY DEF Held, HeldParts

LEMMA PartFacts ==
  ASSUME NEW t \in Thread, NEW r \in Rails, NEW s \in BOOLEAN, NEW b \in 0 .. NumBlocks - 1
  PROVE  /\ Later(t, b) \in Nat /\ Later(t, b) <= 20 * NumBlocks - 19
         /\ t = Server => Later(t, b) = 0
         /\ FirstRail(r) \in 0..1 /\ ToSelect(s) \in 0..1
BY BlocksAssumption DEF Later, FirstRail, ToSelect, Monitor, Server

LEMMA HeldFacts ==
  ASSUME IInv, NEW t \in Thread
  PROVE  /\ HeldSteps(t) \in 0 .. (20 * NumBlocks + 1)
         /\ mutex = t <=> HeldSteps(t) > 0
<1>. USE DEF Monitor, Server, Thread
<1>1. /\ pc[t] \in Locked \cup {"idle", "lock"} /\ blk[t] \in 0 .. NumBlocks
      /\ rail[t] \in Rails /\ sel[t] \in BOOLEAN
      /\ pc[t] \in Transaction \cup {"decide", "locked"} => blk[t] \in 0 .. NumBlocks - 1
      /\ NumBlocks \in Nat \ {0}
  BY BlocksAssumption DEF IInv, TypeOK, Block
<1>2. mutex = t <=> pc[t] \in Locked
  BY DEF IInv, BusExclusive
<1>3. CASE pc[t] \in {"idle", "lock", "block", "locked"}
  <2>1. pc[t] \in Locked <=> pc[t] \in {"block", "locked"}
    BY <1>3, LockedFacts
  <2>2. /\ pc[t] = "block" => HeldSteps(t) = 20 * (NumBlocks - blk[t]) + 1
        /\ pc[t] = "locked" => HeldSteps(t) = 13
        /\ pc[t] \in {"idle", "lock"} => HeldSteps(t) = 0
    BY HeldCases DEF HeldSteps, HeldParts
  <2> DEFINE h == HeldSteps(t)
             b == blk[t]
  <2> HIDE DEF h, b
  <2>3. h \in 0 .. (20 * NumBlocks + 1) /\ (pc[t] \in {"block", "locked"} <=> h > 0)
    BY <1>1, <1>3, <2>2 DEF h, b
  <2> QED
    BY <1>2, <2>1, <2>3 DEF h
<1>4. CASE pc[t] \in Transaction \cup {"decide"}
  <2>1. pc[t] \in Locked
    BY <1>4, LockedFacts
  <2> DEFINE l == Later(t, blk[t])
             f == FirstRail(rail[t])
             a == ToSelect(sel[t])
             h == HeldSteps(t)
  <2>2. l \in Nat /\ l <= 20 * NumBlocks - 19 /\ f \in 0..1 /\ a \in 0..1
    BY <1>1, <1>4, PartFacts
  <2>4. HeldParts(pc[t], h, l, f, a)
    BY HeldCases DEF HeldSteps
  <2> HIDE DEF l, f, a, h
  <2>3. h \in 1 .. (20 * NumBlocks + 1)
    BY <1>1, <1>4, <2>2, <2>4 DEF Transaction, HeldParts
  <2> QED
    BY <1>2, <2>1, <2>3 DEF h
<1> QED
  BY <1>1, <1>3, <1>4 DEF Locked

(* The moves of a thread that owns the mutex, within a block and to the    *)
(* next one.                                                               *)
Moves(t, p, r, s, q, r2, s2) ==
  \/ q = p /\ r2 = r /\ p \in Transaction /\ ~s /\ s2
  \/ p = "measure" /\ q = "alert" /\ s /\ ~s2
  \/ p = "alert" /\ q = "alert" /\ r = "5V" /\ r2 = "3V3" /\ (s2 => s)
  \/ p = "alert" /\ q = "decide"
  \/ p \in {"decide", "locked"} /\ q = "portRead" /\ (p = "locked" => t = Server)
  \/ p = "locked" /\ q = "calBegin"
  \/ p = "portRead" /\ q = "portWrite" /\ r2 = r /\ s /\ ~s2
  \/ p = "portWrite" /\ q = "portVerify" /\ r2 = r /\ s /\ s2
  \/ p = "portVerify" /\ q = "portRead" /\ r = "5V" /\ r2 = "3V3"
  \/ p = "calBegin" /\ q = "calEnd" /\ r2 = r /\ s /\ ~s2
  \/ p = "calEnd" /\ q = "calBegin" /\ r = "5V" /\ r2 = "3V3"
  \/ p = "calEnd" /\ q = "direction"

LEMMA MoveTakes ==
  ASSUME NEW t \in Thread, NEW b \in 0 .. NumBlocks - 1,
         NEW p, NEW r \in Rails, NEW s \in BOOLEAN,
         NEW q, NEW r2 \in Rails, NEW s2 \in BOOLEAN,
         Moves(t, p, r, s, q, r2, s2)
  PROVE  Held(t, q, r2, s2, b) < Held(t, p, r, s, b)
<1> DEFINE l == Later(t, b)
           f == FirstRail(r)
           a == ToSelect(s)
           f2 == FirstRail(r2)
           a2 == ToSelect(s2)
           before == Held(t, p, r, s, b)
           next == Held(t, q, r2, s2, b)
<1>1. l \in Nat /\ f \in 0..1 /\ a \in 0..1 /\ f2 \in 0..1 /\ a2 \in 0..1
  BY PartFacts
<1>2. HeldParts(p, before, l, f, a) /\ HeldParts(q, next, l, f2, a2)
  BY HeldCases
<1>3. /\ t = Server => l = 0
      /\ r2 = r => f2 = f
      /\ s => a = 0
      /\ ~s => a = 1
      /\ s2 => a2 = 0
      /\ ~s2 => a2 = 1
      /\ r = "5V" => f = 1
      /\ r2 = "3V3" => f2 = 0
  BY PartFacts DEF FirstRail, ToSelect
<1> HIDE DEF l, f, a, f2, a2, before, next
<1>4. CASE q = p /\ r2 = r /\ p \in Transaction /\ ~s /\ s2
  <2>1. p \in Transaction /\ q = p /\ f2 = f /\ a = 1 /\ a2 = 0
    BY <1>3, <1>4
  <2>2. next < before
    BY <1>1, <1>2, <2>1 DEF Transaction, HeldParts
  <2> QED
    BY <2>2 DEF before, next
<1>5. CASE ~(q = p /\ r2 = r /\ p \in Transaction /\ ~s /\ s2)
  <2>1. next < before
    BY <1>1, <1>2, <1>3, <1>5 DEF Moves, HeldParts
  <2> QED
    BY <2>1 DEF before, next
<1> QED
  BY <1>4, <1>5

(* What the steps of a thread that owns the mutex come to.                 *)
LEMMA MonitorTakes ==
  ASSUME IInv, mutex = Monitor, MonitorStep
  PROVE  HeldSteps(Monitor)' < HeldSteps(Monitor)
<1> DEFINE p == pc[Monitor]
           q == pc'[Monitor]
           r == rail[Monitor]
           r2 == rail'[Monitor]
           s == sel[Monitor]
           s2 == sel'[Monitor]
           b == blk[Monitor]
           b2 == blk'[Monitor]
<1>1. /\ pc \in [Thread -> Locked \cup {"idle", "lock"}] /\ blk \in [Thread -> 0 .. NumBlocks]
      /\ rail \in [Thread -> Rails] /\ sel \in [Thread -> BOOLEAN]
      /\ p \in Transaction \cup {"decide", "locked"} => b \in 0 .. NumBlocks - 1
      /\ p \notin {"lock", "locked", "calBegin", "calEnd", "direction"}
      /\ NumBlocks \in Nat \ {0} /\ Monitor \in Thread
  BY BlocksAssumption DEF IInv, TypeOK, ControlInv, Block, Monitor, Thread
<1>2. /\ HeldSteps(Monitor) = Held(Monitor, p, r, s, b) /\ HeldSteps(Monitor) > 0
      /\ HeldSteps(Monitor)' = Held(Monitor, q, r2, s2, b2)
  BY <1>1, HeldFacts DEF HeldSteps, Held, Later, FirstRail, ToSelect
<1>3. r2 \in Rails /\ s2 \in BOOLEAN
  BY <1>1 DEF MonitorStep, TryLock, MonitorBlock, EndPass, SelectAfeBlock, Measure,
     AlertAlreadyLatched, CheckAlertStatus, Decide, ReadOutputPort, WriteOutputPort,
     VerifyOutputPort, Throw, Access, AfterAlert, locals, Rails, FirstChecked
<1>4. \/ q = "idle"
      \/ b2 = b /\ Moves(Monitor, p, r, s, q, r2, s2)
      \/ b2 = b + 1 /\ q = "block" /\ p \in {"decide", "portVerify"}
      \/ b2 = b + 1 /\ q = "block" /\ p = "block" /\ b \in Block
      \/ b2 = b /\ q = "measure" /\ p = "block" /\ b \in Block
  <2>1. CASE TryLock
    BY <2>1 DEF TryLock, Acquire, NoThread, Monitor
  <2>2. CASE MonitorBlock
    BY <1>1, <2>2 DEF MonitorBlock, Goto, NextBlock, Monitor
  <2>3. CASE EndPass
    BY <1>1, <2>3 DEF EndPass, Unlock, Goto
  <2>4. CASE SelectAfeBlock(Monitor)
    BY <1>1, <2>4 DEF SelectAfeBlock, InTransaction, Throw, Unlock, Goto, locals, Moves
  <2>5. CASE Measure
    BY <1>1, <2>5 DEF Measure, Access, Goto, Moves
  <2>6. CASE AlertAlreadyLatched \/ CheckAlertStatus
    BY <1>1, <2>6 DEF AlertAlreadyLatched, CheckAlertStatus, Access, AfterAlert, Goto, Moves,
       Rails
  <2>7. CASE Decide
    BY <1>1, <2>7 DEF Decide, Goto, NextBlock, Moves, Monitor
  <2>8. CASE ReadOutputPort(Monitor) \/ WriteOutputPort(Monitor)
    BY <1>1, <2>8 DEF ReadOutputPort, WriteOutputPort, Access, Goto, locals, Moves
  <2>9. CASE VerifyOutputPort(Monitor)
    BY <1>1, <2>9 DEF VerifyOutputPort, Access, Goto, NextBlock, SecondRail, Moves, Unlock
  <2>. QED
    BY <2>1, <2>2, <2>3, <2>4, <2>5, <2>6, <2>7, <2>8, <2>9 DEF MonitorStep
<1> DEFINE h == HeldSteps(Monitor)
           h2 == HeldSteps(Monitor)'
           l == Later(Monitor, b)
<1>5. /\ q = "block" => h2 = 20 * (NumBlocks - b2) + 1
      /\ p = "block" => h = 20 * (NumBlocks - b) + 1
      /\ q = "idle" => h2 = 0
      /\ HeldParts(p, h, l, FirstRail(r), ToSelect(s))
      /\ b2 = b => HeldParts(q, h2, l, FirstRail(r2), ToSelect(s2))
      /\ l = 20 * (NumBlocks - 1 - b) + 1
  BY <1>2, HeldCases DEF Later
<1>6. /\ FirstRail(r) \in 0..1 /\ ToSelect(s) \in 0..1 /\ ToSelect(s2) \in 0..1
      /\ b \in 0 .. NumBlocks
  BY <1>1, <1>3 DEF FirstRail, ToSelect
<1>7. CASE b2 = b /\ Moves(Monitor, p, r, s, q, r2, s2)
  <2>1. b \in 0 .. NumBlocks - 1
    BY <1>1, <1>7 DEF Moves, Transaction
  <2>. QED
    BY <1>1, <1>2, <1>3, <1>7, <2>1, MoveTakes
<1>8. CASE q = "idle" \/ ~(b2 = b /\ Moves(Monitor, p, r, s, q, r2, s2))
  <2> DEFINE f == FirstRail(r)
             a == ToSelect(s)
             f2 == FirstRail(r2)
             a2 == ToSelect(s2)
  <2>0. b \in Block => b \in 0 .. NumBlocks - 1
    BY DEF Block
  <2>. HIDE DEF h, h2, l, f, a, f2, a2, p, q, b, b2
  <2>1. h2 < h
    BY <1>1, <1>2, <1>4, <1>5, <1>6, <1>8, <2>0 DEF HeldParts, h, f, a, a2, f2
  <2>. QED
    BY <2>1 DEF h, h2
<1> QED
  BY <1>7, <1>8

LEMMA ServerTakes ==
  ASSUME IInv, mutex = Server, ServerStep
  PROVE  HeldSteps(Server)' < HeldSteps(Server)
<1> DEFINE p == pc[Server]
           q == pc'[Server]
           r == rail[Server]
           r2 == rail'[Server]
           s == sel[Server]
           s2 == sel'[Server]
           b == blk[Server]
<1>1. /\ pc \in [Thread -> Locked \cup {"idle", "lock"}] /\ blk \in [Thread -> 0 .. NumBlocks]
      /\ rail \in [Thread -> Rails] /\ sel \in [Thread -> BOOLEAN]
      /\ p \in Transaction \cup {"decide", "locked"} => b \in 0 .. NumBlocks - 1
      /\ Server \in Thread
  BY DEF IInv, TypeOK, Block, Server, Thread
<1>2. blk'[Server] = b
  BY <1>1 DEF ServerStep, Lock, SetHDMezzBlockEnable, ReadHDMezzBlockConfig,
     ClearHDMezzAlertFlag, Finish, SetHDMezzPowerStates, ConfigureHDMezzBlock, SelectAfeBlock,
     CalibrateBegin, CalibrateEnd, SetDirection, ReadOutputPort, WriteOutputPort,
     VerifyOutputPort, Throw, Access, locals, Server
<1>3. /\ HeldSteps(Server) = Held(Server, p, r, s, b) /\ HeldSteps(Server) > 0
      /\ HeldSteps(Server)' = Held(Server, q, r2, s2, b)
  BY <1>1, <1>2, HeldFacts DEF HeldSteps, Held, Later, FirstRail, ToSelect
<1>4. r2 \in Rails /\ s2 \in BOOLEAN
  BY <1>1 DEF ServerStep, Lock, SetHDMezzBlockEnable, ReadHDMezzBlockConfig,
     ClearHDMezzAlertFlag, Finish, SetHDMezzPowerStates, ConfigureHDMezzBlock, SelectAfeBlock,
     CalibrateBegin, CalibrateEnd, SetDirection, ReadOutputPort, WriteOutputPort,
     VerifyOutputPort, Throw, Access, locals, Rails
<1>5. q = "idle" \/ Moves(Server, p, r, s, q, r2, s2)
  <2>1. CASE Lock
    BY <2>1 DEF Lock, Acquire, NoThread, Server
  <2>2. CASE SetHDMezzBlockEnable \/ ReadHDMezzBlockConfig \/ ClearHDMezzAlertFlag
    BY <1>1, <2>2 DEF SetHDMezzBlockEnable, ReadHDMezzBlockConfig, ClearHDMezzAlertFlag,
       Finish, Unlock, Goto
  <2>3. CASE SetHDMezzPowerStates \/ ConfigureHDMezzBlock
    BY <1>1, <2>3 DEF SetHDMezzPowerStates, ConfigureHDMezzBlock, Unlock, Goto, Moves
  <2>4. CASE SelectAfeBlock(Server)
    BY <1>1, <2>4 DEF SelectAfeBlock, InTransaction, Throw, Unlock, Goto, locals, Moves
  <2>5. CASE CalibrateBegin \/ CalibrateEnd \/ SetDirection
    BY <1>1, <2>5 DEF CalibrateBegin, CalibrateEnd, SetDirection, Access, Unlock, Goto, locals,
       Moves
  <2>6. CASE ReadOutputPort(Server) \/ WriteOutputPort(Server)
    BY <1>1, <2>6 DEF ReadOutputPort, WriteOutputPort, Access, Goto, locals, Moves
  <2>7. CASE VerifyOutputPort(Server)
    BY <1>1, <2>7 DEF VerifyOutputPort, Access, Goto, SecondRail, Moves, Unlock, Server
  <2>. QED
    BY <2>1, <2>2, <2>3, <2>4, <2>5, <2>6, <2>7 DEF ServerStep
<1>6. CASE q = "idle"
  BY <1>3, <1>6, HeldCases
<1>7. CASE Moves(Server, p, r, s, q, r2, s2)
  <2>1. b \in 0 .. NumBlocks - 1
    BY <1>1, <1>7 DEF Moves, Transaction
  <2>. QED
    BY <1>1, <1>3, <1>4, <1>7, <2>1, MoveTakes
<1> QED
  BY <1>5, <1>6, <1>7

(* The thread that does not own the mutex takes no step under it, and the  *)
(* environment ends what it owns or leaves it alone.                       *)
LEMMA OthersKeep ==
  ASSUME IInv, [Next]_vars, NEW t \in Thread, mutex = t
  PROVE  HeldSteps(t)' < HeldSteps(t) \/ HeldSteps(t)' = HeldSteps(t)
<1>. USE DEF Monitor, Server, Thread
<1>1. /\ pc \in [Thread -> Locked \cup {"idle", "lock"}] /\ blk \in [Thread -> 0 .. NumBlocks]
      /\ \A u \in Thread : pc[u] \in Locked <=> mutex = u
      /\ HeldSteps(t) > 0
  BY HeldFacts DEF IInv, TypeOK, BusExclusive
<1>2. CASE MonitorStep
  <2>1. CASE t = Monitor
    BY <1>2, <2>1, MonitorTakes
  <2>2. CASE t = Server
    BY <1>1, <1>2, <2>2 DEF MonitorStep, TryLock, Acquire, NoThread, MonitorBlock, EndPass,
       SelectAfeBlock, InTransaction, Measure, AlertAlreadyLatched, CheckAlertStatus, Decide,
       ReadOutputPort, WriteOutputPort, VerifyOutputPort, Access, Locked, Transaction
  <2>. QED
    BY <2>1, <2>2
<1>3. CASE ServerStep
  <2>1. CASE t = Server
    BY <1>3, <2>1, ServerTakes
  <2>2. CASE t = Monitor
    BY <1>1, <1>3, <2>2 DEF ServerStep, Lock, Acquire, NoThread, SetHDMezzBlockEnable,
       ReadHDMezzBlockConfig, ClearHDMezzAlertFlag, Finish, SetHDMezzPowerStates,
       ConfigureHDMezzBlock, SelectAfeBlock, InTransaction, CalibrateBegin, CalibrateEnd,
       SetDirection, ReadOutputPort, WriteOutputPort, VerifyOutputPort, Access, Locked,
       Transaction
  <2>. QED
    BY <2>1, <2>2
<1>4. ASSUME pc'[t] = pc[t], rail'[t] = rail[t], sel'[t] = sel[t], blk'[t] = blk[t]
      PROVE  HeldSteps(t)' = HeldSteps(t)
  BY <1>4 DEF HeldSteps, Held, Later, FirstRail, ToSelect
<1>5. ASSUME NEW b \in AcceptedBlock, NEW r \in Request, Receive(b, r)
      PROVE  HeldSteps(t)' = HeldSteps(t)
  <2>1. t = Monitor
    BY <1>1, <1>5, LockedFacts DEF Receive
  <2>. QED
    BY <1>1, <1>4, <1>5, <2>1 DEF Receive, Goto
<1>6. ASSUME NEW u \in Thread, BusError(u)
      PROVE  HeldSteps(t)' < HeldSteps(t)
  <2>1. u = t
    BY <1>1, <1>6, LockedFacts DEF BusError, InTransaction
  <2>2. pc'[t] = "idle"
    BY <1>1, <1>6, <2>1 DEF BusError, Throw, Unlock, Goto
  <2>3. HeldSteps(t)' = Held(t, pc'[t], rail'[t], sel'[t], blk'[t])
    BY DEF HeldSteps, Held, Later, FirstRail, ToSelect
  <2>. QED
    BY <1>1, <2>2, <2>3, HeldCases
<1>7. CASE \/ Refuse \/ UNCHANGED vars
           \/ \E b \in Block, r \in Rails : OverPower(b, r) \/ PowerNormal(b, r)
  BY <1>4, <1>7 DEF Refuse, vars, locals, OverPower, PowerNormal
<1>. QED
  BY <1>2, <1>3, <1>5, <1>6, <1>7 DEF Next, Environment

(* For any number of blocks, and whatever transactions fail: neither the   *)
(* monitor nor a handler can keep i2c_2_mutex from the other for more than *)
(* a bounded number of its own steps, which is what try_to_lock and        *)
(* I2C2BusGuard count on.                                                  *)
THEOREM MutexIsBounded == Spec => MutexIsGivenUp
<1>1. IInv => HeldBound
  BY HeldFacts DEF HeldBound
<1>2. IInv /\ [Next]_vars => [HeldAct]_vars
  BY MonitorTakes, ServerTakes, OthersKeep DEF HeldAct
<1>. QED
  BY <1>1, <1>2, Invariance, PTL DEF Spec, MutexIsGivenUp

-----------------------------------------------------------------------------
(* The panel.                                                              *)

Knob == [spin : 0..Top, dial : 0..Steps]
Widgets == [enable : Bit, power : Bit, lamp : Status, knob : Knob]
BlockState == [enable : Bit, status : Status, cfg : 1..(Top + 1)]
Asking == [cli : BOOLEAN, current : BOOLEAN, op : Op, blk : PanelBlock, arg : 0..(Top + 1)]
Answer == [current : BOOLEAN, op : Op, val : 0..(Top + 1), status : Status]
Calls == [op : Op \cup {"idle"}, blk : PanelBlock, rest : Seq(PanelBlock)]

(* The quotient of a number in the range of the dividends.                 *)
LEMMA Quotient ==
  ASSUME NEW x \in Nat, NEW d \in Nat \ {0}, NEW m \in Nat, x <= d * m
  PROVE /\ x \div d \in 0..m /\ x % d \in 0..(d - 1)
        /\ x % d > 0 => x \div d < m
<1> DEFINE q == x \div d
           r == x % d
<1>1. q \in Nat /\ r \in 0..(d - 1) /\ x = d * q + r
  OBVIOUS
<1> HIDE DEF q, r
<1>2. ASSUME q >= m + 1 PROVE FALSE
  <2>1. d * q >= d * (m + 1)
    BY <1>1, <1>2
  <2>2. d * (m + 1) = d * m + d
    OBVIOUS
  <2>3. d * q \in Nat /\ d * m \in Nat
    BY <1>1
  <2> QED BY <1>1, <2>1, <2>2, <2>3
<1>3. ASSUME r > 0, q = m PROVE FALSE
  <2>1. d * m \in Nat
    OBVIOUS
  <2> QED BY <1>1, <1>3, <2>1
<1> QED BY <1>1, <1>2, <1>3 DEF q, r

(* The spin box and the dial stay in their ranges, and a spin box that is  *)
(* set to a value in its range has that value.                             *)
LEMMA KnobFacts ==
  /\ \A v \in Nat : SpinSet(v) \in Knob /\ (v <= Top => SpinSet(v).spin = v)
  /\ \A p \in 0..Steps : DialSet(p) \in Knob
<1>0. Top \in Nat \ {0} /\ Steps \in Nat \ {0}
  BY PanelAssumption
<1>1. ASSUME NEW v \in 0..Top PROVE PosOf(v) \in 0..Steps
  <2> DEFINE x == v * Steps
  <2>1. x \in Nat /\ x <= Top * Steps
    BY <1>0
  <2> HIDE DEF x
  <2> DEFINE q == x \div Top
             r == x % Top
  <2>2. q \in 0..Steps /\ r \in 0..(Top - 1) /\ (r > 0 => q < Steps)
    BY <2>1, <1>0, Quotient
  <2>3. PosOf(v) = IF 2 * r > Top \/ (2 * r = Top /\ q % 2 = 1) THEN q + 1 ELSE q
    BY DEF PosOf, x
  <2> HIDE DEF q, r
  <2> QED BY <2>2, <2>3, <1>0
<1>2. \A v \in Nat : Clamp(v) \in 0..Top /\ (v <= Top => Clamp(v) = v)
  BY <1>0 DEF Clamp
<1>3. ASSUME NEW p \in 0..Steps PROVE ValueOf(p) \in 0..Top
  <2> DEFINE x == Top * p
  <2>1. x \in Nat /\ x <= Steps * Top
    BY <1>0
  <2> HIDE DEF x
  <2>2. x \div Steps \in 0..Top
    BY <2>1, <1>0, Quotient
  <2> QED BY <2>2 DEF ValueOf, x
<1>4. ASSUME NEW v \in Nat
      PROVE SpinSet(v) \in Knob /\ (v <= Top => SpinSet(v).spin = v)
  <2>1. Clamp(v) \in 0..Top /\ PosOf(Clamp(v)) \in 0..Steps /\ (v <= Top => Clamp(v) = v)
    BY <1>1, <1>2
  <2> QED BY <2>1 DEF SpinSet, Knob
<1>5. ASSUME NEW p \in 0..Steps PROVE DialSet(p) \in Knob
  BY <1>3 DEF DialSet, Knob
<1> QED BY <1>4, <1>5

(* Kinds of the state.                                                     *)
PanelKinds ==
  /\ server \in [PanelBlock -> BlockState]
  /\ panel \in [PanelBlock -> Widgets]
  /\ call \in Calls /\ (call.op = "idle" <=> call = Idle)
  /\ recalled \in [PanelBlock -> -1..(Top + 1)]
  /\ timer \in BOOLEAN /\ driver \in BOOLEAN /\ restarts \in 0..MaxRestarts
  /\ use \in {"watch", "setup", "line"}
  /\ wire \in Seq(Asking) /\ inbox \in Seq(Answer)
  /\ \A i \in DOMAIN wire : wire[i].op # "program" => wire[i].arg \in Bit
  /\ \A i \in DOMAIN inbox : inbox[i].op = "enable" => inbox[i].val \in Bit

(* How many messages are under way, and whose they are.                    *)
BacklogInv ==
  /\ use = "line" =>
       /\ call = Idle /\ inbox = <<>> /\ Len(wire) <= MaxBacklog + 1
       /\ \A i \in DOMAIN wire : wire[i].cli
  /\ use # "line" =>
       /\ \A i \in DOMAIN wire : ~wire[i].cli
       /\ Len(wire) + Len(inbox) <= MaxBacklog + (IF call.op = "idle" THEN 0 ELSE 1)

(* A request that is current is that of the call, and an answer that is    *)
(* current has a status the server had since the call began.               *)
FreshInv ==
  /\ \A i \in DOMAIN wire : call.op # "idle" /\ wire[i].current /\ ~wire[i].cli =>
       wire[i].op = call.op /\ wire[i].blk = call.blk
  /\ \A i \in DOMAIN inbox :
       call.op = "status" /\ inbox[i].current /\ inbox[i].op = "status" =>
         inbox[i].status \in seen

(* Without a driver nothing is enabled or published.                       *)
DriverInv ==
  ~driver => \A b \in PanelBlock : server[b].enable = 0 /\ server[b].status = Off

CliInv ==
  /\ cli = [op |-> cli.op, blk |-> cli.blk, exit |-> cli.exit, done |-> cli.done]
  /\ cli.exit \in Int /\ (cli.exit = 0 => cli.done)

PanelInv == /\ PanelKinds /\ BacklogInv /\ FreshInv /\ DriverInv /\ CliInv
            /\ KnobsHoldRecalled

LEMMA PanelConstants ==
  /\ Op = {"status", "clear", "enable", "power", "config", "program"}
  /\ Bit = {0, 1} /\ Off \in Status /\ 0 \in PanelBlock
  /\ Top \in Nat \ {0} /\ Steps \in Nat \ {0} /\ Blocks \in Nat \ {0}
  /\ MaxBacklog \in Nat /\ MaxRestarts \in Nat
  /\ \A b \in PanelBlock : Fresh[b] = [enable |-> 0, status |-> Off, cfg |-> 1]
  /\ Fresh \in [PanelBlock -> BlockState]
<1>1. Op = {"status", "clear", "enable", "power", "config", "program"}
  BY DEF Op, Buttons
<1>2. Bit = {0, 1} /\ Off \in Status
  BY DEF Bit, Off, Status
<1>3. /\ Top \in Nat \ {0} /\ Steps \in Nat \ {0} /\ Blocks \in Nat \ {0}
      /\ MaxBacklog \in Nat /\ MaxRestarts \in Nat
  BY PanelAssumption
<1>4. 0 \in PanelBlock
  BY <1>3 DEF PanelBlock
<1>5. \A b \in PanelBlock : Fresh[b] = [enable |-> 0, status |-> Off, cfg |-> 1]
  BY DEF Fresh, Default
<1>6. [enable |-> 0, status |-> Off, cfg |-> 1] \in BlockState
  BY <1>2, <1>3 DEF BlockState
<1>7. Fresh \in [PanelBlock -> BlockState]
  BY <1>5, <1>6 DEF Fresh
<1> QED BY <1>1, <1>2, <1>3, <1>4, <1>5, <1>7

LEMMA PanelStarts == PanelInit => PanelInv
<1> SUFFICES ASSUME PanelInit PROVE PanelInv
  OBVIOUS
<1>1. PICK cfg \in {Default, Top + 1} : server = [b \in PanelBlock |->
         [Fresh[b] EXCEPT !.enable = IF use = "watch" /\ driver THEN 1 ELSE 0,
                          !.cfg = IF use = "setup" THEN cfg ELSE Default]]
  BY DEF PanelInit
<1>2. /\ use \in {"watch", "setup", "line"} /\ driver \in BOOLEAN
      /\ wire = <<>> /\ inbox = <<>> /\ call = Idle /\ timer = FALSE /\ restarts = 0
      /\ cli = NoRun /\ recalled = [b \in PanelBlock |-> -1]
      /\ panel = [b \in PanelBlock |->
           [enable |-> 0, power |-> 0, lamp |-> Off, knob |-> SpinSet(Default)]]
  BY DEF PanelInit
<1> DEFINE e == IF use = "watch" /\ driver THEN 1 ELSE 0
           c == IF use = "setup" THEN cfg ELSE Default
<1>a. server = [b \in PanelBlock |-> [Fresh[b] EXCEPT !.enable = e, !.cfg = c]]
  BY <1>1
<1>b. e \in Bit /\ c \in 1..(Top + 1) /\ (~driver => e = 0)
  BY PanelConstants DEF Default
<1> HIDE DEF e, c
<1>3. \A b \in PanelBlock : server[b] = [enable |-> e, status |-> Off, cfg |-> c]
  <2> SUFFICES ASSUME NEW b \in PanelBlock
               PROVE server[b] = [enable |-> e, status |-> Off, cfg |-> c]
    OBVIOUS
  <2>1. server[b] = [Fresh[b] EXCEPT !.enable = e, !.cfg = c]
    BY <1>a
  <2>2. Fresh[b] = [enable |-> 0, status |-> Off, cfg |-> 1]
    BY PanelConstants
  <2>3. /\ server[b].enable = e /\ server[b].status = Off /\ server[b].cfg = c
        /\ DOMAIN server[b] = {"enable", "status", "cfg"}
    BY <2>1, <2>2
  <2> QED BY <2>1, <2>2, <2>3
<1>4. server \in [PanelBlock -> BlockState]
  <2>1. [enable |-> e, status |-> Off, cfg |-> c] \in BlockState
    BY <1>b, PanelConstants DEF BlockState
  <2>2. \A b \in PanelBlock : server[b] \in BlockState
    BY <1>3, <2>1
  <2>3. server = [b \in PanelBlock |-> server[b]]
    BY <1>a
  <2> QED BY <2>2, <2>3
<1>5. panel \in [PanelBlock -> Widgets]
  <2>1. SpinSet(1) \in Knob
    BY KnobFacts
  <2> QED BY <2>1, <1>2, PanelConstants DEF Widgets, Default
<1>6. call \in Calls /\ call.op = "idle"
  <2>1. <<>> \in Seq(PanelBlock)
    OBVIOUS
  <2> QED BY <2>1, <1>2, PanelConstants DEF Calls, Idle
<1>7. wire \in Seq(Asking) /\ inbox \in Seq(Answer) /\ DOMAIN wire = {} /\ DOMAIN inbox = {}
      /\ Len(wire) = 0 /\ Len(inbox) = 0
  BY <1>2
<1>8. recalled \in [PanelBlock -> -1..(Top + 1)] /\ \A b \in PanelBlock : recalled[b] = -1
  BY <1>2, PanelConstants
<1>9. timer \in BOOLEAN /\ restarts \in 0..MaxRestarts
  BY <1>2, PanelConstants
<1>10. PanelKinds
  BY <1>2, <1>4, <1>5, <1>6, <1>7, <1>8, <1>9 DEF PanelKinds
<1>11. BacklogInv
  BY <1>2, <1>6, <1>7, PanelConstants DEF BacklogInv
<1>12. FreshInv
  BY <1>7 DEF FreshInv
<1>13. DriverInv
  BY <1>3, <1>b DEF DriverInv
<1>14. CliInv
  BY <1>2 DEF CliInv, NoRun
<1>15. KnobsHoldRecalled
  BY <1>8 DEF KnobsHoldRecalled
<1> QED BY <1>10, <1>11, <1>12, <1>13, <1>14, <1>15 DEF PanelInv

(* What goes with a request is in its range.                               *)
LEMMA ArgType ==
  ASSUME PanelKinds, NEW op \in Op, NEW b \in PanelBlock
  PROVE Arg(op, b) \in 0..(Top + 1) /\ (op # "program" => Arg(op, b) \in Bit)
<1>1. panel[b] \in Widgets
  BY DEF PanelKinds
<1>2. panel[b].enable \in Bit /\ panel[b].power \in Bit /\ panel[b].knob.spin \in 0..Top
  BY <1>1 DEF Widgets, Knob
<1>3. Bit \subseteq 0..(Top + 1) /\ 0..Top \subseteq 0..(Top + 1) /\ 0 \in Bit
  BY PanelConstants
<1> QED BY <1>2, <1>3 DEF Arg

(* Messages that are aged are not current.                                 *)
LEMMA AgedFacts ==
  ASSUME NEW msgs \in Seq(Answer)
  PROVE /\ Aged(msgs) \in Seq(Answer) /\ Len(Aged(msgs)) = Len(msgs)
        /\ DOMAIN Aged(msgs) = DOMAIN msgs
        /\ \A i \in DOMAIN msgs : /\ ~Aged(msgs)[i].current
                                  /\ Aged(msgs)[i].op = msgs[i].op
                                  /\ Aged(msgs)[i].val = msgs[i].val
<1>1. \A m \in Answer : LET n == [m EXCEPT !.current = FALSE]
                        IN n \in Answer /\ ~n.current /\ n.op = m.op /\ n.val = m.val
  BY DEF Answer
<1>2. /\ DOMAIN msgs = 1..Len(msgs) /\ Len(msgs) \in Nat
      /\ \A i \in DOMAIN msgs : msgs[i] \in Answer
  OBVIOUS
<1>3. Aged(msgs) = [i \in 1..Len(msgs) |-> [msgs[i] EXCEPT !.current = FALSE]]
  BY <1>2 DEF Aged
<1>4. Aged(msgs) \in [1..Len(msgs) -> Answer]
  BY <1>1, <1>2, <1>3
<1>5. Aged(msgs) \in Seq(Answer) /\ Len(Aged(msgs)) = Len(msgs)
  BY <1>2, <1>4
<1>6. ASSUME NEW i \in DOMAIN msgs
      PROVE /\ ~Aged(msgs)[i].current /\ Aged(msgs)[i].op = msgs[i].op
            /\ Aged(msgs)[i].val = msgs[i].val
  <2>1. Aged(msgs)[i] = [msgs[i] EXCEPT !.current = FALSE]
    BY <1>2, <1>3
  <2> QED BY <2>1, <1>1, <1>2
<1>7. DOMAIN Aged(msgs) = DOMAIN msgs
  BY <1>2, <1>3
<1> QED BY <1>5, <1>6, <1>7

(* The requests on the wire when some of them are not current any more.    *)
AgeAt(A) == [i \in DOMAIN wire |->
               IF i \in A THEN [wire[i] EXCEPT !.current = FALSE] ELSE wire[i]]

LEMMA AgedWire ==
  ASSUME PanelKinds, NEW A
  PROVE LET w == AgeAt(A) IN
        /\ w \in Seq(Asking) /\ Len(w) = Len(wire) /\ DOMAIN w = DOMAIN wire
        /\ \A i \in DOMAIN wire :
             /\ w[i].cli = wire[i].cli /\ w[i].op = wire[i].op /\ w[i].blk = wire[i].blk
             /\ w[i].arg = wire[i].arg
             /\ i \in A => ~w[i].current
             /\ i \notin A => w[i] = wire[i]
<1> DEFINE w == AgeAt(A)
<1>1. \A m \in Asking :
        LET n == [m EXCEPT !.current = FALSE]
        IN /\ n \in Asking /\ ~n.current /\ n.op = m.op /\ n.arg = m.arg
           /\ n.cli = m.cli /\ n.blk = m.blk
  BY DEF Asking
<1>2. /\ DOMAIN wire = 1..Len(wire) /\ Len(wire) \in Nat
      /\ \A i \in DOMAIN wire : wire[i] \in Asking
  BY DEF PanelKinds
<1>3. \A i \in DOMAIN wire :
        \/ i \in A /\ w[i] = [wire[i] EXCEPT !.current = FALSE]
        \/ i \notin A /\ w[i] = wire[i]
  BY DEF AgeAt
<1>4. w \in [1..Len(wire) -> Asking]
  <2>1. \A i \in DOMAIN wire : w[i] \in Asking
    BY <1>1, <1>2, <1>3
  <2> QED BY <2>1, <1>2 DEF AgeAt
<1> HIDE DEF w
<1>5. w \in Seq(Asking) /\ Len(w) = Len(wire) /\ DOMAIN w = DOMAIN wire
  BY <1>2, <1>4
<1>6. ASSUME NEW i \in DOMAIN wire
      PROVE /\ w[i].cli = wire[i].cli /\ w[i].op = wire[i].op /\ w[i].blk = wire[i].blk
            /\ w[i].arg = wire[i].arg
            /\ i \in A => ~w[i].current
            /\ i \notin A => w[i] = wire[i]
  BY <1>1, <1>2, <1>3
<1> QED BY <1>5, <1>6 DEF w

(* What a handler leaves and answers.                                      *)
LEMMA HandlerFacts ==
  ASSUME PanelKinds, DriverInv, NEW r \in Asking, r.op # "program" => r.arg \in Bit,
         NEW h \in Handlers(r)
  PROVE /\ h.s \in BlockState /\ h.val \in 0..(Top + 1) /\ h.ok \in BOOLEAN
        /\ r.op = "enable" => h.val \in Bit
        /\ r.op = "status" /\ ~h.ok => h.s.status = Off
        /\ ~driver => h.s = server[r.blk]
<1> DEFINE s == server[r.blk]
           Ok(t, v) == [s |-> t, ok |-> TRUE, val |-> v]
           Fail(t) == [s |-> t, ok |-> FALSE, val |-> 0]
           new == [s EXCEPT !.cfg = r.arg]
<1>1. /\ s \in BlockState /\ r.op \in Op /\ r.blk \in PanelBlock /\ r.arg \in 0..(Top + 1)
  BY DEF PanelKinds, Asking
<1>2. s.cfg \in 1..(Top + 1) /\ s.status \in Status
  BY <1>1 DEF BlockState
<1>3. 0 \in Bit /\ 0 \in 0..(Top + 1) /\ 1..(Top + 1) \subseteq 0..(Top + 1)
  BY PanelConstants
<1>4. CASE ~driver
  <2>1. h = Fail(s)
    BY <1>4 DEF Handlers
  <2>2. s.status = Off
    BY <1>1, <1>4 DEF DriverInv
  <2> HIDE DEF s
  <2>3. h.s = s /\ h.val = 0 /\ h.ok = FALSE
    BY <2>1
  <2> QED BY <2>2, <2>3, <1>1, <1>3 DEF s
<1>5. CASE driver
  <2>1. \/ r.op = "enable" /\ h = Ok([s EXCEPT !.enable = r.arg], r.arg)
        \/ r.op = "power" /\ h \in {Ok(s, r.arg), Fail(s)}
        \/ r.op = "clear" /\ h = Ok([s EXCEPT !.status.alert = 0], 0)
        \/ r.op = "config" /\ h = Ok(s, s.cfg)
        \/ r.op = "status" /\ h = Ok(s, 0)
        \/ r.op = "program" /\ r.arg = 0 /\ h = Fail(s)
        \/ r.op = "program" /\ r.arg # 0 /\ h \in {Ok(new, r.arg), Fail(new), Fail(s)}
    BY <1>1, <1>5, PanelConstants DEF Handlers
  <2>2. r.op = "enable" => [s EXCEPT !.enable = r.arg] \in BlockState
    <3> HIDE DEF s
    <3> QED BY <1>1 DEF BlockState
  <2>3. [s EXCEPT !.status.alert = 0] \in BlockState
    <3> HIDE DEF s
    <3>1. \A z \in Status : [z EXCEPT !.alert = 0] \in Status
      BY <1>3 DEF Status
    <3>2. [s EXCEPT !.status.alert = 0] = [s EXCEPT !.status = [s.status EXCEPT !.alert = 0]]
      BY <1>1 DEF BlockState
    <3>3. [s.status EXCEPT !.alert = 0] \in Status
      BY <3>1, <1>2
    <3> QED BY <3>2, <3>3, <1>1 DEF BlockState
  <2>4. r.op = "program" /\ r.arg # 0 => new \in BlockState
    <3>1. r.arg # 0 => r.arg \in 1..(Top + 1)
      BY <1>1, PanelConstants
    <3> HIDE DEF s
    <3> QED BY <1>1, <3>1 DEF BlockState
  <2> HIDE DEF s, new
  <2>7. CASE r.op = "enable" /\ h = Ok([s EXCEPT !.enable = r.arg], r.arg)
    <3>1. h.s = [s EXCEPT !.enable = r.arg] /\ h.val = r.arg /\ h.ok = TRUE
      BY <2>7
    <3> HIDE DEF Ok, Fail
    <3> QED BY <3>1, <2>7, <1>1, <1>5, <2>2
  <2>8. CASE r.op = "power" /\ h \in {Ok(s, r.arg), Fail(s)}
    <3>1. h.s = s /\ h.val \in {r.arg, 0} /\ h.ok \in BOOLEAN
      <4>1. TRUE \in BOOLEAN /\ FALSE \in BOOLEAN
        OBVIOUS
      <4>2. \A t, v : Ok(t, v).s = t /\ Ok(t, v).val = v /\ Ok(t, v).ok = TRUE
        OBVIOUS
      <4>3. \A t : Fail(t).s = t /\ Fail(t).val = 0 /\ Fail(t).ok = FALSE
        OBVIOUS
      <4> HIDE DEF Ok, Fail
      <4>4. CASE h = Ok(s, r.arg)
        <5>1. h.s = s /\ h.val = r.arg /\ h.ok = TRUE
          BY <4>2, <4>4, Zenon
        <5> QED BY <5>1, <4>1
      <4>5. CASE h = Fail(s)
        <5>1. h.s = s /\ h.val = 0 /\ h.ok = FALSE
          BY <4>3, <4>5, Zenon
        <5> QED BY <5>1, <4>1
      <4> QED BY <2>8, <4>4, <4>5
    <3> HIDE DEF Ok, Fail
    <3> QED BY <3>1, <2>8, <1>1, <1>3, <1>5
  <2>9. CASE r.op = "clear" /\ h = Ok([s EXCEPT !.status.alert = 0], 0)
    <3>1. h.s = [s EXCEPT !.status.alert = 0] /\ h.val = 0 /\ h.ok = TRUE
      BY <2>9
    <3> HIDE DEF Ok, Fail
    <3> QED BY <3>1, <2>9, <1>3, <1>5, <2>3
  <2>10. CASE r.op = "config" /\ h = Ok(s, s.cfg)
    <3>1. h.s = s /\ h.val = s.cfg /\ h.ok = TRUE
      BY <2>10
    <3> HIDE DEF Ok, Fail
    <3> QED BY <3>1, <2>10, <1>1, <1>2, <1>3, <1>5
  <2>11. CASE r.op = "status" /\ h = Ok(s, 0)
    <3>1. h.s = s /\ h.val = 0 /\ h.ok = TRUE
      BY <2>11
    <3> HIDE DEF Ok, Fail
    <3> QED BY <3>1, <2>11, <1>1, <1>3, <1>5
  <2>12. CASE r.op = "program" /\ r.arg = 0 /\ h = Fail(s)
    <3>1. h.s = s /\ h.val = 0 /\ h.ok = FALSE
      BY <2>12
    <3> HIDE DEF Ok, Fail
    <3> QED BY <3>1, <2>12, <1>1, <1>3, <1>5
  <2>13. CASE r.op = "program" /\ r.arg # 0 /\ h \in {Ok(new, r.arg), Fail(new), Fail(s)}
    <3>1. h.s \in {new, s} /\ h.val \in {r.arg, 0} /\ h.ok \in BOOLEAN
      <4>1. TRUE \in BOOLEAN /\ FALSE \in BOOLEAN
        OBVIOUS
      <4>2. \A t, v : Ok(t, v).s = t /\ Ok(t, v).val = v /\ Ok(t, v).ok = TRUE
        OBVIOUS
      <4>3. \A t : Fail(t).s = t /\ Fail(t).val = 0 /\ Fail(t).ok = FALSE
        OBVIOUS
      <4> HIDE DEF Ok, Fail
      <4>4. CASE h = Ok(new, r.arg)
        <5>1. h.s = new /\ h.val = r.arg /\ h.ok = TRUE
          BY <4>2, <4>4, Zenon
        <5> QED BY <5>1, <4>1
      <4>5. CASE h \in {Fail(new), Fail(s)}
        <5>1. h.s \in {new, s} /\ h.val = 0 /\ h.ok = FALSE
          BY <4>3, <4>5, Zenon
        <5> QED BY <5>1, <4>1
      <4> QED BY <2>13, <4>4, <4>5
    <3> HIDE DEF Ok, Fail
    <3> QED BY <3>1, <2>13, <1>1, <1>3, <1>5, <2>4
  <2> QED BY <2>1, <2>7, <2>8, <2>9, <2>10, <2>11, <2>12, <2>13
<1> QED BY <1>4, <1>5

(* The state after a request is sent or a call ends, when what is left of  *)
(* the inbox and the wire are at most MaxBacklog messages.                 *)
LEMMA SendKeeps ==
  ASSUME PanelInv, use # "line",
         panel' \in [PanelBlock -> Widgets], recalled' \in [PanelBlock -> -1..(Top + 1)],
         KnobsHoldRecalled',
         NEW left \in Seq(Answer),
         \A i \in DOMAIN left : left[i].op = "enable" => left[i].val \in Bit,
         Len(wire) + Len(left) <= MaxBacklog,
         UNCHANGED <<server, driver, timer, cli, use, restarts>>,
         NEW op \in Op, NEW b \in PanelBlock, NEW rest \in Seq(PanelBlock),
         Rpc(op, b, rest, left)
  PROVE PanelInv'
<1> DEFINE w == [i \in DOMAIN wire |->
               IF wire[i].cli THEN wire[i] ELSE [wire[i] EXCEPT !.current = FALSE]]
           q == [cli |-> FALSE, current |-> TRUE, op |-> op, blk |-> b, arg |-> Arg(op, b)]
<1>0. PanelKinds /\ BacklogInv /\ DriverInv /\ CliInv
  BY DEF PanelInv
<1>1. /\ call' = [op |-> op, blk |-> b, rest |-> rest]
      /\ wire' = Append(w, q) /\ inbox' = Aged(left)
  BY DEF Rpc
<1>2. q \in Asking /\ q.cli = FALSE /\ q.op = op /\ q.blk = b
      /\ (q.op # "program" => q.arg \in Bit)
  <2>1. Arg(op, b) \in 0..(Top + 1) /\ (op # "program" => Arg(op, b) \in Bit)
    BY <1>0, ArgType
  <2> DEFINE a == Arg(op, b)
  <2> HIDE DEF a
  <2> QED BY <2>1 DEF Asking
<1>3. \A i \in DOMAIN wire : ~wire[i].cli
  BY <1>0 DEF BacklogInv
<1>4. w = AgeAt(DOMAIN wire)
  BY <1>3 DEF AgeAt
<1> HIDE DEF w, q
<1>5. /\ w \in Seq(Asking) /\ Len(w) = Len(wire) /\ DOMAIN w = DOMAIN wire
      /\ \A i \in DOMAIN wire :
           /\ w[i].cli = wire[i].cli /\ w[i].op = wire[i].op /\ w[i].arg = wire[i].arg
           /\ ~w[i].current
  BY <1>0, <1>4, AgedWire
<1>6. /\ wire' \in Seq(Asking) /\ Len(wire') = Len(wire) + 1
      /\ \A i \in DOMAIN wire' : (i \in DOMAIN wire /\ wire'[i] = w[i]) \/ wire'[i] = q
  BY <1>1, <1>2, <1>5
<1>7. /\ inbox' \in Seq(Answer) /\ Len(inbox') = Len(left)
      /\ \A i \in DOMAIN inbox' : i \in DOMAIN left /\ ~inbox'[i].current
           /\ inbox'[i].op = left[i].op /\ inbox'[i].val = left[i].val
  BY <1>1, AgedFacts
<1>8. call' \in Calls /\ call'.op = op /\ call'.blk = b /\ op # "idle"
  BY <1>1, PanelConstants DEF Calls
<1>9. call' # Idle
  BY <1>8 DEF Idle
<1>10. ASSUME NEW i \in DOMAIN wire'
       PROVE /\ wire'[i].op # "program" => wire'[i].arg \in Bit
             /\ ~wire'[i].cli
             /\ wire'[i].current => wire'[i].op = op /\ wire'[i].blk = b
  <2>1. CASE i \in DOMAIN wire /\ wire'[i] = w[i]
    <3>1. wire[i].op # "program" => wire[i].arg \in Bit
      BY <2>1, <1>0 DEF PanelKinds
    <3> QED BY <2>1, <3>1, <1>3, <1>5
  <2>2. CASE wire'[i] = q
    BY <2>2, <1>2
  <2> QED BY <2>1, <2>2, <1>6
<1>11. PanelKinds'
  BY <1>0, <1>6, <1>7, <1>8, <1>9, <1>10 DEF PanelKinds
<1>12. BacklogInv'
  <2>1. Len(wire) \in Nat /\ Len(left) \in Nat
    BY <1>0 DEF PanelKinds
  <2>2. Len(wire') + Len(inbox') <= MaxBacklog + 1
    BY <2>1, <1>6, <1>7, PanelConstants
  <2> QED BY <2>2, <1>8, <1>10 DEF BacklogInv
<1>13. FreshInv'
  BY <1>7, <1>8, <1>10 DEF FreshInv
<1>14. DriverInv' /\ CliInv'
  BY <1>0 DEF DriverInv, CliInv
<1> QED BY <1>11, <1>12, <1>13, <1>14 DEF PanelInv

(* The end of a call, as far as the state of Return.                       *)
LEMMA ReturnKeeps ==
  ASSUME PanelInv, use # "line",
         panel' \in [PanelBlock -> Widgets], recalled' \in [PanelBlock -> -1..(Top + 1)],
         KnobsHoldRecalled',
         NEW left \in Seq(Answer),
         \A i \in DOMAIN left : left[i].op = "enable" => left[i].val \in Bit,
         Len(wire) + Len(left) <= MaxBacklog,
         UNCHANGED <<server, driver, timer, cli, use, restarts>>,
         Return(left)
  PROVE PanelInv'
<1>0. PanelKinds /\ BacklogInv /\ DriverInv /\ CliInv
  BY DEF PanelInv
<1>1. CASE call.rest = <<>>
  <2>1. call' = Idle /\ inbox' = left /\ wire' = wire
    BY <1>1 DEF Return
  <2>2. call' \in Calls /\ call'.op = "idle"
    <3>1. <<>> \in Seq(PanelBlock)
      OBVIOUS
    <3> QED BY <2>1, <3>1, PanelConstants DEF Calls, Idle
  <2>3. PanelKinds'
    BY <2>1, <2>2, <1>0 DEF PanelKinds
  <2>4. BacklogInv'
    BY <2>1, <2>2, <1>0, PanelConstants DEF BacklogInv
  <2>5. FreshInv'
    BY <2>2 DEF FreshInv
  <2>6. DriverInv' /\ CliInv'
    BY <1>0 DEF DriverInv, CliInv
  <2> QED BY <2>3, <2>4, <2>5, <2>6 DEF PanelInv
<1>2. CASE call.rest # <<>>
  <2>1. Rpc("status", Head(call.rest), Tail(call.rest), left)
    BY <1>2 DEF Return
  <2>2. call.rest \in Seq(PanelBlock)
    BY <1>0 DEF PanelKinds, Calls
  <2>3. Head(call.rest) \in PanelBlock /\ Tail(call.rest) \in Seq(PanelBlock)
    BY <2>2, <1>2
  <2>4. "status" \in Op
    BY PanelConstants
  <2> QED BY <2>1, <2>3, <2>4, SendKeeps
<1> QED BY <1>1, <1>2

(* Reading an answer, and what the panel makes of one.                     *)
LEMMA AnswerRead ==
  ASSUME PanelKinds, inbox # <<>>
  PROVE /\ Head(inbox) \in Answer /\ Head(inbox) = inbox[1] /\ 1 \in DOMAIN inbox
        /\ Tail(inbox) \in Seq(Answer) /\ Len(Tail(inbox)) = Len(inbox) - 1
        /\ \A i \in DOMAIN Tail(inbox) :
             Tail(inbox)[i].op = "enable" => Tail(inbox)[i].val \in Bit
<1>1. inbox \in Seq(Answer)
  BY DEF PanelKinds
<1>2. /\ Head(inbox) \in Answer /\ Head(inbox) = inbox[1] /\ 1 \in DOMAIN inbox
      /\ Tail(inbox) \in Seq(Answer) /\ Len(Tail(inbox)) = Len(inbox) - 1
      /\ \A i \in DOMAIN Tail(inbox) : i + 1 \in DOMAIN inbox /\ Tail(inbox)[i] = inbox[i + 1]
  BY <1>1
<1> QED BY <1>2 DEF PanelKinds

LEMMA ShownFacts ==
  ASSUME NEW p \in Widgets, NEW rep \in Answer, rep.op = "enable" => rep.val \in Bit
  PROVE /\ Shown(p, rep) \in Widgets
        /\ rep.op # "status" => Shown(p, rep).lamp = p.lamp
        /\ rep.op = "status" => Shown(p, rep).lamp = rep.status
        /\ rep.op # "config" => Shown(p, rep).knob = p.knob
        /\ rep.op = "config" => Shown(p, rep).knob = SpinSet(rep.val)
<1>1. /\ rep.op \in Op /\ rep.val \in Nat /\ rep.status \in Status
      /\ rep.status.power \in Bit
  BY PanelConstants DEF Answer, Status
<1>2. SpinSet(rep.val) \in Knob
  BY <1>1, KnobFacts
<1>3. CASE rep.op = "enable"
  <2>1. Shown(p, rep) = [p EXCEPT !.enable = rep.val]
    BY <1>3 DEF Shown
  <2> QED BY <2>1, <1>3 DEF Widgets
<1>4. CASE rep.op = "status"
  <2>1. Shown(p, rep) = [p EXCEPT !.power = rep.status.power, !.lamp = rep.status]
    BY <1>4 DEF Shown
  <2> QED BY <2>1, <1>1, <1>4 DEF Widgets
<1>5. CASE rep.op = "config"
  <2>1. Shown(p, rep) = [p EXCEPT !.knob = SpinSet(rep.val)]
    BY <1>5 DEF Shown
  <2> QED BY <2>1, <1>2, <1>5 DEF Widgets
<1>6. CASE rep.op \notin {"enable", "status", "config"}
  BY <1>6 DEF Shown
<1> QED BY <1>3, <1>4, <1>5, <1>6

(* A call means that the panel is in use, so that its messages are alone.  *)
LEMMA CallFacts ==
  ASSUME PanelInv, call # Idle
  PROVE /\ use # "line" /\ call.op \in Op /\ call.blk \in PanelBlock
        /\ Len(wire) + Len(inbox) <= MaxBacklog + 1
        /\ Len(wire) \in Nat /\ Len(inbox) \in Nat
<1>1. PanelKinds /\ BacklogInv
  BY DEF PanelInv
<1>2. use # "line" /\ call.op # "idle"
  BY <1>1 DEF BacklogInv, PanelKinds
<1>3. call.op \in Op /\ call.blk \in PanelBlock
  BY <1>1, <1>2 DEF PanelKinds, Calls
<1>4. Len(wire) \in Nat /\ Len(inbox) \in Nat
  BY <1>1 DEF PanelKinds
<1> QED BY <1>1, <1>2, <1>3, <1>4 DEF BacklogInv

(* An answer shown: widgets and knobs.                                     *)
LEMMA ShownKeeps ==
  ASSUME PanelInv, call # Idle, inbox # <<>>, ReplyMatches(Head(inbox)),
         panel' = [panel EXCEPT ![call.blk] = Shown(@, Head(inbox))],
         recalled' = IF call.op = "config"
                     THEN [recalled EXCEPT ![call.blk] = Head(inbox).val] ELSE recalled
  PROVE /\ panel' \in [PanelBlock -> Widgets]
        /\ recalled' \in [PanelBlock -> -1..(Top + 1)]
        /\ KnobsHoldRecalled'
        /\ \A b \in PanelBlock : panel'[b].lamp # panel[b].lamp =>
             b = call.blk /\ panel'[b].lamp \in seen
<1> DEFINE rep == Head(inbox)
           x == call.blk
<1>0. PanelKinds /\ FreshInv /\ KnobsHoldRecalled
  BY DEF PanelInv
<1>1. rep \in Answer /\ rep = inbox[1] /\ 1 \in DOMAIN inbox
  BY <1>0, AnswerRead
<1>2. rep.op = "enable" => rep.val \in Bit
  BY <1>0, <1>1 DEF PanelKinds
<1>3. rep.op = call.op /\ rep.current /\ x \in PanelBlock
  BY CallFacts DEF ReplyMatches
<1>4. rep.op = "status" => rep.status \in seen
  BY <1>0, <1>1, <1>3 DEF FreshInv
<1>5. rep.val \in 0..(Top + 1)
  BY <1>1 DEF Answer
<1> DEFINE new == Shown(panel[x], rep)
<1>6. panel \in [PanelBlock -> Widgets] /\ recalled \in [PanelBlock -> -1..(Top + 1)]
  BY <1>0 DEF PanelKinds
<1>7. /\ new \in Widgets
      /\ rep.op # "status" => new.lamp = panel[x].lamp
      /\ rep.op = "status" => new.lamp = rep.status
      /\ rep.op # "config" => new.knob = panel[x].knob
      /\ rep.op = "config" => new.knob = SpinSet(rep.val)
  <2>1. panel[x] \in Widgets
    BY <1>3, <1>6
  <2> HIDE DEF rep, x
  <2> QED BY <2>1, <1>1, <1>2, ShownFacts
<1>8. /\ panel' = [panel EXCEPT ![x] = new]
      /\ recalled' = IF rep.op = "config" THEN [recalled EXCEPT ![x] = rep.val] ELSE recalled
  BY <1>3
<1> HIDE DEF rep, x, new
<1>9. panel' \in [PanelBlock -> Widgets]
  BY <1>6, <1>7, <1>8
<1>10. recalled' \in [PanelBlock -> -1..(Top + 1)]
  <2>1. 0..(Top + 1) \subseteq -1..(Top + 1)
    BY PanelConstants
  <2> QED BY <2>1, <1>5, <1>6, <1>8
<1>11. ASSUME NEW b \in PanelBlock, recalled'[b] >= 0, recalled'[b] <= Top
       PROVE panel'[b].knob.spin = recalled'[b]
  <2>1. CASE b = x /\ rep.op = "config"
    <3>1. recalled'[b] = rep.val /\ panel'[b].knob = SpinSet(rep.val)
      BY <2>1, <1>3, <1>6, <1>7, <1>8
    <3>2. rep.val \in Nat
      BY <1>5, PanelConstants
    <3> QED BY <3>1, <3>2, <1>11, KnobFacts
  <2>2. CASE ~(b = x /\ rep.op = "config")
    <3>1. recalled'[b] = recalled[b] /\ panel'[b].knob = panel[b].knob
      BY <2>2, <1>3, <1>6, <1>7, <1>8
    <3> QED BY <3>1, <1>0, <1>11 DEF KnobsHoldRecalled
  <2> QED BY <2>1, <2>2
<1>12. ASSUME NEW b \in PanelBlock, panel'[b].lamp # panel[b].lamp
       PROVE b = x /\ panel'[b].lamp \in seen
  <2>1. b = x /\ panel'[b] = new
    BY <1>3, <1>6, <1>8, <1>12
  <2> QED BY <2>1, <1>4, <1>7, <1>12
<1> QED BY <1>9, <1>10, <1>11, <1>12 DEF KnobsHoldRecalled, x

(* A request is handled.                                                   *)
LEMMA ServeKeeps == ASSUME PanelInv, PanelServe PROVE PanelInv'
<1> DEFINE r == Head(wire)
<1>0. PanelKinds /\ BacklogInv /\ FreshInv /\ DriverInv /\ CliInv /\ KnobsHoldRecalled
  BY DEF PanelInv
<1>1. PICK h \in Handlers(r) :
        /\ server' = [server EXCEPT ![r.blk] = h.s]
        /\ \/ /\ r.cli /\ UNCHANGED <<inbox, seen>>
              /\ cli' = IF r.current
                        THEN [cli EXCEPT !.exit = IF h.ok THEN 0 ELSE 2, !.done = h.ok]
                        ELSE cli
           \/ /\ ~r.cli /\ UNCHANGED cli
              /\ inbox' = Append(inbox,
                    [current |-> r.current, op |-> r.op, val |-> h.val,
                     status |-> IF r.op = "status" /\ h.ok THEN h.s.status ELSE Off])
              /\ seen' = IF r.blk = call.blk /\ call.op = "status"
                         THEN seen \cup {h.s.status} ELSE seen
  BY DEF PanelServe
<1>2. /\ wire # <<>> /\ wire' = Tail(wire)
      /\ UNCHANGED <<driver, call, panel, timer, use, restarts, recalled>>
  BY DEF PanelServe
<1>3. /\ r \in Asking /\ r = wire[1] /\ 1 \in DOMAIN wire /\ wire' \in Seq(Asking)
      /\ Len(wire') = Len(wire) - 1 /\ Len(wire) \in Nat
      /\ \A i \in DOMAIN wire' : i + 1 \in DOMAIN wire /\ wire'[i] = wire[i + 1]
  <2>1. wire \in Seq(Asking)
    BY <1>0 DEF PanelKinds
  <2> QED BY <2>1, <1>2
<1>4. /\ r.op # "program" => r.arg \in Bit
      /\ r.op \in Op /\ r.blk \in PanelBlock /\ r.current \in BOOLEAN
  BY <1>0, <1>3 DEF PanelKinds, Asking
<1>5. /\ h.s \in BlockState /\ h.val \in 0..(Top + 1) /\ h.ok \in BOOLEAN
      /\ r.op = "enable" => h.val \in Bit
      /\ r.op = "status" /\ ~h.ok => h.s.status = Off
      /\ ~driver => h.s = server[r.blk]
  BY <1>0, <1>3, <1>4, HandlerFacts
<1> HIDE DEF r
<1>6. server' \in [PanelBlock -> BlockState] /\ DriverInv'
  <2>1. server \in [PanelBlock -> BlockState]
    BY <1>0 DEF PanelKinds
  <2>2. ~driver => server' = server
    BY <2>1, <1>1, <1>4, <1>5
  <2> QED BY <2>1, <2>2, <1>0, <1>1, <1>2, <1>4, <1>5 DEF DriverInv
<1>7. \A i \in DOMAIN wire' : /\ wire'[i].op # "program" => wire'[i].arg \in Bit
                              /\ wire'[i].cli \/ ~(call.op # "idle" /\ wire'[i].current)
                                 \/ (wire'[i].op = call.op /\ wire'[i].blk = call.blk)
  BY <1>0, <1>3 DEF PanelKinds, FreshInv
<1>8. KnobsHoldRecalled'
  BY <1>0, <1>2 DEF KnobsHoldRecalled
<1>9. CASE r.cli
  <2>1. UNCHANGED <<inbox, seen>>
    BY <1>1, <1>9
  <2>2. PanelKinds'
    BY <2>1, <1>0, <1>2, <1>3, <1>6, <1>7 DEF PanelKinds
  <2>3. BacklogInv'
    <3>1. use = "line"
      BY <1>0, <1>3, <1>9 DEF BacklogInv
    <3>2. Len(wire') <= MaxBacklog + 1
      BY <3>1, <1>0, <1>3, PanelConstants DEF BacklogInv
    <3>3. \A i \in DOMAIN wire' : wire'[i].cli
      BY <3>1, <1>0, <1>3 DEF BacklogInv
    <3> QED BY <3>1, <3>2, <3>3, <2>1, <1>0, <1>2 DEF BacklogInv
  <2>4. FreshInv'
    BY <2>1, <1>0, <1>2, <1>7 DEF FreshInv
  <2>5. CliInv'
    <3>1. CASE cli' = cli
      BY <3>1, <1>0 DEF CliInv
    <3>2. CASE cli' = [cli EXCEPT !.exit = IF h.ok THEN 0 ELSE 2, !.done = h.ok]
      <4>1. CASE h.ok
        <5>1. cli' = [cli EXCEPT !.exit = 0, !.done = h.ok]
          BY <3>2, <4>1
        <5>2. cli' = [op |-> cli.op, blk |-> cli.blk, exit |-> 0, done |-> h.ok]
          BY <5>1, <1>0 DEF CliInv
        <5>3. cli'.op = cli.op /\ cli'.blk = cli.blk /\ cli'.exit = 0 /\ cli'.done = h.ok
          BY <5>2
        <5> QED BY <5>2, <5>3, <4>1 DEF CliInv
      <4>2. CASE ~h.ok
        <5>1. cli' = [cli EXCEPT !.exit = 2, !.done = h.ok]
          BY <3>2, <4>2
        <5>2. cli' = [op |-> cli.op, blk |-> cli.blk, exit |-> 2, done |-> h.ok]
          BY <5>1, <1>0 DEF CliInv
        <5>3. cli'.op = cli.op /\ cli'.blk = cli.blk /\ cli'.exit = 2 /\ cli'.done = h.ok
          BY <5>2
        <5> QED BY <5>2, <5>3 DEF CliInv
      <4> QED BY <4>1, <4>2
    <3> QED BY <3>1, <3>2, <1>1, <1>9
  <2> QED BY <2>2, <2>3, <2>4, <2>5, <1>6, <1>8 DEF PanelInv
<1>10. CASE ~r.cli
  <2> DEFINE st == IF r.op = "status" /\ h.ok THEN h.s.status ELSE Off
             m == [current |-> r.current, op |-> r.op, val |-> h.val, status |-> st]
  <2>1. /\ cli' = cli /\ inbox' = Append(inbox, m)
        /\ seen' = IF r.blk = call.blk /\ call.op = "status"
                   THEN seen \cup {h.s.status} ELSE seen
    BY <1>1, <1>10
  <2>2. st \in Status /\ (r.op = "status" => st = h.s.status)
    <3>1. h.s.status \in Status
      BY <1>5 DEF BlockState
    <3> QED BY <3>1, <1>5, PanelConstants
  <2> HIDE DEF st
  <2>3. /\ m \in Answer /\ m.op = r.op /\ m.val = h.val /\ m.status = st
        /\ (m.current <=> r.current)
    BY <2>2, <1>4, <1>5 DEF Answer
  <2> HIDE DEF m
  <2>4. /\ inbox' \in Seq(Answer) /\ Len(inbox') = Len(inbox) + 1 /\ Len(inbox) \in Nat
        /\ \A i \in DOMAIN inbox' : (i \in DOMAIN inbox /\ inbox'[i] = inbox[i]) \/ inbox'[i] = m
    <3>1. inbox \in Seq(Answer)
      BY <1>0 DEF PanelKinds
    <3> QED BY <3>1, <2>1, <2>3
  <2>5. \A i \in DOMAIN inbox' : inbox'[i].op = "enable" => inbox'[i].val \in Bit
    BY <2>3, <2>4, <1>0, <1>5 DEF PanelKinds
  <2>6. PanelKinds'
    BY <2>4, <2>5, <1>0, <1>2, <1>3, <1>6, <1>7 DEF PanelKinds
  <2>7. BacklogInv'
    <3>1. use # "line"
      BY <1>0, <1>3, <1>10 DEF BacklogInv
    <3>2. \A i \in DOMAIN wire' : ~wire'[i].cli
      BY <3>1, <1>0, <1>3 DEF BacklogInv
    <3>3. Len(wire') + Len(inbox') = Len(wire) + Len(inbox)
      BY <1>3, <2>4
    <3> QED BY <3>1, <3>2, <3>3, <1>0, <1>2 DEF BacklogInv
  <2>8. FreshInv'
    <3>1. ASSUME NEW i \in DOMAIN inbox', call.op = "status", inbox'[i].current,
                 inbox'[i].op = "status"
          PROVE inbox'[i].status \in seen'
      <4>1. CASE i \in DOMAIN inbox /\ inbox'[i] = inbox[i]
        <5>1. inbox[i].status \in seen
          BY <3>1, <4>1, <1>0 DEF FreshInv
        <5> QED BY <5>1, <4>1, <2>1
      <4>2. CASE inbox'[i] = m
        <5>1. r.current /\ r.op = "status"
          BY <3>1, <4>2, <2>3
        <5>2. r.blk = call.blk
          BY <5>1, <3>1, <1>0, <1>3, <1>10 DEF FreshInv
        <5> QED BY <5>1, <5>2, <3>1, <4>2, <2>1, <2>2, <2>3
      <4> QED BY <4>1, <4>2, <2>4
    <3> QED BY <3>1, <1>2, <1>7 DEF FreshInv
  <2>9. CliInv'
    BY <2>1, <1>0 DEF CliInv
  <2> QED BY <2>6, <2>7, <2>8, <2>9, <1>6, <1>8 DEF PanelInv
<1> QED BY <1>9, <1>10

(* One step per action of the panel.                                       *)
LEMMA PanelKeeps == PanelInv /\ [PanelNext]_panelVars => PanelInv'
<1> SUFFICES ASSUME PanelInv, [PanelNext]_panelVars PROVE PanelInv'
  OBVIOUS
<1>0. PanelKinds /\ BacklogInv /\ FreshInv /\ DriverInv /\ CliInv /\ KnobsHoldRecalled
  BY DEF PanelInv
<1>a. /\ server \in [PanelBlock -> BlockState] /\ panel \in [PanelBlock -> Widgets]
      /\ recalled \in [PanelBlock -> -1..(Top + 1)]
      /\ wire \in Seq(Asking) /\ inbox \in Seq(Answer)
      /\ Len(wire) \in Nat /\ Len(inbox) \in Nat
      /\ \A i \in DOMAIN inbox : inbox[i].op = "enable" => inbox[i].val \in Bit
  BY <1>0 DEF PanelKinds
<1>1. CASE Edit
  <2>1. PICK b \in Used :
       \/ /\ \E x \in Bit : \/ panel' = [panel EXCEPT ![b].power = x]
                           \/ panel' = [panel EXCEPT ![b].enable = x]
          /\ UNCHANGED recalled
       \/ /\ \/ \E v \in 0..Top : panel' = [panel EXCEPT ![b].knob = SpinSet(v)]
             \/ \E p \in 0..Steps : panel' = [panel EXCEPT ![b].knob = DialSet(p)]
          /\ recalled' = [recalled EXCEPT ![b] = -1]
    BY <1>1 DEF Edit
  <2>2. b \in PanelBlock /\ panel[b] \in Widgets
    BY <1>a, PanelConstants DEF Used
  <2>3. panel' \in [PanelBlock -> Widgets] /\ recalled' \in [PanelBlock -> -1..(Top + 1)]
        /\ KnobsHoldRecalled'
    <3>1. CASE /\ \E x \in Bit : \/ panel' = [panel EXCEPT ![b].power = x]
                                \/ panel' = [panel EXCEPT ![b].enable = x]
               /\ UNCHANGED recalled
      <4>1. PICK n \in Widgets : panel' = [panel EXCEPT ![b] = n] /\ n.knob = panel[b].knob
        <5>1. PICK x \in Bit : \/ panel' = [panel EXCEPT ![b].power = x]
                               \/ panel' = [panel EXCEPT ![b].enable = x]
          BY <3>1
        <5>2. CASE panel' = [panel EXCEPT ![b].power = x]
          <6>1. [panel[b] EXCEPT !.power = x] \in Widgets
                /\ [panel[b] EXCEPT !.power = x].knob = panel[b].knob
            BY <2>2 DEF Widgets
          <6> QED BY <6>1, <5>2
        <5>3. CASE panel' = [panel EXCEPT ![b].enable = x]
          <6>1. [panel[b] EXCEPT !.enable = x] \in Widgets
                /\ [panel[b] EXCEPT !.enable = x].knob = panel[b].knob
            BY <2>2 DEF Widgets
          <6> QED BY <6>1, <5>3
        <5> QED BY <5>1, <5>2, <5>3
      <4>2. \A y \in PanelBlock : panel'[y].knob = panel[y].knob
        BY <4>1, <2>2, <1>a
      <4> QED BY <3>1, <4>1, <4>2, <2>2, <1>0, <1>a DEF KnobsHoldRecalled
    <3>2. CASE /\ \/ \E v \in 0..Top : panel' = [panel EXCEPT ![b].knob = SpinSet(v)]
                  \/ \E p \in 0..Steps : panel' = [panel EXCEPT ![b].knob = DialSet(p)]
               /\ recalled' = [recalled EXCEPT ![b] = -1]
      <4>1. PICK n \in Knob : panel' = [panel EXCEPT ![b].knob = n]
        <5>1. 0..Top \subseteq Nat
          BY PanelConstants
        <5> QED BY <5>1, <3>2, KnobFacts
      <4>2. [panel[b] EXCEPT !.knob = n] \in Widgets
        BY <2>2 DEF Widgets
      <4>3. panel' \in [PanelBlock -> Widgets] /\ \A y \in PanelBlock \ {b} : panel'[y] = panel[y]
        BY <4>1, <4>2, <2>2, <1>a
      <4>4. /\ recalled' \in [PanelBlock -> -1..(Top + 1)] /\ recalled'[b] = -1
            /\ \A y \in PanelBlock \ {b} : recalled'[y] = recalled[y]
        BY <3>2, <2>2, <1>a, PanelConstants
      <4> QED BY <4>3, <4>4, <1>0 DEF KnobsHoldRecalled
    <3> QED BY <2>1, <3>1, <3>2
  <2>4. UNCHANGED <<server, driver, wire, inbox, call, timer, cli, use, restarts, seen>>
    BY <1>1 DEF Edit
  <2> QED BY <2>3, <2>4, <1>0
          DEF PanelInv, PanelKinds, BacklogInv, FreshInv, DriverInv, CliInv
<1>2. CASE ToggleAuto
  <2>1. timer' \in BOOLEAN
    BY <1>2, Zenon DEF ToggleAuto, _toggle_auto_refresh
  <2>2. UNCHANGED <<server, driver, wire, inbox, call, panel, cli, use, restarts, seen, recalled>>
    BY <1>2 DEF ToggleAuto
  <2> QED BY <2>1, <2>2, <1>0
          DEF PanelInv, PanelKinds, BacklogInv, FreshInv, DriverInv, CliInv, KnobsHoldRecalled
<1>3. ASSUME NEW op \in Op, NEW b \in PanelBlock, NEW rest \in Seq(PanelBlock),
             call = Idle, use # "line", Rpc(op, b, rest, inbox),
             UNCHANGED <<server, driver, panel, timer, cli, use, restarts, recalled>>
      PROVE PanelInv'
  <2>1. call.op = "idle"
    BY <1>3 DEF Idle
  <2>2. Len(wire) + Len(inbox) <= MaxBacklog
    BY <2>1, <1>0, <1>3, <1>a, PanelConstants DEF BacklogInv
  <2>3. KnobsHoldRecalled'
    BY <1>0, <1>3 DEF KnobsHoldRecalled
  <2>4. panel' \in [PanelBlock -> Widgets] /\ recalled' \in [PanelBlock -> -1..(Top + 1)]
    BY <1>3, <1>a
  <2> QED BY <1>3, <1>a, <2>2, <2>3, <2>4, SendKeeps
<1>4. ASSUME NEW b \in PanelBlock, NEW op \in Op, Click(op, b) PROVE PanelInv'
  <2>1. use # "line"
    BY <1>4 DEF Click, Buttons
  <2>2. <<>> \in Seq(PanelBlock)
    OBVIOUS
  <2>3. /\ call = Idle /\ Rpc(op, b, <<>>, inbox)
        /\ UNCHANGED <<server, driver, panel, timer, cli, use, restarts, recalled>>
    BY <1>4 DEF Click
  <2> QED BY <2>1, <2>2, <2>3, <1>3
<1>5. CASE RefreshAll
  <2>1. Tail(Panels) \in Seq(PanelBlock)
    <3>1. Panels \in [1..Blocks -> PanelBlock] /\ Blocks \in Nat \ {0}
      BY PanelConstants DEF Panels, PanelBlock
    <3>2. Panels \in Seq(PanelBlock) /\ Panels # <<>>
      BY <3>1
    <3> QED BY <3>2
  <2>2. /\ call = Idle /\ use # "line" /\ Rpc("status", 0, Tail(Panels), inbox)
        /\ UNCHANGED <<server, driver, panel, timer, cli, use, restarts, recalled>>
    BY <1>5 DEF RefreshAll
  <2>3. "status" \in Op /\ 0 \in PanelBlock
    BY PanelConstants
  <2> QED BY <2>1, <2>2, <2>3, <1>3
<1>6. ASSUME NEW b \in PanelBlock, NEW op \in Op, CliSend(op, b) PROVE PanelInv'
  <2>1. /\ use = "line" /\ Len(wire) <= MaxBacklog
        /\ cli' = [op |-> op, blk |-> b, exit |-> -1, done |-> FALSE]
        /\ UNCHANGED <<server, driver, inbox, call, panel, timer, use, restarts, seen, recalled>>
    BY <1>6 DEF CliSend
  <2>2. CliInv'
    BY <2>1 DEF CliInv
  <2>3. /\ wire' \in Seq(Asking) /\ Len(wire') <= MaxBacklog + 1
        /\ \A i \in DOMAIN wire' : /\ wire'[i].cli
                                   /\ wire'[i].op # "program" => wire'[i].arg \in Bit
    <3>1. \A i \in DOMAIN wire : /\ wire[i].cli
                                 /\ wire[i].op # "program" => wire[i].arg \in Bit
      BY <2>1, <1>0 DEF BacklogInv, PanelKinds
    <3>2. CASE wire' = wire
      BY <3>1, <3>2, <2>1, <1>a, PanelConstants
    <3>3. ASSUME NEW v \in IF op = "program" THEN {0, Top + 1} ELSE Bit,
                 wire' = Append(wire, [cli |-> TRUE, current |-> TRUE, op |-> op,
                                       blk |-> b, arg |-> v])
          PROVE /\ wire' \in Seq(Asking) /\ Len(wire') <= MaxBacklog + 1
                /\ \A i \in DOMAIN wire' : /\ wire'[i].cli
                                           /\ wire'[i].op # "program" => wire'[i].arg \in Bit
      <4> DEFINE q == [cli |-> TRUE, current |-> TRUE, op |-> op, blk |-> b, arg |-> v]
      <4>1. v \in 0..(Top + 1) /\ (op # "program" => v \in Bit)
        BY PanelConstants
      <4>2. q \in Asking /\ q.cli /\ q.op = op /\ q.arg = v
        BY <4>1 DEF Asking
      <4>3. wire' = Append(wire, q)
        BY <3>3
      <4> HIDE DEF q
      <4>4. /\ wire' \in Seq(Asking) /\ Len(wire') = Len(wire) + 1
            /\ \A i \in DOMAIN wire' : (i \in DOMAIN wire /\ wire'[i] = wire[i]) \/ wire'[i] = q
        BY <4>2, <4>3, <1>a
      <4>5. Len(wire') <= MaxBacklog + 1
        BY <4>4, <2>1, <1>a, PanelConstants
      <4>6. ASSUME NEW i \in DOMAIN wire'
            PROVE wire'[i].cli /\ (wire'[i].op # "program" => wire'[i].arg \in Bit)
        <5>1. CASE i \in DOMAIN wire /\ wire'[i] = wire[i]
          BY <5>1, <3>1
        <5>2. CASE wire'[i] = q
          BY <5>2, <4>1, <4>2
        <5> QED BY <5>1, <5>2, <4>4
      <4> QED BY <4>4, <4>5, <4>6
    <3> QED BY <3>2, <3>3, <1>6 DEF CliSend
  <2>4. PanelKinds'
    BY <2>1, <2>3, <1>0 DEF PanelKinds
  <2>5. BacklogInv'
    BY <2>1, <2>3, <1>0 DEF BacklogInv
  <2>6. FreshInv'
    BY <2>1, <2>3, <1>0 DEF FreshInv
  <2>7. DriverInv' /\ KnobsHoldRecalled'
    BY <2>1, <1>0 DEF DriverInv, KnobsHoldRecalled
  <2> QED BY <2>2, <2>4, <2>5, <2>6, <2>7 DEF PanelInv
<1>7. CASE ServerCrash
  <2>1. /\ restarts < MaxRestarts /\ restarts' = restarts + 1 /\ server' = Fresh
        /\ wire' = <<>> /\ seen' = (IF call.op = "status" THEN seen \cup {Off} ELSE {})
        /\ UNCHANGED <<driver, inbox, call, panel, timer, cli, use, recalled>>
    BY <1>7 DEF ServerCrash
  <2>2. wire' \in Seq(Asking) /\ DOMAIN wire' = {} /\ Len(wire') = 0
    BY <2>1
  <2>3. restarts' \in 0..MaxRestarts
    BY <2>1, <1>0, PanelConstants DEF PanelKinds
  <2>4. PanelKinds'
    BY <2>1, <2>2, <2>3, <1>0, PanelConstants DEF PanelKinds
  <2>5. BacklogInv'
    BY <2>1, <2>2, <1>0, <1>a, PanelConstants DEF BacklogInv
  <2>6. FreshInv'
    BY <2>1, <2>2, <1>0 DEF FreshInv
  <2>7. DriverInv'
    BY <2>1, PanelConstants DEF DriverInv
  <2>8. CliInv' /\ KnobsHoldRecalled'
    BY <2>1, <1>0 DEF CliInv, KnobsHoldRecalled
  <2> QED BY <2>4, <2>5, <2>6, <2>7, <2>8 DEF PanelInv
<1>8. ASSUME NEW b \in PanelBlock, Publish(b) PROVE PanelInv'
  <2>1. PICK z \in Published :
          /\ server' = [server EXCEPT ![b].status = z]
          /\ seen' = IF b = call.blk /\ call.op = "status" THEN seen \cup {z} ELSE seen
    BY <1>8 DEF Publish
  <2>2. /\ server[b].enable = 1
        /\ UNCHANGED <<driver, wire, inbox, call, panel, timer, cli, use, restarts, recalled>>
    BY <1>8 DEF Publish
  <2>3. driver
    BY <2>2, <1>0 DEF DriverInv
  <2>4. server' \in [PanelBlock -> BlockState]
    <3>1. z \in Status
      BY PanelAssumption
    <3>2. [server[b] EXCEPT !.status = z] \in BlockState
      BY <3>1, <1>a DEF BlockState
    <3> QED BY <3>2, <2>1, <1>a
  <2>5. PanelKinds'
    BY <2>2, <2>4, <1>0 DEF PanelKinds
  <2>6. seen \subseteq seen'
    BY <2>1
  <2>7. FreshInv'
    BY <2>2, <2>6, <1>0 DEF FreshInv
  <2> QED BY <2>2, <2>3, <2>5, <2>7, <1>0
          DEF PanelInv, BacklogInv, DriverInv, CliInv, KnobsHoldRecalled
<1>9. CASE ReplyShown
  <2>1. /\ call # Idle /\ inbox # <<>> /\ ReplyMatches(Head(inbox))
        /\ panel' = [panel EXCEPT ![call.blk] = Shown(@, Head(inbox))]
        /\ recalled' = (IF call.op = "config"
                        THEN [recalled EXCEPT ![call.blk] = Head(inbox).val] ELSE recalled)
        /\ UNCHANGED <<server, driver, timer, cli, use, restarts>>
    BY <1>9 DEF ReplyShown
  <2>2. /\ panel' \in [PanelBlock -> Widgets]
        /\ recalled' \in [PanelBlock -> -1..(Top + 1)] /\ KnobsHoldRecalled'
    BY <2>1, ShownKeeps
  <2>3. /\ use # "line" /\ call.blk \in PanelBlock
        /\ Len(wire) + Len(inbox) <= MaxBacklog + 1
    BY <2>1, CallFacts
  <2>4. /\ Tail(inbox) \in Seq(Answer) /\ Len(Tail(inbox)) = Len(inbox) - 1
        /\ \A i \in DOMAIN Tail(inbox) :
             Tail(inbox)[i].op = "enable" => Tail(inbox)[i].val \in Bit
    BY <2>1, <1>0, AnswerRead
  <2>5. Len(wire) + Len(Tail(inbox)) <= MaxBacklog
    BY <2>3, <2>4, <1>a, PanelConstants
  <2>6. CASE call.op = "clear"
    <3>1. Rpc("status", call.blk, <<>>, Tail(inbox))
      BY <1>9, <2>6 DEF ReplyShown
    <3>2. "status" \in Op /\ <<>> \in Seq(PanelBlock)
      BY PanelConstants
    <3> QED BY <2>1, <2>2, <2>3, <2>4, <2>5, <3>1, <3>2, SendKeeps
  <2>7. CASE call.op # "clear"
    <3>1. Return(Tail(inbox))
      BY <1>9, <2>7 DEF ReplyShown
    <3> QED BY <2>1, <2>2, <2>3, <2>4, <2>5, <3>1, ReturnKeeps
  <2> QED BY <2>6, <2>7
<1>10. ASSUME UNCHANGED <<server, driver, panel, timer, cli, use, restarts, recalled>>
       PROVE /\ panel' \in [PanelBlock -> Widgets]
             /\ recalled' \in [PanelBlock -> -1..(Top + 1)] /\ KnobsHoldRecalled'
  BY <1>10, <1>0, <1>a DEF KnobsHoldRecalled
<1>11. CASE ReplyRefused
  <2>1. /\ call # Idle /\ inbox # <<>> /\ Return(Tail(inbox))
        /\ UNCHANGED <<server, driver, panel, timer, cli, use, restarts, recalled>>
    BY <1>11 DEF ReplyRefused
  <2>2. use # "line" /\ Len(wire) + Len(inbox) <= MaxBacklog + 1
    BY <2>1, CallFacts
  <2>3. /\ Tail(inbox) \in Seq(Answer) /\ Len(Tail(inbox)) = Len(inbox) - 1
        /\ \A i \in DOMAIN Tail(inbox) :
             Tail(inbox)[i].op = "enable" => Tail(inbox)[i].val \in Bit
    BY <2>1, <1>0, AnswerRead
  <2>4. Len(wire) + Len(Tail(inbox)) <= MaxBacklog
    BY <2>2, <2>3, <1>a, PanelConstants
  <2> QED BY <2>1, <2>2, <2>3, <2>4, <1>10, ReturnKeeps
<1>12. CASE CallTimeout
  <2>1. /\ call # Idle /\ TimedOut /\ Return(inbox)
        /\ UNCHANGED <<server, driver, panel, timer, cli, use, restarts, recalled>>
    BY <1>12 DEF CallTimeout
  <2>2. use # "line"
    BY <2>1, CallFacts
  <2>3. Len(wire) + Len(inbox) <= MaxBacklog
    <3>1. CASE inbox = <<>> /\ \A i \in DOMAIN wire : wire[i].cli
      <4>1. \A i \in DOMAIN wire : ~wire[i].cli
        BY <2>2, <1>0 DEF BacklogInv
      <4>2. DOMAIN wire = {}
        BY <3>1, <4>1
      <4>3. Len(wire) = 0 /\ Len(inbox) = 0
        BY <3>1, <4>2, <1>a
      <4> QED BY <4>3, PanelConstants
    <3> QED BY <3>1, <2>1 DEF TimedOut
  <2> QED BY <2>1, <2>2, <2>3, <1>10, <1>a, ReturnKeeps
<1>13. CASE CliEnd
  <2> DEFINE x == IF cli.exit >= 0 THEN CliExit ELSE 2
             w == [i \in DOMAIN wire |->
                IF wire[i].cli THEN [wire[i] EXCEPT !.current = FALSE] ELSE wire[i]]
  <2>1. /\ cli' = [cli EXCEPT !.op = "ended", !.exit = x] /\ wire' = w
        /\ UNCHANGED <<server, driver, inbox, call, panel, timer, use, restarts, seen, recalled>>
    BY <1>13 DEF CliEnd
  <2>2. x \in Int /\ (x = 0 => cli.done)
    BY <1>0 DEF CliInv, CliExit
  <2> HIDE DEF x
  <2>3. CliInv'
    <3>1. cli' = [op |-> "ended", blk |-> cli.blk, exit |-> x, done |-> cli.done]
      BY <2>1, <1>0 DEF CliInv
    <3>2. cli'.op = "ended" /\ cli'.blk = cli.blk /\ cli'.exit = x /\ cli'.done = cli.done
      BY <3>1
    <3> QED BY <3>1, <3>2, <2>2 DEF CliInv
  <2> DEFINE A == {i \in DOMAIN wire : wire[i].cli}
  <2>4. w = AgeAt(A)
    BY DEF AgeAt
  <2> HIDE DEF w
  <2>5. /\ wire' \in Seq(Asking) /\ Len(wire') = Len(wire) /\ DOMAIN wire' = DOMAIN wire
        /\ \A i \in DOMAIN wire :
             /\ wire'[i].cli = wire[i].cli /\ wire'[i].op = wire[i].op
             /\ wire'[i].blk = wire[i].blk /\ wire'[i].arg = wire[i].arg
             /\ i \in A => ~wire'[i].current
             /\ i \notin A => wire'[i] = wire[i]
    <3> HIDE DEF A
    <3> QED BY <2>1, <2>4, <1>0, AgedWire
  <2>6. PanelKinds'
    BY <2>1, <2>5, <1>0 DEF PanelKinds
  <2>7. BacklogInv'
    <3>1. \A i \in DOMAIN wire' : wire'[i].cli = wire[i].cli
      BY <2>5
    <3> QED BY <3>1, <2>1, <2>5, <1>0 DEF BacklogInv
  <2>8. FreshInv'
    BY <2>1, <2>5, <1>0 DEF FreshInv
  <2>9. DriverInv' /\ KnobsHoldRecalled'
    BY <2>1, <1>0 DEF DriverInv, KnobsHoldRecalled
  <2> QED BY <2>3, <2>6, <2>7, <2>8, <2>9 DEF PanelInv
<1>14. CASE UNCHANGED panelVars
  BY <1>14, <1>0 DEF panelVars, PanelInv, PanelKinds, BacklogInv, FreshInv, DriverInv,
                     CliInv, KnobsHoldRecalled
<1>15. CASE PanelServe
  BY <1>15, ServeKeeps
<1>16. CASE AutoRefreshTick
  BY <1>16, <1>5 DEF AutoRefreshTick
<1> QED BY <1>1, <1>2, <1>4, <1>5, <1>6, <1>7, <1>8, <1>9, <1>11, <1>12, <1>13, <1>14,
           <1>15, <1>16 DEF PanelNext

(* Only an answer that matches changes a lamp.                             *)
LEMMA LampStep ==
  ASSUME PanelInv, PanelNext, NEW b \in PanelBlock, panel'[b].lamp # panel[b].lamp
  PROVE b = call.blk /\ panel'[b].lamp \in seen
<1>0. panel \in [PanelBlock -> Widgets]
  BY DEF PanelInv, PanelKinds
<1>1. CASE ReplyShown
  BY <1>1, ShownKeeps DEF ReplyShown
<1>2. ~Edit
  <2> SUFFICES ASSUME Edit PROVE FALSE
    OBVIOUS
  <2>0. PICK d \in Used : \E n : \/ panel' = [panel EXCEPT ![d].power = n]
                                \/ panel' = [panel EXCEPT ![d].enable = n]
                                \/ panel' = [panel EXCEPT ![d].knob = n]
    BY DEF Edit
  <2>1. PICK n : \/ panel' = [panel EXCEPT ![d].power = n]
                 \/ panel' = [panel EXCEPT ![d].enable = n]
                 \/ panel' = [panel EXCEPT ![d].knob = n]
    BY <2>0
  <2>2. d \in PanelBlock /\ panel[d] \in Widgets
    BY <1>0, PanelConstants DEF Used
  <2>3. /\ [panel[d] EXCEPT !.power = n].lamp = panel[d].lamp
        /\ [panel[d] EXCEPT !.enable = n].lamp = panel[d].lamp
        /\ [panel[d] EXCEPT !.knob = n].lamp = panel[d].lamp
    BY <2>2 DEF Widgets
  <2> QED BY <2>1, <2>2, <2>3, <1>0
<1>3. panel' # panel
  OBVIOUS
<1>4. /\ ~ToggleAuto /\ ~RefreshAll /\ ~AutoRefreshTick /\ ~PanelServe /\ ~ServerCrash
      /\ ~ReplyRefused /\ ~CallTimeout /\ ~CliEnd
  BY <1>3 DEF ToggleAuto, RefreshAll, AutoRefreshTick, PanelServe, ServerCrash,
              ReplyRefused, CallTimeout, CliEnd
<1>5. \A d \in PanelBlock, op \in Op : ~Click(op, d) /\ ~CliSend(op, d) /\ ~Publish(d)
  BY <1>3 DEF Click, CliSend, Publish
<1>6. Op # {}
  BY PanelConstants
<1> QED BY <1>1, <1>2, <1>4, <1>5, <1>6 DEF PanelNext

(* For any number of blocks, ranges of the knobs, backlogs and crashes:    *)
(* the lamps show statuses the server had for that block since it was      *)
(* asked, the knobs hold the settings read, and the command line returns 0 *)
(* only for what was done.                                                 *)
THEOREM PanelIsTrue == PanelSpec => PanelShowsServer
<1>1. PanelInv => PanelTypeOK /\ KnobsHoldRecalled /\ ZeroIsDone
  <2> SUFFICES ASSUME PanelInv PROVE PanelTypeOK /\ KnobsHoldRecalled /\ ZeroIsDone
    OBVIOUS
  <2>1. KnobsHoldRecalled /\ ZeroIsDone
    BY DEF PanelInv, CliInv, ZeroIsDone
  <2>2. Len(inbox) + Len(wire) <= MaxBacklog + Blocks + 2
    <3>1. Len(wire) \in Nat /\ Len(inbox) \in Nat
      BY DEF PanelInv, PanelKinds
    <3>2. CASE use = "line"
      <4>1. Len(inbox) = 0 /\ Len(wire) <= MaxBacklog + 1
        BY <3>2 DEF PanelInv, BacklogInv
      <4> QED BY <4>1, <3>1, PanelConstants
    <3>3. CASE use # "line"
      <4>1. Len(wire) + Len(inbox) <= MaxBacklog + 1
        BY <3>3, <3>1, PanelConstants DEF PanelInv, BacklogInv
      <4> QED BY <4>1, <3>1, PanelConstants
    <3> QED BY <3>2, <3>3
  <2>3. PanelTypeOK
    BY <2>2 DEF PanelInv, PanelKinds, PanelTypeOK, BlockState, Widgets, Knob, Calls
  <2> QED BY <2>1, <2>3
<1>2. PanelInv /\ [PanelNext]_panelVars =>
        [\A b \in PanelBlock : panel'[b].lamp # panel[b].lamp =>
           b = call.blk /\ panel'[b].lamp \in seen]_panelVars
  BY LampStep
<1>3. PanelSpec => PanelInit /\ [][PanelNext]_panelVars
  BY PTL DEF PanelSpec
<1>4. PanelInit /\ [][PanelNext]_panelVars => []PanelInv
  BY PanelStarts, PanelKeeps, PTL
<1>5. PanelSpec => [](PanelTypeOK /\ KnobsHoldRecalled /\ ZeroIsDone)
  BY <1>1, <1>3, <1>4, PTL
<1>6. PanelSpec => LampsAreFresh
  BY <1>2, <1>3, <1>4, PTL DEF LampsAreFresh
<1> QED BY <1>5, <1>6 DEF PanelShowsServer
=============================================================================
