----------------------------- MODULE HDMezzPanel -----------------------------
(***************************************************************************)
(* hdmezz_control_v2.py: the control panel of the HD mezzanines and its    *)
(* command line, on the ROUTER of daphneServer.                            *)
(*                                                                         *)
(* The panel has one DEALER socket.  A click sends a request and blocks    *)
(* the event loop until a reply is read or the timeout raises; the reply   *)
(* to a request that timed out stays in the socket, and is what the next   *)
(* request reads.  Qt delivers timer ticks and clicks between calls.       *)
(*                                                                         *)
(* The server is reduced to what the panel sees: the enable flags, what    *)
(* the monitor thread publishes of each block (any value: the rails are in *)
(* HDMezz), and the settings of each block.  The two rails of a block are  *)
(* one switch and one status, its six knobs are one; a knob has the values *)
(* 0..Top and its dial the positions 0..Steps.  Checkboxes and switches    *)
(* are 0 or 1.  A message is current when its id is that of the last       *)
(* request of its client.                                                  *)
(***************************************************************************)
EXTENDS Integers, Sequences

CONSTANTS
  Blocks,      \* number of AFE blocks
  Top,         \* the largest value of a knob
  Steps,       \* the positions of its dial
  Published,   \* statuses of a block that the monitor publishes
  MaxBacklog,  \* bound: messages under way when a request times out
  MaxRestarts  \* bound: crashes of the server

PanelBlock == 0..(Blocks - 1)
Bit == {0, 1}
Status == [power : Bit, alert : Bit]

ASSUME PanelAssumption ==
  /\ Blocks \in Nat \ {0} /\ Steps \in Nat \ {0} /\ Top \in Nat \ {0}
  /\ Top % Steps = 0
  /\ Published \subseteq Status
  /\ MaxBacklog \in Nat /\ MaxRestarts \in Nat

VARIABLES
  server,    \* enable flags, published statuses and settings
  driver,    \* whether the HD mezzanine driver was created
  wire,      \* requests on their way to the server
  inbox,     \* replies in the socket of the panel
  call,      \* the call the event loop is in
  panel,     \* widgets of each block
  timer,     \* auto refresh
  cli,       \* a run of the command line
  use,       \* what is used in this behaviour, see Buttons
  restarts,
  seen,      \* history: statuses published since the call was sent
  recalled   \* history: settings in the knobs, -1 once they are edited

panelVars == <<server, driver, wire, inbox, call, panel, timer, cli, use,
               restarts, seen, recalled>>

Off == [power |-> 0, alert |-> 0]
Default == 1

(* Bound: a behaviour uses the telemetry, the settings or, with the panel   *)
(* open but left alone, the command line.                                  *)
Buttons == [watch |-> {"status", "clear"},
            setup |-> {"enable", "power", "config", "program"},
            line  |-> {}]
Op == Buttons["watch"] \cup Buttons["setup"]

(* Bound: the knobs of one block are used at a time.                        *)
Used == IF use = "watch" THEN PanelBlock ELSE {0}

Idle == [op |-> "idle", blk |-> 0, rest |-> <<>>]
NoRun == [op |-> "idle", blk |-> 0, exit |-> -1, done |-> FALSE]

-----------------------------------------------------------------------------
(* KnobSpin: the spin box and its dial follow each other; _syncing keeps   *)
(* the rounding of the dial from coming back to the spin box.              *)

(* Python's round: to the nearest position, a tie to the even one.         *)
PosOf(v) ==
  LET q == (v * Steps) \div Top
      r == (v * Steps) % Top
  IN IF 2 * r > Top \/ (2 * r = Top /\ q % 2 = 1) THEN q + 1 ELSE q

ValueOf(p) == (Top * p) \div Steps

(* Mutant: the range of the spin box is not set.                            *)
Clamp_No(v) == v

Clamp(v) == IF v > Top THEN Top ELSE v

(* Mutant: without _syncing the dial writes its rounded value back.        *)
SpinSet_Echo(v) ==
  [spin |-> ValueOf(PosOf(Clamp(v))), dial |-> PosOf(Clamp(v))]

SpinSet(v) == [spin |-> Clamp(v), dial |-> PosOf(Clamp(v))]

DialSet(p) == [spin |-> ValueOf(p), dial |-> p]

-----------------------------------------------------------------------------
(* The driver's state when the server starts.                              *)
Fresh ==
  [b \in PanelBlock |-> [enable |-> 0, status |-> Off, cfg |-> Default]]

PanelInit ==
  /\ use \in {"watch", "setup", "line"}
  /\ driver \in BOOLEAN
  /\ \E cfg \in {Default, Top + 1} :
       server = [b \in PanelBlock |->
         [Fresh[b] EXCEPT !.enable = IF use = "watch" /\ driver THEN 1 ELSE 0,
                          !.cfg = IF use = "setup" THEN cfg ELSE Default]]
  /\ wire = <<>> /\ inbox = <<>> /\ call = Idle
  /\ panel = [b \in PanelBlock |->
       [enable |-> 0, power |-> 0, lamp |-> Off, knob |-> SpinSet(Default)]]
  /\ timer = FALSE /\ cli = NoRun /\ restarts = 0
  /\ seen = {}
  /\ recalled = [b \in PanelBlock |-> -1]

-----------------------------------------------------------------------------
(* The user's hands, between two calls.                                    *)

Edit ==
  /\ call = Idle /\ use = "setup"
  /\ \E b \in Used :
       \/ /\ \E x \in Bit : \/ panel' = [panel EXCEPT ![b].power = x]
                           \/ panel' = [panel EXCEPT ![b].enable = x]
          /\ UNCHANGED recalled
       \/ /\ \/ \E v \in 0..Top : panel' = [panel EXCEPT ![b].knob = SpinSet(v)]
             \/ \E p \in 0..Steps : panel' = [panel EXCEPT ![b].knob = DialSet(p)]
          /\ recalled' = [recalled EXCEPT ![b] = -1]
  /\ UNCHANGED <<server, driver, wire, inbox, call, timer, cli, use,
                 restarts, seen>>

_toggle_auto_refresh == ~timer

ToggleAuto ==
  /\ call = Idle /\ use = "watch"
  /\ timer' = _toggle_auto_refresh
  /\ UNCHANGED <<server, driver, wire, inbox, call, panel, cli, use,
                 restarts, seen, recalled>>

(* The value that goes with a request.                                     *)
Arg(op, b) ==
  CASE op = "enable"  -> panel[b].enable
    [] op = "power"   -> panel[b].power
    [] op = "program" -> panel[b].knob.spin
    [] OTHER          -> 0

Aged(msgs) == [i \in DOMAIN msgs |-> [msgs[i] EXCEPT !.current = FALSE]]

(* v2_rpc up to the wait for the reply; rest are the panels still to be    *)
(* refreshed after this one.                                               *)
Rpc(op, b, rest, left) ==
  /\ call' = [op |-> op, blk |-> b, rest |-> rest]
  /\ wire' = Append([i \in DOMAIN wire |->
               IF wire[i].cli THEN wire[i] ELSE [wire[i] EXCEPT !.current = FALSE]],
               [cli |-> FALSE, current |-> TRUE, op |-> op, blk |-> b,
                arg |-> Arg(op, b)])
  /\ inbox' = Aged(left)
  /\ seen' = IF op = "status" THEN {server[b].status} ELSE {}

Click(op, b) ==
  /\ call = Idle /\ op \in Buttons[use] /\ b \in Used
  /\ Rpc(op, b, <<>>, inbox)
  /\ UNCHANGED <<server, driver, panel, timer, cli, use, restarts, recalled>>

Panels == [i \in 1..Blocks |-> i - 1]

(* refresh_all_now, from the button or from a tick of the timer.           *)
RefreshAll ==
  /\ call = Idle /\ use = "watch"
  /\ Rpc("status", 0, Tail(Panels), inbox)
  /\ UNCHANGED <<server, driver, panel, timer, cli, use, restarts, recalled>>

AutoRefreshTick == timer /\ RefreshAll

-----------------------------------------------------------------------------
(* The server.                                                             *)

(* A handler: what it makes of a block's state, whether it succeeds and    *)
(* the value it answers with.  Without a driver all of them fail; power    *)
(* and program requests fail on bus errors, the latter with some or all of *)
(* the settings taken, and the driver refuses zeros.                       *)
Handlers(r) ==
  LET s == server[r.blk]
      Ok(t, v) == [s |-> t, ok |-> TRUE, val |-> v]
      Fail(t) == [s |-> t, ok |-> FALSE, val |-> 0]
      new == [s EXCEPT !.cfg = r.arg]
  IN IF ~driver THEN {Fail(s)}
     ELSE CASE r.op = "enable"  -> {Ok([s EXCEPT !.enable = r.arg], r.arg)}
            [] r.op = "power"   -> {Ok(s, r.arg), Fail(s)}
            [] r.op = "clear"   -> {Ok([s EXCEPT !.status.alert = 0], 0)}
            [] r.op = "config"  -> {Ok(s, s.cfg)}
            [] r.op = "status"  -> {Ok(s, 0)}
            [] r.op = "program" -> IF r.arg = 0 THEN {Fail(s)}
                                   ELSE {Ok(new, r.arg), Fail(new), Fail(s)}

(* The router loop handles a request and answers it.                       *)
PanelServe ==
  /\ wire # <<>>
  /\ wire' = Tail(wire)
  /\ LET r == Head(wire) IN \E h \in Handlers(r) :
       /\ server' = [server EXCEPT ![r.blk] = h.s]
       /\ IF r.cli
          THEN /\ cli' = IF r.current
                         THEN [cli EXCEPT !.exit = IF h.ok THEN 0 ELSE 2,
                                          !.done = h.ok]
                         ELSE cli
               /\ UNCHANGED <<inbox, seen>>
          ELSE /\ inbox' = Append(inbox,
                    [current |-> r.current, op |-> r.op, val |-> h.val,
                     status |-> IF r.op = "status" /\ h.ok
                                THEN h.s.status ELSE Off])
               /\ seen' = IF r.blk = call.blk /\ call.op = "status"
                          THEN seen \cup {h.s.status}
                          ELSE seen
               /\ UNCHANGED cli
  /\ UNCHANGED <<driver, call, panel, timer, use, restarts, recalled>>

(* A pass of the monitor thread over an enabled block.                     *)
Publish(b) ==
  /\ use = "watch" /\ server[b].enable = 1
  /\ \E s \in Published :
       /\ s.alert >= server[b].status.alert
       /\ server' = [server EXCEPT ![b].status = s]
       /\ seen' = IF b = call.blk /\ call.op = "status" THEN seen \cup {s} ELSE seen
  /\ UNCHANGED <<driver, wire, inbox, call, panel, timer, cli, use,
                 restarts, recalled>>

(* The server ends and is started again; what was under way is lost.       *)
ServerCrash ==
  /\ restarts < MaxRestarts
  /\ restarts' = restarts + 1
  /\ server' = Fresh
  /\ wire' = <<>>
  /\ seen' = IF call.op = "status" THEN seen \cup {Off} ELSE {}
  /\ UNCHANGED <<driver, inbox, call, panel, timer, cli, use, recalled>>

-----------------------------------------------------------------------------
(* The end of a call.                                                      *)

(* Mutant: the correlation is not looked at.                               *)
ReplyMatches_Type(rep) == rep.op = call.op

(* The type of the reply and its correl_id.                                *)
ReplyMatches(rep) == rep.op = call.op /\ rep.current

(* Mutant: a refresh ends at the first panel without an answer.            *)
Return_Stops(left) ==
  /\ call' = Idle /\ seen' = {} /\ inbox' = left /\ UNCHANGED wire

(* Mutant: the same panel is refreshed over and over.                      *)
Return_Again(left) == Rpc(call.op, call.blk, call.rest, left)

(* The handler of the event returns, or refresh_all_now turns to the next  *)
(* panel.                                                                  *)
Return(left) ==
  IF call.rest = <<>>
  THEN /\ call' = Idle /\ seen' = {} /\ inbox' = left /\ UNCHANGED wire
  ELSE Rpc("status", Head(call.rest), Tail(call.rest), left)

(* What the methods of AFEPanel do with a reply.                           *)
Shown(p, rep) ==
  CASE rep.op = "enable" -> [p EXCEPT !.enable = rep.val]
    [] rep.op = "status" -> [p EXCEPT !.power = rep.status.power,
                                      !.lamp = rep.status]
    [] rep.op = "config" -> [p EXCEPT !.knob = SpinSet(rep.val)]
    [] OTHER -> p

ReplyShown ==
  /\ call # Idle /\ inbox # <<>>
  /\ ReplyMatches(Head(inbox))
  /\ panel' = [panel EXCEPT ![call.blk] = Shown(@, Head(inbox))]
  /\ recalled' = IF call.op = "config"
                 THEN [recalled EXCEPT ![call.blk] = Head(inbox).val]
                 ELSE recalled
  /\ IF call.op = "clear"
     THEN Rpc("status", call.blk, <<>>, Tail(inbox))
     ELSE Return(Tail(inbox))
  /\ UNCHANGED <<server, driver, timer, cli, use, restarts>>

(* _run logs what v2_rpc raises and returns None.                          *)
ReplyRefused ==
  /\ call # Idle /\ inbox # <<>>
  /\ ~ReplyMatches(Head(inbox))
  /\ Return(Tail(inbox))
  /\ UNCHANGED <<server, driver, panel, timer, cli, use, restarts, recalled>>

(* The timeout of a receive.  Bound: with MaxBacklog messages under way it *)
(* only ends calls whose reply is lost.                                    *)
TimedOut ==
  \/ Len(wire) + Len(inbox) <= MaxBacklog
  \/ /\ inbox = <<>>
     /\ \A i \in DOMAIN wire : wire[i].cli

CallTimeout ==
  /\ call # Idle /\ TimedOut
  /\ Return(inbox)
  /\ UNCHANGED <<server, driver, panel, timer, cli, use, restarts, recalled>>

-----------------------------------------------------------------------------
(* The command line: one request on a socket of its own.                   *)

(* With the default identity the ROUTER ignores the second of two sockets, *)
(* and the request goes nowhere while the panel is open.                   *)
CliSend(op, b) ==
  /\ use = "line" /\ cli.op \in {"idle", "ended"} /\ b \in Used
  /\ Len(wire) <= MaxBacklog
  /\ cli' = [op |-> op, blk |-> b, exit |-> -1, done |-> FALSE]
  /\ \/ UNCHANGED wire
     \/ \E v \in IF op = "program" THEN {0, Top + 1} ELSE Bit :
          wire' = Append(wire, [cli |-> TRUE, current |-> TRUE, op |-> op,
                                blk |-> b, arg |-> v])
  /\ UNCHANGED <<server, driver, inbox, call, panel, timer, use,
                 restarts, seen, recalled>>

(* Mutant: the exit status does not look at success.                       *)
CliExit_Zero == 0

CliExit == cli.exit

(* The run ends with the answer, or with its timeout; what it sent may     *)
(* still be handled.                                                       *)
CliEnd ==
  /\ cli.op \notin {"idle", "ended"}
  /\ cli' = [cli EXCEPT !.op = "ended",
               !.exit = IF cli.exit >= 0 THEN CliExit ELSE 2]
  /\ wire' = [i \in DOMAIN wire |->
       IF wire[i].cli THEN [wire[i] EXCEPT !.current = FALSE] ELSE wire[i]]
  /\ UNCHANGED <<server, driver, inbox, call, panel, timer, use,
                 restarts, seen, recalled>>

-----------------------------------------------------------------------------
PanelNext ==
  \/ Edit \/ ToggleAuto \/ RefreshAll \/ AutoRefreshTick
  \/ \E b \in PanelBlock, op \in Op : Click(op, b) \/ CliSend(op, b)
  \/ PanelServe \/ ServerCrash \/ (\E b \in PanelBlock : Publish(b))
  \/ ReplyShown \/ ReplyRefused \/ CallTimeout
  \/ CliEnd

(* The server's loop and the receive with its timeout always go on; ticks  *)
(* of a running timer are delivered between the other events.              *)
PanelSpec ==
  /\ PanelInit /\ [][PanelNext]_panelVars
  /\ WF_panelVars(PanelServe) /\ WF_panelVars(ReplyShown \/ ReplyRefused)
  /\ WF_panelVars(CallTimeout)
  /\ SF_panelVars(AutoRefreshTick)

-----------------------------------------------------------------------------
PanelTypeOK ==
  /\ server \in [PanelBlock -> [enable : Bit, status : Status, cfg : 1..(Top + 1)]]
  /\ panel \in [PanelBlock -> [enable : Bit, power : Bit, lamp : Status,
                          knob : [spin : 0..Top, dial : 0..Steps]]]
  /\ call.op \in Op \cup {"idle"} /\ call.blk \in PanelBlock
  /\ recalled \in [PanelBlock -> -1..(Top + 1)]
  /\ timer \in BOOLEAN /\ driver \in BOOLEAN /\ restarts \in 0..MaxRestarts
  /\ Len(inbox) + Len(wire) <= MaxBacklog + Blocks + 2

(* The lamps of a block are only set to a status that the server published *)
(* for this block after the request for it was sent: late replies to       *)
(* earlier requests, for whichever block, are never shown.                 *)
LampsAreFresh ==
  [][\A b \in PanelBlock : panel'[b].lamp # panel[b].lamp =>
       b = call.blk /\ panel'[b].lamp \in seen]_panelVars

(* Programming a block with the knobs as Recall Config left them asks for  *)
(* the settings that were read, when they are in the range of the knobs:   *)
(* the coarser dial does not change them.                                  *)
KnobsHoldRecalled ==
  \A b \in PanelBlock : recalled[b] >= 0 /\ recalled[b] <= Top =>
    panel[b].knob.spin = recalled[b]

(* The command line returns 0 only when its request was handled with       *)
(* success.                                                                *)
ZeroIsDone == cli.op = "ended" /\ cli.exit = 0 => cli.done

(* Every click, and every refresh of all the panels, comes back to the     *)
(* event loop, lost replies and crashes included.                          *)
PanelReturns == call # Idle ~> call = Idle

(* While replies are in step with the requests, an alert that stays        *)
(* latched is shown by auto refresh on its lamp, whichever block it is of. *)
InStep ==
  /\ \A i \in DOMAIN inbox : inbox[i].current /\ call # Idle
  /\ \A i \in DOMAIN wire : wire[i].cli \/ (wire[i].current /\ call # Idle)

AlertIsShown ==
  \A b \in PanelBlock :
    (timer /\ InStep /\ server[b].status.alert = 1)
      ~> (\/ ~timer \/ ~InStep \/ server[b].status.alert = 0
          \/ panel[b].lamp.alert = 1)

(* What the panel shows, programs and returns is what the server said of   *)
(* that block.                                                             *)
PanelShowsServer ==
  LampsAreFresh /\ [](PanelTypeOK /\ KnobsHoldRecalled /\ ZeroIsDone)

(* The panel comes back from every call, and auto refresh shows alerts.    *)
PanelAnswers == PanelReturns /\ AlertIsShown
=============================================================================
