------------------------------ MODULE PsMioGpio ------------------------------
(***************************************************************************)
(* ps_mio_spi_gpio_board.py and its remote wrapper: the SPI pins of the    *)
(* mezzanines as GPIO lines, while a device-tree overlay disables the      *)
(* Ethernet and USB controllers that use the same pins.                    *)
(*                                                                         *)
(* A command is a sequence of writes to sysfs and configfs, one a step.    *)
(* Any of them may fail, which ends the command there with what it has     *)
(* done; the next command starts from that.                                *)
(***************************************************************************)
EXTENDS Integers, SequencesExt

CONSTANTS
  MezzLists,    \* values of --mezz, the default included
  OutputRoles, InputRoles,  \* sequences of roles
  PulseCount    \* --pulse-count

Role == ToSet(OutputRoles) \cup ToSet(InputRoles)
Mezz == UNION {ToSet(l) : l \in MezzLists}
GpioLine == Mezz \X Role

ASSUME GpioAssumption ==
  /\ OutputRoles \in Seq(Role) /\ InputRoles \in Seq(Role)
  /\ ToSet(OutputRoles) \cap ToSet(InputRoles) = {}
  /\ MezzLists \subseteq Seq(Mezz)
  /\ PulseCount \in Nat

VARIABLES
  command,   \* what was asked for
  steps,     \* writes left of it
  exitCode,  \* what the user sees: -1 while it runs
  overlay,   \* "none", "applied", or "empty" without its dtbo
  gpio,      \* lines: "free", "in", or the level that is driven
  cut        \* history: an overlay was left empty against the will of the code

gpioVars == <<command, steps, exitCode, overlay, gpio, cut>>

-----------------------------------------------------------------------------
(* The commands as sequences of writes.                                    *)
Step(op, line) == [op |-> op, line |-> line]
NoLine == <<"", "">>

ClaimOut(m, r) ==
  <<Step("export", <<m, r>>), Step("out", <<m, r>>), Step("low", <<m, r>>)>>
ClaimIn(m, r) == <<Step("export", <<m, r>>), Step("in", <<m, r>>)>>

ForEach(f(_), s) == FlattenSeq([i \in DOMAIN s |-> f(s[i])])

claim_mezz(m) ==
  ForEach(LAMBDA r : ClaimOut(m, r), OutputRoles)
    \o ForEach(LAMBDA r : ClaimIn(m, r), InputRoles)

release_mezz(m) ==
  ForEach(LAMBDA r : <<Step("unexport", <<m, r>>)>>, OutputRoles \o InputRoles)

(* Mutant: the level after the last pulse is left.                         *)
pulse_line_High(line) ==
  <<Step("low", line)>>
    \o [i \in 1..(2 * PulseCount - 1) |->
          Step(IF i % 2 = 1 THEN "high" ELSE "low", line)]

pulse_line(line) ==
  <<Step("low", line)>>
    \o [i \in 1..(2 * PulseCount) |->
          Step(IF i % 2 = 1 THEN "high" ELSE "low", line)]

ApplyOverlay == <<Step("apply", NoLine)>>
RemoveOverlay == <<Step("remove", NoLine)>>

do_smoketest(c) ==
  ApplyOverlay \o ForEach(claim_mezz, c.mezzes)
    \o ForEach(LAMBDA m : ForEach(LAMBDA r : pulse_line(<<m, r>>), c.pulse),
               c.mezzes)
    \o (IF c.keepLines THEN <<>> ELSE ForEach(release_mezz, c.mezzes))
    \o (IF c.keepOverlay THEN <<>> ELSE RemoveOverlay)

do_remove_overlay(c) == ForEach(release_mezz, c.mezzes) \o RemoveOverlay

Commands ==
  [kind : {"apply"}]
    \cup [kind : {"status", "remove"}, mezzes : MezzLists]
    \cup [kind : {"smoketest"}, mezzes : MezzLists, pulse : {<<>>, OutputRoles},
          keepLines : BOOLEAN, keepOverlay : BOOLEAN]

StepsOf(c) ==
  CASE c.kind = "apply" -> ApplyOverlay
    [] c.kind = "status" -> <<>>
    [] c.kind = "remove" -> do_remove_overlay(c)
    [] c.kind = "smoketest" -> do_smoketest(c)

-----------------------------------------------------------------------------
GpioInit ==
  /\ command = [kind |-> "status", mezzes |-> <<>>]
  /\ steps = <<>> /\ exitCode = 0
  /\ overlay = "none" /\ gpio = [l \in GpioLine |-> "free"] /\ cut = FALSE

(* main, on the board or through ssh; without the copy of the helper       *)
(* nothing is run.                                                         *)
Start ==
  /\ steps = <<>> /\ exitCode # -1
  /\ command' \in Commands
  /\ \/ steps' = StepsOf(command') /\ exitCode' = -1
     \/ steps' = <<>> /\ exitCode' = 1
  /\ UNCHANGED <<overlay, gpio, cut>>

End ==
  /\ steps = <<>> /\ exitCode = -1
  /\ exitCode' = 0
  /\ UNCHANGED <<command, steps, overlay, gpio, cut>>

(* A failed write stops the command.                                       *)
Raise == steps' = <<>> /\ exitCode' = IF exitCode = -1 THEN 1 ELSE exitCode

(* An exception, or an interrupt, before or after a write.                 *)
Fail ==
  /\ exitCode = -1 \/ steps # <<>>
  /\ Raise
  /\ UNCHANGED <<command, overlay, gpio, cut>>

(* ssh loses its connection: the helper goes on.  Bound: the user waits    *)
(* for its end before the next command.                                    *)
Disconnect ==
  /\ exitCode = -1 /\ exitCode' = 255
  /\ UNCHANGED <<command, steps, overlay, gpio, cut>>

At(op) == steps # <<>> /\ Head(steps).op = op
Here == Head(steps).line
Goes(state) ==
  /\ gpio' = [gpio EXCEPT ![Here] = state]
  /\ steps' = Tail(steps)
  /\ UNCHANGED <<command, exitCode, overlay, cut>>

(* EBUSY is taken for a line that is exported already; when another driver *)
(* has it the line stays free, and the next write fails.                   *)
export_gpio ==
  /\ At("export")
  /\ \/ gpio[Here] = "free" /\ Goes("in")
     \/ Goes(gpio[Here])

unexport_gpio == At("unexport") /\ Goes("free")

(* A line that becomes an output is low.                                   *)
set_direction ==
  \/ At("out") /\ gpio[Here] # "free" /\ Goes("low")
  \/ At("in") /\ gpio[Here] # "free" /\ Goes("in")

set_value ==
  \/ At("low") /\ Goes("low")
  \/ At("high") /\ Goes("high")

(* Mutant: the directory is left when its dtbo cannot be written.          *)
Undo_No == overlay' = "empty" /\ UNCHANGED cut

(* The except of apply_overlay: the directory is removed, if it can be.    *)
Undo ==
  \/ overlay' = "none" /\ UNCHANGED cut
  \/ overlay' = "empty" /\ cut' = TRUE

(* An overlay whose directory exists is taken to be active.                *)
apply_overlay ==
  /\ At("apply")
  /\ \/ /\ overlay # "none" /\ steps' = Tail(steps)
        /\ UNCHANGED <<exitCode, overlay, cut>>
     \/ /\ overlay = "none" /\ overlay' = "applied" /\ steps' = Tail(steps)
        /\ UNCHANGED <<exitCode, cut>>
     \/ /\ overlay = "none"
        /\ Undo /\ Raise
  /\ UNCHANGED <<command, gpio>>

(* The script is killed between mkdir and the write.                       *)
Killed ==
  /\ At("apply") /\ overlay = "none"
  /\ overlay' = "empty" /\ cut' = TRUE /\ Raise
  /\ UNCHANGED <<command, gpio>>

remove_overlay ==
  /\ At("remove")
  /\ overlay' = "none" /\ steps' = Tail(steps)
  /\ UNCHANGED <<command, exitCode, gpio, cut>>

GpioNext ==
  \/ Start \/ End \/ Fail \/ Disconnect
  \/ export_gpio \/ unexport_gpio \/ set_direction \/ set_value
  \/ apply_overlay \/ Killed \/ remove_overlay

GpioSpec == GpioInit /\ [][GpioNext]_gpioVars

-----------------------------------------------------------------------------
(* A line is claimed only while the controllers on its pins are disabled:  *)
(* a failed apply-overlay is undone, so that the next command applies it   *)
(* again, unless the script was killed or the directory could not be       *)
(* removed.                                                                *)
ClaimsUnderOverlay ==
  [][\A l \in GpioLine : gpio[l] = "free" /\ gpio'[l] # "free" =>
       overlay = "applied" \/ cut]_gpioVars

(* A command that is seen to end with 0 has left its lines and the overlay *)
(* as its options say, whatever failed commands before it had left: kept   *)
(* outputs are low, and the rest is given back.                            *)
Given(l) ==
  IF command.kind = "smoketest" /\ command.keepLines
  THEN IF l[2] \in ToSet(OutputRoles) THEN "low" ELSE "in"
  ELSE "free"

ZeroIsClean ==
  exitCode = 0 /\ steps = <<>> /\ command.kind # "status" =>
    /\ command.kind # "apply" =>
         \A l \in GpioLine : l[1] \in ToSet(command.mezzes) => gpio[l] = Given(l)
    /\ (overlay = "none") <=>
         (command.kind = "remove"
            \/ (command.kind = "smoketest" /\ ~command.keepOverlay))
=============================================================================
