------------------------------- MODULE Scripts -------------------------------
(***************************************************************************)
(* The command line clients of daphneServer that speak EnvelopeV2: smoke   *)
(* tests, configuration scripts, readers and the bias monitor.  A script   *)
(* sends its requests one after the other on one DEALER socket and, when   *)
(* something is wrong with a reply, does what its step says.  A user runs  *)
(* one script after the other.                                             *)
(*                                                                         *)
(* The ROUTER sends replies to whatever socket has the identity of the     *)
(* request: the late reply to a process that gave up is read by the next   *)
(* process of the same script.  Only slowcontrol_smoketest.py draws a new  *)
(* identity.                                                               *)
(*                                                                         *)
(* The server is reduced to one register per AFE, which stands for the     *)
(* settings and monitors that the scripts read and write.  A handler       *)
(* succeeds, fails (the values in its reply are then 0 or empty) or throws *)
(* (the payload is empty).                                                 *)
(***************************************************************************)
EXTENDS Integers, Sequences

CONSTANTS
  Afes,         \* number of AFEs
  MaxRuns,      \* bound: processes, one after the other
  MaxPending,   \* bound: messages under way when a step times out
  MaxRestarts,  \* bound: restarts of the server
  MaxOthers,    \* bound: writes of other clients
  MaxPoints     \* points kept of each curve of the monitor

ASSUME ScriptsAssumption ==
  /\ Afes \in Nat \ {0} /\ MaxPoints \in Nat \ {0}
  /\ MaxRuns \in Nat /\ MaxPending \in Nat
  /\ MaxRestarts \in Nat /\ MaxOthers \in Nat

Target == 0..(Afes - 1)
Value == 0..2

VARIABLES
  proc,     \* the process that runs, or ran last
  pipe,     \* requests on their way to the server
  socket,   \* replies in the socket of the process
  reg,      \* the registers
  curves,   \* what the monitor plots
  faults,   \* restarts of the server and writes of others so far
  held,     \* history: values of each register since the process started
  handled   \* history: steps of the process that the server has handled

scriptVars == <<proc, pipe, socket, reg, curves, faults, held, handled>>

-----------------------------------------------------------------------------
(* The steps of the scripts: what is asked, of which AFE, what is checked  *)
(* of the reply, and what a bad reply and a timeout lead to.               *)
(*   raise   the process ends with an error                                *)
(*   record  the failure is noted, the next step follows                   *)
(*   skip    the next step follows                                         *)
(*   reopen  the next step follows, on a new socket                        *)
Step(op, t, checks, bad, late) ==
  [op |-> op, t |-> t, checks |-> checks, bad |-> bad, late |-> late]

ForAfes(op, checks, bad, late) ==
  [i \in 1..Afes |-> Step(op, i - 1, checks, bad, late)]

(* protobuf_full_smoketest_v2.py.                                          *)
SmokeChecks == <<Step("info", 0, {"correl"}, "record", "record")>>

SmokeReads ==
  <<Step("readAll", 0, {"correl"}, "record", "record")>>
    \o ForAfes("read", {"correl"}, "record", "record")

SmokeWrites ==
  ForAfes("write", {"correl"}, "record", "record")
    \o <<Step("writeAll", 0, {"correl"}, "record", "record")>>

SmokeForced == <<Step("set", 0, {"correl"}, "raise", "raise")>>

SmokeIntrusive == <<Step("configure", 0, {"correl"}, "record", "record")>>

(* configure_fe_min_v2.py: it says so when the answer to CONFIGURE_FE or   *)
(* ALIGN_AFE is not its own, and takes it.                                 *)
ConfigureStep == Step("configure", 0, {"payload"}, "raise", "raise")

BiasSteps == ForAfes("set", {"type", "correl", "payload"}, "raise", "raise")

AlignStep == Step("align", 0, {"payload"}, "raise", "raise")

(* pds_configure_utils.py, for the scripts that configure from a file.     *)
send_configure_request == Step("configure", 0, {"payload"}, "raise", "raise")

(* read_fe_state_v2.py.                                                    *)
SnapshotSteps ==
  <<Step("readAll", 0, {"type", "correl", "payload"}, "raise", "raise")>>
    \o ForAfes("read", {"type", "correl", "payload"}, "raise", "raise")

(* test_threshold_14bit_v2.py.                                             *)
ThresholdSteps ==
  <<Step("configure", 0, {"type", "correl", "payload"}, "raise", "raise"),
    Step("info", 0, {"type", "correl", "payload"}, "raise", "raise")>>

(* slowcontrol_smoketest.py.                                               *)
SlowcontrolSteps ==
  <<Step("info", 0, {"correl"}, "raise", "raise"),
    Step("align", 0, {"correl"}, "raise", "raise"),
    Step("configure", 0, {"correl"}, "raise", "raise")>>

(* protobuf_configure_daphne_v2.py.                                        *)
DaphneSteps ==
  ForAfes("set", {"correl"}, "raise", "raise")
    \o <<Step("align", 0, {"correl"}, "raise", "raise")>>

(* afe_function_v2.py.                                                     *)
AfeFunctionSteps == ForAfes("set", {"type"}, "skip", "raise")

(* v2_dual_probe.py.                                                       *)
ProbeSteps ==
  <<Step("info", 0, {}, "skip", "reopen"), Step("info", 0, {}, "skip", "skip")>>

(* vbias_monitor_once.py, read_general_info_v2.py and testreg_v2.py.       *)
OnceStep == Step("sample", 0, {"type", "success"}, "raise", "raise")
InfoStep == Step("info", 0, {"type"}, "raise", "raise")
TestRegStep == Step("info", 0, {"type"}, "raise", "raise")

(* vbias_monitor_all.py: one sweep of its loop.                            *)
MonitorSteps == ForAfes("sample", {"type", "success"}, "skip", "skip")

Program ==
  [smoke       |-> SmokeChecks \o SmokeReads \o SmokeIntrusive,
   writeback   |-> SmokeReads \o SmokeWrites \o SmokeForced,
   configure   |-> <<ConfigureStep, AlignStep>>,
   bias        |-> <<ConfigureStep>> \o BiasSteps \o <<AlignStep>>,
   seed        |-> <<send_configure_request>>,
   snapshot    |-> SnapshotSteps,
   threshold   |-> ThresholdSteps,
   slowcontrol |-> SlowcontrolSteps,
   daphne      |-> DaphneSteps,
   afeFunction |-> AfeFunctionSteps,
   probe       |-> ProbeSteps,
   once        |-> <<OnceStep>>,
   info        |-> <<InfoStep>>,
   testreg     |-> <<TestRegStep>>,
   monitor     |-> MonitorSteps]

Script == DOMAIN Program

-----------------------------------------------------------------------------
(* A process before its first step.  got and all are what it has read, ok  *)
(* is the success that the last CONFIGURE_FE reported.                     *)
Process(script, n, plot) ==
  [script |-> script, n |-> n, pos |-> 1, waiting |-> FALSE,
   got |-> [t \in Target |-> <<>>], all |-> <<>>, failures |-> FALSE,
   ok |-> FALSE, plot |-> plot, exit |-> "running"]

NoProcess == [Process("info", 0, FALSE) EXCEPT !.exit = "zero"]

NoCurves == [t |-> 0, bias |-> [t \in Target |-> <<>>]]

ScriptsOff ==
  /\ proc = NoProcess /\ pipe = <<>> /\ socket = <<>>
  /\ reg = [t \in Target |-> 1 + (t % 2)]
  /\ curves = NoCurves
  /\ faults = [restarts |-> 0, others |-> 0]
  /\ held = [t \in Target |-> {}]
  /\ handled = {}

Running == proc.exit = "running"
AtEnd == proc.pos > Len(Program[proc.script])
Now == Program[proc.script][proc.pos]

(* Bound: the second process runs the script of the first.                 *)
StartProcess(script, plot) ==
  /\ ~Running /\ proc.n < MaxRuns
  /\ proc.n > 0 => script = proc.script
  /\ plot => script = "monitor"
  /\ proc' = Process(script, proc.n + 1, plot)
  /\ socket' = <<>>
  /\ curves' = NoCurves
  /\ held' = [t \in Target |-> {reg[t]}]
  /\ handled' = {}
  /\ UNCHANGED <<pipe, reg, faults>>

-----------------------------------------------------------------------------
Uniform(values) == values # <<>> /\ \A i \in DOMAIN values : values[i] = values[1]

(* Write-backs of what was not read, and of all when values differ, are    *)
(* left out.                                                               *)
Skipped(step) ==
  \/ step.op = "write" /\ proc.got[step.t] = <<>>
  \/ step.op = "writeAll" /\ ~Uniform(proc.all)

SkipStep ==
  /\ Running /\ ~AtEnd /\ ~proc.waiting
  /\ Skipped(Now)
  /\ proc' = [proc EXCEPT !.pos = @ + 1]
  /\ UNCHANGED <<pipe, socket, reg, curves, faults, held, handled>>

(* The value that goes with a request.                                     *)
Argument(step) ==
  CASE step.op = "write" -> proc.got[step.t][1]
    [] step.op = "writeAll" -> proc.all[1]
    [] OTHER -> 2

SendStep ==
  /\ Running /\ ~AtEnd /\ ~proc.waiting
  /\ ~Skipped(Now)
  /\ proc' = [proc EXCEPT !.waiting = TRUE]
  /\ pipe' = Append(pipe, [script |-> proc.script, id |-> <<proc.n, proc.pos>>,
                           op |-> Now.op, t |-> Now.t, arg |-> Argument(Now)])
  /\ UNCHANGED <<socket, reg, curves, faults, held, handled>>

-----------------------------------------------------------------------------
(* The handlers: what they make of the registers and reply.  Those that    *)
(* write several registers may fail between two of them.                   *)
Outcomes(r) ==
  LET Reply(ok, vals, empty) == [ok |-> ok, vals |-> vals, empty |-> empty]
      Bad == {Reply(FALSE, <<>>, FALSE), Reply(FALSE, <<>>, TRUE)}
      Good(vals) == Reply(TRUE, vals, FALSE)
      First(n) == [t \in Target |-> IF t < n THEN r.arg ELSE reg[t]]
      All == [i \in 1..Afes |-> reg[i - 1]]
      Same(replies) == {[reg |-> reg, reply |-> x] : x \in replies}
  IN CASE r.op \in {"read", "sample"} -> Same(Bad \cup {Good(<<reg[r.t]>>)})
       [] r.op = "readAll" -> Same(Bad \cup {Good(All)})
       [] r.op \in {"write", "set"} ->
            Same(Bad) \cup {[reg |-> [reg EXCEPT ![r.t] = r.arg],
                             reply |-> Good(<<>>)]}
       [] r.op \in {"writeAll", "configure"} ->
            {[reg |-> First(n), reply |-> x] : n \in Target, x \in Bad}
              \cup {[reg |-> First(Afes), reply |-> Good(<<>>)]}
       [] OTHER -> Same(Bad \cup {Good(<<>>)})

HeldWith(new) == [t \in Target |-> held[t] \cup {new[t]}]

(* Whether the socket of the process has the identity of a request.        *)
SameIdentity(r) ==
  r.script = proc.script /\ (r.script = "slowcontrol" => r.id[1] = proc.n)

(* One pass of the router loop.                                            *)
HandleStep ==
  /\ pipe # <<>>
  /\ LET r == Head(pipe) IN \E o \in Outcomes(r) :
       /\ reg' = o.reg
       /\ held' = HeldWith(o.reg)
       /\ handled' = IF r.id[1] = proc.n THEN handled \cup {r.id[2]} ELSE handled
       /\ socket' = IF Running /\ SameIdentity(r)
                    THEN Append(socket, [id |-> r.id, op |-> r.op, t |-> r.t,
                                         reply |-> o.reply])
                    ELSE socket
  /\ pipe' = Tail(pipe)
  /\ UNCHANGED <<proc, curves, faults>>

RestartRouter ==
  /\ Running /\ faults.restarts < MaxRestarts
  /\ faults' = [faults EXCEPT !.restarts = @ + 1]
  /\ pipe' = <<>>
  /\ UNCHANGED <<proc, socket, reg, curves, held, handled>>

(* Another client writes a register.  Bound: only while values are read.   *)
OtherWrites(t) ==
  /\ Running /\ faults.others < MaxOthers /\ reg[t] > 0
  /\ ~AtEnd /\ Now.op \in {"read", "sample"}
  /\ faults' = [faults EXCEPT !.others = @ + 1]
  /\ reg' = [reg EXCEPT ![t] = 3 - @]
  /\ held' = HeldWith(reg')
  /\ UNCHANGED <<proc, pipe, socket, curves, handled>>

-----------------------------------------------------------------------------
(* Mutant: the correlation is not looked at.                               *)
Refuses_Type(step, m) ==
  \/ step.checks \cap {"type", "correl"} # {} /\ m.op # step.op
  \/ "payload" \in step.checks /\ m.reply.empty
  \/ "success" \in step.checks /\ ~m.reply.ok

(* What a step does not accept.  The type of a reply is that of its        *)
(* request; a response that parses to nothing counts as unreadable.        *)
Refuses(step, m) ==
  \/ "type" \in step.checks /\ m.op # step.op
  \/ "correl" \in step.checks /\ m.id # <<proc.n, proc.pos>>
  \/ "payload" \in step.checks /\ m.reply.empty
  \/ "success" \in step.checks /\ ~m.reply.ok

(* Mutant: the exception is printed and not kept.                          *)
OnFailure_Print(p, what) ==
  IF what = "raise" THEN [p EXCEPT !.exit = "error", !.waiting = FALSE]
  ELSE [p EXCEPT !.pos = @ + 1, !.waiting = FALSE]

(* Mutant: what failed is tried again.                                     *)
OnFailure_Retry(p, what) ==
  IF what = "raise" THEN [p EXCEPT !.exit = "error", !.waiting = FALSE]
  ELSE [p EXCEPT !.waiting = FALSE, !.failures = @ \/ what = "record"]

(* run() of the smoke test, and the except clauses of the others.          *)
OnFailure(p, what) ==
  IF what = "raise" THEN [p EXCEPT !.exit = "error", !.waiting = FALSE]
  ELSE [p EXCEPT !.pos = @ + 1, !.waiting = FALSE,
                 !.failures = @ \/ what = "record"]

(* What a reader keeps of a reply: a missing value is 0.                   *)
Kept(p, m) ==
  CASE Now.op = "read" ->
         [p EXCEPT !.got[Now.t] = IF m.reply.vals = <<>> THEN <<0>>
                                  ELSE <<m.reply.vals[1]>>]
    [] Now.op = "readAll" -> [p EXCEPT !.all = m.reply.vals]
    [] Now.op = "configure" -> [p EXCEPT !.ok = m.reply.ok]
    [] OTHER -> p

(* Mutant: the curve grows without end.                                    *)
Point_All(curve, v) == Append(curve, v)

(* A deque with maxlen.                                                    *)
Point(curve, v) ==
  IF Len(curve) < MaxPoints THEN Append(curve, v) ELSE Append(Tail(curve), v)

(* Mutant: the sample goes to the curve of the AFE that was asked for.     *)
Sampled_Asked(m) ==
  IF proc.script = "monitor"
  THEN [curves EXCEPT !.bias[Now.t] = Point(@, m.reply.vals[1])]
  ELSE curves

(* The sample goes to the curve of the AFE that the reply names.           *)
Sampled(m) ==
  IF proc.script = "monitor"
  THEN [curves EXCEPT !.bias[m.t] = Point(@, m.reply.vals[1])]
  ELSE curves

TakeReply ==
  /\ Running /\ proc.waiting /\ socket # <<>>
  /\ ~Refuses(Now, Head(socket))
  /\ proc' = [Kept(proc, Head(socket)) EXCEPT !.pos = @ + 1, !.waiting = FALSE]
  /\ curves' = IF Now.op = "sample" THEN Sampled(Head(socket)) ELSE curves
  /\ socket' = Tail(socket)
  /\ UNCHANGED <<pipe, reg, faults, held, handled>>

RefuseReply ==
  /\ Running /\ proc.waiting /\ socket # <<>>
  /\ Refuses(Now, Head(socket))
  /\ proc' = OnFailure(proc, Now.bad)
  /\ socket' = Tail(socket)
  /\ UNCHANGED <<pipe, reg, curves, faults, held, handled>>

(* Bound: with more than MaxPending messages under way, only what is lost  *)
(* times out.                                                              *)
StepTimesOut ==
  /\ Running /\ proc.waiting
  /\ \/ Len(pipe) + Len(socket) <= MaxPending
     \/ pipe = <<>> /\ socket = <<>>
  /\ proc' = OnFailure(proc, Now.late)
  /\ socket' = IF Now.late = "reopen" THEN <<>> ELSE socket
  /\ UNCHANGED <<pipe, reg, curves, faults, held, handled>>

-----------------------------------------------------------------------------
(* The exit status.                                                        *)
ExitOf(p) ==
  CASE p.script \in {"smoke", "writeback"} -> IF p.failures THEN "one" ELSE "zero"
    [] p.script \in {"configure", "bias"} -> IF p.ok THEN "zero" ELSE "one"
    [] OTHER -> "zero"

EndProcess ==
  /\ Running /\ AtEnd /\ proc.script # "monitor"
  /\ proc' = [proc EXCEPT !.exit = ExitOf(proc)]
  /\ UNCHANGED <<pipe, socket, reg, curves, faults, held, handled>>

(* matplotlib cannot draw a curve whose points are not as many as those of *)
(* the time axis, except that one of them is repeated.                     *)
CannotDraw(c) ==
  \E t \in Target : LET n == Len(c.bias[t]) IN n # c.t /\ n # 1 /\ c.t # 1

(* The end of a sweep of the monitor.                                      *)
EndSweep ==
  /\ Running /\ AtEnd /\ proc.script = "monitor"
  /\ curves' = [curves EXCEPT !.t = IF @ < MaxPoints THEN @ + 1 ELSE @]
  /\ proc' = IF proc.plot /\ CannotDraw(curves')
             THEN [proc EXCEPT !.exit = "error"]
             ELSE [proc EXCEPT !.pos = 1]
  /\ UNCHANGED <<pipe, socket, reg, faults, held, handled>>

(* Ctrl-C in the monitor.                                                  *)
Interrupt ==
  /\ Running /\ proc.script = "monitor"
  /\ proc' = [proc EXCEPT !.exit = "zero", !.waiting = FALSE]
  /\ UNCHANGED <<pipe, socket, reg, curves, faults, held, handled>>

ScriptsNext ==
  \/ \E s \in Script, plot \in BOOLEAN : StartProcess(s, plot)
  \/ SkipStep \/ SendStep \/ TakeReply \/ RefuseReply \/ StepTimesOut
  \/ EndProcess \/ EndSweep \/ Interrupt
  \/ HandleStep \/ RestartRouter \/ (\E t \in Target : OtherWrites(t))

ScriptsSpec == ScriptsOff /\ [][ScriptsNext]_scriptVars

(* A process goes on until it waits, and a wait ends with a reply or the   *)
(* timeout; the router loop never stops.                                   *)
ScriptsFairness ==
  /\ WF_scriptVars(SkipStep \/ SendStep \/ EndProcess \/ EndSweep)
  /\ WF_scriptVars(TakeReply \/ RefuseReply) /\ WF_scriptVars(StepTimesOut)
  /\ WF_scriptVars(HandleStep)

-----------------------------------------------------------------------------
ScriptsTypeOK ==
  /\ proc.script \in Script /\ proc.n \in 0..MaxRuns
  /\ proc.pos \in 1..(Len(Program[proc.script]) + 1)
  /\ proc.exit \in {"running", "zero", "one", "error"}
  /\ reg \in [Target -> Value] /\ held \in [Target -> SUBSET Value]
  /\ curves.t \in 0..MaxPoints
  /\ \A t \in Target : Len(curves.bias[t]) <= MaxPoints

(* The write-backs of the smoke test put nothing into a register that this *)
(* register did not hold since the test began, except the 0 of a reading   *)
(* that failed: values do not move from one AFE to another, late replies   *)
(* of this and of an earlier run included.                                 *)
WriteBackIsRead ==
  \A i \in DOMAIN pipe :
    pipe[i].script = "writeback" /\ pipe[i].id[1] = proc.n =>
      /\ pipe[i].op = "write" => pipe[i].arg \in held[pipe[i].t] \cup {0}
      /\ pipe[i].op = "writeAll" => \A t \in Target : pipe[i].arg \in held[t]

(* A script that ends without an error has had every request whose         *)
(* correlation it checks handled by the server.  Not so the CONFIGURE_FE   *)
(* of configure_fe_min_v2.py, which may have taken the answer to an        *)
(* earlier one.                                                            *)
EndIsHandled ==
  proc.n > 0 /\ proc.exit \in {"zero", "one"} /\ ~proc.failures =>
    \A p \in DOMAIN Program[proc.script] :
      LET step == Program[proc.script][p]
      IN "correl" \in step.checks =>
           p \in handled \/ step.op \in {"write", "writeAll"}

(* What the bias monitor draws on the curve of an AFE are readings of this *)
(* AFE since it was started, whichever request they answer.                *)
SamplesAreTrue ==
  \A t \in Target : \A i \in DOMAIN curves.bias[t] :
    curves.bias[t][i] \in held[t]

(* Every script comes to its end, and the monitor to the end of its sweep, *)
(* lost requests and restarts included.                                    *)
ScriptsEnd ==
  Running ~> (~Running \/ (proc.script = "monitor" /\ AtEnd))

(* What the scripts write, draw and end with is what the server answered   *)
(* to them.                                                                *)
ScriptsAreTrue ==
  ScriptsTypeOK /\ WriteBackIsRead /\ EndIsHandled /\ SamplesAreTrue
=============================================================================
