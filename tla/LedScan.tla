------------------------------- MODULE LedScan -------------------------------
(***************************************************************************)
(* The LED scans of the dynamic range study.                               *)
(*                                                                         *)
(* scan_led_intensity_charge takes a calibration and then one point per    *)
(* LED intensity; scan_led_vgain_sweep lights the LED once and takes one   *)
(* point per VGAIN of the front end.  Each step of a scan is a command of  *)
(* its own (ssp_led_control, the acquisition client) whose exit status     *)
(* decides what follows, and every point leaves a directory with the raw   *)
(* files, an analysis.json and a metadata.json.  write_text truncates a    *)
(* file and then fills it, so an interrupt leaves it torn.  A scan may be  *)
(* started again in a directory that an earlier one left behind.           *)
(*                                                                         *)
(* merge_led_intensity_runs, monitor_led_run and reanalyze_led_charge_run  *)
(* only read those directories: they are operators of the state, and the   *)
(* invariants about them say what they return whenever they are called.    *)
(***************************************************************************)
EXTENDS SspPulser, Sequences, FiniteSets, SequencesExt

CONSTANTS
  Start, Stop, Step,  \* inclusive_range of the intensities, or of the VGAINs
  Fixed,              \* bias of the colour that is not scanned
  Waveforms,          \* frames of an acquisition
  Dirs,               \* output directories
  MaxStarts,          \* bound: scans started
  MaxCrashes          \* bound: scans interrupted or killed

ASSUME ScanAssumption ==
  /\ Start \in Nat /\ Stop \in Nat /\ Step \in Nat \ {0} /\ Fixed \in Nat
  /\ Start <= Stop /\ Waveforms \in Nat \ {0}
  /\ MaxStarts \in Nat /\ MaxCrashes \in Nat
  /\ Dirs \subseteq Nat /\ IsFiniteSet(Dirs) /\ Dirs # {}

(* Every step from the first value on, and the last one in any case.       *)
inclusive_range ==
  LET whole == [j \in 1 .. ((Stop - Start) \div Step) + 1 |->
                  Start + (j - 1) * Step]
  IN IF whole[Len(whole)] = Stop THEN whole ELSE Append(whole, Stop)

Point == {inclusive_range[j] : j \in DOMAIN inclusive_range}
Wavelength == {270, 367}

(* The scanned colour gets the intensity, the other its fixed bias.        *)
resolve_led_biases(nm, x) ==
  [nm270 |-> IF nm = 270 THEN x ELSE Fixed,
   nm367 |-> IF nm = 367 THEN x ELSE Fixed]

None == "none"
Torn == "torn"

(* Raw files: the frames they hold, and the light and VGAIN of each frame. *)
(* An analysis is that of the raw files it was made from; there may be     *)
(* none, or a torn one.                                                    *)
Files(n) == [n |-> n, light |-> {}, vgain |-> {}]
NoRaw == Files(0)
NoAnalysis == Files(-1)
TornAnalysis == Files(-2)
NoPoint == [made |-> FALSE, meta |-> None, analysis |-> NoAnalysis,
            raw |-> NoRaw]

(* The manifest names the wavelength; it may be missing or torn.           *)
NoManifest == 0
TornManifest == -1

Status == {"started", "led_failed", "configure_failed", "acquire_failed",
           "captured", "analyzed"}

VARIABLES
  point,     \* the point directories of each output directory
  manifest,  \* scan_manifest.json of each: none, torn or the wavelength
  used,      \* scans started in each directory
  wl,        \* the wavelength each directory is used for
  vgain,     \* VGAIN of the front end; 0: unknown
  pc,        \* where the scan stands; "off": none is running
  prog,      \* the program: "intensity", "sweep" or "none"
  dir, i,    \* its directory and the point it works on
  status,    \* point_meta["status"], not yet written
  started,   \* led_started
  stopped,   \* exit status of the stop command: "none", "ok" or "error"
  how,       \* how the last scan ended
  starts, crashes

disk == <<point, manifest, used, wl>>
scanvars == <<disk, vgain, pc, prog, dir, i, status, started, stopped, how,
              starts, crashes>>

X == inclusive_range[i]
Here == point[dir][X]

(* The light the point x of directory d is taken with.                     *)
PointLight(d, x) == Lit(resolve_led_biases(wl[d], x))

(* The LED setting of a VGAIN sweep.                                       *)
SweepJob == [nm270 |-> Fixed, nm367 |-> Fixed]

ScanWith(p) ==
  /\ point = [d \in Dirs |-> [x \in Point |-> NoPoint]]
  /\ manifest = [d \in Dirs |-> NoManifest]
  /\ used = [d \in Dirs |-> 0]
  /\ wl = [d \in Dirs |-> 0]
  /\ vgain = 0
  /\ pc = "off" /\ prog = p /\ i = 1
  /\ dir = CHOOSE d \in Dirs : TRUE
  /\ status = None /\ started = FALSE /\ stopped = None
  /\ how = None /\ starts = 0 /\ crashes = 0

ScanOff == ScanWith("none")
ScanInit == \E p \in {"intensity", "sweep"} : ScanWith(p)

-----------------------------------------------------------------------------
(* The scan's process.                                                     *)

scanrest == <<used, wl, vgain, prog, dir, starts, crashes>>

SetPoint(f) == point' = [point EXCEPT ![dir][X] = f]

(* main up to the manifest.  A directory is only used again with the       *)
(* arguments it was used with before; directories are numbered in the      *)
(* order of their first use.                                               *)
StartScan(d, nm) ==
  /\ pc = "off" /\ ssp = "idle" /\ prog # "none"
  /\ starts < MaxStarts
  /\ used[d] > 0 => nm = wl[d]
  /\ prog = "sweep" => nm = 270   \* a sweep scans no colour: any one stands for it
  /\ \A e \in Dirs : e < d => used[e] > 0
  /\ starts' = starts + 1
  /\ used' = [used EXCEPT ![d] = @ + 1]
  /\ wl' = [wl EXCEPT ![d] = nm]
  /\ manifest' = [manifest EXCEPT ![d] = TornManifest]
  /\ dir' = d
  /\ pc' = "manifest" /\ i' = 1 /\ status' = None
  /\ started' = FALSE /\ stopped' = None /\ how' = None
  /\ UNCHANGED <<sspvars, point, vgain, prog, crashes>>

(* The manifest is written.  An intensity scan calibrates first unless it  *)
(* is given the charge windows; a sweep lights the LED.                    *)
WriteManifest ==
  /\ pc = "manifest"
  /\ manifest' = [manifest EXCEPT ![dir] = wl[dir]]
  /\ pc' \in IF prog = "intensity" THEN {"calLed", "point"}
             ELSE IF stopped # None THEN {"end"} ELSE {"sweepLed"}
  /\ UNCHANGED <<sspvars, point, scanrest, i, status, started, stopped, how>>

(* run_led and run_led_stop: run_cmd starts the command and waits for it.  *)
RunLed ==
  /\ pc \in {"calLed", "led", "sweepLed", "stop"}
  /\ Command(IF pc = "stop" THEN "stop" ELSE "sync",
             CASE pc = "calLed" -> resolve_led_biases(wl[dir], Stop)
               [] pc = "led" -> resolve_led_biases(wl[dir], X)
               [] pc = "sweepLed" -> SweepJob
               [] pc = "stop" -> NoJob)
  /\ pc' = CASE pc = "calLed" -> "calLedWait" [] pc = "led" -> "ledWait"
             [] pc = "sweepLed" -> "sweepLedWait" [] pc = "stop" -> "stopWait"
  /\ UNCHANGED <<disk, vgain, prog, dir, i, status, started, stopped, how,
                 starts, crashes>>

(* The process ends.                                                       *)
End(reason) ==
  /\ pc' = "off" /\ i' = 1 /\ status' = None /\ how' = reason
  /\ UNCHANGED <<started, stopped>>

-----------------------------------------------------------------------------
(* The calibration of an intensity scan: the highest intensity, its        *)
(* waveforms and the charge windows.  A failure returns 1, an exception of *)
(* the calibration ends the program; both leave the LED as it is.          *)

CalibrationLed ==
  /\ pc = "calLedWait" /\ ssp = "idle"
  /\ \/ rc = "ok" /\ pc' = "calibrate"
        /\ UNCHANGED <<i, status, started, stopped, how>>
     \/ rc = "error" /\ End("failed")
  /\ UNCHANGED <<sspvars, point, manifest, scanrest>>

Calibrate ==
  /\ pc = "calibrate"
  /\ \/ pc' = "point" /\ UNCHANGED <<i, status, started, stopped, how>>
     \/ End("failed") \/ End("raised")
  /\ UNCHANGED <<sspvars, point, manifest, scanrest>>

-----------------------------------------------------------------------------
(* One point.                                                              *)

(* The point's directory is made; a sweep writes its metadata before the   *)
(* front end is configured, an intensity scan only when the point is over. *)
BeginPoint ==
  /\ pc = "point" /\ i <= Len(inclusive_range)
  /\ \/ prog = "intensity" /\ pc' = "led" /\ UNCHANGED status
        /\ SetPoint([Here EXCEPT !.made = TRUE])
     \/ prog = "sweep" /\ pc' = "meta" /\ status' = "started"
        /\ SetPoint([Here EXCEPT !.made = TRUE, !.meta = Torn])
  /\ UNCHANGED <<sspvars, manifest, scanrest, i, started, stopped, how>>

(* The metadata is written with the status so far, and the point is over   *)
(* unless it has just begun.                                               *)
WriteMeta ==
  /\ pc = "meta"
  /\ SetPoint([Here EXCEPT !.meta = status])
  /\ status' = None
  /\ IF status = "started" THEN pc' = "configure" /\ UNCHANGED i
                           ELSE pc' = "point" /\ i' = i + 1
  /\ UNCHANGED <<sspvars, manifest, scanrest, started, stopped, how>>

(* metadata.json is truncated, to be filled with the status s.             *)
Meta(s, p) ==
  /\ status' = s /\ pc' = "meta"
  /\ SetPoint([p EXCEPT !.meta = Torn])

(* Mutant: the exit status of the LED command is not looked at.            *)
LedOk_Any == TRUE

LedOk == rc = "ok"

PointLed ==
  /\ pc = "ledWait" /\ ssp = "idle"
  /\ \/ LedOk /\ pc' = "open" /\ UNCHANGED <<point, status>>
     \/ ~LedOk /\ Meta("led_failed", Here)
  /\ UNCHANGED <<sspvars, manifest, scanrest, i, started, stopped, how>>

(* Mutant: a refused configuration is taken for an applied one.            *)
ConfigureOk_Any(answer) == answer # "raise"

ConfigureOk(answer) == answer = "ok"

(* Mutant: the stop command is only tried when nothing was raised.         *)
Raised_NoStop == "end"

(* Where an exception inside the try block of the sweep leads.             *)
Raised == IF started THEN "stop" ELSE "end"

(* send_configure_request: applied, refused after some of the registers    *)
(* were written, or an exception (no answer, a reply that does not parse), *)
(* which the finally clause of the sweep catches.                          *)
Configure ==
  /\ pc = "configure"
  /\ \E answer \in {"ok", "refused", "raise"} :
       /\ vgain' \in IF answer = "ok" THEN {X} ELSE {0, X, vgain}
       /\ \/ ConfigureOk(answer) /\ pc' = "open"
             /\ UNCHANGED <<point, status, how>>
          \/ answer = "refused" /\ ~ConfigureOk(answer)
             /\ Meta("configure_failed", Here) /\ UNCHANGED how
          \/ answer = "raise"
             /\ pc' = Raised /\ how' = "raised"
             /\ UNCHANGED <<point, status>>
  /\ UNCHANGED <<sspvars, manifest, used, wl, prog, dir, starts, crashes, i,
                 started, stopped>>

(* The acquisition client opens every channel file for writing.            *)
OpenRaw ==
  /\ pc = "open"
  /\ SetPoint([Here EXCEPT !.raw = NoRaw])
  /\ pc' = "acquire"
  /\ UNCHANGED <<sspvars, manifest, scanrest, i, status, started, stopped, how>>

(* Mutant: one request too many.                                           *)
Acquire_OneMore ==
  /\ pc = "acquire" /\ Here.raw.n <= Waveforms
  /\ SetPoint([Here EXCEPT !.raw.n = @ + 1])
  /\ UNCHANGED <<sspvars, manifest, scanrest, pc, i, status, started, stopped, how>>

(* One request of the acquisition: a frame of every channel.               *)
Acquire ==
  /\ pc = "acquire" /\ Here.raw.n < Waveforms
  /\ SetPoint([Here EXCEPT !.raw = [n |-> @.n + 1,
                                    light |-> @.light \cup {Light},
                                    vgain |-> @.vgain \cup {vgain}]])
  /\ UNCHANGED <<sspvars, manifest, scanrest, pc, i, status, started, stopped, how>>

(* A request fails: exit status 1, with the frames so far on disk.         *)
AcquireFails ==
  /\ pc = "acquire" /\ Here.raw.n < Waveforms
  /\ Meta("acquire_failed", Here)
  /\ UNCHANGED <<sspvars, manifest, scanrest, i, started, stopped, how>>

(* Mutant: the point is announced before its analysis is on disk.          *)
Acquired_Early ==
  /\ pc = "acquire" /\ Here.raw.n >= Waveforms
  /\ \/ prog = "sweep" /\ Meta("captured", Here)
     \/ prog = "intensity" /\ Meta("analyzed", Here)
  /\ UNCHANGED <<sspvars, manifest, scanrest, i, started, stopped, how>>

(* All frames are on disk: a sweep's point is captured, an intensity       *)
(* scan's is analyzed (analyze_raw_dir) and analysis.json truncated.       *)
Acquired ==
  /\ pc = "acquire" /\ Here.raw.n >= Waveforms
  /\ \/ prog = "sweep" /\ Meta("captured", Here)
     \/ prog = "intensity" /\ pc' = "analysis" /\ UNCHANGED status
        /\ SetPoint([Here EXCEPT !.analysis = TornAnalysis])
  /\ UNCHANGED <<sspvars, manifest, scanrest, i, started, stopped, how>>

WriteAnalysis ==
  /\ pc = "analysis"
  /\ Meta("analyzed", [Here EXCEPT !.analysis = Here.raw])
  /\ UNCHANGED <<sspvars, manifest, scanrest, i, started, stopped, how>>
-----------------------------------------------------------------------------
(* The end of a scan.                                                      *)

(* The sweep's LED command has ended: whatever its exit status, the        *)
(* manifest is written again with it.                                      *)
SweepLed ==
  /\ pc = "sweepLedWait" /\ ssp = "idle"
  /\ pc' = "ledManifest"
  /\ manifest' = [manifest EXCEPT ![dir] = TornManifest]
  /\ UNCHANGED <<sspvars, point, scanrest, i, status, started, stopped, how>>

(* Only then is the exit status looked at: a failure raises, a success     *)
(* sets led_started.                                                       *)
RecordLed ==
  /\ pc = "ledManifest"
  /\ manifest' = [manifest EXCEPT ![dir] = wl[dir]]
  /\ \/ rc = "ok" /\ started' = TRUE /\ pc' = "point"
        /\ UNCHANGED <<i, status, stopped, how>>
     \/ rc = "error" /\ End("raised")
  /\ UNCHANGED <<sspvars, point, scanrest>>

LastPoint ==
  /\ pc = "point" /\ i > Len(inclusive_range)
  /\ pc' = "stop"
  /\ UNCHANGED <<sspvars, disk, vgain, prog, dir, starts, crashes, i, status,
                 started, stopped, how>>

(* The stop command's exit status is ignored; a sweep writes it into the   *)
(* manifest.                                                               *)
StopEnds ==
  /\ pc = "stopWait" /\ ssp = "idle"
  /\ stopped' = rc
  /\ \/ prog = "sweep" /\ pc' = "manifest"
        /\ manifest' = [manifest EXCEPT ![dir] = TornManifest]
     \/ prog = "intensity" /\ pc' = "end" /\ UNCHANGED manifest
  /\ UNCHANGED <<sspvars, point, scanrest, i, status, started, how>>

(* The summaries are written and the scan returns 0, or the exception      *)
(* leaves main.                                                            *)
EndScan ==
  /\ pc = "end"
  /\ End(IF how = "raised" THEN "raised" ELSE "returned")
  /\ UNCHANGED <<sspvars, point, manifest, scanrest>>

(* The finally clause of the sweep has a stop command to send.             *)
FinallyStops == prog = "sweep" /\ started /\ stopped = None

(* Without kill: Ctrl-C, or a file that cannot be written.  It ends the    *)
(* scan and the command it waits for; once led_started is set the sweep's  *)
(* finally clause runs first, unless it is that clause that is cut off.    *)
(* With kill the scan ends at once, and its command with it: the terminal  *)
(* or the session goes away.                                               *)
Crash(kill) ==
  /\ pc # "off"
  /\ crashes < MaxCrashes
  /\ crashes' = crashes + 1
  /\ ssp' = "idle" /\ k' = 0 /\ job' = NoJob /\ rc' = "none"
  /\ \/ /\ ~kill /\ FinallyStops /\ pc # "stopWait"
        /\ pc' = Raised /\ how' = "raised" /\ status' = None
        /\ UNCHANGED <<i, started, stopped>>
     \/ /\ kill \/ ~FinallyStops \/ pc \in {"stop", "stopWait"}
        /\ End(IF kill \/ pc \in {"stop", "stopWait"} THEN "killed" ELSE "raised")
  /\ UNCHANGED <<box, faults, point, manifest, used, wl, vgain, prog, dir, starts>>

ScanStep ==
  \/ WriteManifest \/ RunLed \/ CalibrationLed \/ Calibrate
  \/ BeginPoint \/ WriteMeta \/ PointLed \/ Configure
  \/ OpenRaw \/ Acquire \/ AcquireFails \/ Acquired \/ WriteAnalysis
  \/ SweepLed \/ RecordLed \/ LastPoint \/ StopEnds \/ EndScan

ScanOther ==
  \/ \E d \in Dirs, nm \in Wavelength : StartScan(d, nm)
  \/ \E kill \in BOOLEAN : Crash(kill)

(* A scan and the commands it runs.                                        *)
ScanNext == (SspStep /\ UNCHANGED scanvars) \/ ScanStep \/ ScanOther

ScanSpec == SspInit /\ ScanInit /\ [][ScanNext]_<<sspvars, scanvars>>

-----------------------------------------------------------------------------
(* What the other programs read off the directories.                       *)

(* is_complete_point: both files exist, whatever is in them.               *)
is_complete_point(p) == p.meta # None /\ p.analysis # NoAnalysis

(* Mutant: a merge does not compare the manifests.                         *)
ensure_same_config_No(order) == TRUE

ensure_same_config(order) ==
  \A j \in DOMAIN order : manifest[order[j]] = manifest[order[1]]

(* A merge of the directories in order is refused when a manifest is       *)
(* missing or torn or differs from the first.                              *)
Mergeable(order) ==
  /\ \A j \in DOMAIN order : manifest[order[j]] \in Wavelength
  /\ ensure_same_config(order)

(* The directory the merge takes point x from: the last one in which it is *)
(* complete; 0 when there is none.                                         *)
Selected(order, x) ==
  SelectLastInSeq(order, LAMBDA d : is_complete_point(point[d][x]))

(* build_point_rows: the merged rows of a point are read from the selected *)
(* analysis; a torn one ends the merge.                                    *)
MergedRows(order, x) == point[order[Selected(order, x)]][x].analysis

(* collect of the monitor: done, active and failed points.  A point whose  *)
(* directory exists without metadata counts as failed; torn metadata ends  *)
(* the monitor.                                                            *)
collect(d) ==
  LET seen == {x \in Point : point[d][x].made}
      with(S) == {x \in seen : point[d][x].meta \in S}
  IN [done |-> with({"analyzed"}),
      active |-> with({"started", "captured"}),
      failed |-> with({None} \cup (Status \ {"analyzed", "started", "captured"}))]

(* gather_analyzed_points: the last directory whose metadata says analyzed; *)
(* unreadable metadata is skipped.                                         *)
Gathered(order, x) ==
  SelectLastInSeq(order, LAMBDA d : point[d][x].meta = "analyzed")

-----------------------------------------------------------------------------
(* Properties.                                                             *)

ScanTypeOK ==
  /\ SspTypeOK
  /\ \A d \in Dirs, x \in Point :
       /\ point[d][x].made \in BOOLEAN
       /\ point[d][x].meta \in Status \cup {None, Torn}
       /\ point[d][x].raw.n \in 0 .. Waveforms
       /\ point[d][x].analysis.n \in {-2, -1} \cup 1 .. Waveforms
  /\ manifest \in [Dirs -> Wavelength \cup {NoManifest, TornManifest}]
  /\ used \in [Dirs -> 0 .. MaxStarts] /\ wl \in [Dirs -> Wavelength \cup {0}]
  /\ vgain \in Point \cup {0}
  /\ pc \in {"off", "manifest", "calLed", "calLedWait", "calibrate", "point",
             "led", "ledWait", "meta", "configure", "open", "acquire",
             "analysis", "sweepLed", "sweepLedWait", "ledManifest", "stop",
              "stopWait", "end"}
  /\ prog \in {"intensity", "sweep", "none"} /\ dir \in Dirs
  /\ i \in 1 .. Len(inclusive_range) + 1
  /\ status \in Status \cup {None} /\ started \in BOOLEAN
  /\ stopped \in {None, "ok", "error"}
  /\ how \in {None, "returned", "failed", "raised", "killed"}
  /\ starts \in 0 .. MaxStarts /\ crashes \in 0 .. MaxCrashes

(* Whatever an LED command left half written, whichever scan was cut off   *)
(* and started again: every frame in a point's raw files was taken while   *)
(* the pulser gave the light of that point, and with the VGAIN of that     *)
(* point in a sweep.                                                       *)
RecordedAsLabelled ==
  \A d \in Dirs, x \in Point :
    IF prog # "sweep" THEN point[d][x].raw.light \subseteq {PointLight(d, x)}
                      ELSE /\ point[d][x].raw.light \subseteq {Lit(SweepJob)}
                               /\ point[d][x].raw.vgain \subseteq {x}

(* A point whose metadata says analyzed, in a directory used by one scan,  *)
(* has its whole acquisition and the analysis of it on disk: the monitor   *)
(* never counts more points done than there are.                           *)
DoneIsAnalyzed ==
  \A d \in Dirs : used[d] = 1 =>
    \A x \in collect(d).done : /\ point[d][x].raw.n = Waveforms
                               /\ point[d][x].analysis = point[d][x].raw

(* The rows a merge gives for a point are those of a whole acquisition at  *)
(* the intensity and wavelength the merged manifest names, also when the   *)
(* directories were scanned again, or interrupted, before.                 *)
MergeIsOfIntensity ==
  prog = "intensity" =>
    \A order \in SetToSeqs(Dirs) : Mergeable(order) =>
      \A x \in Point : Selected(order, x) # 0 =>
        LET rows == MergedRows(order, x)
        IN rows = TornAnalysis
             \/ /\ rows.n = Waveforms
                /\ rows.light = {Lit(resolve_led_biases(manifest[order[1]], x))}

(* The reanalysis takes raw files the scan called analyzed: a later scan   *)
(* of the same directory may have cut them short, but never mixed in       *)
(* frames of another intensity.                                            *)
ReanalysisIsOfIntensity ==
  prog = "intensity" =>
    \A order \in SetToSeqs(Dirs), x \in Point : Gathered(order, x) # 0 =>
      LET d == order[Gathered(order, x)]
      IN /\ point[d][x].raw.light \subseteq {PointLight(d, x)}
         /\ used[d] = 1 => point[d][x].raw.n = Waveforms

(* A scan that returned has sent the stop command, and so has a sweep that *)
(* raised or was interrupted after led_started was set, unless the finally *)
(* clause itself was cut off; if the command ended well the LEDs are dark. *)
(* The LED may stay on when a sweep ends between its LED command and       *)
(* led_started (the second write of the manifest lies there), and when an  *)
(* intensity scan fails in its calibration or is interrupted: neither      *)
(* sends a stop command then.                                              *)
LedOff ==
  pc = "off" =>
    /\ how = "returned" => stopped # None
    /\ prog = "sweep" /\ started /\ how = "raised" => stopped # None
    /\ stopped = "ok" => Light = Dark

(* A run command that ends well, after whatever earlier commands left half *)
(* written, gives exactly the light it was asked for, and only once it saw *)
(* the timing endpoint running.                                            *)
RunIsWhole ==
  [][ssp = "apply" /\ rc' = "ok" => Light' = Lit(job) /\ pdts = "running"]_sspvars

(* Every scan ends: each command it waits for has a timeout and a bounded  *)
(* number of tries.                                                        *)
ScanEnds == pc # "off" ~> pc = "off"

(* What the directories hold, and what merge, monitor and reanalysis take  *)
(* from them, was taken as it is labelled.                                 *)
DirectoriesAreTrue ==
  /\ ScanTypeOK
  /\ RecordedAsLabelled /\ DoneIsAnalyzed
  /\ MergeIsOfIntensity /\ ReanalysisIsOfIntensity

(* A run command that ends well gives the light asked for, every scan      *)
(* ends, and the LEDs are then dark where a stop command is owed and ended *)
(* well.                                                                   *)
LedIsAsAsked == RunIsWhole /\ []LedOff /\ ScanEnds
=============================================================================
