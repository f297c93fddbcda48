---------------------------- MODULE ChargeWindow ----------------------------
(***************************************************************************)
(* The charge windows of the LED analysis: where in a waveform of N        *)
(* samples the charge and its pedestal are integrated.                     *)
(*                                                                         *)
(* calibrate_window_from_mean finds the pulse in the mean waveform of the  *)
(* calibration, reanchor_charge_window moves the window to the pulse's     *)
(* peak or onset, pedestal_window_for_charge finds a stretch of baseline   *)
(* of the same length.  derive_window_from_mean is the reanalysis's own    *)
(* way to find a window.  Slices outside the record are silently empty in  *)
(* numpy, so what these functions return near the ends of the record is    *)
(* what decides whether a charge is integrated at all.                     *)
(***************************************************************************)
EXTENDS Integers, FiniteSetsExt

CONSTANTS
  N,           \* samples of a waveform
  MaxHeight,   \* bound: largest sample of the mean waveforms tried
  Bounds,      \* bound: pairs tried for the baseline and the search window
  Shifts,      \* bound: offsets, margins, pre and post samples and lengths
  MinBase,     \* first sample the reanalysis lets a baseline end at (16)
  MinLen       \* shortest window it falls back to (8)

ASSUME WindowAssumption ==
  /\ N \in Nat /\ N >= 2 /\ MaxHeight \in Nat
  /\ Bounds \subseteq Int \X Int /\ Shifts \subseteq Int
  /\ MinBase \in Nat /\ MinLen \in Nat

Sample == 0 .. N - 1

Larger(a, b) == IF a < b THEN b ELSE a
Smaller(a, b) == IF a < b THEN a ELSE b
Clamp(x) == Larger(0, Smaller(N, x))

(* The two ends inside the record, in order.                               *)
normalize_bounds(b) ==
  LET lo == Clamp(b[1])
      hi == Clamp(b[2])
  IN IF hi < lo THEN <<hi, lo>> ELSE <<lo, hi>>

(* The samples a slice [start, stop) really covers.                        *)
Slice(b) == {j \in Sample : b[1] <= j /\ j < b[2]}

-----------------------------------------------------------------------------
(* calibrate_window_from_mean.                                             *)

(* The sum of the samples before each one.                                 *)
Total(wf) ==
  LET total[j \in 0 .. N] == IF j = 0 THEN 0 ELSE total[j - 1] + wf[j - 1]
  IN total

(* The mean waveform above its baseline, times the baseline's length.      *)
Signal(wf, base) ==
  [j \in Sample |-> wf[j] * (base[2] - base[1]) -
                     (Total(wf)[base[2]] - Total(wf)[base[1]])]

(* np.argmax and the first sample at or above half of the peak.            *)
Peak(sig, S) == Min({j \in S : \A h \in S : sig[h] <= sig[j]})
Onset(sig, S) == Min({j \in S : 2 * sig[j] >= sig[Peak(sig, S)]})

(* The windows must not be empty, nor the length asked for, and the pulse  *)
(* must be positive; otherwise the calibration raises.                     *)
Calibratable(wf, base, range, len) ==
  /\ Slice(base) # {} /\ Slice(range) # {} /\ len > 0
  /\ LET sig == Signal(wf, base) IN sig[Peak(sig, Slice(range))] > 0

Window(base, onset, peak, start, stop) ==
  [base |-> base, onset |-> onset, peak |-> peak, start |-> start, stop |-> stop]

calibrate_window_from_mean(wf, base, range, offset, len) ==
  LET sig == Signal(wf, base)
      onset == Onset(sig, Slice(range))
      start == Clamp(onset + offset)
  IN Window(base, onset, Peak(sig, Slice(range)), start,
            Larger(start + 1, Smaller(N, start + len)))

-----------------------------------------------------------------------------
(* reanchor_charge_window and pedestal_window_for_charge.                  *)

AnchorOf(w, anchor) == IF anchor = "peak" THEN w.peak ELSE w.onset

(* Mutant: no sample after the anchor is asked for.                        *)
reanchor_NoPost(w, anchor, pre, post) ==
  LET start == Clamp(AnchorOf(w, anchor) - Larger(0, pre))
  IN [w EXCEPT !.start = start,
               !.stop = Larger(start + 1, Smaller(N, AnchorOf(w, anchor) + post))]

reanchor_charge_window(w, anchor, pre, post) ==
  LET start == Clamp(AnchorOf(w, anchor) - Larger(0, pre))
  IN [w EXCEPT !.start = start,
               !.stop = Larger(start + 1,
                          Smaller(N, AnchorOf(w, anchor) + Larger(1, post)))]

(* Mutant: the pedestal starts at the baseline's end.                      *)
pedestal_AtEnd(w) ==
  LET start == w.base[2]
  IN <<start, Smaller(N, start + (w.stop - w.start))>>

(* The last stretch of the baseline as long as the window, or, when the    *)
(* baseline is shorter, one that starts with it and runs past it.          *)
pedestal_window_for_charge(w) ==
  LET start == Larger(w.base[1], w.base[2] - (w.stop - w.start))
  IN <<start, Smaller(N, start + (w.stop - w.start))>>

-----------------------------------------------------------------------------
(* derive_window_from_mean of the reanalysis, from the smoothed signal of  *)
(* the search window and the threshold; the filter and the noise estimate  *)
(* behind them are left out.                                               *)

SearchOf(range) ==
  LET lo == Larger(0, Smaller(N - 2, range[1]))
  IN <<lo, Larger(lo + 2, Smaller(N, range[2]))>>

(* Down from the peak while above the threshold.                           *)
Left(sig, t, lo) ==
  LET walk[j \in Sample] == IF j > lo /\ sig[j] > t THEN walk[j - 1] ELSE j
  IN walk

Right(sig, t, hi) ==
  LET walk[j \in 0 .. N] == IF j < hi - 1 /\ sig[j] > t THEN walk[j + 1] ELSE j
  IN walk

(* Mutant: the window ends a few samples after the onset.                  *)
StopOf_Onset(onset, back, post) == Smaller(N, onset + post)

StopOf(onset, back, post) == Smaller(N, back + post)

(* Mutant: the baseline ends before the peak instead of the onset.         *)
BaselineStop_Peak(onset, peak, margin) == Larger(MinBase, peak - margin)

BaselineStop(onset, peak, margin) == Larger(MinBase, onset - margin)

(* With no sample before the search window the baseline is not a number:   *)
(* every comparison is false, and peak, onset and return stay at sample 0. *)
derive_window_from_mean(sig, t, range, margin, len, pre, post) ==
  LET s == SearchOf(range)
      peak == IF s[1] = 0 THEN 0 ELSE Peak(sig, Slice(s))
      onset == IF s[1] = 0 THEN 0 ELSE Left(sig, t, s[1])[peak]
      back == IF s[1] = 0 THEN 0 ELSE Right(sig, t, s[2])[peak]
      bstop == BaselineStop(onset, peak, margin)
      start == Larger(0, onset - pre)
      stop == StopOf(onset, back, post)
  IN Window(<<Larger(0, bstop - len), bstop>>, onset, peak, start,
            IF stop <= start THEN Smaller(N, start + Larger(MinLen, post)) ELSE stop)

-----------------------------------------------------------------------------
(* The pedestal of a derived window, in analyze_point: the last stretch of *)
(* the baseline as long as the window, or all of it.                       *)
pedestal_of_point(w) ==
  normalize_bounds(<<Larger(w.base[1], w.base[2] - (w.stop - w.start)), w.base[2]>>)

-----------------------------------------------------------------------------
(* One window: a mean waveform and the arguments are given, a window is    *)
(* calibrated and reanchored, or derived.                                  *)

VARIABLES
  wstep,   \* "off", "mean", "raised", "calibrated", "reanchored", "derived"
  mean,    \* the mean waveform; for the reanalysis, the smoothed signal
  search,  \* its search window
  thr,     \* the reanalysis's threshold
  win,     \* the window
  anchor,  \* what it was anchored at
  asked    \* history: margin, length, pre and post of the reanalysis

winvars == <<wstep, mean, search, thr, win, anchor, asked>>

NoWindow == Window(<<0, 0>>, 0, 0, 0, 0)
Flat == [j \in Sample |-> 0]
Asked(margin, len, pre, post) ==
  [margin |-> margin, len |-> len, pre |-> pre, post |-> post]

NoMean == /\ wstep = "off" /\ mean = Flat /\ search = <<0, 0>> /\ thr = 0
          /\ win = NoWindow /\ anchor = "peak" /\ asked = Asked(0, 0, 0, 0)

SomeMean == /\ wstep = "mean" /\ mean \in [Sample -> 0 .. MaxHeight]
            /\ search \in Bounds /\ thr = 0
            /\ win = NoWindow /\ anchor = "peak" /\ asked = Asked(0, 0, 0, 0)

CalibrateWindow ==
  /\ wstep = "mean"
  /\ \E b \in Bounds, offset \in Shifts, len \in Shifts :
       LET base == normalize_bounds(b)
           range == normalize_bounds(search)
       IN \/ /\ Calibratable(mean, base, range, len)
             /\ win' = calibrate_window_from_mean(mean, base, range, offset, len)
             /\ wstep' = "calibrated"
          \/ /\ ~Calibratable(mean, base, range, len)
             /\ wstep' = "raised" /\ UNCHANGED win
  /\ UNCHANGED <<mean, search, thr, anchor, asked>>

Reanchor ==
  /\ wstep = "calibrated"
  /\ \E a \in {"peak", "onset"}, pre \in Shifts, post \in Shifts :
       /\ win' = reanchor_charge_window(win, a, pre, post)
       /\ anchor' = a
  /\ wstep' = "reanchored"
  /\ UNCHANGED <<mean, search, thr, asked>>

(* The reanalysis raises when the peak is not positive.                    *)
Derive ==
  /\ wstep = "mean"
  /\ SearchOf(search)[1] = 0 \/ mean[Peak(mean, Slice(SearchOf(search)))] > 0
  /\ \E t \in 0 .. MaxHeight, margin \in Shifts, len \in Shifts,
        pre \in Shifts, post \in Shifts :
       /\ win' = derive_window_from_mean(mean, t, search, margin, len, pre, post)
       /\ thr' = t /\ asked' = Asked(margin, len, pre, post)
  /\ wstep' = "derived"
  /\ UNCHANGED <<mean, search, anchor>>

WindowStep == CalibrateWindow \/ Reanchor \/ Derive

WindowSpec == SomeMean /\ [][WindowStep]_winvars

-----------------------------------------------------------------------------
(* Properties.                                                             *)

(* A window that was calibrated and reanchored lies inside the record and  *)
(* holds the sample it is anchored at, however large the samples asked for *)
(* before and after it, or how far below zero: a charge is always          *)
(* integrated over the pulse.                                              *)
WindowHoldsPulse ==
  wstep = "reanchored" =>
    /\ AnchorOf(win, anchor) \in Slice(<<win.start, win.stop>>)
    /\ 0 <= win.start /\ win.stop <= N

(* No sample of a pedestal is at or after the onset of the pulse.          *)
BeforePulse(ped) == \A j \in Slice(ped) : j < win.onset

(* Its pedestal is never empty and starts inside the baseline.  When the   *)
(* baseline is as long as the window it stays there, and before the pulse  *)
(* if the baseline does.  From a shorter baseline it runs on, and may take *)
(* in the pulse.                                                           *)
PedestalIsBaseline ==
  wstep = "reanchored" =>
    LET ped == pedestal_window_for_charge(win)
    IN /\ Slice(ped) # {}
       /\ ped[1] \in Slice(win.base)
       /\ win.base[2] - win.base[1] >= win.stop - win.start
            => /\ Slice(ped) \subseteq Slice(win.base)
               /\ win.base[2] <= win.onset => BeforePulse(ped)

(* The window the reanalysis derives reaches up to the peak, and holds it  *)
(* when a sample after the pulse is asked for: without one it may end at   *)
(* the peak.  Samples are not asked for below zero.  The onset is the last *)
(* sample before the peak that is not above the threshold, or the start of *)
(* the search.                                                             *)
DerivedHoldsPulse ==
  wstep = "derived" =>
    /\ asked.pre >= 0 /\ asked.post >= 0 =>
         win.start <= win.peak /\ win.peak <= win.stop
    /\ asked.pre >= 0 /\ asked.post >= 1 =>
         win.peak \in Slice(<<win.start, win.stop>>)
    /\ \A j \in Sample : win.onset < j /\ j <= win.peak => mean[j] > thr
    /\ win.onset = SearchOf(search)[1] \/ mean[win.onset] <= thr

(* The pedestal of a derived window ends before the pulse when that starts *)
(* at sample MinBase or later, for a length and margins of the right sign. *)
(* For an earlier pulse the baseline goes on to MinBase, pulse or not.     *)
DerivedPedestalIsBefore ==
  wstep = "derived" /\ asked.margin >= 0 /\ asked.len >= 1 /\ asked.pre >= 0
    /\ win.onset >= MinBase =>
      BeforePulse(pedestal_of_point(win))

(* Under the conditions that each part names, a charge window holds the    *)
(* pulse and its pedestal does not.                                        *)
WindowsHoldPulse ==
  WindowHoldsPulse /\ PedestalIsBaseline /\ DerivedHoldsPulse /\ DerivedPedestalIsBefore
=============================================================================
