----------------------------- MODULE DevmemAlign -----------------------------
(***************************************************************************)
(* align_all_afes.py, the alignment without the server: it reads and       *)
(* writes the registers of the front end with devmem, one process for each *)
(* access, and any of them may fail.  One tap or bitslip a step.           *)
(***************************************************************************)
EXTENDS Runs, Sequences

CONSTANTS
  DmAfes,     \* 5
  DmTaps,     \* 512
  DmSlips,    \* 16
  DmWords,    \* frame-clock words
  DmPattern   \* WANT_PATTERN

ASSUME DevmemAssumption ==
  /\ DmAfes \in Nat /\ DmTaps \in Nat \ {0} /\ DmSlips \in Nat \ {0}
  /\ DmPattern \in DmWords

VARIABLES
  dm,        \* the program: AFE, position, loop variable, runs, results
  dmTap,     \* tap registers
  dmSlip,    \* bitslip registers
  dmRead     \* history: words read at the taps, and last, of each AFE

devmemVars == <<dm, dmTap, dmSlip, dmRead>>

NoRun == [len |-> 0, start |-> 0]

DevmemInit ==
  /\ dm = [afe |-> 0, at |-> "probe", i |-> 0, word |-> DmPattern,
           curr |-> NoRun, longest |-> NoRun, results |-> <<>>]
  /\ dmTap = [a \in 0..(DmAfes - 1) |-> 0]
  /\ dmSlip = [a \in 0..(DmAfes - 1) |-> 0]
  /\ dmRead = [a \in 0..(DmAfes - 1) |->
                 [words |-> [t \in 0..(DmTaps - 1) |-> DmPattern], last |-> DmPattern]]

NextAfe(p) == [p EXCEPT !.afe = @ + 1, !.at = "probe", !.i = 0,
                        !.curr = NoRun, !.longest = NoRun, !.word = DmPattern]

(* main: the probe, the resets and the first tap.                          *)
Probe ==
  /\ dm.afe < DmAfes /\ dm.at = "probe"
  /\ dmTap' = [dmTap EXCEPT ![dm.afe] = 0]
  /\ \E w \in DmWords :
       /\ dm' = [dm EXCEPT !.at = "scan", !.i = 1, !.word = w,
                           !.curr = [len |-> 1, start |-> 0],
                           !.longest = [len |-> 1, start |-> 0]]
       /\ dmRead' = [dmRead EXCEPT ![dm.afe].words[0] = w]
  /\ UNCHANGED dmSlip

(* Mutant: the last run is only kept when a word follows it.               *)
Longer_Open(p) == p.longest

(* The longest run when the current one is closed.                         *)
Longer(p) == IF p.curr.len > p.longest.len THEN p.curr ELSE p.longest

ScanTap ==
  /\ dm.at = "scan" /\ dm.i < DmTaps
  /\ dmTap' = [dmTap EXCEPT ![dm.afe] = dm.i]
  /\ \E w \in DmWords :
       /\ dmRead' = [dmRead EXCEPT ![dm.afe].words[dm.i] = w]
       /\ dm' = IF w = dm.word
                THEN [dm EXCEPT !.i = @ + 1, !.curr.len = @ + 1]
                ELSE [dm EXCEPT !.i = @ + 1, !.word = w, !.longest = Longer(dm),
                                !.curr = [len |-> 1, start |-> dm.i]]
  /\ UNCHANGED dmSlip

Mid(run) == run.start + ((run.len - 1) \div 2)

(* After the pulse of VTC the hunt begins.                                 *)
SetMid ==
  /\ dm.at = "scan" /\ dm.i = DmTaps
  /\ dm' = [dm EXCEPT !.at = "hunt", !.i = 0, !.longest = Longer(dm)]
  /\ dmTap' = [dmTap EXCEPT ![dm.afe] = Mid(Longer(dm))]
  /\ UNCHANGED <<dmSlip, dmRead>>

Result(found) == [afe |-> dm.afe, mid |-> Mid(dm.longest), found |-> found]

(* Mutant: the bitslip one further is reported.                            *)
Found_Next(j) == j + 1

Found(j) == j

Hunt ==
  /\ dm.at = "hunt" /\ dm.i < DmSlips
  /\ dmSlip' = [dmSlip EXCEPT ![dm.afe] = dm.i]
  /\ \E w \in DmWords :
       /\ dmRead' = [dmRead EXCEPT ![dm.afe].last = w]
       /\ dm' = IF w = DmPattern
                THEN NextAfe([dm EXCEPT !.results = Append(@, Result(Found(dm.i)))])
                ELSE [dm EXCEPT !.i = @ + 1]
  /\ UNCHANGED dmTap

NotFound ==
  /\ dm.at = "hunt" /\ dm.i = DmSlips
  /\ dm' = NextAfe([dm EXCEPT !.results = Append(@, Result(-1))])
  /\ UNCHANGED <<dmTap, dmSlip, dmRead>>

(* What the step at hand writes to the tap.                                *)
TapOfStep == IF dm.i < DmTaps THEN dm.i ELSE Mid(Longer(dm))

(* An access fails, before or after the register of this step is written:  *)
(* the AFE is left as it is.                                               *)
AccessFails ==
  /\ dm.afe < DmAfes /\ ~(dm.at = "hunt" /\ dm.i = DmSlips)
  /\ dm' = NextAfe(dm)
  /\ \/ UNCHANGED <<dmTap, dmSlip>>
     \/ /\ dm.at # "hunt"
        /\ dmTap' = [dmTap EXCEPT ![dm.afe] = TapOfStep]
        /\ UNCHANGED dmSlip
     \/ /\ dm.at = "hunt" /\ dm.i < DmSlips
        /\ dmSlip' = [dmSlip EXCEPT ![dm.afe] = dm.i]
        /\ UNCHANGED dmTap
  /\ UNCHANGED dmRead

DevmemStep == Probe \/ ScanTap \/ SetMid \/ Hunt \/ NotFound \/ AccessFails

DevmemSpec == DevmemInit /\ [][DevmemStep]_devmemVars

-----------------------------------------------------------------------------
(* What the summary says of an AFE is what its registers are left with:    *)
(* the tap is the middle of the first longest window of equal words, and a *)
(* bitslip is given only when the wanted pattern was the last word read,   *)
(* whichever accesses for other AFEs failed.                               *)
SummaryIsTrue ==
  \A k \in DOMAIN dm.results :
    LET r == dm.results[k]
    IN /\ dmTap[r.afe] = r.mid
       /\ \E a, b \in 0..(DmTaps - 1) :
            /\ IsFirstLongestRun(dmRead[r.afe].words, DmTaps, a, b)
            /\ r.mid = a + ((b - a) \div 2)
       /\ IF r.found = -1 THEN dmRead[r.afe].last # DmPattern
          ELSE dmSlip[r.afe] = r.found /\ dmRead[r.afe].last = DmPattern
=============================================================================
