--------------------------- MODULE FrontEndAlign ---------------------------
(***************************************************************************)
(* The alignment of the AFE links (alignAFE, run by MT2_ALIGN_AFE_REQ and  *)
(* after a configuration): reset, wait for DELAYCTRL_READY, and per AFE    *)
(* scan the delay taps, centre the delay in the longest run of equal       *)
(* frame-clock words, scan the bitslips for the expected word, set the     *)
(* first that gave it, and read it again.                                  *)
(*                                                                         *)
(* Every trigger captures the frame-clock word that the link gives at that *)
(* moment, any word: a marginal link may show the expected one by luck.    *)
(* The captured word reaches the spy buffer some time after the trigger;   *)
(* a read after the 1 ms sleep sees it, a read without it may see the      *)
(* word before.  The handler runs in the router thread, the only user of   *)
(* these registers; the hardware changes DELAYCTRL_READY by itself.        *)
(***************************************************************************)
EXTENDS Runs

CONSTANTS
  NAfe,      \* AFEs, 5
  Taps,      \* delay taps, 512
  Slips,     \* bitslips, 16
  Reads,     \* kVerificationReads, 4
  MaxPolls,  \* polls of DELAYCTRL_READY before the deadline
  Words,     \* frame-clock words
  Expected   \* kExpectedFclkWord, 0x00FF00FF

ASSUME AlignAssumption ==
  /\ NAfe \in Nat \ {0} /\ Taps \in Nat \ {0} /\ Slips \in Nat \ {0}
  /\ Reads \in Nat \ {0} /\ MaxPolls \in Nat \ {0}
  /\ Expected \in Words

AFEs == 0..(NAfe - 1)
Tap == 0..(Taps - 1)
Slip == 0..(Slips - 1)

VARIABLES
  pc,       \* where alignAFE is
  afe, n,   \* afe_block, and the tap, bitslip, poll or read at hand
  data,     \* words of the scan at hand
  matched, verified,  \* matched and verification_ok of the AFE at hand
  initialBitslip,     \* of setBestBitslip
  alignedWord,        \* what setBestBitslip returned
  failures,           \* AFEs in failures
  delay, bitslip,     \* the registers frontendDelay_ and frontendBitslip_
  vtc, ready,         \* DELAY_EN_VTC and DELAYCTRL_READY
  spy,                \* the word in the spy buffer of the AFE at hand
  answer,             \* the response: None, or its success and settings
  good,               \* history: captures at an AFE's present setting that
                      \* showed the expected word in a row (up to Reads)
  readySeen           \* history: DELAYCTRL_READY was read as 1 since Reset

history == <<good, readySeen>>
regs == <<delay, bitslip, vtc>>
local == <<afe, n, data, matched, verified, initialBitslip, alignedWord,
           failures>>
vars == <<pc, local, regs, ready, spy, answer, history>>

-----------------------------------------------------------------------------
None == [status |-> "none"]

(* The history of the AFE at hand after a capture of w at its setting, and *)
(* after a new setting and a first capture of w.                           *)
Captured(w) ==
  /\ good' = [good EXCEPT ![afe] = IF w # Expected THEN 0
                                   ELSE IF @ < Reads THEN @ + 1 ELSE @]
  /\ UNCHANGED readySeen

CapturedFirst(w) ==
  /\ good' = [good EXCEPT ![afe] = IF w = Expected THEN 1 ELSE 0]
  /\ UNCHANGED readySeen

(* data[n] = w                                                             *)
Store(w) == data' = [j \in 0..n |-> IF j = n THEN w ELSE data[j]]

Empty == [j \in {} |-> Expected]

Init ==
  /\ pc = "idle"
  /\ afe = 0 /\ n = 0 /\ data = Empty
  /\ matched = FALSE /\ verified = FALSE
  /\ initialBitslip = 0 /\ alignedWord = Expected
  /\ failures = {}
  /\ delay = [a \in AFEs |-> 0] /\ bitslip = [a \in AFEs |-> 0]
  /\ vtc \in {0, 1} /\ ready \in BOOLEAN
  /\ spy \in Words
  /\ answer = None
  /\ good = [a \in AFEs |-> 0]
  /\ readySeen = FALSE

ResetDelayCtrlValues ==
  delay' = [a \in AFEs |-> 0] /\ bitslip' = [a \in AFEs |-> 0]

(* A request, and the handler's first call.                                *)
Begin ==
  /\ pc = "idle"
  /\ pc' = "reset"
  /\ ResetDelayCtrlValues
  /\ good' = [a \in AFEs |-> 0]
  /\ answer' = None
  /\ failures' = {}
  /\ UNCHANGED <<afe, n, data, matched, verified, initialBitslip,
                 alignedWord, vtc, ready, spy, readySeen>>

(* doResetDelayCtrl, which takes DELAYCTRL_READY down, doResetSerDesCtrl   *)
(* and setEnableDelayVtc(0).                                               *)
Reset ==
  /\ pc = "reset"
  /\ pc' = "wait" /\ n' = 0
  /\ ready' = FALSE /\ readySeen' = FALSE
  /\ vtc' = 0
  /\ UNCHANGED <<afe, data, matched, verified, initialBitslip, alignedWord,
                 failures, delay, bitslip, spy, answer, good>>

-----------------------------------------------------------------------------
(* waitForDelayCtrlReady: poll until ready or the deadline, then once more.*)
IsReady ==
  /\ pc = "wait" /\ ready
  /\ pc' = "delay" /\ n' = 0 /\ afe' = 0 /\ data' = Empty
  /\ readySeen' = TRUE
  /\ UNCHANGED <<matched, verified, initialBitslip, alignedWord, failures,
                 regs, ready, spy, answer, good>>

NotReady ==
  /\ pc = "wait" /\ ~ready /\ n < MaxPolls
  /\ n' = n + 1
  /\ UNCHANGED <<pc, afe, data, matched, verified, initialBitslip,
                 alignedWord, failures, regs, ready, spy, answer, history>>

(* Mutant: no deadline, the poll goes on.                                  *)
GiveUp_Never ==
  /\ pc = "wait" /\ ~ready /\ n = MaxPolls
  /\ n' = 0
  /\ UNCHANGED <<pc, afe, data, matched, verified, initialBitslip,
                 alignedWord, failures, regs, ready, spy, answer, history>>

(* The exception of alignAFE: its catch answers at once.                   *)
GiveUp ==
  /\ pc = "wait" /\ ~ready /\ n = MaxPolls
  /\ pc' = "idle"
  /\ answer' = [status |-> "refused"]
  /\ UNCHANGED <<local, regs, ready, spy, history>>

-----------------------------------------------------------------------------
(* scanGeneric of setBestDelay: set, trigger, sleep and read one tap.      *)
ScanDelay ==
  /\ pc = "delay" /\ n < Taps
  /\ \E w \in Words : Store(w) /\ spy' = w /\ CapturedFirst(w)
  /\ delay' = [delay EXCEPT ![afe] = n]
  /\ n' = n + 1
  /\ UNCHANGED <<pc, afe, matched, verified, initialBitslip, alignedWord,
                 failures, bitslip, vtc, ready, answer>>

(* The midpoint of the run, truncated to an integer.                       *)
Midpoint(first, last) == first + (last - first) \div 2

(* The rest of setBestDelay, and the first line of setBestBitslip.  No     *)
(* capture is taken at the setting yet.                                    *)
SetBestDelay ==
  /\ pc = "delay" /\ n = Taps
  /\ pc' = "bitslip" /\ n' = 0 /\ data' = Empty
  /\ \E first, last \in Tap :
       /\ IsFirstLongestRun(data, Taps, first, last)
       /\ delay' = [delay EXCEPT ![afe] = Midpoint(first, last)]
  /\ initialBitslip' = bitslip[afe]
  /\ good' = [good EXCEPT ![afe] = 0]
  /\ UNCHANGED <<afe, matched, verified, alignedWord, failures, bitslip, vtc,
                 ready, spy, answer, readySeen>>

(* scanGeneric of setBestBitslip.                                          *)
ScanBitslip ==
  /\ pc = "bitslip" /\ n < Slips
  /\ \E w \in Words : Store(w) /\ spy' = w /\ CapturedFirst(w)
  /\ bitslip' = [bitslip EXCEPT ![afe] = n]
  /\ n' = n + 1
  /\ UNCHANGED <<pc, afe, matched, verified, initialBitslip, alignedWord,
                 failures, delay, vtc, ready, answer>>

(* The bitslips that showed the expected word.                             *)
Matches == {s \in Slip : data[s] = Expected}

(* The first of them; without one the bitslip is restored.                 *)
BestBitslip(s) ==
  IF Matches = {} THEN s = initialBitslip
  ELSE s \in Matches /\ \A t \in Matches : s <= t

(* The rest of setBestBitslip: set, trigger and read without a sleep.      *)
SetBestBitslip ==
  /\ pc = "bitslip" /\ n = Slips
  /\ pc' = "verify" /\ n' = 0
  /\ matched' = (Matches # {}) /\ verified' = (Matches # {})
  /\ \E s \in Slip :
       BestBitslip(s) /\ bitslip' = [bitslip EXCEPT ![afe] = s]
  /\ \E w \in Words :
       /\ spy' = w /\ CapturedFirst(w)
       /\ alignedWord' \in {w, spy}
  /\ data' = Empty
  /\ UNCHANGED <<afe, initialBitslip, failures, delay, vtc, ready, answer>>

(* Mutant: the last of the reads counts, not all of them.                  *)
Verify_LastRead ==
  /\ pc = "verify" /\ n < Reads
  /\ \E w \in Words :
       /\ spy' = w /\ Captured(w)
       /\ verified' = (matched /\ w = Expected)
  /\ n' = n + 1
  /\ UNCHANGED <<pc, afe, data, matched, initialBitslip, alignedWord,
                 failures, regs, ready, answer>>

(* One of the verification reads: trigger, sleep and read.                 *)
Verify ==
  /\ pc = "verify" /\ n < Reads
  /\ \E w \in Words :
       /\ spy' = w /\ Captured(w)
       /\ verified' = (verified /\ w = Expected)
  /\ n' = n + 1
  /\ UNCHANGED <<pc, afe, data, matched, initialBitslip, alignedWord,
                 failures, regs, ready, answer>>

(* The end of the body of the loop over the AFEs.                          *)
EndOfAfe ==
  /\ pc = "verify" /\ n = Reads
  /\ failures' = IF matched /\ alignedWord = Expected /\ verified
                 THEN failures ELSE failures \cup {afe}
  /\ IF afe + 1 < NAfe THEN pc' = "delay" /\ afe' = afe + 1
                       ELSE pc' = "report" /\ afe' = 0
  /\ n' = 0
  /\ UNCHANGED <<data, matched, verified, initialBitslip, alignedWord, regs,
                 ready, spy, answer, history>>

(* The registers are read back into the response and VTC is enabled.       *)
Report ==
  /\ pc = "report"
  /\ pc' = "idle"
  /\ vtc' = 1
  /\ answer' = [status |-> IF failures = {} THEN "aligned" ELSE "failed",
                delay |-> delay, bitslip |-> bitslip]
  /\ UNCHANGED <<local, delay, bitslip, ready, spy, history>>

(* The hardware raises or drops DELAYCTRL_READY.                           *)
DelayCtrl ==
  /\ ready' = ~ready
  /\ UNCHANGED <<pc, local, regs, spy, answer, history>>

-----------------------------------------------------------------------------
Align ==
  \/ Reset \/ IsReady \/ NotReady \/ GiveUp
  \/ ScanDelay \/ SetBestDelay \/ ScanBitslip \/ SetBestBitslip
  \/ Verify \/ EndOfAfe \/ Report

Next == Begin \/ Align \/ DelayCtrl

(* The router thread runs a handler it has started to its end.             *)
Spec == Init /\ [][Next]_vars /\ WF_vars(Align)

-----------------------------------------------------------------------------
TypeOK ==
  /\ pc \in {"idle", "reset", "wait", "delay", "bitslip", "verify", "report"}
  /\ afe \in AFEs /\ n \in Nat
  /\ matched \in BOOLEAN /\ verified \in BOOLEAN /\ alignedWord \in Words
  /\ initialBitslip \in Slip
  /\ failures \in SUBSET AFEs
  /\ delay \in [AFEs -> Tap] /\ bitslip \in [AFEs -> Slip]
  /\ vtc \in {0, 1} /\ ready \in BOOLEAN /\ spy \in Words
  /\ good \in [AFEs -> 0..Reads]
  /\ readySeen \in BOOLEAN

(* An alignment answered as successful had DELAYCTRL_READY after its       *)
(* reset, its response gives the settings that are in the registers, and   *)
(* at the setting of every AFE the last Reads captures all showed the      *)
(* expected word: nothing wrote a delay or a bitslip after its             *)
(* verification.                                                           *)
AlignedIsVerified ==
  answer.status = "aligned" =>
    /\ readySeen
    /\ answer.delay = delay /\ answer.bitslip = bitslip
    /\ \A a \in AFEs : good[a] = Reads
    /\ vtc = 1

(* Every alignment is answered, whatever DELAYCTRL_READY does.             *)
AlignmentEnds == pc # "idle" ~> pc = "idle"
=============================================================================
