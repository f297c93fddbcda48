---------------------- MODULE OscilloscopeProof ----------------------------
(***************************************************************************)
(* Proofs about osc.py: what it records is what it acquired                *)
(* (RecordingsAreFaithful) and what its window shows belongs together      *)
(* (WindowsAreTrue), for every number of channels, queue size, averaging   *)
(* length and limit.                                                       *)
(***************************************************************************)
EXTENDS Oscilloscope, SequenceTheorems, WellFoundedInduction, TLAPS

(* What the two event queues carry, and the types that TypeOK leaves open. *)
WorkerSignal == [type : {"channel"}, ch : Channel] \cup [type : {"reset", "stop"}]
GuiSignal == [type : {"plot"}, frame : Nat]
             \cup [type : {"fft"}, ch : Channel, sum : Int, navg : Nat]
             \cup [type : {"finished"}]

Types ==
  /\ queue \in Seq(Nat) /\ toGui \in Seq(GuiSignal) /\ toWorker \in Seq(WorkerSignal)
  /\ files \in [Channel -> Seq(Int)] /\ quitTimer \in BOOLEAN
  /\ append \in BOOLEAN /\ gaveUp \in BOOLEAN /\ userClosed \in BOOLEAN

(* Frames are put in the queue as they come, as long as the worker saves.  *)
PushInv ==
  /\ ~saving => error
  /\ wpc = "put" => saving
  /\ wpc = "new" => frames = 0 /\ toGui = <<>> /\ ~quitTimer
  /\ gpc = "init" => wpc = "new"
  /\ wpc = "request" => frames < MaxFrames /\ (saving => pushed = frames)
  /\ wpc \in {"push", "put"} => frames > 0 /\ (saving => pushed = frames - 1)
  /\ wpc = "loop" /\ ~stopEvt /\ saving => pushed = frames

(* The worker does not go beyond max_waveforms.                            *)
LimitInv ==
  MaxWaveforms > 0 =>
    /\ wpc \in {"push", "put"} => frames <= MaxWaveforms
    /\ wpc = "request" \/ (wpc = "loop" /\ ~stopEvt) => frames < MaxWaveforms

(* The plot updates on their way are in order and newer than the latest.   *)
PlotInv ==
  \A i \in DOMAIN toGui : toGui[i].type = "plot" =>
    /\ toGui[i].frame \in latest..frames
    /\ \A j \in 1..i : toGui[j].type = "plot" => toGui[j].frame <= toGui[i].frame

(* The data of an earlier run that a file keeps.                           *)
Base == IF append THEN <<Old>> ELSE <<>>

(* The files while the writer runs: m frames are on disk, and the first    *)
(* channels may be one record ahead.                                       *)
Written(m) ==
  /\ \A c \in Channel :
       files[c] = Base \o FirstFrames(IF wr = "write" /\ c < k THEN m + 1 ELSE m)
  /\ wr = "write" => item = m + 1
  /\ InOrder(queue, IF wr = "write" THEN m + 1 ELSE m, pushed)

WriterInv ==
  /\ wr = "init" =>
       files = [c \in Channel |-> <<Old>>] /\ InOrder(queue, 0, pushed)
  /\ wr \in {"get", "write"} => \E m \in Nat : Written(m)

(* The files when it has ended: m frames of every channel, and of some     *)
(* one record more, whole or cut off.                                      *)
EndedAt(m) ==
  \A c \in Channel :
    \/ files[c] = Base \o FirstFrames(m)
    \/ m < pushed /\ files[c] = Base \o FirstFrames(m + 1)
    \/ files[c] = Base \o Append(FirstFrames(m), Partial)

EndedInv ==
  wr \in {"done", "killed"} =>
    \/ \E c \in Channel : files[c] = <<Old>>
    \/ \E m \in 0..pushed : EndedAt(m)

(* The sentinel is the last entry of the queue when no wait has given up.  *)
SentinelInv ==
  \A i \in DOMAIN queue : queue[i] = Sentinel =>
    gpc \in {"join", "closed"} /\ (~gaveUp => i = Len(queue))

(* An orderly end: first the worker, then the writer.                      *)
EndInv ==
  /\ gpc \in {"stop", "join", "closed"} /\ ~gaveUp => wpc = "done"
  /\ gpc = "closed" /\ ~gaveUp => wr = "done"
  /\ wr = "killed" => gpc = "closed"
  /\ wr = "done" /\ ~error =>
       /\ gpc \in {"join", "closed"}
       /\ ~gaveUp => \A c \in Channel : files[c] = Base \o FirstFrames(pushed)

(* Nobody but the acquisition itself stops the worker before _cleanup, and *)
(* a program that the user has not closed has acquired what was asked for. *)
Finished == quitTimer \/ \E i \in DOMAIN toGui : toGui[i].type = "finished"

FinishInv ==
  /\ gpc \in {"init", "run"} =>
       /\ stopEvt => wpc \in {"loop", "done"}
       /\ \A i \in DOMAIN toWorker : toWorker[i].type # "stop"
  /\ (gpc = "run" /\ Finished) \/ (gpc \notin {"init", "run"} /\ ~userClosed) =>
       stopEvt /\ wpc \in {"loop", "done"} /\ (error \/ pushed = MaxWaveforms)

(* The inductive invariant.                                                *)
OscInv ==
  /\ TypeOK /\ Types /\ PushInv /\ LimitInv /\ PlotInv
  /\ WriterInv /\ EndedInv /\ SentinelInv /\ EndInv /\ FinishInv
-----------------------------------------------------------------------------
(* The records of the first frames, and what the next one adds.            *)
LEMMA FirstFramesFacts ==
  ASSUME NEW n \in Nat
  PROVE  /\ FirstFrames(n) \in Seq(Int) /\ Len(FirstFrames(n)) = n
         /\ FirstFrames(n) \o <<n + 1>> = FirstFrames(n + 1)
         /\ FirstFrames(0) = <<>>
<1>1. FirstFrames(n) \in Seq(Int) /\ Len(FirstFrames(n)) = n
  BY DEF FirstFrames
<1>2. /\ FirstFrames(n + 1) \in Seq(Int) /\ Len(FirstFrames(n + 1)) = n + 1
      /\ \A i \in 1..(n + 1) : FirstFrames(n + 1)[i] = i
  BY DEF FirstFrames
<1>3. /\ FirstFrames(n) \o <<n + 1>> \in Seq(Int)
      /\ Len(FirstFrames(n) \o <<n + 1>>) = n + 1
      /\ \A i \in 1..(n + 1) : (FirstFrames(n) \o <<n + 1>>)[i] = i
  BY <1>1 DEF FirstFrames
<1>4. FirstFrames(n) \o <<n + 1>> = FirstFrames(n + 1)
  <2>. DEFINE s == FirstFrames(n) \o <<n + 1>>
              t == FirstFrames(n + 1)
  <2>1. /\ s \in Seq(Int) /\ t \in Seq(Int) /\ Len(s) = Len(t)
        /\ \A i \in 1..Len(s) : s[i] = t[i]
    BY <1>2, <1>3
  <2>. HIDE DEF s, t
  <2>2. s = t
    BY <2>1, SeqEqual
  <2>. QED
    BY <2>2 DEF s, t
<1>5. FirstFrames(0) = <<>>
  BY DEF FirstFrames
<1>. QED
  BY <1>1, <1>4, <1>5

(* What a run has recorded is what follows the data of an earlier run.     *)
LEMMA RecordedIsRest ==
  ASSUME NEW c \in Channel, NEW s \in Seq(Int), append \in BOOLEAN,
         files[c] = Base \o s
  PROVE  Recorded(c) = s
<1>1. CASE append
  <2>1. files[c] = <<Old>> \o s
    BY <1>1 DEF Base
  <2>2. /\ files[c] \in Seq(Int) /\ Len(files[c]) = Len(s) + 1
        /\ \A i \in 1..Len(s) : files[c][i + 1] = s[i]
    BY <2>1 DEF Old
  <2>3. /\ SubSeq(files[c], 2, Len(files[c])) \in Seq(Int)
        /\ Len(SubSeq(files[c], 2, Len(files[c]))) = Len(s)
        /\ \A i \in 1..Len(s) :
             SubSeq(files[c], 2, Len(files[c]))[i] = files[c][i + 1]
    BY <2>2
  <2>. QED
    BY <1>1, <2>2, <2>3 DEF Recorded
<1>2. CASE ~append
  <2>1. files[c] = s
    BY <1>2 DEF Base
  <2>. QED
    BY <1>2, <2>1 DEF Recorded
<1>. QED
  BY <1>1, <1>2

(* InOrder without sets of values, as the proofs use it.                   *)
LEMMA InOrderForm ==
  ASSUME NEW q \in Seq(Nat), NEW n \in Nat, NEW last \in Nat
  PROVE  InOrder(q, n, last) <=>
           /\ n <= last
           /\ \A i \in 1..Len(q) : q[i] # 0 => n < q[i] /\ q[i] <= last
           /\ \A v \in (n + 1)..last : \E i \in 1..Len(q) : q[i] = v
           /\ \A i, j \in 1..Len(q) :
                i < j /\ q[i] # 0 /\ q[j] # 0 => q[i] < q[j]
<1>1. DOMAIN q = 1..Len(q) /\ \A i \in 1..Len(q) : q[i] \in Nat
  OBVIOUS
<1>. DEFINE values == {q[i] : i \in DOMAIN q}
<1>2. \A v : v \in values <=> \E i \in 1..Len(q) : q[i] = v
  BY <1>1
<1>3. \A i \in 1..Len(q) : q[i] \in values /\ q[i] \in Nat
  BY <1>1
<1>. HIDE DEF values
<1>4. ASSUME values \ {Sentinel} = (n + 1)..last
      PROVE  /\ \A i \in 1..Len(q) : q[i] # 0 => n < q[i] /\ q[i] <= last
             /\ \A v \in (n + 1)..last : \E i \in 1..Len(q) : q[i] = v
  <2>1. \A v \in (n + 1)..last : v \in values
    BY <1>4
  <2>2. \A i \in 1..Len(q) : q[i] # 0 => q[i] \in (n + 1)..last
    BY <1>3, <1>4 DEF Sentinel
  <2>. QED
    BY <1>2, <2>1, <2>2
<1>5. ASSUME \A i \in 1..Len(q) : q[i] # 0 => n < q[i] /\ q[i] <= last,
             \A v \in (n + 1)..last : \E i \in 1..Len(q) : q[i] = v
      PROVE  values \ {Sentinel} = (n + 1)..last
  <2>1. ASSUME NEW v \in values \ {Sentinel} PROVE v \in (n + 1)..last
    <3>1. PICK i \in 1..Len(q) : q[i] = v
      BY <1>2
    <3>. QED
      BY <3>1, <1>3, <1>5 DEF Sentinel
  <2>2. ASSUME NEW v \in (n + 1)..last PROVE v \in values \ {Sentinel}
    <3>1. v \in values
      BY <1>2, <1>5
    <3>. QED
      BY <3>1 DEF Sentinel
  <2>. QED
    BY <2>1, <2>2
<1>6. InOrder(q, n, last) <=>
        /\ n <= last
        /\ values \ {Sentinel} = (n + 1)..last
        /\ \A i, j \in 1..Len(q) :
             i < j /\ q[i] # 0 /\ q[j] # 0 => q[i] < q[j]
  BY <1>1 DEF InOrder, Sentinel, values
<1>. QED
  BY <1>4, <1>5, <1>6

(* The next frame, and a sentinel, may be appended.                        *)
LEMMA InOrderAppend ==
  ASSUME NEW q \in Seq(Nat), NEW n \in Nat, NEW last \in Nat,
         InOrder(q, n, last)
  PROVE  /\ InOrder(Append(q, last + 1), n, last + 1)
         /\ InOrder(Append(q, Sentinel), n, last)
<1>1. ASSUME NEW e \in Nat, NEW m \in Nat,
             (e = 0 /\ m = last) \/ (e = last + 1 /\ m = last + 1)
      PROVE  InOrder(Append(q, e), n, m)
  <2>. DEFINE r == Append(q, e)
              L == Len(q)
  <2>1. /\ r \in Seq(Nat) /\ Len(r) = L + 1 /\ r[L + 1] = e
        /\ \A i \in 1..L : r[i] = q[i]
        /\ \A i \in 1..L : q[i] \in Nat
        /\ L \in Nat
    OBVIOUS
  <2>2. /\ n <= last
        /\ \A i \in 1..L : q[i] # 0 => n < q[i] /\ q[i] <= last
        /\ \A v \in (n + 1)..last : \E i \in 1..L : q[i] = v
        /\ \A i, j \in 1..L :
             i < j /\ q[i] # 0 /\ q[j] # 0 => q[i] < q[j]
    BY InOrderForm
  <2>. HIDE DEF r, L
  <2>3. ASSUME NEW i \in 1..(L + 1), r[i] # 0 PROVE n < r[i] /\ r[i] <= m
    <3>1. CASE i \in 1..L
      <4>1. n < q[i] /\ q[i] <= last /\ r[i] = q[i] /\ q[i] \in Nat
        BY <2>1, <2>2, <2>3, <3>1
      <4>. QED
        BY <1>1, <4>1
    <3>2. CASE i = L + 1
      BY <1>1, <2>1, <2>2, <2>3, <3>2
    <3>. QED
      BY <2>1, <3>1, <3>2
  <2>4. ASSUME NEW v \in (n + 1)..m PROVE \E i \in 1..(L + 1) : r[i] = v
    <3>1. CASE v = last + 1
      BY <1>1, <2>1, <3>1
    <3>2. CASE v # last + 1
      <4>1. PICK i \in 1..L : q[i] = v
        BY <1>1, <2>2, <3>2
      <4>. QED
        BY <2>1, <4>1
    <3>. QED
      BY <3>1, <3>2
  <2>5. ASSUME NEW i \in 1..(L + 1), NEW j \in 1..(L + 1),
               i < j, r[i] # 0, r[j] # 0
        PROVE  r[i] < r[j]
    <3>1. i \in 1..L /\ r[i] = q[i]
      BY <2>1, <2>5
    <3>2. CASE j = L + 1
      BY <1>1, <2>1, <2>2, <2>5, <3>1, <3>2
    <3>3. CASE j \in 1..L
      BY <2>1, <2>2, <2>5, <3>1, <3>3
    <3>. QED
      BY <2>1, <3>2, <3>3
  <2>6. n <= m
    BY <1>1, <2>2
  <2>7. InOrder(r, n, m)
    BY <2>1, <2>3, <2>4, <2>5, <2>6, InOrderForm
  <2>. QED
    BY <2>7 DEF r
<1>2. InOrder(Append(q, last + 1), n, last + 1)
  <2>1. last + 1 \in Nat
    OBVIOUS
  <2>. QED
    BY <1>1, <2>1
<1>3. InOrder(Append(q, 0), n, last)
  <2>1. 0 \in Nat /\ (0 = 0 /\ last = last)
    OBVIOUS
  <2>. QED
    BY <1>1, <2>1
<1>. QED
  BY <1>2, <1>3 DEF Sentinel

(* The writer takes the next frame.                                        *)
LEMMA InOrderTail ==
  ASSUME NEW q \in Seq(Nat), NEW n \in Nat, NEW last \in Nat,
         InOrder(q, n, last), q # <<>>, Head(q) # Sentinel
  PROVE  Head(q) = n + 1 /\ InOrder(Tail(q), n + 1, last)
<1>. DEFINE r == Tail(q)
            L == Len(q)
<1>1. /\ L \in Nat \ {0} /\ Head(q) = q[1] /\ r \in Seq(Nat)
      /\ Len(r) = L - 1
      /\ \A i \in 1..(L - 1) : r[i] = q[i + 1]
      /\ \A i \in 1..L : q[i] \in Nat
  OBVIOUS
<1>2. /\ n <= last
      /\ \A i \in 1..L : q[i] # 0 => n < q[i] /\ q[i] <= last
      /\ \A v \in (n + 1)..last : \E i \in 1..L : q[i] = v
      /\ \A i, j \in 1..L :
           i < j /\ q[i] # 0 /\ q[j] # 0 => q[i] < q[j]
  BY InOrderForm
<1>. HIDE DEF r, L
<1>3. q[1] = n + 1 /\ n + 1 <= last
  <2>1. n < q[1] /\ q[1] <= last /\ q[1] # 0
    BY <1>1, <1>2 DEF Sentinel
  <2>2. n + 1 \in (n + 1)..last /\ 1 \in 1..L /\ q[1] \in Nat
    BY <2>1, <1>1
  <2>3. PICK i \in 1..L : q[i] = n + 1
    BY <2>2, <1>2
  <2>4. CASE i = 1
    BY <2>1, <2>2, <2>3, <2>4
  <2>5. CASE i # 1
    <3>1. 1 < i /\ q[i] # 0
      BY <2>3, <2>5, <1>1
    <3>2. q[1] < q[i]
      BY <2>1, <2>2, <3>1, <1>2
    <3>. QED
      BY <2>1, <2>2, <2>3, <3>2
  <2>. QED
    BY <2>4, <2>5
<1>4. ASSUME NEW i \in 1..(L - 1), r[i] # 0 PROVE n + 1 < r[i] /\ r[i] <= last
  <2>1. r[i] = q[i + 1] /\ i + 1 \in 1..L /\ 1 \in 1..L /\ 1 < i + 1
    BY <1>1
  <2>2. q[1] < q[i + 1]
    BY <1>2, <1>3, <1>4, <2>1
  <2>. QED
    BY <1>1, <1>2, <1>3, <1>4, <2>1, <2>2
<1>5. ASSUME NEW v \in (n + 2)..last PROVE \E i \in 1..(L - 1) : r[i] = v
  <2>1. PICK i \in 1..L : q[i] = v
    BY <1>2
  <2>2. i # 1
    BY <1>3, <2>1
  <2>3. i - 1 \in 1..(L - 1) /\ r[i - 1] = q[(i - 1) + 1]
    BY <1>1, <2>2
  <2>. QED
    BY <2>1, <2>3
<1>6. ASSUME NEW i \in 1..(L - 1), NEW j \in 1..(L - 1),
             i < j, r[i] # 0, r[j] # 0
      PROVE  r[i] < r[j]
  <2>1. /\ r[i] = q[i + 1] /\ r[j] = q[j + 1] /\ i + 1 \in 1..L
        /\ j + 1 \in 1..L /\ i + 1 < j + 1
    BY <1>1, <1>6
  <2>. QED
    BY <1>2, <1>6, <2>1
<1>7. InOrder(r, n + 1, last)
  <2>1. n + 1 \in Nat /\ (n + 1) + 1 = n + 2
    OBVIOUS
  <2>. QED
    BY <1>1, <1>3, <1>4, <1>5, <1>6, <2>1, InOrderForm
<1>. QED
  BY <1>1, <1>3, <1>7 DEF r
-----------------------------------------------------------------------------
USE DEF worker, fft, writer, screen, gui, history, vars

(* The steps that may disturb each part of the invariant.                  *)
LEMMA PushStep ==
  ASSUME OscAssumption, TypeOK, Types, PushInv, [Next]_vars
  PROVE  PushInv'
<1>1. CASE UNCHANGED vars
  BY <1>1 DEF PushInv
<1>2. CASE OpenFiles \/ GetFrame \/ WriteRecord \/ WriteFails
  BY <1>2 DEF PushInv, OpenFiles, GetFrame, WriteRecord, WriteFails
<1>3. CASE StartWorker \/ Start
  BY <1>3 DEF PushInv, TypeOK, StartWorker, Start
<1>4. CASE PollOnce \/ NoFrame
  BY <1>4 DEF PushInv, TypeOK, PollOnce, NoFrame
<1>5. CASE Frame
  BY <1>5 DEF PushInv, TypeOK, Frame
<1>6. CASE Push \/ Put
  BY <1>6 DEF PushInv, TypeOK, Push, Put, Pushed
<1>7. CASE QueueFull
  BY <1>7 DEF PushInv, TypeOK, QueueFull, Pushed
<1>8. CASE HandleSlot
  BY <1>8 DEF PushInv, HandleSlot
<1>9. CASE ThreadEnds
  BY <1>9 DEF PushInv, ThreadEnds
<1>10. CASE HandleSignal
  BY <1>10 DEF PushInv, HandleSignal
<1>11. CASE RenderLatestFrame \/ SelectFftChannel \/ ResetFft \/ RmsMenu \/
           SetTransforms
  <2>1. UNCHANGED <<worker, toGui, gpc, quitTimer, error, pushed>>
    BY <1>11 DEF RenderLatestFrame, Command, SelectFftChannel, ResetFft,
       RmsMenu,
       SetTransforms
  <2>. QED
    BY <2>1 DEF PushInv
<1>12. CASE Cleanup(TRUE) \/ Cleanup(FALSE)
  BY <1>12 DEF PushInv, Cleanup
<1>13. CASE QuitThread \/ WaitWorker \/ StopWriter \/ JoinWriter
  BY <1>13 DEF PushInv, QuitThread, WaitWorker, StopWriter, JoinWriter
<1>. QED
  BY <1>1, <1>2, <1>3, <1>4, <1>5, <1>6, <1>7, <1>8, <1>9, <1>10, <1>11, <1>12,
     <1>13 DEF Next, Writer, Worker, Gui, User, CloseEvent, AboutToQuit

LEMMA LimitStep ==
  ASSUME OscAssumption, TypeOK, PushInv, LimitInv, [Next]_vars
  PROVE  LimitInv'
<1>1. CASE UNCHANGED vars
  BY <1>1 DEF LimitInv
<1>2. CASE OpenFiles \/ GetFrame \/ WriteRecord \/ WriteFails
  BY <1>2 DEF LimitInv, OpenFiles, GetFrame, WriteRecord, WriteFails
<1>3. CASE StartWorker \/ Start
  BY <1>3 DEF PushInv, LimitInv, TypeOK, StartWorker, Start
<1>4. CASE PollOnce \/ NoFrame
  BY <1>4 DEF LimitInv, TypeOK, PollOnce, NoFrame
<1>5. CASE Frame
  BY <1>5 DEF OscAssumption, Arguments, LimitInv, TypeOK, Frame
<1>6. CASE Push \/ Put
  BY <1>6 DEF OscAssumption, Arguments, LimitInv, TypeOK, Push, Put, Pushed
<1>7. CASE QueueFull
  BY <1>7 DEF OscAssumption, Arguments, LimitInv, TypeOK, QueueFull, Pushed
<1>8. CASE HandleSlot
  BY <1>8 DEF LimitInv, HandleSlot
<1>9. CASE ThreadEnds
  BY <1>9 DEF LimitInv, ThreadEnds
<1>10. CASE HandleSignal
  BY <1>10 DEF LimitInv, HandleSignal
<1>11. CASE RenderLatestFrame \/ SelectFftChannel \/ ResetFft \/ RmsMenu \/
           SetTransforms
  BY <1>11 DEF LimitInv, RenderLatestFrame, Command,
       SelectFftChannel, ResetFft, RmsMenu, SetTransforms
<1>12. CASE Cleanup(TRUE) \/ Cleanup(FALSE)
  BY <1>12 DEF LimitInv, Cleanup
<1>13. CASE QuitThread \/ WaitWorker \/ StopWriter \/ JoinWriter
  BY <1>13 DEF LimitInv, QuitThread, WaitWorker, StopWriter, JoinWriter
<1>. QED
  BY <1>1, <1>2, <1>3, <1>4, <1>5, <1>6, <1>7, <1>8, <1>9, <1>10, <1>11, <1>12,
     <1>13 DEF Next, Writer, Worker, Gui, User, CloseEvent, AboutToQuit

(* Sequences that are joined, and one that gets a new last element.        *)
LEMMA Joined ==
  ASSUME NEW S, NEW s \in Seq(S), NEW t \in Seq(S)
  PROVE  /\ s \o t \in Seq(S) /\ Len(s \o t) = Len(s) + Len(t)
         /\ \A i \in 1..Len(s) : (s \o t)[i] = s[i]
         /\ \A i \in (Len(s) + 1)..Len(s \o t) :
              i - Len(s) \in 1..Len(t) /\ (s \o t)[i] = t[i - Len(s)]
OBVIOUS

LEMMA Added ==
  ASSUME NEW S, NEW s \in Seq(S), NEW e \in S
  PROVE  /\ Append(s, e) \in Seq(S) /\ Len(Append(s, e)) = Len(s) + 1
         /\ \A i \in 1..Len(s) : Append(s, e)[i] = s[i]
         /\ Append(s, e)[Len(s) + 1] = e
         /\ s \o <<e>> = Append(s, e)
<1>1. /\ Append(s, e) \in Seq(S) /\ Len(Append(s, e)) = Len(s) + 1
      /\ \A i \in 1..Len(s) : Append(s, e)[i] = s[i]
      /\ Append(s, e)[Len(s) + 1] = e
  OBVIOUS
<1>2. /\ s \o <<e>> \in Seq(S) /\ Len(s \o <<e>>) = Len(s) + 1
      /\ \A i \in 1..Len(s) : (s \o <<e>>)[i] = s[i]
      /\ (s \o <<e>>)[Len(s) + 1] = e
      /\ Len(s) \in Nat
  OBVIOUS
<1>. DEFINE a == Append(s, e)
            b == s \o <<e>>
<1>. HIDE DEF a, b
<1>3. /\ a \in Seq(S) /\ b \in Seq(S) /\ Len(b) = Len(a)
      /\ \A i \in 1..Len(b) : b[i] = a[i]
  BY <1>1, <1>2 DEF a, b
<1>4. b = a
  BY <1>3, SeqEqual
<1>. QED
  BY <1>1, <1>4 DEF a, b

(* The signals that a frame and the end of an acquisition post.            *)
LEMMA SignalsPosted ==
  ASSUME OscAssumption, TypeOK, Types, PushInv,
         Frame \/ Push \/ Put \/ QueueFull
  PROVE  /\ toGui' \in Seq(GuiSignal) /\ Len(toGui) <= Len(toGui')
         /\ \A i \in 1..Len(toGui) : toGui'[i] = toGui[i]
         /\ \A i \in (Len(toGui) + 1)..Len(toGui') :
              /\ toGui'[i].type = "plot" =>
                   Frame /\ toGui'[i].frame = frames + 1
              /\ toGui'[i].type = "fft" => Frame
              /\ toGui'[i].type = "finished" =>
                   MaxWaveforms > 0 /\ frames >= MaxWaveforms /\ ~Frame
<1>1. CASE Frame
  <2>. DEFINE plot == [type |-> "plot", frame |-> frames']
              s == toGui \o FftSignal
  <2>1. Power[<<fftCh, frames + 1>>] \in Nat
    BY <1>1 DEF OscAssumption, PushInv, TypeOK, Frame, Channel
  <2>2. Leaving(fftFrames % AvgCount) \in Int
    BY DEF OscAssumption, Arguments, TypeOK, Leaving
  <2>3. sum' \in Int /\ fftFrames' \in Nat /\ frames' = frames + 1 /\ frames' \in Nat
    BY <1>1, <2>1, <2>2 DEF Frame, UpdateFft, TypeOK
  <2>4. plot \in GuiSignal
    BY <2>3 DEF GuiSignal
  <2>5. /\ FftSignal \in Seq(GuiSignal)
        /\ \A i \in 1..Len(FftSignal) : FftSignal[i].type = "fft"
    <3>. DEFINE n == IF fftFrames' >= AvgCount THEN AvgCount ELSE fftFrames'
                m == [type |-> "fft", ch |-> fftCh, sum |-> sum', navg |-> n]
    <3>1. n \in Nat
      BY <2>3 DEF OscAssumption, Arguments
    <3>. HIDE DEF n
    <3>2. m \in GuiSignal /\ m.type = "fft"
      BY <2>3, <3>1 DEF GuiSignal, TypeOK
    <3>3. FftSignal = <<>> \/ FftSignal = <<m>>
      BY DEF FftSignal, n
    <3>. HIDE DEF m
    <3>4. /\ <<>> \in Seq(GuiSignal) /\ <<m>> \in Seq(GuiSignal)
          /\ Len(<<>>) = 0 /\ Len(<<m>>) = 1 /\ <<m>>[1] = m
      BY <3>2
    <3>5. CASE FftSignal = <<>>
      BY <3>4, <3>5
    <3>6. CASE FftSignal = <<m>>
      BY <3>2, <3>4, <3>6
    <3>. QED
      BY <3>3, <3>5, <3>6
  <2>6. toGui' = s \o <<plot>>
    BY <1>1 DEF Frame
  <2>7. toGui \in Seq(GuiSignal)
    BY DEF Types
  <2>8. /\ s \in Seq(GuiSignal) /\ Len(s) = Len(toGui) + Len(FftSignal)
        /\ \A i \in 1..Len(toGui) : s[i] = toGui[i]
        /\ \A i \in (Len(toGui) + 1)..Len(s) : s[i].type = "fft"
    BY <2>5, <2>7, Joined
  <2>9. plot.type = "plot" /\ plot.frame = frames + 1
    BY <2>3
  <2>. HIDE DEF plot, s
  <2>10. /\ toGui' \in Seq(GuiSignal) /\ Len(toGui') = Len(s) + 1
         /\ \A i \in 1..Len(s) : toGui'[i] = s[i]
         /\ toGui'[Len(s) + 1] = plot
    <3>1. toGui' = Append(s, plot)
      BY <2>4, <2>6, <2>8, Added
    <3>. DEFINE r == Append(s, plot)
    <3>2. /\ r \in Seq(GuiSignal) /\ Len(r) = Len(s) + 1
          /\ \A i \in 1..Len(s) : r[i] = s[i]
          /\ r[Len(s) + 1] = plot
      BY <2>4, <2>8, Added
    <3>. HIDE DEF r
    <3>3. toGui' = r
      BY <3>1 DEF r
    <3>. QED
      BY <3>2, <3>3
  <2>11. Len(toGui) \in Nat /\ Len(FftSignal) \in Nat
    BY <2>5, <2>7
  <2>12. ASSUME NEW i \in (Len(toGui) + 1)..Len(toGui')
         PROVE  \/ toGui'[i].type = "fft"
                \/ toGui'[i].type = "plot" /\ toGui'[i].frame = frames + 1
    <3>1. CASE i \in 1..Len(s)
      BY <2>8, <2>10, <2>11, <3>1
    <3>2. CASE i = Len(s) + 1
      BY <2>9, <2>10, <3>2
    <3>. QED
      BY <2>8, <2>10, <2>11, <3>1, <3>2
  <2>13. /\ Len(toGui) <= Len(toGui')
         /\ \A i \in 1..Len(toGui) : toGui'[i] = toGui[i]
    BY <2>8, <2>10, <2>11
  <2>. QED
    BY <1>1, <2>10, <2>12, <2>13
<1>2. CASE Push \/ Put \/ QueueFull
  <2>1. \/ toGui' = toGui
        \/ /\ MaxWaveforms > 0 /\ frames >= MaxWaveforms
           /\ toGui' = Append(toGui, [type |-> "finished"])
    BY <1>2 DEF Push, Put, QueueFull, Pushed
  <2>2. [type |-> "finished"] \in GuiSignal
    BY DEF GuiSignal
  <2>3. ~Frame
    BY <1>2 DEF Frame, Push, Put, QueueFull
  <2>4. toGui \in Seq(GuiSignal)
    BY DEF Types
  <2>5. CASE toGui' = toGui
    BY <2>4, <2>5
  <2>6. CASE /\ MaxWaveforms > 0 /\ frames >= MaxWaveforms
             /\ toGui' = Append(toGui, [type |-> "finished"])
    <3>1. /\ toGui' \in Seq(GuiSignal) /\ Len(toGui') = Len(toGui) + 1
          /\ \A i \in 1..Len(toGui) : toGui'[i] = toGui[i]
          /\ toGui'[Len(toGui) + 1] = [type |-> "finished"]
      BY <2>2, <2>4, <2>6, Added
    <3>. QED
      BY <2>3, <2>4, <2>6, <3>1
  <2>. QED
    BY <2>1, <2>5, <2>6
<1>. QED
  BY <1>1, <1>2

(* What is posted has the types the slots rely on.                         *)
LEMMA TypesStep ==
  ASSUME OscAssumption, TypeOK, Types, PushInv, [Next]_vars
  PROVE  Types'
<1>1. CASE UNCHANGED vars
  BY <1>1 DEF Types
<1>2. CASE OpenFiles
  <2>1. files' \in [Channel -> Seq(Int)]
    <3>1. files \in [Channel -> Seq(Int)] /\ <<>> \in Seq(Int)
      BY DEF Types
    <3>. QED
      BY <1>2, <3>1 DEF OpenFiles
  <2>. QED
    BY <1>2, <2>1 DEF Types, OpenFiles
<1>3. CASE GetFrame
  <2>1. queue' \in Seq(Nat)
    BY <1>3 DEF Types, GetFrame
  <2>. QED
    BY <1>3, <2>1 DEF Types, GetFrame
<1>4. CASE WriteRecord \/ WriteFails
  <2>1. files[k] \o <<item>> \in Seq(Int) /\ Append(files[k], Partial) \in Seq(Int)
    BY DEF Types, TypeOK, Partial
  <2>2. files' \in [Channel -> Seq(Int)]
    BY <1>4, <2>1 DEF Types, WriteRecord, WriteFails, Record
  <2>. QED
    BY <1>4, <2>2 DEF Types, WriteRecord, WriteFails
<1>5. CASE Frame \/ Push \/ Put \/ QueueFull
  <2>1. toGui' \in Seq(GuiSignal)
    BY <1>5, SignalsPosted
  <2>2. queue' \in Seq(Nat)
    <3>1. queue \in Seq(Nat) /\ frames \in Nat
      BY DEF Types, TypeOK
    <3>2. queue' = queue \/ queue' = Append(queue, frames)
      BY <1>5 DEF Frame, Push, Put, QueueFull
    <3>3. Append(queue, frames) \in Seq(Nat)
      BY <3>1
    <3>. QED
      BY <3>1, <3>2, <3>3
  <2>. QED
    BY <1>5, <2>1, <2>2 DEF Types, Frame, Push, Put, QueueFull
<1>6. CASE StartWorker \/ Start \/ PollOnce \/ NoFrame \/ ThreadEnds
  BY <1>6 DEF Types, StartWorker, Start, PollOnce, NoFrame,
       ThreadEnds
<1>7. CASE HandleSlot
  <2>1. toWorker' \in Seq(WorkerSignal)
    BY <1>7 DEF Types, HandleSlot
  <2>. QED
    BY <1>7, <2>1 DEF Types, HandleSlot
<1>8. CASE HandleSignal
  <2>1. toGui' \in Seq(GuiSignal)
    BY <1>8 DEF Types, HandleSignal
  <2>2. quitTimer' \in BOOLEAN
    BY <1>8 DEF Types, HandleSignal
  <2>. QED
    BY <1>8, <2>1, <2>2 DEF Types, HandleSignal
<1>9. CASE RenderLatestFrame \/ RmsMenu \/ SetTransforms
  BY <1>9 DEF Types, RenderLatestFrame, Command, RmsMenu, SetTransforms
<1>10. CASE SelectFftChannel \/ ResetFft
  <2>1. toWorker' \in Seq(WorkerSignal)
    <3>1. ASSUME NEW c \in Channel
          PROVE  [type |-> "channel", ch |-> c] \in WorkerSignal
      BY DEF WorkerSignal
    <3>2. [type |-> "reset"] \in WorkerSignal
      BY DEF WorkerSignal
    <3>3. \E m \in WorkerSignal : toWorker' = Append(toWorker, m)
      BY <1>10, <3>1, <3>2 DEF SelectFftChannel, ResetFft
    <3>. QED
      BY <3>3, Added DEF Types
  <2>. QED
    BY <1>10, <2>1 DEF Types, SelectFftChannel, ResetFft, Command
<1>11. CASE Cleanup(TRUE) \/ Cleanup(FALSE)
  <2>1. [type |-> "stop"] \in WorkerSignal
    BY DEF WorkerSignal
  <2>2. toWorker' \in Seq(WorkerSignal)
    <3>. DEFINE m == [type |-> "stop"]
    <3>1. toWorker' = Append(toWorker, m) /\ toWorker \in Seq(WorkerSignal)
      BY <1>11 DEF Types, Cleanup
    <3>. HIDE DEF m
    <3>2. m \in WorkerSignal
      BY <2>1 DEF m
    <3>. QED
      BY <3>1, <3>2, Added
  <2>3. userClosed' \in BOOLEAN
    BY <1>11 DEF Cleanup
  <2>. QED
    BY <1>11, <2>2, <2>3 DEF Types, Cleanup
<1>12. CASE QuitThread \/ WaitWorker \/ StopWriter \/ JoinWriter
  <2>1. queue' \in Seq(Nat)
    <3>1. queue \in Seq(Nat) /\ Sentinel \in Nat
      BY DEF Types, Sentinel
    <3>2. queue' = queue \/ queue' = Append(queue, Sentinel)
      BY <1>12 DEF QuitThread, WaitWorker, StopWriter, JoinWriter
    <3>3. Append(queue, Sentinel) \in Seq(Nat)
      BY <3>1
    <3>. QED
      BY <3>1, <3>2, <3>3
  <2>2. gaveUp' \in BOOLEAN
    BY <1>12 DEF Types, QuitThread, WaitWorker, StopWriter, JoinWriter
  <2>. QED
    BY <1>12, <2>1, <2>2 DEF Types, QuitThread, WaitWorker, StopWriter,
       JoinWriter
<1>. QED
  BY <1>1, <1>2, <1>3, <1>4, <1>5, <1>6, <1>7, <1>8, <1>9, <1>10, <1>11, <1>12
  DEF Next, Writer, Worker, Gui, User, CloseEvent, AboutToQuit

(* Plot updates reach the GUI in the order of the frames.                  *)
LEMMA PlotStep ==
  ASSUME OscAssumption, TypeOK, Types, PushInv, PlotInv, [Next]_vars
  PROVE  PlotInv'
<1>1. CASE UNCHANGED vars
  BY <1>1 DEF PlotInv
<1>2. CASE OpenFiles \/ GetFrame \/ WriteRecord \/ WriteFails
  BY <1>2 DEF PlotInv, OpenFiles, GetFrame,
       WriteRecord, WriteFails
<1>3. CASE StartWorker \/ Start \/ PollOnce \/ NoFrame \/ HandleSlot \/
           ThreadEnds
  BY <1>3 DEF PlotInv, StartWorker, Start, PollOnce, NoFrame, HandleSlot,
     ThreadEnds
<1>4. CASE Frame \/ Push \/ Put \/ QueueFull
  <2>1. latest' = latest /\ frames' \in Nat /\ frames <= frames' /\ latest <= frames
    BY <1>4 DEF TypeOK, Frame, Push, Put, QueueFull
  <2>2. Frame => frames' = frames + 1
    BY DEF Frame
  <2>. DEFINE L == Len(toGui)
              N == Len(toGui')
  <2>3. /\ \A i \in 1..L : toGui'[i] = toGui[i]
        /\ \A i \in (L + 1)..N : toGui'[i].type = "plot" =>
             Frame /\ toGui'[i].frame = frames + 1
        /\ L <= N
    BY <1>4, SignalsPosted
  <2>4. L \in Nat /\ N \in Nat /\ DOMAIN toGui = 1..L /\ DOMAIN toGui' = 1..N
    BY <1>4, SignalsPosted DEF Types
  <2>5. \A i \in 1..L : toGui[i].type = "plot" => toGui[i].frame \in Nat
    BY DEF Types, GuiSignal
  <2>. HIDE DEF L, N
  <2>6. \A i \in 1..L : toGui[i].type = "plot" =>
          /\ toGui[i].frame \in latest..frames
          /\ \A j \in 1..i : toGui[j].type = "plot" => toGui[j].frame <= toGui[i].frame
    BY <2>4 DEF PlotInv
  <2>7. ASSUME NEW i \in 1..N, toGui'[i].type = "plot"
        PROVE  /\ toGui'[i].frame \in latest..frames'
               /\ \A j \in 1..i : toGui'[j].type = "plot" =>
                    toGui'[j].frame <= toGui'[i].frame
    <3>1. CASE i \in 1..L
      <4>1. toGui'[i] = toGui[i] /\ \A j \in 1..i : toGui'[j] = toGui[j]
        BY <2>3, <2>4, <3>1
      <4>2. toGui[i].frame \in latest..frames
        BY <2>6, <2>7, <3>1, <4>1
      <4>3. \A j \in 1..i : toGui[j].type = "plot" => toGui[j].frame <= toGui[i].frame
        BY <2>6, <2>7, <3>1, <4>1
      <4>4. latest \in Nat /\ frames \in Nat
        BY DEF TypeOK
      <4>. QED
        BY <2>1, <4>1, <4>2, <4>3, <4>4
    <3>2. CASE i \in (L + 1)..N
      <4>1. toGui'[i].frame = frames + 1 /\ frames' = frames + 1
        BY <2>2, <2>3, <2>7, <3>2
      <4>2. latest \in Nat /\ frames \in Nat
        BY DEF TypeOK
      <4>3. ASSUME NEW j \in 1..i, toGui'[j].type = "plot"
            PROVE  toGui'[j].frame <= toGui'[i].frame
        <5>1. CASE j \in 1..L
          <6>1. toGui'[j] = toGui[j]
            BY <2>3, <5>1
          <6>2. toGui[j].frame \in latest..frames
            BY <2>6, <4>3, <5>1, <6>1
          <6>. QED
            BY <4>1, <4>2, <6>1, <6>2
        <5>2. CASE j \in (L + 1)..N
          <6>1. toGui'[j].frame = frames + 1
            BY <2>3, <4>3, <5>2
          <6>. QED
            BY <4>1, <4>2, <6>1
        <5>. QED
          BY <2>4, <3>2, <5>1, <5>2
      <4>. QED
        BY <2>1, <4>1, <4>2, <4>3
    <3>. QED
      BY <2>4, <3>1, <3>2
  <2>. QED
    BY <2>1, <2>4, <2>7 DEF PlotInv
<1>5. CASE HandleSignal
  <2>. DEFINE L == Len(toGui)
  <2>1. /\ toGui' = Tail(toGui) /\ frames' = frames
        /\ \/ latest' = latest
           \/ toGui[1].type = "plot" /\ latest' = toGui[1].frame
    BY <1>5 DEF HandleSignal, Types
  <2>2. /\ L \in Nat \ {0} /\ DOMAIN toGui = 1..L /\ DOMAIN toGui' = 1..(L - 1)
        /\ \A i \in 1..(L - 1) : toGui'[i] = toGui[i + 1]
    BY <1>5, <2>1 DEF HandleSignal, Types
  <2>3. \A i \in 1..L : toGui[i].type = "plot" => toGui[i].frame \in Nat
    BY DEF Types, GuiSignal
  <2>. HIDE DEF L
  <2>4. \A i \in 1..L : toGui[i].type = "plot" =>
          /\ toGui[i].frame \in latest..frames
          /\ \A j \in 1..i : toGui[j].type = "plot" => toGui[j].frame <= toGui[i].frame
    BY <2>2 DEF PlotInv
  <2>5. latest \in Nat /\ frames \in Nat
    BY DEF TypeOK
  <2>6. ASSUME NEW i \in 1..(L - 1), toGui'[i].type = "plot"
        PROVE  /\ toGui'[i].frame \in latest'..frames
               /\ \A j \in 1..i : toGui'[j].type = "plot" =>
                    toGui'[j].frame <= toGui'[i].frame
    <3>1. /\ i + 1 \in 1..L /\ 1 \in 1..(i + 1) /\ toGui'[i] = toGui[i + 1]
          /\ \A j \in 1..i : j + 1 \in 1..(i + 1) /\ toGui'[j] = toGui[j + 1]
      BY <2>2
    <3>2. /\ toGui[i + 1].frame \in latest..frames
          /\ \A j \in 1..(i + 1) : toGui[j].type = "plot" =>
               toGui[j].frame <= toGui[i + 1].frame
      BY <2>4, <2>6, <3>1
    <3>3. latest' <= toGui[i + 1].frame
      BY <2>1, <2>5, <3>1, <3>2
    <3>4. latest' \in Nat
      BY <2>1, <2>2, <2>3, <2>5
    <3>. QED
      BY <2>5, <3>1, <3>2, <3>3, <3>4
  <2>. QED
    BY <2>1, <2>2, <2>6 DEF PlotInv
<1>6. CASE RenderLatestFrame \/ SelectFftChannel \/ ResetFft \/ RmsMenu \/
           SetTransforms
  <2>1. UNCHANGED <<toGui, frames, latest>>
    BY <1>6 DEF RenderLatestFrame, Command, SelectFftChannel, ResetFft, RmsMenu,
       SetTransforms
  <2>. QED
    BY <2>1 DEF PlotInv
<1>7. CASE Cleanup(TRUE) \/ Cleanup(FALSE)
  BY <1>7 DEF PlotInv, Cleanup
<1>8. CASE QuitThread \/ WaitWorker \/ StopWriter \/ JoinWriter
  BY <1>8 DEF PlotInv, QuitThread, WaitWorker, StopWriter,
       JoinWriter
<1>. QED
  BY <1>1, <1>2, <1>3, <1>4, <1>5, <1>6, <1>7, <1>8
  DEF Next, Writer, Worker, Gui, User, CloseEvent, AboutToQuit

LEMMA TypeStep ==
  ASSUME OscAssumption, TypeOK, Types, PushInv, PlotInv, [Next]_vars
  PROVE  TypeOK'
<1>1. CASE UNCHANGED vars
  BY <1>1 DEF TypeOK
<1>2. CASE OpenFiles
  <2>1. wr' \in {"init", "get", "write", "done", "killed"} /\ error' \in BOOLEAN
    BY <1>2 DEF TypeOK, OpenFiles
  <2>. QED
    BY <1>2, <2>1 DEF TypeOK, OpenFiles
<1>3. CASE GetFrame
  <2>1. /\ Len(queue) \in Nat \ {0} /\ Len(queue') = Len(queue) - 1
        /\ Head(queue) = queue[1] /\ DOMAIN queue = 1..Len(queue)
        /\ DOMAIN queue' = 1..(Len(queue) - 1)
        /\ \A i \in 1..(Len(queue) - 1) : queue'[i] = queue[i + 1]
    BY <1>3 DEF Types, GetFrame
  <2>2. Len(queue') <= QueueFrames /\ \A i \in DOMAIN queue' : queue'[i] \in 0..frames
    <3>1. QueueFrames \in Nat /\ Len(queue) <= QueueFrames
      BY DEF TypeOK, OscAssumption, Arguments
    <3>2. \A i \in 1..Len(queue) : queue[i] \in 0..frames
      BY <2>1 DEF TypeOK
    <3>3. \A i \in 1..(Len(queue) - 1) : i + 1 \in 1..Len(queue)
      BY <2>1
    <3>. QED
      BY <2>1, <3>1, <3>2, <3>3
  <2>3. item' \in 0..frames /\ k' \in Channel
    <3>1. queue[1] \in 0..frames /\ 1 \in Channel
      BY <2>1 DEF TypeOK, OscAssumption, Arguments, Channel
    <3>. QED
      BY <1>3, <2>1, <3>1 DEF TypeOK, GetFrame
  <2>. QED
    BY <1>3, <2>2, <2>3 DEF TypeOK, GetFrame
<1>4. CASE WriteRecord \/ WriteFails
  <2>1. k' \in Channel
    <3>1. k \in 1..NumChannels /\ NumChannels \in Nat \ {0}
      BY DEF TypeOK, OscAssumption, Arguments, Channel
    <3>2. k' = k \/ (k < NumChannels /\ k' = k + 1) \/ k' = 1
      BY <1>4 DEF WriteRecord, WriteFails
    <3>. QED
      BY <3>1, <3>2 DEF Channel
  <2>2. wr' \in {"get", "write", "done"} /\ error' \in BOOLEAN
    BY <1>4 DEF TypeOK, WriteRecord, WriteFails
  <2>3. UNCHANGED <<item, worker, fft, queue, gui, pushed>>
    BY <1>4 DEF WriteRecord, WriteFails
  <2>. QED
    BY <2>1, <2>2, <2>3 DEF TypeOK
<1>5. CASE StartWorker
  BY <1>5 DEF TypeOK, StartWorker
<1>6. CASE Start
  BY <1>6 DEF TypeOK, Start
<1>7. CASE PollOnce \/ NoFrame \/ ThreadEnds
  BY <1>7 DEF TypeOK, PollOnce, NoFrame, ThreadEnds
<1>8. CASE Frame
  <2>1. Power[<<fftCh, frames + 1>>] \in Nat
    BY <1>8 DEF OscAssumption, PushInv, TypeOK, Frame, Channel
  <2>2. fftFrames % AvgCount \in 0..(AvgCount - 1)
    BY DEF OscAssumption, Arguments, TypeOK
  <2>3. Leaving(fftFrames % AvgCount) \in Int
    BY <2>2 DEF TypeOK, Leaving
  <2>4. sum' \in Int
    BY <1>8, <2>1, <2>3 DEF TypeOK, Frame, UpdateFft
  <2>5. ring' \in [0..(AvgCount - 1) -> Nat]
    BY <1>8, <2>1, <2>2 DEF TypeOK, Frame, UpdateFft
  <2>6. fftFrames' \in 0..frames' /\ fftCh' = fftCh
    BY <1>8 DEF TypeOK, Frame, UpdateFft
  <2>7. frames' = frames + 1 /\ frames < MaxFrames
    BY <1>8 DEF Frame, PushInv
  <2>8. \A v \in 0..frames : v \in 0..frames'
    BY <2>7 DEF TypeOK
  <2>9. \A i \in DOMAIN queue : queue[i] \in 0..frames'
    BY <2>8 DEF TypeOK
  <2>10. frames' \in 0..MaxFrames /\ pushed \in 0..frames'
    BY <2>7 DEF TypeOK, OscAssumption
  <2>. QED
    BY <1>8, <2>4, <2>5, <2>6, <2>8, <2>9, <2>10 DEF TypeOK, Frame
<1>9. CASE Push
  BY <1>9 DEF TypeOK, Push, Pushed
<1>10. CASE Put
  <2>1. pushed' \in 0..frames
    BY <1>10 DEF TypeOK, Put, PushInv
  <2>2. queue \in Seq(Nat) /\ frames \in Nat /\ frames \in 0..frames
    BY DEF Types, TypeOK
  <2>3. /\ Len(queue') = Len(queue) + 1 /\ DOMAIN queue' = 1..(Len(queue) + 1)
        /\ \A i \in 1..Len(queue) : queue'[i] = queue[i]
        /\ queue'[Len(queue) + 1] = frames
        /\ Len(queue) \in Nat /\ DOMAIN queue = 1..Len(queue)
    BY <1>10, <2>2 DEF Put
  <2>4. \A i \in DOMAIN queue' : queue'[i] \in 0..frames
    BY <2>2, <2>3 DEF TypeOK
  <2>5. Len(queue') <= QueueFrames
    BY <1>10, <2>3 DEF Put, OscAssumption, Arguments
  <2>6. stopEvt' \in BOOLEAN /\ timer' \in BOOLEAN
    BY <1>10 DEF TypeOK, Put, Pushed
  <2>. QED
    BY <1>10, <2>1, <2>4, <2>5, <2>6 DEF TypeOK, Put
<1>11. CASE QueueFull
  <2>1. stopEvt' \in BOOLEAN /\ timer' \in BOOLEAN /\ saving' \in BOOLEAN
    BY <1>11 DEF TypeOK, QueueFull, Pushed
  <2>. QED
    BY <1>11, <2>1 DEF TypeOK, QueueFull
<1>12. CASE HandleSlot
  <2>1. Head(toWorker) \in WorkerSignal
    BY <1>12 DEF Types, HandleSlot
  <2>2. fftCh' \in Channel
    BY <1>12, <2>1 DEF TypeOK, HandleSlot, WorkerSignal
  <2>3. /\ sum' \in Int /\ fftFrames' \in 0..frames
        /\ ring' \in [0..(AvgCount - 1) -> Nat]
    <3>1. \/ ClearFft
          \/ UNCHANGED <<ring, sum, fftFrames>>
      BY <1>12 DEF HandleSlot
    <3>. QED
      BY <3>1 DEF TypeOK, ClearFft
  <2>4. stopEvt' \in BOOLEAN /\ timer' \in BOOLEAN
    BY <1>12 DEF TypeOK, HandleSlot
  <2>. QED
    BY <1>12, <2>2, <2>3, <2>4 DEF TypeOK, HandleSlot
<1>13. CASE HandleSignal
  <2>1. /\ Head(toGui) = toGui[1] /\ 1 \in DOMAIN toGui /\ 1 \in 1..1
        /\ toGui[1] \in GuiSignal
    BY <1>13 DEF Types, HandleSignal
  <2>2. latest' = latest \/ (toGui[1].type = "plot" /\ latest' = toGui[1].frame)
    BY <1>13, <2>1 DEF HandleSignal
  <2>3. latest' \in 0..frames /\ rendered \in 0..latest'
    BY <2>1, <2>2 DEF TypeOK, PlotInv
  <2>. QED
    BY <1>13, <2>3 DEF TypeOK, HandleSignal
<1>14. CASE RenderLatestFrame
  <2>1. rendered' \in 0..latest
    BY <1>14 DEF TypeOK, RenderLatestFrame
  <2>. QED
    BY <1>14, <2>1 DEF TypeOK, RenderLatestFrame
<1>15. CASE SelectFftChannel \/ ResetFft \/ RmsMenu \/ SetTransforms
  <2>1. /\ title' \in Channel /\ view' \in Transforms
        /\ UNCHANGED <<worker, fft, queue, writer, gpc, latest, rendered, pushed>>
    BY <1>15 DEF TypeOK, Command, SelectFftChannel, ResetFft, RmsMenu,
       SetTransforms
  <2>. QED
    BY <2>1 DEF TypeOK
<1>16. CASE Cleanup(TRUE) \/ Cleanup(FALSE)
  BY <1>16 DEF TypeOK, Cleanup
<1>17. CASE QuitThread \/ WaitWorker \/ JoinWriter
  BY <1>17 DEF TypeOK, QuitThread, WaitWorker, JoinWriter
<1>18. CASE StopWriter
  <2>1. queue \in Seq(Nat) /\ Sentinel \in 0..frames /\ Sentinel \in Nat
    BY DEF Types, TypeOK, Sentinel
  <2>2. Len(queue') <= QueueFrames /\ \A i \in DOMAIN queue' : queue'[i] \in 0..frames
    <3>1. CASE queue' = queue
      BY <3>1 DEF TypeOK
    <3>2. CASE Len(queue) < QueueFrames /\ queue' = Append(queue, Sentinel)
      <4>1. /\ Len(queue') = Len(queue) + 1 /\ DOMAIN queue' = 1..(Len(queue) + 1)
            /\ \A i \in 1..Len(queue) : queue'[i] = queue[i]
            /\ queue'[Len(queue) + 1] = Sentinel
            /\ Len(queue) \in Nat /\ DOMAIN queue = 1..Len(queue)
        BY <2>1, <3>2
      <4>. QED
        <5>1. QueueFrames \in Nat /\ \A i \in 1..Len(queue) : queue[i] \in 0..frames
          BY <4>1 DEF TypeOK, OscAssumption, Arguments
        <5>2. Len(queue') <= QueueFrames
          <6>. DEFINE n == Len(queue)
          <6>1. n \in Nat /\ n < QueueFrames /\ Len(queue') = n + 1
            BY <3>2, <4>1
          <6>. HIDE DEF n
          <6>. QED
            BY <5>1, <6>1
        <5>3. \A i \in 1..(Len(queue) + 1) : i \in 1..Len(queue) \/ i = Len(queue) + 1
          BY <4>1
        <5>4. \A i \in 1..(Len(queue) + 1) : queue'[i] \in 0..frames
          BY <2>1, <4>1, <5>1, <5>3
        <5>. QED
          BY <4>1, <5>2, <5>4
    <3>. QED
      BY <1>18, <3>1, <3>2 DEF StopWriter
  <2>. QED
    BY <1>18, <2>2 DEF TypeOK, StopWriter
<1>. QED
  BY <1>1, <1>2, <1>3, <1>4, <1>5, <1>6, <1>7, <1>8, <1>9, <1>10, <1>11, <1>12,
     <1>13, <1>14, <1>15, <1>16, <1>17, <1>18
  DEF Next, Writer, Worker, Gui, User, CloseEvent, AboutToQuit

(* A record is written behind the data of an earlier run.                  *)
LEMMA BaseAppend ==
  ASSUME append \in BOOLEAN, NEW f \in Seq(Int), NEW h \in Seq(Int), NEW e \in Int,
         Len(h) = Len(f) + 1, h[Len(f) + 1] = e,
         \A i \in 1..Len(f) : h[i] = f[i]
  PROVE  Append(Base \o f, e) = Base \o h /\ (Base \o f) \o <<e>> = Base \o h
<1>. DEFINE g == Base \o f
            x == Append(g, e)
            y == Base \o h
            z == g \o <<e>>
            n == Len(f)
            o == IF append THEN 1 ELSE 0
<1>1. ASSUME NEW s \in Seq(Int)
      PROVE  /\ Base \o s \in Seq(Int) /\ Len(Base \o s) = Len(s) + o
             /\ append => (Base \o s)[1] = Old
             /\ \A i \in 1..Len(s) : (Base \o s)[i + o] = s[i]
  <2>1. CASE append
    <3>1. Base = <<Old>> /\ Old \in Int
      BY <2>1 DEF Base, Old
    <3>. QED
      BY <2>1, <3>1
  <2>2. CASE ~append
    <3>1. Base = <<>>
      BY <2>2 DEF Base
    <3>. QED
      BY <2>2, <3>1
  <2>. QED
    BY <2>1, <2>2
<1>2. /\ g \in Seq(Int) /\ Len(g) = n + o
      /\ append => g[1] = Old
      /\ \A i \in 1..n : g[i + o] = f[i]
  BY <1>1
<1>3. /\ y \in Seq(Int) /\ Len(y) = n + 1 + o
      /\ append => y[1] = Old
      /\ \A i \in 1..(n + 1) : y[i + o] = h[i]
  BY <1>1
<1>. HIDE DEF g, y
<1>4. /\ x \in Seq(Int) /\ Len(x) = Len(g) + 1 /\ x[Len(g) + 1] = e
      /\ \A i \in 1..Len(g) : x[i] = g[i]
  BY <1>2
<1>5. /\ z \in Seq(Int) /\ Len(z) = Len(g) + 1 /\ z[Len(g) + 1] = e
      /\ \A i \in 1..Len(g) : z[i] = g[i]
  BY <1>2
<1>6. n \in Nat /\ o \in {0, 1} /\ (o = 1 <=> append)
  OBVIOUS
<1>. HIDE DEF x, z, n, o
<1>7. ASSUME NEW i \in 1..(n + 1 + o)
      PROVE  y[i] = IF i = n + 1 + o THEN e ELSE g[i]
  <2>1. CASE i = n + 1 + o
    BY <1>3, <1>6, <2>1 DEF n
  <2>2. CASE i <= n + o /\ i > o
    <3>1. i - o \in 1..n /\ i - o \in 1..(n + 1) /\ i = (i - o) + o
      BY <1>6, <2>2
    <3>2. y[i] = h[i - o] /\ g[i] = f[i - o] /\ h[i - o] = f[i - o]
      BY <1>2, <1>3, <3>1 DEF n
    <3>. QED
      BY <1>6, <2>2, <3>2
  <2>3. CASE i <= o
    BY <1>2, <1>3, <1>6, <2>3
  <2>. QED
    BY <1>6, <2>1, <2>2, <2>3
<1>8. x = y
  <2>1. Len(x) = Len(y) /\ \A i \in 1..Len(x) : x[i] = y[i]
    BY <1>2, <1>3, <1>4, <1>6, <1>7
  <2>. QED
    BY <1>3, <1>4, <2>1, SeqEqual
<1>9. z = y
  <2>1. Len(z) = Len(y) /\ \A i \in 1..Len(z) : z[i] = y[i]
    BY <1>2, <1>3, <1>5, <1>6, <1>7
  <2>. QED
    BY <1>3, <1>5, <2>1, SeqEqual
<1>. QED
  BY <1>8, <1>9 DEF x, y, z, g

(* The files as the writer leaves them: one more record, or part of it.    *)
LEMMA BaseFacts ==
  ASSUME append \in BOOLEAN, NEW m \in Nat
  PROVE  /\ Base \o FirstFrames(0) = Base
         /\ (Base \o FirstFrames(m)) \o <<m + 1>> = Base \o FirstFrames(m + 1)
         /\ Append(Base \o FirstFrames(m), Partial)
              = Base \o Append(FirstFrames(m), Partial)
<1>. DEFINE f == FirstFrames(m)
            h == FirstFrames(m + 1)
            p == Append(f, Partial)
<1>1. /\ f \in Seq(Int) /\ Len(f) = m /\ \A i \in 1..m : f[i] = i
      /\ h \in Seq(Int) /\ Len(h) = m + 1 /\ \A i \in 1..(m + 1) : h[i] = i
  BY DEF FirstFrames
<1>2. Base \o FirstFrames(0) = Base
  <2>1. Base \in Seq(Int)
    BY DEF Base, Old
  <2>2. FirstFrames(0) = <<>>
    BY DEF FirstFrames
  <2>. QED
    BY <2>1, <2>2
<1>. HIDE DEF f, h
<1>3. Partial \in Int /\ m + 1 \in Int
  BY DEF Partial
<1>4. /\ p \in Seq(Int) /\ Len(p) = m + 1 /\ p[m + 1] = Partial
      /\ \A i \in 1..m : p[i] = f[i]
  BY <1>1, <1>3
<1>. HIDE DEF p
<1>5. Append(Base \o f, Partial) = Base \o p
  BY <1>1, <1>3, <1>4, BaseAppend
<1>6. (Base \o f) \o <<m + 1>> = Base \o h
  <2>1. /\ Len(h) = Len(f) + 1 /\ h[Len(f) + 1] = m + 1
        /\ \A i \in 1..Len(f) : h[i] = f[i]
    BY <1>1
  <2>. QED
    BY <1>1, <1>3, <2>1, BaseAppend
<1>. QED
  BY <1>2, <1>5, <1>6 DEF f, h, p

(* The next frame, and nothing else, moves from the queue to the writer    *)
(* and from there to one channel after the other.                          *)
LEMMA WriterStep ==
  ASSUME OscAssumption, TypeOK, Types, PushInv, WriterInv, [Next]_vars
  PROVE  WriterInv'
<1>. USE DEF Written
<1>1. CASE UNCHANGED vars
  BY <1>1 DEF WriterInv, Base
<1>2. CASE OpenFiles
  <2>1. append' = append /\ queue' = queue /\ pushed' = pushed /\ wr' # "init"
    BY <1>2 DEF OpenFiles
  <2>2. CASE wr' = "get"
    <3>1. files' = IF append THEN files ELSE [c \in Channel |-> <<>>]
      BY <1>2, <2>2 DEF OpenFiles
    <3>2. files = [c \in Channel |-> <<Old>>] /\ InOrder(queue, 0, pushed)
      BY <1>2 DEF OpenFiles, WriterInv
    <3>3. \A c \in Channel : files'[c] = Base
      BY <3>1, <3>2 DEF Base, Types
    <3>4. Base' = Base /\ Base = Base \o FirstFrames(0)
      BY <2>1, BaseFacts DEF Base, Types
    <3>5. 0 \in Nat /\ Written(0)'
      BY <2>1, <2>2, <3>2, <3>3, <3>4
    <3>. QED
      BY <2>2, <3>5 DEF WriterInv
  <2>3. CASE wr' = "done"
    BY <2>3 DEF WriterInv
  <2>. QED
    BY <1>2, <2>2, <2>3 DEF OpenFiles
<1>3. CASE GetFrame
  <2>1. /\ append' = append /\ queue' = Tail(queue) /\ pushed' = pushed
        /\ files' = files /\ wr = "get" /\ queue # <<>>
    BY <1>3 DEF GetFrame
  <2>2. CASE Head(queue) = Sentinel
    BY <1>3, <2>2 DEF GetFrame, WriterInv
  <2>3. CASE Head(queue) # Sentinel
    <3>1. PICK m \in Nat : Written(m)
      BY <2>1 DEF WriterInv
    <3>2. wr' = "write" /\ item' = Head(queue) /\ k' = 1
      BY <1>3, <2>3 DEF GetFrame
    <3>3. queue \in Seq(Nat) /\ pushed \in Nat /\ InOrder(queue, m, pushed)
      BY <2>1, <3>1 DEF Types, TypeOK
    <3>4. Head(queue) = m + 1 /\ InOrder(Tail(queue), m + 1, pushed)
      BY <2>1, <2>3, <3>3, InOrderTail
    <3>5. Base' = Base /\ \A c \in Channel : files[c] = Base \o FirstFrames(m) /\ ~(c < 1)
      BY <2>1, <3>1 DEF Base, Channel
    <3>6. Written(m)'
      BY <2>1, <3>2, <3>4, <3>5
    <3>. QED
      BY <3>2, <3>6 DEF WriterInv
  <2>. QED
    BY <2>2, <2>3
<1>4. CASE WriteRecord
  <2>1. /\ append' = append /\ queue' = queue /\ pushed' = pushed
        /\ item' = item /\ wr = "write"
        /\ files' = [files EXCEPT ![k] = files[k] \o <<item>>]
    BY <1>4 DEF WriteRecord, Record
  <2>2. PICK m \in Nat : Written(m)
    BY <2>1 DEF WriterInv
  <2>3. k \in Channel /\ NumChannels \in Nat /\ files \in [Channel -> Seq(Int)]
    BY DEF TypeOK, Types, OscAssumption, Arguments
  <2>4. item = m + 1 /\ files[k] = Base \o FirstFrames(m) /\ InOrder(queue, m + 1, pushed)
    BY <2>1, <2>2, <2>3 DEF Channel
  <2>5. files[k] \o <<item>> = Base \o FirstFrames(m + 1)
    BY <2>4, BaseFacts DEF Types
  <2>6. /\ files'[k] = Base \o FirstFrames(m + 1)
        /\ \A c \in Channel \ {k} : files'[c] = files[c]
    BY <2>1, <2>3, <2>5
  <2>7. Base' = Base
    BY <2>1 DEF Base
  <2>8. \A c \in Channel : files'[c] = Base \o FirstFrames(IF c < k + 1 THEN m + 1 ELSE m)
    <3>1. ASSUME NEW c \in Channel, c = k
          PROVE  files'[c] = Base \o FirstFrames(m + 1) /\ c < k + 1
      BY <2>3, <2>6, <3>1 DEF Channel
    <3>2. ASSUME NEW c \in Channel, c # k
          PROVE  /\ files'[c] = Base \o FirstFrames(IF c < k THEN m + 1 ELSE m)
                 /\ c < k <=> c < k + 1
      <4>1. c < k <=> c < k + 1
        BY <2>3, <3>2 DEF Channel
      <4>2. files'[c] = files[c]
        BY <2>6, <3>2
      <4>. QED
        BY <2>1, <2>2, <4>1, <4>2
    <3>. QED
      BY <3>1, <3>2, Zenon
  <2>9. CASE k < NumChannels
    <3>1. k' = k + 1 /\ wr' = "write"
      BY <1>4, <2>9 DEF WriteRecord
    <3>2. Written(m)'
      BY <2>1, <2>4, <2>7, <2>8, <3>1
    <3>. QED
      BY <3>1, <3>2 DEF WriterInv
  <2>10. CASE ~(k < NumChannels)
    <3>1. wr' = "get"
      BY <1>4, <2>10 DEF WriteRecord
    <3>2. \A c \in Channel : c < k + 1
      BY <2>3, <2>10 DEF Channel
    <3>3. \A c \in Channel : files'[c] = Base' \o FirstFrames(m + 1)
      BY <2>7, <2>8, <3>2
    <3>4. InOrder(queue', m + 1, pushed')
      BY <2>1, <2>4
    <3>5. m + 1 \in Nat /\ Written(m + 1)'
      BY <3>1, <3>3, <3>4
    <3>. QED
      BY <3>1, <3>5 DEF WriterInv
  <2>. QED
    BY <2>9, <2>10
<1>5. CASE WriteFails
  BY <1>5 DEF WriterInv, WriteFails
<1>6. CASE Put
  <2>1. /\ UNCHANGED <<append, wr, item, k, files>>
        /\ queue' = Append(queue, frames) /\ pushed' = pushed + 1
        /\ frames = pushed + 1
    BY <1>6 DEF Put, PushInv, TypeOK
  <2>2. queue \in Seq(Nat) /\ pushed \in Nat /\ Base' = Base
    BY <2>1 DEF Types, TypeOK, Base
  <2>3. \A n \in Nat : InOrder(queue, n, pushed) => InOrder(queue', n, pushed')
    BY <2>1, <2>2, InOrderAppend
  <2>4. ASSUME NEW m \in Nat, Written(m) PROVE Written(m)'
    <3>1. (IF wr = "write" THEN m + 1 ELSE m) \in Nat
      OBVIOUS
    <3>. QED
      BY <2>1, <2>2, <2>3, <2>4, <3>1
  <2>. QED
    BY <2>1, <2>3, <2>4 DEF WriterInv
<1>7. CASE StopWriter
  <2>1. /\ UNCHANGED <<append, wr, item, k, files, pushed>>
        /\ queue' = queue \/ queue' = Append(queue, Sentinel)
    BY <1>7 DEF StopWriter
  <2>2. queue \in Seq(Nat) /\ pushed \in Nat /\ Base' = Base
    BY <2>1 DEF Types, TypeOK, Base
  <2>3. \A n \in Nat : InOrder(queue, n, pushed) => InOrder(queue', n, pushed)
    BY <2>1, <2>2, InOrderAppend
  <2>4. ASSUME NEW m \in Nat, Written(m) PROVE Written(m)'
    <3>1. (IF wr = "write" THEN m + 1 ELSE m) \in Nat
      OBVIOUS
    <3>. QED
      BY <2>1, <2>2, <2>3, <2>4, <3>1
  <2>. QED
    BY <2>1, <2>3, <2>4 DEF WriterInv
<1>8. CASE JoinWriter
  <2>1. wr' = "done" \/ wr' = "killed"
    BY <1>8 DEF JoinWriter
  <2>. QED
    BY <2>1 DEF WriterInv
<1>9. CASE StartWorker \/ Start \/ PollOnce \/ NoFrame \/ Frame \/ Push \/
           QueueFull \/ HandleSlot \/ ThreadEnds
  <2>1. UNCHANGED <<append, writer, queue, pushed>>
    BY <1>9 DEF StartWorker, Start, PollOnce, NoFrame, Frame, Push, QueueFull,
       HandleSlot, ThreadEnds
  <2>. QED
    BY <2>1 DEF WriterInv, Base
<1>10. CASE HandleSignal \/ RenderLatestFrame \/ SelectFftChannel \/
           ResetFft \/ RmsMenu \/ SetTransforms
  <2>1. UNCHANGED <<append, writer, queue, pushed>>
    BY <1>10 DEF HandleSignal, RenderLatestFrame, Command, SelectFftChannel,
       ResetFft,
       RmsMenu, SetTransforms
  <2>. QED
    BY <2>1 DEF WriterInv, Base
<1>11. CASE Cleanup(TRUE) \/ Cleanup(FALSE) \/ QuitThread \/ WaitWorker
  <2>1. UNCHANGED <<append, writer, queue, pushed>>
    BY <1>11 DEF Cleanup, QuitThread, WaitWorker
  <2>. QED
    BY <2>1 DEF WriterInv, Base
<1>. QED
  BY <1>1, <1>2, <1>3, <1>4, <1>5, <1>6, <1>7, <1>8, <1>9, <1>10, <1>11
  DEF Next, Writer, Worker, Gui, User, CloseEvent, AboutToQuit

(* However the writer ends, all channels are within one record.            *)
LEMMA EndedStep ==
  ASSUME OscAssumption, TypeOK, Types, PushInv, WriterInv, EndedInv, [Next]_vars
  PROVE  EndedInv'
<1>. USE DEF EndedAt
<1>0. ASSUME NEW m \in Nat, Written(m), wr \in {"get", "write"}
      PROVE  m \in 0..pushed /\ EndedAt(m) /\ (wr = "write" => m < pushed)
  <2>1. pushed \in Nat
    BY DEF TypeOK
  <2>2. CASE wr = "get"
    <3>1. m <= pushed
      BY <1>0, <2>2 DEF Written, InOrder
    <3>. QED
      BY <1>0, <2>1, <2>2, <3>1 DEF Written
  <2>3. CASE wr = "write"
    <3>1. m + 1 <= pushed
      BY <1>0, <2>3 DEF Written, InOrder
    <3>2. m < pushed /\ m \in 0..pushed
      BY <2>1, <3>1
    <3>3. \A c \in Channel : files[c] = Base \o FirstFrames(IF c < k THEN m + 1 ELSE m)
      BY <1>0, <2>3 DEF Written
    <3>. QED
      BY <3>2, <3>3, Zenon
  <2>. QED
    BY <1>0, <2>2, <2>3
<1>1. CASE UNCHANGED vars
  BY <1>1 DEF EndedInv, Base
<1>2. CASE OpenFiles
  <2>1. CASE wr' = "get"
    BY <2>1 DEF EndedInv
  <2>2. CASE wr' = "done"
    <3>1. NumChannels \in Nat \ {0} /\ files = [c \in Channel |-> <<Old>>]
      BY <1>2 DEF OpenFiles, WriterInv, OscAssumption, Arguments
    <3>2. PICK opened \in 0..(NumChannels - 1) :
            files' = [c \in Channel |->
                        IF c <= opened /\ ~append THEN <<>> ELSE files[c]]
      BY <1>2, <2>2 DEF OpenFiles
    <3>3. NumChannels \in Channel /\ ~(NumChannels <= opened)
      BY <3>1 DEF Channel
    <3>4. files'[NumChannels] = <<Old>>
      BY <3>1, <3>2, <3>3
    <3>. QED
      BY <3>3, <3>4 DEF EndedInv
  <2>. QED
    BY <1>2, <2>1, <2>2 DEF OpenFiles
<1>3. CASE GetFrame
  <2>1. UNCHANGED <<append, files, pushed>> /\ wr = "get"
    BY <1>3 DEF GetFrame
  <2>2. PICK m \in Nat : Written(m)
    BY <2>1 DEF WriterInv
  <2>3. m \in 0..pushed /\ EndedAt(m)
    BY <1>0, <2>1, <2>2
  <2>4. EndedAt(m)'
    BY <2>1, <2>3 DEF Base
  <2>. QED
    BY <2>1, <2>3, <2>4 DEF EndedInv
<1>4. CASE WriteRecord
  BY <1>4 DEF EndedInv, WriteRecord
<1>5. CASE WriteFails
  <2>1. /\ UNCHANGED <<append, pushed>> /\ wr = "write"
        /\ files' \in {files, [files EXCEPT ![k] = Append(files[k], Partial)]}
    BY <1>5 DEF WriteFails
  <2>2. PICK m \in Nat : Written(m)
    BY <2>1 DEF WriterInv
  <2>3. m \in 0..pushed /\ EndedAt(m)
    BY <1>0, <2>1, <2>2
  <2>4. k \in Channel /\ files \in [Channel -> Seq(Int)]
    BY DEF TypeOK, Types
  <2>5. files[k] = Base \o FirstFrames(m)
    BY <2>1, <2>2, <2>4 DEF Written, Channel
  <2>6. Append(files[k], Partial) = Base \o Append(FirstFrames(m), Partial)
    BY <2>5, BaseFacts DEF Types
  <2>7. \A c \in Channel : files'[c] = files[c] \/
          files'[c] = Base \o Append(FirstFrames(m), Partial)
    BY <2>1, <2>4, <2>6
  <2>8. Base' = Base
    BY <2>1 DEF Base
  <2>9. EndedAt(m)'
    BY <2>1, <2>3, <2>7, <2>8
  <2>. QED
    BY <2>1, <2>3, <2>9 DEF EndedInv
<1>6. CASE Put
  <2>1. UNCHANGED <<append, wr, files>> /\ pushed' = pushed + 1 /\ pushed \in Nat
    BY <1>6 DEF Put, TypeOK
  <2>2. ASSUME NEW m \in 0..pushed, EndedAt(m) PROVE m \in 0..pushed' /\ EndedAt(m)'
    <3>1. m \in 0..pushed' /\ (m < pushed => m < pushed') /\ Base' = Base
      BY <2>1 DEF Base
    <3>. QED
      BY <2>1, <2>2, <3>1, Zenon
  <2>. QED
    BY <2>1, <2>2 DEF EndedInv
<1>7. CASE JoinWriter
  <2>1. UNCHANGED <<append, files, pushed>> /\ (wr = "done" \/ wr' = "killed")
    BY <1>7 DEF JoinWriter
  <2>2. CASE wr \in {"done", "killed"}
    BY <2>1, <2>2 DEF EndedInv, Base
  <2>3. CASE wr = "init"
    <3>1. 1 \in Channel /\ files[1] = <<Old>>
      BY <2>3 DEF WriterInv, OscAssumption, Arguments, Channel
    <3>. QED
      BY <2>1, <3>1 DEF EndedInv
  <2>4. CASE wr \in {"get", "write"}
    <3>1. PICK m \in Nat : Written(m)
      BY <2>4 DEF WriterInv
    <3>2. m \in 0..pushed /\ EndedAt(m)
      BY <1>0, <2>4, <3>1
    <3>3. EndedAt(m)'
      BY <2>1, <3>2 DEF Base
    <3>. QED
      BY <2>1, <3>2, <3>3 DEF EndedInv
  <2>. QED
    BY <2>2, <2>3, <2>4 DEF TypeOK
<1>8. CASE StartWorker \/ Start \/ PollOnce \/ NoFrame \/ Frame \/ Push \/
           QueueFull \/ HandleSlot \/ ThreadEnds
  <2>1. UNCHANGED <<append, writer, pushed>>
    BY <1>8 DEF StartWorker, Start, PollOnce, NoFrame, Frame, Push, QueueFull,
       HandleSlot, ThreadEnds
  <2>. QED
    BY <2>1 DEF EndedInv, Base
<1>9. CASE HandleSignal \/ RenderLatestFrame \/ SelectFftChannel \/
           ResetFft \/ RmsMenu \/ SetTransforms
  <2>1. UNCHANGED <<append, writer, pushed>>
    BY <1>9 DEF HandleSignal, RenderLatestFrame, Command, SelectFftChannel,
       ResetFft,
       RmsMenu, SetTransforms
  <2>. QED
    BY <2>1 DEF EndedInv, Base
<1>10. CASE Cleanup(TRUE) \/ Cleanup(FALSE) \/ QuitThread \/ WaitWorker \/
           StopWriter
  <2>1. UNCHANGED <<append, writer, pushed>>
    BY <1>10 DEF Cleanup, QuitThread, WaitWorker, StopWriter
  <2>. QED
    BY <2>1 DEF EndedInv, Base
<1>. QED
  BY <1>1, <1>2, <1>3, <1>4, <1>5, <1>6, <1>7, <1>8, <1>9, <1>10
  DEF Next, Writer, Worker, Gui, User, CloseEvent, AboutToQuit

(* Nothing follows the sentinel unless a wait has given up.                *)
LEMMA SentinelStep ==
  ASSUME OscAssumption, TypeOK, Types, PushInv, EndInv, SentinelInv, [Next]_vars
  PROVE  SentinelInv'
<1>0. queue \in Seq(Nat) /\ Len(queue) \in Nat /\ DOMAIN queue = 1..Len(queue)
  BY DEF Types
<1>1. CASE UNCHANGED vars
  BY <1>1 DEF SentinelInv
<1>2. CASE GetFrame
  <2>. DEFINE L == Len(queue)
  <2>1. UNCHANGED <<gpc, gaveUp>> /\ queue' = Tail(queue) /\ queue # <<>>
    BY <1>2 DEF GetFrame
  <2>2. /\ L \in Nat \ {0} /\ Len(queue') = L - 1 /\ DOMAIN queue' = 1..(L - 1)
        /\ \A i \in 1..(L - 1) : queue'[i] = queue[i + 1]
    BY <2>1 DEF Types
  <2>3. \A i \in 1..L : queue[i] = Sentinel =>
          gpc \in {"join", "closed"} /\ (~gaveUp => i = L)
    BY <1>0 DEF SentinelInv
  <2>. HIDE DEF L
  <2>4. ASSUME NEW i \in 1..(L - 1), queue'[i] = Sentinel
        PROVE  gpc \in {"join", "closed"} /\ (~gaveUp => i = L - 1)
    <3>1. i + 1 \in 1..L /\ queue[i + 1] = Sentinel
      BY <2>2, <2>4
    <3>2. gpc \in {"join", "closed"} /\ (~gaveUp => i + 1 = L)
      BY <2>3, <3>1
    <3>. QED
      BY <2>2, <3>2
  <2>. QED
    BY <2>1, <2>2, <2>4 DEF SentinelInv
<1>3. CASE Put
  <2>. DEFINE L == Len(queue)
  <2>1. UNCHANGED <<gpc, gaveUp>> /\ queue' = Append(queue, frames) /\ wpc = "put"
    BY <1>3 DEF Put
  <2>2. frames \in Nat /\ frames # Sentinel
    BY <2>1 DEF PushInv, TypeOK, Sentinel
  <2>3. /\ L \in Nat /\ DOMAIN queue' = 1..(L + 1) /\ Len(queue') = L + 1
        /\ \A i \in 1..L : queue'[i] = queue[i]
        /\ queue'[L + 1] = frames
    BY <2>1, <2>2 DEF Types
  <2>4. gpc \in {"join", "closed"} => gaveUp
    BY <2>1 DEF EndInv, Types
  <2>5. \A i \in 1..L : queue[i] = Sentinel => gpc \in {"join", "closed"}
    BY <1>0 DEF SentinelInv
  <2>. HIDE DEF L
  <2>6. \A i \in 1..(L + 1) : queue'[i] = Sentinel => gpc \in {"join", "closed"}
    BY <2>2, <2>3, <2>5
  <2>. QED
    BY <2>1, <2>3, <2>4, <2>6 DEF SentinelInv
<1>4. CASE StopWriter
  <2>. DEFINE L == Len(queue)
  <2>1. /\ gpc = "stop" /\ gpc' = "join"
        /\ queue' = queue \/ queue' = Append(queue, Sentinel)
    BY <1>4 DEF StopWriter
  <2>2. \A i \in 1..L : queue[i] # Sentinel
    BY <1>0, <2>1 DEF SentinelInv
  <2>3. CASE queue' = queue
    BY <1>0, <2>2, <2>3 DEF SentinelInv
  <2>4. CASE queue' = Append(queue, Sentinel)
    <3>1. /\ DOMAIN queue' = 1..(L + 1) /\ Len(queue') = L + 1
          /\ \A i \in 1..L : queue'[i] = queue[i]
          /\ L \in Nat
      BY <2>4 DEF Sentinel, Types
    <3>. HIDE DEF L
    <3>2. \A i \in 1..(L + 1) : queue'[i] = Sentinel => i = L + 1
      BY <2>2, <3>1
    <3>. QED
      BY <2>1, <3>1, <3>2 DEF SentinelInv
  <2>. QED
    BY <2>1, <2>3, <2>4
<1>5. CASE WaitWorker \/ JoinWriter
  <2>1. /\ queue' = queue /\ (gaveUp => gaveUp')
        /\ gpc \in {"join", "closed"} => gpc' \in {"join", "closed"}
    BY <1>5 DEF WaitWorker, JoinWriter
  <2>. QED
    BY <2>1 DEF SentinelInv, Types
<1>6. CASE StartWorker \/ Cleanup(TRUE) \/ Cleanup(FALSE) \/ QuitThread
  <2>1. queue' = queue /\ gpc \notin {"join", "closed"}
    BY <1>6 DEF StartWorker, Cleanup, QuitThread
  <2>. QED
    BY <2>1 DEF SentinelInv
<1>7. CASE OpenFiles \/ WriteRecord \/ WriteFails
  <2>1. UNCHANGED <<queue, gpc, gaveUp>>
    BY <1>7 DEF OpenFiles, WriteRecord, WriteFails
  <2>. QED
    BY <2>1 DEF SentinelInv
<1>8. CASE Start \/ PollOnce \/ NoFrame \/ Frame \/ Push \/ QueueFull \/
           HandleSlot \/ ThreadEnds
  <2>1. UNCHANGED <<queue, gpc, gaveUp>>
    BY <1>8 DEF Start, PollOnce, NoFrame, Frame, Push, QueueFull,
       HandleSlot, ThreadEnds
  <2>. QED
    BY <2>1 DEF SentinelInv
<1>9. CASE HandleSignal \/ RenderLatestFrame \/ SelectFftChannel \/
           ResetFft \/ RmsMenu \/ SetTransforms
  <2>1. UNCHANGED <<queue, gpc, gaveUp>>
    BY <1>9 DEF HandleSignal, RenderLatestFrame, Command, SelectFftChannel,
       ResetFft,
       RmsMenu, SetTransforms
  <2>. QED
    BY <2>1 DEF SentinelInv
<1>. QED
  BY <1>1, <1>2, <1>3, <1>4, <1>5, <1>6, <1>7, <1>8, <1>9
  DEF Next, Writer, Worker, Gui, User, CloseEvent, AboutToQuit

(* A writer that ended without an error has met the sentinel, and so       *)
(* everything that was queued before it.                                   *)
LEMMA EndStep ==
  ASSUME OscAssumption, TypeOK, Types, PushInv, WriterInv, SentinelInv, EndInv,
         [Next]_vars
  PROVE  EndInv'
<1>1. CASE UNCHANGED vars
  BY <1>1 DEF EndInv, Base
<1>2. CASE OpenFiles
  BY <1>2 DEF EndInv, OpenFiles
<1>3. CASE GetFrame
  <2>1. UNCHANGED <<wpc, gpc, gaveUp, error, files, append, pushed>> /\ wr = "get"
        /\ queue # <<>>
    BY <1>3 DEF GetFrame
  <2>2. CASE Head(queue) # Sentinel
    BY <1>3, <2>1, <2>2 DEF GetFrame, EndInv
  <2>3. CASE Head(queue) = Sentinel
    <3>1. wr' = "done"
      BY <1>3, <2>3 DEF GetFrame
    <3>2. queue \in Seq(Nat) /\ 1 \in DOMAIN queue /\ queue[1] = Sentinel
      BY <2>1, <2>3 DEF Types
    <3>3. gpc \in {"join", "closed"} /\ (~gaveUp => Len(queue) = 1)
      BY <3>2 DEF SentinelInv
    <3>4. ASSUME ~gaveUp PROVE \A c \in Channel : files[c] = Base \o FirstFrames(pushed)
      <4>1. PICK m \in Nat : Written(m)
        BY <2>1 DEF WriterInv
      <4>2. InOrder(queue, m, pushed) /\ pushed \in Nat
        BY <2>1, <4>1 DEF Written, TypeOK
      <4>3. /\ m <= pushed
            /\ \A v \in (m + 1)..pushed : \E i \in 1..Len(queue) : queue[i] = v
        BY <3>2, <4>2, InOrderForm
      <4>4. pushed = m
        <5>1. CASE m < pushed
          <6>1. m + 1 \in (m + 1)..pushed
            BY <4>2, <5>1
          <6>2. queue[1] = m + 1
            <7>1. PICK i \in 1..Len(queue) : queue[i] = m + 1
              BY <4>3, <6>1
            <7>2. i = 1
              BY <3>3, <3>4
            <7>. QED
              BY <7>1, <7>2
          <6>. QED
            BY <3>2, <6>2 DEF Sentinel
        <5>. QED
          BY <4>2, <4>3, <5>1
      <4>. QED
        BY <2>1, <4>1, <4>4 DEF Written
    <3>. QED
      BY <2>1, <3>1, <3>3, <3>4 DEF EndInv, Base
  <2>. QED
    BY <2>2, <2>3
<1>4. CASE WriteRecord \/ WriteFails
  BY <1>4 DEF EndInv, WriteRecord, WriteFails
<1>5. CASE Put
  <2>1. UNCHANGED <<gpc, gaveUp, error, files, append, wr>> /\ wpc = "put"
    BY <1>5 DEF Put
  <2>2. gpc \in {"stop", "join", "closed"} => gaveUp
    BY <2>1 DEF EndInv, Types
  <2>. QED
    BY <2>1, <2>2 DEF EndInv
<1>6. CASE StartWorker
  BY <1>6 DEF EndInv, StartWorker, Base
<1>7. CASE Start \/ PollOnce \/ NoFrame \/ Frame \/ Push \/ QueueFull \/
           HandleSlot \/ ThreadEnds
  <2>1. UNCHANGED <<gpc, gaveUp, writer, append, pushed>> /\ wpc # "done"
    BY <1>7 DEF Start, PollOnce, NoFrame, Frame, Push, QueueFull, HandleSlot,
       ThreadEnds
  <2>. QED
    BY <2>1 DEF EndInv, Base
<1>8. CASE HandleSignal \/ RenderLatestFrame \/ SelectFftChannel \/
           ResetFft \/ RmsMenu \/ SetTransforms
  <2>1. UNCHANGED <<wpc, gpc, gaveUp, writer, append, pushed>>
    BY <1>8 DEF HandleSignal, RenderLatestFrame, Command, SelectFftChannel,
       ResetFft,
       RmsMenu, SetTransforms
  <2>. QED
    BY <2>1 DEF EndInv, Base
<1>9. CASE Cleanup(TRUE) \/ Cleanup(FALSE) \/ QuitThread
  BY <1>9 DEF EndInv, Base, Cleanup, QuitThread
<1>10. CASE WaitWorker
  BY <1>10 DEF EndInv, Base, WaitWorker
<1>11. CASE StopWriter
  BY <1>11 DEF EndInv, Base, StopWriter
<1>12. CASE JoinWriter
  BY <1>12 DEF EndInv, Base, JoinWriter
<1>. QED
  BY <1>1, <1>2, <1>3, <1>4, <1>5, <1>6, <1>7, <1>8, <1>9, <1>10, <1>11, <1>12
  DEF Next, Writer, Worker, Gui, User, CloseEvent, AboutToQuit

(* A worker that has finished leaves pushed at max_waveforms.              *)
LEMMA FinishStep ==
  ASSUME OscAssumption, TypeOK, Types, PushInv, LimitInv, FinishInv, [Next]_vars
  PROVE  FinishInv'
<1>1. CASE UNCHANGED vars
  BY <1>1 DEF FinishInv, Finished
<1>2. CASE OpenFiles \/ GetFrame \/ WriteRecord \/ WriteFails
  <2>1. /\ UNCHANGED <<worker, toGui, toWorker, gpc, quitTimer, userClosed, pushed>>
        /\ error => error'
    BY <1>2 DEF OpenFiles, GetFrame, WriteRecord, WriteFails
  <2>. QED
    BY <2>1 DEF FinishInv, Finished
<1>3. CASE StartWorker
  <2>1. wpc = "new" /\ ~Finished
    BY <1>3 DEF StartWorker, PushInv, Finished
  <2>2. ~Finished'
    BY <1>3, <2>1 DEF StartWorker, Finished
  <2>. QED
    BY <1>3, <2>2 DEF StartWorker, FinishInv
<1>4. CASE Start
  <2>1. wpc = "new" /\ ~Finished /\ Finished' = Finished
    BY <1>4 DEF Start, PushInv, Finished
  <2>. QED
    BY <1>4, <2>1 DEF Start, FinishInv
<1>5. CASE PollOnce \/ NoFrame
  BY <1>5 DEF PollOnce, NoFrame, FinishInv, Finished
<1>6. CASE ThreadEnds
  BY <1>6 DEF ThreadEnds, FinishInv, Finished
<1>7. CASE Frame
  <2>1. /\ toGui' \in Seq(GuiSignal) /\ toGui \in Seq(GuiSignal)
        /\ \A i \in 1..Len(toGui) : toGui'[i] = toGui[i]
        /\ \A i \in (Len(toGui) + 1)..Len(toGui') : toGui'[i].type # "finished"
    BY <1>7, SignalsPosted DEF Types
  <2>2. Finished' => Finished
    <3>1. /\ DOMAIN toGui' = 1..Len(toGui') /\ DOMAIN toGui = 1..Len(toGui)
          /\ Len(toGui) \in Nat /\ Len(toGui') \in Nat /\ quitTimer' = quitTimer
      BY <1>7, <2>1 DEF Frame
    <3>2. \A i \in 1..Len(toGui') :
            i \in 1..Len(toGui) \/ i \in (Len(toGui) + 1)..Len(toGui')
      BY <3>1
    <3>. QED
      BY <2>1, <3>1, <3>2 DEF Finished
  <2>3. wpc = "request" /\ UNCHANGED <<stopEvt, toWorker, gpc, userClosed>>
    BY <1>7 DEF Frame
  <2>. QED
    BY <2>2, <2>3 DEF FinishInv
<1>8. CASE Push \/ Put \/ QueueFull
  <2>1. /\ wpc \in {"push", "put"}
        /\ UNCHANGED <<toWorker, gpc, userClosed, quitTimer, frames, error>>
    BY <1>8 DEF Push, Put, QueueFull
  <2>2. ~(gpc = "run" /\ Finished) /\ ~(gpc \notin {"init", "run"} /\ ~userClosed)
    BY <2>1 DEF FinishInv
  <2>3. gpc \in {"init", "run"} => ~stopEvt
    BY <2>1 DEF FinishInv
  <2>4. CASE UNCHANGED <<stopEvt, toGui>>
    <3>1. Finished' = Finished
      BY <2>1, <2>4 DEF Finished
    <3>. QED
      BY <2>1, <2>2, <2>3, <2>4, <3>1 DEF FinishInv
  <2>5. CASE ~UNCHANGED <<stopEvt, toGui>>
    <3>1. /\ MaxWaveforms > 0 /\ frames >= MaxWaveforms
          /\ stopEvt' = TRUE /\ wpc' = "loop"
      BY <1>8, <2>5 DEF Push, Put, QueueFull, Pushed
    <3>2. frames = MaxWaveforms
      BY <2>1, <3>1 DEF LimitInv, OscAssumption, Arguments, TypeOK
    <3>3. gpc = "run" => error \/ pushed' = MaxWaveforms
      <4>1. CASE Push
        BY <2>3, <3>1, <4>1 DEF Push, PushInv
      <4>2. CASE Put
        BY <3>2, <4>2 DEF Put, PushInv, TypeOK
      <4>3. CASE QueueFull
        BY <3>1, <4>3 DEF QueueFull
      <4>. QED
        BY <1>8, <4>1, <4>2, <4>3
    <3>. QED
      BY <2>1, <2>2, <3>1, <3>3 DEF FinishInv
  <2>. QED
    BY <2>4, <2>5
<1>9. CASE HandleSlot
  <2>. DEFINE L == Len(toWorker)
  <2>1. /\ UNCHANGED <<wpc, toGui, quitTimer, gpc, userClosed, pushed, error>>
        /\ wpc = "loop" /\ toWorker' = Tail(toWorker) /\ toWorker # <<>>
        /\ stopEvt' = stopEvt \/ stopEvt' = TRUE
    BY <1>9 DEF HandleSlot
  <2>2. /\ L \in Nat \ {0} /\ DOMAIN toWorker = 1..L /\ DOMAIN toWorker' = 1..(L - 1)
        /\ \A i \in 1..(L - 1) : toWorker'[i] = toWorker[i + 1]
    BY <2>1 DEF Types
  <2>. HIDE DEF L
  <2>3. \A i \in 1..(L - 1) : i + 1 \in 1..L
    BY <2>2
  <2>4. gpc \in {"init", "run"} => \A i \in DOMAIN toWorker' : toWorker'[i].type # "stop"
    BY <2>2, <2>3 DEF FinishInv
  <2>5. Finished' = Finished
    BY <2>1 DEF Finished
  <2>. QED
    BY <2>1, <2>4, <2>5 DEF FinishInv, TypeOK
<1>10. CASE HandleSignal
  <2>. DEFINE L == Len(toGui)
  <2>1. /\ UNCHANGED <<worker, toWorker, gpc, userClosed, pushed, error>>
        /\ toGui' = Tail(toGui) /\ toGui # <<>>
        /\ quitTimer' = quitTimer \/ toGui[1].type = "finished"
    BY <1>10 DEF HandleSignal, Types
  <2>2. /\ L \in Nat \ {0} /\ DOMAIN toGui = 1..L /\ DOMAIN toGui' = 1..(L - 1)
        /\ \A i \in 1..(L - 1) : toGui'[i] = toGui[i + 1]
    BY <2>1 DEF Types
  <2>. HIDE DEF L
  <2>3. 1 \in 1..L /\ \A i \in 1..(L - 1) : i + 1 \in 1..L
    BY <2>2
  <2>4. Finished' => Finished
    BY <2>1, <2>2, <2>3 DEF Finished
  <2>. QED
    BY <2>1, <2>4 DEF FinishInv
<1>11. CASE RenderLatestFrame \/ RmsMenu \/ SetTransforms
  <2>1. UNCHANGED <<worker, toGui, toWorker, gpc, quitTimer, userClosed, pushed, error>>
    BY <1>11 DEF RenderLatestFrame, RmsMenu, SetTransforms, Command
  <2>. QED
    BY <2>1 DEF FinishInv, Finished
<1>12. CASE SelectFftChannel \/ ResetFft
  <2>. DEFINE L == Len(toWorker)
  <2>1. UNCHANGED <<worker, toGui, gpc, quitTimer, userClosed, pushed, error>>
    BY <1>12 DEF SelectFftChannel, ResetFft, Command
  <2>2. \E m \in WorkerSignal : m.type # "stop" /\ toWorker' = Append(toWorker, m)
    <3>1. ASSUME NEW c \in Channel
          PROVE  [type |-> "channel", ch |-> c] \in WorkerSignal
      BY DEF WorkerSignal
    <3>2. [type |-> "reset"] \in WorkerSignal
      BY DEF WorkerSignal
    <3>. QED
      BY <1>12, <3>1, <3>2 DEF SelectFftChannel, ResetFft
  <2>3. /\ L \in Nat /\ DOMAIN toWorker = 1..L /\ DOMAIN toWorker' = 1..(L + 1)
        /\ \A i \in 1..L : toWorker'[i] = toWorker[i]
        /\ toWorker'[L + 1].type # "stop"
    BY <2>2 DEF Types
  <2>. HIDE DEF L
  <2>4. \A i \in 1..(L + 1) : i \in 1..L \/ i = L + 1
    BY <2>3
  <2>5. gpc \in {"init", "run"} => \A i \in DOMAIN toWorker' : toWorker'[i].type # "stop"
    BY <2>3, <2>4 DEF FinishInv
  <2>6. Finished' = Finished
    BY <2>1 DEF Finished
  <2>. QED
    BY <2>1, <2>5, <2>6 DEF FinishInv
<1>13. CASE Cleanup(TRUE) \/ Cleanup(FALSE)
  <2>1. /\ gpc = "run" /\ gpc' = "quit" /\ stopEvt' = TRUE
        /\ UNCHANGED <<wpc, error, pushed>>
        /\ ~userClosed' => quitTimer
    BY <1>13 DEF Cleanup
  <2>. QED
    BY <2>1 DEF FinishInv, Finished
<1>14. CASE QuitThread \/ WaitWorker \/ StopWriter \/ JoinWriter
  <2>1. /\ UNCHANGED <<worker, userClosed, error, pushed>>
        /\ gpc \notin {"init", "run"} /\ gpc' \notin {"init", "run"}
    BY <1>14 DEF QuitThread, WaitWorker, StopWriter, JoinWriter
  <2>. QED
    BY <2>1 DEF FinishInv
<1>. QED
  BY <1>1, <1>2, <1>3, <1>4, <1>5, <1>6, <1>7, <1>8, <1>9, <1>10, <1>11, <1>12,
     <1>13, <1>14
  DEF Next, Writer, Worker, Gui, User, CloseEvent, AboutToQuit

(* The invariant holds at the start and is kept.                           *)
LEMMA OscInvInit ==
  ASSUME OscAssumption, Init
  PROVE  OscInv
<1>1. TypeOK
  <2>1. NumChannels \in Nat \ {0} /\ AvgCount \in Nat \ {0} /\ QueueFrames \in Nat
    BY DEF OscAssumption, Arguments
  <2>2. Len(queue) <= QueueFrames /\ \A i \in DOMAIN queue : queue[i] \in 0..frames
    BY <2>1 DEF Init
  <2>3. 1 \in Channel /\ ring \in [0..(AvgCount - 1) -> Nat]
    BY <2>1 DEF Init, Channel
  <2>4. MaxFrames \in Nat /\ DefaultView \in Transforms
    BY DEF OscAssumption
  <2>5. /\ frames \in 0..MaxFrames /\ pushed \in 0..frames /\ fftFrames \in 0..frames
        /\ item \in 0..frames /\ latest \in 0..frames /\ rendered \in 0..latest
        /\ sum \in Int
    BY <2>4 DEF Init
  <2>6. fftCh \in Channel /\ k \in Channel /\ title \in Channel /\ view \in Transforms
    BY <2>3, <2>4 DEF Init
  <2>7. /\ wpc = "new" /\ stopEvt = FALSE /\ timer = FALSE /\ saving = TRUE
        /\ wr = "init" /\ error = FALSE /\ gpc = "init"
    BY DEF Init
  <2>. QED
    BY <2>2, <2>3, <2>5, <2>6, <2>7 DEF TypeOK
<1>2. Types
  <2>1. /\ queue = <<>> /\ toGui = <<>> /\ toWorker = <<>>
        /\ files = [c \in Channel |-> <<Old>>]
    BY DEF Init
  <2>2. /\ quitTimer = FALSE /\ append \in BOOLEAN /\ gaveUp = FALSE
        /\ userClosed = FALSE
    BY DEF Init
  <2>3. files \in [Channel -> Seq(Int)]
    BY <2>1 DEF Old
  <2>4. queue \in Seq(Nat)
    BY <2>1
  <2>5. toGui \in Seq(GuiSignal)
    BY <2>1
  <2>6. toWorker \in Seq(WorkerSignal)
    BY <2>1
  <2>. QED
    BY <2>2, <2>3, <2>4, <2>5, <2>6, Zenon DEF Types
<1>3. PushInv /\ LimitInv /\ PlotInv
  BY DEF Init, PushInv, LimitInv, PlotInv
<1>4. InOrder(queue, 0, pushed)
  <2>1. queue = <<>> /\ pushed = 0
    BY DEF Init
  <2>2. InOrder(<<>>, 0, 0)
    BY DEF InOrder
  <2>. QED
    BY <2>1, <2>2
<1>5. WriterInv /\ EndedInv /\ SentinelInv /\ EndInv
  BY <1>4 DEF Init, WriterInv, EndedInv, SentinelInv, EndInv
<1>6. FinishInv
  BY DEF Init, FinishInv, Finished
<1>. QED
  BY <1>1, <1>2, <1>3, <1>5, <1>6 DEF OscInv

LEMMA OscInvStep ==
  ASSUME OscAssumption, OscInv, [Next]_vars
  PROVE  OscInv'
BY TypeStep, TypesStep, PushStep, LimitStep, PlotStep, WriterStep, EndedStep,
   SentinelStep, EndStep, FinishStep DEF OscInv

(* The parts of RecordingIsFaithful follow from the invariant.             *)
LEMMA SavedFollows ==
  ASSUME OscAssumption, OscInv
  PROVE  SavedOrQueued
<1>. SUFFICES ASSUME wr \in {"get", "write"}, NEW c \in Channel
             PROVE  LET taken == Recorded(c) \o
                          (IF wr = "write" /\ c >= k THEN <<item>> ELSE <<>>)
                    IN  /\ taken = FirstFrames(Len(taken))
                        /\ InOrder(queue, Len(taken), pushed)
  BY DEF SavedOrQueued
<1>1. append \in BOOLEAN /\ c \in Nat /\ k \in Nat
  BY DEF OscInv, Types, TypeOK, Channel
<1>2. PICK m \in Nat : Written(m)
  BY DEF OscInv, WriterInv
<1>3. ASSUME NEW n \in Nat, files[c] = Base \o FirstFrames(n)
      PROVE  Recorded(c) = FirstFrames(n)
  BY <1>1, <1>3, FirstFramesFacts, RecordedIsRest
<1>. DEFINE taken == Recorded(c) \o
                       (IF wr = "write" /\ c >= k THEN <<item>> ELSE <<>>)
            n == IF wr = "write" THEN m + 1 ELSE m
<1>4. taken = FirstFrames(n)
  <2>1. CASE wr = "write" /\ c >= k
    <3>1. Recorded(c) = FirstFrames(m) /\ item = m + 1
      BY <1>1, <1>2, <1>3, <2>1 DEF Written
    <3>2. FirstFrames(m) \o <<m + 1>> = FirstFrames(m + 1)
      BY FirstFramesFacts
    <3>. QED
      BY <2>1, <3>1, <3>2
  <2>2. CASE ~(wr = "write" /\ c >= k)
    <3>1. files[c] = Base \o FirstFrames(n) /\ n \in Nat
      <4>1. files[c] = Base \o FirstFrames(IF wr = "write" /\ c < k THEN m + 1 ELSE m)
        BY <1>2 DEF Written
      <4>2. wr = "write" => c < k
        BY <1>1, <2>2
      <4>. QED
        BY <4>1, <4>2
    <3>2. Recorded(c) = FirstFrames(n) /\ FirstFrames(n) \in Seq(Int)
      BY <1>3, <3>1, FirstFramesFacts
    <3>. HIDE DEF n
    <3>3. FirstFrames(n) \o <<>> = FirstFrames(n)
      BY <3>2
    <3>. QED
      BY <2>2, <3>2, <3>3
  <2>. QED
    BY <2>1, <2>2
<1>5. n \in Nat /\ InOrder(queue, n, pushed)
  BY <1>2 DEF Written
<1>. HIDE DEF taken, n
<1>6. Len(taken) = n
  BY <1>4, <1>5, FirstFramesFacts
<1>. QED
  BY <1>4, <1>5, <1>6 DEF taken

LEMMA PrefixFollows ==
  ASSUME OscAssumption, OscInv
  PROVE  RecordingIsPrefix
<1>. SUFFICES ASSUME wr \in {"done", "killed"}, \A c \in Channel : files[c] # <<Old>>
             PROVE  \A c, d \in Channel :
                      /\ \E n \in 0..pushed :
                           Recorded(c) \in {FirstFrames(n),
                                            Append(FirstFrames(n), Partial)}
                      /\ Len(Recorded(c)) <= Len(Recorded(d)) + 1
  BY DEF RecordingIsPrefix
<1>1. append \in BOOLEAN /\ pushed \in Nat
  BY DEF OscInv, Types, TypeOK
<1>2. PICK m \in 0..pushed : EndedAt(m)
  BY DEF OscInv, EndedInv
<1>3. /\ FirstFrames(m) \in Seq(Int) /\ Len(FirstFrames(m)) = m
      /\ FirstFrames(m + 1) \in Seq(Int) /\ Len(FirstFrames(m + 1)) = m + 1
  <2>1. m \in Nat /\ m + 1 \in Nat
    OBVIOUS
  <2>. QED
    BY <2>1, FirstFramesFacts
<1>4. /\ Append(FirstFrames(m), Partial) \in Seq(Int)
      /\ Len(Append(FirstFrames(m), Partial)) = m + 1
  BY <1>3 DEF Partial
<1>. DEFINE p == Append(FirstFrames(m), Partial)
<1>. HIDE DEF p
<1>5. ASSUME NEW c \in Channel
      PROVE  \/ Recorded(c) = FirstFrames(m)
             \/ m < pushed /\ Recorded(c) = FirstFrames(m + 1)
             \/ Recorded(c) = p
  <2>1. CASE files[c] = Base \o FirstFrames(m)
    BY <1>1, <1>3, <2>1, RecordedIsRest
  <2>2. CASE m < pushed /\ files[c] = Base \o FirstFrames(m + 1)
    BY <1>1, <1>3, <2>2, RecordedIsRest
  <2>3. CASE files[c] = Base \o p
    BY <1>1, <1>4, <2>3, RecordedIsRest DEF p
  <2>. QED
    BY <1>2, <2>1, <2>2, <2>3 DEF EndedAt, p
<1>6. ASSUME NEW c \in Channel
      PROVE  /\ Len(Recorded(c)) \in {m, m + 1}
             /\ \E n \in 0..pushed :
                  Recorded(c) \in {FirstFrames(n), Append(FirstFrames(n), Partial)}
  <2>1. Len(Recorded(c)) \in {m, m + 1}
    BY <1>3, <1>4, <1>5 DEF p
  <2>2. CASE Recorded(c) = FirstFrames(m) \/ Recorded(c) = p
    BY <2>1, <2>2 DEF p
  <2>3. CASE m < pushed /\ Recorded(c) = FirstFrames(m + 1)
    <3>1. m + 1 \in 0..pushed
      BY <1>1, <2>3
    <3>. QED
      BY <2>1, <2>3, <3>1
  <2>. QED
    BY <1>5, <2>1, <2>2, <2>3
<1>7. ASSUME NEW c \in Channel, NEW d \in Channel
      PROVE  Len(Recorded(c)) <= Len(Recorded(d)) + 1
  BY <1>6
<1>. QED
  BY <1>6, <1>7

LEMMA CompleteFollows ==
  ASSUME OscAssumption, OscInv
  PROVE  CompleteRecording
<1>. SUFFICES ASSUME gpc = "closed", ~gaveUp, ~error
             PROVE  /\ \A c \in Channel : Recorded(c) = FirstFrames(pushed)
                    /\ userClosed \/ pushed = MaxWaveforms
  BY DEF CompleteRecording
<1>1. append \in BOOLEAN /\ pushed \in Nat
  BY DEF OscInv, Types, TypeOK
<1>2. \A c \in Channel : files[c] = Base \o FirstFrames(pushed)
  BY DEF OscInv, EndInv
<1>3. FirstFrames(pushed) \in Seq(Int)
  BY <1>1, FirstFramesFacts
<1>4. \A c \in Channel : Recorded(c) = FirstFrames(pushed)
  BY <1>1, <1>2, <1>3, RecordedIsRest
<1>5. userClosed \/ pushed = MaxWaveforms
  BY DEF OscInv, FinishInv
<1>. QED
  BY <1>4, <1>5

(* What osc.py has on disk is, at every moment and for any number of       *)
(* channels, any queue size, any max_waveforms and any order of the        *)
(* threads, what it acquired: nothing is lost, repeated or swapped between *)
(* the worker, the bounded queue and the files; an error or the end of the *)
(* process leaves prefixes; an orderly end leaves everything.              *)
THEOREM RecordingsAreFaithful == Spec => []RecordingIsFaithful
<1>1. Init => OscInv
  BY OscAssumption, OscInvInit
<1>2. OscInv /\ [Next]_vars => OscInv'
  BY OscAssumption, OscInvStep
<1>3. OscInv => RecordingIsFaithful
  BY OscAssumption, SavedFollows, PrefixFollows, CompleteFollows
  DEF RecordingIsFaithful, OscInv
<1>. QED
  BY <1>1, <1>2, <1>3, PTL DEF Spec

-----------------------------------------------------------------------------
(* What the window shows.                                                  *)

(* The history of the rolling RMS.                                         *)
RmsEntry == [frame : Nat, sig : Transforms]

RmsType ==
  rms \in [on : BOOLEAN, window : Nat \ {0}, sig : Transforms, hist : Seq(RmsEntry)]

(* A bounded deque keeps the end of a sequence.                            *)
LEMMA NewestFacts ==
  ASSUME NEW S, NEW s \in Seq(S), NEW n \in Nat \ {0}
  PROVE  /\ Newest(s, n) \in Seq(S) /\ Len(Newest(s, n)) <= n
         /\ \E d \in Nat :
              /\ Len(s) = Len(Newest(s, n)) + d
              /\ \A i \in 1..Len(Newest(s, n)) : Newest(s, n)[i] = s[i + d]
<1>. DEFINE new == Newest(s, n)
<1>1. CASE Len(s) <= n
  <2>1. new = s
    BY <1>1 DEF Newest
  <2>. HIDE DEF new
  <2>2. 0 \in Nat /\ Len(s) = Len(new) + 0 /\ \A i \in 1..Len(new) : new[i] = s[i + 0]
    BY <2>1
  <2>3. new \in Seq(S) /\ Len(new) <= n
    BY <1>1, <2>1
  <2>. QED
    BY <2>2, <2>3 DEF new
<1>2. CASE Len(s) > n
  <2>. DEFINE d == Len(s) - n
              t == SubSeq(s, Len(s) - n + 1, Len(s))
  <2>1. d \in Nat /\ Len(s) \in Nat
    BY <1>2
  <2>2. Newest(s, n) = t
    BY <1>2 DEF Newest
  <2>3. t \in Seq(S) /\ Len(t) = n /\ \A i \in 1..n : t[i] = s[i + d]
    BY <1>2, <2>1
  <2>4. Len(s) = n + d
    BY <2>1
  <2>. HIDE DEF t, d, new
  <2>5. new \in Seq(S) /\ Len(new) <= n
    BY <2>2, <2>3 DEF new
  <2>6. Len(s) = Len(new) + d /\ \A i \in 1..Len(new) : new[i] = s[i + d]
    BY <2>2, <2>3, <2>4 DEF new
  <2>. QED
    BY <2>1, <2>5, <2>6 DEF new
<1>3. Len(s) <= n \/ Len(s) > n
  OBVIOUS
<1>. HIDE DEF new
<1>. QED
  BY <1>1, <1>2, <1>3, Zenon

(* The frame that is rendered is newer than the ones in the history.       *)
LEMMA RmsStep ==
  ASSUME OscAssumption, TypeOK, RmsType, RmsIsUniform, [Next]_vars
  PROVE  RmsType' /\ RmsIsUniform'
<1>1. CASE UNCHANGED vars
  BY <1>1 DEF RmsType, RmsIsUniform
<1>2. CASE RenderLatestFrame
  <2>. DEFINE e == [frame |-> latest, sig |-> view]
              n == rms.window
              h == Append(Kept, e)
              t == Newest(h, n)
  <2>1. /\ rendered' = latest /\ rendered < latest /\ view' = view
        /\ latest \in Nat /\ rendered \in Nat /\ view \in Transforms
    BY <1>2 DEF RenderLatestFrame, TypeOK
  <2>2. CASE ~rms.on
    <3>1. rms' = rms
      BY <1>2, <2>2 DEF RenderLatestFrame
    <3>2. \A i \in DOMAIN rms.hist : rms.hist[i].frame \in Nat
      <4>1. rms.hist \in Seq(RmsEntry)
        BY DEF RmsType
      <4>2. \A i \in DOMAIN rms.hist : rms.hist[i] \in RmsEntry
        BY <4>1
      <4>. QED
        BY <4>2 DEF RmsEntry
    <3>. QED
      BY <2>1, <3>1, <3>2 DEF RmsType, RmsIsUniform
  <2>3. CASE rms.on
    <3>1. rms' = [rms EXCEPT !.sig = view, !.hist = t]
      BY <1>2, <2>3 DEF RenderLatestFrame
    <3>2. e \in RmsEntry /\ e.frame = latest /\ e.sig = view
      BY <2>1 DEF RmsEntry
    <3>3. n \in Nat \ {0} /\ rms.hist \in Seq(RmsEntry)
      BY DEF RmsType
    <3>4. /\ Kept \in Seq(RmsEntry)
          /\ \A i \in 1..Len(Kept) :
               /\ Kept[i].sig = view /\ Kept[i].frame <= rendered
               /\ i > 1 => Kept[i - 1].frame < Kept[i].frame
      <4>1. CASE rms.sig = view
        BY <3>3, <4>1 DEF Kept, RmsIsUniform
      <4>2. CASE rms.sig # view
        <5>1. Kept = <<>>
          BY <4>2 DEF Kept
        <5>. QED
          BY <5>1
      <4>. QED
        BY <4>1, <4>2
    <3>. HIDE DEF e
    <3>5. /\ h \in Seq(RmsEntry) /\ Len(h) = Len(Kept) + 1 /\ h[Len(Kept) + 1] = e
          /\ \A i \in 1..Len(Kept) : h[i] = Kept[i]
          /\ Len(Kept) \in Nat
      BY <3>2, <3>4
    <3>. HIDE DEF h
    <3>6. /\ \A i \in 1..Len(h) : h[i].sig = view /\ h[i].frame <= latest
          /\ \A i \in 2..Len(h) : h[i - 1].frame < h[i].frame
      <4>1. ASSUME NEW i \in 1..Len(h)
            PROVE  h[i].sig = view /\ h[i].frame <= latest
        <5>1. CASE i = Len(h)
          BY <2>1, <3>2, <3>5, <5>1
        <5>2. CASE i # Len(h)
          <6>1. i \in 1..Len(Kept) /\ h[i] = Kept[i] /\ h[i] \in RmsEntry
            BY <3>5, <5>2
          <6>. QED
            BY <2>1, <3>4, <6>1 DEF RmsEntry
        <5>. QED
          BY <5>1, <5>2
      <4>2. ASSUME NEW i \in 2..Len(h) PROVE h[i - 1].frame < h[i].frame
        <5>1. i - 1 \in 1..Len(Kept) /\ h[i - 1] = Kept[i - 1] /\ h[i - 1] \in RmsEntry
          BY <3>5
        <5>2. CASE i = Len(h)
          BY <2>1, <3>2, <3>4, <3>5, <5>1, <5>2 DEF RmsEntry
        <5>3. CASE i # Len(h)
          <6>1. i \in 1..Len(Kept) /\ h[i] = Kept[i]
            BY <3>5, <5>3
          <6>. QED
            BY <3>4, <5>1, <6>1
        <5>. QED
          BY <5>2, <5>3
      <4>. QED
        BY <4>1, <4>2
    <3>. HIDE DEF n
    <3>7. t \in Seq(RmsEntry) /\ Len(t) <= n
      BY <3>3, <3>5, NewestFacts
    <3>8. PICK d \in Nat : Len(h) = Len(t) + d /\ \A i \in 1..Len(t) : t[i] = h[i + d]
      BY <3>3, <3>5, NewestFacts
    <3>. HIDE DEF t
    <3>9. Len(t) \in Nat /\ DOMAIN t = 1..Len(t)
      BY <3>7
    <3>10. ASSUME NEW i \in 1..Len(t)
           PROVE  /\ t[i].sig = view /\ t[i].frame <= latest
                  /\ i > 1 => t[i - 1].frame < t[i].frame
      <4>1. i + d \in 1..Len(h) /\ t[i] = h[i + d]
        BY <3>8, <3>9
      <4>2. ASSUME i > 1 PROVE t[i - 1].frame < t[i].frame
        <5>1. i - 1 \in 1..Len(t) /\ i + d \in 2..Len(h) /\ (i - 1) + d = (i + d) - 1
          BY <3>8, <3>9, <4>2
        <5>2. t[i - 1] = h[(i + d) - 1]
          BY <3>8, <5>1
        <5>. QED
          BY <3>6, <4>1, <5>1, <5>2
      <4>. QED
        BY <3>6, <4>1, <4>2
    <3>11. rms'.sig = view /\ rms'.hist = t /\ rms'.window = n /\ rms'.on = rms.on
      BY <3>1 DEF RmsType, n
    <3>12. RmsType'
      BY <2>1, <3>1, <3>7 DEF RmsType
    <3>. QED
      BY <2>1, <3>7, <3>9, <3>10, <3>11, <3>12 DEF RmsIsUniform
  <2>. QED
    BY <2>2, <2>3
<1>3. CASE RmsMenu
  <2>1. PICK on \in BOOLEAN, w \in RmsWindows :
          rms' = [rms EXCEPT !.on = on, !.window = w, !.hist = <<>>]
    BY <1>3 DEF RmsMenu
  <2>2. w \in Nat \ {0}
    BY DEF OscAssumption, Arguments
  <2>3. RmsType' /\ rms'.hist = <<>> /\ rms'.window = w
    <3>1. <<>> \in Seq(RmsEntry)
      OBVIOUS
    <3>. QED
      BY <2>1, <2>2, <3>1 DEF RmsType
  <2>. QED
    BY <2>2, <2>3 DEF RmsIsUniform
<1>4. CASE Writer \/ Worker
  <2>1. UNCHANGED <<rms, rendered>>
    BY <1>4 DEF Writer, Worker, OpenFiles, GetFrame, WriteRecord, WriteFails,
       Start,
       PollOnce, NoFrame, Frame, Push, Put, QueueFull, HandleSlot, ThreadEnds
  <2>. QED
    BY <2>1 DEF RmsType, RmsIsUniform
<1>5. CASE HandleSignal \/ SelectFftChannel \/ ResetFft \/ SetTransforms
  <2>1. UNCHANGED <<rms, rendered>>
    BY <1>5 DEF HandleSignal, SelectFftChannel, ResetFft, SetTransforms, Command
  <2>. QED
    BY <2>1 DEF RmsType, RmsIsUniform
<1>6. CASE StartWorker \/ Cleanup(TRUE) \/ Cleanup(FALSE) \/ QuitThread \/
           WaitWorker \/ StopWriter \/ JoinWriter
  <2>1. UNCHANGED <<rms, rendered>>
    BY <1>6 DEF StartWorker, Cleanup, QuitThread, WaitWorker, StopWriter,
       JoinWriter
  <2>. QED
    BY <2>1 DEF RmsType, RmsIsUniform
<1>. QED
  BY <1>1, <1>2, <1>3, <1>4, <1>5, <1>6
  DEF Next, Writer, Worker, Gui, User, CloseEvent, AboutToQuit

-----------------------------------------------------------------------------
(* Slots of the ring: the one that is overwritten holds the oldest frame.  *)
LEMMA DivMod ==
  ASSUME NEW A \in Nat \ {0}, NEW q \in Nat
  PROVE  /\ q % A \in 0..(A - 1) /\ q \div A \in Int
         /\ q = A * (q \div A) + (q % A)
<1>1. q % A \in 0..(A - 1)
  OBVIOUS
<1>2. q \div A \in Int
  OBVIOUS
<1>3. q = A * (q \div A) + (q % A)
  OBVIOUS
<1>. QED
  BY <1>1, <1>2, <1>3

LEMMA OneRemainder ==
  ASSUME NEW A \in Nat \ {0}, NEW a \in Int, NEW b \in Int,
         NEW r \in 0..(A - 1), NEW s \in 0..(A - 1), A * a + r = A * b + s
  PROVE  a = b /\ r = s
<1>. DEFINE d == a - b
<1>1. A * d = s - r /\ d \in Int
  OBVIOUS
<1>. HIDE DEF d
<1>2. d <= 0
  BY <1>1
<1>3. d >= 0
  BY <1>1
<1>4. d = 0
  BY <1>1, <1>2, <1>3
<1>. QED
  BY <1>1, <1>4 DEF d

LEMMA SlotReplaced ==
  ASSUME NEW A \in Nat \ {0}, NEW f \in Nat, f >= A
  PROVE  f - A \in Nat /\ (f - A) % A = f % A
<1>. DEFINE g == f - A
            a == f \div A
            b == g \div A
            r == f % A
            s == g % A
<1>1. g \in Nat /\ f = g + A
  OBVIOUS
<1>2. a \in Int /\ r \in 0..(A - 1) /\ f = A * a + r
  BY DivMod
<1>3. b \in Int /\ s \in 0..(A - 1) /\ g = A * b + s
  BY <1>1, DivMod
<1>. HIDE DEF a, b, r, s, g
<1>4. A * a + r = A * (b + 1) + s /\ b + 1 \in Int
  BY <1>1, <1>2, <1>3
<1>5. r = s
  BY <1>2, <1>3, <1>4, OneRemainder
<1>. QED
  BY <1>1, <1>5 DEF g, r, s

LEMMA SlotsDiffer ==
  ASSUME NEW A \in Nat \ {0}, NEW q \in Nat, NEW f \in Nat, q < f, f < q + A
  PROVE  q % A # f % A
<1>. SUFFICES ASSUME q % A = f % A PROVE FALSE
  OBVIOUS
<1>. DEFINE a == q \div A
            b == f \div A
            d == b - a
<1>1. a \in Int /\ b \in Int
  BY DivMod
<1>2. q = A * a + (q % A) /\ f = A * b + (f % A) /\ f % A \in Int
  BY DivMod
<1>. HIDE DEF a, b
<1>3. A * d = f - q /\ d \in Int
  BY <1>1, <1>2
<1>. HIDE DEF d
<1>4. 0 < A * d /\ A * d < A
  BY <1>3
<1>. QED
  BY <1>3, <1>4

(* A set of numbers has a least one.                                       *)
LEMMA LeastOf ==
  ASSUME NEW S \in SUBSET Nat, S # {}
  PROVE  \E x \in S : \A y \in S : x <= y
<1>. DEFINE R == OpToRel(<, Nat)
<1>1. PICK x \in S : \A y \in S : ~(<<y, x>> \in R)
  <2>1. IsWellFoundedOn(R, Nat)
    BY NatLessThanWellFounded
  <2>. HIDE DEF R
  <2>. QED
    BY <2>1, WFMin
<1>2. R = {ss \in Nat \X Nat : ss[1] < ss[2]}
  BY Zenon DEF OpToRel
<1>. HIDE DEF R
<1>3. ASSUME NEW y \in S PROVE x <= y
  <2>1. <<y, x>> \in Nat \X Nat /\ <<y, x>>[1] = y /\ <<y, x>>[2] = x
    OBVIOUS
  <2>2. ~(y < x)
    BY <1>1, <1>2, <2>1, Zenon
  <2>. QED
    BY <2>2
<1>. QED
  BY <1>3

(* The totals exist: the recursion of Total has a solution.                *)
LEMMA TotalFacts ==
  ASSUME OscAssumption, NEW c \in Channel
  PROVE  /\ Total(c)[0] = 0
         /\ \A n \in 0..MaxFrames : Total(c)[n] \in Int
         /\ \A n \in 1..MaxFrames : Total(c)[n] = Total(c)[n - 1] + Power[<<c, n>>]
<1>. DEFINE P(n) == Power[<<c, n>>]
            M == MaxFrames
            Sums(f, n) == f[0] = 0 /\ \A i \in 1..n : f[i] = f[i - 1] + P(i)
            Bad == {n \in 0..M : ~\E f \in [0..n -> Int] : Sums(f, n)}
<1>1. M \in Nat /\ \A n \in 1..M : P(n) \in Nat
  BY DEF OscAssumption, Channel
<1>. HIDE DEF P, M
<1>2. Bad = {}
  <2>. SUFFICES ASSUME Bad # {} PROVE FALSE
    OBVIOUS
  <2>1. PICK x \in Bad : \A y \in Bad : x <= y
    <3>1. Bad \in SUBSET Nat
      BY <1>1
    <3>. HIDE DEF Bad
    <3>. QED
      BY <3>1, LeastOf
  <2>2. x \in 0..M /\ ~\E f \in [0..x -> Int] : Sums(f, x)
    OBVIOUS
  <2>3. x # 0
    <3>1. ASSUME x = 0 PROVE FALSE
      <4>. DEFINE f == [i \in 0..0 |-> 0]
      <4>1. f \in [0..x -> Int] /\ Sums(f, x)
        BY <3>1
      <4>. QED
        BY <2>2, <4>1
    <3>. QED
      BY <3>1
  <2>4. x - 1 \in 0..M /\ x - 1 \notin Bad
    <3>1. x - 1 \in 0..M /\ ~(x <= x - 1)
      BY <1>1, <2>2, <2>3
    <3>. HIDE DEF Bad
    <3>. QED
      BY <2>1, <3>1
  <2>5. PICK f \in [0..(x - 1) -> Int] : Sums(f, x - 1)
    BY <2>4
  <2>. DEFINE g == [i \in 0..x |-> IF i = x THEN f[x - 1] + P(x) ELSE f[i]]
  <2>6. x \in Nat /\ x >= 1 /\ P(x) \in Int /\ f[x - 1] \in Int
    BY <1>1, <2>2, <2>3, <2>5
  <2>7. g \in [0..x -> Int]
    BY <2>5, <2>6
  <2>8. /\ g[x] = f[x - 1] + P(x)
        /\ \A i \in 0..(x - 1) : g[i] = f[i]
    BY <2>6
  <2>. HIDE DEF g
  <2>9. g[0] = 0
    BY <2>5, <2>6, <2>8
  <2>10. ASSUME NEW i \in 1..x PROVE g[i] = g[i - 1] + P(i)
    <3>1. i - 1 \in 0..(x - 1)
      BY <2>6
    <3>2. CASE i = x
      BY <2>8, <3>1, <3>2
    <3>3. CASE i # x
      <4>1. i \in 1..(x - 1) /\ i \in 0..(x - 1)
        BY <2>6, <3>3
      <4>. QED
        BY <2>5, <2>8, <3>1, <4>1
    <3>. QED
      BY <3>2, <3>3
  <2>. QED
    BY <2>2, <2>7, <2>9, <2>10
<1>3. PICK f \in [0..M -> Int] : Sums(f, M)
  <2>1. M \in 0..M /\ M \notin Bad
    <3>. HIDE DEF Bad
    <3>. QED
      BY <1>1, <1>2
  <2>. QED
    BY <2>1
<1>4. f = [n \in 0..M |-> IF n = 0 THEN 0 ELSE f[n - 1] + P(n)]
  <2>1. \A n \in 0..M : f[n] = IF n = 0 THEN 0 ELSE f[n - 1] + P(n)
    BY <1>1, <1>3
  <2>. QED
    BY <1>3, <2>1
<1>5. Total(c) = [n \in 0..M |-> IF n = 0 THEN 0 ELSE Total(c)[n - 1] + P(n)]
  BY <1>4, Zenon DEF Total, P, M
<1>. DEFINE T == Total(c)
<1>. HIDE DEF T
<1>6. \A n \in 0..M : T[n] = IF n = 0 THEN 0 ELSE T[n - 1] + P(n)
  BY <1>5 DEF T
<1>7. T[0] = 0 /\ \A n \in 1..M : T[n] = T[n - 1] + P(n)
  BY <1>1, <1>6
<1>8. \A n \in 0..M : T[n] \in Int
  <2>. DEFINE Odd == {n \in 0..M : T[n] \notin Int}
  <2>. SUFFICES ASSUME Odd # {} PROVE FALSE
    OBVIOUS
  <2>1. PICK x \in Odd : \A y \in Odd : x <= y
    <3>1. Odd \in SUBSET Nat
      BY <1>1
    <3>. HIDE DEF Odd
    <3>. QED
      BY <3>1, LeastOf
  <2>2. x \in 1..M
    BY <1>1, <1>7, <2>1
  <2>3. x - 1 \in 0..M /\ x - 1 \notin Odd
    BY <1>1, <2>1, <2>2
  <2>4. T[x - 1] \in Int /\ P(x) \in Int
    BY <1>1, <2>2, <2>3
  <2>. QED
    BY <1>7, <2>1, <2>2, <2>4
<1>. QED
  BY <1>7, <1>8 DEF T, P, M

(* The slots of the ring hold the power of the frames they are named for.  *)
RingInv ==
  \A q \in 0..(fftFrames - 1) : q >= fftFrames - AvgCount =>
    ring[q % AvgCount] = Power[<<fftCh, frames - fftFrames + q + 1>>]

(* The frame that leaves the ring is the one that leaves the window.       *)
LEMMA FftStep ==
  ASSUME OscAssumption, TypeOK, Types, PushInv, RingInv, FftIsWindow, [Next]_vars
  PROVE  RingInv' /\ FftIsWindow'
<1>1. CASE UNCHANGED vars
  BY <1>1 DEF RingInv, FftIsWindow
<1>2. CASE Frame
  <2>. DEFINE A == AvgCount
              f == fftFrames
              c == fftCh
              T == Total(fftCh)
              p == Power[<<fftCh, frames + 1>>]
              slot == fftFrames % AvgCount
  <2>1. A \in Nat \ {0} /\ f \in Nat /\ frames \in Nat /\ f <= frames /\ c \in Channel
    BY DEF OscAssumption, Arguments, TypeOK
  <2>2. frames < MaxFrames /\ MaxFrames \in Nat /\ wpc = "request"
    BY <1>2 DEF Frame, PushInv, OscAssumption
  <2>3. /\ sum' = sum - Leaving(slot) + p /\ ring' = [ring EXCEPT ![slot] = p]
        /\ fftFrames' = f + 1 /\ fftCh' = c /\ frames' = frames + 1
    BY <1>2 DEF Frame, UpdateFft
  <2>4. /\ \A n \in 0..MaxFrames : T[n] \in Int
        /\ \A n \in 1..MaxFrames : T[n] = T[n - 1] + Power[<<c, n>>]
    BY TotalFacts, <2>1
  <2>5. ring \in [0..(A - 1) -> Nat] /\ sum \in Int
    BY DEF TypeOK
  <2>6. slot \in 0..(A - 1)
    BY <2>1, DivMod
  <2>7. \A n \in 1..MaxFrames : Power[<<c, n>>] \in Nat
    BY <2>1 DEF OscAssumption, Channel
  <2>8. \A q \in 0..(f - 1) : q >= f - A => ring[q % A] = Power[<<c, frames - f + q + 1>>]
    BY DEF RingInv
  <2>9. RingInv'
    <3>. SUFFICES ASSUME NEW q \in 0..f, q >= (f + 1) - A
                  PROVE  ring'[q % A] = Power[<<c, frames - f + q + 1>>]
      <4>1. /\ (fftFrames - 1)' = f /\ (fftFrames - AvgCount)' = (f + 1) - A
        BY <2>1, <2>3
      <4>2. \A q \in 0..f : frames' - fftFrames' + q + 1 = frames - f + q + 1
        BY <2>1, <2>3
      <4>. QED
        BY <2>3, <4>1, <4>2 DEF RingInv
    <3>1. CASE q = f
      <4>1. frames - f + q + 1 = frames + 1
        BY <2>1, <3>1
      <4>2. ring'[slot] = p
        BY <2>3, <2>5, <2>6
      <4>. QED
        BY <3>1, <4>1, <4>2
    <3>2. CASE q < f
      <4>1. q \in Nat /\ f < q + A /\ q \in 0..(f - 1) /\ q >= f - A
        BY <2>1, <3>2
      <4>2. q % A # slot /\ q % A \in 0..(A - 1)
        BY <2>1, <3>2, <4>1, SlotsDiffer, DivMod
      <4>3. ring'[q % A] = ring[q % A]
        BY <2>3, <2>5, <4>2
      <4>. QED
        BY <2>8, <4>1, <4>3
    <3>. QED
      BY <2>1, <3>1, <3>2
  <2>10. CASE f < A
    <3>1. Leaving(slot) = 0
      BY <2>1, <2>10 DEF Leaving
    <3>2. sum = T[frames] - T[frames - f]
      BY <2>10 DEF FftIsWindow
    <3>3. /\ frames \in 0..MaxFrames /\ frames - f \in 0..MaxFrames
          /\ frames + 1 \in 1..MaxFrames
      BY <2>1, <2>2
    <3>4. T[frames + 1] = T[frames] + p /\ p \in Nat
      <4>1. (frames + 1) - 1 = frames
        BY <2>1
      <4>. QED
        BY <2>4, <2>7, <3>3, <4>1
    <3>5. sum' = T[frames + 1] - T[frames - f]
      BY <2>3, <2>4, <3>1, <3>2, <3>3, <3>4
    <3>6. (IF fftFrames' < A THEN fftFrames' ELSE A) = f + 1
      BY <2>1, <2>3, <2>10
    <3>7. frames' - (f + 1) = frames - f
      BY <2>1, <2>3
    <3>8. FftIsWindow'
      BY <2>3, <3>5, <3>6, <3>7 DEF FftIsWindow
    <3>. QED
      BY <2>9, <3>8
  <2>11. CASE f >= A
    <3>1. f - A \in Nat /\ (f - A) % A = slot
      BY <2>1, <2>11, SlotReplaced
    <3>2. f - A \in 0..(f - 1) /\ frames - f + (f - A) + 1 = (frames - A) + 1
      BY <2>1, <3>1
    <3>3. ring[slot] = Power[<<c, (frames - A) + 1>>]
      <4>1. f - A >= f - A
        BY <2>1
      <4>. QED
        BY <2>8, <3>1, <3>2, <4>1
    <3>4. Leaving(slot) = Power[<<c, (frames - A) + 1>>]
      BY <2>1, <2>11, <3>3 DEF Leaving
    <3>5. sum = T[frames] - T[frames - A]
      BY <2>1, <2>11 DEF FftIsWindow
    <3>6. /\ frames \in 0..MaxFrames /\ frames - A \in 0..MaxFrames
          /\ frames + 1 \in 1..MaxFrames /\ (frames - A) + 1 \in 1..MaxFrames
          /\ (frames + 1) - 1 = frames /\ ((frames - A) + 1) - 1 = frames - A
      BY <2>1, <2>2, <2>11
    <3>7. T[frames + 1] = T[frames] + p /\ p \in Nat
      BY <2>4, <2>7, <3>6
    <3>8. T[(frames - A) + 1] = T[frames - A] + Leaving(slot) /\ Leaving(slot) \in Nat
      BY <2>4, <2>7, <3>4, <3>6
    <3>9. /\ T[frames] \in Int /\ T[frames - A] \in Int
      BY <2>4, <3>6
    <3>10. sum' = T[frames + 1] - T[(frames - A) + 1]
      BY <2>3, <3>5, <3>7, <3>8, <3>9
    <3>11. (IF fftFrames' < A THEN fftFrames' ELSE A) = A
      BY <2>1, <2>3, <2>11
    <3>12. frames' - A = (frames - A) + 1
      BY <2>1, <2>3
    <3>13. FftIsWindow'
      BY <2>3, <3>10, <3>11, <3>12 DEF FftIsWindow
    <3>. QED
      BY <2>9, <3>13
  <2>. QED
    BY <2>1, <2>10, <2>11
<1>3. CASE HandleSlot
  <2>1. frames' = frames /\ frames \in 0..MaxFrames
    BY <1>3 DEF HandleSlot, TypeOK
  <2>2. CASE UNCHANGED fft
    BY <2>1, <2>2 DEF RingInv, FftIsWindow
  <2>3. CASE fftCh' \in Channel /\ ClearFft
    <3>1. sum' = 0 /\ fftFrames' = 0
      BY <2>3 DEF ClearFft
    <3>2. AvgCount \in Nat \ {0}
      BY DEF OscAssumption, Arguments
    <3>3. Total(fftCh')[frames] \in Int
      BY <2>1, <2>3, TotalFacts
    <3>4. RingInv'
      BY <3>1 DEF RingInv
    <3>5. FftIsWindow'
      <4>1. (IF fftFrames' < AvgCount THEN fftFrames' ELSE AvgCount) = 0
        BY <3>1, <3>2
      <4>2. frames' - 0 = frames
        BY <2>1
      <4>. QED
        BY <2>1, <3>1, <3>3, <4>1, <4>2 DEF FftIsWindow
    <3>. QED
      BY <3>4, <3>5
  <2>4. UNCHANGED fft \/ (fftCh' \in Channel /\ ClearFft)
    <3>1. Head(toWorker) \in WorkerSignal /\ fftCh \in Channel
      BY <1>3 DEF HandleSlot, Types, TypeOK
    <3>2. Head(toWorker).type = "channel" => Head(toWorker).ch \in Channel
      BY <3>1 DEF WorkerSignal
    <3>. QED
      BY <1>3, <3>1, <3>2 DEF HandleSlot
  <2>. QED
    BY <2>2, <2>3, <2>4
<1>4. CASE StartWorker \/ Start \/ PollOnce \/ NoFrame \/ Push \/ Put \/
           QueueFull \/ ThreadEnds
  <2>1. UNCHANGED <<frames, fft>>
    BY <1>4 DEF StartWorker, Start, PollOnce, NoFrame, Push, Put, QueueFull,
       ThreadEnds
  <2>. QED
    BY <2>1 DEF RingInv, FftIsWindow
<1>5. CASE OpenFiles \/ GetFrame \/ WriteRecord \/ WriteFails
  <2>1. UNCHANGED <<frames, fft>>
    BY <1>5 DEF OpenFiles, GetFrame, WriteRecord, WriteFails
  <2>. QED
    BY <2>1 DEF RingInv, FftIsWindow
<1>6. CASE HandleSignal \/ RenderLatestFrame \/ SelectFftChannel \/
           ResetFft \/ RmsMenu \/ SetTransforms
  <2>1. UNCHANGED <<frames, fft>>
    BY <1>6 DEF HandleSignal, RenderLatestFrame, Command, SelectFftChannel,
       ResetFft,
       RmsMenu, SetTransforms
  <2>. QED
    BY <2>1 DEF RingInv, FftIsWindow
<1>7. CASE Cleanup(TRUE) \/ Cleanup(FALSE) \/ QuitThread \/ WaitWorker \/
           StopWriter \/ JoinWriter
  <2>1. UNCHANGED <<frames, fft>>
    BY <1>7 DEF Cleanup, QuitThread, WaitWorker, StopWriter, JoinWriter
  <2>. QED
    BY <2>1 DEF RingInv, FftIsWindow
<1>. QED
  BY <1>1, <1>2, <1>3, <1>4, <1>5, <1>6, <1>7
  DEF Next, Writer, Worker, Gui, User, CloseEvent, AboutToQuit

(* What a frame posts: every fft_every frames a spectrum, and the plot.    *)
LEMMA FrameSignals ==
  ASSUME OscAssumption, TypeOK, Types, PushInv, Frame,
         NEW L, L = Len(toGui)
  PROVE  /\ \/ /\ fftFrames' % EmitEvery # 0 /\ Len(toGui') = L + 1
               /\ toGui'[L + 1].type = "plot"
            \/ /\ fftFrames' % EmitEvery = 0 /\ Len(toGui') = L + 2
               /\ toGui'[L + 1].type = "fft" /\ toGui'[L + 1].ch = fftCh
               /\ toGui'[L + 1].sum = sum' /\ toGui'[L + 2].type = "plot"
         /\ L \in Nat /\ DOMAIN toGui = 1..L /\ DOMAIN toGui' = 1..Len(toGui')
         /\ \A i \in 1..L : toGui'[i] = toGui[i]
<1>1. /\ toGui' \in Seq(GuiSignal) /\ toGui \in Seq(GuiSignal)
      /\ \A i \in 1..L : toGui'[i] = toGui[i]
  BY SignalsPosted DEF Types
<1>2. L \in Nat /\ DOMAIN toGui = 1..L /\ DOMAIN toGui' = 1..Len(toGui')
  BY <1>1
<1>. DEFINE plot == [type |-> "plot", frame |-> frames']
            n == IF fftFrames' >= AvgCount THEN AvgCount ELSE fftFrames'
            m == [type |-> "fft", ch |-> fftCh, sum |-> sum', navg |-> n]
<1>3. toGui' = (toGui \o FftSignal) \o <<plot>>
  BY DEF Frame
<1>4. /\ fftFrames' % EmitEvery # 0 => FftSignal = <<>>
      /\ fftFrames' % EmitEvery = 0 => FftSignal = <<m>>
  BY DEF FftSignal
<1>5. /\ plot.type = "plot" /\ m.type = "fft" /\ m.ch = fftCh /\ m.sum = sum'
  OBVIOUS
<1>. HIDE DEF plot, m, n
<1>. DEFINE S == GuiSignal \cup {plot, m}
<1>6. toGui \in Seq(S) /\ plot \in S /\ m \in S
  BY <1>1
<1>. HIDE DEF S
<1>7. CASE fftFrames' % EmitEvery # 0
  <2>1. FftSignal = <<>> /\ toGui \o <<>> = toGui
    BY <1>4, <1>6, <1>7
  <2>2. toGui' = toGui \o <<plot>>
    BY <1>3, <2>1
  <2>3. Len(toGui') = L + 1 /\ toGui'[L + 1] = plot
    BY <1>6, <2>2
  <2>. QED
    BY <1>1, <1>2, <1>5, <1>7, <2>3
<1>8. CASE fftFrames' % EmitEvery = 0
  <2>. DEFINE r == toGui \o <<m>>
  <2>1. FftSignal = <<m>>
    BY <1>4, <1>8
  <2>2. toGui' = r \o <<plot>>
    BY <1>3, <2>1
  <2>3. r \in Seq(S) /\ Len(r) = L + 1 /\ r[L + 1] = m
    BY <1>6
  <2>. HIDE DEF r
  <2>4. Len(toGui') = Len(r) + 1 /\ toGui'[Len(r) + 1] = plot
        /\ \A i \in 1..Len(r) : toGui'[i] = r[i]
    BY <1>6, <2>2, <2>3
  <2>5. Len(toGui') = L + 2 /\ toGui'[L + 2] = plot /\ toGui'[L + 1] = m
    BY <1>2, <2>3, <2>4
  <2>. QED
    BY <1>1, <1>2, <1>5, <1>8, <2>5
<1>. QED
  BY <1>7, <1>8

(* The last spectrum on its way, or on the screen when none is, is of the  *)
(* channel the worker averages, and up to date when it is due.             *)
Fresh(m) == m.ch = fftCh /\ (fftFrames % EmitEvery = 0 => m.sum = sum)

SpectrumInv ==
  fftFrames >= EmitEvery =>
    \/ /\ \A i \in DOMAIN toGui : toGui[i].type # "fft"
       /\ shown = NoSpectrum \/ Fresh(shown)
    \/ \E i \in DOMAIN toGui :
         /\ toGui[i].type = "fft" /\ Fresh(toGui[i])
         /\ \A j \in DOMAIN toGui : j > i => toGui[j].type # "fft"

(* The last change of the channel on its way is the one of the title.      *)
TitleInv ==
  \/ /\ \A i \in DOMAIN toWorker : toWorker[i].type # "channel"
     /\ fftCh = title
  \/ \E i \in DOMAIN toWorker :
       /\ toWorker[i].type = "channel" /\ toWorker[i].ch = title
       /\ \A j \in DOMAIN toWorker : j > i => toWorker[j].type # "channel"

(* A spectrum of the old channel is overtaken by the first of the new one. *)
LEMMA SpectrumStep ==
  ASSUME OscAssumption, TypeOK, Types, PushInv, SpectrumInv, [Next]_vars
  PROVE  SpectrumInv'
<1>1. CASE UNCHANGED vars
  BY <1>1 DEF SpectrumInv, Fresh
<1>2. CASE Frame
  <2>. DEFINE L == Len(toGui)
  <2>1. EmitEvery \in Nat \ {0} /\ fftFrames \in Nat
    BY DEF OscAssumption, Arguments, TypeOK
  <2>2. fftFrames' = fftFrames + 1 /\ fftCh' = fftCh /\ shown' = shown
    BY <1>2 DEF Frame, UpdateFft
  <2>3. /\ L \in Nat /\ DOMAIN toGui = 1..L /\ DOMAIN toGui' = 1..Len(toGui')
        /\ \A i \in 1..L : toGui'[i] = toGui[i]
    BY <1>2, FrameSignals
  <2>4. CASE fftFrames' % EmitEvery # 0
    <3>1. Len(toGui') = L + 1 /\ toGui'[L + 1].type = "plot"
      BY <1>2, <2>4, FrameSignals
    <3>2. EmitEvery % EmitEvery = 0
      BY <2>1
    <3>3. ASSUME fftFrames' >= EmitEvery PROVE fftFrames >= EmitEvery
      <4>1. fftFrames' # EmitEvery
        BY <2>4, <3>2
      <4>. QED
        BY <2>1, <2>2, <3>3, <4>1
    <3>. HIDE DEF L
    <3>4. \A i \in 1..(L + 1) : i \in 1..L \/ i = L + 1
      BY <2>3
    <3>5. \A m : Fresh(m) => m.ch = fftCh'
      BY <2>2 DEF Fresh
    <3>6. ASSUME fftFrames >= EmitEvery, \A i \in 1..L : toGui[i].type # "fft",
                 shown = NoSpectrum \/ Fresh(shown)
          PROVE  SpectrumInv'
      <4>1. \A i \in 1..(L + 1) : toGui'[i].type # "fft"
        BY <2>3, <3>1, <3>4, <3>6
      <4>2. shown' = NoSpectrum \/ Fresh(shown)'
        BY <2>2, <2>4, <3>6 DEF Fresh
      <4>. QED
        BY <2>3, <3>1, <4>1, <4>2 DEF SpectrumInv
    <3>7. ASSUME NEW i \in 1..L, toGui[i].type = "fft", Fresh(toGui[i]),
                 \A j \in 1..L : j > i => toGui[j].type # "fft"
          PROVE  SpectrumInv'
      <4>1. i \in DOMAIN toGui' /\ toGui'[i] = toGui[i]
        BY <2>3, <3>1
      <4>2. \A j \in 1..(L + 1) : j > i => toGui'[j].type # "fft"
        BY <2>3, <3>1, <3>4, <3>7
      <4>3. Fresh(toGui[i])'
        BY <2>2, <2>4, <3>7, <4>1 DEF Fresh
      <4>. QED
        BY <2>3, <3>1, <3>7, <4>1, <4>2, <4>3 DEF SpectrumInv
    <3>8. CASE fftFrames' >= EmitEvery
      BY <2>3, <3>3, <3>6, <3>7, <3>8 DEF SpectrumInv
    <3>. QED
      BY <3>8 DEF SpectrumInv
  <2>5. CASE fftFrames' % EmitEvery = 0
    <3>1. /\ Len(toGui') = L + 2 /\ toGui'[L + 1].type = "fft"
          /\ toGui'[L + 1].ch = fftCh /\ toGui'[L + 1].sum = sum'
          /\ toGui'[L + 2].type = "plot"
      BY <1>2, <2>5, FrameSignals
    <3>. HIDE DEF L
    <3>2. L + 1 \in DOMAIN toGui'
      BY <2>3, <3>1
    <3>3. \A j \in DOMAIN toGui' : j > L + 1 => toGui'[j].type # "fft"
      <4>1. \A j \in 1..(L + 2) : j > L + 1 => j = L + 2
        BY <2>3
      <4>. QED
        BY <2>3, <3>1, <4>1
    <3>. QED
      BY <2>2, <3>1, <3>2, <3>3 DEF SpectrumInv, Fresh
  <2>. QED
    BY <2>4, <2>5
<1>3. CASE Push \/ Put \/ QueueFull
  <2>. DEFINE L == Len(toGui)
              N == Len(toGui')
  <2>1. UNCHANGED <<fft, shown>> /\ ~Frame
    BY <1>3 DEF Push, Put, QueueFull, Frame
  <2>2. /\ toGui \in Seq(GuiSignal) /\ toGui' \in Seq(GuiSignal) /\ L <= N
        /\ \A i \in 1..L : toGui'[i] = toGui[i]
        /\ \A i \in (L + 1)..N : toGui'[i].type # "fft"
    BY <1>3, <2>1, SignalsPosted DEF Types
  <2>3. L \in Nat /\ N \in Nat /\ DOMAIN toGui = 1..L /\ DOMAIN toGui' = 1..N
    BY <2>2
  <2>. HIDE DEF L, N
  <2>4. \A i \in 1..N : i \in 1..L \/ i \in (L + 1)..N
    BY <2>3
  <2>5. \A i \in 1..L : i \in 1..N
    BY <2>2, <2>3
  <2>. QED
    BY <2>1, <2>2, <2>3, <2>4, <2>5 DEF SpectrumInv, Fresh
<1>4. CASE HandleSlot
  <2>1. UNCHANGED <<toGui, shown>>
    BY <1>4 DEF HandleSlot
  <2>2. UNCHANGED fft \/ fftFrames' = 0
    BY <1>4 DEF HandleSlot, ClearFft
  <2>3. EmitEvery \in Nat \ {0}
    BY DEF OscAssumption, Arguments
  <2>4. CASE UNCHANGED fft
    BY <2>1, <2>4 DEF SpectrumInv, Fresh
  <2>5. CASE fftFrames' = 0
    BY <2>3, <2>5 DEF SpectrumInv
  <2>. QED
    BY <2>2, <2>4, <2>5
<1>5. CASE HandleSignal
  <2>. DEFINE L == Len(toGui)
  <2>1. UNCHANGED fft /\ toGui' = Tail(toGui) /\ toGui # <<>>
    BY <1>5 DEF HandleSignal
  <2>2. /\ L \in Nat \ {0} /\ DOMAIN toGui = 1..L /\ DOMAIN toGui' = 1..(L - 1)
        /\ \A i \in 1..(L - 1) : toGui'[i] = toGui[i + 1]
        /\ Head(toGui) = toGui[1]
    BY <2>1 DEF Types
  <2>3. /\ toGui[1].type # "fft" => shown' = shown
        /\ toGui[1].type = "fft" =>
             shown' = [ch |-> toGui[1].ch, sum |-> toGui[1].sum, navg |-> toGui[1].navg]
    BY <1>5, <2>2 DEF HandleSignal
  <2>. HIDE DEF L
  <2>4. 1 \in 1..L /\ \A i \in 1..(L - 1) : i + 1 \in 1..L /\ i + 1 > 1
    BY <2>2
  <2>5. SUFFICES ASSUME fftFrames >= EmitEvery PROVE SpectrumInv'
    BY <2>1 DEF SpectrumInv
  <2>6. CASE /\ \A i \in 1..L : toGui[i].type # "fft"
             /\ shown = NoSpectrum \/ Fresh(shown)
    <3>1. shown' = shown /\ \A i \in 1..(L - 1) : toGui'[i].type # "fft"
      BY <2>2, <2>3, <2>4, <2>6
    <3>. QED
      BY <2>1, <2>2, <2>6, <3>1 DEF SpectrumInv, Fresh
  <2>7. ASSUME NEW i \in 1..L, toGui[i].type = "fft", Fresh(toGui[i]),
               \A j \in 1..L : j > i => toGui[j].type # "fft"
        PROVE  SpectrumInv'
    <3>1. CASE i = 1
      <4>1. \A j \in 1..(L - 1) : toGui'[j].type # "fft"
        BY <2>2, <2>4, <2>7, <3>1
      <4>2. shown'.ch = toGui[1].ch /\ shown'.sum = toGui[1].sum
        BY <2>3, <2>7, <3>1
      <4>3. Fresh(shown)'
        BY <2>1, <2>7, <3>1, <4>2 DEF Fresh
      <4>. QED
        BY <2>2, <4>1, <4>3 DEF SpectrumInv
    <3>2. CASE i # 1
      <4>1. i - 1 \in 1..(L - 1) /\ toGui'[i - 1] = toGui[(i - 1) + 1] /\ (i - 1) + 1 = i
        BY <2>2, <3>2
      <4>2. ASSUME NEW j \in 1..(L - 1), j > i - 1 PROVE toGui'[j].type # "fft"
        <5>1. j + 1 \in 1..L /\ j + 1 > i /\ toGui'[j] = toGui[j + 1]
          BY <2>2, <4>2
        <5>. QED
          BY <2>7, <5>1
      <4>3. toGui'[i - 1].type = "fft" /\ Fresh(toGui'[i - 1])
        BY <2>7, <4>1
      <4>4. \A m : Fresh(m) =>
              m.ch = fftCh' /\ (fftFrames' % EmitEvery = 0 => m.sum = sum')
        BY <2>1 DEF Fresh
      <4>. DEFINE x == i - 1
      <4>5. x \in DOMAIN toGui'
        BY <2>2, <4>1
      <4>. HIDE DEF x
      <4>. QED
        BY <2>2, <4>2, <4>3, <4>4, <4>5 DEF SpectrumInv, Fresh, x
    <3>. QED
      BY <3>1, <3>2
  <2>. QED
    BY <2>2, <2>5, <2>6, <2>7 DEF SpectrumInv
<1>6. CASE SelectFftChannel \/ ResetFft
  <2>1. UNCHANGED <<fft, toGui>> /\ shown' = NoSpectrum
    BY <1>6 DEF SelectFftChannel, ResetFft, Command
  <2>. QED
    BY <2>1 DEF SpectrumInv, Fresh
<1>7. CASE OpenFiles \/ GetFrame \/ WriteRecord \/ WriteFails
  <2>1. UNCHANGED <<fft, toGui, shown>>
    BY <1>7 DEF OpenFiles, GetFrame, WriteRecord, WriteFails
  <2>. QED
    BY <2>1 DEF SpectrumInv, Fresh
<1>8. CASE StartWorker \/ Start \/ PollOnce \/ NoFrame \/ ThreadEnds
  <2>1. UNCHANGED <<fft, toGui, shown>>
    BY <1>8 DEF StartWorker, Start, PollOnce, NoFrame, ThreadEnds
  <2>. QED
    BY <2>1 DEF SpectrumInv, Fresh
<1>9. CASE RenderLatestFrame \/ RmsMenu \/ SetTransforms
  <2>1. UNCHANGED <<fft, toGui, shown>>
    BY <1>9 DEF RenderLatestFrame, Command, RmsMenu, SetTransforms
  <2>. QED
    BY <2>1 DEF SpectrumInv, Fresh
<1>10. CASE Cleanup(TRUE) \/ Cleanup(FALSE) \/ QuitThread \/ WaitWorker \/
           StopWriter \/ JoinWriter
  <2>1. UNCHANGED <<fft, toGui, shown>>
    BY <1>10 DEF Cleanup, QuitThread, WaitWorker, StopWriter, JoinWriter
  <2>. QED
    BY <2>1 DEF SpectrumInv, Fresh
<1>. QED
  BY <1>1, <1>2, <1>3, <1>4, <1>5, <1>6, <1>7, <1>8, <1>9, <1>10
  DEF Next, Writer, Worker, Gui, User, CloseEvent, AboutToQuit

(* The worker takes the changes of the channel in the order of the menu.   *)
LEMMA TitleStep ==
  ASSUME OscAssumption, TypeOK, Types, TitleInv, [Next]_vars
  PROVE  TitleInv'
<1>1. CASE UNCHANGED vars
  BY <1>1 DEF TitleInv
<1>2. CASE SelectFftChannel \/ ResetFft \/ Cleanup(TRUE) \/ Cleanup(FALSE)
  <2>. DEFINE L == Len(toWorker)
  <2>1. fftCh' = fftCh
    BY <1>2 DEF SelectFftChannel, ResetFft, Command, Cleanup
  <2>2. PICK m \in WorkerSignal :
          /\ toWorker' = Append(toWorker, m)
          /\ (m.type = "channel" /\ m.ch = title')
               \/ (m.type # "channel" /\ title' = title)
    <3>1. ASSUME NEW c \in Channel
          PROVE  [type |-> "channel", ch |-> c] \in WorkerSignal
      BY DEF WorkerSignal
    <3>2. [type |-> "reset"] \in WorkerSignal /\ [type |-> "stop"] \in WorkerSignal
      BY DEF WorkerSignal
    <3>3. CASE SelectFftChannel
      BY <3>1, <3>3 DEF SelectFftChannel
    <3>4. CASE ResetFft \/ Cleanup(TRUE) \/ Cleanup(FALSE)
      BY <3>2, <3>4 DEF ResetFft, Cleanup
    <3>. QED
      BY <1>2, <3>3, <3>4
  <2>3. /\ L \in Nat /\ DOMAIN toWorker = 1..L /\ DOMAIN toWorker' = 1..(L + 1)
        /\ \A i \in 1..L : toWorker'[i] = toWorker[i]
        /\ toWorker'[L + 1] = m
    BY <2>2 DEF Types
  <2>. HIDE DEF L
  <2>4. /\ \A i \in 1..(L + 1) : i \in 1..L \/ i = L + 1
        /\ L + 1 \in 1..(L + 1)
        /\ \A i \in 1..L : i \in 1..(L + 1)
        /\ \A i \in 1..(L + 1) : ~(i > L + 1)
    BY <2>3
  <2>5. CASE m.type = "channel" /\ m.ch = title'
    BY <2>3, <2>4, <2>5 DEF TitleInv
  <2>6. CASE m.type # "channel" /\ title' = title
    BY <2>1, <2>3, <2>4, <2>6 DEF TitleInv
  <2>. QED
    BY <2>2, <2>5, <2>6
<1>3. CASE HandleSlot
  <2>. DEFINE L == Len(toWorker)
  <2>1. title' = title /\ toWorker' = Tail(toWorker) /\ toWorker # <<>>
    BY <1>3 DEF HandleSlot
  <2>2. /\ L \in Nat \ {0} /\ DOMAIN toWorker = 1..L /\ DOMAIN toWorker' = 1..(L - 1)
        /\ \A i \in 1..(L - 1) : toWorker'[i] = toWorker[i + 1]
        /\ Head(toWorker) = toWorker[1]
    BY <2>1 DEF Types
  <2>3. /\ toWorker[1].type # "channel" => fftCh' = fftCh
        /\ toWorker[1].type = "channel" => fftCh' = toWorker[1].ch
    BY <1>3, <2>2 DEF HandleSlot
  <2>. HIDE DEF L
  <2>4. 1 \in 1..L /\ \A i \in 1..(L - 1) : i + 1 \in 1..L /\ i + 1 > 1
    BY <2>2
  <2>5. CASE /\ \A i \in 1..L : toWorker[i].type # "channel"
             /\ fftCh = title
    BY <2>1, <2>2, <2>3, <2>4, <2>5 DEF TitleInv
  <2>6. ASSUME NEW i \in 1..L, toWorker[i].type = "channel", toWorker[i].ch = title,
               \A j \in 1..L : j > i => toWorker[j].type # "channel"
        PROVE  TitleInv'
    <3>1. CASE i = 1
      <4>1. \A j \in 1..(L - 1) : toWorker'[j].type # "channel"
        BY <2>2, <2>4, <2>6, <3>1
      <4>. QED
        BY <2>1, <2>2, <2>3, <2>6, <3>1, <4>1 DEF TitleInv
    <3>2. CASE i # 1
      <4>. DEFINE x == i - 1
      <4>1. x \in 1..(L - 1) /\ toWorker'[x] = toWorker[x + 1] /\ x + 1 = i
        BY <2>2, <3>2
      <4>. HIDE DEF x
      <4>2. ASSUME NEW j \in 1..(L - 1), j > x PROVE toWorker'[j].type # "channel"
        <5>1. j + 1 \in 1..L /\ j + 1 > i /\ toWorker'[j] = toWorker[j + 1]
          BY <2>2, <4>1, <4>2
        <5>. QED
          BY <2>6, <5>1
      <4>3. toWorker'[x].type = "channel" /\ toWorker'[x].ch = title'
        BY <2>1, <2>6, <4>1
      <4>. QED
        BY <2>2, <4>1, <4>2, <4>3 DEF TitleInv
    <3>. QED
      BY <3>1, <3>2
  <2>. QED
    BY <2>2, <2>5, <2>6 DEF TitleInv
<1>4. CASE OpenFiles \/ GetFrame \/ WriteRecord \/ WriteFails
  <2>1. UNCHANGED <<fftCh, toWorker, title>>
    BY <1>4 DEF OpenFiles, GetFrame, WriteRecord, WriteFails
  <2>. QED
    BY <2>1 DEF TitleInv
<1>5. CASE StartWorker \/ Start \/ PollOnce \/ NoFrame \/ Frame \/ Push \/
           Put \/ QueueFull \/ ThreadEnds
  <2>1. UNCHANGED <<fftCh, toWorker, title>>
    BY <1>5 DEF StartWorker, Start, PollOnce, NoFrame, Frame, UpdateFft, Push,
       Put,
       QueueFull, ThreadEnds
  <2>. QED
    BY <2>1 DEF TitleInv
<1>6. CASE HandleSignal \/ RenderLatestFrame \/ RmsMenu \/ SetTransforms
  <2>1. UNCHANGED <<fftCh, toWorker, title>>
    BY <1>6 DEF HandleSignal, RenderLatestFrame, Command, RmsMenu, SetTransforms
  <2>. QED
    BY <2>1 DEF TitleInv
<1>7. CASE QuitThread \/ WaitWorker \/ StopWriter \/ JoinWriter
  <2>1. UNCHANGED <<fftCh, toWorker, title>>
    BY <1>7 DEF QuitThread, WaitWorker, StopWriter, JoinWriter
  <2>. QED
    BY <2>1 DEF TitleInv
<1>. QED
  BY <1>1, <1>2, <1>3, <1>4, <1>5, <1>6, <1>7
  DEF Next, Writer, Worker, Gui, User, CloseEvent, AboutToQuit

(* All that the window relies on.                                          *)
ShownInv ==
  OscInv /\ RmsType /\ RmsIsUniform /\ RingInv /\ FftIsWindow /\ SpectrumInv /\ TitleInv

(* The invariant of the window.                                            *)
LEMMA ShownInvInit ==
  ASSUME OscAssumption, Init
  PROVE  ShownInv
<1>1. OscInv
  BY OscInvInit
<1>2. RmsType /\ RmsIsUniform
  <2>1. PICK w \in RmsWindows :
          rms = [on |-> TRUE, window |-> w, sig |-> view, hist |-> <<>>]
    BY DEF Init
  <2>2. w \in Nat \ {0} /\ view \in Transforms /\ <<>> \in Seq(RmsEntry)
    BY DEF OscAssumption, Arguments, Init
  <2>3. RmsType
    BY <2>1, <2>2 DEF RmsType
  <2>4. rms.hist = <<>> /\ rms.window = w
    BY <2>1
  <2>. QED
    BY <2>2, <2>3, <2>4 DEF RmsIsUniform
<1>3. RingInv /\ FftIsWindow
  <2>1. /\ fftFrames = 0 /\ frames = 0 /\ sum = 0 /\ fftCh \in Channel
        /\ AvgCount \in Nat \ {0} /\ MaxFrames \in Nat
    BY <1>1 DEF Init, OscInv, TypeOK, OscAssumption, Arguments
  <2>2. Total(fftCh)[0] \in Int
    BY <2>1, TotalFacts
  <2>3. (IF fftFrames < AvgCount THEN fftFrames ELSE AvgCount) = 0 /\ frames - 0 = 0
    BY <2>1
  <2>. QED
    BY <2>1, <2>2, <2>3 DEF RingInv, FftIsWindow
<1>4. SpectrumInv /\ TitleInv
  BY DEF Init, SpectrumInv, TitleInv, OscAssumption, Arguments
<1>. QED
  BY <1>1, <1>2, <1>3, <1>4 DEF ShownInv

LEMMA ShownInvStep ==
  ASSUME OscAssumption, ShownInv, [Next]_vars
  PROVE  ShownInv'
<1>1. OscInv'
  BY OscInvStep DEF ShownInv
<1>. QED
  BY <1>1, RmsStep, FftStep, SpectrumStep, TitleStep DEF ShownInv, OscInv

(* The spectrum, its title and the rolling RMS of the window of osc.py     *)
(* belong together for any averaging length, any menu and any interleaving *)
(* of the queued signals: the running sum is the power of the last frames, *)
(* a spectrum without a pending change is the one of the title, and the    *)
(* RMS is over different frames seen through the same transforms.          *)
THEOREM WindowsAreTrue == Spec => []ShownIsTrue
<1>1. Init => ShownInv
  BY OscAssumption, ShownInvInit
<1>2. ShownInv /\ [Next]_vars => ShownInv'
  BY OscAssumption, ShownInvStep
<1>3. ShownInv => ShownIsTrue
  <2>1. ASSUME ShownInv PROVE SpectrumIsOfTitle
    <3>1. SUFFICES ASSUME fftFrames >= EmitEvery, shown # NoSpectrum,
                          \A i \in DOMAIN toWorker : toWorker[i].type = "stop",
                          \A i \in DOMAIN toGui : toGui[i].type # "fft"
                   PROVE  Fresh(shown) /\ fftCh = title
      BY DEF SpectrumIsOfTitle, Fresh
    <3>2. fftCh = title
      BY <2>1, <3>1 DEF ShownInv, TitleInv
    <3>3. Fresh(shown)
      BY <2>1, <3>1 DEF ShownInv, SpectrumInv
    <3>. QED
      BY <3>2, <3>3
  <2>. QED
    BY <2>1 DEF ShownIsTrue, ShownInv
<1>. QED
  BY <1>1, <1>2, <1>3, PTL DEF Spec

-----------------------------------------------------------------------------
(***************************************************************************)
(*                       How long a shutdown takes                         *)
(***************************************************************************)
(* _cleanup is at work and its stop has reached a worker that runs.  (A    *)
(* worker that starts only now clears the stop; _cleanup then gives up on  *)
(* it after its wait.)                                                     *)
Stopping == gpc \in {"quit", "wait", "stop", "join"} /\ stopEvt /\ wpc # "new"

(* The steps that are left to the three threads.  To put a frame or the    *)
(* sentinel in the queue gives the writer as many steps as a frame has.    *)
FrameSteps == NumChannels + 1

GuiLeft(at) ==
  CASE at = "quit" -> FrameSteps + 4 [] at = "wait" -> FrameSteps + 3
    [] at = "stop" -> FrameSteps + 2 [] at = "join" -> 1 [] OTHER -> 0

WorkerLeft(at, slots) ==
  CASE at = "done" -> 0
    [] at = "loop" -> slots + 1
    [] at = "push" -> slots + 2
    [] at = "request" -> slots + 3
    [] OTHER -> slots + 2 + FrameSteps

WriterLeft(at, c, n) ==
  n * FrameSteps + (CASE at = "init" -> 1 [] at = "write" -> FrameSteps - c [] OTHER -> 0)

StopLeft ==
  GuiLeft(gpc) + WorkerLeft(wpc, Len(toWorker)) + WriterLeft(wr, k, Len(queue))

(* What they are at most, with the slots that are posted to the worker.    *)
StopCost(slots) == (QueueFrames + 3) * FrameSteps + slots + 5

LEMMA StopFacts ==
  ASSUME OscInv
  PROVE  /\ FrameSteps \in Nat /\ FrameSteps = NumChannels + 1 /\ NumChannels \in Nat \ {0}
         /\ Len(queue) \in Nat /\ Len(toWorker) \in Nat /\ k \in 1..NumChannels
         /\ Len(queue) <= QueueFrames /\ QueueFrames \in Nat
         /\ queue \in Seq(Nat) /\ toWorker \in Seq(WorkerSignal)
<1>1. NumChannels \in Nat \ {0} /\ QueueFrames \in Nat
  BY OscAssumption DEF Arguments
<1>2. queue \in Seq(Nat) /\ toWorker \in Seq(WorkerSignal)
  BY DEF OscInv, Types
<1>3. k \in 1..NumChannels /\ Len(queue) <= QueueFrames
  BY DEF OscInv, TypeOK, Channel
<1> QED  BY <1>1, <1>2, <1>3 DEF FrameSteps

(* A product with one frame more or less.                                  *)
LEMMA FramesOf ==
  ASSUME NEW f \in Nat, NEW m \in Nat
  PROVE  m * f \in Nat /\ (m + 1) * f = m * f + f
OBVIOUS

LEMMA FramesUpTo ==
  ASSUME NEW f \in Nat, NEW m \in Nat, NEW q \in Nat, m <= q
  PROVE  m * f <= q * f
<1>1. PICK d \in Nat : q = m + d
  BY m <= q, q - m \in Nat
<1>2. (m + d) * f = m * f + d * f /\ d * f \in Nat /\ m * f \in Nat
  OBVIOUS
<1> QED  BY <1>1, <1>2

(* The writer takes one of its steps with each.                            *)
LEMMA WriterTakes ==
  ASSUME OscInv, Writer
  PROVE  /\ WriterLeft(wr', k', Len(queue')) < WriterLeft(wr, k, Len(queue))
         /\ WriterLeft(wr', k', Len(queue')) \in Nat /\ WriterLeft(wr, k, Len(queue)) \in Nat
         /\ UNCHANGED <<worker, toWorker, gpc>>
<1> DEFINE F == FrameSteps
           m == Len(queue)
           A == WriterLeft(wr, k, m)
           B == WriterLeft(wr', k', Len(queue'))
<1>1. /\ F \in Nat /\ F = NumChannels + 1 /\ NumChannels \in Nat \ {0}
      /\ m \in Nat /\ k \in 1..NumChannels /\ queue \in Seq(Nat)
  BY StopFacts
<1>2. /\ A = m * F + (CASE wr = "init" -> 1 [] wr = "write" -> F - k [] OTHER -> 0)
      /\ B = Len(queue') * F + (CASE wr' = "init" -> 1 [] wr' = "write" -> F - k' [] OTHER -> 0)
  BY DEF WriterLeft
<1>3. m * F \in Nat
  BY <1>1, FramesOf
<1>4. UNCHANGED <<worker, toWorker, gpc>>
  BY DEF Writer, OpenFiles, GetFrame, WriteRecord, WriteFails, gui
<1>5. CASE OpenFiles
  <2>1. A = m * F + 1 /\ B = m * F
    <3>1. queue' = queue /\ wr = "init" /\ wr' \in {"get", "done"}
      BY <1>5 DEF OpenFiles
    <3> QED  BY <3>1, <1>2, <1>3
  <2> HIDE DEF A, B, F, m
  <2>2. B < A /\ A \in Nat /\ B \in Nat
    BY <2>1, <1>3
  <2> QED  BY <2>2, <1>4 DEF A, B, m
<1>6. CASE GetFrame
  <2>1. Len(queue') \in Nat /\ m = Len(queue') + 1
    BY <1>1, <1>6 DEF GetFrame
  <2>2. Len(queue') * F \in Nat /\ m * F = Len(queue') * F + F
    BY <2>1, <1>1, FramesOf
  <2>0. /\ wr = "get"
        /\ wr' = "done" \/ (wr' = "write" /\ k' = 1)
    BY <1>6 DEF GetFrame
  <2>3. A = m * F
    BY <1>2, <1>3, <2>0
  <2>4. \/ wr' = "done" /\ B = Len(queue') * F
        \/ wr' = "write" /\ k' = 1 /\ B = Len(queue') * F + (F - 1)
    BY <1>2, <2>0, <2>2
  <2> HIDE DEF A, B, F, m
  <2>5. B < A /\ A \in Nat /\ B \in Nat
    BY <1>1, <1>3, <2>2, <2>3, <2>4
  <2> QED  BY <2>5, <1>4 DEF A, B, m
<1>7. CASE WriteRecord
  <2>1. A = m * F + (F - k)
    BY <1>2, <1>7 DEF WriteRecord
  <2>2. \/ k < NumChannels /\ B = m * F + (F - (k + 1))
        \/ B = m * F
    <3>1. queue' = queue /\ wr = "write"
      BY <1>7 DEF WriteRecord
    <3>2. CASE k < NumChannels
      <4>1. k' = k + 1 /\ wr' = "write"
        BY <1>7, <3>2 DEF WriteRecord
      <4> QED  BY <3>1, <3>2, <4>1, <1>2
    <3>3. CASE ~(k < NumChannels)
      <4>1. wr' = "get"
        BY <1>7, <3>3 DEF WriteRecord
      <4> QED  BY <3>1, <4>1, <1>2, <1>3
    <3> QED  BY <3>2, <3>3
  <2> HIDE DEF A, B, F, m
  <2>3. B < A /\ A \in Nat /\ B \in Nat
    BY <1>1, <1>3, <2>1, <2>2
  <2> QED  BY <2>3, <1>4 DEF A, B, m
<1>8. CASE WriteFails
  <2>1. A = m * F + (F - k)
    BY <1>2, <1>8 DEF WriteFails
  <2>2. B = m * F
    BY <1>2, <1>3, <1>8 DEF WriteFails
  <2> HIDE DEF A, B, F, m
  <2>3. B < A /\ A \in Nat /\ B \in Nat
    BY <1>1, <1>3, <2>1, <2>2
  <2> QED  BY <2>3, <1>4 DEF A, B, m
<1> QED  BY <1>5, <1>6, <1>7, <1>8 DEF Writer

(* So does a worker that has been stopped; what it puts in the queue are   *)
(* steps it gives to the writer.                                           *)
LEMMA WorkerTakes ==
  ASSUME OscInv, Worker, stopEvt, wpc # "new"
  PROVE  /\ WorkerLeft(wpc', Len(toWorker')) + WriterLeft(wr', k', Len(queue'))
              < WorkerLeft(wpc, Len(toWorker)) + WriterLeft(wr, k, Len(queue))
         /\ stopEvt' /\ wpc' # "new" /\ gpc' = gpc
<1> DEFINE F == FrameSteps
           s == Len(toWorker)
           m == Len(queue)
           C == CASE wr = "init" -> 1 [] wr = "write" -> F - k [] OTHER -> 0
           A == WorkerLeft(wpc, s)
           B == WorkerLeft(wpc', Len(toWorker'))
           D == WriterLeft(wr, k, m)
           E == WriterLeft(wr', k', Len(queue'))
<1>1. F \in Nat /\ s \in Nat /\ m \in Nat /\ F - k \in Nat
  BY StopFacts
<1>2. m * F \in Nat /\ (m + 1) * F = m * F + F /\ C \in Nat
  BY <1>1, FramesOf
<1>3. wr' = wr /\ k' = k /\ gpc' = gpc
  BY DEF Worker, Start, PollOnce, NoFrame, Frame, Push, Put, QueueFull, HandleSlot, ThreadEnds,
         writer, gui
<1>4. D = m * F + C /\ E = Len(queue') * F + C
  BY <1>3 DEF WriterLeft
<1>5. /\ A = (CASE wpc = "done" -> 0 [] wpc = "loop" -> s + 1 [] wpc = "push" -> s + 2
                [] wpc = "request" -> s + 3 [] OTHER -> s + 2 + F)
      /\ B = (CASE wpc' = "done" -> 0 [] wpc' = "loop" -> Len(toWorker') + 1
                [] wpc' = "push" -> Len(toWorker') + 2
                [] wpc' = "request" -> Len(toWorker') + 3 [] OTHER -> Len(toWorker') + 2 + F)
  BY DEF WorkerLeft
<1>6. CASE NoFrame \/ Frame \/ Push \/ QueueFull \/ ThreadEnds
  <2>1. queue' = queue /\ toWorker' = toWorker
    BY <1>6 DEF NoFrame, Frame, Push, QueueFull, ThreadEnds
  <2>2. \/ wpc = "request" /\ wpc' \in {"loop", "push"}
        \/ wpc = "push" /\ wpc' = "loop"
        \/ wpc = "put" /\ wpc' \in {"loop", "push"}
        \/ wpc = "loop" /\ wpc' = "done"
    BY <1>6 DEF NoFrame, Frame, Push, QueueFull, ThreadEnds
  <2>3. stopEvt' = TRUE
    BY <1>6 DEF NoFrame, Frame, Push, QueueFull, ThreadEnds, Pushed
  <2>4. F >= 1
    BY StopFacts
  <2>5. E = D
    BY <2>1, <1>4
  <2>6. B < A /\ A \in Nat /\ B \in Nat
    BY <2>1, <2>2, <2>4, <1>1, <1>5
  <2> HIDE DEF A, B, C, D, E, F, s, m
  <2>7. B + E < A + D
    BY <2>5, <2>6, <1>2, <1>4
  <2> QED  BY <2>2, <2>3, <2>7, <1>3 DEF A, B, D, E, s, m
<1>7. CASE Put
  <2>1. toWorker' = toWorker /\ wpc = "put" /\ wpc' = "loop" /\ stopEvt' = TRUE
    BY <1>7 DEF Put, Pushed
  <2>2. Len(queue') = m + 1
    BY <1>7, StopFacts DEF Put
  <2>3. A = s + 2 + F /\ B = s + 1
    BY <2>1, <1>5
  <2>4. E = m * F + F + C
    BY <2>2, <1>2, <1>4
  <2> HIDE DEF A, B, C, D, E, F, s, m
  <2>5. B + E < A + D
    BY <2>3, <2>4, <1>1, <1>2, <1>4
  <2> QED  BY <2>1, <2>5, <1>3 DEF A, B, D, E, s, m
<1>8. CASE HandleSlot
  <2>1. queue' = queue /\ wpc = "loop" /\ wpc' = "loop" /\ stopEvt' = TRUE
    BY <1>8 DEF HandleSlot
  <2>2. Len(toWorker') \in Nat /\ s = Len(toWorker') + 1
    BY <1>8, StopFacts DEF HandleSlot
  <2>3. A = s + 1 /\ B = Len(toWorker') + 1 /\ E = D
    BY <2>1, <1>4, <1>5
  <2> HIDE DEF A, B, C, D, E, F, s, m
  <2>5. B + E < A + D
    BY <2>2, <2>3, <1>1, <1>2, <1>4
  <2> QED  BY <2>1, <2>5, <1>3 DEF A, B, D, E, s, m
<1>9. ~Start /\ ~PollOnce
  BY DEF Start, PollOnce
<1> QED  BY <1>6, <1>7, <1>8, <1>9 DEF Worker

(* The parts of the sum are numbers.                                       *)
LEMMA StopTypes ==
  ASSUME OscInv
  PROVE  /\ GuiLeft(gpc) \in Nat /\ GuiLeft(gpc) <= FrameSteps + 4
         /\ WorkerLeft(wpc, Len(toWorker)) \in Nat
         /\ WorkerLeft(wpc, Len(toWorker)) <= Len(toWorker) + 2 + FrameSteps
         /\ WriterLeft(wr, k, Len(queue)) \in Nat
         /\ WriterLeft(wr, k, Len(queue)) <= QueueFrames * FrameSteps + FrameSteps - 1
         /\ QueueFrames * FrameSteps \in Nat
         /\ (QueueFrames + 3) * FrameSteps = QueueFrames * FrameSteps + 3 * FrameSteps
<1> DEFINE F == FrameSteps
           m == Len(queue)
           C == CASE wr = "init" -> 1 [] wr = "write" -> F - k [] OTHER -> 0
<1>1. /\ F \in Nat /\ F >= 2 /\ m \in Nat /\ Len(toWorker) \in Nat /\ k \in 1..(F - 1)
      /\ m <= QueueFrames /\ QueueFrames \in Nat
  BY StopFacts
<1>2. GuiLeft(gpc) \in Nat /\ GuiLeft(gpc) <= F + 4
  BY <1>1 DEF GuiLeft
<1>3. WorkerLeft(wpc, Len(toWorker)) \in Nat /\ WorkerLeft(wpc, Len(toWorker)) <= Len(toWorker) + 2 + F
  BY <1>1 DEF WorkerLeft
<1>4. m * F \in Nat /\ m * F <= QueueFrames * F /\ QueueFrames * F \in Nat
  BY <1>1, FramesOf, FramesUpTo
<1>5. C \in Nat /\ C <= F - 1
  BY <1>1
<1>6. WriterLeft(wr, k, m) = m * F + C
  BY DEF WriterLeft
<1>7. (QueueFrames + 3) * F = QueueFrames * F + 3 * F
  BY <1>1
<1> HIDE DEF F, m, C
<1>8. WriterLeft(wr, k, m) \in Nat /\ WriterLeft(wr, k, m) <= QueueFrames * F + F - 1
  BY <1>1, <1>4, <1>5, <1>6
<1> QED  BY <1>2, <1>3, <1>4, <1>7, <1>8 DEF F, m

(* The GUI goes on without the worker and without the writer.              *)
LEMMA GuiTakes ==
  ASSUME OscInv, Gui, gpc \in {"quit", "wait", "stop", "join"}
  PROVE  /\ GuiLeft(gpc') + WriterLeft(wr', k', Len(queue'))
              < GuiLeft(gpc) + WriterLeft(wr, k, Len(queue))
         /\ gpc' \in {"wait", "stop", "join", "closed"}
         /\ UNCHANGED <<worker, toWorker>>
<1> DEFINE F == FrameSteps
           m == Len(queue)
           C == CASE wr = "init" -> 1 [] wr = "write" -> F - k [] OTHER -> 0
           A == GuiLeft(gpc)
           B == GuiLeft(gpc')
           D == WriterLeft(wr, k, m)
           E == WriterLeft(wr', k', Len(queue'))
<1>1. F \in Nat /\ F >= 2 /\ m \in Nat /\ F - k \in Nat /\ queue \in Seq(Nat)
  BY StopFacts
<1>2. m * F \in Nat /\ (m + 1) * F = m * F + F /\ C \in Nat
  BY <1>1, FramesOf
<1>3. D = m * F + C
  BY DEF WriterLeft
<1>4. /\ A = (CASE gpc = "quit" -> F + 4 [] gpc = "wait" -> F + 3 [] gpc = "stop" -> F + 2
                [] gpc = "join" -> 1 [] OTHER -> 0)
      /\ B = (CASE gpc' = "quit" -> F + 4 [] gpc' = "wait" -> F + 3 [] gpc' = "stop" -> F + 2
                [] gpc' = "join" -> 1 [] OTHER -> 0)
  BY DEF GuiLeft
<1>5. CASE QuitThread
  <2>1. E = D /\ A = F + 4 /\ B = F + 3
    BY <1>4, <1>5 DEF QuitThread, writer
  <2> HIDE DEF A, B, C, D, E, F, m
  <2>2. B + E < A + D
    BY <2>1, <1>1, <1>2, <1>3
  <2> QED  BY <2>2, <1>5 DEF QuitThread, A, B, D, E, m
<1>6. CASE WaitWorker
  <2>1. E = D /\ A = F + 3 /\ B = F + 2
    BY <1>4, <1>6 DEF WaitWorker, writer
  <2> HIDE DEF A, B, C, D, E, F, m
  <2>2. B + E < A + D
    BY <2>1, <1>1, <1>2, <1>3
  <2> QED  BY <2>2, <1>6 DEF WaitWorker, A, B, D, E, m
<1>7. CASE StopWriter
  <2>1. A = F + 2 /\ B = 1 /\ wr' = wr /\ k' = k
    BY <1>4, <1>7 DEF StopWriter, writer
  <2>2. Len(queue') \in {m, m + 1}
    <3>1. queue' = queue \/ queue' = Append(queue, Sentinel)
      BY <1>7 DEF StopWriter
    <3> QED  BY <3>1, <1>1 DEF Sentinel
  <2>3. E = Len(queue') * F + C
    BY <2>1 DEF WriterLeft
  <2>4. E \in {m * F + C, m * F + F + C}
    BY <2>2, <2>3, <1>2
  <2> HIDE DEF A, B, C, D, E, F, m
  <2>5. B + E < A + D
    BY <2>1, <2>4, <1>1, <1>2, <1>3
  <2> QED  BY <2>5, <1>7 DEF StopWriter, A, B, D, E, m
<1>8. CASE JoinWriter
  <2>1. A = 1 /\ B = 0
    BY <1>4, <1>8 DEF JoinWriter
  <2>2. queue' = queue /\ k' = k /\ wr' \in {wr, "killed"}
    BY <1>8 DEF JoinWriter
  <2>3. E \in {m * F + C, m * F}
    BY <2>2, <1>2 DEF WriterLeft
  <2> HIDE DEF A, B, C, D, E, F, m
  <2>4. B + E < A + D
    BY <2>1, <2>3, <1>1, <1>2, <1>3
  <2> QED  BY <2>4, <1>8 DEF JoinWriter, A, B, D, E, m
<1>9. ~StartWorker /\ ~HandleSignal /\ ~RenderLatestFrame /\ ~AboutToQuit
  BY DEF StartWorker, HandleSignal, RenderLatestFrame, AboutToQuit, Cleanup
<1> QED  BY <1>5, <1>6, <1>7, <1>8, <1>9 DEF Gui

(* While the window closes the steps that are left are never more than     *)
(* StopCost and each step of whichever thread takes one at least: the      *)
(* worker, its event loop and the writer do not keep each other going, and *)
(* what was posted before the stop is not more than it was.                *)
ShutdownIsBounded ==
  /\ [](Stopping => StopLeft \in 0..StopCost(Len(toWorker)))
  /\ [][Stopping => StopLeft' < StopLeft /\ (Stopping' \/ gpc' = "closed")]_vars

(* For any numbers of channels, frames in the queue and slots posted.      *)
THEOREM ShutdownsAreBounded == Spec => ShutdownIsBounded
<1>1. ASSUME OscInv, Stopping PROVE StopLeft \in 0..StopCost(Len(toWorker))
  <2> DEFINE F == FrameSteps
             s == Len(toWorker)
             A == GuiLeft(gpc)
             B == WorkerLeft(wpc, s)
             D == WriterLeft(wr, k, Len(queue))
             Q == QueueFrames * FrameSteps
  <2>1. F \in Nat /\ s \in Nat
    BY <1>1, StopFacts
  <2>2. /\ A \in Nat /\ A <= F + 4 /\ B \in Nat /\ B <= s + 2 + F
        /\ D \in Nat /\ D <= Q + F - 1 /\ Q \in Nat
        /\ (QueueFrames + 3) * F = Q + 3 * F
    BY <1>1, StopTypes
  <2>3. StopLeft = A + B + D /\ StopCost(s) = Q + 3 * F + s + 5
    BY <2>2 DEF StopLeft, StopCost
  <2> HIDE DEF F, s, A, B, D, Q
  <2>4. StopLeft \in 0..StopCost(s)
    BY <2>1, <2>2, <2>3
  <2> QED  BY <2>4 DEF s
<1>2. ASSUME OscInv, OscInv', Stopping, Next
      PROVE  StopLeft' < StopLeft /\ (Stopping' \/ gpc' = "closed")
  <2> DEFINE A == GuiLeft(gpc)
             B == WorkerLeft(wpc, Len(toWorker))
             D == WriterLeft(wr, k, Len(queue))
             X == GuiLeft(gpc')
             Y == WorkerLeft(wpc', Len(toWorker'))
             Z == WriterLeft(wr', k', Len(queue'))
  <2>1. A \in Nat /\ B \in Nat /\ D \in Nat
    BY <1>2, StopTypes
  <2>2. X \in Nat /\ Y \in Nat /\ Z \in Nat
    <3>1. (GuiLeft(gpc) \in Nat /\ WorkerLeft(wpc, Len(toWorker)) \in Nat
            /\ WriterLeft(wr, k, Len(queue)) \in Nat)'
      BY <1>2, StopTypes, PTL
    <3> QED  BY <3>1
  <2>3. StopLeft = A + B + D /\ StopLeft' = X + Y + Z
    BY DEF StopLeft
  <2>4. CASE Writer
    <3>1. Z < D /\ UNCHANGED <<worker, toWorker, gpc>>
      BY <1>2, <2>4, WriterTakes
    <3>2. X = A /\ Y = B /\ Stopping'
      BY <3>1, <1>2 DEF worker, Stopping
    <3> HIDE DEF A, B, D, X, Y, Z
    <3> QED  BY <2>1, <2>2, <2>3, <3>1, <3>2
  <2>5. CASE Worker
    <3>1. Y + Z < B + D /\ stopEvt' /\ wpc' # "new" /\ gpc' = gpc
      BY <1>2, <2>5, WorkerTakes DEF Stopping
    <3>2. X = A /\ Stopping'
      BY <3>1, <1>2 DEF Stopping
    <3> HIDE DEF A, B, D, X, Y, Z
    <3> QED  BY <2>1, <2>2, <2>3, <3>1, <3>2
  <2>6. CASE Gui
    <3>1. /\ X + Z < A + D /\ gpc' \in {"wait", "stop", "join", "closed"}
          /\ UNCHANGED <<worker, toWorker>>
      BY <1>2, <2>6, GuiTakes DEF Stopping
    <3>2. Y = B /\ (Stopping' \/ gpc' = "closed")
      BY <3>1, <1>2 DEF worker, Stopping
    <3> HIDE DEF A, B, D, X, Y, Z
    <3> QED  BY <2>1, <2>2, <2>3, <3>1, <3>2
  <2>7. ~User
    BY <1>2 DEF Stopping, User, CloseEvent, Cleanup, SelectFftChannel, ResetFft, RmsMenu,
                SetTransforms, Command
  <2> QED  BY <1>2, <2>4, <2>5, <2>6, <2>7 DEF Next
<1>3. Init /\ [][Next]_vars => []OscInv
  <2>1. Init => OscInv
    BY OscAssumption, OscInvInit
  <2>2. OscInv /\ [Next]_vars => OscInv'
    BY OscAssumption, OscInvStep
  <2> QED  BY <2>1, <2>2, PTL
<1>4. OscInv => (Stopping => StopLeft \in 0..StopCost(Len(toWorker)))
  BY <1>1
<1>5. OscInv /\ OscInv' /\ [Next]_vars =>
        [Stopping => StopLeft' < StopLeft /\ (Stopping' \/ gpc' = "closed")]_vars
  BY <1>2
<1> QED  BY <1>3, <1>4, <1>5, PTL DEF Spec, ShutdownIsBounded
=============================================================================
