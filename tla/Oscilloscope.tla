---------------------------- MODULE Oscilloscope ----------------------------
(***************************************************************************)
(* The oscilloscope client osc.py: the GUI thread, the acquisition worker  *)
(* in its QThread and the disk writer thread.  The worker asks for one     *)
(* waveform at a time, averages its spectrum, signals the GUI and puts the *)
(* frame in the bounded queue of the writer, which appends one record to   *)
(* the file of every channel.  Signals between the GUI and the worker are  *)
(* queued and handled in order by the event loop of the receiver.          *)
(*                                                                         *)
(* A frame is its number; what it carries for a channel is the pair of     *)
(* both.  How requests and replies find each other is in RouterServer:     *)
(* here a request ends with a frame, with an answer that is no frame, or   *)
(* because the worker is told to stop.  Status lines, axes and telemetry   *)
(* are left out.                                                           *)
(***************************************************************************)
EXTENDS Integers, Sequences

CONSTANTS
  NumChannels,    \* channels that are recorded
  QueueFrames,    \* save_queue_frames
  MaxWaveforms,   \* max_waveforms, 0 runs forever
  AvgCount,       \* fft_avg_waves
  EmitEvery,      \* fft_every
  RmsWindows,     \* rolling windows of the menu
  Transforms,     \* settings of the plot's transform menu
  DefaultView,    \* the setting it starts with
  Power,          \* spectral power of a channel in a frame
  MaxFrames,      \* bound: frames acquired
  MaxCommands     \* bound: what the user asks for

(* The arguments that main accepts.                                        *)
Arguments ==
  /\ NumChannels \in Nat \ {0} /\ QueueFrames \in Nat \ {0}
  /\ MaxWaveforms \in Nat /\ AvgCount \in Nat \ {0}
  /\ EmitEvery \in Nat \ {0} /\ RmsWindows \subseteq Nat \ {0}

ASSUME OscAssumption ==
  /\ Arguments
  /\ MaxFrames \in Nat /\ MaxCommands \in Nat /\ DefaultView \in Transforms
  /\ Power \in [(1..NumChannels) \X (1..MaxFrames) -> Nat]

Channel == 1..NumChannels

VARIABLES
  \* the worker
  wpc,         \* where the worker thread is
  stopEvt,     \* _stop_evt
  timer,       \* its timer is running
  frames,      \* _frames_acquired
  saving,      \* save_queue is not None
  \* its FFT average
  fftCh, ring, sum, fftFrames,
  \* the queues
  toGui, toWorker,  \* posted signals
  quit,             \* worker_thread.quit() was called
  queue,            \* the save queue
  \* the disk writer
  wr, item, k,  \* where it is, its frame, and the channel it writes next
  error,        \* _error is set
  files,        \* the records in each channel file
  \* the GUI
  gpc,                \* where the GUI thread is
  quitTimer,          \* the single shot of _on_acquisition_finished
  latest, rendered,   \* the newest frame and the one on the screen
  title, shown,       \* the channel named above the spectrum, the spectrum
  rms, view,          \* the rolling RMS and the transforms of the plot
  \* history
  append,     \* append_data
  pushed,     \* frames put in the queue
  gaveUp,     \* a wait of _cleanup timed out
  userClosed, \* the user closed the window
  commands

worker == <<wpc, stopEvt, timer, frames, saving>>
fft == <<fftCh, ring, sum, fftFrames>>
writer == <<wr, item, k, error, files>>
screen == <<latest, rendered, title, shown, rms, view>>
gui == <<gpc, quitTimer, screen>>
history == <<append, pushed, gaveUp, userClosed, commands>>
vars == <<worker, fft, toGui, toWorker, quit, queue, writer, gui, history>>

(* Frames are numbered from 1.                                             *)
Sentinel == 0
Old == 0        \* a record of an earlier run
Partial == -1   \* part of a record
NoSpectrum == [ch |-> 0, sum |-> 0, navg |-> 0]

-----------------------------------------------------------------------------
(* DaphneOscApp: the writer is started first, then the worker thread.  A   *)
(* folder may hold an earlier recording.                                   *)
Init ==
  /\ wpc = "new" /\ stopEvt = FALSE /\ timer = FALSE
  /\ frames = 0 /\ saving = TRUE
  /\ fftCh = 1 /\ ring = [s \in 0..(AvgCount - 1) |-> 0]
  /\ sum = 0 /\ fftFrames = 0
  /\ toGui = <<>> /\ toWorker = <<>> /\ quit = FALSE /\ queue = <<>>
  /\ wr = "init" /\ item = 0 /\ k = 1 /\ error = FALSE
  /\ files = [c \in Channel |-> <<Old>>]
  /\ gpc = "init" /\ quitTimer = FALSE
  /\ latest = 0 /\ rendered = 0 /\ title = 1 /\ shown = NoSpectrum
  /\ view = DefaultView
  /\ \E w \in RmsWindows :
       rms = [on |-> TRUE, window |-> w, sig |-> view, hist |-> <<>>]
  /\ append \in BOOLEAN /\ pushed = 0
  /\ gaveUp = FALSE /\ userClosed = FALSE /\ commands = 0

(* WaveformDiskWriter.wait_ready and the check of its error: a writer that *)
(* is not ready after 2 s is used all the same.                            *)
StartWorker ==
  /\ gpc = "init" /\ gpc' = "run"
  /\ saving' = ~error
  /\ UNCHANGED <<wpc, stopEvt, timer, frames, fft, toGui, toWorker, quit,
                 queue, writer, quitTimer, screen, history>>

-----------------------------------------------------------------------------
(* The disk writer.                                                        *)
OpenFiles ==
  /\ wr = "init"
  /\ \/ /\ wr' = "get" /\ error' = error
        /\ files' = IF append THEN files ELSE [c \in Channel |-> <<>>]
     \/ /\ wr' = "done" /\ error' = TRUE
        /\ \E opened \in 0..(NumChannels - 1) :
             files' = [c \in Channel |->
                         IF c <= opened /\ ~append THEN <<>> ELSE files[c]]
  /\ UNCHANGED <<item, k, worker, fft, toGui, toWorker, quit, queue, gui,
                 history>>

GetFrame ==
  /\ wr = "get" /\ queue # <<>>
  /\ queue' = Tail(queue)
  /\ IF Head(queue) = Sentinel THEN wr' = "done" /\ UNCHANGED <<item, k>>
     ELSE wr' = "write" /\ item' = Head(queue) /\ k' = 1
  /\ UNCHANGED <<error, files, worker, fft, toGui, toWorker, quit, gui,
                 history>>

(* Mutant: the first record of the last channel is missed.                 *)
Record_Skip(c) == IF c = NumChannels /\ item = 1 THEN <<>> ELSE <<item>>

(* tofile of one channel.                                                  *)
Record(c) == <<item>>

WriteRecord ==
  /\ wr = "write"
  /\ files' = [files EXCEPT ![k] = @ \o Record(k)]
  /\ IF k < NumChannels THEN k' = k + 1 /\ UNCHANGED wr
                        ELSE k' = 1 /\ wr' = "get"
  /\ UNCHANGED <<item, error, worker, fft, toGui, toWorker, quit, queue, gui,
                 history>>

(* Mutant: the writer goes on after an error.                              *)
WriteFails_GoOn ==
  /\ wr = "write"
  /\ wr' = "get" /\ error' = TRUE
  /\ files' \in {files, [files EXCEPT ![k] = Append(@, Partial)]}
  /\ UNCHANGED <<item, k, worker, fft, toGui, toWorker, quit, queue, gui,
                 history>>

(* A full disk or a frame of another shape: the record is missing or cut   *)
(* off and the writer ends.                                                *)
WriteFails ==
  /\ wr = "write"
  /\ wr' = "done" /\ error' = TRUE
  /\ files' \in {files, [files EXCEPT ![k] = Append(@, Partial)]}
  /\ UNCHANGED <<item, k, worker, fft, toGui, toWorker, quit, queue, gui,
                 history>>

Writer == OpenFiles \/ GetFrame \/ WriteRecord \/ WriteFails

-----------------------------------------------------------------------------
(* AcquisitionWorker.start.  A quit before the event loop runs ends the    *)
(* thread at once.                                                         *)
Start ==
  /\ wpc = "new" /\ gpc # "init"
  /\ stopEvt' = FALSE /\ timer' = TRUE
  /\ wpc' = IF quit THEN "done" ELSE "loop"
  /\ UNCHANGED <<frames, saving, fft, toGui, toWorker, quit, queue, writer,
                 gui, history>>

(* _poll_once up to the request.                                           *)
PollOnce ==
  /\ wpc = "loop" /\ timer /\ ~stopEvt
  /\ frames < MaxFrames
  /\ wpc' = "request"
  /\ UNCHANGED <<stopEvt, timer, frames, saving, fft, toGui, toWorker, quit,
                 queue, writer, gui, history>>

(* The request times out, is refused or its reply is no frame; or          *)
(* stop_checker ends it.                                                   *)
NoFrame ==
  /\ wpc = "request" /\ wpc' = "loop"
  /\ UNCHANGED <<stopEvt, timer, frames, saving, fft, toGui, toWorker, quit,
                 queue, writer, gui, history>>

(* Mutant: the oldest spectrum stays in the sum.                           *)
Leaving_None(slot) == 0

(* _update_fft: the spectrum that the new one replaces.                    *)
Leaving(slot) == IF fftFrames >= AvgCount THEN ring[slot] ELSE 0

UpdateFft(p) ==
  LET slot == fftFrames % AvgCount IN
  /\ sum' = sum - Leaving(slot) + p
  /\ ring' = [ring EXCEPT ![slot] = p]
  /\ fftFrames' = fftFrames + 1
  /\ UNCHANGED fftCh

(* fft_update.  The signal does not say which channel it is of; ch is      *)
(* history.                                                                *)
FftSignal ==
  IF fftFrames' % EmitEvery # 0 THEN <<>>
  ELSE <<[type |-> "fft", ch |-> fftCh, sum |-> sum',
          navg |-> IF fftFrames' >= AvgCount THEN AvgCount ELSE fftFrames']>>

(* The rest of _poll_once: count, average, signal the GUI, save.           *)
Frame ==
  /\ wpc = "request" /\ wpc' = "push"
  /\ frames' = frames + 1
  /\ UpdateFft(Power[<<fftCh, frames + 1>>])
  /\ toGui' = (toGui \o FftSignal) \o <<[type |-> "plot", frame |-> frames']>>
  /\ UNCHANGED <<stopEvt, timer, saving, toWorker, quit, queue, writer, gui,
                 history>>

(* The end of _poll_once and _finish_acquisition.                          *)
Pushed ==
  IF MaxWaveforms > 0 /\ frames >= MaxWaveforms
  THEN /\ stopEvt' = TRUE /\ timer' = FALSE
       /\ toGui' = Append(toGui, [type |-> "finished"])
  ELSE UNCHANGED <<stopEvt, timer, toGui>>

(* _push_save_frame looks at the stop event before every put.              *)
Push ==
  /\ wpc = "push"
  /\ IF saving /\ ~stopEvt
     THEN wpc' = "put" /\ UNCHANGED <<stopEvt, timer, toGui>>
     ELSE wpc' = "loop" /\ Pushed
  /\ UNCHANGED <<frames, saving, fft, toWorker, quit, queue, writer, gui,
                 history>>

(* Mutant: the queue has no bound.                                         *)
Put_Over ==
  /\ wpc = "put"
  /\ queue' = Append(queue, frames) /\ pushed' = pushed + 1
  /\ wpc' = "loop" /\ Pushed
  /\ UNCHANGED <<frames, saving, fft, toWorker, quit, writer, gui, append,
                 gaveUp, userClosed, commands>>

Put ==
  /\ wpc = "put" /\ Len(queue) < QueueFrames
  /\ queue' = Append(queue, frames) /\ pushed' = pushed + 1
  /\ wpc' = "loop" /\ Pushed
  /\ UNCHANGED <<frames, saving, fft, toWorker, quit, writer, gui, append,
                 gaveUp, userClosed, commands>>

(* Mutant: a full queue drops the frame.                                   *)
QueueFull_Drop ==
  /\ wpc = "put" /\ Len(queue) = QueueFrames
  /\ wpc' = "loop" /\ Pushed
  /\ UNCHANGED <<frames, saving, fft, toWorker, quit, queue, writer, gui,
                 history>>

(* Mutant: the put has no timeout.                                         *)
QueueFull_Block ==
  /\ wpc = "put" /\ Len(queue) = QueueFrames /\ FALSE
  /\ UNCHANGED vars

(* The queue stays full for 50 ms: go on waiting, unless the writer has    *)
(* failed.                                                                 *)
QueueFull ==
  /\ wpc = "put" /\ Len(queue) = QueueFrames
  /\ saving' = ~error
  /\ IF error THEN wpc' = "loop" /\ Pushed
              ELSE wpc' = "push" /\ UNCHANGED <<stopEvt, timer, toGui>>
  /\ UNCHANGED <<frames, fft, toWorker, quit, queue, writer, gui, history>>

(* Mutant: the count of the old channel goes on.                           *)
ClearFft_Count ==
  /\ ring' = [s \in 0..(AvgCount - 1) |-> 0]
  /\ sum' = 0 /\ UNCHANGED fftFrames

ClearFft ==
  /\ ring' = [s \in 0..(AvgCount - 1) |-> 0]
  /\ sum' = 0 /\ fftFrames' = 0

(* The slots set_fft_channel_index, reset_fft_average and stop.            *)
HandleSlot ==
  /\ wpc = "loop" /\ toWorker # <<>>
  /\ toWorker' = Tail(toWorker)
  /\ LET m == Head(toWorker) IN
     \/ /\ m.type = "channel" /\ m.ch # fftCh
        /\ fftCh' = m.ch /\ ClearFft
        /\ UNCHANGED <<stopEvt, timer>>
     \/ /\ m.type = "channel" /\ m.ch = fftCh
        /\ UNCHANGED <<fft, stopEvt, timer>>
     \/ /\ m.type = "reset" /\ ClearFft
        /\ UNCHANGED <<fftCh, stopEvt, timer>>
     \/ /\ m.type = "stop" /\ stopEvt' = TRUE /\ timer' = FALSE
        /\ UNCHANGED fft
  /\ UNCHANGED <<wpc, frames, saving, toGui, quit, queue, writer, gui,
                 history>>

(* The event loop ends; slots that are still queued may not run.           *)
ThreadEnds ==
  /\ wpc = "loop" /\ quit
  /\ wpc' = "done"
  /\ UNCHANGED <<stopEvt, timer, frames, saving, fft, toGui, toWorker, quit,
                 queue, writer, gui, history>>

Worker ==
  \/ Start \/ PollOnce \/ NoFrame \/ Frame \/ Push \/ Put \/ QueueFull
  \/ HandleSlot \/ ThreadEnds

-----------------------------------------------------------------------------
(* The slots _on_plot_update, _on_fft_update and _on_acquisition_finished. *)
HandleSignal ==
  /\ gpc = "run" /\ toGui # <<>>
  /\ toGui' = Tail(toGui)
  /\ LET m == Head(toGui) IN
     \/ /\ m.type = "plot" /\ latest' = m.frame
        /\ UNCHANGED <<shown, quitTimer>>
     \/ /\ m.type = "fft"
        /\ shown' = [ch |-> m.ch, sum |-> m.sum, navg |-> m.navg]
        /\ UNCHANGED <<latest, quitTimer>>
     \/ /\ m.type = "finished" /\ quitTimer' = TRUE
        /\ UNCHANGED <<latest, shown>>
  /\ UNCHANGED <<worker, fft, toWorker, quit, queue, writer, gpc, rendered,
                 title, rms, view, history>>

(* Mutant: the history survives a change of the transforms.                *)
Kept_Always == rms.hist

(* _update_rms_metrics: the values measured under other transforms go.     *)
Kept == IF rms.sig = view THEN rms.hist ELSE <<>>

(* A deque of at most n values.                                            *)
Newest(s, n) == IF Len(s) > n THEN SubSeq(s, Len(s) - n + 1, Len(s)) ELSE s

(* _render_latest_frame.                                                   *)
RenderLatestFrame ==
  /\ gpc = "run" /\ latest # rendered
  /\ rendered' = latest
  /\ rms' = IF ~rms.on THEN rms
            ELSE [rms EXCEPT
                   !.sig = view,
                   !.hist = Newest(Append(Kept, [frame |-> latest,
                                                 sig |-> view]), rms.window)]
  /\ UNCHANGED <<worker, fft, toGui, toWorker, quit, queue, writer, gpc,
                 quitTimer, latest, title, shown, view, history>>

Command ==
  /\ gpc = "run"
  /\ commands < MaxCommands /\ commands' = commands + 1
  /\ UNCHANGED <<worker, fft, toGui, quit, queue, writer, gpc, quitTimer,
                 latest, rendered, append, pushed, gaveUp, userClosed>>

SelectFftChannel ==
  /\ Command
  /\ \E c \in Channel :
       /\ title' = c /\ shown' = NoSpectrum
       /\ toWorker' = Append(toWorker, [type |-> "channel", ch |-> c])
  /\ UNCHANGED <<rms, view>>

ResetFft ==
  /\ Command
  /\ shown' = NoSpectrum
  /\ toWorker' = Append(toWorker, [type |-> "reset"])
  /\ UNCHANGED <<title, rms, view>>

(* _set_rms_enabled, _set_rms_window and _reset_rms_from_menu.             *)
RmsMenu ==
  /\ Command
  /\ \E on \in BOOLEAN, w \in RmsWindows :
       rms' = [rms EXCEPT !.on = on, !.window = w, !.hist = <<>>]
  /\ UNCHANGED <<toWorker, title, shown, view>>

(* The transform menu of the plot.                                         *)
SetTransforms ==
  /\ Command
  /\ view' \in Transforms
  /\ UNCHANGED <<toWorker, title, shown, rms>>

-----------------------------------------------------------------------------
(* _cleanup, from closeEvent or when the application quits: it stops the   *)
(* worker, waits for its thread, and then stops and joins the writer.      *)
Cleanup(byUser) ==
  /\ gpc = "run" /\ (byUser \/ quitTimer)
  /\ gpc' = "quit"
  /\ stopEvt' = TRUE
  /\ toWorker' = Append(toWorker, [type |-> "stop"])
  /\ userClosed' = byUser
  /\ UNCHANGED <<wpc, timer, frames, saving, fft, toGui, quit, queue, writer,
                 quitTimer, screen, append, pushed, gaveUp, commands>>

CloseEvent == Cleanup(TRUE)
AboutToQuit == Cleanup(FALSE)

QuitThread ==
  /\ gpc = "quit" /\ gpc' = "wait"
  /\ quit' = TRUE
  /\ UNCHANGED <<worker, fft, toGui, toWorker, queue, writer, quitTimer,
                 screen, history>>

(* worker_thread.wait(3000) gives up on a worker that is still at work: a  *)
(* request without an answer, or a stop that start() has cleared.          *)
WaitWorker ==
  /\ gpc = "wait" /\ gpc' = "stop"
  /\ \/ wpc = "done" /\ UNCHANGED gaveUp
     \/ wpc # "done" /\ gaveUp' = TRUE
  /\ UNCHANGED <<worker, fft, toGui, toWorker, quit, queue, writer,
                 quitTimer, screen, append, pushed, userClosed, commands>>

(* WaveformDiskWriter.stop: the sentinel, unless the writer has ended or   *)
(* its queue stays full for 2 s.                                           *)
StopWriter ==
  /\ gpc = "stop" /\ gpc' = "join"
  /\ \/ wr = "done" /\ UNCHANGED <<queue, gaveUp>>
     \/ /\ wr # "done" /\ Len(queue) < QueueFrames
        /\ queue' = Append(queue, Sentinel) /\ UNCHANGED gaveUp
     \/ /\ wr # "done" /\ Len(queue) = QueueFrames
        /\ gaveUp' = TRUE /\ UNCHANGED queue
  /\ UNCHANGED <<worker, fft, toGui, toWorker, quit, writer, quitTimer,
                 screen, append, pushed, userClosed, commands>>

(* Mutant: the join has no timeout.                                        *)
JoinWriter_Forever ==
  /\ gpc = "join" /\ gpc' = "closed" /\ wr = "done"
  /\ UNCHANGED <<worker, fft, toGui, toWorker, quit, queue, writer,
                 quitTimer, screen, history>>

(* join(5.0), and the end of the process, which ends the daemon thread     *)
(* wherever it is.                                                         *)
JoinWriter ==
  /\ gpc = "join" /\ gpc' = "closed"
  /\ \/ wr = "done" /\ UNCHANGED <<wr, gaveUp>>
     \/ wr # "done" /\ wr' = "killed" /\ gaveUp' = TRUE
  /\ UNCHANGED <<worker, fft, toGui, toWorker, quit, queue, item, k, error,
                 files, quitTimer, screen, append, pushed, userClosed,
                 commands>>

Gui ==
  \/ StartWorker \/ HandleSignal \/ RenderLatestFrame \/ AboutToQuit
  \/ QuitThread \/ WaitWorker \/ StopWriter \/ JoinWriter

User ==
  \/ CloseEvent \/ SelectFftChannel \/ ResetFft \/ RmsMenu \/ SetTransforms

(* The threads end with the process.                                       *)
Next ==
  \/ gpc # "closed" /\ (Writer \/ Worker)
  \/ Gui \/ User

(* The three threads run; nothing is assumed of the user and of requests   *)
(* that are not answered.                                                  *)
Spec ==
  /\ Init /\ [][Next]_vars
  /\ WF_vars(gpc # "closed" /\ Writer)
  /\ WF_vars(gpc # "closed" /\ Worker)
  /\ WF_vars(Gui)

-----------------------------------------------------------------------------
TypeOK ==
  /\ wpc \in {"new", "loop", "request", "push", "put", "done"}
  /\ stopEvt \in BOOLEAN /\ timer \in BOOLEAN /\ saving \in BOOLEAN
  /\ frames \in 0..MaxFrames /\ pushed \in 0..frames
  /\ fftCh \in Channel /\ sum \in Int /\ fftFrames \in 0..frames
  /\ ring \in [0..(AvgCount - 1) -> Nat]
  /\ Len(queue) <= QueueFrames
  /\ \A i \in DOMAIN queue : queue[i] \in 0..frames
  /\ wr \in {"init", "get", "write", "done", "killed"}
  /\ item \in 0..frames /\ k \in Channel /\ error \in BOOLEAN
  /\ gpc \in {"init", "run", "quit", "wait", "stop", "join", "closed"}
  /\ latest \in 0..frames /\ rendered \in 0..latest
  /\ title \in Channel /\ view \in Transforms

(* What this run has recorded for a channel.                               *)
Recorded(c) ==
  SubSeq(files[c], IF append THEN 2 ELSE 1, Len(files[c]))

FirstFrames(n) == [i \in 1..n |-> i]

(* The frames after the first n, up to the last, in a queue that may hold  *)
(* a sentinel.                                                             *)
InOrder(q, n, last) ==
  /\ n <= last
  /\ {q[i] : i \in DOMAIN q} \ {Sentinel} = (n + 1)..last
  /\ \A i, j \in DOMAIN q :
       i < j /\ Sentinel \notin {q[i], q[j]} => q[i] < q[j]

(* The file of every channel, the frame the writer holds and the save      *)
(* queue are together the frames put in the queue, in order: a full queue, *)
(* a slow disk or a channel that is written after the others loses,        *)
(* repeats and swaps nothing.                                              *)
SavedOrQueued ==
  wr \in {"get", "write"} =>
    \A c \in Channel :
      LET taken == Recorded(c)
                     \o (IF wr = "write" /\ c >= k THEN <<item>> ELSE <<>>)
      IN taken = FirstFrames(Len(taken)) /\ InOrder(queue, Len(taken), pushed)

(* Whatever ends the writer (a sentinel, an error, the end of the process) *)
(* every file is the old data and a prefix of the run, with at most one    *)
(* record cut off at its end, and no channel is more than one frame ahead  *)
(* of another.                                                             *)
RecordingIsPrefix ==
  (wr \in {"done", "killed"} /\ pushed > 0 /\ \A c \in Channel :
      files[c] # <<Old>>) =>
    \A c, d \in Channel :
      /\ \E n \in 0..pushed :
           Recorded(c) \in {FirstFrames(n),
                            Append(FirstFrames(n), Partial)}
      /\ Len(Recorded(c)) <= Len(Recorded(d)) + 1

(* A run that ends without an error and without a timeout of _cleanup has  *)
(* saved every frame it queued for every channel, and the max_waveforms    *)
(* asked for unless the user closed the window.                            *)
CompleteRecording ==
  (gpc = "closed" /\ ~gaveUp /\ ~error) =>
    /\ \A c \in Channel : Recorded(c) = FirstFrames(pushed)
    /\ userClosed \/ pushed = MaxWaveforms

(* The power of a channel in its first frames.                             *)
Total(c) ==
  LET T[n \in 0..MaxFrames] == IF n = 0 THEN 0 ELSE T[n - 1] + Power[<<c, n>>]
  IN T

(* The running sum of _update_fft is the power of the last frames of the   *)
(* selected channel, across resets and changes of the channel.             *)
FftIsWindow ==
  LET n == IF fftFrames < AvgCount THEN fftFrames ELSE AvgCount
  IN sum = Total(fftCh)[frames] - Total(fftCh)[frames - n]

(* fft_update does not name its channel, so a spectrum of the old channel  *)
(* can arrive under the new title.  Once the worker has taken the change,  *)
(* sent a spectrum, and the GUI has no update left, the spectrum is the    *)
(* title's own average.                                                    *)
SpectrumIsOfTitle ==
  ( /\ fftFrames >= EmitEvery /\ shown # NoSpectrum
    /\ \A i \in DOMAIN toWorker : toWorker[i].type = "stop"
    /\ \A i \in DOMAIN toGui : toGui[i].type # "fft" ) =>
    /\ shown.ch = title
    /\ fftFrames % EmitEvery = 0 => shown.sum = sum

(* The rolling RMS averages different frames, newest last, no more than    *)
(* its window, all seen through the same transforms of the plot.           *)
RmsIsUniform ==
  /\ Len(rms.hist) <= rms.window
  /\ \A i \in DOMAIN rms.hist :
       /\ rms.hist[i].sig = rms.sig
       /\ rms.hist[i].frame <= rendered
       /\ i > 1 => rms.hist[i - 1].frame < rms.hist[i].frame

(* Closing the window ends the program whatever the worker and the writer  *)
(* are doing: a full queue, a request without an answer, a dead writer.    *)
CloseEnds == gpc = "quit" ~> gpc = "closed"

(* An acquisition of max_waveforms ends the program once its last frame is *)
(* there, also when the disk is slow or has failed.                        *)
FinishEnds == (MaxWaveforms > 0 /\ frames = MaxWaveforms) ~> gpc = "closed"

(* What is on disk: at every moment it is what was acquired, in order, up  *)
(* to where the writer is, and complete after an orderly end.              *)
RecordingIsFaithful ==
  TypeOK /\ SavedOrQueued /\ RecordingIsPrefix /\ CompleteRecording

(* What the window shows: spectrum, title and RMS belong together.         *)
ShownIsTrue == FftIsWindow /\ SpectrumIsOfTitle /\ RmsIsUniform

(* The program ends when it is closed and when it is done.                 *)
OscEnds == CloseEnds /\ FinishEnds
=============================================================================
