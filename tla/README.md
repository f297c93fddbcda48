# Verification of daphneZMQ

daphneZMQ is the slow-control software of the DAPHNE v3 readout board: a C++ server
(`daphneServer`, `srcs/server_controller/` over the classes in `srcs/`) that owns the board,
and Python programs that talk to it over ZeroMQ, drive the LED pulser of the test stand, and
record and analyse waveforms. This directory holds TLA+ models of their control logic, the
TLC configurations that check them on small instances, and TLAPS proofs of the main
properties of the server and its clients for every instance. `PROJECT.json` lists the parts of the system,
the runs, the mutants, which source lines each definition models, the findings, the hazards
and the theorems.

## 1. Inventory

### Processes, threads and how the parts interact

`daphneServer` has one **router thread**, which receives a request envelope, runs its handler
to the end and sends the reply; an **I2C_2 monitor** thread (HD mezzanines), an **I2C_1
monitor** thread (voltages), and, during a chunked spy buffer dump, a **producer thread**
joined before the reply ends. The handlers therefore never interleave with each other. They
interleave with the two monitors (a mutex and atomics), with the producer (a bounded queue),
with the hardware (bits that change by themselves, waits with a deadline) and, through queues
and timeouts, with the clients. Nothing is persisted: a restarted server
(`Restart=on-failure`) starts with empty tables in front of hardware that kept its state.

The **clients** are DEALER sockets with an identity. The ROUTER sends a reply to whatever
socket has the identity of the request, so a late reply is read by the next request of the
same socket, or by the next process of the same script. The two long-lived clients have
threads of their own: the oscilloscope a GUI, a worker and a writer thread, the panel the Qt
event loop. The **LED scans** run other programs (the pulser command, the acquisition client)
one after the other and keep their state in directories that survive an interrupt.

### The server

| part | source | state | what is hard | what makes it correct |
|---|---|---|---|---|
| router and clients | `router_server.cpp`, `v2_envelope.hpp` | queues, msg_id, correl_id | late replies, restarts | an answer is taken only by its request; every answered kind is answered; backlogs stay bounded |
| chunked dump | `spybuffer_chunker.cpp`, `bounded_queue.hpp` | queue of two, had_error, wf_start | two threads, failure of either, counters at their limit | the responses are the waveforms once, in order, and end announced |
| HD mezzanines | `DaphneI2CDrivers.cpp`, `monitoring.cpp`, handlers | rails, alerts, settings, powerStatus | two threads on one I2C switch, faults between write and readback | exclusive bus, no lost update, alerted blocks are switched off |
| trim and offset DACs | `Dac.cpp`, handlers | last word per channel, dictionary | a write programs two chips; no readback | what is reported is put out |
| gain, bias, HV DACs and configuration | `Dac.cpp`, `handlers.cpp` | DACs, enable, dictionary | dozens of steps that may throw; restart | a prefix is applied in order; the dictionary is right |
| self-trigger | `handlers.cpp` | thresholds, masks, controls | four mappings that may fail on their own | enabled channels have a threshold; success means enabled |
| trigger counters | `handlers.cpp` | counters of two words | they count while they are read | a count is never behind |
| current monitor | `handlers.cpp` | SPI FIFOs, ADS126x | timeouts leave bytes behind | a current is of its channel and its request |
| AFE registers | `Afe.cpp`, `Spi.cpp`, `defines.hpp` | chip registers, readout mode, dictionary | mode left behind by a timeout; read-modify-write | only the function's bits change; answers are true |
| link alignment | `FrontEnd.cpp`, `Daphne.cpp`, `alignAFE` | taps, bitslips, VTC, spy buffer | marginal links, late snapshots, deadline | success means verified |
| clocks and endpoint | `handlers.cpp` | source, address, lock and ready bits | bits change by themselves, deadlines | success means both halves were up |

### The Python programs

| part | source (`client/`) | what is hard | what makes it correct |
|---|---|---|---|
| oscilloscope | `osc.py` | three threads, a full save queue, a failing disk, close at any time | nothing is lost, swapped or half saved without an error; the program ends |
| HD mezzanine panel and command line | `hdmezz_control_v2.py` | late replies, crashes, the event loop blocked per call | lamps and knobs show what their block answered; every click returns; alerts are shown |
| scripts | `protobuf_full_smoketest_v2.py`, `configure_fe_min_v2.py`, `vbias_monitor_all.py`, ten others | late, lost and failed replies at any step | nothing foreign is written back; a good exit status is deserved |
| configuration from files | `pds_configure_utils.py`, `configure_fe_from_*.py`, ... | defaults, seeds, lists and overrides on top of each other; one board of many fails | each id once, the seed wins, boards keep apart |
| acquisition | `protobuf_acquire_list_channels.py` | four modes, one identity for all processes | files hold the waveforms of their process |
| LED pulser and scans | `ssp_led_control.py`, `dynamic_range_led/` | failures between register writes, kills, directories used again | what is recorded was taken as labelled; LEDs go off |
| charge windows and fits | `led_charge.py`, `reanalyze_led_charge_run.py`, `fit_cpp_histograms_parallel.py` | windows at the ends of a record; a pool that fails and is replaced | the window holds the pulse; one row per task |
| alignment with devmem | `align_all_afes.py` | accesses that fail half way | the summary is what the registers hold |
| SPI pins as GPIO | `ps_mio_spi_gpio_board.py`, `..._remote.py` | a failure at any write, commands on what earlier ones left | pins are claimed only under the overlay and given back |

Everything else is listed in `PROJECT.json` with the reason it is left out; see *Not
modelled*.

### Hazards

`PROJECT.json` lists forty, at the lines where they bite; each has properties. Others that
were met, and that no property is about because what would rule them out does not hold or is
a single line, are described under *Behaviours a reader may not expect*.

## 2. Modules

One module per part; `MC*` instantiates parts for TLC, `*Proof` holds theorems. Mutants are
operators named `Definition_Change`, defined before the definition they change.

Parts that share no state are checked in one run: the `MC` module extends them and has a
variable `system` that says which of them a behaviour is of. The others stay in one fixed
state, so the state spaces add up instead of multiplying, and each property speaks of the
behaviours of its own part. (`MCLed` needs no such variable: its parts have an "off" step.)

**RouterServer.** Clients, two FIFO queues per client, the router. `Serve` is one turn of
the loop: a message is dropped, or handled, and answered with `correl_id = msg_id`
(`MakeResponse`); a handler that throws is answered with an empty payload. `Keepers` model
`HDMezzClient`, which keeps its socket after an error, `Reopeners` the acquisition worker of
`osc.py`, which opens another socket under the same identity and so receives what was meant
for the old one. `Crash` empties the server and lets requests that had not left the client
survive.

**BoundedQueue, ChunkStream, SpyChunker.** `BoundedQueue` is the queue with its two condition
variables as sets of sleeping threads; a notification wakes one, and spurious wakeups happen.
`SpyChunker` extends it with the two threads of `for_each_spybuffer_chunk` and the branch of
the router that sends the chunks. Counters wrap at `Modulus` (2^32). `ChunkStream` is the
promise: chunks in order, each once, ended by one final chunk or by an error;
`ImplementsChunkStream` is the refinement.

**HDMezz.** The I2C switch, the output ports, the over-power flags and the settings of each
block; `HDMezzDriver` with its one `powerStatus` per rail; the handlers and the monitor as two
threads. A transaction is two steps, select and access, so the mutex is what keeps them
together. Any transaction may fail, and a write that took effect may fail in its readback.
`PowerControl` is what the two threads promise together, with no switch, mutex, readback or
request in flight: a job of a client or of the monitor switches the rails of one block, one a
step, while nobody else does; it succeeds with the rails it wants or gives up; a shutdown
begins only on a latched alert. `Job` and `PowerAnswer` map the state to it, and
`ImplementsPowerControl` is the refinement. It does not promise that alerts are acted on,
which does not hold of several blocks (see *Behaviours a reader may not expect*).

**HDMezzPanel.** The widgets of `hdmezz_control_v2.py`, its one socket, the auto refresh
timer, and the command line client beside it. The server is reduced to what the panel sees:
enable flags, settings, and statuses that change at any time. A click sends, blocks and
returns by `ReplyShown`, `ReplyRefused` or `CallTimeout`; a late reply stays in the socket.

**Oscilloscope.** GUI, worker and writer of `osc.py` with the signals between them as queues,
the bounded save queue, the FFT and RMS averages, and `_cleanup` with its waits.

**Scripts.** A script is a sequence of steps: what is sent, which checks its reply must pass,
and whether a failed check or a timeout is recorded, skipped or raised. `Program` gives the
steps of thirteen scripts; one set of actions runs them all.

**SeedOverlay, AcquireClient.** How the items of a `ConfigureRequest` are put together, for
six scripts, and which boards they reach; the four modes of the acquisition client.

**SspPulser, LedScan, ChargeWindow, FitPool.** The pulser command register by register;
intensity scan and VGAIN sweep over output directories whose files may be torn, with what
merge, monitor and reanalysis read from them as operators of the state; the window functions
over all short mean waveforms; the process pool of the fits and its thread fallback.
`Crash` cuts a scan off anywhere. Without `kill` it is Ctrl-C or a file that cannot be written,
and the `finally` clause of a sweep runs if `led_started` is set (`FinallyStops`); the scan has
then "raised", or was "killed" if that clause itself was cut off. With `kill` the terminal or
the session goes away, the running LED command with it. A kill of the scan's process alone,
which leaves the command running, is not modelled.

**DacRegister.** One register of one AFE: two chips, the remembered words, the dictionary.
A word names the chip channel it is for, so a channel never written has a word for channel 0.

**FrontEndConfig.** `configureDaphne` step by step, the single writes and reads, the
dictionary, the restart. A DAC write returns, throws before its trigger or throws after it.
The triggers (`TriggerControl`), the channel writes (`DacRegister`), the AFE functions
(`AfeRegister`) and the alignment (`FrontEndAlign`) are steps of it that may fail.

**TriggerControl, TriggerCounters, CurrentMonitor.** The trigger part of `configureDaphne`
write by write with a failure of each mapping; the counters, read in two words while they
count; the eleven transfers of a current reading byte by byte, over FIFOs that keep what a
timeout leaves and a converter that may miss a command.

**AfeRegister.** One AFE chip as a function from registers to sets of bits, its readout mode,
and the lines of `setRegister` and `getRegister` as steps: every SPI word may time out before
or after it reached the chip. `setAFEFunction` is a read, a write and a read. What the chip
does with a word (`Transfer`) is external: bit 1 of register 0 is the readout mode, bit 0 the
software reset, and in readout mode a word to another register shows it. With swapped bit
positions the shift count of the mask is negative; the model takes it modulo 32, as the
processor does.

**Runs, LongestRun, FrontEndAlign, DevmemAlign.** `Runs` defines runs of equal words;
`LongestRun` is the loop of `longestIdenticalSubsequenceIndices`, checked against that
definition, and `FrontEndAlign` uses the definition. Every capture may show any word. The
read that has no sleep before it may see the word captured before. `DevmemAlign` is the script
that does the same with devmem.

**ClockEndpoint.** The two halves of the clock configuration with their deadlines, over lock
and ready bits that change at any time and fall with a reset. Each half maps `/dev/mem` and
may throw.

**PsMioGpio.** Each command of the GPIO script as its sequence of sysfs and configfs writes,
any of which may fail or be the last before a kill; the next command starts from what is left.

## 3. Runs

Passing runs. A property of a run is one statement about a part; where it has several sides
it is a conjunction of named parts, in brackets below, and each part, like each property that
has none, has a mutant of the code that breaks it.

| run | instance | shows |
|---|---|---|
| `router_clients` | one client of each kind, 2 requests, 2 timeouts each, 1 crash | `OutcomesAreTrue`: no late reply is taken for another's answer; `BacklogIsBounded`, `AnswersArrive` |
| `stream_clients` | all sizes and chunk sizes in 3-bit counters, queue of 2; scripts with 2 AFEs, 2 processes, 1 late message, 1 restart, 1 foreign write; lists of up to 2 items; 2 processes of 2 waveforms | `ImplementsChunkStream`, `NoLostWakeup`, `OneFinal`, `EndIsAnnounced`; `ScriptsAreTrue` (`ScriptsTypeOK`, `WriteBackIsRead`, `EndIsHandled`, `SamplesAreTrue`); `SeedsAreApplied` (`NamedOnce`, `SeedWins`, `BoardsKeepApart`, `ZeroIsAnswered`); `AcquiredIsWhole` (`OscWritesOwn`, `DumpIsWhole`); `ProgramsEnd` (`StreamEnds`, `ScriptsEnd`, `AcquireEnds`) |
| `hdmezz_two_blocks` | 2 blocks, 2 requests, 1 fault | `BusExclusive`, `NoLostUpdate`, `SuccessIsTrue`, `AlertStaysLatched`, `ImplementsPowerControl` |
| `hdmezz_panel` | threads: 1 block, 3 requests, no fault; panel: 2 blocks, 1 message late, 1 crash | `AlertsAreActedOn` (`AlertedBlockIsOff`, `AlertShutsDown`, `OverPowerIsLatched`); `PanelShowsServer` (`PanelTypeOK`, `LampsAreFresh`, `KnobsHoldRecalled`, `ZeroIsDone`); `PanelAnswers` (`PanelReturns`, `AlertIsShown`) |
| `board_registers` | 2 channels per chip, values in and out of range; 1 low and 2 high triggers; 2 counters of two 1-bit words; 2 inputs and a channel without one | `SweptDacIsReported`; `TriggersAreAsAsked` (`TriggerTypeOK`, `EnabledHasThreshold`, `OkEnablesRequested`); `CountIsNotBehind`; `CurrentsAreRead` (`CurrentIsOfChannel`, `CurrentReadEnds`) |
| `afe_functions` | 2 registers besides 0, 5 functions, one of them with swapped positions and one that it overwrites, 1 timeout; 2 AFEs, lists of up to 2, 2 writing requests, 1 restart | `OtherBitsStay`, `ReadoutIsLeft`, `AnswerIsTrue`; `ConfigIsReported` (`ConfigTypeOK`, `PrefixIsApplied`, `ReportedIsSet`) |
| `fe_align` | 2 AFEs, 4 taps, 3 bitslips, 3 reads, 3 words; all vectors of up to 7 of 3 words; ids inside and outside the address space, 2 polls; devmem with 2 AFEs, 4 taps, 2 bitslips; 2 mezzanines with one output and one input | `AlignedIsVerified`, `ReturnsFirstLongestRun`; `ClockIsConfigured` (`ClockTypeOK`, `SuccessIsConfigured`); `ScriptReportsAreTrue` (`SummaryIsTrue`, `ZeroIsClean`); `ClaimsUnderOverlay`; `BringUpEnds` (`AlignmentEnds`, `ConfigurationEnds`) |
| `osc_record` | 2 channels, a save queue of 1, 2 frames, 1 command of the user | `RecordingIsFaithful` (`TypeOK`, `SavedOrQueued`, `RecordingIsPrefix`, `CompleteRecording`); `ShownIsTrue` (`FftIsWindow`, `SpectrumIsOfTitle`, `RmsIsUniform`); `OscEnds` (`CloseEnds`, `FinishEnds`) |
| `led_scan` | 3 LED channels, 2 intensities, 2 directories, 2 scans, 1 fault, 1 interrupt or kill; mean waveforms of 4 samples, samples asked for from -1 to 2; 3 fits, 2 workers | `DirectoriesAreTrue` (`ScanTypeOK`, `RecordedAsLabelled`, `DoneIsAnalyzed`, `MergeIsOfIntensity`, `ReanalysisIsOfIntensity`); `LedIsAsAsked` (`RunIsWhole`, `LedOff`, `ScanEnds`); `WindowsHoldPulse` (`WindowHoldsPulse`, `PedestalIsBaseline`, `DerivedHoldsPulse`, `DerivedPedestalIsBefore`); `FitsAreSound` (`OneRowPerTask`, `NoOverlap`, `FitEnds`) |

Runs that TLC must refute. Each states what a comment or a message of the repository says;
`findings` quotes it.

| run | what the code does |
|---|---|
| `hdmezz_shared_status` | one `powerStatus` per rail serves five blocks: after one is switched off, an alert of another is ignored |
| `fe_config_default` | an unset bias control is 0 and is applied; the default is only reached by values above 4095 |
| `acquire_stream` | the streaming mode, which is the default, parses replies as the deprecated envelope and ignores every chunk |

### Behaviours a reader may not expect

The actions named here have them; where a property exempts one, it says so.

*Server*

- `HDMezz`: a rail switched on whose readback fails counts as off (`DaphneI2CDrivers.cpp:226`),
  so its alert is ignored. The threads of `hdmezz_panel` therefore have no fault, and one block,
  since with two the shared `powerStatus` of `hdmezz_shared_status` shows. That the monitor is
  not kept from the mutex for good follows there from the bound on the requests only.
- `DacRegister`: a write beside a channel never written sends the companion's word 0, which
  sets channel 0 of the other chip to 0 (`Dac.cpp:186`). `SweptDacIsReported` starts after
  all channels were written for that reason. A configuration accepts trims above 4095, sends
  their low bits and reports them in full (`handlers.cpp:739`).
- `FrontEndConfig`: after a restart gains and biases read as 0 until they are written again
  (`Daphne.cpp:296`); `ReportedIsSet` exempts them as `forgotten`.
- `TriggerControl`: when the high mask register cannot be mapped and no high channel is
  requested, the configuration succeeds and high channels of an earlier one stay enabled
  (`handlers.cpp:620`). A configuration without channels leaves masks and thresholds alone.
  An `xcorr` whose low 28 bits are 0 sets the threshold 0.
- `TriggerCounters`: a carry between the two words gives a count 2^32 too large
  (`handlers.cpp:512`), so that of two successive readings the second can be the smaller one.
- `CurrentMonitor`: a START that the converter missed is not noticed; `CurrentIsOfChannel`
  exempts it. A missed RDATA is taken to be answered all the same. A timeout may leave the
  converter running until the next request resets it.
- `AfeRegister`: a timeout may leave readout mode on; the next write is lost, though answered
  with success and, as `AnswerIsTrue` says, with the value the register still has
  (`Afe.cpp:47`). A register read does not see what functions and resets have done
  (`handlers.cpp:1007`). `LVDS_OUTPUT_RATE_2X` has its bit positions the other way round
  (`defines.hpp:38`), so that its mask takes in bits 14 and 15, and setting it clears bit 15, which is
  `SINGLE-ENDED_CLK_MODE` (`defines.hpp:39`). `OtherBitsStay` goes by the bits that
  `afeFunctionDict` declares and names a swapped function as its one exception.
- `FrontEndAlign`: the read without a sleep (`Daphne.cpp:246`) may fail an AFE whose captures
  were all good, never the reverse. From the second alignment on the taps are cleared while
  VTC is enabled (`handlers.cpp:1266`).
- `ClockEndpoint`: the address is programmed though the MMCMs did not lock
  (`handlers.cpp:1692`), and readiness is not tied to the clock source (`handlers.cpp:683`).
- An exception of `on_chunk` would unwind past the joinable producer thread and end the server
  (`spybuffer_chunker.cpp:132`); the callback that the router passes does not throw.

*Clients*

- `RouterServer`: the reopened socket of `osc.py` takes over its identity at once. That a ROUTER
  refuses an identity while the connection that held it is still up is not modelled.
- After one timeout `HDMezzClient` reads every reply one request late and refuses it
  (`hdmezz_control_v2.py:79`) until it is restarted; `AlertIsShown` therefore assumes that
  replies are in step (`InStep`). A failed reply sets the widgets to zeros. A refresh sets the
  power checkboxes, also those the user has changed and not committed. The command line with
  its default identity is ignored by the ROUTER while a panel is open.
- `Scripts`: when a read fails, the "safe" write-back of the smoke test writes 0, and a
  write-back may undo what another client wrote in between. `configure_fe_min_v2.py` only
  prints a wrong correlation of its CONFIGURE answer, so it may take the late reply of an
  earlier run for it, and after a restart of the server end with 0 although its configuration
  was never handled; `EndIsHandled` is about the scripts that check. `success=False` is no
  failure for the smoke tests. A reading that is lost or shifted ends the bias monitor when it
  plots. The dual probe takes a late reply after it has opened its socket again.
- `SeedOverlay`: with `--host` and without `--board-id` the configuration of every board goes
  to the same host. `configure_fe_from_detail.py` ends with 0 when no board matches, and all
  end with 0 when the server reports `success=False`. Lists of different lengths are cut to
  the shortest; an id given twice in a file for `configure_daphne` is sent twice. A seed
  without `full_stream_channels` clears them.
- `AcquireClient`: all processes have the identity `client-compat`; the `-legacy` mode checks
  no correlation and takes the late reply of an earlier process.
- `Oscilloscope`: a spectrum of the channel before may be shown under the new title until the
  worker has sent the next one.
- LED scans: a directory used again may hold metadata that says "analyzed" beside raw files
  that were cut off; the properties speak of directories used with the same arguments. The
  monitor counts a point in progress as failed. A sweep writes its manifest between its LED
  command and `led_started = True` (`scan_led_vgain_sweep.py:290-296`): an interrupt or a failed
  write there leaves the LED on and sends no stop command, and a failed LED command sends none
  either. The intensity scan leaves the LED on when its calibration fails or raises, or when it
  is interrupted. `LedOff` speaks of scans that returned and of sweeps whose `led_started` was
  set. The 5-channel setting of the pulser does not clear channels 0 to 6. The
  reanalysis raises while it writes its summary when the first fit is good and a later one
  failed.
- Charge windows: `derive_window_from_mean` has no baseline when the search starts at sample 0.
  Its window may end at the peak, and so not hold it, when no sample after the pulse is asked
  for: `post_samples` is not raised to 1 there (`reanalyze_led_charge_run.py:230`) as it is in
  `reanchor_charge_window`. Its baseline goes on to sample 16 (`:227`) also when the pulse comes
  earlier, and `pedestal_window_for_charge` runs past a baseline that is shorter than the window
  (`led_charge.py:94-99`): both pedestals may then take in the pulse. `WindowsHoldPulse` states
  each part under the condition it needs.
- `DevmemAlign` leaves VTC disabled, and its reset of one AFE resets the delays of all.
- `PsMioGpio`: an overlay directory that was left empty is taken as active by later commands
  (`cut`), and removing the overlay for some mezzanines leaves lines of the others exported.

### Bounds

A bound is a constant named `Max...` or the size of a set in the `.cfg`. They are chosen so
that each case that the code tells apart happens, in any order: two blocks (the one written
last and another), two AFEs (one done, one failing), two clients of different kinds; one value
above full scale; a list whose last AFE does not exist or is out of range; one fault, since a
second one meets the same state as the first after the handler is abandoned; a timeout while
another request is on the way; a queue of two, which is the real one, and counters of three
bits, so that `wf_start` reaches its limit; two processes of a script, so that the second
meets what the first left; two scans, so that the second finds a directory of the first; a
save queue shorter than the recording. Two writing requests let a configuration meet what
an earlier request left. A user gives one pulser or GPIO command at a time. The panel is used
for watching, for setting up or through the command line (`use`), each with the buttons that
belong to it. Where a larger instance could matter, the theorems cover the server.

### Fairness

- Router and producer threads (`SpyChunker`), the steps of a running handler
  (`FrontEndAlign`, `ClockEndpoint`, `CurrentMonitor`) and of the two threads of `HDMezz`: weak
  fairness. They are operating-system threads that wait only for a mutex or a condition
  variable, or loop with a sleep and a deadline. Weak fairness is on the thread as a whole.
- `RouterServer`: weak fairness of serving and receiving per client; the router polls its
  socket forever and ZeroMQ delivers. `AnswersArrive` allows for a timeout or a crash.
- `Oscilloscope`: weak fairness of its three threads; every wait has a timeout.
- `HDMezzPanel`: weak fairness of the server, of reading a reply and of the poll timeout;
  strong fairness of the auto refresh, since Qt delivers a timer that is due whenever the
  event loop is free, between whatever clicks.
- `Scripts`, `AcquireClient`, the LED programs: weak fairness of a running process, whose
  waits all have timeouts.
- Never fair: faults, timeouts of others, crashes, new requests, users, changes of hardware.

Deadlock is checked, with a stuttering step where a program has ended, except in
`router_clients`, `osc_record` and `led_scan`, whose models end with their bounds.

## 4. Proofs

The theorems hold for every value of the constants under the named assumptions of the modules
(`NumBlocks \in Nat \ {0}`, `Expected \in Words`, ...). Each proof gives an inductive
invariant `IInv`, shows it of `Init`, shows one step per action, and derives the properties.

| module | theorems | what the inductive invariant adds, and why |
|---|---|---|
| `HDMezzProof` | types, `BusExclusive`, `NoLostUpdate`, `SuccessIsTrue`, `AlertStaysLatched`, `ShutdownIsWhole`, `AlertedBlockIsOff` for one block without faults, `ImplementsPowerControl`, `MutexIsGivenUp`, `PanelShowsServer` | power: where each thread may be (`ControlInv`) and how far a switch or calibration has come; the action properties follow from it; alerts: the rail that a shutdown has switched off stays off under the mutex (`ShutdownInv`), and the driver never believes less than the port drives, which holds of one block only since its flags are shared by all (`BelievedInv`); refinement: one lemma per group of steps, from the mutex, the switch invariants, and that a request being served has no answer yet and a block being shut down keeps its alert (`ServedInv`); panel: how many messages are under way and whose they are (`BacklogInv`), that a current request is that of the call and a current answer has a status which the server had since the call began (`FreshInv`), and that without a driver nothing is published (`DriverInv`) |
| `SpyChunkerProof` | types, `NoLostWakeup`, `OneFinal`, `EndIsAnnounced`, refinement of `ChunkStream`, `StreamIsBounded`, `AcquiredIsWhole` | stream: queue, packet and `wf_start` form a chain of adjacent chunks (`ChainInv`); assumes `NoWrap`: no request is within a chunk of 2^32 waveforms; acquisitions: the waveforms of a reply are triggers of the process that it answers, replies come in the order of their triggers, and what is written is older than what is still to be read (`ReplyInv`, `OscInv`, `DumpInv`) |
| `BoardProof` | types and `SweptDacIsReported` of `DacRegister`, `TriggersAreAsAsked`, `CountIsNotBehind`, `CurrentIsOfChannel`, `CurrentIsBounded` | DACs: how far a sweep is (`SweepInv`), and that swept channels have words for themselves; triggers: which thresholds and masks a configuration has written at each of its lines; counters: what the word in hand has to do with the counter since the read began, by arithmetic modulo a word; currents: which input the bytes in the FIFOs are of at each transfer, so that what a timeout left is flushed before it could be read |
| `AfeProof` | types, `OtherBitsStay`, `ReadoutIsLeft`, `AnswerIsTrue`, `ConfigIsReported`, `SeedsAreApplied` | registers: the readout mode at each line (`ModeInv`), and that what is shown, read and written back is the register outside the mask (`DataInv`), which is all that the bits declared for a function need: without it a write in the wrong mode would look possible; configurations: how many AFEs of the list are applied at each line, which is what makes "a prefix" inductive; requests of scripts: what the request under construction has after each turn of the loops over defaults and arguments (`Turn`, `Told`), and that the request at hand is one made from accepted arguments (`SeedInv`) |
| `AlignProof` | `ReturnsFirstLongestRun`, types and `AlignedIsVerified` of `FrontEndAlign`, `SummaryIsTrue`, `ClockIsConfigured`, `AlignIsBounded`, `ClockIsBounded`, `ClaimsUnderOverlay`, `ZeroIsClean`; `ScriptReportsAreTrue` and the three claims of the bring-up over `AllSpec`, the specification that the run checks | loop: the current run is maximal to the left, and no run that ended is longer or as long and earlier; alignment: reads counted so far and what holds of the AFEs already done; devmem: the same loop over the words read so far, and that a listed AFE is not touched again; clocks: what has been seen of the bits since the source and the address were written; SPI pins: which write to a line is the last of those left (`LineDone`), that claims come after the overlay of the same command or find it applied (`ClaimInv`), and that a removal is the last write (`OverlayDone`); `AllSpec`: each step of a board is one of one of its systems, so that their invariants hold together |
| `OscilloscopeProof` | `RecordingIsFaithful`, `ShownIsTrue`, `ShutdownIsBounded` | see below |
| `ClientsProof` | types, `OutcomesAreTrue`, `BacklogIsBounded`, `ScriptsAreTrue`, `ScriptIsBounded` | router, per client: ids on the way grow, replies name served requests, and the number on the way is at most one more than the timeouts; scripts: a message of a process is about the step its id names, a value in a reply was held since the process started (`MessagesInv`), and which steps a process has handled when it is at a given one (`HandledInv`) |
| `LedProof` | `DirectoriesAreTrue`, `RunIsWhole`, `LedOff`, `WindowsHoldPulse`, `OneRowPerTask`, `NoOverlap`, `ScanIsBounded`, `FitIsBounded` | scans: a command runs only while the scan waits for it and has written the channels below `k` as asked (`SspInv`, `CommandInv`), what the light is at each line of the scan (`LightInv`), that a stop command is owed from `led_started` on, which light and which point the files of a directory were made from (`PointOk`), and that points not reached yet are not marked analyzed, since the values of a scan grow and none comes twice (`WorkInv`); windows: a calibrated window has its onset and peak in the record and a baseline that is not empty, and the rest is what `Peak`, `Onset` and the walks `Left` and `Right` return, for any integers asked for; pool: only the executor in use has tasks that wait or run, and the rows collected so far are those of the tasks taken, one each (`PoolInv`); that the sort has a place for every row is the pigeonhole principle |

Type correctness of the modules in this table, except `TriggerControl`, `FrontEndConfig`,
`ClockEndpoint`, `Oscilloscope` and `HDMezzPanel`, is in no run: it is proved.

The oscilloscope has the longest argument. `OscInv` says, for each moment of the three
threads, that the files, the frame the writer has in hand, the save queue, the frame the
worker is about to put and the frames acquired so far are adjacent pieces of one sequence of
increasing numbers; that a sentinel is the last element of the queue and is put once, after
the worker has ended or given up; and what the GUI knows when it takes a recording for
complete. `ShownInv` adds that the ring of the FFT holds the last frames of the worker's
channel, so that the running sum is a difference of two totals, that the updates queued for
the GUI are in the order of the spectra, and that the RMS history was cleared when the
transform changed. `Total` is a recursive function; that it exists and satisfies its equation
is proved by the least counterexample, from `WellFoundedInduction`; so are the sums and walks
of `ChargeWindow`, the loops of `SeedOverlay`, and what `FlattenSeq` makes of the writes of
`PsMioGpio`: the last write to a line in lists put together is that of the last list that has
one, so that the order in `do_smoketest` (overlay, claims, pulses, releases, removal) decides
how every line ends.

What can be said of ends without fairness is proved as bounds: a number for each state, the
steps that are left, which is a natural number at most the one in the table, and which each
step of the program lowers. What no program decides (a lost lock bit, the other thread, a
restart of the server, another writer) does not raise it, but for the wakeups named.

| definition | steps at most | not raised by |
|---|---|---|
| `AlignIsBounded`, an alignment | `3 + MaxPolls + NAfe * (Taps + Slips + Reads + 3)` | the hardware |
| `ClockIsBounded`, CONFIGURE_CLKS | `2 * MaxClockPolls + 4` | the hardware |
| `CurrentIsBounded`, a current read | 77 | timeouts of the bus |
| `MutexIsGivenUp`, a hold of `i2c_2_mutex` | `20 * NumBlocks + 1` | the other thread |
| `StreamIsBounded`, a chunked answer | `6 * n + 7` for `n` waveforms | failures; a wakeup without a reason adds one |
| `ShutdownIsBounded`, `_cleanup` once the stop is set | `(QueueFrames + 3) * (NumChannels + 1) + 5`, and the slots posted to the worker | a full queue, a failing disk |
| `ScanIsBounded`, a scan or sweep | `After(points) + CommandCost + 4`: `Waveforms + CommandCost + 7` a point, with a command of `MaxAttempts + NumChannels + 3` | failed commands, kills |
| `FitIsBounded`, the fits of a reanalysis | `6 * Cardinality(Tasks) + 5` | a broken pool: all tasks may run twice |
| `ScriptIsBounded`, a script or a sweep of the monitor | `2 * (2 * Afes + 3) + 1` | late replies, restarts, other clients |

Where several threads share the work a bound alone would also hold of a deadlock; so
`StreamIsBounded` and `FitIsBounded` add that, until the end, one of them is at a line that
waits for nobody (`CanGoOn`, `FitsCanGoOn`). `ShutdownIsBounded` leaves out the worker that
enters `start()` after the stop: it clears the event and goes on until its socket times out or
the process ends. No such number exists for the panel and the acquisitions, which go on as long
as their users and servers do.

Only model-checked:

- liveness, since the prover does not treat fairness, beyond these bounds (`AlertShutsDown`, `OverPowerIsLatched`,
  `BringUpEnds`, `ProgramsEnd`, `AnswersArrive`, `OscEnds`, `PanelAnswers` and the ends of
  scans, fits and current reads);
- the refutations.

## 5. Not modelled

- Analysis, plotting and study scripts: batch programs over files in floating point, without
  state that outlives a statement worth checking. Of the charge analysis the windows and the
  pool are modelled, not the statistics and the fits.
- Clients of the deprecated envelope (`configure_fe_min.py`, `protobuf_configure_daphne.py`,
  `protobuf_acquire_channel.py` and others): the server drops what they send and they wait
  without end. `AcquireClient` has the one mode that does the same.
- The compression after an acquisition, which removes the data whenever the archive file
  exists, even if `tar` failed.
- Drawing, telemetry and histogram of the oscilloscope; trends and styles of the panel.
- The voltage monitor (publishes readings, decides nothing), the dump in one response (a
  bounded copy), bit fields and numbering tables, I2C and SPI wrappers (their failures are
  steps of the models), the unused `Endpoint` class, `srv.cpp`, the legacy controller that is
  not built, shell scripts, kernel modules, generated and vendored code.

## 6. Plan

Model and runs are as complete as the code allows without floating point, and the safety
properties of the runs are proved, `AlertedBlockIsOff` in the case in which it holds, with the
two refinements. The ends of what ends by itself are bounded. What is
left is out of reach of prover or model: the liveness properties under their fairness, which
TLC checks, and the statistics and fits in floating point.
