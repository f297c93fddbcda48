--------------------------- MODULE CurrentMonitor ---------------------------
(***************************************************************************)
(* The handler that reads a current: it talks to an ADS126x converter      *)
(* through the FIFOs of an AXI Quad SPI core.  A transfer loads the        *)
(* transmit FIFO and then collects as many bytes as it sent, with a        *)
(* deadline; on a timeout the handler gives up, and bytes may be left in   *)
(* both FIFOs for whoever comes next.                                      *)
(*                                                                         *)
(* The converter (external) does what a transfer says with the transfer's  *)
(* last byte, or misses it: it has no way to report that.  The last byte   *)
(* received is the only one the handler looks at.                          *)
(***************************************************************************)
EXTENDS Integers, Sequences

CONSTANTS
  CmChannels,  \* channels that clients ask for
  CmMux        \* the input of each channel that has one

ASSUME CurrentAssumption == DOMAIN CmMux \subseteq CmChannels

VARIABLES
  cm,        \* the handler: its step, channel, transfer and reading
  received,  \* bytes of the transfer so far
  spi,       \* the core: its FIFOs and whether it may transmit
  adc,       \* the converter: its input and what it converted last
  deaf,      \* history: the converter missed the START of this request
  current    \* the last answer

currentVars == <<cm, received, spi, adc, deaf, current>>

Transfer(op, reg, n) == [op |-> op, reg |-> reg, n |-> n]

(* read_current_monitor_raw, one transfer after the other.                 *)
Transfers ==
  << Transfer("RESET", "none", 2), Transfer("RREG", "ID", 3),
     Transfer("WREG", "MODE3", 2), Transfer("WREG", "MODE0", 2),
     Transfer("WREG", "PGA", 2), Transfer("WREG", "INPMUX", 2),
     Transfer("RREG", "INPMUX", 3), Transfer("START", "none", 2),
     Transfer("RDATA", "none", 5), Transfer("STOP", "none", 2),
     Transfer("RREG", "STATUS", 3) >>

CmIdle == [at |-> "idle", ch |-> 0, k |-> 1, reading |-> "none"]
NoCurrent == [ok |-> FALSE, ch |-> 0, reading |-> "none", deaf |-> FALSE]

CurrentInit ==
  /\ cm = CmIdle /\ received = <<>> /\ deaf = FALSE
  /\ spi = [tx |-> <<>>, rx |-> <<>>, on |-> FALSE]
  /\ adc = [mux |-> "reset", converted |-> "none"]
  /\ current = NoCurrent

T == Transfers[cm.k]   \* the transfer of this step

(* Both FIFOs are reset, and the receive FIFO drained as well.             *)
Emptied == [tx |-> <<>>, rx |-> <<>>, on |-> FALSE]

-----------------------------------------------------------------------------
Refuse(ch) == current' = [NoCurrent EXCEPT !.ch = ch]

(* A channel without an input is refused, and so is every one when the     *)
(* core cannot be mapped.  The core is reset.                              *)
ReadCurrent ==
  /\ cm.at = "idle"
  /\ \E ch \in CmChannels :
       \/ Refuse(ch) /\ UNCHANGED <<cm, spi, deaf>>
       \/ /\ ch \in DOMAIN CmMux
          /\ cm' = [CmIdle EXCEPT !.at = "load", !.ch = ch]
          /\ spi' = Emptied /\ deaf' = FALSE
          /\ current' = NoCurrent
  /\ UNCHANGED <<received, adc>>

LoadTransfer ==
  /\ cm.at = "load"
  /\ spi' = [Emptied EXCEPT !.tx = @ \o [i \in 1..T.n |-> i], !.on = TRUE]
  /\ received' = <<>>
  /\ cm' = [cm EXCEPT !.at = "poll"]
  /\ UNCHANGED <<adc, deaf, current>>

(* What the converter does with the transfer, when it does not miss it.    *)
Done(a) ==
  CASE T.op = "RESET" -> [mux |-> "reset", converted |-> "none"]
    [] T.op = "WREG" /\ T.reg = "INPMUX" -> [a EXCEPT !.mux = CmMux[cm.ch]]
    [] T.op = "START" -> [a EXCEPT !.converted = a.mux]
    [] OTHER -> a

(* The last byte it sends; an identity may be that of no converter.        *)
Answers ==
  CASE T.reg = "ID" -> {"ads", "other"}
    [] T.reg = "INPMUX" /\ T.op = "RREG" -> {adc.mux}
    [] T.op = "RDATA" -> {adc.converted}
    [] OTHER -> {"any"}

(* A byte goes out and one comes in.                                       *)
Shift ==
  /\ cm.at = "poll" /\ spi.on /\ spi.tx # <<>>
  /\ \E byte \in IF Len(spi.tx) = 1 THEN Answers ELSE {"any"} :
       spi' = [spi EXCEPT !.tx = Tail(@), !.rx = Append(@, byte)]
  /\ \/ Len(spi.tx) = 1 /\ adc' = Done(adc) /\ UNCHANGED deaf
     \/ UNCHANGED adc /\ deaf' = (deaf \/ (Len(spi.tx) = 1 /\ T.op = "START"))
  /\ UNCHANGED <<cm, received, current>>

PollByte ==
  /\ cm.at = "poll" /\ Len(received) < T.n /\ spi.rx # <<>>
  /\ received' = Append(received, Head(spi.rx))
  /\ spi' = [spi EXCEPT !.rx = Tail(@)]
  /\ UNCHANGED <<cm, adc, deaf, current>>

(* Mutant: the loop waits for its bytes.                                   *)
PollDeadline_None == FALSE /\ UNCHANGED currentVars

(* The core is stopped, and the handler answers an error.                  *)
PollDeadline ==
  /\ cm.at = "poll" /\ Len(received) < T.n /\ spi.rx = <<>>
  /\ spi' = [spi EXCEPT !.on = FALSE]
  /\ cm' = CmIdle /\ Refuse(cm.ch)
  /\ UNCHANGED <<received, adc, deaf>>

-----------------------------------------------------------------------------
LastByte == received[T.n]

(* Mutant: the input is not read back.                                     *)
Accepted_Unread == T.reg # "ID" \/ LastByte = "ads"

(* The identity must be that of a converter, and the input that is read    *)
(* back the one written.                                                   *)
Accepted ==
  /\ T.reg = "ID" => LastByte = "ads"
  /\ T.op = "RREG" /\ T.reg = "INPMUX" => LastByte = CmMux[cm.ch]

TransferDone ==
  /\ cm.at = "poll" /\ Len(received) = T.n
  /\ spi' = [spi EXCEPT !.on = FALSE]
  /\ LET reading == IF T.op = "RDATA" THEN LastByte ELSE cm.reading IN
       \/ /\ Accepted /\ cm.k < Len(Transfers)
          /\ cm' = [cm EXCEPT !.at = "load", !.k = @ + 1, !.reading = reading]
          /\ UNCHANGED current
       \/ /\ Accepted /\ cm.k = Len(Transfers)
          /\ cm' = CmIdle
          /\ current' = [ok |-> TRUE, ch |-> cm.ch, reading |-> reading, deaf |-> deaf]
       \/ ~Accepted /\ cm' = CmIdle /\ Refuse(cm.ch)
  /\ UNCHANGED <<received, adc, deaf>>

CurrentStep == LoadTransfer \/ PollByte \/ PollDeadline \/ TransferDone
CurrentNext == ReadCurrent \/ Shift \/ CurrentStep

(* The handler goes on; the core need not.                                 *)
CurrentFairness == WF_currentVars(CurrentStep)

CurrentSpec == CurrentInit /\ [][CurrentNext]_currentVars /\ CurrentFairness

-----------------------------------------------------------------------------
(* A current that is answered with success is a conversion of the channel  *)
(* of the request, made for that request: never a byte that a transfer     *)
(* which timed out had left in the FIFOs, nor a reading of the input that  *)
(* an earlier request had chosen.  The exception is a START that the       *)
(* converter missed, which read_current_monitor_raw cannot see.            *)
CurrentIsOfChannel ==
  current.ok /\ ~current.deaf => current.reading = CmMux[current.ch]

(* A read of a current always comes to an end, whatever the core does: the *)
(* router thread serves nobody else until then.                            *)
CurrentReadEnds == (cm.at # "idle") ~> (cm.at = "idle")

(* Every read of a current ends, and with success only for its channel.    *)
CurrentsAreRead == []CurrentIsOfChannel /\ CurrentReadEnds
=============================================================================
