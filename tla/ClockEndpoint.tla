--------------------------- MODULE ClockEndpoint ---------------------------
(***************************************************************************)
(* MT2_CONFIGURE_CLKS_REQ: choose the clock source, pulse the MMCM reset,  *)
(* wait for both lock bits (set_clock_source_and_mmcm_reset), then program *)
(* the endpoint address, pulse the endpoint reset and wait for the         *)
(* endpoint (set_endpoint_addr_and_reset).  Each half maps the registers   *)
(* anew, which throws when /dev/mem cannot be mapped; the router then      *)
(* answers with an empty payload.                                          *)
(*                                                                         *)
(* The lock bits and the endpoint status belong to the hardware and change *)
(* at any time; a reset takes them down.  With the local clock the         *)
(* endpoint may show a (fake) timestamp all the same.                      *)
(***************************************************************************)
EXTENDS Integers

CONSTANTS
  Ids,           \* ids of requests, 32-bit numbers
  AddressSpace,  \* endpoint addresses have 16 bits, 65536
  MaxClockPolls  \* polls of a status register before its deadline

ASSUME ClockAssumption ==
  Ids \subseteq Nat /\ AddressSpace \in Nat \ {0} /\ MaxClockPolls \in Nat

Source == {"local", "endpoint"}
Request == [source : Source, resetMmcm : BOOLEAN, id : Ids,
            resetEndpoint : BOOLEAN]

VARIABLES
  clkPc, req, polls,
  okClk,        \* what set_clock_source_and_mmcm_reset returned
  source,       \* CLOCK_SOURCE
  address,      \* ADDRESS of the endpoint
  locked,       \* both lock bits of endpointClockStatus
  epReady,      \* FSM_STATUS = 8 and TIMESTAMP_OK of endpointStatus
  clkAnswer,    \* the response: its success
  lockSeen, epReadySeen  \* history: the bits were seen up since the request
                         \* chose the source, and since it wrote the address

clockVars == <<clkPc, req, polls, okClk, source, address, locked, epReady,
               clkAnswer, lockSeen, epReadySeen>>

NoAnswer == [success |-> FALSE]
NoRequest == [source |-> "local", resetMmcm |-> FALSE, id |-> 0,
              resetEndpoint |-> FALSE]

ClockInit ==
  /\ clkPc = "idle" /\ req = NoRequest /\ polls = 0 /\ okClk = FALSE
  /\ source \in Source /\ address = 0
  /\ locked \in BOOLEAN /\ epReady \in BOOLEAN
  /\ clkAnswer = NoAnswer
  /\ lockSeen = FALSE /\ epReadySeen = FALSE

BeginClocks ==
  /\ clkPc = "idle"
  /\ clkPc' = "clock"
  /\ req' \in Request
  /\ clkAnswer' = NoAnswer
  /\ lockSeen' = FALSE /\ epReadySeen' = FALSE
  /\ UNCHANGED <<polls, okClk, source, address, locked, epReady>>

(* ParseFromString fails: answered, and nothing is done.                   *)
BadPayload ==
  /\ clkPc = "idle"
  /\ clkAnswer' = [success |-> FALSE]
  /\ UNCHANGED <<clkPc, req, polls, okClk, source, address, locked, epReady,
                 lockSeen, epReadySeen>>

(* EpRegs() of either half throws.                                         *)
MapFails ==
  /\ clkPc \in {"clock", "endpoint"}
  /\ clkPc' = "idle" /\ clkAnswer' = [success |-> FALSE]
  /\ UNCHANGED <<req, polls, okClk, source, address, locked, epReady, lockSeen,
                 epReadySeen>>

-----------------------------------------------------------------------------
(* The writes of set_clock_source_and_mmcm_reset.                          *)
SetClockSource ==
  /\ clkPc = "clock"
  /\ clkPc' = "waitLock" /\ polls' = 0
  /\ source' = req.source
  /\ locked' \in IF req.resetMmcm THEN {FALSE} ELSE {locked}
  /\ UNCHANGED <<req, okClk, address, epReady, clkAnswer, lockSeen, epReadySeen>>

Locked ==
  /\ clkPc = "waitLock" /\ locked
  /\ clkPc' = "endpoint" /\ okClk' = TRUE /\ lockSeen' = TRUE
  /\ UNCHANGED <<req, polls, source, address, locked, epReady, clkAnswer,
                 epReadySeen>>

NotLocked ==
  /\ clkPc = "waitLock" /\ ~locked /\ polls < MaxClockPolls
  /\ polls' = polls + 1
  /\ UNCHANGED <<clkPc, req, okClk, source, address, locked, epReady, clkAnswer,
                 lockSeen, epReadySeen>>

(* The deadline: the handler goes on with the endpoint.                    *)
LockTimeout ==
  /\ clkPc = "waitLock" /\ ~locked /\ polls = MaxClockPolls
  /\ clkPc' = "endpoint" /\ okClk' = FALSE
  /\ UNCHANGED <<req, polls, source, address, locked, epReady, clkAnswer,
                 lockSeen, epReadySeen>>

-----------------------------------------------------------------------------
(* Mutant: the id is not cut.                                              *)
Address_Uncut(id) == id

(* static_cast<uint16_t>(req.id())                                         *)
Address(id) == id % AddressSpace

(* The writes of set_endpoint_addr_and_reset.                              *)
SetEndpointAddr ==
  /\ clkPc = "endpoint"
  /\ clkPc' = "waitReady" /\ polls' = 0
  /\ address' = Address(req.id)
  /\ epReady' \in IF req.resetEndpoint THEN {FALSE} ELSE {epReady}
  /\ UNCHANGED <<req, okClk, source, locked, clkAnswer, lockSeen, epReadySeen>>

(* Mutant: the result of the clock half is forgotten.                      *)
Success_EndpointOnly(okEp) == okEp

Success(okEp) == okClk /\ okEp

EndpointReady ==
  /\ clkPc = "waitReady" /\ epReady
  /\ clkPc' = "idle" /\ epReadySeen' = TRUE
  /\ clkAnswer' = [success |-> Success(TRUE)]
  /\ UNCHANGED <<req, polls, okClk, source, address, locked, epReady,
                 lockSeen>>

(* Mutant: the poll counts from the start again.                           *)
EndpointNotReady_NoDeadline ==
  /\ clkPc = "waitReady" /\ ~epReady
  /\ polls' = IF polls < MaxClockPolls THEN polls + 1 ELSE 0
  /\ UNCHANGED <<clkPc, req, okClk, source, address, locked, epReady, clkAnswer,
                 lockSeen, epReadySeen>>

EndpointNotReady ==
  /\ clkPc = "waitReady" /\ ~epReady /\ polls < MaxClockPolls
  /\ polls' = polls + 1
  /\ UNCHANGED <<clkPc, req, okClk, source, address, locked, epReady, clkAnswer,
                 lockSeen, epReadySeen>>

ReadyTimeout ==
  /\ clkPc = "waitReady" /\ ~epReady /\ polls = MaxClockPolls
  /\ clkPc' = "idle"
  /\ clkAnswer' = [success |-> Success(FALSE)]
  /\ UNCHANGED <<req, polls, okClk, source, address, locked, epReady, lockSeen,
                 epReadySeen>>

-----------------------------------------------------------------------------
(* The MMCMs lock or lose lock, the endpoint becomes ready or loses it.    *)
Hardware ==
  /\ \/ locked' = ~locked /\ UNCHANGED epReady
     \/ epReady' = ~epReady /\ UNCHANGED locked
  /\ UNCHANGED <<clkPc, req, polls, okClk, source, address, clkAnswer, lockSeen,
                 epReadySeen>>

ClockStep ==
  \/ SetClockSource \/ Locked \/ NotLocked \/ LockTimeout
  \/ SetEndpointAddr \/ EndpointReady \/ EndpointNotReady \/ ReadyTimeout

ClockNext == BeginClocks \/ BadPayload \/ ClockStep \/ MapFails \/ Hardware

(* The router thread runs the handler to its end.                          *)
ClockSpec == ClockInit /\ [][ClockNext]_clockVars /\ WF_clockVars(ClockStep)

-----------------------------------------------------------------------------
ClockTypeOK ==
  /\ clkPc \in {"idle", "clock", "waitLock", "endpoint", "waitReady"}
  /\ req \in Request \cup {NoRequest} /\ polls \in 0..MaxClockPolls
  /\ okClk \in BOOLEAN /\ source \in Source
  /\ address \in 0..(AddressSpace - 1)
  /\ locked \in BOOLEAN /\ epReady \in BOOLEAN
  /\ clkAnswer.success \in BOOLEAN
  /\ lockSeen \in BOOLEAN /\ epReadySeen \in BOOLEAN

(* A configuration answered as successful has set the clock source and the *)
(* address it was asked for, has seen both lock bits up after it chose the *)
(* source, and the endpoint ready after it wrote the address.              *)
SuccessIsConfigured ==
  clkAnswer.success =>
    /\ source = req.source /\ address = req.id % AddressSpace
    /\ lockSeen /\ epReadySeen

(* The address register holds a value of its width and a success is one    *)
(* of the hardware too.                                                    *)
ClockIsConfigured == ClockTypeOK /\ SuccessIsConfigured

(* The handler ends, whatever the hardware does.                           *)
ConfigurationEnds == clkPc # "idle" ~> clkPc = "idle"

=============================================================================
