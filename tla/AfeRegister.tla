---------------------------- MODULE AfeRegister ----------------------------
(***************************************************************************)
(* The registers of an AFE chip behind the SPI of the FPGA (Afe.cpp): the  *)
(* handlers writeAFERegister, writeAFEFunction and readAFEReg, the         *)
(* functions that configureDaphne sets, and the reset of the AFEs.         *)
(*                                                                         *)
(* setRegister and getRegister are sequences of SPI words.  Bit 1 of       *)
(* register 0 puts the chip in readout mode, in which a word to another    *)
(* register shows that register instead of writing it.  Every word may end *)
(* in a timeout, before or after it has reached the chip; the exception    *)
(* leaves the chip in the mode it is in.  setAFEFunction reads a register, *)
(* changes the bits of one function and writes it back.                    *)
(*                                                                         *)
(* A register value is the set of its one bits.  The AFEs have a chip and  *)
(* a part of the state dictionary each and share nothing else: one is      *)
(* enough.  Handlers run one after the other in the router thread.         *)
(***************************************************************************)
EXTENDS Integers

CONSTANTS
  Reg,        \* addresses in register_list, without 0
  Width,      \* bits of a register, 16
  Requested,  \* values a client asks for, sets of bits of a 32-bit number
  Function,   \* names in afeFunctionDict
  RegOf, MsbOf, LsbOf,  \* where afeFunctionDict puts a function
  Options,    \* afeFunctionAvailableOptionsDict
  Unknown,    \* what the FPGA shows when the chip sends no register
  MaxTimeouts \* bound: SPI timeouts

Bit == 0..(Width - 1)
Value == SUBSET Bit
Address == Reg \cup {0}

ASSUME AfeAssumption ==
  /\ Reg \subseteq Nat \ {0}
  /\ Width \in Nat /\ Width > 1
  /\ \A v \in Requested : v \subseteq Nat
  /\ RegOf \in [Function -> Address]
  /\ LsbOf \in [Function -> Bit] /\ MsbOf \in [Function -> Bit]
  /\ Options \in [Function -> SUBSET Value]
  /\ Unknown \subseteq Value /\ Unknown # {}
  /\ MaxTimeouts \in Nat

VARIABLES
  pc, stage,  \* the line of setRegister or getRegister, and the call:
              \* the first getRegister, setRegister, the last getRegister
  op,         \* the request at hand or the last one
  value,      \* value_ & 0xFFFF of setRegister
  rd,         \* what getData returned last
  regs, readout, reset,  \* the chip, and the RESET bit of the FPGA
  shown,      \* DATA of the FPGA: what the chip sent with the last word
  dict,       \* the kAfeReg entries of the state dictionary
  answer,     \* the response: its success and returned value
  before,     \* history: the registers when the request came
  timeouts    \* history

chip == <<regs, readout, shown>>
vars == <<pc, stage, op, value, rd, chip, reset, dict, answer, before,
          timeouts>>

NoOp == [kind |-> "none"]
Write(r, v) == [kind |-> "write", reg |-> r, value |-> v]
SetFunction(f, v) == [kind |-> "function", fn |-> f, reg |-> RegOf[f],
                      value |-> v]
Read(r) == [kind |-> "read", reg |-> r]

NoAnswer == [status |-> "none", returned |-> {}]
Failure == [status |-> "error", returned |-> {}]
Success(v) == [status |-> "ok", returned |-> v]

Init ==
  /\ pc = "idle" /\ stage = "set" /\ op = NoOp
  /\ value = {} /\ rd = {}
  /\ regs = [r \in Reg |-> {}] /\ readout = FALSE /\ reset = FALSE
  /\ shown \in Unknown
  /\ dict = [r \in Address |-> {}]
  /\ answer = NoAnswer /\ before = regs /\ timeouts = 0

-----------------------------------------------------------------------------
(* value & 0xFFFF, and the conversion of configValue to uint16_t.          *)
Low16(v) == v \cap Bit

(* Mutant: the field is one bit too wide.                                  *)
Mask_Wide(f) == LsbOf[f]..(IF LsbOf[f] <= MsbOf[f] THEN MsbOf[f] + 1 ELSE Width - 1)

(* The bits of a function: ((1 << (msb - lsb + 1)) - 1) << lsb.  With the  *)
(* positions swapped the shift count is negative and taken modulo 32 by    *)
(* the processor, so that all bits from lsb up are meant.                  *)
Mask(f) == LsbOf[f]..(IF LsbOf[f] <= MsbOf[f] THEN MsbOf[f] ELSE Width - 1)

(* (registerValue & mask) >> lsb, and (value << lsb) & mask.               *)
FieldOf(f, v) == {b - LsbOf[f] : b \in v \cap Mask(f)}
InField(f, v) == {b + LsbOf[f] : b \in v} \cap Mask(f)

Modified(f, old, v) == (old \ Mask(f)) \cup InField(f, v)

-----------------------------------------------------------------------------
(* What a word does to the chip, and what the chip sends with it.          *)
Transfer(r, v) ==
  /\ \/ reset /\ UNCHANGED <<regs, readout>>
     \/ /\ ~reset /\ r = 0
        /\ readout' = (1 \in v /\ 0 \notin v)
        /\ regs' = IF 0 \in v THEN [q \in Reg |-> {}] ELSE regs
     \/ /\ ~reset /\ r # 0
        /\ regs' = IF readout THEN regs ELSE [regs EXCEPT ![r] = v]
        /\ UNCHANGED readout
  /\ IF readout /\ ~reset /\ r # 0 THEN shown' = regs[r]
     ELSE shown' \in Unknown

(* A request whose register or option is not in the lists is refused       *)
(* before any word is sent.                                                *)
Begin(o, line, call) ==
  /\ pc = "idle"
  /\ pc' = line /\ stage' = call
  /\ op' = o
  /\ answer' = NoAnswer /\ before' = regs
  /\ UNCHANGED <<rd, chip, reset, dict, timeouts>>

WriteAFERegister ==
  \E r \in Address, v \in Requested :
    /\ Begin(Write(r, v), "data", "set")
    /\ value' = Low16(v)

WriteAFEFunction ==
  \E f \in Function, v \in Requested :
    /\ Low16(v) \in Options[f]
    /\ Begin(SetFunction(f, v), "on", "get")
    /\ UNCHANGED value

Refuse ==
  /\ pc = "idle"
  /\ op' = NoOp /\ answer' = Failure /\ before' = regs
  /\ UNCHANGED <<pc, stage, value, rd, chip, reset, dict, timeouts>>

(* readAFEReg answers from the dictionary.                                 *)
ReadAFEReg ==
  \E r \in Address :
    /\ pc = "idle"
    /\ op' = Read(r) /\ answer' = Success(dict[r]) /\ before' = regs
    /\ UNCHANGED <<pc, stage, value, rd, chip, reset, dict, timeouts>>

(* setReset: while the bit is set the chip is in reset.                    *)
SetReset(b) ==
  /\ pc = "idle"
  /\ reset' = b
  /\ regs' = IF b THEN [q \in Reg |-> {}] ELSE regs
  /\ readout' = (readout /\ ~b)
  /\ op' = NoOp /\ answer' = Success({}) /\ before' = regs'
  /\ UNCHANGED <<pc, stage, value, rd, shown, dict, timeouts>>

(* doReset, of MT2_DO_AFE_RESET_REQ and configureDaphne.                   *)
DoReset ==
  /\ pc = "idle"
  /\ reset' = FALSE /\ regs' = [q \in Reg |-> {}] /\ readout' = FALSE
  /\ op' = NoOp /\ answer' = Success({}) /\ before' = regs'
  /\ UNCHANGED <<pc, stage, value, rd, shown, dict, timeouts>>

-----------------------------------------------------------------------------
(* setData(v) of register r at a line of setRegister or getRegister.       *)
SetData(line, next, r, v) ==
  /\ pc = line /\ pc' = next
  /\ Transfer(r, v)
  /\ UNCHANGED <<stage, op, value, rd, reset, dict, answer, before, timeouts>>

SendValue == SetData("data", "on", op.reg, value)
ReadoutOn == SetData("on", "select", 0, {1})
Select == SetData("select", "read", op.reg, {})

GetData ==
  /\ pc = "read" /\ pc' = "off"
  /\ rd' = shown
  /\ UNCHANGED <<stage, op, value, chip, reset, dict, answer, before,
                 timeouts>>

(* Mutant: the readout mode is not left.                                   *)
ReadoutOff_Kept == SetData("off", "return", 0, {1})

ReadoutOff == SetData("off", "return", 0, {})

(* The handler answers, and its locals are gone.                           *)
End(a) ==
  /\ pc' = "idle" /\ answer' = a
  /\ stage' = "set" /\ value' = {} /\ rd' = {}

(* The line that waitNotBusy throws at, with the word sent or not.         *)
Timeout ==
  /\ timeouts < MaxTimeouts
  /\ \/ pc \in {"data", "on", "select", "read", "off"} /\ UNCHANGED chip
     \/ pc = "data" /\ Transfer(op.reg, value)
     \/ pc = "on" /\ Transfer(0, {1})
     \/ pc = "select" /\ Transfer(op.reg, {})
     \/ pc = "off" /\ Transfer(0, {})
  /\ End(Failure)
  /\ timeouts' = timeouts + 1
  /\ UNCHANGED <<op, reset, dict, before>>

-----------------------------------------------------------------------------
(* setAFEFunction goes on with the value it has read.                      *)
WriteBack ==
  /\ pc = "return" /\ stage = "get"
  /\ pc' = "data" /\ stage' = "set"
  /\ value' = Modified(op.fn, rd, Low16(op.value))
  /\ UNCHANGED <<op, rd, chip, reset, dict, answer, before, timeouts>>

CheckBack ==
  /\ pc = "return" /\ stage = "set" /\ op.kind = "function"
  /\ pc' = "on" /\ stage' = "check"
  /\ UNCHANGED <<op, value, rd, chip, reset, dict, answer, before, timeouts>>

FunctionDone ==
  /\ pc = "return" /\ stage = "check"
  /\ End(Success(FieldOf(op.fn, rd)))
  /\ UNCHANGED <<op, chip, reset, dict, before, timeouts>>

(* Mutant: the answer repeats the request.                                 *)
Returned_Requested == value

(* readValue of setRegister.                                               *)
Returned == rd

WriteDone ==
  /\ pc = "return" /\ stage = "set" /\ op.kind = "write"
  /\ End(Success(Returned))
  /\ dict' = [dict EXCEPT ![op.reg] = Returned]
  /\ UNCHANGED <<op, chip, reset, before, timeouts>>

Request ==
  \/ WriteAFERegister \/ WriteAFEFunction \/ Refuse \/ ReadAFEReg
  \/ \E b \in BOOLEAN : SetReset(b)
  \/ DoReset

Line ==
  \/ SendValue \/ ReadoutOn \/ Select \/ GetData \/ ReadoutOff
  \/ WriteBack \/ CheckBack \/ FunctionDone \/ WriteDone

Next == Request \/ Line \/ Timeout

Spec == Init /\ [][Next]_vars

-----------------------------------------------------------------------------
TypeOK ==
  /\ pc \in {"idle", "data", "on", "select", "read", "off", "return"}
  /\ stage \in {"get", "set", "check"}
  /\ value \in Value /\ rd \in Value /\ shown \in Value
  /\ regs \in [Reg -> Value] /\ before \in [Reg -> Value]
  /\ readout \in BOOLEAN /\ reset \in BOOLEAN
  /\ dict \in [Address -> Value]
  /\ answer.status \in {"none", "ok", "error"} /\ answer.returned \in Value
  /\ timeouts \in 0..MaxTimeouts

(* The bits that afeFunctionDict declares for a function, high bit first.  *)
(* With the positions swapped it declares none.                            *)
Declared(f) == LsbOf[f]..MsbOf[f]
Swapped(f) == MsbOf[f] < LsbOf[f]

(* While and after a function is set, at every line and after a timeout at *)
(* any of them, all other registers and the bits of its register that are  *)
(* not declared for it are what they were when the request came.  A        *)
(* function with swapped positions is the exception: it leaves the bits    *)
(* below its low one, but overwrites those above, whichever function they  *)
(* belong to (LVDS_OUTPUT_RATE_2X clears SINGLE-ENDED_CLK_MODE).           *)
OtherBitsStay ==
  op.kind = "function" /\ op.reg # 0 =>
    LET own == IF Swapped(op.fn) THEN LsbOf[op.fn]..(Width - 1) ELSE Declared(op.fn)
    IN \A r \in Reg :
         \A b \in Bit : r # op.reg \/ b \notin own =>
           (b \in regs[r] <=> b \in before[r])

(* A write that is answered with success leaves the chip in a mode in      *)
(* which the next one is not lost.                                         *)
ReadoutIsLeft ==
  op.kind \in {"write", "function"} /\ answer.status = "ok" => ~readout

(* The value that a successful write or function answers with is what the  *)
(* chip holds, whatever earlier timeouts have left behind.                 *)
AnswerIsTrue ==
  op.kind \in {"write", "function"} /\ op.reg # 0 /\ ~reset
    /\ answer.status = "ok" =>
      answer.returned = IF op.kind = "write" THEN regs[op.reg]
                        ELSE FieldOf(op.fn, regs[op.reg])

=============================================================================
