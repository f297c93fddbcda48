------------------------------ MODULE AfeProof ------------------------------
(***************************************************************************)
(* The registers of an AFE, for every width, set of registers and fields,  *)
(* and the configuration of the front end, for every board, list of AFEs   *)
(* and width of the DACs.                                                  *)
(*                                                                         *)
(* The inductive invariant of the registers follows the readout mode, what *)
(* is shown and what was read through the lines of setRegister and         *)
(* getRegister; that of the configuration follows the list of AFEs.  Last  *)
(* come the requests that scripts make from seeds and options.             *)
(***************************************************************************)
EXTENDS AfeRegister, FrontEndConfig, SeedOverlay, SequenceTheorems,
        WellFoundedInduction, TLAPS

(***************************************************************************)
(*                         The registers of an AFE                         *)
(***************************************************************************)
WriteOp == [kind : {"write"}, reg : Address, value : SUBSET Nat]
FunctionOp ==
  {o \in [kind : {"function"}, fn : Function, reg : Address,
          value : SUBSET Nat] : o.reg = RegOf[o.fn]}
ReadOp == [kind : {"read"}, reg : Address]

(* A handler that sends words serves a write or a function.                *)
OpInv ==
  /\ op \in {NoOp} \cup WriteOp \cup FunctionOp \cup ReadOp
  /\ pc # "idle" =>
       /\ op \in WriteOp \cup FunctionOp
       /\ answer = NoAnswer
       /\ op \in WriteOp => stage = "set"
  /\ pc = "data" => stage = "set"

(* A function being set changes nothing outside its mask.                  *)
OutsideMaskStays ==
  op.kind = "function" /\ op.reg # 0 =>
    \A r \in Reg :
      IF r # op.reg THEN regs[r] = before[r]
      ELSE regs[r] \ Mask(op.fn) = before[r] \ Mask(op.fn)

(* The readout mode at each line.                                          *)
ModeInv ==
  /\ reset => ~readout
  /\ pc = "select" /\ ~reset => readout
  /\ pc \in {"read", "off"} /\ ~reset /\ op.reg # 0 => readout
  /\ pc = "return" => ~readout

(* What is shown and read is the register, and what is written back is the *)
(* register outside the function.                                          *)
DataInv ==
  op.kind \in {"write", "function"} /\ op.reg # 0 /\ ~reset =>
    /\ pc = "read" => shown = regs[op.reg]
    /\ pc \in {"off", "return"} => rd = regs[op.reg]
    /\ pc = "data" /\ op.kind = "function" =>
         value \ Mask(op.fn) = before[op.reg] \ Mask(op.fn)

IInv ==
  /\ TypeOK /\ OpInv /\ ModeInv /\ DataInv
  /\ OutsideMaskStays /\ ReadoutIsLeft /\ AnswerIsTrue

-----------------------------------------------------------------------------
LEMMA MaskInBit == \A f \in Function : Mask(f) \subseteq Bit
  BY AfeAssumption DEF Mask, Bit

(* Fields and modified registers are register values.                      *)
LEMMA FieldIsValue ==
  ASSUME NEW f \in Function, NEW v \in Value
  PROVE  FieldOf(f, v) \in Value
<1>1. \A b \in Mask(f) : b - LsbOf[f] \in Bit
  BY AfeAssumption DEF Mask, Bit
<1> QED
  BY <1>1 DEF FieldOf, Value

LEMMA ModifiedIsValue ==
  ASSUME NEW f \in Function, NEW old \in Value, NEW v
  PROVE  /\ Modified(f, old, v) \in Value
         /\ Modified(f, old, v) \ Mask(f) = old \ Mask(f)
<1>1. InField(f, v) \subseteq Mask(f)
  BY DEF InField
<1> QED
  BY <1>1, MaskInBit DEF Modified, Value

LEMMA InitInv == Init => IInv
<1> SUFFICES ASSUME Init PROVE IInv
  OBVIOUS
<1>1. TypeOK
  <2>1. /\ pc = "idle" /\ stage = "set" /\ value \in Value /\ rd \in Value
        /\ shown \in Value /\ timeouts \in 0..MaxTimeouts
    BY AfeAssumption DEF Init, Value
  <2>2. regs \in [Reg -> Value] /\ before \in [Reg -> Value]
    BY DEF Init, Value
  <2>3. dict \in [Address -> Value]
    BY DEF Init, Value
  <2>4. readout \in BOOLEAN /\ reset \in BOOLEAN
    BY DEF Init
  <2>5. answer.status = "none" /\ answer.returned \in Value
    BY DEF Init, NoAnswer, Value
  <2> QED
    BY <2>1, <2>2, <2>3, <2>4, <2>5 DEF TypeOK
<1>2. OpInv /\ ModeInv /\ DataInv
  BY DEF Init, OpInv, ModeInv, DataInv, NoOp
<1>3. OutsideMaskStays /\ ReadoutIsLeft /\ AnswerIsTrue
  BY DEF Init, OutsideMaskStays, ReadoutIsLeft, AnswerIsTrue, NoOp
<1> QED
  BY <1>1, <1>2, <1>3 DEF IInv

(* A word leaves the chip well typed, and a chip in reset as it is.        *)
LEMMA TransferType ==
  ASSUME IInv, NEW r \in Address, NEW v \in Value, Transfer(r, v)
  PROVE  /\ regs' \in [Reg -> Value] /\ readout' \in BOOLEAN
         /\ shown' \in Value
         /\ reset => ~readout'
<1>1. regs' \in [Reg -> Value]
  BY DEF IInv, TypeOK, Transfer, Address, Value
<1>2. readout' \in BOOLEAN
  <2>1. CASE ~reset /\ r = 0
    BY <2>1, Zenon DEF Transfer
  <2>2. CASE reset \/ r # 0
    BY <2>2, Zenon DEF Transfer, IInv, TypeOK
  <2> QED
    BY <2>1, <2>2
<1>3. shown' \in Value
  BY AfeAssumption DEF IInv, TypeOK, Transfer, Address
<1>4. reset => ~readout'
  BY DEF IInv, ModeInv, Transfer
<1> QED
  BY <1>1, <1>2, <1>3, <1>4

-----------------------------------------------------------------------------
(* A new request finds the handler idle, and looks at no old answer.       *)
LEMMA RequestStep ==
  ASSUME IInv, Request
  PROVE  IInv'
<1>1. CASE WriteAFERegister
  <2>1. PICK r \in Address, v \in Requested :
          Begin(Write(r, v), "data", "set") /\ value' = Low16(v)
    BY <1>1 DEF WriteAFERegister
  <2>2. Low16(v) \in Value /\ v \in SUBSET Nat
    BY AfeAssumption DEF Low16, Value
  <2>3. /\ op' \in WriteOp /\ op'.kind = "write" /\ op' \notin FunctionOp
        /\ pc' = "data" /\ stage' = "set"
        /\ answer' = NoAnswer /\ before' = regs /\ value' \in Value
        /\ UNCHANGED <<rd, chip, reset, dict, timeouts>>
    BY <2>1, <2>2 DEF Begin, Write, WriteOp, FunctionOp
  <2> QED
    BY <2>3 DEF IInv, TypeOK, OpInv, ModeInv, DataInv, OutsideMaskStays,
       ReadoutIsLeft, AnswerIsTrue, NoAnswer, chip, Value
<1>2. CASE WriteAFEFunction
  <2>1. PICK f \in Function, v \in Requested :
          Begin(SetFunction(f, v), "on", "get") /\ UNCHANGED value
    BY <1>2 DEF WriteAFEFunction
  <2>2. v \in SUBSET Nat /\ RegOf[f] \in Address
    BY AfeAssumption
  <2>3. /\ op' \in FunctionOp /\ op'.kind = "function" /\ op' \notin WriteOp
        /\ pc' = "on" /\ stage' = "get"
        /\ answer' = NoAnswer /\ before' = regs
        /\ UNCHANGED <<rd, chip, reset, dict, timeouts, value>>
    BY <2>1, <2>2 DEF Begin, SetFunction, WriteOp, FunctionOp
  <2> QED
    BY <2>3 DEF IInv, TypeOK, OpInv, ModeInv, DataInv, OutsideMaskStays,
       ReadoutIsLeft, AnswerIsTrue, NoAnswer, chip, Value
<1>3. CASE Refuse
  BY <1>3 DEF Refuse, NoOp, Failure, IInv, TypeOK, OpInv, ModeInv, DataInv,
     OutsideMaskStays, ReadoutIsLeft, AnswerIsTrue, chip, Value
<1>4. CASE ReadAFEReg
  <2>1. PICK r \in Address :
          /\ pc = "idle"
          /\ op' = Read(r) /\ answer' = Success(dict[r]) /\ before' = regs
          /\ UNCHANGED <<pc, stage, value, rd, chip, reset, dict, timeouts>>
    BY <1>4 DEF ReadAFEReg
  <2>2. /\ op' \in ReadOp /\ op'.kind = "read"
        /\ answer'.status = "ok" /\ answer'.returned \in Value
    BY <2>1 DEF Read, ReadOp, Success, IInv, TypeOK
  <2> QED
    BY <2>1, <2>2 DEF IInv, TypeOK, OpInv, ModeInv, DataInv,
       OutsideMaskStays, ReadoutIsLeft, AnswerIsTrue, chip
<1>5. ASSUME NEW b \in BOOLEAN, SetReset(b) \/ DoReset
      PROVE  IInv'
  <2>1. regs' \in [Reg -> Value] /\ before' = regs'
    BY <1>5 DEF SetReset, DoReset, IInv, TypeOK, Value
  <2>2. /\ readout' \in BOOLEAN /\ reset' \in BOOLEAN
        /\ reset' => ~readout'
    <3>1. CASE SetReset(b)
      BY <3>1, Zenon DEF SetReset
    <3>2. CASE DoReset
      BY <3>2, Zenon DEF DoReset
    <3> QED
      BY <1>5, <3>1, <3>2
  <2>3. /\ pc = "idle" /\ op' = NoOp
        /\ answer'.status = "ok" /\ answer'.returned \in Value
        /\ UNCHANGED <<pc, stage, value, rd, shown, dict, timeouts>>
    BY <1>5 DEF SetReset, DoReset, Success, Value
  <2> QED
    BY <2>1, <2>2, <2>3 DEF NoOp, IInv, TypeOK, OpInv, ModeInv, DataInv,
       OutsideMaskStays, ReadoutIsLeft, AnswerIsTrue
<1> QED
  BY <1>1, <1>2, <1>3, <1>4, <1>5 DEF Request

-----------------------------------------------------------------------------
(* What every word leaves alone.                                           *)
LEMMA WordFrame ==
  ASSUME IInv, NEW line, NEW next, NEW r \in Address, NEW v \in Value,
         SetData(line, next, r, v), line # "idle",
         next \in {"on", "select", "read", "return"}
  PROVE  /\ TypeOK' /\ OpInv'
         /\ pc = line /\ pc' = next /\ Transfer(r, v)
         /\ op \in WriteOp \cup FunctionOp /\ answer' = NoAnswer
         /\ reset => ~readout'
         /\ UNCHANGED <<stage, op, value, rd, reset, dict, before>>
<1>1. /\ pc = line /\ pc' = next /\ Transfer(r, v)
      /\ UNCHANGED <<stage, op, value, rd, reset, dict, answer, before,
                     timeouts>>
  BY DEF SetData
<1>2. /\ regs' \in [Reg -> Value] /\ readout' \in BOOLEAN
      /\ shown' \in Value /\ (reset => ~readout')
  BY <1>1, TransferType
<1>3. op \in WriteOp \cup FunctionOp /\ answer = NoAnswer
  BY <1>1 DEF IInv, OpInv
<1>4. TypeOK'
  BY <1>1, <1>2 DEF IInv, TypeOK
<1>5. OpInv'
  BY <1>1, <1>3 DEF IInv, OpInv
<1> QED
  BY <1>1, <1>2, <1>3, <1>4, <1>5

(* No word of a function, whether its line goes on or times out, changes   *)
(* a bit outside the function.                                             *)
LEMMA WordKeepsBits ==
  ASSUME IInv, pc # "idle",
         op.kind = "function", op.reg # 0,
         \/ pc = "data" /\ Transfer(op.reg, value)
         \/ pc = "on" /\ Transfer(0, {1})
         \/ pc = "select" /\ Transfer(op.reg, {})
         \/ pc = "off" /\ Transfer(0, {})
  PROVE  \A q \in Reg :
           IF q # op.reg THEN regs'[q] = before[q]
           ELSE regs'[q] \ Mask(op.fn) = before[q] \ Mask(op.fn)
<1> SUFFICES ASSUME NEW q \in Reg
             PROVE  IF q # op.reg THEN regs'[q] = before[q]
                    ELSE regs'[q] \ Mask(op.fn) = before[q] \ Mask(op.fn)
  OBVIOUS
<1>1. IF q # op.reg THEN regs[q] = before[q]
      ELSE regs[q] \ Mask(op.fn) = before[q] \ Mask(op.fn)
  BY DEF IInv, OutsideMaskStays
<1>2. CASE pc = "data" /\ Transfer(op.reg, value)
  <2>1. regs' = regs \/ (~reset /\ regs' = [regs EXCEPT ![op.reg] = value])
    BY <1>2 DEF Transfer
  <2>2. ~reset => value \ Mask(op.fn) = before[op.reg] \ Mask(op.fn)
    BY <1>2 DEF IInv, DataInv
  <2> QED
    BY <1>1, <2>1, <2>2 DEF IInv, TypeOK
<1>3. CASE pc = "on" /\ Transfer(0, {1})
  <2>1. regs' = regs
    BY <1>3 DEF Transfer
  <2> QED
    BY <1>1, <2>1
<1>4. CASE pc = "select" /\ Transfer(op.reg, {})
  <2>1. regs' = regs
    BY <1>4 DEF Transfer, IInv, ModeInv
  <2> QED
    BY <1>1, <2>1
<1>5. CASE pc = "off" /\ Transfer(0, {})
  <2>1. regs' = regs
    BY <1>5 DEF Transfer
  <2> QED
    BY <1>1, <2>1
<1> QED
  BY <1>2, <1>3, <1>4, <1>5

(* The value to write.                                                     *)
LEMMA SendValueStep == ASSUME IInv, SendValue PROVE IInv'
<1>0. op.reg \in Address /\ value \in Value
  BY DEF SendValue, SetData, IInv, OpInv, TypeOK, WriteOp, FunctionOp
<1>1. /\ TypeOK' /\ OpInv'
      /\ pc = "data" /\ pc' = "on" /\ Transfer(op.reg, value)
      /\ op \in WriteOp \cup FunctionOp /\ answer' = NoAnswer
      /\ reset => ~readout'
      /\ UNCHANGED <<stage, op, value, rd, reset, dict, before>>
  BY <1>0, WordFrame DEF SendValue
<1>2. ModeInv' /\ DataInv'
  BY <1>1 DEF ModeInv, DataInv
<1>3. OutsideMaskStays'
  <2>1. SUFFICES ASSUME op.kind = "function", op.reg # 0, NEW q \in Reg
                 PROVE  IF q # op.reg THEN regs'[q] = before[q]
                        ELSE regs'[q] \ Mask(op.fn) = before[q] \ Mask(op.fn)
    BY <1>1 DEF OutsideMaskStays
  <2> QED
    BY <1>1, <2>1, WordKeepsBits
<1>4. ReadoutIsLeft' /\ AnswerIsTrue'
  BY <1>1 DEF ReadoutIsLeft, AnswerIsTrue, NoAnswer
<1> QED
  BY <1>1, <1>2, <1>3, <1>4 DEF IInv

(* A word to register 0 that asks for no reset, or any word in readout     *)
(* mode or in reset, leaves the registers as they are.                     *)
LEMMA QuietWord ==
  ASSUME IInv, NEW r \in Address, NEW v \in Value, Transfer(r, v),
         0 \notin v, reset \/ readout \/ r = 0
  PROVE  /\ regs' = regs
         /\ ~reset /\ r # 0 => (readout' <=> readout) /\ shown' = regs[r]
<1>1. regs' = regs
  BY DEF Transfer
<1>2. ~reset /\ r # 0 => (readout' <=> readout)
  BY Zenon DEF Transfer
<1>3. ~reset /\ r # 0 => shown' = regs[r]
  BY DEF Transfer
<1> QED
  BY <1>1, <1>2, <1>3

LEMMA ReadoutOnStep == ASSUME IInv, ReadoutOn PROVE IInv'
<1>0. 0 \in Address /\ {1} \in Value /\ 0 \notin {1} /\ 1 \in {1}
  BY AfeAssumption DEF Address, Value, Bit
<1>1. /\ TypeOK' /\ OpInv'
      /\ pc = "on" /\ pc' = "select" /\ Transfer(0, {1})
      /\ op \in WriteOp \cup FunctionOp /\ answer' = NoAnswer
      /\ reset => ~readout'
      /\ UNCHANGED <<stage, op, value, rd, reset, dict, before>>
  BY <1>0, WordFrame DEF ReadoutOn
<1>2. regs' = regs
  BY <1>0, <1>1, QuietWord
<1>3. ~reset => readout'
  BY <1>0, <1>1, Zenon DEF Transfer
<1>4. ModeInv' /\ DataInv'
  BY <1>1, <1>2, <1>3 DEF ModeInv, DataInv
<1>5. OutsideMaskStays' /\ ReadoutIsLeft' /\ AnswerIsTrue'
  BY <1>1, <1>2 DEF IInv, OutsideMaskStays, ReadoutIsLeft, AnswerIsTrue,
     NoAnswer
<1> QED
  BY <1>1, <1>4, <1>5 DEF IInv

LEMMA SelectStep == ASSUME IInv, Select PROVE IInv'
<1>0. op.reg \in Address /\ {} \in Value /\ pc = "select"
  BY DEF Select, SetData, IInv, OpInv, WriteOp, FunctionOp, Value
<1>1. /\ TypeOK' /\ OpInv'
      /\ pc' = "read" /\ Transfer(op.reg, {})
      /\ op \in WriteOp \cup FunctionOp /\ answer' = NoAnswer
      /\ reset => ~readout'
      /\ UNCHANGED <<stage, op, value, rd, reset, dict, before>>
  BY <1>0, WordFrame DEF Select
<1>2. reset \/ readout
  BY <1>0 DEF IInv, ModeInv
<1>3. /\ regs' = regs
      /\ ~reset /\ op.reg # 0 =>
           (readout' <=> readout) /\ shown' = regs[op.reg]
  BY <1>0, <1>1, <1>2, QuietWord
<1>4. ModeInv' /\ DataInv'
  BY <1>1, <1>2, <1>3 DEF ModeInv, DataInv
<1>5. OutsideMaskStays' /\ ReadoutIsLeft' /\ AnswerIsTrue'
  BY <1>1, <1>3 DEF IInv, OutsideMaskStays, ReadoutIsLeft, AnswerIsTrue,
     NoAnswer
<1> QED
  BY <1>1, <1>4, <1>5 DEF IInv

LEMMA ReadoutOffStep == ASSUME IInv, ReadoutOff PROVE IInv'
<1>0. 0 \in Address /\ {} \in Value
  BY DEF Address, Value
<1>1. /\ TypeOK' /\ OpInv'
      /\ pc = "off" /\ pc' = "return" /\ Transfer(0, {})
      /\ op \in WriteOp \cup FunctionOp /\ answer' = NoAnswer
      /\ reset => ~readout'
      /\ UNCHANGED <<stage, op, value, rd, reset, dict, before>>
  BY <1>0, WordFrame DEF ReadoutOff
<1>2. regs' = regs
  BY <1>0, <1>1, QuietWord
<1>3. ~readout'
  <2>1. ~reset => ~readout'
    BY <1>1, Zenon DEF Transfer
  <2> QED
    BY <1>1, <2>1
<1>4. ModeInv' /\ DataInv'
  BY <1>1, <1>2, <1>3 DEF IInv, ModeInv, DataInv
<1>5. OutsideMaskStays' /\ ReadoutIsLeft' /\ AnswerIsTrue'
  BY <1>1, <1>2 DEF IInv, OutsideMaskStays, ReadoutIsLeft, AnswerIsTrue,
     NoAnswer
<1> QED
  BY <1>1, <1>4, <1>5 DEF IInv

-----------------------------------------------------------------------------
LEMMA GetDataStep == ASSUME IInv, GetData PROVE IInv'
<1>1. /\ pc = "read" /\ pc' = "off" /\ rd' = shown
      /\ UNCHANGED <<stage, op, value, regs, readout, shown, reset, dict,
                     answer, before, timeouts>>
  BY DEF GetData, chip
<1>2. TypeOK' /\ OpInv'
  BY <1>1 DEF IInv, TypeOK, OpInv
<1>3. ModeInv' /\ DataInv'
  BY <1>1 DEF IInv, ModeInv, DataInv
<1>4. OutsideMaskStays' /\ ReadoutIsLeft' /\ AnswerIsTrue'
  BY <1>1 DEF IInv, OutsideMaskStays, ReadoutIsLeft, AnswerIsTrue
<1> QED
  BY <1>2, <1>3, <1>4 DEF IInv

LEMMA TimeoutStep == ASSUME IInv, Timeout PROVE IInv'
<1>1. /\ pc # "idle" /\ pc' = "idle" /\ answer' = Failure
      /\ stage' = "set" /\ value' = {} /\ rd' = {}
      /\ UNCHANGED <<op, reset, dict, before>>
  BY DEF Timeout, End
<1>2. \/ UNCHANGED <<regs, readout, shown>>
      \/ pc = "data" /\ Transfer(op.reg, value)
      \/ pc = "on" /\ Transfer(0, {1})
      \/ pc = "select" /\ Transfer(op.reg, {})
      \/ pc = "off" /\ Transfer(0, {})
  BY DEF Timeout, chip
<1>3. timeouts' \in 0..MaxTimeouts
  <2>1. timeouts < MaxTimeouts /\ timeouts' = timeouts + 1
    BY DEF Timeout
  <2>2. timeouts \in 0..MaxTimeouts
    BY DEF IInv, TypeOK
  <2>3. timeouts + 1 \in 0..MaxTimeouts
    BY <2>1, <2>2, AfeAssumption
  <2> QED
    BY <2>1, <2>3
<1>4. op \in WriteOp \cup FunctionOp
  BY <1>1 DEF IInv, OpInv
<1>5. /\ regs' \in [Reg -> Value] /\ readout' \in BOOLEAN
      /\ shown' \in Value /\ (reset => ~readout')
  <2>1. CASE UNCHANGED <<regs, readout, shown>>
    BY <2>1 DEF IInv, TypeOK, ModeInv
  <2>2. ASSUME NEW r \in Address, NEW v \in Value, Transfer(r, v)
        PROVE  /\ regs' \in [Reg -> Value] /\ readout' \in BOOLEAN
               /\ shown' \in Value /\ (reset => ~readout')
    BY <2>2, TransferType
  <2>3. /\ 0 \in Address /\ op.reg \in Address
        /\ {} \in Value /\ {1} \in Value /\ value \in Value
    BY <1>4, AfeAssumption DEF Address, Value, Bit, WriteOp, FunctionOp,
       IInv, TypeOK
  <2> QED
    BY <1>2, <2>1, <2>2, <2>3
<1>6. TypeOK'
  BY <1>1, <1>3, <1>5 DEF IInv, TypeOK, Failure, Value
<1>7. OpInv' /\ ModeInv' /\ DataInv'
  BY <1>1, <1>4, <1>5 DEF OpInv, ModeInv, DataInv
<1>8. OutsideMaskStays'
  <2>1. SUFFICES ASSUME op.kind = "function", op.reg # 0
                 PROVE \A q \in Reg :
                         IF q # op.reg THEN regs'[q] = before[q]
                         ELSE regs'[q] \ Mask(op.fn)
                                = before[q] \ Mask(op.fn)
    BY <1>1 DEF OutsideMaskStays
  <2>2. CASE UNCHANGED <<regs, readout, shown>>
    BY <2>1, <2>2 DEF IInv, OutsideMaskStays
  <2> QED
    BY <1>1, <1>2, <2>1, <2>2, WordKeepsBits
<1>9. ReadoutIsLeft' /\ AnswerIsTrue'
  BY <1>1 DEF ReadoutIsLeft, AnswerIsTrue, Failure
<1> QED
  BY <1>6, <1>7, <1>8, <1>9 DEF IInv
-----------------------------------------------------------------------------
LEMMA WriteBackStep == ASSUME IInv, WriteBack PROVE IInv'
<1>1. /\ pc = "return" /\ stage = "get" /\ pc' = "data" /\ stage' = "set"
      /\ value' = Modified(op.fn, rd, Low16(op.value))
      /\ UNCHANGED <<op, rd, regs, readout, shown, reset, dict, answer,
                     before, timeouts>>
  BY DEF WriteBack, chip
<1>2. op \in FunctionOp /\ op \notin WriteOp /\ answer = NoAnswer
  BY <1>1 DEF IInv, OpInv, WriteOp, FunctionOp
<1>3. op.fn \in Function /\ op.reg \in Address /\ op.kind = "function"
  BY <1>2 DEF FunctionOp
<1>4. value' \in Value /\ value' \ Mask(op.fn) = rd \ Mask(op.fn)
  BY <1>1, <1>3, ModifiedIsValue DEF IInv, TypeOK
<1>5. TypeOK' /\ OpInv' /\ ModeInv'
  BY <1>1, <1>2, <1>4 DEF IInv, TypeOK, OpInv, ModeInv
<1>6. DataInv'
  <2>1. SUFFICES ASSUME op.reg # 0, ~reset
                 PROVE value' \ Mask(op.fn) = before[op.reg] \ Mask(op.fn)
    BY <1>1 DEF DataInv
  <2>2. rd = regs[op.reg] /\ op.reg \in Reg
    BY <1>1, <1>3, <2>1 DEF IInv, DataInv, Address
  <2>3. regs[op.reg] \ Mask(op.fn) = before[op.reg] \ Mask(op.fn)
    BY <1>3, <2>1, <2>2 DEF IInv, OutsideMaskStays
  <2> QED
    BY <1>4, <2>2, <2>3
<1>7. OutsideMaskStays' /\ ReadoutIsLeft' /\ AnswerIsTrue'
  BY <1>1 DEF IInv, OutsideMaskStays, ReadoutIsLeft, AnswerIsTrue
<1> QED
  BY <1>5, <1>6, <1>7 DEF IInv

LEMMA CheckBackStep == ASSUME IInv, CheckBack PROVE IInv'
<1>1. /\ pc = "return" /\ op.kind = "function"
      /\ pc' = "on" /\ stage' = "check"
      /\ UNCHANGED <<op, value, rd, regs, readout, shown, reset, dict,
                     answer, before, timeouts>>
  BY DEF CheckBack, chip
<1>2. op \in FunctionOp /\ op \notin WriteOp /\ answer = NoAnswer
  BY <1>1 DEF IInv, OpInv, WriteOp, FunctionOp
<1>3. TypeOK' /\ OpInv' /\ ModeInv' /\ DataInv'
  BY <1>1, <1>2 DEF IInv, TypeOK, OpInv, ModeInv, DataInv
<1>4. OutsideMaskStays' /\ ReadoutIsLeft' /\ AnswerIsTrue'
  BY <1>1 DEF IInv, OutsideMaskStays, ReadoutIsLeft, AnswerIsTrue
<1> QED
  BY <1>3, <1>4 DEF IInv

(* The two answers with success.                                           *)
LEMMA FunctionDoneStep == ASSUME IInv, FunctionDone PROVE IInv'
<1>1. /\ pc = "return" /\ stage = "check" /\ pc' = "idle"
      /\ answer' = Success(FieldOf(op.fn, rd))
      /\ stage' = "set" /\ value' = {} /\ rd' = {}
      /\ UNCHANGED <<op, regs, readout, shown, reset, dict, before, timeouts>>
  BY DEF FunctionDone, End, chip
<1>2. op \in FunctionOp /\ op.fn \in Function /\ op.kind = "function"
  BY <1>1 DEF IInv, OpInv, FunctionOp, WriteOp
<1>3. answer'.status = "ok" /\ answer'.returned = FieldOf(op.fn, rd)
  BY <1>1 DEF Success
<1>4. answer'.returned \in Value
  BY <1>2, <1>3, FieldIsValue DEF IInv, TypeOK
<1>5. TypeOK'
  BY <1>1, <1>3, <1>4 DEF IInv, TypeOK, Value
<1>6. OpInv' /\ ModeInv' /\ DataInv'
  BY <1>1, <1>2 DEF IInv, OpInv, ModeInv, DataInv
<1>7. OutsideMaskStays'
  BY <1>1 DEF IInv, OutsideMaskStays
<1>8. ReadoutIsLeft'
  BY <1>1 DEF IInv, ModeInv, ReadoutIsLeft
<1>9. AnswerIsTrue'
  BY <1>1, <1>2, <1>3 DEF IInv, DataInv, AnswerIsTrue
<1> QED
  BY <1>5, <1>6, <1>7, <1>8, <1>9 DEF IInv

LEMMA WriteDoneStep == ASSUME IInv, WriteDone PROVE IInv'
<1>1. /\ pc = "return" /\ pc' = "idle" /\ op.kind = "write"
      /\ answer' = Success(rd)
      /\ stage' = "set" /\ value' = {} /\ rd' = {}
      /\ dict' = [dict EXCEPT ![op.reg] = rd]
      /\ UNCHANGED <<op, regs, readout, shown, reset, before, timeouts>>
  BY DEF WriteDone, End, Returned, chip
<1>2. op \in WriteOp
  BY <1>1 DEF IInv, OpInv, FunctionOp, WriteOp
<1>3. answer'.status = "ok" /\ answer'.returned = rd
  BY <1>1 DEF Success
<1>4. TypeOK'
  BY <1>1, <1>3 DEF IInv, TypeOK, Value
<1>5. OpInv' /\ ModeInv' /\ DataInv'
  BY <1>1, <1>2 DEF IInv, OpInv, ModeInv, DataInv
<1>6. OutsideMaskStays' /\ ReadoutIsLeft'
  BY <1>1 DEF IInv, ModeInv, OutsideMaskStays, ReadoutIsLeft
<1>7. AnswerIsTrue'
  BY <1>1, <1>3 DEF IInv, DataInv, AnswerIsTrue
<1> QED
  BY <1>4, <1>5, <1>6, <1>7 DEF IInv

-----------------------------------------------------------------------------
LEMMA StepInv == IInv /\ [Next]_vars => IInv'
<1> SUFFICES ASSUME IInv, [Next]_vars PROVE IInv'
  OBVIOUS
<1>1. CASE Request
  BY <1>1, RequestStep
<1>2. CASE Line
  BY <1>2, SendValueStep, ReadoutOnStep, SelectStep, GetDataStep,
     ReadoutOffStep, WriteBackStep, CheckBackStep, FunctionDoneStep,
     WriteDoneStep DEF Line
<1>3. CASE Timeout
  BY <1>3, TimeoutStep
<1>4. CASE UNCHANGED vars
  BY <1>4 DEF vars, chip, IInv, TypeOK, OpInv, ModeInv, DataInv,
     OutsideMaskStays, ReadoutIsLeft, AnswerIsTrue
<1> QED
  BY <1>1, <1>2, <1>3, <1>4 DEF Next

THEOREM AfeInvariant == Spec => []IInv
  BY InitInv, StepInv, PTL DEF Spec

(* Registers, dictionary entries and answers are always 16-bit values.     *)
THEOREM AfeTypeCorrect == Spec => []TypeOK
<1>1. IInv => TypeOK
  BY DEF IInv
<1> QED
  BY <1>1, AfeInvariant, PTL

(* setAFEFunction changes the bits declared for its function and nothing   *)
(* else, even if any of its SPI words times out; with swapped positions,   *)
(* nothing below the low one.                                              *)
THEOREM FunctionChangesItsBits == Spec => []OtherBitsStay
<1>1. IInv => OtherBitsStay
  <2> SUFFICES ASSUME IInv, op.kind = "function", op.reg # 0, NEW q \in Reg, NEW b \in Bit,
                      q # op.reg \/
                        b \notin (IF Swapped(op.fn) THEN LsbOf[op.fn]..(Width - 1)
                                  ELSE Declared(op.fn))
               PROVE  b \in regs[q] <=> b \in before[q]
    BY DEF OtherBitsStay
  <2>1. CASE q # op.reg
    BY <2>1 DEF IInv, OutsideMaskStays
  <2>2. CASE q = op.reg
    <3>1. op.fn \in Function
      BY DEF IInv, OpInv, NoOp, WriteOp, FunctionOp, ReadOp
    <3>2. LsbOf[op.fn] \in Int /\ MsbOf[op.fn] \in Int
      BY <3>1, AfeAssumption DEF Bit
    <3>3. b \notin Mask(op.fn)
      BY <2>2, <3>2 DEF Mask, Swapped, Declared
    <3>4. regs[q] \ Mask(op.fn) = before[q] \ Mask(op.fn)
      BY <2>2 DEF IInv, OutsideMaskStays
    <3> QED BY <3>3, <3>4
  <2> QED BY <2>1, <2>2
<1> QED
  BY <1>1, AfeInvariant, PTL

(* A successful write or function leaves the readout mode.                 *)
THEOREM SuccessLeavesReadout == Spec => []ReadoutIsLeft
<1>1. IInv => ReadoutIsLeft
  BY DEF IInv
<1> QED
  BY <1>1, AfeInvariant, PTL

(* The value answered by a successful write or function is the register's. *)
THEOREM AnswersAreTrue == Spec => []AnswerIsTrue
<1>1. IInv => AnswerIsTrue
  BY DEF IInv
<1> QED
  BY <1>1, AfeInvariant, PTL

(***************************************************************************)
(*                             configureDaphne                             *)
(***************************************************************************)
DacValue == 0..(FullScale - 1)
ConfigOp == [kind : {"configure"}, afes : Seq(AfeConfig), given : BOOLEAN, ctrl : Values]

(* After k - 1 AFEs and the gain of the one after them.                    *)
WithGain(b, o, k) ==
  [After(b, o, k - 1) EXCEPT ![Gain(o.afes[k].afe)] = o.afes[k].gain]

(* What a configuration under way has applied at each step.                *)
ConfigProgress ==
  /\ cfgOp.kind = "configure" => cfgOp \in ConfigOp
  /\ cfgPc # "idle" => cfgOp.kind = "configure" /\ cfgAnswer.status = "none"
  /\ cfgPc \in {"channels", "hv"} => dac = dacBefore /\ n = 1
  /\ cfgPc \in {"gain", "bias", "functions"} =>
       (AppliesControl(cfgOp) => enable) /\ n <= Len(cfgOp.afes) + 1
  /\ cfgPc = "gain" => dac = After(dacBefore, cfgOp, n - 1)
  /\ cfgPc \in {"bias", "functions"} => n <= Len(cfgOp.afes) /\ cfgOp.afes[n].afe \in AFE
  /\ cfgPc = "bias" => dac = WithGain(dacBefore, cfgOp, n)
  /\ cfgPc = "functions" => dac = After(dacBefore, cfgOp, n)

ConfigInv == ConfigTypeOK /\ ReportedIsSet /\ ConfigProgress /\ PrefixIsApplied

(* The DACs of a board are told apart by their names.                      *)
LEMMA DacNames ==
  /\ HvBias \in Dac /\ \A a \in AFE : Gain(a) \in Dac /\ Bias(a) \in Dac
  /\ \A a, b : /\ Gain(a) # Bias(b) /\ Gain(a) # HvBias /\ Bias(a) # HvBias
               /\ Gain(a) = Gain(b) <=> a = b
               /\ Bias(a) = Bias(b) <=> a = b
BY DEF HvBias, Gain, Bias, Dac

(* No entry has set anything yet.                                          *)
LEMMA AfterNone ==
  ASSUME NEW o, NEW b \in [Dac -> DacValue]
  PROVE  After(b, o, 0) = IF AppliesControl(o)
                       THEN [b EXCEPT ![HvBias] = Control(o)] ELSE b
<1>1. \A d : {i \in 1..0 : Sets(o.afes[i], d)} = {}
  OBVIOUS
<1>2. After(b, o, 0) = [d \in Dac |-> IF d = HvBias /\ AppliesControl(o)
                                   THEN Control(o) ELSE b[d]]
  BY <1>1 DEF After
<1> QED  BY <1>2

(* One more entry sets its gain, and its bias when it has one.             *)
LEMMA AfterNext ==
  ASSUME NEW b, NEW o \in ConfigOp, NEW k \in 1..Len(o.afes), NEW d \in Dac
  PROVE  After(b, o, k)[d] = IF Sets(o.afes[k], d) THEN Setting(o.afes[k], d)
                          ELSE After(b, o, k - 1)[d]
<1> DEFINE S == {i \in 1..k : Sets(o.afes[i], d)}
           R == {i \in 1..(k - 1) : Sets(o.afes[i], d)}
<1>1. k \in Nat \ {0}
  BY DEF ConfigOp
<1>2. CASE Sets(o.afes[k], d)
  <2>1. k \in S /\ \A y \in S : k >= y /\ y \in Nat
    BY <1>1, <1>2
  <2>2. Max(S) = k
    <3> HIDE DEF S
    <3>1. Max(S) \in S /\ \A y \in S : Max(S) >= y
      BY <2>1 DEF Max
    <3>2. Max(S) \in Nat /\ Max(S) >= k /\ k >= Max(S)
      BY <2>1, <3>1
    <3> QED  BY <1>1, <3>2
  <2>3. After(b, o, k)[d] = Setting(o.afes[Max(S)], d)
    BY <2>1 DEF After
  <2> QED  BY <1>2, <2>2, <2>3
<1>3. CASE ~Sets(o.afes[k], d)
  <2>1. S = R
    BY <1>1, <1>3
  <2> QED  BY <1>3, <2>1 DEF After
<1> QED  BY <1>2, <1>3

(* The steps of an AFE, one DAC after the other.                           *)
LEMMA AfterAfe ==
  ASSUME NEW b, NEW o \in ConfigOp, NEW k \in 1..Len(o.afes), o.afes[k].afe \in AFE
  PROVE  After(b, o, k) = IF HasBias(o.afes[k])
                       THEN [WithGain(b, o, k) EXCEPT ![Bias(o.afes[k].afe)] = o.afes[k].bias]
                       ELSE WithGain(b, o, k)
<1> DEFINE c == o.afes[k]
           A == After(b, o, k - 1)
           B == After(b, o, k)
<1>1. /\ Gain(c.afe) \in Dac /\ Bias(c.afe) \in Dac /\ Gain(c.afe) # Bias(c.afe)
  BY DacNames
<1>2. A = [d \in Dac |-> A[d]] /\ B = [d \in Dac |-> B[d]]
  BY DEF After
<1>3. \A d \in Dac : B[d] = IF Sets(c, d) THEN Setting(c, d) ELSE A[d]
  BY AfterNext
<1> HIDE DEF A, B, c
<1>4. /\ B[Gain(c.afe)] = c.gain
      /\ B[Bias(c.afe)] = IF c.bias # 0 THEN c.bias ELSE A[Bias(c.afe)]
      /\ \A d \in Dac \ {Gain(c.afe), Bias(c.afe)} : B[d] = A[d]
  BY <1>1, <1>3 DEF Sets, Setting
<1>5. WithGain(b, o, k) = [A EXCEPT ![Gain(c.afe)] = c.gain]
  BY DEF WithGain, A, c
<1>6. CASE c.bias # 0
  <2>1. B = [[A EXCEPT ![Gain(c.afe)] = c.gain] EXCEPT ![Bias(c.afe)] = c.bias]
    BY <1>1, <1>2, <1>4, <1>6
  <2> QED  BY <1>5, <1>6, <2>1 DEF HasBias, B, c
<1>7. CASE c.bias = 0
  <2>1. B = [A EXCEPT ![Gain(c.afe)] = c.gain]
    BY <1>1, <1>2, <1>4, <1>7
  <2> QED  BY <1>5, <1>7, <2>1 DEF HasBias, B, c
<1> QED  BY <1>6, <1>7

LEMMA ConfigInitInv == ConfigInit => ConfigInv
<1> SUFFICES ASSUME ConfigInit PROVE ConfigInv
  OBVIOUS
<1>1. ConfigTypeOK
  <2>1. /\ 0 \in 0..(FullScale - 1) /\ 0 \in 0..MaxWrites /\ 0 \in 0..MaxRestarts
    BY ConfigAssumption
  <2>2. dac \in [Dac -> 0..(FullScale - 1)] /\ dacDict \in [Dac -> 0..(FullScale - 1)]
    BY <2>1 DEF ConfigInit
  <2>3. okAll \in BOOLEAN /\ enable \in BOOLEAN /\ dacBefore = dac
    BY DEF ConfigInit
  <2>4. cfgAnswer.status = "none" /\ n \in Nat \ {0} /\ cfgPc = "idle"
    BY DEF ConfigInit, NoDacAnswer
  <2>5. torn \subseteq Dac /\ forgotten \subseteq Dac /\ writes = 0 /\ restarts = 0
    BY DEF ConfigInit
  <2> QED  BY <2>1, <2>2, <2>3, <2>4, <2>5 DEF ConfigTypeOK
<1> QED
  BY <1>1 DEF ConfigInit, ConfigInv, ReportedIsSet, ConfigProgress, PrefixIsApplied

(* A value in range fits a DAC, and so does the control that is applied.   *)
LEMMA InRangeType == ASSUME NEW v \in Nat, InRange(v) PROVE v \in DacValue
BY ConfigAssumption DEF InRange, DacValue

LEMMA ControlType == ASSUME NEW o \in ConfigOp PROVE Control(o) \in DacValue
<1>1. o.ctrl \in Nat
  BY ConfigAssumption DEF ConfigOp
<1>2. FullScale - 1 \in DacValue
  BY ConfigAssumption DEF DacValue
<1> QED  BY <1>1, <1>2, InRangeType DEF Control

(* The writes of a DAC keep the types, and the dictionary is never ahead   *)
(* of a DAC it is trusted for.                                             *)
LEMMA WriteKeeps ==
  ASSUME ConfigInv, NEW d \in Dac, NEW v \in DacValue,
         Returns(d, v) \/ Throws(d, v)
  PROVE  /\ dac' \in [Dac -> DacValue] /\ dacDict' \in [Dac -> DacValue]
         /\ torn' \subseteq Dac /\ forgotten' \subseteq Dac
         /\ ReportedIsSet'
         /\ Returns(d, v) => dac' = [dac EXCEPT ![d] = v]
         /\ Throws(d, v) => dac' \in {dac, [dac EXCEPT ![d] = v]}
<1>1. /\ dac \in [Dac -> DacValue] /\ dacDict \in [Dac -> DacValue]
      /\ torn \subseteq Dac /\ forgotten \subseteq Dac /\ ReportedIsSet
  BY DEF ConfigInv, ConfigTypeOK, DacValue
<1>2. CASE Returns(d, v)
  <2>1. /\ dac' = [dac EXCEPT ![d] = v] /\ dacDict' = [dacDict EXCEPT ![d] = v]
        /\ torn' = torn \ {d} /\ forgotten' = forgotten \ {d}
    BY <1>2 DEF Returns, Record
  <2>2. Throws(d, v) => dac' \in {dac, [dac EXCEPT ![d] = v]}
    BY <2>1
  <2> QED  BY <1>1, <2>1, <2>2 DEF ReportedIsSet
<1>3. CASE ThrowsBefore(d, v)
  BY <1>1, <1>3 DEF ThrowsBefore, ReportedIsSet, Returns
<1>4. CASE ThrowsAfter(d, v)
  BY <1>1, <1>4 DEF ThrowsAfter, ReportedIsSet, Returns
<1> QED  BY <1>2, <1>3, <1>4 DEF Throws

(* A prefix of the configuration o, which found the DACs as b, is applied  *)
(* when they are x, with the bias switched on or not.                      *)
Partly(x, b, o, on) ==
  \/ x \in {b, After(b, o, 0)}
  \/ /\ AppliesControl(o) => on
     /\ \E k \in 1..Len(o.afes) : x = After(b, o, k) \/ x = WithGain(b, o, k)

LEMMA PrefixIsPartly ==
  PrefixIsApplied <=>
    (cfgOp.kind = "configure" =>
       /\ Partly(dac, dacBefore, cfgOp, enable)
       /\ cfgAnswer.status = "ok" => dac = After(dacBefore, cfgOp, Len(cfgOp.afes)))
BY DEF PrefixIsApplied, Partly, WithGain

(* What the steps of a configuration have applied is a prefix.             *)
LEMMA ProgressIsPrefix ==
  ASSUME ConfigInv, cfgPc # "idle"
  PROVE  Partly(dac, dacBefore, cfgOp, enable)
BY PrefixIsPartly DEF ConfigInv, ConfigProgress

(* An answer to any other request says nothing about a configuration.      *)
LEMMA OtherRequest ==
  ASSUME ConfigTypeOK', ReportedIsSet', cfgPc' = "idle", cfgOp'.kind # "configure"
  PROVE  ConfigInv'
BY DEF ConfigInv, ConfigProgress, PrefixIsApplied

(* A request for one DAC.                                                  *)
LEMMA WriteDacStep ==
  ASSUME ConfigInv, NEW d \in Dac, NEW v \in Values, InRange(v),
         Returns(d, v) \/ Throws(d, v), enable' \in BOOLEAN, dacBefore' = dac,
         cfgAnswer' \in {DacSuccess(v), DacFailure}, cfgOp' = [kind |-> "write", dac |-> d],
         writes < MaxWrites, writes' = writes + 1, cfgPc = "idle", UNCHANGED <<server, restarts>>
  PROVE  ConfigInv'
<1>1. v \in DacValue
  BY ConfigAssumption, InRangeType
<1>2. /\ dac' \in [Dac -> DacValue] /\ dacDict' \in [Dac -> DacValue]
      /\ torn' \subseteq Dac /\ forgotten' \subseteq Dac /\ ReportedIsSet'
  BY <1>1, WriteKeeps
<1>3. cfgAnswer'.status \in {"none", "ok", "error"} /\ cfgOp'.kind # "configure"
  BY DEF DacSuccess, DacFailure
<1>4. writes' \in 0..MaxWrites
  BY ConfigAssumption DEF ConfigInv, ConfigTypeOK
<1>5. ConfigTypeOK'
  BY <1>2, <1>3, <1>4 DEF ConfigInv, ConfigTypeOK, DacValue, server
<1> QED  BY <1>2, <1>3, <1>5, OtherRequest DEF server

LEMMA WritesStep ==
  ASSUME ConfigInv, WriteAFEVgain \/ WriteAFEBiasVoltage \/ WriteBiasVoltageControl
  PROVE  ConfigInv'
<1>0. enable \in BOOLEAN
  BY DEF ConfigInv, ConfigTypeOK
<1>1. CASE WriteAFEVgain
  <2>1. PICK a \in AFE, v \in Values : WriteDac(Gain(a), v, enable)
    BY <1>1 DEF WriteAFEVgain
  <2>2. Gain(a) \in Dac
    BY DacNames
  <2> QED  BY <1>0, <2>1, <2>2, WriteDacStep DEF WriteDac
<1>2. CASE WriteAFEBiasVoltage
  <2>1. PICK a \in AFE, v \in Values : WriteDac(Bias(a), v, enable)
    BY <1>2 DEF WriteAFEBiasVoltage
  <2>2. Bias(a) \in Dac
    BY DacNames
  <2> QED  BY <1>0, <2>1, <2>2, WriteDacStep DEF WriteDac
<1>3. CASE WriteBiasVoltageControl
  <2>1. PICK v \in Values, on \in BOOLEAN : WriteDac(HvBias, v, on)
    BY <1>3 DEF WriteBiasVoltageControl
  <2> QED  BY <1>0, <2>1, DacNames, WriteDacStep DEF WriteDac
<1> QED  BY <1>1, <1>2, <1>3

LEMMA ReadsStep ==
  ASSUME ConfigInv, RefuseDac \/ ReadAFEVgain \/ ReadAFEBiasSet \/ ReadVbiasControl
  PROVE  ConfigInv'
<1>1. /\ cfgPc = "idle" /\ dacBefore' = dac
      /\ UNCHANGED <<server, hw, dacDict, torn, forgotten, writes, restarts>>
  BY DEF RefuseDac, ReadAFEVgain, ReadAFEBiasSet, ReadVbiasControl, ReadDac
<1>2. cfgAnswer'.status \in {"none", "ok", "error"} /\ cfgOp'.kind # "configure"
  BY DEF RefuseDac, ReadAFEVgain, ReadAFEBiasSet, ReadVbiasControl, ReadDac,
         DacSuccess, DacFailure
<1>3. ConfigTypeOK' /\ ReportedIsSet'
  BY <1>1, <1>2 DEF ConfigInv, ConfigTypeOK, ReportedIsSet, server, hw
<1> QED  BY <1>1, <1>2, <1>3, OtherRequest DEF server

(* A restart forgets the dictionary: it is trusted for no DAC.             *)
LEMMA RestartStep == ASSUME ConfigInv, Restart PROVE ConfigInv'
<1>1. /\ cfgPc' = "idle" /\ n' = 1 /\ okAll' = TRUE /\ dac' = dac /\ dacBefore' = dac
      /\ enable' = enable /\ writes' = writes /\ forgotten' = Dac /\ torn' = {}
      /\ dacDict' = [d \in Dac |-> 0]
  BY DEF Restart, hw
<1>2. cfgAnswer'.status = "none" /\ cfgOp'.kind = "none"
  BY DEF Restart, NoDacAnswer
<1>3. 0 \in 0..(FullScale - 1) /\ restarts' \in 0..MaxRestarts
  BY ConfigAssumption DEF Restart, ConfigInv, ConfigTypeOK
<1>4. ConfigTypeOK'
  BY <1>1, <1>2, <1>3 DEF ConfigInv, ConfigTypeOK
<1>5. ReportedIsSet'
  BY <1>1 DEF ReportedIsSet
<1> QED  BY <1>1, <1>2, <1>4, <1>5, OtherRequest

LEMMA BeginStep == ASSUME ConfigInv, BeginConfigure PROVE ConfigInv'
<1>1. PICK l \in AfeLists, v \in Values, given \in BOOLEAN :
        cfgOp' = [kind |-> "configure", afes |-> l, given |-> given,
                  ctrl |-> IF given THEN v ELSE 0]
  BY DEF BeginConfigure
<1>2. /\ cfgPc' = "channels" /\ n' = 1 /\ okAll' \in BOOLEAN /\ dacBefore' = dac
      /\ cfgAnswer'.status = "none" /\ writes' \in 0..MaxWrites
      /\ UNCHANGED <<hw, dacDict, torn, forgotten, restarts>>
  BY ConfigAssumption DEF BeginConfigure, NoDacAnswer, ConfigInv, ConfigTypeOK
<1>3. cfgOp' \in ConfigOp /\ cfgOp'.kind = "configure"
  BY <1>1, ConfigAssumption DEF ConfigOp
<1>4. ConfigTypeOK' /\ ReportedIsSet'
  BY <1>2 DEF ConfigInv, ConfigTypeOK, ReportedIsSet, hw
<1>5. ConfigProgress'
  BY <1>2, <1>3 DEF ConfigProgress, hw
<1>6. PrefixIsApplied'
  BY <1>2 DEF PrefixIsApplied, hw
<1> QED  BY <1>4, <1>5, <1>6 DEF ConfigInv

(* A configuration under way, as its steps find it.                        *)
LEMMA UnderWay ==
  ASSUME ConfigInv, cfgPc # "idle"
  PROVE  /\ cfgOp \in ConfigOp /\ cfgOp.kind = "configure" /\ cfgOp.afes \in Seq(AfeConfig)
         /\ n \in Nat \ {0} /\ Len(cfgOp.afes) \in Nat /\ enable \in BOOLEAN
         /\ dac \in [Dac -> DacValue] /\ dacBefore \in [Dac -> DacValue]
         /\ cfgAnswer.status = "none"
BY DEF ConfigInv, ConfigProgress, ConfigTypeOK, DacValue, ConfigOp

(* An exception ends a configuration with a prefix applied.                *)
LEMMA ThrowStep ==
  ASSUME ConfigInv, cfgPc # "idle", Throw, enable' = enable,
         UNCHANGED <<cfgOp, dacBefore, writes, restarts>>,
         dac' \in [Dac -> DacValue], dacDict' \in [Dac -> DacValue],
         torn' \subseteq Dac, forgotten' \subseteq Dac, ReportedIsSet',
         Partly(dac', dacBefore, cfgOp, enable)
  PROVE  ConfigInv'
<1>1. /\ cfgPc' = "idle" /\ n' = 1 /\ okAll' = TRUE /\ cfgAnswer'.status = "error"
  BY DEF Throw, DacFailure
<1>2. ConfigTypeOK'
  BY <1>1 DEF ConfigInv, ConfigTypeOK, DacValue
<1>3. ConfigProgress'
  BY <1>1, UnderWay DEF ConfigProgress
<1>4. PrefixIsApplied'
  BY <1>1 DEF PrefixIsApplied, Partly, WithGain
<1> QED  BY <1>2, <1>3, <1>4 DEF ConfigInv

(* A step that goes on keeps the types.                                    *)
LEMMA GoOnTypes ==
  ASSUME ConfigInv, n' \in Nat \ {0}, enable' \in BOOLEAN,
         cfgPc' \in {"hv", "gain", "bias", "functions"},
         UNCHANGED <<okAll, cfgAnswer, dacBefore, writes, restarts>>,
         dac' \in [Dac -> DacValue], dacDict' \in [Dac -> DacValue],
         torn' \subseteq Dac, forgotten' \subseteq Dac
  PROVE  ConfigTypeOK'
BY DEF ConfigInv, ConfigTypeOK, DacValue

(* The steps of configureDaphne, one lemma each.                           *)
LEMMA ChannelsStep == ASSUME ConfigInv, Channels PROVE ConfigInv'
<1>1. /\ cfgPc = "channels" /\ cfgPc # "idle" /\ UNCHANGED <<cfgOp, hw, dacDict, history>>
  BY DEF Channels, OtherStep
<1>2. /\ dac' \in [Dac -> DacValue] /\ dacDict' \in [Dac -> DacValue]
      /\ torn' \subseteq Dac /\ forgotten' \subseteq Dac /\ ReportedIsSet'
      /\ enable' = enable /\ enable' \in BOOLEAN
      /\ UNCHANGED <<dacBefore, writes, restarts, cfgOp>> /\ dac' = dac
  BY <1>1 DEF ConfigInv, ConfigTypeOK, DacValue, ReportedIsSet, hw, history
<1>3. CASE Throw
  <2>1. Partly(dac', dacBefore, cfgOp, enable)
    BY <1>1, <1>2, ProgressIsPrefix
  <2> QED  BY <1>1, <1>2, <1>3, <2>1, ThrowStep
<1>4. CASE cfgPc' = "hv" /\ n' = 1 /\ UNCHANGED <<okAll, cfgAnswer>>
  <2>1. ConfigTypeOK'
    BY <1>2, <1>4, GoOnTypes
  <2>2. ConfigProgress'
    BY <1>1, <1>2, <1>4, UnderWay DEF ConfigInv, ConfigProgress
  <2>3. PrefixIsApplied'
    BY <1>1, <1>2, <1>4, UnderWay DEF ConfigInv, ConfigProgress, PrefixIsApplied
  <2> QED  BY <1>2, <2>1, <2>2, <2>3 DEF ConfigInv
<1> QED  BY <1>3, <1>4 DEF Channels, OtherStep

LEMMA SetControlStep == ASSUME ConfigInv, SetControl PROVE ConfigInv'
<1> DEFINE v == Control(cfgOp)
<1>1. /\ cfgPc = "hv" /\ cfgPc # "idle" /\ AppliesControl(cfgOp)
      /\ DacStep(HvBias, v, "gain")
  BY DEF SetControl
<1>2. /\ cfgOp \in ConfigOp /\ v \in DacValue /\ HvBias \in Dac
      /\ dacBefore \in [Dac -> DacValue] /\ dac = dacBefore /\ n = 1
  BY <1>1, UnderWay, ControlType, DacNames DEF ConfigInv, ConfigProgress
<1> HIDE DEF v
<1>3. /\ dac' \in [Dac -> DacValue] /\ dacDict' \in [Dac -> DacValue]
      /\ torn' \subseteq Dac /\ forgotten' \subseteq Dac /\ ReportedIsSet'
      /\ Returns(HvBias, v) => dac' = [dac EXCEPT ![HvBias] = v]
      /\ Throws(HvBias, v) => dac' \in {dac, [dac EXCEPT ![HvBias] = v]}
  BY <1>1, <1>2, WriteKeeps DEF DacStep
<1>4. After(dacBefore, cfgOp, 0) = [dac EXCEPT ![HvBias] = v]
  BY <1>1, <1>2, AfterNone DEF v
<1>5. UNCHANGED <<cfgOp, dacBefore, writes, restarts>>
  BY <1>1 DEF DacStep
<1>6. CASE Throws(HvBias, v) /\ Throw
  <2>1. cfgPc' = "idle" /\ enable' = enable
    BY <1>6 DEF Throw, SetControl
  <2>2. Partly(dac', dacBefore, cfgOp, enable)
    BY <1>2, <1>3, <1>4, <1>6 DEF Partly
  <2> QED  BY <1>1, <1>3, <1>5, <1>6, <2>1, <2>2, ThrowStep
<1>7. CASE Returns(HvBias, v) /\ cfgPc' = "gain" /\ UNCHANGED <<n, okAll, cfgAnswer>>
  <2>1. enable' = TRUE /\ n' = 1 /\ dac' = After(dacBefore, cfgOp, 0)
    BY <1>2, <1>3, <1>4, <1>7 DEF SetControl
  <2>2. ConfigTypeOK'
    BY <1>3, <1>5, <1>7, <2>1, GoOnTypes
  <2>3. ConfigProgress'
    <3>1. n' - 1 = 0 /\ n' <= Len(cfgOp.afes) + 1
      BY <1>1, <2>1, UnderWay
    <3> QED  BY <1>1, <1>5, <1>7, <2>1, <3>1, UnderWay DEF ConfigProgress
  <2>4. PrefixIsApplied'
    BY <1>1, <1>5, <1>7, <2>1, UnderWay DEF PrefixIsApplied
  <2> QED  BY <1>3, <2>2, <2>3, <2>4 DEF ConfigInv
<1> QED  BY <1>1, <1>6, <1>7 DEF DacStep

LEMMA SkipControlStep == ASSUME ConfigInv, SkipControl PROVE ConfigInv'
<1>1. /\ cfgPc = "hv" /\ cfgPc # "idle" /\ ~AppliesControl(cfgOp) /\ cfgPc' = "gain"
      /\ UNCHANGED <<n, okAll, cfgAnswer, cfgOp, hw, dacDict, history>>
  BY DEF SkipControl
<1>2. n = 1 /\ dac = dacBefore /\ dacBefore \in [Dac -> DacValue]
  BY <1>1, UnderWay DEF ConfigInv, ConfigProgress
<1>3. dac = After(dacBefore, cfgOp, 0)
  BY <1>1, <1>2, AfterNone
<1>4. ConfigTypeOK' /\ ReportedIsSet'
  BY <1>1 DEF ConfigInv, ConfigTypeOK, ReportedIsSet, hw, history
<1>5. ConfigProgress'
  <2>1. n' = 1 /\ n' - 1 = 0 /\ n' <= Len(cfgOp.afes) + 1
    BY <1>1, <1>2, UnderWay
  <2> QED  BY <1>1, <1>3, <2>1, UnderWay DEF ConfigProgress, hw, history
<1>6. PrefixIsApplied'
  BY <1>1, <1>2, UnderWay DEF PrefixIsApplied, hw, history
<1> QED  BY <1>4, <1>5, <1>6 DEF ConfigInv

LEMMA SetGainStep == ASSUME ConfigInv, SetGain PROVE ConfigInv'
<1> DEFINE d == Gain(Afe.afe)
           v == Afe.gain
<1>1. /\ cfgPc = "gain" /\ cfgPc # "idle" /\ n <= Len(cfgOp.afes) /\ Afe.afe \in AFE
      /\ InRange(v) /\ DacStep(d, v, "bias") /\ enable' = enable
  BY DEF SetGain
<1>2. /\ n \in 1..Len(cfgOp.afes) /\ Afe \in AfeConfig
      /\ dac = After(dacBefore, cfgOp, n - 1) /\ (AppliesControl(cfgOp) => enable)
  BY <1>1, UnderWay DEF ConfigInv, ConfigProgress, Afe
<1>3. d \in Dac /\ v \in DacValue
  <2>1. v \in Nat
    BY <1>2, ConfigAssumption DEF AfeConfig
  <2> QED  BY <1>1, <2>1, DacNames, InRangeType
<1>4. WithGain(dacBefore, cfgOp, n) = [dac EXCEPT ![d] = v]
  BY <1>2 DEF WithGain, Afe
<1> HIDE DEF d, v
<1>5. /\ dac' \in [Dac -> DacValue] /\ dacDict' \in [Dac -> DacValue]
      /\ torn' \subseteq Dac /\ forgotten' \subseteq Dac /\ ReportedIsSet'
      /\ Returns(d, v) => dac' = [dac EXCEPT ![d] = v]
      /\ Throws(d, v) => dac' \in {dac, [dac EXCEPT ![d] = v]}
  BY <1>1, <1>3, WriteKeeps DEF DacStep
<1>6. UNCHANGED <<cfgOp, dacBefore, writes, restarts>>
  BY <1>1 DEF DacStep
<1>7. /\ Partly(dac, dacBefore, cfgOp, enable)
      /\ Partly([dac EXCEPT ![d] = v], dacBefore, cfgOp, enable)
  <2>1. Partly(dac, dacBefore, cfgOp, enable)
    BY <1>1, ProgressIsPrefix
  <2> QED  BY <1>2, <1>4, <2>1 DEF Partly
<1>8. CASE Throws(d, v) /\ Throw
  <2>1. Partly(dac', dacBefore, cfgOp, enable)
    BY <1>5, <1>7, <1>8
  <2> QED  BY <1>1, <1>5, <1>6, <1>8, <2>1, ThrowStep
<1>9. CASE Returns(d, v) /\ cfgPc' = "bias" /\ UNCHANGED <<n, okAll, cfgAnswer>>
  <2>1. n' = n /\ n' \in Nat \ {0} /\ enable' \in BOOLEAN
        /\ dac' = WithGain(dacBefore, cfgOp, n)
    BY <1>1, <1>4, <1>5, <1>9, UnderWay
  <2>2. ConfigTypeOK'
    BY <1>5, <1>6, <1>9, <2>1, GoOnTypes
  <2>3. ConfigProgress'
    BY <1>1, <1>2, <1>6, <1>9, <2>1, UnderWay DEF ConfigProgress, Afe
  <2>4. PrefixIsApplied'
    <3>1. Partly(dac', dacBefore', cfgOp', enable') /\ cfgAnswer'.status # "ok"
      BY <1>1, <1>5, <1>6, <1>7, <1>9, UnderWay
    <3> QED  BY <3>1 DEF PrefixIsApplied, Partly, WithGain
  <2> QED  BY <1>5, <2>2, <2>3, <2>4 DEF ConfigInv
<1> QED  BY <1>1, <1>8, <1>9 DEF DacStep

LEMMA SetBiasStep == ASSUME ConfigInv, SetBias PROVE ConfigInv'
<1> DEFINE d == Bias(Afe.afe)
           v == Afe.bias
<1>1. /\ cfgPc = "bias" /\ cfgPc # "idle" /\ HasBias(Afe)
      /\ InRange(v) /\ DacStep(d, v, "functions") /\ enable' = enable
  BY DEF SetBias
<1>2. /\ n \in 1..Len(cfgOp.afes) /\ Afe \in AfeConfig /\ Afe.afe \in AFE
      /\ dac = WithGain(dacBefore, cfgOp, n) /\ (AppliesControl(cfgOp) => enable)
      /\ cfgOp \in ConfigOp
  BY <1>1, UnderWay DEF ConfigInv, ConfigProgress, Afe
<1>3. d \in Dac /\ v \in DacValue
  <2>1. v \in Nat
    BY <1>2, ConfigAssumption DEF AfeConfig
  <2> QED  BY <1>1, <1>2, <2>1, DacNames, InRangeType
<1>4. After(dacBefore, cfgOp, n) = [dac EXCEPT ![d] = v]
  BY <1>1, <1>2, AfterAfe DEF Afe
<1> HIDE DEF d, v
<1>5. /\ dac' \in [Dac -> DacValue] /\ dacDict' \in [Dac -> DacValue]
      /\ torn' \subseteq Dac /\ forgotten' \subseteq Dac /\ ReportedIsSet'
      /\ Returns(d, v) => dac' = [dac EXCEPT ![d] = v]
      /\ Throws(d, v) => dac' \in {dac, [dac EXCEPT ![d] = v]}
  BY <1>1, <1>3, WriteKeeps DEF DacStep
<1>6. UNCHANGED <<cfgOp, dacBefore, writes, restarts>>
  BY <1>1 DEF DacStep
<1>7. /\ Partly(dac, dacBefore, cfgOp, enable)
      /\ Partly([dac EXCEPT ![d] = v], dacBefore, cfgOp, enable)
  <2>1. Partly(dac, dacBefore, cfgOp, enable)
    BY <1>1, ProgressIsPrefix
  <2> QED  BY <1>2, <1>4, <2>1 DEF Partly
<1>8. CASE Throws(d, v) /\ Throw
  <2>1. Partly(dac', dacBefore, cfgOp, enable)
    BY <1>5, <1>7, <1>8
  <2> QED  BY <1>1, <1>5, <1>6, <1>8, <2>1, ThrowStep
<1>9. CASE Returns(d, v) /\ cfgPc' = "functions" /\ UNCHANGED <<n, okAll, cfgAnswer>>
  <2>1. n' = n /\ n' \in Nat \ {0} /\ enable' \in BOOLEAN
        /\ dac' = After(dacBefore, cfgOp, n)
    BY <1>1, <1>4, <1>5, <1>9, UnderWay
  <2>2. ConfigTypeOK'
    BY <1>5, <1>6, <1>9, <2>1, GoOnTypes
  <2>3. ConfigProgress'
    BY <1>1, <1>2, <1>6, <1>9, <2>1, UnderWay DEF ConfigProgress, Afe
  <2>4. PrefixIsApplied'
    <3>1. Partly(dac', dacBefore', cfgOp', enable') /\ cfgAnswer'.status # "ok"
      BY <1>1, <1>5, <1>6, <1>7, <1>9, UnderWay
    <3> QED  BY <3>1 DEF PrefixIsApplied, Partly, WithGain
  <2> QED  BY <1>5, <2>2, <2>3, <2>4 DEF ConfigInv
<1> QED  BY <1>1, <1>8, <1>9 DEF DacStep

(* The steps that leave the DACs alone.                                    *)
LEMMA NoDacStep ==
  ASSUME ConfigInv, cfgPc # "idle", UNCHANGED <<cfgOp, hw, dacDict, history>>
  PROVE  /\ dac' \in [Dac -> DacValue] /\ dacDict' \in [Dac -> DacValue]
         /\ torn' \subseteq Dac /\ forgotten' \subseteq Dac /\ ReportedIsSet'
         /\ enable' = enable /\ enable' \in BOOLEAN
         /\ UNCHANGED <<dacBefore, writes, restarts, cfgOp>> /\ dac' = dac
         /\ Throw => ConfigInv'
<1>1. /\ dac' \in [Dac -> DacValue] /\ dacDict' \in [Dac -> DacValue]
      /\ torn' \subseteq Dac /\ forgotten' \subseteq Dac /\ ReportedIsSet'
      /\ enable' = enable /\ enable' \in BOOLEAN
      /\ UNCHANGED <<dacBefore, writes, restarts, cfgOp>> /\ dac' = dac
  BY DEF ConfigInv, ConfigTypeOK, DacValue, ReportedIsSet, hw, history
<1>2. ASSUME Throw PROVE ConfigInv'
  <2>1. Partly(dac', dacBefore, cfgOp, enable)
    BY <1>1, ProgressIsPrefix
  <2> QED  BY <1>1, <1>2, <2>1, ThrowStep
<1> QED  BY <1>1, <1>2

LEMMA RejectStep == ASSUME ConfigInv, Reject PROVE ConfigInv'
BY NoDacStep DEF Reject

LEMMA SkipBiasStep == ASSUME ConfigInv, SkipBias PROVE ConfigInv'
<1>1. /\ cfgPc = "bias" /\ cfgPc # "idle" /\ ~HasBias(Afe) /\ cfgPc' = "functions"
      /\ UNCHANGED <<n, okAll, cfgAnswer>> /\ UNCHANGED <<cfgOp, hw, dacDict, history>>
  BY DEF SkipBias
<1>2. /\ n \in 1..Len(cfgOp.afes) /\ Afe.afe \in AFE /\ cfgOp \in ConfigOp
      /\ dac = WithGain(dacBefore, cfgOp, n) /\ (AppliesControl(cfgOp) => enable)
  BY <1>1, UnderWay DEF ConfigInv, ConfigProgress, Afe
<1>3. dac = After(dacBefore, cfgOp, n)
  BY <1>1, <1>2, AfterAfe DEF Afe
<1>4. ConfigTypeOK' /\ ReportedIsSet'
  <2>1. n' \in Nat \ {0}
    BY <1>1, UnderWay
  <2> QED  BY <1>1, <2>1, NoDacStep, GoOnTypes
<1>5. ConfigProgress'
  BY <1>1, <1>2, <1>3, NoDacStep, UnderWay DEF ConfigProgress, Afe
<1>6. PrefixIsApplied'
  BY <1>1, NoDacStep, UnderWay DEF ConfigInv, PrefixIsApplied
<1> QED  BY <1>4, <1>5, <1>6 DEF ConfigInv

LEMMA FunctionsStep == ASSUME ConfigInv, Functions PROVE ConfigInv'
<1>1. /\ cfgPc = "functions" /\ cfgPc # "idle"
      /\ UNCHANGED <<cfgOp, hw, dacDict, history>>
  BY DEF Functions, OtherStep
<1>2. CASE Throw
  BY <1>1, <1>2, NoDacStep
<1>3. CASE cfgPc' = "gain" /\ n' = n + 1 /\ UNCHANGED <<okAll, cfgAnswer>>
  <2>1. /\ n' \in Nat \ {0} /\ n' - 1 = n /\ n' <= Len(cfgOp.afes) + 1
        /\ dac = After(dacBefore, cfgOp, n) /\ (AppliesControl(cfgOp) => enable)
    BY <1>1, <1>3, UnderWay DEF ConfigInv, ConfigProgress
  <2>2. ConfigTypeOK' /\ ReportedIsSet'
    BY <1>1, <1>3, <2>1, NoDacStep, GoOnTypes
  <2>3. ConfigProgress'
    BY <1>1, <1>3, <2>1, NoDacStep, UnderWay DEF ConfigProgress
  <2>4. PrefixIsApplied'
    BY <1>1, <1>3, NoDacStep, UnderWay DEF ConfigInv, PrefixIsApplied
  <2> QED  BY <2>2, <2>3, <2>4 DEF ConfigInv
<1> QED  BY <1>2, <1>3 DEF Functions, OtherStep

LEMMA ConfiguredStep == ASSUME ConfigInv, Configured PROVE ConfigInv'
<1>1. /\ cfgPc = "gain" /\ cfgPc # "idle" /\ n > Len(cfgOp.afes)
      /\ cfgPc' = "idle" /\ n' = 1 /\ okAll' = TRUE
      /\ UNCHANGED <<cfgOp, hw, dacDict, history>>
  BY DEF Configured
<1>2. cfgAnswer'.status \in {"none", "ok", "error"}
  BY DEF Configured, DacSuccess, DacFailure
<1>3. dac = After(dacBefore, cfgOp, Len(cfgOp.afes))
  <2>1. n - 1 = Len(cfgOp.afes) /\ dac = After(dacBefore, cfgOp, n - 1)
    BY <1>1, UnderWay DEF ConfigInv, ConfigProgress
  <2> QED  BY <2>1
<1>4. ConfigTypeOK' /\ ReportedIsSet'
  BY <1>1, <1>2, NoDacStep DEF ConfigInv, ConfigTypeOK, DacValue, hw, history
<1>5. ConfigProgress'
  BY <1>1, UnderWay DEF ConfigProgress
<1>6. PrefixIsApplied'
  <2>1. Partly(dac, dacBefore, cfgOp, enable)
    BY <1>1, ProgressIsPrefix
  <2>2. /\ Partly(dac', dacBefore', cfgOp', enable')
        /\ dac' = After(dacBefore', cfgOp', Len(cfgOp'.afes))
    BY <1>1, <1>3, <2>1, NoDacStep
  <2> QED  BY <2>2 DEF PrefixIsApplied, Partly, WithGain
<1> QED  BY <1>4, <1>5, <1>6 DEF ConfigInv

LEMMA ConfigStepInv == ConfigInv /\ [ConfigNext]_configVars => ConfigInv'
<1> SUFFICES ASSUME ConfigInv, [ConfigNext]_configVars PROVE ConfigInv'
  OBVIOUS
<1>1. CASE UNCHANGED configVars
  BY <1>1 DEF configVars, server, hw, history, ConfigInv, ConfigTypeOK, ReportedIsSet,
              ConfigProgress, PrefixIsApplied
<1>2. CASE Configure
  BY <1>2, ChannelsStep, SetControlStep, SkipControlStep, SetGainStep, RejectStep,
     SetBiasStep, SkipBiasStep, FunctionsStep, ConfiguredStep DEF Configure
<1> QED
  BY <1>1, <1>2, WritesStep, ReadsStep, RestartStep, BeginStep DEF ConfigNext

(* For every board, every list of AFEs in a ConfigureRequest, every value  *)
(* and any number of restarts: the state dictionary holds what a DAC puts  *)
(* out unless its last write threw after the trigger or the server has not *)
(* written it; wherever configureDaphne has stopped, the bias control and  *)
(* a prefix of the AFEs of the request are applied and nothing else; and a *)
(* success has applied them all.                                           *)
THEOREM ConfigsAreReported == ConfigSpec => []ConfigIsReported
<1>1. ConfigInv => ConfigIsReported
  BY DEF ConfigInv, ConfigIsReported
<1> QED  BY <1>1, ConfigInitInv, ConfigStepInv, PTL DEF ConfigSpec

(***************************************************************************)
(*             What the scripts ask to be configured                       *)
(*                                                                         *)
(* A loop over the entries of a list is a function of the number of turns; *)
(* that it exists, and what holds after every turn, is shown by the least  *)
(* turn that would be an exception.                                        *)
(***************************************************************************)

(* A set of numbers has a least one.                                       *)
LEMMA LeastOf ==
  ASSUME NEW S \in SUBSET Nat, S # {}
  PROVE  \E x \in S : \A y \in S : x <= y
<1>. DEFINE R == OpToRel(<, Nat)
<1>1. PICK x \in S : \A y \in S : ~(<<y, x>> \in R)
  <2>1. IsWellFoundedOn(R, Nat)
    BY NatLessThanWellFounded, Zenon
  <2>. HIDE DEF R
  <2>. QED
    BY <2>1, WFMin, Zenon
<1>2. R = {ss \in Nat \X Nat : ss[1] < ss[2]}
  BY Zenon DEF OpToRel
<1>. HIDE DEF R
<1>3. ASSUME NEW y \in S PROVE x <= y
  <2>1. <<y, x>> \in Nat \X Nat /\ <<y, x>>[1] = y /\ <<y, x>>[2] = x
    OBVIOUS
  <2>2. ~(y < x)
    BY <1>1, <1>2, <2>1, Zenon
  <2>. QED
    BY <2>2
<1>. QED
  BY <1>3

(* What holds at the start of a loop and is kept by each turn holds after  *)
(* every turn: W is the set of turns after which it holds.                 *)
LEMMA EveryTurn ==
  ASSUME NEW N \in Nat, NEW W, 0 \in W,
         \A t \in 1..N : t - 1 \in W => t \in W
  PROVE  \A t \in 0..N : t \in W
<1>. DEFINE Bad == {t \in 0..N : t \notin W}
<1>. SUFFICES ASSUME Bad # {} PROVE FALSE
  OBVIOUS
<1>1. PICK x \in Bad : \A y \in Bad : x <= y
  <2>1. Bad \in SUBSET Nat
    OBVIOUS
  <2>. HIDE DEF Bad
  <2>. QED
    BY <2>1, LeastOf
<1>2. x \in 1..N
  OBVIOUS
<1>3. x - 1 \in 0..N /\ ~(x <= x - 1)
  BY <1>2
<1>4. x - 1 \notin Bad
  <2>. HIDE DEF Bad
  <2>. QED
    BY <1>1, <1>3
<1>. QED
  BY <1>2, <1>3, <1>4

(* A loop of N turns over states in S, whose turn i applies F[<<., i>>],   *)
(* has a result after each turn.                                           *)
IsLoop(S, N, d, F, f) ==
  /\ f \in [0..N -> S]
  /\ \A t \in 0..N : f[t] = IF t = 0 THEN d ELSE F[<<f[t - 1], t>>]

LEMMA LoopExists ==
  ASSUME NEW S, NEW N \in Nat, NEW d \in S, NEW F \in [S \X (1..N) -> S]
  PROVE  \E f : IsLoop(S, N, d, F, f)
<1>. DEFINE Runs(f, t) == f[0] = d /\ \A i \in 1..t : f[i] = F[<<f[i - 1], i>>]
            W == {t \in 0..N : \E f \in [0..t -> S] : Runs(f, t)}
<1>1. 0 \in W
  <2>. DEFINE f == [i \in 0..0 |-> d]
  <2>1. f \in [0..0 -> S] /\ Runs(f, 0)
    OBVIOUS
  <2>. HIDE DEF f, Runs
  <2>2. 0 \in 0..N
    OBVIOUS
  <2>. QED
    BY <2>1, <2>2
<1>2. ASSUME NEW t \in 1..N, t - 1 \in W PROVE t \in W
  <2>1. PICK f \in [0..(t - 1) -> S] : Runs(f, t - 1)
    BY <1>2
  <2>. DEFINE last == F[<<f[t - 1], t>>]
              g == [i \in 0..t |-> IF i = t THEN last ELSE f[i]]
  <2>2. t \in Nat /\ t >= 1 /\ last \in S
    BY <2>1
  <2>3. g \in [0..t -> S] /\ g[t] = last /\ \A i \in 0..(t - 1) : g[i] = f[i]
    BY <2>1, <2>2
  <2>. HIDE DEF g
  <2>4. g[0] = d
    BY <2>1, <2>2, <2>3
  <2>5. ASSUME NEW i \in 1..t PROVE g[i] = F[<<g[i - 1], i>>]
    <3>1. i - 1 \in 0..(t - 1)
      BY <2>2
    <3>2. CASE i = t
      BY <2>3, <3>1, <3>2
    <3>3. CASE i # t
      <4>1. i \in 1..(t - 1) /\ i \in 0..(t - 1)
        BY <2>2, <3>3
      <4>. QED
        BY <2>1, <2>3, <3>1, <4>1
    <3>. QED
      BY <3>2, <3>3
  <2>6. Runs(g, t)
    BY <2>4, <2>5
  <2>7. t \in 0..N
    BY <2>2
  <2>. HIDE DEF Runs
  <2>. QED
    BY <2>3, <2>6, <2>7
<1>3. N \in W
  <2>. HIDE DEF W
  <2>1. \A t \in 1..N : t - 1 \in W => t \in W
    BY <1>2
  <2>2. \A t \in 0..N : t \in W
    BY <1>1, <2>1, EveryTurn
  <2>. QED
    BY <2>2
<1>4. PICK f \in [0..N -> S] : Runs(f, N)
  BY <1>3
<1>5. \A t \in 0..N : f[t] = IF t = 0 THEN d ELSE F[<<f[t - 1], t>>]
  BY <1>4
<1>. QED
  BY <1>4, <1>5 DEF IsLoop

-----------------------------------------------------------------------------
(* The lists that a request is made of, built on the defaults.             *)
Entry == [id : Id, v : Nat, c : Nat]

BuiltOn ==
  {list \in Seq(Entry) :
     /\ Len(list) >= Items
     /\ \A i \in 1..Items : list[i].id = i - 1
     /\ \A i, k \in 1..Len(list) : list[i].id = list[k].id => i = k}

(* The lists of a section.                                                 *)
LEMMA SectionFacts ==
  ASSUME SeedAssumption, NEW s \in Section
  PROVE  /\ Len(s.ids) \in Nat /\ DOMAIN s.ids = 1..Len(s.ids)
         /\ \A i \in 1..Len(s.ids) : s.ids[i] \in Id
         /\ \A i \in DOMAIN s.vals : s.vals[i] \in Nat
         /\ \A i \in DOMAIN s.common : s.common[i] \in Nat
<1>1. s.ids \in ListsOf(Id) /\ s.vals \in FirstNumbers /\ s.common \in FirstNumbers
  BY DEF Section
<1>2. PICK t \in 0..MaxList : s.ids \in [1..t -> Id]
  BY <1>1 DEF ListsOf
<1>3. t \in Nat
  BY DEF SeedAssumption
<1>4. s.ids \in Seq(Id)
  BY <1>2, <1>3
<1>5. PICK m \in 0..MaxList : s.vals = [i \in 1..m |-> i]
  BY <1>1 DEF FirstNumbers
<1>6. PICK k \in 0..MaxList : s.common = [i \in 1..k |-> i]
  BY <1>1 DEF FirstNumbers
<1>7. m \in Nat /\ k \in Nat
  BY DEF SeedAssumption
<1>8. \A i \in DOMAIN s.vals : s.vals[i] \in Nat
  BY <1>5, <1>7
<1>9. \A i \in DOMAIN s.common : s.common[i] \in Nat
  BY <1>6, <1>7
<1>. QED
  BY <1>2, <1>3, <1>4, <1>8, <1>9

LEMMA DefaultsAreBuiltOn ==
  ASSUME SeedAssumption
  PROVE  make_default_config \in BuiltOn /\ Len(make_default_config) = Items
<1>1. Items \in Nat /\ DefaultValue \in Nat
  BY DEF SeedAssumption, DefaultValue
<1>. DEFINE D == make_default_config
<1>2. D = [i \in 1..Items |-> [id |-> i - 1, v |-> DefaultValue, c |-> DefaultValue]]
  BY DEF make_default_config, Item
<1>. HIDE DEF D
<1>3. \A i \in 1..Items : D[i] \in Entry /\ D[i].id = i - 1
  BY <1>1, <1>2 DEF Entry, Id
<1>4. D \in [1..Items -> Entry]
  BY <1>2, <1>3
<1>5. D \in Seq(Entry) /\ Len(D) = Items
  BY <1>1, <1>4
<1>6. \A i, k \in 1..Len(D) : D[i].id = D[k].id => i = k
  BY <1>1, <1>3, <1>5
<1>. QED
  BY <1>1, <1>3, <1>5, <1>6 DEF BuiltOn, D

(* Where an item is.                                                       *)
LEMMA IndexOfFacts ==
  ASSUME SeedAssumption, NEW list \in BuiltOn, NEW id,
         NEW k \in 1..Len(list), list[k].id = id
  PROVE  IndexOf(list, id) = k
<1>1. DOMAIN list = 1..Len(list) /\ Len(list) \in Nat
  BY DEF BuiltOn
<1>2. \A l \in 1..(k - 1) : list[l].id # id
  BY <1>1 DEF BuiltOn
<1>3. IndexOf(list, id) \in 1..Len(list) /\ list[IndexOf(list, id)].id = id
  BY <1>1, <1>2 DEF IndexOf
<1>. QED
  BY <1>3 DEF BuiltOn

(* One turn of the loop over the ids of a seed: the item k is the one that *)
(* the id names, new at the end or there already, and no other changes.    *)
Given(vals, t, otherwise) == IF t \in DOMAIN vals THEN vals[t] ELSE otherwise

Turn(list, s, t, prefer, k, r) ==
  /\ r \in BuiltOn
  /\ k \in 1..Len(r) /\ r[k].id = s.ids[t]
  /\ \/ k = Len(list) + 1 /\ Len(r) = Len(list) + 1
     \/ k \in 1..Len(list) /\ Len(r) = Len(list)
  /\ \A j \in 1..Len(list) : j # k => list[j].id # s.ids[t] /\ r[j] = list[j]
  /\ LET was == IF k = Len(list) + 1 THEN Item(s.ids[t], 0, 0) ELSE list[k]
     IN /\ was.id = s.ids[t]
        /\ r[k].v = Given(s.vals, t, was.v)
        /\ r[k].c = IF prefer THEN Given(s.common, t, was.c) ELSE was.c

LEMMA SetItemFacts ==
  ASSUME SeedAssumption, NEW s \in Section, NEW prefer \in BOOLEAN,
         NEW t \in 1..Len(s.ids), NEW list \in BuiltOn
  PROVE  \E k \in Nat : Turn(list, s, t, prefer, k, SetItem(list, s, t, prefer))
<1>. DEFINE name == s.ids[t]
            grown == _ensure(list, name)
            k == IF Len(grown) > Len(list) THEN Len(grown) ELSE IndexOf(grown, name)
            r == SetItem(list, s, t, prefer)
<1>1. name \in Id
  BY SectionFacts
<1>2. list \in Seq(Entry) /\ Len(list) \in Nat /\ DOMAIN list = 1..Len(list)
  BY DEF BuiltOn
<1>3. /\ grown \in BuiltOn /\ k \in 1..Len(grown) /\ grown[k].id = name
      /\ \/ k = Len(list) + 1 /\ Len(grown) = Len(list) + 1
         \/ k \in 1..Len(list) /\ Len(grown) = Len(list)
      /\ \A j \in 1..Len(list) : grown[j] = list[j] /\ (j # k => list[j].id # name)
      /\ (k = Len(list) + 1) => (grown[k] = Item(name, 0, 0))
  <2>1. CASE \E j \in 1..Len(list) : list[j].id = name
    <3>1. PICK j \in 1..Len(list) : list[j].id = name
      BY <2>1
    <3>2. grown = list
      BY <1>2, <2>1 DEF _ensure
    <3>3. IndexOf(list, name) = j
      BY <3>1, IndexOfFacts
    <3>. HIDE DEF grown, name
    <3>4. ~(Len(grown) > Len(list))
      BY <1>2, <3>2
    <3>5. k = j
      BY <3>2, <3>3, <3>4, Zenon
    <3>. HIDE DEF k
    <3>6. k \in 1..Len(list) /\ list[k].id = name
      BY <3>1, <3>5
    <3>7. k # Len(list) + 1
      BY <1>2, <3>6
    <3>8. \A i \in 1..Len(list) : i # k => list[i].id # name
      BY <3>6 DEF BuiltOn
    <3>. QED
      BY <3>2, <3>6, <3>7, <3>8
  <2>2. CASE ~\E j \in 1..Len(list) : list[j].id = name
    <3>1. grown = Append(list, Item(name, 0, 0))
      BY <1>2, <2>2 DEF _ensure
    <3>2. Item(name, 0, 0) \in Entry /\ Item(name, 0, 0).id = name
      BY <1>1 DEF Entry, Item
    <3>. HIDE DEF k, grown, name
    <3>3. /\ grown \in Seq(Entry) /\ Len(grown) = Len(list) + 1
          /\ grown[Len(list) + 1] = Item(name, 0, 0)
          /\ \A j \in 1..Len(list) : grown[j] = list[j]
      BY <1>2, <3>1, <3>2
    <3>4. k = Len(list) + 1
      BY <1>2, <3>3 DEF k
    <3>5. \A i, j \in 1..Len(grown) : grown[i].id = grown[j].id => i = j
      <4>1. \A i \in 1..Len(grown) : i \in 1..Len(list) \/ i = Len(list) + 1
        BY <1>2, <3>3
      <4>2. \A i \in 1..Len(list) : grown[i].id # name
        BY <2>2, <3>3
      <4>3. grown[Len(list) + 1].id = name
        BY <3>2, <3>3
      <4>4. \A i, j \in 1..Len(list) : grown[i].id = grown[j].id => i = j
        BY <3>3 DEF BuiltOn
      <4>. QED
        BY <4>1, <4>2, <4>3, <4>4
    <3>6. Len(grown) >= Items /\ \A i \in 1..Items : grown[i].id = i - 1
      BY <1>2, <3>3 DEF BuiltOn, SeedAssumption
    <3>7. grown \in BuiltOn
      BY <3>3, <3>5, <3>6 DEF BuiltOn
    <3>. QED
      BY <1>2, <2>2, <3>2, <3>3, <3>4, <3>7
  <2>. QED
    BY <2>1, <2>2
<1>b. grown \in BuiltOn /\ k \in 1..Len(grown)
  <2>. HIDE DEF grown, k
  <2>. QED
    BY <1>3
<1>4. r = [grown EXCEPT ![k].v = _maybe_get(s.vals, t, @),
                        ![k].c = IF prefer THEN _maybe_get(s.common, t, @) ELSE @]
  BY DEF SetItem
<1>. DEFINE a == Given(s.vals, t, grown[k].v)
            b == IF prefer THEN Given(s.common, t, grown[k].c) ELSE grown[k].c
<1>5. grown \in Seq(Entry) /\ Len(grown) \in Nat /\ DOMAIN grown = 1..Len(grown)
  <2>. HIDE DEF grown, k
  <2>. QED
    BY <1>3 DEF BuiltOn
<1>a. grown[k] \in Entry
  <2>. HIDE DEF grown, k
  <2>. QED
    BY <1>b, <1>5
<1>6. a \in Nat /\ b \in Nat
  <2>1. grown[k].v \in Nat /\ grown[k].c \in Nat
    BY <1>a DEF Entry
  <2>. HIDE DEF grown, k
  <2>. QED
    BY <2>1, SectionFacts DEF Given
<1>7. r = [grown EXCEPT ![k] = [id |-> name, v |-> a, c |-> b]]
  <2>1. grown[k] = [id |-> name, v |-> grown[k].v, c |-> grown[k].c]
    <3>. HIDE DEF grown, k
    <3>. QED
      BY <1>3, <1>a DEF Entry
  <2>. HIDE DEF grown, k
  <2>2. r = [grown EXCEPT ![k].v = Given(s.vals, t, @),
                          ![k].c = IF prefer THEN Given(s.common, t, @) ELSE @]
    BY <1>4, Zenon DEF Given, _maybe_get
  <2>. HIDE DEF r
  <2>3. DOMAIN r = DOMAIN grown /\ \A j \in DOMAIN grown : j # k => r[j] = grown[j]
    BY <1>b, <1>5, <2>2
  <2>4. r[k] = [[grown[k] EXCEPT !.v = a] EXCEPT !.c = b]
    BY <1>b, <1>5, <2>1, <2>2
  <2>. HIDE DEF a, b
  <2>5. r[k] = [id |-> name, v |-> a, c |-> b]
    <3>. DEFINE e == grown[k]
                f == [e EXCEPT !.v = a]
    <3>1. e = [id |-> name, v |-> e.v, c |-> e.c]
      BY <2>1
    <3>. HIDE DEF e
    <3>2. f = [id |-> name, v |-> a, c |-> e.c]
      BY <3>1
    <3>. HIDE DEF f
    <3>3. [f EXCEPT !.c = b] = [id |-> name, v |-> a, c |-> b]
      BY <3>2
    <3>. QED
      BY <2>4, <3>3, Zenon DEF e, f
  <2>6. r = [j \in DOMAIN r |-> r[j]]
    BY <1>b, <1>5, <2>2
  <2>. QED
    BY <1>b, <1>5, <2>3, <2>5, <2>6
<1>. HIDE DEF grown, k, r, a, b
<1>8. /\ r \in Seq(Entry) /\ Len(r) = Len(grown)
      /\ r[k] = [id |-> name, v |-> a, c |-> b]
      /\ \A j \in 1..Len(grown) : j # k => r[j] = grown[j]
  <2>1. [id |-> name, v |-> a, c |-> b] \in Entry
    BY <1>1, <1>6 DEF Entry
  <2>. QED
    BY <1>b, <1>5, <1>7, <2>1
<1>9. \A j \in 1..Len(grown) : r[j].id = grown[j].id
  BY <1>3, <1>8
<1>10. r \in BuiltOn
  <2>1. Items \in Nat /\ Len(grown) >= Items
    BY <1>3 DEF BuiltOn, SeedAssumption
  <2>2. \A i \in 1..Items : r[i].id = i - 1
    BY <1>b, <1>5, <1>9, <2>1 DEF BuiltOn
  <2>3. \A i, j \in 1..Len(r) : r[i].id = r[j].id => i = j
    BY <1>3, <1>8, <1>9 DEF BuiltOn
  <2>. QED
    BY <1>8, <2>1, <2>2, <2>3 DEF BuiltOn
<1>11. \A j \in 1..Len(list) : j # k => list[j].id # name /\ r[j] = list[j]
  BY <1>2, <1>3, <1>8
<1>. DEFINE was == IF k = Len(list) + 1 THEN Item(name, 0, 0) ELSE list[k]
<1>12. was = grown[k]
  BY <1>2, <1>3
<1>. HIDE DEF was
<1>13. was.id = name /\ r[k].v = Given(s.vals, t, was.v)
       /\ r[k].c = IF prefer THEN Given(s.common, t, was.c) ELSE was.c
  BY <1>3, <1>8, <1>12 DEF a, b
<1>14. Turn(list, s, t, prefer, k, r)
  BY <1>3, <1>8, <1>10, <1>11, <1>13 DEF Turn, was
<1>15. k \in Nat
  BY <1>b, <1>5
<1>. QED
  BY <1>14, <1>15 DEF r

(* The lists after each turn of the loop over the ids of a seed.           *)
Overlay(s, prefer, f) ==
  /\ f \in [0..Len(s.ids) -> BuiltOn]
  /\ f[0] = make_default_config
  /\ \A t \in 1..Len(s.ids) : f[t] = SetItem(f[t - 1], s, t, prefer)

LEMMA OverlayExists ==
  ASSUME SeedAssumption, NEW s \in Section, NEW prefer \in BOOLEAN
  PROVE  \E f : /\ Overlay(s, prefer, f)
                /\ build_request_from_seed(s, make_default_config, prefer)
                     = f[Len(s.ids)]
<1>. DEFINE N == Len(s.ids)
            d == make_default_config
            Set(list, t) == SetItem(list, s, t, prefer)
            F == [p \in BuiltOn \X (1..N) |-> Set(p[1], p[2])]
            Solves(h) == h = [t \in 0..N |-> IF t = 0 THEN d ELSE Set(h[t - 1], t)]
            U == CHOOSE h : Solves(h)
<1>1. N \in Nat /\ d \in BuiltOn
  BY SectionFacts, DefaultsAreBuiltOn
<1>2. \A list \in BuiltOn, t \in 1..N : Set(list, t) \in BuiltOn
  BY SetItemFacts DEF Turn
<1>a. build_request_from_seed(s, d, prefer) = U[N]
  BY DEF build_request_from_seed
<1>. HIDE DEF N, d, Set
<1>3. F \in [BuiltOn \X (1..N) -> BuiltOn]
  BY <1>2
<1>4. \A list \in BuiltOn, t \in 1..N : F[<<list, t>>] = Set(list, t)
  OBVIOUS
<1>. HIDE DEF F
<1>5. PICK f : IsLoop(BuiltOn, N, d, F, f)
  BY <1>1, <1>3, LoopExists
<1>6. Solves(f)
  <2>1. ASSUME NEW t \in 0..N, t # 0 PROVE F[<<f[t - 1], t>>] = Set(f[t - 1], t)
    <3>1. t \in 1..N /\ t - 1 \in 0..N
      BY <1>1, <2>1
    <3>2. f[t - 1] \in BuiltOn
      BY <1>5, <3>1 DEF IsLoop
    <3>. QED
      BY <1>4, <3>1, <3>2
  <2>2. \A t \in 0..N : f[t] = IF t = 0 THEN d ELSE F[<<f[t - 1], t>>]
    BY <1>5 DEF IsLoop
  <2>3. \A t \in 0..N : f[t] = IF t = 0 THEN d ELSE Set(f[t - 1], t)
    BY <2>1, <2>2
  <2>. QED
    BY <1>5, <2>3 DEF IsLoop
<1>7. Solves(U)
  <2>. HIDE DEF Solves
  <2>. QED
    BY <1>6
<1>. HIDE DEF U
<1>8. \A t \in 0..N : U[t] = IF t = 0 THEN d ELSE Set(U[t - 1], t)
  BY <1>7
<1>9. U[0] = d /\ \A t \in 1..N : U[t] = Set(U[t - 1], t)
  BY <1>1, <1>8
<1>10. U \in [0..N -> BuiltOn]
  <2>. DEFINE W == {t \in 0..N : U[t] \in BuiltOn}
  <2>1. 0 \in W
    BY <1>1, <1>9
  <2>2. \A t \in 1..N : t - 1 \in W => t \in W
    BY <1>1, <1>2, <1>9
  <2>. HIDE DEF W
  <2>3. \A t \in 0..N : t \in W
    BY <1>1, <2>1, <2>2, EveryTurn
  <2>4. \A t \in 0..N : U[t] \in BuiltOn
    BY <2>3 DEF W
  <2>. QED
    BY <1>7, <2>4
<1>11. Overlay(s, prefer, U)
  BY <1>9, <1>10 DEF Overlay, N, d, Set
<1>. QED
  BY <1>a, <1>11 DEF N, d

(* The last of the first t entries of a seed that gives an item a value.   *)
LastUpto(s, vals, t, id, otherwise) ==
  LET given == {i \in DOMAIN s.ids \cap DOMAIN vals : i <= t /\ s.ids[i] = id}
  IN IF given = {} THEN otherwise
     ELSE vals[CHOOSE i \in given : \A k \in given : k <= i]

Was(id) == IF id < Items THEN DefaultValue ELSE 0

(* One more entry.                                                         *)
LEMMA LastUptoStep ==
  ASSUME SeedAssumption, NEW s \in Section, NEW vals, NEW t \in 1..Len(s.ids),
         NEW id, NEW otherwise
  PROVE  /\ s.ids[t] # id =>
              LastUpto(s, vals, t, id, otherwise) = LastUpto(s, vals, t - 1, id, otherwise)
         /\ s.ids[t] = id =>
              LastUpto(s, vals, t, id, otherwise)
                = Given(vals, t, LastUpto(s, vals, t - 1, id, otherwise))
<1>1. Len(s.ids) \in Nat /\ DOMAIN s.ids = 1..Len(s.ids)
  BY SectionFacts
<1>. DEFINE G(m) == {i \in DOMAIN s.ids \cap DOMAIN vals : i <= m /\ s.ids[i] = id}
            Latest(S) == CHOOSE i \in S : \A k \in S : k <= i
<1>2. \A m : LastUpto(s, vals, m, id, otherwise)
               = IF G(m) = {} THEN otherwise ELSE vals[Latest(G(m))]
  BY DEF LastUpto
<1>3. CASE s.ids[t] # id \/ t \notin DOMAIN vals
  <2>1. \A i \in 1..Len(s.ids) : (i <= t /\ i # t) <=> i <= t - 1
    BY <1>1
  <2>2. G(t) = G(t - 1)
    <3>1. \A i \in G(t) : i # t
      BY <1>3
    <3>. QED
      BY <1>1, <2>1, <3>1
  <2>. HIDE DEF G, Latest
  <2>3. LastUpto(s, vals, t, id, otherwise) = LastUpto(s, vals, t - 1, id, otherwise)
    BY <1>2, <2>2
  <2>. QED
    BY <1>3, <2>3 DEF Given
<1>4. CASE s.ids[t] = id /\ t \in DOMAIN vals
  <2>1. t \in G(t) /\ G(t) \subseteq 1..Len(s.ids) /\ \A k \in G(t) : k <= t
    BY <1>1, <1>4
  <2>. HIDE DEF G
  <2>2. \A i \in G(t) : (\A k \in G(t) : k <= i) => i = t
    BY <1>1, <2>1
  <2>3. Latest(G(t)) = t
    BY <2>1, <2>2
  <2>. HIDE DEF Latest
  <2>. QED
    BY <1>2, <1>4, <2>1, <2>3 DEF Given
<1>. QED
  BY <1>3, <1>4

LEMMA LastUptoOther ==
  ASSUME SeedAssumption, NEW s \in Section, NEW vals, NEW t \in 1..Len(s.ids),
         NEW id, NEW otherwise, s.ids[t] # id
  PROVE  LastUpto(s, vals, t, id, otherwise) = LastUpto(s, vals, t - 1, id, otherwise)
BY LastUptoStep

LEMMA LastUptoNone ==
  ASSUME SeedAssumption, NEW s \in Section, NEW vals, NEW t \in 0..Len(s.ids),
         NEW id, NEW otherwise, \A j \in 1..t : s.ids[j] # id
  PROVE  LastUpto(s, vals, t, id, otherwise) = otherwise
<1>1. Len(s.ids) \in Nat /\ DOMAIN s.ids = 1..Len(s.ids)
  BY SectionFacts
<1>2. \A i \in DOMAIN s.ids : i <= t => i \in 1..t
  BY <1>1
<1>3. {i \in DOMAIN s.ids \cap DOMAIN vals : i <= t /\ s.ids[i] = id} = {}
  BY <1>2
<1>. QED
  BY <1>3 DEF LastUpto

LEMMA LastUptoAll ==
  ASSUME SeedAssumption, NEW s \in Section, NEW vals, NEW id, NEW otherwise
  PROVE  LastUpto(s, vals, Len(s.ids), id, otherwise) = LastGiven(s, vals, id, otherwise)
<1>1. Len(s.ids) \in Nat /\ DOMAIN s.ids = 1..Len(s.ids)
  BY SectionFacts
<1>2. {i \in DOMAIN s.ids \cap DOMAIN vals : i <= Len(s.ids) /\ s.ids[i] = id}
        = {i \in DOMAIN s.ids \cap DOMAIN vals : s.ids[i] = id}
  BY <1>1
<1>. DEFINE A == {i \in DOMAIN s.ids \cap DOMAIN vals : i <= Len(s.ids) /\ s.ids[i] = id}
            B == {i \in DOMAIN s.ids \cap DOMAIN vals : s.ids[i] = id}
            Decides(S) == IF S = {} THEN otherwise
                          ELSE vals[CHOOSE i \in S : \A k \in S : k <= i]
<1>3. /\ LastUpto(s, vals, Len(s.ids), id, otherwise) = Decides(A)
      /\ LastGiven(s, vals, id, otherwise) = Decides(B)
  BY Zenon DEF LastUpto, LastGiven
<1>. HIDE DEF A, B, Decides
<1>. QED
  BY <1>2, <1>3 DEF A, B

(* What the lists hold after t turns: the values that the last of t        *)
(* entries gave, and an item for each of these entries.                    *)
Told(s, prefer, t, list) ==
  /\ \A i \in 1..Len(list) :
       /\ list[i].v = LastUpto(s, s.vals, t, list[i].id, Was(list[i].id))
       /\ prefer => list[i].c = LastUpto(s, s.common, t, list[i].id, Was(list[i].id))
  /\ \A j \in 1..t : \E i \in 1..Len(list) : list[i].id = s.ids[j]

LEMMA ToldStart ==
  ASSUME SeedAssumption, NEW s \in Section, NEW prefer \in BOOLEAN
  PROVE  Told(s, prefer, 0, make_default_config)
<1>. DEFINE D == make_default_config
<1>1. Items \in Nat /\ 0 \in 0..Len(s.ids)
  BY SectionFacts DEF SeedAssumption
<1>2. D = [i \in 1..Items |-> [id |-> i - 1, v |-> DefaultValue, c |-> DefaultValue]]
  BY DEF make_default_config, Item
<1>. HIDE DEF D
<1>4. Len(D) = Items
  BY DefaultsAreBuiltOn DEF D
<1>5. ASSUME NEW i \in 1..Len(D)
      PROVE  D[i].v = DefaultValue /\ D[i].c = DefaultValue /\ Was(D[i].id) = DefaultValue
  BY <1>1, <1>2, <1>4 DEF Was
<1>6. \A vals, id, o : LastUpto(s, vals, 0, id, o) = o
  BY <1>1, LastUptoNone
<1>. QED
  BY <1>5, <1>6 DEF Told, D

LEMMA ToldTurn ==
  ASSUME SeedAssumption, NEW s \in Section, NEW prefer \in BOOLEAN,
         NEW t \in 1..Len(s.ids), NEW list \in BuiltOn, Told(s, prefer, t - 1, list)
  PROVE  Told(s, prefer, t, SetItem(list, s, t, prefer))
<1>. DEFINE r == SetItem(list, s, t, prefer)
            name == s.ids[t]
<1>1. PICK k \in Nat : Turn(list, s, t, prefer, k, r)
  BY SetItemFacts
<1>2. Len(s.ids) \in Nat /\ t - 1 \in 0..Len(s.ids) /\ name \in Id
  BY SectionFacts
<1>3. Len(list) \in Nat /\ Len(list) >= Items /\ Items \in Nat
  BY DEF BuiltOn, SeedAssumption
<1>. HIDE DEF r, name
<1>. DEFINE was == IF k = Len(list) + 1 THEN Item(name, 0, 0) ELSE list[k]
<1>4. /\ was.id = name
      /\ r[k].v = Given(s.vals, t, was.v)
      /\ r[k].c = IF prefer THEN Given(s.common, t, was.c) ELSE was.c
  BY <1>1 DEF Turn, name
<1>5. /\ k \in 1..Len(r) /\ r[k].id = name
      /\ \/ k = Len(list) + 1 /\ Len(r) = Len(list) + 1
         \/ k \in 1..Len(list) /\ Len(r) = Len(list)
  BY <1>1 DEF Turn, name
<1>6. \A j \in 1..Len(list) : j # k => list[j].id # name /\ r[j] = list[j]
  BY <1>1 DEF Turn, name
<1>7. /\ was.v = LastUpto(s, s.vals, t - 1, name, Was(name))
      /\ prefer => was.c = LastUpto(s, s.common, t - 1, name, Was(name))
  <2>1. CASE k = Len(list) + 1
    <3>1. was.v = 0 /\ was.c = 0
      BY <2>1 DEF Item
    <3>2. \A j \in 1..Len(list) : list[j].id # name
      BY <1>3, <1>6, <2>1
    <3>3. \A j \in 1..(t - 1) : s.ids[j] # name
      BY <3>2 DEF Told
    <3>4. ~(name < Items)
      <4>1. ASSUME name < Items PROVE FALSE
        <5>1. name + 1 \in 1..Items /\ name + 1 \in 1..Len(list)
          BY <1>2, <1>3, <4>1 DEF Id
        <5>2. list[name + 1].id = (name + 1) - 1
          BY <5>1 DEF BuiltOn
        <5>3. (name + 1) - 1 = name
          BY <1>2 DEF Id
        <5>. QED
          BY <3>2, <5>1, <5>2, <5>3
      <4>. QED
        BY <4>1
    <3>5. Was(name) = 0
      BY <3>4 DEF Was
    <3>. HIDE DEF was
    <3>6. /\ LastUpto(s, s.vals, t - 1, name, Was(name)) = Was(name)
          /\ LastUpto(s, s.common, t - 1, name, Was(name)) = Was(name)
      BY <1>2, <3>3, LastUptoNone
    <3>. QED
      BY <3>1, <3>5, <3>6
  <2>2. CASE k \in 1..Len(list)
    <3>1. was = list[k]
      BY <1>3, <2>2
    <3>. HIDE DEF was
    <3>2. list[k].id = name
      BY <1>4, <3>1
    <3>. QED
      BY <2>2, <3>1, <3>2 DEF Told
  <2>. QED
    BY <1>5, <2>1, <2>2
<1>. HIDE DEF was
<1>8. /\ r[k].v = LastUpto(s, s.vals, t, name, Was(name))
      /\ prefer => r[k].c = LastUpto(s, s.common, t, name, Was(name))
  <2>1. /\ LastUpto(s, s.vals, t, name, Was(name))
             = Given(s.vals, t, LastUpto(s, s.vals, t - 1, name, Was(name)))
        /\ LastUpto(s, s.common, t, name, Was(name))
             = Given(s.common, t, LastUpto(s, s.common, t - 1, name, Was(name)))
    BY LastUptoStep DEF name
  <2>. QED
    BY <1>4, <1>7, <2>1
<1>9. ASSUME NEW i \in 1..Len(r), i # k
      PROVE  /\ i \in 1..Len(list) /\ r[i] = list[i] /\ list[i].id # name
             /\ r[i].v = LastUpto(s, s.vals, t, r[i].id, Was(r[i].id))
             /\ prefer => r[i].c = LastUpto(s, s.common, t, r[i].id, Was(r[i].id))
  <2>1. i \in 1..Len(list)
    BY <1>3, <1>5, <1>9
  <2>2. r[i] = list[i] /\ list[i].id # name
    BY <1>6, <1>9, <2>1
  <2>3. \A vals : LastUpto(s, vals, t, list[i].id, Was(list[i].id))
                    = LastUpto(s, vals, t - 1, list[i].id, Was(list[i].id))
    <3>1. s.ids[t] # list[i].id
      BY <2>2 DEF name
    <3>. QED
      BY <3>1, LastUptoOther
  <2>. QED
    BY <2>1, <2>2, <2>3 DEF Told
<1>10. ASSUME NEW j \in 1..t PROVE \E i \in 1..Len(r) : r[i].id = s.ids[j]
  <2>1. CASE j = t
    BY <1>5, <2>1 DEF name
  <2>2. CASE j # t
    <3>1. j \in 1..(t - 1)
      BY <1>2, <2>2
    <3>2. PICK i \in 1..Len(list) : list[i].id = s.ids[j]
      BY <3>1 DEF Told
    <3>3. i \in 1..Len(r)
      BY <1>3, <1>5
    <3>4. CASE i = k
      <4>1. k \in 1..Len(list)
        BY <3>4
      <4>2. k # Len(list) + 1
        BY <1>3, <4>1
      <4>3. list[k].id = name
        BY <1>4, <4>2 DEF was
      <4>. QED
        BY <1>5, <3>2, <3>4, <4>3
    <3>5. CASE i # k
      BY <1>9, <3>2, <3>3, <3>5
    <3>. QED
      BY <3>4, <3>5
  <2>. QED
    BY <2>1, <2>2
<1>. QED
  BY <1>5, <1>8, <1>9, <1>10 DEF Told, r

(* What a request that is built from a seed holds.                         *)
LEMMA BuiltFromSeed ==
  ASSUME SeedAssumption, NEW s \in Section, NEW prefer \in BOOLEAN
  PROVE  LET r == build_request_from_seed(s, make_default_config, prefer)
         IN /\ r \in BuiltOn
            /\ \A i \in 1..Len(r) :
                 /\ r[i].v = LastGiven(s, s.vals, r[i].id, Was(r[i].id))
                 /\ prefer => r[i].c = LastGiven(s, s.common, r[i].id, Was(r[i].id))
<1>. DEFINE r == build_request_from_seed(s, make_default_config, prefer)
            N == Len(s.ids)
<1>1. PICK f : Overlay(s, prefer, f) /\ r = f[N]
  BY OverlayExists
<1>2. N \in Nat
  BY SectionFacts
<1>. DEFINE W == {t \in 0..N : Told(s, prefer, t, f[t])}
<1>3. 0 \in W
  BY <1>1, <1>2, ToldStart DEF Overlay
<1>4. ASSUME NEW t \in 1..N, t - 1 \in W PROVE t \in W
  <2>1. t - 1 \in 0..N /\ t \in 0..N
    BY <1>2
  <2>2. f[t - 1] \in BuiltOn /\ f[t] = SetItem(f[t - 1], s, t, prefer)
    BY <1>1, <2>1 DEF Overlay
  <2>3. Told(s, prefer, t - 1, f[t - 1])
    BY <1>4
  <2>4. Told(s, prefer, t, f[t])
    BY <2>2, <2>3, ToldTurn
  <2>. QED
    BY <2>1, <2>4
<1>5. N \in W
  <2>. HIDE DEF W, N
  <2>1. \A t \in 1..N : t - 1 \in W => t \in W
    BY <1>4
  <2>2. \A t \in 0..N : t \in W
    BY <1>2, <1>3, <2>1, EveryTurn
  <2>. QED
    BY <1>2, <2>2
<1>6. r \in BuiltOn /\ Told(s, prefer, N, r)
  BY <1>1, <1>2, <1>5 DEF Overlay
<1>. HIDE DEF r
<1>. QED
  BY <1>6, LastUptoAll DEF Told, r

(* One token of the command line, of an item that the defaults have.       *)
LEMMA OverrideFacts ==
  ASSUME SeedAssumption, NEW s \in Section, NEW t \in 1..Len(s.ids),
         s.ids[t] < Items, NEW list \in BuiltOn
  PROVE  Override(list, s, t) \in BuiltOn
<1>. DEFINE name == s.ids[t]
            k == IndexOf(list, name)
            a == _maybe_get(s.vals, t, 0)
            r == Override(list, s, t)
<1>1. name \in 0..(Items - 1) /\ Items \in Nat
  BY SectionFacts DEF Id, SeedAssumption
<1>2. list \in Seq(Entry) /\ Len(list) \in Nat /\ DOMAIN list = 1..Len(list)
  BY DEF BuiltOn
<1>3. Len(list) >= Items
  BY DEF BuiltOn
<1>4. name + 1 \in 1..Items /\ name + 1 \in 1..Len(list) /\ (name + 1) - 1 = name
  BY <1>1, <1>2, <1>3
<1>5. list[name + 1].id = name
  BY <1>4 DEF BuiltOn
<1>6. k = name + 1
  BY <1>4, <1>5, IndexOfFacts
<1>7. k \in 1..Len(list) /\ list[k].id = name
  BY <1>4, <1>5, <1>6
<1>8. a \in Nat
  BY SectionFacts DEF _maybe_get
<1>9. r = [list EXCEPT ![k].v = a]
  BY DEF Override
<1>. HIDE DEF a, r, k
<1>10. list[k] \in Entry
  BY <1>2, <1>7
<1>11. list[k] = [id |-> list[k].id, v |-> list[k].v, c |-> list[k].c]
  BY <1>10 DEF Entry
<1>12. /\ DOMAIN r = DOMAIN list /\ r = [j \in DOMAIN list |-> r[j]]
       /\ \A j \in DOMAIN list : j # k => r[j] = list[j]
       /\ r[k] = [list[k] EXCEPT !.v = a]
  BY <1>2, <1>7, <1>9
<1>13. r[k] = [id |-> list[k].id, v |-> a, c |-> list[k].c]
  <2>. DEFINE e == list[k]
  <2>1. e = [id |-> e.id, v |-> e.v, c |-> e.c]
    BY <1>11
  <2>. HIDE DEF e
  <2>2. [e EXCEPT !.v = a] = [id |-> e.id, v |-> a, c |-> e.c]
    BY <2>1
  <2>. QED
    BY <1>12, <2>2, Zenon DEF e
<1>14. r[k] \in Entry /\ r[k].id = list[k].id
  BY <1>8, <1>10, <1>13 DEF Entry
<1>15. \A j \in 1..Len(list) : r[j] \in Entry /\ r[j].id = list[j].id
  BY <1>2, <1>12, <1>14
<1>16. r \in [1..Len(list) -> Entry]
  BY <1>2, <1>12, <1>15
<1>17. r \in Seq(Entry) /\ Len(r) = Len(list)
  BY <1>2, <1>16
<1>18. \A i \in 1..Items : r[i].id = i - 1
  <2>1. \A i \in 1..Items : i \in 1..Len(list) /\ list[i].id = i - 1
    BY <1>1, <1>2, <1>3 DEF BuiltOn
  <2>. QED
    BY <1>15, <2>1
<1>19. \A i, j \in 1..Len(r) : r[i].id = r[j].id => i = j
  BY <1>15, <1>17 DEF BuiltOn
<1>. QED
  BY <1>3, <1>17, <1>18, <1>19 DEF BuiltOn, r

LEMMA OverriddenIsBuiltOn ==
  ASSUME SeedAssumption, NEW s \in Section, ~InvalidTokens(s)
  PROVE  Overridden(s) \in BuiltOn
<1>. DEFINE N == Len(s.ids)
            d == make_default_config
            Set(list, t) == Override(list, s, t)
            F == [p \in BuiltOn \X (1..N) |-> Set(p[1], p[2])]
            Solves(h) == h = [t \in 0..N |-> IF t = 0 THEN d ELSE Set(h[t - 1], t)]
            U == CHOOSE h : Solves(h)
<1>1. N \in Nat /\ d \in BuiltOn
  BY SectionFacts, DefaultsAreBuiltOn
<1>2. \A list \in BuiltOn, t \in 1..N : Set(list, t) \in BuiltOn
  <2>1. \A t \in 1..N : s.ids[t] < Items
    BY SectionFacts DEF InvalidTokens, Id, SeedAssumption
  <2>. QED
    BY <2>1, OverrideFacts
<1>3. Overridden(s) = U[N]
  BY DEF Overridden
<1>. HIDE DEF N, d, Set
<1>4. F \in [BuiltOn \X (1..N) -> BuiltOn]
  BY <1>2
<1>5. \A list \in BuiltOn, t \in 1..N : F[<<list, t>>] = Set(list, t)
  OBVIOUS
<1>. HIDE DEF F
<1>6. PICK f : IsLoop(BuiltOn, N, d, F, f)
  BY <1>1, <1>4, LoopExists
<1>7. Solves(f)
  <2>1. ASSUME NEW t \in 0..N, t # 0 PROVE F[<<f[t - 1], t>>] = Set(f[t - 1], t)
    <3>1. t \in 1..N /\ t - 1 \in 0..N
      BY <1>1, <2>1
    <3>2. f[t - 1] \in BuiltOn
      BY <1>6, <3>1 DEF IsLoop
    <3>. QED
      BY <1>5, <3>1, <3>2
  <2>2. \A t \in 0..N : f[t] = IF t = 0 THEN d ELSE F[<<f[t - 1], t>>]
    BY <1>6 DEF IsLoop
  <2>3. \A t \in 0..N : f[t] = IF t = 0 THEN d ELSE Set(f[t - 1], t)
    BY <2>1, <2>2
  <2>. QED
    BY <1>6, <2>3 DEF IsLoop
<1>8. Solves(U)
  <2>. HIDE DEF Solves
  <2>. QED
    BY <1>7
<1>. HIDE DEF U
<1>9. \A t \in 0..N : U[t] = IF t = 0 THEN d ELSE Set(U[t - 1], t)
  BY <1>8
<1>10. U[0] = d /\ \A t \in 1..N : U[t] = Set(U[t - 1], t)
  BY <1>1, <1>9
<1>. DEFINE W == {t \in 0..N : U[t] \in BuiltOn}
<1>11. 0 \in W
  BY <1>1, <1>10
<1>12. \A t \in 1..N : t - 1 \in W => t \in W
  BY <1>1, <1>2, <1>10
<1>13. \A t \in 0..N : t \in W
  <2>. HIDE DEF W
  <2>. QED
    BY <1>1, <1>11, <1>12, EveryTurn
<1>. QED
  BY <1>1, <1>3, <1>13

-----------------------------------------------------------------------------
(* What the boards have and what is left.  A request is only made when the *)
(* arguments were accepted, and the one that is at hand is the last one.   *)
SeedInv ==
  /\ job \in SomeJob
  /\ at \in 1..(Length(job) + 1)
  /\ DOMAIN board = 1..2
  /\ request # <<>> =>
       ~Raises(job) /\ \E i \in 1..Length(job) : request = RequestOf(job, i)
  /\ exit = "running" /\ at = 1 => request = <<>>
  /\ exit = "running" /\ at = 2 /\ request # <<>> => request = RequestOf(job, 1)
  /\ exit \in {"running", "zero"} =>
       \A i \in 1..(at - 1) : Selected(job, i) => i \in answered
  /\ exit = "zero" => at = Length(job) + 1
  /\ BoardsKeepApart

LEMMA JobFacts ==
  ASSUME SeedAssumption, NEW j \in SomeJob
  PROVE  /\ j.script \in Scripted /\ j.seed \in Section /\ j.prefer \in BOOLEAN
         /\ j.host \in {0, 2} /\ Length(j) \in {1, 2}
         /\ j.script \in {"output", "detail", "compare"} => Length(j) = 2
BY DEF SomeJob, Job, Length

LEMMA NoSectionIsSection == ASSUME SeedAssumption PROVE NoSection \in Section
<1>. DEFINE E == [i \in 1..0 |-> i]
<1>1. MaxList \in Nat /\ 0 \in 0..MaxList
  BY DEF SeedAssumption
<1>2. E = <<>>
  OBVIOUS
<1>3. E \in [1..0 -> Id]
  OBVIOUS
<1>. HIDE DEF E
<1>4. <<>> \in ListsOf(Id)
  BY <1>1, <1>2, <1>3 DEF ListsOf
<1>5. <<>> \in FirstNumbers
  BY <1>1, <1>2 DEF FirstNumbers, E
<1>. QED
  BY <1>4, <1>5 DEF NoSection, Section

(* A request that is sent names each item once.                            *)
LEMMA RequestIsBuiltOn ==
  ASSUME SeedAssumption, NEW j \in SomeJob, NEW i \in 1..Length(j), ~Raises(j),
         j.script \notin {"json", "threshold"}
  PROVE  RequestOf(j, i) \in BuiltOn
<1>1. j.script \in Scripted /\ j.seed \in Section /\ j.prefer \in BOOLEAN
  BY JobFacts
<1>2. SeedOf(j, i) \in Section
  BY <1>1, NoSectionIsSection DEF SeedOf
<1>3. \A s \in Section : build_request_from_seed(s, make_default_config, j.prefer) \in BuiltOn
  BY <1>1, BuiltFromSeed
<1>4. CASE j.script \in {"output", "detail"}
  BY <1>2, <1>3, <1>4 DEF RequestOf
<1>5. CASE j.script = "compare"
  BY <1>1, <1>3, <1>5, DefaultsAreBuiltOn DEF RequestOf
<1>6. CASE j.script = "cli"
  <2>1. ~InvalidTokens(j.seed)
    BY <1>6 DEF Raises
  <2>2. RequestOf(j, i) = Overridden(j.seed)
    BY <1>6 DEF RequestOf
  <2>. QED
    BY <1>1, <2>1, <2>2, OverriddenIsBuiltOn
<1>. QED
  BY <1>1, <1>4, <1>5, <1>6 DEF Scripted

LEMMA SeedInvInit == ASSUME SeedAssumption, SeedInit PROVE SeedInv
<1>1. PICK j \in SomeJob : SeedStart(j)
  BY DEF SeedInit
<1>2. Length(job) \in {1, 2} /\ job \in SomeJob
  BY <1>1, JobFacts DEF SeedStart
<1>3. BoardsKeepApart
  BY <1>1 DEF SeedStart, BoardsKeepApart
<1>. QED
  BY <1>1, <1>2, <1>3 DEF SeedStart, SeedInv

(* A request for one board leaves the others as they are.                  *)
LEMMA ApartAfterSend ==
  ASSUME SeedAssumption, SeedInv, InLoop, Selected(job, at), job' = job,
         board' \in {board, Applied(RequestOf(job, at))}
  PROVE  BoardsKeepApart' /\ DOMAIN board' = 1..2
<1>1. job.host \in {0, 2} /\ Length(job) \in {1, 2} /\ job \in SomeJob
  BY JobFacts DEF SeedInv
<1>2. at \in 1..2 /\ DOMAIN board = 1..2
  BY <1>1 DEF SeedInv, InLoop
<1>3. DOMAIN board' = 1..2
  BY <1>2 DEF Applied
<1>4. ASSUME job.script \in {"output", "detail"}, job.host = 0,
             NEW b \in 1..2, board'[b] # <<>>
      PROVE  Selected(job, b) /\ board'[b] = RequestOf(job, b)
  <2>1. board[b] # <<>> => Selected(job, b) /\ board[b] = RequestOf(job, b)
    BY <1>4 DEF SeedInv, BoardsKeepApart
  <2>2. CASE board' = board
    BY <1>4, <2>1, <2>2
  <2>3. CASE board' = Applied(RequestOf(job, at))
    <3>1. target_ip(job, at) = at
      BY <1>4 DEF target_ip
    <3>2. board' = [board EXCEPT ![at] = RequestOf(job, at)]
      BY <2>3, <3>1 DEF Applied
    <3>3. board'[b] = IF b = at THEN RequestOf(job, at) ELSE board[b]
      BY <1>2, <3>2
    <3>. QED
      BY <1>4, <2>1, <3>3
  <2>. QED
    BY <2>2, <2>3
<1>. QED
  BY <1>3, <1>4 DEF BoardsKeepApart

LEMMA SeedInvNext ==
  ASSUME SeedAssumption, SeedInv, [SeedNext]_seedVars
  PROVE  SeedInv'
<1>1. job \in SomeJob /\ Length(job) \in {1, 2} /\ at \in 1..(Length(job) + 1)
  BY JobFacts DEF SeedInv
<1>2. CASE SkipBoard
  <2>1. at' = at + 1 /\ at <= Length(job) /\ exit = "running" /\ ~Selected(job, at)
    BY <1>2 DEF SkipBoard, InLoop
  <2>2. UNCHANGED <<job, request, board, answered, exit>>
    BY <1>2 DEF SkipBoard
  <2>3. BoardsKeepApart'
    BY <2>2 DEF BoardsKeepApart, SeedInv
  <2>4. \A i \in 1..(at' - 1) : i \in 1..(at - 1) \/ i = at
    BY <1>1, <2>1
  <2>5. at' = 2 => request = <<>>
    <3>1. ASSUME at' = 2, request # <<>> PROVE FALSE
      <4>1. at = 1
        BY <1>1, <2>1, <3>1
      <4>. QED
        BY <2>1, <3>1, <4>1 DEF SeedInv
    <3>. QED
      BY <3>1
  <2>6. at' # 1
    BY <1>1, <2>1
  <2>. QED
    BY <1>1, <2>1, <2>2, <2>3, <2>4, <2>5, <2>6 DEF SeedInv
<1>3. CASE RaiseBeforeSend
  BY <1>3 DEF RaiseBeforeSend, SeedInv, BoardsKeepApart
<1>4. CASE SendBoard
  <2>1. /\ InLoop /\ Selected(job, at) /\ ~Raises(job) /\ job' = job /\ exit' = exit
        /\ request' = RequestOf(job, at) /\ at' = at + 1
        /\ board' \in {board, Applied(RequestOf(job, at))}
        /\ answered' = answered \cup {at}
    BY <1>4 DEF SendBoard
  <2>2. BoardsKeepApart' /\ DOMAIN board' = 1..2
    BY <2>1, ApartAfterSend
  <2>3. at \in 1..Length(job) /\ at' \in 1..(Length(job) + 1) /\ exit = "running"
    BY <1>1, <2>1 DEF InLoop
  <2>4. (at' = 2 => at = 1) /\ at' # 1
    BY <1>1, <2>1
  <2>5. \A i \in 1..(at' - 1) : i \in 1..(at - 1) \/ i = at
    BY <1>1, <2>1
  <2>6. \A i \in 1..(at' - 1) : Selected(job, i) => i \in answered'
    BY <2>1, <2>3, <2>5 DEF SeedInv
  <2>. QED
    BY <1>1, <2>1, <2>2, <2>3, <2>4, <2>6 DEF SeedInv
<1>5. CASE SendFails
  <2>1. /\ InLoop /\ Selected(job, at) /\ ~Raises(job) /\ job' = job /\ exit' = "error"
        /\ request' = RequestOf(job, at) /\ at' = at
        /\ board' \in {board, Applied(RequestOf(job, at))}
    BY <1>5 DEF SendFails
  <2>2. BoardsKeepApart' /\ DOMAIN board' = 1..2
    BY <2>1, ApartAfterSend
  <2>3. at \in 1..Length(job)
    BY <1>1, <2>1 DEF InLoop
  <2>. QED
    BY <1>1, <2>1, <2>2, <2>3 DEF SeedInv
<1>6. CASE EndConfigure
  <2>1. /\ exit = "running" /\ at = Length(job) + 1
        /\ exit' \in {"two", "zero"} /\ UNCHANGED <<job, at, request, board, answered>>
    BY <1>1, <1>6 DEF EndConfigure
  <2>2. BoardsKeepApart'
    BY <2>1 DEF BoardsKeepApart, SeedInv
  <2>. QED
    BY <2>1, <2>2 DEF SeedInv
<1>7. CASE UNCHANGED seedVars
  BY <1>7 DEF seedVars, SeedInv, BoardsKeepApart
<1>. QED
  BY <1>2, <1>3, <1>4, <1>5, <1>6, <1>7 DEF SeedNext

LEMMA SeedInvImplies == ASSUME SeedAssumption, SeedInv PROVE SeedsAreApplied
<1>1. job \in SomeJob /\ Length(job) \in {1, 2} /\ at \in 1..(Length(job) + 1)
  BY JobFacts DEF SeedInv
<1>2. NamedOnce
  <2>. SUFFICES ASSUME request # <<>>, job.script \notin {"json", "threshold"}
                PROVE  /\ \A i \in 1..Items : request[i].id = i - 1
                       /\ \A i, k \in DOMAIN request :
                            request[i].id = request[k].id => i = k
    BY DEF NamedOnce
  <2>1. PICK i \in 1..Length(job) : request = RequestOf(job, i) /\ ~Raises(job)
    BY DEF SeedInv
  <2>2. request \in BuiltOn
    BY <1>1, <2>1, RequestIsBuiltOn
  <2>3. DOMAIN request = 1..Len(request)
    BY <2>2 DEF BuiltOn
  <2>. QED
    BY <2>2, <2>3 DEF BuiltOn
<1>3. SeedWins
  <2>. SUFFICES ASSUME exit = "running", at = 2, job.script \in {"output", "detail"},
                       request # <<>>, NEW i \in DOMAIN request
                PROVE  /\ request[i].v = LastGiven(job.seed, job.seed.vals, request[i].id,
                                                   Was(request[i].id))
                       /\ job.prefer =>
                            request[i].c = LastGiven(job.seed, job.seed.common,
                                                     request[i].id, Was(request[i].id))
    BY DEF SeedWins, InLoop, Was
  <2>1. request = build_request_from_seed(job.seed, make_default_config, job.prefer)
    BY DEF SeedInv, RequestOf, SeedOf
  <2>2. job.seed \in Section /\ job.prefer \in BOOLEAN
    BY <1>1, JobFacts
  <2>3. request \in BuiltOn
    BY <2>1, <2>2, BuiltFromSeed
  <2>4. i \in 1..Len(request)
    BY <2>3 DEF BuiltOn
  <2>. QED
    BY <2>1, <2>2, <2>4, BuiltFromSeed
<1>4. ZeroIsAnswered
  <2>1. exit = "zero" => at - 1 = Length(job)
    BY <1>1 DEF SeedInv
  <2>. QED
    BY <2>1 DEF SeedInv, ZeroIsAnswered
<1>. QED
  BY <1>2, <1>3, <1>4 DEF SeedInv, SeedsAreApplied

(* Every board gets its own seed, whole and once, or the script says so:   *)
(* SeedsAreApplied, for any number of items, any length of the lists and   *)
(* any values of them, of the loops of build_request_from_seed and of the  *)
(* scripts around it.                                                      *)
THEOREM SeedsApplied == SeedSpec => []SeedsAreApplied
<1>1. SeedInit => SeedInv
  BY SeedAssumption, SeedInvInit
<1>2. SeedInv /\ [SeedNext]_seedVars => SeedInv'
  BY SeedAssumption, SeedInvNext
<1>3. SeedInv => SeedsAreApplied
  BY SeedAssumption, SeedInvImplies
<1>. QED
  BY <1>1, <1>2, <1>3, PTL DEF SeedSpec
=============================================================================
