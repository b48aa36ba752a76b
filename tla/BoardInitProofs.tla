--------------------------- MODULE BoardInitProofs ---------------------------
(***************************************************************************)
(* Theorems about the bring-up of the board, for any number of chips, any  *)
(* width of their words, any init memories and any register table.         *)
(***************************************************************************)
EXTENDS BoardInit, SequenceTheorems, TLAPS

-----------------------------------------------------------------------------
(* A controller at any time. *)

State(c) == ctl[c].sh_state
Counter(c) == ctl[c].sh_counter
Pos(c) == ctl[c].shift_reg.pos
Idle(c) == State(c) = "idle"

(* Edges until the device is no longer selected for the word it gets. *)
Remaining(c) ==
  IF State(c) = "instruct" THEN Counter(c) + 1 + DataBits
  ELSE IF State(c) \in {"data_io", "reg_write"} THEN Counter(c) + 1
  ELSE 0

(* The states of the two kinds of controllers, and how far the counter and *)
(* the shift register can be in each.                                      *)
Shape(c) ==
  /\ ctl[c].shifting = Selected(State(c))
  /\ ctl[c].ncs = ~Selected(State(c))
  /\ IF IsCdce(c)
     THEN \/ State(c) \in {"idle", "data_valid"}
          \/ State(c) = "reg_write" /\ Pos(c) + Counter(c) < WordBits
          \/ State(c) = "start_reg_read" /\ Pos(c) <= WordBits
          \/ State(c) = "reg_read" /\ Pos(c) + Counter(c) < 2 * WordBits
     ELSE \/ State(c) \in {"idle", "data_valid"}
          \/ State(c) = "instruct" /\ Pos(c) + Counter(c) < InstBits
          \/ State(c) = "data_io" /\ Pos(c) + Counter(c) < WordBits /\ Counter(c) < DataBits

(* An init that is over stays over. *)
Settled(c) ==
  ctl[c].init_done => ctl[c].done /\ ~init[c] /\ ~ctl[c].init_tmp /\ ~ctl[c].init_reg

AtRest(c) == Idle(c) /\ ~ctl[c].read_byte_val /\ flight[c] = "free"

-----------------------------------------------------------------------------
(* The init chain, before the software starts. *)

(* Entries of the init memory loaded, and those that reached the device. *)
Loaded(c) == IF ctl[c].done THEN Len(InitMem[c]) ELSE ctl[c].init_address - 1
Stored(c) == IF Idle(c) THEN Loaded(c) ELSE Loaded(c) - 1

(* The device holds the first n entries. *)
Holds(c, n) ==
  \A k \in 1..n :
    (\A m \in (k + 1)..n : InitMem[c][m].addr # InitMem[c][k].addr)
      => reg[c][InitMem[c][k].addr] = InitMem[c][k].data

(* The entry on its way. *)
SendsEntry(c) ==
  /\ Loaded(c) \in DOMAIN InitMem[c]
  /\ ctl[c].shift_reg.word =
       [rw |-> 0, addr |-> InitMem[c][Loaded(c)].addr, data |-> InitMem[c][Loaded(c)].data]
  /\ Pos(c) + Remaining(c) = WordBits
  /\ Remaining(c) <= DataBits => rx[c] = [rw |-> 0, addr |-> InitMem[c][Loaded(c)].addr]

(* The init flag and its synchroniser fall while the last entry is sent. *)
Flags(c) ==
  /\ ~ctl[c].done => /\ ctl[c].init_reg => ctl[c].init_tmp
                     /\ ctl[c].init_tmp => init[c]
                     /\ ~Idle(c) => ctl[c].init_reg
  /\ ctl[c].done => /\ ~init[c]
                    /\ ctl[c].init_tmp => Remaining(c) = WordBits
                    /\ ctl[c].init_reg => Remaining(c) >= WordBits - 1

Off(c) == ~init[c] /\ ~ctl[c].done /\ ~ctl[c].init_done

Booting(c) ==
  /\ flight[c] = "free"
  /\ ~ctl[c].read_byte_val
  /\ ctl[c].read_n_write = 0
  /\ State(c) \in {"idle", "reg_write", "instruct", "data_io"}
  /\ ctl[c].init_done => Idle(c)
  /\ Flags(c)
  /\ ~Idle(c) => SendsEntry(c)
  /\ Holds(c, Stored(c))

(* Each chip waits for those before it. *)
Chain == \A c, d \in Chips : d < c /\ ~ctl[d].init_done => Off(c)

-----------------------------------------------------------------------------
(* The software's accesses to the cdce72010. *)

(* What a read of its register addr may bring. *)
Genuine(d, addr) == d.val = reg[CDCE72010][addr] /\ (d.lock => seenLock)

(* The last instruction of the software, inst, has got this far. *)
Access ==
  LET c == CDCE72010
      w == inst[CDCE72010]
  IN \/ /\ flight[c] = "set" /\ Idle(c) /\ ~ctl[c].read_byte_val
     \/ /\ flight[c] # "set" /\ ~ctl[c].read_byte_val
        /\ State(c) = "reg_write"
        /\ ctl[c].read_n_write = w.rw /\ ctl[c].shift_reg.word = w
        /\ Pos(c) + Counter(c) = WordBits - 1
        /\ Counter(c) < DataBits => rx[c] = [rw |-> w.rw, addr |-> w.addr]
     \/ /\ flight[c] # "set" /\ ~ctl[c].read_byte_val
        /\ w.rw = 1 /\ State(c) \in {"start_reg_read", "reg_read"}
        /\ rx[c] = [rw |-> 1, addr |-> w.addr]
     \/ /\ flight[c] # "set" /\ ~ctl[c].read_byte_val
        /\ w.rw = 1 /\ State(c) = "data_valid"
        /\ Genuine(ctl[c].shift_reg.in, w.addr)
     \/ /\ flight[c] # "set" /\ ctl[c].read_byte_val
        /\ w.rw = 1 /\ Idle(c)
        /\ Genuine(ctl[c].data_read, w.addr)
     \/ /\ flight[c] # "set" /\ ~ctl[c].read_byte_val
        /\ Idle(c)
        /\ IF w.rw = 1 THEN Genuine(dataout, w.addr) ELSE reg[c][w.addr] = w.data

(* The chip the software may have left at work. *)
Active == IF pc.at = "ads_back" /\ pc.step # "done" THEN {ADS62P49}
          ELSE IF pc.step = "wait" \/ pc.at = "pause" THEN {CDCE72010}
          ELSE {}

(* Registers of the software's table that the cdce72010 holds. *)
Written == IF pc.at \in {"reset", "dma", "failed"} THEN 0
           ELSE IF pc.at \in {"before", "pause"} THEN i
           ELSE IF pc.at = "after" THEN i + 1
           ELSE CDCE72010_NUMREG

Running ==
  /\ \A c \in Chips : ctl[c].init_done
  /\ \A c \in Chips \ Active : AtRest(c)
  /\ CDCE72010 \in Active =>
       /\ Access
       /\ IF pc.at = "pause"
          THEN inst[CDCE72010] = [rw |-> 0, addr |-> i, data |-> cdce72010_reg[i]]
          ELSE inst[CDCE72010].rw = 1 /\ inst[CDCE72010].addr = Addr(pc.at) /\ (pll => seenLock)
  /\ pc.step = "done" /\ Chip(pc.at) = CDCE72010 => Genuine(value, Addr(pc.at))
  /\ pc.at \in {"before", "pause", "after"} => i \in DOMAIN cdce72010_reg
  /\ \A a \in 0..(Written - 1) : reg[CDCE72010][a] = cdce72010_reg[a]
  /\ pc.at \in {"mmcm", "ext_pause", "ext", "kernel", "serving", "nonet"} =>
       adc_delay = DelayFor[cdce72010_reg[DivReg]]
  /\ pc.at \in {"kernel", "serving", "nonet"} => seenLock

(* The loop counter at each place. *)
Counting_i ==
  /\ pc.at \in {"reset", "dma", "ads", "ads_back", "delay", "kernel", "serving", "nonet"} => i = 0
  /\ pc.at = "mmcm" => i < MAX_MMCM_LOCK_TRIES
  /\ pc.at \in {"ext_pause", "ext"} => i < MAX_PLL_LOCK_TRIES

Inv ==
  /\ TypeOK
  /\ \A c \in Chips : Shape(c) /\ Settled(c)
  /\ IF pc = At("reset") THEN (\A c \in Chips : Booting(c)) /\ Chain ELSE Running
  /\ Counting_i

-----------------------------------------------------------------------------
(* One edge of serial_clk, seen by one controller. *)

LEMMA Sizes ==
  /\ InstBits \in Nat /\ InstBits >= 1 /\ DataBits \in Nat /\ DataBits >= 1
  /\ WordBits \in Nat /\ WordBits >= 2 /\ WordBits = InstBits + DataBits
  /\ Chips \subseteq Nat /\ CDCE72010 \in Chips /\ ADS62P49 \in Chips /\ CDCE72010 # ADS62P49
BY SpiAssumption, BoardAssumption DEF WordBits, Chips, CDCE72010, ADS62P49

(* The fields of a controller after the edge. *)
LEMMA EdgeFields ==
  ASSUME NEW vals, SerialClk(vals), NEW c \in Chips
  PROVE  LET v == c \in vals
             last == LoadsInit(c) /\ InitWord(c).addr = LastAddr
         IN /\ ctl'[c].init_tmp = init[c]
            /\ ctl'[c].init_reg = ctl[c].init_tmp
            /\ ctl'[c].sh_state = NextState(c, v)
            /\ ctl'[c].sh_counter =
                 IF Counting(c) THEN ctl[c].sh_counter - 1
                 ELSE IF IsCdce(c) THEN WordBits - 1
                 ELSE IF NextState(c, v) = "data_io" THEN DataBits - 1 ELSE InstBits - 1
            /\ ctl'[c].shifting = Selected(NextState(c, v))
            /\ ctl'[c].read_n_write = IF ~Accepts(c, v) THEN ctl[c].read_n_write
                                      ELSE IF ctl[c].init_reg THEN 0 ELSE inst[c].rw
            /\ ctl'[c].ncs = ~Selected(NextState(c, v))
            /\ ctl'[c].shift_reg = shift_reg(c, v)
            /\ ctl'[c].init_address = IF ~LoadsInit(c) THEN ctl[c].init_address
                                      ELSE IF last THEN 1 ELSE ctl[c].init_address + 1
            /\ ctl'[c].done = IF LoadsInit(c) THEN last ELSE ctl[c].done
            /\ ctl'[c].init_done = InitDone(c)
            /\ ctl'[c].read_byte_val = (ctl[c].sh_state = "data_valid")
            /\ ctl'[c].data_read = IF ctl[c].sh_state = "data_valid"
                                   THEN ctl[c].shift_reg.in ELSE ctl[c].data_read
<1>1. ctl'[c] = Edge(c, c \in vals)
  BY DEF SerialClk
<1> QED BY <1>1 DEF Edge

(* The same without an instruction pulse for the controller. *)
LEMMA EdgeNoPulse ==
  ASSUME NEW vals, SerialClk(vals), NEW c \in Chips, c \notin vals
  PROVE  /\ State(c)' = NextState(c, FALSE)
         /\ ctl'[c].shift_reg = shift_reg(c, FALSE)
         /\ ctl'[c].read_n_write = IF ~Accepts(c, FALSE) THEN ctl[c].read_n_write
                                   ELSE IF ctl[c].init_reg THEN 0 ELSE inst[c].rw
         /\ flight'[c] = flight[c]
<1>1. (c \in vals) = FALSE
  OBVIOUS
<1>2. ctl'[c] = Edge(c, FALSE)
  BY <1>1 DEF SerialClk
<1>3. flight'[c] = flight[c]
  BY DEF SerialClk
<1> QED BY <1>2, <1>3 DEF Edge, State

LEMMA EdgeRest ==
  ASSUME NEW vals, SerialClk(vals), NEW c \in Chips
  PROVE  /\ flight'[c] = IF c \in vals THEN "out" ELSE flight[c]
         /\ rx'[c] = DeviceRx(c) /\ reg'[c] = DeviceReg(c)
         /\ init'[c] = (~ctl'[c].done /\ (init[c] \/ c = 1 \/ ctl'[c - 1].init_done))
<1>1. /\ flight'[c] = IF c \in vals THEN "out" ELSE flight[c]
      /\ rx'[c] = DeviceRx(c) /\ reg'[c] = DeviceReg(c)
  BY DEF SerialClk
<1>2. c # 1 => c - 1 \in Chips
  BY SpiAssumption DEF Chips
<1> QED BY <1>1, <1>2 DEF SerialClk, init_ena

(* The state machine. *)
LEMMA NextStates ==
  ASSUME SpiType, NEW c \in Chips, NEW v \in BOOLEAN
  PROVE  /\ Counting(c) => NextState(c, v) = State(c)
         /\ ~Counting(c) =>
              /\ State(c) = "idle" /\ ~v /\ ~ctl[c].init_reg => NextState(c, v) = "idle"
              /\ State(c) = "idle" /\ (v \/ ctl[c].init_reg) =>
                   NextState(c, v) = IF IsCdce(c) THEN "reg_write" ELSE "instruct"
              /\ State(c) = "reg_write" =>
                   NextState(c, v) = IF ctl[c].read_n_write = 1 THEN "start_reg_read" ELSE "idle"
              /\ State(c) = "start_reg_read" => NextState(c, v) = "reg_read"
              /\ State(c) = "reg_read" => NextState(c, v) = "data_valid"
              /\ State(c) = "instruct" => NextState(c, v) = "data_io"
              /\ State(c) = "data_io" =>
                   NextState(c, v) = IF ctl[c].read_n_write = 1 THEN "data_valid" ELSE "idle"
              /\ State(c) = "data_valid" => NextState(c, v) = "idle"
<1>1. ctl[c].init_reg \in BOOLEAN /\ State(c) \in States
  BY DEF SpiType, Controls, State
<1> QED BY <1>1 DEF NextState, State, States, Counting, Selected, Accepts

(* The fields of a controller before the edge. *)
LEMMA ControlTypes ==
  ASSUME SpiType, NEW c \in Chips
  PROVE  /\ ctl[c].init_tmp \in BOOLEAN /\ ctl[c].init_reg \in BOOLEAN
         /\ ctl[c].shifting \in BOOLEAN /\ ctl[c].ncs \in BOOLEAN /\ ctl[c].done \in BOOLEAN
         /\ ctl[c].init_done \in BOOLEAN /\ ctl[c].read_byte_val \in BOOLEAN
         /\ init[c] \in BOOLEAN
         /\ State(c) \in States /\ Counter(c) \in 0..(WordBits - 1) /\ Counter(c) \in Nat
         /\ ctl[c].read_n_write \in 0..1
         /\ ctl[c].shift_reg \in ShiftRegs /\ Pos(c) \in 0..(2 * WordBits) /\ Pos(c) \in Nat
         /\ ctl[c].shift_reg.word \in Words /\ ctl[c].shift_reg.in \in Data
         /\ ctl[c].init_address \in Nat \ {0} /\ ctl[c].init_address \in DOMAIN InitMem[c]
         /\ ctl[c].data_read \in Data
         /\ inst[c] \in Words /\ rx[c] \in [rw : 0..1, addr : Addrs]
         /\ reg[c] \in [Addrs -> Values \cup {Junk}] /\ flight[c] \in {"free", "set", "out"}
<1>1. ctl[c] \in Controls
  BY DEF SpiType
<1>2. ctl[c].shift_reg \in ShiftRegs
  BY <1>1 DEF Controls
<1>3. /\ ctl[c].shift_reg.pos \in 0..(2 * WordBits)
      /\ ctl[c].shift_reg.word \in Words /\ ctl[c].shift_reg.in \in Data
  BY <1>2 DEF ShiftRegs
<1>4. Pos(c) \in Nat /\ Pos(c) \in 0..(2 * WordBits)
  BY <1>3, Sizes DEF Pos
<1>5. State(c) \in States /\ Counter(c) \in 0..(WordBits - 1) /\ Counter(c) \in Nat
  BY <1>1, Sizes DEF Controls, State, Counter
<1> QED BY <1>1, <1>2, <1>3, <1>4, <1>5 DEF Controls, SpiType

LEMMA ShapeStates ==
  ASSUME SpiType, NEW c \in Chips, Shape(c)
  PROVE  /\ State(c) \in {"reg_write", "start_reg_read", "reg_read"} => IsCdce(c)
         /\ State(c) \in {"instruct", "data_io"} => ~IsCdce(c)
         /\ State(c) = "reg_write" => Pos(c) + Counter(c) < WordBits
         /\ State(c) = "start_reg_read" => Pos(c) <= WordBits
         /\ State(c) = "reg_read" => Pos(c) + Counter(c) < 2 * WordBits
         /\ State(c) = "instruct" => Pos(c) + Counter(c) < InstBits
         /\ State(c) = "data_io" => Pos(c) + Counter(c) < WordBits /\ Counter(c) < DataBits
         /\ ctl[c].shifting = Selected(State(c)) /\ ctl[c].ncs = ~Selected(State(c))
BY DEF Shape

LEMMA EntryType ==
  ASSUME NEW c \in Chips, NEW k \in DOMAIN InitMem[c]
  PROVE  /\ InitMem[c][k] \in [addr : Addrs, data : Values]
         /\ InitMem[c][k].addr \in Addrs /\ InitMem[c][k].data \in Values
         /\ k \in Nat /\ k >= 1 /\ k <= Len(InitMem[c]) /\ Len(InitMem[c]) \in Nat
         /\ InitMem[c][k].addr = LastAddr <=> k = Len(InitMem[c])
         /\ 1 \in DOMAIN InitMem[c]
         /\ k # Len(InitMem[c]) => k + 1 \in DOMAIN InitMem[c]
<1>1. InitMem[c] \in Seq([addr : Addrs, data : Values])
  BY SpiAssumption
<1>2. DOMAIN InitMem[c] = 1..Len(InitMem[c]) /\ Len(InitMem[c]) \in Nat
  BY <1>1
<1>3. InitMem[c][k] \in [addr : Addrs, data : Values]
  BY <1>1, <1>2, ElementOfSeq
<1>4. InitMem[c][k].addr = LastAddr <=> k = Len(InitMem[c])
  BY SpiAssumption
<1> QED BY <1>2, <1>3, <1>4

(* What the shift register becomes. *)
LEMMA ShiftTypes ==
  ASSUME SpiType, NEW c \in Chips, NEW v \in BOOLEAN, Shape(c)
  PROVE  /\ shift_reg(c, v) \in ShiftRegs
         /\ \/ shift_reg(c, v).pos = 0
            \/ ctl[c].shifting /\ shift_reg(c, v).pos = Pos(c) + 1
            \/ ~ctl[c].shifting /\ shift_reg(c, v).pos = Pos(c)
<1>1. NoData \in Data
  BY DEF NoData, Data
<1>2. \A w \in Words : Load(w) \in ShiftRegs /\ Load(w).pos = 0
  BY <1>1, Sizes DEF Load, ShiftRegs
<1>3. CASE LoadsInit(c)
  <2> DEFINE w == [rw |-> 0, addr |-> InitWord(c).addr, data |-> InitWord(c).data]
  <2>1. InitWord(c).addr \in Addrs /\ InitWord(c).data \in Values
    BY ControlTypes, EntryType DEF InitWord
  <2>2. w \in Words
    BY <2>1 DEF Words
  <2>3. shift_reg(c, v) = Load(w)
    BY <1>3 DEF shift_reg
  <2> QED BY <1>2, <2>2, <2>3
<1>4. CASE ~LoadsInit(c) /\ v /\ ~ctl[c].init_reg
  <2>1. shift_reg(c, v) = Load(inst[c])
    BY <1>4 DEF shift_reg
  <2> QED BY <1>2, <2>1, ControlTypes
<1>5. CASE ~LoadsInit(c) /\ ~(v /\ ~ctl[c].init_reg) /\ ctl[c].shifting
  <2>1. sdi(c) \in Data
    <3>1. rx[c].addr \in Addrs
      BY ControlTypes
    <3>2. reg[c][rx[c].addr] \in Values \cup {Junk}
      BY <3>1, ControlTypes
    <3>3. (IsCdce(c) /\ rx[c].addr = LockReg /\ pll) \in BOOLEAN
      OBVIOUS
    <3> QED BY <1>1, <3>2, <3>3 DEF sdi, Data
  <2>2. shift_reg(c, v) = [ctl[c].shift_reg EXCEPT !.pos = @ + 1, !.in = sdi(c)]
    BY <1>5 DEF shift_reg
  <2>3. Pos(c) + 1 \in 0..(2 * WordBits)
    <3>1. Selected(State(c))
      BY <1>5 DEF Shape
    <3>2. Pos(c) < 2 * WordBits
      BY <3>1, ShapeStates, ControlTypes, Sizes DEF Selected
    <3> QED BY <3>2, ControlTypes, Sizes
  <2>4. ctl[c].shift_reg \in ShiftRegs
    BY ControlTypes
  <2> QED BY <1>5, <2>1, <2>2, <2>3, <2>4 DEF ShiftRegs, Pos
<1>6. CASE ~LoadsInit(c) /\ ~(v /\ ~ctl[c].init_reg) /\ ~ctl[c].shifting
  <2>1. shift_reg(c, v) = ctl[c].shift_reg
    BY <1>6 DEF shift_reg
  <2> QED BY <1>6, <2>1, ControlTypes DEF Pos
<1> QED BY <1>3, <1>4, <1>5, <1>6, ControlTypes

(* A controller and its device keep their types, and the controller its    *)
(* shape.                                                                  *)
LEMMA ClkState ==
  ASSUME SpiType, NEW vals, SerialClk(vals), NEW c \in Chips, Shape(c)
  PROVE  /\ State(c)' \in States /\ Counter(c)' \in 0..(WordBits - 1)
         /\ ctl[c].shift_reg' \in ShiftRegs
         /\ Shape(c)'
<1> DEFINE v == c \in vals
<1> HIDE DEF v
<1>1. v \in BOOLEAN
  BY DEF v
<1>2. State(c)' = NextState(c, v) /\ ctl[c].shift_reg' = shift_reg(c, v)
  BY EdgeFields DEF State, v
<1>3. Counter(c)' = IF Counting(c) THEN Counter(c) - 1
                    ELSE IF IsCdce(c) THEN WordBits - 1
                    ELSE IF State(c)' = "data_io" THEN DataBits - 1 ELSE InstBits - 1
  BY <1>2, EdgeFields DEF Counter, v
<1>4. ctl[c].shifting' = Selected(State(c))' /\ ctl[c].ncs' = ~Selected(State(c))'
  BY <1>2, EdgeFields DEF v, Selected
<1>5. /\ ctl[c].shift_reg' \in ShiftRegs
      /\ \/ Pos(c)' = 0
         \/ Selected(State(c)) /\ Pos(c)' = Pos(c) + 1
         \/ ~Selected(State(c)) /\ Pos(c)' = Pos(c)
  BY <1>1, <1>2, ShiftTypes DEF Shape, Pos
<1>6. Counting(c) <=> Selected(State(c)) /\ Counter(c) > 0
  BY DEF Counting, State, Counter
<1>7. /\ State(c) \in States /\ Counter(c) \in 0..(WordBits - 1) /\ Pos(c) \in Nat
      /\ Counter(c) \in Nat
  BY ControlTypes
<1>8. Pos(c)' \in Nat
  BY <1>5, <1>7
<1>9. State(c)' \in States
  BY <1>1, <1>2, <1>6, <1>7, NextStates DEF States, Selected
<1>10. Counter(c)' \in 0..(WordBits - 1)
  BY <1>3, <1>6, <1>7, Sizes
<1>11. Shape(c)'
  <2>1. CASE Counting(c)
    <3>1. State(c)' = State(c) /\ Selected(State(c)) /\ Counter(c)' = Counter(c) - 1
      BY <1>1, <1>2, <1>3, <1>6, <2>1, NextStates
    <3>2. Pos(c)' + Counter(c)' <= Pos(c) + Counter(c)
      BY <1>5, <1>7, <1>8, <3>1
    <3>3. Pos(c)' + Counter(c)' \in Int /\ Pos(c) + Counter(c) \in Int
      BY <1>7, <1>8, <3>1
    <3>4. Counter(c) < DataBits => Counter(c)' < DataBits
      BY <1>7, <3>1, Sizes
    <3> QED BY <1>4, <3>1, <3>2, <3>3, <3>4, Sizes DEF Shape, Selected
  <2>2. CASE ~Counting(c) /\ State(c) = "idle"
    <3>1. State(c)' = "idle" \/ State(c)' = IF IsCdce(c) THEN "reg_write" ELSE "instruct"
      BY <1>1, <1>2, <2>2, NextStates
    <3>2. State(c)' # "idle" => Pos(c)' = 0
      <4> SUFFICES ASSUME State(c)' # "idle" PROVE Pos(c)' = 0
        OBVIOUS
      <4>1. v \/ ctl[c].init_reg
        BY <1>1, <1>2, <2>2, NextStates
      <4>2. ~ctl[c].shifting
        BY <2>2 DEF Shape, Selected
      <4>3. LoadsInit(c) \/ (v /\ ~ctl[c].init_reg)
        BY <4>1, <4>2 DEF LoadsInit
      <4>4. shift_reg(c, v).pos = 0
        BY <4>3 DEF shift_reg, Load
      <4> QED BY <1>2, <4>4 DEF Pos
    <3>3. State(c)' # "idle" => Counter(c)' = IF IsCdce(c) THEN WordBits - 1 ELSE InstBits - 1
      BY <1>3, <2>2, <3>1
    <3> QED BY <1>4, <3>1, <3>2, <3>3, Sizes DEF Shape
  <2>3. CASE ~Counting(c) /\ State(c) = "reg_write"
    <3>1. State(c)' \in {"idle", "start_reg_read"} /\ IsCdce(c) /\ Pos(c) < WordBits
      BY <1>1, <1>2, <1>6, <1>7, <2>3, NextStates, ShapeStates, Sizes DEF Selected
    <3>2. Pos(c)' <= WordBits
      BY <1>5, <1>7, <2>3, <3>1, Sizes
    <3> QED BY <1>4, <3>1, <3>2 DEF Shape
  <2>4. CASE ~Counting(c) /\ State(c) = "start_reg_read"
    <3>1. State(c)' = "reg_read" /\ IsCdce(c) /\ Pos(c) <= WordBits /\ Counter(c)' = WordBits - 1
      BY <1>1, <1>2, <1>3, <2>4, NextStates, ShapeStates
    <3>2. Pos(c)' <= WordBits
      BY <1>5, <1>7, <2>4, <3>1, Sizes DEF Selected
    <3>3. Pos(c)' + Counter(c)' < 2 * WordBits
      BY <1>8, <3>1, <3>2, Sizes
    <3> QED BY <1>4, <3>1, <3>3 DEF Shape
  <2>5. CASE ~Counting(c) /\ State(c) \in {"reg_read", "data_valid", "data_io"}
    <3>1. State(c)' \in {"idle", "data_valid"}
      BY <1>1, <1>2, <2>5, NextStates
    <3> QED BY <1>4, <3>1 DEF Shape
  <2>6. CASE ~Counting(c) /\ State(c) = "instruct"
    <3>1. State(c)' = "data_io" /\ ~IsCdce(c) /\ Pos(c) < InstBits /\ Counter(c)' = DataBits - 1
      BY <1>1, <1>2, <1>3, <1>6, <1>7, <2>6, NextStates, ShapeStates, Sizes DEF Selected
    <3>2. Pos(c)' <= InstBits
      BY <1>5, <1>7, <2>6, <3>1, Sizes
    <3>3. Pos(c)' + Counter(c)' < WordBits /\ Counter(c)' < DataBits
      BY <1>8, <3>1, <3>2, Sizes
    <3> QED BY <1>4, <3>1, <3>3 DEF Shape
  <2> QED BY <1>7, <2>1, <2>2, <2>3, <2>4, <2>5, <2>6 DEF States
<1> QED BY <1>5, <1>9, <1>10, <1>11

LEMMA ClkFields ==
  ASSUME SpiType, NEW vals, SerialClk(vals), NEW c \in Chips, Shape(c)
  PROVE  /\ ctl'[c] \in Controls
         /\ ctl'[c].init_address \in DOMAIN InitMem[c]
<1> DEFINE e == ctl'[c]
           last == LoadsInit(c) /\ InitWord(c).addr = LastAddr
<1>1. e = Edge(c, c \in vals)
  BY DEF SerialClk
<1>2. e.init_tmp \in BOOLEAN /\ e.init_reg \in BOOLEAN
  BY EdgeFields, ControlTypes
<1>3. e.sh_state \in States /\ e.sh_counter \in 0..(WordBits - 1) /\ e.shift_reg \in ShiftRegs
  BY ClkState DEF State, Counter
<1>4. e.shifting \in BOOLEAN /\ e.ncs \in BOOLEAN
  <2>1. \A state : Selected(state) \in BOOLEAN /\ (~Selected(state)) \in BOOLEAN
    BY DEF Selected
  <2> QED BY <2>1, EdgeFields
<1>5. e.read_n_write \in 0..1
  <2>1. inst[c].rw \in 0..1 /\ ctl[c].read_n_write \in 0..1
    BY ControlTypes DEF Words
  <2>2. \/ e.read_n_write = ctl[c].read_n_write
        \/ e.read_n_write = 0
        \/ e.read_n_write = inst[c].rw
    BY EdgeFields
  <2> QED BY <2>1, <2>2
<1>6. e.init_address \in DOMAIN InitMem[c] /\ e.init_address \in Nat \ {0}
  <2> DEFINE a == ctl[c].init_address
  <2>1. a \in DOMAIN InitMem[c]
    BY ControlTypes
  <2>2. \/ e.init_address = a
        \/ e.init_address = 1
        \/ e.init_address = a + 1 /\ InitMem[c][a].addr # LastAddr
    BY EdgeFields DEF InitWord
  <2>3. a # Len(InitMem[c]) => a + 1 \in DOMAIN InitMem[c]
    BY <2>1, EntryType
  <2>4. e.init_address \in DOMAIN InitMem[c]
    BY <2>1, <2>2, <2>3, EntryType
  <2> QED BY <2>4, EntryType
<1>7. e.done \in BOOLEAN
  <2>1. e.done = last \/ e.done = ctl[c].done
    BY EdgeFields
  <2> QED BY <2>1, ControlTypes
<1>8. e.init_done \in BOOLEAN /\ e.read_byte_val \in BOOLEAN
  <2>1. InitDone(c) \in BOOLEAN
    BY DEF InitDone
  <2> QED BY <2>1, EdgeFields
<1>9. e.data_read \in Data
  BY EdgeFields, ControlTypes
<1> HIDE DEF e
<1>10. e = [init_tmp |-> e.init_tmp, init_reg |-> e.init_reg, sh_state |-> e.sh_state,
            sh_counter |-> e.sh_counter, shifting |-> e.shifting,
            read_n_write |-> e.read_n_write, ncs |-> e.ncs, shift_reg |-> e.shift_reg,
            init_address |-> e.init_address, done |-> e.done, init_done |-> e.init_done,
            read_byte_val |-> e.read_byte_val, data_read |-> e.data_read]
  BY <1>1, Zenon DEF Edge
<1>11. e \in Controls
  BY <1>2, <1>3, <1>4, <1>5, <1>6, <1>7, <1>8, <1>9, <1>10 DEF Controls
<1> QED BY <1>6, <1>11 DEF e

(* The read_byte_val of at most one controller is up. *)
OneAnswer == \A c, d \in Chips : ctl[c].read_byte_val /\ ctl[d].read_byte_val => c = d

(* DATAOUT takes the word of the controller that has one. *)
LEMMA ClkDataout ==
  ASSUME NEW vals, SerialClk(vals), OneAnswer
  PROVE  /\ \A c \in Chips : ctl[c].read_byte_val => dataout' = ctl[c].data_read
         /\ (\A c \in Chips : ~ctl[c].read_byte_val) => dataout' = dataout
<1> DEFINE back == {c \in Chips : ctl[c].read_byte_val}
<1>1. dataout' = IF back = {} THEN dataout ELSE ctl[Min(back)].data_read
  BY DEF SerialClk
<1>2. ASSUME NEW c \in Chips, ctl[c].read_byte_val PROVE dataout' = ctl[c].data_read
  <2>1. back = {c}
    BY <1>2 DEF OneAnswer
  <2>2. Min({c}) = c
    BY Sizes DEF Min
  <2> QED BY <1>1, <2>1, <2>2
<1>3. ASSUME \A c \in Chips : ~ctl[c].read_byte_val PROVE dataout' = dataout
  BY <1>1, <1>3
<1> QED BY <1>2, <1>3

LEMMA ClkTypes ==
  ASSUME SpiType, \A c \in Chips : Shape(c), OneAnswer, NEW vals, SerialClk(vals)
  PROVE  SpiType'
<1>1. /\ ctl' = [c \in Chips |-> ctl'[c]] /\ init' = [c \in Chips |-> init'[c]]
      /\ flight' = [c \in Chips |-> flight'[c]] /\ rx' = [c \in Chips |-> rx'[c]]
      /\ reg' = [c \in Chips |-> reg'[c]]
  BY DEF SerialClk
<1>2. \A c \in Chips : ctl'[c] \in Controls /\ ctl'[c].init_address \in DOMAIN InitMem[c]
  BY ClkFields
<1>3. \A c \in Chips : init'[c] \in BOOLEAN
  BY EdgeRest
<1>4. \A c \in Chips : flight'[c] \in {"free", "set", "out"}
  BY EdgeRest, ControlTypes
<1>5. ASSUME NEW c \in Chips PROVE rx'[c] \in [rw : 0..1, addr : Addrs]
  <2>1. Word(c).rw \in 0..1 /\ Word(c).addr \in Addrs
    BY ControlTypes DEF Word, Words
  <2>2. NoInst \in [rw : 0..1, addr : Addrs]
    BY SpiAssumption DEF NoInst
  <2>3. [rw |-> Word(c).rw, addr |-> Word(c).addr] \in [rw : 0..1, addr : Addrs]
    BY <2>1
  <2>4. rx'[c] \in {[rw |-> Word(c).rw, addr |-> Word(c).addr], NoInst, rx[c]}
    BY EdgeRest DEF DeviceRx
  <2> QED BY <2>2, <2>3, <2>4, ControlTypes
<1>6. ASSUME NEW c \in Chips PROVE reg'[c] \in [Addrs -> Values \cup {Junk}]
  <2>1. Word(c).data \in Values \cup {Junk} /\ Junk \in Values \cup {Junk}
    BY ControlTypes DEF Word, Words
  <2>2. reg[c] \in [Addrs -> Values \cup {Junk}]
    BY ControlTypes
  <2>3. \A d \in Values \cup {Junk} :
          [reg[c] EXCEPT ![rx[c].addr] = d] \in [Addrs -> Values \cup {Junk}]
    BY <2>2
  <2>4. \/ reg'[c] = reg[c]
        \/ \E d \in {Word(c).data, Junk} : reg'[c] = [reg[c] EXCEPT ![rx[c].addr] = d]
    BY EdgeRest DEF DeviceReg
  <2> QED BY <2>1, <2>2, <2>3, <2>4
<1>7. dataout' \in Data
  BY ClkDataout, ControlTypes DEF SpiType
<1>8. inst' \in [Chips -> Words] /\ pll' \in BOOLEAN
  BY DEF SerialClk, SpiType
<1>9. /\ ctl' \in [Chips -> Controls] /\ init' \in [Chips -> BOOLEAN]
      /\ flight' \in [Chips -> {"free", "set", "out"}]
      /\ rx' \in [Chips -> [rw : 0..1, addr : Addrs]]
      /\ reg' \in [Chips -> [Addrs -> Values \cup {Junk}]]
  BY <1>1, <1>2, <1>3, <1>4, <1>5, <1>6, Zenon
<1> QED BY <1>2, <1>7, <1>8, <1>9 DEF SpiType

-----------------------------------------------------------------------------
(* The init chain. *)

LEMMA RemainingType ==
  ASSUME SpiType, NEW c \in Chips
  PROVE  /\ Remaining(c) \in Nat /\ (Idle(c) => Remaining(c) = 0)
         /\ State(c) \in {"reg_write", "instruct", "data_io"} => Remaining(c) >= 1
<1>1. Counter(c) \in Nat
  BY ControlTypes
<1> QED BY <1>1, Sizes DEF Remaining, Idle

(* A controller whose init is over only waits. *)
LEMMA SettledClk ==
  ASSUME SpiType, NEW vals, SerialClk(vals), NEW c \in Chips, Settled(c), ctl[c].init_done
  PROVE  /\ ctl'[c].init_done /\ Settled(c)' /\ ctl'[c].done = ctl[c].done
         /\ ~LoadsInit(c) /\ ctl'[c].init_address = ctl[c].init_address
<1>1. ctl[c].done /\ ~init[c] /\ ~ctl[c].init_tmp /\ ~ctl[c].init_reg
  BY DEF Settled
<1>2. ~LoadsInit(c)
  BY <1>1 DEF LoadsInit
<1>3. ctl'[c].done = ctl[c].done /\ ctl'[c].init_address = ctl[c].init_address
  BY <1>2, EdgeFields
<1>4. ctl'[c].init_done
  BY <1>1, EdgeFields DEF InitDone
<1>5. ~ctl'[c].init_tmp /\ ~ctl'[c].init_reg
  BY <1>1, EdgeFields
<1>6. ~init'[c]
  BY <1>1, <1>3, EdgeRest
<1> QED BY <1>1, <1>2, <1>3, <1>4, <1>5, <1>6 DEF Settled

(* An idle controller leaves its device alone. *)
LEMMA IdleDevice ==
  ASSUME NEW vals, SerialClk(vals), NEW c \in Chips, State(c) \in {"idle", "data_valid"}
  PROVE  rx'[c] = rx[c] /\ reg'[c] = reg[c] /\ (ctl'[c].read_byte_val = ~Idle(c))
<1>1. ~InstEdge(c) /\ ~DataEdge(c)
  BY DEF InstEdge, DataEdge, State
<1>2. ctl'[c].read_byte_val = (State(c) = "data_valid")
  BY EdgeFields DEF State
<1> QED BY <1>1, <1>2, EdgeRest DEF DeviceRx, DeviceReg, Idle

(* An edge that loads nothing and accepts nothing. *)
LEMMA IdleClk ==
  ASSUME SpiType, NEW vals, SerialClk(vals), NEW c \in Chips, Shape(c),
         Idle(c), c \notin vals, ~ctl[c].init_reg
  PROVE  /\ Idle(c)' /\ ~ctl'[c].read_byte_val /\ flight'[c] = flight[c]
         /\ ctl'[c].read_n_write = ctl[c].read_n_write
         /\ ctl'[c].done = ctl[c].done /\ ctl'[c].init_address = ctl[c].init_address
         /\ rx'[c] = rx[c] /\ reg'[c] = reg[c]
<1>1. ~LoadsInit(c) /\ ~Accepts(c, c \in vals)
  BY DEF LoadsInit, Accepts
<1>2. /\ ctl'[c].read_n_write = ctl[c].read_n_write
      /\ ctl'[c].done = ctl[c].done /\ ctl'[c].init_address = ctl[c].init_address
  BY <1>1, EdgeFields
<1>3. NextState(c, FALSE) = "idle"
  BY NextStates DEF Idle, Counting, Selected, State
<1>4. Idle(c)' /\ flight'[c] = flight[c]
  BY <1>3, EdgeNoPulse DEF Idle
<1> QED BY <1>2, <1>4, IdleDevice DEF Idle

LEMMA BootIdle ==
  ASSUME SpiType, NEW vals, SerialClk(vals), NEW c \in Chips, Shape(c), Settled(c), Booting(c),
         Idle(c), ~ctl[c].init_reg
  PROVE  Booting(c)' /\ Settled(c)'
<1>1. c \notin vals
  BY DEF Booting, SerialClk
<1>2. /\ Idle(c)' /\ ~ctl'[c].read_byte_val /\ flight'[c] = flight[c]
      /\ ctl'[c].read_n_write = ctl[c].read_n_write
      /\ ctl'[c].done = ctl[c].done /\ ctl'[c].init_address = ctl[c].init_address
      /\ rx'[c] = rx[c] /\ reg'[c] = reg[c]
  BY <1>1, IdleClk
<1>3. /\ ctl'[c].init_tmp = init[c] /\ ctl'[c].init_reg = ctl[c].init_tmp
      /\ ctl'[c].init_done = (ctl[c].done /\ (ctl[c].init_done \/ Idle(c)))
  BY EdgeFields DEF InitDone, Idle, State
<1>4. ctl[c].done => ~init[c] /\ ~ctl[c].init_tmp
  <2>1. Remaining(c) # WordBits
    BY RemainingType, Sizes
  <2> QED BY <2>1 DEF Booting, Flags
<1>5. /\ ctl[c].done => ~init'[c]
      /\ ~ctl[c].done => (init[c] => init'[c])
  BY <1>2, EdgeRest
<1>6. ~ctl[c].done => (ctl[c].init_tmp => init[c])
  BY DEF Booting, Flags
<1>7. Flags(c)'
  BY <1>2, <1>3, <1>4, <1>5, <1>6 DEF Flags
<1>8. Settled(c)'
  BY <1>2, <1>3, <1>4, <1>5 DEF Settled
<1>9. Stored(c)' = Stored(c)
  BY <1>2 DEF Stored, Loaded
<1>10. Holds(c, Stored(c))'
  BY <1>2, <1>9 DEF Booting, Holds
<1> QED BY <1>2, <1>7, <1>8, <1>10 DEF Booting, Idle

(* The next entry of the init memory is loaded. *)
LEMMA BootLoad ==
  ASSUME SpiType, NEW vals, SerialClk(vals), NEW c \in Chips, Shape(c), Settled(c), Booting(c),
         Idle(c), ctl[c].init_reg
  PROVE  Booting(c)' /\ Settled(c)' /\ ~ctl[c].done
<1> DEFINE a == ctl[c].init_address
           last == InitMem[c][a].addr = LastAddr
<1>1. c \notin vals
  BY DEF Booting, SerialClk
<1>2. ~ctl[c].done /\ ctl[c].init_tmp /\ init[c]
  <2>1. ~(Remaining(c) >= WordBits - 1)
    BY RemainingType, Sizes
  <2> QED BY <2>1 DEF Booting, Flags
<1>3. LoadsInit(c) /\ Accepts(c, FALSE) /\ ~Counting(c)
  BY DEF LoadsInit, Accepts, Counting, Shape, Selected, Idle, State
<1>4. a \in DOMAIN InitMem[c] /\ (last <=> a = Len(InitMem[c])) /\ a \in Nat /\ a >= 1
  BY ControlTypes, EntryType
<1>5. State(c)' = IF IsCdce(c) THEN "reg_write" ELSE "instruct"
  <2>1. NextState(c, FALSE) = IF IsCdce(c) THEN "reg_write" ELSE "instruct"
    BY <1>3, NextStates DEF Idle
  <2> QED BY <1>1, <2>1, EdgeNoPulse
<1>6. Counter(c)' = IF IsCdce(c) THEN WordBits - 1 ELSE InstBits - 1
  BY <1>1, <1>3, <1>5, EdgeFields DEF Counter, State
<1>7. Remaining(c)' = WordBits /\ ~Idle(c)'
  BY <1>5, <1>6, Sizes DEF Remaining, Idle
<1>8. /\ ctl'[c].shift_reg.word =
           [rw |-> 0, addr |-> InitMem[c][a].addr, data |-> InitMem[c][a].data]
      /\ ctl'[c].shift_reg.pos = 0
  <2> DEFINE w == [rw |-> 0, addr |-> InitMem[c][a].addr, data |-> InitMem[c][a].data]
  <2>1. shift_reg(c, FALSE) = Load(w)
    BY <1>3 DEF shift_reg, InitWord
  <2>2. ctl'[c].shift_reg = shift_reg(c, FALSE)
    BY <1>1, EdgeNoPulse
  <2> HIDE DEF w
  <2>3. ctl'[c].shift_reg.word = w /\ ctl'[c].shift_reg.pos = 0
    <3>1. ctl'[c].shift_reg = Load(w)
      BY <2>1, <2>2
    <3>2. Load(w).word = w /\ Load(w).pos = 0
      BY DEF Load
    <3> QED BY <3>1, <3>2
  <2> QED BY <2>3 DEF w
<1>9. /\ ctl'[c].init_tmp = init[c] /\ ctl'[c].init_reg = ctl[c].init_tmp
      /\ ctl'[c].init_done = FALSE /\ ctl'[c].done = last
      /\ ctl'[c].init_address = IF last THEN 1 ELSE a + 1
      /\ ctl'[c].read_n_write = 0
  <2>1. ctl'[c].read_n_write = 0
    BY <1>1, <1>3, EdgeNoPulse
  <2>2. ctl'[c].init_done = FALSE
    BY <1>2, EdgeFields DEF InitDone
  <2>3. /\ ctl'[c].done = last
        /\ ctl'[c].init_address = IF last THEN 1 ELSE a + 1
    BY <1>3, EdgeFields DEF InitWord
  <2> QED BY <2>1, <2>2, <2>3, EdgeFields
<1>10. /\ flight'[c] = flight[c] /\ ~ctl'[c].read_byte_val /\ reg'[c] = reg[c]
       /\ init'[c] = ~last
  <2>1. init'[c] = ~last
    BY <1>2, <1>9, EdgeRest
  <2>2. State(c) \in {"idle", "data_valid"}
    BY DEF Idle
  <2>3. reg'[c] = reg[c] /\ ~ctl'[c].read_byte_val
    BY <2>2, IdleDevice
  <2> QED BY <1>1, <2>1, <2>3, EdgeNoPulse
<1>11. Loaded(c)' = a /\ Loaded(c) = a - 1
  <2>1. CASE last
    BY <1>2, <1>4, <1>9, <2>1 DEF Loaded
  <2>2. CASE ~last
    <3>1. ~ctl'[c].done /\ ctl'[c].init_address = a + 1
      BY <1>9, <2>2
    <3> HIDE DEF last
    <3> QED BY <1>2, <1>4, <3>1 DEF Loaded
  <2> QED BY <2>1, <2>2
<1>12. SendsEntry(c)'
  <2>1. ctl'[c].shift_reg.word =
          [rw |-> 0, addr |-> InitMem[c][Loaded(c)'].addr, data |-> InitMem[c][Loaded(c)'].data]
    BY <1>8, <1>11
  <2>2. Pos(c)' + Remaining(c)' = WordBits /\ ~(Remaining(c)' <= DataBits)
    BY <1>7, <1>8, Sizes DEF Pos
  <2> QED BY <1>4, <1>11, <2>1, <2>2 DEF SendsEntry
<1>13. Holds(c, Stored(c))'
  <2>1. Stored(c)' = Stored(c)
    BY <1>4, <1>7, <1>11 DEF Stored
  <2> QED BY <1>10, <2>1 DEF Booting, Holds
<1>14. Flags(c)'
  <2> HIDE DEF last
  <2>1. Remaining(c)' >= WordBits - 1
    BY <1>7, Sizes
  <2> QED BY <1>2, <1>7, <1>9, <1>10, <2>1 DEF Flags
<1> QED BY <1>2, <1>5, <1>7, <1>9, <1>10, <1>12, <1>13, <1>14 DEF Booting, Settled

(* One more bit of an entry is sent. *)
LEMMA SendClk ==
  ASSUME SpiType, NEW vals, SerialClk(vals), NEW c \in Chips, Shape(c), c \notin vals,
         State(c) \in {"reg_write", "instruct", "data_io"}, ctl[c].read_n_write = 0
  PROVE  /\ Remaining(c)' = Remaining(c) - 1
         /\ State(c)' \in {"idle", "reg_write", "instruct", "data_io"}
         /\ Idle(c)' <=> Remaining(c) = 1
         /\ ctl'[c].shift_reg.word = ctl[c].shift_reg.word /\ Pos(c)' = Pos(c) + 1
         /\ ctl'[c].done = ctl[c].done /\ ctl'[c].init_address = ctl[c].init_address
         /\ ctl'[c].read_n_write = 0 /\ flight'[c] = flight[c] /\ ~ctl'[c].read_byte_val
         /\ InstEdge(c) <=> Remaining(c) = DataBits + 1
         /\ DataEdge(c) <=> Remaining(c) = 1
<1>1. Selected(State(c)) /\ ctl[c].shifting
  BY DEF Selected, Shape
<1>2. /\ ~LoadsInit(c) /\ ~Accepts(c, FALSE)
      /\ Counting(c) <=> Counter(c) > 0
  BY <1>1 DEF LoadsInit, Accepts, Counting, State, Counter
<1>3. /\ ctl'[c].read_n_write = 0 /\ flight'[c] = flight[c] /\ State(c)' = NextState(c, FALSE)
      /\ ctl'[c].done = ctl[c].done /\ ctl'[c].init_address = ctl[c].init_address
  BY <1>2, EdgeNoPulse, EdgeFields
<1>4. ctl'[c].shift_reg.word = ctl[c].shift_reg.word /\ Pos(c)' = Pos(c) + 1
  <2>1. ctl'[c].shift_reg = [ctl[c].shift_reg EXCEPT !.pos = @ + 1, !.in = sdi(c)]
    <3>1. shift_reg(c, FALSE) = [ctl[c].shift_reg EXCEPT !.pos = @ + 1, !.in = sdi(c)]
      BY <1>1, <1>2 DEF shift_reg
    <3> QED BY <3>1, EdgeNoPulse
  <2>2. ctl[c].shift_reg \in ShiftRegs
    BY ControlTypes
  <2> QED BY <2>1, <2>2 DEF ShiftRegs, Pos
<1>5. ~ctl'[c].read_byte_val
  BY EdgeFields DEF State
<1>6. Counter(c) \in Nat /\ Counter(c)' = IF Counting(c) THEN Counter(c) - 1
                    ELSE IF IsCdce(c) THEN WordBits - 1
                    ELSE IF State(c)' = "data_io" THEN DataBits - 1 ELSE InstBits - 1
  BY ControlTypes, EdgeFields DEF Counter, State
<1>7. /\ InstEdge(c) <=> \/ State(c) = "instruct" /\ ~Counting(c)
                         \/ State(c) = "reg_write" /\ Counter(c) = DataBits
      /\ DataEdge(c) <=> State(c) \in {"data_io", "reg_write"} /\ ~Counting(c)
  BY DEF InstEdge, DataEdge, State, Counter
<1>8. State(c) \in {"instruct", "data_io"} => ~IsCdce(c)
  BY ShapeStates
<1>9. CASE State(c) = "reg_write"
  <2>1. State(c)' = IF Counter(c) > 0 THEN "reg_write" ELSE "idle"
    <3>1. ctl[c].read_n_write # 1
      OBVIOUS
    <3>2. NextState(c, FALSE) = IF Counting(c) THEN "reg_write" ELSE "idle"
      BY <1>9, <3>1, NextStates
    <3> QED BY <1>2, <1>3, <3>2
  <2>2. Remaining(c) = Counter(c) + 1 /\ Remaining(c)' = Counter(c)
    BY <1>2, <1>6, <1>9, <2>1 DEF Remaining
  <2>3. Idle(c)' <=> Remaining(c) = 1
    BY <1>6, <2>1, <2>2 DEF Idle
  <2>4. /\ InstEdge(c) <=> Remaining(c) = DataBits + 1
        /\ DataEdge(c) <=> Remaining(c) = 1
    BY <1>2, <1>6, <1>7, <1>9, <2>2, Sizes
  <2>5. Remaining(c)' = Remaining(c) - 1 /\ State(c)' \in {"idle", "reg_write"}
    BY <1>6, <2>1, <2>2
  <2> QED BY <1>3, <1>4, <1>5, <2>3, <2>4, <2>5, Zenon
<1>10. CASE State(c) = "instruct"
  <2>1. State(c)' = IF Counter(c) > 0 THEN "instruct" ELSE "data_io"
    BY <1>2, <1>3, <1>10, NextStates
  <2>2. Remaining(c) = Counter(c) + 1 + DataBits /\ Remaining(c)' = Counter(c) + DataBits
    BY <1>2, <1>6, <1>8, <1>10, <2>1, Sizes DEF Remaining
  <2>3. ~Idle(c)' /\ Remaining(c) # 1
    BY <1>6, <2>1, <2>2, Sizes DEF Idle
  <2>4. /\ InstEdge(c) <=> Remaining(c) = DataBits + 1
        /\ DataEdge(c) <=> Remaining(c) = 1
    BY <1>2, <1>6, <1>7, <1>10, <2>2, <2>3, Sizes
  <2>5. Remaining(c)' = Remaining(c) - 1 /\ State(c)' \in {"instruct", "data_io"}
    BY <1>6, <2>1, <2>2, Sizes
  <2> QED BY <1>3, <1>4, <1>5, <2>3, <2>4, <2>5, Zenon
<1>11. CASE State(c) = "data_io"
  <2>1. State(c)' = IF Counter(c) > 0 THEN "data_io" ELSE "idle"
    <3>1. ctl[c].read_n_write # 1
      OBVIOUS
    <3>2. NextState(c, FALSE) = IF Counting(c) THEN "data_io" ELSE "idle"
      BY <1>11, <3>1, NextStates
    <3> QED BY <1>2, <1>3, <3>2
  <2>2. Remaining(c) = Counter(c) + 1 /\ Remaining(c)' = Counter(c)
    BY <1>2, <1>6, <1>11, <2>1 DEF Remaining
  <2>3. Idle(c)' <=> Remaining(c) = 1
    BY <1>6, <2>1, <2>2 DEF Idle
  <2>4. Remaining(c) <= DataBits
    BY <1>6, <1>8, <1>11, <2>2, ShapeStates, ControlTypes, Sizes
  <2>5. /\ InstEdge(c) <=> Remaining(c) = DataBits + 1
        /\ DataEdge(c) <=> Remaining(c) = 1
    BY <1>2, <1>6, <1>7, <1>11, <2>2, <2>4, Sizes
  <2>6. Remaining(c)' = Remaining(c) - 1 /\ State(c)' \in {"idle", "data_io"}
    BY <1>6, <2>1, <2>2
  <2> QED BY <1>3, <1>4, <1>5, <2>3, <2>5, <2>6, Zenon
<1> QED BY <1>9, <1>10, <1>11

(* The device gets what was loaded. *)
LEMMA BootSend ==
  ASSUME SpiType, NEW vals, SerialClk(vals), NEW c \in Chips, Shape(c), Settled(c), Booting(c),
         ~Idle(c), Drives(c)
  PROVE  Booting(c)' /\ Settled(c)'
<1> DEFINE n == Loaded(c)
           w == ctl[c].shift_reg.word
<1>1. c \notin vals
  BY DEF Booting, SerialClk
<1>2. State(c) \in {"reg_write", "instruct", "data_io"} /\ ctl[c].read_n_write = 0
  BY DEF Booting, Idle
<1>3. /\ Remaining(c)' = Remaining(c) - 1
      /\ State(c)' \in {"idle", "reg_write", "instruct", "data_io"}
      /\ Idle(c)' <=> Remaining(c) = 1
      /\ ctl'[c].shift_reg.word = w /\ Pos(c)' = Pos(c) + 1
      /\ ctl'[c].done = ctl[c].done /\ ctl'[c].init_address = ctl[c].init_address
      /\ ctl'[c].read_n_write = 0 /\ flight'[c] = flight[c] /\ ~ctl'[c].read_byte_val
      /\ InstEdge(c) <=> Remaining(c) = DataBits + 1
      /\ DataEdge(c) <=> Remaining(c) = 1
  BY <1>1, <1>2, SendClk
<1>4. SendsEntry(c)
  BY DEF Booting
<1>5. /\ n \in DOMAIN InitMem[c]
      /\ w = [rw |-> 0, addr |-> InitMem[c][n].addr, data |-> InitMem[c][n].data]
      /\ Pos(c) + Remaining(c) = WordBits
      /\ Remaining(c) <= DataBits => rx[c] = [rw |-> 0, addr |-> InitMem[c][n].addr]
  BY <1>4 DEF SendsEntry
<1>6. Remaining(c) \in Nat /\ Pos(c) \in Nat /\ Remaining(c) >= 1
  BY <1>2, RemainingType, ControlTypes
<1>7. Loaded(c)' = n
  BY <1>3 DEF Loaded
<1>8. ~ctl[c].init_done /\ ~ctl'[c].init_done
  <2>1. ~ctl[c].init_done
    BY DEF Booting
  <2> QED BY <2>1, EdgeFields DEF InitDone, Idle, State
<1>9. rx'[c] = IF Remaining(c) = DataBits + 1 THEN [rw |-> 0, addr |-> InitMem[c][n].addr]
               ELSE rx[c]
  <2>1. Remaining(c) = DataBits + 1 => Pos(c) = InstBits - 1
    BY <1>5, <1>6, Sizes
  <2>2. Remaining(c) = DataBits + 1 => Sent(c, InstBits)
    BY <2>1 DEF Sent, Pos
  <2>3. Word(c).rw = 0 /\ Word(c).addr = InitMem[c][n].addr
    BY <1>5 DEF Word
  <2>4. rx'[c] = DeviceRx(c)
    BY EdgeRest
  <2> QED BY <1>3, <2>2, <2>3, <2>4 DEF DeviceRx
<1>10. SendsEntry(c)'
  <2>1. Pos(c)' + Remaining(c)' = WordBits
    BY <1>3, <1>5, <1>6
  <2>2. Remaining(c)' <= DataBits => rx'[c] = [rw |-> 0, addr |-> InitMem[c][n].addr]
    BY <1>3, <1>5, <1>6, <1>9, Sizes
  <2> QED BY <1>3, <1>5, <1>7, <2>1, <2>2 DEF SendsEntry
<1>11. reg'[c] = IF Remaining(c) = 1
                 THEN [reg[c] EXCEPT ![InitMem[c][n].addr] = InitMem[c][n].data]
                 ELSE reg[c]
  <2>1. Remaining(c) = 1 => Pos(c) = WordBits - 1 /\ rx[c].rw = 0 /\ rx[c].addr = InitMem[c][n].addr
    BY <1>5, <1>6, Sizes
  <2>2. Remaining(c) = 1 => Sent(c, WordBits)
    BY <2>1 DEF Sent, Pos
  <2>3. Word(c).data = InitMem[c][n].data
    BY <1>5 DEF Word
  <2>4. reg'[c] = DeviceReg(c)
    BY EdgeRest
  <2> QED BY <1>3, <2>1, <2>2, <2>3, <2>4 DEF DeviceReg
<1>12. Holds(c, Stored(c))'
  <2>1. Stored(c) = n - 1 /\ n \in Nat /\ n >= 1
    BY <1>5, EntryType DEF Stored
  <2>2. Holds(c, n - 1)
    BY <2>1 DEF Booting
  <2>3. CASE Remaining(c) # 1
    <3>1. Stored(c)' = n - 1 /\ reg'[c] = reg[c]
      BY <1>3, <1>7, <1>11, <2>3 DEF Stored
    <3> QED BY <2>2, <3>1 DEF Holds
  <2>4. CASE Remaining(c) = 1
    <3>1. Stored(c)' = n
      BY <1>3, <1>7, <2>4 DEF Stored
    <3>2. reg'[c] = [reg[c] EXCEPT ![InitMem[c][n].addr] = InitMem[c][n].data]
      BY <1>11, <2>4
    <3>3. reg[c] \in [Addrs -> Values \cup {Junk}] /\ InitMem[c][n].addr \in Addrs
      BY <1>5, ControlTypes, EntryType
    <3> HIDE DEF n
    <3>4. ASSUME NEW k \in 1..n,
                 \A m \in (k + 1)..n : InitMem[c][m].addr # InitMem[c][k].addr
          PROVE  reg'[c][InitMem[c][k].addr] = InitMem[c][k].data
      <4>1. CASE k = n
        BY <3>2, <3>3, <4>1
      <4>2. CASE k # n
        <5>1. k \in 1..(n - 1) /\ n \in (k + 1)..n
          BY <2>1, <4>2
        <5>2. \A m \in (k + 1)..(n - 1) : m \in (k + 1)..n
          BY <2>1, <4>2
        <5>3. InitMem[c][n].addr # InitMem[c][k].addr
          BY <3>4, <5>1
        <5>4. reg[c][InitMem[c][k].addr] = InitMem[c][k].data
          BY <2>2, <3>4, <5>1, <5>2 DEF Holds
        <5>5. k \in DOMAIN InitMem[c]
          <6>1. DOMAIN InitMem[c] = 1..Len(InitMem[c]) /\ Len(InitMem[c]) \in Nat
            BY SpiAssumption
          <6> QED BY <1>5, <2>1, <5>1, <6>1 DEF n
        <5>6. InitMem[c][k].addr \in Addrs
          BY <5>5, EntryType
        <5> QED BY <3>2, <3>3, <5>3, <5>4, <5>6
      <4> QED BY <4>1, <4>2
    <3> QED BY <3>1, <3>4 DEF Holds
  <2> QED BY <2>3, <2>4
<1>13. Flags(c)'
  <2>1. /\ ctl'[c].init_tmp = init[c] /\ ctl'[c].init_reg = ctl[c].init_tmp
    BY EdgeFields
  <2>2. (ctl[c].done => ~init'[c]) /\ (~ctl[c].done => (init[c] => init'[c]))
    BY <1>3, EdgeRest
  <2>3. /\ ~ctl[c].done => ctl[c].init_reg /\ ctl[c].init_tmp /\ init[c]
        /\ ctl[c].done => ~init[c] /\ (ctl[c].init_tmp => Remaining(c) = WordBits)
    BY DEF Booting, Flags
  <2>4. Remaining(c) = WordBits => Remaining(c)' >= WordBits - 1
    BY <1>3, Sizes
  <2> QED BY <1>3, <2>1, <2>2, <2>3, <2>4 DEF Flags
<1> QED BY <1>3, <1>8, <1>10, <1>12, <1>13 DEF Booting, Settled

(* An edge before the software starts: at most one controller works, and   *)
(* each waits for those before it.                                         *)
LEMMA BootClk ==
  ASSUME SpiType, \A c \in Chips : Shape(c) /\ Settled(c) /\ Booting(c), Chain,
         NEW vals, SerialClk(vals)
  PROVE  (\A c \in Chips : Booting(c)' /\ Settled(c)') /\ Chain'
<1>1. ASSUME NEW c \in Chips PROVE Off(c) => Idle(c) /\ ~ctl[c].init_reg /\ ~ctl[c].done
  BY DEF Off, Booting, Flags
<1>2. ASSUME NEW c \in Chips, ~Idle(c) PROVE Drives(c)
  <2> SUFFICES ASSUME NEW d \in Chips, ~ctl[d].ncs, ~(c <= d) PROVE FALSE
    BY DEF Drives
  <2>1. ~Idle(d) /\ d < c
    <3>1. Selected(State(d))
      BY DEF Shape
    <3>2. d < c
      BY Sizes
    <3> QED BY <3>1, <3>2 DEF Selected, Idle
  <2>2. ~ctl[d].init_done
    BY <2>1 DEF Booting
  <2>3. Off(c)
    BY <2>1, <2>2 DEF Chain
  <2> QED BY <1>1, <1>2, <2>3
<1>3. ASSUME NEW c \in Chips PROVE Booting(c)' /\ Settled(c)'
  <2>1. CASE ~Idle(c)
    BY <1>2, <2>1, BootSend
  <2>2. CASE Idle(c) /\ ctl[c].init_reg
    BY <2>2, BootLoad
  <2>3. CASE Idle(c) /\ ~ctl[c].init_reg
    BY <2>3, BootIdle
  <2> QED BY <2>1, <2>2, <2>3
<1>4. ASSUME NEW c \in Chips, Off(c) PROVE ~ctl'[c].init_done /\ ~ctl'[c].done
  <2>1. ~LoadsInit(c)
    BY <1>1, <1>4 DEF LoadsInit
  <2> QED BY <1>1, <1>4, <2>1, EdgeFields DEF InitDone
<1>5. ASSUME NEW c \in Chips, NEW d \in Chips, d < c, ~ctl'[d].init_done PROVE Off(c)'
  <2>1. ~ctl[d].init_done
    BY <1>5, SettledClk
  <2>2. Off(c)
    BY <1>5, <2>1 DEF Chain
  <2>3. c # 1 /\ c - 1 \in Chips /\ d <= c - 1
    BY <1>5, SpiAssumption DEF Chips
  <2>4. ~ctl'[c - 1].init_done
    <3>1. CASE d = c - 1
      BY <1>5, <3>1
    <3>2. CASE d # c - 1
      <4>1. d < c - 1
        BY <2>3, <3>2, Sizes
      <4>2. Off(c - 1)
        BY <2>1, <2>3, <4>1 DEF Chain
      <4> QED BY <1>4, <2>3, <4>2
    <3> QED BY <3>1, <3>2
  <2>5. ~init'[c]
    BY <2>2, <2>3, <2>4, EdgeRest DEF Off
  <2> QED BY <1>4, <2>2, <2>5 DEF Off
<1> QED BY <1>3, <1>5 DEF Chain

-----------------------------------------------------------------------------
(* The software's access to the cdce72010. *)

LEMMA RestClk ==
  ASSUME SpiType, NEW vals, SerialClk(vals), NEW c \in Chips, Shape(c), Settled(c),
         ctl[c].init_done, AtRest(c)
  PROVE  AtRest(c)' /\ reg'[c] = reg[c]
<1>1. c \notin vals /\ ~ctl[c].init_reg
  BY DEF AtRest, SerialClk, Settled
<1> QED BY <1>1, IdleClk DEF AtRest

(* The pulse of an instruction finds the controller idle. *)
LEMMA AccessAccept ==
  ASSUME SpiType, NEW vals, SerialClk(vals), Shape(CDCE72010), Settled(CDCE72010),
         ctl[CDCE72010].init_done, Idle(CDCE72010), CDCE72010 \in vals
  PROVE  LET c == CDCE72010
         IN /\ flight'[c] = "out" /\ ~ctl'[c].read_byte_val /\ State(c)' = "reg_write"
            /\ ctl'[c].read_n_write = inst[c].rw /\ ctl'[c].shift_reg.word = inst[c]
            /\ Pos(c)' = 0 /\ Counter(c)' = WordBits - 1
            /\ reg'[c] = reg[c]
<1> DEFINE c == CDCE72010
<1>0. c \in Chips /\ IsCdce(c)
  BY Sizes DEF IsCdce, CDCE72010
<1> HIDE DEF c
<1>1. (c \in vals) = TRUE /\ c \in vals
  BY DEF c
<1>2. ctl'[c] = Edge(c, TRUE)
  BY <1>0, <1>1 DEF SerialClk
<1>3. ~ctl[c].init_reg /\ Idle(c) /\ Shape(c)
  BY DEF Settled, c
<1>4. Accepts(c, TRUE) /\ ~Counting(c) /\ ~LoadsInit(c)
  BY <1>3 DEF Accepts, Counting, LoadsInit, Idle, State, Selected
<1>5. NextState(c, TRUE) = "reg_write"
  BY <1>0, <1>3, <1>4, NextStates DEF Idle
<1>6. shift_reg(c, TRUE) = Load(inst[c])
  BY <1>3, <1>4 DEF shift_reg
<1>7. /\ ctl'[c].sh_state = "reg_write" /\ ctl'[c].sh_counter = WordBits - 1
      /\ ctl'[c].read_n_write = inst[c].rw /\ ctl'[c].shift_reg = Load(inst[c])
  <2>1. ctl'[c].sh_state = "reg_write" /\ ctl'[c].shift_reg = Load(inst[c])
    <3>1. ctl'[c].sh_state = NextState(c, TRUE) /\ ctl'[c].shift_reg = shift_reg(c, TRUE)
      BY <1>2 DEF Edge
    <3> QED BY <1>5, <1>6, <3>1
  <2>2. ctl'[c].sh_counter = WordBits - 1
    BY <1>0, <1>2, <1>4 DEF Edge
  <2>3. ctl'[c].read_n_write = inst[c].rw
    BY <1>2, <1>3, <1>4 DEF Edge
  <2> QED BY <2>1, <2>2, <2>3
<1>8. \A w : Load(w).word = w /\ Load(w).pos = 0
  BY DEF Load
<1>9. ctl'[c].shift_reg.word = inst[c] /\ Pos(c)' = 0
  BY <1>7, <1>8, Zenon DEF Pos
<1>10. reg'[c] = reg[c] /\ ~ctl'[c].read_byte_val
  BY <1>0, <1>3, IdleDevice DEF Idle
<1>11. flight'[c] = "out"
  BY <1>0, <1>1, EdgeRest
<1> QED BY <1>7, <1>9, <1>10, <1>11 DEF State, Counter, c

(* The word of an instruction on its way to the cdce72010. *)
LEMMA AccessSend ==
  ASSUME SpiType, NEW vals, SerialClk(vals), Shape(CDCE72010),
         CDCE72010 \notin vals, State(CDCE72010) = "reg_write",
         ctl[CDCE72010].read_n_write = inst[CDCE72010].rw,
         ctl[CDCE72010].shift_reg.word = inst[CDCE72010],
         Pos(CDCE72010) + Counter(CDCE72010) = WordBits - 1,
         Counter(CDCE72010) < DataBits =>
           rx[CDCE72010] = [rw |-> inst[CDCE72010].rw, addr |-> inst[CDCE72010].addr]
  PROVE  LET c == CDCE72010
             w == inst[CDCE72010]
         IN /\ flight'[c] = flight[c] /\ ~ctl'[c].read_byte_val
            /\ Counter(c) > 0 =>
                 /\ State(c)' = "reg_write" /\ ctl'[c].read_n_write = w.rw
                 /\ ctl'[c].shift_reg.word = w /\ Pos(c)' + Counter(c)' = WordBits - 1
                 /\ Counter(c)' < DataBits => rx'[c] = [rw |-> w.rw, addr |-> w.addr]
                 /\ reg'[c] = reg[c]
            /\ Counter(c) = 0 /\ w.rw = 1 =>
                 /\ State(c)' = "start_reg_read" /\ rx'[c] = [rw |-> 1, addr |-> w.addr]
                 /\ reg'[c] = reg[c]
            /\ Counter(c) = 0 /\ w.rw # 1 =>
                 Idle(c)' /\ reg'[c] = [reg[c] EXCEPT ![w.addr] = w.data]
<1> DEFINE c == CDCE72010
           w == inst[c]
<1>0. c \in Chips /\ IsCdce(c) /\ \A d \in Chips : c <= d
  BY Sizes, SpiAssumption DEF IsCdce, CDCE72010, Chips
<1>1. /\ State(c) = "reg_write" /\ ctl[c].read_n_write = w.rw /\ ctl[c].shift_reg.word = w
      /\ Pos(c) + Counter(c) = WordBits - 1 /\ c \notin vals /\ Shape(c)
      /\ Counter(c) < DataBits => rx[c] = [rw |-> w.rw, addr |-> w.addr]
  OBVIOUS
<1> HIDE DEF c
<1>2. Selected(State(c)) /\ ctl[c].shifting /\ Drives(c)
  BY <1>0, <1>1 DEF Selected, Shape, Drives
<1>3. /\ ~LoadsInit(c) /\ ~Accepts(c, FALSE)
      /\ Counting(c) <=> Counter(c) > 0
  BY <1>1, <1>2 DEF LoadsInit, Accepts, Counting, State, Counter
<1>4. /\ ctl'[c].read_n_write = w.rw /\ flight'[c] = flight[c]
      /\ State(c)' = NextState(c, FALSE)
  BY <1>0, <1>1, <1>3, EdgeNoPulse
<1>5. ctl'[c].shift_reg.word = w /\ Pos(c)' = Pos(c) + 1
  <2>1. ctl'[c].shift_reg = [ctl[c].shift_reg EXCEPT !.pos = @ + 1, !.in = sdi(c)]
    <3>1. shift_reg(c, FALSE) = [ctl[c].shift_reg EXCEPT !.pos = @ + 1, !.in = sdi(c)]
      BY <1>2, <1>3 DEF shift_reg
    <3> QED BY <1>0, <1>1, <3>1, EdgeNoPulse
  <2>2. ctl[c].shift_reg \in ShiftRegs
    BY <1>0, ControlTypes
  <2> QED BY <1>1, <2>1, <2>2 DEF ShiftRegs, Pos
<1>6. ~ctl'[c].read_byte_val
  BY <1>0, <1>1, EdgeFields DEF State
<1>7. /\ Counter(c) \in Nat /\ Pos(c) \in Nat
      /\ Counter(c) > 0 => Counter(c)' = Counter(c) - 1
  BY <1>0, <1>3, ControlTypes, EdgeFields DEF Counter
<1>8. /\ InstEdge(c) <=> Counter(c) = DataBits
      /\ DataEdge(c) <=> Counter(c) = 0
  BY <1>1, <1>3, <1>7 DEF InstEdge, DataEdge, State, Counter
<1>9. rx'[c] = IF Counter(c) = DataBits THEN [rw |-> w.rw, addr |-> w.addr] ELSE rx[c]
  <2>1. Counter(c) = DataBits => Sent(c, InstBits)
    BY <1>1, <1>2, <1>7, Sizes DEF Sent, Pos
  <2>2. rx'[c] = DeviceRx(c) /\ Word(c) = w
    BY <1>0, <1>1, EdgeRest DEF Word
  <2> QED BY <1>8, <2>1, <2>2 DEF DeviceRx
<1>10. reg'[c] = IF Counter(c) = 0 /\ rx[c].rw = 0 THEN [reg[c] EXCEPT ![rx[c].addr] = w.data]
                 ELSE reg[c]
  <2>1. Counter(c) = 0 => Sent(c, WordBits)
    BY <1>1, <1>2, <1>7, Sizes DEF Sent, Pos
  <2>2. reg'[c] = DeviceReg(c) /\ Word(c) = w
    BY <1>0, <1>1, EdgeRest DEF Word
  <2> QED BY <1>8, <2>1, <2>2 DEF DeviceReg
<1>11. w.rw \in 0..1
  BY <1>0, ControlTypes DEF Words
<1>12. ASSUME Counter(c) > 0
       PROVE  /\ State(c)' = "reg_write" /\ Pos(c)' + Counter(c)' = WordBits - 1
              /\ Counter(c)' < DataBits => rx'[c] = [rw |-> w.rw, addr |-> w.addr]
              /\ reg'[c] = reg[c]
  <2>1. State(c)' = "reg_write"
    BY <1>0, <1>1, <1>3, <1>4, <1>12, NextStates
  <2>2. Pos(c)' + Counter(c)' = WordBits - 1
    BY <1>1, <1>5, <1>7, <1>12, Sizes
  <2>3. Counter(c)' < DataBits => Counter(c) = DataBits \/ Counter(c) < DataBits
    BY <1>7, <1>12, Sizes
  <2>4. reg'[c] = reg[c]
    BY <1>10, <1>12
  <2> QED BY <1>1, <1>9, <2>1, <2>2, <2>3, <2>4
<1>13. ASSUME Counter(c) = 0
       PROVE  /\ rx[c] = [rw |-> w.rw, addr |-> w.addr] /\ rx'[c] = rx[c]
              /\ State(c)' = IF w.rw = 1 THEN "start_reg_read" ELSE "idle"
  <2>1. rx[c] = [rw |-> w.rw, addr |-> w.addr] /\ rx'[c] = rx[c]
    BY <1>1, <1>9, <1>13, Sizes
  <2>2. NextState(c, FALSE) = IF ctl[c].read_n_write = 1 THEN "start_reg_read" ELSE "idle"
    <3>1. ~Counting(c)
      BY <1>3, <1>13
    <3> QED BY <1>0, <1>1, <3>1, NextStates
  <2> QED BY <1>1, <1>4, <2>1, <2>2
<1>14. ASSUME Counter(c) = 0, w.rw = 1
       PROVE  /\ State(c)' = "start_reg_read" /\ rx'[c] = [rw |-> 1, addr |-> w.addr]
              /\ reg'[c] = reg[c]
  BY <1>10, <1>13, <1>14
<1>15. ASSUME Counter(c) = 0, w.rw # 1
       PROVE  Idle(c)' /\ reg'[c] = [reg[c] EXCEPT ![w.addr] = w.data]
  <2>1. rx[c].rw = 0 /\ rx[c].addr = w.addr
    BY <1>11, <1>13, <1>15
  <2> QED BY <1>10, <1>13, <1>15, <2>1 DEF Idle
<1> QED BY <1>4, <1>5, <1>6, <1>12, <1>14, <1>15 DEF c

(* The answer on its way back. *)
LEMMA AccessFetch ==
  ASSUME SpiType, NEW vals, SerialClk(vals), Shape(CDCE72010),
         CDCE72010 \notin vals, State(CDCE72010) \in {"start_reg_read", "reg_read"}
  PROVE  LET c == CDCE72010
         IN /\ flight'[c] = flight[c] /\ ~ctl'[c].read_byte_val
            /\ rx'[c] = rx[c] /\ reg'[c] = reg[c]
            /\ \/ State(c)' = "reg_read"
               \/ State(c)' = "data_valid" /\ ctl'[c].shift_reg.in = sdi(c)
<1> DEFINE c == CDCE72010
<1>0. c \in Chips /\ IsCdce(c)
  BY Sizes DEF IsCdce, CDCE72010
<1>1. State(c) \in {"start_reg_read", "reg_read"} /\ c \notin vals /\ Shape(c)
  OBVIOUS
<1> HIDE DEF c
<1>2. ~InstEdge(c) /\ ~DataEdge(c)
  BY <1>1 DEF InstEdge, DataEdge, State
<1>3. rx'[c] = rx[c] /\ reg'[c] = reg[c]
  BY <1>0, <1>2, EdgeRest DEF DeviceRx, DeviceReg
<1>4. flight'[c] = flight[c] /\ ~ctl'[c].read_byte_val
  BY <1>0, <1>1, EdgeNoPulse, EdgeFields DEF State
<1>5. CASE State(c) = "start_reg_read"
  <2>1. ~Counting(c)
    BY <1>5 DEF Counting, Selected, State
  <2>2. State(c)' = "reg_read"
    BY <1>0, <1>1, <1>5, <2>1, NextStates, EdgeNoPulse
  <2> QED BY <1>3, <1>4, <2>2 DEF c
<1>6. CASE State(c) = "reg_read" /\ Counting(c)
  <2>1. State(c)' = "reg_read"
    BY <1>0, <1>1, <1>6, NextStates, EdgeNoPulse
  <2> QED BY <1>3, <1>4, <2>1 DEF c
<1>7. CASE State(c) = "reg_read" /\ ~Counting(c)
  <2>1. State(c)' = "data_valid"
    BY <1>0, <1>1, <1>7, NextStates, EdgeNoPulse
  <2>2. ctl[c].shifting /\ ~LoadsInit(c)
    BY <1>1, <1>7 DEF Shape, Selected, LoadsInit
  <2>3. shift_reg(c, FALSE) = [ctl[c].shift_reg EXCEPT !.pos = @ + 1, !.in = sdi(c)]
    BY <2>2 DEF shift_reg
  <2>4. ctl[c].shift_reg \in ShiftRegs /\ ctl'[c].shift_reg = shift_reg(c, FALSE)
    BY <1>0, <1>1, ControlTypes, EdgeNoPulse
  <2>5. ctl'[c].shift_reg.in = sdi(c)
    BY <2>3, <2>4 DEF ShiftRegs
  <2> QED BY <1>3, <1>4, <2>1, <2>5 DEF c
<1> QED BY <1>1, <1>5, <1>6, <1>7

(* An edge while the software waits for an access to the cdce72010.  A     *)
(* write changes its register only, a read changes none.                   *)
LEMMA AccessClk ==
  ASSUME SpiType, NEW vals, SerialClk(vals), Shape(CDCE72010), Settled(CDCE72010),
         ctl[CDCE72010].init_done, \A d \in Chips \ {CDCE72010} : AtRest(d),
         Access, inst[CDCE72010].rw = 1 => (pll => seenLock), seenLock' = seenLock
  PROVE  /\ Access'
         /\ \A a \in Addrs : inst[CDCE72010].rw = 1 \/ a # inst[CDCE72010].addr =>
              reg'[CDCE72010][a] = reg[CDCE72010][a]
<1> DEFINE c == CDCE72010
           w == inst[c]
           same == reg'[c] = reg[c]
<1>0. c \in Chips /\ w \in Words /\ inst' = inst /\ w.addr \in Addrs /\ w.rw \in 0..1
  <2>1. c \in Chips
    BY Sizes
  <2>2. w \in Words
    BY <2>1, ControlTypes
  <2> QED BY <2>1, <2>2 DEF SerialClk, Words
<1>1. ~ctl[c].init_reg
  BY DEF Settled
<1>2. OneAnswer
  BY DEF OneAnswer, AtRest
<1>3. flight[c] # "set" => c \notin vals
  BY DEF SerialClk
<1>4. CASE flight[c] = "set" /\ Idle(c) /\ ~ctl[c].read_byte_val
  <2>1. CASE c \in vals
    <3>1. /\ flight'[c] = "out" /\ ~ctl'[c].read_byte_val /\ State(c)' = "reg_write"
          /\ ctl'[c].read_n_write = w.rw /\ ctl'[c].shift_reg.word = w
          /\ Pos(c)' = 0 /\ Counter(c)' = WordBits - 1 /\ same
      BY <1>4, <2>1, AccessAccept
    <3>2. Pos(c)' + Counter(c)' = WordBits - 1 /\ ~(Counter(c)' < DataBits)
      BY <3>1, Sizes
    <3> QED BY <1>0, <3>1, <3>2 DEF Access
  <2>2. CASE c \notin vals
    <3>1. Idle(c)' /\ ~ctl'[c].read_byte_val /\ flight'[c] = flight[c] /\ same
      BY <1>0, <1>1, <1>4, <2>2, IdleClk
    <3> QED BY <1>0, <1>4, <3>1 DEF Access
  <2> QED BY <2>1, <2>2
<1>5. CASE /\ flight[c] # "set" /\ ~ctl[c].read_byte_val
           /\ State(c) = "reg_write"
           /\ ctl[c].read_n_write = w.rw /\ ctl[c].shift_reg.word = w
           /\ Pos(c) + Counter(c) = WordBits - 1
           /\ Counter(c) < DataBits => rx[c] = [rw |-> w.rw, addr |-> w.addr]
  <2> HIDE DEF same
  <2>1. /\ flight'[c] = flight[c] /\ ~ctl'[c].read_byte_val
        /\ Counter(c) > 0 =>
             /\ State(c)' = "reg_write" /\ ctl'[c].read_n_write = w.rw
             /\ ctl'[c].shift_reg.word = w /\ Pos(c)' + Counter(c)' = WordBits - 1
             /\ Counter(c)' < DataBits => rx'[c] = [rw |-> w.rw, addr |-> w.addr]
             /\ same
        /\ Counter(c) = 0 /\ w.rw = 1 =>
             State(c)' = "start_reg_read" /\ rx'[c] = [rw |-> 1, addr |-> w.addr] /\ same
        /\ Counter(c) = 0 /\ w.rw # 1 =>
             Idle(c)' /\ reg'[c] = [reg[c] EXCEPT ![w.addr] = w.data]
    BY <1>3, <1>5, AccessSend DEF same
  <2>2. CASE Counter(c) > 0
    BY <1>0, <1>5, <2>1, <2>2 DEF Access, same
  <2>3. CASE Counter(c) = 0 /\ w.rw = 1
    BY <1>0, <1>5, <2>1, <2>3 DEF Access, same
  <2>4. CASE Counter(c) = 0 /\ w.rw # 1
    <3>1. reg[c] \in [Addrs -> Values \cup {Junk}]
      BY <1>0, ControlTypes
    <3>2. reg'[c][w.addr] = w.data /\ \A a \in Addrs : a # w.addr => reg'[c][a] = reg[c][a]
      BY <1>0, <2>1, <2>4, <3>1
    <3> QED BY <1>0, <1>5, <2>1, <2>4, <3>2 DEF Access
  <2>5. Counter(c) \in Nat
    BY <1>0, ControlTypes
  <2> QED BY <2>2, <2>3, <2>4, <2>5
<1>6. CASE /\ flight[c] # "set" /\ ~ctl[c].read_byte_val
           /\ w.rw = 1 /\ State(c) \in {"start_reg_read", "reg_read"}
           /\ rx[c] = [rw |-> 1, addr |-> w.addr]
  <2>1. /\ flight'[c] = flight[c] /\ ~ctl'[c].read_byte_val /\ rx'[c] = rx[c] /\ same
        /\ \/ State(c)' = "reg_read"
           \/ State(c)' = "data_valid" /\ ctl'[c].shift_reg.in = sdi(c)
    BY <1>3, <1>6, AccessFetch
  <2>2. sdi(c).val = reg[c][w.addr] /\ (sdi(c).lock => pll)
    <3> DEFINE l == IsCdce(c) /\ w.addr = LockReg /\ pll
    <3>1. sdi(c) = [val |-> reg[c][w.addr], lock |-> l]
      BY <1>6 DEF sdi
    <3>2. l => pll
      OBVIOUS
    <3> HIDE DEF l
    <3> QED BY <3>1, <3>2
  <2>3. ctl'[c].shift_reg.in = sdi(c) => Genuine(ctl[c].shift_reg.in, w.addr)'
    BY <1>0, <1>6, <2>1, <2>2 DEF Genuine
  <2> QED BY <1>0, <1>6, <2>1, <2>3 DEF Access
<1>7. CASE /\ flight[c] # "set" /\ ~ctl[c].read_byte_val
           /\ w.rw = 1 /\ State(c) = "data_valid"
           /\ Genuine(ctl[c].shift_reg.in, w.addr)
  <2>1. same /\ ctl'[c].read_byte_val
    BY <1>0, <1>7, IdleDevice DEF Idle
  <2>2. ctl'[c].data_read = ctl[c].shift_reg.in
    BY <1>0, <1>7, EdgeFields DEF State
  <2>3. flight'[c] = flight[c] /\ State(c)' = NextState(c, FALSE)
    BY <1>0, <1>3, <1>7, EdgeNoPulse
  <2>4. Idle(c)'
    BY <1>0, <1>7, <2>3, NextStates DEF Idle, Counting, Selected, State
  <2>5. Genuine(ctl[c].data_read, w.addr)'
    BY <1>0, <1>7, <2>1, <2>2 DEF Genuine
  <2> QED BY <1>0, <1>7, <2>1, <2>3, <2>4, <2>5 DEF Access
<1>8. CASE /\ flight[c] # "set" /\ ctl[c].read_byte_val
           /\ w.rw = 1 /\ Idle(c)
           /\ Genuine(ctl[c].data_read, w.addr)
  <2>1. Idle(c)' /\ ~ctl'[c].read_byte_val /\ flight'[c] = flight[c] /\ same
    BY <1>0, <1>1, <1>3, <1>8, IdleClk
  <2>2. dataout' = ctl[c].data_read
    BY <1>0, <1>2, <1>8, ClkDataout
  <2>3. Genuine(dataout, w.addr)'
    BY <1>0, <1>8, <2>1, <2>2 DEF Genuine
  <2> QED BY <1>0, <1>8, <2>1, <2>3 DEF Access
<1>9. CASE /\ flight[c] # "set" /\ ~ctl[c].read_byte_val
           /\ Idle(c)
           /\ IF w.rw = 1 THEN Genuine(dataout, w.addr) ELSE reg[c][w.addr] = w.data
  <2>1. Idle(c)' /\ ~ctl'[c].read_byte_val /\ flight'[c] = flight[c] /\ same
    BY <1>0, <1>1, <1>3, <1>9, IdleClk
  <2>2. dataout' = dataout
    BY <1>2, <1>9, ClkDataout DEF AtRest
  <2>3. IF w.rw = 1 THEN Genuine(dataout, w.addr)' ELSE reg'[c][w.addr] = w.data
    BY <1>0, <1>9, <2>1, <2>2 DEF Genuine
  <2> QED BY <1>0, <1>9, <2>1, <2>3 DEF Access
<1> QED BY <1>4, <1>5, <1>6, <1>7, <1>8, <1>9 DEF Access

-----------------------------------------------------------------------------
(* The steps of the hardware. *)

LEMMA PcCases ==
  ASSUME TypeOK
  PROVE  /\ \/ /\ pc.at \in Calls /\ pc.step \in {"check", "retry", "issue", "wait", "done"}
               /\ pc = [at |-> pc.at, step |-> pc.step]
            \/ /\ pc.at \in {"reset", "dma", "pause", "mmcm", "ext_pause",
                             "kernel", "serving", "nonet", "failed"}
               /\ pc.step = "-" /\ pc = At(pc.at)
         /\ pc = At("reset") <=> pc.at = "reset"
<1>1. CASE pc \in [at : Calls, step : {"check", "retry", "issue", "wait", "done"}]
  <2>1. pc.at \in Calls /\ pc.step \in {"check", "retry", "issue", "wait", "done"}
        /\ pc = [at |-> pc.at, step |-> pc.step]
    BY <1>1
  <2>2. pc.at # "reset" /\ pc.step # "-"
    BY <2>1 DEF Calls
  <2>3. pc # At("reset")
    BY <2>2 DEF At
  <2> QED BY <2>1, <2>2, <2>3
<1>2. ASSUME NEW p \in {"reset", "dma", "pause", "mmcm", "ext_pause",
                        "kernel", "serving", "nonet", "failed"}, pc = At(p)
      PROVE  /\ pc.at = p /\ pc.step = "-" /\ pc = At(pc.at)
             /\ pc = At("reset") <=> pc.at = "reset"
  BY <1>2 DEF At
<1> QED BY <1>1, <1>2 DEF TypeOK

LEMMA AnswersOne ==
  ASSUME Inv
  PROVE  OneAnswer
<1>1. CASE pc = At("reset")
  BY <1>1 DEF Inv, Booting, OneAnswer
<1>2. CASE pc # At("reset")
  <2>1. \A c \in Chips \ Active : ~ctl[c].read_byte_val
    BY <1>2 DEF Inv, Running, AtRest
  <2> QED BY <2>1 DEF Active, OneAnswer
<1> QED BY <1>1, <1>2

LEMMA ActiveOne ==
  ASSUME CDCE72010 \in Active
  PROVE  Active = {CDCE72010}
BY Sizes DEF Active

LEMMA Table ==
  /\ CDCE72010_NUMREG \in Nat /\ CDCE72010_NUMREG >= 1
  /\ DOMAIN cdce72010_reg = 0..(CDCE72010_NUMREG - 1)
  /\ \A a \in 0..(CDCE72010_NUMREG - 1) : a \in Addrs /\ cdce72010_reg[a] \in Values
  /\ DivReg \in 0..(CDCE72010_NUMREG - 1)
<1>1. CDCE72010_NUMREG \in Nat \ {0} /\ DOMAIN cdce72010_reg = 0..(CDCE72010_NUMREG - 1)
  BY BoardAssumption
<1>2. \A a \in DOMAIN cdce72010_reg : a \in Addrs /\ cdce72010_reg[a] \in Values
  BY BoardAssumption, Zenon
<1>3. DivReg \in DOMAIN cdce72010_reg
  BY BoardAssumption
<1>4. CDCE72010_NUMREG \in Nat /\ CDCE72010_NUMREG >= 1
  BY <1>1
<1> QED BY <1>1, <1>2, <1>3, <1>4, Zenon

LEMMA WrittenRange ==
  ASSUME Running
  PROVE  /\ Written \in Nat /\ Written <= CDCE72010_NUMREG
         /\ \A a \in 0..(Written - 1) : a \in Addrs
<1>1. pc.at \in {"before", "pause", "after"} => i \in 0..(CDCE72010_NUMREG - 1)
  BY Table DEF Running
<1>2. Written \in Nat /\ Written <= CDCE72010_NUMREG
  BY <1>1, Table DEF Written
<1> QED BY <1>2, Table

(* The device keeps the registers the software has written. *)
LEMMA RunClk ==
  ASSUME TypeOK, \A c \in Chips : Shape(c) /\ Settled(c), Running, pc # At("reset"),
         NEW vals, Clk(vals)
  PROVE  Running'
<1>0. SpiType /\ SerialClk(vals) /\ UNCHANGED <<pc, i, value, adc_delay, seenLock>>
  BY DEF TypeOK, Clk, softVars
<1>1. Active' = Active /\ Written' = Written /\ Addr(pc.at)' = Addr(pc.at)
  BY <1>0 DEF Active, Written, Addr
<1>2. inst' = inst /\ pll' = pll
  BY <1>0 DEF SerialClk
<1>3. \A c \in Chips : ctl'[c].init_done
  BY <1>0, SettledClk DEF Running
<1>4. \A c \in Chips \ Active : AtRest(c)' /\ reg'[c] = reg[c]
  BY <1>0, RestClk DEF Running
<1>5. CASE CDCE72010 \notin Active
  <2>1. reg'[CDCE72010] = reg[CDCE72010]
    BY <1>4, <1>5, Sizes
  <2>2. Genuine(value, Addr(pc.at))' <=> Genuine(value, Addr(pc.at))
    BY <1>0, <1>1, <2>1 DEF Genuine
  <2> QED BY <1>0, <1>1, <1>3, <1>4, <1>5, <2>1, <2>2 DEF Running
<1>6. CASE CDCE72010 \in Active
  <2> DEFINE w == inst[CDCE72010]
  <2>1. /\ Access
        /\ IF pc.at = "pause"
           THEN w = [rw |-> 0, addr |-> i, data |-> cdce72010_reg[i]]
           ELSE w.rw = 1 /\ w.addr = Addr(pc.at) /\ (pll => seenLock)
    BY <1>6 DEF Running
  <2>2. w.rw = 1 => (pll => seenLock)
    BY <2>1
  <2>3. /\ Access'
        /\ \A a \in Addrs : w.rw = 1 \/ a # w.addr => reg'[CDCE72010][a] = reg[CDCE72010][a]
    BY <1>0, <1>6, <2>1, <2>2, AccessClk, ActiveOne, Sizes DEF Running
  <2>4. ASSUME NEW a \in 0..(Written - 1) PROVE reg'[CDCE72010][a] = cdce72010_reg[a]
    <3>1. a \in Addrs /\ reg[CDCE72010][a] = cdce72010_reg[a]
      BY WrittenRange DEF Running
    <3>2. w.rw = 1 \/ a # w.addr
      <4>1. CASE pc.at = "pause"
        <5>1. Written = i /\ i \in 0..(CDCE72010_NUMREG - 1) /\ w.addr = i
          BY <2>1, <4>1, Table DEF Written, Running
        <5> QED BY <5>1, Table
      <4> QED BY <2>1, <4>1
    <3> QED BY <2>3, <3>1, <3>2
  <2>5. pc.step # "done" \/ Chip(pc.at) # CDCE72010
    BY <1>6, Sizes, PcCases DEF Active, Calls, Chip
  <2> QED BY <1>0, <1>1, <1>2, <1>3, <1>4, <1>6, <2>1, <2>3, <2>4, <2>5 DEF Running
<1> QED BY <1>5, <1>6

LEMMA InvClk ==
  ASSUME Inv, NEW vals, Clk(vals)
  PROVE  Inv'
<1>0. SpiType /\ SerialClk(vals) /\ UNCHANGED <<pc, i, value, adc_delay, seenLock, mmcm>>
  BY DEF Inv, TypeOK, Clk, softVars
<1>1. SpiType'
  BY <1>0, ClkTypes, AnswersOne DEF Inv
<1>2. TypeOK'
  BY <1>0, <1>1 DEF TypeOK, Inv
<1>3. \A c \in Chips : Shape(c)'
  BY <1>0, ClkState DEF Inv
<1>4. Counting_i'
  BY <1>0 DEF Counting_i, Inv
<1>5. CASE pc = At("reset")
  <2>1. (\A c \in Chips : Booting(c)' /\ Settled(c)') /\ Chain'
    BY <1>0, <1>5, BootClk DEF Inv
  <2> QED BY <1>0, <1>2, <1>3, <1>4, <1>5, <2>1 DEF Inv
<1>6. CASE pc # At("reset")
  <2>1. Running' /\ Running
    BY <1>6, RunClk DEF Inv
  <2>2. \A c \in Chips : Settled(c)'
    BY <1>0, <2>1, SettledClk DEF Inv, Running
  <2> QED BY <1>0, <1>2, <1>3, <1>4, <1>6, <2>1, <2>2 DEF Inv
<1> QED BY <1>5, <1>6

(* Steps that leave the controllers and devices alone. *)
LEMMA AccessSame ==
  ASSUME Access, UNCHANGED <<ctl, inst, rx, reg, dataout>>, seenLock => seenLock',
         flight'[CDCE72010] = "set" <=> flight[CDCE72010] = "set"
  PROVE  Access'
<1>1. \A d, a : Genuine(d, a) => Genuine(d, a)'
  BY DEF Genuine
<1> QED BY <1>1 DEF Access, Idle, State, Counter, Pos, Genuine

LEMMA ShapeSame ==
  ASSUME UNCHANGED <<ctl, init>>, NEW c \in Chips, Shape(c) /\ Settled(c)
  PROVE  Shape(c)' /\ Settled(c)'
BY DEF Shape, Settled, State, Counter, Pos

LEMMA BootSame ==
  ASSUME \A c \in Chips : Booting(c), Chain, UNCHANGED <<ctl, init, flight, rx, reg>>
  PROVE  (\A c \in Chips : Booting(c)') /\ Chain'
<1>1. Chain'
  BY DEF Chain, Off
<1>2. ASSUME NEW c \in Chips PROVE Booting(c)'
  <2>1. /\ (Idle(c)' <=> Idle(c)) /\ Remaining(c)' = Remaining(c) /\ Pos(c)' = Pos(c)
        /\ State(c)' = State(c) /\ Loaded(c)' = Loaded(c)
    BY DEF Idle, Remaining, Pos, State, Counter, Loaded
  <2>2. Stored(c)' = Stored(c) /\ (Flags(c) => Flags(c)') /\ (SendsEntry(c) => SendsEntry(c)')
    BY <2>1 DEF Stored, Flags, SendsEntry
  <2>3. Holds(c, Stored(c)) => Holds(c, Stored(c))'
    BY <2>2 DEF Holds
  <2> QED BY <2>1, <2>2, <2>3 DEF Booting
<1> QED BY <1>1, <1>2

LEMMA InvAck ==
  ASSUME Inv, NEW c \in Chips, Ack(c)
  PROVE  Inv'
<1>0. /\ flight[c] = "out" /\ flight' = [flight EXCEPT ![c] = "free"]
      /\ UNCHANGED <<ctl, init, inst, rx, reg, pll, dataout, pc, i, value, adc_delay, mmcm, seenLock>>
  BY DEF Ack, Release, softVars
<1>1. flight \in [Chips -> {"free", "set", "out"}] /\ TypeOK
  BY DEF Inv, TypeOK, SpiType
<1>2. TypeOK'
  <2>1. flight' \in [Chips -> {"free", "set", "out"}]
    BY <1>0, <1>1
  <2> QED BY <1>0, <1>1, <2>1 DEF TypeOK, SpiType
<1>3. \A d \in Chips : Shape(d)' /\ Settled(d)'
  BY <1>0, ShapeSame DEF Inv
<1>4. pc # At("reset")
  BY <1>0 DEF Inv, Booting
<1>5. Running
  BY <1>4 DEF Inv
<1>6. c \in Active
  BY <1>0, <1>5 DEF Running, AtRest
<1>7. \A d \in Chips \ Active : AtRest(d)'
  BY <1>0, <1>1, <1>5, <1>6 DEF Running, AtRest, Idle, State
<1>8. Active' = Active /\ Written' = Written /\ Addr(pc.at)' = Addr(pc.at)
  BY <1>0 DEF Active, Written, Addr
<1>9. Access => Access'
  <2>1. flight'[CDCE72010] = "set" <=> flight[CDCE72010] = "set"
    BY <1>0, <1>1, Sizes
  <2> QED BY <1>0, <2>1, AccessSame
<1>10. Running'
  BY <1>0, <1>5, <1>7, <1>8, <1>9 DEF Running, Genuine
<1>11. Counting_i'
  BY <1>0 DEF Inv, Counting_i
<1> QED BY <1>0, <1>2, <1>3, <1>4, <1>10, <1>11 DEF Inv

LEMMA InvLocks ==
  ASSUME Inv, Pll \/ Mmcm
  PROVE  Inv'
<1>0. /\ UNCHANGED <<ctl, init, inst, flight, rx, reg, dataout, pc, i, value, adc_delay>>
      /\ seenLock => seenLock'
      /\ (pll => seenLock) => (pll' => seenLock')
  <2>1. UNCHANGED <<ctl, init, inst, flight, rx, reg, dataout, pc, i, value, adc_delay>>
    BY DEF Pll, Mmcm, PllChange, softVars, spiVars
  <2>2. CASE Pll
    <3>1. seenLock' = (seenLock \/ pll')
      BY <2>2 DEF Pll
    <3> QED BY <2>1, <3>1, Zenon
  <2>3. CASE Mmcm
    <3>1. seenLock' = seenLock /\ pll' = pll
      BY <2>3 DEF Mmcm, spiVars
    <3> QED BY <2>1, <3>1, Zenon
  <2> QED BY <2>2, <2>3
<1>1. TypeOK'
  <2>1. pll' \in BOOLEAN /\ mmcm' \in BOOLEAN /\ seenLock' \in BOOLEAN
    BY DEF Inv, TypeOK, SpiType, Pll, Mmcm, PllChange, spiVars
  <2> QED BY <1>0, <2>1 DEF Inv, TypeOK, SpiType
<1>2. \A d \in Chips : Shape(d)' /\ Settled(d)'
  BY <1>0, ShapeSame DEF Inv
<1>3. Counting_i'
  BY <1>0 DEF Inv, Counting_i
<1>4. CASE pc = At("reset")
  <2>1. (\A c \in Chips : Booting(c)') /\ Chain'
    BY <1>0, <1>4, BootSame DEF Inv
  <2> QED BY <1>0, <1>1, <1>2, <1>3, <1>4, <2>1 DEF Inv
<1>5. CASE pc # At("reset")
  <2>1. Running
    BY <1>5 DEF Inv
  <2>2. Active' = Active /\ Written' = Written /\ Addr(pc.at)' = Addr(pc.at)
    BY <1>0 DEF Active, Written, Addr
  <2>3. Access => Access'
    BY <1>0, AccessSame
  <2>4. \A d \in Chips \ Active : AtRest(d)'
    BY <1>0, <2>1 DEF Running, AtRest, Idle, State
  <2>5. Genuine(value, Addr(pc.at)) => Genuine(value, Addr(pc.at))'
    BY <1>0, <2>2 DEF Genuine
  <2>6. Running'
    BY <1>0, <2>1, <2>2, <2>3, <2>4, <2>5 DEF Running
  <2> QED BY <1>0, <1>1, <1>2, <1>3, <1>5, <2>6 DEF Inv
<1> QED BY <1>4, <1>5

-----------------------------------------------------------------------------
(* The steps of the software. *)

(* The hardware does not move with it. *)
LEMMA Moves ==
  ASSUME Inv, UNCHANGED <<spiVars, mmcm, seenLock>>
  PROVE  /\ SpiType' /\ mmcm' \in BOOLEAN /\ seenLock' \in BOOLEAN
         /\ \A c \in Chips : /\ Shape(c)' /\ Settled(c)'
                             /\ ctl'[c].init_done = ctl[c].init_done
                             /\ AtRest(c) => AtRest(c)'
         /\ UNCHANGED <<ctl, reg, inst, pll, dataout, flight>>
<1>1. UNCHANGED <<ctl, init, inst, flight, rx, reg, pll, dataout>>
  BY DEF spiVars
<1>2. SpiType' /\ mmcm' \in BOOLEAN /\ seenLock' \in BOOLEAN
  BY <1>1 DEF Inv, TypeOK, SpiType
<1>3. \A c \in Chips : Shape(c)' /\ Settled(c)'
  BY <1>1, ShapeSame DEF Inv
<1> QED BY <1>1, <1>2, <1>3 DEF AtRest, Idle, State

(* Where the software waited, nothing is under way. *)
LEMMA QuietRest ==
  ASSUME Quiet
  PROVE  \A c \in Chips : AtRest(c) /\ ctl[c].init_done
BY DEF Quiet, AtRest, IsBusy, Idle, State

LEMMA LoopBound ==
  LET m == Max({CDCE72010_NUMREG - 1, MAX_PLL_LOCK_TRIES, MAX_MMCM_LOCK_TRIES})
  IN /\ m \in Nat /\ m >= CDCE72010_NUMREG - 1
     /\ m >= MAX_PLL_LOCK_TRIES /\ m >= MAX_MMCM_LOCK_TRIES
<1> DEFINE a == CDCE72010_NUMREG - 1
           S == {a, MAX_PLL_LOCK_TRIES, MAX_MMCM_LOCK_TRIES}
<1>1. a \in Nat /\ MAX_PLL_LOCK_TRIES \in Nat /\ MAX_MMCM_LOCK_TRIES \in Nat
  BY Table, BoardAssumption
<1> HIDE DEF a
<1>2. \E x \in S : \A y \in S : x >= y
  <2>1. CASE a >= MAX_PLL_LOCK_TRIES /\ a >= MAX_MMCM_LOCK_TRIES
    BY <1>1, <2>1
  <2>2. CASE MAX_PLL_LOCK_TRIES >= a /\ MAX_PLL_LOCK_TRIES >= MAX_MMCM_LOCK_TRIES
    BY <1>1, <2>2
  <2>3. CASE MAX_MMCM_LOCK_TRIES >= a /\ MAX_MMCM_LOCK_TRIES >= MAX_PLL_LOCK_TRIES
    BY <1>1, <2>3
  <2> QED BY <1>1, <2>1, <2>2, <2>3
<1>3. Max(S) \in S /\ \A y \in S : Max(S) >= y
  BY <1>2 DEF Max
<1> QED BY <1>1, <1>3 DEF a

(* An instruction of the software for an idle controller. *)
LEMMA Issues ==
  ASSUME Inv, NEW c \in Chips, NEW rw \in 0..1, NEW addr \in Addrs,
         NEW data \in Values \cup {Junk}, Issue(c, rw, addr, data)
  PROVE  /\ SpiType'
         /\ \A d \in Chips : /\ Shape(d)' /\ Settled(d)'
                             /\ ctl'[d].init_done = ctl[d].init_done
                             /\ d # c /\ AtRest(d) => AtRest(d)'
         /\ UNCHANGED <<ctl, reg, pll, dataout>>
         /\ inst'[c].rw = rw /\ inst'[c].addr = addr
         /\ rw = 0 => inst'[c] = [rw |-> rw, addr |-> addr, data |-> data]
         /\ c = CDCE72010 /\ AtRest(c) => Access'
<1>1. /\ UNCHANGED <<ctl, init, rx, reg, pll, dataout>>
      /\ inst' = [inst EXCEPT ![c] =
           [rw |-> rw, addr |-> addr, data |-> IF rw = 1 THEN @.data ELSE data]]
      /\ flight' = [flight EXCEPT ![c] = IF @ = "free" THEN "set" ELSE @]
  BY DEF Issue
<1>2. SpiType
  BY DEF Inv, TypeOK
<1>3. inst \in [Chips -> Words] /\ flight \in [Chips -> {"free", "set", "out"}]
      /\ inst[c].data \in Values \cup {Junk}
  BY <1>2, ControlTypes DEF SpiType, Words
<1>4. inst'[c] = [rw |-> rw, addr |-> addr, data |-> IF rw = 1 THEN inst[c].data ELSE data]
  BY <1>1, <1>3
<1>5. inst'[c] \in Words
  BY <1>3, <1>4 DEF Words
<1>6. inst' \in [Chips -> Words] /\ flight' \in [Chips -> {"free", "set", "out"}]
  <2>1. inst' = [inst EXCEPT ![c] = inst'[c]]
    BY <1>1, <1>3, <1>4
  <2>2. inst' \in [Chips -> Words]
    BY <1>3, <1>5, <2>1
  <2> QED BY <1>1, <1>3, <2>2
<1>7. SpiType'
  BY <1>1, <1>2, <1>6 DEF SpiType
<1>8. \A d \in Chips : Shape(d)' /\ Settled(d)'
  BY <1>1, ShapeSame DEF Inv
<1>9. \A d \in Chips : d # c /\ AtRest(d) => AtRest(d)'
  BY <1>1, <1>3 DEF AtRest, Idle, State
<1>10. ASSUME c = CDCE72010, AtRest(c) PROVE Access'
  <2>1. flight'[c] = "set"
    BY <1>1, <1>3, <1>10 DEF AtRest
  <2>2. Idle(c)' /\ ~ctl'[c].read_byte_val
    BY <1>1, <1>10 DEF AtRest, Idle, State
  <2> QED BY <1>10, <2>1, <2>2 DEF Access
<1>11. inst'[c].rw = rw /\ inst'[c].addr = addr
       /\ (rw = 0 => inst'[c] = [rw |-> rw, addr |-> addr, data |-> data])
  BY <1>4
<1> QED BY <1>1, <1>7, <1>8, <1>9, <1>10, <1>11

-----------------------------------------------------------------------------
(* The start. *)

LEMMA InitTypes ==
  ASSUME Init
  PROVE  TypeOK
<1>1. NoData \in Data /\ NoWord \in Words /\ NoInst \in [rw : 0..1, addr : Addrs]
  BY SpiAssumption DEF NoData, Data, NoWord, Words, NoInst
<1>2. Load(NoWord) \in ShiftRegs
  BY <1>1, Sizes DEF Load, ShiftRegs
<1>3. ASSUME NEW c \in Chips PROVE ctl[c] \in Controls /\ ctl[c].init_address \in DOMAIN InitMem[c]
  <2>1. ctl[c] =
       [init_tmp |-> FALSE, init_reg |-> FALSE, sh_state |-> "idle",
        sh_counter |-> 0, shifting |-> FALSE, read_n_write |-> 0, ncs |-> TRUE,
        shift_reg |-> Load(NoWord), init_address |-> 1, done |-> FALSE,
        init_done |-> FALSE, read_byte_val |-> FALSE, data_read |-> NoData]
    BY DEF Init, SpiInit
  <2>2. 0 \in 0..(WordBits - 1)
    BY Sizes
  <2>3. 1 \in DOMAIN InitMem[c]
    <3>1. InitMem[c] \in Seq([addr : Addrs, data : Values]) /\ InitMem[c] # <<>>
      BY SpiAssumption
    <3> QED BY <3>1
  <2> QED BY <1>1, <1>2, <2>1, <2>2, <2>3 DEF Controls, States
<1>4. DOMAIN ctl = Chips /\ ctl = [c \in Chips |-> ctl[c]]
  BY DEF Init, SpiInit
<1>5. ctl \in [Chips -> Controls]
  BY <1>3, <1>4
<1>6. SpiType
  BY <1>1, <1>3, <1>5 DEF Init, SpiInit, SpiType
<1>7. i \in 0..Max({CDCE72010_NUMREG - 1, MAX_PLL_LOCK_TRIES, MAX_MMCM_LOCK_TRIES})
  BY LoopBound DEF Init
<1> QED BY <1>1, <1>6, <1>7 DEF Init, TypeOK

LEMMA InvInit ==
  ASSUME Init
  PROVE  Inv
<1>1. ASSUME NEW c \in Chips
      PROVE  /\ ~ctl[c].init_tmp /\ ~ctl[c].init_reg /\ ctl[c].sh_state = "idle"
             /\ ~ctl[c].shifting /\ ctl[c].read_n_write = 0 /\ ctl[c].ncs
             /\ ctl[c].init_address = 1 /\ ~ctl[c].done /\ ~ctl[c].init_done
             /\ ~ctl[c].read_byte_val /\ ~init[c] /\ flight[c] = "free"
  <2>1. ctl[c] =
       [init_tmp |-> FALSE, init_reg |-> FALSE, sh_state |-> "idle",
        sh_counter |-> 0, shifting |-> FALSE, read_n_write |-> 0, ncs |-> TRUE,
        shift_reg |-> Load(NoWord), init_address |-> 1, done |-> FALSE,
        init_done |-> FALSE, read_byte_val |-> FALSE, data_read |-> NoData]
    BY DEF Init, SpiInit
  <2>2. init[c] = FALSE /\ flight[c] = "free"
    BY DEF Init, SpiInit
  <2>3. ctl[c].init_tmp = FALSE /\ ctl[c].init_reg = FALSE /\ ctl[c].shifting = FALSE
        /\ ctl[c].ncs = TRUE /\ ctl[c].done = FALSE /\ ctl[c].init_done = FALSE
        /\ ctl[c].read_byte_val = FALSE
    BY <2>1
  <2>4. ctl[c].sh_state = "idle" /\ ctl[c].read_n_write = 0 /\ ctl[c].init_address = 1
    BY <2>1
  <2> QED BY <2>2, <2>3, <2>4, Zenon
<1>2. ASSUME NEW c \in Chips PROVE Idle(c) /\ Loaded(c) = 0 /\ Stored(c) = 0
  BY <1>1 DEF Idle, State, Loaded, Stored
<1>3. ASSUME NEW c \in Chips PROVE Shape(c) /\ Settled(c)
  <2>1. State(c) = "idle" /\ ~Selected(State(c))
    BY <1>1 DEF State, Selected
  <2>2. ctl[c].shifting = FALSE /\ ctl[c].ncs = TRUE
    BY <1>1, InitTypes, ControlTypes DEF TypeOK
  <2>3. Selected(State(c)) = FALSE /\ (~Selected(State(c))) = TRUE
    BY <2>1
  <2>4. ctl[c].shifting = Selected(State(c)) /\ ctl[c].ncs = ~Selected(State(c))
    BY <2>2, <2>3, Zenon
  <2>5. Settled(c)
    BY <1>1 DEF Settled
  <2> QED BY <2>1, <2>4, <2>5 DEF Shape
<1>4. ASSUME NEW c \in Chips PROVE Booting(c)
  <2>1. Holds(c, Stored(c))
    BY <1>2 DEF Holds
  <2>2. Flags(c)
    BY <1>1, <1>2 DEF Flags
  <2>3. State(c) = "idle"
    BY <1>1 DEF State
  <2> QED BY <1>1, <1>2, <2>1, <2>2, <2>3 DEF Booting
<1>5. Chain
  BY <1>1 DEF Chain, Off
<1>6. pc = At("reset") /\ i = 0
  BY DEF Init
<1>7. Counting_i
  BY <1>6 DEF Counting_i, At
<1> QED BY <1>3, <1>4, <1>5, <1>6, <1>7, InitTypes DEF Inv

-----------------------------------------------------------------------------
(* The software's steps, one by one. *)

LEMMA PcStep ==
  ASSUME TypeOK, pc.step # "-", NEW s \in {"check", "retry", "issue", "wait", "done"},
         pc' = [pc EXCEPT !.step = s]
  PROVE  /\ pc'.at = pc.at /\ pc'.step = s /\ pc.at \in Calls
         /\ pc' \in [at : Calls, step : {"check", "retry", "issue", "wait", "done"}]
         /\ pc # At("reset") /\ pc' # At("reset")
<1>1. pc.at \in Calls /\ pc = [at |-> pc.at, step |-> pc.step] /\ pc # At("reset")
  BY PcCases DEF Calls
<1>2. pc' = [at |-> pc.at, step |-> s]
  BY <1>1
<1>3. pc'.at = pc.at /\ pc'.step = s
  BY <1>2
<1>4. pc' \in [at : Calls, step : {"check", "retry", "issue", "wait", "done"}]
  BY <1>1, <1>2
<1>5. pc' # At("reset")
  BY <1>3 DEF At
<1> QED BY <1>1, <1>3, <1>4, <1>5

(* The parts of the read that only look at the hardware. *)
LEMMA InvLooks ==
  ASSUME Inv, ReadCheck \/ ReadRetry, UNCHANGED mmcm
  PROVE  Inv'
<1>1. PICK s \in {"check", "retry", "issue"} : pc' = [pc EXCEPT !.step = s]
  BY DEF ReadCheck, ReadRetry
<1>2. UNCHANGED <<spiVars, i, value, adc_delay, seenLock>> /\ pc.step \in {"check", "retry"}
  BY DEF ReadCheck, ReadRetry
<1>3. /\ pc'.at = pc.at /\ pc'.step = s /\ pc.at \in Calls
      /\ pc' \in [at : Calls, step : {"check", "retry", "issue", "wait", "done"}]
      /\ pc # At("reset") /\ pc' # At("reset")
  BY <1>1, <1>2, PcStep DEF Inv
<1>4. /\ SpiType' /\ mmcm' \in BOOLEAN /\ seenLock' \in BOOLEAN
      /\ \A c \in Chips : /\ Shape(c)' /\ Settled(c)'
                          /\ ctl'[c].init_done = ctl[c].init_done
                          /\ AtRest(c) => AtRest(c)'
      /\ UNCHANGED <<ctl, reg, inst, pll, dataout, flight>>
  BY <1>2, Moves
<1>5. TypeOK'
  BY <1>2, <1>3, <1>4 DEF TypeOK, Inv
<1>6. Counting_i'
  BY <1>2, <1>3 DEF Counting_i, Inv
<1>7. Running
  BY <1>3 DEF Inv
<1>8. Active' = Active /\ Written' = Written /\ CDCE72010 \notin Active
  BY <1>2, <1>3, Sizes DEF Active, Written, Calls
<1>9. Running'
  BY <1>2, <1>3, <1>4, <1>7, <1>8 DEF Running
<1> QED BY <1>3, <1>4, <1>5, <1>6, <1>9 DEF Inv

LEMMA AddrIn ==
  ASSUME Inv, pc # At("reset"), pc.at \in Calls
  PROVE  Addr(pc.at) \in Addrs
<1>1. pc.at \in {"before", "after"} => i \in DOMAIN cdce72010_reg
  BY DEF Inv, Running
<1>2. pc.at \in {"before", "after"} => i \in Addrs
  BY <1>1, Table
<1>3. DivReg \in Addrs /\ ModeReg \in Addrs /\ LockReg \in Addrs
  BY Table, SpiAssumption, BoardAssumption
<1> QED BY <1>2, <1>3 DEF Addr, Calls

LEMMA InvReadIssue ==
  ASSUME Inv, ReadIssue, UNCHANGED mmcm
  PROVE  Inv'
<1>1. /\ pc.step = "issue" /\ pc' = [pc EXCEPT !.step = "wait"] /\ seenLock' = pll
      /\ Issue(Chip(pc.at), 1, Addr(pc.at), Junk) /\ UNCHANGED <<i, value, adc_delay>>
  BY DEF ReadIssue
<1>2. /\ pc'.at = pc.at /\ pc'.step = "wait" /\ pc.at \in Calls
      /\ pc' \in [at : Calls, step : {"check", "retry", "issue", "wait", "done"}]
      /\ pc # At("reset") /\ pc' # At("reset")
  BY <1>1, PcStep DEF Inv
<1>3. Chip(pc.at) \in Chips /\ Addr(pc.at) \in Addrs
  BY <1>2, AddrIn, Sizes DEF Chip
<1>4. /\ SpiType'
      /\ \A d \in Chips : /\ Shape(d)' /\ Settled(d)'
                          /\ ctl'[d].init_done = ctl[d].init_done
                          /\ d # Chip(pc.at) /\ AtRest(d) => AtRest(d)'
      /\ UNCHANGED <<ctl, reg, pll, dataout>>
      /\ inst'[Chip(pc.at)].rw = 1 /\ inst'[Chip(pc.at)].addr = Addr(pc.at)
      /\ Chip(pc.at) = CDCE72010 /\ AtRest(CDCE72010) => Access'
  BY <1>1, <1>3, Issues
<1>5. TypeOK'
  <2>1. seenLock' \in BOOLEAN
    BY <1>1 DEF Inv, TypeOK, SpiType
  <2> QED BY <1>1, <1>2, <1>4, <2>1 DEF TypeOK, Inv
<1>6. Counting_i'
  BY <1>1, <1>2 DEF Counting_i, Inv
<1>7. Running
  BY <1>2 DEF Inv
<1>8. Active' = {Chip(pc.at)} /\ Active \subseteq Active' /\ CDCE72010 \notin Active
  BY <1>1, <1>2, Sizes DEF Active, Chip, Calls
<1>9. Written' = Written
  BY <1>1, <1>2 DEF Written
<1>10. \A c \in Chips \ Active' : AtRest(c)'
  BY <1>4, <1>7, <1>8 DEF Running
<1>11. CDCE72010 \in Active' =>
         /\ Access'
         /\ inst'[CDCE72010].rw = 1 /\ inst'[CDCE72010].addr = Addr(pc.at)
  BY <1>4, <1>7, <1>8, Sizes DEF Running
<1>12. Addr(pc.at)' = Addr(pc.at) /\ pc'.at # "pause" /\ pll' = seenLock'
  BY <1>1, <1>2, <1>4 DEF Addr, Calls
<1>13. Running'
  BY <1>1, <1>2, <1>4, <1>7, <1>9, <1>10, <1>11, <1>12 DEF Running, Calls
<1> QED BY <1>2, <1>4, <1>5, <1>6, <1>13 DEF Inv

(* DATAOUT holds the answer when the wait is over. *)
LEMMA QuietAccess ==
  ASSUME Quiet, Access
  PROVE  IF inst[CDCE72010].rw = 1 THEN Genuine(dataout, inst[CDCE72010].addr)
         ELSE reg[CDCE72010][inst[CDCE72010].addr] = inst[CDCE72010].data
<1>1. Idle(CDCE72010) /\ ~ctl[CDCE72010].read_byte_val /\ flight[CDCE72010] = "free"
  BY Sizes, QuietRest DEF AtRest
<1> QED BY <1>1 DEF Access, Idle

LEMMA InvReadDone ==
  ASSUME Inv, ReadDone, UNCHANGED mmcm
  PROVE  Inv'
<1>1. /\ pc.step = "wait" /\ pc' = [pc EXCEPT !.step = "done"] /\ Quiet /\ value' = dataout
      /\ UNCHANGED <<spiVars, i, adc_delay, seenLock>>
  BY DEF ReadDone, Waited
<1>2. /\ pc'.at = pc.at /\ pc'.step = "done" /\ pc.at \in Calls
      /\ pc' \in [at : Calls, step : {"check", "retry", "issue", "wait", "done"}]
      /\ pc # At("reset") /\ pc' # At("reset")
  BY <1>1, PcStep DEF Inv
<1>3. /\ SpiType' /\ mmcm' \in BOOLEAN /\ seenLock' \in BOOLEAN
      /\ \A c \in Chips : /\ Shape(c)' /\ Settled(c)'
                          /\ ctl'[c].init_done = ctl[c].init_done
                          /\ AtRest(c) => AtRest(c)'
      /\ UNCHANGED <<ctl, reg, inst, pll, dataout, flight>>
  BY <1>1, Moves
<1>4. TypeOK'
  BY <1>1, <1>2, <1>3 DEF TypeOK, Inv, SpiType
<1>5. Counting_i'
  BY <1>1, <1>2 DEF Counting_i, Inv
<1>6. Running
  BY <1>2 DEF Inv
<1>7. Active' = {} /\ Written' = Written /\ Addr(pc.at)' = Addr(pc.at)
  BY <1>1, <1>2 DEF Active, Written, Addr, Calls
<1>8. Chip(pc.at) = CDCE72010 => CDCE72010 \in Active
  BY <1>1, <1>2, Sizes DEF Active, Chip
<1>9. Chip(pc.at) = CDCE72010 => Genuine(value, Addr(pc.at))'
  <2>1. SUFFICES ASSUME CDCE72010 \in Active PROVE Genuine(value, Addr(pc.at))'
    BY <1>8
  <2>2. inst[CDCE72010].rw = 1 /\ inst[CDCE72010].addr = Addr(pc.at) /\ Access
    BY <1>2, <1>6, <2>1 DEF Running, Calls
  <2>3. Genuine(dataout, Addr(pc.at))
    BY <1>1, <2>2, QuietAccess
  <2> QED BY <1>1, <1>3, <1>7, <2>3 DEF Genuine
<1>10. \A c \in Chips : AtRest(c)'
  BY <1>1, <1>3, QuietRest
<1>11. Running'
  BY <1>1, <1>2, <1>3, <1>6, <1>7, <1>9, <1>10 DEF Running, Calls, Chip
<1> QED BY <1>2, <1>3, <1>4, <1>5, <1>11 DEF Inv

-----------------------------------------------------------------------------
(* The steps from place to place. *)

LEMMA Resting ==
  ASSUME Inv, pc # At("reset"), CDCE72010 \notin Active, ADS62P49 \notin Active
  PROVE  \A c \in Chips : AtRest(c) /\ ctl[c].init_done
BY DEF Inv, Running, Active

LEMMA Places ==
  /\ \A p : At(p).at = p /\ At(p).step = "-" /\ Read(p).at = p /\ Read(p).step = "check"
  /\ \A p : p # "reset" => At(p) # At("reset") /\ Read(p) # At("reset")
BY DEF At, Read

(* Going on, with nothing under way. *)
LEMMA Goes ==
  ASSUME Inv, UNCHANGED <<spiVars, value, seenLock, mmcm>>,
         \A c \in Chips : AtRest(c) /\ ctl[c].init_done,
         NEW p, \/ pc' = At(p) /\ p \in {"dma", "mmcm", "ext_pause", "kernel",
                                         "serving", "nonet", "failed"}
                \/ pc' = Read(p) /\ p \in Calls,
         i' \in 0..Max({CDCE72010_NUMREG - 1, MAX_PLL_LOCK_TRIES, MAX_MMCM_LOCK_TRIES}),
         adc_delay' \in {0} \cup {DelayFor[v] : v \in DOMAIN DelayFor},
         Counting_i',
         p \in {"before", "after"} => i' \in DOMAIN cdce72010_reg,
         \A a \in 0..(Written' - 1) : reg[CDCE72010][a] = cdce72010_reg[a],
         p \in {"mmcm", "ext_pause", "ext", "kernel", "serving", "nonet"} =>
           adc_delay' = DelayFor[cdce72010_reg[DivReg]],
         p \in {"kernel", "serving", "nonet"} => seenLock,
         p # "ads_back"
  PROVE  Inv'
<1>1. pc'.at = p /\ pc'.step \in {"-", "check"} /\ p # "reset" /\ p # "pause" /\ pc' # At("reset")
  BY Places DEF Calls
<1>2. pc' \in [at : Calls, step : {"check", "retry", "issue", "wait", "done"}]
              \cup {At(q) : q \in {"reset", "dma", "pause", "mmcm", "ext_pause",
                                   "kernel", "serving", "nonet", "failed"}}
  <2>1. CASE pc' = Read(p) /\ p \in Calls
    BY <2>1 DEF Read
  <2>2. CASE pc' = At(p) /\ p \in {"dma", "mmcm", "ext_pause", "kernel",
                                   "serving", "nonet", "failed"}
    BY <2>2
  <2> QED BY <2>1, <2>2
<1>3. /\ SpiType' /\ mmcm' \in BOOLEAN /\ seenLock' \in BOOLEAN
      /\ \A c \in Chips : /\ Shape(c)' /\ Settled(c)'
                          /\ ctl'[c].init_done = ctl[c].init_done
                          /\ AtRest(c) => AtRest(c)'
      /\ UNCHANGED <<ctl, reg, inst, pll, dataout, flight>>
  BY Moves
<1>4. TypeOK'
  BY <1>2, <1>3 DEF TypeOK, Inv
<1>5. CDCE72010 \notin Active'
  BY <1>1 DEF Active, CDCE72010, ADS62P49
<1>6. Running'
  BY <1>1, <1>3, <1>5 DEF Running
<1> QED BY <1>1, <1>3, <1>4, <1>6 DEF Inv

(* What is written stays so while the counter and the places agree. *)
LEMMA InvBoot ==
  ASSUME Inv, Boot \/ InitDma, UNCHANGED mmcm
  PROVE  Inv'
<1>1. UNCHANGED <<spiVars, seenLock, i, value, adc_delay>> /\ pc.at \in {"reset", "dma"}
  BY Places DEF Boot, InitDma, Goto
<1>2. i = 0 /\ i' = 0 /\ 0 \in DOMAIN cdce72010_reg
  BY <1>1, Table DEF Inv, Counting_i
<1>3. \A c \in Chips : AtRest(c) /\ ctl[c].init_done
  <2>1. CASE Boot
    BY <2>1, QuietRest DEF Boot
  <2>2. CASE InitDma
    <3>1. pc.at = "dma" /\ pc.step = "-" /\ pc # At("reset")
      BY <2>2, Places DEF InitDma
    <3> QED BY <3>1, Resting DEF Active
  <2> QED BY <2>1, <2>2
<1>4. PICK p \in {"dma", "before", "failed"} : pc' = IF p = "before" THEN Read(p) ELSE At(p)
  BY DEF Boot, InitDma, Goto
<1>5. pc'.at = p
  BY <1>4, Places
<1>6. Written' = 0
  BY <1>2, <1>5 DEF Written
<1>7. Counting_i'
  BY <1>2, <1>5 DEF Counting_i
<1>8. \A a \in 0..(Written' - 1) : reg[CDCE72010][a] = cdce72010_reg[a]
  BY <1>6
<1>9. i' \in 0..Max({CDCE72010_NUMREG - 1, MAX_PLL_LOCK_TRIES, MAX_MMCM_LOCK_TRIES})
      /\ adc_delay' \in {0} \cup {DelayFor[v] : v \in DOMAIN DelayFor}
  BY <1>1 DEF Inv, TypeOK
<1> QED BY <1>1, <1>2, <1>3, <1>4, <1>7, <1>8, <1>9, Goes DEF Calls

LEMMA Done ==
  ASSUME Inv, NEW p \in Calls, Returned(p)
  PROVE  /\ pc.at = p /\ pc.step = "done" /\ pc # At("reset") /\ Running
         /\ \A c \in Chips : AtRest(c) /\ ctl[c].init_done
         /\ Chip(p) = CDCE72010 => Genuine(value, Addr(p))
         /\ \A a \in 0..(Written - 1) : reg[CDCE72010][a] = cdce72010_reg[a]
<1>1. pc.at = p /\ pc.step = "done" /\ pc # At("reset")
  BY DEF Returned, At
<1>2. Active = {}
  BY <1>1 DEF Active, Calls
<1>3. Running
  BY <1>1 DEF Inv
<1> QED BY <1>1, <1>2, <1>3, Resting DEF Running

LEMMA InvReadBack ==
  ASSUME Inv, ReadBack, UNCHANGED mmcm
  PROVE  Inv'
<1>1. /\ UNCHANGED <<spiVars, seenLock, i, value, adc_delay>> /\ Quiet
      /\ pc = At("pause") /\ pc' = Read("after")
  BY DEF ReadBack, Paused, Goto
<1>2. /\ pc.at = "pause" /\ pc # At("reset") /\ pc'.at = "after"
  BY <1>1, Places
<1>3. Running /\ CDCE72010 \in Active
  BY <1>2, Places DEF Inv, Active
<1>4. /\ Access /\ inst[CDCE72010] = [rw |-> 0, addr |-> i, data |-> cdce72010_reg[i]]
      /\ i \in DOMAIN cdce72010_reg /\ i \in Nat
      /\ \A a \in 0..(i - 1) : reg[CDCE72010][a] = cdce72010_reg[a]
  BY <1>2, <1>3, Table DEF Running, Written
<1>5. reg[CDCE72010][i] = cdce72010_reg[i]
  BY <1>1, <1>4, QuietAccess
<1>6. Written' = i + 1
  BY <1>1, <1>2 DEF Written
<1>7. \A a \in 0..(Written' - 1) : reg[CDCE72010][a] = cdce72010_reg[a]
  <2>1. \A a \in 0..(i + 1 - 1) : a \in 0..(i - 1) \/ a = i
    BY <1>4
  <2> QED BY <1>4, <1>5, <1>6, <2>1
<1>8. Counting_i'
  BY <1>2 DEF Counting_i
<1>9. i' \in 0..Max({CDCE72010_NUMREG - 1, MAX_PLL_LOCK_TRIES, MAX_MMCM_LOCK_TRIES})
      /\ adc_delay' \in {0} \cup {DelayFor[v] : v \in DOMAIN DelayFor}
  BY <1>1 DEF Inv, TypeOK
<1>10. \A c \in Chips : AtRest(c) /\ ctl[c].init_done
  BY <1>1, QuietRest
<1>11. i' \in DOMAIN cdce72010_reg /\ UNCHANGED <<spiVars, value, seenLock, mmcm>>
  BY <1>1, <1>4
<1>12. PICK p \in {"after"} : pc' = Read(p)
  BY <1>1
<1>13. p \in Calls /\ p = "after"
  BY DEF Calls
<1> QED BY <1>7, <1>8, <1>9, <1>10, <1>11, <1>12, <1>13, Goes

LEMMA InvWriteReg ==
  ASSUME Inv, WriteReg, UNCHANGED mmcm
  PROVE  Inv'
<1>1. /\ Returned("before") /\ pc' = At("pause") /\ UNCHANGED <<i, value, adc_delay, seenLock>>
      /\ Issue(CDCE72010, 0, i, cdce72010_reg[i])
  BY DEF WriteReg
<1>2. /\ pc.at = "before" /\ pc # At("reset") /\ Running
      /\ \A c \in Chips : AtRest(c) /\ ctl[c].init_done
      /\ \A a \in 0..(Written - 1) : reg[CDCE72010][a] = cdce72010_reg[a]
  <2>1. "before" \in Calls
    BY DEF Calls
  <2> QED BY <1>1, <2>1, Done
<1>3. pc'.at = "pause" /\ pc'.step = "-" /\ pc' # At("reset")
  BY <1>1, Places
<1>4. /\ i \in DOMAIN cdce72010_reg /\ i \in Addrs /\ CDCE72010 \in Chips
      /\ cdce72010_reg[i] \in Values \cup {Junk} /\ 0 \in 0..1
  BY <1>2, Table, Sizes DEF Running
<1>5. /\ SpiType'
      /\ \A d \in Chips : /\ Shape(d)' /\ Settled(d)'
                          /\ ctl'[d].init_done = ctl[d].init_done
                          /\ d # CDCE72010 /\ AtRest(d) => AtRest(d)'
      /\ UNCHANGED <<ctl, reg, pll, dataout>>
      /\ inst'[CDCE72010] = [rw |-> 0, addr |-> i, data |-> cdce72010_reg[i]]
      /\ AtRest(CDCE72010) => Access'
  BY <1>1, <1>4, Issues
<1>6. TypeOK'
  <2>1. pc' \in {At(q) : q \in {"reset", "dma", "pause", "mmcm", "ext_pause",
                                "kernel", "serving", "nonet", "failed"}}
    BY <1>1
  <2> QED BY <1>1, <1>5, <2>1 DEF Inv, TypeOK
<1>7. Active' = {CDCE72010} /\ Written' = i /\ Written = i
  BY <1>1, <1>2, <1>3 DEF Active, Written
<1>8. Running'
  BY <1>1, <1>2, <1>3, <1>4, <1>5, <1>7 DEF Running
<1>9. Counting_i'
  BY <1>3 DEF Counting_i
<1> QED BY <1>3, <1>5, <1>6, <1>8, <1>9 DEF Inv

LEMMA NextIndex ==
  ASSUME NEW n \in Nat, NEW k \in 0..(n - 1)
  PROVE  IF k + 1 < n THEN (k + 1) % n = k + 1 ELSE (k + 1) % n = 0 /\ k + 1 = n
OBVIOUS

LEMMA InvNextReg ==
  ASSUME Inv, NextReg, UNCHANGED mmcm
  PROVE  Inv'
<1>1. /\ Returned("after") /\ UNCHANGED <<spiVars, seenLock, value, adc_delay>>
      /\ i' = (i + 1) % CDCE72010_NUMREG
      /\ pc' = Read(IF i + 1 < CDCE72010_NUMREG THEN "before" ELSE "ads")
  BY DEF NextReg, Goto
<1>2. /\ pc.at = "after" /\ pc # At("reset") /\ Running
      /\ \A c \in Chips : AtRest(c) /\ ctl[c].init_done
      /\ \A a \in 0..(Written - 1) : reg[CDCE72010][a] = cdce72010_reg[a]
  <2>1. "after" \in Calls
    BY DEF Calls
  <2> QED BY <1>1, <2>1, Done
<1>3. i \in 0..(CDCE72010_NUMREG - 1) /\ Written = i + 1
  BY <1>2, Table DEF Running, Written
<1>4. IF i + 1 < CDCE72010_NUMREG THEN i' = i + 1 ELSE i' = 0 /\ i + 1 = CDCE72010_NUMREG
  BY <1>1, <1>3, NextIndex, Table
<1>5. i' \in 0..(CDCE72010_NUMREG - 1)
  BY <1>3, <1>4, Table
<1>6. i' \in 0..Max({CDCE72010_NUMREG - 1, MAX_PLL_LOCK_TRIES, MAX_MMCM_LOCK_TRIES})
  BY <1>5, LoopBound, Table
<1>7. PICK p \in {"before", "ads"} :
        pc' = Read(p) /\ (p = "before" <=> i + 1 < CDCE72010_NUMREG)
  BY <1>1
<1>8. pc'.at = p /\ p \in Calls
  BY <1>7, Places DEF Calls
<1>9. Counting_i'
  BY <1>4, <1>7, <1>8 DEF Counting_i
<1>10. Written' = Written
  BY <1>3, <1>4, <1>7, <1>8 DEF Written
<1>11. adc_delay' \in {0} \cup {DelayFor[v] : v \in DOMAIN DelayFor}
  BY <1>1 DEF Inv, TypeOK
<1>12. i' \in DOMAIN cdce72010_reg
  BY <1>5, Table
<1> QED BY <1>1, <1>2, <1>6, <1>7, <1>8, <1>9, <1>10, <1>11, <1>12, Goes

LEMMA InvSetMode ==
  ASSUME Inv, SetMode, UNCHANGED mmcm
  PROVE  Inv'
<1>1. /\ Returned("ads") /\ pc' = Read("ads_back") /\ UNCHANGED <<i, value, adc_delay, seenLock>>
      /\ Issue(ADS62P49, 0, ModeReg, SpeedMode(value.val))
  BY DEF SetMode
<1>2. /\ pc.at = "ads" /\ pc # At("reset") /\ Running
      /\ \A c \in Chips : AtRest(c) /\ ctl[c].init_done
      /\ \A a \in 0..(Written - 1) : reg[CDCE72010][a] = cdce72010_reg[a]
  <2>1. "ads" \in Calls
    BY DEF Calls
  <2> QED BY <1>1, <2>1, Done
<1>3. pc'.at = "ads_back" /\ pc'.step = "check" /\ pc' # At("reset")
  BY <1>1, Places
<1>4. ModeReg \in Addrs /\ SpeedMode(value.val) \in Values \cup {Junk} /\ ADS62P49 \in Chips
      /\ 0 \in 0..1
  BY BoardAssumption, Sizes DEF SpeedMode
<1>5. /\ SpiType'
      /\ \A d \in Chips : /\ Shape(d)' /\ Settled(d)'
                          /\ ctl'[d].init_done = ctl[d].init_done
                          /\ d # ADS62P49 /\ AtRest(d) => AtRest(d)'
      /\ UNCHANGED <<ctl, reg, pll, dataout>>
  BY <1>1, <1>4, Issues
<1>6. TypeOK'
  <2>1. pc' \in [at : Calls, step : {"check", "retry", "issue", "wait", "done"}]
    BY <1>1 DEF Read, Calls
  <2> QED BY <1>1, <1>5, <2>1 DEF Inv, TypeOK
<1>7. Active' = {ADS62P49} /\ Written' = Written /\ CDCE72010 \notin Active'
  BY <1>2, <1>3, Sizes DEF Active, Written
<1>8. Running'
  BY <1>1, <1>2, <1>3, <1>5, <1>7 DEF Running
<1>9. Counting_i'
  BY <1>1, <1>2, <1>3 DEF Inv, Counting_i
<1> QED BY <1>3, <1>5, <1>6, <1>8, <1>9 DEF Inv

LEMMA InvModeDone ==
  ASSUME Inv, ModeDone, UNCHANGED mmcm
  PROVE  Inv'
<1>1. /\ Returned("ads_back") /\ UNCHANGED <<spiVars, seenLock, i, value, adc_delay>>
      /\ pc' = Read("delay")
  BY DEF ModeDone, Goto
<1>2. /\ pc.at = "ads_back" /\ pc # At("reset") /\ Running
      /\ \A c \in Chips : AtRest(c) /\ ctl[c].init_done
      /\ \A a \in 0..(Written - 1) : reg[CDCE72010][a] = cdce72010_reg[a]
  <2>1. "ads_back" \in Calls
    BY DEF Calls
  <2> QED BY <1>1, <2>1, Done
<1>3. PICK p \in {"delay"} : pc' = Read(p)
  BY <1>1
<1>4. pc'.at = p /\ p = "delay" /\ p \in Calls
  BY <1>3, Places DEF Calls
<1>5. Written' = Written
  BY <1>2, <1>4 DEF Written
<1>6. Counting_i'
  BY <1>1, <1>2, <1>4 DEF Inv, Counting_i
<1>7. i' \in 0..Max({CDCE72010_NUMREG - 1, MAX_PLL_LOCK_TRIES, MAX_MMCM_LOCK_TRIES})
      /\ adc_delay' \in {0} \cup {DelayFor[v] : v \in DOMAIN DelayFor}
  BY <1>1 DEF Inv, TypeOK
<1> QED BY <1>1, <1>2, <1>3, <1>4, <1>5, <1>6, <1>7, Goes

LEMMA InvSetDelay ==
  ASSUME Inv, SetDelay, UNCHANGED mmcm
  PROVE  Inv'
<1>1. /\ Returned("delay") /\ UNCHANGED <<spiVars, seenLock, i, value>>
      /\ pc' = At("mmcm") /\ adc_delay' = DelayFor[value.val]
  BY DEF SetDelay, Goto
<1>2. /\ pc.at = "delay" /\ pc # At("reset") /\ Running
      /\ \A c \in Chips : AtRest(c) /\ ctl[c].init_done
      /\ Genuine(value, DivReg)
      /\ \A a \in 0..(Written - 1) : reg[CDCE72010][a] = cdce72010_reg[a]
  <2>1. "delay" \in Calls /\ Chip("delay") = CDCE72010 /\ Addr("delay") = DivReg
    BY DEF Calls, Chip, Addr
  <2> QED BY <1>1, <2>1, Done
<1>3. PICK p \in {"mmcm"} : pc' = At(p)
  BY <1>1
<1>4. pc'.at = p /\ p = "mmcm"
  BY <1>3, Places
<1>5. Written' = Written /\ Written = CDCE72010_NUMREG
  BY <1>2, <1>4 DEF Written
<1>6. value.val = cdce72010_reg[DivReg]
  BY <1>2, <1>5, Table DEF Genuine
<1>7. adc_delay' \in {0} \cup {DelayFor[v] : v \in DOMAIN DelayFor}
  <2>1. cdce72010_reg[DivReg] \in Values /\ DOMAIN DelayFor = Values \cup {Junk}
    BY Table, BoardAssumption
  <2> QED BY <1>1, <1>6, <2>1
<1>8. i' = 0 /\ 0 < MAX_MMCM_LOCK_TRIES
  BY <1>1, <1>2, BoardAssumption DEF Inv, Counting_i
<1>9. Counting_i'
  BY <1>4, <1>8 DEF Counting_i
<1>10. i' \in 0..Max({CDCE72010_NUMREG - 1, MAX_PLL_LOCK_TRIES, MAX_MMCM_LOCK_TRIES})
  BY <1>1 DEF Inv, TypeOK
<1>11. adc_delay' = DelayFor[cdce72010_reg[DivReg]]
  BY <1>1, <1>6
<1> QED BY <1>1, <1>2, <1>3, <1>4, <1>5, <1>7, <1>9, <1>10, <1>11, Goes

LEMMA InvMmcmLock ==
  ASSUME Inv, check_mmcm_lock, UNCHANGED mmcm
  PROVE  Inv'
<1>1. /\ pc = At("mmcm") /\ UNCHANGED <<spiVars, seenLock, value, adc_delay>>
      /\ \/ i' = 0 /\ pc' = At("ext_pause")
         \/ /\ i' = i + 1
            /\ pc' = IF i' < MAX_MMCM_LOCK_TRIES THEN At("mmcm") ELSE At("failed")
  BY DEF check_mmcm_lock, Goto
<1>2. pc.at = "mmcm" /\ pc.step = "-" /\ pc # At("reset")
  BY <1>1, Places
<1>3. /\ \A c \in Chips : AtRest(c) /\ ctl[c].init_done
      /\ Running /\ Written = CDCE72010_NUMREG
  BY <1>2, Resting DEF Active, Written, Inv
<1>4. /\ \A a \in 0..(Written - 1) : reg[CDCE72010][a] = cdce72010_reg[a]
      /\ adc_delay' = DelayFor[cdce72010_reg[DivReg]]
  BY <1>1, <1>2, <1>3 DEF Running
<1>5. PICK p \in {"mmcm", "ext_pause", "failed"} :
        /\ pc' = At(p)
        /\ p = "mmcm" => i' < MAX_MMCM_LOCK_TRIES
        /\ p = "ext_pause" => i' = 0
  BY <1>1
<1>6. pc'.at = p
  BY <1>5, Places
<1>7. Written' = Written \/ Written' = 0
  BY <1>3, <1>6 DEF Written
<1>8. i \in Nat /\ i < MAX_MMCM_LOCK_TRIES
  <2>1. i \in 0..Max({CDCE72010_NUMREG - 1, MAX_PLL_LOCK_TRIES, MAX_MMCM_LOCK_TRIES})
    BY DEF Inv, TypeOK
  <2> QED BY <1>2, <2>1, LoopBound DEF Inv, Counting_i
<1>9. i' \in 0..Max({CDCE72010_NUMREG - 1, MAX_PLL_LOCK_TRIES, MAX_MMCM_LOCK_TRIES})
      /\ adc_delay' \in {0} \cup {DelayFor[v] : v \in DOMAIN DelayFor}
  <2>1. i' \in Nat /\ i' <= MAX_MMCM_LOCK_TRIES
    BY <1>1, <1>8, BoardAssumption
  <2>2. i' \in 0..Max({CDCE72010_NUMREG - 1, MAX_PLL_LOCK_TRIES, MAX_MMCM_LOCK_TRIES})
    BY <2>1, LoopBound, BoardAssumption
  <2> QED BY <1>1, <2>2 DEF Inv, TypeOK
<1>10. Counting_i'
  BY <1>5, <1>6, BoardAssumption DEF Counting_i
<1>11. \A a \in 0..(Written' - 1) : reg[CDCE72010][a] = cdce72010_reg[a]
  BY <1>4, <1>7
<1> QED BY <1>1, <1>3, <1>4, <1>5, <1>9, <1>10, <1>11, Goes

LEMMA InvExtPause ==
  ASSUME Inv, ExtPause, UNCHANGED mmcm
  PROVE  Inv'
<1>1. /\ pc = At("ext_pause") /\ UNCHANGED <<spiVars, seenLock, i, value, adc_delay>>
      /\ pc' = Read("ext")
  BY DEF ExtPause, Goto
<1>2. pc.at = "ext_pause" /\ pc.step = "-" /\ pc # At("reset")
  BY <1>1, Places
<1>3. /\ \A c \in Chips : AtRest(c) /\ ctl[c].init_done
      /\ Running /\ Written = CDCE72010_NUMREG
  BY <1>2, Resting DEF Active, Written, Inv
<1>4. /\ \A a \in 0..(Written - 1) : reg[CDCE72010][a] = cdce72010_reg[a]
      /\ adc_delay' = DelayFor[cdce72010_reg[DivReg]]
  BY <1>1, <1>2, <1>3 DEF Running
<1>5. PICK p \in {"ext"} : pc' = Read(p)
  BY <1>1
<1>6. pc'.at = p /\ p = "ext" /\ p \in Calls
  BY <1>5, Places DEF Calls
<1>7. Written' = Written
  BY <1>3, <1>6 DEF Written
<1>8. i' \in 0..Max({CDCE72010_NUMREG - 1, MAX_PLL_LOCK_TRIES, MAX_MMCM_LOCK_TRIES})
      /\ adc_delay' \in {0} \cup {DelayFor[v] : v \in DOMAIN DelayFor}
  BY <1>1 DEF Inv, TypeOK
<1>9. Counting_i'
  BY <1>1, <1>2, <1>6 DEF Inv, Counting_i
<1> QED BY <1>1, <1>3, <1>4, <1>5, <1>6, <1>7, <1>8, <1>9, Goes

LEMMA InvExtChecked ==
  ASSUME Inv, ExtChecked, UNCHANGED mmcm
  PROVE  Inv'
<1>1. /\ Returned("ext") /\ UNCHANGED <<spiVars, seenLock, value, adc_delay>>
      /\ \/ value.lock /\ i' = 0 /\ pc' = At("kernel")
         \/ /\ i' = i + 1
            /\ pc' = At(IF i' < MAX_PLL_LOCK_TRIES THEN "ext_pause" ELSE "failed")
  BY DEF ExtChecked, LockSeen, Goto
<1>2. /\ pc.at = "ext" /\ pc # At("reset") /\ Running
      /\ \A c \in Chips : AtRest(c) /\ ctl[c].init_done
      /\ Genuine(value, LockReg)
      /\ \A a \in 0..(Written - 1) : reg[CDCE72010][a] = cdce72010_reg[a]
  <2>1. "ext" \in Calls /\ Chip("ext") = CDCE72010 /\ Addr("ext") = LockReg
    BY DEF Calls, Chip, Addr
  <2> QED BY <1>1, <2>1, Done
<1>3. adc_delay' = DelayFor[cdce72010_reg[DivReg]] /\ Written = CDCE72010_NUMREG
  BY <1>1, <1>2 DEF Running, Written
<1>4. value.lock => seenLock
  BY <1>2 DEF Genuine
<1>5. PICK p \in {"kernel", "ext_pause", "failed"} :
        /\ pc' = At(p)
        /\ p = "kernel" => seenLock /\ i' = 0
        /\ p = "ext_pause" => i' < MAX_PLL_LOCK_TRIES
  BY <1>1, <1>4
<1>6. pc'.at = p
  BY <1>5, Places
<1>7. Written' = Written \/ Written' = 0
  BY <1>3, <1>6 DEF Written
<1>8. i \in Nat /\ i < MAX_PLL_LOCK_TRIES
  <2>1. i \in 0..Max({CDCE72010_NUMREG - 1, MAX_PLL_LOCK_TRIES, MAX_MMCM_LOCK_TRIES})
    BY DEF Inv, TypeOK
  <2> QED BY <1>2, <2>1, LoopBound DEF Inv, Counting_i
<1>9. i' \in 0..Max({CDCE72010_NUMREG - 1, MAX_PLL_LOCK_TRIES, MAX_MMCM_LOCK_TRIES})
      /\ adc_delay' \in {0} \cup {DelayFor[v] : v \in DOMAIN DelayFor}
  <2>1. i' \in Nat /\ i' <= MAX_PLL_LOCK_TRIES
    BY <1>1, <1>8, BoardAssumption
  <2>2. i' \in 0..Max({CDCE72010_NUMREG - 1, MAX_PLL_LOCK_TRIES, MAX_MMCM_LOCK_TRIES})
    BY <2>1, LoopBound, BoardAssumption
  <2> QED BY <1>1, <2>2 DEF Inv, TypeOK
<1>10. Counting_i'
  BY <1>5, <1>6 DEF Counting_i
<1>11. \A a \in 0..(Written' - 1) : reg[CDCE72010][a] = cdce72010_reg[a]
  BY <1>2, <1>7
<1> QED BY <1>1, <1>2, <1>3, <1>5, <1>9, <1>10, <1>11, Goes

LEMMA InvNetworkThread ==
  ASSUME Inv, network_thread, UNCHANGED mmcm
  PROVE  Inv'
<1>1. /\ pc = At("kernel") /\ UNCHANGED <<spiVars, seenLock, i, value, adc_delay>>
      /\ pc' = At("serving") \/ pc' = At("nonet")
  BY DEF network_thread, Goto
<1>2. pc.at = "kernel" /\ pc.step = "-" /\ pc # At("reset")
  BY <1>1, Places
<1>3. /\ \A c \in Chips : AtRest(c) /\ ctl[c].init_done
      /\ Running /\ Written = CDCE72010_NUMREG
  BY <1>2, Resting DEF Active, Written, Inv
<1>4. /\ \A a \in 0..(Written - 1) : reg[CDCE72010][a] = cdce72010_reg[a]
      /\ adc_delay' = DelayFor[cdce72010_reg[DivReg]] /\ seenLock
  BY <1>1, <1>2, <1>3 DEF Running
<1>5. PICK p \in {"serving", "nonet"} : pc' = At(p)
  BY <1>1
<1>6. pc'.at = p
  BY <1>5, Places
<1>7. Written' = Written
  BY <1>3, <1>6 DEF Written
<1>8. i' \in 0..Max({CDCE72010_NUMREG - 1, MAX_PLL_LOCK_TRIES, MAX_MMCM_LOCK_TRIES})
      /\ adc_delay' \in {0} \cup {DelayFor[v] : v \in DOMAIN DelayFor}
  BY <1>1 DEF Inv, TypeOK
<1>9. Counting_i'
  BY <1>1, <1>2, <1>6 DEF Inv, Counting_i
<1> QED BY <1>1, <1>3, <1>4, <1>5, <1>7, <1>8, <1>9, Goes

-----------------------------------------------------------------------------
(* The theorems. *)

LEMMA InvStep ==
  ASSUME Inv, [Next]_vars
  PROVE  Inv'
<1>1. CASE Software
  <2>1. UNCHANGED mmcm
    BY <1>1 DEF Software
  <2>2. CASE ReadCheck \/ ReadRetry
    BY <2>1, <2>2, InvLooks
  <2>3. CASE ReadIssue
    BY <2>1, <2>3, InvReadIssue
  <2>4. CASE ReadDone
    BY <2>1, <2>4, InvReadDone
  <2>5. CASE Boot \/ InitDma
    BY <2>1, <2>5, InvBoot
  <2>6. CASE WriteReg
    BY <2>1, <2>6, InvWriteReg
  <2>7. CASE ReadBack
    BY <2>1, <2>7, InvReadBack
  <2>8. CASE NextReg
    BY <2>1, <2>8, InvNextReg
  <2>9. CASE SetMode
    BY <2>1, <2>9, InvSetMode
  <2>10. CASE ModeDone
    BY <2>1, <2>10, InvModeDone
  <2>11. CASE SetDelay
    BY <2>1, <2>11, InvSetDelay
  <2>12. CASE check_mmcm_lock
    BY <2>1, <2>12, InvMmcmLock
  <2>13. CASE ExtPause
    BY <2>1, <2>13, InvExtPause
  <2>14. CASE ExtChecked
    BY <2>1, <2>14, InvExtChecked
  <2>15. CASE network_thread
    BY <2>1, <2>15, InvNetworkThread
  <2> QED BY <1>1, <2>2, <2>3, <2>4, <2>5, <2>6, <2>7, <2>8, <2>9, <2>10, <2>11,
             <2>12, <2>13, <2>14, <2>15 DEF Software
<1>2. CASE \E vals \in SUBSET Chips : Clk(vals)
  BY <1>2, InvClk
<1>3. CASE \E c \in Chips : Ack(c)
  BY <1>3, InvAck
<1>4. CASE Pll \/ Mmcm
  BY <1>4, InvLocks
<1>5. CASE UNCHANGED vars
  <2>1. UNCHANGED <<ctl, init, inst, flight, rx, reg, pll, dataout>>
        /\ UNCHANGED <<pc, i, value, adc_delay, mmcm, seenLock>>
    BY <1>5 DEF vars, spiVars, softVars
  <2>2. TypeOK'
    BY <2>1 DEF Inv, TypeOK, SpiType
  <2>3. \A c \in Chips : Shape(c)' /\ Settled(c)'
    BY <2>1, ShapeSame DEF Inv
  <2>4. Counting_i'
    BY <2>1 DEF Inv, Counting_i
  <2>5. CASE pc = At("reset")
    <3>1. (\A c \in Chips : Booting(c)') /\ Chain'
      BY <2>1, <2>5, BootSame DEF Inv
    <3> QED BY <2>1, <2>2, <2>3, <2>4, <2>5, <3>1 DEF Inv
  <2>6. CASE pc # At("reset")
    <3>1. Active' = Active /\ Written' = Written /\ Addr(pc.at)' = Addr(pc.at)
      BY <2>1 DEF Active, Written, Addr
    <3>2. Access => Access'
      BY <2>1, AccessSame
    <3>3. \A c \in Chips : AtRest(c) => AtRest(c)'
      BY <2>1 DEF AtRest, Idle, State
    <3>4. Running
      BY <2>6 DEF Inv
    <3>5. Running'
      BY <2>1, <3>1, <3>2, <3>3, <3>4 DEF Running, Genuine
    <3> QED BY <2>1, <2>2, <2>3, <2>4, <2>6, <3>5 DEF Inv
  <2> QED BY <2>5, <2>6
<1> QED BY <1>1, <1>2, <1>3, <1>4, <1>5 DEF Next

(* Shape, chain and accesses stay as Inv says, whatever the interleaving   *)
(* of the controllers, the instruction pulses, the locks and the program.  *)
THEOREM InvHolds == Spec => []Inv
<1>1. Init => Inv
  BY InvInit
<1>2. Inv /\ [Next]_vars => Inv'
  BY InvStep
<1> QED BY <1>1, <1>2, PTL DEF Spec

(* The registers keep their widths, no init address of the controllers     *)
(* leaves its memory and the loops of init.c stay within their bounds.     *)
THEOREM BoardTypes == Spec => []TypeOK
<1>1. Inv => TypeOK
  BY DEF Inv
<1> QED BY <1>1, InvHolds, PTL

(* A controller that is not idle during the init chain waits for nobody,   *)
(* and no later one has started: init_done of the one before is what the   *)
(* chain of fmc150_spi_ctrl.vhd passes on.  Afterwards only the chip of    *)
(* the software's last access may be busy.                                 *)
THEOREM OneDevice == Spec => []OneChipSelected
<1>1. ASSUME Inv PROVE OneChipSelected
  <2>1. ASSUME NEW c \in Chips, ~ctl[c].ncs PROVE ~Idle(c)
    BY <1>1, <2>1, ControlTypes DEF Inv, TypeOK, Shape, Selected, Idle
  <2>2. CASE pc = At("reset")
    <3>1. ASSUME NEW c \in Chips, NEW d \in Chips, d < c, ~Idle(c), ~Idle(d) PROVE FALSE
      <4>1. ~ctl[d].init_done /\ Off(c) /\ Booting(c)
        BY <1>1, <2>2, <3>1 DEF Inv, Booting, Chain
      <4>2. ~ctl[c].done /\ ~init[c]
        BY <4>1 DEF Off
      <4> QED BY <3>1, <4>1, <4>2 DEF Booting, Flags
    <3>2. \A c, d \in Chips : c # d => c < d \/ d < c
      BY Sizes
    <3> QED BY <2>1, <3>1, <3>2 DEF OneChipSelected
  <2>3. CASE pc # At("reset")
    <3>1. \A c \in Chips \ Active : Idle(c)
      BY <1>1, <2>3 DEF Inv, Running, AtRest
    <3>2. \A c, d \in Active : c = d
      BY DEF Active
    <3> QED BY <2>1, <3>1, <3>2 DEF OneChipSelected
  <2> QED BY <2>2, <2>3
<1> QED BY <1>1, InvHolds, PTL

(* init_done is only set with every entry of the init memory obeyed by its *)
(* device: the sequence of loads never outruns the shift register.         *)
THEOREM InitLoads == Spec => []InitMemoryLoaded
<1>1. ASSUME Inv PROVE InitMemoryLoaded
  <2>1. SUFFICES ASSUME NEW c \in Chips, ctl[c].init_done, pc = At("reset"),
                        NEW k \in DOMAIN InitMem[c],
                        \A m \in DOMAIN InitMem[c] : m > k => InitMem[c][m].addr # InitMem[c][k].addr
                 PROVE  reg[c][InitMem[c][k].addr] = InitMem[c][k].data
    BY DEF InitMemoryLoaded
  <2>2. Idle(c) /\ ctl[c].done /\ Holds(c, Stored(c))
    BY <1>1, <2>1 DEF Inv, Booting, Settled
  <2>3. Stored(c) = Len(InitMem[c])
    BY <2>2 DEF Stored, Loaded
  <2>4. Len(InitMem[c]) \in Nat /\ DOMAIN InitMem[c] = 1..Len(InitMem[c])
    BY SpiAssumption
  <2>5. \A m \in (k + 1)..Len(InitMem[c]) : InitMem[c][m].addr # InitMem[c][k].addr
    BY <2>1, <2>4
  <2> QED BY <2>1, <2>2, <2>3, <2>4, <2>5 DEF Holds
<1> QED BY <1>1, InvHolds, PTL

(* What read_fmc150_register returns for a register of the cdce72010 is    *)
(* what the register holds.                                                *)
THEOREM GenuineReads == Spec => []ReadIsGenuine
<1>1. ASSUME Inv PROVE ReadIsGenuine
  <2>1. SUFFICES ASSUME pc.step = "done", Chip(pc.at) = CDCE72010
                 PROVE  value.val = reg[CDCE72010][Addr(pc.at)]
    BY DEF ReadIsGenuine
  <2>2. pc # At("reset")
    BY <2>1, Places
  <2> QED BY <1>1, <2>1, <2>2 DEF Inv, Running, Genuine
<1> QED BY <1>1, InvHolds, PTL

(* A server that runs has a clock chip with the whole table of init.c and  *)
(* the input delay for its divider, whatever failed and was tried again.   *)
THEOREM Configured == Spec => []ServingConfigured
<1>1. ASSUME Inv PROVE ServingConfigured
  <2>1. SUFFICES ASSUME pc.at = "serving"
                 PROVE  /\ \A a \in DOMAIN cdce72010_reg : reg[CDCE72010][a] = cdce72010_reg[a]
                        /\ adc_delay = DelayFor[cdce72010_reg[DivReg]]
    BY DEF ServingConfigured
  <2>2. pc # At("reset") /\ Written = CDCE72010_NUMREG
    BY <2>1, Places DEF Written
  <2> QED BY <1>1, <2>1, <2>2, Table DEF Inv, Running
<1> QED BY <1>1, InvHolds, PTL

(* The server starts on no older lock than that of the last read.          *)
THEOREM LockWasSeen == Spec => []ServingMeansLocked
<1>1. ASSUME Inv PROVE ServingMeansLocked
  <2>1. pc.at # "reset" => pc # At("reset")
    BY Places
  <2> QED BY <1>1, <2>1 DEF Inv, Running, ServingMeansLocked
<1> QED BY <1>1, InvHolds, PTL
=============================================================================
