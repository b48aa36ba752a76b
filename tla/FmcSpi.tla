------------------------------- MODULE FmcSpi -------------------------------
(***************************************************************************)
(* The SPI hardware of the FMC150 board: fmc150_spi_ctrl.vhd with its four *)
(* device controllers (cdce72010, ads62p49, dac3283, amc7823), numbered in *)
(* the order in which they initialise their devices, on one shared bus.    *)
(*                                                                         *)
(* One step of SerialClk is an edge of serial_clk, the same for all four   *)
(* (clk divided by 16).  Logic on clk settles between two such edges and   *)
(* is folded into the step.  A word is shifted out in InstBits and then    *)
(* DataBits edges; a shift register that is loaded again on the way sends  *)
(* the beginning of the new word where the rest of the old one should be.  *)
(*                                                                         *)
(* The devices are external, modelled as the software uses them: a word of *)
(* which all bits arrived is obeyed, a garbled instruction (NoInst) means  *)
(* some register that nobody looks at.  What a register holds is abstract, *)
(* and so is where in DATAOUT a controller puts it.                        *)
(***************************************************************************)
EXTENDS Integers, Sequences, FiniteSets, FiniteSetsExt

CONSTANTS
  NChips,    \* controllers; number 1 is the cdce72010
  InstBits, DataBits,    \* the two parts of a word
  Addrs,     \* register addresses up to ADDR_MAX_WR
  Values,    \* what a register can hold
  InitMem,   \* per chip: the init memory, a sequence of [addr, data]
  LockReg    \* the cdce72010 register whose content shows the PLL lock

Chips == 1..NChips
WordBits == InstBits + DataBits
LastAddr == Max(Addrs)    \* ADDR_MAX_WR, "the last entry" of an init memory

ASSUME SpiAssumption ==
  /\ NChips \in Nat \ {0}
  /\ InstBits \in Nat \ {0}
  /\ DataBits \in Nat \ {0}
  /\ Addrs \subseteq Nat
  /\ LastAddr \in Addrs
  /\ LockReg \in Addrs
  /\ InitMem \in [Chips -> Seq([addr : Addrs, data : Values])]
  /\ \A c \in Chips :
       /\ InitMem[c] # <<>>
       /\ \A k \in DOMAIN InitMem[c] :
            InitMem[c][k].addr = LastAddr <=> k = Len(InitMem[c])

VARIABLES
  ctl,      \* the registers of each controller on serial_clk
  init,     \* its init flag
  inst,     \* inst_rw, inst_reg, data_reg: the last instruction of software
  flight,   \* the crossing of inst_val into serial_clk, as in PulseTransfer
  rx,       \* device: the instruction it has received, if any (external)
  reg,      \* device: its registers (external)
  pll,      \* the cdce72010's PLL is locked (external)
  dataout   \* the register DATAOUT: what the last read brought back

spiVars == <<ctl, init, inst, flight, rx, reg, pll, dataout>>

Junk == 0     \* not in Values: bits of no meaning
NoInst == [rw |-> 0, addr |-> LastAddr]
NoWord == [rw |-> 0, addr |-> LastAddr, data |-> Junk]
NoData == [val |-> Junk, lock |-> FALSE]
Load(w) == [word |-> w, pos |-> 0, in |-> NoData]

SpiInit ==
  /\ ctl = [c \in Chips |->
       [init_tmp |-> FALSE, init_reg |-> FALSE, sh_state |-> "idle",
        sh_counter |-> 0, shifting |-> FALSE, read_n_write |-> 0, ncs |-> TRUE,
        shift_reg |-> Load(NoWord), init_address |-> 1, done |-> FALSE,
        init_done |-> FALSE, read_byte_val |-> FALSE, data_read |-> NoData]]
  /\ init = [c \in Chips |-> FALSE]
  /\ inst = [c \in Chips |-> NoWord]
  /\ flight = [c \in Chips |-> "free"]
  /\ rx = [c \in Chips |-> NoInst]
  /\ reg = [c \in Chips |-> [a \in Addrs |-> Junk]]
  /\ pll = FALSE
  /\ dataout = NoData

IsCdce(c) == c = 1
IsBusy(c) == ctl[c].sh_state # "idle" \/ ctl[c].init_reg
busy == \E c \in Chips : IsBusy(c)

-----------------------------------------------------------------------------
(* The controllers, one operator per process; v is inst_reg_val. *)

Accepts(c, v) == ctl[c].sh_state = "idle" /\ (v \/ ctl[c].init_reg)

(* The states in which a device is selected and bits are shifted: the      *)
(* cdce72010 sends a word and, to read, clocks the answer in after it; the *)
(* others send the instruction and then send or receive the data.          *)
Selected(state) == state \in {"reg_write", "reg_read", "instruct", "data_io"}
Counting(c) == Selected(ctl[c].sh_state) /\ ctl[c].sh_counter > 0

NextState(c, v) ==
  LET s == ctl[c]
      reads == s.read_n_write = 1
  IN CASE Counting(c) -> s.sh_state
       [] s.sh_state = "idle" /\ ~Accepts(c, v) -> "idle"
       [] s.sh_state = "idle" /\ Accepts(c, v) ->
            IF IsCdce(c) THEN "reg_write" ELSE "instruct"
       [] s.sh_state = "reg_write" /\ ~Counting(c) ->
            IF reads THEN "start_reg_read" ELSE "idle"
       [] s.sh_state = "start_reg_read" -> "reg_read"
       [] s.sh_state = "instruct" /\ ~Counting(c) -> "data_io"
       [] s.sh_state = "data_io" /\ ~Counting(c) -> IF reads THEN "data_valid" ELSE "idle"
       [] s.sh_state = "reg_read" /\ ~Counting(c) -> "data_valid"
       [] s.sh_state = "data_valid" -> "idle"

LoadsInit(c) == ctl[c].init_reg /\ ~ctl[c].shifting
InitWord(c) == InitMem[c][ctl[c].init_address]

(* What the device sends back: the register it was asked for and, with the *)
(* lock register of the cdce72010, the state of the PLL at that moment.    *)
sdi(c) == IF rx[c].rw = 1
          THEN [val |-> reg[c][rx[c].addr],
                lock |-> IsCdce(c) /\ rx[c].addr = LockReg /\ pll]
          ELSE NoData

shift_reg(c, v) ==
  LET s == ctl[c]
  IN IF LoadsInit(c)
       THEN Load([rw |-> 0, addr |-> InitWord(c).addr, data |-> InitWord(c).data])
     ELSE IF v /\ ~s.init_reg THEN Load(inst[c])
     ELSE IF s.shifting
       THEN [s.shift_reg EXCEPT !.pos = @ + 1, !.in = sdi(c)]
     ELSE s.shift_reg

MutDoneAtOnce(c) == ctl[c].done

(* init_done_sclk: the last word is not only loaded but sent. *)
InitDone(c) == ctl[c].done /\ (ctl[c].init_done \/ ctl[c].sh_state = "idle")

Edge(c, v) ==
  LET s == ctl[c]
      next == NextState(c, v)
      last == LoadsInit(c) /\ InitWord(c).addr = LastAddr
  IN [init_tmp |-> init[c],
      init_reg |-> s.init_tmp,
      sh_state |-> next,
      sh_counter |-> IF Counting(c) THEN s.sh_counter - 1
                     ELSE IF IsCdce(c) THEN WordBits - 1
                     ELSE IF next = "data_io" THEN DataBits - 1 ELSE InstBits - 1,
      shifting |-> Selected(next),
      read_n_write |-> IF ~Accepts(c, v) THEN s.read_n_write
                       ELSE IF s.init_reg THEN 0 ELSE inst[c].rw,
      ncs |-> ~Selected(next),
      shift_reg |-> shift_reg(c, v),
      init_address |-> IF ~LoadsInit(c) THEN s.init_address
                       ELSE IF last THEN 1 ELSE s.init_address + 1,
      done |-> IF LoadsInit(c) THEN last ELSE s.done,
      init_done |-> InitDone(c),
      read_byte_val |-> s.sh_state = "data_valid",
      data_read |-> IF s.sh_state = "data_valid" THEN s.shift_reg.in ELSE s.data_read]

MutAllAfterFirst(c, done) == c = 1 \/ done[1]
MutWaitsForAll(c, done) == \A d \in Chips \ {c} : done[d]

(* The chain of fmc150_spi_ctrl.vhd, through init_done of the one before. *)
init_ena(c, done) == c = 1 \/ done[c - 1]

-----------------------------------------------------------------------------
(* The bus: the lowest selected controller drives clock and data.  A       *)
(* device that hears another's word, or a word loaded anew, gets junk.     *)
Drives(c) == \A d \in Chips : ~ctl[d].ncs => c <= d

Sent(c, bits) == Drives(c) /\ ctl[c].shift_reg.pos = bits - 1
Word(c) == ctl[c].shift_reg.word

(* The last edge of the instruction, and of the data. *)
InstEdge(c) == \/ ctl[c].sh_state = "instruct" /\ ~Counting(c)
               \/ ctl[c].sh_state = "reg_write" /\ ctl[c].sh_counter = DataBits
DataEdge(c) == ctl[c].sh_state \in {"data_io", "reg_write"} /\ ~Counting(c)

DeviceRx(c) ==
  IF InstEdge(c) /\ Sent(c, InstBits) THEN [rw |-> Word(c).rw, addr |-> Word(c).addr]
  ELSE IF InstEdge(c) THEN NoInst ELSE rx[c]

DeviceReg(c) ==
  IF DataEdge(c) /\ rx[c].rw = 0
  THEN [reg[c] EXCEPT ![rx[c].addr] = IF Sent(c, WordBits) THEN Word(c).data ELSE Junk]
  ELSE reg[c]

-----------------------------------------------------------------------------
(* One edge of serial_clk; vals says which instruction pulses it brings. *)
SerialClk(vals) ==
  /\ \A c \in vals : flight[c] = "set"
  /\ ctl' = [c \in Chips |-> Edge(c, c \in vals)]
  /\ init' = LET done == [c \in Chips |-> ctl'[c].init_done]
             IN [c \in Chips |-> ~ctl'[c].done /\ (init[c] \/ init_ena(c, done))]
  /\ flight' = [c \in Chips |-> IF c \in vals THEN "out" ELSE flight[c]]
  /\ rx' = [c \in Chips |-> DeviceRx(c)]
  /\ reg' = [c \in Chips |-> DeviceReg(c)]
  /\ LET back == {c \in Chips : ctl[c].read_byte_val}
     IN dataout' = IF back = {} THEN dataout
                   ELSE ctl[Min(back)].data_read
  /\ UNCHANGED <<inst, pll>>

(* The acknowledgement of an instruction pulse is back. *)
Release(c) ==
  /\ flight[c] = "out"
  /\ flight' = [flight EXCEPT ![c] = "free"]
  /\ UNCHANGED <<ctl, init, inst, rx, reg, pll, dataout>>

PllChange ==
  /\ pll' = ~pll
  /\ UNCHANGED <<ctl, init, inst, flight, rx, reg, dataout>>

(* A bus write of CHIPSELECT that toggles chip c's bit, with rd_n_wr, ADDR *)
(* and DATAIN as they are: the command passes fmc150_stellar_cmd, replaces *)
(* the instruction and pulses inst_val.  Timing assumption: this part, all *)
(* on clk, is over before the next bus access.  A read leaves data_reg.    *)
Issue(c, rw, addr, data) ==
  /\ inst' = [inst EXCEPT ![c] =
       [rw |-> rw, addr |-> addr, data |-> IF rw = 1 THEN @.data ELSE data]]
  /\ flight' = [flight EXCEPT ![c] = IF @ = "free" THEN "set" ELSE @]
  /\ UNCHANGED <<ctl, init, rx, reg, pll, dataout>>

(* Nothing is under way: what a delay() of the software waits for. *)
Quiet ==
  \A c \in Chips :
    /\ ~IsBusy(c)
    /\ ctl[c].init_done
    /\ ~ctl[c].read_byte_val
    /\ flight[c] = "free"

Data == [val : Values \cup {Junk}, lock : BOOLEAN]
Words == [rw : 0..1, addr : Addrs, data : Values \cup {Junk}]
ShiftRegs == [word : Words, pos : 0..(2 * WordBits), in : Data]
States == {"idle", "reg_write", "start_reg_read", "reg_read", "instruct", "data_io", "data_valid"}
Controls ==
  [init_tmp : BOOLEAN, init_reg : BOOLEAN, sh_state : States,
   sh_counter : 0..(WordBits - 1), shifting : BOOLEAN, read_n_write : 0..1, ncs : BOOLEAN,
   shift_reg : ShiftRegs, init_address : Nat \ {0}, done : BOOLEAN, init_done : BOOLEAN,
   read_byte_val : BOOLEAN, data_read : Data]

SpiType ==
  /\ ctl \in [Chips -> Controls]
  /\ \A c \in Chips : ctl[c].init_address \in DOMAIN InitMem[c]
  /\ init \in [Chips -> BOOLEAN]
  /\ inst \in [Chips -> Words]
  /\ flight \in [Chips -> {"free", "set", "out"}]
  /\ rx \in [Chips -> [rw : 0..1, addr : Addrs]]
  /\ reg \in [Chips -> [Addrs -> Values \cup {Junk}]]
  /\ pll \in BOOLEAN
  /\ dataout \in Data
=============================================================================
