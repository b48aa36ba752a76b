------------------------------ MODULE BoardInit ------------------------------
(***************************************************************************)
(* The bring-up of the board: main and init_platform (main.c, platform.c)  *)
(* with the functions of init.c, on top of the SPI hardware of FmcSpi.     *)
(*                                                                         *)
(* pc.at is where the program is and, during read_fmc150_register, pc.step *)
(* the part of that function.  delay() is a wait until the SPI hardware is *)
(* quiet: its shortest use, delay(10), lasts 100000 clocks and a transfer  *)
(* about 1100.  Everything else may meet the hardware in any state.        *)
(***************************************************************************)
EXTENDS FmcSpi

CONSTANTS
  cdce72010_reg,          \* what the software writes to the cdce72010
  DivReg,                 \* the register with the output divider, 2
  ModeReg,                \* the ads62p49 register of the speed mode, 0x20
  FastDivs,               \* dividers that leave more than 80 MSPS
  HighSpeed, LowSpeed,    \* the two modes
  DelayFor,               \* the input delay for each divider
  MAX_PLL_LOCK_TRIES,
  MAX_MMCM_LOCK_TRIES

CDCE72010_NUMREG == Cardinality(DOMAIN cdce72010_reg)
CDCE72010 == 1
ADS62P49 == 2

ASSUME BoardAssumption ==
  /\ NChips > 1
  /\ CDCE72010_NUMREG \in Nat \ {0}
  /\ DOMAIN cdce72010_reg = 0..(CDCE72010_NUMREG - 1)
  /\ DOMAIN cdce72010_reg \subseteq Addrs
  /\ \A a \in DOMAIN cdce72010_reg : cdce72010_reg[a] \in Values
  /\ DivReg \in DOMAIN cdce72010_reg
  /\ ModeReg \in Addrs
  /\ {HighSpeed, LowSpeed} \subseteq Values
  /\ DelayFor \in [Values \cup {Junk} -> Nat \ {0}]
  /\ MAX_PLL_LOCK_TRIES \in Nat \ {0}
  /\ MAX_MMCM_LOCK_TRIES \in Nat \ {0}

VARIABLES
  pc,          \* [at, step]
  i,           \* the loop counter
  value,       \* what the last read returned
  adc_delay,   \* the register ADC_DELAY, 0 until it is written
  mmcm,        \* FPGA_ADC_CLK_LOCKED in FLAGS_OUT_0 (external)
  seenLock     \* history: the PLL was locked at some time since the last read began

softVars == <<pc, i, value, adc_delay>>
vars == <<spiVars, softVars, mmcm, seenLock>>

At(place) == [at |-> place, step |-> "-"]
Read(place) == [at |-> place, step |-> "check"]
Returned(place) == pc = [at |-> place, step |-> "done"]

Init ==
  /\ SpiInit
  /\ pc = At("reset")
  /\ i = 0
  /\ value = NoData
  /\ adc_delay = 0
  /\ mmcm = FALSE
  /\ seenLock = FALSE

-----------------------------------------------------------------------------
(* read_fmc150_register: the call at each place, and the loop around it *)
Chip(place) == IF place = "ads_back" THEN ADS62P49 ELSE CDCE72010
Addr(place) == CASE place \in {"before", "after"} -> i
                 [] place \in {"ads", "delay"} -> DivReg
                 [] place = "ads_back" -> ModeReg
                 [] place = "ext" -> LockReg

Calls == {"before", "after", "ads", "ads_back", "delay", "ext"}

ReadCheck ==
  /\ pc.step = "check"
  /\ pc' = [pc EXCEPT !.step = IF busy THEN "retry" ELSE "issue"]
  /\ UNCHANGED <<spiVars, i, value, adc_delay, seenLock>>

ReadRetry ==
  /\ pc.step = "retry"
  /\ Quiet
  /\ pc' = [pc EXCEPT !.step = "check"]
  /\ UNCHANGED <<spiVars, i, value, adc_delay, seenLock>>

ReadIssue ==
  /\ pc.step = "issue"
  /\ Issue(Chip(pc.at), 1, Addr(pc.at), Junk)
  /\ pc' = [pc EXCEPT !.step = "wait"]
  /\ seenLock' = pll
  /\ UNCHANGED <<i, value, adc_delay>>

MutNoWait == TRUE
Waited == Quiet    \* delay(10) before DATAOUT is read

ReadDone ==
  /\ pc.step = "wait"
  /\ Waited
  /\ value' = dataout
  /\ pc' = [pc EXCEPT !.step = "done"]
  /\ UNCHANGED <<spiVars, i, adc_delay, seenLock>>

-----------------------------------------------------------------------------
(* main and init_platform *)
Goto(place) ==
  /\ pc' = place
  /\ UNCHANGED <<spiVars, seenLock>>

(* The program starts.  Timing assumption: it is loaded into the DDR       *)
(* memory long after the FPGA, and with it the init chain, has started.    *)
Boot ==
  /\ pc = At("reset")
  /\ Quiet
  /\ Goto(At("dma"))
  /\ UNCHANGED <<i, value, adc_delay>>

(* XAxiDma_CfgInitialize, twice; either may fail. *)
InitDma ==
  /\ pc = At("dma")
  /\ \/ Goto(Read("before"))
     \/ Goto(At("failed"))
  /\ UNCHANGED <<i, value, adc_delay>>

(* init_cdce72010: each register is read, written, and read again *)
WriteReg ==
  /\ Returned("before")
  /\ Issue(CDCE72010, 0, i, cdce72010_reg[i])
  /\ pc' = At("pause")
  /\ UNCHANGED <<i, value, adc_delay, seenLock>>

MutNoPause == pc = At("pause")
Paused == pc = At("pause") /\ Quiet

ReadBack ==
  /\ Paused
  /\ Goto(Read("after"))
  /\ UNCHANGED <<i, value, adc_delay>>

NextReg ==
  /\ Returned("after")
  /\ i' = (i + 1) % CDCE72010_NUMREG
  /\ Goto(Read(IF i + 1 < CDCE72010_NUMREG THEN "before" ELSE "ads"))
  /\ UNCHANGED <<value, adc_delay>>

(* init_ads62p49: no delay between the write and the read that follows *)
SpeedMode(div) == IF div \in FastDivs THEN HighSpeed ELSE LowSpeed

SetMode ==
  /\ Returned("ads")
  /\ Issue(ADS62P49, 0, ModeReg, SpeedMode(value.val))
  /\ pc' = Read("ads_back")
  /\ UNCHANGED <<i, value, adc_delay, seenLock>>

ModeDone ==
  /\ Returned("ads_back")
  /\ Goto(Read("delay"))
  /\ UNCHANGED <<i, value, adc_delay>>

(* init_fmc150_delay *)
SetDelay ==
  /\ Returned("delay")
  /\ adc_delay' = DelayFor[value.val]
  /\ Goto(At("mmcm"))
  /\ UNCHANGED <<i, value>>

MutOneTryMore ==
  /\ pc = At("mmcm")
  /\ \/ mmcm /\ i' = 0 /\ Goto(At("ext_pause"))
     \/ /\ ~mmcm
        /\ i' = i + 1
        /\ Goto(IF i' <= MAX_MMCM_LOCK_TRIES THEN pc ELSE At("failed"))
  /\ UNCHANGED <<value, adc_delay>>

check_mmcm_lock ==
  /\ pc = At("mmcm")
  /\ \/ mmcm /\ i' = 0 /\ Goto(At("ext_pause"))
     \/ /\ ~mmcm
        /\ i' = i + 1
        /\ Goto(IF i' < MAX_MMCM_LOCK_TRIES THEN pc ELSE At("failed"))
  /\ UNCHANGED <<value, adc_delay>>

(* check_ext_lock: delay, read, and again after a longer delay *)
ExtPause ==
  /\ pc = At("ext_pause")
  /\ Quiet
  /\ Goto(Read("ext"))
  /\ UNCHANGED <<i, value, adc_delay>>

MutLastTryPasses == value.lock \/ i + 1 = MAX_PLL_LOCK_TRIES
LockSeen == value.lock

ExtChecked ==
  /\ Returned("ext")
  /\ \/ LockSeen /\ i' = 0 /\ Goto(At("kernel"))
     \/ /\ ~LockSeen
        /\ i' = i + 1
        /\ Goto(At(IF i' < MAX_PLL_LOCK_TRIES THEN "ext_pause" ELSE "failed"))
  /\ UNCHANGED <<value, adc_delay>>

(* xilkernel_main runs main_thread, which starts network_thread. *)
network_thread ==
  /\ pc = At("kernel")
  /\ \/ Goto(At("serving"))
     \/ Goto(At("nonet"))     \* xemac_add failed
  /\ UNCHANGED <<i, value, adc_delay>>

-----------------------------------------------------------------------------
Software ==
  /\ \/ ReadCheck \/ ReadRetry \/ ReadIssue \/ ReadDone
     \/ Boot \/ InitDma \/ WriteReg \/ ReadBack \/ NextReg
     \/ SetMode \/ ModeDone \/ SetDelay \/ check_mmcm_lock
     \/ ExtPause \/ ExtChecked \/ network_thread
  /\ UNCHANGED mmcm

Clk(vals) == SerialClk(vals) /\ UNCHANGED <<softVars, mmcm, seenLock>>
Ack(c) == Release(c) /\ UNCHANGED <<softVars, mmcm, seenLock>>
Pll == PllChange /\ seenLock' = (seenLock \/ pll') /\ UNCHANGED <<softVars, mmcm>>
Mmcm == mmcm' = ~mmcm /\ UNCHANGED <<spiVars, softVars, seenLock>>

Next ==
  \/ Software
  \/ \E vals \in SUBSET Chips : Clk(vals)
  \/ \E c \in Chips : Ack(c)
  \/ Pll
  \/ Mmcm

Spec == Init /\ [][Next]_vars

(* The clocks run, an instruction pulse crosses, and so does its answer;   *)
(* the processor executes the program.                                     *)
Fairness ==
  /\ WF_vars(Software)
  /\ WF_vars(\E vals \in SUBSET Chips : Clk(vals))
  /\ \A c \in Chips : WF_vars(\E vals \in SUBSET Chips : c \in vals /\ Clk(vals))
  /\ \A c \in Chips : WF_vars(Ack(c))

FairSpec == Spec /\ Fairness

-----------------------------------------------------------------------------
(* The registers of the SPI hardware keep their widths, no init address    *)
(* leaves its memory, and the bounded loops of init.c stay within bounds.  *)
TypeOK ==
  /\ SpiType
  /\ pc \in [at : Calls, step : {"check", "retry", "issue", "wait", "done"}]
            \cup {At(p) : p \in {"reset", "dma", "pause", "mmcm", "ext_pause",
                                 "kernel", "serving", "nonet", "failed"}}
  /\ i \in 0..Max({CDCE72010_NUMREG - 1, MAX_PLL_LOCK_TRIES, MAX_MMCM_LOCK_TRIES})
  /\ value \in Data
  /\ adc_delay \in {0} \cup {DelayFor[v] : v \in DOMAIN DelayFor}
  /\ mmcm \in BOOLEAN
  /\ seenLock \in BOOLEAN

(* Never are two devices selected on the one SPI bus, neither while the    *)
(* init chain of fmc150_spi_ctrl.vhd hands over from a device to the next  *)
(* nor while the software works: the bus multiplexer would feed one device *)
(* the other's clock and data.                                             *)
OneChipSelected == \A c, d \in Chips : ~ctl[c].ncs /\ ~ctl[d].ncs => c = d

(* When a controller reports init_done every entry of its init memory has  *)
(* reached its device, in the order of the memory, until the software      *)
(* starts to write: none is overtaken by the load of the next one, and     *)
(* done, set with the load of the last entry, does not end the init early. *)
InitMemoryLoaded ==
  \A c \in Chips :
    ctl[c].init_done /\ pc = At("reset") =>
      \A k \in DOMAIN InitMem[c] :
        (\A m \in DOMAIN InitMem[c] : m > k => InitMem[c][m].addr # InitMem[c][k].addr)
          => reg[c][InitMem[c][k].addr] = InitMem[c][k].data

(* Every read of the cdce72010 returns what the register asked for holds:  *)
(* not the word of an earlier read left in DATAOUT, nor a word garbled by  *)
(* an instruction still on its way ("Do a write-read cycle in order to     *)
(* ensure that we wrote the correct value").                               *)
ReadIsGenuine ==
  pc.step = "done" /\ Chip(pc.at) = CDCE72010
    => value.val = reg[CDCE72010][Addr(pc.at)]

(* The server only starts with a clock chip that holds the whole table of  *)
(* the software and an input delay that fits its divider.                  *)
ServingConfigured ==
  pc.at = "serving" =>
    /\ \A a \in DOMAIN cdce72010_reg : reg[CDCE72010][a] = cdce72010_reg[a]
    /\ adc_delay = DelayFor[cdce72010_reg[DivReg]]

(* The server only starts if the PLL was seen locked while the last read   *)
(* of the lock register was under way: the check takes no older answer.    *)
ServingMeansLocked == pc.at \in {"kernel", "serving", "nonet"} => seenLock

(* The bring-up ends: the init chain completes, no loop on a busy SPI bus  *)
(* runs forever, and the loops on the locks are bounded.                   *)
BootEnds == <>(pc.at \in {"serving", "nonet", "failed"})

(* After init_ads62p49 the ADC is in the speed mode that fits its clock:   *)
(* "Enable low (< 80MSPS)/hi(>80MSPS) speed for the ADS62P49 depending on  *)
(* cdce72010 register values" (platform.c).                                *)
AdcModeSet ==
  Returned("ads_back") => reg[ADS62P49][ModeReg] = SpeedMode(cdce72010_reg[DivReg])
=============================================================================
