# TLA+ models of the BPM acquisition system

The repository holds a beam-position-monitor acquisition system for a Xilinx
ML605 board: FPGA cores that capture samples of the ADC and of the digital
down-converter (DDC), and a TCP server on a MicroBlaze soft processor that hands
them to MATLAB clients. This directory models the path of a sample from the
sampling clock to the socket and the bring-up of the board over its SPI bus,
checks both with TLC and proves their most delicate parts with TLAPS.

## The system

| Component | Source | State | Operations |
|---|---|---|---|
| dma_if, capture side | `dma_if.vhd` | trigger synchroniser, 22-bit counter, TLAST and write-enable registers, overflow counter | one edge of `data_clk_i` |
| dma_if, read side | `dma_if.vhd` | FIFO output register, four slots, two 2-bit counters, output register, completion toggle | one edge of `dma_clk_i` |
| status register | `dma_status_reg_synch.vhd` | synchronisers, two sticky bits | one edge of `bus_clk_i`, software clear |
| low-level operations | `low_level_op.c` | per channel `samples_count`, `samples_count_pos` | `capture_samples`, `get_samples`, register and LED accesses |
| server | `server.c`, `connection_server.c` | per connection: command, response, `remaining_bytes`, `error` | accept, receive, handle, send, close |
| AXI DMA engine and driver | vendored | idle/busy, length, destination memory | `XAxiDma_SimpleTransfer`, `XAxiDma_Busy` |
| data cache | `system.mhs`, `platform.c` | cached lines of the DMA buffers | read, replacement |
| SPI controllers | `fmc150_spi_ctrl.vhd`, `*_ctrl.vhd`, `fmc150_stellar_cmd.vhd` | per device: state, shift register, init address, init flags; one shared bus, `DATAOUT` | one edge of `serial_clk`, an instruction from the bus |
| pulse2pulse | `pulse2pulse.vhd` | a flag, three registers each way, output pulse | one edge of either clock |
| bring-up | `init.c`, `platform.c`, `main.c`, `dispatch.c` | loop counters, PLL/MMCM lock, threads | DMA drivers, clock chip, ADC mode, delay, lock checks, kernel, network |
| packing | `pack.c` | none | pure functions |
| DDC signal chain | `bpm_ddc_pipe.vhd`, ... | arithmetic pipelines | data only |
| MATLAB client | `scripts/*.m` | none | one command per connection |

The parts interact as follows. A connection thread receives a 16-byte command.
GET_SAMPLES calls `get_samples`, which serves what is left of the last capture
or calls `capture_samples`; that programs the DMA engine over the bus, then
writes the capture control register. Its start bit crosses into the sampling
clock, the capture side fills an asynchronous FIFO, the read side empties it
into the engine, the engine writes DDR memory. `get_samples` polls the engine,
and the thread sends the memory, packet by packet. Completion and overflow
cross back into the bus clock through the status register.

Before any of that, four controllers load their devices from init memories, one
after the other, over one SPI bus. Then the program starts: `init_platform`
writes the clock chip register by register, sets the ADC to the speed that the
clock's divider gives, sets the input delay, and waits a bounded time for two
locks. A register access is a handful of bus writes; the last one becomes a
pulse that crosses into the serial clock (`pulse2pulse`), where a controller
shifts the word out. A read polls nothing: it checks a busy flag, issues the
instruction, waits a fixed time and takes what `DATAOUT` holds.

What is hard: three clocks without a common order; back-pressure with two words
in flight; a FIFO at its limit on the very last sample; threads that share
handlers, engines and buffers without a lock; a poll that gives up while the
transfer goes on; clients that disappear between packets; errors half way
through `capture_samples`; counters and products that wrap; a start bit that
the other clock never sees; an instruction that is on its way while the busy
flag is still low; four controllers that must hand a bus over. `PROJECT.json`
lists each hazard at its line.

Correctness, component by component. Capture side: as many words as asked for,
consecutive from the trigger, TLAST on the last, every loss flagged. Read side:
an AXI stream, nothing lost, repeated or reordered. Status: no event lost, none
attributed to the wrong capture. Server: a command is answered once, with the
samples asked for, of one capture, intact; an error closes the connection; no
engine that never finishes hangs a thread; a command that no other connection
interferes with does not suffer from what they did before. pulse2pulse: a
pulse taken comes out once. SPI: one device selected at a time, init memories
loaded whole. Bring-up: reads return what was asked for, the server runs only on
a configured and locked clock, and the bring-up ends.

## Modules

* `DmaStream` - abstract specification of what dma_if promises the engine: three
  numbers (`written`, `offered`, `delivered`).
* `DmaOutput` - the read side, one operator per VHDL process, all of them fired
  together by `DmaClk(dma_ready_i)`. A register that holds a word holds its
  number, 0 when cleared. The FIFO (`words`, `visible`, `readPtr`, `fifo_do`) is
  external: a word written becomes visible to the reader some time later.
* `DmaOutputProofs` - its theorems.
* `DmaCapture` - the write side, one operator per process, fired together by
  `DataClk(data_valid_i)`. A sample is `<<c, k>>`, the k-th after the c-th
  trigger, so lost, repeated and foreign samples can be told apart.
* `DmaIf` - instantiates both sides on one FIFO and adds `capture_samples`
  (`StartTransfer`, `StartCapture`) and the engine, which is ready only while it
  has words to take and ends early on TLAST. `id` says whether the channel is the
  ADC (a sample on every clock) or the DDC (samples come and go, and software
  asks the hardware for one less). `Enable` is the weight of the enable bit above
  the sample count, 2^21 in the code. Four variables are history: `asked`, the
  words the requests asked for; `stalled`, the FIFO was full in a capture;
  `missed`, the start bit was set again before the sampling clock saw it
  cleared; `cut`, a transfer ended while its capture still had words to give.
* `DmaIfProofs` - its theorems.
* `DmaStatus` - the status register with its environment (clear, start, trigger,
  overflow, completion) in three clock domains.
* `DmaStatusProofs` - its theorems.
* `AcqServer` - the connection threads. `handle_request`, `capture_samples` and
  `get_samples` are cut where another thread can intervene: before and after the
  handler update, the busy check, the length write, the trigger, the poll, the
  position update, the reply and the send. `Conns` are the connections there can
  be at one time; any of them may name any channel, and a client that drops and
  comes back is another member of `Conns`, served while the thread of the old one
  still polls or sends. A thread ends in two steps, `RecvEnds` and `CloseSocket`.
  `buf` is an offset in a DMA buffer or `Wild`; a buffer is one mark per sample:
  `none`, `old`, `new` (of the newest transfer), `text`. `EngineDone` fills what the
  transfer was programmed with, or all but the last sample of a channel in
  `ShortChans` (the DDC, see `DmaIf`). `upset` holds the channels on which an engine
  and a capture may have come out of step: the length was written to a running
  engine, a trigger met an engine that was not waiting for it, or the FIFO
  overflowed; the words a transfer then brings are marked `old`. `sent`, `fresh`,
  `clean` and `disturbed` are history variables: `disturbed` holds the connections
  in whose current command another thread has changed the handler, the engine or
  the buffer of their channel. An int lies in `-IntHalf..(IntHalf - 1)`.
* `AcqServerProofs` - its theorems.
* `PulseTransfer` - abstract specification of a pulse crossing: free, taken, out.
* `Pulse2Pulse` - pulse2pulse.vhd register by register. An edge of either clock,
  or of both at once, is a step. `data` and `got` number the pulses by what the
  sender writes beside them and the receiver reads; `polite` records that the
  sender never pulsed while `inbusy` was high.
* `Pulse2PulseProofs` - its theorems.
* `FmcSpi` - the four controllers, one step per edge of `serial_clk` for all of
  them, with the shift registers (`ctl`), the init chain (`init`), the crossing
  of an instruction (`flight`, the states of `PulseTransfer`), the bus and, as
  external state, what the devices received (`rx`) and hold (`reg`). The word of
  a shift register is its content and how many bits have gone: loading it again
  on the way garbles the word.
* `BoardInit` - main, init_platform and the functions of init.c on top of
  `FmcSpi`. `read_fmc150_register` is cut in check, issue, wait and done, so that
  every other bus access meets the serial clock in any state. `seenLock` records
  that the PLL was locked since the last read began.
* `BoardInitProofs` - theorems about `BoardInit` and the hardware of `FmcSpi` under
  it.
* `MC*.tla` and `*.cfg` - instances for TLC. Operators named `Mut...` are
  faulty variants of the definition that follows them; nothing uses them, they
  record which fault each property detects.

What the models assume of the code around them:

* Reset is system-wide, so the reset values are the initial states.
* A capture outlasts the three stages of the status synchroniser (`Complete`).
* The init chain is over when the program starts (`Boot`): it takes a few
  thousand clocks from configuration on, and the program is loaded into DDR
  memory later by a debugger or a boot loader.
* `delay(n)` outlasts a transfer (`Quiet`): the shortest, delay(10), is 100000
  iterations, the longest transfer about 1100 clocks. Without a delay nothing is
  assumed: the busy flag rises 55 to 70 clocks after the write of `CHIPSELECT`,
  the next check comes 30 to 50 clocks after it.
* The part of an instruction that happens on the bus clock is over before the
  next bus access (`Issue`).
* Writing through an uninitialised `buf` that is not the address left by an
  earlier connection on the same stack changes none of the modelled state.
* In `AcqServer` a finished transfer has filled the length programmed, or all of
  it but the last sample of the DDC; `DmaIf` shows that this is so while the FIFO
  has room and captures come in turn. Where they do not (`upset`) nothing is
  assumed of the words, and an engine may end on words left over before its own
  capture begins. Statements about contents are about memory: what the
  processor's data cache shows instead is outside the models (see below).
* The `close` of `connection_server.c:104` closes nothing: that file includes no
  header of lwIP, so it calls the C library's stub (`connection_server.o` refers
  to `close`, `server.o` to `lwip_close`). A socket is closed once, by
  `server.c:421` (`CloseSocket`).
* The wait of `get_samples` may end at any time while the engine is busy.

## Runs that pass

| Run | Shows | Bounds |
|---|---|---|
| `dma_output` | type, at most two words in flight, order, completion counting, bus stability, refinement of `DmaStream`, delivery of every word | FIFO of 3, 6 words: the two-bit counters wrap once and every slot is reused |
| `dma_if` | ADC: exact count even with losses, exact samples and TLAST while the FIFO has room, transfers that then take all their words, and an end to every transfer, overflow or not, unless an earlier one was cut short. DDC: at most one word short, never one too many, and transfers that end while the FIFO has room. A request whose start bit was missed yields nothing and disturbs nothing. The read side's environment is as `DmaOutput` assumes | FIFO of 2, ADC captures of 1 and 4, DDC captures of 2 and 3, two in a row: shorter and longer than the FIFO; samples are told apart up to the fifth after the trigger, one more than a capture has |
| `dma_status` | completions and overflows are shown, and stay until cleared | finite as it is |
| `server_one` | a GET_SAMPLES with its own capture is answered exactly, but for the last sample of the DDC; any other within a packet of what it asked for; packets within their size; every command ends, unless the client keeps the connection and stops reading | one connection at a time on the DDC, all commands, values 0, 1, 3 = maximum, 4 = invalid, 8 = wraps; packets of 2, so 3 samples take two; a text covers two samples |
| `server_shared` | two connections on one channel: exact answers and settled captures for every command that the other thread does not interfere with while it runs, whatever happened before; a start on a running engine takes another thread between check and write; position and count of the channel at most one packet apart per further connection | GET_SAMPLES, of captures of 2 in packets of 1, with engines that a poll or another thread abandons (with CAPTURE as well TLC takes three times as long and finds nothing either; the theorems have every command); the connections are interchangeable (symmetry), and either may drop and come back beside the other |
| `pulse` | refinement of `PulseTransfer` with its liveness, one front in the ring of registers, no data used twice, nothing lost by a polite sender | 6 pulses: several rounds of the ring, with pulses that are swallowed and data that is overwritten on the way |
| `bringup` | one device selected at a time, init memories loaded whole, reads of the clock chip genuine, the server only on a configured clock chip that was seen locked, an end to every bring-up | four controllers with three registers, words of 2 + 3 bits (a word must outlast the three edges a hand-over takes, as the real ones do), two tries for each lock |

Deadlock is checked except in `dma_if`, whose bounded number of captures and
words lets it stop.

Fairness: clocks tick (`Sync`, `SyncRd`, `SyncWr`, `DataClk`, `DmaClk`, `Tick`); the
engine is ready again and again while a transfer is programmed (`DmaClk(TRUE)`),
which is how the S2MM channel drains into DDR memory; a DDC sample is valid
again and again (strong fairness, since clocks without one are possible in
between); `capture_samples` finishes; xilkernel, with time slices at one
priority, runs every runnable connection thread. A thread in `sendall` is not one
of them while its client is there but does not read: `lwip_send` waits for it
without a timeout, so this wait (`InSend`) is excluded from fairness, and
`CommandEnds` and `ErrorClosesSocket` except a thread that stays in it for ever;
once the client has gone, the send fails or is over. Both clocks of a pulse2pulse
run; the serial clock runs, an instruction pulse and its acknowledgement cross,
and the processor goes on with `init_platform`. Clients and, in `AcqServer`,
the engine owe nothing: the bounded poll ends the command. Senders of pulses,
the PLL and the MMCM owe nothing either.

## Runs that show a disagreement

Each checks one statement of a comment, a message or the client's documentation
that the code does not keep; `PROJECT.json` quotes it.

* `dma_if_loss` - the FIFO fills up on the last sample: sample and TLAST are lost
  and the overflow flag stays low.
* `dma_status_stale` - the previous capture's overflow is reported again.
* `server_no_close` - after an error the connection stays open and mute.
* `server_text` - a reply's text is written over samples.
* `bringup_ads` - init_ads62p49 reads the mode register straight after writing
  it; the read passes the busy check because the write has not reached the
  serial clock yet, replaces the instruction or reloads the shift register, and
  the mode does not arrive in the ADC.

Limits of what the passing runs say, all visible in the same models under other
constants:

* a DDC capture is one word short when a sample is valid at the trigger, which
  the comment "Workaround" of `low_level_op.c:170` hints at; `ShortByAtMostOne`
  states what remains true;
* a request whose start bit the sampling clock misses never ends
  (`TransferEnds` excepts it): no handshake protects the two writes of
  `capture_ctl_reg` if that clock stands still;
* a full FIFO can give TLAST to a word before the last, which ends the transfer
  with words still to come. The next transfer begins with those words, and a
  TLAST among them ends it at once; software may then start a third capture
  while the second one runs, whose trigger the counter ignores, or whose start
  bit is never seen low. `cut` records that a transfer ended early: `CountIsExact`,
  `ShortByAtMostOne` and `TransferEnds` speak of what comes before (three requests
  and a `Depth` of 2 show the rest; `MCDmaIf.cfg` has two);
* a DDC capture of one sample loads a count of 0, which wraps when a sample is
  valid at the trigger (`SampleCounts` with 1);
* a DDC capture that is one word short and loses its TLAST to a full FIFO leaves
  the engine waiting for ever (`Depth` of 2), after which every `get_samples` of
  the channel times out;
* two connections on one channel, or one client that comes back while its old
  thread polls, share position, engine and buffer without a lock. Both can pass
  the busy check of `XAxiDma_SimpleTransfer`, both can take the same samples, and
  one can restart the engine while the other sends. What a command is given in
  whose course that happens (`disturbed`) is not claimed, beyond
  `OvershootWithinPacket`, `OverrunIsBounded` and the types; nor are the contents of
  later captures on a channel that it left out of step (`upset`), only their
  number. Without these two exceptions TLC finds the interference in a dozen steps;
* the last sample of a DDC answer may be one of an earlier transfer, since the
  transfer may be one word short;
* a refused capture has already replaced `samples_count`, so a later GET_SAMPLES
  may be given memory that no transfer has filled (`FreshGetIsExact` is about
  captures a command starts itself);
* GET_SAMPLES 0, or a value whose byte count wraps to zero or below, gets no
  answer: the loop of `server.c:379` is never entered;
* the DMA buffers lie in the cached range of `system.mhs` and nothing
  invalidates the cache, so the processor may read lines of an earlier transfer.

## Proofs

`DmaOutputProofs` proves, for every FIFO depth, every bound on the number of
words and every data set (assumptions `DepthAssumption`, `MaxWordsAssumption`):

* `TypeCorrect`: `Spec => []TypeOK`;
* `BufferNeverOverruns`: `Spec => [](AtMostTwoInFlight /\ InOrder)`, the claim
  the comment at `dma_if.vhd:331` makes for the two-bit counters;
* `WordsStayInOrder`: `Spec => []InOrder`;
* `ToggleCountsTransfers`: `Spec => []CompleteCountsLast`, by the cardinality of
  the set of delivered last words, which a step extends by at most one;
* `BusIsStable`: `Spec => OfferedIsStable`;
* `ImplementsStream`: `Spec => StreamSpec`.

The bound alone is not inductive: whether a third word can enter depends on the
output register and on which slots are really cleared. The invariant
`IInv == TypeOK /\ AtMostTwoInFlight /\ InOrder` adds where each word in flight
is, and `dma_output` checks its three conjuncts. The two-bit arithmetic is isolated in the
lemmas `TwoBitNext` and `TwoBitDiff`; `DmaClkType`, `DmaClkBound` and
`DmaClkOrder` give one conjunct each for the clock edge, the only action that
disturbs them, and `FifoOrder` covers the others.

`DmaStatusProofs` proves `TypeCorrect` and `CompletionIsKept`,
`Spec => []CompletionNotLost`. That invariant is inductive with the types: the
lemma `BusClkKeepsCompletion` follows a toggle through the three stages, the
detector and the sticky bit, and is the only argument the bus clock's actions
need; the other actions leave those registers alone or clear `completed`.

`Pulse2PulseProofs` proves, for any number of pulses: `TypeCorrect`,
`FrontIsKept` (`[]OneFront`), `PulseDataIsNew` (`[]PendingIsNew`),
`PoliteLosesNothing` (`[]NoneSkipped`), `DataUsedOnce` (`NeverTwice`) and
`ImplementsTransfer` (`Spec => TransferSpec`). That a pulse is not seen twice
depends on all eight registers of the ring: `OneFront` says that ones and zeros
never alternate in it, with the one exception that the last register may lag
when a pulse is taken the moment `inbusy` falls. `PendingIsNew` adds the data.
The conjunction `IInv == TypeOK /\ OneFront /\ PendingIsNew` is inductive; the
lemmas `InClkFront`, `OutClkFront` and `BothClkFront` treat one clock each.

`DmaIfProofs` proves of a whole channel, for every `Enable`, FIFO depth, set of
sample counts and number of requests (assumption `CaptureAssumption`):

* `DrivesReadSide` (`Spec => OutSpec`): capture side, software and engine together
  drive the read side as `DmaOutput` assumes, step by step. So every theorem of
  `DmaOutputProofs` holds of the channel (`ReadSideHolds` takes the types and the
  order of the words from there);
* `ChannelTypes` (`[]TypeOK`), from `WriteSide`: the types need to know that no
  more triggers are on their way in the synchroniser than requests were made
  (`Triggers`) and that the FIFO keeps its depth (`FifoRoom`);
* `CountsAreExact` (`[]CountIsExact`) and `NeverOneMore` (`[]ShortByAtMostOne`), from
  `Flow`: while no transfer was cut short a channel is in one of a few phases
  (`Steady`, `Falling`, `Waiting` for the trigger, capturing), and words written plus
  words still to write are the words due (`Balance`). Samples may be lost on the
  way; the count includes the words that replace them;
* `TransfersTakeAll` (`[]TransferTakesAll`), from `Unstalled`: as long as the FIFO
  never filled up a word with TLAST has nothing behind it and the engine was
  programmed for at least what comes;
* `CapturesAreExact` (`[]CapturesWhatWasAsked`), from `Content`: the counter and the
  source of samples keep step (`InStep`).

The two theorems about the DDC assume `TwoOrMore`: a DDC capture of one sample
asks the counter for zero, and whether that wraps depends on the sample at the
trigger. Nothing in the software excludes such a capture; it is in the list
above. The search for `Flow` is what brought the case of `cut` to light: without
it the invariant was not inductive, and TLC then showed the three requests that
break it.

`AcqServerProofs` proves, for any number of connections and channels, whatever
channels the connections share, and all sizes (`ServerAssumption`,
`SizeAssumption`):

* `TypeCorrect` (`[]TypeOK`) and `AnswerIsBounded` (`[]OvershootWithinPacket`), for every
  command. They rest on `Places`: what a thread's place says of its command, and
  that bytes sent and bytes left make up what `prepare_to_handle` computed, 32-bit
  wrap included;
* `SettledCapturesSent` (`[]SendsSettledCapture`), `StartsIdleEngine`
  (`SubmitsOnlyWhenIdle`) and `FreshGetExact` (`[]FreshGetIsExact`), for every command that is not `disturbed`. Their invariant
  `Channels` says of such a command that the engine stands still where its memory
  is used (`Settled`), that what `get_samples` is about to take lies in the capture
  (`Within`), how far a GET_SAMPLES with its own capture has come (`Exact`), and,
  while the channel is not `upset`, which samples lie in its buffer (`Contents`).

Nothing in the code keeps two threads off one channel, so nothing is assumed of
it. A step of one thread leaves the channel of another's command alone or marks
the command as disturbed (`OthersUndisturbed`), and a command starts undisturbed
with nothing known of the channel (`OwnedReset`): this is what makes `Channels`
inductive without a word on what other connections did before. The engine's step
is the one other thing that can change the buffer under a command
(`OwnedEngine`); `EngineFills` says what it brings, the short DDC transfer included.

`BoardInitProofs` proves every safety property of the bring-up, for any number of
chips, any split of a word, any init memories whose last entry and no other has
the last address, and any register table (`SpiAssumption`, `BoardAssumption`):
`BoardTypes`, `OneDevice` (`[]OneChipSelected`), `InitLoads` (`[]InitMemoryLoaded`),
`GenuineReads` (`[]ReadIsGenuine`), `Configured` (`[]ServingConfigured`) and `LockWasSeen`
(`[]ServingMeansLocked`). One invariant, `Inv`, carries all of them:

* `Shape` and `Settled`, of each controller at any time: the states it can be in
  with the counter and the position of the shift register that go with them;
* before the program starts, `Booting` and `Chain`: the entry on its way was loaded
  whole (position plus edges left are the word), the entries before it are in
  the device, the init flag falls while the last one is sent, and a chip waits
  for those before it;
* afterwards, `Running`: every chip but the one of the last access is at rest, and
  that access is in one of the stages of `Access`: pulse on its way, word going
  out, answer coming in, answer in the controller, answer in `DATAOUT`. That a word
  is not garbled follows from the delays of the software (`Quiet`), which is why
  the invariant fails to say anything of the ADC chip where they are missing
  (`ads_back`, the run `bringup_ads`).

`SerialClk` is the hard step: `EdgeFields` gives the registers after an edge, and
`BootLoad`, `BootSend`, `AccessAccept`, `AccessSend` and `AccessFetch` treat a stage each.
The steps of the software are short with `Issues` (an instruction for an idle
chip) and `Goes` (going on with nothing under way).

TLC has checked each of these invariants on the constants of the corresponding
run before the proof (`Flow`, `Unstalled` and `Content` also with three requests).

Only model-checked: liveness (`EveryWordDelivered`, `TransferEnds`, `CompletionShown`,
`OverflowShown`, `CommandEnds`, `TransferLive`, `BootEnds`), since fairness and `ENABLED`
are outside the prover's reach, the properties that the code violates, and `OverrunIsBounded`, whose invariant
needs a sum over the connections that are about to take samples. Every other property that a run checks is a theorem.

## Not modelled

* Packing and framing of messages (`pack.c`): one observation, listed as a hazard.
* READ and WRITE commands of several connections on the SPI registers: nothing
  in the code serialises them, and `bringup_ads` shows what one thread already
  does to itself.
* The GLOBAL register of each SPI controller and the mailbox of
  `fmc150_stellar_cmd`, which no software of the repository addresses;
  `enable_ext_clk`, `dump_cdce72010_regs` and `calibrate_adc_delay`, which nothing
  calls; a program that starts while the init chain still runs.
* The DDC arithmetic and the ADC/DAC pins (data paths in vendor primitives); the
  data cache; register decoding; debug printing; thread and socket table limits.
* lwIP, xilkernel, the Xilinx drivers and the generated cores: vendored, some
  150000 of the repository's lines, modelled only as the code uses them.

## Plan

1. Done: the sample path - `DmaOutput`, `DmaCapture`, `DmaIf`, `DmaStatus`,
   `AcqServer`; the board - `Pulse2Pulse`, `FmcSpi`, `BoardInit`.
2. Done: every safety and action property of the passing runs proved but one
   (see "Only model-checked").
3. Next: an abstract acquisition channel (a request yields its words, in order,
   and then an idle engine) that the unstalled ADC channel of `DmaIf` implements;
   an abstract register access (ask, answer) for `BoardInit`, implemented by
   `read_fmc150_register` with the SPI hardware.
4. If time allows: an abstract acquisition service that `AcqServer` implements for
   commands that are not disturbed and start their own capture; `OverrunIsBounded`
   by induction over the connections; `Framing` (`pack.c`
   against the header's num).
