------------------------------ MODULE AcqServer ------------------------------
(***************************************************************************)
(* The acquisition server: one thread per connection runs                  *)
(* process_client_request (server.c), which receives a command, calls      *)
(* handle_request and sends one response packet per call until the bytes   *)
(* of the command are used up.  The threads share, without a lock, the two *)
(* low_level_handlers (low_level_op.c), the AXI DMA engines and the DMA    *)
(* buffers in DDR memory.  Any connection may name any channel, and a      *)
(* client that drops and comes back is a new connection, served beside the *)
(* thread of the old one.                                                  *)
(*                                                                         *)
(* Data is abstracted to what the properties need: a DMA buffer is one     *)
(* mark per sample, a message has no text, a register no value.            *)
(***************************************************************************)
EXTENDS Integers, FiniteSets

CONSTANTS
  Conns,         \* connections, each with its thread, at the same time
  Chans,         \* acquisition channels: the ADC, the DDC
  ShortChans,    \* channels that may leave out the last sample: the DDC
  Ops,           \* commands that clients send, a subset of AllOps
  Vals,          \* values of a command's val field
  MaxSamples,    \* comm_attr.max_samples
  MaxPacket,     \* max_resp_buffer_packets
  SampleSize,    \* bytes of a sample
  MsgSamples,    \* samples a text message covers when it is written over them
  IntHalf        \* an int lies in -IntHalf..(IntHalf - 1): 2^31

AllOps == {"CAPTURE", "GET_SAMPLES", "READ", "WRITE", "UNSUPPORTED"}

ASSUME ServerAssumption ==
  /\ Ops \subseteq AllOps
  /\ ShortChans \subseteq Chans
  /\ Vals \subseteq Nat
  /\ MaxSamples \in Nat \ {0}
  /\ MaxPacket \in Nat \ {0}
  /\ SampleSize \in Nat \ {0}
  /\ MsgSamples \in Nat \ {0}
  /\ IntHalf \in Nat \ {0}

(* low_level_op.h: the largest acquisition and a packet, counted in bytes, *)
(* are small for an int; a client's val need not be.                       *)
ASSUME SizeAssumption ==
  /\ MaxSamples * SampleSize < IntHalf
  /\ MaxPacket * SampleSize < IntHalf

VARIABLES
  \* one process_client_request thread per connection
  conn,       \* the socket: "closed" | "open" | "gone": the peer has gone
  pc,         \* where the thread is
  cmd,        \* command_packet_r
  remaining_bytes,
  error,
  resp,       \* response_packet_s: comm and num, in samples for a data packet
  buf,        \* response_packet_s.buf, uninitialised until GET_SAMPLES sets it
  want,       \* *size in get_samples, 0 once it has been used
  \* shared
  samples_count, samples_count_pos,   \* of the low_level_handlers
  engine,     \* the S2MM channel: "idle" | "armed" | "running" (external)
  len,        \* the transfer it is programmed with, in samples (external)
  mem,        \* the DMA buffers: one mark per sample
  upset,      \* channels whose engine and capture may be out of step, because
              \* one was started out of turn or the FIFO was full (external)
  \* history
  sent,       \* samples sent for the current command
  fresh,      \* the current GET_SAMPLES found the handler used up
  clean,      \* its samples were consecutive and all of the newest transfer
  disturbed   \* connections in whose command another thread has changed the
              \* handler, the engine or the buffer of the channel it names

threadVars == <<conn, pc, cmd, remaining_bytes, error, resp, buf, want>>
sharedVars == <<samples_count, samples_count_pos, engine, len, mem, upset>>
historyVars == <<sent, fresh, clean, disturbed>>
vars == <<threadVars, sharedVars, historyVars>>

Commands == [op : Ops, ch : Chans, val : Vals]
NoCommand == [op |-> "NONE", ch |-> CHOOSE ch \in Chans : TRUE, val |-> 0]
NoResp == [comm |-> "UNINITIALISED", num |-> 0]
Wild == [ch |-> CHOOSE ch \in Chans : TRUE, off |-> -1]
Responses == [comm : {"UNINITIALISED", "MESSAGE", "REGISTER", "NEW_DATA",
                      "REMAINING_DATA"},
              num : 0..MaxPacket]
Marks == {"none", "old", "new", "text"}
PCs == {"recv", "handle", "cap_set", "cap_check", "cap_go", "cap_trig", "poll",
        "advance", "ok", "fail", "send", "close"}

Init ==
  /\ conn = [c \in Conns |-> "closed"]
  /\ pc = [c \in Conns |-> "recv"]
  /\ cmd = [c \in Conns |-> NoCommand]
  /\ remaining_bytes = [c \in Conns |-> 0]
  /\ error = [c \in Conns |-> FALSE]
  /\ resp = [c \in Conns |-> NoResp]
  /\ buf = [c \in Conns |-> Wild]
  /\ want = [c \in Conns |-> 0]
  /\ samples_count = [ch \in Chans |-> 0]
  /\ samples_count_pos = [ch \in Chans |-> 0]
  /\ engine = [ch \in Chans |-> "idle"]
  /\ len = [ch \in Chans |-> 0]
  /\ mem = [ch \in Chans |-> [i \in 0..(MaxSamples - 1) |-> "none"]]
  /\ upset = {}
  /\ sent = [c \in Conns |-> 0]
  /\ fresh = [c \in Conns |-> FALSE]
  /\ clean = [c \in Conns |-> FALSE]
  /\ disturbed = {}

-----------------------------------------------------------------------------
(* Connections. *)

(* server_application_thread accepts and spawns a thread, whatever the     *)
(* others are doing.  Its local buf is not initialised: on a stack used    *)
(* before it is the address the earlier connection left there, else it     *)
(* points nowhere that matters.                                            *)
Accept(c) ==
  /\ conn[c] = "closed"
  /\ conn' = [conn EXCEPT ![c] = "open"]
  /\ \E b \in {Wild, buf[c]} : buf' = [buf EXCEPT ![c] = b]
  /\ UNCHANGED <<pc, cmd, remaining_bytes, error, resp, want, sharedVars,
                 historyVars>>

(* The client closes its socket, at any time. *)
Disconnect(c) ==
  /\ conn[c] = "open"
  /\ conn' = [conn EXCEPT ![c] = "gone"]
  /\ UNCHANGED <<pc, cmd, remaining_bytes, error, resp, buf, want, sharedVars,
                 historyVars>>

(* recv_command_packet reports the end of the stream or an error: the loop *)
(* is left.  The close it calls at the end of the stream is the C          *)
(* library's, which does nothing (connection_server.c includes no header   *)
(* of lwIP): the socket stays open,                                        *)
RecvEnds(c) ==
  /\ conn[c] = "gone"
  /\ pc[c] = "recv"
  /\ pc' = [pc EXCEPT ![c] = "close"]
  /\ UNCHANGED <<conn, cmd, remaining_bytes, error, resp, buf, want, sharedVars,
                 historyVars>>

(* until the thread closes it and ends; buf stays behind on its stack.     *)
CloseSocket(c) ==
  /\ pc[c] = "close"
  /\ pc' = [pc EXCEPT ![c] = "recv"]
  /\ conn' = [conn EXCEPT ![c] = "closed"]
  /\ cmd' = [cmd EXCEPT ![c] = NoCommand]
  /\ remaining_bytes' = [remaining_bytes EXCEPT ![c] = 0]
  /\ error' = [error EXCEPT ![c] = FALSE]
  /\ resp' = [resp EXCEPT ![c] = NoResp]
  /\ want' = [want EXCEPT ![c] = 0]
  /\ sent' = [sent EXCEPT ![c] = 0]
  /\ fresh' = [fresh EXCEPT ![c] = FALSE]
  /\ clean' = [clean EXCEPT ![c] = FALSE]
  /\ disturbed' = disturbed \ {c}
  /\ UNCHANGED <<buf, sharedVars>>

-----------------------------------------------------------------------------
(* process_client_request: the command loop. *)

Signed(x) == ((x + IntHalf) % (2 * IntHalf)) - IntHalf

prepare_to_handle(command) ==
  IF command.op = "GET_SAMPLES" THEN Signed(command.val * SampleSize) ELSE 1

(* while(remaining_bytes > 0 && !error) *)
Loop(remaining, err) == IF remaining > 0 /\ ~err THEN "handle" ELSE "recv"

RecvCommand(c, command) ==
  /\ pc[c] = "recv"
  /\ conn[c] = "open"
  /\ cmd' = [cmd EXCEPT ![c] = command]
  /\ remaining_bytes' = [remaining_bytes EXCEPT ![c] = prepare_to_handle(command)]
  /\ pc' = [pc EXCEPT ![c] = Loop(prepare_to_handle(command), error[c])]
  /\ sent' = [sent EXCEPT ![c] = 0]
  /\ fresh' = [fresh EXCEPT ![c] = FALSE]
  /\ clean' = [clean EXCEPT ![c] = TRUE]
  /\ disturbed' = disturbed \ {c}
  /\ UNCHANGED <<conn, error, resp, buf, want, sharedVars>>

(* a packet of samples; the reply to a read, though FMC150_NEW_DATA on the *)
(* wire, is not one                                                        *)
IsData(r) == r.comm \in {"NEW_DATA", "REMAINING_DATA"}

MutCountsSamples(c) ==
  IF error[c] THEN -1 ELSE IF IsData(resp[c]) THEN resp[c].num ELSE 1

(* What handle_request returned: the valid bytes of the packet (at least   *)
(* one for a message or a register) or ERROR, which is -1.                 *)
valid_bytes_packet(c) ==
  IF error[c] THEN -1 ELSE IF IsData(resp[c]) THEN resp[c].num * SampleSize ELSE 1

Mark(ch, i) == IF i \in DOMAIN mem[ch] THEN mem[ch][i] ELSE "none"
Packet(c) == buf[c].off..(buf[c].off + resp[c].num - 1)
Payload(c) == {Mark(buf[c].ch, i) : i \in Packet(c)}

(* The packet goes on where the last one ended, and its samples are of the *)
(* newest transfer, but for the one the channel may leave out.             *)
Continues(c) ==
  /\ buf[c].off = sent[c]
  /\ \A i \in Packet(c) : \/ Mark(buf[c].ch, i) = "new"
                          \/ /\ cmd[c].ch \in ShortChans
                             /\ i = cmd[c].val - 1

(* send_response_packet copies the payload and hands it to lwIP, which     *)
(* waits, without a timeout, until the client has made room for it; an     *)
(* empty packet is refused.                                                *)
SendResponse(c) ==
  /\ pc[c] = "send"
  /\ resp[c].num > 0 \/ resp[c] = NoResp
  /\ remaining_bytes' = [remaining_bytes EXCEPT ![c] = @ - valid_bytes_packet(c)]
  /\ pc' = [pc EXCEPT ![c] =
              Loop(remaining_bytes[c] - valid_bytes_packet(c), error[c])]
  /\ IF IsData(resp[c]) /\ ~error[c]
       THEN /\ sent' = [sent EXCEPT ![c] = @ + resp[c].num]
            /\ clean' = [clean EXCEPT ![c] = @ /\ Continues(c)]
       ELSE UNCHANGED <<sent, clean>>
  /\ UNCHANGED <<conn, cmd, error, resp, buf, want, fresh, disturbed, sharedVars>>

(* It fails when the peer has gone, on an empty packet, or on the num of a *)
(* response that was never filled in.  Only the inner loop is left, and    *)
(* the command with it.                                                    *)
SendFails(c) ==
  /\ pc[c] = "send"
  /\ conn[c] = "gone" \/ resp[c].num = 0
  /\ pc' = [pc EXCEPT ![c] = "recv"]
  /\ cmd' = [cmd EXCEPT ![c] = NoCommand]
  /\ UNCHANGED <<conn, remaining_bytes, error, resp, buf, want, sharedVars,
                 historyVars>>
-----------------------------------------------------------------------------
(* handle_request. *)

(* Thread c changes the handler, the engine or the buffer of a channel.    *)
Disturbs(c, ch) ==
  disturbed' = disturbed \cup {d \in Conns \ {c} : pc[d] # "recv" /\ cmd[d].ch = ch}

Goto(c, from, to) ==
  /\ pc[c] = from
  /\ pc' = [pc EXCEPT ![c] = to]

(* FMC150_ADC_DELAY, DDC_READ, DDC_WRITE, DDC_FMC150_*, QUIT and unknown   *)
(* numbers have no handler: ERROR before the response packet is touched,   *)
(* so the previous response is sent again.                                 *)
HandleUnsupported(c) ==
  /\ cmd[c].op = "UNSUPPORTED"
  /\ Goto(c, "handle", "send")
  /\ error' = [error EXCEPT ![c] = TRUE]
  /\ UNCHANGED <<conn, cmd, remaining_bytes, resp, buf, want, sharedVars,
                 historyVars>>

(* "Invalid value! Must be between 0 and ..." *)
HandleInvalid(c) ==
  /\ cmd[c].op \in {"CAPTURE", "GET_SAMPLES"}
  /\ cmd[c].val > MaxSamples
  /\ Goto(c, "handle", "fail")
  /\ UNCHANGED <<conn, cmd, remaining_bytes, error, resp, buf, want, sharedVars,
                 historyVars>>

HandleCapture(c) ==
  /\ cmd[c].op = "CAPTURE"
  /\ cmd[c].val <= MaxSamples
  /\ Goto(c, "handle", "cap_set")
  /\ UNCHANGED <<conn, cmd, remaining_bytes, error, resp, buf, want, sharedVars,
                 historyVars>>

(* Register and LED commands: the devices are not part of this model; a    *)
(* FMC150 read is refused while the SPI is busy, a write always succeeds.  *)
HandleRegister(c) ==
  /\ \/ cmd[c].op \in {"READ", "WRITE"} /\ Goto(c, "handle", "ok")
     \/ cmd[c].op = "READ" /\ Goto(c, "handle", "fail")
  /\ UNCHANGED <<conn, cmd, remaining_bytes, error, resp, buf, want, sharedVars,
                 historyVars>>

(* get_samples, up to the choice: what is left of the last capture, one    *)
(* sample when more than asked for is left, or a capture of its own when   *)
(* nothing is.                                                             *)
MutNoCap(a, b) == a
Least(a, b) == IF a < b THEN a ELSE b

MutTakesAll(c) == cmd[c].val

Available(c) ==
  LET ch == cmd[c].ch
  IN IF samples_count_pos[ch] + cmd[c].val > samples_count[ch]
     THEN samples_count[ch] - samples_count_pos[ch] ELSE 1

GetSamples(c) ==
  LET own == Available(c) <= 0
  IN /\ cmd[c].op = "GET_SAMPLES"
     /\ cmd[c].val <= MaxSamples
     /\ Goto(c, "handle", IF own THEN "cap_set" ELSE "poll")
     /\ want' = [want EXCEPT ![c] =
                   Least(IF own THEN cmd[c].val ELSE Available(c), MaxPacket)]
     /\ fresh' = [fresh EXCEPT ![c] = IF sent[c] = 0 THEN own ELSE @]
     /\ UNCHANGED <<conn, cmd, remaining_bytes, error, resp, buf, sharedVars,
                    sent, clean, disturbed>>

MutNoPoll(c) ==
  /\ Goto(c, "poll", "advance")
  /\ UNCHANGED <<conn, cmd, remaining_bytes, error, resp, buf, want, sharedVars,
                 historyVars>>

(* XAxiDma_Busy is polled MAX_DMA_TRIES times. *)
PollIdle(c) ==
  /\ engine[cmd[c].ch] = "idle"
  /\ Goto(c, "poll", "advance")
  /\ UNCHANGED <<conn, cmd, remaining_bytes, error, resp, buf, want, sharedVars,
                 historyVars>>

MutPollsForever(c) ==
  /\ engine[cmd[c].ch] # "idle"
  /\ Goto(c, "poll", "poll")
  /\ UNCHANGED <<conn, cmd, remaining_bytes, error, resp, buf, want, sharedVars,
                 historyVars>>

PollTimeout(c) ==
  /\ engine[cmd[c].ch] # "idle"
  /\ Goto(c, "poll", "fail")
  /\ UNCHANGED <<conn, cmd, remaining_bytes, error, resp, buf, want, sharedVars,
                 historyVars>>

(* The end of get_samples and the response made from it: the packet is the *)
(* DMA memory itself, and it is new data if it starts at offset 0.         *)
Advance(c) ==
  LET ch == cmd[c].ch
      pos == samples_count_pos[ch]
  IN /\ Goto(c, "advance", "send")
     /\ samples_count_pos' = [samples_count_pos EXCEPT ![ch] = pos + want[c]]
     /\ buf' = [buf EXCEPT ![c] = [ch |-> ch, off |-> pos]]
     /\ resp' = [resp EXCEPT ![c] =
          [comm |-> IF pos = 0 THEN "NEW_DATA" ELSE "REMAINING_DATA",
           num |-> want[c]]]
     /\ want' = [want EXCEPT ![c] = 0]
     /\ Disturbs(c, ch)
     /\ UNCHANGED <<conn, cmd, remaining_bytes, error, samples_count, engine,
                    len, mem, upset, sent, fresh, clean>>

(* sprintf or memcpy of the reply to response_packet_s.buf, wherever that  *)
(* points: into the samples when it is the address of an earlier packet.   *)
WriteReply(c, n) ==
  IF buf[c] = Wild THEN UNCHANGED <<mem, disturbed>>
  ELSE /\ mem' = [mem EXCEPT ![buf[c].ch] = [i \in DOMAIN @ |->
                    IF i \in buf[c].off..(buf[c].off + n - 1) THEN "text" ELSE @[i]]]
       /\ Disturbs(c, buf[c].ch)

ReplyMessage(c) ==
  /\ \/ pc[c] = "fail" /\ error' = [error EXCEPT ![c] = TRUE]
     \/ pc[c] = "ok" /\ cmd[c].op # "READ" /\ UNCHANGED error
  /\ pc' = [pc EXCEPT ![c] = "send"]
  /\ resp' = [resp EXCEPT ![c] = [comm |-> "MESSAGE", num |-> 1]]
  /\ WriteReply(c, MsgSamples)
  /\ UNCHANGED <<conn, cmd, remaining_bytes, buf, want, samples_count,
                 samples_count_pos, engine, len, upset, sent, fresh, clean>>

ReplyRegister(c) ==
  /\ cmd[c].op = "READ"
  /\ Goto(c, "ok", "send")
  /\ resp' = [resp EXCEPT ![c] = [comm |-> "REGISTER", num |-> 1]]
  /\ WriteReply(c, 1)
  /\ UNCHANGED <<conn, cmd, remaining_bytes, error, buf, want, samples_count,
                 samples_count_pos, engine, len, upset, sent, fresh, clean>>

-----------------------------------------------------------------------------
(* capture_samples. *)

MutPosNotReset(c) ==
  LET ch == cmd[c].ch
  IN /\ Goto(c, "cap_set", "cap_check")
     /\ samples_count' = [samples_count EXCEPT ![ch] = cmd[c].val]
     /\ Disturbs(c, ch)
     /\ UNCHANGED <<conn, cmd, remaining_bytes, error, resp, buf, want,
                    samples_count_pos, engine, len, mem, upset, sent, fresh, clean>>

(* The handler is overwritten before anything can fail. *)
CaptureSet(c) ==
  LET ch == cmd[c].ch
  IN /\ Goto(c, "cap_set", "cap_check")
     /\ samples_count' = [samples_count EXCEPT ![ch] = cmd[c].val]
     /\ samples_count_pos' = [samples_count_pos EXCEPT ![ch] = 0]
     /\ Disturbs(c, ch)
     /\ UNCHANGED <<conn, cmd, remaining_bytes, error, resp, buf, want, engine,
                    len, mem, upset, sent, fresh, clean>>

MutNoBusyCheck(c) ==
  /\ Goto(c, "cap_check", IF cmd[c].val >= 1 THEN "cap_go" ELSE "fail")
  /\ UNCHANGED <<conn, cmd, remaining_bytes, error, resp, buf, want, sharedVars,
                 historyVars>>

(* XAxiDma_SimpleTransfer: the length and the status register are checked, *)
CaptureCheck(c) ==
  /\ Goto(c, "cap_check",
          IF cmd[c].val >= 1 /\ engine[cmd[c].ch] = "idle" THEN "cap_go" ELSE "fail")
  /\ UNCHANGED <<conn, cmd, remaining_bytes, error, resp, buf, want, sharedVars,
                 historyVars>>

(* then the length register is written.  On an engine that another thread  *)
(* has started since, the write may or may not replace the length.         *)
CaptureGo(c) ==
  LET ch == cmd[c].ch
  IN /\ Goto(c, "cap_go", "cap_trig")
     /\ engine' = [engine EXCEPT ![ch] = IF @ = "idle" THEN "armed" ELSE @]
     /\ \E l \in {cmd[c].val} \cup (IF engine[ch] = "idle" THEN {} ELSE {len[ch]}) :
          len' = [len EXCEPT ![ch] = l]
     /\ mem' = [mem EXCEPT ![ch] = [i \in DOMAIN @ |->
                                     IF @[i] = "new" THEN "old" ELSE @[i]]]
     /\ upset' = IF engine[ch] = "idle" THEN upset ELSE upset \cup {ch}
     /\ Disturbs(c, ch)
     /\ UNCHANGED <<conn, cmd, remaining_bytes, error, resp, buf, want,
                    samples_count, samples_count_pos, sent, fresh, clean>>

(* The capture control register is written 0, then start and count: the    *)
(* hardware of module DmaIf starts to fill the FIFO.  Unless the engine    *)
(* waits for just this capture, words are left over in it.                 *)
CaptureTrigger(c) ==
  LET ch == cmd[c].ch
  IN /\ Goto(c, "cap_trig", IF cmd[c].op = "CAPTURE" THEN "ok" ELSE "poll")
     /\ engine' = [engine EXCEPT ![ch] = IF @ = "armed" THEN "running" ELSE @]
     /\ upset' = IF engine[ch] = "armed" THEN upset ELSE upset \cup {ch}
     /\ Disturbs(c, ch)
     /\ UNCHANGED <<conn, cmd, remaining_bytes, error, resp, buf, want,
                    samples_count, samples_count_pos, len, mem, sent, fresh, clean>>

(* The engine ends its transfer (external), having written n samples:      *)
(* DmaIf shows that it is all of them, or all but the last of a channel    *)
(* that may leave it out, while the FIFO has room and captures come in     *)
(* turn.  Otherwise nothing is known of them, and an engine may end on     *)
(* words left over before its own capture has begun.                       *)
EngineDone(ch) ==
  /\ \/ engine[ch] = "running"
     \/ engine[ch] = "armed" /\ ch \in upset
  /\ engine' = [engine EXCEPT ![ch] = "idle"]
  /\ upset' \in {upset, upset \cup {ch}}
  /\ \E n \in IF ch \in ShortChans THEN {len[ch] - 1, len[ch]} ELSE {len[ch]} :
       mem' = [mem EXCEPT ![ch] = [i \in DOMAIN @ |->
                 IF i >= n THEN @[i] ELSE IF ch \in upset' THEN "old" ELSE "new"]]
  /\ len' = [len EXCEPT ![ch] = 0]
  /\ UNCHANGED <<threadVars, samples_count, samples_count_pos, historyVars>>

-----------------------------------------------------------------------------
Thread(c) ==
  \/ RecvEnds(c) \/ CloseSocket(c) \/ SendResponse(c) \/ SendFails(c)
  \/ HandleUnsupported(c) \/ HandleInvalid(c) \/ HandleCapture(c)
  \/ HandleRegister(c) \/ GetSamples(c) \/ PollIdle(c) \/ PollTimeout(c)
  \/ Advance(c) \/ ReplyMessage(c) \/ ReplyRegister(c)
  \/ CaptureSet(c) \/ CaptureCheck(c) \/ CaptureGo(c) \/ CaptureTrigger(c)

Next ==
  \/ \E c \in Conns : \/ Accept(c) \/ Disconnect(c) \/ Thread(c)
                      \/ \E command \in Commands : RecvCommand(c, command)
  \/ \E ch \in Chans : EngineDone(ch)

Spec == Init /\ [][Next]_vars

(* In sendall, for a client that is there but need not read. *)
InSend(c) == pc[c] = "send" /\ conn[c] = "open"

(* xilkernel schedules every runnable thread.  A thread in sendall is not  *)
(* runnable for as long as its client does not read, and clients owe       *)
(* nothing.                                                                *)
FairSpec == Spec /\ \A c \in Conns : WF_vars(Thread(c) /\ ~InSend(c))

-----------------------------------------------------------------------------
(* A packet never holds more than MaxPacket samples: RESPONSE_PACKET_SIZE  *)
(* bytes are all send_response_packet has room for.                        *)
TypeOK ==
  /\ conn \in [Conns -> {"closed", "open", "gone"}]
  /\ pc \in [Conns -> PCs]
  /\ cmd \in [Conns -> Commands \cup {NoCommand}]
  /\ remaining_bytes \in [Conns -> -IntHalf..IntHalf]
  /\ error \in [Conns -> BOOLEAN]
  /\ resp \in [Conns -> Responses]
  /\ buf \in [Conns -> [ch : Chans, off : Nat] \cup {Wild}]
  /\ want \in [Conns -> 0..MaxPacket]
  /\ samples_count \in [Chans -> 0..MaxSamples]
  /\ samples_count_pos \in [Chans -> Nat]
  /\ engine \in [Chans -> {"idle", "armed", "running"}]
  /\ len \in [Chans -> 0..MaxSamples]
  /\ mem \in [Chans -> [0..(MaxSamples - 1) -> Marks]]
  /\ upset \subseteq Chans
  /\ sent \in [Conns -> Nat]
  /\ fresh \in [Conns -> BOOLEAN]
  /\ clean \in [Conns -> BOOLEAN]
  /\ disturbed \subseteq Conns

Answered(c) == pc[c] = "recv" /\ cmd[c].op # "NONE" /\ ~error[c]
SendingData(c) == pc[c] = "send" /\ IsData(resp[c]) /\ ~error[c]

(* A GET_SAMPLES that finds the previous capture used up is answered with  *)
(* exactly the samples asked for: as many, in order, split into packets of *)
(* at most MaxPacket, all of the capture it started itself and none        *)
(* overwritten.  This holds whatever other connections did before, if none *)
(* of them touched the channel while the command ran; of the contents, if  *)
(* no capture got out of step before, and but for the last sample of a DDC *)
(* capture.  (get_samples, capture_samples, the loop of server.c:379.)     *)
FreshGetIsExact ==
  \A c \in Conns \ disturbed :
    Answered(c) /\ cmd[c].op = "GET_SAMPLES" /\ fresh[c]
      => /\ sent[c] = cmd[c].val
         /\ cmd[c].ch \notin upset => clean[c]

(* Samples are handed out only of the capture the handler describes        *)
(* (low_level_op.c:251-252, 295), and once the engine has stopped writing  *)
(* (the poll of low_level_op.c:271): what is left of a capture of another  *)
(* connection as well as one that was started and never polled for, as     *)
(* long as no other thread touches the channel while the command runs.     *)
SendsSettledCapture ==
  \A c \in Conns \ disturbed :
    SendingData(c) => /\ engine[cmd[c].ch] = "idle"
                      /\ buf[c].off + resp[c].num <= samples_count[cmd[c].ch]

(* Connections on one channel read and advance samples_count_pos without a *)
(* lock (low_level_op.c:251, 295).  They can run past the capture, but not *)
(* without bound: each but one by a packet.                                *)
OverrunIsBounded ==
  \A ch \in Chans :
    samples_count_pos[ch] <= samples_count[ch] + (Cardinality(Conns) - 1) * MaxPacket

(* A command comes to an end, even if the engine never finishes or the     *)
(* client goes: the poll is bounded and every packet makes remaining_bytes *)
(* smaller.  The one thing a thread can wait for for ever is a client that *)
(* keeps the connection and stops reading (connection_server.c:163).       *)
CommandEnds ==
  \A c \in Conns : (pc[c] # "recv" ~> pc[c] = "recv") \/ <>[]InSend(c)

(* server.c:371: "Remaining bytes to be sent back to client".  A command    *)
(* that also uses up what an earlier one left starts its own capture in    *)
(* full, so it may be answered with more than it asked for, but the loop   *)
(* stops within the packet that passes its end.                            *)
OvershootWithinPacket ==
  \A c \in Conns :
    cmd[c].op = "GET_SAMPLES" => sent[c] < cmd[c].val + MaxPacket

(* server.c:382: "Send message to client and close socket", to a client    *)
(* that reads.                                                             *)
ErrorClosesSocket ==
  \A c \in Conns : (error[c] ~> conn[c] = "closed") \/ <>[]InSend(c)

(* common.h:168: num counts "valid bytes": no sample of a packet has been  *)
(* overwritten by the text of a reply.                                     *)
ReadsIntact == \A c \in Conns : SendingData(c) => "text" \notin Payload(c)

(* xaxidma.c:636, "if engine is busy, cannot submit": a capture does not   *)
(* start an engine that an earlier one, abandoned at a poll timeout, left  *)
(* running.  Check and start are separate register accesses without a      *)
(* lock (low_level_op.c:198): only another thread of the channel, between  *)
(* the two, can make it happen.                                            *)
SubmitsOnlyWhenIdle ==
  [][\A c \in Conns \ disturbed : CaptureGo(c) => engine[cmd[c].ch] = "idle"]_vars
=============================================================================
