--------------------------- MODULE AcqServerProofs ---------------------------
(***************************************************************************)
(* Theorems about AcqServer, for any number of connections and channels    *)
(* and all sizes, whatever channels the connections share.  Types and the  *)
(* bound on what a command is answered with hold for every command; what   *)
(* the samples are is proved of each command during which no other thread  *)
(* has changed the handler, the engine or the buffer of its channel.       *)
(***************************************************************************)
EXTENDS AcqServer, TLAPS

Capture == {"cap_set", "cap_check", "cap_go", "cap_trig"}
Between == {"recv", "close"}
USE DEF Between

-----------------------------------------------------------------------------
(* What a thread's place says about its own variables. *)

(* The command that is being handled, and what is left to do for it. *)
HandlesCommand(c) ==
  /\ conn[c] = "closed" => pc[c] = "recv"
  /\ pc[c] \notin Between => cmd[c] \in Commands /\ remaining_bytes[c] \in 1..(IntHalf - 1)
  /\ pc[c] \notin Between \cup {"send"} => ~error[c]
  /\ pc[c] \in Capture => cmd[c].op \in {"CAPTURE", "GET_SAMPLES"}
  /\ pc[c] \in {"poll", "advance"} => cmd[c].op = "GET_SAMPLES"
  /\ pc[c] \in Capture \cup {"poll", "advance"} => cmd[c].val <= MaxSamples
  /\ pc[c] = "ok" => cmd[c].op # "GET_SAMPLES"
  /\ pc[c] = "send" /\ ~error[c] => (IsData(resp[c]) <=> cmd[c].op = "GET_SAMPLES")

(* Bytes sent and bytes left make up what prepare_to_handle computed. *)
Budget(c) ==
  cmd[c].op = "GET_SAMPLES" =>
    /\ pc[c] \notin Between =>
         remaining_bytes[c] + sent[c] * SampleSize = Signed(cmd[c].val * SampleSize)
    /\ sent[c] < cmd[c].val + MaxPacket

Places == \A c \in Conns : HandlesCommand(c) /\ Budget(c)

-----------------------------------------------------------------------------
(* What holds of a thread and its channel while no other thread disturbs   *)
(* its command.                                                            *)

(* The engine stands still where its memory or its registers are used. *)
Settled(c) == pc[c] \in {"advance", "cap_go"} \/ SendingData(c)
                => engine[cmd[c].ch] = "idle"

(* What get_samples is about to take, and what is sent, lies within the    *)
(* capture.                                                                *)
Within(c) ==
  LET ch == cmd[c].ch
  IN /\ cmd[c].op = "GET_SAMPLES" /\ pc[c] \in Capture \cup {"poll", "advance"}
          => want[c] > 0
     /\ cmd[c].op = "GET_SAMPLES" /\ pc[c] \in Capture => want[c] <= cmd[c].val
     /\ pc[c] \in Capture \ {"cap_set"}
          => samples_count[ch] = cmd[c].val /\ samples_count_pos[ch] = 0
     /\ pc[c] \in {"poll", "advance"}
          => samples_count_pos[ch] + want[c] <= samples_count[ch]
     /\ SendingData(c) => buf[c].off + resp[c].num <= samples_count[ch]

(* The first n samples of a buffer are of the newest transfer, but for a   *)
(* last one that the channel may leave out.                                *)
AllNew(ch, n) ==
  \A i \in 0..(n - 1) : mem[ch][i] = "new" \/ (ch \in ShortChans /\ i = n - 1)

(* Before its first packet nothing a GET_SAMPLES sent was wrong. *)
CleanStart(c) == cmd[c].op = "GET_SAMPLES" /\ sent[c] = 0 => clean[c]

(* A GET_SAMPLES that started its own capture: where it stands in it. *)
Exact(c) ==
  LET ch == cmd[c].ch
      val == cmd[c].val
      pos == samples_count_pos[ch]
  IN cmd[c].op = "GET_SAMPLES" /\ fresh[c] /\ ~error[c] =>
       /\ pc[c] \in Capture => sent[c] = 0
       /\ pc[c] = "handle" => sent[c] > 0
       /\ pc[c] \in {"cap_trig", "poll", "advance", "handle", "send"}
            => val <= MaxSamples /\ samples_count[ch] = val
       /\ pc[c] \in {"handle", "advance"} => engine[ch] = "idle"
       /\ pc[c] \in {"poll", "advance", "handle"} => pos = sent[c]
       /\ pc[c] = "send" =>
            /\ buf[c] = [ch |-> ch, off |-> sent[c]]
            /\ resp[c].num > 0
            /\ pos = sent[c] + resp[c].num
       /\ pc[c] = "recv" => sent[c] = val

(* And what its samples are, while engine and captures are in step. *)
Contents(c) ==
  LET ch == cmd[c].ch
      val == cmd[c].val
  IN cmd[c].op = "GET_SAMPLES" /\ fresh[c] /\ ~error[c] /\ ch \notin upset =>
       /\ clean[c]
       /\ pc[c] \in {"cap_trig", "poll", "advance", "handle", "send"} =>
            /\ engine[ch] # "idle" => len[ch] = val
            /\ engine[ch] = "idle" => AllNew(ch, val)

Owned(c) == Settled(c) /\ Within(c) /\ CleanStart(c) /\ Exact(c) /\ Contents(c)

Channels == \A c \in Conns \ disturbed : Owned(c)

-----------------------------------------------------------------------------
(* Signed keeps what fits in an int and never makes a number larger. *)
LEMMA SignedFacts ==
  ASSUME NEW x \in Nat
  PROVE  /\ Signed(x) \in Int
         /\ -IntHalf <= Signed(x) /\ Signed(x) < IntHalf
         /\ Signed(x) <= x
         /\ x < IntHalf => Signed(x) = x
BY ServerAssumption DEF Signed

LEMMA TimesNat ==
  ASSUME NEW a \in Nat, NEW b \in Nat
  PROVE  a * b \in Nat
OBVIOUS

LEMMA TimesMonotone ==
  ASSUME NEW a \in Nat, NEW b \in Nat, NEW s \in Nat, a <= b
  PROVE  a * s <= b * s
OBVIOUS

LEMMA TimesCancel ==
  ASSUME NEW a \in Nat, NEW b \in Nat, NEW s \in Nat \ {0}, a * s < b * s
  PROVE  a < b
OBVIOUS

(* What prepare_to_handle puts into remaining_bytes. *)
LEMMA PrepareType ==
  ASSUME NEW command \in Commands
  PROVE  prepare_to_handle(command) \in -IntHalf..(IntHalf - 1)
<1>1. command.val \in Nat
  BY ServerAssumption DEF Commands
<1>2. command.val * SampleSize \in Nat
  BY <1>1, TimesNat, ServerAssumption
<1>3. IntHalf > 1
  BY SizeAssumption, ServerAssumption, TimesNat
<1> QED BY <1>2, <1>3, SignedFacts, ServerAssumption DEF prepare_to_handle

(* What a packet takes off remaining_bytes. *)
LEMMA PacketBytes ==
  ASSUME TypeOK, NEW c \in Conns
  PROVE  valid_bytes_packet(c) \in -1..IntHalf
<1>1. resp[c].num \in 0..MaxPacket
  BY DEF TypeOK, Responses
<1>2. resp[c].num * SampleSize \in Nat /\ resp[c].num * SampleSize <= MaxPacket * SampleSize
  BY <1>1, TimesNat, TimesMonotone, ServerAssumption
<1> QED
  BY <1>2, SizeAssumption, ServerAssumption DEF valid_bytes_packet, TypeOK

-----------------------------------------------------------------------------
(* Type correctness, action by action. *)

(* A command that is being handled. *)
LEMMA HandledCommand ==
  ASSUME NEW c \in Conns, HandlesCommand(c), pc[c] \notin Between
  PROVE  /\ cmd[c].op \in AllOps /\ cmd[c].ch \in Chans
         /\ cmd[c].val \in Nat
BY ServerAssumption DEF HandlesCommand, Commands

LEMMA DisturbsType ==
  ASSUME TypeOK, NEW c \in Conns, NEW ch, Disturbs(c, ch)
  PROVE  disturbed' \subseteq Conns
BY DEF Disturbs, TypeOK

LEMMA ConnectionTypes ==
  ASSUME TypeOK, NEW c \in Conns,
         Accept(c) \/ Disconnect(c) \/ RecvEnds(c) \/ CloseSocket(c)
  PROVE  TypeOK'
<1>1. CASE Accept(c)
  <2>1. conn' \in [Conns -> {"closed", "open", "gone"}]
    BY <1>1 DEF Accept, TypeOK
  <2>2. buf' \in [Conns -> [ch : Chans, off : Nat] \cup {Wild}]
    <3>1. PICK b \in {Wild, buf[c]} : buf' = [buf EXCEPT ![c] = b]
      BY <1>1 DEF Accept
    <3> QED BY <3>1 DEF TypeOK
  <2>3. UNCHANGED <<pc, cmd, remaining_bytes, error, resp, want, samples_count,
                    samples_count_pos, engine, len, mem, upset, sent, fresh, clean,
                    disturbed>>
    BY <1>1 DEF Accept, sharedVars, historyVars
  <2> QED BY <2>1, <2>2, <2>3 DEF TypeOK
<1>2. CASE Disconnect(c) \/ RecvEnds(c)
  <2>1. conn' \in [Conns -> {"closed", "open", "gone"}] /\ pc' \in [Conns -> PCs]
    BY <1>2 DEF Disconnect, RecvEnds, TypeOK, PCs
  <2>2. UNCHANGED <<cmd, remaining_bytes, error, resp, buf, want, samples_count,
                    samples_count_pos, engine, len, mem, upset, sent, fresh, clean,
                    disturbed>>
    BY <1>2 DEF Disconnect, RecvEnds, sharedVars, historyVars
  <2> QED BY <2>1, <2>2 DEF TypeOK
<1>3. CASE CloseSocket(c)
  <2>1. /\ cmd' = [cmd EXCEPT ![c] = NoCommand]
        /\ remaining_bytes' = [remaining_bytes EXCEPT ![c] = 0]
        /\ resp' = [resp EXCEPT ![c] = NoResp] /\ want' = [want EXCEPT ![c] = 0]
    BY <1>3 DEF CloseSocket
  <2>2. cmd' \in [Conns -> Commands \cup {NoCommand}]
    BY <2>1 DEF TypeOK
  <2>3. remaining_bytes' \in [Conns -> -IntHalf..IntHalf] /\ want' \in [Conns -> 0..MaxPacket]
    <3>1. 0 \in -IntHalf..IntHalf /\ 0 \in 0..MaxPacket
      BY ServerAssumption
    <3> QED BY <2>1, <3>1 DEF TypeOK
  <2>4. resp' \in [Conns -> Responses]
    <3>1. NoResp \in Responses
      BY ServerAssumption DEF NoResp, Responses
    <3> QED BY <2>1, <3>1 DEF TypeOK
  <2>5. conn' \in [Conns -> {"closed", "open", "gone"}] /\ error' \in [Conns -> BOOLEAN]
    BY <1>3 DEF CloseSocket, TypeOK
  <2>6. sent' \in [Conns -> Nat] /\ fresh' \in [Conns -> BOOLEAN]
        /\ clean' \in [Conns -> BOOLEAN]
    BY <1>3 DEF CloseSocket, TypeOK
  <2>7. UNCHANGED <<buf, samples_count, samples_count_pos, engine, len, mem, upset>>
    BY <1>3 DEF CloseSocket, sharedVars
  <2>8. pc' \in [Conns -> PCs] /\ disturbed' \subseteq Conns
    BY <1>3 DEF CloseSocket, TypeOK, PCs
  <2> QED BY <2>2, <2>3, <2>4, <2>5, <2>6, <2>7, <2>8 DEF TypeOK
<1> QED BY <1>1, <1>2, <1>3

LEMMA LoopTypes ==
  ASSUME TypeOK, NEW c \in Conns, HandlesCommand(c),
         \/ \E command \in Commands : RecvCommand(c, command)
         \/ SendResponse(c)
         \/ SendFails(c)
  PROVE  TypeOK'
<1>1. ASSUME NEW command \in Commands, RecvCommand(c, command) PROVE TypeOK'
  <2>1. Loop(prepare_to_handle(command), error[c]) \in PCs
    BY DEF Loop, PCs
  <2>2. prepare_to_handle(command) \in -IntHalf..IntHalf
    BY PrepareType, ServerAssumption
  <2> QED BY <1>1, <2>1, <2>2 DEF RecvCommand, TypeOK, sharedVars
<1>2. CASE SendResponse(c)
  <2>1. Loop(remaining_bytes[c] - valid_bytes_packet(c), error[c]) \in PCs
    BY DEF Loop, PCs
  <2>2. remaining_bytes[c] - valid_bytes_packet(c) \in -IntHalf..IntHalf
    <3>1. remaining_bytes[c] \in 1..(IntHalf - 1)
      BY <1>2 DEF SendResponse, HandlesCommand
    <3>2. valid_bytes_packet(c) \in -1..IntHalf
      BY PacketBytes
    <3> QED BY <3>1, <3>2, ServerAssumption
  <2>3. sent' \in [Conns -> Nat]
    <3>1. resp[c].num \in Nat
      BY DEF TypeOK, Responses
    <3>2. sent \in [Conns -> Nat]
      BY DEF TypeOK
    <3>3. CASE IsData(resp[c]) /\ ~error[c]
      BY <1>2, <3>1, <3>2, <3>3 DEF SendResponse
    <3>4. CASE ~(IsData(resp[c]) /\ ~error[c])
      BY <1>2, <3>2, <3>4 DEF SendResponse
    <3> QED BY <3>3, <3>4
  <2>4. clean' \in [Conns -> BOOLEAN]
    BY <1>2, Zenon DEF SendResponse, TypeOK
  <2>5. /\ pc' \in [Conns -> PCs]
        /\ remaining_bytes' \in [Conns -> -IntHalf..IntHalf]
    BY <1>2, <2>1, <2>2 DEF SendResponse, TypeOK
  <2> QED BY <1>2, <2>3, <2>4, <2>5 DEF SendResponse, TypeOK, sharedVars
<1>3. CASE SendFails(c)
  BY <1>3 DEF SendFails, TypeOK, sharedVars, historyVars, PCs
<1> QED BY <1>1, <1>2, <1>3

LEMMA HandleTypes ==
  ASSUME TypeOK, NEW c \in Conns, HandlesCommand(c),
         \/ HandleUnsupported(c) \/ HandleInvalid(c) \/ HandleCapture(c)
         \/ HandleRegister(c) \/ GetSamples(c) \/ PollIdle(c) \/ PollTimeout(c)
  PROVE  TypeOK'
<1> USE DEF Goto, PCs
<1>1. CASE HandleUnsupported(c)
  BY <1>1 DEF HandleUnsupported, TypeOK, sharedVars, historyVars
<1>2. CASE HandleInvalid(c) \/ HandleCapture(c)
  <2>1. pc' \in [Conns -> PCs]
    <3>1. pc' = [pc EXCEPT ![c] = "fail"] \/ pc' = [pc EXCEPT ![c] = "cap_set"]
      BY <1>2 DEF HandleInvalid, HandleCapture
    <3> QED BY <3>1 DEF TypeOK
  <2>2. UNCHANGED <<conn, cmd, remaining_bytes, error, resp, buf, want, samples_count,
                    samples_count_pos, engine, len, mem, upset, sent, fresh, clean,
                    disturbed>>
    BY <1>2 DEF HandleInvalid, HandleCapture, sharedVars, historyVars
  <2> QED BY <2>1, <2>2 DEF TypeOK
<1>3. CASE HandleRegister(c)
  BY <1>3 DEF HandleRegister, TypeOK, sharedVars, historyVars
<1>4. CASE GetSamples(c)
  <2>1. /\ cmd[c].val \in Nat /\ cmd[c].ch \in Chans
    BY <1>4, HandledCommand DEF GetSamples
  <2>2. Available(c) \in Int
    BY <2>1 DEF Available, TypeOK
  <2>3. want' \in [Conns -> 0..MaxPacket]
    BY <1>4, <2>1, <2>2, ServerAssumption DEF GetSamples, Least, TypeOK
  <2>4. fresh' \in [Conns -> BOOLEAN]
    <3>1. (Available(c) <= 0) \in BOOLEAN
      BY <2>2
    <3> QED BY <1>4, <3>1, Zenon DEF GetSamples, TypeOK
  <2> QED BY <1>4, <2>3, <2>4 DEF GetSamples, TypeOK, sharedVars
<1>5. CASE PollIdle(c) \/ PollTimeout(c)
  <2>1. pc' \in [Conns -> PCs]
    <3>1. \/ pc' = [pc EXCEPT ![c] = "advance"]
          \/ pc' = [pc EXCEPT ![c] = "fail"]
      BY <1>5 DEF PollIdle, PollTimeout
    <3> QED BY <3>1 DEF TypeOK
  <2>2. UNCHANGED <<conn, cmd, remaining_bytes, error, resp, buf, want, samples_count,
                    samples_count_pos, engine, len, mem, upset, sent, fresh, clean,
                    disturbed>>
    BY <1>5 DEF PollIdle, PollTimeout, sharedVars, historyVars
  <2> QED BY <2>1, <2>2 DEF TypeOK
<1> QED BY <1>1, <1>2, <1>3, <1>4, <1>5

(* sprintf writes marks, nothing else. *)
LEMMA WriteReplyType ==
  ASSUME TypeOK, NEW c \in Conns, NEW n \in Nat, WriteReply(c, n)
  PROVE  mem' \in [Chans -> [0..(MaxSamples - 1) -> Marks]] /\ disturbed' \subseteq Conns
<1>1. CASE buf[c] = Wild
  BY <1>1 DEF WriteReply, TypeOK
<1>2. CASE buf[c] # Wild
  <2>1. buf[c].ch \in Chans
    BY <1>2 DEF TypeOK
  <2>2. mem[buf[c].ch] \in [0..(MaxSamples - 1) -> Marks]
    BY <2>1 DEF TypeOK
  <2>3. disturbed' \subseteq Conns
    BY <1>2, DisturbsType DEF WriteReply
  <2> DEFINE written == [i \in DOMAIN mem[buf[c].ch] |->
                           IF i \in buf[c].off..(buf[c].off + n - 1) THEN "text"
                           ELSE mem[buf[c].ch][i]]
  <2>4. mem' \in [Chans -> [0..(MaxSamples - 1) -> Marks]]
    <3>1. mem' = [mem EXCEPT ![buf[c].ch] = written]
      BY <1>2, <2>1 DEF WriteReply, TypeOK
    <3>2. written \in [0..(MaxSamples - 1) -> Marks]
      BY <2>2 DEF Marks
    <3> HIDE DEF written
    <3> QED BY <2>1, <3>1, <3>2 DEF TypeOK
  <2> QED BY <2>3, <2>4
<1> QED BY <1>1, <1>2

LEMMA ReplyTypes ==
  ASSUME TypeOK, NEW c \in Conns, HandlesCommand(c),
         Advance(c) \/ ReplyMessage(c) \/ ReplyRegister(c)
  PROVE  TypeOK'
<1> USE DEF Goto, PCs
<1>1. CASE Advance(c)
  <2>1. cmd[c].ch \in Chans
    BY <1>1, HandledCommand DEF Advance
  <2>2. samples_count_pos[cmd[c].ch] \in Nat /\ want[c] \in 0..MaxPacket
    BY <2>1 DEF TypeOK
  <2>3. samples_count_pos' \in [Chans -> Nat]
    BY <1>1, <2>1, <2>2 DEF Advance, TypeOK
  <2>4. buf' \in [Conns -> [ch : Chans, off : Nat] \cup {Wild}]
    BY <1>1, <2>1, <2>2 DEF Advance, TypeOK
  <2>5. resp' \in [Conns -> Responses]
    BY <1>1, <2>1, <2>2 DEF Advance, TypeOK, Responses
  <2>6. want' \in [Conns -> 0..MaxPacket]
    <3>1. 0 \in 0..MaxPacket
      BY ServerAssumption
    <3> QED BY <1>1, <3>1 DEF Advance, TypeOK
  <2>7. disturbed' \subseteq Conns
    BY <1>1, DisturbsType DEF Advance
  <2>8. pc' \in [Conns -> PCs]
    BY <1>1 DEF Advance, TypeOK
  <2> QED BY <1>1, <2>3, <2>4, <2>5, <2>6, <2>7, <2>8 DEF Advance, TypeOK
<1>2. CASE ReplyMessage(c)
  <2>1. mem' \in [Chans -> [0..(MaxSamples - 1) -> Marks]] /\ disturbed' \subseteq Conns
    BY <1>2, WriteReplyType, ServerAssumption DEF ReplyMessage
  <2>2. resp' \in [Conns -> Responses]
    BY <1>2, ServerAssumption DEF ReplyMessage, TypeOK, Responses
  <2> QED BY <1>2, <2>1, <2>2 DEF ReplyMessage, TypeOK
<1>3. CASE ReplyRegister(c)
  <2>1. mem' \in [Chans -> [0..(MaxSamples - 1) -> Marks]] /\ disturbed' \subseteq Conns
    BY <1>3, WriteReplyType DEF ReplyRegister
  <2>2. resp' \in [Conns -> Responses]
    BY <1>3, ServerAssumption DEF ReplyRegister, TypeOK, Responses
  <2> QED BY <1>3, <2>1, <2>2 DEF ReplyRegister, TypeOK
<1> QED BY <1>1, <1>2, <1>3

LEMMA CaptureTypes ==
  ASSUME TypeOK, NEW c \in Conns, HandlesCommand(c),
         CaptureSet(c) \/ CaptureCheck(c) \/ CaptureGo(c) \/ CaptureTrigger(c)
  PROVE  TypeOK'
<1> USE DEF Goto, PCs
<1>1. cmd[c].ch \in Chans /\ cmd[c].val \in 0..MaxSamples
  BY HandledCommand, ServerAssumption DEF CaptureSet, CaptureCheck, CaptureGo, CaptureTrigger,
     HandlesCommand, Capture
<1>2. CASE CaptureSet(c)
  <2>1. disturbed' \subseteq Conns
    BY <1>2, DisturbsType DEF CaptureSet
  <2> QED BY <1>1, <1>2, <2>1 DEF CaptureSet, TypeOK
<1>3. CASE CaptureCheck(c)
  BY <1>3 DEF CaptureCheck, TypeOK, sharedVars, historyVars
<1>4. CASE CaptureGo(c)
  <2>1. mem' \in [Chans -> [0..(MaxSamples - 1) -> Marks]]
    <3>1. mem[cmd[c].ch] \in [0..(MaxSamples - 1) -> Marks]
      BY <1>1 DEF TypeOK
    <3> QED BY <1>1, <1>4, <3>1 DEF CaptureGo, TypeOK, Marks
  <2>2. len' \in [Chans -> 0..MaxSamples]
    <3>1. PICK l \in {cmd[c].val} \cup
                     (IF engine[cmd[c].ch] = "idle" THEN {} ELSE {len[cmd[c].ch]}) :
            len' = [len EXCEPT ![cmd[c].ch] = l]
      BY <1>4 DEF CaptureGo
    <3>2. l \in 0..MaxSamples
      BY <1>1, <3>1 DEF TypeOK
    <3> QED BY <3>1, <3>2 DEF TypeOK
  <2>3. engine' \in [Chans -> {"idle", "armed", "running"}]
    BY <1>1, <1>4 DEF CaptureGo, TypeOK
  <2>4. upset' \subseteq Chans /\ disturbed' \subseteq Conns /\ pc' \in [Conns -> PCs]
    BY <1>1, <1>4, DisturbsType DEF CaptureGo, TypeOK
  <2> QED BY <1>4, <2>1, <2>2, <2>3, <2>4 DEF CaptureGo, TypeOK
<1>5. CASE CaptureTrigger(c)
  <2>1. upset' \subseteq Chans /\ disturbed' \subseteq Conns
    BY <1>1, <1>5, DisturbsType DEF CaptureTrigger, TypeOK
  <2>2. engine' \in [Chans -> {"idle", "armed", "running"}] /\ pc' \in [Conns -> PCs]
    BY <1>1, <1>5 DEF CaptureTrigger, TypeOK
  <2> QED BY <1>5, <2>1, <2>2 DEF CaptureTrigger, TypeOK
<1> QED BY <1>2, <1>3, <1>4, <1>5

LEMMA EngineTypes ==
  ASSUME TypeOK, NEW ch \in Chans, EngineDone(ch)
  PROVE  TypeOK'
<1>1. mem' \in [Chans -> [0..(MaxSamples - 1) -> Marks]]
  <2>1. PICK n \in {len[ch] - 1, len[ch]} :
          mem' = [mem EXCEPT ![ch] = [i \in DOMAIN @ |->
                    IF i >= n THEN @[i] ELSE IF ch \in upset' THEN "old" ELSE "new"]]
    BY Zenon DEF EngineDone
  <2> DEFINE filled == [i \in DOMAIN mem[ch] |->
                          IF i >= n THEN mem[ch][i]
                          ELSE IF ch \in upset' THEN "old" ELSE "new"]
  <2>2. mem \in [Chans -> [0..(MaxSamples - 1) -> Marks]]
    BY DEF TypeOK
  <2>3. filled \in [0..(MaxSamples - 1) -> Marks]
    BY <2>2 DEF Marks
  <2>4. mem' = [mem EXCEPT ![ch] = filled]
    BY <2>1
  <2> HIDE DEF filled
  <2> QED BY <2>2, <2>3, <2>4
<1>2. engine' \in [Chans -> {"idle", "armed", "running"}]
  BY DEF EngineDone, TypeOK
<1>3. upset' \subseteq Chans
  BY DEF EngineDone, TypeOK
<1>4. len' \in [Chans -> 0..MaxSamples]
  <2>1. 0 \in 0..MaxSamples
    BY ServerAssumption
  <2> QED BY <2>1 DEF EngineDone, TypeOK
<1> QED BY <1>1, <1>2, <1>3, <1>4 DEF EngineDone, TypeOK, threadVars, historyVars

LEMMA StepTypes ==
  ASSUME TypeOK, Places, [Next]_vars
  PROVE  TypeOK'
<1>1. ASSUME NEW c \in Conns, Accept(c) \/ Disconnect(c) PROVE TypeOK'
  BY <1>1, ConnectionTypes
<1>2. ASSUME NEW c \in Conns, Thread(c) PROVE TypeOK'
  <2>1. HandlesCommand(c)
    BY DEF Places
  <2> QED
    BY <1>2, <2>1, ConnectionTypes, LoopTypes, HandleTypes, ReplyTypes, CaptureTypes
    DEF Thread
<1>3. ASSUME NEW c \in Conns, NEW command \in Commands, RecvCommand(c, command)
      PROVE TypeOK'
  BY <1>3, LoopTypes DEF Places
<1>4. ASSUME NEW ch \in Chans, EngineDone(ch) PROVE TypeOK'
  BY <1>4, EngineTypes
<1>5. CASE UNCHANGED vars
  BY <1>5 DEF vars, threadVars, sharedVars, historyVars, TypeOK
<1> QED BY <1>1, <1>2, <1>3, <1>4, <1>5 DEF Next

-----------------------------------------------------------------------------
(* Steps of one connection leave the threads of the others alone. *)
ConnStep(c) == \/ Accept(c) \/ Disconnect(c) \/ Thread(c)
                 \/ \E command \in Commands : RecvCommand(c, command)

ThreadSame(d) ==
  /\ conn'[d] = conn[d] /\ pc'[d] = pc[d] /\ cmd'[d] = cmd[d]
  /\ remaining_bytes'[d] = remaining_bytes[d]
  /\ error'[d] = error[d] /\ resp'[d] = resp[d] /\ buf'[d] = buf[d]
  /\ want'[d] = want[d] /\ sent'[d] = sent[d] /\ fresh'[d] = fresh[d]
  /\ clean'[d] = clean[d]

LEMMA OthersStand ==
  ASSUME TypeOK, NEW c \in Conns, NEW d \in Conns \ {c}, ConnStep(c)
  PROVE  ThreadSame(d)
<1> USE DEF TypeOK, ThreadSame, Goto, sharedVars, historyVars
<1>1. CASE Accept(c) \/ Disconnect(c) \/ RecvEnds(c) \/ CloseSocket(c)
  BY <1>1 DEF Accept, Disconnect, RecvEnds, CloseSocket
<1>2. ASSUME NEW command \in Commands, RecvCommand(c, command) PROVE ThreadSame(d)
  BY <1>2 DEF RecvCommand
<1>3. CASE SendResponse(c) \/ SendFails(c)
  BY <1>3 DEF SendResponse, SendFails
<1>4. CASE HandleUnsupported(c) \/ HandleInvalid(c) \/ HandleCapture(c) \/ HandleRegister(c)
  BY <1>4 DEF HandleUnsupported, HandleInvalid, HandleCapture, HandleRegister
<1>5. CASE GetSamples(c) \/ PollIdle(c) \/ PollTimeout(c)
  BY <1>5 DEF GetSamples, PollIdle, PollTimeout
<1>6. CASE Advance(c) \/ ReplyMessage(c) \/ ReplyRegister(c)
  BY <1>6 DEF Advance, ReplyMessage, ReplyRegister
<1>7. CASE CaptureSet(c) \/ CaptureCheck(c)
  BY <1>7 DEF CaptureSet, CaptureCheck
<1>8. CASE CaptureGo(c) \/ CaptureTrigger(c)
  BY <1>8 DEF CaptureGo, CaptureTrigger
<1> QED BY <1>1, <1>2, <1>3, <1>4, <1>5, <1>6, <1>7, <1>8 DEF ConnStep, Thread

-----------------------------------------------------------------------------
(* Places is kept by every step of the thread it speaks of. *)

(* A packet never takes the count of bytes sent past the end by more than  *)
(* itself: what Budget says of sent, from what it says of the bytes left.  *)
LEMMA BytesToSamples ==
  ASSUME NEW n \in Nat, NEW val \in Nat, NEW r \in Int, r > 0,
         r + n * SampleSize = Signed(val * SampleSize)
  PROVE  n < val
<1>1. n * SampleSize \in Nat /\ val * SampleSize \in Nat
  BY TimesNat, ServerAssumption
<1>2. Signed(val * SampleSize) <= val * SampleSize /\ Signed(val * SampleSize) \in Int
  BY <1>1, SignedFacts
<1>3. n * SampleSize < val * SampleSize
  BY <1>1, <1>2
<1> QED BY <1>3, TimesCancel, ServerAssumption

LEMMA PlaceRecv ==
  ASSUME TypeOK, NEW c \in Conns, NEW command \in Commands, RecvCommand(c, command)
  PROVE  HandlesCommand(c)' /\ Budget(c)'
<1> DEFINE r == prepare_to_handle(command)
<1>1. r \in -IntHalf..(IntHalf - 1)
  BY PrepareType
<1>2. /\ pc'[c] = Loop(r, error[c]) /\ cmd'[c] = command /\ remaining_bytes'[c] = r
      /\ sent'[c] = 0 /\ error'[c] = error[c] /\ resp'[c] = resp[c]
      /\ conn'[c] = "open"
  BY DEF RecvCommand, TypeOK
<1>3. pc'[c] \in {"recv", "handle"} /\ (pc'[c] = "handle" => r > 0 /\ ~error[c])
  BY <1>2 DEF Loop
<1>4. command.val \in Nat
  BY ServerAssumption DEF Commands
<1>5. HandlesCommand(c)'
  <2>1. pc'[c] \notin Between => remaining_bytes'[c] \in 1..(IntHalf - 1)
    BY <1>1, <1>2, <1>3, ServerAssumption
  <2>2. pc'[c] \notin Between => cmd'[c] \in Commands
    BY <1>2
  <2> QED BY <1>2, <1>3, <2>1, <2>2 DEF HandlesCommand, Capture, Commands
<1>6. Budget(c)'
  <2>1. command.op = "GET_SAMPLES" => r = Signed(command.val * SampleSize)
    BY DEF prepare_to_handle
  <2>2. 0 * SampleSize = 0 /\ 0 < command.val + MaxPacket
    BY <1>4, ServerAssumption
  <2> QED BY <1>1, <1>2, <2>1, <2>2 DEF Budget
<1> QED BY <1>5, <1>6

LEMMA PlaceSend ==
  ASSUME TypeOK, NEW c \in Conns, HandlesCommand(c), Budget(c), SendResponse(c)
  PROVE  HandlesCommand(c)' /\ Budget(c)'
<1> DEFINE v == valid_bytes_packet(c)
           r == remaining_bytes[c] - v
<1>1. /\ pc'[c] = Loop(r, error[c]) /\ cmd'[c] = cmd[c] /\ remaining_bytes'[c] = r
      /\ error'[c] = error[c] /\ resp'[c] = resp[c] /\ conn'[c] = conn[c]
      /\ conn[c] # "closed"
  BY DEF SendResponse, TypeOK, HandlesCommand
<1>2. /\ pc[c] = "send" /\ cmd[c] \in Commands /\ remaining_bytes[c] \in 1..(IntHalf - 1)
  BY DEF SendResponse, HandlesCommand
<1>3. cmd[c].val \in Nat /\ resp[c].num \in 0..MaxPacket /\ sent[c] \in Nat
  BY <1>2, ServerAssumption DEF Commands, TypeOK, Responses
<1>4. v \in -1..IntHalf /\ (~error[c] => v >= 0)
  <2>1. resp[c].num * SampleSize \in Nat
    BY <1>3, TimesNat, ServerAssumption
  <2> QED BY PacketBytes, <2>1 DEF valid_bytes_packet
<1>5. pc'[c] \in {"recv", "handle"} /\ (pc'[c] = "handle" => r > 0 /\ ~error[c])
  BY <1>1 DEF Loop
<1>6. HandlesCommand(c)'
  <2>1. pc'[c] \notin Between => remaining_bytes'[c] \in 1..(IntHalf - 1)
    BY <1>1, <1>2, <1>4, <1>5, ServerAssumption
  <2> QED BY <1>1, <1>2, <1>5, <2>1 DEF HandlesCommand, Capture
<1>7. ASSUME cmd[c].op = "GET_SAMPLES"
      PROVE  /\ pc'[c] \notin Between => r + sent'[c] * SampleSize = Signed(cmd[c].val * SampleSize)
             /\ sent'[c] < cmd[c].val + MaxPacket
  <2>1. CASE error[c]
    <3>1. pc'[c] = "recv"
      BY <1>5, <2>1
    <3>2. sent'[c] = sent[c]
      BY <2>1 DEF SendResponse
    <3> QED BY <1>7, <3>1, <3>2 DEF Budget
  <2>2. CASE ~error[c]
    <3>1. IsData(resp[c])
      BY <1>2, <1>7, <2>2 DEF HandlesCommand
    <3>2. sent'[c] = sent[c] + resp[c].num
      BY <2>2, <3>1 DEF SendResponse, TypeOK
    <3>3. remaining_bytes[c] + sent[c] * SampleSize = Signed(cmd[c].val * SampleSize)
      BY <1>2, <1>7 DEF Budget
    <3>4. sent[c] < cmd[c].val
      <4>1. /\ sent[c] \in Nat /\ cmd[c].val \in Nat
            /\ remaining_bytes[c] \in Int /\ remaining_bytes[c] > 0
        BY <1>2, <1>3, ServerAssumption
      <4> QED BY <3>3, <4>1, BytesToSamples
    <3>5. v = resp[c].num * SampleSize
      BY <2>2, <3>1 DEF valid_bytes_packet
    <3>6. sent'[c] * SampleSize = sent[c] * SampleSize + resp[c].num * SampleSize
      BY <1>3, <3>2, ServerAssumption
    <3>7. sent[c] * SampleSize \in Nat /\ resp[c].num * SampleSize \in Nat
      BY <1>3, TimesNat, ServerAssumption
    <3>8. r + sent'[c] * SampleSize = Signed(cmd[c].val * SampleSize)
      BY <1>2, <3>3, <3>5, <3>6, <3>7, ServerAssumption
    <3> QED BY <1>3, <3>2, <3>4, <3>8, ServerAssumption
  <2> QED BY <2>1, <2>2
<1>8. Budget(c)'
  BY <1>1, <1>7 DEF Budget
<1> QED BY <1>6, <1>8

(* The other steps send nothing and take nothing off remaining_bytes. *)
LEMMA BudgetKept ==
  ASSUME NEW c \in Conns, Budget(c), pc[c] \notin Between,
         cmd'[c] = cmd[c], remaining_bytes'[c] = remaining_bytes[c], sent'[c] = sent[c]
  PROVE  Budget(c)'
BY DEF Budget

LEMMA PlaceThread ==
  ASSUME TypeOK, NEW c \in Conns, HandlesCommand(c), Budget(c),
         Accept(c) \/ Disconnect(c) \/ Thread(c)
  PROVE  HandlesCommand(c)' /\ Budget(c)'
<1> USE DEF Goto, sharedVars, historyVars, Capture
<1>1. CASE Accept(c) \/ Disconnect(c) \/ RecvEnds(c)
  BY <1>1 DEF Accept, Disconnect, RecvEnds, HandlesCommand, Budget, TypeOK
<1>2. CASE CloseSocket(c) \/ SendFails(c)
  <2>1. pc'[c] = "recv" /\ cmd'[c] = NoCommand
    BY <1>2 DEF CloseSocket, SendFails, TypeOK
  <2> QED BY <2>1 DEF HandlesCommand, Budget, NoCommand
<1>3. CASE SendResponse(c)
  BY <1>3, PlaceSend
<1>4. CASE \/ HandleUnsupported(c) \/ HandleInvalid(c) \/ HandleCapture(c)
           \/ HandleRegister(c)
  <2>1. HandlesCommand(c)'
    BY <1>4 DEF HandleUnsupported, HandleInvalid, HandleCapture, HandleRegister,
       HandlesCommand, TypeOK
  <2> QED BY <1>4, <2>1, BudgetKept
    DEF HandleUnsupported, HandleInvalid, HandleCapture, HandleRegister
<1>5. CASE GetSamples(c)
  <2>1. HandlesCommand(c)'
    BY <1>5 DEF GetSamples, HandlesCommand, TypeOK
  <2> QED BY <1>5, <2>1, BudgetKept DEF GetSamples
<1>6. CASE PollIdle(c) \/ PollTimeout(c)
  <2>1. HandlesCommand(c)'
    BY <1>6 DEF PollIdle, PollTimeout, HandlesCommand, TypeOK
  <2> QED BY <1>6, <2>1, BudgetKept DEF PollIdle, PollTimeout
<1>7. CASE Advance(c)
  <2>1. HandlesCommand(c)'
    BY <1>7 DEF Advance, HandlesCommand, TypeOK, IsData
  <2> QED BY <1>7, <2>1, BudgetKept DEF Advance
<1>8. CASE ReplyMessage(c) \/ ReplyRegister(c)
  <2>1. HandlesCommand(c)'
    BY <1>8 DEF ReplyMessage, ReplyRegister, HandlesCommand, TypeOK, IsData
  <2> QED BY <1>8, <2>1, BudgetKept DEF ReplyMessage, ReplyRegister
<1>9. CASE CaptureSet(c) \/ CaptureCheck(c) \/ CaptureGo(c) \/ CaptureTrigger(c)
  <2>1. HandlesCommand(c)'
    BY <1>9 DEF CaptureSet, CaptureCheck, CaptureGo, CaptureTrigger, HandlesCommand, TypeOK
  <2> QED BY <1>9, <2>1, BudgetKept DEF CaptureSet, CaptureCheck, CaptureGo, CaptureTrigger
<1> QED BY <1>1, <1>2, <1>3, <1>4, <1>5, <1>6, <1>7, <1>8, <1>9 DEF Thread

(* A thread that did not step keeps its place. *)
LEMMA PlaceSame ==
  ASSUME NEW d \in Conns, HandlesCommand(d), Budget(d), ThreadSame(d)
  PROVE  HandlesCommand(d)' /\ Budget(d)'
BY DEF ThreadSame, HandlesCommand, Budget

LEMMA StepPlaces ==
  ASSUME TypeOK, Places, [Next]_vars
  PROVE  Places'
<1>1. ASSUME NEW c \in Conns, ConnStep(c) PROVE Places'
  <2>1. HandlesCommand(c)' /\ Budget(c)'
    BY <1>1, PlaceThread, PlaceRecv DEF ConnStep, Places
  <2>2. ASSUME NEW d \in Conns \ {c} PROVE HandlesCommand(d)' /\ Budget(d)'
    BY <1>1, <2>2, OthersStand, PlaceSame DEF Places
  <2> QED BY <2>1, <2>2 DEF Places
<1>2. CASE UNCHANGED <<threadVars, historyVars>>
  <2>1. ASSUME NEW d \in Conns PROVE ThreadSame(d)
    BY <1>2 DEF threadVars, historyVars, ThreadSame
  <2> QED BY <2>1, PlaceSame DEF Places
<1> QED BY <1>1, <1>2 DEF Next, EngineDone, vars, ConnStep

LEMMA InitPlaces ==
  ASSUME Init
  PROVE  TypeOK /\ Places
<1>1. TypeOK
  BY ServerAssumption DEF Init, TypeOK, PCs, NoResp, Responses, Marks
<1>2. Places
  BY DEF Init, Places, HandlesCommand, Budget, Capture, NoCommand
<1> QED BY <1>1, <1>2

(* The inductive invariant of the theorems about threads. *)
THEOREM PlacesHold == Spec => [](TypeOK /\ Places)
<1>1. Init => TypeOK /\ Places
  BY InitPlaces
<1>2. TypeOK /\ Places /\ [Next]_vars => TypeOK' /\ Places'
  BY StepTypes, StepPlaces
<1> QED BY <1>1, <1>2, PTL DEF Spec

(***************************************************************************)
(* Every variable keeps its type under every interleaving of connections,  *)
(* and so no response is ever larger than the packet that                  *)
(* send_response_packet has room for.                                      *)
(***************************************************************************)
THEOREM TypeCorrect == Spec => []TypeOK
BY PlacesHold, PTL

(***************************************************************************)
(* The loop of server.c:379 stops within the packet that passes the end of *)
(* what GET_SAMPLES asked for, whatever other connections do to the        *)
(* handler it reads from and even where val in bytes overflows an int.     *)
(***************************************************************************)
THEOREM AnswerIsBounded == Spec => []OvershootWithinPacket
<1>1. Places => OvershootWithinPacket
  BY DEF Places, Budget, OvershootWithinPacket
<1> QED BY <1>1, PlacesHold, PTL

-----------------------------------------------------------------------------
(* Channels: a step of one connection that changes a channel disturbs      *)
(* every other command that names it.                                      *)
ChannelSame(ch) ==
  /\ samples_count'[ch] = samples_count[ch]
  /\ samples_count_pos'[ch] = samples_count_pos[ch]
  /\ engine'[ch] = engine[ch] /\ len'[ch] = len[ch] /\ mem'[ch] = mem[ch]

Resets(c) == CloseSocket(c) \/ \E command \in Commands : RecvCommand(c, command)

(* The steps of a thread that read a channel only, or not at all. *)
LEMMA ReadersStand ==
  ASSUME NEW c \in Conns, ConnStep(c),
         ~(Advance(c) \/ ReplyMessage(c) \/ ReplyRegister(c)),
         ~(CaptureSet(c) \/ CaptureGo(c) \/ CaptureTrigger(c))
  PROVE  UNCHANGED sharedVars /\ (Resets(c) \/ disturbed' = disturbed)
<1>1. CASE \/ Accept(c) \/ Disconnect(c) \/ RecvEnds(c) \/ Resets(c)
  BY <1>1 DEF Accept, Disconnect, RecvEnds, Resets, CloseSocket, RecvCommand, historyVars
<1>2. CASE \/ SendResponse(c) \/ SendFails(c) \/ HandleUnsupported(c)
           \/ HandleInvalid(c) \/ HandleCapture(c) \/ HandleRegister(c)
  BY <1>2 DEF SendResponse, SendFails, HandleUnsupported, HandleInvalid, HandleCapture,
     HandleRegister, historyVars
<1>3. CASE GetSamples(c) \/ PollIdle(c) \/ PollTimeout(c) \/ CaptureCheck(c)
  BY <1>3 DEF GetSamples, PollIdle, PollTimeout, CaptureCheck, historyVars
<1> QED BY <1>1, <1>2, <1>3 DEF ConnStep, Thread, Resets

(* A command that is disturbed stays so until the next one is received,    *)
(* and a channel that is out of step stays so.                             *)
LEMMA DisturbedStays ==
  ASSUME NEW c \in Conns, ConnStep(c)
  PROVE  /\ disturbed \ {c} \subseteq disturbed'
         /\ disturbed \subseteq disturbed' \/ Resets(c)
         /\ upset \subseteq upset'
<1>1. CASE Advance(c) \/ CaptureSet(c)
  BY <1>1 DEF Advance, CaptureSet, Disturbs
<1>2. CASE ReplyMessage(c) \/ ReplyRegister(c)
  BY <1>2 DEF ReplyMessage, ReplyRegister, WriteReply, Disturbs
<1>3. CASE CaptureGo(c) \/ CaptureTrigger(c)
  BY <1>3 DEF CaptureGo, CaptureTrigger, Disturbs
<1>4. CASE Resets(c)
  BY <1>4 DEF Resets, CloseSocket, RecvCommand, sharedVars
<1> QED BY <1>1, <1>2, <1>3, <1>4, ReadersStand DEF sharedVars

LEMMA OthersUndisturbed ==
  ASSUME TypeOK, NEW c \in Conns, HandlesCommand(c), ConnStep(c),
         NEW d \in Conns \ {c}, d \notin disturbed', pc[d] # "recv", cmd[d].ch \in Chans
  PROVE  ChannelSame(cmd[d].ch)
<1> DEFINE ch == cmd[d].ch
<1> USE DEF ChannelSame, Goto
<1>1. ASSUME NEW x, Disturbs(c, x) PROVE ch # x
  BY <1>1 DEF Disturbs
<1>2. CASE Advance(c) \/ CaptureSet(c) \/ CaptureGo(c) \/ CaptureTrigger(c)
  <2>1. cmd[c].ch \in Chans
    BY <1>2, HandledCommand
    DEF Advance, CaptureSet, CaptureGo, CaptureTrigger, Between
  <2>2. ch # cmd[c].ch
    BY <1>1, <1>2 DEF Advance, CaptureSet, CaptureGo, CaptureTrigger
  <2>3. CASE Advance(c)
    BY <2>1, <2>2, <2>3 DEF Advance, TypeOK
  <2>4. CASE CaptureSet(c)
    BY <2>1, <2>2, <2>4 DEF CaptureSet, TypeOK
  <2>5. CASE CaptureGo(c)
    <3>1. PICK l : len' = [len EXCEPT ![cmd[c].ch] = l]
      BY <2>5 DEF CaptureGo
    <3> QED BY <2>1, <2>2, <2>5, <3>1 DEF CaptureGo, TypeOK
  <2>6. CASE CaptureTrigger(c)
    BY <2>1, <2>2, <2>6 DEF CaptureTrigger, TypeOK
  <2> QED BY <1>2, <2>3, <2>4, <2>5, <2>6
<1>3. CASE ReplyMessage(c) \/ ReplyRegister(c)
  <2>1. PICK n \in Nat : WriteReply(c, n)
    BY <1>3, ServerAssumption DEF ReplyMessage, ReplyRegister
  <2>2. mem'[ch] = mem[ch]
    <3>1. CASE buf[c] = Wild
      BY <2>1, <3>1 DEF WriteReply
    <3>2. CASE buf[c] # Wild
      <4>1. ch # buf[c].ch
        BY <1>1, <2>1, <3>2 DEF WriteReply
      <4> QED BY <2>1, <3>2, <4>1 DEF WriteReply, TypeOK
    <3> QED BY <3>1, <3>2
  <2> QED BY <1>3, <2>2 DEF ReplyMessage, ReplyRegister
<1>4. CASE UNCHANGED sharedVars
  BY <1>4 DEF sharedVars
<1> QED BY <1>2, <1>3, <1>4, ReadersStand

(* What is said of a thread and its channel stands while both do. *)
LEMMA OwnedSame ==
  ASSUME NEW d \in Conns, HandlesCommand(d), Owned(d), ThreadSame(d),
         upset \subseteq upset', pc[d] \notin Between => ChannelSame(cmd[d].ch)
  PROVE  Owned(d)'
<1>1. CASE pc[d] \in Between
  <2>1. pc'[d] \in Between
    BY <1>1 DEF ThreadSame
  <2>2. Settled(d)' /\ Within(d)' /\ CleanStart(d)'
    BY <2>1 DEF Between, Owned, Settled, SendingData, Within, CleanStart, Capture, ThreadSame
  <2>3. Exact(d)'
    BY <1>1, <2>1 DEF Between, Owned, Exact, Capture, ThreadSame
  <2>4. Contents(d)'
    BY <1>1, <2>1 DEF Between, Owned, Contents, ThreadSame
  <2> QED BY <2>2, <2>3, <2>4 DEF Owned
<1>2. CASE pc[d] \notin Between
  <2>1. Settled(d)' /\ CleanStart(d)'
    BY <1>2 DEF Owned, Settled, SendingData, CleanStart, ThreadSame, ChannelSame
  <2>2. Within(d)'
    BY <1>2 DEF Owned, Within, SendingData, ThreadSame, ChannelSame
  <2>3. Exact(d)'
    BY <1>2 DEF Owned, Exact, ThreadSame, ChannelSame
  <2>4. Contents(d)'
    BY <1>2 DEF Owned, Contents, AllNew, ThreadSame, ChannelSame
  <2> QED BY <2>1, <2>2, <2>3, <2>4 DEF Owned
<1> QED BY <1>1, <1>2

-----------------------------------------------------------------------------
(* Owned is kept by the thread it speaks of, action by action. *)

LEMMA OwnedReset ==
  ASSUME TypeOK, NEW c \in Conns, Resets(c)
  PROVE  Owned(c)'
<1> USE DEF Capture, Settled, SendingData, Within, CleanStart, Exact, Contents
<1>1. CASE CloseSocket(c)
  <2>1. pc'[c] = "recv" /\ cmd'[c].op = "NONE"
    BY <1>1 DEF CloseSocket, TypeOK, NoCommand
  <2> QED BY <2>1 DEF Owned
<1>2. ASSUME NEW command \in Commands, RecvCommand(c, command) PROVE Owned(c)'
  <2>1. pc'[c] \in {"recv", "handle"} /\ ~fresh'[c] /\ clean'[c]
    BY <1>2 DEF RecvCommand, Loop, TypeOK
  <2> QED BY <2>1 DEF Owned
<1> QED BY <1>1, <1>2 DEF Resets

LEMMA OwnedConnection ==
  ASSUME TypeOK, NEW c \in Conns, HandlesCommand(c), Owned(c),
         Accept(c) \/ Disconnect(c) \/ RecvEnds(c) \/ SendFails(c)
  PROVE  Owned(c)'
<1> USE DEF Capture, Settled, SendingData, Within, CleanStart, Exact, Contents
<1>1. CASE SendFails(c)
  <2>1. pc'[c] = "recv" /\ cmd'[c].op = "NONE"
    BY <1>1 DEF SendFails, TypeOK, NoCommand
  <2> QED BY <2>1 DEF Owned
<1>2. CASE Accept(c) \/ RecvEnds(c)
  <2>1. /\ pc[c] = "recv" /\ pc'[c] \in {"recv", "close"} /\ upset' = upset
        /\ cmd'[c] = cmd[c] /\ sent'[c] = sent[c] /\ fresh'[c] = fresh[c]
        /\ clean'[c] = clean[c] /\ error'[c] = error[c]
    BY <1>2 DEF Accept, RecvEnds, HandlesCommand, TypeOK, sharedVars, historyVars
  <2> QED BY <2>1 DEF Owned
<1>3. CASE Disconnect(c)
  BY <1>3 DEF Disconnect, Owned, AllNew, sharedVars, historyVars
<1> QED BY <1>1, <1>2, <1>3

(* The packet a fresh GET_SAMPLES sends goes on where the last one ended   *)
(* and holds samples of its own capture.                                   *)
LEMMA FreshContinues ==
  ASSUME TypeOK, NEW c \in Conns, cmd[c].ch \in Chans, cmd[c].val \in 0..MaxSamples,
         AllNew(cmd[c].ch, cmd[c].val), sent[c] \in Nat, resp[c].num \in Nat,
         buf[c] = [ch |-> cmd[c].ch, off |-> sent[c]],
         sent[c] + resp[c].num <= cmd[c].val
  PROVE  Continues(c)
<1> DEFINE ch == cmd[c].ch
           val == cmd[c].val
<1>1. DOMAIN mem[ch] = 0..(MaxSamples - 1)
  BY DEF TypeOK
<1>2. ASSUME NEW i \in Packet(c)
      PROVE  Mark(ch, i) = "new" \/ (ch \in ShortChans /\ i = val - 1)
  <2>1. i \in sent[c]..(sent[c] + resp[c].num - 1)
    BY DEF Packet
  <2>2. i \in 0..(val - 1) /\ i \in 0..(MaxSamples - 1)
    BY <2>1, ServerAssumption
  <2> QED BY <1>1, <2>2 DEF Mark, AllNew
<1> QED BY <1>2 DEF Continues

LEMMA OwnedSend ==
  ASSUME TypeOK, NEW c \in Conns, HandlesCommand(c), Budget(c), Owned(c), SendResponse(c)
  PROVE  Owned(c)'
<1> DEFINE ch == cmd[c].ch
           val == cmd[c].val
<1>1. /\ pc[c] = "send"
      /\ pc'[c] \in {"recv", "handle"}
      /\ cmd'[c] = cmd[c] /\ buf'[c] = buf[c] /\ error'[c] = error[c]
      /\ fresh'[c] = fresh[c] /\ upset' = upset /\ ChannelSame(ch)
  BY DEF SendResponse, Loop, TypeOK, ChannelSame, sharedVars
<1>2. ch \in Chans /\ val \in Nat /\ sent[c] \in Nat /\ resp[c].num \in Nat
  <2>1. ch \in Chans /\ val \in Nat
    BY <1>1, HandledCommand
  <2>2. sent[c] \in Nat /\ resp[c].num \in Nat
    BY ServerAssumption DEF TypeOK, Responses
  <2> QED BY <2>1, <2>2
<1>3. Settled(c)' /\ Within(c)'
  BY <1>1 DEF Owned, Settled, SendingData, Within, Capture
<1>4. CleanStart(c)'
  <2>1. CASE IsData(resp[c]) /\ ~error[c]
    <3>1. sent'[c] = sent[c] + resp[c].num
      BY <2>1 DEF SendResponse, TypeOK
    <3>2. resp[c].num > 0
      BY <2>1 DEF SendResponse, NoResp, IsData
    <3> QED BY <1>2, <3>1, <3>2 DEF CleanStart
  <2>2. CASE ~(IsData(resp[c]) /\ ~error[c])
    BY <1>1, <2>2 DEF SendResponse, CleanStart, Owned
  <2> QED BY <2>1, <2>2
<1>5. ASSUME cmd[c].op = "GET_SAMPLES", fresh[c], ~error[c]
      PROVE  /\ SendingData(c) /\ engine[ch] = "idle" /\ val <= MaxSamples
             /\ samples_count[ch] = val
             /\ buf[c] = [ch |-> ch, off |-> sent[c]]
             /\ sent[c] + resp[c].num <= val
             /\ sent'[c] = sent[c] + resp[c].num
             /\ sent'[c] > 0 /\ samples_count_pos[ch] = sent'[c]
             /\ pc'[c] = "recv" => sent'[c] = val
  <2>1. pc[c] = "send" /\ IsData(resp[c])
    BY <1>5 DEF HandlesCommand, SendResponse
  <2>2. SendingData(c) /\ engine[ch] = "idle"
    BY <1>5, <2>1 DEF Owned, Settled, SendingData
  <2>3. /\ val <= MaxSamples /\ samples_count[ch] = val
        /\ buf[c] = [ch |-> ch, off |-> sent[c]]
        /\ resp[c].num > 0 /\ samples_count_pos[ch] = sent[c] + resp[c].num
    BY <1>5, <2>1 DEF Owned, Exact
  <2>4. sent[c] + resp[c].num <= val
    BY <2>2, <2>3 DEF Owned, Within
  <2>5. sent'[c] = sent[c] + resp[c].num
    BY <1>5, <2>1 DEF SendResponse, TypeOK
  <2>6. ASSUME pc'[c] = "recv" PROVE sent[c] + resp[c].num >= val
    <3>1. sent[c] * SampleSize \in Nat /\ resp[c].num * SampleSize \in Nat
          /\ val * SampleSize \in Nat
      BY <1>2, TimesNat, ServerAssumption
    <3>2. val * SampleSize < IntHalf
      BY <1>2, <2>3, <3>1, TimesMonotone, TimesNat, SizeAssumption, ServerAssumption
    <3>3. remaining_bytes[c] + sent[c] * SampleSize = val * SampleSize
      BY <1>5, <2>1, <3>1, <3>2, SignedFacts DEF Budget, Between
    <3>4. remaining_bytes[c] - resp[c].num * SampleSize <= 0
      <4>1. valid_bytes_packet(c) = resp[c].num * SampleSize
        BY <1>5, <2>1 DEF valid_bytes_packet
      <4>2. Loop(remaining_bytes[c] - resp[c].num * SampleSize, error[c]) = "recv"
        BY <2>6, <4>1 DEF SendResponse, TypeOK
      <4>3. remaining_bytes[c] \in Int
        BY ServerAssumption DEF TypeOK
      <4> QED BY <1>5, <3>1, <4>2, <4>3 DEF Loop
    <3>5. (sent[c] + resp[c].num) * SampleSize = sent[c] * SampleSize + resp[c].num * SampleSize
      BY <1>2, ServerAssumption
    <3>6. remaining_bytes[c] \in Int
      BY ServerAssumption DEF TypeOK
    <3>7. ~((sent[c] + resp[c].num) * SampleSize < val * SampleSize)
      BY <3>1, <3>3, <3>4, <3>5, <3>6
    <3>8. ASSUME sent[c] + resp[c].num < val PROVE FALSE
      <4>1. PICK n \in Nat : n = sent[c] + resp[c].num /\ n + 1 <= val
        BY <1>2, <3>8
      <4>2. (n + 1) * SampleSize <= val * SampleSize
        BY <1>2, <4>1, TimesMonotone, ServerAssumption
      <4>3. (n + 1) * SampleSize = n * SampleSize + SampleSize
        BY ServerAssumption
      <4>4. n * SampleSize \in Nat
        BY TimesNat, ServerAssumption
      <4> QED BY <3>1, <3>7, <4>1, <4>2, <4>3, <4>4, ServerAssumption
    <3> QED BY <1>2, <3>8
  <2>7. pc'[c] = "recv" => sent'[c] = val
    BY <1>2, <2>4, <2>5, <2>6
  <2> QED BY <1>2, <2>2, <2>3, <2>4, <2>5, <2>7
<1>6. Exact(c)'
  BY <1>1, <1>5 DEF Exact, ChannelSame, Capture
<1>7. Contents(c)'
  <2> SUFFICES ASSUME cmd[c].op = "GET_SAMPLES", fresh[c], ~error[c], ch \notin upset
               PROVE  clean'[c] /\ engine[ch] = "idle" /\ AllNew(ch, val)
    BY <1>1 DEF Contents, AllNew, ChannelSame
  <2>1. clean[c] /\ engine[ch] = "idle" /\ AllNew(ch, val)
    BY <1>1, <1>5 DEF Owned, Contents
  <2>2. Continues(c)
    BY <1>2, <1>5, <2>1, FreshContinues, ServerAssumption
  <2>3. IsData(resp[c])
    BY <1>5 DEF SendingData
  <2>4. clean'[c]
    BY <2>1, <2>2, <2>3, Zenon DEF SendResponse, TypeOK
  <2> QED BY <2>1, <2>4
<1> QED BY <1>3, <1>4, <1>6, <1>7 DEF Owned

LEMMA OwnedHandle ==
  ASSUME TypeOK, NEW c \in Conns, HandlesCommand(c), Owned(c),
         HandleUnsupported(c) \/ HandleInvalid(c) \/ HandleCapture(c) \/ HandleRegister(c)
  PROVE  Owned(c)'
<1>1. /\ pc[c] = "handle" /\ pc'[c] \in {"send", "fail", "cap_set", "ok"}
      /\ pc'[c] = "send" => error'[c]
      /\ pc'[c] = "cap_set" => cmd[c].op = "CAPTURE"
      /\ cmd'[c] = cmd[c] /\ buf'[c] = buf[c] /\ sent'[c] = sent[c] /\ fresh'[c] = fresh[c]
      /\ clean'[c] = clean[c] /\ want'[c] = want[c] /\ upset' = upset
  BY DEF HandleUnsupported, HandleInvalid, HandleCapture, HandleRegister, Goto, TypeOK,
     historyVars, sharedVars
<1>2. ~error[c]
  BY <1>1 DEF HandlesCommand
<1>3. Settled(c)' /\ Within(c)' /\ CleanStart(c)'
  BY <1>1 DEF Owned, Settled, SendingData, Within, CleanStart, Capture
<1>4. Exact(c)' /\ Contents(c)'
  BY <1>1, <1>2 DEF Owned, Exact, Contents, Capture
<1> QED BY <1>3, <1>4 DEF Owned

LEMMA OwnedGet ==
  ASSUME TypeOK, NEW c \in Conns, HandlesCommand(c), Budget(c), Owned(c), GetSamples(c)
  PROVE  Owned(c)'
<1> DEFINE ch == cmd[c].ch
           val == cmd[c].val
           pos == samples_count_pos[ch]
           own == Available(c) <= 0
<1>1. /\ pc[c] = "handle" /\ cmd[c].op = "GET_SAMPLES" /\ val <= MaxSamples
      /\ pc'[c] = (IF own THEN "cap_set" ELSE "poll")
      /\ want'[c] = Least(IF own THEN val ELSE Available(c), MaxPacket)
      /\ cmd'[c] = cmd[c] /\ buf'[c] = buf[c] /\ sent'[c] = sent[c] /\ upset' = upset
      /\ clean'[c] = clean[c] /\ error'[c] = error[c] /\ ChannelSame(ch)
  BY DEF GetSamples, Goto, TypeOK, ChannelSame, sharedVars
<1>2. ch \in Chans /\ val \in Nat /\ sent[c] \in Nat
  BY <1>1, HandledCommand DEF TypeOK
<1>3. pos \in Nat /\ samples_count[ch] \in Nat
  BY <1>2, ServerAssumption DEF TypeOK
<1>4. sent[c] < val
  <2>1. remaining_bytes[c] \in Int /\ remaining_bytes[c] > 0
    BY <1>1, ServerAssumption DEF HandlesCommand
  <2>2. remaining_bytes[c] + sent[c] * SampleSize = Signed(val * SampleSize)
    BY <1>1 DEF Budget
  <2> QED BY <1>2, <2>1, <2>2, BytesToSamples
<1>5. Within(c)'
  <2>1. CASE own
    <3>1. want'[c] > 0 /\ want'[c] <= val
      BY <1>1, <1>2, <1>4, <2>1, ServerAssumption DEF Least
    <3> QED BY <1>1, <2>1, <3>1 DEF Within, SendingData, Capture
  <2>2. CASE ~own
    <3>1. Available(c) \in Int /\ Available(c) > 0 /\ pos + Available(c) <= samples_count[ch]
      BY <1>2, <1>3, <1>4, <2>2 DEF Available
    <3>2. want'[c] > 0 /\ pos + want'[c] <= samples_count[ch]
      BY <1>1, <1>3, <2>2, <3>1, ServerAssumption DEF Least
    <3> QED BY <1>1, <2>2, <3>2 DEF Within, SendingData, Capture, ChannelSame
  <2> QED BY <2>1, <2>2
<1>6. Settled(c)' /\ CleanStart(c)'
  BY <1>1 DEF Owned, Settled, SendingData, CleanStart
<1>7. ASSUME fresh'[c], ~error[c] PROVE Exact(c)' /\ Contents(c)'
  <2>1. CASE sent[c] = 0
    <3>1. own /\ clean[c]
      <4>1. fresh'[c] = own
        BY <2>1 DEF GetSamples, TypeOK
      <4>2. clean[c]
        BY <1>1, <2>1 DEF Owned, CleanStart
      <4> QED BY <1>7, <4>1, <4>2
    <3> QED BY <1>1, <2>1, <3>1 DEF Exact, Contents, Capture
  <2>2. CASE sent[c] # 0
    <3>1. fresh[c]
      <4>1. fresh'[c] = fresh[c]
        BY <2>2 DEF GetSamples, TypeOK
      <4> QED BY <1>7, <4>1
    <3>2. samples_count[ch] = val /\ pos = sent[c]
      BY <1>1, <1>7, <3>1 DEF Owned, Exact
    <3>3. ~own
      BY <1>2, <1>4, <2>2, <3>2 DEF Available
    <3>4. Exact(c)'
      BY <1>1, <1>7, <3>1, <3>2, <3>3 DEF Owned, Exact, ChannelSame, Capture
    <3>5. Contents(c)'
      BY <1>1, <1>7, <3>1, <3>3 DEF Owned, Contents, AllNew, ChannelSame
    <3> QED BY <3>4, <3>5
  <2> QED BY <2>1, <2>2
<1>8. Exact(c)' /\ Contents(c)'
  BY <1>1, <1>7 DEF Exact, Contents
<1> QED BY <1>5, <1>6, <1>8 DEF Owned

LEMMA OwnedPoll ==
  ASSUME TypeOK, NEW c \in Conns, HandlesCommand(c), Owned(c),
         PollIdle(c) \/ PollTimeout(c)
  PROVE  Owned(c)'
<1> DEFINE ch == cmd[c].ch
<1>1. /\ pc[c] = "poll" /\ pc'[c] \in {"advance", "fail"}
      /\ pc'[c] = "advance" => engine[ch] = "idle"
      /\ cmd'[c] = cmd[c] /\ buf'[c] = buf[c] /\ sent'[c] = sent[c] /\ fresh'[c] = fresh[c]
      /\ clean'[c] = clean[c] /\ want'[c] = want[c] /\ error'[c] = error[c]
      /\ upset' = upset /\ ChannelSame(ch)
  BY DEF PollIdle, PollTimeout, Goto, TypeOK, historyVars, sharedVars, ChannelSame
<1>2. Settled(c)' /\ CleanStart(c)'
  BY <1>1 DEF Owned, Settled, SendingData, CleanStart, ChannelSame
<1>3. Within(c)'
  BY <1>1 DEF Owned, Within, SendingData, Capture, ChannelSame
<1>4. Exact(c)'
  BY <1>1 DEF Owned, Exact, Capture, ChannelSame
<1>5. Contents(c)'
  BY <1>1 DEF Owned, Contents, AllNew, ChannelSame
<1> QED BY <1>2, <1>3, <1>4, <1>5 DEF Owned

LEMMA OwnedAdvance ==
  ASSUME TypeOK, NEW c \in Conns, HandlesCommand(c), Owned(c), Advance(c)
  PROVE  Owned(c)'
<1> DEFINE ch == cmd[c].ch
           pos == samples_count_pos[ch]
<1>1. ch \in Chans /\ pos \in Nat /\ want[c] \in Nat
  <2>1. ch \in Chans
    BY HandledCommand DEF Advance, Goto
  <2> QED BY <2>1, ServerAssumption DEF TypeOK
<1>2. /\ pc[c] = "advance" /\ pc'[c] = "send"
      /\ samples_count_pos'[ch] = pos + want[c]
      /\ buf'[c] = [ch |-> ch, off |-> pos] /\ resp'[c].num = want[c]
      /\ cmd'[c] = cmd[c] /\ sent'[c] = sent[c] /\ fresh'[c] = fresh[c]
      /\ clean'[c] = clean[c] /\ error'[c] = error[c] /\ upset' = upset
      /\ engine' = engine /\ len' = len /\ mem' = mem /\ samples_count' = samples_count
  BY <1>1 DEF Advance, Goto, TypeOK
<1>3. /\ want[c] > 0 /\ engine[ch] = "idle"
      /\ pos + want[c] <= samples_count[ch]
  BY <1>2 DEF Owned, Within, Settled, HandlesCommand
<1>4. Settled(c)' /\ CleanStart(c)'
  BY <1>2, <1>3 DEF Owned, Settled, CleanStart
<1>5. Within(c)'
  BY <1>2, <1>3 DEF Within, Capture
<1>6. Exact(c)'
  BY <1>2, <1>3 DEF Owned, Exact, Capture
<1>7. Contents(c)'
  BY <1>2 DEF Owned, Contents, AllNew
<1> QED BY <1>4, <1>5, <1>6, <1>7 DEF Owned

LEMMA OwnedReply ==
  ASSUME TypeOK, NEW c \in Conns, HandlesCommand(c), Owned(c),
         ReplyMessage(c) \/ ReplyRegister(c)
  PROVE  Owned(c)'
<1>1. /\ pc[c] \in {"ok", "fail"} /\ pc'[c] = "send" /\ ~IsData(resp'[c])
      /\ error'[c] \/ cmd[c].op # "GET_SAMPLES"
      /\ cmd'[c] = cmd[c] /\ sent'[c] = sent[c] /\ clean'[c] = clean[c]
  BY DEF ReplyMessage, ReplyRegister, Goto, TypeOK, IsData, HandlesCommand
<1>2. Settled(c)' /\ Within(c)' /\ CleanStart(c)'
  BY <1>1 DEF Owned, Settled, SendingData, Within, CleanStart, Capture
<1>3. Exact(c)' /\ Contents(c)'
  BY <1>1 DEF Exact, Contents
<1> QED BY <1>2, <1>3 DEF Owned

LEMMA OwnedCapture ==
  ASSUME TypeOK, NEW c \in Conns, HandlesCommand(c), Owned(c),
         CaptureSet(c) \/ CaptureCheck(c) \/ CaptureGo(c) \/ CaptureTrigger(c)
  PROVE  Owned(c)'
<1> DEFINE ch == cmd[c].ch
           val == cmd[c].val
<1>1. /\ pc[c] \in Capture /\ ~error[c] /\ ch \in Chans
      /\ val \in Nat /\ val <= MaxSamples /\ cmd[c].op \in {"CAPTURE", "GET_SAMPLES"}
  BY HandledCommand
  DEF CaptureSet, CaptureCheck, CaptureGo, CaptureTrigger, Goto, Capture, HandlesCommand
<1>2. /\ cmd'[c] = cmd[c] /\ buf'[c] = buf[c] /\ sent'[c] = sent[c] /\ fresh'[c] = fresh[c]
      /\ clean'[c] = clean[c] /\ want'[c] = want[c] /\ error'[c] = error[c]
  BY DEF CaptureSet, CaptureCheck, CaptureGo, CaptureTrigger, historyVars
<1>3. CleanStart(c)'
  BY <1>2 DEF Owned, CleanStart
<1>4. CASE CaptureSet(c)
  <2>1. /\ pc[c] = "cap_set" /\ pc'[c] = "cap_check" /\ upset' = upset
        /\ samples_count'[ch] = val /\ samples_count_pos'[ch] = 0
    BY <1>1, <1>4 DEF CaptureSet, Goto, TypeOK
  <2>2. Settled(c)'
    BY <2>1 DEF Settled, SendingData
  <2>3. Within(c)'
    BY <1>2, <2>1 DEF Owned, Within, SendingData, Capture
  <2>4. Exact(c)' /\ Contents(c)'
    BY <1>2, <2>1 DEF Owned, Exact, Contents, Capture
  <2> QED BY <1>3, <2>2, <2>3, <2>4 DEF Owned
<1>5. CASE CaptureCheck(c)
  <2>1. /\ pc[c] = "cap_check" /\ pc'[c] \in {"cap_go", "fail"} /\ ChannelSame(ch)
        /\ pc'[c] = "cap_go" => engine[ch] = "idle"
        /\ upset' = upset
    BY <1>5 DEF CaptureCheck, Goto, TypeOK, ChannelSame, sharedVars
  <2>2. Settled(c)'
    BY <1>2, <2>1 DEF Settled, SendingData, ChannelSame
  <2>3. Within(c)'
    BY <1>2, <2>1 DEF Owned, Within, SendingData, Capture, ChannelSame
  <2>4. Exact(c)' /\ Contents(c)'
    BY <1>2, <2>1 DEF Owned, Exact, Contents, Capture
  <2> QED BY <1>3, <2>2, <2>3, <2>4 DEF Owned
<1>6. CASE CaptureGo(c)
  <2>1. pc[c] = "cap_go" /\ pc'[c] = "cap_trig" /\ engine[ch] = "idle"
    BY <1>6 DEF CaptureGo, Goto, TypeOK, Owned, Settled
  <2>2. len'[ch] = val
    <3>1. len' = [len EXCEPT ![ch] = val]
      BY <1>6, <2>1 DEF CaptureGo
    <3> QED BY <1>1, <3>1 DEF TypeOK
  <2>3. /\ engine'[ch] = "armed" /\ upset' = upset
        /\ samples_count' = samples_count /\ samples_count_pos' = samples_count_pos
    BY <1>1, <1>6, <2>1 DEF CaptureGo, TypeOK
  <2>4. Settled(c)'
    BY <2>1 DEF Settled, SendingData
  <2>5. Within(c)'
    BY <1>2, <2>1, <2>3 DEF Owned, Within, SendingData, Capture
  <2>6. Exact(c)'
    BY <1>1, <1>2, <2>1, <2>3 DEF Owned, Exact, Within, Capture
  <2>7. Contents(c)'
    BY <1>2, <2>1, <2>2, <2>3 DEF Owned, Contents
  <2> QED BY <1>3, <2>4, <2>5, <2>6, <2>7 DEF Owned
<1>7. CASE CaptureTrigger(c)
  <2>1. /\ pc[c] = "cap_trig" /\ engine'[ch] = "idle" <=> engine[ch] = "idle"
        /\ pc'[c] = (IF cmd[c].op = "CAPTURE" THEN "ok" ELSE "poll")
        /\ samples_count' = samples_count /\ samples_count_pos' = samples_count_pos
        /\ len' = len /\ mem' = mem /\ upset \subseteq upset'
    BY <1>1, <1>7 DEF CaptureTrigger, Goto, TypeOK
  <2>2. pc[c] = "cap_trig" /\ samples_count[ch] = val /\ samples_count_pos[ch] = 0
    BY <1>7 DEF CaptureTrigger, Goto, Owned, Within, Capture
  <2>3. Settled(c)'
    BY <2>1 DEF Settled, SendingData
  <2>4. Within(c)'
    <3>1. cmd[c].op = "GET_SAMPLES" => want[c] > 0 /\ want[c] <= val
      BY <2>2 DEF Owned, Within, Capture
    <3>2. want[c] \in Int
      BY ServerAssumption DEF TypeOK
    <3> QED BY <1>1, <1>2, <2>1, <2>2, <3>1, <3>2 DEF Within, SendingData, Capture
  <2>5. Exact(c)'
    BY <1>2, <2>1, <2>2 DEF Owned, Exact, Capture
  <2>6. Contents(c)'
    BY <1>2, <2>1, <2>2 DEF Owned, Contents, AllNew
  <2> QED BY <1>3, <2>3, <2>4, <2>5, <2>6 DEF Owned
<1> QED BY <1>4, <1>5, <1>6, <1>7

(* The engine's own step: the transfer it ends makes its samples new. *)
LEMMA EngineFills ==
  ASSUME TypeOK, NEW ch \in Chans, EngineDone(ch), ch \notin upset',
         NEW val \in Nat, len[ch] = val
  PROVE  AllNew(ch, val)'
<1>1. PICK n \in {len[ch] - 1, len[ch]} :
        /\ n = len[ch] \/ ch \in ShortChans
        /\ mem' = [mem EXCEPT ![ch] = [i \in DOMAIN @ |->
                     IF i >= n THEN @[i] ELSE IF ch \in upset' THEN "old" ELSE "new"]]
  BY Zenon DEF EngineDone
<1>2. len[ch] \in 0..MaxSamples /\ DOMAIN mem[ch] = 0..(MaxSamples - 1)
  BY DEF TypeOK
<1>3. ASSUME NEW i \in 0..(val - 1)
      PROVE  mem'[ch][i] = "new" \/ (ch \in ShortChans /\ i = val - 1)
  <2>1. i \in 0..(MaxSamples - 1)
    BY <1>2, <1>3, ServerAssumption
  <2>2. mem'[ch][i] = IF i >= n THEN mem[ch][i] ELSE "new"
    BY <1>1, <1>2, <2>1 DEF TypeOK
  <2> QED BY <1>1, <1>2, <1>3, <2>2
<1> QED BY <1>3 DEF AllNew

LEMMA OwnedEngine ==
  ASSUME TypeOK, NEW d \in Conns, HandlesCommand(d), Owned(d), NEW ch \in Chans,
         EngineDone(ch)
  PROVE  Owned(d)'
<1>1. ThreadSame(d) /\ upset \subseteq upset'
  BY DEF EngineDone, threadVars, historyVars, ThreadSame
<1>2. CASE pc[d] \in Between \/ cmd[d].ch # ch
  <2>1. ASSUME NEW x \in Chans \ {ch} PROVE ChannelSame(x)
    BY DEF EngineDone, TypeOK, ChannelSame
  <2>2. pc[d] \notin Between => ChannelSame(cmd[d].ch)
    BY <1>2, <2>1, HandledCommand
  <2> QED BY <1>1, <2>2, OwnedSame
<1>3. CASE pc[d] \notin Between /\ cmd[d].ch = ch
  <2>1. engine[ch] # "idle" /\ engine'[ch] = "idle"
    BY DEF EngineDone, TypeOK
  <2>2. ~(pc[d] \in {"advance", "cap_go"} \/ SendingData(d))
    BY <1>3, <2>1 DEF Owned, Settled
  <2>3. samples_count' = samples_count /\ samples_count_pos' = samples_count_pos
    BY DEF EngineDone
  <2>4. Settled(d)' /\ CleanStart(d)'
    BY <1>1, <2>2 DEF Owned, Settled, SendingData, CleanStart, ThreadSame
  <2>5. Within(d)'
    BY <1>1, <2>3 DEF Owned, Within, SendingData, ThreadSame
  <2>6. Exact(d)'
    BY <1>1, <1>3, <2>1, <2>3 DEF Owned, Exact, ThreadSame
  <2>7. Contents(d)'
    <3> SUFFICES ASSUME cmd[d].op = "GET_SAMPLES", fresh[d], ~error[d], ch \notin upset',
                        pc[d] \in {"cap_trig", "poll", "advance", "handle", "send"}
                 PROVE  AllNew(ch, cmd[d].val)'
      BY <1>1, <1>3, <2>1 DEF Owned, Contents, ThreadSame
    <3>1. len[ch] = cmd[d].val
      BY <1>1, <1>3, <2>1 DEF Owned, Contents
    <3>2. PICK val \in Nat : val = cmd[d].val
      BY <1>3, HandledCommand
    <3>3. AllNew(ch, val)'
      BY <3>1, <3>2, EngineFills
    <3> QED BY <1>1, <3>2, <3>3 DEF ThreadSame
  <2> QED BY <2>4, <2>5, <2>6, <2>7 DEF Owned
<1> QED BY <1>2, <1>3

LEMMA StepOwned ==
  ASSUME TypeOK, NEW c \in Conns, HandlesCommand(c), Budget(c),
         c \notin disturbed => Owned(c), ConnStep(c), c \notin disturbed'
  PROVE  Owned(c)'
<1>1. CASE Resets(c)
  BY <1>1, OwnedReset
<1>2. CASE ~Resets(c)
  <2>1. Owned(c)
    BY <1>2, DisturbedStays
  <2> QED
    BY <1>2, <2>1, OwnedConnection, OwnedSend, OwnedHandle, OwnedGet, OwnedPoll,
       OwnedAdvance, OwnedReply, OwnedCapture DEF ConnStep, Thread, Resets
<1> QED BY <1>1, <1>2

LEMMA StepChannels ==
  ASSUME TypeOK, Places, Channels, [Next]_vars
  PROVE  Channels'
<1>1. ASSUME NEW c \in Conns, ConnStep(c) PROVE Channels'
  <2>1. HandlesCommand(c) /\ Budget(c) /\ (c \notin disturbed => Owned(c))
    BY DEF Places, Channels
  <2>2. c \notin disturbed' => Owned(c)'
    BY <1>1, <2>1, StepOwned
  <2>3. ASSUME NEW d \in Conns \ {c}, d \notin disturbed' PROVE Owned(d)'
    <3>1. d \notin disturbed /\ upset \subseteq upset'
      BY <1>1, <2>3, DisturbedStays
    <3>2. ThreadSame(d) /\ HandlesCommand(d) /\ Owned(d)
      BY <1>1, <2>3, <3>1, OthersStand DEF Places, Channels
    <3>3. pc[d] \notin Between => ChannelSame(cmd[d].ch)
      BY <1>1, <2>1, <2>3, <3>2, HandledCommand, OthersUndisturbed
    <3> QED BY <3>1, <3>2, <3>3, OwnedSame
  <2> QED BY <2>2, <2>3 DEF Channels
<1>2. ASSUME NEW ch \in Chans, EngineDone(ch) PROVE Channels'
  <2>1. disturbed' = disturbed
    BY <1>2 DEF EngineDone, historyVars
  <2> QED BY <1>2, <2>1, OwnedEngine DEF Places, Channels
<1>3. CASE UNCHANGED vars
  <2>1. ASSUME NEW d \in Conns PROVE ThreadSame(d) /\ ChannelSame(cmd[d].ch)
    BY <1>3 DEF vars, threadVars, historyVars, sharedVars, ThreadSame, ChannelSame
  <2>2. disturbed' = disturbed /\ upset' = upset
    BY <1>3 DEF vars, historyVars, sharedVars
  <2> QED BY <2>1, <2>2, OwnedSame DEF Places, Channels
<1> QED BY <1>1, <1>2, <1>3 DEF Next, ConnStep

LEMMA InitChannels ==
  ASSUME Init
  PROVE  Channels
<1>1. ASSUME NEW c \in Conns PROVE Owned(c)
  <2>1. pc[c] = "recv" /\ cmd[c].op = "NONE"
    BY DEF Init, NoCommand
  <2> QED BY <2>1
    DEF Owned, Settled, SendingData, Within, CleanStart, Exact, Contents, Capture
<1> QED BY <1>1 DEF Channels

(* The inductive invariant of the theorems about channels. *)
THEOREM ChannelsHold == Spec => [](TypeOK /\ Places /\ Channels)
<1>1. Init => Channels
  BY InitChannels
<1>2. TypeOK /\ Places /\ Channels /\ [Next]_vars => Channels'
  BY StepChannels
<1> QED BY <1>1, <1>2, PlacesHold, PTL DEF Spec

(***************************************************************************)
(* Samples are handed out only of the capture the handler describes        *)
(* (low_level_op.c:251-252, 295) and only while the engine stands still:   *)
(* unless another thread changes the channel while the command runs, what  *)
(* the poll of low_level_op.c:271 saw is not stale by the time             *)
(* send_response_packet copies the samples, however captures, reads,       *)
(* timeouts and reconnections followed one another before.                 *)
(***************************************************************************)
THEOREM SettledCapturesSent == Spec => []SendsSettledCapture
<1>1. Channels => SendsSettledCapture
  BY DEF Channels, Owned, Settled, Within, SendsSettledCapture
<1> QED BY <1>1, ChannelsHold, PTL

(***************************************************************************)
(* Between the status register that XAxiDma_SimpleTransfer checks and the  *)
(* length it writes (xaxidma.c:636, low_level_op.c:198) nothing but a step *)
(* of another thread on the channel can set the engine going: neither a    *)
(* capture that was abandoned at a poll timeout, by whomever, nor the      *)
(* thread's own earlier commands.                                          *)
(***************************************************************************)
THEOREM StartsIdleEngine == Spec => SubmitsOnlyWhenIdle
<1>1. Channels /\ [Next]_vars
        => [\A c \in Conns \ disturbed : CaptureGo(c) => engine[cmd[c].ch] = "idle"]_vars
  BY DEF Channels, Owned, Settled, CaptureGo, Goto
<1> QED BY <1>1, ChannelsHold, PTL DEF Spec, SubmitsOnlyWhenIdle

(***************************************************************************)
(* A GET_SAMPLES that started its own capture, and was not disturbed by    *)
(* another thread in its course, is answered with as many samples as it    *)
(* asked for, for every size of capture, of packet and of sample and any   *)
(* number of connections; they are in order and of that capture, but for   *)
(* the sample a DDC may leave out, while engine and captures are in step.  *)
(***************************************************************************)
THEOREM FreshGetExact == Spec => []FreshGetIsExact
<1>1. Channels => FreshGetIsExact
  BY DEF Channels, Owned, Exact, Contents, FreshGetIsExact, Answered
<1> QED BY <1>1, ChannelsHold, PTL
=============================================================================
