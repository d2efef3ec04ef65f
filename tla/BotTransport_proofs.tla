------------------------- MODULE BotTransport_proofs -------------------------
(***************************************************************************)
(* What TLAPS proves of BotTransport for every command set, packet size,   *)
(* buffer capacity, medium and fault set: the type invariant and the       *)
(* safety of the transfer buffer; and that device and host stay in step:   *)
(* the data of a command all comes before its status, the residue is the   *)
(* truth, a GOOD status of BLANK means a wiped disc, no wake-up is lost,   *)
(* and somebody can always move.                                           *)
(***************************************************************************)
EXTENDS BotTransport, SequenceTheorems, TLAPS

\* BufferSafe alone is not inductive: a CBW with an OUT data stage resets
\* buf_len and not buf_sent, which is right because a partly sent buffer
\* exists in StateWriteData only.
IInv == /\ TypeOK
        /\ BufferSafe
        /\ bufSent > 0 => state = "WriteData"

-----------------------------------------------------------------------------
\* Rounding down to whole blocks does not enlarge a length.
LEMMA WholeBound ==
  ASSUME NEW n \in Nat, NEW unit \in Nat \ {0}
  PROVE  Whole(n, unit) \in Nat /\ Whole(n, unit) <= n
  BY DEF Whole

\* A chunk that scsi_cmd_tx_data returns fits the room it was offered and what
\* is left of the command.
LEMMA ChunkBound ==
  ASSUME BotAssumption, TypeOK, NEW cap \in Nat, NEW chunk \in TxChunks(cap)
  PROVE  chunk \in Nat /\ chunk <= cap /\ chunk <= scsi.left
<1>1. scsi.left \in Nat BY DEF TypeOK, ScsiType
<1>2. Minimum(scsi.left, cap) \in Nat /\ Minimum(scsi.left, cap) <= cap
        /\ Minimum(scsi.left, cap) <= scsi.left
  BY <1>1 DEF Minimum
<1>3. DEFINE w == Whole(Minimum(scsi.left, cap), BlockLen)
<1>4. w \in Nat /\ w <= Minimum(scsi.left, cap)
  BY <1>2, WholeBound DEF BotAssumption
<1>5. chunk \in {0, w, Minimum(scsi.left, cap), IF cap < scsi.left THEN 0 ELSE scsi.left}
  <2> HIDE DEF w
  <2>1. CASE scsi.op = "read" BY <2>1 DEF TxChunks, w
  <2>2. CASE scsi.op = "reply" BY <2>2 DEF TxChunks
  <2>3. CASE scsi.op = "sense" BY <2>3 DEF TxChunks
  <2>4. CASE scsi.op \notin {"read", "reply", "sense"} BY <2>4 DEF TxChunks
  <2>5. QED BY <2>1, <2>2, <2>3, <2>4
<1>6. QED
  <2> HIDE DEF w
  <2>1. QED BY <1>1, <1>2, <1>4, <1>5

\* The operations on the blank record stay within its type.
LEMMA BlankOpsType ==
  ASSUME BotAssumption, NEW b \in BlankType, NEW x \in BOOLEAN
  PROVE  /\ FinishBlank(b, x) \in BlankType
         /\ StartBlank(x) \in BlankType
         /\ CancelBlank(b) \in BlankType
<1>1. FinishBlank(b, x) \in BlankType BY DEF BlankType, FinishBlank
<1>2. StartBlank(x) \in BlankType BY DEF BotAssumption, BlankType, StartBlank
<1>3. CancelBlank(b) \in BlankType
  <2>1. CASE b.active BY <2>1 DEF BlankType, CancelBlank
  <2>2. CASE ~b.active BY <2>2 DEF CancelBlank
  <2>3. QED BY <2>1, <2>2
<1>4. QED BY <1>1, <1>2, <1>3

\* A blank step stays within the medium.
LEMMA BlankStepType ==
  ASSUME BotAssumption, NEW b \in BlankType, NEW cap \in Nat, NEW s \in BlankStep(b, cap)
  PROVE  s \in BlankType
<1> DEFINE n == Minimum(BlankBlocks - b.lba, cap \div BlockLen)
           next == [b EXCEPT !.lba = @ + n]
<1>1. cap \div BlockLen \in Nat BY DEF BotAssumption
<1>2. n \in Nat /\ b.lba + n \in 0..BlankBlocks
  BY <1>1 DEF BotAssumption, BlankType, Minimum
<1>3. next \in BlankType BY <1>2 DEF BlankType
<1>4. s \in {b, next, FinishBlank(b, FALSE), FinishBlank(next, TRUE), FinishBlank(next, FALSE)}
  BY DEF BlankStep
<1>5. QED
  <2> HIDE DEF n, next
  <2>1. QED BY <1>3, <1>4, BlankOpsType

\* Whatever capacity an allocation leaves behind is 0 or the buffer's.
LEMMA EnsureBufferType ==
  ASSUME TypeOK, NEW cap \in EnsureBuffer
  PROVE  cap \in {0, BufCap} /\ (bufCap # 0 => cap = bufCap)
  BY DEF TypeOK, EnsureBuffer

\* Ending a command yields a verdict and a blank record.
LEMMA EndOutcomesType ==
  ASSUME BotAssumption, TypeOK, NEW e \in EndOutcomes
  PROVE  e[1] \in {"ok", "nok"} /\ e[2] \in BlankType
<1> DEFINE f == FinishBlank(blank, FALSE)
           c == CancelBlank(blank)
           s0 == StartBlank(FALSE)
           s1 == StartBlank(TRUE)
           v0 == Verdict(scsi.done)
           v1 == Verdict(~blank.active /\ ~blank.failed)
<1>1. blank \in BlankType BY DEF TypeOK
<1>2. f \in BlankType /\ c \in BlankType /\ s0 \in BlankType /\ s1 \in BlankType
  BY <1>1, BlankOpsType
<1>3. v0 \in {"ok", "nok"} /\ v1 \in {"ok", "nok"} BY DEF Verdict
<1>4. e \in {<<v0, blank>>, <<v1, blank>>, <<"ok", c>>, <<"nok", f>>, <<"ok", blank>>,
             <<"nok", blank>>, <<"ok", s0>>, <<"ok", s1>>}
  BY Zenon DEF EndOutcomes
<1> HIDE DEF f, c, s0, s1, v0, v1
<1>5. QED BY <1>1, <1>2, <1>3, <1>4

\* So does what BuildCSW makes of a started blank operation.
LEMMA EstablishedType ==
  ASSUME BotAssumption, TypeOK, NEW ok \in {"ok", "nok"}, NEW b \in BlankType,
         NEW r \in Established(ok, b)
  PROVE  /\ r[1] \in {"ok", "nok"} /\ r[2] \in BlankType
         /\ r[3] \in {0, BufCap} /\ (bufCap # 0 => r[3] = bufCap)
<1>1. CASE ok = "nok" \/ ~b.active
  <2>1. r = <<ok, b, bufCap>> BY <1>1 DEF Established
  <2>2. bufCap \in {0, BufCap} BY DEF TypeOK
  <2>3. QED BY <2>1, <2>2
<1>2. CASE ok = "ok" /\ b.active
  <2> DEFINE f == FinishBlank(b, FALSE)
  <2>1. PICK cap \in EnsureBuffer :
           r \in IF cap = 0 THEN {<<"nok", f, cap>>}
                 ELSE IF Defers(b) THEN {<<"ok", b, cap>>}
                 ELSE {<<Verdict(~stepped.failed), stepped, cap>> : stepped \in BlankStep(b, cap)}
    BY <1>2 DEF Established
  <2>2. cap \in {0, BufCap} /\ (bufCap # 0 => cap = bufCap) /\ cap \in Nat
    BY EnsureBufferType DEF BotAssumption
  <2>3. f \in BlankType BY BlankOpsType
  <2> HIDE DEF f
  <2>4. CASE cap = 0 BY <2>1, <2>2, <2>3, <2>4
  <2>5. CASE cap # 0 /\ Defers(b) BY <2>1, <2>2, <2>5
  <2>6. CASE cap # 0 /\ ~Defers(b)
    <3>1. PICK s \in BlankStep(b, cap) : r = <<Verdict(~s.failed), s, cap>>
      BY <2>1, <2>6
    <3>2. s \in BlankType BY <2>2, BlankStepType
    <3>3. DEFINE v == Verdict(~s.failed)
    <3>4. v \in {"ok", "nok"} BY DEF Verdict
    <3> HIDE DEF v
    <3>5. r = <<v, s, cap>> BY <3>1 DEF v
    <3>6. QED BY <2>2, <3>2, <3>4, <3>5
  <2>7. QED BY <2>4, <2>5, <2>6
<1>3. QED BY <1>1, <1>2

-----------------------------------------------------------------------------
\* Packets the two ends can send.
LEMMA PacketTypes ==
  ASSUME BotAssumption
  PROVE  /\ NoPacket \in PacketType
         /\ \A n \in Nat, w \in BOOLEAN : DataPacket(n, w) \in PacketType
         /\ \A t \in Nat, c \in Commands :
              [kind |-> "cbw", tag |-> t, cmd |-> c] \in PacketType
         /\ CSWType \subseteq PacketType
         /\ \A p \in PacketType : p.kind = "cbw" => p.tag \in Nat /\ p.cmd \in CommandType
         /\ \A p \in PacketType : p.kind = "data" => p.len \in Nat
         /\ \A p \in PacketType : p.kind = "csw" => p.status \in Status /\ p.residue \in Nat
<1>1. NoPacket \in PacketType BY DEF NoPacket, PacketType
<1>2. \A n \in Nat, w \in BOOLEAN : DataPacket(n, w) \in PacketType
  BY DEF DataPacket, PacketType
<1>3. ASSUME NEW t \in Nat, NEW c \in Commands
      PROVE  [kind |-> "cbw", tag |-> t, cmd |-> c] \in PacketType
  <2>1. c \in CommandType BY DEF BotAssumption
  <2>2. QED BY <2>1 DEF PacketType
<1>4. CSWType \subseteq PacketType BY DEF CSWType, PacketType
<1>5. \A p \in PacketType : p.kind = "cbw" => p.tag \in Nat /\ p.cmd \in CommandType
  BY DEF PacketType, NoPacket
<1>6. \A p \in PacketType : p.kind = "data" => p.len \in Nat
  BY DEF PacketType, NoPacket
<1>7. \A p \in PacketType : p.kind = "csw" => p.status \in Status /\ p.residue \in Nat
  BY DEF PacketType, NoPacket
<1>8. QED BY <1>1, <1>2, <1>3, <1>4, <1>5, <1>6, <1>7

\* Moving data keeps the type of the SCSI session.
LEMMA ScsiUpdate ==
  ASSUME NEW s \in ScsiType, NEW l \in Nat, NEW d \in BOOLEAN
  PROVE  [s EXCEPT !.left = l, !.done = d] \in ScsiType
  BY DEF ScsiType

\* The zeroed CBW and CSW.
LEMMA ZeroTypes == NoCBW \in CBWType /\ NoCSW \in CSWType /\ NoCmd \in CommandType
  BY DEF NoCBW, NoCSW, NoCmd, CBWType, CSWType, CommandType, Ops, Status

\* The initial state satisfies the invariant.
LEMMA InitIInv == ASSUME BotAssumption PROVE Init => IInv
<1> SUFFICES ASSUME Init PROVE IInv OBVIOUS
<1>1. host \in HostType /\ NoResult \in [status : Status \cup {"none"}, residue : Nat]
  BY ZeroTypes DEF Init, HostType, NoResult
<1>2. rx \in Seq(PacketType) /\ tx \in PacketType BY PacketTypes DEF Init
<1>3. scsi \in ScsiType BY DEF Init, ScsiType, Ops
<1>4. blank \in BlankType BY DEF Init, BlankType, BotAssumption
<1>5. TypeOK BY <1>1, <1>2, <1>3, <1>4, ZeroTypes DEF Init, TypeOK, Events, States
<1>6. QED BY <1>5 DEF Init, IInv, BufferSafe

-----------------------------------------------------------------------------
(* The steps: first the worker's, then those of the host and the callbacks. *)

\* The worker's control steps: waking up, leaving, finding nothing to do.
LEMMA ControlSteps ==
  ASSUME BotAssumption, IInv,
         WorkerExit \/ WorkerWake \/ WorkerBlankStep \/ NotReady \/ ReadBadCBW
           \/ DataDone \/ BackgroundOver \/ EjectCSWSent
  PROVE  IInv'
<1> USE DEF IInv
<1>t. blank \in BlankType /\ rx \in Seq(PacketType) /\ tx \in PacketType BY DEF TypeOK
<1>1. CASE WorkerExit
  <2>1. blank' \in BlankType BY <1>1, <1>t, BlankOpsType DEF WorkerExit
  <2>2. TypeOK' BY <1>1, <2>1 DEF WorkerExit, TypeOK, hostVars, epVars, bufVars, appVars
  <2>3. QED BY <1>1, <2>2 DEF WorkerExit, BufferSafe, bufVars
<1>2. CASE WorkerWake
  <2>1. CASE "Reset" \in flags
    <3>1. TypeOK'
      BY <1>2, <2>1, ZeroTypes
      DEF WorkerWake, ForgetTransfer, TypeOK, hostVars, epVars, bufVars, appVars, States, Events
    <3>2. QED BY <1>2, <2>1, <3>1 DEF WorkerWake, ForgetTransfer, BufferSafe
  <2>2. CASE "Reset" \notin flags
    <3>1. TypeOK' BY <1>2, <2>2 DEF WorkerWake, TypeOK, hostVars, epVars, bufVars, appVars
    <3>2. QED BY <1>2, <2>2, <3>1 DEF WorkerWake, BufferSafe, bufVars
  <2>3. QED BY <2>1, <2>2
<1>3. CASE WorkerBlankStep
  <2>1. bufCap' \in {0, BufCap} /\ (bufCap # 0 => bufCap' = bufCap) /\ bufCap' \in Nat
    BY <1>3, EnsureBufferType DEF WorkerBlankStep, BotAssumption
  <2>2. blank' \in BlankType BY <1>3, <1>t, <2>1, BlankStepType DEF WorkerBlankStep
  <2>3. wiped' \in BOOLEAN BY <1>3 DEF WorkerBlankStep, TypeOK
  <2>4. TypeOK'
    BY <1>3, <2>1, <2>2, <2>3 DEF WorkerBlankStep, TypeOK, hostVars, epVars, appVars
  <2>5. BufferSafe'
    BY <1>3, <2>1 DEF WorkerBlankStep, BufferSafe, Minimum, TypeOK, CBWType, BotAssumption
  <2>6. QED BY <1>3, <2>4, <2>5 DEF WorkerBlankStep
<1>4. CASE NotReady
  <2>1. pc' \in {"wait", "step"} BY <1>4 DEF NotReady, LeaveLoop
  <2>2. TypeOK'
    BY <1>4, <2>1 DEF NotReady, LeaveLoop, TypeOK, hostVars, epVars, bufVars, appVars
  <2>3. QED BY <1>4, <2>2 DEF NotReady, BufferSafe, bufVars
<1>5. CASE ReadBadCBW
  <2>1. rx' \in Seq(PacketType) /\ tx' \in PacketType
    BY <1>5, <1>t, PacketTypes DEF ReadBadCBW, RxReady, StallBoth
  <2>2. TypeOK'
    BY <1>5, <2>1 DEF ReadBadCBW, StallBoth, StayInLoop, TypeOK, hostVars, bufVars, appVars
  <2>3. QED BY <1>5, <2>2 DEF ReadBadCBW, BufferSafe, bufVars
<1>6. CASE DataDone
  <2>1. TypeOK'
    BY <1>6 DEF DataDone, StayInLoop, TypeOK, hostVars, epVars, bufVars, appVars, States
  <2>2. bufSent = 0 BY <1>6 DEF DataDone, BufferSafe, Minimum, TypeOK, BotAssumption
  <2>3. QED BY <1>6, <2>1, <2>2 DEF DataDone, BufferSafe, bufVars
<1>7. CASE BackgroundOver
  <2>1. csw' \in CSWType BY <1>7 DEF BackgroundOver, TypeOK, CSWType, Status
  <2>2. TypeOK'
    BY <1>7, <2>1 DEF BackgroundOver, StayInLoop, TypeOK, hostVars, epVars, bufVars, appVars, States
  <2>3. QED BY <1>7, <2>2 DEF BackgroundOver, BufferSafe, bufVars
<1>8. CASE EjectCSWSent
  <2>1. scsi' \in ScsiType BY <1>8 DEF EjectCSWSent, TypeOK, ScsiType
  <2>2. ejected' \in Nat BY <1>8 DEF EjectCSWSent, TypeOK
  <2>3. TypeOK'
    BY <1>8, <2>1, <2>2 DEF EjectCSWSent, StayInLoop, TypeOK, hostVars, epVars, bufVars, States
  <2>4. QED BY <1>8, <2>3 DEF EjectCSWSent, BufferSafe, bufVars
<1>9. QED BY <1>1, <1>2, <1>3, <1>4, <1>5, <1>6, <1>7, <1>8

\* A CBW is refused or starts its data stage.  The transfer buffer is there
\* whenever a data stage needs it.
LEMMA ReadCBWStep == ASSUME BotAssumption, IInv, ReadCBW PROVE IInv'
<1> USE DEF IInv
<1> DEFINE p == Head(rx)
           c == p.cmd
<1>1. rx \in Seq(PacketType) /\ rx # <<>> /\ tx \in PacketType
  BY DEF ReadCBW, RxReady, TypeOK
<1>2. p \in PacketType /\ rx' \in Seq(PacketType) BY <1>1 DEF ReadCBW
<1>3. p.tag \in Nat /\ c \in CommandType BY <1>2, PacketTypes DEF ReadCBW
<1>4. cbw' \in CBWType /\ cbw'.len = c.hlen
  BY <1>3 DEF ReadCBW, CBWType, CommandType
<1>5. bufSent = 0 BY DEF ReadCBW, TypeOK
<1>6. c.hlen \in Nat /\ c.alen \in Nat /\ c.op \in Ops BY <1>3 DEF CommandType
<1>7. UNCHANGED <<host, aborts, disturbed, flags, pc, latched, wiped, blank, ejected>>
  BY DEF ReadCBW, StayInLoop, hostVars, appVars
<1> HIDE DEF p, c
<1>8. CASE AcceptCommand(p)
  <2>1. scsi' \in ScsiType
    <3> DEFINE d == (c.op \in {"read", "write"} /\ c.alen = 0)
    <3>1. d \in BOOLEAN OBVIOUS
    <3>2. scsi' = [op |-> c.op, left |-> c.alen, phaseError |-> FALSE, done |-> d,
                   ejectPending |-> FALSE]
      BY <1>8 DEF AcceptCommand, c
    <3> HIDE DEF d
    <3>3. QED BY <1>6, <3>1, <3>2 DEF ScsiType
  <2>2. bufCap' \in {0, BufCap}
    BY <1>8, EnsureBufferType DEF AcceptCommand, TypeOK
  <2>3. CASE c.hlen > 0 /\ bufCap' = 0
    <3>1. UNCHANGED <<state, bufLen, bufSent, csw, afterZlp>> /\ dataSent' = 0
            /\ rxStall' = TRUE /\ txStall' = TRUE /\ tx' = NoPacket
      BY <1>8, <2>3 DEF AcceptCommand, StallBoth, c
    <3>2. TypeOK'
      BY <1>2, <1>4, <1>7, <2>1, <2>2, <3>1, PacketTypes DEF TypeOK
    <3>3. QED BY <1>5, <3>1, <3>2 DEF BufferSafe, ReadCBW
  <2>4. CASE ~(c.hlen > 0 /\ bufCap' = 0)
    <3>1. UNCHANGED <<csw, afterZlp, tx, rxStall, txStall>> /\ dataSent' = 0
            /\ state' \in {"WriteData", "ReadData"} /\ bufLen' = 0 /\ bufSent' = 0
      BY <1>5, <1>8, <2>4 DEF AcceptCommand, c
    <3>2. TypeOK'
      BY <1>1, <1>2, <1>4, <1>7, <2>1, <2>2, <3>1 DEF TypeOK, States
    <3>3. BufferSafe'
      <4>1. bufCap' \in Nat BY <2>2 DEF BotAssumption
      <4>2. cbw'.len > 0 => bufCap' > 0 BY <1>4, <1>6, <2>4, <4>1
      <4>3. 0 <= Minimum(cbw'.len, bufCap') BY <1>4, <1>6, <4>1 DEF Minimum
      <4>4. QED BY <3>1, <4>2, <4>3 DEF BufferSafe
    <3>4. QED BY <3>1, <3>2, <3>3
  <2>5. QED BY <2>3, <2>4
<1>9. ASSUME NEW x \in BOOLEAN, RefuseCommand(p, x) PROVE IInv'
  <2>1. scsi' \in ScsiType
    <3>1. scsi \in ScsiType BY DEF TypeOK
    <3>2. scsi' = [scsi EXCEPT !.op = c.op, !.done = FALSE, !.ejectPending = FALSE,
                               !.phaseError = x]
      BY <1>9 DEF RefuseCommand, c
    <3>3. QED BY <1>6, <3>1, <3>2 DEF ScsiType
  <2>2. rxStall' \in BOOLEAN BY <1>9 DEF RefuseCommand
  <2>3. csw' \in CSWType
    <3>1. csw' = [kind |-> "csw", tag |-> p.tag, residue |-> c.hlen,
                  status |-> IF x THEN "phase" ELSE "nok"]
      BY <1>9 DEF RefuseCommand, c
    <3>2. QED BY <1>3, <1>6, <3>1 DEF CSWType, Status
  <2>4. state' \in {"WriteZlp", "WriteCSW"} /\ afterZlp' \in {"BuildCSW", "WriteCSW"}
    BY <1>9 DEF RefuseCommand, TypeOK
  <2>5. UNCHANGED <<tx, txStall, bufCap, bufLen, bufSent, dataSent>>
    BY <1>9 DEF RefuseCommand
  <2>6. TypeOK'
    BY <1>1, <1>2, <1>4, <1>7, <2>1, <2>2, <2>3, <2>4, <2>5 DEF TypeOK, States
  <2>7. QED BY <1>5, <2>4, <2>5, <2>6 DEF BufferSafe
<1>10. \/ AcceptCommand(p) \/ RefuseCommand(p, TRUE) \/ RefuseCommand(p, FALSE)
  <2>1. PICK o \in StartOutcomes(c) :
          IF o = "started" THEN AcceptCommand(p) ELSE RefuseCommand(p, o = "phase")
    BY Zenon DEF ReadCBW, p, c
  <2>2. CASE o = "started" BY <2>1, <2>2
  <2>3. CASE o = "phase"
    <3>1. (o = "phase") = TRUE BY <2>3
    <3>2. RefuseCommand(p, o = "phase") BY <2>1, <2>3
    <3>3. QED BY <3>1, <3>2, Zenon
  <2>4. CASE o \notin {"started", "phase"}
    <3>1. (o = "phase") = FALSE BY <2>4
    <3>2. RefuseCommand(p, o = "phase") BY <2>1, <2>4
    <3>3. QED BY <3>1, <3>2, Zenon
  <2>5. QED BY <2>2, <2>3, <2>4
<1>11. QED BY <1>8, <1>9, <1>10

\* The room an OUT packet is read into ends where buf_clamp does, and what is
\* handed over is what the announced length is reduced by.
LEMMA ReadDataStep == ASSUME BotAssumption, IInv, ReadData PROVE IInv'
<1> USE DEF IInv
<1> DEFINE size == IF Head(rx).kind = "data" THEN Head(rx).len ELSE MaxPacket
           len == bufLen + Minimum(size, Clamp - bufLen)
<1>1. rx \in Seq(PacketType) /\ rx # <<>> BY DEF ReadData, RxReady, TypeOK
<1>2. Head(rx) \in PacketType /\ rx' \in Seq(PacketType) BY <1>1 DEF ReadData
<1>3. size \in Nat BY <1>2, PacketTypes DEF BotAssumption
<1>4. bufCap \in Nat /\ cbw.len \in Nat /\ bufLen \in Nat
  BY DEF TypeOK, CBWType, BotAssumption
<1>5. Clamp \in Nat /\ Clamp <= cbw.len /\ Clamp <= bufCap /\ bufLen <= Clamp
  BY <1>4 DEF Clamp, Minimum, BufferSafe, ReadData
<1>6. len \in Nat /\ len <= Clamp
  <2> HIDE DEF size
  <2>1. QED BY <1>3, <1>4, <1>5 DEF Minimum
<1>7. bufSent = 0 BY DEF ReadData, TypeOK
<1>8. UNCHANGED <<host, aborts, disturbed, flags, pc, latched, afterZlp, tx, txStall,
                  bufCap, bufSent, dataSent, blank, ejected>> /\ wiped' = FALSE
  BY DEF ReadData, StayInLoop, hostVars, appVars
<1>9. \/ len < Clamp /\ bufLen' = len /\ UNCHANGED <<rxStall, cbw, csw, state, scsi>>
      \/ /\ scsi' = [scsi EXCEPT !.left = @ - len, !.done = (scsi.left = len)]
         /\ len <= scsi.left
         /\ cbw' = [cbw EXCEPT !.len = @ - len] /\ bufLen' = 0
         /\ UNCHANGED <<rxStall, csw, state>>
      \/ /\ rxStall' = TRUE /\ bufLen' = len /\ state' = "WriteCSW"
         /\ csw' = [kind |-> "csw", tag |-> cbw.tag, status |-> "nok", residue |-> cbw.len]
         /\ UNCHANGED <<cbw, scsi>>
  <2>1. scsi.left \in Nat BY DEF TypeOK, ScsiType
  <2>2. CASE len < Clamp BY <2>2 DEF ReadData
  <2>3. CASE ~(len < Clamp)
    <3>1. \E verdict \in RxOutcomes(len) :
             IF verdict = "ok"
             THEN /\ scsi' = [scsi EXCEPT !.left = @ - len, !.done = (scsi.left = len)]
                  /\ cbw' = [cbw EXCEPT !.len = @ - len] /\ bufLen' = 0
                  /\ UNCHANGED <<rxStall, csw, state>>
             ELSE /\ rxStall' = TRUE /\ bufLen' = len /\ state' = "WriteCSW"
                  /\ csw' = [kind |-> "csw", tag |-> cbw.tag, status |-> "nok",
                             residue |-> cbw.len]
                  /\ UNCHANGED <<cbw, scsi>>
      BY Zenon, <2>3 DEF ReadData
    <3> HIDE DEF len
    <3>2. len > scsi.left => RxOutcomes(len) = {"nok"} BY DEF RxOutcomes
    <3>3. CASE len > scsi.left BY <3>1, <3>2, <3>3
    <3>4. CASE ~(len > scsi.left)
      <4>1. len <= scsi.left BY <1>6, <2>1, <3>4
      <4>2. QED BY <3>1, <4>1, Zenon
    <3>5. QED BY <3>3, <3>4
  <2>4. QED BY <2>2, <2>3
<1> HIDE DEF len
<1>10. CASE len < Clamp /\ bufLen' = len /\ UNCHANGED <<rxStall, cbw, csw, state, scsi>>
  <2>1. TypeOK' BY <1>2, <1>6, <1>8, <1>10 DEF TypeOK
  <2>2. BufferSafe'
    <3>1. Clamp' = Clamp BY <1>8, <1>10 DEF Clamp, Minimum
    <3>2. bufCap > 0 BY <1>4 DEF BufferSafe, ReadData
    <3>3. QED BY <1>4, <1>5, <1>6, <1>7, <1>8, <1>10, <3>1, <3>2 DEF BufferSafe, Clamp
  <2>3. QED BY <1>7, <1>8, <2>1, <2>2
<1>11. ASSUME scsi' = [scsi EXCEPT !.left = @ - len, !.done = (scsi.left = len)],
              len <= scsi.left,
              cbw' = [cbw EXCEPT !.len = @ - len], bufLen' = 0,
              UNCHANGED <<rxStall, csw, state>>
       PROVE  IInv'
  <2> DEFINE d == (scsi.left = len)
             l == scsi.left - len
  <2>1. scsi \in ScsiType /\ d \in BOOLEAN /\ l \in Nat BY <1>6, <1>11 DEF TypeOK, ScsiType
  <2>2. scsi' \in ScsiType
    <3>1. scsi' = [scsi EXCEPT !.left = l, !.done = d] BY <1>11, Zenon
    <3> HIDE DEF d, l
    <3>2. [scsi EXCEPT !.left = l, !.done = d] \in ScsiType BY <2>1, ScsiUpdate
    <3>3. QED BY <3>1, <3>2, Zenon
  <2>3. cbw' \in CBWType /\ cbw'.len = cbw.len - len
    <3>1. cbw' = [cbw EXCEPT !.len = @ - len] BY <1>11
    <3>2. cbw.len - len \in Nat BY <1>4, <1>5, <1>6
    <3>3. cbw \in CBWType BY DEF TypeOK
    <3>4. QED BY <3>1, <3>2, <3>3 DEF CBWType
  <2>4. TypeOK' BY <1>2, <1>8, <1>11, <2>2, <2>3 DEF TypeOK
  <2>5. cbw'.len \in Nat /\ bufCap' = bufCap BY <1>8, <2>3 DEF CBWType
  <2>6. bufCap > 0 BY <1>4 DEF BufferSafe, ReadData
  <2>7. QED BY <1>4, <1>7, <1>8, <1>11, <2>4, <2>5, <2>6 DEF BufferSafe, Minimum
<1>12. ASSUME rxStall' = TRUE, bufLen' = len, state' = "WriteCSW",
              csw' = [kind |-> "csw", tag |-> cbw.tag, status |-> "nok", residue |-> cbw.len],
              UNCHANGED <<cbw, scsi>>
       PROVE  IInv'
  <2>1. csw' \in CSWType BY <1>4, <1>12 DEF CSWType, CBWType, TypeOK, Status
  <2>2. TypeOK' BY <1>2, <1>6, <1>8, <1>12, <2>1 DEF TypeOK, States
  <2>3. QED BY <1>6, <1>7, <1>8, <1>12, <2>2 DEF BufferSafe
<1>13. QED BY <1>9, <1>10, <1>11, <1>12

\* A chunk fits what remains of the transfer, and one packet of it leaves
\* buf_sent within buf_len or empties the buffer.
LEMMA WriteDataStep == ASSUME BotAssumption, IInv, WriteData PROVE IInv'
<1> USE DEF IInv
<1>1. PICK chunk \in IF bufLen = 0 THEN TxChunks(Clamp) \ {0} ELSE {bufLen} :
       /\ IF bufLen = 0 THEN AfterTx(chunk) /\ wiped' = FALSE
                         ELSE UNCHANGED <<scsi, blank, wiped>>
       /\ IF ~TxReady
          THEN /\ bufLen = 0 /\ bufLen' = chunk /\ LeaveLoop
               /\ UNCHANGED <<tx, cbw, bufSent, dataSent>>
          ELSE LET n == Minimum(MaxPacket, chunk - bufSent) IN
               /\ tx' = DataPacket(n, wiped') /\ StayInLoop
               /\ IF bufSent + n = chunk
                  THEN /\ cbw' = [cbw EXCEPT !.len = @ - chunk]
                       /\ dataSent' = dataSent + chunk /\ bufLen' = 0 /\ bufSent' = 0
                  ELSE /\ bufLen' = chunk /\ bufSent' = bufSent + n
                       /\ UNCHANGED <<cbw, dataSent>>
  BY Zenon DEF WriteData
<1>2. /\ UNCHANGED <<host, aborts, disturbed, ejected, rx, rxStall, txStall, flags, state,
                     afterZlp, csw, bufCap>>
      /\ state = "WriteData" /\ cbw.len > 0
  BY DEF WriteData, hostVars, appVars
<1>3. bufCap \in Nat /\ cbw.len \in Nat /\ bufLen \in Nat /\ bufSent \in Nat
        /\ bufSent <= bufLen /\ dataSent \in Nat /\ bufCap > 0
  BY <1>2 DEF TypeOK, CBWType, BotAssumption, BufferSafe
<1>4. Clamp \in Nat /\ Clamp <= cbw.len /\ Clamp <= bufCap /\ bufLen <= Clamp
  BY <1>2, <1>3 DEF Clamp, Minimum, BufferSafe
<1>5. chunk \in Nat /\ chunk <= Clamp /\ bufSent <= chunk /\ (bufLen = 0 => chunk <= scsi.left)
  <2>1. CASE bufLen = 0 BY <1>1, <1>3, <1>4, <2>1, ChunkBound
  <2>2. CASE bufLen # 0 BY <1>1, <1>3, <1>4, <2>2
  <2>3. QED BY <2>1, <2>2
<1>6. scsi' \in ScsiType /\ blank' \in BlankType /\ wiped' \in BOOLEAN
  <2>1. scsi \in ScsiType /\ blank \in BlankType /\ wiped \in BOOLEAN BY DEF TypeOK
  <2>2. CASE bufLen = 0
    <3>1. AfterTx(chunk) /\ wiped' = FALSE BY <1>1, <2>2
    <3> DEFINE l == scsi.left - chunk
               d == (scsi.op # "read" \/ scsi.left = chunk)
    <3>2. l \in Nat /\ d \in BOOLEAN BY <1>5, <2>1, <2>2 DEF ScsiType
    <3>3. scsi' = [scsi EXCEPT !.left = l, !.done = d] BY <3>1, Zenon DEF AfterTx
    <3>4. [blank EXCEPT !.failed = FALSE] \in BlankType BY <2>1 DEF BlankType
    <3>5. blank' \in BlankType BY <2>1, <3>1, <3>4, Zenon DEF AfterTx
    <3> HIDE DEF l, d
    <3>6. [scsi EXCEPT !.left = l, !.done = d] \in ScsiType BY <2>1, <3>2, ScsiUpdate
    <3>7. QED BY <3>1, <3>3, <3>5, <3>6
  <2>3. CASE bufLen # 0 BY <1>1, <2>1, <2>3
  <2>4. QED BY <2>2, <2>3
<1>7. CASE ~TxReady
  <2>1. bufLen = 0 /\ bufLen' = chunk /\ UNCHANGED <<tx, cbw, bufSent, dataSent, latched>>
          /\ pc' \in {"step", "wait"}
    BY <1>1, <1>7 DEF LeaveLoop
  <2>2. TypeOK' BY <1>2, <1>5, <1>6, <2>1 DEF TypeOK
  <2>3. Clamp' = Clamp BY <1>2, <2>1 DEF Clamp, Minimum
  <2>4. BufferSafe' BY <1>2, <1>3, <1>5, <2>1, <2>3 DEF BufferSafe, Clamp
  <2>5. QED BY <1>2, <2>2, <2>4
<1>8. CASE TxReady
  <2> DEFINE n == Minimum(MaxPacket, chunk - bufSent)
  <2>1. n \in Nat /\ bufSent + n <= chunk
    BY <1>3, <1>5 DEF Minimum, BotAssumption
  <2>2. tx' = DataPacket(n, wiped') /\ UNCHANGED <<pc, latched>>
    BY <1>1, <1>8 DEF StayInLoop
  <2>3. tx' \in PacketType
    <3> HIDE DEF n
    <3>1. QED BY <1>6, <2>1, <2>2, PacketTypes
  <2>4. \/ /\ cbw' = [cbw EXCEPT !.len = @ - chunk]
           /\ dataSent' = dataSent + chunk /\ bufLen' = 0 /\ bufSent' = 0
        \/ /\ bufLen' = chunk /\ bufSent' = bufSent + n
           /\ UNCHANGED <<cbw, dataSent>>
    BY <1>1, <1>8
  <2> HIDE DEF n
  <2>5. ASSUME cbw' = [cbw EXCEPT !.len = @ - chunk],
               dataSent' = dataSent + chunk, bufLen' = 0, bufSent' = 0
        PROVE  IInv'
    <3>1. cbw.len - chunk \in Nat /\ dataSent' \in Nat BY <1>3, <1>4, <1>5, <2>5
    <3>2. cbw' \in CBWType /\ cbw'.len \in Nat
      BY <2>5, <3>1 DEF TypeOK, CBWType
    <3>3. TypeOK' BY <1>2, <1>6, <2>2, <2>3, <2>5, <3>1, <3>2 DEF TypeOK
    <3>4. BufferSafe' BY <1>2, <1>3, <2>5, <3>2 DEF BufferSafe, Minimum
    <3>5. QED BY <1>2, <3>3, <3>4
  <2>6. ASSUME bufLen' = chunk, bufSent' = bufSent + n, UNCHANGED <<cbw, dataSent>>
        PROVE  IInv'
    <3>1. bufSent' \in Nat /\ bufSent' <= bufLen' BY <1>3, <1>5, <2>1, <2>6
    <3>2. TypeOK' BY <1>2, <1>5, <1>6, <2>2, <2>3, <2>6, <3>1 DEF TypeOK
    <3>3. Clamp' = Clamp BY <1>2, <2>6 DEF Clamp, Minimum
    <3>4. BufferSafe' BY <1>2, <1>3, <1>5, <2>6, <3>1, <3>3 DEF BufferSafe, Clamp
    <3>5. QED BY <1>2, <3>2, <3>4
  <2>7. QED BY <2>4, <2>5, <2>6
<1>9. QED BY <1>7, <1>8

\* The status stage: the ends of the data stage leave nothing half sent.
LEMMA StatusSteps ==
  ASSUME BotAssumption, IInv, WriteDataEnds \/ WriteZlp \/ BuildCSW \/ WriteCSW
  PROVE  IInv'
<1> USE DEF IInv
<1>1. CASE WriteDataEnds
  <2>1. state' \in {"WriteZlp", "BuildCSW"} /\ afterZlp' \in {"BuildCSW", "WriteCSW"}
    BY <1>1 DEF WriteDataEnds, TypeOK
  <2>2. bufSent = 0 BY <1>1 DEF WriteDataEnds, BufferSafe, TypeOK
  <2>3. TypeOK'
    BY <1>1, <2>1
    DEF WriteDataEnds, StayInLoop, TypeOK, hostVars, epVars, bufVars, appVars, States
  <2>4. QED BY <1>1, <2>1, <2>2, <2>3 DEF WriteDataEnds, BufferSafe, bufVars
<1>2. CASE WriteZlp
  <2>1. tx' \in PacketType
    <3>1. DataPacket(0, FALSE) \in PacketType BY DEF DataPacket, PacketType
    <3>2. QED BY <1>2, <3>1 DEF WriteZlp
  <2>2. state' \in {"BuildCSW", "WriteCSW"} BY <1>2 DEF WriteZlp, TypeOK
  <2>3. bufSent = 0 BY <1>2 DEF WriteZlp, TypeOK
  <2>4. TypeOK'
    BY <1>2, <2>1, <2>2 DEF WriteZlp, StayInLoop, TypeOK, hostVars, bufVars, appVars, States
  <2>5. QED BY <1>2, <2>2, <2>3, <2>4 DEF WriteZlp, BufferSafe, bufVars
<1>3. CASE BuildCSW
  <2>1. PICK ended \in EndOutcomes : \E result \in Established(ended[1], ended[2]) :
       /\ blank' = result[2] /\ bufCap' = result[3]
       /\ scsi' = [scsi EXCEPT !.op = "none",
                               !.ejectPending = @ \/ (scsi.op = "eject" /\ ended[1] = "ok")]
       /\ IF result[1] = "ok" /\ Defers(result[2])
          THEN /\ state' = "WaitBackground"
               /\ csw' = [csw EXCEPT !.tag = cbw.tag, !.residue = cbw.len]
          ELSE /\ state' = "WriteCSW"
               /\ csw' = [kind |-> "csw", tag |-> cbw.tag, residue |-> cbw.len,
                          status |-> result[1]]
    BY <1>3, Zenon DEF BuildCSW
  <2>2. ended[1] \in {"ok", "nok"} /\ ended[2] \in BlankType BY EndOutcomesType
  <2> DEFINE v == ended[1]
             b == ended[2]
  <2>3. v \in {"ok", "nok"} /\ b \in BlankType BY <2>2
  <2>4. PICK result \in Established(v, b) :
       /\ blank' = result[2] /\ bufCap' = result[3]
       /\ scsi' = [scsi EXCEPT !.op = "none",
                               !.ejectPending = @ \/ (scsi.op = "eject" /\ v = "ok")]
       /\ IF result[1] = "ok" /\ Defers(result[2])
          THEN /\ state' = "WaitBackground"
               /\ csw' = [csw EXCEPT !.tag = cbw.tag, !.residue = cbw.len]
          ELSE /\ state' = "WriteCSW"
               /\ csw' = [kind |-> "csw", tag |-> cbw.tag, residue |-> cbw.len,
                          status |-> result[1]]
    BY <2>1, Zenon
  <2> HIDE DEF v, b
  <2>5. result[1] \in {"ok", "nok"} /\ result[2] \in BlankType /\ result[3] \in {0, BufCap}
    BY <2>3, EstablishedType
  <2>6. scsi' \in ScsiType
    <3> DEFINE e == (scsi.ejectPending \/ (scsi.op = "eject" /\ v = "ok"))
    <3>1. scsi' = [scsi EXCEPT !.op = "none", !.ejectPending = e] BY <2>4, Zenon
    <3>2. scsi \in ScsiType /\ e \in BOOLEAN BY DEF TypeOK, ScsiType
    <3> HIDE DEF e
    <3>3. [scsi EXCEPT !.op = "none", !.ejectPending = e] \in ScsiType
      BY <3>2 DEF ScsiType, Ops
    <3>4. QED BY <3>1, <3>3
  <2>7. csw' \in CSWType /\ state' \in {"WaitBackground", "WriteCSW"}
    <3>1. csw \in CSWType /\ cbw.tag \in Nat /\ cbw.len \in Nat BY DEF TypeOK, CBWType
    <3>2. [csw EXCEPT !.tag = cbw.tag, !.residue = cbw.len] \in CSWType
      BY <3>1 DEF CSWType
    <3>3. [kind |-> "csw", tag |-> cbw.tag, residue |-> cbw.len, status |-> result[1]] \in CSWType
      BY <2>5, <3>1 DEF CSWType, Status
    <3>4. CASE result[1] = "ok" /\ Defers(result[2]) BY <2>4, <3>2, <3>4
    <3>5. CASE ~(result[1] = "ok" /\ Defers(result[2])) BY <2>4, <3>3, <3>5
    <3>6. QED BY <3>4, <3>5
  <2>8. UNCHANGED <<host, aborts, disturbed, ejected, rx, rxStall, tx, txStall, flags, pc,
                    latched, afterZlp, cbw, bufLen, bufSent, dataSent, wiped>>
    BY <1>3 DEF BuildCSW, StayInLoop, hostVars, epVars, appVars
  <2>9. bufSent = 0
    <3>1. state = "BuildCSW" BY <1>3, Zenon DEF BuildCSW
    <3>2. QED BY <3>1 DEF TypeOK
  <2>10. blank' \in BlankType /\ bufCap' \in {0, BufCap} BY <2>4, <2>5
  <2>11. TypeOK' BY <2>6, <2>7, <2>8, <2>10 DEF TypeOK, States
  <2>12. QED BY <2>7, <2>8, <2>9, <2>11 DEF BufferSafe
<1>4. CASE WriteCSW
  <2>1. tx' \in PacketType BY <1>4, PacketTypes DEF WriteCSW, TypeOK
  <2>2. state' \in {"WaitEjectCSW", "ReadCBW"} /\ pc' \in {"step", "wait", "loop"}
          /\ latched' = latched
    BY <1>4 DEF WriteCSW, LeaveLoop, StayInLoop
  <2>3. bufSent = 0 BY <1>4 DEF WriteCSW, TypeOK
  <2>4. TypeOK'
    BY <1>4, <2>1, <2>2, ZeroTypes DEF WriteCSW, TypeOK, hostVars, appVars, States
  <2>5. QED BY <1>4, <2>2, <2>3, <2>4 DEF WriteCSW, BufferSafe
<1>5. QED BY <1>1, <1>2, <1>3, <1>4

\* The host and the callbacks touch the worker's locals never.
LEMMA HostSteps ==
  ASSUME BotAssumption, IInv,
         \/ \E c \in Commands : SendCBW(c)
         \/ SendData \/ TakeData \/ TakeStatus \/ TimeOutStuck \/ TimeOutEarly
         \/ BotReset \/ ClearHalts \/ Suspend \/ Deinit \/ UNCHANGED vars
  PROVE  IInv'
<1> USE DEF IInv
<1>h. host \in HostType /\ rx \in Seq(PacketType) /\ tx \in PacketType /\ flags \subseteq Events
  BY DEF TypeOK
<1>f. ASSUME RxCallback \/ TxCallback \/ flags' = flags \/ flags' = flags \cup {"Reset"}
             \/ flags' = flags \cup {"Exit"}
      PROVE  flags' \subseteq Events
  BY <1>f, <1>h DEF RxCallback, TxCallback, Events
\* What is left to show of an action that leaves the worker alone
<1>w. ASSUME UNCHANGED workerVars, host' \in HostType, aborts' \in Nat, disturbed' \in BOOLEAN,
             rx' \in Seq(PacketType), tx' \in PacketType, rxStall' \in BOOLEAN,
             txStall' \in BOOLEAN, flags' \subseteq Events
      PROVE  IInv'
  <2>1. TypeOK' BY <1>w DEF workerVars, bufVars, TypeOK
  <2>2. QED BY <1>w, <2>1 DEF workerVars, bufVars, BufferSafe
<1>1. ASSUME NEW c \in Commands, SendCBW(c) PROVE IInv'
  <2> DEFINE tag == host.tag + 1
             next(phase) == [phase |-> phase, tag |-> tag, cmd |-> c, left |-> c.hlen,
                             got |-> 0, result |-> NoResult]
             p == [kind |-> "cbw", tag |-> tag, cmd |-> c]
  <2>1. c \in CommandType /\ c.hlen \in Nat BY DEF BotAssumption, CommandType
  <2>2. tag \in Nat BY <1>h DEF HostType
  <2>3. NoResult \in [status : Status \cup {"none"}, residue : Nat] BY DEF NoResult
  <2>4. \A x \in {"recover", "status", "in", "out"} : next(x) \in HostType
    <3> HIDE DEF tag
    <3>1. QED BY <2>1, <2>2, <2>3 DEF HostType
  <2>5. p \in PacketType
    <3> HIDE DEF tag
    <3>1. QED BY <2>2, PacketTypes
  <2>6. CASE rxStall
    <3>1. host' = next("recover") /\ UNCHANGED <<rx, flags>>
      BY <1>1, <2>6 DEF SendCBW
    <3> HIDE DEF next, p
    <3>2. QED
      BY <1>1, <1>f, <1>h, <1>w, <2>4, <3>1 DEF SendCBW, TypeOK
  <2>7. CASE ~rxStall
    <3>1. rx' = Append(rx, p) /\ RxCallback
            /\ host' = next(IF c.hlen = 0 THEN "status" ELSE IF c.in THEN "in" ELSE "out")
      BY <1>1, <2>7 DEF SendCBW
    <3> HIDE DEF next, p
    <3>2. host' \in HostType BY <2>4, <3>1
    <3>3. rx' \in Seq(PacketType) BY <1>h, <2>5, <3>1
    <3>4. QED BY <1>1, <1>f, <1>h, <1>w, <3>1, <3>2, <3>3 DEF SendCBW, TypeOK
  <2>8. QED BY <2>6, <2>7
<1>2. CASE SendData
  <2> DEFINE n == Minimum(MaxPacket, host.left)
  <2>1. n \in Nat /\ n <= host.left /\ host.left \in Nat
    BY <1>h DEF HostType, Minimum, BotAssumption
  <2> DEFINE p == DataPacket(n, FALSE)
  <2>2. p \in PacketType
    <3> HIDE DEF n
    <3>1. QED BY <2>1, PacketTypes
  <2>3. CASE rxStall
    <3>1. rxStall' = FALSE /\ rx' = <<>> /\ host' = [host EXCEPT !.phase = "status"]
            /\ UNCHANGED flags
      BY <1>2, <2>3 DEF SendData
    <3>2. host' \in HostType BY <1>h, <3>1 DEF HostType
    <3>3. rx' \in Seq(PacketType) BY <3>1
    <3>4. QED BY <1>2, <1>f, <1>h, <1>w, <3>1, <3>2, <3>3 DEF SendData, TypeOK
  <2>4. CASE ~rxStall
    <3>1. rx' = Append(rx, p) /\ RxCallback /\ UNCHANGED rxStall
      BY <1>2, <2>4 DEF SendData
    <3>2. host' = [host EXCEPT !.left = @ - n,
                               !.phase = IF host.left = n THEN "status" ELSE "out"]
      BY <1>2, <2>4 DEF SendData
    <3> HIDE DEF n, p
    <3>3. host.left - n \in Nat BY <2>1
    <3>4. host' \in HostType BY <1>h, <3>2, <3>3 DEF HostType
    <3>5. rx' \in Seq(PacketType) BY <1>h, <2>2, <3>1
    <3>6. QED BY <1>2, <1>f, <1>h, <1>w, <3>1, <3>4, <3>5 DEF SendData, TypeOK
  <2>5. QED BY <2>3, <2>4
<1>3. CASE TakeData
  <2>1. CASE txStall
    BY <1>3, <1>f, <1>h, <1>w, <2>1 DEF TakeData, TypeOK, HostType
  <2>2. CASE ~txStall
    <3>1. tx' = NoPacket /\ TxCallback /\ UNCHANGED txStall BY <1>3, <2>2 DEF TakeData
    <3>2. CASE tx.kind = "data" /\ tx.len <= host.left
      <4> DEFINE l == host.left - tx.len
                 g == host.got + tx.len
                 f == IF tx.len < MaxPacket \/ tx.len = host.left THEN "status" ELSE "in"
      <4>1. l \in Nat /\ g \in Nat BY <1>h, <3>2, PacketTypes DEF HostType
      <4>2. host' = [host EXCEPT !.left = l, !.got = g, !.phase = f]
        BY <1>3, <2>2, <3>2 DEF TakeData
      <4>3. f \in {"status", "in"} OBVIOUS
      <4> HIDE DEF l, g, f
      <4>4. host' \in HostType BY <1>h, <4>1, <4>2, <4>3 DEF HostType
      <4>5. QED
        BY <1>3, <1>f, <1>h, <1>w, <3>1, <4>4, PacketTypes DEF TakeData, TypeOK
    <3>3. CASE ~(tx.kind = "data" /\ tx.len <= host.left)
      <4>1. host' = [host EXCEPT !.phase = "confused"]
        BY <1>3, <2>2, <3>3 DEF TakeData
      <4>2. host' \in HostType BY <1>h, <4>1 DEF HostType
      <4>3. QED
        BY <1>3, <1>f, <1>h, <1>w, <3>1, <4>2, PacketTypes DEF TakeData, TypeOK
    <3>4. QED BY <3>2, <3>3
  <2>3. QED BY <2>1, <2>2
<1>4. CASE TakeStatus
  <2>1. CASE txStall
    BY <1>4, <1>f, <1>h, <1>w, <2>1 DEF TakeStatus, TypeOK
  <2>2. CASE ~txStall
    <3>1. tx' = NoPacket /\ TxCallback /\ UNCHANGED txStall BY <1>4, <2>2 DEF TakeStatus
    <3>2. CASE tx.kind = "csw" /\ tx.tag = host.tag
      <4> DEFINE f == IF tx.status = "phase" THEN "recover" ELSE "idle"
                 r == [status |-> tx.status, residue |-> tx.residue]
      <4>1. tx.status \in Status /\ tx.residue \in Nat BY <1>h, <3>2, PacketTypes
      <4>2. r \in [status : Status \cup {"none"}, residue : Nat] BY <4>1
      <4>3. f \in {"recover", "idle"} OBVIOUS
      <4>4. host' = [host EXCEPT !.phase = f, !.result = r]
        BY <1>4, <2>2, <3>2 DEF TakeStatus
      <4> HIDE DEF f, r
      <4>5. host' \in HostType BY <1>h, <4>2, <4>3, <4>4 DEF HostType
      <4>6. QED
        BY <1>4, <1>f, <1>h, <1>w, <3>1, <4>5, PacketTypes DEF TakeStatus, TypeOK
    <3>3. CASE ~(tx.kind = "csw" /\ tx.tag = host.tag)
      <4>1. host' = [host EXCEPT !.phase = "confused"]
        BY <1>4, <2>2, <3>3 DEF TakeStatus
      <4>2. host' \in HostType BY <1>h, <4>1 DEF HostType
      <4>3. QED
        BY <1>4, <1>f, <1>h, <1>w, <3>1, <4>2, PacketTypes DEF TakeStatus, TypeOK
    <3>4. QED BY <3>2, <3>3
  <2>3. QED BY <2>1, <2>2
<1>5. CASE TimeOutStuck \/ TimeOutEarly
  <2>1. GiveUp /\ aborts' \in Nat BY <1>5 DEF TimeOutStuck, TimeOutEarly, TypeOK
  <2>2. host' \in HostType BY <1>h, <2>1 DEF GiveUp, HostType
  <2>3. QED BY <1>f, <1>h, <1>w, <2>1, <2>2 DEF GiveUp, TypeOK, epVars
<1>6. CASE BotReset
  <2>1. host' \in HostType BY <1>6, <1>h DEF BotReset, HostType
  <2>2. QED BY <1>6, <1>f, <1>h, <1>w, <2>1 DEF BotReset, TypeOK, epVars
<1>7. CASE ClearHalts
  <2>1. host' \in HostType BY <1>7, <1>h DEF ClearHalts, HostType
  <2>2. rx' \in Seq(PacketType) BY <1>7 DEF ClearHalts
  <2>3. QED BY <1>7, <1>f, <1>w, <2>1, <2>2, PacketTypes DEF ClearHalts, TypeOK
<1>8. CASE Suspend
  BY <1>8, <1>f, <1>h, <1>w DEF Suspend, TypeOK, epVars, hostVars
<1>9. CASE Deinit
  <2>1. host' \in HostType BY <1>9, <1>h DEF Deinit, HostType
  <2>2. QED BY <1>9, <1>f, <1>h, <1>w, <2>1 DEF Deinit, TypeOK, epVars
<1>10. CASE UNCHANGED vars
  <2>1. UNCHANGED workerVars /\ UNCHANGED <<host, aborts, disturbed, rx, tx, rxStall, txStall, flags>>
    BY <1>10 DEF vars, workerVars, hostVars, epVars, appVars
  <2>2. QED BY <1>f, <1>h, <1>w, <2>1 DEF TypeOK
<1>11. QED BY <1>1, <1>2, <1>3, <1>4, <1>5, <1>6, <1>7, <1>8, <1>9, <1>10

-----------------------------------------------------------------------------
\* IInv is inductive.
LEMMA StepIInv == ASSUME BotAssumption, IInv, [Next]_vars PROVE IInv'
<1>1. CASE Worker
  BY <1>1, ControlSteps, ReadCBWStep, ReadDataStep, WriteDataStep, StatusSteps DEF Worker
<1>2. CASE Joined BY <1>2, HostSteps DEF Joined
<1>3. CASE ~Worker /\ ~Joined BY <1>3, HostSteps DEF Next
<1>4. QED BY <1>1, <1>2, <1>3

\* The inductive invariant of the transport, in every reachable state.
THEOREM Inductive == Spec => []IInv
<1>1. Init => IInv BY BotAssumption, InitIInv
<1>2. IInv /\ [Next]_vars => IInv' BY BotAssumption, StepIInv
<1>3. QED BY <1>1, <1>2, PTL DEF Spec

\* The variables keep their types: host, endpoints, event flags, the worker's
\* locals and the SCSI session, whatever the host sends and however the blank
\* operation, the allocations and the media fail.
THEOREM TypeCorrect == Spec => []TypeOK
<1>1. IInv => TypeOK BY DEF IInv
<1>2. QED BY <1>1, Inductive, PTL

\* No copy leaves the transfer buffer or the announced length: the transport
\* never reads or writes outside buf, and cbw.len -= buf_len never wraps, for
\* every packet size, buffer capacity and command, across resets that free the
\* buffer, failed allocations and blank steps.
THEOREM BufferSafety == Spec => []BufferSafe
<1>1. IInv => BufferSafe BY DEF IInv
<1>2. QED BY <1>1, Inductive, PTL

-----------------------------------------------------------------------------
(* The two sides agree: the inductive invariant behind InSync, NeverStuck, *)
(* ResidueTruthful and BlankAckedWhenWiped.  While a command is under way  *)
(* and no reset event was raised, the phase of the host, the endpoints and *)
(* the worker's state are one of the stages below.                         *)

Engaged == host.phase \in {"in", "out", "status"}

\* The armed packet ends the host's data stage
Ending == tx.kind = "data" /\ (tx.len < MaxPacket \/ tx.len = host.left)
InFlight == IF tx.kind = "data" THEN tx.len ELSE 0

\* No chunk follows one that ended inside a packet
Exhausted(rest) == scsi.done \/ (scsi.op = "read" /\ (scsi.left < BlockLen \/ rest < BlockLen))

\* The queue q holds the packets by which a transfer goes from need units to rest
Flow(q, need, rest) ==
  \E r \in [0..Len(q) -> Nat] :
     /\ r[0] = need /\ r[Len(q)] = rest
     /\ \A i \in 1..Len(q) :
          /\ r[i - 1] > 0 /\ q[i] = DataPacket(Minimum(MaxPacket, r[i - 1]), FALSE)
          /\ r[i] = r[i - 1] - Minimum(MaxPacket, r[i - 1])

Owned == cbw.tag = host.tag /\ cbw.cmd = host.cmd

\* Commands that may not overlap a blank operation do not meet one
Undeferred == host.cmd.op \notin AllowedWhileBlanking => ~blank.active

Wiped == ~blank.active /\ blank.lba = BlankBlocks

\* What a CSW says is so
Truthful(k) ==
  /\ k.tag = host.tag
  /\ host.cmd.in => host.left = InFlight + k.residue
  /\ k.status = "ok" /\ host.cmd.op = "read" =>
        host.cmd.alen + k.residue = host.cmd.hlen /\ (~host.cmd.in => host.cmd.alen = 0)
  /\ k.status = "ok" /\ host.cmd.op = "write" => k.residue = 0 /\ host.left = 0
  /\ k.status = "ok" /\ host.cmd.op = "blank" => Wiped

OutPhase == host.phase = IF host.left = 0 THEN "status" ELSE "out"

Drained == rx = <<>> \/ rxStall

\* The CBW is still unread
Sent ==
  /\ state \in {"ReadCBW", "WaitEjectCSW"}
  /\ rx # <<>> /\ Head(rx) = [kind |-> "cbw", tag |-> host.tag, cmd |-> host.cmd]
  /\ ~rxStall /\ ~txStall /\ tx = NoPacket
  /\ IF host.cmd.in
     THEN /\ Tail(rx) = <<>> /\ host.left = host.cmd.hlen
          /\ host.phase = IF host.left = 0 THEN "status" ELSE "in"
     ELSE Flow(Tail(rx), host.cmd.hlen, host.left) /\ OutPhase

Reading ==
  /\ state = "ReadData" /\ Owned /\ Undeferred /\ ~host.cmd.in
  /\ ~rxStall /\ ~txStall /\ tx = NoPacket
  /\ bufLen % MaxPacket = 0 /\ bufLen <= cbw.len /\ (cbw.len > 0 => bufLen < Clamp)
  /\ Flow(rx, cbw.len - bufLen, host.left) /\ OutPhase
  /\ scsi.op = host.cmd.op
  /\ scsi.op = "write" => scsi.left = cbw.len
  /\ scsi.op = "read" => host.cmd.alen = 0 /\ cbw.len = host.cmd.hlen

\* The data stage to the host, also when the worker is done with it
Sending ==
  /\ Owned /\ Undeferred /\ host.cmd.in /\ host.phase # "out"
  /\ ~rxStall /\ ~txStall /\ rx = <<>>
  /\ tx = NoPacket \/ (tx.kind = "data" /\ host.phase = "in")
  /\ host.phase = "in" => host.left > 0
  /\ host.cmd.hlen = dataSent + cbw.len
  /\ host.left + bufSent = InFlight + cbw.len
  /\ scsi.op = host.cmd.op /\ scsi.op # "write"
  /\ scsi.op = "read" => scsi.left + dataSent + bufLen = host.cmd.alen
  /\ scsi.op = "read" /\ scsi.done => scsi.left = 0

Writing ==
  /\ state = "WriteData" /\ Sending
  /\ bufLen > 0 => /\ bufSent < bufLen /\ bufSent % MaxPacket = 0 /\ dataSent % MaxPacket = 0
                   /\ bufLen % MaxPacket = 0 \/ Exhausted(cbw.len - bufLen)
  /\ host.phase = "in" /\ ~Ending => dataSent % MaxPacket = 0
  /\ host.phase = "status" \/ Ending =>
       cbw.len = 0 \/ (dataSent % MaxPacket # 0 /\ Exhausted(cbw.len))

Padding ==
  /\ state = "WriteZlp" /\ host.phase = "in" /\ ~Ending
  /\ \/ afterZlp = "BuildCSW" /\ Sending /\ bufLen = 0
     \/ /\ afterZlp = "WriteCSW" /\ Truthful(csw) /\ csw.status # "ok"
        /\ tx = NoPacket /\ ~txStall /\ rx = <<>>

\* The host expects the CSW, at the latest after the armed packet
Expecting ==
  /\ ~txStall
  /\ host.phase = "in" => Ending
  /\ host.phase = "status" => tx = NoPacket
  /\ host.phase = "out" => rxStall /\ tx = NoPacket

Concluding ==
  /\ state = "BuildCSW" /\ Expecting /\ Owned /\ Undeferred /\ rx = <<>>
  /\ scsi.op = host.cmd.op
  /\ IF host.cmd.in THEN Sending /\ bufLen = 0
     ELSE /\ cbw.len = 0 /\ host.left = 0
          /\ scsi.op = "read" => host.cmd.alen = 0 /\ host.cmd.hlen = 0

Replying ==
  /\ Expecting /\ Drained
  /\ \/ state = "WriteCSW" /\ Truthful(csw)
     \/ /\ state = "WaitBackground" /\ Truthful([csw EXCEPT !.status = "nok"])
        /\ host.cmd.op \notin {"read", "write"}
        /\ ~blank.active /\ ~blank.failed => blank.lba = BlankBlocks

Answered ==
  /\ state \in {"ReadCBW", "WaitEjectCSW"}
  /\ ~txStall /\ Drained /\ tx.kind = "csw" /\ Truthful(tx)
  /\ host.phase # "in" /\ (host.phase = "out" => rxStall)

\* No buffer: both endpoints were halted, and the host will time out
Dead ==
  /\ "alloc" \in Faults
  /\ state = "ReadCBW" /\ tx = NoPacket /\ Drained
  /\ host.phase = "out" => rxStall

Stage == Sent \/ Reading \/ Writing \/ Padding \/ Concluding \/ Replying \/ Answered \/ Dead

Quiet == state \in {"ReadCBW", "WaitEjectCSW"} /\ Drained

\* What the host received and what it still expects add up
Counted == IF host.cmd.in THEN host.got + host.left = host.cmd.hlen
                          ELSE host.got = 0 /\ host.phase # "in"

SyncInv ==
  ~disturbed =>
    /\ host.phase \notin {"confused", "clear"}
    /\ Engaged => Stage /\ Counted /\ host.result.status = "none"
    /\ host.phase = "idle" => Quiet /\ tx = NoPacket /\ ~txStall
    /\ host.result.status # "none" => Quiet
    /\ ResidueTruthful /\ BlankAckedWhenWiped

\* No event is lost: a worker that waits is blocked, or a flag will wake it
Blocked ==
  /\ state = "ReadCBW" => ~RxReady
  /\ state = "ReadData" => cbw.len > 0 /\ ~RxReady
  /\ state \in {"WriteData", "WriteZlp", "WriteCSW"} => ~TxReady
  /\ state # "BuildCSW"

WakeInv ==
  /\ "TxComplete" \in flags => "RxTx" \in flags
  /\ "Reset" \in flags => disturbed
  /\ "Exit" \in flags \/ pc = "done" => host.phase = "gone"
  /\ ~disturbed /\ pc \in {"wait", "step"} /\ "RxTx" \notin flags => Blocked
  /\ ~disturbed /\ pc # "done" /\ state = "WaitEjectCSW" =>
       \/ tx # NoPacket \/ "TxComplete" \in flags
       \/ pc = "loop" /\ "TxComplete" \in latched

-----------------------------------------------------------------------------
\* Arithmetic of packets: remainders, and sums and steps of whole packets.
LEMMA Remainder ==
  ASSUME NEW m \in Nat \ {0}, NEW q \in Nat, NEW r \in Nat, r < m
  PROVE  (m * q + r) % m = r
  OBVIOUS

\* What \div and % are to the provers.
LEMMA Quotient ==
  ASSUME NEW m \in Nat \ {0}, NEW a \in Nat
  PROVE  a \div m \in Nat /\ a % m \in Nat /\ a % m < m /\ a = m * (a \div m) + (a % m)
  BY Z3

\* The remainder of a sum of a multiple of m and something.
LEMMA ModAdd ==
  ASSUME NEW m \in Nat \ {0}, NEW a \in Nat, NEW b \in Nat, a % m = 0
  PROVE  (a + b) % m = b % m
<1> DEFINE q == a \div m
           p == b \div m
           r == b % m
<1>1. q \in Nat /\ p \in Nat /\ r \in Nat /\ r < m /\ a = m * q /\ b = m * p + r
  BY Quotient
<1> HIDE DEF q, p, r
<1>2. a + b = m * (q + p) + r BY <1>1
<1>3. q + p \in Nat BY <1>1
<1>4. (m * (q + p) + r) % m = r BY <1>1, <1>3, Remainder
<1> QED BY <1>2, <1>4 DEF r

\* A number below m is its own remainder.
LEMMA ModSmall ==
  ASSUME NEW m \in Nat \ {0}
  PROVE  m % m = 0 /\ 0 % m = 0 /\ \A r \in Nat : r < m => r % m = r
  OBVIOUS

\* One step of m more changes no remainder.
LEMMA ModNext ==
  ASSUME NEW m \in Nat \ {0}, NEW a \in Nat, a % m = 0
  PROVE  (a + m) % m = 0
  BY ModAdd, ModSmall

\* From a multiple of m there are whole steps to the next.
LEMMA ModStep ==
  ASSUME NEW m \in Nat \ {0}, NEW a \in Nat, NEW b \in Nat, a % m = 0, b % m = 0, a < b
  PROVE  a + m <= b
<1> SUFFICES ASSUME a + m > b PROVE FALSE OBVIOUS
<1> DEFINE r == b - a
<1>1. r \in Nat /\ r < m /\ r > 0 /\ b = a + r OBVIOUS
<1> HIDE DEF r
<1>2. (a + r) % m = r % m BY <1>1, ModAdd
<1>3. r % m = r BY <1>1
<1> QED BY <1>1, <1>2, <1>3

-----------------------------------------------------------------------------
\* Queues of data packets: empty, one more sent, one read.
LEMMA FlowEmpty ==
  ASSUME NEW need \in Nat
  PROVE  Flow(<<>>, need, need)
<1> DEFINE r == [i \in 0..0 |-> need]
<1>1. r \in [0..Len(<<>>) -> Nat] OBVIOUS
<1>2. r[0] = need /\ r[Len(<<>>)] = need OBVIOUS
<1>3. \A i \in 1..Len(<<>>) : FALSE OBVIOUS
<1> HIDE DEF r
<1> QED BY <1>1, <1>2, <1>3 DEF Flow

\* Nothing flows in an empty queue, and only there when nothing is needed.
LEMMA FlowOfNothing ==
  ASSUME NEW q \in Seq(PacketType), NEW need \in Nat, NEW rest \in Nat, Flow(q, need, rest)
  PROVE  /\ q = <<>> => need = rest
         /\ need = 0 => q = <<>> /\ rest = 0
<1>1. PICK r \in [0..Len(q) -> Nat] :
        /\ r[0] = need /\ r[Len(q)] = rest
        /\ \A i \in 1..Len(q) : r[i - 1] > 0
  BY DEF Flow
<1>2. Len(q) \in Nat OBVIOUS
<1>3. q = <<>> => need = rest BY <1>1
<1>4. ASSUME need = 0 PROVE q = <<>>
  <2> SUFFICES ASSUME q # <<>> PROVE FALSE OBVIOUS
  <2>1. 1 \in 1..Len(q) OBVIOUS
  <2>2. r[1 - 1] > 0 BY <1>1, <2>1
  <2>3. 1 - 1 = 0 OBVIOUS
  <2> QED BY <1>1, <1>4, <2>2, <2>3
<1> QED BY <1>3, <1>4

\* A packet more takes its size off what remains.
LEMMA FlowAppend ==
  ASSUME BotAssumption, NEW q \in Seq(PacketType), NEW need \in Nat, NEW rest \in Nat,
         rest > 0, Flow(q, need, rest)
  PROVE  Flow(Append(q, DataPacket(Minimum(MaxPacket, rest), FALSE)), need,
              rest - Minimum(MaxPacket, rest))
<1> DEFINE n == Minimum(MaxPacket, rest)
           p == DataPacket(n, FALSE)
           l == Len(q)
           t == Append(q, p)
<1>1. PICK r \in [0..l -> Nat] :
        /\ r[0] = need /\ r[l] = rest
        /\ \A i \in 1..l :
             /\ r[i - 1] > 0 /\ q[i] = DataPacket(Minimum(MaxPacket, r[i - 1]), FALSE)
             /\ r[i] = r[i - 1] - Minimum(MaxPacket, r[i - 1])
  BY DEF Flow
<1>2. n \in Nat /\ n <= rest BY DEF Minimum, BotAssumption
<1>3. p \in PacketType BY <1>2, PacketTypes
<1>4. l \in Nat /\ Len(t) = l + 1 /\ t[l + 1] = p /\ \A i \in 1..l : t[i] = q[i]
  <2> HIDE DEF p
  <2> QED BY <1>3
<1> DEFINE s == [i \in 0..(l + 1) |-> IF i <= l THEN r[i] ELSE rest - n]
<1> HIDE DEF l, t, n
<1>5. s \in [0..(l + 1) -> Nat]
  BY <1>1, <1>2, <1>4
<1>6. s[0] = need /\ s[l + 1] = rest - n /\ \A i \in 0..l : s[i] = r[i]
  BY <1>1, <1>4
<1>7. ASSUME NEW i \in 1..(l + 1)
      PROVE  /\ s[i - 1] > 0 /\ t[i] = DataPacket(Minimum(MaxPacket, s[i - 1]), FALSE)
             /\ s[i] = s[i - 1] - Minimum(MaxPacket, s[i - 1])
  <2> HIDE DEF s
  <2>1. CASE i <= l
    <3>1. i \in 1..l /\ i \in 0..l /\ i - 1 \in 0..l BY <1>4, <2>1
    <3> QED BY <1>1, <1>4, <1>6, <3>1
  <2>2. CASE i = l + 1
    <3>1. i - 1 = l /\ l \in 0..l BY <1>4, <2>2
    <3>2. s[i - 1] = rest BY <1>1, <1>6, <3>1
    <3>3. l + 1 \in 0..(l + 1) /\ s[l + 1] = rest - n BY <1>4, <1>6
    <3> QED BY <1>4, <2>2, <3>2, <3>3 DEF n, p
  <2>3. i <= l \/ i = l + 1 BY <1>4
  <2> QED BY <2>1, <2>2, <2>3
<1> HIDE DEF s, p
<1>8. Flow(t, need, rest - n) BY <1>4, <1>5, <1>6, <1>7 DEF Flow
<1> QED BY <1>8 DEF t, n, p

\* The packet at the head takes its size off what is needed.
LEMMA FlowTail ==
  ASSUME BotAssumption, NEW q \in Seq(PacketType), NEW need \in Nat, NEW rest \in Nat,
         q # <<>>, Flow(q, need, rest)
  PROVE  /\ need > 0 /\ Head(q) = DataPacket(Minimum(MaxPacket, need), FALSE)
         /\ Flow(Tail(q), need - Minimum(MaxPacket, need), rest)
<1> DEFINE l == Len(q)
           t == Tail(q)
<1>1. PICK r \in [0..l -> Nat] :
        /\ r[0] = need /\ r[l] = rest
        /\ \A i \in 1..l :
             /\ r[i - 1] > 0 /\ q[i] = DataPacket(Minimum(MaxPacket, r[i - 1]), FALSE)
             /\ r[i] = r[i - 1] - Minimum(MaxPacket, r[i - 1])
  BY DEF Flow
<1>2. l \in Nat /\ l > 0 /\ Len(t) = l - 1 /\ Head(q) = q[1]
        /\ \A i \in 1..(l - 1) : t[i] = q[i + 1]
  OBVIOUS
<1> HIDE DEF l, t
<1>3. 1 \in 1..l /\ 1 - 1 = 0 BY <1>2
<1>4. need > 0 /\ Head(q) = DataPacket(Minimum(MaxPacket, need), FALSE)
        /\ r[1] = need - Minimum(MaxPacket, need)
  BY <1>1, <1>2, <1>3
<1> DEFINE s == [i \in 0..(l - 1) |-> r[i + 1]]
<1>5. s \in [0..(l - 1) -> Nat] BY <1>1, <1>2
<1>6. \A i \in 0..(l - 1) : s[i] = r[i + 1] OBVIOUS
<1>7. s[0] = r[1] /\ s[l - 1] = rest
  <2>1. 0 \in 0..(l - 1) /\ l - 1 \in 0..(l - 1) /\ (l - 1) + 1 = l /\ 0 + 1 = 1 BY <1>2
  <2> HIDE DEF s
  <2> QED BY <1>1, <1>6, <2>1
<1>8. ASSUME NEW i \in 1..(l - 1)
      PROVE  /\ s[i - 1] > 0 /\ t[i] = DataPacket(Minimum(MaxPacket, s[i - 1]), FALSE)
             /\ s[i] = s[i - 1] - Minimum(MaxPacket, s[i - 1])
  <2> HIDE DEF s
  <2>1. i + 1 \in 1..l /\ (i + 1) - 1 = i /\ (i - 1) + 1 = i
          /\ i - 1 \in 0..(l - 1) /\ i \in 0..(l - 1)
    BY <1>2
  <2>2. s[i - 1] = r[i] /\ s[i] = r[i + 1] BY <1>6, <2>1
  <2>3. /\ r[(i + 1) - 1] > 0
        /\ q[i + 1] = DataPacket(Minimum(MaxPacket, r[(i + 1) - 1]), FALSE)
        /\ r[i + 1] = r[(i + 1) - 1] - Minimum(MaxPacket, r[(i + 1) - 1])
    BY <1>1, <2>1
  <2>4. t[i] = q[i + 1] BY <1>2
  <2> QED BY <2>1, <2>2, <2>3, <2>4
<1> HIDE DEF s
<1>9. Flow(t, need - Minimum(MaxPacket, need), rest)
  BY <1>2, <1>4, <1>5, <1>7, <1>8 DEF Flow
<1> QED BY <1>4, <1>9 DEF t

-----------------------------------------------------------------------------
(* The steps of the synchronisation invariant.                             *)

SyncVars == <<disturbed, host, rx, rxStall, tx, txStall, state, afterZlp, cbw, csw, bufCap,
              bufLen, bufSent, dataSent, scsi, blank>>

\* What the invariant does not mention does not disturb it.
LEMMA SyncFrame == ASSUME SyncInv, UNCHANGED SyncVars PROVE SyncInv'
<1> USE DEF SyncVars
<1>1. Engaged' = Engaged /\ Quiet' = Quiet /\ Counted' = Counted
  BY DEF Engaged, Quiet, Drained, Counted
<1>2. ResidueTruthful' = ResidueTruthful /\ BlankAckedWhenWiped' = BlankAckedWhenWiped
  BY DEF ResidueTruthful, BlankAckedWhenWiped
<1>3. Owned' = Owned /\ Undeferred' = Undeferred /\ InFlight' = InFlight /\ Ending' = Ending
        /\ OutPhase' = OutPhase /\ Drained' = Drained /\ Clamp' = Clamp /\ Expecting' = Expecting
  BY DEF Owned, Undeferred, InFlight, Ending, OutPhase, Drained, Clamp, Minimum, Expecting
<1>4. Sending' = Sending BY <1>3 DEF Sending
<1>5. Truthful(csw)' = Truthful(csw) /\ Truthful(tx)' = Truthful(tx)
        /\ Truthful([csw EXCEPT !.status = "nok"])' = Truthful([csw EXCEPT !.status = "nok"])
  BY <1>3 DEF Truthful, Wiped
<1>6. Sent' = Sent /\ Reading' = Reading BY <1>3 DEF Sent, Reading
<1>7. Writing' = Writing /\ Padding' = Padding /\ Concluding' = Concluding
  BY <1>3, <1>4, <1>5 DEF Writing, Exhausted, Padding, Concluding
<1>8. Replying' = Replying /\ Answered' = Answered /\ Dead' = Dead
  BY <1>3, <1>5 DEF Replying, Answered, Dead
<1>9. Stage' = Stage BY <1>6, <1>7, <1>8 DEF Stage
<1> QED BY <1>1, <1>2, <1>9 DEF SyncInv

\* Each state of the worker has its stages.
LEMMA StageAt ==
  ASSUME Stage
  PROVE  /\ state = "ReadCBW" => Sent \/ Answered \/ Dead
         /\ state = "WaitEjectCSW" => Sent \/ Answered
         /\ state = "ReadData" => Reading
         /\ state = "WriteData" => Writing
         /\ state = "WriteZlp" => Padding
         /\ state = "BuildCSW" => Concluding
         /\ state \in {"WriteCSW", "WaitBackground"} => Replying
  BY DEF Stage, Sent, Answered, Dead, Reading, Writing, Padding, Concluding, Replying

\* The worker in the middle of a transfer: a stage has to follow the stage.
LEMMA WorkerSync ==
  ASSUME SyncInv, UNCHANGED <<host, disturbed>>, ~disturbed => ~Quiet,
         ~disturbed /\ Engaged /\ Stage => Stage'
  PROVE  SyncInv'
<1> SUFFICES ASSUME ~disturbed' PROVE SyncInv' BY DEF SyncInv
<1>1. host.phase \notin {"confused", "clear", "idle"} /\ host.result.status = "none"
        /\ (Engaged => Stage /\ Counted)
  BY DEF SyncInv
<1>2. Engaged' = Engaged /\ Counted' = Counted BY DEF Engaged, Counted
<1>3. ResidueTruthful' /\ BlankAckedWhenWiped'
  BY <1>1 DEF ResidueTruthful, BlankAckedWhenWiped
<1> QED BY <1>1, <1>2, <1>3 DEF SyncInv

\* The numbers the stages compare.
LEMMA FieldTypes ==
  ASSUME BotAssumption, TypeOK
  PROVE  /\ host.tag \in Nat /\ host.left \in Nat /\ host.got \in Nat
         /\ host.cmd \in CommandType /\ host.cmd.op \in Ops /\ host.cmd.in \in BOOLEAN
         /\ host.cmd.hlen \in Nat /\ host.cmd.alen \in Nat
         /\ cbw.len \in Nat /\ cbw.tag \in Nat /\ csw.residue \in Nat /\ csw.kind = "csw"
         /\ scsi.left \in Nat /\ bufLen \in Nat /\ bufSent \in Nat /\ dataSent \in Nat
         /\ bufCap \in Nat /\ BufCap \in Nat \ {0} /\ MaxPacket \in Nat \ {0}
         /\ BlockLen \in Nat \ {0} /\ bufCap \in {0, BufCap}
  BY DEF TypeOK, HostType, CommandType, CBWType, CSWType, ScsiType, BotAssumption

\* Fields of the packets.
LEMMA PacketFields ==
  /\ NoPacket.kind = "none"
  /\ \A n, w : DataPacket(n, w).kind = "data" /\ DataPacket(n, w).len = n
  BY DEF NoPacket, DataPacket

\* What is in flight is a length.
LEMMA InFlightType == ASSUME BotAssumption, TypeOK PROVE InFlight \in Nat
  BY PacketTypes DEF InFlight, TypeOK

\* No packet but the CBW awaits a worker that reads one.
LEMMA SyncReadBadCBW ==
  ASSUME SyncInv, ReadBadCBW
  PROVE  SyncInv'
<1>1. state = "ReadCBW" /\ rx # <<>> /\ ~rxStall /\ Head(rx).kind # "cbw"
        /\ UNCHANGED <<host, disturbed>>
  BY DEF ReadBadCBW, RxReady, hostVars, appVars
<1>2. ~Quiet BY <1>1 DEF Quiet, Drained
<1>3. ~Stage
  <2>1. ~Answered /\ ~Dead BY <1>1 DEF Answered, Dead, Drained
  <2>2. ~Sent BY <1>1 DEF Sent
  <2> QED BY <1>1, <2>1, <2>2, StageAt
<1> QED BY <1>1, <1>2, <1>3, WorkerSync

\* The CBW is the command the host is busy with; refused, its data stage is
\* halted or padded, started, the worker takes up the same stage as the host.
LEMMA SyncReadCBW ==
  ASSUME BotAssumption, IInv, SyncInv, ReadCBW
  PROVE  SyncInv'
<1> USE FieldTypes, PacketFields DEF IInv
<1>1. state = "ReadCBW" /\ rx # <<>> /\ ~rxStall /\ Head(rx).kind = "cbw" /\ rx' = Tail(rx)
        /\ UNCHANGED <<host, disturbed, blank>>
  BY DEF ReadCBW, RxReady, hostVars, appVars
<1>2. ~Quiet BY <1>1 DEF Quiet, Drained
<1>3. ASSUME ~disturbed, Engaged, Stage PROVE Stage'
  <2> DEFINE c == host.cmd
             p == Head(rx)
  <2>1. Sent
    <3>1. ~Answered /\ ~Dead BY <1>1 DEF Answered, Dead, Drained
    <3> QED BY <1>1, <1>3, <3>1, StageAt
  <2>2. p = [kind |-> "cbw", tag |-> host.tag, cmd |-> c] /\ p.tag = host.tag /\ p.cmd = c
          /\ ~txStall /\ tx = NoPacket
    BY <2>1 DEF Sent
  <2>3. c.in => rx' = <<>> /\ host.left = c.hlen
                 /\ host.phase = IF c.hlen = 0 THEN "status" ELSE "in"
    BY <1>1, <2>1 DEF Sent
  <2>4. ~c.in => Flow(rx', c.hlen, host.left) /\ OutPhase
    BY <1>1, <2>1 DEF Sent
  <2>5. ~c.in /\ c.hlen = 0 => rx' = <<>> /\ host.left = 0
    <3>1. rx' \in Seq(PacketType) BY <1>1 DEF TypeOK
    <3> QED BY <2>4, <3>1, FlowOfNothing
  <2>6. cbw' = [tag |-> host.tag, cmd |-> c, len |-> c.hlen]
    BY <2>2 DEF ReadCBW
  <2>7. cbw'.tag = host.tag /\ cbw'.cmd = c /\ cbw'.len = c.hlen BY <2>6
  <2> HIDE DEF p
  <2>8. ASSUME "started" \in StartOutcomes(c), AcceptCommand(p) PROVE Stage'
    <3>1. (blank.active => c.op \in AllowedWhileBlanking) /\ ~Contradicts(c)
      BY <2>8 DEF StartOutcomes
    <3>2. scsi' = [op |-> c.op, left |-> c.alen, phaseError |-> FALSE,
                   done |-> (c.op \in {"read", "write"} /\ c.alen = 0), ejectPending |-> FALSE]
      BY <2>2, <2>8 DEF AcceptCommand
    <3>3. scsi'.op = c.op /\ scsi'.left = c.alen
            /\ (scsi'.done => c.alen = 0)
      BY <3>2
    <3>4. Owned' /\ Undeferred' BY <1>1, <2>7, <3>1 DEF Owned, Undeferred
    <3>5. c.hlen > 0 => bufCap' \in EnsureBuffer BY <2>2, <2>8 DEF AcceptCommand
    <3>6. CASE c.hlen > 0 /\ bufCap' = 0
      <4>1. "alloc" \in Faults BY <3>5, <3>6 DEF EnsureBuffer
      <4>2. rxStall' = TRUE /\ tx' = NoPacket /\ state' = state
        BY <2>2, <2>8, <3>6 DEF AcceptCommand, StallBoth
      <4>3. Dead' BY <1>1, <4>1, <4>2 DEF Dead, Drained
      <4> QED BY <4>3 DEF Stage
    <3>7. CASE ~(c.hlen > 0 /\ bufCap' = 0)
      <4>1. /\ state' = IF c.in THEN "WriteData" ELSE "ReadData"
            /\ bufLen' = 0 /\ bufSent' = IF c.in THEN 0 ELSE bufSent
            /\ dataSent' = 0
            /\ UNCHANGED <<tx, rxStall, txStall>>
        BY <2>2, <2>8, <3>7 DEF AcceptCommand
      <4>2. InFlight' = 0 /\ ~Ending' BY <2>2, <4>1 DEF InFlight, Ending
      <4>3. CASE c.in
        <5>1. c.op # "write" BY <3>1, <4>3 DEF Contradicts
        <5>2. Sending'
          BY <1>1, <2>2, <2>3, <2>7, <3>3, <3>4, <4>1, <4>2, <4>3, <5>1 DEF Sending
        <5>3. 0 % MaxPacket = 0 BY ModSmall
        <5>4. Writing'
          BY <1>1, <2>3, <2>7, <4>1, <4>2, <4>3, <5>2, <5>3 DEF Writing
        <5> QED BY <5>4 DEF Stage
      <4>4. CASE ~c.in
        <5>1. c.op = "write" => c.hlen = c.alen BY <3>1 DEF Contradicts
        <5>2. c.op = "read" => c.alen = 0 BY <3>1, <4>4 DEF Contradicts
        <5>3. 0 % MaxPacket = 0 BY ModSmall
        <5>4. bufCap' \in Nat /\ (c.hlen > 0 => bufCap' > 0)
          <6>1. bufCap' \in {0, BufCap}
            BY <2>2, <2>8, EnsureBufferType DEF AcceptCommand
          <6> QED BY <3>7, <6>1
        <5>5. c.hlen > 0 => 0 < Clamp' BY <2>7, <5>4 DEF Clamp, Minimum
        <5>6. OutPhase' BY <1>1, <2>4, <4>4 DEF OutPhase
        <5>7. Flow(rx', cbw'.len - bufLen', host'.left)
          BY <1>1, <2>4, <2>7, <4>1, <4>4
        <5>8. Reading'
          BY <1>1, <2>2, <2>7, <3>3, <3>4, <4>1, <4>4, <5>1, <5>2, <5>3, <5>5, <5>6, <5>7
          DEF Reading
        <5> QED BY <5>8 DEF Stage
      <4> QED BY <4>3, <4>4
    <3> QED BY <3>6, <3>7
  <2>9. ASSUME NEW x \in BOOLEAN, RefuseCommand(p, x) PROVE Stage'
    <3>1. csw' = [kind |-> "csw", tag |-> host.tag, residue |-> c.hlen,
                  status |-> IF x THEN "phase" ELSE "nok"]
      BY <2>2, <2>9 DEF RefuseCommand
    <3>2. csw'.tag = host.tag /\ csw'.residue = c.hlen /\ csw'.status # "ok" BY <3>1
    <3>3. rxStall' = (rxStall \/ x \/ DataOut(c)) /\ UNCHANGED <<tx, txStall>>
            /\ IF c.in /\ c.hlen > 0
               THEN state' = "WriteZlp" /\ afterZlp' = "WriteCSW"
               ELSE state' = "WriteCSW" /\ UNCHANGED afterZlp
      BY <2>2, <2>9 DEF RefuseCommand
    <3>4. InFlight' = 0 /\ ~Ending' BY <2>2, <3>3 DEF InFlight, Ending
    <3>5. CASE c.in /\ c.hlen > 0
      <4>1. Truthful(csw)' BY <1>1, <2>3, <3>2, <3>4, <3>5 DEF Truthful
      <4>2. Padding'
        BY <1>1, <2>2, <2>3, <3>2, <3>3, <3>4, <3>5, <4>1 DEF Padding
      <4> QED BY <4>2 DEF Stage
    <3>6. CASE ~(c.in /\ c.hlen > 0)
      <4>1. Truthful(csw)' BY <1>1, <2>3, <3>2, <3>4, <3>6 DEF Truthful
      <4>2. Drained'
        <5>1. DataOut(c) => rxStall' BY <3>3
        <5>2. ~DataOut(c) => rx' = <<>> BY <2>3, <2>5, <3>6 DEF DataOut
        <5> QED BY <5>1, <5>2 DEF Drained
      <4>3. host.phase # "in" BY <2>3, <2>4, <3>6 DEF OutPhase
      <4>4. host.phase = "out" => ~c.in /\ c.hlen > 0
        BY <2>3, <2>4, <2>5 DEF OutPhase
      <4>5. Expecting'
        BY <1>1, <2>2, <3>3, <4>3, <4>4 DEF Expecting, DataOut
      <4>6. Replying' BY <3>3, <3>6, <4>1, <4>2, <4>5 DEF Replying
      <4> QED BY <4>6 DEF Stage
    <3> QED BY <3>5, <3>6
  <2>10. PICK o \in StartOutcomes(c) :
          IF o = "started" THEN AcceptCommand(p) ELSE RefuseCommand(p, o = "phase")
    BY <2>2, Zenon DEF ReadCBW, p
  <2>11. CASE o = "started" BY <2>8, <2>10, <2>11
  <2>12. CASE o # "started"
    <3> DEFINE x == (o = "phase")
    <3>1. x \in BOOLEAN /\ RefuseCommand(p, x) BY <2>10, <2>12
    <3> HIDE DEF x
    <3> QED BY <2>9, <3>1
  <2> QED BY <2>11, <2>12
<1> QED BY <1>1, <1>2, <1>3, WorkerSync

\* Nothing is left to move.
LEMMA SyncDataDone ==
  ASSUME BotAssumption, IInv, SyncInv, DataDone
  PROVE  SyncInv'
<1> USE FieldTypes, PacketFields DEF IInv
<1>1. state \in {"ReadData", "WriteData"} /\ cbw.len = 0 /\ state' = "BuildCSW"
        /\ UNCHANGED <<host, disturbed, rx, rxStall, tx, txStall, afterZlp, cbw, csw, bufCap,
                       bufLen, bufSent, dataSent, scsi, blank>>
  BY DEF DataDone, hostVars, epVars, bufVars, appVars
<1>2. ~Quiet BY <1>1 DEF Quiet
<1>3. ASSUME ~disturbed, Engaged, Stage PROVE Stage'
  <2>1. InFlight' = InFlight /\ Ending' = Ending /\ Owned' = Owned /\ Undeferred' = Undeferred
    BY <1>1 DEF InFlight, Ending, Owned, Undeferred
  <2>2. CASE state = "ReadData"
    <3>1. Reading BY <1>3, <2>2, StageAt
    <3>2. bufLen = 0 BY <1>1, <3>1 DEF Reading
    <3>3. Flow(rx, 0, host.left) BY <1>1, <3>1, <3>2 DEF Reading
    <3>4. rx = <<>> /\ host.left = 0
      <4>1. rx \in Seq(PacketType) BY DEF TypeOK
      <4> QED BY <3>3, <4>1, FlowOfNothing
    <3>5. host.phase = "status" BY <3>1, <3>4 DEF Reading, OutPhase
    <3>6. Expecting' BY <1>1, <3>1, <3>5 DEF Expecting, Reading
    <3>7. Concluding'
      BY <1>1, <2>1, <3>1, <3>4, <3>6 DEF Reading, Concluding
    <3> QED BY <3>7 DEF Stage
  <2>3. CASE state = "WriteData"
    <3>1. Writing BY <1>3, <2>3, StageAt
    <3>2. bufLen = 0 BY <1>1, <2>3 DEF BufferSafe, Minimum
    <3>3. bufSent = 0 BY <3>2 DEF BufferSafe
    <3>4. host.phase = "in" => Ending
      <4> SUFFICES ASSUME host.phase = "in", ~Ending PROVE FALSE OBVIOUS
      <4>1. host.left > 0 /\ host.left + bufSent = InFlight + cbw.len
              /\ (tx = NoPacket \/ tx.kind = "data")
        BY <3>1 DEF Writing, Sending
      <4>2. host.left = InFlight BY <1>1, <3>3, <4>1, InFlightType
      <4> QED BY <4>1, <4>2 DEF InFlight, Ending
    <3>5. Sending' BY <1>1, <2>1, <3>1 DEF Writing, Sending
    <3>6. Expecting' BY <1>1, <2>1, <3>1, <3>4 DEF Expecting, Writing, Sending
    <3>7. Concluding'
      BY <1>1, <2>1, <3>1, <3>2, <3>5, <3>6 DEF Writing, Sending, Concluding
    <3> QED BY <3>7 DEF Stage
  <2> QED BY <1>1, <2>2, <2>3
<1> QED BY <1>1, <1>2, <1>3, WorkerSync

\* A packet read into the buffer is the one the host owes next, and fits: the
\* buffer fills up in whole packets.
LEMMA SyncReadData ==
  ASSUME BotAssumption, IInv, SyncInv, ReadData
  PROVE  SyncInv'
<1> USE FieldTypes DEF IInv
<1>1. state = "ReadData" /\ cbw.len > 0 /\ rx # <<>> /\ ~rxStall /\ rx' = Tail(rx)
        /\ UNCHANGED <<host, disturbed, tx, txStall, afterZlp, bufCap, bufSent, dataSent, blank>>
  BY DEF ReadData, RxReady, hostVars, appVars
<1>2. ~Quiet BY <1>1 DEF Quiet
<1>3. ASSUME ~disturbed, Engaged, Stage PROVE Stage'
  <2> DEFINE need == cbw.len - bufLen
             size == Minimum(MaxPacket, need)
             len == bufLen + size
  <2>1. Reading BY <1>1, <1>3, StageAt
  <2>2. /\ Owned /\ Undeferred /\ ~host.cmd.in /\ ~txStall /\ tx = NoPacket
        /\ bufLen % MaxPacket = 0 /\ bufLen <= cbw.len /\ bufLen < Clamp
        /\ Flow(rx, need, host.left) /\ OutPhase
        /\ scsi.op = host.cmd.op /\ (scsi.op = "write" => scsi.left = cbw.len)
        /\ (scsi.op = "read" => host.cmd.alen = 0 /\ cbw.len = host.cmd.hlen)
    BY <1>1, <2>1 DEF Reading
  <2>3. rx \in Seq(PacketType) /\ need \in Nat BY <2>2 DEF TypeOK
  <2>4. need > 0 /\ Head(rx) = DataPacket(size, FALSE) /\ Flow(rx', need - size, host.left)
    BY <1>1, <2>2, <2>3, FlowTail
  <2>5. size \in Nat /\ size > 0 /\ size <= MaxPacket /\ size <= need
          /\ (size < MaxPacket => size = need)
    BY <2>3, <2>4, SMTT(30) DEF Minimum
  <2> HIDE DEF size
  <2>6. Clamp \in Nat /\ (Clamp = cbw.len \/ Clamp = BufCap) /\ Clamp <= cbw.len
    BY <2>2 DEF Clamp, Minimum
  <2>7. size <= Clamp - bufLen
    <3>1. CASE Clamp = cbw.len BY <2>5, <3>1
    <3>2. CASE Clamp = BufCap
      <4>1. bufLen + MaxPacket <= BufCap BY <2>2, <3>2, ModStep DEF BotAssumption
      <4> QED BY <2>5, <3>2, <4>1
    <3> QED BY <2>6, <3>1, <3>2
  <2>8. Head(rx).kind = "data" /\ Head(rx).len = size BY <2>4 DEF DataPacket
  <2>9. Minimum(size, Clamp - bufLen) = size BY <2>7 DEF Minimum
  <2>10. IF len < Clamp
         THEN bufLen' = len /\ UNCHANGED <<rxStall, cbw, csw, state, scsi>>
         ELSE \E verdict \in RxOutcomes(len) :
              IF verdict = "ok"
              THEN /\ scsi' = [scsi EXCEPT !.left = @ - len, !.done = (scsi.left = len)]
                   /\ cbw' = [cbw EXCEPT !.len = @ - len] /\ bufLen' = 0
                   /\ UNCHANGED <<rxStall, csw, state>>
              ELSE /\ rxStall' = TRUE /\ bufLen' = len /\ state' = "WriteCSW"
                   /\ csw' = [kind |-> "csw", tag |-> cbw.tag, status |-> "nok",
                              residue |-> cbw.len]
                   /\ UNCHANGED <<cbw, scsi>>
    BY <2>8, <2>9, Zenon DEF ReadData
  <2>11. len \in Nat /\ len <= cbw.len BY <2>3, <2>5, SMTT(30)
  <2>12. OutPhase' /\ Undeferred' BY <1>1, <2>2 DEF OutPhase, Undeferred
  <2>13. CASE len < Clamp
    <3>1. bufLen' = len /\ UNCHANGED <<rxStall, cbw, csw, state, scsi>> BY <2>10, <2>13
    <3>2. size = MaxPacket BY <2>5, <2>6, <2>13
    <3>3. (bufLen + MaxPacket) % MaxPacket = 0 BY <2>2, ModNext
    <3>4. Clamp' = Clamp /\ Owned' BY <1>1, <2>2, <3>1 DEF Clamp, Minimum, Owned
    <3>5. cbw'.len - bufLen' = need - size BY <2>3, <2>5, <3>1
    <3>6. bufLen' % MaxPacket = 0 /\ bufLen' <= cbw'.len /\ bufLen' < Clamp'
      BY <2>11, <2>13, <3>1, <3>2, <3>3, <3>4
    <3>7. Flow(rx', cbw'.len - bufLen', host'.left) BY <1>1, <2>4, <3>5
    <3>8. Reading'
      BY <1>1, <2>2, <2>12, <3>1, <3>4, <3>6, <3>7 DEF Reading
    <3> QED BY <3>8 DEF Stage
  <2>14. ASSUME "ok" \in RxOutcomes(len),
                scsi' = [scsi EXCEPT !.left = @ - len, !.done = (scsi.left = len)],
                cbw' = [cbw EXCEPT !.len = @ - len], bufLen' = 0,
                UNCHANGED <<rxStall, csw, state>>
         PROVE  Stage'
    <3>1. scsi.op = "write" BY <2>14 DEF RxOutcomes
    <3>2. cbw'.len = cbw.len - len /\ cbw'.tag = cbw.tag /\ cbw'.cmd = cbw.cmd
      BY <2>14 DEF TypeOK, CBWType
    <3>3. scsi'.left = scsi.left - len /\ scsi'.op = scsi.op
      BY <2>14 DEF TypeOK, ScsiType
    <3>4. cbw'.len \in Nat /\ cbw'.len - bufLen' = need - size
      <4>1. bufLen' = 0 BY <2>14
      <4>2. cbw.len - len \in Nat BY <2>11
      <4>3. (cbw.len - len) - 0 = need - size BY <2>3, <2>5, SMTT(30)
      <4> QED BY <3>2, <4>1, <4>2, <4>3, Zenon
    <3>5. Flow(rx', cbw'.len - bufLen', host'.left) BY <1>1, <2>4, <3>4
    <3>6. bufCap > 0 BY <1>1 DEF BufferSafe
    <3>7. cbw'.len > 0 => bufLen' < Clamp' BY <1>1, <2>14, <3>4, <3>6 DEF Clamp, Minimum
    <3>8. Owned' BY <1>1, <2>2, <3>2 DEF Owned
    <3>9. bufLen' % MaxPacket = 0 /\ bufLen' <= cbw'.len BY <2>14, <3>4, ModSmall
    <3>10. Reading'
      BY <1>1, <2>2, <2>12, <2>14, <3>1, <3>2, <3>3, <3>5, <3>7, <3>8, <3>9 DEF Reading
    <3> QED BY <3>10 DEF Stage
  <2>15. ASSUME rxStall' = TRUE, state' = "WriteCSW",
                csw' = [kind |-> "csw", tag |-> cbw.tag, status |-> "nok", residue |-> cbw.len]
         PROVE  Stage'
    <3>1. csw'.tag = host.tag /\ csw'.status = "nok" BY <2>2, <2>15 DEF Owned
    <3>2. Truthful(csw)' BY <1>1, <2>2, <3>1 DEF Truthful
    <3>3. Expecting' BY <1>1, <2>2, <2>15 DEF Expecting, OutPhase
    <3>4. Replying' BY <2>15, <3>2, <3>3 DEF Replying, Drained
    <3> QED BY <3>4 DEF Stage
  <2>16. CASE ~(len < Clamp)
    <3> HIDE DEF len
    <3>1. PICK verdict \in RxOutcomes(len) :
              IF verdict = "ok"
              THEN /\ scsi' = [scsi EXCEPT !.left = @ - len, !.done = (scsi.left = len)]
                   /\ cbw' = [cbw EXCEPT !.len = @ - len] /\ bufLen' = 0
                   /\ UNCHANGED <<rxStall, csw, state>>
              ELSE /\ rxStall' = TRUE /\ bufLen' = len /\ state' = "WriteCSW"
                   /\ csw' = [kind |-> "csw", tag |-> cbw.tag, status |-> "nok",
                              residue |-> cbw.len]
                   /\ UNCHANGED <<cbw, scsi>>
      BY <2>10, <2>16, Zenon
    <3>2. CASE verdict = "ok" BY <2>14, <3>1, <3>2, Zenon
    <3>3. CASE verdict # "ok" BY <2>15, <3>1, <3>3, Zenon
    <3> QED BY <3>2, <3>3
  <2> QED BY <2>13, <2>16
<1> QED BY <1>1, <1>2, <1>3, WorkerSync

\* The command has no more data: the short packet was the last one, or a
\* zero-length packet is due.
LEMMA SyncWriteDataEnds ==
  ASSUME BotAssumption, IInv, SyncInv, WriteDataEnds
  PROVE  SyncInv'
<1> USE FieldTypes DEF IInv
<1>1. /\ state = "WriteData" /\ cbw.len > 0 /\ bufLen = 0
      /\ IF NeedsZlp THEN state' = "WriteZlp" /\ afterZlp' = "BuildCSW"
                     ELSE state' = "BuildCSW" /\ UNCHANGED afterZlp
      /\ UNCHANGED <<host, disturbed, rx, rxStall, tx, txStall, cbw, csw, bufCap,
                     bufLen, bufSent, dataSent, scsi, blank>>
  BY DEF WriteDataEnds, hostVars, epVars, bufVars, appVars
<1>2. ~Quiet BY <1>1 DEF Quiet
<1>3. ASSUME ~disturbed, Engaged, Stage PROVE Stage'
  <2>1. Writing BY <1>1, <1>3, StageAt
  <2>2. InFlight' = InFlight /\ Ending' = Ending /\ Owned' = Owned /\ Undeferred' = Undeferred
    BY <1>1 DEF InFlight, Ending, Owned, Undeferred
  <2>3. Sending' BY <1>1, <2>1, <2>2 DEF Writing, Sending
  <2>4. CASE NeedsZlp
    <3>1. host.phase = "in" /\ ~Ending
      BY <1>1, <1>3, <2>1, <2>4 DEF Writing, Sending, Engaged, NeedsZlp
    <3>2. Padding' BY <1>1, <2>2, <2>3, <2>4, <3>1 DEF Padding
    <3> QED BY <3>2 DEF Stage
  <2>5. CASE ~NeedsZlp
    <3>1. host.phase = "in" => Ending BY <2>1, <2>5 DEF Writing, NeedsZlp
    <3>2. Expecting' BY <1>1, <2>1, <2>2, <3>1 DEF Expecting, Writing, Sending
    <3>3. Concluding'
      BY <1>1, <2>1, <2>2, <2>3, <2>5, <3>2 DEF Writing, Sending, Concluding
    <3> QED BY <3>3 DEF Stage
  <2> QED BY <2>4, <2>5
<1> QED BY <1>1, <1>2, <1>3, WorkerSync

\* Arithmetic of the data stage.
LEMMA WholeParts ==
  ASSUME NEW n \in Nat, NEW unit \in Nat \ {0}
  PROVE  /\ n - Whole(n, unit) \in Nat /\ n - Whole(n, unit) < unit
         /\ n < unit => Whole(n, unit) = 0
         /\ n % unit = 0 => Whole(n, unit) = n
<1>1. n % unit \in Nat /\ n % unit < unit /\ n % unit <= n OBVIOUS
<1>2. n < unit => n % unit = n OBVIOUS
<1> DEFINE r == n % unit
<1>3. r \in Nat /\ r < unit /\ r <= n /\ (n < unit => r = n) BY <1>1, <1>2
<1>4. Whole(n, unit) = n - r BY DEF Whole
<1> HIDE DEF r
<1>5. n - (n - r) = r /\ (r = 0 => n - r = n) BY <1>3
<1>6. r = 0 <=> n % unit = 0 BY DEF r
<1> QED BY <1>3, <1>4, <1>5, <1>6

\* A chunk is whole packets, or no other follows it.
LEMMA ChunkShape ==
  ASSUME BotAssumption, IInv, bufCap > 0,
         NEW chunk \in TxChunks(Clamp), chunk # 0
  PROVE  /\ ~scsi.done /\ scsi.op \in {"read", "reply", "sense"}
         /\ scsi.op = "read" =>
              /\ scsi.left >= BlockLen /\ cbw.len >= BlockLen
              /\ \/ chunk % MaxPacket = 0
                 \/ scsi.left - chunk < BlockLen
                 \/ cbw.len - chunk < BlockLen
<1> USE FieldTypes DEF IInv
<1>1. ~scsi.done /\ scsi.op \in {"read", "reply", "sense"} BY DEF TxChunks
<1>2. bufCap = BufCap OBVIOUS
<1> DEFINE m == Minimum(scsi.left, Clamp)
<1>3. /\ m \in Nat /\ m <= scsi.left /\ m <= cbw.len
      /\ m = scsi.left \/ m = cbw.len \/ m = BufCap
  BY <1>2 DEF Clamp, Minimum
<1> HIDE DEF m
<1>4. ASSUME scsi.op = "read"
      PROVE  /\ scsi.left >= BlockLen /\ cbw.len >= BlockLen
             /\ \/ chunk % MaxPacket = 0
                \/ scsi.left - chunk < BlockLen
                \/ cbw.len - chunk < BlockLen
  <2>1. chunk = Whole(m, BlockLen) BY <1>1, <1>4 DEF TxChunks, m
  <2>2. m - chunk \in Nat /\ m - chunk < BlockLen BY <1>3, <2>1, WholeParts
  <2>3. m >= BlockLen BY <1>3, <2>1, WholeParts
  <2>4. CASE m = BufCap
    <3>1. chunk = BufCap BY <1>3, <2>1, <2>4, WholeParts DEF BotAssumption
    <3>2. chunk % MaxPacket = 0 BY <3>1 DEF BotAssumption
    <3> QED BY <1>3, <2>3, <3>2
  <2> QED BY <1>3, <2>2, <2>3, <2>4
<1> QED BY <1>1, <1>4

\* A packet written continues the data stage, or ends it where no chunk follows.
LEMMA SyncWriteData ==
  ASSUME BotAssumption, IInv, SyncInv, WriteData
  PROVE  SyncInv'
<1> USE FieldTypes DEF IInv
<1>1. /\ state = "WriteData" /\ cbw.len > 0
      /\ UNCHANGED <<host, disturbed, rx, rxStall, txStall, state, afterZlp, csw, bufCap>>
  BY DEF WriteData, hostVars, appVars
<1>2. ~Quiet BY <1>1 DEF Quiet
<1>3. ASSUME ~disturbed, Engaged, Stage PROVE Stage'
  <2>1. Writing BY <1>1, <1>3, StageAt
  <2>2. PICK chunk \in IF bufLen = 0 THEN TxChunks(Clamp) \ {0} ELSE {bufLen} :
       /\ IF bufLen = 0 THEN AfterTx(chunk) /\ wiped' = FALSE
                         ELSE UNCHANGED <<scsi, blank, wiped>>
       /\ IF ~TxReady
          THEN /\ bufLen = 0 /\ bufLen' = chunk /\ LeaveLoop
               /\ UNCHANGED <<tx, cbw, bufSent, dataSent>>
          ELSE LET n == Minimum(MaxPacket, chunk - bufSent) IN
               /\ tx' = DataPacket(n, wiped') /\ StayInLoop
               /\ IF bufSent + n = chunk
                  THEN /\ cbw' = [cbw EXCEPT !.len = @ - chunk]
                       /\ dataSent' = dataSent + chunk /\ bufLen' = 0 /\ bufSent' = 0
                  ELSE /\ bufLen' = chunk /\ bufSent' = bufSent + n
                       /\ UNCHANGED <<cbw, dataSent>>
    BY Zenon DEF WriteData
  <2>3. bufCap > 0 /\ Clamp \in Nat /\ Clamp <= cbw.len /\ bufLen <= Clamp /\ bufSent <= bufLen
    BY <1>1 DEF BufferSafe, Clamp, Minimum
  <2>4. chunk \in Nat /\ 0 < chunk /\ chunk <= cbw.len
          /\ (bufLen = 0 => chunk \in TxChunks(Clamp) /\ chunk <= scsi.left)
          /\ (bufLen # 0 => chunk = bufLen)
    <3>1. CASE bufLen = 0
      <4>1. chunk \in TxChunks(Clamp) /\ chunk # 0 BY <2>2, <3>1
      <4>2. chunk \in Nat /\ chunk <= Clamp /\ chunk <= scsi.left BY <2>3, <4>1, ChunkBound
      <4> QED BY <2>3, <3>1, <4>1, <4>2
    <3>2. CASE bufLen # 0 BY <2>2, <2>3, <3>2
    <3> QED BY <3>1, <3>2
  <2>5. /\ Sending
        /\ bufLen > 0 => /\ bufSent < bufLen /\ bufSent % MaxPacket = 0
                         /\ dataSent % MaxPacket = 0
                         /\ bufLen % MaxPacket = 0 \/ Exhausted(cbw.len - bufLen)
        /\ host.phase = "in" /\ ~Ending => dataSent % MaxPacket = 0
        /\ host.phase = "status" \/ Ending =>
             cbw.len = 0 \/ (dataSent % MaxPacket # 0 /\ Exhausted(cbw.len))
    BY <2>1 DEF Writing
  \* The host is still in the data stage
  <2>6. host.phase = "in" /\ ~Ending /\ dataSent % MaxPacket = 0
    <3>1. ~(host.phase = "status" \/ Ending)
      <4> SUFFICES ASSUME dataSent % MaxPacket # 0, Exhausted(cbw.len) PROVE FALSE
        BY <1>1, <2>5
      <4>1. bufLen = 0 BY <2>5
      <4>2. ~scsi.done /\ (scsi.op = "read" => scsi.left >= BlockLen /\ cbw.len >= BlockLen)
        BY <2>3, <2>4, <4>1, ChunkShape
      <4> QED BY <4>2 DEF Exhausted
    <3>2. host.phase = "in" BY <1>3, <2>5, <3>1 DEF Engaged, Sending
    <3> QED BY <2>5, <3>1, <3>2
  <2>7. /\ Owned /\ Undeferred /\ host.cmd.in /\ ~rxStall /\ ~txStall /\ rx = <<>>
        /\ tx = NoPacket \/ (tx.kind = "data" /\ host.phase = "in")
        /\ host.left > 0 /\ host.cmd.hlen = dataSent + cbw.len
        /\ host.left + bufSent = InFlight + cbw.len
        /\ scsi.op = host.cmd.op /\ scsi.op # "write"
        /\ scsi.op = "read" => scsi.left + dataSent + bufLen = host.cmd.alen
        /\ scsi.op = "read" /\ scsi.done => scsi.left = 0
    BY <2>5, <2>6 DEF Sending
  \* The command after its chunk was fetched
  <2>8. /\ scsi'.op = scsi.op /\ scsi'.left \in Nat
        /\ scsi.op = "read" => scsi'.left + dataSent + chunk = host.cmd.alen
        /\ scsi'.op = "read" /\ scsi'.done => scsi'.left = 0
        /\ chunk % MaxPacket = 0 \/ scsi'.done
             \/ (scsi'.op = "read" /\ (scsi'.left < BlockLen \/ cbw.len - chunk < BlockLen))
        /\ blank'.active = blank.active
    <3>1. CASE bufLen = 0
      <4>1. AfterTx(chunk) BY <2>2, <3>1
      <4>2. scsi' = [scsi EXCEPT !.left = @ - chunk,
                                 !.done = (scsi.op # "read" \/ scsi.left = chunk)]
        BY <4>1 DEF AfterTx
      <4>3. scsi'.op = scsi.op /\ scsi'.left = scsi.left - chunk
              /\ (scsi'.done <=> (scsi.op # "read" \/ scsi.left = chunk))
        BY <4>2 DEF TypeOK, ScsiType
      <4>4. blank'.active = blank.active BY <4>1 DEF AfterTx, TypeOK, BlankType
      <4>5. scsi.op = "read" => chunk % MaxPacket = 0 \/ scsi.left - chunk < BlockLen
                                   \/ cbw.len - chunk < BlockLen
        BY <2>3, <2>4, <3>1, ChunkShape
      <4>6. scsi'.left \in Nat /\ (scsi.op = "read" => scsi'.left + dataSent + chunk = host.cmd.alen)
        <5>1. scsi'.left \in Nat /\ scsi'.left + chunk = scsi.left BY <2>4, <3>1, <4>3
        <5>2. scsi.op = "read" => scsi.left + dataSent = host.cmd.alen BY <2>7, <3>1
        <5> QED BY <2>4, <5>1, <5>2
      <4>7. chunk % MaxPacket = 0 \/ scsi'.done
              \/ (scsi'.op = "read" /\ (scsi'.left < BlockLen \/ cbw.len - chunk < BlockLen))
        BY <4>3, <4>5, Zenon
      <4>8. scsi'.op = "read" /\ scsi'.done => scsi'.left = 0 BY <2>4, <3>1, <4>3
      <4> QED BY <4>3, <4>4, <4>6, <4>7, <4>8
    <3>2. CASE bufLen # 0
      <4>1. UNCHANGED <<scsi, blank>> /\ chunk = bufLen BY <2>2, <2>4, <3>2
      <4>2. chunk % MaxPacket = 0 \/ Exhausted(cbw.len - chunk) BY <2>5, <3>2, <4>1
      <4> QED BY <2>7, <4>1, <4>2 DEF Exhausted
    <3> QED BY <3>1, <3>2
  <2>9. Undeferred' BY <1>1, <2>7, <2>8 DEF Undeferred
  <2>10. bufSent < chunk /\ bufSent % MaxPacket = 0
    <3>1. bufLen = 0 => bufSent = 0 BY <2>3
    <3>2. 0 % MaxPacket = 0 BY ModSmall
    <3> QED BY <2>4, <2>5, <3>1, <3>2
  <2>11. CASE ~TxReady
    <3>1. bufLen = 0 /\ bufLen' = chunk /\ UNCHANGED <<tx, cbw, bufSent, dataSent>>
      BY <2>2, <2>11
    <3>2. InFlight' = InFlight /\ ~Ending' /\ Owned'
      BY <1>1, <2>6, <2>7, <3>1 DEF InFlight, Ending, Owned
    <3>3. Sending' BY <1>1, <2>6, <2>7, <2>8, <2>9, <3>1, <3>2 DEF Sending
    <3>4. chunk % MaxPacket = 0 \/ Exhausted(cbw.len - bufLen)'
      BY <2>8, <3>1, Zenon DEF Exhausted
    <3>5. Writing'
      BY <1>1, <2>6, <2>10, <3>1, <3>2, <3>3, <3>4 DEF Writing
    <3> QED BY <3>5 DEF Stage
  <2>12. CASE TxReady
    <3> DEFINE n == Minimum(MaxPacket, chunk - bufSent)
    <3>1. n \in Nat /\ n > 0 /\ n <= MaxPacket /\ bufSent + n <= chunk
            /\ (n < MaxPacket => bufSent + n = chunk)
      BY <2>10, <2>4 DEF Minimum
    <3>2. tx = NoPacket BY <2>12 DEF TxReady
    <3>3. tx' = DataPacket(n, wiped') BY <2>2, <2>12
    <3>4. \/ /\ bufSent + n = chunk /\ cbw' = [cbw EXCEPT !.len = @ - chunk]
             /\ dataSent' = dataSent + chunk /\ bufLen' = 0 /\ bufSent' = 0
          \/ /\ bufSent + n # chunk /\ bufLen' = chunk /\ bufSent' = bufSent + n
             /\ UNCHANGED <<cbw, dataSent>>
      BY <2>2, <2>12
    <3> HIDE DEF n
    <3>5. tx'.kind = "data" /\ tx'.len = n BY <3>3 DEF DataPacket
    <3>6. InFlight = 0 BY <3>2, PacketFields DEF InFlight
    <3>7. InFlight' = n /\ (Ending' <=> n < MaxPacket \/ n = host.left)
      BY <1>1, <3>5 DEF InFlight, Ending
    <3>8. host.left + bufSent = cbw.len BY <2>7, <3>6
    <3>9. ASSUME bufSent + n = chunk, cbw' = [cbw EXCEPT !.len = @ - chunk],
                 dataSent' = dataSent + chunk, bufLen' = 0, bufSent' = 0
          PROVE  Stage'
      <4>1. cbw'.len = cbw.len - chunk /\ cbw'.tag = cbw.tag /\ cbw'.cmd = cbw.cmd
        BY <3>9 DEF TypeOK, CBWType
      <4>2. Owned' BY <1>1, <2>7, <4>1 DEF Owned
      <4>3. /\ host.cmd.hlen = dataSent' + cbw'.len
            /\ host.left + bufSent' = n + cbw'.len
            /\ scsi.op = "read" => scsi'.left + dataSent' + bufLen' = host.cmd.alen
        <5>1. cbw'.len \in Nat /\ cbw'.len + chunk = cbw.len BY <2>4, <4>1
        <5>2. host.cmd.hlen = dataSent' + cbw'.len BY <2>4, <2>7, <3>9, <5>1, SMTT(30)
        <5>3. host.left + bufSent' = n + cbw'.len BY <2>4, <3>1, <3>8, <3>9, <5>1
        <5>4. scsi.op = "read" => scsi'.left + dataSent' + bufLen' = host.cmd.alen
          BY <2>4, <2>8, <3>9
        <5> QED BY <5>2, <5>3, <5>4
      <4>4. Sending'
        BY <1>1, <2>6, <2>7, <2>8, <2>9, <3>5, <3>7, <3>9, <4>2, <4>3 DEF Sending
      <4>t. MaxPacket \in Nat \ {0} /\ dataSent \in Nat /\ chunk \in Nat /\ n \in Nat
              /\ bufSent \in Nat /\ dataSent % MaxPacket = 0 /\ bufSent % MaxPacket = 0
        BY <2>4, <2>6, <2>10, <3>1
      <4>m. (dataSent + chunk) % MaxPacket = chunk % MaxPacket
              /\ (bufSent + n) % MaxPacket = n % MaxPacket
        BY ONLY <4>t, ModAdd
      <4>5. n = MaxPacket => dataSent' % MaxPacket = 0 BY <3>9, <4>m, ModSmall
      <4>6. n < MaxPacket => chunk % MaxPacket # 0 /\ dataSent' % MaxPacket # 0
        <5>1. n < MaxPacket => n % MaxPacket = n BY <3>1, ModSmall
        <5> QED BY <3>1, <3>9, <4>m, <5>1
      <4>7. n < MaxPacket => Exhausted(cbw.len)'
        BY <2>8, <4>1, <4>6, Zenon DEF Exhausted
      <4>8. n = host.left => cbw'.len = 0 BY <3>1, <3>8, <3>9, <4>1
      <4>9. n < MaxPacket \/ n = MaxPacket BY <3>1
      <4>10. Writing'
        <5>1. host'.phase = "in" /\ state' = "WriteData" /\ ~(bufLen' > 0) BY <1>1, <2>6, <3>9
        <5>2. ~Ending' => dataSent' % MaxPacket = 0 BY <3>7, <4>5, <4>9
        <5>3. Ending' => cbw'.len = 0 \/ (dataSent' % MaxPacket # 0 /\ Exhausted(cbw.len)')
          BY <3>7, <4>6, <4>7, <4>8
        <5> QED BY <4>4, <5>1, <5>2, <5>3, Zenon DEF Writing
      <4> QED BY <4>10 DEF Stage
    <3>10. ASSUME bufSent + n # chunk, bufLen' = chunk, bufSent' = bufSent + n,
                  UNCHANGED <<cbw, dataSent>>
           PROVE  Stage'
      <4>1. n = MaxPacket /\ bufSent + n < chunk BY <2>4, <3>1, <3>10
      <4>2. (bufSent + MaxPacket) % MaxPacket = 0 BY <2>10, ModNext
      <4>3. n < host.left BY <2>4, <3>1, <3>8, <4>1
      <4>4. ~Ending' BY <3>1, <3>7, <4>1, <4>3
      <4>5. Owned' BY <1>1, <2>7, <3>10 DEF Owned
      <4>6. /\ host.left + bufSent' = n + cbw'.len
            /\ scsi.op = "read" => scsi'.left + dataSent' + bufLen' = host.cmd.alen
        BY <2>8, <3>1, <3>8, <3>10
      <4>7. Sending'
        BY <1>1, <2>6, <2>7, <2>8, <2>9, <3>5, <3>7, <3>10, <4>5, <4>6 DEF Sending
      <4>8. bufSent' < bufLen' /\ bufSent' % MaxPacket = 0 /\ dataSent' % MaxPacket = 0
        BY <2>6, <3>10, <4>1, <4>2
      <4>9. bufLen' % MaxPacket = 0 \/ Exhausted(cbw.len - bufLen)'
        BY <2>8, <3>10, Zenon DEF Exhausted
      <4>10. host'.phase = "in" /\ state' = "WriteData" BY <1>1, <2>6
      <4>11. Writing' BY <4>4, <4>7, <4>8, <4>9, <4>10, Zenon DEF Writing
      <4> QED BY <4>11 DEF Stage
    <3> QED BY <3>4, <3>9, <3>10, Zenon
  <2> QED BY <2>11, <2>12
<1> QED BY <1>1, <1>2, <1>3, WorkerSync

\* The zero-length packet ends the host's data stage.
LEMMA SyncWriteZlp ==
  ASSUME BotAssumption, IInv, SyncInv, WriteZlp
  PROVE  SyncInv'
<1> USE FieldTypes, PacketFields DEF IInv
<1>1. /\ state = "WriteZlp" /\ tx = NoPacket /\ ~txStall
      /\ tx' = DataPacket(0, FALSE) /\ state' = afterZlp
      /\ UNCHANGED <<host, disturbed, rx, rxStall, txStall, afterZlp, cbw, csw, bufCap,
                     bufLen, bufSent, dataSent, scsi, blank>>
  BY DEF WriteZlp, TxReady, hostVars, bufVars, appVars
<1>2. ~Quiet BY <1>1 DEF Quiet
<1>3. ASSUME ~disturbed, Engaged, Stage PROVE Stage'
  <2>1. Padding BY <1>1, <1>3, StageAt
  <2>2. tx'.kind = "data" /\ tx'.len = 0
    <3>1. tx' = DataPacket(0, FALSE) BY <1>1
    <3> QED BY ONLY <3>1 DEF DataPacket
  <2>3. InFlight = 0 /\ InFlight' = 0 /\ Ending'
    <3>1. InFlight = 0 BY <1>1 DEF InFlight
    <3> QED BY <2>2, <3>1 DEF InFlight, Ending
  <2>4. Owned' = Owned /\ Undeferred' = Undeferred BY <1>1 DEF Owned, Undeferred
  <2>5. host'.phase = "in" BY <1>1, <2>1 DEF Padding
  <2>6. Expecting' BY <1>1, <2>3, <2>5 DEF Expecting
  <2>7. CASE afterZlp = "BuildCSW"
    <3>1. Sending /\ bufLen = 0 BY <2>1, <2>7 DEF Padding
    <3>2. Sending' BY <1>1, <2>2, <2>3, <2>4, <2>5, <3>1 DEF Sending
    <3>3. Concluding' BY <1>1, <2>4, <2>6, <2>7, <3>1, <3>2 DEF Concluding, Sending
    <3> QED BY <3>3 DEF Stage
  <2>8. CASE afterZlp = "WriteCSW"
    <3>1. Truthful(csw) /\ rx = <<>> BY <2>1, <2>8 DEF Padding
    <3>2. Truthful(csw)' BY <1>1, <2>3, <3>1 DEF Truthful, Wiped
    <3>3. Replying' BY <1>1, <2>6, <2>8, <3>1, <3>2 DEF Replying, Drained
    <3> QED BY <3>3 DEF Stage
  <2>9. afterZlp \in {"BuildCSW", "WriteCSW"} BY DEF TypeOK
  <2> QED BY <2>7, <2>8, <2>9
<1> QED BY <1>1, <1>2, <1>3, WorkerSync

\* A data command ends as scsi.done says and leaves the blank operation alone;
\* a BLANK that is not immediate has no good verdict yet.
LEMMA EndFacts ==
  ASSUME BotAssumption, TypeOK, NEW e \in EndOutcomes, NEW r \in Established(e[1], e[2])
  PROVE  /\ scsi.op \in {"read", "write"} /\ ~blank.active =>
               r = <<Verdict(scsi.done), blank, bufCap>>
         /\ scsi.op = "blank" => r[1] = "nok" \/ Defers(r[2])
<1>1. ASSUME scsi.op \in {"read", "write"}, ~blank.active
      PROVE  r = <<Verdict(scsi.done), blank, bufCap>>
  <2> DEFINE v == Verdict(scsi.done)
  <2>1. e = <<v, blank>> BY <1>1 DEF EndOutcomes
  <2> HIDE DEF v
  <2>2. e[1] = v /\ e[2] = blank BY <2>1
  <2>3. r \in Established(v, blank) BY <2>2
  <2>4. r = <<v, blank, bufCap>> BY <1>1, <2>3 DEF Established
  <2> QED BY <2>4 DEF v
<1>2. ASSUME scsi.op = "blank" PROVE r[1] = "nok" \/ Defers(r[2])
  <2> DEFINE b == StartBlank(FALSE)
             f == FinishBlank(b, FALSE)
  <2>1. e = <<"ok", b>> BY <1>2 DEF EndOutcomes
  <2>2. b.active /\ Defers(b) BY DEF StartBlank, Defers
  <2> HIDE DEF b, f
  <2>3. r \in Established("ok", b) BY <2>1
  <2>4. PICK cap \in EnsureBuffer :
           r \in IF cap = 0 THEN {<<"nok", f, cap>>}
                 ELSE IF Defers(b) THEN {<<"ok", b, cap>>}
                 ELSE {<<Verdict(~stepped.failed), stepped, cap>> : stepped \in BlankStep(b, cap)}
    BY <2>2, <2>3 DEF Established, f
  <2>5. r = <<"nok", f, cap>> \/ r = <<"ok", b, cap>> BY <2>2, <2>4
  <2> QED BY <2>2, <2>5
<1> QED BY <1>1, <1>2

\* The CSW tells what was moved, and waits for a BLANK that defers it.
LEMMA SyncBuildCSW ==
  ASSUME BotAssumption, IInv, SyncInv, BuildCSW
  PROVE  SyncInv'
<1> USE FieldTypes DEF IInv
<1>1. /\ state = "BuildCSW"
      /\ UNCHANGED <<host, disturbed, rx, rxStall, tx, txStall, cbw, dataSent, bufLen, bufSent>>
  BY DEF BuildCSW, hostVars, epVars, appVars
<1>2. ~Quiet BY <1>1 DEF Quiet
<1>3. ASSUME ~disturbed, Engaged, Stage PROVE Stage'
  <2>1. Concluding BY <1>1, <1>3, StageAt
  <2>2. PICK ended \in EndOutcomes : \E result \in Established(ended[1], ended[2]) :
       /\ blank' = result[2]
       /\ IF result[1] = "ok" /\ Defers(result[2])
          THEN /\ state' = "WaitBackground"
               /\ csw' = [csw EXCEPT !.tag = cbw.tag, !.residue = cbw.len]
          ELSE /\ state' = "WriteCSW"
               /\ csw' = [kind |-> "csw", tag |-> cbw.tag, residue |-> cbw.len,
                          status |-> result[1]]
    BY Zenon DEF BuildCSW
  <2>3. PICK result \in Established(ended[1], ended[2]) :
       /\ blank' = result[2]
       /\ IF result[1] = "ok" /\ Defers(result[2])
          THEN /\ state' = "WaitBackground"
               /\ csw' = [csw EXCEPT !.tag = cbw.tag, !.residue = cbw.len]
          ELSE /\ state' = "WriteCSW"
               /\ csw' = [kind |-> "csw", tag |-> cbw.tag, residue |-> cbw.len,
                          status |-> result[1]]
    BY <2>2, Zenon
  <2>4. /\ Expecting /\ Owned /\ Undeferred /\ rx = <<>> /\ scsi.op = host.cmd.op
        /\ IF host.cmd.in THEN Sending /\ bufLen = 0
           ELSE /\ cbw.len = 0 /\ host.left = 0
                /\ scsi.op = "read" => host.cmd.alen = 0 /\ host.cmd.hlen = 0
    BY <2>1 DEF Concluding
  <2>5. InFlight' = InFlight /\ Ending' = Ending /\ Drained'
    BY <1>1, <2>4 DEF InFlight, Ending, Drained
  <2>6. Expecting' BY <1>1, <2>4, <2>5 DEF Expecting
  <2>7. host.cmd.in => host.left = InFlight + cbw.len /\ host.cmd.op # "write"
    <3>1. bufLen = 0 => bufSent = 0 BY DEF BufferSafe
    <3>2. InFlight \in Nat BY InFlightType
    <3> QED BY <2>4, <3>1, <3>2 DEF Sending
  <2>8. scsi.op \in {"read", "write"} =>
          ~blank.active /\ result[1] = Verdict(scsi.done) /\ result[2] = blank
    <3>1. scsi.op \in {"read", "write"} => ~blank.active
      BY <2>4 DEF Undeferred, AllowedWhileBlanking
    <3>2. scsi.op \in {"read", "write"} => result = <<Verdict(scsi.done), blank, bufCap>>
      BY <3>1, EndFacts
    <3> DEFINE v == Verdict(scsi.done)
    <3> HIDE DEF v
    <3>3. scsi.op \in {"read", "write"} => result = <<v, blank, bufCap>> BY <3>2 DEF v
    <3>4. scsi.op \in {"read", "write"} => result[1] = v /\ result[2] = blank BY <3>3
    <3> QED BY <3>1, <3>4 DEF v
  <2>9. scsi.op = "blank" => result[1] = "nok" \/ Defers(result[2]) BY EndFacts
  <2>10. CASE result[1] = "ok" /\ Defers(result[2])
    <3>1. state' = "WaitBackground" /\ blank' = result[2]
            /\ csw' = [csw EXCEPT !.tag = cbw.tag, !.residue = cbw.len]
      BY <2>3, <2>10
    <3>2. host.cmd.op \notin {"read", "write"} BY <2>4, <2>8, <2>10 DEF Defers
    <3>3. blank'.active BY <2>10, <3>1 DEF Defers
    <3> DEFINE k == [csw EXCEPT !.status = "nok"]
    <3>4. k'.tag = host.tag /\ k'.residue = cbw.len /\ k'.status = "nok"
      BY <2>4, <3>1 DEF Owned, TypeOK, CSWType
    <3> HIDE DEF k
    <3>5. Truthful(k)' BY <1>1, <2>5, <2>7, <3>4 DEF Truthful
    <3>6. Replying' BY <1>1, <2>5, <2>6, <3>1, <3>2, <3>3, <3>5 DEF Replying, k
    <3> QED BY <3>6 DEF Stage
  <2>11. CASE ~(result[1] = "ok" /\ Defers(result[2]))
    <3>1. state' = "WriteCSW" /\ blank' = result[2]
            /\ csw' = [kind |-> "csw", tag |-> cbw.tag, residue |-> cbw.len, status |-> result[1]]
      BY <2>3, <2>11
    <3>2. csw'.tag = host.tag /\ csw'.residue = cbw.len /\ csw'.status = result[1]
      BY <2>4, <3>1 DEF Owned
    <3>3. host.cmd.op = "blank" => result[1] # "ok" BY <2>4, <2>9, <2>11
    <3>4. ASSUME result[1] = "ok", host.cmd.op = "read"
          PROVE  host.cmd.alen + cbw.len = host.cmd.hlen /\ (~host.cmd.in => host.cmd.alen = 0)
      <4>1. scsi.done BY <2>4, <2>8, <3>4 DEF Verdict
      <4>2. CASE host.cmd.in
        <5>1. /\ host.cmd.hlen = dataSent + cbw.len
              /\ scsi.left = 0 /\ scsi.left + dataSent + bufLen = host.cmd.alen /\ bufLen = 0
          BY <2>4, <3>4, <4>1, <4>2 DEF Sending
        <5> QED BY <4>2, <5>1
      <4>3. CASE ~host.cmd.in
        <5>1. cbw.len = 0 /\ host.cmd.alen = 0 /\ host.cmd.hlen = 0 BY <2>4, <3>4, <4>3
        <5> QED BY <5>1
      <4> QED BY <4>2, <4>3
    <3>5. host.cmd.op = "write" => cbw.len = 0 /\ host.left = 0 BY <2>4, <2>7
    <3>6. Truthful(csw)'
      BY <1>1, <2>5, <2>7, <3>2, <3>3, <3>4, <3>5 DEF Truthful
    <3>7. Replying' BY <2>5, <2>6, <3>1, <3>6 DEF Replying
    <3> QED BY <3>7 DEF Stage
  <2> QED BY <2>10, <2>11
<1> QED BY <1>1, <1>2, <1>3, WorkerSync

\* The status of a deferred BLANK is the outcome of the operation.
LEMMA SyncBackgroundOver ==
  ASSUME BotAssumption, IInv, SyncInv, BackgroundOver
  PROVE  SyncInv'
<1> USE FieldTypes DEF IInv
<1>1. /\ state = "WaitBackground" /\ ~blank.active /\ state' = "WriteCSW"
      /\ csw' = [csw EXCEPT !.status = IF blank.failed THEN "nok" ELSE "ok"]
      /\ UNCHANGED <<host, disturbed, rx, rxStall, tx, txStall, blank>>
  BY DEF BackgroundOver, hostVars, epVars, appVars
<1>2. ~Quiet BY <1>1 DEF Quiet
<1>3. ASSUME ~disturbed, Engaged, Stage PROVE Stage'
  <2>1. Replying BY <1>1, <1>3, StageAt
  <2> DEFINE k == [csw EXCEPT !.status = "nok"]
  <2>2. k.tag = csw.tag /\ k.residue = csw.residue BY DEF TypeOK, CSWType
  <2>3. csw'.tag = csw.tag /\ csw'.residue = csw.residue
          /\ (csw'.status = "ok" => ~blank.failed)
    BY <1>1 DEF TypeOK, CSWType
  <2>4. Truthful(k) /\ host.cmd.op \notin {"read", "write"}
          /\ (~blank.failed => blank.lba = BlankBlocks) /\ Expecting /\ Drained
    BY <1>1, <2>1 DEF Replying
  <2> HIDE DEF k
  <2>5. InFlight' = InFlight /\ Ending' = Ending BY <1>1 DEF InFlight, Ending
  <2>6. Truthful(csw)'
    BY <1>1, <2>2, <2>3, <2>4, <2>5 DEF Truthful, Wiped
  <2>7. Expecting' /\ Drained' BY <1>1, <2>4, <2>5 DEF Expecting, Drained
  <2>8. Replying' BY <1>1, <2>6, <2>7 DEF Replying
  <2> QED BY <2>8 DEF Stage
<1> QED BY <1>1, <1>2, <1>3, WorkerSync

\* The CSW is armed when the host's data stage is over.
LEMMA SyncWriteCSW ==
  ASSUME BotAssumption, IInv, SyncInv, WriteCSW
  PROVE  SyncInv'
<1> USE FieldTypes, PacketFields DEF IInv
<1>1. /\ state = "WriteCSW" /\ tx = NoPacket /\ ~txStall /\ tx' = csw
      /\ state' \in {"ReadCBW", "WaitEjectCSW"}
      /\ UNCHANGED <<host, disturbed, rx, rxStall, txStall, blank>>
  BY DEF WriteCSW, TxReady, hostVars, appVars
<1>2. ~Quiet BY <1>1 DEF Quiet
<1>3. ASSUME ~disturbed, Engaged, Stage PROVE Stage'
  <2>1. Replying BY <1>1, <1>3, StageAt
  <2>2. Expecting /\ Drained /\ Truthful(csw) BY <1>1, <2>1 DEF Replying
  <2>3. InFlight = 0 /\ InFlight' = 0 /\ ~Ending BY <1>1 DEF InFlight, Ending
  <2>4. Truthful(tx)' BY <1>1, <2>2, <2>3 DEF Truthful, Wiped
  <2>5. host.phase # "in" /\ (host.phase = "out" => rxStall) BY <2>2, <2>3 DEF Expecting
  <2>6. Answered' BY <1>1, <2>2, <2>4, <2>5 DEF Answered, Drained
  <2> QED BY <2>6 DEF Stage
<1> QED BY <1>1, <1>2, <1>3, WorkerSync

\* What a blank step may do to the record of the operation.
LEMMA BlankStepFacts ==
  ASSUME BotAssumption, NEW b \in BlankType, NEW cap \in Nat, NEW s \in BlankStep(b, cap)
  PROVE  /\ ~b.active => s = b
         /\ b.active /\ ~s.active /\ ~s.failed => s.lba = BlankBlocks
<1> DEFINE n == Minimum(BlankBlocks - b.lba, cap \div BlockLen)
           next == [b EXCEPT !.lba = @ + n]
<1>1. ~b.active => s = b BY DEF BlankStep
<1>2. ASSUME b.active, ~s.active, ~s.failed PROVE s.lba = BlankBlocks
  <2>1. cap \div BlockLen \in Nat BY DEF BotAssumption
  <2>2. n \in Nat /\ b.lba \in Nat /\ BlankBlocks \in Nat
    BY <2>1 DEF BotAssumption, BlankType, Minimum
  <2>3. next.lba = b.lba + n /\ next.active = b.active
          /\ FinishBlank(next, TRUE).lba = b.lba + n
    BY DEF BlankType, FinishBlank
  <2>4. FinishBlank(b, FALSE).failed /\ FinishBlank(next, FALSE).failed
    BY DEF BlankType, FinishBlank
  <2>5. \/ s = next \/ s = FinishBlank(b, FALSE) \/ s = FinishBlank(next, FALSE)
        \/ s = FinishBlank(next, TRUE) /\ n = BlankBlocks - b.lba
    <3> HIDE DEF next
    <3> QED BY <1>2 DEF BlankStep, n, next
  <2>6. s = FinishBlank(next, TRUE) /\ n = BlankBlocks - b.lba BY <1>2, <2>3, <2>4, <2>5
  <2> HIDE DEF n, next
  <2>7. b.lba + n = BlankBlocks BY <2>2, <2>6
  <2> QED BY <2>3, <2>6, <2>7
<1> QED BY <1>1, <1>2

\* A started blank operation that is cancelled; otherwise nothing happens to it.
LEMMA SyncBlank ==
  ASSUME BotAssumption, IInv, SyncInv,
         UNCHANGED <<disturbed, host, rx, rxStall, tx, txStall, state, afterZlp, cbw, csw,
                     bufLen, bufSent, dataSent, scsi>>,
         bufCap # 0 => bufCap' = bufCap,
         ~blank.active => blank' = blank,
         Engaged /\ blank.active /\ ~blank'.active /\ ~blank'.failed => blank'.lba = BlankBlocks
  PROVE  SyncInv'
<1> USE FieldTypes DEF IInv
<1> SUFFICES ASSUME ~disturbed PROVE SyncInv' BY DEF SyncInv
<1>1. Engaged' = Engaged /\ Quiet' = Quiet /\ Counted' = Counted
  BY DEF Engaged, Quiet, Drained, Counted
<1>2. (ResidueTruthful => ResidueTruthful') /\ (BlankAckedWhenWiped => BlankAckedWhenWiped')
  BY DEF ResidueTruthful, BlankAckedWhenWiped
<1>3. Owned' = Owned /\ InFlight' = InFlight /\ Ending' = Ending
        /\ OutPhase' = OutPhase /\ Drained' = Drained /\ Expecting' = Expecting
  BY DEF Owned, InFlight, Ending, OutPhase, Drained, Expecting
<1>4. Undeferred => Undeferred' BY DEF Undeferred
<1>5. Sending => Sending' BY <1>3, <1>4 DEF Sending
<1>7. ASSUME Engaged, Stage PROVE Stage'
  <2>1. Sent => Sent' BY <1>3 DEF Sent
  <2>2. Reading => Reading'
    <3> SUFFICES ASSUME Reading PROVE Reading' OBVIOUS
    <3>1. cbw.len > 0 => Clamp' = Clamp
      BY DEF Clamp, Minimum, BufferSafe, Reading
    <3> QED BY <1>3, <1>4, <3>1 DEF Reading
  <2>3. Writing => Writing' BY <1>3, <1>5 DEF Writing, Exhausted
  <2>4. Truthful(csw) => Truthful(csw)' BY DEF Truthful, Wiped, InFlight
  <2>5. Truthful(tx) => Truthful(tx)' BY DEF Truthful, Wiped, InFlight
  <2>6. Padding => Padding' BY <1>3, <1>5, <2>4 DEF Padding
  <2>7. Concluding => Concluding' BY <1>3, <1>4, <1>5 DEF Concluding
  <2>8. Truthful([csw EXCEPT !.status = "nok"]) => Truthful([csw EXCEPT !.status = "nok"])'
    BY DEF Truthful, Wiped, InFlight
  <2>9. Replying => Replying' BY <1>3, <1>7, <2>4, <2>8 DEF Replying
  <2>10. Answered => Answered' BY <1>3, <2>5 DEF Answered
  <2>11. Dead => Dead' BY <1>3 DEF Dead
  <2> QED BY <1>7, <2>1, <2>2, <2>3, <2>6, <2>7, <2>9, <2>10, <2>11 DEF Stage
<1> QED BY <1>1, <1>2, <1>7 DEF SyncInv

\* The worker's steps that leave the transfer alone.
LEMMA SyncControl ==
  ASSUME BotAssumption, IInv, SyncInv, WakeInv,
         WorkerExit \/ WorkerWake \/ WorkerBlankStep \/ NotReady \/ EjectCSWSent
  PROVE  SyncInv'
<1> USE FieldTypes DEF IInv
<1>1. CASE WorkerExit
  <2>1. host.phase = "gone" BY <1>1 DEF WorkerExit, ExitSeen, WakeInv
  <2>2. ~Engaged BY <2>1 DEF Engaged
  <2>3. ~blank.active => blank' = blank BY <1>1 DEF WorkerExit, CancelBlank
  <2> QED BY <1>1, <2>2, <2>3, SyncBlank DEF WorkerExit, hostVars, epVars, bufVars, appVars
<1>2. CASE WorkerWake
  <2>1. CASE disturbed BY <1>2, <2>1 DEF WorkerWake, appVars, SyncInv
  <2>2. CASE ~disturbed
    <3>1. "Reset" \notin flags BY <2>2 DEF WakeInv
    <3> QED
      BY <1>2, <3>1, SyncFrame DEF WorkerWake, SyncVars, hostVars, epVars, bufVars, appVars
  <2> QED BY <2>1, <2>2
<1>3. CASE WorkerBlankStep
  <2>1. bufCap' \in Nat /\ (bufCap # 0 => bufCap' = bufCap)
    BY <1>3, EnsureBufferType DEF WorkerBlankStep
  <2>2. blank \in BlankType /\ blank' \in BlankStep(blank, bufCap')
    BY <1>3 DEF WorkerBlankStep, TypeOK
  <2>3. /\ ~blank.active => blank' = blank
        /\ blank.active /\ ~blank'.active /\ ~blank'.failed => blank'.lba = BlankBlocks
    BY <2>1, <2>2, BlankStepFacts
  <2> QED BY <1>3, <2>1, <2>3, SyncBlank DEF WorkerBlankStep, hostVars, epVars, appVars
<1>4. CASE NotReady
  BY <1>4, SyncFrame DEF NotReady, SyncVars, hostVars, epVars, bufVars, appVars
<1>5. CASE EjectCSWSent
  <2> SUFFICES ASSUME ~disturbed' PROVE SyncInv' BY DEF SyncInv
  <2>1. state = "WaitEjectCSW" /\ state' = "ReadCBW"
          /\ UNCHANGED <<disturbed, host, rx, rxStall, tx, txStall, afterZlp, cbw, csw, blank>>
    BY <1>5 DEF EjectCSWSent, hostVars, epVars
  <2>2. Engaged' = Engaged /\ Quiet' = Quiet /\ Counted' = Counted /\ Drained' = Drained
    BY <2>1 DEF Engaged, Quiet, Drained, Counted
  <2>3. ResidueTruthful' = ResidueTruthful /\ BlankAckedWhenWiped' = BlankAckedWhenWiped
    BY <2>1 DEF ResidueTruthful, BlankAckedWhenWiped
  <2>4. ASSUME Stage PROVE Stage'
    <3>1. Sent => Sent' BY <2>1 DEF Sent, OutPhase
    <3>2. Answered => Answered' BY <2>1, <2>2 DEF Answered, Truthful, Wiped, InFlight
    <3> QED BY <2>1, <2>4, <3>1, <3>2, StageAt DEF Stage
  <2> QED BY <2>1, <2>2, <2>3, <2>4 DEF SyncInv
<1> QED BY <1>1, <1>2, <1>3, <1>4, <1>5

\* The host and the callbacks: a command starts on a quiet device ...
LEMMA SyncSendCBW ==
  ASSUME BotAssumption, IInv, SyncInv, NEW c \in Commands, SendCBW(c)
  PROVE  SyncInv'
<1> USE FieldTypes, PacketFields DEF IInv
<1> SUFFICES ASSUME ~disturbed' PROVE SyncInv' BY DEF SyncInv
<1> DEFINE tag == host.tag + 1
           next(phase) == [phase |-> phase, tag |-> tag, cmd |-> c, left |-> c.hlen,
                           got |-> 0, result |-> NoResult]
           p == [kind |-> "cbw", tag |-> tag, cmd |-> c]
<1>1. /\ host.phase = "idle"
      /\ UNCHANGED <<disturbed, rxStall, tx, txStall, state>>
  BY DEF SendCBW, workerVars
<1>2. Quiet /\ tx = NoPacket /\ ~txStall BY <1>1 DEF SyncInv
<1>3. c \in CommandType /\ c.hlen \in Nat /\ c.in \in BOOLEAN
  BY DEF BotAssumption, CommandType
<1>4. CASE rxStall
  <2>1. host' = next("recover") BY <1>4 DEF SendCBW
  <2>2. host'.phase = "recover" /\ host'.result = NoResult BY <2>1
  <2>3. host'.result.status = "none" BY <2>2 DEF NoResult
  <2> QED BY <2>2, <2>3 DEF SyncInv, Engaged, ResidueTruthful, BlankAckedWhenWiped
<1>5. CASE ~rxStall
  <2> DEFINE f == IF c.hlen = 0 THEN "status" ELSE IF c.in THEN "in" ELSE "out"
  <2>1. rx' = Append(rx, p) /\ host' = next(f) BY <1>5 DEF SendCBW
  <2>2. rx = <<>> BY <1>2, <1>5 DEF Quiet, Drained
  <2>3. host'.phase = f /\ host'.tag = tag /\ host'.cmd = c /\ host'.left = c.hlen
          /\ host'.got = 0 /\ host'.result = NoResult
    BY <2>1
  <2> HIDE DEF tag
  <2>4. rx' = <<p>> BY <2>1, <2>2
  <2>5. rx' # <<>> /\ Head(rx') = p /\ Tail(rx') = <<>> BY <2>4
  <2>6. Flow(Tail(rx'), c.hlen, c.hlen)
    <3>1. c.hlen \in Nat BY <1>3
    <3>2. Flow(<<>>, c.hlen, c.hlen) BY <3>1, FlowEmpty
    <3> QED BY ONLY <2>5, <3>2
  <2> HIDE DEF f
  <2>7. /\ state' \in {"ReadCBW", "WaitEjectCSW"} /\ ~rxStall' /\ ~txStall' /\ tx' = NoPacket
        /\ Head(rx') = [kind |-> "cbw", tag |-> host'.tag, cmd |-> host'.cmd]
    BY <1>1, <1>2, <1>5, <2>3, <2>5 DEF Quiet
  <2>8. OutPhase' \/ c.in BY <2>3 DEF OutPhase, f
  <2>9. c.in => host'.phase = IF host'.left = 0 THEN "status" ELSE "in" BY <2>3 DEF f
  <2>10. Sent' BY <2>3, <2>5, <2>6, <2>7, <2>8, <2>9 DEF Sent
  <2>11. Counted' BY <1>3, <2>3 DEF Counted, f
  <2>12. host'.phase \in {"status", "in", "out"} BY <2>3 DEF f
  <2>13. host'.result.status = "none" BY <2>3 DEF NoResult
  <2> QED
    BY <2>10, <2>11, <2>12, <2>13 DEF SyncInv, Stage, Engaged, ResidueTruthful, BlankAckedWhenWiped
<1> QED BY <1>4, <1>5

\* ... sends its data until the endpoint is halted ...
LEMMA SyncSendData ==
  ASSUME BotAssumption, IInv, SyncInv, SendData
  PROVE  SyncInv'
<1> USE FieldTypes, PacketFields DEF IInv
<1> SUFFICES ASSUME ~disturbed' PROVE SyncInv' BY DEF SyncInv
<1>1. /\ host.phase = "out"
      /\ UNCHANGED <<disturbed, tx, txStall, state, afterZlp, cbw, csw, bufCap, bufLen,
                     bufSent, dataSent, scsi, blank>>
  BY DEF SendData, workerVars, bufVars
<1>2. Engaged /\ Stage /\ Counted /\ host.result.status = "none" BY <1>1 DEF SyncInv, Engaged
<1>3. ~Writing /\ ~Padding BY <1>1 DEF Writing, Padding, Sending
<1>4. host.result \in [status : Status \cup {"none"}, residue : Nat] /\ host \in HostType
  BY DEF TypeOK, HostType
\* What is left to show of the host's next phase
<1>5. ASSUME Stage', host'.result = host.result, host'.phase \in {"status", "out"},
             host'.cmd = host.cmd, host'.cmd.in => host'.left = host.left, host'.got = host.got
      PROVE  SyncInv'
  <2>1. Counted' BY <1>2, <1>5 DEF Counted
  <2> QED BY <1>2, <1>5, <2>1 DEF SyncInv, Engaged, ResidueTruthful, BlankAckedWhenWiped
<1>6. CASE rxStall
  <2>1. rxStall' = FALSE /\ rx' = <<>> /\ host' = [host EXCEPT !.phase = "status"]
    BY <1>6 DEF SendData
  <2>2. host'.phase = "status" /\ host'.cmd = host.cmd /\ host'.left = host.left
          /\ host'.got = host.got /\ host'.result = host.result /\ host'.tag = host.tag
    BY <1>4, <2>1 DEF HostType
  <2>3. ~Sent /\ ~Reading BY <1>6 DEF Sent, Reading
  <2>4. Drained' /\ InFlight' = InFlight /\ Owned' = Owned /\ Undeferred' = Undeferred
    BY <1>1, <2>1, <2>2 DEF Drained, InFlight, Owned, Undeferred
  <2>5. Expecting => Expecting' BY <1>1, <2>1, <2>2 DEF Expecting
  <2>6. ~Sending BY <1>1 DEF Sending
  <2>7. Concluding => Concluding' BY <1>1, <2>1, <2>2, <2>4, <2>5, <2>6 DEF Concluding
  <2>8. Truthful(csw) => Truthful(csw)' BY <1>1, <2>2, <2>4 DEF Truthful, Wiped
  <2>9. Truthful(tx) => Truthful(tx)' BY <1>1, <2>2, <2>4 DEF Truthful, Wiped
  <2>10. Truthful([csw EXCEPT !.status = "nok"]) => Truthful([csw EXCEPT !.status = "nok"])'
    BY <1>1, <2>2, <2>4 DEF Truthful, Wiped
  <2>11. Replying => Replying'
    BY <1>1, <2>2, <2>4, <2>5, <2>8, <2>10 DEF Replying
  <2>12. Answered => Answered' BY <1>1, <2>2, <2>4, <2>9 DEF Answered
  <2>13. Dead => Dead' BY <1>1, <2>2, <2>4 DEF Dead
  <2>14. Stage' BY <1>2, <1>3, <2>3, <2>7, <2>11, <2>12, <2>13 DEF Stage
  <2> QED BY <1>5, <2>2, <2>14
<1>7. CASE ~rxStall
  <2> DEFINE n == Minimum(MaxPacket, host.left)
             p == DataPacket(n, FALSE)
  <2>1. rx' = Append(rx, p) /\ UNCHANGED rxStall
          /\ host' = [host EXCEPT !.left = @ - n,
                                  !.phase = IF host.left = n THEN "status" ELSE "out"]
    BY <1>7 DEF SendData
  <2>2. host'.phase = (IF host.left = n THEN "status" ELSE "out") /\ host'.cmd = host.cmd
          /\ host'.left = host.left - n /\ host'.got = host.got
          /\ host'.result = host.result /\ host'.tag = host.tag
    BY <1>4, <2>1 DEF HostType
  <2>3. ~Concluding /\ ~Replying /\ ~Answered /\ ~Dead
    BY <1>1, <1>7 DEF Concluding, Replying, Expecting, Answered, Dead
  <2>4. n \in Nat /\ n <= host.left BY DEF Minimum
  <2>5. rx \in Seq(PacketType) /\ p \in PacketType
    <3> HIDE DEF n
    <3> QED BY <2>4, PacketTypes DEF TypeOK
  <2>6. Owned' = Owned /\ Undeferred' = Undeferred
    BY <1>1, <2>2 DEF Owned, Undeferred
  <2>7. CASE Sent
    <3>1. ~host.cmd.in BY <1>1, <2>7 DEF Sent
    <3>2. rx # <<>> /\ Flow(Tail(rx), host.cmd.hlen, host.left) /\ OutPhase
      BY <2>7, <3>1 DEF Sent
    <3>3. host.left > 0 BY <1>1, <3>2 DEF OutPhase
    <3>4. Tail(rx) \in Seq(PacketType) BY <2>5, <3>2
    <3>5. Flow(Append(Tail(rx), p), host.cmd.hlen, host.left - n)
      BY <3>2, <3>3, <3>4, FlowAppend
    <3> HIDE DEF p, n
    <3>6. Tail(rx') = Append(Tail(rx), p) /\ rx' # <<>> /\ Head(rx') = Head(rx)
      <4>1. rx' = Append(rx, p) BY <2>1
      <4>2. Append(rx, p) # <<>> BY <2>5, AppendProperties, SMTT(30)
      <4>3. Head(Append(rx, p)) = IF rx = <<>> THEN p ELSE Head(rx) BY <2>5, HeadTailAppend
      <4>4. Tail(Append(rx, p)) = IF rx = <<>> THEN <<>> ELSE Append(Tail(rx), p)
        BY <2>5, HeadTailAppend
      <4> QED BY <3>2, <4>1, <4>2, <4>3, <4>4
    <3>7. OutPhase' BY <2>2, <2>4 DEF OutPhase
    <3>8. Sent' BY <1>1, <2>1, <2>2, <2>7, <3>1, <3>5, <3>6, <3>7 DEF Sent
    <3> QED BY <1>5, <2>2, <3>1, <3>8 DEF Stage
  <2>8. CASE Reading
    <3>1. ~host.cmd.in /\ Flow(rx, cbw.len - bufLen, host.left) /\ OutPhase
            /\ bufLen <= cbw.len
      BY <2>8 DEF Reading
    <3>2. host.left > 0 /\ cbw.len - bufLen \in Nat BY <1>1, <3>1 DEF OutPhase
    <3>3. Flow(Append(rx, p), cbw.len - bufLen, host.left - n)
      BY <2>5, <3>1, <3>2, FlowAppend
    <3> HIDE DEF p, n
    <3>4. OutPhase' BY <2>2, <2>4 DEF OutPhase
    <3>5. Clamp' = Clamp BY <1>1 DEF Clamp, Minimum
    <3>6. Flow(rx', cbw'.len - bufLen', host'.left) BY <1>1, <2>1, <2>2, <3>3
    <3>7. Reading' BY <1>1, <2>1, <2>2, <2>6, <2>8, <3>4, <3>5, <3>6 DEF Reading
    <3> QED BY <1>5, <2>2, <3>1, <3>7 DEF Stage
  <2> QED BY <1>2, <1>3, <2>3, <2>7, <2>8 DEF Stage
<1> QED BY <1>6, <1>7

\* ... takes what is armed, which is data of this transfer ...
LEMMA SyncTakeData ==
  ASSUME BotAssumption, IInv, SyncInv, TakeData
  PROVE  SyncInv'
<1> USE FieldTypes, PacketFields DEF IInv
<1> SUFFICES ASSUME ~disturbed' PROVE SyncInv' BY DEF SyncInv
<1>1. /\ host.phase = "in"
      /\ UNCHANGED <<disturbed, rx, rxStall, state, afterZlp, cbw, csw, bufCap, bufLen,
                     bufSent, dataSent, scsi, blank>>
  BY DEF TakeData, workerVars, bufVars
<1>2. Engaged /\ Stage /\ Counted /\ host.result.status = "none" BY <1>1 DEF SyncInv, Engaged
<1>3. host.cmd.in /\ host.got + host.left = host.cmd.hlen BY <1>1, <1>2 DEF Counted
<1>4. ~Reading /\ ~Answered BY <1>1, <1>3 DEF Reading, Answered
<1>5. host \in HostType BY DEF TypeOK
\* What is left to show of the host's next phase
<1>6. ASSUME Stage', host'.result = host.result, host'.phase \in {"status", "in"},
             host'.cmd = host.cmd, host'.left + host'.got = host.left + host.got,
             host'.left \in Nat, host'.got \in Nat
      PROVE  SyncInv'
  <2>1. Counted' BY <1>3, <1>6 DEF Counted
  <2> QED BY <1>2, <1>6, <2>1 DEF SyncInv, Engaged, ResidueTruthful, BlankAckedWhenWiped
<1>7. CASE txStall
  <2>1. txStall' = FALSE /\ host' = [host EXCEPT !.phase = "status"] /\ UNCHANGED tx
    BY <1>7 DEF TakeData
  <2>2. host'.phase = "status" /\ host'.cmd = host.cmd /\ host'.left = host.left
          /\ host'.got = host.got /\ host'.result = host.result
    BY <1>5, <2>1 DEF HostType
  <2>3. ~Sent /\ ~Writing /\ ~Padding /\ ~Concluding /\ ~Replying
    BY <1>7 DEF Sent, Writing, Padding, Sending, Concluding, Replying, Expecting
  <2>4. Dead BY <1>2, <1>4, <2>3 DEF Stage
  <2>5. Dead' BY <1>1, <2>1, <2>2, <2>4 DEF Dead, Drained
  <2> QED BY <1>6, <2>2, <2>5 DEF Stage
<1>8. CASE ~txStall
  <2>1. tx # NoPacket /\ tx' = NoPacket /\ UNCHANGED txStall BY <1>8 DEF TakeData
  <2>2. ~Sent /\ ~Dead BY <2>1 DEF Sent, Dead
  <2>3. Writing \/ Padding \/ Concluding \/ Replying BY <1>2, <1>4, <2>2 DEF Stage
  <2>4. Sending => tx.kind = "data" /\ host.left + bufSent = tx.len + cbw.len
    BY <2>1 DEF Sending, InFlight
  <2>5. tx.kind = "data" => tx.len \in Nat BY PacketTypes DEF TypeOK
  <2>6. Writing => bufSent <= cbw.len
    BY DEF Writing, BufferSafe, Minimum
  <2>7. bufLen = 0 => bufSent = 0 BY DEF BufferSafe
  <2>8. Padding => Sending /\ bufLen = 0 BY <2>1 DEF Padding
  <2>9. Concluding => Sending /\ bufLen = 0 BY <1>3 DEF Concluding
  <2>10. Replying => Ending /\ host.left = tx.len + csw.residue
    <3> SUFFICES ASSUME Replying PROVE Ending /\ host.left = tx.len + csw.residue OBVIOUS
    <3>1. Ending /\ tx.kind = "data" BY <1>1 DEF Replying, Expecting, Ending
    <3> DEFINE k == [csw EXCEPT !.status = "nok"]
    <3>2. k.residue = csw.residue BY DEF TypeOK, CSWType
    <3>3. Truthful(csw) \/ Truthful(k) BY DEF Replying
    <3> HIDE DEF k
    <3> QED BY <1>3, <3>1, <3>2, <3>3 DEF Truthful, InFlight
  <2>11. tx.kind = "data" /\ tx.len <= host.left /\ tx.len \in Nat
    <3>1. CASE Writing BY <2>4, <2>5, <2>6, <3>1 DEF Writing
    <3>2. CASE Padding \/ Concluding BY <2>4, <2>5, <2>7, <2>8, <2>9, <3>2
    <3>3. CASE Replying
      <4>1. tx.kind = "data" BY <2>10, <3>3 DEF Ending
      <4> QED BY <2>5, <2>10, <3>3, <4>1
    <3> QED BY <2>3, <3>1, <3>2, <3>3
  <2> DEFINE l == host.left - tx.len
             g == host.got + tx.len
             f == IF tx.len < MaxPacket \/ tx.len = host.left THEN "status" ELSE "in"
  <2>12. host' = [host EXCEPT !.left = l, !.got = g, !.phase = f]
    BY <1>8, <2>11 DEF TakeData
  <2>13. l \in Nat /\ g \in Nat /\ l + g = host.left + host.got BY <2>11
  <2>14. /\ host'.phase = f /\ host'.cmd = host.cmd /\ host'.left = l /\ host'.got = g
         /\ host'.result = host.result /\ host'.tag = host.tag
    <3> HIDE DEF l, g, f
    <3> QED BY <1>5, <2>12 DEF HostType
  <2>15. InFlight' = 0 /\ ~Ending' BY <2>1 DEF InFlight, Ending
  <2>16. f = (IF Ending THEN "status" ELSE "in") BY <2>11 DEF Ending
  <2>17. Owned' = Owned /\ Undeferred' = Undeferred /\ Drained' = Drained
    BY <1>1, <2>14 DEF Owned, Undeferred, Drained
  <2>18. l + tx.len = host.left /\ (~Ending => l > 0) BY <2>11 DEF Ending
  <2> HIDE DEF l, g, f
  <2>19. Expecting => Expecting' BY <1>1, <2>1, <2>14, <2>16 DEF Expecting
  <2>20. Sending => Sending'
    <3> SUFFICES ASSUME Sending PROVE Sending' OBVIOUS
    <3>1. host'.left + bufSent' = InFlight' + cbw'.len
      BY <1>1, <2>4, <2>11, <2>13, <2>14, <2>15, <2>18
    <3>2. host'.phase # "out" /\ (host'.phase = "in" => host'.left > 0)
      BY <2>14, <2>16, <2>18
    <3> QED BY <1>1, <2>1, <2>14, <2>17, <3>1, <3>2 DEF Sending
  <2>21. Writing => Writing'
    <3> SUFFICES ASSUME Writing PROVE Writing' OBVIOUS
    <3>1. Sending' BY <2>20 DEF Writing
    <3>2. host'.phase = "status" <=> Ending BY <2>14, <2>16
    <3>3. Exhausted(cbw.len)' = Exhausted(cbw.len)
            /\ Exhausted(cbw.len - bufLen)' = Exhausted(cbw.len - bufLen)
      BY <1>1 DEF Exhausted
    <3>4. host'.phase = "in" /\ ~Ending' => host.phase = "in" /\ ~Ending BY <1>1, <3>2
    <3>5. host'.phase = "status" \/ Ending' => Ending BY <2>15, <3>2
    <3> QED BY <1>1, <2>15, <3>1, <3>3, <3>4, <3>5 DEF Writing
  <2>22. Padding => Padding'
    <3> SUFFICES ASSUME Padding PROVE Padding' OBVIOUS
    <3>1. host'.phase = "in" BY <2>14, <2>16 DEF Padding
    <3>2. afterZlp = "BuildCSW" /\ Sending /\ bufLen = 0 BY <2>1 DEF Padding
    <3> QED BY <1>1, <2>15, <2>20, <3>1, <3>2 DEF Padding
  <2>23. Concluding => Concluding'
    <3> SUFFICES ASSUME Concluding PROVE Concluding' OBVIOUS
    <3>1. Sending' /\ bufLen' = 0 BY <1>1, <2>9, <2>20
    <3> QED BY <1>1, <1>3, <2>14, <2>17, <2>19, <3>1 DEF Concluding
  <2>24. Replying => Replying'
    <3> SUFFICES ASSUME Replying PROVE Replying' OBVIOUS
    <3>1. host'.left = csw.residue BY <2>10, <2>11, <2>13, <2>14, <2>18
    <3>2. Truthful(csw) => Truthful(csw)'
      <4>1. host.left = 0 => host'.left = 0 BY <2>11, <2>13, <2>14, <2>18
      <4> QED BY <1>1, <1>3, <2>14, <2>15, <3>1, <4>1 DEF Truthful, Wiped
    <3> DEFINE k == [csw EXCEPT !.status = "nok"]
    <3>3. k.residue = csw.residue /\ k.status = "nok" /\ k' = k BY <1>1 DEF TypeOK, CSWType
    <3> HIDE DEF k
    <3>4. Truthful(k) => Truthful(k)'
      BY <1>1, <2>14, <2>15, <3>1, <3>3 DEF Truthful
    <3>5. Expecting' /\ Drained' BY <2>17, <2>19 DEF Replying
    <3> QED BY <1>1, <2>14, <3>2, <3>4, <3>5 DEF Replying, k
  <2>25. Stage' BY <2>3, <2>21, <2>22, <2>23, <2>24 DEF Stage
  <2>26. host'.phase \in {"status", "in"} BY <2>14, <2>16
  <2> QED BY <1>6, <2>13, <2>14, <2>25, <2>26
<1> QED BY <1>7, <1>8

\* ... and takes the CSW, which is this command's.
LEMMA SyncTakeStatus ==
  ASSUME BotAssumption, IInv, SyncInv, TakeStatus
  PROVE  SyncInv'
<1> USE FieldTypes, PacketFields DEF IInv
<1> SUFFICES ASSUME ~disturbed' PROVE SyncInv' BY DEF SyncInv
<1>1. /\ host.phase = "status"
      /\ UNCHANGED <<disturbed, rx, rxStall, state, blank>>
  BY DEF TakeStatus, workerVars
<1>2. Engaged /\ Stage /\ Counted /\ host.result.status = "none" BY <1>1 DEF SyncInv, Engaged
<1>3. ~Padding BY <1>1 DEF Padding
<1>4. host \in HostType BY DEF TypeOK
<1>5. CASE txStall
  <2>1. txStall' = FALSE /\ UNCHANGED <<tx, host>> BY <1>5 DEF TakeStatus
  <2>2. ~Sent /\ ~Reading /\ ~Writing /\ ~Concluding /\ ~Replying /\ ~Answered
    BY <1>5 DEF Sent, Reading, Writing, Sending, Concluding, Replying, Expecting, Answered
  <2>3. Dead BY <1>2, <1>3, <2>2 DEF Stage
  <2>4. Dead' BY <1>1, <2>1, <2>3 DEF Dead, Drained
  <2>5. Counted' BY <1>2, <2>1 DEF Counted
  <2> QED
    BY <1>1, <1>2, <2>1, <2>4, <2>5
    DEF SyncInv, Stage, Engaged, ResidueTruthful, BlankAckedWhenWiped
<1>6. CASE ~txStall
  <2>1. tx # NoPacket /\ tx' = NoPacket /\ UNCHANGED txStall BY <1>6 DEF TakeStatus
  <2>2. ~Sent /\ ~Reading /\ ~Writing /\ ~Concluding /\ ~Replying /\ ~Dead
    BY <1>1, <2>1
    DEF Sent, Reading, Writing, Sending, Concluding, Replying, Expecting, Dead
  <2>3. Answered BY <1>2, <1>3, <2>2 DEF Stage
  <2>4. tx.kind = "csw" /\ Truthful(tx) /\ tx.tag = host.tag
          /\ state \in {"ReadCBW", "WaitEjectCSW"} /\ Drained
    BY <2>3 DEF Answered, Truthful
  <2>5. tx.status \in Status /\ tx.residue \in Nat BY <2>4, PacketTypes DEF TypeOK
  <2> DEFINE f == IF tx.status = "phase" THEN "recover" ELSE "idle"
             r == [status |-> tx.status, residue |-> tx.residue]
  <2>6. host' = [host EXCEPT !.phase = f, !.result = r]
    BY <1>6, <2>4 DEF TakeStatus
  <2>7. r.status = tx.status /\ r.residue = tx.residue OBVIOUS
  <2>8. f \in {"recover", "idle"} OBVIOUS
  <2> HIDE DEF f, r
  <2>9. /\ host'.phase = f /\ host'.cmd = host.cmd /\ host'.left = host.left
        /\ host'.got = host.got /\ host'.result = r
    BY <1>4, <2>6 DEF HostType
  <2>10. Quiet' BY <1>1, <2>4 DEF Quiet, Drained
  <2>11. InFlight = 0 BY <2>4 DEF InFlight
  <2>12. ResidueTruthful'
    <3>1. /\ host.cmd.in => host.left = tx.residue /\ host.got + host.left = host.cmd.hlen
          /\ ~host.cmd.in => host.got = 0
          /\ tx.status = "ok" /\ host.cmd.op = "read" =>
                host.cmd.alen + tx.residue = host.cmd.hlen /\ (~host.cmd.in => host.cmd.alen = 0)
          /\ tx.status = "ok" /\ host.cmd.op = "write" => tx.residue = 0 /\ host.left = 0
      BY <1>2, <2>4, <2>5, <2>11 DEF Truthful, Counted
    <3>2. host.cmd.in => host.got + tx.residue = host.cmd.hlen BY <3>1
    <3>3. tx.status = "ok" /\ host.cmd.op = "read" => host.got = host.cmd.alen
      BY <2>5, <3>1
    <3> QED BY <2>7, <2>9, <3>1, <3>2, <3>3 DEF ResidueTruthful
  <2>13. BlankAckedWhenWiped'
    BY <1>1, <2>4, <2>7, <2>9 DEF BlankAckedWhenWiped, Truthful, Wiped
  <2> QED
    BY <1>1, <1>6, <2>1, <2>8, <2>9, <2>10, <2>12, <2>13 DEF SyncInv, Engaged
<1> QED BY <1>5, <1>6

\* Giving up, recovery, suspension and the end of the app.
LEMMA SyncAbandon ==
  ASSUME BotAssumption, IInv, SyncInv,
         TimeOutStuck \/ TimeOutEarly \/ BotReset \/ ClearHalts \/ Suspend \/ Deinit
  PROVE  SyncInv'
<1> USE DEF IInv
<1> SUFFICES ASSUME ~disturbed' PROVE SyncInv' BY DEF SyncInv
<1>1. ~BotReset /\ ~Suspend BY DEF BotReset, Suspend
<1>2. ~disturbed BY <1>1 DEF TimeOutStuck, TimeOutEarly, GiveUp, ClearHalts, Deinit
<1>3. ~ClearHalts BY <1>2 DEF ClearHalts, SyncInv
<1>4. UNCHANGED <<rx, rxStall, tx, txStall, state, blank>>
  BY <1>1, <1>3 DEF TimeOutStuck, TimeOutEarly, GiveUp, Deinit, epVars, workerVars
<1>5. PICK x \in {"recover", "gone"} : host' = [host EXCEPT !.phase = x]
  BY <1>1, <1>3 DEF TimeOutStuck, TimeOutEarly, GiveUp, Deinit
<1>6. /\ host'.phase = x /\ host'.cmd = host.cmd /\ host'.left = host.left
      /\ host'.got = host.got /\ host'.result = host.result
  BY <1>5 DEF TypeOK, HostType
<1>7. Quiet' = Quiet BY <1>4 DEF Quiet, Drained
<1>8. ResidueTruthful' /\ BlankAckedWhenWiped'
  BY <1>2, <1>4, <1>6 DEF SyncInv, ResidueTruthful, BlankAckedWhenWiped
<1> QED BY <1>2, <1>6, <1>7, <1>8 DEF SyncInv, Engaged

\* The synchronisation invariant holds initially and is kept by every step.
LEMMA InitSync == ASSUME BotAssumption, Init PROVE SyncInv
<1>1. host.phase = "idle" /\ host.result.status = "none" BY DEF Init, NoResult
<1>2. Quiet /\ tx = NoPacket /\ ~txStall BY DEF Init, Quiet, Drained
<1> QED BY <1>1, <1>2 DEF SyncInv, Engaged, ResidueTruthful, BlankAckedWhenWiped

\* Every step of the transport keeps SyncInv.
LEMMA StepSync ==
  ASSUME BotAssumption, IInv, SyncInv, WakeInv, [Next]_vars
  PROVE  SyncInv'
<1>1. CASE Worker
  BY <1>1, SyncControl, SyncReadBadCBW, SyncReadCBW, SyncDataDone, SyncReadData,
     SyncWriteDataEnds, SyncWriteData, SyncWriteZlp, SyncBuildCSW, SyncBackgroundOver,
     SyncWriteCSW
  DEF Worker
<1>2. CASE UNCHANGED vars \/ Joined
  BY <1>2, SyncFrame DEF Joined, vars, SyncVars, hostVars, epVars, bufVars, appVars
<1>3. CASE ~Worker /\ ~(UNCHANGED vars \/ Joined)
  BY <1>3, SyncSendCBW, SyncSendData, SyncTakeData, SyncTakeStatus, SyncAbandon DEF Next
<1> QED BY <1>1, <1>2, <1>3

-----------------------------------------------------------------------------
(* The steps of the wake-up invariant.                                     *)

\* An endpoint the host has halted on the device's behalf has no worker behind
\* it that waits to write.
LEMMA StalledReads ==
  ASSUME SyncInv, ~disturbed, Engaged, txStall
  PROVE  state = "ReadCBW"
<1>1. Stage BY DEF SyncInv
<1>2. ~Sent /\ ~Reading /\ ~Writing /\ ~Padding /\ ~Concluding /\ ~Replying /\ ~Answered
  BY DEF Sent, Reading, Writing, Padding, Sending, Concluding, Replying, Expecting, Answered
<1> QED BY <1>1, <1>2 DEF Stage, Dead

\* The worker's steps.
LEMMA WakeWorker == ASSUME BotAssumption, IInv, WakeInv, Worker PROVE WakeInv'
<1> USE FieldTypes, PacketFields DEF IInv
<1>1. CASE WorkerExit
  <2>1. host.phase = "gone" BY <1>1 DEF WorkerExit, ExitSeen, WakeInv
  <2> QED BY <1>1, <2>1 DEF WorkerExit, hostVars, WakeInv
<1>2. CASE WorkerWake
  <2>1. /\ pc = "wait" /\ flags' = {} /\ latched' = flags /\ pc' # "done"
        /\ UNCHANGED <<host, disturbed, rx, rxStall, tx, txStall>>
    BY <1>2 DEF WorkerWake, hostVars, epVars, appVars
  <2>2. ASSUME ~disturbed
        PROVE  /\ UNCHANGED <<state, cbw>>
               /\ "RxTx" \in flags => pc' = "loop"
               /\ pc' \in {"wait", "step"} => "RxTx" \notin flags
    <3>1. "Reset" \notin flags BY <2>2 DEF WakeInv
    <3> QED BY <1>2, <3>1 DEF WorkerWake
  <2>3. ASSUME ~disturbed, pc' \in {"wait", "step"} PROVE Blocked'
    <3>1. Blocked BY <2>1, <2>2, <2>3 DEF WakeInv
    <3> QED BY <2>1, <2>2, <2>3, <3>1 DEF Blocked, RxReady, TxReady
  <2>4. ASSUME ~disturbed, state = "WaitEjectCSW", tx = NoPacket
        PROVE  pc' = "loop" /\ "TxComplete" \in latched'
    <3>1. "TxComplete" \in flags BY <2>1, <2>4 DEF WakeInv
    <3> QED BY <2>1, <2>2, <2>4, <3>1 DEF WakeInv
  <2>5. "TxComplete" \notin flags' /\ "Reset" \notin flags' /\ "Exit" \notin flags' BY <2>1
  <2> QED BY <2>1, <2>2, <2>3, <2>4, <2>5 DEF WakeInv
<1>3. CASE WorkerBlankStep
  <2>1. /\ pc = "step" /\ pc' = "wait"
        /\ UNCHANGED <<host, disturbed, rx, rxStall, tx, txStall, flags, latched, state, cbw>>
    BY <1>3 DEF WorkerBlankStep, hostVars, epVars, appVars
  <2>2. Blocked' = Blocked BY <2>1 DEF Blocked, RxReady, TxReady
  <2> QED BY <2>1, <2>2 DEF WakeInv
<1>4. CASE NotReady
  <2>1. /\ pc = "loop" /\ pc' \in {"wait", "step"}
        /\ UNCHANGED <<host, disturbed, rx, rxStall, tx, txStall, flags, latched, state, cbw>>
    BY <1>4 DEF NotReady, LeaveLoop, hostVars, epVars, appVars
  <2>2. Blocked' BY <1>4, <2>1 DEF NotReady, Blocked, RxReady, TxReady
  <2>3. state = "WaitEjectCSW" => "TxComplete" \notin latched BY <1>4 DEF NotReady
  <2> QED BY <2>1, <2>2, <2>3 DEF WakeInv
<1>5. CASE ReadBadCBW \/ ReadCBW \/ DataDone \/ ReadData \/ WriteDataEnds \/ WriteZlp
             \/ BuildCSW \/ BackgroundOver \/ EjectCSWSent
  <2>1. pc = "loop" /\ UNCHANGED <<host, disturbed, flags, pc, latched>>
    BY <1>5, Zenon
    DEF ReadBadCBW, ReadCBW, DataDone, ReadData, WriteDataEnds, WriteZlp, BuildCSW,
        BackgroundOver, EjectCSWSent, StayInLoop, hostVars, appVars
  <2>2. state' # "WaitEjectCSW"
    <3>1. CASE ReadCBW
      <4>1. PICK o \in StartOutcomes(Head(rx).cmd) :
              IF o = "started" THEN AcceptCommand(Head(rx))
                               ELSE RefuseCommand(Head(rx), o = "phase")
        BY <3>1, Zenon DEF ReadCBW
      <4>2. state = "ReadCBW" BY <3>1 DEF ReadCBW
      <4>3. AcceptCommand(Head(rx)) => state' \in {state, "WriteData", "ReadData"}
        BY Zenon DEF AcceptCommand
      <4>4. RefuseCommand(Head(rx), o = "phase") => state' \in {"WriteZlp", "WriteCSW"}
        BY DEF RefuseCommand
      <4> QED BY <4>1, <4>2, <4>3, <4>4
    <3>2. CASE ReadData
      <4>1. state = "ReadData" /\ state' \in {state, "WriteCSW"}
        BY <3>2, Zenon DEF ReadData
      <4> QED BY <4>1
    <3>3. CASE BuildCSW
      <4>1. state' \in {"WaitBackground", "WriteCSW"} BY <3>3, Zenon DEF BuildCSW
      <4> QED BY <4>1
    <3>4. CASE WriteZlp BY <3>4 DEF WriteZlp, TypeOK
    <3>5. CASE ReadBadCBW \/ DataDone \/ WriteDataEnds \/ BackgroundOver \/ EjectCSWSent
      BY <3>5 DEF ReadBadCBW, DataDone, WriteDataEnds, BackgroundOver, EjectCSWSent
    <3> QED BY <1>5, <3>1, <3>2, <3>3, <3>4, <3>5
  <2> QED BY <2>1, <2>2 DEF WakeInv
<1>6. CASE WriteData
  <2>1. /\ pc = "loop" /\ state = "WriteData"
        /\ UNCHANGED <<host, disturbed, flags, latched, state, txStall>>
        /\ (UNCHANGED pc \/ (~TxReady /\ UNCHANGED tx /\ pc' \in {"wait", "step"}))
    BY <1>6, Zenon DEF WriteData, LeaveLoop, StayInLoop, hostVars, appVars
  <2>2. pc' \in {"wait", "step"} => Blocked' BY <2>1 DEF Blocked, TxReady
  <2> QED BY <2>1, <2>2 DEF WakeInv
<1>7. CASE WriteCSW
  <2>1. /\ pc = "loop" /\ tx' = csw /\ pc' # "done" /\ UNCHANGED <<host, disturbed, flags>>
        /\ ((state' = "ReadCBW" /\ UNCHANGED pc) \/ state' = "WaitEjectCSW")
    BY <1>7 DEF WriteCSW, LeaveLoop, StayInLoop, hostVars, appVars
  <2>2. tx' # NoPacket BY <2>1
  <2>3. pc' \in {"wait", "step"} => Blocked' BY <2>1 DEF Blocked
  <2> QED BY <2>1, <2>2, <2>3 DEF WakeInv
<1> QED BY <1>1, <1>2, <1>3, <1>4, <1>5, <1>6, <1>7 DEF Worker

\* The callbacks raise the events, the halts are cleared for a reader only.
LEMMA WakeHost ==
  ASSUME BotAssumption, IInv, SyncInv, WakeInv,
         \/ \E c \in Commands : SendCBW(c)
         \/ SendData \/ TakeData \/ TakeStatus \/ TimeOutStuck \/ TimeOutEarly
         \/ BotReset \/ ClearHalts \/ Suspend \/ Deinit \/ UNCHANGED vars
  PROVE  WakeInv'
<1> USE DEF IInv
<1>t. host \in HostType BY DEF TypeOK
\* What is left to show of an action that leaves the worker alone
<1>w. ASSUME UNCHANGED <<pc, latched, state, cbw>>,
             "Exit" \in flags' => "Exit" \in flags \/ host'.phase = "gone",
             host.phase = "gone" => host'.phase = "gone",
             disturbed => disturbed',
             \/ disturbed' /\ ("RxTx" \in flags => "RxTx" \in flags')
                  /\ ("TxComplete" \in flags' => "TxComplete" \in flags)
             \/ /\ "Reset" \in flags' => "Reset" \in flags
                /\ {"RxTx", "TxComplete"} \subseteq flags'
             \/ /\ "Reset" \in flags' => "Reset" \in flags
                /\ "RxTx" \in flags' /\ UNCHANGED tx
                /\ "TxComplete" \in flags' <=> "TxComplete" \in flags
             \/ /\ "Reset" \in flags' => "Reset" \in flags
                /\ UNCHANGED tx
                /\ "RxTx" \in flags' <=> "RxTx" \in flags
                /\ "TxComplete" \in flags' <=> "TxComplete" \in flags
                /\ ~disturbed' /\ ~disturbed /\ Blocked => Blocked'
      PROVE  WakeInv'
  BY <1>w DEF WakeInv
<1>1. ASSUME NEW c \in Commands, SendCBW(c) PROVE WakeInv'
  <2>1. /\ host.phase = "idle" /\ UNCHANGED <<tx, rxStall, txStall, disturbed, pc, latched, state, cbw>>
        /\ (flags' = flags \cup {"RxTx"} \/ (UNCHANGED <<rx, flags>>))
    BY <1>1 DEF SendCBW, RxCallback, workerVars
  <2>2. UNCHANGED rx => Blocked' = Blocked BY <2>1 DEF Blocked, RxReady, TxReady
  <2> QED BY <1>w, <2>1, <2>2
<1>2. CASE SendData
  <2>1. /\ host.phase = "out" /\ UNCHANGED <<tx, txStall, disturbed, pc, latched, state, cbw>>
        /\ (flags' = flags \cup {"RxTx"} \/ (UNCHANGED flags /\ rx' = <<>>))
    BY <1>2 DEF SendData, RxCallback, workerVars
  <2>2. rx' = <<>> => (Blocked => Blocked') BY <2>1 DEF Blocked, RxReady, TxReady
  <2> QED BY <1>w, <2>1, <2>2
<1>3. CASE TakeData \/ TakeStatus
  <2>1. /\ host.phase \in {"in", "status"}
        /\ UNCHANGED <<rx, rxStall, disturbed, pc, latched, state, cbw>>
        /\ \/ flags' = flags \cup {"RxTx", "TxComplete"}
           \/ txStall /\ UNCHANGED <<tx, flags>>
    BY <1>3 DEF TakeData, TakeStatus, TxCallback, workerVars
  <2>2. CASE flags' = flags \cup {"RxTx", "TxComplete"} BY <1>w, <2>1, <2>2
  <2>3. CASE txStall /\ UNCHANGED <<tx, flags>>
    <3>1. ~disturbed => state = "ReadCBW" BY <2>1, <2>3, StalledReads DEF Engaged
    <3>2. ~disturbed /\ Blocked => Blocked' BY <2>1, <3>1 DEF Blocked, RxReady
    <3> QED BY <1>w, <2>1, <2>3, <3>2
  <2> QED BY <2>1, <2>2, <2>3
<1>4. CASE TimeOutStuck \/ TimeOutEarly
  <2>1. /\ host.phase # "gone"
        /\ UNCHANGED <<rx, rxStall, tx, txStall, flags, disturbed, pc, latched, state, cbw>>
    BY <1>4 DEF TimeOutStuck, TimeOutEarly, Stuck, GiveUp, epVars, workerVars
  <2>2. Blocked' = Blocked BY <2>1 DEF Blocked, RxReady, TxReady
  <2> QED BY <1>w, <2>1, <2>2
<1>5. CASE BotReset \/ Suspend
  <2>1. /\ host.phase # "gone" /\ flags' = flags \cup {"Reset"} /\ disturbed' = TRUE
        /\ UNCHANGED <<tx, pc, latched, state, cbw>>
    BY <1>5 DEF BotReset, Suspend, epVars, workerVars
  <2> QED BY <1>w, <2>1
<1>6. CASE ClearHalts
  <2>1. disturbed /\ host.phase = "clear" BY <1>6 DEF ClearHalts, SyncInv
  <2>2. UNCHANGED <<flags, disturbed, pc, latched, state, cbw>>
    BY <1>6 DEF ClearHalts, workerVars
  <2> QED BY <1>w, <2>1, <2>2
<1>7. CASE Deinit
  <2>1. /\ host.phase # "gone" /\ host' = [host EXCEPT !.phase = "gone"]
        /\ flags' = flags \cup {"Exit"}
        /\ UNCHANGED <<rx, rxStall, tx, txStall, disturbed, pc, latched, state, cbw>>
    BY <1>7 DEF Deinit, epVars, workerVars
  <2>2. host'.phase = "gone" BY <1>t, <2>1 DEF HostType
  <2>3. Blocked' = Blocked BY <2>1 DEF Blocked, RxReady, TxReady
  <2> QED BY <1>w, <2>1, <2>2, <2>3
<1>8. CASE UNCHANGED vars
  <2>1. UNCHANGED <<host, flags, rx, rxStall, tx, txStall, disturbed, pc, latched, state, cbw>>
    BY <1>8 DEF vars, hostVars, epVars, appVars
  <2>2. Blocked' = Blocked BY <2>1 DEF Blocked, RxReady, TxReady
  <2> QED BY <1>w, <2>1, <2>2
<1> QED BY <1>1, <1>2, <1>3, <1>4, <1>5, <1>6, <1>7, <1>8

\* At the start nobody has to be woken.
LEMMA InitWake == ASSUME BotAssumption, Init PROVE WakeInv
  BY DEF Init, WakeInv, Blocked, RxReady

\* Every step of the transport keeps WakeInv.
LEMMA StepWake ==
  ASSUME BotAssumption, IInv, SyncInv, WakeInv, [Next]_vars
  PROVE  WakeInv'
<1>1. CASE Worker BY <1>1, WakeWorker
<1>2. CASE UNCHANGED vars \/ Joined BY <1>2, WakeHost DEF Joined
<1>3. CASE ~Worker /\ ~(UNCHANGED vars \/ Joined) BY <1>3, WakeHost DEF Next
<1> QED BY <1>1, <1>2, <1>3

-----------------------------------------------------------------------------
(* A running blank operation is past its first step when anyone can look.  *)

\* One step wipes something, or ends the operation.
LEMMA BlankStepProgress ==
  ASSUME BotAssumption, NEW b \in BlankType, NEW cap \in Nat, NEW s \in BlankStep(b, cap)
  PROVE  ~s.active \/ s.lba > 0
<1> DEFINE n == Minimum(BlankBlocks - b.lba, cap \div BlockLen)
           next == [b EXCEPT !.lba = @ + n]
           rem == BlankBlocks - b.lba
<1>1. CASE ~b.active BY <1>1 DEF BlankStep
<1>2. CASE b.active
  <2>1. cap \div BlockLen \in Nat BY DEF BotAssumption
  <2>2. n \in Nat /\ b.lba \in Nat /\ rem \in Nat /\ n <= rem
    BY <2>1 DEF BotAssumption, BlankType, Minimum
  <2>3. next.lba = b.lba + n BY DEF BlankType
  <2>4. ~FinishBlank(b, FALSE).active /\ ~FinishBlank(next, FALSE).active
          /\ ~FinishBlank(next, TRUE).active
    BY DEF BlankType, FinishBlank
  <2>5. \/ s = FinishBlank(b, FALSE) \/ s = FinishBlank(next, FALSE)
        \/ s = FinishBlank(next, TRUE)
        \/ s = next /\ n # rem /\ ~(rem > 0 /\ n = 0)
    <3> HIDE DEF next
    <3> QED BY <1>2 DEF BlankStep, n, next, rem
  <2> HIDE DEF n, next, rem
  <2>6. s = next /\ n # rem /\ ~(rem > 0 /\ n = 0) => b.lba + n > 0 BY <2>2
  <2> QED BY <2>3, <2>4, <2>5, <2>6
<1> QED BY <1>1, <1>2

\* An operation that BuildCSW leaves at its start is the one it waits for.
LEMMA EstablishedProgress ==
  ASSUME BotAssumption, TypeOK, ~(blank.active /\ blank.lba = 0),
         NEW e \in EndOutcomes, NEW r \in Established(e[1], e[2]),
         r[2].active, r[2].lba = 0
  PROVE  r[1] = "ok" /\ Defers(r[2])
<1> DEFINE v == e[1]
           b == e[2]
<1>1. v \in {"ok", "nok"} /\ b \in BlankType BY EndOutcomesType
<1>2. v = "nok" \/ ~b.active => ~(b.active /\ b.lba = 0)
  <2> SUFFICES ASSUME v = "nok", b.active PROVE ~(b.lba = 0) OBVIOUS
  <2> DEFINE f == FinishBlank(blank, FALSE)
             c == CancelBlank(blank)
             v0 == Verdict(scsi.done)
             v1 == Verdict(~blank.active /\ ~blank.failed)
             s0 == StartBlank(FALSE)
             s1 == StartBlank(TRUE)
  <2>1. ~f.active BY DEF FinishBlank, TypeOK, BlankType
  <2>2. e \in {<<v0, blank>>, <<v1, blank>>, <<"ok", c>>, <<"nok", f>>, <<"ok", blank>>,
               <<"nok", blank>>, <<"ok", s0>>, <<"ok", s1>>}
    BY Zenon DEF EndOutcomes
  <2> HIDE DEF f, c, v0, v1, s0, s1
  <2>3. e[2] = blank \/ e[2] = f BY <2>2
  <2> QED BY <2>1, <2>3
<1> HIDE DEF v, b
<1>3. r \in Established(v, b) BY DEF v, b
<1>4. CASE v = "nok" \/ ~b.active
  <2>1. r = <<v, b, bufCap>> BY <1>3, <1>4 DEF Established
  <2> QED BY <1>2, <1>4, <2>1
<1>5. CASE v = "ok" /\ b.active
  <2> DEFINE f == FinishBlank(b, FALSE)
  <2>1. PICK cap \in EnsureBuffer :
           r \in IF cap = 0 THEN {<<"nok", f, cap>>}
                 ELSE IF Defers(b) THEN {<<"ok", b, cap>>}
                 ELSE {<<Verdict(~stepped.failed), stepped, cap>> : stepped \in BlankStep(b, cap)}
    BY <1>3, <1>5 DEF Established
  <2>2. cap \in Nat BY EnsureBufferType DEF BotAssumption
  <2>3. ~f.active BY <1>1 DEF FinishBlank, BlankType
  <2> HIDE DEF f
  <2>4. CASE cap = 0
    <3>1. r = <<"nok", f, cap>> BY <2>1, <2>4
    <3> QED BY <2>3, <3>1
  <2>5. CASE cap # 0 /\ Defers(b)
    <3>1. r = <<"ok", b, cap>> BY <2>1, <2>5
    <3> QED BY <2>5, <3>1
  <2>6. CASE cap # 0 /\ ~Defers(b)
    <3>1. PICK s \in BlankStep(b, cap) : r = <<Verdict(~s.failed), s, cap>> BY <2>1, <2>6
    <3>2. r[2] = s
      <4> DEFINE w == Verdict(~s.failed)
      <4> HIDE DEF w
      <4>1. r = <<w, s, cap>> BY <3>1 DEF w
      <4> QED BY <4>1
    <3>3. ~s.active \/ s.lba > 0 BY <1>1, <2>2, BlankStepProgress
    <3>4. s.lba = 0 /\ s.active BY <3>2
    <3> QED BY <3>3, <3>4
  <2> QED BY <2>4, <2>5, <2>6
<1> QED BY <1>1, <1>4, <1>5

\* Every step leaves a blank operation past its start, or ended.
LEMMA StepProgress ==
  ASSUME BotAssumption, TypeOK, ProgressVisible, [Next]_vars
  PROVE  ProgressVisible'
<1>1. CASE WorkerExit BY <1>1 DEF WorkerExit, CancelBlank, ProgressVisible, TypeOK, BlankType
<1>2. CASE WorkerWake BY <1>2 DEF WorkerWake, ProgressVisible
<1>3. CASE WorkerBlankStep
  <2>1. bufCap' \in Nat /\ blank \in BlankType /\ blank' \in BlankStep(blank, bufCap')
    BY <1>3, EnsureBufferType DEF WorkerBlankStep, BotAssumption, TypeOK
  <2>2. ~blank'.active \/ blank'.lba > 0 BY <2>1, BlankStepProgress
  <2> QED BY <2>2 DEF ProgressVisible
<1>4. CASE NotReady BY <1>4 DEF NotReady, LeaveLoop, ProgressVisible
<1>5. CASE ReadBadCBW \/ ReadCBW \/ DataDone \/ ReadData \/ WriteDataEnds \/ WriteZlp
             \/ BackgroundOver \/ WriteCSW \/ EjectCSWSent
  <2>1. UNCHANGED blank /\ (state # "WaitBackground" \/ ~blank.active)
    BY <1>5, Zenon
    DEF ReadBadCBW, ReadCBW, DataDone, ReadData, WriteDataEnds, WriteZlp,
        BackgroundOver, WriteCSW, EjectCSWSent, TypeOK
  <2> QED BY <2>1 DEF ProgressVisible
<1>6. CASE WriteData
  <2>1. state = "WriteData"
          /\ (UNCHANGED blank \/ blank' = [blank EXCEPT !.failed = FALSE])
    BY <1>6, Zenon DEF WriteData, AfterTx
  <2>2. blank'.active = blank.active /\ blank'.lba = blank.lba BY <2>1 DEF TypeOK, BlankType
  <2> QED BY <2>1, <2>2 DEF ProgressVisible
<1>7. CASE BuildCSW
  <2>1. PICK ended \in EndOutcomes : \E result \in Established(ended[1], ended[2]) :
       /\ blank' = result[2]
       /\ result[1] = "ok" /\ Defers(result[2]) => state' = "WaitBackground"
    BY <1>7, Zenon DEF BuildCSW
  <2>2. PICK result \in Established(ended[1], ended[2]) :
       /\ blank' = result[2]
       /\ result[1] = "ok" /\ Defers(result[2]) => state' = "WaitBackground"
    BY <2>1, Zenon
  <2>3. pc' = "loop" /\ state = "BuildCSW" BY <1>7, Zenon DEF BuildCSW, StayInLoop
  <2>4. ~(blank.active /\ blank.lba = 0) BY <2>3 DEF ProgressVisible
  <2>5. result[2].active /\ result[2].lba = 0 => result[1] = "ok" /\ Defers(result[2])
    BY <2>4, EstablishedProgress
  <2> QED BY <2>2, <2>3, <2>5 DEF ProgressVisible
<1>8. CASE ~Worker
  <2>1. UNCHANGED <<pc, state, blank>>
    BY <1>8
    DEF Next, SendCBW, SendData, TakeData, TakeStatus, TimeOutStuck, TimeOutEarly, GiveUp,
        BotReset, ClearHalts, Suspend, Deinit, Joined, vars, workerVars
  <2> QED BY <2>1 DEF ProgressVisible
<1> QED BY <1>1, <1>2, <1>3, <1>4, <1>5, <1>6, <1>7, <1>8 DEF Worker

-----------------------------------------------------------------------------
\* Host and device stay in step, and no event is lost: the strengthening of IInv
\* that the theorems below rest on, in every reachable state.
THEOREM InStep == Spec => [](IInv /\ SyncInv /\ WakeInv)
<1>1. Init => IInv /\ SyncInv /\ WakeInv
  BY BotAssumption, InitIInv, InitSync, InitWake
<1>2. (IInv /\ SyncInv /\ WakeInv) /\ [Next]_vars => (IInv /\ SyncInv /\ WakeInv)'
  BY BotAssumption, StepIInv, StepSync, StepWake
<1> QED BY <1>1, <1>2, PTL DEF Spec

\* Until a reset event is raised the host never meets data where it expects its
\* CSW, a CSW in its data stage, more data than it asked for, or the CSW of
\* another command: the worker's state machine keeps its stages and the host's
\* together through short packets, halts, refused commands and early verdicts.
THEOREM Synchronised == Spec => []InSync
<1>1. SyncInv => InSync BY DEF SyncInv, InSync
<1> QED BY <1>1, InStep, PTL

\* A CSW the host accepted tells what the transfer really moved.
THEOREM ResidueHonest == Spec => []ResidueTruthful
<1>1. SyncInv => ResidueTruthful BY DEF SyncInv, ResidueTruthful
<1> QED BY <1>1, InStep, PTL

\* GOOD status of a BLANK that is not immediate means a wiped medium, although
\* the wiping runs in steps between which other commands may be served.
THEOREM BlankHonest == Spec => []BlankAckedWhenWiped
<1>1. SyncInv => BlankAckedWhenWiped BY DEF SyncInv, BlankAckedWhenWiped
<1> QED BY <1>1, InStep, PTL

\* A worker that waits with no event pending has nothing it could do.
THEOREM NoWakeupLost == Spec => []NoLostWakeup
<1>1. WakeInv => NoLostWakeup
  <2> SUFFICES ASSUME WakeInv, ~disturbed, pc = "wait", flags = {}
               PROVE  Blocked /\ (state = "WaitEjectCSW" => tx # NoPacket)
    BY DEF NoLostWakeup, Blocked
  <2> QED BY DEF WakeInv
<1> QED BY <1>1, InStep, PTL

\* Until a reset event is raised, and as long as the buffer can be allocated, host
\* and device never both wait for the other.
THEOREM AlwaysMovable == Spec => []NeverStuck
<1>1. IInv /\ SyncInv /\ WakeInv => NeverStuck
  <2> SUFFICES ASSUME IInv, SyncInv, WakeInv, ~disturbed, "alloc" \notin Faults, Stuck
               PROVE  FALSE
    BY DEF NeverStuck
  <2> USE BotAssumption, FieldTypes, PacketFields DEF IInv
  <2>1. Engaged /\ Stage /\ pc = "wait" /\ flags = {} /\ state # "WaitBackground"
    BY DEF Stuck, Engaged, SyncInv
  <2>2. Blocked /\ (state = "WaitEjectCSW" => tx # NoPacket) BY <2>1 DEF WakeInv
  <2>3. host.phase = "out" => ~rxStall /\ rx # <<>> BY DEF Stuck, BotAssumption
  <2>4. host.phase # "out" => ~txStall /\ tx = NoPacket BY DEF Stuck
  <2>5. ~Sent BY <2>2 DEF Sent, Blocked, RxReady
  <2>6. ~Reading
    <3> SUFFICES ASSUME Reading PROVE FALSE OBVIOUS
    <3>1. /\ cbw.len > 0 /\ rx = <<>> /\ bufLen <= cbw.len /\ bufLen < Clamp
          /\ Flow(rx, cbw.len - bufLen, host.left) /\ OutPhase
      BY <2>2 DEF Reading, Blocked, RxReady
    <3>2. host.left = 0 BY <2>3, <3>1 DEF OutPhase
    <3>3. rx \in Seq(PacketType) /\ cbw.len - bufLen \in Nat BY <3>1 DEF TypeOK
    <3> DEFINE need == cbw.len - bufLen
    <3> HIDE DEF need
    <3>4. need \in Nat /\ Flow(rx, need, host.left) /\ host.left \in Nat
      BY <3>1, <3>3 DEF need
    <3>5. need = host.left
      <4>1. rx \in Seq(PacketType) /\ rx = <<>> BY <3>1, <3>3
      <4> QED BY ONLY <3>4, <4>1, FlowOfNothing, Zenon
    <3>6. cbw.len = bufLen BY <3>2, <3>5 DEF need
    <3> QED BY <3>1, <3>6 DEF Clamp, Minimum
  <2>7. ~Writing BY <2>2, <2>4 DEF Writing, Sending, Blocked, TxReady
  <2>8. ~Padding BY <2>2, <2>4 DEF Padding, Blocked, TxReady
  <2>9. ~Concluding BY <2>2 DEF Concluding, Blocked
  <2>10. ~Replying BY <2>1, <2>2, <2>3, <2>4 DEF Replying, Expecting, Blocked, TxReady
  <2>11. ~Answered BY <2>3, <2>4 DEF Answered
  <2>12. ~Dead BY DEF Dead
  <2> QED BY <2>1, <2>5, <2>6, <2>7, <2>8, <2>9, <2>10, <2>11, <2>12 DEF Stage
<1> QED BY <1>1, InStep, PTL

\* Nobody sees a running blank operation at progress 0: before the status of the
\* command that starts it, and before any other command, its first step is taken.
THEOREM ProgressSeen == Spec => []ProgressVisible
<1>1. Init => ProgressVisible BY DEF Init, ProgressVisible
<1>2. IInv => TypeOK BY DEF IInv
<1>3. TypeOK /\ ProgressVisible /\ [Next]_vars => ProgressVisible'
  BY BotAssumption, StepProgress
<1> QED BY <1>1, <1>2, <1>3, Inductive, PTL DEF Spec

=============================================================================
