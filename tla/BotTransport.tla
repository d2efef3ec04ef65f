----------------------------- MODULE BotTransport -----------------------------
(***************************************************************************)
(* The USB mass-storage transport of helpers/mass_storage_usb.c: the       *)
(* worker thread and its event flags, the two bulk endpoints, the USB      *)
(* callbacks that run in interrupt context, and the host at the other end. *)
(* One worker action is one turn of the inner `do { switch } while(true)`  *)
(* loop: a turn performs at most one endpoint operation, and everything    *)
(* else it touches belongs to the worker.                                  *)
(*                                                                         *)
(* The SCSI layer is reduced to the calls the transport makes              *)
(* (cmd_start, cmd_rx_data, cmd_tx_data, cmd_end, blank_step).  Lengths    *)
(* are counted in units of MaxPacket \div 2 or finer, so that a packet may *)
(* be short.  A command is a record:                                       *)
(*   op    what it does          in    CBW direction bit (device to host)  *)
(*   hlen  CBW transfer length   alen  length the command itself asks for  *)
(***************************************************************************)
EXTENDS Naturals, Sequences

CONSTANTS Commands,     \* the commands the host may send
          MaxPacket,    \* bulk packet size
          BlockLen,     \* block size of the medium
          BufCap,       \* capacity of the transfer buffer once allocated
          RxSlots,      \* packets the OUT endpoint holds (double buffered)
          BlankBlocks,  \* blocks on the medium that BLANK has to wipe
          MaxCmds,      \* bound: commands the host sends
          MaxAborts,    \* bound: transfers the host gives up although they move
          Faults        \* what may fail: "alloc", "media", "refuse", "sync"

Ops == {"read", "write", "reply", "sense", "ready", "eject", "cancel",
        "blank", "blankImmed", "none"}

CommandType == [op : Ops, in : BOOLEAN, hlen : Nat, alen : Nat]

\* The transfer buffer holds whole packets and whole blocks: 16, 8 or 4 KiB for
\* blocks of 512 or 2048 bytes, 9408 = 4 * 2352 = 147 * 64 bytes for audio.
ASSUME BotAssumption ==
  /\ Commands \subseteq CommandType
  /\ MaxPacket \in Nat \ {0} /\ BlockLen \in Nat \ {0} /\ RxSlots \in Nat \ {0}
  /\ BufCap \in Nat \ {0} /\ BufCap % MaxPacket = 0 /\ BufCap % BlockLen = 0
  /\ BlankBlocks \in Nat /\ MaxCmds \in Nat /\ MaxAborts \in Nat
  /\ Faults \subseteq {"alloc", "media", "refuse", "sync"}

VARIABLES
  host,       \* [phase, tag, cmd, left, got, result]: the initiator
  aborts,     \* transfers given up so far
  disturbed,  \* history: a reset event has been raised
  rx, rxStall,       \* OUT endpoint: packets received and unread; halted
  tx, txStall,       \* IN endpoint: the packet armed; halted
  flags,      \* event flags of the worker thread
  pc,         \* "wait": in furi_thread_flags_wait; "loop"; "step"; "done"
  latched,    \* the flags the last wait returned
  state, afterZlp, cbw, csw,               \* locals of mass_thread_worker
  bufCap, bufLen, bufSent, dataSent,       \* locals of mass_thread_worker
  wiped,      \* a blank step has zeroed what the buffer held
  scsi,       \* [op, left, done, phaseError, ejectPending]
  blank,      \* [active, immediate, failed, lba]
  ejected     \* how often fn.eject was called

hostVars == <<host, aborts>>
epVars   == <<rx, rxStall, tx, txStall>>
bufVars  == <<bufCap, bufLen, bufSent, dataSent, wiped>>
appVars  == <<disturbed, ejected>>
vars == <<hostVars, epVars, flags, pc, latched, state, afterZlp, cbw, csw,
          bufVars, scsi, blank, appVars>>

Events == {"Exit", "Reset", "RxTx", "TxComplete"}
States == {"ReadCBW", "ReadData", "WriteData", "WriteZlp", "BuildCSW",
           "WaitBackground", "WriteCSW", "WaitEjectCSW"}
Status == {"ok", "nok", "phase"}

NoPacket == [kind |-> "none"]
DataPacket(n, zeroed) == [kind |-> "data", len |-> n, wiped |-> zeroed]
NoCmd == [op |-> "none", in |-> FALSE, hlen |-> 0, alen |-> 0]
NoCBW == [tag |-> 0, cmd |-> NoCmd, len |-> 0]
NoCSW == [kind |-> "csw", tag |-> 0, status |-> "ok", residue |-> 0]
NoResult == [status |-> "none", residue |-> 0]

Minimum(a, b) == IF a <= b THEN a ELSE b
Whole(n, unit) == n - (n % unit)       \* n rounded down to a multiple of unit

Init ==
  /\ host = [phase |-> "idle", tag |-> 0, cmd |-> NoCmd, left |-> 0, got |-> 0,
             result |-> NoResult]
  /\ aborts = 0 /\ disturbed = FALSE /\ ejected = 0
  /\ rx = <<>> /\ rxStall = FALSE /\ tx = NoPacket /\ txStall = FALSE
  /\ flags = {} /\ pc = "wait" /\ latched = {}
  /\ state = "ReadCBW" /\ afterZlp = "BuildCSW" /\ cbw = NoCBW /\ csw = NoCSW
  /\ bufCap = 0 /\ bufLen = 0 /\ bufSent = 0 /\ dataSent = 0 /\ wiped = FALSE
  /\ scsi = [op |-> "none", left |-> 0, done |-> FALSE, phaseError |-> FALSE,
             ejectPending |-> FALSE]
  /\ blank = [active |-> FALSE, immediate |-> FALSE, failed |-> FALSE, lba |-> 0]

-----------------------------------------------------------------------------
(* The SCSI layer as the transport sees it.                                *)

\* Broken variants, one for each property, are named Bad...: each makes one
\* plausible mistake in the definition that follows it.

BadDefersNever(b) == FALSE          \* BLANK is acknowledged before it is done

\* scsi_blank_defers_status
Defers(b) == b.active /\ ~b.immediate

\* scsi_finish_blank: the medium is wiped, or the wipe failed
FinishBlank(b, success) == [b EXCEPT !.active = FALSE, !.failed = ~success]

\* scsi_start_blank
StartBlank(immediate) ==
  [active |-> TRUE, immediate |-> immediate, failed |-> FALSE, lba |-> 0]

\* scsi_blank_cancel
CancelBlank(b) == IF b.active THEN [b EXCEPT !.active = FALSE, !.failed = FALSE] ELSE b

\* scsi_blank_step: the outcomes of wiping the next blocks with a buffer of
\* cap units; the last block is followed by a sync and a save of the state
BlankStep(b, cap) ==
  LET remaining == BlankBlocks - b.lba
      n    == Minimum(remaining, cap \div BlockLen)
      next == [b EXCEPT !.lba = @ + n]
  IN  IF ~b.active THEN {b}
      ELSE IF remaining > 0 /\ n = 0 THEN {FinishBlank(b, FALSE)}
      ELSE (IF n = remaining THEN {FinishBlank(next, TRUE)} ELSE {next})
           \cup (IF "media" \in Faults /\ n > 0 THEN {FinishBlank(b, FALSE)} ELSE {})
           \cup (IF "sync" \in Faults /\ n = remaining
                 THEN {FinishBlank(next, FALSE)} ELSE {})

\* mass_storage_ensure_buffer: the capacities it can leave behind
EnsureBuffer ==
  IF bufCap # 0 THEN {bufCap}
  ELSE {BufCap} \cup (IF "alloc" \in Faults THEN {0} ELSE {})

\* scsi_cmd_start: what a command that overlaps a blank operation may be
AllowedWhileBlanking == {"cancel", "ready", "sense", "reply"}

\* scsi_cmd_start: the transfer the CBW announces contradicts the command
Contradicts(c) ==
  \/ c.op = "write" /\ (c.in \/ c.hlen # c.alen)
  \/ c.op = "read" /\ c.alen > 0 /\ ~c.in
  \/ c.op \in {"blank", "blankImmed"} /\ c.hlen > 0

StartOutcomes(c) ==
  IF blank.active /\ c.op \notin AllowedWhileBlanking THEN {"refused"}
  ELSE (IF "refuse" \in Faults /\ c.op \in {"read", "write"} THEN {"refused"} ELSE {})
       \cup (IF Contradicts(c) THEN {"phase"} ELSE {"started"})

\* scsi_cmd_tx_data: the lengths it may return, 0 for FALSE
TxChunks(cap) ==
  IF scsi.done THEN {0}
  ELSE CASE scsi.op = "read"  -> {Whole(Minimum(scsi.left, cap), BlockLen)}
                                 \cup (IF "media" \in Faults THEN {0} ELSE {})
         [] scsi.op = "reply" -> {Minimum(scsi.left, cap)}
         [] scsi.op = "sense" -> {IF cap < scsi.left THEN 0 ELSE scsi.left}
         [] OTHER -> {0}

\* scsi_cmd_rx_data: whether len units of the host's data are accepted
RxOutcomes(len) ==
  IF scsi.op # "write" \/ scsi.done \/ len > scsi.left THEN {"nok"}
  ELSE {"ok"} \cup (IF "media" \in Faults THEN {"nok"} ELSE {})

Verdict(ok) == IF ok THEN "ok" ELSE "nok"      \* command_ok, as the CSW has it

\* scsi_cmd_end: <<the verdict, blank afterwards>>
EndOutcomes ==
  CASE scsi.op \in {"read", "write", "reply", "sense"} -> {<<Verdict(scsi.done), blank>>}
    [] scsi.op = "ready" -> {<<Verdict(~blank.active /\ ~blank.failed), blank>>}
    [] scsi.op = "cancel" ->
         {<<"ok", CancelBlank(blank)>>}
         \cup (IF "sync" \in Faults /\ blank.active
               THEN {<<"nok", FinishBlank(blank, FALSE)>>} ELSE {})
    [] scsi.op = "eject" ->
         {<<"ok", blank>>} \cup (IF "sync" \in Faults THEN {<<"nok", blank>>} ELSE {})
    [] scsi.op = "blank" -> {<<"ok", StartBlank(FALSE)>>}
    [] scsi.op = "blankImmed" -> {<<"ok", StartBlank(TRUE)>>}
    [] OTHER -> {<<"nok", blank>>}

-----------------------------------------------------------------------------
(* The worker thread.                                                      *)

\* Leaving the inner loop: a running blank operation takes one more step
LeaveLoop == /\ pc' = IF blank'.active THEN "step" ELSE "wait"
             /\ UNCHANGED latched

StayInLoop == UNCHANGED <<pc, latched>>

BadExitSeen == flags = {"Exit"}      \* == instead of &

ExitSeen == "Exit" \in flags

BadBackground == blank.active       \* the finished operation is not picked up

\* background_pending: the wait has a timeout of 0
Background == blank.active \/ state = "WaitBackground"

\* EventExit: a blank operation is cancelled, the thread returns
WorkerExit ==
  /\ pc = "wait" /\ ExitSeen
  /\ blank' = CancelBlank(blank) /\ flags' = {} /\ latched' = {} /\ pc' = "done"
  /\ UNCHANGED <<hostVars, epVars, state, afterZlp, cbw, csw, bufVars, scsi, appVars>>

\* The buffer is freed under the transfer that uses it
BadForgetTransfer ==
  /\ UNCHANGED <<state, cbw, wiped>> /\ csw' = NoCSW
  /\ bufCap' = 0 /\ bufLen' = 0 /\ bufSent' = 0 /\ dataSent' = 0

\* EventReset: the transfer in progress is forgotten; scsi.eject_pending, the
\* blank operation and the endpoints are not touched
ForgetTransfer ==
  /\ state' = "ReadCBW" /\ cbw' = NoCBW /\ csw' = NoCSW
  /\ bufCap' = 0 /\ bufLen' = 0 /\ bufSent' = 0 /\ dataSent' = 0
  /\ UNCHANGED wiped

\* The wait returns: on an event, or at once while work is pending
WorkerWake ==
  /\ pc = "wait" /\ ~ExitSeen /\ (flags # {} \/ Background)
  /\ flags' = {} /\ latched' = flags
  /\ IF "Reset" \in flags THEN ForgetTransfer
                          ELSE UNCHANGED <<state, cbw, csw, bufVars>>
  /\ pc' = IF "RxTx" \in flags \/ state' = "WaitBackground" THEN "loop"
           ELSE IF blank.active THEN "step" ELSE "wait"
  /\ UNCHANGED <<hostVars, epVars, afterZlp, scsi, blank, appVars>>

\* The blank step after the inner loop, in the buffer that a data phase which
\* is waiting for its endpoint may be using
WorkerBlankStep ==
  /\ pc = "step" /\ pc' = "wait"
  /\ bufCap' \in EnsureBuffer
  /\ blank' \in BlankStep(blank, bufCap')
  /\ wiped' = (wiped \/ (blank.lba < BlankBlocks /\ bufCap' >= BlockLen))
  /\ UNCHANGED <<hostVars, epVars, flags, latched, state, afterZlp, cbw, csw,
                 bufLen, bufSent, dataSent, scsi, appVars>>

\* usbd_ep_read answers "not ready" on an empty or halted endpoint,
\* usbd_ep_write on an armed or halted one
RxReady == rx # <<>> /\ ~rxStall
TxReady == tx = NoPacket /\ ~txStall

NotReady ==
  /\ pc = "loop"
  /\ \/ state \in {"ReadCBW", "ReadData"} /\ ~RxReady
     \/ state \in {"WriteZlp", "WriteCSW"} /\ ~TxReady
     \/ state = "WriteData" /\ bufLen > 0 /\ ~TxReady
     \/ state = "WaitBackground" /\ blank.active
     \/ state = "WaitEjectCSW" /\ "TxComplete" \notin latched
  /\ state = "ReadData" => cbw.len > 0
  /\ state = "WriteData" => cbw.len > 0
  /\ UNCHANGED <<hostVars, epVars, flags, state, afterZlp, cbw, csw, bufVars,
                 scsi, blank, appVars>>
  /\ LeaveLoop

StallBoth == rxStall' = TRUE /\ txStall' = TRUE /\ tx' = NoPacket

\* ReadCBW, a packet that is no CBW
ReadBadCBW ==
  /\ pc = "loop" /\ state = "ReadCBW" /\ RxReady /\ Head(rx).kind # "cbw"
  /\ rx' = Tail(rx) /\ StallBoth /\ StayInLoop
  /\ UNCHANGED <<hostVars, flags, state, afterZlp, cbw, csw, bufVars, scsi,
                 blank, appVars>>

BadDataOut(c) == FALSE               \* the refused data stage is not halted

DataOut(c) == ~c.in /\ c.hlen > 0   \* data_out

\* scsi_cmd_start fails: the CSW is prepared at once
RefuseCommand(packet, phaseError) ==
  LET c == packet.cmd IN
  /\ scsi' = [scsi EXCEPT !.op = c.op, !.done = FALSE, !.ejectPending = FALSE,
                          !.phaseError = phaseError]
  /\ rxStall' = (rxStall \/ phaseError \/ DataOut(c))
  /\ csw' = [kind |-> "csw", tag |-> packet.tag, residue |-> c.hlen,
             status |-> IF phaseError THEN "phase" ELSE "nok"]
  /\ IF c.in /\ c.hlen > 0
     THEN state' = "WriteZlp" /\ afterZlp' = "WriteCSW"
     ELSE state' = "WriteCSW" /\ UNCHANGED afterZlp
  /\ UNCHANGED <<tx, txStall, bufCap, bufLen, bufSent, dataSent>>

\* scsi_cmd_start succeeds; a data phase needs the transfer buffer
AcceptCommand(packet) ==
  LET c == packet.cmd IN
  /\ scsi' = [op |-> c.op, left |-> c.alen, phaseError |-> FALSE,
              done |-> (c.op \in {"read", "write"} /\ c.alen = 0),
              ejectPending |-> FALSE]
  /\ dataSent' = 0
  /\ IF c.hlen > 0 THEN bufCap' \in EnsureBuffer ELSE UNCHANGED bufCap
  /\ IF c.hlen > 0 /\ bufCap' = 0
     THEN StallBoth /\ UNCHANGED <<state, bufLen, bufSent>>
     ELSE /\ state' = IF c.in THEN "WriteData" ELSE "ReadData"
          /\ bufLen' = 0 /\ bufSent' = IF c.in THEN 0 ELSE bufSent
          /\ UNCHANGED <<tx, rxStall, txStall>>
  /\ UNCHANGED <<csw, afterZlp>>

ReadCBW ==
  /\ pc = "loop" /\ state = "ReadCBW" /\ RxReady /\ Head(rx).kind = "cbw"
  /\ rx' = Tail(rx)
  /\ cbw' = [tag |-> Head(rx).tag, cmd |-> Head(rx).cmd, len |-> Head(rx).cmd.hlen]
  /\ \E outcome \in StartOutcomes(Head(rx).cmd) :
       IF outcome = "started" THEN AcceptCommand(Head(rx))
                              ELSE RefuseCommand(Head(rx), outcome = "phase")
  /\ StayInLoop
  /\ UNCHANGED <<hostVars, flags, wiped, blank, appVars>>

\* ReadData and WriteData with nothing left to move
DataDone ==
  /\ pc = "loop" /\ state \in {"ReadData", "WriteData"} /\ cbw.len = 0
  /\ state' = "BuildCSW" /\ StayInLoop
  /\ UNCHANGED <<hostVars, epVars, flags, afterZlp, cbw, csw, bufVars, scsi,
                 blank, appVars>>

BadClamp == bufCap                   \* not limited by the announced length

Clamp == Minimum(cbw.len, bufCap)     \* buf_clamp

\* ReadData: one packet is read into the buffer, a full buffer is handed over
ReadData ==
  /\ pc = "loop" /\ state = "ReadData" /\ cbw.len > 0 /\ RxReady
  /\ rx' = Tail(rx)
  /\ LET size == IF Head(rx).kind = "data" THEN Head(rx).len ELSE MaxPacket
         len  == bufLen + Minimum(size, Clamp - bufLen)
     IN IF len < Clamp
        THEN bufLen' = len /\ UNCHANGED <<rxStall, cbw, csw, state, scsi>>
        ELSE \E verdict \in RxOutcomes(len) :
             IF verdict = "ok"
             THEN /\ scsi' = [scsi EXCEPT !.left = @ - len, !.done = (scsi.left = len)]
                  /\ cbw' = [cbw EXCEPT !.len = @ - len] /\ bufLen' = 0
                  /\ UNCHANGED <<rxStall, csw, state>>
             ELSE /\ rxStall' = TRUE /\ bufLen' = len /\ state' = "WriteCSW"
                  /\ csw' = [kind |-> "csw", tag |-> cbw.tag, status |-> "nok",
                             residue |-> cbw.len]
                  /\ UNCHANGED <<cbw, scsi>>
  /\ wiped' = FALSE /\ StayInLoop
  /\ UNCHANGED <<hostVars, tx, txStall, flags, afterZlp, bufCap, bufSent, dataSent,
                 blank, appVars>>

BadNeedsZlp == FALSE                 \* a full last packet is followed by the CSW

NeedsZlp == dataSent % MaxPacket = 0

\* WriteData, the command has no (more) data: the host must see a short packet
WriteDataEnds ==
  /\ pc = "loop" /\ state = "WriteData" /\ cbw.len > 0 /\ bufLen = 0
  /\ 0 \in TxChunks(Clamp)
  /\ IF NeedsZlp THEN state' = "WriteZlp" /\ afterZlp' = "BuildCSW"
                 ELSE state' = "BuildCSW" /\ UNCHANGED afterZlp
  /\ StayInLoop
  /\ UNCHANGED <<hostVars, epVars, flags, cbw, csw, bufVars, scsi, blank, appVars>>

\* One chunk is taken for the whole command
BadAfterTx(chunk) ==
  scsi' = [scsi EXCEPT !.left = @ - chunk, !.done = TRUE] /\ UNCHANGED blank

\* REQUEST SENSE reports and forgets a failed blank operation
AfterTx(chunk) ==
  /\ scsi' = [scsi EXCEPT !.left = @ - chunk,
                          !.done = (scsi.op # "read" \/ scsi.left = chunk)]
  /\ blank' = IF scsi.op = "sense" /\ ~blank.active
              THEN [blank EXCEPT !.failed = FALSE] ELSE blank

\* WriteData: fetch a chunk when the buffer is empty, write one packet of it
WriteData ==
  /\ pc = "loop" /\ state = "WriteData" /\ cbw.len > 0
  /\ \E chunk \in IF bufLen = 0 THEN TxChunks(Clamp) \ {0} ELSE {bufLen} :
       /\ IF bufLen = 0 THEN AfterTx(chunk) /\ wiped' = FALSE
                         ELSE UNCHANGED <<scsi, blank, wiped>>
       /\ IF ~TxReady
          THEN /\ bufLen = 0 /\ bufLen' = chunk /\ LeaveLoop
               /\ UNCHANGED <<tx, cbw, bufSent, dataSent>>
          ELSE LET n == Minimum(MaxPacket, chunk - bufSent) IN
               /\ tx' = DataPacket(n, wiped') /\ StayInLoop
               /\ IF bufSent + n = chunk
                  THEN /\ cbw' = [cbw EXCEPT !.len = @ - chunk]
                       /\ dataSent' = dataSent + chunk /\ bufLen' = 0 /\ bufSent' = 0
                  ELSE /\ bufLen' = chunk /\ bufSent' = bufSent + n
                       /\ UNCHANGED <<cbw, dataSent>>
  /\ UNCHANGED <<hostVars, rx, rxStall, txStall, flags, state, afterZlp, csw, bufCap,
                 appVars>>

WriteZlp ==
  /\ pc = "loop" /\ state = "WriteZlp" /\ TxReady
  /\ tx' = DataPacket(0, FALSE) /\ state' = afterZlp /\ StayInLoop
  /\ UNCHANGED <<hostVars, rx, rxStall, txStall, flags, afterZlp, cbw, csw, bufVars,
                 scsi, blank, appVars>>

BadEstablished(verdict, b) == {<<verdict, b, bufCap>>}   \* no step before the status

\* What BuildCSW makes of a started blank operation: <<verdict, blank, buf_cap>>
Established(verdict, b) ==
  IF verdict = "nok" \/ ~b.active THEN {<<verdict, b, bufCap>>}
  ELSE UNION { IF cap = 0 THEN {<<"nok", FinishBlank(b, FALSE), cap>>}
               ELSE IF Defers(b) THEN {<<"ok", b, cap>>}
               ELSE {<<Verdict(~stepped.failed), stepped, cap>> : stepped \in BlankStep(b, cap)}
               : cap \in EnsureBuffer }

BuildCSW ==
  /\ pc = "loop" /\ state = "BuildCSW"
  /\ \E ended \in EndOutcomes : \E result \in Established(ended[1], ended[2]) :
       /\ blank' = result[2] /\ bufCap' = result[3]
       /\ scsi' = [scsi EXCEPT !.op = "none",
                               !.ejectPending = @ \/ (scsi.op = "eject" /\ ended[1] = "ok")]
       /\ IF result[1] = "ok" /\ Defers(result[2])
          THEN /\ state' = "WaitBackground"
               /\ csw' = [csw EXCEPT !.tag = cbw.tag, !.residue = cbw.len]
          ELSE /\ state' = "WriteCSW"
               /\ csw' = [kind |-> "csw", tag |-> cbw.tag, residue |-> cbw.len,
                          status |-> result[1]]
  /\ StayInLoop
  /\ UNCHANGED <<hostVars, epVars, flags, afterZlp, cbw, bufLen, bufSent, dataSent,
                 wiped, appVars>>

\* WaitBackground, the blank operation is over
BackgroundOver ==
  /\ pc = "loop" /\ state = "WaitBackground" /\ ~blank.active
  /\ csw' = [csw EXCEPT !.status = IF blank.failed THEN "nok" ELSE "ok"]
  /\ state' = "WriteCSW" /\ StayInLoop
  /\ UNCHANGED <<hostVars, epVars, flags, afterZlp, cbw, bufVars, scsi, blank, appVars>>

WriteCSW ==
  /\ pc = "loop" /\ state = "WriteCSW" /\ TxReady
  /\ tx' = csw /\ cbw' = NoCBW /\ csw' = NoCSW /\ dataSent' = 0
  /\ UNCHANGED <<hostVars, rx, rxStall, txStall, flags, afterZlp, bufCap, bufLen,
                 bufSent, wiped, scsi, blank, appVars>>
  /\ IF scsi.ejectPending THEN state' = "WaitEjectCSW" /\ LeaveLoop
                          ELSE state' = "ReadCBW" /\ StayInLoop

\* WaitEjectCSW: the eject callback runs on a transmit-complete event
EjectCSWSent ==
  /\ pc = "loop" /\ state = "WaitEjectCSW" /\ "TxComplete" \in latched
  /\ state' = "ReadCBW" /\ StayInLoop
  /\ scsi' = [scsi EXCEPT !.ejectPending = FALSE]
  /\ ejected' = ejected + (IF scsi.ejectPending THEN 1 ELSE 0)
  /\ UNCHANGED <<hostVars, epVars, flags, afterZlp, cbw, csw, bufVars, blank, disturbed>>

Worker ==
  \/ WorkerExit \/ WorkerWake \/ WorkerBlankStep \/ NotReady
  \/ ReadBadCBW \/ ReadCBW \/ DataDone \/ ReadData
  \/ WriteDataEnds \/ WriteData \/ WriteZlp
  \/ BuildCSW \/ BackgroundOver \/ WriteCSW \/ EjectCSWSent

-----------------------------------------------------------------------------
(* The USB callbacks and the host.  usb_rxtx_ep_callback runs in the       *)
(* interrupt that reports the packet, so packet and flag are one step.     *)
(* How the controller treats a halt is external to src/: clearing a halt   *)
(* empties the endpoint.                                                   *)

RxCallback == flags' = flags \cup {"RxTx"}
BadTxCallback == flags' = flags \cup {"TxComplete"}   \* the endpoint is not polled
BadTxComplete == flags' = flags \cup {"RxTx"}         \* the event is not told apart
TxCallback == flags' = flags \cup {"RxTx", "TxComplete"}

workerVars == <<pc, latched, state, afterZlp, cbw, csw, bufVars, scsi, blank, ejected>>

\* The host starts a command; a halted OUT endpoint calls for a reset
SendCBW(c) ==
  /\ host.phase = "idle" /\ host.tag < MaxCmds
  /\ LET tag == host.tag + 1
         next(phase) == [phase |-> phase, tag |-> tag, cmd |-> c, left |-> c.hlen,
                         got |-> 0, result |-> NoResult]
     IN IF rxStall
        THEN host' = next("recover") /\ UNCHANGED <<rx, flags>>
        ELSE /\ Len(rx) < RxSlots
             /\ rx' = Append(rx, [kind |-> "cbw", tag |-> tag, cmd |-> c])
             /\ host' = next(IF c.hlen = 0 THEN "status" ELSE IF c.in THEN "in" ELSE "out")
             /\ RxCallback
  /\ UNCHANGED <<aborts, rxStall, tx, txStall, workerVars, disturbed>>

\* The host's data phase to the device, ended early by a halt
SendData ==
  /\ host.phase = "out"
  /\ IF rxStall
     THEN /\ rxStall' = FALSE /\ rx' = <<>> /\ host' = [host EXCEPT !.phase = "status"]
          /\ UNCHANGED flags
     ELSE LET n == Minimum(MaxPacket, host.left) IN
          /\ Len(rx) < RxSlots
          /\ rx' = Append(rx, DataPacket(n, FALSE)) /\ RxCallback
          /\ host' = [host EXCEPT !.left = @ - n,
                                  !.phase = IF host.left = n THEN "status" ELSE "out"]
          /\ UNCHANGED rxStall
  /\ UNCHANGED <<aborts, tx, txStall, workerVars, disturbed>>

\* The data phase from the device, ended by the full length, a short packet or
\* a halt; what is no data of this transfer makes the host recover
TakeData ==
  /\ host.phase = "in"
  /\ IF txStall
     THEN txStall' = FALSE /\ host' = [host EXCEPT !.phase = "status"]
          /\ UNCHANGED <<tx, flags>>
     ELSE /\ tx # NoPacket /\ tx' = NoPacket /\ TxCallback /\ UNCHANGED txStall
          /\ IF tx.kind = "data" /\ tx.len <= host.left
             THEN host' = [host EXCEPT !.left = @ - tx.len, !.got = @ + tx.len,
                             !.phase = IF tx.len < MaxPacket \/ tx.len = host.left
                                       THEN "status" ELSE "in"]
             ELSE host' = [host EXCEPT !.phase = "confused"]
  /\ UNCHANGED <<aborts, rx, rxStall, workerVars, disturbed>>

\* The status phase: a CSW that is not this command's makes the host recover,
\* and so does a phase error
TakeStatus ==
  /\ host.phase = "status"
  /\ IF txStall
     THEN txStall' = FALSE /\ UNCHANGED <<tx, flags, host>>
     ELSE /\ tx # NoPacket /\ tx' = NoPacket /\ TxCallback /\ UNCHANGED txStall
          /\ IF tx.kind = "csw" /\ tx.tag = host.tag
             THEN host' = [host EXCEPT
                    !.phase = IF tx.status = "phase" THEN "recover" ELSE "idle",
                    !.result = [status |-> tx.status, residue |-> tx.residue]]
             ELSE host' = [host EXCEPT !.phase = "confused"]
  /\ UNCHANGED <<aborts, rx, rxStall, workerVars, disturbed>>

\* Nothing the host or the device can do will finish the transfer
Stuck ==
  /\ host.phase \in {"in", "out", "status"}
  /\ pc = "wait" /\ flags = {} /\ ~blank.active /\ state # "WaitBackground"
  /\ IF host.phase = "out" THEN ~rxStall /\ Len(rx) >= RxSlots
                           ELSE ~txStall /\ tx = NoPacket

GiveUp == /\ host' = [host EXCEPT !.phase = "recover"]
          /\ UNCHANGED <<epVars, flags, workerVars, disturbed>>

\* The host's command timer runs out on a transfer that is stuck ...
TimeOutStuck == Stuck /\ GiveUp /\ UNCHANGED aborts

\* ... or on one that would still have finished
TimeOutEarly ==
  /\ host.phase \in {"in", "out", "status"} /\ ~Stuck
  /\ aborts < MaxAborts /\ aborts' = aborts + 1 /\ GiveUp

\* Reset recovery: the class request, acknowledged in usb_control as soon as
\* the worker's flag is set, then the two halts are cleared
BotReset ==
  /\ host.phase \in {"recover", "confused"}
  /\ host' = [host EXCEPT !.phase = "clear"]
  /\ flags' = flags \cup {"Reset"} /\ disturbed' = TRUE
  /\ UNCHANGED <<aborts, epVars, workerVars>>

ClearHalts ==
  /\ host.phase = "clear"
  /\ host' = [host EXCEPT !.phase = "idle"]
  /\ rx' = <<>> /\ rxStall' = FALSE /\ tx' = NoPacket /\ txStall' = FALSE
  /\ UNCHANGED <<aborts, flags, workerVars, disturbed>>

\* usb_suspend: an idle bus raises the same event as a reset
Suspend ==
  /\ host.phase = "idle"
  /\ flags' = flags \cup {"Reset"} /\ disturbed' = TRUE
  /\ UNCHANGED <<hostVars, epVars, workerVars>>

\* usb_deinit, called when the app stops USB: the bus is disconnected, the
\* worker is told to exit and joined
Deinit ==
  /\ host.phase # "gone"
  /\ host' = [host EXCEPT !.phase = "gone"]
  /\ flags' = flags \cup {"Exit"}
  /\ UNCHANGED <<aborts, epVars, workerVars, disturbed>>

\* usb_deinit returns and frees the transport: nothing is left to do
Joined == pc = "done" /\ UNCHANGED vars

HostStep == SendData \/ TakeData \/ TakeStatus \/ TimeOutStuck \/ BotReset \/ ClearHalts

Next ==
  \/ Worker
  \/ \E c \in Commands : SendCBW(c)
  \/ SendData \/ TakeData \/ TakeStatus \/ TimeOutStuck \/ TimeOutEarly
  \/ BotReset \/ ClearHalts \/ Suspend \/ Deinit \/ Joined

Spec == Init /\ [][Next]_vars

\* The worker is a thread of a preemptive scheduler and the host's controller
\* polls; that the host sends commands, gives up early, suspends the bus or
\* that the app leaves is never assumed.
FairSpec == Spec /\ WF_vars(Worker) /\ WF_vars(HostStep)

-----------------------------------------------------------------------------
(* Properties.                                                             *)

PacketType ==
  {NoPacket} \cup [kind : {"cbw"}, tag : Nat, cmd : CommandType]
             \cup [kind : {"data"}, len : Nat, wiped : BOOLEAN]
             \cup [kind : {"csw"}, tag : Nat, status : Status, residue : Nat]

HostType == [phase : {"idle", "in", "out", "status", "recover", "confused", "clear", "gone"},
             tag : Nat, cmd : CommandType, left : Nat, got : Nat,
             result : [status : Status \cup {"none"}, residue : Nat]]
CBWType == [tag : Nat, cmd : CommandType, len : Nat]
CSWType == [kind : {"csw"}, tag : Nat, status : Status, residue : Nat]
ScsiType == [op : Ops, left : Nat, done : BOOLEAN, phaseError : BOOLEAN,
             ejectPending : BOOLEAN]
BlankType == [active : BOOLEAN, immediate : BOOLEAN, failed : BOOLEAN, lba : 0..BlankBlocks]

\* Types of the host, the endpoints, the worker's locals and the SCSI session.
TypeOK ==
  /\ host \in HostType
  /\ aborts \in Nat /\ disturbed \in BOOLEAN /\ ejected \in Nat
  /\ rx \in Seq(PacketType) /\ tx \in PacketType
  /\ rxStall \in BOOLEAN /\ txStall \in BOOLEAN
  /\ flags \subseteq Events /\ latched \subseteq Events
  /\ pc \in {"wait", "loop", "step", "done"}
  /\ state \in States /\ afterZlp \in {"BuildCSW", "WriteCSW"}
  /\ cbw \in CBWType /\ csw \in CSWType
  /\ bufCap \in {0, BufCap} /\ bufLen \in Nat /\ bufSent \in Nat /\ dataSent \in Nat
  /\ wiped \in BOOLEAN
  /\ scsi \in ScsiType
  /\ blank \in BlankType

\* Every copy stays inside the transfer buffer and the announced length: what
\* was sent is in the buffer, what is buffered fits it and does not exceed what
\* remains of the transfer, so buf + buf_len, buf + buf_sent and
\* cbw.len -= buf_len are safe whatever a reset, a failed allocation or a blank
\* step did to the buffer in between.
BufferSafe ==
  /\ bufSent <= bufLen
  /\ state \in {"ReadData", "WriteData"} =>
       bufLen <= Minimum(cbw.len, bufCap) /\ (cbw.len > 0 => bufCap > 0)

\* Until something raises a reset event, the worker never sleeps on work: while
\* it waits with no event pending, the endpoint its state needs is not ready, and
\* an eject that waits for its CSW still has that CSW in the endpoint.  (After a
\* reset a CBW that was still unread is started, and clearing the halt takes its
\* packet from the endpoint without an event.)
NoLostWakeup ==
  ~disturbed /\ pc = "wait" /\ flags = {} =>
    /\ state = "ReadCBW" => ~RxReady
    /\ state = "ReadData" => cbw.len > 0 /\ ~RxReady
    /\ state \in {"WriteData", "WriteZlp", "WriteCSW"} => ~TxReady
    /\ state = "WaitEjectCSW" => tx # NoPacket
    /\ state # "BuildCSW"

\* Until something raises a reset event, host and device agree on the stage of
\* the transfer: data never arrives where a CSW is due, nor a CSW or too much
\* data in the data stage, and each CSW carries the tag of the last CBW.
InSync == ~disturbed => host.phase # "confused"

\* A CSW the host accepts tells the truth: the residue is what a read did not
\* deliver, and GOOD status means the command moved all it asked for.
ResidueTruthful ==
  ~disturbed /\ host.result.status # "none" =>
    /\ host.cmd.in => host.got + host.result.residue = host.cmd.hlen
    /\ host.result.status = "ok" /\ host.cmd.op = "read" => host.got = host.cmd.alen
    /\ host.result.status = "ok" /\ host.cmd.op = "write" =>
         host.result.residue = 0 /\ host.left = 0

\* A transfer never waits for both sides: as long as no reset event was raised
\* and the transfer buffer can be allocated, one of the two can move.
NeverStuck == ~disturbed /\ "alloc" \notin Faults => ~Stuck

\* GOOD status of a BLANK that is not immediate means the medium is wiped.
BlankAckedWhenWiped ==
  ~disturbed /\ host.cmd.op = "blank" /\ host.result.status = "ok" =>
    ~blank.active /\ blank.lba = BlankBlocks

\* No sense poll can see a running blank operation at progress 0: the first
\* step is taken before any status or any further command.
ProgressVisible ==
  blank.active /\ blank.lba = 0 => state = "WaitBackground" /\ pc # "wait"

\* The commands scsi_cmd_start lets through during a blank operation are answered
\* with what they put into the transfer buffer: the blank step that runs between
\* two packets of a reply does not reach the host.
ReplyIntact == tx.kind = "data" => ~tx.wiped

\* The eject callback may tear USB down, so it runs only when the host has taken
\* the CSW of the eject command (the comment in StateWriteCSW).
EjectAfterAck == [][ejected' # ejected => tx = NoPacket]_vars

EjectGood == host.phase = "idle" /\ host.cmd.op = "eject" /\ host.result.status = "ok"

\* An eject acknowledged with GOOD reaches the eject callback, unless a reset
\* event came in between or the app left anyway.
EjectHonoured == EjectGood ~> (ejected > 0 \/ disturbed \/ host.phase = "gone")

\* Every command ends: with a CSW, or with the host's recovery.
CommandsEnd == host.phase \in {"in", "out", "status", "recover", "confused", "clear"}
                 ~> host.phase \in {"idle", "gone"}

\* usb_deinit joins the worker: once told to exit it returns.
ExitJoins == host.phase = "gone" ~> pc = "done"

=============================================================================
