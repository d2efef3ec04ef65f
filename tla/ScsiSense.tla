------------------------------ MODULE ScsiSense ------------------------------
(***************************************************************************)
(* What the host learns of a command that failed and of a BLANK that runs  *)
(* in the background: status, sense data and event notifications           *)
(* (helpers/mass_storage_scsi.c).  One action is one command, from          *)
(* scsi_cmd_start to its status, or one step of the blank operation.       *)
(* BotTransport has the way the bytes take, OpticalRecorder what the       *)
(* commands do to the medium; here a command is what it may be refused for *)
(* and how much of the sense data its handler writes.                      *)
(***************************************************************************)
EXTENDS Naturals

CONSTANTS Devices,    \* of "disk", "locked disk", "ISO", "CD-RW", "audio CD"
          BlankSteps  \* steps a BLANK takes

ASSUME SenseAssumption ==
  /\ Devices \subseteq {"disk", "locked disk", "ISO", "CD-RW", "audio CD"}
  /\ BlankSteps \in Nat \ {0}

VARIABLES
  device,
  sense,      \* scsi->sk and asc as one reason, ascq
  blank,      \* SCSIBlank: active, immediate, failed, the two pending changes, steps done
  waiting,    \* StateWaitBackground: the command whose status is deferred, or "none"
  owed, cause,       \* history: failed commands not asked about, the reason of the last one
  seenBusy,   \* history: the last Device Busy event the host got
  untold,     \* history: a blank operation failed and no sense data told so ...
  covered     \* ... and something else has written the sense data since

hostVars == <<owed, cause, seenBusy, untold, covered>>
vars == <<device, sense, blank, waiting, hostVars>>

Optical == device \in {"ISO", "CD-RW", "audio CD"}
ReadOnly == device \in {"locked disk", "ISO", "audio CD"}
Audio == device = "audio CD"

Free == waiting = "none"

NoSense == [why |-> "none", busy |-> FALSE]
WriteError == [why |-> "write", busy |-> FALSE]

Init ==
  /\ device \in Devices /\ sense = NoSense /\ waiting = "none"
  /\ blank = [active |-> FALSE, immediate |-> FALSE, failed |-> FALSE, change |-> FALSE,
              busyChange |-> FALSE, done |-> 0]
  /\ owed = "none" /\ cause = "none" /\ seenBusy = FALSE /\ untold = FALSE /\ covered = FALSE

-----------------------------------------------------------------------------
(* What a command may be refused for.  A handler sets the sense data with  *)
(* scsi_set_sense ("all"), sets sk and asc and leaves ascq ("code"), or    *)
(* returns false and leaves all three ("none").                            *)

All(why) == [status |-> "nok", how |-> "all", why |-> why]
Code(why) == [status |-> "nok", how |-> "code", why |-> why]
Silent == [status |-> "nok", how |-> "none", why |-> "none"]
PhaseError == [status |-> "phase", how |-> "none", why |-> "none"]

\* Hosts send whole CDBs: the handlers' checks of cmd_len are left out
OnOptical(refusals) == IF Optical THEN refusals ELSE {Silent}
OnWritable(refusals) == IF ReadOnly THEN {Code("protect")} ELSE refusals

\* scsi_start_write, scsi_cmd_rx_data: the card fails without sense data
WriteRefusals == OnWritable({PhaseError, Code("lba"), Silent})

\* MODE SELECT: the page is looked at when all parameters are there
ModeSelectRefusals == {PhaseError, All("field")}

FormatRefusals == OnOptical(OnWritable({Code("field"), PhaseError, Code("list"), Silent}))

CueSheetRefusals == OnOptical(OnWritable({PhaseError}))

BlankRefusals == OnOptical(OnWritable({Code("field"), PhaseError}))

\* READ (10), READ (12)
ReadRefusals == IF Audio THEN {All("mode")} ELSE {All("lba"), PhaseError, All("read")}

\* READ CD, READ CD MSF
ReadCdRefusals ==
  OnOptical({Code("field"), Code("lba"), All("lba"), PhaseError, All("read")}
            \cup IF Audio THEN {All("field")} ELSE {})

\* PLAY AUDIO in its forms, PAUSE/RESUME, STOP PLAY/SCAN, SCAN
PlayRefusals ==
  IF Audio THEN {PhaseError, All("lba"), All("field"), All("mode"), Silent} ELSE {All("opcode")}

InquiryRefusals == {Silent, Code("field")}

ModeSenseRefusals == IF Optical THEN {Code("field")} ELSE {}

TocRefusals == OnOptical({Code("field")} \cup IF Audio THEN {All("field"), Silent} ELSE {})

HeaderRefusals == OnOptical(IF Audio THEN {All("mode")} ELSE {Code("lba")})

ConfigurationRefusals == OnOptical({Code("field")})

TrackRefusals ==
  OnOptical(IF Audio THEN {All("lba"), All("field")} ELSE {Code("lba"), Code("field")})

SubChannelRefusals == OnOptical({Code("field")} \cup IF Audio THEN {Silent} ELSE {})

\* READ BUFFER CAPACITY, GET PERFORMANCE, MECHANISM STATUS, SET CD SPEED
FixedRefusals == OnOptical({})

\* READ DISC INFORMATION: a failed blank operation has left its own sense data
DiscRefusals ==
  OnOptical(IF blank.active THEN {All("busy")}
            ELSE IF blank.failed THEN {Silent} ELSE {Code("field")})

\* SEEK, which an audio CD carries out
SeekRefusals == OnOptical({Code("lba")} \cup IF Audio THEN {All("mode")} ELSE {})

ReserveRefusals == OnOptical({Silent, Code("lba")})

DiagnosticRefusals == OnOptical({Code("field")})

\* CLOSE TRACK/SESSION: other functions, and a sync or a save that fails
CloseRefusals == {Silent}

\* START STOP UNIT that ejects or stops
StopRefusals == {Silent} \cup IF Audio THEN {All("mode")} ELSE {}

\* TEST UNIT READY
ReadyRefusals == IF blank.active THEN {All("busy")} ELSE {Silent}

Refusals ==
  [write |-> WriteRefusals, modeSelect |-> ModeSelectRefusals, format |-> FormatRefusals,
   cueSheet |-> CueSheetRefusals, blank |-> BlankRefusals, blankImmed |-> BlankRefusals,
   read |-> ReadRefusals, readCd |-> ReadCdRefusals, play |-> PlayRefusals,
   sense |-> {Silent}, inquiry |-> InquiryRefusals, modeSense |-> ModeSenseRefusals,
   toc |-> TocRefusals, header |-> HeaderRefusals, configuration |-> ConfigurationRefusals,
   event |-> OnOptical({}), disc |-> DiscRefusals, track |-> TrackRefusals,
   subChannel |-> SubChannelRefusals, fixed |-> FixedRefusals, seek |-> SeekRefusals,
   reserve |-> ReserveRefusals, diagnostic |-> DiagnosticRefusals, close |-> CloseRefusals,
   stop |-> StopRefusals, ready |-> ReadyRefusals, cancel |-> {}, sync |-> {Silent},
   verify |-> {Silent}, unknown |-> {Code("opcode")}]

Commands == DOMAIN Refusals

\* Commands the device never carries out
Never ==
  {"unknown"} \cup (IF Audio THEN {"read", "header"} ELSE {"play"})
  \cup (IF ReadOnly THEN {"write", "format", "cueSheet"} ELSE {})
  \cup (IF Optical THEN {}
        ELSE {"format", "cueSheet", "readCd", "toc", "header", "configuration", "track",
              "subChannel", "fixed", "seek", "reserve", "diagnostic", "close"})

\* scsi_cmd_start: what it lets through while a blank operation runs
Pollable == {"cancel", "ready", "sense", "inquiry", "configuration", "event", "disc"}

\* TEST UNIT READY succeeds
Ready == ~blank.active /\ ~blank.failed

RefusalsOf(op) ==
  IF blank.active /\ op \notin Pollable THEN {All("busy")}
  ELSE IF op = "ready" /\ Ready THEN {} ELSE Refusals[op]

\* What a refusal makes of the sense data
SetSense(old, r) ==
  CASE r.how = "all"  -> [why |-> r.why, busy |-> r.why = "busy"]
    [] r.how = "code" -> [old EXCEPT !.why = r.why]
    [] OTHER -> old

-----------------------------------------------------------------------------
(* The blank operation, as far as a host can tell.                         *)

StartBlank(immediate) ==
  [active |-> TRUE, immediate |-> immediate, failed |-> FALSE, change |-> TRUE,
   busyChange |-> TRUE, done |-> 0]

BadFinishBlank(b, success) ==        \* the host is not told that the drive is free again
  [b EXCEPT !.active = FALSE, !.failed = ~success, !.change = TRUE]

\* scsi_finish_blank, scsi_blank_cancel
FinishBlank(b, success) ==
  [b EXCEPT !.active = FALSE, !.failed = ~success, !.change = TRUE, !.busyChange = TRUE]

BadSenseAfter(b) == IF b.failed THEN WriteError ELSE sense     \* old data stay

\* The sense data when b is over, or what they are while it runs
SenseAfter(b) == IF b.active THEN sense ELSE IF b.failed THEN WriteError ELSE NoSense

\* scsi_blank_step: it goes on, is done, or fails - in the write, the sync or the save
BlankStep(b) ==
  {FinishBlank(b, FALSE)}
  \cup {IF b.done + 1 = BlankSteps THEN FinishBlank([b EXCEPT !.done = @ + 1], TRUE)
        ELSE [b EXCEPT !.done = @ + 1]}

\* History of a blank operation that was old, and is b from now on
Note(old, b) ==
  /\ untold' = (IF old.active /\ ~b.active THEN b.failed ELSE untold /\ ~b.active)
  /\ covered' = (IF old.active \/ b.active THEN FALSE ELSE covered)

-----------------------------------------------------------------------------
(* Commands.                                                               *)

Count == [none |-> "one", one |-> "many", many |-> "many"]

\* A command ends without GOOD status, o before it are not asked about
Fail(why, o) == owed' = Count[o] /\ cause' = why

Refuse(op) ==
  /\ Free
  /\ \E r \in RefusalsOf(op) :
       /\ sense' = SetSense(sense, r)
       /\ IF r.status = "nok" THEN Fail(r.why, owed) ELSE UNCHANGED <<owed, cause>>
       /\ covered' = (covered \/ r.how # "none")
  /\ UNCHANGED <<device, blank, waiting, seenBusy, untold>>

\* GOOD, unless a blank operation runs: then the status is deferred, or the operation
\* takes a step first.  The operation is b by then, the sense data s, and o of the
\* commands that failed are not asked about
Complete(op, b, s, o) ==
  /\ \/ /\ ~b.active \/ ~b.immediate
        /\ blank' = b /\ sense' = s /\ owed' = o /\ UNCHANGED cause
        /\ waiting' = (IF b.active THEN op ELSE "none")
     \/ /\ b.active /\ UNCHANGED waiting
        /\ blank' \in IF b.immediate THEN BlankStep(b) ELSE {FinishBlank(b, FALSE)}
        /\ sense' = (IF blank'.active THEN s ELSE SenseAfter(blank'))
        /\ IF blank'.failed THEN Fail("write", o) ELSE owed' = o /\ UNCHANGED cause
  /\ Note(b, blank')

\* Commands that neither start, end nor report a blank operation
Plain == Commands \ {"blank", "blankImmed", "cancel", "sense", "event", "disc"}

Succeed(op) ==
  /\ Free /\ op \in Plain \ Never /\ (blank.active => op \in Pollable)
  /\ op = "ready" => Ready
  /\ Complete(op, blank, sense, owed) /\ UNCHANGED <<device, seenBusy>>

Blank(immediate) ==
  /\ Free /\ device = "CD-RW" /\ ~blank.active
  /\ Complete(IF immediate THEN "blankImmed" ELSE "blank", StartBlank(immediate), NoSense, owed)
  /\ UNCHANGED <<device, seenBusy>>

\* START STOP UNIT in the form that cancels a blank operation; without one it does nothing
Cancel ==
  /\ Free
  /\ IF ~blank.active
     THEN UNCHANGED <<sense, blank, owed, cause, untold, covered>>
     ELSE \E synced \in BOOLEAN :
            /\ blank' = FinishBlank(blank, synced) /\ sense' = SenseAfter(blank')
            /\ Note(blank, blank')
            /\ IF synced THEN UNCHANGED <<owed, cause>> ELSE Fail("write", owed)
  /\ UNCHANGED <<device, waiting, seenBusy>>

\* REQUEST SENSE clears the failure of the operation it reports
Told(b) == IF b.active THEN b ELSE [b EXCEPT !.failed = FALSE]

\* ... and the sense data
Cleared == NoSense

\* What REQUEST SENSE returns
Reply == IF blank.active THEN [why |-> "busy", busy |-> TRUE] ELSE sense

Sense ==
  /\ Free
  /\ IF ~blank.active
     THEN /\ blank' = Told(blank) /\ sense' = Cleared /\ owed' = "none"
          /\ untold' = (untold /\ Reply # WriteError)
          /\ UNCHANGED <<cause, waiting, covered>>
     ELSE Complete("sense", blank, Cleared, "none")
  /\ UNCHANGED <<device, seenBusy>>

\* READ DISC INFORMATION; while an immediate blank runs, UltraISO's form of it is answered
Disc ==
  /\ Free /\ Optical /\ ~blank.failed /\ (blank.active => blank.immediate)
  /\ Complete("disc", blank, sense, owed) /\ UNCHANGED <<device, seenBusy>>

\* GET EVENT STATUS NOTIFICATION with the classes asked for
Event(classes) ==
  /\ Free /\ Optical
  /\ LET changed == "change" \in classes /\ blank.change
         busy    == ~changed /\ "busy" \in classes /\ (blank.busyChange \/ blank.active)
         free    == ~changed /\ classes = {"busy"} /\ ~busy
     IN /\ seenBusy' = IF busy THEN blank.active ELSE IF free THEN FALSE ELSE seenBusy
        /\ Complete("event", [blank EXCEPT !.change = @ /\ ~changed,
                                           !.busyChange = @ /\ ~busy], sense, owed)
  /\ UNCHANGED device

\* The blank operation goes on between commands
Background ==
  /\ blank.active
  /\ blank' \in BlankStep(blank) /\ sense' = SenseAfter(blank') /\ Note(blank, blank')
  /\ UNCHANGED <<device, waiting, owed, cause, seenBusy>>

\* StateWaitBackground: the deferred status of BLANK
Deferred ==
  /\ ~Free /\ ~blank.active /\ waiting' = "none"
  /\ IF blank.failed THEN Fail("write", owed) ELSE UNCHANGED <<owed, cause>>
  /\ UNCHANGED <<device, sense, blank, seenBusy, untold, covered>>

\* EventReset: a suspended bus, or the host's BOT reset
Reset ==
  /\ sense' = NoSense /\ waiting' = "none" /\ covered' = TRUE
  /\ UNCHANGED <<device, blank, owed, cause, seenBusy, untold>>

Classes == {"change", "busy", "media"}

Next ==
  \/ \E op \in Commands : Refuse(op) \/ Succeed(op)
  \/ \E immediate \in BOOLEAN : Blank(immediate)
  \/ Cancel \/ Sense \/ Disc \/ (\E classes \in SUBSET Classes : Event(classes))
  \/ Background \/ Deferred \/ Reset

Spec == Init /\ [][Next]_vars

-----------------------------------------------------------------------------
(* Properties.                                                             *)

Reasons == {"none", "busy", "write", "read", "protect", "field", "list", "lba", "opcode", "mode"}
SenseType == [why : Reasons, busy : BOOLEAN]
BlankType == [active : BOOLEAN, immediate : BOOLEAN, failed : BOOLEAN, change : BOOLEAN,
              busyChange : BOOLEAN, done : 0..BlankSteps]

\* Types of the sense data, the blank operation and the history.
TypeOK ==
  /\ device \in Devices /\ sense \in SenseType /\ waiting \in Commands \cup {"none"}
  /\ blank \in BlankType
  /\ owed \in DOMAIN Count /\ cause \in Reasons
  /\ seenBusy \in BOOLEAN /\ untold \in BOOLEAN /\ covered \in BOOLEAN

\* REQUEST SENSE tells the truth although handlers write the sense data in parts or not
\* at all: "operation in progress" while a blank operation runs and only then, and for a
\* host that asks after each failure nothing but the reason of that failure, or that a
\* blank operation failed.
SenseTruthful ==
  /\ blank.active <=> Reply.why = "busy"
  /\ blank.active <=> Reply.busy
  /\ ~blank.active /\ Reply.why # "none" /\ owed # "many" =>
       \/ Reply.why = "write" /\ blank.failed
       \/ Reply.why = cause /\ owed = "one"

\* A host that waits for the end of a BLANK learns how it ended: TEST UNIT READY does
\* not succeed on a medium half wiped before the failure was reported (unless another
\* failure or a reset has written the sense data in between), and one that was last
\* told "busy" has news waiting once the drive is free.
BlankOutcomeTold ==
  /\ Ready => ~untold \/ covered
  /\ seenBusy /\ ~blank.active => blank.busyChange

=============================================================================
