--------------------------- MODULE ScsiSense_proofs ---------------------------
(***************************************************************************)
(* Proofs about ScsiSense: what REQUEST SENSE and the event notifications  *)
(* tell, for any number of commands in any order on any set of devices and *)
(* any length of a BLANK.                                                  *)
(***************************************************************************)
EXTENDS ScsiSense, TLAPS

-----------------------------------------------------------------------------
(* The inductive invariant.                                                *)

\* A running blank operation is not over by its count, nor failed.
RunningInv == blank.active => blank.done < BlankSteps /\ ~blank.failed

\* The sense data name a running operation only while one runs.
BusyInv == sense.why = "busy" \/ sense.busy => blank.active

\* What else the sense data name is the last failure, or that of a blank operation.
ReasonInv ==
  ~blank.active /\ sense.why # "none" /\ owed # "many" =>
    \/ sense.why = "write" /\ blank.failed
    \/ sense.why = cause /\ owed = "one"

\* A failure that nothing has told of or covered is what the sense data name, and the
\* next REQUEST SENSE tells.
UntoldInv == ~blank.active /\ untold /\ ~covered => blank.failed /\ sense = WriteError

\* The end of a blank operation is news for who was last told "busy".
NewsInv == seenBusy /\ ~blank.active => blank.busyChange

IInv == TypeOK /\ RunningInv /\ BusyInv /\ ReasonInv /\ UntoldInv /\ NewsInv

-----------------------------------------------------------------------------
(* Refusals.                                                               *)

\* A refusal that writes the sense data names a reason, and "operation in progress" only
\* in full and only while one runs.
Sound ==
  {r \in [status : {"nok", "phase"}, how : {"all", "code", "none"}, why : Reasons] :
     /\ r.why = "busy" => r.how = "all" /\ blank.active
     /\ r.status = "phase" => r.how = "none"}

LEMMA AllSound ==
  ASSUME NEW why \in Reasons, why = "busy" => blank.active
  PROVE  All(why) \in Sound
BY DEF All, Sound

LEMMA CodeSound ==
  ASSUME NEW why \in Reasons, why # "busy"
  PROVE  Code(why) \in Sound
BY DEF Code, Sound

LEMMA SilentSound == Silent \in Sound
BY DEF Silent, Sound, Reasons

LEMMA PhaseSound == PhaseError \in Sound
BY DEF PhaseError, Sound, Reasons

\* The refusals of READ, READ CD and the audio commands are sound.
LEMMA PlaySound ==
  /\ ReadRefusals \subseteq Sound /\ ReadCdRefusals \subseteq Sound
  /\ PlayRefusals \subseteq Sound /\ SubChannelRefusals \subseteq Sound
  /\ TocRefusals \subseteq Sound /\ HeaderRefusals \subseteq Sound
  /\ TrackRefusals \subseteq Sound /\ SeekRefusals \subseteq Sound
  /\ StopRefusals \subseteq Sound
<1> Reasons = {"none", "busy", "write", "read", "protect", "field", "list", "lba", "opcode", "mode"}
  BY DEF Reasons
<1>1. /\ All("mode") \in Sound /\ All("lba") \in Sound /\ All("read") \in Sound
      /\ All("field") \in Sound /\ All("opcode") \in Sound
  BY AllSound
<1>2. Code("field") \in Sound /\ Code("lba") \in Sound
  BY CodeSound
<1> QED
  BY <1>1, <1>2, SilentSound, PhaseSound
     DEF ReadRefusals, ReadCdRefusals, PlayRefusals, SubChannelRefusals, TocRefusals,
         HeaderRefusals, TrackRefusals, SeekRefusals, StopRefusals, OnOptical

\* ... those of commands that write or change the medium
LEMMA WriteSound ==
  /\ WriteRefusals \subseteq Sound /\ ModeSelectRefusals \subseteq Sound
  /\ FormatRefusals \subseteq Sound /\ CueSheetRefusals \subseteq Sound
  /\ BlankRefusals \subseteq Sound /\ CloseRefusals \subseteq Sound
  /\ ReserveRefusals \subseteq Sound
<1> Reasons = {"none", "busy", "write", "read", "protect", "field", "list", "lba", "opcode", "mode"}
  BY DEF Reasons
<1>1. All("field") \in Sound
  BY AllSound
<1>2. /\ Code("field") \in Sound /\ Code("lba") \in Sound /\ Code("list") \in Sound
      /\ Code("protect") \in Sound
  BY CodeSound
<1> QED
  BY <1>1, <1>2, SilentSound, PhaseSound
     DEF WriteRefusals, ModeSelectRefusals, FormatRefusals, CueSheetRefusals, BlankRefusals,
         CloseRefusals, ReserveRefusals, OnOptical, OnWritable

\* ... and those of commands that ask for something.
LEMMA ReplySound ==
  /\ InquiryRefusals \subseteq Sound /\ ModeSenseRefusals \subseteq Sound
  /\ ConfigurationRefusals \subseteq Sound /\ FixedRefusals \subseteq Sound
  /\ DiscRefusals \subseteq Sound /\ DiagnosticRefusals \subseteq Sound
  /\ ReadyRefusals \subseteq Sound /\ OnOptical({}) \subseteq Sound
<1> Reasons = {"none", "busy", "write", "read", "protect", "field", "list", "lba", "opcode", "mode"}
  BY DEF Reasons
<1>1. blank.active => All("busy") \in Sound
  BY AllSound
<1>2. Code("field") \in Sound
  BY CodeSound
<1> QED
  BY <1>1, <1>2, SilentSound
     DEF InquiryRefusals, ModeSenseRefusals, ConfigurationRefusals, FixedRefusals,
         DiscRefusals, DiagnosticRefusals, ReadyRefusals, OnOptical

\* Every refusal of every command is sound.
LEMMA RefusalsSound ==
  ASSUME NEW op \in Commands, NEW r \in RefusalsOf(op)
  PROVE  r \in Sound
<1>1. CASE blank.active /\ op \notin Pollable
  <2>1. "busy" \in Reasons
    BY DEF Reasons
  <2> QED
    BY <1>1, <2>1, AllSound DEF RefusalsOf
<1>2. CASE ~(blank.active /\ op \notin Pollable)
  <2>1. "opcode" \in Reasons
    BY DEF Reasons
  <2>2. Code("opcode") \in Sound
    BY <2>1, CodeSound
  <2>3. Refusals[op] \subseteq Sound
    BY <2>2, PlaySound, WriteSound, ReplySound, SilentSound DEF Commands, Refusals
  <2> QED
    BY <1>2, <2>3 DEF RefusalsOf
<1> QED
  BY <1>1, <1>2

\* What a refusal makes of the sense data: they name its reason or stay as they are, and
\* they say "operation in progress" only when they did before, or one runs.
LEMMA SetSenseSound ==
  ASSUME TypeOK, BusyInv, NEW r \in Sound
  PROVE  /\ SetSense(sense, r) \in SenseType
         /\ SetSense(sense, r).why = "busy" \/ SetSense(sense, r).busy => blank.active
         /\ \/ SetSense(sense, r).why = r.why
            \/ SetSense(sense, r) = sense
         /\ r.how = "none" => SetSense(sense, r) = sense
<1> DEFINE s == SetSense(sense, r)
<1>1. sense \in SenseType /\ r.why \in Reasons
  BY DEF TypeOK, Sound
<1>2. CASE r.how = "all"
  <2>1. s = [why |-> r.why, busy |-> r.why = "busy"]
    BY <1>2 DEF SetSense
  <2> QED
    <3>1. s.why = r.why /\ s.busy = (r.why = "busy")
      BY <2>1
    <3>2. s \in SenseType
      BY <1>1, <2>1 DEF SenseType
    <3>3. r.why = "busy" => blank.active
      BY DEF Sound
    <3> QED
      BY <1>2, <3>1, <3>2, <3>3
<1>3. CASE r.how = "code"
  <2>1. s = [sense EXCEPT !.why = r.why]
    BY <1>3 DEF SetSense
  <2>2. s \in SenseType /\ s.why = r.why /\ s.busy = sense.busy
    BY <1>1, <2>1 DEF SenseType
  <2>3. r.why # "busy"
    BY <1>3 DEF Sound
  <2> QED
    BY <1>3, <2>2, <2>3 DEF BusyInv
<1>4. CASE r.how \notin {"all", "code"}
  <2>1. s = sense
    BY <1>4 DEF SetSense
  <2> QED
    BY <1>1, <2>1, <1>4 DEF BusyInv
<1> QED
  BY <1>2, <1>3, <1>4

-----------------------------------------------------------------------------
(* The blank operation.                                                    *)

LEMMA StepsPositive == BlankSteps \in Nat /\ 0 < BlankSteps
<1>1. BlankSteps \in Nat \ {0}
  BY Zenon, SenseAssumption DEF SenseAssumption
<1> QED
  BY <1>1

LEMMA FinishFields ==
  ASSUME NEW b \in BlankType, NEW success \in BOOLEAN
  PROVE  /\ FinishBlank(b, success) \in BlankType /\ ~FinishBlank(b, success).active
         /\ FinishBlank(b, success).failed = ~success /\ FinishBlank(b, success).busyChange
<1>1. FinishBlank(b, success) \in BlankType
  BY DEF BlankType, FinishBlank
<1>2. ~FinishBlank(b, success).active
  BY DEF BlankType, FinishBlank
<1>3. FinishBlank(b, success).failed = ~success
  BY DEF BlankType, FinishBlank
<1>4. FinishBlank(b, success).busyChange
  BY DEF BlankType, FinishBlank
<1> QED
  BY <1>1, <1>2, <1>3, <1>4

\* What any step of a blank operation leaves: it goes on, or is over and news.
After(b, n) ==
  /\ n \in BlankType
  /\ n.active => n.done < BlankSteps /\ ~n.failed
  /\ ~n.active => n.busyChange

LEMMA StepSound ==
  ASSUME NEW b \in BlankType, b.active, b.done < BlankSteps, ~b.failed, NEW n \in BlankStep(b)
  PROVE  After(b, n)
<1> DEFINE g == [b EXCEPT !.done = @ + 1]
<1>0. b.done + 1 \in 0..BlankSteps
  BY StepsPositive DEF BlankType
<1>1. g \in BlankType /\ g.done = b.done + 1 /\ g.active = b.active /\ g.failed = b.failed
  BY <1>0 DEF BlankType
<1>2. n \in {FinishBlank(b, FALSE), FinishBlank(g, TRUE)} \/ (n = g /\ b.done + 1 # BlankSteps)
  BY DEF BlankStep
<1> HIDE DEF g
<1>3. CASE n \in {FinishBlank(b, FALSE), FinishBlank(g, TRUE)}
  BY <1>1, <1>3, FinishFields DEF After
<1>4. CASE n = g /\ b.done + 1 # BlankSteps
  <2>1. b.done \in Nat
    BY DEF BlankType
  <2>2. n.done < BlankSteps
    BY <1>1, <1>4, <2>1, StepsPositive
  <2> QED
    BY <1>1, <1>4, <2>2 DEF After
<1> QED
  BY <1>2, <1>3, <1>4

LEMMA StartSound ==
  ASSUME NEW immediate \in BOOLEAN
  PROVE  /\ StartBlank(immediate) \in BlankType /\ StartBlank(immediate).active
         /\ After(StartBlank(immediate), StartBlank(immediate))
<1> DEFINE b == StartBlank(immediate)
<1>1. b.active /\ ~b.failed
  BY DEF StartBlank
<1>2. b.done = 0 /\ 0 \in 0..BlankSteps
  BY StepsPositive DEF StartBlank
<1>3. b \in BlankType
  BY <1>2 DEF StartBlank, BlankType
<1>4. b.done < BlankSteps
  BY <1>2, StepsPositive
<1> QED
  BY <1>1, <1>3, <1>4 DEF After

\* The sense data at the end of a blank operation tell how it ended.
LEMMA SenseAfterSound ==
  ASSUME TypeOK, NEW n \in BlankType, ~n.active
  PROVE  /\ SenseAfter(n) \in SenseType /\ SenseAfter(n).why # "busy" /\ ~SenseAfter(n).busy
         /\ n.failed => SenseAfter(n) = WriteError
         /\ ~n.failed => SenseAfter(n).why = "none"
         /\ SenseAfter(n).why # "none" => n.failed /\ SenseAfter(n).why = "write"
BY DEF SenseAfter, WriteError, NoSense, SenseType, Reasons

\* What the invariant says of a blank operation that has just ended.
LEMMA OverSound ==
  ASSUME TypeOK, NEW old \in BlankType,
         blank' \in BlankType, ~blank'.active, blank'.busyChange,
         sense' = SenseAfter(blank'), old.active, Note(old, blank')
  PROVE  /\ sense' \in SenseType /\ untold' \in BOOLEAN /\ covered' \in BOOLEAN
         /\ RunningInv' /\ BusyInv' /\ ReasonInv' /\ UntoldInv' /\ NewsInv'
<1>1. /\ sense' \in SenseType /\ sense'.why # "busy" /\ ~sense'.busy
      /\ blank'.failed => sense' = WriteError
      /\ sense'.why # "none" => blank'.failed /\ sense'.why = "write"
  BY SenseAfterSound
<1>2. untold' = blank'.failed /\ covered' = FALSE
  BY DEF Note
<1>3. untold' \in BOOLEAN /\ covered' \in BOOLEAN
  BY <1>2 DEF BlankType
<1> QED
  BY <1>1, <1>2, <1>3 DEF RunningInv, BusyInv, ReasonInv, UntoldInv, NewsInv

LEMMA CountTyped == \A o \in DOMAIN Count : Count[o] \in DOMAIN Count
BY DEF Count

\* Commands are the same in every state, as the names of the refusals.
LEMMA CommandsFixed == Commands' = Commands
BY DEF Commands, Refusals

LEMMA Typed ==
  ASSUME device' \in Devices, sense' \in SenseType, waiting' \in Commands \cup {"none"},
         blank' \in BlankType, owed' \in DOMAIN Count, cause' \in Reasons,
         seenBusy' \in BOOLEAN, untold' \in BOOLEAN, covered' \in BOOLEAN
  PROVE  TypeOK'
BY CommandsFixed DEF TypeOK

-----------------------------------------------------------------------------
(* Actions.                                                                *)

LEMMA InitSound == Init => IInv
<1> SUFFICES ASSUME Init
             PROVE  IInv
  OBVIOUS
<1>1. blank \in BlankType /\ ~blank.active
  <2>1. 0 \in 0..BlankSteps
    BY StepsPositive
  <2> QED
    BY <2>1 DEF Init, BlankType
<1>2. sense \in SenseType /\ sense.why = "none" /\ ~sense.busy
  BY DEF Init, NoSense, SenseType, Reasons
<1>3. owed \in DOMAIN Count /\ cause \in Reasons
  BY DEF Init, Count, Reasons
<1>4. TypeOK
  BY <1>1, <1>2, <1>3 DEF Init, TypeOK, BlankType
<1> QED
  BY <1>1, <1>2, <1>4 DEF Init, IInv, RunningInv, BusyInv, ReasonInv, UntoldInv, NewsInv

LEMMA RefuseSound ==
  ASSUME IInv, NEW op \in Commands, Refuse(op)
  PROVE  IInv'
<1> USE DEF IInv
<1>1. PICK r \in RefusalsOf(op) :
        /\ sense' = SetSense(sense, r)
        /\ IF r.status = "nok" THEN Fail(r.why, owed) ELSE UNCHANGED <<owed, cause>>
        /\ covered' = (covered \/ r.how # "none")
  BY DEF Refuse
<1>2. UNCHANGED <<device, blank, waiting, seenBusy, untold>>
  BY DEF Refuse
<1>3. r \in Sound
  BY RefusalsSound
<1>4. /\ sense' \in SenseType /\ (sense'.why = "busy" \/ sense'.busy => blank.active)
      /\ sense'.why = r.why \/ sense' = sense
      /\ r.how = "none" => sense' = sense
  BY <1>1, <1>3, SetSenseSound
<1>5. r.why \in Reasons /\ r.status \in {"nok", "phase"} /\ (r.status = "phase" => r.how = "none")
  BY <1>3 DEF Sound
<1>6. owed' \in DOMAIN Count /\ cause' \in Reasons /\ covered' \in BOOLEAN
  BY <1>1, <1>5, CountTyped DEF Fail, TypeOK
<1>7. TypeOK'
  BY <1>2, <1>4, <1>6, Typed DEF TypeOK
<1>8. ReasonInv'
  <2>1. CASE r.status = "nok"
    <3>1. owed' = Count[owed] /\ cause' = r.why
      BY <1>1, <2>1 DEF Fail
    <3>2. owed' # "none" /\ (owed' = "one" => owed = "none")
      BY <3>1 DEF Count, TypeOK
    <3> QED
      BY <1>2, <1>4, <3>1, <3>2 DEF ReasonInv, TypeOK, Count
  <2>2. CASE r.status # "nok"
    BY <1>1, <1>2, <1>4, <1>5, <2>2 DEF ReasonInv
  <2> QED
    BY <2>1, <2>2
<1>9. UntoldInv'
  <2>1. SUFFICES ASSUME ~blank'.active, untold', ~covered'
                 PROVE  blank'.failed /\ sense' = WriteError
    BY DEF UntoldInv
  <2>2. ~covered /\ r.how = "none"
    BY <1>1, <2>1
  <2> QED
    BY <1>2, <1>4, <2>1, <2>2 DEF UntoldInv
<1> QED
  BY <1>2, <1>4, <1>7, <1>8, <1>9 DEF RunningInv, BusyInv, NewsInv

\* Complete, for an operation b and sense data s that the invariant allows.
LEMMA CompleteSound ==
  ASSUME IInv, NEW op \in Commands, NEW b \in BlankType, NEW s \in SenseType,
         NEW o \in DOMAIN Count, Complete(op, b, s, o),
         b.active => b.done < BlankSteps /\ ~b.failed,
         s.why = "busy" \/ s.busy => b.active,
         ~b.active => ~blank.active /\ b.failed = blank.failed /\ s = sense /\ o = owed,
         device' = device, seenBusy' \in BOOLEAN, seenBusy' /\ ~b.active => b.busyChange
  PROVE  IInv'
<1> USE DEF IInv
<1>1. Note(b, blank')
  BY DEF Complete
<1>2. CASE /\ ~b.active \/ ~b.immediate
           /\ blank' = b /\ sense' = s /\ owed' = o /\ UNCHANGED cause
           /\ waiting' = (IF b.active THEN op ELSE "none")
  <2>1. /\ untold' = (untold /\ ~b.active) /\ covered' = (IF b.active THEN FALSE ELSE covered)
    BY <1>1, <1>2 DEF Note
  <2>2. untold' \in BOOLEAN /\ covered' \in BOOLEAN
    BY <2>1 DEF TypeOK
  <2>3. waiting' \in Commands \cup {"none"}
    BY <1>2
  <2>4. TypeOK'
    <3>1. owed' \in DOMAIN Count /\ cause' \in Reasons /\ device' \in Devices
      BY <1>2 DEF TypeOK
    <3> QED
      BY <1>2, <2>2, <2>3, <3>1, Typed DEF TypeOK
  <2>5. RunningInv' /\ BusyInv' /\ NewsInv'
    BY <1>2 DEF RunningInv, BusyInv, NewsInv
  <2>6. ReasonInv' /\ UntoldInv'
    BY <1>2, <2>1 DEF ReasonInv, UntoldInv
  <2> QED
    BY <2>4, <2>5, <2>6
<1>3. CASE /\ b.active /\ UNCHANGED waiting
           /\ blank' \in IF b.immediate THEN BlankStep(b) ELSE {FinishBlank(b, FALSE)}
           /\ sense' = (IF blank'.active THEN s ELSE SenseAfter(blank'))
           /\ IF blank'.failed THEN Fail("write", o) ELSE owed' = o /\ UNCHANGED cause
  <2>1. blank' \in BlankStep(b)
    BY <1>3 DEF BlankStep
  <2>2. After(b, blank')
    BY <1>3, <2>1, StepSound
  <2>3. owed' \in DOMAIN Count /\ cause' \in Reasons
    BY <1>3, CountTyped DEF Fail, TypeOK, Reasons
  <2>4. CASE blank'.active
    <3>1. sense' = s /\ untold' = FALSE /\ covered' = FALSE
      BY <1>1, <1>3, <2>4 DEF Note
    <3>2. TypeOK'
      <4>1. blank' \in BlankType
        BY <2>2 DEF After
      <4>2. untold' \in BOOLEAN /\ covered' \in BOOLEAN
        BY <3>1
      <4>3. waiting' \in Commands \cup {"none"} /\ device' \in Devices
        BY <1>3 DEF TypeOK
      <4> QED
        BY <2>3, <3>1, <4>1, <4>2, <4>3, Typed
    <3> QED
      BY <2>2, <2>4, <3>1, <3>2
         DEF After, RunningInv, BusyInv, ReasonInv, UntoldInv, NewsInv
  <2>5. CASE ~blank'.active
    <3>1. sense' = SenseAfter(blank') /\ blank' \in BlankType /\ blank'.busyChange
      BY <1>3, <2>2, <2>5 DEF After
    <3>2. /\ sense' \in SenseType /\ untold' \in BOOLEAN /\ covered' \in BOOLEAN
          /\ RunningInv' /\ BusyInv' /\ ReasonInv' /\ UntoldInv' /\ NewsInv'
      BY <1>1, <1>3, <2>5, <3>1, OverSound
    <3>3. TypeOK'
      <4>1. waiting' \in Commands \cup {"none"} /\ device' \in Devices
        BY <1>3 DEF TypeOK
      <4> QED
        BY <2>3, <3>1, <3>2, <4>1, Typed
    <3> QED
      BY <3>2, <3>3
  <2> QED
    BY <2>4, <2>5
<1> QED
  BY <1>2, <1>3 DEF Complete

LEMMA SucceedSound ==
  ASSUME IInv, NEW op \in Commands, Succeed(op)
  PROVE  IInv'
<1>1. Complete(op, blank, sense, owed) /\ UNCHANGED <<device, seenBusy>>
  BY DEF Succeed
<1>2. blank \in BlankType /\ sense \in SenseType /\ owed \in DOMAIN Count /\ seenBusy' \in BOOLEAN
  BY <1>1 DEF IInv, TypeOK
<1>3. seenBusy' /\ ~blank.active => blank.busyChange
  BY <1>1 DEF IInv, NewsInv
<1> QED
  BY <1>1, <1>2, <1>3, CompleteSound DEF IInv, RunningInv, BusyInv

LEMMA DiscSound ==
  ASSUME IInv, Disc
  PROVE  IInv'
<1>1. Complete("disc", blank, sense, owed) /\ UNCHANGED <<device, seenBusy>>
  BY DEF Disc
<1>2. blank \in BlankType /\ sense \in SenseType /\ owed \in DOMAIN Count /\ seenBusy' \in BOOLEAN
  BY <1>1 DEF IInv, TypeOK
<1>3. seenBusy' /\ ~blank.active => blank.busyChange
  BY <1>1 DEF IInv, NewsInv
<1>4. "disc" \in Commands
  BY DEF Commands, Refusals
<1> QED
  BY <1>1, <1>2, <1>3, <1>4, CompleteSound DEF IInv, RunningInv, BusyInv

LEMMA BlankSound ==
  ASSUME IInv, NEW immediate \in BOOLEAN, Blank(immediate)
  PROVE  IInv'
<1> DEFINE b == StartBlank(immediate)
           op == IF immediate THEN "blankImmed" ELSE "blank"
<1>1. Complete(op, b, NoSense, owed) /\ UNCHANGED <<device, seenBusy>>
  BY DEF Blank
<1>2. b \in BlankType /\ b.active /\ b.done < BlankSteps /\ ~b.failed
  BY StartSound DEF After
<1>3. NoSense \in SenseType /\ NoSense.why # "busy" /\ ~NoSense.busy
  BY DEF NoSense, SenseType, Reasons
<1>4. op \in Commands
  BY DEF Commands, Refusals
<1>5. owed \in DOMAIN Count /\ seenBusy' \in BOOLEAN
  BY <1>1 DEF IInv, TypeOK
<1> HIDE DEF b, op
<1> QED
  BY <1>1, <1>2, <1>3, <1>4, <1>5, CompleteSound

LEMMA EventSound ==
  ASSUME IInv, NEW classes \in SUBSET Classes, Event(classes)
  PROVE  IInv'
<1> USE DEF IInv
<1> DEFINE changed == "change" \in classes /\ blank.change
           busy    == ~changed /\ "busy" \in classes /\ (blank.busyChange \/ blank.active)
           free    == ~changed /\ classes = {"busy"} /\ ~busy
           b       == [blank EXCEPT !.change = @ /\ ~changed, !.busyChange = @ /\ ~busy]
<1>1. /\ seenBusy' = IF busy THEN blank.active ELSE IF free THEN FALSE ELSE seenBusy
      /\ Complete("event", b, sense, owed) /\ device' = device
  BY DEF Event
<1>2. blank \in BlankType /\ sense \in SenseType /\ owed \in DOMAIN Count /\ seenBusy \in BOOLEAN
  BY DEF TypeOK
<1>3. /\ blank.active \in BOOLEAN /\ blank.change \in BOOLEAN /\ blank.busyChange \in BOOLEAN
      /\ changed \in BOOLEAN /\ busy \in BOOLEAN
  BY <1>2 DEF BlankType
<1>4. b \in BlankType
  BY <1>2, <1>3 DEF BlankType
<1>5. b.active = blank.active /\ b.failed = blank.failed /\ b.done = blank.done
  BY <1>2 DEF BlankType
<1>6. b.busyChange = (blank.busyChange /\ ~busy)
  BY <1>2 DEF BlankType
<1>7. seenBusy' \in BOOLEAN
  BY <1>1, <1>2, <1>3
<1>8. seenBusy' /\ ~b.active => b.busyChange
  BY <1>1, <1>2, <1>3, <1>5, <1>6 DEF NewsInv
<1>9. "event" \in Commands
  BY DEF Commands, Refusals
<1> HIDE DEF changed, busy, free, b
<1>10. /\ b.active => b.done < BlankSteps /\ ~b.failed
       /\ sense.why = "busy" \/ sense.busy => b.active
  BY <1>5 DEF RunningInv, BusyInv
<1> QED
  BY <1>1, <1>2, <1>4, <1>5, <1>7, <1>8, <1>9, <1>10, CompleteSound

LEMMA SenseSound ==
  ASSUME IInv, Sense
  PROVE  IInv'
<1> USE DEF IInv
<1>1. NoSense \in SenseType /\ NoSense.why = "none" /\ ~NoSense.busy
  BY DEF NoSense, SenseType, Reasons
<1>2. "sense" \in Commands /\ "none" \in DOMAIN Count
  BY DEF Commands, Refusals, Count
<1>3. UNCHANGED <<device, seenBusy>>
  BY DEF Sense
<1>4. blank \in BlankType /\ seenBusy \in BOOLEAN
  BY DEF TypeOK
<1>5. CASE blank.active
  <2>1. Complete("sense", blank, NoSense, "none")
    BY <1>5 DEF Sense, Cleared
  <2>2. seenBusy' /\ ~blank.active => blank.busyChange
    BY <1>5
  <2> QED
    BY <1>1, <1>2, <1>3, <1>4, <1>5, <2>1, <2>2, CompleteSound DEF RunningInv
<1>6. CASE ~blank.active
  <2>1. /\ blank' = Told(blank) /\ sense' = NoSense /\ owed' = "none"
        /\ untold' = (untold /\ Reply # WriteError) /\ UNCHANGED <<cause, waiting, covered>>
    BY <1>6 DEF Sense, Cleared
  <2>2. blank' = [blank EXCEPT !.failed = FALSE]
    BY <1>6, <2>1 DEF Told
  <2>3. blank' \in BlankType
    BY <1>4, <2>2 DEF BlankType
  <2>4. ~blank'.active /\ blank'.busyChange = blank.busyChange
    BY <1>4, <1>6, <2>2 DEF BlankType
  <2>5. untold' \in BOOLEAN
    BY <2>1 DEF TypeOK
  <2>6. TypeOK'
    BY <1>1, <1>2, <1>3, <2>1, <2>3, <2>5, Typed DEF TypeOK
  <2>7. RunningInv' /\ BusyInv' /\ ReasonInv' /\ NewsInv'
    BY <1>1, <1>3, <1>6, <2>1, <2>4 DEF RunningInv, BusyInv, ReasonInv, NewsInv
  <2>8. UntoldInv'
    <3>1. SUFFICES ASSUME untold', ~covered'
                   PROVE  FALSE
      BY DEF UntoldInv
    <3>2. untold /\ ~covered /\ sense # WriteError
      BY <1>6, <2>1, <3>1 DEF Reply
    <3> QED
      BY <1>6, <3>2 DEF UntoldInv
  <2> QED
    BY <2>6, <2>7, <2>8
<1> QED
  BY <1>5, <1>6

\* A blank operation that goes on or ends outside a command.
LEMMA AloneSound ==
  ASSUME IInv, blank.active, After(blank, blank'), Note(blank, blank'),
         sense' = SenseAfter(blank'), UNCHANGED <<device, waiting, seenBusy>>,
         owed' \in DOMAIN Count, cause' \in Reasons
  PROVE  IInv'
<1> USE DEF IInv
<1>1. blank' \in BlankType /\ waiting' \in Commands \cup {"none"}
      /\ device' \in Devices /\ seenBusy' \in BOOLEAN
  BY DEF After, TypeOK
<1>2. CASE blank'.active
  <2>1. sense' = sense /\ untold' = FALSE /\ covered' = FALSE
    BY <1>2 DEF SenseAfter, Note
  <2>2. sense' \in SenseType /\ untold' \in BOOLEAN /\ covered' \in BOOLEAN
    BY <2>1 DEF TypeOK
  <2>3. TypeOK'
    BY <1>1, <2>2, Typed
  <2> QED
    BY <1>2, <2>1, <2>3 DEF After, RunningInv, BusyInv, ReasonInv, UntoldInv, NewsInv
<1>3. CASE ~blank'.active
  <2>1. blank \in BlankType /\ blank'.busyChange
    BY <1>3 DEF TypeOK, After
  <2>2. /\ sense' \in SenseType /\ untold' \in BOOLEAN /\ covered' \in BOOLEAN
        /\ RunningInv' /\ BusyInv' /\ ReasonInv' /\ UntoldInv' /\ NewsInv'
    BY <1>1, <1>3, <2>1, OverSound
  <2> QED
    BY <1>1, <2>2, Typed
<1> QED
  BY <1>2, <1>3

LEMMA CancelSound ==
  ASSUME IInv, Cancel
  PROVE  IInv'
<1> USE DEF IInv
<1>1. CASE blank.active
  <2>1. PICK synced \in BOOLEAN :
          /\ blank' = FinishBlank(blank, synced) /\ sense' = SenseAfter(blank')
          /\ Note(blank, blank')
          /\ IF synced THEN UNCHANGED <<owed, cause>> ELSE Fail("write", owed)
    BY <1>1 DEF Cancel
  <2>2. blank \in BlankType
    BY DEF TypeOK
  <2>3. After(blank, blank')
    BY <2>1, <2>2, FinishFields DEF After
  <2>4. owed' \in DOMAIN Count /\ cause' \in Reasons
    BY <2>1, CountTyped DEF TypeOK, Fail, Reasons
  <2> QED
    BY <1>1, <2>1, <2>3, <2>4, AloneSound DEF Cancel
<1>2. CASE ~blank.active
  <2>1. UNCHANGED vars
    BY <1>2 DEF Cancel, vars, hostVars
  <2>2. UNCHANGED <<device, sense, blank, waiting, owed, cause, seenBusy, untold, covered>>
    BY <2>1 DEF vars, hostVars
  <2>3. TypeOK'
    BY <2>2, Typed DEF TypeOK
  <2> QED
    BY <2>2, <2>3 DEF RunningInv, BusyInv, ReasonInv, UntoldInv, NewsInv
<1> QED
  BY <1>1, <1>2

LEMMA BackgroundSound ==
  ASSUME IInv, Background
  PROVE  IInv'
<1> USE DEF IInv
<1>1. blank \in BlankType /\ owed' \in DOMAIN Count /\ cause' \in Reasons
  BY DEF Background, TypeOK
<1>2. After(blank, blank')
  BY <1>1, StepSound DEF Background, RunningInv
<1> QED
  BY <1>1, <1>2, AloneSound DEF Background

LEMMA DeferredSound ==
  ASSUME IInv, Deferred
  PROVE  IInv'
<1> USE DEF IInv
<1>1. /\ ~blank.active /\ waiting' = "none"
      /\ UNCHANGED <<device, sense, blank, seenBusy, untold, covered>>
      /\ \/ blank.failed /\ owed' = Count[owed] /\ cause' = "write"
         \/ ~blank.failed /\ UNCHANGED <<owed, cause>>
  BY DEF Deferred, Fail
<1>2. owed' \in DOMAIN Count /\ cause' \in Reasons
  BY <1>1, CountTyped DEF TypeOK, Reasons
<1>3. TypeOK'
  BY <1>1, <1>2, Typed DEF TypeOK
<1>4. ReasonInv'
  <2>1. owed' # "many" => owed # "many"
    BY <1>1 DEF Count, TypeOK
  <2>2. owed = "one" => owed' = "one" \/ owed' = "many"
    BY <1>1 DEF Count
  <2>3. blank.failed /\ owed = "one" => owed' = "many"
    BY <1>1 DEF Count
  <2> QED
    BY <1>1, <2>1, <2>2, <2>3 DEF ReasonInv
<1> QED
  BY <1>1, <1>3, <1>4 DEF RunningInv, BusyInv, UntoldInv, NewsInv

LEMMA ResetSound ==
  ASSUME IInv, Reset
  PROVE  IInv'
<1> USE DEF IInv
<1>1. NoSense \in SenseType /\ NoSense.why = "none" /\ ~NoSense.busy
  BY DEF NoSense, SenseType, Reasons
<1>2. /\ sense' = NoSense /\ waiting' = "none" /\ covered' = TRUE
      /\ UNCHANGED <<device, blank, owed, cause, seenBusy, untold>>
  BY DEF Reset
<1>3. TypeOK'
  BY <1>1, <1>2, Typed DEF TypeOK
<1> QED
  BY <1>1, <1>2, <1>3 DEF RunningInv, BusyInv, ReasonInv, UntoldInv, NewsInv

LEMMA StutterSound ==
  ASSUME IInv, UNCHANGED vars
  PROVE  IInv'
<1> USE DEF IInv
<1>1. UNCHANGED <<device, sense, blank, waiting, owed, cause, seenBusy, untold, covered>>
  BY DEF vars, hostVars
<1>2. TypeOK'
  BY <1>1, Typed DEF TypeOK
<1> QED
  BY <1>1, <1>2 DEF RunningInv, BusyInv, ReasonInv, UntoldInv, NewsInv

-----------------------------------------------------------------------------
(* Theorems.                                                               *)

LEMMA Inductive == IInv /\ [Next]_vars => IInv'
<1> SUFFICES ASSUME IInv, [Next]_vars
             PROVE  IInv'
  OBVIOUS
<1>1. ASSUME NEW op \in Commands, Refuse(op) \/ Succeed(op)
      PROVE  IInv'
  BY <1>1, RefuseSound, SucceedSound
<1>2. ASSUME NEW immediate \in BOOLEAN, Blank(immediate)
      PROVE  IInv'
  BY <1>2, BlankSound
<1>3. ASSUME NEW classes \in SUBSET Classes, Event(classes)
      PROVE  IInv'
  BY <1>3, EventSound
<1>4. ASSUME Cancel \/ Sense \/ Disc \/ Background \/ Deferred \/ Reset
      PROVE  IInv'
  BY <1>4, CancelSound, SenseSound, DiscSound, BackgroundSound, DeferredSound, ResetSound
<1> QED
  BY <1>1, <1>2, <1>3, <1>4, StutterSound DEF Next

LEMMA Invariance == Spec => []IInv
BY InitSound, Inductive, PTL DEF Spec

\* The sense data, the blank operation and the history keep their types.
THEOREM TypeCorrect == Spec => []TypeOK
<1>1. IInv => TypeOK
  BY DEF IInv
<1> QED
  BY <1>1, Invariance, PTL

\* REQUEST SENSE never names a reason that is not the last failure's, nor an operation
\* in progress that is over, whatever parts of the sense data the handlers write.
THEOREM SenseTold == Spec => []SenseTruthful
<1>1. IInv => SenseTruthful
  <2> SUFFICES ASSUME IInv
               PROVE  SenseTruthful
    OBVIOUS
  <2>1. CASE blank.active
    BY <2>1 DEF SenseTruthful, Reply
  <2>2. CASE ~blank.active
    <3>1. Reply = sense /\ sense.why # "busy" /\ ~sense.busy
      BY <2>2 DEF Reply, IInv, BusyInv
    <3> QED
      BY <2>2, <3>1 DEF SenseTruthful, IInv, ReasonInv
  <2> QED
    BY <2>1, <2>2
<1> QED
  BY <1>1, Invariance, PTL

\* A host that polls for the end of a BLANK learns that it ended, and that it failed.
THEOREM OutcomeTold == Spec => []BlankOutcomeTold
<1>1. IInv => BlankOutcomeTold
  BY DEF IInv, BlankOutcomeTold, Ready, UntoldInv, NewsInv
<1> QED
  BY <1>1, Invariance, PTL

=============================================================================
