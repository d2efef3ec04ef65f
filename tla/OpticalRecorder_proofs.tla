------------------------ MODULE OpticalRecorder_proofs ------------------------
(***************************************************************************)
(* Proofs about OpticalRecorder, for images of any size, any contents and  *)
(* any requests of the host.                                               *)
(***************************************************************************)
EXTENDS OpticalRecorder, TLAPS

WriteType == [lba : Int, count : Nat]

Sound(st) == st \in StateType /\ Consistent(st)

MetaOK == meta # NoMeta => Sound(meta.state)

\* The WRITE in progress, as StateConsistent has it
WriteOK ==
  write.count > 0 =>
    /\ write.lba + write.count <= MediumBlocks
    /\ IF Formatted THEN write.lba >= 0
       ELSE ~Finalized /\ rec.nwa = IF write.lba < 0 THEN 0 ELSE write.lba

\* The session, and what a blank operation excludes
SessionInv ==
  /\ Sound(rec) /\ MetaOK /\ WriteOK /\ write \in WriteType
  /\ blank.phase = "active" => write.count = 0

HistoryInv ==
  /\ image \in [Lba -> Contents] /\ disk \in [Lba -> Contents]
  /\ promise # NoPromise => promise.state \in StateType
  /\ recorded \in [Lba -> SUBSET Contents]

ModeInv ==
  /\ mode \in {"off", "on"} /\ readOnly \in BOOLEAN /\ multi \in BOOLEAN
  /\ blank \in [phase : {"idle", "active", "failed"}, lba : 0..Blocks]
  /\ cmds \in 0..MaxCmds /\ crashes \in 0..MaxCrashes

\* The inductive invariant: TypeOK and StateConsistent, and no WRITE in its data
\* phase while a blank operation runs.
IInv == SessionInv /\ HistoryInv /\ ModeInv

-----------------------------------------------------------------------------
(* The operators the actions are built from.                               *)

\* The smaller of two numbers.
LEMMA LeastBound ==
  ASSUME NEW a \in Int, NEW b \in Int
  PROVE  Least(a, b) \in Int /\ Least(a, b) <= a /\ Least(a, b) <= b /\ Least(a, b) \in {a, b}
  BY DEF Least

\* The reported medium lies within the image.
LEMMA MediumBound ==
  ASSUME RecorderAssumption, Sound(rec)
  PROVE  MediumBlocks \in Nat /\ MediumBlocks <= Blocks
  BY DEF RecorderAssumption, Sound, StateType, Consistent, MediumBlocks, Formatted

\* A blank disc is consistent.
LEMMA BlankSound == ASSUME RecorderAssumption PROVE Sound(Blank)
  BY DEF RecorderAssumption, Sound, StateType, Consistent, Blank, Flags

\* Rounding down to whole packets leaves a packet of any image that holds one.
LEMMA PacketsBound ==
  ASSUME NEW n \in Nat, NEW p \in Nat \ {0}, p <= n
  PROVE  n - (n % p) \in 1..n
  OBVIOUS

\* The state taken from a UDF image is consistent.
LEMMA UdfSound == ASSUME RecorderAssumption PROVE Sound(FormattedByUdf)
<1>1. Blocks - (Blocks % PacketSize) \in 1..Blocks
  BY PacketsBound DEF RecorderAssumption
<1> QED BY <1>1 DEF RecorderAssumption, Sound, StateType, Consistent, FormattedByUdf, Flags

\* Rounding up to whole packets stays a positive number of blocks.
LEMMA RoundUp ==
  ASSUME NEW n \in Nat \ {0}, NEW p \in Nat \ {0}
  PROVE  n + p - (n % p) \in Nat \ {0}
  OBVIOUS

\* A FORMAT UNIT that is not refused leaves a consistent state.
LEMMA FormatSound ==
  ASSUME RecorderAssumption, NEW f \in FormatType, FormatBlocks(f) > 0
  PROVE  Sound(FormatState(f))
<1>1. f.blocks \in Nat /\ f.param \in Nat /\ f.type \in {"full", "cdrw"} BY DEF FormatType
<1>2. FormatBlocks(f) \in Nat /\ FormatBlocks(f) <= Blocks
  <2> DEFINE asked == IF f.blocks = 0 THEN Blocks ELSE f.blocks
  <2>1. asked \in Nat \ {0} /\ (f.blocks <= Blocks => asked <= Blocks)
    BY <1>1 DEF RecorderAssumption
  <2>2. CASE f.type = "full" BY <1>1, <2>1, <2>2 DEF FormatBlocks, RecorderAssumption
  <2>3. CASE f.type # "full"
    <3>1. f.param # 0 => asked + f.param - (asked % f.param) \in Nat \ {0}
      BY <1>1, <2>1, RoundUp
    <3> QED BY <1>1, <2>1, <2>3, <3>1 DEF FormatBlocks, RecorderAssumption
  <2> QED BY <2>2, <2>3
<1>3. f.type # "full" => f.param > 0 BY <1>1 DEF FormatBlocks, RecorderAssumption
<1> QED
  BY <1>1, <1>2, <1>3 DEF FormatState, Sound, StateType, Consistent, Flags, RecorderAssumption

\* Closing the session keeps the state consistent.
LEMMA ClosedSound ==
  ASSUME Sound(rec)
  PROVE  Sound(Closed)
<1>1. Closed.nwa = rec.nwa /\ Closed.formatted = rec.formatted /\ Closed.packet = rec.packet
  BY DEF Closed, Sound, StateType
<1>2. Closed.flags = (rec.flags \ {"open", "finalized"}) \cup (IF multi THEN {} ELSE {"finalized"})
  BY DEF Closed, Sound, StateType
<1>3. Closed \in StateType
  BY <1>2 DEF Closed, Sound, StateType, Flags
<1> QED BY <1>1, <1>2, <1>3 DEF Sound, Consistent

\* Recording `stored' more blocks of a disc that has room for them.
LEMMA AdvanceSound ==
  ASSUME Sound(rec), NEW blocks \in Nat, NEW stored \in Nat,
         ~Formatted => ~Finalized /\ rec.nwa + stored <= Blocks
  PROVE  /\ Sound(Advance(blocks, stored))
         /\ Advance(blocks, stored).formatted = rec.formatted
         /\ ("formatted" \in Advance(blocks, stored).flags) = Formatted
         /\ ("finalized" \in Advance(blocks, stored).flags) = Finalized
         /\ ~Formatted => Advance(blocks, stored).nwa = rec.nwa + stored
<1>1. CASE stored = 0 \/ Formatted
  BY <1>1 DEF Advance, Sound, StateType, Consistent, Formatted, Finalized
<1>2. CASE stored > 0 /\ ~Formatted
  <2> DEFINE next == Advance(blocks, stored)
  <2>1. next = [rec EXCEPT !.nwa = @ + stored, !.flags = @ \cup {"open"}]
    BY <1>2 DEF Advance
  <2> HIDE DEF next
  <2>2. /\ next.nwa = rec.nwa + stored /\ next.formatted = rec.formatted
        /\ next.packet = rec.packet /\ next.flags = rec.flags \cup {"open"}
    BY <2>1 DEF Sound, StateType
  <2>3. next \in StateType
    <3>1. rec.flags \cup {"open"} \in SUBSET Flags BY DEF Sound, StateType, Flags
    <3>2. rec.nwa + stored \in Nat BY DEF Sound, StateType
    <3> QED BY <2>1, <3>1, <3>2 DEF Sound, StateType
  <2>4. Consistent(next)
    BY <1>2, <2>2 DEF Sound, StateType, Consistent, Formatted, Finalized
  <2> QED BY <1>2, <2>2, <2>3, <2>4 DEF Sound, Formatted, Finalized, next
<1> QED BY <1>1, <1>2

\* Whatever a save leaves in the metadata file is consistent.
LEMMA SaveOK ==
  ASSUME MetaOK, NEW st, Sound(st), NEW verdict, Save(st, verdict)
  PROVE  MetaOK'
<1>1. CASE UNCHANGED meta BY <1>1 DEF MetaOK, Sound, StateType, Consistent, NoMeta
<1>2. CASE meta' = [valid |-> "yes", state |-> st, fp |-> Fingerprint(image', st.nwa)]
  <2>1. meta'.state = st BY <1>2
  <2> QED BY <2>1 DEF MetaOK, Sound, StateType, Consistent
<1> QED BY <1>1, <1>2 DEF Save

\* So is what a sync of the session leaves there.
LEMMA SyncOK ==
  ASSUME MetaOK, NEW st, Sound(st), NEW verdict, SessionSync(st, verdict),
         image' \in [Lba -> Contents], disk \in [Lba -> Contents]
  PROVE  MetaOK' /\ disk' \in [Lba -> Contents]
<1>1. CASE disk' = image' /\ Save(st, verdict) BY <1>1, SaveOK
<1>2. CASE SyncFails
  BY <1>2 DEF SyncFails, MetaOK, Sound, StateType, Consistent, NoMeta
<1> QED BY <1>1, <1>2 DEF SessionSync

\* The two history variables keep their types.
LEMMA TrackType ==
  ASSUME NEW ordered \in [Lba -> SUBSET Contents], recorded \in [Lba -> SUBSET Contents],
         Track(ordered)
  PROVE  recorded' \in [Lba -> SUBSET Contents]
  BY DEF Track

\* No block is ordered to be overwritten.
LEMMA NothingType == Nothing \in [Lba -> SUBSET Contents]
  BY DEF Nothing

\* The type of the promise
PromiseOK == promise # NoPromise => promise.state \in StateType

\* A promise is kept or dropped.
LEMMA KeepType ==
  ASSUME PromiseOK, NEW touched, Keep(touched)
  PROVE  PromiseOK'
<1>1. promise' = promise \/ promise' = NoPromise BY DEF Keep
<1> QED BY <1>1 DEF PromiseOK, StateType, NoPromise

\* A new promise is of a recording state.
LEMMA AcknowledgeType ==
  ASSUME PromiseOK, NEW st \in StateType, NEW verdict, Acknowledge(st, verdict)
  PROVE  PromiseOK'
<1>1. CASE promise' = promise BY <1>1 DEF PromiseOK, StateType, NoPromise
<1>2. CASE promise' = [made |-> "yes", state |-> st, image |-> image']
  <2>1. promise'.state = st BY <1>2
  <2> QED BY <2>1 DEF PromiseOK, StateType
<1> QED BY <1>1, <1>2 DEF Acknowledge

\* Without a WRITE there is nothing to say about one.
LEMMA NoWriteOK ==
  ASSUME write' = NoWrite, RecorderAssumption
  PROVE  WriteOK' /\ write' \in WriteType /\ write'.count = 0
  BY DEF NoWrite, WriteOK, WriteType, RecorderAssumption

-----------------------------------------------------------------------------
(* The steps.                                                              *)

\* No blank operation is a value of its type.
LEMMA NoBlankType ==
  ASSUME RecorderAssumption
  PROVE  /\ NoBlank \in [phase : {"idle", "active", "failed"}, lba : 0..Blocks]
         /\ NoBlank.phase # "active"
<1>1. 0 \in 0..Blocks BY DEF RecorderAssumption
<1> QED BY <1>1 DEF NoBlank

\* The initial states satisfy the invariant.
LEMMA InitIInv == ASSUME RecorderAssumption PROVE Init => IInv
<1> SUFFICES ASSUME Init PROVE IInv OBVIOUS
<1>1. write.count = 0 /\ write \in WriteType
  BY DEF Init, NoWrite, WriteType, RecorderAssumption
<1>2. SessionInv
  BY <1>1, BlankSound DEF Init, SessionInv, MetaOK, WriteOK, NoBlank
<1>3. disk \in [Lba -> Contents] BY DEF Init, RecorderAssumption
<1>4. HistoryInv BY <1>3 DEF Init, HistoryInv
<1>5. ModeInv
  <2>1. 0 \in 0..MaxCmds /\ 0 \in 0..MaxCrashes BY DEF RecorderAssumption
  <2> QED BY <2>1, NoBlankType DEF Init, ModeInv
<1> QED BY <1>2, <1>4, <1>5 DEF IInv

\* Mounting takes the saved state, that of a UDF image, or that of an empty disc.
LEMMA MountStep == ASSUME RecorderAssumption, IInv, Mount PROVE IInv'
<1>1. Sound(rec)'
  <2>1. Loadable => Sound(meta.state) BY DEF Loadable, IInv, SessionInv, MetaOK
  <2>2. \/ Loadable /\ rec' = meta.state
        \/ rec' \in {FormattedByUdf, Blank}
    BY DEF Mount
  <2> QED BY <2>1, <2>2, UdfSound, BlankSound DEF Sound, StateType, Consistent
<1>2. WriteOK' /\ write' \in WriteType /\ write'.count = 0 BY NoWriteOK DEF Mount
<1>3. SessionInv'
  BY <1>1, <1>2 DEF IInv, SessionInv, MetaOK, Mount, Sound, StateType, Consistent
<1>4. HistoryInv' BY DEF IInv, HistoryInv, Mount, medium, history, StateType
<1>5. ModeInv'
  <2>1. blank' = NoBlank /\ cmds' = cmds /\ crashes' = crashes BY DEF Mount, bounds
  <2>2. mode' = "on" /\ readOnly' \in BOOLEAN /\ multi' = FALSE BY DEF Mount
  <2> QED BY <2>1, <2>2, NoBlankType DEF IInv, ModeInv
<1> QED BY <1>3, <1>4, <1>5 DEF IInv

\* Unmounting ends the session.
LEMMA UnmountedSession ==
  ASSUME RecorderAssumption, MetaOK', Unmounted, ModeInv,
         cmds' \in 0..MaxCmds, crashes' \in 0..MaxCrashes
  PROVE  SessionInv' /\ ModeInv'
<1>1. WriteOK' /\ write' \in WriteType /\ write'.count = 0 BY NoWriteOK DEF Unmounted
<1>2. SessionInv'
  BY <1>1, BlankSound DEF Unmounted, SessionInv, Sound, StateType, Consistent
<1>3. ModeInv' BY NoBlankType DEF ModeInv, Unmounted
<1> QED BY <1>2, <1>3

\* However the blocks settle, image and card hold contents.
LEMMA SettleType ==
  ASSUME Settle PROVE image' \in [Lba -> Contents] /\ disk' \in [Lba -> Contents]
  BY DEF Settle

\* Leaving the scene saves a consistent state or none.
LEMMA ExitStep == ASSUME RecorderAssumption, IInv, Exit PROVE IInv'
<1>1. Unmounted /\ UNCHANGED bounds /\ Track(Nothing) BY DEF Exit
<1>2. cmds' \in 0..MaxCmds /\ crashes' \in 0..MaxCrashes
  BY <1>1 DEF bounds, IInv, ModeInv
<1>3. CASE \E verdict \in {"ok", "nok"} :
          /\ UNCHANGED image /\ disk' = image /\ Save(rec, verdict)
          /\ Acknowledge(rec, verdict)
  <2>1. MetaOK' BY <1>3, SaveOK DEF IInv, SessionInv
  <2>2. PromiseOK' BY <1>3, AcknowledgeType DEF IInv, SessionInv, HistoryInv, PromiseOK, Sound
  <2>3. image' \in [Lba -> Contents] /\ disk' \in [Lba -> Contents]
    BY <1>3 DEF IInv, HistoryInv
  <2> QED BY <1>1, <1>2, <2>1, <2>2, <2>3, UnmountedSession, TrackType, NothingType
          DEF IInv, HistoryInv, PromiseOK
<1>4. CASE Settle /\ UNCHANGED <<meta, promise>>
  <2>1. MetaOK' BY <1>4 DEF IInv, SessionInv, MetaOK, Sound, StateType, Consistent, NoMeta
  <2>2. PromiseOK' BY <1>4 DEF IInv, HistoryInv, PromiseOK, StateType, NoPromise
  <2> QED BY <1>1, <1>2, <1>4, <2>1, <2>2, SettleType, UnmountedSession, TrackType, NothingType
          DEF IInv, HistoryInv, PromiseOK
<1> QED BY <1>3, <1>4 DEF Exit

\* A loss of power leaves the metadata file as it was.
LEMMA CrashStep == ASSUME RecorderAssumption, IInv, Crash PROVE IInv'
<1>1. cmds' \in 0..MaxCmds /\ crashes' \in 0..MaxCrashes
  BY DEF Crash, IInv, ModeInv, RecorderAssumption
<1>2. MetaOK' BY DEF Crash, IInv, SessionInv, MetaOK, Sound, StateType, Consistent, NoMeta
<1>3. PromiseOK' BY DEF Crash, IInv, HistoryInv, PromiseOK, StateType, NoPromise
<1> QED BY <1>1, <1>2, <1>3, SettleType, UnmountedSession, TrackType, NothingType
        DEF Crash, IInv, HistoryInv, PromiseOK

\* What all commands do to the counters and modes.
LEMMA CommandModes ==
  ASSUME RecorderAssumption, IInv, Command, multi' \in BOOLEAN, UNCHANGED blank
  PROVE  ModeInv' /\ blank'.phase # "active"
<1>1. cmds' \in 0..MaxCmds BY DEF Command, IInv, ModeInv, RecorderAssumption
<1> QED BY <1>1 DEF Command, IInv, ModeInv

\* A command that ends with a sync of the session, the image untouched.
LEMMA SyncingCommand ==
  ASSUME RecorderAssumption, IInv, Command, UNCHANGED <<blank, image>>, write' = NoWrite,
         multi' \in BOOLEAN, Sound(rec'), MetaOK', PromiseOK', disk' \in [Lba -> Contents],
         Track(Nothing)
  PROVE  IInv'
<1>1. ModeInv' /\ blank'.phase # "active" BY CommandModes
<1>2. WriteOK' /\ write' \in WriteType /\ write'.count = 0 BY NoWriteOK
<1>3. SessionInv' BY <1>1, <1>2 DEF SessionInv, Sound, StateType, Consistent
<1>4. recorded' \in [Lba -> SUBSET Contents]
  BY TrackType, NothingType DEF IInv, HistoryInv
<1>5. HistoryInv' BY <1>4 DEF IInv, HistoryInv, PromiseOK
<1> QED BY <1>1, <1>3, <1>5 DEF IInv

\* SYNCHRONIZE CACHE and eject save the state of the session.
LEMMA SyncCacheStep == ASSUME RecorderAssumption, IInv, SyncCache PROVE IInv'
<1>1. PICK verdict \in {"ok", "nok"} : SessionSync(rec, verdict) /\ Acknowledge(rec, verdict)
  BY DEF SyncCache
<1>2. image' \in [Lba -> Contents] /\ disk \in [Lba -> Contents]
  BY DEF SyncCache, IInv, HistoryInv
<1>3. Sound(rec) /\ MetaOK /\ PromiseOK BY DEF IInv, SessionInv, HistoryInv, PromiseOK
<1>4. MetaOK' /\ disk' \in [Lba -> Contents] BY <1>1, <1>2, <1>3, SyncOK
<1>5. PromiseOK' BY <1>1, <1>3, AcknowledgeType DEF Sound
<1>6. Sound(rec') /\ multi' \in BOOLEAN BY <1>3 DEF SyncCache, IInv, ModeInv
<1> QED BY <1>4, <1>5, <1>6, SyncingCommand DEF SyncCache

\* CLOSE TRACK SESSION changes the state only with the sync.
LEMMA CloseStep ==
  ASSUME RecorderAssumption, IInv, NEW session \in BOOLEAN, Close(session) PROVE IInv'
<1>1. Sound(rec) /\ MetaOK /\ PromiseOK /\ image \in [Lba -> Contents] /\ disk \in [Lba -> Contents]
  BY DEF IInv, SessionInv, HistoryInv, PromiseOK
<1>2. multi' \in BOOLEAN BY DEF Close, IInv, ModeInv
<1>3. CASE \E verdict \in {"ok", "nok"} :
          /\ rec' = IF session THEN Closed ELSE rec
          /\ disk' = image /\ Save(rec', verdict) /\ Acknowledge(rec', verdict)
  <2>1. PICK verdict \in {"ok", "nok"} :
          /\ rec' = IF session THEN Closed ELSE rec
          /\ disk' = image /\ Save(rec', verdict) /\ Acknowledge(rec', verdict)
    BY <1>3
  <2>2. Sound(rec') BY <1>1, <2>1, ClosedSound
  <2>3. MetaOK' BY <1>1, <2>1, <2>2, SaveOK
  <2>4. PromiseOK' BY <1>1, <2>1, <2>2, AcknowledgeType DEF Sound
  <2> QED BY <1>1, <1>2, <2>1, <2>2, <2>3, <2>4, SyncingCommand DEF Close
<1>4. CASE SyncFails /\ UNCHANGED <<rec, promise>>
  <2>1. MetaOK' /\ disk' = disk
    BY <1>1, <1>4 DEF SyncFails, MetaOK, Sound, StateType, Consistent, NoMeta
  <2>2. PromiseOK' /\ Sound(rec')
    BY <1>1, <1>4 DEF PromiseOK, NoPromise, StateType
  <2> QED BY <1>1, <1>2, <2>1, <2>2, SyncingCommand DEF Close
<1> QED BY <1>3, <1>4 DEF Close

\* A command that leaves medium, metadata and history alone.
LEMMA QuietCommand ==
  ASSUME RecorderAssumption, IInv, UNCHANGED <<rec, medium, meta, history>>,
         ModeInv', write' = NoWrite \/ (write' \in WriteType /\ WriteOK' /\ blank'.phase # "active")
  PROVE  IInv'
<1>1. write' \in WriteType /\ WriteOK' /\ (blank'.phase = "active" => write'.count = 0)
  BY NoWriteOK
<1>2. SessionInv'
  BY <1>1 DEF IInv, SessionInv, MetaOK, Sound, StateType, Consistent, NoMeta
<1>3. HistoryInv' BY DEF IInv, HistoryInv, medium, history, StateType, NoPromise
<1> QED BY <1>2, <1>3 DEF IInv

\* MODE SELECT sets how the next session is closed.
LEMMA ModeSelectStep ==
  ASSUME RecorderAssumption, IInv, NEW multiSession \in BOOLEAN, ModeSelect(multiSession)
  PROVE  IInv'
<1>1. ModeInv' BY CommandModes DEF ModeSelect
<1> QED BY <1>1, QuietCommand DEF ModeSelect

\* FORMAT UNIT takes a new state and saves it, or only checks it.
LEMMA FormatStep ==
  ASSUME RecorderAssumption, IInv, NEW f \in Formats, Format(f) PROVE IInv'
<1>1. Sound(rec) /\ MetaOK /\ PromiseOK /\ image \in [Lba -> Contents] /\ disk \in [Lba -> Contents]
  BY DEF IInv, SessionInv, HistoryInv, PromiseOK
<1>2. CASE f.tryOut
  <2>1. ModeInv' BY <1>2, CommandModes DEF Format, IInv, ModeInv
  <2> QED BY <1>2, <2>1, QuietCommand DEF Format, medium
<1>3. CASE ~f.tryOut
  <2>1. PICK verdict \in {"ok", "nok"} : SessionSync(rec', verdict) /\ Acknowledge(rec', verdict)
    BY <1>3 DEF Format
  <2>2. Sound(rec')
    BY <1>3, FormatSound DEF Format, RecorderAssumption
  <2>3. image' \in [Lba -> Contents] BY <1>1 DEF Format
  <2>4. MetaOK' /\ disk' \in [Lba -> Contents] BY <1>1, <2>1, <2>2, <2>3, SyncOK
  <2>5. PromiseOK' BY <1>1, <2>1, <2>2, AcknowledgeType DEF Sound
  <2> QED BY <1>3, <2>2, <2>4, <2>5, SyncingCommand DEF Format
<1> QED BY <1>2, <1>3

\* An accepted WRITE lies on the medium, at the write pointer.
LEMMA StartWriteStep ==
  ASSUME RecorderAssumption, IInv, NEW r \in Requests, StartWrite(r[1], r[2])
  PROVE  IInv'
<1>1. ModeInv' /\ blank'.phase # "active" BY CommandModes DEF StartWrite, IInv, ModeInv
<1>2. r[1] \in Int /\ r[2] \in Nat BY DEF RecorderAssumption
<1>3. write'.lba = r[1] /\ write'.count = r[2] /\ write' \in WriteType
  BY <1>2 DEF StartWrite, WriteType
<1>4. MediumBlocks \in Nat /\ MediumBlocks' = MediumBlocks /\ Formatted' = Formatted
      /\ Finalized' = Finalized /\ rec' = rec
  BY MediumBound DEF IInv, SessionInv, StartWrite, MediumBlocks, Formatted, Finalized
<1>5. WriteOK' BY <1>2, <1>3, <1>4 DEF StartWrite, AcceptsWrite, WriteOK
<1> QED BY <1>1, <1>3, <1>5, QuietCommand DEF StartWrite

\* BLANK starts at block 0.
LEMMA StartBlankStep == ASSUME RecorderAssumption, IInv, StartBlank PROVE IInv'
<1>1. 0 \in 0..Blocks BY DEF RecorderAssumption
<1>2. blank' \in [phase : {"idle", "active", "failed"}, lba : 0..Blocks]
  BY <1>1 DEF StartBlank, StartedBlank
<1>3. cmds' \in 0..MaxCmds
  BY DEF StartBlank, Command, IInv, ModeInv, RecorderAssumption
<1>4. ModeInv' BY <1>2, <1>3 DEF StartBlank, Command, IInv, ModeInv
<1> QED BY <1>4, QuietCommand DEF StartBlank

\* The cancelled wipe leaves the recording state as it was.
LEMMA CancelBlankStep == ASSUME RecorderAssumption, IInv, CancelBlank PROVE IInv'
<1>1. image \in [Lba -> Contents] /\ disk \in [Lba -> Contents] /\ PromiseOK /\ MetaOK
  BY DEF IInv, SessionInv, HistoryInv, PromiseOK
<1>2. blank' \in {[blank EXCEPT !.phase = "idle"], [blank EXCEPT !.phase = "failed"]}
  BY DEF CancelBlank
<1>3. blank' \in [phase : {"idle", "active", "failed"}, lba : 0..Blocks] /\ blank'.phase # "active"
  BY <1>2 DEF IInv, ModeInv
<1>4. cmds' \in 0..MaxCmds BY DEF CancelBlank, IInv, ModeInv, RecorderAssumption
<1>5. ModeInv' BY <1>3, <1>4 DEF CancelBlank, IInv, ModeInv
<1>6. UNCHANGED <<meta, rec, write, image, promise>> /\ disk' \in {image, disk} /\ Track(Nothing)
  BY DEF CancelBlank, SyncFails
<1>7. WriteOK'
  BY <1>6 DEF IInv, SessionInv, WriteOK, MediumBlocks, Formatted, Finalized
<1>8. SessionInv'
  BY <1>1, <1>3, <1>6, <1>7 DEF IInv, SessionInv, MetaOK, Sound, StateType, Consistent, NoMeta
<1>9. HistoryInv'
  <2>1. recorded' \in [Lba -> SUBSET Contents]
    BY <1>6, TrackType, NothingType DEF IInv, HistoryInv
  <2>2. PromiseOK' BY <1>1, <1>6 DEF PromiseOK, StateType, NoPromise
  <2> QED BY <1>1, <1>6, <2>1, <2>2 DEF HistoryInv, PromiseOK
<1> QED BY <1>5, <1>8, <1>9 DEF IInv

\* A step of the wipe: the session's state is kept until the last step empties it.
LEMMA BlankStepStep == ASSUME RecorderAssumption, IInv, BlankStep PROVE IInv'
<1> DEFINE end(capacity) == blank.lba + Least(Blocks - blank.lba, capacity)
           wiped(n) == {l \in Lba : l >= blank.lba /\ l < blank.lba + n}
           Wipes(last, blocks) ==
             /\ image' = [l \in Lba |-> IF l \in blocks THEN Zero ELSE image[l]]
             /\ blank' \in {[phase |-> "active", lba |-> last], [phase |-> "idle", lba |-> last],
                            [phase |-> "failed", lba |-> last], [blank EXCEPT !.phase = "failed"]}
             /\ rec' \in {rec, Blank} /\ (multi' = multi \/ multi' = FALSE)
             /\ disk' \in {disk, image'}
             /\ meta' = meta \/ Save(Blank, "ok") \/ Save(Blank, "nok")
             /\ Keep(blocks) \/ Acknowledge(Blank, "ok")
             /\ Track([l \in Lba |-> IF l \in blocks THEN {Zero} ELSE {}])
<1>1. PICK capacity \in 1..MaxChunk : \E n \in 0..Least(Blocks - blank.lba, capacity) :
        Wipes(end(capacity), wiped(n))
  BY ZenonT(60) DEF BlankStep, SyncFails
<1>2. PICK n \in 0..Least(Blocks - blank.lba, capacity) : Wipes(end(capacity), wiped(n))
  BY <1>1
<1>3. end(capacity) \in 0..Blocks
  <2>1. blank.lba \in 0..Blocks /\ Blocks \in Nat /\ capacity \in Int /\ capacity >= 1
    BY DEF IInv, ModeInv, RecorderAssumption
  <2>2. Blocks - blank.lba \in Int BY <2>1
  <2>3. Least(Blocks - blank.lba, capacity) \in {Blocks - blank.lba, capacity}
        /\ Least(Blocks - blank.lba, capacity) <= Blocks - blank.lba
    BY <2>1, <2>2, LeastBound
  <2> QED BY <2>1, <2>3
<1> HIDE DEF end, wiped
<1>4. blank' \in [phase : {"idle", "active", "failed"}, lba : 0..Blocks]
  BY <1>2, <1>3 DEF IInv, ModeInv
<1>5. ModeInv' BY <1>2, <1>4 DEF BlankStep, bounds, IInv, ModeInv
<1>6. image' \in [Lba -> Contents] /\ disk' \in [Lba -> Contents]
  BY <1>2 DEF IInv, HistoryInv, RecorderAssumption
<1>7. Sound(rec') BY <1>2, BlankSound DEF IInv, SessionInv
<1>8. write' = write /\ write.count = 0
  BY DEF BlankStep, IInv, SessionInv
<1>9. MetaOK'
  <2>1. CASE meta' = meta
    BY <2>1 DEF IInv, SessionInv, MetaOK, Sound, StateType, Consistent, NoMeta
  <2>2. CASE meta' # meta BY <1>2, <2>2, SaveOK, BlankSound DEF IInv, SessionInv
  <2> QED BY <2>1, <2>2
<1>10. SessionInv'
  <2>1. WriteOK' BY <1>8 DEF WriteOK
  <2> QED BY <1>7, <1>8, <1>9, <2>1 DEF IInv, SessionInv, Sound, StateType, Consistent
<1>11. PromiseOK'
  <2>1. PromiseOK BY DEF IInv, HistoryInv, PromiseOK
  <2> QED BY <1>2, <2>1, KeepType, AcknowledgeType, BlankSound DEF Sound
<1>12. recorded' \in [Lba -> SUBSET Contents]
  <2>1. [l \in Lba |-> IF l \in wiped(n) THEN {Zero} ELSE {}] \in [Lba -> SUBSET Contents]
    BY DEF RecorderAssumption
  <2> QED BY <1>2, <2>1, TrackType DEF IInv, HistoryInv
<1>13. HistoryInv' BY <1>6, <1>11, <1>12 DEF HistoryInv, PromiseOK
<1> QED BY <1>5, <1>10, <1>13 DEF IInv

\* How far a buffer of blocks moves the write pointer: the pre-gap is discarded.
LEMMA StoredBound ==
  ASSUME NEW lba \in Int, NEW count \in Nat, NEW blocks \in 1..count, NEW discard,
         discard = IF lba < 0 THEN Least(-lba, blocks) ELSE 0
  PROVE  /\ discard \in Nat /\ blocks - discard \in Nat
         /\ lba >= 0 => discard = 0
         /\ lba < 0 => blocks - discard = IF lba + blocks < 0 THEN 0 ELSE lba + blocks
  BY DEF Least

\* A buffer of blocks that went to the image: the pointer follows the WRITE.
LEMMA StoreStep ==
  ASSUME RecorderAssumption, IInv, write.count > 0, NEW blocks \in 1..write.count,
         NEW discard, discard = IF write.lba < 0 THEN Least(-write.lba, blocks) ELSE 0,
         write' = [lba |-> write.lba + blocks, count |-> write.count - blocks],
         rec' = Advance(blocks, blocks - discard)
  PROVE  Sound(rec') /\ write' \in WriteType /\ WriteOK'
<1>1. /\ write.lba \in Int /\ write.count \in Nat /\ write \in WriteType /\ Sound(rec)
      /\ MediumBlocks \in Nat /\ MediumBlocks <= Blocks
      /\ write.lba + write.count <= MediumBlocks
      /\ Formatted => write.lba >= 0
      /\ ~Formatted => ~Finalized /\ rec.nwa = IF write.lba < 0 THEN 0 ELSE write.lba
  BY MediumBound DEF IInv, SessionInv, WriteType, WriteOK
<1>2. /\ discard \in Nat /\ blocks - discard \in Nat
      /\ write.lba >= 0 => discard = 0
      /\ write.lba < 0 => blocks - discard = IF write.lba + blocks < 0 THEN 0 ELSE write.lba + blocks
  BY <1>1, StoredBound
<1>3. ~Formatted => ~Finalized /\ rec.nwa + (blocks - discard) <= Blocks
  BY <1>1, <1>2 DEF RecorderAssumption
<1> DEFINE stored == blocks - discard
<1>4. stored \in Nat /\ blocks \in Nat BY <1>2
<1> HIDE DEF stored
<1>5. /\ Sound(rec') /\ rec'.formatted = rec.formatted
      /\ Formatted' = Formatted /\ Finalized' = Finalized
      /\ ~Formatted => rec'.nwa = rec.nwa + stored
  BY <1>1, <1>3, <1>4, AdvanceSound DEF stored, Formatted, Finalized
<1>6. write'.lba = write.lba + blocks /\ write'.count = write.count - blocks
  BY <1>1 DEF WriteType
<1>7. write' \in WriteType
  <2>1. write.lba + blocks \in Int /\ write.count - blocks \in Nat BY <1>1
  <2> QED BY <1>1, <2>1 DEF WriteType
<1>8. MediumBlocks' = MediumBlocks BY <1>5 DEF MediumBlocks
<1>9. WriteOK'
  <2>1. write'.lba + write'.count = write.lba + write.count BY <1>1, <1>6
  <2>2. CASE Formatted BY <1>1, <1>5, <1>6, <1>8, <2>1, <2>2 DEF WriteOK
  <2>3. CASE ~Formatted
    <3>1. rec'.nwa = IF write'.lba < 0 THEN 0 ELSE write'.lba
      BY <1>1, <1>2, <1>5, <1>6, <2>3 DEF stored
    <3> QED BY <1>1, <1>5, <1>8, <2>1, <2>3, <3>1 DEF WriteOK
  <2> QED BY <2>2, <2>3
<1> QED BY <1>5, <1>7, <1>9

\* A buffer of a WRITE: all of it goes to the image, or some and the WRITE ends.
LEMMA RxDataStep ==
  ASSUME RecorderAssumption, IInv, NEW data \in Patterns, RxData(data) PROVE IInv'
<1> DEFINE Upto(first, n) == {l \in Lba : l >= first /\ l < first + n}
           Store(first, n) ==
             /\ image' = [l \in Lba |-> IF l \in Upto(first, n) THEN data[l] ELSE image[l]]
             /\ Track([l \in Lba |-> IF l \in Upto(first, n) THEN {data[l]} ELSE {}])
             /\ Keep(Upto(first, n))
<1>1. /\ write.count > 0 /\ write \in WriteType /\ Sound(rec) /\ MetaOK /\ PromiseOK
      /\ write.count \in Nat /\ data \in [Lba -> Contents] /\ blank.phase # "active"
      /\ image \in [Lba -> Contents] /\ recorded \in [Lba -> SUBSET Contents]
  BY DEF RxData, IInv, SessionInv, HistoryInv, PromiseOK, WriteType, RecorderAssumption
<1>2. PICK blocks \in Chunks :
        LET discard == IF write.lba < 0 THEN Least(-write.lba, blocks) ELSE 0
            first   == write.lba + discard
        IN  \/ /\ Store(first, blocks - discard)
               /\ write' = [lba |-> write.lba + blocks, count |-> write.count - blocks]
               /\ rec' = Advance(blocks, blocks - discard)
            \/ /\ \E n \in 0..(blocks - discard - 1) : Store(first, n)
               /\ write' = NoWrite /\ UNCHANGED rec
  BY DEF RxData
<1>3. blocks \in 1..write.count
  <2>1. MaxChunk \in Int /\ write.count \in Int BY <1>1 DEF RecorderAssumption
  <2>2. Least(MaxChunk, write.count) \in Int /\ Least(MaxChunk, write.count) <= write.count
    BY ONLY <2>1, LeastBound
  <2> QED BY <1>1, <2>2 DEF Chunks
<1>4. Sound(rec') /\ write' \in WriteType /\ WriteOK'
  <2>1. CASE /\ write' = [lba |-> write.lba + blocks, count |-> write.count - blocks]
             /\ rec' = Advance(blocks, blocks - IF write.lba < 0 THEN Least(-write.lba, blocks) ELSE 0)
    BY <1>1, <1>3, <2>1, StoreStep
  <2>2. CASE write' = NoWrite /\ UNCHANGED rec BY <1>1, <2>2, NoWriteOK
  <2> QED BY <1>2, <2>1, <2>2
<1> HIDE DEF Store
<1>5. \E first, n : Store(first, n) BY <1>2
<1>6. PICK first, n : Store(first, n) BY <1>5
<1> USE DEF Store
<1>7. image' \in [Lba -> Contents] BY <1>1, <1>6
<1>8. recorded' \in [Lba -> SUBSET Contents]
  <2> DEFINE ordered == [l \in Lba |-> IF l \in Upto(first, n) THEN {data[l]} ELSE {}]
  <2>1. ordered \in [Lba -> SUBSET Contents] BY <1>1
  <2>2. Track(ordered) BY <1>6
  <2> HIDE DEF ordered
  <2> QED BY <1>1, <2>1, <2>2, TrackType
<1>9. PromiseOK' BY <1>1, <1>6, KeepType
<1>10. HistoryInv' BY <1>7, <1>8, <1>9 DEF RxData, IInv, HistoryInv, PromiseOK
<1>11. SessionInv'
  BY <1>1, <1>4 DEF RxData, SessionInv, MetaOK, Sound, StateType, Consistent, NoMeta
<1>12. ModeInv' BY DEF RxData, bounds, IInv, ModeInv
<1> QED BY <1>10, <1>11, <1>12 DEF IInv

\* Every step keeps the invariant.
LEMMA StepIInv == ASSUME RecorderAssumption, IInv, [Next]_vars PROVE IInv'
<1>1. CASE UNCHANGED vars
  BY <1>1 DEF vars, medium, history, bounds, IInv, SessionInv, HistoryInv, ModeInv, MetaOK,
              WriteOK, MediumBlocks, Formatted, Finalized
<1>2. CASE Next
  BY <1>2, MountStep, ExitStep, CrashStep, StartWriteStep, RxDataStep, SyncCacheStep,
     ModeSelectStep, CloseStep, FormatStep, StartBlankStep, BlankStepStep, CancelBlankStep
  DEF Next
<1> QED BY <1>1, <1>2

-----------------------------------------------------------------------------
(* The results.                                                            *)

\* Types, the recording state of session and metadata file, and the place of the
\* WRITE in progress, over all commands, failures, power losses and mounts.
THEOREM Inductive == Spec => []IInv
<1>1. Init => IInv BY InitIInv, RecorderAssumption
<1>2. IInv /\ [Next]_vars => IInv' BY StepIInv, RecorderAssumption
<1> QED BY <1>1, <1>2, PTL DEF Spec

\* Every value keeps its type.
THEOREM TypeCorrect == Spec => []TypeOK
<1>1. IInv => TypeOK
  BY DEF IInv, SessionInv, HistoryInv, ModeInv, MetaOK, Sound, WriteType, TypeOK
<1> QED BY <1>1, Inductive, PTL

\* scsi_start_write, scsi_cmd_rx_data, scsi_cmd_end, file_load_optical_state: the
\* recording state never contradicts itself, and a WRITE stays at the pointer.
THEOREM StateSafety == Spec => []StateConsistent
<1>1. IInv => StateConsistent
  BY DEF IInv, SessionInv, MetaOK, Sound, WriteOK, StateConsistent
<1> QED BY <1>1, Inductive, PTL

\* What a step may change of the image: the buffer of a WRITE only at or above
\* the write pointer of a sequential disc, no other command any block.
LEMMA AppendStep ==
  ASSUME RecorderAssumption, IInv, [Next]_vars
  PROVE  mode = "on" /\ mode' = "on" /\ ~Formatted /\ blank.phase # "active" =>
           \A l \in Lba : l < rec.nwa => image'[l] = image[l]
<1> SUFFICES ASSUME mode = "on", mode' = "on", ~Formatted, blank.phase # "active",
                    NEW l \in Lba, l < rec.nwa
             PROVE  image'[l] = image[l]
  OBVIOUS
<1>1. CASE \E data \in Patterns : RxData(data)
  <2>0. PICK data \in Patterns : RxData(data) BY <1>1
  <2> DEFINE Discard(blocks) == IF write.lba < 0 THEN Least(-write.lba, blocks) ELSE 0
             Into(from, n) == image' = [k \in Lba |->
               IF k \in {j \in Lba : j >= from /\ j < from + n} THEN data[k] ELSE image[k]]
  <2>1. PICK blocks \in Chunks :
          \/ Into(write.lba + Discard(blocks), blocks - Discard(blocks))
          \/ \E n \in 0..(blocks - Discard(blocks) - 1) : Into(write.lba + Discard(blocks), n)
    BY <2>0 DEF RxData
  <2> DEFINE first == write.lba + Discard(blocks)
  <2> HIDE DEF Into
  <2>2. PICK n : Into(first, n) BY <2>1
  <2>3. /\ write.lba \in Int /\ write.count \in Nat /\ write.count > 0
        /\ rec.nwa = IF write.lba < 0 THEN 0 ELSE write.lba
    BY <2>0 DEF RxData, IInv, SessionInv, WriteType, WriteOK
  <2>4. l >= 0 /\ l \in Int BY DEF Lba, RecorderAssumption
  <2>5. write.lba >= 0 /\ first = write.lba BY <2>3, <2>4
  <2>6. ~(l >= first) BY <2>3, <2>4, <2>5
  <2> HIDE DEF first
  <2> QED BY <2>2, <2>6 DEF Into
<1>2. CASE ~(\E data \in Patterns : RxData(data)) /\ Next
  <2>1. UNCHANGED image
    BY <1>2 DEF Next, Mount, Exit, Crash, Unmounted, StartWrite, SyncCache, ModeSelect, Close,
                Format, StartBlank, BlankStep, CancelBlank, medium
  <2> QED BY <2>1
<1>3. CASE UNCHANGED vars BY <1>3 DEF vars, medium
<1> QED BY <1>1, <1>2, <1>3

\* scsi_start_write and scsi_cmd_rx_data: outside a BLANK, recording on a
\* sequential disc never changes a block below the write pointer.
THEOREM AppendOnlyHolds == Spec => AppendOnly
<1>1. IInv /\ [Next]_vars =>
        [mode = "on" /\ mode' = "on" /\ ~Formatted /\ blank.phase # "active" =>
           \A l \in Lba : l < rec.nwa => image'[l] = image[l]]_vars
  BY AppendStep, RecorderAssumption
<1> QED BY <1>1, Inductive, PTL DEF Spec, AppendOnly

\* The cases of scsi_cmd_tx_data and scsi_start_write agree: the reported free
\* space of a writable track is what WRITE accepts, no block less, no block more.
THEOREM SpaceReported == Spec => []ReportedSpaceWritable
<1>1. ASSUME IInv, ~readOnly, ~Finalized
      PROVE  /\ \A n \in 0..FreeBlocks : AcceptsWrite(NextWritable, n)
             /\ ~AcceptsWrite(NextWritable, FreeBlocks + 1)
  <2>1. Sound(rec) /\ MediumBlocks \in Nat /\ NextWritable \in Nat /\ NextWritable <= MediumBlocks
    <3>1. Sound(rec) BY <1>1 DEF IInv, SessionInv
    <3>2. MediumBlocks \in Nat BY <3>1, MediumBound, RecorderAssumption
    <3>3. NextWritable \in Nat /\ NextWritable <= MediumBlocks
      BY <3>1, <3>2 DEF NextWritable, MediumBlocks, Sound, StateType, Consistent, Formatted
    <3> QED BY <3>1, <3>2, <3>3
  <2>2. FreeBlocks = MediumBlocks - NextWritable BY DEF FreeBlocks
  <2>3. ~Formatted => NextWritable = rec.nwa BY DEF NextWritable
  <2>4. ASSUME NEW n \in 0..FreeBlocks PROVE AcceptsWrite(NextWritable, n)
    <3>1. n <= MediumBlocks - NextWritable /\ ~(NextWritable < 0) BY <2>1, <2>2
    <3> QED BY <1>1, <2>1, <2>3, <3>1 DEF AcceptsWrite
  <2>5. ~AcceptsWrite(NextWritable, FreeBlocks + 1)
    <3>1. ~(FreeBlocks + 1 <= MediumBlocks - NextWritable) /\ ~(NextWritable < 0) BY <2>1, <2>2
    <3> QED BY <3>1 DEF AcceptsWrite
  <2> QED BY <2>4, <2>5
<1>2. IInv => ReportedSpaceWritable BY <1>1 DEF ReportedSpaceWritable
<1> QED BY <1>2, Inductive, PTL

-----------------------------------------------------------------------------
(* Read-only mounts.                                                       *)

\* A read-only mount never has blocks that the card lacks, nor an operation that
\* would make some.
UntouchedInv ==
  /\ mode = "off" => image = disk
  /\ mode = "on" /\ readOnly => image = disk /\ write.count = 0 /\ blank.phase # "active"

\* Blocks that agree on image and card settle as they are.
LEMMA SettleSame ==
  ASSUME Settle, image = disk, disk \in [Lba -> Contents] PROVE disk' = disk
<1>1. disk' \in [Lba -> Contents] /\ \A l \in Lba : disk'[l] = disk[l] BY DEF Settle
<1> QED BY <1>1

\* The steps keep it.
LEMMA StepUntouched ==
  ASSUME RecorderAssumption, IInv, UntouchedInv, [Next]_vars
  PROVE  /\ UntouchedInv'
         /\ mode = "on" /\ readOnly => UNCHANGED <<disk, meta>>
<1>0. disk \in [Lba -> Contents] /\ mode \in {"on", "off"} BY DEF IInv, HistoryInv, ModeInv
<1>1. CASE Mount BY <1>1 DEF Mount, UntouchedInv, medium, NoWrite, NoBlank
<1>2. CASE Exit \/ Crash
  <2>1. mode = "on" /\ mode' = "off" /\ image' = disk'
    BY <1>2 DEF Exit, Crash, Unmounted, Settle
  <2>2. readOnly => UNCHANGED <<disk, meta>>
    BY <1>0, <1>2, <2>1, SettleSame DEF Exit, Crash, UntouchedInv, Save
  <2> QED BY <2>1, <2>2 DEF UntouchedInv
<1>3. CASE mode = "on" /\ ~readOnly /\ mode' = "on" /\ readOnly' = readOnly
  BY <1>3 DEF UntouchedInv
<1>4. CASE SyncCache \/ (\E session \in BOOLEAN : Close(session))
  BY <1>0, <1>4 DEF SyncCache, Close, SessionSync, SyncFails, Save, Command, NoWrite, UntouchedInv
<1>5. CASE \E multiSession \in BOOLEAN : ModeSelect(multiSession)
  BY <1>5 DEF ModeSelect, Command, NoWrite, UntouchedInv, medium
<1>6. CASE \/ \E r \in Requests : StartWrite(r[1], r[2])
           \/ (\E data \in Patterns : RxData(data)) \/ (\E f \in Formats : Format(f)) \/ StartBlank \/ BlankStep \/ CancelBlank
  <2>1. mode = "on" /\ ~readOnly /\ mode' = "on" /\ readOnly' = readOnly
    BY <1>6 DEF StartWrite, AcceptsWrite, RxData, Format, StartBlank, BlankStep, CancelBlank,
                Command, UntouchedInv
  <2> QED BY <1>3, <2>1
<1>7. CASE UNCHANGED vars BY <1>7 DEF vars, medium, UntouchedInv
<1> QED BY <1>1, <1>2, <1>4, <1>5, <1>6, <1>7 DEF Next

\* The NULL callback of a read-only mount: whatever the host sends and whatever
\* fails, neither the image on the card nor the metadata file changes.
THEOREM ReadOnlySafe == Spec => ReadOnlyUntouched
<1>1. Init => UntouchedInv BY DEF Init, UntouchedInv
<1>2. IInv /\ UntouchedInv /\ [Next]_vars => UntouchedInv' BY StepUntouched, RecorderAssumption
<1>3. IInv /\ UntouchedInv /\ [Next]_vars =>
        [mode = "on" /\ readOnly => UNCHANGED <<disk, meta>>]_vars
  BY StepUntouched, RecorderAssumption
<1> QED BY <1>1, <1>2, <1>3, Inductive, PTL DEF Spec, ReadOnlyUntouched

-----------------------------------------------------------------------------
(* BLANK.                                                                  *)

\* What a running blank operation has wiped so far.
WipedInv ==
  blank.phase = "active" =>
    ~readOnly /\ blank.lba < Blocks /\ (\A l \in Lba : l < blank.lba => image[l] = Zero)

\* The property, of one step
EmptyAtEnd ==
  blank.phase = "active" /\ mode' = "on" /\ blank'.phase = "idle" /\ blank'.lba = Blocks =>
    /\ \A l \in Lba : disk'[l] = Zero
    /\ rec' = Blank /\ meta' # NoMeta /\ meta'.state = Blank

\* scsi_blank_step: the wipe goes on from where it stands, and its last step
\* writes card, session and metadata.
LEMMA WipeStep ==
  ASSUME RecorderAssumption, IInv, WipedInv, BlankStep PROVE WipedInv' /\ EmptyAtEnd
<1> DEFINE last(capacity) == blank.lba + Least(Blocks - blank.lba, capacity)
           wiped(n) == {l \in Lba : l >= blank.lba /\ l < blank.lba + n}
           Ends(capacity, n) ==
             /\ blank.lba + n = last(capacity) /\ last(capacity) = Blocks /\ disk' = image'
             /\ rec' = Blank /\ Save(Blank, "ok")
           Wipes(capacity, n) ==
             /\ image' = [l \in Lba |-> IF l \in wiped(n) THEN Zero ELSE image[l]]
             /\ \/ /\ blank.lba + n = last(capacity) /\ last(capacity) < Blocks
                   /\ blank' = [phase |-> "active", lba |-> last(capacity)]
                \/ Ends(capacity, n) /\ blank' = [phase |-> "idle", lba |-> last(capacity)]
                \/ blank' = [phase |-> "failed", lba |-> last(capacity)]
                \/ blank' = [blank EXCEPT !.phase = "failed"]
<1>1. PICK capacity \in 1..MaxChunk : \E n \in 0..Least(Blocks - blank.lba, capacity) :
        Wipes(capacity, n)
  BY DEF BlankStep
<1>2. PICK n \in 0..Least(Blocks - blank.lba, capacity) : Wipes(capacity, n) BY <1>1
<1>3. /\ blank.lba \in Nat /\ Blocks \in Nat /\ capacity \in Int
      /\ ~readOnly /\ ~readOnly' /\ (\A l \in Lba : l < blank.lba => image[l] = Zero)
      /\ blank \in [phase : {"idle", "active", "failed"}, lba : 0..Blocks]
  BY DEF BlankStep, IInv, ModeInv, WipedInv, RecorderAssumption
<1>4. n \in Int
  <2>1. Least(Blocks - blank.lba, capacity) \in Int BY <1>3, LeastBound
  <2> QED BY <2>1
<1>5. \A l \in Lba : l < blank.lba + n => image'[l] = Zero
  <2>1. \A l \in Lba : l \in Int BY <1>3 DEF Lba
  <2> QED BY <1>2, <1>3, <1>4, <2>1
<1>6. WipedInv'
  <2>1. CASE /\ blank.lba + n = last(capacity) /\ last(capacity) < Blocks
             /\ blank' = [phase |-> "active", lba |-> last(capacity)]
    <3>1. blank'.lba = blank.lba + n /\ blank'.lba < Blocks BY <2>1
    <3> QED BY <1>3, <1>5, <3>1 DEF WipedInv
  <2>2. CASE blank'.phase # "active" BY <2>2 DEF WipedInv
  <2> QED BY <1>2, <1>3, <2>1, <2>2
<1>7. EmptyAtEnd
  <2> SUFFICES ASSUME blank'.phase = "idle", blank'.lba = Blocks
               PROVE  (\A l \in Lba : disk'[l] = Zero) /\ rec' = Blank /\ meta' # NoMeta /\ meta'.state = Blank
    BY DEF EmptyAtEnd
  <2>1. Ends(capacity, n) BY <1>2, <1>3
  <2>2. \A l \in Lba : l < blank.lba + n BY <1>3, <2>1 DEF Lba
  <2>3. meta'.valid = "yes" /\ meta'.state = Blank BY <1>3, <2>1 DEF Save
  <2>4. meta' # NoMeta BY <2>3 DEF NoMeta
  <2> QED BY <1>5, <2>1, <2>2, <2>3, <2>4
<1> QED BY <1>6, <1>7

\* The other steps end a blank operation, start one or leave it.
LEMMA StepWiped ==
  ASSUME RecorderAssumption, IInv, WipedInv, [Next]_vars PROVE WipedInv' /\ EmptyAtEnd
<1>1. CASE BlankStep BY <1>1, WipeStep
<1>2. CASE CancelBlank BY <1>2 DEF CancelBlank, WipedInv, EmptyAtEnd, IInv, ModeInv
<1>3. CASE StartBlank
  <2>1. 0 < Blocks /\ Lba \in SUBSET Nat BY DEF RecorderAssumption, Lba
  <2>2. blank' = [phase |-> "active", lba |-> 0] /\ ~readOnly' /\ blank.phase # "active"
    BY <1>3 DEF StartBlank, StartedBlank, Command
  <2> QED BY <2>1, <2>2 DEF WipedInv, EmptyAtEnd
<1>4. CASE Mount \/ Exit \/ Crash
  <2>1. blank'.phase = "idle" /\ (mode' = "off" \/ (mode = "off" /\ blank'.lba = 0))
    BY <1>4 DEF Mount, Exit, Crash, Unmounted, NoBlank
  <2>2. 0 # Blocks BY DEF RecorderAssumption
  <2> QED BY <2>1, <2>2 DEF WipedInv, EmptyAtEnd
<1>5. CASE \/ \E r \in Requests : StartWrite(r[1], r[2])
           \/ SyncCache \/ (\E multiSession \in BOOLEAN : ModeSelect(multiSession))
           \/ (\E session \in BOOLEAN : Close(session)) \/ (\E f \in Formats : Format(f))
  BY <1>5 DEF StartWrite, SyncCache, ModeSelect, Close, Format, Command, WipedInv, EmptyAtEnd
<1>6. CASE \E data \in Patterns : RxData(data)
  BY <1>6 DEF RxData, IInv, SessionInv, WipedInv, EmptyAtEnd
<1>7. CASE UNCHANGED vars
  BY <1>7 DEF vars, medium, WipedInv, EmptyAtEnd
<1> QED BY <1>1, <1>2, <1>3, <1>4, <1>5, <1>6, <1>7 DEF Next

\* scsi_blank_step: a BLANK that ends well leaves zeros on the card and an empty
\* disc in session and metadata, also when an earlier one stopped half-way.
THEOREM BlankComplete == Spec => BlankLeavesEmpty
<1>1. Init => WipedInv BY DEF Init, WipedInv, NoBlank
<1>2. IInv /\ WipedInv /\ [Next]_vars => WipedInv' BY StepWiped, RecorderAssumption
<1>3. IInv /\ WipedInv /\ [Next]_vars =>
        [blank.phase = "active" /\ mode' = "on" /\ blank'.phase = "idle" /\ blank'.lba = Blocks =>
           /\ \A l \in Lba : disk'[l] = Zero
           /\ rec' = Blank /\ meta' # NoMeta /\ meta'.state = Blank]_vars
  BY StepWiped, RecorderAssumption DEF EmptyAtEnd
<1> QED BY <1>1, <1>2, <1>3, Inductive, PTL DEF Spec, BlankLeavesEmpty

-----------------------------------------------------------------------------
(* What was recorded is on the medium.                                     *)

\* A block that the card lacks was ordered; so were the blocks below the write
\* pointer of the metadata file, on the card, and of the session, in the image.
KnownInv ==
  \A l \in Lba :
    /\ image[l] # disk[l] => image[l] \in recorded[l]
    /\ meta # NoMeta /\ l < meta.state.nwa => disk[l] \in recorded[l]
    /\ mode = "on" /\ l < rec.nwa => image[l] \in recorded[l]

\* What Track leaves of one block.
LEMMA TrackAt ==
  ASSUME NEW ordered, Track(ordered), NEW l \in Lba
  PROVE  recorded'[l] = IF image'[l] = disk'[l]
                        THEN (recorded[l] \cup ordered[l]) \cap {image'[l]}
                        ELSE recorded[l] \cup ordered[l]
  BY DEF Track

\* The metadata file is left alone, or tells of the synced session or of nothing.
Saves == \/ UNCHANGED meta
         \/ /\ disk' = image' /\ meta' # NoMeta
            /\ meta'.state.nwa = 0 \/ (mode = "on" /\ meta'.state.nwa = rec.nwa)

\* The write pointer is left alone, or goes with its session.
Points == mode' = "off" \/ rec'.nwa = 0 \/ (mode = "on" /\ rec'.nwa = rec.nwa)

Numbers == rec.nwa \in Nat /\ (meta # NoMeta => meta.state.nwa \in Nat)

\* A sync, successful or not.
LEMMA SyncKnown ==
  ASSUME RecorderAssumption, KnownInv, UNCHANGED image, disk' = image \/ disk' = disk,
         Track(Nothing), Saves, Points
  PROVE  KnownInv'
<1> SUFFICES ASSUME NEW l \in Lba
             PROVE  (/\ image[l] # disk[l] => image[l] \in recorded[l]
                     /\ meta # NoMeta /\ l < meta.state.nwa => disk[l] \in recorded[l]
                     /\ mode = "on" /\ l < rec.nwa => image[l] \in recorded[l])'
  BY DEF KnownInv, Lba
<1>1. /\ image[l] # disk[l] => image[l] \in recorded[l]
      /\ meta # NoMeta /\ l < meta.state.nwa => disk[l] \in recorded[l]
      /\ mode = "on" /\ l < rec.nwa => image[l] \in recorded[l]
  BY DEF KnownInv
<1>2. Nothing[l] = {} /\ ~(l < 0) BY DEF Nothing, Lba, RecorderAssumption
<1>3. recorded'[l] = IF image[l] = disk'[l] THEN recorded[l] \cap {image[l]} ELSE recorded[l]
  BY <1>2, TrackAt
<1> QED BY <1>1, <1>2, <1>3 DEF Saves, Points

\* A loss of power or of the card.
LEMMA SettleKnown ==
  ASSUME RecorderAssumption, KnownInv, Settle, Track(Nothing), UNCHANGED meta, mode' = "off"
  PROVE  KnownInv'
<1> SUFFICES ASSUME NEW l \in Lba
             PROVE  /\ image'[l] = disk'[l]
                    /\ meta # NoMeta /\ l < meta.state.nwa => disk'[l] \in recorded'[l]
  BY DEF KnownInv, Lba
<1>1. /\ image[l] # disk[l] => image[l] \in recorded[l]
      /\ meta # NoMeta /\ l < meta.state.nwa => disk[l] \in recorded[l]
  BY DEF KnownInv
<1>2. image' = disk' /\ disk'[l] \in {image[l], disk[l]} BY DEF Settle
<1>3. recorded'[l] = recorded[l] \cap {disk'[l]} BY <1>2, TrackAt DEF Nothing
<1> QED BY <1>1, <1>2, <1>3

\* Blocks stored as the host ordered; the pointer passes over some of them only.
LEMMA StoreKnown ==
  ASSUME RecorderAssumption, KnownInv, NEW T \in SUBSET Lba, NEW val,
         image' = [l \in Lba |-> IF l \in T THEN val[l] ELSE image[l]],
         Track([l \in Lba |-> IF l \in T THEN {val[l]} ELSE {}]),
         disk' = disk \/ disk' = image', Saves,
         mode' = "on" => mode = "on" /\ \A l \in Lba : l < rec'.nwa => l < rec.nwa \/ l \in T
  PROVE  KnownInv'
<1> SUFFICES ASSUME NEW l \in Lba
             PROVE  (/\ image[l] # disk[l] => image[l] \in recorded[l]
                     /\ meta # NoMeta /\ l < meta.state.nwa => disk[l] \in recorded[l]
                     /\ mode = "on" /\ l < rec.nwa => image[l] \in recorded[l])'
  BY DEF KnownInv, Lba
<1> DEFINE ordered == [k \in Lba |-> IF k \in T THEN {val[k]} ELSE {}]
<1>1. /\ image[l] # disk[l] => image[l] \in recorded[l]
      /\ meta # NoMeta /\ l < meta.state.nwa => disk[l] \in recorded[l]
      /\ mode = "on" /\ l < rec.nwa => image[l] \in recorded[l]
  BY DEF KnownInv
<1>2. ordered[l] = (IF l \in T THEN {val[l]} ELSE {}) /\ ~(l < 0)
      /\ image'[l] = IF l \in T THEN val[l] ELSE image[l]
  BY DEF Lba, RecorderAssumption
<1>3. Track(ordered) OBVIOUS
<1> HIDE DEF ordered
<1>4. recorded'[l] = IF image'[l] = disk'[l]
                     THEN (recorded[l] \cup ordered[l]) \cap {image'[l]}
                     ELSE recorded[l] \cup ordered[l]
  BY <1>3, TrackAt
<1>5. image'[l] # disk'[l] => image'[l] \in recorded'[l] BY <1>1, <1>2, <1>4
<1>6. mode' = "on" /\ l < rec'.nwa => image'[l] \in recorded'[l] BY <1>1, <1>2, <1>4
<1>7. meta' # NoMeta /\ l < meta'.state.nwa => disk'[l] \in recorded'[l]
  BY <1>1, <1>2, <1>4 DEF Saves
<1> QED BY <1>5, <1>6, <1>7

\* What Save does to the metadata file.
LEMMA SaveSaves ==
  ASSUME NEW st, NEW verdict, Save(st, verdict), disk' = image',
         st.nwa = 0 \/ (mode = "on" /\ st.nwa = rec.nwa)
  PROVE  Saves
<1>1. CASE meta' = [valid |-> "yes", state |-> st, fp |-> Fingerprint(image', st.nwa)]
  <2>1. meta'.valid = "yes" /\ meta'.state = st BY <1>1
  <2>2. meta' # NoMeta BY <2>1 DEF NoMeta
  <2> QED BY <2>1, <2>2 DEF Saves
<1> QED BY <1>1 DEF Save, Saves

\* Commands that sync, and a clean exit.
LEMMA SyncStepKnown ==
  ASSUME RecorderAssumption, IInv, KnownInv,
         \/ SyncCache \/ (\E session \in BOOLEAN : Close(session)) \/ CancelBlank
         \/ \E f \in Formats : Format(f) /\ ~f.tryOut
  PROVE  KnownInv'
<1>1. CASE SyncCache
  <2>1. PICK verdict \in {"ok", "nok"} : SessionSync(rec, verdict) BY <1>1 DEF SyncCache
  <2>2. mode = "on" /\ UNCHANGED <<rec, image>> /\ Track(Nothing) BY <1>1 DEF SyncCache, Command
  <2>3. (disk' = image \/ disk' = disk) /\ Saves
    BY <2>1, <2>2, SaveSaves DEF SessionSync, SyncFails, Saves
  <2> QED BY <2>2, <2>3, SyncKnown DEF Points
<1>2. CASE \E session \in BOOLEAN : Close(session)
  <2>1. PICK session \in BOOLEAN : Close(session) BY <1>2
  <2>2. mode = "on" /\ UNCHANGED image /\ Track(Nothing) BY <2>1 DEF Close, Command
  <2>3. Closed.nwa = rec.nwa BY DEF Closed, IInv, SessionInv, Sound, StateType
  <2>4. CASE SyncFails /\ UNCHANGED rec
    BY <2>2, <2>4, SyncKnown DEF Points, Saves, SyncFails
  <2>5. CASE \E verdict \in {"ok", "nok"} :
               /\ rec' = IF session THEN Closed ELSE rec
               /\ disk' = image /\ Save(rec', verdict)
    <3>1. rec'.nwa = rec.nwa BY <2>3, <2>5
    <3>2. Saves BY <2>2, <2>5, <3>1, SaveSaves
    <3> QED BY <2>2, <2>5, <3>1, <3>2, SyncKnown DEF Points
  <2> QED BY <2>1, <2>4, <2>5 DEF Close
<1>3. CASE CancelBlank
  <2>1. UNCHANGED <<rec, image, meta>> /\ Track(Nothing) /\ (disk' = image \/ disk' = disk)
        /\ mode = "on"
    BY <1>3 DEF CancelBlank, SyncFails
  <2> QED BY <2>1, SyncKnown DEF Points, Saves
<1>4. CASE \E f \in Formats : Format(f) /\ ~f.tryOut
  <2>1. PICK f \in Formats : Format(f) /\ ~f.tryOut BY <1>4
  <2>2. /\ UNCHANGED image /\ Track(Nothing) /\ rec'.nwa = 0
        /\ \E verdict \in {"ok", "nok"} : SessionSync(rec', verdict)
    BY <2>1 DEF Format, FormatState
  <2>3. (disk' = image \/ disk' = disk) /\ Saves
    BY <2>2, SaveSaves DEF SessionSync, SyncFails, Saves
  <2> QED BY <2>2, <2>3, SyncKnown DEF Points
<1> QED BY <1>1, <1>2, <1>3, <1>4

\* Steps that leave medium, metadata and history alone.
LEMMA QuietKnown ==
  ASSUME KnownInv, UNCHANGED <<image, disk, recorded, meta>>,
         mode' = mode, rec' = rec
  PROVE  KnownInv'
  BY DEF KnownInv, Lba

\* Mounting: the session starts with the pointer of the file, or with none.
LEMMA MountKnown ==
  ASSUME RecorderAssumption, IInv, UntouchedInv, KnownInv, Mount PROVE KnownInv'
<1>1. UNCHANGED <<image, disk, recorded, meta>> /\ image = disk
  BY DEF Mount, medium, history, UntouchedInv
<1>2. rec'.nwa = 0 \/ (meta # NoMeta /\ rec'.nwa = meta.state.nwa)
  BY DEF Mount, Loadable, FormattedByUdf, Blank
<1>3. \A l \in Lba : ~(l < 0) BY DEF Lba, RecorderAssumption
<1> QED BY <1>1, <1>2, <1>3 DEF KnownInv, Lba

\* Leaving the scene, and a loss of power.
LEMMA LeaveKnown ==
  ASSUME RecorderAssumption, IInv, KnownInv, Exit \/ Crash PROVE KnownInv'
<1>1. mode = "on" /\ mode' = "off" /\ Track(Nothing) BY DEF Exit, Crash, Unmounted
<1>2. CASE Settle /\ UNCHANGED meta BY <1>1, <1>2, SettleKnown
<1>3. CASE \E verdict \in {"ok", "nok"} : UNCHANGED image /\ disk' = image /\ Save(rec, verdict)
  <2>1. Saves BY <1>1, <1>3, SaveSaves
  <2> QED BY <1>1, <1>3, <2>1, SyncKnown DEF Points
<1> QED BY <1>2, <1>3 DEF Exit, Crash

\* A buffer of a WRITE: the pointer of a sequential disc passes over the blocks
\* that went to the image, and no others.
LEMMA RxDataKnown ==
  ASSUME RecorderAssumption, IInv, KnownInv, NEW data \in Patterns, RxData(data) PROVE KnownInv'
<1> DEFINE Upto(first, n) == {l \in Lba : l >= first /\ l < first + n}
           Store(first, n) ==
             /\ image' = [l \in Lba |-> IF l \in Upto(first, n) THEN data[l] ELSE image[l]]
             /\ Track([l \in Lba |-> IF l \in Upto(first, n) THEN {data[l]} ELSE {}])
           discard(blocks) == IF write.lba < 0 THEN Least(-write.lba, blocks) ELSE 0
<1>1. PICK blocks \in Chunks :
        \/ /\ Store(write.lba + discard(blocks), blocks - discard(blocks))
           /\ rec' = Advance(blocks, blocks - discard(blocks))
        \/ /\ \E n \in 0..(blocks - discard(blocks) - 1) : Store(write.lba + discard(blocks), n)
           /\ UNCHANGED rec
  BY DEF RxData
<1>2. /\ mode = "on" /\ mode' = "on" /\ UNCHANGED <<disk, meta>> /\ Sound(rec)
      /\ write.lba \in Int /\ write.count \in Nat /\ write.count > 0
      /\ ~Formatted => rec.nwa = IF write.lba < 0 THEN 0 ELSE write.lba
  BY DEF RxData, IInv, SessionInv, WriteType, WriteOK
<1>3. blocks \in 1..write.count
  <2>1. MaxChunk \in Int /\ write.count \in Int BY <1>2 DEF RecorderAssumption
  <2>2. Least(MaxChunk, write.count) \in Int /\ Least(MaxChunk, write.count) <= write.count
    BY ONLY <2>1, LeastBound
  <2> QED BY <1>2, <2>2 DEF Chunks
<1>4. /\ discard(blocks) \in Nat /\ blocks - discard(blocks) \in Nat
      /\ write.lba >= 0 => discard(blocks) = 0
      /\ write.lba < 0 /\ blocks - discard(blocks) > 0 => write.lba + discard(blocks) = 0
  BY <1>2, <1>3 DEF Least
<1> DEFINE stored == blocks - discard(blocks)
           first == write.lba + discard(blocks)
<1>5. stored \in Nat /\ first \in Int /\ (~Formatted /\ stored > 0 => first = rec.nwa)
  BY <1>2, <1>3, <1>4
<1>6. \/ Store(first, stored) /\ rec' = Advance(blocks, stored)
      \/ (\E n \in 0..(stored - 1) : Store(first, n)) /\ UNCHANGED rec
  BY <1>1
<1>7. \A l \in Lba : l \in Int BY DEF Lba
<1> HIDE DEF stored, first
<1>8. CASE Store(first, stored) /\ rec' = Advance(blocks, stored)
  <2>1. ASSUME NEW l \in Lba, l < rec'.nwa PROVE l < rec.nwa \/ l \in Upto(first, stored)
    <3>1. CASE stored = 0 \/ Formatted BY <1>8, <2>1, <3>1 DEF Advance
    <3>2. CASE stored > 0 /\ ~Formatted
      <4>1. rec'.nwa = rec.nwa + stored BY <1>2, <1>8, <3>2 DEF Advance, Sound, StateType
      <4> QED BY <1>2, <1>5, <1>7, <2>1, <3>2, <4>1 DEF Sound, StateType
    <3> QED BY <1>5, <3>1, <3>2
  <2> DEFINE T == Upto(first, stored)
  <2>2. T \in SUBSET Lba OBVIOUS
  <2>3. /\ image' = [l \in Lba |-> IF l \in T THEN data[l] ELSE image[l]]
        /\ Track([l \in Lba |-> IF l \in T THEN {data[l]} ELSE {}])
    BY <1>8
  <2>4. \A l \in Lba : l < rec'.nwa => l < rec.nwa \/ l \in T BY <2>1
  <2> HIDE DEF T
  <2> QED BY <1>2, <2>2, <2>3, <2>4, StoreKnown DEF Saves
<1>9. CASE (\E n \in 0..(stored - 1) : Store(first, n)) /\ UNCHANGED rec
  <2>1. PICK n \in 0..(stored - 1) : Store(first, n) BY <1>9
  <2> DEFINE T == Upto(first, n)
  <2>2. T \in SUBSET Lba OBVIOUS
  <2>3. /\ image' = [l \in Lba |-> IF l \in T THEN data[l] ELSE image[l]]
        /\ Track([l \in Lba |-> IF l \in T THEN {data[l]} ELSE {}])
    BY <2>1
  <2> HIDE DEF T
  <2> QED BY <1>2, <1>9, <2>2, <2>3, StoreKnown DEF Saves
<1> QED BY <1>6, <1>8, <1>9

\* A step of the wipe, which ends with the pointer at 0.
LEMMA BlankStepKnown ==
  ASSUME RecorderAssumption, IInv, KnownInv, BlankStep PROVE KnownInv'
<1> DEFINE wiped(n) == {l \in Lba : l >= blank.lba /\ l < blank.lba + n}
           Wipes(n) ==
             /\ image' = [l \in Lba |-> IF l \in wiped(n) THEN Zero ELSE image[l]]
             /\ Track([l \in Lba |-> IF l \in wiped(n) THEN {Zero} ELSE {}])
             /\ \/ UNCHANGED <<rec, disk, meta>>
                \/ disk' = image' /\ rec' = Blank /\ \E verdict \in {"ok", "nok"} : Save(Blank, verdict)
<1>1. PICK n : Wipes(n) BY DEF BlankStep, SyncFails
<1>2. mode = "on" /\ mode' = "on" /\ Blank.nwa = 0 BY DEF BlankStep, Blank
<1>3. \A l \in Lba : ~(l < 0) BY DEF Lba, RecorderAssumption
<1>4. (disk' = disk \/ disk' = image') /\ Saves BY <1>1, <1>2, SaveSaves DEF Saves
<1>5. \A l \in Lba : l < rec'.nwa => l < rec.nwa BY <1>1, <1>2, <1>3
<1> DEFINE T == wiped(n)
           val == [l \in Lba |-> Zero]
<1>6. T \in SUBSET Lba OBVIOUS
<1>7. /\ image' = [l \in Lba |-> IF l \in T THEN val[l] ELSE image[l]]
      /\ Track([l \in Lba |-> IF l \in T THEN {val[l]} ELSE {}])
  <2>1. [l \in Lba |-> IF l \in T THEN val[l] ELSE image[l]]
          = [l \in Lba |-> IF l \in T THEN Zero ELSE image[l]]
    OBVIOUS
  <2>2. [l \in Lba |-> IF l \in T THEN {val[l]} ELSE {}]
          = [l \in Lba |-> IF l \in T THEN {Zero} ELSE {}]
    OBVIOUS
  <2> QED BY <1>1, <2>1, <2>2
<1> HIDE DEF T, val
<1> QED BY <1>2, <1>4, <1>5, <1>6, <1>7, StoreKnown

\* Every step keeps it.
LEMMA StepKnown ==
  ASSUME RecorderAssumption, IInv, UntouchedInv, KnownInv, [Next]_vars PROVE KnownInv'
<1>1. CASE UNCHANGED vars BY <1>1, QuietKnown DEF vars, medium, history
<1>2. CASE \/ \E r \in Requests : StartWrite(r[1], r[2])
           \/ (\E multiSession \in BOOLEAN : ModeSelect(multiSession)) \/ StartBlank
           \/ \E f \in Formats : Format(f) /\ f.tryOut
  <2>1. mode' = mode /\ UNCHANGED <<rec, image, disk, recorded, meta>>
    BY <1>2 DEF StartWrite, ModeSelect, StartBlank, Format, Command, medium, history
  <2> QED BY <2>1, QuietKnown
<1>3. CASE \E data \in Patterns : RxData(data) BY <1>3, RxDataKnown
<1>4. CASE \/ SyncCache \/ (\E session \in BOOLEAN : Close(session)) \/ CancelBlank
           \/ \E f \in Formats : Format(f) /\ ~f.tryOut
  BY <1>4, SyncStepKnown
<1> QED BY <1>1, <1>2, <1>3, <1>4, MountKnown, LeaveKnown, BlankStepKnown DEF Next

\* scsi_session_sync saves the state only when its blocks are on the card, and
\* scsi_cmd_rx_data moves the pointer only over stored blocks: what lies below it
\* is what the host ordered, in a restored session too.
THEOREM RecordedIsThere == Spec => []RecordedBelowPointer
<1>1. Init => UntouchedInv /\ KnownInv
  BY DEF Init, UntouchedInv, KnownInv, Blank, NoMeta
<1>2. IInv /\ UntouchedInv /\ KnownInv /\ [Next]_vars => UntouchedInv' /\ KnownInv'
  BY StepUntouched, StepKnown, RecorderAssumption
<1>3. KnownInv => RecordedBelowPointer BY DEF KnownInv, RecordedBelowPointer
<1> QED BY <1>1, <1>2, <1>3, Inductive, PTL DEF Spec

-----------------------------------------------------------------------------
(* What was acknowledged as saved is mounted again.                        *)

\* The blocks that the promise p, and the fingerprint saved with it, rest on
Relied(p) == IF p.state.nwa > 0 THEN {l \in Lba : l < p.state.nwa \/ l = SampleLba} ELSE Lba

\* The file holds the promised state, and image and card what it relies on.
KeptInv ==
  promise # NoPromise =>
    /\ meta # NoMeta /\ meta.state = promise.state
    /\ promise.image \in [Lba -> Contents]
    /\ meta.fp = Fingerprint(promise.image, promise.state.nwa)
    /\ \A l \in Relied(promise) : image[l] = promise.image[l] /\ disk[l] = promise.image[l]

\* The fingerprint samples only what the promise relies on.
LEMMA FingerprintRelies ==
  ASSUME RecorderAssumption, NEW p, p.state.nwa \in Nat, p.state.nwa <= Blocks,
         NEW img, NEW other, \A l \in Relied(p) : img[l] = other[l]
  PROVE  Fingerprint(img, p.state.nwa) = Fingerprint(other, p.state.nwa)
<1> DEFINE span == IF p.state.nwa \in 1..Blocks THEN p.state.nwa ELSE Blocks
           sampled == {0, SampleLba, span \div 2, span - 1} \cap Lba
<1>1. span \in Nat /\ Relied(p) \in SUBSET Lba BY DEF RecorderAssumption, Relied
<1>2. sampled \in SUBSET Relied(p)
  <2>1. CASE p.state.nwa > 0
    <3>1. span = p.state.nwa BY <2>1 DEF RecorderAssumption
    <3>2. 0 < span /\ span \div 2 < span /\ span - 1 < span BY <1>1, <2>1, <3>1
    <3> HIDE DEF span
    <3> QED BY <2>1, <3>1, <3>2 DEF Relied
  <2>2. CASE ~(p.state.nwa > 0) BY <2>2 DEF Relied
  <2> QED BY <2>1, <2>2
<1> HIDE DEF sampled
<1>3. [l \in sampled |-> Sample(img[l])] = [l \in sampled |-> Sample(other[l])] BY <1>2
<1> QED BY <1>3 DEF Fingerprint, sampled, span

\* A step that leaves promise and metadata alone, and what they rely on.
LEMMA SameKept ==
  ASSUME KeptInv, UNCHANGED <<promise, meta>>,
         \A l \in Lba : image'[l] \in {image[l], disk[l]} /\ disk'[l] \in {image[l], disk[l]}
  PROVE  KeptInv'
<1>1. SUFFICES ASSUME promise # NoPromise PROVE KeptInv' BY DEF KeptInv
<1>2. Relied(promise) \in SUBSET Lba BY DEF Relied
<1> QED BY <1>1, <1>2 DEF KeptInv, Fingerprint, Relied

\* Saved and acknowledged: the new promise, or the old one.
LEMMA SavedKept ==
  ASSUME KeptInv, IInv, NEW st \in StateType, NEW verdict, Save(st, verdict),
         Acknowledge(st, verdict), verdict \in {"ok", "nok"},
         disk' = image', image' \in [Lba -> Contents],
         verdict = "nok" \/ readOnly => \A l \in Lba : image'[l] \in {image[l], disk[l]}
  PROVE  KeptInv'
<1>1. CASE UNCHANGED <<promise, meta>> /\ (verdict = "nok" \/ readOnly) BY <1>1, SameKept
<1>2. CASE /\ promise' = [made |-> "yes", state |-> st, image |-> image']
           /\ meta' = [valid |-> "yes", state |-> st, fp |-> Fingerprint(image', st.nwa)]
  <2>1. /\ promise'.state = st /\ promise'.image = image'
        /\ meta'.valid = "yes" /\ meta'.state = st /\ meta'.fp = Fingerprint(image', st.nwa)
    BY <1>2
  <2>2. meta' # NoMeta BY <2>1 DEF NoMeta
  <2> QED BY <2>1, <2>2 DEF KeptInv
<1> QED BY <1>1, <1>2 DEF Save, Acknowledge

\* Blocks are stored: the promise is kept if it does not rely on them.
LEMMA StoredKept ==
  ASSUME RecorderAssumption, IInv, KeptInv, NEW T \in SUBSET Lba, Keep(T), UNCHANGED meta,
         \A l \in Lba : l \notin T => image'[l] = image[l], disk' = disk \/ disk' = image'
  PROVE  KeptInv'
<1>1. SUFFICES ASSUME promise' # NoPromise PROVE KeptInv' BY DEF KeptInv
<1>2. promise' = promise /\ promise # NoPromise BY <1>1 DEF Keep
<1>3. T = {} \/ (promise.state.nwa > 0 /\ SampleLba \notin T /\ \A l \in T : l >= promise.state.nwa)
  BY <1>1, <1>2 DEF Keep
<1>4. promise.state.nwa \in Nat /\ \A l \in Lba : l \in Int
  BY <1>2 DEF IInv, HistoryInv, StateType, Lba
<1>5. \A l \in Relied(promise) : l \in Lba /\ l \notin T BY <1>3, <1>4 DEF Relied
<1>6. \A l \in Relied(promise) : image'[l] = promise.image[l] /\ disk'[l] = promise.image[l]
  BY <1>2, <1>5 DEF KeptInv
<1> QED BY <1>2, <1>6 DEF KeptInv, Fingerprint, Relied

\* Commands that sync, and a clean exit.
LEMMA SyncStepKept ==
  ASSUME RecorderAssumption, IInv, KeptInv,
         \/ SyncCache \/ (\E session \in BOOLEAN : Close(session)) \/ CancelBlank \/ Exit
         \/ \E f \in Formats : Format(f) /\ ~f.tryOut
  PROVE  KeptInv'
<1>1. Sound(rec) /\ image \in [Lba -> Contents] /\ disk \in [Lba -> Contents]
  BY DEF IInv, SessionInv, HistoryInv
<1>2. ASSUME UNCHANGED <<image, meta, promise>>, disk' = disk \/ disk' = image PROVE KeptInv'
  BY <1>2, SameKept
<1>3. ASSUME UNCHANGED image, disk' = image, NEW st \in StateType, NEW verdict \in {"ok", "nok"},
             Save(st, verdict), Acknowledge(st, verdict)
      PROVE  KeptInv'
  BY <1>1, <1>3, SavedKept
<1>4. ASSUME UNCHANGED image, NEW st \in StateType, NEW verdict \in {"ok", "nok"},
             SessionSync(st, verdict), Acknowledge(st, verdict)
      PROVE  KeptInv'
  <2>1. CASE disk' = image' /\ Save(st, verdict) BY <1>3, <1>4, <2>1
  <2>2. CASE verdict = "nok" /\ SyncFails BY <1>2, <1>4, <2>2 DEF SyncFails, Acknowledge
  <2> QED BY <1>4, <2>1, <2>2 DEF SessionSync
<1>5. CASE SyncCache BY <1>1, <1>4, <1>5 DEF SyncCache, Sound
<1>6. CASE \E session \in BOOLEAN : Close(session)
  <2>1. PICK session \in BOOLEAN : Close(session) BY <1>6
  <2>2. UNCHANGED image BY <2>1 DEF Close
  <2>3. CASE SyncFails /\ UNCHANGED <<rec, promise>> BY <1>2, <2>2, <2>3 DEF SyncFails
  <2>4. CASE \E verdict \in {"ok", "nok"} :
               /\ rec' = IF session THEN Closed ELSE rec
               /\ disk' = image /\ Save(rec', verdict) /\ Acknowledge(rec', verdict)
    <3>1. rec' \in StateType BY <1>1, <2>4, ClosedSound DEF Sound
    <3> QED BY <1>3, <2>2, <2>4, <3>1
  <2> QED BY <2>1, <2>3, <2>4 DEF Close
<1>7. CASE CancelBlank
  <2>1. UNCHANGED <<image, meta, promise>> /\ (disk' = disk \/ disk' = image)
    BY <1>7 DEF CancelBlank, SyncFails
  <2> QED BY <1>2, <2>1
<1>8. CASE Exit
  <2>1. CASE Settle /\ UNCHANGED <<meta, promise>> BY <2>1, SameKept DEF Settle
  <2>2. CASE \E verdict \in {"ok", "nok"} :
               /\ UNCHANGED image /\ disk' = image /\ Save(rec, verdict)
               /\ Acknowledge(rec, verdict)
    BY <1>1, <1>3, <2>2 DEF Sound
  <2> QED BY <1>8, <2>1, <2>2 DEF Exit
<1>9. CASE \E f \in Formats : Format(f) /\ ~f.tryOut
  <2>1. PICK f \in Formats : Format(f) /\ ~f.tryOut BY <1>9
  <2>2. /\ UNCHANGED image /\ rec' = FormatState(f) /\ FormatBlocks(f) > 0
        /\ \E verdict \in {"ok", "nok"} : SessionSync(rec', verdict) /\ Acknowledge(rec', verdict)
    BY <2>1 DEF Format
  <2>3. rec' \in StateType BY <2>2, FormatSound DEF RecorderAssumption, Sound
  <2> QED BY <1>4, <2>2, <2>3
<1> QED BY <1>5, <1>6, <1>7, <1>8, <1>9

\* A buffer of a WRITE.
LEMMA RxDataKept ==
  ASSUME RecorderAssumption, IInv, KeptInv, NEW data \in Patterns, RxData(data) PROVE KeptInv'
<1> DEFINE Upto(first, n) == {l \in Lba : l >= first /\ l < first + n}
           Store(first, n) ==
             /\ image' = [l \in Lba |-> IF l \in Upto(first, n) THEN data[l] ELSE image[l]]
             /\ Keep(Upto(first, n))
           discard(blocks) == IF write.lba < 0 THEN Least(-write.lba, blocks) ELSE 0
<1>0. PICK blocks \in Chunks :
        \/ Store(write.lba + discard(blocks), blocks - discard(blocks))
        \/ \E n \in 0..(blocks - discard(blocks) - 1) : Store(write.lba + discard(blocks), n)
  BY DEF RxData
<1> HIDE DEF Store
<1>1. PICK first, n : Store(first, n) BY <1>0
<1> USE DEF Store
<1>2. UNCHANGED <<disk, meta>> BY DEF RxData
<1> DEFINE T == Upto(first, n)
<1>3. T \in SUBSET Lba /\ Keep(T) /\ \A l \in Lba : l \notin T => image'[l] = image[l] BY <1>1
<1> HIDE DEF T, Store
<1> QED BY <1>2, <1>3, StoredKept

\* A step of the wipe; the last one makes a promise of its own, if it is saved.
LEMMA BlankStepKept ==
  ASSUME RecorderAssumption, IInv, UntouchedInv, KeptInv, BlankStep, image' \in [Lba -> Contents]
  PROVE  KeptInv'
<1> DEFINE wiped(n) == {l \in Lba : l >= blank.lba /\ l < blank.lba + n}
           Wipes(T) ==
             /\ image' = [l \in Lba |-> IF l \in T THEN Zero ELSE image[l]]
             /\ \/ Keep(T) /\ UNCHANGED <<disk, meta>>
                \/ disk' = image' /\ Save(Blank, "ok") /\ Acknowledge(Blank, "ok")
                \/ disk' = image' /\ Save(Blank, "nok") /\ Keep(T)
<1>1. PICK n : Wipes(wiped(n)) BY DEF BlankStep, SyncFails
<1>2. ~readOnly BY DEF BlankStep, UntouchedInv
<1> DEFINE T == wiped(n)
<1>3. T \in SUBSET Lba /\ \A l \in Lba : l \notin T => image'[l] = image[l] BY <1>1
<1>4. CASE disk' = image' /\ Save(Blank, "ok") /\ Acknowledge(Blank, "ok")
  BY <1>2, <1>4, SavedKept, BlankSound DEF Sound
<1>5. CASE Keep(T) /\ UNCHANGED <<disk, meta>>
  <2> HIDE DEF T
  <2> QED BY <1>3, <1>5, StoredKept
<1>6. CASE disk' = image' /\ Save(Blank, "nok") /\ Keep(T)
  <2>1. UNCHANGED meta BY <1>2, <1>6 DEF Save
  <2> HIDE DEF T
  <2> QED BY <1>3, <1>6, <2>1, StoredKept
<1> QED BY <1>1, <1>4, <1>5, <1>6

\* Every step keeps what the promise needs.
LEMMA StepKept ==
  ASSUME RecorderAssumption, IInv, UntouchedInv, KeptInv, [Next]_vars PROVE KeptInv'
<1>1. CASE UNCHANGED <<image, disk, meta, promise>> BY <1>1, SameKept
<1>2. CASE UNCHANGED vars BY <1>1, <1>2 DEF vars, medium, history
<1>3. CASE \/ Mount \/ \E r \in Requests : StartWrite(r[1], r[2])
           \/ (\E multiSession \in BOOLEAN : ModeSelect(multiSession)) \/ StartBlank
           \/ \E f \in Formats : Format(f) /\ f.tryOut
  <2>1. UNCHANGED <<image, disk, meta, promise>>
    BY <1>3 DEF Mount, StartWrite, ModeSelect, StartBlank, Format, medium, history
  <2> QED BY <1>1, <2>1
<1>4. CASE Crash
  <2>1. Settle /\ UNCHANGED <<meta, promise>> BY <1>4 DEF Crash
  <2> QED BY <2>1, SameKept DEF Settle
<1>5. CASE BlankStep
  <2>1. image' \in [Lba -> Contents] BY <1>5, BlankStepStep DEF IInv, HistoryInv
  <2> QED BY <1>5, <2>1, BlankStepKept
<1>6. CASE \E data \in Patterns : RxData(data) BY <1>6, RxDataKept
<1>7. CASE \/ SyncCache \/ (\E session \in BOOLEAN : Close(session)) \/ CancelBlank \/ Exit
           \/ \E f \in Formats : Format(f) /\ ~f.tryOut
  BY <1>7, SyncStepKept
<1> QED BY <1>2, <1>3, <1>4, <1>5, <1>6, <1>7 DEF Next

\* A promised state passes the checks of file_load_optical_state.
LEMMA MountRestores ==
  ASSUME RecorderAssumption, Aligned, IInv, UntouchedInv, KeptInv, Mount, promise # NoPromise
  PROVE  RestoredAs(promise)'
<1> DEFINE p == promise
<1>1. /\ UNCHANGED <<image, promise>> /\ meta # NoMeta /\ Sound(meta.state)
      /\ meta.state = p.state /\ meta.fp = Fingerprint(p.image, p.state.nwa)
      /\ \A l \in Relied(p) : image[l] = p.image[l]
  BY DEF Mount, medium, history, KeptInv, IInv, SessionInv, MetaOK
<1>2. p.state.nwa \in Nat /\ p.state.nwa <= Blocks BY <1>1 DEF Sound, StateType, Consistent
<1>3. Fingerprint(image, p.state.nwa) = meta.fp
  <2> HIDE DEF p
  <2> QED BY <1>1, <1>2, FingerprintRelies
<1>4. Loadable BY <1>1, <1>3 DEF Loadable, Sound, Consistent
<1>5. rec' = p.state BY <1>1, <1>4 DEF Mount
<1>6. \A l \in Lba : (p.state.nwa > 0 => l < p.state.nwa) => image[l] = p.image[l]
  BY <1>1, <1>2 DEF Relied
<1> QED BY <1>1, <1>5, <1>6 DEF RestoredAs

\* file_save_optical_state and file_load_optical_state: on an image of whole
\* blocks, what was acknowledged as saved is what the next mount starts with, after
\* a loss of power too, and although the host went on appending.
THEOREM SavedIsRestored == ASSUME Aligned PROVE Spec => Durable
<1>1. Init => UntouchedInv /\ KeptInv BY DEF Init, UntouchedInv, KeptInv
<1>2. IInv /\ UntouchedInv /\ KeptInv /\ [Next]_vars => UntouchedInv' /\ KeptInv'
  BY StepUntouched, StepKept, RecorderAssumption
<1>3. IInv /\ UntouchedInv /\ KeptInv /\ [Next]_vars =>
        [mode = "off" /\ mode' = "on" /\ promise # NoPromise => RestoredAs(promise)']_vars
  <2> SUFFICES ASSUME IInv, UntouchedInv, KeptInv, Next, mode = "off", mode' = "on",
                      promise # NoPromise
               PROVE  RestoredAs(promise)'
    OBVIOUS
  <2>1. Mount
    BY DEF Next, Exit, Crash, StartWrite, RxData, SyncCache, ModeSelect, Close, Format,
           StartBlank, BlankStep, CancelBlank, Command
  <2> QED BY <2>1, MountRestores, RecorderAssumption
<1> QED BY <1>1, <1>2, <1>3, Inductive, PTL DEF Spec, Durable

=============================================================================
