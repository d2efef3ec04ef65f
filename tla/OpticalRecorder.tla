---------------------------- MODULE OpticalRecorder ----------------------------
(***************************************************************************)
(* The CD-RW emulation of helpers/mass_storage_scsi.c together with what   *)
(* scenes/mass_storage_scene_work.c and helpers/mass_storage_metadata.c    *)
(* keep of it across mounts: the recording state of the SCSI session, the  *)
(* image with what of it has reached the card, the companion metadata      *)
(* file, and unmounting, power loss and remounting.                        *)
(*                                                                         *)
(* One action is one SCSI command, or one call of the data phase or of the *)
(* background blank.  The image has Blocks blocks of 2048 bytes; what a    *)
(* block holds is one of a few contents: Zero, Udf (the block that makes   *)
(* the image a UDF volume) and whatever the host's Patterns write.         *)
(***************************************************************************)
EXTENDS Integers

CONSTANTS Blocks,      \* whole blocks of the image
          Aligned,     \* the size of the image is a multiple of 2048
          SampleLba,   \* block 16: fingerprint sample, volume recognition
          PacketSize,  \* CD_RW_PACKET_SIZE
          MaxChunk,    \* blocks in one buffer of the transport
          Contents,    \* what a block may hold
          Zero, Udf,   \* two of them
          LookAlike,   \* contents whose sampled bytes are those of Zero
          Patterns,    \* what the host writes: block -> content
          Requests,    \* <<lba, count>> of the WRITEs the host sends
          Formats,     \* parameter lists of the FORMAT UNITs the host sends
          MaxCmds,     \* bound: commands the host sends
          MaxCrashes,  \* bound: losses of power
          Faults       \* what may fail: "media", "sync", "save"

Lba == 0..(Blocks - 1)

FormatType == [blocks : Nat, type : {"full", "cdrw"}, param : Nat, tryOut : BOOLEAN]

ASSUME RecorderAssumption ==
  /\ Blocks \in Nat /\ PacketSize \in Nat \ {0} /\ PacketSize <= Blocks
  /\ Aligned \in BOOLEAN /\ SampleLba \in Nat /\ MaxChunk \in Nat \ {0}
  /\ Zero \in Contents /\ Udf \in Contents /\ Zero # Udf
  /\ LookAlike \subseteq Contents \ {Udf}
  /\ Patterns \subseteq [Lba -> Contents]
  /\ Requests \subseteq Int \X Nat
  /\ Formats \subseteq FormatType
  /\ MaxCmds \in Nat /\ MaxCrashes \in Nat
  /\ Faults \subseteq {"media", "sync", "save"}

VARIABLES
  mode,      \* "off", or "on": scene_work has started the USB session
  readOnly,  \* the mount option
  rec,       \* SCSIOpticalState: [nwa, formatted, packet, flags]
  multi,     \* optical_multi_session
  write,     \* the WRITE in its data phase: [lba, count] still to come
  blank,     \* [phase, lba]: the background blank operation
  image,     \* what reads of the open file return
  disk,      \* what is on the card
  meta,      \* the metadata file: a SCSIOpticalState and a fingerprint
  promise,   \* history: the last state acknowledged as saved, while it must last
  recorded,  \* history: what each block may hold by what the host ordered
  cmds, crashes

medium  == <<image, disk>>
bounds  == <<cmds, crashes>>
history == <<promise, recorded>>
vars == <<mode, readOnly, rec, multi, write, blank, medium, meta, history, bounds>>

Flags == {"open", "finalized", "formatted"}
Blank == [nwa |-> 0, formatted |-> 0, packet |-> 0, flags |-> {}]
NoWrite == [lba |-> 0, count |-> 0]
NoBlank == [phase |-> "idle", lba |-> 0]
NoMeta  == [valid |-> "no"]
NoPromise == [made |-> "no"]

Open      == "open" \in rec.flags
Finalized == "finalized" \in rec.flags
Formatted == "formatted" \in rec.flags

Least(a, b) == IF a <= b THEN a ELSE b

\* A new image that no session has recorded on, UDF volume or not
Init ==
  /\ mode = "off" /\ readOnly = FALSE /\ rec = Blank /\ multi = FALSE
  /\ write = NoWrite /\ blank = NoBlank
  /\ disk \in {[l \in Lba |-> IF l = SampleLba THEN c ELSE Zero] : c \in {Zero, Udf}}
  /\ image = disk /\ meta = NoMeta
  /\ promise = NoPromise /\ recorded = [l \in Lba |-> {}]
  /\ cmds = 0 /\ crashes = 0

-----------------------------------------------------------------------------
(* The medium and its metadata.                                            *)

\* Broken variants, named Bad..., precede the definition they break.

\* What the fingerprint sees of a block
Sample(c) == IF c \in LookAlike THEN Zero ELSE c

\* file_fingerprint: the samples it hashes, without collisions
Fingerprint(img, nwa) ==
  LET span == IF nwa \in 1..Blocks THEN nwa ELSE Blocks
  IN  [l \in {0, SampleLba, span \div 2, span - 1} \cap Lba |-> Sample(img[l])]

\* file_has_udf_volume_recognition_sequence
HasUdf == SampleLba \in Lba /\ image[SampleLba] = Udf

\* scsi_medium_blocks
MediumBlocks == IF Formatted /\ rec.formatted > 0 THEN rec.formatted ELSE Blocks

\* file_save_optical_state, scsi_save_optical_state: the callback is NULL on a
\* read-only mount; otherwise the file is replaced as a whole or not at all
BadSave(st, verdict) ==
  verdict = "ok" /\ meta' = [valid |-> "yes", state |-> st, fp |-> Fingerprint(image', st.nwa)]

Save(st, verdict) ==
  IF readOnly THEN verdict = "ok" /\ UNCHANGED meta
  ELSE \/ /\ verdict = "ok"
          /\ meta' = [valid |-> "yes", state |-> st, fp |-> Fingerprint(image', st.nwa)]
       \/ verdict = "nok" /\ "save" \in Faults /\ UNCHANGED meta

\* file_sync fails with an unknown part of the blocks written
SyncFails == "sync" \in Faults /\ UNCHANGED <<disk, meta>>

\* The state is saved first: the card may still lack the blocks it tells of
BadSessionSync(st, verdict) ==
  \/ Save(st, verdict) /\ UNCHANGED disk
  \/ verdict = "nok" /\ SyncFails

\* scsi_session_sync
SessionSync(st, verdict) ==
  \/ disk' = image' /\ Save(st, verdict)
  \/ verdict = "nok" /\ SyncFails

\* file_load_optical_state
Loadable ==
  /\ meta # NoMeta /\ Aligned
  /\ meta.state.nwa <= Blocks /\ meta.state.formatted <= Blocks
  /\ ~({"open", "finalized"} \subseteq meta.state.flags)
  /\ "formatted" \in meta.state.flags => meta.state.formatted > 0 /\ meta.state.packet > 0
  /\ Fingerprint(image, meta.state.nwa) = meta.fp

\* scsi_session_init, when the image is known to be a formatted volume
FormattedByUdf == [nwa |-> 0, formatted |-> Blocks - (Blocks % PacketSize),
                   packet |-> PacketSize, flags |-> {"formatted"}]

-----------------------------------------------------------------------------
(* The two history variables.                                              *)

\* Blocks the host ordered to be overwritten may hold the new contents; once
\* image and card agree, only what they hold; a lost block is not recorded
Track(ordered) ==
  recorded' = [l \in Lba |->
    LET r == recorded[l] \cup ordered[l]
    IN  IF image'[l] = disk'[l] THEN r \cap {image'[l]} ELSE r]

Nothing == [l \in Lba |-> {}]

\* An acknowledged state must last while recording only appends to it, and
\* leaves the sampled block alone
Keep(touched) ==
  promise' = IF \/ promise = NoPromise \/ touched = {}
                \/ /\ promise.state.nwa > 0 /\ SampleLba \notin touched
                   /\ \A l \in touched : l >= promise.state.nwa
             THEN promise ELSE NoPromise

\* GOOD status, or a clean exit, promises the state unless nothing is saved
Acknowledge(st, verdict) ==
  promise' = IF verdict = "ok" /\ ~readOnly
             THEN [made |-> "yes", state |-> st, image |-> image'] ELSE promise

-----------------------------------------------------------------------------
(* Mounting, unmounting, power loss.                                       *)

\* scene_work_on_enter and scsi_session_init
Mount ==
  /\ mode = "off" /\ mode' = "on" /\ readOnly' \in BOOLEAN
  /\ rec' = IF Loadable THEN meta.state
            ELSE IF ~readOnly' /\ HasUdf THEN FormattedByUdf ELSE Blank
  /\ multi' = FALSE /\ write' = NoWrite /\ blank' = NoBlank
  /\ UNCHANGED <<medium, meta, history, bounds>>

Unmounted == /\ mode' = "off" /\ rec' = Blank /\ multi' = FALSE
             /\ write' = NoWrite /\ blank' = NoBlank /\ UNCHANGED readOnly

\* Each block is on the card as it was last written, or as it was before
Settle == /\ disk' \in {d \in [Lba -> Contents] : \A l \in Lba : d[l] \in {image[l], disk[l]}}
          /\ image' = disk'

\* The worker exits: the blank operation is cancelled, the session synced, and
\* scene_work_on_exit closes the files
Exit ==
  /\ mode = "on" /\ Unmounted
  /\ \/ \E verdict \in {"ok", "nok"} :
          /\ UNCHANGED image /\ disk' = image /\ Save(rec, verdict)
          /\ Acknowledge(rec, verdict)
     \/ "sync" \in Faults /\ Settle /\ UNCHANGED <<meta, promise>>
  /\ Track(Nothing)
  /\ UNCHANGED bounds

\* The power or the card goes away, with the files open
Crash ==
  /\ mode = "on" /\ crashes < MaxCrashes /\ crashes' = crashes + 1
  /\ Unmounted /\ Settle /\ Track(Nothing)
  /\ UNCHANGED <<meta, promise, cmds>>

-----------------------------------------------------------------------------
(* SCSI commands.  While a blank operation runs, scsi_cmd_start refuses all *)
(* of them but its cancellation; a new command ends a data phase that the  *)
(* host has given up.  A refused command changes nothing.                  *)

Command == /\ mode = "on" /\ cmds < MaxCmds /\ cmds' = cmds + 1
           /\ blank.phase # "active"
           /\ UNCHANGED <<mode, readOnly, crashes>>

\* The write pointer is not checked
BadAcceptsWrite(lba, count) ==
  ~readOnly /\ lba >= 0 /\ lba <= MediumBlocks /\ count <= MediumBlocks - lba

\* scsi_start_write: lba is negative in the pre-gap of a Disc-At-Once burn
AcceptsWrite(lba, count) ==
  /\ ~readOnly
  /\ IF ~Formatted /\ lba < 0
     THEN ~Finalized /\ rec.nwa = 0 /\ lba + count <= MediumBlocks
     ELSE /\ lba >= 0 /\ lba <= MediumBlocks /\ count <= MediumBlocks - lba
          /\ ~Formatted => ~Finalized /\ lba = rec.nwa

StartWrite(lba, count) ==
  /\ Command /\ AcceptsWrite(lba, count)
  /\ write' = [lba |-> lba, count |-> count]
  /\ UNCHANGED <<rec, multi, blank, medium, meta, history>>

\* Discarded pre-gap blocks move the write pointer
BadAdvance(blocks, stored) ==
  IF blocks = 0 \/ Formatted THEN rec
  ELSE [rec EXCEPT !.nwa = @ + blocks, !.flags = @ \cup {"open"}]

\* The recording state after `stored' of `blocks' blocks went to the image
Advance(blocks, stored) ==
  IF stored = 0 \/ Formatted THEN rec
  ELSE [rec EXCEPT !.nwa = @ + stored, !.flags = @ \cup {"open"}]

\* The buffer is not limited to what the WRITE announced
BadChunks == 1..MaxChunk

\* What the transport may hand over at a time
Chunks == 1..Least(MaxChunk, write.count)

\* scsi_cmd_rx_data, WRITE: one buffer of blocks; on failure some of them may
\* have been written, and the transport ends the command
RxData(data) ==
  /\ mode = "on" /\ write.count > 0
  /\ UNCHANGED <<mode, readOnly, multi, blank, disk, meta, bounds>>
  /\ \E blocks \in Chunks :
       LET discard == IF write.lba < 0 THEN Least(-write.lba, blocks) ELSE 0
           stored  == blocks - discard
           first   == write.lba + discard
           Upto(n) == {l \in Lba : l >= first /\ l < first + n}
           Store(n) ==
             /\ image' = [l \in Lba |-> IF l \in Upto(n) THEN data[l] ELSE image[l]]
             /\ Track([l \in Lba |-> IF l \in Upto(n) THEN {data[l]} ELSE {}])
             /\ Keep(Upto(n))
       IN \/ /\ Store(stored)
             /\ write' = [lba |-> write.lba + blocks, count |-> write.count - blocks]
             /\ rec' = Advance(blocks, stored)
          \/ /\ "media" \in Faults /\ stored > 0
             /\ \E n \in 0..(stored - 1) : Store(n)
             /\ write' = NoWrite /\ UNCHANGED rec

\* SYNCHRONIZE CACHE, and START STOP UNIT that ejects
SyncCache ==
  /\ Command /\ write' = NoWrite /\ UNCHANGED <<rec, multi, blank, image>>
  /\ \E verdict \in {"ok", "nok"} : SessionSync(rec, verdict) /\ Acknowledge(rec, verdict)
  /\ Track(Nothing)

\* MODE SELECT with the write parameters page
ModeSelect(multiSession) ==
  /\ Command /\ write' = NoWrite /\ multi' = multiSession
  /\ UNCHANGED <<rec, blank, medium, meta, history>>

\* The state CLOSE SESSION leaves
Closed == [rec EXCEPT !.flags = (@ \ {"open", "finalized"})
                                \cup (IF multi THEN {} ELSE {"finalized"})]

\* CLOSE TRACK SESSION: the state changes only if the sync succeeds
Close(session) ==
  /\ Command /\ write' = NoWrite /\ UNCHANGED <<multi, blank, image>>
  /\ \/ \E verdict \in {"ok", "nok"} :
          /\ rec' = IF session THEN Closed ELSE rec
          /\ disk' = image /\ Save(rec', verdict) /\ Acknowledge(rec', verdict)
     \/ SyncFails /\ UNCHANGED <<rec, promise>>
  /\ Track(Nothing)

\* scsi_finish_format: the blocks of the formatted medium, 0 if refused
FormatBlocks(f) ==
  LET asked   == IF f.blocks = 0 THEN Blocks ELSE f.blocks
      rounded == IF asked % f.param = 0 THEN asked ELSE asked + f.param - (asked % f.param)
  IN  IF f.blocks > Blocks THEN 0
      ELSE IF f.type = "full" THEN IF f.param = 2048 THEN asked ELSE 0
      ELSE IF f.param = 0 \/ rounded > Blocks THEN 0 ELSE rounded

\* The write pointer survives the format
BadFormatState(f) ==
  [rec EXCEPT !.formatted = FormatBlocks(f), !.flags = {"formatted"},
              !.packet = IF f.type = "full" THEN PacketSize ELSE f.param]

FormatState(f) ==
  [nwa |-> 0, formatted |-> FormatBlocks(f), flags |-> {"formatted"},
   packet |-> IF f.type = "full" THEN PacketSize ELSE f.param]

\* FORMAT UNIT: the new state is taken before it is known to be saved
Format(f) ==
  /\ Command /\ ~readOnly /\ FormatBlocks(f) > 0
  /\ write' = NoWrite /\ UNCHANGED <<blank, image>>
  /\ IF f.tryOut
     THEN UNCHANGED <<rec, multi, disk, meta, history>>
     ELSE /\ rec' = FormatState(f) /\ multi' = FALSE
          /\ \E verdict \in {"ok", "nok"} : SessionSync(rec', verdict) /\ Acknowledge(rec', verdict)
          /\ Track(Nothing)

\* The wipe goes on where the last one was cancelled
BadStartedBlank == [phase |-> "active", lba |-> blank.lba]

StartedBlank == [phase |-> "active", lba |-> 0]

\* BLANK
StartBlank ==
  /\ Command /\ ~readOnly /\ write' = NoWrite /\ blank' = StartedBlank
  /\ UNCHANGED <<rec, multi, medium, meta, history>>

\* scsi_blank_step: the next blocks are wiped; after the last one follow the
\* sync, the new state and its save
BlankStep ==
  /\ mode = "on" /\ blank.phase = "active"
  /\ \E capacity \in 1..MaxChunk : \E n \in 0..Least(Blocks - blank.lba, capacity) :
       LET end   == blank.lba + Least(Blocks - blank.lba, capacity)
           wiped == {l \in Lba : l >= blank.lba /\ l < blank.lba + n}
           whole == blank.lba + n = end
       IN /\ image' = [l \in Lba |-> IF l \in wiped THEN Zero ELSE image[l]]
          /\ \/ /\ whole /\ end < Blocks /\ Keep(wiped)
                /\ blank' = [phase |-> "active", lba |-> end]
                /\ UNCHANGED <<rec, multi, disk, meta>>
             \/ /\ whole /\ end = Blocks /\ disk' = image' /\ rec' = Blank /\ multi' = FALSE
                /\ \/ /\ Save(Blank, "ok") /\ Acknowledge(Blank, "ok")
                      /\ blank' = [phase |-> "idle", lba |-> end]
                   \/ /\ Save(Blank, "nok") /\ Keep(wiped)
                      /\ blank' = [phase |-> "failed", lba |-> end]
             \/ /\ whole /\ end = Blocks /\ SyncFails /\ Keep(wiped)
                /\ blank' = [phase |-> "failed", lba |-> end] /\ UNCHANGED <<rec, multi>>
             \/ /\ ~whole /\ "media" \in Faults /\ Keep(wiped)
                /\ blank' = [blank EXCEPT !.phase = "failed"]
                /\ UNCHANGED <<rec, multi, disk, meta>>
          /\ Track([l \in Lba |-> IF l \in wiped THEN {Zero} ELSE {}])
  /\ UNCHANGED <<mode, readOnly, write, bounds>>

\* START STOP UNIT that stops a blank operation: the recording state stays
CancelBlank ==
  /\ mode = "on" /\ cmds < MaxCmds /\ cmds' = cmds + 1 /\ blank.phase = "active"
  /\ \/ disk' = image /\ blank' = [blank EXCEPT !.phase = "idle"] /\ UNCHANGED meta
     \/ SyncFails /\ blank' = [blank EXCEPT !.phase = "failed"]
  /\ UNCHANGED <<mode, readOnly, rec, multi, write, image, promise, crashes>>
  /\ Track(Nothing)

Next ==
  \/ Mount \/ Exit \/ Crash
  \/ \E r \in Requests : StartWrite(r[1], r[2])
  \/ \E data \in Patterns : RxData(data)
  \/ SyncCache
  \/ \E multiSession \in BOOLEAN : ModeSelect(multiSession)
  \/ \E session \in BOOLEAN : Close(session)
  \/ \E f \in Formats : Format(f)
  \/ StartBlank \/ BlankStep \/ CancelBlank

Spec == Init /\ [][Next]_vars

-----------------------------------------------------------------------------
(* What the device reports.                                                *)

\* READ DISC INFORMATION: the status of disc and last session
DiscStatus ==
  IF readOnly \/ Finalized THEN "complete"
  ELSE IF Open \/ Formatted THEN "incomplete"
  ELSE IF rec.nwa > 0 THEN "appendable" ELSE "empty"

\* The size of the image is taken for that of the formatted medium
BadFreeBlocks == Blocks - rec.nwa

\* READ TRACK INFORMATION: next writable address and free blocks
NextWritable == IF Formatted THEN 0 ELSE rec.nwa
FreeBlocks == MediumBlocks - NextWritable

-----------------------------------------------------------------------------
(* Properties.                                                             *)

StateType == [nwa : Nat, formatted : Nat, packet : Nat, flags : SUBSET Flags]

\* Types of the session, the medium and the metadata file.
TypeOK ==
  /\ mode \in {"off", "on"} /\ readOnly \in BOOLEAN /\ multi \in BOOLEAN
  /\ rec \in StateType
  /\ write \in [lba : Int, count : Nat]
  /\ blank \in [phase : {"idle", "active", "failed"}, lba : 0..Blocks]
  /\ image \in [Lba -> Contents] /\ disk \in [Lba -> Contents]
  /\ meta # NoMeta => meta.state \in StateType
  /\ promise # NoPromise => promise.state \in StateType
  /\ recorded \in [Lba -> SUBSET Contents]
  /\ cmds \in 0..MaxCmds /\ crashes \in 0..MaxCrashes

\* A recording state that scsi_start_write and the reports can work with
Consistent(st) ==
  /\ st.nwa <= Blocks /\ st.formatted <= Blocks
  /\ ~({"open", "finalized"} \subseteq st.flags)
  /\ "open" \in st.flags => st.nwa > 0
  /\ "formatted" \in st.flags =>
       st.nwa = 0 /\ "open" \notin st.flags /\ st.formatted > 0 /\ st.packet > 0

\* The recording state never contradicts itself, in the session or in the
\* metadata file, whatever failed on the way; and the WRITE in progress of a
\* sequential disc goes on exactly at the write pointer and ends on the medium.
StateConsistent ==
  /\ Consistent(rec) /\ (meta # NoMeta => Consistent(meta.state))
  /\ write.count > 0 =>
       /\ write.lba + write.count <= MediumBlocks
       /\ IF Formatted THEN write.lba >= 0
          ELSE ~Finalized /\ rec.nwa = IF write.lba < 0 THEN 0 ELSE write.lba

\* Every block below the write pointer of a sequential disc holds what the host
\* recorded there, or what a wipe it ordered left, also in a session that was
\* restored after a loss of power: the saved state never tells of blocks that
\* are not on the card.
RecordedBelowPointer ==
  mode = "on" /\ ~Formatted => \A l \in Lba : l < rec.nwa => image[l] \in recorded[l]

\* The space READ TRACK INFORMATION reports on a writable track is the space
\* WRITE accepts, no block less and no block more.
ReportedSpaceWritable ==
  mode = "on" /\ ~readOnly /\ ~Finalized =>
    /\ \A n \in 0..FreeBlocks : AcceptsWrite(NextWritable, n)
    /\ ~AcceptsWrite(NextWritable, FreeBlocks + 1)

\* A state acknowledged as saved (GOOD for SYNCHRONIZE CACHE, eject, CLOSE,
\* FORMAT, the end of BLANK; or a clean exit) is the state of the next mount,
\* with the blocks it tells of, whether power was lost or not and although the
\* host went on appending.
RestoredAs(p) ==
  /\ rec = p.state
  /\ \A l \in Lba : (p.state.nwa > 0 => l < p.state.nwa) => image[l] = p.image[l]

Durable == [][mode = "off" /\ mode' = "on" /\ promise # NoPromise => RestoredAs(promise)']_vars

\* The README: the companion file remembers the CD-RW metadata, so a disc that was
\* recorded and saved is mounted as recorded.
RecordingRemembered ==
  [][mode = "off" /\ mode' = "on" /\ promise # NoPromise =>
       (promise.state.nwa > 0 => RestoredAs(promise)')]_vars

\* Sequential recording never changes a block below the write pointer; only a
\* BLANK does.
AppendOnly ==
  [][mode = "on" /\ mode' = "on" /\ ~Formatted /\ blank.phase # "active" =>
       \A l \in Lba : l < rec.nwa => image'[l] = image[l]]_vars

\* A BLANK that ends well leaves an empty disc on the card, in the session and
\* in the metadata, also when an earlier one was cancelled or failed half-way.
BlankLeavesEmpty ==
  [][blank.phase = "active" /\ mode' = "on" /\ blank'.phase = "idle" /\ blank'.lba = Blocks =>
       /\ \A l \in Lba : disk'[l] = Zero
       /\ rec' = Blank /\ meta' # NoMeta /\ meta'.state = Blank]_vars

\* A read-only mount leaves card and metadata as they are, although CLOSE
\* TRACK SESSION and the exit's sync are not refused.
ReadOnlyUntouched == [][mode = "on" /\ readOnly => UNCHANGED <<disk, meta>>]_vars

=============================================================================
