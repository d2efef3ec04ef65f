------------------------ MODULE MetadataStore_proofs ------------------------
(***************************************************************************)
(* What TLAPS proves of MetadataStore for all images, options, faults and  *)
(* bounds: types, that the settings remember what both savers saved, that  *)
(* nothing is recorded on a fixed image, and the refinement of RecordFile. *)
(***************************************************************************)
EXTENDS MetadataStore, TLAPS

\* What a load makes of the content of a file
MountOf(r) == IF r \in Record THEN r.mount ELSE NoOptions
StateOf(r) == IF r \in Record THEN r.state ELSE 0

Shown == {"settings", "work", "leaving"}

\* A save runs only in the settings and in a session, writes the record in memory,
\* and renames a temporary file that holds all of it
SaveInv ==
  /\ scene \in {"start", "entering"} => save.by = "none"
  /\ save.by = "settings" => scene = "settings"
  /\ save.by = "worker" => scene \in {"work", "leaving"}
  /\ save.by # "none" => save.rec = mem
  /\ save.by # "none" /\ save.step \in {"sync", "rename"} => tmp[image].rec = mem
  /\ save.by # "none" /\ save.step = "rename" => tmp[image].synced = TRUE

\* The file itself is never written, and holds what it is to remember
FileInv ==
  \A i \in Images :
    /\ file[i].synced = TRUE
    /\ lastOptions[i] \in {AnyOptions, MountOf(file[i].rec)}
    /\ lastState[i] \in {AnyState, StateOf(file[i].rec)}

\* What the record in memory is to each saver
MemInv ==
  /\ scene = "settings" /\ save.by = "none" /\ loaded =>
       mem.mount = MountOf(file[image].rec) /\ mem.state = StateOf(file[image].rec)
  /\ scene = "settings" /\ save.by = "settings" /\ loaded =>
       lastState[image] \in {AnyState, mem.state}
  /\ scene \in {"work", "leaving"} => lastOptions[image] \in {AnyOptions, mem.mount}

\* A fixed image is mounted read-only and has no state, in its file and in memory
FixedInv ==
  /\ \A i \in FixedImages : StateOf(file[i].rec) = 0
  /\ image \in FixedImages /\ scene \in Shown => options.readOnly = TRUE /\ mem.state = 0

IInv == TypeOK /\ SaveInv /\ FileInv /\ MemInv /\ FixedInv

-----------------------------------------------------------------------------
\* The next step of a save changes nothing else of it.
LEMMA NextStep ==
  ASSUME NEW s \in SaveType, NEW x \in {"open", "write", "sync", "rename", "failed"}
  PROVE  /\ [s EXCEPT !.step = x] \in SaveType
         /\ [s EXCEPT !.step = x].by = s.by
         /\ [s EXCEPT !.step = x].rec = s.rec
         /\ [s EXCEPT !.step = x].step = x
  BY DEF SaveType

\* Each saver changes its own part of the record.
LEMMA MountSet ==
  ASSUME NEW r \in Record, NEW o \in OptionType
  PROVE  /\ [r EXCEPT !.mount = o] \in Record
         /\ [r EXCEPT !.mount = o].mount = o /\ [r EXCEPT !.mount = o].state = r.state
  BY DEF Record

LEMMA StateSet ==
  ASSUME NEW r \in Record, NEW n \in 0..MaxStates
  PROVE  /\ [r EXCEPT !.state = n] \in Record
         /\ [r EXCEPT !.state = n].state = n /\ [r EXCEPT !.state = n].mount = r.mount
  BY DEF Record

\* A file's content and its parts.
LEMMA ContentIs ==
  ASSUME NEW r, NEW b
  PROVE  Content(r, b).rec = r /\ Content(r, b).synced = b
  BY DEF Content

LEMMA ContentType ==
  ASSUME NEW r \in Record \cup {NoRecord, Torn}, NEW b \in BOOLEAN
  PROVE  Content(r, b) \in Contents
  BY DEF Content, Contents

\* A record of zeros is a record; no record, and a torn one, are none.
LEMMA RecordFacts ==
  ASSUME StoreAssumption
  PROVE  /\ Empty \in Record /\ Empty.mount = NoOptions /\ Empty.state = 0
         /\ NoRecord \notin Record /\ Torn \notin Record /\ NoOptions \in OptionType
         /\ Absent \in Contents /\ Absent.rec = NoRecord /\ Absent.synced = TRUE
         /\ MountOf(NoRecord) = NoOptions /\ StateOf(NoRecord) = 0
<1>1. NoOptions \in OptionType BY DEF NoOptions, OptionType
<1>2. Empty \in Record /\ Empty.mount = NoOptions /\ Empty.state = 0
  BY <1>1 DEF Empty, Record, StoreAssumption
<1>3. NoRecord \notin Record /\ Torn \notin Record BY DEF NoRecord, Torn, Record, StoreAssumption
<1>4. Absent \in Contents /\ Absent.rec = NoRecord /\ Absent.synced = TRUE
  BY ContentIs, ContentType DEF Absent
<1> QED BY <1>1, <1>2, <1>3, <1>4 DEF MountOf, StateOf

-----------------------------------------------------------------------------
(* Each action preserves the invariant.                                    *)

\* The start: no file exists and nothing is being saved.
LEMMA InitInv == ASSUME StoreAssumption, Init PROVE IInv
<1>. USE DEF Init
<1>1. TypeOK
  <2>1. NotSaving \in SaveType BY RecordFacts DEF NotSaving, SaveType
  <2>2. Default \in OptionType BY DEF StoreAssumption
  <2>3. file \in [Images -> Contents] /\ tmp \in [Images -> Contents] BY RecordFacts
  <2>4. 0 \in 0..MaxStates /\ 0 \in 0..MaxLosses /\ 0 \in 0..AnyState
    BY DEF StoreAssumption, AnyState
  <2>5. /\ lastOptions \in [Images -> OptionType \cup {AnyOptions}]
        /\ lastState \in [Images -> 0..AnyState]
    BY <2>4
  <2>6. mem \in Record BY RecordFacts
  <2> QED BY <2>1, <2>2, <2>3, <2>4, <2>5, <2>6 DEF TypeOK
<1>2. SaveInv BY DEF SaveInv, NotSaving
<1>3. FileInv BY RecordFacts DEF FileInv
<1>4. MemInv BY DEF MemInv
<1>5. FixedInv BY RecordFacts DEF FixedInv, Shown, StoreAssumption
<1> QED BY <1>1, <1>2, <1>3, <1>4, <1>5 DEF IInv

\* Choosing an image, and leaving a scene, save nothing.
LEMMA SelectImageInv ==
  ASSUME StoreAssumption, IInv, NEW i \in Images, SelectImage(i)
  PROVE  IInv'
<1>. USE DEF SelectImage, fileVars, history, IInv
<1>1. TypeOK' BY DEF TypeOK
<1>2. SaveInv' BY DEF SaveInv
<1>3. FileInv' BY DEF FileInv
<1>4. MemInv' BY DEF MemInv
<1>5. FixedInv' BY DEF FixedInv, Shown
<1> QED BY <1>1, <1>2, <1>3, <1>4, <1>5

LEMMA BackToStartInv == ASSUME StoreAssumption, IInv, BackToStart PROVE IInv'
<1>. USE DEF BackToStart, fileVars, history, IInv
<1>1. TypeOK' BY DEF TypeOK
<1>2. SaveInv' BY DEF SaveInv
<1>3. FileInv' BY DEF FileInv
<1>4. MemInv' BY DEF MemInv
<1>5. FixedInv' BY DEF FixedInv, Shown
<1> QED BY <1>1, <1>2, <1>3, <1>4, <1>5

LEMMA LeaveWorkInv == ASSUME StoreAssumption, IInv, LeaveWork PROVE IInv'
<1>. USE DEF LeaveWork, fileVars, history, IInv
<1>1. TypeOK' BY DEF TypeOK
<1>2. SaveInv' BY DEF SaveInv
<1>3. FileInv' BY DEF FileInv
<1>4. MemInv' BY DEF MemInv
<1>5. FixedInv' BY DEF FixedInv, Shown
<1> QED BY <1>1, <1>2, <1>3, <1>4, <1>5

\* The session is joined, so no save of its crosses into the next scene.
LEMMA WorkLeftInv == ASSUME StoreAssumption, IInv, WorkLeft PROVE IInv'
<1>. USE DEF WorkLeft, Joined, fileVars, history, IInv
<1>1. TypeOK' BY DEF TypeOK
<1>2. SaveInv' BY DEF SaveInv
<1>3. FileInv' BY DEF FileInv
<1>4. MemInv' BY DEF MemInv
<1>5. FixedInv' BY DEF FixedInv, Shown
<1> QED BY <1>1, <1>2, <1>3, <1>4, <1>5

\* A new image has no metadata, or nobody knows which.
LEMMA NewImageInv ==
  ASSUME StoreAssumption, IInv, NEW i \in Images, NewImage(i)
  PROVE  IInv'
<1>. USE DEF IInv
<1>1. PICK failed \in BOOLEAN, tmpFailed \in BOOLEAN :
        /\ file' = [file EXCEPT ![i] = RemovePath(@, failed)]
        /\ tmp' = [tmp EXCEPT ![i] = RemovePath(@, tmpFailed)]
        /\ lastOptions' = [lastOptions EXCEPT ![i] = AnyOptions]
        /\ lastState' = [lastState EXCEPT ![i] = IF failed THEN AnyState ELSE 0]
  BY DEF NewImage, Fails
<1>2. /\ scene = "start" /\ scene' = "entering" /\ image' = i
      /\ UNCHANGED <<options, mem, loaded, save, states, losses>>
  BY DEF NewImage
<1>3. /\ \A j \in Images : j # i => file'[j] = file[j] /\ lastOptions'[j] = lastOptions[j]
                                    /\ lastState'[j] = lastState[j]
      /\ file'[i] \in {file[i], Absent} /\ lastOptions'[i] = AnyOptions
      /\ lastState'[i] = AnyState \/ (lastState'[i] = 0 /\ file'[i] = Absent)
  <2>. USE <1>1 DEF TypeOK
  <2>1. \A j \in Images : j # i => file'[j] = file[j] /\ lastOptions'[j] = lastOptions[j]
                                   /\ lastState'[j] = lastState[j]
    OBVIOUS
  <2>2. lastOptions'[i] = AnyOptions OBVIOUS
  <2>3. CASE failed = TRUE
    <3>1. file'[i] = file[i] /\ lastState'[i] = AnyState BY <2>3 DEF RemovePath
    <3> QED BY <2>1, <2>2, <3>1
  <2>4. CASE failed = FALSE
    <3>1. file'[i] = Absent /\ lastState'[i] = 0 BY <2>4 DEF RemovePath
    <3> QED BY <2>1, <2>2, <3>1
  <2> QED BY <2>3, <2>4
<1>4. TypeOK'
  <2>1. file' \in [Images -> Contents] /\ tmp' \in [Images -> Contents]
    BY <1>1, RecordFacts DEF RemovePath, TypeOK
  <2>2. lastOptions' \in [Images -> OptionType \cup {AnyOptions}] BY <1>1 DEF TypeOK
  <2>3. lastState' \in [Images -> 0..AnyState]
    BY <1>1 DEF TypeOK, AnyState, StoreAssumption
  <2> QED BY <1>2, <2>1, <2>2, <2>3 DEF TypeOK
<1>5. SaveInv' BY <1>2 DEF SaveInv
<1>6. FileInv' BY <1>3, RecordFacts, ZenonT(60) DEF FileInv
<1>7. MemInv' BY <1>2 DEF MemInv
<1>8. FixedInv' BY <1>2, <1>3, RecordFacts, ZenonT(60) DEF FixedInv, Shown, StoreAssumption
<1> QED BY <1>4, <1>5, <1>6, <1>7, <1>8

\* A load is what the file holds, or nothing.
LEMMA EnterSettingsInv == ASSUME StoreAssumption, IInv, EnterSettings PROVE IInv'
<1>. USE DEF IInv
<1>1. PICK failed \in BOOLEAN :
        /\ mem' = IF failed \/ file[image].rec \notin Record THEN Empty ELSE file[image].rec
        /\ loaded' = ~failed
  BY DEF EnterSettings, Fails
<1>2. /\ scene = "entering" /\ scene' = "settings"
      /\ options' = Forced(IF Valid(mem'.mount) THEN mem'.mount ELSE options)
      /\ UNCHANGED <<image, file, tmp, save, states, losses, lastOptions, lastState>>
  BY DEF EnterSettings, fileVars, history
<1>3. mem' \in Record BY <1>1, RecordFacts
<1>4. mem'.mount \in OptionType BY <1>3 DEF Record
<1>5. ASSUME NEW o \in OptionType
      PROVE  Forced(o) \in OptionType /\ (image \in FixedImages => Forced(o).readOnly = TRUE)
  BY DEF Forced, OptionType
<1>6. options' \in OptionType /\ (image \in FixedImages => options'.readOnly = TRUE)
  BY <1>2, <1>4, <1>5 DEF TypeOK
<1>7. TypeOK' BY <1>1, <1>2, <1>3, <1>6 DEF TypeOK
<1>8. SaveInv' BY <1>2 DEF SaveInv
<1>9. FileInv' BY <1>2 DEF FileInv
<1>10. MemInv'
  BY <1>1, <1>2, RecordFacts DEF MemInv, MountOf, StateOf, SaveInv
<1>11. FixedInv'
  BY <1>1, <1>2, <1>6, RecordFacts DEF FixedInv, Shown, StateOf
<1> QED BY <1>7, <1>8, <1>9, <1>10, <1>11

\* The options of a fixed image stay read-only.
LEMMA ChangeOptionsInv ==
  ASSUME StoreAssumption, IInv, NEW o \in Options, ChangeOptions(o)
  PROVE  IInv'
<1>. USE DEF ChangeOptions, fileVars, history, IInv
<1>1. o \in OptionType BY DEF StoreAssumption
<1>2. TypeOK' BY <1>1 DEF TypeOK
<1>3. SaveInv' BY DEF SaveInv
<1>4. FileInv' BY DEF FileInv
<1>5. MemInv' BY DEF MemInv
<1>6. FixedInv'
  <2>1. image \in FixedImages => o.readOnly = TRUE BY <1>1 DEF Forced, OptionType
  <2> QED BY <2>1 DEF FixedInv, Shown
<1> QED BY <1>2, <1>3, <1>4, <1>5, <1>6

\* A save takes a copy of the record in memory, which stays as it is until the end.
LEMMA StartInv == ASSUME StoreAssumption, IInv, Start PROVE IInv'
<1>. USE DEF IInv
<1>1. /\ scene = "settings" /\ scene' = scene /\ save.by = "none"
      /\ mem' = [mem EXCEPT !.mount = options]
      /\ save' = [by |-> "settings", step |-> "open", rec |-> mem']
      /\ UNCHANGED <<image, options, loaded, file, tmp, states, losses, lastOptions, lastState>>
  BY DEF Start, BeginSave, fileVars, history
<1>2. mem' \in Record /\ mem'.state = mem.state BY <1>1, MountSet DEF TypeOK
<1>3. TypeOK' BY <1>1, <1>2 DEF TypeOK, SaveType
<1>4. SaveInv' BY <1>1 DEF SaveInv
<1>5. FileInv' BY <1>1 DEF FileInv
<1>6. MemInv' BY <1>1, <1>2 DEF MemInv, FileInv, TypeOK
<1>7. FixedInv' BY <1>1, <1>2 DEF FixedInv, Shown
<1> QED BY <1>3, <1>4, <1>5, <1>6, <1>7

\* A session saves no state of a fixed image.
LEMMA SaveStateInv == ASSUME StoreAssumption, IInv, SaveState PROVE IInv'
<1>. USE DEF IInv
<1>1. /\ scene \in {"work", "leaving"} /\ scene' = scene /\ save.by = "none"
      /\ ~options.readOnly /\ states < MaxStates /\ states' = states + 1
      /\ mem' = [mem EXCEPT !.state = states + 1]
      /\ save' = [by |-> "worker", step |-> "open", rec |-> mem']
      /\ UNCHANGED <<image, options, loaded, file, tmp, losses, lastOptions, lastState>>
  BY DEF SaveState, BeginSave, fileVars, history
<1>2. states + 1 \in 0..MaxStates BY <1>1 DEF TypeOK, StoreAssumption
<1>3. mem' \in Record /\ mem'.mount = mem.mount BY <1>1, <1>2, StateSet DEF TypeOK
<1>4. TypeOK' BY <1>1, <1>2, <1>3 DEF TypeOK, SaveType
<1>5. SaveInv' BY <1>1 DEF SaveInv
<1>6. FileInv' BY <1>1 DEF FileInv
<1>7. MemInv' BY <1>1, <1>3 DEF MemInv
<1>8. FixedInv' BY <1>1 DEF FixedInv, Shown
<1> QED BY <1>4, <1>5, <1>6, <1>7, <1>8

\* What the steps of a save before the renaming do: another step, another temporary file.
LEMMA TmpStep ==
  ASSUME StoreAssumption, IInv, save.by # "none",
         NEW x \in {"open", "write", "sync", "rename", "failed"},
         save' = [save EXCEPT !.step = x],
         UNCHANGED <<scene, image, options, mem, loaded, file, states, losses,
                     lastOptions, lastState>>,
         tmp' \in [Images -> Contents],
         x \in {"sync", "rename"} => tmp'[image].rec = mem,
         x = "rename" => tmp'[image].synced = TRUE
  PROVE  IInv'
<1>. USE DEF IInv
<1>1. save' \in SaveType /\ save'.by = save.by /\ save'.rec = save.rec /\ save'.step = x
  <2>1. save \in SaveType BY DEF TypeOK
  <2> QED BY <2>1, NextStep, ZenonT(40)
<1>2. TypeOK' BY <1>1 DEF TypeOK
<1>3. SaveInv' BY <1>1 DEF SaveInv
<1>4. FileInv' BY DEF FileInv
<1>5. MemInv' BY <1>1 DEF MemInv
<1>6. FixedInv' BY DEF FixedInv, Shown
<1> QED BY <1>2, <1>3, <1>4, <1>5, <1>6

\* A new content of the temporary file.
LEMMA TmpSet ==
  ASSUME IInv, NEW c \in Contents, tmp' = [tmp EXCEPT ![image] = c]
  PROVE  tmp' \in [Images -> Contents] /\ tmp'[image] = c
  BY DEF IInv, TypeOK

LEMMA OpenTmpInv == ASSUME StoreAssumption, IInv, OpenTmp PROVE IInv'
<1>1. PICK failed \in BOOLEAN :
        IF failed THEN save' = [save EXCEPT !.step = "failed"] /\ UNCHANGED tmp
        ELSE /\ save' = [save EXCEPT !.step = "write"]
             /\ tmp' = [tmp EXCEPT ![image] = Content(Torn, TRUE)]
  BY DEF OpenTmp, Fails
<1>2. /\ save.by # "none"
      /\ UNCHANGED <<scene, image, options, mem, loaded, file, states, losses,
                     lastOptions, lastState>>
  BY DEF OpenTmp, Saving, SaveOnly, history
<1>3. tmp \in [Images -> Contents] BY DEF IInv, TypeOK
<1>4. CASE failed = TRUE BY <1>1, <1>2, <1>3, <1>4, TmpStep
<1>5. CASE failed = FALSE
  <2>1. tmp' \in [Images -> Contents] BY <1>1, <1>5, TmpSet, ContentType
  <2> QED BY <1>1, <1>2, <1>5, <2>1, TmpStep
<1> QED BY <1>4, <1>5

LEMMA WriteTmpInv == ASSUME StoreAssumption, IInv, WriteTmp PROVE IInv'
<1>1. PICK failed \in BOOLEAN :
        IF failed THEN save' = [save EXCEPT !.step = "failed"] /\ UNCHANGED tmp
        ELSE /\ save' = [save EXCEPT !.step = "sync"]
             /\ tmp' = [tmp EXCEPT ![image] = Content(save.rec, FALSE)]
  BY DEF WriteTmp, Fails
<1>2. /\ save.by # "none"
      /\ UNCHANGED <<scene, image, options, mem, loaded, file, states, losses,
                     lastOptions, lastState>>
  BY DEF WriteTmp, Saving, SaveOnly, history
<1>3. tmp \in [Images -> Contents] BY DEF IInv, TypeOK
<1>4. CASE failed = TRUE BY <1>1, <1>2, <1>3, <1>4, TmpStep
<1>5. CASE failed = FALSE
  <2>1. save.rec = mem /\ save.rec \in Record BY <1>2 DEF IInv, SaveInv, TypeOK
  <2>2. Content(save.rec, FALSE) \in Contents BY <2>1, ContentType
  <2>3. tmp' \in [Images -> Contents] /\ tmp'[image].rec = mem
    <3>1. tmp' \in [Images -> Contents] /\ tmp'[image] = Content(save.rec, FALSE)
      BY <1>1, <1>5, <2>2, TmpSet
    <3>2. Content(save.rec, FALSE).rec = mem BY <2>1, ContentIs
    <3> QED BY <3>1, <3>2
  <2> QED BY <1>1, <1>2, <1>5, <2>3, TmpStep
<1> QED BY <1>4, <1>5

LEMMA SyncTmpInv == ASSUME StoreAssumption, IInv, SyncTmp PROVE IInv'
<1>1. PICK failed \in BOOLEAN :
        IF failed THEN save' = [save EXCEPT !.step = "failed"] /\ UNCHANGED tmp
        ELSE /\ save' = [save EXCEPT !.step = "rename"]
             /\ tmp' = [tmp EXCEPT ![image] = Content(tmp[image].rec, TRUE)]
  BY DEF SyncTmp, Fails
<1>2. /\ save.by # "none" /\ save.step = "sync"
      /\ UNCHANGED <<scene, image, options, mem, loaded, file, states, losses,
                     lastOptions, lastState>>
  BY DEF SyncTmp, Saving, SaveOnly, history
<1>3. tmp \in [Images -> Contents] BY DEF IInv, TypeOK
<1>4. CASE failed = TRUE BY <1>1, <1>2, <1>3, <1>4, TmpStep
<1>5. CASE failed = FALSE
  <2>1. tmp[image].rec = mem /\ mem \in Record BY <1>2 DEF IInv, SaveInv, TypeOK
  <2>2. Content(mem, TRUE) \in Contents BY <2>1, ContentType
  <2>3. tmp' \in [Images -> Contents] /\ tmp'[image].rec = mem /\ tmp'[image].synced = TRUE
    <3>1. tmp' \in [Images -> Contents] /\ tmp'[image] = Content(mem, TRUE)
      BY <1>1, <1>5, <2>1, <2>2, TmpSet
    <3>2. Content(mem, TRUE).rec = mem /\ Content(mem, TRUE).synced = TRUE BY ContentIs
    <3> QED BY <3>1, <3>2
  <2> QED BY <1>1, <1>2, <1>5, <2>3, TmpStep
<1> QED BY <1>4, <1>5

LEMMA RenameFailsInv == ASSUME StoreAssumption, IInv, RenameFails PROVE IInv'
<1>1. /\ save.by # "none" /\ save' = [save EXCEPT !.step = "failed"]
      /\ UNCHANGED <<scene, image, options, mem, loaded, file, tmp, states, losses,
                     lastOptions, lastState>>
  BY DEF RenameFails, Saving, SaveOnly, history, fileVars
<1>2. tmp \in [Images -> Contents] BY DEF IInv, TypeOK
<1> QED BY <1>1, <1>2, TmpStep

\* What ends a save: the scene it was in goes on with the record in memory, or with
\* one whose state was dropped.
LEMMA EndSaveFacts ==
  ASSUME StoreAssumption, IInv, save.by # "none", EndSave
  PROVE  /\ save' \in SaveType /\ save'.by = "none"
         /\ mem' \in Record /\ mem'.mount = mem.mount /\ mem'.state \in {mem.state, 0}
         /\ scene' \in {"work", "leaving"}
         /\ scene' = scene \/ save.by = "settings"
         /\ save.by = "worker" => mem' = mem
<1>1. NotSaving \in SaveType /\ NotSaving.by = "none"
  BY RecordFacts DEF NotSaving, SaveType
<1>2. mem \in Record /\ 0 \in 0..MaxStates /\ save.by \in {"settings", "worker"}
  BY DEF IInv, TypeOK, SaveType, StoreAssumption
<1>3. [mem EXCEPT !.state = 0] \in Record /\ [mem EXCEPT !.state = 0].mount = mem.mount
      /\ [mem EXCEPT !.state = 0].state = 0
  BY <1>2, StateSet
<1>4. save' = NotSaving BY DEF EndSave
<1>5. CASE save.by = "worker"
  <2>1. scene' = scene /\ mem' = mem BY <1>5 DEF EndSave
  <2>2. scene \in {"work", "leaving"} BY <1>5 DEF IInv, SaveInv
  <2> QED BY <1>1, <1>2, <1>4, <2>1, <2>2
<1>6. CASE save.by = "settings"
  <2>1. scene' = "work" /\ mem' \in {mem, [mem EXCEPT !.state = 0]} BY <1>6 DEF EndSave
  <2>2. CASE mem' = mem BY <1>1, <1>2, <1>4, <1>6, <2>1, <2>2
  <2>3. CASE mem' = [mem EXCEPT !.state = 0]
    <3>1. mem' \in Record /\ mem'.mount = mem.mount /\ mem'.state = 0 BY <1>3, <2>3
    <3> QED BY <1>1, <1>4, <1>6, <2>1, <3>1
  <2> QED BY <2>1, <2>2, <2>3
<1> QED BY <1>2, <1>5, <1>6

\* The renamed file is the record in memory, of which the saver answers for its part.
LEMMA RenameInv == ASSUME StoreAssumption, IInv, Rename PROVE IInv'
<1>1. /\ save.by # "none" /\ save.step = "rename"
      /\ file' = [file EXCEPT ![image] = tmp[image]] /\ tmp' = [tmp EXCEPT ![image] = Absent]
      /\ Remember /\ EndSave
      /\ UNCHANGED <<image, options, loaded, states, losses>>
  BY DEF Rename, Saving, SaveOnly
<1>2. tmp[image].rec = mem /\ tmp[image].synced = TRUE /\ save.rec = mem
  BY <1>1 DEF IInv, SaveInv
<1>3. /\ save' \in SaveType /\ save'.by = "none"
      /\ mem' \in Record /\ mem'.mount = mem.mount /\ mem'.state \in {mem.state, 0}
      /\ scene' \in {"work", "leaving"}
      /\ scene' = scene \/ save.by = "settings"
      /\ save.by = "worker" => mem' = mem
  BY <1>1, EndSaveFacts
<1>. USE DEF IInv
<1>4. mem \in Record /\ image \in Images BY DEF TypeOK
<1>5. MountOf(mem) = mem.mount /\ StateOf(mem) = mem.state BY <1>4 DEF MountOf, StateOf
<1>6. /\ file' \in [Images -> Contents] /\ tmp' \in [Images -> Contents]
      /\ file'[image] = tmp[image] /\ \A j \in Images : j # image => file'[j] = file[j]
  BY <1>1, RecordFacts DEF TypeOK
<1>7. file'[image].rec = mem /\ file'[image].synced = TRUE BY <1>2, <1>6
<1>8. /\ lastOptions' \in [Images -> OptionType \cup {AnyOptions}]
      /\ lastState' \in [Images -> 0..AnyState]
      /\ \A j \in Images : j # image => /\ lastOptions'[j] = lastOptions[j]
                                        /\ lastState'[j] = lastState[j]
      /\ lastOptions'[image] \in {AnyOptions, mem.mount}
      /\ lastState'[image] \in {AnyState, mem.state}
  <2>1. mem.mount \in OptionType /\ mem.state \in 0..AnyState /\ AnyState \in 0..AnyState
    BY <1>4 DEF Record, AnyState, StoreAssumption
  <2>2. DEFINE o == IF save.by = "settings" THEN save.rec.mount ELSE lastOptions[image]
               n == IF save.by = "worker" THEN save.rec.state
                    ELSE IF loaded THEN lastState[image] ELSE AnyState
  <2>3. lastOptions' = [lastOptions EXCEPT ![image] = o] /\ lastState' = [lastState EXCEPT ![image] = n]
    BY <1>1 DEF Remember
  <2>4. o \in {AnyOptions, mem.mount}
    <3>1. save.by # "settings" => scene \in {"work", "leaving"}
      BY <1>1 DEF SaveInv, TypeOK, SaveType
    <3> QED BY <1>2, <3>1 DEF MemInv
  <2>5. n \in {AnyState, mem.state}
    <3>1. CASE save.by = "worker" BY <1>2, <3>1
    <3>2. CASE save.by # "worker"
      <4>1. save.by = "settings" /\ scene = "settings"
        BY <1>1, <3>2 DEF SaveInv, TypeOK, SaveType
      <4>2. CASE loaded = TRUE BY <3>2, <4>1, <4>2 DEF MemInv
      <4>3. CASE loaded = FALSE BY <3>2, <4>3
      <4> QED BY <4>2, <4>3 DEF TypeOK
    <3> QED BY <3>1, <3>2
  <2>. HIDE DEF o, n
  <2> QED BY <1>4, <2>1, <2>3, <2>4, <2>5 DEF TypeOK
<1>9. TypeOK' BY <1>1, <1>3, <1>6, <1>8 DEF TypeOK
<1>10. SaveInv' BY <1>3 DEF SaveInv
<1>11. FileInv'
  <2>1. SUFFICES ASSUME NEW i \in Images
                 PROVE  /\ file'[i].synced = TRUE
                        /\ lastOptions'[i] \in {AnyOptions, MountOf(file'[i].rec)}
                        /\ lastState'[i] \in {AnyState, StateOf(file'[i].rec)}
    BY DEF FileInv, MountOf, StateOf
  <2>2. CASE i = image BY <1>5, <1>7, <1>8, <2>2
  <2>3. CASE i # image BY <1>6, <1>8, <2>3 DEF FileInv
  <2> QED BY <2>2, <2>3
<1>12. MemInv' BY <1>1, <1>3, <1>8 DEF MemInv
<1>13. FixedInv'
  <2>1. image \in FixedImages => options.readOnly = TRUE /\ mem.state = 0
    BY <1>1 DEF FixedInv, SaveInv, Shown, TypeOK, SaveType
  <2>2. \A i \in FixedImages : StateOf(file'[i].rec) = 0
    BY <1>5, <1>6, <1>7, <2>1 DEF FixedInv, StoreAssumption
  <2> QED BY <1>1, <1>3, <2>1, <2>2 DEF FixedInv
<1> QED BY <1>9, <1>10, <1>11, <1>12, <1>13

\* Where the old file goes first, what it held is owed no more.
LEMMA RemoveOldInv == ASSUME StoreAssumption, IInv, RemoveOld PROVE IInv'
<1>1. /\ save.by # "none" /\ file' = [file EXCEPT ![image] = Absent]
      /\ lastOptions' = [lastOptions EXCEPT ![image] = AnyOptions]
      /\ lastState' = [lastState EXCEPT ![image] = AnyState]
      /\ UNCHANGED <<scene, mem, tmp, save, image, options, loaded, states, losses>>
  BY DEF RemoveOld, Forget, Saving, SaveOnly
<1>. USE DEF IInv
<1>2. image \in Images BY DEF TypeOK
<1>3. /\ file' \in [Images -> Contents] /\ file'[image] = Absent
      /\ \A j \in Images : j # image => file'[j] = file[j]
  BY <1>1, <1>2, RecordFacts DEF TypeOK
<1>4. /\ lastOptions' \in [Images -> OptionType \cup {AnyOptions}]
      /\ lastOptions'[image] = AnyOptions
      /\ \A j \in Images : j # image => lastOptions'[j] = lastOptions[j]
  BY <1>1, <1>2 DEF TypeOK
<1>5. /\ lastState' \in [Images -> 0..AnyState] /\ lastState'[image] = AnyState
      /\ \A j \in Images : j # image => lastState'[j] = lastState[j]
  <2>1. AnyState \in 0..AnyState BY DEF AnyState, StoreAssumption
  <2> QED BY <1>1, <1>2, <2>1 DEF TypeOK
<1>6. TypeOK' BY <1>1, <1>3, <1>4, <1>5 DEF TypeOK
<1>7. SaveInv' BY <1>1 DEF SaveInv
<1>8. FileInv' BY <1>3, <1>4, <1>5, RecordFacts DEF FileInv
<1>9. MemInv' BY <1>1, <1>4, <1>5 DEF MemInv
<1>10. FixedInv' BY <1>1, <1>3, RecordFacts DEF FixedInv, Shown, StoreAssumption
<1> QED BY <1>6, <1>7, <1>8, <1>9, <1>10

\* A failed save leaves the file alone.
LEMMA SaveFailedInv == ASSUME StoreAssumption, IInv, SaveFailed PROVE IInv'
<1>1. PICK failed \in BOOLEAN : tmp' = [tmp EXCEPT ![image] = RemovePath(@, failed)]
  BY DEF SaveFailed, Fails
<1>2. /\ save.by # "none" /\ EndSave
      /\ lastOptions' = IF save.by = "settings" THEN [lastOptions EXCEPT ![image] = AnyOptions]
                                                ELSE lastOptions
      /\ UNCHANGED <<file, lastState, image, options, loaded, states, losses>>
  BY DEF SaveFailed, Saving, SaveOnly
<1>3. /\ save' \in SaveType /\ save'.by = "none"
      /\ mem' \in Record /\ mem'.mount = mem.mount /\ mem'.state \in {mem.state, 0}
      /\ scene' \in {"work", "leaving"}
      /\ scene' = scene \/ save.by = "settings"
      /\ save.by = "worker" => mem' = mem
  BY <1>2, EndSaveFacts
<1>. USE DEF IInv
<1>4. tmp' \in [Images -> Contents] BY <1>1, RecordFacts DEF RemovePath, TypeOK
<1>5. /\ lastOptions' \in [Images -> OptionType \cup {AnyOptions}]
      /\ \A i \in Images : lastOptions'[i] \in {AnyOptions, lastOptions[i]}
      /\ save.by = "settings" => lastOptions'[image] = AnyOptions
  BY <1>2 DEF TypeOK
<1>6. TypeOK' BY <1>2, <1>3, <1>4, <1>5 DEF TypeOK
<1>7. SaveInv' BY <1>3 DEF SaveInv
<1>8. FileInv' BY <1>2, <1>5 DEF FileInv
<1>9. MemInv'
  <2>1. save.by # "settings" => scene \in {"work", "leaving"}
    BY <1>2 DEF SaveInv, TypeOK, SaveType
  <2> QED BY <1>2, <1>3, <1>5, <2>1 DEF MemInv, TypeOK
<1>10. FixedInv'
  <2>1. image \in FixedImages => options.readOnly = TRUE /\ mem.state = 0
    BY <1>2 DEF FixedInv, SaveInv, Shown, TypeOK, SaveType
  <2> QED BY <1>2, <1>3, <2>1 DEF FixedInv
<1> QED BY <1>6, <1>7, <1>8, <1>9, <1>10

\* What is synced survives a loss of power, and the file always is.
LEMMA PowerLossInv == ASSUME StoreAssumption, IInv, PowerLoss PROVE IInv'
<1>1. PICK f \in Survives(file[image]), t \in Survives(tmp[image]) :
        file' = [file EXCEPT ![image] = f] /\ tmp' = [tmp EXCEPT ![image] = t]
  BY DEF PowerLoss
<1>2. /\ losses < MaxLosses /\ losses' = losses + 1 /\ scene' = "start" /\ options' = Default
      /\ mem' = Empty /\ loaded' = FALSE /\ save' = NotSaving
      /\ UNCHANGED <<image, states, lastOptions, lastState>>
  BY DEF PowerLoss, history
<1>. USE DEF IInv
<1>3. f = file[image] BY <1>1 DEF Survives, FileInv, TypeOK
<1>4. file' = file BY <1>1, <1>3 DEF TypeOK
<1>5. tmp' \in [Images -> Contents]
  <2>1. tmp[image] \in Contents BY DEF TypeOK
  <2>2. tmp[image].rec \in Record \cup {NoRecord, Torn} BY <2>1 DEF Contents
  <2>3. t \in Contents BY <1>1, <2>1, <2>2, ContentType DEF Survives
  <2> QED BY <1>1, <2>3 DEF TypeOK
<1>6. save' \in SaveType /\ save'.by = "none"
  BY <1>2, RecordFacts DEF NotSaving, SaveType
<1>7. TypeOK'
  <2>1. losses' \in 0..MaxLosses BY <1>2 DEF TypeOK, StoreAssumption
  <2>2. options' \in OptionType BY <1>2 DEF StoreAssumption
  <2>3. mem' \in Record BY <1>2, RecordFacts
  <2> QED BY <1>2, <1>4, <1>5, <1>6, <2>1, <2>2, <2>3 DEF TypeOK
<1>8. SaveInv' BY <1>2, <1>6 DEF SaveInv
<1>9. FileInv' BY <1>2, <1>4 DEF FileInv
<1>10. MemInv' BY <1>2 DEF MemInv
<1>11. FixedInv' BY <1>2, <1>4 DEF FixedInv, Shown
<1> QED BY <1>7, <1>8, <1>9, <1>10, <1>11

-----------------------------------------------------------------------------
\* Every step of the specification preserves the invariant.
LEMMA StepInv == ASSUME StoreAssumption, IInv, [Next]_vars PROVE IInv'
<1>1. CASE UNCHANGED vars
  <2>. USE <1>1 DEF vars, fileVars, history, IInv
  <2>1. TypeOK' BY DEF TypeOK
  <2>2. SaveInv' BY DEF SaveInv
  <2>3. FileInv' BY DEF FileInv
  <2>4. MemInv' BY DEF MemInv
  <2>5. FixedInv' BY DEF FixedInv, Shown
  <2> QED BY <2>1, <2>2, <2>3, <2>4, <2>5
<1>2. CASE Next
  <2>1. ASSUME NEW i \in Images, SelectImage(i) PROVE IInv' BY <2>1, SelectImageInv
  <2>2. ASSUME NEW i \in Images, NewImage(i) PROVE IInv' BY <2>2, NewImageInv
  <2>3. CASE EnterSettings BY <2>3, EnterSettingsInv
  <2>4. CASE BackToStart BY <2>4, BackToStartInv
  <2>5. CASE Start BY <2>5, StartInv
  <2>6. CASE LeaveWork BY <2>6, LeaveWorkInv
  <2>7. CASE WorkLeft BY <2>7, WorkLeftInv
  <2>8. ASSUME NEW o \in Options, ChangeOptions(o) PROVE IInv' BY <2>8, ChangeOptionsInv
  <2>9. CASE SaveState BY <2>9, SaveStateInv
  <2>10. CASE OpenTmp BY <2>10, OpenTmpInv
  <2>11. CASE WriteTmp BY <2>11, WriteTmpInv
  <2>12. CASE SyncTmp BY <2>12, SyncTmpInv
  <2>13. CASE Rename BY <2>13, RenameInv
  <2>14. CASE RemoveOld BY <2>14, RemoveOldInv
  <2>15. CASE RenameFails BY <2>15, RenameFailsInv
  <2>16. CASE SaveFailed BY <2>16, SaveFailedInv
  <2>17. CASE PowerLoss BY <2>17, PowerLossInv
  <2> QED
    BY <1>2, <2>1, <2>2, <2>3, <2>4, <2>5, <2>6, <2>7, <2>8, <2>9, <2>10, <2>11, <2>12,
       <2>13, <2>14, <2>15, <2>16, <2>17 DEF Next
<1> QED BY <1>1, <1>2

LEMMA Inductive == Spec => []IInv
<1>1. Init => IInv BY StoreAssumption, InitInv
<1>2. IInv /\ [Next]_vars => IInv' BY StoreAssumption, StepInv
<1> QED BY <1>1, <1>2, PTL DEF Spec

\* Scenes, files, the save and the history keep their types.
THEOREM TypeCorrect == Spec => []TypeOK
<1>1. IInv => TypeOK BY DEF IInv
<1> QED BY <1>1, Inductive, PTL

\* The settings show the options an image was last started with and carry the recording
\* state its last session saved, whatever failed or was interrupted in between.
THEOREM BothSaversRemembered == Spec => []Remembered
<1>1. IInv => Remembered
  <2> SUFFICES ASSUME IInv, scene = "settings", save.by = "none", loaded
               PROVE  /\ lastOptions[image] \in {mem.mount, AnyOptions}
                      /\ lastState[image] \in {mem.state, AnyState}
    BY DEF Remembered
  <2>1. mem.mount = MountOf(file[image].rec) /\ mem.state = StateOf(file[image].rec)
    BY DEF IInv, MemInv
  <2>2. image \in Images BY DEF IInv, TypeOK
  <2> QED BY <2>1, <2>2 DEF IInv, FileInv
<1> QED BY <1>1, Inductive, PTL

\* No recording state is ever saved for an .iso or .cue image.
THEOREM NothingOnFixedImages == Spec => []FixedNeverRecorded
<1>1. IInv => FixedNeverRecorded BY DEF IInv, FixedInv, FixedNeverRecorded, StateOf
<1> QED BY <1>1, Inductive, PTL

-----------------------------------------------------------------------------
(* The refinement: each step is one of RecordFile, or none of its business. *)

\* The images of stored and offered under the refinement mapping
Stored == [i \in Images |-> file[i].rec]
Offered == [i \in Images |-> IF i = image /\ save.by # "none" THEN save.rec ELSE NoRecord]

StoreStep == [Store!Next]_(Store!vars)

\* The mapped steps, said of the mapped variables.
LEMMA MappedStep ==
  ASSUME \/ Stored' = Stored /\ Offered' = Offered
         \/ \E i \in Images :
              \/ /\ Offered[i] = NoRecord /\ Offered'[i] \in Record
                 /\ Offered' = [Offered EXCEPT ![i] = Offered'[i]] /\ Stored' = Stored
              \/ /\ Offered[i] # NoRecord /\ Stored' = [Stored EXCEPT ![i] = Offered[i]]
                 /\ Offered' = [Offered EXCEPT ![i] = NoRecord]
              \/ Offered' = [Offered EXCEPT ![i] = NoRecord] /\ Stored' = Stored
              \/ /\ Offered[i] # NoRecord /\ Stored' = [Stored EXCEPT ![i] = NoRecord]
                 /\ Offered' = Offered
              \/ /\ Offered[i] = NoRecord /\ Stored' = [Stored EXCEPT ![i] = NoRecord]
                 /\ Offered' = Offered
  PROVE  StoreStep
  BY DEF StoreStep, Stored, Offered, Store!Next, Store!vars, Store!Offer, Store!Commit,
         Store!Withdraw, Store!Vanish, Store!Delete

\* Steps that change no file and go on with the same save.
LEMMA Unmapped ==
  ASSUME file' = file, save'.by = save.by, save'.rec = save.rec,
         image' = image \/ save.by = "none"
  PROVE  StoreStep
<1>1. Stored' = Stored BY DEF Stored
<1>2. Offered' = Offered BY DEF Offered
<1> QED BY <1>1, <1>2, MappedStep

\* A save begins.
LEMMA Offering ==
  ASSUME IInv, IInv', file' = file, image' = image, save.by = "none", save'.by # "none"
  PROVE  StoreStep
<1>1. image \in Images BY DEF IInv, TypeOK
<1>2. Stored' = Stored BY DEF Stored
<1>3. save'.rec \in Record BY DEF IInv, TypeOK, SaveType
<1>4. Offered[image] = NoRecord /\ Offered'[image] = save'.rec BY <1>1 DEF Offered
<1>5. Offered' = [Offered EXCEPT ![image] = Offered'[image]] BY <1>4 DEF Offered
<1> QED BY <1>1, <1>2, <1>3, <1>4, <1>5, MappedStep

\* A save ends, or is cut short, with the file as it was.
LEMMA Withdrawing ==
  ASSUME IInv, file' = file, image' = image, save'.by = "none"
  PROVE  StoreStep
<1>1. image \in Images BY DEF IInv, TypeOK
<1>2. Stored' = Stored BY DEF Stored
<1>3. Offered' = [Offered EXCEPT ![image] = NoRecord] BY <1>1 DEF Offered
<1> QED BY <1>1, <1>2, <1>3, MappedStep

\* The record that was offered is stored.
LEMMA Committing == ASSUME StoreAssumption, IInv, Rename PROVE StoreStep
<1>1. /\ save.by # "none" /\ save.step = "rename" /\ file' = [file EXCEPT ![image] = tmp[image]]
      /\ image' = image /\ save' = NotSaving
  BY DEF Rename, Saving, SaveOnly, EndSave
<1>2. image \in Images /\ file \in [Images -> Contents] BY DEF IInv, TypeOK
<1>3. tmp[image].rec = save.rec /\ save.rec \in Record
  BY <1>1 DEF IInv, SaveInv, TypeOK, SaveType
<1>4. save'.by = "none" BY <1>1 DEF NotSaving
<1>5. Offered[image] = save.rec BY <1>1, <1>2 DEF Offered
<1>6. Offered[image] # NoRecord BY <1>3, <1>5, RecordFacts
<1>7. Offered' = [Offered EXCEPT ![image] = NoRecord] BY <1>1, <1>2, <1>4 DEF Offered
<1>8. Stored' = [Stored EXCEPT ![image] = Offered[image]]
  <2>1. file'[image] = tmp[image] /\ \A j \in Images : j # image => file'[j] = file[j]
    BY <1>1, <1>2
  <2>2. file'[image].rec = Offered[image] BY <2>1, <1>3, <1>5
  <2>3. Stored' = [i \in Images |-> file'[i].rec] BY DEF Stored
  <2>4. [Stored EXCEPT ![image] = Offered[image]]
          = [i \in Images |-> IF i = image THEN Offered[image] ELSE file[i].rec]
    BY <1>2 DEF Stored
  <2> QED BY <2>1, <2>2, <2>3, <2>4
<1> QED BY <1>2, <1>6, <1>7, <1>8, MappedStep

\* An old record vanishes, with the file that is replaced or the image that is made anew.
LEMMA Vanishing ==
  ASSUME StoreAssumption, IInv, NEW i \in Images,
         file' = [file EXCEPT ![i] = Absent], Offered' = Offered
  PROVE  StoreStep
<1>1. file \in [Images -> Contents] BY DEF IInv, TypeOK
<1>2. file'[i].rec = NoRecord /\ \A j \in Images : j # i => file'[j] = file[j]
  BY <1>1, RecordFacts
<1>3. Stored' = [Stored EXCEPT ![i] = NoRecord]
  <2>1. Stored' = [j \in Images |-> file'[j].rec] BY DEF Stored
  <2>2. [Stored EXCEPT ![i] = NoRecord]
          = [j \in Images |-> IF j = i THEN NoRecord ELSE file[j].rec]
    BY DEF Stored
  <2> QED BY <1>2, <2>1, <2>2
<1> QED BY <1>3, MappedStep

LEMMA NewImageStep ==
  ASSUME StoreAssumption, IInv, NEW i \in Images, NewImage(i) PROVE StoreStep
<1>1. PICK failed \in BOOLEAN : file' = [file EXCEPT ![i] = RemovePath(@, failed)]
  BY DEF NewImage, Fails
<1>2. scene = "start" /\ save' = save BY DEF NewImage
<1>3. save.by = "none" BY <1>2 DEF IInv, SaveInv
<1>4. Offered' = Offered BY <1>2, <1>3 DEF Offered
<1>5. CASE failed = TRUE
  <2>1. file' = file BY <1>1, <1>5 DEF RemovePath, IInv, TypeOK
  <2> QED BY <1>2, <1>3, <2>1, Unmapped
<1>6. CASE failed = FALSE
  <2>1. file' = [file EXCEPT ![i] = Absent] BY <1>1, <1>6 DEF RemovePath
  <2> QED BY <1>4, <2>1, Vanishing
<1> QED BY <1>5, <1>6

LEMMA RemoveOldStep == ASSUME StoreAssumption, IInv, RemoveOld PROVE StoreStep
<1>1. /\ file' = [file EXCEPT ![image] = Absent]
      /\ UNCHANGED <<save, image>>
  BY DEF RemoveOld, SaveOnly
<1>2. image \in Images BY DEF IInv, TypeOK
<1>3. Offered' = Offered BY <1>1 DEF Offered
<1> QED BY <1>1, <1>2, <1>3, Vanishing

\* The next step of a save offers what it offered.
LEMMA SavingStep ==
  ASSUME IInv, NEW x \in {"open", "write", "sync", "rename", "failed"},
         save' = [save EXCEPT !.step = x], UNCHANGED <<file, image>>
  PROVE  StoreStep
<1>1. save \in SaveType BY DEF IInv, TypeOK
<1>2. save'.by = save.by /\ save'.rec = save.rec BY <1>1, NextStep, Zenon
<1> QED BY <1>2, Unmapped

LEMMA RefinementStep ==
  ASSUME StoreAssumption, IInv, IInv', [Next]_vars
  PROVE  StoreStep
<1>1. CASE UNCHANGED vars BY <1>1, Unmapped DEF vars, fileVars
<1>2. CASE Next
  <2>1. ASSUME NEW i \in Images, SelectImage(i) PROVE StoreStep
    <3>1. save.by = "none" BY <2>1 DEF SelectImage, IInv, SaveInv
    <3> QED BY <2>1, <3>1, Unmapped DEF SelectImage, fileVars
  <2>2. ASSUME NEW i \in Images, NewImage(i) PROVE StoreStep BY <2>2, NewImageStep
  <2>3. CASE EnterSettings BY <2>3, Unmapped DEF EnterSettings, fileVars
  <2>4. CASE BackToStart BY <2>4, Unmapped DEF BackToStart, fileVars
  <2>5. CASE Start BY <2>5, Offering DEF Start, BeginSave, fileVars
  <2>6. CASE LeaveWork BY <2>6, Unmapped DEF LeaveWork, fileVars
  <2>7. CASE WorkLeft BY <2>7, Unmapped DEF WorkLeft, fileVars
  <2>8. ASSUME NEW o \in Options, ChangeOptions(o) PROVE StoreStep
    BY <2>8, Unmapped DEF ChangeOptions, fileVars
  <2>9. CASE SaveState BY <2>9, Offering DEF SaveState, BeginSave, fileVars
  <2>10. CASE OpenTmp
    <3>1. UNCHANGED <<file, image>> BY <2>10 DEF OpenTmp, SaveOnly
    <3>2. save' = [save EXCEPT !.step = "failed"] \/ save' = [save EXCEPT !.step = "write"]
      BY <2>10 DEF OpenTmp
    <3> QED BY <3>1, <3>2, SavingStep
  <2>11. CASE WriteTmp
    <3>1. UNCHANGED <<file, image>> BY <2>11 DEF WriteTmp, SaveOnly
    <3>2. save' = [save EXCEPT !.step = "failed"] \/ save' = [save EXCEPT !.step = "sync"]
      BY <2>11 DEF WriteTmp
    <3> QED BY <3>1, <3>2, SavingStep
  <2>12. CASE SyncTmp
    <3>1. UNCHANGED <<file, image>> BY <2>12 DEF SyncTmp, SaveOnly
    <3>2. save' = [save EXCEPT !.step = "failed"] \/ save' = [save EXCEPT !.step = "rename"]
      BY <2>12 DEF SyncTmp
    <3> QED BY <3>1, <3>2, SavingStep
  <2>13. CASE Rename BY <2>13, Committing
  <2>14. CASE RemoveOld BY <2>14, RemoveOldStep
  <2>15. CASE RenameFails
    <3>1. UNCHANGED <<file, image>> /\ save' = [save EXCEPT !.step = "failed"]
      BY <2>15 DEF RenameFails, SaveOnly, fileVars
    <3> QED BY <3>1, SavingStep
  <2>16. CASE SaveFailed
    BY <2>16, Withdrawing DEF SaveFailed, SaveOnly, EndSave, NotSaving
  <2>17. CASE PowerLoss
    <3>1. PICK f \in Survives(file[image]) : file' = [file EXCEPT ![image] = f]
      BY <2>17 DEF PowerLoss
    <3>2. f = file[image] BY <3>1 DEF Survives, IInv, FileInv, TypeOK
    <3>3. file' = file BY <3>1, <3>2 DEF IInv, TypeOK
    <3> QED BY <2>17, <3>3, Withdrawing DEF PowerLoss, NotSaving
  <2> QED
    BY <1>2, <2>1, <2>2, <2>3, <2>4, <2>5, <2>6, <2>7, <2>8, <2>9, <2>10, <2>11, <2>12,
       <2>13, <2>14, <2>15, <2>16, <2>17 DEF Next
<1> QED BY <1>1, <1>2

\* The metadata file of each image holds a whole record - the last one saved, or the one
\* being saved - or none, through all failures and losses of power.
THEOREM StoreRefinesRecordFile == Spec => ImplementsRecordFile
<1>1. Init => Store!Init
  <2>1. SUFFICES ASSUME Init PROVE Store!Init OBVIOUS
  <2>2. \A i \in Images : file[i].rec = NoRecord BY <2>1, RecordFacts, StoreAssumption DEF Init
  <2>3. save.by = "none" BY <2>1 DEF Init, NotSaving
  <2> QED BY <2>2, <2>3 DEF Store!Init
<1>2. IInv /\ IInv' /\ [Next]_vars => [Store!Next]_(Store!vars)
  BY StoreAssumption, RefinementStep DEF StoreStep
<1> QED BY <1>1, <1>2, Inductive, PTL DEF Spec, ImplementsRecordFile, Store!Spec

=============================================================================
