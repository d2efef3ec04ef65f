---------------------------- MODULE MetadataStore ----------------------------
(***************************************************************************)
(* The .msmeta file beside an image (helpers/mass_storage_metadata.c) and  *)
(* its two savers: the settings scene keeps the mount options in it, the   *)
(* USB session of the work scene keeps the recording state.  Both write    *)
(* the whole of app->metadata.  A save writes a temporary file, syncs it   *)
(* and renames it; each of the calls may fail, and the power may be lost   *)
(* between any two.                                                        *)
(***************************************************************************)
EXTENDS Naturals

CONSTANTS Images,        \* paths of images
          FixedImages,   \* those that are .iso or .cue files
          Options,       \* mount options: [readOnly, optical, exit]
          Default,       \* those of a started app
          MaxStates,     \* bound: recording states saved
          MaxLosses,     \* bound: losses of power
          RenameKinds,   \* "atomic"; "removeFirst": the old file is removed first
          Faults         \* "read", "write", "rename", "remove", "stale"

\* "none": all zeros in a record whose options were never saved
OptionType == [readOnly : BOOLEAN, optical : BOOLEAN, exit : {"off", "disk", "usb", "none"}]

ASSUME StoreAssumption ==
  /\ FixedImages \subseteq Images
  /\ Options \subseteq {o \in OptionType : o.exit # "none"}
  /\ Default \in Options
  /\ MaxStates \in Nat /\ MaxLosses \in Nat
  /\ RenameKinds \subseteq {"atomic", "removeFirst"} /\ RenameKinds # {}
  /\ Faults \subseteq {"read", "write", "rename", "remove", "stale"}

VARIABLES
  scene,        \* "start", "entering" (settings), "settings", "work", "leaving" (work)
  image,        \* app->file_path
  options,      \* app->read_only, device_type, exit_on_eject
  mem,          \* app->metadata: [mount, state]
  loaded,       \* history: mem is what the file holds
  file, tmp,    \* the metadata file and the temporary file: [rec, synced]
  save,         \* mass_storage_metadata_save: [by, step, rec]
  states, losses,
  lastOptions, lastState    \* history: what the file of each image is to remember

vars == <<scene, image, options, mem, loaded, file, tmp, save, states, losses,
          lastOptions, lastState>>
fileVars == <<file, tmp>>
appVars  == <<scene, image, options, mem, loaded>>
history  == <<lastOptions, lastState>>

\* States are numbered in the order they are saved; 0 is none
NoOptions == [readOnly |-> FALSE, optical |-> FALSE, exit |-> "none"]
Record == [mount : OptionType, state : 0..MaxStates]
Empty == [mount |-> NoOptions, state |-> 0]          \* a metadata struct of zeros
NoRecord == [mount |-> NoOptions, state |-> MaxStates + 1]
Torn == [mount |-> NoOptions, state |-> MaxStates + 2]   \* not a record: wrong size or checksum
Content(r, s) == [rec |-> r, synced |-> s]
Absent == Content(NoRecord, TRUE)
NotSaving == [by |-> "none", step |-> "none", rec |-> Empty]
AnyOptions == [readOnly |-> FALSE, optical |-> FALSE, exit |-> "any"]
AnyState == MaxStates + 1

Init ==
  /\ scene = "start" /\ image \in Images /\ options = Default
  /\ mem = Empty /\ loaded = FALSE
  /\ file = [i \in Images |-> Absent] /\ tmp = [i \in Images |-> Absent]
  /\ save = NotSaving /\ states = 0 /\ losses = 0
  /\ lastOptions = [i \in Images |-> AnyOptions] /\ lastState = [i \in Images |-> 0]

-----------------------------------------------------------------------------
(* The scenes.                                                             *)

\* mass_storage_scene_file_select
SelectImage(i) ==
  /\ scene = "start" /\ scene' = "entering" /\ image' = i
  /\ UNCHANGED <<options, mem, loaded, fileVars, save, states, losses, history>>

\* What a call that may fail can do
Fails(fault) == IF fault \in Faults THEN BOOLEAN ELSE {FALSE}

\* mass_storage_metadata_remove_path
RemovePath(f, failed) == IF failed THEN f ELSE Absent

\* A new image under that name: mass_storage_metadata_remove takes away what an
\* older one left behind; whether it could is not looked at
NewImage(i) ==
  /\ scene = "start" /\ scene' = "entering" /\ image' = i
  /\ \E failed \in Fails("remove"), tmpFailed \in Fails("remove") :
       /\ file' = [file EXCEPT ![i] = RemovePath(@, failed)]
       /\ tmp' = [tmp EXCEPT ![i] = RemovePath(@, tmpFailed)]
       /\ lastOptions' = [lastOptions EXCEPT ![i] = AnyOptions]
       /\ lastState' = [lastState EXCEPT ![i] = IF failed THEN AnyState ELSE 0]
  /\ UNCHANGED <<options, mem, loaded, save, states, losses>>

\* mass_storage_mount_options_valid
Valid(o) == o # NoOptions /\ (image \in FixedImages => o.readOnly /\ o.optical)

BadForced(o) == o                     \* the options of the image before it apply

\* An .iso or .cue is mounted read-only, as an optical disc; the work scene makes
\* sure of it once more
Forced(o) ==
  IF image \in FixedImages THEN [readOnly |-> TRUE, optical |-> TRUE, exit |-> o.exit] ELSE o

\* mass_storage_scene_settings_on_enter: what cannot be read counts as absent, and
\* without valid options those of the previous image stay
EnterSettings ==
  /\ scene = "entering" /\ scene' = "settings"
  /\ \E failed \in Fails("read") :
       /\ mem' = IF failed \/ file[image].rec \notin Record THEN Empty ELSE file[image].rec
       /\ loaded' = ~failed
  /\ options' = Forced(IF Valid(mem'.mount) THEN mem'.mount ELSE options)
  /\ UNCHANGED <<image, fileVars, save, states, losses, history>>

ChangeOptions(o) ==
  /\ scene = "settings" /\ save.by = "none" /\ Forced(o) = o /\ options' = o
  /\ UNCHANGED <<scene, image, mem, loaded, fileVars, save, states, losses, history>>

BackToStart ==
  /\ scene = "settings" /\ save.by = "none" /\ scene' = "start"
  /\ UNCHANGED <<image, options, mem, loaded, fileVars, save, states, losses, history>>

BeginSave(by) == save' = [by |-> by, step |-> "open", rec |-> mem']

\* "Start": mass_storage_save_mount_options
Start ==
  /\ scene = "settings" /\ save.by = "none"
  /\ mem' = [mem EXCEPT !.mount = options] /\ BeginSave("settings")
  /\ UNCHANGED <<scene, image, options, loaded, fileVars, states, losses, history>>

\* The recording state of the session: file_save_optical_state.  When it cannot take
\* the fingerprint of the image it changes nothing
SaveState ==
  /\ scene \in {"work", "leaving"} /\ save.by = "none"
  /\ options.optical /\ ~options.readOnly /\ states < MaxStates
  /\ states' = states + 1
  /\ mem' = [mem EXCEPT !.state = states + 1] /\ BeginSave("worker")
  /\ UNCHANGED <<scene, image, options, loaded, fileVars, losses, history>>

\* Back or eject: mass_storage_scene_work_on_exit stops USB ...
LeaveWork ==
  /\ scene = "work" /\ scene' = "leaving"
  /\ UNCHANGED <<image, options, mem, loaded, fileVars, save, states, losses, history>>

BadJoined == TRUE                     \* the settings do not wait for the session

Joined == save.by = "none"            \* furi_thread_join in usb_deinit

\* ... which waits for the session and its last save; then the settings are shown
WorkLeft ==
  /\ scene = "leaving" /\ Joined /\ scene' = "entering"
  /\ UNCHANGED <<image, options, mem, loaded, fileVars, save, states, losses, history>>

-----------------------------------------------------------------------------
(* mass_storage_metadata_save.                                             *)

Saving(step) == save.by # "none" /\ save.step = step
SaveOnly == UNCHANGED <<image, options, loaded, states, losses>>

\* The save is over.  The settings scene does not look at its result; mounting
\* takes the recording state or, if the image has changed, drops it in memory
EndSave ==
  /\ save' = NotSaving
  /\ IF save.by = "worker" THEN UNCHANGED <<scene, mem>>
     ELSE /\ scene' = "work"
          /\ \E stale \in Fails("stale") :
               mem' = IF stale /\ options.optical THEN [mem EXCEPT !.state = 0] ELSE mem

\* The temporary file is created empty, then written, then synced
OpenTmp ==
  /\ Saving("open")
  /\ \E failed \in Fails("write") :
       IF failed THEN save' = [save EXCEPT !.step = "failed"] /\ UNCHANGED tmp
       ELSE /\ save' = [save EXCEPT !.step = "write"]
            /\ tmp' = [tmp EXCEPT ![image] = Content(Torn, TRUE)]
  /\ UNCHANGED <<scene, mem, file, history>> /\ SaveOnly

WriteTmp ==
  /\ Saving("write")
  /\ \E failed \in Fails("write") :
       IF failed THEN save' = [save EXCEPT !.step = "failed"] /\ UNCHANGED tmp
       ELSE /\ save' = [save EXCEPT !.step = "sync"]
            /\ tmp' = [tmp EXCEPT ![image] = Content(save.rec, FALSE)]
  /\ UNCHANGED <<scene, mem, file, history>> /\ SaveOnly

BadSyncTmp ==                         \* the record is renamed unsynced
  /\ Saving("sync") /\ save' = [save EXCEPT !.step = "rename"]
  /\ UNCHANGED <<scene, mem, fileVars, history>> /\ SaveOnly

SyncTmp ==
  /\ Saving("sync")
  /\ \E failed \in Fails("write") :
       IF failed THEN save' = [save EXCEPT !.step = "failed"] /\ UNCHANGED tmp
       ELSE /\ save' = [save EXCEPT !.step = "rename"]
            /\ tmp' = [tmp EXCEPT ![image] = Content(@.rec, TRUE)]
  /\ UNCHANGED <<scene, mem, file, history>> /\ SaveOnly

\* What the file is to remember: each saver answers for its own part
Remember ==
  /\ lastOptions' = [lastOptions EXCEPT ![image] = IF save.by = "settings" THEN save.rec.mount ELSE @]
  /\ lastState' = [lastState EXCEPT ![image] =
        IF save.by = "worker" THEN save.rec.state ELSE IF loaded THEN @ ELSE AnyState]

\* storage_common_rename where it replaces an existing file
Rename ==
  /\ Saving("rename") /\ ("atomic" \in RenameKinds \/ file[image] = Absent)
  /\ file' = [file EXCEPT ![image] = tmp[image]] /\ tmp' = [tmp EXCEPT ![image] = Absent]
  /\ Remember /\ EndSave /\ SaveOnly

Forget == /\ lastOptions' = [lastOptions EXCEPT ![image] = AnyOptions]
          /\ lastState' = [lastState EXCEPT ![image] = AnyState]

\* ... and where it has to remove that first: until the new one has its name, the
\* old record is gone
RemoveOld ==
  /\ Saving("rename") /\ "removeFirst" \in RenameKinds /\ file[image] # Absent
  /\ file' = [file EXCEPT ![image] = Absent]
  /\ Forget /\ UNCHANGED <<scene, mem, tmp, save>> /\ SaveOnly

RenameFails ==
  /\ Saving("rename") /\ "rename" \in Faults /\ save' = [save EXCEPT !.step = "failed"]
  /\ UNCHANGED <<scene, mem, fileVars, history>> /\ SaveOnly

\* The temporary file is removed.  Options that were not saved stay in memory, so a
\* later save of the recording state may still write them
SaveFailed ==
  /\ Saving("failed")
  /\ \E failed \in Fails("remove") : tmp' = [tmp EXCEPT ![image] = RemovePath(@, failed)]
  /\ lastOptions' = IF save.by = "settings" THEN [lastOptions EXCEPT ![image] = AnyOptions]
                                            ELSE lastOptions
  /\ EndSave /\ UNCHANGED <<file, lastState>> /\ SaveOnly

\* What is not synced may be on the card or not
Survives(f) == IF f.synced THEN {f} ELSE {Content(f.rec, TRUE), Content(Torn, TRUE)}

PowerLoss ==
  /\ losses < MaxLosses /\ losses' = losses + 1
  /\ \E f \in Survives(file[image]), t \in Survives(tmp[image]) :
       file' = [file EXCEPT ![image] = f] /\ tmp' = [tmp EXCEPT ![image] = t]
  /\ scene' = "start" /\ options' = Default /\ mem' = Empty /\ loaded' = FALSE
  /\ save' = NotSaving
  /\ UNCHANGED <<image, states, history>>

Next ==
  \/ \E i \in Images : SelectImage(i) \/ NewImage(i)
  \/ EnterSettings \/ BackToStart \/ Start \/ LeaveWork \/ WorkLeft
  \/ \E o \in Options : ChangeOptions(o)
  \/ SaveState \/ OpenTmp \/ WriteTmp \/ SyncTmp \/ Rename \/ RemoveOld \/ RenameFails
  \/ SaveFailed \/ PowerLoss

Spec == Init /\ [][Next]_vars

-----------------------------------------------------------------------------
(* Properties.                                                             *)

Contents == [rec : Record \cup {NoRecord, Torn}, synced : BOOLEAN]
SaveType == [by : {"none", "settings", "worker"}, rec : Record,
             step : {"none", "open", "write", "sync", "rename", "failed"}]

\* Types of the scenes, the files, the save in progress and the history.
TypeOK ==
  /\ scene \in {"start", "entering", "settings", "work", "leaving"}
  /\ image \in Images /\ options \in OptionType
  /\ mem \in Record /\ loaded \in BOOLEAN
  /\ file \in [Images -> Contents] /\ tmp \in [Images -> Contents]
  /\ save \in SaveType /\ states \in 0..MaxStates /\ losses \in 0..MaxLosses
  /\ lastOptions \in [Images -> OptionType \cup {AnyOptions}]
  /\ lastState \in [Images -> 0..AnyState]

\* README.md: the .msmeta file is used to remember mount options and CD-RW metadata.
\* The settings of an image show the options it was last started with and carry the
\* recording state its last session saved, whatever other images, the two savers,
\* failed saves and losses of power did in between - unless a call failed that
\* destroys the record itself.
Remembered ==
  scene = "settings" /\ save.by = "none" /\ loaded =>
    /\ lastOptions[image] \in {mem.mount, AnyOptions}
    /\ lastState[image] \in {mem.state, AnyState}

\* An .iso or .cue image is never recorded on, whatever options the image before it
\* had: no recording state is ever saved for it.
FixedNeverRecorded ==
  \A i \in FixedImages : file[i].rec \in Record => file[i].rec.state = 0

Store == INSTANCE RecordFile WITH
  Records <- Record,
  stored <- [i \in Images |-> file[i].rec],
  offered <- [i \in Images |-> IF i = image /\ save.by # "none" THEN save.rec ELSE NoRecord]

\* Whatever fails and whenever the power is lost, the file of an image holds a whole
\* record: the last one saved, or the one being saved, or none.
ImplementsRecordFile == Store!Spec

=============================================================================
