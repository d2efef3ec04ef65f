# Flipper Zero mass storage: verification project

TLA+ models of the Flipper Zero mass-storage application, checked with TLC on
small instances and, for the core modules, proved with TLAPS for every value of
their constants.  Paths below are relative to the repository.

1. [The system](#1-the-system): components, state, operations, interactions
2. [The modules](#2-the-modules) and how they correspond to the code
3. [The runs](#3-the-runs): what is checked, with which bounds
4. [Fairness](#4-fairness)
5. [What the runs found](#5-what-the-runs-found)
6. [The proofs](#6-the-proofs)
7. [What is only model-checked, and what is not modelled](#7-limits)
8. [Plan](#8-plan)

`PROJECT.json` has the same in machine-readable form: components, runs,
mutants (for every property a plausible bug that violates it), the source lines
of every definition, the hazards, the findings and the theorems.


## 1. The system

A Flipper Zero shows an image file on its SD card to a USB host as a disk
(SSD, HDD, floppy, CD-RW, ISO or audio CD).  Audio CDs are also played on the
device itself.

| Component | Source | State it keeps | Operations |
|---|---|---|---|
| BOT transport | `helpers/mass_storage_usb.c` | worker state, CBW, CSW, transfer buffer, event flags, both endpoints | one worker turn per state; endpoint, suspend and reset callbacks; start, stop |
| SCSI command layer | `helpers/mass_storage_scsi.c` | `SCSISession`: the command, what of it is left, sense data | `scsi_cmd_start`, `_rx_data`, `_tx_data`, `_end` |
| Background blank | same | `SCSIBlank`: active, immediate, failed, position | start, step, cancel, finish |
| Optical recorder | same | write pointer, open, finalized, formatted, packet size | WRITE, FORMAT, CLOSE, SYNCHRONIZE CACHE, BLANK, MODE SELECT, the reports |
| Optical state persistence | `scenes/mass_storage_scene_work.c`, `helpers/mass_storage_metadata.c` | the `.msmeta` file and its temporary file, the image on the card | fingerprint, save, load, mount, exit |
| Mount options | `scenes/mass_storage_scene_settings.c`, `helpers/mass_storage_metadata.c` | the options of the app, and their part of the `.msmeta` file | load, validate, force, change, save |
| Image file I/O | `scenes/mass_storage_scene_work.c` | open parts, a cached offset of each | open, read, write, close |
| Image creation | `scenes/mass_storage_scene_file_name.c` | the parts created so far | create a part, remove stale parts, clean up |
| CUE parsing and disc layout | `helpers/audio_cd.c` | the tracks, where silence is inserted | one per line of the sheet; layout; locate and read |
| Audio CD player | `helpers/audio_cd.c` | the worker's queue, status, buffer halves, scan, generation | the controls, the DMA interrupt, free |
| Audio controls | `scenes/mass_storage_scene_work.c`, `helpers/mass_storage_scsi.c` | selected track, the "press again" window | keys, redraw, the host's audio commands |
| Scenes and app life cycle | `scenes/`, `helpers/mass_storage_usb.c` | scene stack, event queue, what a session holds, LED | enter and leave a scene, start and stop USB, callbacks, ticks |
| Audio output, view, USB descriptors | `helpers/audio_cd_hal.c`, `views/`, `helpers/mass_storage_usb.c` | registers; what is drawn; constants | set-up; drawing |

How they interact:

* **Interrupts and the transport's worker.** Endpoint callbacks run in interrupt
  context and only set event flags; `usb_suspend`, the reset request and
  `usb_deinit` set flags from other contexts.  The worker polls its endpoints
  after any event and otherwise sleeps, unless a blank operation is running.
* **Transport and SCSI layer.** Plain calls on the worker's thread.  The one piece
  of state that crosses commands is the background blank: the worker calls
  `blank_step` between its turns, in the transfer buffer of the command it is
  handling, and defers the status of a BLANK without IMMED to its end.
* **SCSI layer and card.** Callbacks for read, write, zero, sync and saving the
  recording state.  The callback that saves is NULL on a read-only mount.
* **Mounts.** Nothing of a session survives in memory.  The next mount rebuilds the
  recording state from the metadata file, when its fingerprint fits the image,
  and from the image itself otherwise.
* **One record, two savers.** The settings scene writes the mount options and the USB
  session the recording state, each as a whole `app->metadata` with the other's part
  as it was last loaded.  Only the join in `usb_deinit` keeps the two apart.
* **Application, driver and worker.** The work scene opens what a session needs, starts
  USB, and takes both down in the reverse order.  In between, driver callbacks and
  worker use it from their own threads and post Eject events to the queue of the
  application, which may by then be anywhere.
* **Audio.** Keys (application thread) and SCSI commands (transport worker) put
  events into the player's queue; the DMA interrupt puts its own into the same
  queue without waiting.  Only the player's worker changes the deck.  The
  callers read the status under a mutex and act on it later.

What is hard about it, and what makes each part correct:

| Component | Hard | Correct if |
|---|---|---|
| Transport | flags raised between an endpoint call and the next wait; halts; short packets; resets in mid-transfer; two senders of one event | no copy leaves the buffer; the two sides agree on the stage; no lost wake-up; nobody waits for ever; residues are true; an eject is carried out after, and only after, its status |
| Blank | steps interleave with other commands; deferred status; cancellation, restart, failure | GOOD only when wiped; a wiped disc is empty everywhere; progress visible at once |
| Recorder and persistence | several steps (blocks, sync, file), each of which may fail or be the last before the power goes | the saved state never tells of blocks that are not there; an acknowledged state comes back; recorded blocks are not overwritten; reported space is writable |
| Sense data | handlers write all of it, two fields of it, or nothing; a blank operation fails between two polls | a host that asks after each failure hears its reason and no other; the end of a BLANK is told |
| Image files | requests cross parts; short transfers and failed seeks leave a file somewhere; creation fails half-way over an older image | the parts are one flat image; a cached offset is the real one; creation is all or nothing |
| Metadata file | a save is four calls, each of which may fail or be the last before a loss of power; two savers | the file holds a whole record; both savers' parts are remembered |
| Life cycle | callbacks and worker run on while the scene is torn down; events wait while scenes change | a session never lacks its resources; an Eject ends its own session, and does end it; the LED settles |
| CUE | silence moves everything behind it; tracks begin before their INDEX 01 | reads return what the sheet describes; the tracks tile the disc |
| Player | a report of the DMA may be stale, late or lost; controls overtake each other | output follows the status; no half is skipped or repeated; playback and shutdown end |

The hazards behind these, each at its line, are listed in `PROJECT.json`.


## 2. The modules

| Module | Models | MC module | Proofs |
|---|---|---|---|
| `BotTransport` | transport, host, endpoints, the SCSI layer as the transport sees it | `MCBotTransport` | `BotTransport_proofs` |
| `OpticalRecorder` | recording state, image, metadata file, mounts, power loss | `MCOpticalRecorder` | `OpticalRecorder_proofs` |
| `ScsiSense` | status, sense data and event notifications of every command | – | `ScsiSense_proofs` |
| `ImageParts`, implements `FlatImage` | creation, opening, reads and writes of an image in parts | `MCImageParts` | `ImageParts_proofs` |
| `MetadataStore`, implements `RecordFile` | the metadata file, its two savers, the mount options | `MCMetadataStore` | `MetadataStore_proofs` |
| `AppLifecycle` | scenes, event queue, USB sessions, callbacks, LED | – | `AppLifecycle_proofs` |
| `CueLayout` | CUE parser, layout, reads | `MCCueLayout` | `CueLayout_proofs` |
| `AudioPlayer` | the player: worker, queue, DMA, shutdown | through `AudioControls` | `AudioPlayer_proofs` |
| `AudioControls` (extends `AudioPlayer`) | keys, redraw and host commands, the whole next-state relation | `MCAudioControls` | `AudioPlayer_proofs` |

Definitions keep the names of the source.  Definitions named `Bad...` are broken
variants of the one they precede; no action uses them.

**BotTransport.** One worker action is one turn of the inner
`do { switch } while(true)` loop: a turn does at most one endpoint operation, so
interrupts can fall between any two that matter.  `pc` tells where the thread is
(waiting, in the loop, at the blank step, ended), `latched` is what the last wait
returned.  `flags` is set by the callbacks in the same step as the packet they
report, as the interrupt does.  The host sends CBWs, moves data, reads CSWs,
clears halts, gives up (when it is stuck, or `MaxAborts` times for no reason) and
recovers with a BOT reset.  A command is a record of its kind, direction,
announced length and own length, which is what the transport can tell apart.
`cmd_start`, `cmd_rx_data`, `cmd_tx_data` and `cmd_end` are operators that give
the set of outcomes.  That clearing a halt empties the endpoint is how the USB
controller behaves and is outside `src/`.

**OpticalRecorder.** One action is one SCSI command, or one call of the data
phase or the blank.  `image` is what reads return, `disk` what is on the card;
they differ until a sync, and a loss of power leaves each block old or new.
`meta` is the metadata file, replaced as a whole or not at all.  The fingerprint
is the function of the sampled blocks that the code hashes, with `LookAlike`
contents whose sampled bytes agree although the blocks differ.  Two history
variables hold what the properties are about: `promise` is the last state
acknowledged with GOOD (or by a clean exit) and the image of that moment;
`recorded` is what each block may hold by what the host ordered.

**ScsiSense.** One action is one command, from `scsi_cmd_start` to its status, or one
blank step.  What a command does to the medium is `OpticalRecorder`'s; here a command
is what it may be refused for on each of five devices, and how much of the sense data
its handler then writes: all of it, `sk` and `asc` only (the busy flag `ascq` keeps what an
earlier command left), or nothing.  The deferred status of BLANK, the gate on
overlapping commands and both event flags of the blank operation are exact.  The
history tells what a host that polls knows: `owed` counts failures it has not asked
about, `cause` is the last one, `untold` and `covered` follow a failed blank operation.

**ImageParts** creates an image part by part (with the older parts of that name that
are removed, the clean-up after a failure, and a loss of power in between), opens the
parts, and carries out requests turn by turn of the loop of `file_read` and
`file_write`.  `pos` is where each open file really is, `cached` is
`app->file_offsets`.  A seek takes several storage calls when it goes farther than
`SeekStep`; `astray` are the parts a seek left in the middle of its way.  A seek behind
the end of a file is taken to extend the file or to fail, as the code that creates
parts takes it.  `FlatImage` is what the SCSI layer expects of the callbacks: one image
whose requests move exactly the units they name and fail only for a reason.  The
refinement `Flat` maps the image to the units of the open parts, one behind the other.

**MetadataStore** has the scenes as far as they load, change or save `app->metadata`,
and the save itself call by call: create the temporary file, write, sync, rename, or
remove after a failure.  Storage that cannot rename onto an existing file removes that
first (`RenameKinds`).  What was not synced is whole or torn after a loss of power.  A
recording state is a number that tells which save it is from.  `RecordFile` is what the
scenes expect: a record is offered, then stored as a whole or withdrawn.  The
refinement `Store` maps the stored record to the content of the file, so that a file
that is torn, or not what was offered, is no state of `RecordFile`.

**AppLifecycle** has the scene stack, the queue of back keys and custom events, and the
work scene's entry and exit with every early return, each with the calls that let
another thread in between.  `thread` is the transport's worker, `attached` that the
driver's callbacks reach the session.  The scene manager and the view dispatcher are
outside `src/`; events are taken in the order in which they were sent, and a tick comes
when none waits.  An event carries the session it was sent in, which the code's events
do not: the properties are about that.

**CueLayout.** One action per line of the sheet that changes the parsed tracks,
`SheetEnds` checks the indexes, opens the BIN file and fixes the layout.  `Read`
goes through `audio_cd_locate` chunk by chunk as `audio_cd_read_bytes` does.  It
is compared with `Described`, which lists the disc sector by sector straight from
the sheet.

**AudioPlayer, AudioControls.** One event is one step of the worker: only the
worker touches what it needs to handle an event, so nothing can interleave
visibly inside it.  The DMA plays on between the steps (`HalfPlayed`), drops its
event when the queue is full, and `kept` remembers that.  Halves hold offsets and
lengths, not samples.  A read of the file fails only when something is to be
read.  Start of the thread, set-up of the output and opening the speaker may
fail.  A key reads the status and puts its event in one step; since any events
may already wait in the queue, the status it acted on is stale all the same.
`ScanEnd` is the release of a scan key.  `Tick` is the redraw, which selects the
track being played.  Tracks have no pregaps here: those are `CueLayout`'s.


## 3. The runs

Passing runs explore all their states; every property has a mutant of the
code that TLC refutes.

| Run | Configuration | States | Shows |
|---|---|---|---|
| `bot_data` | `BotData.cfg` | 1,060,000 | three data commands of every relation between announced and own length, media errors, refusals, one early abort, suspends and resets anywhere |
| `bot_control` | `BotControl.cfg` | 210,000 | BLANK in both forms, the commands that may overlap it, eject; allocation, sync and media failures; with fairness |
| `scsi_sense` | `ScsiSense.cfg` | 11,000 | any sequence of the commands of the dispatch table on five devices, blank operations that fail at any step |
| `optical_state` | `OpticalState.cfg` | 364,000 | four commands over any number of mounts, one loss of power, failing writes, syncs and saves |
| `image_parts` | `ImageParts.cfg` | 2,250,000 | an image of one to three parts created over the remains of an older one, or one file of any size, with three reads and writes; failing opens, seeks, transfers and removals; a loss of power |
| `metadata_store` | `MetadataStore.cfg` | 1,491,000 | two images, any changes of options and any number of mounts, two saves of the recording state, one loss of power, every storage call failing |
| `app_lifecycle` | `AppLifecycle.cfg` | 721,000 | two USB sessions, three bus events, two waiting events, a user at every key; with fairness |
| `cue_layout` | `CueLayout.cfg` | 229,000 | every sheet of up to three tracks |
| `audio_player` | `AudioPlayer.cfg` | 453,000 | any three keys or host commands, with late and dropped DMA reports and failing reads; with fairness |
| `bot_eject_ack`, `bot_reply_wiped`, `optical_tail` | the cfg of that name | | a statement of the repository that the code does not keep, see section 5 |

What they check:

* `bot_data`: **BufferSafe** (every copy stays within buffer and announced length),
  **NoLostWakeup** (the worker never sleeps on an endpoint that is ready),
  **InSync** (data never arrives where a CSW is due, and the reverse),
  **ResidueTruthful** (what a CSW claims is what the host received),
  **NeverStuck** (host and device never wait for each other).  The last four speak
  of executions without a reset event.  After one the worker may still start a
  CBW from before it, and only `CommandsEnd` is claimed.
* `bot_control`: **BlankAckedWhenWiped**, **ProgressVisible**, **EjectHonoured**, **CommandsEnd** (every command ends, with a CSW or with a
  recovery), **ExitJoins** (`usb_deinit` returns).
* `optical_state`: **StateConsistent** (session and file never hold a contradictory
  state, and a WRITE in progress stays at the write pointer and on the medium),
  **RecordedBelowPointer** (a restored state never tells of blocks that are not on
  the card), **ReportedSpaceWritable**, **Durable** (an acknowledged state is the
  state of the next mount while the host only appends and leaves block 16, which
  the fingerprint samples, alone), **AppendOnly**, **BlankLeavesEmpty**,
  **ReadOnlyUntouched**.
* `scsi_sense`: **SenseTruthful** (sense data written in parts never name a reason that
  is not the last failure's), **BlankOutcomeTold** (a host that polls learns that a
  BLANK ended, and that it failed).
* `image_parts`: **PositionKnown** (a cached offset is the position of the file),
  **CreationComplete** (an image that was created is mounted with the size asked for,
  whatever lay there before; a failed creation leaves nothing), **ImplementsFlatImage**
  (the refinement).
* `metadata_store`: **Remembered** (the settings show what each saver last saved),
  **FixedNeverRecorded** (no recording state for an .iso or .cue),
  **ImplementsRecordFile** (the refinement: whole records only).
* `app_lifecycle`: **SessionHasItsResources** (mutex, files and audio CD are there
  whenever a callback or the worker can use them), **EjectOwnSession** (a late Eject does
  not end the next session), **ExitsOnEject** (one that the options call for ends its
  session), **LedSettles**.
* `cue_layout`: **ReadsDescribed**, **TracksTile**.
* `audio_player`: **OutputFollowsStatus**, **Gapless** (the half that plays next holds
  what comes after the one playing, in scans too), **PositionHeard**,
  **CompletedAtEnd**, **PlaybackEnds** (also when the interrupt's
  report of the end was dropped), **PlayerEnds** (`audio_cd_free` returns).

Bounds, and why they are enough:

* `BotTransport`: a packet is two units, the buffer two packets, so that
  transfers of up to six units need one or two buffers and end with a short, a
  full or no last packet.  Three commands: one that leaves something behind
  (halts, an event, a running blank), one that meets it, one that shows that it
  is over.  `MaxAborts` 1: an abort leaves a stale CSW or CBW, whose effect the
  next command ends.  Three blocks to wipe with room for two: a first, a last and
  an overlapped step.  Two packets in the OUT endpoint is the hardware's double buffer.
* `OpticalRecorder`: four blocks with the sampled block in the middle, so that
  it lies above, at and below the write pointer, and the fingerprint's other
  samples coincide with it or not.  Requests across the pre-gap, onto the
  sampled block, and past the end.  Chunks of one or two blocks.  Four commands
  reach, for example, BLANK, its cancellation, WRITE and SYNCHRONIZE CACHE.
  Mounts are not bounded.
* `ScsiSense` is finite but for `BlankSteps`: with three a step is the first, neither,
  or the last, and commands come in any number and order.
* `ImageParts`: a part has two units, so that requests start and end inside parts and
  on their borders, and the third part is the last that is allowed.  `SeekStep` is
  larger than a part, as in the code, where a part is 2 GiB and a step 4 GiB: only a
  single file from elsewhere needs several steps.  Three requests: one that leaves
  a file somewhere, one that goes there by the cached offset, one that reads what
  that did.  One creation, since a second starts from a card the initial states
  have already.
* `MetadataStore`: two images are one whose options could leak into the other.  Two
  recording states: an older and a newer.  One loss of power: what it leaves is an
  initial state of what follows, except for a torn file, which the rest meets.
* `AppLifecycle`: two sessions are one whose events may reach the other.  Three bus
  events: configure, disconnect and eject, or a suspend and its wake-up.  Two waiting
  events are an Eject and what overtakes its effect.  A queue of two is too short for
  the one counterexample to `EjectOwnSession` that its premise excludes (section 5), so
  the premise matters to the proof, which holds for every bound, and not to the run.
* `CueLayout`: three tracks (first, middle, last), files of up to five sectors,
  pregaps of up to two.  A layout is a sum over tracks, and all orders of
  indexes, pregaps and ends of the file occur.
* `AudioPlayer`: sectors of two units and halves of three, so that halves start
  and end inside sectors; the disc (eight units) ends inside a half, and a scan
  step (two halves) overshoots it.  A queue of two fills.  Three calls: begin,
  replace, end.
* `CHECK_DEADLOCK FALSE` for CUE, audio and `ImageParts`: a parsed sheet, a freed player
  and a card without an image, once its creations are used up, have nothing left to do.  The transport's end is the explicit `Joined` step;
  the recorder can always be mounted again.


## 4. Fairness

* `BotTransport`: weak fairness of the worker (a thread of a preemptive
  scheduler that is runnable) and of the host's own steps (the controller keeps
  polling, and the driver's command timer runs out on a stuck transfer).  Nothing is assumed
  of sending commands, giving up early, suspending or leaving the app.
* `AudioControls`: weak fairness of taking an event, of the DMA playing on, and of
  the join; strong fairness of the put of the exit event, because the kernel hands
  a freed place of a queue to the thread that waits for it, although the interrupt
  may fill the queue in between.  Nothing is assumed of keys and host.
  `PlaybackEnds` has the premise that the queue is empty again and again: a half
  lasts 46 ms, handling an event takes a few.
* `AppLifecycle`: weak fairness of the application's thread, of its ticks (the view
  dispatcher's tick comes every 500 ms while no event waits) and of the worker's end
  once told.  Nothing is assumed of the user, the host and the bus.
* The other modules have safety properties only.


## 5. What the runs found

Each is a run that TLC must find violated, with the line of the repository that
says otherwise in `PROJECT.json`:

1. `bot_eject_ack`: a transmit-complete event of the command *before* the eject can
   still be in the flags, so the eject callback may tear USB down while the
   eject's CSW is unsent.
2. `bot_reply_wiped`: a blank step between two packets of a reply that is allowed
   during BLANK zeroes the second packet.
3. `optical_tail`: for an image whose size is no multiple of 2048 the state is
   saved with success and never accepted again.

Observations that the models contain and no run is spent on; the properties that
pass state them as exceptions or do not touch them:

* A suspend or reset handled in the same wake-up as the transmit-complete of an eject's
  CSW makes the worker forget the eject (`mass_storage_usb.c:149`).  `EjectHonoured`
  speaks of the executions without one.
* CLOSE SESSION on a formatted disc reports a complete last session, which the comment
  at `mass_storage_scsi.c:1415` says a formatted disc never has (`:1999`).
* A first track with an INDEX 00 before its INDEX 01 is refused (`audio_cd.c:412`).
* A redraw between two presses of Right, before the player has handled the first, makes
  the second ask for the same track (`mass_storage_scene_work.c:356`).
* When the file is gone and the application was started with a file, there is no Start
  scene to go back to: the work scene stays on the screen without having opened
  anything, and its ticks take a mutex that is NULL (`mass_storage_scene_work.c:511`).
  `SessionHasItsResources` names this as its one exception.
* "Start" selected twice, with the back key between, before the first is handled: the work
  scene opens, closes, and opens again while an Eject of the first session may wait behind
  the second Start, and ends the second session (`mass_storage_scene_work.c:309` takes an
  Eject without asking whose it is).  `EjectOwnSession` names this as its one exception.
* The failure of a background BLANK is lost to the host when another command is refused,
  or a reset comes, before it asks; and several commands fail with no sense data at all
  (`mass_storage_scsi.c:818` and others).  `BlankOutcomeTold` names the exception.
* After a seek of several steps fails half-way the cached offset may be wrong, and a
  later request moves other bytes (`mass_storage_scene_work.c:41`).  It takes one file
  larger than 4 GiB and a failing seek; `PositionKnown` excludes such parts.


## 6. The proofs

All theorems hold for every value of the constants that satisfies the named
assumption of the module (`BotAssumption`, `RecorderAssumption`,
`PlayerAssumption` with `ControlsAssumption`, `ImageAssumption`, `StoreAssumption`,
`SenseAssumption`, `LifecycleAssumption`, `CueAssumption`).  TLC evaluates the assumptions
in every run.  Together they state every safety property that the passing runs check.

| Theorem | Statement |
|---|---|
| `BotTransport_proofs!TypeCorrect` | `Spec => []TypeOK` |
| `BotTransport_proofs!BufferSafety` | `Spec => []BufferSafe` |
| `BotTransport_proofs!InStep` | `Spec => [](IInv /\ SyncInv /\ WakeInv)` |
| `BotTransport_proofs!Synchronised` | `Spec => []InSync` |
| `BotTransport_proofs!ResidueHonest` | `Spec => []ResidueTruthful` |
| `BotTransport_proofs!BlankHonest` | `Spec => []BlankAckedWhenWiped` |
| `BotTransport_proofs!NoWakeupLost` | `Spec => []NoLostWakeup` |
| `BotTransport_proofs!AlwaysMovable` | `Spec => []NeverStuck` |
| `BotTransport_proofs!ProgressSeen` | `Spec => []ProgressVisible` |
| `OpticalRecorder_proofs!TypeCorrect` | `Spec => []TypeOK` |
| `OpticalRecorder_proofs!StateSafety` | `Spec => []StateConsistent` |
| `OpticalRecorder_proofs!AppendOnlyHolds` | `Spec => AppendOnly` |
| `OpticalRecorder_proofs!SpaceReported` | `Spec => []ReportedSpaceWritable` |
| `OpticalRecorder_proofs!ReadOnlySafe` | `Spec => ReadOnlyUntouched` |
| `OpticalRecorder_proofs!BlankComplete` | `Spec => BlankLeavesEmpty` |
| `OpticalRecorder_proofs!RecordedIsThere` | `Spec => []RecordedBelowPointer` |
| `OpticalRecorder_proofs!SavedIsRestored` | `ASSUME Aligned PROVE Spec => Durable` |
| `AudioPlayer_proofs!TypeCorrect` | `Spec => []TypeOK` |
| `AudioPlayer_proofs!OutputSafe` | `Spec => []OutputFollowsStatus` |
| `AudioPlayer_proofs!Heard` | `Spec => [](IInv /\ HeardInv)` |
| `AudioPlayer_proofs!NoGap` | `Spec => []Gapless` |
| `AudioPlayer_proofs!PositionIsHeard` | `Spec => []PositionHeard` |
| `AudioPlayer_proofs!CompletesAtEnd` | `Spec => CompletedAtEnd` |
| `CueLayout_proofs!TypeCorrect` | `Spec => []TypeOK` |
| `CueLayout_proofs!ReadsAreDescribed` | `Spec => []ReadsDescribed` |
| `CueLayout_proofs!TracksCover` | `Spec => []TracksTile` |
| `ScsiSense_proofs!TypeCorrect` | `Spec => []TypeOK` |
| `ScsiSense_proofs!SenseTold` | `Spec => []SenseTruthful` |
| `ScsiSense_proofs!OutcomeTold` | `Spec => []BlankOutcomeTold` |
| `ImageParts_proofs!TypeCorrect` | `Spec => []TypeOK` |
| `ImageParts_proofs!PositionsKnown` | `Spec => []PositionKnown` |
| `ImageParts_proofs!PartsRefineFlatImage` | `Spec => ImplementsFlatImage` |
| `ImageParts_proofs!ImageComplete` | `Spec => []CreationComplete` |
| `MetadataStore_proofs!TypeCorrect` | `Spec => []TypeOK` |
| `MetadataStore_proofs!BothSaversRemembered` | `Spec => []Remembered` |
| `MetadataStore_proofs!NothingOnFixedImages` | `Spec => []FixedNeverRecorded` |
| `MetadataStore_proofs!StoreRefinesRecordFile` | `Spec => ImplementsRecordFile` |
| `AppLifecycle_proofs!TypeCorrect` | `Spec => []TypeOK` |
| `AppLifecycle_proofs!ResourcesHeld` | `Spec => []SessionHasItsResources` |
| `AppLifecycle_proofs!EjectsOwn` | `Spec => []EjectOwnSession` |

The assumptions are what the code fixes: positive lengths, a buffer that is a
whole number of packets and of blocks, commands and requests of the modelled kinds, ascending
tracks of which the first is at sector 0.  `RecorderAssumption` also has
`PacketSize <= Blocks`: an image smaller than one packet of 32 blocks that carries
a UDF volume would be mounted as formatted with 0 blocks.

*BotTransport.* `BufferSafe` is not inductive: a CBW with an OUT data stage
resets `buf_len` and not `buf_sent`.  `IInv` adds that a partly sent buffer exists
only in StateWriteData.  The lemmas bound what `scsi_cmd_tx_data` may return; one
lemma per worker action and one for the host follow.

That host and device stay in step is `SyncInv`.  While a command is under way and no
reset event was raised, the pair of them is at one of eight stages, and each says what
the host's phase, both endpoints and the worker's state are together: `Sent` (the CBW,
and perhaps OUT data behind it, waits in the endpoint), `Reading`, `Writing`, `Padding`
(the zero-length packet after a reply that ends early), `Concluding`, `Replying` (the
CSW is sent), `Answered` (it is in the endpoint) and `Dead` (the transfer buffer could
not be allocated, which `NeverStuck` excludes).  Data under way are described by `Flow`:
the queue holds just the packets that lead from what the host had to send to what it
still has.  A CSW may be built before the data are all fetched; `Truthful` says
that it claims what will have been moved by then.  Each turn of the worker leads from
stage to stage, one lemma each; a host step does so with the worker unchanged.  That
the buffer is a whole number of blocks is needed here and nowhere else: otherwise
`scsi_cmd_tx_data` would round a full buffer down and send a short packet in
mid-transfer.  In the code the buffer has 16, 8 or 4 KiB for blocks of 512 or 2048 bytes,
and four sectors of 2352 bytes for audio.
`WakeInv` is about events: whoever sleeps, or is at the blank step before the next wait,
without an endpoint event pending is `Blocked`, that is, the endpoint it needs is not
ready.  `NeverStuck` follows from both: in each stage either the host has a step, or
the endpoint the worker needs is ready, and then an event is pending.

*OpticalRecorder.* `StateConsistent` needs that no WRITE is in its data phase
while a blank operation runs, because the end of a blank resets the write pointer
under it; that is `SessionInv`.  `AppendOnly` and `ReportedSpaceWritable` follow
from it in one step.  `ReadOnlyUntouched` needs `UntouchedInv`: a read-only
session has nothing unsynced and nothing that would make it so.  `BlankLeavesEmpty`
needs `WipedInv`: a running blank has zeroed everything below its position.
`KnownInv` carries `RecordedBelowPointer`: image, card and every saved state agree with
what the host ordered, below the pointer that each of them goes with; a block that is in
the image and not on the card is as the host ordered it, so a loss of power may keep or
lose it.  `KeptInv` carries `Durable`: what was promised is in the file, the fingerprint
is that of the promised image, and the blocks it relies on are the same in image and card.
It needs `Aligned`, which is a constant of the module: for an image with a rest behind its
last whole block the code computes the fingerprint of a size it will never meet again,
and the property is false, which is what run `optical_tail` shows.

*AudioPlayer.* `OutputFollowsStatus` relates DMA, status and speaker, but an event
of the DMA in the queue can restart nothing only because of its generation, and
the end of a scan starts playback without preparing the output again.  `PlayerInv`
therefore adds: an event of the current generation waits only while the DMA runs
(`EventsCurrent`); the worker has not ended, and no exit event waits, before
`audio_cd_free` has put it (`ExitPosted`); a running scan has the output prepared,
which is the `furi_assert(cd->output_ready)` of the code (`ScanReady`); and without
a worker nothing plays (`NotStarted`).  `Handled` states once what every event
leaves behind; each control, the report of the DMA, each caller has a lemma.

What is heard needs more, because the worker lags behind the DMA: while reports wait in
the queue, the deck is laid out for a half that has already been played.  `HeardInv` says
that there is a history `h` of the halves, one for each place in the queue, such that the
reports name them in turn, the last is the half the DMA plays now (`Along`), and the deck
is laid out for the first (`Laid`: the other half continues it, or lies a scan step on or
back; lengths and source fit).  Handling a report drops the first place of the history,
the interrupt adds one behind it, and every control that changes the deck begins a new
generation, whose history is one half long.  When nothing waits, first and last are the
same half, and that is `Gapless` and `PositionHeard`.

*CueLayout.* The parser's part is small: a disc is ready only with a layout that
`IndexesValid` and `InsideFile` accept.  The rest is about the operators.  `Before(f)`
is the silence in front of sector `f` of the file, `Pos(f)` where the sector lies
on the disc and `Start(f)` where its own silence begins; they order the disc (`Order`),
every position lies in `Start(f)..Pos(f)` of one sector (`Found`), and `At` says what is
there.  `Described` and every `Read` are pieces of the sequence of `At` (`DescribedPlaces`,
`ReadPiece`); for the reads this rests on `LocateSound`: a chunk never runs over the end of
a silence, of a run of the file or of the disc, and never is empty.

*Induction over data.* The library's induction theorems take an operator as a parameter,
which the provers cannot instantiate.  Its theorems on well-founded orders are
first-order, and do as well: the set of counterexamples, if not empty, has a least
element (`WFMin`), of natural numbers or of finite sets.  What a recursive function
computes is shown in two steps: a closed form satisfies the recursion (`SumsExist`,
`DiscExists`, `ReadExists`), and there is no least argument at which two solutions differ
(`SumsUnique`, `DiscUnique`, `ReadUnique`).  A sum of natural numbers over a finite set has
the number of pairs `<<x, k>>` with `1 <= k <= f[x]` for its closed form (`Weight`), so
that sums are compared by comparing sets.

*ScsiSense.* The danger is a refusal that writes two of the three fields, or none.  One
lemma reads the whole table of refusals: each is `Sound`, that is, it names its reason,
and "operation in progress" only in full and only while an operation runs.  From there
`BusyInv` (the busy flag is set only while one runs) and `ReasonInv` (what is named
otherwise is the last failure, or that of a blank operation) carry `SenseTruthful`, and
`UntoldInv` and `NewsInv` (a failed or finished BLANK that nothing has covered is still
to be told) carry `BlankOutcomeTold`.

*ImageParts.* `TypeOK /\ PositionKnown` is inductive: a request touches the cached offset
of the part it is in, and every way out of the loop sets it again.  The refinement needs
more: `PartsInv` (parts are created only while none is open, and all open parts but the
last are full, so that an address divided by the part size is the place in the flat
image) and `MovedInv` (a request has moved as much as its addresses say).  Then each turn
of the loop is one `Move` of `FlatImage`, and every other step maps to one of its own or
to a stutter.  `CreationComplete` compares a sum of sizes, a fold, with the size asked for.
`CreationInv` says of each phase of a creation which parts there are and that all but the
last are full; `PartsTotal` says what a fold over such parts is.

*MetadataStore.* `SaveInv` says that a temporary file is renamed only when it holds all of
the record, `FileInv` that the file holds what was last stored, `MemInv` how the record in
memory differs from that for each of the two savers, and `FixedInv` that a fixed image
has no state in either place.  Each storage call of a save is one step of `RecordFile`, or
a stutter; the rename is the one that stores.

*AppLifecycle.* `StackInv` says that the work scene is only ever the top, `PhaseInv` what is
held at each step of its entry and exit, from which `SessionHasItsResources` follows.
`EjectOwnSession` is about what waits: by `QueueInv`, unless Start was selected twice, no
Start and no Eject waits behind a Start, and while the work scene is on top every waiting
Eject is of its own session.


## 7. Limits

Model-checked only: everything temporal beyond safety (`EjectHonoured`,
`CommandsEnd`, `ExitJoins`, `PlaybackEnds`, `PlayerEnds`, `ExitsOnEject`, `LedSettles`), which
is out of the prover's reach, as liveness needs ENABLED.  Every other property of the
passing runs is the statement of a theorem.

Not modelled, and why:

* Within modelled components: the LUN request and the wait of `usb_start` for the old
  interface; RESERVE TRACK's effect (the field it sets is never read); the content of
  INQUIRY, MODE SENSE, TOC, READ SUB-CHANNEL and the other replies, which is data without
  state; progress values; FLAGS, spelling and 32-bit limits of CUE sheets; samples,
  de-emphasis, volume and the scan direction shown; the audio output among the mount
  options; menus and pop-ups.
* `usb_init` is one step of `AppLifecycle`.  In the code the bus is connected before the
  worker's thread is allocated, so a suspend in between would use a NULL thread
  (`mass_storage_usb.c:455`); the bus must be idle for 3 ms for one, and how the driver
  orders the two is outside `src/`.
* That the view dispatcher takes events in the order in which they were sent is an
  assumption of `AppLifecycle`, and `EjectOwnSession` rests on it.
* `BotTransport` is not shown to implement an abstract command–status exchange, nor
  `AudioPlayer` an abstract CD player: what these would say is in `InSync`, `ResidueTruthful`
  and `CommandsEnd`, and in `OutputFollowsStatus`, `Gapless` and `CompletedAtEnd`.
* Audio output registers, the view, USB descriptors: no protocol of their own.
* `scan_reverse` outlives its scan, so a playback that completes later reports the
  start of its range as its position (`audio_cd.c:696`).  The model has it; no statement
  of the repository says what should be reported, so no property does.


## 8. Plan

Done: the transport, the command layer's sense data, the recorder with its
persistence, the metadata file and mount options, image files and their creation, the
application's life cycle, the CUE layout, and the audio player with its callers; two
refinements.  Types, every safety property and both refinements are proved.

Next: abstract specifications of the transport (what a host may rely on, command by
command) and of the player, and proofs that `BotTransport` and `AudioControls`
implement them, from `InStep` and `Heard`.

Modelling that is left is small: the start of USB in its steps with the old interface.
The run list is to stay
short: a new run replaces one that says less.
