----------------------------- MODULE AudioControls -----------------------------
(***************************************************************************)
(* The callers of AudioPlayer: the keys of the Flipper                     *)
(* (scenes/mass_storage_scene_work.c) and the commands of the USB host     *)
(* (helpers/mass_storage_scsi.c), each on a thread of its own.  Both read  *)
(* the status and act on it while the player goes on.                      *)
(* A key's release, which always ends a scan, is a key of its own here.    *)
(***************************************************************************)
EXTENDS AudioPlayer

CONSTANTS Keys,        \* keys that are pressed
          HostLbas,    \* sectors the host names
          HostCommands, \* commands the host sends
          MaxCalls     \* bound on the keys and commands

ASSUME ControlsAssumption ==
  /\ Keys \subseteq {"PlayPause", "Stop", "Previous", "Next", "ScanBackward", "ScanForward",
                     "ScanEnd"}
  /\ HostLbas \subseteq Nat /\ HostCommands \subseteq Controls /\ MaxCalls \in Nat

VARIABLES selected,   \* audio_selected_track
          leftTrack,  \* audio_left_track
          leftTick,   \* audio_left_tick is not 0
          calls       \* keys and commands so far

keyVars == <<selected, leftTrack, leftTick>>
vars == <<thread, queue, status, deck, scan, generation, outputReady, dma, kept, user,
          selected, leftTrack, leftTick, calls>>

Init == PlayerInit /\ selected = 1 /\ leftTrack = 1 /\ leftTick = FALSE /\ calls = 0

Count == calls < MaxCalls /\ calls' = calls + 1

-----------------------------------------------------------------------------
(* mass_storage_audio_input                                                *)

PlayPause ==
  /\ leftTick' = FALSE /\ UNCHANGED <<selected, leftTrack>>
  /\ CASE status.code = "Playing" -> Control("Pause", 0, 0)
       [] status.code = "Paused"  -> Control("Resume", 0, 0)
       [] OTHER                   -> Control("Play", Tracks[selected], Sectors)

StopKey == leftTick' = FALSE /\ UNCHANGED <<selected, leftTrack>> /\ Control("Stop", 0, 0)

\* Pressed again within AUDIO_CD_PREVIOUS_WINDOW_MS it goes one track further back
Previous ==
  \E again \in {FALSE, leftTick} :
    LET target == IF again THEN Greatest(leftTrack - 1, 1) ELSE selected
    IN  /\ leftTrack' = target /\ selected' = target /\ leftTick' = TRUE
        /\ Control("Seek", Tracks[target], Sectors)

NextKey ==
  /\ leftTick' = FALSE /\ UNCHANGED leftTrack
  /\ IF selected < Len(Tracks)
     THEN selected' = selected + 1 /\ Control("Seek", Tracks[selected + 1], Sectors)
     ELSE UNCHANGED <<selected, playerVars>>

\* The position may be the end of the disc
ScanFrom == Least(status.lba, Sectors - 1)

ScanKey(key) ==
  leftTick' = FALSE /\ UNCHANGED <<selected, leftTrack>> /\ Control(key, ScanFrom, Sectors)

ScanRelease == UNCHANGED keyVars /\ Control("ScanEnd", 0, 0)

Key(key) ==
  /\ user = "open" /\ key \in Keys /\ Count
  /\ \/ key = "PlayPause" /\ PlayPause
     \/ key = "Stop" /\ StopKey
     \/ key = "Previous" /\ Previous
     \/ key = "Next" /\ NextKey
     \/ key \in Scans /\ ScanKey(key)
     \/ key = "ScanEnd" /\ ScanRelease

\* The view is drawn anew: mass_storage_update_audio_view
Tick == /\ user = "open" /\ selected' = TrackAt(status.lba)
        /\ UNCHANGED <<playerVars, leftTrack, leftTick, calls>>

-----------------------------------------------------------------------------
(* scsi_cmd_end                                                            *)

\* scsi_audio_play_range
PlayRange(from, to) == from < to /\ to <= Sectors /\ Control("Play", from, to)

\* PLAY AUDIO, from a sector or, for MSF, the current position
HostPlay == \E from \in HostLbas \cup {status.lba}, to \in HostLbas : PlayRange(from, to)

\* PLAY AUDIO TRACK INDEX; without a last track, to the end of the disc
HostPlayTracks ==
  \E first \in 1..Len(Tracks) : \E last \in first..Len(Tracks) :
    PlayRange(Tracks[first], IF last < Len(Tracks) THEN Tracks[last + 1] ELSE Sectors)

\* PAUSE/RESUME
HostPause(control) == Control(control, 0, 0)

\* START STOP UNIT without START, ejecting or not, and STOP PLAY/SCAN
HostStop == Control("Stop", 0, 0)

\* SEEK(10), and REZERO UNIT with sector 0
HostSeek == \E lba \in HostLbas \cup {0} : lba < Sectors /\ Control("Seek", lba, Sectors)

HostScan(control) == \E lba \in HostLbas : lba < Sectors /\ Control(control, lba, Sectors)

HostCommand(control) ==
  /\ user = "open" /\ control \in HostCommands /\ Count /\ UNCHANGED keyVars
  /\ \/ control = "Play" /\ (HostPlay \/ HostPlayTracks)
     \/ control \in {"Pause", "Resume"} /\ HostPause(control)
     \/ control = "Stop" /\ HostStop
     \/ control = "Seek" /\ HostSeek
     \/ control \in Scans /\ HostScan(control)

-----------------------------------------------------------------------------
Next ==
  \/ PlayerNext /\ UNCHANGED <<keyVars, calls>>
  \/ \E key \in Keys : Key(key)
  \/ Tick
  \/ \E control \in HostCommands : HostCommand(control)

\* The worker takes events, which nobody else does, and the DMA runs on; a put that
\* waits for room gets it in time, for the kernel hands a freed place to the thread
\* that waits for it.  Nothing is assumed of the keys and the host.
Fairness ==
  /\ WF_queue(thread = "running" /\ queue # <<>> /\ queue' = Tail(queue))
  /\ WF_dma(dma # Off /\ dma' = 1 - dma)
  /\ SF_user(user = "freeing" /\ Len(queue) < QueueLen /\ user' = "joining")
  /\ WF_user(user = "joining" /\ thread = "ended" /\ user' = "freed")

Spec == Init /\ [][Next]_vars /\ Fairness

-----------------------------------------------------------------------------
(* Properties.                                                             *)

\* Types of the player's state and of the keys'.
TypeOK ==
  /\ PlayerTypeOK /\ {selected, leftTrack} \subseteq 1..Len(Tracks)
  /\ leftTick \in BOOLEAN /\ calls \in 0..MaxCalls

=============================================================================
