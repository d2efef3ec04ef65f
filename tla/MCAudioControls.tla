---------------------------- MODULE MCAudioControls ----------------------------
(***************************************************************************)
(* Instance of AudioControls for TLC: two short tracks, sectors and halves *)
(* whose lengths do not divide each other, a queue that fills.             *)
(***************************************************************************)
EXTENDS AudioControls

TwoTracks   == <<0, 2>>
AllKeys     == {"PlayPause", "Stop", "Previous", "Next", "ScanBackward", "ScanForward", "ScanEnd"}
HostSectors == {1, 4}
HostAudio   == {"Play", "Pause", "Resume", "Stop", "Seek", "ScanForward", "ScanBackward"}
=============================================================================
