------------------------------ MODULE AudioPlayer ------------------------------
(***************************************************************************)
(* The player of helpers/audio_cd.c: a worker thread that takes events     *)
(* from a bounded queue, the circular DMA that plays the two halves of a   *)
(* buffer and reports from its interrupt each half it is done with, and    *)
(* the calls of the other threads that control the player and free it.     *)
(*                                                                         *)
(* Offsets count units; a sector has SectorLen of them, half a DMA buffer  *)
(* HalfLen.  Only the worker touches what it needs to handle an event, so  *)
(* one event is one step; the DMA moves on between the steps.  Samples,    *)
(* volume and the scan direction shown to the user are left out.           *)
(* Broken variants, named Bad..., precede the definition they break.       *)
(***************************************************************************)
EXTENDS Integers, Sequences, FiniteSets

CONSTANTS Sectors,     \* sectors of the disc
          SectorLen,   \* AUDIO_CD_SECTOR_SIZE
          HalfLen,     \* AUDIO_CD_RAW_HALF_SIZE
          ScanFactor,  \* AUDIO_CD_SCAN_MULTIPLIER
          Tracks,      \* sector of every track's INDEX 01; no track has a pregap
          QueueLen     \* AUDIO_CD_PLAYER_QUEUE_LENGTH

ASSUME PlayerAssumption ==
  /\ {Sectors, SectorLen, HalfLen, ScanFactor, QueueLen} \subseteq Nat \ {0}
  /\ Tracks \in Seq(0..(Sectors - 1)) /\ Tracks # <<>> /\ Tracks[1] = 0
  /\ \A i \in 2..Len(Tracks) : Tracks[i - 1] < Tracks[i]

VARIABLES thread,       \* the worker: "none", "running", "ended"
          queue,        \* AudioCdEvent that wait for the worker
          status,       \* [code, lba, end] of SCSIAudioStatus
          deck,         \* [from, to]: range, source: offset to read next,
                        \* start, valid: what each half of the buffer holds
          scan,         \* [active, reverse, restore]
          generation,   \* of the playback; an event of an older one is stale
          outputReady,  \* the speaker is acquired
          dma,          \* half the DMA plays, or Off
          kept,         \* no event of this playback was dropped (observer)
          user          \* the app: "open", "freeing", "joining", "freed"

playerVars == <<thread, queue, status, deck, scan, generation, outputReady, dma, kept, user>>

Off == -1
Halves == {0, 1}
Codes == {"Stopped", "Playing", "Paused", "Completed", "Error"}
Controls == {"Play", "Pause", "Resume", "Stop", "ScanForward", "ScanBackward", "ScanEnd", "Seek"}
Scans == {"ScanForward", "ScanBackward"}
Step == HalfLen * ScanFactor

Least(a, b)    == IF a <= b THEN a ELSE b
Greatest(a, b) == IF a >= b THEN a ELSE b

\* AudioCdEvent
Events == [type : {"control"}, control : Controls, from : 0..Sectors, to : 0..Sectors]
            \cup [type : {"dma"}, half : Halves, generation : Nat]
            \cup {[type |-> "exit"]}

\* Track a sector lies in: the number of tracks that begin there or before
TrackAt(lba) == Cardinality({i \in 1..Len(Tracks) : Tracks[i] <= Least(lba, Sectors - 1)})

\* audio_cd_set_status
Status(code, lba, end) ==
  [code |-> code, lba |-> Least(lba, Sectors), end |-> Least(end, Sectors)]

PlayerInit ==
  /\ thread = "none" /\ queue = <<>> /\ status = Status("Stopped", Tracks[1], Sectors)
  /\ deck = [from |-> 0, to |-> 0, source |-> 0,
             start |-> [h \in Halves |-> 0], valid |-> [h \in Halves |-> 0]]
  /\ scan = [active |-> FALSE, reverse |-> FALSE, restore |-> "Stopped"]
  /\ generation = 0 /\ outputReady = FALSE /\ dma = Off /\ kept = TRUE /\ user = "open"

-----------------------------------------------------------------------------
(* audio_cd_fill_half: deck `d', scanning as `s' says, half `h'.           *)

Rewinding(s) == s.active /\ s.reverse

FillStart(d, s) ==
  IF Rewinding(s) THEN Greatest(d.source - Step, d.from) ELSE d.source

\* Only whole halves are read
BadFillLength(d, s) ==
  IF (Rewinding(s) /\ d.source <= d.from) \/ FillStart(d, s) + HalfLen > d.to THEN 0
  ELSE HalfLen

\* A scan back to the start of the range reads its first half again
BadExhausted(d, s) ==
  IF FillStart(d, s) >= d.to THEN 0 ELSE Least(HalfLen, d.to - FillStart(d, s))

FillLength(d, s) ==
  IF (Rewinding(s) /\ d.source <= d.from) \/ FillStart(d, s) >= d.to THEN 0
  ELSE Least(HalfLen, d.to - FillStart(d, s))

\* A scan may step over the end of the range
BadScanSource(d, s) ==
  IF Rewinding(s) THEN FillStart(d, s)
  ELSE FillStart(d, s) + (IF s.active THEN Step ELSE FillLength(d, s))

\* A scan goes on where the half it read ends
BadSourceAfter(d, s) ==
  IF Rewinding(s) THEN FillStart(d, s) ELSE FillStart(d, s) + FillLength(d, s)

SourceAfter(d, s) ==
  IF Rewinding(s) THEN FillStart(d, s)
  ELSE IF s.active THEN Least(FillStart(d, s) + Step, d.to)
  ELSE FillStart(d, s) + FillLength(d, s)

Filled(d, s, h) ==
  [from |-> d.from, to |-> d.to, source |-> SourceAfter(d, s),
   start |-> [d.start EXCEPT ![h] = FillStart(d, s)],
   valid |-> [d.valid EXCEPT ![h] = FillLength(d, s)]]

\* The file cannot be read: only a half that has something to read can fail
CanFail(d, s) == FillLength(d, s) > 0
Unread(d, s, h) ==
  [from |-> d.from, to |-> d.to, source |-> d.source,
   start |-> [d.start EXCEPT ![h] = FillStart(d, s)], valid |-> [d.valid EXCEPT ![h] = 0]]

-----------------------------------------------------------------------------
(* What the worker does for one event.                                     *)

StopOutput == dma' = Off /\ generation' = generation + 1

Failed(d, s, h) ==
  /\ deck' = Unread(d, s, h)
  /\ status' = Status("Error", FillStart(d, s) \div SectorLen, Sectors)
  /\ dma' = Off

\* The deck before its halves are filled
Rewound(s, from, to) ==
  [from |-> IF Rewinding(s) THEN 0 ELSE from * SectorLen, to |-> to * SectorLen,
   source |-> from * SectorLen, start |-> deck.start, valid |-> deck.valid]

\* audio_cd_begin_playback, scanning as `s' says
BeginPlayback(s, from, to) ==
  LET d0 == Rewound(s, from, to)
      d1 == Filled(d0, s, 0)
      d2 == Filled(d1, s, 1)
  IN  /\ scan' = s /\ kept' = TRUE
      /\ \/ /\ deck' = d2
            /\ IF d2.valid[0] = 0
               THEN status' = Status("Completed", from, to) /\ dma' = Off
               ELSE status' = Status("Playing", d2.start[0] \div SectorLen, to) /\ dma' = 0
         \/ CanFail(d0, s) /\ Failed(d0, s, 0)
         \/ CanFail(d1, s) /\ Failed(d1, s, 1)

NotScanning == [active |-> FALSE, reverse |-> scan.reverse, restore |-> scan.restore]

\* The worker leaves the deck alone and is `code' now
Rest(code, lba, end) == /\ scan' = NotScanning /\ status' = Status(code, lba, end)
                        /\ UNCHANGED <<deck, kept>>

Play(e) == /\ e.control = "Play"
           /\ generation' = generation + 1 /\ BeginPlayback(NotScanning, e.from, e.to)

Pause(e) ==
  /\ e.control = "Pause"
  /\ IF status.code = "Playing"
     THEN StopOutput /\ Rest("Paused", status.lba, status.end)
     ELSE UNCHANGED <<status, deck, scan, generation, dma, kept>>

Resume(e) ==
  /\ e.control = "Resume"
  /\ IF status.code = "Paused"
     THEN generation' = generation + 1 /\ BeginPlayback(NotScanning, status.lba, status.end)
     ELSE UNCHANGED <<status, deck, scan, generation, dma, kept>>

Stop(e) == /\ e.control = "Stop"
           /\ StopOutput /\ Rest("Stopped", Tracks[TrackAt(status.lba)], status.end)

Scan(e) ==
  /\ e.control \in Scans
  /\ generation' = generation + 1
  /\ BeginPlayback([active |-> TRUE, reverse |-> e.control = "ScanBackward",
                    restore |-> status.code], e.from, e.to)

ScanEnd(e) ==
  /\ e.control = "ScanEnd"
  /\ IF ~scan.active THEN UNCHANGED <<status, deck, scan, generation, dma, kept>>
     ELSE IF scan.restore = "Playing"
     THEN generation' = generation + 2 /\ BeginPlayback(NotScanning, status.lba, status.end)
     ELSE /\ StopOutput
          /\ Rest(IF scan.restore = "Paused" THEN "Paused" ELSE "Stopped", status.lba, status.end)

Seek(e) ==
  /\ e.control = "Seek"
  /\ IF status.code = "Playing"
     THEN generation' = generation + 2 /\ BeginPlayback(NotScanning, e.from, e.to)
     ELSE StopOutput /\ Rest(IF status.code = "Paused" THEN "Paused" ELSE "Stopped", e.from, e.to)

HandleControl(e) ==
  Play(e) \/ Pause(e) \/ Resume(e) \/ Stop(e) \/ Scan(e) \/ ScanEnd(e) \/ Seek(e)

\* The generation of the event is not looked at
BadIsStale(e) == FALSE

IsStale(e) == e.generation # generation

\* The event is taken for that of the half that begins
BadPlayingHalf(e) == e.half

\* Half e.half has been played, the other one is playing
PlayingHalf(e) == 1 - e.half

\* audio_cd_handle_dma
HandleDma(e) ==
  LET playing == PlayingHalf(e)
      edge == IF scan.reverse THEN deck.from ELSE deck.to
  IN
  IF IsStale(e) THEN UNCHANGED <<status, deck, generation, dma>>
  ELSE IF deck.valid[playing] = 0
  THEN /\ StopOutput /\ UNCHANGED deck
       /\ status' = Status("Completed", edge \div SectorLen, deck.to \div SectorLen)
  ELSE \/ /\ status' = Status("Playing", deck.start[playing] \div SectorLen, deck.to \div SectorLen)
          /\ deck' = Filled(deck, scan, e.half)
          /\ UNCHANGED <<generation, dma>>
       \/ /\ CanFail(deck, scan) /\ Failed(deck, scan, e.half)
          /\ generation' = generation + 1

-----------------------------------------------------------------------------
(* The worker.                                                             *)

NeedsOutput(e) ==
  \/ e.control \in {"Play"} \cup Scans
  \/ e.control = "Resume" /\ status.code = "Paused"
  \/ e.control = "Seek" /\ status.code = "Playing"

Take(type) == /\ thread = "running" /\ queue # <<>> /\ Head(queue).type = type
              /\ queue' = Tail(queue) /\ UNCHANGED user

\* audio_cd_prepare_output fails: no memory, or the speaker is busy
OutputFails ==
  /\ Take("control") /\ ~outputReady /\ NeedsOutput(Head(queue))
  /\ status' = Status("Error", status.lba, Sectors)
  /\ UNCHANGED <<thread, deck, scan, generation, outputReady, dma, kept>>

TakeControl ==
  /\ Take("control") /\ HandleControl(Head(queue))
  /\ outputReady' = (outputReady \/ NeedsOutput(Head(queue)))
  /\ UNCHANGED thread

TakeDma == /\ Take("dma") /\ HandleDma(Head(queue))
           /\ UNCHANGED <<thread, scan, outputReady, kept>>

WorkerExits ==
  /\ Take("exit") /\ thread' = "ended" /\ outputReady' = FALSE
  /\ dma' = IF outputReady THEN Off ELSE dma
  /\ UNCHANGED <<status, deck, scan, generation, kept>>

Worker == OutputFails \/ TakeControl \/ TakeDma \/ WorkerExits

\* The DMA has played a half: audio_cd_dma_isr
HalfPlayed ==
  /\ dma # Off /\ dma' = 1 - dma
  /\ IF Len(queue) < QueueLen
     THEN /\ queue' = Append(queue, [type |-> "dma", half |-> dma, generation |-> generation])
          /\ UNCHANGED kept
     ELSE kept' = FALSE /\ UNCHANGED queue
  /\ UNCHANGED <<thread, status, deck, scan, generation, outputReady, user>>

-----------------------------------------------------------------------------
(* The other threads.                                                      *)

\* audio_cd_control refuses other ranges
InRange(control, from, to) ==
  /\ from <= Sectors /\ to <= Sectors
  /\ control \in {"Play", "Seek"} \cup Scans => from < to

\* audio_cd_control: it returns FALSE, or the event waits for the worker
Control(control, from, to) ==
  /\ user = "open"
  /\ \/ /\ ~InRange(control, from, to) \/ Len(queue) = QueueLen   \* 100 ms without room
        /\ UNCHANGED playerVars
     \/ /\ InRange(control, from, to) /\ thread = "none"   \* audio_cd_start_player fails
        /\ status' = [code |-> "Error", lba |-> status.lba, end |-> status.end]
        /\ UNCHANGED <<thread, queue, deck, scan, generation, outputReady, dma, kept, user>>
     \/ /\ InRange(control, from, to) /\ Len(queue) < QueueLen
        /\ thread' = "running"
        /\ queue' = Append(queue, [type |-> "control", control |-> control,
                                   from |-> from, to |-> to])
        /\ UNCHANGED <<status, deck, scan, generation, outputReady, dma, kept, user>>

\* audio_cd_free
BeginFree == /\ user = "open" /\ user' = IF thread = "none" THEN "freed" ELSE "freeing"
             /\ UNCHANGED <<thread, queue, status, deck, scan, generation, outputReady, dma, kept>>

\* The event is put once, whether there is room or not
BadPostExit ==
  /\ user = "freeing" /\ user' = "joining"
  /\ queue' = IF Len(queue) < QueueLen THEN Append(queue, [type |-> "exit"]) ELSE queue
  /\ UNCHANGED <<thread, status, deck, scan, generation, outputReady, dma, kept>>

PostExit ==
  /\ user = "freeing" /\ user' = "joining"
  /\ Len(queue) < QueueLen /\ queue' = Append(queue, [type |-> "exit"])
  /\ UNCHANGED <<thread, status, deck, scan, generation, outputReady, dma, kept>>

Joined == /\ user = "joining" /\ thread = "ended" /\ user' = "freed"
          /\ UNCHANGED <<thread, queue, status, deck, scan, generation, outputReady, dma, kept>>

PlayerNext == Worker \/ HalfPlayed \/ BeginFree \/ PostExit \/ Joined

-----------------------------------------------------------------------------
(* Properties.                                                             *)

Offset == 0..(Sectors * SectorLen)
DeckType == [from : Offset, to : Offset, source : Offset, start : [Halves -> Offset],
             valid : [Halves -> 0..HalfLen]]

\* Types of the player's state.
PlayerTypeOK ==
  /\ thread \in {"none", "running", "ended"}
  /\ queue \in Seq(Events) /\ Len(queue) <= QueueLen
  /\ status \in [code : Codes, lba : 0..Sectors, end : 0..Sectors] /\ deck \in DeckType
  /\ scan \in [active : BOOLEAN, reverse : BOOLEAN, restore : Codes]
  /\ generation \in Nat /\ outputReady \in BOOLEAN /\ dma \in {Off} \cup Halves
  /\ kept \in BOOLEAN /\ user \in {"open", "freeing", "joining", "freed"}

\* The DMA runs exactly while the player says that it plays, whatever events of
\* earlier playbacks are still in the queue; after the worker ended it is off and
\* the speaker released.
OutputFollowsStatus ==
  IF thread = "ended" THEN dma = Off /\ ~outputReady
  ELSE (dma # Off <=> status.code = "Playing") /\ (dma # Off => outputReady)

\* Events of this playback that the worker has not seen
Unseen == {i \in 1..Len(queue) : queue[i].type = "dma" /\ queue[i].generation = generation}

\* The worker has kept up with the DMA
Settled == dma # Off /\ kept /\ Unseen = {}

\* The half that plays next holds what comes after the one that plays: the next
\* units of the disc, or those a scan step further on or back; nothing only at the
\* end of the range.  No event order, seek or late worker mixes the halves up.
Gapless ==
  Settled =>
    LET now  == deck.start[dma]
        next == deck.start[1 - dma]
        size == deck.valid[1 - dma]
    IN  IF Rewinding(scan)
        THEN next = Greatest(now - Step, deck.from) /\ (size = 0 <=> now <= deck.from)
        ELSE /\ next = IF scan.active THEN Least(now + Step, deck.to) ELSE now + deck.valid[dma]
             /\ size = Least(HalfLen, deck.to - next)

\* The position reported, from which a pause resumes, is that of the half being heard.
PositionHeard == Settled => status.lba = deck.start[dma] \div SectorLen

\* Playback completes only after the last unit of the range was handed to the DMA.
CompletedAtEnd ==
  [][status.code = "Playing" /\ status'.code = "Completed" /\ ~scan.active /\ kept
       /\ Head(queue).type = "dma"
     => deck.start[Head(queue).half] + deck.valid[Head(queue).half] = deck.to]_playerVars

\* Whatever is played ends, if nobody starts something new and the worker catches up
\* with the DMA again and again (a half lasts 46 ms, reading one a few), also when
\* events were dropped.
PlaybackEnds ==
  []<>(queue = <<>>) =>
    (status.code = "Playing" ~> status.code # "Playing" \/ thread = "ended")

\* The app that closes the player gets out of audio_cd_free.
PlayerEnds == user = "freeing" ~> user = "freed"
=============================================================================
