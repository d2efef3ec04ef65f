--------------------------- MODULE AudioPlayer_proofs ---------------------------
(***************************************************************************)
(* Proofs about the audio player with its callers, for every disc, buffer  *)
(* and queue length, any keys and any commands of the host.                *)
(***************************************************************************)
EXTENDS AudioControls, FiniteSetTheorems, TLAPS

StatusType == [code : Codes, lba : 0..Sectors, end : 0..Sectors]
ScanType == [active : BOOLEAN, reverse : BOOLEAN, restore : Codes]

\* An event of the current generation is in the queue only while the DMA runs
EventsCurrent ==
  thread # "ended" =>
    \A i \in 1..Len(queue) : queue[i].type = "dma" =>
      queue[i].generation <= generation /\ (queue[i].generation = generation => dma # Off)

\* Before audio_cd_free has put its event the worker runs on
ExitPosted ==
  user \in {"open", "freeing"} =>
    thread # "ended" /\ \A i \in 1..Len(queue) : queue[i].type # "exit"

\* A scan has prepared the output that its end needs again
ScanReady == thread # "ended" /\ scan.active => outputReady

\* Without a worker nothing was played
NotStarted == thread = "none" => dma = Off

KeysType ==
  /\ selected \in 1..Len(Tracks) /\ leftTrack \in 1..Len(Tracks)
  /\ leftTick \in BOOLEAN /\ calls \in 0..MaxCalls

PlayerInv == /\ PlayerTypeOK /\ OutputFollowsStatus
             /\ EventsCurrent /\ ExitPosted /\ ScanReady /\ NotStarted

IInv == PlayerInv /\ KeysType

-----------------------------------------------------------------------------
(* The operators the actions are built from.                               *)

\* Every position lies in a track of the disc.
LEMMA TrackBound ==
  ASSUME PlayerAssumption, NEW lba \in Nat
  PROVE  TrackAt(lba) \in 1..Len(Tracks)
  <1> DEFINE all == 1..Len(Tracks)
             at  == {i \in all : Tracks[i] <= Least(lba, Sectors - 1)}
  <1>1. /\ Len(Tracks) \in Nat /\ 1 \in all /\ Sectors \in Nat \ {0} /\ Tracks[1] = 0
    BY DEF PlayerAssumption
  <1>2. Least(lba, Sectors - 1) >= 0 BY <1>1 DEF Least
  <1>3. 1 \in at BY <1>1, <1>2
  <1>4. IsFiniteSet(all) /\ Cardinality(all) = Len(Tracks)
    <2>1. /\ IsFiniteSet(1..Len(Tracks))
          /\ Cardinality(1..Len(Tracks)) = IF 1 > Len(Tracks) THEN 0 ELSE Len(Tracks) - 1 + 1
      BY <1>1, FS_Interval
    <2>2. QED BY <1>1, <2>1
  <1>5. IsFiniteSet(at) /\ Cardinality(at) <= Cardinality(all) BY <1>4, FS_Subset
  <1>6. Cardinality(at) \in Nat /\ Cardinality(at) # 0
    BY <1>3, <1>5, FS_CardinalityType, FS_EmptySet
  <1>7. QED BY <1>1, <1>4, <1>5, <1>6 DEF TrackAt

\* A status that is set is clamped to the disc.
LEMMA StatusSet ==
  ASSUME PlayerAssumption, NEW code \in Codes, NEW lba \in Nat, NEW end \in Nat
  PROVE  Status(code, lba, end) \in StatusType /\ Status(code, lba, end).code = code
  <1>1. Sectors \in Nat BY DEF PlayerAssumption
  <1>2. Least(lba, Sectors) \in 0..Sectors BY <1>1 DEF Least
  <1>3. Least(end, Sectors) \in 0..Sectors BY <1>1 DEF Least
  <1>4. QED BY <1>2, <1>3 DEF Status, StatusType

\* The offset of a sector of the disc is an offset of the disc.
LEMMA OffsetOf ==
  ASSUME PlayerAssumption, NEW lba \in 0..Sectors
  PROVE  lba * SectorLen \in Offset
  <1>1. Sectors \in Nat /\ SectorLen \in Nat BY DEF PlayerAssumption
  <1>2. PICK rest \in Nat : Sectors = lba + rest
    <2>1. Sectors - lba \in Nat /\ Sectors = lba + (Sectors - lba) BY <1>1
    <2>2. QED BY <2>1
  <1>3. Sectors * SectorLen = lba * SectorLen + rest * SectorLen BY <1>1, <1>2
  <1>4. lba * SectorLen \in Nat /\ rest * SectorLen \in Nat BY <1>1, <1>2
  <1>5. QED BY <1>3, <1>4 DEF Offset

\* Offsets are the numbers up to the length of the disc.
LEMMA OffsetIs ==
  ASSUME PlayerAssumption
  PROVE  \E total \in Nat : Offset = 0..total
  <1>1. Sectors * SectorLen \in Nat BY DEF PlayerAssumption
  <1>2. QED BY <1>1 DEF Offset

\* A whole quotient is a natural number.
LEMMA Quotient ==
  ASSUME NEW n \in Nat, NEW m \in Nat \ {0}
  PROVE  n \div m \in Nat
  OBVIOUS

\* What is left of an offset is an offset.
LEMMA Between ==
  ASSUME NEW total \in Nat, NEW a \in Nat, NEW b \in Nat, NEW c \in Nat,
         a <= total, a - b >= c
  PROVE  a - b \in 0..total
  <1>1. a - b \in Int /\ a - b >= 0 /\ a - b <= total OBVIOUS
  <1>2. QED BY <1>1

\* A length that fits behind an offset.
LEMMA AddUp ==
  ASSUME NEW start \in Nat, NEW end \in Nat, NEW len \in Nat, len <= end - start
  PROVE  start + len <= end
  OBVIOUS

\* Where a half begins and how much it holds, and the deck after it was filled or
\* could not be read.
LEMMA FillType ==
  ASSUME PlayerAssumption, NEW d \in DeckType, NEW s \in ScanType, NEW h \in Halves
  PROVE  /\ FillStart(d, s) \in Offset /\ FillStart(d, s) \div SectorLen \in Nat
         /\ Filled(d, s, h) \in DeckType /\ Unread(d, s, h) \in DeckType
  <1> DEFINE start == FillStart(d, s)
             len   == FillLength(d, s)
             after == SourceAfter(d, s)
  <1>1. /\ SectorLen \in Nat \ {0} /\ HalfLen \in Nat /\ ScanFactor \in Nat
    BY DEF PlayerAssumption
  <1>2. Step \in Nat BY <1>1 DEF Step
  <1>3. d.from \in Offset /\ d.to \in Offset /\ d.source \in Offset
    BY DEF DeckType
  <1>4. d.start \in [Halves -> Offset] /\ d.valid \in [Halves -> 0..HalfLen]
    BY DEF DeckType
  <1>5. PICK total \in Nat : Offset = 0..total BY OffsetIs
  <1>6. start \in Offset
    <2>1. Greatest(d.source - Step, d.from) \in Offset
      <3>1. CASE d.source - Step >= d.from
        <4>1. d.source \in Nat /\ d.from \in Nat /\ d.source <= total BY <1>3, <1>5
        <4>2. d.source - Step \in 0..total BY <1>2, <1>5, <3>1, <4>1, Between
        <4>3. d.source - Step \in Offset BY <1>5, <4>2
        <4>4. QED BY <3>1, <4>3 DEF Greatest
      <3>2. CASE ~(d.source - Step >= d.from) BY <1>3, <3>2 DEF Greatest
      <3>3. QED BY <3>1, <3>2
    <2>2. QED BY <1>3, <2>1 DEF FillStart
  <1>7. start \div SectorLen \in Nat BY <1>1, <1>5, <1>6, Quotient
  <1>8. len \in 0..HalfLen /\ (len > 0 => start + len <= d.to)
    <2> HIDE DEF start
    <2>1. CASE start >= d.to
      BY <1>1, <2>1 DEF FillLength, start
    <2>2. CASE start < d.to
      <3>1. Least(HalfLen, d.to - start) \in 0..HalfLen /\ Least(HalfLen, d.to - start) <= d.to - start
        BY <1>1, <1>3, <1>5, <1>6, <2>2, SMTT(30) DEF Least
      <3>2. len = 0 \/ len = Least(HalfLen, d.to - start)
        BY DEF FillLength, start
      <3> HIDE DEF len
      <3>3. CASE len = 0 BY ONLY <1>1, <3>3
      <3>4. CASE len = Least(HalfLen, d.to - start)
        <4>1. len \in 0..HalfLen /\ len <= d.to - start BY ONLY <3>1, <3>4
        <4>2. d.to \in Nat /\ start \in Nat BY <1>3, <1>5, <1>6
        <4>3. start + len <= d.to BY <1>1, <4>1, <4>2, AddUp
        <4>4. QED BY <4>1, <4>3
      <3>5. QED BY ONLY <3>2, <3>3, <3>4
    <2>3. QED BY <1>3, <1>5, <1>6, <2>1, <2>2
  <1>9. after \in Offset
    <2> HIDE DEF start, len
    <2>1. start + len \in Offset BY <1>1, <1>3, <1>5, <1>6, <1>8
    <2>2. Least(start + Step, d.to) \in Offset BY <1>2, <1>3, <1>5, <1>6, SMTT(30) DEF Least
    <2>3. QED BY <1>6, <2>1, <2>2 DEF SourceAfter, start, len
  <1>10. Filled(d, s, h) \in DeckType
    <2> HIDE DEF start, len, after
    <2>1. [d.start EXCEPT ![h] = start] \in [Halves -> Offset] BY <1>4, <1>6
    <2>2. [d.valid EXCEPT ![h] = len] \in [Halves -> 0..HalfLen] BY <1>4, <1>8
    <2>3. QED BY <1>3, <1>9, <2>1, <2>2 DEF Filled, DeckType, start, len, after
  <1>11. Unread(d, s, h) \in DeckType
    <2> HIDE DEF start, len, after
    <2>1. [d.start EXCEPT ![h] = start] \in [Halves -> Offset] BY <1>4, <1>6
    <2>2. [d.valid EXCEPT ![h] = 0] \in [Halves -> 0..HalfLen] BY <1>1, <1>4
    <2>3. QED BY <1>3, <2>1, <2>2 DEF Unread, DeckType, start
  <1>12. QED BY <1>6, <1>7, <1>10, <1>11

\* The deck is rewound to offsets of the disc.
LEMMA RewoundType ==
  ASSUME PlayerAssumption, deck \in DeckType, NEW s \in ScanType,
         NEW from \in 0..Sectors, NEW to \in 0..Sectors
  PROVE  Rewound(s, from, to) \in DeckType
  <1>1. from * SectorLen \in Offset /\ to * SectorLen \in Offset BY OffsetOf
  <1>2. 0 \in Offset BY OffsetIs
  <1>3. QED BY <1>1, <1>2 DEF Rewound, DeckType

-----------------------------------------------------------------------------
(* What the worker does for one event.                                     *)

\* What the worker leaves behind after an event: types, the DMA on exactly if the
\* status says so, and a new generation whenever the DMA was touched.
Handled ==
  /\ status' \in StatusType /\ deck' \in DeckType /\ scan' \in ScanType /\ kept' \in BOOLEAN
  /\ dma' \in {Off} \cup Halves /\ (dma' # Off <=> status'.code = "Playing")
  /\ generation' \in Nat
  /\ generation' > generation \/ (generation' = generation /\ dma' = dma)

\* The typed state of the player, and what the invariant says of it before an event
Player ==
  /\ PlayerAssumption /\ status \in StatusType /\ deck \in DeckType /\ scan \in ScanType
  /\ kept \in BOOLEAN /\ generation \in Nat /\ dma \in {Off} \cup Halves
  /\ dma # Off <=> status.code = "Playing"
  /\ dma # Off => outputReady
  /\ scan.active => outputReady

\* After a control the DMA runs, or a scan is on, only with the output prepared
Prepared(e) == (dma' # Off => outputReady \/ NeedsOutput(e))
               /\ (scan'.active => outputReady \/ NeedsOutput(e))

\* A half that cannot be read leaves an error and the DMA off.
LEMMA FailedStep ==
  ASSUME PlayerAssumption, NEW d \in DeckType, NEW s \in ScanType, NEW h \in Halves,
         Failed(d, s, h)
  PROVE  /\ status' \in StatusType /\ status'.code = "Error" /\ deck' \in DeckType
         /\ dma' = Off
  <1>1. FillStart(d, s) \div SectorLen \in Nat /\ Unread(d, s, h) \in DeckType BY FillType
  <1>2. Sectors \in Nat BY DEF PlayerAssumption
  <1>3. "Error" \in Codes BY DEF Codes
  <1>4. QED BY <1>1, <1>2, <1>3, StatusSet DEF Failed

\* Playback begins with the DMA on half 0, ends before it began, or fails.
LEMMA BeginStep ==
  ASSUME Player, NEW s \in ScanType, NEW from \in 0..Sectors, NEW to \in 0..Sectors,
         BeginPlayback(s, from, to)
  PROVE  /\ status' \in StatusType /\ deck' \in DeckType /\ scan' = s /\ kept' \in BOOLEAN
         /\ dma' \in {Off} \cup Halves /\ (dma' # Off <=> status'.code = "Playing")
  <1> DEFINE d0 == Rewound(s, from, to)
             d1 == Filled(d0, s, 0)
             d2 == Filled(d1, s, 1)
  <1>1. PlayerAssumption /\ deck \in DeckType BY DEF Player
  <1>2. 0 \in Halves /\ 1 \in Halves /\ Off \notin Halves BY DEF Halves, Off
  <1>3. d0 \in DeckType BY <1>1, RewoundType
  <1> HIDE DEF d0
  <1>4. d1 \in DeckType BY <1>1, <1>2, <1>3, FillType
  <1> HIDE DEF d1
  <1>5. d2 \in DeckType BY <1>1, <1>2, <1>4, FillType
  <1> HIDE DEF d2
  <1>6. scan' = s /\ kept' = TRUE BY DEF BeginPlayback
  <1>7. \/ deck' = d2 /\ status' = Status("Completed", from, to) /\ dma' = Off
        \/ deck' = d2 /\ status' = Status("Playing", d2.start[0] \div SectorLen, to) /\ dma' = 0
        \/ Failed(d0, s, 0)
        \/ Failed(d1, s, 1)
    BY Zenon DEF BeginPlayback, d0, d1, d2
  <1>8. CASE deck' = d2 /\ status' = Status("Completed", from, to) /\ dma' = Off
    <2>1. "Completed" \in Codes /\ from \in Nat /\ to \in Nat BY <1>1 DEF Codes, PlayerAssumption
    <2>2. status' \in StatusType /\ status'.code = "Completed" BY <1>1, <1>8, <2>1, StatusSet
    <2>3. QED BY <1>5, <1>6, <1>8, <2>2
  <1>9. CASE deck' = d2 /\ status' = Status("Playing", d2.start[0] \div SectorLen, to) /\ dma' = 0
    <2>1. "Playing" \in Codes /\ to \in Nat BY <1>1 DEF Codes, PlayerAssumption
    <2>2. d2.start[0] \in Offset BY <1>2, <1>5 DEF DeckType
    <2>3. d2.start[0] \in Nat BY <1>1, <2>2, OffsetIs, SMTT(30)
    <2>4. SectorLen \in Nat \ {0} BY <1>1 DEF PlayerAssumption
    <2>5. d2.start[0] \div SectorLen \in Nat BY <2>3, <2>4, Quotient
    <2>6. status' \in StatusType /\ status'.code = "Playing" BY <1>1, <1>9, <2>1, <2>5, StatusSet
    <2>7. QED BY <1>2, <1>5, <1>6, <1>9, <2>6
  <1>10. CASE Failed(d0, s, 0)
    BY <1>1, <1>2, <1>3, <1>6, <1>10, FailedStep
  <1>11. CASE Failed(d1, s, 1)
    BY <1>1, <1>2, <1>4, <1>6, <1>11, FailedStep
  <1>12. QED BY <1>7, <1>8, <1>9, <1>10, <1>11

\* An event of a control names a control and sectors of the disc.
LEMMA ControlEvent ==
  ASSUME NEW e \in Events, e.type = "control"
  PROVE  e.control \in Controls /\ e.from \in 0..Sectors /\ e.to \in 0..Sectors
  BY DEF Events

\* The end of a scan keeps the types.
LEMMA NotScanningType ==
  ASSUME scan \in ScanType
  PROVE  NotScanning \in ScanType /\ NotScanning.active = FALSE
  <1>1. scan.reverse \in BOOLEAN /\ scan.restore \in Codes BY DEF ScanType
  <1>2. QED BY <1>1 DEF NotScanning, ScanType

\* An event that changes nothing.
LEMMA NothingHandled ==
  ASSUME Player, NEW e, UNCHANGED <<status, deck, scan, generation, dma, kept>>
  PROVE  Handled /\ Prepared(e)
  BY DEF Player, Handled, Prepared

\* An event that stops the output.
LEMMA RestStep ==
  ASSUME Player, NEW e, NEW code \in Codes \ {"Playing"}, NEW lba \in Nat, NEW end \in Nat,
         StopOutput, Rest(code, lba, end)
  PROVE  Handled /\ Prepared(e)
  <1>1. scan' \in ScanType /\ scan'.active = FALSE BY NotScanningType DEF Rest, Player
  <1>2. status' \in StatusType /\ status'.code = code BY StatusSet DEF Rest, Player
  <1>3. deck' \in DeckType /\ kept' \in BOOLEAN BY DEF Rest, Player
  <1>4. dma' = Off /\ generation' = generation + 1 /\ generation \in Nat
    BY DEF StopOutput, Player
  <1>5. generation' \in Nat /\ generation' > generation BY <1>4
  <1>6. Handled BY <1>1, <1>2, <1>3, <1>4, <1>5 DEF Handled
  <1>7. QED BY <1>1, <1>4, <1>6 DEF Prepared

\* An event that begins a playback with the output prepared.
LEMMA BeginHandled ==
  ASSUME Player, NEW e, NEW s \in ScanType, NEW from \in 0..Sectors, NEW to \in 0..Sectors,
         BeginPlayback(s, from, to), outputReady \/ NeedsOutput(e),
         generation' = generation + 1 \/ generation' = generation + 2
  PROVE  Handled /\ Prepared(e)
  <1>1. /\ status' \in StatusType /\ deck' \in DeckType /\ scan' = s /\ kept' \in BOOLEAN
        /\ dma' \in {Off} \cup Halves /\ (dma' # Off <=> status'.code = "Playing")
    BY BeginStep
  <1>2. generation \in Nat BY DEF Player
  <1>3. generation' \in Nat /\ generation' > generation BY <1>2
  <1>4. QED BY <1>1, <1>3 DEF Handled, Prepared

\* Whatever a control asks, in whatever state.
LEMMA ControlStep ==
  ASSUME Player, NEW e \in Events, e.type = "control", HandleControl(e)
  PROVE  Handled /\ Prepared(e)
  <1>1. /\ e.control \in Controls /\ e.from \in 0..Sectors /\ e.to \in 0..Sectors
    BY ControlEvent
  <1>2. /\ PlayerAssumption /\ status.code \in Codes
        /\ status.lba \in 0..Sectors /\ status.end \in 0..Sectors
    BY DEF Player, StatusType
  <1>3. Sectors \in Nat BY <1>2 DEF PlayerAssumption
  <1>4. /\ status.lba \in Nat /\ status.end \in Nat /\ e.from \in Nat /\ e.to \in Nat
    BY <1>1, <1>2, <1>3
  <1>5. NotScanning \in ScanType BY NotScanningType DEF Player
  <1>6. {"Paused", "Stopped"} \subseteq Codes \ {"Playing"} BY DEF Codes
  <1>7. CASE Play(e)
    <2>1. NeedsOutput(e) BY <1>7 DEF Play, NeedsOutput
    <2>2. QED BY <1>1, <1>5, <1>7, <2>1, BeginHandled DEF Play
  <1>8. CASE Pause(e)
    <2>1. CASE status.code = "Playing"
      BY <1>4, <1>6, <1>8, <2>1, RestStep DEF Pause
    <2>2. CASE status.code # "Playing"
      BY <1>8, <2>2, NothingHandled DEF Pause
    <2>3. QED BY <2>1, <2>2
  <1>9. CASE Resume(e)
    <2>1. CASE status.code = "Paused"
      <3>1. NeedsOutput(e) BY <1>9, <2>1 DEF Resume, NeedsOutput
      <3>2. QED BY <1>2, <1>5, <1>9, <2>1, <3>1, BeginHandled DEF Resume
    <2>2. CASE status.code # "Paused"
      BY <1>9, <2>2, NothingHandled DEF Resume
    <2>3. QED BY <2>1, <2>2
  <1>10. CASE Stop(e)
    <2>1. TrackAt(status.lba) \in 1..Len(Tracks) BY <1>2, <1>4, TrackBound
    <2>2. Tracks[TrackAt(status.lba)] \in Nat BY <1>2, <1>3, <2>1 DEF PlayerAssumption
    <2>3. QED BY <1>4, <1>6, <1>10, <2>2, RestStep DEF Stop
  <1>11. CASE Scan(e)
    <2> DEFINE s == [active |-> TRUE, reverse |-> e.control = "ScanBackward",
                     restore |-> status.code]
    <2>1. NeedsOutput(e) BY <1>11 DEF Scan, NeedsOutput
    <2>2. s \in ScanType BY <1>2 DEF ScanType
    <2>3. BeginPlayback(s, e.from, e.to) /\ generation' = generation + 1 BY <1>11 DEF Scan
    <2> HIDE DEF s
    <2>4. QED BY <1>1, <2>1, <2>2, <2>3, BeginHandled
  <1>12. CASE ScanEnd(e)
    <2>1. CASE ~scan.active
      BY <1>12, <2>1, NothingHandled DEF ScanEnd
    <2>2. CASE scan.active /\ scan.restore = "Playing"
      <3>1. outputReady BY <2>2 DEF Player
      <3>2. QED BY <1>2, <1>5, <1>12, <2>2, <3>1, BeginHandled DEF ScanEnd
    <2>3. CASE scan.active /\ scan.restore # "Playing"
      <3>1. PICK code \in {"Paused", "Stopped"} :
              StopOutput /\ Rest(code, status.lba, status.end)
        BY <1>12, <2>3 DEF ScanEnd
      <3>2. QED BY <1>4, <1>6, <3>1, RestStep
    <2>4. QED BY <2>1, <2>2, <2>3
  <1>13. CASE Seek(e)
    <2>1. CASE status.code = "Playing"
      <3>1. NeedsOutput(e) BY <1>13, <2>1 DEF Seek, NeedsOutput
      <3>2. QED BY <1>1, <1>5, <1>13, <2>1, <3>1, BeginHandled DEF Seek
    <2>2. CASE status.code # "Playing"
      <3>1. PICK code \in {"Paused", "Stopped"} : StopOutput /\ Rest(code, e.from, e.to)
        BY <1>13, <2>2 DEF Seek
      <3>2. QED BY <1>4, <1>6, <3>1, RestStep
    <2>3. QED BY <2>1, <2>2
  <1>14. QED BY <1>7, <1>8, <1>9, <1>10, <1>11, <1>12, <1>13 DEF HandleControl

\* A report of the DMA; one of the current playback comes only while it runs.
LEMMA DmaStep ==
  ASSUME Player, NEW e \in Events, e.type = "dma", HandleDma(e),
         e.generation = generation => dma # Off, UNCHANGED <<scan, kept>>
  PROVE  Handled /\ (dma' # Off => dma # Off)
  <1>1. /\ PlayerAssumption /\ deck \in DeckType /\ scan \in ScanType /\ kept \in BOOLEAN
        /\ generation \in Nat /\ dma \in {Off} \cup Halves
    BY DEF Player
  <1>2. e.half \in Halves /\ 1 - e.half \in Halves BY DEF Events, Halves
  <1>3. scan' \in ScanType /\ kept' \in BOOLEAN BY <1>1
  <1>4. SectorLen \in Nat \ {0} BY <1>1 DEF PlayerAssumption
  <1>5. \A n \in Offset : n \div SectorLen \in Nat
    <2>1. Offset \subseteq Nat BY <1>1, OffsetIs
    <2>2. QED BY <1>4, <2>1, Quotient
  <1>6. /\ deck.from \in Offset /\ deck.to \in Offset
        /\ deck.start[1 - e.half] \in Offset
    BY <1>1, <1>2 DEF DeckType
  <1>7. {"Completed", "Playing", "Error"} \subseteq Codes BY DEF Codes
  <1>8. CASE IsStale(e)
    <2>1. UNCHANGED <<status, deck, generation, dma>> BY <1>8 DEF HandleDma
    <2>2. QED BY <1>3, <2>1 DEF Handled, Player
  <1>9. CASE ~IsStale(e)
    <2>1. dma # Off BY <1>9 DEF IsStale
    <2>2. CASE deck.valid[1 - e.half] = 0
      <3>1. PICK edge \in Offset :
              status' = Status("Completed", edge \div SectorLen, deck.to \div SectorLen)
        BY <1>6, <1>9, <2>2 DEF HandleDma, PlayingHalf
      <3>2. StopOutput /\ UNCHANGED deck BY <1>9, <2>2 DEF HandleDma, PlayingHalf
      <3>3. status' \in StatusType /\ status'.code = "Completed"
        BY <1>1, <1>5, <1>6, <1>7, <3>1, StatusSet
      <3>4. dma' = Off /\ generation' = generation + 1 BY <3>2 DEF StopOutput
      <3>5. generation' \in Nat /\ generation' > generation BY <1>1, <3>4
      <3>6. QED BY <1>1, <1>3, <3>2, <3>3, <3>4, <3>5 DEF Handled
    <2>3. CASE deck.valid[1 - e.half] # 0
      <3>1. CASE /\ status' = Status("Playing", deck.start[1 - e.half] \div SectorLen,
                                     deck.to \div SectorLen)
                 /\ deck' = Filled(deck, scan, e.half)
                 /\ UNCHANGED <<generation, dma>>
        <4>1. status' \in StatusType /\ status'.code = "Playing"
          BY <1>1, <1>5, <1>6, <1>7, <3>1, StatusSet
        <4>2. deck' \in DeckType BY <1>1, <1>2, <3>1, FillType
        <4>3. QED BY <1>1, <1>3, <2>1, <3>1, <4>1, <4>2 DEF Handled
      <3>2. CASE Failed(deck, scan, e.half) /\ generation' = generation + 1
        <4>1. /\ status' \in StatusType /\ status'.code = "Error" /\ deck' \in DeckType
              /\ dma' = Off
          BY <1>1, <1>2, <3>2, FailedStep
        <4>2. generation' \in Nat /\ generation' > generation BY <1>1, <3>2
        <4>3. QED BY <1>3, <4>1, <4>2 DEF Handled
      <3>3. QED BY <1>9, <2>3, <3>1, <3>2 DEF HandleDma, PlayingHalf
    <2>4. QED BY <2>2, <2>3
  <1>10. QED BY <1>8, <1>9

-----------------------------------------------------------------------------
(* The queue.                                                              *)

\* The queue without its head.
LEMMA TailQueue ==
  ASSUME queue \in Seq(Events), queue # <<>>
  PROVE  /\ Head(queue) \in Events /\ Head(queue) = queue[1] /\ 1 \in 1..Len(queue)
         /\ Tail(queue) \in Seq(Events) /\ Len(Tail(queue)) = Len(queue) - 1
         /\ \A i \in 1..Len(Tail(queue)) :
              i + 1 \in 1..Len(queue) /\ Tail(queue)[i] = queue[i + 1]
  <1> DEFINE S == Events
  <1>1. queue \in Seq(S) OBVIOUS
  <1> HIDE DEF S
  <1>2. /\ Head(queue) \in S /\ Head(queue) = queue[1] /\ 1 \in 1..Len(queue)
        /\ Tail(queue) \in Seq(S) /\ Len(Tail(queue)) = Len(queue) - 1
    BY <1>1
  <1>3. \A i \in 1..Len(Tail(queue)) :
          i + 1 \in 1..Len(queue) /\ Tail(queue)[i] = queue[i + 1]
    BY <1>1, <1>2
  <1>4. QED BY <1>2, <1>3 DEF S

\* The queue with one more event.
LEMMA AppendQueue ==
  ASSUME queue \in Seq(Events), NEW e \in Events
  PROVE  /\ Append(queue, e) \in Seq(Events) /\ Len(Append(queue, e)) = Len(queue) + 1
         /\ \A i \in 1..Len(Append(queue, e)) :
              \/ i \in 1..Len(queue) /\ Append(queue, e)[i] = queue[i]
              \/ Append(queue, e)[i] = e
  <1> DEFINE S == Events
  <1>1. queue \in Seq(S) /\ e \in S OBVIOUS
  <1> HIDE DEF S
  <1>2. Append(queue, e) \in Seq(S) /\ Len(Append(queue, e)) = Len(queue) + 1 BY <1>1
  <1>3. \A i \in 1..Len(Append(queue, e)) :
          \/ i \in 1..Len(queue) /\ Append(queue, e)[i] = queue[i]
          \/ Append(queue, e)[i] = e
    BY <1>1, <1>2
  <1>4. QED BY <1>2, <1>3 DEF S

\* Taking an event keeps what is known of those that wait.
LEMMA TakeKeeps ==
  ASSUME PlayerInv, NEW type, Take(type), UNCHANGED thread, generation' \in Nat,
         generation' > generation \/ (generation' = generation /\ dma' = dma)
  PROVE  /\ queue' \in Seq(Events) /\ Len(queue') <= QueueLen
         /\ EventsCurrent' /\ ExitPosted'
  <1>1. /\ queue \in Seq(Events) /\ Len(queue) <= QueueLen /\ queue # <<>>
        /\ queue' = Tail(queue) /\ user' = user /\ thread' = thread /\ thread = "running"
        /\ generation \in Nat /\ QueueLen \in Nat
    BY PlayerAssumption DEF PlayerInv, PlayerTypeOK, Take, PlayerAssumption
  <1>2. /\ queue' \in Seq(Events) /\ Len(queue') = Len(queue) - 1 /\ Len(queue) \in Nat
        /\ \A i \in 1..Len(queue') : i + 1 \in 1..Len(queue) /\ queue'[i] = queue[i + 1]
    BY <1>1, TailQueue
  <1>3. EventsCurrent'
    <2> SUFFICES ASSUME NEW i \in 1..Len(queue'), queue'[i].type = "dma"
                 PROVE  /\ queue'[i].generation <= generation'
                        /\ queue'[i].generation = generation' => dma' # Off
      BY DEF EventsCurrent
    <2>1. i + 1 \in 1..Len(queue) /\ queue'[i] = queue[i + 1] BY <1>2
    <2>2. /\ queue[i + 1].generation <= generation
          /\ queue[i + 1].generation = generation => dma # Off
      BY <1>1, <2>1 DEF PlayerInv, EventsCurrent
    <2>3. queue[i + 1] \in Events /\ queue[i + 1].type = "dma" BY <1>1, <2>1
    <2>4. queue[i + 1].generation \in Nat BY <2>3 DEF Events
    <2>5. QED BY <1>1, <2>1, <2>2, <2>4
  <1>4. ExitPosted' BY <1>1, <1>2 DEF PlayerInv, ExitPosted
  <1>5. QED BY <1>1, <1>2, <1>3, <1>4

\* Putting an event keeps what is known of the others.
LEMMA PutKeeps ==
  ASSUME PlayerInv, NEW e \in Events, queue' = Append(queue, e), Len(queue) < QueueLen,
         generation' = generation, dma' # Off <=> dma # Off,
         e.type = "dma" => e.generation = generation /\ dma # Off,
         thread' = thread \/ thread' = "running",
         e.type = "exit" => user' \notin {"open", "freeing"},
         user' \in {"open", "freeing"} => user \in {"open", "freeing"}
  PROVE  /\ queue' \in Seq(Events) /\ Len(queue') <= QueueLen
         /\ thread # "ended" => EventsCurrent'
         /\ ExitPosted'
  <1>1. queue \in Seq(Events) /\ generation \in Nat /\ QueueLen \in Nat
    BY PlayerAssumption DEF PlayerInv, PlayerTypeOK, PlayerAssumption
  <1>2. /\ queue' \in Seq(Events) /\ Len(queue') = Len(queue) + 1 /\ Len(queue) \in Nat
        /\ \A i \in 1..Len(queue') :
             \/ i \in 1..Len(queue) /\ queue'[i] = queue[i]
             \/ queue'[i] = e
    BY <1>1, AppendQueue
  <1>3. thread # "ended" => EventsCurrent'
    <2> SUFFICES ASSUME thread # "ended", NEW i \in 1..Len(queue'), queue'[i].type = "dma"
                 PROVE  /\ queue'[i].generation <= generation'
                        /\ queue'[i].generation = generation' => dma' # Off
      BY DEF EventsCurrent
    <2>1. CASE queue'[i] = e BY <1>1, <2>1
    <2>2. CASE i \in 1..Len(queue) /\ queue'[i] = queue[i] BY <2>2 DEF PlayerInv, EventsCurrent
    <2>3. QED BY <1>2, <2>1, <2>2
  <1>4. ExitPosted' BY <1>2 DEF PlayerInv, ExitPosted
  <1>5. QED BY <1>1, <1>2, <1>3, <1>4

-----------------------------------------------------------------------------
(* The steps of the player.                                                *)

\* What the invariant says of the player before an event.
LEMMA PlayerBefore ==
  ASSUME PlayerInv, thread = "running"
  PROVE  Player
  BY PlayerAssumption
     DEF Player, PlayerInv, PlayerTypeOK, OutputFollowsStatus, ScanReady, StatusType, ScanType

\* A step that leaves the player alone.
LEMMA PlayerUnchanged ==
  ASSUME PlayerInv, UNCHANGED playerVars
  PROVE  PlayerInv'
  BY DEF PlayerInv, playerVars, PlayerTypeOK, OutputFollowsStatus, EventsCurrent, ExitPosted,
         ScanReady, NotStarted

\* The invariant after an event was handled.
LEMMA AfterEvent ==
  ASSUME PlayerInv, NEW type, Take(type), Handled, UNCHANGED thread, outputReady' \in BOOLEAN,
         dma' # Off => outputReady', scan'.active => outputReady'
  PROVE  PlayerInv'
  <1>1. /\ thread = "running" /\ thread' = "running" /\ user' = user
        /\ user \in {"open", "freeing", "joining", "freed"}
    BY DEF Take, PlayerInv, PlayerTypeOK
  <1>2. /\ queue' \in Seq(Events) /\ Len(queue') <= QueueLen
        /\ EventsCurrent' /\ ExitPosted'
    BY TakeKeeps DEF Handled
  <1>3. PlayerTypeOK' BY <1>1, <1>2 DEF PlayerTypeOK, Handled, StatusType, ScanType
  <1>4. OutputFollowsStatus' BY <1>1 DEF OutputFollowsStatus, Handled
  <1>5. ScanReady' /\ NotStarted' BY <1>1 DEF ScanReady, NotStarted
  <1>6. QED BY <1>2, <1>3, <1>4, <1>5 DEF PlayerInv

\* The output cannot be prepared.
LEMMA OutputFailsStep ==
  ASSUME PlayerInv, OutputFails
  PROVE  PlayerInv'
  <1>1. /\ Take("control") /\ ~outputReady /\ status' = Status("Error", status.lba, Sectors)
        /\ UNCHANGED <<thread, deck, scan, generation, outputReady, dma, kept>>
    BY DEF OutputFails
  <1>2. thread = "running" BY <1>1 DEF Take
  <1>3. Player BY <1>2, PlayerBefore
  <1>4. dma = Off /\ ~scan.active BY <1>1, <1>3 DEF Player
  <1>5. status.lba \in Nat /\ Sectors \in Nat
    BY <1>3 DEF Player, StatusType, PlayerAssumption
  <1>6. "Error" \in Codes BY DEF Codes
  <1>7. status' \in StatusType /\ status'.code = "Error"
    BY <1>1, <1>5, <1>6, StatusSet, PlayerAssumption
  <1>8. Handled BY <1>1, <1>3, <1>4, <1>7 DEF Handled, Player
  <1>9. outputReady' \in BOOLEAN BY <1>1 DEF PlayerInv, PlayerTypeOK
  <1>10. dma' = Off /\ ~scan'.active /\ UNCHANGED thread BY <1>1, <1>4
  <1>11. QED BY <1>1, <1>8, <1>9, <1>10, AfterEvent

\* A control is handled.
LEMMA TakeControlStep ==
  ASSUME PlayerInv, TakeControl
  PROVE  PlayerInv'
  <1> DEFINE e == Head(queue)
  <1>1. /\ Take("control") /\ HandleControl(e) /\ UNCHANGED thread
        /\ outputReady' = (outputReady \/ NeedsOutput(e))
    BY DEF TakeControl
  <1>2. /\ thread = "running" /\ queue # <<>> /\ e.type = "control"
        /\ queue \in Seq(Events)
    BY <1>1 DEF Take, PlayerInv, PlayerTypeOK
  <1>3. Player BY <1>2, PlayerBefore
  <1>4. e \in Events BY <1>2, TailQueue
  <1> HIDE DEF e
  <1>5. Handled /\ Prepared(e) BY <1>1, <1>2, <1>3, <1>4, ControlStep
  <1>6. outputReady' \in BOOLEAN BY <1>1, Zenon
  <1>7. /\ dma' # Off => outputReady'
        /\ scan'.active => outputReady'
    BY <1>1, <1>5, Zenon DEF Prepared
  <1>8. QED BY <1>1, <1>5, <1>6, <1>7, AfterEvent

\* A report of the DMA is handled.
LEMMA TakeDmaStep ==
  ASSUME PlayerInv, TakeDma
  PROVE  PlayerInv'
  <1> DEFINE e == Head(queue)
  <1>1. Take("dma") /\ HandleDma(e) /\ UNCHANGED <<thread, scan, outputReady, kept>>
    BY DEF TakeDma
  <1>2. /\ thread = "running" /\ queue # <<>> /\ e.type = "dma"
        /\ queue \in Seq(Events)
    BY <1>1 DEF Take, PlayerInv, PlayerTypeOK
  <1>3. Player BY <1>2, PlayerBefore
  <1>4. e \in Events /\ e = queue[1] /\ 1 \in 1..Len(queue) BY <1>2, TailQueue
  <1>5. e.generation = generation => dma # Off
    BY <1>2, <1>4 DEF PlayerInv, EventsCurrent
  <1> HIDE DEF e
  <1>6. Handled /\ (dma' # Off => dma # Off) BY <1>1, <1>2, <1>3, <1>4, <1>5, DmaStep
  <1>7. outputReady' \in BOOLEAN BY <1>1 DEF PlayerInv, PlayerTypeOK
  <1>8. /\ dma' # Off => outputReady'
        /\ scan'.active => outputReady'
    BY <1>1, <1>3, <1>6 DEF Player
  <1>9. QED BY <1>1, <1>6, <1>7, <1>8, AfterEvent

\* The worker ends.
LEMMA ExitStep ==
  ASSUME PlayerInv, WorkerExits
  PROVE  PlayerInv'
  <1>1. /\ Take("exit") /\ thread' = "ended" /\ outputReady' = FALSE
        /\ dma' = (IF outputReady THEN Off ELSE dma)
        /\ UNCHANGED <<status, deck, scan, generation, kept>>
    BY DEF WorkerExits
  <1>2. /\ thread = "running" /\ queue # <<>> /\ Head(queue).type = "exit" /\ user' = user
        /\ queue' = Tail(queue) /\ queue \in Seq(Events) /\ Len(queue) <= QueueLen
        /\ QueueLen \in Nat
    BY <1>1, PlayerAssumption DEF Take, PlayerInv, PlayerTypeOK, PlayerAssumption
  <1>3. user \notin {"open", "freeing"}
    BY <1>2, TailQueue DEF PlayerInv, ExitPosted
  <1>4. dma' = Off BY <1>1, <1>2, PlayerBefore DEF Player
  <1>5. queue' \in Seq(Events) /\ Len(queue') <= QueueLen
    <2>1. Len(queue') = Len(queue) - 1 /\ Len(queue) \in Nat BY <1>2, TailQueue
    <2>2. QED BY <1>2, <2>1, TailQueue
  <1>6. PlayerTypeOK' BY <1>1, <1>2, <1>4, <1>5 DEF PlayerTypeOK, PlayerInv
  <1>7. OutputFollowsStatus' BY <1>1, <1>4 DEF OutputFollowsStatus
  <1>8. EventsCurrent' /\ ExitPosted' /\ ScanReady' /\ NotStarted'
    BY <1>1, <1>2, <1>3 DEF EventsCurrent, ExitPosted, ScanReady, NotStarted
  <1>9. QED BY <1>6, <1>7, <1>8 DEF PlayerInv

\* The interrupt reports a half; the DMA runs only with a running worker.
LEMMA HalfPlayedStep ==
  ASSUME PlayerInv, HalfPlayed
  PROVE  PlayerInv'
  <1> DEFINE e == [type |-> "dma", half |-> dma, generation |-> generation]
  <1>1. /\ dma \in Halves /\ generation \in Nat /\ thread # "ended" /\ thread # "none"
        /\ queue \in Seq(Events) /\ Len(queue) <= QueueLen /\ dma # Off
    BY DEF HalfPlayed, PlayerInv, PlayerTypeOK, OutputFollowsStatus, NotStarted
  <1>2. /\ dma' = 1 - dma
        /\ UNCHANGED <<thread, status, deck, scan, generation, outputReady, user>>
    BY DEF HalfPlayed
  <1>3. dma' \in Halves /\ dma' # Off BY <1>1, <1>2 DEF Halves, Off
  <1>4. e \in Events BY <1>1 DEF Events
  <1>5. /\ queue' \in Seq(Events) /\ Len(queue') <= QueueLen
        /\ EventsCurrent' /\ ExitPosted' /\ kept' \in BOOLEAN
    <2>1. CASE Len(queue) < QueueLen
      <3>1. queue' = Append(queue, e) /\ kept' = kept BY <2>1 DEF HalfPlayed
      <3>2. e.type = "dma" /\ e.generation = generation OBVIOUS
      <3> HIDE DEF e
      <3>3. QED BY <1>1, <1>2, <1>3, <1>4, <2>1, <3>1, <3>2, PutKeeps DEF PlayerInv, PlayerTypeOK
    <2>2. CASE ~(Len(queue) < QueueLen)
      <3>1. kept' = FALSE /\ queue' = queue BY <2>2 DEF HalfPlayed
      <3>2. QED BY <1>1, <1>2, <1>3, <3>1 DEF PlayerInv, EventsCurrent, ExitPosted
    <2>3. QED BY <2>1, <2>2
  <1>6. PlayerTypeOK' BY <1>2, <1>3, <1>5 DEF PlayerInv, PlayerTypeOK
  <1>7. OutputFollowsStatus' BY <1>1, <1>2, <1>3 DEF PlayerInv, OutputFollowsStatus
  <1>8. ScanReady' /\ NotStarted' BY <1>1, <1>2 DEF PlayerInv, ScanReady, NotStarted
  <1>9. QED BY <1>5, <1>6, <1>7, <1>8 DEF PlayerInv

\* The calls of audio_cd_free.
LEMMA FreeStep ==
  ASSUME PlayerInv, BeginFree \/ PostExit \/ Joined
  PROVE  PlayerInv'
  <1>1. CASE BeginFree
    <2>1. /\ user = "open" /\ user' \in {"freed", "freeing"}
          /\ UNCHANGED <<thread, queue, status, deck, scan, generation, outputReady, dma, kept>>
      BY <1>1 DEF BeginFree
    <2>2. ExitPosted' BY <2>1 DEF PlayerInv, ExitPosted
    <2>3. QED BY <2>1, <2>2 DEF PlayerInv, PlayerTypeOK, OutputFollowsStatus, EventsCurrent,
                                ScanReady, NotStarted
  <1>2. CASE PostExit
    <2> DEFINE e == [type |-> "exit"]
    <2>1. /\ user = "freeing" /\ user' = "joining" /\ Len(queue) < QueueLen
          /\ queue' = Append(queue, e)
          /\ UNCHANGED <<thread, status, deck, scan, generation, outputReady, dma, kept>>
      BY <1>2 DEF PostExit
    <2>2. e \in Events BY DEF Events
    <2>3. e.type = "exit" OBVIOUS
    <2> HIDE DEF e
    <2>4. /\ queue' \in Seq(Events) /\ Len(queue') <= QueueLen
          /\ thread # "ended" => EventsCurrent'
          /\ ExitPosted'
      BY <2>1, <2>2, <2>3, PutKeeps
    <2>5. thread # "ended" BY <2>1 DEF PlayerInv, ExitPosted
    <2>6. PlayerTypeOK' BY <2>1, <2>4 DEF PlayerInv, PlayerTypeOK
    <2>7. OutputFollowsStatus' /\ ScanReady' /\ NotStarted'
      BY <2>1 DEF PlayerInv, OutputFollowsStatus, ScanReady, NotStarted
    <2>8. QED BY <2>4, <2>5, <2>6, <2>7 DEF PlayerInv
  <1>3. CASE Joined
    <2>1. /\ user' = "freed"
          /\ UNCHANGED <<thread, queue, status, deck, scan, generation, outputReady, dma, kept>>
      BY <1>3 DEF Joined
    <2>2. QED BY <2>1 DEF PlayerInv, PlayerTypeOK, OutputFollowsStatus, EventsCurrent, ExitPosted,
                          ScanReady, NotStarted
  <1>4. QED BY <1>1, <1>2, <1>3

\* Every step of the player itself.
LEMMA PlayerStep ==
  ASSUME PlayerInv, PlayerNext
  PROVE  PlayerInv'
  BY OutputFailsStep, TakeControlStep, TakeDmaStep, ExitStep, HalfPlayedStep, FreeStep
     DEF PlayerNext, Worker

\* A control that is called, whatever the caller read before it.
LEMMA ControlCall ==
  ASSUME PlayerInv, NEW control \in Controls, NEW from \in Nat, NEW to \in Nat,
         Control(control, from, to)
  PROVE  PlayerInv'
  <1> DEFINE e == [type |-> "control", control |-> control, from |-> from, to |-> to]
  <1>1. CASE UNCHANGED playerVars BY <1>1, PlayerUnchanged
  <1>2. CASE /\ thread = "none"
             /\ status' = [code |-> "Error", lba |-> status.lba, end |-> status.end]
             /\ UNCHANGED <<thread, queue, deck, scan, generation, outputReady, dma, kept, user>>
    <2>1. dma = Off BY <1>2 DEF PlayerInv, NotStarted
    <2>2. status \in StatusType BY DEF PlayerInv, PlayerTypeOK, StatusType
    <2>3. status' \in StatusType /\ status'.code = "Error" BY <1>2, <2>2 DEF StatusType, Codes
    <2>4. PlayerTypeOK' BY <1>2, <2>3 DEF PlayerInv, PlayerTypeOK, StatusType
    <2>5. OutputFollowsStatus' BY <1>2, <2>1, <2>3 DEF OutputFollowsStatus
    <2>6. EventsCurrent' /\ ExitPosted' /\ ScanReady' /\ NotStarted'
      BY <1>2 DEF PlayerInv, EventsCurrent, ExitPosted, ScanReady, NotStarted
    <2>7. QED BY <2>4, <2>5, <2>6 DEF PlayerInv
  <1>3. CASE /\ InRange(control, from, to) /\ Len(queue) < QueueLen /\ thread' = "running"
             /\ queue' = Append(queue, e) /\ user = "open"
             /\ UNCHANGED <<status, deck, scan, generation, outputReady, dma, kept, user>>
    <2>1. from \in 0..Sectors /\ to \in 0..Sectors
      BY <1>3, PlayerAssumption DEF InRange, PlayerAssumption
    <2>2. e \in Events BY <2>1 DEF Events
    <2>3. e.type = "control" OBVIOUS
    <2> HIDE DEF e
    <2>4. thread # "ended" BY <1>3 DEF PlayerInv, ExitPosted
    <2>5. /\ queue' \in Seq(Events) /\ Len(queue') <= QueueLen
          /\ EventsCurrent' /\ ExitPosted'
      BY <1>3, <2>2, <2>3, <2>4, PutKeeps
    <2>6. PlayerTypeOK' BY <1>3, <2>5 DEF PlayerInv, PlayerTypeOK
    <2>7. OutputFollowsStatus' /\ ScanReady' /\ NotStarted'
      BY <1>3, <2>4 DEF PlayerInv, OutputFollowsStatus, ScanReady, NotStarted
    <2>8. QED BY <2>5, <2>6, <2>7 DEF PlayerInv
  <1>4. QED BY <1>1, <1>2, <1>3 DEF Control

-----------------------------------------------------------------------------
(* The keys and the host.                                                  *)

\* What the callers read is typed.
LEMMA CallersRead ==
  ASSUME PlayerInv, KeysType
  PROVE  /\ \A i \in 1..Len(Tracks) : Tracks[i] \in Nat
         /\ Sectors \in Nat /\ Len(Tracks) \in Nat /\ 1 \in 1..Len(Tracks)
         /\ status.lba \in Nat /\ ScanFrom \in Nat
         /\ 0 \in Nat /\ HostLbas \subseteq Nat
         /\ {"Play", "Pause", "Resume", "Stop", "ScanEnd", "Seek"} \cup Scans \subseteq Controls
  <1>1. /\ Sectors \in Nat \ {0} /\ Tracks \in Seq(0..(Sectors - 1)) /\ Tracks # <<>>
    BY PlayerAssumption DEF PlayerAssumption
  <1>2. status.lba \in Nat BY <1>1 DEF PlayerInv, PlayerTypeOK
  <1>3. ScanFrom \in Nat BY <1>1, <1>2 DEF ScanFrom, Least
  <1>4. Len(Tracks) \in Nat /\ 1 \in 1..Len(Tracks) BY <1>1
  <1>5. \A i \in 1..Len(Tracks) : Tracks[i] \in Nat BY <1>1
  <1>6. HostLbas \subseteq Nat BY ControlsAssumption DEF ControlsAssumption
  <1>7. {"Play", "Pause", "Resume", "Stop", "ScanEnd", "Seek"} \cup Scans \subseteq Controls
    BY DEF Scans, Controls
  <1>8. QED BY <1>1, <1>2, <1>3, <1>4, <1>5, <1>6, <1>7

\* A key keeps the invariant of the player and selects a track of the disc.
LEMMA KeyStep ==
  ASSUME IInv, NEW key \in Keys, Key(key)
  PROVE  IInv'
  <1>1. /\ PlayerInv /\ KeysType /\ MaxCalls \in Nat
        /\ selected \in 1..Len(Tracks) /\ leftTrack \in 1..Len(Tracks)
    BY ControlsAssumption DEF IInv, KeysType, ControlsAssumption
  <1>2. /\ \A i \in 1..Len(Tracks) : Tracks[i] \in Nat
        /\ Sectors \in Nat /\ Len(Tracks) \in Nat /\ ScanFrom \in Nat
        /\ {"Play", "Pause", "Resume", "Stop", "ScanEnd", "Seek"} \cup Scans \subseteq Controls
    BY <1>1, CallersRead
  <1>3. calls' \in 0..MaxCalls BY <1>1 DEF Key, Count, KeysType
  <1>4. CASE PlayPause
    <2>1. leftTick' = FALSE /\ UNCHANGED <<selected, leftTrack>> BY <1>4 DEF PlayPause
    <2>2. \/ Control("Pause", 0, 0) \/ Control("Resume", 0, 0)
          \/ Control("Play", Tracks[selected], Sectors)
      BY <1>4 DEF PlayPause
    <2>3. PlayerInv' BY <1>1, <1>2, <2>2, ControlCall
    <2>4. QED BY <1>1, <1>3, <2>1, <2>3 DEF IInv, KeysType
  <1>5. CASE StopKey
    <2>1. /\ leftTick' = FALSE /\ UNCHANGED <<selected, leftTrack>> /\ Control("Stop", 0, 0)
      BY <1>5 DEF StopKey
    <2>2. PlayerInv' BY <1>1, <1>2, <2>1, ControlCall
    <2>3. QED BY <1>1, <1>3, <2>1, <2>2 DEF IInv, KeysType
  <1>6. CASE Previous
    <2>1. Greatest(leftTrack - 1, 1) \in 1..Len(Tracks) BY <1>1, <1>2 DEF Greatest
    <2>2. PICK target \in {Greatest(leftTrack - 1, 1), selected} :
            /\ leftTrack' = target /\ selected' = target /\ leftTick' = TRUE
            /\ Control("Seek", Tracks[target], Sectors)
      BY <1>6, Zenon DEF Previous
    <2>3. target \in 1..Len(Tracks) BY <1>1, <2>1
    <2>4. PlayerInv' BY <1>1, <1>2, <2>2, <2>3, ControlCall
    <2>5. QED BY <1>1, <1>3, <2>2, <2>3, <2>4 DEF IInv, KeysType
  <1>7. CASE NextKey
    <2>1. leftTick' = FALSE /\ UNCHANGED leftTrack BY <1>7 DEF NextKey
    <2>2. CASE selected < Len(Tracks)
      <3>1. selected' = selected + 1 /\ Control("Seek", Tracks[selected + 1], Sectors)
        BY <1>7, <2>2 DEF NextKey
      <3>2. selected + 1 \in 1..Len(Tracks) BY <1>1, <1>2, <2>2
      <3>3. PlayerInv' BY <1>1, <1>2, <3>1, <3>2, ControlCall
      <3>4. QED BY <1>1, <1>3, <2>1, <3>1, <3>2, <3>3 DEF IInv, KeysType
    <2>3. CASE ~(selected < Len(Tracks))
      <3>1. UNCHANGED <<selected, playerVars>> BY <1>7, <2>3 DEF NextKey
      <3>2. PlayerInv' BY <1>1, <3>1, PlayerUnchanged
      <3>3. QED BY <1>1, <1>3, <2>1, <3>1, <3>2 DEF IInv, KeysType
    <2>4. QED BY <2>2, <2>3
  <1>8. ASSUME key \in Scans, ScanKey(key) PROVE IInv'
    <2>1. /\ leftTick' = FALSE /\ UNCHANGED <<selected, leftTrack>>
          /\ Control(key, ScanFrom, Sectors)
      BY <1>8 DEF ScanKey
    <2>2. PlayerInv' BY <1>1, <1>2, <1>8, <2>1, ControlCall
    <2>3. QED BY <1>1, <1>3, <2>1, <2>2 DEF IInv, KeysType
  <1>9. CASE ScanRelease
    <2>1. UNCHANGED keyVars /\ Control("ScanEnd", 0, 0) BY <1>9 DEF ScanRelease
    <2>2. PlayerInv' BY <1>1, <1>2, <2>1, ControlCall
    <2>3. QED BY <1>1, <1>3, <2>1, <2>2 DEF IInv, KeysType, keyVars
  <1>10. QED BY <1>4, <1>5, <1>6, <1>7, <1>8, <1>9 DEF Key

\* A command of the host keeps the invariant.
LEMMA HostStep ==
  ASSUME IInv, NEW control \in HostCommands, HostCommand(control)
  PROVE  IInv'
  <1>1. PlayerInv /\ KeysType /\ MaxCalls \in Nat
    BY ControlsAssumption DEF IInv, ControlsAssumption
  <1>2. /\ \A i \in 1..Len(Tracks) : Tracks[i] \in Nat
        /\ Sectors \in Nat /\ Len(Tracks) \in Nat /\ status.lba \in Nat
        /\ HostLbas \subseteq Nat
        /\ {"Play", "Pause", "Resume", "Stop", "ScanEnd", "Seek"} \cup Scans \subseteq Controls
    BY <1>1, CallersRead
  <1>3. calls' \in 0..MaxCalls /\ UNCHANGED keyVars
    BY <1>1 DEF HostCommand, Count, KeysType
  <1>4. \E c \in Controls, from \in Nat, to \in Nat : Control(c, from, to)
    <2>1. CASE HostPlay BY <1>2, <2>1 DEF HostPlay, PlayRange
    <2>2. CASE HostPlayTracks
      <3>1. PICK first \in 1..Len(Tracks) : \E last \in first..Len(Tracks) :
              PlayRange(Tracks[first], IF last < Len(Tracks) THEN Tracks[last + 1] ELSE Sectors)
        BY <2>2 DEF HostPlayTracks
      <3>2. PICK last \in first..Len(Tracks) :
              PlayRange(Tracks[first], IF last < Len(Tracks) THEN Tracks[last + 1] ELSE Sectors)
        BY <3>1
      <3>3. Tracks[first] \in Nat BY <1>2
      <3>4. CASE last < Len(Tracks)
        <4>1. last + 1 \in 1..Len(Tracks) BY <1>2, <3>4
        <4>2. Tracks[last + 1] \in Nat BY <1>2, <4>1
        <4>3. Control("Play", Tracks[first], Tracks[last + 1]) BY <3>2, <3>4 DEF PlayRange
        <4>4. QED BY <1>2, <3>3, <4>2, <4>3
      <3>5. CASE ~(last < Len(Tracks))
        <4>1. Control("Play", Tracks[first], Sectors) BY <3>2, <3>5 DEF PlayRange
        <4>2. QED BY <1>2, <3>3, <4>1
      <3>6. QED BY <3>4, <3>5
    <2>3. CASE control \in {"Pause", "Resume"} /\ HostPause(control)
      BY <1>2, <2>3 DEF HostPause
    <2>4. CASE HostStop BY <1>2, <2>4 DEF HostStop
    <2>5. CASE HostSeek BY <1>2, <2>5 DEF HostSeek
    <2>6. CASE control \in Scans /\ HostScan(control) BY <1>2, <2>6 DEF HostScan
    <2>7. QED BY <2>1, <2>2, <2>3, <2>4, <2>5, <2>6 DEF HostCommand
  <1>5. PlayerInv' BY <1>1, <1>4, ControlCall
  <1>6. QED BY <1>1, <1>3, <1>5 DEF IInv, KeysType, keyVars

\* Drawing the view selects a track of the disc.
LEMMA TickStep ==
  ASSUME IInv, Tick
  PROVE  IInv'
  <1>1. PlayerInv /\ KeysType BY DEF IInv
  <1>2. selected' = TrackAt(status.lba) /\ UNCHANGED <<playerVars, leftTrack, leftTick, calls>>
    BY DEF Tick
  <1>3. selected' \in 1..Len(Tracks) BY <1>1, <1>2, CallersRead, TrackBound, PlayerAssumption
  <1>4. PlayerInv' BY <1>1, <1>2, PlayerUnchanged
  <1>5. QED BY <1>1, <1>2, <1>3, <1>4 DEF IInv, KeysType

-----------------------------------------------------------------------------
(* The theorems.                                                           *)

\* The player begins stopped, without a worker.
LEMMA InitInv == Init => IInv
  <1> SUFFICES ASSUME Init PROVE IInv
    OBVIOUS
  <1>1. PlayerInit /\ selected = 1 /\ leftTrack = 1 /\ leftTick = FALSE /\ calls = 0
    BY DEF Init
  <1>2. /\ Sectors \in Nat \ {0} /\ HalfLen \in Nat /\ Tracks \in Seq(0..(Sectors - 1))
        /\ QueueLen \in Nat /\ Len(Tracks) \in Nat /\ 1 \in 1..Len(Tracks) /\ Tracks[1] = 0
        /\ MaxCalls \in Nat
    BY PlayerAssumption, ControlsAssumption DEF PlayerAssumption, ControlsAssumption
  <1>3. queue = <<>> /\ queue \in Seq(Events) /\ Len(queue) = 0 BY <1>1 DEF PlayerInit
  <1>4. "Stopped" \in Codes BY DEF Codes
  <1>5. status \in StatusType /\ status.code = "Stopped"
    BY <1>1, <1>2, <1>4, StatusSet, PlayerAssumption DEF PlayerInit
  <1>6. deck \in DeckType
    <2>1. 0 \in Offset BY OffsetIs, PlayerAssumption
    <2>2. 0 \in 0..HalfLen BY <1>2
    <2>3. QED BY <1>1, <2>1, <2>2 DEF PlayerInit, DeckType
  <1>7. scan \in ScanType /\ ~scan.active BY <1>1, <1>4 DEF PlayerInit, ScanType
  <1>8. PlayerTypeOK
    <2>1. queue \in Seq(Events) /\ Len(queue) <= QueueLen BY <1>2, <1>3
    <2>2. /\ status \in [code : Codes, lba : 0..Sectors, end : 0..Sectors]
          /\ scan \in [active : BOOLEAN, reverse : BOOLEAN, restore : Codes]
      BY <1>5, <1>7 DEF StatusType, ScanType
    <2>3. outputReady \in BOOLEAN /\ kept \in BOOLEAN BY <1>1 DEF PlayerInit
    <2>4. /\ thread \in {"none", "running", "ended"} /\ generation \in Nat
          /\ dma \in {Off} \cup Halves /\ user \in {"open", "freeing", "joining", "freed"}
      BY <1>1 DEF PlayerInit
    <2>5. QED BY <1>6, <2>1, <2>2, <2>3, <2>4 DEF PlayerTypeOK
  <1>9. OutputFollowsStatus /\ NotStarted
    BY <1>1, <1>5 DEF PlayerInit, OutputFollowsStatus, NotStarted
  <1>10. EventsCurrent /\ ExitPosted /\ ScanReady
    BY <1>1, <1>3, <1>7 DEF PlayerInit, EventsCurrent, ExitPosted, ScanReady
  <1>11. KeysType
    <2>1. 0 \in 0..MaxCalls BY <1>2
    <2>2. leftTick \in BOOLEAN BY <1>1
    <2>3. QED BY <1>1, <1>2, <2>1, <2>2 DEF KeysType
  <1>12. QED BY <1>8, <1>9, <1>10, <1>11 DEF IInv, PlayerInv

\* Every step keeps the invariant.
LEMMA Inductive == IInv /\ [Next]_vars => IInv'
  <1> SUFFICES ASSUME IInv, [Next]_vars PROVE IInv'
    OBVIOUS
  <1>1. PlayerInv /\ KeysType BY DEF IInv
  <1>2. CASE PlayerNext /\ UNCHANGED <<keyVars, calls>>
    <2>1. PlayerInv' BY <1>1, <1>2, PlayerStep
    <2>2. QED BY <1>1, <1>2, <2>1 DEF IInv, KeysType, keyVars
  <1>3. ASSUME NEW key \in Keys, Key(key) PROVE IInv' BY <1>3, KeyStep
  <1>4. CASE Tick BY <1>4, TickStep
  <1>5. ASSUME NEW control \in HostCommands, HostCommand(control) PROVE IInv' BY <1>5, HostStep
  <1>6. CASE UNCHANGED vars
    <2>1. UNCHANGED playerVars BY <1>6 DEF vars, playerVars
    <2>2. PlayerInv' BY <1>1, <2>1, PlayerUnchanged
    <2>3. QED BY <1>1, <1>6, <2>2 DEF IInv, KeysType, vars
  <1>7. QED BY <1>2, <1>3, <1>4, <1>5, <1>6 DEF Next

\* The types of the player's state hold always, for every disc, queue and caller.
THEOREM TypeCorrect == Spec => []TypeOK
  <1>1. IInv => TypeOK BY DEF IInv, PlayerInv, KeysType, TypeOK
  <1>2. QED BY <1>1, InitInv, Inductive, PTL DEF Spec

\* audio_cd.c: the DMA runs exactly while the status says Playing, with the speaker
\* acquired, and never after the worker ended.
THEOREM OutputSafe == Spec => []OutputFollowsStatus
  <1>1. IInv => OutputFollowsStatus BY DEF IInv, PlayerInv
  <1>2. QED BY <1>1, InitInv, Inductive, PTL DEF Spec

-----------------------------------------------------------------------------
(* What is heard.                                                          *)

\* The half c is followed by the other one, which holds what comes next, and the
\* file is read on after that
Laid(d, s, c) ==
  LET now  == d.start[c]
      next == d.start[1 - c]
      size == d.valid[1 - c]
  IN  IF Rewinding(s)
      THEN /\ d.from <= now /\ now < d.to
           /\ next = Greatest(now - Step, d.from) /\ (size = 0 <=> now <= d.from)
           /\ d.source = next
      ELSE /\ next = IF s.active THEN Least(now + Step, d.to) ELSE now + d.valid[c]
           /\ size = Least(HalfLen, d.to - next) /\ next <= d.to
           /\ d.source = IF s.active THEN Least(next + Step, d.to) ELSE next + size

\* An event of playback g
Current(e, g) == e.type = "dma" /\ e.generation = g

\* With the events of q to come, the worker is at half h[0]; event i takes it to
\* h[i], which is `end', where the DMA is, when no event follows.
Along(q, g, end, h) ==
  \A i \in 0..Len(q) :
    /\ i > 0 => h[i] = IF Current(q[i], g) THEN 1 - h[i - 1] ELSE h[i - 1]
    /\ i > 0 /\ Current(q[i], g) => q[i].half = h[i - 1]
    /\ (\A k \in (i + 1)..Len(q) : ~Current(q[k], g)) => h[i] = end

\* While no event was lost, the deck is laid out for the half the worker is at, which
\* is the position it reports.
HeardInv ==
  dma # Off /\ kept =>
    \E h \in [0..Len(queue) -> Halves] :
      /\ Along(queue, generation, dma, h) /\ Laid(deck, scan, h[0])
      /\ status.lba = deck.start[h[0]] \div SectorLen

\* The deck with one half filled, field by field.
LEMMA FilledFields ==
  ASSUME NEW d \in DeckType, NEW s, NEW h \in Halves
  PROVE  /\ Filled(d, s, h).from = d.from /\ Filled(d, s, h).to = d.to
         /\ Filled(d, s, h).source = SourceAfter(d, s)
         /\ Filled(d, s, h).start[h] = FillStart(d, s)
         /\ Filled(d, s, h).valid[h] = FillLength(d, s)
         /\ Filled(d, s, h).start[1 - h] = d.start[1 - h]
         /\ Filled(d, s, h).valid[1 - h] = d.valid[1 - h]
  <1> DEFINE start == FillStart(d, s)
             len   == FillLength(d, s)
             after == SourceAfter(d, s)
  <1>1. 1 - h \in Halves /\ 1 - h # h BY DEF Halves
  <1>2. d.start \in [Halves -> Offset] /\ d.valid \in [Halves -> 0..HalfLen] BY DEF DeckType
  <1> HIDE DEF start, len, after
  <1>3. Filled(d, s, h) = [from |-> d.from, to |-> d.to, source |-> after,
                           start |-> [d.start EXCEPT ![h] = start],
                           valid |-> [d.valid EXCEPT ![h] = len]]
    BY DEF Filled, start, len, after
  <1>4. QED BY <1>1, <1>2, <1>3 DEF start, len, after

\* The numbers a deck is made of.
LEMMA DeckNumbers ==
  ASSUME PlayerAssumption, NEW d \in DeckType, NEW c \in Halves
  PROVE  /\ d.from \in Nat /\ d.to \in Nat /\ d.source \in Nat
         /\ d.start[c] \in Nat /\ d.valid[c] \in 0..HalfLen
         /\ HalfLen \in Nat \ {0} /\ Step \in Nat \ {0} /\ SectorLen \in Nat \ {0}
  <1>1. HalfLen \in Nat \ {0} /\ ScanFactor \in Nat \ {0} /\ SectorLen \in Nat \ {0}
    BY DEF PlayerAssumption
  <1>2. Step \in Nat \ {0} BY <1>1 DEF Step
  <1>3. Offset \subseteq Nat BY OffsetIs
  <1>4. QED BY <1>1, <1>2, <1>3 DEF DeckType

\* A half that begins before the end of the range holds something.
LEMMA Holds ==
  ASSUME NEW start \in Nat, NEW to \in Nat, NEW len \in Nat \ {0}, start <= to
  PROVE  /\ Least(len, to - start) \in 0..len
         /\ Least(len, to - start) = 0 <=> start = to
         /\ start + Least(len, to - start) <= to
  BY DEF Least

\* A step back within the range.
LEMMA Back ==
  ASSUME NEW from \in Nat, NEW at \in Nat, NEW to \in Nat, NEW step \in Nat,
         from <= at, at < to
  PROVE  Greatest(at - step, from) \in Nat /\ Greatest(at - step, from) < to
  BY DEF Greatest

\* Behind a deck that is laid out goes what the next read brings.
LEMMA LaidFill ==
  ASSUME PlayerAssumption, NEW d \in DeckType, NEW s \in ScanType, NEW c \in Halves,
         Laid(d, s, c), d.valid[1 - c] # 0
  PROVE  Laid(Filled(d, s, c), s, 1 - c)
  <1> DEFINE now == d.start[c]
             next == d.start[1 - c]
             size == d.valid[1 - c]
             f == Filled(d, s, c)
             start == FillStart(d, s)
             len == FillLength(d, s)
             after == SourceAfter(d, s)
  <1>1. c \in Halves /\ 1 - c \in Halves /\ 1 - (1 - c) = c BY DEF Halves
  <1>2. /\ d.from \in Nat /\ d.to \in Nat /\ d.source \in Nat
        /\ now \in Nat /\ next \in Nat /\ size \in 0..HalfLen /\ size # 0
        /\ HalfLen \in Nat \ {0} /\ Step \in Nat \ {0}
    BY <1>1, DeckNumbers
  <1>3. /\ f.from = d.from /\ f.to = d.to /\ f.source = after
        /\ f.start[c] = start /\ f.valid[c] = len
        /\ f.start[1 - c] = next /\ f.valid[1 - c] = size
    BY FilledFields
  <1> HIDE DEF f, now, next, size, start, len, after
  <1>4. CASE Rewinding(s)
    <2>1. /\ d.from <= now /\ now < d.to /\ next = Greatest(now - Step, d.from)
          /\ size = 0 <=> now <= d.from
          /\ d.source = next
      BY <1>4 DEF Laid, now, next, size
    <2>2. d.from <= next /\ next < d.to BY <1>2, <2>1 DEF Greatest
    <2>3. start = Greatest(next - Step, d.from) BY <1>4, <2>1 DEF FillStart, start
    <2>4. start < d.to /\ start \in Nat BY <1>2, <2>2, <2>3, Back
    <2>5. len = 0 <=> next <= d.from
      <3>1. Least(HalfLen, d.to - start) # 0 BY <1>2, <2>4 DEF Least
      <3>2. len = IF next <= d.from THEN 0 ELSE Least(HalfLen, d.to - start)
        <4>1. ~(start >= d.to) BY <1>2, <2>4
        <4>2. QED BY <1>4, <2>1, <4>1 DEF FillLength, len, start
      <3>3. QED BY <3>1, <3>2
    <2>6. after = start BY <1>4 DEF SourceAfter, after, start
    <2>7. QED BY <1>1, <1>3, <1>4, <2>2, <2>3, <2>5, <2>6 DEF Laid, f
  <1>5. CASE ~Rewinding(s)
    <2>1. /\ next = IF s.active THEN Least(now + Step, d.to) ELSE now + d.valid[c]
          /\ size = Least(HalfLen, d.to - next) /\ next <= d.to
          /\ d.source = IF s.active THEN Least(next + Step, d.to) ELSE next + size
      BY <1>5 DEF Laid, now, next, size
    <2>2. start = d.source /\ start <= d.to
      <3>1. start = d.source BY <1>5 DEF FillStart, start
      <3>2. next + size <= d.to BY <1>2, <2>1, Holds
      <3>3. CASE s.active
        <4>1. d.to \in Nat BY <1>2
        <4>2. Least(next + Step, d.to) <= d.to BY ONLY <4>1 DEF Least
        <4>3. QED BY <2>1, <3>1, <3>3, <4>2
      <3>4. CASE ~s.active BY <2>1, <3>1, <3>2, <3>4
      <3>5. QED BY <3>3, <3>4
    <2>3. len = Least(HalfLen, d.to - start)
      <3>1. CASE start = d.to
        <4>1. len = 0 BY <1>2, <1>5, <2>2, <3>1 DEF FillLength, len, start
        <4>2. start \in Nat /\ d.to \in Nat /\ HalfLen \in Nat \ {0} BY <1>2, <2>2, <3>1
        <4>3. d.to - start = 0 BY <3>1, <4>2
        <4>4. Least(HalfLen, d.to - start) = 0 BY ONLY <4>2, <4>3 DEF Least
        <4>5. QED BY <4>1, <4>4
      <3>2. CASE start < d.to
        <4>1. ~(start >= d.to) BY <1>2, <2>2, <3>2
        <4>2. QED BY <1>5, <4>1 DEF FillLength, len, start
      <3>3. QED BY <1>2, <2>2, <3>1, <3>2
    <2>4. after = IF s.active THEN Least(start + Step, d.to) ELSE start + len
      BY <1>5 DEF SourceAfter, after, start, len
    <2>5. QED BY <1>1, <1>3, <1>5, <2>1, <2>2, <2>3, <2>4 DEF Laid, f
  <1>6. QED BY <1>4, <1>5 DEF f

\* A playback begins laid out, unless it has nothing to play.
LEMMA LaidBegin ==
  ASSUME PlayerAssumption, NEW d \in DeckType, NEW s \in ScanType,
         Filled(Filled(d, s, 0), s, 1).valid[0] # 0
  PROVE  Laid(Filled(Filled(d, s, 0), s, 1), s, 0)
  <1> DEFINE d1 == Filled(d, s, 0)
             d2 == Filled(d1, s, 1)
             now == FillStart(d, s)
             held == FillLength(d, s)
             from == SourceAfter(d, s)
             next == FillStart(d1, s)
             size == FillLength(d1, s)
             after == SourceAfter(d1, s)
  <1> HIDE DEF d1, now, held, from, next, size, after
  <1>1. 0 \in Halves /\ 1 \in Halves /\ 1 - 0 = 1 /\ 1 - 1 = 0 BY DEF Halves
  <1>2. d1 \in DeckType /\ now \in Nat
    <2>1. d1 \in DeckType /\ now \in Offset BY <1>1, FillType DEF d1, now
    <2>2. Offset \subseteq Nat BY OffsetIs
    <2>3. QED BY <2>1, <2>2
  <1>3. /\ d.from \in Nat /\ d.to \in Nat /\ d.source \in Nat
        /\ HalfLen \in Nat \ {0} /\ Step \in Nat \ {0}
    BY <1>1, DeckNumbers
  <1>4. /\ d1.from = d.from /\ d1.to = d.to /\ d1.source = from
        /\ d1.start[0] = now /\ d1.valid[0] = held
    BY <1>1, FilledFields DEF d1, now, held, from
  <1>5. /\ d2.from = d.from /\ d2.to = d.to /\ d2.source = after
        /\ d2.start[0] = now /\ d2.valid[0] = held
        /\ d2.start[1] = next /\ d2.valid[1] = size
    BY <1>1, <1>2, <1>4, FilledFields DEF next, size, after
  <1> HIDE DEF d2
  <1>6. held # 0 BY <1>5 DEF d1, d2
  <1>7. now < d.to
    <2>1. ~(now >= d.to) BY <1>6 DEF FillLength, held, now
    <2>2. QED BY <1>2, <1>3, <2>1
  <1>8. CASE Rewinding(s)
    <2>1. now = Greatest(d.source - Step, d.from) /\ from = now
      BY <1>8 DEF FillStart, SourceAfter, now, from
    <2>2. d.from <= now BY <1>3, <2>1 DEF Greatest
    <2>3. next = Greatest(now - Step, d.from) BY <1>4, <1>8, <2>1 DEF FillStart, next
    <2>4. next < d.to /\ next \in Nat BY <1>2, <1>3, <1>7, <2>2, <2>3, Back
    <2>5. size = 0 <=> now <= d.from
      <3>1. Least(HalfLen, d.to - next) # 0 BY <1>3, <2>4 DEF Least
      <3>2. size = IF now <= d.from THEN 0 ELSE Least(HalfLen, d.to - next)
        <4>1. ~(next >= d.to) BY <1>3, <2>4
        <4>2. QED BY <1>4, <1>8, <2>1, <4>1 DEF FillLength, size, next
      <3>3. QED BY <3>1, <3>2
    <2>6. after = next BY <1>8 DEF SourceAfter, after, next
    <2>7. QED BY <1>1, <1>5, <1>7, <1>8, <2>2, <2>3, <2>5, <2>6 DEF Laid, d1, d2
  <1>9. CASE ~Rewinding(s)
    <2>1. held = Least(HalfLen, d.to - now) BY <1>6 DEF FillLength, held, now
    <2>2. held \in Nat /\ now + held <= d.to
      <3>1. d.to - now \in Nat BY <1>2, <1>3, <1>7
      <3>2. held \in Nat /\ held <= d.to - now BY <1>3, <2>1, <3>1 DEF Least
      <3>3. QED BY <1>2, <1>3, <3>2, AddUp
    <2>3. from = IF s.active THEN Least(now + Step, d.to) ELSE now + held
      BY <1>9 DEF SourceAfter, from, now, held
    <2>4. next = from /\ next <= d.to /\ next \in Nat
      <3>1. next = from BY <1>4, <1>9 DEF FillStart, next
      <3>2. QED BY <1>2, <1>3, <2>2, <2>3, <3>1 DEF Least
    <2>5. size = Least(HalfLen, d.to - next)
      <3>1. CASE next = d.to
        <4>1. size = 0 BY <1>3, <1>4, <1>9, <2>4, <3>1 DEF FillLength, size, next
        <4>2. QED BY <1>3, <2>4, <3>1, <4>1, Holds
      <3>2. CASE next < d.to
        <4>1. ~(next >= d.to) BY <1>3, <2>4, <3>2
        <4>2. QED BY <1>4, <1>9, <4>1 DEF FillLength, size, next
      <3>3. QED BY <1>3, <2>4, <3>1, <3>2
    <2>6. after = IF s.active THEN Least(next + Step, d.to) ELSE next + size
      BY <1>4, <1>9 DEF SourceAfter, after, next, size
    <2>7. QED BY <1>1, <1>5, <1>9, <2>3, <2>4, <2>5, <2>6 DEF Laid, d1, d2
  <1>10. QED BY <1>8, <1>9

\* A quotient times its divisor is no more than the number.
LEMMA Divided ==
  ASSUME NEW n \in Nat, NEW m \in Nat \ {0}
  PROVE  n \div m \in Nat /\ m * (n \div m) <= n
  BY Z3

\* The sector of an offset of the disc lies on the disc, and is reported as it is.
LEMMA PositionSet ==
  ASSUME PlayerAssumption, NEW start \in Offset, NEW code, NEW end
  PROVE  Status(code, start \div SectorLen, end).lba = start \div SectorLen
  <1> DEFINE n == start \div SectorLen
  <1>1. SectorLen \in Nat \ {0} /\ Sectors \in Nat /\ start \in Nat /\ start <= Sectors * SectorLen
    BY DEF PlayerAssumption, Offset
  <1>2. n \in Nat /\ SectorLen * n <= start BY <1>1, Divided
  <1>3. n <= Sectors
    <2> SUFFICES ASSUME n > Sectors PROVE FALSE BY <1>1, <1>2
    <2> HIDE DEF n
    <2>1. PICK more \in Nat \ {0} : n = Sectors + more
      <3>1. n - Sectors \in Nat \ {0} /\ n = Sectors + (n - Sectors) BY <1>1, <1>2
      <3>2. QED BY <3>1
    <2> DEFINE all == Sectors * SectorLen
               part == SectorLen * n
               rest == SectorLen * more
    <2>2. part = all + rest BY <1>1, <2>1
    <2>3. rest > 0 /\ rest \in Nat /\ all \in Nat /\ part <= start /\ start <= all
      BY <1>1, <1>2, <2>1
    <2> HIDE DEF all, part, rest
    <2>4. QED BY <1>1, <2>2, <2>3
  <1> HIDE DEF n
  <1>4. Least(n, Sectors) = n BY <1>1, <1>2, <1>3 DEF Least
  <1>5. QED BY <1>4 DEF Status, n

\* A playback that begins is laid out for half 0, which it reports; or the DMA is off.
LEMMA BeginHeard ==
  ASSUME Player, NEW s \in ScanType, NEW from \in 0..Sectors, NEW to \in 0..Sectors,
         BeginPlayback(s, from, to)
  PROVE  \/ dma' = Off
         \/ /\ dma' = 0 /\ Laid(deck', scan', 0)
            /\ status'.lba = deck'.start[0] \div SectorLen
  <1> DEFINE d0 == Rewound(s, from, to)
             d1 == Filled(d0, s, 0)
             d2 == Filled(d1, s, 1)
  <1>1. PlayerAssumption /\ deck \in DeckType BY DEF Player
  <1>2. 0 \in Halves /\ 1 \in Halves BY DEF Halves
  <1>3. d0 \in DeckType BY <1>1, RewoundType
  <1>4. d2 \in DeckType
    <2> HIDE DEF d0
    <2>1. d1 \in DeckType BY <1>1, <1>2, <1>3, FillType
    <2> HIDE DEF d1
    <2>2. QED BY <1>1, <1>2, <2>1, FillType
  <1>5. \/ dma' = Off
        \/ /\ deck' = d2 /\ scan' = s /\ d2.valid[0] # 0 /\ dma' = 0
           /\ status' = Status("Playing", d2.start[0] \div SectorLen, to)
    <2> DEFINE code == Status("Completed", from, to)
               play == Status("Playing", d2.start[0] \div SectorLen, to)
               none == d2.valid[0] = 0
    <2>1. scan' = s BY DEF BeginPlayback
    <2>2. \/ deck' = d2 /\ IF none THEN status' = code /\ dma' = Off ELSE status' = play /\ dma' = 0
          \/ Failed(d0, s, 0)
          \/ Failed(d1, s, 1)
      BY Zenon DEF BeginPlayback, d0, d1, d2, code, play, none
    <2>3. CASE Failed(d0, s, 0) \/ Failed(d1, s, 1) BY <2>3 DEF Failed
    <2>4. CASE deck' = d2 /\ IF none THEN status' = code /\ dma' = Off ELSE status' = play /\ dma' = 0
      <3> HIDE DEF d0, d1, d2, code, play, none
      <3>1. dma' = Off \/ (~none /\ status' = play /\ dma' = 0) BY <2>4
      <3>2. QED BY <2>1, <2>4, <3>1 DEF none, play
    <2>5. QED BY <2>2, <2>3, <2>4
  <1>6. d2.valid[0] # 0 => Laid(d2, s, 0)
    <2> HIDE DEF d0
    <2>1. QED BY <1>1, <1>3, LaidBegin DEF d1, d2
  <1> HIDE DEF d0, d1, d2
  <1>7. d2.start[0] \in Offset BY <1>2, <1>4 DEF DeckType
  <1>8. Status("Playing", d2.start[0] \div SectorLen, to).lba = d2.start[0] \div SectorLen
    BY <1>1, <1>7, PositionSet
  <1>9. QED BY <1>5, <1>6, <1>8

\* What a control leaves: the DMA off, or all as it was, or a new playback.
LEMMA ControlHeard ==
  ASSUME Player, NEW e \in Events, e.type = "control", HandleControl(e)
  PROVE  \/ dma' = Off
         \/ UNCHANGED <<status, deck, scan, generation, dma, kept>>
         \/ /\ generation' > generation /\ dma' = 0 /\ Laid(deck', scan', 0)
            /\ status'.lba = deck'.start[0] \div SectorLen
  <1>1. e.from \in 0..Sectors /\ e.to \in 0..Sectors BY ControlEvent
  <1>2. /\ PlayerAssumption /\ status.code \in Codes /\ generation \in Nat
        /\ status.lba \in 0..Sectors /\ status.end \in 0..Sectors
    BY DEF Player, StatusType
  <1>3. NotScanning \in ScanType BY NotScanningType DEF Player
  <1> DEFINE s == [active |-> TRUE, reverse |-> e.control = "ScanBackward",
                   restore |-> status.code]
             Begins(t, from, to) ==
               /\ generation' = generation + 1 \/ generation' = generation + 2
               /\ BeginPlayback(t, from, to)
             Same == UNCHANGED <<status, deck, scan, generation, dma, kept>>
  <1>4. s \in ScanType BY <1>2 DEF ScanType
  <1>5. \/ StopOutput \/ Same
        \/ Begins(NotScanning, e.from, e.to) \/ Begins(NotScanning, status.lba, status.end)
        \/ Begins(s, e.from, e.to)
    <2> HIDE DEF s
    <2>1. CASE Play(e) BY <2>1 DEF Play
    <2>2. CASE Pause(e) BY <2>2 DEF Pause
    <2>3. CASE Resume(e) BY <2>3 DEF Resume
    <2>4. CASE Stop(e) BY <2>4 DEF Stop
    <2>5. CASE Scan(e) BY <2>5 DEF Scan, s
    <2>6. CASE ScanEnd(e) BY <2>6 DEF ScanEnd
    <2>7. CASE Seek(e) BY <2>7 DEF Seek
    <2>8. QED BY <2>1, <2>2, <2>3, <2>4, <2>5, <2>6, <2>7 DEF HandleControl
  <1> HIDE DEF s
  <1>6. ASSUME NEW t \in ScanType, NEW from \in 0..Sectors, NEW to \in 0..Sectors,
               Begins(t, from, to)
        PROVE  \/ dma' = Off
               \/ /\ generation' > generation /\ dma' = 0 /\ Laid(deck', scan', 0)
                  /\ status'.lba = deck'.start[0] \div SectorLen
    <2>1. generation' > generation BY <1>2, <1>6
    <2>2. QED BY <1>6, <2>1, BeginHeard
  <1>7. CASE StopOutput BY <1>7 DEF StopOutput
  <1>8. CASE Same BY <1>8
  <1>9. CASE Begins(NotScanning, e.from, e.to) BY <1>1, <1>3, <1>6, <1>9
  <1>10. CASE Begins(NotScanning, status.lba, status.end) BY <1>2, <1>3, <1>6, <1>10
  <1>11. CASE Begins(s, e.from, e.to) BY <1>1, <1>4, <1>6, <1>11
  <1>12. QED BY <1>5, <1>7, <1>8, <1>9, <1>10, <1>11

-----------------------------------------------------------------------------
(* The events that wait.                                                   *)

\* Without events of the playback the worker is where the DMA is.
LEMMA AlongNone ==
  ASSUME NEW q \in Seq(Events), NEW g, NEW end \in Halves,
         \A i \in 1..Len(q) : ~Current(q[i], g)
  PROVE  \E h \in [0..Len(q) -> Halves] : Along(q, g, end, h) /\ h[0] = end
  <1> DEFINE h == [i \in 0..Len(q) |-> end]
  <1>1. Len(q) \in Nat /\ 0 \in 0..Len(q) OBVIOUS
  <1>2. h \in [0..Len(q) -> Halves] /\ h[0] = end BY <1>1
  <1>3. ASSUME NEW i \in 0..Len(q)
        PROVE  /\ i > 0 => h[i] = IF Current(q[i], g) THEN 1 - h[i - 1] ELSE h[i - 1]
               /\ i > 0 /\ Current(q[i], g) => q[i].half = h[i - 1]
               /\ (\A k \in (i + 1)..Len(q) : ~Current(q[k], g)) => h[i] = end
    <2>1. h[i] = end OBVIOUS
    <2>2. i > 0 => i \in 1..Len(q) /\ i - 1 \in 0..Len(q) BY <1>1
    <2>3. i > 0 => h[i - 1] = end BY <2>2
    <2> HIDE DEF h
    <2>4. QED BY <2>1, <2>2, <2>3
  <1> HIDE DEF h
  <1>4. Along(q, g, end, h) BY <1>3 DEF Along
  <1>5. QED BY <1>2, <1>4

\* One event less.
LEMMA AlongTail ==
  ASSUME NEW q \in Seq(Events), q # <<>>, NEW g, NEW end \in Halves,
         NEW h \in [0..Len(q) -> Halves], Along(q, g, end, h)
  PROVE  /\ Current(Head(q), g) => Head(q).half = h[0]
         /\ \E k \in [0..Len(Tail(q)) -> Halves] :
              /\ Along(Tail(q), g, end, k)
              /\ k[0] = IF Current(Head(q), g) THEN 1 - h[0] ELSE h[0]
  <1> DEFINE n == Len(q)
             t == Tail(q)
             k == [i \in 0..(n - 1) |-> h[i + 1]]
  <1>1. /\ n \in Nat \ {0} /\ Len(t) = n - 1 /\ Head(q) = q[1]
        /\ \A i \in 1..(n - 1) : t[i] = q[i + 1]
    <2> DEFINE S == Events
    <2>1. q \in Seq(S) OBVIOUS
    <2> HIDE DEF S
    <2>2. QED BY <2>1
  <1>2. \A i \in 0..n : /\ i > 0 => h[i] = IF Current(q[i], g) THEN 1 - h[i - 1] ELSE h[i - 1]
                        /\ i > 0 /\ Current(q[i], g) => q[i].half = h[i - 1]
                        /\ (\A j \in (i + 1)..n : ~Current(q[j], g)) => h[i] = end
    BY DEF Along
  <1> HIDE DEF n, t
  <1>3. 1 \in 0..n /\ 0 \in 0..(n - 1) /\ \A i \in 0..(n - 1) : i + 1 \in 0..n BY <1>1
  <1>4. k \in [0..Len(t) -> Halves] BY <1>1, <1>3 DEF n
  <1>5. k[0] = h[1] BY <1>3
  <1>6. ASSUME NEW i \in 0..(n - 1)
        PROVE  /\ i > 0 => k[i] = IF Current(t[i], g) THEN 1 - k[i - 1] ELSE k[i - 1]
               /\ i > 0 /\ Current(t[i], g) => t[i].half = k[i - 1]
               /\ (\A j \in (i + 1)..(n - 1) : ~Current(t[j], g)) => k[i] = end
    <2>1. k[i] = h[i + 1] /\ i + 1 \in 0..n /\ i + 1 > 0 /\ (i + 1) - 1 = i BY <1>1, <1>3
    <2>2. i > 0 => i - 1 \in 0..(n - 1) /\ (i - 1) + 1 = i /\ t[i] = q[i + 1] BY <1>1
    <2>3. i > 0 => k[i - 1] = h[i] BY <2>2
    <2> HIDE DEF k
    <2>4. /\ i > 0 => k[i] = IF Current(t[i], g) THEN 1 - k[i - 1] ELSE k[i - 1]
          /\ i > 0 /\ Current(t[i], g) => t[i].half = k[i - 1]
      BY <1>2, <2>1, <2>2, <2>3
    <2>5. ASSUME \A j \in (i + 1)..(n - 1) : ~Current(t[j], g) PROVE k[i] = end
      <3>1. ASSUME NEW j \in ((i + 1) + 1)..n PROVE ~Current(q[j], g)
        <4>1. j - 1 \in (i + 1)..(n - 1) /\ j - 1 \in 1..(n - 1) /\ (j - 1) + 1 = j BY <1>1
        <4>2. t[j - 1] = q[j] BY <1>1, <4>1
        <4>3. QED BY <2>5, <4>1, <4>2
      <3>2. QED BY <1>2, <2>1, <3>1
    <2>6. QED BY <2>4, <2>5
  <1> HIDE DEF k
  <1>7. Along(t, g, end, k) BY <1>1, <1>6 DEF Along
  <1>8. /\ h[1] = IF Current(Head(q), g) THEN 1 - h[0] ELSE h[0]
        /\ Current(Head(q), g) => Head(q).half = h[0]
    BY <1>1, <1>2, <1>3
  <1>9. QED BY <1>4, <1>5, <1>7, <1>8 DEF t

\* One event more; it is of the playback exactly if the DMA goes on to the other half.
LEMMA AlongAppend ==
  ASSUME NEW q \in Seq(Events), NEW e \in Events, NEW g, NEW end \in Halves,
         NEW h \in [0..Len(q) -> Halves], Along(q, g, end, h), Current(e, g) => e.half = end
  PROVE  \E k \in [0..Len(Append(q, e)) -> Halves] :
           /\ Along(Append(q, e), g, IF Current(e, g) THEN 1 - end ELSE end, k)
           /\ k[0] = h[0]
  <1> DEFINE n == Len(q)
             a == Append(q, e)
             last == IF Current(e, g) THEN 1 - end ELSE end
             k == [i \in 0..(n + 1) |-> IF i <= n THEN h[i] ELSE last]
  <1>1. /\ n \in Nat /\ Len(a) = n + 1 /\ a[n + 1] = e
        /\ \A i \in 1..n : a[i] = q[i]
    <2> DEFINE S == Events
    <2>1. q \in Seq(S) /\ e \in S OBVIOUS
    <2> HIDE DEF S
    <2>2. QED BY <2>1
  <1>2. \A i \in 0..n : /\ i > 0 => h[i] = IF Current(q[i], g) THEN 1 - h[i - 1] ELSE h[i - 1]
                        /\ i > 0 /\ Current(q[i], g) => q[i].half = h[i - 1]
                        /\ (\A j \in (i + 1)..n : ~Current(q[j], g)) => h[i] = end
    BY DEF Along
  <1>3. last \in Halves BY DEF Halves
  <1> HIDE DEF n, a
  <1>4. h[n] = end
    <2>1. n \in 0..n /\ \A j \in (n + 1)..n : FALSE BY <1>1
    <2>2. QED BY <1>2, <2>1
  <1>5. k \in [0..(n + 1) -> Halves]
    <2> HIDE DEF last
    <2>1. QED BY <1>1, <1>3 DEF n
  <1>6. /\ \A i \in 0..n : k[i] = h[i]
        /\ k[n + 1] = last
    <2> HIDE DEF last
    <2>1. QED BY <1>1
  <1> HIDE DEF k
  <1>7. ASSUME NEW i \in 0..(n + 1)
        PROVE  /\ i > 0 => k[i] = IF Current(a[i], g) THEN 1 - k[i - 1] ELSE k[i - 1]
               /\ i > 0 /\ Current(a[i], g) => a[i].half = k[i - 1]
               /\ (\A j \in (i + 1)..(n + 1) : ~Current(a[j], g)) => k[i] = last
    <2>1. CASE i = n + 1
      <3>1. i - 1 = n /\ n \in 0..n /\ a[i] = e /\ k[i] = last BY <1>1, <1>6, <2>1
      <3>2. k[i - 1] = end BY <1>4, <1>6, <3>1
      <3>3. QED BY <3>1, <3>2
    <2>2. CASE i <= n
      <3>1. i \in 0..n /\ (i > 0 => i \in 1..n /\ i - 1 \in 0..n) BY <1>1, <2>2
      <3>2. k[i] = h[i] /\ (i > 0 => a[i] = q[i] /\ k[i - 1] = h[i - 1]) BY <1>1, <1>6, <3>1
      <3>3. /\ i > 0 => k[i] = IF Current(a[i], g) THEN 1 - k[i - 1] ELSE k[i - 1]
            /\ i > 0 /\ Current(a[i], g) => a[i].half = k[i - 1]
        BY <1>2, <3>1, <3>2
      <3>4. ASSUME \A j \in (i + 1)..(n + 1) : ~Current(a[j], g) PROVE k[i] = last
        <4>1. n + 1 \in (i + 1)..(n + 1) BY <1>1, <3>1
        <4>2. ~Current(e, g) BY <1>1, <3>4, <4>1
        <4>3. ASSUME NEW j \in (i + 1)..n PROVE ~Current(q[j], g)
          <5>1. j \in (i + 1)..(n + 1) /\ j \in 1..n BY <1>1, <3>1
          <5>2. QED BY <1>1, <3>4, <5>1
        <4>4. h[i] = end BY <1>2, <3>1, <4>3
        <4>5. QED BY <3>2, <4>2, <4>4
      <3>5. QED BY <3>3, <3>4
    <2>3. QED BY <1>1, <2>1, <2>2
  <1> HIDE DEF last
  <1>8. Along(a, g, last, k) BY <1>1, <1>7 DEF Along
  <1>9. 0 \in 0..n BY <1>1
  <1>10. QED BY <1>1, <1>5, <1>6, <1>8, <1>9 DEF a, last

-----------------------------------------------------------------------------
(* The steps, and what is heard.                                           *)

\* What the invariants say of the queue.
LEMMA QueueBefore ==
  ASSUME PlayerInv
  PROVE  /\ queue \in Seq(Events) /\ dma \in {Off} \cup Halves /\ Off \notin Halves
         /\ PlayerAssumption /\ deck \in DeckType /\ scan \in ScanType
  BY PlayerAssumption DEF PlayerInv, PlayerTypeOK, ScanType, Halves, Off

\* The player goes on as it did.
Same == UNCHANGED <<status, deck, scan, generation, dma, kept>>

\* An event was taken that is not of the playback, or did nothing.
LEMMA PassHeard ==
  ASSUME PlayerInv, HeardInv, queue # <<>>, queue' = Tail(queue),
         ~Current(Head(queue), generation), Same
  PROVE  HeardInv'
  <1> SUFFICES ASSUME dma # Off, kept
               PROVE  \E h \in [0..Len(queue') -> Halves] :
                        /\ Along(queue', generation, dma, h) /\ Laid(deck, scan, h[0])
                        /\ status.lba = deck.start[h[0]] \div SectorLen
    BY DEF Same, HeardInv
  <1>1. PICK h \in [0..Len(queue) -> Halves] :
          /\ Along(queue, generation, dma, h) /\ Laid(deck, scan, h[0])
          /\ status.lba = deck.start[h[0]] \div SectorLen
    BY DEF HeardInv
  <1>2. queue \in Seq(Events) /\ dma \in Halves BY QueueBefore
  <1>3. PICK k \in [0..Len(Tail(queue)) -> Halves] :
          Along(Tail(queue), generation, dma, k) /\ k[0] = h[0]
    BY <1>1, <1>2, AlongTail
  <1>4. QED BY <1>1, <1>3

\* An event was put that is not the DMA's.
LEMMA PutHeard ==
  ASSUME PlayerInv, HeardInv, NEW e \in Events, e.type # "dma", queue' = Append(queue, e), Same
  PROVE  HeardInv'
  <1> SUFFICES ASSUME dma # Off, kept
               PROVE  \E h \in [0..Len(queue') -> Halves] :
                        /\ Along(queue', generation, dma, h) /\ Laid(deck, scan, h[0])
                        /\ status.lba = deck.start[h[0]] \div SectorLen
    BY DEF Same, HeardInv
  <1>1. PICK h \in [0..Len(queue) -> Halves] :
          /\ Along(queue, generation, dma, h) /\ Laid(deck, scan, h[0])
          /\ status.lba = deck.start[h[0]] \div SectorLen
    BY DEF HeardInv
  <1>2. queue \in Seq(Events) /\ dma \in Halves /\ ~Current(e, generation)
    BY QueueBefore DEF Current
  <1>3. PICK k \in [0..Len(Append(queue, e)) -> Halves] :
          /\ Along(Append(queue, e), generation, IF Current(e, generation) THEN 1 - dma ELSE dma, k)
          /\ k[0] = h[0]
    BY <1>1, <1>2, AlongAppend
  <1>4. QED BY <1>1, <1>2, <1>3

\* The DMA reports its half and plays the other one.
LEMMA HalfHeard ==
  ASSUME PlayerInv, HeardInv, HalfPlayed
  PROVE  HeardInv'
  <1> DEFINE e == [type |-> "dma", half |-> dma, generation |-> generation]
  <1> SUFFICES ASSUME kept'
               PROVE  \E h \in [0..Len(queue') -> Halves] :
                        /\ Along(queue', generation, dma', h) /\ Laid(deck, scan, h[0])
                        /\ status.lba = deck.start[h[0]] \div SectorLen
    BY DEF HalfPlayed, HeardInv
  <1>1. /\ dma # Off /\ dma' = 1 - dma /\ kept /\ queue' = Append(queue, e)
        /\ generation \in Nat
    BY DEF HalfPlayed, PlayerInv, PlayerTypeOK
  <1>2. PICK h \in [0..Len(queue) -> Halves] :
          /\ Along(queue, generation, dma, h) /\ Laid(deck, scan, h[0])
          /\ status.lba = deck.start[h[0]] \div SectorLen
    BY <1>1 DEF HeardInv
  <1>3. queue \in Seq(Events) /\ dma \in Halves BY <1>1, QueueBefore
  <1>4. e \in Events /\ Current(e, generation) /\ e.half = dma BY <1>1, <1>3 DEF Events, Current
  <1> HIDE DEF e
  <1>5. PICK k \in [0..Len(Append(queue, e)) -> Halves] :
          /\ Along(Append(queue, e), generation, IF Current(e, generation) THEN 1 - dma ELSE dma, k)
          /\ k[0] = h[0]
    BY <1>2, <1>3, <1>4, AlongAppend
  <1>6. QED BY <1>1, <1>2, <1>4, <1>5

\* A control: what it begins is a playback of its own, of which no event waits.
LEMMA ControlTaken ==
  ASSUME PlayerInv, HeardInv, TakeControl
  PROVE  HeardInv'
  <1> DEFINE e == Head(queue)
  <1>1. Take("control") /\ HandleControl(e) BY DEF TakeControl
  <1>2. /\ thread = "running" /\ queue # <<>> /\ e.type = "control"
        /\ queue \in Seq(Events) /\ queue' = Tail(queue) /\ generation \in Nat
    BY <1>1 DEF Take, PlayerInv, PlayerTypeOK
  <1>3. Player BY <1>2, PlayerBefore
  <1>4. e \in Events BY <1>2, TailQueue
  <1>5. ~Current(e, generation) BY <1>2 DEF Current
  <1> HIDE DEF e
  <1>6. \/ dma' = Off
        \/ UNCHANGED <<status, deck, scan, generation, dma, kept>>
        \/ /\ generation' > generation /\ dma' = 0 /\ Laid(deck', scan', 0)
           /\ status'.lba = deck'.start[0] \div SectorLen
    BY <1>2, <1>3, <1>4, <1>1, ControlHeard
  <1>7. CASE dma' = Off BY <1>7 DEF HeardInv
  <1>8. CASE UNCHANGED <<status, deck, scan, generation, dma, kept>>
    BY <1>2, <1>5, <1>8, PassHeard DEF Same, e
  <1>9. CASE /\ generation' > generation /\ dma' = 0 /\ Laid(deck', scan', 0)
             /\ status'.lba = deck'.start[0] \div SectorLen
    <2>1. generation' \in Nat
      <3>1. Handled BY <1>1, <1>2, <1>3, <1>4, ControlStep
      <3>2. QED BY <3>1 DEF Handled
    <2>2. /\ queue' \in Seq(Events)
          /\ \A i \in 1..Len(queue') : i + 1 \in 1..Len(queue) /\ queue'[i] = queue[i + 1]
      BY <1>2, TailQueue
    <2>3. ASSUME NEW i \in 1..Len(queue') PROVE ~Current(queue'[i], generation')
      <3>1. i + 1 \in 1..Len(queue) /\ queue'[i] = queue[i + 1] BY <2>2
      <3>2. queue[i + 1].type = "dma" => queue[i + 1].generation <= generation
        BY <1>2, <3>1 DEF PlayerInv, EventsCurrent
      <3>3. queue[i + 1] \in Events BY <1>2, <3>1
      <3>4. queue[i + 1].type = "dma" => queue[i + 1].generation \in Nat BY <3>3 DEF Events
      <3>5. QED BY <1>2, <1>9, <2>1, <3>1, <3>2, <3>4 DEF Current
    <2>4. 0 \in Halves BY DEF Halves
    <2>5. PICK h \in [0..Len(queue') -> Halves] : Along(queue', generation', 0, h) /\ h[0] = 0
      BY <2>2, <2>3, <2>4, AlongNone
    <2>6. QED BY <1>9, <2>5 DEF HeardInv
  <1>10. QED BY <1>6, <1>7, <1>8, <1>9

\* A report of the DMA: the worker reports the half that plays and lays out what follows.
LEMMA DmaTaken ==
  ASSUME PlayerInv, HeardInv, TakeDma
  PROVE  HeardInv'
  <1> DEFINE e == Head(queue)
  <1>1. Take("dma") /\ HandleDma(e) /\ UNCHANGED <<scan, kept>> BY DEF TakeDma
  <1>2. /\ queue # <<>> /\ e.type = "dma" /\ queue \in Seq(Events) /\ queue' = Tail(queue)
    BY <1>1 DEF Take, PlayerInv, PlayerTypeOK
  <1>3. CASE IsStale(e)
    <2>1. ~Current(e, generation) BY <1>3 DEF IsStale, Current
    <2>2. Same BY <1>1, <1>3 DEF HandleDma, Same
    <2>3. QED BY <1>2, <2>1, <2>2, PassHeard
  <1>4. CASE ~IsStale(e)
    <2>1. Current(e, generation) BY <1>2, <1>4 DEF IsStale, Current
    <2>2. SUFFICES ASSUME dma' # Off, kept PROVE HeardInv' BY <1>1 DEF HeardInv
    <2>3. /\ deck.valid[1 - e.half] # 0 /\ deck' = Filled(deck, scan, e.half)
          /\ status' = Status("Playing", deck.start[1 - e.half] \div SectorLen, deck.to \div SectorLen)
          /\ UNCHANGED <<generation, dma>>
      <3> HIDE DEF e
      <3>1. CASE deck.valid[1 - e.half] = 0
        BY <1>1, <1>4, <2>2, <3>1 DEF HandleDma, PlayingHalf, StopOutput
      <3>2. CASE Failed(deck, scan, e.half) BY <2>2, <3>2 DEF Failed
      <3>3. QED BY <1>1, <1>4, <3>1, <3>2 DEF HandleDma, PlayingHalf
    <2>4. dma # Off /\ dma \in Halves BY <2>2, <2>3, QueueBefore
    <2>5. PICK h \in [0..Len(queue) -> Halves] :
            Along(queue, generation, dma, h) /\ Laid(deck, scan, h[0])
      BY <2>2, <2>4 DEF HeardInv
    <2>6. /\ e.half = h[0]
          /\ \E k \in [0..Len(queue') -> Halves] : Along(queue', generation, dma, k) /\ k[0] = 1 - h[0]
      BY <1>2, <2>1, <2>4, <2>5, AlongTail
    <2>7. PICK k \in [0..Len(queue') -> Halves] : Along(queue', generation, dma, k) /\ k[0] = 1 - h[0]
      BY <2>6
    <2> DEFINE c == h[0]
    <2>8. c \in Halves /\ 1 - c \in Halves
      <3>1. Len(queue) \in Nat BY <1>2
      <3>2. QED BY <3>1 DEF Halves
    <2>9. Laid(deck', scan', 1 - c)
      BY <1>1, <2>3, <2>5, <2>6, <2>8, QueueBefore, LaidFill
    <2>10. deck'.start[1 - c] = deck.start[1 - c] /\ deck.start[1 - c] \in Offset
      <3>1. deck' = Filled(deck, scan, c) BY <2>3, <2>6
      <3>2. deck \in DeckType BY QueueBefore
      <3> HIDE DEF c, e
      <3>3. Filled(deck, scan, c).start[1 - c] = deck.start[1 - c]
        BY <2>8, <3>2, FilledFields
      <3>4. deck.start[1 - c] \in Offset BY <2>8, <3>2 DEF DeckType
      <3>5. QED BY <3>1, <3>3, <3>4
    <2>11. status'.lba = deck.start[1 - c] \div SectorLen
      BY <2>3, <2>6, <2>10, QueueBefore, PositionSet
    <2> HIDE DEF c, e
    <2>12. k[0] = 1 - c BY <2>7 DEF c
    <2>13. QED BY <2>3, <2>7, <2>9, <2>10, <2>11, <2>12 DEF HeardInv
  <1>5. QED BY <1>3, <1>4

\* Every step of the player itself.
LEMMA PlayerHeard ==
  ASSUME PlayerInv, HeardInv, PlayerNext
  PROVE  HeardInv'
  <1>1. CASE OutputFails
    <2>1. dma' = dma /\ ~outputReady /\ thread = "running" BY <1>1 DEF OutputFails, Take
    <2>2. dma' = Off BY <2>1, PlayerBefore DEF Player
    <2>3. QED BY <2>2 DEF HeardInv
  <1>2. CASE WorkerExits
    <2>1. dma' = (IF outputReady THEN Off ELSE dma) /\ thread = "running"
      BY <1>2 DEF WorkerExits, Take
    <2>2. dma' = Off BY <2>1, PlayerBefore DEF Player
    <2>3. QED BY <2>2 DEF HeardInv
  <1>3. CASE BeginFree \/ Joined
    <2>1. queue' = queue /\ Same BY <1>3 DEF BeginFree, Joined, Same
    <2>2. QED BY <2>1 DEF HeardInv, Same
  <1>4. CASE PostExit
    <2> DEFINE e == [type |-> "exit"]
    <2>1. queue' = Append(queue, e) /\ Same BY <1>4 DEF PostExit, Same
    <2>2. e \in Events /\ e.type # "dma" BY DEF Events
    <2> HIDE DEF e
    <2>3. QED BY <2>1, <2>2, PutHeard
  <1>5. QED BY <1>1, <1>2, <1>3, <1>4, ControlTaken, DmaTaken, HalfHeard DEF PlayerNext, Worker

\* A control that is called.
LEMMA CallHeard ==
  ASSUME PlayerInv, HeardInv, NEW control \in Controls, NEW from \in Nat, NEW to \in Nat,
         Control(control, from, to)
  PROVE  HeardInv'
  <1> DEFINE e == [type |-> "control", control |-> control, from |-> from, to |-> to]
  <1>1. CASE UNCHANGED playerVars
    BY <1>1 DEF playerVars, HeardInv
  <1>2. CASE thread = "none" /\ UNCHANGED dma
    <2>1. dma' = Off BY <1>2 DEF PlayerInv, NotStarted
    <2>2. QED BY <2>1 DEF HeardInv
  <1>3. CASE InRange(control, from, to) /\ queue' = Append(queue, e) /\ Same
    <2>1. from \in 0..Sectors /\ to \in 0..Sectors
      BY <1>3, PlayerAssumption DEF InRange, PlayerAssumption
    <2>2. e \in Events /\ e.type # "dma" BY <2>1 DEF Events
    <2> HIDE DEF e
    <2>3. QED BY <1>3, <2>2, PutHeard
  <1>4. QED BY <1>1, <1>2, <1>3 DEF Control, Same

-----------------------------------------------------------------------------
(* The callers, and the theorems.                                          *)

\* A key calls the player once, or leaves it alone.
LEMMA KeyCalls ==
  ASSUME IInv, NEW key \in Keys, Key(key)
  PROVE  \/ UNCHANGED playerVars
         \/ \E c \in Controls, from \in Nat, to \in Nat : Control(c, from, to)
  <1>1. /\ PlayerInv /\ KeysType
        /\ selected \in 1..Len(Tracks) /\ leftTrack \in 1..Len(Tracks)
    BY DEF IInv, KeysType
  <1>2. /\ \A i \in 1..Len(Tracks) : Tracks[i] \in Nat
        /\ Sectors \in Nat /\ Len(Tracks) \in Nat /\ ScanFrom \in Nat
        /\ {"Play", "Pause", "Resume", "Stop", "ScanEnd", "Seek"} \cup Scans \subseteq Controls
    BY <1>1, CallersRead
  <1>3. CASE PlayPause
    <2>1. \/ Control("Pause", 0, 0) \/ Control("Resume", 0, 0)
          \/ Control("Play", Tracks[selected], Sectors)
      BY <1>3 DEF PlayPause
    <2>2. QED BY <1>1, <1>2, <2>1
  <1>4. CASE StopKey BY <1>2, <1>4 DEF StopKey
  <1>5. CASE Previous
    <2>1. Greatest(leftTrack - 1, 1) \in 1..Len(Tracks) BY <1>1, <1>2 DEF Greatest
    <2>2. PICK target \in {Greatest(leftTrack - 1, 1), selected} :
            Control("Seek", Tracks[target], Sectors)
      BY <1>5, Zenon DEF Previous
    <2>3. target \in 1..Len(Tracks) BY <1>1, <2>1
    <2>4. QED BY <1>2, <2>2, <2>3
  <1>6. CASE NextKey
    <2>1. CASE selected < Len(Tracks)
      <3>1. Control("Seek", Tracks[selected + 1], Sectors) BY <1>6, <2>1 DEF NextKey
      <3>2. selected + 1 \in 1..Len(Tracks) BY <1>1, <1>2, <2>1
      <3>3. QED BY <1>2, <3>1, <3>2
    <2>2. CASE ~(selected < Len(Tracks)) BY <1>6, <2>2 DEF NextKey
    <2>3. QED BY <2>1, <2>2
  <1>7. CASE key \in Scans /\ ScanKey(key) BY <1>2, <1>7 DEF ScanKey
  <1>8. CASE ScanRelease BY <1>2, <1>8 DEF ScanRelease
  <1>9. QED BY <1>3, <1>4, <1>5, <1>6, <1>7, <1>8 DEF Key

\* So does a command of the host.
LEMMA HostCalls ==
  ASSUME IInv, NEW control \in HostCommands, HostCommand(control)
  PROVE  \E c \in Controls, from \in Nat, to \in Nat : Control(c, from, to)
  <1>1. /\ \A i \in 1..Len(Tracks) : Tracks[i] \in Nat
        /\ Sectors \in Nat /\ Len(Tracks) \in Nat /\ status.lba \in Nat
        /\ HostLbas \subseteq Nat
        /\ {"Play", "Pause", "Resume", "Stop", "ScanEnd", "Seek"} \cup Scans \subseteq Controls
    BY CallersRead DEF IInv
  <1>2. CASE HostPlay BY <1>1, <1>2 DEF HostPlay, PlayRange
  <1>3. CASE HostPlayTracks
    <2>1. PICK first \in 1..Len(Tracks) : \E last \in first..Len(Tracks) :
            PlayRange(Tracks[first], IF last < Len(Tracks) THEN Tracks[last + 1] ELSE Sectors)
      BY <1>3 DEF HostPlayTracks
    <2>2. PICK last \in first..Len(Tracks) :
            PlayRange(Tracks[first], IF last < Len(Tracks) THEN Tracks[last + 1] ELSE Sectors)
      BY <2>1
    <2>3. Tracks[first] \in Nat BY <1>1
    <2>4. CASE last < Len(Tracks)
      <3>1. last + 1 \in 1..Len(Tracks) BY <1>1, <2>4
      <3>2. Tracks[last + 1] \in Nat BY <1>1, <3>1
      <3>3. Control("Play", Tracks[first], Tracks[last + 1]) BY <2>2, <2>4 DEF PlayRange
      <3>4. QED BY <1>1, <2>3, <3>2, <3>3
    <2>5. CASE ~(last < Len(Tracks))
      <3>1. Control("Play", Tracks[first], Sectors) BY <2>2, <2>5 DEF PlayRange
      <3>2. QED BY <1>1, <2>3, <3>1
    <2>6. QED BY <2>4, <2>5
  <1>4. CASE control \in {"Pause", "Resume"} /\ HostPause(control)
    BY <1>1, <1>4 DEF HostPause
  <1>5. CASE HostStop BY <1>1, <1>5 DEF HostStop
  <1>6. CASE HostSeek BY <1>1, <1>6 DEF HostSeek
  <1>7. CASE control \in Scans /\ HostScan(control) BY <1>1, <1>7 DEF HostScan
  <1>8. QED BY <1>2, <1>3, <1>4, <1>5, <1>6, <1>7 DEF HostCommand

\* What a step is to the player.
LEMMA StepIs ==
  ASSUME IInv, [Next]_vars
  PROVE  \/ PlayerNext
         \/ UNCHANGED playerVars
         \/ \E c \in Controls, from \in Nat, to \in Nat : Control(c, from, to)
  <1>1. CASE Tick BY <1>1 DEF Tick
  <1>2. CASE UNCHANGED vars BY <1>2 DEF vars, playerVars
  <1>3. QED BY <1>1, <1>2, KeyCalls, HostCalls DEF Next

\* Every step keeps what is heard.
LEMMA HeardStep == IInv /\ HeardInv /\ [Next]_vars => HeardInv'
  <1> SUFFICES ASSUME IInv, HeardInv, [Next]_vars PROVE HeardInv'
    OBVIOUS
  <1>1. PlayerInv BY DEF IInv
  <1>2. CASE PlayerNext BY <1>1, <1>2, PlayerHeard
  <1>3. CASE UNCHANGED playerVars BY <1>3 DEF playerVars, HeardInv
  <1>4. CASE \E c \in Controls, from \in Nat, to \in Nat : Control(c, from, to)
    BY <1>1, <1>4, CallHeard
  <1>5. QED BY <1>2, <1>3, <1>4, StepIs

\* The DMA is off at first.
LEMMA HeardInit == Init => HeardInv
  BY DEF Init, PlayerInit, HeardInv

\* The player is always laid out for what is heard: the inductive invariant of the
\* theorems below.
THEOREM Heard == Spec => [](IInv /\ HeardInv)
  BY InitInv, HeardInit, Inductive, HeardStep, PTL DEF Spec

\* With no event to come the worker is where the DMA is.
LEMMA SettledAt ==
  ASSUME PlayerInv, HeardInv, Settled
  PROVE  Laid(deck, scan, dma) /\ status.lba = deck.start[dma] \div SectorLen
  <1>1. dma # Off /\ kept /\ queue \in Seq(Events) BY QueueBefore DEF Settled
  <1>2. PICK h \in [0..Len(queue) -> Halves] :
          /\ Along(queue, generation, dma, h) /\ Laid(deck, scan, h[0])
          /\ status.lba = deck.start[h[0]] \div SectorLen
    BY <1>1 DEF HeardInv
  <1>3. \A k \in (0 + 1)..Len(queue) : ~Current(queue[k], generation)
    BY DEF Settled, Unseen, Current
  <1>4. 0 \in 0..Len(queue) BY <1>1
  <1>5. h[0] = dma BY <1>2, <1>3, <1>4 DEF Along
  <1>6. QED BY <1>2, <1>5

\* audio_cd_handle_dma and audio_cd_fill_half: while no event was dropped and none
\* waits, the half that plays next holds what follows the half that plays, at speed or
\* a scan step on or back, for every order of events, seeks and scans.
THEOREM NoGap == Spec => []Gapless
  <1>1. IInv /\ HeardInv => Gapless
    <2> SUFFICES ASSUME IInv, HeardInv, Settled
                 PROVE  LET now  == deck.start[dma]
                            next == deck.start[1 - dma]
                            size == deck.valid[1 - dma]
                        IN  IF Rewinding(scan)
                            THEN /\ next = Greatest(now - Step, deck.from)
                                 /\ (size = 0 <=> now <= deck.from)
                            ELSE /\ next = IF scan.active THEN Least(now + Step, deck.to)
                                           ELSE now + deck.valid[dma]
                                 /\ size = Least(HalfLen, deck.to - next)
      BY DEF Gapless
    <2>1. Laid(deck, scan, dma) BY SettledAt DEF IInv
    <2>2. QED BY <2>1 DEF Laid
  <1>2. QED BY <1>1, Heard, PTL

\* audio_cd_handle_dma: the position reported, from which a pause resumes, is that of
\* the half being heard once the worker has seen every event.
THEOREM PositionIsHeard == Spec => []PositionHeard
  <1>1. IInv /\ HeardInv => PositionHeard BY SettledAt DEF IInv, PositionHeard
  <1>2. QED BY <1>1, Heard, PTL

\* A report of the DMA completes a playback only at the end of its range.
LEMMA CompletesDma ==
  ASSUME PlayerInv, HeardInv, TakeDma, ~scan.active, kept,
         status.code = "Playing", status'.code = "Completed"
  PROVE  deck.start[Head(queue).half] + deck.valid[Head(queue).half] = deck.to
  <1> DEFINE e == Head(queue)
  <1>1. Take("dma") /\ HandleDma(e) BY DEF TakeDma
  <1>2. /\ thread = "running" /\ queue # <<>> /\ e.type = "dma" /\ queue \in Seq(Events)
    BY <1>1 DEF Take, PlayerInv, PlayerTypeOK
  <1>3. dma # Off /\ dma \in Halves BY <1>2, QueueBefore DEF PlayerInv, OutputFollowsStatus
  <1>4. ~IsStale(e) BY <1>1 DEF HandleDma
  <1>5. Current(e, generation) BY <1>2, <1>4 DEF IsStale, Current
  <1> HIDE DEF e
  <1>6. deck.valid[1 - e.half] = 0
    <2>1. CASE status' = Status("Playing", deck.start[1 - e.half] \div SectorLen,
                                deck.to \div SectorLen)
      BY <2>1 DEF Status
    <2>2. CASE Failed(deck, scan, e.half) BY <2>2 DEF Failed, Status
    <2>3. QED BY <1>1, <1>4, <2>1, <2>2 DEF HandleDma, PlayingHalf
  <1>7. PICK h \in [0..Len(queue) -> Halves] :
          Along(queue, generation, dma, h) /\ Laid(deck, scan, h[0])
    BY <1>3 DEF HeardInv
  <1>8. e.half = h[0] BY <1>2, <1>3, <1>5, <1>7, AlongTail DEF e
  <1>9. h[0] \in Halves /\ 1 - h[0] \in Halves
    <2>1. 0 \in 0..Len(queue) BY <1>2
    <2>2. h[0] \in Halves BY <2>1
    <2>3. QED BY <2>2 DEF Halves
  <1> DEFINE next == deck.start[1 - h[0]]
  <1>10. /\ next = deck.start[h[0]] + deck.valid[h[0]]
         /\ deck.valid[1 - h[0]] = Least(HalfLen, deck.to - next) /\ next <= deck.to
    BY <1>7 DEF Laid, Rewinding
  <1>11. next \in Nat /\ deck.to \in Nat /\ HalfLen \in Nat \ {0}
    BY <1>9, QueueBefore, DeckNumbers
  <1> HIDE DEF next
  <1>12. next = deck.to
    <2>1. Least(HalfLen, deck.to - next) = 0 BY <1>6, <1>8, <1>10
    <2>2. QED BY <1>10, <1>11, <2>1, Holds
  <1>13. QED BY <1>8, <1>10, <1>12 DEF e

\* audio_cd_handle_dma: playback reports its completion only after the last unit of
\* the range was handed to the DMA.
THEOREM CompletesAtEnd == Spec => CompletedAtEnd
  <1> DEFINE AtEnd ==
        status.code = "Playing" /\ status'.code = "Completed" /\ ~scan.active /\ kept
          /\ Head(queue).type = "dma"
        => deck.start[Head(queue).half] + deck.valid[Head(queue).half] = deck.to
  <1>1. IInv /\ HeardInv /\ [Next]_vars => AtEnd
    <2> SUFFICES ASSUME IInv, HeardInv, [Next]_vars, status.code = "Playing",
                        status'.code = "Completed", ~scan.active, kept,
                        Head(queue).type = "dma"
                 PROVE  deck.start[Head(queue).half] + deck.valid[Head(queue).half] = deck.to
      OBVIOUS
    <2>1. PlayerInv BY DEF IInv
    <2>2. status' # status OBVIOUS
    <2>3. ~UNCHANGED playerVars BY <2>2 DEF playerVars
    <2>4. ASSUME NEW c \in Controls, NEW from \in Nat, NEW to \in Nat, Control(c, from, to)
          PROVE  FALSE
      <3>1. \/ UNCHANGED playerVars
            \/ status' = [code |-> "Error", lba |-> status.lba, end |-> status.end]
            \/ UNCHANGED status
        BY <2>4 DEF Control
      <3>2. QED BY <2>2, <2>3, <3>1
    <2>5. PlayerNext BY <2>3, <2>4, StepIs
    <2>6. ~OutputFails /\ ~TakeControl BY DEF OutputFails, TakeControl, Take
    <2>7. ~WorkerExits /\ ~HalfPlayed /\ ~BeginFree /\ ~PostExit /\ ~Joined
      BY <2>2 DEF WorkerExits, HalfPlayed, BeginFree, PostExit, Joined
    <2>8. TakeDma BY <2>5, <2>6, <2>7 DEF PlayerNext, Worker
    <2>9. QED BY <2>1, <2>8, CompletesDma
  <1>2. QED BY <1>1, Heard, PTL DEF CompletedAtEnd, Spec
=============================================================================
