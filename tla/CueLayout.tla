------------------------------- MODULE CueLayout -------------------------------
(***************************************************************************)
(* How helpers/audio_cd.c turns a CUE sheet and its BIN file into a disc:  *)
(* the parser, one action per line that it does not skip, the layout it    *)
(* computes when the sheet ends, and the reads of that disc.               *)
(*                                                                         *)
(* Broken variants, named Bad..., precede the definition they break.       *)
(* Everything is counted in sectors of 2352 bytes.  Track numbers start at *)
(* 1, as in the sheet.  FLAGS, which only change how samples are processed *)
(* and reported, and the spelling of lines are left out.                   *)
(***************************************************************************)
EXTENDS Integers, Sequences, FiniteSetsExt

CONSTANTS MaxTracks,   \* AUDIO_CD_MAX_TRACKS
          Addresses,   \* sector addresses an INDEX line may name
          Pregaps,     \* lengths a PREGAP or POSTGAP line may name
          Sizes        \* sectors of the BIN file; 0 if that is no whole number or it cannot be opened

ASSUME CueAssumption ==
  /\ MaxTracks \in Nat \ {0}
  /\ Addresses \subseteq Nat /\ Pregaps \subseteq Nat /\ Sizes \subseteq Nat

VARIABLES phase,        \* "parse", "ready": audio_cd_alloc succeeded, "rejected"
          fileSeen,     \* the FILE line was read
          tracks,       \* AudioCdTrack of the file: [index0, index1, pregap]
          fileSectors   \* size of the BIN file, once it is open

vars == <<phase, fileSeen, tracks, fileSectors>>

None == -1                 \* has_file_index0, has_file_index1 are FALSE
NewTrack == [index0 |-> None, index1 |-> None, pregap |-> 0]
Current == Len(tracks)     \* current_track

Init == phase = "parse" /\ fileSeen = FALSE /\ tracks = <<>> /\ fileSectors = 0

-----------------------------------------------------------------------------
(* The layout, from the parsed tracks.                                     *)

FirstFileSector == tracks[1].index1

\* Tracks before which silence is inserted: the first one's PREGAP is ignored
Padded == {i \in 2..Current : tracks[i].pregap > 0}

\* Silence inserted up to and with the one before track i
Inserted(i) == MapThenSumSet(LAMBDA j : tracks[j].pregap, {j \in Padded : j <= i})

\* disc_index1 and disc_index0
DiscIndex1(i) == tracks[i].index1 - FirstFileSector + Inserted(i)

DiscIndex0(i) ==
  IF i \in Padded THEN DiscIndex1(i) - tracks[i].pregap
  ELSE IF i > 1 /\ tracks[i].index0 # None
       THEN tracks[i].index0 - FirstFileSector + Inserted(i)
       ELSE DiscIndex1(i)

Sectors == fileSectors - FirstFileSector + Inserted(Current)

\* audio_cd_parse_cue, after the last line: the order of the indexes
IndexesValid ==
  /\ fileSeen /\ Current > 0
  /\ \A i \in 1..Current :
       LET t == tracks[i]
           boundary == IF t.index0 # None THEN t.index0 ELSE t.index1
       IN /\ t.index1 # None /\ t.index0 <= t.index1
          /\ i > 1 => t.index1 > tracks[i - 1].index1 /\ boundary > tracks[i - 1].index1

\* audio_cd_build_layout: every index lies in the BIN file
InsideFile(size) ==
  /\ FirstFileSector < size
  /\ \A i \in 1..Current :
       /\ tracks[i].index1 < size /\ tracks[i].index1 >= FirstFileSector
       /\ tracks[i].index0 # None => tracks[i].index0 >= FirstFileSector

-----------------------------------------------------------------------------
(* The parser.                                                             *)

Reject == phase' = "rejected" /\ UNCHANGED <<fileSeen, tracks, fileSectors>>

\* The line is accepted: the current track is `t' now
Keep(t) == /\ tracks' = [tracks EXCEPT ![Current] = t]
           /\ UNCHANGED <<phase, fileSeen, fileSectors>>

\* The sheet, or a line of it, cannot be read or parsed
Malformed == phase = "parse" /\ Reject

FileLine ==
  /\ phase = "parse"
  /\ IF fileSeen THEN Reject
     ELSE fileSeen' = TRUE /\ UNCHANGED <<phase, tracks, fileSectors>>

NextNumber(number) == number = Current + 1 /\ number <= MaxTracks

TrackLine(number) ==
  /\ phase = "parse"
  /\ IF fileSeen /\ NextNumber(number)
     THEN tracks' = Append(tracks, NewTrack) /\ UNCHANGED <<phase, fileSeen, fileSectors>>
     ELSE Reject

Index0Line(sector) ==
  /\ phase = "parse"
  /\ IF Current > 0 /\ tracks[Current].index0 = None /\ tracks[Current].pregap = 0
     THEN Keep([tracks[Current] EXCEPT !.index0 = sector])
     ELSE Reject

Index1Line(sector) ==
  /\ phase = "parse"
  /\ IF Current > 0 /\ tracks[Current].index1 = None
     THEN Keep([tracks[Current] EXCEPT !.index1 = sector])
     ELSE Reject

\* PREGAP 00:00:00 leaves has_pregap FALSE
PregapLine(length) ==
  /\ phase = "parse"
  /\ IF Current > 0 /\ tracks[Current].pregap = 0 /\ tracks[Current].index0 = None
     THEN Keep([tracks[Current] EXCEPT !.pregap = length])
     ELSE Reject

PostgapLine(length) == phase = "parse" /\ length # 0 /\ Reject

\* The sheet ends: the indexes are checked, the BIN file opened, the layout built
SheetEnds ==
  /\ phase = "parse"
  /\ UNCHANGED <<fileSeen, tracks>>
  /\ IF ~IndexesValid THEN phase' = "rejected" /\ UNCHANGED fileSectors
     ELSE \E size \in Sizes :
            /\ fileSectors' = size
            /\ phase' = IF size > 0 /\ InsideFile(size) THEN "ready" ELSE "rejected"

Next ==
  \/ Malformed \/ FileLine \/ SheetEnds
  \/ \E number \in 1..(MaxTracks + 1) : TrackLine(number)
  \/ \E sector \in Addresses : Index0Line(sector) \/ Index1Line(sector)
  \/ \E length \in Pregaps : PregapLine(length) \/ PostgapLine(length)

Spec == Init /\ [][Next]_vars

-----------------------------------------------------------------------------
(* Reading the disc.                                                       *)

\* The silence passed is not taken off the file position
BadPassed(offset) == {}

\* Padded tracks whose silence ends at or before the offset
Passed(offset) == {i \in Padded : offset >= DiscIndex1(i)}

\* audio_cd_locate: where the sector at `offset' comes from, and how many follow it
\* there; file = None for silence
Locate(offset) ==
  LET ahead == {i \in Padded : offset < DiscIndex1(i)}
      next  == Min(ahead)
      inserted == MapThenSumSet(LAMBDA i : DiscIndex1(i) - DiscIndex0(i), Passed(offset))
      file  == FirstFileSector + offset - inserted
  IN  IF ahead = {} THEN [file |-> file, available |-> Sectors - offset]
      ELSE IF offset < DiscIndex0(next)
           THEN [file |-> file, available |-> DiscIndex0(next) - offset]
           ELSE [file |-> None, available |-> DiscIndex1(next) - offset]

\* audio_cd_read_bytes: the sectors read from `offset' to `end', chunk by chunk
Read(offset, end) ==
  LET sectors[o \in offset..end] ==
        IF o = end THEN <<>>
        ELSE LET at == Locate(o)
                 chunk == IF at.available < end - o THEN at.available ELSE end - o
             IN [k \in 1..chunk |-> IF at.file = None THEN None ELSE at.file + k - 1]
                  \o sectors[o + chunk]
  IN sectors[offset]

\* audio_cd_track_info
EndLba(i) == IF i < Current THEN DiscIndex0(i + 1) ELSE Sectors

\* Tracks are told apart by INDEX 01
BadTrackAtLba(lba) == Max({1} \cup {i \in 1..Current : lba >= DiscIndex1(i)})

\* audio_cd_track_at_lba
TrackAtLba(lba) == Max({1} \cup {i \in 1..Current : lba >= DiscIndex0(i)})

-----------------------------------------------------------------------------
(* Properties.                                                             *)

\* Types of the parser's state.
TypeOK ==
  /\ phase \in {"parse", "ready", "rejected"} /\ fileSeen \in BOOLEAN
  /\ tracks \in Seq([index0 : Addresses \cup {None}, index1 : Addresses \cup {None},
                     pregap : Pregaps \cup {0}])
  /\ Len(tracks) <= MaxTracks /\ fileSectors \in Nat

\* The disc as the sheet describes it: the sectors of the file in order, with the
\* silence of a PREGAP before the sector of its INDEX 01
Described ==
  LET Silence(f) == MapThenSumSet(LAMBDA i : tracks[i].pregap,
                                  {i \in Padded : tracks[i].index1 = f})
      disc[f \in FirstFileSector..fileSectors] ==
        IF f = fileSectors THEN <<>>
        ELSE [k \in 1..Silence(f) |-> None] \o <<f>> \o disc[f + 1]
  IN  disc[FirstFileSector]

\* Every read, wherever it starts and ends, returns what the sheet describes:
\* each sector of the file once and in order, silence only in the pregaps, and no
\* chunk that runs over a boundary.
ReadsDescribed ==
  phase = "ready" =>
    /\ Sectors = Len(Described)
    /\ \A from \in 0..Sectors : \A to \in from..Sectors :
         Read(from, to) = SubSeq(Described, from + 1, to)

\* The tracks cover the disc without a gap or an overlap, each starts at its own
\* INDEX 01, and the track and index reported for a position are those of the one
\* track it lies in.
TracksTile ==
  phase = "ready" =>
    /\ DiscIndex0(1) = 0
    /\ \A i \in 1..Current :
         /\ DiscIndex0(i) <= DiscIndex1(i) /\ DiscIndex1(i) < EndLba(i)
         /\ Described[DiscIndex1(i) + 1] = tracks[i].index1
         /\ \A lba \in DiscIndex0(i)..(EndLba(i) - 1) : TrackAtLba(lba) = i

=============================================================================
