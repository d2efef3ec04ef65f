-------------------------- MODULE CueLayout_proofs --------------------------
(***************************************************************************)
(* What TLAPS proves of CueLayout for every number of tracks, set of       *)
(* addresses and pregaps, and BIN file: types, that every read returns     *)
(* what the sheet describes, and that the tracks cover the disc.           *)
(*                                                                         *)
(* The sums of the layout, the described disc and a read are functions by  *)
(* recursion.  Each is treated alike: a closed form satisfies the          *)
(* recursion, and nothing else does, since there would be a least argument *)
(* at which the two differ.                                                *)
(***************************************************************************)
EXTENDS CueLayout, FiniteSetTheorems, SequenceTheorems, TLAPS

-----------------------------------------------------------------------------
(* Sums.  A fold is a function by recursion over sets; the facts about it  *)
(* are proved by induction, with the library's theorem that a set of       *)
(* finite sets has a smallest one.  A sum of natural numbers is the size   *)
(* of a set that has as many elements for each of them.                    *)

\* Every element of T has a weight
Weighted(f, T) == IsFiniteSet(T) /\ \A x \in T : f[x] \in Nat

\* As many pairs for each element of T as it weighs
Bag(f, T) == {q \in T \X Nat : 1 <= q[2] /\ q[2] <= f[q[1]]}

Weight(f, T) == Cardinality(Bag(f, T))

\* The pairs of one element more.
LEMMA BagStep ==
  ASSUME NEW f, NEW s, NEW x \in s, f[x] \in Nat, IsFiniteSet(Bag(f, s \ {x}))
  PROVE  IsFiniteSet(Bag(f, s)) /\ Weight(f, s) = f[x] + Weight(f, s \ {x})
  <1> DEFINE column == {x} \X (1..f[x])
             rest == Bag(f, s \ {x})
  <1>1. Bag(f, s) = column \cup rest BY DEF Bag
  <1>2. column \cap rest = {} BY DEF Bag
  <1>3. IsFiniteSet({x}) /\ Cardinality({x}) = 1 BY FS_Singleton
  <1>4. IsFiniteSet(1..f[x]) /\ Cardinality(1..f[x]) = f[x] BY FS_Interval, SMTT(30)
  <1>5. IsFiniteSet(column) /\ Cardinality(column) = 1 * f[x] BY <1>3, <1>4, FS_Product, SMTT(30)
  <1> HIDE DEF column, rest
  <1>6. /\ IsFiniteSet(column \cup rest)
        /\ Cardinality(column \cup rest)
             = Cardinality(column) + Cardinality(rest) - Cardinality(column \cap rest)
    BY <1>5, FS_Union DEF rest
  <1>7. Cardinality(column \cap rest) = 0 BY <1>2, FS_EmptySet
  <1>8. Cardinality(rest) \in Nat BY FS_CardinalityType DEF rest
  <1>9. Cardinality(Bag(f, s)) = f[x] + Cardinality(rest) BY <1>1, <1>5, <1>6, <1>7, <1>8
  <1>10. QED BY <1>1, <1>6, <1>9 DEF Weight, rest

\* Nothing weighs nothing.
LEMMA WeightEmpty ==
  ASSUME NEW f
  PROVE  Bag(f, {}) = {} /\ IsFiniteSet(Bag(f, {})) /\ Weight(f, {}) = 0
  <1>1. Bag(f, {}) = {} BY DEF Bag
  <1>2. QED BY <1>1, FS_EmptySet DEF Weight

\* The pairs of a finite set are finitely many.
LEMMA BagFinite ==
  ASSUME NEW f, NEW T, Weighted(f, T)
  PROVE  \A s \in SUBSET T : IsFiniteSet(Bag(f, s)) /\ Weight(f, s) \in Nat
  <1> DEFINE Odd == {s \in SUBSET T : ~IsFiniteSet(Bag(f, s))}
             R == StrictSubsetOrdering(T)
  <1>1. Odd = {}
    <2> SUFFICES ASSUME Odd # {} PROVE FALSE OBVIOUS
    <2>1. Odd \subseteq FiniteSubsetsOf(T) BY FS_Subset DEF FiniteSubsetsOf, Weighted
    <2>2. IsWellFoundedOn(R, FiniteSubsetsOf(T)) BY FS_StrictSubsetOrderingWellFounded
    <2> HIDE DEF R, Odd
    <2>3. PICK s \in Odd : \A r \in Odd : <<r, s>> \notin R BY <2>1, <2>2, WFMin
    <2>4. s \in SUBSET T /\ ~IsFiniteSet(Bag(f, s)) BY DEF Odd
    <2>5. s # {} BY <2>4, WeightEmpty
    <2>6. PICK x \in s : TRUE BY <2>5
    <2>7. s \ {x} \in SUBSET T /\ <<s \ {x}, s>> \in R
      BY <2>4 DEF R, StrictSubsetOrdering
    <2>8. IsFiniteSet(Bag(f, s \ {x})) BY <2>3, <2>7 DEF Odd
    <2>9. f[x] \in Nat BY <2>4 DEF Weighted
    <2>10. QED BY <2>4, <2>8, <2>9, BagStep
  <1>2. \A s \in SUBSET T : IsFiniteSet(Bag(f, s)) BY <1>1
  <1>3. QED BY <1>2, FS_CardinalityType DEF Weight

\* Two sets that share nothing.
LEMMA WeightUnion ==
  ASSUME NEW f, NEW S, NEW T, Weighted(f, S), Weighted(f, T), S \cap T = {}
  PROVE  Weight(f, S \cup T) = Weight(f, S) + Weight(f, T)
  <1>1. Bag(f, S \cup T) = Bag(f, S) \cup Bag(f, T) /\ Bag(f, S) \cap Bag(f, T) = {}
    BY DEF Bag
  <1>2. IsFiniteSet(Bag(f, S)) /\ IsFiniteSet(Bag(f, T)) BY BagFinite
  <1>3. /\ Cardinality(Bag(f, S) \cup Bag(f, T))
             = Cardinality(Bag(f, S)) + Cardinality(Bag(f, T)) - Cardinality(Bag(f, S) \cap Bag(f, T))
        /\ Cardinality(Bag(f, S)) \in Nat /\ Cardinality(Bag(f, T)) \in Nat
    BY <1>2, FS_Union, FS_CardinalityType
  <1>4. Cardinality(Bag(f, S) \cap Bag(f, T)) = 0 BY <1>1, FS_EmptySet
  <1>5. Weight(f, S \cup T) = Cardinality(Bag(f, S) \cup Bag(f, T)) BY <1>1 DEF Weight
  <1>6. Weight(f, S \cup T) = Cardinality(Bag(f, S)) + Cardinality(Bag(f, T)) - 0
    BY <1>3, <1>4, <1>5
  <1>7. QED BY <1>3, <1>6 DEF Weight

\* Some of the elements.
LEMMA WeightPart ==
  ASSUME NEW f, NEW T, Weighted(f, T), NEW S \in SUBSET T
  PROVE  Weight(f, S) <= Weight(f, T)
  <1>1. Bag(f, S) \in SUBSET Bag(f, T) BY DEF Bag
  <1>2. IsFiniteSet(Bag(f, T)) BY BagFinite
  <1>3. QED BY <1>1, <1>2, FS_Subset DEF Weight

\* One element.
LEMMA WeightOne ==
  ASSUME NEW f, NEW x, f[x] \in Nat
  PROVE  Weight(f, {x}) = f[x]
  <1>1. {x} \ {x} = {} OBVIOUS
  <1>2. IsFiniteSet(Bag(f, {x} \ {x})) /\ Weight(f, {x} \ {x}) = 0 BY <1>1, WeightEmpty
  <1>3. Weight(f, {x}) = f[x] + Weight(f, {x} \ {x}) BY ONLY <1>2, f[x] \in Nat, BagStep
  <1>4. QED BY <1>2, <1>3

\* The sums of f over the subsets of T, as a fold defines them
SumsAre(f, T, sums) ==
  sums = [s \in SUBSET T |-> IF s = {} THEN 0
                             ELSE LET x == CHOOSE x \in s : TRUE IN f[x] + sums[s \ {x}]]

\* There are such sums, the weights ...
LEMMA SumsExist ==
  ASSUME NEW f, NEW T, Weighted(f, T)
  PROVE  SumsAre(f, T, [s \in SUBSET T |-> Weight(f, s)])
  <1> DEFINE g == [s \in SUBSET T |-> Weight(f, s)]
  <1>1. ASSUME NEW s \in SUBSET T
        PROVE  g[s] = IF s = {} THEN 0
                      ELSE LET x == CHOOSE x \in s : TRUE IN f[x] + g[s \ {x}]
    <2>1. CASE s = {} BY <2>1, WeightEmpty
    <2>2. CASE s # {}
      <3> DEFINE x == CHOOSE x \in s : TRUE
      <3>1. x \in s BY <2>2
      <3> HIDE DEF x
      <3>2. f[x] \in Nat /\ s \ {x} \in SUBSET T BY <3>1 DEF Weighted
      <3>3. Weight(f, s) = f[x] + Weight(f, s \ {x})
        <4>1. IsFiniteSet(Bag(f, s \ {x})) BY <3>2, BagFinite
        <4>2. QED BY ONLY <3>1, <3>2, <4>1, BagStep
      <3>4. g[s] = f[x] + g[s \ {x}] BY <3>2, <3>3
      <3> HIDE DEF g
      <3>5. QED BY <2>2, <3>4 DEF x
    <2>3. QED BY <2>1, <2>2
  <1>2. g = [s \in SUBSET T |-> g[s]] OBVIOUS
  <1> HIDE DEF g
  <1>3. SumsAre(f, T, g) BY <1>1, <1>2 DEF SumsAre
  <1>4. QED BY <1>3 DEF g

\* ... and no others.
LEMMA SumsUnique ==
  ASSUME NEW f, NEW T, IsFiniteSet(T), NEW g, NEW h, SumsAre(f, T, g), SumsAre(f, T, h)
  PROVE  g = h
  <1> DEFINE Differ == {s \in SUBSET T : g[s] # h[s]}
             R == StrictSubsetOrdering(T)
  <1>1. Differ = {}
    <2> SUFFICES ASSUME Differ # {} PROVE FALSE OBVIOUS
    <2>1. Differ \subseteq FiniteSubsetsOf(T) BY FS_Subset DEF FiniteSubsetsOf
    <2>2. IsWellFoundedOn(R, FiniteSubsetsOf(T)) BY FS_StrictSubsetOrderingWellFounded
    <2> HIDE DEF R, Differ
    <2>3. PICK s \in Differ : \A r \in Differ : <<r, s>> \notin R BY <2>1, <2>2, WFMin
    <2>4. s \in SUBSET T /\ g[s] # h[s] BY DEF Differ
    <2>5. s # {} BY <2>4 DEF SumsAre
    <2> DEFINE x == CHOOSE x \in s : TRUE
    <2>6. x \in s BY <2>5
    <2>7. g[s] = f[x] + g[s \ {x}] /\ h[s] = f[x] + h[s \ {x}] BY <2>4, <2>5 DEF SumsAre
    <2> HIDE DEF x
    <2>8. s \ {x} \in SUBSET T /\ <<s \ {x}, s>> \in R
      BY <2>4, <2>6 DEF R, StrictSubsetOrdering
    <2>9. s \ {x} \notin Differ BY <2>3, <2>8
    <2>10. QED BY <2>4, <2>7, <2>8, <2>9 DEF Differ
  <1>2. \A s \in SUBSET T : g[s] = h[s] BY <1>1
  <1> HIDE DEF Differ
  <1>3. g = [s \in SUBSET T |-> g[s]] /\ h = [s \in SUBSET T |-> h[s]] BY DEF SumsAre
  <1>4. QED BY <1>2, <1>3, Zenon

\* So whatever they are called, they are the weights.
LEMMA SumsWeigh ==
  ASSUME NEW f, NEW T, Weighted(f, T), NEW h, SumsAre(f, T, h)
  PROVE  h[T] = Weight(f, T)
  <1> DEFINE g == [s \in SUBSET T |-> Weight(f, s)]
  <1>1. SumsAre(f, T, g) BY SumsExist
  <1>2. g[T] = Weight(f, T) OBVIOUS
  <1> HIDE DEF g
  <1>3. g = h BY <1>1, SumsUnique DEF Weighted
  <1>4. QED BY <1>2, <1>3

-----------------------------------------------------------------------------
(* What the parser leaves for the disc.                                    *)

TrackType == [index0 : Addresses \cup {None}, index1 : Addresses \cup {None},
              pregap : Pregaps \cup {0}]

\* A sheet that was accepted
Layout == TypeOK /\ IndexesValid /\ InsideFile(fileSectors)

IInv == TypeOK /\ (phase = "ready" => IndexesValid /\ InsideFile(fileSectors))

\* A line that is accepted changes the current track.
LEMMA KeepType ==
  ASSUME TypeOK, Current > 0, NEW t \in TrackType, Keep(t)
  PROVE  TypeOK' /\ phase' = phase
  <1>1. /\ tracks \in Seq(TrackType) /\ Len(tracks) <= MaxTracks
        /\ tracks' = [tracks EXCEPT ![Len(tracks)] = t]
        /\ UNCHANGED <<phase, fileSeen, fileSectors>>
    BY DEF TypeOK, TrackType, Keep, Current
  <1>2. Len(tracks) \in 1..Len(tracks) BY <1>1, LenProperties DEF Current
  <1>3. tracks' \in Seq(TrackType) /\ Len(tracks') = Len(tracks) BY <1>1, <1>2, ExceptSeq
  <1>4. QED BY <1>1, <1>3 DEF TypeOK, TrackType

\* The track that is being parsed.
LEMMA CurrentTrack ==
  ASSUME TypeOK, Current > 0
  PROVE  tracks[Current] \in TrackType
  <1>1. tracks \in Seq(TrackType) BY DEF TypeOK, TrackType
  <1>2. Len(tracks) \in 1..Len(tracks) BY <1>1, LenProperties DEF Current
  <1>3. QED BY <1>1, <1>2, ElementOfSeq DEF Current

LEMMA InitInv == Init => IInv
  <1> SUFFICES ASSUME Init PROVE IInv OBVIOUS
  <1>1. tracks = <<>> /\ phase = "parse" /\ fileSeen = FALSE /\ fileSectors = 0 BY DEF Init
  <1>2. MaxTracks \in Nat BY CueAssumption DEF CueAssumption
  <1>3. tracks \in Seq(TrackType) /\ Len(tracks) = 0 BY <1>1, EmptySeq
  <1>4. fileSectors \in Nat BY <1>1
  <1>5. Len(tracks) <= MaxTracks BY <1>2, <1>3
  <1>6. phase \in {"parse", "ready", "rejected"} /\ phase # "ready" /\ fileSeen \in BOOLEAN
    BY <1>1
  <1>7. tracks \in Seq([index0 : Addresses \cup {None}, index1 : Addresses \cup {None},
                        pregap : Pregaps \cup {0}])
    BY <1>3 DEF TrackType
  <1>8. TypeOK BY ONLY <1>4, <1>5, <1>6, <1>7 DEF TypeOK
  <1>9. QED BY <1>6, <1>8 DEF IInv

\* No action goes on after the sheet was read.
LEMMA Inductive == IInv /\ [Next]_vars => IInv'
  <1> SUFFICES ASSUME IInv, [Next]_vars PROVE IInv' OBVIOUS
  <1>1. TypeOK BY DEF IInv
  <1>2. CASE Reject
    <2>1. phase' = "rejected" /\ UNCHANGED <<fileSeen, tracks, fileSectors>> BY <1>2 DEF Reject
    <2>2. QED BY <1>1, <2>1 DEF IInv, TypeOK
  <1>3. CASE UNCHANGED vars
    BY <1>3 DEF vars, IInv, TypeOK, IndexesValid, InsideFile, Current, FirstFileSector
  <1>4. CASE FileLine
    <2>1. CASE ~fileSeen
      <3>1. phase = "parse" /\ fileSeen' = TRUE /\ UNCHANGED <<phase, tracks, fileSectors>>
        BY <1>4, <2>1 DEF FileLine
      <3>2. QED BY <1>1, <3>1 DEF IInv, TypeOK
    <2>2. QED BY <1>2, <1>4, <2>1 DEF FileLine
  <1>5. ASSUME NEW number \in 1..(MaxTracks + 1), TrackLine(number) PROVE IInv'
    <2>1. CASE NextNumber(number) /\ tracks' = Append(tracks, NewTrack)
               /\ UNCHANGED <<phase, fileSeen, fileSectors>>
      <3>1. tracks \in Seq(TrackType) /\ NewTrack \in TrackType
        BY <1>1 DEF TypeOK, TrackType, NewTrack
      <3>2. tracks' \in Seq(TrackType) /\ Len(tracks') = Len(tracks) + 1
        BY <2>1, <3>1, AppendProperties
      <3>3. Len(tracks') <= MaxTracks
        BY <2>1, <3>2 DEF NextNumber, Current
      <3>4. phase' = "parse" BY <1>5, <2>1 DEF TrackLine
      <3>5. QED BY <1>1, <2>1, <3>2, <3>3, <3>4 DEF IInv, TypeOK, TrackType
    <2>2. QED BY <1>2, <1>5, <2>1 DEF TrackLine
  <1>6. ASSUME NEW sector \in Addresses, Index0Line(sector) PROVE IInv'
    <2>1. CASE Current > 0 /\ Keep([tracks[Current] EXCEPT !.index0 = sector])
      <3>1. [tracks[Current] EXCEPT !.index0 = sector] \in TrackType
        BY <1>1, <2>1, CurrentTrack DEF TrackType
      <3>2. TypeOK' /\ phase' = phase BY <1>1, <2>1, <3>1, KeepType
      <3>3. QED BY <1>6, <3>2 DEF IInv, Index0Line
    <2>2. QED BY <1>2, <1>6, <2>1 DEF Index0Line
  <1>7. ASSUME NEW sector \in Addresses, Index1Line(sector) PROVE IInv'
    <2>1. CASE Current > 0 /\ Keep([tracks[Current] EXCEPT !.index1 = sector])
      <3>1. [tracks[Current] EXCEPT !.index1 = sector] \in TrackType
        BY <1>1, <2>1, CurrentTrack DEF TrackType
      <3>2. TypeOK' /\ phase' = phase BY <1>1, <2>1, <3>1, KeepType
      <3>3. QED BY <1>7, <3>2 DEF IInv, Index1Line
    <2>2. QED BY <1>2, <1>7, <2>1 DEF Index1Line
  <1>8. ASSUME NEW length \in Pregaps, PregapLine(length) PROVE IInv'
    <2>1. CASE Current > 0 /\ Keep([tracks[Current] EXCEPT !.pregap = length])
      <3>1. [tracks[Current] EXCEPT !.pregap = length] \in TrackType
        BY <1>1, <2>1, CurrentTrack DEF TrackType
      <3>2. TypeOK' /\ phase' = phase BY <1>1, <2>1, <3>1, KeepType
      <3>3. QED BY <1>8, <3>2 DEF IInv, PregapLine
    <2>2. QED BY <1>2, <1>8, <2>1 DEF PregapLine
  <1>9. CASE SheetEnds
    <2>1. UNCHANGED <<fileSeen, tracks>> BY <1>9 DEF SheetEnds
    <2>2. CASE ~IndexesValid
      <3>1. phase' = "rejected" /\ fileSectors' = fileSectors BY <1>9, <2>2 DEF SheetEnds
      <3>2. QED BY <1>1, <2>1, <3>1 DEF IInv, TypeOK
    <2>3. CASE IndexesValid
      <3>1. PICK size \in Sizes :
              /\ fileSectors' = size
              /\ phase' = IF size > 0 /\ InsideFile(size) THEN "ready" ELSE "rejected"
        BY <1>9, <2>3 DEF SheetEnds
      <3>2. size \in Nat BY CueAssumption DEF CueAssumption
      <3>3. TypeOK' BY <1>1, <2>1, <3>1, <3>2 DEF TypeOK
      <3>4. phase' = "ready" => InsideFile(size) BY <3>1
      <3>5. IndexesValid' BY <2>1, <2>3 DEF IndexesValid, Current
      <3>6. phase' = "ready" => InsideFile(fileSectors)'
        BY <2>1, <3>1, <3>4 DEF InsideFile, Current, FirstFileSector
      <3>7. QED BY <3>3, <3>5, <3>6 DEF IInv
    <2>4. QED BY <2>2, <2>3
  <1>10. QED
    BY <1>2, <1>3, <1>4, <1>5, <1>6, <1>7, <1>8, <1>9 DEF Next, Malformed, PostgapLine

\* Whatever lines a sheet has, the parser's state keeps its types.
THEOREM TypeCorrect == Spec => []TypeOK
  <1>1. IInv => TypeOK BY DEF IInv
  <1>2. QED BY <1>1, InitInv, Inductive, PTL DEF Spec

-----------------------------------------------------------------------------
(* The layout.                                                             *)

\* Sector of the file that track i begins with, and the silence before it
First(i) == tracks[i].index1
Gap == [i \in 1..Current |-> tracks[i].pregap]

\* What an accepted sheet says in numbers.
LEMMA Numbers ==
  ASSUME Layout
  PROVE  /\ Current \in Nat \ {0} /\ FirstFileSector \in Nat /\ fileSectors \in Nat
         /\ FirstFileSector < fileSectors /\ First(1) = FirstFileSector
         /\ \A i \in 1..Current :
              /\ First(i) \in Nat /\ First(i) < fileSectors /\ FirstFileSector <= First(i)
              /\ tracks[i].index0 \in Int /\ tracks[i].pregap \in Nat
              /\ Gap[i] = tracks[i].pregap
         /\ \A i \in 2..Current :
              /\ First(i - 1) < First(i)
              /\ tracks[i].index0 # None =>
                   First(i - 1) < tracks[i].index0 /\ tracks[i].index0 <= First(i)
  <1>1. /\ Current \in Nat \ {0} /\ fileSectors \in Nat
        /\ \A i \in 1..Current : tracks[i] \in TrackType
    <2>1. tracks \in Seq(TrackType) /\ Current > 0 /\ fileSectors \in Nat
      BY DEF Layout, TypeOK, TrackType, IndexesValid
    <2>2. Len(tracks) \in Nat BY <2>1, LenProperties
    <2>3. \A i \in 1..Len(tracks) : tracks[i] \in TrackType BY <2>1, ElementOfSeq
    <2>4. QED BY <2>1, <2>2, <2>3 DEF Current
  <1>2. Addresses \subseteq Nat /\ Pregaps \subseteq Nat BY CueAssumption DEF CueAssumption
  <1>3. ASSUME NEW i \in 1..Current
        PROVE  /\ First(i) \in Nat /\ First(i) < fileSectors /\ FirstFileSector <= First(i)
               /\ tracks[i].index0 \in Int /\ tracks[i].pregap \in Nat
               /\ Gap[i] = tracks[i].pregap
    <2>1. tracks[i] \in TrackType BY <1>1
    <2>2. /\ tracks[i].index0 \in Addresses \cup {None}
          /\ tracks[i].index1 \in Addresses \cup {None}
          /\ tracks[i].pregap \in Pregaps \cup {0}
      BY <2>1 DEF TrackType
    <2>3. tracks[i].index1 # None BY DEF Layout, IndexesValid
    <2>4. tracks[i].index1 < fileSectors /\ tracks[i].index1 >= FirstFileSector
      BY DEF Layout, InsideFile
    <2>5. FirstFileSector \in Nat
      <3>1. 1 \in 1..Current BY <1>1
      <3>2. tracks[1] \in TrackType /\ tracks[1].index1 # None
        BY <1>1, <3>1 DEF Layout, IndexesValid
      <3>3. QED BY <1>2, <3>2 DEF TrackType, FirstFileSector
    <2>6. Gap[i] = tracks[i].pregap BY DEF Gap
    <2>7. First(i) \in Nat BY <1>2, <2>2, <2>3 DEF First
    <2>8. tracks[i].index0 \in Int
      <3>1. \A x \in Addresses \cup {None} : x \in Int BY <1>2 DEF None
      <3>2. QED BY ONLY <2>2, <3>1
    <2>9. tracks[i].pregap \in Nat
      <3>1. \A x \in Pregaps \cup {0} : x \in Nat BY <1>2
      <3>2. QED BY ONLY <2>2, <3>1
    <2>10. First(i) < fileSectors /\ FirstFileSector <= First(i) BY <2>4, <2>5, <2>7 DEF First
    <2>11. QED BY <2>6, <2>7, <2>8, <2>9, <2>10
  <1>4. 1 \in 1..Current BY <1>1
  <1>5. First(1) = FirstFileSector BY DEF First, FirstFileSector
  <1>6. FirstFileSector \in Nat /\ FirstFileSector < fileSectors BY <1>3, <1>4, <1>5
  <1>7. ASSUME NEW i \in 2..Current
        PROVE  /\ First(i - 1) < First(i)
               /\ tracks[i].index0 # None =>
                    First(i - 1) < tracks[i].index0 /\ tracks[i].index0 <= First(i)
    <2>1. i \in 1..Current /\ i > 1 /\ i - 1 \in 1..Current BY <1>1
    <2>2. /\ tracks[i].index0 <= tracks[i].index1
          /\ tracks[i].index1 > tracks[i - 1].index1
          /\ (IF tracks[i].index0 # None THEN tracks[i].index0 ELSE tracks[i].index1)
               > tracks[i - 1].index1
      BY <2>1 DEF Layout, IndexesValid
    <2>3. First(i) \in Nat /\ First(i - 1) \in Nat /\ tracks[i].index0 \in Int BY <1>3, <2>1
    <2>4. QED BY <2>2, <2>3 DEF First
  <1>8. QED BY <1>1, <1>3, <1>5, <1>6, <1>7

\* What rises from each number to the next rises altogether.
LEMMA Rising ==
  ASSUME NEW n \in Nat, NEW f, \A i \in 1..n : f[i] \in Int,
         \A i \in 2..n : f[i - 1] < f[i]
  PROVE  \A i, j \in 1..n : i < j => f[i] < f[j]
  <1> SUFFICES ASSUME NEW i \in 1..n PROVE \A j \in 1..n : i < j => f[i] < f[j]
    OBVIOUS
  <1> DEFINE Low == {j \in 1..n : i < j /\ ~(f[i] < f[j])}
             R == OpToRel(<, Nat)
  <1>1. Low = {}
    <2> SUFFICES ASSUME Low # {} PROVE FALSE OBVIOUS
    <2>1. Low \subseteq Nat OBVIOUS
    <2>2. IsWellFoundedOn(R, Nat) BY NatLessThanWellFounded
    <2>3. \A a, b \in Nat : a < b => <<a, b>> \in R BY DEF OpToRel
    <2> HIDE DEF R, Low
    <2>4. PICK j \in Low : \A k \in Low : <<k, j>> \notin R BY <2>1, <2>2, WFMin
    <2>5. j \in 1..n /\ i < j /\ ~(f[i] < f[j]) BY DEF Low
    <2>6. j \in 2..n /\ j - 1 \in 1..n /\ j - 1 \in Nat /\ j \in Nat BY <2>5
    <2>7. f[j - 1] < f[j] BY <2>6
    <2>8. j - 1 \notin Low
      <3>1. j - 1 < j BY <2>6
      <3>2. <<j - 1, j>> \in R BY <2>3, <2>6, <3>1
      <3>3. QED BY ONLY <2>4, <3>2
    <2>9. i < j - 1 => f[i] < f[j - 1] BY <2>6, <2>8 DEF Low
    <2>10. i = j - 1 \/ i < j - 1 BY <2>5
    <2>11. f[i] \in Int /\ f[j] \in Int /\ f[j - 1] \in Int BY <2>5, <2>6
    <2>12. QED BY <2>5, <2>7, <2>9, <2>10, <2>11
  <1>2. QED BY <1>1

\* The tracks begin in their order.
LEMMA FirstsRise ==
  ASSUME Layout
  PROVE  \A i, j \in 1..Current : (i < j => First(i) < First(j)) /\ (First(i) <= First(j) => i <= j)
  <1> DEFINE f == [i \in 1..Current |-> First(i)]
  <1>1. Current \in Nat BY Numbers
  <1>2. \A i \in 1..Current : f[i] = First(i) OBVIOUS
  <1>3. \A i \in 1..Current : f[i] \in Int BY <1>2, Numbers
  <1>4. \A i \in 2..Current : f[i - 1] < f[i]
    <2>1. \A i \in 2..Current : i \in 1..Current /\ i - 1 \in 1..Current BY <1>1
    <2>2. QED BY <1>2, <2>1, Numbers
  <1> HIDE DEF f
  <1>5. \A i, j \in 1..Current : i < j => f[i] < f[j] BY <1>1, <1>3, <1>4, Rising
  <1>6. \A i, j \in 1..Current : i < j => First(i) < First(j) BY <1>2, <1>5
  <1>7. \A i, j \in 1..Current : First(i) <= First(j) => i <= j
    <2> SUFFICES ASSUME NEW i \in 1..Current, NEW j \in 1..Current, First(i) <= First(j), j < i
                 PROVE  FALSE
      BY <1>1
    <2>1. First(j) < First(i) BY <1>6
    <2>2. QED BY <2>1, Numbers
  <1>8. QED BY <1>6, <1>7

-----------------------------------------------------------------------------
(* The silence of the layout.                                              *)

LEMMA GapsWeighed ==
  ASSUME Layout, NEW T \in SUBSET (1..Current)
  PROVE  Weighted(Gap, T)
  <1>1. Current \in Nat BY Numbers
  <1>2. IsFiniteSet(1..Current) BY <1>1, FS_Interval
  <1>3. IsFiniteSet(T) BY <1>2, FS_Subset
  <1>4. QED BY <1>3, Numbers DEF Weighted

\* The sum of the pregaps of some tracks.
LEMMA GapSum ==
  ASSUME Layout, NEW T \in SUBSET (1..Current)
  PROVE  MapThenSumSet(LAMBDA j : tracks[j].pregap, T) = Weight(Gap, T)
  <1> DEFINE GapSums(sums) ==
               sums = [s \in SUBSET T |-> IF s = {} THEN 0
                                          ELSE LET x == CHOOSE x \in s : TRUE
                                               IN  tracks[x].pregap + sums[s \ {x}]]
             g == CHOOSE sums : GapSums(sums)
  <1>1. MapThenSumSet(LAMBDA j : tracks[j].pregap, T) = g[T]
    BY DEF MapThenSumSet, MapThenFoldSet
  <1>2. \A x \in T : Gap[x] = tracks[x].pregap BY Numbers
  <1>3. ASSUME NEW sums PROVE GapSums(sums) <=> SumsAre(Gap, T, sums)
    <2> DEFINE step(s) == IF s = {} THEN 0
                          ELSE LET x == CHOOSE x \in s : TRUE
                               IN  tracks[x].pregap + sums[s \ {x}]
               term(s) == IF s = {} THEN 0
                          ELSE LET x == CHOOSE x \in s : TRUE IN Gap[x] + sums[s \ {x}]
    <2>1. ASSUME NEW s \in SUBSET T PROVE step(s) = term(s)
      <3>1. CASE s = {} BY <3>1
      <3>2. CASE s # {}
        <4>1. (CHOOSE x \in s : TRUE) \in T BY <3>2
        <4>2. QED BY <1>2, <3>2, <4>1
      <3>3. QED BY <3>1, <3>2
    <2>2. GapSums(sums) <=> sums = [s \in SUBSET T |-> step(s)] OBVIOUS
    <2>3. SumsAre(Gap, T, sums) <=> sums = [s \in SUBSET T |-> term(s)] BY DEF SumsAre
    <2> HIDE DEF step, term, GapSums
    <2>4. [s \in SUBSET T |-> step(s)] = [s \in SUBSET T |-> term(s)] BY <2>1
    <2>5. QED BY <2>2, <2>3, <2>4
  <1>4. Weighted(Gap, T) BY GapsWeighed
  <1>5. \E sums : SumsAre(Gap, T, sums) BY <1>4, SumsExist
  <1> HIDE DEF g, GapSums
  <1>6. GapSums(g) BY <1>3, <1>5, Zenon DEF g
  <1>7. SumsAre(Gap, T, g) BY <1>3, <1>6
  <1>8. QED BY <1>1, <1>4, <1>7, SumsWeigh

LEMMA PaddedTracks ==
  ASSUME Layout
  PROVE  \A i \in Padded : /\ i \in 2..Current /\ i \in 1..Current
                           /\ Gap[i] > 0 /\ Gap[i] \in Nat /\ tracks[i].pregap = Gap[i]
  BY Numbers DEF Padded

\* Sectors of silence in front of sector f of the file, without its own
Before(f) == Weight(Gap, {i \in Padded : First(i) < f})

\* Where that silence ends and its own begins, and where the sector itself lies
Start(f) == f - FirstFileSector + Before(f)
Pos(f)   == f - FirstFileSector + Before(f + 1)

LEMMA BeforeRises ==
  ASSUME Layout
  PROVE  /\ \A f \in Int : Before(f) \in Nat
         /\ \A f, g \in Int : f <= g => Before(f) <= Before(g)
         /\ \A f, g \in Int : f <= g /\ (\A i \in Padded : f > First(i) \/ First(i) >= g)
                                => Before(f) = Before(g)
  <1> DEFINE T(f) == {i \in Padded : First(i) < f}
  <1>1. \A i \in Padded : i \in 1..Current /\ First(i) \in Nat BY PaddedTracks, Numbers
  <1>2. \A f : T(f) \in SUBSET (1..Current) BY <1>1
  <1>3. \A f : Before(f) = Weight(Gap, T(f)) BY DEF Before
  <1>4. ASSUME NEW f \in Int, NEW g \in Int, f <= g
        PROVE  T(f) \in SUBSET T(g)
    BY <1>1, <1>4
  <1>5. ASSUME NEW f \in Int, NEW g \in Int, f <= g,
               \A i \in Padded : f > First(i) \/ First(i) >= g
        PROVE  T(f) = T(g)
    BY <1>1, <1>5
  <1> HIDE DEF T
  <1>6. ASSUME NEW f PROVE Weighted(Gap, T(f)) /\ Before(f) \in Nat
    <2>1. Weighted(Gap, T(f)) BY <1>2, GapsWeighed
    <2>2. Weight(Gap, T(f)) \in Nat BY <2>1, BagFinite
    <2>3. QED BY <1>3, <2>1, <2>2
  <1>7. ASSUME NEW f \in Int, NEW g \in Int, f <= g
        PROVE  Before(f) <= Before(g)
    <2>1. T(f) \in SUBSET T(g) BY <1>4, <1>7
    <2>2. Weighted(Gap, T(g)) BY <1>6
    <2>3. Weight(Gap, T(f)) <= Weight(Gap, T(g)) BY <2>1, <2>2, WeightPart
    <2>4. QED BY <1>3, <2>3
  <1>8. QED BY <1>3, <1>5, <1>6, <1>7

\* The silence of the sectors up to f is that before f and f's own.
LEMMA BeforeNext ==
  ASSUME Layout, NEW f \in Int
  PROVE  Before(f + 1) = Before(f) + Weight(Gap, {i \in Padded : First(i) = f})
  <1> DEFINE low == {i \in Padded : First(i) < f}
             own == {i \in Padded : First(i) = f}
  <1>1. \A i \in Padded : i \in 1..Current /\ First(i) \in Nat BY PaddedTracks, Numbers
  <1>2. {i \in Padded : First(i) < f + 1} = low \cup own BY <1>1
  <1>3. low \cap own = {} BY <1>1
  <1>4. low \in SUBSET (1..Current) /\ own \in SUBSET (1..Current) BY <1>1
  <1>5. Before(f) = Weight(Gap, low) /\ Before(f + 1) = Weight(Gap, low \cup own)
    BY <1>2 DEF Before
  <1> HIDE DEF low, own
  <1>6. Weighted(Gap, low) /\ Weighted(Gap, own) BY <1>4, GapsWeighed
  <1>7. Weight(Gap, low \cup own) = Weight(Gap, low) + Weight(Gap, own)
    BY <1>3, <1>6, WeightUnion
  <1>8. QED BY <1>5, <1>7 DEF own

\* A padded track has its silence right before its first sector.
LEMMA BeforePadded ==
  ASSUME Layout, NEW i \in Padded
  PROVE  Before(First(i) + 1) = Before(First(i)) + tracks[i].pregap
  <1>1. \A j \in Padded : j \in 1..Current /\ First(j) \in Nat BY PaddedTracks, Numbers
  <1>2. {j \in Padded : First(j) = First(i)} = {i}
    <2> SUFFICES ASSUME NEW j \in Padded, First(j) = First(i) PROVE j = i OBVIOUS
    <2>1. i <= j /\ j <= i BY <1>1, FirstsRise
    <2>2. Current \in Nat BY Numbers
    <2>3. QED BY <1>1, <2>1, <2>2
  <1>3. Gap[i] \in Nat /\ Gap[i] = tracks[i].pregap BY PaddedTracks
  <1>4. Weight(Gap, {i}) = Gap[i] BY <1>3, WeightOne
  <1>5. Before(First(i) + 1)
          = Before(First(i)) + Weight(Gap, {j \in Padded : First(j) = First(i)})
    BY <1>1, BeforeNext
  <1>6. QED BY <1>2, <1>3, <1>4, <1>5

\* No silence is inserted before the first track.
LEMMA BeforeFirst ==
  ASSUME Layout
  PROVE  Before(FirstFileSector) = 0 /\ Before(FirstFileSector + 1) = 0
  <1>1. \A i \in Padded : First(i) > FirstFileSector
    <2> SUFFICES ASSUME NEW i \in Padded PROVE First(i) > FirstFileSector OBVIOUS
    <2>1. 1 \in 1..Current /\ i \in 1..Current /\ 1 < i BY PaddedTracks, Numbers
    <2>2. First(1) < First(i) BY <2>1, FirstsRise
    <2>3. QED BY <2>1, <2>2, Numbers
  <1>2. FirstFileSector \in Nat /\ \A i \in Padded : First(i) \in Nat
    BY Numbers, PaddedTracks
  <1>3. /\ {i \in Padded : First(i) < FirstFileSector} = {}
        /\ {i \in Padded : First(i) < FirstFileSector + 1} = {}
    BY <1>1, <1>2
  <1>4. QED BY <1>3, WeightEmpty DEF Before

\* Inserted counts the silence up to the first sector of its track.
LEMMA InsertedIs ==
  ASSUME Layout, NEW i \in 1..Current
  PROVE  Inserted(i) = Before(First(i) + 1)
  <1> DEFINE T == {j \in Padded : j <= i}
  <1>1. \A j \in Padded : j \in 1..Current /\ First(j) \in Nat BY PaddedTracks, Numbers
  <1>2. First(i) \in Nat /\ Current \in Nat BY Numbers
  <1>3. \A j \in 1..Current : First(j) <= First(i) <=> j <= i
    <2>1. \A j \in 1..Current : First(j) <= First(i) => j <= i BY FirstsRise
    <2>2. ASSUME NEW j \in 1..Current, j <= i PROVE First(j) <= First(i)
      <3>1. j = i \/ j < i BY <1>2, <2>2
      <3>2. j < i => First(j) < First(i) BY FirstsRise
      <3>3. First(j) \in Nat BY Numbers
      <3>4. QED BY <1>2, <3>1, <3>2, <3>3
    <2>3. QED BY <2>1, <2>2
  <1>4. T = {j \in Padded : First(j) < First(i) + 1}
    <2>1. \A j \in Padded : j <= i <=> First(j) < First(i) + 1 BY <1>1, <1>2, <1>3
    <2>2. QED BY <2>1
  <1>5. T \in SUBSET (1..Current) BY <1>1
  <1>6. Inserted(i) = MapThenSumSet(LAMBDA j : tracks[j].pregap, T) BY DEF Inserted
  <1> HIDE DEF T
  <1>7. MapThenSumSet(LAMBDA j : tracks[j].pregap, T) = Weight(Gap, T) BY <1>5, GapSum
  <1>8. QED BY <1>4, <1>6, <1>7 DEF Before

\* Where the tracks and the disc end up.
LEMMA Places ==
  ASSUME Layout
  PROVE  /\ \A i \in 1..Current : DiscIndex1(i) = Pos(First(i)) /\ DiscIndex1(i) \in Int
         /\ \A i \in Padded : DiscIndex0(i) = Start(First(i)) /\ DiscIndex0(i) \in Int
         /\ Sectors = Start(fileSectors) /\ Sectors \in Int
  <1>1. ASSUME NEW i \in 1..Current
        PROVE  DiscIndex1(i) = Pos(First(i)) /\ DiscIndex1(i) \in Int
    <2>1. First(i) \in Nat /\ FirstFileSector \in Nat BY Numbers
    <2>2. Inserted(i) = Before(First(i) + 1) /\ Before(First(i) + 1) \in Nat
      BY <2>1, InsertedIs, BeforeRises
    <2>3. QED BY <2>1, <2>2 DEF DiscIndex1, Pos, First
  <1>2. ASSUME NEW i \in Padded
        PROVE  DiscIndex0(i) = Start(First(i)) /\ DiscIndex0(i) \in Int
    <2>1. i \in 1..Current BY PaddedTracks
    <2>2. First(i) \in Nat /\ FirstFileSector \in Nat /\ tracks[i].pregap \in Nat
      BY <2>1, Numbers
    <2>3. DiscIndex0(i) = DiscIndex1(i) - tracks[i].pregap BY DEF DiscIndex0
    <2>4. DiscIndex1(i) = Pos(First(i)) BY <1>1, <2>1
    <2>5. Before(First(i) + 1) = Before(First(i)) + tracks[i].pregap BY BeforePadded
    <2>6. Before(First(i)) \in Nat BY <2>2, BeforeRises
    <2>7. QED BY <2>2, <2>3, <2>4, <2>5, <2>6 DEF Pos, Start
  <1>3. Sectors = Start(fileSectors) /\ Sectors \in Int
    <2>1. /\ Current \in 1..Current /\ FirstFileSector \in Nat /\ fileSectors \in Nat
          /\ First(Current) \in Nat /\ First(Current) < fileSectors
      BY Numbers
    <2>2. Inserted(Current) = Before(First(Current) + 1) BY <2>1, InsertedIs
    <2>3. \A j \in Padded : First(Current) + 1 > First(j)
      <3> SUFFICES ASSUME NEW j \in Padded PROVE First(Current) + 1 > First(j) OBVIOUS
      <3>1. j \in 1..Current /\ First(j) \in Nat BY PaddedTracks, Numbers
      <3>2. j < Current => First(j) < First(Current) BY <2>1, <3>1, FirstsRise
      <3>3. j < Current \/ j = Current BY <2>1, <3>1
      <3>4. QED BY <2>1, <3>1, <3>2, <3>3
    <2>4. First(Current) + 1 <= fileSectors /\ First(Current) + 1 \in Int /\ fileSectors \in Int
      BY <2>1
    <2>5. Before(First(Current) + 1) = Before(fileSectors) BY <2>3, <2>4, BeforeRises
    <2>6. Before(fileSectors) \in Nat BY <2>4, BeforeRises
    <2>7. QED BY <2>1, <2>2, <2>5, <2>6 DEF Sectors, Start
  <1>4. QED BY <1>1, <1>2, <1>3

\* The places of the file's sectors are in their order, each behind its silence.
LEMMA Order ==
  ASSUME Layout
  PROVE  /\ \A f \in Int : /\ Start(f) \in Int /\ Pos(f) \in Int
                           /\ Start(f) <= Pos(f) /\ Start(f + 1) = Pos(f) + 1
         /\ \A f, g \in Int : f < g => Pos(f) < Start(g)
         /\ \A f, g \in Int : f <= g => Start(f) <= Start(g) /\ Pos(f) <= Pos(g)
         /\ Start(FirstFileSector) = 0 /\ Pos(FirstFileSector) = 0
  <1>1. FirstFileSector \in Nat BY Numbers
  <1>2. ASSUME NEW f \in Int
        PROVE  /\ Start(f) \in Int /\ Pos(f) \in Int
               /\ Start(f) <= Pos(f) /\ Start(f + 1) = Pos(f) + 1
    <2>1. f + 1 \in Int /\ f <= f + 1 OBVIOUS
    <2>2. Before(f) \in Nat /\ Before(f + 1) \in Nat BY <2>1, BeforeRises
    <2>3. Before(f) <= Before(f + 1) BY <2>1, BeforeRises
    <2>4. QED BY <1>1, <2>2, <2>3 DEF Start, Pos
  <1>3. ASSUME NEW f \in Int, NEW g \in Int, f < g PROVE Pos(f) < Start(g)
    <2>1. f + 1 \in Int /\ f + 1 <= g BY <1>3
    <2>2. Before(g) \in Nat /\ Before(f + 1) \in Nat BY <2>1, BeforeRises
    <2>3. Before(f + 1) <= Before(g) BY <2>1, BeforeRises
    <2>4. QED BY <1>1, <1>3, <2>2, <2>3 DEF Start, Pos
  <1>4. ASSUME NEW f \in Int, NEW g \in Int, f <= g PROVE Start(f) <= Start(g) /\ Pos(f) <= Pos(g)
    <2>1. CASE f = g BY <1>2, <2>1
    <2>2. CASE f < g
      <3>1. Pos(f) < Start(g) BY <1>3, <2>2
      <3>2. QED BY <1>2, <3>1
    <2>3. QED BY <1>4, <2>1, <2>2
  <1>5. Start(FirstFileSector) = 0 /\ Pos(FirstFileSector) = 0
    BY <1>1, BeforeFirst DEF Start, Pos
  <1>6. QED BY <1>2, <1>3, <1>4, <1>5

\* Every place is that of a sector of the file, or of the silence before one.
LEMMA Found ==
  ASSUME Layout, NEW o \in 0..(Sectors - 1)
  PROVE  \E f \in FirstFileSector..(fileSectors - 1) : Start(f) <= o /\ o <= Pos(f)
  <1> DEFINE Above == {f \in FirstFileSector..fileSectors : o < Start(f)}
             R == OpToRel(<, Nat)
  <1>1. FirstFileSector \in Nat /\ fileSectors \in Nat /\ FirstFileSector < fileSectors
    BY Numbers
  <1>2. Sectors = Start(fileSectors) /\ Sectors \in Int BY Places
  <1>3. fileSectors \in Above BY <1>1, <1>2
  <1>4. Above \subseteq Nat BY <1>1
  <1>5. IsWellFoundedOn(R, Nat) BY NatLessThanWellFounded
  <1>6. \A a, b \in Nat : a < b => <<a, b>> \in R BY DEF OpToRel
  <1>7. \A f : f \in Above <=> f \in FirstFileSector..fileSectors /\ o < Start(f) OBVIOUS
  <1> HIDE DEF Above, R
  <1>8. Above # {} BY <1>3
  <1>9. PICK g \in Above : \A k \in Above : <<k, g>> \notin R BY <1>4, <1>5, <1>8, WFMin
  <1>10. g \in FirstFileSector..fileSectors /\ o < Start(g) BY <1>7
  <1>11. g # FirstFileSector BY <1>2, <1>10, Order
  <1>12. g - 1 \in FirstFileSector..(fileSectors - 1) /\ g - 1 < g /\ g - 1 \in Nat /\ g \in Nat
    BY <1>1, <1>10, <1>11
  <1>13. <<g - 1, g>> \in R BY <1>6, <1>12
  <1>14. g - 1 \notin Above BY ONLY <1>9, <1>13
  <1>15. g - 1 \in FirstFileSector..fileSectors BY <1>1, <1>12
  <1>16. ~(o < Start(g - 1)) BY <1>7, <1>14, <1>15
  <1>17. Start((g - 1) + 1) = Pos(g - 1) + 1 /\ Start(g - 1) \in Int /\ Pos(g - 1) \in Int
    BY <1>12, Order
  <1>18. (g - 1) + 1 = g BY <1>12
  <1>19. o < Pos(g - 1) + 1 BY <1>10, <1>17, <1>18
  <1>20. Start(g - 1) <= o /\ o <= Pos(g - 1) BY <1>2, <1>16, <1>17, <1>19
  <1>21. QED BY <1>12, <1>20

-----------------------------------------------------------------------------
(* The disc that a sheet describes, in closed form.                        *)

FileSpan == FirstFileSector..(fileSectors - 1)

\* What lies at a place of the disc
At(o) == IF \E f \in FileSpan : o = Pos(f) THEN CHOOSE f \in FileSpan : o = Pos(f) ELSE None

\* The file's sectors at their places, silence elsewhere.
LEMMA AtIs ==
  ASSUME Layout
  PROVE  /\ \A f \in FileSpan : At(Pos(f)) = f
         /\ \A f \in FileSpan : \A o \in Int : Start(f) <= o /\ o < Pos(f) => At(o) = None
         /\ \A o : At(o) \in Int
  <1>1. FirstFileSector \in Nat /\ fileSectors \in Nat BY Numbers
  <1>2. \A f \in FileSpan : f \in Int BY <1>1 DEF FileSpan
  <1>3. ASSUME NEW f \in FileSpan, NEW g \in FileSpan, f < g PROVE Pos(f) < Pos(g)
    <2>1. Pos(f) < Start(g) /\ Start(g) <= Pos(g) BY <1>2, <1>3, Order
    <2>2. Pos(f) \in Int /\ Start(g) \in Int /\ Pos(g) \in Int BY <1>2, Order
    <2>3. QED BY <2>1, <2>2
  <1>4. ASSUME NEW f \in FileSpan, NEW g \in FileSpan, Pos(f) = Pos(g) PROVE f = g
    <2>1. ~(f < g) /\ ~(g < f)
      <3>1. Pos(f) \in Int /\ Pos(g) \in Int BY <1>2, Order
      <3>2. ~(Pos(f) < Pos(g)) /\ ~(Pos(g) < Pos(f)) BY <1>4, <3>1
      <3>3. QED BY <1>3, <3>2
    <2>2. QED BY <1>2, <2>1
  <1>5. ASSUME NEW f \in FileSpan PROVE At(Pos(f)) = f
    <2> DEFINE g == CHOOSE g \in FileSpan : Pos(f) = Pos(g)
    <2>1. g \in FileSpan /\ Pos(f) = Pos(g) OBVIOUS
    <2>2. At(Pos(f)) = g BY DEF At
    <2> HIDE DEF g
    <2>3. QED BY <1>4, <2>1, <2>2
  <1>6. ASSUME NEW f \in FileSpan, NEW o \in Int, Start(f) <= o, o < Pos(f)
        PROVE  At(o) = None
    <2>1. ASSUME NEW g \in FileSpan PROVE o # Pos(g)
      <3>1. f \in Int /\ g \in Int BY <1>2
      <3>2. Pos(f) \in Int /\ Pos(g) \in Int /\ Start(f) \in Int BY <3>1, Order
      <3>3. g < f => Pos(g) < Start(f) BY <3>1, Order
      <3>4. f <= g => Pos(f) <= Pos(g) BY <3>1, Order
      <3>5. g < f \/ f <= g BY <3>1
      <3>6. QED BY <1>6, <3>2, <3>3, <3>4, <3>5
    <2>2. QED BY <2>1 DEF At
  <1>7. ASSUME NEW o PROVE At(o) \in Int
    <2>1. CASE \E f \in FileSpan : o = Pos(f)
      <3>1. (CHOOSE f \in FileSpan : o = Pos(f)) \in FileSpan BY <2>1
      <3>2. QED BY <1>2, <2>1, <3>1 DEF At
    <2>2. CASE ~\E f \in FileSpan : o = Pos(f) BY <2>2 DEF At, None
    <2>3. QED BY <2>1, <2>2
  <1>8. QED BY <1>5, <1>6, <1>7

\* Length of the silence that belongs to sector f of the file
Quiet(f) == Weight(Gap, {i \in Padded : First(i) = f})

\* The rest of a disc from sector f of the file on, as Described computes it
IsDisc(disc) ==
  disc = [f \in FirstFileSector..fileSectors |->
            IF f = fileSectors THEN <<>>
            ELSE [k \in 1..Quiet(f) |-> None] \o <<f>> \o disc[f + 1]]

LEMMA QuietIs ==
  ASSUME Layout, NEW f \in Int
  PROVE  /\ MapThenSumSet(LAMBDA i : tracks[i].pregap, {i \in Padded : tracks[i].index1 = f})
              = Quiet(f)
         /\ Quiet(f) \in Nat /\ Pos(f) = Start(f) + Quiet(f)
  <1> DEFINE T == {i \in Padded : tracks[i].index1 = f}
  <1>1. T \in SUBSET (1..Current) BY PaddedTracks
  <1>2. Quiet(f) = Weight(Gap, T) BY DEF Quiet, First
  <1> HIDE DEF T
  <1>3. MapThenSumSet(LAMBDA i : tracks[i].pregap, T) = Quiet(f) BY <1>1, <1>2, GapSum
  <1>4. Weighted(Gap, T) BY <1>1, GapsWeighed
  <1>5. Quiet(f) \in Nat BY <1>2, <1>4, BagFinite
  <1>6. Before(f + 1) = Before(f) + Quiet(f) BY BeforeNext DEF Quiet
  <1>7. Before(f) \in Nat /\ FirstFileSector \in Nat BY BeforeRises, Numbers
  <1>8. QED BY <1>3, <1>5, <1>6, <1>7 DEF Start, Pos, T

LEMMA DescribedIs ==
  ASSUME Layout
  PROVE  Described = (CHOOSE disc : IsDisc(disc))[FirstFileSector]
  <1> DEFINE Silence(f) == MapThenSumSet(LAMBDA i : tracks[i].pregap,
                                         {i \in Padded : tracks[i].index1 = f})
             old(disc) == [f \in FirstFileSector..fileSectors |->
                            IF f = fileSectors THEN <<>>
                            ELSE [k \in 1..Silence(f) |-> None] \o <<f>> \o disc[f + 1]]
             new(disc) == [f \in FirstFileSector..fileSectors |->
                            IF f = fileSectors THEN <<>>
                            ELSE [k \in 1..Quiet(f) |-> None] \o <<f>> \o disc[f + 1]]
  <1>1. Described = (CHOOSE disc : disc = old(disc))[FirstFileSector] BY DEF Described
  <1>2. \A f \in FirstFileSector..fileSectors : f \in Int BY Numbers
  <1>3. \A f \in FirstFileSector..fileSectors : Silence(f) = Quiet(f) BY <1>2, QuietIs
  <1> HIDE DEF Silence
  <1>4. \A disc : old(disc) = new(disc) BY <1>3
  <1>5. \A disc : IsDisc(disc) <=> disc = new(disc) BY DEF IsDisc
  <1> HIDE DEF old, new
  <1>6. \A disc : IsDisc(disc) <=> disc = old(disc) BY <1>4, <1>5
  <1>7. (CHOOSE disc : IsDisc(disc)) = (CHOOSE disc : disc = old(disc)) BY <1>6
  <1>8. QED BY <1>1, <1>7

\* The rest of the disc in closed form
Rest(f) == [k \in 1..(Sectors - Start(f)) |-> At(Start(f) + k - 1)]

LEMMA RestType ==
  ASSUME Layout, NEW f \in FirstFileSector..fileSectors
  PROVE  /\ Rest(f) \in Seq(Int) /\ Len(Rest(f)) = Sectors - Start(f)
         /\ Sectors - Start(f) \in Nat /\ Start(f) \in Int
         /\ \A k \in 1..(Sectors - Start(f)) : Rest(f)[k] = At(Start(f) + k - 1)
  <1> DEFINE n == Sectors - Start(f)
  <1>1. f \in Int /\ fileSectors \in Int /\ f <= fileSectors BY Numbers
  <1>2. Sectors = Start(fileSectors) /\ Sectors \in Int BY Places
  <1>3. Start(f) \in Int /\ Start(f) <= Start(fileSectors) BY <1>1, Order
  <1>4. n \in Nat BY <1>2, <1>3
  <1>5. Rest(f) = [k \in 1..n |-> At(Start(f) + k - 1)] BY DEF Rest
  <1> HIDE DEF n
  <1>6. \A k \in 1..n : At(Start(f) + k - 1) \in Int BY AtIs
  <1>7. Rest(f) \in [1..n -> Int] BY <1>5, <1>6
  <1>8. Rest(f) \in Seq(Int) /\ Len(Rest(f)) = n BY <1>4, <1>7, SeqDef
  <1>9. \A k \in 1..n : Rest(f)[k] = At(Start(f) + k - 1) BY <1>5
  <1>10. QED BY <1>3, <1>4, <1>8, <1>9 DEF n

\* One step of the recursion: the silence of sector f, the sector, and the rest.
LEMMA RestStep ==
  ASSUME Layout, NEW f \in FileSpan
  PROVE  Rest(f) = [k \in 1..Quiet(f) |-> None] \o <<f>> \o Rest(f + 1)
  <1> DEFINE q == [k \in 1..Quiet(f) |-> None]
             r == Rest(f + 1)
             n == Quiet(f)
             m == Sectors - Start(f)
  <1>1. f \in Int /\ f \in FirstFileSector..fileSectors
        /\ f + 1 \in FirstFileSector..fileSectors /\ f + 1 \in Int
    BY Numbers DEF FileSpan
  <1>2. n \in Nat /\ Pos(f) = Start(f) + n BY <1>1, QuietIs
  <1>3. Start(f) \in Int /\ Pos(f) \in Int /\ Start(f + 1) = Pos(f) + 1 BY <1>1, Order
  <1>4. Sectors \in Int BY Places
  <1>5. /\ r \in Seq(Int) /\ Len(r) = Sectors - Start(f + 1) /\ Sectors - Start(f + 1) \in Nat
        /\ \A k \in 1..(Sectors - Start(f + 1)) : r[k] = At(Start(f + 1) + k - 1)
    BY <1>1, RestType
  <1>6. /\ Rest(f) \in Seq(Int) /\ Len(Rest(f)) = m /\ m \in Nat
        /\ \A k \in 1..m : Rest(f)[k] = At(Start(f) + k - 1)
    BY <1>1, RestType
  <1>7. q \in Seq(Int) /\ Len(q) = n /\ \A k \in 1..n : q[k] = None
    <2>1. q \in [1..n -> Int] BY DEF None
    <2>2. QED BY <1>2, <2>1, SeqDef
  <1>8. <<f>> \in Seq(Int) /\ Len(<<f>>) = 1 /\ <<f>>[1] = f BY <1>1
  <1>9. m = n + 1 + Len(r) BY <1>2, <1>3, <1>4, <1>5
  <1> HIDE DEF q, r, n, m
  <1>10. /\ q \o <<f>> \in Seq(Int) /\ Len(q \o <<f>>) = n + 1
         /\ \A k \in 1..(n + 1) : (q \o <<f>>)[k] = IF k <= n THEN q[k] ELSE <<f>>[k - n]
    BY <1>7, <1>8, ConcatProperties
  <1> DEFINE p == q \o <<f>>
  <1>11. \A k \in 1..(n + 1) : p[k] = IF k <= n THEN None ELSE f
    <2> SUFFICES ASSUME NEW k \in 1..(n + 1) PROVE p[k] = IF k <= n THEN None ELSE f
      OBVIOUS
    <2>1. CASE k <= n
      <3>1. k \in 1..n BY <1>2, <2>1
      <3>2. QED BY <1>7, <1>10, <2>1, <3>1
    <2>2. CASE ~(k <= n)
      <3>1. k - n = 1 BY <1>2, <2>2
      <3>2. QED BY <1>8, <1>10, <2>2, <3>1
    <2>3. QED BY <2>1, <2>2
  <1>12. p \in Seq(Int) /\ Len(p) = n + 1 BY <1>10
  <1> HIDE DEF p
  <1>13. /\ p \o r \in Seq(Int) /\ Len(p \o r) = n + 1 + Len(r)
         /\ \A k \in 1..(n + 1 + Len(r)) : (p \o r)[k] = IF k <= n + 1 THEN p[k] ELSE r[k - (n + 1)]
    <2>1. /\ p \o r \in Seq(Int) /\ Len(p \o r) = Len(p) + Len(r)
          /\ \A k \in 1..(Len(p) + Len(r)) :
               (p \o r)[k] = IF k <= Len(p) THEN p[k] ELSE r[k - Len(p)]
      BY <1>5, <1>12, ConcatProperties
    <2>2. Len(p) = n + 1 BY <1>12
    <2>3. QED BY ONLY <2>1, <2>2
  <1>14. ASSUME NEW k \in 1..m PROVE Rest(f)[k] = (p \o r)[k]
    <2>1. Rest(f)[k] = At(Start(f) + k - 1) BY <1>6
    <2>2. (p \o r)[k] = IF k <= n + 1 THEN p[k] ELSE r[k - (n + 1)] BY <1>9, <1>13
    <2>3. CASE k <= n
      <3>1. k \in 1..(n + 1) /\ k <= n + 1 BY <1>2, <2>3
      <3>2. (p \o r)[k] = None BY <1>11, <2>2, <2>3, <3>1
      <3> DEFINE o == Start(f) + k - 1
      <3>3. o \in Int /\ Start(f) <= o /\ o < Pos(f) BY <1>2, <1>3, <2>3
      <3> HIDE DEF o
      <3>4. At(o) = None BY <3>3, AtIs
      <3>5. QED BY <2>1, <3>2, <3>4 DEF o
    <2>4. CASE k = n + 1
      <3>1. k \in 1..(n + 1) /\ k <= n + 1 /\ ~(k <= n) BY <1>2, <2>4
      <3>2. (p \o r)[k] = f BY <1>11, <2>2, <3>1
      <3>3. Start(f) + k - 1 = Pos(f) BY <1>2, <1>3, <2>4
      <3>4. At(Pos(f)) = f BY AtIs
      <3>5. QED BY <2>1, <3>2, <3>3, <3>4
    <2>5. CASE k > n + 1
      <3> DEFINE j == k - (n + 1)
      <3>1. ~(k <= n + 1) /\ j \in 1..(Sectors - Start(f + 1)) BY <1>2, <1>5, <1>9, <2>5
      <3>2. Start(f + 1) + j - 1 = Start(f) + k - 1 BY <1>2, <1>3, <2>5
      <3> HIDE DEF j
      <3>3. r[j] = At(Start(f + 1) + j - 1) BY <1>5, <3>1
      <3>4. (p \o r)[k] = r[j] BY <2>2, <3>1 DEF j
      <3>5. QED BY <2>1, <3>2, <3>3, <3>4
    <2>6. k \in Int /\ n \in Int BY <1>2, <1>6
    <2>7. k <= n \/ k = n + 1 \/ k > n + 1 BY <2>6
    <2>8. QED BY ONLY <2>3, <2>4, <2>5, <2>7
  <1>15. Rest(f) = p \o r BY <1>6, <1>9, <1>13, <1>14, SeqEqual
  <1>16. QED BY <1>15 DEF p, q, r, n

LEMMA DiscExists ==
  ASSUME Layout
  PROVE  IsDisc([f \in FirstFileSector..fileSectors |-> Rest(f)])
  <1> DEFINE d == [f \in FirstFileSector..fileSectors |-> Rest(f)]
  <1>1. FirstFileSector \in Nat /\ fileSectors \in Nat BY Numbers
  <1>2. \A f \in FirstFileSector..fileSectors : d[f] = Rest(f) OBVIOUS
  <1>3. d = [f \in FirstFileSector..fileSectors |-> d[f]] OBVIOUS
  <1> HIDE DEF d
  <1>4. ASSUME NEW f \in FirstFileSector..fileSectors
        PROVE  d[f] = IF f = fileSectors THEN <<>>
                      ELSE [k \in 1..Quiet(f) |-> None] \o <<f>> \o d[f + 1]
    <2>1. CASE f = fileSectors
      <3>1. Sectors = Start(f) /\ Sectors \in Int BY <2>1, Places
      <3>2. Rest(f) \in Seq(Int) /\ Len(Rest(f)) = Sectors - Start(f) BY RestType
      <3>3. Len(Rest(f)) = 0 BY <3>1, <3>2
      <3>4. Rest(f) = <<>> BY <3>2, <3>3, EmptySeq
      <3>5. QED BY <1>2, <2>1, <3>4
    <2>2. CASE f # fileSectors
      <3>1. f \in FileSpan /\ f + 1 \in FirstFileSector..fileSectors
        BY <1>1, <2>2 DEF FileSpan
      <3>2. Rest(f) = [k \in 1..Quiet(f) |-> None] \o <<f>> \o Rest(f + 1) BY <3>1, RestStep
      <3>3. d[f] = Rest(f) /\ d[f + 1] = Rest(f + 1) BY <1>2, <3>1
      <3>4. QED BY <2>2, <3>2, <3>3
    <2>3. QED BY <2>1, <2>2
  <1>5. IsDisc(d) BY <1>3, <1>4 DEF IsDisc
  <1>6. QED BY <1>5 DEF d

LEMMA DiscUnique ==
  ASSUME Layout, NEW g, NEW h, IsDisc(g), IsDisc(h)
  PROVE  g[FirstFileSector] = h[FirstFileSector]
  <1> DEFINE Differ == {n \in Nat : \E f \in FirstFileSector..fileSectors :
                                      n = fileSectors - f /\ g[f] # h[f]}
             R == OpToRel(<, Nat)
  <1>1. FirstFileSector \in Nat /\ fileSectors \in Nat /\ FirstFileSector < fileSectors
    BY Numbers
  <1>2. Differ = {}
    <2> SUFFICES ASSUME Differ # {} PROVE FALSE OBVIOUS
    <2>1. Differ \subseteq Nat OBVIOUS
    <2>2. IsWellFoundedOn(R, Nat) BY NatLessThanWellFounded
    <2>3. \A a, b \in Nat : a < b => <<a, b>> \in R BY DEF OpToRel
    <2>4. \A f \in FirstFileSector..fileSectors : g[f] # h[f] => fileSectors - f \in Differ
      BY <1>1
    <2>5. \A n \in Differ : n \in Nat /\ \E f \in FirstFileSector..fileSectors :
                                           n = fileSectors - f /\ g[f] # h[f]
      OBVIOUS
    <2> HIDE DEF R, Differ
    <2>6. PICK n \in Differ : \A k \in Differ : <<k, n>> \notin R BY <2>1, <2>2, WFMin
    <2>7. PICK f \in FirstFileSector..fileSectors : n = fileSectors - f /\ g[f] # h[f]
      BY <2>5
    <2>8. f # fileSectors BY <2>7 DEF IsDisc
    <2>9. f + 1 \in FirstFileSector..fileSectors /\ fileSectors - (f + 1) < n
          /\ fileSectors - (f + 1) \in Nat /\ n \in Nat
      BY <1>1, <2>7, <2>8
    <2>10. <<fileSectors - (f + 1), n>> \in R BY <2>3, <2>9
    <2>11. fileSectors - (f + 1) \notin Differ BY ONLY <2>6, <2>10
    <2>12. g[f + 1] = h[f + 1] BY <2>4, <2>9, <2>11
    <2>13. g[f] = [k \in 1..Quiet(f) |-> None] \o <<f>> \o g[f + 1] BY <2>8 DEF IsDisc
    <2>14. h[f] = [k \in 1..Quiet(f) |-> None] \o <<f>> \o h[f + 1] BY <2>8 DEF IsDisc
    <2>15. QED BY <2>7, <2>12, <2>13, <2>14
  <1>3. FirstFileSector \in FirstFileSector..fileSectors
        /\ fileSectors - FirstFileSector \in Nat
    BY <1>1
  <1>4. QED BY <1>2, <1>3

\* The disc has a sector at every place, and At says which.
LEMMA DescribedPlaces ==
  ASSUME Layout
  PROVE  /\ Described \in Seq(Int) /\ Len(Described) = Sectors /\ Sectors \in Nat
         /\ \A o \in 0..(Sectors - 1) : Described[o + 1] = At(o)
  <1> DEFINE d == [f \in FirstFileSector..fileSectors |-> Rest(f)]
             c == CHOOSE disc : IsDisc(disc)
  <1>1. FirstFileSector \in FirstFileSector..fileSectors BY Numbers
  <1>2. IsDisc(d) BY DiscExists
  <1>3. d[FirstFileSector] = Rest(FirstFileSector) BY <1>1
  <1> HIDE DEF d
  <1>4. IsDisc(c) BY <1>2
  <1> HIDE DEF c
  <1>5. Described = Rest(FirstFileSector) BY <1>2, <1>3, <1>4, DiscUnique, DescribedIs DEF c
  <1>6. Start(FirstFileSector) = 0 BY Order
  <1>7. Sectors \in Int BY Places
  <1>8. /\ Described \in Seq(Int) /\ Len(Described) = Sectors - 0 /\ Sectors - 0 \in Nat
        /\ \A k \in 1..(Sectors - 0) : Described[k] = At(0 + k - 1)
    BY <1>1, <1>5, <1>6, RestType
  <1>9. ASSUME NEW o \in 0..(Sectors - 1) PROVE Described[o + 1] = At(o)
    <2>1. o + 1 \in 1..(Sectors - 0) /\ 0 + (o + 1) - 1 = o BY <1>7
    <2>2. QED BY <1>8, <2>1
  <1>10. QED BY <1>7, <1>8, <1>9

-----------------------------------------------------------------------------
(* Reading.                                                                *)

\* The silence passed, as audio_cd_locate adds it up.
LEMMA PassedSum ==
  ASSUME Layout, NEW T \in SUBSET Padded
  PROVE  MapThenSumSet(LAMBDA i : DiscIndex1(i) - DiscIndex0(i), T) = Weight(Gap, T)
  <1> DEFINE PassedSums(sums) ==
               sums = [s \in SUBSET T |-> IF s = {} THEN 0
                                          ELSE LET x == CHOOSE x \in s : TRUE
                                               IN  (DiscIndex1(x) - DiscIndex0(x)) + sums[s \ {x}]]
             g == CHOOSE sums : PassedSums(sums)
  <1>1. MapThenSumSet(LAMBDA i : DiscIndex1(i) - DiscIndex0(i), T) = g[T]
    BY DEF MapThenSumSet, MapThenFoldSet
  <1>2. ASSUME NEW x \in T PROVE Gap[x] = DiscIndex1(x) - DiscIndex0(x)
    <2>1. x \in Padded /\ x \in 1..Current BY PaddedTracks
    <2>2. DiscIndex1(x) \in Int /\ tracks[x].pregap \in Nat /\ Gap[x] = tracks[x].pregap
      BY <2>1, Places, Numbers
    <2>3. DiscIndex0(x) = DiscIndex1(x) - tracks[x].pregap BY <2>1 DEF DiscIndex0
    <2>4. QED BY <2>2, <2>3
  <1>3. ASSUME NEW sums PROVE PassedSums(sums) <=> SumsAre(Gap, T, sums)
    <2> DEFINE step(s) == IF s = {} THEN 0
                          ELSE LET x == CHOOSE x \in s : TRUE
                               IN  (DiscIndex1(x) - DiscIndex0(x)) + sums[s \ {x}]
               term(s) == IF s = {} THEN 0
                          ELSE LET x == CHOOSE x \in s : TRUE IN Gap[x] + sums[s \ {x}]
    <2>1. ASSUME NEW s \in SUBSET T PROVE step(s) = term(s)
      <3>1. CASE s = {} BY <3>1
      <3>2. CASE s # {}
        <4>1. (CHOOSE x \in s : TRUE) \in T BY <3>2
        <4>2. QED BY <1>2, <3>2, <4>1
      <3>3. QED BY <3>1, <3>2
    <2>2. PassedSums(sums) <=> sums = [s \in SUBSET T |-> step(s)] OBVIOUS
    <2>3. SumsAre(Gap, T, sums) <=> sums = [s \in SUBSET T |-> term(s)] BY DEF SumsAre
    <2> HIDE DEF step, term, PassedSums
    <2>4. [s \in SUBSET T |-> step(s)] = [s \in SUBSET T |-> term(s)] BY <2>1
    <2>5. QED BY <2>2, <2>3, <2>4
  <1>4. T \in SUBSET (1..Current) BY PaddedTracks
  <1>5. Weighted(Gap, T) BY <1>4, GapsWeighed
  <1>6. \E sums : SumsAre(Gap, T, sums) BY <1>5, SumsExist
  <1> HIDE DEF g, PassedSums
  <1>7. PassedSums(g) BY <1>3, <1>6, Zenon DEF g
  <1>8. SumsAre(Gap, T, g) BY <1>3, <1>7
  <1>9. QED BY <1>1, <1>5, <1>8, SumsWeigh

\* Padded tracks whose silence ends behind a place
Ahead(o) == {i \in Padded : o < DiscIndex1(i)}

\* Sector of the file at a place, if it is no silence
Sector(o) == FirstFileSector + o
               - MapThenSumSet(LAMBDA i : DiscIndex1(i) - DiscIndex0(i), Passed(o))

LEMMA LocateIs ==
  ASSUME NEW o
  PROVE  Locate(o) =
           IF Ahead(o) = {} THEN [file |-> Sector(o), available |-> Sectors - o]
           ELSE IF o < DiscIndex0(Min(Ahead(o)))
                THEN [file |-> Sector(o), available |-> DiscIndex0(Min(Ahead(o))) - o]
                ELSE [file |-> None, available |-> DiscIndex1(Min(Ahead(o))) - o]
  BY DEF Locate, Ahead, Sector

\* A sector of the file is at its place.
LEMMA SectorIs ==
  ASSUME Layout, NEW f \in FileSpan
  PROVE  /\ Sector(Pos(f)) = f
         /\ Ahead(Pos(f)) = {i \in Padded : f < First(i)}
  <1>1. f \in Int /\ FirstFileSector \in Nat BY Numbers DEF FileSpan
  <1>2. Pos(f) \in Int BY <1>1, Order
  <1>3. ASSUME NEW i \in Padded
        PROVE  DiscIndex1(i) \in Int /\ (Pos(f) < DiscIndex1(i) <=> f < First(i))
    <2>1. i \in 1..Current /\ First(i) \in Int BY PaddedTracks, Numbers
    <2>2. DiscIndex1(i) = Pos(First(i)) /\ DiscIndex1(i) \in Int BY <2>1, Places
    <2>3. f < First(i) => Pos(f) < Start(First(i)) BY <1>1, <2>1, Order
    <2>4. Start(First(i)) <= Pos(First(i)) /\ Start(First(i)) \in Int BY <2>1, Order
    <2>5. First(i) <= f => Pos(First(i)) <= Pos(f) BY <1>1, <2>1, Order
    <2>6. f < First(i) \/ First(i) <= f BY <1>1, <2>1
    <2>7. QED BY <1>2, <2>2, <2>3, <2>4, <2>5, <2>6
  <1>4. Ahead(Pos(f)) = {i \in Padded : f < First(i)} BY <1>3 DEF Ahead
  <1>5. Passed(Pos(f)) = {i \in Padded : First(i) < f + 1}
    <2>1. \A i \in Padded : Pos(f) >= DiscIndex1(i) <=> First(i) < f + 1
      <3> SUFFICES ASSUME NEW i \in Padded
                   PROVE  Pos(f) >= DiscIndex1(i) <=> First(i) < f + 1
        OBVIOUS
      <3>1. First(i) \in Int BY PaddedTracks, Numbers
      <3>2. QED BY <1>1, <1>2, <1>3, <3>1
    <2>2. QED BY <2>1 DEF Passed
  <1>6. Passed(Pos(f)) \in SUBSET Padded BY DEF Passed
  <1>7. MapThenSumSet(LAMBDA i : DiscIndex1(i) - DiscIndex0(i), Passed(Pos(f))) = Before(f + 1)
    BY <1>5, <1>6, PassedSum DEF Before
  <1>8. f + 1 \in Int BY <1>1
  <1>9. Before(f + 1) \in Nat BY <1>8, BeforeRises
  <1>10. Sector(Pos(f)) = FirstFileSector + Pos(f) - Before(f + 1) BY <1>7 DEF Sector
  <1>11. Pos(f) = f - FirstFileSector + Before(f + 1) BY DEF Pos
  <1>12. Sector(Pos(f)) = f BY <1>1, <1>9, <1>10, <1>11
  <1>13. QED BY <1>4, <1>12

\* Sectors of the file with no silence between them lie side by side.
LEMMA Flat ==
  ASSUME Layout, NEW f \in FileSpan, NEW g \in (f + 1)..fileSectors,
         \A i \in Padded : f < First(i) => g <= First(i)
  PROVE  /\ Start(g) = Pos(f) + (g - f)
         /\ \A k \in 0..(g - f - 1) : f + k \in FileSpan /\ Pos(f + k) = Pos(f) + k
  <1>1. f \in Int /\ f \in Nat /\ FirstFileSector \in Nat /\ fileSectors \in Nat /\ g \in Int
    BY Numbers DEF FileSpan
  <1>2. ASSUME NEW h \in Int, f + 1 <= h, h <= g
        PROVE  Before(h) = Before(f + 1) /\ Before(h) \in Nat
    <2>1. \A i \in Padded : f + 1 > First(i) \/ First(i) >= h
      <3> SUFFICES ASSUME NEW i \in Padded PROVE f + 1 > First(i) \/ First(i) >= h OBVIOUS
      <3>1. First(i) \in Int BY PaddedTracks, Numbers
      <3>2. f < First(i) => g <= First(i) OBVIOUS
      <3>3. QED BY <1>1, <1>2, <3>1, <3>2
    <2>2. f + 1 \in Int BY <1>1
    <2>3. QED BY <1>2, <2>1, <2>2, BeforeRises
  <1>3. f + 1 <= g /\ g <= fileSectors BY <1>1
  <1>4. Before(g) = Before(f + 1) /\ Before(g) \in Nat BY <1>1, <1>2, <1>3
  <1>5. Start(g) = Pos(f) + (g - f) BY <1>1, <1>4 DEF Start, Pos
  <1>6. ASSUME NEW k \in 0..(g - f - 1)
        PROVE  f + k \in FileSpan /\ Pos(f + k) = Pos(f) + k
    <2>1. f + k \in FileSpan BY <1>1, <1>3 DEF FileSpan
    <2>2. f + k + 1 \in Int /\ f + 1 <= f + k + 1 /\ f + k + 1 <= g BY <1>1
    <2>3. Before(f + k + 1) = Before(f + 1) /\ Before(f + k + 1) \in Nat BY <1>2, <2>2
    <2>4. Pos(f + k) = (f + k) - FirstFileSector + Before(f + k + 1) BY DEF Pos
    <2>5. Pos(f) = f - FirstFileSector + Before(f + 1) BY DEF Pos
    <2>6. Pos(f + k) = Pos(f) + k BY <1>1, <2>3, <2>4, <2>5
    <2>7. QED BY <2>1, <2>6
  <1>7. QED BY <1>5, <1>6

\* The first of some tracks.
LEMMA FirstOf ==
  ASSUME Layout, NEW T \in SUBSET Padded, T # {}
  PROVE  Min(T) \in T /\ \A i \in T : First(Min(T)) <= First(i)
  <1> DEFINE R == OpToRel(<, Nat)
  <1>1. \A i \in T : i \in 1..Current /\ i \in Nat /\ First(i) \in Nat BY PaddedTracks, Numbers
  <1>2. IsWellFoundedOn(R, Nat) BY NatLessThanWellFounded
  <1>3. \A a, b \in Nat : a < b => <<a, b>> \in R BY DEF OpToRel
  <1> HIDE DEF R
  <1>4. T \subseteq Nat BY <1>1
  <1>5. PICK m \in T : \A i \in T : <<i, m>> \notin R BY <1>2, <1>4, WFMin
  <1>6. \A i \in T : m <= i
    <2> SUFFICES ASSUME NEW i \in T, ~(m <= i) PROVE FALSE OBVIOUS
    <2>1. i < m BY <1>1
    <2>2. <<i, m>> \in R BY <1>1, <1>3, <2>1
    <2>3. QED BY <1>5, <2>2
  <1>7. Min(T) \in T /\ \A i \in T : Min(T) <= i BY <1>6 DEF Min
  <1>8. ASSUME NEW i \in T PROVE First(Min(T)) <= First(i)
    <2>1. Min(T) = i \/ Min(T) < i BY <1>1, <1>7
    <2>2. Min(T) < i => First(Min(T)) < First(i) BY <1>1, <1>7, FirstsRise
    <2>3. QED BY <1>1, <1>7, <2>1, <2>2
  <1>9. QED BY <1>7, <1>8

\* What a chunk holds: at.available sectors that follow each other in the file, or
\* are silence
Sound(at, o) ==
  /\ at.available \in Nat /\ at.available > 0 /\ at.file \in Int
  /\ o + at.available <= Sectors
  /\ \A k \in 0..(at.available - 1) :
       At(o + k) = IF at.file = None THEN None ELSE at.file + k

\* A chunk of the file ends where the next silence begins, or with the disc.
LEMMA FileChunk ==
  ASSUME Layout, NEW f \in FileSpan
  PROVE  Sound(Locate(Pos(f)), Pos(f))
  <1> DEFINE o == Pos(f)
             ahead == Ahead(Pos(f))
  <1>1. f \in Int /\ f \in Nat /\ fileSectors \in Nat /\ f < fileSectors
    BY Numbers DEF FileSpan
  <1>2. Pos(f) \in Int BY <1>1, Order
  <1>3. Sector(Pos(f)) = f /\ ahead = {i \in Padded : f < First(i)} BY SectorIs
  <1>4. Sectors = Start(fileSectors) /\ Sectors \in Int BY Places
  <1>5. ASSUME NEW g \in (f + 1)..fileSectors,
               \A i \in Padded : f < First(i) => g <= First(i),
               NEW at, at = [file |-> f, available |-> Start(g) - Pos(f)]
        PROVE  Sound(at, Pos(f))
    <2>1. g \in Int /\ g - f \in Nat /\ g - f > 0 BY <1>1
    <2>2. /\ Start(g) = Pos(f) + (g - f)
          /\ \A k \in 0..(g - f - 1) : f + k \in FileSpan /\ Pos(f + k) = Pos(f) + k
      BY <1>5, Flat
    <2>3. Start(g) - Pos(f) = g - f BY <1>2, <2>1, <2>2
    <2>4. at.available = g - f /\ at.file = f BY <1>5, <2>3
    <2>5. Start(g) <= Start(fileSectors) BY <1>1, <2>1, Order
    <2>6. Pos(f) + (g - f) <= Sectors BY <1>4, <2>2, <2>5
    <2>7. \A k \in 0..(g - f - 1) : At(Pos(f) + k) = f + k
      <3> SUFFICES ASSUME NEW k \in 0..(g - f - 1) PROVE At(Pos(f) + k) = f + k OBVIOUS
      <3>1. f + k \in FileSpan /\ Pos(f + k) = Pos(f) + k BY <2>2
      <3>2. At(Pos(f + k)) = f + k BY <3>1, AtIs
      <3>3. QED BY <3>1, <3>2
    <2>8. f # None BY <1>1 DEF None
    <2>9. QED BY <1>1, <2>1, <2>4, <2>6, <2>7, <2>8 DEF Sound
  <1>6. CASE ahead = {}
    <2>1. Locate(Pos(f)) = [file |-> f, available |-> Start(fileSectors) - Pos(f)]
      BY <1>3, <1>4, <1>6, LocateIs
    <2>2. fileSectors \in (f + 1)..fileSectors BY <1>1
    <2>3. \A i \in Padded : f < First(i) => fileSectors <= First(i) BY <1>3, <1>6
    <2>4. QED BY <1>5, <2>1, <2>2, <2>3
  <1>7. CASE ahead # {}
    <2> DEFINE n == Min(ahead)
    <2>1. ahead \in SUBSET Padded BY <1>3
    <2>2. n \in ahead /\ \A i \in ahead : First(n) <= First(i) BY <1>7, <2>1, FirstOf
    <2>3. Locate(Pos(f)) =
            IF Pos(f) < DiscIndex0(n)
            THEN [file |-> f, available |-> DiscIndex0(n) - Pos(f)]
            ELSE [file |-> None, available |-> DiscIndex1(n) - Pos(f)]
      BY <1>3, <1>7, LocateIs
    <2> HIDE DEF n
    <2>4. n \in Padded /\ f < First(n) /\ First(n) \in Nat /\ First(n) < fileSectors
      BY <1>3, <2>2, PaddedTracks, Numbers
    <2>5. DiscIndex0(n) = Start(First(n)) BY <2>4, Places
    <2>6. Pos(f) < Start(First(n)) BY <1>1, <2>4, Order
    <2>7. Locate(Pos(f)) = [file |-> f, available |-> Start(First(n)) - Pos(f)]
      BY <2>3, <2>5, <2>6
    <2>8. First(n) \in (f + 1)..fileSectors BY <1>1, <2>4
    <2>9. \A i \in Padded : f < First(i) => First(n) <= First(i) BY <1>3, <2>2
    <2>10. QED BY <1>5, <2>7, <2>8, <2>9
  <1>8. QED BY <1>6, <1>7

\* A chunk of silence ends where the track's first sector lies.
LEMMA SilentChunk ==
  ASSUME Layout, NEW f \in FileSpan, NEW o \in Int, 0 <= o, Start(f) <= o, o < Pos(f)
  PROVE  Sound(Locate(o), o)
  <1>1. f \in Int /\ fileSectors \in Nat /\ f < fileSectors BY Numbers DEF FileSpan
  <1>2. Start(f) \in Int /\ Pos(f) \in Int BY <1>1, Order
  <1>3. Sectors = Start(fileSectors) /\ Sectors \in Int BY Places
  <1>4. PICK j \in Padded : First(j) = f
    <2> SUFFICES ASSUME \A j \in Padded : First(j) # f PROVE FALSE OBVIOUS
    <2>1. {j \in Padded : First(j) = f} = {} OBVIOUS
    <2>2. Quiet(f) = 0 BY <2>1, WeightEmpty DEF Quiet
    <2>3. Pos(f) = Start(f) + Quiet(f) BY <1>1, QuietIs
    <2>4. QED BY <1>2, <2>2, <2>3
  <1>5. ASSUME NEW i \in Padded
        PROVE  /\ o < DiscIndex1(i) <=> f <= First(i)
               /\ First(i) \in Int
    <2>1. i \in 1..Current /\ First(i) \in Int BY PaddedTracks, Numbers
    <2>2. DiscIndex1(i) = Pos(First(i)) /\ DiscIndex1(i) \in Int BY <2>1, Places
    <2>3. First(i) < f => Pos(First(i)) < Start(f) BY <1>1, <2>1, Order
    <2>4. f <= First(i) => Pos(f) <= Pos(First(i)) BY <1>1, <2>1, Order
    <2>5. First(i) < f \/ f <= First(i) BY <1>1, <2>1
    <2>6. QED BY <1>1, <1>2, <2>1, <2>2, <2>3, <2>4, <2>5
  <1>6. Ahead(o) = {i \in Padded : f <= First(i)} BY <1>5 DEF Ahead
  <1> DEFINE n == Min(Ahead(o))
  <1>7. j \in Ahead(o) BY <1>1, <1>4, <1>6
  <1>8. n \in Ahead(o) /\ \A i \in Ahead(o) : First(n) <= First(i)
    BY <1>6, <1>7, FirstOf
  <1>9. Locate(o) = IF o < DiscIndex0(n)
                    THEN [file |-> Sector(o), available |-> DiscIndex0(n) - o]
                    ELSE [file |-> None, available |-> DiscIndex1(n) - o]
    BY <1>7, LocateIs
  <1> HIDE DEF n
  <1>10. n \in Padded /\ First(n) = f
    <2>1. n \in Padded /\ f <= First(n) BY <1>6, <1>8
    <2>2. First(n) <= f BY <1>4, <1>7, <1>8
    <2>3. First(n) \in Int BY <1>5, <2>1
    <2>4. QED BY <1>1, <2>1, <2>2, <2>3
  <1>11. DiscIndex0(n) = Start(f) /\ DiscIndex1(n) = Pos(f)
    <2>1. n \in 1..Current BY <1>10, PaddedTracks
    <2>2. QED BY <1>10, <2>1, Places
  <1>12. Locate(o) = [file |-> None, available |-> Pos(f) - o] BY <1>2, <1>9, <1>11
  <1>13. \A k \in 0..(Pos(f) - o - 1) : At(o + k) = None
    <2> SUFFICES ASSUME NEW k \in 0..(Pos(f) - o - 1) PROVE At(o + k) = None OBVIOUS
    <2> DEFINE p == o + k
    <2>1. p \in Int /\ Start(f) <= p /\ p < Pos(f) BY <1>2
    <2> HIDE DEF p
    <2>2. At(p) = None BY <2>1, AtIs
    <2>3. QED BY <2>2 DEF p
  <1>14. Pos(f) < Start(fileSectors) BY <1>1, Order
  <1>15. Locate(o).file = None /\ Locate(o).available = Pos(f) - o BY <1>12
  <1>16. Pos(f) - o \in Nat /\ Pos(f) - o > 0 /\ o + (Pos(f) - o) <= Sectors
    BY <1>2, <1>3, <1>14
  <1>17. None \in Int BY DEF None
  <1>18. QED BY <1>13, <1>15, <1>16, <1>17 DEF Sound

\* Wherever a read starts, what audio_cd_locate finds there is what the disc holds.
LEMMA LocateSound ==
  ASSUME Layout, NEW o \in 0..(Sectors - 1)
  PROVE  Sound(Locate(o), o)
  <1>1. PICK f \in FileSpan : Start(f) <= o /\ o <= Pos(f) BY Found DEF FileSpan
  <1>2. f \in Int BY Numbers DEF FileSpan
  <1>3. Pos(f) \in Int /\ o \in Int /\ 0 <= o BY <1>2, Order
  <1>4. CASE o = Pos(f) BY <1>4, FileChunk
  <1>5. CASE o < Pos(f) BY <1>1, <1>3, <1>5, SilentChunk
  <1>6. QED BY <1>1, <1>3, <1>4, <1>5

\* Sectors of the chunk that is read at o, up to `to'
Chunk(o, to) == IF Locate(o).available < to - o THEN Locate(o).available ELSE to - o

\* The content of the chunk
Content(o, to) ==
  [k \in 1..Chunk(o, to) |-> IF Locate(o).file = None THEN None ELSE Locate(o).file + k - 1]

\* The reads up to `to' of all the places behind `from', as Read computes them
IsRead(sectors, from, to) ==
  sectors = [o \in from..to |->
               IF o = to THEN <<>> ELSE Content(o, to) \o sectors[o + Chunk(o, to)]]

LEMMA ReadIs ==
  ASSUME NEW from, NEW to
  PROVE  Read(from, to) = (CHOOSE sectors : IsRead(sectors, from, to))[from]
  BY DEF Read, IsRead, Content, Chunk

\* One chunk is a piece of the disc.
LEMMA ContentIs ==
  ASSUME Layout, NEW to \in 0..Sectors, NEW o \in 0..(to - 1)
  PROVE  /\ Chunk(o, to) \in 1..(to - o)
         /\ Content(o, to) = SubSeq(Described, o + 1, o + Chunk(o, to))
  <1> DEFINE at == Locate(o)
             n == Chunk(o, to)
             c == Content(o, to)
             d == SubSeq(Described, o + 1, o + Chunk(o, to))
  <1>1. /\ Described \in Seq(Int) /\ Len(Described) = Sectors /\ Sectors \in Nat
        /\ \A p \in 0..(Sectors - 1) : Described[p + 1] = At(p)
    BY DescribedPlaces
  <1>2. o \in 0..(Sectors - 1) /\ o \in Nat /\ to \in Nat /\ to <= Sectors /\ o < to BY <1>1
  <1>3. Sound(at, o) BY <1>2, LocateSound
  <1>4. n = IF at.available < to - o THEN at.available ELSE to - o BY DEF Chunk
  <1>5. c = [k \in 1..n |-> IF at.file = None THEN None ELSE at.file + k - 1]
    BY DEF Content
  <1> HIDE DEF at, n, c
  <1>6. n \in 1..(to - o) /\ n \in Nat /\ n <= at.available BY <1>2, <1>3, <1>4 DEF Sound
  <1>7. \A k \in 1..n : Described[o + k] = IF at.file = None THEN None ELSE at.file + k - 1
    <2> SUFFICES ASSUME NEW k \in 1..n
                 PROVE  Described[o + k] = IF at.file = None THEN None ELSE at.file + k - 1
      OBVIOUS
    <2> DEFINE l == k - 1
    <2>1. l \in 0..(at.available - 1) /\ o + l \in 0..(Sectors - 1)
      <3>1. at.available \in Nat /\ o + at.available <= Sectors BY <1>3 DEF Sound
      <3>2. k \in Nat /\ 1 <= k /\ k <= n BY <1>6
      <3>3. Sectors \in Nat BY <1>1
      <3>4. QED BY ONLY <1>2, <1>6, <3>1, <3>2, <3>3
    <2>2. (o + l) + 1 = o + k /\ l \in Int BY <1>2
    <2>3. at.file + l = at.file + k - 1 BY <1>3 DEF Sound
    <2> HIDE DEF l
    <2>4. At(o + l) = IF at.file = None THEN None ELSE at.file + l BY <1>3, <2>1 DEF Sound
    <2>5. Described[(o + l) + 1] = At(o + l) BY <1>1, <2>1
    <2>6. QED BY <2>2, <2>3, <2>4, <2>5
  <1>8. /\ d \in Seq(Int) /\ Len(d) = n
        /\ \A k \in 1..n : d[k] = Described[o + k]
    <2> DEFINE m == o + 1
               q == o + n
    <2>1. m \in Int /\ q \in Int /\ m <= q /\ q - m + 1 = n BY <1>2, <1>6
    <2>2. \A p \in m..q : p \in 1..Len(Described)
      BY <1>1, <1>2, <1>6
    <2>3. \A p \in m..q : Described[p] \in Int BY <1>1, <2>2, ElementOfSeq
    <2>4. \A k \in 1..n : m + k - 1 = o + k BY <1>2, <1>6
    <2>5. d = SubSeq(Described, m, q) BY DEF n
    <2> HIDE DEF m, q, d
    <2>6. /\ SubSeq(Described, m, q) \in Seq(Int)
          /\ Len(SubSeq(Described, m, q)) = IF m <= q THEN q - m + 1 ELSE 0
          /\ \A k \in 1..q - m + 1 : SubSeq(Described, m, q)[k] = Described[m + k - 1]
      BY ONLY <2>1, <2>3, SubSeqProperties
    <2>7. Len(d) = n /\ d \in Seq(Int) BY <2>1, <2>5, <2>6
    <2>8. \A k \in 1..n : d[k] = Described[m + k - 1] BY <2>1, <2>5, <2>6
    <2>9. QED BY <2>4, <2>7, <2>8
  <1> HIDE DEF d
  <1>9. c \in Seq(Int) /\ Len(c) = n /\ \A k \in 1..n : c[k] = Described[o + k]
    <2>1. \A k \in 1..n : c[k] = Described[o + k] BY <1>5, <1>7
    <2>2. \A k \in 1..n : c[k] \in Int BY <1>8, <2>1, ElementOfSeq
    <2>3. c \in [1..n -> Int] BY <1>5, <2>2
    <2>4. QED BY <1>6, <2>1, <2>3, SeqDef
  <1>10. c = d BY <1>8, <1>9, SeqEqual
  <1>11. QED BY <1>6, <1>10 DEF c, d, n

\* The pieces of the disc satisfy the recursion ...
LEMMA ReadExists ==
  ASSUME Layout, NEW to \in 0..Sectors, NEW from \in 0..to
  PROVE  IsRead([o \in from..to |-> SubSeq(Described, o + 1, to)], from, to)
  <1> DEFINE r == [o \in from..to |-> SubSeq(Described, o + 1, to)]
  <1>1. Described \in Seq(Int) /\ Len(Described) = Sectors /\ Sectors \in Nat
    BY DescribedPlaces
  <1>2. \A o \in from..to : r[o] = SubSeq(Described, o + 1, to) OBVIOUS
  <1>3. r = [o \in from..to |-> r[o]] OBVIOUS
  <1> HIDE DEF r
  <1>4. ASSUME NEW o \in from..to
        PROVE  r[o] = IF o = to THEN <<>> ELSE Content(o, to) \o r[o + Chunk(o, to)]
    <2>1. o \in Nat /\ to \in Nat /\ from \in Nat /\ to <= Sectors BY <1>1
    <2>2. CASE o = to
      <3>1. o + 1 \in Int /\ to \in Int /\ to < o + 1 BY <2>1, <2>2
      <3>2. SubSeq(Described, o + 1, to) = <<>> BY <3>1, SubSeqEmpty
      <3>3. QED BY <1>2, <2>2, <3>2
    <2>3. CASE o # to
      <3> DEFINE n == Chunk(o, to)
      <3>1. o \in 0..(to - 1) BY <2>1, <2>3
      <3>2. n \in 1..(to - o) /\ Content(o, to) = SubSeq(Described, o + 1, o + n)
        BY <3>1, ContentIs
      <3> HIDE DEF n
      <3>3. o + n \in from..to BY <2>1, <3>2
      <3>4. /\ o + 1 \in 1..(Len(Described) + 1)
            /\ o + n \in ((o + 1) - 1)..Len(Described)
            /\ to \in (o + n)..Len(Described)
        BY <1>1, <2>1, <3>1, <3>2
      <3>5. SubSeq(Described, o + 1, o + n) \o SubSeq(Described, o + n + 1, to)
              = SubSeq(Described, o + 1, to)
        BY ONLY <1>1, <3>4, ConcatAdjacentSubSeq
      <3>6. r[o + n] = SubSeq(Described, o + n + 1, to) BY <1>2, <3>3
      <3>7. r[o] = Content(o, to) \o r[o + n] BY <1>2, <3>2, <3>5, <3>6
      <3>8. QED BY <2>3, <3>7 DEF n
    <2>4. QED BY <2>2, <2>3
  <1>5. IsRead(r, from, to) BY <1>3, <1>4 DEF IsRead
  <1>6. QED BY <1>5 DEF r

\* ... and nothing else does: each read goes on where its chunk ends.
LEMMA ReadUnique ==
  ASSUME Layout, NEW to \in 0..Sectors, NEW from \in 0..to, NEW g, NEW h,
         IsRead(g, from, to), IsRead(h, from, to)
  PROVE  g[from] = h[from]
  <1> DEFINE Differ == {n \in Nat : \E o \in from..to : n = to - o /\ g[o] # h[o]}
             R == OpToRel(<, Nat)
  <1>1. Sectors \in Nat BY DescribedPlaces
  <1>2. from \in Nat /\ to \in Nat BY <1>1
  <1>3. Differ = {}
    <2> SUFFICES ASSUME Differ # {} PROVE FALSE OBVIOUS
    <2>1. Differ \subseteq Nat OBVIOUS
    <2>2. IsWellFoundedOn(R, Nat) BY NatLessThanWellFounded
    <2>3. \A a, b \in Nat : a < b => <<a, b>> \in R BY DEF OpToRel
    <2>4. \A o \in from..to : g[o] # h[o] => to - o \in Differ BY <1>2
    <2>5. \A n \in Differ : n \in Nat /\ \E o \in from..to : n = to - o /\ g[o] # h[o]
      OBVIOUS
    <2> HIDE DEF R, Differ
    <2>6. PICK n \in Differ : \A k \in Differ : <<k, n>> \notin R BY <2>1, <2>2, WFMin
    <2>7. PICK o \in from..to : n = to - o /\ g[o] # h[o] BY <2>5
    <2>8. o # to BY <2>7 DEF IsRead
    <2> DEFINE p == o + Chunk(o, to)
    <2>9. o \in 0..(to - 1) BY <1>2, <2>8
    <2>10. Chunk(o, to) \in 1..(to - o) BY <2>9, ContentIs
    <2>11. p \in from..to /\ to - p < n /\ to - p \in Nat /\ n \in Nat
      BY <1>2, <2>7, <2>9, <2>10
    <2>12. g[o] = Content(o, to) \o g[p] BY <2>8 DEF IsRead
    <2>13. h[o] = Content(o, to) \o h[p] BY <2>8 DEF IsRead
    <2> HIDE DEF p
    <2>14. <<to - p, n>> \in R BY <2>3, <2>11
    <2>15. to - p \notin Differ BY ONLY <2>6, <2>14
    <2>16. g[p] = h[p] BY <2>4, <2>11, <2>15
    <2>17. QED BY <2>7, <2>12, <2>13, <2>16
  <1>4. from \in from..to /\ to - from \in Nat BY <1>2
  <1>5. QED BY <1>3, <1>4

\* Every read is the piece of the described disc that it asks for.
LEMMA ReadPiece ==
  ASSUME Layout, NEW from \in 0..Sectors, NEW to \in from..Sectors
  PROVE  Read(from, to) = SubSeq(Described, from + 1, to)
  <1> DEFINE r == [o \in from..to |-> SubSeq(Described, o + 1, to)]
             c == CHOOSE sectors : IsRead(sectors, from, to)
  <1>1. Sectors \in Nat BY DescribedPlaces
  <1>2. to \in 0..Sectors /\ from \in 0..to /\ from \in from..to BY <1>1
  <1>3. r[from] = SubSeq(Described, from + 1, to) BY <1>2
  <1>4. IsRead(r, from, to) BY <1>2, ReadExists
  <1> HIDE DEF r
  <1>5. IsRead(c, from, to) BY <1>4
  <1>6. Read(from, to) = c[from] BY ReadIs
  <1> HIDE DEF c
  <1>7. c[from] = r[from] BY <1>2, <1>4, <1>5, ReadUnique
  <1>8. QED BY <1>3, <1>6, <1>7

\* Every read of an accepted disc, wherever it starts and ends, returns what its sheet
\* describes: audio_cd_locate and audio_cd_read_bytes cross silence and tracks rightly.
THEOREM ReadsAreDescribed == Spec => []ReadsDescribed
  <1>1. IInv => ReadsDescribed
    <2> SUFFICES ASSUME IInv, phase = "ready"
                 PROVE  /\ Sectors = Len(Described)
                        /\ \A from \in 0..Sectors : \A to \in from..Sectors :
                             Read(from, to) = SubSeq(Described, from + 1, to)
      BY DEF ReadsDescribed
    <2>1. Layout BY DEF IInv, Layout
    <2>2. QED BY <2>1, DescribedPlaces, ReadPiece
  <1>2. QED BY <1>1, InitInv, Inductive, PTL DEF Spec

-----------------------------------------------------------------------------
(* The tracks.                                                             *)

\* Each track begins, reaches its INDEX 01, and ends before the next begins.
LEMMA TrackOrder ==
  ASSUME Layout
  PROVE  /\ \A i \in 1..Current :
              /\ DiscIndex0(i) \in Int /\ DiscIndex1(i) \in Int
              /\ DiscIndex0(i) <= DiscIndex1(i)
         /\ \A i \in 2..Current : DiscIndex1(i - 1) < DiscIndex0(i)
         /\ DiscIndex0(1) = 0 /\ DiscIndex1(Current) < Sectors
  <1>1. /\ Current \in Nat \ {0} /\ FirstFileSector \in Nat /\ fileSectors \in Nat
        /\ 1 \in 1..Current /\ Current \in 1..Current
    BY Numbers
  <1>2. ASSUME NEW i \in 1..Current
        PROVE  /\ First(i) \in Nat /\ DiscIndex1(i) = Pos(First(i)) /\ DiscIndex1(i) \in Int
               /\ Inserted(i) = Before(First(i) + 1) /\ Before(First(i) + 1) \in Nat
               /\ DiscIndex1(i) = First(i) - FirstFileSector + Before(First(i) + 1)
    <2>1. First(i) \in Nat /\ DiscIndex1(i) = Pos(First(i)) /\ DiscIndex1(i) \in Int
      BY Numbers, Places
    <2>2. First(i) + 1 \in Int BY <2>1
    <2>3. Inserted(i) = Before(First(i) + 1) /\ Before(First(i) + 1) \in Nat
      BY <2>2, InsertedIs, BeforeRises
    <2>4. QED BY <2>1, <2>3 DEF Pos
  <1>3. ASSUME NEW i \in 2..Current
        PROVE  /\ DiscIndex0(i) \in Int /\ DiscIndex0(i) <= DiscIndex1(i)
               /\ DiscIndex1(i - 1) < DiscIndex0(i)
    <2>1. i \in 1..Current /\ i - 1 \in 1..Current /\ i > 1 BY <1>1
    <2>2. First(i - 1) < First(i) /\ First(i - 1) \in Nat /\ First(i) \in Nat
      BY <2>1, Numbers
    <2>3. DiscIndex1(i - 1) = Pos(First(i - 1)) BY <1>2, <2>1
    <2>4. Pos(First(i - 1)) < Start(First(i)) BY <2>2, Order
    <2>5. /\ Pos(First(i - 1)) \in Int /\ Start(First(i)) \in Int
          /\ Start(First(i)) <= Pos(First(i)) /\ Pos(First(i)) \in Int
      BY <2>2, Order
    <2>6. DiscIndex1(i) = Pos(First(i)) BY <1>2, <2>1
    <2>7. CASE i \in Padded
      <3>1. DiscIndex0(i) = Start(First(i)) BY <2>7, Places
      <3>2. QED BY <2>3, <2>4, <2>5, <2>6, <3>1
    <2>8. CASE i \notin Padded /\ tracks[i].index0 # None
      <3> DEFINE x == tracks[i].index0
      <3>1. DiscIndex0(i) = x - FirstFileSector + Inserted(i) BY <2>1, <2>8 DEF DiscIndex0
      <3>2. x \in Int /\ First(i - 1) < x /\ x <= First(i) BY <2>1, <2>8, Numbers
      <3> HIDE DEF x
      <3>3. Inserted(i) = Before(First(i) + 1) /\ Before(First(i) + 1) \in Nat
            /\ DiscIndex1(i) = First(i) - FirstFileSector + Before(First(i) + 1)
        BY <1>2, <2>1
      <3>4. Before(First(i - 1) + 1) \in Nat
            /\ DiscIndex1(i - 1) = First(i - 1) - FirstFileSector + Before(First(i - 1) + 1)
        BY <1>2, <2>1
      <3>5. First(i - 1) + 1 \in Int /\ First(i) + 1 \in Int /\ First(i - 1) + 1 <= First(i) + 1
        BY <2>2
      <3>6. Before(First(i - 1) + 1) <= Before(First(i) + 1) BY <3>5, BeforeRises
      <3>7. DiscIndex0(i) = x - FirstFileSector + Before(First(i) + 1) BY <3>1, <3>3
      <3> DEFINE a == Before(First(i - 1) + 1)
                 b == Before(First(i) + 1)
      <3>8. a \in Nat /\ b \in Nat /\ a <= b BY <3>3, <3>4, <3>6
      <3>9. /\ DiscIndex1(i - 1) = First(i - 1) - FirstFileSector + a
            /\ DiscIndex1(i) = First(i) - FirstFileSector + b
            /\ DiscIndex0(i) = x - FirstFileSector + b
        BY <3>3, <3>4, <3>7
      <3> HIDE DEF a, b
      <3>10. QED BY ONLY <1>1, <2>2, <3>2, <3>8, <3>9
    <2>9. CASE i \notin Padded /\ tracks[i].index0 = None
      <3>1. DiscIndex0(i) = DiscIndex1(i) BY <2>1, <2>9 DEF DiscIndex0
      <3>2. QED BY <2>3, <2>4, <2>5, <2>6, <3>1
    <2>10. QED BY <2>7, <2>8, <2>9
  <1>4. DiscIndex0(1) = DiscIndex1(1)
    <2>1. 1 \notin Padded BY <1>1 DEF Padded
    <2>2. QED BY <2>1 DEF DiscIndex0
  <1>5. DiscIndex1(1) = 0
    <2>1. First(1) = FirstFileSector BY Numbers
    <2>2. QED BY <1>1, <1>2, <2>1, Order
  <1>6. ASSUME NEW i \in 1..Current
        PROVE  DiscIndex0(i) \in Int /\ DiscIndex1(i) \in Int /\ DiscIndex0(i) <= DiscIndex1(i)
    <2>1. i = 1 \/ i \in 2..Current BY <1>1
    <2>2. DiscIndex1(i) \in Int BY <1>2
    <2>3. CASE i = 1 BY <1>4, <2>2, <2>3
    <2>4. CASE i \in 2..Current BY <1>3, <2>2, <2>4
    <2>5. QED BY <2>1, <2>3, <2>4
  <1>7. DiscIndex1(Current) < Sectors
    <2>1. First(Current) < fileSectors /\ First(Current) \in Nat BY <1>1, Numbers
    <2>2. Pos(First(Current)) < Start(fileSectors) BY <1>1, <2>1, Order
    <2>3. QED BY <1>1, <1>2, <2>2, Places
  <1>8. QED BY <1>3, <1>4, <1>5, <1>6, <1>7

\* The tracks begin in their order on the disc, too.
LEMMA StartsRise ==
  ASSUME Layout
  PROVE  \A i, j \in 1..Current : i < j => DiscIndex0(i) < DiscIndex0(j)
  <1> DEFINE f == [i \in 1..Current |-> DiscIndex0(i)]
  <1>1. Current \in Nat BY Numbers
  <1>2. \A i \in 1..Current : f[i] = DiscIndex0(i) OBVIOUS
  <1>3. \A i \in 1..Current : f[i] \in Int BY <1>2, TrackOrder
  <1> HIDE DEF f
  <1>4. ASSUME NEW i \in 2..Current PROVE f[i - 1] < f[i]
    <2>1. i \in 1..Current /\ i - 1 \in 1..Current BY <1>1
    <2>2. /\ DiscIndex0(i - 1) \in Int /\ DiscIndex1(i - 1) \in Int /\ DiscIndex0(i) \in Int
          /\ DiscIndex0(i - 1) <= DiscIndex1(i - 1)
      BY <2>1, TrackOrder
    <2>3. DiscIndex1(i - 1) < DiscIndex0(i) BY TrackOrder
    <2>4. f[i - 1] = DiscIndex0(i - 1) /\ f[i] = DiscIndex0(i) BY <1>2, <2>1
    <2>5. QED BY <2>2, <2>3, <2>4
  <1>5. \A i, j \in 1..Current : i < j => f[i] < f[j] BY <1>1, <1>3, <1>4, Rising
  <1>6. QED BY <1>2, <1>5

\* Each track is followed by the next one.
LEMMA TrackEnds ==
  ASSUME Layout, NEW i \in 1..Current
  PROVE  /\ EndLba(i) \in Int /\ DiscIndex1(i) < EndLba(i)
         /\ \A j \in 1..Current : i < j => EndLba(i) <= DiscIndex0(j)
  <1>1. Current \in Nat BY Numbers
  <1>2. CASE i = Current
    <2>1. EndLba(i) = Sectors BY <1>1, <1>2 DEF EndLba
    <2>2. Sectors \in Int /\ DiscIndex1(i) < Sectors BY <1>2, Places, TrackOrder
    <2>3. \A j \in 1..Current : ~(i < j) BY <1>1, <1>2
    <2>4. QED BY <2>1, <2>2, <2>3
  <1>3. CASE i < Current
    <2>1. i + 1 \in 1..Current /\ i + 1 \in 2..Current /\ (i + 1) - 1 = i BY <1>1, <1>3
    <2>2. EndLba(i) = DiscIndex0(i + 1) BY <1>3 DEF EndLba
    <2>3. DiscIndex0(i + 1) \in Int BY <2>1, TrackOrder
    <2>4. DiscIndex1((i + 1) - 1) < DiscIndex0(i + 1) BY <2>1, TrackOrder
    <2>5. DiscIndex1(i) < DiscIndex0(i + 1) BY <2>1, <2>4
    <2>6. ASSUME NEW j \in 1..Current, i < j PROVE DiscIndex0(i + 1) <= DiscIndex0(j)
      <3>1. j = i + 1 \/ i + 1 < j BY <2>6
      <3>2. i + 1 < j => DiscIndex0(i + 1) < DiscIndex0(j) BY <2>1, StartsRise
      <3>3. DiscIndex0(j) \in Int BY TrackOrder
      <3>4. QED BY <2>3, <3>1, <3>2, <3>3
    <2>7. QED BY <2>2, <2>3, <2>5, <2>6
  <1>4. QED BY <1>1, <1>2, <1>3

\* A position in a track is found to be in it.
LEMMA TrackFound ==
  ASSUME Layout, NEW i \in 1..Current, NEW lba \in DiscIndex0(i)..(EndLba(i) - 1)
  PROVE  TrackAtLba(lba) = i
  <1> DEFINE T == {1} \cup {j \in 1..Current : lba >= DiscIndex0(j)}
  <1>1. Current \in Nat /\ 1 \in 1..Current BY Numbers
  <1>2. DiscIndex0(i) \in Int /\ EndLba(i) \in Int BY TrackOrder, TrackEnds
  <1>3. lba \in Int /\ DiscIndex0(i) <= lba /\ lba < EndLba(i) BY <1>2
  <1>4. i \in T BY <1>2, <1>3
  <1>5. \A j \in T : i >= j
    <2> SUFFICES ASSUME NEW j \in T, ~(i >= j) PROVE FALSE OBVIOUS
    <2>1. j \in 1..Current /\ i < j /\ 1 <= i BY <1>1
    <2>2. j # 1 /\ lba >= DiscIndex0(j) BY <2>1
    <2>3. EndLba(i) <= DiscIndex0(j) /\ DiscIndex0(j) \in Int BY <2>1, TrackEnds, TrackOrder
    <2>4. QED BY <1>2, <1>3, <2>2, <2>3
  <1>6. \A j \in T : j \in 1..Current BY <1>1
  <1>7. TrackAtLba(lba) = Max(T) BY DEF TrackAtLba
  <1> HIDE DEF T
  <1> DEFINE m == CHOOSE m \in T : \A j \in T : m >= j
  <1>8. m \in T /\ \A j \in T : m >= j BY <1>4, <1>5
  <1>9. Max(T) = m BY DEF Max
  <1> HIDE DEF m
  <1>10. m >= i /\ i >= m /\ m \in Int /\ i \in Int BY <1>1, <1>4, <1>5, <1>6, <1>8
  <1>11. QED BY <1>7, <1>9, <1>10

\* Whatever sheet is accepted, its tracks cover the disc from its first sector to its
\* last, one after the other, and a position is reported as that of the track it is in.
THEOREM TracksCover == Spec => []TracksTile
  <1>1. IInv => TracksTile
    <2> SUFFICES ASSUME IInv, phase = "ready" PROVE TracksTile BY DEF TracksTile
    <2>1. Layout BY DEF IInv, Layout
    <2>2. DiscIndex0(1) = 0 BY <2>1, TrackOrder
    <2>3. ASSUME NEW i \in 1..Current
          PROVE  Described[DiscIndex1(i) + 1] = tracks[i].index1
      <3>1. /\ First(i) \in FileSpan /\ First(i) \in Nat
            /\ DiscIndex1(i) = Pos(First(i))
        <4>1. FirstFileSector <= First(i) /\ First(i) < fileSectors /\ First(i) \in Nat
          BY <2>1, Numbers
        <4>2. FirstFileSector \in Nat /\ fileSectors \in Nat BY <2>1, Numbers
        <4>3. QED BY <2>1, <4>1, <4>2, Places DEF FileSpan
      <3>2. DiscIndex1(i) \in 0..(Sectors - 1)
        <4>1. FirstFileSector \in Int /\ fileSectors \in Int /\ Sectors = Start(fileSectors)
              /\ Sectors \in Int
          BY <2>1, Numbers, Places
        <4>2. FirstFileSector <= First(i) /\ First(i) < fileSectors BY <2>1, Numbers
        <4>3. Pos(FirstFileSector) <= Pos(First(i)) /\ Pos(FirstFileSector) = 0
          BY <2>1, <3>1, <4>1, <4>2, Order
        <4>4. Pos(First(i)) < Start(fileSectors) BY <2>1, <3>1, <4>1, <4>2, Order
        <4>5. Pos(First(i)) \in Int BY <2>1, <3>1, Order
        <4>6. QED BY <3>1, <4>1, <4>3, <4>4, <4>5
      <3>3. Described[DiscIndex1(i) + 1] = At(DiscIndex1(i)) BY <2>1, <3>2, DescribedPlaces
      <3>4. At(Pos(First(i))) = First(i) BY <2>1, <3>1, AtIs
      <3>5. QED BY <3>1, <3>3, <3>4 DEF First
    <2>4. ASSUME NEW i \in 1..Current
          PROVE  DiscIndex0(i) <= DiscIndex1(i) /\ DiscIndex1(i) < EndLba(i)
      BY <2>1, TrackOrder, TrackEnds
    <2>5. ASSUME NEW i \in 1..Current, NEW lba \in DiscIndex0(i)..(EndLba(i) - 1)
          PROVE  TrackAtLba(lba) = i
      BY <2>1, TrackFound
    <2>6. QED BY <2>2, <2>3, <2>4, <2>5 DEF TracksTile
  <1>2. QED BY <1>1, InitInv, Inductive, PTL DEF Spec

=============================================================================
