-------------------------- MODULE ImageParts_proofs --------------------------
(***************************************************************************)
(* What TLAPS proves of ImageParts for every size of parts, card, request  *)
(* and fault set: types, that the cached position of a part is its real    *)
(* one, the refinement of FlatImage, and that a creation is all or nothing. *)
(***************************************************************************)
EXTENDS ImageParts, FiniteSetTheorems, TLAPS

IInv == TypeOK /\ PositionKnown

Phases == {"idle", "create", "stale", "clean", "failed"}

-----------------------------------------------------------------------------
\* Fields of the record of a creation, one at a time and as the actions set them.
LEMMA PhaseSet ==
  ASSUME NEW c \in CreateType, NEW x \in Phases
  PROVE  [c EXCEPT !.phase = x] \in CreateType
  BY DEF CreateType, Phases

LEMMA PartSet ==
  ASSUME NEW c \in CreateType, NEW p \in 0..MaxParts
  PROVE  [c EXCEPT !.part = p] \in CreateType /\ [c EXCEPT !.part = p].left = c.left
  BY DEF CreateType

LEMMA LeftSet ==
  ASSUME NEW c \in CreateType, NEW n \in Nat
  PROVE  [c EXCEPT !.left = n] \in CreateType
  BY DEF CreateType

LEMMA KeptSet ==
  ASSUME NEW c \in CreateType, NEW k \in BOOLEAN
  PROVE  [c EXCEPT !.kept = k] \in CreateType
  BY DEF CreateType

LEMMA CleanSet ==
  ASSUME NEW c \in CreateType, 0 \in 0..MaxParts
  PROVE  [c EXCEPT !.phase = "clean", !.part = 0] \in CreateType
<1>1. "clean" \in Phases BY DEF Phases
<1>. DEFINE d == [c EXCEPT !.phase = "clean"]
<1>2. d \in CreateType BY <1>1, PhaseSet
<1>3. [d EXCEPT !.part = 0] \in CreateType BY <1>2, PartSet
<1> QED BY <1>3

LEMMA NextPartSet ==
  ASSUME NEW c \in CreateType, NEW p \in 0..MaxParts, NEW n \in Nat
  PROVE  [c EXCEPT !.part = p, !.left = n] \in CreateType
<1>. DEFINE d == [c EXCEPT !.part = p]
<1>1. d \in CreateType BY PartSet
<1>2. [d EXCEPT !.left = n] \in CreateType BY <1>1, LeftSet
<1> QED BY <1>2

LEMMA PartKept ==
  ASSUME NEW c \in CreateType, NEW p \in 0..MaxParts
  PROVE  [c EXCEPT !.part = p, !.kept = TRUE] \in CreateType
<1>. DEFINE d == [c EXCEPT !.part = p]
<1>1. d \in CreateType BY PartSet
<1>2. [d EXCEPT !.kept = TRUE] \in CreateType BY <1>1, KeptSet
<1> QED BY <1>2

LEMMA FailedSet ==
  ASSUME NEW c \in CreateType, NEW k \in BOOLEAN
  PROVE  [c EXCEPT !.phase = "failed", !.kept = k] \in CreateType
<1>1. "failed" \in Phases BY DEF Phases
<1>. DEFINE d == [c EXCEPT !.phase = "failed"]
<1>2. d \in CreateType BY <1>1, PhaseSet
<1>3. [d EXCEPT !.kept = k] \in CreateType BY <1>2, KeptSet
<1> QED BY <1>3

\* Arithmetic of parts.
LEMMA RoundUp ==
  ASSUME NEW k \in Nat, NEW b \in Nat, b > 0, NEW m \in Nat, k <= m * b
  PROVE  (k + b - 1) \div b <= m /\ (k + b - 1) \div b \in Nat
  OBVIOUS

LEMMA Factor ==
  ASSUME NEW b \in Nat, NEW m \in Nat \ {0}, NEW u \in Nat, m * b <= u
  PROVE  b <= u
  OBVIOUS

\* An image that is offered has no more parts than there may be.
LEMMA PartCountBound ==
  ASSUME ImageAssumption, NEW n \in Sizes
  PROVE  n \in Nat /\ PartCount(n) \in 0..MaxParts
<1>1. n \in Nat /\ n <= MaxParts * PartSize BY DEF ImageAssumption
<1>2. PartSize \in Nat /\ PartSize > 0 /\ MaxParts \in Nat BY DEF ImageAssumption
<1> QED BY <1>1, <1>2, RoundUp DEF PartCount

\* The part and the place of an address.
LEMMA PartAndPlace ==
  ASSUME ImageAssumption, TypeOK, NEW a \in Nat, Inside(a)
  PROVE  /\ PartOf(a) \in Parts /\ PlaceOf(a) \in Nat
         /\ PlaceOf(a) < size[PartOf(a)] /\ size[PartOf(a)] \in 0..MaxUnits
<1>1. count \in 0..MaxParts /\ MaxParts \in Nat /\ PartSize \in Nat \ {0}
  BY DEF TypeOK, ImageAssumption
<1>2. ASSUME NEW b \in Nat \ {0} PROVE a \div b \in Nat /\ a % b \in Nat OBVIOUS
<1>3. PartOf(a) \in Nat /\ PlaceOf(a) \in Nat BY <1>1, <1>2 DEF PartOf, PlaceOf
<1>4. PartOf(a) \in Parts BY <1>1, <1>3 DEF Inside, Parts
<1> QED BY <1>3, <1>4 DEF Inside, TypeOK

-----------------------------------------------------------------------------
(* Each action preserves the invariant.                                    *)

LEMMA InitInv == ASSUME ImageAssumption, Init PROVE IInv
<1>. USE DEF Init
<1>1. create \in CreateType BY DEF Idle, CreateType, ImageAssumption
<1>2. size \in [Parts -> 0..MaxUnits]
  <2>1. PICK main \in 0..MaxUnits, stale \in SUBSET (1..MaxParts - 1) :
          size = [p \in Parts |-> IF p = 0 THEN main ELSE IF p \in stale THEN PartSize ELSE 0]
    OBVIOUS
  <2>2. PartSize \in 0..MaxUnits /\ 0 \in 0..MaxUnits
    <3>1. /\ PartSize \in Nat /\ MaxParts \in Nat \ {0} /\ MaxUnits \in Nat
          /\ MaxParts * PartSize <= MaxUnits
      BY DEF ImageAssumption
    <3>2. PartSize <= MaxUnits BY <3>1, Factor
    <3> QED BY <3>1, <3>2
  <2> QED BY <2>1, <2>2
<1>3. exists \subseteq Parts BY DEF Parts, ImageAssumption
<1>4. req \in RequestType BY DEF NoRequest, RequestType, ImageAssumption
<1>5. data \in [Parts -> [Units -> Values]] /\ out \in [Units -> Values] BY DEF ImageAssumption
<1>6. pos \in [Parts -> 0..MaxUnits] /\ cached \in [Parts -> 0..MaxUnits + 1]
  BY DEF Unknown, ImageAssumption
<1>7. 0 \in 0..MaxParts BY DEF ImageAssumption
<1>8. TypeOK BY <1>1, <1>2, <1>3, <1>4, <1>5, <1>6, <1>7 DEF TypeOK
<1>9. PositionKnown BY DEF PositionKnown
<1> QED BY <1>8, <1>9 DEF IInv

\* Steps that create and remove parts, and leave the open ones and the requests alone.
LEMMA CardStep ==
  ASSUME IInv, exists' \subseteq Parts, size' \in [Parts -> 0..MaxUnits],
         data' \in [Parts -> [Units -> Values]], create' \in CreateType,
         creates' \in Nat, asked' \in Nat,
         UNCHANGED <<mounted, readOnly, count, pos, cached, astray, req, moved, out, result,
                     requests, fault>>
  PROVE  IInv'
<1>1. TypeOK' BY DEF IInv, TypeOK
<1>2. PositionKnown' BY DEF IInv, PositionKnown
<1> QED BY <1>1, <1>2 DEF IInv

LEMMA CreateImageInv ==
  ASSUME ImageAssumption, IInv, NEW n \in Sizes, CreateImage(n) PROVE IInv'
<1>. USE DEF IInv, TypeOK, CreateImage, cardVars, openVars, ioVars
<1>1. create' \in CreateType BY PartCountBound DEF CreateType, ImageAssumption
<1>2. creates' \in Nat /\ asked' \in Nat OBVIOUS
<1> QED BY <1>1, <1>2, CardStep

\* The size that a part is created with.
LEMMA PartSizeBound ==
  ASSUME ImageAssumption, create \in CreateType
  PROVE  /\ Least(create.left, PartSize) \in 0..MaxUnits
         /\ create.left - Least(create.left, PartSize) \in Nat
<1>1. create.left \in Nat BY DEF CreateType
<1>2. /\ PartSize \in Nat /\ MaxParts \in Nat \ {0} /\ MaxUnits \in Nat
      /\ MaxParts * PartSize <= MaxUnits
  BY DEF ImageAssumption
<1>3. PartSize <= MaxUnits BY <1>2, Factor
<1> QED BY <1>1, <1>2, <1>3 DEF Least

LEMMA CreatePartInv == ASSUME ImageAssumption, IInv, CreatePart PROVE IInv'
<1>. DEFINE p == create.part
            n == Least(create.left, PartSize)
<1>1. create \in CreateType /\ size \in [Parts -> 0..MaxUnits] /\ exists \subseteq Parts
      /\ data \in [Parts -> [Units -> Values]] /\ creates \in Nat /\ asked \in Nat
  BY DEF IInv, TypeOK
<1>2. p \in 0..MaxParts /\ create.parts \in 0..MaxParts /\ create.left \in Nat
  BY <1>1 DEF CreateType
<1>3. p < create.parts BY DEF CreatePart
<1>4. p \in Parts /\ p + 1 \in 0..MaxParts /\ 0 \in 0..MaxParts
  BY <1>2, <1>3 DEF Parts, ImageAssumption
<1>5. n \in 0..MaxUnits /\ create.left - n \in Nat /\ 0 \in 0..MaxUnits
  BY <1>1, PartSizeBound
<1>6. "junk" \in Values /\ "zero" \in Values BY DEF ImageAssumption
<1>7. UNCHANGED <<creates, asked, mounted, readOnly, count, pos, cached, astray, req, moved,
                  out, result, requests, fault>>
  BY DEF CreatePart, openVars, ioVars
<1>8. \/ /\ exists' = exists \cup {p} /\ size' = [size EXCEPT ![p] = n]
         /\ data' = [data EXCEPT ![p] = [u \in Units |-> IF u = 0 THEN "zero" ELSE "junk"]]
         /\ create' = [create EXCEPT !.part = p + 1, !.left = create.left - n]
      \/ /\ UNCHANGED <<exists, size, data>>
         /\ create' = [create EXCEPT !.phase = "clean", !.part = 0]
      \/ /\ exists' = exists \cup {p}
         /\ \E grown \in {0, n} : size' = [size EXCEPT ![p] = grown]
         /\ data' = [data EXCEPT ![p] = [u \in Units |-> "junk"]]
         /\ create' = [create EXCEPT !.phase = "clean", !.part = 0]
  BY DEF CreatePart, cardVars
<1>. HIDE DEF p, n
<1>9. create' \in CreateType
  <2>1. [create EXCEPT !.part = p + 1, !.left = create.left - n] \in CreateType
    BY <1>1, <1>4, <1>5, NextPartSet
  <2>2. [create EXCEPT !.phase = "clean", !.part = 0] \in CreateType
    BY <1>1, <1>4, CleanSet
  <2> QED BY <1>8, <2>1, <2>2, Zenon
<1>10. size' \in [Parts -> 0..MaxUnits] BY ONLY <1>1, <1>5, <1>8
<1>11. data' \in [Parts -> [Units -> Values]]
  <2>1. /\ [u \in Units |-> IF u = 0 THEN "zero" ELSE "junk"] \in [Units -> Values]
        /\ [u \in Units |-> "junk"] \in [Units -> Values]
    BY <1>6
  <2> QED BY ONLY <1>1, <1>8, <2>1
<1>12. exists' \subseteq Parts BY ONLY <1>1, <1>4, <1>8
<1> QED BY <1>1, <1>7, <1>9, <1>10, <1>11, <1>12, CardStep

LEMMA PartsCreatedInv == ASSUME ImageAssumption, IInv, PartsCreated PROVE IInv'
<1>1. create \in CreateType BY DEF IInv, TypeOK
<1>2. [create EXCEPT !.phase = "stale"] \in CreateType BY <1>1, PhaseSet DEF Phases
<1> QED BY <1>1, <1>2, CardStep DEF PartsCreated, cardVars, openVars, ioVars, IInv, TypeOK

\* Removing a part.
LEMMA RemoveType ==
  ASSUME ImageAssumption, IInv, NEW p, Remove(p)
  PROVE  /\ exists' \subseteq Parts /\ size' \in [Parts -> 0..MaxUnits]
         /\ data' \in [Parts -> [Units -> Values]]
<1>1. 0 \in 0..MaxUnits BY DEF ImageAssumption
<1> QED BY <1>1 DEF Remove, IInv, TypeOK

LEMMA RemoveStaleInv == ASSUME ImageAssumption, IInv, RemoveStale PROVE IInv'
<1>1. create \in CreateType /\ creates \in Nat /\ asked \in Nat BY DEF IInv, TypeOK
<1>2. create.part + 1 \in 0..MaxParts /\ 0 \in 0..MaxParts
  <2>1. create.part \in 0..MaxParts /\ create.part < MaxParts
    BY <1>1 DEF CreateType, RemoveStale
  <2> QED BY <2>1 DEF ImageAssumption
<1>3. create' \in CreateType
  <2>1. [create EXCEPT !.part = create.part + 1] \in CreateType BY <1>1, <1>2, PartSet
  <2>2. [create EXCEPT !.phase = "clean", !.part = 0] \in CreateType BY <1>1, <1>2, CleanSet
  <2> QED BY <2>1, <2>2, Zenon DEF RemoveStale
<1>4. /\ exists' \subseteq Parts /\ size' \in [Parts -> 0..MaxUnits]
      /\ data' \in [Parts -> [Units -> Values]]
  <2>1. Remove(create.part) \/ UNCHANGED <<exists, size, data>> BY DEF RemoveStale, cardVars
  <2> QED BY <2>1, RemoveType DEF IInv, TypeOK
<1>5. UNCHANGED <<creates, asked, mounted, readOnly, count, pos, cached, astray, req, moved,
                  out, result, requests, fault>>
  BY DEF RemoveStale, openVars, ioVars
<1> QED BY <1>1, <1>3, <1>4, <1>5, CardStep

LEMMA CreatedInv == ASSUME ImageAssumption, IInv, Created PROVE IInv'
<1>1. Idle \in CreateType BY DEF Idle, CreateType, ImageAssumption
<1>2. create.want \in Nat BY DEF IInv, TypeOK, CreateType
<1>3. /\ create' = Idle /\ asked' = create.want
      /\ UNCHANGED <<exists, size, data, creates, mounted, readOnly, count, pos, cached,
                     astray, req, moved, out, result, requests, fault>>
  BY DEF Created, cardVars, openVars, ioVars
<1> QED BY <1>1, <1>2, <1>3, CardStep DEF IInv, TypeOK

LEMMA CleanUpInv == ASSUME ImageAssumption, IInv, CleanUp PROVE IInv'
<1>1. create \in CreateType /\ creates \in Nat /\ asked \in Nat BY DEF IInv, TypeOK
<1>2. create.part + 1 \in 0..MaxParts
  <2>1. create.part \in 0..MaxParts /\ create.part < MaxParts
    BY <1>1 DEF CreateType, CleanUp, Cleaned
  <2> QED BY <2>1 DEF ImageAssumption
<1>3. create' \in CreateType
  <2>1. [create EXCEPT !.part = create.part + 1] \in CreateType BY <1>1, <1>2, PartSet
  <2>2. [create EXCEPT !.part = create.part + 1, !.kept = TRUE] \in CreateType
    BY <1>1, <1>2, PartKept
  <2> QED BY <2>1, <2>2, Zenon DEF CleanUp
<1>4. /\ exists' \subseteq Parts /\ size' \in [Parts -> 0..MaxUnits]
      /\ data' \in [Parts -> [Units -> Values]]
  <2>1. Remove(create.part) \/ UNCHANGED <<exists, size, data>> BY DEF CleanUp, cardVars
  <2> QED BY <2>1, RemoveType DEF IInv, TypeOK
<1>5. UNCHANGED <<creates, asked, mounted, readOnly, count, pos, cached, astray, req, moved,
                  out, result, requests, fault>>
  BY DEF CleanUp, openVars, ioVars
<1> QED BY <1>1, <1>3, <1>4, <1>5, CardStep

LEMMA CreationFailedInv == ASSUME ImageAssumption, IInv, CreationFailed PROVE IInv'
<1>1. Idle \in CreateType BY DEF Idle, CreateType, ImageAssumption
<1>2. create.kept \in BOOLEAN BY DEF IInv, TypeOK, CreateType
<1>3. [Idle EXCEPT !.phase = "failed", !.kept = create.kept] \in CreateType
  BY <1>1, <1>2, FailedSet
<1>4. create' = [Idle EXCEPT !.phase = "failed", !.kept = create.kept] BY DEF CreationFailed
<1>5. UNCHANGED <<exists, size, data, creates, asked, mounted, readOnly, count, pos, cached,
                  astray, req, moved, out, result, requests, fault>>
  BY DEF CreationFailed, cardVars, openVars, ioVars
<1>6. create' \in CreateType BY <1>3, <1>4, Zenon
<1> QED BY <1>5, <1>6, CardStep DEF IInv, TypeOK

LEMMA LeaveFileNameInv == ASSUME ImageAssumption, IInv, LeaveFileName PROVE IInv'
<1>1. Idle \in CreateType BY DEF Idle, CreateType, ImageAssumption
<1> QED BY <1>1, CardStep DEF LeaveFileName, cardVars, openVars, ioVars, IInv, TypeOK

LEMMA DeleteMainInv == ASSUME ImageAssumption, IInv, DeleteMain PROVE IInv'
<1>1. /\ Remove(0) /\ asked' = 0
      /\ UNCHANGED <<create, creates, mounted, readOnly, count, pos, cached, astray, req,
                     moved, out, result, requests, fault>>
  BY DEF DeleteMain, openVars, ioVars
<1>2. create \in CreateType /\ creates \in Nat BY DEF IInv, TypeOK
<1> QED BY <1>1, <1>2, RemoveType, CardStep

LEMMA PowerLossInv == ASSUME ImageAssumption, IInv, PowerLoss PROVE IInv'
<1>1. Idle \in CreateType BY DEF Idle, CreateType, ImageAssumption
<1> QED BY <1>1, CardStep DEF PowerLoss, cardVars, openVars, ioVars, IInv, TypeOK

\* Steps that leave the card and its creations alone.
LEMMA OpenStep ==
  ASSUME IInv, UNCHANGED <<exists, size, create, creates, asked>>,
         data' \in [Parts -> [Units -> Values]], out' \in [Units -> Values],
         mounted' \in BOOLEAN, readOnly' \in BOOLEAN, count' \in 0..MaxParts,
         pos' \in [Parts -> 0..MaxUnits], cached' \in [Parts -> 0..MaxUnits + 1],
         astray' \subseteq Parts, req' \in RequestType, moved' \in Nat,
         result' \in {"none", "busy", "ok", "error"}, requests' \in Nat, fault' \in BOOLEAN,
         PositionKnown'
  PROVE  IInv'
<1>1. TypeOK' BY DEF IInv, TypeOK
<1> QED BY <1>1 DEF IInv

LEMMA MountInv ==
  ASSUME ImageAssumption, IInv, NEW ro \in BOOLEAN, Mount(ro) PROVE IInv'
<1>. USE DEF IInv, TypeOK
<1>1. pos' \in [Parts -> 0..MaxUnits] /\ cached' \in [Parts -> 0..MaxUnits + 1]
      /\ astray' \subseteq Parts
  BY DEF Mount, Unknown, ImageAssumption
<1>2. count' \in 0..MaxParts BY DEF Mount, ImageAssumption
<1>3. PositionKnown' BY DEF Mount, PositionKnown
<1> QED BY <1>1, <1>2, <1>3, OpenStep DEF Mount, cardVars, createVars

LEMMA UnmountInv == ASSUME ImageAssumption, IInv, Unmount PROVE IInv'
<1>. USE DEF IInv, TypeOK
<1>1. count' \in 0..MaxParts BY DEF Unmount, ImageAssumption
<1>2. PositionKnown' BY DEF Unmount, PositionKnown
<1> QED BY <1>1, <1>2, OpenStep DEF Unmount, cardVars, createVars

LEMMA BeginInv ==
  ASSUME ImageAssumption, IInv, NEW r \in Requests, Begin(r) PROVE IInv'
<1>. USE DEF IInv, TypeOK
<1>1. r \in RequestType BY DEF ImageAssumption
<1>2. PositionKnown' BY DEF Begin, PositionKnown, openVars
<1>3. req' \in RequestType /\ moved' \in Nat /\ requests' \in Nat /\ fault' \in BOOLEAN
  <2>1. req' = r /\ moved' = 0 /\ requests' = requests + 1 /\ fault' = FALSE BY DEF Begin
  <2>2. requests \in Nat OBVIOUS
  <2>3. req' \in RequestType
    <3>1. r = req' BY <2>1
    <3> QED BY ONLY <1>1, <3>1
  <2>4. moved' \in Nat /\ requests' \in Nat BY ONLY <2>1, <2>2
  <2>5. fault' \in BOOLEAN BY ONLY <2>1
  <2> QED BY <2>3, <2>4, <2>5
<1>4. result' \in {"none", "busy", "ok", "error"} BY DEF Begin
<1>5. UNCHANGED <<exists, size, data, create, creates, asked, mounted, readOnly, count, pos,
                  cached, astray, out>>
  BY DEF Begin, cardVars, createVars, openVars
<1> QED BY <1>2, <1>3, <1>4, <1>5, OpenStep

LEMMA OutsideImageInv == ASSUME ImageAssumption, IInv, OutsideImage PROVE IInv'
<1>. USE DEF IInv, TypeOK
<1>1. PositionKnown' BY DEF OutsideImage, PositionKnown, openVars
<1> QED BY <1>1, OpenStep DEF OutsideImage, cardVars, createVars, openVars

\* A failed seek moves the file only when it marks the part.
LEMMA SeekFailsInv == ASSUME ImageAssumption, IInv, SeekFails PROVE IInv'
<1>1. TypeOK /\ PositionKnown BY DEF IInv
<1>2. req.at \in Nat /\ moved \in Nat BY <1>1 DEF TypeOK, RequestType
<1>. DEFINE a == req.at + moved
            p == PartOf(a)
            o == PlaceOf(a)
<1>3. a \in Nat /\ Inside(a) BY <1>2 DEF SeekFails
<1>. HIDE DEF a
<1>4. p \in Parts /\ o \in Nat /\ o < size[p] /\ size[p] \in 0..MaxUnits
  BY <1>1, <1>3, PartAndPlace
<1>5. PICK where \in {pos[p]} \cup {s \in 1..o - 1 : s % SeekStep = 0} :
        /\ pos' = [pos EXCEPT ![p] = where]
        /\ astray' = IF where = pos[p] THEN astray ELSE astray \cup {p}
  BY DEF SeekFails, a
<1>6. /\ UNCHANGED <<exists, size, data, create, creates, asked, mounted, readOnly, count,
                     cached, req, moved, out, requests>>
      /\ result' = "error" /\ fault' = TRUE
  BY DEF SeekFails, cardVars, createVars, openVars
<1>. HIDE DEF p, o
<1>7. where \in 0..MaxUnits
  <2>1. pos[p] \in 0..MaxUnits BY <1>1, <1>4 DEF TypeOK
  <2>2. MaxUnits \in Nat BY DEF ImageAssumption
  <2> QED BY <1>4, <1>5, <2>1, <2>2
<1>8. pos' \in [Parts -> 0..MaxUnits] /\ pos'[p] = where
      /\ \A q \in Parts : q # p => pos'[q] = pos[q]
  BY <1>1, <1>4, <1>5, <1>7 DEF TypeOK
<1>9. astray' \subseteq Parts /\ astray \subseteq astray' /\ (where # pos[p] => p \in astray')
  BY <1>1, <1>4, <1>5 DEF TypeOK
<1>10. PositionKnown'
  <2>1. SUFFICES ASSUME mounted, NEW q \in Parts \ astray'
                 PROVE  cached[q] \in {pos'[q], Unknown}
    BY <1>6 DEF PositionKnown, Unknown
  <2>2. cached[q] \in {pos[q], Unknown} BY <1>1, <1>9, <2>1 DEF PositionKnown
  <2>3. pos'[q] = pos[q] BY <1>8, <1>9
  <2> QED BY <2>2, <2>3
<1> QED BY <1>1, <1>6, <1>8, <1>9, <1>10, OpenStep DEF IInv, TypeOK

\* A transfer moves the file and the cached position by the same.
LEMMA TransferInv == ASSUME ImageAssumption, IInv, Transfer PROVE IInv'
<1>1. TypeOK /\ PositionKnown BY DEF IInv
<1>2. req.at \in Nat /\ req.len \in Nat /\ req.value \in Values /\ moved \in Nat
  BY <1>1 DEF TypeOK, RequestType
<1>. DEFINE a == req.at + moved
            p == PartOf(a)
            o == PlaceOf(a)
            from == IF cached[p] = o THEN pos[p] ELSE o
            chunk == Least(req.len - moved, size[p] - o)
<1>3. a \in Nat /\ Inside(a) BY <1>2 DEF Transfer
<1>. HIDE DEF a
<1>4. p \in Parts /\ o \in Nat /\ o < size[p] /\ size[p] \in 0..MaxUnits
  BY <1>1, <1>3, PartAndPlace
<1>5. PICK n \in 0..chunk :
        /\ from + n <= size[p]
        /\ pos' = [pos EXCEPT ![p] = from + n]
        /\ cached' = [cached EXCEPT ![p] = o + Advance(n, chunk)]
        /\ astray' = IF cached[p] = o THEN astray ELSE astray \ {p}
        /\ moved' = moved + n /\ fault' = (n # chunk)
        /\ result' = IF n # chunk THEN "error" ELSE IF moved' = req.len THEN "ok" ELSE "busy"
        /\ IF req.kind = "read"
           THEN /\ out' = [i \in Units |-> IF moved <= i /\ i < moved + n
                                           THEN data[p][from + (i - moved)] ELSE out[i]]
                /\ UNCHANGED data
           ELSE /\ data' = [data EXCEPT ![p] = [u \in Units |->
                               IF from <= u /\ u < from + n THEN req.value ELSE data[p][u]]]
                /\ UNCHANGED out
  BY DEF Transfer, a
<1>6. UNCHANGED <<exists, size, create, creates, asked, mounted, readOnly, count, req, requests>>
  BY DEF Transfer, createVars, openVars
<1>. HIDE DEF p, o
<1>7. MaxUnits \in Nat /\ chunk \in Int /\ chunk <= size[p] - o
  BY <1>2, <1>4 DEF Least, ImageAssumption
<1>8. pos[p] \in 0..MaxUnits /\ from \in Nat BY <1>1, <1>4 DEF TypeOK
<1>. HIDE DEF from, chunk
<1>9. n \in Nat /\ from + n \in 0..MaxUnits /\ o + n \in 0..MaxUnits
  BY <1>4, <1>5, <1>7, <1>8
<1>10. /\ pos' \in [Parts -> 0..MaxUnits] /\ pos'[p] = from + n
       /\ \A q \in Parts : q # p => pos'[q] = pos[q]
  BY <1>1, <1>4, <1>5, <1>9 DEF TypeOK
<1>11. /\ cached' \in [Parts -> 0..MaxUnits + 1] /\ cached'[p] = o + n
       /\ \A q \in Parts : q # p => cached'[q] = cached[q]
  <2>1. o + n \in 0..MaxUnits + 1 BY <1>7, <1>9
  <2>2. cached' = [cached EXCEPT ![p] = o + n] BY <1>5 DEF Advance
  <2> QED BY <1>1, <1>4, <2>1, <2>2 DEF TypeOK
<1>12. /\ astray' \subseteq Parts
       /\ \A q \in Parts : q # p /\ q \notin astray' => q \notin astray
       /\ p \notin astray' => p \notin astray \/ cached[p] # o
  BY <1>1, <1>5 DEF TypeOK
<1>13. PositionKnown'
  <2>1. SUFFICES ASSUME mounted, NEW q \in Parts \ astray'
                 PROVE  cached'[q] \in {pos'[q], Unknown}
    BY <1>6 DEF PositionKnown, Unknown
  <2>2. CASE q # p BY <1>1, <1>10, <1>11, <1>12, <2>1, <2>2 DEF PositionKnown
  <2>3. CASE q = p
    <3>1. from = o
      <4>1. CASE cached[p] # o BY <4>1 DEF from
      <4>2. CASE cached[p] = o
        <5>1. p \notin astray BY <1>12, <2>3, <4>2
        <5>2. cached[p] \in {pos[p], Unknown} BY <1>1, <1>4, <2>1, <5>1 DEF PositionKnown
        <5>3. o # Unknown BY <1>4, <1>7 DEF Unknown
        <5> QED BY <4>2, <5>2, <5>3 DEF from
      <4> QED BY <4>1, <4>2
    <3> QED BY <2>3, <3>1, <1>10, <1>11
  <2> QED BY <2>2, <2>3
<1>14. out' \in [Units -> Values] /\ data' \in [Parts -> [Units -> Values]]
  <2>1. data[p] \in [Units -> Values] /\ out \in [Units -> Values]
        /\ data \in [Parts -> [Units -> Values]]
    BY <1>1, <1>4 DEF TypeOK
  <2>2. CASE req.kind = "read"
    <3>1. ASSUME NEW i \in Units, moved <= i, i < moved + n PROVE from + (i - moved) \in Units
      BY <1>2, <1>7, <1>8, <1>9, <3>1 DEF Units
    <3>2. \A i \in Units : (IF moved <= i /\ i < moved + n
                            THEN data[p][from + (i - moved)] ELSE out[i]) \in Values
      BY <2>1, <3>1
    <3>3. out' = [i \in Units |-> IF moved <= i /\ i < moved + n
                                  THEN data[p][from + (i - moved)] ELSE out[i]]
          /\ data' = data
      BY <1>5, <2>2
    <3>4. out' \in [Units -> Values] BY <3>2, <3>3
    <3> QED BY <3>3, <3>4, <2>1
  <2>3. CASE req.kind # "read"
    <3>. DEFINE written == [u \in Units |->
                              IF from <= u /\ u < from + n THEN req.value ELSE data[p][u]]
    <3>1. written \in [Units -> Values] BY <1>2, <2>1
    <3>2. data' = [data EXCEPT ![p] = written] /\ out' = out BY <1>5, <2>3
    <3>. HIDE DEF written
    <3> QED BY <3>1, <3>2, <2>1
  <2> QED BY <2>2, <2>3
<1>15. moved' \in Nat /\ result' \in {"none", "busy", "ok", "error"} BY <1>2, <1>5, <1>9
<1>16. fault' \in BOOLEAN BY <1>5
<1> QED BY <1>1, <1>6, <1>10, <1>11, <1>12, <1>13, <1>14, <1>15, <1>16, OpenStep
        DEF IInv, TypeOK

-----------------------------------------------------------------------------
\* Every step of the specification preserves the invariant.
LEMMA StepInv == ASSUME ImageAssumption, IInv, [Next]_vars PROVE IInv'
<1>1. CASE UNCHANGED vars
  <2>. USE <1>1 DEF vars, cardVars, createVars, openVars, ioVars, IInv
  <2>1. TypeOK' BY DEF TypeOK
  <2>2. PositionKnown' BY DEF PositionKnown
  <2> QED BY <2>1, <2>2
<1>2. CASE Next
  <2>1. ASSUME NEW n \in Sizes, CreateImage(n) PROVE IInv' BY <2>1, CreateImageInv
  <2>2. CASE CreatePart BY <2>2, CreatePartInv
  <2>3. CASE PartsCreated BY <2>3, PartsCreatedInv
  <2>4. CASE RemoveStale BY <2>4, RemoveStaleInv
  <2>5. CASE Created BY <2>5, CreatedInv
  <2>6. CASE CleanUp BY <2>6, CleanUpInv
  <2>7. CASE CreationFailed BY <2>7, CreationFailedInv
  <2>8. CASE LeaveFileName BY <2>8, LeaveFileNameInv
  <2>9. CASE DeleteMain BY <2>9, DeleteMainInv
  <2>10. CASE PowerLoss BY <2>10, PowerLossInv
  <2>11. ASSUME NEW ro \in BOOLEAN, Mount(ro) PROVE IInv' BY <2>11, MountInv
  <2>12. CASE Unmount BY <2>12, UnmountInv
  <2>13. ASSUME NEW r \in Requests, Begin(r) PROVE IInv' BY <2>13, BeginInv
  <2>14. CASE OutsideImage BY <2>14, OutsideImageInv
  <2>15. CASE SeekFails BY <2>15, SeekFailsInv
  <2>16. CASE Transfer BY <2>16, TransferInv
  <2> QED
    BY <1>2, <2>1, <2>2, <2>3, <2>4, <2>5, <2>6, <2>7, <2>8, <2>9, <2>10, <2>11, <2>12,
       <2>13, <2>14, <2>15, <2>16 DEF Next
<1> QED BY <1>1, <1>2

LEMMA Inductive == Spec => []IInv
<1>1. Init => IInv BY ImageAssumption, InitInv
<1>2. IInv /\ [Next]_vars => IInv' BY ImageAssumption, StepInv
<1> QED BY <1>1, <1>2, PTL DEF Spec

\* The card, the creation, the open parts and the request keep their types; no part
\* grows, and no access goes, past the bound of a file.
THEOREM TypeCorrect == Spec => []TypeOK
<1>1. IInv => TypeOK BY DEF IInv
<1> QED BY <1>1, Inductive, PTL

\* The cached position of a part is its real one, or none, unless a seek of several
\* steps has failed half-way on it.
THEOREM PositionsKnown == Spec => []PositionKnown
<1>1. IInv => PositionKnown BY DEF IInv
<1> QED BY <1>1, Inductive, PTL

-----------------------------------------------------------------------------
(* The refinement.  Parts are full but for the last, so that an address    *)
(* has one part and one place, and creations happen while nothing is open. *)

PartsInv ==
  /\ ~mounted => count = 0 /\ result # "busy"
  /\ create.phase # "idle" => ~mounted
  /\ \A p \in Parts : p > 0 => size[p] <= PartSize
  /\ \A p \in Parts : 0 < p /\ p < count => size[p - 1] = PartSize

LEMMA PartsInvInit == ASSUME ImageAssumption, Init PROVE PartsInv
<1>1. PICK main \in 0..MaxUnits, stale \in SUBSET (1..MaxParts - 1) :
        size = [p \in Parts |-> IF p = 0 THEN main ELSE IF p \in stale THEN PartSize ELSE 0]
  BY DEF Init
<1>2. \A p \in Parts : p > 0 => size[p] <= PartSize
  BY <1>1 DEF ImageAssumption, Parts
<1>3. create.phase = "idle" BY DEF Init, Idle
<1> QED BY <1>2, <1>3 DEF Init, PartsInv, Parts, ImageAssumption

\* Creations happen while nothing is open.
LEMMA PartsInvClosed ==
  ASSUME PartsInv, ~mounted, UNCHANGED <<mounted, count, result>>,
         \A p \in Parts : p > 0 => size'[p] <= PartSize, ImageAssumption
  PROVE  PartsInv'
  BY DEF PartsInv, Parts

LEMMA PartsInvRemove ==
  ASSUME ImageAssumption, IInv, PartsInv, NEW q, Remove(q)
  PROVE  \A p \in Parts : p > 0 => size'[p] <= PartSize
<1>1. size' = [size EXCEPT ![q] = 0] /\ size \in [Parts -> 0..MaxUnits]
  BY DEF Remove, IInv, TypeOK
<1>2. PartSize \in Nat BY DEF ImageAssumption
<1> QED BY <1>1, <1>2 DEF PartsInv

\* Requests neither create nor open anything.
LEMMA PartsInvOpen ==
  ASSUME PartsInv, mounted, UNCHANGED <<mounted, count, size, create>>
  PROVE  PartsInv'
  BY DEF PartsInv

LEMMA PartsInvStep ==
  ASSUME ImageAssumption, IInv, PartsInv, [Next]_vars
  PROVE  PartsInv'
<1>1. CASE UNCHANGED vars
  BY <1>1 DEF vars, cardVars, createVars, openVars, ioVars, PartsInv
<1>2. CASE Next
  <2>1. ASSUME NEW n \in Sizes, CreateImage(n) PROVE PartsInv'
    BY <2>1, PartsInvClosed DEF CreateImage, cardVars, openVars, ioVars, PartsInv
  <2>2. CASE CreatePart
    <3>1. ~mounted /\ UNCHANGED <<mounted, count, result>>
      BY <2>2 DEF CreatePart, PartsInv, openVars, ioVars
    <3>2. \A p \in Parts : p > 0 => size'[p] <= PartSize
      <4>1. /\ create \in CreateType /\ size \in [Parts -> 0..MaxUnits] /\ PartSize \in Nat
            /\ create.left \in Nat
        BY DEF IInv, TypeOK, ImageAssumption, CreateType
      <4>. DEFINE n == Least(create.left, PartSize)
      <4>2. n <= PartSize /\ 0 <= PartSize BY <4>1 DEF Least
      <4>3. \/ size' = size
            \/ \E grown \in {0, n} : size' = [size EXCEPT ![create.part] = grown]
        BY <2>2 DEF CreatePart, cardVars
      <4>. HIDE DEF n
      <4>4. \A p \in Parts : p > 0 => size[p] <= PartSize BY DEF PartsInv
      <4> QED BY ONLY <4>1, <4>2, <4>3, <4>4
    <3> QED BY <3>1, <3>2, PartsInvClosed
  <2>3. CASE PartsCreated
    BY <2>3, PartsInvClosed DEF PartsCreated, cardVars, openVars, ioVars, PartsInv
  <2>4. CASE RemoveStale
    <3>1. ~mounted /\ UNCHANGED <<mounted, count, result>>
      BY <2>4 DEF RemoveStale, PartsInv, openVars, ioVars
    <3>2. Remove(create.part) \/ UNCHANGED <<exists, size, data>>
      BY <2>4 DEF RemoveStale, cardVars
    <3>3. CASE Remove(create.part) BY <3>1, <3>3, PartsInvRemove, PartsInvClosed
    <3>4. CASE UNCHANGED <<exists, size, data>>
      BY <3>1, <3>4, PartsInvClosed DEF PartsInv
    <3> QED BY <3>2, <3>3, <3>4
  <2>5. CASE Created
    BY <2>5, PartsInvClosed DEF Created, cardVars, openVars, ioVars, PartsInv
  <2>6. CASE CleanUp
    <3>1. ~mounted /\ UNCHANGED <<mounted, count, result>>
      BY <2>6 DEF CleanUp, PartsInv, openVars, ioVars
    <3>2. Remove(create.part) \/ UNCHANGED <<exists, size, data>>
      BY <2>6 DEF CleanUp, cardVars
    <3>3. CASE Remove(create.part) BY <3>1, <3>3, PartsInvRemove, PartsInvClosed
    <3>4. CASE UNCHANGED <<exists, size, data>>
      BY <3>1, <3>4, PartsInvClosed DEF PartsInv
    <3> QED BY <3>2, <3>3, <3>4
  <2>7. CASE CreationFailed
    BY <2>7, PartsInvClosed DEF CreationFailed, cardVars, openVars, ioVars, PartsInv
  <2>8. CASE LeaveFileName
    BY <2>8, PartsInvClosed DEF LeaveFileName, cardVars, openVars, ioVars, PartsInv
  <2>9. CASE DeleteMain
    BY <2>9, PartsInvRemove, PartsInvClosed DEF DeleteMain, openVars, ioVars
  <2>10. CASE PowerLoss
    BY <2>10, PartsInvClosed DEF PowerLoss, cardVars, openVars, ioVars, PartsInv
  <2>11. ASSUME NEW ro \in BOOLEAN, Mount(ro) PROVE PartsInv'
    <3>1. /\ mounted' = TRUE /\ create.phase = "idle" /\ UNCHANGED <<size, create>>
          /\ \A p \in Parts : p < count' => Opens(p)
      BY <2>11 DEF Mount, cardVars, createVars
    <3> QED BY <3>1 DEF PartsInv, Opens
  <2>12. CASE Unmount
    <3>1. mounted' = FALSE /\ count' = 0 /\ result' = "none" /\ UNCHANGED size
      BY <2>12 DEF Unmount, cardVars
    <3> QED BY <3>1 DEF PartsInv, Parts, ImageAssumption
  <2>13. ASSUME NEW r \in Requests, Begin(r) PROVE PartsInv'
    BY <2>13, PartsInvOpen DEF Begin, cardVars, createVars, openVars
  <2>14. CASE OutsideImage
    BY <2>14, PartsInvOpen DEF OutsideImage, cardVars, createVars, openVars, PartsInv
  <2>15. CASE SeekFails
    BY <2>15, PartsInvOpen DEF SeekFails, cardVars, createVars, openVars, PartsInv
  <2>16. CASE Transfer
    BY <2>16, PartsInvOpen DEF Transfer, createVars, openVars, PartsInv
  <2> QED
    BY <1>2, <2>1, <2>2, <2>3, <2>4, <2>5, <2>6, <2>7, <2>8, <2>9, <2>10, <2>11, <2>12,
       <2>13, <2>14, <2>15, <2>16 DEF Next
<1> QED BY <1>1, <1>2

-----------------------------------------------------------------------------
(* Addresses.                                                              *)

\* Quotient and remainder are what they should be.
LEMMA Divided ==
  ASSUME NEW a \in Nat, NEW b \in Nat, b > 0
  PROVE  /\ a \div b \in Nat /\ a % b \in Nat /\ a % b < b /\ (a \div b) * b \in Nat
         /\ a = (a \div b) * b + (a % b)
  OBVIOUS

LEMMA Quotient ==
  ASSUME NEW a \in Nat, NEW p \in Nat, NEW b \in Nat, b > 0, p * b <= a, a < p * b + b
  PROVE  a \div b = p /\ a % b = a - p * b
  OBVIOUS

LEMMA NextMultiple ==
  ASSUME NEW p \in Nat, NEW m \in Nat, NEW b \in Nat, p < m
  PROVE  p * b \in Nat /\ p * b + b <= m * b
  OBVIOUS

\* An address is its part's beginning and its place.
LEMMA Recompose ==
  ASSUME ImageAssumption, TypeOK, NEW a \in Nat
  PROVE  /\ PartOf(a) \in Nat /\ PlaceOf(a) \in Nat /\ PartOf(a) * PartSize \in Nat
         /\ a = PartOf(a) * PartSize + PlaceOf(a)
<1>1. PartSize \in Nat /\ PartSize > 0 /\ count \in Nat BY DEF ImageAssumption, TypeOK
<1>2. CASE count > 1 BY <1>1, <1>2, Divided DEF PartOf, PlaceOf
<1>3. CASE ~(count > 1) BY <1>1, <1>3 DEF PartOf, PlaceOf
<1> QED BY <1>2, <1>3

\* The part that holds an address is the one the code computes.
LEMMA HeldInside ==
  ASSUME ImageAssumption, TypeOK, PartsInv, NEW a \in Nat, NEW p \in Parts, Holds(p, a)
  PROVE  Inside(a) /\ PartOf(a) = p /\ PlaceOf(a) = a - p * PartSize /\ a \in Units
<1>1. /\ PartSize \in Nat /\ PartSize > 0 /\ MaxParts \in Nat /\ MaxUnits \in Nat
      /\ MaxParts * PartSize <= MaxUnits
  BY DEF ImageAssumption
<1>2. /\ p \in Nat /\ p < MaxParts /\ count \in 0..MaxParts /\ size[p] \in 0..MaxUnits
      /\ p < count /\ p * PartSize <= a /\ a < p * PartSize + size[p]
  BY <1>1 DEF Parts, TypeOK, Holds
<1>3. CASE count > 1
  <2>1. size[p] <= PartSize
    <3>1. CASE p > 0 BY <3>1 DEF PartsInv
    <3>2. CASE p = 0
      <4>1. 1 \in Parts /\ 0 < 1 /\ 1 < count BY <1>1, <1>2, <1>3 DEF Parts
      <4>2. size[1 - 1] = PartSize BY <4>1 DEF PartsInv
      <4> QED BY <3>2, <4>2, <1>1
    <3> QED BY <1>2, <3>1, <3>2
  <2>2. p * PartSize \in Nat /\ p * PartSize + PartSize <= MaxParts * PartSize
        /\ MaxParts * PartSize \in Nat
    BY <1>1, <1>2, NextMultiple
  <2>3. a < p * PartSize + PartSize BY <1>1, <1>2, <2>1, <2>2
  <2>4. a \div PartSize = p /\ a % PartSize = a - p * PartSize
    BY <1>1, <1>2, <2>3, Quotient
  <2>5. PartOf(a) = p /\ PlaceOf(a) = a - p * PartSize BY <1>3, <2>4 DEF PartOf, PlaceOf
  <2>6. a \in Units BY <1>1, <2>2, <2>3 DEF Units
  <2>7. PlaceOf(a) < size[p] BY <1>2, <2>2, <2>5
  <2> QED BY <1>2, <2>5, <2>6, <2>7 DEF Inside
<1>4. CASE ~(count > 1)
  <2>1. p = 0 /\ p * PartSize = 0 BY <1>1, <1>2, <1>4
  <2>2. PartOf(a) = p /\ PlaceOf(a) = a - p * PartSize
    BY <1>4, <2>1 DEF PartOf, PlaceOf
  <2>3. a \in Units BY <1>1, <1>2, <2>1 DEF Units
  <2> QED BY <1>2, <2>1, <2>2, <2>3 DEF Inside
<1> QED BY <1>3, <1>4

LEMMA InsideHeld ==
  ASSUME ImageAssumption, TypeOK, NEW a \in Nat, Inside(a)
  PROVE  PartOf(a) \in Parts /\ Holds(PartOf(a), a)
<1>1. PartOf(a) \in Parts /\ size[PartOf(a)] \in 0..MaxUnits BY PartAndPlace
<1>2. MaxUnits \in Nat BY DEF ImageAssumption
<1>. DEFINE p == PartOf(a)
            o == PlaceOf(a)
            b == p * PartSize
<1>3. b \in Nat /\ o \in Nat /\ a = b + o BY Recompose
<1>4. p < count /\ o < size[p] BY DEF Inside
<1>5. size[p] \in Nat BY <1>1, <1>2
<1>. HIDE DEF p, o, b
<1>6. b <= a /\ a < b + size[p] BY <1>3, <1>4, <1>5
<1>7. Holds(p, a) BY <1>4, <1>6 DEF Holds, b
<1> QED BY <1>1, <1>7 DEF p

\* The part that ImageOf chooses.
LEMMA Chosen ==
  ASSUME ImageAssumption, TypeOK, PartsInv, NEW a \in Units
  PROVE  /\ (\E p \in Parts : Holds(p, a)) <=> Inside(a)
         /\ Inside(a) => /\ (CHOOSE p \in Parts : Holds(p, a)) = PartOf(a)
                         /\ a - PartOf(a) * PartSize = PlaceOf(a)
<1>1. a \in Nat BY DEF Units, ImageAssumption
<1>2. ASSUME NEW p \in Parts, Holds(p, a) PROVE Inside(a) /\ PartOf(a) = p
  BY <1>1, <1>2, HeldInside
<1>3. ASSUME Inside(a)
      PROVE  /\ PartOf(a) \in Parts /\ Holds(PartOf(a), a)
             /\ a - PartOf(a) * PartSize = PlaceOf(a)
  BY <1>1, <1>3, InsideHeld, HeldInside
<1>4. Inside(a) => (CHOOSE p \in Parts : Holds(p, a)) = PartOf(a)
  <2>1. SUFFICES ASSUME Inside(a) PROVE (CHOOSE p \in Parts : Holds(p, a)) = PartOf(a)
    OBVIOUS
  <2>. DEFINE c == CHOOSE p \in Parts : Holds(p, a)
  <2>2. \E p \in Parts : Holds(p, a) BY <1>3, <2>1
  <2>3. c \in Parts /\ Holds(c, a) BY <2>2
  <2>. HIDE DEF c
  <2>4. PartOf(a) = c BY <1>2, <2>3
  <2> QED BY <2>4 DEF c
<1> QED BY <1>2, <1>3, <1>4

\* What is at an address.
LEMMA ImageAt ==
  ASSUME ImageAssumption, TypeOK, PartsInv, NEW a \in Units
  PROVE  ImageOf[a] = IF Inside(a) THEN data[PartOf(a)][PlaceOf(a)] ELSE "hole"
<1>1. ImageOf[a] = IF \E p \in Parts : Holds(p, a)
                   THEN LET p == CHOOSE p \in Parts : Holds(p, a) IN data[p][a - p * PartSize]
                   ELSE "hole"
  BY DEF ImageOf
<1>2. CASE Inside(a) BY <1>1, <1>2, Chosen
<1>3. CASE ~Inside(a) BY <1>1, <1>3, Chosen
<1> QED BY <1>2, <1>3

\* ... after a transfer, which changes nothing but the units.
LEMMA ImageAtNext ==
  ASSUME ImageAssumption, TypeOK, PartsInv, NEW a \in Units, UNCHANGED <<count, size>>
  PROVE  ImageOf'[a] = IF Inside(a) THEN data'[PartOf(a)][PlaceOf(a)] ELSE "hole"
<1>1. \A p \in Parts : Holds(p, a)' <=> Holds(p, a) BY DEF Holds
<1>2. (CHOOSE p \in Parts : Holds(p, a)') = (CHOOSE p \in Parts : Holds(p, a))
  BY DEF Holds
<1>3. ImageOf'[a] = IF \E p \in Parts : Holds(p, a)
                    THEN LET p == CHOOSE p \in Parts : Holds(p, a)
                         IN  data'[p][a - p * PartSize]
                    ELSE "hole"
  BY DEF ImageOf, Holds
<1>4. CASE Inside(a) BY <1>3, <1>4, Chosen
<1>5. CASE ~Inside(a) BY <1>3, <1>5, Chosen
<1> QED BY <1>4, <1>5

\* An address is reached if and only if it lies inside the open parts.
LEMMA ReachedInside ==
  ASSUME ImageAssumption, TypeOK, PartsInv, NEW a \in Nat
  PROVE  Flat!Reached(a) <=> Inside(a)
<1>1. ASSUME Inside(a) PROVE Flat!Reached(a)
  <2>1. PartOf(a) \in Parts /\ a \in Units BY <1>1, InsideHeld, HeldInside
  <2>2. PlaceOf(a) \in Units
    <3>1. PlaceOf(a) \in Nat /\ PlaceOf(a) < size[PartOf(a)] /\ size[PartOf(a)] \in 0..MaxUnits
      BY <1>1, PartAndPlace
    <3> QED BY <3>1 DEF Units, ImageAssumption
  <2>3. data[PartOf(a)][PlaceOf(a)] \in Values BY <2>1, <2>2 DEF TypeOK
  <2>4. ImageOf[a] \in Values BY <1>1, <2>1, <2>3, ImageAt
  <2>5. ImageOf[a] # "hole" BY <2>4 DEF ImageAssumption
  <2> QED BY <2>1, <2>5 DEF Flat!Reached
<1>2. ASSUME ~Inside(a) PROVE ~Flat!Reached(a)
  <2>1. SUFFICES ASSUME a \in Units PROVE ImageOf[a] = "hole" BY DEF Flat!Reached
  <2> QED BY <1>2, <2>1, ImageAt
<1> QED BY <1>1, <1>2

\* The addresses behind one inside a part go on in that part.
LEMMA Along ==
  ASSUME ImageAssumption, TypeOK, PartsInv, NEW a \in Nat, Inside(a),
         NEW k \in Nat, PlaceOf(a) + k < size[PartOf(a)]
  PROVE  /\ Inside(a + k) /\ a + k \in Units
         /\ PartOf(a + k) = PartOf(a) /\ PlaceOf(a + k) = PlaceOf(a) + k
<1>. DEFINE p == PartOf(a)
<1>1. p \in Parts /\ Holds(p, a) BY InsideHeld
<1>2. p * PartSize \in Nat /\ PlaceOf(a) \in Nat /\ a = p * PartSize + PlaceOf(a)
  BY Recompose
<1>3. size[p] \in Nat BY <1>1 DEF TypeOK, ImageAssumption
<1>4. p < count BY DEF Inside
<1>. HIDE DEF p
<1>5. Holds(p, a + k)
  <2>1. PlaceOf(a) + k < size[p] BY DEF p
  <2> QED BY <1>2, <1>3, <1>4, <2>1 DEF Holds
<1>6. a + k \in Nat OBVIOUS
<1>7. /\ Inside(a + k) /\ a + k \in Units /\ PartOf(a + k) = p
      /\ PlaceOf(a + k) = (a + k) - p * PartSize
  BY <1>1, <1>5, <1>6, HeldInside
<1> QED BY <1>2, <1>7 DEF p

-----------------------------------------------------------------------------
(* Each step is one of FlatImage.                                          *)

FlatStep == Flat!Next \/ UNCHANGED <<ImageOf, req, moved, out, result, fault>>

\* An image of no open part has nothing at any address.
LEMMA NothingOpen ==
  ASSUME ImageAssumption, PartsInv, PartsInv', ~mounted, ~mounted'
  PROVE  ImageOf' = ImageOf
<1>1. \A p \in Parts : \A a : ~Holds(p, a) /\ ~Holds(p, a)'
  BY DEF PartsInv, Holds, Parts, ImageAssumption
<1>2. ImageOf = [a \in Units |-> "hole"] BY <1>1 DEF ImageOf
<1>3. ImageOf' = [a \in Units |-> "hole"] BY <1>1 DEF ImageOf
<1> QED BY <1>2, <1>3

\* Requests that move nothing, and end in an error that has a reason.
LEMMA NothingMoves ==
  ASSUME ImageAssumption, IInv, PartsInv, result = "busy", moved <= req.len,
         UNCHANGED <<ImageOf, req, moved, out>>, result' = "error",
         fault' \/ ~Inside(req.at + moved)
  PROVE  Flat!Next
<1>1. req.at \in Nat /\ req.len \in Nat /\ moved \in Nat /\ req \in RequestType
  BY DEF IInv, TypeOK, RequestType
<1>. DEFINE first == req.at + moved
<1>2. first \in Nat /\ first + 0 = first /\ moved + 0 = moved BY <1>1
<1>3. \A a \in first..first + 0 - 1 : Flat!Reached(a) BY <1>2
<1>4. fault' \/ ~Flat!Reached(first + 0)
  <2>1. Flat!Reached(first) <=> Inside(first) BY <1>2, ReachedInside DEF IInv
  <2> QED BY <1>2, <2>1
<1>5. \A a \in Units : ~(first <= a /\ a < first + 0) BY <1>2 DEF Units, ImageAssumption
<1>6. \A i \in Units : ~(first <= req.at + i /\ req.at + i < first + 0)
  BY <1>1, <1>2 DEF Units, ImageAssumption
<1>7. out = [i \in Units |-> IF first <= req.at + i /\ req.at + i < first + 0
                             THEN ImageOf[req.at + i] ELSE out[i]]
  BY <1>6 DEF IInv, TypeOK
<1>8. ImageOf = [a \in Units |-> IF first <= a /\ a < first + 0 THEN req.value ELSE ImageOf[a]]
  BY <1>5 DEF ImageOf
<1>9. Flat!Move(0) BY <1>1, <1>2, <1>3, <1>4, <1>7, <1>8 DEF Flat!Move
<1>10. 0 \in 0..req.len BY <1>1
<1> QED BY <1>9, <1>10 DEF Flat!Next

\* What a transfer does, with its part, place and length named.
LEMMA TransferFacts ==
  ASSUME ImageAssumption, IInv, Transfer, astray = {}, mounted
  PROVE  LET a == req.at + moved IN
         \E n \in Nat :
           /\ Inside(a) /\ moved + n <= req.len
           /\ PlaceOf(a) + n <= size[PartOf(a)]
           /\ moved' = moved + n /\ fault' = (n # Least(req.len - moved, size[PartOf(a)] - PlaceOf(a)))
           /\ result' = IF n # Least(req.len - moved, size[PartOf(a)] - PlaceOf(a)) THEN "error"
                        ELSE IF moved + n = req.len THEN "ok" ELSE "busy"
           /\ IF req.kind = "read"
              THEN /\ out' = [i \in Units |-> IF moved <= i /\ i < moved + n
                                THEN data[PartOf(a)][PlaceOf(a) + (i - moved)] ELSE out[i]]
                   /\ UNCHANGED data
              ELSE /\ data' = [data EXCEPT ![PartOf(a)] = [u \in Units |->
                                 IF PlaceOf(a) <= u /\ u < PlaceOf(a) + n THEN req.value
                                 ELSE data[PartOf(a)][u]]]
                   /\ UNCHANGED out
<1>1. TypeOK /\ PositionKnown BY DEF IInv
<1>2. req.at \in Nat /\ req.len \in Nat /\ moved \in Nat BY <1>1 DEF TypeOK, RequestType
<1>. DEFINE a == req.at + moved
            p == PartOf(a)
            o == PlaceOf(a)
            from == IF cached[p] = o THEN pos[p] ELSE o
            chunk == Least(req.len - moved, size[p] - o)
<1>3. a \in Nat /\ Inside(a) BY <1>2 DEF Transfer
<1>. HIDE DEF a
<1>4. p \in Parts /\ o \in Nat /\ o < size[p] /\ size[p] \in 0..MaxUnits
  BY <1>1, <1>3, PartAndPlace
<1>5. PICK n \in 0..chunk :
        /\ from + n <= size[p]
        /\ moved' = moved + n /\ fault' = (n # chunk)
        /\ result' = IF n # chunk THEN "error" ELSE IF moved' = req.len THEN "ok" ELSE "busy"
        /\ IF req.kind = "read"
           THEN /\ out' = [i \in Units |-> IF moved <= i /\ i < moved + n
                                           THEN data[p][from + (i - moved)] ELSE out[i]]
                /\ UNCHANGED data
           ELSE /\ data' = [data EXCEPT ![p] = [u \in Units |->
                               IF from <= u /\ u < from + n THEN req.value ELSE data[p][u]]]
                /\ UNCHANGED out
  BY DEF Transfer, a
<1>. HIDE DEF p, o
<1>6. from = o
  <2>1. CASE cached[p] # o BY <2>1
  <2>2. CASE cached[p] = o
    <3>1. cached[p] \in {pos[p], Unknown} BY <1>1, <1>4 DEF PositionKnown
    <3>2. o # Unknown BY <1>4 DEF Unknown, ImageAssumption
    <3> QED BY <2>2, <3>1, <3>2
  <2> QED BY <2>1, <2>2
<1>7. chunk \in Int /\ chunk <= req.len - moved BY <1>2, <1>4 DEF Least, ImageAssumption
<1>. HIDE DEF from, chunk
<1>8. n \in Nat /\ moved + n <= req.len BY <1>2, <1>5, <1>7
<1>9. o + n <= size[p] BY <1>5, <1>6
<1>10. IF req.kind = "read"
       THEN /\ out' = [i \in Units |-> IF moved <= i /\ i < moved + n
                                       THEN data[p][o + (i - moved)] ELSE out[i]]
            /\ UNCHANGED data
       ELSE /\ data' = [data EXCEPT ![p] = [u \in Units |->
                           IF o <= u /\ u < o + n THEN req.value ELSE data[p][u]]]
            /\ UNCHANGED out
  BY ONLY <1>5, <1>6
<1>11. /\ moved' = moved + n /\ fault' = (n # chunk)
       /\ result' = IF n # chunk THEN "error" ELSE IF moved + n = req.len THEN "ok" ELSE "busy"
  BY ONLY <1>5
<1> QED BY <1>3, <1>8, <1>9, <1>10, <1>11 DEF a, p, o, chunk

\* A transfer moves the units at the addresses that the request names.
LEMMA Moving ==
  ASSUME ImageAssumption, IInv, PartsInv, Transfer, astray = {}
  PROVE  Flat!Next
<1>1. TypeOK /\ mounted /\ result = "busy" BY DEF IInv, PartsInv, Transfer
<1>2. req.at \in Nat /\ req.len \in Nat /\ moved \in Nat BY <1>1 DEF TypeOK, RequestType
<1>. DEFINE a == req.at + moved
            p == PartOf(a)
            o == PlaceOf(a)
            chunk == Least(req.len - moved, size[p] - o)
<1>3. PICK n \in Nat :
        /\ Inside(a) /\ moved + n <= req.len
        /\ o + n <= size[p]
        /\ moved' = moved + n /\ fault' = (n # chunk)
        /\ result' = IF n # chunk THEN "error" ELSE IF moved + n = req.len THEN "ok" ELSE "busy"
        /\ IF req.kind = "read"
           THEN /\ out' = [i \in Units |-> IF moved <= i /\ i < moved + n
                             THEN data[p][o + (i - moved)] ELSE out[i]]
                /\ UNCHANGED data
           ELSE /\ data' = [data EXCEPT ![p] = [u \in Units |->
                              IF o <= u /\ u < o + n THEN req.value ELSE data[p][u]]]
                /\ UNCHANGED out
  BY <1>1, TransferFacts
<1>4. UNCHANGED <<count, size, req>> BY DEF Transfer, openVars
<1>. HIDE DEF chunk
<1>5. a \in Nat BY <1>2
<1>6. p \in Parts /\ o \in Nat /\ size[p] \in Nat
  BY <1>1, <1>3, <1>5, PartAndPlace DEF ImageAssumption
<1>7. ASSUME NEW k \in Nat, k < n
      PROVE  /\ Inside(a + k) /\ a + k \in Units /\ a + k \in Nat
             /\ PartOf(a + k) = p /\ PlaceOf(a + k) = o + k
  <2>1. PlaceOf(a) + k < size[PartOf(a)] BY <1>3, <1>6, <1>7
  <2>. HIDE DEF a
  <2>2. a + k \in Nat BY <1>5
  <2> QED BY <1>1, <1>3, <1>5, <2>1, <2>2, Along
<1>8. \A b \in a..a + n - 1 : Flat!Reached(b)
  <2>1. SUFFICES ASSUME NEW b \in a..a + n - 1 PROVE Flat!Reached(b) OBVIOUS
  <2>2. b - a \in Nat /\ b - a < n /\ b = a + (b - a) /\ b \in Nat BY <1>5, <2>1
  <2>. HIDE DEF a
  <2>3. Inside(b) BY <1>7, <2>2
  <2> QED BY <1>1, <2>2, <2>3, ReachedInside
<1>9. CASE req.kind = "read"
  <2>1. ImageOf' = ImageOf BY <1>3, <1>4, <1>9 DEF ImageOf, Holds
  <2>2. ASSUME NEW i \in Units
        PROVE  (IF moved <= i /\ i < moved + n THEN data[p][o + (i - moved)] ELSE out[i])
               = (IF a <= req.at + i /\ req.at + i < a + n THEN ImageOf[req.at + i] ELSE out[i])
    <3>1. i \in Nat BY DEF Units, ImageAssumption
    <3>2. (a <= req.at + i /\ req.at + i < a + n) <=> (moved <= i /\ i < moved + n)
      BY <1>2, <3>1
    <3>3. ASSUME moved <= i, i < moved + n
          PROVE  ImageOf[req.at + i] = data[p][o + (i - moved)]
      <4>1. i - moved \in Nat /\ i - moved < n /\ req.at + i = a + (i - moved)
        BY <1>2, <3>1, <3>3
      <4>. HIDE DEF a, p, o
      <4>2. /\ Inside(req.at + i) /\ req.at + i \in Units
            /\ PartOf(req.at + i) = p /\ PlaceOf(req.at + i) = o + (i - moved)
        BY <4>1, <1>7
      <4> QED BY <1>1, <4>2, ImageAt
    <3>. HIDE DEF a, p, o
    <3> QED BY <3>2, <3>3
  <2>3. out' = [i \in Units |-> IF a <= req.at + i /\ req.at + i < a + n
                                THEN ImageOf[req.at + i] ELSE out[i]]
    <3>. HIDE DEF a, p, o
    <3> QED BY <1>3, <1>9, <2>2
  <2>4. result' \in {"busy", "ok", "error"} /\ (result' = "ok" => moved' = req.len)
        /\ (result' = "error" => fault' \/ ~Flat!Reached(a + n))
    <3>. HIDE DEF a, p, o
    <3> QED BY ONLY <1>3
  <2>5. Flat!Move(n) BY <1>1, <1>3, <1>4, <1>8, <1>9, <2>1, <2>3, <2>4 DEF Flat!Move
  <2>6. n \in 0..req.len BY <1>2, <1>3
  <2> QED BY <2>5, <2>6 DEF Flat!Next
<1>10. CASE req.kind # "read"
  <2>1. out' = out /\ data' = [data EXCEPT ![p] = [u \in Units |->
                               IF o <= u /\ u < o + n THEN req.value ELSE data[p][u]]]
    BY <1>3, <1>10
  <2>2. ASSUME NEW b \in Units
        PROVE  ImageOf'[b] = (IF a <= b /\ b < a + n THEN req.value ELSE ImageOf[b])
    <3>1. b \in Nat BY DEF Units, ImageAssumption
    <3>2. ImageOf[b] = (IF Inside(b) THEN data[PartOf(b)][PlaceOf(b)] ELSE "hole")
      BY <1>1, ImageAt
    <3>3. ImageOf'[b] = (IF Inside(b) THEN data'[PartOf(b)][PlaceOf(b)] ELSE "hole")
      BY <1>1, <1>4, ImageAtNext
    <3>. DEFINE q == PartOf(b)
                w == PlaceOf(b)
    <3>4. ASSUME a <= b, b < a + n PROVE Inside(b) /\ q = p /\ w = o + (b - a)
      <4>1. b - a \in Nat /\ b - a < n /\ b = a + (b - a) BY <1>5, <3>1, <3>4
      <4>. HIDE DEF a
      <4> QED BY <1>7, <4>1
    <3>5. ASSUME Inside(b), q = p, o <= w, w < o + n PROVE a <= b /\ b < a + n
      <4>1. a = p * PartSize + o /\ p * PartSize \in Nat BY <1>1, <1>5, Recompose
      <4>2. b = q * PartSize + w /\ w \in Nat BY <1>1, <3>1, Recompose
      <4>. HIDE DEF a, p, o, q, w
      <4>3. b = p * PartSize + w BY <3>5, <4>2
      <4>. DEFINE base == p * PartSize
      <4>. HIDE DEF base
      <4>4. a = base + o /\ b = base + w /\ base \in Nat BY <4>1, <4>3 DEF base
      <4> QED BY <1>6, <3>5, <4>2, <4>4
    <3>6. CASE Inside(b)
      <4>1. q \in Parts /\ w \in Units
        <5>1. q \in Parts /\ w \in Nat /\ w < size[q] /\ size[q] \in 0..MaxUnits
          BY <1>1, <3>1, <3>6, PartAndPlace
        <5> QED BY <5>1 DEF Units, ImageAssumption
      <4>2. data \in [Parts -> [Units -> Values]] BY <1>1 DEF TypeOK
      <4>3. q # p => data'[q][w] = data[q][w]
        <5>. HIDE DEF p, o, q, w, a
        <5> QED BY <2>1, <4>1, <4>2, <1>6
      <4>4. q = p => data'[q][w] = IF o <= w /\ w < o + n THEN req.value ELSE data[p][w]
        <5>. DEFINE written == [u \in Units |->
                                  IF o <= u /\ u < o + n THEN req.value ELSE data[p][u]]
        <5>1. written[w] = IF o <= w /\ w < o + n THEN req.value ELSE data[p][w]
          <6>. HIDE DEF p, o, q, w, a
          <6> QED BY <4>1
        <5>2. data' = [data EXCEPT ![p] = written] BY <2>1
        <5>. HIDE DEF written
        <5>. HIDE DEF p, o, q, w, a
        <5> QED BY <1>6, <4>2, <5>1, <5>2
      <4>. HIDE DEF a, p, o
      <4>5. CASE a <= b /\ b < a + n
        <5>1. q = p /\ w = o + (b - a) BY <3>4, <4>5
        <5>2. o <= w /\ w < o + n
          <6>. HIDE DEF q, w
          <6> QED BY <1>5, <1>6, <3>1, <4>5, <5>1
        <5> QED BY <3>3, <3>6, <4>4, <4>5, <5>1, <5>2
      <4>6. CASE ~(a <= b /\ b < a + n)
        <5>1. ~(q = p /\ o <= w /\ w < o + n) BY <3>5, <3>6, <4>6
        <5>2. data'[q][w] = data[q][w] BY <4>3, <4>4, <5>1
        <5> QED BY <3>2, <3>3, <3>6, <4>6, <5>2
      <4> QED BY <4>5, <4>6
    <3>7. CASE ~Inside(b) BY <3>2, <3>3, <3>4, <3>7
    <3> QED BY <3>6, <3>7
  <2>3. ImageOf' = [b \in Units |-> IF a <= b /\ b < a + n THEN req.value ELSE ImageOf[b]]
    <3>1. ImageOf' = [b \in Units |-> ImageOf'[b]] BY DEF ImageOf
    <3>. HIDE DEF a
    <3> QED BY <2>2, <3>1
  <2>4. result' \in {"busy", "ok", "error"} /\ (result' = "ok" => moved' = req.len)
        /\ (result' = "error" => fault' \/ ~Flat!Reached(a + n))
    <3>. HIDE DEF a, p, o
    <3> QED BY ONLY <1>3
  <2>5. Flat!Move(n) BY <1>1, <1>3, <1>4, <1>8, <1>10, <2>1, <2>3, <2>4 DEF Flat!Move
  <2>6. n \in 0..req.len BY <1>2, <1>3
  <2> QED BY <2>5, <2>6 DEF Flat!Next
<1> QED BY <1>9, <1>10

\* A request never moves more than it asks for.
MovedInv == result = "busy" => moved <= req.len

LEMMA MovedInvStep ==
  ASSUME ImageAssumption, IInv, MovedInv, [Next]_vars PROVE MovedInv'
<1>1. CASE UNCHANGED <<req, moved, result>> BY <1>1 DEF MovedInv
<1>2. ASSUME NEW r \in Requests, Begin(r) PROVE MovedInv'
  <2>1. req' = r /\ moved' = 0 BY <1>2 DEF Begin
  <2>2. r.len \in Nat BY DEF ImageAssumption, RequestType
  <2> QED BY <2>1, <2>2 DEF MovedInv
<1>3. CASE result' \in {"none", "error"} BY <1>3 DEF MovedInv
<1>4. CASE Transfer
  <2>1. req.at \in Nat /\ req.len \in Nat /\ moved \in Nat /\ TypeOK
    BY DEF IInv, TypeOK, RequestType
  <2>. DEFINE a == req.at + moved
              c == Least(req.len - moved, size[PartOf(a)] - PlaceOf(a))
  <2>2. a \in Nat /\ Inside(a) BY <1>4, <2>1 DEF Transfer
  <2>3. \E n \in 0..c : moved' = moved + n BY <1>4 DEF Transfer
  <2>. HIDE DEF a
  <2>4. PlaceOf(a) \in Nat /\ size[PartOf(a)] \in 0..MaxUnits BY <2>1, <2>2, PartAndPlace
  <2>5. c \in Int /\ c <= req.len - moved BY <2>1, <2>4 DEF Least, ImageAssumption
  <2>. HIDE DEF c
  <2>6. moved' <= req.len BY <2>1, <2>3, <2>5
  <2>7. req' = req BY <1>4 DEF Transfer
  <2> QED BY <2>6, <2>7 DEF MovedInv
<1>5. CASE UNCHANGED vars BY <1>1, <1>5 DEF vars, ioVars
<1>6. CASE Next
  <2>1. ASSUME NEW n \in Sizes, CreateImage(n) PROVE MovedInv'
    BY <1>1, <2>1 DEF CreateImage, ioVars
  <2>2. CASE CreatePart BY <1>1, <2>2 DEF CreatePart, ioVars
  <2>3. CASE PartsCreated BY <1>1, <2>3 DEF PartsCreated, ioVars
  <2>4. CASE RemoveStale BY <1>1, <2>4 DEF RemoveStale, ioVars
  <2>5. CASE Created BY <1>1, <2>5 DEF Created, ioVars
  <2>6. CASE CleanUp BY <1>1, <2>6 DEF CleanUp, ioVars
  <2>7. CASE CreationFailed BY <1>1, <2>7 DEF CreationFailed, ioVars
  <2>8. CASE LeaveFileName BY <1>1, <2>8 DEF LeaveFileName, ioVars
  <2>9. CASE DeleteMain BY <1>1, <2>9 DEF DeleteMain, ioVars
  <2>10. CASE PowerLoss BY <1>1, <2>10 DEF PowerLoss, ioVars
  <2>11. ASSUME NEW ro \in BOOLEAN, Mount(ro) PROVE MovedInv' BY <1>3, <2>11 DEF Mount
  <2>12. CASE Unmount BY <1>3, <2>12 DEF Unmount
  <2>13. CASE OutsideImage BY <1>3, <2>13 DEF OutsideImage
  <2>14. CASE SeekFails BY <1>3, <2>14 DEF SeekFails
  <2> QED
    BY <1>2, <1>4, <1>6, <2>1, <2>2, <2>3, <2>4, <2>5, <2>6, <2>7, <2>8, <2>9, <2>10,
       <2>11, <2>12, <2>13, <2>14 DEF Next
<1> QED BY <1>5, <1>6

\* A step that is no request's changes nothing while nothing is open.
LEMMA ClosedStep ==
  ASSUME ImageAssumption, PartsInv, PartsInv', ~mounted, ~mounted',
         UNCHANGED <<req, moved, out, result, fault>>
  PROVE  FlatStep
  BY NothingOpen DEF FlatStep

\* What is open stays as it is.
LEMMA SameImage ==
  ASSUME UNCHANGED <<count, size, data>> PROVE ImageOf' = ImageOf
  BY DEF ImageOf, Holds

LEMMA RefinementStep ==
  ASSUME ImageAssumption, IInv, PartsInv, PartsInv', MovedInv, [Next]_vars, astray = {}
  PROVE  FlatStep
<1>1. CASE UNCHANGED vars
  BY <1>1, SameImage DEF vars, cardVars, openVars, ioVars, FlatStep
<1>2. CASE Next
  <2>. USE DEF openVars, ioVars
  <2>1. ASSUME NEW n \in Sizes, CreateImage(n) PROVE FlatStep
    BY <2>1, ClosedStep DEF CreateImage
  <2>2. CASE CreatePart BY <2>2, ClosedStep DEF CreatePart, PartsInv
  <2>3. CASE PartsCreated BY <2>3, ClosedStep DEF PartsCreated, PartsInv
  <2>4. CASE RemoveStale BY <2>4, ClosedStep DEF RemoveStale, PartsInv
  <2>5. CASE Created BY <2>5, ClosedStep DEF Created, PartsInv
  <2>6. CASE CleanUp BY <2>6, ClosedStep DEF CleanUp, PartsInv
  <2>7. CASE CreationFailed BY <2>7, ClosedStep DEF CreationFailed, PartsInv
  <2>8. CASE LeaveFileName BY <2>8, ClosedStep DEF LeaveFileName, PartsInv
  <2>9. CASE DeleteMain BY <2>9, ClosedStep DEF DeleteMain
  <2>10. CASE PowerLoss BY <2>10, ClosedStep DEF PowerLoss, PartsInv
  <2>11. ASSUME NEW ro \in BOOLEAN, Mount(ro) PROVE FlatStep
    <3>1. result # "busy" BY <2>11 DEF Mount, PartsInv
    <3> QED BY <2>11, <3>1 DEF Mount, FlatStep, Flat!Next, Flat!Change
  <2>12. CASE Unmount BY <2>12 DEF Unmount, FlatStep, Flat!Next, Flat!Change
  <2>13. ASSUME NEW r \in Requests, Begin(r) PROVE FlatStep
    <3>1. ImageOf' = ImageOf BY <2>13, SameImage DEF Begin, cardVars
    <3>2. result' \in {"busy", "ok", "error"} /\ (result' = "ok" => req'.len = 0)
          /\ (result' = "error" => req'.kind = "write")
      BY <2>13 DEF Begin
    <3> QED BY <2>13, <3>1, <3>2 DEF Begin, FlatStep, Flat!Next, Flat!Begin
  <2>14. CASE OutsideImage
    <3>1. ImageOf' = ImageOf BY <2>14, SameImage DEF OutsideImage, cardVars
    <3> QED BY <2>14, <3>1, NothingMoves DEF OutsideImage, MovedInv, FlatStep
  <2>15. CASE SeekFails
    <3>1. ImageOf' = ImageOf BY <2>15, SameImage DEF SeekFails, cardVars
    <3>2. /\ result = "busy" /\ result' = "error" /\ fault' = TRUE
          /\ UNCHANGED <<req, moved, out>>
      BY <2>15 DEF SeekFails
    <3> QED BY <3>1, <3>2, NothingMoves DEF MovedInv, FlatStep
  <2>16. CASE Transfer BY <2>16, Moving DEF FlatStep
  <2> QED
    BY <1>2, <2>1, <2>2, <2>3, <2>4, <2>5, <2>6, <2>7, <2>8, <2>9, <2>10, <2>11, <2>12,
       <2>13, <2>14, <2>15, <2>16 DEF Next
<1> QED BY <1>1, <1>2

\* The parts of an image on the card are one flat image to the SCSI layer, as long as no
\* seek of several steps has failed half-way.
THEOREM PartsRefineFlatImage == Spec => ImplementsFlatImage
<1>1. Init => PartsInv /\ MovedInv
  BY ImageAssumption, PartsInvInit DEF MovedInv, Init
<1>2. IInv /\ PartsInv /\ [Next]_vars => PartsInv' BY ImageAssumption, PartsInvStep
<1>3. IInv /\ MovedInv /\ [Next]_vars => MovedInv' BY ImageAssumption, MovedInvStep
<1>4. Init => Flat!Init BY DEF Init, Flat!Init
<1>5. IInv /\ PartsInv /\ PartsInv' /\ MovedInv /\ [Next]_vars
        => [Flat!Next \/ astray # {}]_<<ImageOf, req, moved, out, result, fault>>
  BY ImageAssumption, RefinementStep DEF FlatStep
<1> QED BY <1>1, <1>2, <1>3, <1>4, <1>5, Inductive, PTL DEF Spec, ImplementsFlatImage


-----------------------------------------------------------------------------
(* The size the host is told: a sum over the open parts.  A fold is a      *)
(* function by recursion over sets; the facts about it are proved by       *)
(* induction, with the library's theorem that a set of finite sets has a   *)
(* smallest one.                                                           *)

\* The sums of f over the subsets of S, as the fold defines them
SumsAre(f, S, sums) ==
  sums = [s \in SUBSET S |-> IF s = {} THEN 0
                             ELSE LET x == CHOOSE x \in s : TRUE IN f[x] + sums[s \ {x}]]

LEMMA FoldIs ==
  ASSUME NEW f, NEW S
  PROVE  FoldFunctionOnSet(+, 0, f, S) = (CHOOSE sums : SumsAre(f, S, sums))[S]
  BY DEF FoldFunctionOnSet, MapThenFoldSet, SumsAre

\* There is one such function at most.
LEMMA SumsUnique ==
  ASSUME NEW S, IsFiniteSet(S), NEW f, NEW g, NEW h, SumsAre(f, S, g), SumsAre(f, S, h)
  PROVE  g = h
<1>. DEFINE Differ == {s \in SUBSET S : g[s] # h[s]}
            R == StrictSubsetOrdering(S)
<1>1. Differ = {}
  <2>. SUFFICES ASSUME Differ # {} PROVE FALSE OBVIOUS
  <2>1. Differ \subseteq FiniteSubsetsOf(S) BY FS_Subset DEF FiniteSubsetsOf
  <2>2. IsWellFoundedOn(R, FiniteSubsetsOf(S)) BY FS_StrictSubsetOrderingWellFounded
  <2>. HIDE DEF R, Differ
  <2>3. PICK s \in Differ : \A r \in Differ : <<r, s>> \notin R BY <2>1, <2>2, WFMin
  <2>4. s \in SUBSET S /\ g[s] # h[s] BY DEF Differ
  <2>5. s # {} BY <2>4 DEF SumsAre
  <2>. DEFINE x == CHOOSE x \in s : TRUE
  <2>6. x \in s BY <2>5
  <2>7. g[s] = f[x] + g[s \ {x}] /\ h[s] = f[x] + h[s \ {x}] BY <2>4, <2>5 DEF SumsAre
  <2>. HIDE DEF x
  <2>8. s \ {x} \in SUBSET S /\ <<s \ {x}, s>> \in R
    BY <2>4, <2>6 DEF R, StrictSubsetOrdering
  <2>9. s \ {x} \notin Differ BY <2>3, <2>8
  <2> QED BY <2>4, <2>7, <2>8, <2>9 DEF Differ
<1>2. \A s \in SUBSET S : g[s] = h[s] BY <1>1
<1>. HIDE DEF Differ
<1>3. g = [s \in SUBSET S |-> g[s]] /\ h = [s \in SUBSET S |-> h[s]] BY DEF SumsAre
<1> QED BY <1>2, <1>3, Zenon

\* Whatever satisfies the recursion is the sum.
LEMMA FoldFrom ==
  ASSUME NEW S, IsFiniteSet(S), NEW f, NEW g, SumsAre(f, S, g)
  PROVE  FoldFunctionOnSet(+, 0, f, S) = g[S]
<1>. DEFINE h == CHOOSE sums : SumsAre(f, S, sums)
<1>1. SumsAre(f, S, h) OBVIOUS
<1>. HIDE DEF h
<1>2. g = h BY <1>1, SumsUnique
<1> QED BY <1>2, FoldIs DEF h

\* One more of a size.
LEMMA OneMore ==
  ASSUME NEW k \in Nat, NEW b \in Nat
  PROVE  (k + 1) * b = b + k * b /\ k * b \in Nat
OBVIOUS

\* The total of n parts of the sizes f
Total(f, n) == FoldFunctionOnSet(+, 0, f, 0..n - 1)

\* All but the last have the same size
Sized(f, n, b, last) == (\A p \in 0..n - 2 : f[p] = b) /\ f[n - 1] = last

\* What they are in total.
LEMMA PartsTotal ==
  ASSUME NEW f, NEW n \in Nat \ {0}, NEW b \in Nat, NEW last \in Nat, Sized(f, n, b, last)
  PROVE  Total(f, n) = (n - 1) * b + last
<1>. DEFINE S == 0..n - 1
            l == n - 1
            tail(s) == IF l \in s THEN last ELSE 0
            g == [s \in SUBSET S |-> Cardinality(s \ {l}) * b + tail(s)]
<1>1. IsFiniteSet(S) /\ Cardinality(S) = n /\ l \in S BY FS_Interval
<1>2. \A p \in S : p # l => f[p] = b BY DEF Sized
<1>3. f[l] = last BY DEF Sized
<1>. HIDE DEF S, l
<1>4. ASSUME NEW s \in SUBSET S, NEW x \in s
      PROVE  g[s] = f[x] + g[s \ {x}]
  <2>1. s \ {x} \in SUBSET S /\ x \in S OBVIOUS
  <2>2. /\ IsFiniteSet(s \ {l}) /\ IsFiniteSet((s \ {x}) \ {l})
        /\ Cardinality((s \ {x}) \ {l}) \in Nat
    <3>1. s \ {l} \in SUBSET S /\ (s \ {x}) \ {l} \in SUBSET S OBVIOUS
    <3> QED BY <1>1, <3>1, FS_Subset, FS_CardinalityType
  <2>. DEFINE c == Cardinality((s \ {x}) \ {l})
  <2>3. g[s] = Cardinality(s \ {l}) * b + tail(s) /\ g[s \ {x}] = c * b + tail(s \ {x})
    BY <2>1
  <2>4. CASE x = l
    <3>1. (s \ {x}) \ {l} = s \ {l} BY <2>4
    <3>2. tail(s) = last /\ tail(s \ {x}) = 0 BY <2>4
    <3>. HIDE DEF g, tail, c
    <3>3. c * b \in Nat BY <2>2, OneMore DEF c
    <3>4. Cardinality(s \ {l}) = c BY <3>1 DEF c
    <3>5. g[s] = c * b + last /\ g[s \ {x}] = c * b BY <2>3, <3>2, <3>3, <3>4
    <3> QED BY <1>3, <2>4, <3>3, <3>5
  <2>5. CASE x # l
    <3>1. (s \ {x}) \ {l} = (s \ {l}) \ {x} /\ x \in s \ {l} BY <2>5
    <3>2. Cardinality(s \ {l}) = c + 1
      <4>1. Cardinality((s \ {l}) \ {x}) = Cardinality(s \ {l}) - 1
        BY <2>2, <3>1, FS_RemoveElement
      <4>2. Cardinality(s \ {l}) \in Nat BY <2>2, FS_CardinalityType
      <4>3. c = Cardinality((s \ {l}) \ {x}) BY <3>1
      <4>. HIDE DEF c
      <4> QED BY <4>1, <4>2, <4>3
    <3>3. tail(s) = tail(s \ {x}) /\ tail(s) \in Nat BY <2>5
    <3>. HIDE DEF g, tail, c
    <3>4. c \in Nat /\ (c + 1) * b = b + c * b /\ c * b \in Nat BY <2>2, OneMore DEF c
    <3> QED BY <1>2, <2>1, <2>3, <2>5, <3>2, <3>3, <3>4
  <2> QED BY <2>4, <2>5
<1>5. g[{}] = 0
  <2>1. {} \in SUBSET S /\ {} \ {l} = {} /\ tail({}) = 0 OBVIOUS
  <2>2. g[{}] = Cardinality({}) * b + 0 BY <2>1
  <2> QED BY <2>2, FS_EmptySet
<1>6. g = [s \in SUBSET S |-> g[s]] OBVIOUS
<1>7. g[S] = Cardinality(S \ {l}) * b + last BY <1>1
<1>. HIDE DEF g
<1>8. SumsAre(f, S, g)
  <2>1. ASSUME NEW s \in SUBSET S
        PROVE  g[s] = IF s = {} THEN 0
                      ELSE LET x == CHOOSE x \in s : TRUE IN f[x] + g[s \ {x}]
    <3>1. CASE s = {} BY <1>5, <3>1
    <3>2. CASE s # {}
      <4>. DEFINE x == CHOOSE x \in s : TRUE
      <4>1. x \in s BY <3>2
      <4> QED BY <1>4, <3>2, <4>1
    <3> QED BY <3>1, <3>2
  <2> QED BY <1>6, <2>1 DEF SumsAre
<1>9. FoldFunctionOnSet(+, 0, f, S) = g[S] BY <1>1, <1>8, FoldFrom
<1>10. Cardinality(S \ {l}) = l
  <2>1. Cardinality(S \ {l}) = n - 1 BY <1>1, FS_RemoveElement
  <2> QED BY <2>1 DEF l
<1> QED BY <1>7, <1>9, <1>10 DEF S, l, Total

-----------------------------------------------------------------------------
(* The creation of an image, and what is left of a failed one.             *)

\* Of the files e with sizes s, 0..k - 1 are the parts of an image of n units
Made(e, s, k, n) ==
  /\ k \in 1..MaxParts /\ \A p \in 0..k - 1 : p \in e
  /\ \A p \in 0..k - 2 : s[p] = PartSize
  /\ s[k - 1] \in 1..PartSize /\ n = (k - 1) * PartSize + s[k - 1]

\* So far the parts before create.part are created
Creating ==
  create.phase = "create" =>
    /\ create.parts \in 1..MaxParts /\ create.part <= create.parts
    /\ (create.parts - 1) * PartSize < create.want
    /\ create.want <= create.parts * PartSize
    /\ IF create.part = create.parts THEN Made(exists, size, create.parts, create.want)
       ELSE /\ \A p \in 0..create.part - 1 : p \in exists /\ size[p] = PartSize
            /\ create.left + create.part * PartSize = create.want

\* All are created, and of the older ones those before create.part are removed
Removing ==
  create.phase = "stale" =>
    /\ create.parts <= create.part /\ Made(exists, size, create.parts, create.want)
    /\ \A p \in create.parts..create.part - 1 : p \notin exists

\* Unless a removal fails, nothing before create.part is left
Cleaning ==
  /\ create.phase = "clean" /\ ~create.kept => \A p \in 0..create.part - 1 : p \notin exists
  /\ create.phase = "failed" /\ ~create.kept => exists = {}

\* An image that was created is there, no part more and no part less
Complete ==
  asked > 0 =>
    /\ create.phase = "idle"
    /\ \E k \in 1..MaxParts : /\ Made(exists, size, k, asked) /\ \A p \in k..MaxParts - 1 : p \notin exists
                              /\ mounted => count = k

CreationInv == /\ Creating /\ Removing /\ Cleaning /\ Complete
               /\ mounted => create.phase = "idle"

\* The fields of the records the actions make.
LEMMA RecordSet ==
  ASSUME NEW c \in CreateType, NEW x, NEW p, NEW n
  PROVE  LET a == [c EXCEPT !.part = p, !.left = n]
             b == [c EXCEPT !.part = p]
             d == [c EXCEPT !.phase = x, !.part = p]
             e == [c EXCEPT !.part = p, !.kept = TRUE]
             f == [c EXCEPT !.phase = x]
         IN  /\ a.phase = c.phase /\ a.part = p /\ a.left = n /\ a.parts = c.parts
             /\ a.want = c.want
             /\ b.phase = c.phase /\ b.part = p /\ b.left = c.left /\ b.parts = c.parts
             /\ b.want = c.want /\ b.kept = c.kept
             /\ d.phase = x /\ d.part = p
             /\ e.phase = c.phase /\ e.kept = TRUE
             /\ f.phase = x /\ f.part = c.part /\ f.parts = c.parts /\ f.want = c.want
BY DEF CreateType

\* How many parts an image has.
LEMMA Parted ==
  ASSUME NEW n \in Nat \ {0}, NEW b \in Nat \ {0}, NEW m \in Nat, n <= m * b
  PROVE  LET k == (n + b - 1) \div b
         IN  k \in 1..m /\ (k - 1) * b < n /\ n <= k * b
<1>. DEFINE t == n + b - 1
            k == t \div b
            r == t % b
<1>1. t \in Nat /\ t >= b OBVIOUS
<1>2. ASSUME NEW u \in Nat PROVE u = b * (u \div b) + (u % b) /\ u \div b \in Nat /\ u % b \in 0..b - 1
  BY Z3
<1>3. t = b * k + r /\ k \in Nat /\ r \in 0..b - 1 BY <1>1, <1>2
<1>. HIDE DEF k, r
<1>4. k # 0
  <2>1. b * 0 = 0 OBVIOUS
  <2> QED BY <1>1, <1>3, <2>1
<1>5. (k - 1) * b = b * k - b /\ k * b = b * k /\ b * k \in Nat BY <1>3, <1>4
<1>6. (k - 1) * b < n /\ n <= k * b BY <1>3, <1>5
<1>7. k <= m
  <2>. SUFFICES ASSUME k >= m + 1 PROVE FALSE BY <1>3
  <2>1. (k - 1) * b >= m * b
    <3>1. k - 1 >= m /\ k - 1 \in Nat BY <1>3
    <3> QED BY <3>1, Z3
  <2>2. m * b \in Nat /\ (k - 1) * b \in Int BY <1>5
  <2> QED BY <1>6, <2>1, <2>2
<1> QED BY <1>3, <1>4, <1>6, <1>7 DEF k

\* One part of several more.
LEMMA MorePart ==
  ASSUME NEW a \in Nat, NEW b \in Nat, NEW s \in Nat, a < b
  PROVE  /\ (a + 1) * s = a * s + s /\ a * s \in Nat /\ b * s \in Nat
         /\ a * s + s <= b * s
<1>1. (a + 1) * s = a * s + s OBVIOUS
<1>2. (a + 1) * s <= b * s BY Z3
<1> QED BY <1>1, <1>2

\* What the actions say of the part that is created.
LEMMA PartNow ==
  ASSUME ImageAssumption, TypeOK, Creating, create.phase = "create", create.part < create.parts
  PROVE  LET p == create.part
             n == Least(create.left, PartSize)
         IN  /\ p \in Parts /\ p \in Nat
             /\ p < create.parts - 1 =>
                  n = PartSize /\ (create.left - n) + (p + 1) * PartSize = create.want
             /\ p = create.parts - 1 =>
                  /\ n = create.left /\ n \in 1..PartSize
                  /\ create.want = (create.parts - 1) * PartSize + n
<1>. DEFINE p == create.part
            n == Least(create.left, PartSize)
            w == create.want
            l == create.left
            all == create.parts - 1
<1>1. /\ PartSize \in Nat \ {0} /\ MaxParts \in Nat \ {0}
      /\ l \in Nat /\ w \in Nat /\ p \in Nat /\ create.parts \in 1..MaxParts
  BY DEF ImageAssumption, TypeOK, CreateType, Creating
<1>2. all * PartSize < w /\ w <= create.parts * PartSize /\ l + p * PartSize = w
  BY <1>1 DEF Creating
<1>3. p \in Parts BY <1>1 DEF Parts
<1>4. all \in Nat /\ create.parts = all + 1 /\ p <= all BY <1>1
<1>. HIDE DEF p, w, l, all
<1>5. (all + 1) * PartSize = all * PartSize + PartSize /\ all * PartSize \in Nat
  BY <1>1, <1>4
<1>6. (p + 1) * PartSize = p * PartSize + PartSize /\ p * PartSize \in Nat
  BY <1>1, <1>4
<1>7. CASE p < all
  <2>1. p * PartSize + PartSize <= all * PartSize BY <1>1, <1>4, <1>7, MorePart
  <2>2. n = PartSize BY <1>1, <1>2, <1>5, <1>6, <2>1 DEF Least, l
  <2>3. (l - n) + (p + 1) * PartSize = w BY <1>1, <1>2, <1>6, <2>2
  <2> QED BY <1>1, <1>3, <1>4, <1>7, <2>2, <2>3 DEF p, w, l, all
<1>8. CASE p = all
  <2>1. l <= PartSize /\ l > 0 BY <1>1, <1>2, <1>4, <1>5, <1>8
  <2>2. n = l BY <1>1, <2>1 DEF Least, l
  <2>3. w = all * PartSize + n BY <1>1, <1>2, <1>5, <1>8, <2>2
  <2> QED BY <1>1, <1>3, <1>4, <1>8, <2>1, <2>2, <2>3 DEF p, w, l, all
<1> QED BY <1>1, <1>4, <1>7, <1>8

\* Steps that leave the card's parts, the creation and what is open alone.
LEMMA CreationElsewhere ==
  ASSUME CreationInv, UNCHANGED <<exists, size, create, asked, mounted, count>>
  PROVE  CreationInv'
BY DEF CreationInv, Creating, Removing, Cleaning, Complete, Made

\* The creation is over, and no image is claimed to be complete.
LEMMA CreationOver ==
  ASSUME TypeOK, CreationInv, create' = Idle, asked' = 0
  PROVE  CreationInv'
<1>1. create'.phase = "idle" BY DEF Idle
<1> QED BY <1>1 DEF CreationInv, Creating, Removing, Cleaning, Complete

\* No creation is in progress while an image is complete, and none is open during one.
LEMMA NotAsked ==
  ASSUME TypeOK, CreationInv, create.phase # "idle"
  PROVE  asked = 0 /\ ~mounted
BY DEF TypeOK, CreationInv, Complete

LEMMA CreateImageCreation ==
  ASSUME ImageAssumption, IInv, CreationInv, NEW n \in Sizes, CreateImage(n)
  PROVE  CreationInv'
<1>. DEFINE k == PartCount(n)
<1>1. n \in Nat \ {0} /\ n <= MaxParts * PartSize /\ PartSize \in Nat \ {0} /\ MaxParts \in Nat
  BY DEF ImageAssumption
<1>2. k \in 1..MaxParts /\ (k - 1) * PartSize < n /\ n <= k * PartSize
  BY <1>1, Parted DEF PartCount
<1>. HIDE DEF k
<1>3. /\ create'.phase = "create" /\ create'.part = 0 /\ create'.left = n
      /\ create'.want = n /\ create'.parts = k /\ asked' = 0 /\ mounted' = mounted /\ ~mounted
  BY DEF CreateImage, k, openVars
<1>4. Creating'
  <2>1. n + 0 * PartSize = n BY <1>1
  <2>2. ~(0 = k) /\ 0 <= k BY <1>2
  <2> QED BY <1>1, <1>2, <1>3, <2>1, <2>2 DEF Creating
<1> QED BY <1>3, <1>4 DEF CreationInv, Removing, Cleaning, Complete

LEMMA CreatePartCreation ==
  ASSUME ImageAssumption, IInv, CreationInv, CreatePart
  PROVE  CreationInv'
<1>. DEFINE p == create.part
            n == Least(create.left, PartSize)
            k == create.parts
            want == create.want
<1>1. /\ TypeOK /\ create \in CreateType /\ size \in [Parts -> 0..MaxUnits]
      /\ create.phase = "create" /\ p < k /\ Creating
  BY DEF IInv, TypeOK, CreatePart, CreationInv
<1>2. /\ p \in Parts /\ p \in Nat
      /\ p < k - 1 => n = PartSize /\ (create.left - n) + (p + 1) * PartSize = want
      /\ p = k - 1 => n \in 1..PartSize /\ want = (k - 1) * PartSize + n
  BY <1>1, PartNow
<1>3. /\ k \in 1..MaxParts /\ (k - 1) * PartSize < want /\ want <= k * PartSize
      /\ \A q \in 0..p - 1 : q \in exists /\ size[q] = PartSize
  BY <1>1 DEF Creating
<1>4. asked' = 0 /\ ~mounted'
  <2>1. asked' = asked /\ mounted' = mounted BY DEF CreatePart, openVars
  <2> QED BY <1>1, <2>1, NotAsked
<1>5. CASE create' = [create EXCEPT !.phase = "clean", !.part = 0]
  <2>1. create'.phase = "clean" /\ create'.part = 0 BY <1>1, <1>5, RecordSet
  <2> QED BY <1>4, <2>1 DEF CreationInv, Creating, Removing, Cleaning, Complete
<1>6. CASE /\ exists' = exists \cup {p} /\ size' = [size EXCEPT ![p] = n]
           /\ create' = [create EXCEPT !.part = p + 1, !.left = create.left - n]
  <2>. DEFINE left == create.left - n
  <2>. HIDE DEF n, left
  <2>1. /\ create'.phase = "create" /\ create'.part = p + 1 /\ create'.left = left
        /\ create'.parts = k /\ create'.want = want
    BY <1>1, <1>6, RecordSet DEF left
  <2>2. /\ size'[p] = n /\ \A q \in 0..p - 1 : size'[q] = size[q]
        /\ \A q \in 0..p : q \in exists'
    <3>1. \A q \in 0..p - 1 : q \in Parts /\ q # p BY <1>1, <1>2, <1>3 DEF Parts
    <3>2. \A q \in 0..p : q = p \/ q \in 0..p - 1 BY <1>2
    <3> QED BY <1>1, <1>2, <1>3, <1>6, <3>1, <3>2
  <2>. HIDE DEF p, k, want
  <2>3. CASE p < k - 1
    <3>1. n = PartSize /\ left + (p + 1) * PartSize = want BY <1>2, <2>3 DEF left, p, k, want
    <3>2. \A q \in 0..(p + 1) - 1 : q \in exists' /\ size'[q] = PartSize
      <4>1. \A q \in 0..(p + 1) - 1 : q \in 0..p /\ (q = p \/ q \in 0..p - 1)
        BY <1>2 DEF p
      <4> QED BY <1>3, <2>2, <3>1, <4>1 DEF p
    <3>3. p + 1 # k /\ p + 1 <= k BY <1>2, <1>3, <2>3 DEF p, k
    <3>4. Creating' BY <1>3, <2>1, <3>1, <3>2, <3>3 DEF Creating, k, want
    <3> QED BY <1>4, <2>1, <3>4 DEF CreationInv, Removing, Cleaning, Complete
  <2>4. CASE p = k - 1
    <3>1. n \in 1..PartSize /\ want = (k - 1) * PartSize + n BY <1>2, <2>4 DEF p, k, want
    <3>2. /\ \A q \in 0..k - 1 : q \in exists'
          /\ \A q \in 0..k - 2 : size'[q] = PartSize
      <4>1. \A q \in 0..k - 2 : q \in 0..p - 1 BY <1>2, <1>3, <2>4 DEF p, k
      <4> QED BY <1>3, <2>2, <2>4, <4>1 DEF p
    <3>3. Made(exists', size', k, want) BY <1>3, <2>2, <2>4, <3>1, <3>2 DEF Made, k, want
    <3>4. p + 1 = k /\ p + 1 <= k BY <1>2, <1>3, <2>4 DEF p, k
    <3>5. Creating' BY <1>3, <2>1, <3>3, <3>4 DEF Creating, k, want
    <3> QED BY <1>4, <2>1, <3>5 DEF CreationInv, Removing, Cleaning, Complete
  <2>5. p < k - 1 \/ p = k - 1 BY <1>1, <1>2, <1>3 DEF p, k
  <2> QED BY <2>3, <2>4, <2>5
<1> QED BY <1>5, <1>6 DEF CreatePart

LEMMA PartsCreatedCreation ==
  ASSUME ImageAssumption, IInv, CreationInv, PartsCreated
  PROVE  CreationInv'
<1>1. create \in CreateType /\ TypeOK BY DEF IInv, TypeOK
<1>2. /\ create.phase = "create" /\ create.part = create.parts
      /\ create' = [create EXCEPT !.phase = "stale"]
      /\ UNCHANGED <<exists, size, asked, mounted, count>>
  BY DEF PartsCreated, cardVars, openVars
<1>3. /\ create'.phase = "stale" /\ create'.part = create.part
      /\ create'.parts = create.parts /\ create'.want = create.want
  BY <1>1, <1>2, RecordSet
<1>4. asked' = 0 /\ ~mounted' BY <1>1, <1>2, NotAsked
<1>5. Made(exists, size, create.parts, create.want) /\ create.parts \in 1..MaxParts
  BY <1>2 DEF CreationInv, Creating
<1>6. Removing'
  <2>1. Made(exists', size', create'.parts, create'.want) BY <1>2, <1>3, <1>5 DEF Made
  <2>2. create'.parts <= create'.part /\ create'.parts..create'.part - 1 = {}
    BY <1>2, <1>3, <1>5
  <2> QED BY <2>1, <2>2 DEF Removing
<1> QED BY <1>3, <1>4, <1>6 DEF CreationInv, Creating, Cleaning, Complete

LEMMA RemoveStaleCreation ==
  ASSUME ImageAssumption, IInv, CreationInv, RemoveStale
  PROVE  CreationInv'
<1>. DEFINE p == create.part
            k == create.parts
<1>1. /\ create \in CreateType /\ TypeOK /\ size \in [Parts -> 0..MaxUnits]
      /\ p \in 0..MaxParts /\ p < MaxParts /\ create.phase = "stale"
  BY DEF IInv, TypeOK, CreateType, RemoveStale
<1>2. asked' = 0 /\ ~mounted'
  <2>1. asked' = asked /\ mounted' = mounted BY DEF RemoveStale, openVars
  <2> QED BY <1>1, <2>1, NotAsked
<1>3. /\ k <= p /\ Made(exists, size, k, create.want) /\ \A q \in k..p - 1 : q \notin exists
  BY <1>1 DEF CreationInv, Removing
<1>4. CASE create' = [create EXCEPT !.phase = "clean", !.part = 0]
  <2>1. create'.phase = "clean" /\ create'.part = 0 BY <1>1, <1>4, RecordSet
  <2> QED BY <1>2, <2>1 DEF CreationInv, Creating, Removing, Cleaning, Complete
<1>5. CASE /\ Remove(p) \/ (p \notin exists /\ UNCHANGED cardVars)
           /\ create' = [create EXCEPT !.part = p + 1]
  <2>1. /\ create'.phase = "stale" /\ create'.part = p + 1
        /\ create'.parts = k /\ create'.want = create.want
    BY <1>1, <1>5, RecordSet
  <2>2. /\ p \notin exists' /\ \A q \in Parts : q # p => size'[q] = size[q]
        /\ \A q : q # p => (q \in exists' <=> q \in exists)
    BY <1>1, <1>5 DEF Remove, cardVars
  <2>3. k \in 1..MaxParts BY <1>3 DEF Made
  <2>. HIDE DEF p, k
  <2>4. Made(exists', size', k, create.want)
    <3>1. \A q \in 0..k - 1 : q \in Parts /\ q # p BY <1>1, <1>3, <2>3 DEF Parts
    <3>2. \A q \in 0..k - 2 : q \in 0..k - 1 BY <2>3
    <3>3. k - 1 \in 0..k - 1 BY <2>3
    <3>4. /\ \A q \in 0..k - 1 : q \in exists' /\ size'[q] = size[q]
          /\ size'[k - 1] = size[k - 1]
      BY <1>3, <2>2, <3>1, <3>3 DEF Made
    <3> QED BY <1>3, <2>1, <3>2, <3>4 DEF Made
  <2>5. \A q \in k..(p + 1) - 1 : q \notin exists'
    <3>1. \A q \in k..(p + 1) - 1 : q = p \/ q \in k..p - 1 BY <1>1, <2>3
    <3> QED BY <1>3, <2>2, <3>1
  <2>6. k <= p + 1 BY <1>1, <1>3, <2>3
  <2>7. Removing' BY <2>1, <2>4, <2>5, <2>6 DEF Removing
  <2> QED BY <1>2, <2>1, <2>7 DEF CreationInv, Creating, Cleaning, Complete
<1> QED BY <1>4, <1>5 DEF RemoveStale

LEMMA CreatedCreation ==
  ASSUME ImageAssumption, IInv, CreationInv, Created
  PROVE  CreationInv'
<1>1. /\ create.phase = "stale" /\ create.part = MaxParts /\ create' = Idle
      /\ asked' = create.want /\ UNCHANGED <<exists, size, mounted, count>> /\ TypeOK
  BY DEF Created, cardVars, openVars, IInv
<1>2. create'.phase = "idle" BY <1>1 DEF Idle
<1>3. ~mounted' BY <1>1, NotAsked
<1>4. /\ Made(exists, size, create.parts, create.want)
      /\ \A p \in create.parts..MaxParts - 1 : p \notin exists
  BY <1>1 DEF CreationInv, Removing
<1>5. create.parts \in 1..MaxParts /\ Made(exists', size', create.parts, asked') BY <1>1, <1>4 DEF Made
<1>6. Complete' BY <1>1, <1>2, <1>3, <1>4, <1>5 DEF Complete
<1> QED BY <1>2, <1>6 DEF CreationInv, Creating, Removing, Cleaning

LEMMA CleanUpCreation ==
  ASSUME ImageAssumption, IInv, CreationInv, CleanUp
  PROVE  CreationInv'
<1>. DEFINE p == create.part
<1>1. /\ create \in CreateType /\ TypeOK /\ p \in 0..MaxParts /\ create.phase = "clean"
  BY DEF IInv, TypeOK, CreateType, CleanUp
<1>2. asked' = 0 /\ ~mounted'
  <2>1. asked' = asked /\ mounted' = mounted BY DEF CleanUp, openVars
  <2> QED BY <1>1, <2>1, NotAsked
<1>3. ~create.kept => \A q \in 0..p - 1 : q \notin exists BY <1>1 DEF CreationInv, Cleaning
<1>4. CASE Remove(p) /\ create' = [create EXCEPT !.part = p + 1]
  <2>1. create'.phase = "clean" /\ create'.part = p + 1 /\ create'.kept = create.kept
    BY <1>1, <1>4, RecordSet
  <2>2. exists' = exists \ {p} BY <1>4 DEF Remove
  <2>3. \A q \in 0..(p + 1) - 1 : q = p \/ q \in 0..p - 1 BY <1>1
  <2>4. Cleaning' BY <1>3, <2>1, <2>2, <2>3 DEF Cleaning
  <2> QED BY <1>2, <2>1, <2>4 DEF CreationInv, Creating, Removing, Complete
<1>5. CASE create' = [create EXCEPT !.part = p + 1, !.kept = TRUE]
  <2>1. create'.phase = "clean" /\ create'.kept BY <1>1, <1>5, RecordSet
  <2> QED BY <1>2, <2>1 DEF CreationInv, Creating, Removing, Cleaning, Complete
<1> QED BY <1>4, <1>5 DEF CleanUp

LEMMA CreationFailedCreation ==
  ASSUME ImageAssumption, IInv, CreationInv, CreationFailed
  PROVE  CreationInv'
<1>1. /\ create.phase = "clean" /\ create.part = MaxParts /\ TypeOK
      /\ create' = [Idle EXCEPT !.phase = "failed", !.kept = create.kept]
      /\ UNCHANGED <<exists, asked, mounted>>
  BY DEF CreationFailed, Cleaned, cardVars, openVars, IInv
<1>2. create'.phase = "failed" /\ create'.kept = create.kept BY <1>1 DEF Idle
<1>3. asked' = 0 /\ ~mounted' BY <1>1, NotAsked
<1>4. ~create.kept => exists = {}
  <2>1. ~create.kept => \A q \in Parts : q \notin exists
    BY <1>1 DEF CreationInv, Cleaning, Parts
  <2> QED BY <1>1, <2>1 DEF TypeOK
<1>5. Cleaning' BY <1>1, <1>2, <1>4 DEF Cleaning
<1> QED BY <1>2, <1>3, <1>5 DEF CreationInv, Creating, Removing, Complete

\* What is opened is what was created.
LEMMA MountCreation ==
  ASSUME ImageAssumption, IInv, CreationInv, NEW ro \in BOOLEAN, Mount(ro)
  PROVE  CreationInv'
<1>1. /\ create.phase = "idle" /\ UNCHANGED <<exists, size, create, asked>>
      /\ count' \in 1..MaxParts /\ \A p \in Parts : p < count' => Opens(p)
      /\ count' = MaxParts \/ ~Opens(count')
  BY DEF Mount, cardVars, createVars
<1>2. Complete'
  <2>1. SUFFICES ASSUME asked > 0
                 PROVE  \E k \in 1..MaxParts :
                          /\ Made(exists', size', k, asked) /\ \A p \in k..MaxParts - 1 : p \notin exists
                          /\ count' = k
    BY <1>1 DEF Complete
  <2>2. PICK k \in 1..MaxParts : Made(exists, size, k, asked) /\ \A p \in k..MaxParts - 1 : p \notin exists
    BY <2>1 DEF CreationInv, Complete
  <2>3. Made(exists', size', k, asked) BY <1>1, <2>2 DEF Made
  <2>4. MaxParts \in Nat BY DEF ImageAssumption
  <2>5. ~(count' > k)
    <3>1. SUFFICES ASSUME count' > k PROVE FALSE OBVIOUS
    <3>2. k \in Parts /\ k \in k..MaxParts - 1 BY <1>1, <2>4, <3>1 DEF Parts
    <3> QED BY <1>1, <2>2, <3>1, <3>2 DEF Opens
  <2>6. ~(count' < k)
    <3>1. SUFFICES ASSUME count' < k PROVE FALSE OBVIOUS
    <3>2. count' \in 0..k - 1 /\ count' - 1 \in 0..k - 2 /\ count' # MaxParts
      <4>. DEFINE c == count'
      <4>1. c \in 1..MaxParts /\ c < k BY <1>1, <3>1
      <4>. HIDE DEF c
      <4>2. c \in 0..k - 1 /\ c - 1 \in 0..k - 2 /\ c # MaxParts BY <2>4, <4>1
      <4> QED BY <4>2 DEF c
    <3>3. Opens(count') BY <2>2, <3>2 DEF Made, Opens
    <3> QED BY <1>1, <3>2, <3>3
  <2>7. count' = k BY <1>1, <2>4, <2>5, <2>6
  <2> QED BY <2>2, <2>3, <2>7
<1> QED BY <1>1, <1>2 DEF CreationInv, Creating, Removing, Cleaning

LEMMA UnmountCreation ==
  ASSUME ImageAssumption, IInv, CreationInv, Unmount
  PROVE  CreationInv'
<1>1. ~mounted' /\ UNCHANGED <<exists, size, create, asked>>
  BY DEF Unmount, cardVars, createVars
<1> QED BY <1>1 DEF CreationInv, Creating, Removing, Cleaning, Complete, Made

\* Every step keeps what is known of the creation.
LEMMA CreationStep ==
  ASSUME ImageAssumption, IInv, CreationInv, [Next]_vars
  PROVE  CreationInv'
<1>1. CASE LeaveFileName \/ PowerLoss
  <2>1. create' = Idle /\ asked' = asked /\ create.phase # "idle"
    BY <1>1 DEF LeaveFileName, PowerLoss
  <2>2. TypeOK BY DEF IInv
  <2>3. asked' = 0 BY <2>1, <2>2, NotAsked
  <2> QED BY <2>1, <2>2, <2>3, CreationOver
<1>2. CASE DeleteMain
  <2>1. create' = create /\ create.phase = "idle" /\ asked' = 0 BY <1>2 DEF DeleteMain
  <2> QED BY <2>1 DEF CreationInv, Creating, Removing, Cleaning, Complete
<1>3. CASE OutsideImage \/ SeekFails \/ Transfer \/ UNCHANGED vars
  <2>1. UNCHANGED <<exists, size, create, asked, mounted, count>>
    BY <1>3 DEF OutsideImage, SeekFails, Transfer, vars, cardVars, createVars, openVars
  <2> QED BY <2>1, CreationElsewhere
<1>4. ASSUME NEW r \in Requests, Begin(r) PROVE CreationInv'
  <2>1. UNCHANGED <<exists, size, create, asked, mounted, count>>
    BY <1>4 DEF Begin, cardVars, createVars, openVars
  <2> QED BY <2>1, CreationElsewhere
<1> QED
  BY <1>1, <1>2, <1>3, <1>4, CreateImageCreation, CreatePartCreation, PartsCreatedCreation,
     RemoveStaleCreation, CreatedCreation, CleanUpCreation, CreationFailedCreation,
     MountCreation, UnmountCreation
     DEF Next

\* No image was created yet.
LEMMA CreationInit == ASSUME Init PROVE CreationInv
<1>1. create.phase = "idle" /\ asked = 0 BY DEF Init, Idle
<1> QED BY <1>1 DEF CreationInv, Creating, Removing, Cleaning, Complete

\* An image is complete as soon as it is open.
LEMMA CreationHolds ==
  ASSUME ImageAssumption, CreationInv
  PROVE  CreationComplete
<1>1. ASSUME mounted, asked > 0 PROVE file_total_size = asked
  <2>1. PICK k \in 1..MaxParts : Made(exists, size, k, asked) /\ count = k
    BY <1>1 DEF CreationInv, Complete
  <2>2. /\ k \in Nat \ {0} /\ PartSize \in Nat /\ size[k - 1] \in Nat
        /\ \A p \in 0..k - 2 : size[p] = PartSize
        /\ asked = (k - 1) * PartSize + size[k - 1]
    BY <2>1 DEF Made, ImageAssumption
  <2>3. Sized(size, k, PartSize, size[k - 1]) BY <2>2 DEF Sized
  <2>4. Total(size, k) = (k - 1) * PartSize + size[k - 1] BY <2>2, <2>3, PartsTotal
  <2> QED BY <2>1, <2>2, <2>4 DEF file_total_size, Total
<1>2. create.phase = "failed" /\ ~create.kept => exists = {} BY DEF CreationInv, Cleaning
<1> QED BY <1>1, <1>2 DEF CreationComplete

\* mass_storage_create_image and file_total_size: an image whose creation succeeded is
\* mounted with the size that was asked for, whatever parts an older one left, and one
\* whose creation failed leaves nothing unless a removal fails too - for any size and
\* number of parts and any failures.
THEOREM ImageComplete == Spec => []CreationComplete
<1>1. Init => CreationInv BY CreationInit
<1>2. IInv /\ CreationInv /\ [Next]_vars => CreationInv' BY CreationStep, ImageAssumption
<1>3. CreationInv => CreationComplete BY CreationHolds, ImageAssumption
<1> QED BY <1>1, <1>2, <1>3, Inductive, PTL DEF Spec
=============================================================================
