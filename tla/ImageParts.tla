----------------------------- MODULE ImageParts ------------------------------
(***************************************************************************)
(* The image on the SD card: its creation in parts                         *)
(* (scenes/mass_storage_scene_file_name.c), the opening of the parts, and  *)
(* reads and writes across them with a cached position of each open part   *)
(* (scenes/mass_storage_scene_work.c).  Lengths and addresses are counted  *)
(* in units, of which a part of full size holds PartSize.                  *)
(***************************************************************************)
EXTENDS Naturals, Functions

CONSTANTS PartSize,     \* MASS_STORAGE_FILE_PART_SIZE
          MaxParts,     \* MASS_STORAGE_MAX_FILE_PARTS
          SeekStep,     \* UINT32_MAX, the farthest that one storage call seeks
          MaxUnits,     \* bound: the largest image or file
          Sizes,        \* the sizes "New image" offers
          Requests,     \* the reads and writes of the host
          Values,       \* what a unit may hold
          Faults,       \* what may fail: "open", "seek", "io", "remove"
          MaxCreates,   \* bound: images created
          MaxRequests   \* bound: reads and writes

Parts == 0..MaxParts - 1
Units == 0..MaxUnits - 1
RequestType == [kind : {"read", "write"}, at : Nat, len : Nat, value : Values]

ASSUME ImageAssumption ==
  /\ PartSize \in Nat \ {0} /\ MaxParts \in Nat \ {0} /\ SeekStep \in Nat \ {0}
  /\ MaxUnits \in Nat /\ MaxParts * PartSize <= MaxUnits
  /\ Sizes \subseteq 1..MaxParts * PartSize
  /\ Requests \subseteq RequestType /\ \A r \in Requests : r.len <= MaxUnits
  /\ {"junk", "zero"} \subseteq Values /\ "hole" \notin Values
  /\ Faults \subseteq {"open", "seek", "io", "remove"}
  /\ MaxCreates \in Nat /\ MaxRequests \in Nat

VARIABLES
  exists, size, data,  \* the files on the card: which parts there are, their contents
  create,              \* mass_storage_create_image: [phase, part, parts, left, want, kept]
  creates, asked,      \* images created so far; history: size of the last one, or 0
  mounted, readOnly, count,  \* app->file_count parts are open
  pos, cached,         \* the real position of each open part; app->file_offsets
  astray,              \* history: parts left in the middle of a failed seek
  req, moved, out, result, requests,  \* the request in progress or last finished
  fault                \* history: a storage call failed during it

cardVars   == <<exists, size, data>>
createVars == <<create, creates, asked>>
openVars   == <<mounted, readOnly, count>>
ioVars     == <<pos, cached, astray, req, moved, out, result, requests, fault>>
vars == <<cardVars, createVars, openVars, ioVars>>

Unknown == MaxUnits + 1          \* UINT64_MAX in app->file_offsets
NoRequest == [kind |-> "read", at |-> 0, len |-> 0, value |-> "zero"]
Idle == [phase |-> "idle", part |-> 0, parts |-> 0, left |-> 0,
         want |-> 0, kept |-> FALSE]
Least(a, b) == IF a <= b THEN a ELSE b

\* A card without the image, with one file of any size under its name (made
\* elsewhere, perhaps larger than a part), or with parts left of an older one
Init ==
  /\ \E main \in 0..MaxUnits, stale \in SUBSET (1..MaxParts - 1) :
       /\ exists = stale \cup (IF main = 0 THEN {} ELSE {0})
       /\ size = [p \in Parts |-> IF p = 0 THEN main ELSE IF p \in stale THEN PartSize ELSE 0]
  /\ data = [p \in Parts |-> [u \in Units |-> "junk"]]
  /\ create = Idle /\ creates = 0 /\ asked = 0
  /\ mounted = FALSE /\ readOnly = FALSE /\ count = 0
  /\ pos = [p \in Parts |-> 0] /\ cached = [p \in Parts |-> Unknown] /\ astray = {}
  /\ req = NoRequest /\ moved = 0 /\ out = [i \in Units |-> "junk"]
  /\ result = "none" /\ requests = 0 /\ fault = FALSE

-----------------------------------------------------------------------------
(* mass_storage_create_image: the parts are created, parts of an older     *)
(* image are removed, and after a failure every part is removed.           *)

\* part_count
PartCount(n) == (n + PartSize - 1) \div PartSize

\* The name is new: the text input refuses the name of an existing file
CreateImage(n) ==
  /\ create.phase = "idle" /\ ~mounted /\ 0 \notin exists /\ creates < MaxCreates
  /\ create' = [phase |-> "create", part |-> 0, left |-> n, want |-> n,
                kept |-> FALSE, parts |-> PartCount(n)]
  /\ creates' = creates + 1 /\ asked' = 0
  /\ UNCHANGED <<cardVars, openVars, ioVars>>

\* mass_storage_create_image_part: opening truncates the file, the seek makes it
\* as long as the part; only its beginning is zeroed
CreatePart ==
  /\ create.phase = "create" /\ create.part < create.parts
  /\ LET p == create.part
         n == Least(create.left, PartSize)
     IN \/ /\ exists' = exists \cup {p} /\ size' = [size EXCEPT ![p] = n]
           /\ data' = [data EXCEPT ![p] = [u \in Units |-> IF u = 0 THEN "zero" ELSE "junk"]]
           /\ create' = [create EXCEPT !.part = @ + 1, !.left = @ - n]
        \/ /\ "open" \in Faults /\ UNCHANGED cardVars
           /\ create' = [create EXCEPT !.phase = "clean", !.part = 0]
        \/ /\ "seek" \in Faults /\ exists' = exists \cup {p}
           /\ \E grown \in {0, n} : size' = [size EXCEPT ![p] = grown]
           /\ data' = [data EXCEPT ![p] = [u \in Units |-> "junk"]]
           /\ create' = [create EXCEPT !.phase = "clean", !.part = 0]
  /\ UNCHANGED <<creates, asked, openVars, ioVars>>

BadPartsCreated == /\ create.phase = "create" /\ create.part = create.parts   \* none is removed
                   /\ create' = [create EXCEPT !.phase = "stale", !.part = MaxParts]
                   /\ UNCHANGED <<cardVars, creates, asked, openVars, ioVars>>

PartsCreated == /\ create.phase = "create" /\ create.part = create.parts
                /\ create' = [create EXCEPT !.phase = "stale"]
                /\ UNCHANGED <<cardVars, creates, asked, openVars, ioVars>>

Remove(p) == exists' = exists \ {p} /\ size' = [size EXCEPT ![p] = 0] /\ UNCHANGED data

\* A part of an older image would be taken for one of this
RemoveStale ==
  /\ create.phase = "stale" /\ create.part < MaxParts
  /\ \/ /\ create.part \in exists /\ Remove(create.part)
        /\ create' = [create EXCEPT !.part = @ + 1]
     \/ /\ create.part \notin exists /\ UNCHANGED cardVars
        /\ create' = [create EXCEPT !.part = @ + 1]
     \/ /\ create.part \in exists /\ "remove" \in Faults /\ UNCHANGED cardVars
        /\ create' = [create EXCEPT !.phase = "clean", !.part = 0]
  /\ UNCHANGED <<creates, asked, openVars, ioVars>>

Created ==
  /\ create.phase = "stale" /\ create.part = MaxParts
  /\ create' = Idle /\ asked' = create.want
  /\ UNCHANGED <<cardVars, creates, openVars, ioVars>>

Cleaned == MaxParts                  \* how many names are removed after a failure

\* After a failure; the result of the removals is not looked at
CleanUp ==
  /\ create.phase = "clean" /\ create.part < Cleaned
  /\ \/ Remove(create.part) /\ create' = [create EXCEPT !.part = @ + 1]
     \/ /\ create.part \in exists /\ "remove" \in Faults /\ UNCHANGED cardVars
        /\ create' = [create EXCEPT !.part = @ + 1, !.kept = TRUE]
  /\ UNCHANGED <<creates, asked, openVars, ioVars>>

\* The name of the file stays in the text input, so it may be tried again
CreationFailed ==
  /\ create.phase = "clean" /\ create.part = Cleaned
  /\ create' = [Idle EXCEPT !.phase = "failed", !.kept = create.kept]
  /\ UNCHANGED <<cardVars, creates, asked, openVars, ioVars>>

LeaveFileName == create.phase = "failed" /\ create' = Idle
                 /\ UNCHANGED <<cardVars, creates, asked, openVars, ioVars>>

\* External: the image file is deleted elsewhere, which leaves its other parts
DeleteMain ==
  /\ create.phase = "idle" /\ ~mounted /\ 0 \in exists
  /\ Remove(0) /\ asked' = 0
  /\ UNCHANGED <<create, creates, openVars, ioVars>>

\* The power is lost while an image is created
PowerLoss ==
  /\ create.phase \in {"create", "stale", "clean"} /\ create' = Idle
  /\ UNCHANGED <<cardVars, creates, asked, openVars, ioVars>>

-----------------------------------------------------------------------------
(* Opening the parts, in mass_storage_scene_work_on_enter.                 *)

\* Part p belongs to the image
Opens(p) == p \in exists /\ (p > 0 => size[p - 1] = PartSize)

Mount(ro) ==
  /\ create.phase = "idle" /\ ~mounted /\ 0 \in exists
  /\ mounted' = TRUE /\ readOnly' = ro
  /\ count' \in 1..MaxParts
  /\ \A p \in Parts : p < count' => Opens(p)
  /\ count' = MaxParts \/ ~Opens(count')
  /\ pos' = [p \in Parts |-> 0] /\ cached' = [p \in Parts |-> Unknown] /\ astray' = {}
  /\ result' = "none"
  /\ UNCHANGED <<cardVars, createVars, req, moved, out, requests, fault>>

\* mass_storage_scene_work_on_exit
Unmount ==
  /\ mounted /\ result # "busy"
  /\ mounted' = FALSE /\ count' = 0 /\ result' = "none"
  /\ UNCHANGED <<cardVars, createVars, readOnly, pos, cached, astray, req, moved, out,
                 requests, fault>>

\* The size the host is told, which file_num_blocks divides by the block size
file_total_size == FoldFunctionOnSet(+, 0, size, 0..count - 1)

-----------------------------------------------------------------------------
(* file_read and file_write: one action is one turn of their loop.         *)

Begin(r) ==
  /\ mounted /\ result # "busy" /\ requests < MaxRequests
  /\ req' = r /\ moved' = 0 /\ requests' = requests + 1 /\ fault' = FALSE
  /\ result' = IF r.kind = "write" /\ readOnly THEN "error"
               ELSE IF r.len = 0 THEN "ok" ELSE "busy"
  /\ UNCHANGED <<cardVars, createVars, openVars, pos, cached, astray, out>>

BadPartOf(a) == a \div PartSize      \* also of one file larger than a part

\* file_prepare_part: the part of an address and the place in it
PartOf(a) == IF count > 1 THEN a \div PartSize ELSE 0

PlaceOf(a) == IF count > 1 THEN a % PartSize ELSE a

Inside(a) == PartOf(a) < count /\ PlaceOf(a) < size[PartOf(a)]

OutsideImage ==
  /\ result = "busy" /\ ~Inside(req.at + moved) /\ result' = "error"
  /\ UNCHANGED <<cardVars, createVars, openVars, pos, cached, astray, req, moved, out,
                 requests, fault>>

\* mass_storage_file_seek fails: at its first step the position is as before,
\* at a later one it is a multiple of SeekStep; file_offsets is not told
SeekFails ==
  /\ result = "busy" /\ Inside(req.at + moved) /\ "seek" \in Faults
  /\ LET p == PartOf(req.at + moved)
         o == PlaceOf(req.at + moved)
     IN /\ cached[p] # o
        /\ \E where \in {pos[p]} \cup {s \in 1..o - 1 : s % SeekStep = 0} :
             /\ pos' = [pos EXCEPT ![p] = where]
             /\ astray' = IF where = pos[p] THEN astray ELSE astray \cup {p}
  /\ result' = "error" /\ fault' = TRUE
  /\ UNCHANGED <<cardVars, createVars, openVars, cached, req, moved, out, requests>>

BadAdvance(n, chunk) == chunk         \* not what was really moved

Advance(n, chunk) == n                \* what file_offsets advances by

\* The part is where it should be, and up to the rest of the part is moved; a
\* short transfer ends the request
Transfer ==
  /\ result = "busy" /\ Inside(req.at + moved)
  /\ LET p == PartOf(req.at + moved)
         o == PlaceOf(req.at + moved)
         from == IF cached[p] = o THEN pos[p] ELSE o
         chunk == Least(req.len - moved, size[p] - o)
     IN \E n \in 0..chunk :
          /\ n = chunk \/ "io" \in Faults
          /\ from + n <= size[p]
          /\ pos' = [pos EXCEPT ![p] = from + n]
          /\ cached' = [cached EXCEPT ![p] = o + Advance(n, chunk)]
          /\ astray' = IF cached[p] = o THEN astray ELSE astray \ {p}
          /\ moved' = moved + n /\ fault' = (n # chunk)
          /\ result' = IF n # chunk THEN "error"
                       ELSE IF moved' = req.len THEN "ok" ELSE "busy"
          /\ IF req.kind = "read"
             THEN /\ out' = [i \in Units |-> IF moved <= i /\ i < moved + n
                                             THEN data[p][from + (i - moved)] ELSE out[i]]
                  /\ UNCHANGED data
             ELSE /\ data' = [data EXCEPT ![p] = [u \in Units |->
                                 IF from <= u /\ u < from + n THEN req.value ELSE @[u]]]
                  /\ UNCHANGED out
  /\ UNCHANGED <<exists, size, createVars, openVars, req, requests>>

Next ==
  \/ \E n \in Sizes : CreateImage(n)
  \/ CreatePart \/ PartsCreated \/ RemoveStale \/ Created \/ CleanUp \/ CreationFailed
  \/ LeaveFileName \/ DeleteMain \/ PowerLoss
  \/ \E ro \in BOOLEAN : Mount(ro)
  \/ Unmount
  \/ \E r \in Requests : Begin(r)
  \/ OutsideImage \/ SeekFails \/ Transfer

Spec == Init /\ [][Next]_vars

-----------------------------------------------------------------------------
(* Properties.                                                             *)

CreateType == [phase : {"idle", "create", "stale", "clean", "failed"}, part : 0..MaxParts,
               parts : 0..MaxParts, left : Nat, want : Nat, kept : BOOLEAN]

\* Types of the card, the creation, the open parts and the request.
TypeOK ==
  /\ exists \subseteq Parts /\ size \in [Parts -> 0..MaxUnits]
  /\ data \in [Parts -> [Units -> Values]]
  /\ create \in CreateType /\ creates \in Nat /\ asked \in Nat
  /\ mounted \in BOOLEAN /\ readOnly \in BOOLEAN /\ count \in 0..MaxParts
  /\ pos \in [Parts -> 0..MaxUnits] /\ cached \in [Parts -> 0..MaxUnits + 1]
  /\ astray \subseteq Parts
  /\ req \in RequestType /\ moved \in Nat /\ out \in [Units -> Values]
  /\ result \in {"none", "busy", "ok", "error"} /\ requests \in Nat /\ fault \in BOOLEAN

\* file_offsets is the position of the file whenever it claims to know it, unless
\* a seek of several steps failed half-way: no short transfer, failed request or
\* change of part may leave the two apart, or the next request moves other bytes.
PositionKnown ==
  mounted => \A p \in Parts \ astray : cached[p] \in {pos[p], Unknown}

\* Creating an image is all or nothing, whatever an older image of that name left on
\* the card: one that succeeded is mounted with the size that was asked for - all of
\* its parts, and none of the older image - and one that failed leaves no part behind,
\* unless a removal fails too.
CreationComplete ==
  /\ mounted /\ asked > 0 => file_total_size = asked
  /\ create.phase = "failed" /\ ~create.kept => exists = {}

\* The unit at an address of the image that the open parts make up
Holds(p, a) == p < count /\ p * PartSize <= a /\ a < p * PartSize + size[p]
ImageOf == [a \in Units |-> IF \E p \in Parts : Holds(p, a)
                            THEN LET p == CHOOSE p \in Parts : Holds(p, a)
                                 IN  data[p][a - p * PartSize]
                            ELSE "hole"]

Flat == INSTANCE FlatImage WITH image <- ImageOf, Hole <- "hole"

\* The parts are one flat image to the SCSI layer: reads and writes that cross from
\* part to part, stop in the middle or follow one that did move the units at the
\* addresses they name, and fail only when a storage call failed or the image ends
\* there - as long as no seek of several steps has failed half-way.
ImplementsFlatImage ==
  Flat!Init /\ [][Flat!Next \/ astray # {}]_<<ImageOf, req, moved, out, result, fault>>

=============================================================================
