------------------------- MODULE AppLifecycle_proofs --------------------------
(***************************************************************************)
(* Proofs about AppLifecycle: what a session needs is there as long as the *)
(* driver or the worker can use it, and an Eject event ends no session but *)
(* its own, for any number of sessions, bus events and waiting events.     *)
(***************************************************************************)
EXTENDS AppLifecycle, SequenceTheorems, WellFoundedInduction, TLAPS

-----------------------------------------------------------------------------
(* The scene stack.  The work scene can only be its top, and only the work *)
(* scene can be on top of the screen that waits for the port.              *)

Good(s) ==
  /\ s \in Seq(Scenes) /\ (s # <<>> => s[1] \in {"Start", "Settings"})
  /\ \A i \in 1..Len(s) : s[i] = "Work" => i = Len(s)
  /\ \A i \in 1..Len(s) - 1 : s[i] = "UsbLocked" => s[i + 1] = "Work"

\* A stack without the work scene
Base(s) == Good(s) /\ \A i \in 1..Len(s) : s[i] # "Work"

LEMMA Lengths ==
  ASSUME NEW s \in Seq(Scenes), s # <<>>
  PROVE  Len(s) \in Nat /\ Len(s) >= 1 /\ Len(s) \in 1..Len(s) /\ 1 \in 1..Len(s)
BY EmptySeq, LenProperties

LEMMA Prefix ==
  ASSUME NEW s, Good(s), NEW k \in 0..Len(s) - 1, s # <<>>
  PROVE  /\ Base(SubSeq(s, 1, k)) /\ Len(SubSeq(s, 1, k)) = k
         /\ k > 0 => SubSeq(s, 1, k)[k] = s[k]
         /\ k > 0 /\ Base(s) => s[k] # "UsbLocked"
<1> DEFINE t == SubSeq(s, 1, k)
<1>1. s \in Seq(Scenes)
  BY DEF Good
<1>2. Len(s) \in Nat /\ k \in Nat /\ k < Len(s)
  BY <1>1, Lengths
<1>3. \A i \in 1..k : s[i] \in Scenes
  BY <1>1, <1>2, ElementOfSeq
<1>4. t \in Seq(Scenes) /\ Len(t) = k /\ \A i \in 1..k : t[i] = s[i]
  <2>1. /\ t \in Seq(Scenes) /\ Len(t) = IF 1 <= k THEN k - 1 + 1 ELSE 0
        /\ \A i \in 1..k - 1 + 1 : t[i] = s[1 + i - 1]
    BY <1>2, <1>3, SubSeqProperties
  <2>2. Len(t) = k
    BY <1>2, <2>1
  <2>3. \A i \in 1..k : 1 + i - 1 = i /\ i \in 1..k - 1 + 1
    BY <1>2
  <2> QED
    BY <2>1, <2>2, <2>3
<1>5. \A i \in 1..k : i \in 1..Len(s) /\ i # Len(s)
  BY <1>2
<1>6. \A i \in 1..k : t[i] # "Work"
  BY <1>4, <1>5 DEF Good
<1>7. t # <<>> => t[1] \in {"Start", "Settings"}
  <2>1. SUFFICES ASSUME t # <<>>
                 PROVE  t[1] \in {"Start", "Settings"}
    OBVIOUS
  <2>2. 1 \in 1..k
    BY <1>4, <2>1, Lengths
  <2> QED
    BY <1>4, <2>2 DEF Good
<1>8. \A i \in 1..Len(t) - 1 : t[i] = "UsbLocked" => t[i + 1] = "Work"
  <2>1. TAKE i \in 1..Len(t) - 1
  <2>2. i \in 1..k /\ i + 1 \in 1..k /\ i \in 1..Len(s) - 1
    BY <1>2, <1>4
  <2> QED
    BY <1>1, <1>4, <2>2 DEF Good
<1>9. k > 0 /\ Base(s) => s[k] # "UsbLocked"
  <2>1. k > 0 => k \in 1..Len(s) - 1 /\ k + 1 \in 1..Len(s)
    BY <1>2
  <2> QED
    BY <2>1 DEF Base, Good
<1>10. \A i \in 1..Len(t) : t[i] = "Work" => i = Len(t)
  BY <1>4, <1>6
<1>11. Base(t)
  BY <1>4, <1>6, <1>7, <1>8, <1>10 DEF Base, Good
<1>12. k > 0 => t[k] = s[k]
  BY <1>2, <1>4
<1> QED
  BY <1>4, <1>9, <1>11, <1>12

LEMMA Appended ==
  ASSUME NEW s, Base(s), s # <<>>, NEW scene \in Scenes,
         scene = "Work" \/ s[Len(s)] # "UsbLocked"
  PROVE  /\ Good(Append(s, scene)) /\ Append(s, scene) # <<>>
         /\ Append(s, scene)[Len(Append(s, scene))] = scene
         /\ Len(Append(s, scene)) = Len(s) + 1 /\ Append(s, scene)[1] = s[1]
         /\ scene # "Work" => Base(Append(s, scene))
<1> DEFINE t == Append(s, scene)
<1>1. s \in Seq(Scenes)
  BY DEF Base, Good
<1>2. Len(s) \in Nat /\ Len(s) >= 1
  BY <1>1, Lengths
<1>3. /\ t \in Seq(Scenes) /\ t # <<>> /\ Len(t) = Len(s) + 1
      /\ \A i \in 1..Len(s) : t[i] = s[i]
      /\ t[Len(s) + 1] = scene
  BY <1>1, AppendProperties
<1>4. t[1] = s[1] /\ s[1] \in {"Start", "Settings"}
  BY <1>2, <1>3 DEF Base, Good
<1>5. \A i \in 1..Len(t) : i \in 1..Len(s) \/ i = Len(t)
  BY <1>2, <1>3
<1>6. \A i \in 1..Len(t) : t[i] = "Work" => i = Len(t) /\ scene = "Work"
  BY <1>3, <1>5 DEF Base
<1>7. \A i \in 1..Len(t) - 1 : t[i] = "UsbLocked" => t[i + 1] = "Work"
  <2>1. TAKE i \in 1..Len(t) - 1
  <2>2. CASE i = Len(s)
    BY <1>2, <1>3, <2>2
  <2>3. CASE i # Len(s)
    <3>1. i \in 1..Len(s) - 1 /\ i \in 1..Len(s) /\ i + 1 \in 1..Len(s)
      BY <1>2, <1>3, <2>3
    <3> QED
      BY <1>3, <3>1 DEF Base, Good
  <2> QED
    BY <2>2, <2>3
<1>8. Good(t)
  BY <1>3, <1>4, <1>6, <1>7 DEF Good
<1>9. scene # "Work" => Base(t)
  BY <1>6, <1>8 DEF Base
<1> QED
  BY <1>3, <1>4, <1>8, <1>9

\* A non-empty set of places has a last one.
LEMMA LastPlace ==
  ASSUME NEW n \in Nat, NEW S \in SUBSET (1..n), S # {}
  PROVE  \E i \in S : \A j \in S : j <= i
<1> DEFINE T == {n - i : i \in S}
<1>1. T \subseteq Nat /\ T # {}
  <2>1. \A i \in S : n - i \in Nat
    OBVIOUS
  <2>2. PICK i \in S : TRUE
    OBVIOUS
  <2>3. n - i \in T
    OBVIOUS
  <2> QED
    BY <2>1, <2>3
<1>2. IsWellFoundedOn(OpToRel(<, Nat), Nat)
  BY NatLessThanWellFounded
<1> HIDE DEF T
<1>3. PICK x \in T : \A y \in T : <<y, x>> \notin OpToRel(<, Nat)
  BY <1>1, <1>2, WFMin
<1>4. \A y \in T : ~(y < x)
  <2>1. TAKE y \in T
  <2>2. x \in Nat /\ y \in Nat
    BY <1>1
  <2> QED
    BY <1>3, <2>2 DEF OpToRel
<1>5. PICK i \in S : x = n - i
  BY DEF T
<1>6. \A j \in S : j <= i
  <2>1. TAKE j \in S
  <2>2. n - j \in T
    BY DEF T
  <2>3. ~(n - j < n - i)
    BY <1>4, <1>5, <2>2
  <2> QED
    BY <2>3
<1> QED
  BY <1>6

LEMMA BelowPlace ==
  ASSUME NEW s \in Seq(Scenes), NEW scene
  PROVE  \/ /\ Below(s, scene) = 0
            /\ \A i \in 1..Len(s) - 1 : s[i] # scene
         \/ Below(s, scene) \in 1..Len(s) - 1 /\ s[Below(s, scene)] = scene
<1> DEFINE found == {i \in 1..Len(s) - 1 : s[i] = scene}
<1>1. Len(s) \in Nat
  BY LenProperties
<1>2. CASE found = {}
  BY <1>2 DEF Below
<1>3. CASE found # {}
  <2>1. found \in SUBSET (1..Len(s))
    BY <1>1
  <2>2. \E i \in found : \A j \in found : j <= i
    BY <1>1, <1>3, <2>1, LastPlace
  <2>3. Below(s, scene) = CHOOSE i \in found : \A j \in found : j <= i
    BY <1>3 DEF Below
  <2> HIDE DEF found
  <2>4. Below(s, scene) \in found
    BY <2>2, <2>3
  <2> QED
    BY <2>4 DEF found
<1> QED
  BY <1>2, <1>3

-----------------------------------------------------------------------------
(* The event queue.                                                        *)

Without(q, name) == \A i \in 1..Len(q) : q[i].name # name

\* No Start and no Eject wait behind a Start.
Ordered(q) ==
  \A i, j \in 1..Len(q) :
    i < j /\ q[i].name = "Start" => q[j].name # "Start" /\ q[j].name # "Eject"

\* Every Eject is from session s.
Own(q, s) == \A i \in 1..Len(q) : q[i].name = "Eject" => q[i].session = s

LEMMA QueueLength ==
  ASSUME NEW q \in Seq(EventType)
  PROVE  Len(q) \in Nat /\ (q # <<>> => Len(q) >= 1 /\ 1 \in 1..Len(q))
BY EmptySeq, LenProperties

LEMMA TailQueue ==
  ASSUME NEW q \in Seq(EventType), q # <<>>
  PROVE  /\ Tail(q) \in Seq(EventType) /\ Head(q) = q[1]
         /\ Ordered(q) => Ordered(Tail(q))
         /\ \A name : Without(q, name) => Without(Tail(q), name)
         /\ \A s : Own(q, s) => Own(Tail(q), s)
         /\ Ordered(q) /\ q[1].name = "Start" =>
              Without(Tail(q), "Start") /\ Without(Tail(q), "Eject")
<1> DEFINE t == Tail(q)
<1>1. /\ t \in Seq(EventType) /\ Len(t) = Len(q) - 1
      /\ \A i \in 1..Len(t) : t[i] = q[i + 1]
  BY HeadTailProperties
<1>2. Len(q) \in Nat /\ Len(q) >= 1 /\ 1 \in 1..Len(q)
  BY QueueLength
<1>3. \A i \in 1..Len(t) : i + 1 \in 1..Len(q) /\ 1 < i + 1
  BY <1>1, <1>2
<1>4. Ordered(q) => Ordered(t)
  <2>1. SUFFICES ASSUME Ordered(q), NEW i \in 1..Len(t), NEW j \in 1..Len(t),
                        i < j, t[i].name = "Start"
                 PROVE  t[j].name # "Start" /\ t[j].name # "Eject"
    BY DEF Ordered
  <2>2. i + 1 < j + 1
    BY <1>1, <1>2, <2>1
  <2> QED
    BY <1>1, <1>3, <2>1, <2>2 DEF Ordered
<1>5. \A name : Without(q, name) => Without(t, name)
  BY <1>1, <1>3 DEF Without
<1>6. \A s : Own(q, s) => Own(t, s)
  BY <1>1, <1>3 DEF Own
<1>7. Ordered(q) /\ q[1].name = "Start" => Without(t, "Start") /\ Without(t, "Eject")
  BY <1>1, <1>2, <1>3 DEF Ordered, Without
<1>8. Head(q) = q[1]
  OBVIOUS
<1> QED
  BY <1>1, <1>4, <1>5, <1>6, <1>7, <1>8

LEMMA AppendQueue ==
  ASSUME NEW q \in Seq(EventType), NEW e \in EventType
  PROVE  /\ Append(q, e) \in Seq(EventType)
         /\ Ordered(q) /\ (e.name = "Start" => Without(q, "Start"))
              /\ (e.name = "Eject" => Without(q, "Start")) => Ordered(Append(q, e))
         /\ \A name : Without(q, name) /\ e.name # name => Without(Append(q, e), name)
         /\ \A s : Own(q, s) /\ (e.name = "Eject" => e.session = s) => Own(Append(q, e), s)
<1> DEFINE t == Append(q, e)
<1>1. /\ t \in Seq(EventType) /\ Len(t) = Len(q) + 1
      /\ \A i \in 1..Len(q) : t[i] = q[i]
      /\ t[Len(q) + 1] = e
  BY AppendProperties
<1>2. Len(q) \in Nat
  BY QueueLength
<1>3. \A i \in 1..Len(t) : i \in 1..Len(q) \/ i = Len(q) + 1
  BY <1>1, <1>2
<1> HIDE DEF t
<1>4. ASSUME Ordered(q), e.name = "Start" => Without(q, "Start"),
             e.name = "Eject" => Without(q, "Start")
      PROVE  Ordered(t)
  <2>1. SUFFICES ASSUME NEW i \in 1..Len(t), NEW j \in 1..Len(t), i < j, t[i].name = "Start"
                 PROVE  t[j].name # "Start" /\ t[j].name # "Eject"
    BY DEF Ordered
  <2>2. i \in 1..Len(q) /\ t[i] = q[i]
    BY <1>1, <1>2, <1>3, <2>1
  <2>3. ~Without(q, "Start")
    BY <2>1, <2>2 DEF Without
  <2>4. CASE j \in 1..Len(q)
    BY <1>1, <1>4, <2>1, <2>2, <2>4 DEF Ordered
  <2>5. CASE j = Len(q) + 1
    BY <1>1, <1>4, <2>3, <2>5
  <2> QED
    BY <1>3, <2>4, <2>5
<1>5. \A name : Without(q, name) /\ e.name # name => Without(t, name)
  BY <1>1, <1>3 DEF Without
<1>6. \A s : Own(q, s) /\ (e.name = "Eject" => e.session = s) => Own(t, s)
  BY <1>1, <1>3 DEF Own
<1> QED
  BY <1>1, <1>4, <1>5, <1>6 DEF t

-----------------------------------------------------------------------------
(* The inductive invariant.                                                *)

StackInv == Good(stack) /\ Base(next)

NothingHeld == ~mutex /\ ~files /\ ~audio

EverythingHeld == mutex /\ (files \/ audio)

\* Where the application is, what of a session there is then.
PhaseInv ==
  /\ Top # "Work" => thread = "none" /\ NothingHeld /\ at \in {"idle", "dialog"}
  /\ at = "dialog" => stack # <<>> /\ Top = "FileSelect"
  /\ thread # "none" => EverythingHeld
  /\ attached => thread = "run"
  /\ at = "opened" => thread = "none" /\ EverythingHeld
  /\ at = "started" => thread = "run"
  /\ at = "stopping" => thread # "none"
  /\ at = "stopped" => thread = "none"
  /\ thread \in {"told", "done"} => at = "stopping"
  /\ at = "idle" /\ Top = "Work" => thread = "run" \/ NothingHeld
  /\ at = "idle" /\ Top = "Work" /\ ~mutex => stack[1] = "Settings" /\ ~present

\* Unless "Start" was selected twice: no Start waits for the work scene, and the Eject
\* events that do are from its session, whose end the options call for.
QueueInv ==
  ~twice =>
    /\ Ordered(queue)
    /\ Top \in {"Work", "UsbLocked"} => Without(queue, "Start")
    /\ Top = "Work" => Own(queue, session) /\ (toExit = session \/ Without(queue, "Eject"))
    /\ at = "opened" => Without(queue, "Eject")

IInv == TypeOK /\ StackInv /\ PhaseInv /\ QueueInv

-----------------------------------------------------------------------------
(* What steps share.                                                       *)

LEMMA TopScene ==
  ASSUME Good(stack)
  PROVE  /\ Top # "Work" => Base(stack)
         /\ stack # <<>> => Top = stack[Len(stack)] /\ Len(stack) \in 1..Len(stack)
         /\ Top = "Work" => stack # <<>>
<1>1. stack # <<>> => Top = stack[Len(stack)] /\ Len(stack) \in 1..Len(stack)
  BY Lengths DEF Top, Good
<1>2. Top = "Work" => stack # <<>>
  BY DEF Top
<1>3. ASSUME Top # "Work", NEW i \in 1..Len(stack)
      PROVE  stack[i] # "Work"
  <2>1. stack # <<>>
    BY <1>3, EmptySeq
  <2> QED
    BY <1>1, <1>3, <2>1 DEF Good
<1> QED
  BY <1>1, <1>2, <1>3 DEF Base

\* TypeOK by groups of variables.
SceneType ==
  /\ stack \in Seq(Scenes) /\ next \in Seq(Scenes)
  /\ at \in {"idle", "dialog", "opened", "started", "stopping", "stopped"}
  /\ image \in Images /\ present \in BOOLEAN /\ exitMode \in ExitModes /\ locked \in BOOLEAN

UsbType ==
  /\ thread \in {"none", "run", "told", "done"}
  /\ attached \in BOOLEAN /\ configured \in BOOLEAN /\ connected \in BOOLEAN

HeldType == mutex \in BOOLEAN /\ files \in BOOLEAN /\ audio \in BOOLEAN

LedType ==
  usbConnected \in BOOLEAN /\ traffic \in BOOLEAN /\ blinking \in BOOLEAN /\ led \in BOOLEAN

QueueType == queue \in Seq(EventType)

CountType == session \in Nat /\ bus \in Nat /\ toExit \in Nat /\ twice \in BOOLEAN

LEMMA Types ==
  TypeOK <=> SceneType /\ UsbType /\ HeldType /\ LedType /\ QueueType /\ CountType
BY DEF TypeOK, SceneType, UsbType, HeldType, LedType, QueueType, CountType

LEMMA TypesAfter ==
  ASSUME SceneType', UsbType', HeldType', LedType', QueueType', CountType'
  PROVE  TypeOK'
BY DEF TypeOK, SceneType, UsbType, HeldType, LedType, QueueType, CountType

LEMMA TypesKept ==
  ASSUME TypeOK
  PROVE  /\ UNCHANGED sceneVars => SceneType'
         /\ UNCHANGED usbVars => UsbType'
         /\ UNCHANGED heldVars => HeldType'
         /\ UNCHANGED ledVars => LedType'
         /\ UNCHANGED queue => QueueType'
         /\ UNCHANGED countVars => CountType'
BY DEF TypeOK, SceneType, UsbType, HeldType, LedType, QueueType, CountType,
       sceneVars, usbVars, heldVars, ledVars, countVars

\* A scene other than Work is shown, and nothing is left of a session.
LEMMA Shown ==
  ASSUME NEW s, Base(s), Show(s), thread' = "none", ~attached', NothingHeld'
  PROVE  /\ stack' = s /\ stack' \in Seq(Scenes) /\ Good(stack') /\ PhaseInv'
         /\ at' \in {"idle", "dialog"} /\ Top' # "Work"
         /\ Top' = IF s = <<>> THEN "none" ELSE s[Len(s)]
<1>1. stack' = s /\ at' = IF s # <<>> /\ s[Len(s)] = "FileSelect" THEN "dialog" ELSE "idle"
  BY DEF Show
<1>2. Good(s) /\ s \in Seq(Scenes)
  BY DEF Base, Good
<1>3. Top' = IF s = <<>> THEN "none" ELSE s[Len(s)]
  BY <1>1 DEF Top
<1>4. Top' # "Work"
  BY <1>2, <1>3, Lengths DEF Base
<1>5. at' = "dialog" => stack' # <<>> /\ Top' = "FileSelect"
  BY <1>1, <1>3
<1>6. PhaseInv'
  BY <1>1, <1>4, <1>5 DEF PhaseInv
<1> QED
  BY <1>1, <1>2, <1>3, <1>4, <1>6

LEMMA QuietPhase ==
  ASSUME IInv, UNCHANGED <<stack, at, next, thread, attached, mutex, files, audio>>,
         present' => present
  PROVE  StackInv' /\ PhaseInv' /\ Top' = Top
<1>1. Top' = Top
  BY DEF Top
<1> QED
  BY <1>1 DEF IInv, StackInv, PhaseInv, NothingHeld, EverythingHeld

LEMMA QuietQueue ==
  ASSUME IInv, UNCHANGED <<stack, at, queue, session, toExit, twice>>
  PROVE  QueueInv'
<1>1. Top' = Top
  BY DEF Top
<1> QED
  BY <1>1 DEF IInv, QueueInv

LEMMA EmptyQueue ==
  ASSUME queue' = <<>>
  PROVE  QueueInv'
<1>1. Len(queue') = 0
  OBVIOUS
<1>2. \A i \in 1..Len(queue') : FALSE
  BY <1>1
<1> QED
  BY <1>2 DEF QueueInv, Ordered, Without, Own

LEMMA Taken ==
  ASSUME IInv, Take
  PROVE  /\ queue \in Seq(EventType) /\ queue # <<>> /\ queue' = Tail(queue)
         /\ queue' \in Seq(EventType) /\ Comes = queue[1].name
         /\ at = "idle" /\ stack # <<>>
<1>1. queue \in Seq(EventType) /\ queue # <<>> /\ queue' = Tail(queue)
      /\ at = "idle" /\ stack # <<>>
  BY DEF IInv, TypeOK, Take, Idle
<1>2. Tail(queue) \in Seq(EventType) /\ Head(queue) = queue[1]
  BY <1>1, TailQueue
<1> QED
  BY <1>1, <1>2 DEF Comes

\* The queue gets shorter, and no scene comes up that the invariant speaks of.
LEMMA ShorterQueue ==
  ASSUME IInv, Take, UNCHANGED <<session, toExit, twice>>,
         Top' = Top \/ Top' \notin {"Work", "UsbLocked"},
         at' # "opened"
  PROVE  QueueInv'
<1>1. queue \in Seq(EventType) /\ queue # <<>> /\ queue' = Tail(queue)
  BY Taken
<1>2. /\ Ordered(queue) => Ordered(queue')
      /\ \A name : Without(queue, name) => Without(queue', name)
      /\ \A s : Own(queue, s) => Own(queue', s)
  BY <1>1, TailQueue
<1> QED
  BY <1>2 DEF IInv, QueueInv

\* EnterWork: the work scene comes up with all that its session needs, or nothing is held.
LEMMA Entered ==
  ASSUME IInv, Top \in {"Settings", "UsbLocked"}, EnterWork(stack),
         UNCHANGED <<thread, attached, present>>
  PROVE  /\ stack' \in Seq(Scenes) /\ Good(stack') /\ PhaseInv'
         /\ at' \in {"idle", "dialog", "opened"}
         /\ mutex' \in BOOLEAN /\ files' \in BOOLEAN /\ audio' \in BOOLEAN
         /\ usbConnected' \in BOOLEAN /\ traffic' \in BOOLEAN
         /\ blinking' \in BOOLEAN /\ led' \in BOOLEAN
<1> DEFINE s == Append(stack, "Work")
<1>1. Base(stack) /\ stack # <<>>
  BY TopScene DEF IInv, StackInv, Top
<1>2. thread = "none" /\ ~attached /\ NothingHeld
  BY DEF IInv, PhaseInv
<1>3. usbConnected' = FALSE /\ traffic' = FALSE /\ blinking' = FALSE /\ led' = FALSE
  BY DEF EnterWork
<1>4. /\ Good(s) /\ s \in Seq(Scenes) /\ s # <<>> /\ s[Len(s)] = "Work"
      /\ Len(s) = Len(stack) + 1 /\ s[1] = stack[1]
  BY <1>1, Appended DEF Good, Scenes
<1>5. mutex \in BOOLEAN /\ files \in BOOLEAN /\ audio \in BOOLEAN /\ image \in {"disk", "audio"}
  BY LifecycleAssumption DEF IInv, TypeOK, LifecycleAssumption
<1>6. Len(stack) \in Nat /\ Len(stack) >= 1
  BY <1>1, Lengths DEF Base, Good
<1> HIDE DEF s
<1>7. CASE ~present /\ UNCHANGED heldVars /\ Below(s, "Start") > 0 /\ Show(BackTo(s, "Start"))
  <2>1. NothingHeld'
    BY <1>2, <1>7 DEF heldVars, NothingHeld
  <2>2. Below(s, "Start") \in 0..Len(s) - 1
    BY <1>4, <1>6, <1>7, BelowPlace
  <2>3. Base(BackTo(s, "Start"))
    BY <1>4, <2>2, Prefix DEF BackTo
  <2> QED
    BY <1>2, <1>3, <1>5, <1>7, <2>1, <2>3, Shown DEF heldVars
<1>8. CASE /\ ~present /\ UNCHANGED heldVars /\ ~(Below(s, "Start") > 0)
           /\ stack' = s /\ at' = "idle"
  <2>1. NothingHeld'
    BY <1>2, <1>8 DEF heldVars, NothingHeld
  <2>2. s[1] # "Start"
    <3>1. 1 \in 1..Len(s) - 1
      BY <1>4, <1>6
    <3>2. Below(s, "Start") \notin 1..Len(s) - 1
      BY <1>4, <1>6, <1>8
    <3> QED
      BY <1>4, <3>1, <3>2, BelowPlace
  <2>3. stack'[1] = "Settings"
    BY <1>4, <1>8, <2>2 DEF Good
  <2>4. Top' = "Work"
    BY <1>4, <1>8 DEF Top
  <2>5. PhaseInv'
    BY <1>2, <1>8, <2>1, <2>3, <2>4 DEF PhaseInv
  <2> QED
    BY <1>3, <1>4, <1>5, <1>8, <2>5 DEF heldVars
<1>9. CASE Show(stack) /\ UNCHANGED heldVars
  <2>1. NothingHeld'
    BY <1>2, <1>9 DEF heldVars, NothingHeld
  <2> QED
    BY <1>1, <1>2, <1>3, <1>5, <1>9, <2>1, Shown DEF heldVars
<1>10. CASE /\ stack' = s /\ at' = "opened"
            /\ mutex' = TRUE /\ files' = (image = "disk") /\ audio' = (image = "audio")
  <2>1. EverythingHeld'
    BY <1>5, <1>10 DEF EverythingHeld
  <2>2. Top' = "Work"
    BY <1>4, <1>10 DEF Top
  <2>3. PhaseInv'
    BY <1>2, <1>10, <2>1, <2>2 DEF PhaseInv
  <2> QED
    BY <1>3, <1>4, <1>10, <2>3
<1> QED
  BY <1>7, <1>8, <1>9, <1>10 DEF EnterWork, s

-----------------------------------------------------------------------------
(* Actions: the user, the card, the port.                                  *)

LEMMA InitSound == Init => IInv
<1> SUFFICES ASSUME Init
             PROVE  IInv
  OBVIOUS
<1> USE LifecycleAssumption DEF LifecycleAssumption
<1>1. PICK first \in FirstScenes : stack = <<first>>
  BY DEF Init
<1>2. first \in {"Start", "Settings"} /\ first \in Scenes
  BY DEF Scenes
<1>3. stack \in Seq(Scenes) /\ Len(stack) = 1 /\ stack[1] = first /\ stack # <<>>
  BY <1>1, <1>2
<1>4. Good(stack)
  BY <1>2, <1>3 DEF Good
<1>5. Base(next) /\ next \in Seq(Scenes)
  BY EmptySeq DEF Init, Base, Good
<1>6. Top # "Work"
  BY <1>2, <1>3 DEF Top
<1>7. queue \in Seq(EventType)
  BY EmptySeq DEF Init
<1>8. TypeOK
  BY <1>3, <1>5, <1>7 DEF Init, TypeOK
<1>9. PhaseInv
  BY <1>6 DEF Init, PhaseInv, NothingHeld
<1>10. QueueInv
  <2>1. \A i \in 1..Len(queue) : FALSE
    BY DEF Init
  <2> QED
    BY <2>1 DEF QueueInv, Ordered, Without, Own
<1> QED
  BY <1>4, <1>5, <1>8, <1>9, <1>10 DEF IInv, StackInv

LEMMA UserSelectsSound ==
  ASSUME IInv, NEW name \in {"FileSelect", "NewImage", "NameInput", "Start"}, UserSelects(name)
  PROVE  IInv'
<1>1. /\ queue' = Append(queue, Event(name)) /\ name \in Offers(Top)
      /\ twice' = (twice \/ (name = "Start" /\ Waiting("Start")))
      /\ UNCHANGED <<sceneVars, usbVars, heldVars, ledVars, session, bus, toExit>>
  BY DEF UserSelects
<1>2. Event(name) \in EventType /\ Event(name).name = name
  BY DEF Event, EventType, IInv, TypeOK
<1>3. queue \in Seq(EventType)
  BY DEF IInv, TypeOK
<1>4. /\ queue' \in Seq(EventType)
      /\ Ordered(queue) /\ (name = "Start" => Without(queue, "Start")) => Ordered(queue')
      /\ \A other : Without(queue, other) /\ name # other => Without(queue', other)
      /\ \A s : Own(queue, s) => Own(queue', s)
  BY <1>1, <1>2, <1>3, AppendQueue
<1>5. TypeOK'
  BY <1>1, <1>4 DEF IInv, TypeOK, sceneVars, usbVars, heldVars, ledVars
<1>6. StackInv' /\ PhaseInv' /\ Top' = Top
  BY <1>1, QuietPhase DEF sceneVars, usbVars, heldVars
<1>7. name = "Start" => Top = "Settings"
  BY <1>1 DEF Offers
<1>8. ~twice' => ~twice /\ (name = "Start" => Without(queue, "Start"))
  BY <1>1 DEF Waiting, Without
<1>9. QueueInv'
  BY <1>1, <1>4, <1>6, <1>7, <1>8 DEF IInv, QueueInv, sceneVars
<1> QED
  BY <1>5, <1>6, <1>9 DEF IInv

LEMMA UserGoesBackSound ==
  ASSUME IInv, UserGoesBack
  PROVE  IInv'
<1>1. /\ queue' = Append(queue, Event("Back"))
      /\ UNCHANGED <<sceneVars, usbVars, heldVars, ledVars, countVars>>
  BY DEF UserGoesBack
<1>2. Event("Back") \in EventType /\ Event("Back").name = "Back"
  BY DEF Event, EventType, IInv, TypeOK
<1>3. queue \in Seq(EventType)
  BY DEF IInv, TypeOK
<1>4. /\ queue' \in Seq(EventType)
      /\ Ordered(queue) => Ordered(queue')
      /\ \A other : Without(queue, other) /\ "Back" # other => Without(queue', other)
      /\ \A s : Own(queue, s) => Own(queue', s)
  BY <1>1, <1>2, <1>3, AppendQueue
<1>5. TypeOK'
  BY <1>1, <1>4 DEF IInv, TypeOK, sceneVars, usbVars, heldVars, ledVars, countVars
<1>6. StackInv' /\ PhaseInv' /\ Top' = Top
  BY <1>1, QuietPhase DEF sceneVars, usbVars, heldVars
<1>7. QueueInv'
  BY <1>1, <1>4, <1>6 DEF IInv, QueueInv, sceneVars, countVars
<1> QED
  BY <1>5, <1>6, <1>7 DEF IInv

\* Steps that change neither scenes nor queue nor what a session holds.
LEMMA StillSound ==
  ASSUME IInv, UNCHANGED <<stack, at, next, thread, attached, mutex, files, audio>>,
         UNCHANGED <<queue, session, toExit, twice>>, present' => present, TypeOK'
  PROVE  IInv'
BY QuietPhase, QuietQueue DEF IInv

LEMMA FileVanishesSound ==
  ASSUME IInv, FileVanishes
  PROVE  IInv'
<1>1. /\ UNCHANGED <<stack, at, next, image, exitMode, locked>> /\ present' = FALSE
      /\ UNCHANGED <<queue, usbVars, heldVars, ledVars, countVars>>
  BY DEF FileVanishes
<1>2. SceneType'
  BY <1>1 DEF IInv, TypeOK, SceneType
<1>3. TypeOK'
  BY <1>1, <1>2, TypesKept, TypesAfter DEF IInv
<1> QED
  BY <1>1, <1>3, StillSound DEF usbVars, heldVars, countVars

LEMMA LockChangesSound ==
  ASSUME IInv, LockChanges
  PROVE  IInv'
<1>1. /\ UNCHANGED <<stack, at, next, image, present, exitMode>> /\ locked' = ~locked
      /\ UNCHANGED <<queue, usbVars, heldVars, ledVars, session, toExit, twice>>
      /\ bus' = bus + 1
  BY DEF LockChanges
<1>2. SceneType'
  BY <1>1 DEF IInv, TypeOK, SceneType
<1>3. bus' \in Nat
  BY <1>1 DEF IInv, TypeOK
<1>4. CountType'
  BY <1>1, <1>3 DEF IInv, TypeOK, CountType
<1>5. TypeOK'
  BY <1>1, <1>2, <1>4, TypesKept, TypesAfter DEF IInv
<1> QED
  BY <1>1, <1>5, StillSound DEF usbVars, heldVars

LEMMA TickWorkSound ==
  ASSUME IInv, TickWork
  PROVE  IInv'
<1>1. /\ UNCHANGED <<sceneVars, queue, usbVars, heldVars, countVars>>
      /\ usbConnected' = usbConnected /\ traffic' \in {FALSE, traffic}
      /\ blinking' \in BOOLEAN /\ led' \in {led, usbConnected}
  BY DEF TickWork, countVars
<1>2. LedType'
  BY <1>1 DEF IInv, TypeOK, LedType
<1>3. TypeOK'
  BY <1>1, <1>2, TypesKept, TypesAfter DEF IInv
<1> QED
  BY <1>1, <1>3, StillSound DEF sceneVars, usbVars, heldVars, countVars

LEMMA HostMovesSound ==
  ASSUME IInv, HostMoves
  PROVE  IInv'
<1>1. /\ UNCHANGED <<sceneVars, queue, usbVars, heldVars, countVars>>
      /\ UNCHANGED <<usbConnected, blinking, led>> /\ traffic' = TRUE
  BY DEF HostMoves, countVars
<1>2. LedType'
  BY <1>1 DEF IInv, TypeOK, LedType
<1>3. TypeOK'
  BY <1>1, <1>2, TypesKept, TypesAfter DEF IInv
<1> QED
  BY <1>1, <1>3, StillSound DEF sceneVars, usbVars, heldVars, countVars

\* What every callback of the driver leaves.
LEMMA CallbackTypes ==
  ASSUME IInv, Callback, OnBus, NEW c \in BOOLEAN, SetConnected(c), configured' \in BOOLEAN
  PROVE  /\ SceneType' /\ UsbType' /\ HeldType' /\ LedType' /\ bus' \in Nat
         /\ UNCHANGED <<stack, at, next, thread, attached, mutex, files, audio>>
         /\ UNCHANGED <<session, twice>> /\ present' = present
<1>1. /\ UNCHANGED <<sceneVars, thread, attached, heldVars, traffic, blinking, led, session, twice>>
      /\ connected' = c /\ usbConnected' \in {usbConnected, c} /\ bus' = bus + 1
  BY DEF Callback, OnBus, SetConnected
<1>2. UsbType'
  BY <1>1 DEF IInv, TypeOK, UsbType
<1>3. LedType'
  BY <1>1 DEF IInv, TypeOK, LedType
<1>4. bus' \in Nat
  BY <1>1 DEF IInv, TypeOK
<1>5. SceneType' /\ HeldType'
  BY <1>1, TypesKept DEF IInv
<1> QED
  BY <1>1, <1>2, <1>3, <1>4, <1>5 DEF sceneVars, heldVars

LEMMA ConfigureSound ==
  ASSUME IInv, Configure \/ Wakeup
  PROVE  IInv'
<1>1. /\ Callback /\ OnBus /\ SetConnected(TRUE) /\ configured' \in {TRUE, configured}
      /\ UNCHANGED <<queue, toExit>>
  BY DEF Configure, Wakeup
<1>2. configured' \in BOOLEAN
  BY <1>1 DEF IInv, TypeOK
<1>3. /\ SceneType' /\ UsbType' /\ HeldType' /\ LedType' /\ bus' \in Nat
      /\ UNCHANGED <<stack, at, next, thread, attached, mutex, files, audio>>
      /\ UNCHANGED <<session, twice>> /\ present' = present
  BY <1>1, <1>2, CallbackTypes
<1>4. CountType'
  BY <1>1, <1>3 DEF IInv, TypeOK, CountType
<1>5. TypeOK'
  BY <1>1, <1>3, <1>4, TypesKept, TypesAfter DEF IInv
<1> QED
  BY <1>1, <1>3, <1>5, StillSound

-----------------------------------------------------------------------------
(* Actions: scenes other than Work.                                        *)

LEMMA Popped ==
  ASSUME NEW s, Good(s), s # <<>>,
         NEW p, p \in {Front(s), BackTo(s, "Settings"), BackTo(s, "Start")}
  PROVE  Base(p) /\ p \in Seq(Scenes) /\ (Base(s) /\ p # <<>> => p[Len(p)] # "UsbLocked")
<1>1. s \in Seq(Scenes) /\ Len(s) \in Nat /\ Len(s) >= 1
  BY Lengths DEF Good
<1>2. PICK k \in 0..Len(s) - 1 : p = SubSeq(s, 1, k)
  <2>1. Len(s) - 1 \in 0..Len(s) - 1 /\ 0 \in 0..Len(s) - 1
    BY <1>1
  <2>2. Below(s, "Settings") \in 0..Len(s) - 1 /\ Below(s, "Start") \in 0..Len(s) - 1
    BY <1>1, <2>1, BelowPlace
  <2>3. CASE p = Front(s)
    BY <2>1, <2>3 DEF Front
  <2>4. CASE p \in {BackTo(s, "Settings"), BackTo(s, "Start")}
    BY <2>2, <2>4 DEF BackTo
  <2> QED
    BY <2>3, <2>4
<1>3. /\ Base(p) /\ Len(p) = k /\ (k > 0 => p[k] = s[k])
      /\ k > 0 /\ Base(s) => s[k] # "UsbLocked"
  BY <1>1, <1>2, Prefix
<1>4. p \in Seq(Scenes)
  BY <1>3 DEF Base, Good
<1>5. p # <<>> => k > 0
  BY <1>3, <1>4, Lengths
<1> QED
  BY <1>3, <1>4, <1>5

\* The queue stays, and no scene comes up that the invariant speaks of.
LEMMA CalmQueue ==
  ASSUME IInv, UNCHANGED <<queue, session, toExit, twice>>,
         Top' = Top \/ Top' \notin {"Work", "UsbLocked"}, at' # "opened"
  PROVE  QueueInv'
BY DEF IInv, QueueInv

\* While a scene other than Work is shown there is nothing of a session.
LEMMA NoSession ==
  ASSUME IInv, Top # "Work", UNCHANGED usbVars, UNCHANGED heldVars
  PROVE  /\ thread' = "none" /\ ~attached' /\ NothingHeld'
         /\ UsbType' /\ HeldType'
<1>1. UsbType' /\ HeldType'
  BY TypesKept DEF IInv
<1>2. thread = "none" /\ ~attached /\ NothingHeld
  BY DEF IInv, PhaseInv
<1> QED
  BY <1>1, <1>2 DEF usbVars, heldVars, NothingHeld

LEMMA DialogClosesSound ==
  ASSUME IInv, DialogCloses
  PROVE  IInv'
<1>1. /\ at = "dialog" /\ image' \in Images \cup {image} /\ present' \in {TRUE, present}
      /\ UNCHANGED <<next, exitMode, locked, queue, usbVars, heldVars, ledVars, countVars>>
  BY DEF DialogCloses
<1>2. Good(stack) /\ Top = "FileSelect" /\ stack # <<>>
  BY <1>1 DEF IInv, StackInv, PhaseInv
<1>3. Base(stack) /\ stack \in Seq(Scenes)
  BY <1>2, TopScene DEF Good
<1>4. PICK s : Show(s) /\ s \in {Append(stack, "Settings"), Front(stack)}
  BY DEF DialogCloses
<1>5. Base(s) /\ (s # <<>> => s[Len(s)] # "UsbLocked")
  <2>1. CASE s = Front(stack)
    BY <1>2, <1>3, <2>1, Popped
  <2>2. CASE s = Append(stack, "Settings")
    <3>1. "Settings" \in Scenes /\ stack[Len(stack)] # "UsbLocked"
      BY <1>2, TopScene DEF Scenes
    <3> QED
      BY <1>2, <1>3, <2>2, <3>1, Appended
  <2> QED
    BY <1>4, <2>1, <2>2
<1>6. /\ thread' = "none" /\ ~attached' /\ NothingHeld' /\ UsbType' /\ HeldType'
  BY <1>1, <1>2, NoSession
<1>7. /\ stack' \in Seq(Scenes) /\ Good(stack') /\ PhaseInv' /\ at' \in {"idle", "dialog"}
      /\ Top' # "Work" /\ Top' = IF s = <<>> THEN "none" ELSE s[Len(s)]
  BY <1>4, <1>5, <1>6, Shown
<1>8. SceneType'
  BY <1>1, <1>7 DEF IInv, TypeOK, SceneType
<1>9. TypeOK'
  BY <1>1, <1>6, <1>8, TypesKept, TypesAfter DEF IInv
<1>10. QueueInv'
  BY <1>1, <1>5, <1>7, CalmQueue DEF countVars
<1>11. StackInv'
  BY <1>1, <1>7 DEF IInv, StackInv
<1> QED
  BY <1>7, <1>9, <1>10, <1>11 DEF IInv

LEMMA DispatchMenuSound ==
  ASSUME IInv, DispatchMenu
  PROVE  IInv'
<1>1. /\ Take /\ Top \notin {"Work", "Settings"}
      /\ image' \in {"disk", image} /\ present' \in {TRUE, present}
      /\ UNCHANGED <<next, exitMode, locked, usbVars, heldVars, ledVars, countVars>>
  BY DEF DispatchMenu
<1>2. /\ at = "idle" /\ stack # <<>> /\ queue' \in Seq(EventType)
      /\ Good(stack) /\ stack \in Seq(Scenes)
  BY <1>1, Taken DEF IInv, StackInv, Good
<1>3. "disk" \in Images
  BY LifecycleAssumption DEF LifecycleAssumption
<1>4. Base(stack)
  BY <1>1, <1>2, TopScene
<1>5. \/ UNCHANGED <<stack, at, present>>
      \/ /\ Top \in {"Start", "FileName"}
         /\ \E scene \in {"FileSelect", "FileName", "Settings"} : Show(Append(stack, scene))
  <2>1. stack' = stack => UNCHANGED present
    BY DEF DispatchMenu
  <2> QED
    BY <2>1 DEF DispatchMenu
<1>6. CASE UNCHANGED <<stack, at, present>>
  <2>1. StackInv' /\ PhaseInv' /\ Top' = Top
    BY <1>1, <1>6, QuietPhase DEF usbVars, heldVars
  <2>2. SceneType'
    BY <1>1, <1>3, <1>6 DEF IInv, TypeOK, SceneType
  <2>3. TypeOK'
    BY <1>1, <1>2, <2>2, TypesKept, TypesAfter DEF IInv, QueueType
  <2>4. QueueInv'
    BY <1>1, <1>2, <1>6, <2>1, ShorterQueue DEF countVars
  <2> QED
    BY <2>1, <2>3, <2>4 DEF IInv
<1>7. CASE /\ Top \in {"Start", "FileName"}
           /\ \E scene \in {"FileSelect", "FileName", "Settings"} : Show(Append(stack, scene))
  <2>1. PICK scene \in {"FileSelect", "FileName", "Settings"} : Show(Append(stack, scene))
    BY <1>7
  <2> DEFINE s == Append(stack, scene)
  <2>2. scene \in Scenes /\ stack[Len(stack)] # "UsbLocked"
    BY <1>2, <1>7, TopScene DEF Scenes
  <2>3. Base(s) /\ s # <<>> /\ s[Len(s)] = scene
    BY <1>2, <1>4, <2>2, Appended
  <2>4. /\ thread' = "none" /\ ~attached' /\ NothingHeld' /\ UsbType' /\ HeldType'
    BY <1>1, NoSession
  <2> HIDE DEF s
  <2>5. /\ stack' \in Seq(Scenes) /\ Good(stack') /\ PhaseInv' /\ at' \in {"idle", "dialog"}
        /\ Top' = scene
    BY <2>1, <2>3, <2>4, Shown DEF s
  <2>6. SceneType'
    BY <1>1, <1>3, <2>5 DEF IInv, TypeOK, SceneType
  <2>7. TypeOK'
    BY <1>1, <1>2, <2>4, <2>6, TypesKept, TypesAfter DEF IInv, QueueType
  <2>8. QueueInv'
    BY <1>1, <2>5, ShorterQueue DEF countVars
  <2>9. StackInv'
    BY <1>1, <2>5 DEF IInv, StackInv
  <2> QED
    BY <2>5, <2>7, <2>8, <2>9 DEF IInv
<1> QED
  BY <1>5, <1>6, <1>7

LEMMA DispatchBackSound ==
  ASSUME IInv, DispatchBack
  PROVE  IInv'
<1>1. /\ Take /\ Top # "Work"
      /\ UNCHANGED <<next, image, present, exitMode, locked>>
      /\ UNCHANGED <<usbVars, heldVars, ledVars, countVars>>
  BY DEF DispatchBack
<1>2. /\ at = "idle" /\ stack # <<>> /\ queue' \in Seq(EventType)
      /\ Good(stack) /\ Base(stack)
  BY <1>1, Taken, TopScene DEF IInv, StackInv
<1>3. PICK p : Show(p) /\ p \in {Front(stack), BackTo(stack, "Settings"), BackTo(stack, "Start")}
  BY DEF DispatchBack
<1>4. Base(p) /\ (p # <<>> => p[Len(p)] # "UsbLocked")
  BY <1>2, <1>3, Popped
<1>5. /\ thread' = "none" /\ ~attached' /\ NothingHeld' /\ UsbType' /\ HeldType'
  BY <1>1, NoSession
<1>6. /\ stack' \in Seq(Scenes) /\ Good(stack') /\ PhaseInv' /\ at' \in {"idle", "dialog"}
      /\ Top' # "Work" /\ Top' = IF p = <<>> THEN "none" ELSE p[Len(p)]
  BY <1>3, <1>4, <1>5, Shown
<1>7. SceneType'
  BY <1>1, <1>6 DEF IInv, TypeOK, SceneType
<1>8. TypeOK'
  BY <1>1, <1>2, <1>5, <1>7, TypesKept, TypesAfter DEF IInv, QueueType
<1>9. QueueInv'
  BY <1>1, <1>4, <1>6, ShorterQueue DEF countVars
<1>10. StackInv'
  BY <1>1, <1>6 DEF IInv, StackInv
<1> QED
  BY <1>6, <1>8, <1>9, <1>10 DEF IInv

LEMMA DispatchSettingsSound ==
  ASSUME IInv, DispatchSettings
  PROVE  IInv'
<1>1. /\ Take /\ Top = "Settings"
      /\ UNCHANGED <<next, image, present, locked, usbVars, countVars>>
  BY DEF DispatchSettings
<1>2. /\ queue \in Seq(EventType) /\ queue # <<>> /\ queue' = Tail(queue)
      /\ at = "idle" /\ stack # <<>> /\ queue' \in Seq(EventType) /\ Comes = queue[1].name
      /\ Good(stack) /\ Base(stack)
  BY <1>1, Taken, TopScene DEF IInv, StackInv
<1>3. CASE Comes # "Start"
  <2>1. UNCHANGED <<stack, at, exitMode, heldVars, ledVars>>
    BY <1>3 DEF DispatchSettings
  <2>2. StackInv' /\ PhaseInv' /\ Top' = Top
    BY <1>1, <2>1, QuietPhase DEF usbVars, heldVars
  <2>3. SceneType'
    BY <1>1, <2>1 DEF IInv, TypeOK, SceneType
  <2>4. TypeOK'
    BY <1>1, <1>2, <2>1, <2>3, TypesKept, TypesAfter DEF IInv, QueueType
  <2>5. QueueInv'
    BY <1>1, <1>2, <2>1, <2>2, ShorterQueue DEF countVars
  <2> QED
    BY <2>2, <2>4, <2>5 DEF IInv
<1>4. CASE Comes = "Start"
  <2>1. /\ exitMode' \in ExitModes
        /\ \/ Show(Append(stack, "UsbLocked")) /\ UNCHANGED <<heldVars, ledVars>>
           \/ EnterWork(stack)
    BY <1>4 DEF DispatchSettings
  <2>2. /\ stack' \in Seq(Scenes) /\ Good(stack') /\ PhaseInv' /\ HeldType' /\ LedType'
        /\ at' \in {"idle", "dialog", "opened"}
    <3>1. CASE EnterWork(stack)
      BY <1>1, <3>1, Entered DEF HeldType, LedType, usbVars
    <3>2. CASE Show(Append(stack, "UsbLocked")) /\ UNCHANGED <<heldVars, ledVars>>
      <4>1. "UsbLocked" \in Scenes /\ stack[Len(stack)] # "UsbLocked"
        BY <1>1, <1>2, TopScene DEF Scenes
      <4>2. Base(Append(stack, "UsbLocked"))
        BY <1>2, <4>1, Appended
      <4>3. thread' = "none" /\ ~attached' /\ NothingHeld' /\ HeldType'
        BY <1>1, <3>2, NoSession
      <4>4. LedType'
        BY <3>2, TypesKept DEF IInv
      <4> QED
        BY <3>2, <4>2, <4>3, <4>4, Shown
    <3> QED
      BY <2>1, <3>1, <3>2
  <2>3. SceneType'
    BY <1>1, <2>1, <2>2 DEF IInv, TypeOK, SceneType
  <2>4. TypeOK'
    BY <1>1, <1>2, <2>2, <2>3, TypesKept, TypesAfter DEF IInv, QueueType
  <2>5. ~twice => Ordered(queue') /\ Without(queue', "Start") /\ Without(queue', "Eject")
    BY <1>2, <1>4, TailQueue DEF IInv, QueueInv
  <2>6. QueueInv'
    <3>1. Without(queue', "Eject") => Own(queue', session')
      BY DEF Without, Own
    <3> QED
      BY <1>1, <2>5, <3>1 DEF QueueInv, countVars
  <2>7. StackInv'
    BY <1>1, <2>2 DEF IInv, StackInv
  <2> QED
    BY <2>2, <2>4, <2>6, <2>7 DEF IInv
<1> QED
  BY <1>3, <1>4

LEMMA TickLockedSound ==
  ASSUME IInv, TickLocked
  PROVE  IInv'
<1>1. /\ Top = "UsbLocked" /\ queue = <<>> /\ EnterWork(stack)
      /\ UNCHANGED <<next, image, present, exitMode, locked, queue, usbVars, countVars>>
  BY DEF TickLocked, countVars
<1>2. /\ stack' \in Seq(Scenes) /\ Good(stack') /\ PhaseInv' /\ HeldType' /\ LedType'
      /\ at' \in {"idle", "dialog", "opened"}
  BY <1>1, Entered DEF HeldType, LedType, usbVars
<1>3. SceneType'
  BY <1>1, <1>2 DEF IInv, TypeOK, SceneType
<1>4. TypeOK'
  BY <1>1, <1>2, <1>3, TypesKept, TypesAfter DEF IInv
<1>5. QueueInv'
  BY <1>1, EmptyQueue
<1>6. StackInv'
  BY <1>1, <1>2 DEF IInv, StackInv
<1> QED
  BY <1>2, <1>4, <1>5, <1>6 DEF IInv

-----------------------------------------------------------------------------
(* Actions: the work scene.                                                *)

LEMMA StartUsbSound ==
  ASSUME IInv, StartUsb
  PROVE  IInv'
<1>1. /\ at = "opened"
      /\ UNCHANGED <<next, image, present, exitMode, locked, queue, ledVars, bus, toExit, twice>>
  BY DEF StartUsb
<1>2. /\ Top = "Work" /\ stack # <<>> /\ Good(stack) /\ stack \in Seq(Scenes)
      /\ thread = "none" /\ ~attached /\ EverythingHeld
  BY <1>1, TopScene DEF IInv, StackInv, PhaseInv, Good
<1>3. ~twice => /\ Ordered(queue) /\ Without(queue, "Start") /\ Without(queue, "Eject")
  BY <1>1, <1>2 DEF IInv, QueueInv
<1>4. \A s : Without(queue, "Eject") => Own(queue, s)
  BY DEF Without, Own
<1>5. QueueInv'
  BY <1>1, <1>3, <1>4 DEF QueueInv
<1>6. CASE /\ Show(Front(stack)) /\ mutex' = FALSE /\ files' = FALSE /\ audio' = FALSE
           /\ UNCHANGED <<usbVars, session>>
  <2>1. Base(Front(stack))
    BY <1>2, Popped
  <2>2. thread' = "none" /\ ~attached' /\ NothingHeld' /\ HeldType'
    BY <1>2, <1>6 DEF usbVars, NothingHeld, HeldType
  <2>3. stack' \in Seq(Scenes) /\ Good(stack') /\ PhaseInv' /\ at' \in {"idle", "dialog"}
    BY <1>6, <2>1, <2>2, Shown
  <2>4. SceneType'
    BY <1>1, <2>3 DEF IInv, TypeOK, SceneType
  <2>5. TypeOK'
    BY <1>1, <1>6, <2>2, <2>4, TypesKept, TypesAfter DEF IInv, countVars
  <2>6. StackInv'
    BY <1>1, <2>3 DEF IInv, StackInv
  <2> QED
    BY <1>5, <2>3, <2>5, <2>6 DEF IInv
<1>7. CASE /\ at' = "started" /\ session' = session + 1
           /\ thread' = "run" /\ attached' = TRUE /\ configured' = FALSE /\ connected' = FALSE
           /\ UNCHANGED <<stack, heldVars>>
  <2>1. Top' = "Work" /\ EverythingHeld'
    BY <1>2, <1>7 DEF Top, EverythingHeld, heldVars
  <2>2. PhaseInv'
    BY <1>7, <2>1 DEF PhaseInv
  <2>3. SceneType'
    BY <1>1, <1>7 DEF IInv, TypeOK, SceneType
  <2>4. UsbType'
    BY <1>7 DEF UsbType
  <2>5. session' \in Nat
    BY <1>7 DEF IInv, TypeOK
  <2>6. CountType'
    BY <1>1, <2>5 DEF IInv, TypeOK, CountType
  <2>7. TypeOK'
    BY <1>1, <1>7, <2>3, <2>4, <2>6, TypesKept, TypesAfter DEF IInv
  <2>8. StackInv'
    BY <1>1, <1>7 DEF IInv, StackInv
  <2> QED
    BY <1>5, <2>2, <2>7, <2>8 DEF IInv
<1> QED
  BY <1>6, <1>7 DEF StartUsb

\* Steps that leave the stack, the queue and the history as they are.
LEMMA SameScene ==
  ASSUME IInv, UNCHANGED <<stack, next, queue, session, toExit, twice>>, at' # "opened"
  PROVE  StackInv' /\ QueueInv' /\ Top' = Top /\ QueueType'
<1>1. Top' = Top
  BY DEF Top
<1> QED
  BY <1>1 DEF IInv, TypeOK, StackInv, QueueInv, QueueType

LEMMA WorkEnteredSound ==
  ASSUME IInv, WorkEntered
  PROVE  IInv'
<1>1. /\ at = "started" /\ at' = "idle" /\ led' = usbConnected
      /\ UNCHANGED <<stack, next, image, present, exitMode, locked, queue>>
      /\ UNCHANGED <<usbVars, heldVars, usbConnected, traffic, blinking, countVars>>
  BY DEF WorkEntered, countVars
<1>2. StackInv' /\ QueueInv' /\ Top' = Top /\ QueueType'
  BY <1>1, SameScene DEF countVars
<1>3. thread = "run" /\ EverythingHeld
  BY <1>1 DEF IInv, PhaseInv
<1>4. thread' = "run" /\ EverythingHeld' /\ mutex'
  BY <1>1, <1>3 DEF usbVars, heldVars, EverythingHeld
<1>5. Top = "Work"
  BY <1>1 DEF IInv, PhaseInv
<1>6. PhaseInv'
  BY <1>1, <1>2, <1>4, <1>5 DEF PhaseInv
<1>7. SceneType'
  BY <1>1 DEF IInv, TypeOK, SceneType
<1>8. LedType'
  BY <1>1 DEF IInv, TypeOK, LedType
<1>9. TypeOK'
  BY <1>1, <1>2, <1>7, <1>8, TypesKept, TypesAfter DEF IInv
<1> QED
  BY <1>2, <1>6, <1>9 DEF IInv

LEMMA DispatchWorkSound ==
  ASSUME IInv, DispatchWork
  PROVE  IInv'
<1>1. /\ Take /\ Top = "Work"
      /\ UNCHANGED <<image, present, exitMode, locked, usbVars, heldVars, countVars>>
  BY DEF DispatchWork
<1>2. /\ at = "idle" /\ stack # <<>> /\ queue' \in Seq(EventType)
      /\ Good(stack) /\ stack \in Seq(Scenes)
  BY <1>1, Taken DEF IInv, StackInv, Good
<1>3. CASE LeaveWork
  <2>1. /\ next' \in {BackTo(stack, "Settings"), BackTo(stack, "Start"), Front(stack)}
        /\ at' = IF thread = "none" THEN "stopped" ELSE "stopping"
        /\ blinking' = FALSE /\ UNCHANGED <<stack, usbConnected, traffic, led>>
    BY <1>3 DEF LeaveWork
  <2>2. Base(next') /\ next' \in Seq(Scenes)
    BY <1>2, <2>1, Popped
  <2>3. StackInv'
    BY <1>2, <2>1, <2>2 DEF StackInv
  <2>4. Top' = Top
    BY <2>1 DEF Top
  <2>5. UNCHANGED <<thread, attached, configured, connected, mutex, files, audio>>
    BY <1>1 DEF usbVars, heldVars
  <2>6. PhaseInv'
    BY <1>1, <1>2, <2>1, <2>4, <2>5 DEF IInv, PhaseInv, NothingHeld, EverythingHeld
  <2>7. SceneType'
    BY <1>1, <1>2, <2>1, <2>2 DEF IInv, TypeOK, SceneType
  <2>8. LedType'
    BY <2>1 DEF IInv, TypeOK, LedType
  <2>9. TypeOK'
    BY <1>1, <1>2, <2>7, <2>8, TypesKept, TypesAfter DEF IInv, QueueType
  <2>10. QueueInv'
    BY <1>1, <2>1, <2>4, ShorterQueue DEF countVars
  <2> QED
    BY <2>3, <2>6, <2>9, <2>10 DEF IInv
<1>4. CASE UNCHANGED <<stack, at, next, ledVars>>
  <2>1. StackInv' /\ PhaseInv' /\ Top' = Top
    BY <1>1, <1>4, QuietPhase DEF usbVars, heldVars
  <2>2. SceneType'
    BY <1>1, <1>4 DEF IInv, TypeOK, SceneType
  <2>3. TypeOK'
    BY <1>1, <1>2, <1>4, <2>2, TypesKept, TypesAfter DEF IInv, QueueType
  <2>4. QueueInv'
    BY <1>1, <1>2, <1>4, <2>1, ShorterQueue DEF countVars
  <2> QED
    BY <2>1, <2>3, <2>4 DEF IInv
<1> QED
  BY <1>3, <1>4 DEF DispatchWork

\* StopUsb, WorkerEnds and the join: only the worker's state and the callbacks change.
LEMMA StopUsbSound ==
  ASSUME IInv, StopUsb \/ WorkerEnds
  PROVE  IInv'
<1>1. /\ at = "stopping" /\ thread # "none" /\ EverythingHeld /\ Top = "Work"
      /\ thread' \in {"told", "done"} /\ ~attached'
      /\ UNCHANGED <<sceneVars, queue, configured, connected, heldVars, ledVars, countVars>>
  BY DEF StopUsb, WorkerEnds, IInv, PhaseInv, countVars
<1>2. StackInv' /\ QueueInv' /\ Top' = Top /\ QueueType'
  BY <1>1, SameScene DEF countVars, sceneVars
<1>3. EverythingHeld' /\ at' = "stopping"
  BY <1>1 DEF heldVars, sceneVars, EverythingHeld
<1>4. PhaseInv'
  BY <1>1, <1>2, <1>3 DEF PhaseInv
<1>5. UsbType'
  BY <1>1 DEF StopUsb, WorkerEnds, IInv, TypeOK, UsbType
<1>6. TypeOK'
  BY <1>1, <1>2, <1>5, TypesKept, TypesAfter DEF IInv
<1> QED
  BY <1>2, <1>4, <1>6 DEF IInv

LEMMA UsbStoppedSound ==
  ASSUME IInv, UsbStopped
  PROVE  IInv'
<1>1. /\ at = "stopping" /\ thread = "done" /\ thread' = "none" /\ at' = "stopped"
      /\ UNCHANGED <<stack, next, image, present, exitMode, locked, queue>>
      /\ UNCHANGED <<attached, configured, connected, heldVars, ledVars, countVars>>
  BY DEF UsbStopped, Joined, countVars
<1>2. StackInv' /\ QueueInv' /\ Top' = Top /\ QueueType'
  BY <1>1, SameScene DEF countVars
<1>3. Top = "Work" /\ ~attached'
  BY <1>1 DEF IInv, PhaseInv
<1>4. PhaseInv'
  BY <1>1, <1>2, <1>3 DEF PhaseInv
<1>5. UsbType' /\ SceneType'
  BY <1>1 DEF IInv, TypeOK, UsbType, SceneType
<1>6. TypeOK'
  BY <1>1, <1>2, <1>5, TypesKept, TypesAfter DEF IInv
<1> QED
  BY <1>2, <1>4, <1>6 DEF IInv

LEMMA WorkLeftSound ==
  ASSUME IInv, WorkLeft
  PROVE  IInv'
<1>1. /\ at = "stopped" /\ mutex' = FALSE /\ files' = FALSE /\ audio' = FALSE /\ Show(next)
      /\ UNCHANGED <<next, image, present, exitMode, locked, queue, usbVars, ledVars, countVars>>
  BY DEF WorkLeft
<1>2. thread' = "none" /\ ~attached' /\ NothingHeld' /\ HeldType'
  BY <1>1 DEF IInv, PhaseInv, usbVars, NothingHeld, HeldType
<1>3. Base(next)
  BY DEF IInv, StackInv
<1>4. /\ stack' \in Seq(Scenes) /\ Good(stack') /\ PhaseInv' /\ at' \in {"idle", "dialog"}
      /\ Top' # "Work"
  BY <1>1, <1>2, <1>3, Shown
<1>5. SceneType'
  BY <1>1, <1>4 DEF IInv, TypeOK, SceneType
<1>6. TypeOK'
  BY <1>1, <1>2, <1>5, TypesKept, TypesAfter DEF IInv
<1>7. Top = "Work"
  BY <1>1 DEF IInv, PhaseInv
<1>8. QueueInv'
  BY <1>1, <1>4, <1>7 DEF IInv, QueueInv, countVars
<1>9. StackInv'
  BY <1>1, <1>4 DEF IInv, StackInv
<1> QED
  BY <1>4, <1>6, <1>8, <1>9 DEF IInv

\* An Eject event is sent while the session runs.
LEMMA Ejected ==
  ASSUME IInv, thread # "none", NEW wanted \in BOOLEAN, SendEject(wanted),
         wanted => toExit' = session, ~wanted => toExit' \in {toExit, session},
         UNCHANGED <<stack, at, session, twice>>
  PROVE  QueueType' /\ QueueInv' /\ toExit' \in Nat
<1>1. queue \in Seq(EventType) /\ Top = "Work" /\ at # "opened" /\ session \in Nat /\ toExit \in Nat
  BY DEF IInv, TypeOK, PhaseInv
<1>2. Top' = Top
  BY DEF Top
<1>3. CASE wanted
  <2>1. queue' = Append(queue, Event("Eject"))
    BY <1>3 DEF SendEject
  <2>2. /\ Event("Eject") \in EventType /\ Event("Eject").name = "Eject"
        /\ Event("Eject").session = session
    BY <1>1 DEF Event, EventType
  <2>3. /\ queue' \in Seq(EventType)
        /\ Ordered(queue) /\ Without(queue, "Start") => Ordered(queue')
        /\ Without(queue, "Start") => Without(queue', "Start")
        /\ Own(queue, session) => Own(queue', session)
    BY <1>1, <2>1, <2>2, AppendQueue
  <2> QED
    BY <1>1, <1>2, <1>3, <2>3 DEF IInv, QueueInv, QueueType
<1>4. CASE ~wanted
  BY <1>1, <1>2, <1>4 DEF IInv, QueueInv, QueueType, SendEject
<1> QED
  BY <1>3, <1>4

LEMMA DisconnectSound ==
  ASSUME IInv, NEW suspend \in BOOLEAN, Disconnect(suspend)
  PROVE  IInv'
<1>1. /\ attached /\ OnBus /\ configured' = suspend /\ SetConnected(FALSE) /\ Callback
      /\ SendEject(exitMode = "usb")
      /\ toExit' = IF exitMode = "usb" THEN session ELSE toExit
  BY DEF Disconnect
<1>2. /\ SceneType' /\ UsbType' /\ HeldType' /\ LedType' /\ bus' \in Nat
      /\ UNCHANGED <<stack, at, next, thread, attached, mutex, files, audio>>
      /\ UNCHANGED <<session, twice>> /\ present' = present
  BY <1>1, CallbackTypes
<1>3. thread # "none"
  BY <1>1 DEF IInv, PhaseInv
<1>4. QueueType' /\ QueueInv' /\ toExit' \in Nat
  BY <1>1, <1>2, <1>3, Ejected
<1>5. CountType'
  BY <1>2, <1>4 DEF IInv, TypeOK, CountType
<1>6. TypeOK'
  BY <1>2, <1>4, <1>5, TypesAfter
<1>7. StackInv' /\ PhaseInv'
  BY <1>2, QuietPhase
<1> QED
  BY <1>4, <1>6, <1>7 DEF IInv

LEMMA HostEjectsSound ==
  ASSUME IInv, HostEjects
  PROVE  IInv'
<1>1. /\ WorkerRuns /\ OnBus /\ SendEject(Ejects)
      /\ toExit' = IF exitMode \in {"disk", "usb"} THEN session ELSE toExit
      /\ UNCHANGED <<sceneVars, usbVars, heldVars, ledVars, session, twice>>
  BY DEF HostEjects
<1>2. exitMode \in {"off", "disk", "usb"}
  BY LifecycleAssumption DEF LifecycleAssumption, IInv, TypeOK
<1>3. Ejects \in BOOLEAN /\ (Ejects <=> exitMode \in {"disk", "usb"})
  BY <1>2 DEF Ejects
<1>4. QueueType' /\ QueueInv' /\ toExit' \in Nat
  BY <1>1, <1>3, Ejected DEF WorkerRuns, sceneVars
<1>5. bus' \in Nat
  BY <1>1 DEF OnBus, IInv, TypeOK
<1>6. CountType'
  BY <1>1, <1>4, <1>5 DEF IInv, TypeOK, CountType
<1>7. TypeOK'
  BY <1>1, <1>4, <1>6, TypesKept, TypesAfter DEF IInv
<1>8. StackInv' /\ PhaseInv'
  BY <1>1, QuietPhase DEF sceneVars, usbVars, heldVars
<1> QED
  BY <1>4, <1>7, <1>8 DEF IInv

LEMMA StutterSound ==
  ASSUME IInv, UNCHANGED vars
  PROVE  IInv'
<1>1. UNCHANGED <<sceneVars, queue, usbVars, heldVars, ledVars, countVars>>
  BY DEF vars
<1>2. TypeOK'
  BY <1>1, TypesKept, TypesAfter DEF IInv
<1> QED
  BY <1>1, <1>2, StillSound DEF sceneVars, usbVars, heldVars, countVars

-----------------------------------------------------------------------------
(* Theorems.                                                               *)

LEMMA Inductive == IInv /\ [Next]_vars => IInv'
<1> SUFFICES ASSUME IInv, [Next]_vars
             PROVE  IInv'
  OBVIOUS
<1>1. ASSUME NEW name \in {"FileSelect", "NewImage", "NameInput", "Start"}, UserSelects(name)
      PROVE  IInv'
  BY <1>1, UserSelectsSound
<1>2. ASSUME UserGoesBack \/ DialogCloses \/ DispatchMenu \/ DispatchSettings \/ DispatchBack
      PROVE  IInv'
  BY <1>2, UserGoesBackSound, DialogClosesSound, DispatchMenuSound, DispatchSettingsSound,
     DispatchBackSound
<1>3. ASSUME DispatchWork \/ StartUsb \/ WorkEntered \/ StopUsb \/ UsbStopped \/ WorkLeft
      PROVE  IInv'
  BY <1>3, DispatchWorkSound, StartUsbSound, WorkEnteredSound, StopUsbSound, UsbStoppedSound,
     WorkLeftSound
<1>4. ASSUME TickLocked \/ TickWork \/ Configure \/ Wakeup \/ HostEjects \/ HostMoves
      PROVE  IInv'
  BY <1>4, TickLockedSound, TickWorkSound, ConfigureSound, HostEjectsSound, HostMovesSound
<1>5. ASSUME NEW suspend \in BOOLEAN, Disconnect(suspend)
      PROVE  IInv'
  BY <1>5, DisconnectSound
<1>6. ASSUME WorkerEnds \/ FileVanishes \/ LockChanges
      PROVE  IInv'
  BY <1>6, StopUsbSound, FileVanishesSound, LockChangesSound
<1>7. ASSUME Ended \/ UNCHANGED vars
      PROVE  IInv'
  BY <1>7, StutterSound DEF Ended
<1> QED
  BY <1>1, <1>2, <1>3, <1>4, <1>5, <1>6, <1>7 DEF Next

LEMMA Invariance == Spec => []IInv
BY InitSound, Inductive, PTL DEF Spec

\* Scenes, queue, session and LED keep their types.
THEOREM TypeCorrect == Spec => []TypeOK
<1>1. IInv => TypeOK
  BY DEF IInv
<1> QED
  BY <1>1, Invariance, PTL

\* The mutex and the files or the audio CD are there whenever the driver can call back or
\* the worker runs, and nothing of a session is left outside its scene.
THEOREM ResourcesHeld == Spec => []SessionHasItsResources
<1>1. IInv => SessionHasItsResources
  BY DEF IInv, PhaseInv, NothingHeld, EverythingHeld, SessionHasItsResources, WorkerRuns, Idle
<1> QED
  BY <1>1, Invariance, PTL

\* An Eject event ends its own session, which the options call for: however many events
\* wait, unless "Start" was selected again before it was handled.
THEOREM EjectsOwn == Spec => []EjectOwnSession
<1>1. IInv => EjectOwnSession
  <2> SUFFICES ASSUME IInv, ~twice, Idle, Top = "Work", Comes = "Eject"
               PROVE  Head(queue).session = session /\ toExit = session
    BY DEF EjectOwnSession
  <2>1. queue \in Seq(EventType) /\ queue # <<>> /\ Head(queue).name = "Eject"
    BY DEF Comes, IInv, TypeOK
  <2>2. 1 \in 1..Len(queue) /\ Head(queue) = queue[1]
    BY <2>1, QueueLength, TailQueue
  <2>3. Own(queue, session) /\ (toExit = session \/ Without(queue, "Eject"))
    BY DEF IInv, QueueInv
  <2> QED
    BY <2>1, <2>2, <2>3 DEF Own, Without
<1> QED
  BY <1>1, Invariance, PTL

=============================================================================
