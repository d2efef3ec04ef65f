---------------------------- MODULE AppLifecycle -----------------------------
(***************************************************************************)
(* The application around a USB session: the scene stack, the queue of     *)
(* custom events, the start and the end of USB in the work scene, the USB  *)
(* callbacks (helpers/mass_storage_usb.c) and the LED.  Three threads act: *)
(* the application (view dispatcher and scenes), the transport's worker,   *)
(* and the one that the USB driver calls back on.  The scene manager and   *)
(* the view dispatcher are not in the repository: a scene is entered after *)
(* the one before it was left, the back key and custom events come in the  *)
(* order in which they were sent, and a tick comes when none waits.        *)
(***************************************************************************)
EXTENDS Naturals, Sequences

CONSTANTS ExitModes,     \* "off", "disk", "usb": the choices of "Exit on eject"
          Images,        \* kinds of image: "disk", "audio"
          FirstScenes,   \* the first scene: "Start", or "Settings" when a file was passed
          MaxQueue,      \* bound: events waiting
          MaxSessions,   \* bound: USB sessions
          MaxBus         \* bound: what happens on the bus

Scenes == {"Start", "FileSelect", "FileName", "Settings", "UsbLocked", "Work"}

ASSUME LifecycleAssumption ==
  /\ ExitModes \subseteq {"off", "disk", "usb"} /\ ExitModes # {}
  /\ Images \subseteq {"disk", "audio"} /\ "disk" \in Images
  /\ FirstScenes \subseteq {"Start", "Settings"}
  /\ MaxQueue \in Nat /\ MaxSessions \in Nat /\ MaxBus \in Nat

VARIABLES
  stack,      \* the scene manager's stack, the current scene last; empty at the end
  at,         \* the application: "idle", "dialog", "opened", "started", "stopping", "stopped"
  next,       \* the stack after the work scene that is being left
  queue,      \* the back key and custom events: [name, session]
  image, present,      \* the kind of the image; whether its file is there
  exitMode,   \* app->exit_on_eject
  locked,     \* furi_hal_usb_is_locked
  thread,     \* the transport's worker: "none", "run", "told" (to exit), "done"
  attached,   \* mass_cur is set: the callbacks reach this session
  configured, connected,               \* MassStorageUsb
  mutex, files, audio,                 \* what the session needs of the app
  usbConnected, traffic,               \* app->usb_connected; bytes moved since the last tick
  blinking, led,                       \* led_blinking, led_usb_connected
  session, bus,        \* sessions and bus events so far
  toExit,     \* history: the session whose end the options call for, or 0
  twice       \* history: "Start" was selected again before it was handled

sceneVars == <<stack, at, next, image, present, exitMode, locked>>
usbVars   == <<thread, attached, configured, connected>>
heldVars  == <<mutex, files, audio>>
ledVars   == <<usbConnected, traffic, blinking, led>>
countVars == <<session, bus, toExit, twice>>
vars == <<sceneVars, queue, usbVars, heldVars, ledVars, countVars>>

Top == IF stack = <<>> THEN "none" ELSE stack[Len(stack)]
Idle == at = "idle" /\ stack # <<>>
Comes == IF queue = <<>> THEN "none" ELSE Head(queue).name
Waiting(name) == \E i \in 1..Len(queue) : queue[i].name = name
Front(s) == SubSeq(s, 1, Len(s) - 1)
Event(name) == [name |-> name, session |-> session]

Init ==
  /\ \E first \in FirstScenes : stack = <<first>>
  /\ at = "idle" /\ next = <<>> /\ queue = <<>>
  /\ image \in Images /\ present = TRUE /\ exitMode \in ExitModes /\ locked \in BOOLEAN
  /\ thread = "none" /\ attached = FALSE /\ configured = FALSE /\ connected = FALSE
  /\ mutex = FALSE /\ files = FALSE /\ audio = FALSE
  /\ usbConnected = FALSE /\ traffic = FALSE /\ blinking = FALSE /\ led = FALSE
  /\ session = 0 /\ bus = 0 /\ toExit = 0 /\ twice = FALSE

-----------------------------------------------------------------------------
(* The scene manager (external): what it does to the stack.                *)

\* The place of a scene below the current one, the last of s, or 0
Below(s, scene) ==
  LET found == {i \in 1..Len(s) - 1 : s[i] = scene}
  IN  IF found = {} THEN 0 ELSE CHOOSE i \in found : \A j \in found : j <= i

\* scene_manager_search_and_switch_to_previous_scene, where the scene is found
BackTo(s, scene) == SubSeq(s, 1, Below(s, scene))

\* A scene other than Work is entered; the file browser runs inside its on_enter
Show(s) == stack' = s /\ at' = IF s # <<>> /\ s[Len(s)] = "FileSelect" THEN "dialog" ELSE "idle"

-----------------------------------------------------------------------------
(* User interface: menus send custom events, which change scenes.          *)

\* What the menu of each scene sends
Offers(scene) == CASE scene = "Start" -> {"FileSelect", "NewImage"}
                   [] scene = "FileName" -> {"NameInput"}
                   [] scene = "Settings" -> {"Start"}
                   [] OTHER -> {}

UserSelects(name) ==
  /\ Idle /\ name \in Offers(Top) /\ Len(queue) < MaxQueue /\ session < MaxSessions
  /\ queue' = Append(queue, Event(name))
  /\ twice' = (twice \/ (name = "Start" /\ Waiting("Start")))
  /\ UNCHANGED <<sceneVars, usbVars, heldVars, ledVars, session, bus, toExit>>

\* The next event is taken; the scene's handler comes in dispatches
Take == Idle /\ queue # <<>> /\ queue' = Tail(queue)

\* The back key, pressed at any time; the file browser takes it for itself
UserGoesBack ==
  /\ stack # <<>> /\ at # "dialog" /\ Len(queue) < MaxQueue
  /\ queue' = Append(queue, Event("Back"))
  /\ UNCHANGED <<sceneVars, usbVars, heldVars, ledVars, countVars>>

\* The handlers of custom events of every scene but Work and Settings
DispatchMenu ==
  /\ Take /\ Top \notin {"Work", "Settings"} /\ Comes # "Back"
  /\ \/ Top = "Start" /\ Comes = "FileSelect" /\ Show(Append(stack, "FileSelect"))
     \/ Top = "Start" /\ Comes = "NewImage" /\ Show(Append(stack, "FileName"))
     \/ /\ Top = "FileName" /\ Comes = "NameInput"     \* mass_storage_create_image
        /\ Show(Append(stack, "Settings")) \/ UNCHANGED <<stack, at>>
     \/ Comes \notin Offers(Top) /\ UNCHANGED <<stack, at>>
  /\ IF Top = "FileName" /\ stack' # stack THEN image' = "disk" /\ present' = TRUE
                                           ELSE UNCHANGED <<image, present>>
  /\ UNCHANGED <<next, exitMode, locked, usbVars, heldVars, ledVars, countVars>>

\* mass_storage_file_select: a file, or none
DialogCloses ==
  /\ at = "dialog"
  /\ \/ Show(Append(stack, "Settings")) /\ image' \in Images /\ present' = TRUE
     \/ Show(Front(stack)) /\ UNCHANGED <<image, present>>
  /\ UNCHANGED <<next, exitMode, locked, queue, usbVars, heldVars, ledVars, countVars>>

\* External: the card is taken out
FileVanishes ==
  /\ present /\ present' = FALSE
  /\ UNCHANGED <<stack, at, next, image, exitMode, locked, queue, usbVars, heldVars,
                 ledVars, countVars>>

\* External: another application takes the USB port, or gives it back
LockChanges ==
  /\ thread = "none" /\ bus < MaxBus /\ bus' = bus + 1 /\ locked' = ~locked
  /\ UNCHANGED <<stack, at, next, image, present, exitMode, queue, usbVars, heldVars,
                 ledVars, session, toExit, twice>>

-----------------------------------------------------------------------------
(* The work scene: start and end of a USB session.                         *)

\* mass_storage_scene_work_on_enter until USB is started, on top of the scenes s: the
\* file may be missing, and the CUE sheet or its BIN file may be unusable
EnterWork(s) ==
  /\ usbConnected' = FALSE /\ traffic' = FALSE /\ blinking' = FALSE /\ led' = FALSE
  /\ IF ~present
     THEN /\ IF Below(Append(s, "Work"), "Start") > 0 THEN Show(BackTo(Append(s, "Work"), "Start"))
             ELSE stack' = Append(s, "Work") /\ at' = "idle"
          /\ UNCHANGED heldVars
     ELSE \/ image = "audio" /\ Show(s) /\ UNCHANGED heldVars
          \/ /\ stack' = Append(s, "Work") /\ at' = "opened"
             /\ mutex' = TRUE /\ files' = (image = "disk") /\ audio' = (image = "audio")

\* "Start" in the settings, whose options are saved
DispatchSettings ==
  /\ Take /\ Top = "Settings" /\ Comes # "Back"
  /\ IF Comes # "Start" THEN UNCHANGED <<stack, at, exitMode, heldVars, ledVars>>
     ELSE /\ exitMode' \in ExitModes
          /\ IF locked THEN Show(Append(stack, "UsbLocked")) /\ UNCHANGED <<heldVars, ledVars>>
                       ELSE EnterWork(stack)
  /\ UNCHANGED <<next, image, present, locked, usbVars, countVars>>

\* The screen that waits for the port looks at it on every tick
TickLocked ==
  /\ Idle /\ Top = "UsbLocked" /\ queue = <<>> /\ ~locked /\ EnterWork(stack)
  /\ UNCHANGED <<next, image, present, exitMode, locked, queue, usbVars, countVars>>

\* mass_storage_usb_start: the port may have been taken since it was looked at, and
\* then the scene is left by its own on_exit; otherwise usb_init sets mass_cur,
\* connects the bus and starts the worker
StartUsb ==
  /\ at = "opened"
  /\ IF locked
     THEN /\ Show(Front(stack)) /\ mutex' = FALSE /\ files' = FALSE /\ audio' = FALSE
          /\ UNCHANGED <<usbVars, session>>
     ELSE /\ at' = "started" /\ session' = session + 1
          /\ thread' = "run" /\ attached' = TRUE /\ configured' = FALSE /\ connected' = FALSE
          /\ UNCHANGED <<stack, heldVars>>
  /\ UNCHANGED <<next, image, present, exitMode, locked, queue, ledVars, bus, toExit, twice>>

\* The rest of on_enter: the LED shows whether a host has connected meanwhile
WorkEntered ==
  /\ at = "started" /\ at' = "idle" /\ led' = usbConnected
  /\ UNCHANGED <<stack, next, image, present, exitMode, locked, queue, usbVars, heldVars,
                 usbConnected, traffic, blinking, countVars>>

\* Back or an Eject event in the work scene: to the settings, else to the start
LeaveWork ==
  /\ next' = IF Below(stack, "Settings") > 0 THEN BackTo(stack, "Settings")
             ELSE IF Below(stack, "Start") > 0 THEN BackTo(stack, "Start") ELSE Front(stack)
  /\ at' = IF thread = "none" THEN "stopped" ELSE "stopping"
  /\ blinking' = FALSE /\ UNCHANGED <<stack, usbConnected, traffic, led>>

DispatchWork ==
  /\ Take /\ Top = "Work"
  /\ IF Comes \in {"Eject", "Back"} THEN LeaveWork ELSE UNCHANGED <<stack, at, next, ledVars>>
  /\ UNCHANGED <<image, present, exitMode, locked, usbVars, heldVars, countVars>>

\* mass_storage_usb_stop: usb_deinit cuts the callbacks off and tells the worker
StopUsb ==
  /\ at = "stopping" /\ thread = "run" /\ thread' = "told" /\ attached' = FALSE
  /\ UNCHANGED <<sceneVars, queue, configured, connected, heldVars, ledVars, countVars>>

BadJoined == at = "stopping" /\ thread = "told"      \* the worker is not waited for

Joined == at = "stopping" /\ thread = "done"         \* furi_thread_join

UsbStopped ==
  /\ Joined /\ thread' = (IF thread = "done" THEN "none" ELSE thread) /\ at' = "stopped"
  /\ UNCHANGED <<stack, next, image, present, exitMode, locked, queue, attached, configured,
                 connected, heldVars, ledVars, countVars>>

\* The rest of on_exit, and the next scene is entered
WorkLeft ==
  /\ at = "stopped" /\ mutex' = FALSE /\ files' = FALSE /\ audio' = FALSE /\ Show(next)
  /\ UNCHANGED <<next, image, present, exitMode, locked, queue, usbVars, ledVars, countVars>>

BadIdleLed == blinking               \* the colour stays when the connection changes

\* When the LED has to be set to the colour of an idle disk
IdleLed == blinking \/ led # usbConnected

\* A tick of the work scene
TickWork ==
  /\ Idle /\ Top = "Work" /\ queue = <<>>
  /\ IF traffic THEN traffic' = FALSE /\ blinking' = TRUE /\ UNCHANGED led
     ELSE IdleLed /\ blinking' = FALSE /\ led' = usbConnected /\ UNCHANGED traffic
  /\ UNCHANGED <<sceneVars, queue, usbVars, heldVars, usbConnected, countVars>>

\* The back key: a scene that does not handle it gives way to the one below it, and
\* the application ends with the last
DispatchBack ==
  /\ Take /\ Top # "Work" /\ Comes = "Back"
  /\ LET settings == IF Top = "UsbLocked" THEN Below(stack, "Settings") ELSE 0
         start    == IF Top \in {"UsbLocked", "Settings"} THEN Below(stack, "Start") ELSE 0
     IN  Show(CASE settings > 0 -> BackTo(stack, "Settings")
                [] settings = 0 /\ start > 0 -> BackTo(stack, "Start")
                [] OTHER -> Front(stack))
  /\ UNCHANGED <<next, image, present, exitMode, locked, usbVars, heldVars, ledVars, countVars>>

-----------------------------------------------------------------------------
(* The USB callbacks and the worker, while the application goes on.        *)

OnBus == bus < MaxBus /\ bus' = bus + 1 /\ Len(queue) < MaxQueue

\* mass_storage_usb_set_connected and file_connection_changed
SetConnected(c) ==
  connected' = c /\ usbConnected' = IF connected = c THEN usbConnected ELSE c

\* The session's Eject event, if the options call for it in this case
SendEject(wanted) ==
  IF wanted THEN queue' = Append(queue, Event("Eject")) ELSE UNCHANGED queue

Callback == UNCHANGED <<sceneVars, thread, attached, heldVars, traffic, blinking, led, session,
                        twice>>

\* usb_ep_config, the host configures the device
Configure ==
  /\ attached /\ OnBus /\ configured' = TRUE /\ SetConnected(TRUE)
  /\ UNCHANGED <<queue, toExit>> /\ Callback

\* ... and takes the configuration away; usb_suspend: the bus is idle
Disconnect(suspend) ==
  /\ attached /\ configured /\ OnBus /\ configured' = suspend /\ SetConnected(FALSE)
  /\ SendEject(exitMode = "usb")
  /\ toExit' = IF exitMode = "usb" THEN session ELSE toExit
  /\ Callback

\* usb_wakeup
Wakeup ==
  /\ attached /\ configured /\ OnBus /\ UNCHANGED configured /\ SetConnected(TRUE)
  /\ UNCHANGED <<queue, toExit>> /\ Callback

WorkerRuns == thread \in {"run", "told"}

BadEjects == exitMode = "disk"       \* "USB" does not include "Disk"

OverEjects == TRUE                   \* also without "Exit on eject"

Ejects == exitMode # "off"           \* file_eject

\* The host ejects the disk, and the worker calls file_eject
HostEjects ==
  /\ WorkerRuns /\ OnBus /\ SendEject(Ejects)
  /\ toExit' = IF exitMode \in {"disk", "usb"} THEN session ELSE toExit
  /\ UNCHANGED <<sceneVars, usbVars, heldVars, ledVars, session, twice>>

\* The host reads or writes
HostMoves ==
  /\ WorkerRuns /\ ~traffic /\ traffic' = TRUE
  /\ UNCHANGED <<sceneVars, queue, usbVars, heldVars, usbConnected, blinking, led, countVars>>

\* The worker ends, after a last sync of the image
WorkerEnds ==
  /\ thread = "told" /\ thread' = "done"
  /\ UNCHANGED <<sceneVars, queue, attached, configured, connected, heldVars, ledVars, countVars>>

Ended == stack = <<>> /\ UNCHANGED vars

App == DispatchMenu \/ DispatchSettings \/ DispatchWork \/ DispatchBack \/ StartUsb \/ WorkEntered
       \/ StopUsb \/ UsbStopped \/ WorkLeft

Next ==
  \/ \E name \in {"FileSelect", "NewImage", "NameInput", "Start"} : UserSelects(name)
  \/ UserGoesBack \/ DialogCloses
  \/ DispatchMenu \/ DispatchSettings \/ DispatchWork \/ DispatchBack
  \/ StartUsb \/ WorkEntered \/ StopUsb \/ UsbStopped \/ WorkLeft
  \/ TickLocked \/ TickWork
  \/ Configure \/ \E suspend \in BOOLEAN : Disconnect(suspend)
  \/ Wakeup \/ HostEjects \/ HostMoves \/ WorkerEnds
  \/ FileVanishes \/ LockChanges \/ Ended

Spec == Init /\ [][Next]_vars

\* The application's thread and the worker are scheduled, and ticks come; nothing is
\* assumed of the user, the host and the bus.
FairSpec == Spec /\ WF_vars(App) /\ WF_vars(TickWork) /\ WF_vars(WorkerEnds)

-----------------------------------------------------------------------------
(* Properties.                                                             *)

EventType == [name : {"FileSelect", "NewImage", "NameInput", "Start", "Eject", "Back"},
              session : Nat]

\* Types of the scenes, the queue, the session and the LED.
TypeOK ==
  /\ stack \in Seq(Scenes) /\ next \in Seq(Scenes) /\ queue \in Seq(EventType)
  /\ at \in {"idle", "dialog", "opened", "started", "stopping", "stopped"}
  /\ image \in Images /\ exitMode \in ExitModes
  /\ thread \in {"none", "run", "told", "done"}
  /\ present \in BOOLEAN /\ locked \in BOOLEAN /\ attached \in BOOLEAN
  /\ configured \in BOOLEAN /\ connected \in BOOLEAN
  /\ mutex \in BOOLEAN /\ files \in BOOLEAN /\ audio \in BOOLEAN
  /\ usbConnected \in BOOLEAN /\ traffic \in BOOLEAN /\ blinking \in BOOLEAN /\ led \in BOOLEAN
  /\ session \in Nat /\ bus \in Nat /\ toExit \in Nat /\ twice \in BOOLEAN

\* While the driver can call back or the worker runs - also while it ends and syncs -
\* the mutex, and the files or the audio CD, are there: on_exit stops USB first, and
\* each way out of on_enter leaves nothing running.  The ticks of the scene take the
\* mutex too; it is missing only when the file was gone on entry to an application
\* that was started with a file, and so has no Start scene to go back to.
SessionHasItsResources ==
  /\ attached \/ WorkerRuns => mutex /\ (files \/ audio)
  /\ Top # "Work" => thread = "none" /\ ~attached /\ ~mutex /\ ~files /\ ~audio
  /\ Idle /\ Top = "Work" /\ ~mutex => stack[1] = "Settings" /\ ~present

\* An Eject event is handled by the session that sent it, and was called for by "Exit
\* on eject": one that is still queued when the scene is left for another reason does
\* not end the next session.  Not so when "Start" was selected twice: with the back key
\* between the two, the second starts a session before an Eject of the first is handled.
EjectOwnSession ==
  ~twice /\ Idle /\ Top = "Work" /\ Comes = "Eject" =>
    Head(queue).session = session /\ toExit = session

\* README.md: "Exit on eject: ... Disk (exits when the host ejects the disk / tray) /
\* USB (exits when the host ejects or USB disconnects)".
ExitsOnEject == toExit > 0 /\ toExit = session ~> thread = "none"

\* The LED does not stay wrong: when the connection stays as it is and nothing moves,
\* it comes to show that connection.
LedSettles ==
  \A c \in BOOLEAN :
    <>[](Idle /\ Top = "Work" /\ attached /\ ~traffic /\ connected = c)
      => <>[](~blinking /\ led = c)

=============================================================================
