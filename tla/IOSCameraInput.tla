----------------------------- MODULE IOSCameraInput -----------------------------
(***************************************************************************)
(* IOSCameraInput (src/src/obs-ios-camera-source.cpp): which phone the     *)
(* source tells to connect.  OBS calls it on its threads (new settings, a  *)
(* reconnect, activation), the device manager on its own, and nothing is   *)
(* locked: a thread may stand anywhere in connectToDevice() while another  *)
(* one changes the selection, the map of controllers or the activation.    *)
(*                                                                         *)
(* A controller is null, idle (never told to connect), started (told to    *)
(* connect) or stopped (told to disconnect after that).  What becomes of   *)
(* its connection then is module ConnectionController: a stopped one may   *)
(* be connected, because DeviceConnection::disconnect() returns at once    *)
(* while the connection is being made.  resetDecoder() is module           *)
(* VideoDecoding, the setting of the latency and of the hardware decoder   *)
(* are left out.                                                           *)
(***************************************************************************)
EXTENDS DeviceManager

CONSTANTS
  ObsThreads, \* the threads on which OBS calls the source
  NoDevice,   \* std::nullopt, which the setting "null" stands for
  Unset       \* the setting "", which is the default

ASSUME CameraAssumption ==
  /\ Threads = ObsThreads \cup {Manager} /\ Manager \notin ObsThreads
  /\ {NoDevice, Unset} \cap Udids = {} /\ NoDevice # Unset

VARIABLES
  connectionControllers,
  selected,             \* state.selectedDeviceUUID
  lastSelected,         \* state.lastSelectedDeviceUUID
  active,
  disconnectOnInactive,
  loc,     \* what each thread has in its local variables
  tangled, \* history: "yes" after two calls overlapped, "mending" in a reconnect alone
  crashed  \* the threads that called through a null controller

inputVars == <<connectionControllers, selected, lastSelected, active, disconnectOnInactive>>
vars == <<managerVars, inputVars, loc, tangled, crashed>>

Selections == Udids \cup {NoDevice, Unset}
CallPCs == {"last", "select", "compare", "branch", "visit", "disconnect", "should",
            "look", "apply", "return"}
ObsPCs == {"idle", "option", "join", "destroyed"}

\* Locals: the device to select, whether to switch (force at first), the controllers the
\* loop has yet to visit, selectedUUID, the controller at hand, shouldConnect, and where
\* the thread goes on after the call.
NoLocals == [uuid |-> Unset, switch |-> FALSE, left |-> {}, target |-> Unset,
             at |-> Unset, should |-> FALSE, after |-> "idle"]

\* The constructor up to deviceManager.start(), with the settings it loads: they are
\* selected as they are written and then by setDeviceUUID(), which makes the last
\* selection a string even for "null"; Unset stands for that string.
Init ==
  /\ ManagerInit
  /\ pc = [t \in Threads |-> IF t = Manager THEN "list" ELSE "idle"]
  /\ connectionControllers = [u \in Udids |-> "null"]
  /\ selected \in Selections
  /\ lastSelected = IF selected = NoDevice THEN Unset ELSE selected
  /\ active = TRUE
  /\ disconnectOnInactive \in BOOLEAN
  /\ loc = [t \in Threads |-> NoLocals]
  /\ tangled = "no"
  /\ crashed = {}

-----------------------------------------------------------------------------
\* The calls, on thread t, from "last" (setDeviceUUID) or "compare" (connectToDevice).

InCall(t) == pc[t] \in CallPCs \cup {"option"}

Begin(t, l, locals, mends) ==
  /\ Goto(t, l)
  /\ loc' = [loc EXCEPT ![t] = locals]
  /\ tangled' = IF \E s \in Threads \ {t} : InCall(s) THEN "yes"
                ELSE IF mends /\ tangled = "yes" THEN "mending" ELSE tangled

Locals(t, field, value) == loc' = [loc EXCEPT ![t][field] = value]

\* Mutant of SetLast: it is set from the new device.
SetLastNever(t) ==
  /\ pc[t] = "last"
  /\ lastSelected' = loc[t].uuid
  /\ Goto(t, "select")
  /\ UNCHANGED <<connectionControllers, selected, active, disconnectOnInactive, loc>>

SetLast(t) ==
  /\ pc[t] = "last"
  /\ lastSelected' = selected
  /\ Goto(t, "select")
  /\ UNCHANGED <<connectionControllers, selected, active, disconnectOnInactive, loc>>

\* Mutant of SetSelected: "null" is taken for a device.
SetSelectedString(t) ==
  /\ pc[t] = "select"
  /\ selected' = IF loc[t].uuid = NoDevice THEN "null" ELSE loc[t].uuid
  /\ Goto(t, "compare")
  /\ Locals(t, "uuid", Unset)
  /\ UNCHANGED <<connectionControllers, lastSelected, active, disconnectOnInactive>>

SetSelected(t) ==
  /\ pc[t] = "select"
  /\ selected' = loc[t].uuid
  /\ Goto(t, "compare")
  /\ Locals(t, "uuid", Unset)
  /\ UNCHANGED <<connectionControllers, lastSelected, active, disconnectOnInactive>>

Compare(t) ==
  /\ pc[t] = "compare"
  /\ Locals(t, "switch", loc[t].switch \/ lastSelected # selected)
  /\ Goto(t, "branch")
  /\ UNCHANGED inputVars

\* The loop sees a controller that is added meanwhile, or does not.
Branch(t) ==
  /\ pc[t] = "branch"
  /\ loc' = [loc EXCEPT ![t].target = selected,
                        ![t].left = IF selected = NoDevice \/ loc[t].switch THEN Udids
                                    ELSE {},
                        ![t].switch = FALSE]
  /\ Goto(t, "visit")
  /\ UNCHANGED inputVars

Visit(t) ==
  /\ pc[t] = "visit"
  /\ \E u \in loc[t].left :
       \/ /\ connectionControllers[u] = "null"
          /\ loc' = [loc EXCEPT ![t].left = @ \ {u}]
          /\ Goto(t, "visit")
       \/ /\ connectionControllers[u] # "null"
          /\ loc' = [loc EXCEPT ![t].left = @ \ {u}, ![t].at = u]
          /\ Goto(t, "disconnect")
  /\ UNCHANGED inputVars

Visited(t) ==
  /\ pc[t] = "visit"
  /\ loc[t].left = {}
  /\ Goto(t, IF loc[t].target = NoDevice THEN "return" ELSE "should")
  /\ UNCHANGED <<inputVars, loc>>

\* disconnect() of the controller, whatever its connection does.
Stopped(u) ==
  [connectionControllers EXCEPT ![u] = IF @ = "started" THEN "stopped" ELSE @]

DisconnectOne(t) ==
  LET u == loc[t].at IN
  /\ pc[t] = "disconnect"
  /\ connectionControllers[u] # "null"
  /\ connectionControllers' = Stopped(u)
  /\ Locals(t, "at", Unset)
  /\ Goto(t, "visit")
  /\ UNCHANGED <<selected, lastSelected, active, disconnectOnInactive>>

ShouldConnect(t) ==
  /\ pc[t] = "should"
  /\ Locals(t, "should", ~(disconnectOnInactive /\ ~active))
  /\ Goto(t, "look")
  /\ UNCHANGED inputVars

LookForTarget(t) ==
  LET u == loc[t].target IN
  /\ pc[t] = "look"
  /\ Goto(t, IF u \in Udids /\ connectionControllers[u] # "null" THEN "apply" ELSE "return")
  /\ UNCHANGED <<inputVars, loc>>

Apply(t) ==
  LET u == loc[t].target IN
  /\ pc[t] = "apply"
  /\ connectionControllers[u] # "null"
  /\ connectionControllers' =
       IF loc[t].should THEN [connectionControllers EXCEPT ![u] = "started"] ELSE Stopped(u)
  /\ Goto(t, "return")
  /\ UNCHANGED <<selected, lastSelected, active, disconnectOnInactive, loc>>

\* The controller was set to null after it was looked at.
CallsNull(t) ==
  /\ \/ pc[t] = "disconnect" /\ connectionControllers[loc[t].at] = "null"
     \/ pc[t] = "apply" /\ connectionControllers[loc[t].target] = "null"
  /\ crashed' = crashed \cup {t}
  /\ UNCHANGED <<managerVars, inputVars, loc, tangled>>

CallStep(t) ==
  /\ \/ SetLast(t) \/ SetSelected(t) \/ Compare(t) \/ Branch(t) \/ Visit(t) \/ Visited(t)
     \/ DisconnectOne(t) \/ ShouldConnect(t) \/ LookForTarget(t) \/ Apply(t)
  /\ UNCHANGED <<devices, listVars, changed, _state, tangled, crashed>>

Return(t) ==
  /\ pc[t] = "return"
  /\ Goto(t, loc[t].after)
  /\ loc' = [loc EXCEPT ![t] = NoLocals]
  /\ tangled' = IF tangled = "mending" THEN "no" ELSE tangled
  /\ UNCHANGED <<devices, listVars, changed, _state, inputVars, crashed>>

-----------------------------------------------------------------------------
\* What OBS calls once the source is created.

Idle(t) ==
  /\ pc[t] = "idle"
  /\ _state = "Connected" /\ ~Stopping
  /\ UNCHANGED <<devices, listVars, changed, _state, crashed>>

\* UpdateIOSCameraInput(): the device first, disconnectOnInactive after the call.
Update(t) ==
  /\ Idle(t)
  /\ \E uuid \in Selections :
       Begin(t, "last", [NoLocals EXCEPT !.uuid = uuid, !.after = "option"], FALSE)
  /\ UNCHANGED inputVars

UpdateOption(t) ==
  /\ pc[t] = "option"
  /\ disconnectOnInactive' \in BOOLEAN
  /\ Goto(t, "idle")
  /\ UNCHANGED <<devices, listVars, changed, _state, connectionControllers, selected,
                 lastSelected, active, loc, tangled, crashed>>

Reconnect(t) ==
  /\ Idle(t)
  /\ Begin(t, "compare", [NoLocals EXCEPT !.switch = TRUE], TRUE)
  /\ UNCHANGED inputVars

SetActive(t, b) ==
  /\ Idle(t)
  /\ active' = b
  /\ Begin(t, "compare", NoLocals, FALSE)
  /\ UNCHANGED <<connectionControllers, selected, lastSelected, disconnectOnInactive>>

-----------------------------------------------------------------------------
\* DestroyIOSCameraInput(): OBS deletes the source when it calls it no more.

\* The decoders go first, then ~DeviceManager() stops its thread and joins it.
Delete(t) ==
  /\ Idle(t)
  /\ \A s \in ObsThreads : pc[s] = "idle"
  /\ Goto(t, "join")
  /\ UNCHANGED <<inputVars, loc, tangled>>

\* connectionControllers is declared before deviceManager and so outlives its thread.
DestroyMembers(t) ==
  /\ pc[t] = "join"
  /\ pc[Manager] = "exited"
  /\ Goto(t, "destroyed")
  /\ devices' = Nothing
  /\ connectionControllers' = [u \in Udids |-> "null"]
  /\ UNCHANGED <<listVars, changed, _state, selected, lastSelected, active,
                 disconnectOnInactive, loc, tangled, crashed>>

-----------------------------------------------------------------------------
\* The callbacks of the device manager, on its thread.

\* Mutant of DidAddDevice: the manager is started before its callbacks are set.
DidAddDeviceLater(u) ==
  /\ AddDevice(u)
  /\ connectionControllers' =
       IF u \in KnownDevices \/ _state = "Disconnected" THEN connectionControllers
       ELSE [connectionControllers EXCEPT ![u] = "idle"]
  /\ UNCHANGED <<selected, lastSelected, active, disconnectOnInactive, loc, tangled, crashed>>

DidAddDevice(u) ==
  /\ AddDevice(u)
  /\ connectionControllers' =
       IF u \in KnownDevices THEN connectionControllers
       ELSE [connectionControllers EXCEPT ![u] = "idle"]
  /\ UNCHANGED <<selected, lastSelected, active, disconnectOnInactive, loc, tangled, crashed>>

DidRemoveDevice(u) ==
  /\ RemoveDevice(u)
  /\ connectionControllers' = Stopped(u)
  /\ Locals(Manager, "at", u)
  /\ UNCHANGED <<selected, lastSelected, active, disconnectOnInactive, tangled, crashed>>

ClearController ==
  /\ pc[Manager] = "clear"
  /\ connectionControllers' = [connectionControllers EXCEPT ![loc[Manager].at] = "null"]
  /\ Locals(Manager, "at", Unset)
  /\ Goto(Manager, "remove")
  /\ UNCHANGED <<devices, listVars, changed, _state, selected, lastSelected, active,
                 disconnectOnInactive, tangled, crashed>>

\* isDeviceConnected: a controller that was never started is not connected.
MayBeConnected(u) == IF connectionControllers[u] = "idle" THEN {FALSE} ELSE BOOLEAN

\* Mutants of Selects: any single phone is selected; one that was lost is not.
SelectsAny(u, isConnected) == selected # u \/ ~isConnected

SelectsNew(u, isConnected) == selected = NoDevice

\* Is the only phone selected: for the first time, or again because it was lost.
Selects(u, isConnected) == selected = NoDevice \/ (selected = u /\ ~isConnected)

DidUpdateDeviceList ==
  /\ Reported
  /\ \/ /\ Cardinality(KnownDevices) # 1
        /\ Begin(Manager, "compare", [NoLocals EXCEPT !.after = "rest"], FALSE)
        /\ UNCHANGED crashed
     \/ \E u \in Udids :
          /\ KnownDevices = {u}
          /\ \/ /\ connectionControllers[u] = "null"
                /\ crashed' = crashed \cup {Manager}
                /\ UNCHANGED <<pc, loc, tangled>>
             \/ /\ connectionControllers[u] # "null"
                /\ \E isConnected \in MayBeConnected(u) :
                     \/ /\ Selects(u, isConnected)
                        /\ Begin(Manager, "last",
                                 [NoLocals EXCEPT !.uuid = u, !.after = "rest"], FALSE)
                     \/ /\ ~Selects(u, isConnected)
                        /\ Goto(Manager, "rest")
                        /\ UNCHANGED <<loc, tangled>>
                /\ UNCHANGED crashed
  /\ UNCHANGED inputVars

-----------------------------------------------------------------------------
ManagerStep ==
  /\ crashed = {}
  /\ \/ /\ ListDevices \/ Added \/ Removed \/ Rest
        /\ UNCHANGED <<inputVars, loc, tangled, crashed>>
     \/ \E u \in Udids : DidAddDevice(u) \/ DidRemoveDevice(u)
     \/ ClearController \/ DidUpdateDeviceList

ObsStep(t) ==
  /\ crashed = {}
  /\ \/ Update(t) \/ UpdateOption(t) \/ Reconnect(t) \/ \E b \in BOOLEAN : SetActive(t, b)
     \/ Delete(t) \/ DestroyMembers(t)

AnyStep(t) == crashed = {} /\ (CallStep(t) \/ Return(t) \/ CallsNull(t))

Next ==
  \/ ManagerStep
  \/ \E t \in ObsThreads : ObsStep(t)
  \/ \E t \in Threads : AnyStep(t)

Spec == Init /\ [][Next]_vars

-----------------------------------------------------------------------------
\* Every variable has its type.
TypeOK ==
  /\ devices \in [Udids -> Handles \cup {NoHandle}]
  /\ listed \in [Udids -> Handles \cup {NoHandle}]
  /\ adding \subseteq Udids /\ connected \subseteq Udids
  /\ changed \in BOOLEAN /\ _state \in {"Disconnected", "Connected"}
  /\ pc[Manager] \in ManagerPCs \cup CallPCs
  /\ \A t \in ObsThreads : pc[t] \in CallPCs \cup ObsPCs
  /\ connectionControllers \in [Udids -> {"null", "idle", "started", "stopped"}]
  /\ {selected, lastSelected} \subseteq Selections
  /\ active \in BOOLEAN /\ disconnectOnInactive \in BOOLEAN
  /\ \A t \in Threads : /\ loc[t].left \subseteq Udids
                        /\ {loc[t].uuid, loc[t].target, loc[t].at} \subseteq Selections
                        /\ loc[t].switch \in BOOLEAN /\ loc[t].should \in BOOLEAN
  /\ tangled \in {"no", "yes", "mending"}
  /\ crashed \subseteq Threads

\* When the manager reports its map, each phone on the cable is in it under the handle
\* usbmuxd listed last, and no phone that was not listed at all: a phone that came back
\* between two looks is dialled under its new handle (DeviceManager.cpp:87-112, 194-197).
MapFollowsList ==
  pc[Manager] = "notify" =>
    \A u \in Udids : /\ listed[u] # NoHandle => devices[u] = listed[u]
                     /\ u \in KnownDevices => u \in connected

\* The manager's own thread never calls through a null controller: the phone it asks
\* for its state has one, although removed phones leave a null behind
\* (obs-ios-camera-source.cpp:95-97, 139, 173).
ManagerFindsController == Manager \notin crashed

Quiet == crashed = {} /\ \A t \in Threads : ~InCall(t)

\* As long as no two calls overlapped since the source was created or since somebody
\* pressed Reconnect alone, every controller that was told to connect was told to
\* disconnect since, except that of the selected phone, in whatever order phones come and
\* go and settings change (obs-ios-camera-source.cpp:211-222, 271-301).
OnlySelectedStarted ==
  Quiet /\ tangled = "no" =>
    \A u \in Udids : connectionControllers[u] = "started" => u = selected

\* Under the same condition the controller of the selected phone is told last to connect
\* while the source is active, when the manager has it in its map and has reported it (obs-ios-camera-source.cpp:89-118).
SelectedIsStarted ==
  (/\ Quiet /\ tangled = "no" /\ active
   /\ selected \in KnownDevices /\ pc[Manager] \in {"rest", "list"})
    => connectionControllers[selected] = "started"

\* The manager selects a phone on its own only if none was selected: it never takes
\* the source away from the phone the user chose (obs-ios-camera-source.cpp:83-88).
KeepsChoice ==
  [][tangled = "no" /\ pc[Manager] = "select" /\ selected' # selected
       => selected = NoDevice]_vars
=============================================================================
