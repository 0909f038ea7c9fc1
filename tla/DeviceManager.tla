------------------------------ MODULE DeviceManager ------------------------------
(***************************************************************************)
(* portal::DeviceManager (src/deps/portal/src/DeviceManager.cpp): the map  *)
(* of the phones on the cable, brought up to date every second by the      *)
(* manager's thread; the first time by the thread that calls start().      *)
(*                                                                         *)
(* Between two looks phones come, go and come back under a new handle, and *)
(* the list may fail, so each look may find anything.  The module has no   *)
(* specification of its own: IOSCameraInput adds what the callbacks do.    *)
(***************************************************************************)
EXTENDS Naturals, FiniteSets

CONSTANTS
  Udids,    \* the phones
  Handles,  \* usbmuxd's handles
  NoHandle, \* not in the map, or not in the list
  Manager,  \* the thread of worker_loop()
  Threads   \* all threads

ASSUME ManagerAssumption == NoHandle \notin Handles /\ Manager \in Threads

VARIABLES
  devices,   \* the handle of each phone in the map
  listed,    \* the handle of each phone usbmuxd lists on the cable
  connected, \* connected_uuids, which holds phones on the network too
  adding,    \* the listed phones that addDevice() has not seen
  changed,   \* changed_devices
  _state,
  pc

managerVars == <<devices, listed, connected, adding, changed, _state, pc>>
listVars == <<listed, connected, adding>>

ManagerPCs == {"list", "add", "remove", "clear", "notify", "rest", "exited"}

\* worker_stopping: somebody is in, or was in, ~DeviceManager().
Stopping == \E t \in Threads : pc[t] \in {"join", "destroyed"}

KnownDevices == {u \in Udids : devices[u] # NoHandle}
Nothing == [u \in Udids |-> NoHandle]

ManagerInit ==
  /\ devices = Nothing /\ listed = Nothing
  /\ connected = {} /\ adding = {}
  /\ changed = FALSE
  /\ _state = "Disconnected"

Goto(t, l) == pc' = [pc EXCEPT ![t] = l]

\* updateDevices() asks usbmuxd; a failure is an empty list.
ListDevices ==
  /\ pc[Manager] = "list"
  /\ listed' \in [Udids -> Handles \cup {NoHandle}]
  /\ adding' = {u \in Udids : listed'[u] # NoHandle}
  /\ \E network \in SUBSET Udids : connected' = adding' \cup network
  /\ changed' = FALSE
  /\ Goto(Manager, "add")
  /\ UNCHANGED <<devices, _state>>

\* Mutant of AddDevice: the handle of a known phone is left alone.
AddDeviceOldHandle(u) ==
  /\ pc[Manager] = "add"
  /\ u \in adding
  /\ adding' = adding \ {u}
  /\ devices' = [devices EXCEPT ![u] = IF @ = NoHandle THEN listed[u] ELSE @]
  /\ changed' = (changed \/ u \notin KnownDevices)
  /\ UNCHANGED <<listed, connected, _state, pc>>

AddDevice(u) ==
  /\ pc[Manager] = "add"
  /\ u \in adding
  /\ adding' = adding \ {u}
  /\ devices' = [devices EXCEPT ![u] = listed[u]]
  /\ changed' = (changed \/ u \notin KnownDevices)
  /\ UNCHANGED <<listed, connected, _state, pc>>

Added ==
  /\ pc[Manager] = "add"
  /\ adding = {}
  /\ Goto(Manager, "remove")
  /\ UNCHANGED <<devices, listVars, changed, _state>>

\* removeDevice() of one that is not connected any more; its callback follows.
RemoveDevice(u) ==
  /\ pc[Manager] = "remove"
  /\ u \in KnownDevices \ connected
  /\ devices' = [devices EXCEPT ![u] = NoHandle]
  /\ changed' = TRUE
  /\ Goto(Manager, "clear")
  /\ UNCHANGED <<listVars, _state>>

\* The map is up to date; the callback follows if it changed.
Removed ==
  /\ pc[Manager] = "remove"
  /\ KnownDevices \subseteq connected
  /\ Goto(Manager, IF changed THEN "notify" ELSE "rest")
  /\ UNCHANGED <<devices, listVars, changed, _state>>

\* The callback is made; the list is not looked at any more.
Reported ==
  /\ pc[Manager] = "notify"
  /\ listed' = Nothing /\ connected' = {} /\ changed' = FALSE
  /\ UNCHANGED <<devices, adding, _state>>

\* start() after its first updateDevices(), then a second of worker_loop() or less, and
\* the test at the head of its loop.
Rest ==
  /\ pc[Manager] = "rest"
  /\ _state' = "Connected"
  /\ listed' = Nothing /\ connected' = {}
  /\ changed' = FALSE
  /\ Goto(Manager, IF Stopping THEN "exited" ELSE "list")
  /\ UNCHANGED <<devices, adding>>
=============================================================================
