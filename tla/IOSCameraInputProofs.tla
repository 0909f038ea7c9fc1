-------------------------- MODULE IOSCameraInputProofs --------------------------
(***************************************************************************)
(* Proofs about IOSCameraInput and its device manager, for any phones,     *)
(* handles and threads of OBS: what the run "camera" checks for two phones *)
(* and one thread of OBS.                                                  *)
(***************************************************************************)
EXTENDS IOSCameraInput, TLAPS

USE DEF ObsPCs

LocalsType ==
  [uuid : Selections, switch : BOOLEAN, left : SUBSET Udids, target : Selections,
   at : Selections, should : BOOLEAN, after : {"idle", "option", "rest"}]

\* Each thread is where its locals allow it to be.
PCsTyped ==
  /\ pc \in [Threads -> CallPCs \cup ManagerPCs \cup ObsPCs]
  /\ pc[Manager] \in ManagerPCs \cup CallPCs
  /\ \A t \in ObsThreads : pc[t] \in CallPCs \cup ObsPCs
  /\ loc \in [Threads -> LocalsType]
  /\ pc[Manager] \in CallPCs => loc[Manager].after = "rest"
  /\ \A t \in ObsThreads : loc[t].after \in {"idle", "option"}
  /\ \A t \in Threads : /\ pc[t] = "disconnect" => loc[t].at \in Udids
                        /\ pc[t] = "apply" => loc[t].target \in Udids
  /\ pc[Manager] = "clear" => loc[Manager].at \in Udids

StateTyped ==
  /\ devices \in [Udids -> Handles \cup {NoHandle}]
  /\ listed \in [Udids -> Handles \cup {NoHandle}]
  /\ adding \subseteq Udids /\ connected \subseteq Udids
  /\ changed \in BOOLEAN /\ _state \in {"Disconnected", "Connected"}
  /\ connectionControllers \in [Udids -> {"null", "idle", "started", "stopped"}]
  /\ {selected, lastSelected} \subseteq Selections
  /\ active \in BOOLEAN /\ disconnectOnInactive \in BOOLEAN
  /\ tangled \in {"no", "yes", "mending"}
  /\ crashed \subseteq Threads

Typed == PCsTyped /\ StateTyped

\* Every phone of the map has a controller, and the manager has looked at the one it
\* calls: only the manager itself sets one to null.
Found ==
  /\ \A u \in KnownDevices : connectionControllers[u] # "null"
  /\ pc[Manager] = "clear" => loc[Manager].at \notin KnownDevices
  /\ pc[Manager] = "disconnect" => connectionControllers[loc[Manager].at] # "null"
  /\ pc[Manager] = "apply" => connectionControllers[loc[Manager].target] # "null"
  /\ Manager \notin crashed

\* How far updateDevices() has come with the list.
Mapped ==
  /\ pc[Manager] \in {"add", "remove", "clear", "notify"} =>
       \A u \in Udids : listed[u] # NoHandle =>
         u \in connected /\ (u \in adding \/ devices[u] = listed[u])
  /\ pc[Manager] \in {"remove", "clear", "notify"} => adding = {}
  /\ pc[Manager] = "notify" => KnownDevices \subseteq connected

-----------------------------------------------------------------------------
\* What holds of the controllers while thread t is in a call that no other overlaps.

OnlyStarted(ids) == \A u \in Udids : connectionControllers[u] = "started" => u \in ids

Pending == changed /\ pc[Manager] \in {"add", "remove", "clear", "notify"}

\* An active source tells the selected phone's controller to connect, at the latest when
\* the manager reports that it has added it.
Connects ==
  active /\ selected \in KnownDevices =>
    \/ connectionControllers[selected] = "started"
    \/ connectionControllers[selected] = "idle" /\ Pending

Selecting(t) ==
  /\ pc[t] \in {"last", "select"} => OnlyStarted({selected})
  /\ pc[t] = "select" => lastSelected = selected
  /\ pc[t] \in {"last", "select"} /\ t = Manager =>
       selected = NoDevice \/ loc[t].uuid = selected

Leaving(t) ==
  /\ pc[t] = "compare" =>
       loc[t].switch \/ lastSelected # selected \/ OnlyStarted({selected})
  /\ pc[t] = "branch" => loc[t].switch \/ OnlyStarted({selected})
  /\ pc[t] \in {"visit", "disconnect", "should", "look", "apply"} =>
       loc[t].target = selected
  /\ pc[t] = "visit" => OnlyStarted(loc[t].left \cup {selected})
  /\ pc[t] = "disconnect" => OnlyStarted(loc[t].left \cup {loc[t].at, selected})

Connecting(t) ==
  /\ pc[t] \in {"should", "look", "apply"} => OnlyStarted({selected})
  /\ pc[t] \in {"look", "apply"} /\ active => loc[t].should
  /\ pc[t] \in {"return", "option"} => OnlyStarted({selected}) /\ Connects

InOrder(t) == Selecting(t) /\ Leaving(t) /\ Connecting(t)

Settled == OnlyStarted({selected}) /\ Connects

\* Calls that did not overlap leave only the selected phone's controller told to connect.
Orderly ==
  tangled # "yes" =>
    /\ \A s, t \in Threads : InCall(s) /\ InCall(t) => s = t
    /\ \A t \in Threads : InCall(t) => InOrder(t)
    /\ (\A t \in Threads : ~InCall(t)) => Settled

IInv == Typed /\ Found /\ Mapped /\ Orderly

LEMMA CameraFacts ==
  /\ Manager \in Threads /\ Manager \notin ObsThreads /\ ObsThreads \subseteq Threads
  /\ \A t \in Threads : t # Manager => t \in ObsThreads
  /\ NoDevice \notin Udids /\ Unset \notin Udids /\ NoDevice # Unset
  /\ NoHandle \notin Handles
BY CameraAssumption, ManagerAssumption

LEMMA NoLocalsTyped == NoLocals \in LocalsType
BY DEF NoLocals, LocalsType, Selections

\* The steps by kind: the cases of every proof below.
CallKinds(t) ==
  \/ SetLast(t) \/ SetSelected(t) \/ Compare(t) \/ Branch(t) \/ Visit(t) \/ Visited(t)
  \/ DisconnectOne(t) \/ ShouldConnect(t) \/ LookForTarget(t) \/ Apply(t)

LEMMA StepKinds ==
  ASSUME [Next]_vars
  PROVE  \/ /\ ListDevices \/ Added \/ Removed \/ Rest
            /\ UNCHANGED <<inputVars, loc, tangled, crashed>>
         \/ \E u \in Udids : DidAddDevice(u) \/ DidRemoveDevice(u)
         \/ ClearController \/ DidUpdateDeviceList
         \/ \E t \in ObsThreads :
              Update(t) \/ UpdateOption(t) \/ Reconnect(t) \/ \E b \in BOOLEAN : SetActive(t, b)
         \/ \E t \in ObsThreads : Delete(t) \/ DestroyMembers(t)
         \/ \E t \in Threads : CallStep(t) \/ Return(t) \/ CallsNull(t)
         \/ UNCHANGED vars
BY DEF Next, ManagerStep, ObsStep, AnyStep

-----------------------------------------------------------------------------
LEMMA InitIInv == Init => IInv
<1> SUFFICES ASSUME Init PROVE IInv
  OBVIOUS
<1> USE CameraFacts
<1>1. Typed
  <2>1. PCsTyped
    BY NoLocalsTyped DEF Init, PCsTyped, CallPCs, ManagerPCs, NoLocals
  <2>2. StateTyped
    BY DEF Init, ManagerInit, Nothing, StateTyped, Selections
  <2> QED BY <2>1, <2>2 DEF Typed
<1>2. KnownDevices = {}
  BY DEF Init, ManagerInit, Nothing, KnownDevices
<1>3. Found /\ Mapped
  BY <1>2 DEF Init, Found, Mapped
<1>4. \A t \in Threads : ~InCall(t)
  BY DEF Init, InCall, CallPCs
<1>5. Settled
  BY <1>2 DEF Init, Settled, OnlyStarted, Connects
<1> QED BY <1>1, <1>3, <1>4, <1>5 DEF IInv, Orderly

-----------------------------------------------------------------------------
\* Types.

\* A step of one thread that goes on at l.
LEMMA PCsKept ==
  ASSUME PCsTyped, NEW t \in Threads, NEW l, Goto(t, l),
         loc' \in [Threads -> LocalsType], \A s \in Threads \ {t} : loc'[s] = loc[s],
         t = Manager => l \in ManagerPCs \cup CallPCs,
         t # Manager => l \in CallPCs \cup ObsPCs,
         t = Manager /\ l \in CallPCs => loc'[t].after = "rest",
         t # Manager => loc'[t].after \in {"idle", "option"},
         l = "disconnect" \/ (t = Manager /\ l = "clear") => loc'[t].at \in Udids,
         l = "apply" => loc'[t].target \in Udids
  PROVE  PCsTyped'
<1> HIDE DEF LocalsType
<1> QED BY CameraFacts DEF PCsTyped, Goto

LEMMA PCsSame == ASSUME PCsTyped, UNCHANGED <<pc, loc>> PROVE PCsTyped'
BY DEF PCsTyped

\* What each step of a call leaves in the locals of its thread.
LocalsBecome(t, uuid, switch, left, target, at, should) ==
  /\ loc' \in [Threads -> LocalsType]
  /\ \A s \in Threads \ {t} : loc'[s] = loc[s]
  /\ loc'[t].uuid = uuid /\ loc'[t].switch = switch /\ loc'[t].left = left
  /\ loc'[t].target = target /\ loc'[t].at = at /\ loc'[t].should = should
  /\ loc'[t].after = loc[t].after

LEMMA LocalsSame ==
  ASSUME Typed, NEW t \in Threads, UNCHANGED loc
  PROVE  LET r == loc[t] IN LocalsBecome(t, r.uuid, r.switch, r.left, r.target, r.at, r.should)
BY DEF LocalsBecome, Typed, PCsTyped

LEMMA LocalsUuid ==
  ASSUME Typed, NEW t \in Threads, SetSelected(t)
  PROVE  LET r == loc[t] IN LocalsBecome(t, Unset, r.switch, r.left, r.target, r.at, r.should)
BY DEF LocalsBecome, Typed, PCsTyped, SetSelected, Locals, LocalsType, Selections

LEMMA LocalsSwitch ==
  ASSUME Typed, NEW t \in Threads, Compare(t)
  PROVE  LET r == loc[t] IN
         LocalsBecome(t, r.uuid, r.switch \/ lastSelected # selected, r.left, r.target, r.at,
                      r.should)
BY DEF LocalsBecome, Typed, PCsTyped, Compare, Locals, LocalsType

LEMMA LocalsBranch ==
  ASSUME Typed, NEW t \in Threads, Branch(t)
  PROVE  LET r == loc[t] IN
         LocalsBecome(t, r.uuid, FALSE,
                      IF selected = NoDevice \/ r.switch THEN Udids ELSE {}, selected, r.at,
                      r.should)
<1> DEFINE left == IF selected = NoDevice \/ loc[t].switch THEN Udids ELSE {}
<1>1. /\ loc \in [Threads -> LocalsType] /\ selected \in Selections /\ left \in SUBSET Udids
      /\ loc' = [loc EXCEPT ![t].target = selected, ![t].left = left, ![t].switch = FALSE]
  BY DEF Typed, PCsTyped, StateTyped, Branch
<1> HIDE DEF left
<1>2. LET r == loc[t] IN
      loc'[t] = [uuid |-> r.uuid, switch |-> FALSE, left |-> left, target |-> selected,
                 at |-> r.at, should |-> r.should, after |-> r.after]
  BY <1>1 DEF LocalsType
<1>3. loc'[t] \in LocalsType
  BY <1>1, <1>2 DEF LocalsType
<1>4. loc' = [loc EXCEPT ![t] = loc'[t]]
  BY <1>1
<1>5. loc' \in [Threads -> LocalsType] /\ \A s \in Threads \ {t} : loc'[s] = loc[s]
  <2> HIDE DEF LocalsType
  <2> QED BY <1>1, <1>3, <1>4
<1> QED BY <1>2, <1>5 DEF LocalsBecome, left

LEMMA LocalsVisit ==
  ASSUME Typed, NEW t \in Threads, Visit(t)
  PROVE  LET r == loc[t] IN
         \E u \in r.left :
           \/ /\ connectionControllers[u] = "null"
              /\ LocalsBecome(t, r.uuid, r.switch, r.left \ {u}, r.target, r.at, r.should)
              /\ Goto(t, "visit")
           \/ /\ connectionControllers[u] # "null"
              /\ LocalsBecome(t, r.uuid, r.switch, r.left \ {u}, r.target, u, r.should)
              /\ Goto(t, "disconnect")
BY DEF LocalsBecome, Typed, PCsTyped, Visit, LocalsType, Selections

LEMMA LocalsDisconnect ==
  ASSUME Typed, NEW t \in Threads, DisconnectOne(t)
  PROVE  LET r == loc[t] IN
         LocalsBecome(t, r.uuid, r.switch, r.left, r.target, Unset, r.should)
BY DEF LocalsBecome, Typed, PCsTyped, DisconnectOne, Locals, LocalsType, Selections

LEMMA LocalsShould ==
  ASSUME Typed, NEW t \in Threads, ShouldConnect(t)
  PROVE  LET r == loc[t] IN
         LocalsBecome(t, r.uuid, r.switch, r.left, r.target, r.at,
                      ~(disconnectOnInactive /\ ~active))
BY DEF LocalsBecome, Typed, PCsTyped, ShouldConnect, Locals, LocalsType

\* In a call a thread moves to another step of the call, and keeps where it returns to.
LEMMA CallMoves ==
  ASSUME Typed, NEW t \in Threads, CallKinds(t)
  PROVE  /\ pc[t] \in CallPCs /\ pc'[t] \in CallPCs
         /\ Goto(t, pc'[t])
         /\ loc' \in [Threads -> LocalsType]
         /\ \A s \in Threads \ {t} : loc'[s] = loc[s] /\ pc'[s] = pc[s]
         /\ loc'[t].after = loc[t].after
         /\ pc'[t] = "disconnect" => loc'[t].at \in Udids
         /\ pc'[t] = "apply" => loc'[t].target \in Udids
<1> HIDE DEF LocalsType
<1> USE DEF CallPCs, Goto, LocalsBecome
<1>0. /\ pc \in [Threads -> CallPCs \cup ManagerPCs \cup ObsPCs]
      /\ loc \in [Threads -> LocalsType]
      /\ \A s \in Threads : loc[s].left \subseteq Udids
  BY DEF Typed, PCsTyped, LocalsType
<1>1. CASE SetLast(t)
  BY <1>0, <1>1, LocalsSame DEF SetLast
<1>2. CASE SetSelected(t)
  BY <1>0, <1>2, LocalsUuid DEF SetSelected
<1>3. CASE Compare(t)
  BY <1>0, <1>3, LocalsSwitch DEF Compare
<1>4. CASE Branch(t)
  BY <1>0, <1>4, LocalsBranch DEF Branch
<1>5. CASE Visit(t)
  <2>1. pc[t] = "visit"
    BY <1>5 DEF Visit
  <2> QED BY <1>0, <1>5, <2>1, LocalsVisit
<1>6. CASE Visited(t)
  BY <1>0, <1>6, LocalsSame DEF Visited
<1>7. CASE DisconnectOne(t)
  BY <1>0, <1>7, LocalsDisconnect DEF DisconnectOne
<1>8. CASE ShouldConnect(t)
  BY <1>0, <1>8, LocalsShould DEF ShouldConnect
<1>9. CASE LookForTarget(t)
  BY <1>0, <1>9, LocalsSame DEF LookForTarget
<1>10. CASE Apply(t)
  BY <1>0, <1>10, LocalsSame DEF Apply
<1> QED BY <1>1, <1>2, <1>3, <1>4, <1>5, <1>6, <1>7, <1>8, <1>9, <1>10 DEF CallKinds

LEMMA CallStepTyped ==
  ASSUME Typed, NEW t \in Threads, CallStep(t)
  PROVE  Typed'
<1> USE CameraFacts
<1>0. CallKinds(t) /\ UNCHANGED <<devices, listVars, changed, _state, tangled, crashed>>
  BY DEF CallStep, CallKinds
<1>1. PCsTyped'
  <2> HIDE DEF LocalsType
  <2>1. /\ PCsTyped
        /\ pc'[t] \in CallPCs /\ Goto(t, pc'[t])
        /\ pc[t] \in CallPCs
    BY <1>0, CallMoves DEF Typed
  <2>2. /\ t = Manager => loc[t].after = "rest"
        /\ t # Manager => loc[t].after \in {"idle", "option"}
    BY <2>1 DEF PCsTyped
  <2>3. "clear" \notin CallPCs
    BY DEF CallPCs
  <2> QED BY <1>0, <2>1, <2>2, <2>3, CallMoves, PCsKept
<1>2. /\ connectionControllers' \in [Udids -> {"null", "idle", "started", "stopped"}]
      /\ {selected', lastSelected'} \subseteq Selections
      /\ UNCHANGED <<active, disconnectOnInactive>>
  <2> USE DEF inputVars, StateTyped, Typed
  <2>1. CASE SetLast(t)
    BY <2>1 DEF SetLast
  <2>2. CASE SetSelected(t)
    BY <2>2 DEF SetSelected, PCsTyped, LocalsType
  <2>3. CASE Compare(t) \/ Branch(t) \/ Visit(t) \/ Visited(t)
    BY <2>3 DEF Compare, Branch, Visit, Visited
  <2>4. CASE DisconnectOne(t)
    BY <2>4 DEF DisconnectOne, Stopped
  <2>5. CASE ShouldConnect(t) \/ LookForTarget(t)
    BY <2>5 DEF ShouldConnect, LookForTarget
  <2>6. CASE Apply(t)
    BY <2>6 DEF Apply, Stopped
  <2> QED BY <1>0, <2>1, <2>2, <2>3, <2>4, <2>5, <2>6 DEF CallKinds
<1>3. StateTyped'
  BY <1>0, <1>2 DEF Typed, StateTyped, listVars
<1> QED BY <1>1, <1>3 DEF Typed

LEMMA BeginTyped ==
  ASSUME Typed, NEW t \in Threads, NEW l \in {"last", "compare"}, NEW r \in LocalsType,
         NEW m \in BOOLEAN, Begin(t, l, r, m),
         r.after = "rest" <=> t = Manager
  PROVE  /\ PCsTyped' /\ tangled' \in {"no", "yes", "mending"}
         /\ loc'[t] = r /\ pc'[t] = l
         /\ \A s \in Threads \ {t} : loc'[s] = loc[s] /\ pc'[s] = pc[s]
<1> HIDE DEF LocalsType
<1>1. /\ loc' \in [Threads -> LocalsType] /\ loc'[t] = r /\ pc'[t] = l /\ Goto(t, l)
      /\ \A s \in Threads \ {t} : loc'[s] = loc[s] /\ pc'[s] = pc[s]
  BY DEF Begin, Goto, Typed, PCsTyped
<1>2. r.after \in {"idle", "option", "rest"}
  BY DEF LocalsType
<1>3. l \in CallPCs /\ l \notin {"disconnect", "clear", "apply"}
  BY DEF CallPCs
<1>4. PCsTyped'
  BY <1>1, <1>2, <1>3, PCsKept DEF Typed
<1>5. tangled' \in {"no", "yes", "mending"}
  BY DEF Begin, Typed, StateTyped
<1> QED BY <1>1, <1>4, <1>5

\* The locals that a call begins with.
LEMMA FirstLocals ==
  /\ \A u \in Selections : \A a \in {"option", "rest"} :
       LET r == [NoLocals EXCEPT !.uuid = u, !.after = a] IN
       r \in LocalsType /\ r.after = a /\ r.uuid = u
  /\ LET r == [NoLocals EXCEPT !.switch = TRUE] IN
     r \in LocalsType /\ r.after = "idle" /\ r.switch
  /\ LET r == [NoLocals EXCEPT !.after = "rest"] IN r \in LocalsType /\ r.after = "rest"
  /\ NoLocals.after = "idle" /\ NoLocals \in LocalsType
BY DEF NoLocals, LocalsType, Selections

LEMMA ObsStepTyped ==
  ASSUME Typed, NEW t \in ObsThreads,
         Update(t) \/ UpdateOption(t) \/ Reconnect(t) \/ \E b \in BOOLEAN : SetActive(t, b)
  PROVE  Typed'
<1> t \in Threads /\ t # Manager
  BY CameraFacts
<1>1. CASE Update(t)
  <2>1. PICK uuid \in Selections :
          Begin(t, "last", [NoLocals EXCEPT !.uuid = uuid, !.after = "option"], FALSE)
    BY <1>1 DEF Update
  <2>2. PCsTyped' /\ tangled' \in {"no", "yes", "mending"}
    BY <2>1, FirstLocals, BeginTyped
  <2> QED BY <1>1, <2>2 DEF Update, Idle, Typed, StateTyped, inputVars, listVars
<1>2. CASE UpdateOption(t)
  <2>1. loc[t] \in LocalsType /\ loc[t].after \in {"idle", "option"}
    BY DEF Typed, PCsTyped
  <2>2. PCsTyped'
    <3> HIDE DEF LocalsType
    <3> QED BY <1>2, <2>1, PCsKept DEF UpdateOption, Typed, PCsTyped
  <2> QED BY <1>2, <2>2 DEF UpdateOption, Typed, StateTyped, listVars
<1>3. CASE Reconnect(t)
  <2>1. Begin(t, "compare", [NoLocals EXCEPT !.switch = TRUE], TRUE)
    BY <1>3 DEF Reconnect
  <2>2. PCsTyped' /\ tangled' \in {"no", "yes", "mending"}
    BY <2>1, FirstLocals, BeginTyped
  <2> QED BY <1>3, <2>2 DEF Reconnect, Idle, Typed, StateTyped, inputVars, listVars
<1>4. ASSUME NEW b \in BOOLEAN, SetActive(t, b) PROVE Typed'
  <2>1. Begin(t, "compare", NoLocals, FALSE)
    BY <1>4 DEF SetActive
  <2>2. PCsTyped' /\ tangled' \in {"no", "yes", "mending"}
    BY <2>1, FirstLocals, BeginTyped
  <2> QED BY <1>4, <2>2 DEF SetActive, Idle, Typed, StateTyped, listVars
<1> QED BY <1>1, <1>2, <1>3, <1>4

\* Who deletes the source, and what the deletion leaves.
LEMMA DeletionKeeps ==
  ASSUME Typed, NEW t \in ObsThreads, Delete(t) \/ DestroyMembers(t)
  PROVE  /\ Typed'
         /\ pc'[t] \in {"join", "destroyed"} /\ \A s \in Threads \ {t} : pc'[s] = pc[s]
         /\ \A s \in Threads : InCall(s)' <=> InCall(s)
         /\ UNCHANGED <<listVars, selected, lastSelected, active, loc, tangled, crashed>>
         /\ \/ UNCHANGED <<devices, connectionControllers>>
            \/ KnownDevices' = {} /\ \A u \in Udids : connectionControllers'[u] = "null"
<1>0. t \in Threads /\ t # Manager
  BY CameraFacts
<1>1. /\ Goto(t, "join") \/ Goto(t, "destroyed")
      /\ pc[t] \in {"idle", "join"}
      /\ UNCHANGED <<loc, listVars, changed, _state, selected, lastSelected, active,
                     disconnectOnInactive, tangled, crashed>>
      /\ \/ UNCHANGED <<devices, connectionControllers>>
         \/ devices' = Nothing /\ connectionControllers' = [u \in Udids |-> "null"]
  BY DEF Delete, Idle, DestroyMembers, inputVars
<1>2. PCsTyped'
  <2>1. loc[t] \in LocalsType /\ loc[t].after \in {"idle", "option"}
    BY <1>0 DEF Typed, PCsTyped
  <2> HIDE DEF LocalsType
  <2> QED BY <1>0, <1>1, <2>1, PCsKept DEF Typed, PCsTyped
<1>3. Typed'
  BY <1>1, <1>2 DEF Typed, StateTyped, listVars, Nothing
<1>4. pc'[t] \in {"join", "destroyed"} /\ \A s \in Threads \ {t} : pc'[s] = pc[s]
  BY <1>0, <1>1 DEF Goto, Typed, PCsTyped
<1>5. \A s \in Threads : InCall(s)' <=> InCall(s)
  BY <1>1, <1>4 DEF InCall, CallPCs
<1>6. devices' = Nothing => KnownDevices' = {}
  BY DEF KnownDevices, Nothing
<1> QED BY <1>1, <1>3, <1>4, <1>5, <1>6

LEMMA ManagerMoves ==
  ASSUME Typed, NEW l \in ManagerPCs \ {"clear"}, Goto(Manager, l),
         UNCHANGED loc \/ \E a \in Selections : Locals(Manager, "at", a)
  PROVE  PCsTyped'
<1>1. /\ loc' \in [Threads -> LocalsType]
      /\ \A s \in Threads \ {Manager} : loc'[s] = loc[s]
  BY DEF Typed, PCsTyped, Locals, LocalsType
<1> HIDE DEF LocalsType
<1>2. l \notin CallPCs /\ l \in ManagerPCs /\ l \notin {"disconnect", "clear", "apply"}
  BY DEF CallPCs, ManagerPCs
<1> QED BY <1>1, <1>2, CameraFacts, PCsKept DEF Typed

LEMMA ManagerStepTyped ==
  ASSUME Typed,
         \/ /\ ListDevices \/ Added \/ Removed \/ Rest
            /\ UNCHANGED <<inputVars, loc, tangled, crashed>>
         \/ \E u \in Udids : DidAddDevice(u) \/ DidRemoveDevice(u)
         \/ ClearController
  PROVE  Typed'
<1> USE CameraFacts DEF inputVars, listVars
<1>1. CASE ListDevices /\ UNCHANGED <<inputVars, loc, tangled, crashed>>
  <2>1. PCsTyped'
    BY <1>1, ManagerMoves DEF ListDevices, ManagerPCs
  <2> QED BY <1>1, <2>1 DEF ListDevices, Typed, StateTyped
<1>2. CASE (Added \/ Removed \/ Rest) /\ UNCHANGED <<inputVars, loc, tangled, crashed>>
  <2>1. PCsTyped'
    BY <1>2, ManagerMoves DEF Added, Removed, Rest, ManagerPCs
  <2> QED BY <1>2, <2>1 DEF Added, Removed, Rest, Nothing, Typed, StateTyped
<1>3. ASSUME NEW u \in Udids, DidAddDevice(u) PROVE Typed'
  <2>1. PCsTyped'
    BY <1>3, PCsSame DEF DidAddDevice, AddDevice, Typed
  <2> QED BY <1>3, <2>1 DEF DidAddDevice, AddDevice, Typed, StateTyped
<1>4. ASSUME NEW u \in Udids, DidRemoveDevice(u) PROVE Typed'
  <2>1. /\ loc' \in [Threads -> LocalsType] /\ loc'[Manager].at = u
        /\ \A s \in Threads \ {Manager} : loc'[s] = loc[s]
    BY <1>4 DEF DidRemoveDevice, Locals, Typed, PCsTyped, LocalsType, Selections
  <2>2. PCsTyped'
    <3> HIDE DEF LocalsType
    <3>1. "clear" \notin CallPCs /\ "clear" \in ManagerPCs
      BY DEF CallPCs, ManagerPCs
    <3> QED BY <1>4, <2>1, <3>1, PCsKept DEF DidRemoveDevice, RemoveDevice, Typed
  <2> QED BY <1>4, <2>2 DEF DidRemoveDevice, RemoveDevice, Stopped, Typed, StateTyped
<1>5. CASE ClearController
  <2>1. PCsTyped'
    BY <1>5, ManagerMoves DEF ClearController, ManagerPCs, Selections
  <2> QED BY <1>5, <2>1 DEF ClearController, Typed, StateTyped
<1> QED BY <1>1, <1>2, <1>3, <1>4, <1>5

LEMMA ReportTyped == ASSUME Typed, DidUpdateDeviceList PROVE Typed'
<1> USE CameraFacts
<1>1. PCsTyped' /\ tangled' \in {"no", "yes", "mending"} /\ crashed' \subseteq Threads
  <2>0. tangled \in {"no", "yes", "mending"} /\ crashed \subseteq Threads
    BY DEF Typed, StateTyped
  <2>1. CASE /\ Begin(Manager, "compare", [NoLocals EXCEPT !.after = "rest"], FALSE)
             /\ UNCHANGED crashed
    BY <2>0, <2>1, FirstLocals, BeginTyped
  <2>2. ASSUME NEW u \in Udids, UNCHANGED crashed,
               Begin(Manager, "last", [NoLocals EXCEPT !.uuid = u, !.after = "rest"], FALSE)
        PROVE  PCsTyped' /\ tangled' \in {"no", "yes", "mending"} /\ crashed' \subseteq Threads
    <3>1. u \in Selections
      BY DEF Selections
    <3> QED BY <2>0, <2>2, <3>1, FirstLocals, BeginTyped
  <2>3. CASE Goto(Manager, "rest") /\ UNCHANGED <<loc, tangled, crashed>>
    BY <2>0, <2>3, ManagerMoves DEF ManagerPCs
  <2>4. CASE crashed' = crashed \cup {Manager} /\ UNCHANGED <<pc, loc, tangled>>
    BY <2>0, <2>4, PCsSame DEF Typed
  <2> QED BY <2>1, <2>2, <2>3, <2>4 DEF DidUpdateDeviceList
<1> QED BY <1>1 DEF DidUpdateDeviceList, Reported, Nothing, Typed, StateTyped, inputVars

LEMMA ReturnTyped == ASSUME Typed, NEW t \in Threads, Return(t) PROVE Typed'
<1> USE CameraFacts
<1>1. /\ loc' \in [Threads -> LocalsType] /\ loc'[t] = NoLocals
      /\ \A s \in Threads \ {t} : loc'[s] = loc[s]
  <2> HIDE DEF LocalsType
  <2> QED BY NoLocalsTyped DEF Return, Typed, PCsTyped
<1>2. NoLocals.after = "idle"
  BY DEF NoLocals
<1>3. /\ t = Manager => loc[t].after = "rest"
      /\ t # Manager => loc[t].after \in {"idle", "option"}
  BY DEF Typed, PCsTyped, Return, CallPCs
<1>4. "rest" \in ManagerPCs /\ "rest" \notin CallPCs
  BY DEF ManagerPCs, CallPCs
<1>5. PCsTyped'
  <2> HIDE DEF LocalsType
  <2> QED BY <1>1, <1>2, <1>3, <1>4, PCsKept DEF Return, Typed
<1> QED BY <1>5 DEF Return, Typed, StateTyped, inputVars, listVars

LEMMA StepTyped == ASSUME Typed, [Next]_vars PROVE Typed'
<1>1. ASSUME NEW t \in Threads, CallsNull(t) PROVE Typed'
  BY <1>1, PCsSame DEF CallsNull, managerVars, inputVars, Typed, StateTyped
<1>2. CASE UNCHANGED vars
  BY <1>2, PCsSame DEF vars, managerVars, inputVars, Typed, StateTyped
<1> QED BY <1>1, <1>2, StepKinds, ManagerStepTyped, ReportTyped, ObsStepTyped, DeletionKeeps,
           CallStepTyped, ReturnTyped

\* Every variable has its type, for any phones, handles and threads.
THEOREM TypeCorrect == Spec => []TypeOK
<1>1. Init => Typed
  BY InitIInv DEF IInv
<1>2. Typed /\ [Next]_vars => Typed'
  BY StepTyped
<1>3. Typed => TypeOK
  BY CameraFacts DEF Typed, PCsTyped, StateTyped, TypeOK, LocalsType
<1> QED BY <1>1, <1>2, <1>3, PTL DEF Spec

-----------------------------------------------------------------------------
\* Controllers are found.

\* A call makes no controller null and none that was null, and looks before it calls.
LEMMA CallFinds ==
  ASSUME Typed, NEW t \in Threads, CallKinds(t)
  PROVE  /\ \A u \in Udids : connectionControllers'[u] = "null" <=>
                             connectionControllers[u] = "null"
         /\ pc'[t] = "disconnect" => connectionControllers'[loc'[t].at] # "null"
         /\ pc'[t] = "apply" => connectionControllers'[loc'[t].target] # "null"
<1> HIDE DEF LocalsType
<1> USE DEF Goto, LocalsBecome, inputVars
<1>0. /\ pc \in [Threads -> CallPCs \cup ManagerPCs \cup ObsPCs]
      /\ connectionControllers \in [Udids -> {"null", "idle", "started", "stopped"}]
  BY DEF Typed, PCsTyped, StateTyped
<1>1. CASE SetLast(t) \/ SetSelected(t) \/ Compare(t) \/ ShouldConnect(t)
  BY <1>0, <1>1 DEF SetLast, SetSelected, Compare, ShouldConnect
<1>2. CASE Branch(t) \/ Visited(t)
  BY <1>0, <1>2 DEF Branch, Visited
<1>3. CASE Visit(t)
  <2>1. pc[t] = "visit" /\ UNCHANGED connectionControllers
    BY <1>3 DEF Visit
  <2> QED BY <1>0, <1>3, <2>1, LocalsVisit
<1>4. CASE DisconnectOne(t)
  BY <1>0, <1>4 DEF DisconnectOne, Stopped
<1>5. CASE LookForTarget(t)
  BY <1>0, <1>5 DEF LookForTarget
<1>6. CASE Apply(t)
  BY <1>0, <1>6 DEF Apply, Stopped
<1> QED BY <1>1, <1>2, <1>3, <1>4, <1>5, <1>6 DEF CallKinds

LEMMA StepFound == ASSUME Typed, Found, [Next]_vars PROVE Found'
<1> HIDE DEF LocalsType
<1> USE CameraFacts
<1>0. /\ pc \in [Threads -> CallPCs \cup ManagerPCs \cup ObsPCs]
      /\ loc \in [Threads -> LocalsType]
      /\ devices \in [Udids -> Handles \cup {NoHandle}]
      /\ connectionControllers \in [Udids -> {"null", "idle", "started", "stopped"}]
      /\ KnownDevices \subseteq Udids
      /\ listed \in [Udids -> Handles \cup {NoHandle}]
  BY DEF Typed, PCsTyped, StateTyped, KnownDevices
<1>1. CASE ListDevices /\ UNCHANGED <<inputVars, loc, tangled, crashed>>
  BY <1>0, <1>1 DEF ListDevices, Found, KnownDevices, Goto, inputVars
<1>2. CASE (Added \/ Removed \/ Rest) /\ UNCHANGED <<inputVars, loc, tangled, crashed>>
  BY <1>0, <1>2 DEF Added, Removed, Rest, Found, KnownDevices, Goto, inputVars
<1>3. ASSUME NEW u \in Udids, DidAddDevice(u) PROVE Found'
  BY <1>0, <1>3 DEF DidAddDevice, AddDevice, Found, KnownDevices
<1>4. ASSUME NEW u \in Udids, DidRemoveDevice(u) PROVE Found'
  <2>1. loc'[Manager].at = u
    BY <1>4 DEF DidRemoveDevice, Locals, Typed, PCsTyped, LocalsType
  <2> QED BY <1>0, <1>4, <2>1
          DEF DidRemoveDevice, RemoveDevice, Stopped, Found, KnownDevices, Goto
<1>5. CASE ClearController
  BY <1>0, <1>5 DEF ClearController, Found, KnownDevices, Goto
<1>6. CASE DidUpdateDeviceList
  <2>1. /\ KnownDevices' = KnownDevices /\ UNCHANGED connectionControllers
    BY <1>6 DEF DidUpdateDeviceList, Reported, KnownDevices, inputVars
  <2>2. UNCHANGED crashed
    BY <1>6 DEF DidUpdateDeviceList, Found
  <2>3. pc'[Manager] \in {"compare", "last", "rest"}
    BY <1>0, <1>6, <2>2 DEF DidUpdateDeviceList, Found, Begin, Goto
  <2> QED BY <2>1, <2>2, <2>3 DEF Found
<1>7. ASSUME NEW t \in ObsThreads,
             Update(t) \/ UpdateOption(t) \/ Reconnect(t) \/ \E b \in BOOLEAN : SetActive(t, b)
      PROVE  Found'
  <2>1. /\ UNCHANGED <<devices, connectionControllers, crashed>>
        /\ pc'[Manager] = pc[Manager] /\ loc'[Manager] = loc[Manager]
    BY <1>0, <1>7 DEF Update, UpdateOption, Reconnect, SetActive, Idle, inputVars, Begin, Goto
  <2> QED BY <2>1 DEF Found, KnownDevices
<1>8. ASSUME NEW t \in Threads, CallStep(t) PROVE Found'
  <2>1. CallKinds(t) /\ UNCHANGED <<devices, crashed>>
    BY <1>8 DEF CallStep, CallKinds
  <2>2. KnownDevices' = KnownDevices
    BY <2>1 DEF KnownDevices
  <2>3. /\ pc'[Manager] = "clear" => pc[Manager] = "clear" /\ loc'[Manager] = loc[Manager]
        /\ t # Manager => pc'[Manager] = pc[Manager] /\ loc'[Manager] = loc[Manager]
    BY <1>0, <2>1, CallMoves DEF CallPCs
  <2>4. CASE t = Manager
    BY <1>0, <2>1, <2>2, <2>3, <2>4, CallFinds DEF Found
  <2>5. CASE t # Manager
    <3>1. /\ pc[Manager] = "disconnect" => loc[Manager].at \in Udids
          /\ pc[Manager] = "apply" => loc[Manager].target \in Udids
      BY DEF Typed, PCsTyped
    <3> QED BY <1>0, <2>1, <2>2, <2>3, <2>5, <3>1, CallFinds DEF Found
  <2> QED BY <2>4, <2>5
<1>9. ASSUME NEW t \in Threads, Return(t) PROVE Found'
  <2>1. /\ t # Manager => pc'[Manager] = pc[Manager] /\ loc'[Manager] = loc[Manager]
        /\ t = Manager => pc'[Manager] = "rest"
    BY <1>0, <1>9 DEF Return, Goto, Typed, PCsTyped, CallPCs
  <2> QED BY <1>9, <2>1 DEF Return, Found, KnownDevices, inputVars
<1>10. ASSUME NEW t \in Threads, CallsNull(t) PROVE Found'
  BY <1>10 DEF CallsNull, Found, KnownDevices, managerVars, inputVars
<1>11. CASE UNCHANGED vars
  BY <1>11 DEF vars, managerVars, inputVars, Found, KnownDevices
<1>12. ASSUME NEW t \in ObsThreads, Delete(t) \/ DestroyMembers(t) PROVE Found'
  <2>1. /\ pc'[Manager] = pc[Manager] /\ UNCHANGED <<loc, crashed>>
        /\ pc'[Manager] \notin {"disconnect", "apply"} \/ UNCHANGED connectionControllers
    <3>1. CASE Delete(t)
      BY <1>12, <3>1, DeletionKeeps DEF Delete, Idle, inputVars
    <3>2. CASE DestroyMembers(t)
      BY <1>12, <3>2, DeletionKeeps DEF DestroyMembers
    <3> QED BY <1>12, <3>1, <3>2
  <2> QED BY <1>12, <2>1, DeletionKeeps DEF Found, KnownDevices
<1> QED BY <1>1, <1>2, <1>3, <1>4, <1>5, <1>6, <1>7, <1>8, <1>9, <1>10, <1>11,
           <1>12, StepKinds

-----------------------------------------------------------------------------
\* The map of the manager.

LEMMA StepMapped == ASSUME Typed, Found, Mapped, [Next]_vars PROVE Mapped'
<1> HIDE DEF LocalsType
<1> USE CameraFacts
<1>0. /\ pc \in [Threads -> CallPCs \cup ManagerPCs \cup ObsPCs]
      /\ devices \in [Udids -> Handles \cup {NoHandle}]
      /\ listed \in [Udids -> Handles \cup {NoHandle}]
      /\ KnownDevices \subseteq Udids
  BY DEF Typed, PCsTyped, StateTyped, KnownDevices
<1>1. CASE ListDevices
  BY <1>0, <1>1 DEF ListDevices, Mapped, Goto
<1>2. CASE Added
  BY <1>0, <1>2 DEF Added, Mapped, Goto, listVars
<1>3. CASE Removed
  BY <1>0, <1>3 DEF Removed, Mapped, KnownDevices, Goto, listVars
<1>4. CASE Rest
  BY <1>0, <1>4 DEF Rest, Mapped, Goto
<1>5. ASSUME NEW u \in Udids, DidAddDevice(u) PROVE Mapped'
  BY <1>0, <1>5 DEF DidAddDevice, AddDevice, Mapped
<1>6. ASSUME NEW u \in Udids, DidRemoveDevice(u) PROVE Mapped'
  BY <1>0, <1>6 DEF DidRemoveDevice, RemoveDevice, Mapped, Goto, listVars
<1>7. CASE ClearController
  BY <1>0, <1>7 DEF ClearController, Mapped, Goto, listVars
<1>8. CASE DidUpdateDeviceList
  <2>1. pc'[Manager] \in {"compare", "last", "rest"}
    BY <1>0, <1>8 DEF DidUpdateDeviceList, Found, Begin, Goto
  <2> QED BY <2>1 DEF Mapped
<1>9. ASSUME NEW t \in Threads, NEW l, Goto(t, l), UNCHANGED <<devices, listVars>>,
             t = Manager => l \in CallPCs \cup {"rest"}
      PROVE  Mapped'
  <2>1. pc'[Manager] \in CallPCs \cup {"rest"} \/ pc'[Manager] = pc[Manager]
    BY <1>0, <1>9 DEF Goto
  <2> QED BY <1>9, <2>1 DEF Mapped, KnownDevices, listVars, CallPCs
<1>10. ASSUME NEW t \in ObsThreads,
              Update(t) \/ UpdateOption(t) \/ Reconnect(t) \/ \E b \in BOOLEAN : SetActive(t, b)
       PROVE  Mapped'
  <2>1. t \in Threads /\ t # Manager
    OBVIOUS
  <2>2. UNCHANGED <<devices, listVars>>
    BY <1>10 DEF Update, UpdateOption, Reconnect, SetActive, Idle
  <2>3. Goto(t, "last") \/ Goto(t, "idle") \/ Goto(t, "compare")
    BY <1>10 DEF Update, UpdateOption, Reconnect, SetActive, Begin
  <2> QED BY <1>9, <2>1, <2>2, <2>3
<1>11. ASSUME NEW t \in Threads, CallStep(t) PROVE Mapped'
  <2>1. CallKinds(t) /\ UNCHANGED <<devices, listVars>>
    BY <1>11 DEF CallStep, CallKinds
  <2> QED BY <1>9, <2>1, CallMoves
<1>12. ASSUME NEW t \in Threads, Return(t) PROVE Mapped'
  <2>1. t = Manager => loc[t].after = "rest"
    BY <1>12 DEF Return, Typed, PCsTyped, CallPCs
  <2> QED BY <1>9, <1>12, <2>1 DEF Return
<1>13. ASSUME NEW t \in Threads, CallsNull(t) \/ UNCHANGED vars PROVE Mapped'
  BY <1>13 DEF CallsNull, vars, Mapped, KnownDevices, managerVars
<1>14. ASSUME NEW t \in ObsThreads, Delete(t) \/ DestroyMembers(t) PROVE Mapped'
  <2>1. CASE Delete(t)
    BY <1>9, <1>14, <2>1 DEF Delete, Idle
  <2>2. CASE DestroyMembers(t)
    <3>1. pc'[Manager] = "exited"
      BY <1>14, <2>2, DeletionKeeps DEF DestroyMembers
    <3> QED BY <3>1 DEF Mapped
  <2> QED BY <1>14, <2>1, <2>2
<1> QED BY <1>1, <1>2, <1>3, <1>4, <1>5, <1>6, <1>7, <1>8, <1>10, <1>11, <1>12, <1>13, <1>14,
           StepKinds

-----------------------------------------------------------------------------
\* Calls that do not overlap.

\* A step that starts no controller and leaves thread t and the selection alone.
LEMMA OrderKept ==
  ASSUME NEW t \in Threads, InOrder(t), pc'[t] = pc[t], loc'[t] = loc[t],
         UNCHANGED <<selected, lastSelected, active>>,
         \A u \in Udids : connectionControllers'[u] = "started" =>
                          connectionControllers[u] = "started",
         Connects => Connects'
  PROVE  InOrder(t)'
<1>1. ASSUME NEW ids, OnlyStarted(ids)
      PROVE  \A u \in Udids : connectionControllers'[u] = "started" => u \in ids
  BY <1>1 DEF OnlyStarted
<1> HIDE DEF Connects
<1>2. Selecting(t)'
  BY <1>1 DEF InOrder, Selecting, OnlyStarted
<1>3. Leaving(t)'
  BY <1>1 DEF InOrder, Leaving, OnlyStarted
<1>4. Connecting(t)'
  BY <1>1 DEF InOrder, Connecting, OnlyStarted
<1> QED BY <1>2, <1>3, <1>4 DEF InOrder

\* What the manager does to its map starts no controller, and a phone it has added
\* to the map is pending until it reports it.
LEMMA ManagerKeeps ==
  ASSUME Typed, Found,
         \/ /\ ListDevices \/ Added \/ Removed \/ Rest
            /\ UNCHANGED <<inputVars, loc, tangled, crashed>>
         \/ \E u \in Udids : DidAddDevice(u) \/ DidRemoveDevice(u)
         \/ ClearController
  PROVE  /\ UNCHANGED <<selected, lastSelected, active, tangled, crashed>>
         /\ \A s \in Threads \ {Manager} : pc'[s] = pc[s] /\ loc'[s] = loc[s]
         /\ ~InCall(Manager) /\ ~InCall(Manager)'
         /\ \A u \in Udids : connectionControllers'[u] = "started" =>
                             connectionControllers[u] = "started"
         /\ Connects => Connects'
<1> HIDE DEF LocalsType
<1> USE CameraFacts DEF CallPCs, InCall, Goto, inputVars, Connects, Pending
<1>0. /\ pc \in [Threads -> CallPCs \cup ManagerPCs \cup ObsPCs]
      /\ loc \in [Threads -> LocalsType]
      /\ devices \in [Udids -> Handles \cup {NoHandle}]
      /\ listed \in [Udids -> Handles \cup {NoHandle}]
      /\ adding \subseteq Udids /\ changed \in BOOLEAN
      /\ connectionControllers \in [Udids -> {"null", "idle", "started", "stopped"}]
      /\ KnownDevices \subseteq Udids
  BY DEF Typed, PCsTyped, StateTyped, KnownDevices
<1>1. CASE ListDevices /\ UNCHANGED <<inputVars, loc, tangled, crashed>>
  BY <1>0, <1>1 DEF ListDevices, KnownDevices
<1>2. CASE (Added \/ Rest) /\ UNCHANGED <<inputVars, loc, tangled, crashed>>
  BY <1>0, <1>2 DEF Added, Rest, KnownDevices
<1>3. CASE Removed /\ UNCHANGED <<inputVars, loc, tangled, crashed>>
  BY <1>0, <1>3 DEF Removed, KnownDevices
<1>4. ASSUME NEW u \in Udids, DidAddDevice(u)
      PROVE  /\ UNCHANGED <<selected, lastSelected, active, tangled, crashed, pc, loc>>
             /\ ~InCall(Manager) /\ ~InCall(Manager)'
             /\ \A v \in Udids : connectionControllers'[v] = "started" =>
                                 connectionControllers[v] = "started"
             /\ Connects => Connects'
  BY <1>0, <1>4 DEF DidAddDevice, AddDevice, KnownDevices
<1>5. ASSUME NEW u \in Udids, DidRemoveDevice(u)
      PROVE  /\ UNCHANGED <<selected, lastSelected, active, tangled, crashed>>
             /\ \A s \in Threads \ {Manager} : pc'[s] = pc[s] /\ loc'[s] = loc[s]
             /\ ~InCall(Manager) /\ ~InCall(Manager)'
             /\ \A v \in Udids : connectionControllers'[v] = "started" =>
                                 connectionControllers[v] = "started"
             /\ Connects => Connects'
  BY <1>0, <1>5 DEF DidRemoveDevice, RemoveDevice, Stopped, Locals, KnownDevices
<1>6. CASE ClearController
  BY <1>0, <1>6 DEF ClearController, Locals, Found, KnownDevices
<1> QED BY <1>1, <1>2, <1>3, <1>4, <1>5, <1>6

\* A step of a call that no other overlaps.
LEMMA CallStepOrder ==
  ASSUME Typed, Found, NEW t \in Threads, CallKinds(t), InOrder(t),
         UNCHANGED <<devices, changed>>
  PROVE  InOrder(t)'
<1> HIDE DEF LocalsType
<1> USE CameraFacts DEF Goto, LocalsBecome, inputVars, InOrder, Selecting, Leaving, Connecting,
                        OnlyStarted
<1>0. /\ pc \in [Threads -> CallPCs \cup ManagerPCs \cup ObsPCs]
      /\ connectionControllers \in [Udids -> {"null", "idle", "started", "stopped"}]
      /\ KnownDevices \subseteq Udids /\ KnownDevices' = KnownDevices
      /\ selected \in Selections
      /\ loc[t].switch \in BOOLEAN /\ active \in BOOLEAN
  BY DEF Typed, PCsTyped, StateTyped, KnownDevices, LocalsType
<1>1. CASE SetLast(t)
  BY <1>0, <1>1, LocalsSame DEF SetLast
<1>2. CASE SetSelected(t)
  BY <1>0, <1>2, LocalsUuid DEF SetSelected
<1>3. CASE Compare(t)
  BY <1>0, <1>3, LocalsSwitch DEF Compare
<1>4. CASE Branch(t)
  <2>1. /\ pc[t] = "branch" /\ pc'[t] = "visit" /\ UNCHANGED inputVars
        /\ loc[t].switch \/ OnlyStarted({selected})
    BY <1>0, <1>4 DEF Branch
  <2>2. /\ loc'[t].target = selected
        /\ loc'[t].left = IF selected = NoDevice \/ loc[t].switch THEN Udids ELSE {}
    BY <1>4, LocalsBranch
  <2> QED BY <2>1, <2>2
<1>5. CASE Visit(t)
  <2>1. pc[t] = "visit" /\ UNCHANGED inputVars
    BY <1>5 DEF Visit
  <2> QED BY <1>0, <1>5, <2>1, LocalsVisit
<1>6. CASE Visited(t)
  BY <1>0, <1>6, LocalsSame DEF Visited, Connects
<1>7. CASE DisconnectOne(t)
  BY <1>0, <1>7, LocalsDisconnect DEF DisconnectOne, Stopped
<1>8. CASE ShouldConnect(t)
  BY <1>0, <1>8, LocalsShould DEF ShouldConnect
<1>9. CASE LookForTarget(t)
  BY <1>0, <1>9, LocalsSame DEF LookForTarget, Connects, Found, Selections
<1>10. CASE Apply(t)
  <2>1. loc[t].target \in Udids
    BY <1>10 DEF Apply, Typed, PCsTyped
  <2> QED BY <1>0, <1>10, <2>1, LocalsSame DEF Apply, Stopped, Connects
<1> QED BY <1>1, <1>2, <1>3, <1>4, <1>5, <1>6, <1>7, <1>8, <1>9, <1>10 DEF CallKinds

\* A call that begins while no other is under way.
LEMMA BeginOrder ==
  ASSUME Typed, Orderly, NEW t \in Threads, ~InCall(t), NEW l \in {"last", "compare"},
         NEW r \in LocalsType, NEW m \in BOOLEAN, Begin(t, l, r, m),
         r.after = "rest" <=> t = Manager,
         UNCHANGED <<selected, lastSelected, connectionControllers>>,
         l = "last" /\ t = Manager => selected = NoDevice \/ r.uuid = selected,
         m => l = "compare" /\ r.switch
  PROVE  Orderly'
<1> HIDE DEF LocalsType
<1> SUFFICES ASSUME tangled' # "yes" PROVE Orderly'
  BY DEF Orderly
<1>1. \A s \in Threads \ {t} : ~InCall(s)
  BY DEF Begin
<1>2. /\ pc'[t] = l /\ loc'[t] = r
      /\ \A s \in Threads \ {t} : pc'[s] = pc[s]
  BY BeginTyped
<1>3. \A s \in Threads \ {t} : ~InCall(s)'
  BY <1>1, <1>2 DEF InCall
<1>4. r.switch \/ (OnlyStarted({selected}) /\ tangled # "yes")
  BY <1>1 DEF Begin, Orderly, Settled
<1>5. l = "last" => OnlyStarted({selected})
  BY <1>1 DEF Begin, Orderly, Settled
<1>6. InOrder(t)'
  BY <1>2, <1>4, <1>5 DEF InOrder, Selecting, Leaving, Connecting, OnlyStarted
<1>7. InCall(t)'
  BY <1>2 DEF InCall, CallPCs
<1> QED BY <1>3, <1>6, <1>7 DEF Orderly

\* A thread whose call ends, or that goes on with the option.
LEMMA EndOrder ==
  ASSUME Typed, Orderly, NEW t \in Threads, InCall(t),
         NEW l \in {"idle", "rest", "option"}, Goto(t, l),
         InOrder(t) => Settled, Settled => Settled', tangled' # "yes" => tangled # "yes"
  PROVE  Orderly'
<1> SUFFICES ASSUME tangled' # "yes" PROVE Orderly'
  BY DEF Orderly
<1> HIDE DEF Settled
<1>1. /\ Settled' /\ \A s \in Threads \ {t} : ~InCall(s)
  BY DEF Orderly
<1>2. /\ pc'[t] = l
      /\ \A s \in Threads \ {t} : pc'[s] = pc[s]
  BY DEF Goto, Typed, PCsTyped
<1>3. \A s \in Threads \ {t} : ~InCall(s)'
  BY <1>1, <1>2 DEF InCall
<1>4. InOrder(t)'
  BY <1>1, <1>2 DEF InOrder, Selecting, Leaving, Connecting, Settled
<1> QED BY <1>1, <1>3, <1>4 DEF Orderly

\* A step of the manager or of a call that overlaps none: who is in a call stays in it.
LEMMA CallersKept ==
  ASSUME Orderly, UNCHANGED tangled,
         \A s \in Threads : InCall(s)' <=> InCall(s),
         tangled # "yes" =>
           /\ \A s \in Threads : InCall(s) /\ InOrder(s) => InOrder(s)'
           /\ (\A s \in Threads : ~InCall(s)) /\ Settled => Settled'
  PROVE  Orderly'
BY DEF Orderly

LEMMA ReportOrderly == ASSUME Typed, Found, Orderly, DidUpdateDeviceList PROVE Orderly'
<1> HIDE DEF LocalsType
<1> USE CameraFacts
<1>0. /\ UNCHANGED <<selected, lastSelected, active, connectionControllers>>
      /\ KnownDevices' = KnownDevices
      /\ pc[Manager] = "notify"
      /\ pc \in [Threads -> CallPCs \cup ManagerPCs \cup ObsPCs]
  BY DEF DidUpdateDeviceList, Reported, inputVars, KnownDevices, Typed, PCsTyped
<1>1. ~InCall(Manager)
  BY <1>0 DEF InCall, CallPCs
<1>2. CASE Begin(Manager, "compare", [NoLocals EXCEPT !.after = "rest"], FALSE)
  BY <1>0, <1>1, <1>2, FirstLocals, BeginOrder
<1>3. ASSUME NEW u \in Udids, NEW isConnected \in MayBeConnected(u), Selects(u, isConnected),
             Begin(Manager, "last", [NoLocals EXCEPT !.uuid = u, !.after = "rest"], FALSE)
      PROVE  Orderly'
  <2>1. selected = NoDevice \/ u = selected
    BY <1>3 DEF Selects
  <2>2. u \in Selections
    BY DEF Selections
  <2> DEFINE r == [NoLocals EXCEPT !.uuid = u, !.after = "rest"]
  <2>3. r \in LocalsType /\ r.after = "rest" /\ r.uuid = u
    BY <2>2, FirstLocals
  <2> HIDE DEF r
  <2>4. Begin(Manager, "last", r, FALSE)
    BY <1>3 DEF r
  <2> QED BY <1>0, <1>1, <2>1, <2>3, <2>4, BeginOrder
<1>4. ASSUME NEW u \in Udids, KnownDevices = {u},
             NEW isConnected \in MayBeConnected(u), ~Selects(u, isConnected),
             Goto(Manager, "rest"), UNCHANGED <<loc, tangled>>
      PROVE  Orderly'
  <2>1. /\ pc'[Manager] = "rest"
        /\ \A s \in Threads \ {Manager} : pc'[s] = pc[s]
    BY <1>0, <1>4 DEF Goto
  <2>2. \A s \in Threads : InCall(s)' <=> InCall(s)
    BY <1>1, <2>1 DEF InCall, CallPCs
  <2>3. Connects => Connects'
    <3>1. selected = u => connectionControllers[u] # "idle"
      BY <1>4 DEF Selects, MayBeConnected
    <3> QED BY <1>0, <1>4, <3>1 DEF Connects
  <2>4. \A s \in Threads : InCall(s) /\ InOrder(s) => InOrder(s)'
    BY <1>0, <1>1, <1>4, <2>1, <2>3, OrderKept
  <2>5. Settled => Settled'
    BY <1>0, <2>3 DEF Settled, OnlyStarted
  <2> QED BY <1>4, <2>2, <2>4, <2>5, CallersKept
<1> QED BY <1>2, <1>3, <1>4 DEF DidUpdateDeviceList, Found

LEMMA ObsOrderly ==
  ASSUME Typed, Orderly, NEW t \in ObsThreads,
         Update(t) \/ UpdateOption(t) \/ Reconnect(t) \/ \E b \in BOOLEAN : SetActive(t, b)
  PROVE  Orderly'
<1> HIDE DEF LocalsType
<1> t \in Threads /\ t # Manager
  BY CameraFacts
<1>0. pc[t] = "idle" => ~InCall(t)
  BY DEF InCall, CallPCs
<1>1. CASE Update(t)
  <2>1. PICK uuid \in Selections :
          Begin(t, "last", [NoLocals EXCEPT !.uuid = uuid, !.after = "option"], FALSE)
    BY <1>1 DEF Update
  <2> DEFINE r == [NoLocals EXCEPT !.uuid = uuid, !.after = "option"]
  <2>2. r \in LocalsType /\ r.after = "option" /\ Begin(t, "last", r, FALSE)
    BY <2>1, FirstLocals
  <2> HIDE DEF r
  <2>3. ~InCall(t) /\ UNCHANGED <<selected, lastSelected, connectionControllers>>
    BY <1>0, <1>1 DEF Update, Idle, inputVars
  <2> QED BY <2>2, <2>3, BeginOrder
<1>2. CASE UpdateOption(t)
  <2>1. /\ Goto(t, "idle") /\ pc[t] = "option" /\ InCall(t)
        /\ UNCHANGED <<devices, changed, connectionControllers, selected, active, tangled>>
    BY <1>2 DEF UpdateOption, InCall
  <2>2. InOrder(t) => Settled
    BY <2>1 DEF InOrder, Connecting, Settled
  <2>3. pc'[Manager] = pc[Manager]
    BY <2>1, CameraFacts DEF Goto, Typed, PCsTyped
  <2>4. Settled => Settled'
    BY <2>1, <2>3 DEF Settled, OnlyStarted, Connects, Pending, KnownDevices
  <2> QED BY <2>1, <2>2, <2>4, EndOrder
<1>3. CASE Reconnect(t)
  <2> DEFINE r == [NoLocals EXCEPT !.switch = TRUE]
  <2>1. r \in LocalsType /\ r.after = "idle" /\ r.switch /\ Begin(t, "compare", r, TRUE)
    BY <1>3, FirstLocals DEF Reconnect
  <2> HIDE DEF r
  <2>2. ~InCall(t) /\ UNCHANGED <<selected, lastSelected, connectionControllers>>
    BY <1>0, <1>3 DEF Reconnect, Idle, inputVars
  <2> QED BY <2>1, <2>2, BeginOrder
<1>4. ASSUME NEW b \in BOOLEAN, SetActive(t, b) PROVE Orderly'
  <2>1. ~InCall(t) /\ UNCHANGED <<selected, lastSelected, connectionControllers>>
    BY <1>0, <1>4 DEF SetActive, Idle
  <2>2. Begin(t, "compare", NoLocals, FALSE)
    BY <1>4 DEF SetActive
  <2> QED BY <2>1, <2>2, FirstLocals, BeginOrder
<1> QED BY <1>1, <1>2, <1>3, <1>4

LEMMA CallOrderly ==
  ASSUME Typed, Found, Orderly, NEW t \in Threads, CallStep(t)
  PROVE  Orderly'
<1>1. CallKinds(t) /\ UNCHANGED <<devices, changed, tangled>>
  BY DEF CallStep, CallKinds
<1>2. InCall(t) /\ InCall(t)' /\ \A s \in Threads \ {t} : pc'[s] = pc[s]
  BY <1>1, CallMoves DEF InCall
<1>3. \A s \in Threads : InCall(s)' <=> InCall(s)
  BY <1>2 DEF InCall
<1>4. tangled # "yes" =>
        /\ \A s \in Threads : InCall(s) /\ InOrder(s) => InOrder(s)'
        /\ (\A s \in Threads : ~InCall(s)) /\ Settled => Settled'
  BY <1>1, <1>2, CallStepOrder DEF Orderly
<1> QED BY <1>1, <1>3, <1>4, CallersKept

LEMMA ReturnOrderly == ASSUME Typed, Orderly, NEW t \in Threads, Return(t) PROVE Orderly'
<1> HIDE DEF LocalsType
<1> USE CameraFacts
<1>1. /\ pc[t] = "return" /\ Goto(t, loc[t].after) /\ InCall(t)
      /\ UNCHANGED <<devices, changed, connectionControllers, selected, active>>
      /\ tangled' # "yes" => tangled # "yes"
  BY DEF Return, InCall, CallPCs, inputVars
<1>2. loc[t].after \in {"idle", "rest", "option"}
  BY DEF Typed, PCsTyped, LocalsType
<1>3. InOrder(t) => Settled
  BY <1>1 DEF InOrder, Connecting, Settled
<1>4. Pending => Pending'
  BY <1>1 DEF Pending, Goto, Typed, PCsTyped
<1>5. Settled => Settled'
  BY <1>1, <1>4 DEF Settled, OnlyStarted, Connects, KnownDevices
<1> QED BY <1>1, <1>2, <1>3, <1>5, EndOrder

LEMMA StepOrderly == ASSUME Typed, Found, Orderly, [Next]_vars PROVE Orderly'
<1> HIDE DEF LocalsType
<1>1. CASE \/ /\ ListDevices \/ Added \/ Removed \/ Rest
              /\ UNCHANGED <<inputVars, loc, tangled, crashed>>
           \/ \E u \in Udids : DidAddDevice(u) \/ DidRemoveDevice(u)
           \/ ClearController
  <2>1. \A s \in Threads : InCall(s)' <=> InCall(s)
    BY <1>1, ManagerKeeps DEF InCall
  <2>2. \A s \in Threads : InCall(s) /\ InOrder(s) => InOrder(s)'
    BY <1>1, ManagerKeeps, OrderKept
  <2>3. Settled => Settled'
    BY <1>1, ManagerKeeps DEF Settled, OnlyStarted
  <2> QED BY <1>1, <2>1, <2>2, <2>3, ManagerKeeps, CallersKept
<1>2. ASSUME NEW t \in Threads, CallsNull(t) \/ UNCHANGED vars PROVE Orderly'
  BY <1>2 DEF CallsNull, vars, managerVars, inputVars, Orderly, InCall, InOrder, Selecting,
              Leaving, Connecting, Settled, OnlyStarted, Connects, Pending, KnownDevices
<1>3. Manager \in Threads
  BY CameraFacts
<1>4. ASSUME NEW t \in ObsThreads, Delete(t) \/ DestroyMembers(t) PROVE Orderly'
  <2>1. /\ UNCHANGED <<selected, lastSelected, active, tangled, loc>>
        /\ \A s \in Threads : InCall(s)' <=> InCall(s)
        /\ \A s \in Threads : InCall(s) => pc'[s] = pc[s]
        /\ \A u \in Udids : connectionControllers'[u] = "started" =>
                              connectionControllers[u] = "started"
    <3>1. ~InCall(t)
      BY <1>4 DEF InCall, CallPCs, Delete, Idle, DestroyMembers
    <3> QED BY <1>4, <3>1, DeletionKeeps
  <2>2. Connects => Connects'
    <3>1. CASE Delete(t)
      <4>1. pc'[Manager] = pc[Manager] /\ UNCHANGED changed
        BY <1>4, <3>1, CameraFacts, DeletionKeeps DEF Delete, Idle
      <4> QED BY <3>1, <4>1 DEF Delete, Idle, inputVars, Connects, Pending, KnownDevices
    <3>2. CASE DestroyMembers(t)
      <4>1. KnownDevices' = {}
        BY <3>2 DEF DestroyMembers, KnownDevices, Nothing
      <4> QED BY <4>1 DEF Connects
    <3> QED BY <1>4, <3>1, <3>2
  <2>3. \A s \in Threads : InCall(s) /\ InOrder(s) => InOrder(s)'
    BY <2>1, <2>2, OrderKept
  <2>4. Settled => Settled'
    BY <2>1, <2>2 DEF Settled, OnlyStarted
  <2> QED BY <2>1, <2>3, <2>4, CallersKept
<1> QED BY <1>1, <1>2, <1>3, <1>4, StepKinds, ReportOrderly, ObsOrderly, CallOrderly,
           ReturnOrderly

-----------------------------------------------------------------------------
LEMMA Invariance == Spec => []IInv
<1>1. IInv /\ [Next]_vars => IInv'
  BY StepTyped, StepFound, StepMapped, StepOrderly DEF IInv
<1> QED BY <1>1, InitIInv, PTL DEF Spec

\* The manager never calls through a null controller, however phones come and go under
\* the calls of other threads.
THEOREM ManagerFinds == Spec => []ManagerFindsController
<1>1. IInv => ManagerFindsController
  BY DEF IInv, Found, ManagerFindsController
<1> QED BY <1>1, Invariance, PTL

\* What the manager reports is what usbmuxd listed last, for any number of phones.
THEOREM MapIsList == Spec => []MapFollowsList
<1>1. IInv => MapFollowsList
  BY DEF IInv, Mapped, MapFollowsList
<1> QED BY <1>1, Invariance, PTL

\* However many threads of OBS there are: as long as no two calls overlap, no controller
\* but that of the selected phone is told to connect without being told to disconnect.
THEOREM OnlySelected == Spec => []OnlySelectedStarted
<1>1. IInv => OnlySelectedStarted
  BY DEF IInv, Orderly, Settled, OnlyStarted, Quiet, OnlySelectedStarted
<1> QED BY <1>1, Invariance, PTL

\* And an active source has told it to connect once the manager has reported it.
THEOREM SelectedStarts == Spec => []SelectedIsStarted
<1>1. IInv => SelectedIsStarted
  BY DEF IInv, Orderly, Settled, Connects, Pending, Quiet, SelectedIsStarted
<1> QED BY <1>1, Invariance, PTL

\* Only setDeviceUUID() changes the selection.
LEMMA SelectionChanges ==
  ASSUME [Next]_vars, selected' # selected
  PROVE  \E t \in Threads : SetSelected(t)
<1>1. CASE \/ /\ ListDevices \/ Added \/ Removed \/ Rest
              /\ UNCHANGED <<inputVars, loc, tangled, crashed>>
           \/ \E u \in Udids : DidAddDevice(u) \/ DidRemoveDevice(u)
           \/ ClearController \/ DidUpdateDeviceList
  BY <1>1 DEF inputVars, DidAddDevice, DidRemoveDevice, ClearController, DidUpdateDeviceList
<1>2. ASSUME NEW t \in ObsThreads,
             Update(t) \/ UpdateOption(t) \/ Reconnect(t) \/ \E b \in BOOLEAN : SetActive(t, b)
      PROVE  FALSE
  BY <1>2 DEF Update, UpdateOption, Reconnect, SetActive, inputVars
<1>4. ASSUME NEW t \in ObsThreads, Delete(t) \/ DestroyMembers(t) PROVE FALSE
  BY <1>4 DEF Delete, DestroyMembers, inputVars
<1>3. ASSUME NEW t \in Threads, CallStep(t) \/ Return(t) \/ CallsNull(t)
      PROVE  SetSelected(t)
  <2>1. CallKinds(t)
    BY <1>3 DEF CallStep, CallKinds, Return, CallsNull, inputVars
  <2> QED BY <2>1 DEF CallKinds, inputVars, SetLast, Compare, Branch, Visit, Visited,
                      DisconnectOne, ShouldConnect, LookForTarget, Apply
<1> QED BY <1>1, <1>2, <1>3, <1>4, StepKinds DEF vars, inputVars

\* The manager never takes the source away from a phone that was chosen.
THEOREM ChoiceKept == Spec => KeepsChoice
<1>1. ASSUME IInv, [Next]_vars, tangled = "no", pc[Manager] = "select", selected' # selected
      PROVE  selected = NoDevice
  <2>1. PICK t \in Threads : SetSelected(t)
    BY <1>1, SelectionChanges
  <2>2. InCall(t) /\ InCall(Manager) /\ Manager \in Threads
    BY <1>1, <2>1, CameraFacts DEF InCall, CallPCs, SetSelected
  <2>3. t = Manager /\ InOrder(Manager)
    BY <1>1, <2>2 DEF IInv, Orderly
  <2>4. selected = NoDevice \/ loc[Manager].uuid = selected
    BY <1>1, <2>3 DEF InOrder, Selecting
  <2> QED BY <1>1, <2>1, <2>3, <2>4 DEF SetSelected
<1>2. IInv /\ [Next]_vars =>
        [tangled = "no" /\ pc[Manager] = "select" /\ selected' # selected
           => selected = NoDevice]_vars
  BY <1>1
<1> QED BY <1>2, Invariance, PTL DEF Spec, KeepsChoice
=============================================================================
