SPECIFICATION Spec
CONSTANTS
  obs = obs
  manager = manager
  Udids = {u1, u2}
  Handles = {h1, h2}
  NoHandle = NoHandle
  Manager = manager
  ObsThreads <- MCObsThreads
  Threads <- MCThreads
  NoDevice = NoDevice
  Unset = Unset
SYMMETRY MCSymmetry
INVARIANTS
  TypeOK
  MapFollowsList
  ManagerFindsController
  OnlySelectedStarted
  SelectedIsStarted
PROPERTIES
  KeepsChoice
CHECK_DEADLOCK FALSE
