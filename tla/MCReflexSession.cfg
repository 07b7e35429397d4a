SPECIFICATION FairSpec
CONSTANTS
  MaxData = 3
  MaxControls = 1
  MaxUnits = 3
  UpLimit = 1
  SizeArgs = {0, 1}
  TimingArgs = {1, 3}
  ProfileSizes = {2}
  ProfileDelays = {0}
  Millisecond = 3
  DurationRange = 16
INVARIANTS TypeOK UplinkInOrder DownlinkInOrder CloseIsLast OverrideUsedOnce FewLatePayloads
PROPERTY SessionReleased
CHECK_DEADLOCK FALSE
