SPECIFICATION Spec
CONSTANTS
  Own = own
  Others = {other}
  Direct = {dmo}
  Slots = 4
  Starts <- EdgeTimes
INVARIANTS Tally LabelsFollowCell OwnBlocksRead ScheduleAgrees
