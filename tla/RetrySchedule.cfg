\* Policies as files give them, some with products no int32_t holds.
CONSTANTS
  IntMax = 127
  RawRetries <- MCRawRetries
SPECIFICATION ScheduleSpec
INVARIANT WaitWithinCap
PROPERTY WaitNeverShrinks
