\* Two channels and the patterns that match them; any nesting of the calls; the application may stop.
SPECIFICATION FairSpec
CONSTANTS
  a = a
  b = b
  None = None
  Names = {a, b}
  MaxCalls = 4
  MaxMessages = 2
  MaxFaults = 1
INVARIANTS TypeOK SubscriptionsMirrored
PROPERTIES Delivered LoopsReturn
CHECK_DEADLOCK FALSE
