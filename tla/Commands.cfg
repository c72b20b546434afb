\* Every method called on both clients, its command built, answered and read.
SPECIFICATION Spec
CONSTANTS
  SlotOf <- MCSlotOf
  BareSlotOf <- MCBareSlotOf
  Node = 1
  Calls <- MCCalls
  NullMbulkAsNull = TRUE
INVARIANTS
  KeysArrive ArgumentsInPlace Serialized ReadonlyMeansRead WholeReplyRead SameAnswer OneResultPerCommand
