SPECIFICATION Spec
CONSTANTS
  MaxInstructionSize = 15
  CallModes = {16, 32, 64}
  Leads <- AllLeads
  Unread <- AfterLead
  Sent = 17
INVARIANTS
  TypeOK Final Prompt NoMoreThanLimit WaitMeetsItsInstruction PrefixesRead Partition
PROPERTIES
  CallsReturn
CHECK_DEADLOCK FALSE
