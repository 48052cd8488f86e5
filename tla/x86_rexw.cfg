SPECIFICATION Spec
CONSTANTS
  MaxInstructionSize = 15
  CallModes = {64}
  Leads <- ShapeLeads
  Unread <- AfterLead
  Sent = 9
INVARIANTS
  RexWTakesPrecedence
CHECK_DEADLOCK FALSE
