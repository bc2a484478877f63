SPECIFICATION Spec
CONSTANTS
  u = u  v = v
  None = None
  Applications = {x, y}
  Interviews = {1, 2}
  People <- MCPeople
  Panels <- MCPanels
  Slots = {1, 2}
  Workflow <- MCWorkflow
  OtherRounds = {"extra"}
  MaxChanges = 1
SYMMETRY Symmetry
INVARIANTS NoDoubleBooking FeedbackDecides EndedIsClear
PROPERTY ClosedStaysClosed
CHECK_DEADLOCK FALSE
