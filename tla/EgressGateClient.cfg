\* Two concurrent checks, every kind and target, any host.
SPECIFICATION Spec
CONSTANTS
  Checks = {c1, c2}
  NoCheck = NoCheck
INVARIANTS TypeOK NoStaleVerdict TurnDiscipline ClosedDenies
PROPERTIES ChecksReturn CloseUnblocks
CHECK_DEADLOCK FALSE
