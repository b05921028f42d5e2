SPECIFICATION Spec
CONSTANTS
  Callers = {c1, c2}
  Instants = {t1}
  Opinions = {x}
  Labels = {up}
  MaxRevision = 0
  MaxLog = 3
PROPERTIES
  LeavingActiveIsFinal
CHECK_DEADLOCK FALSE
