\* Dates around the ends of years and of February, 1970 to 2101.
SPECIFICATION Spec
CONSTANTS
  Days <- MCDays
  Seconds <- MCSeconds
  Zones <- MCZones
INVARIANTS
  TypeOK
  DateIsRight
\* The function returns.
CHECK_DEADLOCK FALSE
