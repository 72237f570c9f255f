INIT Init
NEXT Next
CONSTANTS
 None = None
 MaxWrites = 1
 Days = {1, 3, 5}
 Regular = {1,5}
 Forward = FALSE
 MaxActs = 2
INVARIANTS EveryDayKept
CHECK_DEADLOCK FALSE
