SPECIFICATION FairSpec
CONSTANTS
  Trans = {t1, t2}
  Roles = {k1}
  Nil = Nil
  Absent = Absent
  Ops <- WriteReadDelete
  MaxObj = 2
  MaxCalls = 1
INVARIANTS NoUndoneFather
 
CHECK_DEADLOCK FALSE
