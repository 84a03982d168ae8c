SPECIFICATION Spec
CONSTANTS
  c1 = c1
  c2 = c2
  s1 = s1
  s2 = s2
  Clients = {c1, c2}
  Mirrors <- TwoMirrors
  Nil = Nil
  Called <- EveryAndWrite
  AutoCommits = {c1}
  Fails = TRUE
  MaxCalls = 1
INVARIANTS TypeOK OKOnEveryMirror UndoneNowhere MirrorsAgree 
CHECK_DEADLOCK FALSE
