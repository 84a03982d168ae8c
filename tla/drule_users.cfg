SPECIFICATION Spec
CONSTANTS
  Users = {root, u}
  RootUser = root
  Areas = {a}
  Operators = {o}
  Unids = {s1, s2}
  Workers = {w1, w2}
  Nil = Nil
  Called <- Everything
  MaxAsks = 4
SYMMETRY Symmetry
INVARIANTS TypeOK OnlyRootGrants PowersFollowOneAtATime RoutesHaveOperators
CHECK_DEADLOCK FALSE
