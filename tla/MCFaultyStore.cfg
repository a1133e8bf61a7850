\* One conversation and one account over a store and caches that misbehave:
\* evictions, restarts, a state row edited away while turns run.
SPECIFICATION Spec
CONSTANTS
  c1 = c1
  u1 = u1
  s1 = s1
  s2 = s2
  t1 = t1
  t2 = t2
  Convs = {c1}
  Subjects = {s1}
  Nobody = Nobody
  Turns = {t1}
  NamedFor <- NamedForNobody
  Evictable = {c1}
  HistoryCap = 2
  MaxClaims = 2
  MaxSeq = 2
INVARIANTS
  StandingClaimsAreCurrent
  NothingErasedRemains
PROPERTIES
  RefusedStaysRefused
