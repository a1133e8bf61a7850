\* Two accounts and anonymous callers on one conversation, two turns in flight.
SPECIFICATION Spec
CONSTANTS
  c1 = c1
  u1 = u1
  s1 = s1
  s2 = s2
  t1 = t1
  t2 = t2
  Convs = {c1}
  Subjects = {s1, s2}
  Nobody = Nobody
  Turns = {t1, t2}
  NamedFor <- NamedForNobody
  Evictable = {}
  HistoryCap = 3
  MaxClaims = 2
  MaxSeq = 2
ACTION_CONSTRAINT KeepsStateRow
SYMMETRY Symmetry
INVARIANTS
  AccountMemoryIsItsOwn
  CopiesMatchStore
PROPERTIES
  StartsWithItsOwnHistory
