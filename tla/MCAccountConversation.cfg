\* An account's own conversation beside an ordinary one: an erasure of several
\* conversations at once, only one of which is logged.
SPECIFICATION Spec
CONSTANTS
  c1 = c1
  u1 = u1
  s1 = s1
  s2 = s2
  t1 = t1
  t2 = t2
  Convs = {c1, u1}
  Subjects = {s1}
  Nobody = Nobody
  Turns = {t1}
  NamedFor <- WithAccountConversation
  Evictable = {}
  HistoryCap = 4
  MaxClaims = 1
  MaxSeq = 1
ACTION_CONSTRAINT KeepsStateRow
INVARIANTS
  CurrentClaimsStand
  AccountConversationIsItsAccounts
PROPERTIES
  AuthoritySpec
