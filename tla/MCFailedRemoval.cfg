\* The last statement of a deletion raises.
SPECIFICATION Spec
CONSTANTS
  alice = alice
  bob = bob
  shared = shared
  own = own
  Subjects <- MCSubjects
  AppleSubjects <- MCSubjects
  Nobody = Nobody
  Tokens = {t1, t2, t3}
  Nonces = {}
  Convs <- MCConvs
  NamedFor <- MCNamedFor
  Devices = {d1}
INVARIANTS
  FailedRemovalKeepsSession
