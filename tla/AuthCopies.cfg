SPECIFICATION Spec
CONSTANTS
  Tasks = {t1, t2}
  Loop = Loop
  Uids = {u1, u2}
  NoSession = NoSession
  MaxGen = 1
SYMMETRY Symmetry
INVARIANTS
  TypeOK
  VerifiedOnly
  KeyringCanRefresh
PROPERTIES
  KeyringNeverGoesBack
