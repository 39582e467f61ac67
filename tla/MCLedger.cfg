SPECIFICATION MCSpec
CONSTANTS
  r1 = r1
  r2 = r2
  r3 = r3
  r4 = r4
  A = A
  B = B
  k1 = k1
  c1 = c1
  d1 = d1
  NoRow = NoRow
  NoTxn = NoTxn
  NoKey = NoKey
  NoContact = NoContact
  Free = Free
  Request = {r1, r2, r3}
  Business = {A, B}
  AdvisoryKey <- MCKeys
  Key = {k1}
  Contact = {c1, d1}
  Account <- MCAccounts
  AccountBusiness <- MCAccountBusiness
  ContactBusiness <- MCContactBusiness
  ReferralBonus <- MCReferralBonus
  Body <- RecordBodies
SYMMETRY Symmetry
INVARIANTS
  CacheCoherent
  OneTransactionPerKey
  RetriesAgree
  FallbackFindsWinner
  RecordsSound
  ReconcileFindsNothing
  FiguresBalance
PROPERTIES
  AppendOnly
  BookSpec
