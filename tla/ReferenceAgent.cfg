SPECIFICATION DeskSpec
CONSTANTS
  Workers = {w1, w2}
  Sessions = {c1}
  u1 = u1
  u2 = u2
  u3 = u3
  vpn = vpn
  admin = admin
  pc = pc
  Users = {u1, u2, u3}
  KnownUsers = {u1, u2}
  Software = {vpn, admin}
  Assets = {pc}
  Categories = {general}
  Restricted = {admin}
  Rank <- MCRank
  AssetOwner <- MCAssetOwner
  Messages <- MCMessages
  Hints <- MCHints
  Nobody = Nobody
  Nothing = Nothing
  testA = testA
  testB = testB
  Tests = {testA, testB}
  MaxRuns = 2
  MaxCalls = 2
  MaxRaises = 1
SYMMETRY Symmetry
INVARIANTS TypeOK DraftPrivate EffectsAuthorised OneEffectPerKey RecordsFaithful
PROPERTIES OwnerStands
