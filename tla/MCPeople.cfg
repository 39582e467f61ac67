CONSTANTS
    r1 = r1  r2 = r2  r3 = r3  r4 = r4
    u1 = u1  u2 = u2  u3 = u3  u4 = u4  a1 = a1  a2 = a2
    b1 = b1  b2 = b2  s1 = s1  s2 = s2  s3 = s3  s4 = s4  l1 = l1
    Request = {r1, r2, r3, r4}
    Scenario <- Everyone
    Nothing = Nothing
    User = {u1, u2, u3, u4, a1, a2}
    Business = {b1, b2}
    Member = {u1, u2, u3}
    Inviter <- Inviters
    AuthStart <- MCAuthStart
    AdminStart <- MCAdminStart
    SupportStart <- MCSupportStart
    PlatformStart <- MCPlatformStart
    WatchStart <- MCWatchStart
    Bucket <- MCBucket
    Today = 2
    Network = {i1, i2}
    t1 = t1  t2 = t2  n1 = n1  c1 = c1  i1 = i1  i2 = i2
SYMMETRY Symmetry
SPECIFICATION Spec
INVARIANTS
    ProvisionedOnce
    PayoutsEarned
    LinkOnce
    OldSessionsEnd
    ViewsReadOnly
    DeskSound
    SettingsHeard
    CheckedFlagged
