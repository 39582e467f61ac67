CONSTANTS
    r1 = r1  r2 = r2  r3 = r3
    c1 = c1  c2 = c2  c3 = c3
    i1 = i1  i2 = i2  i3 = i3
    Request = {r1, r2, r3}
    Contact <- Contacts
    Old = {i1, i2, i3}
    OldRow <- OldRows
    Known = {c1, c2}
    Opening <- Openings
    Body <- Bodies
    Today = 100
    NoRow = NoRow  Nobody = Nobody  NoDue = NoDue  Free = Free
SYMMETRY Symmetry
SPECIFICATION Spec
INVARIANTS
    PaymentsFit
    StatementAgrees
    ReportsAgree
PROPERTY
    ArchiveSettled
