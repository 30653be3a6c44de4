SPECIFICATION HSpec
CONSTANTS
    User = {root, ann, bob}
    Root = root
    Password = {p1}
    Sentinel = locked
    Session = {s1, s2}
    Token = {t1}
    Invitation = {i1}
    Nobody = nobody
    Request = {r1, r2}
    MaxCredentials = 2
SYMMETRY Symmetry
CONSTRAINT Bounded
INVARIANTS
    AdminAlwaysLeft
    EarlierSessionsEnd
PROPERTIES
    AccessKept
    InvitationOnce
