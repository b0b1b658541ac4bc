SPECIFICATION Spec
CONSTANTS
    Handlers = {h1, h2}
    Users = {1, 2, 3, 4}
    Tokens = {1, 2, 3}
    Links = {1, 2, 3}
    Emails = {e1, e2}
    Subjects = {s1}
    Passwords = {p1}
    None = None
    Gone = Gone
    e1 = e1
    e2 = e2
    s1 = s1
    p1 = p1
    SubjectEmail <- OneAddress
    Grace = 0
    RefreshTTL = 2
    VerifyTTL = 1
    ResetTTL = 1
    Scenarios <- AllScenarios
SYMMETRY Symmetry
INVARIANTS
    TypeOK
    RotatedOnce
    EveryAccountHasALogin
    SessionsAreVerified
    DeletionIsComplete
PROPERTIES
    DeadFamilyStaysDead
    SpentLinkIsWorthless
    ClaimDiscards
CHECK_DEADLOCK FALSE
