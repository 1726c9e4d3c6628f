\* Two users who may use the same e-mail address and telephone number in both
\* of its forms, and two sessions.  No deadlock check: the five requests get
\* used up.
SPECIFICATION Spec
CONSTANTS
    u1 = u1
    u2 = u2
    s1 = s1
    s2 = s2
    Users = {u1, u2}
    Emails = {ann}
    Numbers = {number}
    Spellings = {"234", "0"}
    Sessions = {s1, s2}
    NoRow = NoRow
    NoPhone = NoPhone
    NoJob = NoJob
    Offered <- Operations
    MaxSecrets = 6
    MaxRequests = 5
SYMMETRY MCSymmetry
INVARIANTS
    SecretsStayVoid
    PhoneNamesOneAccount
PROPERTY
    AccessIsGranted
CHECK_DEADLOCK FALSE
