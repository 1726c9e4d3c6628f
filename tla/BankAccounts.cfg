\* Two users, one of whose e-mail addresses is written in capitals, one
\* telephone number, two sessions, two accounts the provider may open.  No
\* deadlock check: the three requests get used up.
SPECIFICATION FairBankSpec
CONSTANTS
    u1 = u1
    u2 = u2
    s1 = s1
    s2 = s2
    Users = {u1, u2}
    Emails = {ann, ben}
    Capitals = {ben}
    Numbers = {number}
    Spellings = {"234"}
    Sessions = {s1, s2}
    NoRow = NoRow
    NoPhone = NoPhone
    NoJob = NoJob
    NoCall = NoCall
    Offered <- MCOffered
    MaxSecrets = 4
    MaxRequests = 3
    MaxOpened = 2
INVARIANT
    HolderIsCredited
PROPERTY
    AccountIsShownAgain
CHECK_DEADLOCK FALSE
