\* One user and one campaign that comes, goes and changes, two sessions.
SPECIFICATION FairSpec
CONSTANTS
    u1 = u1
    c1 = c1
    s1 = s1
    s2 = s2
    Users = {u1}
    Campaigns = {c1}
    Sessions = {s1, s2}
    NoJob = NoJob
    Gone = Gone
    Deeds <- MCDeeds
    Targets = {1}
    MaxDeeds = 1
    MaxClock = 2
    MaxGrants = 1
    MaxAborts = 1
INVARIANT
    RewardsAreRecorded
PROPERTY
    ShownIsRewarded
