\* Two instances that start, stop and start again on one of four databases.
SPECIFICATION FairSpec
CONSTANTS
    i1 = i1
    i2 = i2
    Instances = {i1, i2}
    Databases <- MCDatabases
INVARIANT
    ServesWhatItNeeds
PROPERTIES
    ConfiguredAdminIsAdmin
    WorkerRecovers
