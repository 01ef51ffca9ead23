SPECIFICATION Spec
CONSTANTS
    r1 = r1
    r2 = r2
    r3 = r3
    p1 = p1
    p2 = p2
    seedUser = seedUser
    seedUser2 = seedUser2
    newUser = newUser
    Requests = {r1, r2, r3}
    Replicas = {p1, p2}
    Users = {seedUser, seedUser2, newUser}
    SeedUsers <- TwoSeedUsers
    Backends = {"memory", "redis"}
    Synthetic = Synthetic
    Absent = Absent
SYMMETRY Symmetry
INVARIANTS
    TypeOK
    EventKept
    NewestFirst
    StoreCoherent
    ListMissesOnlyRecorded
CHECK_DEADLOCK FALSE
