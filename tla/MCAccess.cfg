SPECIFICATION FairSpec
CONSTANTS
    owner = owner
    member = member
    down = down
    up = up
    i1 = i1
    i2 = i2
    c1 = c1
    User = {owner, member}
    Custom = {"desk"}
    Reader = {c1}
    ReaderOf <- Readers
    Assign = {down, up}
    Actor <- Actors
    Subject <- Subjects
    Given <- Roles
    Accept = {i1, i2}
    Invited <- Invitation
    Founders = {}
    Matrix = {"agent", "pilgrim"}
    None = None
    MaxChange = 2
CHECK_DEADLOCK FALSE
INVARIANTS
    ReadsFitTogether
PROPERTIES
    AdminRemains
    ProfileCatchesUp
