SPECIFICATION InviteSpec
CONSTANTS
    owner = owner
    guest = guest
    Addresses = {owner, guest}
    Founder = owner
    Invites = {i1, i2}
    Visits = {r1, r2}
    MaxOps = 6
INVARIANTS AcceptedJoined
PROPERTIES AdmittedWhilePending
CHECK_DEADLOCK FALSE
