\* A public and a private room in the lobby, two tabs, two reconnection timers, Redis rejecting commands.
SPECIFICATION Spec
CONSTANTS
    u1 = u1  u2 = u2  u3 = u3
    s1 = s1  s2 = s2  s3 = s3  t1 = t1
    Users = {u1, u2}
    Sockets = {s1, s2, t1}
    Owner <- MCOwner
    PublicRooms = {1}
    PrivateRooms = {11}
    Names = {"arena"}
    NameOf <- MCNameOf
    MinPlayers = 3
    MaxPlayers = 3
    Stamps = {1, 2}
    MaxInFlight = 2
    RedisFaults = TRUE
    NoUser = NoUser
    NoRoom = NoRoom
    NoSocket = NoSocket
SYMMETRY MCTabs
INVARIANTS MembershipAgrees PresenceAgrees
PROPERTIES ReturnedMemberStays
