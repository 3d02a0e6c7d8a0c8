\* A private room of three, with Redis rejecting commands: the role passes on.
SPECIFICATION Spec
CONSTANTS
    u1 = u1  u2 = u2  u3 = u3
    s1 = s1  s2 = s2  s3 = s3  t1 = t1
    Users = {u1, u2, u3}
    Sockets = {s1, s2, s3}
    Owner <- MCOwner
    PublicRooms = {}
    PrivateRooms = {11}
    Names = {"arena"}
    NameOf <- MCNameOf
    MinPlayers = 2
    MaxPlayers = 3
    Stamps = {1}
    MaxInFlight = 1
    RedisFaults = TRUE
    NoUser = NoUser
    NoRoom = NoRoom
    NoSocket = NoSocket
SYMMETRY MCSymmetry
INVARIANTS AdminIsMember
PROPERTIES AdminPassesToOldest
