\* More users than a private room takes, all checking its password at once.
SPECIFICATION Spec
CONSTANTS
    u1 = u1  u2 = u2  u3 = u3
    s1 = s1  s2 = s2  s3 = s3  t1 = t1
    Users = {u1, u2, u3}
    Sockets = {s1, s2, s3}
    Owner <- MCOwner
    PublicRooms = {}
    PrivateRooms = {11}
    Names = {"arena"}
    NameOf <- MCNameOf
    MinPlayers = 2
    MaxPlayers = 2
    Stamps = {1}
    MaxInFlight = 1
    RedisFaults = FALSE
    NoUser = NoUser
    NoRoom = NoRoom
    NoSocket = NoSocket
SYMMETRY MCSymmetry
INVARIANTS TypeOK CapacityRespected
