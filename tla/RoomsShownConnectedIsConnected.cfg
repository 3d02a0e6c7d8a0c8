\* The code against what private-rooms.md says.
SPECIFICATION Spec
CONSTANTS
    u1 = u1  u2 = u2  u3 = u3
    s1 = s1  s2 = s2  s3 = s3  t1 = t1
    Users = {u1, u2}
    Sockets = {s1, s2}
    Owner <- MCOwner
    PublicRooms = {}
    PrivateRooms = {11}
    Names = {"arena"}
    NameOf <- MCNameOf
    MinPlayers = 2
    MaxPlayers = 2
    Stamps = {1}
    MaxInFlight = 2
    RedisFaults = FALSE
    NoUser = NoUser
    NoRoom = NoRoom
    NoSocket = NoSocket
INVARIANTS ShownConnectedIsConnected
