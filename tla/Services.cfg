\* Two workers, one daily budget, crashes and lost answers; tabs of one browser; sign-ins at
\* once; matches that end together; a small map that is edited; a user of the
\* lobby, whose connection is lost once; two requests for the colours of a tank; three sockets of
\* two users, one of them an administrator; two games of the tutorial, and two requests to save it;
\* five matches, three of which ended together, in pages of two; three samples of a board.
SPECIFICATION ServicesSpec
CONSTANTS
    r1 = r1  r2 = r2  r3 = r3  k1 = k1  k2 = k2
    Rewards = {r1, r2}
    Keys = {k1}
    KeyOf <- MCKeyOf
    Prize <- MCPrize
    DailyLimit = 2
    MaxRetries = 3
    Workers = {"a", "b"}
    Operated = {"MANUAL_REVIEW", "FAILED"}
    MaxManual = 1
    Faults = {"crash", "ack", "write"}
    NoClaim = NoClaim
    Tabs = {"t1", "t2"}
    Sids = {"s1"}
    WithSocket = {"t1"}
    WithRequest = {"t2"}
    Slots = {1}
    MaxExpired = 1
    MaxLost = 1
    Subjects = {"g1"}
    Addresses = {"w1", "w2"}
    Names = {"n1"}
    MaxUsers = 2
    Challenges = {"c1"}
    Requests = {"q1", "q2"}
    Minute = 2
    Matches = {"m1", "m2"}
    MaxClock = 3
    MaxStops = 1
    Ids = {1, 2}
    Width = 1
    Size = 1
    MinSize = 1
    PlayerRadius = 0
    HistoryLimit = 1
    Margin = 0
    NoDoc = NoDoc
    Nowhere = Nowhere
    MaxUp = 2
    MaxDown = 2
    MaxReplies = 2
    MaxEvents = 4
    Preparations = {1}
    PaintedParts = {"tracks"}
    Colors = {"red", "blue"}
    Fallback = "red"
    NoPaint = NoPaint
    MaxCalls = 2
    Sockets = {"a", "b", "c"}
    User <- MCUser
    Address <- MCAddress
    Admins = {"A"}
    Tables = {"r"}
    Aside = Aside
    MaxConnections = 1
    MaxStarts = 1
    Touch = TRUE
    MaxGames = 2
    MaxPosts = 2
    EndedAt <- MCEndedAt
    PublicOnes = {2, 3, 4, 5}
    OwnOnes = {1, 2, 3, 4}
    PageSize = 2
    SampleLimit = 2
    MaxSamples = 3
    MaxLinks = 2
    MaxOnWay = 2
INVARIANTS TypeOK LedgerBalances PaidAtMostOnce ClaimsAreExclusive RetriesRemain CookieIsCurrent UsersAgree SamplesCountedOnce EditorsAgree RoomShown SocketsAgree
PROPERTIES Pays SocketRecovers
CHECK_DEADLOCK FALSE
