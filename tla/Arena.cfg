\* Rounds of three tanks, one of which leaves; a weapon and its power-ups; the zone;
\* collisions on a grid; a client: its input, what it is sent, draws and plays.
SPECIFICATION ArenaSpec
CONSTANTS
    Tanks = {1, 2, 3}
    NoTank = NoTank
    MaxHp = 2
    ShieldHp = 1
    ShieldTime = 1
    ShieldCooldown = 1
    RegenDelay = 1
    RegenParts = 1
    ZoneParts = 2
    Parts = 2
    Window = 2
    Damage <- MCDamage
    Schedule <- MCSchedule
    Loadout <- MCLoadout
    RoundZone <- MCZone
    MapReach = 8
    MaxShots = 2
    MaxTicks = 3
    Leavers = {2}
    Shielders = {1}
    Stats <- MCStats
    Duration <- MCDuration
    LaserShots = 2
    MaxNow = 20
    RoundSizes = {4, 8, 16}
    Coverings = {800, 1300}
    ZoneUnit = 5000
    ZoneSteps = 110
    Box <- MCBox
    ShotRadius = 2
    TankRadius = 4
    Grid = {0,1,2,3,4,5,6,7,8,9,10,11,12,13,14,15,16,17,18,19,20}
    Strides <- MCStrides
    Type <- MCCover
    Hp <- MCCoverHp
    Kind <- MCKind
    PowerUps = {"u1"}
    PowerUpLimit = 1
    BeamDamage = 1
    ShotDamage = 1
    Pierces = 1
    PlayersEvery = 2
    WatchersEvery = 3
    StreamTicks = 3
    MaxQueue = 2
    Nothing = Nothing
    Fingers = {1, 2}
    Areas = {"settings", "fire", "move"}
    Keys = {"w"}
    Nobody = Nobody
    Players <- MCPlayers
    Viewer = "me"
    MaxJoins = 2
    RenderDelay = 2
    BufferMax = 3
    MaxAge = 6
    Shields = {"tank"}
    Volumes = {1, 2}
    MaxSounds = 2
    MaxChanges = 1
    Recoveries = {1, 2}
    Drivers = {1, 2}
    Length = 1100
    StartPlaces = {510, 590}
    Walls <- MCWalls
    Spots = {18, 290, 300, 450, 780, 910, 1082}
    Paces <- MCPaces
    Rules <- MCRules
    Extents = {0, 1, 2}
INVARIANTS RoundAddsUp NeverJammed CollisionsHold ClientAgrees ControlsLetGo SceneAgrees SoundsAreHeard
PROPERTIES ZoneOnlyCloses PictureAdvances
CHECK_DEADLOCK FALSE
