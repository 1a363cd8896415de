CONSTANTS
    Calls = {r1, r2, r3, r4}
    Clients = {c1, c2}
    Env = env
    Accounts = {a1, a2}
    Routes = {"login", "forgotPassword", "refresh"}
    SharedSecret = TRUE
    Production = TRUE
    ClientPoints = 3
    ClientDuration = 2
    Points <- OnePoint
    Duration <- Windows
    BlockDuration <- Blocks
    MaxSecrets = 2
    MaxTime = 3
    MaxLives = 1
    MaxFaults = 1
    Digits = {"0", "9"}
    At = "@"
    Space = " "
    Separators = {" ", "+"}
    Lower <- Lowered
    PHONE_KEY_LENGTH = 3
    MIN_DIGITS = 2
    Absent = absent
    Characters = {"0", "9", " ", "+", "/", "@", "A", "a"}
    MaxLength = 4
    Values <- Written
SPECIFICATION GateSpec
CONSTRAINT GateScenarios
INVARIANTS
    TypeOK
    QuotaHolds
    BlockHolds
    OwnQuotaOnly
    DeadSecretOpensNothing
    NumbersAgree
    CountedWhereItTries
PROPERTIES
    LiveSecretIsNotRefused
SYMMETRY Symmetry
