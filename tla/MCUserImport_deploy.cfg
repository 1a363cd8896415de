CONSTANTS
    Runners = {r1, r2, r3}
    Directory <- MCDirectory
    Things <- MCThings
    Content <- MCContent
    APP_MIGRATIONS = {"002"}
    FirstRelease = 6
    ServiceNeeds <- MCNeeds
    AccountIds <- MCAccountIds
    e1 = e1
    e2 = e2
    Emails = {e1, e2}
    provider = provider
    vendor = vendor
    customer = customer
    Rows = {customer, provider, vendor}
    Source <- MCSource
    NoAccount = noaccount
    MaxImports = 2
    MaxMoves = 2
SPECIFICATION Spec
CONSTRAINT DeployScenarios
CHECK_DEADLOCK FALSE
INVARIANTS
    TypeOK
    LedgerInOrder
    LedgerTellsSchema
    RerunsAreSafe
    ServiceFindsItsSchema
    NoLostVerification
PROPERTY
    RelinkedOnlyAfterAMove
SYMMETRY Symmetry
