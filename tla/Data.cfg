CONSTANTS
    Identities = {i1}
    Passphrases = {p1, p2}
    Codes = {c1, c2}
    Credentials = {k1, k2, k3}
    Salts = {s1, s2}
    MaxSlots = 2
    Null = Null
    Refused = Refused
    Malformed = Malformed
    Work = {1, 2, 3}
    MinWork = 2
    MaxWork = 2
    Household = Household
    Unreadable = Unreadable
    g1 = g1
    g2 = g2
    FullBps = 4
    Members = {1, 2}
    GoalIds = {g1, g2}
    Holdings <- HoldingsOf
    MaxHoldings = 2
    Accounts <- AccountsOf
    Legs <- LegsOf
    Ranges <- RangesOf
    MaxLegs = 3
    Purchases <- PurchasesOf
    GrandfatherDate = 1
    MaxLots = 2
    MaxSales = 2
    MaxSold = 5
    Assets <- AssetsOf
    Debts <- DebtsOf
    MaxAssets = 2
    Lists <- ListsOf
    Now = 10
    UnitScale = 10
    PriceScale = 10
    MaxPaise = 500
    StaleAfter = 4
    Upper <- UpperOf
    Day <- DayNumber
    Rows <- FeedRows
    MaxRows = 3
    DayLength = 4
    IstOffset = 1
    ExchangeOffset <- WestOffset
    Inr = 90
    Snapshots <- SnapshotsOf
    MaxSnapshots = 3
    Calendar <- CalendarOf
    Today = 20240115
    Plans <- PlansOf
    Advised <- AdvisedOf
    Targets <- TargetsOf
    UnitPlaces = 3
    PricePlaces = 4
    MaxWhole = 99
    MaxRupees = 99
    MaxGrams = 9
    Texts <- TextsOf
    Numbers <- NumbersOf
    Builds = {"old", "new"}
    Codecs <- CodecsOf
    Writers = {1, 2}
    Values = {1, 2}
    MaxId = 3
    MaxTime = 3
    Kinds = {"mutualFund", "preciousMetal"}
    Contents = {1, 2}
    Shares = {0, 2}
    Fixeds = {3}
    Amounts = {4}
    MaxEdits = 2
    Versions <- VersionsOf
    GoalBps = 5
    GoalKinds = {"custom", "education"}
    Custom = "custom"
    Default <- DefaultOf
    GoalRates = {Null, 7, 10}
    Parts = {Null, 0, 3}
    Everyone <- Family
    MaxTyped = 4
    SharedGoals <- GoalsOf
SPECIFICATION MCSpec
CHECK_DEADLOCK FALSE
INVARIANTS
    VaultsOpen
    PricesAreTrue
    PlansHold
    NumbersAreKept
PROPERTIES
    ImplementsWaysIn
    PaisaAddUp
    NothingIsLost
    FormsSaveWhatIsShown
    
