SPECIFICATION Spec
CONSTANTS
    Threads = {1, 2}
    Maximum = 26
    Increment = 8
    Window = 12
    MaxLag = 3
    LastValue = 4
    Radix = 4
    MaxWidth = 2
    MaxVarBinds = 2
    TimeWindow = 1
    LastBoots = 3
    Octets = 8
    Half = 4
    MaxMessageSize = 6
    Octet = 4
    FittingSteps = 3
    FittingDraws = 2
    RowScanLimit = 4
    LocalMax = 3
    Block = 2
    Chunk = 8
INVARIANTS
    IdentifiersAreUnique CorporaAnswerAsOne NamesResolve WalksAreComplete
    UsersAreAuthenticated MessagesAreMatched VersionsTranslate TransportsDeliver KeysAreAgreed
    ConfigurationIsCurrent
CHECK_DEADLOCK FALSE
