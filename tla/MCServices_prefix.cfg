SPECIFICATION Spec
CONSTANTS
    None = None
    SchemasNames = {"a", "b", "home"}
    SchemasHomeName = "home"
    SchemasBuiltinKey <- MCSchemasBuiltinKey
    SchemasHomeKey = "kh"
    SchemasKeys = {"ka", "kh", "k1", "k2"}
    SchemasDefs = {"builtin", "old", "new", "d1", "d2"}
    SchemasBuiltin = "builtin"
    SchemasOldHome = "old"
    SchemasNewHome = "new"
    SchemasRefs <- MCSchemasRefs
    SchemasIds <- MCSchemasIds
    SchemasBootFS <- MCSchemasBootFS
    SchemasExtFS <- MCSchemasExtFS
    SchemasBodies <- MCSchemasBodies
    SchemasSavers = {"p1", "p2"}
    SchemasMaxOps = 2
    SchemasMaxFaults = 1
    SeedsEntries <- MCSeedsEntries
    SeedsMaxCopies = 2
    SeedsMaxStarts = 3
    ExtensionsFiles = {1, 2}
    ExtensionsIdOf <- MCExtensionsIdOf
    ExtensionsAdmins = {"a1"}
    ExtensionsMaxVersion = 2
    ExtensionsClosed = "closed"
    AccountsPhones = {"a"}
    AccountsTypes = {"wa", "tg"}
    AccountsWhatsApp = "wa"
    AccountsProcs = {"p1", "p2"}
    AccountsMaxUsers = 2
    AccountsMaxFaults = 1
    MessagesChannels = {"c1", "c2", "c3"}
    MessagesVerified = {"c1", "c2"}
    MessagesPreferred = {"c1", "c2", "c3"}
    MessagesEnabled = {"c1", "c3"}
    MessagesSenders = {"s1", "s2"}
    MessagesMaxFaults = 1
    MessagesMaxInbound = 1
    AccessEntity = "E"
    AccessOwner = "O"
    AccessLink = "f0"
    AccessLevel <- MCAccessLevel
    AccessLooks <- MCAccessLooks
    AccessExtra = {}
    AccessValues = {1}
    AccessBodies <- MCAccessBodies
    AccessIds = {1}
    AccessPermRows <- MCAccessPermRows
    AccessUserPermRows <- MCAccessUserPermRows
    AccessRoles <- MCAccessRoles
    AccessProcs = {"p"}
    AccessMaxFaults = 1
    AccessMaxChanges = 1
    AccessMaxRequests = 3
    DriversKeys = {1, 2}
    DriversFields = {"f"}
    DriversValues <- MCDriversValues
    DriversTextRank <- MCDriversTextRank
    DriversCollation <- MCDriversCollation
    DriversNumRank <- MCDriversNumRank
    DriversFilters <- MCDriversFilters
    DriversLimits = {1}
    DriversMaxRevision = 2
    NoticesUsers = {"u", "v"}
    NoticesNotes = {"n1", "n2"}
    NoticesComments = {"c"}
    NoticesProducts = {"x"}
    NoticesPrices = {1}
    NoticesProcs = {"p", "q"}
    NoticesMaxRequests = 3
    NoticesMaxFaults = 1
    RouterSubs <- MCRouterSubs
    RouterExts = {"x", "y"}
    RouterUsers = {"guest"}
    RouterPeers = {}
    RouterInputs <- MCRouterInputs
    RouterClassifies = FALSE
    RouterProcs = {"p", "q"}
    RouterMaxMessages = 2
    RouterMaxFaults = 1
    RouterMaxChanges = 1
    TempFiles <- MCTempFiles
    TempPathOf <- MCTempPathOf
    TempStarts <- MCTempStarts
    TempTTL <- MCTempTTL
    TempRole <- MCTempRole
    TempRoles <- MCTempRoles
    TempProcs = {"p", "q"}
    TempMaxClock = 3
    TempMaxFaults = 1
PROPERTIES CleansItsPathOnly
CHECK_DEADLOCK FALSE
