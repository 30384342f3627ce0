------------------------------ MODULE Services ------------------------------
(***************************************************************************)
(* The services around the core, each a module of its own, side by side.   *)
(* They share no state, so a behaviour is one of one part: Init chooses    *)
(* it, the variables of the others keep the value None, and every property *)
(* is that of the part that runs.  Constants and variables are those of    *)
(* the parts, where they are explained, under names of their own.          *)
(***************************************************************************)
EXTENDS Integers, Sequences, FiniteSets

CONSTANTS
    None,
    SchemasNames, SchemasHomeName, SchemasBuiltinKey, SchemasHomeKey, SchemasKeys, SchemasDefs,
    SchemasBuiltin, SchemasOldHome, SchemasNewHome, SchemasRefs, SchemasIds, SchemasBootFS,
    SchemasExtFS, SchemasBodies, SchemasSavers, SchemasMaxOps, SchemasMaxFaults,
    SeedsEntries, SeedsMaxCopies, SeedsMaxStarts,
    ExtensionsFiles, ExtensionsIdOf, ExtensionsAdmins, ExtensionsMaxVersion, ExtensionsClosed,
    AccountsPhones, AccountsTypes, AccountsWhatsApp, AccountsProcs, AccountsMaxUsers,
    AccountsMaxFaults,
    MessagesChannels, MessagesVerified, MessagesPreferred, MessagesEnabled, MessagesSenders,
    MessagesMaxFaults, MessagesMaxInbound,
    AccessEntity, AccessOwner, AccessLink, AccessLevel, AccessLooks, AccessExtra, AccessValues,
    AccessBodies, AccessIds, AccessPermRows, AccessUserPermRows, AccessRoles, AccessProcs,
    AccessMaxFaults, AccessMaxChanges, AccessMaxRequests,
    DriversKeys, DriversFields, DriversValues, DriversTextRank, DriversCollation, DriversNumRank,
    DriversFilters, DriversLimits, DriversMaxRevision,
    NoticesUsers, NoticesNotes, NoticesComments, NoticesProducts, NoticesPrices, NoticesProcs,
    NoticesMaxRequests, NoticesMaxFaults,
    RouterSubs, RouterExts, RouterUsers, RouterPeers, RouterInputs, RouterClassifies,
    RouterProcs, RouterMaxMessages, RouterMaxFaults, RouterMaxChanges,
    TempFiles, TempPathOf, TempStarts, TempTTL, TempRole, TempRoles, TempProcs, TempMaxClock,
    TempMaxFaults

VARIABLES
    part,
    schemasRows, schemasOp, schemasPhase, schemasLoad, schemasDrawn, schemasSure,
    seedsCopies, seedsOwn, seedsPos, seedsEmptied, seedsStarts,
    extensionsDir, extensionsTable, extensionsWatcher, extensionsEvent, extensionsMount,
    extensionsTools, extensionsGrants, extensionsVault, extensionsVersion, extensionsUnseen,
    accountsUsers, accountsChannels, accountsOtp, accountsReq, accountsTokens, accountsDrawn,
    accountsFaults, accountsRisk,
    messagesLog, messagesAccepted, messagesSend, messagesInbound, messagesReceived,
    messagesFiles, messagesRecorded, messagesFaults, messagesSpoiled,
    accessPerms, accessUserPerms, accessTable, accessReq, accessFaults, accessChanges,
    accessRequests,
    driversStore,
    noticesNotes, noticesComments, noticesAudit, noticesPrice, noticesCheckouts, noticesReq,
    noticesRequests, noticesFaults, noticesAsked, noticesCleared,
    routerRunning, routerAllowed, routerSessions, routerNewest, routerReq, routerMessages,
    routerFaults, routerChanges, routerAsked,
    tempStore, tempClock, tempFiles, tempReq, tempFaults

schemasVars ==
    <<schemasRows, schemasOp, schemasPhase, schemasLoad, schemasDrawn, schemasSure>>
seedsVars == <<seedsCopies, seedsOwn, seedsPos, seedsEmptied, seedsStarts>>
extensionsVars ==
    <<extensionsDir, extensionsTable, extensionsWatcher, extensionsEvent, extensionsMount,
      extensionsTools, extensionsGrants, extensionsVault, extensionsVersion,
      extensionsUnseen>>
accountsVars ==
    <<accountsUsers, accountsChannels, accountsOtp, accountsReq, accountsTokens,
      accountsDrawn, accountsFaults, accountsRisk>>
messagesVars ==
    <<messagesLog, messagesAccepted, messagesSend, messagesInbound, messagesReceived,
      messagesFiles, messagesRecorded, messagesFaults, messagesSpoiled>>
accessVars ==
    <<accessPerms, accessUserPerms, accessTable, accessReq, accessFaults, accessChanges,
      accessRequests>>
driversVars == <<driversStore>>
noticesVars ==
    <<noticesNotes, noticesComments, noticesAudit, noticesPrice, noticesCheckouts,
      noticesReq, noticesRequests, noticesFaults, noticesAsked, noticesCleared>>
routerVars ==
    <<routerRunning, routerAllowed, routerSessions, routerNewest, routerReq, routerMessages,
      routerFaults, routerChanges, routerAsked>>
tempVars == <<tempStore, tempClock, tempFiles, tempReq, tempFaults>>

S == INSTANCE Schemas WITH
    Names <- SchemasNames, HomeName <- SchemasHomeName, BuiltinKey <- SchemasBuiltinKey,
    HomeKey <- SchemasHomeKey, Keys <- SchemasKeys, Defs <- SchemasDefs,
    Builtin <- SchemasBuiltin, OldHome <- SchemasOldHome, NewHome <- SchemasNewHome,
    Refs <- SchemasRefs, Ids <- SchemasIds, BootFS <- SchemasBootFS, ExtFS <- SchemasExtFS,
    Bodies <- SchemasBodies, Savers <- SchemasSavers, MaxOps <- SchemasMaxOps,
    MaxFaults <- SchemasMaxFaults,
    None <- None,
    rows <- schemasRows, op <- schemasOp, phase <- schemasPhase, load <- schemasLoad,
    drawn <- schemasDrawn, sure <- schemasSure

D == INSTANCE SeedData WITH
    Entries <- SeedsEntries, MaxCopies <- SeedsMaxCopies, MaxStarts <- SeedsMaxStarts,
    copies <- seedsCopies, own <- seedsOwn, pos <- seedsPos, emptied <- seedsEmptied,
    starts <- seedsStarts

E == INSTANCE Extensions WITH
    Files <- ExtensionsFiles, IdOf <- ExtensionsIdOf, Admins <- ExtensionsAdmins,
    MaxVersion <- ExtensionsMaxVersion, Closed <- ExtensionsClosed,
    None <- None,
    dir <- extensionsDir, table <- extensionsTable, watcher <- extensionsWatcher,
    event <- extensionsEvent, mount <- extensionsMount, tools <- extensionsTools,
    grants <- extensionsGrants, vault <- extensionsVault, version <- extensionsVersion,
    unseen <- extensionsUnseen

A == INSTANCE Accounts WITH
    Phones <- AccountsPhones, Types <- AccountsTypes, WhatsApp <- AccountsWhatsApp,
    Procs <- AccountsProcs, MaxUsers <- AccountsMaxUsers, MaxFaults <- AccountsMaxFaults,
    None <- None,
    users <- accountsUsers, channels <- accountsChannels, otp <- accountsOtp,
    req <- accountsReq, tokens <- accountsTokens, drawn <- accountsDrawn,
    faults <- accountsFaults, risk <- accountsRisk

M == INSTANCE Messaging WITH
    Channels <- MessagesChannels, Verified <- MessagesVerified, Preferred <- MessagesPreferred,
    Enabled <- MessagesEnabled, Senders <- MessagesSenders, MaxFaults <- MessagesMaxFaults,
    MaxInbound <- MessagesMaxInbound,
    None <- None,
    log <- messagesLog, accepted <- messagesAccepted, send <- messagesSend,
    inbound <- messagesInbound, received <- messagesReceived, files <- messagesFiles,
    recorded <- messagesRecorded, faults <- messagesFaults, spoiled <- messagesSpoiled

C == INSTANCE Access WITH
    Entity <- AccessEntity, Owner <- AccessOwner, Link <- AccessLink, Level <- AccessLevel,
    Looks <- AccessLooks, Extra <- AccessExtra, Values <- AccessValues, Bodies <- AccessBodies,
    Ids <- AccessIds, PermRows <- AccessPermRows, UserPermRows <- AccessUserPermRows,
    Roles <- AccessRoles, Procs <- AccessProcs, MaxFaults <- AccessMaxFaults,
    MaxChanges <- AccessMaxChanges, MaxRequests <- AccessMaxRequests,
    None <- None,
    perms <- accessPerms, userPerms <- accessUserPerms, table <- accessTable, req <- accessReq,
    faults <- accessFaults, changes <- accessChanges, requests <- accessRequests

R == INSTANCE Drivers WITH
    Keys <- DriversKeys, Fields <- DriversFields, Values <- DriversValues,
    TextRank <- DriversTextRank, Collation <- DriversCollation, NumRank <- DriversNumRank,
    Filters <- DriversFilters,
    Limits <- DriversLimits, MaxRevision <- DriversMaxRevision,
    None <- None,
    store <- driversStore

N == INSTANCE Notices WITH
    Users <- NoticesUsers, Notes <- NoticesNotes, Comments <- NoticesComments,
    Products <- NoticesProducts, Prices <- NoticesPrices, Procs <- NoticesProcs,
    MaxRequests <- NoticesMaxRequests, MaxFaults <- NoticesMaxFaults,
    None <- None,
    notes <- noticesNotes, comments <- noticesComments, audit <- noticesAudit,
    price <- noticesPrice, checkouts <- noticesCheckouts, req <- noticesReq,
    requests <- noticesRequests, faults <- noticesFaults, asked <- noticesAsked,
    cleared <- noticesCleared

T == INSTANCE Router WITH
    Subs <- RouterSubs, Exts <- RouterExts, Users <- RouterUsers, Peers <- RouterPeers,
    Inputs <- RouterInputs, Classifies <- RouterClassifies, Procs <- RouterProcs,
    MaxMessages <- RouterMaxMessages, MaxFaults <- RouterMaxFaults,
    MaxChanges <- RouterMaxChanges,
    None <- None,
    running <- routerRunning, allowed <- routerAllowed, sessions <- routerSessions,
    newest <- routerNewest, req <- routerReq, messages <- routerMessages,
    faults <- routerFaults, changes <- routerChanges, asked <- routerAsked

F == INSTANCE TempAccess WITH
    Files <- TempFiles, PathOf <- TempPathOf, Starts <- TempStarts, TTL <- TempTTL,
    Role <- TempRole, Roles <- TempRoles, Procs <- TempProcs, MaxClock <- TempMaxClock,
    MaxFaults <- TempMaxFaults,
    None <- None,
    store <- tempStore, clock <- tempClock, files <- tempFiles, req <- tempReq,
    faults <- tempFaults

\* What the parts assume of their constants.
ASSUME ServicesAssumption ==
    /\ C!AccessAssumption /\ N!NoticesAssumption /\ D!SeedDataAssumption
    /\ M!MessagingAssumption /\ A!AccountsAssumption /\ F!TempAccessAssumption
    /\ S!SchemasAssumption /\ E!ExtensionsAssumption /\ T!RouterAssumption
    /\ R!DriversAssumption

-----------------------------------------------------------------------------
\* A part that does not run.
schemasRest ==
    /\ schemasRows = None /\ schemasOp = None /\ schemasPhase = None /\ schemasLoad = None
    /\ schemasDrawn = None /\ schemasSure = None

seedsRest ==
    /\ seedsCopies = None /\ seedsOwn = None /\ seedsPos = None /\ seedsEmptied = None
    /\ seedsStarts = None

extensionsRest ==
    /\ extensionsDir = None /\ extensionsTable = None /\ extensionsWatcher = None
    /\ extensionsEvent = None /\ extensionsMount = None /\ extensionsTools = None
    /\ extensionsGrants = None /\ extensionsVault = None /\ extensionsVersion = None
    /\ extensionsUnseen = None

accountsRest ==
    /\ accountsUsers = None /\ accountsChannels = None /\ accountsOtp = None /\ accountsReq = None
    /\ accountsTokens = None /\ accountsDrawn = None /\ accountsFaults = None /\ accountsRisk = None

messagesRest ==
    /\ messagesLog = None /\ messagesAccepted = None /\ messagesSend = None
    /\ messagesInbound = None
    /\ messagesReceived = None /\ messagesFiles = None /\ messagesRecorded = None
    /\ messagesFaults = None /\ messagesSpoiled = None

accessRest ==
    /\ accessPerms = None /\ accessUserPerms = None /\ accessTable = None /\ accessReq = None
    /\ accessFaults = None /\ accessChanges = None /\ accessRequests = None

driversRest ==
    /\ driversStore = None

noticesRest ==
    /\ noticesNotes = None /\ noticesComments = None /\ noticesAudit = None /\ noticesPrice = None
    /\ noticesCheckouts = None /\ noticesReq = None /\ noticesRequests = None
    /\ noticesFaults = None
    /\ noticesAsked = None /\ noticesCleared = None

routerRest ==
    /\ routerRunning = None /\ routerAllowed = None /\ routerSessions = None /\ routerNewest = None
    /\ routerReq = None /\ routerMessages = None /\ routerFaults = None /\ routerChanges = None
    /\ routerAsked = None

tempRest ==
    /\ tempStore = None /\ tempClock = None /\ tempFiles = None /\ tempReq = None
    /\ tempFaults = None

Init ==
    \/ /\ part = "schemas" /\ S!Init
       /\ seedsRest /\ extensionsRest /\ accountsRest /\ messagesRest
       /\ accessRest /\ driversRest /\ noticesRest /\ routerRest /\ tempRest
    \/ /\ part = "seeds" /\ D!Init
       /\ schemasRest /\ extensionsRest /\ accountsRest /\ messagesRest
       /\ accessRest /\ driversRest /\ noticesRest /\ routerRest /\ tempRest
    \/ /\ part = "extensions" /\ E!Init
       /\ schemasRest /\ seedsRest /\ accountsRest /\ messagesRest
       /\ accessRest /\ driversRest /\ noticesRest /\ routerRest /\ tempRest
    \/ /\ part = "accounts" /\ A!Init
       /\ schemasRest /\ seedsRest /\ extensionsRest /\ messagesRest
       /\ accessRest /\ driversRest /\ noticesRest /\ routerRest /\ tempRest
    \/ /\ part = "messages" /\ M!Init
       /\ schemasRest /\ seedsRest /\ extensionsRest /\ accountsRest
       /\ accessRest /\ driversRest /\ noticesRest /\ routerRest /\ tempRest
    \/ /\ part = "access" /\ C!Init
       /\ schemasRest /\ seedsRest /\ extensionsRest /\ accountsRest
       /\ messagesRest /\ driversRest /\ noticesRest /\ routerRest /\ tempRest
    \/ /\ part = "drivers" /\ R!Init
       /\ schemasRest /\ seedsRest /\ extensionsRest /\ accountsRest
       /\ messagesRest /\ accessRest /\ noticesRest /\ routerRest /\ tempRest
    \/ /\ part = "notices" /\ N!Init
       /\ schemasRest /\ seedsRest /\ extensionsRest /\ accountsRest
       /\ messagesRest /\ accessRest /\ driversRest /\ routerRest /\ tempRest
    \/ /\ part = "router" /\ T!Init
       /\ schemasRest /\ seedsRest /\ extensionsRest /\ accountsRest
       /\ messagesRest /\ accessRest /\ driversRest /\ noticesRest /\ tempRest
    \/ /\ part = "temp" /\ F!Init
       /\ schemasRest /\ seedsRest /\ extensionsRest /\ accountsRest
       /\ messagesRest /\ accessRest /\ driversRest /\ noticesRest /\ routerRest

RunSchemas ==
    /\ part = "schemas" /\ S!Next
    /\ UNCHANGED <<part, seedsVars, extensionsVars, accountsVars, messagesVars, accessVars,
                   driversVars, noticesVars, routerVars, tempVars>>

RunSeedData ==
    /\ part = "seeds" /\ D!Next
    /\ UNCHANGED <<part, schemasVars, extensionsVars, accountsVars, messagesVars,
                   accessVars, driversVars, noticesVars, routerVars, tempVars>>

RunExtensions ==
    /\ part = "extensions" /\ E!Next
    /\ UNCHANGED <<part, schemasVars, seedsVars, accountsVars, messagesVars, accessVars,
                   driversVars, noticesVars, routerVars, tempVars>>

RunAccounts ==
    /\ part = "accounts" /\ A!Next
    /\ UNCHANGED <<part, schemasVars, seedsVars, extensionsVars, messagesVars, accessVars,
                   driversVars, noticesVars, routerVars, tempVars>>

RunMessaging ==
    /\ part = "messages" /\ M!Next
    /\ UNCHANGED <<part, schemasVars, seedsVars, extensionsVars, accountsVars, accessVars,
                   driversVars, noticesVars, routerVars, tempVars>>

RunAccess ==
    /\ part = "access" /\ C!Next
    /\ UNCHANGED <<part, schemasVars, seedsVars, extensionsVars, accountsVars, messagesVars,
                   driversVars, noticesVars, routerVars, tempVars>>

RunDrivers ==
    /\ part = "drivers" /\ R!Next
    /\ UNCHANGED <<part, schemasVars, seedsVars, extensionsVars, accountsVars, messagesVars,
                   accessVars, noticesVars, routerVars, tempVars>>

RunNotices ==
    /\ part = "notices" /\ N!Next
    /\ UNCHANGED <<part, schemasVars, seedsVars, extensionsVars, accountsVars, messagesVars,
                   accessVars, driversVars, routerVars, tempVars>>

RunRouter ==
    /\ part = "router" /\ T!Next
    /\ UNCHANGED <<part, schemasVars, seedsVars, extensionsVars, accountsVars, messagesVars,
                   accessVars, driversVars, noticesVars, tempVars>>

RunTempAccess ==
    /\ part = "temp" /\ F!Next
    /\ UNCHANGED <<part, schemasVars, seedsVars, extensionsVars, accountsVars, messagesVars,
                   accessVars, driversVars, noticesVars, routerVars>>

Next == RunSchemas \/ RunSeedData \/ RunExtensions \/ RunAccounts \/ RunMessaging
        \/ RunAccess \/ RunDrivers \/ RunNotices \/ RunRouter \/ RunTempAccess

allVars ==
    <<part, schemasVars, seedsVars, extensionsVars, accountsVars, messagesVars, accessVars,
      driversVars, noticesVars, routerVars, tempVars>>

Spec == Init /\ [][Next]_allVars

\* A request that loads entities goes on until it is through; nothing else has to.
FairSpec ==
    /\ Spec
    /\ WF_allVars(/\ part = "schemas" /\ S!LoadEntity
                  /\ UNCHANGED <<part, seedsVars, extensionsVars, accountsVars,
                                messagesVars, accessVars, driversVars, noticesVars,
                                routerVars, tempVars>>)

-----------------------------------------------------------------------------
(* Properties: each is stated, with what it is about, in the part's module. *)

\* The variables of the part that runs keep their types.
ServicesTypeOK ==
    /\ part = "schemas" => S!TypeOK
    /\ part = "seeds" => D!TypeOK
    /\ part = "extensions" => E!TypeOK
    /\ part = "accounts" => A!TypeOK
    /\ part = "messages" => M!TypeOK
    /\ part = "access" => C!TypeOK
    /\ part = "drivers" => R!TypeOK
    /\ part = "notices" => N!TypeOK
    /\ part = "router" => T!TypeOK
    /\ part = "temp" => F!TypeOK

\* A setup puts in force every definition it is through with, whatever schemas
\* of the same name it met (SetupBizDefFromFS, SchemaService.Save).
MountTakesEffect == part = "schemas" => S!MountTakesEffect

\* No step of a save, failed, overtaken or cut short, leaves a name without a
\* schema (SchemaService.Save, ByNameOrDefault).
NameStaysResolvable == [][part = "schemas" => S!KeepsNames]_allVars

\* No start of the process seeds a record a second time, crashes and failed
\* inserts notwithstanding (SetupBizDefTestData).
SeededAtMostOnce == part = "seeds" => D!SeededAtMostOnce

\* A watcher at rest has the table as the archives are on disk
\* (AppExtensionService.Scan, LoadExtension).
TableIsCurrent == part = "extensions" => E!TableIsCurrent

\* Logins over a channel create one user for a phone number
\* (AuthService.LoginByChannel).
OneUserPerPhone == part = "accounts" => A!OneUserPerPhone

\* The status of an interaction agrees with what the gateway took
\* (ChannelService.sendToGateway).
StatusTellsTruth == part = "messages" => M!StatusTellsTruth

\* No request shows or stores an attribute its roles were not granted
\* (PermissionService.GetFieldPermissions, EntityService).
OnlyWhatWasGranted == part = "access" => C!OnlyWhatWasGranted

\* The five drivers of the record store find the same records and, where they order
\* texts alike, cut the same pages (List of relationdbdao).
DriversAgree == part = "drivers" => R!DriversAgree

\* Notifications are read when, and only when, their owner asked
\* (NotificationService.MarkAsRead, MarkAllAsRead).
ReadAsAsked == part = "notices" => N!ReadAsAsked

\* A number goes to the target that stood at it in the question
\* (RegisterRouterAgent).
RoutedAsShown == part = "router" => T!RoutedAsShown

\* A file with a time to live can be read as long as it lasts and not longer
\* (TempAccessService.IsExpired, CleanupExpired).
ExpiryKept == [][part = "temp" => F!ExpiryKept]_allVars

\* Loading an entity ends, whatever cycle its references form
\* (SchemaService.LoadLoadedEntity).
LoadEnds ==
    [](part = "schemas" /\ schemasLoad.pc = "run" =>
         <>(part # "schemas" \/ schemasLoad.pc # "run"))

\* Three that do not hold, for configurations to be run by hand.
\* A mounted extension's tools can be called (README.md:26).
MountedToolsRun == part = "extensions" => E!MountedToolsRun

\* A user who enrolled is known to have (core/api/auth_api.go:237).
EnrolledIsRecognised == part = "accounts" => A!EnrolledIsRecognised

\* A cleanup stays within its path (docs/temporary_file_access.md:57).
CleansItsPathOnly == [][part = "temp" => F!CleansItsPathOnly]_allVars

=============================================================================
