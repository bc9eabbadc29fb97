SPECIFICATION Spec
CONSTANTS
    EventsScopes <- EventScopes
    EventsMaxEvents = 7
    QuestionUsers = {"ann", "bob"}
    QuestionMaxRestarts = 1
    DeletionRuns = {"r1"}
    DeletionCallers = {"c1"}
    DeletionMaxRestarts = 1
    DeletionMaxVersion = 4
    DeletionMaxReviews = 3
    StorageCalls = {1, 2}
    StorageKeys = {"k1", "k2"}
    StorageDocuments = {"a", "b"}
    StorageUnsafe = {"b"}
    StorageMaxVersions = 3
    StorageMaxRequests = 3
    BoardCalls = {1, 2}
    BoardKeys = {"k", "l"}
    BoardMaxRuns = 2
    BoardMaxPos = 5
    BoardMaxStops = 1
    QueueItems = {1, 2, 3}
    QueueSource <- MCQueueSource
    QueueWork <- MCQueueWork
    QueuePriority <- MCQueuePriority
    QueueLimit = 1
    QueueUsers = {"ann"}
    QueueMaxPages = 2
    DecisionsItems = {1, 2}
    DecisionsSource <- MCDecisionsSource
    DecisionsWork <- MCDecisionsWork
    DecisionsPriority <- MCDecisionsPriority
    DecisionsLimit = 1
    DecisionsUsers = {"ann", "bob"}
    DecisionsMaxPages = 1
    DaemonDaemons = {"d1", "d2"}
    DaemonClients = {"c1", "c2"}
    DaemonMaxDeaths = 1
    SlotsRuns = {"r1", "r2"}
    SlotsNodes = {"plan"}
    SlotsEntry = "plan"
    SlotsSuccessors <- MCSlotsSuccessors
    SlotsTerminals = {"plan"}
    SlotsBuiltinNodes = {}
    SlotsLimit = 1
    SlotsMaxVisits = 1
    SlotsMaxRetries = 0
    SlotsOperations = {"cancel", "crash"}
    WritersLeaseIds = {"l1"}
    WritersScopes = {"s1"}
    WritersHolders = {"h1"}
    WritersDaemons = {"d1"}
    WritersQueueItems = {1, 2}
    WritersPriorities = {1, 2}
    WritersDuration = 1
    WritersTicksPerSecond = 2
    WritersMaxTime = 2
    WritersMaxToken = 2
    WritersEvidence = {"e1"}
    WritersOpIds = {}
    WritersObserverOutcomes = {"adopt"}
    ConfigRequests <- ConfigRequestSet
    ConfigFiles = {"user"}
    ConfigSends = {1, 2}
    ConfigMaxCrashes = 1
    ConfigMaxFailures = 1
    ConfigMaxEdits = 1
    ClientsRequests <- ClientRequestSet
    ClientsFiles = {"user"}
    ClientsSends = {1, 2}
    ClientsMaxCrashes = 0
    ClientsMaxFailures = 0
    ClientsMaxEdits = 0
    SecretRequests <- SecretRequestSet
    SecretFiles = {"secrets"}
    SecretSends = {1}
    SecretMaxCrashes = 1
    SecretMaxFailures = 0
    SecretMaxEdits = 0
    LayersScopes <- MCLayersScopes
    LayersLayers <- LayerDocuments
    FolderCallers = {"c1", "c2"}
    FolderAttemptOf <- MCFolderAttemptOf
    FolderNames = {"f"}
    FolderContents = {"x", "yy"}
    FolderSize <- MCFolderSize
    FolderKeys = {"k"}
    FolderAreaBytes = 3
    FolderAreaFiles = 2
    FolderMaxCalls = 3
    PointsPlans <- StoryPlans
    PointsTrees = {"t1", "t2"}
    PointsCallers = {"ann", "bob"}
    PointsOperations = {"o", "p"}
    PointsMaxCommits = 3
    DeliveryTrees = {"t0", "a", "b"}
    DeliveryPlan <- MCDeliveryPlan
    DeliveryMaxCrashes = 1
    DeliveryMaxLost = 1
    DeliveryMaxStray = 1
    DeliveryMaxRemote = 1
    ExecMaxFrames = 1
    ExecMaxStarts = 2
    TicketTickets = {"a", "b"}
    TicketRevisions <- MCTicketRevisions
    TicketUnfit <- MCTicketUnfit
    TicketRuns = {"r1", "r2"}
    TicketCallers = {"c1", "c2"}
    TicketMaxAge = 0
    TicketMaxTime = 2
    TicketMaxBinding = 2
    TicketMaxLineage = 2
    TicketMaxEvents = 5
    EditCallers = {"c1", "c2"}
    EditKeys = {"k1"}
    EditEdits = {"e1", "e2", "bad", "blank"}
    EditBadIds = {"bad"}
    EditUnfit = {"blank"}
    EditStates = {"open", "done"}
    EditMaxCalls = 4
INVARIANTS
    CommandsApplyOnce
    AnswersArriveOnce
    WorkIsDoneOnce
    ArtifactsAreKept
    Capacity
    ConfigurationIsTrue
PROPERTIES
    ProjectionsFollowTheLog
    NoOvertaking
    OneDaemonServes
    FilesAreWhole
    CommitsAreDelivered
    ExecAttemptIsWhole
    TicketsAreKept
CHECK_DEADLOCK FALSE
