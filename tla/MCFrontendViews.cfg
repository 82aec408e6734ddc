SPECIFICATION Spec
CONSTANTS
    c1 = c1
    c2 = c2
    o1 = o1
    o2 = o2
    ListedChats = {c1, c2}
    NoListed = NoListed
    Queries = {"q"}
    PageSize = 1
    MaxListed = 2
    ChunkPages = 2
    StopPolls = 2
    StatusPolls = 2
    Owners = {o1, o2}
    NoOwner = NoOwner
    Tools <- MCTools
    MaxProposed = 3
    Calendars <- MCCalendars
    Models = {"m1", "m2"}
    Selections = {0, 1, 2}
    Requests = {"r1", "r2"}
    ExportChats = {1, 2, 3, 4}
    Workers = 2
    MaxArchive = 3
    ArchiveText = 4
    MaxPrompts = 2
    PromptTabs = {1, 2}
    Views = {"chats", "documents", "settings", "panels", "approval", "admin", "metrics", "filechat", "runs", "export", "templates", "prompts"}
    Acts <- MCActs
    Tasks <- MCTasks
INVARIANTS TypeOK ListedOnce SentOnce UpToDateIsTrue LateAnswersAreIgnored ApprovedAsShown
PROPERTIES ChunksFollowTheList EditsSurviveSaves PricesAreKept
CHECK_DEADLOCK FALSE
