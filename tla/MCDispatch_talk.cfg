\* One handler: three messages of a conversation, idle windows elapsing, SIGTERM.
CONSTANTS
    N = 3
    Chats <- MCChats
    Allowlist <- MCAllowlist
    MsgIds = {1, 2, 3}
    Inboxes <- Conversations
    Handlers = {h1}
    MaxConcurrent = 1
    LedgerFaults = FALSE
    MaxExpired = 2
    MaxBoots = 1
    MaxCrashes = 0
SPECIFICATION Spec
INVARIANTS
    OwnConversation
    OneActive
    RefusesUnlessHealthy
PROPERTIES
    EndedStaysQuiet
    DrainLaunchesNothing
CHECK_DEADLOCK FALSE
