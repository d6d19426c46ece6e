\* One handler, as deployed: a crash and a restart, and every exception.
CONSTANTS
    N = 2
    Chats <- MCChats
    Allowlist <- MCAllowlist
    MsgIds = {1, 2}
    Inboxes <- Pairs
    Handlers = {h1}
    MaxConcurrent = 1
    LedgerFaults = TRUE
    MaxExpired = 1
    MaxBoots = 2
    MaxCrashes = 1
SPECIFICATION Spec
INVARIANTS
    TypeOK
    AtMostOnce
    LedgerBeforeClaude
    OwnConversation
    HonestDone
    IInv
PROPERTIES
    SettledForever
    ImplementsLife
    ImplementsLifecycle
CHECK_DEADLOCK FALSE
