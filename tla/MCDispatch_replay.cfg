\* db.py 351-352: a restarted daemon resumes pending messages.
CONSTANTS
    N = 1
    Chats <- MCChats
    Allowlist <- MCAllowlist
    MsgIds = {1}
    Inboxes <- Single
    Handlers = {h1}
    MaxConcurrent = 1
    LedgerFaults = FALSE
    MaxExpired = 0
    MaxBoots = 2
    MaxCrashes = 1
SPECIFICATION LiveSpec
PROPERTIES
    PendingResumed
CHECK_DEADLOCK FALSE
