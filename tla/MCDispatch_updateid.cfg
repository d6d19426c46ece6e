\* README.md 36: the ledger is idempotent on update_id.
CONSTANTS
    N = 2
    Chats <- MCChats
    Allowlist <- MCAllowlist
    MsgIds = {1, 2}
    Inboxes <- Pairs
    Handlers = {h1}
    MaxConcurrent = 1
    LedgerFaults = FALSE
    MaxExpired = 0
    MaxBoots = 1
    MaxCrashes = 0
SPECIFICATION Spec
INVARIANTS
    EveryUpdateRecorded
CHECK_DEADLOCK FALSE
