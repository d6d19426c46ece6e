\* One handler, as deployed, no crash and no ledger fault: whatever was received
\* is settled, before or after SIGTERM, also by a second boot.
CONSTANTS
    N = 2
    Chats <- MCChats
    Allowlist <- MCAllowlist
    MsgIds = {1, 2}
    Inboxes <- Pairs
    Handlers = {h1}
    MaxConcurrent = 1
    LedgerFaults = FALSE
    MaxExpired = 0
    MaxBoots = 2
    MaxCrashes = 0
SPECIFICATION LiveSpec
PROPERTIES
    ReceivedSettles
CHECK_DEADLOCK FALSE
