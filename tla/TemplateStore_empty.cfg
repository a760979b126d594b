SPECIFICATION StoreSpec
CONSTANTS
    Files <- MCFiles
    Dics <- MCDics
    StrLists <- MCStrLists
    Langs <- MCLangs
    Requests <- MCRequests
    Unreadable <- MCUnreadable
    MaxCalls = 1
    LocalNames <- MCNames
    JsonValues <- MCValues
INVARIANTS
    EmptyTokensAreSkipped
