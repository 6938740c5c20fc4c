SPECIFICATION FairSpec
CONSTANTS
    Calls = {c1, c2}
    Names = {session, anubis}
    Values = {v1}
    Users = {alice}
    None = none
    Expired = expired
    SetCookies <- MCSetCookies
    RetryAfters <- MCRetryAfters
    MAX_RETRY_DELAY_SECONDS = 2
    MaxLogins = 1
INVARIANTS UserHasCookies
PROPERTIES SaveKeepsTheRest OnlyLoginLogsIn CallEnds
