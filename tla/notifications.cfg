SPECIFICATION Spec
CONSTANTS
    a = a
    b = b
    beat = beat
    p = p
    q = q
    x = x
    y = y
    Ids <- TwoIds
    InApp <- OnlyA
    Beats <- OneBeat
    Callers <- TwoCallers
    Limit = 1
    Mails <- OneMail
    Retriers <- TwoRetriers
    RetryLimit = 1
    MaxRetries = 3
INVARIANT TypeOK
INVARIANT PendingIsUnread
INVARIANT TriesBounded
PROPERTY SettledStays
PROPERTY QueueDrains
PROPERTY FailedIsRetried
