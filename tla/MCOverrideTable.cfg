SPECIFICATION FairSpec
CONSTANTS
    f1 = f1
    u1 = u1
    u2 = u2
    a = a
    b = b
    x = x
    y = y
    FileList <- MCFileList
    UrlList <- MCUrlList
    BadUrls = {u1}
    Names = {a, b}
    Ips = {x, y}
    MaxVersion = 2
    Text <- MCText
    Limit = 2
    None = None
INVARIANTS
    TypeOK
    EntriesAreWhole
    StatusTellsTheRound
PROPERTIES
    UrlsAreFollowed
