\* Two members of the group, one of whom cannot be removed; one course sold
\* twice; a chat of two messages and a support conversation of three; two
\* searches of one lead; two uploads of one lesson, videos or an HLS playlist.
SPECIFICATION MCSpec
CONSTANTS
    People = {a1, a2}
    Shared = {}
    Team = {}
    Stuck = {a1}
    BatchSize = 1
    MaxAttempts = 2
    MaxRestarts = 1
    Nobody = Nobody
    Orders = {o1, o2}
    OwnUrl = {o1}
    Handlers = {h1, h2}
    Nothing = Nothing
    LastDay = 2
    MaxFaults = 1
    Overlapping = FALSE
    Emojis = {e1}
    Window = 1
    LastMessage = 2
    MaxAsked = 1
    MaxPushed = 1
    Messages = {m1, m2, m3}
    LastSession = 2
    Page = page
    Tabs = {page, another}
    DailyLimit = 1
    LastSearch = 2
    LastLead = 1
    MaxAnswers = 1
    Formats = {mp4, mkv, m3u8}
    Playlists = {m3u8}
    LastUpload = 2
    Throwing = FALSE
    Hasty = FALSE
INVARIANTS
    MCTypeOK
    BuyerHasCourse
    SentStaysVisible
    AlertedOnce
    ShownIsWhole
    ServedIsWhole
PROPERTIES
    LapsedLeave
    ConversionEnds
CHECK_DEADLOCK FALSE
