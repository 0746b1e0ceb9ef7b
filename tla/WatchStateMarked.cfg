SPECIFICATION Spec
CONSTANTS
    show = show
    episode = episode
    d1 = d1
    flush = flush
    Items <- TitleItems
    Playable <- OneEpisode
    Cascade <- ShowCascade
    Canonical <- EpisodeRuntime
    Reports <- Ticks
    Devices <- OneDevice
    ImportHistory <- Histories
    ImportPlayback <- Playbacks
    ImportMarks <- Marks
    Expired = 1
    NoRuntime <- Null
    Flusher = flush
    MaxReports = 1
    MaxOps = 1
    MaxFaults = 0
INVARIANT MarkWatchedStands
CHECK_DEADLOCK FALSE
