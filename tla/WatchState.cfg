SPECIFICATION Spec
CONSTANTS
    show = show
    episode = episode
    d1 = d1
    flush = flush
    Items <- TitleItems
    Playable <- OneEpisode
    Cascade <- ShowCascade
    Canonical <- NoTmdbRuntime
    Reports <- DurationTicks
    Devices <- OneDevice
    ImportHistory <- Histories
    ImportPlayback <- Playbacks
    ImportMarks <- Marks
    Expired = 1
    NoRuntime <- Null
    Flusher = flush
    MaxReports = 2
    MaxOps = 1
    MaxFaults = 1
INVARIANTS TypeOK RowConsistent ResumeChangeAnnounced
PROPERTY PlaybackKeepsHistory
CHECK_DEADLOCK FALSE
