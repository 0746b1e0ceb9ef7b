SPECIFICATION TmSpec
CONSTANTS
    i1 = i1
    i2 = i2
    t1 = t1
    t2 = t2
    c1 = c1
    Ingest = {i1, i2}
    TmdbTitle = {t1, t2}
    Connection = {c1}
    TitleOf <- MCTitleOf
    ConnOf <- MCConnOf
    IngestTries = 2
    NoWriter = NoWriter
    NotFound = NotFound
INVARIANT IngestIsAtomic
CHECK_DEADLOCK FALSE
