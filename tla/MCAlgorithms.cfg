\* Corpora of three rows; headers of three ranges; four texts in calls of two,
\* with up to eight aspects each; questions, searches and posts at the edges.
CONSTANTS
    NULL = NULL  NoType = NoType  FAILED = FAILED  GARBLED = GARBLED
    MinChars = 4
    MaxChars = 6
    MaxSequences = 2
    Order <- MCOrder
    CorpusRows <- MCCorpusRows
    CorpusTombstones <- MCCorpusTombstones
    MaxRows = 3
    MaxTombstones = 1
    Full = 2
    Scores <- MCScores
    AspectScores <- MCAspectScores
    LabelOf <- MCLabelOf
    maxBatch = 2
    aspectBatchMultiple = 4
    Forever = 2000000000
    MaxDuration = 1000000000
    fipsCountry <- MCfips
SPECIFICATION AlgorithmsSpec
INVARIANTS NegotiatesAsAsked EveryScoreComesBack AggregatesAddUp SurfacesAgree AsksAsAsked EveryPostCounts
PROPERTY TextsAreTheLiveTexts
CHECK_DEADLOCK FALSE
