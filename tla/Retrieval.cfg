SPECIFICATION RetrievalSpec
CONSTANTS
  Slugs = {"returns", "fees", "returns-superseded"}
  SupersededSlugs = {"returns-superseded"}
  Contents <- MCContents
  Blank = "blank"
  Similarity <- MCSimilarity
  Size <- MCSize
  Multiplier = 2
  MinPool = 3
  Limits <- MCLimits
  MaxChars = 24
  MinExcerpt = 5
  HeadSize = 2
  TagSize = 3
  MarkerSize = 2
  Listings <- MCListings
  SeedRows <- MCSeedRows
  Near <- MCNear
  NormalMake <- MCNormalMake
  LongSegments = {"ad"}
  MinOccurrences = 2
  ChunkSize = 2
  PriceBounds = {0, 5}
  MaxLoads = 2
  MaxSeeds = 2
  MaxAdds = 2
CHECK_DEADLOCK FALSE
INVARIANTS
  NoFormerSection
  CurrentNotCrowdedOut
  SupersededIsLabelled
  SentinelHidden
  OneOfEachKept
  LoadedWhole
