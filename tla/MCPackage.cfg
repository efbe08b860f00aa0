SPECIFICATION FairSpec
CONSTANTS
  Archives <- MCArchives
  MaxFormat = 1
  MaxArchive = 9
  MaxControl = 6
  MaxGeneration = 4
INVARIANTS TypeOK AcceptsWellFormed DigestsCoverFile EntryKeepsPackage
PROPERTIES EntrySettles ReaderEnds
\* A package is read once.
CHECK_DEADLOCK FALSE
