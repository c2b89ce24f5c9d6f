\* Documents of up to three headings and four fragments, of sizes that fit
\* exactly, next to no overlap or not at all.
SPECIFICATION Spec
CONSTANTS
  MaxTokens = 4
  Overlap = 2
  Sizes = {1, 2, 3, 5}
  Levels = {1, 2}
  Titles = {x, y}
  MaxHeadings = 3
  MaxFragments = 4
INVARIANTS
  StackEncloses
  NothingLost
  SizesBounded
  OverlapBounded
  SectionsRespected
  RepeatsOnlyOverlap
CHECK_DEADLOCK FALSE
