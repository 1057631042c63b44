CONSTANTS
  None = None
  a = a  a2 = a2  b = b  b2 = b2
  o1 = o1  o2 = o2  g1 = g1  g2 = g2  q = q  t1 = t1  p1 = p1  p2 = p2
  Names = {a, a2, b, b2}
  NameSimilarity <- Similar
  Distinctive = {a, a2, b, b2}
  EXACT_DISTANCE = 250
  CHAIN_DISTANCE = 1000
  STRONG = 92
  MODERATE = 82
  AMBIGUITY_MARGIN = 50
  Ids = {1, 2, 3}
  Keys = {o1, o2, g1, g2}
  SourceOf <- Sources
  Versions <- Offered
  Entities <- Wikidata
  Raws <- OneText
  RealPlace <- About
  PlaceNames <- Called
  CHUNK = 2
  MaxConflicts = 1
  MaxRuns = 4
SPECIFICATION Spec
INVARIANT TypeOK
INVARIANT OnePlaceEach
INVARIANT TwinsOnlyBlind
 
CHECK_DEADLOCK FALSE
