SPECIFICATION Spec
CHECK_DEADLOCK FALSE
CONSTANTS
  None = None
  Sources <- MCSources
  Quality <- MCQuality
  MIN_MENTIONS = 3
  MIN_WEIGHT = 150
  BAYES_M = 6
  BAYES_PRIOR = 62
  Log1p <- MCLog1p
  VOLUME_SATURATION = 50
  ENGAGEMENT_SATURATION = 50
  OLDEST = 2
  YEAR = 2
  RECENT = 2
  HISTORICAL = 8
  DELTA_THRESHOLD = 8
  MIN_OBSERVATIONS = 2
  SURGE_RATIO = 3
  SURGE_MIN_RECENT = 2
  GEM_POSITIVITY = 85
  GEM_CONSISTENCY = 60
  CONSISTENT_MENTIONS = 5
  DETAIL_PAGE = 50
  TOP = 10
  MAP_LIMIT = 300
  SNIPPETS = 2
  MIN_SUMMARY = 3
  NEAR_ME = 200
  Areas <- MCAreas
  Cuisines <- MCCuisines
  Dietary <- MCDietary
  Moods <- MCMoods
  Length <- MCLength
  Cheap <- MCCheap
  Premium <- MCPremium
  Superlative <- MCSuperlative
  NearMe <- MCNearMe
  UnderWords = {"under"}
  OverWords = {"over"}
  PlaceWords = {"near", "in"}
  Noise <- MCNoise
  Inside <- MCInside
  Amount <- MCAmount
  CHEAP_PRICE = 300
  Aliases <- MCAliases
  Similarity <- TextSimilarity
  Letters <- MCLetters
  Breaks <- MCBreaks
  Markup <- MCMarkup
  Lexicon <- MCLexicon
  SetPhrases <- MCSetPhrases
  Negators <- MCNegators
  Intensifiers <- MCIntensifiers
  Attributes <- MCAttributes
  Aspects <- MCAspects
  VISIT_ASPECTS = {"service"}
  PriceOf <- MCPriceOf
  Plurals <- MCPlurals
  Chars <- MCChars
  MIN_CONFIDENCE = 35
  ALLOW_CREATION = FALSE
  Groups <- MCGroups
  MIN_MENTIONS_FOR_DNA = 3
  SIGNATURE_SHARE = 25
  SIGNATURE_MIN_SENTIMENT = 70
  DNA_LIMIT = 6
  Mentioned <- MCMentioned
  MAX_OBSERVATIONS = 4
  Evidences <- MCEvidences
  Metrics <- MCMetrics
  BadgeRows <- MCBadgeRows
  Pagings <- MCPagings
  Reads <- MCReads
  Requests <- MCRequests
  Queries <- MCQueries
  Texts <- MCTexts
  Reviews <- MCReviews
  Profiles <- MCProfiles
PROPERTIES RankIsEarned
INVARIANTS  TrendHonest  ReadsAgree  SignalsFound ClausesApart  DnaOrderFree
