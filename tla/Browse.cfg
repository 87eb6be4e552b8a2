SPECIFICATION BrowseSpec
CONSTANTS
  p1 = p1  p2 = p2  p3 = p3  p4 = p4  p5 = p5
  NoBound = NoBound  NoPrice = NoPrice  Broken = Broken  Nobody = Nobody
  Assortment <- Five
  Slugs = {"shirts"}
  Home = "/"
  Attributes = {"color"}
  Values = {"red", "blue"}
  Views = {"grid", "list"}
  Sorts = {"relevance", "price-desc"}
  Bands <- TwoBands
  Info <- FiveDocs
  Tiebreaks <- EitherWay
  Bookmarks <- FourBookmarks
  PageSize = 2
  MaxBuckets = 2
  MaxOffset = 4
  Window = 6
  TopPrice = 2
  TopScore = 2
  MaxChanges = 1
  Fickle <- MCFickle
  Texts = {"", "shi", "sho"}
  Blank = ""
  Short = {""}
INVARIANTS
  WalkComplete
  LinksLead
  SuggestionsCurrent
CHECK_DEADLOCK FALSE
