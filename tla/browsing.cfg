SPECIFICATION FairSpec
CONSTANTS
  Files = {11, 12}
  None = None
  ArtistNames = {21, 22}
  AlbumTitles = {1, 2}
  Matching <- MCMatching
  Requests <- MCRequests
  Pagings <- MCPagings
  SearchLimit = 1
  Bounds <- MCBounds
INVARIANTS Between StatsBehindSongs NotFoundIsMissing PagesComplete
PROPERTY Ends
