SPECIFICATION Spec
CONSTANTS
  Tags <- MCAlbum
  Files = {1, 2, 3, 4}
  Audio = {1, 2, 3, 4}
  Present = {1, 2, 3, 4}
  None = None
  MaxFaults = 2
  ReadsMayFail = FALSE
  ListMayFail = TRUE
  MaxCrashes = 2
INVARIANTS ArtistsDistinct AlbumsGrouped CreditsInOrder
PROPERTY GrowsOnly
CHECK_DEADLOCK FALSE
