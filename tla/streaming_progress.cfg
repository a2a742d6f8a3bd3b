SPECIFICATION FairSpec
CONSTANTS
  hires = hires
  dvd = dvd
  Tracks = {hires, dvd}
  SampleRate <- MCSampleRate
  Requested = {"", "mp3", "raw"}
  None = None
  Requests = {r1, r2}
  Workers = 1
  MaySweep = TRUE
  MayFail = TRUE
  MayCrash = TRUE
  EncoderSurvivesCrash = TRUE
INVARIANTS EncodersBounded OwnRendition RefsExact NoLeakedLock
PROPERTIES Answered ExpiredGoes SweepOnlyExpired 
