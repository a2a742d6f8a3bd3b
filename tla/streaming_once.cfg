SPECIFICATION Spec
CONSTANTS
  hires = hires
  dvd = dvd
  Tracks = {hires}
  SampleRate <- MCSampleRate
  Requested = {"", "mp3"}
  None = None
  Requests = {r1, r2, r3}
  Workers = 2
  MaySweep = FALSE
  MayFail = FALSE
  MayCrash = TRUE
  EncoderSurvivesCrash = FALSE
SYMMETRY RequestSymmetry
INVARIANTS SingleEncoder DestComplete
PROPERTY RefinesOnce
