SPECIFICATION SupervisionSpec
CONSTANTS
    Enabled = {"telegram", "email", "api"}
    BeatEvery = 1
    Fresh = 2
    MaxSilence = 2
    MaxTime = 8
    MaxLives = 2
INVARIANTS SupervisionTypeOK SilenceShows WorkIsHealthy
CHECK_DEADLOCK FALSE
