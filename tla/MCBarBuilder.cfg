SPECIFICATION BarSpec
CONSTANTS
    NoCumVol = NoCumVol
    MaxObservations = 3
    Width <- MCWidth
    Payloads <- MCPayloads
    Tolerance = 1
    Lags <- MCLags
    MaxTime = 5
INVARIANTS EmittedOnce InToleranceIsCounted VolumeIsAdvance
CHECK_DEADLOCK FALSE
