SPECIFICATION PaceSpec
CONSTANTS
    Unit = 60
    MaxSteps = 3
    PlateauWindow = 4
    Lead = 1
    Durations = {1, 2}
    MaxExtra = 1

INVARIANTS
    RateIsThePace
    ForecastIsNotOptimistic
