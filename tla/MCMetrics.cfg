SPECIFICATION MetricsSpec
CONSTANTS
    Trainings <- MCTrainings
    Health <- MCHealth
    Baselines <- MCBaselines
    Long = 4
    Short = 3
    Few = 3
    FewEvals = 2
    MaxSeqLen = 100
    NaN = NaN
INVARIANTS
    NoopIsCaught
    PoisonedRunIsFailed
    OverfittingIsWarned
    SteadySignatureIsCaught
    NoSignatureWithoutCause
PROPERTY
    ClimbIsWarnedFirst
