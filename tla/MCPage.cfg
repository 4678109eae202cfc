CONSTANTS
    None = None
    CliArgs <- MCCliArgs
    Envs <- MCEnvs
    Names <- MCNames
    SrcTexts <- MCSrcTexts
    Template <- MCTemplate
    FlameError <- MCFlameError
SPECIFICATION PageSpec
INVARIANT PageFaithful
CHECK_DEADLOCK FALSE
