\* All lines of at most five characters, run as single commands and pipelines.
SPECIFICATION FairSpec
CONSTANTS
    Lines <- MCLines
    PipeCap = 2
INVARIANTS TypeOK PromptIsClean StreamsAsTyped TokensAsDescribed CountedOnce
PROPERTIES PipelineEnds ShellSurvives
