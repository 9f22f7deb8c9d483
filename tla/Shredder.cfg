\* Five commands, any signals at any time, inputs of up to four characters.
SPECIFICATION FairSpec
CONSTANTS
    MaxCommands = 5
    MaxInput = 4
INVARIANTS NothingLeftAtPrompt KnowsItsChild AlarmOnlyForItsCommand CommandAsTyped
PROPERTIES DeathWindows PromptReturns
