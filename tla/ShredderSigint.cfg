\* SIGINT between wait() and childPid = 0 ends the shell.
SPECIFICATION Spec
CONSTANTS
    MaxCommands = 1
    MaxInput = 1
PROPERTIES SigintSparesShell
