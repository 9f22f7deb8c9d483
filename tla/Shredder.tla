------------------------------ MODULE Shredder ------------------------------
(***************************************************************************)
(* penn-shredder: a shell that runs one command at a time and kills it on  *)
(* SIGINT.  "version", fixed at the start, is one of the three in the      *)
(* repository:                                                             *)
(*   "1b"       project1b: also kills a command that outlives the timeout; *)
(*   "1a"       project1a: the same without the alarm clock;               *)
(*   "starter"  Project1-StarterCode: always runs /bin/ls, without reading *)
(*              a command, and never resets childPid.                      *)
(*                                                                         *)
(* A signal interrupts main between two of its instructions and its        *)
(* handler runs to the end before main goes on, so a handler is one step   *)
(* that can be taken wherever main stands.  A signal that arrives while    *)
(* main is inside a system call is handled when the call returns: the same *)
(* states as a signal that arrives right after the call.  Ctrl-C also      *)
(* reaches the command, which may die of it: Sigint and then Finish.  read *)
(* and wait are restarted after a handler (signal() sets SA_RESTART).      *)
(* Identifiers of reaped processes are not given to other processes.       *)
(***************************************************************************)
EXTENDS Integers, Sequences, FiniteSets

CONSTANTS
    MaxCommands,    \* bound: the number of commands the user enters
    MaxInput        \* bound: the characters one read() returns

ASSUME CommandsAssumption == MaxCommands \in Nat \ {0} /\ MaxInput \in Nat \ {0}

VARIABLES
    version,    \* "1b", "1a" or "starter"; never changes
    input,      \* what read() put into inputBuffer
    pc,         \* the system call or assignment main is about to make
    mode,       \* the shell is up, has called exit, or was killed
    childPid,   \* the program's global variable
    forked,     \* the result of the latest fork()
    procs,      \* procs[p]: the state of the process with identifier p
    timeout,    \* was a positive timeout given?
    alarm,      \* is the alarm clock running?
    others      \* are the user's other processes untouched?

text == <<version, input>>
vars == <<text, pc, mode, childPid, forked, procs, timeout, alarm, others>>

Pids == 1 .. MaxCommands
Characters == {"space", "newline", "other"}
Inputs == UNION {[1 .. n -> Characters] : n \in 1 .. MaxInput}

TypeOK ==
    /\ version \in {"1b", "1a", "starter"}
    /\ input \in Inputs \cup {<<>>}
    /\ others \in BOOLEAN
    /\ pc \in {"alarm0", "read", "examine", "fork", "assign", "failed", "alarm",
               "wait", "reset"}
    /\ mode \in {"up", "exited", "killed"}
    /\ childPid \in Pids \cup {0, -1}
    /\ forked \in Pids \cup {0, -1}
    /\ procs \in [Pids -> {"none", "forked", "running", "zombie", "reaped"}]
    /\ timeout \in BOOLEAN
    /\ alarm \in BOOLEAN

\* Where executeShell goes from where, by version: the calls of alarm() are
\* those of project1b, and childPid = 0 is missing in the starter code.
Prompt == IF version = "1b" THEN "alarm0" ELSE IF version = "1a" THEN "read" ELSE "fork"
Await == IF version = "1b" THEN "alarm" ELSE "wait"
Done == IF version = "starter" THEN Prompt ELSE "reset"

Init ==
    /\ version \in {"1b", "1a", "starter"}
    /\ input = <<>>
    /\ others = TRUE
    /\ pc = Prompt
    /\ mode = "up"
    /\ childPid = 0
    /\ forked = 0
    /\ procs = [p \in Pids |-> "none"]
    /\ timeout \in BOOLEAN
    /\ alarm = FALSE

Alive(p) == procs[p] \in {"forked", "running"}

-----------------------------------------------------------------------------
\* Mutant of ResetAlarm: the alarm is left running.
ResetAlarmMissing ==
    /\ pc = "alarm0"
    /\ pc' = "read"
    /\ UNCHANGED <<mode, childPid, forked, procs, timeout, alarm, others, text>>

(***************************************************************************)
(* main and executeShell.                                                  *)
(***************************************************************************)
ResetAlarm ==
    /\ pc = "alarm0"
    /\ alarm' = FALSE
    /\ pc' = "read"
    /\ UNCHANGED <<mode, childPid, forked, procs, timeout, others, text>>

\* read() in getCommandFromInput: the end of the input exits; otherwise some
\* characters arrive: a line from a terminal, its start if the user ends it with
\* Ctrl-D, several lines from a file.
ReadCommand ==
    /\ pc = "read"
    /\ \/ mode' = "exited" /\ UNCHANGED <<pc, input>>
       \/ pc' = "examine" /\ input' \in Inputs /\ UNCHANGED mode
    /\ UNCHANGED <<version, childPid, forked, procs, timeout, alarm, others>>

Where(chars, C) == {k \in DOMAIN chars : chars[k] \in C}
First(S) == CHOOSE k \in S : \A j \in S : k <= j
Last(S) == CHOOSE k \in S : \A j \in S : j <= k

\* The test for a blank line, which counts on a newline at the end.
AllSpace(chars) == Cardinality(Where(chars, {"space"})) = Len(chars) - 1

\* The first newline ends the string; whatever follows it is dropped.
UpToNewline(chars) == IF Where(chars, {"newline"}) = {} THEN chars
                      ELSE SubSeq(chars, 1, First(Where(chars, {"newline"})) - 1)

\* Mutant of Trimmed: the spaces after the command stay.
TrimmedInFront(line) == LET visible == Where(line, {"other"})
                        IN IF visible = {} THEN <<>>
                           ELSE SubSeq(line, First(visible), Len(line))

\* The two pointers that step over leading and trailing spaces.
Trimmed(line) == LET visible == Where(line, {"other"})
                 IN IF visible = {} THEN <<>>
                    ELSE SubSeq(line, First(visible), Last(visible))

Command == Trimmed(UpToNewline(input))

\* getCommandFromInput returns NULL, or executeShell finds that the command is
\* empty (it never starts with a space).
Refused == AllSpace(input) \/ Command = <<>>

Examine ==
    /\ pc = "examine"
    /\ pc' = IF Refused THEN Prompt ELSE "fork"
    /\ UNCHANGED <<mode, childPid, forked, procs, timeout, alarm, others, text>>

\* fork() makes a process, or returns -1.
Fork ==
    /\ pc = "fork"
    /\ pc' = "assign"
    /\ \/ \E p \in Pids :
            /\ procs[p] = "none"
            /\ \A q \in Pids : q < p => procs[q] # "none"
            /\ procs' = [procs EXCEPT ![p] = "forked"]
            /\ forked' = p
       \/ forked' = -1 /\ UNCHANGED procs
    /\ input' = <<>>        \* the command is the child's from here on
    /\ UNCHANGED <<version, mode, childPid, timeout, alarm, others>>

\* Mutant of AssignPid: the result of fork() is not kept.
AssignPidMissing ==
    /\ pc = "assign"
    /\ pc' = Await
    /\ UNCHANGED <<mode, childPid, forked, procs, timeout, alarm, others, text>>

AssignPid ==
    /\ pc = "assign"
    /\ childPid' = forked
    /\ pc' = IF forked = -1 THEN "failed" ELSE Await
    /\ UNCHANGED <<mode, forked, procs, timeout, alarm, others, text>>

\* "Error in creating child process": perror, then exit.
ForkFailed ==
    /\ pc = "failed"
    /\ mode' = "exited"
    /\ UNCHANGED <<pc, childPid, forked, procs, timeout, alarm, others, text>>

\* Mutant of StartAlarm: the timeout is not used.
StartAlarmMissing ==
    /\ pc = "alarm"
    /\ pc' = "wait"
    /\ UNCHANGED <<mode, childPid, forked, procs, timeout, alarm, others, text>>

StartAlarm ==
    /\ pc = "alarm"
    /\ alarm' = timeout
    /\ pc' = "wait"
    /\ UNCHANGED <<mode, childPid, forked, procs, timeout, others, text>>

\* Mutant of Wait: the shell does not wait for the command to end.
WaitMissing ==
    /\ pc = "wait"
    /\ pc' = "reset"
    /\ UNCHANGED <<mode, childPid, forked, procs, timeout, alarm, others, text>>

\* wait() returns with any child that has ended.
Wait ==
    /\ pc = "wait"
    /\ \E p \in Pids :
         /\ procs[p] = "zombie"
         /\ procs' = [procs EXCEPT ![p] = "reaped"]
    /\ pc' = Done
    /\ UNCHANGED <<mode, childPid, forked, timeout, alarm, others, text>>

ResetPid ==
    /\ pc = "reset"
    /\ childPid' = 0
    /\ pc' = Prompt
    /\ UNCHANGED <<mode, forked, procs, timeout, alarm, others, text>>

\* The three main loops.
Main1b == \/ ResetAlarm \/ ReadCommand \/ Examine \/ Fork \/ AssignPid \/ ForkFailed
          \/ StartAlarm \/ Wait \/ ResetPid

Main1a == \/ ReadCommand \/ Examine \/ Fork \/ AssignPid \/ ForkFailed \/ Wait \/ ResetPid

MainStarter == Fork \/ AssignPid \/ ForkFailed \/ Wait

Main ==
    /\ mode = "up"
    /\ \/ version = "1b" /\ Main1b
       \/ version = "1a" /\ Main1a
       \/ version = "starter" /\ MainStarter

-----------------------------------------------------------------------------
(***************************************************************************)
(* The child.  Until execve() it still has the shell's handlers, in which  *)
(* childPid is 0; an execve() that fails ends it.                          *)
(***************************************************************************)
Exec(p) ==
    /\ procs[p] = "forked"
    /\ \E s \in {"running", "zombie"} : procs' = [procs EXCEPT ![p] = s]
    /\ UNCHANGED <<pc, mode, childPid, forked, timeout, alarm, others, text>>

Finish(p) ==
    /\ procs[p] = "running"
    /\ procs' = [procs EXCEPT ![p] = "zombie"]
    /\ UNCHANGED <<pc, mode, childPid, forked, timeout, alarm, others, text>>

-----------------------------------------------------------------------------
(***************************************************************************)
(* The signal handlers.                                                    *)
(***************************************************************************)

\* kill(childPid, SIGKILL): 0 means the whole process group of the shell, and -1
\* every process the user may kill, the shell itself excepted; a process that was
\* reaped is an error, and the shell exits.
KillChildProcess ==
    /\ procs' = [p \in Pids |-> IF Alive(p) /\ childPid \in {p, 0, -1}
                                 THEN "zombie" ELSE procs[p]]
    /\ mode' = CASE childPid = 0 -> "killed"
                  [] childPid > 0 -> IF procs[childPid] = "reaped" THEN "exited" ELSE mode
                  [] OTHER        -> mode
    /\ others' = (others /\ childPid # -1)

AlarmHandler ==
    /\ mode = "up"
    /\ alarm
    /\ alarm' = FALSE
    /\ KillChildProcess
    /\ UNCHANGED <<pc, childPid, forked, timeout, text>>

\* Mutant of SigintHandler: childPid is not compared with 0.
SigintHandlerUnguarded ==
    /\ mode = "up"
    /\ KillChildProcess
    /\ UNCHANGED <<pc, childPid, forked, timeout, alarm, text>>

SigintHandler ==
    /\ mode = "up"
    /\ IF childPid # 0 THEN KillChildProcess ELSE UNCHANGED <<mode, procs, others>>
    /\ UNCHANGED <<pc, childPid, forked, timeout, alarm, text>>

Over == mode # "up" /\ (\A p \in Pids : ~Alive(p)) /\ UNCHANGED vars

Next ==
    \/ Main
    \/ \E p \in Pids : Exec(p) \/ Finish(p)
    \/ AlarmHandler
    \/ SigintHandler
    \/ Over

\* The shell and a child before its execve() are scheduled and the alarm clock
\* goes off in the end; a command may run for ever and the user may type
\* nothing, in which case main stays in read().
Fairness ==
    /\ WF_vars(Main /\ pc # "read")
    /\ WF_vars(AlarmHandler)
    /\ \A p \in Pids : WF_vars(Exec(p))

Spec == Init /\ [][Next]_vars
FairSpec == Spec /\ Fairness

-----------------------------------------------------------------------------
(***************************************************************************)
(* Properties.                                                             *)
(***************************************************************************)

\* At the prompt no process is left from an earlier command, running or as a
\* zombie, whatever signals came in between (the comment in executeShell: "It
\* prevents creating zombie processes").
NothingLeftAtPrompt ==
    (mode = "up" /\ pc \in {"alarm0", "read", "examine", "fork"})
        => \A p \in Pids : procs[p] \in {"none", "reaped"}

\* The handlers know the command that runs (the comment on sigintHandler: it
\* "kills the child process if it exists and is executing"): only between
\* fork() and the assignment of its result can a live child be one that
\* childPid does not name, and only between wait() and the assignment that
\* resets it, in the starter code the one that follows the next fork(), does
\* childPid name a process that is gone.
KnowsItsChild ==
    /\ (mode = "up" /\ pc # "assign") => \A p \in Pids : Alive(p) => childPid = p
    /\ (childPid > 0 /\ procs[childPid] \in {"none", "reaped"})
         => IF version = "starter" THEN pc \in {"fork", "assign"} ELSE pc = "reset"

\* The alarm of one command never goes off at the prompt or during the next
\* command: it runs only from its own alarm(timeout) to the alarm(0) that
\* follows the command.
AlarmOnlyForItsCommand ==
    alarm => /\ pc \in {"wait", "reset", "alarm0"}
             /\ pc = "wait" => childPid = forked /\ procs[childPid] # "reaped"

\* A signal can end the shell only between wait() and childPid = 0, or between
\* that and alarm(0) with the alarm still running; in the starter code at any
\* time from the first wait() to the next fork().  Otherwise the shell ends on
\* its own account.  And a signal reaches processes that are not the shell's only
\* after a fork() that failed.
DeathWindows ==
    [][/\ (mode = "up" /\ mode' # "up") =>
             \/ pc \in {"read", "failed"} /\ mode' = "exited" /\ UNCHANGED procs
             \/ pc = "reset" /\ procs[childPid] = "reaped"
             \/ pc = "alarm0" /\ alarm
             \/ version = "starter" /\ pc \in {"fork", "assign"} /\ childPid # 0
       /\ others' # others => pc = "failed" /\ forked = -1]_vars

\* The command that is run is the first line of the input, without the spaces
\* around it and with those inside; and only a blank line is refused, except that
\* a single character ended with Ctrl-D instead of a newline is taken for one
\* (project1a/penn-shredder.c:202-217: the comment counts on the newline).
CommandAsTyped ==
    /\ (pc = "fork" /\ version # "starter") =>
         /\ \E a, b \in 1 .. Len(input) :
               /\ Command = SubSeq(input, a, b)
               /\ a <= b /\ {input[a], input[b]} = {"other"}
               /\ \A k \in 1 .. b : input[k] # "newline" /\ (k < a => input[k] = "space")
               /\ \A k \in b + 1 .. Len(input) :
                     input[k] = "other" => \E j \in b .. k : input[j] = "newline"
    /\ (pc = "examine" /\ Refused) =>
         \/ Where(UpToNewline(input), {"other"}) = {}
         \/ Where(input, {"newline"}) = {} /\ Cardinality(Where(input, {"other"})) = 1

\* In project1b, with a timeout, no command holds the shell for ever, even one that never
\* ends: the shell comes back to the prompt, or is gone.
PromptReturns == (version = "1b" /\ timeout /\ pc = "wait") ~> (pc = "read" \/ mode # "up")

\* The comment on sigintHandler: "Does not do anything to the parent process
\* and its execution".
SigintSparesShell == [][SigintHandler => UNCHANGED mode]_vars

=============================================================================
