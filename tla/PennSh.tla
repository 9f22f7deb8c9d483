------------------------------- MODULE PennSh -------------------------------
(***************************************************************************)
(* penn-sh: a shell that runs one command with redirections of its input   *)
(* and output ("2a", project2a) and also two commands joined by a pipe     *)
(* ("2b", project2b).  "version" is fixed at the start.                    *)
(*                                                                         *)
(* Process 0 is the shell, 1 and 2 are the children of the current line; a *)
(* single command is child 1.  What matters of the pipe is which processes *)
(* hold its ends: a reader meets the end of file only when nobody holds    *)
(* the write end, and a writer is stopped (SIGPIPE) only when nobody holds *)
(* the read end.  A child holds an end from fork() until it closes it or   *)
(* ends, be it as fd[0], fd[1] or, after dup2(), as stdin or stdout.       *)
(*                                                                         *)
(* As in Shredder, a signal handler is a step that can be taken between    *)
(* any two system calls of the shell.  pipe() does not fail.               *)
(***************************************************************************)
EXTENDS CommandLine, FiniteSets

CONSTANT
    PipeCap     \* what the pipe holds before its writer blocks

ASSUME PipeAssumption == PipeCap \in Nat \ {0}

VARIABLES
    spc,        \* the system call or assignment the shell is about to make
    version,    \* "2a" or "2b"; never changes
    mode,       \* the shell is up or has called exit
    pid,        \* the program's global variable: 0, 1 for the child, or -1
    line,       \* the line that was read and not yet parsed
    command,    \* the parsed line: stage and flag
    procs,      \* procs[i]: where child i is
    stdin,      \* stdin[i]: what child i reads from
    stdout,     \* stdout[i]: what child i writes to
    ends,       \* <<i, e>>: process i holds end e of the pipe
    inPipe      \* how much is in the pipe

lineVars == <<version, line, command>>
shellVars == <<spc, mode, pid, lineVars>>
childVars == <<procs, stdin, stdout>>
pipeVars == <<ends, inPipe>>
vars == <<shellVars, childVars, pipeVars>>

Shell == 0
Children == {1, 2}
Ends == {"read", "write"}

ShellPCs == {"prompt", "parse", "fork", "assign", "wait", "pipe", "fork1", "fork2",
             "closeRead", "closeWrite", "wait1", "wait2", "reset",
             "failed"}
ChildPCs == {"none", "close", "setup", "exec", "running", "zombie", "reaped"}

TypeOK ==
    /\ spc \in ShellPCs
    /\ version \in {"2a", "2b"}
    /\ mode \in {"up", "exited"}
    /\ pid \in {0, 1, -1}
    /\ line \in Seq(STRING)
    /\ command \in {Parse(<< >>)}
                   \cup (IF version = "2a" THEN PlainCommands ELSE Pipelines)
    /\ procs \in [Children -> ChildPCs]
    /\ stdin \in [Children -> {"tty", "file", "pipe"}]
    /\ stdout \in [Children -> {"tty", "file", "pipe"}]
    /\ ends \subseteq (Children \cup {Shell}) \X Ends
    /\ inPipe \in 0 .. PipeCap

Init ==
    /\ spc = "prompt"
    /\ version \in {"2a", "2b"}
    /\ mode = "up"
    /\ pid = 0
    /\ line = << >>
    /\ command = Parse(<< >>)
    /\ procs = [i \in Children |-> "none"]
    /\ stdin = [i \in Children |-> "tty"]
    /\ stdout = [i \in Children |-> "tty"]
    /\ ends = {}
    /\ inPipe = 0

Alive(i) == procs[i] \in {"close", "setup", "exec", "running"}

\* The ends process i holds, and those it leaves when it is gone.
EndsOf(i) == {i} \X Ends
Holders(e) == {i \in Children \cup {Shell} : <<i, e>> \in ends}

Die(i) ==
    /\ procs' = [procs EXCEPT ![i] = "zombie"]
    /\ ends' = ends \ EndsOf(i)

Exit ==
    /\ mode' = "exited"
    /\ ends' = ends \ EndsOf(Shell)

ShellGoto(l) == spc' = l

-----------------------------------------------------------------------------
(***************************************************************************)
(* executeShell: reading a line.                                           *)
(***************************************************************************)
ReadLine ==
    /\ spc = "prompt"
    /\ \E s \in Lines :
         /\ ~Refused(s)
         /\ line' = s
    /\ ShellGoto("parse")
    /\ procs' = [i \in Children |-> "none"]
    /\ UNCHANGED <<version, mode, pid, command, stdin, stdout, pipeVars>>

ParseLine ==
    /\ spc = "parse"
    /\ command' = ParseIn(version, line)
    /\ line' = << >>
    /\ ShellGoto(IF command'.flag = 1 THEN "pipe" ELSE "fork")
    /\ UNCHANGED <<version, mode, pid, childVars, pipeVars>>

EndOfInput ==
    /\ spc = "prompt"
    /\ Exit
    /\ UNCHANGED <<spc, pid, lineVars, childVars, inPipe>>

-----------------------------------------------------------------------------
(***************************************************************************)
(* executeShell without a pipe.                                            *)
(***************************************************************************)

\* A fork() that fails returns -1, and the shell exits.
Fork ==
    /\ spc = "fork"
    /\ \/ /\ procs' = [procs EXCEPT ![1] = "setup"]
          /\ ShellGoto("assign")
          /\ UNCHANGED pid
       \/ /\ pid' = -1
          /\ ShellGoto("failed")
          /\ UNCHANGED procs
    /\ UNCHANGED <<mode, lineVars, stdin, stdout, pipeVars>>

ForkFailed ==
    /\ spc = "failed"
    /\ Exit
    /\ UNCHANGED <<spc, pid, lineVars, childVars, inPipe>>

AssignPid ==
    /\ spc = "assign"
    /\ pid' = 1
    /\ ShellGoto("wait")
    /\ UNCHANGED <<mode, lineVars, childVars, pipeVars>>

\* wait() and waitpid(-1) take any child that has ended.
Reap(next) ==
    /\ \E i \in Children :
         /\ procs[i] = "zombie"
         /\ procs' = [procs EXCEPT ![i] = "reaped"]
         /\ stdin' = [stdin EXCEPT ![i] = "tty"]
         /\ stdout' = [stdout EXCEPT ![i] = "tty"]
    /\ ShellGoto(next)
    /\ UNCHANGED <<mode, pid, lineVars, pipeVars>>

\* There is no child, running or ended, to wait for.
NoChild == \A i \in Children : procs[i] \in {"none", "reaped"}

Wait == spc = "wait" /\ Reap("reset")

\* After a single command pid is set back; executeShell returns, and the next
\* call starts with empty lists and flag = 0, and makes its own pipe.
ResetPid ==
    /\ spc = "reset"
    /\ pid' = 0
    /\ command' = Parse(<< >>)
    /\ inPipe' = 0
    /\ ShellGoto("prompt")
    /\ UNCHANGED <<version, mode, line, childVars, ends>>

-----------------------------------------------------------------------------
(***************************************************************************)
(* executeShell with a pipe.  The results of the two fork() are not looked *)
(* at, and not assigned to pid.                                            *)
(***************************************************************************)
MakePipe ==
    /\ spc = "pipe"
    /\ ends' = EndsOf(Shell)
    /\ inPipe' = 0
    /\ ShellGoto("fork1")
    /\ UNCHANGED <<mode, pid, lineVars, childVars>>

\* The child gets a copy of every descriptor the shell has open.
ForkStage(i, next) ==
    /\ \/ /\ procs' = [procs EXCEPT ![i] = "close"]
          /\ ends' = ends \cup {<<i, e>> : e \in {f \in Ends : <<Shell, f>> \in ends}}
       \/ UNCHANGED <<procs, ends>>
    /\ ShellGoto(next)
    /\ UNCHANGED <<mode, pid, lineVars, stdin, stdout, inPipe>>

Fork1 == spc = "fork1" /\ ForkStage(1, "fork2")
Fork2 == spc = "fork2" /\ ForkStage(2, "closeRead")

CloseShellEnd(e, next) ==
    /\ ends' = ends \ {<<Shell, e>>}
    /\ ShellGoto(next)
    /\ UNCHANGED <<mode, pid, lineVars, childVars, inPipe>>

CloseRead == spc = "closeRead" /\ CloseShellEnd("read", "closeWrite")
CloseWrite == spc = "closeWrite" /\ CloseShellEnd("write", "wait1")

\* The first waitpid() of the loop: without a child it fails, and the shell
\* exits.
Wait1 ==
    /\ spc = "wait1"
    /\ \/ Reap("wait2")
       \/ NoChild /\ Exit /\ UNCHANGED <<spc, pid, lineVars, childVars, inPipe>>

\* Mutant of Wait2: the loop ends after the first child.
Wait2Missing ==
    /\ spc = "wait2"
    /\ ShellGoto("reset")
    /\ UNCHANGED <<mode, pid, lineVars, childVars, pipeVars>>

\* The second one ends the loop with the child it takes, and without a child
\* starts it over.
Wait2 ==
    /\ spc = "wait2"
    /\ \/ Reap("reset")
       \/ /\ NoChild
          /\ ShellGoto("wait1")
          /\ UNCHANGED <<mode, pid, lineVars, childVars, pipeVars>>

Single == Fork \/ ForkFailed \/ AssignPid \/ Wait \/ ResetPid
Pipeline == MakePipe \/ Fork1 \/ Fork2 \/ CloseRead \/ CloseWrite \/ Wait1 \/ Wait2

\* What the shell does with a line that is parsed; project2a has no pipeline.
ExecuteLine == mode = "up" /\ (Single \/ (version = "2b" /\ Pipeline))

Prompt ==
    /\ mode = "up"
    /\ ReadLine \/ EndOfInput \/ ParseLine

-----------------------------------------------------------------------------
(***************************************************************************)
(* The children, up to execvp().                                           *)
(***************************************************************************)
Unneeded(i) == IF i = 1 THEN "read" ELSE "write"

\* Mutant of CloseEnd: the child keeps the end it does not use.
CloseEndMissing(i) ==
    /\ procs[i] = "close"
    /\ procs' = [procs EXCEPT ![i] = "setup"]
    /\ UNCHANGED <<shellVars, stdin, stdout, pipeVars>>

CloseEnd(i) ==
    /\ procs[i] = "close"
    /\ ends' = ends \ {<<i, Unneeded(i)>>}
    /\ procs' = [procs EXCEPT ![i] = "setup"]
    /\ UNCHANGED <<shellVars, stdin, stdout, inPipe>>

StageOf(i) == command.stage[i]

\* Mutant of Invalid: a redirection may overlap with the pipe.
InvalidTwiceOnly(i) == StageOf(i).outs > 1 \/ StageOf(i).ins > 1

\* Two redirections of the same stream, or one of the stream the pipe takes.
Invalid(i) ==
    \/ StageOf(i).outs > 1
    \/ StageOf(i).ins > 1
    \/ command.flag = 1 /\ i = 1 /\ StageOf(i).outs > 0
    \/ command.flag = 1 /\ i = 2 /\ StageOf(i).ins > 0

Redirects(i) == StageOf(i).outs > 0 \/ StageOf(i).ins > 0

Redirected(i) ==
    [in |-> CASE StageOf(i).ins > 0 -> "file"
              [] command.flag = 1 /\ i = 2 -> "pipe"
              [] OTHER -> "tty",
     out |-> CASE StageOf(i).outs > 0 -> "file"
               [] command.flag = 1 /\ i = 1 -> "pipe"
               [] OTHER -> "tty"]

\* A child with an invalid redirection exits, as does in project2b one whose file
\* cannot be opened; otherwise dup2() sets its streams.
Setup(i) ==
    /\ procs[i] = "setup"
    /\ \/ /\ Invalid(i) \/ (version = "2b" /\ Redirects(i))
          /\ Die(i)
          /\ UNCHANGED <<stdin, stdout>>
       \/ /\ ~Invalid(i)
          /\ procs' = [procs EXCEPT ![i] = "exec"]
          /\ stdin' = [stdin EXCEPT ![i] = Redirected(i).in]
          /\ stdout' = [stdout EXCEPT ![i] = Redirected(i).out]
          /\ UNCHANGED ends
    /\ UNCHANGED <<shellVars, inPipe>>

\* project2a does not look at the result of open(): for a file that cannot be
\* opened dup2() fails too, and the command runs with the terminal.
SetupPlain(i) ==
    /\ procs[i] = "setup" /\ version = "2a"
    /\ ~Invalid(i) /\ Redirects(i)
    /\ procs' = [procs EXCEPT ![i] = "exec"]
    /\ stdin' \in {stdin, [stdin EXCEPT ![i] = Redirected(i).in]}
    /\ stdout' \in {stdout, [stdout EXCEPT ![i] = Redirected(i).out]}
    /\ UNCHANGED <<shellVars, pipeVars>>

\* execvp() fails without a name, and may fail with one.
Exec(i) ==
    /\ procs[i] = "exec"
    /\ \/ /\ StageOf(i).args > 0
          /\ procs' = [procs EXCEPT ![i] = "running"]
          /\ UNCHANGED ends
       \/ Die(i)
    /\ UNCHANGED <<shellVars, stdin, stdout, inPipe>>

Prepare(i) == CloseEnd(i) \/ Setup(i) \/ SetupPlain(i) \/ Exec(i)

-----------------------------------------------------------------------------
(***************************************************************************)
(* The commands: one that writes to the pipe for as long as somebody may   *)
(* read it, one that reads until the end of file, and any of them may end. *)
(***************************************************************************)
Write(i) ==
    /\ procs[i] = "running"
    /\ stdout[i] = "pipe"
    /\ \/ /\ Holders("read") # {}
          /\ inPipe < PipeCap
          /\ inPipe' = inPipe + 1
          /\ UNCHANGED <<procs, ends>>
       \/ /\ Holders("read") = {}
          /\ Die(i)
          /\ UNCHANGED inPipe
    /\ UNCHANGED <<shellVars, stdin, stdout>>

Read(i) ==
    /\ procs[i] = "running"
    /\ stdin[i] = "pipe"
    /\ \/ /\ inPipe > 0
          /\ inPipe' = inPipe - 1
          /\ UNCHANGED <<procs, ends>>
       \/ /\ inPipe = 0
          /\ Holders("write") = {}
          /\ Die(i)
          /\ UNCHANGED inPipe
    /\ UNCHANGED <<shellVars, stdin, stdout>>

Finish(i) ==
    /\ procs[i] = "running"
    /\ Die(i)
    /\ UNCHANGED <<shellVars, stdin, stdout, inPipe>>

-----------------------------------------------------------------------------
\* Mutant of SigintHandler: pid is not compared with 0.
SigintHandlerUnguarded ==
    /\ mode = "up"
    /\ IF pid # 1
       THEN Exit /\ UNCHANGED procs
       ELSE Die(1) /\ UNCHANGED mode
    /\ UNCHANGED <<spc, pid, lineVars, stdin, stdout, inPipe>>

\* kill() of a process that has been reaped fails, and the shell exits; kill(-1)
\* after a failed fork() reaches everybody but the shell, which has no child then.
SigintHandler ==
    /\ mode = "up"
    /\ \/ pid \in {0, -1} /\ UNCHANGED <<mode, procs, ends>>
       \/ pid = 1 /\ procs[1] = "reaped" /\ Exit /\ UNCHANGED procs
       \/ pid = 1 /\ procs[1] # "reaped" /\ Die(1) /\ UNCHANGED mode
    /\ UNCHANGED <<spc, pid, lineVars, stdin, stdout, inPipe>>

Over == mode = "exited" /\ (\A i \in Children : ~Alive(i)) /\ UNCHANGED vars

Next ==
    \/ Prompt
    \/ ExecuteLine
    \/ \E i \in Children : Prepare(i) \/ Write(i) \/ Read(i) \/ Finish(i)
    \/ SigintHandler
    \/ Over

\* Every child is scheduled, and the shell from the parsed line on.  The user
\* may enter nothing, and a command may go on for ever, but not without using
\* the pipe it has.
Fairness ==
    /\ WF_vars(ExecuteLine)
    /\ \A i \in Children :
         WF_vars(Prepare(i)) /\ WF_vars(Write(i)) /\ WF_vars(Read(i))

Spec == Init /\ [][Next]_vars
FairSpec == Spec /\ Fairness

-----------------------------------------------------------------------------
(***************************************************************************)
(* Properties.                                                             *)
(***************************************************************************)

\* The tokenizer loses, repeats and reorders nothing but spaces, and except for
\* hidden delimiters its tokens are those the README describes, although the
\* code finds them by moving a position and not by looking at what comes
\* before it.
TokensAsDescribed ==
    spc = "parse" =>
        /\ FlattenSeq(Tokens(line)) = WithoutSpaces(line)
        /\ ~Hidden(line) => Tokens(line) = Described(line)

\* A line is a pipeline, in project2b, exactly when it has a '|' that is not the
\* name after a redirection, and every argument and every name is counted
\* once, in the stage it was typed in and as what its sign says.
CountedOnce == spc = "parse" => CountsOnce(version, line)

\* At the prompt everything of the last line is gone: no child runs or is a
\* zombie, nobody holds an end of its pipe, and pid is 0 again.
PromptIsClean ==
    (mode = "up" /\ spc = "prompt") =>
        NoChild /\ ends = {} /\ pid = 0

\* A command runs only with the streams the line asks for, and with no other
\* end of the pipe than its own.  In project2a a stream may be missing, and then
\* stays with the terminal.
StreamsAsTyped ==
    \A i \in Children : procs[i] = "running" =>
        /\ StageOf(i).outs <= 1 /\ StageOf(i).ins <= 1
        /\ version = "2b" => /\ stdout[i] = "file" <=> StageOf(i).outs = 1
                             /\ stdin[i] = "file" <=> StageOf(i).ins = 1
        /\ version = "2a" => /\ stdout[i] \in {"tty", Redirected(i).out}
                             /\ stdin[i] \in {"tty", Redirected(i).in}
        /\ command.flag = 1 =>
             /\ i = 1 => stdout[i] = "pipe" /\ stdin[i] # "pipe" /\ <<i, "read">> \notin ends
             /\ i = 2 => stdin[i] = "pipe" /\ stdout[i] # "pipe" /\ <<i, "write">> \notin ends
        /\ command.flag = 0 => i = 1 /\ "pipe" \notin {stdin[i], stdout[i]}

\* A pipeline ends with either of its commands: when the writer is gone the
\* reader meets the end of file, and when the reader is gone the writer is
\* stopped; nobody is left waiting on an end that a third process holds.
PipelineEnds ==
    (spc = "wait1" /\ \E i \in Children : procs[i] = "zombie")
        ~> (spc = "prompt" \/ mode = "exited")

\* The shell ends at the end of its input and when it could not make a child.
\* Otherwise only a SIGINT ends it, between the wait() for a single command
\* and pid = 0; during a pipeline none does.
ShellSurvives ==
    [][(mode = "up" /\ mode' = "exited") =>
         \/ spc \in {"prompt", "failed"}
         \/ spc = "wait1" /\ \E i \in Children : procs[i] = "none"
         \/ spc = "reset" /\ command.flag = 0 /\ procs[1] = "reaped"]_vars

=============================================================================
