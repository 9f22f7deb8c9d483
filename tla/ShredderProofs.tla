--------------------------- MODULE ShredderProofs ---------------------------
(***************************************************************************)
(* Theorems about Shredder, in each of its versions and for any number of  *)
(* commands and any length of the input.                                   *)
(***************************************************************************)
EXTENDS Shredder, SequenceTheorems, FiniteSetTheorems, TLAPS

(***************************************************************************)
(* The inductive invariant.  What the handlers may rely on depends on      *)
(* where main stands: there is one command that has not been reaped from   *)
(* fork() to wait(), and childPid names it from its assignment on.         *)
(***************************************************************************)

\* A command that fork() made and wait() has not reaped.
Pending(p) == procs[p] \in {"forked", "running", "zombie"}

\* The versions make different calls.
OwnCalls ==
    /\ version = "1a" => pc \notin {"alarm0", "alarm"}
    /\ version = "starter" => pc \in {"fork", "assign", "failed", "wait"}

\* Only the latest command can be pending, and only between fork() and wait().
OnePending ==
    /\ \A p \in Pids : Pending(p) => p = forked /\ pc \in {"assign", "alarm", "wait"}
    /\ pc \in {"alarm", "wait"} => forked \in Pids
    /\ (pc \in {"assign", "alarm", "wait"} /\ forked \in Pids) => Pending(forked)
    /\ pc = "assign" => forked # 0

\* What childPid is where.
Named ==
    /\ pc \in {"alarm", "wait"} => childPid = forked
    /\ pc = "failed" => childPid = -1 /\ forked = -1
    /\ pc = "reset" => childPid \in Pids /\ procs[childPid] = "reaped"
    /\ (pc \in {"alarm0", "read", "examine", "fork", "assign"} /\ version # "starter")
          => childPid = 0
    /\ (pc \in {"fork", "assign"} /\ version = "starter")
          => childPid = 0 \/ (childPid \in Pids /\ procs[childPid] = "reaped")

AlarmOn == alarm => version = "1b" /\ pc \in {"wait", "reset", "alarm0"}

Inv == TypeOK /\ OwnCalls /\ OnePending /\ Named /\ AlarmOn

LEMMA PidsPositive ==
    /\ Pids \subseteq Nat \ {0}
    /\ 0 \notin Pids /\ -1 \notin Pids
BY CommandsAssumption DEF Pids

LEMMA InitInv == Init => Inv
<1> SUFFICES ASSUME Init PROVE Inv
  OBVIOUS
<1>1. TypeOK
  BY DEF Init, TypeOK, Prompt
<1>2. OwnCalls /\ Named /\ AlarmOn
  BY DEF Init, OwnCalls, Named, AlarmOn, Prompt
<1>3. OnePending
  BY DEF Init, OnePending, Pending, Prompt
<1> QED
  BY <1>1, <1>2, <1>3 DEF Inv

-----------------------------------------------------------------------------
(* One lemma for each of the three kinds of step: main, command, handler.  *)

LEMMA MainStep == ASSUME Inv, Main PROVE Inv'
<1> USE PidsPositive DEF Inv, TypeOK, OwnCalls, OnePending, Named, AlarmOn, Pending, text
<1> USE DEF Prompt, Await, Done
<1>1. CASE ResetAlarm
  BY <1>1, Main DEF ResetAlarm, Main, Main1b, Main1a, MainStarter
<1>2. CASE ReadCommand
  BY <1>2 DEF ReadCommand
<1>3. CASE Examine
  BY <1>3 DEF Examine
<1>4. CASE Fork
  <2>1. CASE forked' = -1 /\ UNCHANGED procs
    BY <1>4, <2>1 DEF Fork
  <2>2. ASSUME NEW p \in Pids, procs[p] = "none", forked' = p,
               procs' = [procs EXCEPT ![p] = "forked"]
        PROVE  Inv'
    BY <1>4, <2>2 DEF Fork
  <2> QED
    BY <1>4, <2>1, <2>2 DEF Fork
<1>5. CASE AssignPid
  BY <1>5 DEF AssignPid
<1>6. CASE ForkFailed
  BY <1>6 DEF ForkFailed
<1>7. CASE StartAlarm
  BY <1>7, Main DEF StartAlarm, Main, Main1b, Main1a, MainStarter
<1>8. CASE Wait
  <2> PICK p \in Pids : /\ procs[p] = "zombie"
                        /\ procs' = [procs EXCEPT ![p] = "reaped"]
    BY <1>8 DEF Wait
  <2> QED
    BY <1>8 DEF Wait
<1>9. CASE ResetPid
  BY <1>9 DEF ResetPid
<1> QED
  BY <1>1, <1>2, <1>3, <1>4, <1>5, <1>6, <1>7, <1>8, <1>9
     DEF Main, Main1b, Main1a, MainStarter

LEMMA CommandStep == ASSUME Inv, NEW p \in Pids, Exec(p) \/ Finish(p) PROVE Inv'
<1> PICK s \in {"running", "zombie"} : procs' = [procs EXCEPT ![p] = s]
  BY DEF Exec, Finish
<1>1. procs[p] \in {"forked", "running"}
  BY DEF Exec, Finish
<1>2. UNCHANGED <<pc, mode, childPid, forked, timeout, alarm, others, text>>
  BY DEF Exec, Finish
<1> QED
  BY <1>1, <1>2, PidsPositive
     DEF Inv, TypeOK, OwnCalls, OnePending, Named, AlarmOn, Pending, text

\* kill() ends commands and the shell, but reaps nobody.
LEMMA KillStep ==
    ASSUME Inv, KillChildProcess, UNCHANGED <<pc, childPid, forked, timeout, text>>,
           alarm' = alarm \/ alarm' = FALSE
    PROVE  Inv'
<1>1. procs' \in [Pids -> {"none", "forked", "running", "zombie", "reaped"}]
  BY DEF Inv, TypeOK, KillChildProcess, Alive
<1>2. \A p \in Pids : /\ Pending(p) <=> Pending(p)'
                      /\ procs[p] = "reaped" <=> procs'[p] = "reaped"
  BY DEF Inv, TypeOK, KillChildProcess, Alive, Pending
<1>3. mode' \in {"up", "exited", "killed"} /\ others' \in BOOLEAN
  BY DEF Inv, TypeOK, KillChildProcess
<1>4. TypeOK'
  BY <1>1, <1>3 DEF Inv, TypeOK, text
<1>5. OwnCalls'
  BY DEF Inv, OwnCalls, text
<1>6. OnePending'
  BY <1>2 DEF Inv, OnePending
<1>7. Named'
  BY <1>2 DEF Inv, Named, text
<1>8. AlarmOn'
  BY DEF Inv, AlarmOn, text
<1> QED
  BY <1>4, <1>5, <1>6, <1>7, <1>8 DEF Inv

LEMMA InvStep == Inv /\ [Next]_vars => Inv'
<1> SUFFICES ASSUME Inv, [Next]_vars PROVE Inv'
  OBVIOUS
<1>1. CASE Main
  BY <1>1, MainStep
<1>2. CASE \E p \in Pids : Exec(p) \/ Finish(p)
  BY <1>2, CommandStep
<1>3. CASE AlarmHandler
  BY <1>3, KillStep DEF AlarmHandler
<1>4. CASE UNCHANGED vars
  BY <1>4 DEF Inv, TypeOK, OwnCalls, OnePending, Named, AlarmOn, Pending, vars, text
<1>5. CASE SigintHandler
  <2>1. CASE childPid # 0
    BY <1>5, <2>1, KillStep DEF SigintHandler, Inv, TypeOK
  <2>2. CASE childPid = 0
    BY <1>5, <2>2, <1>4 DEF SigintHandler, vars, text
  <2> QED
    BY <2>1, <2>2
<1> QED
  BY <1>1, <1>2, <1>3, <1>4, <1>5 DEF Next, Over

LEMMA InvAlways == Spec => []Inv
  BY InitInv, InvStep, PTL DEF Spec

-----------------------------------------------------------------------------

\* The variables keep the values that the program gives them.
THEOREM TypeCorrect == Spec => []TypeOK
<1>1. Inv => TypeOK
  BY DEF Inv
<1> QED
  BY <1>1, InvAlways, PTL

\* However signals and commands interleave, no process of an earlier command is
\* left when the shell prompts, reads or forks: each is reaped before the next.
THEOREM NothingLeft == Spec => []NothingLeftAtPrompt
<1>1. Inv => NothingLeftAtPrompt
  BY DEF Inv, TypeOK, OnePending, Pending, NothingLeftAtPrompt
<1> QED
  BY <1>1, InvAlways, PTL

\* The two windows in which childPid, which the handlers use, is behind the
\* truth: after fork() and after wait(), up to the assignment that follows.
THEOREM ChildKnown == Spec => []KnowsItsChild
<1>1. Inv => KnowsItsChild
  BY PidsPositive DEF Inv, TypeOK, OwnCalls, OnePending, Named, Pending, Alive, KnowsItsChild
<1> QED
  BY <1>1, InvAlways, PTL

\* An alarm that is running belongs to the command the shell waits for, or has
\* just waited for.
THEOREM AlarmBelongs == Spec => []AlarmOnlyForItsCommand
<1>1. Inv => AlarmOnlyForItsCommand
  BY PidsPositive DEF Inv, TypeOK, OnePending, Named, AlarmOn, Pending, AlarmOnlyForItsCommand
<1> QED
  BY <1>1, InvAlways, PTL

Windows ==
    /\ (mode = "up" /\ mode' # "up") =>
             \/ pc \in {"read", "failed"} /\ mode' = "exited" /\ UNCHANGED procs
             \/ pc = "reset" /\ procs[childPid] = "reaped"
             \/ pc = "alarm0" /\ alarm
             \/ version = "starter" /\ pc \in {"fork", "assign"} /\ childPid # 0
    /\ others' # others => pc = "failed" /\ forked = -1

\* What a handler can do to the shell and to strangers, given what childPid is.
LEMMA KillWindows ==
    ASSUME Inv, KillChildProcess, childPid # 0 \/ alarm
    PROVE  Windows
<1> USE PidsPositive DEF Inv, TypeOK, KillChildProcess
<1>1. ASSUME mode' # mode
      PROVE  \/ pc = "reset" /\ procs[childPid] = "reaped"
             \/ pc = "alarm0" /\ alarm
             \/ version = "starter" /\ pc \in {"fork", "assign"} /\ childPid # 0
  <2>1. CASE childPid = 0
    BY <2>1 DEF AlarmOn, Named, OnePending
  <2>2. CASE childPid > 0 /\ procs[childPid] = "reaped"
    BY <2>2 DEF Named, OnePending, OwnCalls, Pending
  <2> QED
    BY <1>1, <2>1, <2>2
<1>2. ASSUME others' # others PROVE pc = "failed" /\ forked = -1
  <2>1. childPid = -1
    BY <1>2
  <2> QED
    BY <2>1 DEF Named, OnePending, OwnCalls
<1> QED
  BY <1>1, <1>2 DEF Windows

\* A signal can end the shell only in the named windows, and reaches processes of
\* others only after a fork() that failed.
THEOREM SignalsHaveWindows == Spec => DeathWindows
<1>1. ASSUME Inv, [Next]_vars PROVE [Windows]_vars
  <2>1. CASE Main
    BY <1>1, <2>1 DEF Main, Main1b, Main1a, MainStarter, ResetAlarm, ReadCommand, Examine, Fork,
          AssignPid, ForkFailed, StartAlarm, Wait, ResetPid, Windows
  <2>2. CASE \E p \in Pids : Exec(p) \/ Finish(p)
    BY <2>2 DEF Exec, Finish, Windows
  <2>3. CASE AlarmHandler
    BY <1>1, <2>3, KillWindows DEF AlarmHandler
  <2>4. CASE SigintHandler
    BY <1>1, <2>4, KillWindows DEF SigintHandler, Windows
  <2>5. CASE UNCHANGED vars
    BY <2>5
  <2> QED
    BY <1>1, <2>1, <2>2, <2>3, <2>4, <2>5 DEF Next, Over
<1> QED
  BY <1>1, InvAlways, PTL DEF Spec, DeathWindows, Windows

-----------------------------------------------------------------------------
(***************************************************************************)
(* The command line.  What read() returned is in input from then on until  *)
(* fork(); there it has passed the tests for a blank line.                 *)
(***************************************************************************)
InputKept ==
    /\ pc = "examine" => input \in Inputs
    /\ (pc = "fork" /\ version # "starter") => input \in Inputs /\ ~Refused

LEMMA FirstIs ==
    ASSUME NEW S, S \subseteq Nat, S # {}
    PROVE  First(S) \in S /\ \A j \in S : First(S) <= j
<1>1. PICK k \in S : \A j \in S : ~ (<<j, k>> \in OpToRel(<, Nat))
  BY WFMin, NatLessThanWellFounded
<1>2. \A j \in S : k <= j
  <2> TAKE j \in S
  <2>1. j \in Nat /\ k \in Nat
    OBVIOUS
  <2>2. ~ (j < k)
    BY <1>1, <2>1 DEF OpToRel
  <2> QED
    BY <2>1, <2>2
<1> QED
  BY <1>2 DEF First

LEMMA LastIs ==
    ASSUME NEW n \in Nat, NEW S, S \subseteq 1 .. n, S # {}
    PROVE  Last(S) \in S /\ \A j \in S : j <= Last(S)
<1> DEFINE D == {n - k : k \in S}
<1>1. D \subseteq Nat /\ D # {}
  <2>1. \A k \in S : n - k \in Nat
    OBVIOUS
  <2> QED
    BY <2>1
<1>2. PICK d \in D : \A e \in D : d <= e
  BY <1>1, FirstIs
<1>3. PICK k \in S : d = n - k
  BY <1>2
<1>4. \A j \in S : j <= k
  <2> TAKE j \in S
  <2>1. n - k <= n - j
    BY <1>2, <1>3
  <2> QED
    BY <2>1
<1> QED
  BY <1>3, <1>4 DEF Last

LEMMA InputIsText ==
    ASSUME input \in Inputs
    PROVE  /\ input \in Seq(Characters)
           /\ Len(input) \in Nat \ {0}
           /\ input \in [1 .. Len(input) -> Characters]
<1>1. PICK n \in 1 .. MaxInput : input \in [1 .. n -> Characters]
  BY DEF Inputs
<1>2. n \in Nat \ {0}
  BY CommandsAssumption
<1>3. input \in Seq(Characters)
  BY <1>1, <1>2, SeqDef
<1>4. Len(input) = n
  BY <1>1, <1>2
<1> QED
  BY <1>1, <1>2, <1>3, <1>4

\* The line is the input up to, not including, its first newline.
LEMMA LineIs ==
    ASSUME input \in Inputs
    PROVE  \E n \in 0 .. Len(input) :
             /\ UpToNewline(input) \in Seq(Characters)
             /\ Len(UpToNewline(input)) = n
             /\ \A k \in 1 .. n : /\ UpToNewline(input)[k] = input[k]
                                  /\ input[k] # "newline"
             /\ n < Len(input) => input[n + 1] = "newline"
<1> DEFINE N == Where(input, {"newline"})
<1>0. /\ input \in Seq(Characters) /\ Len(input) \in Nat
      /\ input \in [1 .. Len(input) -> Characters]
  BY InputIsText
<1>1. N = {k \in 1 .. Len(input) : input[k] = "newline"}
  BY <1>0 DEF Where
<1>2. CASE N = {}
  <2>1. UpToNewline(input) = input
    BY <1>2 DEF UpToNewline
  <2>2. \A k \in 1 .. Len(input) : input[k] # "newline"
    BY <1>1, <1>2
  <2>3. /\ UpToNewline(input) \in Seq(Characters)
        /\ Len(UpToNewline(input)) = Len(input)
    BY <1>0, <2>1
  <2>4. \A k \in 1 .. Len(input) : UpToNewline(input)[k] = input[k]
    BY <2>1
  <2> Len(input) \in 0 .. Len(input)
    BY <1>0
  <2> WITNESS Len(input) \in 0 .. Len(input)
  <2> QED
    BY <1>0, <2>2, <2>3, <2>4
<1>3. CASE N # {}
  <2>1. PICK m \in N : m = First(N) /\ \A j \in N : m <= j
    BY <1>1, <1>3, FirstIs
  <2>2. m \in 1 .. Len(input) /\ input[m] = "newline"
    BY <1>1, <2>1
  <2>3. UpToNewline(input) = SubSeq(input, 1, m - 1)
    BY <1>3, <2>1 DEF UpToNewline
  <2>4. \A k \in 1 .. m - 1 : input[k] \in Characters /\ input[k] # "newline"
    <3> TAKE k \in 1 .. m - 1
    <3>1. k \in 1 .. Len(input) /\ ~ (m <= k)
      BY <1>0, <2>2
    <3> QED
      BY <1>0, <1>1, <2>1, <3>1
  <2>5. /\ UpToNewline(input) \in Seq(Characters)
        /\ Len(UpToNewline(input)) = m - 1
        /\ \A k \in 1 .. m - 1 : UpToNewline(input)[k] = input[k]
    <3>1. 1 \in Int /\ m - 1 \in Int /\ m \in Nat \ {0}
      BY <1>0, <2>2
    <3>2. /\ SubSeq(input, 1, m - 1) \in Seq(Characters)
          /\ Len(SubSeq(input, 1, m - 1)) = IF 1 <= m - 1 THEN m - 1 - 1 + 1 ELSE 0
          /\ \A k \in 1 .. m - 1 - 1 + 1 : SubSeq(input, 1, m - 1)[k] = input[1 + k - 1]
      BY <2>4, <3>1, SubSeqProperties
    <3> QED
      BY <2>3, <3>1, <3>2
  <2>6. m - 1 \in 0 .. Len(input) /\ m - 1 + 1 = m
    BY <1>0, <2>2
  <2>7. input[m - 1 + 1] = "newline"
    BY <2>2, <2>6
  <2> m - 1 \in 0 .. Len(input)
    BY <2>6
  <2> WITNESS m - 1 \in 0 .. Len(input)
  <2> QED
    BY <2>4, <2>5, <2>7
<1> QED
  BY <1>2, <1>3

\* A command is the part of the line from its first to its last visible
\* character.
LEMMA CommandIs ==
    ASSUME input \in Inputs, Where(UpToNewline(input), {"other"}) # {}
    PROVE  \E a, b \in 1 .. Len(input) :
               /\ Command = SubSeq(input, a, b) /\ Command # << >>
               /\ a <= b /\ {input[a], input[b]} = {"other"}
               /\ \A k \in 1 .. b : input[k] # "newline" /\ (k < a => input[k] = "space")
               /\ \A k \in b + 1 .. Len(input) :
                     input[k] = "other" => \E j \in b .. k : input[j] = "newline"
<1> DEFINE line == UpToNewline(input)
           V == Where(line, {"other"})
<1>1. /\ input \in Seq(Characters) /\ Len(input) \in Nat
      /\ input \in [1 .. Len(input) -> Characters]
  BY InputIsText
<1>2. PICK n \in 0 .. Len(input) :
             /\ line \in Seq(Characters)
             /\ Len(line) = n
             /\ \A k \in 1 .. n : line[k] = input[k] /\ input[k] # "newline"
             /\ n < Len(input) => input[n + 1] = "newline"
  BY LineIs
<1>3. DOMAIN line = 1 .. n
  BY <1>2, LenProperties
<1>4. V = {k \in 1 .. n : input[k] = "other"}
  BY <1>2, <1>3 DEF Where
<1>5. n \in Nat /\ n <= Len(input)
  BY <1>1, <1>2
<1>6. PICK a \in V : a = First(V) /\ \A j \in V : a <= j
  <2>1. V \subseteq Nat
    BY <1>4
  <2> QED
    BY <2>1, FirstIs
<1>7. PICK b \in V : b = Last(V) /\ \A j \in V : j <= b
  <2>1. V \subseteq 1 .. n
    BY <1>4
  <2> QED
    BY <1>5, <2>1, LastIs
<1>8. /\ a \in 1 .. n /\ b \in 1 .. n
      /\ input[a] = "other" /\ input[b] = "other"
      /\ a <= b
  BY <1>4, <1>6, <1>7
<1>9. a \in 1 .. Len(input) /\ b \in 1 .. Len(input)
  BY <1>1, <1>5, <1>8
<1>10. Command = SubSeq(line, a, b)
  BY <1>6, <1>7 DEF Command, Trimmed
<1>11. SubSeq(line, a, b) = SubSeq(input, a, b) /\ SubSeq(line, a, b) # << >>
  <2>1. a \in Int /\ b \in Int /\ b - a + 1 \in Nat \ {0}
    BY <1>8
  <2>2. \A k \in a .. b : k \in 1 .. n /\ line[k] = input[k] /\ input[k] \in Characters
    BY <1>1, <1>2, <1>5, <1>8
  <2>3. /\ SubSeq(line, a, b) \in Seq(Characters)
        /\ Len(SubSeq(line, a, b)) = b - a + 1
        /\ \A k \in 1 .. b - a + 1 : SubSeq(line, a, b)[k] = line[a + k - 1]
    BY <1>8, <2>1, <2>2, SubSeqProperties
  <2>4. /\ SubSeq(input, a, b) \in Seq(Characters)
        /\ Len(SubSeq(input, a, b)) = b - a + 1
        /\ \A k \in 1 .. b - a + 1 : SubSeq(input, a, b)[k] = input[a + k - 1]
    BY <1>8, <2>1, <2>2, SubSeqProperties
  <2>5. \A k \in 1 .. b - a + 1 : SubSeq(line, a, b)[k] = SubSeq(input, a, b)[k]
    <3> TAKE k \in 1 .. b - a + 1
    <3>1. a + k - 1 \in a .. b
      BY <2>1
    <3> QED
      BY <2>2, <2>3, <2>4, <3>1
  <2>6. SubSeq(line, a, b) = SubSeq(input, a, b)
    BY <2>3, <2>4, <2>5, SeqEqual
  <2>7. Len(<< >>) = 0
    OBVIOUS
  <2> QED
    BY <2>1, <2>3, <2>6, <2>7
<1>12. \A k \in 1 .. b : input[k] # "newline" /\ (k < a => input[k] = "space")
  <2> TAKE k \in 1 .. b
  <2>1. k \in 1 .. n /\ k \in 1 .. Len(input)
    BY <1>5, <1>8, <1>9
  <2>2. input[k] \in Characters /\ input[k] # "newline"
    BY <1>1, <1>2, <2>1
  <2>3. k < a => input[k] # "other"
    BY <1>4, <1>6, <1>8, <2>1
  <2> QED
    BY <2>2, <2>3 DEF Characters
<1>13. \A k \in b + 1 .. Len(input) :
          input[k] = "other" => \E j \in b .. k : input[j] = "newline"
  <2> SUFFICES ASSUME NEW k \in b + 1 .. Len(input), input[k] = "other"
               PROVE  \E j \in b .. k : input[j] = "newline"
    OBVIOUS
  <2>1. k \in Nat /\ b < k /\ k <= Len(input)
    BY <1>1, <1>8
  <2>2. k \notin V
    BY <1>7, <1>8, <2>1
  <2>3. n < k
    BY <1>4, <1>5, <1>8, <2>1, <2>2
  <2>4. n + 1 \in b .. k /\ n < Len(input)
    BY <1>1, <1>5, <1>8, <2>1, <2>3
  <2> QED
    BY <1>2, <2>4
<1>14. {input[a], input[b]} = {"other"}
  BY <1>8
<1>15. Command = SubSeq(input, a, b) /\ Command # << >>
  BY <1>10, <1>11
<1> QED
  BY <1>8, <1>9, <1>12, <1>13, <1>14, <1>15

\* The test for a blank line: all characters but one are spaces.
LEMMA AllSpaceIs ==
    ASSUME input \in Inputs, AllSpace(input)
    PROVE  \E q \in 1 .. Len(input) : \A k \in 1 .. Len(input) : input[k] # "space" <=> k = q
<1> DEFINE W == Where(input, {"space"})
           X == (1 .. Len(input)) \ W
<1>1. Len(input) \in Nat /\ DOMAIN input = 1 .. Len(input)
  BY InputIsText
<1>2. W = {k \in 1 .. Len(input) : input[k] = "space"}
  BY <1>1 DEF Where
<1>3. IsFiniteSet(1 .. Len(input)) /\ Cardinality(1 .. Len(input)) = Len(input)
  <2>1. 1 \in Int /\ Len(input) \in Int
    BY <1>1
  <2>2. /\ IsFiniteSet(1 .. Len(input))
        /\ Cardinality(1 .. Len(input)) = IF 1 > Len(input) THEN 0 ELSE Len(input) - 1 + 1
    BY <2>1, FS_Interval
  <2> QED
    BY <1>1, <2>2
<1>4. (1 .. Len(input)) \cap W = W
  BY <1>2
<1>6. Cardinality(W) = Len(input) - 1
  BY DEF AllSpace
<1> HIDE DEF W
<1>5. IsFiniteSet(X) /\ Cardinality(X) = Cardinality(1 .. Len(input)) - Cardinality(W)
  <2> DEFINE L == 1 .. Len(input)
  <2>1. IsFiniteSet(L) /\ L \cap W = W
    BY <1>3, <1>4
  <2> HIDE DEF L
  <2>2. IsFiniteSet(L \ W) /\ Cardinality(L \ W) = Cardinality(L) - Cardinality(L \cap W)
    BY <2>1, FS_Difference
  <2> QED
    BY <2>1, <2>2 DEF L
<1>7. Cardinality(X) = 1
  BY <1>1, <1>3, <1>5, <1>6
<1>8. PICK q : X = {q}
  BY <1>5, <1>7, FS_Singleton
<1>9. q \in 1 .. Len(input)
  BY <1>8
<1>10. \A k \in 1 .. Len(input) : input[k] # "space" <=> k = q
  BY <1>2, <1>8
<1> QED
  BY <1>9, <1>10

LEMMA InputStep == Inv /\ InputKept /\ [Next]_vars => InputKept'
<1> SUFFICES ASSUME Inv, InputKept, [Next]_vars PROVE InputKept'
  OBVIOUS
<1>0. version \in {"1b", "1a", "starter"}
  BY DEF Inv, TypeOK
<1>1. ASSUME UNCHANGED <<pc, version, input>> PROVE InputKept'
  BY <1>1 DEF InputKept, Refused, AllSpace, Command, UpToNewline
<1>2. CASE Main
  <2>1. ASSUME pc' \notin {"examine", "fork"} PROVE InputKept'
    BY <2>1 DEF InputKept
  <2>2. CASE ReadCommand
    BY <1>1, <2>2 DEF ReadCommand, InputKept
  <2>3. CASE Examine
    <3>1. CASE Refused
      BY <1>0, <2>3, <3>1 DEF Examine, InputKept, Prompt, text
    <3>2. CASE ~Refused
      <4>1. Refused' = Refused
        BY <2>3 DEF Examine, text, Refused, AllSpace, Command, UpToNewline
      <4> QED
        BY <2>3, <3>2, <4>1 DEF Examine, InputKept, text
    <3> QED
      BY <3>1, <3>2
  <2>4. CASE Fork \/ AssignPid \/ ForkFailed \/ StartAlarm \/ ResetAlarm
    <3>1. CASE ForkFailed
      BY <1>1, <3>1 DEF ForkFailed, text
    <3> QED
      BY <2>1, <2>4, <3>1 DEF Fork, AssignPid, StartAlarm, ResetAlarm, Await
  <2>5. CASE Wait \/ ResetPid
    BY <1>0, <2>5 DEF Wait, ResetPid, Done, Prompt, InputKept, text
  <2> QED
    BY <1>2, <2>2, <2>3, <2>4, <2>5 DEF Main, Main1b, Main1a, MainStarter
<1>3. CASE \E p \in Pids : Exec(p) \/ Finish(p)
  BY <1>1, <1>3 DEF Exec, Finish, text
<1>4. CASE AlarmHandler \/ SigintHandler
  BY <1>1, <1>4 DEF AlarmHandler, SigintHandler, text
<1>5. CASE UNCHANGED vars
  BY <1>1, <1>5 DEF vars, text
<1> QED
  BY <1>2, <1>3, <1>4, <1>5 DEF Next, Over

\* Whatever line is typed and however it arrives, the command that is forked for
\* is the first line without its outer spaces, and what is refused is blank, or a
\* single visible character that no newline ends.
THEOREM CommandTyped == Spec => []CommandAsTyped
<1>1. Init => InputKept
  BY DEF Init, InputKept, Prompt
<1>2. InputKept => CommandAsTyped
  <2> SUFFICES ASSUME InputKept PROVE CommandAsTyped
    OBVIOUS
  <2>1. ASSUME pc = "fork", version # "starter"
        PROVE  \E a, b \in 1 .. Len(input) :
               /\ Command = SubSeq(input, a, b)
               /\ a <= b /\ {input[a], input[b]} = {"other"}
               /\ \A k \in 1 .. b : input[k] # "newline" /\ (k < a => input[k] = "space")
               /\ \A k \in b + 1 .. Len(input) :
                     input[k] = "other" => \E j \in b .. k : input[j] = "newline"
    <3>1. input \in Inputs /\ Command # << >>
      BY <2>1 DEF InputKept, Refused
    <3>2. Where(UpToNewline(input), {"other"}) # {}
      BY <3>1 DEF Command, Trimmed
    <3> QED
      BY <3>1, <3>2, CommandIs
  <2>2. ASSUME pc = "examine", Refused, Where(UpToNewline(input), {"other"}) # {}
        PROVE  Where(input, {"newline"}) = {} /\ Cardinality(Where(input, {"other"})) = 1
    <3>1. input \in Inputs
      BY <2>2 DEF InputKept
    <3>2. PICK a \in 1 .. Len(input) : input[a] = "other" /\ Command # << >>
      BY <2>2, <3>1, CommandIs
    <3>3. PICK q \in 1 .. Len(input) :
             \A k \in 1 .. Len(input) : input[k] # "space" <=> k = q
      BY <2>2, <3>1, <3>2, AllSpaceIs DEF Refused
    <3>4. DOMAIN input = 1 .. Len(input)
      BY <3>1, InputIsText
    <3>5. Where(input, {"newline"}) = {} /\ Where(input, {"other"}) = {a}
      BY <3>2, <3>3, <3>4 DEF Where
    <3>6. Cardinality({a}) = 1
      BY FS_Singleton
    <3> QED
      BY <3>5, <3>6
  <2> QED
    BY <2>1, <2>2 DEF CommandAsTyped
<1> QED
  BY <1>1, <1>2, InputStep, InvAlways, PTL DEF Spec
=============================================================================
