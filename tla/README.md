# TLA+ models of the systems programs in this repository

This directory holds TLA+ modules, TLC configurations and TLAPS proofs for the
programs of the repository that have something to get wrong when several
actors take their steps in an order nobody tried: the handshake servers of
`project3a`, `project3b` and `project3c`, the shells of `project1a`, `project1b`,
`project2a` and `project2b`, the bounded buffer and the two fuel stations of
`CodeVault_*`, and the HTTP clients of `M12_PlayWithSourceCode_pselect`.

Each model has one action per system call (or per access to shared memory) of
the program, because that is where another process, thread or signal can come
in between. Everything between two such calls is one step. Numbers and messages
are kept as numbers; wording, logging and the layout of buffers are left out.

## 1. Inventory

| Part | Source | State | Operations | What is hard about it |
|---|---|---|---|---|
| TCP clients | `project3*/tcpclient.c` | `xNum`, `yNum`, the connection | connect, send X, receive Y, check it, send Z = Y + 1, close | int overflow, a server that disappears, being killed half way |
| Sequential server | `project3a/tcpserver.c` | the current connection, `yNum`, the accept queue | accept, receive and print X, send Y, receive, check and print Z, close | one silent or dead client holds up, or ends, all others |
| Threaded server | `project3b/multi-tcpserver.c`, `tcp.sh` | `new_s`, shared by all threads; the table of open files | the same, in a thread per connection | threads read `new_s` late; descriptors are closed and used again |
| `select()` server | `project3c/async-tcpserver.c` | `rfds`, `maxfd`, three parallel arrays, `new_sockets_i` | select, accept, scan of the table, the two handlers | what select() reported is used after other steps; the table fills up |
| penn-shredder | `project1b/penn-shredder.c`, and the earlier versions `project1a` and `Project1-StarterCode` | `childPid`, the alarm clock, the child, `inputBuffer` | read, trim, fork, alarm, wait, reset; SIGINT, SIGALRM | signals between any two calls; a fork() that fails; input that does not end as expected |
| penn-sh | `project2b/penn-sh.c`, and without pipes `project2a/penn-sh.c` | `pid`, the parsed line, two children, a pipe | read, parse, pipe, fork, close, wait; redirect and exec in the children; SIGINT | who holds which end of the pipe; the order in which children end; failures half way |
| Tokenizer | `project2b/tokenizer.c` | string and position | get_next_token | where spaces are skipped |
| Bounded buffer | `CodeVault_BoundedBuffer/bounded_buffer.c` | `buffer`, `count`, two semaphores, a mutex | produce, consume | data races, lost cells, deadlock |
| Condition variables | `CodeVault_ConditionVariable/`, `CodeVault_ConditionVariable2/` | `fuel`, `mutexFuel`, `condFuel` | fill, wait, drive off, signal or broadcast; create and join | lost and spurious wake-ups, lost updates, a thread that nobody wakes |
| HTTP clients | `M12_PlayWithSourceCode_pselect/` | three connections, `rfds`, `count_down` | connect, send, pselect, recv, close | slow, resetting and silent servers; a select() result used while sockets are closed |
| Signal masks | `M4_PlayWithSourceCode/ctrlc_blocked*.c` | the mask, a flag | block, unblock, handlers | not modelled (section 6) |
| The rest | see the end of section 6 | | | examples of single calls |

How the parts meet: a client and a server exchange three messages, `HELLO X`,
`HELLO X+1` and `HELLO X+2`, over one TCP connection; `tcp.sh` starts many
clients with a pause of 0.1 s between them. The shells share nothing with the
servers. penn-sh calls the tokenizer for every line. The HTTP clients talk to
servers on the Internet, which are modelled by what they may do. Versions of one
program are one module: a variable that never changes (`version`, `program`, `paced`)
says which of them a behaviour belongs to.

What makes each part correct:

* servers: both messages of every client are printed, once and in order; nobody
  gets a wrong answer; a client fails only if it was killed or the server is
  gone (the threaded server without a pause between its clients promises less, see 2.3);
  everybody comes to an end; the server never blocks where it must not.
* shells: no child is left behind; a signal reaches the command it is meant for
  and nobody else; the prompt comes back; the commands of a pipeline get
  the streams that were typed, and the pipeline ends when either of them does.
* tokenizer: no text is lost, and the tokens are those its README describes.
* fuel stations: no update of `fuel` is lost, no car takes fuel that is not there or
  sleeps beside fuel it could have.
* HTTP clients: every page is printed, in the order promised, and the program ends
  for no other reason than the servers'.
* bounded buffer: no race, no cell lost or used twice, no access out of
  bounds, nobody stuck.

## 2. Modules

| Module | Models | Uses |
|---|---|---|
| `HandshakeService` | abstract: what a handshake server promises, whatever its concurrency | |
| `HandshakeNet` | the clients, their connections, and the pieces of system calls the servers share | `HandshakeService` (refinement) |
| `SeqServer` | `project3a/tcpserver.c` | `HandshakeNet` |
| `MultiServer` | `project3b/multi-tcpserver.c` and `tcp.sh` | `HandshakeNet` |
| `AsyncServer` | `project3c/async-tcpserver.c` | `HandshakeNet` |
| `Shredder` | the three versions of `penn-shredder.c` | |
| `CommandLine` | `tokenizer.c` and the parsing in both versions of `penn-sh.c` | |
| `PennSh` | the rest of `project2b/penn-sh.c` and `project2a/penn-sh.c` | `CommandLine` |
| `FuelStation` | `condition_variable.c` and `condition_variable_broadcast.c` | |
| `HttpClients` | `httpclient-block.c` and `httpclient-nonblock.c` | |
| `BoundedStack` | abstract: what the buffer is to its threads | |
| `BoundedBuffer` | `CodeVault_BoundedBuffer/bounded_buffer.c` | `BoundedStack` (refinement) |
| `HandshakeNetProofs` | lemmas for all three servers: what a client's step leaves alone, the stages of one conversation, and what clients may rely on | `HandshakeNet` |
| `SeqServerProofs`, `MultiServerProofs`, `AsyncServerProofs` | theorems: the three servers | the server, `HandshakeNetProofs` |
| `ShredderProofs`, `PennShProofs`, `HttpClientsProofs` | theorems and lemmas | the modules they name |
| `CodeVaultProofs` | theorems and lemmas: the threaded programs | `BoundedBuffer`, `FuelStation` |
| `MC...` | the instances TLC checks | |

Definitions whose comment starts with "Mutant of" are broken variants of the
definition that follows them. They are used in no specification; each was put
in the place of the original once to see that some property notices.

### 2.1 Clients and connections (`HandshakeNet`)

`cpc[c]` is the call client `c` is about to make. `toServer[c]` and
`toClient[c]` are the two directions of its connection. A recv() takes all
that has arrived and `sscanf` parses the first message of it; that this is
right depends on `AtMostOneInFlight`, which is checked and proved for each server as long as it keeps its
promise (`WithinTable`, `InOrder`). `recv()` returning 0
leaves the zeroed buffer, on which `sscanf` returns EOF, so end of file and
error are the same `exit(1)`, both in the client and in the servers (except in
`handle_first_shake`, see 2.4). A send to a peer that is gone loses the message
and may kill the client by SIGPIPE. `Wrap` is int arithmetic as the build does
it. `Kill` kills a client from outside; only members of `Fragile` are killed.
The kernel keeps one connection more than the argument of `listen` in the
accept queue.

### 2.2 Sequential server (`SeqServer`)

`spc` is the call the server is about to make, `cur` its `new_s`, `sy` its
`yNum`. `Accept`, `RecvX`, `SendY`, `RecvZ` and `CloseConn` are the calls of the
loop, and `HungUp` is each of the exits after a recv() without a message.

### 2.3 Threaded server (`MultiServer`)

`mpc`, `newS` and `nthreads` belong to main; `tpc`, `tfd` and `ty` are what each
thread keeps. The thread gets the address of `new_s`: `Start` reads `newS` at the
time the thread first runs. Connections are reached through `fdTable`, because
two threads that share a descriptor close it under each other and `accept()`
gives the number out again. A recv() under way (`tcon`) keeps its file open.
`accept()` reserves its descriptor when it is called, hence `CallAccept` before
`Accept`.

A thread that meets an error closes its `new_socket` and then calls exit(1)
(`multi-tcpserver.c:98-102`, `:109-113`, `:130-134`, `:137-141`, `:143-147`): two
steps, `CloseFd` at `"abort"` and `ExitAll` at `"exit"`, because the number may by
then stand for the connection of another client, and until exit(1) main and the
other threads go on. `InOrder` says that no thread is between these two steps, or that clients
are paced, when the connection closed is the thread's own. What the server promises depends on it: paced, it
implements the steady `HandshakeService`; not paced, the unsteady one, whose server breaks
down when `InOrder` ends, and of which nothing is promised between that close and exit(1).
A message that is still answered there may be the second in flight, of which `recv()` in the
model takes one; all that can follow is covered, since the service allows any output there.

`paced`, which is chosen at the start, models the pause of `tcp.sh`: the next client starts when main
waits in accept() and every thread has read `new_s`; threads may still be in the
middle of their handshakes.

### 2.4 `select()` server (`AsyncServer`)

`new_sockets`, `handshake_flags` and `handshake_xNums` lie one after the other on
the stack of the build in `project3c`, and `new_sockets_i` is never checked, so the
three arrays are one function, `frame`, with the accessors `Sock`, `Flag` and
`XNum`; `handshake_xNums` starts with anything (`Junk`). `Select`, `Accept` /
`SkipAccept`, and then one step per slot of the scan: `FirstShake`,
`FirstShakeEmpty`, `SecondShake` or `SkipSlot`, and `EndScan`. `ready`
(`temp_rfds`) is computed by `Select` and used until `EndScan`, while clients go
on. `FirstShakeEmpty` is the end of file in `handle_first_shake`, whose buffer is
not initialised: the server exits, or takes some number for X.

### 2.5 penn-shredder (`Shredder`)

`version` is `project1b` ("1b"), `project1a` ("1a", the same without the alarm clock) or
the starter code ("starter", which runs `/bin/ls` again and again and never resets
`childPid`). `pc` is the next call or assignment of main; `childPid` and the alarm are
as in the program; `procs` is the process table as far as it concerns the shell.
`fork()` and the assignment of `childPid` are two steps (`Fork`, `AssignPid`) with the
child running in between, and so are `wait()` and `childPid = 0` (`Wait`, `ResetPid`). A
handler is one step that can be taken at any time. `KillChildProcess` distinguishes the
four things `kill(childPid, SIGKILL)` can do: kill the child, fail because it was reaped
(the shell exits), kill the process group for `childPid = 0`, or, for `childPid = -1`
after a fork() that failed, kill every other process of the user (`others`).

`input` is what one read() returned, as characters of three kinds; `AllSpace`,
`UpToNewline` and `Trimmed` are the steps of `getCommandFromInput`, and `Refused` the
two conditions under which the shell prompts again.

### 2.6 penn-sh and its tokenizer (`CommandLine`, `PennSh`)

`NextToken(s, p)` is `get_next_token` on the string `s` at position `p`, and `Tokens`
the loop that calls it. `TreatToken` is one round of the loop in `executeShell`
with `treatTok`, `TreatPlainToken` the one of `project2a`; the token after `<` or `>` is
taken as its name, whatever it is. `ParseIn` gives what the rest of the program looks
at: whether there is a pipe, and the lengths of the three lists of each stage.

What these should be is defined without the position and without the state of a
loop: `WithoutSpaces` is the text of the line, `Starts` and `Described` are the tokens by
the README's description, each found by looking at the character before it, and
`Names`, `Bars`, `Arguments` tell the kinds of the tokens.

`PennSh` has the version ("2a" or "2b"), the shell's calls (`spc`), the line it has read
(`line`) and what it parsed (`command`), the two children (`procs`) and the pipe:
`ends` says which process holds which end, whether as `fd[0]`, `fd[1]`, stdin or
stdout. In `project2b` either fork() of a pipeline may fail unnoticed, and a file that
does not open ends the child; in `project2a` it is not noticed and the command keeps the
terminal (`SetupPlain`), and a `fork()` that fails leaves `pid` at -1 for a moment. execvp()
may fail. `Write` and `Read` are the commands' use of the pipe: a write
blocks when the pipe is full and kills the writer when nobody holds the read
end; a read blocks on an empty pipe and meets the end of file when nobody holds
the write end.

### 2.7 Bounded buffer (`BoundedBuffer`)

One action per semaphore call, mutex call and access to `buffer` or `count`.
Neither semaphores nor mutex are fair.

### 2.8 Condition variables (`FuelStation`)

`program` 1 has a station and one car and calls `pthread_cond_signal`; program 2 has four
cars and calls `pthread_cond_broadcast`. `fuel += n` is `Load` and `Store`; `Check` is the
`while` condition, which under `pthread_cond_wait` releases the mutex and goes to sleep in
one step. `Notify` is the call on the condition, made after the unlock; what finds
nobody asleep is gone. `WakeUnasked` is a spurious wake-up. `main` creates and joins.

### 2.9 HTTP clients (`HttpClients`)

`program` is "block" or "nonblock". Both connect to all servers and send all requests
(`Connect`, `Ask`); then the first receives page after page (`RecvBlocking`), and the
second waits in `pselect` (`Select`) and scans the sockets (`RecvReady`, `SkipSocket`) with what
`pselect` said, while data and ends of pages go on arriving. A page is a number of
chunks and ends with a FIN or a reset. The `break` on a failed recv() leaves the loop
(`gaveUp`). `FD_ISSET` with the -1 of a closed socket reads bit 63 of the set in the
unoptimised x86-64 build; it is never set.

## 3. Runs

| Run | Instance | Shows |
|---|---|---|
| `SeqServer` | 3 clients, 2 of which may be killed; accept queue for 1 + 1; ints of 4 bits with X = 0 and X = INT_MAX | one message in flight; strictly one client at a time; the server implements `HandshakeService`; every client ends; a server that stays up prints everything |
| `MultiServer` | 3 clients, started as by `tcp.sh` or at any moment, 1 may be killed | paced, every thread has a descriptor and a connection of its own and the server implements `HandshakeService`; not paced, it implements the unsteady `HandshakeService` (until a thread closes its descriptor on an error nobody gets a wrong answer or fails without being killed; from that close to exit(1) the connections of others can break), and a server that is alive with all threads finished has printed both messages of every connection it took |
| `MultiServerEnds` | 2 clients at any moment, 1 may be killed | every client ends; two threads on one descriptor end the server |
| `MultiServerLost` (violation) | 2 clients at any moment, nobody killed | the second accept() overwrites `new_s` before the first thread reads it, and messages are never printed |
| `AsyncServer` | 2 clients, a table of 2, 1 client may be killed | table, files and conversations agree; select() waits for exactly the open files and no handler blocks; the server implements `HandshakeService`; everybody ends |
| `AsyncServerFull` (violation) | 2 clients, a table of 1 | the connection that does not fit is accepted and never served |
| `Shredder` | 3 versions, 5 commands, inputs of up to 4 characters | nothing is left at the prompt; `childPid` names a process that is gone only between wait() and its reset, and misses a live child only between fork() and its assignment; an alarm belongs to its command; where a signal can end the shell or reach strangers; the command that runs is the one that was typed; the prompt comes back after the timeout |
| `ShredderSigint` (violation) | 1 command | a SIGINT after wait() exits the shell |
| `PennSh` | both versions, every line of at most 5 characters over `a`, space, `\|`, `&`, `<`, `>`; a pipe for 2 items | type invariant, which also says which parses each version can reach; tokens and counts; the prompt is clean; commands get the streams that were typed and hold no other end of the pipe; a pipeline ends with either command; what can end the shell |
| `BoundedBuffer` | 2 producers, 2 consumers, 2 cells, 2 values | no race; all cells accounted for; in bounds; a bounded stack; values keep flowing |
| `FuelStation` | both programs, all their threads and rounds, 2 spurious wake-ups | no lost update, no fuel taken that is not there; no lost wake-up; program 1 ends, program 2 leaves one car asleep and main joining it |
| `HttpClients` | both programs, their 3 servers, pages of at most 2 chunks | the blocking client prints page after page; the other ends when all pages are complete or at the first reset, and no silent server holds up what others have sent |

The run `MultiServer` declares the two clients that nobody kills symmetric: they have the same inputs,
and the run checks safety only. The other runs with clients use no symmetry.

Why these bounds are enough to be interesting. Two clients are the fewest that
share `new_s`, and with three, a descriptor that one thread closed is given to a
third connection while another thread still uses it. Ints of 4 bits wrap as
ints of 32 bits do, and X = INT_MAX makes both Y and Z wrap. The accept queue is
smaller than the number of clients, so connect() has to wait. The overrun of
the connection table reaches the flags with the second and the numbers with the
third connection. Five commands are more than a stale `childPid` or a left-over
alarm needs to do harm to the next. Five characters are enough for every
combination of two operators and their names, for pipelines with a redirection,
and for every pair of delimiters with or without space. A pipe of two items can
be empty, partly full and full.

Four characters are enough for a command between two
spaces with its newline, and for a newline followed by more text. The fuel stations
run with the numbers of the programs. Two spurious wake-ups let one car wake for nothing
twice, or two cars once. Pages of two chunks are received in one recv() or several.

`PipeCap`, `MaxCommands`, `MaxInput`, `MaxInt`, `MaxPending`, `Cap`, `MaxSpurious` and `MaxChunks`
are the only numeric bounds (`NumRequests` is the program's own 3).
`MaxCommands` bounds the identifiers of processes; when they are used up fork()
can only fail. The models stop only where the programs do. `Idle` and `Over` are the states in which
everybody has ended or a server waits in accept() or select() with no client left. The
deadlock check is off for `FuelStation` (program 1 returns; program 2 stops for ever, which
`Outcome` states) and `HttpClients` (which return), because there stopping is the
programs' end.

### Fairness

Weak fairness for each process and thread: the kernel schedules whoever can
run (the shell of `PennSh` from the parsed line on, which is all its liveness
needs). Nobody is obliged to kill a client, to enter a line, to send SIGINT or to
end a command. In `Shredder` the alarm clock goes off in the end. In `PennSh` a
command may go on for ever, but one that can write to its pipe, read from it or
see its end in the end does (`cat`, `ls` and the like do nothing else); that is an
assumption about the commands, and without it a pipeline need not end.
Semaphores and mutex of the bounded buffer are weakly fair only for the step, so
single threads may be overtaken for ever, and `ValuesFlow` promises progress of
producers and consumers as groups. A client of the servers is weakly fair: it ends or is
killed, and does not stay silent on an open connection. A silent client would
hold up the sequential server for ever (`project3a/tcpserver.c:70`), and all clients behind it; `EveryClientEnds`
does not speak of that. For the servers `MaxPending` makes connect()
weakly fair: a client waits only while others stand in the queue, and there are
finitely many. In `FuelStation` each thread is weakly fair and wake-ups nobody asked for are
not promised; the mutex need not be fair, because every thread takes it a bounded number
of times. In `HttpClients` the client is weakly fair and nothing is asked of the servers, which may be silent for
ever: `NotHeldUp` says what is promised all the same.

## 4. Disagreements found

* `project3b`: the address of `new_s` is shared by all threads
  (`multi-tcpserver.c:73`, `:85`). With clients that are not paced two threads serve
  the later connection; the earlier one's messages are not printed, although the
  comment at `multi-tcpserver.c:11-12` says the server "prints out the messages
  received from clients". `SharedDescriptorStopsServer` shows the consequence: the
  server exits. On its way to exit(1) a thread that met an error closes `new_socket`
  (`multi-tcpserver.c:98-102` and the four places like it), a number that by then can stand for
  a third client's connection: that client, whom nobody killed, fails while the
  server is still up. This is why the service is claimed only `InOrder`. With the pause of `tcp.sh`, as modelled, it does not happen.
* `project3c`: `new_sockets_i` only grows (`async-tcpserver.c:109`, `:116`); the
  connection after MAX_PENDING others is never served. After the overrun a
  number that was stored over can also make the check of Z accept a wrong
  number or refuse the right one, so `ServiceSpec` and
  `SlotMatchesConversation` are claimed only within the table. The run `AsyncServer` has
  a slot for each client, so of what happens beyond the table TLC sees only this run, and the
  theorems `TypeCorrect`, `TableCorrect`, `SelectCorrect` and `NeverBlocks` cover it for any number of clients
  the three arrays have room for.
* penn-shredder: in the starter code and in `project1b`, a SIGINT between `wait()` and the next
  assignment to `childPid` exits the shell, which the comment at
  `project1b/penn-shredder.c:69-71` excludes; in the starter code that is
  the whole time between two commands. `KnowsItsChild` and `DeathWindows`
  delimit the related windows: between fork() and the assignment a SIGINT finds
  no child; a SIGALRM after `wait()` exits the shell, or, after `childPid = 0`,
  kills the whole process group, because `alarmHandler` does not look at
  `childPid` (`penn-shredder.c:64-67`); and between a fork() that failed and the exit, SIGINT
  runs `kill(-1, SIGKILL)`, which reaches every process of the user.
  A single character that is ended with Ctrl-D instead of a newline is taken for a blank
  line; `CommandAsTyped` names this exception and holds otherwise.
* penn-sh, `project2a` and `project2b`: the same window after `wait()` exists
  (`ShellSurvives`). In `project2b`, during a pipeline `pid` stays 0 and the handler kills nobody. The tokenizer takes a
  delimiter for the first character of a word when a space and no word
  precedes it ("`a | >b`" gives the token "`>b`"); `TokensAsDescribed` holds for all other
  lines (`Hidden` is the exception). In `project2a` the result of open() is not looked at, and
  the command runs with the terminal in place of the file.
* `CodeVault_ConditionVariable2`: 5 fills of 30 are fuel for three cars, so the fourth waits for a
  broadcast that never comes and main never returns from joining it
  (`condition_variable_broadcast.c:79-83`). `Outcome` states it as what the program does.
* `M12`: the comment at the top of `httpclient-nonblock.c` says that the client ends when
  it has received all three pages; on a reset of one connection it leaves its loop with the others
  unread (`EndsForAReason`). `httpclient-block.c:5-6` says that a page is printed when the one before it is
  entirely received; a reset ends a page there too, and the client goes on with the next
  (`OneAfterAnother`).

## 5. Proofs

Checked with TLAPS for all values of the constants that satisfy the assumptions
`BufferAssumption`, `NetAssumption`, `AsyncAssumption`, `MultiAssumption` (the clients are finitely
many), `CommandsAssumption`, `LinesAssumption` (lines are sequences of characters), `PipeAssumption`,
`HttpAssumption` and `MaxSpuriousAssumption` (the bound is a natural number).

### Servers

`HandshakeNetProofs` holds the argument that the three servers share. A conversation has four
stages (`Unread`, `Asked`, `Answered`, `Finished`), each of which says what the two streams
hold while the client is at each of its calls; a client's step keeps the stage
(`ClientConverses`), the server's calls move it on (`ReceivesX`, `SendsY`, `ReceivesZ`), and each is
a step of the service (`ClientRefines`, `PrintsX`, `PrintsZ`, `ExitsForFailed`). When the server is
gone, only `Leftover` is known of a conversation, and only that is needed. That Y + 1,
computed by the client in ints, is what the service calls X + 2 is `WrapOnce`.

What a refinement is good for is what follows from the service alone, and each server's module
has it as `ServesItsClients`. `ClientsServed`: for a client that was not killed only its own
numbers are printed, in order; one that ends well had its X printed; none that is not killed fails
while the server is up. `DownForAKill`: only a killed client ends the server, so with
nobody killed it stays up for good and nobody fails. `ServiceServes` shows them inductive under
the service's steps, but only together: that the server goes down for a failed client says
something because a client fails before that only when it is killed. For the threaded server the
first holds as long as the server is `InOrder`, and the second when its clients are paced. Both were model-checked on the three
servers' configurations before they were proved; as consequences of `ServiceSpec` no run lists them.

`SeqServerProofs`. For any number of clients, any inputs and INT_MAX, any accept queue, and
clients killed at any moment: `TypeCorrect`, `OneInFlight` (`AtMostOneInFlight`), `OneByOne`
(`OneAtATime`) and `Refinement`, that `Spec` implements `HandshakeService`. `Inv` says that
`spc`, `cur` and `srvClosed` tell the stage of each conversation, and that no connection is
in two places (`Queued`).

`MultiServerProofs`. For any number of clients: `TypeCorrect`, `OneThreadEach`
(`OneThreadPerConnection`), `OneInFlight` (`AtMostOneInFlight`, as long as `InOrder`), `QuietServed` (`QuietMeansServed`),
`Refinement` (`ThreadedServiceSpec`) and `ServesItsClients`. The invariant has three parts.

`Basics` holds always, whatever has been closed: what each thread and main have in their variables
(`Sane`, `MainHolds`), that the queue names each connection once (`Queued`), and that there is a thread for
whoever is still to be accepted (`Room`).

`ServerInv` holds while the server is up and `InOrder`. Two threads may hold the same descriptor when the
clients are not paced, so it names the partners of a connection: the threads on its descriptor that have
received an X (`Engaged`). `Conversing` gives each connection a stage and its staff
(`Staffed`): nobody before X is received; one thread, which holds its Y, while it is asked or answered, or, when
the client was killed, also nobody; and in the end one thread about to close, or `Rivals`, threads that wait for more than
the two messages and can only meet the end of file. `ThreadsHold` and `Placed` say what descriptors the threads have and that no
connection is in two places; `Closed` that a connection is closed with its descriptor unless a `recv()` for X still waits on
it. `Counted` has a thread for each connection accepted and a finished one for each
descriptor closed, by cardinality because no thread need be the one meant for its connection:
with every thread done, nothing is left open, which is `QuietServed`.

`PacedInv` holds while a paced server is up. `Paced` says that `new_s` is read before it is overwritten
(`HandedOver`), hence one thread for each descriptor; `Leaving` that a thread on its way to exit(1) has a client that
failed, so its `close()` hurts nobody else and the exit has the reason that the steady service asks for.

For `Refinement` a step of a server that is up and `InOrder` is a step of the service (`SteadyStep`), the close by
a thread that met an error is the service's breakdown when the clients are not paced (`BreaksDown`), and
what comes after that is allowed by `LastWords` and by clients that may end as they like (`BrokenDown`).

`AsyncServerProofs`. For any number of clients and any MAX_PENDING, with or without
overrun (but not beyond the three arrays): `TypeCorrect`, `TableCorrect` (`TableMatchesFiles`), `SelectCorrect`
(`WaitsForOpenFiles`) and `NeverBlocks` (`HandlersDoNotBlock`). The invariant `Inv` adds to
these what the server knows between `Select` and `EndScan`: a descriptor in `ready` that the
scan has still to visit is open, in the table, and readable, and stays so whatever the
clients do, because only the server takes messages away and an ended client stays ended
(`ClientKeepsReadable`); and that a new descriptor is none of those in `ready`, since `accept()`
takes a free number and `ready` has only open ones. The second half of the module goes on
from there: `SlotsMatch` (`SlotMatchesConversation`), and `Refinement`, that with at most
MAX_PENDING clients `Spec` implements `HandshakeService`. Its invariant `TalkInv` says that a live slot
tells the stage of the conversation it stands for, that a connection without a slot is
`Unread` or, once closed, `Finished`, and that each slot ever used was one connection's
(`SlotPerConnection`), so that the table suffices. A client that died before it sent X is a
stage of its own (`Junked`): the handler printed what was in its buffer, which the service
allows (`PrintForDead`), and exits at the second message. From the stages also follows
`OneInFlight`, that until the table overflows a `recv()` meets one message, on which the handlers
rely as well as the model of a message (2.1).

### Shells

`ShredderProofs`. For any number of commands, any input and each version: `TypeCorrect`, `NothingLeft`
(`NothingLeftAtPrompt`), `ChildKnown` (`KnowsItsChild`), `AlarmBelongs` (`AlarmOnlyForItsCommand`),
`SignalsHaveWindows` (`DeathWindows`) and `CommandTyped` (`CommandAsTyped`). The first five are
not inductive: what a handler may do depends on what `childPid` is at each of main's calls.
`Inv` says it (`Named`), together with "only the latest command can be unreaped, and only
from fork() to wait()" (`OnePending`), "each version makes its own calls" and "the clock
runs only from alarm() to the next alarm(0)". A handler reaps nobody and moves nothing of
main, so it keeps all of this (`KillStep`). `CommandTyped` is about one string: the lemmas say
where the first and the last character that is no space are, that `Trimmed` cuts there, and that the
test for a blank line, which counts spaces, finds all blank lines and the one exception.

`PennShProofs`. For any set of lines, of any length, any capacity of the pipe and both
versions: `TypeCorrect` (`TypeOK`), `PromptClean` (`PromptIsClean`), `StreamsCorrect` (`StreamsAsTyped`),
`ShellEndsForAReason` (`ShellSurvives`), `TokensCorrect` (`TokensAsDescribed`) and `EachCountedOnce`
(`CountedOnce`).

The invariant of the shell says, for each place in `executeShell`, which children there are
(`ChildrenAt`), whether the line is a pipeline (`LineAt`), whom `pid` names (`PidAt`), who holds which
end of the pipe (`EndsAt`: a child until it ends, and the end it does not use only until it
has closed it; the shell between `pipe()` and its two `close()`), and which streams
a child has that is ready to run (`StreamsAt`). That the prompt is clean is not inductive
without it: with both children reaped nobody holds an end, because only the living do and the
shell has closed its own.

The other half is about the tokenizer and the parser, which are recursive. The library's
induction theorems have an operator as a parameter, which the provers here cannot
instantiate; so `Induction` is stated of sets: a set of numbers that has 0, and n + 1
with n, is `Nat`. It follows from the well-foundedness of `<`, and a statement is proved by
putting the numbers it holds for in a set. That way: the recursive function in `Tokens` exists, so it satisfies
its equation (`FromExists`, `FromIs`), and so do those in `FoldLeft`, `FlattenSeq` and `Names`
(`FoldExists`, `FlatIs`, `NamesIs`).

For `TokensCorrect` each call of `get_next_token` is described by four positions
(`TokenBetween`): spaces from p to q, the token from q to e, spaces from e to the next
position. `Rank` numbers the members of a set of positions. From position p on the
tokens hold the text from p on (`TextStep`), and, when p is a position that the tokenizer can stop
at (`Boundary`), they are the described ones (`DescribedStep`): a hidden delimiter is exactly what would let a
token start where none is described. Both go from the end of the line to its start
(`Downward`). For `EachCountedOnce`, `CountedUpTo` is the invariant of the parser's loop: the flag tells
whether a bar has been met, `pending` whether the last token was a redirection sign, and
each list has as many entries as there are tokens of its kind up to here (`CountsOn`).

### Threads

The first half of `CodeVaultProofs` is about `BoundedBuffer`. For any finite sets of producers and consumers and any
`Cap` > 0:
`TypeCorrect`, `CellsAreAccounted`, `NoRace`, `AlwaysInBounds`, and `Refinement`,
that `Spec` implements `BoundedStack`. `TypeOK` alone is not inductive: that `count`
stays below `Cap` follows from `CellsAccounted`, because a producer at `write` or `inc`
is itself one of the cells counted; and the accounting needs mutual exclusion,
since `count` is read and written in two steps. `Inv` conjoins type correctness, the
accounting, "the mutex is held by exactly the thread between lock and unlock", and
"a consumer that has read holds the top of the stack in `y`". The cardinalities are
treated by three lemmas (`CountMove`, `ProducerMoves`, `ConsumerMoves`): a step moves
one thread from one of the sets to another, or none. For the refinement,
`Increment` is the push, `Decrement` the pop, and all other steps stutter.

The second half of `CodeVaultProofs` is about `FuelStation`, whose names (`FuelSpec`, `Tids`, ...) are kept apart from
those of `BoundedBuffer` so that one module can extend both. For any number of spurious wake-ups: `FuelTypeCorrect`, `FuelIsAccounted` (`FuelAccounted`)
and `WakeupsArrive` (`NoLostWakeup`). The accounting needs mutual exclusion (`FuelMutexHeld`) and from it that
what was loaded is still there at the store (`StillThere`); that fuel is never negative needs that a
car at its load has checked since it got the mutex. The wake-ups need that a call on the
condition wakes all sleepers there are (`AllWoken`): in program 1 because there is one car.

### HTTP clients

`HttpClientsProofs`. For both programs, any number of pages and any number of chunks: `TypeCorrect`,
`PagesInOrder` (`OneAfterAnother`) and `ClientEndsForAReason` (`EndsForAReason`). Neither is
inductive. `Blocking` adds that the pages before `i` are closed and the pages behind it untouched.
`Scanning` adds what the non-blocking client relies on between `pselect()` and the end of its scan,
as the servers go on sending and resetting: a socket in `rfds` that the scan has still to visit is open,
because only its own round closes it, and readable, because only the client takes data away and a page
that ended stays ended (`ServerStep`). So `recv()` there returns data, or the end that the page
came to, and EAGAIN never; and `countDown` is the number of sockets not closed (`CloseCounts`), so that it
is 0 only when every page is complete.

### Only model-checked

Liveness, which the provers cannot treat under fairness: `EveryClientEnds`, `PrintsAllOrDies`,
`SharedDescriptorStopsServer`, `PromptReturns`, `PipelineEnds`, `ValuesFlow`, `Outcome` and `NotHeldUp`. Every
other property of a passing run is proved. Also only model-checked is what the runs that
expect a violation show, each of one instance.

## 6. Not modelled, and why

Within the modelled programs: failures of socket(), bind(), listen(), accept(), pipe(), malloc()
and pthread_create(), and failures of recv() other than a reset; partial sends and receives
(messages are far shorter than a segment); the contents of files and pages, so also the stale
tail of the HTTP clients' buffer; buffer overflows by long input lines or by more than ten
arguments or redirections; the last byte of a line, which both versions of penn-sh
overwrite when the line ends by Ctrl-D (`project2a/penn-sh.c:311`, `project2b/penn-sh.c:456`); the array `thread_id` of `project3b`, which is written past its end by
the 41st connection and never read; terminal job control.

Programs left out. `token-shell.c` prints the tokenizer's tokens and keeps nothing. The signal
examples of `M4_PlayWithSourceCode` are single processes whose point is the mask that is restored when a handler
returns; nothing else in the repository relies on it. `CodeVault_Semaphore`, `CodeVault_pthreaddetach`, `Qianfeng_PthreadJoin`,
`M5_PlayWithSourceCode`, `M6_PlayWithSourceCode`, `M7_PlayWithSourceCode` and
`project3b/sample.c` each show one call of a library on fixed data. `Dylan_Socket` and
`Eduonix_Socket` greet or echo over one connection, of which project3 does more. `Test` and
`C-Refresher` are trial copies and language exercises; `project0` holds a text file only.

## 7. Plan

Done, models: `HandshakeService`, `HandshakeNet`, `SeqServer`, `MultiServer`, `AsyncServer`
first, because the servers carry the most concurrency; then `Shredder` in its three versions,
`BoundedBuffer` and `BoundedStack`, `CommandLine` and `PennSh` in both versions, `FuelStation`
for both programs, `HttpClients` for both clients.

Done, proofs: those of section 5.

Next, models: `SignalMask` (`M4`: the mask restored when a handler returns, in
`ctrlc_blocked_buggy.c`, against the flag of `ctrlc_blocked.c`).

Next, proofs: a server's behaviour beyond its bounds, which is only bounded now:
what `AsyncServer` still promises when its table has overflowed (`OneInFlight` without `WithinTable`), and
that two threads with one descriptor cannot both finish, the safety half of
`SharedDescriptorStopsServer`.
