--------------------------- MODULE BoundedBuffer ----------------------------
(***************************************************************************)
(* CodeVault_BoundedBuffer/bounded_buffer.c: producers and consumers share *)
(* an array and a count of its used cells, under a mutex; semEmpty and     *)
(* semFull count the free and the used cells.  The threads never end.      *)
(*                                                                         *)
(* Each step is one call on a semaphore or the mutex or one access to the  *)
(* shared variables.  Neither the mutex nor the semaphores are fair.       *)
(***************************************************************************)
EXTENDS Integers, Sequences, FiniteSets

CONSTANTS
    Producers,
    Consumers,
    Values,     \* the values of rand() % 100
    Cap,        \* the size of the buffer
    NoThread    \* the owner of a free mutex

ASSUME BufferAssumption ==
    /\ IsFiniteSet(Producers)
    /\ IsFiniteSet(Consumers)
    /\ Producers \cap Consumers = {}
    /\ NoThread \notin Producers \cup Consumers
    /\ Values \subseteq Nat /\ 0 \in Values
    /\ Cap \in Nat \ {0}

VARIABLES
    pc,         \* pc[t]: the call or access thread t is about to make
    x,          \* x[p]: the value producer p has produced
    y,          \* y[c]: the variable y of consumer c
    got,        \* got[c]: the value consumer c printed last, -1 before
    buffer,
    count,
    semEmpty,
    semFull,
    mutex       \* mutexBuffer: the thread that holds it, or NoThread

vars == <<pc, x, y, got, buffer, count, semEmpty, semFull, mutex>>

Threads == Producers \cup Consumers
Cells == 0 .. Cap - 1

ProducerPCs == {"produce", "waitEmpty", "lock", "write", "inc", "unlock", "postFull"}
ConsumerPCs == {"waitFull", "lock", "read", "dec", "unlock", "postEmpty"}

TypeOK ==
    /\ pc \in [Threads -> ProducerPCs \cup ConsumerPCs]
    /\ \A p \in Producers : pc[p] \in ProducerPCs
    /\ \A c \in Consumers : pc[c] \in ConsumerPCs
    /\ x \in [Producers -> Values]
    /\ y \in [Consumers -> Values \cup {-1}]
    /\ got \in [Consumers -> Values \cup {-1}]
    /\ buffer \in [Cells -> Values]
    /\ count \in 0 .. Cap
    /\ semEmpty \in Nat
    /\ semFull \in Nat
    /\ mutex \in Threads \cup {NoThread}

Init ==
    /\ pc = [t \in Threads |-> IF t \in Producers THEN "produce" ELSE "waitFull"]
    /\ x = [p \in Producers |-> 0]
    /\ y = [c \in Consumers |-> -1]
    /\ got = [c \in Consumers |-> -1]
    /\ buffer = [a \in Cells |-> 0]
    /\ count = 0
    /\ semEmpty = Cap
    /\ semFull = 0
    /\ mutex = NoThread

Goto(t, l) == pc' = [pc EXCEPT ![t] = l]

\* Mutant of Lock: the mutex is taken even when another thread holds it.
LockAnyway(t, next) ==
    /\ pc[t] = "lock"
    /\ mutex' = t
    /\ Goto(t, next)
    /\ UNCHANGED <<x, y, got, buffer, count, semEmpty, semFull>>

Lock(t, next) ==
    /\ pc[t] = "lock"
    /\ mutex = NoThread
    /\ mutex' = t
    /\ Goto(t, next)
    /\ UNCHANGED <<x, y, got, buffer, count, semEmpty, semFull>>

Unlock(t, next) ==
    /\ pc[t] = "unlock"
    /\ mutex' = NoThread
    /\ Goto(t, next)
    /\ UNCHANGED <<x, y, got, buffer, count, semEmpty, semFull>>

-----------------------------------------------------------------------------
Produce(p) ==
    /\ pc[p] = "produce"
    /\ \E v \in Values : x' = [x EXCEPT ![p] = v]
    /\ Goto(p, "waitEmpty")
    /\ UNCHANGED <<y, got, buffer, count, semEmpty, semFull, mutex>>

WaitEmpty(p) ==
    /\ pc[p] = "waitEmpty"
    /\ semEmpty > 0
    /\ semEmpty' = semEmpty - 1
    /\ Goto(p, "lock")
    /\ UNCHANGED <<x, y, got, buffer, count, semFull, mutex>>

\* Mutant of Write: the value always goes to the first cell.
WriteFirstCell(p) ==
    /\ pc[p] = "write"
    /\ buffer' = [buffer EXCEPT ![0] = x[p]]
    /\ Goto(p, "inc")
    /\ UNCHANGED <<x, y, got, count, semEmpty, semFull, mutex>>

Write(p) ==
    /\ pc[p] = "write"
    /\ buffer' = [buffer EXCEPT ![count] = x[p]]
    /\ Goto(p, "inc")
    /\ UNCHANGED <<x, y, got, count, semEmpty, semFull, mutex>>

Increment(p) ==
    /\ pc[p] = "inc"
    /\ count' = count + 1
    /\ Goto(p, "unlock")
    /\ UNCHANGED <<x, y, got, buffer, semEmpty, semFull, mutex>>

\* Mutant of PostFull: the producer posts the semaphore it waited for.
PostFullWrong(p) ==
    /\ pc[p] = "postFull"
    /\ semEmpty' = semEmpty + 1
    /\ Goto(p, "produce")
    /\ UNCHANGED <<x, y, got, buffer, count, semFull, mutex>>

PostFull(p) ==
    /\ pc[p] = "postFull"
    /\ semFull' = semFull + 1
    /\ Goto(p, "produce")
    /\ UNCHANGED <<x, y, got, buffer, count, semEmpty, mutex>>

producer(p) ==
    \/ Produce(p) \/ WaitEmpty(p) \/ Lock(p, "write") \/ Write(p)
    \/ Increment(p) \/ Unlock(p, "postFull") \/ PostFull(p)

-----------------------------------------------------------------------------
\* Mutant of WaitFull: an empty buffer does not stop the consumer.
WaitFullMissing(c) ==
    /\ pc[c] = "waitFull"
    /\ Goto(c, "lock")
    /\ UNCHANGED <<x, y, got, buffer, count, semEmpty, semFull, mutex>>

WaitFull(c) ==
    /\ pc[c] = "waitFull"
    /\ semFull > 0
    /\ semFull' = semFull - 1
    /\ Goto(c, "lock")
    /\ UNCHANGED <<x, y, got, buffer, count, semEmpty, mutex>>

Read(c) ==
    /\ pc[c] = "read"
    /\ y' = [y EXCEPT ![c] = buffer[count - 1]]
    /\ Goto(c, "dec")
    /\ UNCHANGED <<x, got, buffer, count, semEmpty, semFull, mutex>>

\* count -- and the printf under the same lock.
Decrement(c) ==
    /\ pc[c] = "dec"
    /\ count' = count - 1
    /\ got' = [got EXCEPT ![c] = y[c]]
    /\ Goto(c, "unlock")
    /\ UNCHANGED <<x, y, buffer, semEmpty, semFull, mutex>>

\* Mutant of PostEmpty: the consumer never comes back from its sleep.
PostEmptyNever(c) ==
    /\ pc[c] = "postEmpty"
    /\ UNCHANGED vars

\* After the sleep the consumer starts over; y is a new variable.
PostEmpty(c) ==
    /\ pc[c] = "postEmpty"
    /\ semEmpty' = semEmpty + 1
    /\ y' = [y EXCEPT ![c] = -1]
    /\ Goto(c, "waitFull")
    /\ UNCHANGED <<x, got, buffer, count, semFull, mutex>>

consumer(c) ==
    \/ WaitFull(c) \/ Lock(c, "read") \/ Read(c)
    \/ Decrement(c) \/ Unlock(c, "postEmpty") \/ PostEmpty(c)

Next == (\E p \in Producers : producer(p)) \/ (\E c \in Consumers : consumer(c))

\* Every thread that can run runs in the end.  A thread that waits for the
\* mutex or a semaphore may be overtaken for ever.
Fairness ==
    /\ \A p \in Producers : WF_vars(producer(p))
    /\ \A c \in Consumers : WF_vars(consumer(c))

Spec == Init /\ [][Next]_vars
FairSpec == Spec /\ Fairness

-----------------------------------------------------------------------------
(***************************************************************************)
(* Properties.                                                             *)
(***************************************************************************)

\* No two threads are ever between lock and unlock at the same time, so every
\* access to buffer and count is free of data races.
Critical == {"write", "inc", "read", "dec", "unlock"}
NoDataRace ==
    \A t, u \in Threads : pc[t] \in Critical /\ pc[u] \in Critical => t = u

\* Cells are neither lost nor used twice: each of the Cap cells is free (a
\* unit of semEmpty), used (counted by count), taken by a producer that has
\* not counted it yet, or released by a consumer that has not posted it yet;
\* and each used cell is a unit of semFull, promised to a consumer, or counted
\* by a producer that has not posted it yet.
Filling == {p \in Producers : pc[p] \in {"lock", "write", "inc"}}
Filled == {p \in Producers : pc[p] \in {"unlock", "postFull"}}
Emptying == {c \in Consumers : pc[c] \in {"lock", "read", "dec"}}
Emptied == {c \in Consumers : pc[c] \in {"unlock", "postEmpty"}}

CellsAccounted ==
    /\ semEmpty + Cardinality(Filling) + count + Cardinality(Emptied) = Cap
    /\ semFull + Cardinality(Emptying) + Cardinality(Filled) = count

\* The buffer is never indexed out of its bounds: neither is a cell written
\* past the end, nor buffer[-1] read.
InBounds ==
    /\ \A p \in Producers : pc[p] = "write" => count \in Cells
    /\ \A c \in Consumers : pc[c] = "read" => count - 1 \in Cells

\* The threads use the buffer as a bounded stack: what a consumer prints is the
\* latest value pushed and not yet popped.
Stack == INSTANCE BoundedStack WITH
             stack <- [n \in 1 .. count |-> buffer[n - 1]]

StackSpec == Stack!Spec

\* Values keep flowing: a value is pushed and a value is popped again and
\* again, although any single thread may be overtaken for ever.
ValuesFlow ==
    /\ []<><<\E p \in Producers : Increment(p)>>_vars
    /\ []<><<\E c \in Consumers : Decrement(c)>>_vars

=============================================================================
