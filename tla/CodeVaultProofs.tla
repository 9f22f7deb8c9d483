--------------------------- MODULE CodeVaultProofs ---------------------------
(***************************************************************************)
(* Theorems about the threaded programs of the CodeVault directories.      *)
(*                                                                         *)
(* The first half is about BoundedBuffer, for any finite sets of producers *)
(* and consumers, any buffer size and any values; the second about the two *)
(* programs of FuelStation, for any number of wake-ups that nobody asked   *)
(* for.  The two share no variable and no name.                            *)
(***************************************************************************)
EXTENDS BoundedBuffer, FuelStation, FiniteSetTheorems, TLAPS

-----------------------------------------------------------------------------
(***************************************************************************)
(* Counting the threads that stand at certain places.                      *)
(***************************************************************************)
Standing(T, f, L) == {t \in T : f[t] \in L}
In(l, L) == IF l \in L THEN 1 ELSE 0

\* When one thread moves, the number of threads at the places L changes by
\* what that thread leaves and enters.
LEMMA CountMove ==
    ASSUME NEW T, IsFiniteSet(T), NEW f, NEW q \in T, NEW l, NEW L,
           NEW g, \A t \in T : g[t] = IF t = q THEN l ELSE f[t]
    PROVE  /\ Cardinality(Standing(T, f, L)) \in Nat
           /\ Cardinality(Standing(T, g, L)) \in Nat
           /\ Cardinality(Standing(T, g, L)) = Cardinality(Standing(T, f, L)) + In(l, L) - In(f[q], L)
<1>1. IsFiniteSet(Standing(T, f, L)) /\ IsFiniteSet(Standing(T, g, L))
  BY FS_Subset DEF Standing
<1>2. Cardinality(Standing(T, f, L)) \in Nat /\ Cardinality(Standing(T, g, L)) \in Nat
  BY <1>1, FS_CardinalityType
<1>3. CASE l \in L
  <2>1. Standing(T, g, L) = Standing(T, f, L) \cup {q}
    BY <1>3 DEF Standing
  <2>2. q \in Standing(T, f, L) <=> f[q] \in L
    BY DEF Standing
  <2>3. Cardinality(Standing(T, g, L))
          = IF q \in Standing(T, f, L) THEN Cardinality(Standing(T, f, L)) ELSE Cardinality(Standing(T, f, L)) + 1
    BY <1>1, <2>1, FS_AddElement
  <2> QED
    BY <1>2, <1>3, <2>2, <2>3 DEF In
<1>4. CASE l \notin L
  <2>1. Standing(T, g, L) = Standing(T, f, L) \ {q}
    BY <1>4 DEF Standing
  <2>2. q \in Standing(T, f, L) <=> f[q] \in L
    BY DEF Standing
  <2>3. Cardinality(Standing(T, g, L))
          = IF q \in Standing(T, f, L) THEN Cardinality(Standing(T, f, L)) - 1 ELSE Cardinality(Standing(T, f, L))
    BY <1>1, <2>1, FS_RemoveElement
  <2> QED
    BY <1>2, <1>4, <2>2, <2>3 DEF In
<1> QED
  BY <1>3, <1>4

\* The first thread to stand somewhere makes the count positive.
LEMMA CountPositive ==
    ASSUME NEW T, IsFiniteSet(T), NEW f, NEW q \in T, NEW L, f[q] \in L
    PROVE  Cardinality(Standing(T, f, L)) \in Nat /\ Cardinality(Standing(T, f, L)) >= 1
<1>1. IsFiniteSet(Standing(T, f, L)) /\ q \in Standing(T, f, L)
  BY FS_Subset DEF Standing
<1>2. Cardinality(Standing(T, f, L)) \in Nat
  BY <1>1, FS_CardinalityType
<1>3. Cardinality(Standing(T, f, L)) # 0
  BY <1>1, FS_EmptySet
<1> QED
  BY <1>2, <1>3

FillingPCs == {"lock", "write", "inc"}
FilledPCs == {"unlock", "postFull"}
EmptyingPCs == {"lock", "read", "dec"}
EmptiedPCs == {"unlock", "postEmpty"}

LEMMA SetsAsCounts ==
    /\ Filling = Standing(Producers, pc, FillingPCs)
    /\ Filled = Standing(Producers, pc, FilledPCs)
    /\ Emptying = Standing(Consumers, pc, EmptyingPCs)
    /\ Emptied = Standing(Consumers, pc, EmptiedPCs)
    /\ Filling' = Standing(Producers, pc', FillingPCs)
    /\ Filled' = Standing(Producers, pc', FilledPCs)
    /\ Emptying' = Standing(Consumers, pc', EmptyingPCs)
    /\ Emptied' = Standing(Consumers, pc', EmptiedPCs)
BY DEF Filling, Filled, Emptying, Emptied, Standing, FillingPCs, FilledPCs, EmptyingPCs, EmptiedPCs

LEMMA CountsAreNat ==
    /\ Cardinality(Filling) \in Nat
    /\ Cardinality(Filled) \in Nat
    /\ Cardinality(Emptying) \in Nat
    /\ Cardinality(Emptied) \in Nat
<1>1. /\ IsFiniteSet(Filling) /\ IsFiniteSet(Filled)
      /\ IsFiniteSet(Emptying) /\ IsFiniteSet(Emptied)
  BY BufferAssumption, FS_Subset DEF Filling, Filled, Emptying, Emptied
<1> QED
  BY <1>1, FS_CardinalityType

\* A step of a producer changes only the counts of producers.
LEMMA ProducerMoves ==
    ASSUME TypeOK, NEW p \in Producers, NEW l, Goto(p, l)
    PROVE  /\ Cardinality(Filling') = Cardinality(Filling) + In(l, FillingPCs) - In(pc[p], FillingPCs)
           /\ Cardinality(Filled') = Cardinality(Filled) + In(l, FilledPCs) - In(pc[p], FilledPCs)
           /\ Emptying' = Emptying
           /\ Emptied' = Emptied
<1>1. \A t \in Producers : pc'[t] = IF t = p THEN l ELSE pc[t]
  BY DEF TypeOK, Goto, Threads
<1>2. \A c \in Consumers : pc'[c] = pc[c]
  BY BufferAssumption DEF TypeOK, Goto, Threads
<1>3. Cardinality(Standing(Producers, pc', FillingPCs))
        = Cardinality(Standing(Producers, pc, FillingPCs)) + In(l, FillingPCs) - In(pc[p], FillingPCs)
  BY <1>1, BufferAssumption, CountMove
<1>4. Cardinality(Standing(Producers, pc', FilledPCs))
        = Cardinality(Standing(Producers, pc, FilledPCs)) + In(l, FilledPCs) - In(pc[p], FilledPCs)
  BY <1>1, BufferAssumption, CountMove
<1>5. Emptying' = Emptying /\ Emptied' = Emptied
  BY <1>2 DEF Emptying, Emptied
<1> QED
  BY <1>3, <1>4, <1>5, SetsAsCounts

\* A step of a consumer changes only the counts of consumers.
LEMMA ConsumerMoves ==
    ASSUME TypeOK, NEW c \in Consumers, NEW l, Goto(c, l)
    PROVE  /\ Cardinality(Emptying') = Cardinality(Emptying) + In(l, EmptyingPCs) - In(pc[c], EmptyingPCs)
           /\ Cardinality(Emptied') = Cardinality(Emptied) + In(l, EmptiedPCs) - In(pc[c], EmptiedPCs)
           /\ Filling' = Filling
           /\ Filled' = Filled
<1>1. \A t \in Consumers : pc'[t] = IF t = c THEN l ELSE pc[t]
  BY DEF TypeOK, Goto, Threads
<1>2. \A p \in Producers : pc'[p] = pc[p]
  BY BufferAssumption DEF TypeOK, Goto, Threads
<1>3. Cardinality(Standing(Consumers, pc', EmptyingPCs))
        = Cardinality(Standing(Consumers, pc, EmptyingPCs)) + In(l, EmptyingPCs) - In(pc[c], EmptyingPCs)
  BY <1>1, BufferAssumption, CountMove
<1>4. Cardinality(Standing(Consumers, pc', EmptiedPCs))
        = Cardinality(Standing(Consumers, pc, EmptiedPCs)) + In(l, EmptiedPCs) - In(pc[c], EmptiedPCs)
  BY <1>1, BufferAssumption, CountMove
<1>5. Filling' = Filling /\ Filled' = Filled
  BY <1>2 DEF Filling, Filled
<1> QED
  BY <1>3, <1>4, <1>5, SetsAsCounts

-----------------------------------------------------------------------------
(***************************************************************************)
(* The inductive invariant.  The types alone are not inductive (count      *)
(* could leave 0..Cap), and neither is the accounting of cells without the *)
(* mutex: it speaks of one count.  A thread inside the critical section    *)
(* owns the mutex, and what it has written or read is still there.         *)
(***************************************************************************)
MutexHeld == \A t \in Threads : pc[t] \in Critical => mutex = t

ValuesHeld ==
    /\ \A p \in Producers : pc[p] = "inc" => buffer[count] = x[p]
    /\ \A c \in Consumers : pc[c] = "dec" => y[c] = buffer[count - 1]

Inv == TypeOK /\ CellsAccounted /\ MutexHeld /\ ValuesHeld

\* A producer between its sem_wait and its count ++ has a free cell.
LEMMA RoomToFill ==
    ASSUME TypeOK, CellsAccounted, NEW p \in Producers, pc[p] \in FillingPCs
    PROVE  count < Cap
<1>1. Cardinality(Filling) >= 1
  BY BufferAssumption, CountPositive, SetsAsCounts
<1> QED
  BY <1>1, CountsAreNat, BufferAssumption DEF TypeOK, CellsAccounted

\* A consumer between its sem_wait and its count -- has a used cell.
LEMMA UsedToEmpty ==
    ASSUME TypeOK, CellsAccounted, NEW c \in Consumers, pc[c] \in EmptyingPCs
    PROVE  count > 0
<1>1. Cardinality(Emptying) >= 1
  BY BufferAssumption, CountPositive, SetsAsCounts
<1> QED
  BY <1>1, CountsAreNat, BufferAssumption DEF TypeOK, CellsAccounted

LEMMA InitInv == Init => Inv
<1> SUFFICES ASSUME Init PROVE Inv
  OBVIOUS
<1>1. TypeOK
  BY BufferAssumption DEF Init, TypeOK, ProducerPCs, ConsumerPCs, Threads
<1>2. Filling = {} /\ Filled = {} /\ Emptying = {} /\ Emptied = {}
  BY BufferAssumption DEF Init, Filling, Filled, Emptying, Emptied, Threads
<1>3. CellsAccounted
  BY <1>2, FS_EmptySet, BufferAssumption DEF Init, CellsAccounted
<1>4. MutexHeld /\ ValuesHeld
  BY BufferAssumption DEF Init, MutexHeld, ValuesHeld, Critical, Threads
<1> QED
  BY <1>1, <1>3, <1>4 DEF Inv

-----------------------------------------------------------------------------
(***************************************************************************)
(* One lemma per conjunct, with one step per action.                       *)
(***************************************************************************)
LEMMA TypeStep ==
    ASSUME TypeOK, CellsAccounted, Next
    PROVE  TypeOK'
<1> USE BufferAssumption DEF TypeOK, Goto, Threads, ProducerPCs, ConsumerPCs
<1>1. ASSUME NEW p \in Producers, producer(p) PROVE TypeOK'
  <2>1. CASE Produce(p)
    BY <2>1 DEF Produce
  <2>2. CASE WaitEmpty(p)
    BY <2>2 DEF WaitEmpty
  <2>3. CASE Lock(p, "write")
    BY <2>3 DEF Lock
  <2>4. CASE Write(p)
    BY <2>4 DEF Write
  <2>5. CASE Increment(p)
    <3>1. count < Cap
      BY <2>5, RoomToFill DEF Increment, FillingPCs
    <3> QED
      BY <2>5, <3>1 DEF Increment
  <2>6. CASE Unlock(p, "postFull")
    BY <2>6 DEF Unlock
  <2>7. CASE PostFull(p)
    BY <2>7 DEF PostFull
  <2> QED
    BY <1>1, <2>1, <2>2, <2>3, <2>4, <2>5, <2>6, <2>7 DEF producer
<1>2. ASSUME NEW c \in Consumers, consumer(c) PROVE TypeOK'
  <2>1. CASE WaitFull(c)
    BY <2>1 DEF WaitFull
  <2>2. CASE Lock(c, "read")
    BY <2>2 DEF Lock
  <2>3. CASE Read(c)
    <3>1. count - 1 \in Cells
      BY <2>3, UsedToEmpty DEF Read, EmptyingPCs, Cells
    <3> QED
      BY <2>3, <3>1 DEF Read
  <2>4. CASE Decrement(c)
    <3>1. count > 0
      BY <2>4, UsedToEmpty DEF Decrement, EmptyingPCs
    <3> QED
      BY <2>4, <3>1 DEF Decrement
  <2>5. CASE Unlock(c, "postEmpty")
    BY <2>5 DEF Unlock
  <2>6. CASE PostEmpty(c)
    BY <2>6 DEF PostEmpty
  <2> QED
    BY <1>2, <2>1, <2>2, <2>3, <2>4, <2>5, <2>6 DEF consumer
<1> QED
  BY <1>1, <1>2 DEF Next

LEMMA AccountingStep ==
    ASSUME TypeOK, CellsAccounted, Next
    PROVE  CellsAccounted'
<1> USE CountsAreNat, BufferAssumption
        DEF CellsAccounted, In, FillingPCs, FilledPCs, EmptyingPCs, EmptiedPCs
<1>0. count \in Int /\ semEmpty \in Int /\ semFull \in Int
  BY DEF TypeOK
<1>1. ASSUME NEW p \in Producers, producer(p) PROVE CellsAccounted'
  <2>1. CASE Produce(p)
    BY <1>0, <2>1, ProducerMoves DEF Produce
  <2>2. CASE WaitEmpty(p)
    BY <1>0, <2>2, ProducerMoves DEF WaitEmpty
  <2>3. CASE Lock(p, "write")
    BY <1>0, <2>3, ProducerMoves DEF Lock
  <2>4. CASE Write(p)
    BY <1>0, <2>4, ProducerMoves DEF Write
  <2>5. CASE Increment(p)
    BY <1>0, <2>5, ProducerMoves DEF Increment
  <2>6. CASE Unlock(p, "postFull")
    BY <1>0, <2>6, ProducerMoves DEF Unlock
  <2>7. CASE PostFull(p)
    BY <1>0, <2>7, ProducerMoves DEF PostFull
  <2> QED
    BY <1>1, <2>1, <2>2, <2>3, <2>4, <2>5, <2>6, <2>7 DEF producer
<1>2. ASSUME NEW c \in Consumers, consumer(c) PROVE CellsAccounted'
  <2>1. CASE WaitFull(c)
    BY <1>0, <2>1, ConsumerMoves DEF WaitFull
  <2>2. CASE Lock(c, "read")
    BY <1>0, <2>2, ConsumerMoves DEF Lock
  <2>3. CASE Read(c)
    BY <1>0, <2>3, ConsumerMoves DEF Read
  <2>4. CASE Decrement(c)
    BY <1>0, <2>4, ConsumerMoves DEF Decrement
  <2>5. CASE Unlock(c, "postEmpty")
    BY <1>0, <2>5, ConsumerMoves DEF Unlock
  <2>6. CASE PostEmpty(c)
    BY <1>0, <2>6, ConsumerMoves DEF PostEmpty
  <2> QED
    BY <1>2, <2>1, <2>2, <2>3, <2>4, <2>5, <2>6 DEF consumer
<1> QED
  BY <1>1, <1>2 DEF Next

LEMMA MutexStep ==
    ASSUME TypeOK, MutexHeld, Next
    PROVE  MutexHeld'
<1> USE BufferAssumption DEF TypeOK, Goto, Threads, MutexHeld, Critical
<1>1. ASSUME NEW p \in Producers, producer(p) PROVE MutexHeld'
  <2>1. CASE Produce(p)
    BY <2>1 DEF Produce
  <2>2. CASE WaitEmpty(p)
    BY <2>2 DEF WaitEmpty
  <2>3. CASE Lock(p, "write")
    BY <2>3 DEF Lock
  <2>4. CASE Write(p)
    BY <2>4 DEF Write
  <2>5. CASE Increment(p)
    BY <2>5 DEF Increment
  <2>6. CASE Unlock(p, "postFull")
    BY <2>6 DEF Unlock
  <2>7. CASE PostFull(p)
    BY <2>7 DEF PostFull
  <2> QED
    BY <1>1, <2>1, <2>2, <2>3, <2>4, <2>5, <2>6, <2>7 DEF producer
<1>2. ASSUME NEW c \in Consumers, consumer(c) PROVE MutexHeld'
  <2>1. CASE WaitFull(c)
    BY <2>1 DEF WaitFull
  <2>2. CASE Lock(c, "read")
    BY <2>2 DEF Lock
  <2>3. CASE Read(c)
    BY <2>3 DEF Read
  <2>4. CASE Decrement(c)
    BY <2>4 DEF Decrement
  <2>5. CASE Unlock(c, "postEmpty")
    BY <2>5 DEF Unlock
  <2>6. CASE PostEmpty(c)
    BY <2>6 DEF PostEmpty
  <2> QED
    BY <1>2, <2>1, <2>2, <2>3, <2>4, <2>5, <2>6 DEF consumer
<1> QED
  BY <1>1, <1>2 DEF Next

\* Only the thread in the critical section changes count or buffer, so what it
\* has written or read stays the cell next to count.
LEMMA ValuesStep ==
    ASSUME TypeOK, CellsAccounted, MutexHeld, ValuesHeld, Next
    PROVE  ValuesHeld'
<1> USE BufferAssumption DEF TypeOK, Goto, Threads, MutexHeld, Critical, ValuesHeld
<1>1. ASSUME NEW p \in Producers, producer(p) PROVE ValuesHeld'
  <2>1. CASE Produce(p)
    BY <2>1 DEF Produce
  <2>2. CASE WaitEmpty(p)
    BY <2>2 DEF WaitEmpty
  <2>3. CASE Lock(p, "write")
    BY <2>3 DEF Lock
  <2>4. CASE Write(p)
    <3>1. count \in Cells
      BY <2>4, RoomToFill DEF Write, FillingPCs, Cells
    <3>2. buffer'[count'] = x'[p]
      BY <2>4, <3>1 DEF Write
    <3>3. \A q \in Producers : pc'[q] = "inc" => q = p
      BY <2>4 DEF Write
    <3>4. \A c \in Consumers : pc'[c] # "dec"
      BY <2>4 DEF Write
    <3> QED
      BY <3>2, <3>3, <3>4
  <2>5. CASE Increment(p)
    BY <2>5 DEF Increment
  <2>6. CASE Unlock(p, "postFull")
    BY <2>6 DEF Unlock
  <2>7. CASE PostFull(p)
    BY <2>7 DEF PostFull
  <2> QED
    BY <1>1, <2>1, <2>2, <2>3, <2>4, <2>5, <2>6, <2>7 DEF producer
<1>2. ASSUME NEW c \in Consumers, consumer(c) PROVE ValuesHeld'
  <2>1. CASE WaitFull(c)
    BY <2>1 DEF WaitFull
  <2>2. CASE Lock(c, "read")
    BY <2>2 DEF Lock
  <2>3. CASE Read(c)
    BY <2>3 DEF Read
  <2>4. CASE Decrement(c)
    BY <2>4 DEF Decrement
  <2>5. CASE Unlock(c, "postEmpty")
    BY <2>5 DEF Unlock
  <2>6. CASE PostEmpty(c)
    BY <2>6 DEF PostEmpty
  <2> QED
    BY <1>2, <2>1, <2>2, <2>3, <2>4, <2>5, <2>6 DEF consumer
<1> QED
  BY <1>1, <1>2 DEF Next

LEMMA StutterInv == Inv /\ UNCHANGED vars => Inv'
BY DEF Inv, vars, TypeOK, CellsAccounted, Filling, Filled, Emptying, Emptied,
       MutexHeld, ValuesHeld

\* The conjuncts are kept together for the lifetime of the program.
THEOREM Invariance == Spec => []Inv
<1>1. Init => Inv
  BY InitInv
<1>2. Inv /\ [Next]_vars => Inv'
  BY TypeStep, AccountingStep, MutexStep, ValuesStep, StutterInv DEF Inv
<1> QED
  BY <1>1, <1>2, PTL DEF Spec

-----------------------------------------------------------------------------
(***************************************************************************)
(* The theorems.                                                           *)
(***************************************************************************)

\* The variables keep their types; in particular count stays within 0..Cap.
THEOREM TypeCorrect == Spec => []TypeOK
BY Invariance, PTL DEF Inv

\* Cells are neither lost nor used twice.
THEOREM CellsAreAccounted == Spec => []CellsAccounted
BY Invariance, PTL DEF Inv

\* At most one thread is between lock and unlock.
THEOREM NoRace == Spec => []NoDataRace
<1>1. Inv => NoDataRace
  BY DEF Inv, MutexHeld, NoDataRace
<1> QED
  BY <1>1, Invariance, PTL

\* No producer writes past the end of the buffer and no consumer reads before
\* its beginning.
THEOREM AlwaysInBounds == Spec => []InBounds
<1>1. Inv => InBounds
  <2> SUFFICES ASSUME Inv PROVE InBounds
    OBVIOUS
  <2>1. ASSUME NEW p \in Producers, pc[p] = "write" PROVE count \in Cells
    BY <2>1, RoomToFill, BufferAssumption DEF Inv, TypeOK, FillingPCs, Cells
  <2>2. ASSUME NEW c \in Consumers, pc[c] = "read" PROVE count - 1 \in Cells
    BY <2>2, UsedToEmpty, BufferAssumption DEF Inv, TypeOK, EmptyingPCs, Cells
  <2> QED
    BY <2>1, <2>2 DEF InBounds
<1> QED
  BY <1>1, Invariance, PTL

-----------------------------------------------------------------------------
(***************************************************************************)
(* Refinement: the used cells of the buffer are a bounded stack.  A push   *)
(* happens at count ++ and a pop at count --; every other step stutters.   *)
(***************************************************************************)
Used == [n \in 1 .. count |-> buffer[n - 1]]

LEMMA UsedIsSeq ==
    ASSUME TypeOK
    PROVE  Used \in Seq(Values) /\ Len(Used) = count
<1>1. count \in Nat /\ \A n \in 1 .. count : n - 1 \in Cells
  BY BufferAssumption DEF TypeOK, Cells
<1>2. Used \in [1 .. count -> Values]
  BY <1>1 DEF Used, TypeOK
<1> QED
  BY <1>1, <1>2

LEMMA PushStep ==
    ASSUME Inv, Inv', NEW p \in Producers, Increment(p)
    PROVE  Used' = Append(Used, x[p]) /\ Len(Used) < Cap /\ x[p] \in Values
<1>1. count \in Nat /\ count' = count + 1 /\ buffer' = buffer /\ count < Cap
  BY RoomToFill, BufferAssumption DEF Inv, TypeOK, Increment, FillingPCs
<1>2. Used \in Seq(Values) /\ Len(Used) = count
  BY UsedIsSeq DEF Inv
<1>3. Used' \in Seq(Values) /\ Len(Used') = count'
  <2>1. count' \in Nat /\ \A n \in 1 .. count' : n - 1 \in Cells
    BY <1>1, BufferAssumption DEF Cells
  <2>2. Used' \in [1 .. count' -> Values]
    BY <1>1, <2>1 DEF Used, Inv, TypeOK
  <2> QED
    BY <2>1, <2>2
<1>4. x[p] \in Values /\ buffer[count] = x[p]
  BY DEF Inv, TypeOK, ValuesHeld, Increment
<1>5. Append(Used, x[p]) \in Seq(Values) /\ Len(Append(Used, x[p])) = count + 1
  BY <1>2, <1>4
<1>6. \A n \in 1 .. count + 1 : Used'[n] = Append(Used, x[p])[n]
  <2> SUFFICES ASSUME NEW n \in 1 .. count + 1 PROVE Used'[n] = Append(Used, x[p])[n]
    OBVIOUS
  <2>1. Used'[n] = buffer[n - 1]
    BY <1>1 DEF Used
  <2>2. CASE n = count + 1
    BY <1>1, <1>2, <1>4, <2>1, <2>2
  <2>3. CASE n \in 1 .. count
    <3>1. Append(Used, x[p])[n] = Used[n]
      BY <1>1, <1>2, <1>4, <2>3
    <3>2. Used[n] = buffer[n - 1]
      BY <2>3 DEF Used
    <3> QED
      BY <2>1, <3>1, <3>2
  <2>4. n = count + 1 \/ n \in 1 .. count
    BY <1>1
  <2> QED
    BY <2>2, <2>3, <2>4
<1> QED
  BY <1>1, <1>2, <1>3, <1>4, <1>5, <1>6

LEMMA PopStep ==
    ASSUME Inv, NEW c \in Consumers, Decrement(c)
    PROVE  /\ Used # << >>
           /\ got' = [got EXCEPT ![c] = Used[Len(Used)]]
           /\ Used' = SubSeq(Used, 1, Len(Used) - 1)
<1>1. count \in Nat /\ count > 0 /\ count' = count - 1 /\ buffer' = buffer
  BY UsedToEmpty, BufferAssumption DEF Inv, TypeOK, Decrement, EmptyingPCs
<1>2. Used \in Seq(Values) /\ Len(Used) = count
  BY UsedIsSeq DEF Inv
<1>3. Used[Len(Used)] = y[c]
  BY <1>1, <1>2 DEF Used, Inv, ValuesHeld, Decrement
<1>4. Used' = SubSeq(Used, 1, count - 1)
  <2>1. SubSeq(Used, 1, count - 1) = [n \in 1 .. count - 1 |-> Used[n]]
    BY <1>1, <1>2
  <2>2. Used' = [n \in 1 .. count - 1 |-> buffer[n - 1]]
    BY <1>1 DEF Used
  <2>3. \A n \in 1 .. count - 1 : Used[n] = buffer[n - 1]
    BY <1>1 DEF Used
  <2> QED
    BY <2>1, <2>2, <2>3
<1> QED
  BY <1>1, <1>2, <1>3, <1>4 DEF Decrement

\* A write goes to the first free cell, which is not part of the stack yet.
LEMMA WriteStutters ==
    ASSUME Inv, NEW p \in Producers, Write(p)
    PROVE  Used' = Used /\ got' = got
<1>1. count \in Nat /\ count' = count /\ buffer' = [buffer EXCEPT ![count] = x[p]]
  BY BufferAssumption DEF Inv, TypeOK, Write
<1>2. \A n \in 1 .. count : buffer'[n - 1] = buffer[n - 1]
  BY <1>1, BufferAssumption DEF Inv, TypeOK, Cells
<1> QED
  BY <1>1, <1>2 DEF Used, Write

\* The threads use the buffer as a bounded stack.
THEOREM Refinement == Spec => StackSpec
<1>1. Init => Stack!Init
  BY DEF Init, Stack!Init
<1>2. Inv /\ Inv' /\ [Next]_vars => [Stack!Next]_(Stack!svars)
  <2> SUFFICES ASSUME Inv, Inv', [Next]_vars
               PROVE  [Stack!Next]_(Stack!svars)
    OBVIOUS
  <2>1. ASSUME Used' = Used, got' = got PROVE [Stack!Next]_(Stack!svars)
    BY <2>1 DEF Used, Stack!svars
  <2>2. ASSUME NEW p \in Producers, producer(p) PROVE [Stack!Next]_(Stack!svars)
    <3>1. CASE Write(p)
      <4>1. Used' = Used /\ got' = got
        BY <3>1, WriteStutters
      <4> QED
        BY <2>1, <4>1
    <3>2. CASE Increment(p)
      <4>1. Stack!Push(x[p]) /\ x[p] \in Values
        BY <3>2, PushStep DEF Increment, Stack!Push, Used
      <4> QED
        BY <4>1 DEF Stack!Next, Stack!Push
    <3>3. CASE \/ Produce(p) \/ WaitEmpty(p) \/ Lock(p, "write")
               \/ Unlock(p, "postFull") \/ PostFull(p)
      BY <2>1, <3>3 DEF Produce, WaitEmpty, Lock, Unlock, PostFull, Used
    <3> QED
      BY <2>2, <3>1, <3>2, <3>3 DEF producer
  <2>3. ASSUME NEW c \in Consumers, consumer(c) PROVE [Stack!Next]_(Stack!svars)
    <3>1. CASE Decrement(c)
      <4>1. Stack!Pop(c)
        BY <3>1, PopStep DEF Stack!Pop, Used
      <4> QED
        BY <4>1 DEF Stack!Next
    <3>2. CASE \/ WaitFull(c) \/ Lock(c, "read") \/ Read(c)
               \/ Unlock(c, "postEmpty") \/ PostEmpty(c)
      BY <2>1, <3>2 DEF WaitFull, Lock, Read, Unlock, PostEmpty, Used
    <3> QED
      BY <2>3, <3>1, <3>2 DEF consumer
  <2>4. CASE UNCHANGED vars
    BY <2>1, <2>4 DEF vars, Used
  <2> QED
    BY <2>2, <2>3, <2>4 DEF Next
<1> QED
  BY <1>1, <1>2, Invariance, PTL DEF Spec, StackSpec, Stack!Spec

-----------------------------------------------------------------------------
(* FuelStation *)

FuelCritical == {"check", "load", "store", "unlock"}

\* The mutex is held by whoever is between lock and unlock.
FuelMutexHeld == \A t \in Tids : where[t] \in FuelCritical => mutexFuel = t

\* What a thread has loaded is still there when it stores, and a car that goes on
\* to take its fuel has seen that there is enough.
StillThere == \A t \in Tids :
                 /\ At(t, "store") => seen[t] = fuel
                 /\ (t # Station /\ where[t] \in {"load", "store"}) => fuel >= Need

\* main creates the threads in turn; a car and the station have their own places.
Created == /\ main.at = "create" => main.i < ThreadNum
           /\ \A t \in Tids :
                 /\ t >= ThreadNum \/ (main.at = "create" /\ t >= main.i) =>
                        At(t, "uncreated")
                 /\ t = Station => where[t] \notin {"check", "asleep", "woken"}
                 /\ t # Station => where[t] \notin {"notify", "sleep"}
           /\ where[Station] # "done" => rounds < Rounds

FuelInv ==
    /\ FuelTypeOK /\ FuelMutexHeld /\ StillThere /\ Created
    /\ FuelAccounted /\ NoLostWakeup

Numbers == /\ Tids = {0, 1, 2, 3, 4}
           /\ Tids \subseteq Int
           /\ Nobody \notin Tids
           /\ ThreadNum \in {2, 5} /\ Station \in Tids
           /\ FillAmount \in {15, 30} /\ Need = 40 /\ Rounds = 5

LEMMA NumbersOK == FuelTypeOK => Numbers
BY DEF FuelTypeOK, Numbers, Tids, Nobody, ThreadNum, Station,
   FillAmount, Need, Rounds

-----------------------------------------------------------------------------
(* Counting the cars that have their fuel. *)

LEMMA ThreadsFinite == IsFiniteSet(Tids)
<1>1. 0 \in Int /\ 4 \in Int
  OBVIOUS
<1> QED
  BY <1>1, FS_Interval DEF Tids

LEMMA ServedCount ==
    /\ IsFiniteSet(Served) /\ Cardinality(Served) \in Nat
<1>1. Served \subseteq Tids
  BY DEF Served
<1>2. IsFiniteSet(Served)
  BY <1>1, ThreadsFinite, FS_Subset
<1> QED
  BY <1>2, FS_CardinalityType

\* A car that stores has its fuel from then on.
LEMMA ServedOneMore ==
    ASSUME FuelTypeOK, NEW c \in Tids, c # Station,
           At(c, "store"), MoveTo(c, "unlock"), program' = program
    PROVE  Cardinality(Served') = Cardinality(Served) + 1
<1>1. Served' = Served \cup {c} /\ c \notin Served
  BY DEF Served, FuelTypeOK, At, MoveTo, Station
<1> QED
  BY <1>1, ServedCount, FS_AddElement

\* No other step gives a car its fuel.
LEMMA ServedSame ==
    ASSUME FuelTypeOK, program' = program,
           \A t \in Tids : t # Station =>
               (where'[t] \in {"unlock", "done"} <=> where[t] \in {"unlock", "done"})
    PROVE  Served' = Served
BY DEF Served, Station

-----------------------------------------------------------------------------

LEMMA FuelInitInv == ASSUME FuelInit PROVE FuelInv
<1>1. FuelTypeOK
  BY MaxSpuriousAssumption DEF FuelInit, FuelTypeOK, Tids, Places, Rounds
<1>2. FuelMutexHeld /\ StillThere
  BY DEF FuelInit, FuelMutexHeld, StillThere, FuelCritical, At
<1>3. Created
  BY <1>1, NumbersOK DEF FuelInit, Created, Numbers, At, ThreadNum
<1>4. Served = {} /\ Asleep = {}
  BY DEF FuelInit, Served, Asleep, At
<1>5. FuelAccounted
  <2>1. Fills = 0
    BY <1>1, NumbersOK DEF FuelInit, Fills, Numbers
  <2>2. Cardinality(Served) = 0
    BY <1>4, FS_EmptySet
  <2> QED
    BY <1>1, <2>1, <2>2, NumbersOK DEF FuelInit, FuelAccounted, Numbers
<1> QED
  BY <1>1, <1>2, <1>3, <1>4, <1>5 DEF FuelInv, NoLostWakeup

LEMMA MoreFills ==
    ASSUME FuelTypeOK, NEW n \in Int
    PROVE  FillAmount * (n + 1) = FillAmount * n + FillAmount
<1>1. CASE FillAmount = 15
  BY <1>1
<1>2. CASE FillAmount = 30
  BY <1>2
<1> QED
  BY <1>1, <1>2, NumbersOK DEF Numbers

(***************************************************************************)
(* The steps that do not touch fuel: types, mutex and main.                *)
(***************************************************************************)
LEMMA CoreStep ==
    ASSUME FuelInv, FuelNext
    PROVE  FuelTypeOK' /\ FuelMutexHeld' /\ StillThere' /\ Created'
<1> USE NumbersOK, MaxSpuriousAssumption
    DEF FuelInv, FuelTypeOK, FuelMutexHeld, StillThere, Created, FuelCritical,
       At, MoveTo, Numbers, Places
<1>0. Station' = Station /\ ThreadNum' = ThreadNum
  BY DEF FuelNext, Create, Join, StationStep, Notify, EndOfRound,
     CarStep, WakeUnasked, LockFuel, Load, Store, UnlockFuel, Check,
     Station, ThreadNum
<1> USE <1>0
<1>1. CASE Create
  BY <1>1 DEF Create, NextIn
<1>2. CASE Join
  BY <1>2 DEF Join, NextIn
<1>3. ASSUME NEW t \in Tids, LockFuel(t)
      PROVE  FuelTypeOK' /\ FuelMutexHeld' /\ StillThere' /\ Created'
  BY <1>3 DEF LockFuel
<1>4. ASSUME NEW t \in Tids, Load(t)
      PROVE  FuelTypeOK' /\ FuelMutexHeld' /\ StillThere' /\ Created'
  BY <1>4 DEF Load
<1>5. ASSUME NEW t \in Tids, Store(t)
      PROVE  FuelTypeOK' /\ FuelMutexHeld' /\ StillThere' /\ Created'
  BY <1>5 DEF Store
<1>6. ASSUME NEW t \in Tids, UnlockFuel(t)
      PROVE  FuelTypeOK' /\ FuelMutexHeld' /\ StillThere' /\ Created'
  BY <1>6 DEF UnlockFuel
<1>7. ASSUME NEW W \in Woken, Notify(W)
      PROVE  FuelTypeOK' /\ FuelMutexHeld' /\ StillThere' /\ Created'
  BY <1>7 DEF Notify, Woken, Asleep
<1>8. CASE EndOfRound
  BY <1>8 DEF EndOfRound
<1>9. ASSUME NEW c \in Tids, c # Station, Check(c)
      PROVE  FuelTypeOK' /\ FuelMutexHeld' /\ StillThere' /\ Created'
  BY <1>9 DEF Check
<1>10. ASSUME NEW c \in Tids, WakeUnasked(c)
       PROVE  FuelTypeOK' /\ FuelMutexHeld' /\ StillThere' /\ Created'
  BY <1>10 DEF WakeUnasked
<1> QED
  BY <1>1, <1>2, <1>3, <1>4, <1>5, <1>6, <1>7, <1>8, <1>9, <1>10 DEF FuelNext,
     StationStep, CarStep

(***************************************************************************)
(* The accounting of fuel.                                                 *)
(***************************************************************************)
LEMMA FuelStep ==
    ASSUME FuelInv, FuelNext
    PROVE  FuelAccounted'
<1> USE NumbersOK DEF FuelInv, FuelTypeOK, Numbers, At
<1>0. Station' = Station /\ FillAmount' = FillAmount /\ program' = program
  BY DEF FuelNext, Create, Join, StationStep, Notify, EndOfRound,
     CarStep, WakeUnasked, LockFuel, Load, Store, UnlockFuel, Check,
     Station, FillAmount
<1>1. Cardinality(Served) \in Nat /\ Fills \in Int
  BY ServedCount DEF Fills
<1>2. ASSUME fuel' = fuel, Fills' = Fills, Served' = Served
      PROVE  FuelAccounted'
  BY <1>0, <1>2 DEF FuelAccounted, Need
\* Everything but the two stores, whoever takes it.
<1>3. ASSUME NEW t \in Tids,
             \/ LockFuel(t) \/ Load(t) \/ UnlockFuel(t)
             \/ (t # Station /\ Check(t)) \/ WakeUnasked(t)
      PROVE  FuelAccounted'
  <2>1. fuel' = fuel
    BY <1>3 DEF LockFuel, Load, UnlockFuel, Check, WakeUnasked
  <2>2. Served' = Served
    BY <1>0, <1>3, ServedSame DEF LockFuel, Load, UnlockFuel, Check,
       WakeUnasked, MoveTo, Created
  <2>3. Fills' = Fills
    BY <1>0, <1>3 DEF LockFuel, Load, UnlockFuel, Check, WakeUnasked,
       MoveTo, Fills
  <2> QED
    BY <1>2, <2>1, <2>2, <2>3
<1>4. CASE Create \/ Join \/ EndOfRound \/ \E W \in Woken : Notify(W)
  <2>1. fuel' = fuel
    BY <1>4 DEF Create, Join, EndOfRound, Notify
  <2>2. Served' = Served
    BY <1>0, <1>4, ServedSame DEF Create, Join, EndOfRound, Notify,
       MoveTo, Created, Woken, Asleep
  <2>3. Fills' = Fills
    BY <1>0, <1>4 DEF Create, Join, EndOfRound, Notify, MoveTo,
       Fills, Created, Woken, Asleep
  <2> QED
    BY <1>2, <2>1, <2>2, <2>3
<1>5. CASE Store(Station)
  <2>1. fuel' = fuel + FillAmount
    BY <1>5 DEF Store, StillThere
  <2>2. Served' = Served
    BY <1>0, <1>5, ServedSame DEF Store, MoveTo
  <2>3. Fills' = Fills + 1
    BY <1>0, <1>5 DEF Store, MoveTo, Fills
  <2>4. FillAmount * (Fills + 1) = FillAmount * Fills + FillAmount
    BY <1>1, MoreFills
  <2> QED
    BY <1>0, <1>1, <2>1, <2>2, <2>3, <2>4 DEF FuelAccounted, Need
<1>6. ASSUME NEW c \in Tids, c # Station, Store(c) PROVE FuelAccounted'
  <2>1. fuel' = fuel - Need /\ fuel >= Need
    BY <1>6 DEF Store, StillThere
  <2>2. Cardinality(Served') = Cardinality(Served) + 1
    BY <1>0, <1>6, ServedOneMore DEF Store
  <2>3. Fills' = Fills
    BY <1>0, <1>6 DEF Store, MoveTo, Fills
  <2> QED
    BY <1>0, <1>1, <2>1, <2>2, <2>3 DEF FuelAccounted, Need
<1> QED
  BY <1>3, <1>4, <1>5, <1>6 DEF FuelNext, StationStep, CarStep

(***************************************************************************)
(* The wake-ups.                                                           *)
(***************************************************************************)

\* Whoever is asleep is woken: in program 1 there is one car.
LEMMA AllWoken ==
    ASSUME FuelInv, NEW W \in Woken
    PROVE  W = Asleep
<1>1. CASE program = 1
  <2>1. \A t \in Tids : At(t, "asleep") => t = 1
    BY <1>1 DEF FuelInv, Created, Tids, ThreadNum, Station, At
  <2> QED
    BY <1>1, <2>1 DEF Woken, Asleep
<1>2. CASE program # 1
  BY <1>2 DEF Woken
<1> QED
  BY <1>1, <1>2

LEMMA WakeupStep ==
    ASSUME FuelInv, FuelNext
    PROVE  NoLostWakeup'
<1> USE NumbersOK DEF FuelInv, FuelTypeOK, Numbers, At, NoLostWakeup, Asleep
<1>0. Station' = Station
  BY DEF FuelNext, Create, Join, StationStep, Notify, EndOfRound,
     CarStep, WakeUnasked, LockFuel, Load, Store, UnlockFuel, Check,
     Station
<1>1. ASSUME NEW t \in Tids,
             \/ LockFuel(t) \/ Load(t)
             \/ (t # Station /\ UnlockFuel(t)) \/ WakeUnasked(t)
      PROVE  NoLostWakeup'
  BY <1>0, <1>1 DEF LockFuel, Load, UnlockFuel, WakeUnasked, MoveTo, Created
<1>2. ASSUME NEW c \in Tids, c # Station, Store(c) \/ Check(c)
      PROVE  NoLostWakeup'
  BY <1>0, <1>2 DEF Store, Check, MoveTo, StillThere
<1>3. CASE Store(Station) \/ UnlockFuel(Station)
  BY <1>0, <1>3 DEF Store, UnlockFuel, MoveTo
<1>4. ASSUME NEW W \in Woken, Notify(W) PROVE NoLostWakeup'
  BY <1>0, <1>4, AllWoken DEF Notify
<1>5. CASE Create \/ Join \/ EndOfRound
  BY <1>0, <1>5 DEF Create, Join, EndOfRound, MoveTo, Created
<1> QED
  BY <1>1, <1>2, <1>3, <1>4, <1>5 DEF FuelNext, StationStep, CarStep

LEMMA FuelInvStep == FuelInv /\ [FuelNext]_fuelVars => FuelInv'
<1>1. ASSUME FuelInv, FuelNext PROVE FuelInv'
  BY <1>1, CoreStep, FuelStep, WakeupStep DEF FuelInv
<1>2. ASSUME FuelInv, UNCHANGED fuelVars PROVE FuelInv'
  BY <1>2 DEF FuelInv, FuelTypeOK, FuelMutexHeld, StillThere, Created, FuelAccounted,
     NoLostWakeup, fuelVars, At, Station, ThreadNum, FillAmount, Served, Fills, Asleep
<1> QED
  BY <1>1, <1>2

LEMMA FuelInvAlways == FuelSpec => []FuelInv
<1>1. FuelInit => FuelInv
  BY FuelInitInv
<1> QED
  BY <1>1, FuelInvStep, PTL DEF FuelSpec

-----------------------------------------------------------------------------

\* The variables keep the values that the programs give them.
THEOREM FuelTypeCorrect == FuelSpec => []FuelTypeOK
<1>1. FuelInv => FuelTypeOK
  BY DEF FuelInv
<1> QED
  BY <1>1, FuelInvAlways, PTL

\* Every fill and every car's share of it is accounted for, and there is never
\* less than no fuel, though pthread_cond_wait return as often as it likes.
THEOREM FuelIsAccounted == FuelSpec => []FuelAccounted
<1>1. FuelInv => FuelAccounted
  BY DEF FuelInv
<1> QED
  BY <1>1, FuelInvAlways, PTL

\* No car is left asleep beside the fuel it waits for.
THEOREM WakeupsArrive == FuelSpec => []NoLostWakeup
<1>1. FuelInv => NoLostWakeup
  BY DEF FuelInv
<1> QED
  BY <1>1, FuelInvAlways, PTL
=============================================================================
