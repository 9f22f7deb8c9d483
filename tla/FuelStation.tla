----------------------------- MODULE FuelStation -----------------------------
(***************************************************************************)
(* CodeVault_ConditionVariable (program 1: one station, one car, a signal  *)
(* after each fill of 15) and CodeVault_ConditionVariable2 (program 2: four *)
(* cars, one station, a broadcast after each fill of 30).  The two programs *)
(* differ only in those numbers, in the wake-up and in which thread is the *)
(* station; "program", fixed at the start, tells them apart.               *)
(*                                                                         *)
(* A thread's step is one access to shared state: taking or releasing      *)
(* mutexFuel, the load and the store of "fuel += n", a call on condFuel.   *)
(* The names are not those of BoundedBuffer, so that CodeVaultProofs can   *)
(* extend both modules.                                                    *)
(***************************************************************************)
EXTENDS Integers, FiniteSets

CONSTANT MaxSpurious    \* bound: wake-ups nobody asked for, in a whole run

ASSUME MaxSpuriousAssumption == MaxSpurious \in Nat

VARIABLES
    program,    \* 1 or 2; never changes
    fuel,       \* the shared variable
    mutexFuel,  \* the thread that holds mutexFuel, or Nobody
    where,      \* where each thread is
    seen,       \* the value of fuel each thread loaded for its update
    rounds,     \* i of fuel_filling: fills that are over
    main,       \* main's position: [at, i], the loop it is in and its i
    spurious    \* spurious wake-ups so far

fuelVars == <<program, fuel, mutexFuel, where, seen, rounds, main, spurious>>

Nobody == -1
Tids == 0 .. 4                          \* th[], as long as in program 2
ThreadNum == IF program = 1 THEN 2 ELSE 5
Station == IF program = 1 THEN 0 ELSE 4
FillAmount == IF program = 1 THEN 15 ELSE 30
Rounds == 5
Need == 40

Places == {"uncreated", "lock", "check", "asleep", "woken", "load", "store",
           "unlock", "notify", "sleep", "done"}

FuelInit == /\ program \in {1, 2}
            /\ fuel = 0
            /\ mutexFuel = Nobody
            /\ where = [t \in Tids |-> "uncreated"]
            /\ seen = [t \in Tids |-> 0]
            /\ rounds = 0
            /\ main = [at |-> "create", i |-> 0]
            /\ spurious = 0

At(t, place) == where[t] = place
MoveTo(t, place) == where' = [where EXCEPT ![t] = place]

-----------------------------------------------------------------------------
(* The steps a station and a car share. *)

\* Mutant of LockFuel: a car that was woken does not check again.
LockWithoutCheck(t) ==
    /\ where[t] \in {"lock", "woken"}
    /\ mutexFuel = Nobody
    /\ mutexFuel' = t
    /\ MoveTo(t, IF t = Station \/ where[t] = "woken" THEN "load" ELSE "check")
    /\ UNCHANGED <<program, fuel, seen, rounds, main, spurious>>

\* pthread_mutex_lock, and the re-acquisition at the end of pthread_cond_wait.
LockFuel(t) == /\ where[t] \in {"lock", "woken"}
               /\ mutexFuel = Nobody
               /\ mutexFuel' = t
               /\ MoveTo(t, IF t = Station THEN "load" ELSE "check")
               /\ UNCHANGED <<program, fuel, seen, rounds, main, spurious>>

\* "fuel += n" reads fuel ...
Load(t) == /\ At(t, "load")
           /\ seen' = [seen EXCEPT ![t] = fuel]
           /\ MoveTo(t, "store")
           /\ UNCHANGED <<program, fuel, mutexFuel, rounds, main, spurious>>

\* ... and writes it back.
Store(t) == /\ At(t, "store")
            /\ fuel' = seen[t] + (IF t = Station THEN FillAmount ELSE -Need)
            /\ MoveTo(t, "unlock")
            /\ UNCHANGED <<program, mutexFuel, seen, rounds, main, spurious>>

\* Mutant of UnlockFuel: a car leaves with the mutex.
UnlockForgotten(t) == /\ At(t, "unlock")
                      /\ mutexFuel' = IF t = Station THEN Nobody ELSE mutexFuel
                      /\ MoveTo(t, IF t = Station THEN "notify" ELSE "done")
                      /\ UNCHANGED <<program, fuel, seen, rounds, main, spurious>>

UnlockFuel(t) == /\ At(t, "unlock")
                 /\ mutexFuel' = Nobody
                 /\ MoveTo(t, IF t = Station THEN "notify" ELSE "done")
                 /\ UNCHANGED <<program, fuel, seen, rounds, main, spurious>>

-----------------------------------------------------------------------------
(* fuel_filling *)

Asleep == {t \in Tids : At(t, "asleep")}

\* Mutant of Woken: a signal in either program.
WokenOne == IF Asleep # {} THEN {{t} : t \in Asleep} ELSE {Asleep}

\* The threads a call on condFuel wakes: one of the sleepers, if there is one,
\* for pthread_cond_signal, all of them for pthread_cond_broadcast.  A call that
\* finds nobody asleep leaves no trace.
Woken == IF program = 1 /\ Asleep # {} THEN {{t} : t \in Asleep} ELSE {Asleep}

Notify(W) == /\ At(Station, "notify")
             /\ where' = [t \in Tids |-> IF t \in W THEN "woken"
                                         ELSE IF t = Station THEN "sleep"
                                         ELSE where[t]]
             /\ UNCHANGED <<program, fuel, mutexFuel, seen, rounds, main, spurious>>

EndOfRound == /\ At(Station, "sleep")
              /\ rounds' = rounds + 1
              /\ MoveTo(Station, IF rounds' < Rounds THEN "lock" ELSE "done")
              /\ UNCHANGED <<program, fuel, mutexFuel, seen, main, spurious>>

StationStep == \/ /\ where[Station] \in {"lock", "load", "store", "unlock"}
                  /\ LockFuel(Station) \/ Load(Station) \/ Store(Station) \/ UnlockFuel(Station)
               \/ \E W \in Woken : Notify(W)
               \/ EndOfRound

-----------------------------------------------------------------------------
(* car *)

\* "while (fuel < 40)": too little fuel leads to pthread_cond_wait, which
\* releases the mutex and goes to sleep in one step.
Check(c) == /\ At(c, "check")
            /\ IF fuel < Need THEN /\ mutexFuel' = Nobody
                                  /\ MoveTo(c, "asleep")
                             ELSE /\ MoveTo(c, "load")
                                  /\ UNCHANGED mutexFuel
            /\ UNCHANGED <<program, fuel, seen, rounds, main, spurious>>

\* pthread_cond_wait may return without a call on condFuel.
WakeUnasked(c) == /\ At(c, "asleep")
                  /\ spurious < MaxSpurious
                  /\ spurious' = spurious + 1
                  /\ MoveTo(c, "woken")
                  /\ UNCHANGED <<program, fuel, mutexFuel, seen, rounds, main>>

CarStep(c) == c # Station /\ (LockFuel(c) \/ Check(c) \/ Load(c) \/ Store(c) \/ UnlockFuel(c))

-----------------------------------------------------------------------------
(* main *)

\* One round of a loop of main over th[], and where it goes after the last one.
NextIn(loop, after) ==
    main' = IF main.i + 1 < ThreadNum THEN [at |-> loop, i |-> main.i + 1]
                                      ELSE [at |-> after, i |-> 0]

Create == /\ main.at = "create"
          /\ MoveTo(main.i, "lock")
          /\ NextIn("create", "join")
          /\ UNCHANGED <<program, fuel, mutexFuel, seen, rounds, spurious>>

Join == /\ main.at = "join"
        /\ At(main.i, "done")
        /\ NextIn("join", "destroyed")
        /\ UNCHANGED <<program, fuel, mutexFuel, where, seen, rounds, spurious>>

-----------------------------------------------------------------------------

FuelNext == \/ Create
            \/ Join
            \/ StationStep
            \/ \E c \in Tids : CarStep(c) \/ WakeUnasked(c)

\* Every thread runs when it can; no wake-up is promised that nobody asked for.
\* The mutex need not be handed out in turn: each thread takes it a bounded
\* number of times, so in the end nobody is in the way of the last one.
FuelFairness == /\ WF_fuelVars(Create \/ Join)
                /\ WF_fuelVars(StationStep)
                /\ \A c \in Tids : WF_fuelVars(CarStep(c))

FuelSpec == FuelInit /\ [][FuelNext]_fuelVars /\ FuelFairness

-----------------------------------------------------------------------------

FuelTypeOK == /\ program \in {1, 2}
              /\ fuel \in Int
              /\ mutexFuel \in Tids \cup {Nobody}
              /\ where \in [Tids -> Places]
              /\ seen \in [Tids -> Int]
              /\ rounds \in 0 .. Rounds
              /\ main \in [at : {"create", "join", "destroyed"}, i : Tids]
              /\ spurious \in 0 .. MaxSpurious

\* Cars that have their fuel, fills that have been made.
Served == {c \in Tids \ {Station} : where[c] \in {"unlock", "done"}}
Fills == rounds + (IF where[Station] \in {"unlock", "notify", "sleep"} THEN 1 ELSE 0)

\* No update of fuel (condition_variable.c:23, :53) is lost or made twice,
\* whatever threads are half-way through theirs, and no car takes fuel that is
\* not there, however it came out of pthread_cond_wait.
FuelAccounted == /\ fuel = FillAmount * Fills - Need * Cardinality(Served)
                 /\ fuel >= 0

\* A car sleeps while there is fuel for it only when the station is about to
\* wake it: between its store and its call on condFuel
\* (condition_variable.c:23-28, condition_variable_broadcast.c:24-28).  So
\* nobody goes to sleep just after the wake-up that was meant for it, and one
\* wake-up reaches all the cars that it may concern.
NoLostWakeup == fuel >= Need /\ Asleep # {} => where[Station] \in {"unlock", "notify"}

\* How the programs end.  Program 1 destroys the mutex and returns.  Program 2
\* never returns: 5 * 30 is fuel for three cars, so exactly three get it, one
\* sleeps for good and main joins it for good
\* (condition_variable_broadcast.c:79-83).
Outcome == \/ program = 1 /\ <>(main.at = "destroyed")
           \/ /\ program = 2
              /\ <>[](/\ main.at = "join" /\ At(main.i, "asleep")
                      /\ Cardinality(Served) = 3 /\ fuel = 30 /\ At(Station, "done"))
=============================================================================
