---------------------------- MODULE BoundedStack ----------------------------
(***************************************************************************)
(* What the buffer of CodeVault_BoundedBuffer is to its threads: a stack   *)
(* of at most Cap values.  A producer pushes a value in one step; a        *)
(* consumer pops the latest value in one step and prints it.  Nothing is   *)
(* lost, duplicated or made up.                                            *)
(***************************************************************************)
EXTENDS Integers, Sequences

CONSTANTS
    Consumers,
    Values,     \* the values of rand() % 100
    Cap         \* the size of the buffer

VARIABLES
    stack,
    got         \* got[c]: the value consumer c printed last, -1 before

svars == <<stack, got>>

Init ==
    /\ stack = << >>
    /\ got = [c \in Consumers |-> -1]

Push(v) ==
    /\ Len(stack) < Cap
    /\ stack' = Append(stack, v)
    /\ UNCHANGED got

Pop(c) ==
    /\ stack # << >>
    /\ got' = [got EXCEPT ![c] = stack[Len(stack)]]
    /\ stack' = SubSeq(stack, 1, Len(stack) - 1)

Next == (\E v \in Values : Push(v)) \/ (\E c \in Consumers : Pop(c))

Spec == Init /\ [][Next]_svars

=============================================================================
