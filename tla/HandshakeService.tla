-------------------------- MODULE HandshakeService --------------------------
(***************************************************************************)
(* What the three servers of project3a, project3b and project3c promise,   *)
(* whatever their concurrency: a server prints, for each client, first the *)
(* number X the client sent and then the number Z = X + 2, each once and   *)
(* in that order; a client that ends successfully has had its X printed;   *)
(* a client that nobody killed ends unsuccessfully only after the server   *)
(* went down; the server goes down only after some client failed.          *)
(*                                                                         *)
(* An unsteady server may break down at any time and is then of no use:    *)
(* until its process ends it may print anything and answer anything.  Up   *)
(* to that moment it keeps the promise.                                    *)
(*                                                                         *)
(* SeqServer, AsyncServer (up to MAX_PENDING connections) and MultiServer  *)
(* when its clients are paced implement this specification steadily;       *)
(* MultiServer with clients that connect in a burst implements it          *)
(* unsteadily.                                                             *)
(***************************************************************************)
EXTENDS Integers, Sequences

CONSTANTS
    Clients,    \* the client processes
    Inputs,     \* the numbers X a client may be started with
    MaxInt,     \* INT_MAX: C's int is -(MaxInt+1)..MaxInt
    Fragile     \* the clients that may be killed

VARIABLES
    xNum,       \* xNum[c]: the number client c was started with
    printed,    \* printed[c]: the numbers the server has printed for c
    outcome,    \* outcome[c]: how client c stands
    up,         \* does the server serve?
    unsteady    \* may it break down without a reason?  Never changes

vars == <<xNum, printed, outcome, up, unsteady>>

CInt == -(MaxInt + 1) .. MaxInt

(***************************************************************************)
(* The value of an int computation whose mathematical result is n.         *)
(***************************************************************************)
Wrap(n) == ((n + MaxInt + 1) % (2 * (MaxInt + 1))) - (MaxInt + 1)

Init ==
    /\ xNum \in [Clients -> Inputs]
    /\ printed = [c \in Clients |-> << >>]
    /\ outcome = [c \in Clients |-> "running"]
    /\ up = TRUE
    /\ unsteady \in BOOLEAN

Fputs(c, n) == printed' = [printed EXCEPT ![c] = Append(@, n)]

PrintFirst(c) ==
    /\ up
    /\ printed[c] = << >>
    /\ Fputs(c, xNum[c])
    /\ UNCHANGED <<xNum, outcome, up, unsteady>>

PrintSecond(c) ==
    /\ up
    /\ printed[c] = <<xNum[c]>>
    /\ Fputs(c, Wrap(xNum[c] + 2))
    /\ UNCHANGED <<xNum, outcome, up, unsteady>>

(***************************************************************************)
(* Whatever is printed for a client that died before it sent its X.        *)
(***************************************************************************)
PrintForDead(c) ==
    /\ up
    /\ outcome[c] = "failed"
    /\ printed[c] = << >>
    /\ \E n \in CInt : Fputs(c, n)
    /\ UNCHANGED <<xNum, outcome, up, unsteady>>

(***************************************************************************)
(* What a server that broke down still prints.                             *)
(***************************************************************************)
LastWords(c) ==
    /\ unsteady /\ ~up
    /\ \E n \in CInt : Fputs(c, n)
    /\ UNCHANGED <<xNum, outcome, up, unsteady>>

ClientEnds(c) ==
    /\ outcome[c] = "running"
    /\ printed[c] # << >> \/ (unsteady /\ ~up)
    /\ outcome' = [outcome EXCEPT ![c] = "ok"]
    /\ UNCHANGED <<xNum, printed, up, unsteady>>

ClientFails(c) ==
    /\ outcome[c] = "running"
    /\ c \in Fragile \/ ~up
    /\ outcome' = [outcome EXCEPT ![c] = "failed"]
    /\ UNCHANGED <<xNum, printed, up, unsteady>>

ServerExits ==
    /\ up
    /\ unsteady \/ \E c \in Clients : outcome[c] = "failed"
    /\ up' = FALSE
    /\ UNCHANGED <<xNum, printed, outcome, unsteady>>

Next ==
    \/ ServerExits
    \/ \E c \in Clients :
         \/ PrintFirst(c) \/ PrintSecond(c) \/ PrintForDead(c) \/ LastWords(c)
         \/ ClientEnds(c) \/ ClientFails(c)

Spec == Init /\ [][Next]_vars

=============================================================================
