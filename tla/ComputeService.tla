--------------------------- MODULE ComputeService ---------------------------
(***************************************************************************)
(* What the compute pool promises its callers: calls run in the order they  *)
(* came, at most Limit at a time, nobody waits while there is room, and     *)
(* each call is answered once.  Workers, messages, timers and replacement   *)
(* are ComputeWorkerPool's business.                                        *)
(***************************************************************************)
EXTENDS Naturals, Sequences, FiniteSets

CONSTANTS
    Calls,    \* what callers ask for
    Limit,    \* how many run at once
    NoAnswer  \* a call without an answer yet

VARIABLES
    waiting,  \* calls in line, the oldest first
    running,  \* calls that have a worker
    answer    \* what each caller was told

serviceVars == <<waiting, running, answer>>

Told == {"result", "timeout", "lost", "closed"}
InLine == {waiting[k] : k \in DOMAIN waiting}
New(c) == answer[c] = NoAnswer /\ c \notin InLine \cup running

ServiceInit ==
    /\ waiting = <<>>
    /\ running = {}
    /\ answer = [c \in Calls |-> NoAnswer]

Run(c) ==
    /\ New(c) /\ waiting = <<>> /\ Cardinality(running) < Limit
    /\ running' = running \cup {c}
    /\ UNCHANGED <<waiting, answer>>

Wait(c) ==
    /\ New(c) /\ Cardinality(running) = Limit
    /\ waiting' = Append(waiting, c)
    /\ UNCHANGED <<running, answer>>

Refuse(c) ==
    /\ New(c)
    /\ answer' = [answer EXCEPT ![c] = "closed"]
    /\ UNCHANGED <<waiting, running>>

GiveUp(k) ==
    /\ answer' = [answer EXCEPT ![waiting[k]] = "queue_timeout"]
    /\ waiting' = SubSeq(waiting, 1, k - 1) \o SubSeq(waiting, k + 1, Len(waiting))
    /\ UNCHANGED running

\* A call ends; the next in line that still has time takes its place.
Complete(c) ==
    \E told \in Told, n \in 0 .. Len(waiting) :
        /\ c \in running
        /\ waiting' = SubSeq(waiting, n + 2, Len(waiting))
        /\ running' = (running \ {c}) \cup {waiting[k] : k \in {n + 1} \cap DOMAIN waiting}
        /\ answer' = [d \in Calls |->
                        CASE d = c -> told
                          [] \E k \in 1 .. n : waiting[k] = d -> "queue_timeout"
                          [] OTHER -> answer[d]]

CloseService ==
    /\ waiting' = <<>>
    /\ running' = {}
    /\ answer' = [c \in Calls |-> IF c \in InLine \cup running THEN "closed" ELSE answer[c]]

ServiceNext ==
    \/ \E c \in Calls : Run(c) \/ Wait(c) \/ Refuse(c) \/ Complete(c)
    \/ \E k \in DOMAIN waiting : GiveUp(k)
    \/ CloseService

ServiceSpec == ServiceInit /\ [][ServiceNext]_serviceVars
=============================================================================
