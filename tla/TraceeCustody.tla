---------------------------- MODULE TraceeCustody ----------------------------
(* What the monitor promises about the processes init forks, leaving out how *)
(* it learns of them: each is followed from its fork to its exec, where it   *)
(* is decided once whether it is handed to a tracer or let go.  Module       *)
(* Monitor implements this specification.                                    *)
CONSTANT Processes

VARIABLES
    on,       \* the monitor is injecting
    custody   \* of each process, see Custody

(*   absent     there is no such process, or it is dead                      *)
(*   followed   the monitor waits for its exec                               *)
(*   signalled  followed, and stopped by a signal that stops nobody else     *)
(*   deciding   it exec'd                                                    *)
(*   forgotten  given up on before it was decided                            *)
(*   handed     a tracer has it, or had it                                   *)
(*   free       let go                                                       *)
Custody == {"absent", "followed", "signalled", "deciding", "forgotten", "handed", "free"}
Watched == {"followed", "signalled", "deciding", "forgotten"}

vars == <<on, custody>>

Init == on = TRUE /\ custody \in [Processes -> {"absent", "followed"}]

Passes(p, from, to) == custody[p] \in from /\ custody' = [custody EXCEPT ![p] = to]

(* The life of a process.                                                    *)
Forks(p)  == Passes(p, {"absent"}, "followed") /\ UNCHANGED on
Stops(p)  == Passes(p, {"followed"}, "signalled") /\ UNCHANGED on
Execs(p)  == Passes(p, {"followed"}, "deciding") /\ UNCHANGED on
Dies(p)   == Passes(p, Custody \ {"absent"}, "absent") /\ UNCHANGED on

(* It is let go before its exec only for a signal of its own, or when the    *)
(* monitor does not inject.                                                  *)
LetGo(p) ==
    /\ custody[p] = "followed" => ~on
    /\ Passes(p, {"followed", "signalled"}, "free")
    /\ UNCHANGED on

(* The decision; the monitor may stop injecting because of it.               *)
HandOver(p) == on /\ Passes(p, {"deciding"}, "handed") /\ UNCHANGED on
Decline(p) == Passes(p, {"deciding"}, "free") /\ (on' = on \/ on' = FALSE)

(* It did not come to a decision; the next report follows it anew.           *)
GiveUp(p) == Passes(p, {"deciding"}, "forgotten") /\ UNCHANGED on
Recall(p) == Passes(p, {"forgotten"}, "followed") /\ UNCHANGED on

(* A command starts or stops the injection, or ends the monitor.             *)
Switch == on' = ~on /\ UNCHANGED custody
Leave ==
    /\ ~on
    /\ custody' = [p \in Processes |-> IF custody[p] \in Watched THEN "free" ELSE custody[p]]
    /\ UNCHANGED on

(* A process's step changes its custody.                                     *)
Next ==
    \/ Switch \/ Leave
    \/ \E p \in Processes :
         /\ custody'[p] # custody[p]
         /\ \/ Forks(p) \/ Stops(p) \/ Execs(p) \/ Dies(p)
            \/ LetGo(p) \/ HandOver(p) \/ Decline(p) \/ GiveUp(p) \/ Recall(p)

Spec == Init /\ [][Next]_vars
==============================================================================
