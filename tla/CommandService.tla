-------------------------- MODULE CommandService --------------------------
(***************************************************************************)
(* What Node.Apply promises to its caller, whichever node runs the command *)
(* and however often it is redirected: a command is executed at most once, *)
(* a success is reported only of an executed command, and a definite       *)
(* refusal (no leader, too many redirects, not running) only of one that   *)
(* is not and never will be executed.  Any other error says nothing.       *)
(***************************************************************************)
EXTENDS Naturals

CONSTANT Calls

VARIABLES
    times,      \* times[c]: how often the command of call c was executed
    answer      \* answer[c]: what Apply returned

Init ==
    /\ times = [c \in Calls |-> 0]
    /\ answer = [c \in Calls |-> "none"]

Execute(c) ==
    /\ times[c] = 0
    /\ answer[c] # "refused"
    /\ times' = [times EXCEPT ![c] = 1]
    /\ UNCHANGED answer

Return(c, a) ==
    /\ answer[c] = "none"
    /\ a = "ok" => times[c] = 1
    /\ a = "refused" => times[c] = 0
    /\ answer' = [answer EXCEPT ![c] = a]
    /\ UNCHANGED times

Next ==
    \E c \in Calls : Execute(c) \/ \E a \in {"ok", "refused", "unknown"} : Return(c, a)

Spec == Init /\ [][Next]_<<times, answer>>
===========================================================================
