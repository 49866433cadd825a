-------------------------- MODULE CommandLifecycle --------------------------
(***************************************************************************)
(* What the command layer promises of one write command, without saying    *)
(* how: a preview is confirmed, withdrawn or forgotten; only a confirmed   *)
(* command may send its create request to Dolibarr, and it sends at most   *)
(* one; what is settled, withdrawn or forgotten stays so.                  *)
(*                                                                         *)
(* CommandExecution, the model of executor.py, store.py and the callback   *)
(* endpoint, is shown to implement this module.                            *)
(***************************************************************************)
EXTENDS Naturals

CONSTANT Commands

VARIABLES
    life,   \* life[c]: where command c is in its life
    sent    \* sent[c]: create requests sent to Dolibarr for c

lvars == <<life, sent>>

Withdrawn == {"CANCELLED", "CORRECTION_REQUESTED"}
Settled   == {"EXECUTED", "FAILED"}
Lives     == {"NONE", "PENDING", "CONFIRMED", "GONE"} \cup Withdrawn \cup Settled

LInit ==
    /\ life = [c \in Commands |-> "NONE"]
    /\ sent = [c \in Commands |-> 0]

Move(c, from, to) ==
    /\ life[c] \in from
    /\ life' = [life EXCEPT ![c] = to]
    /\ UNCHANGED sent

Propose(c)  == Move(c, {"NONE"}, "PENDING")
Take(c)     == Move(c, {"PENDING"}, "CONFIRMED")
Withdraw(c) == \E w \in Withdrawn : Move(c, {"PENDING"}, w)
GiveUp(c)   == Move(c, {"CONFIRMED"}, "FAILED")
Finish(c)   == sent[c] = 1 /\ Move(c, {"CONFIRMED"}, "EXECUTED")

\* The key leaves Redis: a command nobody confirmed, one that is over, or one
\* whose process died.
Forget(c)   == Move(c, Lives \ {"NONE", "GONE"}, "GONE")

SendOnce(c) ==
    /\ life[c] = "CONFIRMED"
    /\ sent[c] = 0
    /\ sent' = [sent EXCEPT ![c] = 1]
    /\ UNCHANGED life

LNext ==
    \E c \in Commands :
        \/ Propose(c) \/ Take(c) \/ Withdraw(c) \/ GiveUp(c)
        \/ Finish(c)  \/ Forget(c) \/ SendOnce(c)

LSpec == LInit /\ [][LNext]_lvars
=============================================================================
