------------------------- MODULE MCCommandExecution -------------------------
(* Instances of CommandExecution for TLC. *)
EXTENDS CommandExecution, TLC

CONSTANTS c1, c2, u1, u2, p1, p2

OneCommand   == {c1}
TwoCommands  == {c1, c2}
OneUser      == {u1}
TwoUsers     == {u1, u2}
OnePress     == {p1}
TwoPresses   == {p1, p2}
SecondCommand == {c2}
NoCommand    == {}

AllFull      == {"full"}
AnyLevel     == {"deleted", "disabled", "barred", "basic", "full"}

\* The wiring of the tests; that of log_from_context as it is written; and, with that
\* of get_user_context as it is called, each of them with a search that may fail.
Wired(audited, faulty) == [injected |-> TRUE, audited |-> audited, faulty |-> faulty]
AsTested  == {Wired(TRUE, FALSE)}
AsWritten == {Wired(FALSE, FALSE)}
AnyWiring == {Wired(TRUE, TRUE), Wired(FALSE, TRUE), [Wired(FALSE, TRUE) EXCEPT !.injected = FALSE]}

PressUserSymmetry == Permutations(Presses) \cup Permutations(Users)
=============================================================================
