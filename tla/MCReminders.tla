------------------------------ MODULE MCReminders ------------------------------
(* A small instance of Reminders: a day is a tick, 36 hours are "more than one   *)
(* tick", the horizon of 8 days is cut down to two and a query to one task.      *)
(* Users ask for no day, for one, and for more than the horizon; an SMS behaves  *)
(* like a mail that does not fail.  Scans meet a deadline beyond the horizon, at *)
(* its edge, a day ahead and past.                                               *)
EXTENDS Reminders, TLC

Symmetry == Permutations(Tasks)

\* The days of somebody who wants no reminders do not matter: they are 0.
OffIsZero == \A u \in Users : prefs[u].channel = "none" => prefs[u].days = 0
=============================================================================
