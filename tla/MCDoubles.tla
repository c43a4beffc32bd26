----------------------------- MODULE MCDoubles -----------------------------
(***************************************************************************)
(* Doubles as TLC checks it: children that exit at once, later or          *)
(* much later, and obey SIGTERM at once, just in time or too late.         *)
(***************************************************************************)
EXTENDS Doubles

Script(exit_code, exit_delay, terminate_delay) ==
  [exit_code |-> exit_code, exit_delay |-> exit_delay, terminate_delay |-> terminate_delay]

MCScripts == {Script("fail", 0, 0), Script("ok", 3, 1), Script("fail", 3, 2), Script("ok", 1, 3)}
=============================================================================
