------------------------------ MODULE TokenRight ------------------------------
(***************************************************************************)
(* What the token of a PROFIBUS segment promises its active stations       *)
(* (fdl/active.rs, seen from outside): at most one station has the right   *)
(* to use the bus.  A station claims the right when nobody has it, passes  *)
(* it on, and accepts it when it was passed.  It is lost with the station  *)
(* that has it, or that it is on its way to.                               *)
(***************************************************************************)
CONSTANT Stations

VARIABLES
  holders,         \* the stations that have the right
  underway         \* the right was passed on and not accepted yet

vars == <<holders, underway>>

TypeOK == holders \subseteq Stations /\ underway \in BOOLEAN

Init == holders = {} /\ underway = FALSE

Claim(s) ==
  /\ holders = {} /\ ~underway
  /\ holders' = {s}
  /\ UNCHANGED underway

Pass(s) ==
  /\ holders = {s}
  /\ holders' = {}
  /\ underway' = TRUE

Accept(s) ==
  /\ underway
  /\ holders' = {s}
  /\ underway' = FALSE

Lose ==
  /\ holders # {} \/ underway
  /\ holders' = {}
  /\ underway' = FALSE

Move == \E s \in Stations : Claim(s) \/ Pass(s) \/ Accept(s)

Next == Move \/ Lose

(* The right is claimed when lost, and is passed on and accepted for ever. *)
Spec == Init /\ [][Next]_vars /\ WF_vars(Move)

------------------------------------------------------------------------------
(* The right belongs to one station at most, and to none while it is       *)
(* underway from one to another.                                           *)
Exclusive ==
  /\ \A s, t \in holders : s = t
  /\ underway => holders = {}

==============================================================================
