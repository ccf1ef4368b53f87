------------------------------ MODULE MCFdlRing ------------------------------
(* Small instances of FdlRing for TLC. *)
EXTENDS FdlRing, TLC

CONSTANTS a, b, c

Low13 == a :> 1 @@ b :> 3
Dup133 == a :> 1 @@ b :> 3 @@ c :> 3
Low023 == a :> 0 @@ b :> 2 @@ c :> 3
Low012 == a :> 0 @@ b :> 1 @@ c :> 2

==============================================================================
