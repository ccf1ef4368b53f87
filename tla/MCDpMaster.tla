------------------------------ MODULE MCDpMaster ------------------------------
(* Small instances of DpMaster for TLC. *)
EXTENDS DpMaster

Order1 == <<4>>
Order2 == <<4, 7>>

==============================================================================
