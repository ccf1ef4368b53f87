------------------------------ MODULE TokenRing ------------------------------
(***************************************************************************)
(* The List of Active Stations of one station: struct TokenRing of         *)
(* fdl/token_ring.rs.  A ring is a record                                  *)
(*                                                                         *)
(*   this    TS, the address of the station that owns it                   *)
(*   active  the LAS, the addresses whose bit is set in active_stations    *)
(*   las     the LasState                                                  *)
(*   next    NS, prev  PS                                                  *)
(*                                                                         *)
(* and every &mut self method is an operator from a ring to a ring.        *)
(***************************************************************************)
EXTENDS FiniteSetsExt

(* BitArr!(for 128): the LAS has one bit for every 7-bit address. *)
BusAddress == 0 .. 127

(* A token pass from or to an address above 125 is ignored. *)
StationAddress == 0 .. 125

LasStates == {"Uninitialized", "Discovery", "Verification", "Valid"}

Rings == [this: StationAddress, active: SUBSET BusAddress, las: LasStates,
          next: BusAddress, prev: BusAddress]

NewRing(ts) == [this |-> ts, active |-> {ts}, las |-> "Uninitialized",
                next |-> ts, prev |-> ts]

ReadyForRing(r) == r.las = "Valid"

(* A token pass sa -> da tells that no station between the two is active,  *)
(* going upwards from sa and around the end of the address range.          *)
Skips(sa, da, a) == IF da > sa THEN sa < a /\ a < da ELSE sa < a \/ a < da

(* Mutant: the gap of the token pass the other way round. *)
VerifyLasSwapped(r, sa, da) ==
  {sa, da} \subseteq r.active /\ \A a \in r.active : ~Skips(da, sa, a)

VerifyLas(r, sa, da) ==
  /\ {sa, da} \subseteq r.active
  /\ \A a \in r.active : ~Skips(sa, da, a)

(* The first active station above ts, or else the first one, or else ts. *)
NextOf(ts, active) ==
  LET above == {a \in active : a > ts}
  IN  IF above # {} THEN Min(above) ELSE IF active # {} THEN Min(active) ELSE ts

PrevOf(ts, active) ==
  LET below == {a \in active : a < ts}
  IN  IF below # {} THEN Max(below) ELSE IF active # {} THEN Max(active) ELSE ts

(* Every change of the LAS ends in update_next_previous(). *)
WithActive(r, active) ==
  [r EXCEPT !.active = active,
            !.next = NextOf(r.this, active),
            !.prev = PrevOf(r.this, active)]

(* Mutant: the stations that were skipped stay in the LAS. *)
UpdateLasKeepingSkipped(r, sa, da) == WithActive(r, r.active \cup {sa})

(* Only the sender is entered: the destination has yet to show itself.     *)
UpdateLas(r, sa, da) ==
  WithActive(r, {a \in r.active : ~Skips(sa, da, a)} \cup {sa})

(* Mutant: a station alone in its ring never closes a rotation. *)
WrapsBelow(sa, da) == da < sa

(* A pass to the same or to a lower address closes a token rotation. *)
WrapsAround(sa, da) == da <= sa

WitnessTokenPass(r, sa, da) ==
  IF ~({sa, da} \subseteq StationAddress) THEN r ELSE
  CASE r.las = "Uninitialized" ->
         [r EXCEPT !.las = IF WrapsAround(sa, da) THEN "Discovery" ELSE @]
    [] r.las = "Discovery" ->
         [UpdateLas(r, sa, da) EXCEPT
            !.las = IF WrapsAround(sa, da) THEN "Verification" ELSE @]
    [] r.las = "Verification" /\ ~VerifyLas(r, sa, da) ->
         [UpdateLas(r, sa, da) EXCEPT !.las = "Discovery"]
    [] r.las = "Verification" /\ VerifyLas(r, sa, da) ->
         [r EXCEPT !.las = IF WrapsAround(sa, da) THEN "Valid" ELSE @]
    [] r.las = "Valid" -> UpdateLas(r, sa, da)

ClaimTokenRing(r) == [r EXCEPT !.las = "Valid"]

(* Mutant: the station is entered in the LAS, NS and PS are not updated. *)
SetActiveStation(r, address) == [r EXCEPT !.active = @ \cup {address}]

SetNextStation(r, address) ==
  UpdateLas([r EXCEPT !.active = @ \cup {address}], r.this, address)

(* Mutant: a station that does not take the token is kept. *)
KeepStation(r, address) == r

RemoveStation(r, address) == WithActive(r, r.active \ {address})

==============================================================================
