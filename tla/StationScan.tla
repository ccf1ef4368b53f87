---------------------------- MODULE StationScan ----------------------------
(***************************************************************************)
(* The two applications that look for stations: LiveList asks every        *)
(* address for its FDL status, DpScanner asks it for its DP diagnostics.   *)
(* Both keep the stations that answered, a cursor over the addresses       *)
(* 0 .. LastAddress (125 in the code), the last event and whether the      *)
(* address at the cursor is done.                                          *)
(***************************************************************************)
EXTENDS Naturals

CONSTANT LastAddress

ASSUME LastAddressAssumption == LastAddress \in Nat

Addresses == 0 .. LastAddress

EventKinds == {"None", "Discovered", "Found", "Requery", "Lost"}

Event(kind, addr) == [kind |-> kind, address |-> addr]

NoEvent == Event("None", 0)

Scans == [stations : SUBSET Addresses, cursor : Addresses,
          event : [kind : EventKinds, address : Addresses], done : BOOLEAN]

NewScan == [stations |-> {}, cursor |-> 0, event |-> NoEvent, done |-> FALSE]

(* transmit_telegram() asks the address at the cursor, or, when that one   *)
(* is done, moves the cursor on and ends the cycle.                        *)
Asks(scan) == ~scan.done

(* Mutant: the cursor moves on past the last address. *)
EndScanCyclePastLast(scan) ==
  [scan EXCEPT !.done = FALSE,
               !.cursor = IF scan.cursor <= LastAddress THEN scan.cursor + 1 ELSE 0]

(* Mutant: the cursor stops one address early. *)
EndScanCycleEarly(scan) ==
  [scan EXCEPT !.done = FALSE,
               !.cursor = IF scan.cursor + 1 < LastAddress THEN scan.cursor + 1 ELSE 0]

EndScanCycle(scan) ==
  [scan EXCEPT !.done = FALSE,
               !.cursor = IF scan.cursor < LastAddress THEN scan.cursor + 1 ELSE 0]

(* receive_reply() of LiveList: any reply makes the station known, only a  *)
(* data telegram is reported.  The last event is overwritten, by none too. *)
LiveListReply(scan, addr, reply) ==
  [scan EXCEPT !.done = TRUE,
               !.stations = @ \cup {addr},
               !.event = IF addr \in scan.stations \/ reply = "Short"
                         THEN NoEvent ELSE Event("Discovered", addr)]

(* receive_reply() of DpScanner: only a well-formed diagnostics response   *)
(* counts; anything else leaves the stations alone.                        *)
DpScannerReply(scan, addr, reply) ==
  [scan EXCEPT !.done = TRUE,
               !.stations = IF reply = "Diagnostics" THEN @ \cup {addr} ELSE @,
               !.event = IF reply # "Diagnostics" THEN NoEvent
                         ELSE IF addr \in scan.stations THEN Event("Requery", addr)
                         ELSE Event("Found", addr)]

(* Mutant: a lost station is reported and stays in the list. *)
ScanTimeoutKeeping(scan, addr) ==
  [scan EXCEPT !.done = TRUE,
               !.event = IF addr \in scan.stations THEN Event("Lost", addr) ELSE @]

(* handle_timeout(), the same in both. *)
ScanTimeout(scan, addr) ==
  [scan EXCEPT !.done = TRUE,
               !.stations = @ \ {addr},
               !.event = IF addr \in scan.stations THEN Event("Lost", addr) ELSE @]

============================================================================
