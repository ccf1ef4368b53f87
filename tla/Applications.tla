---------------------------- MODULE Applications ----------------------------
(***************************************************************************)
(* The applications of an active station: how FdlActiveStation hands the   *)
(* token from one application to the next (poll_multi(), do_use_token(),   *)
(* do_await_data_response()), and what two scanners make of the answers.   *)
(* The ring is left out: the token comes, and is passed or lost.           *)
(*                                                                         *)
(* Apps lists the program's applications by kind: "LiveList" and           *)
(* "DpScanner" (StationScan), and "DpMaster", of which only the cycle is   *)
(* modelled here: it asks its slave, or sends a broadcast, or is not       *)
(* interested and ends its cycle.                                          *)
(***************************************************************************)
EXTENDS StationScan, Sequences

CONSTANTS Apps, Own, Slave,
          MaxChanges,    \* stations that appear, change or disappear
          MaxFaults,     \* replies lost, short or unexpected
          MaxSkips,      \* polls before the program took the last event
          MaxOffs        \* times the station goes offline

Kinds == {"LiveList", "DpScanner", "DpMaster"}

ASSUME ApplicationsAssumption ==
  /\ Apps \in Seq(Kinds) /\ Len(Apps) >= 1
  /\ Own \in Addresses /\ Slave \in Addresses
  /\ MaxChanges \in Nat /\ MaxFaults \in Nat /\ MaxSkips \in Nat /\ MaxOffs \in Nat

Index == 0 .. Len(Apps) - 1        \* as next_application counts
NoApp == Len(Apps)                 \* first_app: None
Kind(i) == Apps[i + 1]
Answers == {"No", "Device", "Slave"}

VARIABLES
  count,      \* the list of a poll is the first count applications
  app,        \* the state of each application
  st,         \* state of the FDL active station
  address,    \* whose reply is awaited in AwaitDataResponse, else 0
  next,       \* next_application
  first,      \* UseTokenData::first_app
  cycleDone,  \* first_cycle_done
  over,       \* the token hold time is over
  ended,      \* cycles each application ended since the token came
  view,       \* the stations the program knows of from the events it took
  alive,      \* what is at each address
  changes, faults, shorts, skips, offs

fdlVars == <<count, st, address, next, first, cycleDone, over, ended>>
envVars == <<alive, changes>>
vars == <<fdlVars, app, view, envVars, faults, shorts, skips, offs>>

States == {"Offline", "ActiveIdle", "UseToken", "AwaitDataResponse", "PassToken"}

TypeOK ==
  /\ count \in 1 .. Len(Apps)
  /\ app \in [Index -> Scans]
  /\ st \in States
  /\ address \in Addresses
  /\ next \in Index /\ first \in Index \cup {NoApp}
  /\ cycleDone \in BOOLEAN /\ over \in BOOLEAN
  /\ ended \in [Index -> Nat]
  /\ view \in [Index -> SUBSET Addresses]
  /\ alive \in [Addresses -> Answers]
  /\ changes \in Nat /\ faults \in Nat /\ shorts \in Nat /\ skips \in Nat /\ offs \in Nat

Init ==
  /\ count = Len(Apps)
  /\ app = [i \in Index |-> NewScan]
  /\ st = "Offline"
  /\ address = 0
  /\ next = 0 /\ first = NoApp
  /\ cycleDone = FALSE /\ over = FALSE
  /\ ended = [i \in Index |-> 0]
  /\ view = [i \in Index |-> {}]
  /\ alive = [a \in Addresses |-> "No"]
  /\ changes = 0 /\ faults = 0 /\ shorts = 0 /\ skips = 0 /\ offs = 0

------------------------------------------------------------------------------
(* The scheduling of the applications *)

(* transmit_telegram() of each kind.  Only the DP master ends its cycle    *)
(* because it is not interested, and only it sends a broadcast.            *)
MayEnd(i, scan) == ~Asks(scan) \/ Kind(i) = "DpMaster"

AsksFor(i, scan) == IF Kind(i) = "DpMaster" THEN Slave ELSE scan.cursor

EndCycle(i, scan) ==
  IF Kind(i) = "DpMaster" THEN [scan EXCEPT !.done = FALSE] ELSE EndScanCycle(scan)

(* Mutant: the round is over at the end of the list. *)
TurnsLeftOfList == count - next

(* How many applications get their turn until it is the first one's again. *)
TurnsLeft == LET firstApp == IF first = NoApp THEN next ELSE first
             IN  ((firstApp + count - next - 1) % count) + 1

After(k) == (next + k) % count
Before(k) == {After(j) : j \in 0 .. k - 1}

(* Mutant: the turn moves on as soon as the application has sent. *)
EndCyclesAndMoveOn(k, a) ==
  /\ \A i \in Before(k) : MayEnd(i, a[i])
  /\ app' = [i \in Index |-> IF i \in Before(k) THEN EndCycle(i, a[i]) ELSE a[i]]
  /\ ended' = [i \in Index |-> IF i \in Before(k) THEN ended[i] + 1 ELSE ended[i]]
  /\ first' = IF k > 0 /\ first = NoApp THEN next ELSE first
  /\ next' = After(k + 1)

(* schedule_next_application() after each of the next k applications ended *)
(* its cycle.                                                              *)
EndCycles(k, a) ==
  /\ \A i \in Before(k) : MayEnd(i, a[i])
  /\ app' = [i \in Index |-> IF i \in Before(k) THEN EndCycle(i, a[i]) ELSE a[i]]
  /\ ended' = [i \in Index |-> IF i \in Before(k) THEN ended[i] + 1 ELSE ended[i]]
  /\ first' = IF k > 0 /\ first = NoApp THEN next ELSE first
  /\ next' = After(k)

(* apps_transmit_telegram(): the first application with something to send  *)
(* gets its telegram on the bus, or all of them end their cycles.          *)
AppsTransmit(a) ==
  \/ \E k \in 0 .. TurnsLeft - 1 :
       LET i == After(k) IN
       /\ Asks(a[i])
       /\ EndCycles(k, a)
       /\ \/ st' = "AwaitDataResponse" /\ address' = AsksFor(i, a[i])
          \/ /\ Kind(i) = "DpMaster" /\ ~over'
             /\ st' = "UseToken" /\ address' = 0
  \/ /\ EndCycles(TurnsLeft, a)
     /\ st' = "PassToken" /\ address' = 0

(* do_use_token() after the synchronization pause.  The hold time may have *)
(* run out since; one cycle is allowed regardless.                         *)
Use(a, cycle) ==
  /\ over' \in {o \in BOOLEAN : over => o}
  /\ cycleDone' = TRUE
  /\ IF over' /\ cycle
     THEN /\ st' = "PassToken" /\ app' = a /\ address' = 0
          /\ UNCHANGED <<next, first, ended>>
     ELSE AppsTransmit(a)

------------------------------------------------------------------------------
(* The program takes the events after a poll, or skips that MaxSkips times. *)

EventPending == \E i \in Index : app[i].event # NoEvent

Poll ==
  /\ skips' = IF EventPending THEN skips + 1 ELSE skips
  /\ skips' <= MaxSkips
  /\ UNCHANGED <<view, envVars>>

(* take_last_event(), and what the program makes of the event *)
TakeEvent(i) ==
  LET e == app[i].event IN
  /\ e # NoEvent
  /\ app' = [app EXCEPT ![i].event = NoEvent]
  /\ view' = [view EXCEPT ![i] = IF e.kind = "Lost" THEN @ \ {e.address}
                                 ELSE @ \cup {e.address}]
  /\ UNCHANGED <<fdlVars, envVars, faults, shorts, skips, offs>>

------------------------------------------------------------------------------
(* The polls of the station *)

(* The list of applications of the polls to come: poll_multi()'s warning   *)
(* has it that it may change only while the station is offline.            *)
SetOnline ==
  /\ st = "Offline"
  /\ st' = "ActiveIdle"
  /\ count' \in 1 .. Len(Apps)
  /\ UNCHANGED <<address, next, first, cycleDone, over, ended>>
  /\ UNCHANGED <<app, view, envVars, faults, shorts, skips, offs>>

(* The data of the token's use go with the state. *)
GiveUpToken(state) ==
  /\ st' = state /\ address' = 0
  /\ first' = NoApp /\ cycleDone' = FALSE /\ over' = FALSE
  /\ ended' = [i \in Index |-> 0]

(* Mutant: the turn is kept over set_offline(). *)
SetOfflineKeepingTurn ==
  /\ st # "Offline" /\ offs < MaxOffs
  /\ offs' = offs + 1
  /\ GiveUpToken("Offline")
  /\ UNCHANGED <<count, next, app, view, envVars, faults, shorts, skips>>

(* set_offline() recreates the station; the applications are not told. *)
SetOffline ==
  /\ st # "Offline" /\ offs < MaxOffs
  /\ offs' = offs + 1
  /\ GiveUpToken("Offline")
  /\ next' = 0
  /\ UNCHANGED <<count, app, view, envVars, faults, shorts, skips>>

(* transition_use_token() with UseTokenData::with_token_time().  The time  *)
(* may be over as the token comes.                                         *)
TokenComes ==
  /\ st \in {"ActiveIdle", "PassToken"}
  /\ st' = "UseToken"
  /\ first' = NoApp /\ cycleDone' = FALSE
  /\ over' \in BOOLEAN
  /\ ended' = [i \in Index |-> 0]
  /\ Poll
  /\ UNCHANGED <<count, address, next, app, faults, shorts, offs>>

UseToken ==
  /\ st = "UseToken"
  /\ Use(app, cycleDone)
  /\ Poll
  /\ UNCHANGED <<count, faults, shorts, offs>>

(* The application at next_application gets the reply; the token is ours   *)
(* again.                                                                  *)
Told(a) == [app EXCEPT ![next] = a]

Answered(reply) ==
  /\ app' = Told(CASE Kind(next) = "LiveList" -> LiveListReply(app[next], address, reply)
                   [] Kind(next) = "DpScanner" -> DpScannerReply(app[next], address, reply)
                   [] OTHER -> [app[next] EXCEPT !.done = TRUE])
  /\ st' = "UseToken" /\ address' = 0 /\ cycleDone' = TRUE
  /\ Poll
  /\ UNCHANGED <<count, next, first, over, ended, offs>>

(* A device answers; only a DP slave's answer is a diagnostics response.   *)
Reply ==
  /\ st = "AwaitDataResponse" /\ alive[address] # "No"
  /\ Answered(IF alive[address] = "Slave" THEN "Diagnostics" ELSE "Status")
  /\ UNCHANGED <<faults, shorts>>

(* Any short confirmation is taken for the reply. *)
ShortReply ==
  /\ st = "AwaitDataResponse" /\ faults < MaxFaults
  /\ faults' = faults + 1 /\ shorts' = shorts + 1
  /\ Answered("Short")

(* handle_timeout(), and do_use_token() in the same poll.  The DP master   *)
(* counts its retries in transmit_telegram().                              *)
Timeout ==
  /\ st = "AwaitDataResponse"
  /\ \/ alive[address] = "No" /\ UNCHANGED faults
     \/ alive[address] # "No" /\ faults < MaxFaults /\ faults' = faults + 1
  /\ Use(IF Kind(next) = "DpMaster" THEN app ELSE Told(ScanTimeout(app[next], address)), TRUE)
  /\ Poll
  /\ UNCHANGED <<count, shorts, offs>>

(* A telegram that is no reply: the token is given up, the application is  *)
(* not told.                                                               *)
UnexpectedTelegram ==
  /\ st = "AwaitDataResponse" /\ faults < MaxFaults
  /\ faults' = faults + 1
  /\ GiveUpToken("ActiveIdle")
  /\ Poll
  /\ UNCHANGED <<count, next, app, shorts, offs>>

(* A device appears, is replaced or disappears.  Nobody else has our       *)
(* address.                                                                *)
Change ==
  /\ changes < MaxChanges
  /\ changes' = changes + 1
  /\ \E a \in Addresses \ {Own}, x \in Answers : alive' = [alive EXCEPT ![a] = x]
  /\ UNCHANGED <<fdlVars, app, view, faults, shorts, skips, offs>>

Station == SetOnline \/ TokenComes \/ UseToken \/ Reply \/ Timeout

Next ==
  \/ Station \/ ShortReply \/ UnexpectedTelegram
  \/ SetOffline \/ Change
  \/ \E i \in Index : TakeEvent(i)

(* The program keeps polling and takes the events, the token keeps coming. *)
(* The DP master's cycle comes to an end: its retries are limited, and its *)
(* broadcasts are 50 slot times apart.                                     *)
DpMasterEnds == Kind(next) = "DpMaster" /\ (UseToken \/ Timeout) /\ next' # next

Fairness ==
  /\ WF_vars(Station)
  /\ SF_vars(DpMasterEnds)
  /\ \A i \in Index : WF_vars(TakeEvent(i))

Spec == Init /\ [][Next]_vars /\ Fairness

------------------------------------------------------------------------------
(* Properties *)

(* next_application is an index into the list of every poll, so that       *)
(* do_await_data_response() and apps_transmit_telegram() do not panic      *)
(* (poll_multi()'s warning).                                               *)
NextInRange == next < count

(* The application that gets the reply or the timeout is the one that      *)
(* asked, and for the address it asked: the list of stations is never      *)
(* filled from another application's answer.                               *)
ReplyReachesAsker ==
  st = "AwaitDataResponse" => /\ Asks(app[next])
                              /\ address = AsksFor(next, app[next])

(* poll_multi(): the token is forwarded before the hold time is over only  *)
(* when all applications completed their cycles once, and none gets a      *)
(* second cycle on the same token.                                         *)
EachCycleOnce ==
  /\ \A i \in Index : ended[i] <= 1
  /\ st = "PassToken" /\ ~over => \A i \in 0 .. count - 1 : ended[i] = 1

(* What the program learned from the events of a scanner is the scanner's  *)
(* list, except for the stations a short confirmation made known, as long  *)
(* as every event is taken before the next poll.                           *)
ViewIsTrue ==
  \A i \in Index : skips = 0 /\ app[i].event = NoEvent =>
    /\ view[i] \subseteq app[i].stations
    /\ shorts = 0 => view[i] = app[i].stations

(* Every scanner comes round to every address, whatever the other          *)
(* applications send and however short the hold time is, as long as it is  *)
(* in the list of applications.                                            *)
EveryAddressAsked ==
  \A i \in Index, a \in Addresses : Kind(i) # "DpMaster" =>
    []<>(i < count => /\ st = "AwaitDataResponse" /\ next = i /\ address = a)

(* Once the devices stay as they are, the live list is what answers, and   *)
(* the DP scanner's list has every slave and nothing that does not answer. *)
Answering == {a \in Addresses : alive[a] # "No"}
ListsConverge ==
  \A i \in Index : Kind(i) # "DpMaster" =>
    <>[](i < count =>
           IF Kind(i) = "LiveList" THEN app[i].stations = Answering
           ELSE /\ {a \in Addresses : alive[a] = "Slave"} \subseteq app[i].stations
                /\ app[i].stations \subseteq Answering)

=============================================================================
