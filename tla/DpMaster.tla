------------------------------- MODULE DpMaster -------------------------------
(***************************************************************************)
(* The DP master (dp/master.rs) with its set of peripherals, the slaves    *)
(* they stand for, and the program that uses it.                           *)
(*                                                                         *)
(* The master is an application of the FDL station, which calls            *)
(* transmit_telegram() while it has the token, and receive_reply() with    *)
(* the answer if one comes within the slot time.  There is one request on  *)
(* the bus at most.  The program may do something between any two polls,   *)
(* also while a reply is awaited.                                          *)
(***************************************************************************)
EXTENDS DpPeripheral, FiniteSetsExt

CONSTANTS
  NumSlots,        \* peripherals the program adds
  Order,           \* their addresses
  Careful,         \* the program lets go of a peripheral that owes a reply
  Forgetful,       \* a slave forgets its last request when it is not called
  Troubled,        \* the slaves that may lose power, or turn parameters or configuration down
  MaxFaults,       \* bound: telegrams lost, losses of power, refusals, diagnostics
  MaxCalls         \* bound: request_diagnostics() and reset_address()

Slots == 1 .. NumSlots

ASSUME MasterAssumption ==
  /\ NumSlots \in 1 .. 126
  /\ Order \in [Slots -> Addresses]
  /\ Careful \in BOOLEAN /\ Forgetful \in BOOLEAN
  /\ Troubled \subseteq Addresses
  /\ MaxFaults \in Nat /\ MaxCalls \in Nat

VARIABLES
  operating,       \* operating_state is Operate; it is Stop before
  control,         \* last_global_control is the time of the last call
  cycle,           \* cycle_state: a slot, or Completed
  slots,           \* the PeripheralSet
  count,           \* how many of its slots are filled, from the front
  events,          \* last_events
  panicked,        \* an assert! or unreachable!() has been reached
  bus,             \* the request on the bus, or the reply to it
  slave,           \* the slaves
  faults, calls,   \* what the bounds count
  done,            \* history: requests a slave has served since they were made
  failed,          \* history: requests of a peripheral since the last valid reply
  turns            \* history: slots that had their turn in this cycle

masterVars == <<operating, control, cycle, slots, count, events, panicked>>
boundVars == <<faults, calls>>
historyVars == <<done, failed, turns>>
vars == <<masterVars, bus, slave, boundVars, historyVars>>

Completed == 0
Nothing == [slot |-> 0, event |-> NoEvent]
NoEvents == [cycle_completed |-> FALSE, peripheral |-> Nothing]
Event(k, e) == IF e = NoEvent THEN Nothing ELSE [slot |-> k, event |-> e]

------------------------------------------------------------------------------
(* The bus: an idle one, a request, a reply, or nobody who will answer. *)

Idle == [phase |-> "Idle", address |-> 0, request |-> "GetDiag", fcb |-> "First",
         reply |-> Confirmation]

Awaiting == bus.phase # "Idle"

BusOf(phase, p, reply) ==
  [phase |-> phase, address |-> p.address, request |-> RequestOf(p), fcb |-> p.fcb,
   reply |-> reply]

(* A reply that answers the request it comes for. *)
Answers(a, request, t) ==
  CASE request = "GetDiag" -> t.kind = "Diagnostics"
    [] request \in {"SetPrm", "ChkCfg"} -> t.kind = "Confirmation"
    [] request = "Exchange" -> t.kind = IF a \in Inputs THEN "Inputs" ELSE "Confirmation"

------------------------------------------------------------------------------
(* The slaves.  A slave keeps the frame count bit and the reply of the last *)
(* request, and repeats the reply if the bit is the same.                   *)

SlaveStates == {"WaitPrm", "WaitCfg", "Data"}
Faultless == "None"

NewSlave == [state |-> "WaitPrm", last |-> FALSE, bit |-> FALSE, reply |-> Confirmation,
             fault |-> Faultless, busy |-> FALSE]

DiagnosticsOf(s) ==
  Diagnostics((IF s.state = "WaitPrm" THEN {"ParameterRequired"} ELSE {})
              \cup (IF s.state # "Data" \/ s.busy THEN {"StationNotReady"} ELSE {})
              \cup ({s.fault} \ {Faultless}))

IsRepetition(s) == s.last /\ Valid(bus.fcb) /\ s.bit = Bit(bus.fcb)

(* What a slave may make of a new request: the slave after it, the reply.   *)
Diagnosed(s) == <<[s EXCEPT !.busy = FALSE], DiagnosticsOf(s)>>
Parameterised(s) == <<[s EXCEPT !.state = "WaitCfg", !.fault = Faultless], Confirmation>>
Configured(s, busy) == <<[s EXCEPT !.state = "Data", !.busy = busy], Confirmation>>
Rejected(s, fault) == <<[s EXCEPT !.state = "WaitPrm", !.fault = fault], Confirmation>>
Exchanged(s, high) ==
  <<s, IF bus.address \in Inputs THEN InputData(high) ELSE Confirmation>>
Refused(s) == <<s, Refusal>>

Remembering(s, t) ==
  [s EXCEPT !.last = TRUE, !.bit = Bit(bus.fcb), !.reply = t]

Reply(t) == bus' = [bus EXCEPT !.phase = "Reply", !.reply = t]

Repeat ==
  /\ bus.phase = "Request" /\ IsRepetition(slave[bus.address])
  /\ Reply(slave[bus.address].reply)
  /\ UNCHANGED <<masterVars, slave, boundVars, historyVars>>

(* A new request has the outcome o. *)
Serves(o) ==
  /\ bus.phase = "Request" /\ ~IsRepetition(slave[bus.address])
  /\ Reply(o[2])
  /\ slave' = [slave EXCEPT ![bus.address] = Remembering(o[1], o[2])]
  /\ done' = IF o[2].kind = "Refusal" THEN done
             ELSE [done EXCEPT ![bus.address] = @ \cup {bus.request}]
  /\ UNCHANGED <<masterVars, calls, failed, turns>>

Serve ==
  LET s == slave[bus.address] IN
  \/ /\ UNCHANGED faults
     /\ \/ bus.request = "GetDiag" /\ Serves(Diagnosed(s))
        \/ bus.request = "SetPrm" /\ Serves(Parameterised(s))
        \/ /\ bus.request = "ChkCfg" /\ s.state # "WaitPrm"
           /\ \E busy \in BOOLEAN : Serves(Configured(s, busy))
        \/ bus.request = "ChkCfg" /\ s.state = "WaitPrm" /\ Serves(Refused(s))
        \/ bus.request = "Exchange" /\ s.state = "Data" /\ Serves(Exchanged(s, FALSE))
        \/ bus.request = "Exchange" /\ s.state # "Data" /\ Serves(Refused(s))
  \/ /\ faults < MaxFaults /\ faults' = faults + 1
     /\ \/ /\ bus.request = "Exchange" /\ s.state = "Data" /\ bus.address \in Inputs
           /\ Serves(Exchanged(s, TRUE))
        \/ /\ bus.request = "SetPrm" /\ bus.address \in Troubled
           /\ Serves(Rejected(s, "ParameterFault"))
        \/ /\ bus.request = "ChkCfg" /\ s.state # "WaitPrm" /\ bus.address \in Troubled
           /\ Serves(Rejected(s, "ConfigurationFault"))

(* The request or the reply is lost. *)
Lose ==
  /\ bus.phase \in {"Request", "Reply"} /\ faults < MaxFaults
  /\ bus' = [Idle EXCEPT !.phase = "Silent", !.address = bus.address]
  /\ faults' = faults + 1
  /\ UNCHANGED <<masterVars, slave, calls, historyVars>>

(* A slave loses power, and comes back. *)
Restart(a) ==
  /\ a \in Troubled /\ faults < MaxFaults
  /\ slave' = [slave EXCEPT ![a] = NewSlave]
  /\ faults' = faults + 1
  /\ UNCHANGED <<masterVars, bus, calls, historyVars>>

(* A slave that its master has given up forgets the last request. *)
Forget(a) ==
  /\ Forgetful /\ slave[a].last
  /\ \A k \in Slots : slots[k].address = a => ~IsLive(slots[k])
  /\ slave' = [slave EXCEPT ![a].last = FALSE, ![a].bit = FALSE, ![a].reply = Confirmation]
  /\ UNCHANGED <<masterVars, bus, boundVars, historyVars>>

------------------------------------------------------------------------------
(* FdlApplication *)

TransmitStopped ==
  /\ ~operating /\ ~Awaiting
  /\ events' = NoEvents
  /\ UNCHANGED <<operating, control, cycle, slots, count, panicked, bus, slave, boundVars,
                 historyVars>>

(* A broadcast, which nobody answers: first of all, and then every 50 slot  *)
(* times, which take longer than from one call to the next; not in a high   *)
(* priority cycle.  Whether it is time, and what the priority, is a choice. *)
TransmitGlobalControl ==
  /\ operating /\ ~Awaiting /\ ~panicked /\ ~control
  /\ control' = TRUE
  /\ events' = NoEvents
  /\ UNCHANGED <<operating, cycle, slots, count, panicked, bus, slave, boundVars, historyVars>>

(* The loop of transmit_telegram() from slot i on.  The first peripheral    *)
(* that has something to send sends it; those before it are skipped.        *)
Senders(i) == {k \in i .. count : Sends(slots[k])}
Passed(i) == {k \in i .. count : \A j \in Senders(i) : k < j}
Lost(i) == {k \in Passed(i) : GivesUp(slots[k])}

(* peripheral_event: the assertion is that there is one at most *)
LostEvent(i) ==
  IF Lost(i) = {} THEN Nothing ELSE Event(CHOOSE k \in Lost(i) : TRUE, "Offline")

(* The request is sent, with the event of a peripheral that was given up. *)
Request(i, k) ==
  LET p == slots[k] IN
  /\ slots' = [j \in Slots |-> IF j = k THEN Sent(p)
                               ELSE IF j \in Passed(i) THEN Skipped(slots[j]) ELSE slots[j]]
  /\ bus' = BusOf("Request", p, Confirmation)
  /\ done' = [done EXCEPT ![p.address] =
                IF p.retry_count = 0 THEN @ \ {RequestOf(p)} ELSE @]
  /\ failed' = [failed EXCEPT ![k] = IF @ > MaxRetry THEN @ ELSE @ + 1]
  /\ turns' = (IF i = 1 THEN {} ELSE turns) \cup i .. k

(* Mutants: the index of the sender is not kept; the event is forgotten. *)
TransmitRequestAtIndex(i, k) ==
  Request(i, k) /\ cycle' = i /\ events' = [NoEvents EXCEPT !.peripheral = LostEvent(i)]
TransmitRequestOnly(i, k) == Request(i, k) /\ cycle' = k /\ events' = NoEvents

TransmitRequest(i, k) ==
  /\ Request(i, k)
  /\ cycle' = k
  /\ events' = [NoEvents EXCEPT !.peripheral = LostEvent(i)]

TransmitNothing(i) ==
  /\ slots' = [j \in Slots |-> IF j \in Passed(i) THEN Skipped(slots[j]) ELSE slots[j]]
  /\ cycle' = 1
  /\ events' = [cycle_completed |-> TRUE, peripheral |-> LostEvent(i)]
  /\ turns' = (IF i = 1 THEN {} ELSE turns) \cup i .. count
  /\ UNCHANGED <<bus, done, failed>>

TransmitCycle ==
  /\ operating /\ ~Awaiting /\ ~panicked /\ cycle # Completed
  /\ control' = FALSE
  /\ IF Cardinality(Lost(cycle)) > 1
     THEN panicked' = TRUE /\ UNCHANGED <<cycle, slots, events, bus, historyVars>>
     ELSE /\ panicked' = panicked
          /\ IF Senders(cycle) = {} THEN TransmitNothing(cycle)
             ELSE TransmitRequest(cycle, Min(Senders(cycle)))
  /\ UNCHANGED <<operating, count, slave, boundVars>>

(* The call after the last peripheral's reply ends the cycle. *)
TransmitAfterCycle ==
  /\ operating /\ ~Awaiting /\ ~panicked /\ cycle = Completed
  /\ control' = FALSE
  /\ cycle' = 1
  /\ events' = NoEvents
  /\ UNCHANGED <<operating, slots, count, panicked, bus, slave, boundVars, historyVars>>

(* Mutant: the last peripheral is left out. *)
NextIndexBeforeLast(k) == IF k + 1 < count THEN k + 1 ELSE Completed

NextIndex(k) == IF k < count THEN k + 1 ELSE Completed

Receive ==
  /\ bus.phase = "Reply" /\ ~panicked
  /\ bus' = Idle
  /\ IF cycle = Completed \/ slots[cycle].address # bus.address
     THEN panicked' = TRUE /\ UNCHANGED <<cycle, slots, events, failed>>
     ELSE LET r == ReceiveReply(slots[cycle], bus.reply) IN
          /\ panicked' = panicked
          /\ slots' = [slots EXCEPT ![cycle] = r[1]]
          /\ cycle' = NextIndex(cycle)
          /\ events' = [cycle_completed |-> NextIndex(cycle) = Completed,
                        peripheral |-> Event(cycle, r[2])]
          /\ failed' = [failed EXCEPT ![cycle] =
                          IF Answers(bus.address, bus.request, bus.reply) THEN 0 ELSE @]
  /\ UNCHANGED <<operating, control, count, slave, boundVars, done, turns>>

(* handle_timeout() does nothing: the request is repeated by the next       *)
(* transmit_telegram().                                                      *)
Timeout ==
  /\ bus.phase = "Silent"
  /\ bus' = Idle
  /\ UNCHANGED <<masterVars, slave, boundVars, historyVars>>

------------------------------------------------------------------------------
(* The program.  A careful one leaves a peripheral alone whose request is  *)
(* not answered yet.                                                        *)

MayTouch(k) == k <= count /\ (Careful => slots[k].retry_count = 0)

Add ==
  /\ count < NumSlots
  /\ count' = count + 1
  /\ UNCHANGED <<operating, control, cycle, slots, events, panicked, bus, slave, boundVars,
                 historyVars>>

(* It enters Operate once it has a peripheral. *)
EnterOperate ==
  /\ count > 0 /\ ~operating
  /\ operating' = TRUE
  /\ control' = FALSE
  /\ UNCHANGED <<cycle, slots, count, events, panicked, bus, slave, boundVars, historyVars>>

TakeLastEvents ==
  /\ events # NoEvents
  /\ events' = NoEvents
  /\ UNCHANGED <<operating, control, cycle, slots, count, panicked, bus, slave, boundVars,
                 historyVars>>

RequestDiagnostics(k) ==
  /\ MayTouch(k) /\ calls < MaxCalls
  /\ slots' = [slots EXCEPT ![k].diag_needed = TRUE]
  /\ calls' = calls + 1
  /\ UNCHANGED <<operating, control, cycle, count, events, panicked, bus, slave, faults,
                 historyVars>>

ResetAddress(k, a) ==
  /\ MayTouch(k) /\ calls < MaxCalls
  /\ \A j \in Slots : slots[j].address = a => j = k
  /\ slots' = [slots EXCEPT ![k] = NewPeripheral(a)]
  /\ failed' = [failed EXCEPT ![k] = 0]
  /\ calls' = calls + 1
  /\ UNCHANGED <<operating, control, cycle, count, events, panicked, bus, slave, faults,
                 done, turns>>

------------------------------------------------------------------------------
Init ==
  /\ operating = FALSE
  /\ control = FALSE
  /\ cycle = 1
  /\ slots = [k \in Slots |-> NewPeripheral(Order[k])]
  /\ count = 0
  /\ events = NoEvents
  /\ panicked = FALSE
  /\ bus = Idle
  /\ slave = [a \in Addresses |-> NewSlave]
  /\ faults = 0 /\ calls = 0
  /\ done = [a \in Addresses |-> {}]
  /\ failed = [k \in Slots |-> 0]
  /\ turns = {}

Transmit == TransmitStopped \/ TransmitGlobalControl \/ TransmitCycle \/ TransmitAfterCycle
Poll == Transmit \/ Receive \/ Timeout
Slave == Repeat \/ Serve

Program ==
  \/ Add \/ EnterOperate \/ TakeLastEvents
  \/ \E k \in Slots : RequestDiagnostics(k) \/ \E a \in Addresses : ResetAddress(k, a)

Next ==
  \/ Poll \/ Slave \/ Program \/ Lose
  \/ \E a \in Addresses : Restart(a) \/ Forget(a)

(* The FDL station has the token again and again, the slaves answer, and    *)
(* the program starts.                                                      *)
Fairness ==
  /\ WF_vars(Poll) /\ WF_vars(Slave) /\ WF_vars(EnterOperate)
  /\ \A a \in Addresses : WF_vars(Forget(a))

Spec == Init /\ [][Next]_vars /\ Fairness

------------------------------------------------------------------------------
(* Properties *)

LastEvents ==
  [cycle_completed : BOOLEAN,
   peripheral : [slot : Slots, event : PeripheralEvents] \cup {Nothing}]

BusStates ==
  [phase : {"Idle", "Request", "Reply", "Silent"}, address : Addresses \cup {0},
   request : Requests, fcb : FrameCountBits, reply : Replies]

Slaves ==
  [state : SlaveStates, last : BOOLEAN, bit : BOOLEAN, reply : Replies, busy : BOOLEAN,
   fault : {Faultless, "ParameterFault", "ConfigurationFault"}]

TypeOK ==
  /\ operating \in BOOLEAN /\ control \in BOOLEAN /\ panicked \in BOOLEAN
  /\ count \in 0 .. NumSlots
  /\ cycle = 1 \/ cycle \in Completed .. count
  /\ slots \in [Slots -> Peripherals]
  /\ events \in LastEvents
  /\ bus \in BusStates
  /\ slave \in [Addresses -> Slaves]
  /\ faults \in 0 .. MaxFaults
  /\ calls \in 0 .. MaxCalls
  /\ done \in [Addresses -> SUBSET Requests]
  /\ failed \in [Slots -> 0 .. MaxRetry + 1]
  /\ turns \subseteq Slots

(* No assertion of the master fails, in particular not the one that two    *)
(* peripherals are never given up in one call of transmit_telegram().      *)
NoPanic == ~panicked

(* The reply on the bus is for the peripheral at the cycle's index, which  *)
(* still expects it: receive_reply() does not get to its unreachable!(),   *)
(* though peripherals are added, skipped and given up.                     *)
ReplyFindsPeripheral ==
  bus.phase = "Reply" =>
    /\ cycle \in 1 .. count
    /\ slots[cycle].address = bus.address
    /\ RequestOf(slots[cycle]) = bus.request

Reports(k, e) == events.peripheral = [slot |-> k, event |-> e]

(* What the events say has happened: the slave has accepted parameters and *)
(* configuration as they were sent since it was found, and has served the  *)
(* very exchange or request for diagnostics that is reported, although     *)
(* requests are repeated and replies with them.                            *)
Obtained(e) ==
  CASE e = "Configured" -> {"SetPrm", "ChkCfg"}
    [] e = "DataExchanged" -> {"Exchange"}
    [] e = "Diagnostics" -> {"GetDiag"}
    [] OTHER -> {}

EventsAreTrue ==
  [][events' # events /\ events'.peripheral # Nothing
       => Obtained(events'.peripheral.event) \subseteq done[slots[events'.peripheral.slot].address]]_vars

(* A peripheral that was live is given up only after max_retry_limit       *)
(* repetitions, all without a valid reply, whatever its state.             *)
OfflineAfterRetries ==
  [][\A k \in Slots :
       IsLive(slots[k]) /\ events' # events /\ Reports(k, "Offline")'
         => failed[k] > MaxRetry]_vars

(* A program that looks at the events after every poll knows who is live:  *)
(* no peripheral comes or goes without its event, and it is in last_events *)
(* when the poll is over.                                                  *)
ComingAndGoingIsReported ==
  [][\A k \in Slots :
       IsLive(slots[k]) # IsLive(slots'[k]) /\ calls' = calls
         => /\ events'.peripheral.slot = k
            /\ events'.peripheral.event \in
                 IF IsLive(slots'[k]) THEN {"Online"}
                                      ELSE {"Offline", "ParameterError", "ConfigError"}]_vars

(* When a cycle is reported complete, every peripheral had its turn in it, *)
(* one that was added meanwhile included.                                  *)
CycleVisitsAll ==
  [][events'.cycle_completed /\ (events' # events \/ cycle' # cycle)
       => 1 .. count \subseteq turns']_vars

(* Every peripheral exchanges data again and again, whatever was lost or   *)
(* restarted before, and whatever the others do.                           *)
KeepsExchanging ==
  \A k \in Slots :
    k <= count /\ slots[k].address \notin Unconfigured
      ~> Reports(k, "DataExchanged") \/ slots[k].address \in Unconfigured

==============================================================================
