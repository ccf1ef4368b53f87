---------------------------- MODULE DpMasterProofs ----------------------------
(***************************************************************************)
(* What holds of the DP master for any number of peripherals, addresses,   *)
(* retries, faults and calls of the program: its types, and, with a careful *)
(* program, that every reply finds the peripheral that asked for it and    *)
(* that only a peripheral whose retries are used up is given up.           *)
(***************************************************************************)
EXTENDS DpMaster, FiniteSetTheorems, WellFoundedInduction, TLAPS

------------------------------------------------------------------------------
(* The inductive invariant *)

(* Whoever is asked is one of the slaves. *)
AskedIsSlave == Awaiting => bus.address \in Addresses

(* The peripheral at the cycle's index has a request on the way, and if it  *)
(* is not lost, it is the one on the bus.  As the request counts as a retry *)
(* until it is answered, a careful program leaves the peripheral alone.     *)
OwedToCycle ==
  Awaiting =>
    /\ cycle \in 1 .. count
    /\ slots[cycle].address = bus.address
    /\ slots[cycle].retry_count > 0
    /\ bus.phase # "Silent" => RequestOf(slots[cycle]) = bus.request

(* retry_count never runs ahead of the requests without a valid answer. *)
RetriesFailed == \A k \in Slots : slots[k].retry_count <= failed[k]

IInv == TypeOK /\ AskedIsSlave /\ (Careful => OwedToCycle /\ RetriesFailed)

------------------------------------------------------------------------------
(* Peripherals *)

LEMMA NewPeripheralType ==
  ASSUME NEW a \in Addresses
  PROVE  NewPeripheral(a) \in Peripherals /\ NewPeripheral(a).retry_count = 0
BY PeripheralAssumption
   DEF NewPeripheral, Peripherals, PeripheralStates, FrameCountBits

LEMMA RequestType ==
  ASSUME NEW p \in Peripherals
  PROVE  RequestOf(p) \in Requests
BY DEF RequestOf, Peripherals, PeripheralStates, Exchanging, Requests

(* A request that is sent is one more retry, for a peripheral that had some *)
(* left; the request asked for stays the same.                              *)
LEMMA SentCounts ==
  ASSUME NEW p \in Peripherals, Sends(p)
  PROVE  /\ Sent(p) \in Peripherals
         /\ Sent(p).address = p.address /\ Sent(p).retry_count = p.retry_count + 1
         /\ RequestOf(Sent(p)) = RequestOf(p)
<1>1. p.retry_count \in 0 .. MaxRetry
  BY PeripheralAssumption DEF Sends, GivesUp, Peripherals
<1>2. Sent(p) = [p EXCEPT !.retry_count = p.retry_count + 1]
  BY DEF Sent
<1>3. p.retry_count + 1 \in 0 .. MaxRetry + 1
  BY <1>1, PeripheralAssumption
<1>4. /\ Sent(p) \in Peripherals /\ Sent(p).address = p.address
      /\ Sent(p).state = p.state /\ Sent(p).diag_needed = p.diag_needed
      /\ Sent(p).retry_count = p.retry_count + 1
  BY <1>2, <1>3 DEF Peripherals
<1> QED  BY <1>4 DEF RequestOf, Exchanging

LEMMA SkippedType ==
  ASSUME NEW p \in Peripherals
  PROVE  /\ Skipped(p) \in Peripherals
         /\ Skipped(p).address = p.address /\ Skipped(p).retry_count = 0
<1> DEFINE state == IF GivesUp(p) THEN "Offline" ELSE p.state
<1>1. state \in PeripheralStates
  BY DEF Peripherals, PeripheralStates
<1>2. Skipped(p) = [p EXCEPT !.retry_count = 0, !.state = state]
  BY DEF Skipped
<1>3. 0 \in 0 .. MaxRetry + 1
  BY PeripheralAssumption
<1> HIDE DEF state
<1> QED  BY <1>1, <1>2, <1>3 DEF Peripherals

LEMMA AnsweredType ==
  ASSUME NEW p \in Peripherals, NEW state \in PeripheralStates
  PROVE  /\ Answered(p, state) \in Peripherals
         /\ Answered(p, state).address = p.address /\ Answered(p, state).retry_count = 0
<1>1. Cycle(p.fcb) \in FrameCountBits
  BY DEF Cycle, FrameCountBits
<1>2. 0 \in 0 .. MaxRetry + 1
  BY PeripheralAssumption
<1> QED  BY <1>1, <1>2 DEF Answered, Peripherals

(* Whatever the reply, the peripheral keeps its address, the retry count is *)
(* left alone or starts again, and the event is not that it was given up.   *)
LEMMA ReplyTaken ==
  ASSUME NEW p \in Peripherals, NEW t \in Replies
  PROVE  LET r == ReceiveReply(p, t) IN
         /\ r[1] \in Peripherals /\ r[1].address = p.address
         /\ r[1].retry_count \in {0, p.retry_count}
         /\ r[2] \in (PeripheralEvents \ {"Offline"}) \cup {NoEvent}
<1> DEFINE Good(r) ==
             /\ r[1] \in Peripherals /\ r[1].address = p.address
             /\ r[1].retry_count \in {0, p.retry_count}
             /\ r[2] \in (PeripheralEvents \ {"Offline"}) \cup {NoEvent}
<1>1. ASSUME NEW s \in PeripheralStates,
             NEW e \in (PeripheralEvents \ {"Offline"}) \cup {NoEvent}
      PROVE  Good(<<Answered(p, s), e>>)
  BY AnsweredType
<1>2. Good(Unexpected(p))
  BY DEF Unexpected
<1>3. CASE p.state = "Offline"
  <2>1. ReceiveReply(p, t) = OfflineReply(p, t)
    BY <1>3 DEF ReceiveReply, Exchanging
  <2>2. Good(OfflineReply(p, t))
    BY <1>1, <1>2 DEF OfflineReply, PeripheralStates, PeripheralEvents
  <2> QED  BY <2>1, <2>2
<1>4. ASSUME NEW next \in PeripheralStates
      PROVE  Good(ConfirmedReply(p, t, next))
  BY <1>1, <1>2 DEF ConfirmedReply
<1>5. CASE p.state \in {"WaitForParam", "WaitForConfig"}
  BY <1>4, <1>5 DEF ReceiveReply, Exchanging, PeripheralStates
<1>6. CASE p.state = "ValidateConfig"
  <2>1. ReceiveReply(p, t) = ValidateReply(p, t)
    BY <1>6 DEF ReceiveReply, Exchanging
  <2>2. /\ Verdict(t.flags)[1] \in PeripheralStates
        /\ Verdict(t.flags)[2] \in (PeripheralEvents \ {"Offline"}) \cup {NoEvent}
    BY DEF Verdict, PeripheralStates, PeripheralEvents
  <2>3. Good(<<[p EXCEPT !.retry_count = 0], NoEvent>>)
    BY PeripheralAssumption DEF Peripherals
  <2>4. Good(ValidateReply(p, t))
    BY <1>1, <2>2, <2>3 DEF ValidateReply
  <2> QED  BY <2>1, <2>4
<1>7. CASE Exchanging(p)
  <2>1. ReceiveReply(p, t) = IF p.diag_needed THEN RequestedDiagnosticsReply(p, t)
                                              ELSE ExchangeReply(p, t)
    BY <1>7 DEF ReceiveReply, Exchanging
  <2>2. ASSUME NEW s \in PeripheralStates, NEW d \in BOOLEAN,
               NEW e \in (PeripheralEvents \ {"Offline"}) \cup {NoEvent}
        PROVE  Good(<<[Answered(p, s) EXCEPT !.diag_needed = d], e>>)
    BY AnsweredType DEF Peripherals
  <2>3. p.state \in PeripheralStates /\ t.high \in BOOLEAN
    BY DEF Peripherals, Replies
  <2>4. Good(RequestedDiagnosticsReply(p, t))
    BY <1>2, <2>2, <2>3 DEF RequestedDiagnosticsReply, PeripheralEvents
  <2>5. Good(ExchangeReply(p, t))
    BY <1>1, <2>2, <2>3 DEF ExchangeReply, PeripheralStates, PeripheralEvents
  <2> QED  BY <2>1, <2>4, <2>5
<1> QED  BY <1>3, <1>5, <1>6, <1>7 DEF Peripherals, PeripheralStates, Exchanging

(* The right answer to the request a peripheral is waiting for ends the     *)
(* retries.                                                                 *)
LEMMA ValidAnswerCounts ==
  ASSUME NEW p \in Peripherals, NEW t \in Replies, Answers(p.address, RequestOf(p), t)
  PROVE  ReceiveReply(p, t)[1].retry_count = 0
<1>1. \A s \in PeripheralStates : Answered(p, s).retry_count = 0
  BY AnsweredType
<1>2. CASE p.state = "Offline"
  BY <1>1, <1>2 DEF ReceiveReply, Exchanging, RequestOf, Answers, OfflineReply,
                    PeripheralStates
<1>3. CASE p.state \in {"WaitForParam", "WaitForConfig"}
  BY <1>1, <1>3 DEF ReceiveReply, Exchanging, RequestOf, Answers, ConfirmedReply,
                    PeripheralStates
<1>4. CASE p.state = "ValidateConfig"
  <2>1. ReceiveReply(p, t)[1] = Answered(p, Verdict(t.flags)[1])
    BY <1>4 DEF ReceiveReply, Exchanging, RequestOf, Answers, ValidateReply
  <2>2. Verdict(t.flags)[1] \in PeripheralStates
    BY DEF Verdict, PeripheralStates
  <2> QED  BY <1>1, <2>1, <2>2
<1>5. CASE Exchanging(p) /\ p.diag_needed
  <2>1. ReceiveReply(p, t)[1] = [Answered(p, p.state) EXCEPT !.diag_needed = FALSE]
    BY <1>5 DEF ReceiveReply, Exchanging, RequestOf, Answers, RequestedDiagnosticsReply
  <2> QED  BY <2>1, AnsweredType DEF Peripherals
<1>6. CASE Exchanging(p) /\ ~p.diag_needed
  <2>1. ReceiveReply(p, t)[1]
          = [Answered(p, "DataExchange") EXCEPT !.diag_needed = t.high]
    BY <1>6 DEF ReceiveReply, Exchanging, RequestOf, Answers, ExchangeReply, TakenAsInputs
  <2> QED  BY <2>1, AnsweredType DEF Peripherals, PeripheralStates
<1> QED  BY <1>2, <1>3, <1>4, <1>5, <1>6 DEF Peripherals, PeripheralStates, Exchanging

------------------------------------------------------------------------------
(* transmit_telegram() *)

(* The first peripheral with something to send is one of them. *)
LEMMA FirstSender ==
  ASSUME NEW i \in Nat, count \in Nat, Senders(i) # {}
  PROVE  Min(Senders(i)) \in Senders(i) /\ \A k \in Senders(i) : Min(Senders(i)) =< k
<1> DEFINE S == Senders(i)
<1>1. S \in SUBSET Nat
  BY DEF Senders
<1>2. S # {}
  OBVIOUS
<1> HIDE DEF S
<1>3. PICK m \in S : \A x \in S : <<x, m>> \notin OpToRel(<, Nat)
  BY <1>1, <1>2, WFMin, NatLessThanWellFounded, Zenon
<1>4. \A x \in S : ~ (x < m)
  BY <1>1, <1>3, Zenon DEF OpToRel
<1>5. \E x \in S : \A y \in S : x =< y
  BY <1>1, <1>4
<1>6. Min(S) \in S /\ \A y \in S : Min(S) =< y
  BY <1>5 DEF Min
<1> QED  BY <1>6 DEF S

(* The loop starts at a slot, and ends at the last one that is filled. *)
LEMMA SlotsFromCycle ==
  ASSUME TypeOK, cycle # Completed
  PROVE  /\ cycle \in Nat /\ count \in Nat /\ cycle \in Slots
         /\ cycle .. count \subseteq Slots /\ cycle .. count \subseteq 1 .. count
BY MasterAssumption DEF TypeOK, Slots, Completed

LEMMA LostEventType ==
  ASSUME TypeOK, cycle # Completed
  PROVE  /\ LostEvent(cycle) \in [slot : Slots, event : PeripheralEvents] \cup {Nothing}
         /\ LostEvent(cycle) # Nothing => LostEvent(cycle).slot \in Lost(cycle)
<1>1. Lost(cycle) \subseteq Slots
  BY SlotsFromCycle DEF Lost, Passed
<1>2. CASE Lost(cycle) = {}
  BY <1>2 DEF LostEvent
<1>3. CASE Lost(cycle) # {}
  <2>1. PICK k \in Lost(cycle) : LostEvent(cycle) = [slot |-> k, event |-> "Offline"]
    BY <1>3 DEF LostEvent, Event, NoEvent
  <2> QED  BY <1>1, <2>1 DEF PeripheralEvents
<1> QED  BY <1>2, <1>3

(* The peripherals before the one that sends start their retries again. *)
LEMMA SkippedSlots ==
  ASSUME TypeOK, NEW k \in Slots, NEW i
  PROVE  LET p == IF k \in Passed(i) THEN Skipped(slots[k]) ELSE slots[k] IN
         /\ p \in Peripherals
         /\ p.retry_count \in {0, slots[k].retry_count}
<1>1. slots[k] \in Peripherals
  BY DEF TypeOK
<1> QED  BY <1>1, SkippedType

LEMMA TransmitNothingOK ==
  ASSUME IInv, ~Awaiting, cycle # Completed, TransmitNothing(cycle),
         operating' = operating, control' = FALSE, panicked' = panicked, count' = count,
         slave' = slave, faults' = faults, calls' = calls
  PROVE  IInv'
<1>1. slots' \in [Slots -> Peripherals]
  BY SkippedSlots DEF IInv, TransmitNothing
<1>2. turns' \subseteq Slots
  BY SlotsFromCycle DEF IInv, TransmitNothing, TypeOK
<1>3. events' \in LastEvents
  BY LostEventType DEF IInv, TransmitNothing, LastEvents
<1>4. TypeOK'
  BY <1>1, <1>2, <1>3 DEF IInv, TransmitNothing, TypeOK
<1>5. ~Awaiting'
  BY DEF TransmitNothing, Awaiting
<1>6. RetriesFailed => RetriesFailed'
  <2> SUFFICES ASSUME RetriesFailed, NEW k \in Slots
               PROVE  slots'[k].retry_count <= failed[k]
    BY DEF RetriesFailed, TransmitNothing
  <2>1. slots'[k].retry_count \in {0, slots[k].retry_count}
    BY SkippedSlots DEF IInv, TransmitNothing
  <2>2. failed[k] \in Nat
    BY PeripheralAssumption DEF IInv, TypeOK
  <2> QED  BY <2>1, <2>2 DEF RetriesFailed
<1> QED  BY <1>4, <1>5, <1>6 DEF IInv, AskedIsSlave, OwedToCycle

LEMMA TransmitRequestOK ==
  ASSUME IInv, cycle # Completed, NEW k \in Senders(cycle), TransmitRequest(cycle, k),
         operating' = operating, control' = FALSE, panicked' = panicked, count' = count,
         slave' = slave, faults' = faults, calls' = calls
  PROVE  IInv'
<1> DEFINE p == slots[k]
<1>1. k \in Slots /\ k \in 1 .. count /\ p \in Peripherals /\ Sends(p)
  BY SlotsFromCycle DEF IInv, Senders, TypeOK
<1>2. /\ Sent(p) \in Peripherals
      /\ Sent(p).address = p.address /\ Sent(p).retry_count = p.retry_count + 1
      /\ RequestOf(Sent(p)) = RequestOf(p) /\ RequestOf(p) \in Requests
  BY <1>1, SentCounts, RequestType
<1>3. slots' = [j \in Slots |-> IF j = k THEN Sent(p)
                               ELSE IF j \in Passed(cycle) THEN Skipped(slots[j])
                               ELSE slots[j]]
  BY DEF TransmitRequest, Request
<1>4. slots' \in [Slots -> Peripherals]
  BY <1>2, <1>3, SkippedSlots DEF IInv
<1>5. bus' = BusOf("Request", p, Confirmation) /\ bus' \in BusStates
  <2>1. p.address \in Addresses /\ p.fcb \in FrameCountBits
    BY <1>1 DEF Peripherals
  <2>2. Confirmation \in Replies
    BY DEF Confirmation, Replies
  <2> QED  BY <1>2, <2>1, <2>2 DEF TransmitRequest, Request, BusOf, BusStates
<1>6. events' \in LastEvents
  BY LostEventType DEF IInv, TransmitRequest, NoEvents, LastEvents
<1>7. turns' \subseteq Slots
  BY <1>1, SlotsFromCycle DEF IInv, TransmitRequest, Request, TypeOK, Slots
<1>8. failed' \in [Slots -> 0 .. MaxRetry + 1]
  <2>1. failed[k] \in 0 .. MaxRetry + 1
    BY <1>1 DEF IInv, TypeOK
  <2>2. (IF failed[k] > MaxRetry THEN failed[k] ELSE failed[k] + 1) \in 0 .. MaxRetry + 1
    BY <2>1, PeripheralAssumption
  <2> QED  BY <2>2 DEF IInv, TransmitRequest, Request, TypeOK
<1>9. done' \in [Addresses -> SUBSET Requests]
  BY DEF IInv, TransmitRequest, Request, TypeOK
<1>10. TypeOK'
  <2>1. cycle' \in Completed .. count'
    BY <1>1 DEF IInv, TypeOK, TransmitRequest, Completed
  <2>2. count' \in 0 .. NumSlots /\ slave' \in [Addresses -> Slaves]
    BY DEF IInv, TypeOK
  <2> QED  BY <1>4, <1>5, <1>6, <1>7, <1>8, <1>9, <2>1, <2>2 DEF IInv, TypeOK
<1>11. AskedIsSlave'
  BY <1>1, <1>5 DEF AskedIsSlave, BusOf, Peripherals
<1>12. OwedToCycle'
  <2>1. slots'[k] = Sent(p) /\ cycle' = k /\ count' = count
    BY <1>1, <1>3 DEF TransmitRequest
  <2>2. Sent(p).retry_count > 0
    BY <1>1, <1>2, PeripheralAssumption DEF Peripherals
  <2> QED  BY <1>1, <1>2, <1>5, <2>1, <2>2 DEF OwedToCycle, BusOf
<1>13. RetriesFailed => RetriesFailed'
  <2> SUFFICES ASSUME RetriesFailed, NEW j \in Slots
               PROVE  slots'[j].retry_count <= failed'[j]
    BY DEF RetriesFailed
  <2>1. failed[j] \in 0 .. MaxRetry + 1 /\ slots[j].retry_count <= failed[j]
    BY DEF IInv, TypeOK, RetriesFailed
  <2>2. CASE j = k
    <3>1. slots'[j].retry_count = p.retry_count + 1 /\ p.retry_count \in 0 .. MaxRetry
      BY <1>1, <1>2, <1>3, <2>2, PeripheralAssumption DEF Sends, GivesUp, Peripherals
    <3>2. failed'[j] = IF failed[j] > MaxRetry THEN failed[j] ELSE failed[j] + 1
      BY <2>2 DEF IInv, TypeOK, TransmitRequest, Request
    <3> QED  BY <2>1, <2>2, <3>1, <3>2, PeripheralAssumption
  <2>3. CASE j # k
    <3>1. slots'[j].retry_count \in {0, slots[j].retry_count}
      BY <1>3, <2>3, SkippedSlots DEF IInv
    <3>2. failed'[j] = failed[j]
      BY <2>3 DEF IInv, TypeOK, TransmitRequest, Request
    <3> QED  BY <2>1, <3>1, <3>2, PeripheralAssumption
  <2> QED  BY <2>2, <2>3
<1> QED  BY <1>10, <1>11, <1>12, <1>13 DEF IInv

(* A panic leaves everything as it is. *)
LEMMA TransmitCycleOK ==
  ASSUME IInv, TransmitCycle
  PROVE  IInv'
<1>1. cycle # Completed /\ ~Awaiting
  BY DEF TransmitCycle
<1>2. CASE Cardinality(Lost(cycle)) > 1
  BY <1>2 DEF TransmitCycle, IInv, TypeOK, AskedIsSlave, OwedToCycle, RetriesFailed,
              Awaiting, boundVars, historyVars
<1>3. CASE ~ (Cardinality(Lost(cycle)) > 1)
  <2>1. /\ operating' = operating /\ control' = FALSE /\ panicked' = panicked
        /\ count' = count /\ slave' = slave /\ faults' = faults /\ calls' = calls
    BY <1>3 DEF TransmitCycle, boundVars
  <2>2. CASE Senders(cycle) = {}
    <3>1. TransmitNothing(cycle)
      BY <1>3, <2>2 DEF TransmitCycle
    <3> QED  BY <1>1, <2>1, <3>1, TransmitNothingOK
  <2>3. CASE Senders(cycle) # {}
    <3>1. Min(Senders(cycle)) \in Senders(cycle)
      BY <1>1, <2>3, SlotsFromCycle, FirstSender DEF IInv
    <3> DEFINE k == Min(Senders(cycle))
    <3>2. TransmitRequest(cycle, k)
      BY <1>3, <2>3 DEF TransmitCycle
    <3> HIDE DEF k
    <3>3. k \in Senders(cycle)
      BY <3>1 DEF k
    <3> QED  BY <1>1, <2>1, <3>2, <3>3, TransmitRequestOK
  <2> QED  BY <2>2, <2>3
<1> QED  BY <1>2, <1>3

LEMMA OtherTransmitsOK ==
  ASSUME IInv, TransmitStopped \/ TransmitGlobalControl \/ TransmitAfterCycle
  PROVE  IInv'
<1>1. NoEvents \in LastEvents
  BY DEF NoEvents, LastEvents
<1>2. CASE TransmitStopped
  BY <1>1, <1>2 DEF TransmitStopped, IInv, TypeOK, AskedIsSlave, OwedToCycle,
                    RetriesFailed, Awaiting, boundVars, historyVars
<1>3. CASE TransmitGlobalControl
  BY <1>1, <1>3 DEF TransmitGlobalControl, IInv, TypeOK, AskedIsSlave, OwedToCycle,
                    RetriesFailed, Awaiting, boundVars, historyVars
<1>4. CASE TransmitAfterCycle
  BY <1>1, <1>4 DEF TransmitAfterCycle, IInv, TypeOK, AskedIsSlave, OwedToCycle,
                    RetriesFailed, Awaiting, boundVars, historyVars
<1> QED  BY <1>2, <1>3, <1>4

------------------------------------------------------------------------------
(* receive_reply() and handle_timeout() *)

LEMMA IdleType == Idle \in BusStates /\ Idle.phase = "Idle"
BY DEF Idle, BusStates, Requests, FrameCountBits, Confirmation, Replies

LEMMA ReceiveOK ==
  ASSUME IInv, Receive
  PROVE  IInv'
<1>1. bus' = Idle /\ bus.phase = "Reply" /\ bus \in BusStates
  BY DEF Receive, IInv, TypeOK
<1>2. ~Awaiting' /\ bus' \in BusStates
  BY <1>1, IdleType DEF Awaiting
<1>3. CASE cycle = Completed \/ slots[cycle].address # bus.address
  BY <1>2, <1>3 DEF Receive, IInv, TypeOK, AskedIsSlave, OwedToCycle, RetriesFailed,
                    boundVars
<1>4. CASE cycle # Completed /\ slots[cycle].address = bus.address
  <2> DEFINE p == slots[cycle]
             r == ReceiveReply(p, bus.reply)
  <2>1. /\ panicked' = panicked
        /\ slots' = [slots EXCEPT ![cycle] = r[1]]
        /\ cycle' = NextIndex(cycle)
        /\ events' = [cycle_completed |-> NextIndex(cycle) = Completed,
                      peripheral |-> Event(cycle, r[2])]
        /\ failed' = [failed EXCEPT ![cycle] =
                        IF Answers(bus.address, bus.request, bus.reply) THEN 0
                        ELSE failed[cycle]]
    BY <1>4 DEF Receive
  <2>2. cycle \in Slots /\ p \in Peripherals /\ bus.reply \in Replies
    BY <1>1, <1>4, SlotsFromCycle DEF IInv, TypeOK, BusStates
  <2>3. /\ r[1] \in Peripherals /\ r[1].retry_count \in {0, p.retry_count}
        /\ r[2] \in (PeripheralEvents \ {"Offline"}) \cup {NoEvent}
    BY <2>2, ReplyTaken
  <2>4. cycle' \in Completed .. count
    BY <1>4, <2>1, SlotsFromCycle DEF IInv, NextIndex, Completed
  <2>5. events' \in LastEvents
    BY <2>1, <2>2, <2>3 DEF Event, LastEvents
  <2>6. slots' \in [Slots -> Peripherals]
    BY <2>1, <2>2, <2>3 DEF IInv, TypeOK
  <2>7. failed' \in [Slots -> 0 .. MaxRetry + 1]
    <3>1. failed[cycle] \in 0 .. MaxRetry + 1 /\ 0 \in 0 .. MaxRetry + 1
      BY <2>2, PeripheralAssumption DEF IInv, TypeOK
    <3> QED  BY <2>1, <3>1 DEF IInv, TypeOK
  <2>8. TypeOK'
    BY <1>2, <2>1, <2>4, <2>5, <2>6, <2>7 DEF Receive, IInv, TypeOK, boundVars
  <2>9. OwedToCycle /\ RetriesFailed => RetriesFailed'
    <3> SUFFICES ASSUME OwedToCycle, RetriesFailed, NEW k \in Slots
                 PROVE  slots'[k].retry_count <= failed'[k]
      BY DEF RetriesFailed
    <3>1. failed[k] \in 0 .. MaxRetry + 1 /\ slots[k].retry_count <= failed[k]
      BY DEF IInv, TypeOK, RetriesFailed
    <3>2. CASE k # cycle
      BY <2>1, <3>1, <3>2 DEF IInv, TypeOK
    <3>3. CASE k = cycle
      <4>1. slots'[k].retry_count \in {0, slots[k].retry_count}
        BY <2>1, <2>2, <2>3, <3>3 DEF IInv, TypeOK
      <4>2. CASE Answers(bus.address, bus.request, bus.reply)
        <5>1. bus.address = p.address /\ bus.request = RequestOf(p)
          BY <1>1, <1>4 DEF OwedToCycle, Awaiting
        <5>2. r[1].retry_count = 0
          BY <2>2, <4>2, <5>1, ValidAnswerCounts
        <5>3. slots'[k].retry_count = 0 /\ failed'[k] = 0
          BY <2>1, <2>2, <3>3, <4>2, <5>2 DEF IInv, TypeOK
        <5> QED  BY <5>3
      <4>3. CASE ~Answers(bus.address, bus.request, bus.reply)
        <5>1. failed'[k] = failed[k]
          BY <2>1, <3>3, <4>3 DEF IInv, TypeOK
        <5> QED  BY <3>1, <4>1, <5>1
      <4> QED  BY <4>2, <4>3
    <3> QED  BY <3>2, <3>3
  <2> QED  BY <1>2, <2>8, <2>9 DEF IInv, AskedIsSlave, OwedToCycle
<1> QED  BY <1>3, <1>4

LEMMA TimeoutOK ==
  ASSUME IInv, Timeout
  PROVE  IInv'
BY IdleType DEF Timeout, IInv, TypeOK, AskedIsSlave, OwedToCycle, RetriesFailed, Awaiting,
                masterVars, boundVars, historyVars

------------------------------------------------------------------------------
(* The slaves and the bus *)

(* A request that is answered, in whatever way, stays that of the           *)
(* peripheral at the cycle's index.                                         *)
LEMMA ReplyOK ==
  ASSUME IInv, bus.phase = "Request", NEW t \in Replies, Reply(t), UNCHANGED masterVars
  PROVE  /\ bus' \in BusStates /\ AskedIsSlave'
         /\ Careful => OwedToCycle'
<1>1. bus \in BusStates /\ Awaiting
  BY DEF IInv, TypeOK, Awaiting
<1>2. /\ bus' \in BusStates /\ bus'.address = bus.address
      /\ bus'.request = bus.request /\ bus'.phase = "Reply"
  BY <1>1 DEF Reply, BusStates
<1> QED  BY <1>1, <1>2 DEF IInv, AskedIsSlave, OwedToCycle, Awaiting, masterVars

LEMMA RepeatOK ==
  ASSUME IInv, Repeat
  PROVE  IInv'
<1>1. bus.phase = "Request" /\ bus.address \in Addresses
  BY DEF Repeat, IInv, AskedIsSlave, Awaiting
<1>2. slave[bus.address].reply \in Replies
  BY <1>1 DEF IInv, TypeOK, Slaves
<1>3. bus' \in BusStates /\ AskedIsSlave' /\ (Careful => OwedToCycle')
  BY <1>1, <1>2, ReplyOK DEF Repeat
<1> QED  BY <1>3 DEF Repeat, IInv, TypeOK, RetriesFailed, masterVars, boundVars, historyVars

LEMMA ServesOK ==
  ASSUME IInv, NEW s \in Slaves, NEW t \in Replies, Serves(<<s, t>>),
         faults' \in 0 .. MaxFaults
  PROVE  IInv'
<1>1. bus.phase = "Request" /\ bus.address \in Addresses /\ UNCHANGED masterVars
  BY DEF Serves, IInv, AskedIsSlave, Awaiting
<1>2. bus' \in BusStates /\ AskedIsSlave' /\ (Careful => OwedToCycle')
  BY <1>1, ReplyOK DEF Serves
<1>3. Remembering(s, t) \in Slaves
  BY DEF Remembering, Slaves, Bit
<1>4. slave' \in [Addresses -> Slaves]
  BY <1>1, <1>3 DEF Serves, IInv, TypeOK
<1>5. done' \in [Addresses -> SUBSET Requests]
  <2>1. bus.request \in Requests
    BY DEF IInv, TypeOK, BusStates
  <2> QED  BY <2>1 DEF Serves, IInv, TypeOK
<1> QED  BY <1>1, <1>2, <1>4, <1>5 DEF Serves, IInv, TypeOK, RetriesFailed, masterVars

(* Whatever a slave makes of a request is a slave and a reply. *)
LEMMA OutcomeTypes ==
  ASSUME NEW s \in Slaves, NEW b \in BOOLEAN,
         NEW f \in {"ParameterFault", "ConfigurationFault"}
  PROVE  /\ [s EXCEPT !.busy = FALSE] \in Slaves
         /\ [s EXCEPT !.state = "WaitCfg", !.fault = Faultless] \in Slaves
         /\ [s EXCEPT !.state = "Data", !.busy = b] \in Slaves
         /\ [s EXCEPT !.state = "WaitPrm", !.fault = f] \in Slaves
         /\ {DiagnosticsOf(s), Confirmation, Refusal, InputData(b)} \subseteq Replies
<1>1. {Confirmation, Refusal, InputData(b)} \subseteq Replies
  BY DEF Confirmation, Refusal, InputData, Replies
<1>2. DiagnosticsOf(s) \in Replies
  <2>1. s.fault \in {Faultless, "ParameterFault", "ConfigurationFault"}
    BY DEF Slaves
  <2>2. \A flags \in SUBSET Flags : Diagnostics(flags) \in Replies
    BY DEF Diagnostics, Replies
  <2> QED  BY <2>1, <2>2 DEF DiagnosticsOf, Flags, Faultless
<1> QED  BY <1>1, <1>2 DEF Slaves, SlaveStates

LEMMA ServeOK ==
  ASSUME IInv, Serve
  PROVE  IInv'
<1> DEFINE s == slave[bus.address]
<1>1. PICK o : Serves(o) /\ o \in
        {Diagnosed(s), Parameterised(s), Configured(s, TRUE), Configured(s, FALSE),
         Refused(s), Exchanged(s, TRUE), Exchanged(s, FALSE),
         Rejected(s, "ParameterFault"), Rejected(s, "ConfigurationFault")}
  BY DEF Serve
<1>2. s \in Slaves
  BY <1>1 DEF Serves, IInv, TypeOK, AskedIsSlave, Awaiting
<1>3. \E x \in Slaves, t \in Replies : o = <<x, t>>
  BY <1>1, <1>2, OutcomeTypes
     DEF Diagnosed, Parameterised, Configured, Refused, Exchanged, Rejected
<1>4. faults' \in 0 .. MaxFaults
  <2>1. faults' = faults \/ (faults < MaxFaults /\ faults' = faults + 1)
    BY DEF Serve
  <2> QED  BY <2>1, MasterAssumption DEF IInv, TypeOK
<1> QED  BY <1>1, <1>3, <1>4, ServesOK

LEMMA LoseOK ==
  ASSUME IInv, Lose
  PROVE  IInv'
<1>1. bus \in BusStates /\ Awaiting
  BY DEF Lose, Awaiting, IInv, TypeOK
<1>2. bus' \in BusStates /\ bus'.address = bus.address /\ bus'.phase = "Silent"
  BY <1>1, IdleType DEF Lose, BusStates
<1>3. faults' \in 0 .. MaxFaults
  BY MasterAssumption DEF Lose, IInv, TypeOK
<1> QED  BY <1>1, <1>2, <1>3 DEF Lose, IInv, TypeOK, AskedIsSlave, OwedToCycle,
                RetriesFailed, Awaiting, masterVars, historyVars

LEMMA NewSlaveType == NewSlave \in Slaves
BY DEF NewSlave, Slaves, SlaveStates, Confirmation, Replies, Faultless

LEMMA RestartForgetOK ==
  ASSUME IInv, NEW a \in Addresses, Restart(a) \/ Forget(a)
  PROVE  IInv'
<1>1. CASE Restart(a)
  <2>1. slave' \in [Addresses -> Slaves] /\ faults' \in 0 .. MaxFaults
    BY <1>1, NewSlaveType, MasterAssumption DEF Restart, IInv, TypeOK
  <2> QED  BY <1>1, <2>1 DEF Restart, IInv, TypeOK, AskedIsSlave, OwedToCycle,
                  RetriesFailed, Awaiting, masterVars, historyVars
<1>2. CASE Forget(a)
  <2>1. [slave[a] EXCEPT !.last = FALSE, !.bit = FALSE, !.reply = Confirmation] \in Slaves
    BY DEF IInv, TypeOK, Slaves, Confirmation, Replies
  <2>2. slave' \in [Addresses -> Slaves]
    BY <1>2, <2>1 DEF Forget, IInv, TypeOK
  <2> QED  BY <1>2, <2>2 DEF Forget, IInv, TypeOK, AskedIsSlave, OwedToCycle,
                  RetriesFailed, Awaiting, masterVars, boundVars, historyVars
<1> QED  BY <1>1, <1>2

------------------------------------------------------------------------------
(* The program *)

LEMMA AddOperateTakeOK ==
  ASSUME IInv, Add \/ EnterOperate \/ TakeLastEvents
  PROVE  IInv'
<1>1. CASE Add
  <2>1. count' = count + 1 /\ count' \in 0 .. NumSlots /\ count \in Nat
    BY <1>1, MasterAssumption DEF Add, IInv, TypeOK
  <2>2. (cycle = 1 \/ cycle \in Completed .. count')
        /\ (cycle \in 1 .. count => cycle \in 1 .. count')
    BY <2>1 DEF IInv, TypeOK, Completed
  <2> QED  BY <1>1, <2>1, <2>2 DEF Add, IInv, TypeOK, AskedIsSlave, OwedToCycle,
                  RetriesFailed, Awaiting, boundVars, historyVars
<1>2. CASE EnterOperate
  BY <1>2 DEF EnterOperate, IInv, TypeOK, AskedIsSlave, OwedToCycle, RetriesFailed,
              Awaiting, boundVars, historyVars
<1>3. CASE TakeLastEvents
  <2>1. NoEvents \in LastEvents
    BY DEF NoEvents, LastEvents
  <2> QED  BY <1>3, <2>1 DEF TakeLastEvents, IInv, TypeOK, AskedIsSlave, OwedToCycle,
                  RetriesFailed, Awaiting, boundVars, historyVars
<1> QED  BY <1>1, <1>2, <1>3

(* A careful program touches a peripheral only while its retry count is 0:  *)
(* never the one that owes a reply, which stays as it is.                   *)
LEMMA TouchOK ==
  ASSUME IInv, NEW k \in Slots, MayTouch(k), NEW p \in Peripherals,
         slots' = [slots EXCEPT ![k] = p], p.retry_count \in {0, slots[k].retry_count},
         UNCHANGED <<bus, count, cycle>>,
         failed' \in [Slots -> 0 .. MaxRetry + 1],
         \A j \in Slots : failed'[j] = failed[j] \/ (j = k /\ p.retry_count = 0)
  PROVE  /\ slots' \in [Slots -> Peripherals]
         /\ AskedIsSlave' /\ (Careful => OwedToCycle' /\ RetriesFailed')
<1>1. slots' \in [Slots -> Peripherals]
  BY DEF IInv, TypeOK
<1>2. AskedIsSlave'
  BY DEF IInv, AskedIsSlave, Awaiting
<1>3. ASSUME Careful PROVE OwedToCycle'
  <2> SUFFICES ASSUME Awaiting PROVE OwedToCycle'
    BY DEF OwedToCycle, Awaiting
  <2>1. OwedToCycle /\ slots[k].retry_count = 0
    BY <1>3 DEF IInv, MayTouch
  <2>2. cycle # k /\ slots'[cycle] = slots[cycle]
    BY <2>1 DEF IInv, TypeOK, OwedToCycle, Slots
  <2> QED  BY <2>1, <2>2 DEF OwedToCycle, Awaiting
<1>4. ASSUME Careful PROVE RetriesFailed'
  <2> SUFFICES ASSUME NEW j \in Slots PROVE slots'[j].retry_count <= failed'[j]
    BY DEF RetriesFailed
  <2>1. /\ slots[j].retry_count <= failed[j] /\ failed'[j] \in 0 .. MaxRetry + 1
        /\ failed[j] \in 0 .. MaxRetry + 1
    BY <1>4 DEF IInv, TypeOK, RetriesFailed
  <2>2. CASE j = k
    <3>1. slots'[j] = p
      BY <2>2 DEF IInv, TypeOK
    <3> QED  BY <2>1, <2>2, <3>1, PeripheralAssumption
  <2>3. CASE j # k
    <3>1. slots'[j] = slots[j] /\ failed'[j] = failed[j]
      BY <2>3 DEF IInv, TypeOK
    <3> QED  BY <2>1, <3>1
  <2> QED  BY <2>2, <2>3
<1> QED  BY <1>1, <1>2, <1>3, <1>4

LEMMA RequestDiagnosticsOK ==
  ASSUME IInv, NEW k \in Slots, RequestDiagnostics(k)
  PROVE  IInv'
<1> DEFINE p == [slots[k] EXCEPT !.diag_needed = TRUE]
<1>1. p \in Peripherals /\ p.retry_count = slots[k].retry_count
  BY DEF IInv, TypeOK, Peripherals
<1>2. slots' = [slots EXCEPT ![k] = p] /\ MayTouch(k)
  BY DEF RequestDiagnostics
<1>3. UNCHANGED <<bus, count, cycle>> /\ failed' = failed
  BY DEF RequestDiagnostics, historyVars
<1>4. failed' \in [Slots -> 0 .. MaxRetry + 1]
  BY <1>3 DEF IInv, TypeOK
<1> HIDE DEF p
<1>5. /\ slots' \in [Slots -> Peripherals]
      /\ AskedIsSlave' /\ (Careful => OwedToCycle' /\ RetriesFailed')
  BY <1>1, <1>2, <1>3, <1>4, TouchOK
<1>6. calls' \in 0 .. MaxCalls
  BY MasterAssumption DEF RequestDiagnostics, IInv, TypeOK
<1> QED  BY <1>5, <1>6 DEF RequestDiagnostics, IInv, TypeOK, historyVars

LEMMA ResetAddressOK ==
  ASSUME IInv, NEW k \in Slots, NEW a \in Addresses, ResetAddress(k, a)
  PROVE  IInv'
<1> DEFINE p == NewPeripheral(a)
<1>1. p \in Peripherals /\ p.retry_count = 0
  BY NewPeripheralType
<1>2. slots' = [slots EXCEPT ![k] = p] /\ MayTouch(k)
  BY DEF ResetAddress
<1>3. UNCHANGED <<bus, count, cycle>>
  BY DEF ResetAddress
<1>4. /\ failed' \in [Slots -> 0 .. MaxRetry + 1]
      /\ \A j \in Slots : j # k => failed'[j] = failed[j]
  <2>1. 0 \in 0 .. MaxRetry + 1
    BY PeripheralAssumption
  <2> QED  BY <2>1 DEF ResetAddress, IInv, TypeOK
<1> HIDE DEF p
<1>5. /\ slots' \in [Slots -> Peripherals]
      /\ AskedIsSlave' /\ (Careful => OwedToCycle' /\ RetriesFailed')
  BY <1>1, <1>2, <1>3, <1>4, TouchOK
<1>6. calls' \in 0 .. MaxCalls
  BY MasterAssumption DEF ResetAddress, IInv, TypeOK
<1>7. count' \in 0 .. NumSlots /\ (cycle' = 1 \/ cycle' \in Completed .. count')
  BY <1>3 DEF IInv, TypeOK
<1>8. UNCHANGED <<operating, control, events, panicked, bus, slave, faults, done, turns>>
  BY DEF ResetAddress
<1> QED  BY <1>4, <1>5, <1>6, <1>7, <1>8 DEF IInv, TypeOK

------------------------------------------------------------------------------
(* The invariant is inductive *)

LEMMA InitIInv == Init => IInv
<1> SUFFICES ASSUME Init PROVE IInv
  OBVIOUS
<1>1. slots \in [Slots -> Peripherals] /\ \A k \in Slots : slots[k].retry_count = 0
  BY NewPeripheralType, MasterAssumption DEF Init
<1>2. slave \in [Addresses -> Slaves]
  BY NewSlaveType DEF Init
<1>3. failed \in [Slots -> 0 .. MaxRetry + 1] /\ \A k \in Slots : failed[k] = 0
  <2>1. 0 \in 0 .. MaxRetry + 1
    BY PeripheralAssumption
  <2> QED  BY <2>1 DEF Init
<1>4. bus \in BusStates /\ ~Awaiting
  BY IdleType DEF Init, Awaiting
<1>5. events \in LastEvents
  BY DEF Init, NoEvents, LastEvents
<1>6. TypeOK
  <2>1. /\ operating \in BOOLEAN /\ control \in BOOLEAN /\ panicked \in BOOLEAN
        /\ cycle = 1 /\ count = 0 /\ faults = 0 /\ calls = 0 /\ turns = {}
    BY DEF Init
  <2>2. done \in [Addresses -> SUBSET Requests]
    BY DEF Init
  <2>3. 0 \in 0 .. NumSlots /\ 0 \in 0 .. MaxFaults /\ 0 \in 0 .. MaxCalls
    BY MasterAssumption
  <2> QED  BY <1>1, <1>2, <1>3, <1>4, <1>5, <2>1, <2>2, <2>3 DEF TypeOK
<1> QED  BY <1>1, <1>3, <1>4, <1>6 DEF IInv, AskedIsSlave, OwedToCycle, RetriesFailed

(* Every step preserves it: one case for each group of actions of Next. *)
LEMMA StepIInv == IInv /\ [Next]_vars => IInv'
<1> SUFFICES ASSUME IInv, [Next]_vars PROVE IInv'
  OBVIOUS
<1>1. CASE Poll
  BY <1>1, TransmitCycleOK, OtherTransmitsOK, ReceiveOK, TimeoutOK DEF Poll, Transmit
<1>2. CASE Slave
  BY <1>2, RepeatOK, ServeOK DEF Slave
<1>3. CASE Program
  BY <1>3, AddOperateTakeOK, RequestDiagnosticsOK, ResetAddressOK DEF Program
<1>4. CASE Lose
  BY <1>4, LoseOK
<1>5. CASE \E a \in Addresses : Restart(a) \/ Forget(a)
  BY <1>5, RestartForgetOK
<1>6. CASE UNCHANGED vars
  BY <1>6 DEF vars, masterVars, boundVars, historyVars, IInv, TypeOK, AskedIsSlave,
              OwedToCycle, RetriesFailed, Awaiting
<1> QED  BY <1>1, <1>2, <1>3, <1>4, <1>5, <1>6 DEF Next

(* IInv is inductive: it holds initially, and every step preserves it.     *)
THEOREM Invariance == Spec => []IInv
BY InitIInv, StepIInv, PTL DEF Spec

(* Every variable has its type in every reachable state: retry counts stay *)
(* within one of max_retry_limit, and the cycle's index within the slots   *)
(* that are filled, whatever the slaves and the program do.                *)
THEOREM TypeCorrect == Spec => []TypeOK
<1>1. IInv => TypeOK
  BY DEF IInv
<1> QED  BY <1>1, Invariance, PTL

(* With a careful program a reply always finds the peripheral that sent    *)
(* the request, and finds it waiting for just this reply: the unreachable!()*)
(* of receive_reply() is not reached.                                      *)
THEOREM RepliesFindPeripheral ==
  ASSUME Careful
  PROVE  Spec => []ReplyFindsPeripheral
<1>1. IInv => ReplyFindsPeripheral
  BY DEF IInv, OwedToCycle, ReplyFindsPeripheral, Awaiting
<1> QED  BY <1>1, Invariance, PTL

(* An event that a peripheral was given up comes from transmit_telegram(). *)
LEMMA OfflineIsTransmitted ==
  ASSUME IInv, [Next]_vars, NEW k \in Slots, events' # events, Reports(k, "Offline")'
  PROVE  GivesUp(slots[k])
<1>1. events'.peripheral = [slot |-> k, event |-> "Offline"]
  BY DEF Reports
<1>2. events'.peripheral # Nothing /\ events' # NoEvents
  BY <1>1 DEF Nothing, NoEvents, NoEvent
<1>3. CASE TransmitCycle
  <2>1. events'.peripheral = LostEvent(cycle)
    BY <1>3 DEF TransmitCycle, TransmitRequest, TransmitNothing, NoEvents
  <2>2. cycle # Completed
    BY <1>3 DEF TransmitCycle
  <2>3. LostEvent(cycle).slot \in Lost(cycle)
    BY <1>2, <2>1, <2>2, LostEventType DEF IInv
  <2> QED  BY <1>1, <2>1, <2>3 DEF Lost
<1>4. CASE Receive
  <2> DEFINE r == ReceiveReply(slots[cycle], bus.reply)
  <2>1. cycle # Completed /\ events'.peripheral = Event(cycle, r[2])
    BY <1>4 DEF Receive
  <2>2. slots[cycle] \in Peripherals /\ bus.reply \in Replies
    BY <2>1, SlotsFromCycle DEF IInv, TypeOK, BusStates
  <2>3. r[2] # "Offline"
    BY <2>2, ReplyTaken DEF NoEvent
  <2>4. Event(cycle, r[2]) = Nothing \/ Event(cycle, r[2]).event = r[2]
    BY DEF Event
  <2> QED  BY <1>1, <1>2, <2>1, <2>3, <2>4
<1>5. CASE TransmitStopped \/ TransmitGlobalControl \/ TransmitAfterCycle \/ TakeLastEvents
  BY <1>2, <1>5 DEF TransmitStopped, TransmitGlobalControl, TransmitAfterCycle,
                    TakeLastEvents
<1>6. CASE \/ Timeout \/ Slave \/ Lose \/ Add \/ EnterOperate
           \/ \E j \in Slots : RequestDiagnostics(j) \/ \E a \in Addresses : ResetAddress(j, a)
           \/ \E a \in Addresses : Restart(a) \/ Forget(a)
           \/ UNCHANGED vars
  <2>1. events' = events
    BY <1>6 DEF Timeout, Slave, Repeat, Serve, Serves, Lose, Add, EnterOperate,
                RequestDiagnostics, ResetAddress, Restart, Forget, vars, masterVars
  <2> QED  BY <2>1
<1> QED  BY <1>3, <1>4, <1>5, <1>6 DEF Next, Poll, Transmit, Program

(* With a careful program a peripheral is given up only when the requests  *)
(* for it that had no valid answer outnumber max_retry_limit.              *)
THEOREM OfflineOnlyAfterRetries ==
  ASSUME Careful
  PROVE  Spec => OfflineAfterRetries
<1> DEFINE GivenUp ==
             \A k \in Slots :
               IsLive(slots[k]) /\ events' # events /\ Reports(k, "Offline")'
                 => failed[k] > MaxRetry
<1>1. IInv /\ [Next]_vars => [GivenUp]_vars
  <2> SUFFICES ASSUME IInv, [Next]_vars, NEW k \in Slots,
                      events' # events, Reports(k, "Offline")'
               PROVE  failed[k] > MaxRetry
    OBVIOUS
  <2>1. GivesUp(slots[k])
    BY OfflineIsTransmitted
  <2>2. /\ slots[k].retry_count \in 0 .. MaxRetry + 1 /\ failed[k] \in 0 .. MaxRetry + 1
        /\ slots[k].retry_count <= failed[k]
    BY DEF IInv, TypeOK, RetriesFailed, Peripherals
  <2> QED  BY <2>1, <2>2, PeripheralAssumption DEF GivesUp
<1> QED  BY <1>1, Invariance, PTL DEF Spec, OfflineAfterRetries

------------------------------------------------------------------------------
(* What the program may rely on when it looks at last_events: that a       *)
(* completed cycle gave everybody a turn, that nobody comes or goes         *)
(* unreported, that what is reported has happened, and that the master does *)
(* not panic.  The inductive invariants of it:                              *)

(* Every slot up to the cycle's index has had its turn, the one at the     *)
(* index as soon as its request is sent.                                   *)
TurnsOK ==
  cycle # Completed => 1 .. cycle - 1 \subseteq turns /\ (Awaiting => cycle \in turns)

(* The program adds every peripheral under an address of its own.  The     *)
(* guard of reset_address() keeps it so.                                   *)
DistinctOrder == \A j, k \in Slots : Order[j] = Order[k] => j = k

OwnAddresses == \A j, k \in Slots : slots[j].address = slots[k].address => j = k

(* A reply t that the slave gave to the very request p is waiting for, d   *)
(* being the requests it has served.  A refusal comes only from a slave    *)
(* that is not ready.                                                      *)
Served(p, t, d) ==
  \/ /\ t.kind = "Refusal"
     /\ \/ RequestOf(p) = "Exchange"
        \/ RequestOf(p) = "ChkCfg" /\ p.address \in Troubled
  \/ Answers(p.address, RequestOf(p), t) /\ RequestOf(p) \in d

(* What a slave has accepted, by the state of its peripheral. *)
Accepted(p) ==
  CASE p.state = "WaitForConfig" -> {"SetPrm"}
    [] p.state \in {"ValidateConfig", "PreDataExchange", "DataExchange"}
         -> {"SetPrm", "ChkCfg"}
    [] OTHER -> {}

(* A live peripheral p, its slave s, and what that has served: if the slave *)
(* remembers the frame count bit of the peripheral's request, then that     *)
(* request has been made, and the reply it remembers is the answer to it.   *)
LiveOK(p, s, d) ==
  /\ Valid(p.fcb)
  /\ p.address \in Unconfigured /\ p.state \in {"WaitForParam", "WaitForConfig"}
       => p.retry_count = 0
  /\ s.last /\ s.bit = Bit(p.fcb) => p.retry_count > 0 /\ Served(p, s.reply, d)
  /\ Accepted(p) \subseteq d

PeripheralsOK ==
  \A k \in Slots :
    IsLive(slots[k])
      => LiveOK(slots[k], slave[slots[k].address], done[slots[k].address])

(* The request has the peripheral's bit, and the slave remembers the bit   *)
(* of the request it has answered, unless it has lost power since.         *)
BusOK ==
  /\ bus.phase \in {"Request", "Reply"} => bus.fcb = slots[cycle].fcb
  /\ bus.phase = "Reply" =>
       /\ slave[bus.address].last => slave[bus.address].bit = Bit(bus.fcb)
       /\ IsLive(slots[cycle]) => Served(slots[cycle], bus.reply, done[bus.address])

(* A slave that has accepted parameters and has no trouble keeps them. *)
ParametersKept ==
  \A a \in Addresses \ Troubled : "SetPrm" \in done[a] => slave[a].state # "WaitPrm"

ReportInv == OwnAddresses /\ PeripheralsOK /\ BusOK /\ ParametersKept

(* Only the peripheral at the cycle's index waits for an answer, and those *)
(* whose slave refuses its configuration.  One that is offline is not      *)
(* asked twice.                                                            *)
RetriesOK ==
  \A k \in Slots :
    IF IsLive(slots[k])
    THEN slots[k].retry_count > 0 => k = cycle \/ slots[k].address \in Troubled
    ELSE slots[k].retry_count <= 1

------------------------------------------------------------------------------
(* Turns *)

(* Only transmit_telegram() and receive_reply() move the index or report a *)
(* cycle complete, and only a request makes the master wait for an answer. *)
LEMMA IndexRemains ==
  ASSUME [Next]_vars, ~TransmitCycle, ~Receive, ~TransmitAfterCycle
  PROVE  /\ cycle' = cycle /\ turns' = turns /\ (Awaiting' => Awaiting)
         /\ events' \in {events, NoEvents}
<1>1. CASE TransmitStopped \/ TransmitGlobalControl \/ Timeout
  BY <1>1 DEF TransmitStopped, TransmitGlobalControl, Timeout, masterVars, historyVars,
              Awaiting, Idle
<1>2. CASE Slave
  BY <1>2 DEF Slave, Repeat, Serve, Serves, masterVars, historyVars, Awaiting
<1>3. CASE Program
  BY <1>3 DEF Program, Add, EnterOperate, TakeLastEvents, RequestDiagnostics, ResetAddress,
              masterVars, historyVars, Awaiting
<1>4. CASE Lose \/ \E a \in Addresses : Restart(a) \/ Forget(a)
  BY <1>4 DEF Lose, Restart, Forget, masterVars, historyVars, Awaiting
<1>5. CASE UNCHANGED vars
  BY <1>5 DEF vars, masterVars, historyVars, Awaiting
<1> QED  BY <1>1, <1>2, <1>3, <1>4, <1>5 DEF Next, Poll, Transmit

(* One call of transmit_telegram() gives a turn to every slot from the     *)
(* index up to the one that sends, or to all the rest.                     *)
LEMMA TransmitTurns ==
  ASSUME IInv, TurnsOK, TransmitCycle
  PROVE  /\ TurnsOK'
         /\ events'.cycle_completed /\ (events' # events \/ cycle' # cycle)
              => 1 .. count \subseteq turns'
<1>1. cycle # Completed /\ ~Awaiting /\ cycle \in Nat /\ cycle > 0 /\ count \in Nat
  BY SlotsFromCycle DEF TransmitCycle, IInv, Slots
<1>2. CASE Cardinality(Lost(cycle)) > 1
  BY <1>2 DEF TransmitCycle, TurnsOK, Awaiting, historyVars
<1>3. CASE TransmitNothing(cycle)
  <2>1. turns' = (IF cycle = 1 THEN {} ELSE turns) \cup cycle .. count
    BY <1>3 DEF TransmitNothing
  <2>2. 1 .. count \subseteq turns'
    BY <1>1, <2>1 DEF TurnsOK
  <2>3. cycle' = 1 /\ ~Awaiting'
    BY <1>1, <1>3 DEF TransmitNothing, Awaiting
  <2> QED  BY <2>2, <2>3 DEF TurnsOK
<1>4. ASSUME NEW k \in Senders(cycle), TransmitRequest(cycle, k)
      PROVE  TurnsOK' /\ ~events'.cycle_completed
  <2>1. /\ turns' = (IF cycle = 1 THEN {} ELSE turns) \cup cycle .. k
        /\ cycle' = k /\ ~events'.cycle_completed
    BY <1>4 DEF TransmitRequest, Request, NoEvents
  <2>2. k \in cycle .. count
    BY DEF Senders
  <2> QED  BY <1>1, <2>1, <2>2 DEF TurnsOK
<1> QED  BY <1>1, <1>2, <1>3, <1>4, FirstSender DEF TransmitCycle

(* A reply moves the index on by one at most, and ends the cycle at the     *)
(* last slot only.                                                          *)
LEMMA ReceiveTurns ==
  ASSUME IInv, TurnsOK, Receive
  PROVE  /\ TurnsOK'
         /\ events'.cycle_completed /\ (events' # events \/ cycle' # cycle)
              => 1 .. count \subseteq turns'
<1>1. turns' = turns /\ Awaiting /\ ~Awaiting'
  BY DEF Receive, Awaiting, Idle
<1>2. CASE cycle' = cycle /\ events' = events
  BY <1>1, <1>2 DEF TurnsOK
<1>3. CASE ~(cycle' = cycle /\ events' = events)
  <2>1. /\ cycle # Completed /\ cycle' = NextIndex(cycle)
        /\ events'.cycle_completed = (NextIndex(cycle) = Completed)
    BY <1>3 DEF Receive
  <2>2. cycle \in Nat /\ cycle > 0 /\ count \in Nat
    BY <2>1, SlotsFromCycle DEF IInv, Slots
  <2>3. 1 .. cycle \subseteq turns
    BY <1>1, <2>1, <2>2 DEF TurnsOK
  <2>4. CASE cycle < count
    <3>1. cycle' = cycle + 1 /\ ~events'.cycle_completed
      <4>1. NextIndex(cycle) = cycle + 1
        BY <2>4 DEF NextIndex
      <4>2. NextIndex(cycle) # Completed
        BY <2>2, <4>1 DEF Completed
      <4> QED  BY <2>1, <4>1, <4>2
    <3> QED  BY <1>1, <2>2, <2>3, <3>1 DEF TurnsOK
  <2>5. CASE ~(cycle < count)
    <3>1. cycle' = Completed /\ 1 .. count \subseteq 1 .. cycle
      BY <2>1, <2>2, <2>5 DEF NextIndex
    <3> QED  BY <1>1, <2>3, <3>1 DEF TurnsOK
  <2> QED  BY <2>4, <2>5
<1> QED  BY <1>2, <1>3

(* Every step keeps the turns, and reports a cycle complete after all of    *)
(* them.                                                                    *)
LEMMA StepTurns ==
  ASSUME IInv, TurnsOK, [Next]_vars
  PROVE  /\ TurnsOK'
         /\ events'.cycle_completed /\ (events' # events \/ cycle' # cycle)
              => 1 .. count \subseteq turns'
<1>1. CASE TransmitAfterCycle
  BY <1>1 DEF TransmitAfterCycle, TurnsOK, Awaiting, NoEvents
<1>2. CASE ~TransmitCycle /\ ~Receive /\ ~TransmitAfterCycle
  BY <1>2, IndexRemains DEF TurnsOK, NoEvents
<1> QED  BY <1>1, <1>2, TransmitTurns, ReceiveTurns

(* When the master reports a cycle complete, every peripheral that was     *)
(* added had its turn in it: no slot is jumped over, whoever has nothing   *)
(* to send, is given up or added meanwhile, and whatever the program does. *)
THEOREM CyclesAreComplete == Spec => CycleVisitsAll
<1> DEFINE AllVisited == events'.cycle_completed /\ (events' # events \/ cycle' # cycle)
                           => 1 .. count \subseteq turns'
<1>1. Init => TurnsOK
  BY DEF Init, TurnsOK, Awaiting, Idle
<1>2. IInv /\ TurnsOK /\ [Next]_vars => TurnsOK' /\ [AllVisited]_vars
  BY StepTurns
<1> QED  BY <1>1, <1>2, Invariance, PTL DEF Spec, CycleVisitsAll

------------------------------------------------------------------------------
(* Coming and going *)

(* A reply lets a peripheral come or go only with the event that says so.  *)
LEMMA LiveReply ==
  ASSUME NEW p \in Peripherals, NEW t \in Replies,
         IsLive(p) # IsLive(ReceiveReply(p, t)[1])
  PROVE  ReceiveReply(p, t)[2] \in
           IF IsLive(ReceiveReply(p, t)[1]) THEN {"Online"}
                                            ELSE {"ParameterError", "ConfigError"}
<1> DEFINE Good(r) ==
             IsLive(p) # IsLive(r[1])
               => r[2] \in IF IsLive(r[1]) THEN {"Online"}
                                           ELSE {"ParameterError", "ConfigError"}
<1>1. ASSUME NEW s \in PeripheralStates
      PROVE  Answered(p, s).state = s
  BY DEF Answered, Peripherals
<1>2. Good(Unexpected(p))
  BY DEF Unexpected
<1>3. ASSUME IsLive(p), NEW s \in PeripheralStates, s # "Offline", NEW e
      PROVE  Good(<<Answered(p, s), e>>)
  BY <1>1, <1>3 DEF IsLive
<1>4. CASE p.state = "Offline"
  <2>1. ReceiveReply(p, t) = OfflineReply(p, t)
    BY <1>4 DEF ReceiveReply, Exchanging
  <2>2. Good(<<Answered(p, "WaitForParam"), "Online">>)
    BY <1>1 DEF IsLive, PeripheralStates
  <2>3. Good(OfflineReply(p, t))
    BY <1>2, <2>2 DEF OfflineReply
  <2> QED  BY <2>1, <2>3
<1>5. CASE p.state \in {"WaitForParam", "WaitForConfig"}
  <2>1. IsLive(p)
    BY <1>5 DEF IsLive
  <2>2. Good(ConfirmedReply(p, t, "WaitForConfig"))
        /\ Good(ConfirmedReply(p, t, "ValidateConfig"))
    BY <1>2, <1>3, <2>1 DEF ConfirmedReply, PeripheralStates
  <2> QED  BY <1>5, <2>2 DEF ReceiveReply, Exchanging
<1>6. CASE p.state = "ValidateConfig"
  <2>1. ReceiveReply(p, t) = ValidateReply(p, t)
    BY <1>6 DEF ReceiveReply, Exchanging
  <2>2. Good(<<[p EXCEPT !.retry_count = 0], NoEvent>>)
    BY DEF Peripherals, IsLive
  <2>3. Good(<<Answered(p, Verdict(t.flags)[1]), Verdict(t.flags)[2]>>)
    <3>1. /\ Verdict(t.flags)[1] \in PeripheralStates
          /\ Verdict(t.flags)[1] = "Offline"
               => Verdict(t.flags)[2] \in {"ParameterError", "ConfigError"}
      BY DEF Verdict, PeripheralStates
    <3>2. Answered(p, Verdict(t.flags)[1]).state = Verdict(t.flags)[1]
      BY <1>1, <3>1
    <3>3. IsLive(p)
      BY <1>6 DEF IsLive
    <3> QED  BY <3>1, <3>2, <3>3 DEF IsLive
  <2> QED  BY <2>1, <2>2, <2>3 DEF ValidateReply
<1>7. CASE Exchanging(p)
  <2>1. IsLive(p) /\ p.state \in PeripheralStates /\ p.state # "Offline"
    BY <1>7 DEF Exchanging, IsLive, PeripheralStates
  <2>2. ReceiveReply(p, t) = IF p.diag_needed THEN RequestedDiagnosticsReply(p, t)
                                              ELSE ExchangeReply(p, t)
    BY <1>7 DEF ReceiveReply, Exchanging
  <2>3. ASSUME NEW s \in PeripheralStates, s # "Offline", NEW d, NEW e
        PROVE  Good(<<[Answered(p, s) EXCEPT !.diag_needed = d], e>>)
    <3>1. [Answered(p, s) EXCEPT !.diag_needed = d].state = s
      BY <1>1, AnsweredType DEF Peripherals
    <3> QED  BY <2>1, <2>3, <3>1 DEF IsLive
  <2>4. Good(RequestedDiagnosticsReply(p, t))
    BY <1>2, <2>1, <2>3 DEF RequestedDiagnosticsReply
  <2>5. Good(ExchangeReply(p, t))
    BY <1>3, <2>1, <2>3 DEF ExchangeReply, PeripheralStates
  <2> QED  BY <2>2, <2>4, <2>5
<1> QED  BY <1>4, <1>5, <1>6, <1>7 DEF Peripherals, PeripheralStates, Exchanging

(* If the assertion of transmit_telegram() holds, all who are given up in  *)
(* one call are the same.                                                   *)
LEMMA OnlyOneLost ==
  ASSUME TypeOK, cycle # Completed, ~(Cardinality(Lost(cycle)) > 1),
         NEW j \in Lost(cycle), NEW k \in Lost(cycle)
  PROVE  j = k
<1> SUFFICES ASSUME j # k PROVE FALSE
  OBVIOUS
<1>1. Lost(cycle) \subseteq cycle .. count /\ IsFiniteSet(cycle .. count)
  BY SlotsFromCycle, FS_Interval DEF Lost, Passed
<1>2. IsFiniteSet(Lost(cycle)) /\ Cardinality(Lost(cycle)) \in Nat
  BY <1>1, FS_Subset, FS_CardinalityType
<1>3. Cardinality({j}) = 1 /\ IsFiniteSet({j})
  BY FS_Singleton
<1>4. Cardinality({j} \cup {k}) = Cardinality({j}) + 1
  BY <1>3, FS_AddElement
<1>5. Cardinality({j} \cup {k}) <= Cardinality(Lost(cycle))
  BY <1>2, FS_Subset
<1> QED  BY <1>2, <1>3, <1>4, <1>5

(* Sending leaves a peripheral where it is; one that sends nothing goes    *)
(* offline if it is given up.                                               *)
LEMMA LiveTransmit ==
  ASSUME NEW p \in Peripherals
  PROVE  /\ IsLive(Sent(p)) = IsLive(p)
         /\ IsLive(Skipped(p)) # IsLive(p) => GivesUp(p) /\ ~IsLive(Skipped(p))
<1>1. Sent(p).state = p.state
  BY DEF Sent, Peripherals
<1>2. Skipped(p).state = IF GivesUp(p) THEN "Offline" ELSE p.state
  BY DEF Skipped, Peripherals
<1> QED  BY <1>1, <1>2 DEF IsLive

(* A step in which a peripheral comes or goes is reported by its event,     *)
(* unless the program makes it.                                             *)
LEMMA StepReported ==
  ASSUME IInv, [Next]_vars, NEW k \in Slots, IsLive(slots[k]) # IsLive(slots'[k]),
         calls' = calls
  PROVE  /\ events'.peripheral.slot = k
         /\ events'.peripheral.event \in
              IF IsLive(slots'[k]) THEN {"Online"}
                                   ELSE {"Offline", "ParameterError", "ConfigError"}
<1>1. slots[k] \in Peripherals
  BY DEF IInv, TypeOK
<1>2. CASE TransmitCycle
  <2> DEFINE Changed == IF k \in Passed(cycle) THEN Skipped(slots[k]) ELSE slots[k]
  <2>1. cycle # Completed /\ ~(Cardinality(Lost(cycle)) > 1)
    BY <1>2 DEF TransmitCycle
  <2>2. /\ slots'[k] \in {Sent(slots[k]), Changed}
        /\ events'.peripheral = LostEvent(cycle)
    BY <1>2, <2>1 DEF TransmitCycle, TransmitNothing, TransmitRequest, Request, NoEvents
  <2>3. k \in Passed(cycle) /\ GivesUp(slots[k]) /\ ~IsLive(slots'[k])
    BY <1>1, <2>2, LiveTransmit
  <2>4. k \in Lost(cycle)
    BY <2>3 DEF Lost
  <2>5. LostEvent(cycle) = [slot |-> k, event |-> "Offline"]
    <3>1. PICK j \in Lost(cycle) : LostEvent(cycle) = [slot |-> j, event |-> "Offline"]
      BY <2>4 DEF LostEvent, Event, NoEvent
    <3> QED  BY <2>1, <2>4, <3>1, OnlyOneLost DEF IInv
  <2> QED  BY <2>2, <2>3, <2>5
<1>3. CASE Receive
  <2> DEFINE r == ReceiveReply(slots[cycle], bus.reply)
  <2>1. /\ slots' = [slots EXCEPT ![cycle] = r[1]] /\ cycle # Completed
        /\ events'.peripheral = Event(cycle, r[2])
    BY <1>3 DEF Receive
  <2>2. k = cycle /\ slots'[k] = r[1]
    BY <2>1 DEF IInv, TypeOK
  <2>3. bus.reply \in Replies
    BY DEF IInv, TypeOK, BusStates
  <2>4. r[2] \in IF IsLive(slots'[k]) THEN {"Online"} ELSE {"ParameterError", "ConfigError"}
    BY <1>1, <2>2, <2>3, LiveReply
  <2>5. Event(cycle, r[2]) = [slot |-> k, event |-> r[2]]
    BY <2>2, <2>4 DEF Event, NoEvent
  <2> QED  BY <2>1, <2>4, <2>5
<1>4. CASE ~TransmitCycle /\ ~Receive
  <2>1. slots' = slots
    <3>1. CASE TransmitStopped \/ TransmitGlobalControl \/ TransmitAfterCycle \/ Timeout
      BY <3>1 DEF TransmitStopped, TransmitGlobalControl, TransmitAfterCycle, Timeout,
                  masterVars
    <3>2. CASE Slave \/ Lose \/ \E a \in Addresses : Restart(a) \/ Forget(a)
      BY <3>2 DEF Slave, Repeat, Serve, Serves, Lose, Restart, Forget, masterVars
    <3>3. CASE Program
      <4>1. \A j \in Slots : ~RequestDiagnostics(j) /\ \A a \in Addresses : ~ResetAddress(j, a)
        <5>1. calls \in Nat
          BY MasterAssumption DEF IInv, TypeOK
        <5> QED  BY <5>1 DEF RequestDiagnostics, ResetAddress
      <4> QED  BY <3>3, <4>1 DEF Program, Add, EnterOperate, TakeLastEvents
    <3>4. CASE UNCHANGED vars
      BY <3>4 DEF vars, masterVars
    <3> QED  BY <1>4, <3>1, <3>2, <3>3, <3>4 DEF Next, Poll, Transmit
  <2> QED  BY <2>1
<1> QED  BY <1>2, <1>3, <1>4

(* A program that looks at the events after every poll knows who is live:  *)
(* unless it resets a peripheral itself, none comes or goes without its    *)
(* event, though a call of transmit_telegram() has room for one event only *)
(* and skips any number of peripherals.                                    *)
THEOREM ComingAndGoingReported == Spec => ComingAndGoingIsReported
<1> DEFINE Reported ==
             \A k \in Slots :
               IsLive(slots[k]) # IsLive(slots'[k]) /\ calls' = calls
                 => /\ events'.peripheral.slot = k
                    /\ events'.peripheral.event \in
                         IF IsLive(slots'[k]) THEN {"Online"}
                                              ELSE {"Offline", "ParameterError", "ConfigError"}
<1>1. IInv /\ [Next]_vars => [Reported]_vars
  BY StepReported
<1> QED  BY <1>1, Invariance, PTL DEF Spec, ComingAndGoingIsReported

------------------------------------------------------------------------------
(* Requests and their replies, for one peripheral *)

(* FrameCountBit::cycle makes the bit valid, and turns it. *)
LEMMA BitTurns ==
  ASSUME NEW f \in FrameCountBits
  PROVE  Valid(Cycle(f)) /\ Bit(Cycle(f)) # Bit(f)
BY DEF FrameCountBits, Valid, Cycle, Bit

(* The request of a peripheral is none of those its state relies on. *)
LEMMA RequestNotAccepted ==
  ASSUME NEW p \in Peripherals
  PROVE  RequestOf(p) \notin Accepted(p)
BY DEF RequestOf, Accepted, Exchanging, Peripherals, PeripheralStates

(* A request that is made for the first time is not served yet; one that is *)
(* repeated may be.                                                         *)
LEMMA SendKeeps ==
  ASSUME NEW p \in Peripherals, Sends(p), NEW s, NEW d, LiveOK(p, s, d)
  PROVE  LiveOK(Sent(p), s, IF p.retry_count = 0 THEN d \ {RequestOf(p)} ELSE d)
<1> DEFINE e == IF p.retry_count = 0 THEN d \ {RequestOf(p)} ELSE d
<1>1. /\ Sent(p).state = p.state /\ Sent(p).fcb = p.fcb /\ Sent(p).address = p.address
      /\ Sent(p).retry_count = p.retry_count + 1 /\ RequestOf(Sent(p)) = RequestOf(p)
  BY SentCounts DEF Sent, Peripherals
<1>2. p.retry_count \in Nat
  BY PeripheralAssumption DEF Peripherals
<1>3. Accepted(Sent(p)) \subseteq e
  <2>1. Accepted(Sent(p)) = Accepted(p)
    BY <1>1 DEF Accepted
  <2> QED  BY <2>1, RequestNotAccepted DEF LiveOK
<1>4. ASSUME s.last, s.bit = Bit(p.fcb)
      PROVE  Served(Sent(p), s.reply, e)
  <2>1. p.retry_count > 0 /\ Served(p, s.reply, d)
    BY <1>4 DEF LiveOK
  <2>2. e = d
    BY <2>1
  <2> QED  BY <1>1, <2>1, <2>2 DEF Served
<1>5. Sent(p).retry_count > 0
  BY <1>1, <1>2
<1>6. ~(p.address \in Unconfigured /\ p.state \in {"WaitForParam", "WaitForConfig"})
  BY DEF Sends
<1> HIDE DEF e
<1>7. LiveOK(Sent(p), s, e)
  BY <1>1, <1>3, <1>4, <1>5, <1>6 DEF LiveOK
<1> QED  BY <1>7 DEF e

(* A peripheral with nothing to send is given up, or it waits for nothing. *)
LEMMA SkipKeeps ==
  ASSUME NEW p \in Peripherals, ~Sends(p), NEW s, NEW d, LiveOK(p, s, d), IsLive(p)
  PROVE  IsLive(Skipped(p)) => LiveOK(Skipped(p), s, d)
<1>1. CASE GivesUp(p)
  BY <1>1, LiveTransmit, SkippedType DEF Skipped, IsLive, Peripherals
<1>2. CASE ~GivesUp(p)
  <2>1. p.retry_count = 0
    BY <1>2 DEF Sends, LiveOK, IsLive
  <2>2. Skipped(p) = p
    BY <1>2, <2>1 DEF Skipped, Peripherals
  <2> QED  BY <2>2
<1> QED  BY <1>1, <1>2

(* A slave serves the request: it remembers the bit and the answer. *)
LEMMA ServeKeeps ==
  ASSUME NEW p \in Peripherals, p.retry_count > 0, NEW s, NEW d, LiveOK(p, s, d),
         NEW x, NEW t, x.reply = t, NEW e, d \subseteq e, Served(p, t, e)
  PROVE  LiveOK(p, x, e)
BY DEF LiveOK

(* The peripheral takes its reply: the bit that its slave remembers is not  *)
(* the next one's, and the slave has accepted what the next state needs.    *)
LEMMA ReplyKeeps ==
  ASSUME NEW p \in Peripherals, NEW t \in Replies, NEW s, NEW d,
         s.last => s.bit = Bit(p.fcb),
         IsLive(p) => LiveOK(p, s, d) /\ Served(p, t, d)
  PROVE  /\ IsLive(ReceiveReply(p, t)[1]) => LiveOK(ReceiveReply(p, t)[1], s, d)
         /\ Obtained(ReceiveReply(p, t)[2]) \subseteq d
<1> DEFINE Good(r) == (IsLive(r[1]) => LiveOK(r[1], s, d)) /\ Obtained(r[2]) \subseteq d
<1>1. p.fcb \in FrameCountBits /\ p.state \in PeripheralStates
  BY DEF Peripherals
<1>2. ASSUME NEW q, q.retry_count = 0, q.fcb = Cycle(p.fcb), Accepted(q) \subseteq d
      PROVE  LiveOK(q, s, d)
  BY <1>1, <1>2, BitTurns DEF LiveOK
<1>3. ASSUME NEW state
      PROVE  /\ Answered(p, state).retry_count = 0
             /\ Answered(p, state).fcb = Cycle(p.fcb)
             /\ Answered(p, state).state = state
  BY DEF Answered, Peripherals
<1>4. Good(Unexpected(p))
  BY DEF Unexpected, Obtained, NoEvent
<1>5. CASE p.state = "Offline"
  <2>1. ReceiveReply(p, t) = OfflineReply(p, t)
    BY <1>5 DEF ReceiveReply, Exchanging
  <2>2. Accepted(Answered(p, "WaitForParam")) \subseteq d
    BY <1>3 DEF Accepted
  <2>3. Good(<<Answered(p, "WaitForParam"), "Online">>)
    BY <1>2, <1>3, <2>2 DEF Obtained
  <2> QED  BY <1>4, <2>1, <2>3 DEF OfflineReply
<1>6. CASE p.state = "WaitForParam"
  <2>1. ReceiveReply(p, t) = ConfirmedReply(p, t, "WaitForConfig")
    BY <1>6 DEF ReceiveReply, Exchanging
  <2>2. t.kind = "Confirmation" => "SetPrm" \in d
    BY <1>6 DEF Served, RequestOf, Exchanging, IsLive
  <2>3. ASSUME t.kind = "Confirmation"
        PROVE  Good(<<Answered(p, "WaitForConfig"), NoEvent>>)
    <3>1. Accepted(Answered(p, "WaitForConfig")) \subseteq d
      BY <1>3, <2>2, <2>3 DEF Accepted
    <3> QED  BY <1>2, <1>3, <3>1 DEF Obtained, NoEvent
  <2> QED  BY <1>4, <2>1, <2>3 DEF ConfirmedReply
<1>7. CASE p.state = "WaitForConfig"
  <2>1. ReceiveReply(p, t) = ConfirmedReply(p, t, "ValidateConfig")
    BY <1>7 DEF ReceiveReply, Exchanging
  <2>2. t.kind = "Confirmation" => {"SetPrm", "ChkCfg"} \subseteq d
    BY <1>7 DEF Served, LiveOK, Accepted, RequestOf, Exchanging, IsLive
  <2>3. ASSUME t.kind = "Confirmation"
        PROVE  Good(<<Answered(p, "ValidateConfig"), NoEvent>>)
    <3>1. Accepted(Answered(p, "ValidateConfig")) \subseteq d
      BY <1>3, <2>2, <2>3 DEF Accepted
    <3> QED  BY <1>2, <1>3, <3>1 DEF Obtained, NoEvent
  <2> QED  BY <1>4, <2>1, <2>3 DEF ConfirmedReply
<1>8. CASE p.state = "ValidateConfig"
  <2> DEFINE v == Verdict(t.flags)
  <2>1. ReceiveReply(p, t) = ValidateReply(p, t)
    BY <1>8 DEF ReceiveReply, Exchanging
  <2>2. t.kind = "Diagnostics" /\ {"SetPrm", "ChkCfg"} \subseteq d
    BY <1>8 DEF Served, Answers, LiveOK, Accepted, RequestOf, Exchanging, IsLive
  <2>3. v[2] \in {"ParameterError", "ConfigError", NoEvent, "Configured"}
    BY DEF Verdict
  <2>4. Accepted(Answered(p, v[1])) \subseteq d
    BY <2>2 DEF Accepted
  <2>5. Obtained(v[2]) \subseteq d
    BY <2>2, <2>3 DEF Obtained, NoEvent
  <2> HIDE DEF v
  <2>6. Good(<<Answered(p, v[1]), v[2]>>)
    BY <1>2, <1>3, <2>4, <2>5
  <2> QED  BY <2>1, <2>2, <2>6 DEF ValidateReply, v
<1>9. CASE Exchanging(p) /\ p.diag_needed
  <2>1. ReceiveReply(p, t) = RequestedDiagnosticsReply(p, t)
    BY <1>9 DEF ReceiveReply, Exchanging
  <2> DEFINE q == [Answered(p, p.state) EXCEPT !.diag_needed = FALSE]
  <2>2. /\ q.retry_count = 0 /\ q.fcb = Cycle(p.fcb) /\ q.state = p.state
    BY <1>1, <1>3, AnsweredType DEF Peripherals
  <2>3. "GetDiag" \in d /\ Accepted(p) \subseteq d
    BY <1>9 DEF Served, LiveOK, RequestOf, Exchanging, IsLive
  <2>4. Accepted(q) \subseteq d
    BY <2>2, <2>3 DEF Accepted
  <2> HIDE DEF q
  <2>5. Good(<<q, "Diagnostics">>)
    BY <1>2, <2>2, <2>3, <2>4 DEF Obtained
  <2> QED  BY <1>4, <2>1, <2>5 DEF RequestedDiagnosticsReply, q
<1>10. CASE Exchanging(p) /\ ~p.diag_needed
  <2>1. ReceiveReply(p, t) = ExchangeReply(p, t)
    BY <1>10 DEF ReceiveReply, Exchanging
  <2>2. /\ {"SetPrm", "ChkCfg"} \subseteq d
        /\ t.kind # "Refusal" => "Exchange" \in d
    BY <1>10 DEF Served, LiveOK, Accepted, RequestOf, Exchanging, IsLive
  <2>3. ASSUME NEW state \in {"ValidateConfig", "PreDataExchange", "DataExchange"},
               NEW high \in BOOLEAN
        PROVE  /\ LiveOK(Answered(p, state), s, d)
               /\ LiveOK([Answered(p, state) EXCEPT !.diag_needed = high], s, d)
    <3> DEFINE q == [Answered(p, state) EXCEPT !.diag_needed = high]
    <3>1. state \in PeripheralStates
      BY DEF PeripheralStates
    <3>2. q.retry_count = 0 /\ q.fcb = Cycle(p.fcb) /\ q.state = state
      BY <1>3, <3>1, AnsweredType DEF Peripherals
    <3>3. Accepted(Answered(p, state)) \subseteq d /\ Accepted(q) \subseteq d
      BY <1>3, <2>2, <3>2 DEF Accepted
    <3> HIDE DEF q
    <3>4. LiveOK(Answered(p, state), s, d) /\ LiveOK(q, s, d)
      BY <1>2, <1>3, <3>2, <3>3
    <3> QED  BY <3>4 DEF q
  <2>4. t.high \in BOOLEAN
    BY DEF Replies
  <2>5. Good(<<Answered(p, "ValidateConfig"), NoEvent>>) /\ Good(<<Answered(p, p.state), NoEvent>>)
    BY <1>10, <2>3 DEF Obtained, NoEvent, Exchanging
  <2>6. t.kind # "Refusal"
          => Good(<<[Answered(p, "DataExchange") EXCEPT !.diag_needed = t.high],
                    "DataExchanged">>)
    BY <2>2, <2>3, <2>4 DEF Obtained
  <2> QED  BY <2>1, <2>5, <2>6 DEF ExchangeReply
<1> QED  BY <1>1, <1>5, <1>6, <1>7, <1>8, <1>9, <1>10 DEF PeripheralStates, Exchanging

------------------------------------------------------------------------------
(* The steps of the master, the slaves and the program *)

(* Who waits for an answer, with a careful program. *)
LEMMA Asked ==
  ASSUME IInv, Careful, Awaiting
  PROVE  /\ cycle \in Slots /\ slots[cycle] \in Peripherals /\ cycle # Completed
         /\ bus.address \in Addresses /\ slots[cycle].address = bus.address
         /\ slots[cycle].retry_count > 0
         /\ bus.phase # "Silent" => RequestOf(slots[cycle]) = bus.request
BY MasterAssumption DEF IInv, OwedToCycle, AskedIsSlave, TypeOK, Slots, Completed

(* Steps that leave the addresses of the peripherals leave them different. *)
LEMMA AddressesRemain ==
  ASSUME OwnAddresses, \A k \in Slots : slots'[k].address = slots[k].address
  PROVE  OwnAddresses'
BY DEF OwnAddresses

(* Steps that leave peripherals and slaves, and bring neither request nor   *)
(* reply, keep the invariant.                                               *)
LEMMA ReportRemains ==
  ASSUME ReportInv, UNCHANGED <<slots, slave, done>>,
         (bus' = bus /\ cycle' = cycle) \/ bus'.phase \notin {"Request", "Reply"}
  PROVE  ReportInv'
<1>1. OwnAddresses' /\ PeripheralsOK' /\ ParametersKept'
  BY DEF ReportInv, OwnAddresses, PeripheralsOK, ParametersKept
<1>2. BusOK'
  BY DEF ReportInv, BusOK
<1> QED  BY <1>1, <1>2 DEF ReportInv

(* Those that are jumped over have nothing to send. *)
LEMMA PassedKeeps ==
  ASSUME IInv, ReportInv, cycle # Completed, NEW j \in Slots
  PROVE  LET p == IF j \in Passed(cycle) THEN Skipped(slots[j]) ELSE slots[j] IN
         /\ p.address = slots[j].address
         /\ IsLive(p) => LiveOK(p, slave[slots[j].address], done[slots[j].address])
<1>1. slots[j] \in Peripherals
  BY DEF IInv, TypeOK
<1>2. IsLive(slots[j]) => LiveOK(slots[j], slave[slots[j].address], done[slots[j].address])
  BY DEF ReportInv, PeripheralsOK
<1>3. CASE j \in Passed(cycle)
  <2>1. ~Sends(slots[j])
    <3>1. j \in Nat
      BY DEF Slots
    <3>2. j \notin Senders(cycle) /\ j \in cycle .. count
      BY <1>3, <3>1 DEF Passed
    <3> QED  BY <3>2 DEF Senders
  <2>2. IsLive(Skipped(slots[j])) => IsLive(slots[j])
    BY <1>1, LiveTransmit
  <2> QED  BY <1>1, <1>2, <1>3, <2>1, <2>2, SkipKeeps, SkippedType
<1>4. CASE j \notin Passed(cycle)
  BY <1>2, <1>4
<1> QED  BY <1>3, <1>4

(* A call that sends nothing skips peripherals only. *)
LEMMA TransmitNothingReports ==
  ASSUME IInv, ReportInv, cycle # Completed, ~Awaiting, TransmitNothing(cycle),
         slave' = slave
  PROVE  ReportInv'
<1>1. /\ done' = done /\ bus' = bus
      /\ \A j \in Slots : slots'[j] = IF j \in Passed(cycle) THEN Skipped(slots[j]) ELSE slots[j]
  BY DEF TransmitNothing
<1>2. OwnAddresses'
  BY <1>1, PassedKeeps, AddressesRemain DEF ReportInv
<1>3. PeripheralsOK'
  BY <1>1, PassedKeeps DEF PeripheralsOK
<1>4. BusOK' /\ ParametersKept'
  BY <1>1 DEF ReportInv, BusOK, ParametersKept, Awaiting
<1> QED  BY <1>2, <1>3, <1>4 DEF ReportInv

(* A call that sends skips peripherals up to the one whose request it is;   *)
(* what was served of a new request is forgotten.                           *)
LEMMA TransmitRequestReports ==
  ASSUME IInv, ReportInv, cycle # Completed, NEW k \in Senders(cycle),
         TransmitRequest(cycle, k), slave' = slave
  PROVE  ReportInv'
<1> DEFINE p == slots[k]
           e == IF p.retry_count = 0 THEN done[p.address] \ {RequestOf(p)}
                                     ELSE done[p.address]
<1>1. k \in Slots /\ p \in Peripherals /\ Sends(p) /\ p.address \in Addresses
  BY SlotsFromCycle DEF IInv, TypeOK, Senders, Peripherals
<1>2. slots'[k] = Sent(p) /\ Sent(p).address = p.address /\ Sent(p).fcb = p.fcb
  <2>1. slots'[k] = Sent(p)
    BY <1>1 DEF TransmitRequest, Request
  <2>2. Sent(p).fcb = p.fcb
    BY <1>1 DEF Sent, Peripherals
  <2> QED  BY <1>1, <2>1, <2>2, SentCounts
<1>3. \A j \in Slots :
        j # k => slots'[j] = IF j \in Passed(cycle) THEN Skipped(slots[j]) ELSE slots[j]
  BY DEF TransmitRequest, Request
<1>4. done' = [done EXCEPT ![p.address] = e]
  BY DEF TransmitRequest, Request
<1>5. done'[p.address] = e /\ \A a \in Addresses : a # p.address => done'[a] = done[a]
  BY <1>1, <1>4 DEF IInv, TypeOK
<1>6. OwnAddresses'
  <2>1. \A j \in Slots : slots'[j].address = slots[j].address
    BY <1>2, <1>3, PassedKeeps
  <2> QED  BY <2>1, AddressesRemain DEF ReportInv
<1>7. PeripheralsOK'
  <2> SUFFICES ASSUME NEW j \in Slots, IsLive(slots'[j])
               PROVE  LiveOK(slots'[j], slave[slots'[j].address], done'[slots'[j].address])
    BY DEF PeripheralsOK
  <2>1. CASE j = k
    <3>1. IsLive(p)
      BY <1>1, <1>2, <2>1, LiveTransmit
    <3>2. LiveOK(p, slave[p.address], done[p.address])
      BY <1>1, <3>1 DEF ReportInv, PeripheralsOK
    <3>3. LiveOK(Sent(p), slave[p.address], e)
      BY <1>1, <3>2, SendKeeps
    <3> QED  BY <1>2, <1>5, <2>1, <3>3
  <2>2. CASE j # k
    <3>1. slots[j].address \in Addresses /\ slots[j].address # p.address
      BY <1>1, <2>2 DEF IInv, TypeOK, Peripherals, ReportInv, OwnAddresses
    <3> QED  BY <1>3, <1>5, <2>2, <3>1, PassedKeeps
  <2> QED  BY <2>1, <2>2
<1>8. BusOK'
  <2>1. bus' = BusOf("Request", p, Confirmation) /\ cycle' = k
    BY DEF TransmitRequest, Request
  <2> QED  BY <1>2, <2>1 DEF BusOK, BusOf
<1>9. ParametersKept'
  <2>1. \A a \in Addresses : done'[a] \subseteq done[a]
    BY <1>5
  <2> QED  BY <2>1 DEF ReportInv, ParametersKept
<1> QED  BY <1>6, <1>7, <1>8, <1>9 DEF ReportInv

(* The loop over the peripherals keeps the invariant however it ends. *)
LEMMA TransmitCycleReports ==
  ASSUME IInv, ReportInv, TransmitCycle
  PROVE  ReportInv'
<1>1. cycle # Completed /\ ~Awaiting /\ slave' = slave
  BY DEF TransmitCycle
<1>2. CASE Cardinality(Lost(cycle)) > 1
  BY <1>2, ReportRemains DEF TransmitCycle, historyVars
<1>3. CASE TransmitNothing(cycle)
  BY <1>1, <1>3, TransmitNothingReports
<1>4. CASE Senders(cycle) # {} /\ TransmitRequest(cycle, Min(Senders(cycle)))
  <2>1. Min(Senders(cycle)) \in Senders(cycle)
    BY <1>1, <1>4, SlotsFromCycle, FirstSender DEF IInv
  <2> QED  BY <1>1, <1>4, <2>1, TransmitRequestReports
<1> QED  BY <1>2, <1>3, <1>4 DEF TransmitCycle

(* The reply comes to its peripheral, which takes it for what it is. *)
LEMMA ReceiveReports ==
  ASSUME IInv, Careful, ReportInv, Receive
  PROVE  /\ ReportInv'
         /\ events'.peripheral # Nothing
              => Obtained(events'.peripheral.event)
                   \subseteq done[slots[events'.peripheral.slot].address]
<1> DEFINE p == slots[cycle]
           s == slave[bus.address]
           d == done[bus.address]
           r == ReceiveReply(p, bus.reply)
<1>1. bus.phase = "Reply" /\ Awaiting
  BY DEF Receive, Awaiting
<1>2. /\ cycle \in Slots /\ p \in Peripherals /\ cycle # Completed
      /\ p.address = bus.address /\ bus.reply \in Replies
  BY <1>1, Asked DEF IInv, TypeOK, BusStates
<1>3. /\ slots' = [slots EXCEPT ![cycle] = r[1]]
      /\ events'.peripheral = Event(cycle, r[2])
      /\ slave' = slave /\ done' = done /\ bus' = Idle
  BY <1>2 DEF Receive
<1>4. /\ s.last => s.bit = Bit(p.fcb)
      /\ IsLive(p) => LiveOK(p, s, d) /\ Served(p, bus.reply, d)
  BY <1>1, <1>2 DEF ReportInv, BusOK, PeripheralsOK
<1>5. (IsLive(r[1]) => LiveOK(r[1], s, d)) /\ Obtained(r[2]) \subseteq d
  BY <1>2, <1>4, ReplyKeeps
<1>6. r[1].address = p.address
  BY <1>2, ReplyTaken
<1>7. slots'[cycle] = r[1] /\ \A j \in Slots : j # cycle => slots'[j] = slots[j]
  BY <1>2, <1>3 DEF IInv, TypeOK
<1> HIDE DEF r
<1>8. OwnAddresses'
  <2>1. \A j \in Slots : slots'[j].address = slots[j].address
    BY <1>6, <1>7
  <2> QED  BY <2>1, AddressesRemain DEF ReportInv
<1>9. PeripheralsOK'
  <2> SUFFICES ASSUME NEW j \in Slots, IsLive(slots'[j])
               PROVE  LiveOK(slots'[j], slave[slots'[j].address], done[slots'[j].address])
    BY <1>3 DEF PeripheralsOK
  <2>1. CASE j = cycle
    BY <1>2, <1>5, <1>6, <1>7, <2>1
  <2>2. CASE j # cycle
    BY <1>7, <2>2 DEF ReportInv, PeripheralsOK
  <2> QED  BY <2>1, <2>2
<1>10. BusOK' /\ ParametersKept'
  BY <1>3 DEF BusOK, Idle, ReportInv, ParametersKept
<1>11. events'.peripheral # Nothing
         => Obtained(events'.peripheral.event)
              \subseteq done[slots[events'.peripheral.slot].address]
  BY <1>2, <1>3, <1>5 DEF Event
<1> QED  BY <1>8, <1>9, <1>10, <1>11 DEF ReportInv

(* A repeated request is answered as it was, which is what is asked for. *)
LEMMA RepeatReports ==
  ASSUME IInv, Careful, ReportInv, Repeat
  PROVE  ReportInv'
<1> DEFINE s == slave[bus.address]
<1>1. /\ bus.phase = "Request" /\ s.last /\ s.bit = Bit(bus.fcb)
      /\ bus' = [bus EXCEPT !.phase = "Reply", !.reply = s.reply]
      /\ UNCHANGED <<slots, cycle, slave, done>>
  BY DEF Repeat, IsRepetition, Reply, masterVars, historyVars
<1>2. cycle \in Slots /\ slots[cycle].address = bus.address /\ bus \in BusStates
  BY <1>1, Asked DEF Awaiting, IInv, TypeOK
<1>3. /\ bus'.phase = "Reply" /\ bus'.reply = s.reply /\ bus'.fcb = bus.fcb
      /\ bus'.address = bus.address
  BY <1>1, <1>2 DEF BusStates
<1>4. bus.fcb = slots[cycle].fcb
  BY <1>1 DEF ReportInv, BusOK
<1>5. IsLive(slots[cycle]) => Served(slots[cycle], s.reply, done[bus.address])
  BY <1>1, <1>2, <1>4 DEF ReportInv, PeripheralsOK, LiveOK
<1>6. BusOK'
  BY <1>1, <1>3, <1>4, <1>5 DEF BusOK
<1>7. OwnAddresses' /\ PeripheralsOK' /\ ParametersKept'
  BY <1>1 DEF ReportInv, OwnAddresses, PeripheralsOK, ParametersKept
<1> QED  BY <1>6, <1>7 DEF ReportInv

(* A new request with the outcome x, t: an answer that fits it, or a       *)
(* refusal of a slave that is not ready.                                    *)
LEMMA ServesReports ==
  ASSUME IInv, Careful, ReportInv, NEW x \in Slaves, NEW t \in Replies,
         Serves(<<x, t>>),
         IsLive(slots[cycle]) => Served(slots[cycle], t, done'[bus.address]),
         bus.address \notin Troubled /\ "SetPrm" \in done'[bus.address]
           => x.state # "WaitPrm"
  PROVE  ReportInv'
<1> DEFINE y == Remembering(x, t)
           a == bus.address
<1>1. /\ bus.phase = "Request" /\ bus' = [bus EXCEPT !.phase = "Reply", !.reply = t]
      /\ slave' = [slave EXCEPT ![a] = y]
      /\ slots' = slots /\ cycle' = cycle
  BY DEF Serves, Reply, masterVars
<1>2. /\ cycle \in Slots /\ slots[cycle].address = a /\ a \in Addresses
      /\ slots[cycle] \in Peripherals /\ slots[cycle].retry_count > 0
      /\ bus \in BusStates
  BY <1>1, Asked DEF Awaiting, IInv, TypeOK
<1>3. y.bit = Bit(bus.fcb) /\ y.reply = t /\ y.state = x.state
  BY DEF Remembering, Slaves
<1>4. slave'[a] = y /\ \A b \in Addresses : b # a => slave'[b] = slave[b]
  BY <1>1, <1>2 DEF IInv, TypeOK
<1>5. done[a] \subseteq done'[a] /\ \A b \in Addresses : b # a => done'[b] = done[b]
  BY <1>2 DEF Serves, IInv, TypeOK
<1>6. /\ bus'.phase = "Reply" /\ bus'.reply = t /\ bus'.fcb = bus.fcb
      /\ bus'.address = a
  BY <1>1, <1>2 DEF BusStates
<1> HIDE DEF y
<1>7. OwnAddresses'
  BY <1>1, AddressesRemain DEF ReportInv
<1>8. PeripheralsOK'
  <2> SUFFICES ASSUME NEW j \in Slots, IsLive(slots[j])
               PROVE  LiveOK(slots[j], slave'[slots[j].address], done'[slots[j].address])
    BY <1>1 DEF PeripheralsOK
  <2>1. LiveOK(slots[j], slave[slots[j].address], done[slots[j].address])
    BY DEF ReportInv, PeripheralsOK
  <2>2. CASE j = cycle
    BY <1>2, <1>3, <1>4, <1>5, <2>1, <2>2, ServeKeeps
  <2>3. CASE j # cycle
    <3>1. slots[j].address \in Addresses /\ slots[j].address # a
      BY <1>2, <2>3 DEF IInv, TypeOK, Peripherals, ReportInv, OwnAddresses
    <3> QED  BY <1>4, <1>5, <2>1, <3>1
  <2> QED  BY <2>2, <2>3
<1>9. BusOK'
  <2>1. bus.fcb = slots[cycle].fcb
    BY <1>1 DEF ReportInv, BusOK
  <2> QED  BY <1>1, <1>3, <1>4, <1>6, <2>1 DEF BusOK
<1>10. ParametersKept'
  <2> SUFFICES ASSUME NEW b \in Addresses \ Troubled, "SetPrm" \in done'[b]
               PROVE  slave'[b].state # "WaitPrm"
    BY DEF ParametersKept
  <2>1. CASE b = a
    BY <1>3, <1>4, <2>1
  <2>2. CASE b # a
    BY <1>4, <1>5, <2>2 DEF ReportInv, ParametersKept
  <2> QED  BY <2>1, <2>2
<1> QED  BY <1>7, <1>8, <1>9, <1>10 DEF ReportInv

(* A slave serves a new request, repeats the last reply, or refuses. *)
LEMMA ServeReports ==
  ASSUME IInv, Careful, ReportInv, Serve
  PROVE  ReportInv'
<1> DEFINE a == bus.address
           s == slave[a]
           p == slots[cycle]
<1>1. bus.phase = "Request"
  BY DEF Serve, Serves
<1>2. /\ cycle \in Slots /\ p \in Peripherals /\ p.address = a /\ a \in Addresses
      /\ RequestOf(p) = bus.request /\ s \in Slaves /\ bus.request \in Requests
  BY <1>1, Asked, RequestType DEF Awaiting, IInv, TypeOK
<1>3. ASSUME NEW x \in Slaves, NEW t \in Replies, Serves(<<x, t>>), t.kind # "Refusal",
             Answers(a, bus.request, t),
             a \notin Troubled /\ x.state = "WaitPrm"
               => s.state = "WaitPrm" /\ bus.request # "SetPrm"
      PROVE  ReportInv'
  <2>1. done'[a] = done[a] \cup {bus.request}
    BY <1>2, <1>3 DEF Serves, IInv, TypeOK
  <2>2. Served(p, t, done'[a])
    BY <1>2, <1>3, <2>1 DEF Served
  <2>3. a \notin Troubled /\ "SetPrm" \in done'[a] => x.state # "WaitPrm"
    BY <1>2, <1>3, <2>1 DEF ReportInv, ParametersKept
  <2> QED  BY <1>3, <2>2, <2>3, ServesReports
<1>4. ASSUME Serves(Refused(s)),
             bus.request = "Exchange" \/ (bus.request = "ChkCfg" /\ s.state = "WaitPrm")
      PROVE  ReportInv'
  <2>1. done' = done /\ Serves(<<s, Refusal>>)
    BY <1>4 DEF Serves, Refused, Refusal
  <2>2. a \notin Troubled /\ "SetPrm" \in done'[a] => s.state # "WaitPrm"
    BY <1>2, <2>1 DEF ReportInv, ParametersKept
  <2>3. IsLive(p) => Served(p, Refusal, done'[a])
    <3> SUFFICES ASSUME IsLive(p), bus.request = "ChkCfg", s.state = "WaitPrm"
                 PROVE  p.address \in Troubled
      BY <1>2, <1>4 DEF Served, Refusal
    <3>1. p.state = "WaitForConfig"
      BY <1>2 DEF RequestOf, Exchanging, Peripherals, PeripheralStates
    <3>2. LiveOK(p, s, done[a])
      BY <1>2 DEF ReportInv, PeripheralsOK
    <3>3. "SetPrm" \in done[a]
      BY <3>1, <3>2 DEF LiveOK, Accepted
    <3> QED  BY <1>2, <2>1, <2>2, <3>3
  <2>4. Refusal \in Replies
    BY DEF Refusal, Replies
  <2> QED  BY <1>2, <2>1, <2>2, <2>3, <2>4, ServesReports
<1>5. \A b \in BOOLEAN :
        {DiagnosticsOf(s), Confirmation, InputData(b)} \subseteq Replies
  BY <1>2, OutcomeTypes
<1>6. CASE bus.request = "GetDiag" /\ Serves(Diagnosed(s))
  <2>1. [s EXCEPT !.busy = FALSE] \in Slaves /\ [s EXCEPT !.busy = FALSE].state = s.state
    BY <1>2 DEF Slaves
  <2>2. DiagnosticsOf(s).kind = "Diagnostics"
    BY DEF DiagnosticsOf, Diagnostics
  <2> QED  BY <1>3, <1>5, <1>6, <2>1, <2>2 DEF Diagnosed, Answers
<1>7. CASE bus.request = "SetPrm" /\ Serves(Parameterised(s))
  <2> DEFINE x == [s EXCEPT !.state = "WaitCfg", !.fault = Faultless]
  <2>1. x \in Slaves /\ x.state = "WaitCfg"
    BY <1>2, OutcomeTypes DEF Slaves
  <2>2. Serves(<<x, Confirmation>>)
    BY <1>7 DEF Parameterised
  <2> HIDE DEF x
  <2> QED  BY <1>3, <1>5, <1>7, <2>1, <2>2 DEF Answers, Confirmation
<1>8. ASSUME NEW b \in BOOLEAN, bus.request = "ChkCfg", Serves(Configured(s, b))
      PROVE  ReportInv'
  <2> DEFINE x == [s EXCEPT !.state = "Data", !.busy = b]
  <2>1. x \in Slaves /\ x.state = "Data"
    BY <1>2, OutcomeTypes DEF Slaves
  <2>2. Serves(<<x, Confirmation>>)
    BY <1>8 DEF Configured
  <2> HIDE DEF x
  <2> QED  BY <1>3, <1>5, <1>8, <2>1, <2>2 DEF Answers, Confirmation
<1>9. ASSUME NEW b \in BOOLEAN, bus.request = "Exchange", Serves(Exchanged(s, b)),
             s.state = "Data"
      PROVE  ReportInv'
  <2> DEFINE t == IF a \in Inputs THEN InputData(b) ELSE Confirmation
  <2>1. t \in Replies /\ t.kind = IF a \in Inputs THEN "Inputs" ELSE "Confirmation"
    BY <1>5 DEF InputData, Confirmation
  <2>2. Serves(<<s, t>>)
    BY <1>9 DEF Exchanged
  <2> HIDE DEF t
  <2> QED  BY <1>2, <1>3, <1>9, <2>1, <2>2 DEF Answers
<1>10. ASSUME NEW f \in {"ParameterFault", "ConfigurationFault"},
              bus.request \in {"SetPrm", "ChkCfg"}, a \in Troubled, Serves(Rejected(s, f))
       PROVE  ReportInv'
  <2> DEFINE x == [s EXCEPT !.state = "WaitPrm", !.fault = f]
  <2>1. x \in Slaves
    BY <1>2, OutcomeTypes
  <2>2. Serves(<<x, Confirmation>>)
    BY <1>10 DEF Rejected
  <2> HIDE DEF x
  <2> QED  BY <1>3, <1>5, <1>10, <2>1, <2>2 DEF Answers, Confirmation
<1> QED  BY <1>4, <1>6, <1>7, <1>8, <1>9, <1>10 DEF Serve

(* A slave loses power, or forgets the peripheral that has given it up. *)
LEMMA RestartForgetReports ==
  ASSUME IInv, ReportInv, NEW a \in Addresses, Restart(a) \/ Forget(a)
  PROVE  ReportInv'
<1> DEFINE y == IF Restart(a) THEN NewSlave
                ELSE [slave[a] EXCEPT !.last = FALSE, !.bit = FALSE, !.reply = Confirmation]
<1>1. UNCHANGED <<slots, bus, cycle, done>>
  BY DEF Restart, Forget, masterVars, historyVars
<1>2. slave' = [slave EXCEPT ![a] = y]
  BY DEF Restart, Forget
<1>3. ~y.last /\ (a \notin Troubled => y.state = slave[a].state)
  BY DEF Restart, NewSlave, IInv, TypeOK, Slaves
<1>4. slave'[a] = y /\ \A b \in Addresses : b # a => slave'[b] = slave[b]
  BY <1>2 DEF IInv, TypeOK
<1> HIDE DEF y
<1>5. OwnAddresses'
  BY <1>1, AddressesRemain DEF ReportInv
<1>6. PeripheralsOK'
  <2> SUFFICES ASSUME NEW j \in Slots, IsLive(slots[j])
               PROVE  LiveOK(slots[j], slave'[slots[j].address], done[slots[j].address])
    BY <1>1 DEF PeripheralsOK
  <2>1. LiveOK(slots[j], slave[slots[j].address], done[slots[j].address])
    BY DEF ReportInv, PeripheralsOK
  <2>2. slots[j].address \in Addresses
    BY DEF IInv, TypeOK, Peripherals
  <2>3. CASE slots[j].address = a
    BY <1>3, <1>4, <2>1, <2>3 DEF LiveOK
  <2>4. CASE slots[j].address # a
    BY <1>4, <2>1, <2>2, <2>4
  <2> QED  BY <2>3, <2>4
<1>7. BusOK'
  <2>1. bus.phase = "Reply" => bus.address \in Addresses
    BY DEF IInv, AskedIsSlave, Awaiting
  <2> QED  BY <1>1, <1>3, <1>4, <2>1 DEF ReportInv, BusOK
<1>8. ParametersKept'
  BY <1>1, <1>3, <1>4 DEF ReportInv, ParametersKept
<1> QED  BY <1>5, <1>6, <1>7, <1>8 DEF ReportInv

(* A careful program touches a peripheral that waits for nothing: whatever *)
(* it makes of it, the one at the cycle's index is another while it does.  *)
LEMMA TouchReports ==
  ASSUME IInv, Careful, ReportInv, NEW k \in Slots, MayTouch(k), NEW p \in Peripherals,
         slots' = [slots EXCEPT ![k] = p], UNCHANGED <<bus, cycle, slave, done>>,
         IsLive(p) => LiveOK(p, slave[p.address], done[p.address]),
         \A j \in Slots : slots[j].address = p.address => j = k
  PROVE  ReportInv'
<1>1. slots'[k] = p /\ \A j \in Slots : j # k => slots'[j] = slots[j]
  BY DEF IInv, TypeOK
<1>2. OwnAddresses'
  BY <1>1 DEF ReportInv, OwnAddresses
<1>3. PeripheralsOK'
  BY <1>1 DEF ReportInv, PeripheralsOK
<1>4. BusOK'
  <2>1. Awaiting => cycle \in Slots /\ slots'[cycle] = slots[cycle]
    <3> SUFFICES ASSUME Awaiting PROVE cycle \in Slots /\ cycle # k
      BY <1>1
    <3>1. slots[k].retry_count = 0
      BY DEF MayTouch
    <3> QED  BY <3>1, Asked
  <2> QED  BY <2>1 DEF ReportInv, BusOK, Awaiting
<1>5. ParametersKept'
  BY DEF ReportInv, ParametersKept
<1> QED  BY <1>2, <1>3, <1>4, <1>5 DEF ReportInv

(* A careful program that adds, asks for diagnostics and resets keeps the   *)
(* invariant.                                                               *)
LEMMA ProgramReports ==
  ASSUME IInv, Careful, ReportInv, Program
  PROVE  ReportInv'
<1>1. CASE Add \/ EnterOperate \/ TakeLastEvents
  <2>1. UNCHANGED <<slots, bus, cycle, slave, done>>
    BY <1>1 DEF Add, EnterOperate, TakeLastEvents, historyVars
  <2> QED  BY <2>1, ReportRemains
<1>2. ASSUME NEW k \in Slots, RequestDiagnostics(k)
      PROVE  ReportInv'
  <2> DEFINE p == [slots[k] EXCEPT !.diag_needed = TRUE]
  <2>1. /\ p \in Peripherals /\ p.state = slots[k].state /\ p.fcb = slots[k].fcb
        /\ p.address = slots[k].address /\ p.retry_count = slots[k].retry_count
    BY DEF IInv, TypeOK, Peripherals
  <2>2. /\ MayTouch(k) /\ slots' = [slots EXCEPT ![k] = p]
        /\ UNCHANGED <<bus, cycle, slave, done>>
    BY <1>2 DEF RequestDiagnostics, historyVars
  <2> HIDE DEF p
  <2>3. IsLive(p) => LiveOK(p, slave[p.address], done[p.address])
    <3> SUFFICES ASSUME IsLive(p) PROVE LiveOK(p, slave[p.address], done[p.address])
      OBVIOUS
    <3>1. LiveOK(slots[k], slave[p.address], done[p.address])
      BY <2>1 DEF ReportInv, PeripheralsOK, IsLive
    <3>2. slots[k].retry_count = 0
      BY <2>2 DEF MayTouch
    <3>3. Accepted(p) = Accepted(slots[k])
      BY <2>1 DEF Accepted
    <3> QED  BY <2>1, <3>1, <3>2, <3>3 DEF LiveOK
  <2>4. \A j \in Slots : slots[j].address = p.address => j = k
    BY <2>1 DEF ReportInv, OwnAddresses
  <2> QED  BY <2>1, <2>2, <2>3, <2>4, TouchReports
<1>3. ASSUME NEW k \in Slots, NEW a \in Addresses, ResetAddress(k, a)
      PROVE  ReportInv'
  <2> DEFINE p == NewPeripheral(a)
  <2>1. p \in Peripherals /\ p.address = a /\ ~IsLive(p)
    BY NewPeripheralType DEF NewPeripheral, IsLive
  <2>2. /\ MayTouch(k) /\ slots' = [slots EXCEPT ![k] = p]
        /\ UNCHANGED <<bus, cycle, slave, done>>
        /\ \A j \in Slots : slots[j].address = a => j = k
    BY <1>3 DEF ResetAddress
  <2> HIDE DEF p
  <2> QED  BY <2>1, <2>2, TouchReports
<1> QED  BY <1>1, <1>2, <1>3 DEF Program

(* A new master has peripherals that are all offline. *)
LEMMA InitReports ==
  ASSUME DistinctOrder, Init
  PROVE  ReportInv
<1>1. \A k \in Slots : slots[k].address = Order[k] /\ slots[k].state = "Offline"
  <2>1. \A a : NewPeripheral(a).address = a /\ NewPeripheral(a).state = "Offline"
    BY DEF NewPeripheral
  <2> QED  BY <2>1 DEF Init
<1>2. OwnAddresses
  BY <1>1 DEF OwnAddresses, DistinctOrder
<1>3. PeripheralsOK
  BY <1>1 DEF PeripheralsOK, IsLive
<1>4. BusOK /\ ParametersKept
  BY DEF Init, BusOK, Idle, ParametersKept
<1> QED  BY <1>2, <1>3, <1>4 DEF ReportInv

(* Every step keeps the invariant, and what it reports has happened. *)
LEMMA StepReports ==
  ASSUME IInv, Careful, ReportInv, [Next]_vars
  PROVE  /\ ReportInv'
         /\ events' # events /\ events'.peripheral # Nothing
              => Obtained(events'.peripheral.event)
                   \subseteq done[slots[events'.peripheral.slot].address]
<1>1. CASE TransmitCycle
  <2>1. cycle # Completed /\ (events' = events \/ events'.peripheral = LostEvent(cycle))
    BY <1>1 DEF TransmitCycle, TransmitNothing, TransmitRequest, NoEvents
  <2>2. LostEvent(cycle) # Nothing => Obtained(LostEvent(cycle).event) = {}
    BY DEF LostEvent, Event, Obtained, NoEvent
  <2> QED  BY <1>1, <2>1, <2>2, TransmitCycleReports
<1>2. CASE Receive
  BY <1>2, ReceiveReports
<1>3. CASE ~TransmitCycle /\ ~Receive
  <2>1. events' = events \/ events' = NoEvents
    BY <1>3, IndexRemains DEF TransmitAfterCycle
  <2>2. CASE TransmitStopped \/ TransmitGlobalControl \/ TransmitAfterCycle \/ Timeout
    <3>1. UNCHANGED <<slots, slave, done>> /\ bus'.phase = "Idle"
      BY <2>2 DEF TransmitStopped, TransmitGlobalControl, TransmitAfterCycle, Timeout,
                  masterVars, historyVars, Awaiting, Idle
    <3>2. ReportInv'
      BY <3>1, ReportRemains
    <3> QED  BY <2>1, <3>2 DEF NoEvents
  <2>3. CASE Slave
    BY <2>1, <2>3, RepeatReports, ServeReports DEF Slave, NoEvents
  <2>4. CASE Program
    BY <2>1, <2>4, ProgramReports DEF NoEvents
  <2>5. CASE Lose
    <3>1. UNCHANGED <<slots, slave, done>> /\ bus'.phase = "Silent"
      BY <2>5 DEF Lose, masterVars, historyVars, Idle
    <3>2. ReportInv'
      BY <3>1, ReportRemains
    <3> QED  BY <2>1, <3>2 DEF NoEvents
  <2>6. CASE \E a \in Addresses : Restart(a) \/ Forget(a)
    BY <2>1, <2>6, RestartForgetReports DEF NoEvents
  <2>7. CASE UNCHANGED vars
    <3>1. UNCHANGED <<slots, slave, done, bus, cycle>>
      BY <2>7 DEF vars, masterVars, historyVars
    <3>2. ReportInv'
      BY <3>1, ReportRemains
    <3> QED  BY <2>1, <3>2 DEF NoEvents
  <2> QED  BY <1>3, <2>2, <2>3, <2>4, <2>5, <2>6, <2>7 DEF Next, Poll, Transmit
<1> QED  BY <1>1, <1>2, <1>3

(* With a careful program and peripherals of different addresses, an event *)
(* tells what has happened: "Configured" that the slave has accepted the   *)
(* parameters and the configuration, "DataExchanged" and "Diagnostics" that *)
(* it has served the very request, although requests and replies are lost  *)
(* and repeated, slaves lose power, and peripherals are reset.             *)
THEOREM EventsTellTheTruth ==
  ASSUME Careful, DistinctOrder
  PROVE  Spec => EventsAreTrue
<1> DEFINE True ==
             events' # events /\ events'.peripheral # Nothing
               => Obtained(events'.peripheral.event)
                    \subseteq done[slots[events'.peripheral.slot].address]
<1>1. Init => ReportInv
  BY InitReports
<1>2. IInv /\ ReportInv /\ [Next]_vars => ReportInv' /\ [True]_vars
  BY StepReports
<1> QED  BY <1>1, <1>2, Invariance, PTL DEF Spec, EventsAreTrue

------------------------------------------------------------------------------
(* Assertions *)

(* A reply is not taken, or it ends the retries. *)
LEMMA TakenOrNot ==
  ASSUME NEW p \in Peripherals, NEW t \in Replies
  PROVE  ReceiveReply(p, t)[1] = p \/ ReceiveReply(p, t)[1].retry_count = 0
<1> DEFINE Good(r) == r[1] = p \/ r[1].retry_count = 0
<1>1. p.state \in PeripheralStates
  BY DEF Peripherals
<1>2. ASSUME NEW s, NEW e
      PROVE  Good(<<Answered(p, s), e>>)
  BY DEF Answered, Peripherals
<1>3. Good(Unexpected(p))
  BY DEF Unexpected
<1>4. ASSUME NEW s \in PeripheralStates, NEW d, NEW e
      PROVE  Good(<<[Answered(p, s) EXCEPT !.diag_needed = d], e>>)
  BY AnsweredType DEF Peripherals
<1>5. CASE p.state = "Offline"
  BY <1>2, <1>3, <1>5 DEF ReceiveReply, Exchanging, OfflineReply
<1>6. CASE p.state = "WaitForParam"
  BY <1>2, <1>3, <1>6 DEF ReceiveReply, Exchanging, ConfirmedReply
<1>7. CASE p.state = "WaitForConfig"
  BY <1>2, <1>3, <1>7 DEF ReceiveReply, Exchanging, ConfirmedReply
<1>8. CASE p.state = "ValidateConfig"
  <2>1. Good(<<[p EXCEPT !.retry_count = 0], NoEvent>>)
    BY DEF Peripherals
  <2>2. Good(ValidateReply(p, t))
    BY <1>2, <2>1 DEF ValidateReply
  <2> QED  BY <1>8, <2>2 DEF ReceiveReply, Exchanging
<1>9. CASE Exchanging(p)
  <2>1. Good(RequestedDiagnosticsReply(p, t))
    BY <1>1, <1>3, <1>4 DEF RequestedDiagnosticsReply
  <2>2. Good(ExchangeReply(p, t))
    BY <1>2, <1>4 DEF ExchangeReply, PeripheralStates
  <2>3. ReceiveReply(p, t) = RequestedDiagnosticsReply(p, t)
        \/ ReceiveReply(p, t) = ExchangeReply(p, t)
    BY <1>9 DEF ReceiveReply, Exchanging
  <2> QED  BY <2>1, <2>2, <2>3
<1> QED  BY <1>1, <1>5, <1>6, <1>7, <1>8, <1>9 DEF PeripheralStates, Exchanging

(* What a slave without trouble answers ends the retries. *)
LEMMA ServedCounts ==
  ASSUME NEW p \in Peripherals, NEW t \in Replies, NEW d, Served(p, t, d),
         p.address \notin Troubled
  PROVE  ReceiveReply(p, t)[1].retry_count = 0
<1>1. CASE Answers(p.address, RequestOf(p), t)
  BY <1>1, ValidAnswerCounts
<1>2. CASE t.kind = "Refusal" /\ RequestOf(p) = "Exchange"
  <2>1. Exchanging(p) /\ ~p.diag_needed
    BY <1>2 DEF RequestOf, Exchanging, Peripherals, PeripheralStates
  <2>2. ReceiveReply(p, t)[1] = Answered(p, "ValidateConfig")
    BY <1>2, <2>1 DEF ReceiveReply, Exchanging, ExchangeReply
  <2> QED  BY <2>2, AnsweredType DEF PeripheralStates
<1> QED  BY <1>1, <1>2 DEF Served

(* A call of transmit_telegram() counts a retry for the peripheral that it  *)
(* asks, which is at the index then.                                        *)
LEMMA TransmitRetries ==
  ASSUME IInv, RetriesOK, TransmitCycle
  PROVE  RetriesOK'
<1>1. cycle # Completed /\ cycle \in Nat /\ count \in Nat
  BY SlotsFromCycle DEF TransmitCycle, IInv
<1>2. CASE UNCHANGED <<slots, cycle>>
  BY <1>2 DEF RetriesOK
<1>3. ASSUME NEW j \in Slots, slots'[j] = Skipped(slots[j])
      PROVE  slots'[j].retry_count = 0
  BY <1>3, SkippedType DEF IInv, TypeOK
<1>4. CASE Senders(cycle) = {} /\ TransmitNothing(cycle)
  <2> SUFFICES ASSUME NEW j \in Slots
               PROVE  IF IsLive(slots'[j])
                      THEN slots'[j].retry_count > 0
                             => j = cycle' \/ slots'[j].address \in Troubled
                      ELSE slots'[j].retry_count <= 1
    BY DEF RetriesOK
  <2>1. slots'[j] = IF j \in cycle .. count THEN Skipped(slots[j]) ELSE slots[j]
    BY <1>4 DEF TransmitNothing, Passed
  <2>2. CASE j \in cycle .. count
    BY <1>3, <2>1, <2>2
  <2>3. CASE j \notin cycle .. count
    <3>1. j = cycle => j = cycle'
      BY <1>1, <1>4, <2>3 DEF IInv, TypeOK, Completed, TransmitNothing
    <3> QED  BY <2>1, <2>3, <3>1 DEF RetriesOK
  <2> QED  BY <2>2, <2>3
<1>5. CASE Senders(cycle) # {} /\ TransmitRequest(cycle, Min(Senders(cycle)))
  <2> DEFINE k == Min(Senders(cycle))
  <2>1. k \in Senders(cycle) /\ \A x \in Senders(cycle) : k =< x
    BY <1>1, <1>5, FirstSender
  <2>2. k \in cycle .. count /\ k \in Slots /\ Sends(slots[k]) /\ slots[k] \in Peripherals
    BY <1>1, <2>1, SlotsFromCycle DEF Senders, IInv, TypeOK
  <2>3. /\ slots' = [j \in Slots |-> IF j = k THEN Sent(slots[k])
                                     ELSE IF j \in Passed(cycle) THEN Skipped(slots[j])
                                     ELSE slots[j]]
        /\ cycle' = k
    BY <1>5 DEF TransmitRequest, Request
  <2>4. cycle # k => cycle \in Passed(cycle)
    <3>1. cycle \in cycle .. count
      BY <1>1, <2>2
    <3>2. ASSUME cycle # k, NEW x \in Senders(cycle)
          PROVE  cycle < x
      <4>1. x \in Nat /\ k =< x /\ k \in Nat /\ cycle < k
        BY <1>1, <2>1, <2>2, <3>2 DEF Senders
      <4> QED  BY <1>1, <4>1
    <3> QED  BY <3>1, <3>2 DEF Passed
  <2> HIDE DEF k
  <2> SUFFICES ASSUME NEW j \in Slots
               PROVE  IF IsLive(slots'[j])
                      THEN slots'[j].retry_count > 0
                             => j = cycle' \/ slots'[j].address \in Troubled
                      ELSE slots'[j].retry_count <= 1
    BY DEF RetriesOK
  <2>5. CASE j = k
    <3>1. ~IsLive(slots[k]) => slots[k].retry_count = 0
      BY <2>2 DEF Sends, IsLive
    <3>2. /\ slots'[j] = Sent(slots[k]) /\ IsLive(Sent(slots[k])) = IsLive(slots[k])
          /\ Sent(slots[k]).retry_count = slots[k].retry_count + 1
      BY <2>2, <2>3, <2>5, SentCounts, LiveTransmit
    <3> QED  BY <2>3, <2>5, <3>1, <3>2
  <2>6. CASE j # k /\ j \in Passed(cycle)
    BY <1>3, <2>3, <2>6
  <2>7. CASE j # k /\ j \notin Passed(cycle)
    BY <2>3, <2>4, <2>7 DEF RetriesOK
  <2> QED  BY <2>5, <2>6, <2>7
<1> QED  BY <1>2, <1>4, <1>5 DEF TransmitCycle

(* A reply finds its peripheral, and resets the retry count, but for a      *)
(* refusal of a slave in trouble.                                           *)
LEMMA ReceiveRetries ==
  ASSUME IInv, Careful, ReportInv, RetriesOK, Receive
  PROVE  RetriesOK' /\ panicked' = panicked
<1> DEFINE p == slots[cycle]
           r == ReceiveReply(p, bus.reply)
<1>1. bus.phase = "Reply" /\ Awaiting
  BY DEF Receive, Awaiting
<1>2. /\ cycle \in Slots /\ p \in Peripherals /\ cycle # Completed
      /\ p.address = bus.address /\ bus.reply \in Replies
  BY <1>1, Asked DEF IInv, TypeOK, BusStates
<1>3. slots' = [slots EXCEPT ![cycle] = r[1]] /\ panicked' = panicked
  BY <1>2 DEF Receive
<1>4. slots'[cycle] = r[1] /\ \A j \in Slots : j # cycle => slots'[j] = slots[j]
  BY <1>2, <1>3 DEF IInv, TypeOK
<1>5. r[1] = p \/ r[1].retry_count = 0
  BY <1>2, TakenOrNot
<1>6. IsLive(p) /\ p.address \notin Troubled => r[1].retry_count = 0
  BY <1>1, <1>2, ServedCounts DEF ReportInv, BusOK
<1> HIDE DEF r
<1>7. ASSUME NEW j \in Slots
      PROVE  IF IsLive(slots'[j])
             THEN slots'[j].retry_count > 0 => slots'[j].address \in Troubled
             ELSE slots'[j].retry_count <= 1
  <2>1. CASE j = cycle
    BY <1>2, <1>4, <1>5, <1>6, <2>1 DEF RetriesOK
  <2>2. CASE j # cycle
    BY <1>4, <2>2 DEF RetriesOK
  <2> QED  BY <2>1, <2>2
<1> QED  BY <1>3, <1>7 DEF RetriesOK

(* Every step keeps the retry counts as they should be. *)
LEMMA StepRetries ==
  ASSUME IInv, Careful, ReportInv, RetriesOK, [Next]_vars
  PROVE  RetriesOK'
<1>1. CASE TransmitCycle
  BY <1>1, TransmitRetries
<1>2. CASE Receive
  BY <1>2, ReceiveRetries
<1>3. CASE TransmitAfterCycle
  <2>1. slots' = slots /\ \A k \in Slots : k # cycle
    BY <1>3 DEF TransmitAfterCycle, Completed, Slots
  <2> QED  BY <2>1 DEF RetriesOK
<1>4. ASSUME NEW k \in Slots, RequestDiagnostics(k)
      PROVE  RetriesOK'
  <2>1. slots' = [slots EXCEPT ![k].diag_needed = TRUE] /\ cycle' = cycle
    BY <1>4 DEF RequestDiagnostics
  <2>2. \A j \in Slots : /\ slots'[j].state = slots[j].state
                         /\ slots'[j].address = slots[j].address
                         /\ slots'[j].retry_count = slots[j].retry_count
    BY <2>1 DEF IInv, TypeOK, Peripherals
  <2> QED  BY <2>1, <2>2 DEF RetriesOK, IsLive
<1>5. ASSUME NEW k \in Slots, NEW a \in Addresses, ResetAddress(k, a)
      PROVE  RetriesOK'
  <2>1. slots' = [slots EXCEPT ![k] = NewPeripheral(a)] /\ cycle' = cycle
    BY <1>5 DEF ResetAddress
  <2>2. NewPeripheral(a).retry_count = 0 /\ NewPeripheral(a).state = "Offline"
    BY DEF NewPeripheral
  <2>3. slots'[k] = NewPeripheral(a) /\ \A j \in Slots : j # k => slots'[j] = slots[j]
    BY <2>1 DEF IInv, TypeOK
  <2> QED  BY <2>1, <2>2, <2>3 DEF RetriesOK, IsLive
<1>6. CASE \/ TransmitStopped \/ TransmitGlobalControl \/ Timeout \/ Slave \/ Lose
           \/ Add \/ EnterOperate \/ TakeLastEvents
           \/ \E a \in Addresses : Restart(a) \/ Forget(a)
           \/ UNCHANGED vars
  <2>1. UNCHANGED <<slots, cycle>>
    BY <1>6 DEF TransmitStopped, TransmitGlobalControl, Timeout, Slave, Repeat, Serve, Serves,
                Lose, Add, EnterOperate, TakeLastEvents, Restart, Forget, vars, masterVars
  <2> QED  BY <2>1 DEF RetriesOK
<1> QED  BY <1>1, <1>2, <1>3, <1>4, <1>5, <1>6 DEF Next, Poll, Transmit, Program

(* Two are never given up in one call if no slave refuses its configuration. *)
LEMMA NothingPanics ==
  ASSUME IInv, Careful, ReportInv, RetriesOK, Troubled = {}, ~panicked, [Next]_vars
  PROVE  ~panicked'
<1>1. CASE TransmitCycle
  <2>1. cycle # Completed
    BY <1>1 DEF TransmitCycle
  <2>2. \A k \in Lost(cycle) : k = cycle
    <3> SUFFICES ASSUME NEW k \in Lost(cycle) PROVE k = cycle
      OBVIOUS
    <3>1. k \in Slots /\ slots[k].retry_count > MaxRetry
      BY <2>1, SlotsFromCycle DEF Lost, Passed, GivesUp, IInv
    <3>2. slots[k].retry_count \in Nat /\ slots[k].retry_count > 1
      BY <3>1, PeripheralAssumption DEF IInv, TypeOK, Peripherals
    <3> QED  BY <3>1, <3>2 DEF RetriesOK
  <2>3. Lost(cycle) \in SUBSET {cycle}
    BY <2>2
  <2>4. Cardinality(Lost(cycle)) <= 1 /\ Cardinality(Lost(cycle)) \in Nat
    <3>1. IsFiniteSet({cycle}) /\ Cardinality({cycle}) = 1
      BY FS_Singleton
    <3>2. IsFiniteSet(Lost(cycle)) /\ Cardinality(Lost(cycle)) <= Cardinality({cycle})
      BY <2>3, <3>1, FS_Subset
    <3> QED  BY <3>1, <3>2, FS_CardinalityType
  <2>5. ~(Cardinality(Lost(cycle)) > 1)
    BY <2>4
  <2> QED  BY <1>1, <2>5 DEF TransmitCycle
<1>2. CASE Receive
  BY <1>2, ReceiveRetries
<1>3. CASE ~TransmitCycle /\ ~Receive
  <2>1. panicked' = panicked
    BY <1>3 DEF Next, Poll, Transmit, Program, TransmitStopped, TransmitGlobalControl,
                TransmitAfterCycle, Timeout, Slave, Repeat, Serve, Serves,
                Lose, Add, EnterOperate, TakeLastEvents, RequestDiagnostics, ResetAddress,
                Restart, Forget, vars, masterVars
  <2> QED  BY <2>1
<1> QED  BY <1>1, <1>2, <1>3

(* With a careful program, peripherals of different addresses, and slaves  *)
(* that neither lose power nor turn parameters or configuration down, no   *)
(* assertion of the master fails, whatever is lost on the bus: only the    *)
(* peripheral at the cycle's index can run out of retries, so that two are *)
(* never given up in one call.  With two slaves that restart they are.     *)
THEOREM NoAssertionFails ==
  ASSUME Careful, DistinctOrder, Troubled = {}
  PROVE  Spec => []NoPanic
<1>1. Init => ReportInv
  BY InitReports
<1>2. Init => RetriesOK /\ ~panicked
  <2> SUFFICES ASSUME Init PROVE RetriesOK /\ ~panicked
    OBVIOUS
  <2>1. \A a : NewPeripheral(a).retry_count = 0 /\ NewPeripheral(a).state = "Offline"
    BY DEF NewPeripheral
  <2>2. \A k \in Slots : slots[k].retry_count = 0 /\ slots[k].state = "Offline"
    BY <2>1 DEF Init
  <2> QED  BY <2>2 DEF Init, RetriesOK, IsLive
<1>3. IInv /\ ReportInv /\ RetriesOK /\ ~panicked /\ [Next]_vars
        => ReportInv' /\ RetriesOK' /\ ~panicked'
  BY StepReports, StepRetries, NothingPanics
<1>4. ~panicked => NoPanic
  BY DEF NoPanic
<1> QED  BY <1>1, <1>2, <1>3, <1>4, Invariance, PTL DEF Spec

==============================================================================
