------------------------- MODULE ApplicationsProofs -------------------------
(***************************************************************************)
(* Invariants of Applications for any list of applications and any number  *)
(* of addresses and faults.                                                *)
(***************************************************************************)
EXTENDS Applications, TLAPS

(* The token is used in rounds: the applications from first up to next     *)
(* have ended their cycle, once, and the others have not.                  *)
InRound(i) == IF first < next THEN first <= i /\ i < next
              ELSE (first <= i /\ i < count) \/ i < next

RoundOK ==
  st \in {"UseToken", "AwaitDataResponse"} =>
    /\ first = NoApp => \A i \in Index : ended[i] = 0
    /\ first # NoApp =>
         /\ first < count /\ next # first
         /\ \A i \in Index : ended[i] = IF InRound(i) THEN 1 ELSE 0

(* What the program will know once it took the last event. *)
Taken(v, e) == IF e = NoEvent THEN v
               ELSE IF e.kind = "Lost" THEN v \ {e.address} ELSE v \cup {e.address}

ViewOK ==
  skips = 0 => \A i \in Index :
    /\ Taken(view[i], app[i].event) \subseteq app[i].stations
    /\ shorts = 0 => Taken(view[i], app[i].event) = app[i].stations

(* A station starts with the first application. *)
OfflineOK == st = "Offline" => next = 0

(* The inductive invariant. *)
IInv == TypeOK /\ OfflineOK /\ NextInRange /\ RoundOK /\ EachCycleOnce /\ ReplyReachesAsker /\ ViewOK

------------------------------------------------------------------------------
(* Turns *)

(* The remainder in the two cases that occur. *)
LEMMA ModSmall == ASSUME NEW x \in Nat, NEW c \in Nat, x < c PROVE x % c = x
  BY SMT

LEMMA ModWrap == ASSUME NEW x \in Nat, NEW c \in Nat, c <= x, x < 2 * c PROVE x % c = x - c
  BY SMT

LEMMA ConstantTypes ==
  /\ Len(Apps) \in Nat /\ Len(Apps) >= 1
  /\ Own \in Addresses /\ Slave \in Addresses /\ LastAddress \in Nat /\ 0 \in Addresses
  /\ MaxChanges \in Nat /\ MaxFaults \in Nat /\ MaxSkips \in Nat /\ MaxOffs \in Nat
  BY ApplicationsAssumption, LastAddressAssumption DEF Addresses

(* The application that is k turns on. *)
LEMMA AfterIs ==
  ASSUME TypeOK, NextInRange, NEW k \in 0 .. count
  PROVE  After(k) = IF next + k < count THEN next + k ELSE next + k - count
<1>1. next \in Nat /\ count \in Nat /\ next < count /\ k \in Nat /\ k <= count
  BY ConstantTypes DEF TypeOK, NextInRange, Index
<1>2. CASE next + k < count  BY <1>1, <1>2, ModSmall DEF After
<1>3. CASE next + k >= count
  <2>1. next + k \in Nat /\ next + k < 2 * count  BY <1>1
  <2> QED  BY <1>1, <1>3, <2>1, ModWrap DEF After
<1> QED  BY <1>1, <1>2, <1>3

(* The applications whose turn comes before that one's. *)
LEMMA BeforeIs ==
  ASSUME TypeOK, NextInRange, NEW k \in 0 .. count
  PROVE  Before(k) = {i \in 0 .. count - 1 : (next <= i /\ i < next + k) \/ i < next + k - count}
<1> DEFINE Between == {i \in 0 .. count - 1 : (next <= i /\ i < next + k) \/ i < next + k - count}
<1>1. next \in Nat /\ count \in Nat /\ next < count /\ k \in Nat /\ k <= count
  BY ConstantTypes DEF TypeOK, NextInRange, Index
<1>2. \A j \in 0 .. k - 1 : After(j) = IF next + j < count THEN next + j ELSE next + j - count
  BY <1>1, AfterIs
<1>3. ASSUME NEW i \in Before(k) PROVE i \in Between
  <2>1. PICK j \in 0 .. k - 1 : i = After(j)  BY DEF Before
  <2> QED  BY <1>1, <1>2, <2>1
<1>4. ASSUME NEW i \in Between PROVE i \in Before(k)
  <2>1. CASE next <= i /\ i < next + k
    <3>1. i - next \in 0 .. k - 1 /\ next + (i - next) = i /\ i < count  BY <1>1, <2>1
    <3>2. After(i - next) = i  BY <1>1, <1>2, <3>1
    <3> QED  BY <3>1, <3>2 DEF Before
  <2>2. CASE ~(next <= i) /\ i < next + k - count
    <3>1. i + count - next \in 0 .. k - 1 /\ next + (i + count - next) = i + count /\ i >= 0
      BY <1>1, <2>2
    <3>2. After(i + count - next) = i  BY <1>1, <1>2, <3>1
    <3> QED  BY <3>1, <3>2 DEF Before
  <2> QED  BY <1>1, <2>1, <2>2
<1> HIDE DEF Between
<1>5. Before(k) = Between  BY <1>3, <1>4
<1> QED  BY <1>5 DEF Between

(* A round ends with the application before the first one's. *)
LEMMA TurnsLeftIs ==
  ASSUME TypeOK, NextInRange, first # NoApp => first < count
  PROVE  TurnsLeft = IF first = NoApp \/ first = next THEN count
                     ELSE IF next < first THEN first - next ELSE first + count - next
<1>1. /\ next \in Nat /\ count \in Nat /\ next < count
      /\ first = NoApp \/ (first \in Nat /\ first < count)
  BY ConstantTypes DEF TypeOK, NextInRange, Index, NoApp
<1> DEFINE f == IF first = NoApp THEN next ELSE first
<1>2. f \in Nat /\ f < count  BY <1>1
<1>3. TurnsLeft = ((f + count - next - 1) % count) + 1  BY DEF TurnsLeft
<1> HIDE DEF f
<1>4. CASE f <= next
  <2>1. f + count - next - 1 \in Nat /\ f + count - next - 1 < count  BY <1>1, <1>2, <1>4
  <2>2. TurnsLeft = f + count - next  BY <1>1, <1>2, <1>3, <2>1, ModSmall
  <2> QED  BY <1>1, <1>2, <1>4, <2>2 DEF f
<1>5. CASE f > next
  <2>1. /\ f + count - next - 1 \in Nat /\ f + count - next - 1 >= count
        /\ f + count - next - 1 < 2 * count
    BY <1>1, <1>2, <1>5
  <2> DEFINE x == f + count - next - 1
  <2>2. x \in Nat /\ count <= x /\ x < 2 * count /\ TurnsLeft = (x % count) + 1
    BY <1>3, <2>1
  <2> HIDE DEF x
  <2>3. x % count = x - count  BY <1>1, <2>2, ModWrap
  <2>4. TurnsLeft = f - next  BY <1>1, <1>2, <2>2, <2>3 DEF x
  <2> QED  BY <1>1, <1>2, <1>5, <2>4 DEF f
<1> QED  BY <1>1, <1>2, <1>4, <1>5

------------------------------------------------------------------------------
(* Applications that end their cycles *)

(* The answer of an application, and the end of its cycle, are typed. *)
LEMMA ScanTypes ==
  ASSUME NEW scan \in Scans, NEW addr \in Addresses
  PROVE  /\ EndScanCycle(scan) \in Scans
         /\ \A i \in Index : EndCycle(i, scan) \in Scans
         /\ ScanTimeout(scan, addr) \in Scans
         /\ \A r \in {"Diagnostics", "Status", "Short"} :
              /\ LiveListReply(scan, addr, r) \in Scans
              /\ DpScannerReply(scan, addr, r) \in Scans
         /\ [scan EXCEPT !.done = TRUE] \in Scans
         /\ [scan EXCEPT !.event = NoEvent] \in Scans
<1>1. LastAddress \in Nat /\ 0 \in Addresses  BY ConstantTypes
<1>2. scan.cursor \in Addresses /\ scan.cursor < LastAddress => scan.cursor + 1 \in Addresses
  BY <1>1 DEF Scans, Addresses
<1>3. NoEvent \in [kind : EventKinds, address : Addresses]
  BY <1>1 DEF NoEvent, Event, EventKinds
<1>4. \A k \in EventKinds : Event(k, addr) \in [kind : EventKinds, address : Addresses]
  BY DEF Event
<1>5. EndScanCycle(scan) \in Scans  BY <1>1, <1>2 DEF EndScanCycle, Scans
<1>6. \A i \in Index : EndCycle(i, scan) \in Scans  BY <1>5 DEF EndCycle, Scans
<1>7. ScanTimeout(scan, addr) \in Scans  BY <1>4 DEF ScanTimeout, Scans, EventKinds
<1>8. \A r \in {"Diagnostics", "Status", "Short"} : LiveListReply(scan, addr, r) \in Scans
  BY <1>3, <1>4 DEF LiveListReply, Scans, EventKinds
<1>9. \A r \in {"Diagnostics", "Status", "Short"} : DpScannerReply(scan, addr, r) \in Scans
  BY <1>3, <1>4 DEF DpScannerReply, Scans, EventKinds
<1>10. [scan EXCEPT !.done = TRUE] \in Scans /\ [scan EXCEPT !.event = NoEvent] \in Scans
  BY <1>3 DEF Scans
<1> QED  BY <1>5, <1>6, <1>7, <1>8, <1>9, <1>10

(* The types of what a use of the token changes. *)
UseTypes ==
  /\ app' \in [Index -> Scans] /\ st' \in States \ {"Offline"} /\ address' \in Addresses
  /\ next' \in Index /\ next' < count /\ first' \in Index \cup {NoApp}
  /\ cycleDone' \in BOOLEAN /\ over' \in BOOLEAN /\ ended' \in [Index -> Nat]

(* A round after k more applications ended their cycles. *)
LEMMA EndCyclesRound ==
  ASSUME TypeOK, NextInRange, RoundOK, st \in {"UseToken", "AwaitDataResponse"},
         NEW a \in [Index -> Scans], NEW k \in 0 .. TurnsLeft, EndCycles(k, a)
  PROVE  /\ k \in 0 .. count
         /\ app' \in [Index -> Scans] /\ next' \in Index /\ next' < count
         /\ first' \in Index \cup {NoApp} /\ ended' \in [Index -> Nat]
         /\ \A i \in Index : ended'[i] <= 1
         /\ k < TurnsLeft =>
              /\ After(k) \notin Before(k)
              /\ first' = NoApp => \A i \in Index : ended'[i] = 0
              /\ first' # NoApp =>
                   /\ first' < count /\ next' # first'
                   /\ \A i \in Index :
                        ended'[i] = IF \/ first' < next' /\ first' <= i /\ i < next'
                                       \/ ~(first' < next') /\ first' <= i /\ i < count
                                       \/ ~(first' < next') /\ i < next'
                                    THEN 1 ELSE 0
         /\ k = TurnsLeft => \A i \in 0 .. count - 1 : ended'[i] = 1
<1>1. /\ next \in Nat /\ count \in Nat /\ next < count /\ count <= NoApp /\ NoApp \in Nat
      /\ Index = 0 .. NoApp - 1 /\ ended \in [Index -> Nat]
      /\ first = NoApp \/ (first \in Nat /\ first < count /\ next # first)
  BY ConstantTypes DEF TypeOK, NextInRange, RoundOK, Index, NoApp
<1>2. TurnsLeft = IF first = NoApp THEN count
                  ELSE IF next < first THEN first - next ELSE first + count - next
  BY <1>1, TurnsLeftIs
<1>3. k \in Nat /\ k \in 0 .. count  BY <1>1, <1>2
<1>4. next' = IF next + k < count THEN next + k ELSE next + k - count
  BY <1>3, AfterIs DEF EndCycles
<1>5. Before(k) = {i \in 0 .. count - 1 : (next <= i /\ i < next + k) \/ i < next + k - count}
  BY <1>3, BeforeIs
<1>6. ended' = [i \in Index |-> IF i \in Before(k) THEN ended[i] + 1 ELSE ended[i]]
  BY DEF EndCycles
<1>7. first' = IF k > 0 /\ first = NoApp THEN next ELSE first  BY DEF EndCycles
<1>8. app' \in [Index -> Scans]
  <2>1. \A i \in Index : EndCycle(i, a[i]) \in Scans /\ a[i] \in Scans
    BY ScanTypes, ConstantTypes
  <2> QED  BY <2>1 DEF EndCycles
<1>9. next' \in Index /\ next' < count /\ first' \in Index \cup {NoApp}
  BY <1>1, <1>3, <1>4, <1>7
<1>10. ended' \in [Index -> Nat]  BY <1>1, <1>6
<1>11. After(k) = next' /\ (k < TurnsLeft => After(k) \notin Before(k))
  BY <1>1, <1>2, <1>3, <1>4, <1>5 DEF EndCycles
<1>12. CASE first = NoApp
  <2>1. \A i \in Index : ended[i] = 0  BY <1>12 DEF RoundOK
  <2>2. \A i \in Index : ended'[i] = IF i \in Before(k) THEN 1 ELSE 0  BY <1>6, <2>1
  <2>3. k = 0 => Before(k) = {}  BY <1>1, <1>5
  <2>4. k > 0 => first' = next  BY <1>7, <1>12
  <2>5. k = 0 => first' = NoApp /\ \A i \in Index : ended'[i] = 0
    BY <1>7, <1>12, <2>2, <2>3
  <2>6. ASSUME k > 0, k < TurnsLeft
        PROVE  /\ first' < count /\ next' # first'
               /\ \A i \in Index :
                    i \in Before(k)
                      <=> \/ first' < next' /\ first' <= i /\ i < next'
                          \/ ~(first' < next') /\ first' <= i /\ i < count
                          \/ ~(first' < next') /\ i < next'
    <3>1. /\ first' = next /\ k > 0 /\ k < count /\ k \in Nat
          /\ \A i \in Before(k) : i \in Nat /\ i < count
      BY <1>1, <1>2, <1>3, <1>5, <1>12, <2>4, <2>6
    <3>2. CASE next + k < count
      <4>1. next' = next + k  BY <1>4, <3>2
      <4>2. \A i \in Index : i \in Before(k) <=> next <= i /\ i < next + k
        BY <1>1, <1>5, <3>1, <3>2
      <4> QED  BY <1>1, <3>1, <4>1, <4>2
    <3>3. CASE ~(next + k < count)
      <4>1. next' = next + k - count /\ next' < next  BY <1>1, <1>4, <3>1, <3>3
      <4>2. \A i \in Index : i \in Before(k)
                               <=> (next <= i /\ i < count) \/ i < next + k - count
        BY <1>1, <1>5, <3>1, <3>3
      <4> QED  BY <1>1, <3>1, <4>1, <4>2
    <3> QED  BY <3>2, <3>3
  <2>7. k = TurnsLeft => \A i \in 0 .. count - 1 : i \in Before(k) /\ i \in Index
    BY <1>1, <1>2, <1>5, <1>12
  <2>8. \A i \in Index : ended'[i] <= 1  BY <2>2
  <2>9. k < TurnsLeft /\ first' # NoApp => k > 0  BY <1>3, <2>5
  <2>10. k > 0 => first' # NoApp  BY <1>1, <2>4
  <2>11. k < TurnsLeft /\ first' # NoApp =>
           \A i \in Index :
             ended'[i] = IF \/ first' < next' /\ first' <= i /\ i < next'
                            \/ ~(first' < next') /\ first' <= i /\ i < count
                            \/ ~(first' < next') /\ i < next'
                         THEN 1 ELSE 0
    BY <2>2, <2>6, <2>9
  <2>12. k = TurnsLeft => \A i \in 0 .. count - 1 : ended'[i] = 1  BY <2>2, <2>7
  <2>13. k < TurnsLeft /\ first' # NoApp => first' < count /\ next' # first'
    BY <2>6, <2>9
  <2>14. first' = NoApp => \A i \in Index : ended'[i] = 0  BY <1>3, <2>5, <2>10
  <2> QED  BY <1>3, <1>8, <1>9, <1>10, <1>11, <2>8, <2>11, <2>12, <2>13, <2>14
<1>13. CASE first # NoApp
  <2>1. /\ first' = first /\ first \in Nat /\ first < count /\ next # first
        /\ TurnsLeft = IF next < first THEN first - next ELSE first + count - next
    BY <1>1, <1>2, <1>7, <1>13
  <2>2. \A i \in Index : ended[i] = IF InRound(i) THEN 1 ELSE 0  BY <1>13 DEF RoundOK
  <2>3. \A i \in Before(k) : ~InRound(i)
    BY <1>1, <1>3, <1>5, <2>1 DEF InRound
  <2>4. \A i \in Index : ended'[i] = IF i \in Before(k) \/ InRound(i) THEN 1 ELSE 0
    BY <1>6, <2>2, <2>3
  <2>5. ASSUME k < TurnsLeft
        PROVE  /\ next' # first
               /\ \A i \in Index :
                    i \in Before(k) \/ InRound(i)
                      <=> \/ first < next' /\ first <= i /\ i < next'
                          \/ ~(first < next') /\ first <= i /\ i < count
                          \/ ~(first < next') /\ i < next'
    BY <1>1, <1>3, <1>4, <1>5, <2>1, <2>5 DEF InRound
  <2>6. k = TurnsLeft =>
          \A i \in 0 .. count - 1 : (i \in Before(k) \/ InRound(i)) /\ i \in Index
    BY <1>1, <1>5, <2>1 DEF InRound
  <2>7. \A i \in Index : ended'[i] <= 1  BY <2>4
  <2> QED  BY <1>1, <1>3, <1>8, <1>9, <1>10, <1>11, <1>13, <2>1, <2>4, <2>5, <2>6, <2>7
<1> QED  BY <1>12, <1>13

(* Ending its cycle changes nothing an application has found. *)
LEMMA EndCycleKeeps ==
  ASSUME NEW i \in Index, NEW scan \in Scans
  PROVE  /\ EndCycle(i, scan).stations = scan.stations
         /\ EndCycle(i, scan).event = scan.event
  BY DEF EndCycle, EndScanCycle, Scans

(* What a poll that uses the token leaves behind, whether it sends or      *)
(* passes the token on.                                                    *)
LEMMA UseStep ==
  ASSUME TypeOK, NextInRange, RoundOK, EachCycleOnce,
         st \in {"UseToken", "AwaitDataResponse"}, count' = count,
         NEW a \in [Index -> Scans], NEW cycle \in BOOLEAN, Use(a, cycle)
  PROVE  /\ UseTypes /\ NextInRange' /\ RoundOK' /\ EachCycleOnce' /\ ReplyReachesAsker'
         /\ \A i \in Index : app'[i].stations = a[i].stations /\ app'[i].event = a[i].event
<1>1. 0 \in Addresses /\ Slave \in Addresses  BY ConstantTypes
<1>2. over' \in BOOLEAN /\ cycleDone' = TRUE  BY DEF Use, TypeOK
<1>3. CASE over' /\ cycle
  <2>1. /\ st' = "PassToken" /\ app' = a /\ address' = 0
        /\ next' = next /\ first' = first /\ ended' = ended
    BY <1>3 DEF Use
  <2>2. UseTypes /\ NextInRange'
    BY <1>1, <1>2, <2>1 DEF UseTypes, TypeOK, NextInRange, States
  <2>3. RoundOK' /\ ReplyReachesAsker'  BY <2>1 DEF RoundOK, ReplyReachesAsker
  <2>4. EachCycleOnce'  BY <1>3, <2>1 DEF EachCycleOnce
  <2> QED  BY <2>1, <2>2, <2>3, <2>4
<1>4. CASE ~(over' /\ cycle) /\ \E k \in 0 .. TurnsLeft - 1 :
             /\ Asks(a[After(k)]) /\ EndCycles(k, a)
             /\ \/ st' = "AwaitDataResponse" /\ address' = AsksFor(After(k), a[After(k)])
                \/ st' = "UseToken" /\ address' = 0
  <2>1. PICK k \in 0 .. TurnsLeft - 1 :
          /\ Asks(a[After(k)]) /\ EndCycles(k, a)
          /\ \/ st' = "AwaitDataResponse" /\ address' = AsksFor(After(k), a[After(k)])
             \/ st' = "UseToken" /\ address' = 0
    BY <1>4
  <2>2. TurnsLeft \in Nat
    <3>1. TurnsLeft = IF first = NoApp \/ first = next THEN count
                      ELSE IF next < first THEN first - next ELSE first + count - next
      BY TurnsLeftIs DEF RoundOK
    <3>2. /\ next \in Nat /\ count \in Nat /\ next < count
          /\ first = NoApp \/ (first \in Nat /\ first < count)
      BY ConstantTypes DEF TypeOK, NextInRange, RoundOK, Index, NoApp
    <3> QED  BY <3>1, <3>2
  <2>3. k \in 0 .. TurnsLeft /\ k < TurnsLeft  BY <2>2
  <2>4. /\ app' \in [Index -> Scans] /\ next' \in Index /\ next' < count
        /\ first' \in Index \cup {NoApp} /\ ended' \in [Index -> Nat]
        /\ \A i \in Index : ended'[i] <= 1
        /\ After(k) \notin Before(k)
        /\ first' = NoApp => \A i \in Index : ended'[i] = 0
        /\ first' # NoApp =>
             /\ first' < count /\ next' # first'
             /\ \A i \in Index :
                  ended'[i] = IF \/ first' < next' /\ first' <= i /\ i < next'
                                 \/ ~(first' < next') /\ first' <= i /\ i < count
                                 \/ ~(first' < next') /\ i < next'
                              THEN 1 ELSE 0
    BY <2>1, <2>3, EndCyclesRound
  <2>5. next' = After(k) /\ app'[next'] = a[next']  BY <2>1, <2>4 DEF EndCycles
  <2>6. a[next'] \in Scans /\ AsksFor(next', a[next']) \in Addresses
    BY <1>1, <2>4 DEF AsksFor, Scans
  <2>7. UseTypes /\ NextInRange'
    BY <1>1, <1>2, <2>1, <2>4, <2>5, <2>6 DEF UseTypes, NextInRange, States
  <2>8. RoundOK'
    BY <2>4 DEF RoundOK, InRound, NoApp
  <2>9. EachCycleOnce'  BY <2>1, <2>4 DEF EachCycleOnce
  <2>10. ReplyReachesAsker'  BY <2>1, <2>5 DEF ReplyReachesAsker, AsksFor
  <2>11. \A i \in Index : app'[i].stations = a[i].stations /\ app'[i].event = a[i].event
    BY <2>1, EndCycleKeeps DEF EndCycles
  <2> QED  BY <2>7, <2>8, <2>9, <2>10, <2>11
<1>5. CASE ~(over' /\ cycle) /\ EndCycles(TurnsLeft, a) /\ st' = "PassToken" /\ address' = 0
  <2>1. TurnsLeft \in 0 .. TurnsLeft
    <3>1. TurnsLeft = IF first = NoApp \/ first = next THEN count
                      ELSE IF next < first THEN first - next ELSE first + count - next
      BY TurnsLeftIs DEF RoundOK
    <3>2. /\ next \in Nat /\ count \in Nat /\ next < count
          /\ first = NoApp \/ (first \in Nat /\ first < count)
      BY ConstantTypes DEF TypeOK, NextInRange, RoundOK, Index, NoApp
    <3> QED  BY <3>1, <3>2
  <2>2. /\ app' \in [Index -> Scans] /\ next' \in Index /\ next' < count
        /\ first' \in Index \cup {NoApp} /\ ended' \in [Index -> Nat]
        /\ \A i \in Index : ended'[i] <= 1
        /\ \A i \in 0 .. count - 1 : ended'[i] = 1
    BY <1>5, <2>1, EndCyclesRound
  <2>3. UseTypes /\ NextInRange'
    BY <1>1, <1>2, <1>5, <2>2 DEF UseTypes, NextInRange, States
  <2>4. RoundOK' /\ ReplyReachesAsker'  BY <1>5 DEF RoundOK, ReplyReachesAsker
  <2>5. EachCycleOnce'  BY <2>2 DEF EachCycleOnce
  <2>6. \A i \in Index : app'[i].stations = a[i].stations /\ app'[i].event = a[i].event
    BY <1>5, EndCycleKeeps DEF EndCycles
  <2> QED  BY <2>3, <2>4, <2>5, <2>6
<1> QED  BY <1>3, <1>4, <1>5 DEF Use, AppsTransmit

------------------------------------------------------------------------------
(* The inductive invariant *)

(* Polls that leave the scanners' lists and events alone, or that happen   *)
(* without an event pending, keep the program's knowledge.                 *)
LEMMA PollKeepsView ==
  ASSUME TypeOK, ViewOK, Poll, shorts' = shorts,
         \A i \in Index : app'[i].stations = app[i].stations /\ app'[i].event = app[i].event
  PROVE  ViewOK'
<1>1. skips \in Nat /\ (skips' = 0 => skips = 0) /\ view' = view  BY DEF TypeOK, Poll
<1> QED  BY <1>1 DEF ViewOK, Taken

(* A reply or a timeout changes the list by what the event says. *)
LEMMA PollTellsView ==
  ASSUME TypeOK, ViewOK, Poll, shorts' \in Nat, shorts' >= shorts, NEW scan,
         \/ scan = ScanTimeout(app[next], address)
         \/ \E r \in {"Diagnostics", "Status", "Short"} :
              /\ \/ scan = LiveListReply(app[next], address, r)
                 \/ scan = DpScannerReply(app[next], address, r)
                 \/ scan = [app[next] EXCEPT !.done = TRUE]
              /\ r = "Short" => shorts' > shorts,
         \A i \in Index : /\ app'[i].stations = Told(scan)[i].stations
                         /\ app'[i].event = Told(scan)[i].event
  PROVE  ViewOK'
<1> SUFFICES ASSUME skips' = 0, NEW i \in Index
             PROVE  /\ Taken(view'[i], app'[i].event) \subseteq app'[i].stations
                    /\ shorts' = 0 => Taken(view'[i], app'[i].event) = app'[i].stations
  BY DEF ViewOK
<1>1. /\ skips = 0 /\ view' = view /\ \A j \in Index : app[j].event = NoEvent
      /\ shorts \in Nat /\ (shorts' = 0 => shorts = 0)
  BY DEF TypeOK, Poll, EventPending
<1>2. \A j \in Index : view[j] \subseteq app[j].stations /\ (shorts = 0 => view[j] = app[j].stations)
  BY <1>1 DEF ViewOK, Taken
<1>3. CASE i # next
  <2>1. app'[i].stations = app[i].stations /\ app'[i].event = app[i].event
    BY <1>3 DEF Told, TypeOK
  <2> QED  BY <1>1, <1>2, <2>1 DEF Taken
<1>4. CASE i = next
  <2>1. /\ app'[i].stations = scan.stations /\ app'[i].event = scan.event
        /\ app[i] \in Scans /\ app[i].event = NoEvent
    BY <1>1, <1>4 DEF Told, TypeOK
  <2>2. CASE scan = ScanTimeout(app[i], address)
    <3>1. /\ scan.stations = app[i].stations \ {address}
          /\ scan.event = IF address \in app[i].stations THEN Event("Lost", address) ELSE NoEvent
      BY <2>1, <2>2 DEF ScanTimeout, Scans
    <3> QED  BY <1>1, <1>2, <2>1, <3>1 DEF Taken, Event, NoEvent
  <2>3. CASE \E r \in {"Diagnostics", "Status", "Short"} :
               /\ scan = LiveListReply(app[i], address, r)
               /\ r = "Short" => shorts' > shorts
    <3>1. PICK r \in {"Diagnostics", "Status", "Short"} :
            /\ scan = LiveListReply(app[i], address, r)
            /\ r = "Short" => shorts' > shorts
      BY <2>3
    <3>2. /\ scan.stations = app[i].stations \cup {address}
          /\ scan.event = IF address \in app[i].stations \/ r = "Short"
                          THEN NoEvent ELSE Event("Discovered", address)
      BY <2>1, <3>1 DEF LiveListReply, Scans
    <3>3. r = "Short" => shorts' # 0  BY <1>1, <3>1
    <3> QED  BY <1>1, <1>2, <2>1, <3>2, <3>3 DEF Taken, Event, NoEvent
  <2>4. CASE \E r \in {"Diagnostics", "Status", "Short"} :
               scan = DpScannerReply(app[i], address, r)
    <3>1. PICK r \in {"Diagnostics", "Status", "Short"} :
            scan = DpScannerReply(app[i], address, r)
      BY <2>4
    <3>2. /\ scan.stations = IF r = "Diagnostics" THEN app[i].stations \cup {address}
                                                 ELSE app[i].stations
          /\ scan.event = IF r # "Diagnostics" THEN NoEvent
                          ELSE IF address \in app[i].stations THEN Event("Requery", address)
                          ELSE Event("Found", address)
      BY <2>1, <3>1 DEF DpScannerReply, Scans
    <3>3. /\ Event("Requery", address) # NoEvent /\ Event("Requery", address).kind # "Lost"
          /\ Event("Found", address) # NoEvent /\ Event("Found", address).kind # "Lost"
          /\ Event("Requery", address).address = address
          /\ Event("Found", address).address = address
      BY DEF Event, NoEvent
    <3>4. CASE r = "Diagnostics"
      <4>1. Taken(view[i], scan.event) = view[i] \cup {address}
        BY <3>2, <3>3, <3>4 DEF Taken
      <4> QED  BY <1>1, <1>2, <2>1, <3>2, <3>4, <4>1
    <3>5. CASE r # "Diagnostics"
      <4>1. Taken(view[i], scan.event) = view[i]  BY <3>2, <3>5 DEF Taken
      <4> QED  BY <1>1, <1>2, <2>1, <3>2, <3>5, <4>1
    <3> QED  BY <3>4, <3>5
  <2>5. CASE scan = [app[i] EXCEPT !.done = TRUE]
    <3>1. scan.stations = app[i].stations /\ scan.event = NoEvent  BY <2>1, <2>5 DEF Scans
    <3> QED  BY <1>1, <1>2, <2>1, <3>1 DEF Taken
  <2> QED  BY <1>4, <2>2, <2>3, <2>4, <2>5
<1> QED  BY <1>3, <1>4

LEMMA InitIInv == Init => IInv
<1> SUFFICES ASSUME Init PROVE IInv  OBVIOUS
<1>1. NewScan \in Scans
  BY ConstantTypes DEF NewScan, Scans, NoEvent, Event, EventKinds
<1>2. TypeOK
  <2>1. 0 \in Index /\ 0 \in Addresses /\ Len(Apps) \in 1 .. Len(Apps)
    BY ConstantTypes DEF Index
  <2>2. app \in [Index -> Scans] /\ ended \in [Index -> Nat] /\ view \in [Index -> SUBSET Addresses]
    BY <1>1 DEF Init
  <2>3. alive \in [Addresses -> Answers]  BY DEF Init, Answers
  <2> QED  BY <2>1, <2>2, <2>3 DEF Init, TypeOK, States
<1>3. OfflineOK /\ NextInRange /\ RoundOK /\ EachCycleOnce /\ ReplyReachesAsker
  BY ConstantTypes DEF Init, OfflineOK, NextInRange, RoundOK, EachCycleOnce, ReplyReachesAsker, Index
<1>4. ViewOK  BY DEF Init, ViewOK, NewScan, Taken
<1> QED  BY <1>2, <1>3, <1>4 DEF IInv

LEMMA StepIInv == IInv /\ [Next]_vars => IInv'
<1> SUFFICES ASSUME IInv, [Next]_vars PROVE IInv'  OBVIOUS
<1>0. /\ TypeOK /\ OfflineOK /\ NextInRange /\ RoundOK /\ EachCycleOnce /\ ReplyReachesAsker /\ ViewOK
      /\ 0 \in Addresses /\ 0 \in Index /\ Len(Apps) \in Nat
  BY ConstantTypes DEF IInv, Index
<1>p. ASSUME Poll
      PROVE  view' = view /\ alive' = alive /\ changes' = changes /\ skips' \in Nat
  BY <1>0, <1>p DEF Poll, TypeOK, envVars
<1>1. ASSUME SetOnline PROVE IInv'
  <2>1. TypeOK' /\ RoundOK' /\ ReplyReachesAsker' /\ ViewOK'
    BY <1>0, <1>1 DEF SetOnline, TypeOK, RoundOK, ReplyReachesAsker, ViewOK, States, envVars
  <2>2. EachCycleOnce'  BY <1>0, <1>1 DEF SetOnline, EachCycleOnce
  <2>3. NextInRange' /\ OfflineOK'
    BY <1>0, <1>1 DEF SetOnline, OfflineOK, NextInRange
  <2> QED  BY <2>1, <2>2, <2>3 DEF IInv
<1>2. ASSUME TokenComes PROVE IInv'
  <2>1. TypeOK'
    BY <1>0, <1>2, <1>p DEF TokenComes, TypeOK, States, NoApp
  <2>2. OfflineOK' /\ NextInRange' /\ RoundOK' /\ EachCycleOnce' /\ ReplyReachesAsker'
    BY <1>0, <1>2 DEF TokenComes, OfflineOK, NextInRange, RoundOK, EachCycleOnce, ReplyReachesAsker
  <2>3. ViewOK'  BY <1>0, <1>2, PollKeepsView DEF TokenComes
  <2> QED  BY <2>1, <2>2, <2>3 DEF IInv
<1>3. ASSUME UseToken PROVE IInv'
  <2>1. /\ UseTypes /\ NextInRange' /\ RoundOK' /\ EachCycleOnce' /\ ReplyReachesAsker'
        /\ \A i \in Index : app'[i].stations = app[i].stations /\ app'[i].event = app[i].event
    <3>1. /\ st \in {"UseToken", "AwaitDataResponse"} /\ count' = count
          /\ app \in [Index -> Scans] /\ cycleDone \in BOOLEAN /\ Use(app, cycleDone)
      BY <1>0, <1>3 DEF UseToken, TypeOK
    <3> QED  BY <1>0, <3>1, UseStep
  <2>2. TypeOK' /\ OfflineOK'
    BY <1>0, <1>3, <1>p, <2>1 DEF UseToken, UseTypes, OfflineOK, TypeOK
  <2>3. ViewOK'  BY <1>0, <1>3, <2>1, PollKeepsView DEF UseToken
  <2> QED  BY <2>1, <2>2, <2>3 DEF IInv
<1>4. ASSUME NEW r \in {"Diagnostics", "Status", "Short"}, st = "AwaitDataResponse", Answered(r),
             faults' \in Nat, shorts' \in Nat, shorts' >= shorts, r = "Short" => shorts' > shorts
      PROVE  IInv'
  <2> DEFINE scan == CASE Kind(next) = "LiveList" -> LiveListReply(app[next], address, r)
                       [] Kind(next) = "DpScanner" -> DpScannerReply(app[next], address, r)
                       [] OTHER -> [app[next] EXCEPT !.done = TRUE]
  <2>1. /\ app' = Told(scan) /\ st' = "UseToken" /\ address' = 0 /\ cycleDone' = TRUE /\ Poll
        /\ count' = count /\ next' = next /\ first' = first /\ over' = over
        /\ ended' = ended /\ offs' = offs
    BY <1>4 DEF Answered
  <2>2. app[next] \in Scans /\ address \in Addresses /\ next \in Index  BY <1>0 DEF TypeOK
  <2>3. \/ scan = LiveListReply(app[next], address, r)
        \/ scan = DpScannerReply(app[next], address, r)
        \/ scan = [app[next] EXCEPT !.done = TRUE]
    OBVIOUS
  <2> HIDE DEF scan
  <2>4. scan \in Scans  BY <2>2, <2>3, ScanTypes
  <2>5. app' \in [Index -> Scans]  BY <1>0, <2>1, <2>4 DEF Told, TypeOK
  <2>6. TypeOK'  BY <1>0, <1>4, <1>p, <2>1, <2>5 DEF TypeOK, States
  <2>7. OfflineOK' /\ NextInRange' /\ RoundOK' /\ EachCycleOnce' /\ ReplyReachesAsker'
    BY <1>0, <1>4, <2>1
    DEF OfflineOK, NextInRange, RoundOK, InRound, EachCycleOnce, ReplyReachesAsker
  <2>8. ViewOK'  BY <1>0, <1>4, <2>1, <2>3, PollTellsView
  <2> QED  BY <2>6, <2>7, <2>8 DEF IInv
<1>5. ASSUME Reply PROVE IInv'
  <2>1. shorts \in Nat /\ faults \in Nat  BY <1>0 DEF TypeOK
  <2> QED  BY <1>4, <1>5, <2>1 DEF Reply
<1>6. ASSUME ShortReply PROVE IInv'
  <2>1. shorts \in Nat /\ faults \in Nat  BY <1>0 DEF TypeOK
  <2> QED  BY <1>4, <1>6, <2>1 DEF ShortReply
<1>7. ASSUME Timeout PROVE IInv'
  <2> DEFINE scan == ScanTimeout(app[next], address)
             a == IF Kind(next) = "DpMaster" THEN app ELSE Told(scan)
  <2>1. /\ st = "AwaitDataResponse" /\ Use(a, TRUE) /\ Poll /\ count' = count
        /\ shorts' = shorts /\ offs' = offs
    BY <1>7 DEF Timeout
  <2>2. faults' \in Nat  BY <1>0, <1>7 DEF Timeout, TypeOK
  <2>3. app[next] \in Scans /\ address \in Addresses /\ next \in Index /\ app \in [Index -> Scans]
    BY <1>0 DEF TypeOK
  <2>4. scan \in Scans  BY <2>3, ScanTypes
  <2>5. a \in [Index -> Scans]  BY <2>3, <2>4 DEF Told
  <2>6. a = app \/ a = Told(scan)  OBVIOUS
  <2> HIDE DEF a
  <2>7. /\ UseTypes /\ NextInRange' /\ RoundOK' /\ EachCycleOnce' /\ ReplyReachesAsker'
        /\ \A i \in Index : app'[i].stations = a[i].stations /\ app'[i].event = a[i].event
    BY <1>0, <2>1, <2>5, UseStep
  <2>8. TypeOK' /\ OfflineOK'  BY <1>0, <1>p, <2>1, <2>2, <2>7 DEF UseTypes, OfflineOK, TypeOK
  <2>9. ViewOK'
    <3>1. CASE a = app  BY <1>0, <2>1, <2>7, <3>1, PollKeepsView
    <3>2. CASE a = Told(scan)
      <4>1. shorts' \in Nat /\ shorts' >= shorts  BY <1>0, <2>1 DEF TypeOK
      <4> QED  BY <1>0, <2>1, <2>7, <3>2, <4>1, PollTellsView
    <3> QED  BY <2>6, <3>1, <3>2
  <2> QED  BY <2>7, <2>8, <2>9 DEF IInv
<1>8. ASSUME UnexpectedTelegram PROVE IInv'
  <2>1. TypeOK'
    <3>1. ended' \in [Index -> Nat]  BY <1>8 DEF UnexpectedTelegram, GiveUpToken
    <3>2. faults' \in Nat  BY <1>0, <1>8 DEF UnexpectedTelegram, TypeOK
    <3> QED  BY <1>0, <1>8, <1>p, <3>1, <3>2 DEF UnexpectedTelegram, GiveUpToken, TypeOK, States
  <2>2. OfflineOK' /\ NextInRange' /\ RoundOK' /\ EachCycleOnce' /\ ReplyReachesAsker'
    BY <1>0, <1>8
    DEF UnexpectedTelegram, GiveUpToken, OfflineOK, NextInRange, RoundOK, EachCycleOnce, ReplyReachesAsker
  <2>3. ViewOK'  BY <1>0, <1>8, PollKeepsView DEF UnexpectedTelegram
  <2> QED  BY <2>1, <2>2, <2>3 DEF IInv
<1>9. ASSUME SetOffline PROVE IInv'
  <2>1. TypeOK' /\ ViewOK'
    <3>1. ended' \in [Index -> Nat]  BY <1>9 DEF SetOffline, GiveUpToken
    <3>2. offs' \in Nat  BY <1>0, <1>9 DEF SetOffline, TypeOK
    <3>3. TypeOK'
      BY <1>0, <1>9, <3>1, <3>2 DEF SetOffline, GiveUpToken, TypeOK, States, envVars
    <3>4. ViewOK'  BY <1>0, <1>9 DEF SetOffline, ViewOK
    <3> QED  BY <3>3, <3>4
  <2>2. OfflineOK' /\ NextInRange' /\ RoundOK' /\ EachCycleOnce' /\ ReplyReachesAsker'
    BY <1>0, <1>9
    DEF SetOffline, GiveUpToken, TypeOK, OfflineOK, NextInRange, RoundOK, EachCycleOnce, ReplyReachesAsker
  <2> QED  BY <2>1, <2>2 DEF IInv
<1>10. ASSUME Change PROVE IInv'
  <2>1. TypeOK' /\ ViewOK'
    <3>1. alive' \in [Addresses -> Answers] /\ changes' \in Nat
      BY <1>0, <1>10 DEF Change, TypeOK
    <3> QED  BY <1>0, <1>10, <3>1 DEF Change, TypeOK, ViewOK, fdlVars
  <2>2. OfflineOK' /\ NextInRange' /\ RoundOK' /\ EachCycleOnce' /\ ReplyReachesAsker'
    BY <1>0, <1>10
    DEF Change, fdlVars, OfflineOK, NextInRange, RoundOK, InRound, EachCycleOnce, ReplyReachesAsker
  <2> QED  BY <2>1, <2>2 DEF IInv
<1>11. ASSUME NEW i \in Index, TakeEvent(i) PROVE IInv'
  <2>1. /\ app' = [app EXCEPT ![i].event = NoEvent] /\ app \in [Index -> Scans]
        /\ view' = [view EXCEPT ![i] = Taken(view[i], app[i].event)]
        /\ view \in [Index -> SUBSET Addresses]
        /\ count' = count /\ st' = st /\ address' = address /\ next' = next /\ first' = first
        /\ cycleDone' = cycleDone /\ over' = over /\ ended' = ended
        /\ alive' = alive /\ changes' = changes
        /\ faults' = faults /\ shorts' = shorts /\ skips' = skips /\ offs' = offs
    BY <1>0, <1>11 DEF TakeEvent, TypeOK, Taken, fdlVars, envVars
  <2>2. /\ \A j \in Index : app'[j] \in Scans /\ app'[j].stations = app[j].stations
                           /\ app'[j].cursor = app[j].cursor /\ app'[j].done = app[j].done
        /\ app' \in [Index -> Scans]
        /\ app'[i].event = NoEvent /\ \A j \in Index \ {i} : app'[j] = app[j]
    <3>1. app[i] \in Scans /\ [app[i] EXCEPT !.event = NoEvent] \in Scans
      BY <1>0, <2>1, ScanTypes
    <3>2. app'[i] = [app[i] EXCEPT !.event = NoEvent] /\ \A j \in Index \ {i} : app'[j] = app[j]
      BY <2>1
    <3>3. app' \in [Index -> Scans]  BY <2>1, <3>1
    <3>4. /\ app'[i].event = NoEvent /\ app'[i].stations = app[i].stations
          /\ app'[i].cursor = app[i].cursor /\ app'[i].done = app[i].done
      BY <3>1, <3>2 DEF Scans
    <3>5. \A j \in Index : app'[j] \in Scans  BY <3>3
    <3> QED  BY <3>2, <3>3, <3>4, <3>5
  <2>3. Taken(view[i], app[i].event) \in SUBSET Addresses
    <3>1. app[i].event.address \in Addresses /\ view[i] \in SUBSET Addresses
      BY <2>1 DEF Scans
    <3> QED  BY <3>1 DEF Taken
  <2>4. TypeOK'  BY <1>0, <2>1, <2>2, <2>3 DEF TypeOK
  <2>5. OfflineOK' /\ NextInRange' /\ RoundOK' /\ EachCycleOnce'
    BY <1>0, <2>1 DEF OfflineOK, NextInRange, RoundOK, InRound, EachCycleOnce
  <2>6. ReplyReachesAsker'
    BY <1>0, <2>1, <2>2 DEF ReplyReachesAsker, Asks, AsksFor, TypeOK
  <2>7. ViewOK'
    <3>1. \A j \in Index : Taken(view'[j], app'[j].event) = Taken(view[j], app[j].event)
      BY <2>1, <2>2 DEF Taken
    <3> QED  BY <1>0, <2>1, <2>2, <3>1 DEF ViewOK
  <2> QED  BY <2>4, <2>5, <2>6, <2>7 DEF IInv
<1>12. CASE UNCHANGED vars
  BY <1>0, <1>12 DEF vars, fdlVars, envVars, IInv, TypeOK, OfflineOK, NextInRange, RoundOK, InRound,
                     EachCycleOnce, ReplyReachesAsker, ViewOK
<1> QED
  BY <1>1, <1>2, <1>3, <1>5, <1>6, <1>7, <1>8, <1>9, <1>10, <1>11, <1>12 DEF Next, Station

(* What a program may rely on: the types; the index that poll_multi() uses *)
(* is within its list; the reply goes to the application that asked; the   *)
(* token is passed before its time only after a cycle of each application; *)
(* and the events tell all that a scanner's list has.                      *)
THEOREM IInvHolds == Spec => []IInv
  BY InitIInv, StepIInv, PTL DEF Spec

(* Every variable has its type. *)
THEOREM TypeCorrect == Spec => []TypeOK
<1>1. IInv => TypeOK  BY DEF IInv
<1> QED  BY <1>1, IInvHolds, PTL

(* poll_multi() never indexes past its list of applications. *)
THEOREM NeverOutOfRange == Spec => []NextInRange
<1>1. IInv => NextInRange  BY DEF IInv
<1> QED  BY <1>1, IInvHolds, PTL

(* A reply or a timeout is told to the application that asked. *)
THEOREM RepliesReachAskers == Spec => []ReplyReachesAsker
<1>1. IInv => ReplyReachesAsker  BY DEF IInv
<1> QED  BY <1>1, IInvHolds, PTL

(* Each application has one cycle before the token is passed early. *)
THEOREM CyclesOnce == Spec => []EachCycleOnce
<1>1. IInv => EachCycleOnce  BY DEF IInv
<1> QED  BY <1>1, IInvHolds, PTL

(* The events that the program took tell the list of a scanner. *)
THEOREM ViewsAreTrue == Spec => []ViewIsTrue
<1>1. IInv => ViewIsTrue
  BY DEF IInv, ViewOK, ViewIsTrue, Taken
<1> QED  BY <1>1, IInvHolds, PTL

=============================================================================
