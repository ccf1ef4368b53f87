---------------------------- MODULE FdlRingProofs ----------------------------
(***************************************************************************)
(* Invariants of FdlRing for any number of stations, any addresses, any    *)
(* HSA, and any number of faults.                                          *)
(***************************************************************************)
EXTENDS FdlRing, TokenRingProofs, FiniteSetTheorems, SequenceTheorems, TLAPS

Conns == {"Offline", "Online", "Panicked"}

AwaitingKinds == {"ClaimAwaitResponse", "AwaitStatusResponse"}

(* What holds of one station: its connectivity c, State x, ring r and gap  *)
(* state g.  Every action changes these of one station only.               *)
StationOK(s, c, x, r, g) ==
  /\ c \in Conns /\ x \in States /\ r \in Rings /\ g \in GapStates
  /\ r.this = Address[s] /\ Consistent(r)
  /\ x.kind \notin {"Offline", "ListenToken"} => ReadyForRing(r)
  /\ x.kind \in AwaitingKinds => g = DoPoll(x.address)

StationsOK ==
  /\ conn \in [Stations -> Conns] /\ st \in [Stations -> States]
  /\ ring \in [Stations -> Rings] /\ gap \in [Stations -> GapStates]
  /\ \A s \in Stations : StationOK(s, conn[s], st[s], ring[s], gap[s])

BusOK ==
  /\ quiet \in [Stations -> Nat]
  /\ rx \in [Stations -> Seq(Telegrams)]
  /\ fresh \in [Stations -> BOOLEAN]
  /\ asked \subseteq Telegrams
  /\ losses \in 0 .. MaxLoss

BoundsOK == lates \in 0 .. MaxLate /\ offs \in 0 .. MaxOff

(* The inductive invariant. *)
IInv == StationsOK /\ BusOK /\ BoundsOK

------------------------------------------------------------------------------
(* Records *)

(* The addresses of the configuration are addresses, and below HSA. *)
LEMMA ConstantTypes ==
  /\ \A s \in Stations : Address[s] \in StationAddress /\ Address[s] \in BusAddress
                         /\ Address[s] \in 0 .. HSA - 1 /\ LostTimeout(s) \in Nat
  /\ Slaves \subseteq BusAddress
  /\ 0 .. HSA - 1 \subseteq BusAddress
  /\ HSA \in Nat /\ HSA >= 1 /\ GapWait \in Nat
  /\ MaxCycles \in Nat /\ MaxLoss \in Nat /\ MaxLate \in Nat /\ MaxOff \in Nat
<1>1. HSA \in Nat /\ HSA >= 1 /\ HSA <= 126 /\ GapWait \in Nat
  BY FdlAssumption
<1>2. 0 .. HSA - 1 \subseteq BusAddress /\ 0 .. HSA - 1 \subseteq StationAddress
  BY <1>1 DEF BusAddress, StationAddress
<1>3. \A s \in Stations : Address[s] \in 0 .. HSA - 1
  BY FdlAssumption
<1>4. \A s \in Stations : LostTimeout(s) \in Nat
  BY <1>1, <1>3 DEF LostTimeout
<1>5. Slaves \subseteq BusAddress
  BY FdlAssumption DEF BusAddress, StationAddress
<1> QED  BY <1>1, <1>2, <1>3, <1>4, <1>5, FdlAssumption

(* Every telegram that a station or a slave builds is a telegram. *)
LEMMA TelegramTypes ==
  /\ \A sa \in BusAddress, da \in BusAddress :
       /\ Token(sa, da) \in Telegrams
       /\ StatusRequest(sa, da) \in Telegrams
       /\ DataRequest(sa, da) \in Telegrams
       /\ \A x \in ResponseStates : Response(sa, da, x) \in Telegrams
  /\ ShortConfirmation \in Telegrams
  /\ \A tg \in Telegrams : tg.kind # "ShortConfirmation"
                             => tg.sa \in BusAddress /\ tg.da \in BusAddress
BY DEF Token, StatusRequest, DataRequest, Response, ShortConfirmation, Telegrams,
       TelegramKinds, ResponseStates

(* The states a station is put into are States, of the kind they name. *)
LEMMA StateTypes ==
  /\ \A k \in StateKinds : State(k) \in States /\ State(k).kind = k
  /\ \A k \in StateKinds, a \in BusAddress :
       /\ Awaiting(k, a) \in States
       /\ Awaiting(k, a).kind = k /\ Awaiting(k, a).address = a
  /\ \A c \in 0 .. MaxCycles : UseToken(c) \in States /\ UseToken(c).kind = "UseToken"
  /\ \A a \in BusAddress, c \in 0 .. MaxCycles :
       AwaitData(a, c) \in States /\ AwaitData(a, c).kind = "AwaitDataResponse"
  /\ \A b \in BOOLEAN : PassToken(b) \in States /\ PassToken(b).kind = "PassToken"
  /\ \A n \in 1 .. 3 :
       CheckTokenPass(n) \in States /\ CheckTokenPass(n).kind = "CheckTokenPass"
<1>1. \A k \in StateKinds : State(k) \in States /\ State(k).kind = k
  BY ConstantTypes DEF State, States, Nobody, BusAddress
<1>2. \A k \in StateKinds, a \in BusAddress :
       /\ Awaiting(k, a) \in States
       /\ Awaiting(k, a).kind = k /\ Awaiting(k, a).address = a
  BY <1>1 DEF Awaiting, States, State
<1>3. \A c \in 0 .. MaxCycles : UseToken(c) \in States /\ UseToken(c).kind = "UseToken"
  BY <1>1 DEF UseToken, States, State, StateKinds
<1>4. \A a \in BusAddress, c \in 0 .. MaxCycles :
        AwaitData(a, c) \in States /\ AwaitData(a, c).kind = "AwaitDataResponse"
  BY <1>1 DEF AwaitData, States, State, StateKinds
<1>5. \A b \in BOOLEAN : PassToken(b) \in States /\ PassToken(b).kind = "PassToken"
  BY <1>1 DEF PassToken, States, State, StateKinds
<1>6. \A n \in 1 .. 3 :
        CheckTokenPass(n) \in States /\ CheckTokenPass(n).kind = "CheckTokenPass"
  BY <1>1 DEF CheckTokenPass, States, State, StateKinds
<1> QED  BY <1>1, <1>2, <1>3, <1>4, <1>5, <1>6

(* A GAP state that polls is the poll of its address. *)
LEMMA GapTypes ==
  /\ \A g \in GapStates : /\ g.poll \in BOOLEAN
                          /\ g.poll => g.n \in 0 .. HSA - 1 /\ g = DoPoll(g.n)
                          /\ ~g.poll => g.n \in 0 .. GapWait + 1 /\ g = Waiting(g.n)
  /\ \A x \in 0 .. HSA - 1 : DoPoll(x) \in GapStates /\ DoPoll(x).poll /\ DoPoll(x).n = x
  /\ \A x \in 0 .. GapWait + 1 : Waiting(x) \in GapStates /\ ~Waiting(x).poll
  /\ Waiting(0) \in GapStates
<1>1. 0 \in 0 .. GapWait + 1
  BY ConstantTypes
<1>2. \A x \in 0 .. HSA - 1 : DoPoll(x) \in GapStates
  BY DEF GapStates
<1>3. \A x \in 0 .. GapWait + 1 : Waiting(x) \in GapStates
  BY DEF GapStates
<1>4. \A x : DoPoll(x).poll /\ DoPoll(x).n = x /\ ~Waiting(x).poll /\ Waiting(x).n = x
  BY DEF DoPoll, Waiting
<1>5. ASSUME NEW g \in GapStates
      PROVE  /\ g.poll \in BOOLEAN
             /\ g.poll => g.n \in 0 .. HSA - 1 /\ g = DoPoll(g.n)
             /\ ~g.poll => g.n \in 0 .. GapWait + 1 /\ g = Waiting(g.n)
  <2>1. CASE \E x \in 0 .. HSA - 1 : g = DoPoll(x)
    <3>1. PICK x \in 0 .. HSA - 1 : g = DoPoll(x)
      BY <2>1
    <3>2. g.poll = TRUE /\ g.n = x
      BY <3>1 DEF DoPoll
    <3> QED  BY <3>1, <3>2
  <2>2. CASE \E x \in 0 .. GapWait + 1 : g = Waiting(x)
    <3>1. PICK x \in 0 .. GapWait + 1 : g = Waiting(x)
      BY <2>2
    <3>2. g.poll = FALSE /\ g.n = x
      BY <3>1 DEF Waiting
    <3> QED  BY <3>1, <3>2
  <2> QED  BY <2>1, <2>2 DEF GapStates
<1> QED  BY <1>1, <1>2, <1>3, <1>4, <1>5

(* Polls stay below HSA. *)
LEMMA NextGapPollType ==
  ASSUME NEW r, NEW current \in 0 .. HSA - 1
  PROVE  NextGapPoll(r, current) \in GapStates
<1> DEFINE next == IF current = HSA - 1 THEN 0 ELSE current + 1
<1>1. next \in 0 .. HSA - 1
  BY ConstantTypes
<1>2. NextGapPoll(r, current) \in {Waiting(0), DoPoll(next)}
  BY DEF NextGapPoll
<1> QED
  <2> HIDE DEF next
  <2> QED  BY <1>1, <1>2, GapTypes

------------------------------------------------------------------------------
(* The bus *)

(* Whatever is garbled, a transmission leaves buffers of telegrams. *)
LEMMA TransmitType ==
  ASSUME BusOK, NEW from, NEW tg \in Telegrams, Transmit(from, tg)
  PROVE  /\ rx' \in [Stations -> Seq(Telegrams)]
         /\ fresh' \in [Stations -> BOOLEAN]
         /\ losses' \in 0 .. MaxLoss
<1> DEFINE R(garbled) == [r \in Stations |-> IF r \in Hearers(from) \ garbled
                                             THEN Append(rx[r], tg) ELSE rx[r]]
           F(g, n) == [r \in Stations |->
                         r # from /\ (fresh[r] \/ r \in (Hearers(from) \ g) \cup n)]
<1>1. PICK garbled \in {g \in SUBSET Hearers(from) : losses + Cardinality(g) <= MaxLoss} :
        /\ losses' = losses + Cardinality(garbled)
        /\ rx' = R(garbled)
        /\ \E noticed \in SUBSET garbled : fresh' = F(garbled, noticed)
  BY DEF Transmit
<1>2. Cardinality(garbled) \in Nat
  <2>1. garbled \in SUBSET Stations
    BY DEF Hearers
  <2>2. IsFiniteSet(garbled)
    BY <2>1, FS_Subset, FdlAssumption
  <2> QED  BY <2>2, FS_CardinalityType
<1>3. \A r \in Stations : Append(rx[r], tg) \in Seq(Telegrams) /\ rx[r] \in Seq(Telegrams)
  BY AppendProperties DEF BusOK
<1>4. losses' \in 0 .. MaxLoss
  BY <1>1, <1>2, ConstantTypes DEF BusOK
<1> QED  BY <1>1, <1>3, <1>4

(* A station that sends leaves the bus as well-formed as it was, ... *)
LEMMA SendType ==
  ASSUME BusOK, NEW s \in Stations, NEW tg \in Telegrams, Send(s, tg)
  PROVE  BusOK'
<1>1. Transmit(s, tg)
  BY DEF Send
<1>2. /\ rx' \in [Stations -> Seq(Telegrams)]
      /\ fresh' \in [Stations -> BOOLEAN]
      /\ losses' \in 0 .. MaxLoss
  BY <1>1, TransmitType
<1>3. quiet' \in [Stations -> Nat] /\ asked' \subseteq Telegrams
  BY DEF Send, BusOK
<1> QED  BY <1>2, <1>3 DEF BusOK

(* ... and so does a poll that only notices activity, ... *)
LEMMA SilentType ==
  ASSUME BusOK, NEW s \in Stations, Silent(s)
  PROVE  BusOK'
BY DEF Silent, BusOK

(* ... that takes one telegram, which is a telegram, out of the buffer, ... *)
LEMMA ReceiveType ==
  ASSUME BusOK, NEW s \in Stations, Receive(s)
  PROVE  BusOK' /\ Head(rx[s]) \in Telegrams
<1>1. rx[s] \in Seq(Telegrams) /\ rx[s] # <<>>
  BY DEF BusOK, Receive
<1>2. Head(rx[s]) \in Telegrams /\ Tail(rx[s]) \in Seq(Telegrams)
  BY <1>1, HeadTailProperties
<1>3. rx' \in [Stations -> Seq(Telegrams)]
  BY <1>2 DEF BusOK, Receive
<1>4. quiet' \in [Stations -> Nat] /\ fresh' \in [Stations -> BOOLEAN]
  BY DEF BusOK, Receive
<1> QED  BY <1>2, <1>3, <1>4 DEF BusOK, Receive

(* ... or that empties the buffer. *)
LEMMA DrainType ==
  ASSUME BusOK, NEW s \in Stations, Drain(s)
  PROVE  BusOK'
<1>1. rx' \in [Stations -> Seq(Telegrams)]
  BY EmptySeq DEF BusOK, Drain
<1> QED  BY <1>1 DEF BusOK, Drain

------------------------------------------------------------------------------
(* One station changes, to the values c, x, r and g. *)
Changes(s, c, x, r, g) ==
  /\ conn' = [conn EXCEPT ![s] = c] /\ st' = [st EXCEPT ![s] = x]
  /\ ring' = [ring EXCEPT ![s] = r] /\ gap' = [gap EXCEPT ![s] = g]

(* A step that changes one station preserves what holds of each of them. *)
LEMMA ChangeOne ==
  ASSUME StationsOK, NEW s \in Stations, NEW c, NEW x, NEW r, NEW g,
         StationOK(s, c, x, r, g), Changes(s, c, x, r, g)
  PROVE  StationsOK'
<1>1. c \in Conns /\ x \in States /\ r \in Rings /\ g \in GapStates
  BY DEF StationOK
<1>2. /\ conn' \in [Stations -> Conns] /\ st' \in [Stations -> States]
      /\ ring' \in [Stations -> Rings] /\ gap' \in [Stations -> GapStates]
  BY <1>1 DEF StationsOK, Changes
<1>3. ASSUME NEW t \in Stations
      PROVE  StationOK(t, conn'[t], st'[t], ring'[t], gap'[t])
  <2>1. CASE t = s
    <3>1. conn'[s] = c /\ st'[s] = x /\ ring'[s] = r /\ gap'[s] = g
      BY DEF StationsOK, Changes
    <3> QED  BY <2>1, <3>1
  <2>2. CASE t # s
    <3>1. conn'[t] = conn[t] /\ st'[t] = st[t] /\ ring'[t] = ring[t] /\ gap'[t] = gap[t]
      BY <2>2 DEF StationsOK, Changes
    <3> QED  BY <3>1 DEF StationsOK
  <2> QED  BY <2>1, <2>2
<1> QED  BY <1>2, <1>3 DEF StationsOK, StationOK

(* What is UNCHANGED is a change to the same. *)
LEMMA SameIsChange ==
  ASSUME StationsOK, NEW s \in Stations
  PROVE  /\ conn = [conn EXCEPT ![s] = conn[s]] /\ st = [st EXCEPT ![s] = st[s]]
         /\ ring = [ring EXCEPT ![s] = ring[s]] /\ gap = [gap EXCEPT ![s] = gap[s]]
         /\ StationOK(s, conn[s], st[s], ring[s], gap[s])
BY DEF StationsOK

(* A step that changes no station does so all the more. *)
LEMMA SameStations ==
  ASSUME StationsOK, UNCHANGED stationVars
  PROVE  StationsOK'
BY DEF StationsOK, StationOK, stationVars

------------------------------------------------------------------------------
(* The actions of connectivity *)

(* set_online() preserves the invariant of the station. *)
LEMMA SetOnlineOK ==
  ASSUME StationsOK, BusOK, NEW s \in Stations, SetOnline(s)
  PROVE  StationsOK' /\ BusOK'
<1>1. StationOK(s, "Online", st[s], ring[s], gap[s])
  BY SameIsChange DEF StationOK, Conns
<1>2. Changes(s, "Online", st[s], ring[s], gap[s])
  BY SameIsChange DEF SetOnline, Changes
<1>3. StationsOK'
  BY <1>1, <1>2, ChangeOne
<1>4. BusOK'
  BY DEF SetOnline, busVars, BusOK
<1> QED  BY <1>3, <1>4

(* So does a new FdlActiveStation in its place: FdlActiveStation::new(). *)
LEMMA RecreateOK ==
  ASSUME StationsOK, NEW s \in Stations, NEW c \in Conns, Recreate(s, c)
  PROVE  StationsOK'
<1> DEFINE x == State("Offline")
           r == NewRing(Address[s])
           g == DoPoll(Address[s])
<1>1. x \in States /\ x.kind = "Offline"
  BY StateTypes DEF StateKinds
<1>2. r \in Rings /\ Consistent(r) /\ r.this = Address[s]
  BY NewRingType, ConstantTypes DEF NewRing
<1>3. g \in GapStates
  BY GapTypes, ConstantTypes
<1>4. Changes(s, c, x, r, g)
  BY DEF Recreate, Become, SetRing, SetGap, Changes
<1>5. StationOK(s, c, x, r, g)
  BY <1>1, <1>2, <1>3 DEF StationOK, AwaitingKinds
<1> QED  BY <1>4, <1>5, ChangeOne

(* set_offline() preserves the invariant of the station and of the bus. *)
LEMMA SetOfflineOK ==
  ASSUME StationsOK, BusOK, NEW s \in Stations, SetOffline(s)
  PROVE  StationsOK' /\ BusOK'
<1>1. StationsOK'
  BY RecreateOK DEF SetOffline, Conns
<1>2. rx' \in [Stations -> Seq(Telegrams)]
  BY EmptySeq DEF SetOffline, BusOK
<1> QED  BY <1>1, <1>2 DEF SetOffline, BusOK

(* The first poll after going online preserves it. *)
LEMMA EnterListenTokenOK ==
  ASSUME StationsOK, BusOK, NEW s \in Stations, EnterListenToken(s)
  PROVE  StationsOK' /\ BusOK'
<1> DEFINE x == State("ListenToken")
<1>1. x \in States /\ x.kind = "ListenToken"
  BY StateTypes DEF StateKinds
<1>2. StationOK(s, conn[s], x, ring[s], gap[s])
  BY <1>1, SameIsChange DEF StationOK, AwaitingKinds
<1>3. Changes(s, conn[s], x, ring[s], gap[s])
  BY SameIsChange DEF EnterListenToken, Become, Changes
<1>4. StationsOK'
  BY <1>2, <1>3, ChangeOne
<1> QED  BY <1>4, SilentType DEF EnterListenToken

------------------------------------------------------------------------------
(* The actions of a station that claims the token *)

(* Claiming the token makes the LAS valid, so the ring may be entered. *)
LEMMA ClaimTokenOK ==
  ASSUME StationsOK, BusOK, NEW s \in Stations,
         NEW k \in {"ClaimSecondToken", "ClaimScan"}, ClaimToken(s, k)
  PROVE  StationsOK' /\ BusOK'
<1> DEFINE x == State(k)
           r == ClaimTokenRing(ring[s])
           g == DoPoll(Address[s])
<1>1. x \in States /\ x.kind = k
  BY StateTypes DEF StateKinds
<1>2. /\ ring[s] \in Rings /\ ring[s].this = Address[s] /\ Consistent(ring[s])
      /\ conn[s] \in Conns
  BY SameIsChange DEF StationOK
<1>3. r \in Rings /\ r.this = Address[s] /\ Consistent(r) /\ ReadyForRing(r)
  BY <1>2, ClaimKeepsRing
<1>4. g \in GapStates
  BY GapTypes, ConstantTypes
<1>5. StationOK(s, conn[s], x, r, g)
  BY <1>1, <1>2, <1>3, <1>4 DEF StationOK, AwaitingKinds
<1>6. Changes(s, conn[s], x, r, g)
  BY SameIsChange DEF ClaimToken, Become, SetRing, SetGap, Changes
<1>7. StationsOK'
  BY <1>5, <1>6, ChangeOne
<1>8. Token(Address[s], Address[s]) \in Telegrams
  BY TelegramTypes, ConstantTypes
<1> QED  BY <1>7, <1>8, SendType DEF ClaimToken

(* A step of the GAP scan polls the address that gap_state moves to. *)
LEMMA ScanOK ==
  ASSUME StationsOK, BusOK, NEW s \in Stations, Scan(s), InRing(s)
  PROVE  StationsOK' /\ BusOK'
<1> DEFINE g == NextGapPoll(ring[s], gap[s].n)
<1>1. /\ StationOK(s, conn[s], st[s], ring[s], gap[s])
      /\ conn = [conn EXCEPT ![s] = conn[s]]
      /\ ring = [ring EXCEPT ![s] = ring[s]] /\ gap = [gap EXCEPT ![s] = gap[s]]
  BY SameIsChange
<1>2. ReadyForRing(ring[s])
  BY <1>1 DEF StationOK, InRing
<1>3. CASE ~gap[s].poll /\ Become(s, PassToken(FALSE)) /\ Silent(s) /\ UNCHANGED gap
  <2>1. PassToken(FALSE) \in States /\ PassToken(FALSE).kind = "PassToken"
    BY StateTypes
  <2>2. StationOK(s, conn[s], PassToken(FALSE), ring[s], gap[s])
    BY <1>1, <1>2, <2>1 DEF StationOK, AwaitingKinds
  <2>3. Changes(s, conn[s], PassToken(FALSE), ring[s], gap[s])
    BY <1>1, <1>3 DEF Scan, Become, Changes
  <2> QED  BY <1>3, <2>2, <2>3, ChangeOne, SilentType
<1>4. CASE /\ gap[s].poll /\ g.poll /\ SetGap(s, g)
           /\ Send(s, StatusRequest(Address[s], g.n))
           /\ Become(s, Awaiting("ClaimAwaitResponse", g.n))
  <2> DEFINE x == Awaiting("ClaimAwaitResponse", g.n)
  <2>1. g \in GapStates
    BY <1>1, <1>4, GapTypes, NextGapPollType DEF StationOK
  <2>2. g.n \in BusAddress /\ g = DoPoll(g.n)
    BY <1>4, <2>1, GapTypes, ConstantTypes
  <2>3. x \in States /\ x.kind = "ClaimAwaitResponse" /\ x.address = g.n
    BY <2>2, StateTypes DEF StateKinds
  <2>4. StationOK(s, conn[s], x, ring[s], g)
    BY <1>1, <1>2, <2>1, <2>2, <2>3 DEF StationOK
  <2>5. Changes(s, conn[s], x, ring[s], g)
    BY <1>1, <1>4 DEF Scan, Become, SetGap, Changes
  <2>6. StatusRequest(Address[s], g.n) \in Telegrams
    BY <2>2, TelegramTypes, ConstantTypes
  <2> QED  BY <1>4, <2>4, <2>5, <2>6, ChangeOne, SendType
<1>5. CASE /\ gap[s].poll /\ ~g.poll /\ SetGap(s, g)
           /\ Become(s, State("ClaimScan")) /\ Silent(s)
  <2>1. g \in GapStates
    BY <1>1, <1>5, GapTypes, NextGapPollType DEF StationOK
  <2>2. State("ClaimScan") \in States /\ State("ClaimScan").kind = "ClaimScan"
    BY StateTypes DEF StateKinds
  <2>3. StationOK(s, conn[s], State("ClaimScan"), ring[s], g)
    BY <1>1, <1>2, <2>1, <2>2 DEF StationOK, AwaitingKinds
  <2>4. Changes(s, conn[s], State("ClaimScan"), ring[s], g)
    BY <1>1, <1>5 DEF Scan, Become, SetGap, Changes
  <2> QED  BY <1>5, <2>3, <2>4, ChangeOne, SilentType
<1> QED  BY <1>3, <1>4, <1>5 DEF Scan

(* A response to a GAP poll may only enter a station in the LAS. *)
LEMMA GapPollResponseOK ==
  ASSUME StationsOK, BusOK, NEW s \in Stations,
         NEW x \in {State("ClaimScan"), PassToken(FALSE)}, GapPollResponse(s, x), InRing(s)
  PROVE  StationsOK' /\ BusOK'
<1> DEFINE tg == Head(rx[s])
           answers == tg.kind = "Response" /\ tg.sa = st[s].address /\ tg.da = Address[s]
           n == IF tg.state \in {"WithoutToken", "InRing"}
                THEN SetNextStation(ring[s], tg.sa) ELSE ring[s]
<1>1. /\ StationOK(s, conn[s], st[s], ring[s], gap[s])
      /\ conn = [conn EXCEPT ![s] = conn[s]]
      /\ ring = [ring EXCEPT ![s] = ring[s]] /\ gap = [gap EXCEPT ![s] = gap[s]]
  BY SameIsChange
<1>2. ReadyForRing(ring[s])
  BY <1>1 DEF StationOK, InRing
<1>3. BusOK' /\ tg \in Telegrams
  BY ReceiveType DEF GapPollResponse
<1>4. x \in States /\ x.kind \in {"ClaimScan", "PassToken"}
  <2>1. State("ClaimScan") \in States /\ State("ClaimScan").kind = "ClaimScan"
    BY StateTypes DEF StateKinds
  <2>2. PassToken(FALSE) \in States /\ PassToken(FALSE).kind = "PassToken"
    BY StateTypes
  <2> QED  BY <2>1, <2>2
<1>5. CASE answers /\ SetRing(s, n) /\ Become(s, x)
  <2>1. tg.sa \in BusAddress
    BY <1>3, <1>5, TelegramTypes
  <2> HIDE DEF tg
  <2>2. n \in Rings /\ n.this = Address[s] /\ Consistent(n) /\ ReadyForRing(n)
    BY <1>1, <1>2, <2>1, SetNextStationSetsNext DEF StationOK, ReadyForRing
  <2> HIDE DEF n
  <2>3. StationOK(s, conn[s], x, n, gap[s])
    BY <1>1, <1>4, <2>2 DEF StationOK, AwaitingKinds
  <2>4. Changes(s, conn[s], x, n, gap[s])
    BY <1>1, <1>5 DEF GapPollResponse, Become, SetRing, Changes
  <2> QED  BY <1>3, <2>3, <2>4, ChangeOne
<1>6. CASE Become(s, State("ActiveIdle")) /\ UNCHANGED ring
  <2>1. State("ActiveIdle") \in States /\ State("ActiveIdle").kind = "ActiveIdle"
    BY StateTypes DEF StateKinds
  <2>2. StationOK(s, conn[s], State("ActiveIdle"), ring[s], gap[s])
    BY <1>1, <1>2, <2>1 DEF StationOK, AwaitingKinds
  <2>3. Changes(s, conn[s], State("ActiveIdle"), ring[s], gap[s])
    BY <1>1, <1>6 DEF GapPollResponse, Become, Changes
  <2> QED  BY <1>3, <2>2, <2>3, ChangeOne
<1> QED  BY <1>5, <1>6 DEF GapPollResponse

------------------------------------------------------------------------------
(* The actions of a station that uses the token *)

(* A change of the State alone, to one that is not waiting for a status    *)
(* response, by a station of the ring or to a State outside the ring. *)
LEMMA BecomeOK ==
  ASSUME StationsOK, NEW s \in Stations, NEW x \in States, x.kind \notin AwaitingKinds,
         x.kind \in {"Offline", "ListenToken"} \/ ReadyForRing(ring[s]),
         Become(s, x), UNCHANGED <<conn, ring, gap>>
  PROVE  StationsOK'
<1>1. StationOK(s, conn[s], x, ring[s], gap[s])
  BY SameIsChange DEF StationOK
<1>2. Changes(s, conn[s], x, ring[s], gap[s])
  BY SameIsChange DEF Become, Changes
<1> QED  BY <1>1, <1>2, ChangeOne

(* A station that is neither offline nor listening has a valid LAS. *)
LEMMA MemberIsReady ==
  ASSUME StationsOK, NEW s \in Stations, InRing(s)
  PROVE  ReadyForRing(ring[s])
BY SameIsChange DEF StationOK, InRing

(* A message cycle, or its end, preserves the invariant. *)
LEMMA UseTokenOrPassOK ==
  ASSUME StationsOK, BusOK, NEW s \in Stations, UseTokenOrPass(s), InRing(s)
  PROVE  StationsOK' /\ BusOK'
<1>1. ReadyForRing(ring[s]) /\ UNCHANGED <<conn, ring, gap>>
  BY MemberIsReady DEF UseTokenOrPass
<1>2. st[s].cycles \in 0 .. MaxCycles
  BY DEF StationsOK, States
<1>3. st[s].cycles > 0 => st[s].cycles - 1 \in 0 .. MaxCycles
  BY <1>2, ConstantTypes
<1>4. ASSUME st[s].cycles > 0, NEW slave \in Slaves,
             Send(s, DataRequest(Address[s], slave)),
             Become(s, AwaitData(slave, st[s].cycles - 1))
      PROVE  StationsOK' /\ BusOK'
  <2> DEFINE x == AwaitData(slave, st[s].cycles - 1)
  <2>1. slave \in BusAddress
    BY ConstantTypes
  <2>2. x \in States /\ x.kind = "AwaitDataResponse"
    BY <1>3, <1>4, <2>1, StateTypes
  <2>3. StationsOK'
    BY <1>1, <1>4, <2>2, BecomeOK DEF AwaitingKinds
  <2>4. DataRequest(Address[s], slave) \in Telegrams
    BY <2>1, TelegramTypes, ConstantTypes
  <2> QED  BY <1>4, <2>3, <2>4, SendType
<1>5. ASSUME st[s].cycles > 0, Send(s, DataRequest(Address[s], Broadcast)),
             Become(s, UseToken(st[s].cycles - 1))
      PROVE  StationsOK' /\ BusOK'
  <2> DEFINE x == UseToken(st[s].cycles - 1)
  <2>1. x \in States /\ x.kind = "UseToken"
    BY <1>3, <1>5, StateTypes
  <2>2. StationsOK'
    BY <1>1, <1>5, <2>1, BecomeOK DEF AwaitingKinds
  <2>3. Broadcast \in BusAddress
    BY DEF Broadcast, BusAddress
  <2>4. DataRequest(Address[s], Broadcast) \in Telegrams
    BY <2>3, TelegramTypes, ConstantTypes
  <2> QED  BY <1>5, <2>2, <2>4, SendType
<1>6. ASSUME Become(s, PassToken(TRUE)), Silent(s)
      PROVE  StationsOK' /\ BusOK'
  <2>1. PassToken(TRUE) \in States /\ PassToken(TRUE).kind = "PassToken"
    BY StateTypes
  <2> QED  BY <1>1, <1>6, <2>1, BecomeOK, SilentType DEF AwaitingKinds
<1> QED  BY <1>4, <1>5, <1>6 DEF UseTokenOrPass

(* A reply in a message cycle preserves it, valid or not. *)
LEMMA DataReplyOK ==
  ASSUME StationsOK, BusOK, NEW s \in Stations, DataReply(s), InRing(s)
  PROVE  StationsOK' /\ BusOK'
<1>1. ReadyForRing(ring[s]) /\ UNCHANGED <<conn, ring, gap>>
  BY MemberIsReady DEF DataReply
<1>2. BusOK'
  BY ReceiveType DEF DataReply
<1>3. UseToken(st[s].cycles) \in States /\ UseToken(st[s].cycles).kind = "UseToken"
  BY StateTypes DEF StationsOK, States
<1>4. State("ActiveIdle") \in States /\ State("ActiveIdle").kind = "ActiveIdle"
  BY StateTypes DEF StateKinds
<1>5. Become(s, UseToken(st[s].cycles)) \/ Become(s, State("ActiveIdle"))
  BY DEF DataReply
<1>6. CASE Become(s, UseToken(st[s].cycles))
  BY <1>1, <1>2, <1>3, <1>6, BecomeOK DEF AwaitingKinds
<1>7. CASE Become(s, State("ActiveIdle"))
  BY <1>1, <1>2, <1>4, <1>7, BecomeOK DEF AwaitingKinds
<1> QED  BY <1>2, <1>5, <1>6, <1>7

------------------------------------------------------------------------------
(* The actions that pass the token *)

(* Passing the token preserves it, to ourselves or to NS. *)
LEMMA SendTokenOK ==
  ASSUME StationsOK, BusOK, NEW s \in Stations, NEW r \in Rings,
         r.this = Address[s], Consistent(r), ReadyForRing(r),
         NEW attempt \in 1 .. 3, NEW g \in GapStates,
         SendToken(s, r, attempt), gap' = [gap EXCEPT ![s] = g]
  PROVE  StationsOK' /\ BusOK'
<1> DEFINE passed == WitnessTokenPass(r, Address[s], r.next)
           x == IF passed.next = Address[s] THEN UseToken(MaxCycles)
                                            ELSE CheckTokenPass(attempt)
<1>1. /\ passed \in Rings /\ passed.this = Address[s] /\ Consistent(passed)
      /\ ReadyForRing(passed)
  BY WitnessKeepsRing
<1>2. x \in States /\ x.kind \in {"UseToken", "CheckTokenPass"}
  <2>1. MaxCycles \in 0 .. MaxCycles
    BY ConstantTypes
  <2>2. UseToken(MaxCycles) \in States /\ UseToken(MaxCycles).kind = "UseToken"
    BY <2>1, StateTypes
  <2>3. CheckTokenPass(attempt) \in States /\ CheckTokenPass(attempt).kind = "CheckTokenPass"
    BY StateTypes
  <2> QED  BY <2>2, <2>3
<1>3. /\ Send(s, Token(Address[s], r.next)) /\ SetRing(s, passed) /\ Become(s, x)
      /\ UNCHANGED conn
  BY DEF SendToken
<1> HIDE DEF passed, x
<1>4. StationOK(s, conn[s], x, passed, g)
  BY <1>1, <1>2, SameIsChange DEF StationOK, AwaitingKinds
<1>5. Changes(s, conn[s], x, passed, g)
  BY <1>3, SameIsChange DEF SetRing, Become, Changes
<1>6. Token(Address[s], r.next) \in Telegrams
  BY TelegramTypes, ConstantTypes DEF Rings
<1> QED  BY <1>3, <1>4, <1>5, <1>6, ChangeOne, SendType

(* The gap_state after a rotation is a GapState. *)
LEMMA GapOfRotationType ==
  ASSUME StationsOK, NEW s \in Stations
  PROVE  GapOfRotation(s) \in GapStates
<1>1. gap[s] \in GapStates
  BY DEF StationsOK
<1>2. CASE gap[s].poll
  BY <1>1, <1>2, GapTypes, NextGapPollType DEF GapOfRotation
<1>3. CASE ~gap[s].poll /\ gap[s].n > GapWait
  BY <1>3, ConstantTypes, NextGapPollType DEF GapOfRotation
<1>4. CASE ~gap[s].poll /\ ~(gap[s].n > GapWait)
  <2>1. gap[s].n + 1 \in 0 .. GapWait + 1
    BY <1>1, <1>4, GapTypes, ConstantTypes
  <2> QED  BY <1>4, <2>1, GapTypes DEF GapOfRotation
<1> QED  BY <1>2, <1>3, <1>4

(* do_pass_token() preserves the invariant, with or without a GAP poll. *)
LEMMA PassTheTokenOK ==
  ASSUME StationsOK, BusOK, NEW s \in Stations, PassTheToken(s)
  PROVE  StationsOK' /\ BusOK'
<1> DEFINE g == GapOfRotation(s)
<1>1. /\ StationOK(s, conn[s], st[s], ring[s], gap[s])
      /\ conn = [conn EXCEPT ![s] = conn[s]]
      /\ ring = [ring EXCEPT ![s] = ring[s]] /\ gap = [gap EXCEPT ![s] = gap[s]]
  BY SameIsChange
<1>2. ReadyForRing(ring[s])
  BY MemberIsReady DEF PassTheToken, InRing
<1>3. g \in GapStates
  BY GapOfRotationType
<1>4. ring[s] \in Rings /\ ring[s].this = Address[s] /\ Consistent(ring[s])
  BY <1>1 DEF StationOK
<1>5. st[s].attempt \in 1 .. 3 /\ gap[s] \in GapStates
  BY <1>1 DEF StationOK, States
<1>6. ASSUME g.poll, SetGap(s, g), Send(s, StatusRequest(Address[s], g.n)),
             Become(s, Awaiting("AwaitStatusResponse", g.n)), UNCHANGED <<conn, ring>>
      PROVE  StationsOK' /\ BusOK'
  <2> DEFINE x == Awaiting("AwaitStatusResponse", g.n)
  <2>1. g.n \in BusAddress /\ g = DoPoll(g.n)
    BY <1>3, <1>6, GapTypes, ConstantTypes
  <2>2. x \in States /\ x.kind = "AwaitStatusResponse" /\ x.address = g.n
    BY <2>1, StateTypes DEF StateKinds
  <2>3. StationOK(s, conn[s], x, ring[s], g)
    BY <1>1, <1>2, <1>3, <2>1, <2>2 DEF StationOK
  <2>4. Changes(s, conn[s], x, ring[s], g)
    BY <1>1, <1>6 DEF Become, SetGap, Changes
  <2>5. StatusRequest(Address[s], g.n) \in Telegrams
    BY <2>1, TelegramTypes, ConstantTypes
  <2> QED  BY <1>6, <2>3, <2>4, <2>5, ChangeOne, SendType
<1>7. ASSUME SetGap(s, g), SendToken(s, ring[s], 1)
      PROVE  StationsOK' /\ BusOK'
  <2>1. 1 \in 1 .. 3 /\ gap' = [gap EXCEPT ![s] = g]
    BY <1>7 DEF SetGap
  <2> HIDE DEF g
  <2> QED  BY <1>2, <1>3, <1>4, <1>7, <2>1, SendTokenOK
<1>8. ASSUME SendToken(s, ring[s], st[s].attempt), UNCHANGED gap
      PROVE  StationsOK' /\ BusOK'
  BY <1>1, <1>2, <1>4, <1>5, <1>8, SendTokenOK
<1> QED  BY <1>6, <1>7, <1>8 DEF PassTheToken

(* Repeating a token pass, or giving NS up, preserves it. *)
LEMMA RepeatTokenPassOK ==
  ASSUME StationsOK, BusOK, NEW s \in Stations, RepeatTokenPass(s)
  PROVE  StationsOK' /\ BusOK'
<1>1. /\ StationOK(s, conn[s], st[s], ring[s], gap[s])
      /\ gap' = [gap EXCEPT ![s] = gap[s]]
  BY SameIsChange DEF RepeatTokenPass
<1>2. ReadyForRing(ring[s])
  BY MemberIsReady DEF RepeatTokenPass, InRing
<1>3. ring[s] \in Rings /\ ring[s].this = Address[s] /\ Consistent(ring[s])
  BY <1>1 DEF StationOK
<1>4. st[s].attempt \in 1 .. 3 /\ gap[s] \in GapStates
  BY <1>1 DEF StationOK, States
<1>5. CASE st[s].attempt < 3 /\ SendToken(s, ring[s], st[s].attempt + 1)
  <2>1. st[s].attempt + 1 \in 1 .. 3
    BY <1>4, <1>5
  <2> QED  BY <1>1, <1>2, <1>3, <1>4, <1>5, <2>1, SendTokenOK
<1>6. CASE SendToken(s, RemoveStation(ring[s], ring[s].next), 1)
  <2> DEFINE r == RemoveStation(ring[s], ring[s].next)
  <2>1. r \in Rings /\ r.this = Address[s] /\ Consistent(r) /\ ReadyForRing(r)
    BY <1>2, <1>3, RemoveKeepsRing DEF ReadyForRing
  <2> HIDE DEF r
  <2>2. SendToken(s, r, 1) /\ 1 \in 1 .. 3
    BY <1>6 DEF r
  <2> QED  BY <1>1, <1>4, <2>1, <2>2, SendTokenOK
<1> QED  BY <1>5, <1>6 DEF RepeatTokenPass

------------------------------------------------------------------------------
(* The telegrams of a station that is, or becomes, idle *)

(* ActiveIdle keeps its shape while it notes requests and collisions. *)
LEMMA IdleStates ==
  ASSUME NEW x \in States
  PROVE  /\ [x EXCEPT !.collisions = 1] \in States
         /\ [x EXCEPT !.collisions = 0] \in States
         /\ [x EXCEPT !.request = Nobody] \in States
         /\ \A a \in BusAddress : /\ [x EXCEPT !.request = a] \in States
                                  /\ [x EXCEPT !.newPrev = a, !.collisions = 0] \in States
                                  /\ [x EXCEPT !.request = a].kind = x.kind
                                  /\ [x EXCEPT !.newPrev = a, !.collisions = 0].kind = x.kind
         /\ [x EXCEPT !.collisions = 1].kind = x.kind
         /\ [x EXCEPT !.collisions = 0].kind = x.kind
         /\ [x EXCEPT !.request = Nobody].kind = x.kind
<1>1. ASSUME NEW n \in 0 .. 1
      PROVE  [x EXCEPT !.collisions = n] \in States /\ [x EXCEPT !.collisions = n].kind = x.kind
  BY DEF States
<1>2. ASSUME NEW a \in BusAddress \cup {Nobody}
      PROVE  [x EXCEPT !.request = a] \in States /\ [x EXCEPT !.request = a].kind = x.kind
  BY DEF States
<1>3. ASSUME NEW a \in BusAddress \cup {Nobody}
      PROVE  /\ [x EXCEPT !.newPrev = a, !.collisions = 0] \in States
             /\ [x EXCEPT !.newPrev = a, !.collisions = 0].kind = x.kind
  <2>1. 0 \in 0 .. 1
    OBVIOUS
  <2> QED  BY <2>1 DEF States
<1>4. 0 \in 0 .. 1 /\ 1 \in 0 .. 1
  OBVIOUS
<1> QED  BY <1>1, <1>2, <1>3, <1>4

(* handle_telegram() preserves the invariant for every telegram. *)
LEMMA HandleTelegramOK ==
  ASSUME StationsOK, BusOK, NEW s \in Stations, InRing(s),
         NEW idle \in States, idle.kind = "ActiveIdle",
         NEW tg, tg = Head(rx[s]), HandleTelegram(s, idle, tg), UNCHANGED <<conn, gap>>
  PROVE  StationsOK' /\ BusOK'
<1>1. /\ StationOK(s, conn[s], st[s], ring[s], gap[s])
      /\ conn = [conn EXCEPT ![s] = conn[s]] /\ gap = [gap EXCEPT ![s] = gap[s]]
  BY SameIsChange
<1>2. ReadyForRing(ring[s]) /\ ring[s] \in Rings /\ ring[s].this = Address[s]
      /\ Consistent(ring[s])
  BY <1>1, MemberIsReady DEF StationOK
<1>3. UseToken(MaxCycles) \in States /\ UseToken(MaxCycles).kind = "UseToken"
  <2>1. MaxCycles \in 0 .. MaxCycles
    BY ConstantTypes
  <2> QED  BY <2>1, StateTypes
<1>4. ASSUME NEW x \in States, x.kind \in {"ListenToken", "ActiveIdle", "UseToken"},
             Become(s, x), UNCHANGED ring
      PROVE  StationsOK'
  BY <1>2, <1>4, BecomeOK DEF AwaitingKinds
<1>5. ASSUME NEW x \in States, x.kind \in {"ActiveIdle", "UseToken"}, Become(s, x),
             SetRing(s, WitnessTokenPass(ring[s], tg.sa, tg.da))
      PROVE  StationsOK'
  <2> DEFINE w == WitnessTokenPass(ring[s], tg.sa, tg.da)
  <2>1. w \in Rings /\ w.this = Address[s] /\ Consistent(w) /\ ReadyForRing(w)
    BY <1>2, WitnessKeepsRing
  <2>2. StationOK(s, conn[s], x, w, gap[s])
    BY <1>1, <1>5, <2>1 DEF StationOK, AwaitingKinds
  <2>3. Changes(s, conn[s], x, w, gap[s])
    BY <1>1, <1>5 DEF Become, SetRing, Changes
  <2> QED  BY <2>2, <2>3, ChangeOne
<1>6. CASE OwnTokenSeen(s, idle, tg)
  <2>1. BusOK'
    BY <1>6, ReceiveType, DrainType DEF OwnTokenSeen
  <2>2. State("ListenToken") \in States /\ State("ListenToken").kind = "ListenToken"
    BY StateTypes DEF StateKinds
  <2>3. StationsOK'
    BY <1>4, <1>6, <2>2, IdleStates DEF OwnTokenSeen
  <2> QED  BY <2>1, <2>3
<1>7. CASE TokenPassSeen(s, idle, tg)
  <2>1. BusOK'
    BY <1>7, ReceiveType DEF TokenPassSeen
  <2>2. StationsOK'
    BY <1>5, <1>7, IdleStates DEF TokenPassSeen
  <2> QED  BY <2>1, <2>2
<1>8. CASE TokenReceived(s, idle, tg)
  <2>1. BusOK' /\ tg \in Telegrams
    BY <1>8, ReceiveType DEF TokenReceived
  <2>2. tg.sa \in BusAddress
    BY <1>8, <2>1, TelegramTypes DEF TokenReceived
  <2>3. StationsOK'
    BY <1>3, <1>4, <1>5, <1>8, <2>2, IdleStates DEF TokenReceived
  <2> QED  BY <2>1, <2>3
<1>9. CASE OtherTelegram(s, idle, tg)
  <2>1. BusOK' /\ tg \in Telegrams
    BY <1>9, ReceiveType DEF OtherTelegram
  <2>2. tg.kind = "StatusRequest" => tg.sa \in BusAddress
    BY <2>1, TelegramTypes
  <2> DEFINE x == IF tg.kind = "StatusRequest" /\ tg.da = Address[s] /\ IsLast(s)
                  THEN [idle EXCEPT !.request = tg.sa] ELSE idle
  <2>3. x \in States /\ x.kind = "ActiveIdle"
    BY <2>2, IdleStates
  <2>4. Become(s, x) /\ UNCHANGED ring
    BY <1>9 DEF OtherTelegram
  <2> HIDE DEF x
  <2>5. StationsOK'
    BY <1>4, <2>3, <2>4
  <2> QED  BY <2>1, <2>5
<1> QED  BY <1>6, <1>7, <1>8, <1>9 DEF HandleTelegram

(* do_active_idle() preserves it, ... *)
LEMMA ActiveIdleOK ==
  ASSUME StationsOK, BusOK, NEW s \in Stations, ActiveIdle(s)
  PROVE  StationsOK' /\ BusOK'
<1>1. st[s] \in States /\ st[s].kind = "ActiveIdle" /\ InRing(s) /\ UNCHANGED <<conn, gap>>
  BY DEF ActiveIdle, InRing, StationsOK
<1>2. CASE /\ st[s].request # Nobody
           /\ Send(s, Response(Address[s], st[s].request, "InRing"))
           /\ Become(s, [st[s] EXCEPT !.request = Nobody])
           /\ UNCHANGED ring
  <2>1. st[s].request \in BusAddress
    BY <1>1, <1>2 DEF States
  <2>2. Response(Address[s], st[s].request, "InRing") \in Telegrams
    BY <2>1, TelegramTypes, ConstantTypes DEF ResponseStates
  <2>3. BusOK'
    BY <1>2, <2>2, SendType
  <2> DEFINE x == [st[s] EXCEPT !.request = Nobody]
  <2>4. x \in States /\ x.kind = "ActiveIdle"
    BY <1>1, IdleStates
  <2>5. ReadyForRing(ring[s])
    BY <1>1, MemberIsReady
  <2>6. Become(s, x) /\ UNCHANGED <<conn, ring, gap>>
    BY <1>1, <1>2
  <2> HIDE DEF x
  <2>7. StationsOK'
    BY <2>4, <2>5, <2>6, BecomeOK DEF AwaitingKinds
  <2> QED  BY <2>3, <2>7
<1>3. CASE HandleTelegram(s, st[s], Head(rx[s]))
  BY <1>1, <1>3, HandleTelegramOK
<1> QED  BY <1>2, <1>3 DEF ActiveIdle

(* ... do_check_token_pass() does on reception, ... *)
LEMMA CheckTokenPassReceiveOK ==
  ASSUME StationsOK, BusOK, NEW s \in Stations, CheckTokenPassReceive(s)
  PROVE  StationsOK' /\ BusOK'
<1>1. InRing(s)
  BY DEF CheckTokenPassReceive, InRing
<1>2. State("ActiveIdle") \in States /\ State("ActiveIdle").kind = "ActiveIdle"
  BY StateTypes DEF StateKinds
<1>3. CASE HandleTelegram(s, State("ActiveIdle"), Head(rx[s])) /\ UNCHANGED <<conn, gap>>
  BY <1>1, <1>2, <1>3, HandleTelegramOK
<1>4. CASE Recreate(s, "Panicked") /\ Drain(s)
  BY <1>4, RecreateOK, DrainType DEF Conns
<1> QED  BY <1>3, <1>4 DEF CheckTokenPassReceive

------------------------------------------------------------------------------
(* The actions of a station that listens *)

(* ... do_listen_token() does when it answers a status request, ... *)
LEMMA ListenTokenReplyOK ==
  ASSUME StationsOK, BusOK, NEW s \in Stations,
         st[s].kind = "ListenToken", ListenTokenReply(s)
  PROVE  StationsOK' /\ BusOK'
<1> DEFINE request == st[s].request
           ready == ReadyForRing(ring[s])
           answer == IF ready /\ request = ring[s].prev THEN "WithoutToken" ELSE "NotReady"
           x == IF ready THEN State("ActiveIdle") ELSE [st[s] EXCEPT !.request = Nobody]
<1>1. st[s] \in States
  BY DEF StationsOK
<1>2. request \in BusAddress /\ answer \in ResponseStates
  BY <1>1 DEF ListenTokenReply, States, ResponseStates
<1>3. Send(s, Response(Address[s], request, answer)) /\ Become(s, x)
      /\ UNCHANGED <<conn, ring, gap>>
  BY DEF ListenTokenReply
<1>4. x \in States /\ x.kind = (IF ready THEN "ActiveIdle" ELSE "ListenToken")
  <2>1. State("ActiveIdle") \in States /\ State("ActiveIdle").kind = "ActiveIdle"
    BY StateTypes DEF StateKinds
  <2> QED  BY <1>1, <2>1, IdleStates
<1> HIDE DEF x, answer, request
<1>5. Response(Address[s], request, answer) \in Telegrams
  BY <1>2, TelegramTypes, ConstantTypes
<1>6. BusOK'
  BY <1>3, <1>5, SendType
<1>7. x.kind \notin AwaitingKinds
  BY <1>4 DEF AwaitingKinds
<1>8. StationsOK'
  BY <1>3, <1>4, <1>7, BecomeOK
<1> QED  BY <1>6, <1>8

(* ... and when it reads a telegram. *)
LEMMA ListenTokenReceiveOK ==
  ASSUME StationsOK, BusOK, NEW s \in Stations,
         st[s].kind = "ListenToken", ListenTokenReceive(s)
  PROVE  StationsOK' /\ BusOK'
<1> DEFINE tg == Head(rx[s])
           x == IF tg.kind = "StatusRequest" /\ tg.da = Address[s] /\ IsLast(s)
                THEN [st[s] EXCEPT !.request = tg.sa] ELSE st[s]
           w == WitnessTokenPass(ring[s], tg.sa, tg.da)
<1>1. /\ StationOK(s, conn[s], st[s], ring[s], gap[s])
      /\ conn = [conn EXCEPT ![s] = conn[s]] /\ st = [st EXCEPT ![s] = st[s]]
      /\ ring = [ring EXCEPT ![s] = ring[s]] /\ gap = [gap EXCEPT ![s] = gap[s]]
  BY SameIsChange
<1>2. st[s] \in States
  BY DEF StationsOK
<1>3. ASSUME NEW y \in States, y.kind = "ListenToken", Become(s, y),
             UNCHANGED <<conn, ring, gap>>, Receive(s)
      PROVE  StationsOK' /\ BusOK'
  <2>1. StationsOK'
    BY <1>3, BecomeOK DEF AwaitingKinds
  <2> QED  BY <1>3, <2>1, ReceiveType
<1>4. CASE Become(s, [st[s] EXCEPT !.collisions = 1]) /\ Receive(s)
           /\ UNCHANGED <<conn, ring, gap>>
  BY <1>2, <1>3, <1>4, IdleStates
<1>5. CASE Recreate(s, "Offline") /\ Drain(s)
  BY <1>5, RecreateOK, DrainType DEF Conns
<1>6. CASE SetRing(s, w) /\ Receive(s) /\ UNCHANGED <<conn, st, gap>>
  <2>1. w \in Rings /\ w.this = Address[s] /\ Consistent(w)
    BY <1>1, WitnessKeepsRing DEF StationOK
  <2>2. StationOK(s, conn[s], st[s], w, gap[s])
    BY <1>1, <2>1 DEF StationOK
  <2>3. Changes(s, conn[s], st[s], w, gap[s])
    BY <1>1, <1>6 DEF SetRing, Changes
  <2> QED  BY <1>6, <2>2, <2>3, ChangeOne, ReceiveType
<1>7. CASE Become(s, x) /\ Receive(s) /\ UNCHANGED <<conn, ring, gap>>
  <2>1. tg.kind = "StatusRequest" => tg.sa \in BusAddress
    BY <1>7, ReceiveType, TelegramTypes
  <2>2. x \in States /\ x.kind = "ListenToken"
    BY <1>2, <2>1, IdleStates
  <2> HIDE DEF x
  <2> QED  BY <1>3, <1>7, <2>2
<1> QED  BY <1>4, <1>5, <1>6, <1>7 DEF ListenTokenReceive

------------------------------------------------------------------------------
(* The steps *)

(* Every poll() preserves the invariant of the station it polls. *)
LEMMA PollOK ==
  ASSUME StationsOK, BusOK, NEW s \in Stations, Poll(s)
  PROVE  StationsOK' /\ BusOK'
<1>1. CASE EnterListenToken(s)
  BY <1>1, EnterListenTokenOK
<1>2. CASE ListenToken(s)
  BY <1>2, ListenTokenReplyOK, ListenTokenReceiveOK DEF ListenToken
<1>3. CASE ActiveIdle(s)
  BY <1>3, ActiveIdleOK
<1>4. CASE LostToken(s)
  BY <1>4, ClaimTokenOK DEF LostToken
<1>5. CASE ClaimSecondToken(s)
  BY <1>5, ClaimTokenOK DEF ClaimSecondToken
<1>6. CASE ClaimScan(s)
  BY <1>6, ScanOK DEF ClaimScan, InRing
<1>7. CASE ClaimAwaitResponse(s)
  BY <1>7, ScanOK, GapPollResponseOK DEF ClaimAwaitResponse, InRing
<1>8. CASE UseTheToken(s)
  BY <1>8, UseTokenOrPassOK DEF UseTheToken, InRing
<1>9. CASE AwaitDataResponse(s)
  BY <1>9, UseTokenOrPassOK, DataReplyOK DEF AwaitDataResponse, InRing
<1>10. CASE PassTheToken(s)
  BY <1>10, PassTheTokenOK
<1>11. CASE AwaitStatusResponse(s)
  <2>1. InRing(s) /\ ReadyForRing(ring[s])
    BY <1>11, MemberIsReady DEF AwaitStatusResponse, InRing
  <2>2. CASE GapPollResponse(s, PassToken(FALSE))
    BY <2>1, <2>2, GapPollResponseOK
  <2>3. CASE SendToken(s, ring[s], 1) /\ UNCHANGED gap
    <3>1. /\ ring[s] \in Rings /\ ring[s].this = Address[s] /\ Consistent(ring[s])
          /\ gap[s] \in GapStates /\ gap = [gap EXCEPT ![s] = gap[s]]
      BY SameIsChange DEF StationOK
    <3>2. 1 \in 1 .. 3
      OBVIOUS
    <3> QED  BY <2>1, <2>3, <3>1, <3>2, SendTokenOK
  <2> QED  BY <1>11, <2>2, <2>3 DEF AwaitStatusResponse
<1>12. CASE RepeatTokenPass(s)
  BY <1>12, RepeatTokenPassOK
<1>13. CASE CheckTokenPassReceive(s)
  BY <1>13, CheckTokenPassReceiveOK
<1>14. CASE NoticeActivity(s)
  BY <1>14, SameStations, SilentType DEF NoticeActivity
<1> QED
  BY <1>1, <1>2, <1>3, <1>4, <1>5, <1>6, <1>7, <1>8, <1>9, <1>10, <1>11, <1>12, <1>13,
     <1>14 DEF Poll

(* The answer of a slave preserves the invariant: it changes no station. *)
LEMMA SlaveOK ==
  ASSUME StationsOK, BusOK, Slave
  PROVE  StationsOK' /\ BusOK'
<1>1. PICK request \in asked :
        /\ \/ /\ request.kind = "StatusRequest"
              /\ Transmit(Nobody, Response(request.da, request.sa, "Slave"))
           \/ /\ request.kind = "DataRequest"
              /\ \/ Transmit(Nobody, Response(request.da, request.sa, "Slave"))
                 \/ Transmit(Nobody, ShortConfirmation)
           \/ UNCHANGED <<rx, fresh, losses>>
        /\ asked' = {}
        /\ UNCHANGED stationVars /\ UNCHANGED <<quiet, lates, offs>>
  BY DEF Slave
<1>2. request \in Telegrams
  BY DEF BusOK
<1>3. request.kind \in {"StatusRequest", "DataRequest"}
        => Response(request.da, request.sa, "Slave") \in Telegrams
  BY <1>2, TelegramTypes DEF ResponseStates
<1>4. ASSUME NEW tg \in Telegrams, Transmit(Nobody, tg)
      PROVE  BusOK'
  BY <1>1, <1>4, TransmitType DEF BusOK
<1>5. BusOK'
  <2>1. CASE UNCHANGED <<rx, fresh, losses>>
    BY <1>1, <2>1 DEF BusOK
  <2> QED  BY <1>1, <1>3, <1>4, <2>1, TelegramTypes
<1> QED  BY <1>1, <1>5, SameStations

(* The passing of time preserves it. *)
LEMMA TickOK ==
  ASSUME StationsOK, BusOK, Tick
  PROVE  StationsOK' /\ BusOK'
<1>1. ASSUME NEW s \in Stations
      PROVE  Min({quiet[s] + 1, LostTimeout(s)}) \in Nat
  <2> DEFINE S == {quiet[s] + 1, LostTimeout(s)}
  <2>1. S \in SUBSET Nat /\ S # {}
    BY ConstantTypes DEF BusOK
  <2> HIDE DEF S
  <2>2. Min(S) \in Nat
    BY <2>1, MinOfAddresses
  <2> QED  BY <2>2 DEF S
<1>2. quiet' \in [Stations -> Nat]
  BY <1>1 DEF Tick
<1>3. BusOK'
  BY <1>2 DEF Tick, BusOK
<1>4. StationsOK'
  BY SameStations DEF Tick
<1> QED  BY <1>3, <1>4

(* The counters of faults stay within their bounds. *)
LEMMA BoundsStep ==
  ASSUME BoundsOK, Next
  PROVE  BoundsOK'
<1>1. CASE \E s \in Stations : SetOnline(s)
  BY <1>1 DEF SetOnline, BoundsOK
<1>2. CASE \E s \in Stations : SetOffline(s)
  BY <1>2, ConstantTypes DEF SetOffline, BoundsOK
<1>3. CASE \E s \in Stations : Poll(s)
  BY <1>3 DEF Poll, BoundsOK
<1>4. CASE Slave
  BY <1>4 DEF Slave, BoundsOK
<1>5. CASE Tick
  BY <1>5, ConstantTypes DEF Tick, BoundsOK
<1> QED  BY <1>1, <1>2, <1>3, <1>4, <1>5 DEF Next

(* Stations that were just created satisfy the invariant. *)
LEMMA InitIInv == Init => IInv
<1> SUFFICES ASSUME Init PROVE IInv
  OBVIOUS
<1> DEFINE x == State("Offline")
<1>1. x \in States /\ x.kind = "Offline"
  BY StateTypes DEF StateKinds
<1>2. ASSUME NEW s \in Stations
      PROVE  StationOK(s, "Offline", x, NewRing(Address[s]), DoPoll(Address[s]))
  <2>1. /\ NewRing(Address[s]) \in Rings /\ Consistent(NewRing(Address[s]))
        /\ NewRing(Address[s]).this = Address[s]
    BY NewRingType, ConstantTypes DEF NewRing
  <2>2. DoPoll(Address[s]) \in GapStates
    BY GapTypes, ConstantTypes
  <2> QED  BY <1>1, <2>1, <2>2 DEF StationOK, Conns, AwaitingKinds
<1>3. StationsOK
  <2>1. \A s \in Stations :
          NewRing(Address[s]) \in Rings /\ DoPoll(Address[s]) \in GapStates
    BY <1>2 DEF StationOK
  <2> HIDE DEF x
  <2>2. st = [s \in Stations |-> x]
    BY DEF Init, x
  <2>3. \A s \in Stations : StationOK(s, conn[s], st[s], ring[s], gap[s])
    BY <1>2, <2>2 DEF Init
  <2> QED  BY <1>1, <2>1, <2>2, <2>3 DEF Init, StationsOK, Conns
<1>4. BusOK /\ BoundsOK
  BY EmptySeq, ConstantTypes DEF Init, BusOK, BoundsOK
<1> QED  BY <1>3, <1>4 DEF IInv

(* Every step preserves the invariant: one case for each action of Next. *)
LEMMA StepIInv == IInv /\ [Next]_vars => IInv'
<1> SUFFICES ASSUME IInv, [Next]_vars PROVE IInv'
  OBVIOUS
<1>1. StationsOK /\ BusOK /\ BoundsOK
  BY DEF IInv
<1>2. CASE Next
  <2>1. BoundsOK'
    BY <1>1, <1>2, BoundsStep
  <2>2. StationsOK' /\ BusOK'
    BY <1>1, <1>2, SetOnlineOK, SetOfflineOK, PollOK, SlaveOK, TickOK DEF Next
  <2> QED  BY <2>1, <2>2 DEF IInv
<1>3. CASE UNCHANGED vars
  <2>1. StationsOK'
    BY <1>1, <1>3, SameStations DEF vars, stationVars
  <2>2. BusOK' /\ BoundsOK'
    BY <1>1, <1>3 DEF vars, BusOK, BoundsOK
  <2> QED  BY <2>1, <2>2 DEF IInv
<1> QED  BY <1>2, <1>3

(* IInv is inductive: it holds initially, and every step preserves it.     *)
THEOREM Invariance == Spec => []IInv
BY InitIInv, StepIInv, PTL DEF Spec

(* Every variable has its type in every reachable state, and so no         *)
(* counter, attempt or polled address leaves its range.                    *)
THEOREM TypeCorrect == Spec => []TypeOK
<1>1. IInv => TypeOK
  BY DEF IInv, StationsOK, BusOK, BoundsOK, TypeOK, Conns
<1> QED  BY <1>1, Invariance, PTL

(* A station is in the ring only with a validated LAS, whatever telegrams  *)
(* it hears, misses or hears out of turn, and from whom.                   *)
THEOREM MembersKnowLas == Spec => []InRingKnowsLas
<1>1. IInv => InRingKnowsLas
  BY DEF IInv, StationsOK, StationOK, InRingKnowsLas, InRing
<1> QED  BY <1>1, Invariance, PTL

(* The debug_assert of await_gap_poll_response() on the gap_state holds.   *)
THEOREM PollsMatchGap == Spec => []PollMatchesGap
<1>1. IInv => PollMatchesGap
  BY DEF IInv, StationsOK, StationOK, PollMatchesGap, AwaitingKinds
<1> QED  BY <1>1, Invariance, PTL

(* NS and PS never point past a station of the LAS, and never to one that  *)
(* has left it: every change of the LAS moves them.                        *)
THEOREM NeighboursAreOfLas == Spec => []NeighboursOfLas
<1>1. IInv => NeighboursOfLas
  <2> SUFFICES ASSUME IInv, NEW s \in Stations
               PROVE  LET r == ring[s] IN
                      /\ r.this = Address[s] /\ {r.next, r.prev} \subseteq r.active \cup {r.this}
                      /\ \A x \in r.active : ~Skips(r.this, r.next, x) /\ ~Skips(r.prev, r.this, x)
    BY DEF NeighboursOfLas
  <2>1. /\ ring[s] \in Rings /\ ring[s].this = Address[s] /\ Consistent(ring[s])
        /\ ring[s].this \in BusAddress /\ ring[s].active \in SUBSET BusAddress
    BY ConstantTypes DEF IInv, StationsOK, StationOK, Rings
  <2> QED  BY <2>1, NextOfIsNeighbour, PrevOfIsNeighbour DEF Consistent
<1> QED  BY <1>1, Invariance, PTL

------------------------------------------------------------------------------
(* One token before the first fault, for any number of stations with        *)
(* addresses of their own, whatever they do: they start, join, go offline,  *)
(* and lose the token with the station that has it.                         *)

(* The stations have addresses of their own. *)
DistinctAddresses == \A s, t \in Stations : Address[s] = Address[t] => s = t

------------------------------------------------------------------------------
(* The inductive invariant *)

(* A holder sends at its next poll, or waits for a response. *)
ActiveKinds == {"ClaimSecondToken", "ClaimScan", "UseToken", "PassToken"}
WaitKinds == {"ClaimAwaitResponse", "AwaitDataResponse", "AwaitStatusResponse"}

Newest(q) == q[Len(q)]

(* A station that has read all but the newest telegram obeys it. *)
Addressed(s, q) ==
  q # <<>> /\ Newest(q).kind \in {"Token", "StatusRequest"} /\ Newest(q).da = Address[s]

TokenComes(s, q) == q # <<>> /\ Newest(q).kind = "Token" /\ Newest(q).da = Address[s]

(* A station in state x with buffer q sends next, or hands the token over   *)
(* to itself, without waiting for a timeout.                                *)
Speaker(s, x, q) ==
  \/ x.kind \in ActiveKinds
  \/ x.kind \in WaitKinds /\ q # <<>>
  \/ x.request # Nobody
  \/ Addressed(s, q)

Speaks(s) == Speaker(s, st[s], rx[s])

Unspoken == asked = {} /\ \A s \in Stations : ~Speaks(s)

OneSpeaker ==
  /\ \A s, t \in Stations : Speaks(s) /\ Speaks(t) => s = t
  /\ asked # {} => \A s \in Stations : ~Speaks(s)
  /\ \A p, q \in asked : p = q

HoldersOK ==
  /\ \A s, t \in Holders : s = t
  /\ \A s \in Holders, t \in Stations : ~TokenComes(t, rx[t])

(* Slots since the last telegram that a station has sent or could read. *)
Age(s) == IF fresh[s] THEN 0 ELSE quiet[s]

(* The buffer of one station, and what fits its state. *)
BufferOK(c, x, q, f, n) ==
  /\ f => q # <<>>
  /\ q # <<>> => f \/ n = 0
  /\ x.kind = "Offline" => q = <<>> /\ n = 0 /\ x.request = Nobody
  /\ x.kind # "Offline" => c = "Online"
  /\ x.kind \in ActiveKinds => q = <<>>
  /\ x.kind \in WaitKinds => Len(q) <= 1
  /\ x.request # Nobody => q = <<>>

BuffersOK == \A s \in Stations : BufferOK(conn[s], st[s], rx[s], fresh[s], quiet[s])

(* Whoever has something to read, or to answer, does it within the slot. *)
Unfinished(s) == rx[s] # <<>> \/ st[s].request # Nobody

AgesOK ==
  /\ asked # {} \/ (\E s \in Stations : Unfinished(s)) => \A t \in Stations : Age(t) = 0
  /\ \A s \in Stations : st[s].kind \in ActiveKinds => \A t \in Stations : Age(t) <= 1
  /\ \A s \in Stations : st[s].kind \in WaitKinds \cup {"CheckTokenPass"} =>
       Age(s) <= 1 /\ \A t \in Stations : Age(t) <= Age(s)

(* A station has passed the token and not heard of it yet: whoever has it   *)
(* by now has not sent anything, and got it within the slot.                *)
Passing(s) == st[s].kind = "CheckTokenPass" /\ rx[s] = <<>>

PassingOK ==
  \A s \in Stations : Passing(s) =>
    /\ \A t \in Stations : Passing(t) => t = s
    /\ \A t \in Holders : st[t].kind \in {"UseToken", "PassToken"} /\ Age(s) = 0

TokenInv == OneSpeaker /\ HoldersOK /\ BuffersOK /\ AgesOK /\ PassingOK

(* What the steps are for the right to send: it comes out of the silence   *)
(* only when a station takes it, and leaves a station before the next one   *)
(* gets it.                                                                 *)
RightStep ==
  /\ Holders = {} /\ Holders' = {} /\ Underway' => Underway
  /\ \A h \in Holders, g \in Holders' : g = h

TokenStep == TokenInv' /\ RightStep

(* It holds until the first fault. *)
FaultlessInv == Faultless => TokenInv

------------------------------------------------------------------------------
(* Buffers *)

(* The states that have the token either act at once or wait. *)
LEMMA HoldingIs == HoldingKinds = ActiveKinds \cup WaitKinds
BY DEF HoldingKinds, ActiveKinds, WaitKinds

(* A telegram that arrives is the newest one. *)
LEMMA NewestArrived ==
  ASSUME NEW q \in Seq(Telegrams), NEW tg \in Telegrams
  PROVE  /\ Append(q, tg) # <<>> /\ Newest(Append(q, tg)) = tg
         /\ Len(Append(q, tg)) = Len(q) + 1
BY AppendProperties DEF Newest

(* Reading takes the oldest telegram. *)
LEMMA NewestLeft ==
  ASSUME NEW q \in Seq(Telegrams), q # <<>>
  PROVE  /\ Len(Tail(q)) = Len(q) - 1
         /\ Tail(q) # <<>> => Newest(Tail(q)) = Newest(q)
         /\ Len(q) = 1 <=> Tail(q) = <<>>
         /\ Len(q) = 1 => Head(q) = Newest(q)
<1>1. Tail(q) \in Seq(Telegrams) /\ Len(Tail(q)) = Len(q) - 1 /\ Len(q) \in Nat /\ Len(q) >= 1
  BY HeadTailProperties, EmptySeq, LenProperties
<1>2. Tail(q) # <<>> => Newest(Tail(q)) = Newest(q)
  BY <1>1 DEF Newest
<1>3. Tail(q) = <<>> <=> Len(Tail(q)) = 0
  BY <1>1, EmptySeq, LenProperties
<1>4. Len(q) = 1 => Head(q) = Newest(q)
  BY DEF Newest
<1> QED  BY <1>1, <1>2, <1>3, <1>4

(* Without faults every station that is on hears every telegram. *)
LEMMA TransmitFaultless ==
  ASSUME BusOK, NEW from, NEW tg \in Telegrams, Transmit(from, tg), losses' = 0
  PROVE  \A t \in Stations :
           /\ t \in Hearers(from) =>
                /\ rx'[t] = Append(rx[t], tg) /\ fresh'[t]
                /\ rx'[t] # <<>> /\ Newest(rx'[t]) = tg /\ Len(rx'[t]) = Len(rx[t]) + 1
           /\ t \notin Hearers(from) =>
                rx'[t] = rx[t] /\ (fresh'[t] <=> t # from /\ fresh[t])
<1>1. PICK garbled \in SUBSET Hearers(from) :
        /\ losses' = losses + Cardinality(garbled)
        /\ rx' = [r \in Stations |-> IF r \in Hearers(from) \ garbled
                                     THEN Append(rx[r], tg) ELSE rx[r]]
        /\ \E noticed \in SUBSET garbled :
             fresh' = [r \in Stations |->
                         r # from
                         /\ (fresh[r] \/ r \in (Hearers(from) \ garbled) \cup noticed)]
  BY DEF Transmit
<1>2. garbled = {}
  <2>1. IsFiniteSet(garbled)
    BY <1>1, FS_Subset, FdlAssumption DEF Hearers
  <2>2. Cardinality(garbled) \in Nat /\ losses \in Nat
    BY <2>1, FS_CardinalityType, ConstantTypes DEF BusOK
  <2>3. Cardinality(garbled) = 0
    BY <1>1, <2>2
  <2> QED  BY <2>1, <2>3, FS_EmptySet
<1>3. \A t \in Stations : rx[t] \in Seq(Telegrams)
  BY DEF BusOK
<1>4. \A t \in Hearers(from) : t \in Stations /\ t # from
  BY DEF Hearers
<1>5. \A t \in Stations :
        /\ rx'[t] = IF t \in Hearers(from) THEN Append(rx[t], tg) ELSE rx[t]
        /\ fresh'[t] <=> t # from /\ (fresh[t] \/ t \in Hearers(from))
  BY <1>1, <1>2
<1>6. ASSUME NEW t \in Stations, t \in Hearers(from)
      PROVE  /\ rx'[t] = Append(rx[t], tg) /\ fresh'[t]
             /\ rx'[t] # <<>> /\ Newest(rx'[t]) = tg /\ Len(rx'[t]) = Len(rx[t]) + 1
  <2>1. rx'[t] = Append(rx[t], tg) /\ fresh'[t]
    BY <1>4, <1>5, <1>6
  <2>2. rx[t] \in Seq(Telegrams)
    BY <1>3
  <2>3. /\ Append(rx[t], tg) # <<>> /\ Newest(Append(rx[t], tg)) = tg
        /\ Len(Append(rx[t], tg)) = Len(rx[t]) + 1
    BY <2>2, NewestArrived
  <2> QED  BY <2>1, <2>3
<1>7. ASSUME NEW t \in Stations, t \notin Hearers(from)
      PROVE  rx'[t] = rx[t] /\ (fresh'[t] <=> t # from /\ fresh[t])
  BY <1>5, <1>7
<1> QED  BY <1>6, <1>7

------------------------------------------------------------------------------
(* A step of one station that sends nothing *)

(* An age is a number of slots. *)
LEMMA AgeType ==
  ASSUME BusOK
  PROVE  \A s \in Stations : Age(s) \in Nat
BY DEF BusOK, Age

(* Station s goes to state x and may read; nobody else notices. *)
Reads(s, x) ==
  /\ st' = [st EXCEPT ![s] = x] /\ asked' = asked
  /\ \A t \in Stations : t # s =>
       rx'[t] = rx[t] /\ fresh'[t] = fresh[t] /\ quiet'[t] = quiet[t] /\ conn'[t] = conn[t]
  /\ rx'[s] # <<>> => rx[s] # <<>> /\ Newest(rx'[s]) = Newest(rx[s])
  /\ Age(s)' <= Age(s)
  /\ BufferOK(conn'[s], x, rx'[s], fresh'[s], quiet'[s])

(* It takes the token only if it was sent to it, and becomes the one who    *)
(* speaks next only if it was, or if nobody was.                            *)
Follows(s, x) ==
  /\ Speaker(s, x, rx'[s]) => Speaks(s) \/ Unspoken
  /\ x.kind \in HoldingKinds => s \in Holders \/ (TokenComes(s, rx[s]) /\ x.kind = "UseToken")
  /\ x.kind \in HoldingKinds /\ ~(s \in Holders) => rx'[s] = <<>>
  /\ st[s].kind \in {"UseToken", "PassToken"} /\ x.kind \in HoldingKinds
       => x.kind \in {"UseToken", "PassToken"}
  /\ x.kind \in WaitKinds \cup {"CheckTokenPass"} => x.kind = st[s].kind /\ Age(s)' = Age(s)
  /\ x.kind = "CheckTokenPass" => rx'[s] = rx[s]
  /\ x.request # Nobody => Unfinished(s)

(* Such a step leaves every other station as it was, ... *)
LEMMA OthersStay ==
  ASSUME IInv, BusOK', BuffersOK, NEW s \in Stations, NEW x \in States, Reads(s, x)
  PROVE  /\ st'[s] = x
         /\ \A t \in Stations : t # s =>
              /\ st'[t] = st[t] /\ rx'[t] = rx[t] /\ Age(t)' = Age(t)
         /\ \A t \in Stations : Age(t)' \in Nat /\ Age(t) \in Nat /\ Age(t)' <= Age(t)
         /\ BuffersOK'
<1>1. /\ st'[s] = x
      /\ \A t \in Stations : t # s => st'[t] = st[t] /\ rx'[t] = rx[t] /\ Age(t)' = Age(t)
  BY DEF Reads, IInv, StationsOK, Age
<1>2. \A t \in Stations : Age(t) \in Nat
  BY AgeType DEF IInv
<1>3. Age(s)' \in Nat
  BY DEF BusOK, Age
<1>5. BuffersOK'
  BY <1>1 DEF BuffersOK, Reads
<1> QED  BY <1>1, <1>2, <1>3, <1>5 DEF Reads

(* ... and keeps the token where it is, or lets it arrive. *)
LEMMA ReadsKeepsToken ==
  ASSUME IInv, BusOK', TokenInv, NEW s \in Stations, NEW x \in States,
         Reads(s, x), Follows(s, x)
  PROVE  TokenStep
<1>0. OneSpeaker /\ HoldersOK /\ BuffersOK /\ AgesOK /\ PassingOK
  BY DEF TokenInv
<1>1. /\ st'[s] = x /\ asked' = asked
      /\ \A t \in Stations : t # s => st'[t] = st[t] /\ rx'[t] = rx[t] /\ Age(t)' = Age(t)
      /\ \A t \in Stations : Age(t)' \in Nat /\ Age(t) \in Nat /\ Age(t)' <= Age(t)
      /\ BuffersOK'
  BY <1>0, OthersStay DEF Reads
<1>2. OneSpeaker'
  BY <1>0, <1>1 DEF OneSpeaker, Speaks, Unspoken, Follows
<1>3. HoldersOK'
  <2>1. \A t \in Stations : TokenComes(t, rx[t])' => TokenComes(t, rx[t])
    BY <1>1 DEF TokenComes, Reads
  <2>2. \A t \in Stations : t # s => (t \in Holders' <=> t \in Holders)
    BY <1>1 DEF Holders
  <2>3. CASE s \in Holders
    BY <1>0, <2>1, <2>2, <2>3 DEF HoldersOK, Holders
  <2>4. CASE s \notin Holders /\ s \notin Holders'
    BY <1>0, <2>1, <2>2, <2>4 DEF HoldersOK, Holders
  <2>5. CASE s \notin Holders /\ s \in Holders'
    <3>1. TokenComes(s, rx[s]) /\ rx'[s] = <<>>
      BY <1>1, <2>5 DEF Follows, Holders
    <3>2. \A t \in Stations : TokenComes(t, rx[t]) => t = s
      BY <1>0, <3>1 DEF OneSpeaker, Speaks, Speaker, Addressed, TokenComes
    <3>3. Holders = {}
      BY <1>0, <3>1 DEF HoldersOK
    <3>4. \A t \in Stations : ~TokenComes(t, rx[t])'
      BY <2>1, <3>1, <3>2 DEF TokenComes
    <3>5. \A t \in Holders' : t \in Stations /\ t = s
      BY <2>2, <3>3 DEF Holders
    <3> QED  BY <3>4, <3>5 DEF HoldersOK
  <2> QED  BY <2>3, <2>4, <2>5
<1>4. AgesOK'
  <2>1. \A t \in Stations : Unfinished(t)' => Unfinished(t)
    BY <1>1 DEF Unfinished, Follows, Reads
  <2>2. (asked # {} \/ \E t \in Stations : Unfinished(t))' => \A t \in Stations : Age(t)' = 0
    BY <1>0, <1>1, <2>1 DEF AgesOK
  <2>3. ASSUME NEW a \in Stations, st'[a].kind \in ActiveKinds
        PROVE  \A t \in Stations : Age(t)' <= 1
    <3>1. CASE a \in Holders
      <4>1. st[a].kind \in ActiveKinds \cup WaitKinds
        BY <3>1, HoldingIs DEF Holders
      <4>2. \A t \in Stations : Age(t) <= 1
        BY <1>0, <1>1, <4>1 DEF AgesOK
      <4> QED  BY <1>1, <4>2
    <3>2. CASE a \notin Holders
      <4>1. a = s
        BY <1>1, <2>3, <3>2, HoldingIs DEF Holders
      <4>2. Unfinished(s)
        BY <1>1, <2>3, <3>2, <4>1, HoldingIs DEF Follows, TokenComes, Unfinished
      <4>3. \A t \in Stations : Age(t) = 0
        BY <1>0, <4>2 DEF AgesOK
      <4> QED  BY <1>1, <4>3
    <3> QED  BY <3>1, <3>2
  <2>4. ASSUME NEW a \in Stations, st'[a].kind \in WaitKinds \cup {"CheckTokenPass"}
        PROVE  Age(a)' <= 1 /\ \A t \in Stations : Age(t)' <= Age(a)'
    <3>1. st[a].kind \in WaitKinds \cup {"CheckTokenPass"} /\ Age(a)' = Age(a)
      BY <1>1, <2>4 DEF Follows
    <3> QED  BY <1>0, <1>1, <3>1 DEF AgesOK
  <2> QED  BY <2>2, <2>3, <2>4 DEF AgesOK
<1>5. PassingOK'
  <2>1. \A t \in Stations : Passing(t)' => Passing(t) /\ Age(t)' = Age(t)
    BY <1>1 DEF Passing, Follows
  <2>2. ASSUME NEW p \in Stations, Passing(p)', NEW t \in Holders'
        PROVE  st'[t].kind \in {"UseToken", "PassToken"} /\ Age(p)' = 0
    <3>0. t \in Stations /\ st'[t].kind \in HoldingKinds
      BY DEF Holders
    <3>1. CASE t \in Holders
      BY <1>0, <1>1, <2>1, <2>2, <3>0, <3>1 DEF PassingOK, Follows
    <3>2. CASE t \notin Holders
      <4>1. t = s /\ TokenComes(s, rx[s]) /\ st'[t].kind = "UseToken"
        BY <1>1, <3>0, <3>2 DEF Follows, Holders
      <4>2. Age(p) = 0
        BY <1>0, <4>1 DEF AgesOK, TokenComes, Unfinished
      <4> QED  BY <2>1, <2>2, <4>1, <4>2
    <3> QED  BY <3>1, <3>2
  <2> QED  BY <1>0, <2>1, <2>2 DEF PassingOK
<1>6. RightStep
  <2>1. ASSUME NEW h \in Holders, NEW g \in Holders'
        PROVE  g = h
    <3>1. g \in Stations /\ (g = s \/ g \in Holders)
      BY <1>1 DEF Holders
    <3>2. CASE g \in Holders
      BY <1>0, <3>2 DEF HoldersOK
    <3>3. CASE g = s /\ s \notin Holders
      BY <1>0, <1>1, <3>3 DEF HoldersOK, Holders, Follows
    <3> QED  BY <3>1, <3>2, <3>3
  <2>2. \A t \in Stations :
          /\ TokenComes(t, rx[t])' => TokenComes(t, rx[t])
          /\ st'[t].kind = "CheckTokenPass" => st[t].kind = "CheckTokenPass"
    BY <1>1 DEF TokenComes, Reads, Follows
  <2> QED  BY <2>1, <2>2 DEF RightStep, Underway, TokenComes, Newest
<1> QED  BY <1>1, <1>2, <1>3, <1>4, <1>5, <1>6 DEF TokenInv, TokenStep

------------------------------------------------------------------------------
(* A step of one station that sends a telegram, or a slave's answer *)

(* Without faults all stations but the sender and those that are off have   *)
(* the telegram in their buffers.                                           *)
LEMMA Heard ==
  ASSUME IInv, BuffersOK, NEW from, NEW tg \in Telegrams, Transmit(from, tg), losses' = 0
  PROVE  \A t \in Stations : t # from =>
           /\ st[t].kind # "Offline" =>
                /\ fresh'[t] /\ rx'[t] # <<>> /\ Newest(rx'[t]) = tg
                /\ rx[t] = <<>> => Len(rx'[t]) = 1
           /\ st[t].kind = "Offline" => ~fresh'[t] /\ rx'[t] = <<>>
<1> SUFFICES ASSUME NEW t \in Stations, t # from
             PROVE  /\ st[t].kind # "Offline" =>
                         /\ fresh'[t] /\ rx'[t] # <<>> /\ Newest(rx'[t]) = tg
                         /\ rx[t] = <<>> => Len(rx'[t]) = 1
                    /\ st[t].kind = "Offline" => ~fresh'[t] /\ rx'[t] = <<>>
  OBVIOUS
<1>1. t \in Hearers(from) <=> st[t].kind # "Offline"
  BY DEF Hearers
<1>2. Len(<<>>) = 0
  BY EmptySeq
<1>3. BufferOK(conn[t], st[t], rx[t], fresh[t], quiet[t])
  BY DEF BuffersOK
<1>4. CASE t \in Hearers(from)
  <2>1. fresh'[t] /\ rx'[t] # <<>> /\ Newest(rx'[t]) = tg /\ Len(rx'[t]) = Len(rx[t]) + 1
    BY <1>4, TransmitFaultless DEF IInv
  <2> QED  BY <1>1, <1>2, <1>4, <2>1
<1>5. CASE t \notin Hearers(from)
  <2>1. rx'[t] = rx[t] /\ (fresh'[t] <=> t # from /\ fresh[t])
    BY <1>5, TransmitFaultless DEF IInv
  <2> QED  BY <1>1, <1>3, <1>5, <2>1 DEF BufferOK
<1> QED  BY <1>4, <1>5

(* Station s sends telegram tg and goes to state x. *)
Says(s, x, tg) ==
  /\ Send(s, tg) /\ losses' = 0
  /\ st' = [st EXCEPT ![s] = x] /\ conn' = conn

(* It is the one to speak, and has read everything. *)
MaySpeak(s) ==
  /\ asked = {} /\ \A t \in Stations : Speaks(t) => t = s
  /\ st[s].kind # "Offline" /\ rx[s] = <<>>

(* It answers a request, or has the token and uses it or passes it on. *)
Answers(x, tg) == tg.kind = "Response" /\ x.kind \notin HoldingKinds \cup {"CheckTokenPass"}

UsesToken(s, x, tg) ==
  /\ \A h \in Holders : h = s
  /\ tg.kind \in {"Token", "StatusRequest", "DataRequest"}
  /\ x.kind \in HoldingKinds /\ tg.kind = "Token"
       => \A t \in Stations : Address[t] = tg.da => t = s
  /\ x.kind \in ActiveKinds /\ tg.kind # "Token"
       => tg.kind = "DataRequest" /\ tg.da \notin Slaves
  /\ Holders = {} /\ x.kind \notin HoldingKinds => st[s].kind = "CheckTokenPass"

(* A station that has something to say, as answer or because it has the     *)
(* token, says it to all: it is the only one that may, and whom it          *)
(* addresses is the next.                                                   *)
LEMMA SaysKeepsToken ==
  ASSUME IInv, BusOK', TokenInv, DistinctAddresses, NEW s \in Stations, NEW x \in States,
         NEW tg \in Telegrams, Says(s, x, tg), MaySpeak(s),
         x.kind # "Offline", x.request = Nobody,
         Answers(x, tg) \/ UsesToken(s, x, tg)
  PROVE  TokenStep
<1>0. OneSpeaker /\ HoldersOK /\ BuffersOK /\ AgesOK /\ PassingOK
  BY DEF TokenInv
<1>1. /\ st'[s] = x /\ \A t \in Stations : t # s => st'[t] = st[t] /\ quiet'[t] = quiet[t]
      /\ rx'[s] = <<>> /\ ~fresh'[s] /\ quiet'[s] = 0
  <2>1. /\ st'[s] = x /\ \A t \in Stations : t # s => st'[t] = st[t] /\ quiet'[t] = quiet[t]
        /\ quiet'[s] = 0
    BY DEF Says, Send, IInv, StationsOK, BusOK
  <2>2. s \notin Hearers(s)
    BY DEF Hearers
  <2>3. rx'[s] = <<>> /\ ~fresh'[s]
    BY <2>2, TransmitFaultless DEF Says, Send, IInv, MaySpeak
  <2> QED  BY <2>1, <2>3
<1>2. \A t \in Stations : t # s =>
        /\ st[t].kind # "Offline" =>
             /\ fresh'[t] /\ rx'[t] # <<>> /\ Newest(rx'[t]) = tg
             /\ rx[t] = <<>> => Len(rx'[t]) = 1
        /\ st[t].kind = "Offline" => ~fresh'[t] /\ rx'[t] = <<>>
  BY <1>0, Heard DEF Says, Send
<1>3. \A t \in Stations : t # s =>
        /\ st[t].kind \notin ActiveKinds /\ st[t].request = Nobody
        /\ st[t].kind \in WaitKinds => rx[t] = <<>>
  BY DEF MaySpeak, Speaks, Speaker
<1>4. asked' = IF tg.kind \in {"StatusRequest", "DataRequest"} /\ tg.da \in Slaves
               THEN {tg} ELSE {}
  BY DEF Says, Send, MaySpeak
<1>5. BuffersOK'
  <2>1. BufferOK(conn[s], st[s], rx[s], fresh[s], quiet[s])
    BY <1>0 DEF BuffersOK
  <2>2. BufferOK(conn'[s], st'[s], rx'[s], fresh'[s], quiet'[s])
    BY <1>1, <2>1, EmptySeq DEF BufferOK, Says, MaySpeak
  <2>3. ASSUME NEW t \in Stations, t # s
        PROVE  BufferOK(conn'[t], st'[t], rx'[t], fresh'[t], quiet'[t])
    <3>1. BufferOK(conn[t], st[t], rx[t], fresh[t], quiet[t])
      BY <1>0 DEF BuffersOK
    <3>2. /\ conn'[t] = conn[t] /\ st'[t] = st[t] /\ quiet'[t] = quiet[t]
          /\ st[t].kind \notin ActiveKinds /\ st[t].request = Nobody
      BY <1>1, <1>3, <2>3 DEF Says
    <3>3. CASE st[t].kind = "Offline"
      BY <1>2, <2>3, <3>1, <3>2, <3>3 DEF BufferOK, WaitKinds
    <3>4. CASE st[t].kind # "Offline"
      <4>1. /\ fresh'[t] /\ rx'[t] # <<>>
            /\ st[t].kind \in WaitKinds => Len(rx'[t]) = 1
        BY <1>2, <1>3, <2>3, <3>4
      <4>0. \A n : n = 1 => n <= 1
        OBVIOUS
      <4>2. st[t].kind \in WaitKinds => Len(rx'[t]) <= 1
        BY <4>0, <4>1, Zenon
      <4> QED  BY <3>1, <3>2, <3>4, <4>1, <4>2, Zenon DEF BufferOK
    <3> QED  BY <3>3, <3>4
  <2> QED  BY <2>2, <2>3 DEF BuffersOK
<1>6. \A t \in Stations : Age(t)' = 0
  <2>1. ASSUME NEW t \in Stations, t # s
        PROVE  fresh'[t] \/ quiet[t] = 0
    BY <1>0, <1>2, <2>1 DEF BuffersOK, BufferOK
  <2> QED  BY <1>1, <2>1 DEF Age
<1>7. ASSUME NEW t \in Stations, Speaks(t)'
      PROVE  IF t = s THEN x.kind \in ActiveKinds
             ELSE \/ t \in Holders
                  \/ tg.kind \in {"Token", "StatusRequest"} /\ tg.da = Address[t]
  <2>1. CASE t = s
    BY <1>1, <1>7, <2>1 DEF Speaks, Speaker, Addressed
  <2>2. CASE t # s
    <3>1. rx'[t] # <<>> => Newest(rx'[t]) = tg
      BY <1>2, <2>2
    <3>2. st[t].kind \in WaitKinds => t \in Holders
      BY HoldingIs DEF Holders
    <3> QED  BY <1>1, <1>3, <1>7, <2>2, <3>1, <3>2 DEF Speaks, Speaker, Addressed
  <2> QED  BY <2>1, <2>2
<1>8. OneSpeaker'
  <2>1. CASE Answers(x, tg)
    <3>1. asked' = {} /\ x.kind \notin ActiveKinds
      BY <1>4, <2>1, HoldingIs DEF Answers
    <3>2. \A t \in Stations : Speaks(t)' => t \in Holders
      BY <1>7, <2>1, <3>1 DEF Answers
    <3> QED  BY <1>0, <3>1, <3>2 DEF OneSpeaker, HoldersOK
  <2>2. CASE UsesToken(s, x, tg)
    <3>1. \A t \in Stations : Speaks(t)' =>
            IF t = s THEN x.kind \in ActiveKinds
            ELSE tg.kind \in {"Token", "StatusRequest"} /\ tg.da = Address[t]
      BY <1>7, <2>2 DEF UsesToken
    <3>2. \A t, u \in Stations : Speaks(t)' /\ Speaks(u)' => t = u
      BY <2>2, <3>1, HoldingIs DEF UsesToken, DistinctAddresses
    <3>3. asked' # {} => \A t \in Stations : ~Speaks(t)'
      BY <1>4, <2>2, <3>1, FdlAssumption DEF UsesToken
    <3>4. \A p, q \in asked' : p = q
      BY <1>4
    <3> QED  BY <3>2, <3>3, <3>4 DEF OneSpeaker
  <2> QED  BY <2>1, <2>2
<1>9. HoldersOK'
  <2>1. \A t \in Stations : TokenComes(t, rx[t])' =>
          t # s /\ tg.kind = "Token" /\ tg.da = Address[t]
    BY <1>1, <1>2 DEF TokenComes
  <2>2. CASE Answers(x, tg)
    <3>1. Holders' \subseteq Holders
      BY <1>1, <2>2 DEF Holders, Answers
    <3> QED  BY <1>0, <2>1, <2>2, <3>1 DEF HoldersOK, Answers
  <2>3. CASE UsesToken(s, x, tg)
    <3>1. \A h \in Holders' : h = s /\ x.kind \in HoldingKinds
      BY <1>1, <2>3 DEF Holders, UsesToken
    <3> QED  BY <2>1, <2>3, <3>1 DEF HoldersOK, UsesToken
  <2> QED  BY <2>2, <2>3
<1>10. AgesOK'
  <2>1. \A t \in Stations : Age(t)' <= 1
    BY <1>6
  <2> QED  BY <1>6, <2>1 DEF AgesOK
<1>11. PassingOK'
  <2>1. \A t \in Stations : Passing(t)' => t = s /\ x.kind = "CheckTokenPass"
    BY <1>1, <1>2 DEF Passing
  <2>2. x.kind = "CheckTokenPass" => Holders' = {}
    <3>1. x.kind = "CheckTokenPass" => UsesToken(s, x, tg) /\ x.kind \notin HoldingKinds
      BY DEF Answers, HoldingKinds
    <3> QED  BY <1>1, <3>1 DEF Holders, UsesToken
  <2> QED  BY <2>1, <2>2 DEF PassingOK
<1>12. RightStep
  <2>1. ASSUME NEW h \in Holders, NEW g \in Holders'
        PROVE  g = h
    <3>1. g \in Stations /\ (g = s \/ g \in Holders)
      BY <1>1 DEF Holders
    <3>2. CASE g \in Holders
      BY <1>0, <3>2 DEF HoldersOK
    <3>3. CASE g = s /\ s \notin Holders
      BY <1>1, <3>3 DEF Holders, Answers, UsesToken
    <3> QED  BY <3>1, <3>2, <3>3
  <2>2. \A t \in Stations : TokenComes(t, rx[t])' => tg.kind = "Token"
    BY <1>1, <1>2 DEF TokenComes
  <2>3. \A t \in Stations : t # s /\ st'[t].kind = "CheckTokenPass"
                            => st[t].kind = "CheckTokenPass"
    BY <1>1
  <2>4. ASSUME Holders = {}, Holders' = {}, Underway'
        PROVE  Underway
    <3>1. CASE Answers(x, tg)
      BY <1>1, <2>2, <2>3, <2>4, <3>1 DEF Underway, Answers, TokenComes, Newest
    <3>2. CASE UsesToken(s, x, tg)
      BY <1>1, <2>4, <3>2 DEF Underway, UsesToken, Holders
    <3> QED  BY <3>1, <3>2
  <2> QED  BY <2>1, <2>4 DEF RightStep
<1> QED  BY <1>5, <1>8, <1>9, <1>10, <1>11, <1>12 DEF TokenInv, TokenStep

(* A slave's answer makes the station that waits for it the next to speak. *)
LEMMA AnswerKeepsToken ==
  ASSUME IInv, TokenInv, NEW tg \in Telegrams, Transmit(Nobody, tg), losses' = 0,
         tg.kind \in {"Response", "ShortConfirmation"},
         asked # {}, asked' = {}, UNCHANGED stationVars, quiet' = quiet
  PROVE  TokenStep
<1>0. OneSpeaker /\ HoldersOK /\ BuffersOK /\ AgesOK /\ PassingOK
  BY DEF TokenInv
<1>1. conn' = conn /\ st' = st /\ Holders' = Holders
  BY DEF stationVars, Holders
<1>2. \A t \in Stations :
        /\ st[t].kind # "Offline" =>
             /\ fresh'[t] /\ rx'[t] # <<>> /\ Newest(rx'[t]) = tg
             /\ rx[t] = <<>> => Len(rx'[t]) = 1
        /\ st[t].kind = "Offline" => ~fresh'[t] /\ rx'[t] = <<>>
  BY <1>0, Heard, FdlAssumption
<1>3. \A t \in Stations :
        /\ st[t].kind \notin ActiveKinds /\ st[t].request = Nobody
        /\ st[t].kind \in WaitKinds => rx[t] = <<>>
  BY <1>0 DEF OneSpeaker, Speaks, Speaker
<1>4. BuffersOK'
  <2>1. ASSUME NEW t \in Stations
        PROVE  BufferOK(conn[t], st[t], rx'[t], fresh'[t], quiet[t])
    <3>1. BufferOK(conn[t], st[t], rx[t], fresh[t], quiet[t])
      BY <1>0 DEF BuffersOK
    <3>2. CASE st[t].kind = "Offline"
      BY <1>2, <1>3, <3>1, <3>2 DEF BufferOK, WaitKinds
    <3>3. CASE st[t].kind # "Offline"
      <4>0. \A n : n = 1 => n <= 1
        OBVIOUS
      <4>1. /\ fresh'[t] /\ rx'[t] # <<>>
            /\ st[t].kind \in WaitKinds => Len(rx'[t]) = 1
        BY <1>2, <1>3, <3>3
      <4> QED  BY <1>3, <3>1, <3>3, <4>0, <4>1, Zenon DEF BufferOK
    <3> QED  BY <3>2, <3>3
  <2> QED  BY <1>1, <2>1 DEF BuffersOK
<1>5. \A t \in Stations : Age(t)' = 0
  <2>1. ASSUME NEW t \in Stations
        PROVE  fresh'[t] \/ quiet[t] = 0
    BY <1>0, <1>2, <2>1 DEF BuffersOK, BufferOK
  <2> QED  BY <2>1 DEF Age
<1>6. \A t \in Stations : Speaks(t)' => t \in Holders
  BY <1>1, <1>2, <1>3, HoldingIs DEF Speaks, Speaker, Addressed, Holders
<1>7. OneSpeaker'
  BY <1>0, <1>6 DEF OneSpeaker, HoldersOK
<1>8. HoldersOK'
  BY <1>0, <1>1, <1>2 DEF HoldersOK, TokenComes
<1>9. AgesOK'
  <2>1. \A t \in Stations : Age(t)' <= 1
    BY <1>5
  <2> QED  BY <1>5, <2>1 DEF AgesOK
<1>10. PassingOK'
  <2>1. \A t \in Stations : ~Passing(t)'
    BY <1>1, <1>2 DEF Passing
  <2> QED  BY <2>1 DEF PassingOK
<1>11. RightStep
  <2>1. \A t \in Stations : ~TokenComes(t, rx[t])'
    BY <1>2 DEF TokenComes
  <2> QED  BY <1>0, <1>1, <2>1 DEF RightStep, HoldersOK, Underway, TokenComes, Newest
<1> QED  BY <1>4, <1>7, <1>8, <1>9, <1>10, <1>11 DEF TokenInv, TokenStep

(* A slave answers the one request there is, or lets the time for it pass. *)
LEMMA SlaveKeepsToken ==
  ASSUME IInv, TokenInv, Slave, losses' = 0
  PROVE  TokenStep
<1>1. PICK request \in asked :
        /\ \/ /\ request.kind = "StatusRequest"
              /\ Transmit(Nobody, Response(request.da, request.sa, "Slave"))
           \/ /\ request.kind = "DataRequest"
              /\ \/ Transmit(Nobody, Response(request.da, request.sa, "Slave"))
                 \/ Transmit(Nobody, ShortConfirmation)
           \/ UNCHANGED <<rx, fresh, losses>>
        /\ asked' = {}
        /\ UNCHANGED stationVars /\ UNCHANGED <<quiet, lates, offs>>
  BY DEF Slave
<1>2. CASE Transmit(Nobody, Response(request.da, request.sa, "Slave"))
           /\ request.kind \in {"StatusRequest", "DataRequest"}
  <2>1. request \in Telegrams
    BY DEF IInv, BusOK
  <2>2. request.sa \in BusAddress /\ request.da \in BusAddress
    BY <1>2, <2>1, TelegramTypes
  <2>3. Response(request.da, request.sa, "Slave") \in Telegrams
    BY <2>2, TelegramTypes DEF ResponseStates
  <2>4. Response(request.da, request.sa, "Slave").kind = "Response"
    BY DEF Response
  <2> QED  BY <1>1, <1>2, <2>3, <2>4, AnswerKeepsToken
<1>3. CASE Transmit(Nobody, ShortConfirmation)
  <2>1. ShortConfirmation.kind = "ShortConfirmation"
    BY DEF ShortConfirmation
  <2> QED  BY <1>1, <1>3, <2>1, TelegramTypes, AnswerKeepsToken
<1>4. CASE UNCHANGED <<rx, fresh, losses>>
  <2>1. /\ conn' = conn /\ st' = st /\ rx' = rx /\ fresh' = fresh /\ quiet' = quiet
        /\ asked' = {}
    BY <1>1, <1>4 DEF stationVars
  <2>2. OneSpeaker' /\ BuffersOK' /\ HoldersOK'
    BY <2>1 DEF TokenInv, OneSpeaker, BuffersOK, HoldersOK, Holders, Speaks
  <2>3. AgesOK'
    BY <2>1 DEF TokenInv, AgesOK, Age, Unfinished
  <2>4. PassingOK'
    BY <2>1 DEF TokenInv, PassingOK, Passing, Holders, Age
  <2>5. RightStep
    BY <2>1 DEF TokenInv, RightStep, HoldersOK, Holders, Underway
  <2> QED  BY <2>2, <2>3, <2>4, <2>5 DEF TokenInv, TokenStep
<1> QED  BY <1>1, <1>2, <1>3, <1>4

(* In time, a slot passes only when everybody waits for a timeout. *)
LEMMA TickKeepsToken ==
  ASSUME IInv, BusOK', TokenInv, Tick, lates = 0, lates' = 0
  PROVE  TokenStep
<1>0. OneSpeaker /\ HoldersOK /\ BuffersOK /\ AgesOK /\ PassingOK
  BY DEF TokenInv
<1>1. asked = {} /\ \A s \in Stations : ~HasWork(s)
  BY DEF Tick
<1>2. conn' = conn /\ st' = st /\ rx' = rx /\ fresh' = fresh /\ asked' = asked
  BY DEF Tick, stationVars
<1>3. \A s \in Stations :
        /\ rx[s] = <<>> /\ ~fresh[s] /\ st[s].request = Nobody
        /\ st[s].kind \notin ActiveKinds
        /\ st[s].kind \in WaitKinds \cup {"CheckTokenPass"} => Age(s) = 0
  <2> SUFFICES ASSUME NEW s \in Stations
               PROVE  /\ rx[s] = <<>> /\ ~fresh[s] /\ st[s].request = Nobody
                      /\ st[s].kind \notin ActiveKinds
                      /\ st[s].kind \in WaitKinds \cup {"CheckTokenPass"} => Age(s) = 0
    OBVIOUS
  <2>1. BufferOK(conn[s], st[s], rx[s], fresh[s], quiet[s]) /\ ~HasWork(s)
    BY <1>0, <1>1 DEF BuffersOK
  <2>2. CASE st[s].kind = "Offline"
    BY <2>1, <2>2 DEF BufferOK, ActiveKinds, WaitKinds
  <2>3. CASE st[s].kind # "Offline"
    <3>1. conn[s] = "Online"
      BY <2>1, <2>3 DEF BufferOK
    <3>2. /\ rx[s] = <<>> /\ ~fresh[s] /\ st[s].request = Nobody
          /\ st[s].kind \notin ActiveKinds
      BY <2>1, <3>1 DEF HasWork, ActiveKinds
    <3>3. ASSUME st[s].kind \in WaitKinds \cup {"CheckTokenPass"}
          PROVE  Age(s) = 0
      <4>1. ~SlotExpired(s)
        BY <2>1, <3>1, <3>3 DEF HasWork, WaitKinds
      <4>2. quiet[s] \in Nat /\ ~(quiet[s] >= 1)
        BY <3>2, <4>1 DEF SlotExpired, IInv, BusOK
      <4> QED  BY <3>2, <4>2 DEF Age
    <3> QED  BY <3>2, <3>3
  <2> QED  BY <2>2, <2>3
<1>4. ASSUME NEW s \in Stations, Age(s) = 0
      PROVE  Age(s)' = IF st[s].kind = "Offline" THEN 0 ELSE 1
  <2>1. quiet[s] = 0 /\ Age(s)' = quiet'[s]
    BY <1>2, <1>3, <1>4 DEF Age
  <2>2. quiet'[s] = IF st[s].kind = "Offline" THEN 0 ELSE Min({1, LostTimeout(s)})
    BY <2>1 DEF Tick
  <2>3. Min({1, LostTimeout(s)}) = 1
    <3> DEFINE S == {1, LostTimeout(s)}
    <3>1. LostTimeout(s) \in Nat /\ LostTimeout(s) >= 1
      BY ConstantTypes DEF LostTimeout
    <3>2. S \in SUBSET Nat /\ S # {} /\ 1 \in S /\ \A x \in S : x \in Nat /\ x >= 1
      BY <3>1
    <3> HIDE DEF S
    <3>3. Min(S) \in S /\ Min(S) <= 1
      BY <3>2, MinOfAddresses
    <3>4. Min(S) \in Nat /\ Min(S) >= 1
      BY <3>2, <3>3
    <3>5. Min(S) = 1
      BY <3>3, <3>4
    <3> QED  BY <3>5 DEF S
  <2> QED  BY <2>1, <2>2, <2>3
<1>5. ASSUME NEW a \in Stations, st[a].kind \in WaitKinds \cup {"CheckTokenPass"}
      PROVE  Age(a)' = 1 /\ \A t \in Stations : Age(t)' <= 1
  <2>1. st[a].kind # "Offline"
    BY <1>5 DEF WaitKinds
  <2>2. Age(a) = 0 /\ \A t \in Stations : Age(t) = 0
    <3>1. Age(a) = 0 /\ \A t \in Stations : Age(t) <= Age(a) /\ Age(t) \in Nat
      BY <1>0, <1>3, <1>5, AgeType DEF AgesOK, IInv
    <3> QED  BY <3>1
  <2> QED  BY <1>4, <2>1, <2>2
<1>6. OneSpeaker' /\ HoldersOK'
  BY <1>0, <1>2 DEF OneSpeaker, HoldersOK, Holders, Speaks
<1>7. BuffersOK'
  BY <1>0, <1>2, <1>3 DEF BuffersOK, BufferOK, Tick
<1>8. AgesOK'
  <2>1. ~(asked' # {} \/ \E t \in Stations : Unfinished(t)')
    BY <1>1, <1>2, <1>3 DEF Unfinished
  <2>2. \A a \in Stations : st'[a].kind \notin ActiveKinds
    BY <1>2, <1>3
  <2>3. ASSUME NEW a \in Stations, st'[a].kind \in WaitKinds \cup {"CheckTokenPass"}
        PROVE  Age(a)' <= 1 /\ \A t \in Stations : Age(t)' <= Age(a)'
    <3>1. Age(a)' = 1 /\ \A t \in Stations : Age(t)' <= 1
      BY <1>2, <1>5, <2>3
    <3> QED  BY <3>1
  <2> QED  BY <2>1, <2>2, <2>3 DEF AgesOK
<1>9. PassingOK'
  <2>1. /\ \A t \in Stations : Passing(t)' <=> Passing(t)
        /\ Holders' = Holders
    BY <1>2 DEF Passing, Holders
  <2>2. \A t \in Holders : st[t].kind \notin {"UseToken", "PassToken"}
    BY <1>3 DEF Holders, ActiveKinds
  <2> QED  BY <1>0, <2>1, <2>2 DEF PassingOK
<1>10. RightStep
  BY <1>0, <1>2 DEF RightStep, HoldersOK, Holders, Underway
<1> QED  BY <1>6, <1>7, <1>8, <1>9, <1>10 DEF TokenInv, TokenStep

------------------------------------------------------------------------------
(* What the polls do to the buffer of their station *)

(* What the states leave open that a station is put into. *)
LEMMA StatesAsk ==
  /\ \A k : State(k).kind = k /\ State(k).request = Nobody
  /\ \A k, a : Awaiting(k, a).kind = k /\ Awaiting(k, a).request = Nobody
  /\ \A c : UseToken(c).kind = "UseToken" /\ UseToken(c).request = Nobody
  /\ \A a, c : AwaitData(a, c).kind = "AwaitDataResponse" /\ AwaitData(a, c).request = Nobody
  /\ \A b : PassToken(b).kind = "PassToken" /\ PassToken(b).request = Nobody
  /\ \A n : CheckTokenPass(n).kind = "CheckTokenPass" /\ CheckTokenPass(n).request = Nobody
BY DEF State, Awaiting, UseToken, AwaitData, PassToken, CheckTokenPass

(* A station with an empty buffer changes its state without sending. *)
LEMMA SilentReads ==
  ASSUME IInv, BuffersOK, NEW s \in Stations, NEW x, Silent(s),
         st' = [st EXCEPT ![s] = x], conn' = conn,
         conn[s] = "Online", rx[s] = <<>>, x.kind # "Offline"
  PROVE  Reads(s, x) /\ rx'[s] = <<>> /\ Age(s)' = Age(s)
<1>1. /\ rx' = rx /\ asked' = asked /\ ~fresh'[s]
      /\ \A t \in Stations : t # s => fresh'[t] = fresh[t] /\ quiet'[t] = quiet[t]
  BY DEF Silent, IInv, BusOK
<1>2. ~fresh[s]
  BY DEF BuffersOK, BufferOK
<1>3. quiet'[s] = quiet[s] /\ Age(s)' = Age(s)
  BY <1>1, <1>2 DEF Silent, IInv, BusOK, Age
<1>4. Age(s)' <= Age(s)
  BY <1>3, AgeType DEF IInv
<1>5. BufferOK(conn'[s], x, rx'[s], fresh'[s], quiet'[s])
  BY <1>1, EmptySeq DEF BufferOK
<1> QED  BY <1>1, <1>3, <1>4, <1>5 DEF Reads

(* Handling a telegram takes it from the buffer; a state that waits for     *)
(* nothing else is entered with the last one only.                          *)
LEMMA ReceiveReads ==
  ASSUME IInv, BuffersOK, NEW s \in Stations, NEW x, Receive(s),
         st' = [st EXCEPT ![s] = x], conn' = conn, conn[s] = "Online", x.kind # "Offline",
         \/ IsLast(s)
         \/ x.kind \notin HoldingKinds /\ x.request = Nobody
  PROVE  /\ Reads(s, x) /\ rx[s] # <<>>
         /\ IsLast(s) => rx'[s] = <<>> /\ Head(rx[s]) = Newest(rx[s])
<1>1. /\ rx'[s] = Tail(rx[s]) /\ quiet'[s] = 0 /\ (fresh'[s] <=> rx'[s] # <<>>)
      /\ asked' = asked /\ rx[s] # <<>>
      /\ \A t \in Stations : t # s =>
           rx'[t] = rx[t] /\ fresh'[t] = fresh[t] /\ quiet'[t] = quiet[t]
  BY DEF Receive, IInv, BusOK
<1>2. /\ Len(rx'[s]) = Len(rx[s]) - 1
      /\ rx'[s] # <<>> => Newest(rx'[s]) = Newest(rx[s])
      /\ Len(rx[s]) = 1 <=> rx'[s] = <<>>
      /\ Len(rx[s]) = 1 => Head(rx[s]) = Newest(rx[s])
  BY <1>1, NewestLeft DEF IInv, BusOK
<1>3. Age(s)' = 0 /\ Age(s)' <= Age(s)
  <2>1. Age(s)' = 0
    BY <1>1 DEF Age
  <2>2. Age(s) \in Nat
    BY AgeType DEF IInv
  <2> QED  BY <2>1, <2>2
<1>4. BufferOK(conn'[s], x, rx'[s], fresh'[s], quiet'[s])
  <2>1. CASE IsLast(s)
    <3>0. \A n : n = 0 => n <= 1
      OBVIOUS
    <3>1. rx'[s] = <<>> /\ Len(rx'[s]) = 0
      BY <1>2, <2>1, EmptySeq DEF IsLast
    <3> QED  BY <1>1, <3>0, <3>1, Zenon DEF BufferOK
  <2>2. CASE x.kind \notin HoldingKinds /\ x.request = Nobody
    BY <1>1, <2>2, HoldingIs DEF BufferOK
  <2> QED  BY <2>1, <2>2
<1> QED  BY <1>1, <1>2, <1>3, <1>4 DEF Reads, IsLast

(* A station that throws its buffer away may go to any state that owes no   *)
(* answer.                                                                  *)
LEMMA EmptyingReads ==
  ASSUME IInv, NEW s \in Stations, NEW x,
         rx' = [rx EXCEPT ![s] = <<>>], quiet' = [quiet EXCEPT ![s] = 0],
         fresh' = [fresh EXCEPT ![s] = FALSE], asked' = asked,
         st' = [st EXCEPT ![s] = x], x.request = Nobody,
         \A t \in Stations : t # s => conn'[t] = conn[t],
         x.kind # "Offline" => conn'[s] = "Online"
  PROVE  Reads(s, x) /\ rx'[s] = <<>>
<1>1. /\ rx'[s] = <<>> /\ quiet'[s] = 0 /\ ~fresh'[s]
      /\ \A t \in Stations : t # s =>
           rx'[t] = rx[t] /\ fresh'[t] = fresh[t] /\ quiet'[t] = quiet[t]
  BY DEF IInv, BusOK
<1>2. Age(s)' <= Age(s)
  <2>1. Age(s)' = 0
    BY <1>1 DEF Age
  <2>2. Age(s) \in Nat
    BY AgeType DEF IInv
  <2> QED  BY <2>1, <2>2
<1>3. BufferOK(conn'[s], x, rx'[s], fresh'[s], quiet'[s])
  BY <1>1, EmptySeq DEF BufferOK
<1> QED  BY <1>1, <1>2, <1>3 DEF Reads

------------------------------------------------------------------------------
(* Steps of stations without the token *)

(* A station that reads, or gives up what it had, and is without the token  *)
(* afterwards takes no right from others.                                   *)
LEMMA IdleKeepsToken ==
  ASSUME IInv, BusOK', TokenInv, NEW s \in Stations, NEW x \in States, Reads(s, x),
         x.kind \in {"Offline", "ListenToken", "ActiveIdle"},
         x.request # Nobody => Speaks(s) /\ Unfinished(s)
  PROVE  TokenStep
<1>1. Addressed(s, rx'[s]) => Addressed(s, rx[s])
  BY DEF Addressed, Reads
<1>2. x.kind \notin HoldingKinds \cup {"CheckTokenPass"}
  BY DEF HoldingKinds
<1>3. Follows(s, x)
  BY <1>1, <1>2, HoldingIs DEF Follows, Speaker, Speaks
<1> QED  BY <1>3, ReadsKeepsToken

(* A station without the token that reads the newest telegram obeys it. *)
LEMMA HandleKeepsToken ==
  ASSUME IInv, BusOK', TokenInv, NEW s \in Stations, conn[s] = "Online",
         NEW idle \in States, idle.kind = "ActiveIdle", idle.request = Nobody,
         NEW tg, tg = Head(rx[s]), HandleTelegram(s, idle, tg), UNCHANGED conn
  PROVE  TokenStep
<1>1. BuffersOK
  BY DEF TokenInv
<1>2. CASE OwnTokenSeen(s, idle, tg)
  <2>1. CASE Become(s, [idle EXCEPT !.collisions = 1]) /\ Receive(s)
    <3> DEFINE x == [idle EXCEPT !.collisions = 1]
    <3>1. x \in States /\ x.kind = "ActiveIdle" /\ x.request = Nobody
      BY IdleStates DEF States
    <3> HIDE DEF x
    <3>2. Reads(s, x)
      BY <1>1, <2>1, <3>1, ReceiveReads DEF Become, HoldingKinds, x
    <3> QED  BY <3>1, <3>2, IdleKeepsToken
  <2>2. CASE Become(s, State("ListenToken")) /\ Drain(s)
    <3>1. /\ State("ListenToken") \in States /\ State("ListenToken").kind = "ListenToken"
          /\ State("ListenToken").request = Nobody
      BY StateTypes, StatesAsk DEF StateKinds
    <3>2. Reads(s, State("ListenToken"))
      BY <2>2, <3>1, EmptyingReads DEF Become, Drain
    <3> QED  BY <3>1, <3>2, IdleKeepsToken
  <2> QED  BY <1>2, <2>1, <2>2 DEF OwnTokenSeen
<1>3. CASE TokenPassSeen(s, idle, tg)
  <2> DEFINE x == [idle EXCEPT !.collisions = 0]
  <2>1. x \in States /\ x.kind = "ActiveIdle" /\ x.request = Nobody
    BY IdleStates DEF States
  <2> HIDE DEF x
  <2>2. Reads(s, x)
    BY <1>1, <1>3, <2>1, ReceiveReads DEF TokenPassSeen, Become, HoldingKinds, x
  <2> QED  BY <2>1, <2>2, IdleKeepsToken
<1>4. CASE TokenReceived(s, idle, tg)
  <2>0. Receive(s) /\ IsLast(s) /\ tg.kind = "Token" /\ tg.da = Address[s] /\ tg \in Telegrams
    BY <1>4, ReceiveType DEF TokenReceived, IInv
  <2>1. CASE Become(s, UseToken(MaxCycles))
    <3> DEFINE x == UseToken(MaxCycles)
    <3>1. x \in States /\ x.kind = "UseToken" /\ x.request = Nobody
      <4>1. MaxCycles \in 0 .. MaxCycles
        BY ConstantTypes
      <4> QED  BY <4>1, StateTypes, StatesAsk
    <3> HIDE DEF x
    <3>2. Reads(s, x) /\ rx'[s] = <<>> /\ rx[s] # <<>> /\ Head(rx[s]) = Newest(rx[s])
      BY <1>1, <2>0, <2>1, <3>1, ReceiveReads DEF Become, x
    <3>3. TokenComes(s, rx[s]) /\ Speaks(s)
      BY <2>0, <3>2 DEF TokenComes, Speaks, Speaker, Addressed
    <3>4. Follows(s, x)
      BY <3>1, <3>2, <3>3 DEF Follows, WaitKinds
    <3> QED  BY <3>1, <3>2, <3>4, ReadsKeepsToken
  <2>2. CASE Become(s, [idle EXCEPT !.newPrev = tg.sa, !.collisions = 0])
    <3> DEFINE x == [idle EXCEPT !.newPrev = tg.sa, !.collisions = 0]
    <3>1. tg.sa \in BusAddress
      BY <2>0, TelegramTypes
    <3>2. x \in States /\ x.kind = "ActiveIdle" /\ x.request = Nobody
      <4>1. x \in States /\ x.kind = idle.kind
        BY <3>1, IdleStates
      <4>2. x.request = idle.request
        BY DEF States
      <4> QED  BY <4>1, <4>2
    <3> HIDE DEF x
    <3>3. Reads(s, x)
      BY <1>1, <2>0, <2>2, <3>2, ReceiveReads DEF Become, HoldingKinds, x
    <3> QED  BY <3>2, <3>3, IdleKeepsToken
  <2> QED  BY <1>4, <2>1, <2>2 DEF TokenReceived
<1>5. CASE OtherTelegram(s, idle, tg)
  <2>0. Receive(s) /\ tg.kind # "Token" /\ tg \in Telegrams
    BY <1>5, ReceiveType DEF OtherTelegram, IInv
  <2>1. CASE tg.kind = "StatusRequest" /\ tg.da = Address[s] /\ IsLast(s)
    <3> DEFINE x == [idle EXCEPT !.request = tg.sa]
    <3>1. tg.sa \in BusAddress
      BY <2>0, <2>1, TelegramTypes
    <3>2. x \in States /\ x.kind = "ActiveIdle"
      BY <3>1, IdleStates
    <3>3. Become(s, x)
      BY <1>5, <2>1 DEF OtherTelegram
    <3> HIDE DEF x
    <3>4. Reads(s, x) /\ rx[s] # <<>> /\ Head(rx[s]) = Newest(rx[s])
      BY <1>1, <2>0, <2>1, <3>2, <3>3, ReceiveReads DEF Become
    <3>5. Speaks(s) /\ Unfinished(s)
      BY <2>1, <3>4 DEF Speaks, Speaker, Addressed, Unfinished
    <3> QED  BY <3>2, <3>4, <3>5, IdleKeepsToken
  <2>2. CASE ~(tg.kind = "StatusRequest" /\ tg.da = Address[s] /\ IsLast(s))
    <3>1. Become(s, idle)
      BY <1>5, <2>2 DEF OtherTelegram
    <3>2. Reads(s, idle)
      BY <1>1, <2>0, <3>1, ReceiveReads DEF Become, HoldingKinds
    <3> QED  BY <3>2, IdleKeepsToken
  <2> QED  BY <2>1, <2>2
<1> QED  BY <1>2, <1>3, <1>4, <1>5 DEF HandleTelegram

(* A station that listens does not take the token that is sent to it. *)
LEMMA ListenReceiveKeepsToken ==
  ASSUME IInv, BusOK', TokenInv, NEW s \in Stations, conn[s] = "Online",
         st[s].kind = "ListenToken", ListenTokenReceive(s)
  PROVE  TokenStep
<1> DEFINE tg == Head(rx[s])
<1>1. BuffersOK /\ st[s] \in States /\ st = [st EXCEPT ![s] = st[s]] /\ st[s].request = Nobody
  BY DEF TokenInv, IInv, StationsOK, ListenTokenReceive
<1>2. ASSUME NEW x \in States, x.kind = "ListenToken", x.request = Nobody,
             st' = [st EXCEPT ![s] = x], Receive(s), UNCHANGED conn
      PROVE  TokenStep
  <2>1. Reads(s, x)
    BY <1>1, <1>2, ReceiveReads DEF HoldingKinds
  <2> QED  BY <1>2, <2>1, IdleKeepsToken
<1>3. CASE /\ Become(s, [st[s] EXCEPT !.collisions = 1])
           /\ Receive(s) /\ UNCHANGED <<conn, ring, gap>>
  <2> DEFINE x == [st[s] EXCEPT !.collisions = 1]
  <2>1. x \in States /\ x.kind = "ListenToken" /\ x.request = Nobody
    BY <1>1, IdleStates DEF States
  <2> QED  BY <1>2, <1>3, <2>1 DEF Become
<1>4. CASE Recreate(s, "Offline") /\ Drain(s)
  <2> DEFINE x == State("Offline")
  <2>1. x \in States /\ x.kind = "Offline" /\ x.request = Nobody
    BY StateTypes, StatesAsk DEF StateKinds
  <2>2. \A t \in Stations : t # s => conn'[t] = conn[t]
    BY <1>4 DEF Recreate, IInv, StationsOK
  <2> HIDE DEF x
  <2>3. Reads(s, x)
    BY <1>4, <2>1, <2>2, EmptyingReads DEF Drain, Recreate, Become, x
  <2> QED  BY <2>1, <2>3, IdleKeepsToken
<1>5. CASE Receive(s) /\ UNCHANGED <<conn, st, gap>>
  BY <1>1, <1>2, <1>5
<1>6. CASE /\ tg.kind # "Token" /\ Receive(s) /\ UNCHANGED <<conn, ring, gap>>
           /\ Become(s, IF tg.kind = "StatusRequest" /\ tg.da = Address[s] /\ IsLast(s)
                        THEN [st[s] EXCEPT !.request = tg.sa] ELSE st[s])
  <2>1. CASE tg.kind = "StatusRequest" /\ tg.da = Address[s] /\ IsLast(s)
    <3> DEFINE x == [st[s] EXCEPT !.request = tg.sa]
    <3>1. tg.sa \in BusAddress
      BY <1>6, <2>1, ReceiveType, TelegramTypes DEF IInv
    <3>2. x \in States /\ x.kind = "ListenToken"
      BY <1>1, <3>1, IdleStates
    <3>3. st' = [st EXCEPT ![s] = x]
      BY <1>6, <2>1 DEF Become
    <3> HIDE DEF x
    <3>4. Reads(s, x) /\ rx[s] # <<>> /\ Head(rx[s]) = Newest(rx[s])
      BY <1>1, <1>6, <2>1, <3>2, <3>3, ReceiveReads
    <3>5. Speaks(s) /\ Unfinished(s)
      BY <2>1, <3>4 DEF Speaks, Speaker, Addressed, Unfinished
    <3> QED  BY <3>2, <3>4, <3>5, IdleKeepsToken
  <2>2. CASE ~(tg.kind = "StatusRequest" /\ tg.da = Address[s] /\ IsLast(s))
    BY <1>1, <1>2, <1>6, <2>2 DEF Become
  <2> QED  BY <2>1, <2>2
<1> QED  BY <1>3, <1>4, <1>5, <1>6 DEF ListenTokenReceive

(* A station that is asked answers, and is not asked any more. *)
LEMMA ReplyKeepsToken ==
  ASSUME IInv, BusOK', TokenInv, DistinctAddresses, NEW s \in Stations, NEW x \in States,
         NEW answer \in ResponseStates, losses' = 0,
         st[s].kind \in {"ListenToken", "ActiveIdle"}, st[s].request # Nobody,
         Send(s, Response(Address[s], st[s].request, answer)),
         Become(s, x), UNCHANGED conn,
         x.kind \in {"ListenToken", "ActiveIdle"}, x.request = Nobody
  PROVE  TokenStep
<1> DEFINE tg == Response(Address[s], st[s].request, answer)
<1>1. tg \in Telegrams /\ tg.kind = "Response"
  <2>1. st[s].request \in BusAddress
    BY DEF IInv, StationsOK, States
  <2> QED  BY <2>1, TelegramTypes, ConstantTypes DEF Response
<1>2. MaySpeak(s)
  <2>1. Speaks(s)
    BY DEF Speaks, Speaker
  <2>2. rx[s] = <<>>
    BY DEF TokenInv, BuffersOK, BufferOK
  <2> QED  BY <2>1, <2>2 DEF MaySpeak, TokenInv, OneSpeaker
<1>3. Says(s, x, tg) /\ Answers(x, tg)
  BY <1>1 DEF Says, Answers, Become, HoldingKinds
<1> HIDE DEF tg
<1> QED  BY <1>1, <1>2, <1>3, SaysKeepsToken

------------------------------------------------------------------------------
(* Steps of the station that has the token *)

(* It is its turn: it has the token, and all others wait. *)
Turn(s) ==
  /\ MaySpeak(s) /\ s \in Holders /\ \A h \in Holders : h = s
  /\ Speaks(s) \/ Unspoken

(* A station that sends at its next poll does not wait for anybody. *)
LEMMA ActiveHasTurn ==
  ASSUME TokenInv, NEW s \in Stations, st[s].kind \in ActiveKinds
  PROVE  Turn(s)
<1>1. Speaks(s) /\ s \in Holders /\ rx[s] = <<>> /\ st[s].kind # "Offline"
  BY HoldingIs DEF Speaks, Speaker, Holders, TokenInv, BuffersOK, BufferOK, ActiveKinds
<1> QED  BY <1>1 DEF Turn, MaySpeak, TokenInv, OneSpeaker, HoldersOK

(* After a slot in which nothing was heard there is nothing left to hear. *)
LEMMA NothingComes ==
  ASSUME IInv, TokenInv, NEW s \in Stations, Age(s) >= 1
  PROVE  asked = {} /\ \A t \in Stations : ~Unfinished(t)
<1>1. Age(s) # 0
  BY AgeType DEF IInv
<1> QED  BY <1>1 DEF TokenInv, AgesOK

(* A station whose request was not answered has its turn again. *)
LEMMA WaitingHasTurn ==
  ASSUME IInv, TokenInv, NEW s \in Stations, st[s].kind \in WaitKinds,
         rx[s] = <<>>, SlotExpired(s)
  PROVE  Turn(s)
<1>1. Age(s) >= 1
  BY DEF SlotExpired, Age
<1>2. asked = {} /\ \A t \in Stations : ~Unfinished(t)
  BY <1>1, NothingComes
<1>3. s \in Holders /\ st[s].kind # "Offline" /\ st[s].kind \notin ActiveKinds
  BY HoldingIs DEF Holders, WaitKinds, ActiveKinds
<1>4. \A h \in Holders : h = s
  BY <1>3 DEF TokenInv, HoldersOK
<1>5. \A t \in Stations : ~Speaks(t)
  BY <1>2, <1>3, <1>4, HoldingIs DEF Speaks, Speaker, Addressed, Unfinished, Holders
<1> QED  BY <1>2, <1>3, <1>4, <1>5 DEF Turn, MaySpeak, Unspoken

(* The holder goes on without sending ... *)
LEMMA GoesOnKeepsToken ==
  ASSUME IInv, BusOK', TokenInv, NEW s \in Stations, conn[s] = "Online",
         Turn(s), NEW x \in States, x.kind \in ActiveKinds, x.request = Nobody,
         Become(s, x), Silent(s), UNCHANGED conn,
         st[s].kind \in {"UseToken", "PassToken"} => x.kind \in {"UseToken", "PassToken"}
  PROVE  TokenStep
<1>1. Reads(s, x) /\ rx'[s] = <<>>
  BY SilentReads DEF TokenInv, Turn, MaySpeak, Become, ActiveKinds
<1>2. Follows(s, x)
  <2>1. x.kind \notin WaitKinds \cup {"CheckTokenPass"} /\ x.kind # "CheckTokenPass"
    BY DEF ActiveKinds, WaitKinds
  <2>2. s \in Holders /\ (Speaks(s) \/ Unspoken)
    BY DEF Turn
  <2> QED  BY <1>1, <2>1, <2>2 DEF Follows
<1> QED  BY <1>1, <1>2, ReadsKeepsToken

(* ... or with a request, whose reply it waits for, if there will be one. *)
LEMMA RequestKeepsToken ==
  ASSUME IInv, BusOK', TokenInv, DistinctAddresses, NEW s \in Stations, Turn(s),
         NEW x \in States, x.request = Nobody,
         NEW tg \in Telegrams, losses' = 0, Send(s, tg), Become(s, x), UNCHANGED conn,
         \/ x.kind \in WaitKinds /\ tg.kind \in {"StatusRequest", "DataRequest"}
         \/ x.kind = "UseToken" /\ tg.kind = "DataRequest" /\ tg.da \notin Slaves
  PROVE  TokenStep
<1>1. Says(s, x, tg) /\ UsesToken(s, x, tg) /\ x.kind # "Offline"
  BY DEF Says, UsesToken, Become, Turn, WaitKinds, ActiveKinds
<1> QED  BY <1>1, SaysKeepsToken DEF Turn

(* The scan of the GAP. *)
LEMMA ScanKeepsToken ==
  ASSUME IInv, BusOK', TokenInv, DistinctAddresses, NEW s \in Stations, conn[s] = "Online",
         Turn(s), Scan(s), losses' = 0, st[s].kind \in {"ClaimScan", "ClaimAwaitResponse"}
  PROVE  TokenStep
<1> DEFINE g == NextGapPoll(ring[s], gap[s].n)
<1>1. CASE Become(s, PassToken(FALSE)) /\ Silent(s) /\ UNCHANGED conn
  BY <1>1, StateTypes, StatesAsk, GoesOnKeepsToken DEF ActiveKinds
<1>2. CASE Become(s, State("ClaimScan")) /\ Silent(s) /\ UNCHANGED conn
  BY <1>2, StateTypes, StatesAsk, GoesOnKeepsToken DEF ActiveKinds, StateKinds
<1>3. CASE /\ gap[s].poll /\ g.poll /\ UNCHANGED conn
           /\ Send(s, StatusRequest(Address[s], g.n))
           /\ Become(s, Awaiting("ClaimAwaitResponse", g.n))
  <2>1. g.n \in BusAddress
    <3>1. gap[s] \in GapStates
      BY DEF IInv, StationsOK
    <3>2. g \in GapStates
      BY <1>3, <3>1, GapTypes, NextGapPollType
    <3> HIDE DEF g
    <3> QED  BY <1>3, <3>2, GapTypes, ConstantTypes
  <2> HIDE DEF g
  <2>2. /\ StatusRequest(Address[s], g.n) \in Telegrams
        /\ StatusRequest(Address[s], g.n).kind = "StatusRequest"
    BY <2>1, TelegramTypes, ConstantTypes DEF StatusRequest
  <2>3. /\ Awaiting("ClaimAwaitResponse", g.n) \in States
        /\ Awaiting("ClaimAwaitResponse", g.n).kind \in WaitKinds
        /\ Awaiting("ClaimAwaitResponse", g.n).request = Nobody
    BY <2>1, StateTypes, StatesAsk DEF WaitKinds, StateKinds
  <2> QED  BY <1>3, <2>2, <2>3, RequestKeepsToken
<1> QED  BY <1>1, <1>2, <1>3 DEF Scan

(* A message cycle, or the end of them. *)
LEMMA CycleKeepsToken ==
  ASSUME IInv, BusOK', TokenInv, DistinctAddresses, NEW s \in Stations, conn[s] = "Online",
         Turn(s), UseTokenOrPass(s), losses' = 0,
         st[s].kind \in {"UseToken", "AwaitDataResponse"}
  PROVE  TokenStep
<1>0. /\ st[s].cycles \in 0 .. MaxCycles
      /\ st[s].cycles > 0 => st[s].cycles - 1 \in 0 .. MaxCycles
  <2>1. st[s].cycles \in 0 .. MaxCycles
    BY DEF IInv, StationsOK, States
  <2> QED  BY <2>1, ConstantTypes
<1>1. ASSUME st[s].cycles > 0, NEW slave \in Slaves,
             Send(s, DataRequest(Address[s], slave)),
             Become(s, AwaitData(slave, st[s].cycles - 1)), UNCHANGED conn
      PROVE  TokenStep
  <2> DEFINE x == AwaitData(slave, st[s].cycles - 1)
             tg == DataRequest(Address[s], slave)
  <2>1. slave \in BusAddress
    BY ConstantTypes
  <2>2. tg \in Telegrams /\ tg.kind = "DataRequest"
    BY <2>1, TelegramTypes, ConstantTypes DEF DataRequest
  <2>3. x \in States /\ x.kind \in WaitKinds /\ x.request = Nobody
    BY <1>0, <1>1, <2>1, StateTypes, StatesAsk DEF WaitKinds
  <2>4. Send(s, tg) /\ Become(s, x) /\ UNCHANGED conn
    BY <1>1
  <2> HIDE DEF x, tg
  <2> QED  BY <2>2, <2>3, <2>4, RequestKeepsToken
<1>2. CASE /\ st[s].cycles > 0 /\ Send(s, DataRequest(Address[s], Broadcast))
           /\ Become(s, UseToken(st[s].cycles - 1)) /\ UNCHANGED conn
  <2> DEFINE x == UseToken(st[s].cycles - 1)
             tg == DataRequest(Address[s], Broadcast)
  <2>2. tg \in Telegrams /\ tg.kind = "DataRequest" /\ tg.da \notin Slaves
    <3>1. Broadcast \in BusAddress /\ Broadcast \notin Slaves
      BY FdlAssumption DEF Broadcast, BusAddress, StationAddress
    <3> QED  BY <3>1, TelegramTypes, ConstantTypes DEF DataRequest
  <2>3. x \in States /\ x.kind = "UseToken" /\ x.request = Nobody
    BY <1>0, <1>2, StateTypes, StatesAsk
  <2>4. Send(s, tg) /\ Become(s, x) /\ UNCHANGED conn
    BY <1>2
  <2> HIDE DEF x, tg
  <2> QED  BY <2>2, <2>3, <2>4, RequestKeepsToken
<1>3. CASE Become(s, PassToken(TRUE)) /\ Silent(s) /\ UNCHANGED conn
  BY <1>3, StateTypes, StatesAsk, GoesOnKeepsToken DEF ActiveKinds
<1> QED  BY <1>1, <1>2, <1>3 DEF UseTokenOrPass

(* A station keeps the token that it sends only if it sent it to itself:    *)
(* the destination of the pass stays in the LAS, and is NS then.            *)
LEMMA KeptTokenIsOwn ==
  ASSUME NEW r \in Rings, Consistent(r), ReadyForRing(r),
         WitnessTokenPass(r, r.this, r.next).next = r.this
  PROVE  r.next = r.this
<1> DEFINE u == UpdateLas(r, r.this, r.next)
<1>1. r.this \in BusAddress /\ r.next \in BusAddress /\ r.active \in SUBSET BusAddress
  BY DEF Rings, StationAddress, BusAddress
<1>2. CASE WitnessTokenPass(r, r.this, r.next) = r
  BY <1>2
<1>3. CASE WitnessTokenPass(r, r.this, r.next) = u /\ r.next # r.this
  <2>1. u.next = NextOf(r.this, u.active) /\ u.active \in SUBSET BusAddress
        /\ u.active = {a \in r.active : ~Skips(r.this, r.next, a)} \cup {r.this}
    BY <1>1, UpdateLasType DEF Consistent, Rings
  <2>2. r.next \in r.active
    BY <1>1, <1>3, NextOfIsNeighbour DEF Consistent
  <2>3. r.next \in u.active
    <3>1. ~Skips(r.this, r.next, r.next)
      BY <1>1, <1>3 DEF Skips, BusAddress
    <3> QED  BY <2>1, <2>2, <3>1
  <2>4. ~Skips(r.this, NextOf(r.this, u.active), r.next)
    BY <1>1, <2>1, <2>3, NextOfIsNeighbour
  <2>5. ~Skips(r.this, r.this, r.next)
    <3> HIDE DEF u
    <3> QED  BY <1>3, <2>1, <2>4
  <2>6. r.this \in Nat /\ r.next \in Nat
    BY <1>1 DEF BusAddress
  <2> QED  BY <2>5, <2>6 DEF Skips
<1>4. WitnessTokenPass(r, r.this, r.next) \in {r, u}
  BY DEF WitnessTokenPass, ReadyForRing
<1> QED
  <2> HIDE DEF u
  <2> QED  BY <1>2, <1>3, <1>4

(* The token is passed on. *)
LEMMA PassKeepsToken ==
  ASSUME IInv, BusOK', TokenInv, DistinctAddresses, NEW s \in Stations,
         NEW r \in Rings, r.this = Address[s], Consistent(r), ReadyForRing(r),
         NEW attempt \in 1 .. 3, SendToken(s, r, attempt), losses' = 0,
         MaySpeak(s), \A h \in Holders : h = s,
         s \in Holders \/ st[s].kind = "CheckTokenPass"
  PROVE  TokenStep
<1> DEFINE passed == WitnessTokenPass(r, Address[s], r.next)
           tg == Token(Address[s], r.next)
           x == IF passed.next = Address[s] THEN UseToken(MaxCycles)
                                            ELSE CheckTokenPass(attempt)
<1>1. tg \in Telegrams /\ tg.kind = "Token" /\ tg.da = r.next
  <2>1. r.next \in BusAddress
    BY DEF Rings
  <2> QED  BY <2>1, TelegramTypes, ConstantTypes DEF Token
<1>2. x \in States /\ x.kind \in {"UseToken", "CheckTokenPass"} /\ x.request = Nobody
  <2>1. MaxCycles \in 0 .. MaxCycles
    BY ConstantTypes
  <2> QED  BY <2>1, StateTypes, StatesAsk
<1>3. x.kind = "UseToken" => r.next = Address[s]
  BY KeptTokenIsOwn, StatesAsk
<1>4. Send(s, tg) /\ Become(s, x) /\ UNCHANGED conn
  BY DEF SendToken
<1> HIDE DEF x, tg, passed
<1>5. Says(s, x, tg)
  BY <1>4 DEF Says, Become
<1>6. UsesToken(s, x, tg)
  <2>1. x.kind \in HoldingKinds => \A t \in Stations : Address[t] = tg.da => t = s
    BY <1>1, <1>2, <1>3 DEF HoldingKinds, DistinctAddresses
  <2> QED  BY <1>1, <2>1 DEF UsesToken
<1> QED  BY <1>1, <1>2, <1>5, <1>6, SaysKeepsToken

(* What is answered, or said instead, ends the wait. *)
LEMMA WaitEndsKeepsToken ==
  ASSUME IInv, BusOK', TokenInv, NEW s \in Stations, conn[s] = "Online",
         st[s].kind \in WaitKinds, NEW x \in States, x.request = Nobody,
         x.kind \in {"ClaimScan", "UseToken", "PassToken", "ActiveIdle"},
         Receive(s), Become(s, x), UNCHANGED conn
  PROVE  TokenStep
<1>1. rx[s] # <<>> /\ Len(rx[s]) <= 1 /\ Len(rx[s]) \in Nat \ {0}
  BY EmptySeq DEF TokenInv, BuffersOK, BufferOK, Receive, IInv, BusOK
<1>2. IsLast(s)
  <2>1. \A n \in Nat \ {0} : n <= 1 => n = 1
    OBVIOUS
  <2> QED  BY <1>1, <2>1 DEF IsLast
<1>3. Reads(s, x) /\ rx'[s] = <<>>
  BY <1>2, ReceiveReads DEF TokenInv, Become
<1>4. Speaks(s) /\ s \in Holders
  BY <1>1, HoldingIs DEF Speaks, Speaker, Holders
<1>5. Follows(s, x)
  <2>1. x.kind \notin WaitKinds \cup {"CheckTokenPass"} /\ x.kind # "CheckTokenPass"
    BY DEF WaitKinds
  <2>2. st[s].kind \notin {"UseToken", "PassToken"}
    BY DEF WaitKinds
  <2> QED  BY <1>3, <1>4, <2>1, <2>2 DEF Follows
<1> QED  BY <1>3, <1>5, ReadsKeepsToken

(* What is known of a station of the ring that sends the token. *)
LEMMA MembersRing ==
  ASSUME IInv, NEW s \in Stations, InRing(s)
  PROVE  /\ ring[s] \in Rings /\ ring[s].this = Address[s] /\ Consistent(ring[s])
         /\ ReadyForRing(ring[s]) /\ st[s].attempt \in 1 .. 3
BY DEF IInv, StationsOK, StationOK, InRing, States

(* A token pass, or the GAP poll before it, comes from the one station that *)
(* has the token.                                                           *)
LEMMA PassTheKeepsToken ==
  ASSUME IInv, BusOK', TokenInv, DistinctAddresses, NEW s \in Stations, PassTheToken(s),
         losses' = 0
  PROVE  TokenStep
<1> DEFINE g == GapOfRotation(s)
<1>1. Turn(s)
  BY ActiveHasTurn DEF PassTheToken, ActiveKinds
<1>2. /\ ring[s] \in Rings /\ ring[s].this = Address[s] /\ Consistent(ring[s])
      /\ ReadyForRing(ring[s]) /\ st[s].attempt \in 1 .. 3
  BY MembersRing DEF InRing, PassTheToken
<1>3. ASSUME NEW attempt \in 1 .. 3, SendToken(s, ring[s], attempt)
      PROVE  TokenStep
  BY <1>1, <1>2, <1>3, PassKeepsToken DEF Turn
<1>4. CASE /\ g.poll /\ Send(s, StatusRequest(Address[s], g.n))
           /\ Become(s, Awaiting("AwaitStatusResponse", g.n)) /\ UNCHANGED <<conn, ring>>
  <2> DEFINE tg == StatusRequest(Address[s], g.n)
             x == Awaiting("AwaitStatusResponse", g.n)
  <2>1. g.n \in BusAddress
    <3>1. g \in GapStates
      BY GapOfRotationType DEF IInv
    <3> HIDE DEF g
    <3> QED  BY <1>4, <3>1, GapTypes, ConstantTypes
  <2>2. tg \in Telegrams /\ tg.kind = "StatusRequest"
    BY <2>1, TelegramTypes, ConstantTypes DEF StatusRequest
  <2>3. x \in States /\ x.kind \in WaitKinds /\ x.request = Nobody
    BY <2>1, StateTypes, StatesAsk DEF WaitKinds, StateKinds
  <2>4. Send(s, tg) /\ Become(s, x) /\ UNCHANGED conn
    BY <1>4
  <2> HIDE DEF x, tg
  <2> QED  BY <1>1, <2>2, <2>3, <2>4, RequestKeepsToken
<1>5. 1 \in 1 .. 3
  OBVIOUS
<1> QED  BY <1>2, <1>3, <1>4, <1>5 DEF PassTheToken

(* The answer to a poll of the GAP. *)
LEMMA PolledKeepsToken ==
  ASSUME IInv, BusOK', TokenInv, NEW s \in Stations, conn[s] = "Online",
         st[s].kind \in WaitKinds, NEW x \in States, x.request = Nobody,
         x.kind \in {"ClaimScan", "PassToken"}, GapPollResponse(s, x)
  PROVE  TokenStep
<1>1. Receive(s) /\ UNCHANGED conn /\ (Become(s, x) \/ Become(s, State("ActiveIdle")))
  BY DEF GapPollResponse
<1>2. /\ State("ActiveIdle") \in States /\ State("ActiveIdle").kind = "ActiveIdle"
      /\ State("ActiveIdle").request = Nobody
  BY StateTypes, StatesAsk DEF StateKinds
<1> QED  BY <1>1, <1>2, WaitEndsKeepsToken

(* While claiming: the response of a GAP poll comes, or its time has        *)
(* passed.                                                                  *)
LEMMA ClaimAwaitKeepsToken ==
  ASSUME IInv, BusOK', TokenInv, DistinctAddresses, NEW s \in Stations, conn[s] = "Online",
         ClaimAwaitResponse(s), losses' = 0
  PROVE  TokenStep
<1>1. st[s].kind = "ClaimAwaitResponse" /\ st[s].kind \in WaitKinds
  BY DEF ClaimAwaitResponse, WaitKinds
<1>2. /\ State("ClaimScan") \in States /\ State("ClaimScan").kind = "ClaimScan"
      /\ State("ClaimScan").request = Nobody
  BY StateTypes, StatesAsk DEF StateKinds
<1>3. CASE GapPollResponse(s, State("ClaimScan"))
  BY <1>1, <1>2, <1>3, PolledKeepsToken
<1>4. CASE rx[s] = <<>> /\ SlotExpired(s) /\ Scan(s)
  BY <1>1, <1>4, WaitingHasTurn, ScanKeepsToken
<1> QED  BY <1>3, <1>4 DEF ClaimAwaitResponse

(* While passing the token: the response of a GAP poll comes, or its time   *)
(* has passed.                                                              *)
LEMMA AwaitStatusKeepsToken ==
  ASSUME IInv, BusOK', TokenInv, DistinctAddresses, NEW s \in Stations, conn[s] = "Online",
         AwaitStatusResponse(s), losses' = 0
  PROVE  TokenStep
<1>1. st[s].kind \in WaitKinds /\ InRing(s)
  BY DEF AwaitStatusResponse, WaitKinds, InRing
<1>2. CASE GapPollResponse(s, PassToken(FALSE))
  BY <1>1, <1>2, StateTypes, StatesAsk, PolledKeepsToken
<1>3. CASE rx[s] = <<>> /\ SlotExpired(s) /\ SendToken(s, ring[s], 1)
  <2>1. Turn(s)
    BY <1>1, <1>3, WaitingHasTurn
  <2> QED  BY <1>1, <1>3, <2>1, MembersRing, PassKeepsToken DEF Turn
<1> QED  BY <1>2, <1>3 DEF AwaitStatusResponse

(* The reply to an application's request comes, or something else, or its   *)
(* time has passed.                                                         *)
LEMMA AwaitDataKeepsToken ==
  ASSUME IInv, BusOK', TokenInv, DistinctAddresses, NEW s \in Stations, conn[s] = "Online",
         AwaitDataResponse(s), losses' = 0
  PROVE  TokenStep
<1>1. st[s].kind = "AwaitDataResponse" /\ st[s].kind \in WaitKinds
  BY DEF AwaitDataResponse, WaitKinds
<1>2. CASE DataReply(s)
  <2>1. Receive(s) /\ UNCHANGED conn
        /\ (Become(s, UseToken(st[s].cycles)) \/ Become(s, State("ActiveIdle")))
    BY <1>2 DEF DataReply
  <2>2. /\ State("ActiveIdle") \in States /\ State("ActiveIdle").kind = "ActiveIdle"
        /\ State("ActiveIdle").request = Nobody
    BY StateTypes, StatesAsk DEF StateKinds
  <2>3. /\ UseToken(st[s].cycles) \in States /\ UseToken(st[s].cycles).kind = "UseToken"
        /\ UseToken(st[s].cycles).request = Nobody
    BY StateTypes, StatesAsk DEF IInv, StationsOK, States
  <2> QED  BY <1>1, <2>1, <2>2, <2>3, WaitEndsKeepsToken
<1>3. CASE rx[s] = <<>> /\ SlotExpired(s) /\ UseTokenOrPass(s)
  BY <1>1, <1>3, WaitingHasTurn, CycleKeepsToken
<1> QED  BY <1>2, <1>3 DEF AwaitDataResponse

(* The first and the second token that a station sends to itself. *)
LEMMA ClaimKeepsToken ==
  ASSUME IInv, BusOK', TokenInv, DistinctAddresses, NEW s \in Stations,
         NEW k \in {"ClaimSecondToken", "ClaimScan"}, ClaimToken(s, k), losses' = 0,
         MaySpeak(s), \A h \in Holders : h = s
  PROVE  TokenStep
<1> DEFINE tg == Token(Address[s], Address[s])
           x == State(k)
<1>1. tg \in Telegrams /\ tg.kind = "Token" /\ tg.da = Address[s]
  BY TelegramTypes, ConstantTypes DEF Token
<1>2. x \in States /\ x.kind = k /\ x.request = Nobody
  BY StateTypes, StatesAsk DEF StateKinds
<1>3. Send(s, tg) /\ Become(s, x) /\ UNCHANGED conn
  BY DEF ClaimToken
<1> HIDE DEF x, tg
<1>4. Says(s, x, tg) /\ UsesToken(s, x, tg)
  <2>1. x.kind \in HoldingKinds
    BY <1>2 DEF HoldingKinds
  <2> QED  BY <1>1, <1>3, <2>1 DEF Says, UsesToken, Become, DistinctAddresses
<1> QED  BY <1>1, <1>2, <1>4, SaysKeepsToken

(* The token is claimed when nobody has it, nor is about to get it. *)
LEMMA LostKeepsToken ==
  ASSUME IInv, BusOK', TokenInv, DistinctAddresses, NEW s \in Stations,
         LostToken(s), losses' = 0
  PROVE  TokenStep
<1>1. quiet[s] >= LostTimeout(s) /\ ~fresh[s] /\ st[s].kind # "Offline"
  BY DEF LostToken, TokenLost
<1>2. Age(s) \in Nat /\ Age(s) >= 2
  <2>1. LostTimeout(s) \in Nat /\ LostTimeout(s) >= 2
    BY ConstantTypes DEF LostTimeout, StationAddress
  <2>2. quiet[s] \in Nat /\ Age(s) = quiet[s]
    BY <1>1 DEF IInv, BusOK, Age
  <2> QED  BY <1>1, <2>1, <2>2
<1>3. asked = {} /\ \A t \in Stations : ~Unfinished(t)
  BY <1>2, NothingComes
<1>4. \A t \in Stations : st[t].kind \notin ActiveKinds \cup WaitKinds
  <2>1. ASSUME NEW t \in Stations, st[t].kind \in ActiveKinds
        PROVE  Age(s) <= 1
    BY <2>1 DEF TokenInv, AgesOK
  <2>2. ASSUME NEW t \in Stations, st[t].kind \in WaitKinds
        PROVE  Age(s) <= 1
    <3>1. Age(t) <= 1 /\ Age(s) <= Age(t) /\ Age(t) \in Nat
      BY <2>2, AgeType DEF TokenInv, AgesOK, IInv
    <3> QED  BY <1>2, <3>1
  <2> QED  BY <1>2, <2>1, <2>2
<1>5. Holders = {}
  BY <1>4, HoldingIs DEF Holders
<1>6. \A t \in Stations : ~Speaks(t)
  BY <1>3, <1>4 DEF Speaks, Speaker, Addressed, Unfinished
<1>7. MaySpeak(s)
  BY <1>1, <1>3, <1>6 DEF MaySpeak, Unfinished
<1> QED  BY <1>5, <1>7, ClaimKeepsToken DEF LostToken

(* A pass is repeated only when the token did not arrive. *)
LEMMA RepeatKeepsToken ==
  ASSUME IInv, BusOK', TokenInv, DistinctAddresses, NEW s \in Stations,
         RepeatTokenPass(s), losses' = 0
  PROVE  TokenStep
<1>1. Age(s) >= 1 /\ st[s].kind = "CheckTokenPass" /\ InRing(s)
  BY DEF RepeatTokenPass, SlotExpired, Age, InRing
<1>2. asked = {} /\ \A t \in Stations : ~Unfinished(t)
  BY <1>1, NothingComes
<1>3. Passing(s) /\ Age(s) # 0
  <2>1. Age(s) \in Nat
    BY AgeType DEF IInv
  <2> QED  BY <1>1, <1>2, <2>1 DEF Passing, Unfinished
<1>4. Holders = {}
  <2>1. \A t \in Holders : FALSE
    BY <1>3 DEF TokenInv, PassingOK
  <2> QED  BY <2>1
<1>5. \A t \in Stations : ~Speaks(t)
  BY <1>2, <1>4, HoldingIs DEF Speaks, Speaker, Addressed, Unfinished, Holders
<1>6. MaySpeak(s) /\ \A h \in Holders : h = s
  BY <1>1, <1>2, <1>4, <1>5 DEF MaySpeak, Unfinished
<1>7. /\ ring[s] \in Rings /\ ring[s].this = Address[s] /\ Consistent(ring[s])
      /\ ReadyForRing(ring[s]) /\ st[s].attempt \in 1 .. 3
  BY <1>1, MembersRing
<1>8. CASE st[s].attempt < 3 /\ SendToken(s, ring[s], st[s].attempt + 1)
  <2>1. st[s].attempt + 1 \in 1 .. 3
    BY <1>7, <1>8
  <2> QED  BY <1>1, <1>6, <1>7, <1>8, <2>1, PassKeepsToken
<1>9. CASE SendToken(s, RemoveStation(ring[s], ring[s].next), 1)
  <2> DEFINE r == RemoveStation(ring[s], ring[s].next)
  <2>1. r \in Rings /\ r.this = Address[s] /\ Consistent(r) /\ ReadyForRing(r)
    BY <1>7, RemoveKeepsRing DEF ReadyForRing
  <2>2. 1 \in 1 .. 3
    OBVIOUS
  <2> HIDE DEF r
  <2> QED  BY <1>1, <1>6, <1>9, <2>1, <2>2, PassKeepsToken DEF r
<1> QED  BY <1>8, <1>9 DEF RepeatTokenPass

------------------------------------------------------------------------------
(* Every poll of a station *)

(* A station that is online begins to listen. *)
LEMMA EnterKeepsToken ==
  ASSUME IInv, BusOK', TokenInv, NEW s \in Stations, conn[s] = "Online",
         EnterListenToken(s)
  PROVE  TokenStep
<1>1. /\ State("ListenToken") \in States /\ State("ListenToken").kind = "ListenToken"
      /\ State("ListenToken").request = Nobody
  BY StateTypes, StatesAsk DEF StateKinds
<1>2. rx[s] = <<>> /\ BuffersOK
  BY DEF EnterListenToken, TokenInv, BuffersOK, BufferOK
<1>3. Reads(s, State("ListenToken"))
  BY <1>1, <1>2, SilentReads DEF EnterListenToken, Become
<1> QED  BY <1>1, <1>3, IdleKeepsToken

(* A listening station answers a GAP poll, or handles a telegram, and gets  *)
(* no token.                                                                *)
LEMMA ListenKeepsToken ==
  ASSUME IInv, BusOK', TokenInv, DistinctAddresses, NEW s \in Stations, conn[s] = "Online",
         ListenToken(s), losses' = 0
  PROVE  TokenStep
<1>1. CASE ListenTokenReply(s)
  <2> DEFINE request == st[s].request
             ready == ReadyForRing(ring[s])
             answer == IF ready /\ request = ring[s].prev THEN "WithoutToken" ELSE "NotReady"
             x == IF ready THEN State("ActiveIdle") ELSE [st[s] EXCEPT !.request = Nobody]
  <2>1. st[s] \in States /\ st[s].kind = "ListenToken"
    BY DEF IInv, StationsOK, ListenToken
  <2>2. x \in States /\ x.kind \in {"ListenToken", "ActiveIdle"} /\ x.request = Nobody
    <3>1. CASE ready
      BY <3>1, StateTypes, StatesAsk DEF StateKinds
    <3>2. CASE ~ready
      BY <2>1, <3>2, IdleStates DEF States
    <3> QED  BY <3>1, <3>2
  <2>3. answer \in ResponseStates
    BY DEF ResponseStates
  <2>4. /\ request # Nobody /\ Send(s, Response(Address[s], request, answer))
        /\ Become(s, x) /\ UNCHANGED conn
    BY <1>1 DEF ListenTokenReply
  <2> HIDE DEF x, answer
  <2> QED  BY <2>1, <2>2, <2>3, <2>4, ReplyKeepsToken
<1>2. CASE ListenTokenReceive(s)
  BY <1>2, ListenReceiveKeepsToken DEF ListenToken
<1> QED  BY <1>1, <1>2 DEF ListenToken

(* A station in the ring answers a GAP poll, or handles a telegram, a token *)
(* among them.                                                              *)
LEMMA IdlePollKeepsToken ==
  ASSUME IInv, BusOK', TokenInv, DistinctAddresses, NEW s \in Stations, conn[s] = "Online",
         ActiveIdle(s), losses' = 0
  PROVE  TokenStep
<1>1. st[s] \in States /\ st[s].kind = "ActiveIdle" /\ UNCHANGED conn
  BY DEF IInv, StationsOK, ActiveIdle
<1>2. CASE /\ st[s].request # Nobody
           /\ Send(s, Response(Address[s], st[s].request, "InRing"))
           /\ Become(s, [st[s] EXCEPT !.request = Nobody])
  <2> DEFINE x == [st[s] EXCEPT !.request = Nobody]
  <2>1. x \in States /\ x.kind = "ActiveIdle" /\ x.request = Nobody
    BY <1>1, IdleStates DEF States
  <2>2. "InRing" \in ResponseStates
    BY DEF ResponseStates
  <2> HIDE DEF x
  <2> QED  BY <1>1, <1>2, <2>1, <2>2, ReplyKeepsToken DEF x
<1>3. CASE st[s].request = Nobody /\ HandleTelegram(s, st[s], Head(rx[s]))
  BY <1>1, <1>3, HandleKeepsToken
<1> QED  BY <1>2, <1>3 DEF ActiveIdle

(* A station that has passed the token hears of it. *)
LEMMA CheckPassKeepsToken ==
  ASSUME IInv, BusOK', TokenInv, NEW s \in Stations, conn[s] = "Online",
         CheckTokenPassReceive(s)
  PROVE  TokenStep
<1>1. CASE HandleTelegram(s, State("ActiveIdle"), Head(rx[s])) /\ UNCHANGED conn
  <2>1. /\ State("ActiveIdle") \in States /\ State("ActiveIdle").kind = "ActiveIdle"
        /\ State("ActiveIdle").request = Nobody
    BY StateTypes, StatesAsk DEF StateKinds
  <2> QED  BY <1>1, <2>1, HandleKeepsToken
<1>2. CASE Recreate(s, "Panicked") /\ Drain(s)
  <2> DEFINE x == State("Offline")
  <2>1. x \in States /\ x.kind = "Offline" /\ x.request = Nobody
    BY StateTypes, StatesAsk DEF StateKinds
  <2>2. \A t \in Stations : t # s => conn'[t] = conn[t]
    BY <1>2 DEF Recreate, IInv, StationsOK
  <2> HIDE DEF x
  <2>3. Reads(s, x)
    BY <1>2, <2>1, <2>2, EmptyingReads DEF Drain, Recreate, Become, x
  <2> QED  BY <2>1, <2>3, IdleKeepsToken
<1> QED  BY <1>1, <1>2 DEF CheckTokenPassReceive

(* Every poll of a station without a fault keeps the invariant. *)
LEMMA PollKeepsToken ==
  ASSUME IInv, BusOK', TokenInv, DistinctAddresses, NEW s \in Stations, Poll(s), losses' = 0
  PROVE  TokenStep
<1>0. conn[s] = "Online"
  BY DEF Poll
<1>1. CASE ClaimSecondToken(s)
  <2>1. Turn(s)
    BY <1>1, ActiveHasTurn DEF ClaimSecondToken, ActiveKinds
  <2> QED  BY <1>1, <2>1, ClaimKeepsToken DEF ClaimSecondToken, Turn
<1>2. CASE ClaimScan(s)
  <2>1. Turn(s)
    BY <1>2, ActiveHasTurn DEF ClaimScan, ActiveKinds
  <2> QED  BY <1>0, <1>2, <2>1, ScanKeepsToken DEF ClaimScan
<1>3. CASE UseTheToken(s)
  <2>1. Turn(s)
    BY <1>3, ActiveHasTurn DEF UseTheToken, ActiveKinds
  <2> QED  BY <1>0, <1>3, <2>1, CycleKeepsToken DEF UseTheToken
<1>4. CASE NoticeActivity(s)
  BY <1>4 DEF NoticeActivity, TokenInv, BuffersOK, BufferOK
<1>5. CASE EnterListenToken(s) \/ ListenToken(s) \/ ActiveIdle(s)
  BY <1>0, <1>5, EnterKeepsToken, ListenKeepsToken, IdlePollKeepsToken
<1>6. CASE LostToken(s) \/ RepeatTokenPass(s) \/ CheckTokenPassReceive(s)
  BY <1>0, <1>6, LostKeepsToken, RepeatKeepsToken, CheckPassKeepsToken
<1>7. CASE \/ ClaimAwaitResponse(s) \/ AwaitDataResponse(s)
           \/ PassTheToken(s) \/ AwaitStatusResponse(s)
  BY <1>0, <1>7, ClaimAwaitKeepsToken, AwaitDataKeepsToken, PassTheKeepsToken,
     AwaitStatusKeepsToken
<1> QED  BY <1>1, <1>2, <1>3, <1>4, <1>5, <1>6, <1>7 DEF Poll

------------------------------------------------------------------------------
(* The invariant *)

(* set_online() leaves the bus as it is. *)
LEMMA OnlineKeepsToken ==
  ASSUME IInv, BusOK', TokenInv, NEW s \in Stations, SetOnline(s)
  PROVE  TokenStep
<1>1. /\ st' = st /\ rx' = rx /\ fresh' = fresh /\ quiet' = quiet /\ asked' = asked
      /\ conn'[s] = "Online" /\ \A t \in Stations : t # s => conn'[t] = conn[t]
  BY DEF SetOnline, busVars, IInv, StationsOK
<1>2. BuffersOK'
  BY <1>1 DEF TokenInv, BuffersOK, BufferOK
<1>3. OneSpeaker' /\ HoldersOK'
  BY <1>1 DEF TokenInv, OneSpeaker, HoldersOK, Holders, Speaks
<1>4. AgesOK'
  BY <1>1 DEF TokenInv, AgesOK, Age, Unfinished
<1>5. PassingOK'
  BY <1>1 DEF TokenInv, PassingOK, Passing, Holders, Age
<1>6. RightStep
  BY <1>1 DEF TokenInv, RightStep, HoldersOK, Holders, Underway
<1> QED  BY <1>2, <1>3, <1>4, <1>5, <1>6 DEF TokenInv, TokenStep

(* set_offline() may take the token away with the station, and nothing      *)
(* else.                                                                    *)
LEMMA OfflineKeepsToken ==
  ASSUME IInv, BusOK', TokenInv, NEW s \in Stations, SetOffline(s)
  PROVE  TokenStep
<1> DEFINE x == State("Offline")
<1>1. x \in States /\ x.kind = "Offline" /\ x.request = Nobody
  BY StateTypes, StatesAsk DEF StateKinds
<1>2. \A t \in Stations : t # s => conn'[t] = conn[t]
  BY DEF SetOffline, Recreate, IInv, StationsOK
<1> HIDE DEF x
<1>3. Reads(s, x)
  BY <1>1, <1>2, EmptyingReads DEF SetOffline, Recreate, Become, x
<1> QED  BY <1>1, <1>3, IdleKeepsToken

(* Faults are counted, and no step takes one back. *)
LEMMA LossesRemain ==
  ASSUME BusOK, NEW from, NEW tg, Transmit(from, tg), losses' = 0
  PROVE  losses = 0
<1>1. PICK garbled \in SUBSET Hearers(from) : losses' = losses + Cardinality(garbled)
  BY DEF Transmit
<1>2. garbled \in SUBSET Stations
  BY DEF Hearers
<1>3. Cardinality(garbled) \in Nat
  BY <1>2, FS_Subset, FS_CardinalityType, FdlAssumption
<1>4. losses \in Nat
  BY ConstantTypes DEF BusOK
<1> QED  BY <1>1, <1>3, <1>4

(* Faults are counted and never taken back: a step that ends faultless      *)
(* begins so.                                                               *)
LEMMA FaultsRemain ==
  ASSUME IInv, Next, Faultless'
  PROVE  Faultless
<1>1. losses' = 0 /\ lates' = 0 /\ BusOK /\ lates \in Nat
  BY ConstantTypes DEF Faultless, IInv, BoundsOK
<1>2. ASSUME NEW s \in Stations, NEW tg, Send(s, tg)
      PROVE  losses = 0
  BY <1>1, <1>2, LossesRemain DEF Send
<1>3. ASSUME NEW s \in Stations, Silent(s) \/ Receive(s) \/ Drain(s)
      PROVE  losses = 0
  BY <1>1, <1>3 DEF Silent, Receive, Drain
<1>4. ASSUME NEW s \in Stations, Poll(s)
      PROVE  losses = 0 /\ lates = 0
  <2>0. lates = 0
    BY <1>1, <1>4 DEF Poll
  <2>1. CASE EnterListenToken(s) \/ NoticeActivity(s) \/ CheckTokenPassReceive(s)
    BY <1>3, <2>0, <2>1 DEF EnterListenToken, NoticeActivity, CheckTokenPassReceive,
       HandleTelegram, OwnTokenSeen, TokenPassSeen, TokenReceived, OtherTelegram
  <2>2. CASE ListenToken(s) \/ ActiveIdle(s)
    BY <1>2, <1>3, <2>0, <2>2 DEF ListenToken, ListenTokenReply, ListenTokenReceive,
       ActiveIdle, HandleTelegram, OwnTokenSeen, TokenPassSeen, TokenReceived, OtherTelegram
  <2>3. CASE LostToken(s) \/ ClaimSecondToken(s)
    BY <1>2, <2>0, <2>3 DEF LostToken, ClaimSecondToken, ClaimToken
  <2>4. CASE ClaimScan(s) \/ ClaimAwaitResponse(s)
    BY <1>2, <1>3, <2>0, <2>4 DEF ClaimScan, ClaimAwaitResponse, Scan, GapPollResponse
  <2>5. CASE UseTheToken(s) \/ AwaitDataResponse(s)
    BY <1>2, <1>3, <2>0, <2>5 DEF UseTheToken, AwaitDataResponse, UseTokenOrPass, DataReply
  <2>6. CASE PassTheToken(s) \/ AwaitStatusResponse(s) \/ RepeatTokenPass(s)
    BY <1>2, <1>3, <2>0, <2>6 DEF PassTheToken, AwaitStatusResponse, RepeatTokenPass,
       SendToken, GapPollResponse
  <2> QED  BY <1>4, <2>1, <2>2, <2>3, <2>4, <2>5, <2>6 DEF Poll
<1>5. CASE \E s \in Stations : SetOnline(s) \/ SetOffline(s)
  BY <1>1, <1>5 DEF SetOnline, SetOffline, busVars, Faultless
<1>6. CASE Slave
  <2>1. losses = 0
    BY <1>1, <1>6, LossesRemain DEF Slave
  <2> QED  BY <1>1, <1>6, <2>1 DEF Slave, Faultless
<1>7. CASE Tick
  BY <1>1, <1>7 DEF Tick, Faultless
<1> QED  BY <1>4, <1>5, <1>6, <1>7 DEF Next, Faultless

(* The invariant holds of stations that have not been switched on, ... *)
LEMMA InitToken == Init => TokenInv
<1> SUFFICES ASSUME Init PROVE TokenInv
  OBVIOUS
<1>1. \A s \in Stations :
        /\ st[s].kind = "Offline" /\ st[s].request = Nobody
        /\ rx[s] = <<>> /\ ~fresh[s] /\ quiet[s] = 0 /\ Age(s) = 0
  BY StatesAsk DEF Init, Age
<1>2. asked = {} /\ Holders = {}
  BY <1>1 DEF Init, Holders, HoldingKinds
<1>3. \A s \in Stations : ~Speaks(s) /\ ~Passing(s) /\ ~Unfinished(s)
  BY <1>1 DEF Speaks, Speaker, Addressed, ActiveKinds, WaitKinds, Passing, Unfinished
<1>4. OneSpeaker /\ HoldersOK
  BY <1>2, <1>3 DEF OneSpeaker, HoldersOK
<1>5. BuffersOK
  BY <1>1 DEF BuffersOK, BufferOK, ActiveKinds, WaitKinds
<1>6. AgesOK /\ PassingOK
  BY <1>1, <1>2, <1>3 DEF AgesOK, PassingOK, ActiveKinds, WaitKinds
<1> QED  BY <1>4, <1>5, <1>6 DEF TokenInv

(* ... and is preserved by every step before the first fault. *)
LEMMA StepToken ==
  ASSUME DistinctAddresses, IInv, FaultlessInv, [Next]_vars
  PROVE  FaultlessInv'
<1> SUFFICES ASSUME Faultless' PROVE TokenInv'
  BY DEF FaultlessInv
<1>0. BusOK'
  BY StepIInv DEF IInv
<1>1. CASE Next
  <2>1. Faultless /\ TokenInv
    BY <1>1, FaultsRemain DEF FaultlessInv
  <2>2. losses' = 0 /\ lates' = 0 /\ lates = 0
    BY <2>1 DEF Faultless
  <2> QED  BY <1>0, <1>1, <2>1, <2>2, OnlineKeepsToken, OfflineKeepsToken, PollKeepsToken,
           SlaveKeepsToken, TickKeepsToken DEF Next, TokenStep
<1>2. CASE UNCHANGED vars
  <2>1. /\ conn' = conn /\ st' = st /\ rx' = rx /\ fresh' = fresh /\ quiet' = quiet
        /\ asked' = asked /\ losses' = losses /\ lates' = lates
    BY <1>2 DEF vars
  <2>2. TokenInv
    BY <2>1 DEF FaultlessInv, Faultless
  <2>3. OneSpeaker' /\ BuffersOK' /\ HoldersOK'
    BY <2>1, <2>2 DEF TokenInv, OneSpeaker, BuffersOK, HoldersOK, Holders, Speaks
  <2>4. AgesOK'
    BY <2>1, <2>2 DEF TokenInv, AgesOK, Age, Unfinished
  <2>5. PassingOK'
    BY <2>1, <2>2 DEF TokenInv, PassingOK, Passing, Holders, Age
  <2> QED  BY <2>3, <2>4, <2>5 DEF TokenInv
<1> QED  BY <1>1, <1>2

(* The invariant holds in every behaviour until the first fault. *)
LEMMA TokenInvariance ==
  ASSUME DistinctAddresses
  PROVE  Spec => [](IInv /\ FaultlessInv)
<1>1. Init => IInv /\ FaultlessInv
  BY InitIInv, InitToken DEF FaultlessInv
<1>2. IInv /\ FaultlessInv /\ [Next]_vars => (IInv /\ FaultlessInv)'
  BY StepIInv, StepToken
<1> QED  BY <1>1, <1>2, PTL DEF Spec

------------------------------------------------------------------------------
(* What the active stations promise until the first fault *)

(* A set without two different elements has at most one. *)
LEMMA AtMostOne ==
  ASSUME NEW S, \A x, y \in S : x = y
  PROVE  Cardinality(S) \in Nat /\ Cardinality(S) <= 1
<1>1. CASE S = {}
  BY <1>1, FS_EmptySet
<1>2. CASE S # {}
  <2>1. PICK x \in S : TRUE
    BY <1>2
  <2>2. S = {x}
    BY <2>1
  <2> QED  BY <2>2, FS_Singleton
<1> QED  BY <1>1, <1>2

(* Until the first fault there is never a second token, for any number of  *)
(* stations with addresses of their own that start, join, and go offline   *)
(* at any time.                                                            *)
THEOREM OneTokenAlways ==
  ASSUME DistinctAddresses
  PROVE  Spec => []OneToken
<1>1. FaultlessInv => OneToken
  <2> SUFFICES ASSUME FaultlessInv, Faultless PROVE Cardinality(Holders) <= 1
    BY DEF OneToken, OneHolder
  <2>1. \A x, y \in Holders : x = y
    BY DEF FaultlessInv, TokenInv, HoldersOK
  <2> QED  BY <2>1, AtMostOne
<1> QED  BY <1>1, TokenInvariance, PTL

(* A station that gives up waiting for an answer, or for news of the token  *)
(* it passed, knows that nobody else has anything to send.                  *)
LEMMA ExpiredIsAlone ==
  ASSUME IInv, TokenInv, NEW s \in Stations, SlotExpired(s), rx[s] = <<>>,
         st[s].kind \in WaitKinds \cup {"CheckTokenPass"}
  PROVE  /\ asked = {} /\ \A t \in Stations : ~Unfinished(t)
         /\ \A h \in Holders : h = s
         /\ \A t \in Stations : Passing(t) => t = s
<1>1. Age(s) >= 1 /\ Age(s) # 0
  <2>1. Age(s) >= 1
    BY DEF SlotExpired, Age
  <2> QED  BY <2>1, AgeType DEF IInv
<1>2. asked = {} /\ \A t \in Stations : ~Unfinished(t)
  BY <1>1, NothingComes
<1>3. CASE st[s].kind \in WaitKinds
  <2>1. s \in Holders /\ st[s].kind \notin {"UseToken", "PassToken"}
    BY <1>3, HoldingIs DEF Holders, WaitKinds
  <2> QED  BY <1>2, <2>1 DEF TokenInv, HoldersOK, PassingOK
<1>4. CASE st[s].kind = "CheckTokenPass"
  <2>1. Passing(s)
    BY <1>4 DEF Passing
  <2>2. Holders = {}
    <3>1. \A t \in Holders : FALSE
      BY <1>1, <2>1 DEF TokenInv, PassingOK
    <3> QED  BY <3>1
  <2> QED  BY <1>2, <2>1, <2>2 DEF TokenInv, PassingOK
<1> QED  BY <1>3, <1>4

(* Until the first fault two parties never transmit at the same time: any  *)
(* station that is about to send is the only one, no slave answers then,   *)
(* and nobody claims the token.                                            *)
THEOREM NoContentionEver ==
  ASSUME DistinctAddresses
  PROVE  Spec => []NoContention
<1>1. IInv /\ FaultlessInv => NoContention
  <2> DEFINE senders == {s \in Stations : AboutToSend(s)}
  <2> SUFFICES ASSUME IInv, TokenInv
               PROVE  /\ Cardinality(senders) + Cardinality(asked) <= 1
                      /\ (\E s \in Stations : TokenLost(s)) => senders = {} /\ asked = {}
    BY DEF NoContention, FaultlessInv
  <2>0. /\ OneSpeaker /\ HoldersOK /\ BuffersOK /\ AgesOK /\ PassingOK
    BY DEF TokenInv
  <2>1. \A s \in senders :
          \/ st[s].kind \in ActiveKinds
          \/ st[s].request # Nobody
          \/ /\ st[s].kind \in WaitKinds \cup {"CheckTokenPass"}
             /\ SlotExpired(s) /\ rx[s] = <<>>
    BY DEF AboutToSend, ActiveKinds, WaitKinds
  <2> HIDE DEF senders
  <2>2. \A s \in senders : s \in Stations
    BY DEF senders
  <2>3. ASSUME NEW s \in senders, asked # {}
        PROVE  FALSE
    BY <2>0, <2>1, <2>2, <2>3, ExpiredIsAlone DEF OneSpeaker, Speaks, Speaker
  <2>4. ASSUME NEW s \in senders, NEW t \in senders, ~Speaks(s)
        PROVE  s = t
    <3>1. /\ st[s].kind \in WaitKinds \cup {"CheckTokenPass"}
          /\ SlotExpired(s) /\ rx[s] = <<>>
      BY <2>1, <2>4 DEF Speaks, Speaker
    <3>2. /\ \A h \in Holders : h = s
          /\ \A u \in Stations : Passing(u) => u = s
          /\ \A u \in Stations : ~Unfinished(u)
      BY <2>2, <3>1, ExpiredIsAlone
    <3> QED  BY <2>1, <2>2, <3>2, HoldingIs DEF Holders, Passing, Unfinished
  <2>5. \A s, t \in senders : s = t
    BY <2>0, <2>2, <2>4 DEF OneSpeaker
  <2>6. Cardinality(senders) + Cardinality(asked) <= 1
    <3>1. Cardinality(senders) \in Nat /\ Cardinality(senders) <= 1
      BY <2>5, AtMostOne
    <3>2. Cardinality(asked) \in Nat /\ Cardinality(asked) <= 1
      BY <2>0, AtMostOne DEF OneSpeaker
    <3>3. CASE asked = {}
      BY <3>1, <3>3, FS_EmptySet
    <3>4. CASE senders = {}
      BY <3>2, <3>4, FS_EmptySet
    <3> QED  BY <2>3, <3>3, <3>4
  <2>7. ASSUME NEW s \in Stations, TokenLost(s)
        PROVE  senders = {} /\ asked = {}
    <3>1. asked = {} /\ \A t \in Stations : ~Unfinished(t) /\ Age(t) \in Nat
          /\ Age(s) >= 2
      <4>1. quiet[s] >= LostTimeout(s) /\ ~fresh[s]
        BY <2>7 DEF TokenLost
      <4>2. LostTimeout(s) \in Nat /\ LostTimeout(s) >= 2
        BY ConstantTypes DEF LostTimeout, StationAddress
      <4>3. Age(s) = quiet[s] /\ quiet[s] \in Nat
        BY <4>1 DEF Age, IInv, BusOK
      <4>4. Age(s) >= 2 /\ Age(s) >= 1
        BY <4>1, <4>2, <4>3
      <4> QED  BY <4>4, NothingComes, AgeType DEF IInv
    <3>2. ASSUME NEW t \in senders
          PROVE  FALSE
      <4>1. st[t].kind \in ActiveKinds \cup WaitKinds \cup {"CheckTokenPass"}
        BY <2>1, <2>2, <3>1 DEF Unfinished
      <4>2. CASE st[t].kind \in ActiveKinds
        <5>1. Age(s) <= 1
          BY <2>0, <2>2, <4>2 DEF AgesOK
        <5> QED  BY <3>1, <5>1
      <4>3. CASE st[t].kind \in WaitKinds \cup {"CheckTokenPass"}
        <5>1. Age(t) <= 1 /\ Age(s) <= Age(t)
          BY <2>0, <2>2, <4>3 DEF AgesOK
        <5> QED  BY <2>2, <3>1, <5>1
      <4> QED  BY <4>1, <4>2, <4>3
    <3> QED  BY <3>1, <3>2
  <2> QED  BY <2>6, <2>7
<1> QED  BY <1>1, TokenInvariance, PTL

(* Until the first fault every step of the active stations is a step of    *)
(* the abstract right to send, or none.                                    *)
LEMMA StepImplementsRight ==
  ASSUME DistinctAddresses, IInv, TokenInv, Next, Faultless, Faultless'
  PROVE  Right!Next \/ UNCHANGED Right!vars
<1>1. losses' = 0 /\ lates = 0 /\ lates' = 0 /\ BusOK'
  BY StepIInv DEF Faultless, IInv
<1>2. RightStep
  BY <1>1, OnlineKeepsToken, OfflineKeepsToken, PollKeepsToken, SlaveKeepsToken,
     TickKeepsToken DEF Next, TokenStep
<1>3. TokenInv'
  BY StepToken DEF FaultlessInv
<1>4. (\A x, y \in Holders : x = y) /\ (\A x, y \in Holders' : x = y)
  BY <1>3 DEF TokenInv, HoldersOK
<1>5. /\ Underway \in BOOLEAN /\ Underway' \in BOOLEAN
      /\ Holders # {} => ~Underway
      /\ Holders' # {} => ~Underway'
  BY DEF Underway
<1>6. CASE Holders = {} /\ Holders' = {}
  BY <1>2, <1>5, <1>6 DEF RightStep, Right!Next, Right!Lose, Right!vars
<1>7. CASE Holders = {} /\ Holders' # {}
  <2>1. PICK s \in Holders' : TRUE
    BY <1>7
  <2>2. s \in Stations /\ Holders' = {s}
    BY <1>4, <2>1 DEF Holders
  <2>3. CASE Underway
    BY <1>5, <1>7, <2>2, <2>3 DEF Right!Next, Right!Move, Right!Accept
  <2>4. CASE ~Underway
    BY <1>5, <1>7, <2>2, <2>4 DEF Right!Next, Right!Move, Right!Claim
  <2> QED  BY <2>3, <2>4
<1>8. CASE Holders # {} /\ Holders' = {}
  <2>1. PICK s \in Holders : TRUE
    BY <1>8
  <2>2. s \in Stations /\ Holders = {s}
    BY <1>4, <2>1 DEF Holders
  <2>3. CASE Underway'
    BY <1>5, <1>8, <2>2, <2>3 DEF Right!Next, Right!Move, Right!Pass
  <2>4. CASE ~Underway'
    BY <1>5, <1>8, <2>2, <2>4 DEF Right!Next, Right!Lose
  <2> QED  BY <2>3, <2>4
<1>9. CASE Holders # {} /\ Holders' # {}
  <2>1. Holders' = Holders
    BY <1>2, <1>4, <1>9 DEF RightStep
  <2> QED  BY <1>5, <1>9, <2>1 DEF Right!vars
<1> QED  BY <1>6, <1>7, <1>8, <1>9

(* The steps of ImplementsTokenRight: the stations implement the abstract   *)
(* right to send until the first fault, whatever faults may come.           *)
THEOREM StationsImplementRight ==
  ASSUME DistinctAddresses
  PROVE  Spec => Right!Init /\ [][Faultless' => [Right!Next]_(Right!vars)]_vars
<1>1. Init => Right!Init
  <2> SUFFICES ASSUME Init PROVE Right!Init
    OBVIOUS
  <2>1. \A s \in Stations : st[s].kind = "Offline" /\ rx[s] = <<>>
    BY StatesAsk DEF Init
  <2> QED  BY <2>1 DEF Right!Init, Underway, Holders, HoldingKinds
<1>2. IInv /\ FaultlessInv /\ [Next]_vars => [Faultless' => [Right!Next]_(Right!vars)]_vars
  <2> SUFFICES ASSUME IInv, FaultlessInv, Next, Faultless'
               PROVE  Right!Next \/ UNCHANGED Right!vars
    OBVIOUS
  <2>1. Faultless
    BY FaultsRemain
  <2> QED  BY <2>1, StepImplementsRight DEF FaultlessInv
<1> QED  BY <1>1, <1>2, TokenInvariance, PTL DEF Spec

(* Without faults at all, as ImplementsTokenRight is checked, that is every *)
(* step: the safety half of ImplementsTokenRight.                           *)
THEOREM FaultlessStationsImplementRight ==
  ASSUME DistinctAddresses, MaxLoss = 0, MaxLate = 0
  PROVE  Spec => Right!Init /\ [][Right!Next]_(Right!vars)
<1>1. IInv => Faultless
  BY DEF IInv, BusOK, BoundsOK, Faultless
<1>2. /\ IInv /\ IInv' /\ [Next]_vars /\ [Faultless' => [Right!Next]_(Right!vars)]_vars
      => [Right!Next]_(Right!vars)
  <2> SUFFICES ASSUME IInv', [Faultless' => [Right!Next]_(Right!vars)]_vars
               PROVE  [Right!Next]_(Right!vars)
    OBVIOUS
  <2>1. Faultless'
    BY DEF IInv, BusOK, BoundsOK, Faultless
  <2>2. CASE UNCHANGED vars
    <3>1. Holders' = Holders /\ Underway' = Underway
      BY <2>2 DEF vars, Holders, Underway
    <3> QED  BY <3>1 DEF Right!vars
  <2> QED  BY <2>1, <2>2
<1> QED  BY <1>2, Invariance, StationsImplementRight, PTL DEF Spec

(* What this is for: the abstract right to use the bus is exclusive, for    *)
(* any stations, so that the active stations never use it both.             *)
THEOREM RightIsExclusive ==
  Right!Spec => [](Right!TypeOK /\ Right!Exclusive)
<1>1. Right!Init => Right!TypeOK /\ Right!Exclusive
  BY DEF Right!Init, Right!TypeOK, Right!Exclusive
<1>2. Right!TypeOK /\ Right!Exclusive /\ [Right!Next]_(Right!vars)
      => (Right!TypeOK /\ Right!Exclusive)'
  <2> SUFFICES ASSUME Right!TypeOK, Right!Exclusive, [Right!Next]_(Right!vars)
               PROVE  (Right!TypeOK /\ Right!Exclusive)'
    OBVIOUS
  <2> USE DEF Right!TypeOK, Right!Exclusive
  <2>1. ASSUME NEW s \in Stations, Right!Claim(s)
        PROVE  (Right!TypeOK /\ Right!Exclusive)'
    BY <2>1 DEF Right!Claim
  <2>2. ASSUME NEW s \in Stations, Right!Pass(s)
        PROVE  (Right!TypeOK /\ Right!Exclusive)'
    BY <2>2 DEF Right!Pass
  <2>3. ASSUME NEW s \in Stations, Right!Accept(s)
        PROVE  (Right!TypeOK /\ Right!Exclusive)'
    BY <2>3 DEF Right!Accept
  <2>4. CASE Right!Lose
    BY <2>4 DEF Right!Lose
  <2>5. CASE UNCHANGED Right!vars
    BY <2>5 DEF Right!vars
  <2> QED  BY <2>1, <2>2, <2>3, <2>4, <2>5 DEF Right!Next, Right!Move
<1> QED  BY <1>1, <1>2, PTL DEF Right!Spec

==============================================================================
