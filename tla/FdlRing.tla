------------------------------- MODULE FdlRing -------------------------------
(***************************************************************************)
(* The FDL active stations of one PROFIBUS segment (fdl/active.rs): each   *)
(* station is an FdlActiveStation polled by its own program, and they all  *)
(* hear each other on the bus.  An action of a station is one call of      *)
(* poll(), or one telegram of a call that reads several.                   *)
(*                                                                         *)
(* Time is counted in slots.  What a station does without waiting for a    *)
(* timeout (the sync pause included) happens within the slot: Tick is      *)
(* enabled only when nobody has anything left to do, except for the        *)
(* MaxLate slots in which some program does not poll in time.              *)
(***************************************************************************)
EXTENDS TokenRing, Sequences

CONSTANTS
  Stations,        \* the active stations
  Address,         \* the address each of them is configured with
  HSA,             \* highest_station_address
  GapWait,         \* gap_wait_rotations
  Slaves,          \* addresses of passive stations, which answer requests
  MaxCycles,       \* bound: message cycles in one token hold time
  MaxLoss,         \* bound: telegrams some station receives garbled
  MaxLate,         \* bound: slots in which a program does not poll in time
  MaxOff           \* bound: calls of set_offline()

Nobody == 128      \* no address: Option::None, and the source of a short confirmation

ASSUME FdlAssumption ==
  /\ IsFiniteSet(Stations) /\ Nobody \notin Stations
  /\ HSA \in 1 .. 126
  /\ Address \in [Stations -> 0 .. HSA - 1]
  /\ Slaves \subseteq StationAddress
  /\ \A s \in Stations : Address[s] \notin Slaves
  /\ GapWait \in 1 .. 100
  /\ {MaxCycles, MaxLoss, MaxLate, MaxOff} \subseteq Nat

VARIABLES
  conn,            \* ConnectivityState of every station
  st,              \* its State
  ring,            \* its token_ring
  gap,             \* its gap_state
  quiet,           \* slots since its last_bus_activity, up to LostTimeout
  rx,              \* telegrams in the receive buffer of its PHY
  fresh,           \* the buffer has grown since the last poll
  asked,           \* the request a slave has still to answer, if any
  losses, lates, offs     \* what the bounds count

stationVars == <<conn, st, ring, gap>>
busVars == <<quiet, rx, fresh, asked, losses>>
vars == <<conn, st, ring, gap, quiet, rx, fresh, asked, losses, lates, offs>>

------------------------------------------------------------------------------
(* Telegrams *)

TelegramKinds == {"Token", "StatusRequest", "DataRequest", "Response"}

(* ResponseState of a status response; a slave answers with Slave *)
ResponseStates == {"NotReady", "WithoutToken", "InRing", "Slave", "None"}

Token(sa, da) == [kind |-> "Token", sa |-> sa, da |-> da, state |-> "None"]
StatusRequest(sa, da) == [kind |-> "StatusRequest", sa |-> sa, da |-> da, state |-> "None"]
DataRequest(sa, da) == [kind |-> "DataRequest", sa |-> sa, da |-> da, state |-> "None"]
Response(sa, da, s) == [kind |-> "Response", sa |-> sa, da |-> da, state |-> s]
ShortConfirmation ==
  [kind |-> "ShortConfirmation", sa |-> Nobody, da |-> Nobody, state |-> "None"]

Telegrams == [kind: TelegramKinds, sa: BusAddress, da: BusAddress, state: ResponseStates]
             \cup {ShortConfirmation}

Broadcast == 127   \* destination of a request that expects no reply

(* States.  ClaimToken is split by its ClaimTokenStep; FirstToken is never *)
(* a resting state, as the sync pause is over when the token is lost.      *)
StateKinds == {"Offline", "ListenToken", "ActiveIdle", "ClaimSecondToken", "ClaimScan",
               "ClaimAwaitResponse", "UseToken", "AwaitDataResponse", "PassToken",
               "CheckTokenPass", "AwaitStatusResponse"}

States == [kind: StateKinds,
           request: BusAddress \cup {Nobody},    \* status_request
           newPrev: BusAddress \cup {Nobody},    \* new_previous_station
           collisions: 0 .. 1,                   \* collision_count
           address: BusAddress \cup {Nobody},    \* whose response is awaited
           doGap: BOOLEAN, attempt: 1 .. 3,
           cycles: 0 .. MaxCycles]               \* message cycles left to do

State(kind) == [kind |-> kind, request |-> Nobody, newPrev |-> Nobody, collisions |-> 0,
                address |-> Nobody, doGap |-> FALSE, attempt |-> 1, cycles |-> 0]

Awaiting(kind, address) == [State(kind) EXCEPT !.address = address]
UseToken(cycles) == [State("UseToken") EXCEPT !.cycles = cycles]
AwaitData(address, cycles) ==
  [State("AwaitDataResponse") EXCEPT !.address = address, !.cycles = cycles]
PassToken(doGap) == [State("PassToken") EXCEPT !.doGap = doGap]
CheckTokenPass(attempt) == [State("CheckTokenPass") EXCEPT !.attempt = attempt]

(* GapState: the address that was polled last, or the rotations since the  *)
(* GAP was polled.                                                         *)
DoPoll(address) == [poll |-> TRUE, n |-> address]
Waiting(rotations) == [poll |-> FALSE, n |-> rotations]
GapStates == {DoPoll(x) : x \in 0 .. HSA - 1} \cup {Waiting(n) : n \in 0 .. GapWait + 1}

(* Mutant: the last address below HSA is left out. *)
NextGapPollBelowLast(r, current) ==
  LET next == IF current >= HSA - 2 THEN 0 ELSE current + 1
      endOfGap == \/ next >= r.next /\ r.next > r.this
                  \/ next = r.next /\ r.next = r.this
                  \/ next >= r.next /\ r.next < r.this /\ next < r.this
  IN  IF endOfGap THEN Waiting(0) ELSE DoPoll(next)

NextGapPoll(r, current) ==
  LET next == IF current = HSA - 1 THEN 0 ELSE current + 1
      endOfGap == \/ next >= r.next /\ r.next > r.this
                  \/ next = r.next /\ r.next = r.this
                  \/ next >= r.next /\ r.next < r.this /\ next < r.this
  IN  IF endOfGap THEN Waiting(0) ELSE DoPoll(next)

------------------------------------------------------------------------------
(* Timeouts *)

(* Mutant: the bus may be silent for one slot only. *)
LostTimeoutOfOneSlot(s) == 1

LostTimeout(s) == 6 + 2 * Address[s]

TokenLost(s) ==
  /\ st[s].kind \in {"ListenToken", "ActiveIdle"}
  /\ ~fresh[s] /\ quiet[s] >= LostTimeout(s)

SlotExpired(s) == ~fresh[s] /\ quiet[s] >= 1

(* The bus.  A telegram that a station sends, or a slave when from is no   *)
(* station, is received by everyone who has been polled at least once.     *)
(* Those in garbled do not get it; of them, those in noticed find bytes in *)
(* the buffer, which count as bus activity.                                *)
Hearers(from) == {r \in Stations \ {from} : st[r].kind # "Offline"}

Transmit(from, tg) ==
  \E garbled \in {g \in SUBSET Hearers(from) : losses + Cardinality(g) <= MaxLoss} :
  \E noticed \in SUBSET garbled :
    /\ losses' = losses + Cardinality(garbled)
    /\ rx' = [r \in Stations |-> IF r \in Hearers(from) \ garbled
                                 THEN Append(rx[r], tg) ELSE rx[r]]
    /\ fresh' = [r \in Stations |->
                   r # from /\ (fresh[r] \/ r \in (Hearers(from) \ garbled) \cup noticed)]

(* mark_tx: a station is done with its transmission within the slot *)
Send(s, tg) ==
  /\ Transmit(s, tg)
  /\ quiet' = [quiet EXCEPT ![s] = 0]
  /\ asked' = IF tg.kind \in {"StatusRequest", "DataRequest"} /\ tg.da \in Slaves
              THEN {tg} ELSE asked

(* A poll that sends and receives nothing only notices bus activity. *)
Silent(s) ==
  /\ quiet' = [quiet EXCEPT ![s] = IF fresh[s] THEN 0 ELSE @]
  /\ fresh' = [fresh EXCEPT ![s] = FALSE]
  /\ UNCHANGED <<rx, asked, losses>>

(* mark_rx: the first telegram is taken out, unread ones may remain *)
Receive(s) ==
  /\ rx[s] # <<>>
  /\ rx' = [rx EXCEPT ![s] = Tail(@)]
  /\ quiet' = [quiet EXCEPT ![s] = 0]
  /\ fresh' = [fresh EXCEPT ![s] = Tail(rx[s]) # <<>>]
  /\ UNCHANGED <<asked, losses>>

IsLast(s) == Len(rx[s]) = 1

(* receive_all_telegrams() drains the buffer although its telegrams are    *)
(* ignored from here on.                                                   *)
Drain(s) ==
  /\ rx[s] # <<>>
  /\ rx' = [rx EXCEPT ![s] = <<>>]
  /\ quiet' = [quiet EXCEPT ![s] = 0]
  /\ fresh' = [fresh EXCEPT ![s] = FALSE]
  /\ UNCHANGED <<asked, losses>>

Become(s, state) == st' = [st EXCEPT ![s] = state]
SetRing(s, r) == ring' = [ring EXCEPT ![s] = r]
SetGap(s, g) == gap' = [gap EXCEPT ![s] = g]

------------------------------------------------------------------------------
(* Connectivity *)

SetOnline(s) ==
  /\ conn[s] = "Offline"
  /\ conn' = [conn EXCEPT ![s] = "Online"]
  /\ UNCHANGED <<st, ring, gap, lates, offs>> /\ UNCHANGED busVars

(* set_offline() recreates the station; a panic ends its program. *)
Recreate(s, state) ==
  /\ conn' = [conn EXCEPT ![s] = state]
  /\ Become(s, State("Offline"))
  /\ SetRing(s, NewRing(Address[s]))
  /\ SetGap(s, DoPoll(Address[s]))

SetOffline(s) ==
  /\ conn[s] = "Online" /\ offs < MaxOff
  /\ Recreate(s, "Offline")
  /\ offs' = offs + 1
  /\ rx' = [rx EXCEPT ![s] = <<>>]
  /\ fresh' = [fresh EXCEPT ![s] = FALSE]
  /\ quiet' = [quiet EXCEPT ![s] = 0]
  /\ UNCHANGED <<asked, losses, lates>>

(* The first poll after going online. *)
EnterListenToken(s) ==
  /\ st[s].kind = "Offline"
  /\ Become(s, State("ListenToken"))
  /\ Silent(s)
  /\ UNCHANGED <<conn, ring, gap>>

------------------------------------------------------------------------------
(* ClaimToken: the token to ourselves, twice, and a scan of the whole GAP  *)

ClaimToken(s, nextStep) ==
  /\ Send(s, Token(Address[s], Address[s]))
  /\ SetRing(s, ClaimTokenRing(ring[s]))
  /\ SetGap(s, DoPoll(Address[s]))
  /\ Become(s, State(nextStep))
  /\ UNCHANGED conn

LostToken(s) == TokenLost(s) /\ ClaimToken(s, "ClaimSecondToken")

ClaimSecondToken(s) == st[s].kind = "ClaimSecondToken" /\ ClaimToken(s, "ClaimScan")

(* The next step of the scan: the GAP is done, or its next address is      *)
(* polled, or the end of the GAP is found here and left for the next poll. *)
Scan(s) ==
  LET g == NextGapPoll(ring[s], gap[s].n) IN
  /\ \/ /\ ~gap[s].poll
        /\ Become(s, PassToken(FALSE))
        /\ Silent(s)
        /\ UNCHANGED gap
     \/ /\ gap[s].poll /\ g.poll
        /\ SetGap(s, g)
        /\ Send(s, StatusRequest(Address[s], g.n))
        /\ Become(s, Awaiting("ClaimAwaitResponse", g.n))
     \/ /\ gap[s].poll /\ ~g.poll
        /\ SetGap(s, g)
        /\ Become(s, State("ClaimScan"))
        /\ Silent(s)
  /\ UNCHANGED <<conn, ring>>

ClaimScan(s) == st[s].kind = "ClaimScan" /\ Scan(s)

(* await_gap_poll_response(): the first telegram in the buffer decides. *)
GapPollResponse(s, responded) ==
  LET tg == Head(rx[s])
      answers == tg.kind = "Response" /\ tg.sa = st[s].address /\ tg.da = Address[s]
  IN
  /\ Receive(s)
  /\ \/ /\ answers
        /\ SetRing(s, IF tg.state \in {"WithoutToken", "InRing"}
                      THEN SetNextStation(ring[s], tg.sa) ELSE ring[s])
        /\ Become(s, responded)
     \/ /\ ~answers
        /\ Become(s, State("ActiveIdle"))
        /\ UNCHANGED ring
  /\ UNCHANGED <<conn, gap>>

ClaimAwaitResponse(s) ==
  /\ st[s].kind = "ClaimAwaitResponse"
  /\ \/ GapPollResponse(s, State("ClaimScan"))
     \/ rx[s] = <<>> /\ SlotExpired(s) /\ Scan(s)

------------------------------------------------------------------------------
(* UseToken and AwaitDataResponse: the applications' message cycles.  How  *)
(* many fit is up to the hold time; the applications decide what to send.  *)

UseTokenOrPass(s) ==
  /\ \/ /\ st[s].cycles > 0
        /\ \E slave \in Slaves :
             /\ Send(s, DataRequest(Address[s], slave))
             /\ Become(s, AwaitData(slave, st[s].cycles - 1))
     \/ /\ st[s].cycles > 0
        /\ Send(s, DataRequest(Address[s], Broadcast))
        /\ Become(s, UseToken(st[s].cycles - 1))
     \/ /\ Become(s, PassToken(TRUE))
        /\ Silent(s)
  /\ UNCHANGED <<conn, ring, gap>>

UseTheToken(s) == st[s].kind = "UseToken" /\ UseTokenOrPass(s)

(* Any short confirmation is taken for the reply that is awaited. *)
DataReply(s) ==
  LET tg == Head(rx[s])
      valid == \/ tg.kind = "ShortConfirmation"
               \/ tg.kind = "Response" /\ tg.sa = st[s].address /\ tg.da = Address[s]
  IN
  /\ Receive(s)
  /\ \/ valid /\ Become(s, UseToken(st[s].cycles))
     \/ ~valid /\ Become(s, State("ActiveIdle"))
  /\ UNCHANGED <<conn, ring, gap>>

AwaitDataResponse(s) ==
  /\ st[s].kind = "AwaitDataResponse"
  /\ \/ DataReply(s)
     \/ rx[s] = <<>> /\ SlotExpired(s) /\ UseTokenOrPass(s)

------------------------------------------------------------------------------
(* PassToken, CheckTokenPass, AwaitStatusResponse *)

SendToken(s, r, attempt) ==
  LET passed == WitnessTokenPass(r, Address[s], r.next) IN
  /\ Send(s, Token(Address[s], r.next))
  /\ SetRing(s, passed)
  /\ Become(s, IF passed.next = Address[s] THEN UseToken(MaxCycles)
                                           ELSE CheckTokenPass(attempt))
  /\ UNCHANGED conn

(* Mutant: the GAP is polled only once. *)
GapOfFirstRotation(s) == IF gap[s].poll THEN NextGapPoll(ring[s], gap[s].n) ELSE gap[s]

(* The GAP state of a station that passes on the token after using it. *)
GapOfRotation(s) ==
  IF gap[s].poll THEN NextGapPoll(ring[s], gap[s].n)
  ELSE IF gap[s].n > GapWait THEN NextGapPoll(ring[s], Address[s])
  ELSE Waiting(gap[s].n + 1)

(* Mutant: the GAP state is not moved on by a poll. *)
PassTheTokenKeepingGap(s) ==
  LET g == GapOfRotation(s) IN
  /\ st[s].kind = "PassToken"
  /\ \/ /\ st[s].doGap /\ g.poll
        /\ Send(s, StatusRequest(Address[s], g.n))
        /\ Become(s, Awaiting("AwaitStatusResponse", g.n))
        /\ UNCHANGED <<conn, ring, gap>>
     \/ /\ st[s].doGap => ~g.poll
        /\ SendToken(s, ring[s], st[s].attempt)
        /\ UNCHANGED gap

PassTheToken(s) ==
  LET g == GapOfRotation(s) IN
  /\ st[s].kind = "PassToken"
  /\ \/ /\ st[s].doGap /\ g.poll
        /\ SetGap(s, g)
        /\ Send(s, StatusRequest(Address[s], g.n))
        /\ Become(s, Awaiting("AwaitStatusResponse", g.n))
        /\ UNCHANGED <<conn, ring>>
     \/ /\ st[s].doGap /\ ~g.poll
        /\ SetGap(s, g)
        /\ SendToken(s, ring[s], 1)
     \/ /\ ~st[s].doGap
        /\ SendToken(s, ring[s], st[s].attempt)
        /\ UNCHANGED gap

AwaitStatusResponse(s) ==
  /\ st[s].kind = "AwaitStatusResponse"
  /\ \/ GapPollResponse(s, PassToken(FALSE))
     \/ /\ rx[s] = <<>> /\ SlotExpired(s)
        /\ SendToken(s, ring[s], 1)
        /\ UNCHANGED gap

(* Mutant: the attempts are not limited. *)
RepeatTokenPassForever(s) ==
  /\ st[s].kind = "CheckTokenPass" /\ SlotExpired(s)
  /\ SendToken(s, ring[s], st[s].attempt + 1)
  /\ UNCHANGED gap

(* Nobody was heard after the token pass: it is repeated twice, and then   *)
(* the token goes to the station after NS.                                 *)
RepeatTokenPass(s) ==
  /\ st[s].kind = "CheckTokenPass" /\ SlotExpired(s)
  /\ \/ st[s].attempt < 3 /\ SendToken(s, ring[s], st[s].attempt + 1)
     \/ st[s].attempt = 3 /\ SendToken(s, RemoveStation(ring[s], ring[s].next), 1)
  /\ UNCHANGED gap

------------------------------------------------------------------------------
(* ActiveIdle *)

(* handle_telegram() of a station that is, or has just become, idle *)
OwnTokenSeen(s, idle, tg) ==
  /\ tg.kind = "Token" /\ tg.sa = Address[s]
  /\ \/ /\ idle.collisions = 0
        /\ Become(s, [idle EXCEPT !.collisions = 1])
        /\ Receive(s)
     \/ /\ idle.collisions = 1
        /\ Become(s, State("ListenToken"))
        /\ Drain(s)
  /\ UNCHANGED ring

TokenPassSeen(s, idle, tg) ==
  /\ tg.kind = "Token" /\ tg.sa # Address[s]
  /\ tg.da # Address[s] \/ ~IsLast(s)
  /\ SetRing(s, WitnessTokenPass(ring[s], tg.sa, tg.da))
  /\ Become(s, [idle EXCEPT !.collisions = 0])
  /\ Receive(s)

(* Mutant: a new PS is never accepted. *)
TokenReceivedFromPs(s, idle, tg) ==
  /\ tg.kind = "Token" /\ tg.sa # Address[s]
  /\ tg.da = Address[s] /\ IsLast(s)
  /\ Become(s, IF tg.sa = ring[s].prev THEN UseToken(MaxCycles)
               ELSE [idle EXCEPT !.newPrev = tg.sa, !.collisions = 0])
  /\ Receive(s)
  /\ UNCHANGED ring

(* The token is for us: only PS may pass it, or who passes it repeatedly. *)
TokenReceived(s, idle, tg) ==
  /\ tg.kind = "Token" /\ tg.sa # Address[s]
  /\ tg.da = Address[s] /\ IsLast(s)
  /\ \/ /\ tg.sa = ring[s].prev
        /\ Become(s, UseToken(MaxCycles))
        /\ UNCHANGED ring
     \/ /\ tg.sa # ring[s].prev /\ tg.sa = idle.newPrev
        /\ SetRing(s, WitnessTokenPass(ring[s], tg.sa, tg.da))
        /\ Become(s, UseToken(MaxCycles))
     \/ /\ tg.sa # ring[s].prev /\ tg.sa # idle.newPrev
        /\ Become(s, [idle EXCEPT !.newPrev = tg.sa, !.collisions = 0])
        /\ UNCHANGED ring
  /\ Receive(s)

(* Mutant: any status request is answered. *)
OtherTelegramForAnyone(s, idle, tg) ==
  /\ tg.kind # "Token"
  /\ Become(s, IF tg.kind = "StatusRequest" /\ IsLast(s)
               THEN [idle EXCEPT !.request = tg.sa] ELSE idle)
  /\ Receive(s)
  /\ UNCHANGED ring

OtherTelegram(s, idle, tg) ==
  /\ tg.kind # "Token"
  /\ Become(s, IF tg.kind = "StatusRequest" /\ tg.da = Address[s] /\ IsLast(s)
               THEN [idle EXCEPT !.request = tg.sa] ELSE idle)
  /\ Receive(s)
  /\ UNCHANGED ring

HandleTelegram(s, idle, tg) ==
  \/ OwnTokenSeen(s, idle, tg)  \/ TokenPassSeen(s, idle, tg)
  \/ TokenReceived(s, idle, tg) \/ OtherTelegram(s, idle, tg)

ActiveIdle(s) ==
  /\ st[s].kind = "ActiveIdle" /\ ~TokenLost(s)
  /\ \/ /\ st[s].request # Nobody
        /\ Send(s, Response(Address[s], st[s].request, "InRing"))
        /\ Become(s, [st[s] EXCEPT !.request = Nobody])
        /\ UNCHANGED ring
     \/ /\ st[s].request = Nobody /\ rx[s] # <<>>
        /\ HandleTelegram(s, st[s], Head(rx[s]))
  /\ UNCHANGED <<conn, gap>>

(* The first telegram after a token pass makes its sender idle; asking a   *)
(* short confirmation for its source address panics.                       *)
CheckTokenPassReceive(s) ==
  /\ st[s].kind = "CheckTokenPass" /\ ~SlotExpired(s)
  /\ rx[s] # <<>>
  /\ \/ /\ Head(rx[s]).kind # "ShortConfirmation"
        /\ HandleTelegram(s, State("ActiveIdle"), Head(rx[s]))
        /\ UNCHANGED <<conn, gap>>
     \/ /\ Head(rx[s]).kind = "ShortConfirmation"
        /\ Recreate(s, "Panicked")
        /\ Drain(s)

------------------------------------------------------------------------------
(* ListenToken *)

(* Mutant: the station joins the ring without a valid LAS. *)
ListenTokenReplyUnready(s) ==
  LET request == st[s].request IN
  /\ request # Nobody
  /\ Send(s, Response(Address[s], request,
            IF request = ring[s].prev THEN "WithoutToken" ELSE "NotReady"))
  /\ Become(s, State("ActiveIdle"))
  /\ UNCHANGED <<conn, ring, gap>>

ListenTokenReply(s) ==
  LET request == st[s].request
      ready == ReadyForRing(ring[s])
  IN
  /\ request # Nobody
  /\ Send(s, Response(Address[s], request,
            IF ready /\ request = ring[s].prev THEN "WithoutToken" ELSE "NotReady"))
  /\ Become(s, IF ready THEN State("ActiveIdle") ELSE [st[s] EXCEPT !.request = Nobody])
  /\ UNCHANGED <<conn, ring, gap>>

ListenTokenReceive(s) ==
  LET tg == Head(rx[s]) IN
  /\ st[s].request = Nobody /\ rx[s] # <<>>
  /\ \/ /\ tg.sa = Address[s] /\ st[s].collisions = 0
        /\ Become(s, [st[s] EXCEPT !.collisions = 1])
        /\ Receive(s)
        /\ UNCHANGED <<conn, ring, gap>>
     \/ /\ tg.sa = Address[s] /\ st[s].collisions = 1
        /\ Recreate(s, "Offline")
        /\ Drain(s)
     \/ /\ tg.sa # Address[s] /\ tg.kind = "Token"
        /\ SetRing(s, WitnessTokenPass(ring[s], tg.sa, tg.da))
        /\ Receive(s)
        /\ UNCHANGED <<conn, st, gap>>
     \/ /\ tg.sa # Address[s] /\ tg.kind # "Token"
        /\ Become(s, IF tg.kind = "StatusRequest" /\ tg.da = Address[s] /\ IsLast(s)
                     THEN [st[s] EXCEPT !.request = tg.sa] ELSE st[s])
        /\ Receive(s)
        /\ UNCHANGED <<conn, ring, gap>>

ListenToken(s) ==
  /\ st[s].kind = "ListenToken" /\ ~TokenLost(s)
  /\ ListenTokenReply(s) \/ ListenTokenReceive(s)

------------------------------------------------------------------------------
(* A poll that finds bytes but no telegram. *)
NoticeActivity(s) ==
  /\ st[s].kind \in {"ListenToken", "ActiveIdle", "ClaimAwaitResponse",
                     "AwaitDataResponse", "AwaitStatusResponse", "CheckTokenPass"}
  /\ fresh[s] /\ rx[s] = <<>> /\ st[s].request = Nobody
  /\ Silent(s)
  /\ UNCHANGED stationVars

Poll(s) ==
  /\ conn[s] = "Online"
  /\ \/ EnterListenToken(s) \/ ListenToken(s) \/ ActiveIdle(s) \/ LostToken(s)
     \/ ClaimSecondToken(s) \/ ClaimScan(s) \/ ClaimAwaitResponse(s)
     \/ UseTheToken(s) \/ AwaitDataResponse(s)
     \/ PassTheToken(s) \/ AwaitStatusResponse(s)
     \/ RepeatTokenPass(s) \/ CheckTokenPassReceive(s)
     \/ NoticeActivity(s)
  /\ UNCHANGED <<lates, offs>>

(* A slave answers the request, with data or a short confirmation, or it   *)
(* does not.                                                               *)
Slave ==
  \E request \in asked :
    /\ \/ /\ request.kind = "StatusRequest"
          /\ Transmit(Nobody, Response(request.da, request.sa, "Slave"))
       \/ /\ request.kind = "DataRequest"
          /\ \/ Transmit(Nobody, Response(request.da, request.sa, "Slave"))
             \/ Transmit(Nobody, ShortConfirmation)
       \/ UNCHANGED <<rx, fresh, losses>>
    /\ asked' = {}
    /\ UNCHANGED stationVars /\ UNCHANGED <<quiet, lates, offs>>

------------------------------------------------------------------------------
(* What a station does at its next poll, without further waiting *)
HasWork(s) ==
  /\ conn[s] = "Online"
  /\ \/ st[s].kind \in {"Offline", "ClaimSecondToken", "ClaimScan", "UseToken", "PassToken"}
     \/ st[s].request # Nobody
     \/ rx[s] # <<>> \/ fresh[s]
     \/ TokenLost(s)
     \/ /\ st[s].kind \in {"ClaimAwaitResponse", "AwaitDataResponse",
                            "AwaitStatusResponse", "CheckTokenPass"}
        /\ SlotExpired(s)

(* A slot passes; it may find programs or slaves late. *)
Tick ==
  /\ quiet' = [s \in Stations |-> IF st[s].kind = "Offline" THEN 0
                                  ELSE Min({quiet[s] + 1, LostTimeout(s)})]
  /\ IF asked # {} \/ \E s \in Stations : HasWork(s)
     THEN lates < MaxLate /\ lates' = lates + 1
     ELSE UNCHANGED lates
  /\ UNCHANGED stationVars
  /\ UNCHANGED <<rx, fresh, asked, losses, offs>>

Init ==
  /\ conn = [s \in Stations |-> "Offline"]
  /\ st = [s \in Stations |-> State("Offline")]
  /\ ring = [s \in Stations |-> NewRing(Address[s])]
  /\ gap = [s \in Stations |-> DoPoll(Address[s])]
  /\ quiet = [s \in Stations |-> 0]
  /\ rx = [s \in Stations |-> <<>>]
  /\ fresh = [s \in Stations |-> FALSE]
  /\ asked = {}
  /\ losses = 0 /\ lates = 0 /\ offs = 0

Next ==
  \/ \E s \in Stations : SetOnline(s) \/ SetOffline(s) \/ Poll(s)
  \/ Slave \/ Tick

(* Stations are set online and polled again and again; time passes. *)
Fairness ==
  /\ \A s \in Stations : WF_vars(SetOnline(s)) /\ WF_vars(Poll(s))
  /\ WF_vars(Slave) /\ WF_vars(Tick)

Spec == Init /\ [][Next]_vars /\ Fairness

TypeOK ==
  /\ conn \in [Stations -> {"Offline", "Online", "Panicked"}]
  /\ st \in [Stations -> States]
  /\ ring \in [Stations -> Rings]
  /\ gap \in [Stations -> GapStates]
  /\ quiet \in [Stations -> Nat]
  /\ rx \in [Stations -> Seq(Telegrams)]
  /\ fresh \in [Stations -> BOOLEAN]
  /\ asked \subseteq Telegrams
  /\ losses \in 0 .. MaxLoss /\ lates \in 0 .. MaxLate /\ offs \in 0 .. MaxOff

------------------------------------------------------------------------------
(* Properties *)

(* The states in which a station has the token: those of have_token(), and *)
(* PassToken, in which the token has not been sent yet.                    *)
HoldingKinds == {"ClaimSecondToken", "ClaimScan", "ClaimAwaitResponse", "UseToken",
                 "AwaitDataResponse", "PassToken", "AwaitStatusResponse"}

Holders == {s \in Stations : st[s].kind \in HoldingKinds}

(* is_in_ring() *)
InRing(s) == st[s].kind \notin {"Offline", "ListenToken"}

Faultless == losses = 0 /\ lates = 0

OneHolder == Cardinality(Holders) <= 1

(* Before the first fault there is never a second token, whatever stations *)
(* start, join or go offline in whatever order: the token is not claimed   *)
(* while someone has it, and a pass not repeated once it was received.     *)
OneToken == Faultless => OneHolder

(* Stations that transmit at their next poll, with nothing to wait for. *)
AboutToSend(s) ==
  /\ conn[s] = "Online"
  /\ \/ st[s].kind \in {"ClaimSecondToken", "ClaimScan", "UseToken", "PassToken"}
     \/ st[s].request # Nobody
     \/ /\ st[s].kind \in {"ClaimAwaitResponse", "AwaitDataResponse",
                            "AwaitStatusResponse", "CheckTokenPass"}
        /\ SlotExpired(s) /\ rx[s] = <<>>

(* Before the first fault two parties never transmit at the same time: a   *)
(* station that replies, repeats a token pass or gives up waiting does so  *)
(* only when no slave and no other station is about to transmit.           *)
NoContention ==
  LET senders == {s \in Stations : AboutToSend(s)} IN
  Faultless =>
    /\ Cardinality(senders) + Cardinality(asked) <= 1
    /\ (\E s \in Stations : TokenLost(s)) => senders = {} /\ asked = {}

(* A station takes part in the ring only with a validated LAS, so that it  *)
(* knows whom to pass the token to (ready_for_ring() in ListenToken), and  *)
(* no later telegram, of whatever kind or order, invalidates it.           *)
InRingKnowsLas == \A s \in Stations : InRing(s) => ReadyForRing(ring[s])

(* The address whose status response is awaited is the one the gap_state   *)
(* stands at (the second debug_assert of await_gap_poll_response): the     *)
(* next poll continues after it.                                           *)
PollMatchesGap ==
  \A s \in Stations :
    st[s].kind \in {"ClaimAwaitResponse", "AwaitStatusResponse"}
      => gap[s] = DoPoll(st[s].address)

(* NS and PS are in the LAS, or the station itself, and no station of the  *)
(* LAS is between them and it: whatever changes the LAS moves them too, so *)
(* that the token never goes to a station that was removed.                *)
NeighboursOfLas ==
  \A s \in Stations :
    LET r == ring[s] IN
    /\ r.this = Address[s] /\ {r.next, r.prev} \subseteq r.active \cup {r.this}
    /\ \A x \in r.active : ~Skips(r.this, r.next, x) /\ ~Skips(r.prev, r.this, x)

(* Before the first fault, and while nobody goes offline, a station of the *)
(* ring is not dropped from the LAS of another one, neither by a token     *)
(* pass that skips it nor for an answer that comes too late.               *)
MembersAreKept ==
  [][\A s, t \in Stations :
       Faultless' /\ offs' = 0 /\ InRing(s) /\ InRing(t) /\ Address[t] \in ring[s].active
         => Address[t] \in ring'[s].active]_vars

(* From silence, and after every fault, all stations end up in the ring,   *)
(* and all of them with the same LAS (test multimaster_smoke).             *)
RingForms ==
  <>[](\A s \in Stations : InRing(s) /\ ring[s].active = {Address[t] : t \in Stations})

(* Every station gets the token again and again. *)
Rotates == \A s \in Stations : []<>(s \in Holders)

(* After the last fault the tokens merge into one. *)
OneTokenAgain == <>[]OneHolder

(* Every address below HSA without a station is polled again and again: a  *)
(* station that appears there is found.                                    *)
GapIsPolled ==
  \A x \in (0 .. HSA - 1) \ {Address[s] : s \in Stations} :
    []<>(\E s \in Stations : st[s].address = x)

(* do_check_token_pass() warns of an unexpected telegram and goes on. *)
NoPanic == \A s \in Stations : conn[s] # "Panicked"

------------------------------------------------------------------------------
(* What the ring promises: the right to use the bus, as TokenRight has it. *)

(* The token is on its way: sent, and not yet read or not yet confirmed. *)
Underway ==
  /\ Holders = {}
  /\ \E s \in Stations :
       \/ st[s].kind = "CheckTokenPass"
       \/ rx[s] # <<>> /\ rx[s][Len(rx[s])].kind = "Token"
                      /\ rx[s][Len(rx[s])].da = Address[s]

Right == INSTANCE TokenRight WITH holders <- Holders, underway <- Underway

(* Without faults the stations implement the abstract right to send: it is *)
(* claimed only when it is lost, moves from its holder to another station  *)
(* only by a pass, ends only with the station that has it, and never stops *)
(* moving.                                                                 *)
ImplementsTokenRight == Right!Spec

==============================================================================
