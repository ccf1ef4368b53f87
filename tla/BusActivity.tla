----------------------------- MODULE BusActivity -----------------------------
(* An FDL station on its PHY, byte by byte: how it tells from the bytes it has received that *)
(* the bus is in use, when it may send, when a slot has expired, and what the telegrams it   *)
(* reads have to do with those that were sent (src/fdl/active.rs on src/phy).  Time passes   *)
(* in byte times of 11 bits.  The other end of the bus is a master that hands the token to   *)
(* this station, asks for its status or talks to the slave, and a slave that answers, now    *)
(* and then with a byte altered on the way.                                                  *)
EXTENDS Phy

CONSTANTS Drivers,      \* the drivers to look at
          Own, Peer, Slave,
          Replies,      \* the answers the slave may give
          Noise,        \* what an altered byte may become
          SlotTime,     \* in byte times
          MaxPollGap,   \* byte times between two polls of the program
          MaxNoise,     \* how many bytes are altered
          MaxLost       \* how many requests the slave misses

ASSUME BusAssumption ==
  /\ Drivers \subseteq DriverKinds
  /\ Noise \subseteq Bytes
  /\ {Own, Peer, Slave} \subseteq 0..125
  /\ \A reply \in Replies : IsTelegram(reply)
  /\ SlotTime \in Nat /\ MaxPollGap \in Nat \ {0} /\ MaxNoise \in Nat /\ MaxLost \in Nat

VARIABLES phy,
          state,        \* ActiveIdle, UseToken or AwaitDataResponse
          request,      \* who asked for our status, in ActiveIdle: a set of at most one address
          since,        \* byte times since last_bus_activity, negative if it is yet to come
          pending,      \* pending_bytes
          unpolled,     \* byte times since the last poll
          sending,      \* the bytes of the station's telegram that are not on the wire yet
          line,         \* what the others are sending, a byte or a pause in each byte time
          owed,         \* what the bus waits for: the slave's reply, the peer's turn, the
                        \* station's activity or nothing
          quiet,        \* byte times since the bus was last in use
          coming,       \* the telegrams sent by the others that have not been read yet
          lost,         \* whether bytes of them have been altered or lost
          stale,        \* whether bytes counted by pending_bytes have been thrown away
          noises, losses

bus == <<line, owed, quiet, noises, losses>>
vars == <<phy, state, request, since, pending, unpolled, sending, coming, lost, stale,
          bus>>

Pause == 256
SyncPause == 3          \* 33 bit times
BytesOf(s) == FlattenSeq([i \in DOMAIN s |-> IF s[i] = Pause THEN <<>> ELSE <<s[i]>>])
Received == phy.buffer \o phy.unread
Sent(telegrams) == FlattenSeq([i \in DOMAIN telegrams |-> Serialize(telegrams[i])])

Token == TokenTelegram(Own, Peer)
TokenPass == TokenTelegram(Peer, Own)
StatusRequest == FdlStatusRequest(Own, Peer)
StatusResponse(da) == FdlStatusResponse(da, Own, 3)
DataRequest == DataTelegram(Slave, Own, <<>>, <<>>, Request("High", SrdLow), <<1>>)
OtherTraffic == <<FdlStatusRequest(Slave, Peer), FdlStatusResponse(Peer, Slave, 0)>>

Init ==
  /\ phy \in {NewPhy(driver) : driver \in Drivers}
  /\ state = "ActiveIdle" /\ request = {} /\ since = 0 /\ pending = 0 /\ unpolled = 0
  /\ sending = <<>> /\ line = <<>> /\ owed = "turn" /\ quiet = 0
  /\ coming = <<>> /\ lost = FALSE /\ stale = FALSE /\ noises = 0 /\ losses = 0

-----------------------------------------------------------------------------
(* The bus. *)

Idle == line = <<>> /\ phy.queue = <<>> /\ phy.unsent = <<>>

\* A byte time passes: a byte of the station leaves, one of the others arrives.
ByteTime ==
  /\ unpolled < MaxPollGap
  /\ ~(owed = "reply" /\ Idle)
  /\ LET arriving == IF line = <<>> \/ Head(line) = Pause THEN <<>> ELSE <<Head(line)>>
     IN /\ phy' = Shift(Arrive(phy, arriving))
        /\ quiet' = IF phy.queue # <<>> \/ arriving # <<>> THEN 0
                    ELSE Min({quiet + 1, SlotTime + 1})
        /\ lost' = (lost \/ (arriving # <<>> /\ Len(phy.unread) = BufferLength))
  /\ line' = SubSeq(line, 2, Len(line))
  /\ sending' = IF phy.queue = <<>> THEN sending ELSE SubSeq(sending, 2, Len(sending))
  /\ since' = Min({since + 1, SlotTime + 1})
  /\ unpolled' = unpolled + 1
  /\ UNCHANGED <<state, request, pending, owed, coming, stale, noises, losses>>

\* The bookkeeping of what is on its way starts anew when nothing is left to be read; as
\* long as bytes are missing it keeps the last telegrams only.
LastOnes(telegrams) ==
  SubSeq(telegrams, Max({1, Len(telegrams) - 2}), Len(telegrams))
Comes(telegrams, altered) ==
  IF lost /\ Received # <<>> THEN coming' = LastOnes(coming) \o telegrams /\ UNCHANGED lost
  ELSE /\ coming' = (IF lost THEN <<>> ELSE coming) \o telegrams
       /\ lost' = altered

\* The slave answers after the shortest delay, maybe with one byte altered on the way,
\* which does not happen on the simulator's bus.
SlaveReplies ==
  /\ owed = "reply" /\ Idle
  /\ \E reply \in Replies :
       LET bytes == Serialize(reply)
       IN \/ line' = <<Pause>> \o bytes /\ Comes(<<reply>>, FALSE) /\ UNCHANGED noises
          \/ /\ noises < MaxNoise /\ phy.driver # "simulator"
             /\ \E i \in DOMAIN bytes : \E b \in Noise \ {bytes[i]} :
                  line' = <<Pause>> \o [bytes EXCEPT ![i] = b]
             /\ Comes(<<reply>>, TRUE)
             /\ noises' = noises + 1
  /\ owed' = "nothing"
  /\ UNCHANGED <<phy, state, request, since, pending, unpolled, sending, quiet, stale,
                 losses>>

\* The slave has not received the request.
SlaveMisses ==
  /\ owed = "reply" /\ Idle /\ losses < MaxLost
  /\ owed' = "nothing"
  /\ losses' = losses + 1
  /\ UNCHANGED <<phy, state, request, since, pending, unpolled, sending, line, quiet, coming,
                 lost, stale, noises>>

\* The peer hands over the token, asks for the station's status, or talks to the slave first.
PeerSends(telegrams) ==
  /\ owed = "turn" /\ Idle /\ quiet > SyncPause
  /\ Comes(telegrams, FALSE)
  /\ line' = FlattenSeq([i \in DOMAIN telegrams |-> Append(Serialize(telegrams[i]), Pause)])
  /\ owed' = "activity"
  /\ UNCHANGED <<phy, state, request, since, pending, unpolled, sending, quiet, stale,
                 noises, losses>>
PeerPassesToken == PeerSends(<<Token>>)
PeerAsksForStatus == PeerSends(<<StatusRequest>>)
PeerAsksSlave == PeerSends(Append(OtherTraffic, Token))

\* It has its turn again when the station does not react in a slot, or has lost the token.
PeerTimesOut ==
  /\ owed = "activity" \/ (owed = "nothing" /\ state = "ActiveIdle")
  /\ Idle /\ quiet > SlotTime
  /\ owed' = "turn"
  /\ UNCHANGED <<phy, state, request, since, pending, unpolled, sending, line, quiet, coming,
                 lost, stale, noises, losses>>

-----------------------------------------------------------------------------
(* The station's poll(): what comes first in every state. *)

Polled == PollTransmission(phy)

\* check_for_ongoing_transmision()
Ongoing == Polled.mode = "Tx" \/ since <= 0

\* Mutant: bytes are activity only once they make a telegram.
NewTelegram == ReceiveTelegram(Polled).telegrams # <<>>
\* check_for_bus_activity()
NewBytes == PendingReceivedBytes(Polled) > pending
Since == IF NewBytes THEN 0 ELSE since
Pending == IF NewBytes THEN PendingReceivedBytes(Polled) ELSE pending

PollStarts == unpolled > 0 /\ unpolled' = 0

WaitForTransmission ==
  /\ PollStarts /\ Ongoing
  /\ phy' = Polled /\ since' = Min({since, 0})
  /\ UNCHANGED <<state, request, pending, sending, coming, lost, stale, bus>>

\* Nothing to do yet: new bytes are noted, the others read and kept.
Waits ==
  /\ phy' = Read(Polled) /\ since' = Since /\ pending' = Pending
  /\ UNCHANGED <<state, request, sending, coming, lost, stale, bus>>

\* wait_synchronization_pause()
MustWait == Since <= SyncPause

\* transmit_telegram() and mark_tx().  What was in the receive buffer is lost.  The simulator's
\* bus panics when somebody else is sending: there the model would stop.
Transmits(from, telegram, waitingFor) ==
  /\ phy.driver = "simulator" => BytesOf(line) = <<>>
  /\ phy' = Transmit(from, Serialize(telegram))
  /\ since' = -Len(Serialize(telegram)) /\ pending' = Pending
  /\ sending' = Serialize(telegram)
  /\ owed' = waitingFor
  /\ lost' = (lost \/ Received # <<>>)
  /\ stale' = (stale \/ Received # <<>>)
  /\ UNCHANGED <<coming, line, quiet, noises, losses>>

\* Telegrams are read; mark_rx() once for each of them.  The RP2040's driver throws away what
\* follows one it hands over.
Reads(received) ==
  /\ phy' = received.phy
  /\ since' = IF received.telegrams = <<>> THEN Since ELSE 0
  /\ pending' = IF received.telegrams = <<>> THEN Pending ELSE 0
  /\ coming' = SubSeq(coming, Len(received.telegrams) + 1, Len(coming))
  /\ lost' = \/ lost
             \/ /\ phy.driver = "rp2040"
                /\ received.telegrams # <<>>
                /\ PendingReceivedBytes(Polled) > Len(Serialize(Head(received.telegrams)))
  /\ stale' = /\ received.telegrams = <<>>
              /\ stale \/ (PendingReceivedBytes(Polled) > 0 /\ received.phy.buffer = <<>>)
  /\ UNCHANGED <<sending, bus>>

-----------------------------------------------------------------------------
(* The states. *)

\* do_active_idle() with a status request to answer: nothing is received meanwhile.
AnswerStatusRequest ==
  /\ PollStarts /\ ~Ongoing /\ state = "ActiveIdle" /\ request # {}
  /\ IF MustWait THEN Waits
     ELSE /\ \E da \in request : Transmits(Read(Polled), StatusResponse(da), "turn")
          /\ request' = {}
          /\ UNCHANGED state

\* do_active_idle() and handle_telegram(): only the last telegram is acted upon.
ReceiveInActiveIdle ==
  /\ PollStarts /\ ~Ongoing /\ state = "ActiveIdle" /\ request = {}
  /\ LET received == ReceiveAllTelegrams(Polled)
         newest == IF received.last THEN {Last(received.telegrams)} ELSE {}
     IN /\ Reads(received)
        /\ state' = IF Token \in newest THEN "UseToken" ELSE "ActiveIdle"
        /\ request' = {t.sa : t \in {n \in newest : IsFdlStatusRequest(n) /\ n.da = Own}}

\* The application sends a request, or the token is passed on.
SendOrPass(from) ==
  \/ state' = "AwaitDataResponse" /\ Transmits(from, DataRequest, "reply")
  \/ state' = "ActiveIdle" /\ Transmits(from, TokenPass, "turn")

UseTheToken ==
  /\ PollStarts /\ ~Ongoing /\ state = "UseToken"
  /\ IF MustWait THEN Waits ELSE SendOrPass(Read(Polled)) /\ UNCHANGED request

SlotExpired == Since > SlotTime

\* do_await_data_response(): one telegram is read.
ReplyArrives ==
  /\ PollStarts /\ ~Ongoing /\ state = "AwaitDataResponse"
  /\ LET received == ReceiveTelegram(Polled)
     IN /\ received.telegrams # <<>>
        /\ Reads(received)
        /\ state' = IF \A t \in {Head(received.telegrams)} :
                          t.kind = "ShortConfirmation" \/ IsResponseOf(t, Slave, Own)
                    THEN "UseToken" ELSE "ActiveIdle"
  /\ UNCHANGED request

NoReplyYet ==
  /\ PollStarts /\ ~Ongoing /\ state = "AwaitDataResponse"
  /\ LET received == ReceiveTelegram(Polled)
     IN received.telegrams = <<>> /\ ~SlotExpired /\ Reads(received)
  /\ UNCHANGED <<state, request>>

\* do_use_token() follows in the same poll.
ReplyTimesOut ==
  /\ PollStarts /\ ~Ongoing /\ state = "AwaitDataResponse"
  /\ ReceiveTelegram(Polled).telegrams = <<>> /\ SlotExpired
  /\ SendOrPass(ReceiveTelegram(Polled).phy)
  /\ UNCHANGED request

Poll ==
  \/ WaitForTransmission
  \/ AnswerStatusRequest
  \/ ReceiveInActiveIdle
  \/ UseTheToken
  \/ ReplyArrives
  \/ NoReplyYet
  \/ ReplyTimesOut

Next == \/ ByteTime \/ SlaveReplies \/ SlaveMisses
        \/ PeerPassesToken \/ PeerAsksForStatus \/ PeerAsksSlave
        \/ PeerTimesOut \/ Poll

\* Time passes and the program polls again and again; the slave answers and the peer takes its
\* turns and passes the token in some of them.  The station's token hold time ends, which is
\* not modelled: it does not keep the token for ever.
Fairness ==
  /\ WF_vars(ByteTime) /\ []<>(unpolled = 0) /\ []<>(state = "ActiveIdle")
  /\ WF_vars(SlaveReplies) /\ WF_vars(PeerTimesOut) /\ SF_vars(PeerPassesToken)

Spec == Init /\ [][Next]_vars /\ Fairness

-----------------------------------------------------------------------------
(* Properties. *)

\* As long as nothing was altered or thrown away, the bytes in the driver and on the wire are
\* those of the telegrams nobody has read: callbacks get every telegram that was sent, once,
\* in order, however the polls cut the stream (receive_data() of the drivers,
\* receive_telegram() and receive_all_telegrams()).
InOrder == ~lost => Received \o BytesOf(line) = Sent(coming)

\* What the driver has submitted and still holds is the rest of the telegram, whatever
\* write() took at a time, and it turns to receiving, and may be given the next telegram, only
\* when all of it is on the wire (poll_transmission(), transmit_data()).
SendsWhole == IF phy.mode = "Tx" THEN phy.queue \o phy.unsent = sending ELSE sending = <<>>

\* A data telegram is only ever taken for one that was sent, also when a byte was altered and
\* reading starts again in the middle of a telegram (Telegram::deserialize()).
NothingForged ==
  [][unpolled # 0 /\ unpolled' = 0 /\ ~Ongoing =>
        \A t \in ToSet(ReceiveAllTelegrams(Polled).telegrams) :
          t.kind = "Data" => t \in ToSet(coming)]_vars

StartsSending == phy.mode = "Rx" /\ phy'.mode = "Tx"

\* The station never starts to send while another one is sending, unless bytes went unnoticed
\* because pending_bytes still counts bytes that have been discarded (check_for_bus_activity(),
\* wait_synchronization_pause(), check_slot_expired()).
NoCollision ==
  [][StartsSending /\ ~stale => BytesOf(line) = <<>>]_vars

\* The station gets the token again and again, whatever it misread.
TokenComesAgain == []<>(state = "UseToken")

=============================================================================
