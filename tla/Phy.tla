--------------------------------- MODULE Phy ---------------------------------
(* The PHY drivers of src/phy (SerialPortPhy, Rp2040Phy and SimulatorPhy) and the provided   *)
(* methods of the ProfibusPhy trait that read telegrams from them.  A driver is a record:    *)
(*   driver  which of the three it is                                                        *)
(*   mode    Rx or Tx, the variant of PhyData                                                *)
(*   buffer  the bytes it has received and nobody has dropped                                *)
(*   unread  bytes of the UART or the kernel that it has not read yet                        *)
(*   unsent  the rest of the telegram being sent that it has not submitted                   *)
(*   queue   submitted bytes that are not on the wire yet                                    *)
(*   wait    byte times until the transmitter is ready (start_tx of Rp2040Phy)               *)
(* The simulator has no buffer of its own but a cursor into the stream of the bus: what lies *)
(* behind it is read into the buffer at every access.                                        *)
EXTENDS Telegram, FiniteSetsExt

CONSTANTS BufferLength,   \* the size of the receive buffer
          WriteSize       \* how many bytes the output queue takes at once

ASSUME PhyAssumption == BufferLength \in Nat /\ WriteSize \in Nat \ {0}

DriverKinds == {"serial", "rp2040", "simulator"}

NewPhy(driver) ==
  [driver |-> driver, mode |-> "Rx", buffer |-> <<>>, unread |-> <<>>,
   unsent |-> <<>>, queue |-> <<>>, wait |-> 0]

-----------------------------------------------------------------------------
(* Sending. *)

\* write() takes what fits.
Submit(phy) ==
  LET n == Min({WriteSize, Len(phy.unsent)})
  IN [phy EXCEPT !.queue = @ \o SubSeq(phy.unsent, 1, n),
                 !.unsent = SubSeq(@, n + 1, Len(@))]

MakeRx(phy) == [phy EXCEPT !.mode = "Rx", !.buffer = <<>>]

\* Mutant: the driver stays in Tx when it has nothing to send any more.
SerialPollForEver(phy) == IF phy.mode = "Tx" THEN Submit(phy) ELSE phy
\* Mutant: submitted is taken for sent.
SerialPollSubmitted(phy) ==
  CASE phy.mode = "Tx" /\ phy.unsent # <<>> -> Submit(phy)
    [] phy.mode = "Tx" /\ phy.unsent = <<>> -> MakeRx(phy)
    [] OTHER -> phy
\* poll_transmission(): the driver's next state; it is transmitting if that is in Tx.
SerialPoll(phy) ==
  CASE phy.mode = "Tx" /\ phy.unsent # <<>> -> Submit(phy)
    [] phy.mode = "Tx" /\ phy.unsent = <<>> /\ phy.queue = <<>> -> MakeRx(phy)
    [] OTHER -> phy

Rp2040Poll(phy) ==
  CASE phy.mode = "Tx" /\ phy.wait = 0 /\ phy.unsent # <<>> -> Submit(phy)
    [] phy.mode = "Tx" /\ phy.wait = 0 /\ phy.unsent = <<>> /\ phy.queue = <<>> -> MakeRx(phy)
    [] OTHER -> phy

SimulatorPoll(phy) ==
  IF phy.mode = "Tx" /\ phy.queue = <<>> THEN [phy EXCEPT !.mode = "Rx"] ELSE phy

PollTransmission(phy) ==
  CASE phy.driver = "serial" -> SerialPoll(phy)
    [] phy.driver = "rp2040" -> Rp2040Poll(phy)
    [] phy.driver = "simulator" -> SimulatorPoll(phy)

\* transmit_data() with a telegram: the receive buffer becomes the send buffer, and what was
\* received into it is lost.
SerialTransmit(phy, frame) ==
  Submit([phy EXCEPT !.mode = "Tx", !.buffer = <<>>, !.unsent = frame])

Rp2040Transmit(phy, frame) ==
  [phy EXCEPT !.mode = "Tx", !.buffer = <<>>, !.unsent = frame, !.wait = 1]

\* The cursor is moved by the length of the telegram, wherever in the stream it stands.
SimulatorTransmit(phy, frame) ==
  LET stream == phy.buffer \o phy.unread \o frame
  IN [phy EXCEPT !.mode = "Tx", !.queue = frame, !.buffer = <<>>,
                 !.unread = SubSeq(stream, Len(frame) + 1, Len(stream))]

Transmit(phy, frame) ==
  CASE phy.driver = "serial" -> SerialTransmit(phy, frame)
    [] phy.driver = "rp2040" -> Rp2040Transmit(phy, frame)
    [] phy.driver = "simulator" -> SimulatorTransmit(phy, frame)

-----------------------------------------------------------------------------
(* Receiving. *)

\* The first half of receive_data(): what has arrived is read as far as there is room.
Read(phy) ==
  LET room == IF phy.driver = "simulator" THEN Len(phy.unread)
              ELSE Min({Len(phy.unread), BufferLength - Len(phy.buffer)})
  IN [phy EXCEPT !.buffer = @ \o SubSeq(phy.unread, 1, room),
                 !.unread = SubSeq(@, room + 1, Len(@))]

\* Mutant: the bytes are moved to the front one too far.
DropOneMore(phy, n) == [phy EXCEPT !.buffer = IF n = 0 THEN @ ELSE SubSeq(@, n + 2, Len(@))]
\* The second half: n bytes of the buffer are dropped.
SerialDrop(phy, n) == [phy EXCEPT !.buffer = SubSeq(@, n + 1, Len(@))]
\* Rp2040Phy cannot drop a part of its buffer and drops all of it.
Rp2040Drop(phy, n) == [phy EXCEPT !.buffer = IF n = 0 THEN @ ELSE <<>>]
Drop(phy, n) == IF phy.driver = "rp2040" THEN Rp2040Drop(phy, n) ELSE SerialDrop(phy, n)

\* receive_telegram(): the next state, and the telegram the callback gets, if any.
ReceiveTelegram(phy) ==
  LET read == Read(phy)
      decoded == Deserialize(read.buffer)
  IN CASE decoded.result = "invalid" ->
            [phy |-> Drop(read, Len(read.buffer)), telegrams |-> <<>>]
       [] decoded.result = "telegram" ->
            [phy |-> Drop(read, decoded.length), telegrams |-> <<decoded.telegram>>]
       [] OTHER -> [phy |-> read, telegrams |-> <<>>]

\* A turn of the loop of receive_all_telegrams(), after what it has read so far; the telegram
\* that ends with the buffer is the last one.
ReceiveTurn(all) ==
  LET one == ReceiveTelegram(all.phy)
      buffer == Read(all.phy).buffer
      last == one.telegrams # <<>> /\ Deserialize(buffer).length = Len(buffer)
  IN IF ~all.looping THEN all
     ELSE [phy |-> one.phy, telegrams |-> all.telegrams \o one.telegrams, last |-> last,
           looping |-> one.telegrams # <<>> /\ ~last]

\* receive_all_telegrams(): `last` says that the callback got the last of the telegrams with
\* is_last_telegram set.  Every turn but the one that leaves the loop takes a byte or more.
ReceiveAllTelegrams(phy) ==
  LET all[turn \in Nat] ==
        IF turn = 0 THEN [phy |-> phy, telegrams |-> <<>>, last |-> FALSE, looping |-> TRUE]
        ELSE ReceiveTurn(all[turn - 1])
  IN all[Len(phy.buffer) + Len(phy.unread) + 1]

\* poll_pending_received_bytes(): how many bytes wait, all of them read.
PendingReceivedBytes(phy) == Len(Read(phy).buffer)

-----------------------------------------------------------------------------
(* The UART and the bus, per byte time. *)

\* A byte goes out; the transmitter's delay runs.
Shift(phy) == [phy EXCEPT !.queue = SubSeq(@, 2, Len(@)), !.wait = Max({0, @ - 1})]

\* A byte comes in; a full UART loses it.
Arrive(phy, bytes) ==
  IF Len(phy.unread) = BufferLength THEN phy ELSE [phy EXCEPT !.unread = @ \o bytes]

=============================================================================
