---------------------------- MODULE MCBusActivity ----------------------------
(* Small instances of BusActivity for TLC. *)
EXTENDS BusActivity

\* A reply longer than a slot, whose data look like telegrams, a short one, and one with
\* service access points.
LongReply == DataTelegram(Own, Slave, <<>>, <<>>, Response(0, 8), <<104, 20, 20, 229, 220, 1, 2>>)
AllReplies == {LongReply, ShortConfirmation,
               DataTelegram(Own, Slave, <<62>>, <<60>>, Response(0, 8), <<1, 2, 3, 4, 5, 6>>)}

=============================================================================
