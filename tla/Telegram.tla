------------------------------- MODULE Telegram -------------------------------
(* The wire format of FDL telegrams, src/fdl/telegram.rs: how a telegram becomes bytes,      *)
(* and what a buffer of received bytes is taken for.  A byte is a number below 256, a        *)
(* service access point that may be absent (Option<u8>) a sequence of at most one byte.      *)
EXTENDS Integers, SequencesExt

Bytes == 0..255
SD1 == 16
SD2 == 104
SD3 == 162
SD4 == 220
ED == 22
SC == 229

-----------------------------------------------------------------------------
(* Function codes.  Requests, states and statuses are named by the numbers they are sent as. *)

RequestTypes == {0, 3, 4, 5, 6, 7, 9, 12, 13, 14, 15, 128}
FdlStatus == 9
SrdLow == 12
ResponseStates == 0..3
ResponseStatuses == {0, 1, 2, 3, 8, 9, 10, 12, 13}
FrameCountBits == {"First", "High", "Low", "Inactive"}
Fcb(bit) == IF bit \in {"First", "High"} THEN 1 ELSE 0
Fcv(bit) == IF bit \in {"High", "Low"} THEN 1 ELSE 0

Request(bit, req) == [kind |-> "Request", fcb |-> bit, req |-> req]
Response(state, status) == [kind |-> "Response", state |-> state, status |-> status]

FunctionCodes ==
  {Request(bit, req) : bit \in FrameCountBits, req \in RequestTypes} \cup
  {Response(state, status) : state \in ResponseStates, status \in ResponseStatuses}

FunctionCodeToByte(fc) ==
  IF fc.kind = "Request" THEN 64 + fc.req + 16 * Fcv(fc.fcb) + 32 * Fcb(fc.fcb)
  ELSE 16 * fc.state + fc.status

FunctionCodeOfByte(b) ==
  IF (b \div 64) % 2 = 1
  THEN {Request(bit, req) : bit \in {c \in FrameCountBits :
                                       (b \div 16) % 4 = Fcv(c) + 2 * Fcb(c)},
                            req \in RequestTypes \cap {(b % 16) + 128 * (b \div 128)}}
  ELSE {Response((b \div 16) % 4, status) : status \in ResponseStatuses \cap {b % 16}}

-----------------------------------------------------------------------------
(* Telegrams. *)

TokenTelegram(da, sa) == [kind |-> "Token", da |-> da, sa |-> sa]
ShortConfirmation == [kind |-> "ShortConfirmation"]
DataTelegram(da, sa, dsap, ssap, fc, pdu) ==
  [kind |-> "Data", da |-> da, sa |-> sa, dsap |-> dsap, ssap |-> ssap, fc |-> fc, pdu |-> pdu]
FdlStatusRequest(da, sa) == DataTelegram(da, sa, <<>>, <<>>, Request("Inactive", FdlStatus), <<>>)
FdlStatusResponse(da, sa, state) == DataTelegram(da, sa, <<>>, <<>>, Response(state, 0), <<>>)

\* Service access points and data of a data telegram fit into its length byte.
IsTelegram(t) ==
  \/ t = ShortConfirmation
  \/ t = TokenTelegram(t.da, t.sa) /\ {t.da, t.sa} \subseteq Bytes
  \/ /\ t = DataTelegram(t.da, t.sa, t.dsap, t.ssap, t.fc, t.pdu)
     /\ {t.da, t.sa} \subseteq 0..127 /\ t.fc \in FunctionCodes
     /\ {t.dsap, t.ssap, t.pdu} \subseteq Seq(Bytes) /\ Len(t.dsap) <= 1 /\ Len(t.ssap) <= 1
     /\ 3 + Len(t.dsap) + Len(t.ssap) + Len(t.pdu) <= 249

IsFdlStatusRequest(t) == t.kind = "Data" /\ t.fc.kind = "Request" /\ t.fc.req = FdlStatus
IsResponseOf(t, address, own) ==
  t.kind = "Data" /\ t.sa = address /\ t.da = own /\ t.fc.kind = "Response"

\* The sum of the first bytes, modulo 256.
SumOfFirst(body) ==
  LET sum[n \in Nat] == IF n = 0 THEN 0 ELSE (sum[n - 1] + body[n]) % 256
  IN sum

\* Mutant: the sum starts after the destination address.
ChecksumFromSource(body) == SumOfFirst(Tail(body))[Len(body) - 1]
Checksum(body) == SumOfFirst(body)[Len(body)]

Flagged(address, sap) == IF sap = <<>> THEN address ELSE address + 128

SerializeData(t) ==
  LET body == <<Flagged(t.da, t.dsap), Flagged(t.sa, t.ssap), FunctionCodeToByte(t.fc)>>
                \o t.dsap \o t.ssap \o t.pdu
      length == Len(body)
  IN (CASE length = 3 -> <<SD1>> [] length = 11 -> <<SD3>> [] OTHER -> <<SD2, length, length, SD2>>)
       \o body \o <<Checksum(body), ED>>

Serialize(t) == CASE t.kind = "Token" -> <<SD4, t.da, t.sa>>
                  [] t.kind = "ShortConfirmation" -> <<SC>>
                  [] OTHER -> SerializeData(t)

-----------------------------------------------------------------------------
(* Decoding: the buffer does not yet hold a telegram, cannot hold one, or begins with one.   *)

Incomplete == [result |-> "incomplete"]
Invalid == [result |-> "invalid"]
Telegram(t, length) == [result |-> "telegram", telegram |-> t, length |-> length]

\* From the body of a data telegram, the bytes between its head and its checksum.
DecodeBody(body) ==
  {LET saps == SubSeq(body, 4, 3 + body[1] \div 128 + body[2] \div 128)
   IN DataTelegram(body[1] % 128, body[2] % 128,
                   SubSeq(saps, 1, body[1] \div 128),
                   SubSeq(saps, 1 + body[1] \div 128, Len(saps)),
                   fc, SubSeq(body, 4 + Len(saps), Len(body))) :
     fc \in {c \in FunctionCodeOfByte(body[3]) :
               3 + body[1] \div 128 + body[2] \div 128 <= Len(body)}}

DeserializeData(b) ==
  IF Len(b) < 6 THEN Incomplete
  ELSE IF b[1] = SD2 /\ (b[2] # b[3] \/ b[2] < 3) THEN Invalid
  ELSE LET head == IF b[1] = SD2 THEN 4 ELSE 1
           size == CASE b[1] = SD1 -> 3 [] b[1] = SD3 -> 11 [] OTHER -> b[2]
           body == SubSeq(b, head + 1, head + size)
           length == head + size + 2
       IN IF Len(b) < length THEN Incomplete
          ELSE IF DecodeBody(body) = {} \/ Checksum(body) # b[length - 1] \/ b[length] # ED
               THEN Invalid
          ELSE Telegram(CHOOSE t \in DecodeBody(body) : TRUE, length)

Deserialize(b) ==
  CASE b = <<>> -> Incomplete
    [] Len(b) > 0 /\ b[1] = SC -> Telegram(ShortConfirmation, 1)
    [] Len(b) > 0 /\ b[1] = SD4 -> IF Len(b) < 3 THEN Incomplete
                                   ELSE Telegram(TokenTelegram(b[2], b[3]), 3)
    [] Len(b) > 0 /\ b[1] \in {SD1, SD2, SD3} -> DeserializeData(b)
    [] OTHER -> Invalid

=============================================================================
