----------------------------- MODULE DpPeripheral -----------------------------
(***************************************************************************)
(* One dp::Peripheral as a record, and what its methods make of it: what   *)
(* transmit_telegram() sends, and how receive_reply() takes an answer in   *)
(* each state.                                                             *)
(***************************************************************************)
EXTENDS Integers

CONSTANTS
  Addresses,       \* addresses of peripherals
  Inputs,          \* those with a process image of inputs
  Unconfigured,    \* those without user_parameters or without config
  MaxRetry         \* max_retry_limit

ASSUME PeripheralAssumption ==
  /\ Addresses \subseteq 0 .. 125
  /\ Inputs \subseteq Addresses
  /\ Unconfigured \subseteq Addresses
  /\ MaxRetry \in 1 .. 15

------------------------------------------------------------------------------
(* Frame count bit *)

FrameCountBits == {"First", "High", "Low"}

Cycle(fcb) == IF fcb = "Low" THEN "High" ELSE "Low"

(* FCB and FCV in the function code of a request *)
Bit(fcb) == fcb # "Low"
Valid(fcb) == fcb # "First"

------------------------------------------------------------------------------
(* Telegrams.  All four requests are told apart by their SAP; a Refusal is a *)
(* response "SAP not enabled", "high" the response status DataHigh.          *)

Requests == {"GetDiag", "SetPrm", "ChkCfg", "Exchange"}

Flags == {"ParameterFault", "ConfigurationFault", "ParameterRequired", "StationNotReady"}

Diagnostics(flags) == [kind |-> "Diagnostics", flags |-> flags, high |-> FALSE]
InputData(high) == [kind |-> "Inputs", flags |-> {}, high |-> high]
Confirmation == [kind |-> "Confirmation", flags |-> {}, high |-> FALSE]
Refusal == [kind |-> "Refusal", flags |-> {}, high |-> FALSE]

Replies == [kind : {"Diagnostics", "Inputs", "Confirmation", "Refusal"},
            flags : SUBSET Flags, high : BOOLEAN]

------------------------------------------------------------------------------
(* The peripheral *)

PeripheralStates ==
  {"Offline", "WaitForParam", "WaitForConfig", "ValidateConfig", "PreDataExchange",
   "DataExchange"}

Peripherals ==
  [address : Addresses, state : PeripheralStates, retry_count : 0 .. MaxRetry + 1,
   fcb : FrameCountBits, diag_needed : BOOLEAN]

NewPeripheral(address) ==
  [address |-> address, state |-> "Offline", retry_count |-> 0, fcb |-> "First",
   diag_needed |-> FALSE]

PeripheralEvents ==
  {"Online", "Configured", "ConfigError", "ParameterError", "DataExchanged",
   "Diagnostics", "Offline"}

NoEvent == "None"

IsLive(p) == p.state # "Offline"
Exchanging(p) == p.state \in {"PreDataExchange", "DataExchange"}

(* Mutants: one repetition more, and one less. *)
GivesUpLate(p) == p.retry_count > MaxRetry + 1
GivesUpEarly(p) == p.retry_count >= MaxRetry

(* transmit_telegram(): the retries are used up *)
GivesUp(p) == p.retry_count > MaxRetry

(* ... it has something to send *)
Sends(p) ==
  /\ ~GivesUp(p)
  /\ p.state = "Offline" => p.retry_count = 0
  /\ p.state \in {"WaitForParam", "WaitForConfig"} => p.address \notin Unconfigured

(* ... which is this *)
RequestOf(p) ==
  CASE p.state \in {"Offline", "ValidateConfig"} -> "GetDiag"
    [] p.state = "WaitForParam" -> "SetPrm"
    [] p.state = "WaitForConfig" -> "ChkCfg"
    [] Exchanging(p) -> IF p.diag_needed THEN "GetDiag" ELSE "Exchange"

Sent(p) == [p EXCEPT !.retry_count = @ + 1]

(* Mutant: the retry count of a peripheral that is given up remains. *)
SkippedForEver(p) == [p EXCEPT !.state = IF GivesUp(p) THEN "Offline" ELSE @]

(* ... or it has not *)
Skipped(p) ==
  [p EXCEPT !.retry_count = 0, !.state = IF GivesUp(p) THEN "Offline" ELSE @]

------------------------------------------------------------------------------
(* receive_reply(): the peripheral after it, and the event *)

(* a valid reply: the retries start again, the next request has the other bit *)
Answered(p, state) == [p EXCEPT !.state = state, !.retry_count = 0, !.fcb = Cycle(@)]

Unexpected(p) == <<p, NoEvent>>

OfflineReply(p, t) ==
  IF t.kind = "Diagnostics" THEN <<Answered(p, "WaitForParam"), "Online">>
                            ELSE Unexpected(p)

(* Mutant: the retry count is not reset. *)
ConfirmedReplyCounted(p, t, next) ==
  IF t.kind = "Confirmation"
  THEN <<[p EXCEPT !.state = next, !.fcb = Cycle(@)], NoEvent>> ELSE Unexpected(p)

ConfirmedReply(p, t, next) ==
  IF t.kind = "Confirmation" THEN <<Answered(p, next), NoEvent>> ELSE Unexpected(p)

(* The flags are looked at in this order. *)
Verdict(flags) ==
  IF "ParameterFault" \in flags THEN <<"Offline", "ParameterError">>
  ELSE IF "ConfigurationFault" \in flags THEN <<"Offline", "ConfigError">>
  ELSE IF "ParameterRequired" \in flags THEN <<"WaitForParam", NoEvent>>
  ELSE IF "StationNotReady" \notin flags THEN <<"PreDataExchange", "Configured">>
  ELSE <<"ValidateConfig", NoEvent>>

ValidateReply(p, t) ==
  IF t.kind = "Diagnostics"
  THEN <<Answered(p, Verdict(t.flags)[1]), Verdict(t.flags)[2]>>
  ELSE <<[p EXCEPT !.retry_count = 0], NoEvent>>

(* Mutant: the next request has the same frame count bit. *)
RequestedDiagnosticsReplySameBit(p, t) ==
  IF t.kind = "Diagnostics"
  THEN <<[p EXCEPT !.diag_needed = FALSE, !.retry_count = 0], "Diagnostics">>
  ELSE Unexpected(p)

RequestedDiagnosticsReply(p, t) ==
  IF t.kind = "Diagnostics"
  THEN <<[Answered(p, p.state) EXCEPT !.diag_needed = FALSE], "Diagnostics">>
  ELSE Unexpected(p)

(* Any data telegram counts, whatever its SAPs; the inputs of a peripheral  *)
(* may be as long as a diagnostics response.                                 *)
TakenAsInputs(p, t) ==
  \/ t.kind = "Inputs"
  \/ t.kind = "Diagnostics" /\ p.address \in Inputs
  \/ t.kind = "Confirmation" /\ p.address \notin Inputs

ExchangeReply(p, t) ==
  IF t.kind = "Refusal" THEN <<Answered(p, "ValidateConfig"), NoEvent>>
  ELSE IF TakenAsInputs(p, t)
       THEN <<[Answered(p, "DataExchange") EXCEPT !.diag_needed = t.high], "DataExchanged">>
       ELSE <<Answered(p, p.state), NoEvent>>

ReceiveReply(p, t) ==
  CASE p.state = "Offline" -> OfflineReply(p, t)
    [] p.state = "WaitForParam" -> ConfirmedReply(p, t, "WaitForConfig")
    [] p.state = "WaitForConfig" -> ConfirmedReply(p, t, "ValidateConfig")
    [] p.state = "ValidateConfig" -> ValidateReply(p, t)
    [] Exchanging(p) -> IF p.diag_needed THEN RequestedDiagnosticsReply(p, t)
                                         ELSE ExchangeReply(p, t)

==============================================================================
