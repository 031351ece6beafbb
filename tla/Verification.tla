---------------------------- MODULE Verification ----------------------------
(***************************************************************************)
(* PUS 1 verification reporting (satrs/src/pus/verification.rs): request   *)
(* identifiers, verification tokens, and the reporter that turns a token   *)
(* into a report and a token of the next state.                            *)
(*                                                                         *)
(* A handler reports several times.  The context of a handler is a record: *)
(* `tm' holds what it has sent so far, `room' how many more packets the    *)
(* telemetry sender takes, `token' the token that the last report          *)
(* returned, `result' whether the last report was sent ("ok"), was not     *)
(* ("err"), or the handler has panicked, and `full' whether the sender has *)
(* refused a packet.                                                       *)
(***************************************************************************)
EXTENDS Integers, Sequences

CONSTANTS
    VersionBits,    \* widths of the parts of a request ID: 3, 13 and 16
    PacketIdBits,   \* in the code
    PscBits

ASSUME VerificationAssumption ==
    {VersionBits, PacketIdBits, PscBits} \subseteq Nat \ {0}

\* What is used of powers of two.
ASSUME VerificationPowers ==
    /\ {2^VersionBits, 2^PacketIdBits, 2^PscBits} \subseteq Nat \ {0}
    /\ 2^(PacketIdBits + PscBits) = 2^PacketIdBits * 2^PscBits

RequestIds ==
    [version : 0..(2^VersionBits - 1), packet_id : 0..(2^PacketIdBits - 1),
     psc : 0..(2^PscBits - 1)]

\* The request ID of a telecommand is taken from its space packet header.
RequestIdNew(tc) ==
    [version |-> tc.version, packet_id |-> tc.packet_id, psc |-> tc.psc]

RequestIdRaw(id) ==
    (id.version * 2^PacketIdBits + id.packet_id) * 2^PscBits + id.psc

RequestIdFrom(raw) ==
    [version |-> (raw \div 2^(PacketIdBits + PscBits)) % 2^VersionBits,
     packet_id |-> (raw \div 2^PscBits) % 2^PacketIdBits,
     psc |-> raw % 2^PscBits]

RawIds == {RequestIdRaw(id) : id \in RequestIds}

Token(state, id) == [state |-> state, request_id |-> id]

\* What VerificationToken::try_from(TcStateToken) accepts.
TokenIs(token, state) == token.state = state

AddTc(tc) == Token("None", RequestIdNew(tc))
-----------------------------------------------------------------------------
Subservices == {"AcceptanceSuccess", "AcceptanceFailure", "StartSuccess",
                "StartFailure", "StepSuccess", "StepFailure",
                "CompletionSuccess", "CompletionFailure"}

RequestIdLen == 4

FailCodeLen == 2

StepLen == 2

\* The source data buffer of a reporter: the ID, a step of one byte, a failure
\* code of two bytes and failure data of eight bytes, see
\* create_verification_reporter of the example.
SourceDataBufLen == RequestIdLen + 1 + 2 + 8

SourceBufferLargeEnough(len) == len <= SourceDataBufLen

SuccessLen(step) == RequestIdLen + step

FailLen(step, fail_data) == RequestIdLen + FailCodeLen + step + fail_data

VerifTm(subservice, token) ==
    [subservice |-> subservice, request_id |-> token.request_id]

NewContext(room) ==
    [tm |-> << >>, room |-> room, token |-> [state |-> "None"],
     result |-> "ok", full |-> FALSE]

\* Any telemetry packet of the handler.
SendTm(c, tm) ==
    CASE c.result = "panic" -> c
      [] c.result # "panic" /\ c.room = 0 ->
            [c EXCEPT !.result = "err", !.full = TRUE]
      [] OTHER -> [c EXCEPT !.tm = Append(@, tm), !.room = @ - 1, !.result = "ok"]

\* What the report creator hands to the reporter: the packet, the length of its
\* source data, and the token that the caller gets.
Report(subservice, len, token, next) ==
    [tm |-> VerifTm(subservice, token), len |-> len,
     token |-> Token(next, token.request_id)]

SuccessReport(subservice, step, token, next) ==
    Report(subservice, SuccessLen(step), token, next)

FailureReport(subservice, step, fail_data, token) ==
    Report(subservice, FailLen(step, fail_data), token, "Completed")

SuccessNoStep(subservice, token, next) == SuccessReport(subservice, 0, token, next)

FailureNoStep(subservice, fail_data, token) ==
    FailureReport(subservice, 0, fail_data, token)

AcceptanceSuccessReport(token) == SuccessNoStep("AcceptanceSuccess", token, "Accepted")

AcceptanceFailureReport(token, fail_data) ==
    FailureNoStep("AcceptanceFailure", fail_data, token)

StartSuccessReport(token) == SuccessNoStep("StartSuccess", token, "Started")

StartFailureReport(token, fail_data) == FailureNoStep("StartFailure", fail_data, token)

StepSuccessReport(token) == SuccessReport("StepSuccess", StepLen, token, "Started")

StepFailureReport(token, fail_data) ==
    FailureReport("StepFailure", StepLen, fail_data, token)

CompletionSuccessReport(token) ==
    SuccessNoStep("CompletionSuccess", token, "Completed")

CompletionFailureReport(token, fail_data) ==
    FailureNoStep("CompletionFailure", fail_data, token)
-----------------------------------------------------------------------------
\* The reporter creates a report and sends it.  Either step may fail; the
\* caller then gets no new token.
SendReport(c, report) ==
    LET sent == SendTm(c, report.tm)
    IN  CASE c.result = "panic" -> c
          [] c.result # "panic" /\ ~ SourceBufferLargeEnough(report.len) ->
                [c EXCEPT !.result = "err"]
          [] OTHER ->
                IF sent.result = "ok" THEN [sent EXCEPT !.token = report.token] ELSE sent

\* expect() and unwrap().
Expect(c) == IF c.result = "err" THEN [c EXCEPT !.result = "panic"] ELSE c

AcceptanceSuccess(c, token) == SendReport(c, AcceptanceSuccessReport(token))

AcceptanceFailure(c, token, fail_data) ==
    SendReport(c, AcceptanceFailureReport(token, fail_data))

StartSuccess(c, token) == SendReport(c, StartSuccessReport(token))

StartFailure(c, token, fail_data) ==
    SendReport(c, StartFailureReport(token, fail_data))

StepSuccess(c, token) == SendReport(c, StepSuccessReport(token))

StepFailure(c, token, fail_data) ==
    SendReport(c, StepFailureReport(token, fail_data))

CompletionSuccess(c, token) == SendReport(c, CompletionSuccessReport(token))

CompletionFailure(c, token, fail_data) ==
    SendReport(c, CompletionFailureReport(token, fail_data))
-----------------------------------------------------------------------------
\* The length of the error parameters of a reply.  Parameters in a store are
\* not propagated.
ParamsLen(params) ==
    IF params.kind \in {"Heapless", "Vec", "String"} THEN params.len ELSE 0

HandleCompletionFailureWithGenericParams(c, token, params) ==
    CompletionFailure(c, token, ParamsLen(params))

HandleStepFailureWithGenericParams(c, token, params) ==
    StepFailure(c, token, ParamsLen(params))
=============================================================================
