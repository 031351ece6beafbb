------------------------------ MODULE CfdpDest ------------------------------
(***************************************************************************)
(* The CFDP destination handler (DestinationHandler of                     *)
(* satrs/src/cfdp/dest.rs) with the fault handler, the check timer and the *)
(* remote configuration of satrs/src/cfdp/mod.rs, behind a link that       *)
(* loses, repeats and reorders the PDUs of several transactions.           *)
(*                                                                         *)
(* A call of state_machine is one step.  The functions it calls are        *)
(* operators on the handler, a record of the fields of DestinationHandler, *)
(* TransactionParams and TransferState together with the file store.  A    *)
(* call leaves in `result' how it ended and in `ind', `faults', `report'   *)
(* and `sent' what it told the user and the remote entity.                 *)
(***************************************************************************)
EXTENDS CfdpFilestore

CONSTANTS
    Txs,            \* the transactions of the sending entities
    NoTx,           \* no transaction
    Names,          \* the file names that a Metadata PDU carries
    NoName,         \* the empty name
    Join(_, _),     \* the path of a file of this name in this directory
    FileName(_),    \* the last part of a name, or NoName if it has none
    Utf8Names,      \* the names that are valid UTF-8
    Configs,        \* the configurations of the entities, see below
    InitFiles,      \* what the file store holds at the start
    MaxPackets,     \* bound: the PDUs that arrive in a behaviour
    MaxFailures     \* bound: the operations that the environment fails

ASSUME CfdpAssumption ==
    /\ NoTx \notin Txs
    /\ NoName \in Names
    /\ InitFiles \in Filestore

States == {"Idle", "Busy", "Suspended"}

Steps == {"Idle", "TransactionStart", "ReceivingFileDataPdus",
          "ReceivingFileDataPdusWithCheckLimitHandling", "SendingAckPdu",
          "TransferCompletion", "SendingFinishedPdu"}

\* The condition codes that the fault handler has an entry for.
FaultCodes == {"PositiveAckLimitReached", "KeepAliveLimitReached",
               "InvalidTransmissionMode", "FilestoreRejection",
               "FileChecksumFailure", "FileSizeError", "NakLimitReached",
               "InactivityDetected", "CheckLimitReached",
               "UnsupportedChecksumType"}

ConditionCodes == FaultCodes \cup {"NoError"}

FaultHandlerCodes == {"NoticeOfCancellation", "NoticeOfSuspension",
                      "IgnoreError", "AbandonTransaction"}

\* The fault handlers of DefaultFaultHandler::new.
DefaultHandlers ==
    [code \in FaultCodes |->
        IF code \in {"FileChecksumFailure", "UnsupportedChecksumType"}
        THEN "IgnoreError" ELSE "NoticeOfCancellation"]

SetFaultHandler(handlers, code, handler) ==
    [handlers EXCEPT ![code] = handler]

TransmissionModes == {"Acknowledged", "Unacknowledged"}

Transfer ==
    [src : Names, dest : Names, mode : TransmissionModes, closure : BOOLEAN,
     cksum_type : ChecksumTypes, msg_to_user : BOOLEAN, file : Content]

\* What the entities are configured with, what the senders send, and the
\* transactions whose sender has a remote configuration.
Config ==
    [handlers : [FaultCodes -> FaultHandlerCodes], check_limit : Nat,
     disposition_on_cancellation : BOOLEAN, transfers : [Txs -> Transfer],
     known : SUBSET Txs]

ASSUME ConfigsAssumption == Configs \subseteq Config

\* What the environment fails in a call: nothing, or one operation.
Failures == {"none", "create", "write", "partial_write", "verify", "remove",
             "send"}

NoReport == [tx |-> NoTx]

Reports ==
    [tx : Txs \cup {NoTx}, condition : ConditionCodes,
     delivery : {"Complete", "Incomplete"},
     status : {"Unreported", "Retained", "DiscardDeliberately"}]

VARIABLES
    cfg,            \* the configuration
    d,              \* the destination handler
    log,            \* history: what the current transaction has received
    packets,        \* number of PDUs that have arrived
    failures        \* number of operations that have failed

vars == <<cfg, d, log, packets, failures>>

\* The fields after `timer' hold what the last call did.
Handler ==
    [state : States, step : Steps, files : Filestore,
     tx : Txs \cup {NoTx}, mode : TransmissionModes,
     src : Names, dest : Names, path : Paths \cup Names,
     closure : BOOLEAN, cksum_type : ChecksumTypes,
     tid : Txs \cup {NoTx}, progress : Nat, metadata_only : BOOLEAN,
     condition : ConditionCodes, delivery : {"Complete", "Incomplete"},
     status : {"Unreported", "Retained", "DiscardDeliberately"},
     disposition : {"Completed", "Cancelled"},
     checksum : [type : ChecksumTypes, value : Content],
     check_count : Nat, timer : {"none", "running", "expired"},
     result : {"ok", "err", "panic"},
     ind : SUBSET {"metadata_recvd", "file_segment_recvd", "eof_recvd",
                   "transaction_finished"},
     faults : SUBSET FaultCodes,
     report : Reports \cup {NoReport}, sent : Reports \cup {NoReport}]

NewHandler ==
    [state |-> "Idle", step |-> "Idle", files |-> InitFiles,
     tx |-> NoTx, mode |-> "Acknowledged",
     src |-> NoName, dest |-> NoName, path |-> NoName,
     closure |-> FALSE, cksum_type |-> "Null",
     tid |-> NoTx, progress |-> 0, metadata_only |-> FALSE,
     condition |-> "NoError", delivery |-> "Incomplete",
     status |-> "Unreported", disposition |-> "Completed",
     checksum |-> Checksum("Null", << >>), check_count |-> 0, timer |-> "none",
     result |-> "ok", ind |-> {}, faults |-> {},
     report |-> NoReport, sent |-> NoReport]

Fail(x) == [x EXCEPT !.result = "err"]

\* todo!() and the other panics of a call.
Panic(x) == [x EXCEPT !.result = "panic"]
-----------------------------------------------------------------------------
(* The PDUs *)

MetadataPdu(tx) == [kind |-> "Metadata", tx |-> tx]

FileDataPdus(tx) ==
    LET file == cfg.transfers[tx].file
    IN  {[kind |-> "FileData", tx |-> tx, offset |-> i - 1, data |-> <<file[i]>>] :
            i \in DOMAIN file}

EofPdu(tx, condition) ==
    LET t == cfg.transfers[tx]
    IN  [kind |-> "Eof", tx |-> tx, condition |-> condition,
         file_size |-> Len(t.file), checksum |-> Checksum(t.cksum_type, t.file)]

AckPdu(directive) == [kind |-> "Ack", acked |-> directive]

OtherPdu(kind) == [kind |-> kind]

Pdus ==
    (UNION {FileDataPdus(tx) : tx \in Txs})
        \cup {MetadataPdu(tx) : tx \in Txs}
        \cup {EofPdu(tx, "NoError") : tx \in Txs}
        \cup {EofPdu(tx, "FilestoreRejection") : tx \in Txs}
        \cup {AckPdu("Eof"), AckPdu("Finished")}
        \cup {OtherPdu(kind) : kind \in {"Nak", "Finished", "KeepAlive", "Prompt"}}

\* The entity that PacketInfo::new routes a PDU to.
Target(p) ==
    IF p.kind \in {"Nak", "Finished", "KeepAlive"} \/ p = AckPdu("Eof")
    THEN "SourceEntity" ELSE "DestEntity"
-----------------------------------------------------------------------------
(* Faults and the end of a transaction *)

ResetParams(x) ==
    [x EXCEPT !.condition = "NoError", !.delivery = "Incomplete",
              !.status = "Unreported"]

Reset(x) == [ResetParams(x) EXCEPT !.step = "Idle", !.state = "Idle"]

NoticeOfCancellation(x, code) ==
    [x EXCEPT !.step = "TransferCompletion", !.condition = code,
              !.disposition = "Cancelled"]

\* A suspension is not implemented: it is reported and nothing else.
DeclareFault(x, code) ==
    LET handled == CASE cfg.handlers[code] = "NoticeOfCancellation" ->
                            NoticeOfCancellation(x, code)
                     [] cfg.handlers[code] = "AbandonTransaction" -> Reset(x)
                     [] OTHER -> x
    IN  [handled EXCEPT !.faults = @ \cup {code}]

Ignored(code) == cfg.handlers[code] = "IgnoreError"

Report(x) ==
    [tx |-> x.tid, condition |-> x.condition, delivery |-> x.delivery,
     status |-> x.status]

\* Removes the file and does not say so.
NoticeOfCompletion_KeepsStatus(x, failure) ==
    LET discard == x.disposition = "Cancelled" /\ cfg.disposition_on_cancellation
        y == IF discard THEN [x EXCEPT !.files = RemoveFile(x.files, x.path)] ELSE x
    IN  IF discard /\ ~ CanRemove(x.files, x.path)
        THEN Fail(x)
        ELSE [y EXCEPT !.ind = @ \cup {"transaction_finished"},
                       !.report = Report(y)]

\* Tells the user nothing of a transaction that was cancelled.
NoticeOfCompletion_SilentCancel(x, failure) ==
    IF x.disposition = "Cancelled" THEN x
    ELSE [x EXCEPT !.ind = @ \cup {"transaction_finished"}, !.report = Report(x)]

NoticeOfCompletion(x, failure) ==
    LET discard == /\ x.disposition = "Cancelled"
                   /\ cfg.disposition_on_cancellation
                   /\ x.delivery = "Incomplete"
        y == IF discard
             THEN [x EXCEPT !.files = RemoveFile(x.files, x.path),
                            !.status = "DiscardDeliberately"]
             ELSE x
    IN  IF discard /\ (failure = "remove" \/ ~ CanRemove(x.files, x.path))
        THEN Fail(x)
        ELSE [y EXCEPT !.ind = @ \cup {"transaction_finished"},
                       !.report = Report(y)]

\* The Finished PDU reports an unsupported checksum as no error.
FinishedPdu(x) ==
    [Report(x) EXCEPT !.condition =
        IF x.condition = "UnsupportedChecksumType" THEN "NoError" ELSE @]

TransferCompletion(x, failure) ==
    LET y == NoticeOfCompletion(x, failure)
    IN  IF y.result # "ok" THEN y
        ELSE IF y.mode = "Unacknowledged" /\ ~ y.closure THEN Reset(y)
        ELSE IF failure = "send" THEN Fail(y)
        ELSE [y EXCEPT !.sent = FinishedPdu(y), !.step = "SendingFinishedPdu"]
-----------------------------------------------------------------------------
(* The checksum and the check limit *)

\* `complete' is what checksum_verify returns, `after' the handler it leaves.
ChecksumVerify(x, failure) ==
    IF x.cksum_type = "Null" \/ x.metadata_only
    THEN [complete |-> TRUE,
          after |-> [x EXCEPT !.delivery = "Complete", !.condition = "NoError"]]
    ELSE IF ~ Implemented(x.cksum_type)
    THEN [complete |-> TRUE, after |-> DeclareFault(x, "UnsupportedChecksumType")]
    ELSE IF failure = "verify" \/ ~ CanVerify(x.files, x.path)
    THEN [complete |-> FALSE, after |-> DeclareFault(x, "FilestoreRejection")]
    ELSE [complete |-> ChecksumMatches(x.files, x.path, x.cksum_type, x.checksum),
          after |-> x]

FileTransferCompleteTransition(x) ==
    [x EXCEPT !.step = IF x.mode = "Unacknowledged" THEN "TransferCompletion"
                       ELSE "SendingAckPdu"]

StartCheckLimitHandling(x) ==
    [x EXCEPT !.step = "ReceivingFileDataPdusWithCheckLimitHandling",
              !.timer = "running", !.check_count = 0]

\* The expirations of the timer are not counted.
CheckLimitHandling_NoCount(x, failure) ==
    LET verify == ChecksumVerify(x, failure)
        y == verify.after
    IN  IF x.timer # "expired" THEN x
        ELSE IF verify.complete THEN FileTransferCompleteTransition(y)
        ELSE IF y.check_count + 1 >= cfg.check_limit
        THEN DeclareFault(y, "CheckLimitReached")
        ELSE [y EXCEPT !.timer = "running"]

CheckLimitHandling(x, failure) ==
    LET verify == ChecksumVerify(x, failure)
        y == verify.after
    IN  IF x.timer # "expired" THEN x
        ELSE IF verify.complete THEN FileTransferCompleteTransition(y)
        ELSE IF y.check_count + 1 >= cfg.check_limit
        THEN DeclareFault(y, "CheckLimitReached")
        ELSE [y EXCEPT !.check_count = @ + 1, !.timer = "running"]
-----------------------------------------------------------------------------
(* insert_packet *)

\* metadata_only stays set once it is, and then hides the names of the PDU.
\* A message to the user is copied into a buffer of another length, which
\* panics.
HandleMetadataPdu(x, p) ==
    LET t == cfg.transfers[p.tx]
        y == [ResetParams(x) EXCEPT !.cksum_type = t.cksum_type,
                                    !.closure = t.closure]
        z == [y EXCEPT !.metadata_only = @ \/ (t.src = NoName /\ t.dest = NoName)]
        named == IF z.metadata_only THEN z
                 ELSE [z EXCEPT !.src = t.src, !.dest = t.dest,
                                !.tx = p.tx, !.mode = t.mode]
    IN  IF x.state # "Idle" THEN Fail(x)
        ELSE IF p.tx \notin cfg.known THEN Fail(y)
        ELSE IF ~ z.metadata_only /\ NoName \in {t.src, t.dest} THEN Fail(z)
        ELSE IF t.msg_to_user THEN Panic(named)
        ELSE [named EXCEPT !.state = "Busy", !.step = "TransactionStart"]

ReceivesData(x) ==
    /\ x.state # "Idle"
    /\ x.step \in {"ReceivingFileDataPdus",
                   "ReceivingFileDataPdusWithCheckLimitHandling"}

\* The transaction of the PDU is not compared with the current one.
HandleFileData(x, p, failure) ==
    LET y == [x EXCEPT !.ind = @ \cup {"file_segment_recvd"}]
        written == [y EXCEPT !.files = WriteData(@, x.path, p.offset, p.data)]
    IN  IF ~ ReceivesData(x) THEN Fail(x)
        ELSE IF failure = "write" \/ ~ CanWrite(x.files, x.path)
        THEN Fail(DeclareFault(y, "FilestoreRejection"))
        ELSE IF failure = "partial_write"
        THEN Fail(DeclareFault(written, "FilestoreRejection"))
        ELSE [written EXCEPT !.progress = @ + Len(p.data)]

\* A file that has its size is taken for complete.
HandleNoErrorEofPdu_SizeOnly(x, p, failure) ==
    LET y == [x EXCEPT !.checksum = p.checksum]
        failed == DeclareFault(y, "FileChecksumFailure")
    IN  IF x.progress = p.file_size THEN FileTransferCompleteTransition(y)
        ELSE IF ~ Ignored("FileChecksumFailure") THEN failed
        ELSE StartCheckLimitHandling(failed)

\* A complete file is taken for one that is too long.
HandleNoErrorEofPdu_OffByOne(x, p, failure) ==
    LET y == [x EXCEPT !.checksum = p.checksum]
    IN  IF x.progress >= p.file_size THEN DeclareFault(x, "FileSizeError")
        ELSE StartCheckLimitHandling(DeclareFault(y, "FileChecksumFailure"))

HandleNoErrorEofPdu(x, p, failure) ==
    LET too_long == x.progress > p.file_size
        sized == IF too_long THEN DeclareFault(x, "FileSizeError") ELSE x
        y == [sized EXCEPT !.checksum = p.checksum]
        verify == ChecksumVerify(y, failure)
        failed == DeclareFault(verify.after, "FileChecksumFailure")
    IN  IF too_long /\ ~ Ignored("FileSizeError") THEN sized
        ELSE IF y.mode = "Acknowledged" THEN FileTransferCompleteTransition(y)
        ELSE IF verify.complete THEN FileTransferCompleteTransition(verify.after)
        ELSE IF ~ Ignored("FileChecksumFailure") THEN failed
        ELSE StartCheckLimitHandling(failed)

HandleEofPdu(x, p, failure) ==
    LET y == [x EXCEPT !.ind = @ \cup {"eof_recvd"}]
    IN  IF x.state = "Idle" \/ x.step # "ReceivingFileDataPdus" THEN Fail(x)
        ELSE IF p.condition # "NoError" THEN Panic(y)
        ELSE HandleNoErrorEofPdu(y, p, failure)

InsertPacket(x, p, failure) ==
    CASE Target(p) # "DestEntity" -> Fail(x)
      [] p.kind \in {"Ack", "Prompt"} -> Panic(x)
      [] p.kind = "Metadata" -> HandleMetadataPdu(x, p)
      [] p.kind = "Eof" -> HandleEofPdu(x, p, failure)
      [] p.kind = "FileData" -> HandleFileData(x, p, failure)
      [] OTHER -> Fail(x)
-----------------------------------------------------------------------------
(* The steps of a busy handler *)

\* A name without a last part is joined to the directory all the same.
TransactionStart_NoNameCheck(x, failure) ==
    LET nested == Exists(x.files, x.dest) /\ IsDir(x.files, x.dest)
        target == IF nested THEN Join(x.dest, FileName(x.src)) ELSE x.dest
        placed == [x EXCEPT !.path = target, !.tid = x.tx,
                            !.ind = @ \cup {"metadata_recvd"}]
    IN  IF {x.dest, x.src} \subseteq Utf8Names /\ CanCreate(x.files, target)
        THEN [placed EXCEPT !.files = CreateFile(x.files, target),
                            !.status = "Retained",
                            !.step = "ReceivingFileDataPdus"]
        ELSE Fail(placed)

TransactionStart(x, failure) ==
    LET named == [x EXCEPT !.path = x.dest]
        opened == [named EXCEPT !.tid = x.tx, !.ind = @ \cup {"metadata_recvd"}]
        nested == Exists(x.files, x.dest) /\ IsDir(x.files, x.dest)
        target == IF nested THEN Join(x.dest, FileName(x.src)) ELSE x.dest
        placed == [opened EXCEPT !.path = target]
    IN  IF x.dest \notin Utf8Names THEN Fail(x)
        ELSE IF x.src \notin Utf8Names THEN Fail(named)
        ELSE IF nested /\ FileName(x.src) = NoName THEN Fail(opened)
        ELSE IF failure = "create" THEN Fail(placed)
        ELSE IF CanTruncate(x.files, target) \/ CanCreate(x.files, target)
        THEN [placed EXCEPT !.files = IF Exists(x.files, target)
                                      THEN TruncateFile(x.files, target)
                                      ELSE CreateFile(x.files, target),
                            !.status = "Retained",
                            !.step = "ReceivingFileDataPdus"]
        ELSE Fail(placed)

FsmBusy(x, failure) ==
    LET started == IF x.step = "TransactionStart"
                   THEN TransactionStart(x, failure) ELSE x
        checked == IF started.step = "ReceivingFileDataPdusWithCheckLimitHandling"
                   THEN CheckLimitHandling(started, failure) ELSE started
        completed == IF checked.step = "TransferCompletion"
                     THEN TransferCompletion(checked, failure) ELSE checked
    IN  IF started.result # "ok" THEN started
        ELSE IF completed.result # "ok" THEN completed
        ELSE IF completed.step = "SendingAckPdu" THEN Panic(completed)
        ELSE IF completed.step = "SendingFinishedPdu" THEN Reset(completed)
        ELSE completed

NewCall(x) ==
    [x EXCEPT !.result = "ok", !.ind = {}, !.faults = {},
              !.report = NoReport, !.sent = NoReport]

\* The rest of state_machine once the packet, if there is one, is inserted.
Drive(x, failure) ==
    IF x.result # "ok" THEN x
    ELSE IF x.state = "Busy" THEN FsmBusy(x, failure)
    ELSE Panic(x)
-----------------------------------------------------------------------------
NewLog(tx, progress) ==
    [tx |-> tx, offsets |-> {}, repeated |-> FALSE, mixed |-> FALSE,
     prior |-> progress, reports |-> 0, send_failures |-> 0]

Init ==
    /\ cfg \in Configs
    /\ d = NewHandler
    /\ log = NewLog(NoTx, 0)
    /\ packets = 0
    /\ failures = 0

\* What a call adds to the history of a transaction: the segments written and
\* whether one of them came again, whether a PDU of another transaction was
\* taken, and how often the user was told that the transaction is over.
LogReports(l, x) ==
    LET told == "transaction_finished" \in x.ind
    IN  [l EXCEPT !.reports = IF told THEN @ + 1 ELSE @,
                  !.send_failures = IF told /\ x.result = "err" THEN @ + 1 ELSE @]

LogPacket(x, p) ==
    LET segment == "file_segment_recvd" \in x.ind
        l == IF d.state = "Idle" /\ x.state = "Busy"
             THEN NewLog(p.tx, d.progress) ELSE log
    IN  [l EXCEPT
            !.offsets = IF segment THEN @ \cup {p.offset} ELSE @,
            !.repeated = @ \/ (segment /\ p.offset \in l.offsets),
            !.mixed = @ \/ ((segment \/ "eof_recvd" \in x.ind) /\ p.tx # l.tx)]

Failing(failure) ==
    /\ failure # "none" => failures < MaxFailures
    /\ failures' = IF failure = "none" THEN failures ELSE failures + 1

\* state_machine with a packet.
Receive(p, failure) ==
    /\ d.result # "panic"
    /\ packets < MaxPackets
    /\ packets' = packets + 1
    /\ Failing(failure)
    /\ \E x \in {Drive(InsertPacket(NewCall(d), p, failure), failure)} :
          /\ d' = x
          /\ log' = LogReports(LogPacket(x, p), x)
    /\ UNCHANGED cfg

\* state_machine without a packet.
Call(failure) ==
    /\ d.result # "panic"
    /\ Failing(failure)
    /\ \E x \in {Drive(NewCall(d), failure)} : d' = x /\ log' = LogReports(log, x)
    /\ UNCHANGED <<cfg, packets>>

\* The period of the check timer passes.
Expire ==
    /\ d.timer = "running"
    /\ d' = [NewCall(d) EXCEPT !.timer = "expired", !.result = d.result]
    /\ UNCHANGED <<cfg, log, packets, failures>>

Next ==
    \/ \E p \in Pdus, failure \in Failures : Receive(p, failure)
    \/ \E failure \in Failures : Call(failure)
    \/ Expire

Spec == Init /\ [][Next]_vars

\* The retry of a completion that has already removed the file fails for ever.
RemovedBefore ==
    /\ d.disposition = "Cancelled" /\ cfg.disposition_on_cancellation
    /\ d.delivery = "Incomplete" /\ d.status = "DiscardDeliberately"

\* A call has something to do: a transfer is to be completed, or the check
\* timer has expired.
Due ==
    /\ d.state = "Busy" /\ d.result # "panic"
    /\ \/ d.step = "TransferCompletion" /\ ~ RemovedBefore
       \/ /\ d.step = "ReceivingFileDataPdusWithCheckLimitHandling"
          /\ d.timer = "expired"

\* A handler that has something to do is called in the end (weak fairness of
\* Call with its enabling condition written out), and the check timer runs.
Fairness ==
    /\ []<>~Due \/ []<><<Call("none")>>_vars
    /\ WF_vars(Expire)

FairSpec == Spec /\ Fairness
-----------------------------------------------------------------------------
\* The fields of DestinationHandler keep their types through every call of
\* state_machine, also one that an error of the store ends half-way.
TypeOK ==
    /\ cfg \in Configs
    /\ d \in Handler
    /\ log \in [tx : Txs \cup {NoTx}, offsets : SUBSET Nat, repeated : BOOLEAN,
                mixed : BOOLEAN, prior : Nat, reports : Nat, send_failures : Nat]
    /\ packets \in 0..MaxPackets
    /\ failures \in 0..MaxFailures

\* A transaction that is reported without an error and as retained, and that
\* was checked with a CRC, has left the sender's file in the store, however
\* its PDUs were lost, repeated or reordered, as long as no PDU of another
\* transaction was taken for one of its own.
IntactFile ==
    (/\ "transaction_finished" \in d.ind
     /\ d.report.condition = "NoError" /\ d.report.status = "Retained"
     /\ d.cksum_type = "Crc32" /\ ~ d.metadata_only /\ ~ log.mixed)
        => d.files[d.path] = cfg.transfers[d.report.tx].file

\* A file size error is declared only if a segment came twice, a PDU of
\* another transaction was taken, or an earlier transaction left its progress
\* behind (TransactionParams::reset keeps it): loss and reordering alone never
\* raise one.
SizeErrorHasCause ==
    "FileSizeError" \in d.faults =>
        log.repeated \/ log.mixed \/ log.prior > 0

\* When the user is told that the file is retained it is in the store under
\* the path of the transaction, and when it was discarded it is not.
StatusMatchesStore ==
    "transaction_finished" \in d.ind =>
        /\ d.report.status = "Retained" => IsFile(d.files, d.path)
        /\ d.report.status = "DiscardDeliberately" => ~ Exists(d.files, d.path)

\* A busy handler that becomes idle has told its user that the transaction is
\* over: once, and once more for each Finished PDU that could not be sent
\* (transfer_completion repeats the notice).  Only an abandoned transaction
\* may end silently.
ReportedOnce ==
    [][(d.state = "Busy" /\ d'.state = "Idle") =>
          \/ log'.reports = 1 + log'.send_failures
          \/ \E code \in d'.faults : cfg.handlers[code] = "AbandonTransaction"]_vars

\* Once the EOF PDU has started the check limit procedure, or the transfer is
\* to be completed, the handler becomes idle again, unless the check limit
\* fault is configured not to cancel the transaction, a removed file is to be
\* removed again, or the handler panics at one of its todo!s (a PDU of a kind
\* or with a condition code that is not handled yet).
TransferEnds ==
    (/\ d.state = "Busy"
     /\ d.step \in {"ReceivingFileDataPdusWithCheckLimitHandling",
                    "TransferCompletion"}
     /\ cfg.handlers["CheckLimitReached"] \in
            {"NoticeOfCancellation", "AbandonTransaction"})
        ~> (d.state = "Idle" \/ d.result = "panic" \/ RemovedBefore)
=============================================================================
