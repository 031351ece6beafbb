----------------------------- MODULE CfdpProofs -----------------------------
(***************************************************************************)
(* The CFDP destination handler, for every set of transactions, every file *)
(* store, every configuration of the entities and every sequence of PDUs   *)
(* and failures: what the user is told of a file is so in the store, a     *)
(* file that is reported without an error is the sender's, a file size     *)
(* error has a cause, and a transaction ends with one report.              *)
(*                                                                         *)
(* A call of state_machine is a composition of operators on the handler.   *)
(* Every operator has a lemma that says which fields it may change and     *)
(* how; the invariant is kept because of these, and the operators are not  *)
(* looked into again.                                                      *)
(***************************************************************************)
EXTENDS CfdpDest, FiniteSetTheorems, TLAPS

(* Most leaves need only first-order reasoning and go to Zenon; a leaf     *)
(* with arithmetic, or with functions and records that Zenon does not      *)
(* know, names SMT.  Both get more time than their default, for slower     *)
(* machines.                                                               *)
USE ZenonT(60)

-----------------------------------------------------------------------------
(* The handler                                                             *)

Fields ==
    {"state", "step", "files", "tx", "mode", "src", "dest", "path", "closure",
     "cksum_type", "tid", "progress", "metadata_only", "condition", "delivery",
     "status", "disposition", "checksum", "check_count", "timer", "result",
     "ind", "faults", "report", "sent"}

IsHandler(x) == DOMAIN x = Fields

\* What stays as it is once a transaction is under way.
Frame(x, y) ==
    /\ y.tx = x.tx /\ y.tid = x.tid /\ y.mode = x.mode /\ y.path = x.path
    /\ y.cksum_type = x.cksum_type /\ y.metadata_only = x.metadata_only
    /\ y.progress = x.progress /\ y.checksum = x.checksum

\* What the user and the remote entity have been told in the current call.
Told(x) == "transaction_finished" \in x.ind

\* A fault was declared that abandons the transaction.
Abandoned(x) == \E code \in x.faults : cfg.handlers[code] = "AbandonTransaction"

\* What declaring faults may have done: nothing, a cancellation, which names
\* its condition, or the end of the transaction.
Faulted(x, y) ==
    /\ IsHandler(y)
    /\ Frame(x, y)
    /\ y.files = x.files /\ y.ind = x.ind /\ y.result = x.result
    /\ y.report = x.report
    /\ x.faults \subseteq y.faults
    /\ \/ y.state = x.state /\ y.status = x.status
       \/ y.state = "Idle" /\ y.status = "Unreported" /\ Abandoned(y)
    /\ y.step \in {x.step, "Idle", "TransferCompletion"}
    /\ y.step = "TransferCompletion" =>
          \/ y.condition # "NoError"
          \/ x.step = "TransferCompletion" /\ y.condition = x.condition

\* declare_fault does one of the three, whatever the user's handler is.
LEMMA DeclareFaultIs ==
    ASSUME NEW x, IsHandler(x), NEW code \in FaultCodes, NEW y, y = DeclareFault(x, code)
    PROVE  Faulted(x, y) /\ y.faults = x.faults \cup {code}
<1>1. code # "NoError"
  BY DEF FaultCodes
<1>2. CASE cfg.handlers[code] = "NoticeOfCancellation"
  <2>1. y = [NoticeOfCancellation(x, code) EXCEPT !.faults = @ \cup {code}]
    BY <1>2 DEF DeclareFault
  <2>2. /\ IsHandler(y) /\ Frame(x, y) /\ y.faults = x.faults \cup {code}
        /\ y.files = x.files /\ y.ind = x.ind /\ y.result = x.result /\ y.report = x.report
        /\ y.state = x.state /\ y.status = x.status /\ y.step = "TransferCompletion"
        /\ y.condition = code
    BY <2>1 DEF IsHandler, Fields, Frame, NoticeOfCancellation
  <2> QED
    BY <1>1, <2>2 DEF Faulted
<1>3. CASE cfg.handlers[code] = "AbandonTransaction"
  <2>1. y = [Reset(x) EXCEPT !.faults = @ \cup {code}]
    BY <1>3 DEF DeclareFault
  <2>2. /\ IsHandler(y) /\ Frame(x, y) /\ y.faults = x.faults \cup {code}
        /\ y.files = x.files /\ y.ind = x.ind /\ y.result = x.result /\ y.report = x.report
        /\ y.state = "Idle" /\ y.step = "Idle" /\ y.status = "Unreported"
    BY <2>1 DEF IsHandler, Fields, Frame, Reset, ResetParams
  <2>3. Abandoned(y)
    BY <1>3, <2>2 DEF Abandoned
  <2> QED
    BY <2>2, <2>3 DEF Faulted
<1>4. CASE cfg.handlers[code] \notin {"NoticeOfCancellation", "AbandonTransaction"}
  <2>1. y = [x EXCEPT !.faults = @ \cup {code}]
    BY <1>4 DEF DeclareFault
  <2>2. /\ IsHandler(y) /\ Frame(x, y) /\ y.faults = x.faults \cup {code}
        /\ y.files = x.files /\ y.ind = x.ind /\ y.result = x.result /\ y.report = x.report
        /\ y.state = x.state /\ y.step = x.step /\ y.status = x.status
        /\ y.condition = x.condition
    BY <2>1 DEF IsHandler, Fields, Frame
  <2> QED
    BY <2>2 DEF Faulted
<1> QED
  BY <1>2, <1>3, <1>4

\* A fault that is ignored leaves the transaction as it is.
LEMMA IgnoredFaultIs ==
    ASSUME NEW x, IsHandler(x), NEW code \in FaultCodes, NEW y, y = DeclareFault(x, code),
           Ignored(code)
    PROVE  y.state = x.state /\ y.step = x.step /\ y.status = x.status
<1>1. y = [x EXCEPT !.faults = @ \cup {code}]
  BY DEF DeclareFault, Ignored
<1> QED
  BY <1>1 DEF IsHandler, Fields

\* A later fault does not undo an abandonment.
LEMMA StaysAbandoned ==
    ASSUME NEW x, NEW y, x.faults \subseteq y.faults, Abandoned(x)
    PROVE  Abandoned(y)
BY DEF Abandoned

\* A handler without a new fault.
LEMMA FaultedNot ==
    ASSUME NEW x, IsHandler(x)
    PROVE  Faulted(x, x)
BY DEF Faulted, Frame

-----------------------------------------------------------------------------
(* checksum_verify                                                         *)

\* checksum_verify changes the transaction only by the faults it declares and
\* by noting that it is complete.  A CRC that it accepts is that of the file
\* in the store.
LEMMA ChecksumVerifyIs ==
    ASSUME NEW x, IsHandler(x), x.step # "TransferCompletion", NEW failure,
           NEW v, v = ChecksumVerify(x, failure)
    PROVE  /\ Faulted(x, v.after)
           /\ "FileSizeError" \in v.after.faults => "FileSizeError" \in x.faults
           /\ v.complete /\ x.cksum_type = "Crc32" /\ ~ x.metadata_only
                 => /\ v.after = x
                    /\ Checksum("Crc32", x.files[x.path]) = x.checksum
<1>1. CASE x.cksum_type = "Null" \/ x.metadata_only
  <2>1. v.after = [x EXCEPT !.delivery = "Complete", !.condition = "NoError"]
    BY <1>1 DEF ChecksumVerify
  <2> DEFINE y == v.after
  <2>2. /\ IsHandler(y) /\ Frame(x, y) /\ y.faults = x.faults
        /\ y.files = x.files /\ y.ind = x.ind /\ y.result = x.result /\ y.report = x.report
        /\ y.state = x.state /\ y.step = x.step /\ y.status = x.status
    BY <2>1 DEF IsHandler, Fields, Frame
  <2> HIDE DEF y
  <2>3. Faulted(x, y)
    BY <2>2 DEF Faulted
  <2> QED
    BY <1>1, <2>2, <2>3 DEF y
<1>2. CASE ~ (x.cksum_type = "Null" \/ x.metadata_only) /\ ~ Implemented(x.cksum_type)
  <2>1. v.after = DeclareFault(x, "UnsupportedChecksumType")
    BY <1>2 DEF ChecksumVerify
  <2>2. "UnsupportedChecksumType" \in FaultCodes
    BY DEF FaultCodes
  <2>3. Faulted(x, v.after) /\ v.after.faults = x.faults \cup {"UnsupportedChecksumType"}
    BY <2>1, <2>2, DeclareFaultIs
  <2> QED
    BY <1>2, <2>3 DEF Implemented
<1>3. CASE /\ ~ (x.cksum_type = "Null" \/ x.metadata_only) /\ Implemented(x.cksum_type)
           /\ failure = "verify" \/ ~ CanVerify(x.files, x.path)
  <2>1. /\ v.after = DeclareFault(x, "FilestoreRejection")
        /\ v.complete = FALSE
    BY <1>3 DEF ChecksumVerify
  <2>2. "FilestoreRejection" \in FaultCodes
    BY DEF FaultCodes
  <2>3. Faulted(x, v.after) /\ v.after.faults = x.faults \cup {"FilestoreRejection"}
    BY <2>1, <2>2, DeclareFaultIs
  <2> QED
    BY <2>1, <2>3
<1>4. CASE /\ ~ (x.cksum_type = "Null" \/ x.metadata_only) /\ Implemented(x.cksum_type)
           /\ ~ (failure = "verify" \/ ~ CanVerify(x.files, x.path))
  <2>1. /\ v.after = x
        /\ v.complete = ChecksumMatches(x.files, x.path, x.cksum_type, x.checksum)
    BY <1>4 DEF ChecksumVerify
  <2>2. Faulted(x, v.after)
    BY <2>1, FaultedNot
  <2>3. v.complete /\ x.cksum_type = "Crc32" => Checksum("Crc32", x.files[x.path]) = x.checksum
    BY <2>1 DEF ChecksumMatches
  <2> QED
    BY <2>1, <2>2, <2>3
<1> QED
  BY <1>1, <1>2, <1>3, <1>4

-----------------------------------------------------------------------------
(* The inductive invariant                                                 *)

\* The handler by itself: the status of the file is that of the store, a
\* transaction that has not been started has none, and one that has been is
\* reported under its own name.
Sound(x) ==
    /\ IsHandler(x)
    /\ x.files \in Filestore
    /\ x.state \in {"Idle", "Busy"}
    /\ x.progress \in Nat
    /\ x.status = "Retained" => IsFile(x.files, x.path)
    /\ x.status = "DiscardDeliberately" => ~ Exists(x.files, x.path)
    /\ x.step = "TransactionStart" => x.status = "Unreported"
    /\ x.state = "Busy" /\ x.step # "TransactionStart" => x.tid = x.tx

\* The file that the sender of the transaction of a history sends.
SentFile(l) == cfg.transfers[l.tx].file

\* The transaction under way is the one of the history, and every report of
\* it so far was followed by a Finished PDU that could not be sent.
Named(x, l) ==
    x.state = "Busy" =>
        /\ l.tx \in Txs
        /\ l.reports = l.send_failures
        /\ ~ x.metadata_only => x.tx = l.tx

\* The checksum that is waited for is the one of the sender's file.
Awaited(x, l) ==
    (/\ x.state = "Busy"
     /\ x.step = "ReceivingFileDataPdusWithCheckLimitHandling"
     /\ ~ l.mixed)
        => x.checksum = Checksum(cfg.transfers[l.tx].cksum_type, SentFile(l))

\* A transfer that is about to be completed has the sender's file.
Intact(x, l) ==
    (/\ x.step = "TransferCompletion" /\ x.condition = "NoError"
     /\ x.status = "Retained"
     /\ x.cksum_type = "Crc32" /\ ~ x.metadata_only /\ ~ l.mixed)
        => x.files[x.path] = cfg.transfers[x.tid].file

\* The progress counts segments of the file, none of them twice.
Counted(x, l) ==
    (x.state = "Busy" /\ ~ l.repeated /\ ~ l.mixed /\ l.prior = 0)
        => /\ l.offsets \subseteq 0..(Len(SentFile(l)) - 1)
           /\ x.progress <= Cardinality(l.offsets)

Tracked(x, l) == Named(x, l) /\ Awaited(x, l) /\ Intact(x, l) /\ Counted(x, l)

\* Faults that are declared once a transaction has started keep it.
LEMMA FaultedGood ==
    ASSUME NEW x, NEW y, NEW l, Sound(x), Tracked(x, l), x.step # "TransactionStart",
           Faulted(x, y)
    PROVE  /\ Sound(y) /\ Tracked(y, l)
           /\ y.step # "TransactionStart"
           /\ y.state = x.state \/ Abandoned(y)
<1>1. /\ y.state \in {x.state, "Idle"} /\ y.step # "TransactionStart"
      /\ y.state = x.state \/ Abandoned(y)
      /\ y.status \in {x.status, "Unreported"}
  BY DEF Faulted
<1>2. Sound(y)
  BY <1>1 DEF Sound, Faulted, Frame
<1>3. y.state = "Busy" => x.state = "Busy"
  BY <1>1
<1>4. Named(y, l)
  BY <1>3 DEF Tracked, Named, Faulted, Frame
<1>5. Awaited(y, l)
  BY <1>3 DEF Tracked, Awaited, Faulted, Frame
<1>6. Intact(y, l)
  BY <1>1 DEF Tracked, Intact, Faulted, Frame
<1>7. Counted(y, l)
  BY <1>3 DEF Tracked, Counted, Faulted, Frame
<1> QED
  BY <1>1, <1>2, <1>4, <1>5, <1>6, <1>7 DEF Tracked

\* Two files with the same CRC are the same.
LEMMA CrcIdentifies ==
    ASSUME NEW type, NEW a, NEW b, Checksum("Crc32", a) = Checksum(type, b)
    PROVE  a = b
<1>1. /\ Checksum("Crc32", a).type = "Crc32" /\ Checksum(type, b).type = type
      /\ Checksum("Crc32", a).value = a
  BY DEF Checksum
<1>2. Checksum("Crc32", b).value = b
  BY DEF Checksum
<1> QED
  BY <1>1, <1>2

\* The transition to the completion of a transfer whose CRC was accepted.
LEMMA TransitionGood ==
    ASSUME NEW x, NEW y, NEW l, Sound(x), Tracked(x, l), x.step # "TransactionStart",
           y = FileTransferCompleteTransition(x),
           x.cksum_type = "Crc32" /\ ~ x.metadata_only /\ x.status = "Retained" /\ ~ l.mixed
              /\ x.mode = "Unacknowledged" /\ x.condition = "NoError"
              => x.files[x.path] = cfg.transfers[x.tid].file
    PROVE  /\ Sound(y) /\ Tracked(y, l) /\ Frame(x, y)
           /\ y.step \in {"TransferCompletion", "SendingAckPdu"}
           /\ y.state = x.state /\ y.files = x.files /\ y.ind = x.ind
           /\ y.result = x.result /\ y.report = x.report /\ y.faults = x.faults
           /\ y.status = x.status
<1>1. /\ IsHandler(y) /\ Frame(x, y) /\ y.faults = x.faults
      /\ y.files = x.files /\ y.ind = x.ind /\ y.result = x.result /\ y.report = x.report
      /\ y.state = x.state /\ y.status = x.status /\ y.condition = x.condition
  BY DEF IsHandler, Fields, Frame, FileTransferCompleteTransition, Sound
<1>2. y.step = IF x.mode = "Unacknowledged" THEN "TransferCompletion" ELSE "SendingAckPdu"
  BY DEF IsHandler, Fields, FileTransferCompleteTransition, Sound
<1>3. Sound(y)
  BY <1>1, <1>2 DEF Sound, Frame
<1>4. Named(y, l) /\ Awaited(y, l) /\ Counted(y, l)
  BY <1>1, <1>2 DEF Tracked, Named, Awaited, Counted, Frame
<1>5. Intact(y, l)
  BY <1>1, <1>2 DEF Intact, Frame
<1> QED
  BY <1>1, <1>2, <1>3, <1>4, <1>5 DEF Tracked

-----------------------------------------------------------------------------
(* The steps of a busy handler                                             *)

\* A later part of a call adds no fault of the file's size.
SameSize(x, y) == "FileSizeError" \in y.faults => "FileSizeError" \in x.faults

\* check_limit_handling keeps the invariant, and a transaction that it ends
\* was abandoned.
LEMMA CheckLimitHandlingGood ==
    ASSUME NEW x, NEW z, NEW l, NEW failure, Sound(x), Tracked(x, l),
           x.state = "Busy", x.step = "ReceivingFileDataPdusWithCheckLimitHandling",
           z = CheckLimitHandling(x, failure)
    PROVE  /\ Sound(z) /\ Tracked(z, l) /\ SameSize(x, z)
           /\ z.step \notin {"TransactionStart", "SendingFinishedPdu"}
           /\ z.state = "Busy" \/ Abandoned(z)
           /\ z.ind = x.ind /\ z.result = x.result
<1> DEFINE v == ChecksumVerify(x, failure)
           y == v.after
<1>1. z = IF x.timer # "expired" THEN x
          ELSE IF v.complete THEN FileTransferCompleteTransition(y)
          ELSE IF y.check_count + 1 >= cfg.check_limit THEN DeclareFault(y, "CheckLimitReached")
          ELSE [y EXCEPT !.check_count = @ + 1, !.timer = "running"]
  BY DEF CheckLimitHandling
<1>2. /\ Faulted(x, y) /\ SameSize(x, y)
      /\ v.complete /\ x.cksum_type = "Crc32" /\ ~ x.metadata_only
            => /\ y = x
               /\ Checksum("Crc32", x.files[x.path]) = x.checksum
  BY ChecksumVerifyIs DEF SameSize, Sound
<1>3. /\ Sound(y) /\ Tracked(y, l) /\ y.step # "TransactionStart"
      /\ y.state = "Busy" \/ Abandoned(y)
  BY <1>2, FaultedGood
<1>4. /\ y.ind = x.ind /\ y.result = x.result /\ IsHandler(y) /\ Frame(x, y)
      /\ y.step # "SendingFinishedPdu"
  BY <1>2 DEF Faulted
<1> HIDE DEF v, y
<1>5. CASE x.timer # "expired"
  BY <1>1, <1>5 DEF SameSize
<1>6. CASE x.timer = "expired" /\ v.complete
  <2>1. z = FileTransferCompleteTransition(y)
    BY <1>1, <1>6
  <2>2. ASSUME y.cksum_type = "Crc32", ~ y.metadata_only, ~ l.mixed
        PROVE  y.files[y.path] = cfg.transfers[y.tid].file
    <3>1. y = x /\ Checksum("Crc32", x.files[x.path]) = x.checksum
      BY <1>2, <1>4, <1>6, <2>2 DEF Frame
    <3>2. x.checksum = Checksum(cfg.transfers[l.tx].cksum_type, SentFile(l))
      BY <2>2 DEF Tracked, Awaited
    <3>3. x.files[x.path] = SentFile(l)
      BY <3>1, <3>2, CrcIdentifies
    <3>4. x.tid = l.tx
      BY <2>2, <3>1 DEF Sound, Tracked, Named
    <3> QED
      BY <3>1, <3>3, <3>4 DEF SentFile
  <2>3. /\ Sound(z) /\ Tracked(z, l) /\ z.step \in {"TransferCompletion", "SendingAckPdu"}
        /\ z.state = y.state /\ z.ind = y.ind /\ z.result = y.result /\ z.faults = y.faults
    BY <1>3, <2>1, <2>2, TransitionGood
  <2> QED
    BY <1>2, <1>3, <1>4, <2>3, StaysAbandoned DEF SameSize
<1>7. CASE /\ x.timer = "expired" /\ ~ v.complete
           /\ y.check_count + 1 >= cfg.check_limit
  <2>1. z = DeclareFault(y, "CheckLimitReached")
    BY <1>1, <1>7
  <2>2. "CheckLimitReached" \in FaultCodes
    BY DEF FaultCodes
  <2>3. Faulted(y, z) /\ z.faults = y.faults \cup {"CheckLimitReached"}
    BY <1>4, <2>1, <2>2, DeclareFaultIs
  <2>4. /\ Sound(z) /\ Tracked(z, l) /\ z.step # "TransactionStart"
        /\ z.state = y.state \/ Abandoned(z)
    BY <1>3, <2>3, FaultedGood
  <2>5. Abandoned(y) => Abandoned(z)
    BY <2>3, StaysAbandoned
  <2> QED
    BY <1>2, <1>3, <1>4, <2>3, <2>4, <2>5 DEF SameSize, Faulted
<1>8. CASE /\ x.timer = "expired" /\ ~ v.complete
           /\ ~ (y.check_count + 1 >= cfg.check_limit)
  <2>1. z = [y EXCEPT !.check_count = @ + 1, !.timer = "running"]
    BY <1>1, <1>8
  <2>2. /\ IsHandler(z) /\ Frame(y, z) /\ z.faults = y.faults
        /\ z.files = y.files /\ z.ind = y.ind /\ z.result = y.result /\ z.report = y.report
        /\ z.state = y.state /\ z.status = y.status /\ z.condition = y.condition
        /\ z.step = y.step
    BY <1>4, <2>1 DEF IsHandler, Fields, Frame
  <2>3. Faulted(y, z)
    BY <2>2 DEF Faulted
  <2>4. Sound(z) /\ Tracked(z, l)
    BY <1>3, <2>3, FaultedGood
  <2>5. Abandoned(y) => Abandoned(z)
    BY <2>2, StaysAbandoned
  <2> QED
    BY <1>2, <1>3, <1>4, <2>2, <2>4, <2>5 DEF SameSize
<1> QED
  BY <1>5, <1>6, <1>7, <1>8

\* A file may be empty.
LEMMA EmptyIsContent == << >> \in Content
BY SMTT(60) DEF Content

\* The content of a file is told from no file and from a directory.
LEMMA ContentIsAFile ==
    ASSUME NEW c \in Content
    PROVE  c # NoFile /\ c # Dir
<1>1. \A w \in Word : w \in Nat
  BY SMTT(60), FilestoreAssumption DEF Word
<1>2. c \in Seq(Nat)
  BY SMTT(60), <1>1 DEF Content
<1> QED
  BY <1>2, FilestoreAssumption

\* transaction_start: the file that it leaves under the path of the
\* transaction is empty.
LEMMA TransactionStartGood ==
    ASSUME NEW x, NEW y, NEW l, NEW failure, Sound(x), Tracked(x, l),
           x.state = "Busy", x.step = "TransactionStart",
           y = TransactionStart(x, failure)
    PROVE  /\ Sound(y) /\ Tracked(y, l)
           /\ y.state = "Busy" /\ y.faults = x.faults
           /\ y.step \in {"TransactionStart", "ReceivingFileDataPdus"}
           /\ \A i \in {"file_segment_recvd", "eof_recvd", "transaction_finished"} :
                 i \in y.ind <=> i \in x.ind
           /\ y.result # "ok" \/ y.step = "ReceivingFileDataPdus"
<1> DEFINE nested == Exists(x.files, x.dest) /\ IsDir(x.files, x.dest)
           target == IF nested THEN Join(x.dest, FileName(x.src)) ELSE x.dest
           named == [x EXCEPT !.path = x.dest]
           opened == [named EXCEPT !.tid = x.tx, !.ind = @ \cup {"metadata_recvd"}]
           placed == [opened EXCEPT !.path = target]
           open == CanTruncate(x.files, target) \/ CanCreate(x.files, target)
           emptied == IF Exists(x.files, target) THEN TruncateFile(x.files, target)
                      ELSE CreateFile(x.files, target)
<1>1. y \in {Fail(x), Fail(named), Fail(opened), Fail(placed)} \/
      /\ open
      /\ y = [placed EXCEPT !.files = emptied, !.status = "Retained",
                            !.step = "ReceivingFileDataPdus"]
  BY DEF TransactionStart
<1>2. IsHandler(x)
  BY DEF Sound
<1>3. CASE y \in {Fail(x), Fail(named), Fail(opened), Fail(placed)}
  <2> DEFINE Left(z) ==
        /\ IsHandler(z) /\ z.state = x.state /\ z.step = x.step /\ z.files = x.files
        /\ z.tx = x.tx /\ z.mode = x.mode /\ z.cksum_type = x.cksum_type
        /\ z.metadata_only = x.metadata_only /\ z.progress = x.progress
        /\ z.checksum = x.checksum /\ z.status = x.status /\ z.faults = x.faults
        /\ z.condition = x.condition /\ z.result = "err"
        /\ z.ind \in {x.ind, x.ind \cup {"metadata_recvd"}}
  <2>a. Left(Fail(x))
    BY <1>2 DEF IsHandler, Fields, Fail
  <2>b. Left(Fail(named))
    BY <1>2 DEF IsHandler, Fields, Fail
  <2>c. Left(Fail(opened))
    BY <1>2 DEF IsHandler, Fields, Fail
  <2>d. Left(Fail(placed))
    BY <1>2 DEF IsHandler, Fields, Fail
  <2> HIDE DEF Left, named, opened, placed
  <2>e. Left(y)
    BY <1>3, <2>a, <2>b, <2>c, <2>d
  <2>1. /\ IsHandler(y) /\ y.state = x.state /\ y.step = x.step /\ y.files = x.files
        /\ y.tx = x.tx /\ y.mode = x.mode /\ y.cksum_type = x.cksum_type
        /\ y.metadata_only = x.metadata_only /\ y.progress = x.progress
        /\ y.checksum = x.checksum /\ y.status = x.status /\ y.faults = x.faults
        /\ y.condition = x.condition /\ y.result = "err"
        /\ y.ind \in {x.ind, x.ind \cup {"metadata_recvd"}}
    BY <2>e DEF Left
  <2> HIDE DEF nested, target, open, emptied
  <2>2. x.status = "Unreported"
    BY DEF Sound
  <2>3. Sound(y)
    BY <2>1, <2>2 DEF Sound
  <2>4. Tracked(y, l)
    BY <2>1 DEF Tracked, Named, Awaited, Intact, Counted
  <2> QED
    BY <2>1, <2>3, <2>4
<1>4. CASE /\ open
           /\ y = [placed EXCEPT !.files = emptied, !.status = "Retained",
                                 !.step = "ReceivingFileDataPdus"]
  <2> HIDE DEF nested, target, open, emptied
  <2>1. /\ IsHandler(y) /\ y.state = x.state /\ y.step = "ReceivingFileDataPdus"
        /\ y.files = emptied /\ y.path = target /\ y.tid = x.tx
        /\ y.tx = x.tx /\ y.mode = x.mode /\ y.cksum_type = x.cksum_type
        /\ y.metadata_only = x.metadata_only /\ y.progress = x.progress
        /\ y.checksum = x.checksum /\ y.status = "Retained" /\ y.faults = x.faults
        /\ y.condition = x.condition /\ y.result = x.result
        /\ y.ind = x.ind \cup {"metadata_recvd"}
    BY SMTT(60), <1>2, <1>4 DEF IsHandler, Fields
  <2>2. target \in Paths
    BY <1>4 DEF open, CanTruncate, CanCreate, IsFile, Exists
  <2>3. << >> \in Content /\ << >> # NoFile /\ << >> # Dir
    BY EmptyIsContent, ContentIsAFile
  <2>4. emptied = [x.files EXCEPT ![target] = << >>]
    BY DEF emptied, TruncateFile, CreateFile
  <2>5. emptied \in Filestore /\ IsFile(emptied, target)
    BY <2>2, <2>3, <2>4 DEF Filestore, IsFile, Exists, Sound
  <2> HIDE DEF named, opened, placed
  <2>6. Sound(y)
    BY <2>1, <2>5 DEF Sound
  <2>7. Tracked(y, l)
    BY <2>1 DEF Tracked, Named, Awaited, Intact, Counted
  <2> QED
    BY <2>1, <2>6, <2>7
<1> QED
  BY <1>1, <1>3, <1>4

\* What the user is told is so: the status of the file is that of the store,
\* and a file that has been checked is the sender's.
Truthful(x, l) ==
    Told(x) =>
        /\ x.report.status = "Retained" => IsFile(x.files, x.path)
        /\ x.report.status = "DiscardDeliberately" => ~ Exists(x.files, x.path)
        /\ (/\ x.report.condition = "NoError" /\ x.report.status = "Retained"
            /\ x.cksum_type = "Crc32" /\ ~ x.metadata_only /\ ~ l.mixed)
               => x.files[x.path] = cfg.transfers[x.report.tx].file

\* notice_of_completion either fails and does nothing, or tells the user what
\* is in the store once it has removed the file of a cancelled transaction.
LEMMA NoticeGood ==
    ASSUME NEW x, NEW y, NEW l, NEW failure, Sound(x), Tracked(x, l),
           x.step = "TransferCompletion", x.result = "ok", y = NoticeOfCompletion(x, failure)
    PROVE  \/ y = Fail(x)
           \/ /\ Sound(y) /\ Tracked(y, l) /\ Truthful(y, l)
              /\ y.ind = x.ind \cup {"transaction_finished"} /\ y.result = "ok"
              /\ y.state = x.state /\ y.step = x.step /\ y.faults = x.faults
<1>1. IsHandler(x)
  BY DEF Sound
<1> DEFINE discard == /\ x.disposition = "Cancelled"
                      /\ cfg.disposition_on_cancellation
                      /\ x.delivery = "Incomplete"
           removed == [x EXCEPT !.files = RemoveFile(x.files, x.path),
                                !.status = "DiscardDeliberately"]
           Telling(z) == [z EXCEPT !.ind = @ \cup {"transaction_finished"},
                                   !.report = Report(z)]
<1>2. \/ y = Fail(x)
      \/ CanRemove(x.files, x.path) /\ y = Telling(removed)
      \/ y = Telling(x)
  BY DEF NoticeOfCompletion
<1>3. CASE y = Telling(x)
  <2>1. /\ IsHandler(y) /\ Frame(x, y) /\ y.files = x.files /\ y.result = x.result
        /\ y.state = x.state /\ y.step = x.step /\ y.status = x.status
        /\ y.condition = x.condition /\ y.faults = x.faults
        /\ y.ind = x.ind \cup {"transaction_finished"}
        /\ y.report.tx = x.tid /\ y.report.condition = x.condition
        /\ y.report.status = x.status
    BY SMTT(60), <1>1, <1>3 DEF IsHandler, Fields, Frame, Report
  <2> HIDE DEF Telling, removed, discard
  <2>2. Sound(y)
    BY <2>1 DEF Sound, Frame
  <2>3. Tracked(y, l)
    BY <2>1 DEF Tracked, Named, Awaited, Intact, Counted, Frame
  <2>4. y.report.tx = y.tid /\ y.report.condition = y.condition /\ y.report.status = y.status
    BY <2>1 DEF Frame
  <2>5. Truthful(y, l)
    BY <2>1, <2>2, <2>3, <2>4 DEF Truthful, Sound, Tracked, Intact
  <2> QED
    BY <2>1, <2>2, <2>3, <2>5
<1>4. CASE CanRemove(x.files, x.path) /\ y = Telling(removed)
  <2>1. /\ IsHandler(y) /\ Frame(x, y) /\ y.files = RemoveFile(x.files, x.path)
        /\ y.result = x.result
        /\ y.state = x.state /\ y.step = x.step /\ y.status = "DiscardDeliberately"
        /\ y.condition = x.condition /\ y.faults = x.faults
        /\ y.ind = x.ind \cup {"transaction_finished"}
        /\ y.report.tx = x.tid /\ y.report.condition = x.condition
        /\ y.report.status = "DiscardDeliberately"
    BY SMTT(60), <1>1, <1>4 DEF IsHandler, Fields, Frame, Report
  <2> HIDE DEF Telling, removed, discard
  <2>2. x.path \in Paths
    BY <1>4 DEF CanRemove, IsFile, Exists
  <2>3. y.files \in Filestore /\ ~ Exists(y.files, y.path)
    BY <2>1, <2>2 DEF Filestore, Exists, RemoveFile, Sound, Frame
  <2>4. Sound(y)
    BY <2>1, <2>3 DEF Sound, Frame
  <2>5. Tracked(y, l)
    BY <2>1 DEF Tracked, Named, Awaited, Intact, Counted, Frame
  <2>6. Truthful(y, l)
    BY <2>1, <2>3 DEF Truthful
  <2> QED
    BY <2>1, <2>4, <2>5, <2>6
<1> QED
  BY <1>2, <1>3, <1>4

\* Fail and Panic change nothing but the result.
Halted(x, y) ==
    /\ IsHandler(y) /\ Frame(x, y)
    /\ y.state = x.state /\ y.step = x.step /\ y.files = x.files
    /\ y.status = x.status /\ y.condition = x.condition
    /\ y.ind = x.ind /\ y.faults = x.faults /\ y.report = x.report

\* An error ends the call and leaves the handler as it was.
LEMMA FailIs ==
    ASSUME NEW x, IsHandler(x)
    PROVE  Halted(x, Fail(x)) /\ Fail(x).result = "err"
BY DEF IsHandler, Fields, Halted, Frame, Fail

\* So does a panic.
LEMMA PanicIs ==
    ASSUME NEW x, IsHandler(x)
    PROVE  Halted(x, Panic(x)) /\ Panic(x).result = "panic"
BY DEF IsHandler, Fields, Halted, Frame, Panic

\* A call that has ended early leaves a sound handler.
LEMMA HaltedGood ==
    ASSUME NEW x, NEW y, NEW l, Sound(x), Tracked(x, l), Halted(x, y)
    PROVE  /\ Sound(y) /\ Tracked(y, l)
           /\ Truthful(x, l) => Truthful(y, l)
<1>1. Sound(y)
  BY DEF Sound, Halted, Frame
<1>2. Tracked(y, l)
  BY DEF Tracked, Named, Awaited, Intact, Counted, Halted, Frame
<1>3. Truthful(x, l) => Truthful(y, l)
  BY DEF Truthful, Told, Halted, Frame
<1> QED
  BY <1>1, <1>2, <1>3

\* The end of a transaction leaves the store and what was told as they are.
LEMMA ResetGood ==
    ASSUME NEW x, NEW y, NEW l, Sound(x), y = Reset(x)
    PROVE  /\ Sound(y) /\ Tracked(y, l) /\ y.state = "Idle" /\ y.step = "Idle"
           /\ y.ind = x.ind /\ y.result = x.result /\ y.faults = x.faults
           /\ Truthful(x, l) => Truthful(y, l)
<1>1. /\ IsHandler(y) /\ Frame(x, y)
      /\ y.state = "Idle" /\ y.step = "Idle" /\ y.status = "Unreported"
      /\ y.files = x.files /\ y.ind = x.ind /\ y.result = x.result /\ y.faults = x.faults
      /\ y.report = x.report
  BY DEF IsHandler, Fields, Frame, Reset, ResetParams, Sound
<1>2. Sound(y)
  BY <1>1 DEF Sound, Frame
<1>3. Tracked(y, l)
  BY <1>1 DEF Tracked, Named, Awaited, Intact, Counted
<1>4. Truthful(x, l) => Truthful(y, l)
  BY <1>1 DEF Truthful, Told, Frame
<1> QED
  BY <1>1, <1>2, <1>3, <1>4

\* transfer_completion ends a transaction once the user is told; until the
\* Finished PDU is sent the next call starts over.
LEMMA TransferCompletionGood ==
    ASSUME NEW x, NEW y, NEW l, NEW failure, Sound(x), Tracked(x, l), ~ Told(x),
           x.step = "TransferCompletion", x.result = "ok", y = TransferCompletion(x, failure)
    PROVE  /\ Sound(y) /\ Tracked(y, l) /\ Truthful(y, l) /\ y.faults = x.faults
           /\ y.ind \ {"transaction_finished"} = x.ind \ {"transaction_finished"}
           /\ \/ ~ Told(y) /\ y.result = "err" /\ y.state = x.state /\ y.step = x.step
              \/ Told(y) /\ y.result = "err" /\ y.state = x.state /\ y.step = x.step
              \/ Told(y) /\ y.result = "ok" /\ y.state = "Idle" /\ y.step = "Idle"
              \/ Told(y) /\ y.result = "ok" /\ y.step = "SendingFinishedPdu"
<1> DEFINE n == NoticeOfCompletion(x, failure)
<1>1. y = IF n.result # "ok" THEN n
          ELSE IF n.mode = "Unacknowledged" /\ ~ n.closure THEN Reset(n)
          ELSE IF failure = "send" THEN Fail(n)
          ELSE [n EXCEPT !.sent = FinishedPdu(n), !.step = "SendingFinishedPdu"]
  BY DEF TransferCompletion
<1>2. \/ n = Fail(x)
      \/ /\ Sound(n) /\ Tracked(n, l) /\ Truthful(n, l)
         /\ n.ind = x.ind \cup {"transaction_finished"} /\ n.result = "ok"
         /\ n.state = x.state /\ n.step = x.step /\ n.faults = x.faults
  BY NoticeGood
<1> HIDE DEF n
<1>3. CASE n = Fail(x)
  <2>1. Halted(x, n) /\ n.result = "err"
    BY <1>3, FailIs DEF Sound
  <2>2. y = n
    BY <1>1, <2>1
  <2>3. Truthful(x, l)
    BY DEF Truthful
  <2>4. Sound(y) /\ Tracked(y, l) /\ Truthful(y, l)
    BY <2>1, <2>2, <2>3, HaltedGood
  <2> QED
    BY <2>1, <2>2, <2>4 DEF Halted, Told
<1>4. CASE /\ Sound(n) /\ Tracked(n, l) /\ Truthful(n, l)
           /\ n.ind = x.ind \cup {"transaction_finished"} /\ n.result = "ok"
           /\ n.state = x.state /\ n.step = x.step /\ n.faults = x.faults
  <2>1. Told(n) /\ n.ind \ {"transaction_finished"} = x.ind \ {"transaction_finished"}
    BY <1>4 DEF Told
  <2>2. CASE n.mode = "Unacknowledged" /\ ~ n.closure
    <3>1. y = Reset(n)
      BY <1>1, <1>4, <2>2
    <3>2. /\ Sound(y) /\ Tracked(y, l) /\ Truthful(y, l)
          /\ y.state = "Idle" /\ y.step = "Idle"
          /\ y.ind = n.ind /\ y.result = n.result /\ y.faults = n.faults
      BY <1>4, <3>1, ResetGood
    <3> QED
      BY <1>4, <2>1, <3>2 DEF Told
  <2>3. CASE ~ (n.mode = "Unacknowledged" /\ ~ n.closure) /\ failure = "send"
    <3>1. y = Fail(n)
      BY <1>1, <1>4, <2>3
    <3>2. Halted(n, y) /\ y.result = "err"
      BY <1>4, <3>1, FailIs DEF Sound
    <3>3. Sound(y) /\ Tracked(y, l) /\ Truthful(y, l)
      BY <1>4, <3>2, HaltedGood
    <3> QED
      BY <1>4, <2>1, <3>2, <3>3 DEF Told, Halted
  <2>4. CASE ~ (n.mode = "Unacknowledged" /\ ~ n.closure) /\ failure # "send"
    <3>1. y = [n EXCEPT !.sent = FinishedPdu(n), !.step = "SendingFinishedPdu"]
      BY <1>1, <1>4, <2>4
    <3>2. /\ IsHandler(y) /\ Frame(n, y) /\ y.step = "SendingFinishedPdu"
          /\ y.state = n.state /\ y.status = n.status /\ y.condition = n.condition
          /\ y.files = n.files /\ y.ind = n.ind /\ y.result = n.result
          /\ y.faults = n.faults /\ y.report = n.report
      BY <1>4, <3>1 DEF IsHandler, Fields, Frame, Sound
    <3>3. Sound(y)
      BY <1>4, <3>2 DEF Sound, Frame
    <3>4. Tracked(y, l)
      BY <1>4, <3>2 DEF Tracked, Named, Awaited, Intact, Counted, Frame
    <3>5. Truthful(y, l)
      BY <1>4, <3>2 DEF Truthful, Told, Frame
    <3> QED
      BY <1>4, <2>1, <3>2, <3>3, <3>4, <3>5 DEF Told
  <2> QED
    BY <2>2, <2>3, <2>4
<1> QED
  BY <1>2, <1>3, <1>4

\* What a call has done once it is over.
Driven(x, y, l) ==
    /\ Sound(y) /\ Tracked(y, l) /\ Truthful(y, l) /\ SameSize(x, y)
    /\ \A i \in {"file_segment_recvd", "eof_recvd"} : i \in y.ind <=> i \in x.ind
    /\ Told(y) => y.result = "err" \/ (y.result = "ok" /\ y.state = "Idle")
    /\ y.state = "Idle" => (Told(y) /\ y.result = "ok") \/ Abandoned(y)
    /\ y.state = "Busy" => y.step # "SendingFinishedPdu"
    /\ x.step = "TransactionStart" => y.state = "Busy" /\ ~ Told(y)

\* The last part of a call of a busy handler: the completion of the transfer
\* and the Finished PDU.
LEMMA CompletionGood ==
    ASSUME NEW x, NEW c, NEW y, NEW l, NEW failure, Sound(x), Tracked(x, l), ~ Told(x),
           x.result = "ok", x.step # "SendingFinishedPdu", x.state = "Busy" \/ Abandoned(x),
           c = (IF x.step = "TransferCompletion" THEN TransferCompletion(x, failure) ELSE x),
           y = (IF c.result # "ok" THEN c
                ELSE IF c.step = "SendingAckPdu" THEN Panic(c)
                ELSE IF c.step = "SendingFinishedPdu" THEN Reset(c)
                ELSE c)
    PROVE  /\ Sound(y) /\ Tracked(y, l) /\ Truthful(y, l) /\ SameSize(x, y)
           /\ \A i \in {"file_segment_recvd", "eof_recvd"} : i \in y.ind <=> i \in x.ind
           /\ Told(y) => y.result = "err" \/ (y.result = "ok" /\ y.state = "Idle")
           /\ y.state = "Idle" => (Told(y) /\ y.result = "ok") \/ Abandoned(y)
           /\ y.state = "Busy" => y.step # "SendingFinishedPdu"
           /\ x.step \notin {"TransferCompletion"} => y.state = x.state /\ ~ Told(y)
<1>1. CASE x.step # "TransferCompletion"
  <2>1. c = x
    BY <1>1
  <2>2. Truthful(x, l)
    BY DEF Truthful
  <2>3. y = x \/ y = Panic(x)
    BY <2>1
  <2>4. Halted(x, y)
    <3>1. IsHandler(x)
      BY DEF Sound
    <3>2. CASE y = x
      BY <3>1, <3>2 DEF Halted, Frame
    <3>3. CASE y = Panic(x)
      BY <3>1, <3>3, PanicIs
    <3> QED
      BY <2>3, <3>2, <3>3
  <2>5. Sound(y) /\ Tracked(y, l) /\ Truthful(y, l)
    BY <2>2, <2>4, HaltedGood
  <2>6. Abandoned(x) => Abandoned(y)
    BY <2>4, StaysAbandoned DEF Halted
  <2> QED
    BY <1>1, <2>4, <2>5, <2>6 DEF Halted, SameSize, Told, Sound
<1>2. CASE x.step = "TransferCompletion"
  <2>1. c = TransferCompletion(x, failure)
    BY <1>2
  <2>2. /\ Sound(c) /\ Tracked(c, l) /\ Truthful(c, l) /\ c.faults = x.faults
        /\ c.ind \ {"transaction_finished"} = x.ind \ {"transaction_finished"}
        /\ \/ ~ Told(c) /\ c.result = "err" /\ c.state = x.state /\ c.step = x.step
           \/ Told(c) /\ c.result = "err" /\ c.state = x.state /\ c.step = x.step
           \/ Told(c) /\ c.result = "ok" /\ c.state = "Idle" /\ c.step = "Idle"
           \/ Told(c) /\ c.result = "ok" /\ c.step = "SendingFinishedPdu"
    BY <1>2, <2>1, TransferCompletionGood
  <2>3. Abandoned(x) => Abandoned(c)
    BY <2>2, StaysAbandoned
  <2>4. \A i \in {"file_segment_recvd", "eof_recvd"} : i \in c.ind <=> i \in x.ind
    BY <2>2
  <2>5. CASE y = c /\ ~ (c.result = "ok" /\ c.step = "SendingFinishedPdu")
    BY <1>2, <2>2, <2>3, <2>4, <2>5 DEF SameSize
  <2>6. CASE /\ c.result = "ok" /\ c.step = "SendingFinishedPdu" /\ y = Reset(c)
    <3>1. /\ Sound(y) /\ Tracked(y, l) /\ Truthful(y, l)
          /\ y.state = "Idle" /\ y.step = "Idle"
          /\ y.ind = c.ind /\ y.result = c.result /\ y.faults = c.faults
      BY <2>2, <2>6, ResetGood
    <3> QED
      BY <1>2, <2>2, <2>4, <2>6, <3>1 DEF SameSize, Told
  <2> QED
    BY <1>2, <2>2, <2>5, <2>6
<1> QED
  BY <1>1, <1>2

\* fsm_busy: the start, the check limit, the completion, in this order.
LEMMA FsmBusyGood ==
    ASSUME NEW x, NEW y, NEW l, NEW failure, Sound(x), Tracked(x, l), ~ Told(x),
           x.result = "ok", x.state = "Busy", x.step # "SendingFinishedPdu",
           y = FsmBusy(x, failure)
    PROVE  Driven(x, y, l)
<1> DEFINE s == IF x.step = "TransactionStart" THEN TransactionStart(x, failure) ELSE x
           k == IF s.step = "ReceivingFileDataPdusWithCheckLimitHandling"
                THEN CheckLimitHandling(s, failure) ELSE s
           c == IF k.step = "TransferCompletion" THEN TransferCompletion(k, failure) ELSE k
           e == IF c.result # "ok" THEN c
                ELSE IF c.step = "SendingAckPdu" THEN Panic(c)
                ELSE IF c.step = "SendingFinishedPdu" THEN Reset(c)
                ELSE c
<1>1. y = IF s.result # "ok" THEN s ELSE e
  BY DEF FsmBusy
<1>2. ASSUME Sound(k), Tracked(k, l), ~ Told(k), k.result = "ok",
             k.step # "SendingFinishedPdu", k.state = "Busy" \/ Abandoned(k)
      PROVE  /\ Sound(e) /\ Tracked(e, l) /\ Truthful(e, l) /\ SameSize(k, e)
             /\ \A i \in {"file_segment_recvd", "eof_recvd"} : i \in e.ind <=> i \in k.ind
             /\ Told(e) => e.result = "err" \/ (e.result = "ok" /\ e.state = "Idle")
             /\ e.state = "Idle" => (Told(e) /\ e.result = "ok") \/ Abandoned(e)
             /\ e.state = "Busy" => e.step # "SendingFinishedPdu"
             /\ k.step \notin {"TransferCompletion"} => e.state = k.state /\ ~ Told(e)
  <2> HIDE DEF k
  <2>1. PICK kk : kk = k
    OBVIOUS
  <2>2. PICK cc : cc = c
    OBVIOUS
  <2>3. PICK ee : ee = e
    OBVIOUS
  <2>4. cc = (IF kk.step = "TransferCompletion" THEN TransferCompletion(kk, failure) ELSE kk)
    BY <2>1, <2>2
  <2> HIDE DEF c
  <2>5. ee = (IF cc.result # "ok" THEN cc
              ELSE IF cc.step = "SendingAckPdu" THEN Panic(cc)
              ELSE IF cc.step = "SendingFinishedPdu" THEN Reset(cc)
              ELSE cc)
    BY <2>2, <2>3
  <2> HIDE DEF e
  <2> QED
    BY SMTT(60), <1>2, <2>1, <2>3, <2>4, <2>5, CompletionGood
<1> HIDE DEF c, e
<1>3. CASE x.step = "TransactionStart"
  <2>1. s = TransactionStart(x, failure)
    BY <1>3
  <2>2. /\ Sound(s) /\ Tracked(s, l)
        /\ s.state = "Busy" /\ s.faults = x.faults
        /\ s.step \in {"TransactionStart", "ReceivingFileDataPdus"}
        /\ \A i \in {"file_segment_recvd", "eof_recvd", "transaction_finished"} :
              i \in s.ind <=> i \in x.ind
        /\ s.result # "ok" \/ s.step = "ReceivingFileDataPdus"
    BY SMTT(60), <1>3, <2>1, TransactionStartGood
  <2>3. ~ Told(s) /\ k = s
    BY <2>2 DEF Told
  <2> HIDE DEF s, k
  <2>4. CASE s.result # "ok"
    <3>1. y = s /\ Truthful(s, l)
      BY <1>1, <2>3, <2>4 DEF Truthful
    <3> QED
      BY <2>2, <2>3, <3>1 DEF Driven, SameSize
  <2>5. CASE s.result = "ok"
    <3>1. y = e
      BY <1>1, <2>5
    <3> QED
      BY <1>2, <2>2, <2>3, <2>5, <3>1 DEF Driven, SameSize
  <2> QED
    BY <2>4, <2>5
<1>4. CASE x.step = "ReceivingFileDataPdusWithCheckLimitHandling"
  <2>1. s = x /\ k = CheckLimitHandling(x, failure)
    BY <1>4
  <2> HIDE DEF s, k
  <2>2. /\ Sound(k) /\ Tracked(k, l) /\ SameSize(x, k)
        /\ k.step \notin {"TransactionStart", "SendingFinishedPdu"}
        /\ k.state = "Busy" \/ Abandoned(k)
        /\ k.ind = x.ind /\ k.result = x.result
    BY <1>4, <2>1, CheckLimitHandlingGood
  <2>3. ~ Told(k) /\ y = e
    BY <1>1, <2>1, <2>2 DEF Told
  <2> QED
    BY <1>2, <1>4, <2>2, <2>3 DEF Driven, SameSize
<1>5. CASE x.step \notin {"TransactionStart", "ReceivingFileDataPdusWithCheckLimitHandling"}
  <2>1. s = x /\ k = x
    BY <1>5
  <2> HIDE DEF s, k
  <2>2. y = e
    BY <1>1, <2>1
  <2> QED
    BY <1>2, <1>5, <2>1, <2>2 DEF Driven, SameSize
<1> QED
  BY <1>3, <1>4, <1>5

\* The rest of state_machine once the packet is inserted.
LEMMA DriveGood ==
    ASSUME NEW x, NEW y, NEW l, NEW failure, Sound(x), Tracked(x, l), ~ Told(x),
           x.state = "Busy" => x.step # "SendingFinishedPdu",
           y = Drive(x, failure)
    PROVE  \/ Halted(x, y)
           \/ x.state = "Busy" /\ x.result = "ok" /\ Driven(x, y, l)
<1>1. CASE x.result # "ok"
  BY <1>1 DEF Drive, Halted, Frame, Sound
<1>2. CASE x.result = "ok" /\ x.state = "Busy"
  <2>1. y = FsmBusy(x, failure)
    BY <1>2 DEF Drive
  <2> QED
    BY <1>2, <2>1, FsmBusyGood
<1>3. CASE x.result = "ok" /\ x.state # "Busy"
  <2>1. y = Panic(x)
    BY <1>3 DEF Drive
  <2> QED
    BY <2>1, PanicIs DEF Sound
<1> QED
  BY <1>1, <1>2, <1>3

-----------------------------------------------------------------------------
(* insert_packet                                                           *)

\* The PDUs that the handler looks into, and what the senders put there.
LEMMA PduIs ==
    ASSUME NEW p \in Pdus, cfg \in Config
    PROVE  \/ p.kind = "Metadata" /\ p.tx \in Txs
           \/ /\ p.kind = "FileData" /\ p.tx \in Txs
              /\ p.offset \in 0..(Len(cfg.transfers[p.tx].file) - 1)
              /\ p.data \in Content /\ Len(p.data) = 1
           \/ /\ p.kind = "Eof" /\ p.tx \in Txs
              /\ p.file_size = Len(cfg.transfers[p.tx].file)
              /\ p.checksum = Checksum(cfg.transfers[p.tx].cksum_type,
                                       cfg.transfers[p.tx].file)
           \/ p.kind \notin {"Metadata", "FileData", "Eof"}
<1>1. CASE \E tx \in Txs : p \in FileDataPdus(tx)
  <2>1. PICK tx \in Txs : p \in FileDataPdus(tx)
    BY <1>1
  <2> DEFINE file == cfg.transfers[tx].file
  <2>2. PICK i \in DOMAIN file :
           p = [kind |-> "FileData", tx |-> tx, offset |-> i - 1, data |-> <<file[i]>>]
    BY <2>1 DEF FileDataPdus
  <2>3. file \in Seq(Word)
    BY DEF Config, Transfer, Content
  <2> HIDE DEF file
  <2>4. i \in 1..Len(file) /\ file[i] \in Word
    BY SMTT(60), <2>2, <2>3
  <2>5. /\ p.kind = "FileData" /\ p.tx = tx /\ p.offset = i - 1 /\ p.data = <<file[i]>>
    BY <2>2
  <2>6. p.offset \in 0..(Len(file) - 1)
    BY SMTT(60), <2>3, <2>4, <2>5
  <2>7. p.data \in Content /\ Len(p.data) = 1
    BY SMTT(60), <2>4, <2>5 DEF Content
  <2> QED
    BY <2>5, <2>6, <2>7 DEF file
<1>2. CASE \E tx \in Txs : p = MetadataPdu(tx)
  BY SMTT(60), <1>2 DEF MetadataPdu
<1>3. CASE \E tx \in Txs, condition \in {"NoError", "FilestoreRejection"} :
              p = EofPdu(tx, condition)
  BY SMTT(60), <1>3 DEF EofPdu
<1>4. CASE p \in {AckPdu("Eof"), AckPdu("Finished")}
  BY SMTT(60), <1>4 DEF AckPdu
<1>5. CASE \E kind \in {"Nak", "Finished", "KeepAlive", "Prompt"} : p = OtherPdu(kind)
  BY SMTT(60), <1>5 DEF OtherPdu
<1> DEFINE A == UNION {FileDataPdus(tx) : tx \in Txs}
           B == {MetadataPdu(tx) : tx \in Txs}
           C == {EofPdu(tx, "NoError") : tx \in Txs}
           D == {EofPdu(tx, "FilestoreRejection") : tx \in Txs}
           E == {AckPdu("Eof"), AckPdu("Finished")}
           F == {OtherPdu(kind) : kind \in {"Nak", "Finished", "KeepAlive", "Prompt"}}
<1>6. p \in A \/ p \in B \/ p \in C \/ p \in D \/ p \in E \/ p \in F
  <2>1. Pdus = A \cup B \cup C \cup D \cup E \cup F
    BY DEF Pdus
  <2> HIDE DEF A, B, C, D, E, F
  <2> QED
    BY <2>1
<1>7. p \in UNION {FileDataPdus(tx) : tx \in Txs} => \E tx \in Txs : p \in FileDataPdus(tx)
  OBVIOUS
<1>8. p \in {MetadataPdu(tx) : tx \in Txs} => \E tx \in Txs : p = MetadataPdu(tx)
  OBVIOUS
<1>9. p \in {EofPdu(tx, "NoError") : tx \in Txs}
        \/ p \in {EofPdu(tx, "FilestoreRejection") : tx \in Txs}
      => \E tx \in Txs, condition \in {"NoError", "FilestoreRejection"} :
            p = EofPdu(tx, condition)
  OBVIOUS
<1>10. p \in {OtherPdu(kind) : kind \in {"Nak", "Finished", "KeepAlive", "Prompt"}}
       => \E kind \in {"Nak", "Finished", "KeepAlive", "Prompt"} : p = OtherPdu(kind)
  OBVIOUS
<1> QED
  BY <1>1, <1>2, <1>3, <1>4, <1>5, <1>6, <1>7, <1>8, <1>9, <1>10

\* A history of a transaction.
IsLog(l) ==
    l \in [tx : Txs \cup {NoTx}, offsets : SUBSET Nat, repeated : BOOLEAN,
           mixed : BOOLEAN, prior : Nat, reports : Nat, send_failures : Nat]

\* The history that a PDU taken into account extends.
Extended(l, m, p) ==
    /\ m.tx = l.tx /\ m.prior = l.prior
    /\ m.reports = l.reports /\ m.send_failures = l.send_failures
    /\ ~ m.mixed => ~ l.mixed /\ p.tx = l.tx

\* handle_metadata_pdu: a rejected PDU leaves the handler idle, an accepted
\* one starts a transaction with the progress of the last one.
LEMMA MetadataGood ==
    ASSUME NEW x, NEW y, NEW l, NEW p, Sound(x), Tracked(x, l), x.result = "ok",
           p.tx \in Txs, y = HandleMetadataPdu(x, p)
    PROVE  \/ Halted(x, y) /\ x.state = "Busy"
           \/ /\ Sound(y) /\ Tracked(y, l) /\ x.state = "Idle" /\ y.state = "Idle"
              /\ y.ind = x.ind /\ y.faults = x.faults /\ y.result # "ok"
           \/ /\ Sound(y) /\ Tracked(y, NewLog(p.tx, x.progress))
              /\ x.state = "Idle" /\ y.state = "Busy" /\ y.step = "TransactionStart"
              /\ y.ind = x.ind /\ y.faults = x.faults
<1> DEFINE t == cfg.transfers[p.tx]
           r == [ResetParams(x) EXCEPT !.cksum_type = t.cksum_type, !.closure = t.closure]
           z == [r EXCEPT !.metadata_only = @ \/ (t.src = NoName /\ t.dest = NoName)]
           named == IF z.metadata_only THEN z
                    ELSE [z EXCEPT !.src = t.src, !.dest = t.dest, !.tx = p.tx, !.mode = t.mode]
           Left(u) == /\ IsHandler(u) /\ u.state = x.state /\ u.step = x.step
                      /\ u.files = x.files /\ u.path = x.path /\ u.tid = x.tid
                      /\ u.progress = x.progress /\ u.status = "Unreported"
                      /\ u.ind = x.ind /\ u.faults = x.faults
<1>1. \/ x.state # "Idle" /\ y = Fail(x)
      \/ x.state = "Idle" /\ y \in {Fail(r), Fail(z), Panic(named)}
      \/ x.state = "Idle" /\ y = [named EXCEPT !.state = "Busy", !.step = "TransactionStart"]
  BY DEF HandleMetadataPdu
<1>2. IsHandler(x)
  BY DEF Sound
<1>3. Left(r)
  BY <1>2 DEF IsHandler, Fields, ResetParams
<1> HIDE DEF r
<1>4. Left(z)
  BY <1>3 DEF IsHandler, Fields
<1> HIDE DEF z
<1>5. Left(named) /\ (named.metadata_only \/ named.tx = p.tx)
  <2>1. CASE z.metadata_only
    BY <1>4, <2>1
  <2>2. CASE ~ z.metadata_only
    BY <1>4, <2>2 DEF IsHandler, Fields
  <2> QED
    BY <2>1, <2>2
<1> HIDE DEF named
<1>6. CASE x.state # "Idle" /\ y = Fail(x)
  BY <1>2, <1>6, FailIs DEF Sound
<1>7. CASE x.state = "Idle" /\ y \in {Fail(r), Fail(z), Panic(named)}
  <2>1. \A u : Left(u) => /\ Left(Fail(u)) /\ Fail(u).result = "err"
                          /\ Left(Panic(u)) /\ Panic(u).result = "panic"
    BY SMTT(60), FailIs, PanicIs DEF Halted, Frame
  <2>2. Left(y) /\ y.result # "ok"
    BY SMTT(60), <1>3, <1>4, <1>5, <1>7, <2>1
  <2>3. Sound(y)
    BY <1>7, <2>2 DEF Sound
  <2>4. Tracked(y, l)
    BY <1>7, <2>2 DEF Tracked, Named, Awaited, Intact, Counted
  <2> QED
    BY <1>7, <2>2, <2>3, <2>4
<1>8. CASE x.state = "Idle" /\ y = [named EXCEPT !.state = "Busy", !.step = "TransactionStart"]
  <2>1. /\ IsHandler(y) /\ y.state = "Busy" /\ y.step = "TransactionStart"
        /\ y.files = x.files /\ y.path = x.path /\ y.tid = x.tid /\ y.progress = x.progress
        /\ y.status = "Unreported" /\ y.ind = x.ind /\ y.faults = x.faults
        /\ y.metadata_only = named.metadata_only /\ y.tx = named.tx
    BY <1>5, <1>8 DEF IsHandler, Fields
  <2>2. Sound(y)
    BY <2>1 DEF Sound
  <2> DEFINE m == NewLog(p.tx, x.progress)
  <2>3. /\ m.tx = p.tx /\ m.offsets = {} /\ m.prior = x.progress
        /\ m.reports = 0 /\ m.send_failures = 0
    BY DEF NewLog
  <2> HIDE DEF m
  <2>4. Named(y, m)
    BY <1>5, <2>1, <2>3 DEF Named
  <2>5. Awaited(y, m) /\ Intact(y, m)
    BY <2>1 DEF Awaited, Intact
  <2>6. Cardinality({}) = 0
    BY FS_EmptySet
  <2>7. Counted(y, m)
    BY SMTT(60), <2>1, <2>3, <2>6 DEF Counted
  <2> QED
    BY <1>8, <2>1, <2>2, <2>4, <2>5, <2>7 DEF Tracked, m
<1> QED
  BY <1>1, <1>6, <1>7, <1>8

\* A write leaves a file, with words in it.
LEMMA WriteIs ==
    ASSUME NEW fs \in Filestore, NEW path, IsFile(fs, path), NEW offset \in Nat,
           NEW data \in Content, NEW gs, gs = WriteData(fs, path, offset, data)
    PROVE  gs \in Filestore /\ IsFile(gs, path)
<1>1. path \in Paths /\ fs[path] \in Content
  BY DEF IsFile, Exists, Filestore
<1> DEFINE old == fs[path]
           new == WriteAt(old, offset, data)
           end == offset + Len(data)
           len == IF end > Len(old) THEN end ELSE Len(old)
<1>2. new = [i \in 1..len |-> IF i > offset /\ i <= end THEN data[i - offset]
                              ELSE IF i <= Len(old) THEN old[i] ELSE Hole]
  BY DEF WriteAt
<1>3. old \in Seq(Word) /\ data \in Seq(Word) /\ Hole \in Word
  BY SMTT(60), <1>1, FilestoreAssumption DEF Content, Hole, Word
<1> HIDE DEF old, new
<1>4. Len(old) \in Nat /\ Len(data) \in Nat /\ end \in Nat /\ len \in Nat
  BY SMTT(60), <1>3
<1>5. \A i \in 1..len : new[i] \in Word
  <2> SUFFICES ASSUME NEW i \in 1..len PROVE new[i] \in Word
    OBVIOUS
  <2>1. CASE i > offset /\ i <= end
    <3>1. i - offset \in 1..Len(data)
      BY SMTT(60), <1>4, <2>1
    <3>2. new[i] = data[i - offset]
      BY <1>2, <2>1
    <3> QED
      BY SMTT(60), <1>3, <3>1, <3>2
  <2>2. CASE ~ (i > offset /\ i <= end) /\ i <= Len(old)
    <3>1. i \in 1..Len(old)
      BY SMTT(60), <1>4, <2>2
    <3>2. new[i] = old[i]
      BY <1>2, <2>2
    <3> QED
      BY SMTT(60), <1>3, <3>1, <3>2
  <2>3. CASE ~ (i > offset /\ i <= end) /\ ~ (i <= Len(old))
    BY <1>2, <1>3, <2>3
  <2> QED
    BY <2>1, <2>2, <2>3
<1> HIDE DEF len
<1>6. new \in [1..len -> Word]
  BY <1>2, <1>5
<1>7. new \in Content
  BY SMTT(60), <1>4, <1>6 DEF Content
<1>8. new # NoFile /\ new # Dir
  BY <1>7, ContentIsAFile
<1>9. gs = [fs EXCEPT ![path] = new]
  BY DEF WriteData, new, old
<1> QED
  BY <1>1, <1>7, <1>8, <1>9 DEF Filestore, IsFile, Exists

\* A segment of the file that has not come before is one more of them.
LEMMA SegmentCounts ==
    ASSUME NEW n \in Int, NEW offsets, offsets \subseteq 0..n, NEW o \in 0..n, o \notin offsets
    PROVE  /\ offsets \cup {o} \subseteq 0..n
           /\ Cardinality(offsets) \in Nat
           /\ Cardinality(offsets \cup {o}) = Cardinality(offsets) + 1
<1>1. IsFiniteSet(0..n)
  BY SMTT(60), FS_Interval
<1>2. IsFiniteSet(offsets)
  BY <1>1, FS_Subset
<1> QED
  BY <1>2, FS_AddElement, FS_CardinalityType

\* A segment that is taken into account keeps the invariant with the history
\* that has it, whether it is written, in part or not at all.
LEMMA SegmentGood ==
    ASSUME NEW x, NEW y, NEW l, NEW m, NEW p, Sound(x), Tracked(x, l), IsLog(l),
           cfg \in Config, p.tx \in Txs,
           p.offset \in 0..(Len(cfg.transfers[p.tx].file) - 1),
           x.state = "Busy", x.step # "TransferCompletion", x.step # "TransactionStart",
           Extended(l, m, p), m.offsets = l.offsets \cup {p.offset},
           ~ m.repeated => ~ l.repeated /\ p.offset \notin l.offsets,
           IsHandler(y), y.state = x.state, y.step = x.step, y.status = x.status,
           y.tx = x.tx, y.tid = x.tid, y.mode = x.mode, y.path = x.path,
           y.metadata_only = x.metadata_only, y.checksum = x.checksum,
           y.files \in Filestore, IsFile(x.files, x.path) => IsFile(y.files, y.path),
           Exists(y.files, y.path) => Exists(x.files, x.path),
           y.progress \in {x.progress, x.progress + 1}
    PROVE  Sound(y) /\ Tracked(y, m)
<1>1. Sound(y)
  BY SMTT(60) DEF Sound
<1>2. Named(y, m)
  BY DEF Tracked, Named, Extended
<1>3. Awaited(y, m)
  BY DEF Tracked, Awaited, Extended, SentFile
<1>4. Intact(y, m)
  BY DEF Intact
<1>5. Counted(y, m)
  <2> SUFFICES ASSUME ~ m.repeated, ~ m.mixed, m.prior = 0
               PROVE  /\ m.offsets \subseteq 0..(Len(SentFile(m)) - 1)
                      /\ y.progress <= Cardinality(m.offsets)
    BY DEF Counted
  <2> DEFINE n == Len(SentFile(l)) - 1
  <2>1. /\ ~ l.repeated /\ ~ l.mixed /\ l.prior = 0 /\ p.tx = l.tx
        /\ p.offset \notin l.offsets /\ SentFile(m) = SentFile(l)
    BY DEF Extended, SentFile
  <2>2. l.offsets \subseteq 0..n /\ x.progress <= Cardinality(l.offsets)
    BY <2>1 DEF Tracked, Counted
  <2>3. p.offset \in 0..n
    BY <2>1 DEF SentFile
  <2>4. n \in Int
    <3>1. SentFile(l) \in Seq(Word)
      BY <2>1 DEF SentFile, Config, Transfer, Content
    <3> QED
      BY SMTT(60), <3>1
  <2> HIDE DEF n
  <2>5. /\ m.offsets \subseteq 0..n /\ Cardinality(l.offsets) \in Nat
        /\ Cardinality(m.offsets) = Cardinality(l.offsets) + 1
    BY <2>1, <2>2, <2>3, <2>4, SegmentCounts
  <2>6. x.progress \in Nat
    BY DEF Sound
  <2> QED
    BY SMTT(60), <2>1, <2>2, <2>5, <2>6 DEF n
<1> QED
  BY <1>1, <1>2, <1>3, <1>4, <1>5 DEF Tracked

\* handle_file_data: what an accepted segment leaves behind, also when the
\* store refuses it.
LEMMA FileDataGood ==
    ASSUME NEW x, NEW y, NEW l, NEW m, NEW p, NEW failure, Sound(x), Tracked(x, l), IsLog(l),
           cfg \in Config, p.tx \in Txs,
           p.offset \in 0..(Len(cfg.transfers[p.tx].file) - 1),
           p.data \in Content, Len(p.data) = 1,
           ReceivesData(x), y = HandleFileData(x, p, failure),
           Extended(l, m, p), m.offsets = l.offsets \cup {p.offset},
           ~ m.repeated => ~ l.repeated /\ p.offset \notin l.offsets
    PROVE  /\ Sound(y) /\ Tracked(y, m) /\ SameSize(x, y)
           /\ y.ind = x.ind \cup {"file_segment_recvd"}
           /\ y.state = "Busy" \/ Abandoned(y)
           /\ y.step \notin {"TransactionStart", "SendingFinishedPdu"}
<1> DEFINE u == [x EXCEPT !.ind = @ \cup {"file_segment_recvd"}]
           w == [u EXCEPT !.files = WriteData(@, x.path, p.offset, p.data)]
           q == [w EXCEPT !.progress = @ + Len(p.data)]
<1>1. \/ y = Fail(DeclareFault(u, "FilestoreRejection"))
      \/ CanWrite(x.files, x.path) /\ y = Fail(DeclareFault(w, "FilestoreRejection"))
      \/ CanWrite(x.files, x.path) /\ y = q
  BY DEF HandleFileData
<1>2. /\ IsHandler(x) /\ x.state = "Busy"
      /\ x.step \in {"ReceivingFileDataPdus", "ReceivingFileDataPdusWithCheckLimitHandling"}
      /\ x.files \in Filestore /\ x.progress \in Nat
  BY DEF Sound, ReceivesData
<1>3. p.offset \in Nat
  BY SMTT(60)
<1> DEFINE Kept(z) ==
        /\ IsHandler(z) /\ z.state = x.state /\ z.step = x.step /\ z.status = x.status
        /\ z.tx = x.tx /\ z.tid = x.tid /\ z.mode = x.mode /\ z.path = x.path
        /\ z.metadata_only = x.metadata_only /\ z.checksum = x.checksum
        /\ z.faults = x.faults /\ z.ind = x.ind \cup {"file_segment_recvd"}
<1>4. Kept(u) /\ u.files = x.files /\ u.progress = x.progress
  BY <1>2 DEF IsHandler, Fields
<1> HIDE DEF u
<1>5. Kept(w) /\ w.files = WriteData(x.files, x.path, p.offset, p.data)
        /\ w.progress = x.progress
  BY <1>4 DEF IsHandler, Fields
<1> HIDE DEF w
<1>6. Kept(q) /\ q.files = w.files /\ q.progress = x.progress + 1
  BY <1>5 DEF IsHandler, Fields
<1> HIDE DEF q
<1>7. CanWrite(x.files, x.path) =>
         /\ w.files \in Filestore
         /\ IsFile(w.files, x.path) /\ Exists(x.files, x.path)
  BY SMTT(60), <1>2, <1>3, <1>5, WriteIs DEF CanWrite, IsFile
<1>8. ASSUME NEW z, Kept(z), z.files \in Filestore, z.progress \in {x.progress, x.progress + 1},
             IsFile(x.files, x.path) => IsFile(z.files, x.path),
             Exists(z.files, x.path) => Exists(x.files, x.path)
      PROVE  Sound(z) /\ Tracked(z, m)
  BY <1>2, <1>8, SegmentGood
<1>9. Sound(u) /\ Tracked(u, m)
  BY <1>2, <1>4, <1>8
<1>10. CanWrite(x.files, x.path) => /\ Sound(w) /\ Tracked(w, m)
                                    /\ Sound(q) /\ Tracked(q, m)
  <2>1. CanWrite(x.files, x.path) => Sound(w) /\ Tracked(w, m)
    BY <1>5, <1>7, <1>8
  <2>2. CanWrite(x.files, x.path) => Sound(q) /\ Tracked(q, m)
    BY <1>6, <1>7, <1>8
  <2> QED
    BY <2>1, <2>2
<1>11. ASSUME NEW z, Kept(z), Sound(z), Tracked(z, m),
              y = Fail(DeclareFault(z, "FilestoreRejection"))
       PROVE  /\ Sound(y) /\ Tracked(y, m) /\ SameSize(x, y)
              /\ y.ind = x.ind \cup {"file_segment_recvd"}
              /\ y.state = "Busy" \/ Abandoned(y)
              /\ y.step \notin {"TransactionStart", "SendingFinishedPdu"}
  <2> DEFINE g == DeclareFault(z, "FilestoreRejection")
  <2>1. "FilestoreRejection" \in FaultCodes
    BY DEF FaultCodes
  <2>2. Faulted(z, g) /\ g.faults = z.faults \cup {"FilestoreRejection"}
    BY SMTT(60), <1>11, <2>1, DeclareFaultIs
  <2> HIDE DEF g
  <2>3. /\ Sound(g) /\ Tracked(g, m) /\ g.step # "TransactionStart"
        /\ g.state = "Busy" \/ Abandoned(g)
    BY <1>2, <1>11, <2>2, FaultedGood
  <2>4. Halted(g, y)
    BY SMTT(60), <1>11, <2>2, FailIs DEF g, Faulted
  <2>5. Sound(y) /\ Tracked(y, m)
    BY <2>3, <2>4, HaltedGood
  <2>6. Abandoned(g) => Abandoned(y)
    BY <2>4, StaysAbandoned DEF Halted
  <2>7. y.ind = x.ind \cup {"file_segment_recvd"} /\ SameSize(x, y)
    BY SMTT(60), <1>11, <2>2, <2>4 DEF Halted, Faulted, SameSize
  <2> QED
    BY <1>2, <1>11, <2>2, <2>3, <2>4, <2>5, <2>6, <2>7 DEF Halted, Faulted
<1>12. CASE y = Fail(DeclareFault(u, "FilestoreRejection"))
  BY <1>4, <1>9, <1>11, <1>12
<1>13. CASE CanWrite(x.files, x.path) /\ y = Fail(DeclareFault(w, "FilestoreRejection"))
  BY <1>5, <1>10, <1>11, <1>13
<1>14. CASE CanWrite(x.files, x.path) /\ y = q
  BY <1>2, <1>6, <1>10, <1>14 DEF SameSize
<1> QED
  BY <1>1, <1>12, <1>13, <1>14

\* The handler y after an EOF PDU p that reports no error came to the handler x.
EofTaken(x, y, m, p) ==
    /\ Sound(y) /\ Tracked(y, m)
    /\ "FileSizeError" \in y.faults => "FileSizeError" \in x.faults \/ x.progress > p.file_size
    /\ y.ind = x.ind /\ y.result = x.result
    /\ y.state = "Busy" \/ Abandoned(y)
    /\ y.step \notin {"TransactionStart", "SendingFinishedPdu"}

\* handle_no_error_eof_pdu: the checksum of the PDU is either accepted, then
\* the transfer is to be completed with the sender's file, or waited for.  A
\* fault of the file's size means that more has been counted than was sent.
LEMMA NoErrorEofGood ==
    ASSUME NEW x, NEW y, NEW m, NEW p, NEW failure, Sound(x), Tracked(x, m),
           x.state = "Busy", x.step = "ReceivingFileDataPdus",
           ~ m.mixed => p.tx = m.tx,
           p.checksum = Checksum(cfg.transfers[p.tx].cksum_type, cfg.transfers[p.tx].file),
           y = HandleNoErrorEofPdu(x, p, failure)
    PROVE  EofTaken(x, y, m, p)
<1> USE DEF EofTaken
<1> DEFINE too_long == x.progress > p.file_size
           sized == IF too_long THEN DeclareFault(x, "FileSizeError") ELSE x
           u == [sized EXCEPT !.checksum = p.checksum]
           v == ChecksumVerify(u, failure)
           a == v.after
           f == DeclareFault(a, "FileChecksumFailure")
           s == StartCheckLimitHandling(f)
<1>1. y = IF too_long /\ ~ Ignored("FileSizeError") THEN sized
          ELSE IF u.mode = "Acknowledged" THEN FileTransferCompleteTransition(u)
          ELSE IF v.complete THEN FileTransferCompleteTransition(a)
          ELSE IF ~ Ignored("FileChecksumFailure") THEN f
          ELSE s
  BY DEF HandleNoErrorEofPdu
<1>2. "FileSizeError" \in FaultCodes /\ "FileChecksumFailure" \in FaultCodes
  BY DEF FaultCodes
<1>3. IsHandler(x) /\ x.tid = x.tx
  BY DEF Sound
<1>4. Faulted(x, sized) /\ ("FileSizeError" \in sized.faults =>
                               "FileSizeError" \in x.faults \/ x.progress > p.file_size)
  <2>1. CASE too_long
    <3>1. sized = DeclareFault(x, "FileSizeError")
      BY <2>1
    <3> QED
      BY <1>2, <1>3, <2>1, <3>1, DeclareFaultIs
  <2>2. CASE ~ too_long
    <3>1. sized = x
      BY <2>2
    <3> QED
      BY <1>3, <3>1, FaultedNot
  <2> QED
    BY <2>1, <2>2
<1>5. Sound(sized) /\ Tracked(sized, m) /\ (sized.state = "Busy" \/ Abandoned(sized))
        /\ sized.step \in {"ReceivingFileDataPdus", "Idle", "TransferCompletion"}
  BY <1>4, FaultedGood DEF Faulted
<1>6. CASE too_long /\ ~ Ignored("FileSizeError")
  <2>1. y = sized
    BY <1>1, <1>6
  <2> QED
    BY <1>4, <1>5, <2>1 DEF Faulted
<1>7. CASE ~ (too_long /\ ~ Ignored("FileSizeError"))
  <2>1. sized.state = "Busy" /\ sized.step = "ReceivingFileDataPdus"
          /\ sized.status = x.status
    <3>1. CASE too_long
      <4>1. sized = DeclareFault(x, "FileSizeError") /\ Ignored("FileSizeError")
        BY <1>7, <3>1
      <4> QED
        BY <1>2, <1>3, <4>1, IgnoredFaultIs
    <3>2. CASE ~ too_long
      BY <3>2
    <3> QED
      BY <3>1, <3>2
  <2>2. IsHandler(sized) /\ Frame(x, sized) /\ sized.ind = x.ind /\ sized.result = x.result
    BY <1>4 DEF Faulted
  <2> HIDE DEF sized, too_long
  <2>3. /\ IsHandler(u) /\ u.state = "Busy" /\ u.step = "ReceivingFileDataPdus"
        /\ u.files = sized.files /\ u.path = sized.path /\ u.status = sized.status
        /\ u.tx = sized.tx /\ u.tid = sized.tid /\ u.metadata_only = sized.metadata_only
        /\ u.progress = sized.progress /\ u.faults = sized.faults
        /\ u.cksum_type = sized.cksum_type
        /\ u.checksum = p.checksum /\ u.ind = x.ind /\ u.result = x.result
    BY <2>1, <2>2 DEF IsHandler, Fields
  <2> HIDE DEF u
  <2>4. Sound(u)
    BY <1>5, <2>1, <2>3 DEF Sound
  <2>5. Tracked(u, m)
    BY <1>5, <2>1, <2>3 DEF Tracked, Named, Awaited, Intact, Counted
  <2>6. "FileSizeError" \in u.faults =>
           "FileSizeError" \in x.faults \/ x.progress > p.file_size
    BY <1>4, <2>3
  <2>7. /\ Faulted(u, a) /\ SameSize(u, a)
        /\ v.complete /\ u.cksum_type = "Crc32" /\ ~ u.metadata_only
              => /\ a = u
                 /\ Checksum("Crc32", u.files[u.path]) = u.checksum
    BY <2>3, ChecksumVerifyIs DEF SameSize
  <2>8. /\ Sound(a) /\ Tracked(a, m) /\ (a.state = "Busy" \/ Abandoned(a))
        /\ a.step \in {"ReceivingFileDataPdus", "Idle", "TransferCompletion"}
        /\ IsHandler(a) /\ Frame(u, a) /\ a.ind = x.ind /\ a.result = x.result
    BY <2>3, <2>4, <2>5, <2>7, FaultedGood DEF Faulted
  <2>9. CASE u.mode = "Acknowledged"
    <3>1. y = FileTransferCompleteTransition(u)
      BY <1>1, <1>7, <2>9
    <3>2. /\ Sound(y) /\ Tracked(y, m) /\ y.step \in {"TransferCompletion", "SendingAckPdu"}
          /\ y.state = u.state /\ y.ind = u.ind /\ y.result = u.result /\ y.faults = u.faults
      BY SMTT(60), <2>3, <2>4, <2>5, <2>9, <3>1, TransitionGood
    <3> QED
      BY <2>3, <2>6, <3>2
  <2>10. CASE u.mode # "Acknowledged" /\ v.complete
    <3>1. y = FileTransferCompleteTransition(a)
      BY <1>1, <1>7, <2>10
    <3>2. ASSUME a.cksum_type = "Crc32", ~ a.metadata_only, ~ m.mixed
          PROVE  a.files[a.path] = cfg.transfers[a.tid].file
      <4>1. a = u /\ Checksum("Crc32", u.files[u.path]) = p.checksum
        BY <2>3, <2>7, <2>8, <2>10, <3>2 DEF Frame
      <4>2. u.files[u.path] = cfg.transfers[p.tx].file
        BY <4>1, CrcIdentifies
      <4>3. u.tid = p.tx
        BY <2>3, <2>4, <2>5, <3>2, <4>1 DEF Sound, Tracked, Named
      <4> QED
        BY <4>1, <4>2, <4>3
    <3>3. /\ Sound(y) /\ Tracked(y, m) /\ y.step \in {"TransferCompletion", "SendingAckPdu"}
          /\ y.state = a.state /\ y.ind = a.ind /\ y.result = a.result /\ y.faults = a.faults
      BY SMTT(60), <2>8, <3>1, <3>2, TransitionGood
    <3>4. Abandoned(a) => Abandoned(y)
      BY <3>3, StaysAbandoned
    <3> QED
      BY <2>6, <2>7, <2>8, <3>3, <3>4 DEF SameSize
  <2>11. /\ Faulted(a, f) /\ f.faults = a.faults \cup {"FileChecksumFailure"}
    BY SMTT(60), <1>2, <2>8, DeclareFaultIs
  <2> HIDE DEF f
  <2>12. /\ Sound(f) /\ Tracked(f, m) /\ (f.state = "Busy" \/ Abandoned(f))
         /\ f.step \in {"ReceivingFileDataPdus", "Idle", "TransferCompletion"}
         /\ IsHandler(f) /\ Frame(a, f) /\ f.ind = x.ind /\ f.result = x.result
         /\ f.state = a.state \/ Abandoned(f)
    <3>1. Abandoned(a) => Abandoned(f)
      BY <2>11, StaysAbandoned
    <3>2. Sound(f) /\ Tracked(f, m) /\ (f.state = a.state \/ Abandoned(f))
      BY <2>8, <2>11, FaultedGood
    <3> QED
      BY <2>8, <2>11, <3>1, <3>2 DEF Faulted
  <2>13. "FileSizeError" \in f.faults =>
            "FileSizeError" \in x.faults \/ x.progress > p.file_size
    BY <2>6, <2>7, <2>11 DEF SameSize
  <2>14. CASE y = f
    BY <2>12, <2>13, <2>14
  <2>15. CASE y = s
    <3>1. /\ IsHandler(y) /\ Frame(f, y) /\ y.state = f.state /\ y.files = f.files
          /\ y.step = "ReceivingFileDataPdusWithCheckLimitHandling"
          /\ y.status = f.status /\ y.faults = f.faults /\ y.ind = f.ind
          /\ y.result = f.result
      BY SMTT(60), <2>12, <2>15 DEF IsHandler, Fields, Frame, StartCheckLimitHandling
    <3>2. y.checksum = p.checksum
      BY <2>3, <2>8, <2>12, <3>1 DEF Frame
    <3>3. y.state = "Busy" => f.step # "TransactionStart"
      BY <2>12
    <3>4. Sound(y)
      BY <2>12, <3>1 DEF Sound, Frame
    <3>5. Named(y, m) /\ Counted(y, m) /\ Intact(y, m)
      BY <2>12, <3>1 DEF Tracked, Named, Intact, Counted, Frame
    <3>6. Awaited(y, m)
      BY <3>2 DEF Awaited, SentFile
    <3>7. Abandoned(f) => Abandoned(y)
      BY <3>1, StaysAbandoned
    <3> QED
      BY <2>12, <2>13, <3>1, <3>4, <3>5, <3>6, <3>7 DEF Tracked
  <2> QED
    BY <1>1, <1>7, <2>9, <2>10, <2>14, <2>15
<1> QED
  BY <1>6, <1>7

-----------------------------------------------------------------------------
(* A call with a packet                                                    *)

\* A history of the same transaction that has seen as much, or is tainted.
LEMMA TrackedOn ==
    ASSUME NEW x, NEW l, NEW m, Tracked(x, l), m.tx = l.tx, m.offsets = l.offsets,
           m.prior = l.prior, m.reports = l.reports, m.send_failures = l.send_failures,
           l.mixed => m.mixed, l.repeated => m.repeated
    PROVE  Tracked(x, m)
<1>1. Named(x, m)
  BY DEF Tracked, Named
<1>2. Awaited(x, m)
  BY DEF Tracked, Awaited, SentFile
<1>3. Intact(x, m)
  BY DEF Tracked, Intact
<1>4. Counted(x, m)
  BY DEF Tracked, Counted, SentFile
<1> QED
  BY <1>1, <1>2, <1>3, <1>4 DEF Tracked

\* What the history l takes from a packet p that the handler x was given.
Logged(l, m, x, p) ==
    /\ IsLog(m)
    /\ m.tx = l.tx /\ m.prior = l.prior
    /\ m.reports = l.reports /\ m.send_failures = l.send_failures
    /\ m.offsets = IF "file_segment_recvd" \in x.ind
                   THEN l.offsets \cup {p.offset} ELSE l.offsets
    /\ m.repeated <=> \/ l.repeated
                      \/ "file_segment_recvd" \in x.ind /\ p.offset \in l.offsets
    /\ m.mixed <=> \/ l.mixed
                   \/ /\ "file_segment_recvd" \in x.ind \/ "eof_recvd" \in x.ind
                      /\ p.tx # l.tx

\* The log after a packet.
LEMMA LogPacketIs ==
    ASSUME NEW x, NEW p, NEW l, IsLog(l),
           d.state = "Idle" /\ x.state = "Busy" => l = NewLog(p.tx, d.progress),
           ~ (d.state = "Idle" /\ x.state = "Busy") => l = log,
           "file_segment_recvd" \in x.ind => p.offset \in Nat,
           NEW m, m = LogPacket(x, p)
    PROVE  Logged(l, m, x, p)
<1> DEFINE segment == "file_segment_recvd" \in x.ind
           o == IF segment THEN l.offsets \cup {p.offset} ELSE l.offsets
           r == l.repeated \/ (segment /\ p.offset \in l.offsets)
           t == l.mixed \/ ((segment \/ "eof_recvd" \in x.ind) /\ p.tx # l.tx)
<1> DEFINE k == IF d.state = "Idle" /\ x.state = "Busy" THEN NewLog(p.tx, d.progress) ELSE log
<1>0. k = l
  OBVIOUS
<1> HIDE DEF k
<1>1. m = [l EXCEPT !.offsets = o, !.repeated = r, !.mixed = t]
  BY <1>0 DEF LogPacket, k
<1>2. o \subseteq Nat /\ r \in BOOLEAN /\ t \in BOOLEAN
  BY DEF IsLog
<1> HIDE DEF o, r, t
<1>3. /\ IsLog(m) /\ m.tx = l.tx /\ m.prior = l.prior
      /\ m.reports = l.reports /\ m.send_failures = l.send_failures
      /\ m.offsets = o /\ m.repeated = r /\ m.mixed = t
  BY <1>1, <1>2 DEF IsLog
<1> QED
  BY <1>3 DEF Logged, o, r, t

\* A call begins without indications and faults, and with the transaction as it
\* was.
LEMMA NewCallGood ==
    ASSUME NEW l, NEW x, NEW y, Sound(x), Tracked(x, l), y = NewCall(x)
    PROVE  /\ Sound(y) /\ Tracked(y, l)
           /\ y.ind = {} /\ y.faults = {} /\ y.result = "ok"
           /\ y.state = x.state /\ y.step = x.step /\ y.progress = x.progress
<1>1. /\ IsHandler(y) /\ Frame(x, y)
      /\ y.state = x.state /\ y.step = x.step /\ y.files = x.files
      /\ y.status = x.status /\ y.condition = x.condition
      /\ y.ind = {} /\ y.faults = {} /\ y.result = "ok"
  BY DEF IsHandler, Fields, Frame, NewCall, Sound
<1>2. Sound(y)
  BY <1>1 DEF Sound, Frame
<1>3. Tracked(y, l)
  BY <1>1 DEF Tracked, Named, Awaited, Intact, Counted, Frame
<1> QED
  BY <1>1, <1>2, <1>3 DEF Frame

\* The history names a cause for a fault of the file's size.
Caused(l) == l.repeated \/ l.mixed \/ l.prior > 0

\* What insert_packet has done, and what the history has of it.
Inserted(x, y, m) ==
    /\ Sound(y) /\ Tracked(y, m) /\ IsLog(m) /\ ~ Told(y)
    /\ y.state = "Busy" => y.step # "SendingFinishedPdu"
    /\ y.state = "Idle" => x.state = "Idle" \/ Abandoned(y)
    /\ x.state = "Idle" /\ y.state = "Busy" => y.step = "TransactionStart"
    /\ "FileSizeError" \in y.faults => Caused(m)

\* A PDU that the handler rejects, or cannot process.
LEMMA RejectedGood ==
    ASSUME NEW p, NEW y, NEW m, Sound(d), Tracked(d, log), IsLog(log),
           d.state = "Busy" => d.step # "SendingFinishedPdu",
           y \in {Fail(NewCall(d)), Panic(NewCall(d))}, m = LogPacket(y, p)
    PROVE  Inserted(d, y, m)
<1>1. PICK x : x = NewCall(d)
  OBVIOUS
<1>2. /\ Sound(x) /\ Tracked(x, log)
      /\ x.ind = {} /\ x.faults = {} /\ x.state = d.state /\ x.step = d.step
  BY SMTT(60), <1>1, NewCallGood
<1>3. Halted(x, y)
  BY <1>1, <1>2, FailIs, PanicIs DEF Sound
<1>4. Sound(y) /\ Tracked(y, log)
  BY <1>2, <1>3, HaltedGood
<1>5. y.ind = {} /\ y.faults = {} /\ y.state = d.state /\ y.step = d.step
  BY <1>2, <1>3 DEF Halted
<1>6. ~ (d.state = "Idle" /\ y.state = "Busy")
  BY <1>5
<1>7. /\ IsLog(m) /\ m.tx = log.tx /\ m.prior = log.prior
      /\ m.reports = log.reports /\ m.send_failures = log.send_failures
      /\ m.offsets = log.offsets /\ (m.repeated <=> log.repeated) /\ (m.mixed <=> log.mixed)
  <2>1. "file_segment_recvd" \notin y.ind /\ "eof_recvd" \notin y.ind
    BY <1>5
  <2>2. Logged(log, m, y, p)
    BY <1>6, <2>1, LogPacketIs
  <2> QED
    BY <2>1, <2>2 DEF Logged
<1>8. Tracked(y, m)
  BY <1>4, <1>7, TrackedOn
<1> QED
  BY <1>4, <1>5, <1>7, <1>8 DEF Inserted, Told

\* The log of a new transaction.
LEMMA NewLogIs ==
    ASSUME NEW tx \in Txs, NEW progress \in Nat
    PROVE  IsLog(NewLog(tx, progress))
BY DEF IsLog, NewLog

\* A metadata PDU keeps the handler and its log in step ...
LEMMA MetadataInserted ==
    ASSUME NEW p, NEW y, NEW m, Sound(d), Tracked(d, log), IsLog(log),
           d.state = "Busy" => d.step # "SendingFinishedPdu",
           p.tx \in Txs, y = HandleMetadataPdu(NewCall(d), p), m = LogPacket(y, p)
    PROVE  Inserted(d, y, m)
<1>1. PICK x : x = NewCall(d)
  OBVIOUS
<1>2. /\ Sound(x) /\ Tracked(x, log) /\ x.progress = d.progress /\ x.result = "ok"
      /\ x.ind = {} /\ x.faults = {} /\ x.state = d.state /\ x.step = d.step
  BY SMTT(60), <1>1, NewCallGood
<1>3. \/ Halted(x, y) /\ x.state = "Busy"
      \/ /\ Sound(y) /\ Tracked(y, log) /\ x.state = "Idle" /\ y.state = "Idle"
         /\ y.ind = x.ind /\ y.faults = x.faults /\ y.result # "ok"
      \/ /\ Sound(y) /\ Tracked(y, NewLog(p.tx, x.progress))
         /\ x.state = "Idle" /\ y.state = "Busy" /\ y.step = "TransactionStart"
         /\ y.ind = x.ind /\ y.faults = x.faults
  BY <1>1, <1>2, MetadataGood
<1>4. y.ind = {} /\ y.faults = {}
  BY <1>2, <1>3 DEF Halted
<1>5. "file_segment_recvd" \notin y.ind /\ "eof_recvd" \notin y.ind /\ ~ Told(y)
  BY <1>4 DEF Told
<1>6. ASSUME NEW l, Logged(l, m, y, p), Tracked(y, l)
      PROVE  Tracked(y, m)
  BY <1>5, <1>6, TrackedOn DEF Logged
<1>7. CASE d.state = "Idle" /\ y.state = "Busy"
  <2>1. PICK l : l = NewLog(p.tx, d.progress)
    OBVIOUS
  <2>2. Sound(y) /\ Tracked(y, l) /\ y.step = "TransactionStart"
    BY <1>2, <1>3, <1>7, <2>1
  <2>3. IsLog(l)
    BY <2>1, NewLogIs DEF Sound
  <2>4. Logged(l, m, y, p)
    BY <1>5, <1>7, <2>1, <2>3, LogPacketIs
  <2>5. Tracked(y, m)
    BY <1>6, <2>2, <2>4
  <2> QED
    BY <1>4, <1>5, <1>7, <2>2, <2>4, <2>5 DEF Inserted, Logged
<1>8. CASE ~ (d.state = "Idle" /\ y.state = "Busy")
  <2>1. Sound(y) /\ Tracked(y, log) /\ y.state = d.state
          /\ (y.state = "Busy" => y.step = d.step)
    <3>1. CASE Halted(x, y) /\ x.state = "Busy"
      BY <1>2, <3>1, HaltedGood DEF Halted
    <3>2. CASE /\ Sound(y) /\ Tracked(y, log) /\ x.state = "Idle" /\ y.state = "Idle"
      BY <1>2, <3>2
    <3> QED
      BY <1>2, <1>3, <1>8, <3>1, <3>2
  <2>2. Logged(log, m, y, p)
    BY <1>5, <1>8, LogPacketIs
  <2>3. Tracked(y, m)
    BY <1>6, <2>1, <2>2
  <2> QED
    BY <1>4, <1>5, <1>8, <2>1, <2>2, <2>3 DEF Inserted, Logged
<1> QED
  BY <1>7, <1>8

\* ... so does file data, whether or not the write fails ...
LEMMA FileDataInserted ==
    ASSUME NEW p, NEW y, NEW m, NEW failure, Sound(d), Tracked(d, log), IsLog(log),
           d.state = "Busy" => d.step # "SendingFinishedPdu", cfg \in Config,
           p.tx \in Txs, p.offset \in 0..(Len(cfg.transfers[p.tx].file) - 1),
           p.data \in Content, Len(p.data) = 1,
           y = HandleFileData(NewCall(d), p, failure), m = LogPacket(y, p)
    PROVE  Inserted(d, y, m)
<1>1. PICK x : x = NewCall(d)
  OBVIOUS
<1>2. /\ Sound(x) /\ Tracked(x, log) /\ x.progress = d.progress /\ x.result = "ok"
      /\ x.ind = {} /\ x.faults = {} /\ x.state = d.state /\ x.step = d.step
  BY SMTT(60), <1>1, NewCallGood
<1>3. CASE ~ ReceivesData(x)
  <2>1. y = Fail(NewCall(d))
    BY <1>1, <1>3 DEF HandleFileData
  <2> QED
    BY <2>1, RejectedGood
<1>4. CASE ReceivesData(x)
  <2>1. "file_segment_recvd" \in y.ind
    <3> DEFINE u == [x EXCEPT !.ind = @ \cup {"file_segment_recvd"}]
               w == [u EXCEPT !.files = WriteData(@, x.path, p.offset, p.data)]
               q == [w EXCEPT !.progress = @ + Len(p.data)]
    <3>1. \/ y = Fail(DeclareFault(u, "FilestoreRejection"))
          \/ y = Fail(DeclareFault(w, "FilestoreRejection"))
          \/ y = q
      BY <1>1, <1>4 DEF HandleFileData
    <3>2. /\ IsHandler(u) /\ u.ind = {"file_segment_recvd"}
          /\ IsHandler(w) /\ w.ind = {"file_segment_recvd"}
          /\ IsHandler(q) /\ q.ind = {"file_segment_recvd"}
      BY <1>2 DEF Sound, IsHandler, Fields
    <3> HIDE DEF u, w, q
    <3>3. ASSUME NEW z, IsHandler(z)
          PROVE  Fail(DeclareFault(z, "FilestoreRejection")).ind = z.ind
      <4>1. PICK g : g = DeclareFault(z, "FilestoreRejection")
        OBVIOUS
      <4>2. "FilestoreRejection" \in FaultCodes
        BY DEF FaultCodes
      <4>3. Faulted(z, g)
        BY <3>3, <4>1, <4>2, DeclareFaultIs
      <4> QED
        BY <4>1, <4>3, FailIs DEF Faulted, Halted
    <3> QED
      BY <3>1, <3>2, <3>3
  <2>2. d.state = "Busy" /\ ~ (d.state = "Idle" /\ y.state = "Busy")
    BY <1>2, <1>4 DEF ReceivesData, Sound
  <2>3. p.offset \in Nat
    BY SMTT(60)
  <2>4. Logged(log, m, y, p)
    BY <2>2, <2>3, LogPacketIs
  <2>5. /\ Extended(log, m, p) /\ m.offsets = log.offsets \cup {p.offset}
        /\ ~ m.repeated => ~ log.repeated /\ p.offset \notin log.offsets
    BY <2>1, <2>4 DEF Logged, Extended
  <2>6. /\ Sound(y) /\ Tracked(y, m) /\ SameSize(x, y)
        /\ y.ind = x.ind \cup {"file_segment_recvd"}
        /\ y.state = "Busy" \/ Abandoned(y)
        /\ y.step \notin {"TransactionStart", "SendingFinishedPdu"}
    BY <1>1, <1>2, <1>4, <2>5, FileDataGood
  <2> QED
    BY <1>2, <2>2, <2>4, <2>6 DEF Inserted, Logged, SameSize, Told
<1> QED
  BY <1>3, <1>4

\* There are no more segments of one word than words.
LEMMA OffsetsBound ==
    ASSUME NEW n \in Nat, NEW offsets, offsets \subseteq 0..(n - 1)
    PROVE  Cardinality(offsets) \in Nat /\ Cardinality(offsets) <= n
<1>1. IsFiniteSet(0..(n - 1)) /\ Cardinality(0..(n - 1)) = n
  BY SMTT(60), FS_Interval
<1>2. /\ IsFiniteSet(offsets)
      /\ Cardinality(offsets) <= Cardinality(0..(n - 1))
  BY <1>1, FS_Subset
<1> QED
  BY <1>1, <1>2, FS_CardinalityType

\* ... and an EOF PDU.
LEMMA EofInserted ==
    ASSUME NEW p, NEW y, NEW m, NEW failure, Sound(d), Tracked(d, log), IsLog(log),
           d.state = "Busy" => d.step # "SendingFinishedPdu", cfg \in Config,
           p.tx \in Txs, p.file_size = Len(cfg.transfers[p.tx].file),
           p.checksum = Checksum(cfg.transfers[p.tx].cksum_type, cfg.transfers[p.tx].file),
           y = HandleEofPdu(NewCall(d), p, failure), m = LogPacket(y, p)
    PROVE  Inserted(d, y, m)
<1>1. PICK x : x = NewCall(d)
  OBVIOUS
<1>2. /\ Sound(x) /\ Tracked(x, log) /\ x.progress = d.progress /\ x.result = "ok"
      /\ x.ind = {} /\ x.faults = {} /\ x.state = d.state /\ x.step = d.step
  BY SMTT(60), <1>1, NewCallGood
<1>3. CASE x.state = "Idle" \/ x.step # "ReceivingFileDataPdus"
  <2>1. y = Fail(NewCall(d))
    BY <1>1, <1>3 DEF HandleEofPdu
  <2> QED
    BY <2>1, RejectedGood
<1>4. CASE ~ (x.state = "Idle" \/ x.step # "ReceivingFileDataPdus")
  <2>1. PICK u : u = [x EXCEPT !.ind = @ \cup {"eof_recvd"}]
    OBVIOUS
  <2>2. /\ IsHandler(u) /\ Frame(x, u) /\ u.files = x.files /\ u.status = x.status
        /\ u.state = x.state /\ u.step = x.step /\ u.condition = x.condition
        /\ u.faults = x.faults /\ u.ind = {"eof_recvd"} /\ u.result = x.result
    BY <1>2, <2>1 DEF Sound, IsHandler, Fields, Frame
  <2>3. Sound(u) /\ Tracked(u, log) /\ u.state = "Busy" /\ u.step = "ReceivingFileDataPdus"
    <3>1. Sound(u)
      BY <1>2, <2>2 DEF Sound, Frame
    <3>2. Tracked(u, log)
      BY <1>2, <2>2 DEF Tracked, Named, Awaited, Intact, Counted, Frame
    <3> QED
      BY <1>2, <1>4, <2>2, <3>1, <3>2 DEF Sound
  <2>4. ASSUME NEW l, ~ l.mixed => ~ log.mixed /\ p.tx = log.tx, l.tx = log.tx,
               l.prior = log.prior, l.offsets = log.offsets, ~ l.repeated => ~ log.repeated,
               ~ Caused(l)
        PROVE  ~ (u.progress > p.file_size)
    <3>1. /\ ~ l.mixed /\ ~ l.repeated /\ ~ log.mixed /\ ~ log.repeated /\ p.tx = log.tx
      BY <2>4 DEF Caused
    <3>2. log.prior = 0
      BY SMTT(60), <2>4 DEF Caused, IsLog
    <3>3. /\ log.offsets \subseteq 0..(Len(SentFile(log)) - 1)
          /\ u.progress <= Cardinality(log.offsets)
      BY <2>3, <3>1, <3>2 DEF Tracked, Counted
    <3>4. p.file_size = Len(SentFile(log)) /\ SentFile(log) \in Seq(Word)
      BY <3>1 DEF SentFile, Config, Transfer, Content
    <3>5. p.file_size \in Nat
      BY SMTT(60), <3>4
    <3>6. Cardinality(log.offsets) \in Nat /\ Cardinality(log.offsets) <= p.file_size
      BY <3>3, <3>4, <3>5, OffsetsBound
    <3>7. u.progress \in Nat
      BY <2>3 DEF Sound
    <3> QED
      BY SMTT(60), <3>3, <3>5, <3>6, <3>7
  <2>5. CASE p.condition # "NoError"
    <3>1. y = Panic(u)
      BY <1>1, <1>4, <2>1, <2>5 DEF HandleEofPdu
    <3>2. Halted(u, y)
      BY <2>2, <3>1, PanicIs
    <3>3. y.ind = {"eof_recvd"} /\ y.state = "Busy" /\ y.step = "ReceivingFileDataPdus"
            /\ y.faults = {} /\ d.state = "Busy"
      BY <1>2, <2>2, <2>3, <3>2 DEF Halted
    <3>4. Sound(y) /\ Tracked(y, log)
      BY <2>3, <3>2, HaltedGood
    <3>5. Logged(log, m, y, p) /\ "file_segment_recvd" \notin y.ind
      BY <3>3, LogPacketIs
    <3>6. Tracked(y, m)
      BY <3>4, <3>5, TrackedOn DEF Logged
    <3> QED
      BY <3>3, <3>4, <3>5, <3>6 DEF Inserted, Logged, Told
  <2>6. CASE p.condition = "NoError"
    <3>1. y = HandleNoErrorEofPdu(u, p, failure)
      BY <1>1, <1>4, <2>1, <2>6 DEF HandleEofPdu
    <3>2. y.ind = {"eof_recvd"}
      <4>1. \E l : Tracked(u, l) /\ (~ l.mixed => p.tx = l.tx)
        <5>1. PICK l : l = [log EXCEPT !.mixed = TRUE]
          OBVIOUS
        <5>2. /\ l.tx = log.tx /\ l.offsets = log.offsets /\ l.prior = log.prior
              /\ l.reports = log.reports /\ l.send_failures = log.send_failures
              /\ l.mixed = TRUE /\ l.repeated = log.repeated
          BY <5>1 DEF IsLog
        <5> QED
          BY <2>3, <5>2, TrackedOn
      <4>2. PICK l : Tracked(u, l) /\ (~ l.mixed => p.tx = l.tx)
        BY <4>1
      <4>3. EofTaken(u, y, l, p)
        BY <2>3, <3>1, <4>2, NoErrorEofGood
      <4> QED
        BY <2>2, <4>3 DEF EofTaken
    <3>3. d.state = "Busy" /\ "file_segment_recvd" \notin y.ind /\ "eof_recvd" \in y.ind
      BY <1>2, <2>2, <2>3, <3>2
    <3>4. Logged(log, m, y, p)
      BY <3>3, LogPacketIs
    <3>5. /\ m.tx = log.tx /\ m.offsets = log.offsets /\ m.prior = log.prior
          /\ m.reports = log.reports /\ m.send_failures = log.send_failures
          /\ ~ m.mixed => ~ log.mixed /\ p.tx = log.tx
          /\ ~ m.repeated => ~ log.repeated
      BY <3>3, <3>4 DEF Logged
    <3>6. Tracked(u, m) /\ (~ m.mixed => p.tx = m.tx)
      BY <2>3, <3>5, TrackedOn
    <3>7. /\ Sound(y) /\ Tracked(y, m)
          /\ "FileSizeError" \in y.faults =>
                "FileSizeError" \in u.faults \/ u.progress > p.file_size
          /\ y.state = "Busy" \/ Abandoned(y)
          /\ y.step \notin {"TransactionStart", "SendingFinishedPdu"}
      <4>1. EofTaken(u, y, m, p)
        BY <2>3, <3>1, <3>6, NoErrorEofGood
      <4> QED
        BY <4>1 DEF EofTaken
    <3>8. "FileSizeError" \in y.faults => Caused(m)
      BY <1>2, <2>2, <2>4, <3>5, <3>7
    <3> QED
      BY <3>2, <3>3, <3>4, <3>7, <3>8 DEF Inserted, Logged, Told
  <2> QED
    BY <2>5, <2>6
<1> QED
  BY <1>3, <1>4

\* insert_packet keeps the invariant, whatever PDU comes.
LEMMA InsertGood ==
    ASSUME NEW p \in Pdus, NEW y, NEW m, NEW failure, Sound(d), Tracked(d, log), IsLog(log),
           d.state = "Busy" => d.step # "SendingFinishedPdu", cfg \in Config,
           y = InsertPacket(NewCall(d), p, failure), m = LogPacket(y, p)
    PROVE  Inserted(d, y, m)
<1>1. \/ y \in {Fail(NewCall(d)), Panic(NewCall(d))}
      \/ p.kind = "Metadata" /\ y = HandleMetadataPdu(NewCall(d), p)
      \/ p.kind = "Eof" /\ y = HandleEofPdu(NewCall(d), p, failure)
      \/ p.kind = "FileData" /\ y = HandleFileData(NewCall(d), p, failure)
  BY SMTT(60) DEF InsertPacket
<1>2. CASE y \in {Fail(NewCall(d)), Panic(NewCall(d))}
  BY <1>2, RejectedGood
<1>3. CASE p.kind = "Metadata" /\ y = HandleMetadataPdu(NewCall(d), p)
  <2>1. p.tx \in Txs
    BY <1>3, PduIs
  <2> QED
    BY <1>3, <2>1, MetadataInserted
<1>4. CASE p.kind = "Eof" /\ y = HandleEofPdu(NewCall(d), p, failure)
  <2>1. /\ p.tx \in Txs /\ p.file_size = Len(cfg.transfers[p.tx].file)
        /\ p.checksum = Checksum(cfg.transfers[p.tx].cksum_type, cfg.transfers[p.tx].file)
    BY <1>4, PduIs
  <2> QED
    BY <1>4, <2>1, EofInserted
<1>5. CASE p.kind = "FileData" /\ y = HandleFileData(NewCall(d), p, failure)
  <2>1. /\ p.tx \in Txs /\ p.offset \in 0..(Len(cfg.transfers[p.tx].file) - 1)
        /\ p.data \in Content /\ Len(p.data) = 1
    BY <1>5, PduIs
  <2> QED
    BY <1>5, <2>1, FileDataInserted
<1> QED
  BY <1>1, <1>2, <1>3, <1>4, <1>5

-----------------------------------------------------------------------------
(* The steps                                                               *)

\* What the history l takes from the notices of the call that ends with x.
Noticed(l, n, x) ==
    /\ IsLog(n)
    /\ n.tx = l.tx /\ n.prior = l.prior /\ n.offsets = l.offsets
    /\ n.repeated = l.repeated /\ n.mixed = l.mixed
    /\ n.reports = IF Told(x) THEN l.reports + 1 ELSE l.reports
    /\ n.send_failures = IF Told(x) /\ x.result = "err"
                         THEN l.send_failures + 1 ELSE l.send_failures

\* The log after the indications of a call.
LEMMA LogReportsIs ==
    ASSUME NEW l, IsLog(l), NEW x, NEW n, n = LogReports(l, x)
    PROVE  Noticed(l, n, x)
<1> DEFINE r == IF Told(x) THEN l.reports + 1 ELSE l.reports
           s == IF Told(x) /\ x.result = "err"
                THEN l.send_failures + 1 ELSE l.send_failures
<1>1. n = [l EXCEPT !.reports = r, !.send_failures = s]
  BY DEF LogReports, Told
<1>2. r \in Nat /\ s \in Nat
  BY SMTT(60) DEF IsLog
<1> HIDE DEF r, s
<1>3. /\ IsLog(n)
      /\ n.tx = l.tx /\ n.prior = l.prior /\ n.offsets = l.offsets
      /\ n.repeated = l.repeated /\ n.mixed = l.mixed
      /\ n.reports = r /\ n.send_failures = s
  BY <1>1, <1>2 DEF IsLog
<1> QED
  BY <1>3 DEF Noticed, r, s

\* The invariant of the handler x with the history l.
Consistent(x, l) ==
    /\ Sound(x) /\ Tracked(x, l) /\ IsLog(l) /\ Truthful(x, l)
    /\ x.state = "Busy" => x.step # "SendingFinishedPdu"
    /\ "FileSizeError" \in x.faults => Caused(l)

\* A busy handler x that has become idle in z has told its user.
Concluded(x, z, n) ==
    x.state = "Busy" /\ z.state = "Idle" =>
        n.reports = 1 + n.send_failures \/ Abandoned(z)

\* The end of a call: the handler is driven and the history written.
LEMMA CallEnds ==
    ASSUME NEW x, NEW y, NEW z, NEW m, NEW n, NEW failure, Inserted(x, y, m),
           z = Drive(y, failure), n = LogReports(m, z)
    PROVE  Consistent(z, n) /\ Concluded(x, z, n)
<1>1. \/ Halted(y, z)
      \/ y.state = "Busy" /\ y.result = "ok" /\ Driven(y, z, m)
  BY DriveGood DEF Inserted
<1>2. /\ IsLog(n)
      /\ n.tx = m.tx /\ n.prior = m.prior /\ n.offsets = m.offsets
      /\ n.repeated = m.repeated /\ n.mixed = m.mixed
      /\ n.reports = IF Told(z) THEN m.reports + 1 ELSE m.reports
      /\ n.send_failures = IF Told(z) /\ z.result = "err"
                           THEN m.send_failures + 1 ELSE m.send_failures
  <2>1. Noticed(m, n, z)
    BY LogReportsIs DEF Inserted
  <2> QED
    BY <2>1 DEF Noticed
<1>3. Caused(m) => Caused(n)
  BY <1>2 DEF Caused
<1>4. CASE Halted(y, z)
  <2>1. ~ Told(z)
    BY <1>4 DEF Halted, Told, Inserted
  <2>2. n.reports = m.reports /\ n.send_failures = m.send_failures
    BY <1>2, <2>1
  <2>3. Sound(z) /\ Tracked(z, m)
    BY <1>4, HaltedGood DEF Inserted
  <2>4. Tracked(z, n)
    BY <1>2, <2>2, <2>3, TrackedOn
  <2>5. Truthful(z, n)
    BY <2>1 DEF Truthful
  <2>6. "FileSizeError" \in z.faults => Caused(n)
    BY <1>3, <1>4 DEF Halted, Inserted
  <2>7. Abandoned(y) => Abandoned(z)
    BY <1>4, StaysAbandoned DEF Halted
  <2>8. Concluded(x, z, n)
    BY <1>4, <2>7 DEF Concluded, Inserted, Halted
  <2> QED
    BY <1>2, <1>4, <2>3, <2>4, <2>5, <2>6, <2>8 DEF Consistent, Halted, Inserted
<1>5. CASE y.state = "Busy" /\ y.result = "ok" /\ Driven(y, z, m)
  <2>1. m.reports = m.send_failures /\ m.reports \in Nat
    BY <1>5 DEF Inserted, Tracked, Named, IsLog
  <2>2. Sound(z) /\ Tracked(z, m) /\ Truthful(z, m)
    BY <1>5 DEF Driven
  <2>3. Truthful(z, n)
    BY <1>2, <2>2 DEF Truthful
  <2>4. Named(z, n)
    <3>1. z.state = "Busy" => n.reports = n.send_failures
      BY <1>2, <1>5, <2>1 DEF Driven
    <3> QED
      BY <1>2, <2>2, <3>1 DEF Tracked, Named
  <2>5. Awaited(z, n) /\ Intact(z, n)
    BY <1>2, <2>2 DEF Tracked, Awaited, Intact, SentFile
  <2>6. Counted(z, n)
    BY <1>2, <2>2 DEF Tracked, Counted, SentFile
  <2>7. "FileSizeError" \in z.faults => Caused(n)
    BY <1>3, <1>5 DEF Driven, SameSize, Inserted
  <2>8. Concluded(x, z, n)
    BY SMTT(60), <1>2, <1>5, <2>1 DEF Concluded, Driven
  <2> QED
    BY <1>2, <1>5, <2>2, <2>3, <2>4, <2>5, <2>6, <2>7, <2>8
    DEF Consistent, Tracked, Driven
<1> QED
  BY <1>1, <1>4, <1>5

CfdpInv == cfg \in Config /\ Consistent(d, log)

\* A new handler is idle, with nothing in its log.
LEMMA CfdpInit ==
    Init => CfdpInv
<1> SUFFICES ASSUME Init PROVE CfdpInv
  OBVIOUS
<1>1. cfg \in Config
  BY ConfigsAssumption DEF Init
<1>2. /\ IsHandler(d) /\ d.files = InitFiles /\ d.state = "Idle" /\ d.step = "Idle"
      /\ d.progress = 0 /\ d.status = "Unreported" /\ d.ind = {} /\ d.faults = {}
  BY DEF Init, NewHandler, IsHandler, Fields
<1>3. Sound(d)
  BY SMTT(60), <1>2, CfdpAssumption DEF Sound
<1>4. Tracked(d, log)
  BY <1>2 DEF Tracked, Named, Awaited, Intact, Counted
<1>5. IsLog(log)
  BY DEF Init, NewLog, IsLog
<1> QED
  BY <1>1, <1>2, <1>3, <1>4, <1>5 DEF CfdpInv, Consistent, Truthful, Told

\* A call that leaves handler and log consistent keeps the invariant.
LEMMA ConsistentNext ==
    ASSUME NEW z, NEW n, d' = z, log' = n, cfg' = cfg, cfg \in Config, Consistent(z, n)
    PROVE  CfdpInv'
<1>1. Sound(d')
  BY DEF Consistent
<1>2. Tracked(d, log)'
  BY DEF Consistent, Tracked, Named, Awaited, Intact, Counted, SentFile
<1>3. Truthful(d, log)'
  BY DEF Consistent, Truthful
<1> QED
  BY <1>1, <1>2, <1>3 DEF CfdpInv, Consistent

\* A call of state_machine with a packet keeps the invariant.
LEMMA ReceiveKeeps ==
    ASSUME CfdpInv, NEW p \in Pdus, NEW failure, Receive(p, failure)
    PROVE  CfdpInv' /\ Concluded(d, d', log')
<1>1. PICK y : y = InsertPacket(NewCall(d), p, failure)
  OBVIOUS
<1>2. PICK m : m = LogPacket(y, p)
  OBVIOUS
<1>3. Inserted(d, y, m)
  BY <1>1, <1>2, InsertGood DEF CfdpInv, Consistent
<1>4. PICK z : z = Drive(y, failure)
  OBVIOUS
<1>5. d' = z /\ log' = LogReports(LogPacket(z, p), z) /\ cfg' = cfg
  BY <1>1, <1>4 DEF Receive
<1>6. LogPacket(z, p) = m
  <2>1. \/ Halted(y, z)
        \/ y.state = "Busy" /\ y.result = "ok" /\ Driven(y, z, m)
    BY <1>3, <1>4, DriveGood DEF Inserted
  <2>2. /\ "file_segment_recvd" \in z.ind <=> "file_segment_recvd" \in y.ind
        /\ "eof_recvd" \in z.ind <=> "eof_recvd" \in y.ind
    BY <2>1 DEF Halted, Driven
  <2>3. d.state = "Idle" => (z.state = "Busy" <=> y.state = "Busy")
    BY <1>3, <2>1 DEF Halted, Driven, Inserted
  <2> QED
    BY <1>2, <2>2, <2>3 DEF LogPacket
<1>7. Consistent(z, LogReports(m, z)) /\ Concluded(d, z, LogReports(m, z))
  BY <1>3, <1>4, CallEnds
<1>8. CfdpInv'
  BY <1>5, <1>6, <1>7, ConsistentNext DEF CfdpInv
<1> QED
  BY <1>5, <1>6, <1>7, <1>8

\* A call without a packet does.
LEMMA CallKeeps ==
    ASSUME CfdpInv, NEW failure, Call(failure)
    PROVE  CfdpInv' /\ Concluded(d, d', log')
<1>1. PICK y : y = NewCall(d)
  OBVIOUS
<1>2. /\ Sound(y) /\ Tracked(y, log)
      /\ y.ind = {} /\ y.faults = {} /\ y.result = "ok"
      /\ y.state = d.state /\ y.step = d.step
  BY SMTT(60), <1>1, NewCallGood DEF CfdpInv, Consistent
<1>3. Inserted(d, y, log)
  BY <1>2 DEF Inserted, CfdpInv, Consistent, Told
<1>4. PICK z : z = Drive(y, failure)
  OBVIOUS
<1>5. d' = z /\ log' = LogReports(log, z) /\ cfg' = cfg
  BY <1>1, <1>4 DEF Call
<1>6. Consistent(z, LogReports(log, z)) /\ Concluded(d, z, LogReports(log, z))
  BY <1>3, <1>4, CallEnds
<1>7. CfdpInv'
  BY <1>5, <1>6, ConsistentNext DEF CfdpInv
<1> QED
  BY <1>5, <1>6, <1>7

\* The check timer touches nothing that the invariant is about.
LEMMA ExpireKeeps ==
    ASSUME CfdpInv, Expire
    PROVE  CfdpInv' /\ Concluded(d, d', log')
<1>1. PICK y : y = NewCall(d)
  OBVIOUS
<1>2. /\ Sound(y) /\ Tracked(y, log)
      /\ y.ind = {} /\ y.faults = {} /\ y.state = d.state /\ y.step = d.step
  BY SMTT(60), <1>1, NewCallGood DEF CfdpInv, Consistent
<1>3. PICK z : z = [y EXCEPT !.timer = "expired", !.result = d.result]
  OBVIOUS
<1>4. Halted(y, z)
  BY <1>2, <1>3 DEF Sound, IsHandler, Fields, Halted, Frame
<1>5. Sound(z) /\ Tracked(z, log)
  BY <1>2, <1>4, HaltedGood
<1>6. z.ind = {} /\ z.faults = {} /\ z.state = d.state /\ z.step = d.step
  BY <1>2, <1>4 DEF Halted
<1>7. Consistent(z, log)
  BY <1>5, <1>6 DEF Consistent, CfdpInv, Truthful, Told
<1>8. d' = z /\ log' = log /\ cfg' = cfg
  BY <1>1, <1>3 DEF Expire
<1>9. CfdpInv'
  BY <1>7, <1>8, ConsistentNext DEF CfdpInv
<1>10. Concluded(d, z, log)
  BY <1>6 DEF Concluded
<1> QED
  BY <1>8, <1>9, <1>10

\* Every call of the state machine keeps the invariant, and concludes only as
\* Concluded says.
LEMMA CfdpNext ==
    ASSUME CfdpInv, [Next]_vars
    PROVE  CfdpInv' /\ (Next => Concluded(d, d', log'))
<1>1. CASE Next
  <2>1. CASE \E p \in Pdus, failure \in Failures : Receive(p, failure)
    BY <2>1, ReceiveKeeps
  <2>2. CASE \E failure \in Failures : Call(failure)
    BY <2>2, CallKeeps
  <2>3. CASE Expire
    BY <2>3, ExpireKeeps
  <2> QED
    BY <1>1, <2>1, <2>2, <2>3 DEF Next
<1>2. CASE UNCHANGED vars
  <2>1. d' = d /\ log' = log /\ cfg' = cfg
    BY <1>2 DEF vars
  <2>2. CfdpInv'
    BY <2>1, ConsistentNext DEF CfdpInv
  <2>3. Concluded(d, d', log')
    BY <2>1 DEF Concluded
  <2> QED
    BY <2>2, <2>3
<1> QED
  BY <1>1, <1>2

\* The inductive invariant holds in every behaviour.
LEMMA CfdpInvariant ==
    Spec => []CfdpInv
<1>1. CfdpInv /\ [Next]_vars => CfdpInv'
  BY CfdpNext
<1> QED
  BY <1>1, CfdpInit, PTL DEF Spec

\* Whatever the store refuses and whenever, the user who is told that the file
\* of a transaction is retained finds it under the path of the transaction,
\* and the user who is told that it was discarded does not (notice_of_completion
\* after transaction_start, handle_file_data and the removal on cancellation).
THEOREM ReportsMatchTheStore ==
    Spec => []StatusMatchesStore
<1>1. CfdpInv => StatusMatchesStore
  BY DEF CfdpInv, Consistent, Truthful, Told, StatusMatchesStore
<1> QED
  BY <1>1, CfdpInvariant, PTL

\* However its PDUs are lost, repeated or reordered, a file that is reported
\* without an error and was checked with a CRC is the sender's, as long as no
\* PDU of another transaction was taken for one of its own (checksum_verify,
\* at the EOF PDU or when the check timer expires).
THEOREM ReportedFileIsIntact ==
    Spec => []IntactFile
<1>1. CfdpInv => IntactFile
  BY DEF CfdpInv, Consistent, Truthful, Told, IntactFile
<1> QED
  BY <1>1, CfdpInvariant, PTL

\* The loss and the reordering of PDUs never raise a file size error: it takes
\* a segment that came twice, a PDU of another transaction or the progress of
\* an earlier one (handle_no_error_eof_pdu, TransactionParams::reset).
THEOREM SizeErrorsAreCaused ==
    Spec => []SizeErrorHasCause
<1>1. CfdpInv => SizeErrorHasCause
  BY DEF CfdpInv, Consistent, Caused, SizeErrorHasCause
<1> QED
  BY <1>1, CfdpInvariant, PTL

\* A transaction ends with one notice to the user, and one more for each
\* Finished PDU that could not be sent; only one that a fault handler abandons
\* may end without (transfer_completion, declare_fault).
THEOREM TransactionsAreReportedOnce ==
    Spec => ReportedOnce
<1> DEFINE Step == (d.state = "Busy" /\ d'.state = "Idle") =>
                      \/ log'.reports = 1 + log'.send_failures
                      \/ \E code \in d'.faults : cfg.handlers[code] = "AbandonTransaction"
<1>1. CfdpInv /\ [Next]_vars => [Step]_vars
  <2> SUFFICES ASSUME CfdpInv, Next PROVE Step
    OBVIOUS
  <2>1. Concluded(d, d', log')
    BY CfdpNext
  <2> QED
    BY <2>1 DEF Concluded, Abandoned
<1> HIDE DEF Step
<1>2. Spec => [][Step]_vars
  BY <1>1, CfdpInvariant, PTL DEF Spec
<1> QED
  BY <1>2 DEF ReportedOnce, Step

=============================================================================
