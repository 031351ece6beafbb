---- MODULE MCCfdpDest ----
EXTENDS CfdpDest, TLC

CONSTANTS t1, t2

MCTxs == {t1, t2}
MCNames == {"", "a", "f", "dir", "..", "bad"}
MCPaths == {"f", "dir", "dir/a"}
MCUtf8Names == MCNames \ {"bad"}
MCJoin(dir, name) == IF dir = "dir" /\ name = "a" THEN "dir/a" ELSE "dir/"
MCFileName(name) == IF name \in {"..", ""} THEN "" ELSE name
MCInitFiles == [p \in MCPaths |-> IF p = "dir" THEN Dir ELSE NoFile]

T(src, dest, mode, closure, type, msg, file) ==
    [src |-> src, dest |-> dest, mode |-> mode, closure |-> closure,
     cksum_type |-> type, msg_to_user |-> msg, file |-> file]

First == T("a", "f", "Unacknowledged", TRUE, "Crc32", FALSE, <<1, 2>>)

Second == T("a", "f", "Unacknowledged", FALSE, "Crc32", FALSE, <<3>>)

Default(second) ==
    [handlers |-> DefaultHandlers, check_limit |-> 2,
     disposition_on_cancellation |-> FALSE,
     transfers |-> t1 :> First @@ t2 :> second,
     known |-> MCTxs]

\* The second transfer in its variants: an empty file, another checksum or
\* mode, no names, a missing or unusable name, a message to the user.
Variants ==
    {Default([Second EXCEPT !.file = << >>]),
     Default([Second EXCEPT !.cksum_type = "Modular", !.dest = "dir"]),
     Default([Second EXCEPT !.cksum_type = "Other", !.closure = TRUE]),
     Default([Second EXCEPT !.cksum_type = "Null", !.mode = "Acknowledged"]),
     Default([Second EXCEPT !.src = "", !.dest = ""]),
     Default([Second EXCEPT !.dest = "", !.msg_to_user = TRUE]),
     Default([Second EXCEPT !.dest = "dir", !.src = ".."]),
     Default([Second EXCEPT !.dest = "bad"])}

\* A configuration that discards files, one that does not know the second
\* sender, and fault handlers of the user.
Configured ==
    {[Default(Second) EXCEPT !.disposition_on_cancellation = TRUE],
     [Default(Second) EXCEPT !.known = {t1}]}
    \cup {[Default(Second) EXCEPT !.handlers = SetFaultHandler(@, c[1], c[2])] :
            c \in {<<"FilestoreRejection", "AbandonTransaction">>,
                   <<"FileSizeError", "IgnoreError">>,
                   <<"FileChecksumFailure", "NoticeOfSuspension">>}}

MCConfigs == Variants \cup Configured
====
