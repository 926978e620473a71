----------------------------- MODULE RecordedNet -----------------------------
(***************************************************************************)
(* The chiplets of ChipletNet together with what record_combine makes of   *)
(* the records they have written.                                          *)
(***************************************************************************)
EXTENDS ChipletNet, RecordCombine

Serving == phase \notin {"exit", "stopped"}

\* Every pair record_combine forms is a message: the recv record was written
\* for the message whose send record it is matched with.  Nothing in the
\* files says so; it rests on the router's order, on the order in which
\* threads write records after releasing socketMutex, and on des_addr_map
\* agreeing with bufMap.
PairsAreMessages ==
  Serving => LET phy == Combine(N, msg_record).phy IN
             \A k \in DOMAIN phy : phy[k].send.rec.msg = phy[k].recv.rec.msg

\* "Error: a message not sent" is not printed for files cut off at a moment
\* when no living thread still owes its record.
AllSent ==
  (/\ Serving
   /\ \A t \in Threads : pc[t] \notin {"sendret", "report"}
   /\ \A c \in Chiplets : proc[c] = "up") => Combine(N, msg_record).notSent = <<>>

Remote(conn) == IF conn = None THEN None ELSE [addr |-> conn.addr, port |-> conn.port]

\* The recorder's table of ports and the timing model's agree on every port
\* that no thread is opening or closing, although each is updated under a
\* lock of its own and at a different time.
TablesAgree ==
  \A c \in Chiplets, p \in Ports :
    (/\ proc[c] = "up"
     /\ \A t \in Mates(c) :
          pc[t] = "report" /\ call[t].op \in {"connect", "disconnect"} => call[t].port # p)
    => des_addr_map[c][p] = Remote(bufMap[c][p])
=============================================================================
