---------------------------- MODULE RecordCombine ----------------------------
(***************************************************************************)
(* record_combine/record_combine.cpp: the send and receive records of all  *)
(* chiplets are matched into messages from core to core.  The records are  *)
(* those of MessageRecord; record_transfer has put the chiplet's own       *)
(* address into every line (sniper/changes/record_transfer.cpp).           *)
(***************************************************************************)
EXTENDS Integers, Sequences, SequencesExt

\* record_transfer on the file of chiplet c.
RecordTransfer(c, file) ==
  [k \in DOMAIN file |-> [localAddr |-> c, rec |-> file[k]]]

\* readRecord on record_0.txt, record_1.txt, ...: one queue of the lines of
\* a kind, chiplet by chiplet.
ReadRecord(kind, n, files) ==
  FoldLeft(LAMBDA q, c :
             q \o SelectSeq(RecordTransfer(c, files[c]), LAMBDA l : l.rec.kind = kind),
           <<>>, [i \in 1 .. n |-> i - 1])

\* The key of a line in coreIdMap: source and destination, with ports.
SendKey(l) == <<l.localAddr, l.rec.port, l.rec.remoteAddr, l.rec.remotePort>>

\* Mutant: the two ends of a receive are not swapped.
RecvKeyUnswapped(l) == <<l.localAddr, l.rec.port, l.rec.remoteAddr, l.rec.remotePort>>

RecvKey(l) == <<l.rec.remoteAddr, l.rec.remotePort, l.localAddr, l.rec.port>>

\* Mutant: a recv takes the latest send of its key.
GetCoreTracesLast(qSend, qRecv) ==
  FoldLeft(LAMBDA acc, l :
             LET k == SelectLastInSeq(acc.left, LAMBDA s : SendKey(s) = RecvKey(l)) IN
             IF k = 0 THEN [acc EXCEPT !.notSent = Append(@, l)]
             ELSE [acc EXCEPT !.left = RemoveAt(@, k),
                              !.phy = Append(@, [send |-> acc.left[k], recv |-> l])],
           [left |-> qSend, phy |-> <<>>, notSent |-> <<>>], qRecv)

\* getCoreTraces.  The sends are queued per key, so the queue of a key is
\* what is left of qSend of that key; a recv takes the front of its queue,
\* or reports "a message not sent".  The final sort orders phy by time; times
\* are not modelled, and nothing said of phy depends on its order.
GetCoreTraces(qSend, qRecv) ==
  FoldLeft(LAMBDA acc, l :
             LET k == SelectInSeq(acc.left, LAMBDA s : SendKey(s) = RecvKey(l)) IN
             IF k = 0 THEN [acc EXCEPT !.notSent = Append(@, l)]
             ELSE [acc EXCEPT !.left = RemoveAt(@, k),
                              !.phy = Append(@, [send |-> acc.left[k], recv |-> l])],
           [left |-> qSend, phy |-> <<>>, notSent |-> <<>>], qRecv)

\* main() for n chiplets.
Combine(n, files) ==
  GetCoreTraces(ReadRecord("send", n, files), ReadRecord("recv", n, files))
=============================================================================
