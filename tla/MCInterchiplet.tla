--------------------------- MODULE MCInterchiplet ---------------------------
(***************************************************************************)
(* The router for TLC, and the refinement mapping that shows it implements *)
(* Mailbox.                                                                *)
(***************************************************************************)
EXTENDS Interchiplet

\* The channel from s to d: what routerBuf holds of it, then what the router
\* has not read yet.
ChannelOf(s, d) ==
  LET queued == SelectSeq(routerBuf[d], LAMBDA m : m.src = s)
      unread == SelectSeq(up[s], LAMBDA c : c.cmd = "send" /\ c.msg.des = d)
  IN  queued \o [k \in DOMAIN unread |-> unread[k].msg]

InboxOf(d) ==
  LET msgs == SelectSeq(down[d], LAMBDA r : r.cmd = "msg")
  IN  [k \in DOMAIN msgs |-> msgs[k].msg]

\* All messages these instances can send: seq is bounded by MaxSend.
BoundedMessage == [src : Chiplets, des : Dests, seq : 1 .. MaxSend, body : Bodies]

Mail == INSTANCE Mailbox WITH
  Message <- BoundedMessage,
  chan  <- [s \in Chiplets |-> [d \in Chiplets |-> ChannelOf(s, d)]],
  asked <- [d \in Chiplets |-> Waiting(d, "recv") + reading[d] > 0],
  inbox <- [d \in Chiplets |-> InboxOf(d)]

\* The router with its endpoints implements one FIFO channel per pair of
\* chiplets: every step of run() is a step of Mailbox or invisible to it,
\* however polls, sends, suspended reads and the shutdown interleave.
ImplementsMailbox == Mail!Spec
=============================================================================
