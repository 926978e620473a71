------------------------------- MODULE Mailbox -------------------------------
(***************************************************************************)
(* What the interchiplet router promises the chiplets: one FIFO channel    *)
(* per pair of chiplets, nothing lost, nothing duplicated, and a chiplet   *)
(* is handed one message, from some channel that leads to it, for each     *)
(* time it asks.  Which sender is served first is left open.               *)
(***************************************************************************)
EXTENDS Sequences

CONSTANTS Chiplets, Message

VARIABLES
  chan,   \* chan[s][d]: messages s has sent to d that d has not been handed
  asked,  \* asked[d]: d has asked for a message and has not been handed one
  inbox   \* inbox[d]: handed to d, not yet taken

vars == <<chan, asked, inbox>>

Init ==
  /\ chan = [s \in Chiplets |-> [d \in Chiplets |-> <<>>]]
  /\ asked = [d \in Chiplets |-> FALSE]
  /\ inbox = [d \in Chiplets |-> <<>>]

Put(s, d) ==
  /\ \E m \in Message :
       /\ m.src = s /\ m.des = d
       /\ chan' = [chan EXCEPT ![s][d] = Append(@, m)]
  /\ UNCHANGED <<asked, inbox>>

Ask(d) ==
  /\ asked' = [asked EXCEPT ![d] = TRUE]
  /\ UNCHANGED <<chan, inbox>>

Deliver(s, d) ==
  /\ asked[d] /\ inbox[d] = <<>>
  /\ chan[s][d] # <<>>
  /\ inbox' = [inbox EXCEPT ![d] = <<Head(chan[s][d])>>]
  /\ chan' = [chan EXCEPT ![s][d] = Tail(@)]
  /\ asked' = [asked EXCEPT ![d] = FALSE]

Take(d) ==
  /\ inbox[d] # <<>>
  /\ inbox' = [inbox EXCEPT ![d] = <<>>]
  /\ UNCHANGED <<chan, asked>>

Next == \E d \in Chiplets : Ask(d) \/ Take(d) \/ \E s \in Chiplets : Put(s, d) \/ Deliver(s, d)

Spec == Init /\ [][Next]_vars
=============================================================================
