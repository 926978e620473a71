---------------------------- MODULE MCChipletNet ----------------------------
(***************************************************************************)
(* Instances of ChipletNet for TLC.                                        *)
(***************************************************************************)
EXTENDS RecordedNet, TLC

CONSTANTS a1, a2, b1

Connect(p, d, q) == [op |-> "connect", port |-> p, addr |-> d, rport |-> q]
Disconnect(p) == [op |-> "disconnect", port |-> p]
Read(p) == [op |-> "read", port |-> p]
Write(p) == [op |-> "write", port |-> p]

TwoPorts == {1, 2}
TwoPortBodies == TwoPorts \X TwoPorts

\* Chiplet 0 has two threads, chiplet 1 has one.
HomeTwoOne == (a1 :> 0) @@ (a2 :> 0) @@ (b1 :> 1)

\* Port 1 is closed and opened again between two messages for it; the
\* message for port 2 comes first or last; ports are used before they are
\* opened, and opened twice.
PortPrograms ==
  {(a1 :> <<Connect(1, 1, 1), Read(1), Disconnect(1), Connect(1, 1, 1), Read(1)>>) @@
   (a2 :> <<Connect(2, 1, 2), Read(2), Write(2)>>) @@
   (b1 :> w) :
     w \in {<<Connect(1, 0, 1), Connect(2, 0, 2), Write(2), Write(1), Write(1)>>,
            <<Connect(1, 0, 1), Write(1), Write(2), Read(2), Connect(1, 0, 1), Write(1),
              Connect(2, 0, 2), Write(2)>>}}

\* Every port is opened once and used by one thread; the two directions of
\* port 1 and the message of port 2 interleave freely.
SteadyPrograms ==
  {(a1 :> <<Connect(1, 1, 1), Write(1), Read(1), Read(1)>>) @@
   (a2 :> <<Connect(2, 1, 2), Read(2)>>) @@
   (b1 :> <<Connect(1, 0, 1), Connect(2, 0, 2)>> \o w) :
     w \in {<<Write(2), Write(1), Read(1), Write(1)>>, <<Write(1), Write(1), Write(2)>>}}

\* Two readers of one chiplet, served by one writer.
ReaderPrograms ==
  {(a1 :> <<Connect(1, 1, 1), Read(1)>>) @@
   (a2 :> <<Connect(2, 1, 2), Read(2)>>) @@
   (b1 :> <<Connect(1, 0, 1), Connect(2, 0, 2), Write(2), Write(1)>>)}
=============================================================================
