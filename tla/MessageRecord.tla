---------------------------- MODULE MessageRecord ----------------------------
(***************************************************************************)
(* The timing model's view of the inter-chiplet system calls               *)
(* (SyscallMdl::runEnter, sniper/common/core/syscall_model.cc): its own    *)
(* table of open ports, des_addr_map, and the file message_record.txt from *)
(* which the traffic is reconstructed afterwards.  It learns of a call     *)
(* only after the recorder has carried it out.                             *)
(*                                                                         *)
(* A record keeps, besides the fields the file has, the message the call   *)
(* moved (None if it moved none): history, which no operator reads.        *)
(***************************************************************************)
EXTENDS Integers, Sequences

CONSTANTS None, Ports

VARIABLES
  des_addr_map,  \* des_addr_map[c][p]: where p is connected to, or None
  msg_record     \* msg_record[c]: the records chiplet c has written

recordVars == <<des_addr_map, msg_record>>

RecordInit(C) ==
  /\ des_addr_map = [c \in C |-> [p \in Ports |-> None]]
  /\ msg_record = [c \in C |-> <<>>]

\* SYSCALL_REMOTE_READ (kind "recv") and SYSCALL_REMOTE_WRITE ("send") on
\* port p by the thread on the given core.
RecordMessage(c, kind, p, core, m) ==
  /\ msg_record' =
       IF des_addr_map[c][p] = None THEN msg_record
       ELSE [msg_record EXCEPT ![c] = Append(@,
               [kind |-> kind, port |-> p, remoteAddr |-> des_addr_map[c][p].addr,
                remotePort |-> des_addr_map[c][p].port, core |-> core, msg |-> m])]
  /\ UNCHANGED des_addr_map

\* SYSCALL_CONNECT
RecordConnect(c, p, addr, rport) ==
  /\ des_addr_map' =
       IF des_addr_map[c][p] # None THEN des_addr_map
       ELSE [des_addr_map EXCEPT ![c][p] = [addr |-> addr, port |-> rport]]
  /\ UNCHANGED msg_record

\* Mutant: a closed port stays in the table.
RecordDisconnectKeep(c, p) == UNCHANGED recordVars

\* SYSCALL_DISCONNECT
RecordDisconnect(c, p) ==
  /\ des_addr_map' = [des_addr_map EXCEPT ![c][p] = None]
  /\ UNCHANGED msg_record
=============================================================================
