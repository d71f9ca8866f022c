----------------------------- MODULE WorClaims -----------------------------
(***************************************************************************)
(* What comments of the repository say of the registers and the code does  *)
(* not do.  Each of these properties is violated in some instance of Wor.  *)
(***************************************************************************)
EXTENDS MCWor

(***************************************************************************)
(* "Those values that were accepted and written by the acceptors and       *)
(* cannot be modified" (sharedlog_indices.c): an entry whose is_written is *)
(* set holds a chosen command.                                             *)
(***************************************************************************)
WrittenIsChosen ==
    \A c \in Clients, x \in Addr :
        written[c][x] => Chosen(x, cspace[c][x].vcmd)

(***************************************************************************)
(* "Wait until ... (2) there is a majority of acceptors that sent ack      *)
(* messages" (wor_steps.c): a client does not wait for more datagrams once *)
(* its row holds a majority.                                               *)
(***************************************************************************)
MajorityEndsCapture ==
    \A c \in Clients :
        pc[c] = "capture_receive" => captureRow[c][call[c].addr] \notin Majority

(***************************************************************************)
(* "Eventually a proposal number big enough will be found" (wor_steps.c):  *)
(* a client alone, with every acceptor up and no datagram lost, captures   *)
(* the register it wants to write.                                         *)
(***************************************************************************)
CaptureSucceeds ==
    \A c \in Clients : pc[c] = "capture_send" ~> pc[c] = "write_send"
=============================================================================
