---------------------------- MODULE MCHumanInbox ----------------------------
(* A small instance of HumanInbox: chair sessions that share one mailbox, and *)
(* answers of every size.                                                    *)
EXTENDS HumanInbox

CONSTANTS b1

MCMailboxOf == [c \in Chairs |-> b1]
MCFit == [a \in Answers |-> CASE a = 1 -> "oversized" [] a = 2 -> "fits" [] OTHER -> "tight"]
=============================================================================
