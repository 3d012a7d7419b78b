----------------------------- MODULE MCReceipts -----------------------------
(* A small instance of Receipts for TLC. *)
EXTENDS Receipts

\* Member 1 hosts for 2 and 3; 3 has not heard of 2 at first.
MCAsks == [i \in Ids |-> [host |-> 1, requester |-> IF i = 3 THEN 3 ELSE 2]]
MCStrangers == [m \in Members |-> IF m = 3 THEN {2} ELSE {}]
=============================================================================
