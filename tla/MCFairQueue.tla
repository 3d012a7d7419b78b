---------------------------- MODULE MCFairQueue ----------------------------
(* Small instances of FairQueue for TLC. *)
EXTENDS FairQueue

CONSTANTS a, b, a1, a2, a4, b1, r1, r2

\* Member a keeps a deep queue; a4 retries the request of a1 under the same
\* request id.
MCMemberID == [i \in Items |-> IF i = b1 THEN b ELSE a]
MCRequestID == [i \in Items |-> IF i = a2 THEN r2 ELSE r1]

Setting(active, perMember, total) ==
  [MaxActive |-> active, MaxQueuedPerMember |-> perMember,
   MaxQueuedTotal |-> total]

\* The zero setting is normalized to one slot, one waiting request per member.
MCLimits == {Setting(0, 0, 0), Setting(1, 2, 3), Setting(2, 2, 2)}
=============================================================================
