--------------------------- MODULE MC_AdAuctions ---------------------------
(***************************************************************************)
(* A small server for AdAuctions: two worker threads, two bidders and one  *)
(* scorer, of which one bidder and the scorer are remote and may change.   *)
(***************************************************************************)
EXTENDS AdAuctions, TLC

CONSTANTS t1, t2, b1, b2, s1, u0, o1, o2, o3

MCThreads == {t1, t2}

\* b1 always bids 2; b2 bids its source version.
MCBidOf(u, v) == IF u = b1 THEN 2 ELSE v

\* Scorer version v scores v * bid - 1: a b2 bid of 1 scores 0 under version 1,
\* and b1 and b2 tie whenever b2 is at version 2.
MCScoreOf(v, b) == v * b - 1

\* ig3's owner is not a buyer; the second auction names an unknown bidder
\* and an unknown scorer.
MCAuctions ==
    { [igs |-> <<[name |-> "ig1", owner |-> o1, bidder |-> b1],
                 [name |-> "ig2", owner |-> o2, bidder |-> b2],
                 [name |-> "ig3", owner |-> o3, bidder |-> b1]>>,
       buyers |-> {o1, o2}, scorer |-> s1],
      [igs |-> <<[name |-> "ig4", owner |-> o1, bidder |-> u0],
                 [name |-> "ig5", owner |-> o1, bidder |-> b2]>>,
       buyers |-> {o1}, scorer |-> u0] }

MCSymmetry == Permutations(MCThreads)
=============================================================================
