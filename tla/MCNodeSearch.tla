---------------------------- MODULE MCNodeSearch ----------------------------
(* An instance of NodeSearch for TLC.                                      *)
EXTENDS NodeSearch, TLC

\* The default profile, one that only filters, and one that only scores.
SomeProfiles ==
    {[filter |-> TRUE,  score |-> TRUE,  percentage |-> 0],
     [filter |-> TRUE,  score |-> FALSE, percentage |-> 0],
     [filter |-> FALSE, score |-> TRUE,  percentage |-> 100]}

\* One that may be ignored, and one that only filters.
TwoExtenders ==
    <<[interested |-> TRUE, ignorable |-> TRUE, filter |-> TRUE,
       prioritizer |-> TRUE, weight |-> 2],
      [interested |-> TRUE, ignorable |-> FALSE, filter |-> TRUE,
       prioritizer |-> FALSE, weight |-> 0]>>
=============================================================================
