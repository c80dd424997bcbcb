-------------------------- MODULE MCFeedResilience --------------------------
(***************************************************************************)
(* Instance of FeedResilience for TLC: one live feed that replay-dlq asks  *)
(* another product for, and a queue in which earlier processes may have    *)
(* left an entry of that feed or of a feed whose name it does not know.    *)
(***************************************************************************)
EXTENDS FeedResilience

CONSTANTS cfd, other, CFD, EUA

MCFeed == {cfd, other}

MCSourceOf == [f \in MCFeed |-> CFD]

MCReplaySource == [f \in MCFeed |-> IF f = cfd THEN EUA ELSE NULL]

MCBacklog == {<<>>, <<[feed |-> other, replayed |-> FALSE]>>,
              <<[feed |-> cfd, replayed |-> FALSE]>>}

=============================================================================
