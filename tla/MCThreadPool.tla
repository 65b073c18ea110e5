---------------------------- MODULE MCThreadPool ----------------------------
(* Values for the constants of ThreadPool that a .cfg cannot write. *)
EXTENDS ThreadPool

CONSTANTS w1, w2, j1, j2, j3

\* j2 is pushed by j1 while it runs.
OneChild == [j \in Jobs |-> IF j = j2 THEN j1 ELSE NoJob]

MixedPriorities == [j \in Jobs |-> IF j = j1 THEN "high" ELSE "low"]

\* One worker serves both priorities, one the lower one alone.
BothAndLow == [w \in Workers |-> IF w = w1 THEN <<"high", "low">> ELSE <<"low">>]

\* Both workers; one, the other may be pushed later; and one that has no priority.
Full == [w \in Workers |-> IF w = w1 THEN {"high", "low"} ELSE {"low"}]

ThreeSetups == {[team |-> <<w1, w2>>, serves |-> Full],
                [team |-> <<w1>>, serves |-> Full],
                [team |-> <<w1, w2>>, serves |-> [Full EXCEPT ![w2] = {}]]}
=============================================================================
