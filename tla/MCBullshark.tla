---------------------------- MODULE MCBullshark ----------------------------
(***************************************************************************)
(* Four authorities of equal stake and LastRound rounds.  In the complete  *)
(* DAG every certificate has all certificates of the round below as        *)
(* parents.  In the others a leader has fewer children, so that it has too *)
(* little support, or just enough, or no path from the next leader, and a  *)
(* certificate of the round above it has at most one child: it may arrive  *)
(* after everything else, when it gives a leader its support too late, or  *)
(* below the gc round.                                                     *)
(***************************************************************************)
EXTENDS Bullshark, TLC

CONSTANT LastRound

\* The first validator never crashes, the second may do so once.
MCValidator == {1, 2}
MCMaxCrashes == <<0, 1>>

MCAuthority == 1..4
MCStake == [a \in MCAuthority |-> 1]

\* The leaders of rounds 2, 4 and 6 before any swap.  With equal scores the swap
\* table takes 4 for good and 1 for bad.
MCBaseLeader == [r \in 1..LastRound |-> CASE r = 4 -> 1 [] r = 6 -> 3 [] OTHER -> 2]
MCChoice == [r \in 1..LastRound |-> r]

Certificates == (1..LastRound) \X MCAuthority

\* children[c] are the authors of the next round that have c as a parent.
Dag(children) ==
    [c \in Certificates |->
        {p \in Certificates : /\ Round(p) = Round(c) - 1
                              /\ p \in DOMAIN children => Origin(c) \in children[p]}]

\* The certificates that may lead rounds 2 and 4.
Leaders == {<<2, 2>>, <<4, 1>>, <<4, 4>>}

\* A leader few certificates have as a parent, and a late certificate above it.
MCDags == {Dag(<<>>)} \cup
    {Dag((l :> voters) @@ (<<Round(l) + 1, a>> :> late)) :
        l \in Leaders, voters \in {{}, {1}, {2, 3}, {2, 3, 4}},
        a \in {1, 2, 4}, late \in {{}, {1}}}
============================================================================
