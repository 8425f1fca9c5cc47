-------------------------- MODULE ArbitrationRules -------------------------
(* The decision over the approvals recorded for a job: DecideArbitration, on *)
(* what the database returns, while approvals are recorded one by one and    *)
(* time passes.                                                              *)
EXTENDS ArbitrationOrder, Sequences, FiniteSets

CONSTANTS Pool,     \* the approvals that may be reported
          Window,   \* arbitration window
          Horizon   \* bound: the last instant of the clock

ASSUME PoolAssumption == Pool \subseteq Approved
ASSUME RulesAssumption == Window \in Nat \ {0} /\ Horizon \in Nat

VARIABLES approvals, \* the rows of candidate_approvals of the job
          now
rulesVars == <<approvals, now>>

\* The elements of a set as a sequence, by the elements that come before each.
InOrder(before) ==
  [i \in 1..Cardinality(DOMAIN before) |->
     CHOOSE c \in DOMAIN before : Cardinality(before[c]) = i - 1]
\* ORDER BY approved_at, candidate_id
Listed(left, right) ==
  left.approvedAt < right.approvedAt \/ (left.approvedAt = right.approvedAt /\ left.id < right.id)
Listing(rows) == InOrder([c \in rows |-> {d \in rows : Listed(d, c)}])
Ranking(rows) == InOrder([c \in rows |-> {d \in rows : Better(d, c)}])
\* The first approval opens the window.
Deadline(rows) ==
  LET first == CHOOSE c \in rows : \A d \in rows : c.approvedAt <= d.approvedAt
  IN  first.approvedAt + Window

\* Mutant: an approval at the deadline itself still counts.
InTimeInclusive(c, deadline) == c.approvedAt <= deadline
InTime(c, deadline) == c.approvedAt < deadline
Waits(eligible, deadline, at) ==
  Cardinality(eligible) = 0 \/ (Cardinality(eligible) = 1 /\ at < deadline)
Losers(ranked) == Tail(ranked)

\* Filtering the list and sorting it by the time of approval leave it in the
\* order it was read in; Better has no ties, so the ranking is unique.
DecideArbitration(rows, deadline, at) ==
  LET eligible == {c \in rows : InTime(c, deadline)}
      first == Listing(eligible)
      ranked == Ranking(eligible)
  IN  IF Waits(eligible, deadline, at)
        THEN [decided |-> FALSE]
        ELSE [decided |-> TRUE,
              winner |-> ranked[1],
              losers |-> Losers(ranked),
              reason |-> IF Len(first) = 1 THEN "ARBITRATION_DEADLINE_EXPIRED"
                         ELSE Reason(first[1], first[2])]

Decision == DecideArbitration(approvals, Deadline(approvals), now)

RulesInit == approvals = {} /\ now = 0

\* An approval arrives, possibly long after it was given.
RecordApproval(c) ==
  /\ c.completionAt <= c.approvedAt /\ c.approvedAt <= now
  /\ \A d \in approvals : d.id # c.id
  /\ approvals' = approvals \union {c}
  /\ UNCHANGED now

Advance ==
  /\ now < Horizon
  /\ now' = now + 1
  /\ UNCHANGED approvals

RulesNext == Advance \/ \E c \in Pool : RecordApproval(c)
RulesSpec == RulesInit /\ [][RulesNext]_rulesVars

-----------------------------------------------------------------------------
InWindow == LET deadline == Deadline(approvals)
            IN  {c \in approvals : c.approvedAt < deadline}
Decided == approvals # {} /\ Decision.decided

\* Of two candidates that differ, the one the design prefers: the first of the
\* six ranks on which they differ, then slskd, then the earlier completion.
Prefers(c, d) ==
  LET merit(x) == [i \in Ranks |-> IF i = 3 THEN 0 - x.quality[3] ELSE x.quality[i]]
      tail(x) == <<IF x.source = "slskd" THEN 1 ELSE 0, 0 - x.completionAt, 0 - x.id>>
      key(x) == [i \in 1..9 |-> IF i <= 6 THEN merit(x)[i] ELSE tail(x)[i - 6]]
      differ == {i \in 1..9 : key(c)[i] # key(d)[i]}
      least == CHOOSE i \in differ : \A j \in differ : i <= j
  IN  differ # {} /\ key(c)[least] > key(d)[least]

\* The winner is a candidate of the window that the design prefers to each
\* other one of it, whatever order the approvals arrived in, and exactly those
\* others lose, each of them once.
WinnerPreferred ==
  Decided =>
    LET decision == Decision
        others == InWindow \ {decision.winner}
    IN  /\ decision.winner \in InWindow
        /\ \A c \in others : Prefers(decision.winner, c)
        /\ {decision.losers[i] : i \in DOMAIN decision.losers} = others
        /\ Len(decision.losers) = Cardinality(others)

\* An approval given at or after the deadline leaves a decision as it is, in
\* winner, losers and reason.
LateApprovalIgnored ==
  [][Decided /\ (\A c \in approvals' \ approvals :
                   c.approvedAt >= Deadline(approvals))
       => Decision' = Decision]_rulesVars
=============================================================================
