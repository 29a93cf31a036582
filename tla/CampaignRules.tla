---------------------------- MODULE CampaignRules ----------------------------
(***************************************************************************)
(* The part of a campaign's configuration that the reservation of a bid    *)
(* reads, and the calendar arithmetic the engine does on the receipt time  *)
(* of a request.                                                           *)
(*                                                                         *)
(* Money is counted in integer units: one unit is the smallest amount      *)
(* price/1000 a bid can add to the spend.  Time is counted in seconds, the *)
(* resolution of both the QPS window (now.Unix()) and the pacing clock     *)
(* (hours, minutes and seconds of the UTC day).                            *)
(***************************************************************************)
EXTENDS Integers

CONSTANTS
  Campaigns,       (* The identifiers of the configured campaigns.          *)
  BidCPM,          (* The price every bid of a campaign reserves.           *)
  DailyBudget,     (* The budget of a campaign; 0 means no budget.          *)
  QPS,             (* Bids per second of a campaign; 0 means no limit.      *)
  EvenPaced,       (* The campaigns whose pacing_mode is "even".            *)
  PacingTolerance, (* Pacing tolerance in percent; 0 means the default.     *)
  SecondsPerDay,   (* 86400 in the code.                                    *)
  MinElapsed       (* Least elapsed time pacing assumes: 60 in the code.    *)

(***************************************************************************)
(* What config.Load lets through: prices are positive, limits are not      *)
(* negative.                                                               *)
(***************************************************************************)
ASSUME CampaignAssumption ==
  /\ BidCPM \in [Campaigns -> Nat \ {0}]
  /\ DailyBudget \in [Campaigns -> Nat]
  /\ QPS \in [Campaigns -> Nat]
  /\ EvenPaced \subseteq Campaigns
  /\ PacingTolerance \in [Campaigns -> Nat]

ASSUME CalendarAssumption ==
  /\ SecondsPerDay \in Nat \ {0}
  /\ MinElapsed \in 1 .. SecondsPerDay

Day(t) == t \div SecondsPerDay

Elapsed(t) == t % SecondsPerDay

DefaultTolerance == 125

Tolerance(c) ==
  IF PacingTolerance[c] = 0 THEN DefaultTolerance ELSE PacingTolerance[c]

(* Mutant: the day starts with an empty share. *)
PacingFromMidnight(c, next, t) ==
  (c \in EvenPaced /\ DailyBudget[c] > 0) =>
    \/ next * SecondsPerDay * 100 <= DailyBudget[c] * Elapsed(t) * Tolerance(c)
    \/ next <= BidCPM[c]

(* Mutant: the limit is compared with the spend before the price. *)
PacingOnSpent(c, next, t) ==
  (c \in EvenPaced /\ DailyBudget[c] > 0) =>
    LET elapsed == IF Elapsed(t) > MinElapsed THEN Elapsed(t) ELSE MinElapsed
    IN  (next - BidCPM[c]) * SecondsPerDay * 100 <= DailyBudget[c] * elapsed * Tolerance(c)

(***************************************************************************)
(* pacingAllows: an evenly paced campaign with a budget may have spent the *)
(* share of the budget that the elapsed part of the day is worth, times    *)
(* the tolerance, and always the price of one bid.  The comparison of two  *)
(* fractions is multiplied out.                                            *)
(***************************************************************************)
PacingAllows(c, next, t) ==
  (c \in EvenPaced /\ DailyBudget[c] > 0) =>
    LET elapsed == IF Elapsed(t) > MinElapsed THEN Elapsed(t) ELSE MinElapsed
    IN  \/ next * SecondsPerDay * 100 <= DailyBudget[c] * elapsed * Tolerance(c)
        \/ next <= BidCPM[c]

WithinBudget(c, next) == DailyBudget[c] > 0 => next <= DailyBudget[c]

BelowQPS(c, count) == QPS[c] > 0 => count < QPS[c]
=============================================================================
