----------------------------- MODULE BudgetLedger -----------------------------
(***************************************************************************)
(* What the engine promises a campaign owner: a ledger that keeps, for     *)
(* every day, what was charged to each campaign and, for every second, how *)
(* many bids it made.  A call is granted if and only if the day's charges  *)
(* stay within the budget and the pacing curve and the second's bids stay  *)
(* within the QPS limit, and only a granted call is charged.               *)
(*                                                                         *)
(* The ledger never forgets: it has a page for every day and every second. *)
(* The engine keeps one map for one day and one window per campaign.       *)
(***************************************************************************)
EXTENDS CampaignRules

CONSTANTS Seconds, Days, NoCampaign

VARIABLES
  charged,  (* charged[d][c]: what campaign c was charged for day d.        *)
  bids,     (* bids[s][c]: how many bids c was granted in second s.         *)
  reply     (* The last answer: which campaign, at what time, granted?      *)

ledgerVars == <<charged, bids, reply>>

LedgerInit ==
  /\ charged = [d \in Days |-> [c \in Campaigns |-> 0]]
  /\ bids = [s \in Seconds |-> [c \in Campaigns |-> 0]]
  /\ reply \in [campaign : {NoCampaign}, at : Seconds, ok : {FALSE}]

(***************************************************************************)
(* The pacing curve as a campaign owner reads it: an evenly paced campaign *)
(* may have spent the elapsed share of its budget, with the tolerance, 25% *)
(* over when none is configured; no share is smaller than that of          *)
(* MinElapsed and one bid is always within the curve.                      *)
(***************************************************************************)
Percent(c) == IF PacingTolerance[c] = 0 THEN 125 ELSE PacingTolerance[c]

OnCurve(c, total, t) ==
  \/ c \notin EvenPaced
  \/ DailyBudget[c] = 0
  \/ total <= BidCPM[c]
  \/ \E e \in {Elapsed(t), MinElapsed} :
       total * SecondsPerDay * 100 <= DailyBudget[c] * e * Percent(c)

Fits(c, t) ==
  LET next == charged[Day(t)][c] + BidCPM[c]
  IN  /\ BelowQPS(c, bids[t][c])
      /\ WithinBudget(c, next)
      /\ OnCurve(c, next, t)

Grant(c, t) ==
  /\ Fits(c, t)
  /\ charged' = [charged EXCEPT ![Day(t)][c] = @ + BidCPM[c]]
  /\ bids' = [bids EXCEPT ![t][c] = @ + 1]
  /\ reply' = [campaign |-> c, at |-> t, ok |-> TRUE]

Deny(c, t) ==
  /\ ~Fits(c, t)
  /\ reply' = [campaign |-> c, at |-> t, ok |-> FALSE]
  /\ UNCHANGED <<charged, bids>>

LedgerNext ==
  \E c \in Campaigns, t \in Seconds : Grant(c, t) \/ Deny(c, t)

LedgerSpec == LedgerInit /\ [][LedgerNext]_ledgerVars
=============================================================================
