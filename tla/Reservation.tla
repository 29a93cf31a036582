----------------------------- MODULE Reservation -----------------------------
(***************************************************************************)
(* The budget, pacing and QPS state of bidder.Engine and the operations on *)
(* it: reserve, Snapshot and the restart that loses it.                    *)
(*                                                                         *)
(* The handler of a request reads the clock first (`received') and calls   *)
(* reserve much later, under the engine's mutex.  A call therefore carries *)
(* a time that lies behind the clock, and two calls may enter the mutex in *)
(* the opposite order of their times.  MaxLag and Overtaking say how far   *)
(* the environment of an instance goes.                                    *)
(*                                                                         *)
(* charged, bids, openings and windows are history variables: they record  *)
(* what was granted and how often the engine started from empty state, and *)
(* no step reads them.                                                     *)
(***************************************************************************)
EXTENDS CampaignRules

CONSTANTS
  StartSecond,   (* The time NewEngine runs.                                *)
  LastSecond,    (* Bound: the clock stops here.                            *)
  MaxLag,        (* Bound: a call is at most this much older than the clock.*)
  Overtaking,    (* May a call be older than the call before it?            *)
  MaxRestarts,   (* Bound: how often the process is restarted.              *)
  MaxOpenings,   (* Bound: how often calls reopen one day.                  *)
  MaxBids,       (* Bound: how many bids a campaign makes in one second.    *)
  NoCampaign     (* The campaign of the reply before the first call.        *)

ASSUME TimeAssumption ==
  /\ StartSecond \in Nat \ {0}
  /\ LastSecond \in Nat
  /\ StartSecond <= LastSecond
  /\ MaxLag \in Nat
  /\ Overtaking \in BOOLEAN
  /\ MaxRestarts \in Nat
  /\ MaxOpenings \in Nat
  /\ MaxBids \in Nat
  /\ NoCampaign \notin Campaigns

(* Second 0 is the zero value of rateState.sec; no request is that old. *)
Seconds == 1 .. LastSecond
Days == 0 .. Day(LastSecond)

VARIABLES
  now,       (* The wall clock.                                             *)
  boot,      (* When the running process started.                           *)
  restarts,  (* How often the process was restarted.                        *)
  dayKey,    (* Engine.dayKey: the day the spend map belongs to.            *)
  spend,     (* Engine.spend                                                *)
  qps,       (* Engine.qps: second and count of each campaign's window.     *)
  reply,     (* The last answer of reserve.                                 *)
  charged,   (* History: granted amounts per day and campaign.              *)
  bids,      (* History: granted bids per second and campaign.              *)
  openings,  (* History: how often an empty spend map was opened for a day. *)
  windows    (* History: how often an empty QPS window was filled.          *)

engineVars == <<dayKey, spend, qps>>
historyVars == <<charged, bids, openings, windows>>
vars == <<now, boot, restarts, engineVars, reply, historyVars>>

RateState == [sec : Seconds \cup {0}, count : Nat]

TypeOK ==
  /\ now \in Seconds
  /\ boot \in Seconds
  /\ restarts \in Nat
  /\ dayKey \in Days
  /\ spend \in [Campaigns -> Nat]
  /\ qps \in [Campaigns -> RateState]
  /\ reply \in [campaign : Campaigns \cup {NoCampaign}, at : Seconds, ok : BOOLEAN]
  /\ charged \in [Days -> [Campaigns -> Nat]]
  /\ bids \in [Seconds -> [Campaigns -> Nat]]
  /\ openings \in [Days -> Nat]
  /\ windows \in [Seconds -> [Campaigns -> Nat]]

-----------------------------------------------------------------------------
NoSpend == [c \in Campaigns |-> 0]
NoWindow == [c \in Campaigns |-> [sec |-> 0, count |-> 0]]

(* NewEngine: empty maps, and the day of the clock. *)
Init ==
  /\ now = StartSecond
  /\ boot = StartSecond
  /\ restarts = 0
  /\ dayKey = Day(StartSecond)
  /\ spend = NoSpend
  /\ qps = NoWindow
  /\ reply = [campaign |-> NoCampaign, at |-> StartSecond, ok |-> FALSE]
  /\ charged = [d \in Days |-> NoSpend]
  /\ bids = [s \in Seconds |-> NoSpend]
  /\ openings = [d \in Days |-> IF d = Day(StartSecond) THEN 1 ELSE 0]
  /\ windows = [s \in Seconds |-> NoSpend]

-----------------------------------------------------------------------------
(***************************************************************************)
(* The first thing reserve does, whatever it answers: a call of another    *)
(* day than dayKey empties both maps and moves dayKey, forwards or         *)
(* backwards.                                                              *)
(***************************************************************************)
SameDay(t) == dayKey = Day(t)
BaseQps(t) == IF SameDay(t) THEN qps ELSE NoWindow

BaseSpend(t) == IF SameDay(t) THEN spend ELSE NoSpend

(* Mutant: the key is made of the second instead of the day. *)
RolloverToSecond(t) ==
  /\ dayKey' = t
  /\ openings' = [openings EXCEPT ![Day(t)] = IF SameDay(t) THEN @ ELSE @ + 1]

Rollover(t) ==
  /\ dayKey' = Day(t)
  /\ openings' = [openings EXCEPT ![Day(t)] = IF SameDay(t) THEN @ ELSE @ + 1]

(* The campaign's window, started afresh when it is of another second. *)
Fresh(c, t) == BaseQps(t)[c].sec # t
Window(c, t) == IF Fresh(c, t) THEN [sec |-> t, count |-> 0] ELSE BaseQps(t)[c]

(* Mutant: the budget is compared before the price is added. *)
AdmitsPriceUnseen(c, t) ==
  /\ BelowQPS(c, Window(c, t).count)
  /\ WithinBudget(c, BaseSpend(t)[c])
  /\ PacingAllows(c, BaseSpend(t)[c] + BidCPM[c], t)

(* Mutant: > instead of >= in the comparison with the QPS limit. *)
AdmitsOneMore(c, t) ==
  LET next == BaseSpend(t)[c] + BidCPM[c]
  IN  /\ QPS[c] > 0 => Window(c, t).count <= QPS[c]
      /\ WithinBudget(c, next)
      /\ PacingAllows(c, next, t)

Admits(c, t) ==
  LET next == BaseSpend(t)[c] + BidCPM[c]
  IN  /\ BelowQPS(c, Window(c, t).count)
      /\ WithinBudget(c, next)
      /\ PacingAllows(c, next, t)

Commit(c, t) ==
  /\ Admits(c, t)
  /\ Rollover(t)
  /\ spend' = [BaseSpend(t) EXCEPT ![c] = @ + BidCPM[c]]
  /\ IF QPS[c] > 0
     THEN /\ qps' = [BaseQps(t) EXCEPT ![c] =
                       [sec |-> t, count |-> Window(c, t).count + 1]]
          /\ windows' = [windows EXCEPT ![t][c] = IF Fresh(c, t) THEN @ + 1 ELSE @]
     ELSE /\ qps' = BaseQps(t)
          /\ UNCHANGED windows
  /\ charged' = [charged EXCEPT ![Day(t)][c] = @ + BidCPM[c]]
  /\ bids' = [bids EXCEPT ![t][c] = @ + 1]
  /\ reply' = [campaign |-> c, at |-> t, ok |-> TRUE]

(* Mutant: the window counts the call before anything refuses it. *)
RefuseCounted(c, t) ==
  /\ ~Admits(c, t)
  /\ Rollover(t)
  /\ spend' = BaseSpend(t)
  /\ qps' = IF QPS[c] > 0
            THEN [BaseQps(t) EXCEPT ![c] = [sec |-> t, count |-> Window(c, t).count + 1]]
            ELSE BaseQps(t)
  /\ reply' = [campaign |-> c, at |-> t, ok |-> FALSE]
  /\ UNCHANGED <<charged, bids, windows>>

(***************************************************************************)
(* A refused call keeps the day it rolled over to.  The window it writes   *)
(* back when the QPS limit is reached is the one it read.                  *)
(***************************************************************************)
Refuse(c, t) ==
  /\ ~Admits(c, t)
  /\ Rollover(t)
  /\ spend' = BaseSpend(t)
  /\ qps' = BaseQps(t)
  /\ reply' = [campaign |-> c, at |-> t, ok |-> FALSE]
  /\ UNCHANGED <<charged, bids, windows>>

Reserve(c, t) ==
  /\ Commit(c, t) \/ Refuse(c, t)
  /\ UNCHANGED <<now, boot, restarts>>

(***************************************************************************)
(* The times a call may carry, all taken since the process started, and    *)
(* the bounds on how often an instance calls.                              *)
(***************************************************************************)
Received ==
  {t \in boot .. now : t + MaxLag >= now /\ (Overtaking \/ t >= reply.at)}

WithinBounds(c, t) ==
  /\ SameDay(t) \/ openings[Day(t)] < MaxOpenings
  /\ bids[t][c] < MaxBids

Tick ==
  /\ now < LastSecond
  /\ now' = now + 1
  /\ UNCHANGED <<boot, restarts, engineVars, reply, historyVars>>

(* The process ends, with the calls in flight, and NewEngine runs again. *)
Restart ==
  /\ restarts < MaxRestarts
  /\ restarts' = restarts + 1
  /\ boot' = now
  /\ dayKey' = Day(now)
  /\ spend' = NoSpend
  /\ qps' = NoWindow
  /\ reply' = [campaign |-> NoCampaign, at |-> now, ok |-> FALSE]
  /\ openings' = [openings EXCEPT ![Day(now)] = @ + 1]
  /\ UNCHANGED <<now, charged, bids, windows>>

Next ==
  \/ Tick
  \/ \E c \in Campaigns, t \in Received : WithinBounds(c, t) /\ Reserve(c, t)
  \/ Restart

Spec == Init /\ [][Next]_vars

-----------------------------------------------------------------------------
(* Mutant: the day of the map is not compared with the caller's. *)
SpendUndated(c, t) == spend[c]

(***************************************************************************)
(* Snapshot(t): what /metrics and /statez report of a campaign.  t is the  *)
(* clock its caller read before it waited for the mutex, so calls of later *)
(* seconds and days may be in the state already.                           *)
(***************************************************************************)
SpendToday(c, t) == IF dayKey = Day(t) THEN spend[c] ELSE 0
QPSCurrent(c, t) == IF qps[c].sec = t THEN qps[c].count ELSE 0

(* The clocks a scrape of the running process may carry, however late.     *)
Scraped == boot .. now

-----------------------------------------------------------------------------
(* What the property module and the proofs compare the engine with. *)
(* The ledger's pages are the histories; its constants are the engine's. *)
Ledger == INSTANCE BudgetLedger WITH
  charged <- charged, bids <- bids, reply <- reply,
  Campaigns <- Campaigns, BidCPM <- BidCPM, DailyBudget <- DailyBudget, QPS <- QPS,
  EvenPaced <- EvenPaced, PacingTolerance <- PacingTolerance,
  SecondsPerDay <- SecondsPerDay, MinElapsed <- MinElapsed,
  Seconds <- Seconds, Days <- Days, NoCampaign <- NoCampaign

(***************************************************************************)
(* No campaign with a budget is charged more than the budget for one day   *)
(* (engine.go:257-260).                                                    *)
(***************************************************************************)
DailyBudgetKept ==
  \A c \in Campaigns, d \in Days : WithinBudget(c, charged[d][c])

(***************************************************************************)
(* No campaign with a QPS limit makes more bids than the limit for         *)
(* requests received in one second (engine.go:244-256).                    *)
(***************************************************************************)
QPSKept ==
  \A c \in Campaigns, s \in Seconds : QPS[c] > 0 => bids[s][c] <= QPS[c]

(***************************************************************************)
(* What was charged today never runs ahead of the pacing curve: the curve  *)
(* never falls within a day and the map is emptied between days            *)
(* (pacingAllows, engine.go:275-292).                                      *)
(***************************************************************************)
PacingKept ==
  \A c \in Campaigns :
    charged[Day(now)][c] > 0 => Ledger!OnCurve(c, charged[Day(now)][c], now)

(***************************************************************************)
(* The spend a snapshot shows for the day of its clock is what was charged *)
(* for that day, and 0 if a call of a later day was first to the mutex:    *)
(* never the part of it, nor the charges of the other day.                 *)
(***************************************************************************)
SpendShown ==
  \A c \in Campaigns, t \in Scraped :
    SpendToday(c, t) = IF Day(reply.at) > Day(t) THEN 0 ELSE charged[Day(t)][c]

(***************************************************************************)
(* A snapshot tells the truth unless it is overtaken (Snapshot,            *)
(* engine.go:83-120): it shows the day's charges and, for a campaign with  *)
(* a QPS limit, the bids of the second of its clock, although the engine   *)
(* keeps one day and one window.  A scrape that a later call overtook on   *)
(* the way to the mutex shows all of it or 0.                              *)
(***************************************************************************)
SnapshotExactUnlessOvertaken ==
  /\ SpendShown
  /\ \A c \in Campaigns, t \in Scraped :
       QPS[c] > 0 => \/ QPSCurrent(c, t) = bids[t][c]
                     \/ reply.at > t /\ QPSCurrent(c, t) = 0

(***************************************************************************)
(* Under overtaking and restarts the engine forgets, but it never invents: *)
(* a snapshot shows at most what was charged and bid at its clock, however *)
(* long it waited for the mutex.                                           *)
(***************************************************************************)
SnapshotNeverOverstates ==
  \A c \in Campaigns, t \in Scraped :
    /\ SpendToday(c, t) <= charged[Day(t)][c]
    /\ QPSCurrent(c, t) <= bids[t][c]

(***************************************************************************)
(* However calls overtake each other and however often the process         *)
(* restarts, a day's charges are bounded by the budget times the number of *)
(* times an empty spend map was opened for that day: the overspend is the  *)
(* price of the reset in reserve and nothing else.                         *)
(***************************************************************************)
BudgetPerOpening ==
  \A c \in Campaigns, d \in Days :
    DailyBudget[c] > 0 => charged[d][c] <= DailyBudget[c] * openings[d]

(***************************************************************************)
(* The same for the QPS limit and the windows filled for a second.         *)
(***************************************************************************)
QPSPerWindow ==
  \A c \in Campaigns, s \in Seconds :
    QPS[c] > 0 => bids[s][c] <= QPS[c] * windows[s][c]

(***************************************************************************)
(* Calls that enter the mutex in the order they were received see the full *)
(* ledger: every answer of the engine, granted or refused, is the answer   *)
(* the ledger of BudgetLedger gives (reserve, engine.go:235-273).          *)
(***************************************************************************)
ImplementsLedger == Ledger!LedgerSpec
=============================================================================
