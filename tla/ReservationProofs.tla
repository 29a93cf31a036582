-------------------------- MODULE ReservationProofs --------------------------
(***************************************************************************)
(* Proofs about Reservation, for every configuration of campaigns, every   *)
(* length of day and every bound.                                          *)
(***************************************************************************)
EXTENDS Reservation, TLAPS

-----------------------------------------------------------------------------
(* The calendar: days follow the order of the seconds. *)

(***************************************************************************)
(* Integer division as the calendar uses it.                               *)
(***************************************************************************)
LEMMA Division ==
  ASSUME NEW t \in Nat, NEW n \in Nat \ {0}
  PROVE  t \div n \in Nat /\ n * (t \div n) <= t /\ t < n * (t \div n) + n
OBVIOUS

(***************************************************************************)
(* A multiple is at least one factor below the next multiple.              *)
(***************************************************************************)
LEMMA NextMultiple ==
  ASSUME NEW a \in Nat, NEW b \in Nat, NEW n \in Nat \ {0}, a < b
  PROVE  n * a + n <= n * b
OBVIOUS

(***************************************************************************)
(* Day never decreases.                                                    *)
(***************************************************************************)
LEMMA DayMonotone ==
  ASSUME NEW s \in Nat, NEW t \in Nat, s <= t
  PROVE  Day(s) \in Nat /\ Day(t) \in Nat /\ Day(s) <= Day(t)
<1>1. Day(s) \in Nat /\ Day(t) \in Nat
  BY Division, CalendarAssumption DEF Day
<1>2. CASE Day(t) < Day(s)
  <2>1. SecondsPerDay * Day(t) + SecondsPerDay <= SecondsPerDay * Day(s)
    BY <1>1, <1>2, NextMultiple, CalendarAssumption
  <2>. QED
    BY <1>1, <2>1, Division, CalendarAssumption DEF Day
<1>. QED
  BY <1>1, <1>2

(***************************************************************************)
(* Every second of the clock has its page in the days.                     *)
(***************************************************************************)
LEMMA DayInDays == \A t \in Seconds : Day(t) \in Days
<1>. SUFFICES ASSUME NEW t \in Seconds
              PROVE  Day(t) \in Days
  OBVIOUS
<1>. QED
  BY DayMonotone, TimeAssumption DEF Seconds, Days

(***************************************************************************)
(* A call carries a second of the clock.                                   *)
(***************************************************************************)
LEMMA ReceivedInSeconds ==
  ASSUME TypeOK, NEW t \in Received
  PROVE  t \in Seconds /\ t <= now
BY TimeAssumption DEF TypeOK, Received, Seconds

(***************************************************************************)
(* So does a scrape.                                                       *)
(***************************************************************************)
LEMMA ScrapedInSeconds ==
  ASSUME TypeOK, NEW t \in Scraped
  PROVE  t \in Seconds /\ t \in Nat /\ t <= now
BY TimeAssumption DEF TypeOK, Scraped, Seconds

-----------------------------------------------------------------------------
(* The state a call starts from has the types of the state it finds. *)

LEMMA BaseTypes ==
  ASSUME TypeOK, NEW t \in Seconds
  PROVE  /\ BaseSpend(t) \in [Campaigns -> Nat]
         /\ BaseQps(t) \in [Campaigns -> RateState]
         /\ \A c \in Campaigns : Window(c, t) \in RateState
BY DEF TypeOK, BaseSpend, BaseQps, NoSpend, NoWindow, Window, RateState

LEMMA ReserveTypes ==
  ASSUME TypeOK, NEW c \in Campaigns, NEW t \in Seconds, Reserve(c, t)
  PROVE  TypeOK'
<1>1. t \in Seconds /\ Day(t) \in Days
  BY DayInDays
<1>2. /\ BaseSpend(t) \in [Campaigns -> Nat]
      /\ BaseQps(t) \in [Campaigns -> RateState]
      /\ Window(c, t) \in RateState
  BY <1>1, BaseTypes
<1>3. /\ now' = now /\ boot' = boot /\ restarts' = restarts
      /\ dayKey' \in Days
      /\ openings' \in [Days -> Nat]
  BY <1>1 DEF TypeOK, Reserve, Commit, Refuse, Rollover
<1>4. CASE Commit(c, t)
  <2>1. spend' \in [Campaigns -> Nat]
    <3>1. BaseSpend(t)[c] + BidCPM[c] \in Nat
      BY <1>2, CampaignAssumption
    <3>2. spend' = [BaseSpend(t) EXCEPT ![c] = BaseSpend(t)[c] + BidCPM[c]]
      BY <1>4 DEF Commit
    <3>. QED
      BY <1>2, <3>1, <3>2
  <2>2. qps' \in [Campaigns -> RateState]
    BY <1>1, <1>2, <1>4 DEF Commit, RateState
  <2>3. windows' \in [Seconds -> [Campaigns -> Nat]]
    <3>1. windows' = windows
           \/ \E n \in Nat : windows' = [windows EXCEPT ![t][c] = n]
      <4>1. windows[t][c] \in Nat /\ windows[t][c] + 1 \in Nat
        BY <1>1 DEF TypeOK
      <4>2. CASE QPS[c] > 0 /\ Fresh(c, t)
        BY <1>4, <4>1, <4>2 DEF Commit
      <4>3. CASE QPS[c] > 0 /\ ~Fresh(c, t)
        BY <1>4, <4>1, <4>3 DEF Commit
      <4>. QED
        BY <1>4, <4>2, <4>3 DEF Commit
    <3>2. ASSUME NEW n \in Nat
          PROVE  [windows EXCEPT ![t][c] = n] \in [Seconds -> [Campaigns -> Nat]]
      BY <1>1 DEF TypeOK
    <3>. QED
      BY <3>1, <3>2 DEF TypeOK
  <2>4. charged' \in [Days -> [Campaigns -> Nat]]
    BY <1>1, <1>4, CampaignAssumption DEF Commit, TypeOK
  <2>5. bids' \in [Seconds -> [Campaigns -> Nat]]
    BY <1>1, <1>4 DEF Commit, TypeOK
  <2>. QED
    BY <1>1, <1>3, <1>4, <2>1, <2>2, <2>3, <2>4, <2>5 DEF TypeOK, Commit
<1>5. CASE Refuse(c, t)
  BY <1>1, <1>2, <1>3, <1>5 DEF TypeOK, Refuse
<1>. QED
  BY <1>4, <1>5 DEF Reserve

LEMMA StepTypes == TypeOK /\ [Next]_vars => TypeOK'
<1>. SUFFICES ASSUME TypeOK, [Next]_vars
              PROVE  TypeOK'
  OBVIOUS
<1>1. CASE Tick
  BY <1>1, TimeAssumption
  DEF Tick, TypeOK, Seconds, engineVars, historyVars
<1>2. ASSUME NEW c \in Campaigns, NEW t \in Received, Reserve(c, t)
      PROVE  TypeOK'
  BY <1>2, ReceivedInSeconds, ReserveTypes
<1>3. CASE Restart
  BY <1>3, DayInDays
  DEF Restart, TypeOK, NoSpend, NoWindow, RateState, Seconds
<1>4. CASE UNCHANGED vars
  BY <1>4 DEF TypeOK, vars, engineVars, historyVars
<1>. QED
  BY <1>1, <1>2, <1>3, <1>4 DEF Next

LEMMA InitTypes == Init => TypeOK
  BY DayInDays, TimeAssumption
  DEF Init, TypeOK, NoSpend, NoWindow, RateState, Seconds

(***************************************************************************)
(* The engine's state keeps its types: dayKey, spend and qps stay a day, a *)
(* map of amounts and a map of windows whatever calls come.                *)
(***************************************************************************)
THEOREM TypeCorrect == Spec => []TypeOK
  BY InitTypes, StepTypes, PTL DEF Spec

-----------------------------------------------------------------------------
(* What bounds the charges of a day when calls overtake and processes die. *)

(***************************************************************************)
(* The open spend map holds at most one budget, and so did every map that  *)
(* was opened for a day and thrown away since.                             *)
(***************************************************************************)
PageOf(d, open, sum, c) ==
  /\ open[d] > 0
  /\ sum[c] <= charged[d][c]
  /\ DailyBudget[c] > 0 =>
       /\ sum[c] <= DailyBudget[c]
       /\ charged[d][c] <= DailyBudget[c] * (open[d] - 1) + sum[c]

ClosedPages(d, open, c) ==
  DailyBudget[c] > 0 =>
    \A e \in Days \ {d} : charged[e][c] <= DailyBudget[c] * open[e]

BudgetInv ==
  \A c \in Campaigns : PageOf(dayKey, openings, spend, c) /\ ClosedPages(dayKey, openings, c)

(***************************************************************************)
(* The openings once a call of time t has rolled the day over.             *)
(***************************************************************************)
OpenedFor(t) == [openings EXCEPT ![Day(t)] = IF SameDay(t) THEN @ ELSE @ + 1]

LEMMA Distribute ==
  ASSUME NEW b \in Nat, NEW n \in Nat
  PROVE  b * (n + 1) = b * n + b /\ b * n \in Nat
OBVIOUS

(***************************************************************************)
(* A page that is closed with at most b on its last map stays within b for *)
(* each of its n openings.                                                 *)
(***************************************************************************)
LEMMA ClosePage ==
  ASSUME NEW b \in Nat, NEW n \in Nat, n > 0,
         NEW x \in Nat, NEW y \in Nat, y <= b, x <= b * (n - 1) + y
  PROVE  x <= b * n
<1>1. n - 1 \in Nat /\ (n - 1) + 1 = n
  OBVIOUS
<1>2. b * n = b * (n - 1) + b /\ b * (n - 1) \in Nat
  BY <1>1, Distribute
<1>. QED
  BY <1>2

(***************************************************************************)
(* Throwing a map away keeps the bound: what it held is paid for by its    *)
(* own opening, and the new, empty map by the new one.                     *)
(***************************************************************************)
LEMMA RolloverKeepsPages ==
  ASSUME TypeOK, BudgetInv, NEW t \in Seconds, NEW c \in Campaigns
  PROVE  PageOf(Day(t), OpenedFor(t), BaseSpend(t), c) /\ ClosedPages(Day(t), OpenedFor(t), c)
<1>. DEFINE b == DailyBudget[c]
<1>1. Day(t) \in Days /\ dayKey \in Days /\ b \in Nat
  BY DayInDays, CampaignAssumption DEF TypeOK
<1>2. \A d \in Days : /\ openings[d] \in Nat
                      /\ charged[d][c] \in Nat
                      /\ b * openings[d] \in Nat
                      /\ b * (openings[d] + 1) = b * openings[d] + b
  BY <1>1, Distribute DEF TypeOK
<1>3. CASE SameDay(t)
  <2>1. OpenedFor(t) = openings
    BY <1>1, <1>3 DEF OpenedFor, TypeOK
  <2>. QED
    BY <1>3, <2>1 DEF BudgetInv, BaseSpend, SameDay
<1>4. CASE ~SameDay(t)
  <2>1. /\ OpenedFor(t)[Day(t)] = openings[Day(t)] + 1
        /\ \A e \in Days \ {Day(t)} : OpenedFor(t)[e] = openings[e]
        /\ BaseSpend(t)[c] = 0
        /\ Day(t) # dayKey
    BY <1>1, <1>4 DEF OpenedFor, TypeOK, BaseSpend, NoSpend, SameDay
  <2>2. PageOf(dayKey, openings, spend, c) /\ ClosedPages(dayKey, openings, c)
    BY DEF BudgetInv
  <2>3. PageOf(Day(t), OpenedFor(t), BaseSpend(t), c)
    <3>1. b > 0 => charged[Day(t)][c] <= b * openings[Day(t)]
      BY <1>1, <2>1, <2>2 DEF ClosedPages
    <3>2. openings[Day(t)] \in Nat /\ charged[Day(t)][c] \in Nat
      BY <1>1, <1>2
    <3>3. OpenedFor(t)[Day(t)] - 1 = openings[Day(t)] /\ OpenedFor(t)[Day(t)] > 0
      BY <2>1, <3>2
    <3>4. b > 0 => charged[Day(t)][c] <= b * (OpenedFor(t)[Day(t)] - 1) + BaseSpend(t)[c]
      BY <1>1, <2>1, <3>1, <3>2, <3>3
    <3>. QED
      BY <1>1, <2>1, <3>2, <3>3, <3>4 DEF PageOf
  <2>4. ASSUME b > 0 PROVE charged[dayKey][c] <= b * openings[dayKey]
    BY <1>1, <1>2, <2>2, <2>4, ClosePage DEF PageOf, TypeOK
  <2>5. ClosedPages(Day(t), OpenedFor(t), c)
    BY <1>1, <1>2, <2>1, <2>2, <2>4 DEF ClosedPages
  <2>. QED
    BY <2>3, <2>5
<1>. QED
  BY <1>3, <1>4

LEMMA ReserveKeepsBudget ==
  ASSUME TypeOK, BudgetInv, NEW c \in Campaigns, NEW t \in Received, Reserve(c, t)
  PROVE  BudgetInv'
<1>1. t \in Seconds /\ Day(t) \in Days
  BY ReceivedInSeconds, DayInDays
<1>2. BaseSpend(t) \in [Campaigns -> Nat]
  BY <1>1, BaseTypes
<1>3. openings' = OpenedFor(t) /\ dayKey' = Day(t)
  BY DEF Reserve, Commit, Refuse, Rollover, OpenedFor
<1>. SUFFICES ASSUME NEW k \in Campaigns
              PROVE  (PageOf(dayKey, openings, spend, k) /\ ClosedPages(dayKey, openings, k))'
  BY DEF BudgetInv
<1>4. PageOf(Day(t), OpenedFor(t), BaseSpend(t), k) /\ ClosedPages(Day(t), OpenedFor(t), k)
  BY <1>1, RolloverKeepsPages
<1>5. CASE Commit(c, t)
  <2>1. /\ spend'[k] = BaseSpend(t)[k] + (IF k = c THEN BidCPM[c] ELSE 0)
        /\ charged'[Day(t)][k] = charged[Day(t)][k] + (IF k = c THEN BidCPM[c] ELSE 0)
        /\ \A e \in Days \ {Day(t)} : charged'[e][k] = charged[e][k]
    BY <1>1, <1>2, <1>5, CampaignAssumption DEF Commit, TypeOK
  <2>2. k = c /\ DailyBudget[c] > 0 => BaseSpend(t)[c] + BidCPM[c] <= DailyBudget[c]
    BY <1>5 DEF Commit, Admits, WithinBudget
  <2>3. /\ BidCPM[c] \in Nat /\ DailyBudget[k] \in Nat
        /\ BaseSpend(t)[k] \in Nat /\ charged[Day(t)][k] \in Nat
        /\ OpenedFor(t)[Day(t)] \in Nat
    BY <1>1, <1>2, CampaignAssumption DEF TypeOK, OpenedFor
  <2>4. DailyBudget[k] * (OpenedFor(t)[Day(t)] - 1) \in Int
    BY <2>3
  <2>5. PageOf(dayKey, openings, spend, k)'
    BY <1>3, <1>4, <2>1, <2>2, <2>3, <2>4 DEF PageOf
  <2>6. ClosedPages(dayKey, openings, k)'
    BY <1>3, <1>4, <2>1 DEF ClosedPages
  <2>. QED
    BY <2>5, <2>6
<1>6. CASE Refuse(c, t)
  <2>1. spend' = BaseSpend(t) /\ charged' = charged
    BY <1>6 DEF Refuse
  <2>. QED
    BY <1>3, <1>4, <2>1 DEF PageOf, ClosedPages
<1>. QED
  BY <1>5, <1>6 DEF Reserve

LEMMA RestartKeepsBudget ==
  ASSUME TypeOK, BudgetInv, Restart
  PROVE  BudgetInv'
<1>1. now \in Seconds /\ Day(now) \in Days /\ dayKey \in Days
  BY DayInDays DEF TypeOK
<1>2. /\ openings' = [openings EXCEPT ![Day(now)] = @ + 1]
      /\ dayKey' = Day(now) /\ spend' = NoSpend /\ charged' = charged
  BY DEF Restart
<1>. SUFFICES ASSUME NEW k \in Campaigns
              PROVE  (PageOf(dayKey, openings, spend, k) /\ ClosedPages(dayKey, openings, k))'
  BY DEF BudgetInv
<1>. DEFINE b == DailyBudget[k]
<1>3. \A d \in Days : /\ openings[d] \in Nat
                      /\ charged[d][k] \in Nat
                      /\ b \in Nat
                      /\ b * openings[d] \in Nat
                      /\ b * (openings[d] + 1) = b * openings[d] + b
  BY Distribute, CampaignAssumption DEF TypeOK
<1>4. PageOf(dayKey, openings, spend, k) /\ ClosedPages(dayKey, openings, k)
  BY DEF BudgetInv
<1>5. \A d \in Days : b > 0 => charged[d][k] <= b * openings[d]
  <2>. SUFFICES ASSUME NEW d \in Days, b > 0
                PROVE  charged[d][k] <= b * openings[d]
    OBVIOUS
  <2>1. CASE d = dayKey
    BY <1>3, <1>4, <2>1, ClosePage DEF PageOf, TypeOK
  <2>2. CASE d # dayKey
    BY <1>4, <2>2 DEF ClosedPages
  <2>. QED
    BY <2>1, <2>2
<1>6. /\ openings'[Day(now)] = openings[Day(now)] + 1
      /\ \A e \in Days \ {Day(now)} : openings'[e] = openings[e]
      /\ spend'[k] = 0
  BY <1>1, <1>2 DEF TypeOK, NoSpend
<1>7. PageOf(dayKey, openings, spend, k)'
  BY <1>1, <1>2, <1>3, <1>5, <1>6 DEF PageOf
<1>8. ClosedPages(dayKey, openings, k)'
  BY <1>1, <1>2, <1>3, <1>5, <1>6 DEF ClosedPages
<1>. QED
  BY <1>7, <1>8

(***************************************************************************)
(* The open spend map and the openings account for every day's charges in  *)
(* every reachable state.                                                  *)
(***************************************************************************)
THEOREM BudgetAccounted == Spec => []BudgetInv
<1>1. Init => BudgetInv
  <2>. SUFFICES ASSUME Init PROVE BudgetInv
    OBVIOUS
  <2>1. Day(StartSecond) \in Days
    BY DayInDays, TimeAssumption DEF Seconds
  <2>2. ASSUME NEW c \in Campaigns
        PROVE  PageOf(dayKey, openings, spend, c)
    BY <2>1, CampaignAssumption DEF Init, PageOf, NoSpend
  <2>3. ASSUME NEW c \in Campaigns
        PROVE  ClosedPages(dayKey, openings, c)
    BY <2>1, CampaignAssumption DEF Init, ClosedPages, NoSpend
  <2>. QED
    BY <2>2, <2>3 DEF BudgetInv
<1>2. TypeOK /\ BudgetInv /\ [Next]_vars => BudgetInv'
  <2>. SUFFICES ASSUME TypeOK, BudgetInv, [Next]_vars
                PROVE  BudgetInv'
    OBVIOUS
  <2>1. CASE Tick
    BY <2>1 DEF Tick, BudgetInv, PageOf, ClosedPages, engineVars, historyVars
  <2>2. ASSUME NEW c \in Campaigns, NEW t \in Received, Reserve(c, t)
        PROVE  BudgetInv'
    BY <2>2, ReserveKeepsBudget
  <2>3. CASE Restart
    BY <2>3, RestartKeepsBudget
  <2>4. CASE UNCHANGED vars
    BY <2>4 DEF vars, BudgetInv, PageOf, ClosedPages, engineVars, historyVars
  <2>. QED
    BY <2>1, <2>2, <2>3, <2>4 DEF Next
<1>. QED
  BY <1>1, <1>2, TypeCorrect, PTL DEF Spec

(***************************************************************************)
(* A day costs at most one budget per spend map opened for it, under every *)
(* interleaving of late calls and every restart.                           *)
(***************************************************************************)
THEOREM BudgetPerOpeningHolds == Spec => []BudgetPerOpening
<1>1. TypeOK /\ BudgetInv => BudgetPerOpening
  <2>. SUFFICES ASSUME TypeOK, BudgetInv, NEW c \in Campaigns, NEW d \in Days,
                       DailyBudget[c] > 0
                PROVE  charged[d][c] <= DailyBudget[c] * openings[d]
    BY DEF BudgetPerOpening
  <2>1. PageOf(dayKey, openings, spend, c) /\ ClosedPages(dayKey, openings, c)
    BY DEF BudgetInv
  <2>2. CASE d = dayKey
    <3>1. /\ DailyBudget[c] \in Nat /\ openings[d] \in Nat
          /\ charged[d][c] \in Nat /\ spend[c] \in Nat
      BY CampaignAssumption DEF TypeOK
    <3>. QED
      BY <2>1, <2>2, <3>1, ClosePage DEF PageOf
  <2>3. CASE d # dayKey
    BY <2>1, <2>3 DEF ClosedPages
  <2>. QED
    BY <2>2, <2>3
<1>. QED
  BY <1>1, TypeCorrect, BudgetAccounted, PTL

-----------------------------------------------------------------------------
(* What bounds the bids of a second when calls overtake and processes die. *)

(***************************************************************************)
(* w accounts for the window of campaign c: it is the last of the windows  *)
(* filled for its second, and every other second is closed.                *)
(***************************************************************************)
WindowOf(w, c) ==
  /\ w.sec = 0 => w.count = 0
  /\ w.sec # 0 => /\ windows[w.sec][c] > 0
                  /\ w.count <= bids[w.sec][c]
  /\ QPS[c] > 0 =>
       /\ w.count <= QPS[c]
       /\ w.sec # 0 => bids[w.sec][c] <= QPS[c] * (windows[w.sec][c] - 1) + w.count
       /\ \A s \in Seconds \ {w.sec} : bids[s][c] <= QPS[c] * windows[s][c]

WindowInv == \A c \in Campaigns : WindowOf(qps[c], c)

EmptyWindow == [sec |-> 0, count |-> 0]

LEMMA CloseWindow ==
  ASSUME TypeOK, NEW c \in Campaigns, NEW w \in RateState, WindowOf(w, c)
  PROVE  /\ WindowOf(EmptyWindow, c)
         /\ QPS[c] > 0 => \A s \in Seconds : bids[s][c] <= QPS[c] * windows[s][c]
<1>1. ASSUME QPS[c] > 0, NEW s \in Seconds
      PROVE  bids[s][c] <= QPS[c] * windows[s][c]
  <2>1. /\ QPS[c] \in Nat /\ windows[s][c] \in Nat
        /\ bids[s][c] \in Nat /\ w.count \in Nat
    BY CampaignAssumption DEF TypeOK, RateState
  <2>2. CASE s = w.sec
    <3>1. s # 0
      BY TimeAssumption DEF Seconds
    <3>. QED
      BY <1>1, <2>1, <2>2, <3>1, ClosePage DEF WindowOf
  <2>3. CASE s # w.sec
    BY <1>1, <2>3 DEF WindowOf
  <2>. QED
    BY <2>2, <2>3
<1>2. 0 \notin Seconds
  BY TimeAssumption DEF Seconds
<1>. QED
  BY <1>1, <1>2, CampaignAssumption DEF WindowOf, EmptyWindow

LEMMA BaseWindow ==
  ASSUME TypeOK, WindowInv, NEW t \in Seconds, NEW c \in Campaigns
  PROVE  WindowOf(BaseQps(t)[c], c)
<1>1. qps[c] \in RateState /\ WindowOf(qps[c], c)
  BY DEF TypeOK, WindowInv
<1>2. WindowOf(EmptyWindow, c)
  BY <1>1, CloseWindow
<1>3. BaseQps(t)[c] = qps[c] \/ BaseQps(t)[c] = EmptyWindow
  BY DEF BaseQps, NoWindow, EmptyWindow
<1>. QED
  BY <1>1, <1>2, <1>3

LEMMA CommitKeepsWindow ==
  ASSUME TypeOK, WindowInv, NEW c \in Campaigns, NEW t \in Seconds,
         Commit(c, t), QPS[c] > 0
  PROVE  WindowOf(qps[c], c)'
<1>. DEFINE base == BaseQps(t)[c]
            new == [sec |-> t, count |-> Window(c, t).count + 1]
<1>1. /\ BaseQps(t) \in [Campaigns -> RateState]
      /\ base \in RateState /\ WindowOf(base, c)
      /\ Window(c, t) \in RateState
  BY BaseTypes, BaseWindow
<1>2. qps'[c] = new
  BY <1>1 DEF Commit
<1>3. /\ bids'[t][c] = bids[t][c] + 1
      /\ \A s \in Seconds \ {t} : bids'[s][c] = bids[s][c]
  BY DEF Commit, TypeOK
<1>4. /\ windows'[t][c] = IF Fresh(c, t) THEN windows[t][c] + 1 ELSE windows[t][c]
      /\ \A s \in Seconds \ {t} : windows'[s][c] = windows[s][c]
  BY DEF Commit, TypeOK
<1>5. Window(c, t).count < QPS[c]
  BY DEF Commit, Admits, BelowQPS
<1>6. /\ QPS[c] \in Nat /\ Window(c, t).count \in Nat
      /\ bids[t][c] \in Nat /\ windows[t][c] \in Nat /\ t # 0
  BY <1>1, CampaignAssumption, TimeAssumption DEF TypeOK, RateState, Seconds
<1>7. \A s \in Seconds \ {t} : bids'[s][c] <= QPS[c] * windows'[s][c]
  BY <1>1, <1>3, <1>4, CloseWindow
<1>8. /\ windows'[t][c] > 0
      /\ Window(c, t).count <= bids[t][c]
      /\ bids[t][c] <= QPS[c] * (windows'[t][c] - 1) + Window(c, t).count
  <2>1. CASE Fresh(c, t)
    <3>1. bids[t][c] <= QPS[c] * windows[t][c]
      BY <1>1, CloseWindow
    <3>2. windows'[t][c] - 1 = windows[t][c] /\ windows'[t][c] > 0
      BY <1>4, <1>6, <2>1
    <3>3. Window(c, t).count = 0
      BY <2>1 DEF Window
    <3>4. QPS[c] * (windows'[t][c] - 1) + Window(c, t).count = QPS[c] * windows[t][c]
      BY <1>6, <3>2, <3>3
    <3>. QED
      BY <1>6, <3>1, <3>2, <3>3, <3>4
  <2>2. CASE ~Fresh(c, t)
    <3>1. Window(c, t) = base /\ base.sec = t /\ windows'[t][c] = windows[t][c]
      BY <1>4, <2>2 DEF Window, Fresh
    <3>. QED
      BY <1>1, <1>6, <3>1 DEF WindowOf
  <2>. QED
    BY <2>1, <2>2
<1>9. QPS[c] * (windows'[t][c] - 1) \in Int
  BY <1>4, <1>6
<1>10. bids'[t][c] <= QPS[c] * (windows'[t][c] - 1) + new.count /\ new.count <= bids'[t][c]
  BY <1>3, <1>6, <1>8, <1>9
<1>. QED
  BY <1>2, <1>5, <1>6, <1>7, <1>8, <1>10 DEF WindowOf

LEMMA ReserveKeepsWindows ==
  ASSUME TypeOK, WindowInv, NEW c \in Campaigns, NEW t \in Received, Reserve(c, t)
  PROVE  WindowInv'
<1>1. t \in Seconds
  BY ReceivedInSeconds
<1>. SUFFICES ASSUME NEW k \in Campaigns
              PROVE  WindowOf(qps[k], k)'
  BY DEF WindowInv
<1>2. BaseQps(t) \in [Campaigns -> RateState] /\ WindowOf(BaseQps(t)[k], k)
  BY <1>1, BaseTypes, BaseWindow
<1>3. CASE Commit(c, t)
  <2>1. CASE k = c /\ QPS[c] > 0
    BY <1>1, <1>3, <2>1, CommitKeepsWindow
  <2>2. CASE k # c
    <3>1. qps'[k] = BaseQps(t)[k]
      BY <1>2, <1>3, <2>2 DEF Commit
    <3>2. \A s \in Seconds : bids'[s][k] = bids[s][k] /\ windows'[s][k] = windows[s][k]
      BY <1>1, <1>3, <2>2 DEF Commit, TypeOK
    <3>3. BaseQps(t)[k].sec # 0 => BaseQps(t)[k].sec \in Seconds
      BY <1>2 DEF RateState
    <3>. QED
      BY <1>2, <3>1, <3>2, <3>3 DEF WindowOf
  <2>3. CASE k = c /\ ~(QPS[c] > 0)
    <3>1. qps'[k] = BaseQps(t)[k] /\ windows' = windows
      BY <1>3, <2>3 DEF Commit
    <3>2. \A s \in Seconds : bids'[s][k] >= bids[s][k] /\ bids'[s][k] \in Nat /\ bids[s][k] \in Nat
      BY <1>1, <1>3 DEF Commit, TypeOK
    <3>3. BaseQps(t)[k].sec # 0 => BaseQps(t)[k].sec \in Seconds
      BY <1>2 DEF RateState
    <3>4. BaseQps(t)[k].count \in Nat
      BY <1>2 DEF RateState
    <3>. QED
      BY <1>2, <2>3, <3>1, <3>2, <3>3, <3>4 DEF WindowOf
  <2>. QED
    BY <2>1, <2>2, <2>3
<1>4. CASE Refuse(c, t)
  <2>1. qps' = BaseQps(t) /\ bids' = bids /\ windows' = windows
    BY <1>4 DEF Refuse
  <2>. QED
    BY <1>2, <2>1 DEF WindowOf
<1>. QED
  BY <1>3, <1>4 DEF Reserve

(***************************************************************************)
(* The window of every campaign accounts for its bids in every reachable   *)
(* state.                                                                  *)
(***************************************************************************)
THEOREM WindowsAccounted == Spec => []WindowInv
<1>1. Init => WindowInv
  <2>. SUFFICES ASSUME Init, NEW c \in Campaigns PROVE WindowOf(qps[c], c)
    BY DEF WindowInv
  <2>1. \A s \in Seconds : bids[s][c] = 0 /\ QPS[c] * windows[s][c] = 0
    BY CampaignAssumption DEF Init, NoSpend
  <2>2. qps[c] = [sec |-> 0, count |-> 0]
    BY DEF Init, NoWindow
  <2>. QED
    BY <2>1, <2>2, CampaignAssumption DEF WindowOf
<1>2. TypeOK /\ WindowInv /\ [Next]_vars => WindowInv'
  <2>. SUFFICES ASSUME TypeOK, WindowInv, [Next]_vars
                PROVE  WindowInv'
    OBVIOUS
  <2>1. CASE Tick
    BY <2>1 DEF Tick, WindowInv, WindowOf, engineVars, historyVars
  <2>2. ASSUME NEW c \in Campaigns, NEW t \in Received, Reserve(c, t)
        PROVE  WindowInv'
    BY <2>2, ReserveKeepsWindows
  <2>3. CASE Restart
    <3>. SUFFICES ASSUME NEW c \in Campaigns PROVE WindowOf(qps[c], c)'
      BY DEF WindowInv
    <3>1. qps'[c] = EmptyWindow /\ bids' = bids /\ windows' = windows
      BY <2>3 DEF Restart, NoWindow, EmptyWindow
    <3>2. qps[c] \in RateState /\ WindowOf(qps[c], c)
      BY DEF TypeOK, WindowInv
    <3>3. WindowOf(EmptyWindow, c)
      BY <3>2, CloseWindow
    <3>. QED
      BY <3>1, <3>3 DEF WindowOf
  <2>4. CASE UNCHANGED vars
    BY <2>4 DEF vars, WindowInv, WindowOf, engineVars, historyVars
  <2>. QED
    BY <2>1, <2>2, <2>3, <2>4 DEF Next
<1>. QED
  BY <1>1, <1>2, TypeCorrect, PTL DEF Spec

(***************************************************************************)
(* A second costs at most one QPS limit per window filled for it, under    *)
(* every interleaving of late calls and every restart.                     *)
(***************************************************************************)
THEOREM QPSPerWindowHolds == Spec => []QPSPerWindow
<1>1. TypeOK /\ WindowInv => QPSPerWindow
  <2>. SUFFICES ASSUME TypeOK, WindowInv, NEW c \in Campaigns, NEW s \in Seconds,
                       QPS[c] > 0
                PROVE  bids[s][c] <= QPS[c] * windows[s][c]
    BY DEF QPSPerWindow
  <2>. QED
    BY CloseWindow DEF TypeOK, WindowInv
<1>. QED
  BY <1>1, TypeCorrect, WindowsAccounted, PTL

(***************************************************************************)
(* What /metrics and /statez report of the day and the second of their     *)
(* clock never exceeds what was granted, although the engine forgets and   *)
(* however long the scrape waited for the mutex.                           *)
(***************************************************************************)
THEOREM SnapshotSound == Spec => []SnapshotNeverOverstates
<1>1. TypeOK /\ BudgetInv /\ WindowInv => SnapshotNeverOverstates
  <2>. SUFFICES ASSUME TypeOK, BudgetInv, WindowInv, NEW c \in Campaigns, NEW t \in Scraped
                PROVE  /\ SpendToday(c, t) <= charged[Day(t)][c]
                       /\ QPSCurrent(c, t) <= bids[t][c]
    BY DEF SnapshotNeverOverstates
  <2>1. t \in Seconds /\ t # 0 /\ Day(t) \in Days
    BY ScrapedInSeconds, DayInDays DEF Seconds
  <2>2. charged[Day(t)][c] \in Nat /\ bids[t][c] \in Nat
    BY <2>1 DEF TypeOK
  <2>3. SpendToday(c, t) <= charged[Day(t)][c]
    BY <2>2 DEF SpendToday, BudgetInv, PageOf
  <2>4. QPSCurrent(c, t) <= bids[t][c]
    BY <2>1, <2>2 DEF QPSCurrent, WindowInv, WindowOf
  <2>. QED
    BY <2>3, <2>4
<1>. QED
  BY <1>1, TypeCorrect, BudgetAccounted, WindowsAccounted, PTL

-----------------------------------------------------------------------------
(***************************************************************************)
(* Calls in turn.  A call is timely when no call of a later time has       *)
(* entered the mutex before it; a behaviour has its calls in turn when all *)
(* of them are timely.  What goes wrong in the engine goes wrong because a *)
(* call is overtaken or the process is restarted, and for no other reason. *)
(***************************************************************************)
InTurn == reply.at <= reply'.at

Timely == {t \in Received : reply.at <= t}

(* An instance that allows neither has its calls in order by construction. *)
InOrder == ~Overtaking /\ MaxRestarts = 0

(***************************************************************************)
(* Nothing is charged or bid beyond the last call, the spend map is the    *)
(* ledger's page of its day, and the window is the ledger's line of its    *)
(* second with nothing after it.                                           *)
(***************************************************************************)
Frontier ==
  /\ reply.at <= now
  /\ dayKey = Day(reply.at)
  /\ \A c \in Campaigns, d \in Days : d > dayKey => charged[d][c] = 0
  /\ \A c \in Campaigns, s \in Seconds : s > reply.at => bids[s][c] = 0

PageInv == \A c \in Campaigns : spend[c] = charged[dayKey][c]

LineInv ==
  \A c \in Campaigns :
    /\ qps[c].sec <= reply.at
    /\ QPS[c] > 0 =>
         \A s \in Seconds :
           Day(s) = dayKey /\ s >= qps[c].sec =>
             bids[s][c] = IF s = qps[c].sec THEN qps[c].count ELSE 0

PacedInv ==
  \A c \in Campaigns :
    charged[dayKey][c] > 0 => PacingAllows(c, charged[dayKey][c], reply.at)

LimitInv == DailyBudgetKept /\ QPSKept

OrderInv == Frontier /\ PageInv /\ LineInv /\ PacedInv /\ LimitInv

-----------------------------------------------------------------------------
(* The ledger's rules are the engine's. *)

LEMMA SameRules ==
  ASSUME NEW c, NEW t, NEW n
  PROVE  /\ Ledger!Day(t) = Day(t)
         /\ Ledger!BelowQPS(c, n) <=> BelowQPS(c, n)
         /\ Ledger!WithinBudget(c, n) <=> WithinBudget(c, n)
BY DEF Ledger!Day, Day, Ledger!BelowQPS, BelowQPS, Ledger!WithinBudget, WithinBudget

LEMMA ProductMonotone ==
  ASSUME NEW a \in Nat, NEW b \in Nat, NEW m \in Nat, NEW n \in Nat, m <= n
  PROVE  a * m * b \in Nat /\ a * n * b \in Nat /\ a * m * b <= a * n * b
<1>1. a * m \in Nat /\ a * n \in Nat /\ a * m <= a * n
  OBVIOUS
<1>. QED
  BY <1>1

(***************************************************************************)
(* The rule of reserve, the larger of two shares, is the curve of the      *)
(* ledger, either of two shares.                                           *)
(***************************************************************************)
LEMMA RuleIsCurve ==
  ASSUME NEW c \in Campaigns, NEW n \in Nat, NEW t \in Nat
  PROVE  Ledger!OnCurve(c, n, t) <=> PacingAllows(c, n, t)
<1>. DEFINE T == Tolerance(c)
            B == DailyBudget[c]
            E == Elapsed(t)
            M == MinElapsed
            spent == n * SecondsPerDay * 100
<1>1. T \in Nat /\ B \in Nat /\ E \in Nat /\ M \in Nat /\ spent \in Nat
  BY CampaignAssumption, CalendarAssumption DEF Tolerance, DefaultTolerance, Elapsed
<1>2. Ledger!OnCurve(c, n, t) <=>
        \/ c \notin EvenPaced \/ B = 0 \/ n <= BidCPM[c]
        \/ spent <= B * E * T \/ spent <= B * M * T
  BY DEF Ledger!OnCurve, Ledger!Elapsed, Elapsed, Ledger!Percent, Tolerance, DefaultTolerance
<1>3. PacingAllows(c, n, t) <=>
        \/ c \notin EvenPaced \/ ~(B > 0) \/ n <= BidCPM[c]
        \/ spent <= B * (IF E > M THEN E ELSE M) * T
  BY DEF PacingAllows
<1>. HIDE DEF T, B, E, M, spent
<1>4. CASE E > M
  <2>1. B * M * T \in Nat /\ B * E * T \in Nat /\ B * M * T <= B * E * T
    BY <1>1, <1>4, ProductMonotone
  <2>. QED
    BY <1>1, <1>2, <1>3, <1>4, <2>1
<1>5. CASE ~(E > M)
  <2>1. B * M * T \in Nat /\ B * E * T \in Nat /\ B * E * T <= B * M * T
    BY <1>1, <1>5, ProductMonotone
  <2>. QED
    BY <1>1, <1>2, <1>3, <1>5, <2>1
<1>. QED
  BY <1>4, <1>5

(* Today's charges are within what pacing allows, in the engine's words.   *)
PacedToday ==
  \A c \in Campaigns :
    charged[Day(now)][c] > 0 => PacingAllows(c, charged[Day(now)][c], now)

LEMMA PacedTodayIsKept == TypeOK => (PacedToday <=> PacingKept)
<1>. SUFFICES ASSUME TypeOK, NEW c \in Campaigns
              PROVE  Ledger!OnCurve(c, charged[Day(now)][c], now)
                       <=> PacingAllows(c, charged[Day(now)][c], now)
  BY DEF PacedToday, PacingKept
<1>1. now \in Nat /\ Day(now) \in Days
  BY DayInDays, TimeAssumption DEF TypeOK, Seconds
<1>. QED
  BY <1>1, RuleIsCurve DEF TypeOK

-----------------------------------------------------------------------------
(* What implementing the ledger is worth: its pages and its lines.         *)
LedgerInv ==
  /\ charged \in [Days -> [Campaigns -> Nat]] /\ bids \in [Seconds -> [Campaigns -> Nat]]
  /\ DailyBudgetKept /\ QPSKept

LEMMA GrantKeepsLimits ==
  ASSUME LedgerInv, NEW c \in Campaigns, NEW t \in Seconds, Ledger!Grant(c, t)
  PROVE  LedgerInv'
<1>. DEFINE next == charged[Day(t)][c] + BidCPM[c]
<1>1. /\ Day(t) \in Days /\ BidCPM[c] \in Nat
      /\ charged[Day(t)][c] \in Nat /\ bids[t][c] \in Nat
  BY DayInDays, CampaignAssumption DEF LedgerInv
<1>2. /\ charged' = [charged EXCEPT ![Day(t)] = [charged[Day(t)] EXCEPT ![c] = next]]
      /\ bids' = [bids EXCEPT ![t] = [bids[t] EXCEPT ![c] = bids[t][c] + 1]]
      /\ WithinBudget(c, next) /\ BelowQPS(c, bids[t][c])
  BY SameRules DEF Ledger!Grant, Ledger!Fits
<1>3. next \in Nat /\ bids[t][c] + 1 \in Nat
  BY <1>1
<1>4. /\ charged' \in [Days -> [Campaigns -> Nat]]
      /\ bids' \in [Seconds -> [Campaigns -> Nat]]
  BY <1>1, <1>2, <1>3 DEF LedgerInv
<1>. HIDE DEF next
<1>5. ASSUME NEW k \in Campaigns, NEW d \in Days
      PROVE  WithinBudget(k, charged'[d][k])
  <2>1. charged'[d][k] = IF d = Day(t) /\ k = c THEN next ELSE charged[d][k]
    BY <1>1, <1>2 DEF LedgerInv
  <2>. QED
    BY <1>2, <2>1 DEF LedgerInv, DailyBudgetKept
<1>6. ASSUME NEW k \in Campaigns, NEW s \in Seconds, QPS[k] > 0
      PROVE  bids'[s][k] <= QPS[k]
  <2>1. bids'[s][k] = IF s = t /\ k = c THEN bids[t][c] + 1 ELSE bids[s][k]
    BY <1>1, <1>2 DEF LedgerInv
  <2>2. QPS[k] \in Nat
    BY CampaignAssumption
  <2>. QED
    BY <1>1, <1>2, <1>6, <2>1, <2>2 DEF LedgerInv, QPSKept, BelowQPS
<1>. QED
  BY <1>4, <1>5, <1>6 DEF LedgerInv, DailyBudgetKept, QPSKept

(***************************************************************************)
(* The ledger keeps the budget and the QPS limit in whatever order calls   *)
(* come, because it looks up the day and the second of the call.  The      *)
(* engine needs its calls in turn because it has one page and one line,    *)
(* not because its rules differ (reserve, engine.go:235-273).              *)
(***************************************************************************)
THEOREM LedgerKeepsLimits == ImplementsLedger => [](DailyBudgetKept /\ QPSKept)
<1>1. Ledger!LedgerInit => LedgerInv
  BY CampaignAssumption DEF Ledger!LedgerInit, LedgerInv, DailyBudgetKept, WithinBudget, QPSKept
<1>2. LedgerInv /\ [Ledger!LedgerNext]_(Ledger!ledgerVars) => LedgerInv'
  <2>. SUFFICES ASSUME LedgerInv, [Ledger!LedgerNext]_(Ledger!ledgerVars)
                PROVE  LedgerInv'
    OBVIOUS
  <2>1. ASSUME NEW c \in Campaigns, NEW t \in Seconds, Ledger!Grant(c, t)
        PROVE  LedgerInv'
    BY <2>1, GrantKeepsLimits
  <2>2. ASSUME UNCHANGED <<charged, bids>>
        PROVE  LedgerInv'
    BY <2>2 DEF LedgerInv, DailyBudgetKept, WithinBudget, QPSKept
  <2>. QED
    BY <2>1, <2>2 DEF Ledger!LedgerNext, Ledger!Deny, Ledger!ledgerVars
<1>3. LedgerInv => DailyBudgetKept /\ QPSKept
  BY DEF LedgerInv
<1>. QED
  BY <1>1, <1>2, <1>3, PTL DEF ImplementsLedger, Ledger!LedgerSpec

-----------------------------------------------------------------------------
(***************************************************************************)
(* A timely call is no older than the last one.                            *)
(***************************************************************************)
LEMMA CallInOrder ==
  ASSUME TypeOK, dayKey = Day(reply.at), NEW t \in Timely
  PROVE  /\ t \in Seconds /\ t <= now /\ reply.at <= t
         /\ Day(t) \in Days /\ dayKey <= Day(t)
<1>1. t \in Seconds /\ t <= now /\ reply.at <= t /\ reply.at \in Seconds
  BY ReceivedInSeconds DEF Timely, TypeOK
<1>2. t \in Nat /\ reply.at \in Nat
  BY <1>1, TimeAssumption DEF Seconds
<1>. QED
  BY <1>1, <1>2, DayMonotone, DayInDays

(***************************************************************************)
(* Such a call finds in the engine what the ledger has on its pages.       *)
(***************************************************************************)
LEMMA CallSeesLedger ==
  ASSUME TypeOK, OrderInv, NEW c \in Campaigns, NEW t \in Timely
  PROVE  /\ BaseSpend(t)[c] = charged[Day(t)][c]
         /\ QPS[c] > 0 => Window(c, t).count = bids[t][c]
         /\ BaseQps(t)[c].sec <= t
<1>1. /\ t \in Seconds /\ t <= now /\ reply.at <= t
      /\ Day(t) \in Days /\ dayKey <= Day(t)
  BY CallInOrder DEF OrderInv, Frontier
<1>2. /\ t \in Nat /\ reply.at \in Nat /\ qps[c].sec \in Nat
      /\ Day(t) \in Nat /\ dayKey \in Nat
  <2>1. t \in Nat /\ reply.at \in Nat
    BY <1>1, TimeAssumption DEF TypeOK, Seconds
  <2>2. qps[c].sec \in Nat
    BY TimeAssumption DEF TypeOK, Seconds, RateState
  <2>. QED
    BY <1>1, <2>1, <2>2, DayMonotone DEF OrderInv, Frontier
<1>3. CASE SameDay(t)
  <2>1. BaseSpend(t)[c] = charged[Day(t)][c]
    BY <1>3 DEF BaseSpend, SameDay, OrderInv, PageInv
  <2>2. BaseQps(t)[c] = qps[c] /\ qps[c].sec <= t
    BY <1>1, <1>2, <1>3 DEF BaseQps, OrderInv, LineInv
  <2>3. QPS[c] > 0 => bids[t][c] = IF t = qps[c].sec THEN qps[c].count ELSE 0
    BY <1>1, <1>3, <2>2 DEF SameDay, OrderInv, LineInv
  <2>4. QPS[c] > 0 => Window(c, t).count = bids[t][c]
    BY <2>2, <2>3 DEF Window, Fresh
  <2>. QED
    BY <2>1, <2>2, <2>4
<1>4. CASE ~SameDay(t)
  <2>1. Day(t) > dayKey /\ t > reply.at
    BY <1>1, <1>2, <1>4 DEF SameDay, OrderInv, Frontier
  <2>2. charged[Day(t)][c] = 0 /\ bids[t][c] = 0
    BY <1>1, <2>1 DEF OrderInv, Frontier
  <2>3. BaseSpend(t)[c] = 0 /\ BaseQps(t)[c] = [sec |-> 0, count |-> 0]
    BY <1>4 DEF BaseSpend, BaseQps, NoSpend, NoWindow
  <2>4. Window(c, t).count = 0
    BY <2>3 DEF Window, Fresh
  <2>. QED
    BY <1>2, <2>2, <2>3, <2>4
<1>. QED
  BY <1>3, <1>4

LEMMA AdmitsIffFits ==
  ASSUME TypeOK, OrderInv, NEW c \in Campaigns, NEW t \in Timely
  PROVE  Admits(c, t) <=> Ledger!Fits(c, t)
<1>. DEFINE next == charged[Day(t)][c] + BidCPM[c]
<1>1. BaseSpend(t)[c] = charged[Day(t)][c]
      /\ (QPS[c] > 0 => Window(c, t).count = bids[t][c])
  BY CallSeesLedger
<1>2. Admits(c, t) <=> /\ BelowQPS(c, bids[t][c])
                       /\ WithinBudget(c, next)
                       /\ PacingAllows(c, next, t)
  BY <1>1 DEF Admits, BelowQPS
<1>3. Ledger!Fits(c, t) <=> /\ BelowQPS(c, bids[t][c])
                            /\ WithinBudget(c, next)
                            /\ PacingAllows(c, next, t)
  <2>1. next \in Nat /\ t \in Nat
    <3>1. t \in Seconds /\ Day(t) \in Days
      BY CallInOrder DEF OrderInv, Frontier
    <3>2. charged[Day(t)][c] \in Nat
      BY <3>1 DEF TypeOK
    <3>3. BidCPM[c] \in Nat
      BY CampaignAssumption
    <3>. QED
      BY <3>1, <3>2, <3>3, TimeAssumption DEF Seconds
  <2>2. Ledger!OnCurve(c, next, t) <=> PacingAllows(c, next, t)
    BY <2>1, RuleIsCurve
  <2>. QED
    BY <2>2, SameRules DEF Ledger!Fits
<1>. QED
  BY <1>2, <1>3

-----------------------------------------------------------------------------
(* The pacing curve does not fall within a day. *)

LEMMA ElapsedMonotone ==
  ASSUME NEW s \in Nat, NEW t \in Nat, s <= t, Day(s) = Day(t)
  PROVE  Elapsed(s) \in Nat /\ Elapsed(t) \in Nat /\ Elapsed(s) <= Elapsed(t)
BY CalendarAssumption DEF Day, Elapsed

(***************************************************************************)
(* What pacing allows it allows for the rest of the day.                   *)
(***************************************************************************)
LEMMA PacingMonotone ==
  ASSUME NEW c \in Campaigns, NEW n \in Nat, NEW s \in Nat, NEW t \in Nat,
         s <= t, Day(s) = Day(t), PacingAllows(c, n, s)
  PROVE  PacingAllows(c, n, t)
<1>. DEFINE e(u) == IF Elapsed(u) > MinElapsed THEN Elapsed(u) ELSE MinElapsed
<1>1. e(s) \in Nat /\ e(t) \in Nat /\ e(s) <= e(t)
  BY ElapsedMonotone, CalendarAssumption
<1>2. DailyBudget[c] \in Nat /\ Tolerance(c) \in Nat
  BY CampaignAssumption DEF Tolerance, DefaultTolerance
<1>. HIDE DEF e
<1>3. /\ DailyBudget[c] * e(s) * Tolerance(c) \in Nat
      /\ DailyBudget[c] * e(t) * Tolerance(c) \in Nat
      /\ DailyBudget[c] * e(s) * Tolerance(c) <= DailyBudget[c] * e(t) * Tolerance(c)
  BY <1>1, <1>2, ProductMonotone
<1>4. n * SecondsPerDay * 100 \in Nat
  BY CalendarAssumption
<1>5. \A u \in Nat : PacingAllows(c, n, u) <=>
        ((c \in EvenPaced /\ DailyBudget[c] > 0) =>
           \/ n * SecondsPerDay * 100 <= DailyBudget[c] * e(u) * Tolerance(c)
           \/ n <= BidCPM[c])
  BY DEF PacingAllows, e
<1>. QED
  BY <1>3, <1>4, <1>5

-----------------------------------------------------------------------------
(* Every call keeps the engine on the ledger's page. *)

(***************************************************************************)
(* What the proofs below need of the numbers.                              *)
(***************************************************************************)
LEMMA Numbers ==
  ASSUME TypeOK, OrderInv, NEW c \in Campaigns, NEW t \in Timely
  PROVE  /\ t \in Nat /\ reply.at \in Nat /\ now \in Nat
         /\ Day(t) \in Nat /\ dayKey \in Nat
         /\ BidCPM[c] \in Nat \ {0}
         /\ charged[Day(t)][c] \in Nat
         /\ bids[t][c] \in Nat
         /\ BaseSpend(t) \in [Campaigns -> Nat]
         /\ BaseQps(t) \in [Campaigns -> RateState]
<1>1. /\ t \in Seconds /\ reply.at \in Seconds /\ now \in Seconds
      /\ Day(t) \in Days
  BY CallInOrder DEF TypeOK, OrderInv, Frontier
<1>2. t \in Nat /\ reply.at \in Nat /\ now \in Nat
  BY <1>1, TimeAssumption DEF Seconds
<1>3. Day(t) \in Nat /\ dayKey \in Nat
  BY <1>2, DayMonotone DEF OrderInv, Frontier
<1>. QED
  BY <1>1, <1>2, <1>3, BaseTypes, CampaignAssumption DEF TypeOK

(***************************************************************************)
(* What a granted call of campaign c at time t does to campaign k.         *)
(***************************************************************************)
Committed(c, t, k) ==
  /\ \A d \in Days : charged'[d][k] =
       charged[d][k] + (IF d = Day(t) /\ k = c THEN BidCPM[c] ELSE 0)
  /\ \A s \in Seconds : bids'[s][k] =
       bids[s][k] + (IF s = t /\ k = c THEN 1 ELSE 0)
  /\ spend'[k] = BaseSpend(t)[k] + (IF k = c THEN BidCPM[c] ELSE 0)
  /\ qps'[k] = IF k = c /\ QPS[c] > 0
                 THEN [sec |-> t, count |-> Window(c, t).count + 1]
                 ELSE BaseQps(t)[k]

LEMMA CommitEffectAt ==
  ASSUME TypeOK, NEW c \in Campaigns, NEW t \in Seconds, Commit(c, t), NEW k \in Campaigns
  PROVE  Committed(c, t, k)
<1>1. /\ Day(t) \in Days /\ BidCPM[c] \in Nat
      /\ BaseSpend(t) \in [Campaigns -> Nat] /\ BaseQps(t) \in [Campaigns -> RateState]
  BY DayInDays, BaseTypes, CampaignAssumption
<1>2. \A d \in Days : charged'[d][k] =
        charged[d][k] + (IF d = Day(t) /\ k = c THEN BidCPM[c] ELSE 0)
  BY <1>1 DEF Commit, TypeOK
<1>3. \A s \in Seconds : bids'[s][k] = bids[s][k] + (IF s = t /\ k = c THEN 1 ELSE 0)
  BY DEF Commit, TypeOK
<1>4. spend'[k] = BaseSpend(t)[k] + (IF k = c THEN BidCPM[c] ELSE 0)
  BY <1>1 DEF Commit
<1>5. qps'[k] = IF k = c /\ QPS[c] > 0
                 THEN [sec |-> t, count |-> Window(c, t).count + 1]
                 ELSE BaseQps(t)[k]
  BY <1>1 DEF Commit
<1>. QED
  BY <1>2, <1>3, <1>4, <1>5 DEF Committed

LEMMA CommitEffect ==
  ASSUME TypeOK, OrderInv, NEW c \in Campaigns, NEW t \in Timely,
         Commit(c, t), NEW k \in Campaigns
  PROVE  Committed(c, t, k)
<1>1. t \in Seconds
  BY CallInOrder DEF OrderInv, Frontier
<1>. QED
  BY <1>1, CommitEffectAt

LEMMA ReserveKeepsFrontier ==
  ASSUME TypeOK, OrderInv, NEW c \in Campaigns, NEW t \in Timely, Reserve(c, t)
  PROVE  Frontier'
<1>1. /\ t \in Seconds /\ t <= now /\ reply.at <= t
      /\ Day(t) \in Days /\ dayKey <= Day(t)
  BY CallInOrder DEF OrderInv, Frontier
<1>2. t \in Nat /\ reply.at \in Nat /\ now \in Nat /\ Day(t) \in Nat /\ dayKey \in Nat
  BY Numbers
<1>3. reply'.at = t /\ dayKey' = Day(t) /\ now' = now /\ restarts' = restarts
  BY DEF Reserve, Commit, Refuse, Rollover
<1>4. ASSUME NEW k \in Campaigns, NEW d \in Days, d > Day(t)
      PROVE  charged'[d][k] = 0
  <2>1. d > dayKey
    BY <1>1, <1>2, <1>4, TimeAssumption, DayMonotone DEF Days
  <2>2. charged[d][k] = 0
    BY <2>1 DEF OrderInv, Frontier
  <2>3. CASE Commit(c, t)
    <3>1. Committed(c, t, k)
      BY <2>3, CommitEffect
    <3>. QED
      BY <1>2, <1>4, <2>2, <3>1 DEF Committed
  <2>4. CASE Refuse(c, t)
    BY <2>2, <2>4 DEF Refuse
  <2>. QED
    BY <2>3, <2>4 DEF Reserve
<1>5. ASSUME NEW k \in Campaigns, NEW s \in Seconds, s > t
      PROVE  bids'[s][k] = 0
  <2>1. s > reply.at
    BY <1>1, <1>2, <1>5, TimeAssumption DEF Seconds
  <2>2. bids[s][k] = 0
    BY <2>1 DEF OrderInv, Frontier
  <2>3. CASE Commit(c, t)
    <3>1. Committed(c, t, k)
      BY <2>3, CommitEffect
    <3>. QED
      BY <1>2, <1>5, <2>2, <3>1 DEF Committed
  <2>4. CASE Refuse(c, t)
    BY <2>2, <2>4 DEF Refuse
  <2>. QED
    BY <2>3, <2>4 DEF Reserve
<1>. QED
  BY <1>1, <1>3, <1>4, <1>5 DEF OrderInv, Frontier

LEMMA ReserveKeepsPage ==
  ASSUME TypeOK, OrderInv, NEW c \in Campaigns, NEW t \in Timely, Reserve(c, t)
  PROVE  PageInv'
<1>. SUFFICES ASSUME NEW k \in Campaigns
              PROVE  spend'[k] = charged'[dayKey'][k]
  BY DEF PageInv
<1>1. Day(t) \in Days /\ dayKey' = Day(t)
  BY CallInOrder DEF OrderInv, Frontier, Reserve, Commit, Refuse, Rollover
<1>2. BaseSpend(t)[k] = charged[Day(t)][k]
  BY CallSeesLedger
<1>3. CASE Commit(c, t)
  <2>1. Committed(c, t, k)
    BY <1>3, CommitEffect
  <2>. QED
    BY <1>1, <1>2, <2>1 DEF Committed
<1>4. CASE Refuse(c, t)
  BY <1>1, <1>2, <1>4 DEF Refuse
<1>. QED
  BY <1>3, <1>4 DEF Reserve

(***************************************************************************)
(* The seconds at or after a call's that fall on its day: only the call's  *)
(* own second can have bids, and those the window of the base state knows. *)
(***************************************************************************)
LEMMA BaseLine ==
  ASSUME TypeOK, OrderInv, NEW t \in Timely, NEW k \in Campaigns,
         QPS[k] > 0, NEW s \in Seconds, Day(s) = Day(t), s >= BaseQps(t)[k].sec
  PROVE  bids[s][k] = IF s = BaseQps(t)[k].sec THEN BaseQps(t)[k].count ELSE 0
<1>1. CASE SameDay(t)
  BY <1>1 DEF SameDay, BaseQps, OrderInv, LineInv
<1>2. CASE ~SameDay(t)
  <2>1. BaseQps(t)[k] = [sec |-> 0, count |-> 0]
    BY <1>2 DEF BaseQps, NoWindow
  <2>2. Day(reply.at) < Day(s)
    BY <1>2, CallInOrder, Numbers DEF SameDay, OrderInv, Frontier
  <2>3. s \in Nat /\ reply.at \in Nat
    BY Numbers, TimeAssumption DEF Seconds
  <2>4. s > reply.at
    BY <2>2, <2>3, DayMonotone
  <2>. QED
    BY <2>1, <2>3, <2>4 DEF OrderInv, Frontier
<1>. QED
  BY <1>1, <1>2

LEMMA ReserveKeepsLine ==
  ASSUME TypeOK, OrderInv, NEW c \in Campaigns, NEW t \in Timely, Reserve(c, t)
  PROVE  LineInv'
<1>1. t \in Seconds /\ dayKey' = Day(t) /\ reply'.at = t
  BY CallInOrder DEF OrderInv, Frontier, Reserve, Commit, Refuse, Rollover
<1>. SUFFICES ASSUME NEW k \in Campaigns
              PROVE  /\ qps'[k].sec <= t
                     /\ QPS[k] > 0 =>
                          \A s \in Seconds :
                            Day(s) = Day(t) /\ s >= qps'[k].sec =>
                              bids'[s][k] = IF s = qps'[k].sec THEN qps'[k].count ELSE 0
  BY <1>1 DEF LineInv
<1>2. /\ BaseQps(t)[k].sec <= t
      /\ QPS[c] > 0 => Window(c, t).count = bids[t][c]
  BY CallSeesLedger
<1>3. CASE Commit(c, t) /\ k = c /\ QPS[c] > 0
  <2>. Committed(c, t, k)
    BY <1>3, CommitEffect
  <2>1. qps'[k] = [sec |-> t, count |-> bids[t][c] + 1]
    BY <1>2, <1>3 DEF Committed
  <2>2. ASSUME NEW s \in Seconds, Day(s) = Day(t), s >= t
        PROVE  bids'[s][k] = IF s = t THEN bids[t][c] + 1 ELSE 0
    <3>1. CASE s = t
      BY <1>3, <3>1 DEF Committed
    <3>2. CASE s # t
      <4>1. s > t /\ s > reply.at
        BY <2>2, <3>2, Numbers, CallInOrder, TimeAssumption DEF Seconds, OrderInv, Frontier
      <4>2. bids[s][k] = 0
        BY <4>1 DEF OrderInv, Frontier
      <4>. QED
        BY <1>3, <3>2, <4>2 DEF Committed
    <3>. QED
      BY <3>1, <3>2
  <2>. QED
    BY <2>1, <2>2, Numbers
<1>4. CASE Commit(c, t) /\ ~(k = c /\ QPS[c] > 0)
  <2>. Committed(c, t, k)
    BY <1>4, CommitEffect
  <2>1. qps'[k] = BaseQps(t)[k]
    BY <1>4 DEF Committed
  <2>2. ASSUME QPS[k] > 0, NEW s \in Seconds
        PROVE  bids'[s][k] = bids[s][k]
    <3>1. k # c
      BY <1>4, <2>2
    <3>2. bids[s][k] \in Nat
      BY DEF TypeOK
    <3>. QED
      BY <1>4, <3>1, <3>2 DEF Committed
  <2>. QED
    BY <1>2, <2>1, <2>2, BaseLine
<1>5. CASE Refuse(c, t)
  <2>1. qps' = BaseQps(t) /\ bids' = bids
    BY <1>5 DEF Refuse
  <2>. QED
    BY <1>2, <2>1, BaseLine
<1>. QED
  BY <1>3, <1>4, <1>5 DEF Reserve

LEMMA ReserveKeepsPaced ==
  ASSUME TypeOK, OrderInv, NEW c \in Campaigns, NEW t \in Timely, Reserve(c, t)
  PROVE  PacedInv'
<1>1. /\ t \in Seconds /\ reply.at <= t /\ Day(t) \in Days
      /\ dayKey' = Day(t) /\ reply'.at = t
  BY CallInOrder DEF OrderInv, Frontier, Reserve, Commit, Refuse, Rollover
<1>. SUFFICES ASSUME NEW k \in Campaigns, charged'[Day(t)][k] > 0
              PROVE  PacingAllows(k, charged'[Day(t)][k], t)
  BY <1>1 DEF PacedInv, PacingAllows
<1>2. charged[Day(t)][k] \in Nat
  BY <1>1 DEF TypeOK
<1>3. ASSUME charged'[Day(t)][k] = charged[Day(t)][k]
      PROVE  PacingAllows(k, charged'[Day(t)][k], t)
  <2>1. dayKey = Day(t)
    BY <1>1, <1>3, CallInOrder, Numbers DEF OrderInv, Frontier
  <2>2. PacingAllows(k, charged[Day(t)][k], reply.at)
    BY <1>3, <2>1 DEF OrderInv, PacedInv
  <2>3. Day(reply.at) = Day(t) /\ reply.at \in Nat /\ t \in Nat
    BY <2>1, Numbers DEF OrderInv, Frontier
  <2>. QED
    BY <1>1, <1>2, <1>3, <2>2, <2>3, PacingMonotone
<1>4. CASE Commit(c, t) /\ k = c
  <2>. Committed(c, t, k)
    BY <1>4, CommitEffect
  <2>. BaseSpend(t)[c] = charged[Day(t)][c]
    BY CallSeesLedger
  <2>1. BaseSpend(t)[c] + BidCPM[c] = charged'[Day(t)][c]
    BY <1>1, <1>4 DEF Committed
  <2>2. PacingAllows(c, BaseSpend(t)[c] + BidCPM[c], t)
    BY <1>4 DEF Commit, Admits
  <2>. QED
    BY <1>4, <2>1, <2>2
<1>5. CASE Commit(c, t) /\ k # c
  <2>1. Committed(c, t, k)
    BY <1>5, CommitEffect
  <2>. QED
    BY <1>1, <1>2, <1>3, <1>5, <2>1 DEF Committed
<1>6. CASE Refuse(c, t)
  BY <1>3, <1>6 DEF Refuse
<1>. QED
  BY <1>4, <1>5, <1>6 DEF Reserve

LEMMA ReserveKeepsLimits ==
  ASSUME TypeOK, OrderInv, NEW c \in Campaigns, NEW t \in Timely, Reserve(c, t)
  PROVE  LimitInv'
<1>1. t \in Seconds /\ Day(t) \in Days
  BY CallInOrder DEF OrderInv, Frontier
<1>2. CASE Refuse(c, t)
  BY <1>2 DEF Refuse, OrderInv, LimitInv, DailyBudgetKept, QPSKept
<1>3. CASE Commit(c, t)
  <2>1. WithinBudget(c, charged[Day(t)][c] + BidCPM[c])
    BY <1>3, CallSeesLedger DEF Commit, Admits
  <2>2. QPS[c] > 0 => bids[t][c] < QPS[c]
    BY <1>3, CallSeesLedger DEF Commit, Admits, BelowQPS
  <2>3. ASSUME NEW k \in Campaigns, NEW d \in Days
        PROVE  WithinBudget(k, charged'[d][k])
    <3>. Committed(c, t, k)
      BY <1>3, CommitEffect
    <3>1. WithinBudget(k, charged[d][k]) /\ charged[d][k] \in Nat
      BY DEF OrderInv, LimitInv, DailyBudgetKept, TypeOK
    <3>2. CASE d = Day(t) /\ k = c
      BY <2>1, <3>2 DEF Committed
    <3>3. CASE ~(d = Day(t) /\ k = c)
      <4>1. charged'[d][k] = charged[d][k]
        BY <3>1, <3>3 DEF Committed
      <4>. QED
        BY <3>1, <4>1
    <3>. QED
      BY <3>2, <3>3
  <2>4. ASSUME NEW k \in Campaigns, NEW s \in Seconds, QPS[k] > 0
        PROVE  bids'[s][k] <= QPS[k]
    <3>. Committed(c, t, k)
      BY <1>3, CommitEffect
    <3>1. bids[s][k] <= QPS[k] /\ bids[s][k] \in Nat /\ QPS[k] \in Nat
      BY <2>4, CampaignAssumption DEF OrderInv, LimitInv, QPSKept, TypeOK
    <3>2. CASE s = t /\ k = c
      <4>1. bids'[s][k] = bids[t][c] + 1
        BY <3>2 DEF Committed
      <4>. QED
        BY <2>2, <2>4, <3>1, <3>2, <4>1
    <3>3. CASE ~(s = t /\ k = c)
      <4>1. bids'[s][k] = bids[s][k]
        BY <3>1, <3>3 DEF Committed
      <4>. QED
        BY <3>1, <4>1
    <3>. QED
      BY <3>2, <3>3
  <2>5. DailyBudgetKept'
    BY <2>3 DEF DailyBudgetKept, WithinBudget
  <2>6. QPSKept'
    BY <2>4 DEF QPSKept
  <2>. QED
    BY <2>5, <2>6 DEF LimitInv
<1>. QED
  BY <1>2, <1>3 DEF Reserve

(* A step of the engine in a behaviour that has its calls in turn.         *)
LEMMA CallIsTimely ==
  ASSUME TypeOK, NEW c \in Campaigns, NEW t \in Received, Reserve(c, t), [InTurn]_vars
  PROVE  t \in Timely
<1>1. reply'.at = t /\ t \in Nat
  BY ReceivedInSeconds, TimeAssumption DEF Reserve, Commit, Refuse, Seconds
<1>2. reply.at <= reply'.at
  BY <1>1 DEF InTurn, vars
<1>. QED
  BY <1>1, <1>2 DEF Timely

LEMMA OrderStarts == Init => OrderInv
<1>. SUFFICES ASSUME Init PROVE OrderInv
  OBVIOUS
<1>1. StartSecond \in Seconds /\ Day(StartSecond) \in Days /\ StartSecond \in Nat
  BY DayInDays, TimeAssumption DEF Seconds
<1>2. Frontier
  BY <1>1 DEF Init, Frontier, NoSpend
<1>3. PageInv
  BY <1>1 DEF Init, PageInv, NoSpend
<1>4. LineInv
  <2>1. \A c \in Campaigns : qps[c] = [sec |-> 0, count |-> 0]
    BY DEF Init, NoWindow
  <2>2. \A c \in Campaigns, s \in Seconds : bids[s][c] = 0
    BY DEF Init, NoSpend
  <2>3. reply.at \in Nat
    BY <1>1 DEF Init
  <2>4. ASSUME NEW c \in Campaigns
        PROVE  qps[c].sec <= reply.at /\ qps[c].count = 0
    <3>1. qps[c].sec = 0 /\ qps[c].count = 0
      BY <2>1
    <3>. QED
      BY <2>3, <3>1
  <2>. QED
    BY <2>2, <2>4 DEF LineInv
<1>5. PacedInv
  BY <1>1 DEF Init, PacedInv, NoSpend
<1>6. LimitInv
  BY CampaignAssumption DEF Init, LimitInv, DailyBudgetKept, WithinBudget, QPSKept, NoSpend
<1>. QED
  BY <1>2, <1>3, <1>4, <1>5, <1>6 DEF OrderInv

LEMMA OrderKept ==
  ASSUME TypeOK, OrderInv, [Next]_vars, [InTurn]_vars
  PROVE  OrderInv' \/ Restart
<1>1. CASE Tick
  <2>1. Frontier'
    BY <1>1, TimeAssumption DEF Tick, TypeOK, Seconds, OrderInv, Frontier, engineVars, historyVars
  <2>2. /\ UNCHANGED <<dayKey, spend, qps, reply, charged, bids>>
    BY <1>1 DEF Tick, engineVars, historyVars
  <2>3. PageInv' /\ LineInv' /\ PacedInv' /\ LimitInv'
    BY <2>2 DEF OrderInv, PageInv, LineInv, PacedInv, LimitInv, PacingAllows,
                DailyBudgetKept, WithinBudget, QPSKept
  <2>. QED
    BY <2>1, <2>3 DEF OrderInv
<1>2. ASSUME NEW c \in Campaigns, NEW t \in Received, Reserve(c, t)
      PROVE  OrderInv'
  <2>1. t \in Timely
    BY <1>2, CallIsTimely
  <2>. QED
    BY <1>2, <2>1, ReserveKeepsFrontier, ReserveKeepsPage, ReserveKeepsLine,
       ReserveKeepsPaced, ReserveKeepsLimits DEF OrderInv
<1>3. CASE UNCHANGED vars
  BY <1>3 DEF vars, engineVars, historyVars, OrderInv, Frontier, PageInv, LineInv,
              PacedInv, PacingAllows, LimitInv, DailyBudgetKept, WithinBudget, QPSKept
<1>. QED
  BY <1>1, <1>2, <1>3 DEF Next

LEMMA RestartCounts == ASSUME TypeOK, Restart PROVE restarts' # 0
BY DEF TypeOK, Restart

(***************************************************************************)
(* With its calls in turn the first process stays on the ledger's page,    *)
(* whatever happens after it has ended.                                    *)
(***************************************************************************)
THEOREM OnThePage == Spec /\ [][InTurn]_vars => [](restarts = 0 => OrderInv)
<1>. DEFINE I == restarts = 0 => OrderInv
<1>1. Init => I
  BY OrderStarts
<1>2. TypeOK /\ I /\ [Next]_vars /\ [InTurn]_vars => I'
  <2>. SUFFICES ASSUME TypeOK, I, [Next]_vars, [InTurn]_vars, restarts' = 0
                PROVE  OrderInv'
    OBVIOUS
  <2>1. ~Restart
    BY RestartCounts
  <2>2. restarts = 0
    BY <2>1 DEF Next, Tick, Reserve, vars
  <2>. QED
    BY <2>1, <2>2, OrderKept
<1>. HIDE DEF I
<1>3. Spec /\ [][InTurn]_vars => []I
  BY <1>1, <1>2, TypeCorrect, PTL DEF Spec
<1>. QED
  BY <1>3 DEF I

-----------------------------------------------------------------------------
(* What the page tells. *)

LEMMA PageTellsPacing == TypeOK /\ OrderInv => PacingKept
<1>. SUFFICES ASSUME TypeOK, OrderInv, NEW c \in Campaigns,
                     charged[Day(now)][c] > 0
              PROVE  PacingAllows(c, charged[Day(now)][c], now)
  BY PacedTodayIsKept DEF PacedToday
<1>1. /\ now \in Nat /\ reply.at \in Nat /\ reply.at <= now
      /\ Day(now) \in Days
  BY DayInDays, TimeAssumption DEF TypeOK, Seconds, OrderInv, Frontier
<1>2. Day(reply.at) \in Nat /\ Day(now) \in Nat /\ Day(reply.at) <= Day(now)
  BY <1>1, DayMonotone
<1>3. Day(now) = Day(reply.at) /\ dayKey = Day(reply.at)
  BY <1>1, <1>2 DEF OrderInv, Frontier
<1>4. PacingAllows(c, charged[Day(now)][c], reply.at)
  BY <1>3 DEF OrderInv, PacedInv
<1>5. charged[Day(now)][c] \in Nat
  BY <1>1 DEF TypeOK
<1>. QED
  BY <1>1, <1>3, <1>4, <1>5, PacingMonotone

(* A window is of the day of the spend map: both are emptied together.     *)
WindowOfDay == \A c \in Campaigns : qps[c].sec # 0 => Day(qps[c].sec) = dayKey

LEMMA WindowsAreOfDay == Spec => []WindowOfDay
<1>1. Init => WindowOfDay
  <2>. SUFFICES ASSUME Init, NEW c \in Campaigns PROVE qps[c].sec = 0
    BY DEF WindowOfDay
  <2>. QED
    BY DEF Init, NoWindow
<1>2. TypeOK /\ WindowOfDay /\ [Next]_vars => WindowOfDay'
  <2>. SUFFICES ASSUME TypeOK, WindowOfDay, [Next]_vars, NEW k \in Campaigns, qps'[k].sec # 0
                PROVE  Day(qps'[k].sec) = dayKey'
    BY DEF WindowOfDay, Day
  <2>1. CASE Tick \/ UNCHANGED vars
    BY <2>1 DEF Tick, vars, engineVars, WindowOfDay
  <2>2. CASE Restart
    BY <2>2 DEF Restart, NoWindow
  <2>3. ASSUME NEW c \in Campaigns, NEW t \in Received, Reserve(c, t)
        PROVE  Day(qps'[k].sec) = dayKey'
    <3>1. dayKey' = Day(t) /\ t \in Seconds
      BY <2>3, ReceivedInSeconds DEF Reserve, Commit, Refuse, Rollover
    <3>2. BaseQps(t)[k].sec # 0 => Day(BaseQps(t)[k].sec) = Day(t)
      BY DEF BaseQps, SameDay, NoWindow, WindowOfDay
    <3>3. BaseQps(t) \in [Campaigns -> RateState]
      BY <3>1, BaseTypes
    <3>4. qps'[k] = BaseQps(t)[k] \/ qps'[k].sec = t
      <4>1. CASE Refuse(c, t)
        BY <4>1 DEF Refuse
      <4>2. CASE Commit(c, t)
        BY <3>3, <4>2 DEF Commit
      <4>. QED
        BY <2>3, <4>1, <4>2 DEF Reserve
    <3>. QED
      BY <3>1, <3>2, <3>4
  <2>. QED
    BY <2>1, <2>2, <2>3 DEF Next
<1>. QED
  BY <1>1, <1>2, TypeCorrect, PTL DEF Spec

LEMMA PageTellsSnapshot == TypeOK /\ OrderInv /\ WindowOfDay => SnapshotExactUnlessOvertaken
<1>. SUFFICES ASSUME TypeOK, OrderInv, WindowOfDay, NEW c \in Campaigns, NEW t \in Scraped
              PROVE  /\ SpendToday(c, t) = IF Day(reply.at) > Day(t) THEN 0 ELSE charged[Day(t)][c]
                     /\ QPS[c] > 0 => \/ QPSCurrent(c, t) = bids[t][c]
                                      \/ reply.at > t /\ QPSCurrent(c, t) = 0
  BY DEF SnapshotExactUnlessOvertaken, SpendShown
<1>1. /\ t \in Seconds /\ t \in Nat /\ reply.at \in Nat /\ Day(t) \in Days
      /\ Day(t) \in Nat /\ Day(reply.at) \in Nat /\ dayKey = Day(reply.at)
  <2>1. t \in Seconds /\ t \in Nat /\ Day(t) \in Days
    BY ScrapedInSeconds, DayInDays
  <2>2. reply.at \in Nat
    BY TimeAssumption DEF TypeOK, Seconds
  <2>. QED
    BY <2>1, <2>2, DayMonotone DEF OrderInv, Frontier
<1>2. SpendToday(c, t) = IF Day(reply.at) > Day(t) THEN 0 ELSE charged[Day(t)][c]
  BY <1>1 DEF SpendToday, OrderInv, PageInv, Frontier
<1>3. qps[c].sec <= reply.at /\ qps[c].sec \in Nat
  BY TimeAssumption DEF OrderInv, LineInv, TypeOK, RateState, Seconds
<1>4. ASSUME QPS[c] > 0, Day(t) = dayKey
      PROVE  QPSCurrent(c, t) = bids[t][c] \/ (reply.at > t /\ QPSCurrent(c, t) = 0)
  <2>1. CASE t >= qps[c].sec
    <3>1. bids[t][c] = IF t = qps[c].sec THEN qps[c].count ELSE 0
      BY <1>1, <1>4, <2>1 DEF OrderInv, LineInv
    <3>. QED
      BY <3>1 DEF QPSCurrent
  <2>2. CASE t < qps[c].sec
    BY <1>1, <1>3, <2>2 DEF QPSCurrent
  <2>. QED
    BY <1>1, <1>3, <2>1, <2>2
<1>5. ASSUME Day(t) # dayKey
      PROVE  QPSCurrent(c, t) = bids[t][c] \/ (reply.at > t /\ QPSCurrent(c, t) = 0)
  <2>1. QPSCurrent(c, t) = 0
    BY <1>1, <1>5, ScrapedInSeconds DEF QPSCurrent, WindowOfDay, Seconds
  <2>2. CASE reply.at > t
    BY <2>1, <2>2
  <2>3. CASE reply.at < t
    BY <1>1, <2>1, <2>3 DEF OrderInv, Frontier
  <2>. QED
    BY <1>1, <1>5, <2>2, <2>3
<1>. QED
  BY <1>2, <1>4, <1>5

(***************************************************************************)
(* A process keeps every limit it promises as long as no call overtakes    *)
(* another: the daily budget, the QPS limit and the pacing curve; and its  *)
(* snapshots are exact as far as they are not overtaken themselves.  So    *)
(* only overtaking, or a restart, can break one of them.                   *)
(***************************************************************************)
THEOREM LimitsInTurn ==
  Spec /\ [][InTurn]_vars =>
    [](restarts = 0 => DailyBudgetKept /\ QPSKept /\ PacingKept /\ SnapshotExactUnlessOvertaken)
<1>1. TypeOK /\ WindowOfDay /\ (restarts = 0 => OrderInv) =>
        (restarts = 0 => DailyBudgetKept /\ QPSKept /\ PacingKept /\ SnapshotExactUnlessOvertaken)
  BY PageTellsPacing, PageTellsSnapshot DEF OrderInv, LimitInv
<1>. QED
  BY <1>1, TypeCorrect, WindowsAreOfDay, OnThePage, PTL

(***************************************************************************)
(* Such a process implements the ledger: reserve grants exactly what the   *)
(* ledger grants, charges what it charges and denies the rest.             *)
(***************************************************************************)
THEOREM LedgerInTurn ==
  Spec /\ [][InTurn]_vars /\ [](restarts = 0) => ImplementsLedger
<1>1. Init => Ledger!LedgerInit
  BY TimeAssumption DEF Init, Ledger!LedgerInit, NoSpend, Seconds
<1>2. TypeOK /\ OrderInv /\ [Next]_vars /\ [InTurn]_vars /\ (restarts = 0)'
        => [Ledger!LedgerNext]_(Ledger!ledgerVars)
  <2>. SUFFICES ASSUME TypeOK, OrderInv, [Next]_vars, [InTurn]_vars, restarts' = 0
                PROVE  [Ledger!LedgerNext]_(Ledger!ledgerVars)
    OBVIOUS
  <2>1. CASE Tick
    BY <2>1 DEF Tick, historyVars, Ledger!ledgerVars
  <2>2. ASSUME NEW c \in Campaigns, NEW t \in Received, Reserve(c, t)
        PROVE  Ledger!LedgerNext
    <3>1. t \in Timely
      BY <2>2, CallIsTimely
    <3>2. t \in Seconds /\ Ledger!Day(t) = Day(t)
      BY ReceivedInSeconds, SameRules
    <3>3. CASE Commit(c, t)
      <4>1. Ledger!Grant(c, t)
        BY <3>1, <3>2, <3>3, AdmitsIffFits DEF Commit, Ledger!Grant
      <4>. QED
        BY <3>2, <4>1 DEF Ledger!LedgerNext
    <3>4. CASE Refuse(c, t)
      <4>1. Ledger!Deny(c, t)
        BY <3>1, <3>4, AdmitsIffFits DEF Refuse, Ledger!Deny
      <4>. QED
        BY <3>2, <4>1 DEF Ledger!LedgerNext
    <3>. QED
      BY <2>2, <3>3, <3>4 DEF Reserve
  <2>3. ~Restart
    BY RestartCounts
  <2>4. CASE UNCHANGED vars
    BY <2>4 DEF vars, historyVars, Ledger!ledgerVars
  <2>. QED
    BY <2>1, <2>2, <2>3, <2>4 DEF Next
<1>3. (restarts = 0 => OrderInv) /\ restarts = 0 => OrderInv
  OBVIOUS
<1>. QED
  BY <1>1, <1>2, <1>3, TypeCorrect, OnThePage, PTL
  DEF Spec, ImplementsLedger, Ledger!LedgerSpec

-----------------------------------------------------------------------------
(***************************************************************************)
(* Days in order.  The budget and the pacing curve need less than calls in *)
(* turn: no call of an earlier day after one of a later day.  Within a day *)
(* calls may overtake each other as they like.                             *)
(***************************************************************************)
DaysInTurn == dayKey <= dayKey'

LastCall == reply.at <= now /\ dayKey = Day(reply.at)

(* A day is opened once per start of the process, and none after dayKey.   *)
DayOpened(d) == openings[d] <= IF d > dayKey THEN 0 ELSE restarts + 1

DaysInv == LastCall /\ \A d \in Days : DayOpened(d)

(* The spend map of the first process is the page of its day, today's      *)
(* charges are within the curve of now, and the later pages are empty.     *)
DayPageInv ==
  /\ \A c \in Campaigns : spend[c] = charged[dayKey][c]
  /\ \A c \in Campaigns, d \in Days : d > dayKey => charged[d][c] = 0
  /\ DailyBudgetKept
  /\ dayKey = Day(now) => PacedToday

LEMMA DaysAreNaturals == \A d \in Days : d \in Nat
<1>1. LastSecond \in Nat /\ Day(LastSecond) \in Nat
  BY TimeAssumption, DayMonotone
<1>. QED
  BY <1>1 DEF Days

LEMMA DayNumbers ==
  ASSUME TypeOK
  PROVE  /\ now \in Nat /\ reply.at \in Nat /\ restarts \in Nat
         /\ Day(now) \in Days /\ Day(now) \in Nat /\ dayKey \in Days /\ dayKey \in Nat
         /\ LastCall => dayKey <= Day(now)
<1>1. now \in Nat /\ reply.at \in Nat /\ restarts \in Nat /\ dayKey \in Days
  BY TimeAssumption DEF TypeOK, Seconds
<1>2. now \in Seconds /\ reply.at \in Seconds
  BY DEF TypeOK
<1>. QED
  BY <1>1, <1>2, DayInDays, DaysAreNaturals, DayMonotone DEF LastCall

(* What every call and every restart leaves behind.                        *)
LEMMA CallIsLast ==
  ASSUME TypeOK, NEW c \in Campaigns, NEW t \in Received, Reserve(c, t)
  PROVE  /\ t \in Seconds /\ t \in Nat /\ t <= now /\ Day(t) \in Days /\ Day(t) \in Nat
         /\ reply'.at = t /\ dayKey' = Day(t) /\ now' = now /\ restarts' = restarts
         /\ openings' = OpenedFor(t) /\ LastCall'
<1>1. /\ reply'.at = t /\ dayKey' = Day(t) /\ now' = now /\ restarts' = restarts
      /\ openings' = OpenedFor(t)
  BY DEF Reserve, Commit, Refuse, Rollover, OpenedFor
<1>2. t \in Seconds /\ t \in Nat /\ t <= now /\ Day(t) \in Days /\ Day(t) \in Nat
  BY ReceivedInSeconds, DayInDays, DaysAreNaturals, TimeAssumption DEF Seconds
<1>. QED
  BY <1>1, <1>2 DEF LastCall

LEMMA RestartIsLast ==
  ASSUME TypeOK, Restart
  PROVE  /\ reply'.at = now /\ dayKey' = Day(now) /\ now' = now /\ restarts' = restarts + 1
         /\ openings' = [openings EXCEPT ![Day(now)] = openings[Day(now)] + 1]
         /\ windows' = windows /\ LastCall'
         /\ \A c \in Campaigns : qps'[c].sec = 0
<1>1. /\ reply'.at = now /\ dayKey' = Day(now) /\ now' = now /\ restarts' = restarts + 1
      /\ openings' = [openings EXCEPT ![Day(now)] = openings[Day(now)] + 1]
      /\ windows' = windows
      /\ \A c \in Campaigns : qps'[c].sec = 0
  BY DEF Restart, NoWindow
<1>. QED
  BY <1>1, DayNumbers DEF LastCall

LEMMA DaysKept ==
  ASSUME TypeOK, DaysInv, [Next]_vars, [DaysInTurn]_vars
  PROVE  DaysInv'
<1>1. /\ restarts \in Nat /\ dayKey \in Nat /\ Day(now) \in Days /\ Day(now) \in Nat
      /\ dayKey <= Day(now)
  BY DayNumbers DEF DaysInv
<1>2. \A d \in Days : d \in Nat /\ openings[d] \in Nat /\ DayOpened(d)
  BY DaysAreNaturals DEF TypeOK, DaysInv
<1>3. CASE Tick
  BY <1>3, DayNumbers DEF Tick, DaysInv, LastCall, DayOpened, engineVars, historyVars
<1>4. ASSUME NEW c \in Campaigns, NEW t \in Received, Reserve(c, t)
      PROVE  DaysInv'
  <2>1. /\ Day(t) \in Days /\ Day(t) \in Nat /\ dayKey' = Day(t) /\ restarts' = restarts
        /\ openings' = OpenedFor(t) /\ LastCall'
    BY <1>4, CallIsLast
  <2>2. dayKey <= Day(t)
    BY <1>1, <2>1 DEF DaysInTurn, vars, engineVars
  <2>3. ASSUME NEW d \in Days
        PROVE  DayOpened(d)'
    <3>1. openings'[d] = IF d = Day(t) /\ ~SameDay(t) THEN openings[d] + 1 ELSE openings[d]
      BY <1>2, <2>1 DEF OpenedFor, TypeOK
    <3>. QED
      BY <1>1, <1>2, <2>1, <2>2, <3>1 DEF DayOpened, SameDay
  <2>. QED
    BY <2>1, <2>3 DEF DaysInv
<1>5. CASE Restart
  <2>1. /\ dayKey' = Day(now) /\ restarts' = restarts + 1 /\ LastCall'
        /\ openings' = [openings EXCEPT ![Day(now)] = openings[Day(now)] + 1]
    BY <1>5, RestartIsLast
  <2>2. ASSUME NEW d \in Days
        PROVE  DayOpened(d)'
    <3>1. openings'[d] = IF d = Day(now) THEN openings[d] + 1 ELSE openings[d]
      BY <1>1, <1>2, <2>1 DEF TypeOK
    <3>. QED
      BY <1>1, <1>2, <2>1, <3>1 DEF DayOpened
  <2>. QED
    BY <2>1, <2>2 DEF DaysInv
<1>6. CASE UNCHANGED vars
  BY <1>6 DEF vars, engineVars, historyVars, DaysInv, LastCall, DayOpened
<1>. QED
  BY <1>3, <1>4, <1>5, <1>6 DEF Next

(* With days in order no start of the process opens a day twice.           *)
THEOREM DaysAccounted == Spec /\ [][DaysInTurn]_vars => []DaysInv
<1>1. Init => DaysInv
  <2>. SUFFICES ASSUME Init PROVE DaysInv
    OBVIOUS
  <2>1. LastCall
    BY TimeAssumption DEF Init, LastCall
  <2>2. ASSUME NEW d \in Days PROVE DayOpened(d)
    <3>1. StartSecond \in Nat /\ Day(StartSecond) \in Nat /\ d \in Nat
      BY TimeAssumption, DayMonotone, DaysAreNaturals
    <3>. QED
      BY <3>1 DEF Init, DayOpened
  <2>. QED
    BY <2>1, <2>2 DEF DaysInv
<1>. QED
  BY <1>1, DaysKept, TypeCorrect, PTL DEF Spec

(***************************************************************************)
(* What a granted or refused call of a day no earlier than dayKey does to  *)
(* the pages.                                                              *)
(***************************************************************************)
LEMMA CallKeepsDayPage ==
  ASSUME TypeOK, LastCall, DayPageInv, NEW c \in Campaigns, NEW t \in Received, Reserve(c, t),
         dayKey <= Day(t)
  PROVE  DayPageInv'
<1>1. /\ t \in Seconds /\ t \in Nat /\ t <= now /\ Day(t) \in Days /\ Day(t) \in Nat
      /\ dayKey' = Day(t) /\ now' = now /\ now \in Nat /\ dayKey \in Nat
  BY CallIsLast, DayNumbers
<1>2. \A k \in Campaigns : BaseSpend(t)[k] = charged[Day(t)][k]
  BY <1>1 DEF BaseSpend, SameDay, NoSpend, DayPageInv
<1>3. \A k \in Campaigns, d \in Days : charged[d][k] \in Nat /\ d \in Nat
  BY DaysAreNaturals DEF TypeOK
<1>4. \A k \in Campaigns, d \in Days : WithinBudget(k, charged[d][k])
  BY DEF DayPageInv, DailyBudgetKept
<1>5. \A k \in Campaigns :
        Day(t) = Day(now) /\ charged[Day(t)][k] > 0 => PacingAllows(k, charged[Day(t)][k], now)
  <2>1. CASE dayKey = Day(now)
    BY <2>1 DEF DayPageInv, PacedToday
  <2>2. CASE dayKey # Day(now)
    BY <1>1, <1>3, <2>2 DEF DayPageInv
  <2>. QED
    BY <2>1, <2>2
<1>6. CASE Refuse(c, t)
  <2>1. spend' = BaseSpend(t) /\ charged' = charged
    BY <1>6 DEF Refuse
  <2>2. \A k \in Campaigns : spend'[k] = charged'[dayKey'][k]
    BY <1>1, <1>2, <2>1
  <2>3. \A k \in Campaigns, d \in Days : d > dayKey' => charged'[d][k] = 0
    BY <1>1, <1>3, <2>1 DEF DayPageInv
  <2>4. (dayKey = Day(now) => PacedToday)'
    BY <1>1, <1>5, <2>1 DEF PacedToday, PacingAllows
  <2>5. DailyBudgetKept'
    BY <1>4, <2>1 DEF DailyBudgetKept, WithinBudget
  <2>. QED
    BY <2>2, <2>3, <2>4, <2>5 DEF DayPageInv
<1>7. CASE Commit(c, t)
  <2>. DEFINE next == charged[Day(t)][c] + BidCPM[c]
  <2>1. /\ WithinBudget(c, next) /\ PacingAllows(c, next, t)
        /\ BidCPM[c] \in Nat /\ next \in Nat
    BY <1>1, <1>2, <1>3, <1>7, CampaignAssumption DEF Commit, Admits
  <2>2. ASSUME NEW k \in Campaigns
        PROVE  /\ spend'[k] = charged'[dayKey'][k]
               /\ \A d \in Days :
                    charged'[d][k] = IF d = Day(t) /\ k = c THEN next ELSE charged[d][k]
    <3>1. Committed(c, t, k)
      BY <1>1, <1>7, CommitEffectAt
    <3>. QED
      BY <1>1, <1>2, <1>3, <3>1 DEF Committed
  <2>. HIDE DEF next
  <2>3. \A k \in Campaigns, d \in Days : d > dayKey' => charged'[d][k] = 0
    BY <1>1, <1>3, <2>2 DEF DayPageInv
  <2>4. ASSUME NEW k \in Campaigns, NEW d \in Days
        PROVE  WithinBudget(k, charged'[d][k])
    BY <1>4, <2>1, <2>2
  <2>5. ASSUME NEW k \in Campaigns, Day(t) = Day(now), charged'[Day(t)][k] > 0
        PROVE  PacingAllows(k, charged'[Day(t)][k], now)
    <3>1. CASE k = c
      <4>1. charged'[Day(t)][k] = next
        BY <1>1, <2>2, <3>1
      <4>. QED
        BY <1>1, <2>1, <2>5, <3>1, <4>1, PacingMonotone
    <3>2. CASE k # c
      BY <1>1, <1>5, <2>2, <2>5, <3>2
    <3>. QED
      BY <3>1, <3>2
  <2>6. (dayKey = Day(now) => PacedToday)'
    BY <1>1, <2>5 DEF PacedToday, PacingAllows
  <2>7. DailyBudgetKept'
    BY <2>4 DEF DailyBudgetKept, WithinBudget
  <2>. QED
    BY <2>2, <2>3, <2>6, <2>7 DEF DayPageInv
<1>. QED
  BY <1>6, <1>7 DEF Reserve

(* The clock moves on: the curve rises, or a new day begins.               *)
LEMMA TickKeepsDayPage ==
  ASSUME TypeOK, LastCall, DayPageInv, Tick
  PROVE  DayPageInv'
<1>1. /\ now \in Nat /\ now' = now + 1 /\ Day(now) \in Nat /\ Day(now') \in Nat
      /\ dayKey \in Nat /\ dayKey <= Day(now) /\ Day(now) <= Day(now')
  BY DayNumbers, DayMonotone DEF Tick
<1>2. UNCHANGED <<dayKey, spend, charged>>
  BY DEF Tick, engineVars, historyVars
<1>3. ASSUME dayKey = Day(now'), NEW k \in Campaigns, charged[dayKey][k] > 0
      PROVE  PacingAllows(k, charged[dayKey][k], now')
  <2>1. charged[dayKey][k] \in Nat
    BY <1>3 DEF TypeOK
  <2>2. Day(now) = dayKey
    BY <1>1, <1>3
  <2>3. PacingAllows(k, charged[dayKey][k], now)
    BY <1>3, <2>2 DEF DayPageInv, PacedToday
  <2>. QED
    BY <1>1, <1>3, <2>1, <2>2, <2>3, PacingMonotone
<1>4. (dayKey = Day(now) => PacedToday)'
  BY <1>2, <1>3 DEF PacedToday, PacingAllows
<1>. QED
  BY <1>2, <1>4 DEF DayPageInv, DailyBudgetKept, WithinBudget

(***************************************************************************)
(* With days in order a process that has not been restarted keeps every    *)
(* daily budget and the pacing curve and shows a day's spend exactly until *)
(* the next day's first call, also when calls overtake each other within   *)
(* the day.                                                                *)
(***************************************************************************)
THEOREM SpendInDayOrder ==
  Spec /\ [][DaysInTurn]_vars =>
    [](restarts = 0 => DailyBudgetKept /\ PacingKept /\ SpendShown)
<1>. DEFINE I == restarts = 0 => DayPageInv
<1>1. Init => I
  <2>. SUFFICES ASSUME Init PROVE DayPageInv
    OBVIOUS
  <2>1. \A d \in Days, c \in Campaigns : charged[d][c] = 0 /\ spend[c] = 0
    BY DEF Init, NoSpend
  <2>2. dayKey \in Days /\ Day(now) \in Days
    BY DayInDays, TimeAssumption DEF Init, Seconds
  <2>. QED
    BY <2>1, <2>2, CampaignAssumption DEF DayPageInv, DailyBudgetKept, WithinBudget, PacedToday
<1>2. TypeOK /\ DaysInv /\ I /\ [Next]_vars /\ [DaysInTurn]_vars => I'
  <2>. SUFFICES ASSUME TypeOK, DaysInv, I, [Next]_vars, [DaysInTurn]_vars, restarts' = 0
                PROVE  DayPageInv'
    OBVIOUS
  <2>1. ~Restart
    BY RestartCounts
  <2>2. DayPageInv /\ LastCall
    BY <2>1 DEF Next, Tick, Reserve, vars, DaysInv
  <2>3. ASSUME NEW c \in Campaigns, NEW t \in Received, Reserve(c, t)
        PROVE  DayPageInv'
    <3>1. dayKey' = Day(t) /\ dayKey <= dayKey'
      BY <2>3, CallIsLast, DayNumbers DEF DaysInTurn, vars, engineVars
    <3>. QED
      BY <2>2, <2>3, <3>1, CallKeepsDayPage
  <2>4. CASE UNCHANGED vars
    BY <2>2, <2>4 DEF vars, engineVars, historyVars, DayPageInv, DailyBudgetKept, WithinBudget,
                      PacedToday, PacingAllows
  <2>. QED
    BY <2>1, <2>2, <2>3, <2>4, TickKeepsDayPage DEF Next
<1>3. TypeOK /\ DaysInv /\ I => (restarts = 0 => DailyBudgetKept /\ PacingKept /\ SpendShown)
  <2>. SUFFICES ASSUME TypeOK, DaysInv, DayPageInv
                PROVE  DailyBudgetKept /\ PacingKept /\ SpendShown
    OBVIOUS
  <2>1. /\ Day(now) \in Days /\ Day(now) \in Nat /\ dayKey \in Nat /\ dayKey <= Day(now)
        /\ dayKey = Day(reply.at)
    BY DayNumbers DEF DaysInv, LastCall
  <2>2. ASSUME dayKey # Day(now), NEW c \in Campaigns
        PROVE  charged[Day(now)][c] = 0
    <3>1. Day(now) > dayKey
      BY <2>1, <2>2
    <3>. QED
      BY <2>1, <3>1 DEF DayPageInv
  <2>3. PacingKept
    BY <2>2, PacedTodayIsKept DEF DayPageInv, PacedToday
  <2>4. ASSUME NEW c \in Campaigns, NEW t \in Scraped
        PROVE  SpendToday(c, t) = IF Day(reply.at) > Day(t) THEN 0 ELSE charged[Day(t)][c]
    <3>1. Day(t) \in Days /\ Day(t) \in Nat
      BY ScrapedInSeconds, DayInDays, DaysAreNaturals
    <3>. QED
      BY <2>1, <3>1 DEF SpendToday, DayPageInv
  <2>. QED
    BY <2>3, <2>4 DEF DayPageInv, SpendShown
<1>. HIDE DEF I
<1>. QED
  BY <1>1, <1>2, <1>3, TypeCorrect, DaysAccounted, PTL DEF Spec

-----------------------------------------------------------------------------
(***************************************************************************)
(* What restarts cost.  With days in order a day costs a campaign one      *)
(* budget per start of the process, and with calls in turn a second costs  *)
(* it one QPS limit: restarts add what they lose, and overtaking is what   *)
(* makes the sum unbounded.                                                *)
(***************************************************************************)
BudgetPerStart ==
  \A c \in Campaigns, d \in Days :
    DailyBudget[c] > 0 => charged[d][c] <= DailyBudget[c] * (restarts + 1)

QPSPerStart ==
  \A c \in Campaigns, s \in Seconds :
    QPS[c] > 0 => bids[s][c] <= QPS[c] * (restarts + 1)

(* More of a positive factor is no less of the product.                    *)
LEMMA FactorMonotone ==
  ASSUME NEW b \in Nat, NEW m \in Nat, NEW n \in Nat, m <= n
  PROVE  b * m \in Nat /\ b * n \in Nat /\ b * m <= b * n
OBVIOUS

(* A day costs at most one budget per start of the process, as long as no  *)
(* call of an earlier day follows one of a later day.                      *)
THEOREM BudgetPerStartInDayOrder == Spec /\ [][DaysInTurn]_vars => []BudgetPerStart
<1>1. TypeOK /\ DaysInv /\ BudgetPerOpening => BudgetPerStart
  <2>. SUFFICES ASSUME TypeOK, DaysInv, BudgetPerOpening,
                       NEW c \in Campaigns, NEW d \in Days, DailyBudget[c] > 0
                PROVE  charged[d][c] <= DailyBudget[c] * (restarts + 1)
    BY DEF BudgetPerStart
  <2>1. /\ openings[d] \in Nat /\ restarts + 1 \in Nat /\ charged[d][c] \in Nat
        /\ DailyBudget[c] \in Nat
    BY CampaignAssumption DEF TypeOK
  <2>2. openings[d] <= restarts + 1
    BY <2>1 DEF DaysInv, DayOpened
  <2>3. DailyBudget[c] * openings[d] <= DailyBudget[c] * (restarts + 1)
    BY <2>1, <2>2, FactorMonotone
  <2>. QED
    BY <2>1, <2>3, FactorMonotone DEF BudgetPerOpening
<1>. QED
  BY <1>1, TypeCorrect, BudgetPerOpeningHolds, DaysAccounted, PTL

(***************************************************************************)
(* How often the window of a second was filled: never after the last call, *)
(* and in the second of the last call once less when the engine does not   *)
(* have a window for it yet.                                               *)
(***************************************************************************)
WindowFilled(s, c) ==
  windows[s][c] <= IF s > reply.at THEN 0
                   ELSE IF s = reply.at /\ qps[c].sec # s THEN restarts
                   ELSE restarts + 1

FilledInv == LastCall /\ \A c \in Campaigns, s \in Seconds : WindowFilled(s, c)

LEMMA ReserveKeepsFilled ==
  ASSUME TypeOK, FilledInv, NEW c \in Campaigns, NEW t \in Timely, Reserve(c, t)
  PROVE  FilledInv'
<1>1. /\ t \in Seconds /\ t \in Nat /\ reply'.at = t /\ restarts' = restarts /\ LastCall'
      /\ reply.at <= t /\ reply.at \in Nat /\ restarts \in Nat
  BY CallIsLast, DayNumbers DEF Timely
<1>2. ASSUME NEW k \in Campaigns, NEW s \in Seconds
      PROVE  WindowFilled(s, k)'
  <2>1. s \in Nat /\ windows[s][k] \in Nat /\ WindowFilled(s, k)
    BY TimeAssumption DEF Seconds, TypeOK, FilledInv
  <2>2. /\ BaseQps(t) \in [Campaigns -> RateState]
        /\ t = reply.at => BaseQps(t) = qps
    BY <1>1, BaseTypes DEF BaseQps, SameDay, FilledInv, LastCall
  <2>3. CASE Commit(c, t) /\ QPS[c] > 0 /\ k = c
    <3>1. /\ qps'[k].sec = t
          /\ windows'[s][k] = IF s = t /\ Fresh(c, t) THEN windows[s][k] + 1 ELSE windows[s][k]
      BY <1>1, <2>1, <2>2, <2>3 DEF Commit, TypeOK
    <3>2. Fresh(c, t) /\ t = reply.at => qps[c].sec # t
      BY <2>2 DEF Fresh
    <3>. QED
      BY <1>1, <2>1, <2>3, <3>1, <3>2 DEF WindowFilled
  <2>4. CASE ~(Commit(c, t) /\ QPS[c] > 0 /\ k = c)
    <3>1. windows'[s][k] = windows[s][k] /\ qps'[k] = BaseQps(t)[k]
      <4>1. CASE Refuse(c, t)
        BY <4>1 DEF Refuse
      <4>2. CASE Commit(c, t) /\ ~(QPS[c] > 0)
        BY <4>2 DEF Commit
      <4>3. CASE Commit(c, t) /\ QPS[c] > 0 /\ k # c
        BY <1>1, <2>2, <4>3 DEF Commit, TypeOK
      <4>. QED
        BY <2>4, <4>1, <4>2, <4>3 DEF Reserve
    <3>. QED
      BY <1>1, <2>1, <2>2, <3>1 DEF WindowFilled
  <2>. QED
    BY <2>3, <2>4
<1>. QED
  BY <1>1, <1>2 DEF FilledInv

LEMMA RestartKeepsFilled ==
  ASSUME TypeOK, FilledInv, Restart
  PROVE  FilledInv'
<1>1. now \in Nat /\ reply.at \in Nat /\ reply.at <= now /\ restarts \in Nat
  BY DayNumbers DEF FilledInv, LastCall
<1>2. /\ reply'.at = now /\ restarts' = restarts + 1 /\ windows' = windows /\ LastCall'
      /\ \A c \in Campaigns : qps'[c].sec = 0
  BY RestartIsLast
<1>3. ASSUME NEW c \in Campaigns, NEW s \in Seconds
      PROVE  WindowFilled(s, c)'
  <2>1. s \in Nat \ {0} /\ windows[s][c] \in Nat /\ WindowFilled(s, c)
    BY TimeAssumption DEF Seconds, TypeOK, FilledInv
  <2>. QED
    BY <1>1, <1>2, <2>1 DEF WindowFilled
<1>. QED
  BY <1>2, <1>3 DEF FilledInv

(* With calls in turn no start of the process fills a second's window      *)
(* twice.                                                                  *)
THEOREM WindowsFilledOnce == Spec /\ [][InTurn]_vars => []FilledInv
<1>1. Init => FilledInv
  <2>. SUFFICES ASSUME Init PROVE FilledInv
    OBVIOUS
  <2>1. LastCall
    BY TimeAssumption DEF Init, LastCall
  <2>2. ASSUME NEW c \in Campaigns, NEW s \in Seconds PROVE WindowFilled(s, c)
    BY DEF Init, WindowFilled, NoSpend
  <2>. QED
    BY <2>1, <2>2 DEF FilledInv
<1>2. TypeOK /\ FilledInv /\ [Next]_vars /\ [InTurn]_vars => FilledInv'
  <2>. SUFFICES ASSUME TypeOK, FilledInv, [Next]_vars, [InTurn]_vars
                PROVE  FilledInv'
    OBVIOUS
  <2>1. CASE Tick
    BY <2>1, DayNumbers DEF Tick, FilledInv, LastCall, WindowFilled, engineVars, historyVars
  <2>2. ASSUME NEW c \in Campaigns, NEW t \in Received, Reserve(c, t)
        PROVE  FilledInv'
    BY <2>2, CallIsTimely, ReserveKeepsFilled
  <2>3. CASE Restart
    BY <2>3, RestartKeepsFilled
  <2>4. CASE UNCHANGED vars
    BY <2>4 DEF vars, engineVars, historyVars, FilledInv, LastCall, WindowFilled
  <2>. QED
    BY <2>1, <2>2, <2>3, <2>4 DEF Next
<1>. QED
  BY <1>1, <1>2, TypeCorrect, PTL DEF Spec

(* And a second costs at most one QPS limit per start of the process.      *)
THEOREM QPSPerStartInTurn == Spec /\ [][InTurn]_vars => []QPSPerStart
<1>1. TypeOK /\ FilledInv /\ QPSPerWindow => QPSPerStart
  <2>. SUFFICES ASSUME TypeOK, FilledInv, QPSPerWindow,
                       NEW c \in Campaigns, NEW s \in Seconds, QPS[c] > 0
                PROVE  bids[s][c] <= QPS[c] * (restarts + 1)
    BY DEF QPSPerStart
  <2>1. /\ windows[s][c] \in Nat /\ restarts \in Nat /\ restarts + 1 \in Nat
        /\ bids[s][c] \in Nat /\ QPS[c] \in Nat
    BY CampaignAssumption DEF TypeOK
  <2>2. windows[s][c] <= restarts + 1
    BY <2>1 DEF FilledInv, WindowFilled
  <2>3. QPS[c] * windows[s][c] <= QPS[c] * (restarts + 1)
    BY <2>1, <2>2, FactorMonotone
  <2>. QED
    BY <2>1, <2>3, FactorMonotone DEF QPSPerWindow
<1>. QED
  BY <1>1, TypeCorrect, QPSPerWindowHolds, WindowsFilledOnce, PTL

-----------------------------------------------------------------------------
(***************************************************************************)
(* Instances whose constants allow neither overtaking nor restarts have    *)
(* their calls in turn.                                                    *)
(***************************************************************************)
LEMMA OrderedCalls ==
  ASSUME InOrder
  PROVE  Spec => [][InTurn]_vars /\ [](restarts = 0)
<1>1. TypeOK /\ [Next]_vars => [InTurn]_vars
  <2>. SUFFICES ASSUME TypeOK, Next
                PROVE  InTurn
    BY DEF vars
  <2>1. reply.at \in Nat
    BY TimeAssumption DEF TypeOK, Seconds
  <2>2. CASE Tick
    BY <2>1, <2>2 DEF Tick, InTurn
  <2>3. ASSUME NEW c \in Campaigns, NEW t \in Received, Reserve(c, t)
        PROVE  InTurn
    BY <2>3 DEF Reserve, Commit, Refuse, Received, InOrder, InTurn
  <2>4. ~Restart
    BY DEF Restart, InOrder, TypeOK
  <2>. QED
    BY <2>2, <2>3, <2>4 DEF Next
<1>2. Init => restarts = 0
  BY DEF Init
<1>3. TypeOK /\ restarts = 0 /\ [Next]_vars => (restarts = 0)'
  BY DEF Next, Tick, Reserve, Restart, InOrder, vars
<1>. QED
  BY <1>1, <1>2, <1>3, TypeCorrect, PTL DEF Spec

(***************************************************************************)
(* Calls in order never overspend a day: what every day is charged stays   *)
(* within the campaign's daily budget.                                     *)
(***************************************************************************)
THEOREM DailyBudgetHolds == ASSUME InOrder PROVE Spec => []DailyBudgetKept
  BY LimitsInTurn, OrderedCalls, PTL

(***************************************************************************)
(* Calls in order never exceed the QPS limit of a second.                  *)
(***************************************************************************)
THEOREM QPSHolds == ASSUME InOrder PROVE Spec => []QPSKept
  BY LimitsInTurn, OrderedCalls, PTL

(***************************************************************************)
(* Calls in order never run ahead of the pacing curve.                     *)
(***************************************************************************)
THEOREM PacingHolds == ASSUME InOrder PROVE Spec => []PacingKept
  BY LimitsInTurn, OrderedCalls, PTL

(***************************************************************************)
(* Calls in order leave a snapshot that tells the charges and the bids of  *)
(* its clock exactly, unless the scrape itself is overtaken.               *)
(***************************************************************************)
THEOREM SnapshotUnlessOvertaken ==
  ASSUME InOrder PROVE Spec => []SnapshotExactUnlessOvertaken
  BY LimitsInTurn, OrderedCalls, PTL

(***************************************************************************)
(* Calls in order implement the ledger.                                    *)
(***************************************************************************)
THEOREM LedgerImplemented == ASSUME InOrder PROVE Spec => ImplementsLedger
  BY LedgerInTurn, OrderedCalls, PTL
=============================================================================
