---------------------------- MODULE ServerProofs ----------------------------
(***************************************************************************)
(* Proofs about BidServer: its state keeps its types, and its handlers use *)
(* the engine as Reservation says, so what is proved of the engine holds   *)
(* in the process that runs it.                                            *)
(***************************************************************************)
EXTENDS BidServer, ReservationProofs, FiniteSetTheorems, WellFoundedInduction

-----------------------------------------------------------------------------
(* The best candidate exists: no need to bound the prices. *)

LEMMA OrderOfNaturals ==
  \E R : IsWellFoundedOn(R, Nat) /\ \A x, y \in Nat : <<x, y>> \in R <=> x < y
<1>1. \A x, y \in Nat : <<x, y>> \in OpToRel(<, Nat) <=> x < y
  BY DEF OpToRel
<1>. QED
  BY <1>1, NatLessThanWellFounded, Zenon

LEMMA LeastNatural ==
  ASSUME NEW T, T \subseteq Nat, T # {}
  PROVE  \E x \in T : \A y \in T : x <= y
<1>1. PICK R : IsWellFoundedOn(R, Nat) /\ \A x, y \in Nat : <<x, y>> \in R <=> x < y
  BY OrderOfNaturals
<1>2. IsWellFoundedOn(R, Nat)
  BY <1>1
<1>3. \E x \in T : \A y \in T : ~ (<<y, x>> \in R)
  BY <1>2, WFMin, Zenon
<1>4. ASSUME NEW x \in T, NEW y \in T, ~ (<<y, x>> \in R)
      PROVE  x <= y
  <2>1. x \in Nat /\ y \in Nat
    OBVIOUS
  <2>2. ~ (y < x)
    BY <1>1, <1>4, <2>1, Zenon
  <2>. QED
    BY <2>1, <2>2
<1>. QED
  BY <1>3, <1>4, Zenon

(* Precedes orders the candidates of a request. *)
LEMMA PrecedesOrders ==
  ASSUME NEW r \in Requests
  PROVE  /\ \A x, y \in Candidates(r) : Precedes(x, y) \/ Precedes(y, x)
         /\ \A x, y, z \in Candidates(r) : Precedes(x, y) /\ Precedes(y, z) => Precedes(x, z)
<1>1. \A x \in Candidates(r) : x[1] \in Nat /\ x[2] \in Campaigns
  BY DEF Candidates
<1>2. \A c \in Campaigns : BidCPM[c] \in Nat /\ Rank[c] \in Nat
  BY CampaignAssumption, ServerAssumption
<1>. QED
  BY <1>1, <1>2 DEF Precedes

(***************************************************************************)
(* The candidate that the fewest outbid is outbid by none: whoever outbids *)
(* it is outbid by fewer still.                                            *)
(***************************************************************************)
LEMMA BestExists ==
  ASSUME NEW r \in Requests, Candidates(r) # {}
  PROVE  BestCampaign(r) \in Campaigns
<1> DEFINE C == Candidates(r)
           Before(x) == {y \in C : ~Precedes(x, y)}
<1>1. IsFiniteSet(C)
  <2>1. Len(r.imps) \in Nat
    BY ServerAssumption
  <2>2. IsFiniteSet(1 .. Len(r.imps)) /\ IsFiniteSet(Campaigns)
    BY <2>1, FS_Interval, ServerAssumption
  <2>3. IsFiniteSet((1 .. Len(r.imps)) \X Campaigns)
    BY <2>2, FS_Product
  <2>. QED
    BY <2>3, FS_Subset DEF Candidates
<1>2. \A x \in C : IsFiniteSet(Before(x)) /\ Cardinality(Before(x)) \in Nat
  <2>. SUFFICES ASSUME NEW x \in C
                PROVE  IsFiniteSet(Before(x)) /\ Cardinality(Before(x)) \in Nat
    OBVIOUS
  <2>1. Before(x) \in SUBSET C
    OBVIOUS
  <2>. HIDE DEF C, Before
  <2>. QED
    BY <1>1, <2>1, FS_Subset, FS_CardinalityType
<1>3. \E x \in C : \A y \in C : Cardinality(Before(x)) <= Cardinality(Before(y))
  <2>. DEFINE T == {Cardinality(Before(x)) : x \in C}
  <2>. HIDE DEF C, Before
  <2>1. T \subseteq Nat /\ T # {}
    BY <1>2 DEF C
  <2>2. \E m \in T : \A n \in T : m <= n
    BY <2>1, LeastNatural
  <2>. QED
    BY <2>2
<1>4. PICK x \in C : \A y \in C : Cardinality(Before(x)) <= Cardinality(Before(y))
  BY <1>3
<1>5. \A y \in C : Precedes(x, y)
  <2>. SUFFICES ASSUME NEW y \in C, ~Precedes(x, y)
                PROVE  FALSE
    OBVIOUS
  <2>1. Precedes(y, x) /\ Precedes(y, y)
    BY PrecedesOrders
  <2>2. Before(y) \subseteq Before(x)
    BY <2>1, PrecedesOrders
  <2>3. y \in Before(x) /\ y \notin Before(y)
    BY <2>1
  <2>. HIDE DEF C, Before
  <2>4. Cardinality(Before(y)) = Cardinality(Before(x))
    <3>1. Cardinality(Before(y)) <= Cardinality(Before(x))
      BY <1>2, <2>2, FS_Subset
    <3>. QED
      BY <3>1, <1>2, <1>4
  <2>5. Before(y) = Before(x)
    BY <1>2, <2>2, <2>4, FS_Subset
  <2>. QED
    BY <2>3, <2>5
<1>6. BestCampaign(r) \in {z[2] : z \in C}
  <2>. DEFINE b == CHOOSE z \in C : \A y \in C : Precedes(z, y)
  <2>1. b \in C
    BY <1>5
  <2>2. BestCampaign(r) = b[2]
    BY DEF BestCampaign
  <2>. QED
    BY <2>1, <2>2
<1>. QED
  BY <1>6 DEF Candidates
-----------------------------------------------------------------------------
(***************************************************************************)
(* The invariant: a handler in flight belongs to the running process and   *)
(* was received in its lifetime, one that is about to reserve has found a  *)
(* campaign, and one that has not reserved yet does not carry the label of *)
(* one that has.                                                           *)
(***************************************************************************)
Early == {"idle", "read", "tmax", "context", "reserve"}
ReserveLabels == {"bid", "nobid_budget_or_qps_exhausted"}

Flight(h) ==
  /\ InFlight(h) => proc # "down" /\ boot <= received[h] /\ received[h] <= now
  /\ pc[h] = "reserve" => best[h] \in Campaigns
  /\ pc[h] \in Early => label[h] \notin ReserveLabels

ServerInv == ServerTypeOK /\ boot <= now /\ \A h \in Handlers : Flight(h)

(* A handler that moves on leaves the others where they are. *)
LEMMA GoKeeps ==
  ASSUME ServerInv, NEW h \in Handlers, InFlight(h),
         NEW p \in Steps \ {"idle", "killed"}, NEW l \in Labels \cup {NoLabel}, Go(h, p, l),
         p \in Early => l \notin ReserveLabels,
         p = "reserve" => best'[h] \in Campaigns,
         \A g \in Handlers \ {h} : best'[g] = best[g],
         UNCHANGED <<now, boot, proc, received>>
  PROVE  /\ pc' \in [Handlers -> Steps]
         /\ label' \in [Handlers -> Labels \cup {NoLabel}]
         /\ \A g \in Handlers : Flight(g)'
<1>1. /\ pc' = [pc EXCEPT ![h] = p] /\ label' = [label EXCEPT ![h] = l]
      /\ pc \in [Handlers -> Steps] /\ label \in [Handlers -> Labels \cup {NoLabel}]
  BY DEF Go, ServerInv, ServerTypeOK
<1>2. pc' \in [Handlers -> Steps] /\ label' \in [Handlers -> Labels \cup {NoLabel}]
  BY <1>1
<1>3. /\ pc'[h] = p /\ label'[h] = l
      /\ \A g \in Handlers \ {h} : pc'[g] = pc[g] /\ label'[g] = label[g]
  BY <1>1
<1>4. Flight(h)'
  BY <1>3 DEF Flight, InFlight, ServerInv
<1>5. \A g \in Handlers \ {h} : Flight(g)'
  BY <1>3 DEF Flight, InFlight, ServerInv
<1>. QED
  BY <1>2, <1>4, <1>5

LEMMA EngineUntouched ==
  ASSUME TypeOK, UNCHANGED vars
  PROVE  TypeOK'
  BY StepTypes

(* A step of a handler, whatever it does to the engine and the counters.   *)
LEMMA StepKeeps ==
  ASSUME ServerInv, NEW h \in Handlers, InFlight(h),
         NEW p \in Steps \ {"idle", "killed"}, NEW l \in Labels \cup {NoLabel}, Go(h, p, l),
         p \in Early => l \notin ReserveLabels,
         p = "reserve" => best'[h] \in Campaigns,
         \A g \in Handlers \ {h} : best'[g] = best[g],
         best' \in [Handlers -> Campaigns \cup {NoCampaign}],
         TypeOK', UNCHANGED <<now, boot, processVars, request, received, gone, scrape>>,
         answered' \in [Handlers -> Seconds \cup {0}], counts' \in [Labels -> Nat]
  PROVE  ServerInv'
<1>1. UNCHANGED <<now, boot, proc, received>>
  BY DEF processVars
<1>2. /\ pc' \in [Handlers -> Steps]
      /\ label' \in [Handlers -> Labels \cup {NoLabel}]
      /\ \A g \in Handlers : Flight(g)'
  BY <1>1, GoKeeps
<1>3. ServerTypeOK'
  BY <1>2 DEF ServerInv, ServerTypeOK, processVars
<1>. QED
  BY <1>2, <1>3 DEF ServerInv

LEMMA ReadKeeps == ASSUME ServerInv, NEW h \in Handlers, Read(h) PROVE ServerInv'
<1>1. /\ pc[h] = "read" /\ InFlight(h)
      /\ UNCHANGED <<vars, processVars, request, received, best, gone, answered, counts, scrape>>
  BY DEF Read, At, InFlight
<1>2. TypeOK' /\ UNCHANGED <<now, boot>>
  BY <1>1, EngineUntouched DEF ServerInv, ServerTypeOK, vars
<1>3. request[h] \in Requests \cup {NoRequest} /\ request[h].fault \in Faults
  BY ServerAssumption DEF ServerInv, ServerTypeOK, NoRequest, Faults
<1>4. CASE Go(h, "tmax", NoLabel)
  BY <1>1, <1>2, <1>4, StepKeeps DEF ServerInv, ServerTypeOK, Steps, NoLabel, ReserveLabels
<1>5. ASSUME NEW l \in Labels, Go(h, "count", l)
      PROVE  ServerInv'
  BY <1>1, <1>2, <1>5, StepKeeps DEF ServerInv, ServerTypeOK, Steps, Early
<1>6. request[h].fault # "none" => request[h].fault \in Labels
  BY <1>3 DEF Labels
<1>7. "request_too_large" \in Labels
  BY DEF Labels, Faults
<1>. QED
  BY <1>4, <1>5, <1>6, <1>7 DEF Read

LEMMA CheckTMaxKeeps == ASSUME ServerInv, NEW h \in Handlers, CheckTMax(h) PROVE ServerInv'
<1>1. /\ pc[h] = "tmax" /\ InFlight(h)
      /\ UNCHANGED <<vars, processVars, request, received, best, gone, answered, counts, scrape>>
  BY DEF CheckTMax, At, InFlight
<1>2. TypeOK' /\ UNCHANGED <<now, boot>>
  BY <1>1, EngineUntouched DEF ServerInv, ServerTypeOK, vars
<1>3. CASE Go(h, "context", NoLabel)
  BY <1>1, <1>2, <1>3, StepKeeps DEF ServerInv, ServerTypeOK, Steps, NoLabel, ReserveLabels
<1>4. CASE Go(h, "count", "nobid_tmax_too_low")
  BY <1>1, <1>2, <1>4, StepKeeps
  DEF ServerInv, ServerTypeOK, Steps, Early, Labels, NoBidReasons
<1>. QED
  BY <1>3, <1>4 DEF CheckTMax

LEMMA EvaluateKeeps == ASSUME ServerInv, NEW h \in Handlers, Evaluate(h) PROVE ServerInv'
<1>1. /\ pc[h] = "context" /\ InFlight(h)
      /\ UNCHANGED <<vars, processVars, request, received, gone, answered, counts, scrape>>
  BY DEF Evaluate, At, InFlight
<1>2. TypeOK' /\ UNCHANGED <<now, boot>>
  BY <1>1, EngineUntouched DEF ServerInv, ServerTypeOK, vars
<1>3. ASSUME NEW l \in {"nobid_timeout", "nobid_no_eligible_campaign"},
             Go(h, "count", l), UNCHANGED best
      PROVE  ServerInv'
  <2>1. l \in Labels
    BY DEF Labels, NoBidReasons
  <2>. QED
    BY <1>1, <1>2, <1>3, <2>1, StepKeeps DEF ServerInv, ServerTypeOK, Steps, Early
<1>4. CASE /\ Candidates(request[h]) # {}
           /\ best' = [best EXCEPT ![h] = BestCampaign(request[h])]
           /\ Go(h, "reserve", NoLabel)
  <2>1. request[h] \in Requests
    <3>1. Candidates(NoRequest) = {}
      BY DEF Candidates, NoRequest
    <3>. QED
      BY <1>4, <3>1 DEF ServerInv, ServerTypeOK
  <2>2. BestCampaign(request[h]) \in Campaigns
    BY <1>4, <2>1, BestExists
  <2>3. best' \in [Handlers -> Campaigns \cup {NoCampaign}] /\ best'[h] \in Campaigns
    BY <1>4, <2>2 DEF ServerInv, ServerTypeOK
  <2>4. \A g \in Handlers \ {h} : best'[g] = best[g]
    BY <1>4 DEF ServerInv, ServerTypeOK
  <2>. QED
    BY <1>1, <1>2, <1>4, <2>3, <2>4, StepKeeps
    DEF ServerInv, ServerTypeOK, Steps, NoLabel, ReserveLabels
<1>. QED
  BY <1>3, <1>4 DEF Evaluate

LEMMA ReserveBestKeeps == ASSUME ServerInv, NEW h \in Handlers, ReserveBest(h) PROVE ServerInv'
<1>1. /\ pc[h] = "reserve" /\ InFlight(h) /\ Reserve(best[h], received[h])
      /\ UNCHANGED <<processVars, request, received, best, gone, answered, counts, scrape>>
  BY DEF ReserveBest, At, InFlight
<1>2. best[h] \in Campaigns /\ received[h] \in Seconds
  BY <1>1 DEF ServerInv, ServerTypeOK, Flight
<1>3. TypeOK' /\ UNCHANGED <<now, boot>>
  BY <1>1, <1>2, ReserveTypes DEF ServerInv, ServerTypeOK, Reserve
<1>4. \E l \in Labels : Go(h, "count", l)
  BY DEF ReserveBest, Labels, NoBidReasons
<1>. QED
  BY <1>1, <1>3, <1>4, StepKeeps DEF ServerInv, ServerTypeOK, Steps, Early

LEMMA ObserveKeeps == ASSUME ServerInv, NEW h \in Handlers, Observe(h) PROVE ServerInv'
<1>1. /\ pc[h] = "count" /\ InFlight(h) /\ Go(h, "write", label[h])
      /\ UNCHANGED <<vars, processVars, request, received, best, gone, answered, scrape>>
  BY DEF Observe, At, InFlight
<1>2. TypeOK' /\ UNCHANGED <<now, boot>>
  BY <1>1, EngineUntouched DEF ServerInv, ServerTypeOK, vars
<1>3. counts' \in [Labels -> Nat]
  <2>1. counts' = [counts EXCEPT ![label[h]] = counts[label[h]] + 1]
    BY DEF Observe
  <2>2. counts \in [Labels -> Nat]
    BY DEF ServerInv, ServerTypeOK
  <2>3. label[h] \in Labels => counts[label[h]] + 1 \in Nat
    BY <2>2
  <2>. QED
    BY <2>1, <2>2, <2>3
<1>. QED
  BY <1>1, <1>2, <1>3, StepKeeps DEF ServerInv, ServerTypeOK, Steps, Early

LEMMA WriteKeeps == ASSUME ServerInv, NEW h \in Handlers, Write(h) PROVE ServerInv'
<1>1. /\ pc[h] = "write" /\ InFlight(h) /\ Go(h, "done", label[h])
      /\ UNCHANGED <<vars, processVars, request, received, best, gone, counts, scrape>>
  BY DEF Write, At, InFlight
<1>2. TypeOK' /\ UNCHANGED <<now, boot>>
  BY <1>1, EngineUntouched DEF ServerInv, ServerTypeOK, vars
<1>3. answered' \in [Handlers -> Seconds \cup {0}]
  BY DEF Write, ServerInv, ServerTypeOK, TypeOK
<1>. QED
  BY <1>1, <1>2, <1>3, StepKeeps DEF ServerInv, ServerTypeOK, Steps, Early

LEMMA ArriveKeeps ==
  ASSUME ServerInv, NEW h \in Handlers, NEW r \in Requests, Arrive(h, r)
  PROVE  ServerInv'
<1>1. /\ proc = "up" /\ pc[h] = "idle"
      /\ received' = [received EXCEPT ![h] = now]
      /\ request' = [request EXCEPT ![h] = r]
      /\ UNCHANGED <<vars, processVars, best, gone, answered, counts, scrape>>
  BY DEF Arrive
<1>2. TypeOK' /\ UNCHANGED <<now, boot>>
  BY <1>1, EngineUntouched DEF ServerInv, ServerTypeOK, vars
<1>3. PICK p \in {"write", "read"}, l \in {"method_not_allowed", NoLabel} : Go(h, p, l)
  BY DEF Arrive
<1>4. l \in Labels \cup {NoLabel} /\ p \in Steps /\ l \notin ReserveLabels
  BY DEF Labels, Faults, Steps, ReserveLabels, NoLabel
<1>5. pc' = [pc EXCEPT ![h] = p] /\ label' = [label EXCEPT ![h] = l]
  BY <1>3 DEF Go
<1>6. ServerTypeOK'
  BY <1>1, <1>2, <1>4, <1>5 DEF ServerInv, ServerTypeOK, TypeOK, processVars
<1>7. Flight(h)'
  <2>1. pc'[h] = p /\ label'[h] = l /\ received'[h] = now /\ p # "reserve"
    BY <1>1, <1>5 DEF ServerInv, ServerTypeOK
  <2>2. boot <= now /\ now <= now
    BY DEF ServerInv, ServerTypeOK, TypeOK, Seconds
  <2>. QED
    BY <1>1, <1>2, <1>4, <2>1, <2>2 DEF Flight, InFlight, processVars
<1>8. \A g \in Handlers \ {h} : Flight(g)'
  <2>1. \A g \in Handlers \ {h} :
          pc'[g] = pc[g] /\ label'[g] = label[g] /\ received'[g] = received[g]
    BY <1>1, <1>5 DEF ServerInv, ServerTypeOK
  <2>. QED
    BY <1>1, <1>2, <2>1 DEF Flight, InFlight, processVars, ServerInv
<1>. QED
  BY <1>2, <1>6, <1>7, <1>8 DEF ServerInv

LEMMA DisconnectKeeps == ASSUME ServerInv, NEW h \in Handlers, Disconnect(h) PROVE ServerInv'
<1>1. /\ gone' = [gone EXCEPT ![h] = TRUE]
      /\ UNCHANGED <<vars, processVars, pc, request, received, best, label, answered, counts,
                     scrape>>
  BY DEF Disconnect
<1>2. TypeOK' /\ UNCHANGED <<now, boot>>
  BY <1>1, EngineUntouched DEF ServerInv, ServerTypeOK, vars
<1>3. ServerTypeOK'
  BY <1>1, <1>2 DEF ServerInv, ServerTypeOK, processVars
<1>4. \A g \in Handlers : Flight(g)'
  BY <1>1, <1>2 DEF ServerInv, Flight, InFlight, processVars
<1>. QED
  BY <1>2, <1>3, <1>4 DEF ServerInv

(* The scrape, the signal, the end of a process and its successor.         *)
LEMMA ScrapeKeeps == ASSUME ServerInv, ScrapeCounts \/ ScrapeClock \/ ScrapeSpend PROVE ServerInv'
<1>1. UNCHANGED <<vars, processVars, handlerVars, counts>>
  BY DEF ScrapeCounts, ScrapeClock, ScrapeSpend
<1>2. TypeOK' /\ UNCHANGED <<now, boot>>
  BY <1>1, EngineUntouched DEF ServerInv, ServerTypeOK, vars
<1>3. scrape' \in [step : ScrapeSteps, counts : [Labels -> Nat], at : Seconds,
                   spend : [Campaigns -> Nat]]
  <2>1. /\ scrape \in [step : ScrapeSteps, counts : [Labels -> Nat], at : Seconds,
                        spend : [Campaigns -> Nat]]
        /\ counts \in [Labels -> Nat]
    BY DEF ServerInv, ServerTypeOK
  <2>2. [c \in Campaigns |-> SpendToday(c, scrape.at)] \in [Campaigns -> Nat] /\ now \in Seconds
    BY DEF ServerInv, ServerTypeOK, TypeOK, SpendToday
  <2>. QED
    BY <2>1, <2>2 DEF ScrapeCounts, ScrapeClock, ScrapeSpend, ScrapeSteps
<1>4. ServerTypeOK'
  BY <1>1, <1>2, <1>3 DEF ServerInv, ServerTypeOK, processVars, handlerVars
<1>5. \A g \in Handlers : Flight(g)'
  BY <1>1, <1>2 DEF ServerInv, Flight, InFlight, processVars, handlerVars
<1>. QED
  BY <1>2, <1>4, <1>5 DEF ServerInv

LEMMA SignalKeeps == ASSUME ServerInv, Signal PROVE ServerInv'
<1>1. /\ proc' = "draining" /\ drainEnd' = now + ShutdownTimeout
      /\ UNCHANGED <<vars, handlerVars, counts, scrape>>
  BY DEF Signal
<1>2. TypeOK' /\ UNCHANGED <<now, boot>>
  BY <1>1, EngineUntouched DEF ServerInv, ServerTypeOK, vars
<1>3. drainEnd' \in Nat
  BY <1>1, ServerAssumption DEF ServerInv, ServerTypeOK, TypeOK, Seconds
<1>4. ServerTypeOK'
  BY <1>1, <1>2, <1>3 DEF ServerInv, ServerTypeOK, handlerVars
<1>5. \A g \in Handlers : Flight(g)'
  BY <1>1, <1>2 DEF ServerInv, Flight, InFlight, handlerVars
<1>. QED
  BY <1>2, <1>4, <1>5 DEF ServerInv

LEMMA ExitKeeps == ASSUME ServerInv, Exit PROVE ServerInv'
<1>1. /\ proc' = "down"
      /\ pc' = [h \in Handlers |-> IF InFlight(h) THEN "killed" ELSE pc[h]]
      /\ scrape' = IF Scraping THEN NoScrape ELSE scrape
      /\ UNCHANGED <<vars, drainEnd, request, received, best, label, gone, answered, counts>>
  BY DEF Exit
<1>2. TypeOK' /\ UNCHANGED <<now, boot>>
  BY <1>1, EngineUntouched DEF ServerInv, ServerTypeOK, vars
<1>3. NoScrape \in [step : ScrapeSteps, counts : [Labels -> Nat], at : Seconds,
                    spend : [Campaigns -> Nat]]
  BY TimeAssumption DEF NoScrape, NoCounts, NoSpend, ScrapeSteps, Seconds
<1>4. pc' \in [Handlers -> Steps]
  BY <1>1 DEF ServerInv, ServerTypeOK, Steps
<1>5. ServerTypeOK'
  BY <1>1, <1>2, <1>3, <1>4 DEF ServerInv, ServerTypeOK
<1>6. \A g \in Handlers : Flight(g)'
  <2>1. \A g \in Handlers : pc'[g] \in {"idle", "done", "killed"} /\ (pc'[g] = "idle" => pc[g] = "idle")
    BY <1>1 DEF InFlight
  <2>. QED
    BY <1>1, <2>1 DEF ServerInv, Flight, InFlight, Early
<1>. QED
  BY <1>2, <1>5, <1>6 DEF ServerInv

LEMMA StartKeeps == ASSUME ServerInv, Start PROVE ServerInv'
<1>1. /\ proc = "down" /\ Restart /\ proc' = "up" /\ counts' = NoCounts /\ scrape' = NoScrape
      /\ UNCHANGED <<drainEnd, handlerVars>>
  BY DEF Start
<1>2. TypeOK'
  BY <1>1, StepTypes DEF ServerInv, ServerTypeOK, Next
<1>3. boot' = now /\ now' = now
  BY <1>1 DEF Restart
<1>4. counts' \in [Labels -> Nat]
  BY <1>1 DEF NoCounts
<1>5. scrape' \in [step : ScrapeSteps, counts : [Labels -> Nat], at : Seconds,
                   spend : [Campaigns -> Nat]]
  BY <1>1, TimeAssumption DEF NoScrape, NoCounts, NoSpend, ScrapeSteps, Seconds
<1>6. ServerTypeOK'
  BY <1>1, <1>2, <1>4, <1>5 DEF ServerInv, ServerTypeOK, handlerVars
<1>7. \A g \in Handlers : Flight(g)'
  BY <1>1 DEF ServerInv, Flight, InFlight, handlerVars
<1>8. now <= now
  BY DEF ServerInv, ServerTypeOK, TypeOK, Seconds
<1>. QED
  BY <1>3, <1>6, <1>7, <1>8 DEF ServerInv

LEMMA ServerTickKeeps == ASSUME ServerInv, ServerTick PROVE ServerInv'
<1>1. Tick /\ UNCHANGED <<processVars, handlerVars, counts, scrape>>
  BY DEF ServerTick
<1>2. TypeOK'
  BY <1>1, StepTypes DEF ServerInv, ServerTypeOK, Next
<1>3. boot' = boot /\ now' = now + 1 /\ now \in Int /\ boot \in Int
  BY <1>1 DEF Tick, ServerInv, ServerTypeOK, TypeOK, Seconds
<1>4. ServerTypeOK'
  BY <1>1, <1>2 DEF ServerInv, ServerTypeOK, processVars, handlerVars
<1>5. \A g \in Handlers : Flight(g)'
  <2>. SUFFICES ASSUME NEW g \in Handlers
                PROVE  Flight(g)'
    OBVIOUS
  <2>1. received[g] \in Int
    BY DEF ServerInv, ServerTypeOK, Seconds
  <2>. QED
    BY <1>1, <1>3, <2>1 DEF ServerInv, Flight, InFlight, processVars, handlerVars
<1>. QED
  BY <1>3, <1>4, <1>5 DEF ServerInv

LEMMA ServerStepInv == ServerInv /\ [ServerNext]_serverVars => ServerInv'
<1>. SUFFICES ASSUME ServerInv, [ServerNext]_serverVars
              PROVE  ServerInv'
  OBVIOUS
<1>1. ASSUME NEW h \in Handlers, HandlerStep(h)
      PROVE  ServerInv'
  BY <1>1, ReadKeeps, CheckTMaxKeeps, EvaluateKeeps, ReserveBestKeeps, ObserveKeeps, WriteKeeps
  DEF HandlerStep
<1>2. CASE Drained \/ DrainTimeout \/ Crash
  BY <1>2, ExitKeeps DEF Drained, DrainTimeout, Crash
<1>3. CASE UNCHANGED serverVars
  <2>1. TypeOK' /\ UNCHANGED <<now, boot>>
    BY <1>3, EngineUntouched DEF ServerInv, ServerTypeOK, serverVars, vars
  <2>2. ServerTypeOK'
    BY <1>3, <2>1 DEF ServerInv, ServerTypeOK, serverVars, processVars, handlerVars
  <2>3. \A g \in Handlers : Flight(g)'
    BY <1>3, <2>1 DEF ServerInv, Flight, InFlight, serverVars, processVars, handlerVars
  <2>. QED
    BY <2>1, <2>2, <2>3 DEF ServerInv
<1>. QED
  BY <1>1, <1>2, <1>3, ArriveKeeps, DisconnectKeeps, ScrapeKeeps, SignalKeeps, StartKeeps,
     ServerTickKeeps DEF ServerNext

LEMMA ServerInitInv == ServerInit => ServerInv
<1>. SUFFICES ASSUME ServerInit
              PROVE  ServerInv
  OBVIOUS
<1>1. TypeOK
  BY InitTypes DEF ServerInit
<1>2. StartSecond \in Seconds
  BY TimeAssumption DEF Seconds
<1>3. /\ NoCounts \in [Labels -> Nat]
      /\ NoScrape \in [step : ScrapeSteps, counts : [Labels -> Nat], at : Seconds,
                        spend : [Campaigns -> Nat]]
  BY TimeAssumption DEF NoScrape, NoCounts, NoSpend, ScrapeSteps, Seconds
<1>4. ServerTypeOK
  BY <1>1, <1>2, <1>3 DEF ServerInit, ServerTypeOK, Steps
<1>5. boot <= now
  BY <1>2 DEF ServerInit, Init, Seconds
<1>6. \A h \in Handlers : Flight(h)
  BY DEF ServerInit, Flight, InFlight, NoLabel, ReserveLabels
<1>. QED
  BY <1>4, <1>5, <1>6 DEF ServerInv

(***************************************************************************)
(* The invariant of the process: handlers in flight belong to the running  *)
(* process, and only one that has reserved carries the label of it.        *)
(***************************************************************************)
THEOREM ServerInvariant == ServerSpec => []ServerInv
  BY ServerInitInv, ServerStepInv, PTL DEF ServerSpec

(* Type correctness of the bidder process. *)
THEOREM ServerTypes == ServerSpec => []ServerTypeOK
<1>1. ServerInv => ServerTypeOK
  BY DEF ServerInv
<1>. QED
  BY <1>1, ServerInvariant, PTL

-----------------------------------------------------------------------------
(***************************************************************************)
(* The refinement.  Reservation bounds how often an instance calls; a      *)
(* process whose bounds leave room for every handler never meets them,     *)
(* because a handler reserves at most once and its label tells that it     *)
(* has.                                                                    *)
(***************************************************************************)
Roomy ==
  /\ Overtaking
  /\ MaxLag >= LastSecond
  /\ IsFiniteSet(Handlers)
  /\ MaxBids >= Cardinality(Handlers)
  /\ MaxOpenings >= Cardinality(Handlers) + MaxRestarts + 1

Callers == {h \in Handlers : label[h] \in ReserveLabels}

CallsInv ==
  /\ restarts <= MaxRestarts
  /\ \A d \in Days : openings[d] <= 1 + restarts + Cardinality(Callers)
  /\ \A s \in Seconds, c \in Campaigns : bids[s][c] <= Cardinality(Callers)

(* What a step of the process is for the engine. *)
Quiet == UNCHANGED vars /\ Callers \subseteq Callers'
Calling(h) ==
  /\ pc[h] = "reserve" /\ InFlight(h) /\ Reserve(best[h], received[h])
  /\ h \notin Callers /\ Callers' = Callers \cup {h}

LEMMA LabelsGrow ==
  ASSUME ServerInv, NEW h \in Handlers, NEW p, NEW l, Go(h, p, l),
         label[h] \in ReserveLabels => l \in ReserveLabels
  PROVE  Callers \subseteq Callers'
BY DEF Go, ServerInv, ServerTypeOK, Callers

LEMMA HandlerForEngine ==
  ASSUME ServerInv, NEW h \in Handlers, HandlerStep(h)
  PROVE  Quiet \/ Calling(h)
<1>1. pc[h] \in Early => label[h] \notin ReserveLabels
  BY DEF ServerInv, Flight
<1>2. CASE Read(h)
  <2>1. UNCHANGED vars /\ label[h] \notin ReserveLabels
    BY <1>1, <1>2 DEF Read, At, Early
  <2>2. \E p, l : Go(h, p, l)
    BY <1>2 DEF Read
  <2>. QED
    BY <2>1, <2>2, LabelsGrow DEF Quiet
<1>3. CASE CheckTMax(h)
  <2>1. UNCHANGED vars /\ label[h] \notin ReserveLabels
    BY <1>1, <1>3 DEF CheckTMax, At, Early
  <2>2. \E p, l : Go(h, p, l)
    BY <1>3 DEF CheckTMax
  <2>. QED
    BY <2>1, <2>2, LabelsGrow DEF Quiet
<1>4. CASE Evaluate(h)
  <2>1. UNCHANGED vars /\ label[h] \notin ReserveLabels
    BY <1>1, <1>4 DEF Evaluate, At, Early
  <2>2. \E p, l : Go(h, p, l)
    BY <1>4 DEF Evaluate
  <2>. QED
    BY <2>1, <2>2, LabelsGrow DEF Quiet
<1>5. CASE ReserveBest(h)
  <2>1. /\ pc[h] = "reserve" /\ InFlight(h) /\ Reserve(best[h], received[h])
        /\ label[h] \notin ReserveLabels
    BY <1>1, <1>5 DEF ReserveBest, At, InFlight, Early
  <2>2. PICK l \in ReserveLabels : Go(h, "count", l)
    BY <1>5 DEF ReserveBest, ReserveLabels
  <2>3. label' = [label EXCEPT ![h] = l] /\ label \in [Handlers -> Labels \cup {NoLabel}]
    BY <2>2 DEF Go, ServerInv, ServerTypeOK
  <2>4. Callers' = Callers \cup {h} /\ h \notin Callers
    BY <2>1, <2>3 DEF Callers
  <2>. QED
    BY <2>1, <2>4 DEF Calling
<1>6. CASE Observe(h)
  <2>1. UNCHANGED vars /\ Go(h, "write", label[h])
    BY <1>6 DEF Observe
  <2>. QED
    BY <2>1, LabelsGrow DEF Quiet
<1>7. CASE Write(h)
  <2>1. UNCHANGED vars /\ Go(h, "done", label[h])
    BY <1>7 DEF Write
  <2>. QED
    BY <2>1, LabelsGrow DEF Quiet
<1>. QED
  BY <1>2, <1>3, <1>4, <1>5, <1>6, <1>7 DEF HandlerStep

LEMMA StepForEngine ==
  ASSUME ServerInv, [ServerNext]_serverVars
  PROVE  \/ Quiet
         \/ (Tick \/ Restart) /\ Callers' = Callers
         \/ \E h \in Handlers : Calling(h)
<1>1. ASSUME NEW h \in Handlers, NEW r \in Requests, Arrive(h, r)
      PROVE  Quiet
  <2>1. UNCHANGED vars /\ label[h] \notin ReserveLabels
    BY <1>1 DEF Arrive, ServerInv, Flight, Early
  <2>2. \E p, l : Go(h, p, l)
    BY <1>1 DEF Arrive
  <2>. QED
    BY <2>1, <2>2, LabelsGrow DEF Quiet
<1>2. ASSUME UNCHANGED <<vars, label>>
      PROVE  Quiet
  BY <1>2 DEF Quiet, Callers
<1>3. ASSUME NEW h \in Handlers, Disconnect(h)
      PROVE  Quiet
  BY <1>2, <1>3 DEF Disconnect
<1>4. CASE ScrapeCounts \/ ScrapeClock \/ ScrapeSpend \/ Signal
  BY <1>2, <1>4 DEF ScrapeCounts, ScrapeClock, ScrapeSpend, Signal, handlerVars
<1>5. CASE Drained \/ DrainTimeout \/ Crash
  BY <1>2, <1>5 DEF Drained, DrainTimeout, Crash, Exit
<1>6. CASE Start
  BY <1>6 DEF Start, handlerVars, Callers
<1>7. CASE ServerTick
  BY <1>7 DEF ServerTick, handlerVars, Callers
<1>8. CASE UNCHANGED serverVars
  BY <1>2, <1>8 DEF serverVars, handlerVars
<1>. QED
  BY <1>1, <1>3, <1>4, <1>5, <1>6, <1>7, <1>8, HandlerForEngine DEF ServerNext

LEMMA CallersFinite ==
  ASSUME Roomy
  PROVE  /\ IsFiniteSet(Callers) /\ Cardinality(Callers) \in Nat
         /\ Cardinality(Callers) <= Cardinality(Handlers) /\ Cardinality(Handlers) \in Nat
         /\ Callers # Handlers => Cardinality(Callers) < Cardinality(Handlers)
<1>1. Callers \in SUBSET Handlers /\ IsFiniteSet(Handlers)
  BY DEF Callers, Roomy
<1>2. Cardinality(Handlers) \in Nat
  BY <1>1, FS_CardinalityType
<1>. HIDE DEF Callers
<1>3. /\ IsFiniteSet(Callers) /\ Cardinality(Callers) <= Cardinality(Handlers)
      /\ Cardinality(Handlers) = Cardinality(Callers) => Handlers = Callers
  BY <1>1, FS_Subset
<1>4. Cardinality(Callers) \in Nat
  BY <1>3, FS_CardinalityType
<1>. QED
  BY <1>2, <1>3, <1>4

(* A call is one that Reservation allows, and it makes the callers one more. *)
LEMMA CallAllowed ==
  ASSUME Roomy, ServerInv, CallsInv, NEW h \in Handlers, Calling(h)
  PROVE  /\ best[h] \in Campaigns /\ received[h] \in Received
         /\ WithinBounds(best[h], received[h])
<1>1. best[h] \in Campaigns /\ boot <= received[h] /\ received[h] <= now
  BY DEF Calling, ServerInv, Flight
<1>2. received[h] \in Seconds /\ now \in Seconds /\ boot \in Seconds
  BY DEF ServerInv, ServerTypeOK, TypeOK
<1>3. received[h] \in Received
  BY <1>1, <1>2, TimeAssumption DEF Received, Roomy, Seconds
<1>4. Cardinality(Callers) < Cardinality(Handlers)
  BY CallersFinite DEF Calling
<1>5. Day(received[h]) \in Days
  BY <1>2, DayInDays
<1>6. /\ restarts \in Nat /\ openings[Day(received[h])] \in Nat
      /\ bids[received[h]][best[h]] \in Nat
  BY <1>1, <1>2, <1>5 DEF ServerInv, ServerTypeOK, TypeOK
<1>7. bids[received[h]][best[h]] < MaxBids
  BY <1>1, <1>2, <1>4, <1>6, CallersFinite, TimeAssumption DEF CallsInv, Roomy
<1>8. openings[Day(received[h])] < MaxOpenings
  BY <1>4, <1>5, <1>6, CallersFinite, TimeAssumption DEF CallsInv, Roomy
<1>. QED
  BY <1>1, <1>3, <1>7, <1>8 DEF WithinBounds

(* An action of the engine opens a day and bids at most once. *)
LEMMA ReserveAddsOne ==
  ASSUME TypeOK, NEW c \in Campaigns, NEW t \in Seconds, Reserve(c, t)
  PROVE  /\ restarts' = restarts
         /\ \A d \in Days : openings'[d] <= openings[d] + 1
         /\ \A s \in Seconds, k \in Campaigns : bids'[s][k] <= bids[s][k] + 1
<1>1. restarts' = restarts
  BY DEF Reserve
<1>2. openings' = [openings EXCEPT ![Day(t)] = IF SameDay(t) THEN openings[Day(t)]
                                               ELSE openings[Day(t)] + 1]
  BY DEF Reserve, Commit, Refuse, Rollover
<1>3. \A d \in Days : openings[d] \in Nat
  BY DEF TypeOK
<1>4. \A d \in Days : openings'[d] <= openings[d] + 1
  BY <1>2, <1>3 DEF TypeOK
<1>5. bids' = bids \/ bids' = [bids EXCEPT ![t][c] = bids[t][c] + 1]
  BY DEF Reserve, Commit, Refuse
<1>6. \A s \in Seconds, k \in Campaigns : bids[s][k] \in Nat
  BY DEF TypeOK
<1>7. bids \in [Seconds -> [Campaigns -> Nat]]
  BY DEF TypeOK
<1>8. \A s \in Seconds, k \in Campaigns : bids'[s][k] <= bids[s][k] + 1
  BY <1>5, <1>6, <1>7
<1>. QED
  BY <1>1, <1>4, <1>8

LEMMA CallsKept ==
  ASSUME Roomy
  PROVE  ServerInv /\ CallsInv /\ [ServerNext]_serverVars => CallsInv'
<1>. SUFFICES ASSUME ServerInv, CallsInv, [ServerNext]_serverVars
              PROVE  CallsInv'
  OBVIOUS
<1>1. /\ Cardinality(Callers) \in Nat /\ IsFiniteSet(Callers)
      /\ Cardinality(Callers') \in Nat /\ IsFiniteSet(Callers')
  <2>1. Cardinality(Callers) \in Nat /\ IsFiniteSet(Callers)
    BY CallersFinite
  <2>2. Callers' \in SUBSET Handlers /\ IsFiniteSet(Handlers)
    BY DEF Callers, Roomy
  <2>3. IsFiniteSet(Callers')
    <3>. HIDE DEF Callers
    <3>. QED
      BY <2>2, FS_Subset
  <2>. QED
    BY <2>1, <2>3, FS_CardinalityType
<1>2. /\ restarts \in Nat /\ \A d \in Days : openings[d] \in Nat
      /\ \A s \in Seconds, c \in Campaigns : bids[s][c] \in Nat
  BY DEF ServerInv, ServerTypeOK, TypeOK
<1>3. CASE Quiet
  <2>1. Cardinality(Callers) <= Cardinality(Callers')
    <3>1. Callers \in SUBSET Callers'
      BY <1>3 DEF Quiet
    <3>. QED
      BY <1>1, <3>1, FS_Subset
  <2>2. UNCHANGED <<restarts, openings, bids>>
    BY <1>3 DEF Quiet, vars, historyVars
  <2>. QED
    BY <1>1, <1>2, <2>1, <2>2 DEF CallsInv
<1>4. CASE Tick /\ Callers' = Callers
  BY <1>4 DEF CallsInv, Tick, historyVars
<1>5. CASE Restart /\ Callers' = Callers
  <2>1. /\ restarts' = restarts + 1 /\ restarts < MaxRestarts /\ bids' = bids
        /\ openings' = [openings EXCEPT ![Day(now)] = openings[Day(now)] + 1]
    BY <1>5 DEF Restart
  <2>2. \A d \in Days : openings'[d] <= openings[d] + 1
    BY <1>2, <2>1 DEF ServerInv, ServerTypeOK, TypeOK
  <2>3. \A d \in Days : openings'[d] \in Nat
    BY <1>2, <2>1 DEF ServerInv, ServerTypeOK, TypeOK
  <2>4. \A d \in Days : openings'[d] <= 1 + restarts' + Cardinality(Callers')
    BY <1>1, <1>2, <1>5, <2>1, <2>2, <2>3 DEF CallsInv
  <2>5. \A s \in Seconds, c \in Campaigns : bids'[s][c] <= Cardinality(Callers')
    BY <1>5, <2>1 DEF CallsInv
  <2>. QED
    BY <1>2, <2>1, <2>4, <2>5, TimeAssumption DEF CallsInv
<1>6. ASSUME NEW h \in Handlers, Calling(h)
      PROVE  CallsInv'
  <2>1. best[h] \in Campaigns /\ received[h] \in Seconds /\ Reserve(best[h], received[h])
    BY <1>6 DEF Calling, ServerInv, Flight, ServerTypeOK
  <2>2. TypeOK /\ TypeOK'
    BY <2>1, ReserveTypes DEF ServerInv, ServerTypeOK
  <2>3. /\ restarts' = restarts
        /\ \A d \in Days : openings'[d] <= openings[d] + 1
        /\ \A s \in Seconds, k \in Campaigns : bids'[s][k] <= bids[s][k] + 1
    BY <2>1, <2>2, ReserveAddsOne
  <2>4. Cardinality(Callers') = Cardinality(Callers) + 1
    BY <1>1, <1>6, FS_AddElement DEF Calling
  <2>5. /\ \A d \in Days : openings'[d] \in Nat
        /\ \A s \in Seconds, k \in Campaigns : bids'[s][k] \in Nat
    BY <2>2 DEF TypeOK
  <2>6. \A d \in Days : openings'[d] <= 1 + restarts' + Cardinality(Callers')
    BY <1>1, <1>2, <2>3, <2>4, <2>5 DEF CallsInv
  <2>7. \A s \in Seconds, k \in Campaigns : bids'[s][k] <= Cardinality(Callers')
    BY <1>1, <1>2, <2>3, <2>4, <2>5 DEF CallsInv
  <2>. QED
    BY <2>3, <2>6, <2>7 DEF CallsInv
<1>. QED
  BY <1>3, <1>4, <1>5, <1>6, StepForEngine

LEMMA CallsStart ==
  ASSUME Roomy
  PROVE  ServerInit => CallsInv
<1>. SUFFICES ASSUME ServerInit
              PROVE  CallsInv
  OBVIOUS
<1>1. Cardinality(Callers) \in Nat
  BY CallersFinite
<1>2. /\ restarts = 0
      /\ openings = [d \in Days |-> IF d = Day(StartSecond) THEN 1 ELSE 0]
      /\ bids = [s \in Seconds |-> [c \in Campaigns |-> 0]]
  BY DEF ServerInit, Init, NoSpend
<1>. QED
  BY <1>1, <1>2, TimeAssumption DEF CallsInv

(***************************************************************************)
(* The bidder process implements the engine: every step of a handler is a  *)
(* call Reservation allows or no step of the engine at all.  So what is    *)
(* proved of the engine holds in the process that serves requests with it. *)
(***************************************************************************)
THEOREM EngineUsed == ASSUME Roomy PROVE ServerSpec => UsesEngine
<1>1. ServerInit => CallsInv /\ Init
  BY CallsStart DEF ServerInit
<1>2. ServerInv /\ CallsInv /\ [ServerNext]_serverVars => CallsInv'
  BY CallsKept
<1>3. ServerInv /\ CallsInv /\ [ServerNext]_serverVars => [Next]_vars
  <2>. SUFFICES ASSUME ServerInv, CallsInv, [ServerNext]_serverVars
                PROVE  [Next]_vars
    OBVIOUS
  <2>1. ASSUME NEW h \in Handlers, Calling(h)
        PROVE  Next
    <3>1. Reserve(best[h], received[h])
      BY <2>1 DEF Calling
    <3>. QED
      BY <2>1, <3>1, CallAllowed DEF Next
  <2>. QED
    BY <2>1, StepForEngine DEF Quiet, Next
<1>. QED
  BY <1>1, <1>2, <1>3, ServerInvariant, PTL DEF ServerSpec, UsesEngine, Spec

(***************************************************************************)
(* The daily budget in the running process, however its handlers           *)
(* interleave and however often it restarts.                               *)
(***************************************************************************)
THEOREM ServerBudget == ASSUME Roomy PROVE ServerSpec => []BudgetPerOpening
<1>1. ServerSpec => Spec
  BY EngineUsed DEF UsesEngine
<1>. QED
  BY <1>1, BudgetPerOpeningHolds, PTL

(* The QPS limit in the running process.                                   *)
THEOREM ServerQPS == ASSUME Roomy PROVE ServerSpec => []QPSPerWindow
<1>1. ServerSpec => Spec
  BY EngineUsed DEF UsesEngine
<1>. QED
  BY <1>1, QPSPerWindowHolds, PTL

(***************************************************************************)
(* What the process reports of today and of this second never exceeds what *)
(* it granted, however its handlers interleave and however often it        *)
(* restarts.                                                               *)
(***************************************************************************)
THEOREM ServerSnapshots == ASSUME Roomy PROVE ServerSpec => []SnapshotNeverOverstates
<1>1. ServerSpec => Spec
  BY EngineUsed DEF UsesEngine
<1>. QED
  BY <1>1, SnapshotSound, PTL

(***************************************************************************)
(* A process that has not been restarted exceeds a daily budget, a QPS     *)
(* limit or the pacing curve, or shows a snapshot that is wrong and was    *)
(* not overtaken itself, only if one handler's reservation overtakes that  *)
(* of a request received before it.                                        *)
(***************************************************************************)
THEOREM ServerLimitsInTurn ==
  ASSUME Roomy
  PROVE  ServerSpec /\ [][InTurn]_vars =>
           [](restarts = 0 => DailyBudgetKept /\ QPSKept /\ PacingKept /\ SnapshotExactUnlessOvertaken)
<1>1. ServerSpec => Spec
  BY EngineUsed DEF UsesEngine
<1>. QED
  BY <1>1, LimitsInTurn, PTL

(***************************************************************************)
(* And then the process answers as the ledger does.                        *)
(***************************************************************************)
THEOREM ServerLedgerInTurn ==
  ASSUME Roomy
  PROVE  ServerSpec /\ [][InTurn]_vars /\ [](restarts = 0) => ImplementsLedger
<1>1. ServerSpec => Spec
  BY EngineUsed DEF UsesEngine
<1>. QED
  BY <1>1, LedgerInTurn, PTL

(***************************************************************************)
(* The budget, the curve and the spend shown need less: only a             *)
(* reservation of an earlier day after one of a later day disturbs them.   *)
(***************************************************************************)
THEOREM ServerSpendInDayOrder ==
  ASSUME Roomy
  PROVE  ServerSpec /\ [][DaysInTurn]_vars =>
           [](restarts = 0 => DailyBudgetKept /\ PacingKept /\ SpendShown)
<1>1. ServerSpec => Spec
  BY EngineUsed DEF UsesEngine
<1>. QED
  BY <1>1, SpendInDayOrder, PTL

(***************************************************************************)
(* Restarts cost the process one budget a day each, as long as days are in *)
(* order, and one QPS limit a second each, as long as no reservation       *)
(* overtakes another.                                                      *)
(***************************************************************************)
THEOREM ServerCostPerStart ==
  ASSUME Roomy
  PROVE  /\ ServerSpec /\ [][DaysInTurn]_vars => []BudgetPerStart
         /\ ServerSpec /\ [][InTurn]_vars => []QPSPerStart
<1>1. ServerSpec => Spec
  BY EngineUsed DEF UsesEngine
<1>2. ServerSpec /\ [][DaysInTurn]_vars => []BudgetPerStart
  BY <1>1, BudgetPerStartInDayOrder, PTL
<1>3. ServerSpec /\ [][InTurn]_vars => []QPSPerStart
  BY <1>1, QPSPerStartInTurn, PTL
<1>. QED
  BY <1>2, <1>3

-----------------------------------------------------------------------------
(***************************************************************************)
(* The course of a handler.  Its places are in the order of the code of    *)
(* openrtb and Bid; what it reads once it keeps.                           *)
(***************************************************************************)
Place(p) ==
  CASE p = "idle" -> 0
    [] p = "read" -> 1
    [] p = "tmax" -> 2
    [] p = "context" -> 3
    [] p = "reserve" -> 4
    [] p = "count" -> 5
    [] p = "write" -> 6
    [] OTHER -> 7

Decided == {"count", "write", "done", "killed"}

(* What a step of handler h does to h.                                     *)
Moves(h) ==
  /\ Place(pc[h]) < Place(pc'[h])
  /\ pc[h] \in Decided => label'[h] = label[h]
  /\ pc'[h] = "reserve" => ~Expired(h)
  /\ pc'[h] # "reserve" /\ pc[h] # "reserve" /\ label'[h] = "bid" => label[h] = "bid"
  /\ IF pc[h] = "write"
     THEN pc'[h] = "done" /\ answered'[h] = IF Lost(h) THEN 0 ELSE now
     ELSE pc'[h] \notin {"done", "killed"} /\ answered'[h] = answered[h]
  /\ request'[h] = request[h] /\ received'[h] = received[h] /\ gone'[h] = gone[h]

(* What any other step leaves of it.                                       *)
Stays(h) ==
  /\ pc'[h] = pc[h] /\ label'[h] = label[h] /\ answered'[h] = answered[h]
  /\ request'[h] = request[h] /\ received'[h] = received[h] /\ (gone[h] => gone'[h])

Arrives(h) ==
  /\ pc[h] = "idle" /\ pc'[h] \in {"read", "write"} /\ label'[h] # "bid"
  /\ answered'[h] = answered[h]

Dies(h) ==
  /\ InFlight(h) /\ pc'[h] = "killed" /\ label'[h] = label[h] /\ answered'[h] = answered[h]
  /\ request'[h] = request[h] /\ received'[h] = received[h] /\ gone'[h] = gone[h]

LEMMA GoMoves ==
  ASSUME ServerInv, NEW h \in Handlers, NEW p, NEW l, Go(h, p, l)
  PROVE  /\ pc'[h] = p /\ label'[h] = l
         /\ \A g \in Handlers \ {h} : pc'[g] = pc[g] /\ label'[g] = label[g]
BY DEF Go, ServerInv, ServerTypeOK

LEMMA HandlerMoves ==
  ASSUME ServerInv, NEW h \in Handlers, HandlerStep(h)
  PROVE  /\ Moves(h) /\ now' = now
         /\ \A g \in Handlers \ {h} : Stays(g)
<1>1. /\ UNCHANGED <<request, received, gone>>
      /\ \E p, l : Go(h, p, l)
  BY DEF HandlerStep, Read, CheckTMax, Evaluate, ReserveBest, Observe, Write
<1>2. now' = now
  BY DEF HandlerStep, Read, CheckTMax, Evaluate, ReserveBest, Observe, Write, vars, Reserve
<1>3. ASSUME NEW g \in Handlers \ {h}
      PROVE  Stays(g)
  <2>1. answered'[g] = answered[g]
    BY DEF HandlerStep, Read, CheckTMax, Evaluate, ReserveBest, Observe, Write,
           ServerInv, ServerTypeOK
  <2>. QED
    BY <1>1, <2>1, GoMoves DEF Stays
<1>4. CASE Read(h)
  <2>1. request[h].fault \in Faults
    BY ServerAssumption DEF ServerInv, ServerTypeOK, NoRequest, Faults
  <2>2. PICK p, l : /\ Go(h, p, l) /\ p \in {"tmax", "count"} /\ l # "bid"
    BY <1>4, <2>1 DEF Read, NoLabel, Faults
  <2>3. pc[h] = "read" /\ answered' = answered
    BY <1>4 DEF Read, At
  <2>. QED
    BY <1>1, <1>2, <1>3, <2>2, <2>3, GoMoves DEF Moves, Place, Decided
<1>5. CASE CheckTMax(h)
  <2>1. PICK p, l : /\ Go(h, p, l) /\ p \in {"context", "count"} /\ l # "bid"
    BY <1>5 DEF CheckTMax, NoLabel
  <2>2. pc[h] = "tmax" /\ answered' = answered
    BY <1>5 DEF CheckTMax, At
  <2>. QED
    BY <1>1, <1>2, <1>3, <2>1, <2>2, GoMoves DEF Moves, Place, Decided
<1>6. CASE Evaluate(h)
  <2>1. PICK p, l : /\ Go(h, p, l) /\ p \in {"reserve", "count"} /\ l # "bid"
                    /\ p = "reserve" => ~Expired(h)
    BY <1>6 DEF Evaluate, NoLabel
  <2>2. pc[h] = "context" /\ answered' = answered
    BY <1>6 DEF Evaluate, At
  <2>. QED
    BY <1>1, <1>2, <1>3, <2>1, <2>2, GoMoves DEF Moves, Place, Decided
<1>7. CASE ReserveBest(h)
  <2>1. PICK l : Go(h, "count", l)
    BY <1>7 DEF ReserveBest
  <2>2. pc[h] = "reserve" /\ answered' = answered
    BY <1>7 DEF ReserveBest, At
  <2>. QED
    BY <1>1, <1>2, <1>3, <2>1, <2>2, GoMoves DEF Moves, Place, Decided
<1>8. CASE Observe(h)
  <2>1. Go(h, "write", label[h]) /\ pc[h] = "count" /\ answered' = answered
    BY <1>8 DEF Observe, At
  <2>. QED
    BY <1>1, <1>2, <1>3, <2>1, GoMoves DEF Moves, Place, Decided
<1>9. CASE Write(h)
  <2>1. Go(h, "done", label[h]) /\ pc[h] = "write"
    BY <1>9 DEF Write, At
  <2>2. answered'[h] = IF Lost(h) THEN 0 ELSE now
    BY <1>9 DEF Write, ServerInv, ServerTypeOK
  <2>. QED
    BY <1>1, <1>2, <1>3, <2>1, <2>2, GoMoves DEF Moves, Place, Decided
<1>. QED
  BY <1>4, <1>5, <1>6, <1>7, <1>8, <1>9 DEF HandlerStep

(* Whatever else the process does, a handler stays, dies or arrives.       *)
LEMMA StepOfOthers ==
  ASSUME ServerInv, [ServerNext]_serverVars, NEW h \in Handlers, ~HandlerStep(h)
  PROVE  Stays(h) \/ Dies(h) \/ Arrives(h)
<1>1. ASSUME NEW g \in Handlers, NEW r \in Requests, Arrive(g, r)
      PROVE  Stays(h) \/ Arrives(h)
  <2>1. /\ UNCHANGED <<gone, answered>> /\ pc[g] = "idle"
        /\ received' = [received EXCEPT ![g] = now] /\ request' = [request EXCEPT ![g] = r]
    BY <1>1 DEF Arrive
  <2>2. PICK p, l : Go(g, p, l) /\ p \in {"read", "write"} /\ l # "bid"
    BY <1>1 DEF Arrive, NoLabel
  <2>3. CASE g = h
    BY <2>1, <2>2, <2>3, GoMoves DEF Arrives
  <2>4. CASE g # h
    BY <2>1, <2>2, <2>4, GoMoves DEF Stays, ServerInv, ServerTypeOK
  <2>. QED
    BY <2>3, <2>4
<1>2. ASSUME NEW g \in Handlers, HandlerStep(g)
      PROVE  Stays(h)
  BY <1>2, HandlerMoves
<1>3. ASSUME NEW g \in Handlers, Disconnect(g)
      PROVE  Stays(h)
  BY <1>3 DEF Disconnect, Stays, ServerInv, ServerTypeOK
<1>4. ASSUME UNCHANGED handlerVars
      PROVE  Stays(h)
  BY <1>4 DEF handlerVars, Stays
<1>5. CASE ScrapeCounts \/ ScrapeClock \/ ScrapeSpend \/ Signal \/ Start \/ ServerTick
  BY <1>4, <1>5 DEF ScrapeCounts, ScrapeClock, ScrapeSpend, Signal, Start, ServerTick
<1>6. CASE Drained \/ DrainTimeout \/ Crash
  <2>1. /\ UNCHANGED <<request, received, label, gone, answered>>
        /\ pc' = [g \in Handlers |-> IF InFlight(g) THEN "killed" ELSE pc[g]]
    BY <1>6 DEF Drained, DrainTimeout, Crash, Exit
  <2>2. pc'[h] = IF InFlight(h) THEN "killed" ELSE pc[h]
    BY <2>1
  <2>3. CASE InFlight(h)
    BY <2>1, <2>2, <2>3 DEF Dies
  <2>4. CASE ~InFlight(h)
    BY <2>1, <2>2, <2>4 DEF Stays
  <2>. QED
    BY <2>3, <2>4
<1>7. CASE UNCHANGED serverVars
  BY <1>4, <1>7 DEF serverVars
<1>. QED
  BY <1>1, <1>2, <1>3, <1>5, <1>6, <1>7 DEF ServerNext

(* So a handler moves, stays, dies or arrives in every step.               *)
LEMMA StepForHandlers ==
  ASSUME ServerInv, [ServerNext]_serverVars, NEW h \in Handlers
  PROVE  \/ HandlerStep(h) /\ Moves(h) /\ now' = now
         \/ ~HandlerStep(h) /\ (Stays(h) \/ Dies(h) \/ Arrives(h))
BY HandlerMoves, StepOfOthers

(***************************************************************************)
(* A handler only advances.  No step of the process takes it back, each of *)
(* its own steps takes it further, so it has at most six of them to run;   *)
(* the request it serves, the time it was received and, once decided, its  *)
(* result stay what they are (openrtb, server.go:79-150).                  *)
(***************************************************************************)
Advance(h) ==
  /\ Place(pc[h]) <= Place(pc'[h])
  /\ HandlerStep(h) => Place(pc[h]) < Place(pc'[h])
  /\ pc[h] \in Decided => label'[h] = label[h]
  /\ pc[h] # "idle" => request'[h] = request[h] /\ received'[h] = received[h]

HandlersAdvance == [][\A h \in Handlers : Advance(h)]_serverVars

LEMMA Places == \A p : Place(p) \in 0 .. 7
BY DEF Place

(* The safety core of EveryRequestEnds: no handler goes round in circles.  *)
THEOREM HandlersOnlyAdvance == ServerSpec => HandlersAdvance
<1>1. ServerInv /\ [ServerNext]_serverVars => [\A h \in Handlers : Advance(h)]_serverVars
  <2>. SUFFICES ASSUME ServerInv, [ServerNext]_serverVars, NEW h \in Handlers
                PROVE  Advance(h)
    OBVIOUS
  <2>1. Place(pc[h]) \in Int /\ Place(pc'[h]) \in Int
    BY Places
  <2>2. CASE HandlerStep(h) /\ Moves(h)
    BY <2>1, <2>2 DEF Moves, Advance
  <2>3. CASE ~HandlerStep(h) /\ Stays(h)
    BY <2>1, <2>3 DEF Stays, Advance
  <2>4. CASE ~HandlerStep(h) /\ Dies(h)
    BY <2>4, Places DEF Dies, Advance, Place
  <2>5. CASE ~HandlerStep(h) /\ Arrives(h)
    BY <2>5 DEF Arrives, Advance, Place, Decided
  <2>. QED
    BY <2>2, <2>3, <2>4, <2>5, StepForHandlers
<1>. QED
  BY <1>1, ServerInvariant, PTL DEF ServerSpec, HandlersAdvance

-----------------------------------------------------------------------------
(***************************************************************************)
(* What reaches the client.  A handler that is done has written its answer *)
(* to the client or lost it, and it loses it only when the client has left *)
(* or the write timeout has passed.                                        *)
(***************************************************************************)
AnswerOf(h) ==
  /\ answered[h] # 0 => pc[h] = "done"
  /\ pc[h] = "done" => answered[h] # 0 \/ Lost(h)

AnsweredUnlessLost == \A h \in Handlers : AnswerOf(h)

LEMMA ClockRuns ==
  ASSUME ServerInv, [ServerNext]_serverVars
  PROVE  now \in Nat \ {0} /\ now' \in Nat /\ now <= now'
<1>1. now \in Nat \ {0}
  BY DEF ServerInv, ServerTypeOK, TypeOK, Seconds
<1>2. CASE Quiet
  BY <1>1, <1>2 DEF Quiet, vars
<1>3. CASE Tick
  BY <1>1, <1>3 DEF Tick
<1>4. CASE Restart
  BY <1>1, <1>4 DEF Restart
<1>5. ASSUME NEW h \in Handlers, Calling(h)
      PROVE  now' = now
  BY <1>5 DEF Calling, Reserve
<1>. QED
  BY <1>1, <1>2, <1>3, <1>4, <1>5, StepForEngine

(* What is lost stays lost. *)
LEMMA LostForGood ==
  ASSUME ServerInv, [ServerNext]_serverVars, NEW h \in Handlers, Lost(h),
         gone[h] => gone'[h], received'[h] = received[h]
  PROVE  Lost(h)'
<1>1. /\ now \in Nat /\ now' \in Nat /\ now <= now'
      /\ received[h] \in Nat /\ WriteTimeout \in Nat
  BY ClockRuns, ServerAssumption DEF ServerInv, ServerTypeOK, Seconds
<1>2. CASE gone[h]
  BY <1>2 DEF Lost
<1>3. CASE now > received[h] + WriteTimeout
  BY <1>1, <1>3 DEF Lost
<1>. QED
  BY <1>2, <1>3 DEF Lost

(***************************************************************************)
(* No answer disappears for another reason, whatever happens around its    *)
(* handler (openrtb, server.go:79-150).                                    *)
(***************************************************************************)
THEOREM AnsweredOrLost == ServerSpec => []AnsweredUnlessLost
<1>1. ServerInit => AnsweredUnlessLost
  BY DEF ServerInit, AnsweredUnlessLost, AnswerOf
<1>2. ServerInv /\ AnsweredUnlessLost /\ [ServerNext]_serverVars => AnsweredUnlessLost'
  <2>. SUFFICES ASSUME ServerInv, [ServerNext]_serverVars, NEW h \in Handlers, AnswerOf(h)
                PROVE  AnswerOf(h)'
    BY DEF AnsweredUnlessLost
  <2>1. Place("done") = 7 /\ Place(pc'[h]) \in 0 .. 7
    BY Places DEF Place
  <2>2. CASE Moves(h) /\ now' = now
    <3>1. pc[h] # "done"
      BY <2>1, <2>2 DEF Moves
    <3>2. answered[h] = 0
      BY <3>1 DEF AnswerOf
    <3>3. CASE pc[h] = "write"
      <4>1. now # 0
        BY ClockRuns
      <4>2. pc'[h] = "done" /\ answered'[h] = IF Lost(h) THEN 0 ELSE now
        BY <2>2, <3>3 DEF Moves
      <4>3. gone'[h] = gone[h] /\ received'[h] = received[h]
        BY <2>2 DEF Moves
      <4>4. CASE Lost(h)
        BY <4>2, <4>3, <4>4, LostForGood DEF AnswerOf
      <4>5. CASE ~Lost(h)
        BY <4>1, <4>2, <4>5 DEF AnswerOf
      <4>. QED
        BY <4>4, <4>5
    <3>4. CASE pc[h] # "write"
      BY <2>2, <3>2, <3>4 DEF Moves, AnswerOf
    <3>. QED
      BY <3>3, <3>4
  <2>3. CASE Stays(h)
    <3>1. pc'[h] = pc[h] /\ answered'[h] = answered[h]
      BY <2>3 DEF Stays
    <3>2. Lost(h) => Lost(h)'
      BY <2>3, LostForGood DEF Stays
    <3>. QED
      BY <3>1, <3>2 DEF AnswerOf
  <2>4. CASE Dies(h)
    BY <2>4 DEF Dies, AnswerOf, InFlight
  <2>5. CASE Arrives(h)
    BY <2>5 DEF Arrives, AnswerOf
  <2>. QED
    BY <2>2, <2>3, <2>4, <2>5, StepForHandlers
<1>. QED
  BY <1>1, <1>2, ServerInvariant, PTL DEF ServerSpec

(* No client leaves, and no write times out, before the answer is written. *)
Attended == \A h \in Handlers : pc[h] = "write" => ~Lost(h)

(***************************************************************************)
(* Then reservations are committed only for bids the bidder returns: the   *)
(* sentence of README.md:292 fails for lost answers and no others.         *)
(***************************************************************************)
THEOREM AttendedBidsReturned == ServerSpec /\ []Attended => []OnlyReturnedBidsCommitted
<1>. DEFINE I == \A h \in Handlers : pc[h] = "done" => answered[h] # 0
<1>1. ServerInit => I
  BY DEF ServerInit
<1>2. ServerInv /\ Attended /\ I /\ [ServerNext]_serverVars => I'
  <2>. SUFFICES ASSUME ServerInv, Attended, I, [ServerNext]_serverVars,
                       NEW h \in Handlers, pc'[h] = "done"
                PROVE  answered'[h] # 0
    OBVIOUS
  <2>1. CASE Moves(h)
    BY <2>1, ClockRuns DEF Moves, Attended
  <2>2. CASE Stays(h) \/ Dies(h) \/ Arrives(h)
    BY <2>2 DEF Stays, Dies, Arrives
  <2>. QED
    BY <2>1, <2>2, StepForHandlers
<1>3. I => OnlyReturnedBidsCommitted
  BY DEF OnlyReturnedBidsCommitted
<1>. HIDE DEF I
<1>. QED
  BY <1>1, <1>2, <1>3, ServerInvariant, PTL DEF ServerSpec

(* The only look at the context comes before the reservation.  A behaviour *)
(* is prompt when the clock stands still for the handlers that have looked.*)
Looked == {"reserve", "count", "write"}

Prompt == now' = now \/ \A h \in Handlers : pc[h] \notin Looked

InTime(h) ==
  request[h].tmax > 0 =>
    /\ pc[h] = "reserve" \/ (pc[h] \in Looked /\ label[h] = "bid") =>
         now + ContextMargin < Deadline(h)
    /\ label[h] = "bid" /\ answered[h] # 0 => answered[h] <= Deadline(h)

LEMMA InTimeKept ==
  ASSUME ServerInv, AnsweredUnlessLost, [ServerNext]_serverVars, [Prompt]_serverVars,
         NEW h \in Handlers, InTime(h)
  PROVE  InTime(h)'
<1>1. /\ now \in Nat /\ ContextMargin \in Nat /\ received[h] \in Nat
      /\ request[h].tmax \in Nat /\ Deadline(h) \in Nat
  BY ClockRuns, ServerAssumption
  DEF ServerInv, ServerTypeOK, Seconds, NoRequest, Deadline
<1>2. pc[h] \in Early => label[h] # "bid"
  BY DEF ServerInv, Flight, ReserveLabels
<1>3. answered[h] # 0 => pc[h] = "done"
  BY DEF AnsweredUnlessLost, AnswerOf
<1>4. CASE Moves(h) /\ now' = now
  <2>1. /\ request'[h] = request[h] /\ Deadline(h)' = Deadline(h)
        /\ Place(pc[h]) < Place(pc'[h]) /\ pc[h] \in Steps
    BY <1>4 DEF Moves, Deadline, ServerInv, ServerTypeOK
  <2>2. pc[h] \notin {"done", "killed"}
    <3>1. Place("done") = 7 /\ Place("killed") = 7 /\ Place(pc'[h]) \in 0 .. 7
      BY Places DEF Place
    <3>. QED
      BY <2>1, <3>1
  <2>. SUFFICES ASSUME request[h].tmax > 0
                PROVE  /\ pc'[h] = "reserve" \/ (pc'[h] \in Looked /\ label'[h] = "bid") =>
                            now + ContextMargin < Deadline(h)
                       /\ label'[h] = "bid" /\ answered'[h] # 0 => answered'[h] <= Deadline(h)
    BY <1>4, <2>1 DEF InTime
  <2>3. CASE pc[h] = "reserve"
    BY <1>3, <1>4, <2>3 DEF Moves, InTime
  <2>4. CASE pc[h] \in {"count", "write"}
    <3>1. pc'[h] # "reserve"
      BY <2>1, <2>4 DEF Place
    <3>2. label'[h] = label[h]
      BY <1>4, <2>4 DEF Moves, Decided
    <3>3. label[h] = "bid" => now + ContextMargin < Deadline(h)
      BY <2>4 DEF InTime, Looked
    <3>4. answered'[h] \in {0, now}
      BY <1>3, <1>4, <2>4 DEF Moves
    <3>. QED
      BY <1>1, <3>1, <3>2, <3>3, <3>4
  <2>5. CASE pc[h] \in Early \ {"reserve"}
    <3>1. pc'[h] = "reserve" => now + ContextMargin < Deadline(h)
      BY <1>1, <1>4 DEF Moves, Expired
    <3>2. pc'[h] # "reserve" => label'[h] # "bid"
      BY <1>2, <1>4, <2>5 DEF Moves, Early
    <3>3. answered'[h] = 0
      BY <1>3, <1>4, <2>5 DEF Moves, Early
    <3>. QED
      BY <3>1, <3>2, <3>3
  <2>. QED
    BY <2>1, <2>2, <2>3, <2>4, <2>5 DEF Steps, Early
<1>5. CASE Stays(h)
  <2>1. /\ request'[h] = request[h] /\ Deadline(h)' = Deadline(h) /\ pc'[h] = pc[h]
        /\ label'[h] = label[h] /\ answered'[h] = answered[h]
    BY <1>5 DEF Stays, Deadline
  <2>2. now' = now \/ pc[h] \notin Looked
    BY DEF Prompt, serverVars, vars
  <2>. QED
    BY <2>1, <2>2 DEF InTime, Looked
<1>6. CASE Dies(h)
  <2>1. answered[h] = 0 /\ answered'[h] = 0 /\ pc'[h] = "killed"
    BY <1>3, <1>6 DEF Dies, InFlight
  <2>. QED
    BY <2>1 DEF InTime, Looked
<1>7. CASE Arrives(h)
  <2>1. answered'[h] = 0 /\ pc'[h] # "reserve" /\ label'[h] # "bid"
    BY <1>3, <1>7 DEF Arrives
  <2>. QED
    BY <2>1 DEF InTime
<1>. QED
  BY <1>4, <1>5, <1>6, <1>7, StepForHandlers

(***************************************************************************)
(* Prompt handlers answer a bid within its tmax: the sentence of           *)
(* README.md:5 fails only by the time that passes after the look at the    *)
(* context, which nothing in the code bounds.                              *)
(***************************************************************************)
THEOREM PromptBidsWithinTMax == ServerSpec /\ [][Prompt]_serverVars => []BidWithinTMax
<1>. DEFINE I == \A h \in Handlers : InTime(h)
<1>1. ServerInit => I
  BY DEF ServerInit, InTime, NoRequest
<1>2. ServerInv /\ AnsweredUnlessLost /\ I /\ [ServerNext]_serverVars /\ [Prompt]_serverVars => I'
  BY InTimeKept
<1>3. I => BidWithinTMax
  BY DEF InTime, BidWithinTMax
<1>. HIDE DEF I
<1>. QED
  BY <1>1, <1>2, <1>3, ServerInvariant, AnsweredOrLost, PTL DEF ServerSpec
-----------------------------------------------------------------------------
(***************************************************************************)
(* Charges and counters.  The bids granted are as many as the handlers     *)
(* that carry the label of one, and a counter is as high as the handlers   *)
(* that have passed it are many: each step adds one element to both sides  *)
(* or to none.                                                             *)
(***************************************************************************)
Paying == {h \in Handlers : label[h] = "bid"}
Counted(l) == {h \in Handlers : label[h] = l /\ pc[h] \in {"write", "done"}}
CountedLabels == Labels \ {"method_not_allowed"}

CountersMatch ==
  \A l \in CountedLabels : IsFiniteSet(Counted(l)) /\ counts[l] = Cardinality(Counted(l))

ChargesInv ==
  restarts = 0 =>
    /\ IsFiniteSet(GrantedBids) /\ IsFiniteSet(Paying)
    /\ Cardinality(GrantedBids) = Cardinality(Paying)
    /\ proc # "down" => CountersMatch

(* What a step of the process is for the charges, and for the counters.    *)
Charging(h) ==
  /\ best[h] \in Campaigns /\ received[h] \in boot .. now
  /\ Commit(best[h], received[h])
  /\ h \notin Paying /\ Paying' = Paying \cup {h}

SameSpend ==
  \/ UNCHANGED <<dayKey, spend>>
  \/ \E t \in boot .. now : dayKey' = Day(t) /\ spend' = BaseSpend(t)
NoCharge == bids' = bids /\ SameSpend /\ Paying' = Paying

Counting(h) ==
  \E r \in Labels \cup {NoLabel} :
    /\ counts' = [counts EXCEPT ![r] = counts[r] + 1]
    /\ h \notin Counted(r)
    /\ Counted(r)' = Counted(r) \cup {h}
    /\ \A l \in Labels \ {r} : Counted(l)' = Counted(l)
NoCount == UNCHANGED counts /\ \A l \in CountedLabels : Counted(l)' = Counted(l)

(* Where a handler that moves is found afterwards.                         *)
LEMMA GoSets ==
  ASSUME ServerInv, NEW h \in Handlers, NEW p, NEW l, Go(h, p, l)
  PROVE  /\ Paying' = (Paying \ {h}) \cup (IF l = "bid" THEN {h} ELSE {})
         /\ \A k : Counted(k)' = (Counted(k) \ {h}) \cup
                     (IF k = l /\ p \in {"write", "done"} THEN {h} ELSE {})
<1>1. /\ pc' = [pc EXCEPT ![h] = p] /\ label' = [label EXCEPT ![h] = l]
      /\ pc \in [Handlers -> Steps] /\ label \in [Handlers -> Labels \cup {NoLabel}]
  BY DEF Go, ServerInv, ServerTypeOK
<1>2. /\ pc'[h] = p /\ label'[h] = l
      /\ \A g \in Handlers \ {h} : pc'[g] = pc[g] /\ label'[g] = label[g]
  BY <1>1
<1>. QED
  BY <1>2 DEF Paying, Counted

(* A step that neither reserves nor counts.                                *)
LEMMA PlainStep ==
  ASSUME ServerInv, NEW h \in Handlers, pc[h] \in Early,
         SameSpend, UNCHANGED <<bids, counts>>,
         NEW p \in Early \cup {"count"}, NEW l, l # "bid", Go(h, p, l)
  PROVE  NoCharge /\ NoCount
<1>1. label[h] # "bid"
  BY DEF ServerInv, Flight, ReserveLabels
<1>2. h \notin Paying /\ \A k : h \notin Counted(k)
  BY <1>1 DEF Paying, Counted, Early
<1>3. p \notin {"write", "done"}
  BY DEF Early
<1>4. Paying' = Paying /\ \A k : Counted(k)' = Counted(k)
  BY <1>2, <1>3, GoSets
<1>. QED
  BY <1>4 DEF NoCharge, NoCount

LEMMA HandlerForCounters ==
  ASSUME ServerInv, NEW h \in Handlers, HandlerStep(h)
  PROVE  /\ NoCharge \/ Charging(h)
         /\ NoCount \/ Counting(h)
         /\ proc' = proc /\ proc # "down" /\ UNCHANGED <<restarts, now, boot, scrape>>
<1>1. proc' = proc /\ proc # "down" /\ UNCHANGED <<restarts, now, boot, scrape>>
  BY DEF HandlerStep, Read, CheckTMax, Evaluate, ReserveBest, Observe, Write, At, processVars,
         vars, Reserve
<1>2. CASE Read(h)
  <2>1. pc[h] \in Early /\ UNCHANGED <<bids, dayKey, spend, counts>>
    BY <1>2 DEF Read, At, Early, vars, historyVars, engineVars
  <2>2. request[h].fault # "bid"
    <3>1. request[h] \in Requests \cup {NoRequest} /\ request[h].fault \in Faults
      BY ServerAssumption DEF ServerInv, ServerTypeOK, NoRequest, Faults
    <3>. QED
      BY <3>1 DEF Faults
  <2>3. \E p \in Early \cup {"count"} : \E l : l # "bid" /\ Go(h, p, l)
    BY <1>2, <2>2 DEF Read, Early, NoLabel
  <2>. QED
    BY <1>1, <2>1, <2>3, PlainStep DEF SameSpend
<1>3. CASE CheckTMax(h)
  <2>1. pc[h] \in Early /\ UNCHANGED <<bids, dayKey, spend, counts>>
    BY <1>3 DEF CheckTMax, At, Early, vars, historyVars, engineVars
  <2>2. \E p \in Early \cup {"count"} : \E l : l # "bid" /\ Go(h, p, l)
    BY <1>3 DEF CheckTMax, Early, NoLabel
  <2>. QED
    BY <1>1, <2>1, <2>2, PlainStep DEF SameSpend
<1>4. CASE Evaluate(h)
  <2>1. pc[h] \in Early /\ UNCHANGED <<bids, dayKey, spend, counts>>
    BY <1>4 DEF Evaluate, At, Early, vars, historyVars, engineVars
  <2>2. \E p \in Early \cup {"count"} : \E l : l # "bid" /\ Go(h, p, l)
    BY <1>4 DEF Evaluate, Early, NoLabel
  <2>. QED
    BY <1>1, <2>1, <2>2, PlainStep DEF SameSpend
<1>5. CASE ReserveBest(h)
  <2>1. /\ pc[h] = "reserve" /\ Reserve(best[h], received[h]) /\ UNCHANGED counts
        /\ Go(h, "count", IF reply'.ok THEN "bid" ELSE "nobid_budget_or_qps_exhausted")
    BY <1>5 DEF ReserveBest, At
  <2>2. /\ best[h] \in Campaigns /\ label[h] # "bid"
        /\ boot <= received[h] /\ received[h] <= now /\ received[h] \in Seconds
    BY <2>1 DEF ServerInv, Flight, InFlight, Early, ReserveLabels, ServerTypeOK
  <2>3. received[h] \in boot .. now
    BY <2>2 DEF ServerInv, ServerTypeOK, TypeOK, Seconds
  <2>4. CASE Commit(best[h], received[h])
    <3>1. reply'.ok = TRUE
      BY <2>4 DEF Commit
    <3>2. Go(h, "count", "bid") /\ h \notin Paying /\ \A k : h \notin Counted(k)
      BY <2>1, <2>2, <3>1 DEF Paying, Counted
    <3>3. Paying' = Paying \cup {h} /\ \A k : Counted(k)' = Counted(k)
      BY <3>2, GoSets
    <3>. QED
      BY <1>1, <2>1, <2>2, <2>3, <2>4, <3>2, <3>3 DEF Charging, NoCount
  <2>5. CASE Refuse(best[h], received[h])
    <3>1. /\ reply'.ok = FALSE /\ UNCHANGED bids
          /\ dayKey' = Day(received[h]) /\ spend' = BaseSpend(received[h])
      BY <2>5 DEF Refuse, Rollover
    <3>2. Go(h, "count", "nobid_budget_or_qps_exhausted")
      BY <2>1, <3>1
    <3>. QED
      BY <1>1, <2>1, <2>3, <3>1, <3>2, PlainStep DEF Early, SameSpend
  <2>. QED
    BY <2>1, <2>4, <2>5 DEF Reserve
<1>6. CASE Observe(h)
  <2>1. /\ pc[h] = "count" /\ Go(h, "write", label[h])
        /\ counts' = [counts EXCEPT ![label[h]] = counts[label[h]] + 1]
        /\ UNCHANGED <<bids, dayKey, spend>>
    BY <1>6 DEF Observe, At, vars, historyVars, engineVars
  <2>2. \A k : h \notin Counted(k)
    BY <2>1 DEF Counted
  <2>3. Paying' = Paying
    BY <2>1, GoSets DEF Paying
  <2>4. PICK r \in Labels \cup {NoLabel} : r = label[h]
    BY DEF ServerInv, ServerTypeOK
  <2>5. /\ Counted(r)' = Counted(r) \cup {h}
        /\ \A l \in Labels \ {r} : Counted(l)' = Counted(l)
    <3>1. Go(h, "write", r)
      BY <2>1, <2>4
    <3>2. \A k : Counted(k)' = (Counted(k) \ {h}) \cup (IF k = r THEN {h} ELSE {})
      BY <3>1, GoSets
    <3>. QED
      BY <2>2, <3>2
  <2>6. Counting(h)
    BY <2>1, <2>2, <2>4, <2>5 DEF Counting
  <2>. QED
    BY <1>1, <2>1, <2>3, <2>6 DEF NoCharge, SameSpend
<1>7. CASE Write(h)
  <2>1. pc[h] = "write" /\ Go(h, "done", label[h]) /\ UNCHANGED <<bids, dayKey, spend, counts>>
    BY <1>7 DEF Write, At, vars, historyVars, engineVars
  <2>2. Paying' = Paying
    BY <2>1, GoSets DEF Paying
  <2>3. \A k : Counted(k)' = Counted(k)
    BY <2>1, GoSets DEF Counted
  <2>. QED
    BY <1>1, <2>1, <2>2, <2>3 DEF NoCharge, SameSpend, NoCount
<1>. QED
  BY <1>2, <1>3, <1>4, <1>5, <1>6, <1>7 DEF HandlerStep

LEMMA StepForCounters ==
  ASSUME ServerInv, [ServerNext]_serverVars, restarts' = 0
  PROVE  /\ restarts = 0
         /\ NoCharge \/ \E h \in Handlers : Charging(h)
         /\ proc' # "down" => proc # "down" /\ (NoCount \/ \E h \in Handlers : Counting(h))
<1>1. ASSUME NEW h \in Handlers, NEW r \in Requests, Arrive(h, r)
      PROVE  NoCharge /\ NoCount /\ UNCHANGED <<restarts, proc>>
  <2>1. /\ pc[h] = "idle" /\ UNCHANGED <<restarts, proc, dayKey, spend, bids, counts>>
    BY <1>1 DEF Arrive, processVars, vars, historyVars, engineVars
  <2>2. PICK p, l : /\ Go(h, p, l)
                    /\ \/ p = "write" /\ l = "method_not_allowed"
                       \/ p = "read" /\ l = NoLabel
    BY <1>1 DEF Arrive
  <2>3. h \notin Paying /\ \A k : h \notin Counted(k)
    BY <2>1 DEF Paying, Counted, ServerInv, Flight, Early, ReserveLabels
  <2>4. Paying' = Paying /\ \A k \in CountedLabels : Counted(k)' = Counted(k)
    BY <2>2, <2>3, GoSets DEF NoLabel, CountedLabels
  <2>. QED
    BY <2>1, <2>4 DEF NoCharge, SameSpend, NoCount
<1>2. ASSUME UNCHANGED <<bids, dayKey, spend, label, pc, counts>>
      PROVE  NoCharge /\ NoCount
  BY <1>2 DEF NoCharge, SameSpend, NoCount, Paying, Counted
<1>3. ASSUME NEW h \in Handlers, Disconnect(h)
      PROVE  NoCharge /\ NoCount /\ UNCHANGED <<restarts, proc>>
  BY <1>2, <1>3 DEF Disconnect, vars, historyVars, engineVars, processVars
<1>4. CASE ScrapeCounts \/ ScrapeClock \/ ScrapeSpend \/ Signal \/ ServerTick
  BY <1>2, <1>4 DEF ScrapeCounts, ScrapeClock, ScrapeSpend, Signal, ServerTick, Tick, vars, historyVars, engineVars,
                    handlerVars, processVars
<1>5. CASE Drained \/ DrainTimeout \/ Crash
  <2>1. proc' = "down" /\ UNCHANGED <<restarts, bids, dayKey, spend, label>>
    BY <1>5 DEF Drained, DrainTimeout, Crash, Exit, vars, historyVars, engineVars
  <2>. QED
    BY <2>1 DEF NoCharge, SameSpend, Paying
<1>6. CASE Start
  <2>1. restarts' = restarts + 1 /\ restarts \in Nat
    BY <1>6 DEF Start, Restart, ServerInv, ServerTypeOK, TypeOK
  <2>. QED
    BY <2>1
<1>7. CASE UNCHANGED serverVars
  BY <1>2, <1>7 DEF serverVars, vars, historyVars, engineVars, handlerVars, processVars
<1>. QED
  BY <1>1, <1>3, <1>4, <1>5, <1>6, <1>7, HandlerForCounters DEF ServerNext

(* A granted bid is one more element of the bids granted.                  *)
LEMMA OneMoreGrant ==
  ASSUME TypeOK, NEW c \in Campaigns, NEW t \in Seconds, Commit(c, t)
  PROVE  \E x : x \notin GrantedBids /\ GrantedBids' = GrantedBids \cup {x}
<1>1. /\ bids' = [bids EXCEPT ![t][c] = bids[t][c] + 1]
      /\ bids \in [Seconds -> [Campaigns -> Nat]]
  BY DEF Commit, TypeOK
<1>2. /\ bids[t][c] \in Nat /\ bids'[t][c] = bids[t][c] + 1
      /\ \A s \in Seconds, k \in Campaigns : <<s, k>> # <<t, c>> => bids'[s][k] = bids[s][k]
  BY <1>1
<1>. DEFINE x == <<t, c, bids[t][c] + 1>>
<1>3. Grants(t, c)' = Grants(t, c) \cup {x} /\ x \notin Grants(t, c)
  BY <1>2 DEF Grants
<1>4. \A s \in Seconds, k \in Campaigns :
        <<s, k>> # <<t, c>> => Grants(s, k)' = Grants(s, k) /\ x \notin Grants(s, k)
  BY <1>2 DEF Grants
<1>5. \A y : y \in GrantedBids <=> \E s \in Seconds, k \in Campaigns : y \in Grants(s, k)
  BY DEF GrantedBids
<1>6. \A y : y \in GrantedBids' <=> \E s \in Seconds, k \in Campaigns : y \in Grants(s, k)'
  BY DEF GrantedBids
<1>. HIDE DEF x
<1>7. x \notin GrantedBids
  BY <1>3, <1>4, <1>5
<1>8. \A y : y \in GrantedBids' <=> y \in GrantedBids \/ y = x
  BY <1>3, <1>4, <1>5, <1>6
<1>9. GrantedBids' = GrantedBids \cup {x}
  BY <1>8
<1>. QED
  BY <1>7, <1>9

LEMMA ChargesKept == ServerInv /\ ChargesInv /\ [ServerNext]_serverVars => ChargesInv'
<1>. SUFFICES ASSUME ServerInv, ChargesInv, [ServerNext]_serverVars, restarts' = 0
              PROVE  /\ IsFiniteSet(GrantedBids') /\ IsFiniteSet(Paying')
                     /\ Cardinality(GrantedBids') = Cardinality(Paying')
                     /\ proc' # "down" => CountersMatch'
  BY DEF ChargesInv
<1>1. /\ restarts = 0
      /\ NoCharge \/ \E h \in Handlers : Charging(h)
      /\ proc' # "down" => proc # "down" /\ (NoCount \/ \E h \in Handlers : Counting(h))
  BY StepForCounters
<1>2. /\ IsFiniteSet(GrantedBids) /\ IsFiniteSet(Paying)
      /\ Cardinality(GrantedBids) = Cardinality(Paying)
      /\ proc # "down" => CountersMatch
  BY <1>1 DEF ChargesInv
<1>3. /\ IsFiniteSet(GrantedBids') /\ IsFiniteSet(Paying')
      /\ Cardinality(GrantedBids') = Cardinality(Paying')
  <2>1. CASE NoCharge
    BY <1>2, <2>1 DEF NoCharge, GrantedBids, Grants
  <2>2. ASSUME NEW h \in Handlers, Charging(h)
        PROVE  /\ IsFiniteSet(GrantedBids') /\ IsFiniteSet(Paying')
               /\ Cardinality(GrantedBids') = Cardinality(Paying')
    <3>1. /\ TypeOK /\ best[h] \in Campaigns /\ received[h] \in Seconds
          /\ Commit(best[h], received[h]) /\ h \notin Paying /\ Paying' = Paying \cup {h}
      BY <2>2 DEF Charging, ServerInv, ServerTypeOK
    <3>2. PICK x : x \notin GrantedBids /\ GrantedBids' = GrantedBids \cup {x}
      BY <3>1, OneMoreGrant
    <3>3. /\ IsFiniteSet(GrantedBids \cup {x})
          /\ Cardinality(GrantedBids \cup {x}) = Cardinality(GrantedBids) + 1
      BY <1>2, <3>2, FS_AddElement
    <3>4. /\ IsFiniteSet(Paying \cup {h})
          /\ Cardinality(Paying \cup {h}) = Cardinality(Paying) + 1
      BY <1>2, <3>1, FS_AddElement
    <3>. QED
      BY <1>2, <3>1, <3>2, <3>3, <3>4
  <2>. QED
    BY <1>1, <2>1, <2>2
<1>4. ASSUME proc' # "down"
      PROVE  CountersMatch'
  <2>1. CountersMatch /\ (NoCount \/ \E h \in Handlers : Counting(h))
    BY <1>1, <1>2, <1>4
  <2>2. CASE NoCount
    BY <2>1, <2>2 DEF CountersMatch, NoCount
  <2>3. ASSUME NEW h \in Handlers, Counting(h), NEW l \in CountedLabels
        PROVE  IsFiniteSet(Counted(l)') /\ counts'[l] = Cardinality(Counted(l)')
    <3>1. /\ l \in Labels /\ IsFiniteSet(Counted(l)) /\ counts[l] = Cardinality(Counted(l))
          /\ counts \in [Labels -> Nat]
      BY <2>1, <2>3 DEF CountersMatch, CountedLabels, ServerInv, ServerTypeOK
    <3>2. PICK r \in Labels \cup {NoLabel} :
            /\ counts' = [counts EXCEPT ![r] = counts[r] + 1]
            /\ h \notin Counted(r)
            /\ Counted(r)' = Counted(r) \cup {h}
            /\ \A k \in Labels \ {r} : Counted(k)' = Counted(k)
      BY <2>3 DEF Counting
    <3>3. CASE l = r
      <4>1. /\ counts'[l] = counts[l] + 1 /\ h \notin Counted(l)
            /\ Counted(l)' = Counted(l) \cup {h}
        BY <3>1, <3>2, <3>3
      <4>. QED
        BY <3>1, <4>1, FS_AddElement
    <3>4. CASE l # r
      BY <3>1, <3>2, <3>4
    <3>. QED
      BY <3>3, <3>4
  <2>. QED
    BY <2>1, <2>2, <2>3 DEF CountersMatch
<1>. QED
  BY <1>3, <1>4

LEMMA ChargesStart == ServerInit => ChargesInv
<1>. SUFFICES ASSUME ServerInit
              PROVE  ChargesInv
  OBVIOUS
<1>1. /\ bids = [s \in Seconds |-> [c \in Campaigns |-> 0]]
      /\ pc = [h \in Handlers |-> "idle"] /\ label = [h \in Handlers |-> "none"]
      /\ counts = [l \in Labels |-> 0]
  BY DEF ServerInit, Init, NoSpend, NoCounts, NoLabel
<1>2. GrantedBids = {}
  <2>1. \A s \in Seconds, c \in Campaigns : Grants(s, c) = {}
    BY <1>1 DEF Grants
  <2>. QED
    BY <2>1 DEF GrantedBids
<1>3. Paying = {} /\ \A l \in CountedLabels : Counted(l) = {} /\ counts[l] = 0
  BY <1>1 DEF Paying, Counted, CountedLabels
<1>. QED
  BY <1>2, <1>3, FS_EmptySet DEF ChargesInv, CountersMatch

(* Grants match the handlers that bid, counters the handlers past them.    *)
THEOREM ChargesInvariant == ServerSpec => []ChargesInv
  BY ChargesStart, ChargesKept, ServerInvariant, PTL DEF ServerSpec

(***************************************************************************)
(* While one process lives, it has charged one bid for every handler that  *)
(* answers with one, and counted each result once.                         *)
(***************************************************************************)
THEOREM ChargesAndCounts == ServerSpec => []ChargesAndCountsAgree
<1>1. ServerInv /\ ChargesInv => ChargesAndCountsAgree
  <2>. SUFFICES ASSUME ServerInv, ChargesInv, restarts = 0, proc # "down"
                PROVE  /\ Granted = With("bid", Steps)
                       /\ \A l \in CountedLabels : counts[l] = With(l, {"write", "done"})
    BY DEF ChargesAndCountsAgree, CountedLabels
  <2>1. {h \in Handlers : label[h] = "bid" /\ pc[h] \in Steps} = Paying
    BY DEF Paying, ServerInv, ServerTypeOK
  <2>2. Granted = With("bid", Steps)
    BY <2>1 DEF Granted, With, ChargesInv
  <2>3. \A l \in CountedLabels : counts[l] = With(l, {"write", "done"})
    BY DEF With, Counted, ChargesInv, CountersMatch
  <2>. QED
    BY <2>2, <2>3
<1>. QED
  BY <1>1, ServerInvariant, ChargesInvariant, PTL
-----------------------------------------------------------------------------
(***************************************************************************)
(* The scrape.  On the day the process started on, the spend map holds the *)
(* price of one bid for every handler with the label of one; a counter     *)
(* never shows more, and what a scrape has copied can only be overtaken by *)
(* the spend it copies later.                                              *)
(***************************************************************************)
FirstDay == restarts = 0 /\ Day(now) = Day(StartSecond)

ScrapeInv ==
  /\ restarts = 0 => boot = StartSecond
  /\ FirstDay =>
       /\ dayKey = Day(StartSecond)
       /\ IsFiniteSet(ChargedBids(spend))
       /\ Cardinality(ChargedBids(spend)) = Cardinality(Paying)
       /\ Scraping => scrape.counts["bid"] <= Cardinality(ChargedBids(spend))
       /\ scrape.step = "timed" => scrape.at \in boot .. now
       /\ scrape.step = "done" =>
            scrape.counts["bid"] <= Cardinality(ChargedBids(scrape.spend))

(* A price more is one bid more.                                           *)
LEMMA OneMorePrice ==
  ASSUME NEW a \in Nat, NEW n \in Nat \ {0}
  PROVE  (a + n) \div n = (a \div n) + 1 /\ a \div n \in Nat
<1>. DEFINE q == a \div n
            p == (a + n) \div n
<1>1. q \in Nat /\ n * q <= a /\ a < n * q + n
  BY Division
<1>2. p \in Nat /\ n * p <= a + n /\ a + n < n * p + n
  BY Division
<1>. HIDE DEF p, q
<1>3. CASE p < q + 1
  <2>1. n * p + n <= n * (q + 1)
    BY <1>1, <1>2, <1>3, NextMultiple
  <2>2. n * (q + 1) = n * q + n
    BY <1>1
  <2>. QED
    BY <1>1, <1>2, <2>1, <2>2
<1>4. CASE q + 1 < p
  <2>1. n * (q + 1) + n <= n * p
    BY <1>1, <1>2, <1>4, NextMultiple
  <2>2. n * (q + 1) = n * q + n
    BY <1>1
  <2>. QED
    BY <1>1, <1>2, <2>1, <2>2
<1>5. p = q + 1
  BY <1>1, <1>2, <1>3, <1>4
<1>. QED
  BY <1>1, <1>5 DEF p, q

(* A charge is one more element of the bids charged for.                   *)
LEMMA OneMoreCharge ==
  ASSUME TypeOK, NEW c \in Campaigns, NEW t, Commit(c, t), SameDay(t)
  PROVE  /\ dayKey' = dayKey
         /\ \E x : x \notin ChargedBids(spend) /\ ChargedBids(spend') = ChargedBids(spend) \cup {x}
<1>1. /\ spend' = [spend EXCEPT ![c] = spend[c] + BidCPM[c]] /\ dayKey' = dayKey
      /\ spend \in [Campaigns -> Nat] /\ BidCPM \in [Campaigns -> Nat \ {0}]
  BY CampaignAssumption DEF Commit, Rollover, BaseSpend, SameDay, TypeOK
<1>2. /\ spend'[c] = spend[c] + BidCPM[c]
      /\ \A k \in Campaigns \ {c} : spend'[k] = spend[k]
      /\ spend[c] \in Nat /\ BidCPM[c] \in Nat \ {0}
  BY <1>1
<1>. DEFINE n == spend[c] \div BidCPM[c]
            x == <<c, n + 1>>
<1>3. n \in Nat /\ spend'[c] \div BidCPM[c] = n + 1
  BY <1>2, OneMorePrice
<1>4. /\ Charges(c, spend[c]) = {<<c, k>> : k \in 1 .. n}
      /\ Charges(c, spend'[c]) = {<<c, k>> : k \in 1 .. (n + 1)}
  BY <1>3 DEF Charges
<1>. HIDE DEF n
<1>5. Charges(c, spend'[c]) = Charges(c, spend[c]) \cup {x} /\ x \notin Charges(c, spend[c])
  <2>1. 1 .. (n + 1) = (1 .. n) \cup {n + 1} /\ n + 1 \notin 1 .. n
    BY <1>3
  <2>. QED
    BY <1>4, <2>1
<1>6. \A k \in Campaigns \ {c} :
        Charges(k, spend'[k]) = Charges(k, spend[k]) /\ x \notin Charges(k, spend[k])
  BY <1>2 DEF Charges
<1>. HIDE DEF x
<1>7. \A y : /\ y \in ChargedBids(spend) <=> \E k \in Campaigns : y \in Charges(k, spend[k])
             /\ y \in ChargedBids(spend') <=> \E k \in Campaigns : y \in Charges(k, spend'[k])
  BY DEF ChargedBids
<1>8. x \notin ChargedBids(spend)
  BY <1>5, <1>6, <1>7
<1>9. \A y : y \in ChargedBids(spend') <=> y \in ChargedBids(spend) \/ y = x
  BY <1>5, <1>6, <1>7
<1>10. ChargedBids(spend') = ChargedBids(spend) \cup {x}
  BY <1>9
<1>. QED
  BY <1>1, <1>8, <1>10

(* What a step does to the clock, the boots and the scrape.                *)
LEMMA StepForScrape ==
  ASSUME ServerInv, [ServerNext]_serverVars, restarts' = 0
  PROVE  /\ restarts = 0 /\ boot' = boot /\ now' \in Nat /\ now <= now'
         /\ \/ scrape' = scrape \/ scrape' = NoScrape
            \/ ScrapeCounts \/ ScrapeClock \/ ScrapeSpend
<1>1. restarts = 0
  BY StepForCounters
<1>2. now \in Nat /\ now <= now
  BY DEF ServerInv, ServerTypeOK, TypeOK, Seconds
<1>3. ~Restart
  BY DEF Restart, ServerInv, ServerTypeOK, TypeOK
<1>4. boot' = boot /\ now' \in Nat /\ now <= now'
  <2>1. CASE Quiet
    BY <1>2, <2>1 DEF Quiet, vars
  <2>2. CASE Tick
    BY <1>2, <2>2 DEF Tick
  <2>3. ASSUME NEW h \in Handlers, Calling(h)
        PROVE  boot' = boot /\ now' = now
    BY <2>3 DEF Calling, Reserve
  <2>. QED
    BY <1>2, <1>3, <2>1, <2>2, <2>3, StepForEngine
<1>5. \/ scrape' = scrape \/ scrape' = NoScrape
      \/ ScrapeCounts \/ ScrapeClock \/ ScrapeSpend
  <2>1. ASSUME NEW h \in Handlers, HandlerStep(h)
        PROVE  scrape' = scrape
    BY <2>1, HandlerForCounters
  <2>. QED
    BY <2>1 DEF ServerNext, Arrive, Disconnect, Signal, Drained, DrainTimeout, Crash, Exit, Start,
                ServerTick, serverVars
<1>. QED
  BY <1>1, <1>4, <1>5

(* The counter of the bids is at most the handlers that made one.          *)
LEMMA CounterCovered ==
  ASSUME ServerInv, ChargesInv, restarts = 0, proc # "down"
  PROVE  counts["bid"] <= Cardinality(Paying)
<1>1. "bid" \in CountedLabels
  BY DEF CountedLabels, Labels
<1>2. counts["bid"] = Cardinality(Counted("bid")) /\ IsFiniteSet(Paying)
  BY <1>1 DEF ChargesInv, CountersMatch
<1>3. Counted("bid") \in SUBSET Paying
  BY DEF Counted, Paying
<1>. HIDE DEF Counted, Paying
<1>. QED
  BY <1>2, <1>3, FS_Subset

LEMMA ScrapeKept ==
  ServerInv /\ ChargesInv /\ ScrapeInv /\ [ServerNext]_serverVars => ScrapeInv'
<1>. SUFFICES ASSUME ServerInv, ChargesInv, ScrapeInv, [ServerNext]_serverVars, restarts' = 0
              PROVE  ScrapeInv'
  BY DEF ScrapeInv, FirstDay
<1>1. /\ restarts = 0 /\ boot' = boot /\ now' \in Nat /\ now <= now'
      /\ \/ scrape' = scrape \/ scrape' = NoScrape
         \/ ScrapeCounts \/ ScrapeClock \/ ScrapeSpend
  BY StepForScrape
<1>2. boot = StartSecond /\ boot' = StartSecond
  BY <1>1 DEF ScrapeInv
<1>. SUFFICES ASSUME Day(now') = Day(StartSecond)
              PROVE  /\ dayKey' = Day(StartSecond)
                     /\ IsFiniteSet(ChargedBids(spend'))
                     /\ Cardinality(ChargedBids(spend')) = Cardinality(Paying')
                     /\ scrape'.step \in {"counted", "timed"} =>
                          scrape'.counts["bid"] <= Cardinality(ChargedBids(spend'))
                     /\ scrape'.step = "timed" => scrape'.at \in boot' .. now'
                     /\ scrape'.step = "done" =>
                          scrape'.counts["bid"] <= Cardinality(ChargedBids(scrape'.spend))
  BY <1>2 DEF ScrapeInv, FirstDay, Scraping
<1>3. /\ \A t \in boot .. now : Day(t) = Day(StartSecond)
      /\ Day(now) = Day(StartSecond)
  <2>1. StartSecond \in Nat /\ now \in Nat /\ StartSecond <= now
    BY <1>2, TimeAssumption DEF ServerInv, ServerTypeOK, TypeOK, Seconds
  <2>2. ASSUME NEW t \in boot .. now
        PROVE  Day(t) = Day(StartSecond)
    <3>1. t \in Nat /\ StartSecond <= t /\ t <= now'
      BY <1>1, <1>2, <2>1
    <3>2. /\ Day(StartSecond) \in Nat /\ Day(t) \in Nat /\ Day(now') \in Nat
          /\ Day(StartSecond) <= Day(t) /\ Day(t) <= Day(now')
      BY <1>1, <2>1, <3>1, DayMonotone
    <3>. QED
      BY <3>2
  <2>3. now \in boot .. now
    BY <1>2, <2>1
  <2>. QED
    BY <2>2, <2>3
<1>4. /\ dayKey = Day(StartSecond)
      /\ IsFiniteSet(ChargedBids(spend))
      /\ Cardinality(ChargedBids(spend)) = Cardinality(Paying)
      /\ Scraping => scrape.counts["bid"] <= Cardinality(ChargedBids(spend))
      /\ scrape.step = "timed" => scrape.at \in boot .. now
      /\ scrape.step = "done" => scrape.counts["bid"] <= Cardinality(ChargedBids(scrape.spend))
  BY <1>1, <1>3 DEF ScrapeInv, FirstDay
<1>5. /\ IsFiniteSet(Paying) /\ Cardinality(Paying) \in Nat
      /\ Cardinality(ChargedBids(spend)) \in Nat
  BY <1>1, <1>4, FS_CardinalityType DEF ChargesInv
<1>6. /\ dayKey' = Day(StartSecond)
      /\ IsFiniteSet(ChargedBids(spend'))
      /\ Cardinality(ChargedBids(spend')) = Cardinality(Paying')
      /\ Cardinality(ChargedBids(spend)) <= Cardinality(ChargedBids(spend'))
  <2>1. CASE NoCharge
    <3>1. dayKey' = dayKey /\ spend' = spend /\ Paying' = Paying
      BY <1>3, <1>4, <2>1 DEF NoCharge, SameSpend, BaseSpend, SameDay
    <3>. QED
      BY <1>4, <1>5, <3>1
  <2>2. ASSUME NEW h \in Handlers, Charging(h)
        PROVE  /\ dayKey' = Day(StartSecond)
               /\ IsFiniteSet(ChargedBids(spend'))
               /\ Cardinality(ChargedBids(spend')) = Cardinality(Paying')
               /\ Cardinality(ChargedBids(spend)) <= Cardinality(ChargedBids(spend'))
    <3>1. /\ TypeOK /\ best[h] \in Campaigns /\ SameDay(received[h])
          /\ Commit(best[h], received[h]) /\ h \notin Paying /\ Paying' = Paying \cup {h}
      BY <1>3, <1>4, <2>2 DEF Charging, ServerInv, ServerTypeOK, SameDay
    <3>2. dayKey' = dayKey
      BY <3>1, OneMoreCharge
    <3>3. PICK x : /\ x \notin ChargedBids(spend)
                   /\ ChargedBids(spend') = ChargedBids(spend) \cup {x}
      BY <3>1, OneMoreCharge
    <3>4. /\ IsFiniteSet(ChargedBids(spend) \cup {x})
          /\ Cardinality(ChargedBids(spend) \cup {x}) = Cardinality(ChargedBids(spend)) + 1
      BY <1>4, <3>3, FS_AddElement
    <3>5. Cardinality(Paying \cup {h}) = Cardinality(Paying) + 1
      BY <1>5, <3>1, FS_AddElement
    <3>. QED
      BY <1>4, <1>5, <3>1, <3>2, <3>3, <3>4, <3>5
  <2>. QED
    BY <2>1, <2>2, StepForCounters
<1>7. CASE scrape' = scrape
  <2>1. /\ Cardinality(ChargedBids(spend')) \in Nat
        /\ scrape.counts["bid"] \in Nat
    BY <1>6, FS_CardinalityType DEF ServerInv, ServerTypeOK, Labels
  <2>2. scrape.step = "timed" => scrape.at \in boot' .. now'
    BY <1>1, <1>4 DEF ServerInv, ServerTypeOK, TypeOK, Seconds
  <2>. QED
    BY <1>4, <1>5, <1>6, <1>7, <2>1, <2>2 DEF Scraping
<1>8. CASE scrape' = NoScrape
  BY <1>6, <1>8 DEF NoScrape
<1>9. CASE ScrapeCounts
  <2>1. scrape'.step = "counted" /\ scrape'.counts = counts /\ proc # "down" /\ spend' = spend
    BY <1>9 DEF ScrapeCounts, vars, engineVars, ServerInv, ServerTypeOK
  <2>2. counts["bid"] <= Cardinality(Paying)
    BY <1>1, <2>1, CounterCovered
  <2>. QED
    BY <1>4, <1>6, <2>1, <2>2
<1>10. CASE ScrapeClock
  <2>1. /\ scrape.step = "counted" /\ scrape'.step = "timed" /\ scrape'.counts = scrape.counts
        /\ scrape'.at = now /\ spend' = spend /\ boot' = boot /\ now' = now
    BY <1>10 DEF ScrapeClock, vars, engineVars, ServerInv, ServerTypeOK
  <2>2. now \in boot .. now
    BY DEF ServerInv, ServerTypeOK, TypeOK, Seconds
  <2>. QED
    BY <1>4, <1>6, <2>1, <2>2 DEF Scraping
<1>11. CASE ScrapeSpend
  <2>1. /\ scrape'.step = "done" /\ scrape'.counts = scrape.counts /\ scrape.step = "timed"
        /\ scrape'.spend = [c \in Campaigns |-> SpendToday(c, scrape.at)]
    BY <1>11 DEF ScrapeSpend, ServerInv, ServerTypeOK
  <2>2. scrape'.spend = spend
    BY <1>3, <1>4, <2>1 DEF SpendToday, ServerInv, ServerTypeOK, TypeOK
  <2>. QED
    BY <1>4, <1>6, <2>1, <2>2 DEF Scraping
<1>. QED
  BY <1>1, <1>7, <1>8, <1>9, <1>10, <1>11

LEMMA ScrapeStart == ServerInit => ScrapeInv
<1>. SUFFICES ASSUME ServerInit
              PROVE  ScrapeInv
  OBVIOUS
<1>1. /\ boot = StartSecond /\ dayKey = Day(StartSecond) /\ spend = [c \in Campaigns |-> 0]
      /\ label = [h \in Handlers |-> "none"] /\ scrape.step = "idle"
  BY DEF ServerInit, Init, NoSpend, NoLabel, NoScrape
<1>2. ChargedBids(spend) = {}
  <2>1. ASSUME NEW c \in Campaigns
        PROVE  Charges(c, spend[c]) = {}
    <3>1. spend[c] = 0 /\ BidCPM[c] \in Nat \ {0}
      BY <1>1, CampaignAssumption
    <3>2. 0 \div BidCPM[c] = 0
      <4>. DEFINE q == 0 \div BidCPM[c]
      <4>1. q \in Nat /\ BidCPM[c] * q <= 0
        BY <3>1, Division
      <4>. HIDE DEF q
      <4>2. q > 0 => BidCPM[c] * q >= BidCPM[c]
        BY <3>1, <4>1, NextMultiple
      <4>3. q = 0
        BY <3>1, <4>1, <4>2
      <4>. QED
        BY <4>3 DEF q
    <3>3. 1 .. 0 = {}
      OBVIOUS
    <3>4. spend[c] \div BidCPM[c] = 0
      BY <3>1, <3>2
    <3>. QED
      BY <3>3, <3>4 DEF Charges
  <2>. QED
    BY <2>1 DEF ChargedBids
<1>3. Paying = {}
  BY <1>1 DEF Paying
<1>. QED
  BY <1>1, <1>2, <1>3, FS_EmptySet DEF ScrapeInv, Scraping

(***************************************************************************)
(* A scrape never shows a bid whose charge it does not show.               *)
(***************************************************************************)
THEOREM ScrapeCovered == ServerSpec => []ScrapeChargesCoverBids
<1>1. ScrapeInv => ScrapeChargesCoverBids
  BY DEF ScrapeInv, FirstDay, ScrapeChargesCoverBids
<1>. QED
  BY <1>1, ScrapeStart, ScrapeKept, ServerInvariant, ChargesInvariant, PTL DEF ServerSpec
=============================================================================
