------------------------------ MODULE BidServer ------------------------------
(***************************************************************************)
(* The bidder process: one goroutine per HTTP request running              *)
(* Server.openrtb and Engine.Bid, the engine they share (Reservation), the *)
(* result counters, a /metrics scrape and the graceful shutdown of main.   *)
(*                                                                         *)
(* A handler's steps are the points where it reads the clock or touches    *)
(* what it shares with others; what it does in between on its own request  *)
(* (reading, authorising, decoding, rendering) belongs to the step before. *)
(* A request is what its handler can tell of it: the fault it is rejected  *)
(* for, its tmax, and for each impression the campaigns whose evaluation   *)
(* succeeds.                                                               *)
(*                                                                         *)
(* One unit of the clock is a second of the QPS window and of tmax alike.  *)
(***************************************************************************)
EXTENDS Reservation, Sequences, FiniteSets

CONSTANTS
  Handlers,         (* The requests of a behaviour.                         *)
  Requests,         (* What a request may be: [fault, tmax, imps].          *)
  Rank,             (* The position of a campaign in the configuration.     *)
  TMaxMargin,       (* Bid gives up with this much of tmax left: 5 ms.      *)
  ContextMargin,    (* The context ends this much before tmax: 2 ms.        *)
  WriteTimeout,     (* http.Server.WriteTimeout                             *)
  ShutdownTimeout   (* Config.ShutdownTimeout                               *)

Faults ==
  {"none", "method_not_allowed", "request_too_large", "unauthorized",
   "malformed", "clearledger_header_mismatch"}

ASSUME ServerAssumption ==
  /\ Requests \subseteq [fault : Faults, tmax : Nat, imps : Seq(SUBSET Campaigns)]
  /\ IsFiniteSet(Campaigns) /\ Rank \in [Campaigns -> Nat]
  /\ {TMaxMargin, ContextMargin, WriteTimeout, ShutdownTimeout} \subseteq Nat

NoBidReasons ==
  {"nobid_tmax_too_low", "nobid_timeout", "nobid_no_eligible_campaign",
   "nobid_budget_or_qps_exhausted"}

Labels == (Faults \ {"none"}) \cup NoBidReasons \cup {"bid"}
NoLabel == "none"
NoRequest == [fault |-> "none", tmax |-> 0, imps |-> <<>>]

VARIABLES
  proc,      (* "up", "draining" or "down".                                 *)
  drainEnd,  (* When Shutdown gives up on the requests in flight.           *)
  pc,        (* Where each handler is.                                      *)
  request,   (* What it was sent.                                           *)
  received,  (* `start': the clock when the handler began.                  *)
  best,      (* The campaign of the best candidate.                         *)
  label,     (* The result it counts and answers.                           *)
  gone,      (* Has the client closed the connection?                       *)
  answered,  (* When the answer was written to the client; 0 if never.      *)
  counts,    (* Server.counts                                               *)
  scrape     (* A /metrics scrape: step, counters, its clock, the spend.    *)

handlerVars == <<pc, request, received, best, label, gone, answered>>
processVars == <<proc, drainEnd>>
serverVars == <<vars, processVars, handlerVars, counts, scrape>>

Steps == {"idle", "read", "tmax", "context", "reserve", "count", "write",
          "done", "killed"}

ScrapeSteps == {"idle", "counted", "timed", "done"}

NoCounts == [l \in Labels |-> 0]
NoScrape == [step |-> "idle", counts |-> NoCounts, at |-> StartSecond, spend |-> NoSpend]

ServerTypeOK ==
  /\ TypeOK
  /\ proc \in {"up", "draining", "down"}
  /\ drainEnd \in Nat
  /\ pc \in [Handlers -> Steps]
  /\ request \in [Handlers -> Requests \cup {NoRequest}]
  /\ received \in [Handlers -> Seconds]
  /\ best \in [Handlers -> Campaigns \cup {NoCampaign}]
  /\ label \in [Handlers -> Labels \cup {NoLabel}]
  /\ gone \in [Handlers -> BOOLEAN]
  /\ answered \in [Handlers -> Seconds \cup {0}]
  /\ counts \in [Labels -> Nat]
  /\ scrape \in [step : ScrapeSteps, counts : [Labels -> Nat], at : Seconds,
                 spend : [Campaigns -> Nat]]

ServerInit ==
  /\ Init
  /\ proc = "up"
  /\ drainEnd = 0
  /\ pc = [h \in Handlers |-> "idle"]
  /\ request = [h \in Handlers |-> NoRequest]
  /\ received = [h \in Handlers |-> StartSecond]
  /\ best = [h \in Handlers |-> NoCampaign]
  /\ label = [h \in Handlers |-> NoLabel]
  /\ gone = [h \in Handlers |-> FALSE]
  /\ answered = [h \in Handlers |-> 0]
  /\ counts = NoCounts
  /\ scrape = NoScrape

-----------------------------------------------------------------------------
(***************************************************************************)
(* The steps of a handler.  At(h, p) holds only while its process runs; Go *)
(* moves it on with a result.                                              *)
(***************************************************************************)
At(h, p) == proc # "down" /\ pc[h] = p

Go(h, p, l) ==
  /\ pc' = [pc EXCEPT ![h] = p]
  /\ label' = [label EXCEPT ![h] = l]

(* The clock is read before anything else; a wrong method is not counted. *)
Arrive(h, r) ==
  /\ proc = "up"
  /\ pc[h] = "idle"
  /\ received' = [received EXCEPT ![h] = now]
  /\ request' = [request EXCEPT ![h] = r]
  /\ IF r.fault = "method_not_allowed"
     THEN Go(h, "write", "method_not_allowed")
     ELSE Go(h, "read", NoLabel)
  /\ UNCHANGED <<vars, processVars, best, gone, answered, counts, scrape>>

(***************************************************************************)
(* The body is read and limited, the request authorised, decoded and its   *)
(* headers compared: the first fault ends it.  A client that left makes    *)
(* the read fail unless the body had already arrived.                      *)
(***************************************************************************)
Read(h) ==
  /\ At(h, "read")
  /\ \/ /\ request[h].fault = "none"
        /\ Go(h, "tmax", NoLabel)
     \/ /\ request[h].fault # "none"
        /\ Go(h, "count", request[h].fault)
     \/ /\ gone[h]
        /\ Go(h, "count", "request_too_large")
  /\ UNCHANGED <<vars, processVars, request, received, best, gone, answered, counts, scrape>>

Deadline(h) == received[h] + request[h].tmax

(* Mutant: the label lacks the prefix of the no-bids. *)
CheckTMaxUnprefixed(h) ==
  /\ At(h, "tmax")
  /\ IF request[h].tmax > 0 /\ Deadline(h) <= now + TMaxMargin
     THEN Go(h, "count", "tmax_too_low")
     ELSE Go(h, "context", NoLabel)
  /\ UNCHANGED <<vars, processVars, request, received, best, gone, answered, counts, scrape>>

(* time.Until(deadline) <= 5ms *)
CheckTMax(h) ==
  /\ At(h, "tmax")
  /\ IF request[h].tmax > 0 /\ Deadline(h) <= now + TMaxMargin
     THEN Go(h, "count", "nobid_tmax_too_low")
     ELSE Go(h, "context", NoLabel)
  /\ UNCHANGED <<vars, processVars, request, received, best, gone, answered, counts, scrape>>

Candidates(r) == {x \in (1 .. Len(r.imps)) \X Campaigns : x[2] \in r.imps[x[1]]}

(***************************************************************************)
(* The loop over impressions and campaigns keeps the first candidate that  *)
(* no later one outbids.                                                   *)
(***************************************************************************)
Precedes(x, y) ==
  \/ BidCPM[x[2]] > BidCPM[y[2]]
  \/ /\ BidCPM[x[2]] = BidCPM[y[2]]
     /\ x[1] < y[1] \/ (x[1] = y[1] /\ Rank[x[2]] <= Rank[y[2]])

BestCampaign(r) ==
  (CHOOSE x \in Candidates(r) : \A y \in Candidates(r) : Precedes(x, y))[2]

Expired(h) == request[h].tmax > 0 /\ now + ContextMargin >= Deadline(h)

(* Mutant: the handler counts its bid before the engine grants it. *)
CountBeforeReserve(h) ==
  /\ At(h, "context")
  /\ ~Expired(h)
  /\ Candidates(request[h]) # {}
  /\ best' = [best EXCEPT ![h] = BestCampaign(request[h])]
  /\ Go(h, "reserve", NoLabel)
  /\ counts' = [counts EXCEPT !["bid"] = @ + 1]
  /\ UNCHANGED <<vars, processVars, request, received, gone, answered, scrape>>

(***************************************************************************)
(* The only look at the context, and the evaluation that follows it.  That *)
(* the client left may not have reached the context yet.                   *)
(***************************************************************************)
Evaluate(h) ==
  /\ At(h, "context")
  /\ \/ /\ Expired(h) \/ gone[h]
        /\ Go(h, "count", "nobid_timeout")
        /\ UNCHANGED best
     \/ /\ ~Expired(h)
        /\ Candidates(request[h]) = {}
        /\ Go(h, "count", "nobid_no_eligible_campaign")
        /\ UNCHANGED best
     \/ /\ ~Expired(h)
        /\ Candidates(request[h]) # {}
        /\ best' = [best EXCEPT ![h] = BestCampaign(request[h])]
        /\ Go(h, "reserve", NoLabel)
  /\ UNCHANGED <<vars, processVars, request, received, gone, answered, counts, scrape>>

(* Mutant: the result of reserve is not looked at. *)
ReserveUnchecked(h) ==
  /\ At(h, "reserve")
  /\ Reserve(best[h], received[h])
  /\ Go(h, "count", "bid")
  /\ UNCHANGED <<processVars, request, received, best, gone, answered, counts, scrape>>

(* Mutant: the reservation is made for the deadline of the request. *)
ReserveAtDeadline(h) ==
  /\ At(h, "reserve")
  /\ Reserve(best[h], Deadline(h))
  /\ Go(h, "count", IF reply'.ok THEN "bid" ELSE "nobid_budget_or_qps_exhausted")
  /\ UNCHANGED <<processVars, request, received, best, gone, answered, counts, scrape>>

(* Only the best candidate is tried, at the time the request was received. *)
ReserveBest(h) ==
  /\ At(h, "reserve")
  /\ Reserve(best[h], received[h])
  /\ Go(h, "count", IF reply'.ok THEN "bid" ELSE "nobid_budget_or_qps_exhausted")
  /\ UNCHANGED <<processVars, request, received, best, gone, answered, counts, scrape>>

Observe(h) ==
  /\ At(h, "count")
  /\ counts' = [counts EXCEPT ![label[h]] = @ + 1]
  /\ Go(h, "write", label[h])
  /\ UNCHANGED <<vars, processVars, request, received, best, gone, answered, scrape>>

(* The error of a write that reaches nobody is ignored. *)
Lost(h) == gone[h] \/ now > received[h] + WriteTimeout

(* Mutant: the handler waits until the answer has reached the client. *)
WriteUntilSent(h) ==
  /\ At(h, "write")
  /\ ~Lost(h)
  /\ answered' = [answered EXCEPT ![h] = now]
  /\ Go(h, "done", label[h])
  /\ UNCHANGED <<vars, processVars, request, received, best, gone, counts, scrape>>

Write(h) ==
  /\ At(h, "write")
  /\ answered' = [answered EXCEPT ![h] = IF Lost(h) THEN 0 ELSE now]
  /\ Go(h, "done", label[h])
  /\ UNCHANGED <<vars, processVars, request, received, best, gone, counts, scrape>>

HandlerStep(h) ==
  \/ Read(h)
  \/ CheckTMax(h)
  \/ Evaluate(h)
  \/ ReserveBest(h)
  \/ Observe(h)
  \/ Write(h)

InFlight(h) == pc[h] \notin {"idle", "done", "killed"}

(* The client closes the connection; net/http cancels the request context. *)
Disconnect(h) ==
  /\ InFlight(h)
  /\ gone' = [gone EXCEPT ![h] = TRUE]
  /\ UNCHANGED <<vars, processVars, pc, request, received, best, label, answered, counts, scrape>>

-----------------------------------------------------------------------------
(***************************************************************************)
(* /metrics copies the counters under their mutex, reads the clock and     *)
(* then waits for the engine's mutex to take a snapshot for that clock.    *)
(***************************************************************************)
ScrapeCounts ==
  /\ proc = "up"
  /\ scrape.step = "idle"
  /\ scrape' = [scrape EXCEPT !.step = "counted", !.counts = counts]
  /\ UNCHANGED <<vars, processVars, handlerVars, counts>>

ScrapeClock ==
  /\ proc # "down"
  /\ scrape.step = "counted"
  /\ scrape' = [scrape EXCEPT !.step = "timed", !.at = now]
  /\ UNCHANGED <<vars, processVars, handlerVars, counts>>

ScrapeSpend ==
  /\ proc # "down"
  /\ scrape.step = "timed"
  /\ scrape' = [scrape EXCEPT !.step = "done",
                              !.spend = [c \in Campaigns |-> SpendToday(c, scrape.at)]]
  /\ UNCHANGED <<vars, processVars, handlerVars, counts>>

-----------------------------------------------------------------------------
(* SIGINT or SIGTERM: Shutdown closes the listener and waits. *)
Signal ==
  /\ proc = "up"
  /\ proc' = "draining"
  /\ drainEnd' = now + ShutdownTimeout
  /\ UNCHANGED <<vars, handlerVars, counts, scrape>>

Scraping == scrape.step \in {"counted", "timed"}

(* main returns and the requests still in flight end with it. *)
Exit ==
  /\ proc' = "down"
  /\ pc' = [h \in Handlers |-> IF InFlight(h) THEN "killed" ELSE pc[h]]
  /\ scrape' = IF Scraping THEN NoScrape ELSE scrape
  /\ UNCHANGED <<vars, drainEnd, request, received, best, label, gone, answered, counts>>

Drained ==
  /\ proc = "draining"
  /\ \A h \in Handlers : ~InFlight(h)
  /\ ~Scraping
  /\ Exit

DrainTimeout == proc = "draining" /\ now >= drainEnd /\ Exit

Crash == proc # "down" /\ restarts < MaxRestarts /\ Exit

(* A new process: a new engine and new counters. *)
Start ==
  /\ proc = "down"
  /\ Restart
  /\ proc' = "up"
  /\ counts' = NoCounts
  /\ scrape' = NoScrape
  /\ UNCHANGED <<drainEnd, handlerVars>>

ServerTick == Tick /\ UNCHANGED <<processVars, handlerVars, counts, scrape>>

ServerNext ==
  \/ \E h \in Handlers, r \in Requests : Arrive(h, r)
  \/ \E h \in Handlers : HandlerStep(h) \/ Disconnect(h)
  \/ ScrapeCounts
  \/ ScrapeClock
  \/ ScrapeSpend
  \/ Signal
  \/ Drained
  \/ DrainTimeout
  \/ Crash
  \/ Start
  \/ ServerTick

(***************************************************************************)
(* The Go scheduler runs every goroutine, a body read ends at the latest   *)
(* with ReadTimeout, the clock runs, and main wakes when Shutdown returns. *)
(* Nothing makes clients call, leave or signals arrive.                    *)
(***************************************************************************)
Fairness ==
  /\ \A h \in Handlers : WF_serverVars(HandlerStep(h))
  /\ WF_serverVars(ScrapeClock \/ ScrapeSpend)
  /\ WF_serverVars(Drained \/ DrainTimeout)
  /\ WF_serverVars(ServerTick)

ServerSpec == ServerInit /\ [][ServerNext]_serverVars /\ Fairness

-----------------------------------------------------------------------------
(* The bids granted, one by one: the k-th of campaign c in second s. *)
Grants(s, c) == {<<s, c, k>> : k \in 1 .. bids[s][c]}
GrantedBids == UNION {Grants(s, c) : s \in Seconds, c \in Campaigns}
Granted == Cardinality(GrantedBids)

(* The bids a spend map has been charged for, one by one. *)
Charges(c, amount) == {<<c, k>> : k \in 1 .. (amount \div BidCPM[c])}
ChargedBids(spent) == UNION {Charges(c, spent[c]) : c \in Campaigns}

With(l, steps) == Cardinality({h \in Handlers : label[h] = l /\ pc[h] \in steps})

(***************************************************************************)
(* While one process lives, the engine has granted one reservation for     *)
(* every handler that answers with a bid and none for the others, and each *)
(* result is counted once for every handler that has passed the counters:  *)
(* no interleaving of handlers loses a charge or counts it twice           *)
(* (openrtb and observe, server.go:79-89 and 360-364).                     *)
(***************************************************************************)
ChargesAndCountsAgree ==
  restarts = 0 /\ proc # "down" =>
    /\ Granted = With("bid", Steps)
    /\ \A l \in Labels \ {"method_not_allowed"} :
         counts[l] = With(l, {"write", "done"})

(***************************************************************************)
(* A scrape never shows a bid whose charge it does not show: the handler   *)
(* reserves before it counts and the scrape copies the counters before it  *)
(* takes the snapshot, so the unlocked gaps cannot meet.  A day that ends  *)
(* or a process that restarts in between resets one side and is left out   *)
(* (metrics, server.go:152-169).                                           *)
(***************************************************************************)
ScrapeChargesCoverBids ==
  scrape.step = "done" /\ restarts = 0 /\ Day(now) = Day(StartSecond) =>
    scrape.counts["bid"] <= Cardinality(ChargedBids(scrape.spend))

(***************************************************************************)
(* The handlers use the engine as Reservation says: with times of their    *)
(* own process that never lie ahead of the clock (Bid, engine.go:122-159). *)
(***************************************************************************)
UsesEngine == Spec

(***************************************************************************)
(* Every request a handler has begun is answered, or its process ends, and *)
(* so does every scrape: nothing waits for a mutex or a client for ever    *)
(* (openrtb and metrics, server.go:50-90 and 152-169).                     *)
(***************************************************************************)
EveryRequestEnds ==
  /\ \A h \in Handlers : pc[h] = "read" ~> pc[h] \in {"done", "killed"}
  /\ Scraping ~> ~Scraping

(***************************************************************************)
(* README.md:292: reservations are only committed for bids the bidder      *)
(* returns.  So when a handler has answered with a bid, the client has it. *)
(***************************************************************************)
OnlyReturnedBidsCommitted ==
  \A h \in Handlers : pc[h] = "done" /\ label[h] = "bid" => answered[h] # 0

(***************************************************************************)
(* README.md:5: a bid response is returned within the request timeout.     *)
(***************************************************************************)
BidWithinTMax ==
  \A h \in Handlers :
    label[h] = "bid" /\ answered[h] # 0 /\ request[h].tmax > 0 =>
      answered[h] <= Deadline(h)
=============================================================================
