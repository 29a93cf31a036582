------------------------------- MODULE Fanout --------------------------------
(***************************************************************************)
(* clearledger.RunHarness: the lane is looked up in the runtime manifest,  *)
(* the sample request is put on the lane's terms, the approved buyers are  *)
(* called one after the other, what they answer is classified and          *)
(* validated, and the best candidate wins.                                 *)
(*                                                                         *)
(* Buyers are outside the harness: a call ends in whatever the buyer's     *)
(* endpoint and the network make of it (Answers).  A lane, a request and a *)
(* response are records of tokens as in ResponseRules.                     *)
(***************************************************************************)
EXTENDS LaneRules

CONSTANTS
  Manifests,   (* Sequences of lanes, each with its approved buyers.       *)
  Markets,     (* Values of the -private-market-id option; "" is any.      *)
  Selections,  (* Values of the -buyer-id option; "" is all.               *)
  Samples,     (* Decoded sample requests.                                 *)
  Answers,     (* What a call may end in: [kind, resp].                    *)
  BuyerRank,   (* The order of the strings that are buyer ids.             *)
  None         (* No lane, no request, no winner.                          *)

(* A call ends with a Go error in these cases; the last is a 2xx answer    *)
(* whose body is no JSON or is cut off.                                    *)
CallErrors == {"timeout", "transport", "garbled"}
Kinds == CallErrors \cup {"no_content", "bad_status", "response"}
Outcomes == {"skipped", "error", "no_bid", "http_error", "bid", "invalid_bid"}

(* What the decoder makes of a sample, and of any answer that is JSON. *)
IsSample(s) ==
  /\ {"cur", "imps", "supply"} \subseteq DOMAIN s
  /\ s.imps \in Seq(ToSet(s.imps)) /\ s.imps # <<>>
  /\ \A imp \in ToSet(s.imps) :
       {"id", "floor", "floorCur", "pmp", "tag", "proof"} \subseteq DOMAIN imp
  /\ \A i, j \in DOMAIN s.imps : s.imps[i].id = s.imps[j].id => i = j

IsResponse(resp) ==
  /\ resp.seatbid \in Seq(ToSet(resp.seatbid))
  /\ \A s \in ToSet(resp.seatbid) : s.bids \in Seq(ToSet(s.bids))

ASSUME FanoutAssumption ==
  /\ \A m \in Manifests :
       /\ m # <<>> /\ None \notin ToSet(m)
       /\ \A l \in ToSet(m) : l.buyers \in Seq(ToSet(l.buyers))
  /\ \A s \in Samples : IsSample(s)
  /\ \A a \in Answers : a.kind \in Kinds /\ (a.kind = "response" => IsResponse(a.resp))
  /\ None \notin Answers

VARIABLES
  options,     (* [manifest, market, buyer, sample]                        *)
  pc,          (* "lookup", "prepare", "fanout" or "done".                 *)
  lane,        (* The lane; None when there is none.                       *)
  buyers,      (* The buyers to call, in order.                            *)
  req,         (* The request on the lane's terms.                         *)
  results,     (* Report.BuyerResults                                      *)
  candidates,  (* The valid bids, with their buyers.                       *)
  winner,      (* Report.Winner                                            *)
  supply,      (* Report.SupplyResponse.Type; "" before there is one.      *)
  ok,          (* Report.OK: no check has failed.                          *)
  heard        (* History: the answer of each buyer, in order.             *)

fanoutVars == <<options, pc, lane, buyers, req, results, candidates, winner, supply, ok, heard>>

FanoutInit ==
  /\ options \in [manifest : Manifests, market : Markets, buyer : Selections, sample : Samples]
  /\ pc = "lookup"
  /\ lane = None
  /\ buyers = <<>>
  /\ req = None
  /\ results = <<>>
  /\ candidates = {}
  /\ winner = None
  /\ supply = ""
  /\ ok = TRUE
  /\ heard = <<>>

-----------------------------------------------------------------------------
(* The lanes Manifest.Lane may find: those of the market, active or not. *)
OfMarket == {i \in DOMAIN options.manifest : options.market \in {"", options.manifest[i].market}}

(* ActiveApprovedBuyers and selectedBuyers: the loop over the lane's buyers. *)
Selected(b) == b.approved /\ b.endpoint /\ options.buyer \in {"", b.id}

SelectedBuyers(l) ==
  LET kept[i \in 0 .. Len(l.buyers)] ==
        IF i = 0 THEN <<>>
        ELSE IF Selected(l.buyers[i]) THEN Append(kept[i - 1], l.buyers[i])
        ELSE kept[i - 1]
  IN  kept[Len(l.buyers)]

Stop(check) == pc' = "done" /\ ok' = (ok /\ check)

NoLane ==
  /\ pc = "lookup"
  /\ OfMarket = {}
  /\ Stop(FALSE)
  /\ UNCHANGED <<options, lane, buyers, req, results, candidates, winner, supply, heard>>

(* lane_active is a check: when it fails, the run goes on. *)
FindLane ==
  /\ pc = "lookup"
  /\ \E i \in OfMarket :
       /\ \A j \in OfMarket : i <= j
       /\ lane' = options.manifest[i]
  /\ buyers' = SelectedBuyers(lane')
  /\ ok' = (ok /\ lane'.active /\ buyers' # <<>>)
  /\ pc' = IF buyers' = <<>> THEN "done" ELSE "prepare"
  /\ UNCHANGED <<options, req, results, candidates, winner, supply, heard>>

Prepare ==
  /\ pc = "prepare"
  /\ req' = ApplyLane(lane, options.sample)
  /\ IF LaneAllows(lane, req')
     THEN pc' = "fanout" /\ UNCHANGED ok
     ELSE Stop(FALSE)
  /\ UNCHANGED <<options, lane, buyers, results, candidates, winner, supply, heard>>

-----------------------------------------------------------------------------
(* enforceBuyerRoute *)
RouteAllowed(b) ==
  /\ b.protocol
  /\ b.formats # {} => req.imps[1].media \in b.formats
  /\ lane.formats # {} => req.imps[1].media \in lane.formats

Buyer == buyers[Len(results) + 1]

(* Mutant: a buyer kept off its route does not appear in the report. *)
SkipUnreported ==
  /\ pc = "fanout"
  /\ Len(results) < Len(buyers)
  /\ ~RouteAllowed(Buyer)
  /\ heard' = Append(heard, None)
  /\ UNCHANGED <<options, pc, lane, buyers, req, results, candidates, winner, supply, ok>>

Skip ==
  /\ pc = "fanout"
  /\ Len(results) < Len(buyers)
  /\ ~RouteAllowed(Buyer)
  /\ results' = Append(results, [buyer |-> Buyer.id, outcome |-> "skipped"])
  /\ heard' = Append(heard, None)
  /\ UNCHANGED <<options, pc, lane, buyers, req, candidates, winner, supply, ok>>

Outcome(b, a) ==
  CASE a.kind \in CallErrors -> "error"
    [] a.kind = "no_content" -> "no_bid"
    [] a.kind = "bad_status" -> "http_error"
    [] OTHER -> IF ValidCandidate(lane, b, req, a.resp) THEN "bid" ELSE "invalid_bid"

(* Mutant: an error of the call leaves the report as it is. *)
CallUnchecked(a) ==
  /\ pc = "fanout"
  /\ Len(results) < Len(buyers)
  /\ RouteAllowed(Buyer)
  /\ LET outcome == Outcome(Buyer, a)
     IN  /\ results' = Append(results, [buyer |-> Buyer.id, outcome |-> outcome])
         /\ candidates' = IF outcome = "bid"
                          THEN candidates \cup {[buyer |-> Buyer, bid |-> FirstBid(a.resp)]}
                          ELSE candidates
         /\ ok' = (ok /\ outcome \notin {"http_error", "invalid_bid"})
  /\ heard' = Append(heard, a)
  /\ UNCHANGED <<options, pc, lane, buyers, req, winner, supply>>

Call(a) ==
  /\ pc = "fanout"
  /\ Len(results) < Len(buyers)
  /\ RouteAllowed(Buyer)
  /\ LET outcome == Outcome(Buyer, a)
     IN  /\ results' = Append(results, [buyer |-> Buyer.id, outcome |-> outcome])
         /\ candidates' = IF outcome = "bid"
                          THEN candidates \cup {[buyer |-> Buyer, bid |-> FirstBid(a.resp)]}
                          ELSE candidates
         /\ ok' = (ok /\ outcome \in {"bid", "no_bid"})
  /\ heard' = Append(heard, a)
  /\ UNCHANGED <<options, pc, lane, buyers, req, winner, supply>>

(* What the call ends in is for the buyer and the network to choose. *)
CallBuyer == pc = "fanout" /\ \E a \in Answers : Call(a)

-----------------------------------------------------------------------------
NoWinner ==
  /\ pc = "fanout"
  /\ Len(results) = Len(buyers)
  /\ candidates = {}
  /\ Stop(FALSE)
  /\ UNCHANGED <<options, lane, buyers, req, results, candidates, winner, supply, heard>>

(* Mutant: candidates are sorted by price alone. *)
BeatsByPrice(x, y) == x.bid.price >= y.bid.price

(* The sort is not stable: candidates it cannot tell apart come in any order. *)
SortsBefore(x, y) ==
  \/ x.bid.price > y.bid.price
  \/ /\ x.bid.price = y.bid.price
     /\ BuyerRank[x.buyer.id] <= BuyerRank[y.buyer.id]

SelectWinner ==
  /\ pc = "fanout"
  /\ Len(results) = Len(buyers)
  /\ \E c \in candidates :
       /\ \A d \in candidates : SortsBefore(c, d)
       /\ winner' = c
  /\ supply' = IF FirstAsksForVAST(req) THEN "vast" ELSE "openrtb"
  /\ pc' = "done"
  /\ UNCHANGED <<options, lane, buyers, req, results, candidates, ok, heard>>

FanoutNext ==
  \/ NoLane
  \/ FindLane
  \/ Prepare
  \/ Skip
  \/ CallBuyer
  \/ NoWinner
  \/ SelectWinner

FanoutSpec == FanoutInit /\ [][FanoutNext]_fanoutVars

-----------------------------------------------------------------------------
FanoutTypeOK ==
  /\ pc \in {"lookup", "prepare", "fanout", "done"}
  /\ lane # None => lane \in ToSet(options.manifest)
  /\ ToSet(buyers) \subseteq IF lane = None THEN {} ELSE ToSet(lane.buyers)
  /\ \A i \in DOMAIN results : results[i].outcome \in Outcomes /\ i <= Len(buyers)
  /\ \A c \in candidates : c.buyer \in ToSet(buyers)
  /\ winner \in candidates \cup {None}
  /\ supply \in {"", "vast", "openrtb"}
  /\ ok \in BOOLEAN
  /\ Len(heard) = Len(results)

(* The buyers whose answer was a response that counts, by position. *)
Valid(i) ==
  /\ heard[i] # None /\ heard[i].kind = "response"
  /\ ValidCandidate(lane, buyers[i], req, heard[i].resp)
Offered == {i \in DOMAIN heard : Valid(i)}

(***************************************************************************)
(* When the fanout is over, the winner is a first bid one of the approved  *)
(* buyers answered and the validation let pass, no other such bid is       *)
(* dearer or, at its price, of a buyer that sorts before; and there is a   *)
(* winner whenever there is such a bid, whatever errors, no-bids and       *)
(* invalid answers came in between (RunHarness, harness.go:157-238).       *)
(***************************************************************************)
WinnerIsBestCandidate ==
  pc = "done" /\ Offered # {} =>
    \E i \in Offered :
      /\ winner = [buyer |-> buyers[i], bid |-> FirstBid(heard[i].resp)]
      /\ \A j \in Offered :
           LET other == FirstBid(heard[j].resp).price
           IN  \/ winner.bid.price > other
               \/ /\ winner.bid.price = other
                  /\ BuyerRank[winner.buyer.id] <= BuyerRank[buyers[j].id]

(***************************************************************************)
(* A report that is OK tells of a complete auction: on an active lane,     *)
(* every approved buyer with an endpoint that the options do not leave out *)
(* was called or kept off its route, none of them failed, answered a bad   *)
(* status or an invalid bid, and someone won; one failing step among       *)
(* several cannot be covered by a later good one.                          *)
(***************************************************************************)
OKMeansCompleteAuction ==
  pc = "done" /\ ok =>
    /\ lane # None /\ lane.active
    /\ winner \in candidates
    /\ ToSet(buyers) = {b \in ToSet(lane.buyers) : Selected(b)}
    /\ Len(heard) = Len(buyers)
    /\ \A i \in DOMAIN heard :
         \/ heard[i] = None
         \/ heard[i].kind = "no_content"
         \/ Valid(i)

(***************************************************************************)
(* A winner on the impression that was put on the lane keeps the lane's    *)
(* terms although only the validator compares them: at least its floor,    *)
(* its deal, its identifiers echoed, by the buyer it is credited to        *)
(* (applyLaneToRequest, harness.go:261-297, and validCandidate).           *)
(***************************************************************************)
OnTerms(w) ==
  /\ w.bid.price >= lane.floor
  /\ lane.deal # "" => w.bid.dealid = lane.deal
  /\ lane.id # "" => w.bid.ext.echo.lane_id = lane.id
  /\ w.bid.ext.identity.buyer_id = w.buyer.id

LaneTermsKept ==
  winner # None /\ winner.bid.impid = req.imps[1].id => OnTerms(winner)

(***************************************************************************)
(* A supply response of type "vast" carries VAST, also when the winner bid *)
(* on another impression than the one the type is taken from               *)
(* (buildSupplyResponse, harness.go:481-494).                              *)
(***************************************************************************)
SupplyCarriesVAST == supply = "vast" => ShapeOK(winner.bid.adm.vast)

=============================================================================
