------------------------------- MODULE Bidding -------------------------------
(***************************************************************************)
(* Engine.Bid without its clock: the loop over impressions and campaigns   *)
(* with the rules of Evaluation, and the answer for the best candidate.    *)
(***************************************************************************)
EXTENDS Evaluation

CONSTANTS
  Requests,         (* The requests of an instance, as DecodeRequest admits them. *)
  Engines,          (* Configurations of the engine: see Evaluation.              *)
  Portfolios,       (* Sequences of campaigns, as validateCampaign admits them.   *)
  None              (* No response.                                               *)

ASSUME BiddingAssumption ==
  /\ \A r \in Requests : RequestAdmitted(r)
  /\ \A e \in Engines : EngineAdmitted(e)
  /\ \A cs \in Portfolios :
       cs \in Seq(ToSet(cs)) /\ \A i \in DOMAIN cs : CampaignAdmitted(cs[i])

VARIABLES
  req,        (* The request being answered.                     *)
  cfg,        (* Engine.cfg                                      *)
  campaigns,  (* Engine.campaigns                                *)
  visited,    (* How many pairs the loop has looked at.          *)
  best,       (* The pair of the best candidate; 0 if none.      *)
  pc,         (* "loop", "reserve" or "done".                    *)
  response    (* The response; None for a no-bid.                *)

biddingVars == <<req, cfg, campaigns, visited, best, pc, response>>

-----------------------------------------------------------------------------
Init ==
  /\ req \in Requests
  /\ cfg \in Engines
  /\ campaigns \in Portfolios
  /\ visited = 0
  /\ best = 0
  /\ pc = "loop"
  /\ response = None

(* The loop's order: every campaign for the first impression, and so on. *)
Pairs == Len(req.imps) * Len(campaigns)
ImpAt(n) == req.imps[((n - 1) \div Len(campaigns)) + 1]
CampaignAt(n) == campaigns[((n - 1) % Len(campaigns)) + 1]

EligiblePair(n) == Eligible(req, ImpAt(n), CampaignAt(n))
Price(n) == CampaignAt(n).price
Best == Candidate(req, ImpAt(best), CampaignAt(best))

(* Mutant: a candidate of the same price replaces the best. *)
BeatsOrTies(n) == best = 0 \/ Price(n) >= Price(best)

Beats(n) == best = 0 \/ Price(n) > Price(best)

Consider ==
  /\ pc = "loop"
  /\ visited < Pairs
  /\ visited' = visited + 1
  /\ best' = IF EligiblePair(visited + 1) /\ Beats(visited + 1) THEN visited + 1 ELSE best
  /\ UNCHANGED <<req, cfg, campaigns, pc, response>>

NoneEligible ==
  /\ pc = "loop"
  /\ visited = Pairs
  /\ best = 0
  /\ pc' = "done"
  /\ UNCHANGED <<req, cfg, campaigns, visited, best, response>>

(* Mutant: whether there is a candidate is not looked at. *)
BestFoundUnchecked ==
  /\ pc = "loop"
  /\ visited = Pairs
  /\ pc' = "reserve"
  /\ UNCHANGED <<req, cfg, campaigns, visited, best, response>>

BestFound ==
  /\ pc = "loop"
  /\ visited = Pairs
  /\ best # 0
  /\ pc' = "reserve"
  /\ UNCHANGED <<req, cfg, campaigns, visited, best, response>>

(* What reserve answers is up to the engine's state (module Reservation). *)
Granted ==
  /\ pc = "reserve"
  /\ response' = ResponseFor(cfg, req, Best)
  /\ pc' = "done"
  /\ UNCHANGED <<req, cfg, campaigns, visited, best>>

Refused ==
  /\ pc = "reserve"
  /\ pc' = "done"
  /\ UNCHANGED <<req, cfg, campaigns, visited, best, response>>

Next == Consider \/ NoneEligible \/ BestFound \/ Granted \/ Refused

Spec == Init /\ [][Next]_biddingVars

-----------------------------------------------------------------------------
BiddingTypeOK ==
  /\ req \in Requests
  /\ cfg \in Engines
  /\ campaigns \in Portfolios
  /\ visited \in 0 .. Pairs
  /\ best \in 0 .. visited
  /\ pc \in {"loop", "reserve", "done"}
  /\ pc = "reserve" => best # 0
  /\ response # None => pc = "done" /\ best # 0

EligibleSoFar == {n \in 1 .. visited : EligiblePair(n)}

(***************************************************************************)
(* The candidate in hand is the first among the highest priced of all      *)
(* pairs looked at: no impression or campaign is skipped, a later one of   *)
(* the same price does not replace it, and a no-bid means that no pair was *)
(* eligible (Bid, engine.go:138-156).                                      *)
(***************************************************************************)
BestIsFirstHighest ==
  IF EligibleSoFar = {}
  THEN best = 0
  ELSE /\ best \in EligibleSoFar
       /\ \A n \in EligibleSoFar :
            Price(n) < Price(best) \/ (Price(n) = Price(best) /\ best <= n)

(***************************************************************************)
(* For a careful configuration every response the engine builds passes the *)
(* validator ClearLedger runs on it, whatever the request asks for: the    *)
(* rules of evaluate, the renderer and the echo of the proof fields        *)
(* together imply ValidateBidResponse (engine.go:161-189, 200-233, 436-459 *)
(* and 521-544, response_validate.go:13-106 and 374-458).                  *)
(***************************************************************************)
CarefulBidsAreValid ==
  response # None /\ Careful(cfg, Best) => ValidateBidResponse(req, response)

(***************************************************************************)
(* A device that limits tracking or sends no advertising id never gets a   *)
(* creative that requires one, a child-directed request none that is       *)
(* blocked for it, and a blocked advertiser's domain never bids, although  *)
(* the rules ask at three places and about different creatives of the      *)
(* campaign (allowedPrivacy, chooseCreative and blockedAdvertiser).        *)
(***************************************************************************)
PrivacyKept ==
  response # None =>
    LET cr == Best.creative IN
    /\ cr.approved
    /\ cr.requiresIFA => req.ifa /\ ~req.lmt
    /\ cr.blockedCOPPA => ~req.coppa
    /\ \A d \in ToSet(response.seatbid[1].bids[1].adomain) : d \notin req.badv

=============================================================================
