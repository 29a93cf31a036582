------------------------------ MODULE LaneRules -------------------------------
(***************************************************************************)
(* What the harness does with a decoded sample before the buyers see it:   *)
(* the terms of the lane are written over its first impression, and the    *)
(* result is compared with the lane; and which of a buyer's answers it     *)
(* takes for a bid.                                                        *)
(***************************************************************************)
EXTENDS ResponseRules

LaneProof(l, tag) ==
  [receipt |-> TRUE,
   echo |-> [lane_id |-> l.id, private_market_id |-> l.market, package_id |-> l.package,
             placement_id |-> tag, proof_run_id |-> "run"]]

LanePMP(l, pmp) ==
  IF Blank(l.deal) THEN pmp
  ELSE [private |-> TRUE, deals |-> <<[id |-> l.deal, floor |-> l.floor, cur |-> l.cur]>>]

LaneTag(l, tag) == IF l.placements = <<>> THEN tag ELSE Head(l.placements)

(* Mutant: the proof fields of the sample stay. *)
OnLaneUnproven(l, imp) ==
  [imp EXCEPT !.floor = l.floor, !.floorCur = l.cur, !.pmp = LanePMP(l, @), !.tag = LaneTag(l, @)]

OnLane(l, imp) ==
  [imp EXCEPT !.floor = l.floor, !.floorCur = l.cur,
              !.pmp = LanePMP(l, @), !.tag = LaneTag(l, @),
              !.proof = LaneProof(l, LaneTag(l, imp.tag))]

LaneSupply(l, supply) ==
  IF supply.kind = "app" /\ l.bundles # <<>>
  THEN [supply EXCEPT !.bundle = Head(l.bundles)]
  ELSE supply

(* applyLaneToRequest: only the first impression is put on the lane. *)
ApplyLane(l, s) ==
  [s EXCEPT !.cur = {l.cur}, !.imps[1] = OnLane(l, @), !.supply = LaneSupply(l, @)]

(* enforceLaneRequest *)
LaneAllows(l, r) ==
  /\ l.active
  /\ r.imps[1].media \in l.formats
  /\ l.placements # <<>> => r.imps[1].tag \in ToSet(l.placements)
  /\ r.supply.kind = "app" /\ l.bundles # <<>> => r.supply.bundle \in ToSet(l.bundles)
  /\ r.imps[1].floor >= l.floor

-----------------------------------------------------------------------------
(***************************************************************************)
(* validCandidate: the response as a whole, then the first bid of the      *)
(* first seat, which becomes the candidate.  Its media is tested by the    *)
(* first impression of the request, whichever it bids on.                  *)
(***************************************************************************)
FirstBid(resp) == resp.seatbid[1].bids[1]

(* enforceBuyerProofIdentity *)
ProvesIdentity(b, bid) ==
  /\ bid.ext.present
  /\ bid.ext.identity.buyer_id = b.id
  /\ bid.ext.identity.creative_id = bid.crid

FirstAsksForVAST(r) == r.imps[1].media \in {"video", "audio"}

(* Mutant: the shape of the ad is left to the validator. *)
ValidAnyShape(l, b, r, resp) ==
  /\ ValidateBidResponse(r, resp)
  /\ resp.cur = l.cur
  /\ b.seat # "" => resp.seatbid[1].seat = b.seat
  /\ ProvesIdentity(b, FirstBid(resp))

ValidCandidate(l, b, r, resp) ==
  /\ ValidateBidResponse(r, resp)
  /\ resp.cur = l.cur
  /\ b.seat # "" => resp.seatbid[1].seat = b.seat
  /\ l.requireAdomain => FirstBid(resp).adomain # <<>>
  /\ FirstAsksForVAST(r) => ShapeOK(FirstBid(resp).adm.vast)
  /\ ProvesIdentity(b, FirstBid(resp))
=============================================================================
