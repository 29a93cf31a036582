-------------------------------- MODULE Relay --------------------------------
(***************************************************************************)
(* One request on its way: the harness decodes a sample, puts it on a      *)
(* lane's terms and sends it to a bidder, which decodes what it got with   *)
(* its own options, evaluates it and answers; the harness validates the    *)
(* answer against the request it has kept.  A client that is not the       *)
(* harness posts a body as it is.                                          *)
(*                                                                         *)
(* The harness decodes once more than it knows: aliases it has read stay   *)
(* in ext and are read again by the bidder, after the lane's terms have    *)
(* been written over the fields they stand for.                            *)
(***************************************************************************)
EXTENDS RequestDecoding, LaneRules, Evaluation

CONSTANTS
  Bodies,      (* Sample files and posted bodies.                          *)
  Lanes,
  Headers,     (* Values of X-OpenRTB-Version a client may send.           *)
  Accepts,     (* Values of AcceptedOpenRTBVersions of a bidder.           *)
  Engines,     (* The rest of a bidder's Config: PublicEndpoint, BuyerID.  *)
  Portfolios   (* The bidder's campaigns.                                  *)

(* No lane, no request, no answer: a record that is none of these. *)
None == [none |-> TRUE]

ASSUME RelayAssumption ==
  /\ \A b \in Bodies : WrittenBody(b)
  /\ \A l \in Lanes : l.floor \in Int /\ ~Blank(l.cur)
  /\ \A e \in Engines : EngineAdmitted(e)
  /\ \A cs \in Portfolios : \A c \in ToSet(cs) : CampaignAdmitted(c)
  /\ None \notin Lanes

VARIABLES
  body,      (* The sample or the posted body.                             *)
  lane,      (* The lane of a harness run; None for another client.        *)
  header,    (* X-OpenRTB-Version                                          *)
  accepted,  (* The bidder's accepted versions.                            *)
  engine,    (* The rest of its configuration.                             *)
  buyer,     (* The approved buyer the harness calls: [id, seat].          *)
  kept,      (* The request the harness keeps.                             *)
  wire,      (* The body the bidder receives.                              *)
  view,      (* The request the bidder has decoded.                        *)
  bid,       (* The candidate it bids with; None for a no-bid.             *)
  pc,        (* "sample", "lane", "wire", "bid", "judge" or "done"; the    *)
             (* errors "bad_sample", "bad_lane" and "malformed" end it.    *)
  valid      (* Is the answer a candidate?                                 *)

relayVars == <<body, lane, header, accepted, engine, buyer, kept, wire, view, bid, pc, valid>>

RelayInit ==
  /\ body \in Bodies
  /\ lane \in Lanes \cup {None}
  /\ header \in IF lane = None THEN Headers ELSE {Outbound(h) : h \in Headers} \ {""}
  /\ accepted \in Accepts
  /\ engine \in Engines
  /\ buyer = None
  /\ pc = IF lane = None THEN "wire" ELSE "sample"
  /\ wire = IF lane = None THEN body ELSE None
  /\ kept = None
  /\ view = None
  /\ bid = None
  /\ valid = FALSE

-----------------------------------------------------------------------------
(* requestFromSample: DecodeRequest with the default options. *)
ReadSample ==
  /\ pc = "sample"
  /\ IF Decodes(body, "", DefaultAccepted)
     THEN pc' = "lane" /\ kept' = Decoded(body)
     ELSE pc' = "bad_sample" /\ UNCHANGED kept
  /\ UNCHANGED <<body, lane, header, accepted, engine, buyer, wire, view, bid, valid>>

(* Mutant: the request is sent before the lane is asked. *)
SendUnasked ==
  /\ pc = "lane"
  /\ kept' = ApplyLane(lane, kept)
  /\ \E b \in ToSet(lane.buyers) : buyer' = b
  /\ wire' = Marshal(kept')
  /\ pc' = IF LaneAllows(lane, kept') THEN "wire" ELSE "bad_lane"
  /\ UNCHANGED <<body, lane, header, accepted, engine, view, bid, valid>>

(* RunHarness up to the call of one buyer (module Fanout has them all): a  *)
(* lane that does not allow its own request ends the run.                  *)
Send ==
  /\ pc = "lane"
  /\ kept' = ApplyLane(lane, kept)
  /\ \/ /\ LaneAllows(lane, kept')
        /\ \E b \in ToSet(lane.buyers) : buyer' = b
        /\ pc' = "wire" /\ wire' = Marshal(kept')
     \/ /\ ~LaneAllows(lane, kept')
        /\ pc' = "bad_lane" /\ UNCHANGED <<buyer, wire>>
  /\ UNCHANGED <<body, lane, header, accepted, engine, view, bid, valid>>

(* Server.openrtb: decode with the client's header and the bidder's versions. *)
Receive ==
  /\ pc = "wire"
  /\ IF Decodes(wire, header, accepted)
     THEN pc' = "bid" /\ view' = Decoded(wire)
     ELSE pc' = "malformed" /\ UNCHANGED view
  /\ UNCHANGED <<body, lane, header, accepted, engine, buyer, kept, wire, bid, valid>>

(* Engine.Bid: a best pair (module Bidding says which of them), or a       *)
(* no-bid when there is none or reserve refuses.                           *)
Answer ==
  /\ pc = "bid"
  /\ \/ /\ \E cs \in Portfolios : \E p \in BestPairs(view, cs) :
             bid' = Candidate(view, p[1], p[2])
        /\ pc' = "judge"
     \/ /\ pc' = "done"
        /\ UNCHANGED bid
  /\ UNCHANGED <<body, lane, header, accepted, engine, buyer, kept, wire, view, valid>>

Response == ResponseFor(engine, view, bid)

(* validCandidate: the harness's own request is what counts. *)
Judge ==
  /\ pc = "judge"
  /\ valid' = (lane # None /\ ValidCandidate(lane, buyer, kept, Response))
  /\ pc' = "done"
  /\ UNCHANGED <<body, lane, header, accepted, engine, buyer, kept, wire, view, bid>>

RelayNext == ReadSample \/ Send \/ Receive \/ Answer \/ Judge

RelaySpec == RelayInit /\ [][RelayNext]_relayVars

-----------------------------------------------------------------------------
RelayTypeOK ==
  /\ body \in Bodies
  /\ lane \in Lanes \cup {None}
  /\ accepted \in Accepts
  /\ engine \in Engines
  /\ lane # None /\ wire # None => buyer \in ToSet(lane.buyers)
  /\ pc \in {"sample", "lane", "wire", "bid", "judge", "done", "bad_sample", "bad_lane",
             "malformed"}
  /\ view # None <=> pc \in {"bid", "judge", "done"}
  /\ wire # None <=> pc \in {"wire", "malformed", "bid", "judge", "done"}
  /\ bid # None => view # None
  /\ valid \in BOOLEAN

(***************************************************************************)
(* Whatever a client sends, what reaches the engine is what the engine     *)
(* counts on: impressions with different ids and one media object each,    *)
(* native ones with assets, bounds in order (DecodeRequestWithOptions,     *)
(* validate.go:17-93, against what Bidding assumes of its requests).       *)
(***************************************************************************)
DecodedRequestsAdmitted == view # None => RequestAdmitted(view)

(***************************************************************************)
(* A bidder that accepts the version the harness announces can decode      *)
(* every request the harness sends, whatever version hints the sample      *)
(* carried: lane terms and a second decoding do not make it malformed      *)
(* (harness.go:261-297 and 349, compat.go:163-180).                        *)
(***************************************************************************)
HarnessCallsDecode ==
  lane # None /\ pc = "malformed" =>
    \/ Classify(header) \notin IF accepted = {} THEN DefaultAccepted ELSE accepted
    \/ lane.floor < 0

(***************************************************************************)
(* The bidder sees the request the harness has kept, field by field, but   *)
(* for one: where the kept floor is 0, as on a lane without a floor, an    *)
(* alias in ext that the lane had overruled is read again and the bidder   *)
(* sees a higher floor.  It never sees a lower one (harness.go:270,        *)
(* compat.go:233-238).                                                     *)
(***************************************************************************)
Unfloored(r) ==
  [r EXCEPT !.rootHints = <<>>, !.supplies = {},
            !.imps = [i \in DOMAIN @ |-> [@[i] EXCEPT !.floor = 0]]]

ViewsAgree ==
  lane # None /\ view # None =>
    /\ Unfloored(view) = Unfloored(kept)
    /\ \A i \in DOMAIN kept.imps :
         \/ view.imps[i].floor = kept.imps[i].floor
         \/ kept.imps[i].floor = 0 /\ view.imps[i].floor > 0

(***************************************************************************)
(* A request that says it is child-directed, in regs or only in regs.ext,  *)
(* never gets a creative that is blocked for it, also after it has passed  *)
(* through the harness (compat.go:211-222, engine.go:313-319).             *)
(***************************************************************************)
SaysChildDirected(b) ==
  IF "coppa" \in DOMAIN b.signals THEN b.signals["coppa"] = "one"
  ELSE "coppa" \in DOMAIN b.alias /\ b.alias["coppa"] = "one"

ChildDirectedKept ==
  bid # None /\ SaysChildDirected(body) => ~bid.creative.blockedCOPPA

(***************************************************************************)
(* A bid a careful bidder makes on the request it has decoded is a         *)
(* candidate for the request the harness has kept, when the harness calls  *)
(* that bidder by its own buyer id and seat: currency, floor, deal, proof  *)
(* fields, identity and media survive the way there and back               *)
(* (harness.go:436-479).  The harness asks every bid for VAST when the     *)
(* first impression is of video or audio (harness.go:456), so a bid of     *)
(* another medium on a later impression is refused and excepted.           *)
(***************************************************************************)
CalledAsItself == buyer.id = engine.buyer /\ buyer.seat \in {"", bid.campaign.seat}

CarefulAnswersStand ==
  /\ lane # None /\ pc = "done" /\ bid # None
  /\ Careful(engine, bid) /\ CalledAsItself
  /\ FirstAsksForVAST(kept) => AsksForVAST(bid)
  => valid
=============================================================================
