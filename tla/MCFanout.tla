------------------------------ MODULE MCFanout -------------------------------
(***************************************************************************)
(* Instances of Fanout: three buyers of one lane (one of them listed       *)
(* twice, one that takes no display), a lane that is not active, samples   *)
(* of one and of two impressions, and what the buyers may answer.          *)
(***************************************************************************)
EXTENDS Fanout

MCBuyerRank == [b1 |-> 1, b2 |-> 2, b3 |-> 3]

BuyerOf(id, formats) ==
  [id |-> id, seat |-> "s", approved |-> TRUE, endpoint |-> TRUE, protocol |-> TRUE,
   formats |-> formats]

LaneOf(bs) ==
  [id |-> "lane", market |-> "pm", package |-> "pk", active |-> TRUE, floor |-> 100,
   cur |-> "usd", formats |-> {"video", "display"}, placements |-> <<"t">>,
   bundles |-> <<"b">>, deal |-> "D", requireAdomain |-> TRUE, buyers |-> bs]

Pair == <<BuyerOf("b2", {}), BuyerOf("b1", {"video", "display"})>>
Trio == <<BuyerOf("b2", {}), BuyerOf("b3", {"video"}), BuyerOf("b1", {})>>
Twice == <<BuyerOf("b1", {}), BuyerOf("b1", {})>>
Mixed == <<[BuyerOf("b3", {}) EXCEPT !.approved = FALSE], BuyerOf("b1", {}),
           [BuyerOf("b2", {}) EXCEPT !.protocol = FALSE]>>
Paused == [LaneOf(Pair) EXCEPT !.active = FALSE, !.market = "pm0"]

Open == [LaneOf(Pair) EXCEPT !.deal = "", !.placements = <<>>]

MCManifests == {<<LaneOf(Pair)>>, <<LaneOf(Trio)>>, <<LaneOf(Twice)>>, <<LaneOf(Mixed)>>, <<Open>>,
                <<Paused, LaneOf(Pair)>>,
                <<[LaneOf(Pair) EXCEPT !.formats = {"audio"}]>>,
                <<[LaneOf(Pair) EXCEPT !.buyers = <<>>]>>}

-----------------------------------------------------------------------------
NoEcho == [k \in EchoedKeys |-> ""]

Imp(id, media) ==
  [id |-> id, media |-> media, floor |-> 50, floorCur |-> "", tag |-> "t0",
   pmp |-> [private |-> FALSE, deals |-> <<>>], mimes |-> {}, minDur |-> 0, maxDur |-> 0,
   w |-> 0, h |-> 0, assets |-> <<>>, proof |-> [receipt |-> FALSE, echo |-> NoEcho]]

App == [kind |-> "app", id |-> "a", bundle |-> "b0", domain |-> ""]
Sample(imps) == [id |-> "r", cur |-> {}, supply |-> App, imps |-> imps]

OneImp == {Sample(<<Imp("i1", "video")>>), Sample(<<Imp("i1", "display")>>)}
TwoImps == {Sample(<<Imp("i1", "video"), Imp("i2", "display")>>),
            Sample(<<Imp("i1", "display"), Imp("i2", "video")>>)}

MCSamples == OneImp \cup TwoImps

-----------------------------------------------------------------------------
VideoAd ==
  [NoMarkup EXCEPT !.vast = [root |-> TRUE, impression |-> "pixel", durations |-> <<15>>,
                             files |-> <<[type |-> "video/mp4", w |-> 0, h |-> 0]>>]]
AnyAd == [VideoAd EXCEPT !.display = TRUE]
DisplayAd == [NoMarkup EXCEPT !.display = TRUE]

LaneEcho == [lane_id |-> "lane", private_market_id |-> "pm", package_id |-> "pk",
             placement_id |-> "t", proof_run_id |-> "run"]

BidOf(buyer, id, imp, price) ==
  [id |-> id, impid |-> imp, price |-> price, crid |-> "cr", adomain |-> <<"adv">>,
   dealid |-> "D", adm |-> AnyAd, nurl |-> "", burl |-> "", lurl |-> "", w |-> 0, h |-> 0,
   ext |-> [present |-> TRUE, receipt |-> TRUE, echo |-> LaneEcho,
            identity |-> [buyer_id |-> buyer, campaign_id |-> "c", creative_id |-> "cr"]]]

Resp(bids) == [id |-> "r", cur |-> "usd", seatbid |-> <<[seat |-> "s", bids |-> bids]>>]
Answer(resp) == [kind |-> "response", resp |-> resp]
Failing == {[kind |-> k, resp |-> None] : k \in Kinds \ {"response"}}

Good(b) == BidOf(b, "x", "i1", 100)

MCAnswers ==
  Failing
  \cup {Answer(Resp(<<BidOf(b, "x", "i1", p)>>)) : b \in {"b1", "b2"}, p \in {99, 100, 110}}
  \cup {Answer([Resp(<<Good("b1")>>) EXCEPT !.cur = ""]),
        Answer([Resp(<<Good("b1")>>) EXCEPT !.seatbid[1].seat = "other"]),
        Answer(Resp(<<[Good("b1") EXCEPT !.adm = DisplayAd]>>)),
        Answer(Resp(<<[Good("b2") EXCEPT !.dealid = ""]>>)),
        Answer(Resp(<<[Good("b2") EXCEPT !.ext.echo.lane_id = "else"]>>)),
        Answer(Resp(<<>>))}
  \cup {Answer(Resp(<<BidOf(b, "y", "i2", p), Good(b)>>)) : b \in {"b1", "b2"}, p \in {60, 120}}
  \cup {Answer(Resp(<<Good(b), BidOf(b, "y", "i2", p)>>)) : b \in {"b1", "b2"}, p \in {60, 120}}
  \cup {Answer(Resp(<<[BidOf("b1", "y", "i2", 120) EXCEPT !.adm = DisplayAd]>>))}
=============================================================================
