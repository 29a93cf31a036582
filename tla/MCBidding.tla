------------------------------ MODULE MCBidding ------------------------------
(***************************************************************************)
(* Requests and portfolios for Bidding.  Each family varies what one group *)
(* of rules looks at and leaves the rest open; an instance crosses the     *)
(* requests with the portfolios it names.                                  *)
(***************************************************************************)
EXTENDS Bidding

NoEcho == [k \in EchoedKeys |-> ""]
NoProof == [receipt |-> FALSE, echo |-> NoEcho]
Echo == [NoEcho EXCEPT !.lane_id = "lane", !.proof_run_id = "run"]
NoPMP == [private |-> FALSE, deals |-> <<>>]

OpenImp ==
  [id |-> "i1", media |-> "display", floor |-> 0, floorCur |-> "", pmp |-> NoPMP,
   tag |-> "t1", mimes |-> {}, minDur |-> 0, maxDur |-> 0, w |-> 0, h |-> 0,
   assets |-> <<>>, proof |-> NoProof]

App == [kind |-> "app", id |-> "a1", bundle |-> "b1", domain |-> ""]
Site == [kind |-> "site", id |-> "", bundle |-> "", domain |-> "d1"]

OpenRequest ==
  [id |-> "r", cur |-> {}, supply |-> App, coppa |-> FALSE, lmt |-> FALSE,
   ifa |-> TRUE, country |-> "c1", badv |-> {}, imps |-> <<OpenImp>>]

OpenCreative ==
  [id |-> "cr1", media |-> "display", approved |-> TRUE, requiresIFA |-> FALSE,
   blockedCOPPA |-> FALSE, adomain |-> <<"adv1">>, asset |-> "", duration |-> 15,
   w |-> 0, h |-> 0, markup |-> NoMarkup, noticeBase |-> ""]

OpenCampaign ==
  [id |-> "c1", enabled |-> TRUE, seat |-> "s", price |-> 120, media |-> MediaTypes,
   apps |-> {}, bundles |-> {}, domains |-> {}, placements |-> {}, deals |-> {},
   countries |-> {}, creatives |-> <<OpenCreative>>]

On(imp) == [OpenRequest EXCEPT !.imps = <<imp>>]
With(cr) == [OpenCampaign EXCEPT !.creatives = <<cr>>]

-----------------------------------------------------------------------------
(* Prices, floors, currencies and deals. *)
Deal(id, floor, cur) == [id |-> id, floor |-> floor, cur |-> cur]

PriceRequests ==
  {[On([OpenImp EXCEPT !.floor = f, !.floorCur = fc,
                       !.pmp = [private |-> p, deals |-> ds]])
      EXCEPT !.cur = cur] :
     f \in {0, 104}, fc \in {"", "eur"}, p \in BOOLEAN, cur \in {{"eur"}, {"usd", "eur"}},
     ds \in {<<>>, <<Deal("A", 110, "usd")>>,
             <<Deal("B", 120, ""), Deal("A", 0, "eur")>>,
             <<Deal("A", 100, ""), Deal("B", 130, "")>>}}

PricePortfolios ==
  {<<[OpenCampaign EXCEPT !.price = p, !.deals = ds]>> :
     p \in {3, 104, 110, 120}, ds \in {{}, {"A"}, {"A", "B"}}}

-----------------------------------------------------------------------------
(* Media: types, durations and sizes, assets, configured markups. *)
Assets == {<<[id |-> 2, required |-> FALSE]>>,
           <<[id |-> 2, required |-> FALSE], [id |-> 3, required |-> TRUE],
             [id |-> 4, required |-> TRUE]>>}

MediaRequests ==
  {On([OpenImp EXCEPT !.media = m, !.mimes = mimes, !.minDur = d[1], !.maxDur = d[2],
                      !.w = size[1], !.h = size[2]]) :
     m \in {"video", "audio"}, mimes \in {{}, {"video/mp4", "audio/mpeg"}},
     d \in {<<0, 0>>, <<10, 20>>}, size \in {<<0, 0>>, <<640, 360>>, <<320, 0>>}}
  \cup {On([OpenImp EXCEPT !.w = w, !.h = 250]) : w \in {0, 320}}
  \cup {On([OpenImp EXCEPT !.media = "native", !.assets = a,
                           !.proof = [receipt |-> r, echo |-> Echo]]) :
          a \in Assets, r \in BOOLEAN}

Configured ==
  [NoMarkup EXCEPT !.display = TRUE,
                   !.vast = [root |-> TRUE, impression |-> "pixel", durations |-> <<15>>,
                             files |-> <<[type |-> "video/mp4", w |-> 0, h |-> 360],
                                         [type |-> "video/webm", w |-> 640, h |-> 480]>>]]

Macroed == [Configured EXCEPT !.vast.impression = Macro]

MediaPortfolios ==
  {<<With([OpenCreative EXCEPT !.media = m, !.asset = a, !.duration = d,
                               !.w = size[1], !.h = size[2], !.markup = mk])>> :
     m \in {"video", "audio"}, a \in {"mp4", "webm"}, d \in {0, 15, 30},
     size \in {<<0, 0>>, <<640, 360>>, <<320, 0>>}, mk \in {NoMarkup, Configured}}
  \cup {<<With([OpenCreative EXCEPT !.media = "video", !.asset = "mp4", !.markup = mk,
                                    !.noticeBase = base])>> :
          mk \in {NoMarkup, Configured, Macroed}, base \in {"", "http", "relative", "malformed"}}
  \cup {<<With([OpenCreative EXCEPT !.media = m, !.w = w, !.markup = mk,
                                    !.noticeBase = base, !.adomain = ad])>> :
          m \in {"native", "display"}, w \in {0, 320}, mk \in {NoMarkup, Configured},
          base \in {"", "relative"}, ad \in {<<"adv1">>, <<"adv1", "">>}}

-----------------------------------------------------------------------------
(* Supply, privacy and blocked advertisers. *)
TargetRequests ==
  {[OpenRequest EXCEPT !.supply = s, !.coppa = c, !.lmt = l, !.ifa = i, !.country = g,
                       !.badv = b] :
     s \in {App, Site}, c \in BOOLEAN, l \in BOOLEAN, i \in BOOLEAN, g \in {"", "c1"},
     b \in {{}, {"adv2"}}}

Guarded(id, approved, ifa, coppa, adv) ==
  [OpenCreative EXCEPT !.id = id, !.approved = approved, !.requiresIFA = ifa,
                       !.blockedCOPPA = coppa, !.adomain = <<adv>>]

TargetPortfolios ==
  {<<[OpenCampaign EXCEPT
        !.creatives = <<Guarded("cr1", ap, ifa, coppa, "adv1"),
                        Guarded("cr2", TRUE, FALSE, FALSE, "adv2")>>,
        !.apps = t.apps, !.domains = t.domains, !.countries = t.countries]>> :
     ap \in BOOLEAN, ifa \in BOOLEAN, coppa \in BOOLEAN,
     t \in {[apps |-> {}, domains |-> {}, countries |-> {}],
            [apps |-> {"a2"}, domains |-> {"d1"}, countries |-> {}],
            [apps |-> {}, domains |-> {"d2"}, countries |-> {"c1"}]}}

-----------------------------------------------------------------------------
(* Several impressions and campaigns, prices equal and not. *)
ManyRequests ==
  {[OpenRequest EXCEPT !.imps =
      <<[OpenImp EXCEPT !.floor = f[1], !.tag = tags[1]],
        [OpenImp EXCEPT !.id = "i2", !.floor = f[2], !.tag = tags[2]]>>] :
     f \in {0, 110} \X {0, 110}, tags \in {"t1", "t2"} \X {"t1", "t2"}}

ManyPortfolios ==
  {[i \in 1 .. 3 |-> [OpenCampaign EXCEPT !.id = <<"c1", "c2", "c3">>[i], !.price = p[i],
                                          !.placements = tag[i], !.enabled = (i # off)]] :
     p \in [1 .. 3 -> {100, 120}], tag \in {<<{}, {}, {}>>, <<{"t2"}, {}, {}>>, <<{}, {"t2"}, {"t2"}>>}, off \in {0, 2}}

-----------------------------------------------------------------------------
(* With and without a public endpoint to build notice URLs on. *)
MCEngines == {[public |-> p, buyer |-> "buyer"] : p \in {"", "http"}}

MCRequests == PriceRequests \cup MediaRequests \cup TargetRequests \cup ManyRequests
MCPortfolios == PricePortfolios \cup MediaPortfolios \cup TargetPortfolios \cup ManyPortfolios
=============================================================================
