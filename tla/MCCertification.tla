--------------------------- MODULE MCCertification ---------------------------
(***************************************************************************)
(* Samples, settings and options for Certification: a portfolio of a       *)
(* display and a video campaign, and one thing at a time that is different *)
(* in it or in the way it is certified.                                    *)
(***************************************************************************)
EXTENDS Certification

App == [kind |-> "app", id |-> "a1", bundle |-> "b1", domain |-> ""]
NoSignals == [k \in {} |-> ""]

Imp(id, object) ==
  [id |-> id, objects |-> {object}, media |-> "", floor |-> 0, floorCur |-> "",
   extFloors |-> <<>>, extCurs |-> <<>>, tag |-> "t1",
   pmp |-> [private |-> FALSE, deals |-> <<>>], mimes |-> {}, minDur |-> 0, maxDur |-> 0,
   placement |-> 0, plcmt |-> 0, w |-> 0, h |-> 0,
   native |-> [json |-> FALSE, ver |-> "", version |-> ""], assets |-> <<>>,
   proof |-> [receipt |-> FALSE, echo |-> [k \in EchoedKeys |-> ""]]]

Body(imps) ==
  [parses |-> TRUE, id |-> "r", cur |-> {}, tmax |-> 0, supplies |-> {App},
   supply |-> [kind |-> "", id |-> "", bundle |-> "", domain |-> ""],
   coppa |-> FALSE, lmt |-> FALSE, ifa |-> TRUE, country |-> "", badv |-> {},
   rootHints |-> <<>>, extHints |-> <<>>, signals |-> NoSignals, alias |-> NoSignals, imps |-> imps]

DisplaySample == Body(<<[Imp("i1", "banner") EXCEPT !.floor = 50]>>)
VideoSample == Body(<<[Imp("i1", "video") EXCEPT !.maxDur = 30]>>)
TwoImps == Body(<<Imp("i1", "video"), Imp("i2", "banner")>>)
Native == Body(<<[Imp("i1", "native") EXCEPT !.native.json = TRUE,
                                             !.assets = <<[id |-> 1, required |-> TRUE]>>]>>)
Broken == [VideoSample EXCEPT !.parses = FALSE]

MCSamples == {DisplaySample, VideoSample, TwoImps, Native, Broken, Missing}

Pair(video, display) == [p \in {"video", "display"} |-> IF p = "video" THEN video ELSE display]

-----------------------------------------------------------------------------
Creative(media) ==
  [id |-> media, media |-> media, approved |-> TRUE, requiresIFA |-> FALSE,
   blockedCOPPA |-> FALSE, adomain |-> <<"adv">>, asset |-> "mp4", landing |-> "http",
   markup |-> NoMarkup, duration |-> 20, w |-> 640, h |-> 360, noticeBase |-> "http"]

Raw(id, price, media) ==
  [id |-> id, enabled |-> TRUE, seat |-> "", price |-> price, budget |-> 0, tolerance |-> 0,
   qps |-> 0, pacing |-> "", media |-> media, apps |-> <<>>, bundles |-> <<"">>,
   domains |-> <<>>, placements |-> <<>>, deals |-> <<>>, countries |-> <<>>,
   creatives |-> [k \in DOMAIN media |-> Creative(media[k])]]

URL(path) == [set |-> TRUE, kind |-> "http", host |-> "bidder", path |-> path]

Base ==
  [env |-> [token |-> Word("tok"), secret |-> Empty, requireAuth |-> "", requireSignature |-> "",
            skew |-> <<>>, accepted |-> <<>>, outbound |-> "", openrtb |-> NoURL,
            public |-> URL(<<>>), buyer |-> "", seat |-> ""],
   file |-> [accepted |-> <<>>, outbound |-> "", openrtb |-> NoURL, public |-> NoURL,
             buyer |-> "", seat |-> "",
             campaigns |-> <<Raw("c1", 100, <<"video">>), Raw("c2", 60, <<"banner", "native">>)>>]]

FirstAs(c) == [Base EXCEPT !.file.campaigns[1] = c]
C1 == Raw("c1", 100, <<"video">>)

(* The notice URLs of the video are below the public endpoint. *)
OwnNotices == FirstAs([C1 EXCEPT !.creatives[1].noticeBase = ""])

Settings ==
  {Base, [Base EXCEPT !.env.secret = Word("key")], [Base EXCEPT !.env.token = Empty],
   [Base EXCEPT !.env.requireSignature = "true"], [Base EXCEPT !.env.accepted = <<"2.4">>],
   [Base EXCEPT !.env.openrtb = URL(<<"openrtb", "">>)],
   [Base EXCEPT !.env.openrtb = URL(<<"events", "won">>)],
   [Base EXCEPT !.file.campaigns = <<>>],
   FirstAs([C1 EXCEPT !.id = "c2"]), FirstAs([C1 EXCEPT !.enabled = FALSE]),
   FirstAs([C1 EXCEPT !.price = 0]), FirstAs([C1 EXCEPT !.price = 100000]),
   FirstAs([C1 EXCEPT !.bundles = <<"b2">>]), FirstAs([C1 EXCEPT !.media = <<"display">>]),
   FirstAs([C1 EXCEPT !.media = <<"popup">>]), FirstAs([C1 EXCEPT !.qps = -1]),
   FirstAs([C1 EXCEPT !.creatives[1].adomain = <<>>]),
   FirstAs([C1 EXCEPT !.creatives[1].adomain = <<"">>]),
   FirstAs([C1 EXCEPT !.creatives[1].approved = FALSE]),
   FirstAs([C1 EXCEPT !.creatives[1].asset = ""]),
   FirstAs([C1 EXCEPT !.creatives[1].duration = 0]),
   OwnNotices, [OwnNotices EXCEPT !.env.public = NoURL, !.env.openrtb = URL(<<"openrtb">>)],
   [OwnNotices EXCEPT !.env.public.kind = "malformed"]}

MCSituations ==
  {[files |-> Pair(VideoSample, DisplaySample), setting |-> s] : s \in Settings}
  \cup {[files |-> Pair(v, d), setting |-> s] :
          v \in MCSamples, d \in {DisplaySample, Native}, s \in {Base, None}}

Own == [kind |-> "certify", token |-> Word("tok"), secret |-> Empty, version |-> "",
        buyer |-> "", seat |-> ""]

MCTools ==
  {Own, [Own EXCEPT !.secret = Word("key")], [Own EXCEPT !.token = Empty],
   [Own EXCEPT !.version = "2.4"], [Own EXCEPT !.version = "1.0"], [Own EXCEPT !.buyer = "other"]}

MCPaths == <<"video", "display">>
=============================================================================
