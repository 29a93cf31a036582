------------------------------- MODULE MCRelay -------------------------------
(***************************************************************************)
(* Bodies, lanes and portfolios for Relay.  Each family of bodies varies   *)
(* what one part of the decoder looks at.                                  *)
(***************************************************************************)
EXTENDS Relay

NoEcho == [k \in EchoedKeys |-> ""]
NoNativeRequest == [json |-> FALSE, ver |-> "", version |-> ""]
App == [kind |-> "app", id |-> "a1", bundle |-> "b1", domain |-> ""]
Site == [kind |-> "site", id |-> "", bundle |-> "", domain |-> "d1"]
NoSignals == [k \in {} |-> ""]
Deal(id, floor) == [id |-> id, floor |-> floor, cur |-> ""]

Imp(id, object) ==
  [id |-> id, objects |-> {object}, media |-> "", floor |-> 0, floorCur |-> "",
   extFloors |-> <<>>, extCurs |-> <<>>, tag |-> "t1",
   pmp |-> [private |-> FALSE, deals |-> <<>>], mimes |-> {}, minDur |-> 0, maxDur |-> 0,
   placement |-> 0, plcmt |-> 0, w |-> 0, h |-> 0, native |-> NoNativeRequest, assets |-> <<>>,
   proof |-> [receipt |-> FALSE, echo |-> NoEcho]]

Banner == Imp("i1", "banner")
Video == [Imp("i1", "video") EXCEPT !.maxDur = 20, !.plcmt = 1]
Native(version, assets) ==
  [Imp("i1", "native") EXCEPT !.native = [json |-> TRUE, ver |-> "", version |-> version],
                              !.assets = assets]
Asset(id) == [id |-> id, required |-> TRUE]

Body(imps) ==
  [parses |-> TRUE, id |-> "r", cur |-> {}, tmax |-> 0, supplies |-> {App}, supply |-> NoSupply,
   coppa |-> FALSE, lmt |-> FALSE, ifa |-> TRUE, country |-> "", badv |-> {},
   rootHints |-> <<>>, extHints |-> <<>>, signals |-> NoSignals, alias |-> NoSignals, imps |-> imps]

-----------------------------------------------------------------------------
Versions ==
  {[Body(<<Banner>>) EXCEPT !.rootHints = r, !.extHints = e] :
     r \in {<<>>, <<"", "2.5">>, <<"2.4">>, <<"1.0">>}, e \in {<<>>, <<"2.6">>, <<"2.3", "2.6">>}}

Coppa(values) == {NoSignals} \cup {[k \in {"coppa"} |-> v] : v \in values}

Privacy ==
  {[Body(<<Banner>>) EXCEPT !.signals = s, !.alias = a] :
     s \in Coppa({"zero", "one", "text1"}), a \in Coppa({"one", "zero"})}
  \cup {[Body(<<Banner>>) EXCEPT !.signals = [k \in {"consent"} |-> c],
                                 !.alias = [k \in {"consent", "schain"} |-> a]] :
          c \in {"empty", "text"}, a \in {"empty", "object"}}

Floors ==
  {Body(<<[Banner EXCEPT !.floor = f, !.floorCur = c, !.extFloors = ef, !.extCurs = ec,
                         !.pmp.deals = ds]>>) :
     f \in {0, 50, -1}, c \in {"", "usd"}, ef \in {<<>>, <<80>>, <<0, 110>>, <<150>>},
     ec \in {<<>>, <<"eur">>}, ds \in {<<>>, <<Deal("A", 90)>>, <<Deal("", 0)>>}}

Media ==
  {Body(<<i>>) :
     i \in {[Video EXCEPT !.minDur = d, !.placement = p] : d \in {0, 10, 30}, p \in {0, 3}}
           \cup {Native(v, a) : v \in {"", "1.2"},
                                a \in {<<>>, <<Asset(2), Asset(3)>>, <<Asset(2), Asset(2)>>}}
           \cup {[Banner EXCEPT !.objects = o] : o \in {{}, {"banner", "video"}}}
           \cup {[Banner EXCEPT !.id = ""], [Imp("i1", "native") EXCEPT !.assets = <<Asset(1)>>]}}

Shapes ==
  {[Body(<<Banner>>) EXCEPT !.id = ""], [Body(<<Banner>>) EXCEPT !.parses = FALSE],
   [Body(<<Banner>>) EXCEPT !.tmax = -1], [Body(<<Banner>>) EXCEPT !.supplies = {App, Site}],
   [Body(<<Banner>>) EXCEPT !.supplies = {Site}], Body(<<>>),
   Body(<<Banner, Video>>), Body(<<Video, [Banner EXCEPT !.id = "i2"]>>),
   Body(<<Banner, [Video EXCEPT !.id = "i2", !.extFloors = <<80>>]>>)}

MCBodies == Versions \cup Privacy \cup Floors \cup Media \cup Shapes

-----------------------------------------------------------------------------
MCEngines == {[public |-> p, buyer |-> "buyer"] : p \in {"", "http"}}

Buyer(id, seat) == [id |-> id, seat |-> seat]

Lane(floor, deal, placements) ==
  [id |-> "lane", market |-> "pm", package |-> "pk", active |-> TRUE, floor |-> floor,
   cur |-> "usd", formats |-> {"display", "video", "native"}, placements |-> placements,
   bundles |-> <<"b">>, deal |-> deal, requireAdomain |-> TRUE, buyers |-> <<Buyer("buyer", "")>>]

MCLanes ==
  {Lane(0, "", <<>>), Lane(-1, "", <<>>),
   [Lane(100, "D", <<"t">>) EXCEPT
      !.buyers = <<Buyer("buyer", "s"), Buyer("buyer", "s0"), Buyer("other", "s")>>],
   [Lane(100, "", <<>>) EXCEPT !.formats = {"display"}]}

Creative(media, blocked) ==
  [id |-> media, media |-> media, approved |-> TRUE, requiresIFA |-> FALSE,
   blockedCOPPA |-> blocked, adomain |-> <<"adv">>, asset |-> "", duration |-> 15,
   w |-> 0, h |-> 0, markup |-> NoMarkup, noticeBase |-> ""]

Campaign(id, price, deals, blocked) ==
  [id |-> id, enabled |-> TRUE, seat |-> "s", price |-> price, media |-> MediaTypes,
   apps |-> {}, bundles |-> {}, domains |-> {}, placements |-> {}, deals |-> deals,
   countries |-> {},
   creatives |-> <<Creative("display", blocked), Creative("video", FALSE), Creative("native", FALSE)>>]

MCPortfolios ==
  {<<Campaign("c1", 120, {}, blocked), Campaign("c2", p, {"A", "D"}, FALSE)>> :
     blocked \in BOOLEAN, p \in {100, 120}}
  \cup {<<Campaign("c3", 90, {}, FALSE)>>}
=============================================================================
