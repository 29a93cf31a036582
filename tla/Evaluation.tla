------------------------------ MODULE Evaluation ------------------------------
(***************************************************************************)
(* The pure part of Engine.Bid: every rule evaluate asks of one campaign   *)
(* for one impression, the candidate it makes of them and the response     *)
(* built for a candidate.                                                  *)
(*                                                                         *)
(* Sets of tokens stand for the compiled string sets (empty: no limit),    *)
(* and prices count hundred-thousandths, one digit more than roundCPM      *)
(* keeps.  Strings are tokens and "" is the absent one; a size, duration   *)
(* or floor that is absent is 0.  A URL is "" or its kind: "http" for an   *)
(* absolute one, "malformed" for one that does not parse, anything else    *)
(* for one that is not absolute.                                           *)
(*                                                                         *)
(* e is the part of Config the response is built from: PublicEndpoint and  *)
(* BuyerID.                                                                *)
(***************************************************************************)
EXTENDS ResponseRules

CONSTANT Currency   (* Config.Currency *)

MediaTypes == {"video", "audio", "native", "display"}

(***************************************************************************)
(* What DecodeRequest and config.Load leave of requests and campaigns; the *)
(* modules RequestDecoding and ConfigRules show that they do.              *)
(***************************************************************************)
RequestAdmitted(r) ==
  /\ r.imps \in Seq(ToSet(r.imps))
  /\ \A i \in DOMAIN r.imps :
       /\ r.imps[i].media \in MediaTypes
       /\ \A j \in DOMAIN r.imps : r.imps[i].id = r.imps[j].id => i = j
       /\ r.imps[i].media = "native" =>
            r.imps[i].assets # <<>> /\ ValidAssets(r.imps[i].assets)
       /\ r.imps[i].minDur > 0 /\ r.imps[i].maxDur > 0 =>
            r.imps[i].minDur <= r.imps[i].maxDur
       /\ r.imps[i].pmp.deals \in Seq(ToSet(r.imps[i].pmp.deals))

EngineAdmitted(e) == ~Blank(e.buyer)

CampaignAdmitted(c) ==
  /\ ~Blank(c.id) /\ ~Blank(c.seat)
  /\ c.price \in Nat \ {0}
  /\ c.creatives \in Seq(ToSet(c.creatives))
  /\ \A k \in DOMAIN c.creatives :
       LET cr == c.creatives[k] IN
       /\ ~Blank(cr.id)
       /\ cr.media \in c.media
       /\ cr.adomain # <<>>
       /\ {cr.duration, cr.w, cr.h} \subseteq Nat

-----------------------------------------------------------------------------
(* The rules of evaluate. *)

CurrencyAccepted(r) == r.cur # {} => Currency \in r.cur

AllowedSupply(r, imp, c) ==
  /\ c.placements # {} => imp.tag \in c.placements
  /\ r.supply.kind = "app" =>
       /\ c.apps # {} => r.supply.id \in c.apps
       /\ c.bundles # {} => r.supply.bundle \in c.bundles
  /\ r.supply.kind = "site" =>
       (c.domains # {} => r.supply.domain \in c.domains)

(* Every creative of the campaign is asked, approved or not. *)
AllowedPrivacy(r, c) ==
  /\ r.coppa => \A cr \in ToSet(c.creatives) : ~cr.blockedCOPPA
  /\ r.lmt => \A cr \in ToSet(c.creatives) : ~cr.requiresIFA
  /\ c.countries # {} => r.country \in c.countries

(* matchDeal: the first deal of the impression that the campaign has. *)
KnownDeals(imp, c) == {k \in DOMAIN imp.pmp.deals : imp.pmp.deals[k].id \in c.deals}
NoDeal == [id |-> "", floor |-> 0, cur |-> ""]

MatchedDeal(imp, c) ==
  IF c.deals = {} THEN NoDeal ELSE imp.pmp.deals[Min(KnownDeals(imp, c))]

DealMatches(imp, c) ==
  IF c.deals = {}
  THEN ~imp.pmp.private
  ELSE KnownDeals(imp, c) # {} /\ MatchedDeal(imp, c).cur \in {"", Currency}

MeetsFloor(imp, c) ==
  /\ c.price >= imp.floor
  /\ c.price >= MatchedDeal(imp, c).floor
  /\ imp.floorCur \in {"", Currency}

(* Mutant: the device's advertising id is not asked for. *)
UsableWithoutIFA(r, imp, c) ==
  {k \in DOMAIN c.creatives : c.creatives[k].approved /\ c.creatives[k].media = imp.media}

(* The positions of the creatives chooseCreative may take; it takes the    *)
(* first.                                                                  *)
Usable(r, imp, c) ==
  {k \in DOMAIN c.creatives :
     LET cr == c.creatives[k]
     IN  cr.approved /\ cr.media = imp.media /\ (cr.requiresIFA => r.ifa)}

Chosen(r, imp, c) == c.creatives[Min(Usable(r, imp, c))]

(* assetMime: by the suffix of the asset URL. *)
AssetMime(cr, media) ==
  CASE cr.asset = "mp3" -> "audio/mpeg"
    [] cr.asset = "m4a" -> "audio/mp4"
    [] cr.asset = "ogg" -> "audio/ogg"
    [] cr.asset = "webm" -> IF media = "audio" THEN "audio/webm" ELSE "video/webm"
    [] cr.asset = "mov" -> "video/quicktime"
    [] OTHER -> IF media = "audio" THEN "audio/mpeg" ELSE "video/mp4"

CreativeMatches(imp, cr) ==
  /\ imp.media \in {"video", "audio"} =>
       /\ imp.mimes # {} => AssetMime(cr, imp.media) \in imp.mimes
       /\ DurationOK(imp, cr.duration)
  /\ imp.media \in {"video", "display"} => Fits(imp.w, cr.w) /\ Fits(imp.h, cr.h)

BlockedAdvertiser(r, cr) == ToSet(cr.adomain) \cap r.badv # {}

Eligible(r, imp, c) ==
  /\ c.enabled
  /\ CurrencyAccepted(r)
  /\ imp.media \in c.media
  /\ AllowedSupply(r, imp, c)
  /\ AllowedPrivacy(r, c)
  /\ DealMatches(imp, c)
  /\ MeetsFloor(imp, c)
  /\ Usable(r, imp, c) # {}
  /\ CreativeMatches(imp, Chosen(r, imp, c))
  /\ ~BlockedAdvertiser(r, Chosen(r, imp, c))

(* The impressions and campaigns a bid may come from: of the highest price. *)
EligiblePairs(r, cs) ==
  {p \in ToSet(r.imps) \X ToSet(cs) : Eligible(r, p[1], p[2])}

BestPairs(r, cs) ==
  {p \in EligiblePairs(r, cs) : \A q \in EligiblePairs(r, cs) : q[2].price <= p[2].price}

Candidate(r, imp, c) ==
  [campaign |-> c, imp |-> imp, creative |-> Chosen(r, imp, c),
   dealid |-> MatchedDeal(imp, c).id]

-----------------------------------------------------------------------------
(* Building the response. *)

AtLeast(n, least) == IF n > least THEN n ELSE least

DefaultDuration == 30

(* Mutant: the first asset of the request only. *)
FirstAssetId(imp) == {imp.assets[1].id}

(* NativeResponseAssetIDs: the required ones, or the first. *)
NativeAssetIds(imp) ==
  IF Required(imp) # {} THEN Required(imp) ELSE {imp.assets[1].id}

(***************************************************************************)
(* eventURL: a notice URL has the kind of its base, and there is none for  *)
(* a base that does not parse.                                             *)
(***************************************************************************)
EventURL(e, cr) ==
  LET base == IF cr.noticeBase # "" THEN cr.noticeBase ELSE e.public
  IN  IF base = "malformed" THEN "" ELSE base

(* A configured VAST may leave its impression to be filled in. *)
Macro == "{{IMPRESSION_URL}}"

FillIn(m, url) ==
  [vast |-> [root |-> m.vast.root, durations |-> m.vast.durations, files |-> m.vast.files,
             impression |-> IF m.vast.impression = Macro THEN url ELSE m.vast.impression],
   display |-> m.display, native |-> m.native]

(* renderMarkup: a configured markup is filled in, any other generated. *)
RenderMarkup(e, imp, cr) ==
  IF cr.markup # NoMarkup THEN FillIn(cr.markup, EventURL(e, cr))
  ELSE CASE imp.media \in {"video", "audio"} ->
              [NoMarkup EXCEPT !.vast =
                 [root |-> TRUE, impression |-> EventURL(e, cr),
                  durations |-> <<IF cr.duration > 0 THEN cr.duration ELSE DefaultDuration>>,
                  files |-> <<[type |-> AssetMime(cr, imp.media),
                               w |-> AtLeast(cr.w, 640), h |-> AtLeast(cr.h, 360)]>>]]
         [] imp.media = "native" ->
              [NoMarkup EXCEPT !.native =
                 [parses |-> TRUE, assets |-> NativeAssetIds(imp), link |-> TRUE]]
         [] OTHER -> [NoMarkup EXCEPT !.display = TRUE]

(* Mutant: the creative is named after its campaign. *)
BidExtOfCampaign(e, b) ==
  [present |-> TRUE, receipt |-> b.imp.proof.receipt, echo |-> b.imp.proof.echo,
   identity |-> [buyer_id |-> e.buyer, campaign_id |-> b.campaign.id,
                 creative_id |-> b.campaign.id]]

(* clearLedgerBidExt *)
BidExt(e, b) ==
  [present |-> TRUE, receipt |-> b.imp.proof.receipt, echo |-> b.imp.proof.echo,
   identity |-> [buyer_id |-> e.buyer, campaign_id |-> b.campaign.id,
                 creative_id |-> b.creative.id]]

(* roundCPM: to the nearest ten thousandth. *)
RoundCPM(p) == ((p + 5) \div 10) * 10

BidFor(e, b) ==
  [id |-> "bid", impid |-> b.imp.id, price |-> RoundCPM(b.campaign.price),
   crid |-> b.creative.id, adomain |-> b.creative.adomain, dealid |-> b.dealid,
   adm |-> RenderMarkup(e, b.imp, b.creative),
   nurl |-> EventURL(e, b.creative), burl |-> EventURL(e, b.creative),
   lurl |-> EventURL(e, b.creative),
   w |-> b.creative.w, h |-> b.creative.h, ext |-> BidExt(e, b)]

ResponseFor(e, r, b) ==
  [id |-> r.id, cur |-> Currency,
   seatbid |-> <<[seat |-> b.campaign.seat, bids |-> <<BidFor(e, b)>>]>>]

(***************************************************************************)
(* What the engine counts on the configuration for: a price of four        *)
(* decimals, domains that are not blank, notice URLs that are absolute and *)
(* present where the VAST needs one for its impression, deals where the    *)
(* impression lists any (and no dearer deal than the one it matches), and  *)
(* an ad that says what the request asks for where the engine does not     *)
(* look: a configured markup that is valid itself, a duration, a size that *)
(* is not raised to 640x360.                                               *)
(***************************************************************************)
AsksForVAST(b) == b.imp.media \in {"video", "audio"}
GeneratesVAST(b) == AsksForVAST(b) /\ b.creative.markup = NoMarkup
FillsImpression(b) ==
  AsksForVAST(b) /\ (b.creative.markup = NoMarkup \/ b.creative.markup.vast.impression = Macro)

Careful(e, b) ==
  /\ b.campaign.price % 10 = 0
  /\ "" \notin ToSet(b.creative.adomain)
  /\ EventURL(e, b.creative) \in {"", "http"}
  /\ FillsImpression(b) => EventURL(e, b.creative) # ""
  /\ ListedDeals(b.imp) # {} =>
       b.campaign.deals # {} /\ \A f \in ListedFloors(b.imp) : b.campaign.price >= f
  /\ GeneratesVAST(b) =>
       /\ b.creative.duration > 0
       /\ b.imp.w > 0 => b.creative.w >= 640
       /\ b.imp.h > 0 => b.creative.h >= 360
  /\ b.creative.markup # NoMarkup =>
       ValidMarkup(b.imp, b.creative.markup) /\ ValidSize(b.imp, BidFor(e, b))
=============================================================================
