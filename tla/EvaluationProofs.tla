-------------------------- MODULE EvaluationProofs --------------------------
(***************************************************************************)
(* Proofs about Evaluation: what the engine chooses, and why a careful     *)
(* bid passes the validator, for any request and any campaign.             *)
(***************************************************************************)
EXTENDS RequestDecoding, Evaluation, FiniteSetTheorems, SequenceTheorems, WellFoundedInduction, TLAPS

-----------------------------------------------------------------------------
(***************************************************************************)
(* Choosing.  What "the first that may be taken" is, for a creative and    *)
(* for a deal.                                                             *)
(***************************************************************************)
LEMMA MinIsLeast ==
  ASSUME NEW S \in SUBSET Nat, S # {}
  PROVE  Min(S) \in S /\ \A k \in S : Min(S) <= k
<1>1. PICK m \in S : \A k \in S : <<k, m>> \notin OpToRel(<, Nat)
  BY NatLessThanWellFounded, WFMin
<1>2. \A k \in S : ~(k < m)
  BY <1>1, Zenon DEF OpToRel
<1>3. \A k \in S : m <= k
  BY <1>2
<1> QED
  BY <1>3, Zenon DEF Min

LEMMA ChosenIsUsable ==
  ASSUME NEW r, NEW imp, NEW c, c.creatives \in Seq(ToSet(c.creatives)),
         Usable(r, imp, c) # {}
  PROVE  LET cr == Chosen(r, imp, c)
         IN  /\ cr \in ToSet(c.creatives)
             /\ cr.approved
             /\ cr.media = imp.media
             /\ cr.requiresIFA => r.ifa
<1>1. DOMAIN c.creatives = 1 .. Len(c.creatives) /\ Len(c.creatives) \in Nat
  OBVIOUS
<1>2. Usable(r, imp, c) \in SUBSET Nat
  BY <1>1 DEF Usable
<1>3. Min(Usable(r, imp, c)) \in Usable(r, imp, c)
  BY <1>2, MinIsLeast
<1> QED
  BY <1>3, Zenon DEF Usable, Chosen, ToSet

(* What the rules of Evaluate say of the creative of an eligible pair. *)
LEMMA EligibleCreative ==
  ASSUME NEW r, NEW imp, NEW c, c.creatives \in Seq(ToSet(c.creatives)), Eligible(r, imp, c)
  PROVE  LET cr == Chosen(r, imp, c)
         IN  /\ cr.approved
             /\ cr.requiresIFA => r.ifa /\ ~r.lmt
             /\ cr.blockedCOPPA => ~r.coppa
             /\ \A d \in ToSet(cr.adomain) : d \notin r.badv
<1> DEFINE cr == Chosen(r, imp, c)
<1>1. /\ Usable(r, imp, c) # {}
      /\ AllowedPrivacy(r, c)
      /\ ~BlockedAdvertiser(r, cr)
  BY Zenon DEF Eligible
<1>2. cr \in ToSet(c.creatives) /\ cr.approved /\ (cr.requiresIFA => r.ifa)
  BY <1>1, ChosenIsUsable
<1>3. (cr.requiresIFA => ~r.lmt) /\ (cr.blockedCOPPA => ~r.coppa)
  BY <1>1, <1>2, Zenon DEF AllowedPrivacy
<1>4. \A d \in ToSet(cr.adomain) : d \notin r.badv
  BY <1>1 DEF BlockedAdvertiser
<1> QED
  BY <1>2, <1>3, <1>4

-----------------------------------------------------------------------------
(***************************************************************************)
(* Validity.  Each rule of ValidateBidResponse follows from one the engine *)
(* asks, from what it renders, or from what a careful configuration adds.  *)
(***************************************************************************)
RequestImp(r, imp) == RequestAdmitted(r) /\ imp \in ToSet(r.imps)

LEMMA AdmittedImp ==
  ASSUME NEW r, NEW imp, RequestImp(r, imp)
  PROVE  /\ imp.media \in MediaTypes
         /\ imp.media = "native" => ValidAssets(imp.assets)
         /\ imp.pmp.deals \in Seq(ToSet(imp.pmp.deals))
<1>1. PICK i \in DOMAIN r.imps : imp = r.imps[i]
  BY DEF RequestImp, ToSet
<1> QED
  BY <1>1 DEF RequestImp, RequestAdmitted

LEMMA AdmittedCreative ==
  ASSUME NEW r, NEW imp, NEW c, CampaignAdmitted(c), Usable(r, imp, c) # {}
  PROVE  LET cr == Chosen(r, imp, c)
         IN  /\ ~Blank(cr.id)
             /\ cr.media = imp.media
             /\ cr.adomain # <<>>
             /\ cr.duration \in Nat /\ cr.w \in Nat /\ cr.h \in Nat
<1> DEFINE cr == Chosen(r, imp, c)
<1>1. c.creatives \in Seq(ToSet(c.creatives))
  BY DEF CampaignAdmitted
<1>2. cr \in ToSet(c.creatives) /\ cr.media = imp.media
  BY <1>1, ChosenIsUsable
<1>3. PICK k \in DOMAIN c.creatives : cr = c.creatives[k]
  BY <1>2 DEF ToSet
<1> QED
  BY <1>2, <1>3 DEF CampaignAdmitted

(* What a video or audio ad that the engine writes itself says. *)
LEMMA MimeIsNamed ==
  ASSUME NEW cr, NEW media
  PROVE  ~Blank(AssetMime(cr, media))
<1>1. AssetMime(cr, media) \in {"audio/mpeg", "audio/mp4", "audio/ogg", "audio/webm",
                                "video/webm", "video/quicktime", "video/mp4"}
  BY DEF AssetMime
<1> QED
  BY <1>1, Zenon DEF Blank

LEMMA SizeOfOne ==
  ASSUME NEW v, NEW f, v.files = <<f>>, f.w # 0, f.h # 0
  PROVE  MediaWidth(v) = f.w /\ MediaHeight(v) = f.h
<1> DEFINE ws == [i \in DOMAIN v.files |-> v.files[i].w]
           hs == [i \in DOMAIN v.files |-> v.files[i].h]
<1>1. /\ DOMAIN ws = {1} /\ ws[1] = f.w
      /\ DOMAIN hs = {1} /\ hs[1] = f.h
  OBVIOUS
<1>2. {i \in DOMAIN ws : ws[i] # 0} = {1} /\ {i \in DOMAIN hs : hs[i] # 0} = {1}
  BY <1>1
<1>3. Min({1}) = 1
  <2>1. Min({1}) \in {1}
    BY MinIsLeast
  <2> QED
    BY <2>1
<1>4. FirstNonZero(ws) = f.w /\ FirstNonZero(hs) = f.h
  <2> HIDE DEF ws, hs
  <2> QED
    BY <1>1, <1>2, <1>3 DEF FirstNonZero
<1> QED
  BY <1>4 DEF MediaWidth, MediaHeight

LEMMA AtLeastIsMax ==
  ASSUME NEW n \in Nat, NEW least \in Nat \ {0}
  PROVE  AtLeast(n, least) # 0 /\ (n >= least => AtLeast(n, least) = n)
BY DEF AtLeast

LEMMA GeneratedVAST ==
  ASSUME NEW e, NEW imp, NEW cr, ~Blank(EventURL(e, cr)), cr.markup = NoMarkup,
         imp.media \in {"video", "audio"},
         cr.duration \in Nat, cr.duration > 0, cr.w \in Nat, cr.h \in Nat,
         CreativeMatches(imp, cr),
         imp.w > 0 => cr.w >= 640, imp.h > 0 => cr.h >= 360
  PROVE  LET adm == RenderMarkup(e, imp, cr) IN
         /\ adm # NoMarkup
         /\ ValidVAST(imp, adm.vast)
         /\ imp.media = "video" =>
              Fits(imp.w, MediaWidth(adm.vast)) /\ Fits(imp.h, MediaHeight(adm.vast))
<1> DEFINE url == EventURL(e, cr)
           v == RenderMarkup(e, imp, cr).vast
           f == [type |-> AssetMime(cr, imp.media), w |-> AtLeast(cr.w, 640), h |-> AtLeast(cr.h, 360)]
<1>1. v = [root |-> TRUE, impression |-> url, durations |-> <<cr.duration>>, files |-> <<f>>]
  BY DEF RenderMarkup, NoMarkup
<1>u. ~Blank(url)
  OBVIOUS
<1>f. /\ f.type = AssetMime(cr, imp.media)
      /\ f.w # 0 /\ (cr.w >= 640 => f.w = cr.w)
      /\ f.h # 0 /\ (cr.h >= 360 => f.h = cr.h)
  <2>1. AtLeast(cr.w, 640) # 0 /\ (cr.w >= 640 => AtLeast(cr.w, 640) = cr.w)
    BY AtLeastIsMax
  <2>2. AtLeast(cr.h, 360) # 0 /\ (cr.h >= 360 => AtLeast(cr.h, 360) = cr.h)
    BY AtLeastIsMax
  <2> QED
    BY <2>1, <2>2
<1> HIDE DEF url, v, f
<1>2. RenderMarkup(e, imp, cr) # NoMarkup
  <2>1. NoMarkup.vast.files = <<>>
    BY DEF NoMarkup, NoVAST
  <2>2. v.files = <<f>> /\ <<f>> # <<>>
    BY <1>1
  <2> QED
    BY <2>1, <2>2, Zenon DEF v
<1>3. ShapeOK(v) /\ Duration(v) = cr.duration
  BY <1>1, <1>u DEF ShapeOK, Duration, Last
<1>4. DurationOK(imp, cr.duration)
  BY Zenon DEF CreativeMatches
<1>5. MimeOK(imp.mimes, v.files)
  <2>1. imp.mimes # {} => AssetMime(cr, imp.media) \in imp.mimes
    BY Zenon DEF CreativeMatches
  <2>2. 1 \in DOMAIN v.files /\ v.files[1].type = AssetMime(cr, imp.media) /\ 1 .. 1 = {1}
    <3>1. v.files = <<f>>
      BY <1>1
    <3>2. 1 \in DOMAIN <<f>> /\ <<f>>[1] = f /\ 1 .. 1 = {1}
      OBVIOUS
    <3> QED
      BY <3>1, <3>2, <1>f, Zenon
  <2>3. \A j \in 1 .. 1 : ~Blank(v.files[j].type)
    BY <2>2, MimeIsNamed
  <2> QED
    BY <2>1, <2>2, <2>3, Zenon DEF MimeOK, Blank
<1>6. ASSUME imp.media = "video"
      PROVE  Fits(imp.w, MediaWidth(v)) /\ Fits(imp.h, MediaHeight(v))
  <2>1. f.w # 0 /\ f.h # 0 /\ v.files = <<f>>
    BY <1>1, <1>f
  <2>2. MediaWidth(v) = f.w /\ MediaHeight(v) = f.h
    BY <2>1, SizeOfOne
  <2>3. Fits(imp.w, cr.w) /\ Fits(imp.h, cr.h)
    BY <1>6 DEF CreativeMatches
  <2>4. (imp.w > 0 => f.w = cr.w) /\ (imp.h > 0 => f.h = cr.h)
    BY <1>f, Zenon
  <2> QED
    BY <2>2, <2>3, <2>4 DEF Fits
<1> QED
  BY <1>2, <1>3, <1>4, <1>5, <1>6 DEF v, ValidVAST

(* A markup that is valid with its macro is valid with a URL in its place. *)
LEMMA FilledIsValid ==
  ASSUME NEW imp, NEW m, NEW url, ValidMarkup(imp, m),
         imp.media \in {"video", "audio", "native", "display"},
         imp.media \in {"video", "audio"} /\ m.vast.impression = Macro => ~Blank(url)
  PROVE  FillIn(m, url) # NoMarkup /\ ValidMarkup(imp, FillIn(m, url))
<1> DEFINE f == FillIn(m, url)
<1>1. /\ f.display = m.display /\ f.native = m.native
      /\ f.vast.root = m.vast.root /\ f.vast.files = m.vast.files
      /\ f.vast.durations = m.vast.durations
      /\ f.vast.impression = IF m.vast.impression = Macro THEN url ELSE m.vast.impression
  BY DEF FillIn
<1> HIDE DEF f
<1>2. ASSUME imp.media \in {"video", "audio"}
      PROVE  f # NoMarkup /\ ValidMarkup(imp, f)
  <2>1. ValidVAST(imp, m.vast)
    BY <1>2 DEF ValidMarkup
  <2>2. ValidVAST(imp, f.vast)
    BY <1>1, <1>2, <2>1 DEF ValidVAST, ShapeOK, Duration
  <2>3. f.vast.root /\ ~NoMarkup.vast.root
    BY <2>2 DEF ValidVAST, ShapeOK, NoMarkup, NoVAST
  <2> QED
    BY <1>2, <2>2, <2>3 DEF ValidMarkup
<1>3. ASSUME imp.media = "native"
      PROVE  f # NoMarkup /\ ValidMarkup(imp, f)
  <2>1. ValidNative(imp, f.native)
    BY <1>1, <1>3 DEF ValidMarkup
  <2>2. f.native.parses /\ ~NoMarkup.native.parses
    BY <2>1 DEF ValidNative, NoMarkup, NoNative
  <2> QED
    BY <1>3, <2>1, <2>2 DEF ValidMarkup
<1>4. ASSUME imp.media = "display"
      PROVE  f # NoMarkup /\ ValidMarkup(imp, f)
  <2>1. f.display /\ ~NoMarkup.display
    BY <1>1, <1>4 DEF ValidMarkup, NoMarkup
  <2> QED
    BY <1>4, <2>1 DEF ValidMarkup
<1> QED
  BY <1>2, <1>3, <1>4 DEF f

(* The ad of a careful bid, configured or written by the engine. *)
LEMMA CarefulAd ==
  ASSUME NEW e, NEW r, NEW imp, NEW c, RequestImp(r, imp), CampaignAdmitted(c),
         Eligible(r, imp, c), Careful(e, Candidate(r, imp, c))
  PROVE  LET bid == BidFor(e, Candidate(r, imp, c))
         IN  bid.adm # NoMarkup /\ ValidMarkup(imp, bid.adm) /\ ValidSize(imp, bid)
<1> DEFINE b == Candidate(r, imp, c)
           cr == Chosen(r, imp, c)
           bid == BidFor(e, b)
<1>1. b.imp = imp /\ b.creative = cr
  BY DEF Candidate
<1>2. bid.adm = RenderMarkup(e, imp, cr) /\ bid.w = cr.w /\ bid.h = cr.h
  BY <1>1 DEF BidFor
<1>3. Usable(r, imp, c) # {} /\ CreativeMatches(imp, cr)
  BY Zenon DEF Eligible
<1>4. cr.duration \in Nat /\ cr.w \in Nat /\ cr.h \in Nat
  BY <1>3, AdmittedCreative
<1>5. /\ GeneratesVAST(b) =>
           /\ cr.duration > 0
           /\ imp.w > 0 => cr.w >= 640
           /\ imp.h > 0 => cr.h >= 360
      /\ cr.markup # NoMarkup => ValidMarkup(imp, cr.markup) /\ ValidSize(imp, bid)
      /\ FillsImpression(b) => EventURL(e, cr) # ""
  BY <1>1, Zenon DEF Careful
<1>6. CASE cr.markup # NoMarkup
  <2>1. bid.adm = FillIn(cr.markup, EventURL(e, cr))
    BY <1>2, <1>6 DEF RenderMarkup
  <2>2. imp.media \in {"video", "audio"} /\ cr.markup.vast.impression = Macro
          => ~Blank(EventURL(e, cr))
    BY <1>1, <1>5 DEF Blank, FillsImpression, AsksForVAST
  <2>3. imp.media \in {"video", "audio", "native", "display"}
    BY AdmittedImp DEF MediaTypes
  <2>4. bid.adm # NoMarkup /\ ValidMarkup(imp, bid.adm)
    <3> HIDE DEF bid
    <3> QED
      BY <1>5, <1>6, <2>1, <2>2, <2>3, FilledIsValid
  <2> QED
    BY <1>5, <1>6, <2>4
<1>7. CASE cr.markup = NoMarkup /\ imp.media \in {"video", "audio"}
  <2>1. GeneratesVAST(b)
    BY <1>1, <1>7 DEF GeneratesVAST, AsksForVAST
  <2>a. ~Blank(EventURL(e, cr))
    BY <1>1, <1>5, <1>7 DEF Blank, FillsImpression, AsksForVAST
  <2>2. /\ bid.adm # NoMarkup
        /\ ValidVAST(imp, bid.adm.vast)
        /\ imp.media = "video" =>
             Fits(imp.w, MediaWidth(bid.adm.vast)) /\ Fits(imp.h, MediaHeight(bid.adm.vast))
    BY <1>2, <1>3, <1>4, <1>5, <1>7, <2>1, <2>a, GeneratedVAST
  <2>3. ValidMarkup(imp, bid.adm)
    <3> HIDE DEF bid
    <3> QED
      BY <1>7, <2>2 DEF ValidMarkup
  <2>4. ValidSize(imp, bid)
    <3> HIDE DEF bid
    <3> QED
      BY <1>7, <2>2 DEF ValidSize
  <2> QED
    BY <2>2, <2>3, <2>4
<1>8. CASE cr.markup = NoMarkup /\ imp.media = "native"
  <2>1. bid.adm = [NoMarkup EXCEPT !.native = [parses |-> TRUE, assets |-> NativeAssetIds(imp),
                                               link |-> TRUE]]
    BY <1>2, <1>8 DEF RenderMarkup
  <2>2. bid.adm.native = [parses |-> TRUE, assets |-> NativeAssetIds(imp), link |-> TRUE]
    BY <2>1 DEF NoMarkup
  <2>3. ValidAssets(imp.assets)
    BY <1>8, AdmittedImp
  <2>4. NativeAssetIds(imp) # {} /\ Required(imp) \subseteq NativeAssetIds(imp)
    BY DEF NativeAssetIds
  <2>5. bid.adm # NoMarkup
    <3>1. NoMarkup.native.assets = {}
      BY DEF NoMarkup, NoNative
    <3>2. bid.adm.native.assets # {}
      BY <2>2, <2>4
    <3> HIDE DEF bid
    <3> QED
      BY <3>1, <3>2, Zenon
  <2>6. ValidNative(imp, bid.adm.native)
    BY <2>2, <2>3, <2>4 DEF ValidNative
  <2>7. ValidMarkup(imp, bid.adm) /\ ValidSize(imp, bid)
    <3> HIDE DEF bid
    <3> QED
      BY <1>8, <2>6 DEF ValidMarkup, ValidSize
  <2> QED
    BY <2>5, <2>7
<1>9. CASE cr.markup = NoMarkup /\ imp.media = "display"
  <2>1. bid.adm = [NoMarkup EXCEPT !.display = TRUE]
    BY <1>2, <1>9 DEF RenderMarkup
  <2>2. bid.adm.display /\ ~NoMarkup.display
    BY <2>1 DEF NoMarkup
  <2>3. Fits(imp.w, bid.w) /\ Fits(imp.h, bid.h)
    BY <1>2, <1>3, <1>9 DEF CreativeMatches
  <2>4. bid.adm # NoMarkup /\ ValidMarkup(imp, bid.adm) /\ ValidSize(imp, bid)
    <3> HIDE DEF bid
    <3> QED
      BY <1>9, <2>2, <2>3 DEF ValidMarkup, ValidSize
  <2> QED
    BY <2>4
<1>10. imp.media \in MediaTypes
  BY AdmittedImp
<1> QED
  BY <1>6, <1>7, <1>8, <1>9, <1>10 DEF MediaTypes

(* Its price, against every floor the impression names. *)
LEMMA CarefulPrice ==
  ASSUME NEW e, NEW r, NEW imp, NEW c, CampaignAdmitted(c),
         Eligible(r, imp, c), Careful(e, Candidate(r, imp, c))
  PROVE  LET bid == BidFor(e, Candidate(r, imp, c))
         IN  bid.price > 0 /\ \A f \in ListedFloors(imp) : bid.price >= f
<1> DEFINE b == Candidate(r, imp, c)
<1>1. b.campaign = c /\ b.imp = imp
  BY DEF Candidate
<1>2. c.price \in Nat \ {0}
  BY DEF CampaignAdmitted
<1>3. /\ c.price % 10 = 0
      /\ ListedDeals(imp) # {} => \A f \in ListedFloors(imp) : c.price >= f
  BY <1>1, Zenon DEF Careful
<1>4. RoundCPM(c.price) = c.price
  BY <1>2, <1>3 DEF RoundCPM
<1>5. BidFor(e, b).price = c.price
  BY <1>1, <1>4 DEF BidFor
<1>6. c.price >= imp.floor
  BY Zenon DEF Eligible, MeetsFloor
<1>7. ASSUME ListedDeals(imp) = {} PROVE ListedFloors(imp) = {imp.floor}
  BY <1>7 DEF ListedDeals, ListedFloors
<1> QED
  BY <1>2, <1>3, <1>5, <1>6, <1>7

(* Its deal, where the impression lists any. *)
LEMMA CarefulDeal ==
  ASSUME NEW e, NEW r, NEW imp, NEW c, RequestImp(r, imp),
         Eligible(r, imp, c), Careful(e, Candidate(r, imp, c)), ListedDeals(imp) # {}
  PROVE  MatchedDeal(imp, c).id \in ListedDeals(imp)
<1>1. Candidate(r, imp, c).campaign = c /\ Candidate(r, imp, c).imp = imp
  BY DEF Candidate
<1>2. c.deals # {}
  BY <1>1, Zenon DEF Careful
<1>3. KnownDeals(imp, c) # {}
  BY <1>2, Zenon DEF Eligible, DealMatches
<1>4. KnownDeals(imp, c) \in SUBSET Nat
  BY AdmittedImp DEF KnownDeals
<1>5. Min(KnownDeals(imp, c)) \in DOMAIN imp.pmp.deals
  BY <1>3, <1>4, MinIsLeast DEF KnownDeals
<1>6. MatchedDeal(imp, c) = imp.pmp.deals[Min(KnownDeals(imp, c))]
  BY <1>2, Zenon DEF MatchedDeal
<1> QED
  BY <1>5, <1>6 DEF ListedDeals, ToSet

LEMMA CarefulBid ==
  ASSUME NEW e, NEW r, NEW imp, NEW c, EngineAdmitted(e), RequestImp(r, imp), CampaignAdmitted(c),
         Eligible(r, imp, c), Careful(e, Candidate(r, imp, c))
  PROVE  ValidBid(imp, BidFor(e, Candidate(r, imp, c)))
<1> DEFINE b == Candidate(r, imp, c)
           cr == Chosen(r, imp, c)
           bid == BidFor(e, b)
<1>1. b.campaign = c /\ b.imp = imp /\ b.creative = cr /\ b.dealid = MatchedDeal(imp, c).id
  BY DEF Candidate
<1>2. ~Blank(cr.id) /\ cr.adomain # <<>>
  <2>1. Usable(r, imp, c) # {}
    BY Zenon DEF Eligible
  <2> QED
    BY <2>1, AdmittedCreative
<1>3. /\ bid.id = "bid" /\ bid.crid = cr.id /\ bid.adomain = cr.adomain
      /\ bid.dealid = MatchedDeal(imp, c).id
      /\ bid.nurl = EventURL(e, cr) /\ bid.burl = EventURL(e, cr) /\ bid.lurl = EventURL(e, cr)
      /\ bid.ext = BidExt(e, b)
  BY <1>1 DEF BidFor
<1>4. ~Blank(bid.id)
  BY <1>3, Zenon DEF Blank
<1>5. "" \notin ToSet(bid.adomain) /\ EventURL(e, cr) \in {"", "http"}
  BY <1>1, <1>3, Zenon DEF Careful
<1>6. NoticeURLs(bid) \subseteq {"http"}
  BY <1>3, <1>5, Zenon DEF NoticeURLs
<1>7. /\ bid.ext.present /\ bid.ext.receipt = imp.proof.receipt
      /\ bid.ext.echo = imp.proof.echo
      /\ bid.ext.identity = [buyer_id |-> e.buyer, campaign_id |-> c.id, creative_id |-> cr.id]
  BY <1>1, <1>3 DEF BidExt
<1>8. \A k \in IdentityKeys : ~Blank(bid.ext.identity[k])
  <2>1. /\ bid.ext.identity["buyer_id"] = e.buyer
        /\ bid.ext.identity["campaign_id"] = c.id
        /\ bid.ext.identity["creative_id"] = cr.id
    BY <1>7
  <2>2. ~Blank(e.buyer) /\ ~Blank(c.id)
    BY Zenon DEF EngineAdmitted, CampaignAdmitted
  <2> HIDE DEF bid
  <2> QED
    BY <1>2, <2>1, <2>2 DEF IdentityKeys
<1>9. ValidProof(imp, bid.ext)
  BY <1>7, <1>8, Zenon DEF ValidProof, Blank
<1>10. bid.price > 0 /\ \A f \in ListedFloors(imp) : bid.price >= f
  BY CarefulPrice
<1>11. bid.adm # NoMarkup /\ ValidMarkup(imp, bid.adm) /\ ValidSize(imp, bid)
  BY CarefulAd
<1>12. ListedDeals(imp) # {} => bid.dealid \in ListedDeals(imp)
  BY <1>3, CarefulDeal
<1>13. ValidBid(imp, bid)
  <2> HIDE DEF bid
  <2> QED
    BY <1>2, <1>3, <1>4, <1>5, <1>6, <1>7, <1>9, <1>10, <1>11, <1>12, Zenon DEF ValidBid, Blank
<1> QED
  BY <1>13

(* A response with one valid bid is a valid response, also for a validator *)
(* that has another view r of the request v.                               *)
LEMMA ResponsePasses ==
  ASSUME NEW e, NEW r, NEW v, NEW b, NEW imp \in ToSet(r.imps),
         r.id = v.id, r.cur # {} => Currency \in r.cur,
         imp.id = b.imp.id, ~Blank(b.campaign.seat), ValidBid(imp, BidFor(e, b))
  PROVE  ValidateBidResponse(r, ResponseFor(e, v, b))
<1> DEFINE resp == ResponseFor(e, v, b)
           bid == BidFor(e, b)
<1>1. /\ resp.id = r.id
      /\ resp.cur = Currency
      /\ resp.seatbid = <<[seat |-> b.campaign.seat, bids |-> <<bid>>]>>
  BY DEF ResponseFor
<1>2. /\ resp.seatbid # <<>>
      /\ DOMAIN resp.seatbid = {1}
      /\ resp.seatbid[1].seat = b.campaign.seat
      /\ resp.seatbid[1].bids = <<bid>>
      /\ <<bid>> # <<>> /\ DOMAIN <<bid>> = {1} /\ <<bid>>[1] = bid
  <2> HIDE DEF bid
  <2> QED
    BY <1>1
<1>3. Places(resp) = {<<1, 1>>} /\ BidAt(resp, <<1, 1>>) = bid
  <2> HIDE DEF bid, resp
  <2> QED
    BY <1>2 DEF Places, BidAt
<1>4. bid.impid = imp.id
  BY DEF BidFor
<1>5. ValidateBidResponse(r, resp)
  <2>1. ValidBid(imp, bid)
    OBVIOUS
  <2> HIDE DEF bid, resp
  <2> QED
    BY <1>1, <1>2, <1>3, <1>4, <2>1, Zenon DEF ValidateBidResponse, Blank
<1> QED
  BY <1>5

-----------------------------------------------------------------------------
(***************************************************************************)
(* Sequences and records.                                                  *)
(***************************************************************************)
IsRecord(r, fields) == r \in [fields -> {r[k] : k \in fields}]

LEMMA SeqOverRange ==
  ASSUME NEW n \in Nat, NEW S, NEW f \in [1 .. n -> S]
  PROVE  f \in Seq(ToSet(f)) /\ DOMAIN f = 1 .. n
<1>1. DOMAIN f = 1 .. n
  OBVIOUS
<1>2. \A i \in 1 .. n : f[i] \in ToSet(f)
  BY <1>1 DEF ToSet
<1>3. f \in [1 .. n -> ToSet(f)]
  BY <1>2
<1>4. f \in Seq(ToSet(f))
  BY <1>3, SMT
<1> QED
  BY <1>1, <1>4

LEMMA EmptyDomain ==
  ASSUME NEW S, NEW s \in Seq(S)
  PROVE  s = <<>> <=> DOMAIN s = {}
<1>1. s # <<>> => 1 \in 1 .. Len(s)
  BY EmptySeq
<1> QED
  BY <1>1, LenProperties

-----------------------------------------------------------------------------
(***************************************************************************)
(* One impression.                                                         *)
(***************************************************************************)
MediaObjects == {"video", "audio", "native", "banner"}

LEMMA OneMedium ==
  ASSUME NEW imp, imp.objects \subseteq MediaObjects, Cardinality(imp.objects) = 1
  PROVE  /\ MediaType(imp) \in MediaTypes
         /\ MediaType(imp) = "native" => imp.objects = {"native"}
<1>1. IsFiniteSet(MediaObjects)
  <2>1. IsFiniteSet({} \cup {"video"})
    BY FS_EmptySet, FS_AddElement
  <2>2. IsFiniteSet(({} \cup {"video"}) \cup {"audio"})
    BY <2>1, FS_AddElement
  <2>3. IsFiniteSet((({} \cup {"video"}) \cup {"audio"}) \cup {"native"})
    BY <2>2, FS_AddElement
  <2>4. IsFiniteSet(((({} \cup {"video"}) \cup {"audio"}) \cup {"native"}) \cup {"banner"})
    BY <2>3, FS_AddElement
  <2>5. MediaObjects = ((({} \cup {"video"}) \cup {"audio"}) \cup {"native"}) \cup {"banner"}
    BY DEF MediaObjects
  <2> QED
    BY <2>4, <2>5
<1>2. IsFiniteSet(imp.objects)
  BY <1>1, FS_Subset
<1>3. PICK x : imp.objects = {x}
  BY <1>2, FS_Singleton
<1>4. x \in MediaObjects
  BY <1>3
<1> QED
  BY <1>3, <1>4, Zenon DEF MediaObjects, MediaType, MediaTypes

LEMMA NormalImpFields ==
  ASSUME NEW imp, WrittenImp(imp)
  PROVE  LET n == NormalImp(imp) IN
         /\ WrittenImp(n)
         /\ n.floor = NormalFloor(imp) /\ n.floorCur = NormalCur(imp)
         /\ n.native = NormalNative(imp.native)
         /\ n.placement = EitherOf(imp.placement, imp.plcmt)
         /\ n.plcmt = EitherOf(imp.plcmt, imp.placement)
         /\ \A k \in ImpFields \ {"floor", "floorCur", "native", "placement", "plcmt"} :
              n[k] = imp[k]
<1> DEFINE n == NormalImp(imp)
<1>1. DOMAIN imp = ImpFields
  BY DEF WrittenImp
<1>2. /\ DOMAIN n = ImpFields
      /\ n.floor = NormalFloor(imp) /\ n.floorCur = NormalCur(imp)
      /\ n.native = NormalNative(imp.native)
      /\ n.placement = EitherOf(imp.placement, imp.plcmt)
      /\ n.plcmt = EitherOf(imp.plcmt, imp.placement)
      /\ \A k \in ImpFields \ {"floor", "floorCur", "native", "placement", "plcmt"} :
              n[k] = imp[k]
  BY <1>1 DEF NormalImp, ImpFields
<1>3. NormalFloor(imp) \in Int /\ EitherOf(imp.placement, imp.plcmt) \in Int
                               /\ EitherOf(imp.plcmt, imp.placement) \in Int
  BY DEF NormalFloor, EitherOf, WrittenImp
<1>4. {"json", "ver", "version"} \subseteq DOMAIN NormalNative(imp.native)
  BY DEF NormalNative, WrittenImp
<1>5. /\ n.objects = imp.objects /\ n.extFloors = imp.extFloors
      /\ n.extCurs = imp.extCurs /\ n.pmp = imp.pmp
  BY <1>2 DEF ImpFields
<1>6. WrittenImp(n)
  <2> HIDE DEF n
  <2> QED
    BY <1>2, <1>3, <1>4, <1>5 DEF WrittenImp
<1> QED
  BY <1>2, <1>6

(* Once read, the aliases of an impression are not news: reading them      *)
(* again may only raise a floor of 0.                                      *)
Stable(imp) ==
  /\ WrittenImp(imp)
  /\ imp.media = MediaType(imp)
  /\ NormalCur(imp) = imp.floorCur
  /\ NormalNative(imp.native) = imp.native
  /\ EitherOf(imp.placement, imp.plcmt) = imp.placement
  /\ EitherOf(imp.plcmt, imp.placement) = imp.plcmt

LEMMA TypedFields ==
  ASSUME NEW imp, WrittenImp(imp), NEW m
  PROVE  LET t == [imp EXCEPT !.media = m] IN
         /\ WrittenImp(t)
         /\ t.media = m
         /\ MediaType(t) = MediaType(imp)
         /\ \A k \in ImpFields \ {"media"} : t[k] = imp[k]
<1> DEFINE t == [imp EXCEPT !.media = m]
<1>1. DOMAIN imp = ImpFields
  BY DEF WrittenImp
<1>2. /\ DOMAIN t = ImpFields
      /\ t.media = m
      /\ \A k \in ImpFields \ {"media"} : t[k] = imp[k]
  BY <1>1 DEF ImpFields
<1>3. /\ t.objects = imp.objects /\ t.floor = imp.floor
      /\ t.placement = imp.placement /\ t.plcmt = imp.plcmt
      /\ t.extFloors = imp.extFloors /\ t.extCurs = imp.extCurs
      /\ t.pmp = imp.pmp /\ t.native = imp.native
  BY <1>2 DEF ImpFields
<1>4. WrittenImp(t)
  <2> HIDE DEF t
  <2> QED
    BY <1>2, <1>3 DEF WrittenImp
<1>5. MediaType(t) = MediaType(imp)
  <2> HIDE DEF t
  <2> QED
    BY <1>3, Zenon DEF MediaType
<1> QED
  BY <1>2, <1>4, <1>5

LEMMA NativeOnce ==
  ASSUME NEW n, {"json", "ver", "version"} \subseteq DOMAIN n
  PROVE  NormalNative(NormalNative(n)) = NormalNative(n)
<1>1. CASE n.json /\ Blank(n.ver) /\ ~Blank(n.version)
  <2>1. NormalNative(n).ver = n.version
    BY <1>1 DEF NormalNative
  <2> QED
    BY <1>1, <2>1 DEF NormalNative
<1>2. CASE n.json /\ Blank(n.ver) /\ Blank(n.version)
  <2> DEFINE m == [n EXCEPT !.ver = n.version]
  <2>1. NormalNative(n) = m
    BY <1>2 DEF NormalNative
  <2>2. m.json = n.json /\ m.ver = n.version /\ m.version = n.version
    BY DEF NormalNative
  <2>3. [m EXCEPT !.ver = m.version] = m
    BY <2>2
  <2> QED
    BY <1>2, <2>1, <2>3 DEF NormalNative
<1>3. CASE ~(n.json /\ Blank(n.ver))
  BY <1>3 DEF NormalNative
<1> QED
  BY <1>1, <1>2, <1>3

LEMMA StableOnceRead ==
  ASSUME NEW imp, WrittenImp(imp)
  PROVE  Stable(Typed(NormalImp(imp)))
<1> DEFINE n == NormalImp(imp)
           t == Typed(n)
<1>1. /\ WrittenImp(n)
      /\ n.floorCur = NormalCur(imp) /\ n.native = NormalNative(imp.native)
      /\ n.placement = EitherOf(imp.placement, imp.plcmt)
      /\ n.plcmt = EitherOf(imp.plcmt, imp.placement)
      /\ \A k \in ImpFields \ {"floor", "floorCur", "native", "placement", "plcmt"} :
              n[k] = imp[k]
  BY NormalImpFields
<1>2. /\ WrittenImp(t)
      /\ t.media = MediaType(n) /\ MediaType(t) = MediaType(n)
      /\ \A k \in ImpFields \ {"media"} : t[k] = n[k]
  <2> HIDE DEF n
  <2> QED
    BY <1>1, TypedFields DEF Typed
<1>3. /\ t.floorCur = NormalCur(imp) /\ t.extCurs = imp.extCurs
      /\ t.native = NormalNative(imp.native)
      /\ t.placement = EitherOf(imp.placement, imp.plcmt)
      /\ t.plcmt = EitherOf(imp.plcmt, imp.placement)
  <2> HIDE DEF n, t
  <2> QED
    BY <1>1, <1>2 DEF ImpFields
<1> HIDE DEF n, t
<1>4. NormalCur(t) = t.floorCur
  BY <1>3 DEF NormalCur
<1>5. NormalNative(t.native) = t.native
  BY <1>3, NativeOnce DEF WrittenImp
<1>6. /\ EitherOf(t.placement, t.plcmt) = t.placement
      /\ EitherOf(t.plcmt, t.placement) = t.plcmt
  BY <1>3 DEF EitherOf, WrittenImp
<1>7. Stable(t)
  BY <1>2, <1>4, <1>5, <1>6 DEF Stable
<1> QED
  BY <1>7 DEF n, t

(* The validation does not look at what the decoder adds: a valid          *)
(* impression stays valid with another medium or a higher floor.           *)
LEMMA ValidUpToFloor ==
  ASSUME NEW imp, WrittenImp(imp), ValidImp(imp), NEW o,
         \A k \in ImpFields \ {"floor", "media"} : o[k] = imp[k], o.floor \in Nat
  PROVE  ValidImp(o)
<1>1. /\ o.id = imp.id /\ o.objects = imp.objects /\ o.w = imp.w /\ o.h = imp.h
      /\ o.minDur = imp.minDur /\ o.maxDur = imp.maxDur /\ o.pmp = imp.pmp
      /\ o.native = imp.native /\ o.assets = imp.assets
  BY DEF ImpFields
<1> QED
  BY <1>1 DEF ValidImp

-----------------------------------------------------------------------------
(***************************************************************************)
(* One body.                                                               *)
(***************************************************************************)
LEMMA DecodedFields ==
  ASSUME NEW b, WrittenBody(b)
  PROVE  LET d == Decoded(b) IN
         /\ DOMAIN d = BodyFields
         /\ IsRecord(d, BodyFields)
         /\ d.imps = [i \in DOMAIN b.imps |-> Typed(NormalImp(b.imps[i]))]
         /\ d.supply = CHOOSE s \in b.supplies : TRUE
         /\ d.signals = NormalSignals(b)
         /\ d.coppa = ChildDirected(NormalSignals(b))
         /\ \A k \in BodyFields \ {"imps", "supply", "signals", "coppa"} : d[k] = b[k]
<1> DEFINE n == Normal(b)
           d == Decoded(b)
<1>1. DOMAIN b = BodyFields
  BY DEF WrittenBody
<1>2. /\ DOMAIN n = BodyFields
      /\ n.imps = [i \in DOMAIN b.imps |-> NormalImp(b.imps[i])]
      /\ n.signals = NormalSignals(b)
      /\ \A k \in BodyFields \ {"imps", "signals"} : n[k] = b[k]
  BY <1>1 DEF Normal, BodyFields
<1>3. d = [n EXCEPT !.supply = CHOOSE s \in b.supplies : TRUE,
                    !.coppa = ChildDirected(n.signals),
                    !.imps = [i \in DOMAIN n.imps |-> Typed(n.imps[i])]]
  BY DEF Decoded
<1> HIDE DEF n, d
<1>4. /\ DOMAIN d = BodyFields
      /\ IsRecord(d, BodyFields)
      /\ d.supply = CHOOSE s \in b.supplies : TRUE
      /\ d.signals = n.signals
      /\ d.coppa = ChildDirected(n.signals)
      /\ \A k \in BodyFields \ {"imps", "supply", "coppa"} : d[k] = n[k]
  <2>1. DOMAIN d = BodyFields
    BY <1>2, <1>3
  <2>2. IsRecord(d, BodyFields)
    BY <1>2, <1>3 DEF IsRecord
  <2>3. {"supply", "coppa", "signals"} \subseteq DOMAIN n
    BY <1>2 DEF BodyFields
  <2>4. /\ d.supply = CHOOSE s \in b.supplies : TRUE
        /\ d.signals = n.signals
        /\ d.coppa = ChildDirected(n.signals)
    BY <1>3, <2>3
  <2>5. \A k \in BodyFields \ {"imps", "supply", "coppa"} : d[k] = n[k]
    BY <1>2, <1>3
  <2> QED
    BY <2>1, <2>2, <2>4, <2>5
<1>5. d.imps = [i \in DOMAIN n.imps |-> Typed(n.imps[i])]
  BY <1>2, <1>3 DEF BodyFields
<1>6. d.imps = [i \in DOMAIN b.imps |-> Typed(NormalImp(b.imps[i]))]
  BY <1>2, <1>5
<1>7. \A k \in BodyFields \ {"imps", "supply", "signals", "coppa"} : d[k] = b[k]
  BY <1>2, <1>4
<1> QED
  BY <1>2, <1>4, <1>6, <1>7 DEF d

(* The validation of a body, said of its impressions as they were written. *)
LEMMA ValidNormal ==
  ASSUME NEW b, WrittenBody(b)
  PROVE  ValidBody(Normal(b)) <=>
           /\ ~Blank(b.id)
           /\ b.imps # <<>>
           /\ b.tmax >= 0
           /\ Cardinality(b.supplies) = 1
           /\ \A i, j \in DOMAIN b.imps : b.imps[i].id = b.imps[j].id => i = j
           /\ \A i \in DOMAIN b.imps : ValidImp(NormalImp(b.imps[i]))
<1> DEFINE n == Normal(b)
<1>1. DOMAIN b = BodyFields /\ \A i \in DOMAIN b.imps : WrittenImp(b.imps[i])
  BY DEF WrittenBody
<1>2. /\ n.imps = [i \in DOMAIN b.imps |-> NormalImp(b.imps[i])]
      /\ n.id = b.id /\ n.tmax = b.tmax /\ n.supplies = b.supplies
  BY <1>1 DEF Normal, BodyFields
<1>3. DOMAIN n.imps = DOMAIN b.imps /\ \A i \in DOMAIN b.imps : n.imps[i] = NormalImp(b.imps[i])
  BY <1>2
<1>4. \A i \in DOMAIN b.imps : NormalImp(b.imps[i]).id = b.imps[i].id
  BY <1>1, NormalImpFields DEF ImpFields
<1>5. n.imps = <<>> <=> b.imps = <<>>
  <2>1. b.imps \in Seq(ToSet(b.imps))
    BY DEF WrittenBody
  <2>2. b.imps = <<>> <=> DOMAIN b.imps = {}
    BY <2>1, EmptyDomain
  <2>3. n.imps = <<>> <=> DOMAIN b.imps = {}
    BY <1>2
  <2> QED
    BY <2>2, <2>3
<1> HIDE DEF n
<1>6. ValidBody(n) <=>
           /\ ~Blank(b.id)
           /\ b.imps # <<>>
           /\ b.tmax >= 0
           /\ Cardinality(b.supplies) = 1
           /\ \A i, j \in DOMAIN b.imps : b.imps[i].id = b.imps[j].id => i = j
           /\ \A i \in DOMAIN b.imps : ValidImp(NormalImp(b.imps[i]))
  <2>1. (\A i, j \in DOMAIN n.imps : n.imps[i].id = n.imps[j].id => i = j)
          <=> \A i, j \in DOMAIN b.imps : b.imps[i].id = b.imps[j].id => i = j
    BY <1>3, <1>4, Zenon
  <2>2. (\A i \in DOMAIN n.imps : ValidImp(n.imps[i]))
          <=> \A i \in DOMAIN b.imps : ValidImp(NormalImp(b.imps[i]))
    BY <1>3, Zenon
  <2> QED
    BY <1>2, <1>5, <2>1, <2>2 DEF ValidBody
<1> QED
  BY <1>6 DEF n

LEMMA NormalImpOfBody ==
  ASSUME NEW b, WrittenBody(b), NEW i \in DOMAIN b.imps
  PROVE  /\ WrittenImp(b.imps[i])
         /\ WrittenImp(NormalImp(b.imps[i]))
         /\ Stable(Typed(NormalImp(b.imps[i])))
         /\ \A k \in ImpFields \ {"media"} :
              Typed(NormalImp(b.imps[i]))[k] = NormalImp(b.imps[i])[k]
         /\ Typed(NormalImp(b.imps[i])).media = MediaType(NormalImp(b.imps[i]))
<1> DEFINE n == NormalImp(b.imps[i])
<1>1. WrittenImp(b.imps[i])
  BY DEF WrittenBody
<1>2. WrittenImp(n)
  BY <1>1, NormalImpFields
<1> HIDE DEF n
<1>3. /\ \A k \in ImpFields \ {"media"} : Typed(n)[k] = n[k]
      /\ Typed(n).media = MediaType(n)
  BY <1>2, TypedFields DEF Typed
<1> QED
  BY <1>1, <1>2, <1>3, StableOnceRead DEF n

(* What DecodeRequestWithOptions leaves is what the engine counts on. *)
LEMMA DecodedIsAdmitted ==
  ASSUME NEW b, WrittenBody(b), ValidBody(Normal(b))
  PROVE  RequestAdmitted(Decoded(b))
<1> DEFINE d == Decoded(b)
<1>1. PICK n \in Nat : b.imps \in [1 .. n -> ToSet(b.imps)]
  BY LenProperties DEF WrittenBody
<1>2. d.imps = [i \in DOMAIN b.imps |-> Typed(NormalImp(b.imps[i]))]
  BY DecodedFields
<1> HIDE DEF d
<1>3. DOMAIN b.imps = 1 .. n
  BY <1>1
<1>4. d.imps \in [1 .. n -> {d.imps[i] : i \in 1 .. n}]
  BY <1>2, <1>3
<1>5. d.imps \in Seq(ToSet(d.imps)) /\ DOMAIN d.imps = 1 .. n
  BY <1>4, SeqOverRange
<1>6. \A i, j \in DOMAIN b.imps : b.imps[i].id = b.imps[j].id => i = j
  BY ValidNormal
<1>7. ASSUME NEW i \in 1 .. n
      PROVE  /\ d.imps[i].id = b.imps[i].id
             /\ d.imps[i].media \in MediaTypes
             /\ d.imps[i].media = "native" =>
                  d.imps[i].assets # <<>> /\ ValidAssets(d.imps[i].assets)
             /\ d.imps[i].minDur > 0 /\ d.imps[i].maxDur > 0 =>
                  d.imps[i].minDur <= d.imps[i].maxDur
             /\ d.imps[i].pmp.deals \in Seq(ToSet(d.imps[i].pmp.deals))
  <2> DEFINE m == NormalImp(b.imps[i])
             t == Typed(m)
  <2>1. /\ WrittenImp(b.imps[i]) /\ WrittenImp(m)
        /\ \A k \in ImpFields \ {"media"} : t[k] = m[k]
        /\ t.media = MediaType(m)
    BY <1>3, NormalImpOfBody
  <2>2. ValidImp(m)
    BY <1>3, ValidNormal
  <2>3. m.id = b.imps[i].id
    BY <2>1, NormalImpFields DEF ImpFields
  <2>4. d.imps[i] = t
    BY <1>2, <1>3
  <2> HIDE DEF m, t
  <2>5. /\ t.id = m.id /\ t.assets = m.assets /\ t.minDur = m.minDur /\ t.maxDur = m.maxDur
        /\ t.pmp = m.pmp
    BY <2>1 DEF ImpFields
  <2>6. Cardinality(m.objects) = 1 /\ m.objects \subseteq MediaObjects
    BY <2>1, <2>2 DEF ValidImp, WrittenImp, MediaObjects
  <2>7. MediaType(m) \in MediaTypes /\ (MediaType(m) = "native" => m.objects = {"native"})
    BY <2>6, OneMedium
  <2> QED
    BY <2>1, <2>2, <2>3, <2>4, <2>5, <2>7 DEF ValidImp, WrittenImp
<1>8. \A i, j \in 1 .. n : d.imps[i].id = d.imps[j].id => i = j
  BY <1>3, <1>6, <1>7
<1> QED
  BY <1>5, <1>7, <1>8 DEF RequestAdmitted, d

(* A value of X-OpenRTB-Version that the harness sends decides the version. *)
LEMMA AnnouncedVersion ==
  ASSUME NEW h, NEW b, WrittenBody(b), ~Blank(Classify(h))
  PROVE  Detected(h, b) = Classify(h)
<1> DEFINE vs == <<h>> \o b.rootHints \o b.extHints
           known == {i \in DOMAIN vs : ~Blank(Classify(vs[i]))}
           S == {h} \cup ToSet(b.rootHints) \cup ToSet(b.extHints)
<1>1. b.rootHints \in Seq(S) /\ b.extHints \in Seq(S) /\ <<h>> \in Seq(S)
  <2>1. /\ b.rootHints \in Seq(ToSet(b.rootHints)) /\ b.extHints \in Seq(ToSet(b.extHints))
        /\ ToSet(b.rootHints) \subseteq S /\ ToSet(b.extHints) \subseteq S
    BY DEF WrittenBody
  <2>2. <<h>> \in Seq(S)
    BY DEF S
  <2> HIDE DEF S
  <2> QED
    BY <2>1, <2>2, SeqMonotonic
<1> HIDE DEF S
<1>2. vs \in Seq(S) /\ 1 \in DOMAIN vs /\ vs[1] = h
  <2> DEFINE front == <<h>> \o b.rootHints
  <2>1. Len(<<h>>) = 1 /\ <<h>>[1] = h /\ Len(b.rootHints) \in Nat /\ Len(b.extHints) \in Nat
    BY <1>1, LenProperties
  <2>2. /\ front \in Seq(S)
        /\ Len(front) = 1 + Len(b.rootHints)
        /\ front[1] = h
    BY <1>1, <2>1, ConcatProperties
  <2>3. vs = front \o b.extHints
    OBVIOUS
  <2> HIDE DEF front, vs
  <2>4. front \o b.extHints \in Seq(S)
    BY <1>1, <2>2, ConcatProperties
  <2>5. Len(front \o b.extHints) = Len(front) + Len(b.extHints)
    BY <1>1, <2>2, ConcatProperties
  <2>6. 1 \in 1 .. Len(front) + Len(b.extHints) /\ 1 \in 1 .. Len(front)
    <3>1. Len(front) \in Nat /\ Len(front) > 0
      BY <2>1, <2>2
    <3>2. \A m, n \in Nat : m > 0 => 1 \in 1 .. m + n /\ 1 \in 1 .. m
      OBVIOUS
    <3> QED
      BY <2>1, <3>1, <3>2
  <2>7. (front \o b.extHints)[1] = front[1]
    BY <1>1, <2>2, <2>6, ConcatProperties
  <2>8. 1 \in 1 .. Len(vs) /\ DOMAIN vs = 1 .. Len(vs)
    BY <2>3, <2>4, <2>5, <2>6, LenProperties
  <2> QED
    BY <2>2, <2>3, <2>4, <2>7, <2>8
<1> HIDE DEF vs
<1>3. known \in SUBSET Nat /\ 1 \in known /\ \A i \in known : i >= 1
  BY <1>2, LenProperties
<1>4. Min(known) = 1
  <2>1. Min(known) \in known /\ \A i \in known : Min(known) <= i
    BY <1>3, MinIsLeast
  <2> QED
    BY <1>3, <2>1
<1>5. FirstKnown(vs) = Classify(vs[1])
  BY <1>3, <1>4, Zenon DEF FirstKnown
<1> QED
  BY <1>2, <1>5 DEF Detected, vs
=============================================================================
