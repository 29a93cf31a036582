---------------------------- MODULE ResponseRules ----------------------------
(***************************************************************************)
(* What a bid response must satisfy: openrtb.ValidateBidResponse, used by  *)
(* the harness and by certification, and the readers of ad markup it       *)
(* rests on.                                                               *)
(*                                                                         *)
(* Prices and floors are integers.  A string is a token and "" is the      *)
(* absent one.  An ad markup is what the readers find in it: the VAST      *)
(* elements, display tags and native assets (NoMarkup is the empty text);  *)
(* the impression of a VAST is the text of that element, "" if it is blank *)
(* or there is none.  A URL is "" or the kind of URL it is.                *)
(***************************************************************************)
EXTENDS Integers, Sequences, SequencesExt

Blank(s) == s = ""

NoVAST == [root |-> FALSE, impression |-> "", durations |-> <<>>, files |-> <<>>]
NoNative == [parses |-> FALSE, assets |-> {}, link |-> FALSE]
NoMarkup == [vast |-> NoVAST, display |-> FALSE, native |-> NoNative]

(* parseVAST: the last duration and the first non-zero size count. *)
ShapeOK(v) == v.root /\ ~Blank(v.impression) /\ v.files # <<>> /\ v.durations # <<>>
Duration(v) == Last(v.durations)
FirstNonZero(sizes) ==
  LET nonZero == {i \in DOMAIN sizes : sizes[i] # 0}
  IN  IF nonZero = {} THEN 0 ELSE sizes[Min(nonZero)]
MediaWidth(v) == FirstNonZero([i \in DOMAIN v.files |-> v.files[i].w])
MediaHeight(v) == FirstNonZero([i \in DOMAIN v.files |-> v.files[i].h])

-----------------------------------------------------------------------------
(* The first media file that is typed well decides; a blank type before it *)
(* is refused.                                                             *)
MimeOK(mimes, files) ==
  mimes # {} =>
    \E i \in DOMAIN files :
      /\ files[i].type \in mimes
      /\ \A j \in 1 .. i : files[j].type # ""

DurationOK(imp, d) ==
  /\ imp.minDur > 0 /\ d > 0 => d >= imp.minDur
  /\ imp.maxDur > 0 /\ d > 0 => d <= imp.maxDur

ValidVAST(imp, v) ==
  /\ ShapeOK(v)
  /\ DurationOK(imp, Duration(v))
  /\ MimeOK(imp.mimes, v.files)

(* parseNativeRequest: positive, unique asset ids. *)
ValidAssets(assets) ==
  /\ \A i \in DOMAIN assets : assets[i].id > 0
  /\ \A i, j \in DOMAIN assets : assets[i].id = assets[j].id => i = j

Required(imp) == {a.id : a \in {x \in ToSet(imp.assets) : x.required}}

ValidNative(imp, n) ==
  /\ ValidAssets(imp.assets)
  /\ n.parses /\ n.link /\ n.assets # {}
  /\ Required(imp) \subseteq n.assets

(* ValidateAdMarkup *)
ValidMarkup(imp, adm) ==
  CASE imp.media \in {"video", "audio"} -> ValidVAST(imp, adm.vast)
    [] imp.media = "native" -> ValidNative(imp, adm.native)
    [] imp.media = "display" -> adm.display

(* A size either side leaves open fits. *)
Fits(asked, given) == asked > 0 /\ given > 0 => asked = given

(* validateBidMediaConstraints *)
ValidSize(imp, bid) ==
  /\ imp.media = "display" => Fits(imp.w, bid.w) /\ Fits(imp.h, bid.h)
  /\ imp.media = "video" =>
       /\ Fits(imp.w, MediaWidth(bid.adm.vast))
       /\ Fits(imp.h, MediaHeight(bid.adm.vast))

-----------------------------------------------------------------------------
EchoedKeys == {"lane_id", "private_market_id", "package_id", "placement_id", "proof_run_id"}
IdentityKeys == {"buyer_id", "campaign_id", "creative_id"}

(* validateClearLedgerProofExt *)
ValidProof(imp, ext) ==
  imp.proof.receipt =>
    /\ ext.present
    /\ \A k \in IdentityKeys : ext.identity[k] # ""
    /\ \A k \in EchoedKeys : imp.proof.echo[k] # "" => ext.echo[k] = imp.proof.echo[k]
    /\ ext.receipt

ListedDeals(imp) == {d.id : d \in ToSet(imp.pmp.deals)}

(* The floors the impression names, of any deal: the highest counts. *)
ListedFloors(imp) == {imp.floor} \cup {d.floor : d \in ToSet(imp.pmp.deals)}

NoticeURLs(bid) == {bid.nurl, bid.burl, bid.lurl} \ {""}

(* The rules for one bid on an impression of the request. *)
ValidBid(imp, bid) ==
  /\ bid.id # "" /\ bid.crid # ""
  /\ bid.price > 0
  /\ \A f \in ListedFloors(imp) : bid.price >= f
  /\ bid.adomain # <<>> /\ "" \notin ToSet(bid.adomain)
  /\ bid.adm # NoMarkup /\ ValidMarkup(imp, bid.adm)
  /\ ValidSize(imp, bid)
  /\ NoticeURLs(bid) # {} \/ bid.ext.present
  /\ NoticeURLs(bid) \subseteq {"http"}
  /\ ValidProof(imp, bid.ext)
  /\ ListedDeals(imp) # {} => bid.dealid \in ListedDeals(imp)

(* The places of the bids of a response: a seat, and a bid of that seat. *)
Places(resp) == UNION {{s} \X DOMAIN resp.seatbid[s].bids : s \in DOMAIN resp.seatbid}
BidAt(resp, p) == resp.seatbid[p[1]].bids[p[2]]

ValidateBidResponse(req, resp) ==
  /\ resp.id = req.id
  /\ resp.cur # "" /\ req.cur # {} => resp.cur \in req.cur
  /\ resp.seatbid # <<>>
  /\ \A s \in DOMAIN resp.seatbid :
       resp.seatbid[s].seat # "" /\ resp.seatbid[s].bids # <<>>
  /\ \A p, q \in Places(resp) :
       \/ BidAt(resp, p).id = BidAt(resp, q).id
       \/ BidAt(resp, p).impid = BidAt(resp, q).impid
       => p = q
  /\ \A p \in Places(resp) :
       \E imp \in ToSet(req.imps) :
         imp.id = BidAt(resp, p).impid /\ ValidBid(imp, BidAt(resp, p))
=============================================================================
