---------------------------- MODULE BiddingProofs ----------------------------
(***************************************************************************)
(* The loop of Engine.Bid picks the first of the highest priced candidates *)
(* for every request and every portfolio, and the response is built from   *)
(* it.                                                                     *)
(***************************************************************************)
EXTENDS Bidding, EvaluationProofs

LEMMA PairsIsNumber ==
  ASSUME BiddingTypeOK
  PROVE  Pairs \in Nat
<1>1. /\ campaigns \in Seq(ToSet(campaigns))
      /\ req.imps \in Seq(ToSet(req.imps))
  BY BiddingAssumption DEF BiddingTypeOK, RequestAdmitted
<1>2. Len(campaigns) \in Nat /\ Len(req.imps) \in Nat
  BY <1>1
<1> QED BY <1>2 DEF Pairs

(* Every pair of the loop has a campaign. *)
LEMMA PairIsOfPortfolio ==
  ASSUME BiddingTypeOK, NEW n \in 1 .. Pairs
  PROVE  CampaignAt(n) \in ToSet(campaigns)
<1> DEFINE l == Len(campaigns)
           m == Len(req.imps)
<1>1. campaigns \in Portfolios /\ req \in Requests
  BY DEF BiddingTypeOK
<1>2. /\ campaigns \in Seq(ToSet(campaigns))
      /\ req.imps \in Seq(ToSet(req.imps))
  BY <1>1, BiddingAssumption DEF RequestAdmitted
<1>3. l \in Nat /\ m \in Nat /\ DOMAIN campaigns = 1 .. l
  BY <1>2
<1>4. l > 0
  <2>1. CASE l = 0
    <3> HIDE DEF l, m
    <3>1. m * l = 0
      BY <1>3, <2>1
    <3>2. Pairs = m * l
      BY DEF Pairs, l, m
    <3> QED BY <3>1, <3>2
  <2> QED BY <2>1, <1>3
<1>5. n \in Int
  <2> HIDE DEF l, m
  <2>1. Pairs = m * l
    BY DEF Pairs, l, m
  <2> QED BY <2>1, <1>3
<1>6. ((n - 1) % l) + 1 \in 1 .. l
  <2> HIDE DEF l, m
  <2> QED BY <1>3, <1>4, <1>5
<1> QED BY <1>2, <1>3, <1>6 DEF CampaignAt, ToSet

LEMMA PairHasCampaign ==
  ASSUME BiddingTypeOK, NEW n \in 1 .. Pairs
  PROVE  CampaignAdmitted(CampaignAt(n))
<1>1. \A c \in ToSet(campaigns) : CampaignAdmitted(c)
  BY BiddingAssumption DEF BiddingTypeOK, ToSet
<1> QED
  BY <1>1, PairIsOfPortfolio

LEMMA PairHasImp ==
  ASSUME BiddingTypeOK, NEW n \in 1 .. Pairs
  PROVE  ImpAt(n) \in ToSet(req.imps)
<1> DEFINE l == Len(campaigns)
           m == Len(req.imps)
<1>1. /\ campaigns \in Seq(ToSet(campaigns))
      /\ req.imps \in Seq(ToSet(req.imps))
  BY BiddingAssumption DEF BiddingTypeOK, RequestAdmitted
<1>2. l \in Nat /\ m \in Nat /\ DOMAIN req.imps = 1 .. m /\ Pairs = m * l
  BY <1>1 DEF Pairs
<1>3. ((n - 1) \div l) + 1 \in 1 .. m
  <2> HIDE DEF l, m
  <2>1. n \in Int /\ 1 <= n /\ n <= m * l
    BY <1>2
  <2>2. l > 0
    <3>1. ASSUME l = 0 PROVE FALSE
      <4>1. m * l = 0
        BY <1>2, <3>1
      <4> QED
        BY <2>1, <4>1
    <3> QED
      BY <1>2, <3>1
  <2>3. PICK q \in Nat : q = (n - 1) \div l
    BY <1>2, <2>1, <2>2
  <2>4. q * l <= n - 1
    BY <1>2, <2>1, <2>2, <2>3
  <2>5. q < m
    <3>1. ASSUME q >= m PROVE FALSE
      <4>1. q * l >= m * l
        BY <1>2, <2>2, <3>1
      <4> QED
        BY <1>2, <2>1, <2>4, <4>1
    <3> QED
      BY <1>2, <3>1
  <2> QED
    BY <1>2, <2>3, <2>5
<1> QED
  BY <1>2, <1>3 DEF ImpAt, ToSet

LEMMA PriceIsNumber ==
  ASSUME BiddingTypeOK, NEW n \in 1 .. Pairs
  PROVE  Price(n) \in Nat
BY PairHasCampaign DEF Price, CampaignAdmitted

(***************************************************************************)
(* The state keeps its types (Bid, engine.go:122-189).                     *)
(***************************************************************************)
LEMMA TypeStep ==
  ASSUME BiddingTypeOK, [Next]_biddingVars
  PROVE  BiddingTypeOK'
<1> USE DEF BiddingTypeOK
<1>0. Pairs \in Nat
  BY PairsIsNumber
<1>1. CASE Consider
  BY <1>0, <1>1 DEF Consider, Pairs
<1>2. CASE NoneEligible
  BY <1>2 DEF NoneEligible, Pairs
<1>3. CASE BestFound
  BY <1>3 DEF BestFound, Pairs
<1>4. CASE Granted
  BY <1>4 DEF Granted, Pairs
<1>5. CASE Refused
  BY <1>5 DEF Refused, Pairs
<1>6. CASE UNCHANGED biddingVars
  BY <1>6 DEF biddingVars, Pairs
<1> QED BY <1>1, <1>2, <1>3, <1>4, <1>5, <1>6 DEF Next

(* The loop keeps its types; a pair asks for a reservation only once found. *)
THEOREM BiddingTypeCorrect == Spec => []BiddingTypeOK
<1>1. Init => BiddingTypeOK
  <2> SUFFICES ASSUME Init PROVE BiddingTypeOK
    OBVIOUS
  <2>1. /\ campaigns \in Seq(ToSet(campaigns))
        /\ req.imps \in Seq(ToSet(req.imps))
    BY BiddingAssumption DEF Init, RequestAdmitted, CampaignAdmitted
  <2>2. Len(campaigns) \in Nat /\ Len(req.imps) \in Nat
    BY <2>1
  <2>3. Pairs \in Nat
    BY <2>2 DEF Pairs
  <2> QED BY <2>3 DEF Init, BiddingTypeOK
<1> QED BY <1>1, TypeStep, PTL DEF Spec

-----------------------------------------------------------------------------
(* A pair the loop looks at next joins the eligible ones, or does not. *)
LEMMA NextPair ==
  ASSUME BiddingTypeOK, Consider
  PROVE  /\ EligibleSoFar' = EligibleSoFar \cup {n \in {visited + 1} : EligiblePair(n)}
         /\ \A n : Price(n)' = Price(n)
         /\ visited + 1 \in 1 .. Pairs
         /\ \A n \in EligibleSoFar : n \in 1 .. Pairs /\ n <= visited
<1>1. Pairs \in Nat
  BY PairsIsNumber
<1>2. /\ visited \in Nat
      /\ visited < Pairs
      /\ visited' = visited + 1
      /\ req' = req
      /\ campaigns' = campaigns
  BY <1>1 DEF BiddingTypeOK, Consider
<1>3. \A n : EligiblePair(n)' = EligiblePair(n)
  BY <1>2 DEF EligiblePair, ImpAt, CampaignAt
<1>4. 1 .. visited' = (1 .. visited) \cup {visited + 1}
  BY <1>2
<1>5. EligibleSoFar' = {n \in 1 .. visited' : EligiblePair(n)}
  BY <1>3 DEF EligibleSoFar
<1>6. EligibleSoFar' = EligibleSoFar \cup {n \in {visited + 1} : EligiblePair(n)}
  BY <1>4, <1>5 DEF EligibleSoFar
<1>7. \A n : Price(n)' = Price(n)
  BY <1>2 DEF Price, CampaignAt
<1>8. \A n \in EligibleSoFar : n \in 1 .. Pairs /\ n <= visited
  BY <1>1, <1>2 DEF EligibleSoFar
<1> QED BY <1>1, <1>2, <1>6, <1>7, <1>8

LEMMA ConsiderKeepsBest ==
  ASSUME BiddingTypeOK, BestIsFirstHighest, Consider
  PROVE  BestIsFirstHighest'
<1> DEFINE new == visited + 1
<1>1. /\ \A n : Price(n)' = Price(n)
      /\ new \in 1 .. Pairs
      /\ \A n \in EligibleSoFar : n \in 1 .. Pairs /\ n <= visited
      /\ visited \in Nat
      /\ best' = IF EligiblePair(new) /\ Beats(new) THEN new ELSE best
  BY NextPair DEF Consider, BiddingTypeOK
<1>2. Price(new) \in Nat /\ \A n \in EligibleSoFar : Price(n) \in Nat
  BY <1>1, PriceIsNumber
<1>3. CASE ~EligiblePair(new)
  <2>1. EligibleSoFar' = EligibleSoFar /\ best' = best
    BY <1>1, <1>3, NextPair
  <2> QED BY <2>1, <1>1 DEF BestIsFirstHighest
<1>4. CASE EligiblePair(new) /\ EligibleSoFar = {}
  <2>1. EligibleSoFar' = {new} /\ best' = new
    BY <1>1, <1>4, NextPair DEF BestIsFirstHighest, Beats
  <2> QED BY <2>1, <1>1, <1>2 DEF BestIsFirstHighest
<1>5. CASE EligiblePair(new) /\ EligibleSoFar # {}
  <2>1. EligibleSoFar' = EligibleSoFar \cup {new}
    BY <1>5, NextPair
  <2>2. /\ best \in EligibleSoFar
        /\ \A n \in EligibleSoFar :
             Price(n) < Price(best) \/ (Price(n) = Price(best) /\ best <= n)
    BY <1>5 DEF BestIsFirstHighest
  <2>3. best # 0 /\ best \in Nat /\ best <= visited /\ Price(best) \in Nat
    BY <2>2, <1>1, <1>2, NextPair DEF EligibleSoFar
  <2>4. CASE Price(new) > Price(best)
    <3>1. best' = new
      BY <1>1, <1>5, <2>4 DEF Beats
    <3>2. \A n \in EligibleSoFar : Price(n) < Price(new)
      BY <2>2, <2>3, <2>4, <1>2
    <3>3. \A n \in EligibleSoFar' :
            Price(n) < Price(new) \/ (Price(n) = Price(new) /\ new <= n)
      BY <2>1, <3>2, <1>1, <1>2
    <3> QED BY <2>1, <3>1, <3>3, <1>1 DEF BestIsFirstHighest
  <2>5. CASE ~(Price(new) > Price(best))
    <3>1. best' = best
      BY <1>1, <2>3, <2>5 DEF Beats
    <3>2. Price(new) < Price(best) \/ (Price(new) = Price(best) /\ best <= new)
      BY <2>3, <2>5, <1>1, <1>2
    <3> QED BY <2>1, <2>2, <3>1, <3>2, <1>1 DEF BestIsFirstHighest
  <2> QED BY <2>4, <2>5
<1> QED BY <1>3, <1>4, <1>5

(***************************************************************************)
(* For every request and every portfolio the candidate the engine reserves *)
(* for is the first of the highest priced eligible ones (Bid,              *)
(* engine.go:138-156).                                                     *)
(***************************************************************************)
THEOREM BestIsChosen == Spec => []BestIsFirstHighest
<1>1. Init => BestIsFirstHighest
  BY DEF Init, BestIsFirstHighest, EligibleSoFar
<1>2. BiddingTypeOK /\ BestIsFirstHighest /\ [Next]_biddingVars => BestIsFirstHighest'
  <2> SUFFICES ASSUME BiddingTypeOK, BestIsFirstHighest, [Next]_biddingVars
               PROVE  BestIsFirstHighest'
    OBVIOUS
  <2>1. CASE Consider
    BY <2>1, ConsiderKeepsBest
  <2>2. CASE UNCHANGED <<req, cfg, campaigns, visited, best>>
    BY <2>2 DEF BestIsFirstHighest, EligibleSoFar, EligiblePair, Price, ImpAt, CampaignAt
  <2> QED BY <2>1, <2>2 DEF Next, NoneEligible, BestFound, Granted, Refused, biddingVars
<1> QED BY <1>1, <1>2, BiddingTypeCorrect, PTL DEF Spec

-----------------------------------------------------------------------------
(* Every impression meets every campaign: where the loop has them. *)
AtPosition(n, l, i, j) == ((n - 1) \div l) + 1 = i /\ ((n - 1) % l) + 1 = j

LEMMA PairPosition ==
  ASSUME NEW m \in Nat, NEW l \in Nat, NEW i \in 1 .. m, NEW j \in 1 .. l
  PROVE  \E n \in 1 .. m * l : AtPosition(n, l, i, j)
<1> DEFINE a == i - 1
           n == a * l + j
           q == (n - 1) \div l
           r == (n - 1) % l
<1>1. a \in Nat /\ a < m /\ l > 0 /\ a * l \in Nat
  BY SMT
<1>2. n \in Nat /\ n >= 1 /\ n - 1 = a * l + (j - 1)
  BY <1>1
<1>3. n <= m * l
  <2>1. (a + 1) * l <= m * l
    BY <1>1, SMT
  <2>2. (a + 1) * l = a * l + l
    BY <1>1, SMT
  <2> QED
    BY <1>1, <2>1, <2>2
<1> HIDE DEF n
<1>4. q \in Int /\ r \in 0 .. l - 1 /\ n - 1 = q * l + r
  BY <1>1, <1>2, SMT
<1> HIDE DEF q, r, a
<1>5. q * l + r = a * l + (j - 1)
  BY <1>2, <1>4
<1>6. q = a
  <2>1. ASSUME q >= a + 1 PROVE FALSE
    <3>1. q * l >= (a + 1) * l /\ (a + 1) * l = a * l + l
      BY <1>1, <1>4, <2>1, SMT
    <3>2. q * l \in Int
      BY <1>1, <1>4
    <3> QED
      BY <1>1, <1>4, <1>5, <3>1, <3>2
  <2>2. ASSUME q + 1 <= a PROVE FALSE
    <3>1. a * l >= (q + 1) * l /\ (q + 1) * l = q * l + l
      BY <1>1, <1>4, <2>2, SMT
    <3>2. q * l \in Int
      BY <1>1, <1>4
    <3> QED
      BY <1>1, <1>4, <1>5, <3>1, <3>2
  <2> QED
    BY <1>1, <1>4, <2>1, <2>2
<1>7. r = j - 1
  BY <1>1, <1>4, <1>5, <1>6
<1>8. q + 1 = i /\ r + 1 = j
  BY <1>6, <1>7 DEF a
<1>9. n \in 1 .. m * l
  <2>1. m * l \in Nat
    BY SMT
  <2> QED
    BY <1>2, <1>3, <2>1
<1> QED
  BY <1>8, <1>9 DEF q, r, AtPosition

LEMMA EveryPairIsLooked ==
  ASSUME BiddingTypeOK, NEW imp \in ToSet(req.imps), NEW c \in ToSet(campaigns)
  PROVE  \E n \in 1 .. Pairs : ImpAt(n) = imp /\ CampaignAt(n) = c
<1> DEFINE l == Len(campaigns)
           m == Len(req.imps)
<1>1. /\ campaigns \in Seq(ToSet(campaigns))
      /\ req.imps \in Seq(ToSet(req.imps))
  BY BiddingAssumption DEF BiddingTypeOK, RequestAdmitted
<1>2. l \in Nat /\ m \in Nat /\ DOMAIN req.imps = 1 .. m /\ DOMAIN campaigns = 1 .. l
  BY <1>1
<1>3. PICK i \in 1 .. m, j \in 1 .. l : imp = req.imps[i] /\ c = campaigns[j]
  BY <1>2 DEF ToSet
<1>4. PICK n \in 1 .. m * l : AtPosition(n, l, i, j)
  <2> HIDE DEF l, m
  <2> QED
    BY <1>2, PairPosition, Zenon
<1> QED
  BY <1>3, <1>4 DEF AtPosition, Pairs, ImpAt, CampaignAt

(***************************************************************************)
(* When the loop is over it has what BestPairs says of the request and the *)
(* portfolio as sets: the best candidate is of an eligible pair that no    *)
(* eligible pair of any impression and any campaign outbids, and there is  *)
(* none only if no pair is eligible.  Relay and Certification take         *)
(* BestPairs for Engine.Bid's choice (engine.go:138-156).                  *)
(***************************************************************************)
LoopFindsBestPair ==
  visited = Pairs =>
    IF best = 0 THEN BestPairs(req, campaigns) = {}
    ELSE <<ImpAt(best), CampaignAt(best)>> \in BestPairs(req, campaigns)

(***************************************************************************)
(* The loop over positions finds what BestPairs says of sets: for every    *)
(* request and every portfolio, the choice that Relay and Certification    *)
(* take for granted is the one the loop makes (Bid, engine.go:138-156).    *)
(***************************************************************************)
THEOREM LoopIsBestPairs == Spec => []LoopFindsBestPair
<1>1. BiddingTypeOK /\ BestIsFirstHighest => LoopFindsBestPair
  <2> SUFFICES ASSUME BiddingTypeOK, BestIsFirstHighest, visited = Pairs
               PROVE  IF best = 0 THEN BestPairs(req, campaigns) = {}
                      ELSE <<ImpAt(best), CampaignAt(best)>> \in BestPairs(req, campaigns)
    BY DEF LoopFindsBestPair
  <2>1. ASSUME NEW p \in EligiblePairs(req, campaigns)
        PROVE  \E n \in EligibleSoFar : CampaignAt(n) = p[2]
    <3>1. /\ p[1] \in ToSet(req.imps) /\ p[2] \in ToSet(campaigns)
          /\ Eligible(req, p[1], p[2])
      BY <2>1 DEF EligiblePairs
    <3>2. PICK n \in 1 .. Pairs : ImpAt(n) = p[1] /\ CampaignAt(n) = p[2]
      BY <3>1, EveryPairIsLooked
    <3> QED
      BY <3>1, <3>2 DEF EligibleSoFar, EligiblePair
  <2>2. CASE best = 0
    <3>1. EligibleSoFar = {}
      BY <2>2 DEF BestIsFirstHighest, EligibleSoFar
    <3>2. EligiblePairs(req, campaigns) = {}
      BY <2>1, <3>1
    <3> QED
      BY <2>2, <3>2 DEF BestPairs
  <2>3. CASE best # 0
    <3>1. /\ best \in EligibleSoFar
          /\ \A n \in EligibleSoFar : Price(n) <= Price(best)
      <4>1. best \in EligibleSoFar
        BY <2>3 DEF BestIsFirstHighest
      <4>2. \A n \in EligibleSoFar : n \in 1 .. Pairs
        BY DEF EligibleSoFar
      <4>3. \A n \in EligibleSoFar : Price(n) \in Nat
        BY <4>2, PriceIsNumber
      <4>4. \A n \in EligibleSoFar : Price(n) < Price(best) \/ Price(n) = Price(best)
        BY <4>1 DEF BestIsFirstHighest
      <4> QED
        BY <4>1, <4>3, <4>4
    <3>2. best \in 1 .. Pairs /\ Eligible(req, ImpAt(best), CampaignAt(best))
      BY <3>1 DEF EligibleSoFar, EligiblePair
    <3>3. ImpAt(best) \in ToSet(req.imps) /\ CampaignAt(best) \in ToSet(campaigns)
      BY <3>2, PairHasImp, PairIsOfPortfolio
    <3> DEFINE p == <<ImpAt(best), CampaignAt(best)>>
    <3>4. p[1] = ImpAt(best) /\ p[2] = CampaignAt(best)
      OBVIOUS
    <3>5. p \in EligiblePairs(req, campaigns)
      BY <3>2, <3>3 DEF EligiblePairs
    <3>6. \A q \in EligiblePairs(req, campaigns) : q[2].price <= CampaignAt(best).price
      BY <2>1, <3>1 DEF Price
    <3> HIDE DEF p
    <3>7. p \in BestPairs(req, campaigns)
      BY <3>4, <3>5, <3>6 DEF BestPairs
    <3> QED
      BY <2>3, <3>7 DEF p
  <2> QED
    BY <2>2, <2>3
<1> QED
  BY <1>1, BiddingTypeCorrect, BestIsChosen, PTL

-----------------------------------------------------------------------------
(* A response is the one for the best pair, and that one was eligible. *)
AnswersBest ==
  response # None => response = ResponseFor(cfg, req, Best) /\ EligiblePair(best)

LEMMA AnswersBestHolds == Spec => []AnswersBest
<1>1. Init => AnswersBest
  BY DEF Init, AnswersBest
<1>2. BiddingTypeOK /\ BestIsFirstHighest /\ AnswersBest /\ [Next]_biddingVars => AnswersBest'
  <2> SUFFICES ASSUME BiddingTypeOK, BestIsFirstHighest, AnswersBest, [Next]_biddingVars
               PROVE  AnswersBest'
    OBVIOUS
  <2>1. CASE Granted
    <3>1. best # 0
      BY <2>1 DEF Granted, BiddingTypeOK
    <3>2. EligiblePair(best)
      BY <3>1 DEF BestIsFirstHighest, EligibleSoFar
    <3>3. EligiblePair(best)' = EligiblePair(best) /\ Best' = Best /\ req' = req
      BY <2>1 DEF Granted, EligiblePair, Best, ImpAt, CampaignAt
    <3> QED
      BY <2>1, <3>2, <3>3 DEF Granted, AnswersBest
  <2>2. CASE Consider
    BY <2>2 DEF Consider, BiddingTypeOK, AnswersBest
  <2>3. CASE UNCHANGED <<req, cfg, campaigns, visited, best, response>>
    BY <2>3 DEF AnswersBest, EligiblePair, Best, ImpAt, CampaignAt
  <2> QED
    BY <2>1, <2>2, <2>3 DEF Next, NoneEligible, BestFound, Refused, biddingVars
<1> QED
  BY <1>1, <1>2, BiddingTypeCorrect, BestIsChosen, PTL DEF Spec

(***************************************************************************)
(* Whatever is asked and whatever is configured, a bid's creative is one   *)
(* the device and the user allow and no blocked advertiser's               *)
(* (engine.go:200-233, 313-321 and 360-371).                               *)
(***************************************************************************)
THEOREM PrivacyIsKept == Spec => []PrivacyKept
<1>1. BiddingTypeOK /\ AnswersBest => PrivacyKept
  <2> SUFFICES ASSUME BiddingTypeOK, AnswersBest, response # None
               PROVE  LET cr == Best.creative IN
                      /\ cr.approved
                      /\ cr.requiresIFA => req.ifa /\ ~req.lmt
                      /\ cr.blockedCOPPA => ~req.coppa
                      /\ \A d \in ToSet(response.seatbid[1].bids[1].adomain) : d \notin req.badv
    BY Zenon DEF PrivacyKept
  <2> DEFINE imp == ImpAt(best)
             c == CampaignAt(best)
  <2>1. response = ResponseFor(cfg, req, Best) /\ Eligible(req, imp, c)
    BY DEF AnswersBest, EligiblePair
  <2>2. Best.creative = Chosen(req, imp, c)
    BY DEF Best, Candidate
  <2>3. response.seatbid[1].bids[1].adomain = Best.creative.adomain
    BY <2>1 DEF ResponseFor, BidFor
  <2>4. c.creatives \in Seq(ToSet(c.creatives))
    <3>1. best \in 1 .. Pairs
      BY PairsIsNumber DEF BiddingTypeOK
    <3> QED
      BY <3>1, PairHasCampaign DEF CampaignAdmitted
  <2> QED
    BY <2>1, <2>2, <2>3, <2>4, EligibleCreative
<1> QED
  BY <1>1, BiddingTypeCorrect, AnswersBestHolds, PTL

(***************************************************************************)
(* Whatever is asked and whatever is configured with care, the response    *)
(* passes ClearLedger's validator (engine.go:161-233,                      *)
(* response_validate.go:13-106).                                           *)
(***************************************************************************)
THEOREM CarefulBidsPass == Spec => []CarefulBidsAreValid
<1>1. BiddingTypeOK /\ AnswersBest => CarefulBidsAreValid
  <2> SUFFICES ASSUME BiddingTypeOK, AnswersBest, response # None, Careful(cfg, Best)
               PROVE  ValidateBidResponse(req, response)
    BY DEF CarefulBidsAreValid
  <2> DEFINE imp == ImpAt(best)
             c == CampaignAt(best)
  <2>1. response = ResponseFor(cfg, req, Best) /\ Eligible(req, imp, c)
    BY DEF AnswersBest, EligiblePair
  <2>2. Best = Candidate(req, imp, c) /\ Best.campaign = c /\ Best.imp = imp
    BY DEF Best, Candidate
  <2>3. CampaignAdmitted(c) /\ RequestImp(req, imp)
    <3>1. best \in 1 .. Pairs
      BY PairsIsNumber DEF BiddingTypeOK
    <3>2. RequestAdmitted(req)
      BY BiddingAssumption DEF BiddingTypeOK
    <3> QED
      BY <3>1, <3>2, PairHasCampaign, PairHasImp DEF RequestImp
  <2>4. ValidBid(imp, BidFor(cfg, Best))
    <3>1. EngineAdmitted(cfg)
      BY BiddingAssumption DEF BiddingTypeOK
    <3> QED
      BY <2>1, <2>2, <2>3, <3>1, CarefulBid
  <2>5. req.cur # {} => Currency \in req.cur
    BY <2>1, Zenon DEF Eligible, CurrencyAccepted
  <2>6. ~Blank(c.seat) /\ imp \in ToSet(req.imps)
    BY <2>3 DEF CampaignAdmitted, RequestImp
  <2> HIDE DEF c, imp
  <2> QED
    BY <2>1, <2>2, <2>4, <2>5, <2>6, ResponsePasses
<1> QED
  BY <1>1, BiddingTypeCorrect, AnswersBestHolds, PTL
=============================================================================
