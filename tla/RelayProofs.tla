----------------------------- MODULE RelayProofs -----------------------------
(***************************************************************************)
(* Proofs about Relay: what a request still says after it was decoded,     *)
(* put on a lane's terms, written out and decoded again.                   *)
(***************************************************************************)
EXTENDS Relay, EvaluationProofs

-----------------------------------------------------------------------------
(***************************************************************************)
(* One impression, read again.                                             *)
(***************************************************************************)
LEMMA ReadAgain ==
  ASSUME NEW imp, Stable(imp)
  PROVE  Typed(NormalImp(Untyped(imp))) = [imp EXCEPT !.floor = NormalFloor(imp)]
<1>1. PICK m : Untyped(imp) = [imp EXCEPT !.media = m]
  BY Zenon DEF Untyped
<1> DEFINE u == [imp EXCEPT !.media = m]
           n == NormalImp(u)
           t == Typed(n)
<1>2. WrittenImp(imp) /\ DOMAIN imp = ImpFields
  BY DEF Stable, WrittenImp
<1>3. /\ WrittenImp(u) /\ MediaType(u) = MediaType(imp)
      /\ \A k \in ImpFields \ {"media"} : u[k] = imp[k]
  BY <1>2, TypedFields
<1>4. /\ u.floor = imp.floor /\ u.floorCur = imp.floorCur /\ u.native = imp.native
      /\ u.placement = imp.placement /\ u.plcmt = imp.plcmt
      /\ u.extFloors = imp.extFloors /\ u.extCurs = imp.extCurs
      /\ u.objects = imp.objects
  <2> HIDE DEF u
  <2> QED
    BY <1>3 DEF ImpFields
<1> HIDE DEF u
<1>5. /\ WrittenImp(n)
      /\ n.floor = NormalFloor(imp) /\ n.floorCur = imp.floorCur /\ n.native = imp.native
      /\ n.placement = imp.placement /\ n.plcmt = imp.plcmt
      /\ \A k \in ImpFields \ {"floor", "floorCur", "native", "placement", "plcmt"} :
              n[k] = u[k]
  <2>1. /\ NormalFloor(u) = NormalFloor(imp)
        /\ NormalCur(u) = imp.floorCur
    BY <1>4 DEF NormalFloor, NormalCur, Stable
  <2>2. NormalNative(u.native) = imp.native
    BY <1>4 DEF Stable
  <2>3. /\ EitherOf(u.placement, u.plcmt) = imp.placement
        /\ EitherOf(u.plcmt, u.placement) = imp.plcmt
    BY <1>4 DEF Stable
  <2> QED
    BY <1>3, <2>1, <2>2, <2>3, NormalImpFields
<1>6. n.objects = imp.objects
  <2> HIDE DEF n
  <2> QED
    BY <1>4, <1>5 DEF ImpFields
<1> HIDE DEF n
<1>7. MediaType(n) = imp.media
  <2>1. MediaType(n) = MediaType(imp)
    BY <1>6, Zenon DEF MediaType
  <2> QED
    BY <2>1 DEF Stable
<1>8. t = [n EXCEPT !.media = imp.media]
  BY <1>7 DEF Typed
<1>9. \A k \in ImpFields : t[k] = IF k = "floor" THEN NormalFloor(imp) ELSE imp[k]
  <2> TAKE k \in ImpFields
  <2>1. DOMAIN n = ImpFields
    BY <1>5 DEF WrittenImp
  <2>2. CASE k = "media"
    BY <1>8, <2>1, <2>2
  <2>3. CASE k \in {"floor", "floorCur", "native", "placement", "plcmt"}
    BY <1>5, <1>8, <2>1, <2>3
  <2>4. CASE k \notin {"media", "floor", "floorCur", "native", "placement", "plcmt"}
    <3>1. t[k] = n[k]
      BY <1>8, <2>1, <2>4
    <3>2. n[k] = u[k] /\ u[k] = imp[k]
      BY <1>3, <1>5, <2>4
    <3> QED
      BY <2>4, <3>1, <3>2
  <2> QED
    BY <2>2, <2>3, <2>4
<1>10. t = [imp EXCEPT !.floor = NormalFloor(imp)]
  <2>1. DOMAIN t = ImpFields /\ t = [k \in DOMAIN t |-> t[k]]
    BY <1>5, <1>8 DEF WrittenImp
  <2> HIDE DEF t
  <2> QED
    BY <1>2, <1>9, <2>1
<1> QED
  BY <1>1, <1>10 DEF n, u

(* The lane's terms leave an impression stable, and its floor is the       *)
(* lane's.                                                                 *)
LEMMA OnLaneFields ==
  ASSUME NEW l, NEW imp, WrittenImp(imp)
  PROVE  LET o == OnLane(l, imp) IN
         /\ DOMAIN o = ImpFields
         /\ o.floor = l.floor /\ o.floorCur = l.cur /\ o.pmp = LanePMP(l, imp.pmp)
         /\ \A k \in ImpFields \ {"floor", "floorCur", "pmp", "tag", "proof"} : o[k] = imp[k]
<1>1. DOMAIN imp = ImpFields
  BY DEF WrittenImp
<1> QED
  BY <1>1 DEF OnLane, ImpFields

LEMMA StableOnLane ==
  ASSUME NEW l \in Lanes, NEW imp, Stable(imp)
  PROVE  Stable(OnLane(l, imp))
<1> DEFINE o == OnLane(l, imp)
<1>1. WrittenImp(imp) /\ l.floor \in Int /\ ~Blank(l.cur)
  BY RelayAssumption DEF Stable
<1>2. /\ DOMAIN o = ImpFields
      /\ o.floor = l.floor /\ o.floorCur = l.cur /\ o.pmp = LanePMP(l, imp.pmp)
      /\ \A k \in ImpFields \ {"floor", "floorCur", "pmp", "tag", "proof"} : o[k] = imp[k]
  BY <1>1, OnLaneFields
<1> HIDE DEF o
<1>3. /\ o.objects = imp.objects /\ o.media = imp.media /\ o.native = imp.native
      /\ o.placement = imp.placement /\ o.plcmt = imp.plcmt
      /\ o.extFloors = imp.extFloors /\ o.extCurs = imp.extCurs
  BY <1>2 DEF ImpFields
<1>4. o.pmp.deals \in Seq(ToSet(o.pmp.deals))
  <2>1. CASE Blank(l.deal)
    BY <1>1, <1>2, <2>1 DEF LanePMP, WrittenImp
  <2>2. CASE ~Blank(l.deal)
    <3> DEFINE d == [id |-> l.deal, floor |-> l.floor, cur |-> l.cur]
    <3>1. o.pmp.deals = <<d>>
      BY <1>2, <2>2 DEF LanePMP
    <3> HIDE DEF d
    <3> QED
      BY <3>1 DEF ToSet
  <2> QED
    BY <2>1, <2>2
<1>5. WrittenImp(o)
  BY <1>1, <1>2, <1>3, <1>4 DEF WrittenImp
<1>6. MediaType(o) = o.media
  <2>1. MediaType(o) = MediaType(imp)
    BY <1>3, Zenon DEF MediaType
  <2> QED
    BY <1>3, <2>1 DEF Stable
<1>7. NormalCur(o) = o.floorCur
  BY <1>1, <1>2 DEF NormalCur
<1>8. Stable(o)
  BY <1>3, <1>5, <1>6, <1>7 DEF Stable
<1> QED
  BY <1>8 DEF o

(* What the validation asks of an impression that is read well. *)
LEMMA ValidOnLane ==
  ASSUME NEW l \in Lanes, NEW imp, WrittenImp(imp), ValidImp(imp), l.floor >= 0
  PROVE  ValidImp(OnLane(l, imp))
<1> DEFINE o == OnLane(l, imp)
<1>1. l.floor \in Nat
  BY RelayAssumption
<1>2. /\ o.floor = l.floor /\ o.pmp = LanePMP(l, imp.pmp)
      /\ \A k \in ImpFields \ {"floor", "floorCur", "pmp", "tag", "proof"} : o[k] = imp[k]
  BY OnLaneFields
<1> HIDE DEF o
<1>3. /\ o.id = imp.id /\ o.objects = imp.objects /\ o.w = imp.w /\ o.h = imp.h
      /\ o.minDur = imp.minDur /\ o.maxDur = imp.maxDur
      /\ o.native = imp.native /\ o.assets = imp.assets
  BY <1>2 DEF ImpFields
<1>4. \A d \in ToSet(o.pmp.deals) : ~Blank(d.id) /\ d.floor \in Nat
  <2>1. CASE Blank(l.deal)
    BY <1>2, <2>1 DEF LanePMP, ValidImp
  <2>2. CASE ~Blank(l.deal)
    <3> DEFINE d == [id |-> l.deal, floor |-> l.floor, cur |-> l.cur]
    <3>1. o.pmp.deals = <<d>>
      BY <1>2, <2>2 DEF LanePMP
    <3>2. ~Blank(d.id) /\ d.floor \in Nat
      BY <1>1, <2>2
    <3> HIDE DEF d
    <3> QED
      BY <3>1, <3>2 DEF ToSet
  <2> QED
    BY <2>1, <2>2
<1>5. ValidImp(o)
  BY <1>1, <1>2, <1>3, <1>4 DEF ValidImp
<1> QED
  BY <1>5 DEF o

-----------------------------------------------------------------------------
(***************************************************************************)
(* One body.                                                               *)
(***************************************************************************)
LEMMA SignalsOnce ==
  ASSUME NEW b, NEW c, c.signals = NormalSignals(b), c.alias = b.alias
  PROVE  NormalSignals(c) = NormalSignals(b)
<1> DEFINE s == NormalSignals(b)
<1>1. s = [k \in DOMAIN b.signals \cup {x \in Signals : TakesAlias(b, x)} |->
             IF TakesAlias(b, k) THEN b.alias[k] ELSE b.signals[k]]
  BY DEF NormalSignals
<1>2. ASSUME NEW k \in DOMAIN s \cup Signals PROVE ~TakesAlias(c, k)
  <2>1. CASE TakesAlias(b, k)
    <3>1. k \in DOMAIN s /\ s[k] = b.alias[k]
      BY <1>1, <2>1
    <3>2. k \notin RegsKeys /\ k # "schain" => b.alias[k] # "empty"
      BY <2>1 DEF TakesAlias
    <3> QED
      BY <3>1, <3>2 DEF TakesAlias, StatedSignal
  <2>2. CASE ~TakesAlias(b, k)
    <3>1. k \in DOMAIN s <=> k \in DOMAIN b.signals
      BY <1>1, <2>2
    <3>2. k \in DOMAIN b.signals => s[k] = b.signals[k]
      BY <1>1, <2>2
    <3> HIDE DEF s
    <3>3. c.signals = s
      BY DEF s
    <3> QED
      BY <2>2, <3>1, <3>2, <3>3 DEF TakesAlias, StatedSignal
  <2> QED
    BY <2>1, <2>2
<1> QED
  BY <1>1, <1>2 DEF NormalSignals

-----------------------------------------------------------------------------
(***************************************************************************)
(* A request of the harness: decoded, put on the lane's terms, written out *)
(* (Outgoing) and decoded again.                                           *)
(***************************************************************************)
Kept(l, b) == ApplyLane(l, Decoded(b))

LEMMA KeptFields ==
  ASSUME NEW l \in Lanes, NEW b, WrittenBody(b), b.imps # <<>>
  PROVE  LET k == Kept(l, b) IN
         /\ DOMAIN k = BodyFields
         /\ IsRecord(k, BodyFields)
         /\ k.cur = {l.cur}
         /\ k.signals = NormalSignals(b)
         /\ k.coppa = ChildDirected(NormalSignals(b))
         /\ \A f \in BodyFields \ {"cur", "imps", "supply", "signals", "coppa"} : k[f] = b[f]
         /\ DOMAIN k.imps = DOMAIN b.imps
         /\ 1 \in DOMAIN b.imps
         /\ IsRecord(k.imps, DOMAIN b.imps)
         /\ \A i \in DOMAIN b.imps :
              k.imps[i] = IF i = 1 THEN OnLane(l, Typed(NormalImp(b.imps[i])))
                                   ELSE Typed(NormalImp(b.imps[i]))
<1> DEFINE d == Decoded(b)
           k == Kept(l, b)
<1>1. /\ DOMAIN d = BodyFields
      /\ d.imps = [i \in DOMAIN b.imps |-> Typed(NormalImp(b.imps[i]))]
      /\ d.signals = NormalSignals(b)
      /\ d.coppa = ChildDirected(NormalSignals(b))
      /\ \A f \in BodyFields \ {"imps", "supply", "signals", "coppa"} : d[f] = b[f]
  BY DecodedFields
<1>2. k = [d EXCEPT !.cur = {l.cur}, !.imps = [d.imps EXCEPT ![1] = OnLane(l, d.imps[1])],
                    !.supply = LaneSupply(l, d.supply)]
  <2> HIDE DEF d
  <2>1. ApplyLane(l, d) =
          [d EXCEPT !.cur = {l.cur}, !.imps = [d.imps EXCEPT ![1] = OnLane(l, d.imps[1])],
                    !.supply = LaneSupply(l, d.supply)]
    BY <1>1 DEF ApplyLane, BodyFields
  <2> QED
    BY <2>1 DEF Kept, d
<1> HIDE DEF d, k
<1>3. /\ DOMAIN k = BodyFields
      /\ IsRecord(k, BodyFields)
      /\ k.imps = [d.imps EXCEPT ![1] = OnLane(l, d.imps[1])]
      /\ k.cur = {l.cur}
      /\ \A f \in BodyFields \ {"cur", "imps", "supply"} : k[f] = d[f]
  <2>1. DOMAIN k = BodyFields
    BY <1>1, <1>2
  <2>2. IsRecord(k, BodyFields)
    BY <1>1, <1>2 DEF IsRecord
  <2>3. {"cur", "imps", "supply"} \subseteq DOMAIN d
    BY <1>1 DEF BodyFields
  <2>4. k.imps = [d.imps EXCEPT ![1] = OnLane(l, d.imps[1])] /\ k.cur = {l.cur}
    BY <1>2, <2>3
  <2>5. \A f \in BodyFields \ {"cur", "imps", "supply"} : k[f] = d[f]
    BY <1>1, <1>2
  <2> QED
    BY <2>1, <2>2, <2>4, <2>5
<1>4. 1 \in DOMAIN b.imps
  <2>1. b.imps \in Seq(ToSet(b.imps))
    BY DEF WrittenBody
  <2> QED
    BY <2>1, EmptySeq, LenProperties
<1>5. /\ DOMAIN k.imps = DOMAIN b.imps
      /\ IsRecord(k.imps, DOMAIN b.imps)
      /\ \A i \in DOMAIN b.imps :
           k.imps[i] = IF i = 1 THEN OnLane(l, Typed(NormalImp(b.imps[i])))
                                ELSE Typed(NormalImp(b.imps[i]))
  BY <1>1, <1>3, <1>4 DEF IsRecord
<1>6. \A f \in BodyFields \ {"cur", "imps", "supply", "signals", "coppa"} : k[f] = b[f]
  BY <1>1, <1>3
<1>7. k.signals = NormalSignals(b) /\ k.coppa = ChildDirected(NormalSignals(b))
  BY <1>1, <1>3 DEF BodyFields
<1> QED
  BY <1>3, <1>4, <1>5, <1>6, <1>7 DEF k

LEMMA KeptImps ==
  ASSUME NEW l \in Lanes, NEW b, WrittenBody(b), b.imps # <<>>, NEW i \in DOMAIN b.imps
  PROVE  LET k == Kept(l, b).imps[i] IN
         /\ Stable(k)
         /\ k.id = b.imps[i].id
         /\ l.floor >= 0 /\ ValidBody(Normal(b)) => ValidImp(k)
<1> DEFINE m == NormalImp(b.imps[i])
           t == Typed(m)
           k == Kept(l, b).imps[i]
<1>1. /\ WrittenImp(b.imps[i]) /\ WrittenImp(m) /\ Stable(t)
      /\ \A f \in ImpFields \ {"media"} : t[f] = m[f]
  BY NormalImpOfBody
<1>2. m.id = b.imps[i].id
  BY <1>1, NormalImpFields DEF ImpFields
<1>3. k = IF i = 1 THEN OnLane(l, t) ELSE t
  BY KeptFields
<1>4. ValidBody(Normal(b)) => ValidImp(m)
  BY ValidNormal
<1> HIDE DEF m, t, k
<1>5. WrittenImp(t) /\ t.id = m.id
  BY <1>1 DEF Stable, ImpFields
<1>6. ValidBody(Normal(b)) => ValidImp(t)
  <2>1. t.floor = m.floor
    BY <1>1 DEF ImpFields
  <2>2. ValidImp(m) => m.floor \in Nat
    BY DEF ValidImp
  <2> QED
    BY <1>1, <1>4, <2>1, <2>2, ValidUpToFloor
<1>7. OnLane(l, t).id = t.id
  BY <1>5, OnLaneFields DEF ImpFields
<1>8. Stable(k) /\ k.id = b.imps[i].id
  BY <1>1, <1>2, <1>3, <1>5, <1>7, StableOnLane
<1>9. l.floor >= 0 /\ ValidBody(Normal(b)) => ValidImp(k)
  BY <1>3, <1>5, <1>6, ValidOnLane
<1> QED
  BY <1>8, <1>9 DEF k

Wire(l, b) == Marshal(Kept(l, b))

LEMMA WireFields ==
  ASSUME NEW l \in Lanes, NEW b, WrittenBody(b), b.imps # <<>>
  PROVE  LET w == Wire(l, b)
             k == Kept(l, b)
         IN  /\ WrittenBody(w)
             /\ w.rootHints = <<>> /\ w.supplies = {k.supply}
             /\ \A f \in BodyFields \ {"rootHints", "supplies", "supply", "coppa", "imps"} :
                  w[f] = k[f]
             /\ DOMAIN w.imps = DOMAIN b.imps
             /\ w.imps # <<>>
             /\ \A i \in DOMAIN b.imps : w.imps[i] = Untyped(k.imps[i])
<1> DEFINE w == Wire(l, b)
           k == Kept(l, b)
<1>1. /\ DOMAIN k = BodyFields
      /\ DOMAIN k.imps = DOMAIN b.imps
      /\ 1 \in DOMAIN b.imps
      /\ \A f \in BodyFields \ {"cur", "imps", "supply", "signals", "coppa"} : k[f] = b[f]
  BY KeptFields
<1>2. w = [k EXCEPT !.rootHints = <<>>, !.supplies = {k.supply}, !.supply = NoSupply,
                    !.coppa = FALSE, !.imps = [i \in DOMAIN k.imps |-> Untyped(k.imps[i])]]
  <2> HIDE DEF k
  <2>1. Marshal(k) =
          [k EXCEPT !.rootHints = <<>>, !.supplies = {k.supply}, !.supply = NoSupply,
                    !.coppa = FALSE, !.imps = [i \in DOMAIN k.imps |-> Untyped(k.imps[i])]]
    BY <1>1 DEF Marshal, BodyFields
  <2> QED
    BY <2>1 DEF Wire, k
<1>3. \A i \in DOMAIN b.imps : WrittenImp(k.imps[i])
  BY KeptImps DEF Stable
<1> HIDE DEF w, k
<1>4. \A i \in DOMAIN b.imps : WrittenImp(Untyped(k.imps[i]))
  <2> TAKE i \in DOMAIN b.imps
  <2>1. PICK m : Untyped(k.imps[i]) = [k.imps[i] EXCEPT !.media = m]
    BY Zenon DEF Untyped
  <2>2. WrittenImp(k.imps[i])
    BY <1>3
  <2>3. WrittenImp([k.imps[i] EXCEPT !.media = m])
    BY <2>2, TypedFields
  <2> QED
    BY <2>1, <2>3
<1>5. {"rootHints", "supplies", "imps", "extHints"} \subseteq BodyFields
  BY DEF BodyFields
<1>6. /\ DOMAIN w = BodyFields
      /\ \A f \in BodyFields \ {"rootHints", "supplies", "supply", "coppa", "imps"} : w[f] = k[f]
  BY <1>1, <1>2
<1>7. /\ w.rootHints = <<>> /\ w.supplies = {k.supply}
      /\ w.imps = [i \in DOMAIN k.imps |-> Untyped(k.imps[i])]
  BY <1>1, <1>2, <1>5
<1>8. /\ DOMAIN w.imps = DOMAIN b.imps
      /\ \A i \in DOMAIN b.imps : w.imps[i] = Untyped(k.imps[i])
  BY <1>1, <1>7
<1>9. w.imps \in Seq(ToSet(w.imps)) /\ w.imps # <<>>
  <2>1. PICK n \in Nat : DOMAIN b.imps = 1 .. n
    BY LenProperties DEF WrittenBody
  <2>2. w.imps \in [1 .. n -> {w.imps[i] : i \in 1 .. n}]
    BY <1>1, <1>7, <2>1
  <2>3. w.imps \in Seq(ToSet(w.imps)) /\ DOMAIN w.imps = 1 .. n
    BY <2>2, SeqOverRange
  <2>4. w.imps # <<>>
    BY <1>1, <1>8, <2>3, EmptyDomain
  <2> QED
    BY <2>3, <2>4
<1>10. w.extHints \in Seq(ToSet(w.extHints)) /\ w.rootHints \in Seq(ToSet(w.rootHints))
  <2>1. w.extHints = b.extHints
    BY <1>1, <1>5, <1>6 DEF BodyFields
  <2>2. b.extHints \in Seq(ToSet(b.extHints))
    BY DEF WrittenBody
  <2> QED
    BY <1>7, <2>1, <2>2, EmptySeq
<1>11. WrittenBody(w)
  BY <1>4, <1>6, <1>8, <1>9, <1>10 DEF WrittenBody
<1> QED
  BY <1>6, <1>7, <1>8, <1>9, <1>11 DEF w, k

LEMMA WireIds ==
  ASSUME NEW l \in Lanes, NEW b, WrittenBody(b), b.imps # <<>>, NEW i \in DOMAIN b.imps
  PROVE  Wire(l, b).imps[i].id = b.imps[i].id
<1> DEFINE k == Kept(l, b).imps[i]
<1>1. WrittenImp(k) /\ k.id = b.imps[i].id
  BY KeptImps DEF Stable
<1>2. Wire(l, b).imps[i] = Untyped(k)
  BY WireFields
<1> HIDE DEF k
<1>3. PICK m : Untyped(k) = [k EXCEPT !.media = m]
  BY Zenon DEF Untyped
<1>4. [k EXCEPT !.media = m].id = k.id
  BY <1>1, TypedFields DEF ImpFields
<1> QED
  BY <1>1, <1>2, <1>3, <1>4

LEMMA WireImps ==
  ASSUME NEW l \in Lanes, NEW b, WrittenBody(b), b.imps # <<>>, NEW i \in DOMAIN b.imps
  PROVE  LET n == NormalImp(Wire(l, b).imps[i])
             k == Kept(l, b).imps[i]
         IN  /\ Typed(n) = [k EXCEPT !.floor = NormalFloor(k)]
             /\ l.floor >= 0 /\ ValidBody(Normal(b)) => ValidImp(n)
<1> DEFINE k == Kept(l, b).imps[i]
           u == Wire(l, b).imps[i]
           n == NormalImp(u)
<1>1. /\ Stable(k)
      /\ l.floor >= 0 /\ ValidBody(Normal(b)) => ValidImp(k)
  BY KeptImps
<1>2. u = Untyped(k) /\ WrittenImp(u)
  BY WireFields DEF WrittenBody
<1>3. Typed(NormalImp(Untyped(k))) = [k EXCEPT !.floor = NormalFloor(k)]
  BY <1>1, ReadAgain
<1> HIDE DEF k, u
<1>4. WrittenImp(k) /\ DOMAIN k = ImpFields
  BY <1>1 DEF Stable, WrittenImp
<1>5. WrittenImp(n)
  BY <1>2, NormalImpFields
<1> HIDE DEF n
<1>6. n = NormalImp(Untyped(k)) /\ Typed(n) = [k EXCEPT !.floor = NormalFloor(k)]
  BY <1>2, <1>3 DEF n
<1>7. /\ \A f \in ImpFields \ {"media"} : Typed(n)[f] = n[f]
  BY <1>5, TypedFields DEF Typed
<1>8. \A f \in ImpFields \ {"media", "floor"} : n[f] = k[f]
  BY <1>4, <1>6, <1>7
<1>9. n.floor = NormalFloor(k)
  BY <1>4, <1>6, <1>7 DEF ImpFields
<1>10. ASSUME ValidImp(k) PROVE ValidImp(n)
  <2>1. NormalFloor(k) \in Nat
    BY <1>4, <1>10 DEF NormalFloor, WrittenImp, ValidImp
  <2> QED
    BY <1>4, <1>8, <1>9, <1>10, <2>1, ValidUpToFloor
<1> QED
  BY <1>1, <1>6, <1>10 DEF k, u, n

(* Lane terms and a second decoding do not make a request malformed. *)
LEMMA WireIsValid ==
  ASSUME NEW l \in Lanes, NEW b, WrittenBody(b), ValidBody(Normal(b)), l.floor >= 0
  PROVE  ValidBody(Normal(Wire(l, b)))
<1> DEFINE w == Wire(l, b)
<1>1. /\ ~Blank(b.id)
      /\ b.imps # <<>>
      /\ b.tmax >= 0
      /\ \A i, j \in DOMAIN b.imps : b.imps[i].id = b.imps[j].id => i = j
  BY ValidNormal
<1>2. /\ WrittenBody(w) /\ w.supplies = {Kept(l, b).supply}
      /\ DOMAIN w.imps = DOMAIN b.imps /\ w.imps # <<>>
      /\ w.id = Kept(l, b).id /\ w.tmax = Kept(l, b).tmax
  BY <1>1, WireFields DEF BodyFields
<1>3. w.id = b.id /\ w.tmax = b.tmax
  BY <1>1, <1>2, KeptFields DEF BodyFields
<1>4. Cardinality(w.supplies) = 1
  BY <1>2, FS_Singleton
<1>5. ASSUME NEW i \in DOMAIN b.imps
      PROVE  w.imps[i].id = b.imps[i].id /\ ValidImp(NormalImp(w.imps[i]))
  <2>1. b.imps # <<>>
    BY <1>1
  <2>2. w.imps[i].id = b.imps[i].id
    BY <2>1, WireIds
  <2>3. ValidImp(NormalImp(w.imps[i]))
    BY <2>1, WireImps
  <2> QED
    BY <2>2, <2>3
<1> HIDE DEF w
<1>6. \A i, j \in DOMAIN w.imps : w.imps[i].id = w.imps[j].id => i = j
  BY <1>1, <1>2, <1>5
<1>7. ValidBody(Normal(w))
  BY <1>1, <1>2, <1>3, <1>4, <1>5, <1>6, ValidNormal
<1> QED
  BY <1>7 DEF w

(* What the bidder has decoded is what the harness has kept, but for a     *)
(* floor an alias has raised.                                              *)
LEMMA ViewFields ==
  ASSUME NEW l \in Lanes, NEW b, WrittenBody(b), b.imps # <<>>
  PROVE  LET v == Decoded(Wire(l, b))
             k == Kept(l, b)
         IN  /\ IsRecord(v, BodyFields)
             /\ \A f \in BodyFields \ {"rootHints", "supplies", "imps"} : v[f] = k[f]
             /\ DOMAIN v.imps = DOMAIN b.imps
             /\ IsRecord(v.imps, DOMAIN b.imps)
             /\ \A i \in DOMAIN b.imps :
                  v.imps[i] = [k.imps[i] EXCEPT !.floor = NormalFloor(k.imps[i])]
<1> DEFINE w == Wire(l, b)
           v == Decoded(w)
           k == Kept(l, b)
<1>1. /\ WrittenBody(w)
      /\ w.supplies = {k.supply}
      /\ \A f \in BodyFields \ {"rootHints", "supplies", "supply", "coppa", "imps"} : w[f] = k[f]
      /\ DOMAIN w.imps = DOMAIN b.imps
  BY WireFields
<1>2. /\ k.signals = NormalSignals(b)
      /\ k.coppa = ChildDirected(NormalSignals(b))
      /\ \A f \in BodyFields \ {"cur", "imps", "supply", "signals", "coppa"} : k[f] = b[f]
  BY KeptFields
<1>3. \A i \in DOMAIN b.imps :
        Typed(NormalImp(w.imps[i])) = [k.imps[i] EXCEPT !.floor = NormalFloor(k.imps[i])]
  <2> TAKE i \in DOMAIN b.imps
  <2> QED
    BY WireImps
<1> HIDE DEF w, k
<1>4. /\ IsRecord(v, BodyFields)
      /\ v.imps = [i \in DOMAIN w.imps |-> Typed(NormalImp(w.imps[i]))]
      /\ v.supply = CHOOSE s \in w.supplies : TRUE
      /\ v.signals = NormalSignals(w)
      /\ v.coppa = ChildDirected(NormalSignals(w))
      /\ \A f \in BodyFields \ {"imps", "supply", "signals", "coppa"} : v[f] = w[f]
  BY <1>1, DecodedFields
<1>5. NormalSignals(w) = NormalSignals(b)
  <2>1. w.signals = k.signals /\ w.alias = k.alias /\ k.alias = b.alias
    BY <1>1, <1>2 DEF BodyFields
  <2> QED
    BY <1>2, <2>1, SignalsOnce
<1> HIDE DEF v
<1>6. v.supply = k.supply /\ v.signals = k.signals /\ v.coppa = k.coppa
  BY <1>1, <1>2, <1>4, <1>5
<1>7. \A f \in BodyFields \ {"rootHints", "supplies", "imps"} : v[f] = k[f]
  BY <1>1, <1>4, <1>6
<1>8. /\ DOMAIN v.imps = DOMAIN b.imps
      /\ IsRecord(v.imps, DOMAIN b.imps)
      /\ \A i \in DOMAIN b.imps :
           v.imps[i] = [k.imps[i] EXCEPT !.floor = NormalFloor(k.imps[i])]
  BY <1>1, <1>3, <1>4 DEF IsRecord
<1> QED
  BY <1>4, <1>7, <1>8 DEF v, k, w

LEMMA OutboundIsKnown ==
  ASSUME NEW h, ~Blank(Outbound(h))
  PROVE  ~Blank(Classify(Outbound(h)))
  BY Zenon DEF Blank, Outbound, Classify

-----------------------------------------------------------------------------
(***************************************************************************)
(* The journey: what the variables hold at each stage.                     *)
(***************************************************************************)
Readable(b) == b.parses /\ ValidBody(Normal(b))

Known ==
  /\ body \in Bodies
  /\ engine \in Engines
  /\ lane \in Lanes \cup {None}
  /\ lane # None => \E h \in Headers : header = Outbound(h) /\ ~Blank(header)

Read ==
  /\ pc \in {"sample", "lane"} => lane # None
  /\ pc = "lane" => Readable(body) /\ kept = Decoded(body)

Sent ==
  pc \in {"wire", "malformed", "bid", "judge", "done"} =>
    IF lane = None THEN wire = body
    ELSE /\ Readable(body)
         /\ kept = Kept(lane, body) /\ wire = Wire(lane, body)
         /\ buyer \in ToSet(lane.buyers)

Seen ==
  /\ pc \in {"bid", "judge", "done"} => Readable(wire) /\ view = Decoded(wire)
  /\ view # None => pc \in {"bid", "judge", "done"}
  /\ pc = "malformed" => ~Decodes(wire, header, accepted)

Offered ==
  bid # None =>
    /\ pc \in {"judge", "done"}
    /\ \E cs \in Portfolios : \E p \in BestPairs(view, cs) : bid = Candidate(view, p[1], p[2])

Judged ==
  pc = "done" /\ bid # None =>
    valid = (lane # None /\ ValidCandidate(lane, buyer, kept, Response))

Journey == Known /\ Read /\ Sent /\ Seen /\ Offered /\ Judged

LEMMA JourneyBegins == RelayInit => Journey
<1> SUFFICES ASSUME RelayInit PROVE Journey
  OBVIOUS
<1>1. Known
  BY Zenon DEF RelayInit, Known, Blank
<1>2. /\ pc = IF lane = None THEN "wire" ELSE "sample"
      /\ wire = IF lane = None THEN body ELSE None
      /\ view = None /\ bid = None
  BY Zenon DEF RelayInit
<1> QED
  BY <1>1, <1>2 DEF Journey, Read, Sent, Seen, Offered, Judged

LEMMA JourneyGoesOn == Journey /\ [RelayNext]_relayVars => Journey'
<1> SUFFICES ASSUME Journey, [RelayNext]_relayVars PROVE Journey'
  OBVIOUS
<1> USE DEF Journey
<1>1. CASE ReadSample
  <2>1. /\ pc = "sample"
        /\ \/ pc' = "lane" /\ kept' = Decoded(body) /\ Readable(body)
           \/ pc' = "bad_sample" /\ UNCHANGED kept
        /\ UNCHANGED <<body, lane, header, accepted, engine, buyer, wire, view, bid, valid>>
    BY <1>1, Zenon DEF ReadSample, Decodes, Readable
  <2> QED
    BY <2>1 DEF Known, Read, Sent, Seen, Offered, Judged
<1>2. CASE Send
  <2>1. /\ pc = "lane"
        /\ kept' = ApplyLane(lane, kept)
        /\ \/ pc' = "wire" /\ wire' = Marshal(kept') /\ buyer' \in ToSet(lane.buyers)
           \/ pc' = "bad_lane" /\ UNCHANGED <<buyer, wire>>
        /\ UNCHANGED <<body, lane, header, accepted, engine, view, bid, valid>>
    BY <1>2, Zenon DEF Send
  <2>2. kept' = Kept(lane, body)
    BY <2>1 DEF Read, Kept
  <2>3. pc' = "wire" => wire' = Wire(lane, body)
    BY <2>1, <2>2 DEF Wire
  <2> QED
    BY <2>1, <2>2, <2>3 DEF Known, Read, Sent, Seen, Offered, Judged
<1>3. CASE Receive
  <2>1. /\ pc = "wire"
        /\ \/ pc' = "bid" /\ view' = Decoded(wire) /\ Readable(wire)
           \/ pc' = "malformed" /\ UNCHANGED view /\ ~Decodes(wire, header, accepted)
        /\ UNCHANGED <<body, lane, header, accepted, engine, buyer, kept, wire, bid, valid>>
    BY <1>3, Zenon DEF Receive, Decodes, Readable
  <2>2. Decodes(wire, header, accepted)' <=> Decodes(wire, header, accepted)
    BY <2>1
  <2> QED
    BY <2>1, <2>2 DEF Known, Read, Sent, Seen, Offered, Judged
<1>4. CASE Answer
  <2>1. /\ pc = "bid"
        /\ \/ /\ pc' = "judge"
              /\ \E cs \in Portfolios : \E p \in BestPairs(view, cs) :
                   bid' = Candidate(view, p[1], p[2])
           \/ pc' = "done" /\ UNCHANGED bid
        /\ UNCHANGED <<body, lane, header, accepted, engine, buyer, kept, wire, view, valid>>
    BY <1>4, Zenon DEF Answer
  <2>2. bid = None
    BY <2>1 DEF Offered
  <2> QED
    BY <2>1, <2>2 DEF Known, Read, Sent, Seen, Offered, Judged
<1>5. CASE Judge
  <2>1. /\ pc = "judge" /\ pc' = "done"
        /\ valid' = (lane # None /\ ValidCandidate(lane, buyer, kept, Response))
        /\ UNCHANGED <<body, lane, header, accepted, engine, buyer, kept, wire, view, bid>>
    BY <1>5, Zenon DEF Judge
  <2>2. Response' = Response
    BY <2>1 DEF Response
  <2>3. Judged'
    BY <2>1, <2>2, Zenon DEF Judged
  <2> QED
    BY <2>1, <2>3 DEF Known, Read, Sent, Seen, Offered
<1>6. CASE UNCHANGED relayVars
  <2>1. UNCHANGED <<body, lane, header, accepted, engine, buyer, kept, wire, view, bid, pc, valid>>
    BY <1>6 DEF relayVars
  <2>2. Response' = Response
    BY <2>1 DEF Response
  <2> QED
    BY <2>1, <2>2 DEF Known, Read, Sent, Seen, Offered, Judged
<1> QED
  BY <1>1, <1>2, <1>3, <1>4, <1>5, <1>6, Zenon DEF RelayNext

LEMMA JourneyHolds == RelaySpec => []Journey
  BY JourneyBegins, JourneyGoesOn, PTL DEF RelaySpec

(* What the bidder receives is a body, and a harness body has impressions. *)
LEMMA Received ==
  ASSUME Journey, pc \in {"wire", "malformed", "bid", "judge", "done"}
  PROVE  /\ WrittenBody(body)
         /\ WrittenBody(wire)
         /\ lane # None =>
              /\ lane \in Lanes
              /\ Readable(body) /\ body.imps # <<>>
              /\ kept = Kept(lane, body) /\ wire = Wire(lane, body)
         /\ lane = None => wire = body
<1>1. WrittenBody(body)
  BY RelayAssumption DEF Journey, Known
<1>2. CASE lane = None
  BY <1>1, <1>2 DEF Journey, Sent
<1>3. CASE lane # None
  <2>1. /\ lane \in Lanes /\ Readable(body)
        /\ kept = Kept(lane, body) /\ wire = Wire(lane, body)
    BY <1>3 DEF Journey, Known, Sent
  <2>2. body.imps # <<>>
    BY <1>1, <2>1, ValidNormal DEF Readable
  <2>3. WrittenBody(wire)
    BY <1>1, <2>1, <2>2, WireFields
  <2> QED
    BY <1>1, <1>3, <2>1, <2>2, <2>3
<1> QED
  BY <1>2, <1>3

LEMMA ViewIsAdmitted ==
  ASSUME Journey, pc \in {"bid", "judge", "done"}
  PROVE  view = Decoded(wire) /\ RequestAdmitted(view)
<1>1. Readable(wire) /\ view = Decoded(wire)
  BY DEF Journey, Seen
<1>2. WrittenBody(wire)
  BY <1>1, Received
<1> QED
  BY <1>1, <1>2, DecodedIsAdmitted DEF Readable

-----------------------------------------------------------------------------
(***************************************************************************)
(* The types.  What is on the wire and what the bidder has decoded are     *)
(* bodies, so that neither is ever mistaken for none.                      *)
(***************************************************************************)
Staged ==
  /\ accepted \in Accepts
  /\ pc \in {"sample", "lane", "wire", "bid", "judge", "done", "bad_sample", "bad_lane",
             "malformed"}
  /\ pc \in {"sample", "lane", "bad_sample", "bad_lane"} => wire = None
  /\ valid \in BOOLEAN

LEMMA StagedHolds == RelaySpec => []Staged
<1> USE DEF Staged
<1>1. RelayInit => Staged
  <2> SUFFICES ASSUME RelayInit PROVE Staged
    OBVIOUS
  <2>1. /\ accepted \in Accepts /\ valid = FALSE
        /\ pc = IF lane = None THEN "wire" ELSE "sample"
        /\ wire = IF lane = None THEN body ELSE None
    BY Zenon DEF RelayInit
  <2> QED
    BY <2>1
<1>2. Staged /\ [RelayNext]_relayVars => Staged'
  <2> SUFFICES ASSUME Staged, [RelayNext]_relayVars PROVE Staged'
    OBVIOUS
  <2>1. CASE ReadSample
    BY <2>1 DEF ReadSample
  <2>2. CASE Send
    BY <2>2 DEF Send
  <2>3. CASE Receive
    BY <2>3 DEF Receive
  <2>4. CASE Answer
    BY <2>4 DEF Answer
  <2>5. CASE Judge
    BY <2>5 DEF Judge
  <2>6. CASE UNCHANGED relayVars
    BY <2>6 DEF relayVars
  <2> QED
    BY <2>1, <2>2, <2>3, <2>4, <2>5, <2>6, Zenon DEF RelayNext
<1> QED
  BY <1>1, <1>2, PTL DEF RelaySpec

LEMMA NoBody ==
  ASSUME NEW b, DOMAIN b = BodyFields
  PROVE  b # None
<1>1. "none" \in DOMAIN None
  BY DEF None
<1>2. "none" \notin BodyFields
  BY DEF BodyFields
<1> QED
  BY <1>1, <1>2

(***************************************************************************)
(* The types of a request on its way: there is a body on the wire from the *)
(* call on, a decoded request from the decoding on, and no bid without one *)
(* (requestFromSample and RunHarness, harness.go:124-176, Server.openrtb,  *)
(* server.go:67-85).                                                       *)
(***************************************************************************)
THEOREM RelayTypes == RelaySpec => []RelayTypeOK
<1>1. Journey /\ Staged => RelayTypeOK
  <2> SUFFICES ASSUME Journey, Staged PROVE RelayTypeOK
    OBVIOUS
  <2>1. ASSUME pc \in {"wire", "malformed", "bid", "judge", "done"}
        PROVE  WrittenBody(wire) /\ wire # None
    <3>1. WrittenBody(wire)
      BY <2>1, Received
    <3> QED
      BY <3>1, NoBody DEF WrittenBody
  <2>2. ASSUME pc \in {"bid", "judge", "done"}
        PROVE  view # None
    <3>1. view = Decoded(wire)
      BY <2>2 DEF Journey, Seen
    <3>2. DOMAIN Decoded(wire) = BodyFields
      BY <2>1, <2>2, DecodedFields
    <3> QED
      BY <3>1, <3>2, NoBody
  <2>3. /\ view # None => pc \in {"bid", "judge", "done"}
        /\ bid # None => pc \in {"judge", "done"}
        /\ body \in Bodies /\ lane \in Lanes \cup {None} /\ engine \in Engines
        /\ lane # None /\ pc \in {"wire", "malformed", "bid", "judge", "done"}
             => buyer \in ToSet(lane.buyers)
    BY DEF Journey, Known, Sent, Seen, Offered
  <2> HIDE DEF Journey
  <2> QED
    BY <2>1, <2>2, <2>3 DEF Staged, RelayTypeOK
<1> QED
  BY <1>1, JourneyHolds, StagedHolds, PTL

(***************************************************************************)
(* Every request that reaches the engine is one it counts on, whoever sent *)
(* it (validate.go:17-93).                                                 *)
(***************************************************************************)
THEOREM EngineRequestsAdmitted == RelaySpec => []DecodedRequestsAdmitted
<1>1. Journey => DecodedRequestsAdmitted
  BY ViewIsAdmitted DEF DecodedRequestsAdmitted, Journey, Seen
<1> QED
  BY <1>1, JourneyHolds, PTL

(***************************************************************************)
(* A bidder that accepts the announced version decodes every request of    *)
(* the harness (harness.go:261-297 and 349, compat.go:163-180).            *)
(***************************************************************************)
THEOREM HarnessIsUnderstood == RelaySpec => []HarnessCallsDecode
<1>1. Journey => HarnessCallsDecode
  <2> SUFFICES ASSUME Journey, lane # None, pc = "malformed", ~(lane.floor < 0),
                      Classify(header) \in IF accepted = {} THEN DefaultAccepted ELSE accepted
               PROVE  FALSE
    BY DEF HarnessCallsDecode
  <2>1. /\ WrittenBody(body) /\ WrittenBody(wire)
        /\ lane \in Lanes /\ Readable(body) /\ body.imps # <<>>
        /\ kept = Kept(lane, body) /\ wire = Wire(lane, body)
    BY Received
  <2>2. wire.parses
    <3>1. Wire(lane, body).parses = Kept(lane, body).parses
      BY <2>1, WireFields DEF BodyFields
    <3>2. Kept(lane, body).parses = body.parses
      BY <2>1, KeptFields DEF BodyFields
    <3> QED
      BY <2>1, <3>1, <3>2 DEF Readable
  <2>3. ValidBody(Normal(wire))
    <3>1. lane.floor >= 0
      BY <2>1, RelayAssumption
    <3> QED
      BY <2>1, <3>1, WireIsValid DEF Readable
  <2>4. VersionAccepted(accepted, header, wire)
    <3>1. ~Blank(Classify(header))
      BY OutboundIsKnown DEF Journey, Known
    <3>2. Detected(header, wire) = Classify(header)
      BY <2>1, <3>1, AnnouncedVersion
    <3> QED
      BY <3>2, Zenon DEF VersionAccepted
  <2> QED
    BY <2>2, <2>3, <2>4, Zenon DEF Journey, Seen, Decodes
<1> QED
  BY <1>1, JourneyHolds, PTL

-----------------------------------------------------------------------------
(* The bidder's view of a harness run against what the harness has kept. *)
LEMMA ViewOfKept ==
  ASSUME Journey, lane # None, pc \in {"bid", "judge", "done"}
  PROVE  /\ IsRecord(view, BodyFields) /\ IsRecord(kept, BodyFields)
         /\ \A f \in BodyFields \ {"rootHints", "supplies", "imps"} : view[f] = kept[f]
         /\ DOMAIN view.imps = DOMAIN kept.imps
         /\ IsRecord(view.imps, DOMAIN kept.imps) /\ IsRecord(kept.imps, DOMAIN kept.imps)
         /\ \A i \in DOMAIN kept.imps :
              /\ Stable(kept.imps[i])
              /\ view.imps[i] = [kept.imps[i] EXCEPT !.floor = NormalFloor(kept.imps[i])]
<1>1. pc \in {"malformed", "bid", "judge", "done"}
  OBVIOUS
<1>2. /\ WrittenBody(body)
      /\ lane \in Lanes /\ Readable(body) /\ body.imps # <<>>
      /\ kept = Kept(lane, body) /\ wire = Wire(lane, body)
  BY <1>1, Received
<1>3. view = Decoded(Wire(lane, body))
  BY <1>2, ViewIsAdmitted
<1>4. /\ IsRecord(kept, BodyFields)
      /\ DOMAIN kept.imps = DOMAIN body.imps
      /\ IsRecord(kept.imps, DOMAIN body.imps)
  BY <1>2, KeptFields
<1>5. /\ IsRecord(view, BodyFields)
      /\ \A f \in BodyFields \ {"rootHints", "supplies", "imps"} : view[f] = kept[f]
      /\ DOMAIN view.imps = DOMAIN body.imps
      /\ IsRecord(view.imps, DOMAIN body.imps)
      /\ \A i \in DOMAIN body.imps :
           view.imps[i] = [kept.imps[i] EXCEPT !.floor = NormalFloor(kept.imps[i])]
  BY <1>2, <1>3, ViewFields
<1>6. \A i \in DOMAIN body.imps : Stable(kept.imps[i])
  BY <1>2, KeptImps
<1> QED
  BY <1>4, <1>5, <1>6

(***************************************************************************)
(* The bidder sees what the harness has kept but for a floor of 0 that an  *)
(* alias has raised (harness.go:270, compat.go:233-238).                   *)
(***************************************************************************)
THEOREM ViewsAlwaysAgree == RelaySpec => []ViewsAgree
<1>1. Journey => ViewsAgree
  <2> SUFFICES ASSUME Journey, lane # None, view # None
               PROVE  /\ Unfloored(view) = Unfloored(kept)
                      /\ \A i \in DOMAIN kept.imps :
                           \/ view.imps[i].floor = kept.imps[i].floor
                           \/ kept.imps[i].floor = 0 /\ view.imps[i].floor > 0
    BY DEF ViewsAgree
  <2>1. /\ IsRecord(view, BodyFields) /\ IsRecord(kept, BodyFields)
        /\ \A f \in BodyFields \ {"rootHints", "supplies", "imps"} : view[f] = kept[f]
        /\ DOMAIN view.imps = DOMAIN kept.imps
        /\ \A i \in DOMAIN kept.imps :
             /\ Stable(kept.imps[i])
             /\ view.imps[i] = [kept.imps[i] EXCEPT !.floor = NormalFloor(kept.imps[i])]
    BY ViewOfKept DEF Journey, Seen
  <2>2. ASSUME NEW i \in DOMAIN kept.imps
        PROVE  /\ [view.imps[i] EXCEPT !.floor = 0] = [kept.imps[i] EXCEPT !.floor = 0]
               /\ \/ view.imps[i].floor = kept.imps[i].floor
                  \/ kept.imps[i].floor = 0 /\ view.imps[i].floor > 0
    <3> DEFINE k == kept.imps[i]
               v == view.imps[i]
    <3>1. DOMAIN k = ImpFields /\ v = [k EXCEPT !.floor = NormalFloor(k)]
      BY <2>1, <2>2 DEF Stable, WrittenImp
    <3> HIDE DEF k, v
    <3>2. [v EXCEPT !.floor = 0] = [k EXCEPT !.floor = 0]
      BY <3>1
    <3>3. v.floor = NormalFloor(k)
      BY <3>1 DEF ImpFields
    <3>4. v.floor = k.floor \/ (k.floor = 0 /\ v.floor > 0)
      BY <3>3 DEF NormalFloor
    <3> QED
      BY <3>2, <3>4 DEF k, v
  <2>3. [i \in DOMAIN view.imps |-> [view.imps[i] EXCEPT !.floor = 0]]
          = [i \in DOMAIN kept.imps |-> [kept.imps[i] EXCEPT !.floor = 0]]
    BY <2>1, <2>2
  <2>4. Unfloored(view) = Unfloored(kept)
    <3> DEFINE vs == [i \in DOMAIN view.imps |-> [view.imps[i] EXCEPT !.floor = 0]]
               ks == [i \in DOMAIN kept.imps |-> [kept.imps[i] EXCEPT !.floor = 0]]
    <3>1. DOMAIN view = BodyFields /\ DOMAIN kept = BodyFields
      BY <2>1 DEF IsRecord
    <3>2. /\ Unfloored(view) = [view EXCEPT !.rootHints = <<>>, !.supplies = {}, !.imps = vs]
          /\ Unfloored(kept) = [kept EXCEPT !.rootHints = <<>>, !.supplies = {}, !.imps = ks]
      BY <3>1 DEF Unfloored, BodyFields
    <3>3. vs = ks
      BY <2>3
    <3> HIDE DEF vs, ks
    <3> QED
      BY <2>1, <3>1, <3>2, <3>3
  <2> QED
    BY <2>2, <2>4
<1> QED
  BY <1>1, JourneyHolds, PTL

-----------------------------------------------------------------------------
(* What a bid rests on. *)
LEMMA BidIsFrom ==
  ASSUME Journey, bid # None
  PROVE  /\ pc \in {"judge", "done"}
         /\ \E imp, c : /\ imp \in ToSet(view.imps) /\ CampaignAdmitted(c)
                       /\ Eligible(view, imp, c) /\ bid = Candidate(view, imp, c)
<1>1. pc \in {"judge", "done"}
  BY DEF Journey, Offered
<1>2. PICK cs \in Portfolios :
        \E q \in BestPairs(view, cs) : bid = Candidate(view, q[1], q[2])
  BY DEF Journey, Offered
<1>3. PICK p \in BestPairs(view, cs) : bid = Candidate(view, p[1], p[2])
  BY <1>2
<1>4. p \in ToSet(view.imps) \X ToSet(cs) /\ Eligible(view, p[1], p[2])
  BY DEF BestPairs, EligiblePairs
<1>5. CampaignAdmitted(p[2])
  BY <1>4, RelayAssumption
<1> QED
  BY <1>1, <1>3, <1>4, <1>5

LEMMA CoppaIsRead ==
  ASSUME NEW b, SaysChildDirected(b)
  PROVE  ChildDirected(NormalSignals(b))
<1>1. "coppa" \in RegsKeys /\ "coppa" \in Signals
  BY DEF RegsKeys, Signals
<1>2. TakesAlias(b, "coppa") <=> "coppa" \in DOMAIN b.alias /\ "coppa" \notin DOMAIN b.signals
  BY <1>1 DEF TakesAlias
<1> QED
  BY <1>1, <1>2 DEF SaysChildDirected, ChildDirected, NormalSignals

(***************************************************************************)
(* A child-directed request never gets a creative blocked for it, also     *)
(* behind the harness (compat.go:211-222, engine.go:313-319).              *)
(***************************************************************************)
THEOREM ChildDirectedIsKept == RelaySpec => []ChildDirectedKept
<1>1. Journey => ChildDirectedKept
  <2> SUFFICES ASSUME Journey, bid # None, SaysChildDirected(body)
               PROVE  ~bid.creative.blockedCOPPA
    BY DEF ChildDirectedKept
  <2>1. PICK imp, c : /\ CampaignAdmitted(c)
                      /\ Eligible(view, imp, c) /\ bid = Candidate(view, imp, c)
    BY BidIsFrom
  <2>2. pc \in {"judge", "done"} /\ view = Decoded(wire)
    BY BidIsFrom DEF Journey, Seen
  <2>3. ChildDirected(NormalSignals(body))
    BY CoppaIsRead
  <2>4. /\ WrittenBody(body)
        /\ lane # None =>
              /\ lane \in Lanes
              /\ Readable(body) /\ body.imps # <<>>
              /\ wire = Wire(lane, body)
        /\ lane = None => wire = body
    BY <2>2, Received
  <2>5. view.coppa
    <3>1. CASE lane = None
      BY <2>2, <2>3, <2>4, <3>1, DecodedFields
    <3>2. CASE lane # None
      <4>1. Decoded(Wire(lane, body)).coppa = Kept(lane, body).coppa
        BY <2>4, <3>2, ViewFields DEF BodyFields
      <4>2. Kept(lane, body).coppa = ChildDirected(NormalSignals(body))
        BY <2>4, <3>2, KeptFields
      <4> QED
        BY <2>2, <2>3, <2>4, <3>2, <4>1, <4>2
    <3> QED
      BY <3>1, <3>2
  <2>6. bid.creative = Chosen(view, imp, c) /\ c.creatives \in Seq(ToSet(c.creatives))
    BY <2>1 DEF CampaignAdmitted, Candidate
  <2> QED
    BY <2>1, <2>5, <2>6, EligibleCreative
<1> QED
  BY <1>1, JourneyHolds, PTL

(* A bid that is valid where the floor is f is valid where it is lower. *)
LEMMA ValidAtLowerFloor ==
  ASSUME NEW k, DOMAIN k = ImpFields, k.media \in MediaTypes,
         NEW f \in Int, k.floor \in Int, f >= k.floor,
         NEW bd, bd.price \in Int, ValidBid([k EXCEPT !.floor = f], bd)
  PROVE  ValidBid(k, bd)
<1> DEFINE v == [k EXCEPT !.floor = f]
<1>1. /\ v.floor = f /\ v.media = k.media /\ v.pmp = k.pmp /\ v.proof = k.proof
      /\ v.minDur = k.minDur /\ v.maxDur = k.maxDur /\ v.mimes = k.mimes
      /\ v.assets = k.assets /\ v.w = k.w /\ v.h = k.h
  BY DEF ImpFields
<1> HIDE DEF v
<1>2. ListedDeals(v) = ListedDeals(k)
  BY <1>1 DEF ListedDeals
<1>3. ASSUME \A g \in ListedFloors(v) : bd.price >= g
      PROVE  \A g \in ListedFloors(k) : bd.price >= g
  BY <1>1, <1>3 DEF ListedFloors
<1>4. ValidMarkup(v, bd.adm) <=> ValidMarkup(k, bd.adm)
  <2>1. ValidVAST(v, bd.adm.vast) <=> ValidVAST(k, bd.adm.vast)
    BY <1>1, Zenon DEF ValidVAST, DurationOK
  <2>2. ValidNative(v, bd.adm.native) <=> ValidNative(k, bd.adm.native)
    BY <1>1, Zenon DEF ValidNative, Required
  <2> QED
    BY <1>1, <2>1, <2>2 DEF ValidMarkup, MediaTypes
<1>5. ValidSize(v, bd) <=> ValidSize(k, bd)
  BY <1>1, Zenon DEF ValidSize
<1>6. ValidProof(v, bd.ext) <=> ValidProof(k, bd.ext)
  BY <1>1, Zenon DEF ValidProof
<1>7. ValidBid(v, bd) => ValidBid(k, bd)
  BY <1>2, <1>3, <1>4, <1>5, <1>6, Zenon DEF ValidBid
<1> QED
  BY <1>7 DEF v

(* What the harness looks at in a response of the engine. *)
LEMMA OneBidOnly ==
  ASSUME NEW e, NEW v, NEW b
  PROVE  LET resp == ResponseFor(e, v, b)
         IN  /\ FirstBid(resp) = BidFor(e, b)
             /\ resp.cur = Currency
             /\ resp.seatbid[1].seat = b.campaign.seat
<1> DEFINE bd == BidFor(e, b)
<1>1. ResponseFor(e, v, b) = [id |-> v.id, cur |-> Currency,
                              seatbid |-> <<[seat |-> b.campaign.seat, bids |-> <<bd>>]>>]
  BY DEF ResponseFor
<1> HIDE DEF bd
<1>2. FirstBid(ResponseFor(e, v, b)) = bd
  BY <1>1 DEF FirstBid
<1> QED
  BY <1>1, <1>2 DEF bd

LEMMA ProvesItself ==
  ASSUME NEW e, NEW b, NEW by, by.id = e.buyer
  PROVE  ProvesIdentity(by, BidFor(e, b))
<1>1. BidFor(e, b).ext = BidExt(e, b) /\ BidFor(e, b).crid = b.creative.id
  BY DEF BidFor
<1> QED
  BY <1>1 DEF BidExt, ProvesIdentity

(***************************************************************************)
(* A careful bid on what the bidder has decoded is a candidate for what    *)
(* the harness has kept, when it calls the bidder by its own id and seat   *)
(* (harness.go:436-479, response_validate.go:13-106).                      *)
(***************************************************************************)
THEOREM CarefulAnswersAlwaysStand == RelaySpec => []CarefulAnswersStand
<1>1. Journey => CarefulAnswersStand
  <2> SUFFICES ASSUME Journey, lane # None, pc = "done", bid # None,
                      Careful(engine, bid), CalledAsItself,
                      FirstAsksForVAST(kept) => AsksForVAST(bid)
               PROVE  valid
    BY DEF CarefulAnswersStand
  <2>1. PICK imp, c : /\ imp \in ToSet(view.imps) /\ CampaignAdmitted(c)
                      /\ Eligible(view, imp, c) /\ bid = Candidate(view, imp, c)
    BY BidIsFrom
  <2>2. ValidCandidate(lane, buyer, kept, Response) => valid
    <3>1. Judged
      BY DEF Journey
    <3> QED
      BY <3>1, Zenon DEF Judged
  <2>3. RequestAdmitted(view)
    BY ViewIsAdmitted
  <2>4. bid.imp = imp /\ bid.campaign = c
    BY <2>1 DEF Candidate
  <2>5. ValidBid(imp, BidFor(engine, bid))
    <3>1. EngineAdmitted(engine)
      BY RelayAssumption DEF Journey, Known
    <3> QED
      BY <2>1, <2>3, <3>1, CarefulBid DEF RequestImp
  <2>6. /\ view.id = kept.id /\ view.cur = kept.cur
        /\ DOMAIN view.imps = DOMAIN kept.imps
        /\ \A i \in DOMAIN kept.imps :
             /\ Stable(kept.imps[i])
             /\ view.imps[i] = [kept.imps[i] EXCEPT !.floor = NormalFloor(kept.imps[i])]
    BY ViewOfKept DEF BodyFields
  <2>7. PICK i \in DOMAIN kept.imps : imp = view.imps[i]
    BY <2>1, <2>6 DEF ToSet
  <2> DEFINE k == kept.imps[i]
  <2>8. /\ k \in ToSet(kept.imps) /\ WrittenImp(k) /\ DOMAIN k = ImpFields
        /\ imp = [k EXCEPT !.floor = NormalFloor(k)]
    BY <2>6, <2>7 DEF ToSet, Stable, WrittenImp
  <2> HIDE DEF k
  <2>9. imp.id = k.id /\ imp.media = k.media /\ imp.media \in MediaTypes
    <3>1. imp.media \in MediaTypes
      BY <2>1, <2>3, AdmittedImp DEF RequestImp
    <3> QED
      BY <2>8, <3>1 DEF ImpFields
  <2>10. ValidBid(k, BidFor(engine, bid))
    <3>1. k.floor \in Int /\ NormalFloor(k) \in Int /\ NormalFloor(k) >= k.floor
      BY <2>8 DEF WrittenImp, NormalFloor
    <3>2. BidFor(engine, bid).price \in Int
      BY <2>1, <2>4 DEF BidFor, RoundCPM, CampaignAdmitted
    <3> QED
      BY <2>5, <2>8, <2>9, <3>1, <3>2, ValidAtLowerFloor
  <2>11. kept.cur # {} => Currency \in kept.cur
    BY <2>1, <2>6, Zenon DEF Eligible, CurrencyAccepted
  <2>12. ~Blank(c.seat)
    BY <2>1 DEF CampaignAdmitted
  <2>13. ValidateBidResponse(kept, Response)
    BY <2>4, <2>6, <2>8, <2>9, <2>10, <2>11, <2>12, ResponsePasses DEF Response
  <2>14. kept.cur = {lane.cur}
    <3>1. lane \in Lanes /\ WrittenBody(body) /\ body.imps # <<>> /\ kept = Kept(lane, body)
      BY Received
    <3> QED
      BY <3>1, KeptFields
  <2>15. /\ FirstBid(Response) = BidFor(engine, bid)
         /\ Response.cur = lane.cur /\ Response.seatbid[1].seat = bid.campaign.seat
    BY <2>11, <2>14, OneBidOnly DEF Response
  <2>16. BidFor(engine, bid).adomain # <<>>
    BY <2>10, Zenon DEF ValidBid
  <2>17. AsksForVAST(bid) => ShapeOK(BidFor(engine, bid).adm.vast)
    <3>1. AsksForVAST(bid) =>
            /\ ValidMarkup(imp, BidFor(engine, bid).adm)
            /\ imp.media \in {"video", "audio"}
      BY <2>4, <2>5, Zenon DEF AsksForVAST, ValidBid
    <3> QED
      BY <3>1, Zenon DEF ValidMarkup, ValidVAST
  <2>18. ProvesIdentity(buyer, BidFor(engine, bid))
    BY ProvesItself DEF CalledAsItself
  <2>19. ~Blank(buyer.seat) => Response.seatbid[1].seat = buyer.seat
    BY <2>15 DEF CalledAsItself, Blank
  <2> QED
    BY <2>2, <2>13, <2>15, <2>16, <2>17, <2>18, <2>19, Zenon DEF ValidCandidate, Blank
<1> QED
  BY <1>1, JourneyHolds, PTL
=============================================================================
