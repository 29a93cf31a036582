--------------------------- MODULE RequestDecoding ---------------------------
(***************************************************************************)
(* openrtb.DecodeRequestWithOptions: which OpenRTB version a request is    *)
(* taken for, the aliases that are read into the local request model, and  *)
(* the validation that comes after; and json.Marshal of a decoded request. *)
(*                                                                         *)
(* A body and a decoded request are records of the same fields; supply,    *)
(* coppa and the media of an impression are what the decoder makes of      *)
(* supplies, signals and objects (NoSupply, FALSE and "" before).  Absent  *)
(* numbers are 0, absent strings "".  Versions are cleaned tokens: a       *)
(* version is its first two numbers.  A signal is the value of one key of  *)
(* user, regs or source, and only keys that are there are in DOMAIN.       *)
(***************************************************************************)
EXTENDS ResponseRules, FiniteSets

(* What any JSON that parses is taken for: an object of these fields. *)
ImpFields ==
  {"id", "objects", "media", "floor", "floorCur", "extFloors", "extCurs", "tag", "pmp", "mimes",
   "minDur", "maxDur", "placement", "plcmt", "w", "h", "native", "assets", "proof"}

BodyFields ==
  {"parses", "id", "cur", "tmax", "supplies", "supply", "coppa", "lmt", "ifa", "country", "badv",
   "rootHints", "extHints", "signals", "alias", "imps"}

WrittenImp(imp) ==
  /\ DOMAIN imp = ImpFields
  /\ imp.objects \subseteq {"video", "audio", "native", "banner"}
  /\ {imp.floor, imp.placement, imp.plcmt} \subseteq Int
  /\ imp.extFloors \in Seq(Int) /\ imp.extCurs \in Seq(ToSet(imp.extCurs))
  /\ imp.pmp.deals \in Seq(ToSet(imp.pmp.deals))
  /\ {"json", "ver", "version"} \subseteq DOMAIN imp.native

WrittenBody(b) ==
  /\ DOMAIN b = BodyFields
  /\ b.imps \in Seq(ToSet(b.imps))
  /\ \A i \in DOMAIN b.imps : WrittenImp(b.imps[i])
  /\ b.rootHints \in Seq(ToSet(b.rootHints)) /\ b.extHints \in Seq(ToSet(b.extHints))

-----------------------------------------------------------------------------
DefaultAccepted == {"2.6", "2.5"}
DefaultVersion == "2.6"

(* ClassifyVersion: any other 2.x is "legacy_2.x", newer ones included. *)
Classify(v) ==
  CASE v \in {"2.6", "2.5", "2.4"} -> v
    [] v \in {"2.0", "2.1", "2.2", "2.3", "2.7", "legacy_2.x"} -> "legacy_2.x"
    [] OTHER -> ""

(* NormalizeOutboundVersion *)
Outbound(v) ==
  CASE v \in {"2.0", "2.1", "2.2", "2.3", "2.4", "2.5", "2.6"} -> v
    [] v = "legacy_2.x" -> "2.5"
    [] OTHER -> ""

FirstKnown(versions) ==
  LET known == {i \in DOMAIN versions : ~Blank(Classify(versions[i]))}
  IN  IF known = {} THEN DefaultVersion ELSE Classify(versions[Min(known)])

(* Mutant: what the body says of its version comes before the header. *)
DetectedInBody(header, b) == FirstKnown(b.rootHints \o b.extHints \o <<header>>)

(* detectVersion: the header, then the body's own keys, then its ext. *)
Detected(header, b) == FirstKnown(<<header>> \o b.rootHints \o b.extHints)

VersionAccepted(accepted, header, b) ==
  Detected(header, b) \in IF accepted = {} THEN DefaultAccepted ELSE accepted

-----------------------------------------------------------------------------
(***************************************************************************)
(* normalizeCommonAliases.  Aliases of consent and eids count when they    *)
(* are not empty and the field is; those of regs count when the key is not *)
(* there, whatever they hold; schain must be an object.                    *)
(***************************************************************************)
RegsKeys == {"gpp", "gpp_sid", "us_privacy", "gdpr", "coppa"}
Signals == RegsKeys \cup {"consent", "eids", "schain"}

StatedSignal(s, k) == k \in DOMAIN s /\ s[k] # "empty"

TakesAlias(b, k) ==
  /\ k \in DOMAIN b.alias
  /\ CASE k \in RegsKeys -> k \notin DOMAIN b.signals
       [] k = "schain" -> k \notin DOMAIN b.signals /\ b.alias[k] = "object"
       [] OTHER -> ~StatedSignal(b.signals, k) /\ b.alias[k] # "empty"

(* Mutant: aliases are not read. *)
StatedSignals(b) == b.signals

NormalSignals(b) ==
  [k \in DOMAIN b.signals \cup {x \in Signals : TakesAlias(b, x)} |->
     IF TakesAlias(b, k) THEN b.alias[k] ELSE b.signals[k]]

(* Mutant: a floor in ext replaces the impression's. *)
FloorOfExt(imp) ==
  IF imp.extFloors # <<>> /\ Head(imp.extFloors) > 0 THEN Head(imp.extFloors) ELSE imp.floor

(* Of the keys bidfloor, floor and floor_cpm the first that is there is    *)
(* read, also when it holds no number (0).                                 *)
NormalFloor(imp) ==
  IF imp.floor = 0 /\ imp.extFloors # <<>> /\ Head(imp.extFloors) > 0
  THEN Head(imp.extFloors) ELSE imp.floor

NormalCur(imp) ==
  IF Blank(imp.floorCur) /\ imp.extCurs # <<>> THEN Head(imp.extCurs) ELSE imp.floorCur

(* normalizeNativeVersion: version is read into ver. *)
NormalNative(n) == IF n.json /\ Blank(n.ver) THEN [n EXCEPT !.ver = n.version] ELSE n

(* normalizePlacementAliases: each stands in for the other. *)
EitherOf(n, other) == IF n = 0 /\ other > 0 THEN other ELSE n

NormalImp(imp) ==
  [imp EXCEPT !.floor = NormalFloor(imp),
              !.floorCur = NormalCur(imp),
              !.native = NormalNative(@),
              !.placement = EitherOf(@, imp.plcmt),
              !.plcmt = EitherOf(@, imp.placement)]

Normal(b) ==
  [b EXCEPT !.signals = NormalSignals(b), !.imps = [i \in DOMAIN @ |-> NormalImp(@[i])]]

-----------------------------------------------------------------------------
(* ValidateRequest: the checks of one impression. *)
ValidImp(imp) ==
  /\ ~Blank(imp.id)
  /\ Cardinality(imp.objects) = 1
  /\ {imp.w, imp.h, imp.minDur, imp.maxDur, imp.floor} \subseteq Nat
  /\ imp.minDur > 0 /\ imp.maxDur > 0 => imp.minDur <= imp.maxDur
  /\ imp.objects = {"native"} => imp.native.json /\ imp.assets # <<>> /\ ValidAssets(imp.assets)
  /\ \A d \in ToSet(imp.pmp.deals) : ~Blank(d.id) /\ d.floor \in Nat

(* Mutant: impressions may share an id. *)
ValidBodyRepeating(b) ==
  /\ ~Blank(b.id)
  /\ b.imps # <<>>
  /\ b.tmax >= 0
  /\ Cardinality(b.supplies) = 1
  /\ \A i \in DOMAIN b.imps : ValidImp(b.imps[i])

ValidBody(b) ==
  /\ ~Blank(b.id)
  /\ b.imps # <<>>
  /\ b.tmax >= 0
  /\ Cardinality(b.supplies) = 1
  /\ \A i, j \in DOMAIN b.imps : b.imps[i].id = b.imps[j].id => i = j
  /\ \A i \in DOMAIN b.imps : ValidImp(b.imps[i])

(* Impression.MediaType *)
MediaType(imp) ==
  IF "video" \in imp.objects THEN "video"
  ELSE IF "audio" \in imp.objects THEN "audio"
  ELSE IF "native" \in imp.objects THEN "native"
  ELSE IF "banner" \in imp.objects THEN "display"
  ELSE ""

Typed(imp) == [imp EXCEPT !.media = MediaType(imp)]

(* allowedPrivacy counts coppa only when it is the number 1. *)
ChildDirected(signals) == "coppa" \in DOMAIN signals /\ signals["coppa"] = "one"

(* DecodeRequestWithOptions: does it succeed, and with what request? *)
Decodes(b, header, accepted) ==
  b.parses /\ VersionAccepted(accepted, header, b) /\ ValidBody(Normal(b))

Decoded(b) ==
  LET n == Normal(b) IN
  [n EXCEPT !.supply = CHOOSE s \in b.supplies : TRUE,
            !.coppa = ChildDirected(n.signals),
            !.imps = [i \in DOMAIN @ |-> Typed(@[i])]]

-----------------------------------------------------------------------------
NoSupply == [kind |-> "", id |-> "", bundle |-> "", domain |-> ""]

Untyped(imp) == [imp EXCEPT !.media = ""]

(* json.Marshal of a request: the fields of its model with ext; the body's *)
(* own version keys are not among them.                                    *)
Marshal(r) ==
  [r EXCEPT !.rootHints = <<>>, !.supplies = {r.supply}, !.supply = NoSupply,
            !.coppa = FALSE, !.imps = [i \in DOMAIN @ |-> Untyped(@[i])]]
=============================================================================
