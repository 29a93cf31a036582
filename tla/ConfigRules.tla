---------------------------- MODULE ConfigRules ----------------------------
(***************************************************************************)
(* config.Load: what the bidder makes of its environment and its campaign  *)
(* file, which of them it refuses to start with, and what it says of       *)
(* itself: readiness, the notes of configcheck, the endpoints it registers *)
(* and the paths its server answers.                                       *)
(*                                                                         *)
(* A setting is a record of env and file.  Text is a sequence of words and *)
(* whether blanks follow them (pad); tokens and secrets are texts because  *)
(* some readers trim them and some do not.  Other strings are tokens and   *)
(* "" is an unset one.  A token stands for every way to write it that      *)
(* trimming, lower case and underscores for dashes make the same.  A URL   *)
(* is its kind (Evaluation), its host and its path, the segments after the *)
(* host; a last segment "" is a trailing slash.                            *)
(***************************************************************************)
EXTENDS RequestDecoding

CONSTANTS DefaultSkew, DefaultBuyer, DefaultSeat

ASSUME ConfigAssumption == DefaultSkew \in Nat \ {0} /\ DefaultBuyer # "" /\ DefaultSeat # ""

Text == [words : Seq(STRING), pad : BOOLEAN]
Empty == [words |-> <<>>, pad |-> FALSE]
Trim(t) == [words |-> t.words, pad |-> FALSE]

(* getenv(key, first(file, default)) *)
Stated(env, file, default) ==
  IF env # "" THEN env ELSE IF file # "" THEN file ELSE default

(* boolEnv *)
BoolEnv(value, fallback) == IF value = "" THEN fallback ELSE value \in {"true", "1"}

(* intEnv: <<>> when the variable is unset or no number. *)
Skew(s) == IF s.env.skew = <<>> THEN DefaultSkew ELSE Head(s.env.skew)

(* csvEnv and NormalizeVersions: a list of blanks is no list, a list of    *)
(* unknown versions is an error.                                           *)
Accepted(s) ==
  LET stated == IF s.env.accepted = <<>> THEN s.file.accepted
                ELSE SelectSeq(s.env.accepted, LAMBDA v : v # "")
  IN  IF stated = <<>> THEN DefaultAccepted ELSE {Classify(v) : v \in ToSet(stated)} \ {""}

-----------------------------------------------------------------------------
(* The endpoints: a URL is set or not, and its trailing slashes go.        *)
NoURL == [set |-> FALSE, kind |-> "", host |-> "", path |-> <<>>]
TrimSlashes(path) == SubSeq(path, 1, Max({0} \cup {i \in DOMAIN path : path[i] # ""}))
FirstURL(a, b) == IF a.set THEN a ELSE b

(* HasSuffix(url, "/openrtb"): where the path is empty it is the host that *)
(* follows the last slash.                                                 *)
EndsInOpenRTB(host, path) ==
  IF path = <<>> THEN host = "openrtb" ELSE Last(path) = "openrtb"

WithOpenRTB(url) ==
  LET base == TrimSlashes(url.path) IN
  [url EXCEPT !.path = IF EndsInOpenRTB(url.host, base) THEN base ELSE Append(base, "openrtb")]

(* Mutant: openrtb is appended to every public endpoint. *)
AppendedEndpoint(openrtb, public) ==
  IF openrtb.set THEN [openrtb EXCEPT !.path = TrimSlashes(@)]
  ELSE IF public.set THEN [public EXCEPT !.path = Append(TrimSlashes(@), "openrtb")] ELSE NoURL

(* RegistrationEndpoint *)
RegistrationEndpoint(openrtb, public) ==
  IF openrtb.set THEN [openrtb EXCEPT !.path = TrimSlashes(@)]
  ELSE IF public.set THEN WithOpenRTB(public) ELSE NoURL

(* defaultEndpoint of cmd/certify: from the environment only, and the      *)
(* OpenRTB endpoint keeps its slash.                                       *)
CertifiedEndpoint(env) ==
  IF env.openrtb.set THEN env.openrtb
  ELSE IF env.public.set THEN WithOpenRTB(env.public) ELSE NoURL

(* operator_endpoints of the registration payload. *)
OperatorPages == {"healthz", "readyz", "metrics", "statez"}
OperatorEndpoint(endpoint, page) ==
  IF ~EndsInOpenRTB(endpoint.host, endpoint.path)
  THEN [endpoint EXCEPT !.path = Append(@, page)]
  ELSE IF endpoint.path = <<>> THEN [endpoint EXCEPT !.host = page]
  ELSE [endpoint EXCEPT !.path = Append(Front(@), page)]

(* The mux of server.New and buyerOpenRTB. *)
Route(path) ==
  LET buyer == TrimSlashes(path) IN
  CASE path = <<"openrtb">> -> "openrtb"
    [] path \in {<<p>> : p \in OperatorPages} -> "operator"
    [] Len(buyer) > 2 /\ Head(buyer) = "buyers" /\ Last(buyer) = "openrtb" -> "openrtb"
    [] Len(path) > 1 /\ Head(path) = "events" -> "event"
    [] OTHER -> "not_found"

-----------------------------------------------------------------------------
(* validateCampaign, with normalizeMediaType *)
NormalMedia(m) == IF m = "banner" THEN "display" ELSE m
SupportedMedia == {"video", "audio", "display", "native"}

HasContent(cr) ==
  \/ cr.markup # NoMarkup
  \/ /\ NormalMedia(cr.media) # "native" => cr.asset # ""
     /\ NormalMedia(cr.media) \in {"display", "native"} => cr.landing # ""

ValidCreative(c, cr) ==
  /\ cr.id # ""
  /\ NormalMedia(cr.media) \in {NormalMedia(m) : m \in ToSet(c.media)}
  /\ cr.adomain # <<>>
  /\ {cr.duration, cr.w, cr.h} \subseteq Nat
  /\ HasContent(cr)

ValidCampaign(c) ==
  /\ c.id # ""
  /\ c.price > 0
  /\ {c.budget, c.tolerance, c.qps} \subseteq Nat
  /\ c.pacing \in {"", "asap", "even"}
  /\ c.media # <<>> /\ {NormalMedia(m) : m \in ToSet(c.media)} \subseteq SupportedMedia
  /\ \E k \in DOMAIN c.creatives : c.creatives[k].approved
  /\ \A k \in DOMAIN c.creatives :
       /\ ValidCreative(c, c.creatives[k])
       /\ \A l \in DOMAIN c.creatives : c.creatives[k].id = c.creatives[l].id => k = l

(* Mutant: the engine's normalizer without its alias. *)
NormalizeTokenOnly(v) == v

(* The engine normalizes with a function of its own. *)
NormalizeToken(v) == IF v = "banner" THEN "display" ELSE v

(* newStringSet: blank entries are dropped, and an empty set is no limit. *)
StringSet(values) == {NormalizeToken(v) : v \in ToSet(values)} \ {""}

(* The seat Load gives a campaign without one, and compileCampaigns. *)
Compile(c, seat) ==
  [c EXCEPT !.seat = Stated(@, seat, seat),
            !.media = StringSet(@), !.apps = StringSet(@), !.bundles = StringSet(@),
            !.domains = StringSet(@), !.placements = StringSet(@), !.deals = StringSet(@),
            !.countries = StringSet(@),
            !.creatives = [k \in DOMAIN c.creatives |->
               [c.creatives[k] EXCEPT !.media = NormalizeToken(c.creatives[k].media)]]]

-----------------------------------------------------------------------------
Loads(s) ==
  LET campaigns == s.file.campaigns IN
  /\ Accepted(s) # {}
  /\ Outbound(Stated(s.env.outbound, s.file.outbound, DefaultVersion)) # ""
  /\ Skew(s) > 0
  /\ \A i \in DOMAIN campaigns :
       /\ ValidCampaign(campaigns[i])
       /\ \A j \in DOMAIN campaigns : campaigns[i].id = campaigns[j].id => i = j

Load(s) ==
  LET seat == Stated(s.env.seat, s.file.seat, DefaultSeat) IN
  [token |-> s.env.token, secret |-> s.env.secret,
   requireAuth |-> BoolEnv(s.env.requireAuth, s.env.token # Empty),
   requireSignature |-> BoolEnv(s.env.requireSignature, s.env.secret # Empty),
   skew |-> Skew(s), accepted |-> Accepted(s),
   outbound |-> Outbound(Stated(s.env.outbound, s.file.outbound, DefaultVersion)),
   buyer |-> Stated(s.env.buyer, s.file.buyer, DefaultBuyer), seat |-> seat,
   public |-> FirstURL(s.env.public, s.file.public).kind,
   endpoint |-> RegistrationEndpoint(FirstURL(s.env.openrtb, s.file.openrtb),
                                     FirstURL(s.env.public, s.file.public)),
   campaigns |-> [i \in DOMAIN s.file.campaigns |-> Compile(s.file.campaigns[i], seat)]]

Enabled(cfg) == \E i \in DOMAIN cfg.campaigns : cfg.campaigns[i].enabled

(* /readyz and /statez *)
CredentialsReady(cfg) ==
  /\ cfg.requireAuth => cfg.token # Empty
  /\ cfg.requireSignature => cfg.secret # Empty

Ready(cfg) == Enabled(cfg) /\ CredentialsReady(cfg)

(* Summary: the readiness notes of configcheck. *)
ReadinessNotes(cfg) ==
  {n \in {"campaigns", "auth", "signature", "endpoint"} :
     CASE n = "campaigns" -> ~Enabled(cfg)
       [] n = "auth" -> cfg.requireAuth /\ Trim(cfg.token) = Empty
       [] n = "signature" -> cfg.requireSignature /\ Trim(cfg.secret) = Empty
       [] n = "endpoint" -> ~cfg.endpoint.set}
=============================================================================
