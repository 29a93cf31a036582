---------------------------- MODULE Certification ----------------------------
(***************************************************************************)
(* certify.Run: the readiness probe, a call for every sample file, then    *)
(* the first file once more for the no-bid probe, the malformed probe and  *)
(* the report.  Between two steps a file may change or go.                 *)
(*                                                                         *)
(* What is certified is a bidder that has loaded a setting (ConfigRules),  *)
(* admits calls (AccessRules), decodes them (RequestDecoding) and answers  *)
(* with the best it can make of its campaigns (Evaluation); or any other   *)
(* server, which answers whatever it likes.                                *)
(***************************************************************************)
EXTENDS AccessRules, Evaluation

CONSTANTS
  Paths,       (* The sample files, in order.                              *)
  Samples,     (* What a file may hold: bodies, and Missing.               *)
  Situations,  (* Records of the files at the start and the setting of the *)
               (* bidder, or None for another server.                      *)
  Tools,       (* Certification's options: clients of kind "certify".      *)
  ProbeFloor,  (* The floor of the no-bid probe, 999999.                   *)
  Missing,
  None

(* What JSON makes of any campaign. *)
WrittenCampaign(c) ==
  /\ {"id", "price", "seat", "media", "apps", "bundles", "domains", "placements", "deals", "countries",
      "creatives"} \subseteq DOMAIN c
  /\ c.price \in Int
  /\ c.creatives \in Seq(ToSet(c.creatives))
  /\ \A k \in DOMAIN c.creatives : {"id", "media", "adomain", "duration", "w", "h"} \subseteq DOMAIN c.creatives[k]

ASSUME CertificationAssumption ==
  /\ Paths \in Seq(ToSet(Paths)) /\ Paths # <<>>
  /\ \A s \in Situations : s.files \in [ToSet(Paths) -> Samples]
  /\ None \notin Samples
  /\ \A b \in Samples : b = Missing \/ WrittenBody(b)
  /\ ProbeFloor \in Nat \ {0}
  /\ \A s \in Situations : s.setting # None =>
       /\ Loads(s.setting) => Skew(s.setting) \in Nat
       /\ \A i \in DOMAIN s.setting.file.campaigns : WrittenCampaign(s.setting.file.campaigns[i])

VARIABLES
  situation,
  tool,      (* The options of this run.                                   *)
  cfg,       (* What the bidder has loaded; None for another server.       *)
  files,     (* What the files hold now.                                   *)
  changed,   (* Has a file changed since the start?                        *)
  lost,      (* Has a call failed or its answer been cut off?              *)
  pc,        (* "ready", "sample", "post", "no_bid", "malformed", "done"   *)
  next,      (* The sample the loop is at.                                 *)
  sample,    (* What is posted next.                                       *)
  report

certifyVars == <<situation, tool, cfg, files, changed, lost, pc, next, sample, report>>

EmptyReport ==
  [ok |-> TRUE, checks |-> <<>>, passed |-> 0, failed |-> 0, ready |-> FALSE,
   noBidOK |-> FALSE, malformedOK |-> FALSE, supported |-> {}]

Check(name, ok) == [name |-> name, ok |-> ok]

(* Mutant: every check is counted as passed. *)
AddPassed(r, c) ==
  [r EXCEPT !.ok = @ /\ c.ok,
            !.checks = Append(@, c),
            !.passed = @ + 1,
            !.failed = @ + IF c.ok THEN 0 ELSE 1,
            !.ready = IF c.name = "readyz" THEN c.ok ELSE @,
            !.noBidOK = IF c.name = "clean_no_bid" THEN c.ok ELSE @,
            !.malformedOK = IF c.name = "malformed_rejected" THEN c.ok ELSE @]

(* add and addSimple *)
Add(r, c) ==
  [r EXCEPT !.ok = @ /\ c.ok,
            !.checks = Append(@, c),
            !.passed = @ + IF c.ok THEN 1 ELSE 0,
            !.failed = @ + IF c.ok THEN 0 ELSE 1,
            !.ready = IF c.name = "readyz" THEN c.ok ELSE @,
            !.noBidOK = IF c.name = "clean_no_bid" THEN c.ok ELSE @,
            !.malformedOK = IF c.name = "malformed_rejected" THEN c.ok ELSE @]

-----------------------------------------------------------------------------
(***************************************************************************)
(* Answers: the status (0 when the call failed), whether the body is JSON  *)
(* and, for a sample, the detail validationDetail has about it.            *)
(***************************************************************************)
Failed == [status |-> 0, json |-> FALSE, detail |-> "no bid"]
Rejected(status) == [status |-> status, json |-> TRUE, detail |-> "no bid"]
NoContent == [status |-> 204, json |-> FALSE, detail |-> "no bid"]

(* validationDetail *)
Detail(r, resp) == IF ValidateBidResponse(r, resp) THEN "" ELSE "broken rule"

(* What the access layer sees of a body. *)
EnvelopeOf(b) ==
  [id |-> IF Blank(b.id) THEN Empty ELSE Word(b.id), tid |-> Empty, content |-> "body",
   sound |-> Decodes(b, CertifiedVersion(tool), cfg.accepted),
   hints |-> [rootHints |-> b.rootHints, extHints |-> b.extHints]]

(* Another page than openrtb: the mux's own 404 is no JSON.                 *)
PageAnswers(path) ==
  CASE Route(path) = "not_found" ->
         {[Rejected(404) EXCEPT !.json = path # <<>> /\ Head(path) = "buyers"]}
    [] Route(path) = "event" -> {NoContent}
    [] OTHER -> [status : {200, 405, 503}, json : BOOLEAN, detail : {"no bid"}]

(* One answer of the bidder, as Server.openrtb and Engine.Bid give it while *)
(* budget and QPS last.                                                     *)
BidderAnswers(b) ==
  LET e    == EnvelopeOf(b)
      out  == Outcome(cfg, CertifyCall(tool, e, 0), e, 0)
      view == Decoded(b)
      path == CertifiedEndpoint(situation.setting.env).path
  IN  IF Route(path) # "openrtb" THEN PageAnswers(path)
      ELSE CASE out = "unauthorized" -> {Rejected(401)}
             [] out \in {"malformed", "clearledger_header_mismatch"} -> {Rejected(400)}
             [] out = "admitted" ->
                  IF BestPairs(view, cfg.campaigns) = {} THEN {NoContent}
                  ELSE {[status |-> 200, json |-> TRUE,
                         detail |-> Detail(view, ResponseFor(cfg, view, Candidate(view, p[1], p[2])))] :
                          p \in BestPairs(view, cfg.campaigns)}

OtherAnswers ==
  {Failed, NoContent}
  \cup [status : {200}, json : {TRUE}, detail : {"", "broken rule"}]
  \cup [status : {200, 400, 503}, json : BOOLEAN, detail : {"no bid"}]

Answers(b) == IF cfg = None THEN OtherAnswers ELSE BidderAnswers(b)

(* An answer may not come, in time or at all, or be cut off after its      *)
(* head: postOpenRTB reads as much of the body as there is.  What another  *)
(* server may answer has these among it.                                   *)
Received(a) == IF cfg = None THEN {a} ELSE {a, Failed, [a EXCEPT !.json = FALSE]}

(* The checks of one answered sample. *)
Judged(r, label, a) ==
  LET http     == Add(r, Check("valid_bid_http", a.status = 200))
      contract == Add(Add(http, Check("valid_bid_json", TRUE)), Check("valid_bid_contract", a.detail = ""))
  IN  IF a.status = 0 THEN http
      ELSE IF ~a.json THEN Add(http, Check("valid_bid_json", FALSE))
      ELSE IF a.detail = "" THEN [contract EXCEPT !.supported = @ \cup {label}]
      ELSE contract

(* Mutant: the floor is set where no one has set any. *)
WithFloorIfUnset(b) ==
  IF b.imps = <<>> \/ b.imps[1].floor > 0 THEN b ELSE [b EXCEPT !.imps[1].floor = ProbeFloor]

(* mutateFloor: the first impression only; the result of a text that is no *)
(* JSON is posted as it is, empty.                                         *)
WithFloor(b) == IF b.imps = <<>> THEN b ELSE [b EXCEPT !.imps[1].floor = ProbeFloor]

(* {"id":"bad","site":{"domain":"example.com"},"imp":[]} *)
BadBody ==
  [parses |-> TRUE, id |-> "bad", imps |-> <<>>, tmax |-> 0, supplies |-> {"site"},
   rootHints |-> <<>>, extHints |-> <<>>, signals |-> [k \in {} |-> k],
   alias |-> [k \in {} |-> k]]

-----------------------------------------------------------------------------
CertifyInit ==
  /\ situation \in {s \in Situations :
       s.setting # None => Loads(s.setting) /\ CertifiedEndpoint(s.setting.env).set}
  /\ tool \in Tools
  /\ cfg = IF situation.setting = None THEN None ELSE Load(situation.setting)
  /\ files = situation.files
  /\ changed = FALSE
  /\ lost = FALSE
  /\ pc = "ready"
  /\ next = 1
  /\ sample = Missing
  /\ report = EmptyReport

(* A file changes once, at any time. *)
Change ==
  /\ ~changed
  /\ changed' = TRUE
  /\ \E p \in ToSet(Paths), s \in Samples : files' = [files EXCEPT ![p] = s]
  /\ UNCHANGED <<situation, tool, cfg, lost, pc, next, sample, report>>

(* GET /readyz, at the root whatever the endpoint's path. *)
ProbeReady ==
  /\ pc = "ready"
  /\ \E status \in {0} \cup (IF cfg = None THEN {200, 503}
                              ELSE IF Ready(cfg) THEN {200} ELSE {503}) :
       /\ report' = Add(report, Check("readyz", status = 200))
       /\ lost' = (lost \/ status = 0)
  /\ pc' = "sample"
  /\ UNCHANGED <<situation, tool, cfg, files, changed, next, sample>>

(* Mutant: a file that cannot be read is left out. *)
ReadSampleSkipping ==
  /\ pc = "sample"
  /\ next <= Len(Paths)
  /\ LET b == files[Paths[next]] IN
     IF b = Missing
     THEN UNCHANGED <<report, pc, sample>> /\ next' = next + 1
     ELSE IF ~Decodes(b, "", DefaultAccepted)
     THEN /\ report' = Add(Add(report, Check("readable", TRUE)), Check("request_valid", FALSE))
          /\ next' = next + 1
          /\ UNCHANGED <<pc, sample>>
     ELSE /\ report' = Add(Add(report, Check("readable", TRUE)), Check("request_valid", TRUE))
          /\ pc' = "post"
          /\ sample' = b
          /\ UNCHANGED next
  /\ UNCHANGED <<situation, tool, cfg, files, changed, lost>>

ReadSample ==
  /\ pc = "sample"
  /\ next <= Len(Paths)
  /\ LET b == files[Paths[next]] IN
     IF b = Missing
     THEN /\ report' = Add(report, Check("readable", FALSE))
          /\ next' = next + 1
          /\ UNCHANGED <<pc, sample>>
     ELSE IF ~Decodes(b, "", DefaultAccepted)
     THEN /\ report' = Add(Add(report, Check("readable", TRUE)), Check("request_valid", FALSE))
          /\ next' = next + 1
          /\ UNCHANGED <<pc, sample>>
     ELSE /\ report' = Add(Add(report, Check("readable", TRUE)), Check("request_valid", TRUE))
          /\ pc' = "post"
          /\ sample' = b
          /\ UNCHANGED next
  /\ UNCHANGED <<situation, tool, cfg, files, changed, lost>>

PostSample ==
  /\ pc = "post"
  /\ \E a \in Answers(sample) : \E got \in Received(a) :
       /\ report' = Judged(report, Paths[next], got)
       /\ lost' = (lost \/ got # a)
  /\ pc' = "sample"
  /\ next' = next + 1
  /\ UNCHANGED <<situation, tool, cfg, files, changed, sample>>

(* The second read: when it fails the report is finished as it is. *)
ReadAgain ==
  /\ pc = "sample"
  /\ next > Len(Paths)
  /\ IF files[Paths[1]] = Missing
     THEN pc' = "done" /\ UNCHANGED sample
     ELSE pc' = "no_bid" /\ sample' = WithFloor(files[Paths[1]])
  /\ UNCHANGED <<situation, tool, cfg, files, changed, lost, next, report>>

ProbeNoBid ==
  /\ pc = "no_bid"
  /\ \E a \in Answers(sample) : \E got \in Received(a) :
       /\ report' = Add(report, Check("clean_no_bid", got.status = 204))
       /\ lost' = (lost \/ got # a)
  /\ pc' = "malformed"
  /\ sample' = BadBody
  /\ UNCHANGED <<situation, tool, cfg, files, changed, next>>

ProbeMalformed ==
  /\ pc = "malformed"
  /\ \E a \in Answers(sample) : \E got \in Received(a) :
       /\ report' = Add(report, Check("malformed_rejected", got.status = 400))
       /\ lost' = (lost \/ got # a)
  /\ pc' = "done"
  /\ UNCHANGED <<situation, tool, cfg, files, changed, next, sample>>

CertifyNext ==
  \/ Change
  \/ ProbeReady
  \/ ReadSample
  \/ PostSample
  \/ ReadAgain
  \/ ProbeNoBid
  \/ ProbeMalformed

CertifySpec == CertifyInit /\ [][CertifyNext]_certifyVars

-----------------------------------------------------------------------------
Passed(r) == Cardinality({i \in DOMAIN r.checks : r.checks[i].ok})

CertifyTypeOK ==
  /\ pc \in {"ready", "sample", "post", "no_bid", "malformed", "done"}
  /\ next \in 1 .. Len(Paths) + 1
  /\ files \in [ToSet(Paths) -> Samples]
  /\ pc = "post" => next <= Len(Paths) /\ sample # Missing
  /\ report.supported \subseteq ToSet(Paths)
  /\ report.passed = Passed(report)
  /\ report.passed + report.failed = Len(report.checks)

(***************************************************************************)
(* A good report means what a reader takes it for: the bidder was ready    *)
(* and every sample was read, sent and answered with a valid bid.  The two *)
(* probes at the end were passed as well, unless the first sample went     *)
(* away in the meantime; then neither was sent, the report is good all the *)
(* same and only its summary tells (certify.go:99-121 and 182-196).        *)
(***************************************************************************)
GoodReportsAreComplete ==
  pc = "done" /\ report.ok =>
    /\ report.ready
    /\ report.supported = ToSet(Paths)
    /\ \/ report.noBidOK /\ report.malformedOK
       \/ changed /\ ~report.noBidOK /\ ~report.malformedOK

(***************************************************************************)
(* The bidder passes: one that is ready, served at the endpoint its        *)
(* environment names and called with its own plain credentials in a        *)
(* version it accepts gets a good report, if its best bids on the samples  *)
(* are careful ones under the public endpoint it has loaded (Evaluation),  *)
(* its budget lasts and no answer is lost.  The first sample must have one *)
(* impression: the floor of the no-bid probe is raised on that one only,   *)
(* and a bid on another is a failed check (certify.go:187-190 and          *)
(* 310-322).                                                               *)
(***************************************************************************)
BidsCarefully(b) ==
  /\ b # Missing /\ Decodes(b, "", DefaultAccepted)
  /\ BestPairs(Decoded(b), cfg.campaigns) # {}
  /\ \A p \in BestPairs(Decoded(b), cfg.campaigns) : Careful(cfg, Candidate(Decoded(b), p[1], p[2]))

ToolFits ==
  /\ tool.token = cfg.token /\ tool.secret = cfg.secret
  /\ cfg.requireAuth => PlainToken(cfg.token)
  /\ Classify(CertifiedVersion(tool)) \in cfg.accepted
  /\ tool.buyer \in {"", cfg.buyer} /\ tool.seat \in {"", cfg.seat}
  /\ Route(CertifiedEndpoint(situation.setting.env).path) = "openrtb"

CarefulBidderPasses ==
  /\ pc = "done" /\ cfg # None /\ ~changed /\ ~lost
  /\ Ready(cfg)
  /\ ToolFits
  /\ \A p \in ToSet(Paths) : BidsCarefully(files[p])
  /\ Len(files[Paths[1]].imps) = 1
  /\ \A i \in DOMAIN cfg.campaigns : cfg.campaigns[i].price < ProbeFloor
  => report.ok

(***************************************************************************)
(* Every campaign the bidder starts with is what the engine counts on      *)
(* (Evaluation): a price, and creatives with a domain and a media type of  *)
(* the campaign.  What validateCampaign takes for a media type, with its   *)
(* own normalizer, is one the engine's makes a media type of a request     *)
(* (config.go:170-315, engine.go:566-621).                                 *)
(***************************************************************************)
LoadedCampaignsAdmitted ==
  cfg # None => \A i \in DOMAIN cfg.campaigns :
    /\ CampaignAdmitted(cfg.campaigns[i])
    /\ cfg.campaigns[i].media \subseteq MediaTypes
=============================================================================
