# Verification of the ClearLedger OpenRTB bidder

TLA+ models of the bidder (`src/cmd/bidder`, `src/internal/...`) and of the
harness that runs auctions against it, the TLC instances that check them, and
proofs of the properties that matter most. Line numbers are those of the
repository's files.

Contents: 1 the system; 2 the modules; 3 the runs; 4 the proofs; 5 where the code
and its documents disagree; 6 what is not modelled; 7 what is left.

## 1. The system

| Part | State | Operations | Where |
|---|---|---|---|
| Engine, reservation | `dayKey`, `spend`, `qps`, under one mutex, in memory | `NewEngine`, `reserve` (`pacingAllows`), `Snapshot` | `bidder/engine.go` |
| Engine, evaluation | none; compiled campaigns are read only | `Bid`: the loop, `evaluate`, rendering the response | `bidder/engine.go` |
| HTTP process | result counters under a second mutex; requests in flight; process up, draining, down | `openrtb`, `observe`, `metrics`, signal, `Shutdown` | `server/server.go`, `cmd/bidder/main.go` |
| Request decoding | none | `DecodeRequest`, `ValidateRequest`, version detection, aliases | `openrtb/validate.go`, `compat.go` |
| Access | none | `authorize`, two signature schemes, header comparison | `server/server.go` |
| Response rules | none | `ValidateBidResponse`, readers of VAST, display and native markup | `openrtb/response_validate.go` |
| Harness | one report per run | lane lookup, lane terms, one call per buyer, winner | `clearledger/harness.go`, `manifest.go` |
| Certification | one report per run | a list of probes of a live endpoint | `certify/certify.go` |
| Configuration | none | load, defaults, validation | `config/config.go` |
| Registration | none | one POST | `registration/registration.go` |

How they interact. `main` builds one `Engine` and one `Server`. net/http runs
`Server.openrtb` in a goroutine per request: it reads the clock (`start`), reads
and authorises the body, decodes it, calls `Engine.Bid` with `start` as the time
of the request, counts the result and writes the answer. `Bid` looks at `tmax` and
the context once, evaluates every campaign for every impression without a lock,
and calls `reserve` for the best candidate only. `reserve`, `Snapshot` and the
counters are the only shared state, under two mutexes that are never held
together. `/metrics` takes first one and then the other. The harness is
ClearLedger's side of the protocol in one process: it calls the buyers in sequence
and validates what they answer with the same response rules, against the request
it has kept, while the bidder decodes what was sent once more. Certification is
another client: it posts sample files to an endpoint and judges the answers. Both
make their own headers and signatures, from their own copy of the bidder's
credentials and version.

What is hard here, and what makes each part correct:

- **Reservation.** The time of a call is older than the moment it enters the
  mutex, so calls reach the engine out of the order of their times, around
  midnight and around every second; the process forgets everything on restart.
  Correct: no day above its budget, no second above the QPS limit, no spend ahead
  of the pacing curve, a refused call leaves no trace, and a snapshot shows what
  was granted at the clock its caller read, or 0 when a later call was first to
  the mutex.
- **Process.** Handlers, scrapes, disconnects, the shutdown and the clock
  interleave. Correct: charges, results and counters agree; a scrape never shows a
  bid without its charge; every request ends; a bid is in time and is only charged
  when it was returned.
- **Evaluation.** A dozen rules, asked of different objects (the campaign, all of
  its creatives, the one creative chosen), must together imply what an independent
  validator demands of the response. Correct: the best eligible pair bids,
  exclusions hold, the response is valid.
- **Decoding.** A request is normalised by the harness, put on a lane's terms,
  encoded, and normalised again by the bidder; aliases stay where they were found.
  Correct: what reaches the engine is what it counts on, a call the harness
  announces in an accepted version decodes, both sides see the same request, and a
  careful bid on one view is valid on the other.
- **Access.** Two clients and the server derive credentials, ids, versions and
  endpoints in their own ways, and clocks, slow bodies and the network come
  between. Correct: genuine calls are admitted, others are not, copies only for a
  while, and readiness does not promise more than the door keeps.
- **Certification.** A list of checks over files that may change, one of them read
  twice. Correct: a good report tells of a complete certification, and a bidder
  that deserves one gets it.
- **Configuration.** Configuration and engine normalise the same spellings, each
  with its own function. Correct: every campaign that is loaded is one the engine
  can bid with.
- **Harness.** One failing buyer among several, ties under an unstable sort, lane
  terms written over one impression of several. Correct: the winner is the best
  valid candidate on the lane's terms, and an OK report tells of a complete
  auction.

The hazards, each at its line and with the properties that watch it, are listed in
`PROJECT.json`.

## 2. The modules

| Module | Models | Builds on |
|---|---|---|
| `CampaignRules` | pure rules of `reserve`: day, budget, QPS, `pacingAllows` | |
| `Reservation` | the engine's mutable state and the calls on it | `CampaignRules` |
| `BudgetLedger` | what the engine promises: a ledger of every day and second | `CampaignRules` |
| `BidServer` | the process around the engine | `Reservation` |
| `ResponseRules` | pure rules of `ValidateBidResponse` | |
| `Evaluation` | pure rules of `evaluate`, the candidate and its response | `ResponseRules` |
| `Bidding` | the loop of `Engine.Bid` for one request | `Evaluation` |
| `LaneRules` | pure: lane terms over a request, `enforceLaneRequest` | `ResponseRules` |
| `Fanout` | `RunHarness` | `LaneRules` |
| `RequestDecoding` | pure rules of `DecodeRequestWithOptions`, and `json.Marshal` of its result | `ResponseRules` |
| `Relay` | one request through harness and bidder and back | `RequestDecoding`, `LaneRules`, `Evaluation` |
| `ConfigRules` | pure rules of `config.Load`, readiness, endpoints and routes | `RequestDecoding` |
| `AccessRules` | pure rules of `authorize`, the header checks and the clients' headers | `ConfigRules` |
| `Admission` | one call, its deliveries and the handlers that admit it | `AccessRules` |
| `Certification` | `certify.Run` against this bidder or any server | `AccessRules`, `Evaluation` |
| `ReservationProofs`, `ServerProofs`, `EvaluationProofs`, `BiddingProofs`, `FanoutProofs`, `RelayProofs`, `AdmissionProofs`, `CertificationProofs` | proofs | the module named (`ServerProofs`: `BidServer` and `ReservationProofs`; `EvaluationProofs`: `Evaluation` and `RequestDecoding`; `BiddingProofs`, `RelayProofs` and `CertificationProofs` also `EvaluationProofs`) |
| `MC*` | instances for TLC | the module named |

The pure modules hold what several components compute alike; `Bidding` assumes of
requests and campaigns what `RequestAdmitted` and `CampaignAdmitted` say, and
`DecodedRequestsAdmitted` and `LoadedCampaignsAdmitted` check that decoding and
loading leave exactly that.

**Reservation.** `now` is the wall clock in seconds; `dayKey`, `spend` and `qps`
are the engine's fields. `Reserve(c, t)` is one call of `reserve` for a request
received at `t`, whole under the mutex: `Commit` when every limit admits it,
`Refuse` otherwise, and both start with the rollover (`reserve` moves `dayKey` and
empties the maps before it looks at any limit, so a refused call does too). `t`
lies between the start of the process and the clock, at most `MaxLag` behind; with
`Overtaking` a call may be older than the one before it. `Restart` is a new
process with a new engine. `SpendToday` and `QPSCurrent` are `Snapshot`. `charged`
and `bids` record all that was granted, per day and per second; `openings` and
`windows` count how often the engine started a day or a second from nothing.
Nothing reads these four but the properties. A snapshot's caller reads the clock
before `Snapshot` takes the mutex (`server.go:113`, `:163`, `:176`), so
`SpendToday` and `QPSCurrent` take a clock `t`, and the properties ask about every
`t` of the process's lifetime (`Scraped`). Money is an integer; the rounding of
float sums is left out.

**BudgetLedger** never forgets: it keeps every day's charges and every second's
bids and grants exactly when budget, pacing and QPS allow. Its pacing curve
(`OnCurve`) is written as a campaign owner reads it and shares nothing with
`PacingAllows` but `Elapsed`. `Reservation!Ledger` is that module with `charged`,
`bids` and the reply substituted; `ImplementsLedger` says that the engine, which
keeps one day and one second only, answers like the full ledger.

**BidServer.** A handler is at one of `read`, `tmax`, `context`, `reserve`,
`count`, `write`, `done`; each step is a place where it reads the clock or touches
shared state. A request is its fault (the reason it is rejected for), its `tmax`,
and for each impression the campaigns whose evaluation succeeds: that is
`Bidding`'s `Eligible`, and the candidate it picks is the one `Bidding`'s
`BestIsFirstHighest` describes. `ReserveBest` is `Reserve` at the handler's
receipt time. `Disconnect` cancels the context at any moment. `ScrapeCounts`,
`ScrapeClock` and `ScrapeSpend` are the two locked parts of `/metrics` and the
reading of the clock between them. `Signal`, `Drained` and `DrainTimeout` are
`main`'s shutdown; `Crash` is any other end of the process; `Start` is `Restart`
with new counters. What the properties count, the bids granted (`GrantedBids`) and
those a spend map was charged for (`ChargedBids`), are sets with a token for each
bid.

**ResponseRules.** Strings are tokens and a markup is what its readers find in it
(VAST elements in order, display tags, native assets). `ValidBid` is the body of
the inner loop of `ValidateBidResponse`, one conjunct per check. "The first that
..." is the least position of a set, here and in `Evaluation`, so that it can be
proved about.

**Evaluation and Bidding.** One request against one portfolio. `Consider` is one
round of the nested loop; `best` is the pair kept so far. `Granted` and `Refused`
are the two answers of `reserve`. `Eligible` is `evaluate`, rule by rule;
`RenderMarkup`, `BidExt`, `EventURL` and `RoundCPM` build the response. The notice
URL is that of the creative's base or of the bidder's public endpoint (`e`, the
part of `Config` the engine reads), and may be empty; it is also what generated
VAST and `{{IMPRESSION_URL}}` become (`FillIn`). Prices count hundred-thousandths,
one digit more than `roundCPM` keeps. Where only the result of the loop matters
(`Relay`, `Certification`), `BestPairs` stands for it: `LoopFindsBestPair`
(`BiddingProofs`) says that what the loop keeps is in it.

**LaneRules** is what `Fanout` and `Relay` share: `ApplyLane`,
`enforceLaneRequest` and the whole of `validCandidate` (`ValidCandidate`: the
response rules for the call, and the first bid's currency, floor, seat, identity,
domain and VAST).

**Fanout.** `FindLane`, `Prepare`, then `Skip` or `CallBuyer` for each buyer in
order, then `NoWinner` or `SelectWinner`. What a call ends in is the argument of
`Call`, chosen from `Answers`: a response, no content, a bad status, a timeout, a
transport error or a body that is no JSON. `SelectedBuyers` is the loop over the
lane's buyers, a recursive function of the position. `heard` is the history of
those answers. `ok` is `Report.OK`, which every failed check clears. The sort is
not stable, so `SelectWinner` takes any candidate that none sorts before.

**RequestDecoding.** A body and a decoded request are records of the same fields.
`Detected` takes the first version it knows of the header, the body's own keys and
the keys in ext; `NormalSignals`, `NormalFloor`, `NormalCur`, `NormalNative` and
`EitherOf` are the aliases of `normalizeCommonAliases`, each with its own idea of
when a field counts as set; `ValidBody` is `ValidateRequest`. `Marshal` is what
the harness sends: the model's fields with everything in ext, without the body's
own version keys.

**Relay** is one request on its way: `ReadSample`, `Send` (lane terms, the lane's
own check, the encoding), `Receive` (the bidder's decoding), `Answer` (a best
candidate or a no-bid) and `Judge` (`ValidCandidate`, against the request the
harness has kept and the buyer it has called). The bidder's engine configuration
and the buyer's id and seat are chosen with the rest (`Engines` and the lanes'
buyers), so a buyer may be called by an identity that is not the bidder's. A
client that is not the harness posts a body as it is. `None` is a record that no
lane, request or candidate is.

**ConfigRules, AccessRules and Admission.** A setting is an environment and a
file; `Loads` says whether the bidder starts and `Load` what with. Tokens, secrets
and ids are texts: words, and whether blanks follow, because some readers trim and
some compare as they are. A MAC is the tuple it was made from. In `Admission` the
bidder is up, a client whose clock may be off has made one call, and each delivery
of it is a handler: `Deliver` reads the clock and then the body, unchanged or
encoded again by some hop; `Admit` is the rest, judged by the time read first. A
URL is its host and its path (and whether it is one), because `config.Load` looks
for `/openrtb` at the end of the whole (`EndsInOpenRTB`); `Route` is the mux.
`NormalMedia` is the configuration's normalizer of media types and
`NormalizeToken` the engine's.

**Certification.** `ProbeReady`, then `ReadSample` and `PostSample` for every
file, `ReadAgain`, `ProbeNoBid`, `ProbeMalformed`; `Add` is the bookkeeping of the
report. The answers come from a bidder that has loaded a setting and works by
`AccessRules`, `RequestDecoding` and `Evaluation`, as it answers while budget and
QPS last, with the notice URLs of the public endpoint it has loaded; or from
`OtherAnswers`, any server. A call to either may fail or be cut off (`Received`;
`lost` remembers that one was). `Change` replaces or removes one file at any time.

## 3. The runs

Every passing run covers its whole state space. In the runs with `CHECK_DEADLOCK
FALSE` the system may really stop: a request or a harness run is over, or the
bounded clock has reached its end and no restart is left. `reservation_order`
checks for deadlock: there a call can always be refused.

| Run | Instance and bounds | Shows |
|---|---|---|
| `reservation_order` | 2 campaigns, days of 3 seconds, 6 seconds, lag 2, calls in order, the budget of the paced campaign so that its curve binds | limits exact, a snapshot of any clock exact unless overtaken, the ledger implemented |
| `reservation_chaos` | days of 2 seconds, 4 seconds, lag 2, overtaking, 1 restart, 2 reopenings a day | what is left: one budget per opening, one QPS limit per window, snapshots never overstate |
| `late_budget` | overtaking, no restart | violated: the daily budget (section 5) |
| `server_shared` | 2 handlers, 5 kinds of request, 3 seconds of one day, scrape, disconnects, shutdown | charges, results, counters and scrapes agree |
| `server_live` | 2 handlers, midnight, 1 crash and restart, fairness | every step of the process is a step of `Reservation`; every request and every scrape ends |
| `server_returned`, `server_tmax` | 2 handlers, requests that bid | violated: only returned bids charged; bids in time |
| `bidding_rules` | requests of 1 or 2 impressions against portfolios of 1 or 3 campaigns, over prices, floors, currencies, deals, media, sizes, durations, assets, markups, targets, privacy | the first of the highest is picked; responses of careful configurations are valid; exclusions kept |
| `fanout_lanes` | 8 manifests, 2 or 3 buyers, samples of 1 or 2 impressions, 26 answers | the winner, the lane's terms, the report |
| `relay_aliases` | bodies of five families, 4 lanes or none, 4 version headers, 3 lists of accepted versions, 5 portfolios, with and without a public endpoint, called by its own or another identity | admitted requests, decodable calls, agreeing views, child-directed requests kept from blocked creatives, careful bids valid on the harness's side |
| `admission_calls` | 7 tokens, 4 secrets, switches, versions, endpoints (one on a host named `openrtb`), skews and drifts by family; 2 deliveries, clock to 3, skew 1 or 2 (or the default) | genuine calls admitted, admitted calls signed, copies bounded, readiness honest, endpoints served |
| `certification_samples` | 2 files of 6 contents, 1 change, 24 settings or any other server, calls that fail or are cut off, 6 sets of options | good reports complete, careful bidders pass, loaded campaigns admitted |

*Why the bounds are enough.*

- Two campaigns are one paced and one not, one with and one without a QPS limit;
  campaigns do not share state, so a third repeats one of them. A day of three
  seconds (two in the chaotic run) has a first, a last and a following second, and
  the clock crosses midnight with room for late calls on both sides. A budget of
  two or three bids is reached and overrun within that time. In the chaotic run
  calls could reopen a day and restart a window for ever; `MaxOpenings` and
  `MaxBids` stop them after the second opening and the third bid, the first at
  which forgetting shows. The theorems of section 4 do not depend on these bounds.
- Two handlers are enough for every pair of steps to interleave; a scrape adds a
  third process.
- `bidding_rules` crosses the requests of every family with the portfolios of
  every family; each rule is true and false with the others open, and the
  portfolios of three have ties on both sides of a price and disabled and
  ineligible pairs in all positions.
- Three buyers put a failing one before, between and after good ones. The
  manifests have a lane that is not active, a buyer not approved, one with another
  protocol, one listed twice, a format nobody takes and no buyer at all.
- `relay_aliases` and `admission_calls` vary what one part of the code looks at
  within a family and hold the rest: the parts are separate conjuncts of the code,
  and the base of each family passes all of them, so every one is seen to decide.
  The clock of `admission_calls` runs past both ends of a skew of 1 with drifts of
  -2 to 3, where two admitted deliveries are as far apart as they can be.
- In `certification_samples` two files are a first one, read twice, and one that
  is not. Eight of the settings have a campaign `Load` refuses (its id, price,
  QPS, media types, domains, approval or asset); in the others the bidder is not
  ready, not served, not understood, bids on nothing, bids carelessly (one
  generates VAST and has no public endpoint to make its notice URLs of) or bids
  above the probe. `ProbeFloor` is 9999, prices are 60, 100 and once 100000.

*Fairness.* Only `server_live` needs it. Each step of a handler is weakly fair:
the Go scheduler runs every goroutine that can run, and the reads and writes have
deadlines (`ReadTimeout`, `WriteTimeout`, `main.go:53-61`), which is why a read
may be taken to end. The scrape, once begun, the clock and the wake-up of `main`
after `Shutdown` are weakly fair for the same reason. Nothing makes a client call
or leave, a signal come or the process crash.

*`BidServer` in the bounded clock.* One unit stands for a second of the QPS window
and for the resolution of `tmax`; the margins of 5 and 2 milliseconds are 0 of
these units, so `BidWithinTMax` is judged against the deadline itself.

## 4. The proofs

All are checked by TLAPS for every value of the constants that satisfies the named
assumptions, which TLC evaluates in the runs. Every invariant of every passing run
is a theorem, and so are the two that say a detailed specification implements an
abstract one.

**ReservationProofs** (any order of calls, any number of restarts). `TypeCorrect`;
`BudgetPerOpeningHolds`; `QPSPerWindowHolds`; `SnapshotSound`. The engine's maps
say nothing about days and seconds it has forgotten, so the properties are not
inductive alone. The strengthening is about what is still remembered: what the
history has of the current `dayKey` is at most what `spend` says plus one budget
for each earlier opening (`BudgetInv`), and the same for the window and its second
(`WindowInv`).

The rest of the module is about behaviours and not about instances: its theorems
have the form `Spec /\ [][A]_vars => ...`, with an `A` that the instance may well
allow to be broken.

- *Calls in turn* (`InTurn`: no call is received before the last one that
  reserved). `LimitsInTurn`: until a restart the daily budget, the QPS limit and
  the pacing curve are kept and a snapshot is exact or was overtaken itself.
  `LedgerInTurn`: without restarts the engine implements the ledger. The engine's
  one page is then the last page of the ledger: nothing is granted after the last
  call's time (`Frontier`), `spend` is exactly the history of `dayKey`
  (`PageInv`), a window is exactly the history of its second (`LineInv`), and the
  spend was within the curve when it was last raised and the curve does not fall
  within a day (`PacedInv`). From these every `Commit` is a ledger grant and every
  `Refuse` a ledger refusal. For an instance that allows neither overtaking nor
  restarts (assumption `InOrder`) the hypothesis is a lemma (`OrderedCalls`), and
  `DailyBudgetHolds`, `QPSHolds`, `PacingHolds`, `SnapshotUnlessOvertaken` and
  `LedgerImplemented` follow.
- `LedgerKeepsLimits`: the ledger alone implies the daily budget and the QPS
  limit, so the refinement says what it should.
- *Days in order* (`DaysInTurn`: no call of an earlier day after one of a later
  day) is all that the money needs. `SpendInDayOrder`: until a restart the daily
  budget and the curve are kept and a snapshot shows the spend of its day exactly,
  or 0 after a call of a later day (`SpendShown`), however calls overtake each
  other within a day (`DayPageInv`: `spend` is the page of `dayKey`, the later
  pages are empty).
- *What restarts cost.* `BudgetPerStartInDayOrder`: with days in order a day costs
  one budget per start of the process, because each start opens a day once
  (`DaysAccounted`). `QPSPerStartInTurn`: with calls in turn a second costs one
  QPS limit per start (`WindowsFilledOnce`). Overtaking is what makes the two sums
  unbounded in `reservation_chaos`.

**BiddingProofs.** `BiddingTypeCorrect`, `BestIsChosen`: the pair kept by the loop
is the first of the highest priced eligible pairs, for any number of impressions
and campaigns. The invariant is the property itself with the types, and the
arithmetic of the pairs' positions (`PriceIsNumber`). Every impression meets every
campaign at some position (`PairPosition`), so the loop over positions ends with a
member of `BestPairs`, or with nothing only if that set is empty
(`LoopIsBestPairs`): what `Relay` and `Certification` take for `Bid`'s choice is
what the loop makes. A response is the one for the best pair and that pair was
eligible (`AnswersBest`); what follows from eligibility is `PrivacyIsKept` and
`CarefulBidsPass`.

**EvaluationProofs** has the lemmas on the rules of evaluation and decoding that
`BiddingProofs`, `RelayProofs` and `CertificationProofs` need, for any request,
campaign and body. A set of positions has a least element (`MinIsLeast`, from the
well-foundedness of < on Nat), so the creative and the deal the engine takes are
ones it may take (`ChosenIsUsable`, `CarefulDeal`). `CarefulBid` goes through
`ValidBid` conjunct by conjunct: each follows from a rule of `evaluate`, from what
the renderer writes (`GeneratedVAST`, `CarefulAd`), or from `Careful`; that the
markup has an impression is one of them, and needs the notice URL not to be empty
(`FilledIsValid`). `ResponsePasses` lifts it to the response, also for a validator
whose request is not the one that was bid on. A body that passes the validation is
decoded to a request the engine counts on (`DecodedIsAdmitted`), a version that is
announced in the header is the one detected (`AnnouncedVersion`), and an
impression that was read once is `Stable` (`StableOnceRead`). Of bodies it is
assumed only that they have the fields of the request model and sequences where it
has arrays (`WrittenBody`).

**FanoutProofs.** `FanoutTypes`, `WinnerIsBest`, `OKIsComplete`, `TermsAreKept`,
`VASTIsCarried`. The harness keeps what it heard in three places; `FanoutInv` ties
them: the candidates are exactly the first bids of the positions whose answer was
valid, each position heard has a result (`Books`), a report still OK has only fine
answers behind it (`OKSoFar`), and the fanout begins on an active lane only
(`OnActiveLane`). `HeardGrows` says what one more answer does to earlier ones:
nothing. For the last two, `TermsInv` keeps the request on the lane and the winner
among the candidates; a candidate was valid for that request (`CandidateIsValid`),
hence for the impression the lane's terms are on, whose id no other has
(`LaneImpression`). What the loop over the lane's buyers selects is proved for
every list: the function it is defined by exists and has, at each position, the
selected buyers up to there (`SelectionIs`, `SelectionKeeps`). The induction is
written as a least counterexample: the least position at which the claim fails is
not 0 and has a predecessor at which it holds. With it `OKMeansCompleteAuction`
says that the buyers called are exactly the approved ones of the lane, not only
those that happen to be on a list.

**RelayProofs.** `RelayTypes`, `EngineRequestsAdmitted`, `HarnessIsUnderstood`,
`ViewsAlwaysAgree`, `ChildDirectedIsKept`, `CarefulAnswersAlwaysStand`, for all
bodies, lanes, headers and portfolios. The invariant `Journey` says what each
variable holds at each stage. The argument is that reading aliases twice reads
nothing new: an impression that was read once is `Stable`, lane terms keep it so
(`StableOnLane`), and a stable impression comes back from writing and reading with
at most a floor of 0 raised (`ReadAgain`); `SignalsOnce` is the same for privacy
signals. Validation looks at nothing else the decoder adds (`ValidUpToFloor`), and
a bid valid at a floor is valid at a lower one (`ValidAtLowerFloor`). What the
harness asks besides, the currency, seat, identity and media of the first bid,
follows from what the bidder writes when it is called by its own buyer id and seat
(`CalledAsItself`). `RelayTypes` also says that nothing is decoded, sent or bid on
before its turn (`Staged`).

**ServerProofs.** `ServerTypes`, `EngineUsed`, `ServerBudget`, `ServerQPS`,
`ServerSnapshots`, `ServerLimitsInTurn`, `ServerSpendInDayOrder`,
`ServerLedgerInTurn`, `ServerCostPerStart`: every step of the process is a step of
`Reservation` or none, so what holds of the engine holds in the process, both the
limits in any order of calls and those of calls in turn. The invariant
(`ServerInv`) says that a handler in flight belongs to the running process and was
received in its lifetime, that one about to reserve has found a campaign, and that
one that has not reserved does not carry the label of one that has. That a
candidate exists when `BestCampaign` chooses needs an order of every finite set of
candidates: the one that the fewest outbid is outbid by none (`BestExists`).
`Reservation` bounds its instance by `MaxLag`, `MaxBids` and `MaxOpenings`; the
assumption `Roomy` says that they leave room for every handler once and for every
restart, as they do in `server_live`, and `CallsInv` shows that the process then
never meets them. `ChargesAndCounts` and `ScrapeCovered` compare numbers of bids
with numbers of handlers. Each side is the cardinality of a set of tokens, and the
invariants (`ChargesInv`, `ScrapeInv`) say what one step does to the sets: a
granted reservation adds one token and moves one handler, a counted result moves
one handler into its label. That a scrape is covered rests on the order of the two
locks: what it has counted was charged before, and on the same day a spend map
only grows.

The course of a handler has its own section. `HandlersOnlyAdvance` is the safety
half of `EveryRequestEnds`: the places of `openrtb` and `Bid` come in one order
(`Place`), every step of a handler takes it on, no step of another actor moves it
but to kill it, and a decided result never changes. From it `AnsweredOrLost`: a
handler that is done has been answered, or its client left or its write deadline
passed. Two more theorems say that the causes seen in two violations of section 5
are the only ones: `AttendedBidsReturned` (where no answer is lost, only returned
bids are committed) and `PromptBidsWithinTMax` (where no time passes for a handler
between its look at the context and its answer, no bid is late).

**AdmissionProofs.** `AdmissionTypes`, `GenuineAdmitted`, `SignedOnly`,
`DuplicatesBounded`, `HonestReadiness`, `PublishedAreServed`, for every setting,
client, text, drift and number of deliveries. The invariant (`AdmissionInv`) is
that a delivery that is done was judged on what it got at the time it read first;
the rest is a chain of lemmas on texts, from the client's headers to the
comparisons of the server. `PublishedAreServed` is about paths of any length, and
the endpoint the bidder makes of its public URL has a path (`EndpointHasPath`):
the greatest position that is no slash exists (`GreatestPosition`), what
`TrimSlashes` leaves is that prefix (`TrimmedPath`), and trimming a path that is
served leaves one that is (`TrimmedIsServed`).

**CertificationProofs.** `CertificationTypes`, `GoodReports`, `LoadedCampaigns`,
`CarefulBidders`, for every list of files, every content and any server. The
invariant (`CertifyInv`) ties the report to the place in the run: a report still
good has every sample before `next` supported and was ready, and the flags of the
two probes are set only where they have been made. `AddReport` and `AddCounts` say
what one more check does. `LoadedCampaigns` needs of a file only that it decodes
to campaigns of the right fields (`WrittenCampaign`): what `validateCampaign`
accepts and `compileCampaigns` makes of it meets the assumption `Bidding` states
of its campaigns (`CompiledCampaign`).

`CarefulBidders` joins the components: the invariant (`OnItsWay`) is that a run
with the premises of `CarefulBidderPasses` has failed no check and posts what it
should. Its calls are authorized, whatever the body (`CarefulAuthorized`), a body
that decodes is admitted (`CarefulAdmitted`, by `AnnouncedVersion`), the answer to
a sample passes the validator (`CarefulSampleAnswered`, by `DecodedIsAdmitted`,
`LoadedAreAdmitted`, `CarefulBid` and `ResponsePasses`), a body whose only floor
is above every price gets no bid (`CarefulProbeAnswered`), and the malformed one
is refused as malformed and not as unauthorized (`BadBodyAnswered`). A run in
which an answer was lost is out of the premises. The public endpoint of the
notices is the setting's own, so no constant stands between what is loaded and
what is bid.

*Model-checked only.* Liveness (`EveryRequestEnds`: that a handler's next step is
ever taken) and anything about ENABLED, which are out of the prover's reach; and
the three violations of section 5, which are counterexamples.

## 5. Where the code and its documents disagree

Three disagreements have a run that reaches them; `PROJECT.json` quotes the lines.

1. `late_budget`: a request received before midnight that reserves after one
   received after midnight moves `dayKey` back and throws away what the new day
   has spent (`engine.go:239`). A day can be charged more than its budget. A QPS
   window is restarted in the same way by a call of an earlier second
   (`engine.go:247`). Nothing else breaks a limit until a restart
   (`ServerSpendInDayOrder`, `ServerLimitsInTurn`).
2. `server_returned`: a reservation is kept for a bid whose client has left or
   whose write deadline passed (`server.go:89`), and for no other bid of a handler
   that ended (`AttendedBidsReturned`).
3. `server_tmax`: a bid may be answered after `tmax` (`engine.go:132`), when time
   passes after the one look at the context (`PromptBidsWithinTMax`).

`reservation_chaos` and its theorems say how far 1 can go. `Careful` names what a
configuration must avoid for its bids to be valid: a creative without a duration
is rendered with thirty seconds, whatever the request allows (`engine.go:442`); a
price of more than four decimals is rounded after it was compared with the floor
(`engine.go:166`); a campaign without deals answers an impression that lists deals
in an open market (`engine.go:341`); a media file is raised to 640x360 after the
sizes were compared (`engine.go:447`); and where neither a notice base nor a
public endpoint is set (`engine.go:526-528`; a bidder with only
`BIDDER_OPENRTB_ENDPOINT` has none) generated VAST, and markup with
`{{IMPRESSION_URL}}`, has an empty `Impression` (`engine.go:437-439`, `:447`),
which `response_validate.go:433-437` refuses. Under `Careful`, which rules all of
these out, every response is valid (`CarefulBidsAreValid`).

Other differences are visible in the modules as they are written. In `Fanout`:
only the first bid of a response competes (`FirstBid`, `harness.go:461`, against
`clearledger-contract.md:97`); the first lane of a market is taken although a
later one is active (`OfMarket`, against `clearledger-contract.md:91`); lane terms
reach the first impression of the sample only (`ApplyLane`, against `:92`;
`LaneTermsKept` is stated for that impression); and a timeout has no class of its
own (`Outcome`, against `:95`). In the others, each named in the property that has
to except it:

- a scrape that a call of a later second or day overtakes between its reading of
  the clock (`server.go:163`) and the mutex (`engine.go:84`) shows 0 for what was
  granted (`SnapshotExactUnlessOvertaken`);
- the harness asks every bid for VAST when the first impression is of video or
  audio (`harness.go:456`), also a bid of another medium on a later one
  (`CarefulAnswersStand`);
- on a host named `openrtb` the public endpoint is taken to end in `/openrtb`
  already (`config.go:365`) and the bidder's endpoint gets no path
  (`PublishedEndpointsServed`);
- a floor alias that a lane without a floor has overruled is read again by the
  bidder, which then sees a floor the harness does not (`ViewsAgree`);
- a token with blanks or written with its `Bearer`, a secret with blanks and an id
  with blanks make settings that look ready and clients that are refused
  (`GenuineCallsAdmitted`);
- a copy of a signed call is admitted and charged again for up to twice the skew
  (`DuplicatesAreBounded`);
- operator endpoints that are registered for `/buyers/{id}/openrtb` are not served
  (`PublishedEndpointsServed`);
- a certification whose first sample goes away before the second read reports OK
  without its two probes; only the summary tells (`GoodReportsAreComplete`);
- the no-bid probe raises the floor of the first impression only, so a first
  sample of two impressions fails a bidder that is right (`CarefulBidderPasses`).

## 6. What is not modelled

- The cryptography of signatures and the comparison in constant time: hashes and
  MACs are equal when what they were made from is.
- `/healthz`, `/statez` and `/events`: they read what `/metrics` reads, or
  nothing. `/readyz` is `ConfigRules!Ready`; its snapshot has no part in the
  answer but the number of enabled campaigns.
- Float rounding of sums of money, and the text of markups, headers and reports,
  the compatibility notes of responses and lists of preserved keys included.
- Ports, byte limits and timeouts as settings: they are defaulted and otherwise
  constants of `BidServer`.
- Registration: one POST with no state and no retry; its endpoints are in
  `ConfigRules`.
- Certification of a bidder whose budget or QPS runs out during the run, and
  latencies.
- The harness's delivery proof texts and proof steps that are always complete, and
  files it cannot read.
- Deployment files, samples and documents have no behaviour of their own.

## 7. What is left

The components were modelled in the order of their weight: reservation and its
ledger; the process; evaluation; the harness; decoding and the relay;
configuration and access; certification. What a next step would add:

1. Certification and the relay composed with `Reservation`, for a bidder near its
   limits; today both answer as if budget and QPS last.
2. For each place of a handler, a theorem that names the step it waits for; that
   the step is possible is a statement about ENABLED and stays with `server_live`.
