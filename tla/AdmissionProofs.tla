--------------------------- MODULE AdmissionProofs ---------------------------
(***************************************************************************)
(* Proofs about Admission: who is admitted and who is not, for every       *)
(* setting, client, clock and skew.                                        *)
(***************************************************************************)
EXTENDS Admission, SequenceTheorems, WellFoundedInduction, TLAPS

(***************************************************************************)
(* The invariant adds to the types what a finished delivery was judged on: *)
(* the call, the body it got and the time it started, in a process that    *)
(* never changes its configuration.                                        *)
(***************************************************************************)
AdmissionInv ==
  /\ situation \in Situations
  /\ Loads(situation.setting)
  /\ cfg = Load(situation.setting)
  /\ call = CallOf(client, envelope, situation.drift)
  /\ now \in 0 .. MaxTime
  /\ arrival \in [Arrivals -> [step : {"waiting", "reading", "done"}, start : 0 .. MaxTime,
                               got : {envelope, [envelope EXCEPT !.content = Reencoded]},
                               outcome : {"none", "unauthorized", "malformed",
                                          "clearledger_header_mismatch", "admitted"}]]
  /\ \A a \in Arrivals :
       /\ arrival[a].start <= now
       /\ arrival[a].step = "done" =>
            arrival[a].outcome = Outcome(cfg, call, arrival[a].got, arrival[a].start)

LEMMA OutcomeType ==
  ASSUME NEW c, NEW x, NEW e, NEW at
  PROVE  Outcome(c, x, e, at) \in {"unauthorized", "malformed",
                                   "clearledger_header_mismatch", "admitted"}
  BY DEF Outcome

LEMMA AdmissionInitInv == AdmissionInit => AdmissionInv
<1> SUFFICES ASSUME AdmissionInit
             PROVE  AdmissionInv
  OBVIOUS
<1>1. MaxTime \in Nat
  BY AdmissionAssumption
<1> QED
  BY <1>1 DEF AdmissionInit, AdmissionInv, Waiting

LEMMA AdmissionStepInv == AdmissionInv /\ [AdmissionNext]_admissionVars => AdmissionInv'
<1> SUFFICES ASSUME AdmissionInv, [AdmissionNext]_admissionVars
             PROVE  AdmissionInv'
  OBVIOUS
<1> USE DEF AdmissionInv
<1>m. MaxTime \in Nat
  BY AdmissionAssumption
<1>1. CASE AdmissionTick
  <2>1. /\ now' \in 0 .. MaxTime /\ now' = now + 1
        /\ UNCHANGED <<situation, cfg, call, arrival>>
    BY <1>1, <1>m DEF AdmissionTick
  <2>2. \A a \in Arrivals : arrival[a].start <= now'
    BY <2>1, <1>m
  <2> QED
    BY <2>1, <2>2 DEF client, envelope
<1>2. ASSUME NEW a \in Arrivals, NEW content \in {envelope.content, Reencoded},
             Deliver(a, content)
      PROVE  AdmissionInv'
  <2> DEFINE got == [envelope EXCEPT !.content = content]
             new == [step |-> "reading", start |-> now, outcome |-> "none", got |-> got]
  <2>1. /\ arrival' = [arrival EXCEPT ![a] = new]
        /\ UNCHANGED <<situation, cfg, call, now>>
    BY <1>2 DEF Deliver
  <2>2. got \in {envelope, [envelope EXCEPT !.content = Reencoded]}
    <3>1. envelope = [id |-> envelope.id, tid |-> envelope.tid, content |-> envelope.content,
                      sound |-> envelope.sound, hints |-> envelope.hints]
      BY AdmissionAssumption DEF envelope
    <3>2. content = envelope.content => got = envelope
      BY <3>1
    <3> QED
      BY <1>2, <3>2
  <2>3. arrival'[a] = new /\ \A b \in Arrivals \ {a} : arrival'[b] = arrival[b]
    BY <2>1
  <2>4. arrival' \in [Arrivals -> [step : {"waiting", "reading", "done"}, start : 0 .. MaxTime,
                               got : {envelope, [envelope EXCEPT !.content = Reencoded]},
                               outcome : {"none", "unauthorized", "malformed",
                                          "clearledger_header_mismatch", "admitted"}]]
    BY <2>1, <2>2
  <2>5. \A b \in Arrivals :
          /\ arrival'[b].start <= now
          /\ arrival'[b].step = "done" =>
               arrival'[b].outcome = Outcome(cfg, call, arrival'[b].got, arrival'[b].start)
    BY <2>3, <1>m
  <2> HIDE DEF got, new
  <2> QED
    BY <2>1, <2>4, <2>5 DEF client, envelope
<1>3. ASSUME NEW a \in Arrivals, Admit(a)
      PROVE  AdmissionInv'
  <2> DEFINE out == Outcome(cfg, call, arrival[a].got, arrival[a].start)
  <2>1. /\ arrival' = [arrival EXCEPT ![a].step = "done", ![a].outcome = out]
        /\ UNCHANGED <<situation, cfg, call, now>>
    BY <1>3 DEF Admit
  <2>2. out \in {"unauthorized", "malformed", "clearledger_header_mismatch", "admitted"}
    BY OutcomeType
  <2> HIDE DEF out
  <2>3. /\ arrival'[a] = [arrival[a] EXCEPT !.step = "done", !.outcome = out]
        /\ \A b \in Arrivals \ {a} : arrival'[b] = arrival[b]
    BY <2>1
  <2>4. arrival' \in [Arrivals -> [step : {"waiting", "reading", "done"}, start : 0 .. MaxTime,
                               got : {envelope, [envelope EXCEPT !.content = Reencoded]},
                               outcome : {"none", "unauthorized", "malformed",
                                          "clearledger_header_mismatch", "admitted"}]]
    BY <2>1, <2>2
  <2>5. /\ arrival'[a].got = arrival[a].got /\ arrival'[a].start = arrival[a].start
        /\ arrival'[a].outcome = out
    BY <2>3
  <2>6. \A b \in Arrivals :
          /\ arrival'[b].start <= now
          /\ arrival'[b].step = "done" =>
               arrival'[b].outcome = Outcome(cfg, call, arrival'[b].got, arrival'[b].start)
    <3>1. out = Outcome(cfg, call, arrival'[a].got, arrival'[a].start)
      BY <2>5 DEF out
    <3>2. arrival'[a].start <= now
      BY <2>5
    <3> QED
      BY <2>3, <2>5, <3>1, <3>2
  <2> QED
    BY <2>1, <2>4, <2>6 DEF client, envelope
<1>4. CASE UNCHANGED admissionVars
  BY <1>4 DEF admissionVars, client, envelope
<1> QED
  BY <1>1, <1>2, <1>3, <1>4 DEF AdmissionNext

(* Every delivery keeps the types and what it was judged on.               *)
THEOREM AdmissionInvariant == AdmissionSpec => []AdmissionInv
  BY AdmissionInitInv, AdmissionStepInv, PTL DEF AdmissionSpec

(* Type correctness. *)
THEOREM AdmissionTypes == AdmissionSpec => []AdmissionTypeOK
<1>1. AdmissionInv => AdmissionTypeOK
  BY AdmissionAssumption DEF AdmissionInv, AdmissionTypeOK
<1> QED
  BY <1>1, AdmissionInvariant, PTL
-----------------------------------------------------------------------------
(* What an admitted delivery has passed. *)
LEMMA AdmittedPassed ==
  ASSUME AdmissionInv, NEW a \in Arrivals, Admitted(a)
  PROVE  Authorized(cfg, call, arrival[a].got, arrival[a].start)
<1>1. Outcome(cfg, call, arrival[a].got, arrival[a].start) = "admitted"
  BY DEF AdmissionInv, Admitted
<1> QED
  BY <1>1 DEF Outcome

LEMMA SituationFacts ==
  ASSUME AdmissionInv
  PROVE  /\ cfg.skew \in Nat
         /\ situation.drift \in Int
         /\ client.kind \in {"certify", "harness", "local"}
         /\ {cfg.token, cfg.secret, client.token, client.secret} \subseteq Text
         /\ {envelope.id, envelope.tid} \subseteq Text
         /\ envelope.content # Reencoded
         /\ \A a \in Arrivals :
              /\ arrival[a].got \in {envelope, [envelope EXCEPT !.content = Reencoded]}
              /\ arrival[a].got = envelope <=> arrival[a].got.content = envelope.content
              /\ arrival[a].start \in Int
<1>1. situation \in Situations /\ Loads(situation.setting)
  BY DEF AdmissionInv
<1>2. cfg.skew = Skew(situation.setting)
  BY DEF AdmissionInv, Load
<1>3. cfg.token = situation.setting.env.token /\ cfg.secret = situation.setting.env.secret
  BY DEF AdmissionInv, Load
<1>4. /\ envelope = [id |-> envelope.id, tid |-> envelope.tid, content |-> envelope.content,
                     sound |-> envelope.sound, hints |-> envelope.hints]
      /\ envelope.content # Reencoded
  BY <1>1, AdmissionAssumption DEF envelope
<1>5. /\ situation.drift \in Int /\ cfg.skew \in Nat
      /\ client.kind \in {"certify", "harness", "local"}
  BY <1>1, <1>2, AdmissionAssumption DEF client
<1>6. {situation.setting.env.token, situation.setting.env.secret, client.token, client.secret,
       envelope.id, envelope.tid} \subseteq Text
  BY <1>1, AdmissionAssumption DEF client, envelope
<1>7. ASSUME NEW a \in Arrivals
      PROVE  /\ arrival[a].got \in {envelope, [envelope EXCEPT !.content = Reencoded]}
             /\ arrival[a].got = envelope <=> arrival[a].got.content = envelope.content
             /\ arrival[a].start \in Int
  <2>1. /\ arrival[a].got \in {envelope, [envelope EXCEPT !.content = Reencoded]}
        /\ arrival[a].start \in 0 .. MaxTime
    BY DEF AdmissionInv
  <2>2. [envelope EXCEPT !.content = Reencoded].content = Reencoded
    BY <1>4
  <2>3. MaxTime \in Nat
    BY AdmissionAssumption
  <2> QED
    BY <1>4, <2>1, <2>2, <2>3
<1> QED
  BY <1>3, <1>4, <1>5, <1>6, <1>7

(* The signature of a call, by the kind of its client. *)
LEMMA CallSignature ==
  ASSUME AdmissionInv
  PROVE  /\ call.sig.time \in Int
         /\ \/ call.sig.scheme = "none"
            \/ /\ call.sig.scheme = "buyer"
               /\ call.sig.hash = envelope.content
               /\ call.sig.mac[1] \in {client.secret, Trim(client.secret)}
            \/ /\ call.sig.scheme = "local"
               /\ call.sig.mac = <<client.secret, call.sig.time, envelope.content>>
<1>1. situation.drift \in Int
  BY SituationFacts
<1>2. call = CallOf(client, envelope, situation.drift)
  BY DEF AdmissionInv
<1>3. ASSUME NEW key \in {client.secret, Trim(client.secret)}, NEW x, NEW y,
             call.sig = BuyerSigned(key, situation.drift, x, y, envelope.content)
      PROVE  /\ call.sig.time \in Int
             /\ call.sig.scheme = "buyer"
             /\ call.sig.hash = envelope.content
             /\ call.sig.mac[1] \in {client.secret, Trim(client.secret)}
  <2>1. call.sig.mac = <<key, situation.drift, x, y, envelope.content>>
    BY <1>3 DEF BuyerSigned
  <2>2. call.sig.mac[1] = key
    BY <2>1
  <2>3. /\ call.sig.time = situation.drift /\ call.sig.scheme = "buyer"
        /\ call.sig.hash = envelope.content
    BY <1>3 DEF BuyerSigned
  <2> QED
    BY <1>1, <1>3, <2>2, <2>3
<1>4. CASE call.sig = Unsigned
  <2>1. Unsigned.time = 0 /\ Unsigned.scheme = "none"
    BY DEF Unsigned
  <2> QED
    BY <1>4, <2>1
<1>5. CASE client.kind = "certify"
  <2>1. call = CertifyCall(client, envelope, situation.drift)
    BY <1>2, <1>5 DEF CallOf
  <2>2. CASE client.secret = Empty
    BY <2>1, <2>2, <1>4 DEF CertifyCall
  <2>3. CASE client.secret # Empty
    <3>1. \E x, y : call.sig = BuyerSigned(client.secret, situation.drift, x, y, envelope.content)
      BY <2>1, <2>3 DEF CertifyCall
    <3> QED
      BY <3>1, <1>3
  <2> QED
    BY <2>2, <2>3
<1>6. CASE client.kind = "harness"
  <2>1. call = HarnessCall(client, envelope, situation.drift)
    BY <1>2, <1>6 DEF CallOf
  <2>2. CASE Trim(client.secret) = Empty
    BY <2>1, <2>2, <1>4 DEF HarnessCall
  <2>3. CASE Trim(client.secret) # Empty
    <3>1. \E x, y : call.sig =
            BuyerSigned(Trim(client.secret), situation.drift, x, y, envelope.content)
      BY <2>1, <2>3 DEF HarnessCall
    <3> QED
      BY <3>1, <1>3
  <2> QED
    BY <2>2, <2>3
<1>7. CASE client.kind = "local"
  <2>1. call = LocalCall(client, envelope, situation.drift)
    BY <1>2, <1>7 DEF CallOf
  <2>2. CASE client.secret = Empty
    BY <2>1, <2>2, <1>4 DEF LocalCall
  <2>3. CASE client.secret # Empty
    <3>1. call.sig = LocallySigned(client.secret, situation.drift, envelope.content)
      BY <2>1, <2>3 DEF LocalCall
    <3> QED
      <4> DEFINE sig == LocallySigned(client.secret, situation.drift, envelope.content)
      <4>1. /\ sig.time = situation.drift /\ sig.scheme = "local"
            /\ sig.mac = <<client.secret, situation.drift, envelope.content>>
        BY DEF LocallySigned
      <4> HIDE DEF sig
      <4>2. call.sig = sig
        BY <3>1 DEF sig
      <4> QED
        BY <1>1, <4>1, <4>2
  <2> QED
    BY <2>2, <2>3
<1> QED
  BY <1>5, <1>6, <1>7, SituationFacts

LEMMA TrimTwice ==
  ASSUME NEW t \in Text
  PROVE  Trim(t) \in Text /\ Trim(Trim(t)) = Trim(t) /\ (~t.pad => Trim(t) = t)
  BY DEF Text, Trim

(***************************************************************************)
(* Where signatures are required, what is admitted was signed with the     *)
(* bidder's secret for the body that arrived.                              *)
(***************************************************************************)
THEOREM SignedOnly == AdmissionSpec => []AdmittedCallsAreSigned
<1>1. ASSUME AdmissionInv, NEW a \in Arrivals, Admitted(a), cfg.requireSignature
      PROVE  arrival[a].got = envelope /\ Trim(client.secret) = Trim(cfg.secret)
  <2> DEFINE e == arrival[a].got
  <2>1. SignatureOK(cfg, call, e, arrival[a].start)
    BY <1>1, AdmittedPassed DEF Authorized
  <2>2. e = envelope <=> e.content = envelope.content
    BY <1>1, SituationFacts
  <2>3. /\ Trim(Trim(client.secret)) = Trim(client.secret)
    BY <1>1, SituationFacts, TrimTwice
  <2>4. CASE call.sig.scheme = "buyer"
    <3>1. call.sig.hash = e.content /\ call.sig.mac[1] = cfg.secret
      BY <2>1, <2>4 DEF SignatureOK
    <3>2. /\ call.sig.hash = envelope.content
          /\ call.sig.mac[1] \in {client.secret, Trim(client.secret)}
      BY <1>1, <2>4, CallSignature
    <3> QED
      BY <2>2, <2>3, <3>1, <3>2
  <2>5. CASE call.sig.scheme = "local"
    <3>1. call.sig.mac = <<cfg.secret, call.sig.time, e.content>>
      BY <2>1, <2>5 DEF SignatureOK
    <3>2. call.sig.mac = <<client.secret, call.sig.time, envelope.content>>
      BY <1>1, <2>5, CallSignature
    <3> QED
      BY <2>2, <3>1, <3>2
  <2>6. CASE call.sig.scheme \notin {"buyer", "local"}
    BY <2>1, <2>6 DEF SignatureOK
  <2> QED
    BY <2>4, <2>5, <2>6
<1>2. AdmissionInv => AdmittedCallsAreSigned
  BY <1>1 DEF AdmittedCallsAreSigned
<1> QED
  BY <1>2, AdmissionInvariant, PTL

(***************************************************************************)
(* Two deliveries of a signed call that are both admitted lie at most      *)
(* twice the skew apart, however far the client's clock is off.            *)
(***************************************************************************)
THEOREM DuplicatesBounded == AdmissionSpec => []DuplicatesAreBounded
<1>1. ASSUME AdmissionInv, NEW a \in Arrivals, NEW b \in Arrivals,
             Admitted(a), Admitted(b), cfg.requireSignature
      PROVE  arrival[a].start - arrival[b].start <= 2 * cfg.skew
  <2>1. /\ cfg.skew \in Nat /\ call.sig.time \in Int
        /\ arrival[a].start \in Int /\ arrival[b].start \in Int
    BY <1>1, SituationFacts, CallSignature
  <2>2. /\ Fresh(cfg, call.sig, arrival[a].start)
        /\ Fresh(cfg, call.sig, arrival[b].start)
    BY <1>1, AdmittedPassed DEF Authorized, SignatureOK
  <2> QED
    BY <2>1, <2>2 DEF Fresh
<1>2. AdmissionInv => DuplicatesAreBounded
  BY <1>1 DEF DuplicatesAreBounded
<1> QED
  BY <1>2, AdmissionInvariant, PTL

(***************************************************************************)
(* Readiness and admission do not contradict each other, although one side *)
(* trims what the other does not.                                          *)
(***************************************************************************)
THEOREM HonestReadiness == AdmissionSpec => []ReadinessIsHonest
<1>1. ASSUME AdmissionInv, NEW a \in Arrivals, Admitted(a)
      PROVE  CredentialsReady(cfg)
  BY <1>1, AdmittedPassed DEF Authorized, BearerOK, SignatureOK, CredentialsReady
<1>2. ASSUME ReadinessNotes(cfg) = {}
      PROVE  Ready(cfg)
  <2>1. /\ "campaigns" \notin ReadinessNotes(cfg)
        /\ "auth" \notin ReadinessNotes(cfg)
        /\ "signature" \notin ReadinessNotes(cfg)
    BY <1>2
  <2>2. Enabled(cfg)
    BY <2>1 DEF ReadinessNotes
  <2>3. cfg.requireAuth => Trim(cfg.token) # Empty
    BY <2>1 DEF ReadinessNotes
  <2>4. cfg.requireSignature => Trim(cfg.secret) # Empty
    BY <2>1 DEF ReadinessNotes
  <2>5. Trim(Empty) = Empty
    <3>1. Empty \in Text /\ ~Empty.pad
      BY DEF Text, Empty
    <3> QED
      BY <3>1, TrimTwice
  <2> QED
    BY <2>2, <2>3, <2>4, <2>5 DEF Ready, CredentialsReady
<1>3. AdmissionInv => ReadinessIsHonest
  BY <1>1, <1>2 DEF ReadinessIsHonest
<1> QED
  BY <1>3, AdmissionInvariant, PTL
-----------------------------------------------------------------------------
(***************************************************************************)
(* A genuine call: its client holds the bidder's credentials, and the body *)
(* and the clock are right.  Its headers are what the bidder compares      *)
(* them with.                                                              *)
(***************************************************************************)
Genuine(a) ==
  /\ arrival[a].step = "done"
  /\ CredentialsReady(cfg)
  /\ HoldsCredentials(client)
  /\ Understood(client, envelope)
  /\ arrival[a].got = envelope
  /\ arrival[a].start - situation.drift \in -cfg.skew .. cfg.skew

LEMMA PlainBearer ==
  ASSUME NEW t \in Text, PlainToken(t)
  PROVE  /\ Trim(t) = t /\ t # Empty
         /\ Unprefixed(t) = t /\ ~HasPrefix(t, {"Bearer", "bearer"})
         /\ Trim(Prefixed(t)) = Prefixed(t)
<1>1. ~t.pad /\ t.words # <<>>
  BY DEF PlainToken
<1>2. Trim(t) = t
  BY <1>1, TrimTwice
<1>3. t # Empty
  BY <1>1 DEF Empty
<1>4. ~HasPrefix(t, {"Bearer", "bearer"}) /\ ~HasPrefix(t, {"Bearer"})
  BY DEF PlainToken, HasPrefix
<1>5. Unprefixed(t) = t
  BY <1>4 DEF Unprefixed
<1>6. Prefixed(t) = [words |-> <<"Bearer">> \o t.words, pad |-> FALSE]
  BY <1>1 DEF Prefixed
<1>7. \A w : Trim([words |-> w, pad |-> FALSE]) = [words |-> w, pad |-> FALSE]
  BY DEF Trim
<1> QED
  BY <1>2, <1>3, <1>4, <1>5, <1>6, <1>7

LEMMA GenuineBearer ==
  ASSUME AdmissionInv, NEW a \in Arrivals, Genuine(a)
  PROVE  BearerOK(cfg, call)
<1> SUFFICES ASSUME cfg.requireAuth
             PROVE  cfg.token # Empty /\ Trim(call.auth) = Prefixed(cfg.token)
  BY DEF BearerOK
<1>1. client.token = cfg.token /\ client.token \in Text /\ PlainToken(cfg.token)
  BY SituationFacts DEF Genuine, HoldsCredentials
<1>2. /\ Trim(client.token) = client.token /\ client.token # Empty
      /\ Unprefixed(client.token) = client.token
      /\ ~HasPrefix(client.token, {"Bearer", "bearer"})
      /\ Trim(Prefixed(client.token)) = Prefixed(client.token)
  BY <1>1, PlainBearer
<1>3. call = CallOf(client, envelope, situation.drift)
  BY DEF AdmissionInv
<1>4. CASE client.kind = "certify"
  <2>1. call.auth = Prefixed(client.token)
    BY <1>2, <1>3, <1>4 DEF CallOf, CertifyCall
  <2> QED
    BY <1>1, <1>2, <2>1
<1>5. CASE client.kind = "harness"
  <2>1. call.auth = Prefixed(client.token)
    BY <1>2, <1>3, <1>5 DEF CallOf, HarnessCall
  <2> QED
    BY <1>1, <1>2, <2>1
<1> QED
  BY <1>4, <1>5 DEF Genuine, HoldsCredentials

(* The ids of the headers, and the signature made of them. *)
LEMMA GenuineIds ==
  ASSUME AdmissionInv, NEW a \in Arrivals, Genuine(a)
  PROVE  /\ Trim(call.request) \in {Empty, envelope.id}
         /\ Trim(call.auction) \in {Empty, AuctionId(envelope)}
         /\ call.buyer = client.buyer /\ call.seat = client.seat
         /\ cfg.requireSignature =>
              /\ cfg.secret # Empty
              /\ Empty \notin {Trim(call.auction), Trim(call.request)}
              /\ call.sig = BuyerSigned(cfg.secret, situation.drift, Trim(call.auction),
                                        Trim(call.request), envelope.content)
<1>1. /\ envelope.id \in Text /\ envelope.tid \in Text /\ cfg.secret \in Text
      /\ client.secret = cfg.secret
      /\ Trim(envelope.id) = envelope.id /\ envelope.id # Empty
  BY SituationFacts, TrimTwice DEF Genuine, HoldsCredentials, Understood
<1>2. /\ Trim(Trim(envelope.tid)) = Trim(envelope.tid)
      /\ Trim(Empty) = Empty
  <2>1. Empty \in Text /\ ~Empty.pad
    BY DEF Text, Empty
  <2> QED
    BY <1>1, <2>1, TrimTwice
<1>3. call = CallOf(client, envelope, situation.drift)
  BY DEF AdmissionInv
<1>4. cfg.requireSignature => cfg.secret # Empty
  BY DEF Genuine, CredentialsReady
<1>5. CASE client.kind = "certify"
  <2> DEFINE tid == IF Trim(envelope.tid) = Empty THEN envelope.id ELSE Trim(envelope.tid)
  <2>1. call = CertifyCall(client, envelope, situation.drift)
    BY <1>3, <1>5 DEF CallOf
  <2>2. /\ call.request = IF client.secret # Empty THEN envelope.id ELSE Empty
        /\ call.auction = IF client.secret # Empty THEN tid ELSE Empty
        /\ call.buyer = client.buyer /\ call.seat = client.seat
    BY <1>1, <2>1 DEF CertifyCall
  <2>3. client.secret # Empty =>
          call.sig = BuyerSigned(client.secret, situation.drift, tid, envelope.id, envelope.content)
    BY <1>1, <2>1 DEF CertifyCall
  <2>4. Trim(tid) = tid /\ tid # Empty /\ tid = AuctionId(envelope)
    BY <1>1, <1>2 DEF AuctionId
  <2> HIDE DEF tid
  <2> QED
    BY <1>1, <1>2, <1>4, <2>2, <2>3, <2>4
<1>6. CASE client.kind = "harness"
  <2>1. call = HarnessCall(client, envelope, situation.drift)
    BY <1>3, <1>6 DEF CallOf
  <2>2. /\ call.request = envelope.id /\ call.auction = envelope.id
        /\ call.buyer = client.buyer /\ call.seat = client.seat
    BY <2>1 DEF HarnessCall
  <2>3. cfg.requireSignature => Trim(client.secret) = client.secret
    BY <1>1, <1>6, TrimTwice DEF Genuine, HoldsCredentials
  <2>4. cfg.requireSignature =>
          call.sig = BuyerSigned(client.secret, situation.drift, envelope.id, envelope.id,
                                 envelope.content)
    BY <1>1, <1>4, <2>1, <2>3 DEF HarnessCall
  <2>5. AuctionId(envelope) = envelope.id
    BY <1>1, <1>6 DEF AuctionId, Genuine, Understood
  <2> QED
    BY <1>1, <1>4, <2>2, <2>4, <2>5
<1> QED
  BY <1>5, <1>6 DEF Genuine, HoldsCredentials

LEMMA GenuineSignature ==
  ASSUME AdmissionInv, NEW a \in Arrivals, Genuine(a), cfg.requireSignature
  PROVE  SignatureOK(cfg, call, arrival[a].got, arrival[a].start)
<1> DEFINE sig == BuyerSigned(cfg.secret, situation.drift, Trim(call.auction),
                              Trim(call.request), envelope.content)
<1>1. /\ call.sig = sig /\ cfg.secret # Empty
      /\ Empty \notin {Trim(call.auction), Trim(call.request)}
  BY GenuineIds
<1>2. /\ sig.scheme = "buyer" /\ sig.hash = envelope.content /\ sig.time = situation.drift
      /\ sig.mac = <<cfg.secret, situation.drift, Trim(call.auction), Trim(call.request),
                     envelope.content>>
  BY DEF BuyerSigned
<1> HIDE DEF sig
<1>3. arrival[a].got = envelope
  BY DEF Genuine
<1>4. Fresh(cfg, call.sig, arrival[a].start)
  <2>1. /\ cfg.skew \in Nat /\ situation.drift \in Int /\ arrival[a].start \in Int
        /\ arrival[a].start - situation.drift \in -cfg.skew .. cfg.skew
    BY SituationFacts DEF Genuine
  <2> QED
    BY <1>1, <1>2, <2>1 DEF Fresh
<1> QED
  BY <1>1, <1>2, <1>3, <1>4 DEF SignatureOK

(***************************************************************************)
(* Every genuine call is admitted, whatever the texts of its credentials   *)
(* and ids, its versions, the skew and the clocks.                         *)
(***************************************************************************)
THEOREM GenuineAdmitted == AdmissionSpec => []GenuineCallsAdmitted
<1>1. ASSUME AdmissionInv, NEW a \in Arrivals, Genuine(a)
      PROVE  Admitted(a)
  <2>1. Authorized(cfg, call, envelope, arrival[a].start)
    BY <1>1, GenuineBearer, GenuineSignature DEF Authorized, Genuine
  <2>2. VersionAccepted(cfg.accepted, call.version, envelope.hints) /\ envelope.sound
    BY <1>1 DEF Genuine, Understood
  <2>3. HeadersMatch(cfg, call, envelope)
    BY <1>1, GenuineIds DEF HeadersMatch, Genuine, HoldsCredentials
  <2>4. Outcome(cfg, call, envelope, arrival[a].start) = "admitted"
    BY <2>1, <2>2, <2>3 DEF Outcome
  <2> QED
    BY <1>1, <2>4 DEF Genuine, Admitted, AdmissionInv
<1>2. AdmissionInv => GenuineCallsAdmitted
  BY <1>1 DEF GenuineCallsAdmitted, Genuine
<1> QED
  BY <1>2, AdmissionInvariant, PTL
-----------------------------------------------------------------------------
(***************************************************************************)
(* The endpoints.  TrimSlashes keeps a path up to its last named segment:  *)
(* what is left ends in a name, and is left alone by the next trim.        *)
(***************************************************************************)
LEMMA LeastPosition ==
  ASSUME NEW T \in SUBSET Nat, T # {}
  PROVE  \E m \in T : \A k \in T : m <= k
<1>1. PICK m \in T : \A k \in T : <<k, m>> \notin OpToRel(<, Nat)
  BY NatLessThanWellFounded, WFMin
<1>2. \A k \in T : ~(k < m)
  BY <1>1, Zenon DEF OpToRel
<1> QED
  BY <1>2

LEMMA GreatestPosition ==
  ASSUME NEW n \in Nat, NEW T \in SUBSET (0 .. n), 0 \in T
  PROVE  Max(T) \in T /\ \A k \in T : k <= Max(T)
<1> DEFINE Below == {n - k : k \in T}
<1>1. Below \in SUBSET Nat /\ Below # {}
  OBVIOUS
<1>2. PICK b \in Below : \A k \in Below : b <= k
  <2> HIDE DEF Below
  <2> QED
    BY <1>1, LeastPosition
<1>3. PICK m \in T : b = n - m
  BY <1>2
<1>4. ASSUME NEW k \in T
      PROVE  m >= k
  <2>1. b <= n - k
    BY <1>2
  <2> QED
    BY <1>3, <2>1
<1>5. \E x \in T : \A y \in T : x >= y
  BY <1>4
<1>6. Max(T) \in T /\ \A y \in T : Max(T) >= y
  BY <1>5, Zenon DEF Max
<1> QED
  BY <1>6

Named(path) == {i \in DOMAIN path : path[i] # ""}

(* A path whose last segment is a name. *)
Bare(path) == path = <<>> \/ Len(path) \in Named(path)

LEMMA TrimmedPath ==
  ASSUME NEW S, NEW p \in Seq(S)
  PROVE  /\ TrimSlashes(p) \in Seq(S)
         /\ Len(TrimSlashes(p)) <= Len(p)
         /\ Bare(TrimSlashes(p))
         /\ Bare(p) => TrimSlashes(p) = p
<1> DEFINE last == Max({0} \cup Named(p))
<1>1. Len(p) \in Nat /\ DOMAIN p = 1 .. Len(p) /\ \A i \in 1 .. Len(p) : p[i] \in S
  OBVIOUS
<1>2. Named(p) \subseteq 1 .. Len(p)
  BY <1>1, Zenon DEF Named
<1>3. last \in {0} \cup Named(p) /\ \A k \in {0} \cup Named(p) : k <= last
  <2>1. {0} \cup Named(p) \in SUBSET (0 .. Len(p)) /\ 0 \in {0} \cup Named(p)
    BY <1>1, <1>2
  <2> QED
    BY <1>1, <2>1, GreatestPosition
<1>4. TrimSlashes(p) = SubSeq(p, 1, last)
  BY Zenon DEF TrimSlashes, Named
<1> HIDE DEF last
<1>5. last \in 0 .. Len(p)
  BY <1>1, <1>2, <1>3
<1>6. /\ TrimSlashes(p) \in Seq(S)
      /\ Len(TrimSlashes(p)) = last
      /\ \A i \in 1 .. last : TrimSlashes(p)[i] = p[i]
  <2>1. \A i \in 1 .. last : p[i] \in S
    BY <1>1, <1>5
  <2>2. last \in Int /\ 1 \in Int
    BY <1>5
  <2>3. /\ SubSeq(p, 1, last) \in Seq(S)
        /\ Len(SubSeq(p, 1, last)) = IF 1 <= last THEN last - 1 + 1 ELSE 0
        /\ \A i \in 1 .. last - 1 + 1 : SubSeq(p, 1, last)[i] = p[1 + i - 1]
    BY <2>1, <2>2, SubSeqProperties
  <2> QED
    BY <1>4, <1>5, <2>3
<1>7. Bare(TrimSlashes(p))
  <2>1. CASE last = 0
    <3>1. TrimSlashes(p) = <<>>
      BY <1>6, <2>1
    <3> QED
      BY <3>1 DEF Bare
  <2>2. CASE last \in Named(p)
    <3>1. last \in 1 .. last /\ p[last] # ""
      <4>1. last \in 1 .. Len(p)
        BY <1>2, <2>2
      <4>2. last \in 1 .. last
        BY <1>1, <4>1
      <4> QED
        BY <2>2, <4>2, Zenon DEF Named
    <3>2. last \in DOMAIN TrimSlashes(p)
      <4>1. DOMAIN TrimSlashes(p) = 1 .. Len(TrimSlashes(p))
        BY <1>6
      <4> QED
        BY <1>6, <3>1, <4>1
    <3> QED
      BY <1>6, <3>1, <3>2, Zenon DEF Bare, Named
  <2> QED
    BY <1>3, <2>1, <2>2
<1>8. ASSUME Bare(p)
      PROVE  TrimSlashes(p) = p
  <2>1. last = Len(p)
    <3>1. CASE p = <<>>
      BY <1>5, <3>1
    <3>2. CASE Len(p) \in Named(p)
      <4>1. Len(p) <= last
        BY <1>3, <3>2
      <4>2. Len(p) \in Nat
        BY <1>1
      <4> QED
        BY ONLY <1>5, <4>1, <4>2
    <3> QED
      BY <1>8, <3>1, <3>2 DEF Bare
  <2> QED
    BY <1>4, <2>1, SubSeqFull
<1> QED
  BY <1>1, <1>5, <1>6, <1>7, <1>8

(* A path of one segment, and the two paths that are short enough to name. *)
LEMMA OneSegment ==
  ASSUME NEW x
  PROVE  /\ <<x>> \in Seq({x}) /\ Len(<<x>>) = 1 /\ DOMAIN <<x>> = {1} /\ <<x>>[1] = x
         /\ Append(<<>>, x) = <<x>> /\ SubSeq(<<x>>, 1, 0) = <<>>
<1>1. Len(<<x>>) = 1 /\ DOMAIN <<x>> = {1} /\ <<x>>[1] = x
  OBVIOUS
<1>2. <<x>> \in Seq({x})
  OBVIOUS
<1>3. Append(<<>>, x) = <<x>>
  OBVIOUS
<1>4. SubSeq(<<x>>, 1, 0) = <<>>
  BY SubSeqEmpty
<1> QED
  BY <1>1, <1>2, <1>3, <1>4

LEMMA PlainPaths == TrimSlashes(<<>>) = <<>> /\ TrimSlashes(<<"openrtb">>) = <<"openrtb">>
<1>1. Bare(<<>>) /\ <<>> \in Seq({})
  BY DEF Bare
<1>2. <<"openrtb">> \in Seq({"openrtb"}) /\ Bare(<<"openrtb">>)
  <2>1. "openrtb" # ""
    BY Zenon
  <2>2. 1 \in Named(<<"openrtb">>)
    BY <2>1, OneSegment, Zenon DEF Named
  <2> QED
    BY <2>2, OneSegment, Zenon DEF Bare
<1> QED
  BY <1>1, <1>2, TrimmedPath, Zenon

LEMMA MainPath == Route(<<"openrtb">>) = "openrtb"
<1>1. PICK p : p = <<"openrtb">>
  OBVIOUS
<1>2. Len(p) = 1 /\ p[1] = "openrtb"
  BY <1>1, OneSegment, Zenon
<1>3. p \notin {<<page>> : page \in OperatorPages}
  <2>1. "openrtb" \notin OperatorPages
    BY DEF OperatorPages
  <2>2. \A page \in OperatorPages : <<page>>[1] = page
    BY OneSegment
  <2> QED
    BY <1>2, <2>1, <2>2, Zenon
<1>4. Route(p) = "openrtb"
  BY <1>1, <1>2, <1>3 DEF Route
<1> QED
  BY <1>1, <1>4, Zenon

LEMMA PagePath ==
  ASSUME NEW page \in OperatorPages
  PROVE  Route(<<page>>) = "operator"
<1>1. PICK p : p = <<page>>
  OBVIOUS
<1>2. Len(p) = 1 /\ p[1] = page /\ p \in Seq({page})
  BY <1>1, OneSegment, Zenon
<1>3. p # <<"openrtb">>
  <2>1. page # "openrtb"
    BY DEF OperatorPages
  <2>2. <<"openrtb">>[1] = "openrtb"
    BY OneSegment
  <2> QED
    BY <1>2, <2>1, <2>2, Zenon
<1>4. ~(Len(TrimSlashes(p)) > 2) /\ ~(Len(p) > 1)
  <2>1. /\ Len(TrimSlashes(p)) <= Len(p)
        /\ TrimSlashes(p) \in Seq({page})
    BY <1>2, TrimmedPath
  <2> QED
    BY <1>2, <2>1
<1>5. p \in {<<q>> : q \in OperatorPages}
  BY <1>1, Zenon
<1>6. Route(p) = "operator"
  BY <1>3, <1>4, <1>5 DEF Route
<1> QED
  BY <1>1, <1>6, Zenon

(* Where a path is served, it still is without its trailing slashes. *)
LEMMA TrimmedIsServed ==
  ASSUME NEW S, NEW p \in Seq(S), Route(p) = "openrtb"
  PROVE  Route(TrimSlashes(p)) = "openrtb"
<1> DEFINE q == TrimSlashes(p)
<1>1. q \in Seq(S) /\ TrimSlashes(q) = q
  BY TrimmedPath, Zenon
<1>2. CASE p = <<"openrtb">>
  <2>1. q = p
    BY <1>2, PlainPaths
  <2> QED
    BY <1>2, <2>1
<1>3. CASE p # <<"openrtb">>
  <2> HIDE DEF q
  <2>1. Len(q) > 2 /\ Head(q) = "buyers" /\ Last(q) = "openrtb"
    BY <1>3 DEF Route, q
  <2>2. q \notin {<<page>> : page \in OperatorPages}
    <3>1. ASSUME NEW page \in OperatorPages, q = <<page>>
          PROVE  FALSE
      <4>1. Len(q) = 1
        BY <3>1, OneSegment, Zenon
      <4> QED
        BY <2>1, <4>1
    <3> QED
      BY <3>1
  <2>3. Route(q) = "openrtb"
    <3>1. Head(q) # "events"
      BY <2>1
    <3> QED
      BY <1>1, <2>1, <2>2, <3>1 DEF Route
  <2> QED
    BY <2>3 DEF q
<1> QED
  BY <1>2, <1>3

(* What the process has loaded of its endpoints. *)
LEMMA RegisteredEndpoint ==
  ASSUME AdmissionInv
  PROVE  LET s == situation.setting
         IN  /\ cfg.endpoint = RegistrationEndpoint(FirstURL(s.env.openrtb, s.file.openrtb),
                                                    FirstURL(s.env.public, s.file.public))
             /\ IsURL(s.env.openrtb) /\ IsURL(s.env.public)
             /\ IsURL(s.file.openrtb) /\ IsURL(s.file.public)
<1>1. situation \in Situations /\ cfg = Load(situation.setting)
  BY DEF AdmissionInv
<1>2. \A u \in {situation.setting.env.openrtb, situation.setting.env.public,
                situation.setting.file.openrtb, situation.setting.file.public} : IsURL(u)
  BY <1>1, AdmissionAssumption
<1> QED
  BY <1>1, <1>2 DEF Load

LEMMA EndpointHasPath == AdmissionInv => "path" \in DOMAIN cfg.endpoint
<1> SUFFICES ASSUME AdmissionInv PROVE "path" \in DOMAIN cfg.endpoint
  OBVIOUS
<1> DEFINE env == situation.setting.env
           file == situation.setting.file
           openrtb == FirstURL(env.openrtb, file.openrtb)
           public == FirstURL(env.public, file.public)
<1>1. cfg.endpoint = RegistrationEndpoint(openrtb, public) /\ IsURL(openrtb) /\ IsURL(public)
  BY RegisteredEndpoint DEF FirstURL
<1>2. "path" \in DOMAIN openrtb /\ "path" \in DOMAIN public
  BY <1>1 DEF IsURL
<1> HIDE DEF openrtb, public
<1>3. DOMAIN NoURL = {"set", "kind", "host", "path"}
  BY Zenon DEF NoURL
<1>4. DOMAIN WithOpenRTB(public) = DOMAIN public
  BY Zenon DEF WithOpenRTB
<1> QED
  BY <1>1, <1>2, <1>3, <1>4 DEF RegistrationEndpoint

(***************************************************************************)
(* The endpoint the bidder registers is served where the one certification *)
(* derives from the environment is, and its operator endpoints are served  *)
(* when it is /openrtb (registration.go:91-96, server.go:39-48 and 92-99,  *)
(* cmd/certify/main.go:58-70).                                             *)
(***************************************************************************)
THEOREM PublishedAreServed == AdmissionSpec => []PublishedEndpointsServed
<1>1. AdmissionInv => PublishedEndpointsServed
  <2> SUFFICES ASSUME AdmissionInv PROVE PublishedEndpointsServed
    OBVIOUS
  <2> DEFINE env == situation.setting.env
             file == situation.setting.file
  <2>1. /\ cfg.endpoint = RegistrationEndpoint(FirstURL(env.openrtb, file.openrtb),
                                               FirstURL(env.public, file.public))
        /\ IsURL(env.openrtb) /\ IsURL(env.public) /\ IsURL(file.openrtb) /\ IsURL(file.public)
    BY RegisteredEndpoint
  <2> HIDE DEF env, file
  <2>2. ASSUME ~file.openrtb.set, Route(CertifiedEndpoint(env).path) = "openrtb"
        PROVE  Route(cfg.endpoint.path) = "openrtb"
    <3>1. CASE env.openrtb.set
      <4>1. cfg.endpoint.path = TrimSlashes(env.openrtb.path)
        BY <2>1, <3>1 DEF RegistrationEndpoint, FirstURL, IsURL
      <4>2. env.openrtb.path \in Seq(STRING) /\ Route(env.openrtb.path) = "openrtb"
        BY <2>1, <2>2, <3>1 DEF CertifiedEndpoint, IsURL
      <4> QED
        BY <4>1, <4>2, TrimmedIsServed
    <3>2. CASE ~env.openrtb.set /\ env.public.set
      <4>1. cfg.endpoint = CertifiedEndpoint(env)
        BY <2>1, <2>2, <3>2 DEF RegistrationEndpoint, FirstURL, CertifiedEndpoint
      <4> QED
        BY <2>2, <4>1
    <3>3. CASE ~env.openrtb.set /\ ~env.public.set
      <4>1. CertifiedEndpoint(env).path = <<>>
        BY <3>3 DEF CertifiedEndpoint, NoURL
      <4>2. TrimSlashes(<<>>) = <<>>
        BY PlainPaths
      <4>3. Route(<<>>) # "openrtb"
        BY <4>2 DEF Route
      <4> QED
        BY <2>2, <4>1, <4>3
    <3> QED
      BY <3>1, <3>2, <3>3
  <2>3. ASSUME cfg.endpoint.path = <<"openrtb">>, NEW page \in OperatorPages
        PROVE  Route(OperatorEndpoint(cfg.endpoint, page).path) = "operator"
    <3>1. OperatorEndpoint(cfg.endpoint, page).path = <<page>>
      <4>1. <<"openrtb">> # <<>> /\ Last(<<"openrtb">>) = "openrtb" /\ Front(<<"openrtb">>) = <<>>
        BY OneSegment DEF Last, Front
      <4>2. EndsInOpenRTB(cfg.endpoint.host, cfg.endpoint.path)
        BY <2>3, <4>1, Zenon DEF EndsInOpenRTB
      <4>3. OperatorEndpoint(cfg.endpoint, page) =
              [cfg.endpoint EXCEPT !.path = Append(Front(@), page)]
        BY <2>3, <4>1, <4>2, Zenon DEF OperatorEndpoint
      <4>4. [cfg.endpoint EXCEPT !.path = Append(Front(@), page)].path = Append(<<>>, page)
        BY <2>3, <4>1, EndpointHasPath
      <4> QED
        BY <4>3, <4>4, OneSegment
    <3> QED
      BY <3>1, PagePath
  <2>4. ASSUME env.openrtb = NoURL, file.openrtb = NoURL, env.public.set,
               env.public.path \in {<<>>, <<"openrtb">>}, env.public.host # "openrtb"
        PROVE  Route(cfg.endpoint.path) = "openrtb"
    <3> DEFINE base == TrimSlashes(env.public.path)
    <3>0. ~NoURL.set
      BY Zenon DEF NoURL
    <3>1. cfg.endpoint = WithOpenRTB(env.public)
      BY <2>1, <2>4, <3>0 DEF RegistrationEndpoint, FirstURL
    <3>2. cfg.endpoint.path =
            IF EndsInOpenRTB(env.public.host, base) THEN base ELSE Append(base, "openrtb")
      BY <2>1, <3>1 DEF WithOpenRTB, IsURL
    <3>3. base \in {<<>>, <<"openrtb">>}
      BY <2>4, PlainPaths
    <3> HIDE DEF base
    <3>4. EndsInOpenRTB(env.public.host, base) <=> base # <<>>
      <4>1. <<"openrtb">> # <<>> /\ Last(<<"openrtb">>) = "openrtb"
        BY OneSegment DEF Last
      <4> QED
        BY <2>4, <3>3, <4>1, Zenon DEF EndsInOpenRTB
    <3>5. cfg.endpoint.path = <<"openrtb">>
      <4>1. Append(<<>>, "openrtb") = <<"openrtb">>
        BY OneSegment
      <4> QED
        BY <3>2, <3>3, <3>4, <4>1, Zenon
    <3> QED
      BY <3>5, MainPath
  <2> QED
    BY <2>2, <2>3, <2>4, Zenon DEF PublishedEndpointsServed, env, file
<1> QED
  BY <1>1, AdmissionInvariant, PTL
=============================================================================
