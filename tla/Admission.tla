----------------------------- MODULE Admission -----------------------------
(***************************************************************************)
(* One call on its way into the bidder.  The bidder has loaded a setting;  *)
(* a client whose clock may be off has just made the call; the network     *)
(* delivers it now or later, more than once, or with a body that some hop  *)
(* has encoded again.  A handler reads the clock when the request arrives, *)
(* then the body, which takes time, and only then authorises the call with *)
(* the time it has read.                                                   *)
(***************************************************************************)
EXTENDS AccessRules

CONSTANTS
  Situations,  (* Records of the setting the bidder was started with, the  *)
               (* client, the envelope it posts, and how far its clock is  *)
               (* ahead of the bidder's (drift).                           *)
  Reencoded,   (* The content of a body another hop has encoded again.     *)
  Arrivals,    (* The deliveries of the call.                              *)
  MaxTime      (* The clock stops here.                                    *)

IsURL(u) == u \in [set : BOOLEAN, kind : STRING, host : STRING, path : Seq(STRING)]

ASSUME AdmissionAssumption ==
  /\ MaxTime \in Nat
  /\ \A s \in Situations :
       /\ Loads(s.setting) => Skew(s.setting) \in Nat
       /\ s.drift \in Int
       /\ {s.setting.env.token, s.setting.env.secret, s.client.token, s.client.secret,
           s.envelope.id, s.envelope.tid} \subseteq Text
       /\ \A u \in {s.setting.env.openrtb, s.setting.env.public,
                   s.setting.file.openrtb, s.setting.file.public} : IsURL(u)
       /\ s.client.kind \in {"certify", "harness", "local"}
       /\ s.envelope = [id |-> s.envelope.id, tid |-> s.envelope.tid,
                        content |-> s.envelope.content, sound |-> s.envelope.sound,
                        hints |-> s.envelope.hints]
       /\ s.envelope.content # Reencoded

VARIABLES
  situation,
  cfg,       (* What the bidder has loaded of the setting.                 *)
  call,      (* The call the client has made.                              *)
  now,       (* The bidder's clock; 0 when the call is made.               *)
  arrival    (* By delivery: its step, the time it read first, the         *)
             (* envelope it got and the outcome.                           *)

admissionVars == <<situation, cfg, call, now, arrival>>

client == situation.client
envelope == situation.envelope

Waiting == [step |-> "waiting", start |-> 0, got |-> envelope, outcome |-> "none"]

AdmissionInit ==
  /\ situation \in {s \in Situations : Loads(s.setting)}
  /\ cfg = Load(situation.setting)
  /\ call = CallOf(client, envelope, situation.drift)
  /\ now = 0
  /\ arrival = [a \in Arrivals |-> Waiting]

AdmissionTick ==
  /\ now < MaxTime
  /\ now' = now + 1
  /\ UNCHANGED <<situation, cfg, call, arrival>>

(* Mutant: the time is the one the client has signed. *)
DeliverDated(a, content) ==
  /\ arrival[a].step = "waiting"
  /\ arrival' = [arrival EXCEPT
       ![a] = [step |-> "reading", start |-> call.sig.time, outcome |-> "none",
               got |-> [envelope EXCEPT !.content = content]]]
  /\ UNCHANGED <<situation, cfg, call, now>>

(* The handler starts: start := time.Now(), before the body is read. *)
Deliver(a, content) ==
  /\ arrival[a].step = "waiting"
  /\ arrival' = [arrival EXCEPT
       ![a] = [step |-> "reading", start |-> now, outcome |-> "none",
               got |-> [envelope EXCEPT !.content = content]]]
  /\ UNCHANGED <<situation, cfg, call, now>>

(* Mutant: the call is judged at the time its body has been read. *)
AdmitWhenRead(a) ==
  /\ arrival[a].step = "reading"
  /\ arrival' = [arrival EXCEPT
       ![a].step = "done", ![a].outcome = Outcome(cfg, call, arrival[a].got, now)]
  /\ UNCHANGED <<situation, cfg, call, now>>

Admit(a) ==
  /\ arrival[a].step = "reading"
  /\ arrival' = [arrival EXCEPT
       ![a].step = "done",
       ![a].outcome = Outcome(cfg, call, arrival[a].got, arrival[a].start)]
  /\ UNCHANGED <<situation, cfg, call, now>>

AdmissionNext ==
  \/ AdmissionTick
  \/ \E a \in Arrivals : \E content \in {envelope.content, Reencoded} : Deliver(a, content)
  \/ \E a \in Arrivals : Admit(a)

AdmissionSpec == AdmissionInit /\ [][AdmissionNext]_admissionVars

-----------------------------------------------------------------------------
AdmissionTypeOK ==
  /\ Loads(situation.setting)
  /\ cfg = Load(situation.setting)
  /\ call = CallOf(client, envelope, situation.drift)
  /\ now \in 0 .. MaxTime
  /\ \A a \in Arrivals :
       /\ arrival[a].step \in {"waiting", "reading", "done"}
       /\ arrival[a].start \in 0 .. now
       /\ arrival[a].got \in {envelope, [envelope EXCEPT !.content = Reencoded]}

Admitted(a) == arrival[a].step = "done" /\ arrival[a].outcome = "admitted"

(***************************************************************************)
(* Certification and the harness, given the bidder's own credentials, are  *)
(* admitted whenever the bidder says its credentials are ready, the call   *)
(* arrives unchanged within the skew of both clocks however long its body  *)
(* takes, and the version it announces is accepted.  What must hold of the *)
(* credentials is named here and nowhere in the repository: a token        *)
(* neither padded nor written with its Bearer, a secret the harness does   *)
(* not trim, an id without padding where the id is in a header             *)
(* (server.go:240-280, certify.go:263-292, harness.go:339-434).            *)
(***************************************************************************)
HoldsCredentials(cl) ==
  /\ cl.kind \in {"certify", "harness"}
  /\ cl.token = cfg.token /\ cl.secret = cfg.secret
  /\ cfg.requireAuth => PlainToken(cfg.token)
  /\ cfg.requireSignature /\ cl.kind = "harness" => ~cfg.secret.pad
  /\ cl.buyer \in {"", cfg.buyer} /\ cl.seat \in {"", cfg.seat}

Understood(cl, e) ==
  /\ e.sound /\ Trim(e.id) # Empty /\ ~e.id.pad
  /\ cl.kind = "harness" => e.tid = e.id
  /\ VersionAccepted(cfg.accepted, call.version, e.hints)

GenuineCallsAdmitted ==
  \A a \in Arrivals :
    /\ arrival[a].step = "done"
    /\ CredentialsReady(cfg)
    /\ HoldsCredentials(client)
    /\ Understood(client, envelope)
    /\ arrival[a].got = envelope
    /\ arrival[a].start - situation.drift \in -cfg.skew .. cfg.skew
    => Admitted(a)

(***************************************************************************)
(* Where signatures are required, a call that is admitted was signed with  *)
(* the bidder's secret, up to blanks the client has trimmed from its own,  *)
(* for the very body that arrived, whichever of the two schemes it used    *)
(* (verifyProductionBuyerSignature, verifyLocalSignature,                  *)
(* server.go:297-353).                                                     *)
(***************************************************************************)
AdmittedCallsAreSigned ==
  \A a \in Arrivals :
    Admitted(a) /\ cfg.requireSignature =>
      /\ arrival[a].got = envelope
      /\ Trim(client.secret) = Trim(cfg.secret)

(***************************************************************************)
(* A call delivered twice can be admitted twice, and the engine reserves   *)
(* for both (engine.go:161): nothing remembers a call.  What bounds it is  *)
(* the signature: two admitted deliveries of a signed call are at most     *)
(* twice the skew apart, whatever the client's clock says                  *)
(* (server.go:313 and 341).                                                *)
(***************************************************************************)
DuplicatesAreBounded ==
  \A a, b \in Arrivals :
    Admitted(a) /\ Admitted(b) /\ cfg.requireSignature =>
      arrival[a].start - arrival[b].start <= 2 * cfg.skew

(***************************************************************************)
(* A bidder whose /readyz denies its credentials admits nobody, and one    *)
(* that configcheck has no note about is ready: the two look at the same   *)
(* settings in different ways, trimmed and not (server.go:125-127,         *)
(* config.go:418-430).                                                     *)
(***************************************************************************)
ReadinessIsHonest ==
  /\ \A a \in Arrivals : Admitted(a) => CredentialsReady(cfg)
  /\ ReadinessNotes(cfg) = {} => Ready(cfg)

(***************************************************************************)
(* Where the endpoint that certification derives from the environment is   *)
(* served, so is the one the bidder registers, if the campaign file names  *)
(* none; and when that is /openrtb, so are its operator endpoints.         *)
(* Behind /buyers/{id}/openrtb they are not (registration.go:91-96,        *)
(* server.go:39-48 and 92-99, cmd/certify/main.go:58-70).  A public        *)
(* endpoint with or without /openrtb is enough, but for a host of that     *)
(* name, which is taken for the path (config.go:365).                      *)
(***************************************************************************)
PublishedEndpointsServed ==
  LET env  == situation.setting.env
      file == situation.setting.file
  IN
  /\ ~file.openrtb.set /\ Route(CertifiedEndpoint(env).path) = "openrtb" =>
       Route(cfg.endpoint.path) = "openrtb"
  /\ cfg.endpoint.path = <<"openrtb">> =>
       \A page \in OperatorPages : Route(OperatorEndpoint(cfg.endpoint, page).path) = "operator"
  /\ env.openrtb = NoURL /\ file.openrtb = NoURL
       /\ env.public.set /\ env.public.path \in {<<>>, <<"openrtb">>} /\ env.public.host # "openrtb" =>
       Route(cfg.endpoint.path) = "openrtb"
=============================================================================
