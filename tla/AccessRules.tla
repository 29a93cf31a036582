---------------------------- MODULE AccessRules ----------------------------
(***************************************************************************)
(* Who may call the bidder: the headers its clients put on a call          *)
(* (certification, the harness, a local helper) and what Server.openrtb    *)
(* asks of them before the engine sees the request.                        *)
(*                                                                         *)
(* An envelope is what this layer sees of a body: its id and source.tid as *)
(* texts, its content as a token (equal only for equal bytes), its version *)
(* hints and whether it decodes once its version is accepted.  A MAC is    *)
(* the tuple of what it was made from, key first; hashes and MACs are      *)
(* equal when what they were made from is.  Header values arrive trimmed.  *)
(***************************************************************************)
EXTENDS ConfigRules

Word(w) == [words |-> <<w>>, pad |-> FALSE]

(* "Bearer " + t *)
Prefixed(t) == [words |-> <<"Bearer">> \o t.words, pad |-> t.pad \/ t.words = <<>>]

HasPrefix(t, spellings) ==
  t.words # <<>> /\ Head(t.words) \in spellings /\ (Len(t.words) > 1 \/ t.pad)

(* strings.TrimPrefix(t, "Bearer ") *)
Unprefixed(t) ==
  IF HasPrefix(t, {"Bearer"})
  THEN [words |-> Tail(t.words), pad |-> t.pad /\ Len(t.words) > 1] ELSE t

(* A token every client turns into the header the server wants. *)
PlainToken(t) == ~t.pad /\ t.words # <<>> /\ Head(t.words) \notin {"Bearer", "bearer"}

Unsigned == [scheme |-> "none", time |-> 0, hash |-> "", mac |-> <<>>]
BuyerSigned(key, time, auction, request, content) ==
  [scheme |-> "buyer", time |-> time, hash |-> content,
   mac |-> <<key, time, auction, request, content>>]
LocallySigned(key, time, content) ==
  [scheme |-> "local", time |-> time, hash |-> "", mac |-> <<key, time, content>>]

(* auctionIDFromRequest *)
AuctionId(e) == IF Trim(e.tid) # Empty THEN Trim(e.tid) ELSE e.id

-----------------------------------------------------------------------------
(* openRTBVersion of certify: the option as it is. *)
CertifiedVersion(cl) == IF cl.version = "" THEN DefaultVersion ELSE cl.version

(* postOpenRTB of certify: ids only with a signature. *)
CertifyCall(cl, e, time) ==
  LET request == IF Trim(e.id) = Empty THEN Word("cert_request") ELSE Trim(e.id)
      auction == IF Trim(e.tid) = Empty THEN request ELSE Trim(e.tid)
      signs   == cl.secret # Empty
  IN  [auth |-> IF cl.token = Empty THEN Empty ELSE Prefixed(Unprefixed(cl.token)),
       version |-> CertifiedVersion(cl),
       request |-> IF signs THEN request ELSE Empty,
       auction |-> IF signs THEN auction ELSE Empty,
       buyer |-> cl.buyer, seat |-> cl.seat,
       sig |-> IF signs THEN BuyerSigned(cl.secret, time, auction, request, e.content)
               ELSE Unsigned]

(* callBuyer and applyAuthHeaders of the harness: token and secret are     *)
(* trimmed, the ids are the request's and are signed as they are.          *)
HarnessCall(cl, e, time) ==
  LET token == Trim(cl.token) IN
  [auth |-> IF token = Empty \/ HasPrefix(token, {"Bearer", "bearer"}) THEN token
            ELSE Prefixed(token),
   version |-> IF Outbound(cl.version) = "" THEN DefaultVersion ELSE Outbound(cl.version),
   request |-> e.id, auction |-> e.id,
   buyer |-> cl.buyer, seat |-> cl.seat,
   sig |-> IF Trim(cl.secret) = Empty THEN Unsigned
           ELSE BuyerSigned(Trim(cl.secret), time, e.id, e.id, e.content)]

(* The helper headers of README.md, which no code of the repository sends. *)
LocalCall(cl, e, time) ==
  [auth |-> Prefixed(cl.token), version |-> cl.version, request |-> Empty, auction |-> Empty,
   buyer |-> "", seat |-> "",
   sig |-> IF cl.secret = Empty THEN Unsigned ELSE LocallySigned(cl.secret, time, e.content)]

CallOf(cl, e, time) ==
  CASE cl.kind = "certify" -> CertifyCall(cl, e, time)
    [] cl.kind = "harness" -> HarnessCall(cl, e, time)
    [] cl.kind = "local" -> LocalCall(cl, e, time)

-----------------------------------------------------------------------------
(* Server.authorize, at the time the request arrived. *)
BearerOK(cfg, call) ==
  cfg.requireAuth => cfg.token # Empty /\ Trim(call.auth) = Prefixed(cfg.token)

(* Mutant: signatures of the future are fresh. *)
FreshUnlessOld(cfg, sig, at) == at - sig.time <= cfg.skew

Fresh(cfg, sig, at) == at - sig.time <= cfg.skew /\ sig.time - at <= cfg.skew

(* Mutant: the hash of the body is taken from the header. *)
SignatureOKUnhashed(cfg, call, e, at) ==
  /\ cfg.secret # Empty
  /\ Fresh(cfg, call.sig, at)
  /\ CASE call.sig.scheme = "buyer" ->
            /\ Empty \notin {Trim(call.auction), Trim(call.request)}
            /\ call.sig.mac =
                 <<cfg.secret, call.sig.time, Trim(call.auction), Trim(call.request), call.sig.hash>>
       [] call.sig.scheme = "local" -> call.sig.mac = <<cfg.secret, call.sig.time, e.content>>
       [] OTHER -> FALSE

(* verifyProductionBuyerSignature, verifyLocalSignature *)
SignatureOK(cfg, call, e, at) ==
  /\ cfg.secret # Empty
  /\ Fresh(cfg, call.sig, at)
  /\ CASE call.sig.scheme = "buyer" ->
            /\ Empty \notin {Trim(call.auction), Trim(call.request)}
            /\ call.sig.hash = e.content
            /\ call.sig.mac =
                 <<cfg.secret, call.sig.time, Trim(call.auction), Trim(call.request), e.content>>
       [] call.sig.scheme = "local" -> call.sig.mac = <<cfg.secret, call.sig.time, e.content>>
       [] OTHER -> FALSE

(* Mutant: without a secret there is no signature to ask for. *)
AuthorizedUnlessUnset(cfg, call, e, at) ==
  /\ BearerOK(cfg, call)
  /\ cfg.requireSignature /\ cfg.secret # Empty => SignatureOK(cfg, call, e, at)

Authorized(cfg, call, e, at) ==
  BearerOK(cfg, call) /\ (cfg.requireSignature => SignatureOK(cfg, call, e, at))

(* validateClearLedgerRequestHeaders: the ids of the decoded request are   *)
(* compared as they are, but for source.tid.                               *)
HeadersMatch(cfg, call, e) ==
  /\ Trim(call.request) \in {Empty, e.id}
  /\ Trim(call.auction) \in {Empty, AuctionId(e)}
  /\ call.buyer \in {"", cfg.buyer}
  /\ call.seat \in {"", cfg.seat}

(* Server.openrtb up to the engine: the counted reason, or "admitted". *)
Outcome(cfg, call, e, at) ==
  IF ~Authorized(cfg, call, e, at) THEN "unauthorized"
  ELSE IF ~(VersionAccepted(cfg.accepted, call.version, e.hints) /\ e.sound) THEN "malformed"
  ELSE IF ~HeadersMatch(cfg, call, e) THEN "clearledger_header_mismatch"
  ELSE "admitted"
=============================================================================
