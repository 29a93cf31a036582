---------------------------- MODULE MCAdmission ----------------------------
(***************************************************************************)
(* Situations for Admission: credentials that are plain, padded, blank,    *)
(* written with their Bearer or missing, and families in which versions,   *)
(* endpoints, ids or clocks differ from the base.                          *)
(***************************************************************************)
EXTENDS Admission, TLC

ArrivalSymmetry == Permutations(Arrivals)

Padded(t) == [t EXCEPT !.pad = TRUE]
URL(path) == [set |-> TRUE, kind |-> "http", host |-> "bidder", path |-> path]

Display ==
  [id |-> "cr", media |-> "banner", approved |-> TRUE, adomain |-> <<"adv">>, asset |-> "png",
   landing |-> "http", markup |-> NoMarkup, duration |-> 0, w |-> 0, h |-> 0]

Raw(enabled) ==
  [id |-> "c1", enabled |-> enabled, seat |-> "", price |-> 100, budget |-> 0, tolerance |-> 0,
   qps |-> 0, pacing |-> "", media |-> <<"banner">>, apps |-> <<>>, bundles |-> <<>>,
   domains |-> <<>>, placements |-> <<>>, deals |-> <<>>, countries |-> <<>>,
   creatives |-> <<Display>>]

Base ==
  [env |-> [token |-> Word("tok"), secret |-> Word("key"), requireAuth |-> "",
            requireSignature |-> "", skew |-> <<1>>, accepted |-> <<>>, outbound |-> "",
            openrtb |-> NoURL, public |-> URL(<<>>), buyer |-> "", seat |-> ""],
   file |-> [accepted |-> <<>>, outbound |-> "", openrtb |-> NoURL, public |-> NoURL,
             buyer |-> "buyer1", seat |-> "", campaigns |-> <<Raw(TRUE)>>]]

Tokens == {Empty, Word("tok"), Padded(Word("tok")), Padded(Empty),
           [words |-> <<"Bearer", "tok">>, pad |-> FALSE],
           [words |-> <<"bearer", "tok">>, pad |-> FALSE], Padded(Word("Bearer"))}
Secrets == {Empty, Word("key"), Padded(Word("key")), Padded(Empty)}

Switched ==
  {[Base EXCEPT !.env.token = t, !.env.secret = k, !.env.requireAuth = a,
                !.env.requireSignature = g] :
     t \in {Empty, Word("tok")}, k \in {Empty, Word("key")}, a \in {"true", "0"}, g \in {"1", "no"}}

Versioned ==
  {[Base EXCEPT !.env.accepted = v, !.file.accepted = f, !.env.outbound = o] :
     v \in {<<>>, <<"">>, <<"2.4", "2.3">>, <<"1.0">>}, f \in {<<>>, <<"2.5">>},
     o \in {"", "2.4", "3.0"}}

Placed ==
  {[Base EXCEPT !.env.openrtb = u, !.env.public = p, !.file.public = f] :
     u \in {NoURL, URL(<<"openrtb", "">>), URL(<<"buyers", "b", "openrtb", "">>)},
     p \in {NoURL, URL(<<>>), URL(<<"openrtb">>), URL(<<"buyers", "b", "">>),
            [URL(<<"">>) EXCEPT !.host = "openrtb"], [URL(<<"buyers", "b">>) EXCEPT !.host = "openrtb"]},
     f \in {NoURL, URL(<<"rtb">>)}}

Skewed == {[Base EXCEPT !.env.skew = k] : k \in {<<>>, <<0>>, <<2>>}}

Others == {[Base EXCEPT !.file.campaigns = <<Raw(FALSE)>>], [Base EXCEPT !.env.buyer = "buyer2"]}

-----------------------------------------------------------------------------
Kinds == {"certify", "harness"}

Own(kind) == [kind |-> kind, token |-> Word("tok"), secret |-> Word("key"), version |-> "",
              buyer |-> "", seat |-> ""]

Envelope(id, tid) ==
  [id |-> id, tid |-> tid, content |-> "bytes", sound |-> TRUE,
   hints |-> [rootHints |-> <<>>, extHints |-> <<>>]]

Post == Envelope(Word("r"), Word("r"))

Envelopes ==
  {Envelope(Word("r"), t) : t \in {Empty, Padded(Word("t"))}}
  \cup {Envelope(Padded(Word("r")), t) : t \in {Empty, Padded(Word("r"))}}
  \cup {[Post EXCEPT !.hints.extHints = <<"2.6">>], [Envelope(Empty, Empty) EXCEPT !.sound = FALSE]}

Situation(s, cl, e, drift) == [setting |-> s, client |-> cl, envelope |-> e, drift |-> drift]

(* The client holds what the bidder was given, what it should have been,   *)
(* or a mixture.                                                           *)
Credentials ==
  UNION {{Situation([Base EXCEPT !.env.token = t, !.env.secret = k],
                    [Own(kind) EXCEPT !.token = ct, !.secret = ck], Post, 0) :
            ct \in {t, Word("tok")}, ck \in {k, Word("key"), Word("old")}, kind \in Kinds} :
           t \in Tokens, k \in Secrets}
  \cup {Situation(s, [Own(kind) EXCEPT !.secret = k], Post, 0) :
          s \in Switched, kind \in Kinds \cup {"local"}, k \in {Empty, Word("key")}}

Posts ==
  {Situation(s, [Own(kind) EXCEPT !.version = v], e, 0) :
     s \in Versioned, kind \in Kinds, v \in {"", "2.4", "2.2", "2.7", "1.0"},
     e \in {Post, [Post EXCEPT !.hints.extHints = <<"2.5">>]}}
  \cup {Situation(s, [Own(kind) EXCEPT !.buyer = b, !.secret = k], e, 0) :
          s \in Others, kind \in Kinds, b \in {"", "buyer1"}, k \in {Empty, Word("key")},
          e \in Envelopes}

Clocks ==
  {Situation(s, Own(kind), Post, drift) :
     s \in Skewed \cup {Base}, kind \in Kinds \cup {"local"}, drift \in {-2, 1, 3}}

MCSituations ==
  Credentials \cup Posts \cup Clocks
  \cup {Situation(s, Own("harness"), Post, 0) : s \in Placed}
=============================================================================
