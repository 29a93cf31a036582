---------------------------- MODULE FanoutProofs -----------------------------
(***************************************************************************)
(* The winner of a fanout is the best candidate, and a report that is OK   *)
(* tells of a complete auction, whatever the manifest, the sample and the  *)
(* answers of the buyers are.                                              *)
(*                                                                         *)
(* The loop keeps the books of what it heard in two places, results and    *)
(* candidates; the invariant ties them to the history.                     *)
(***************************************************************************)
EXTENDS Fanout, SequenceTheorems, WellFoundedInduction, TLAPS

Fine(i) == heard[i] = None \/ heard[i].kind = "no_content" \/ Valid(i)

CandidateOf(i) == [buyer |-> buyers[i], bid |-> FirstBid(heard[i].resp)]

(* Nothing has been heard before the fanout. *)
BeforeFanout ==
  pc \in {"lookup", "prepare"} => heard = <<>> /\ results = <<>> /\ candidates = {}

(* There is a lane once it was looked up, and the fanout only starts on an *)
(* active one.                                                             *)
OnActiveLane ==
  /\ options.manifest \in Manifests
  /\ pc \in {"prepare", "fanout"} => lane # None
  /\ pc = "fanout" => lane.active

NoWinnerYet == pc # "done" => winner = None

(* Every buyer heard has a result, and the candidates are those who offered. *)
Books ==
  /\ heard \in Seq(Answers \cup {None})
  /\ results \in Seq(ToSet(results))
  /\ Len(heard) = Len(results)
  /\ candidates = {CandidateOf(i) : i \in Offered}

(* A report that is still OK has only fine answers behind it. *)
OKSoFar == ok => \A i \in DOMAIN heard : Fine(i)

AtEnd ==
  pc = "done" =>
    /\ ok => winner \in candidates /\ lane # None /\ lane.active /\ Len(heard) = Len(buyers)
    /\ candidates # {} =>
         /\ winner \in candidates
         /\ \A d \in candidates : SortsBefore(winner, d)

FanoutInv ==
  /\ BeforeFanout
  /\ OnActiveLane
  /\ NoWinnerYet
  /\ Books
  /\ OKSoFar
  /\ AtEnd

(* A sequence of its own elements stays one when it grows. *)
LEMMA AppendGrows ==
  ASSUME NEW s, s \in Seq(ToSet(s)), NEW e
  PROVE  /\ Append(s, e) \in Seq(ToSet(Append(s, e)))
         /\ Len(Append(s, e)) = Len(s) + 1
<1> DEFINE S == ToSet(s) \cup {e}
<1>1. s \in Seq(S)
  BY DEF ToSet
<1>2. /\ Append(s, e) \in Seq(S)
      /\ Len(Append(s, e)) = Len(s) + 1
      /\ DOMAIN Append(s, e) = 1 .. Len(Append(s, e))
  BY <1>1
<1>3. \A i \in 1 .. Len(Append(s, e)) : Append(s, e)[i] \in ToSet(Append(s, e))
  BY <1>2 DEF ToSet
<1> QED BY <1>2, <1>3

-----------------------------------------------------------------------------
(***************************************************************************)
(* The buyers selected.  A loop that carries a value of S from one         *)
(* position to the next computes something; what it has kept after i       *)
(* positions are the selected among the first i buyers.                    *)
(***************************************************************************)
LEMMA LeastPosition ==
  ASSUME NEW T \in SUBSET Nat, T # {}
  PROVE  \E m \in T : \A k \in T : m <= k
<1>1. PICK m \in T : \A k \in T : <<k, m>> \notin OpToRel(<, Nat)
  BY NatLessThanWellFounded, WFMin
<1>2. \A k \in T : ~(k < m)
  BY <1>1, Zenon DEF OpToRel
<1> QED
  BY <1>2

(* f carries base through the first m positions, step by step.             *)
Carries(f, m, base, step) == f[0] = base /\ \A i \in 1 .. m : f[i] = step[i][f[i - 1]]

LEMMA LoopComputes ==
  ASSUME NEW n \in Nat, NEW S, NEW base \in S, NEW step \in [1 .. n -> [S -> S]]
  PROVE  \E f \in [0 .. n -> S] : Carries(f, n, base, step)
<1> DEFINE Runs(m) == \E f \in [0 .. m -> S] : Carries(f, m, base, step)
           Stuck == {m \in 0 .. n : ~Runs(m)}
<1>1. Runs(0)
  <2> DEFINE g == [i \in 0 .. 0 |-> base]
  <2>1. g \in [0 .. 0 -> S] /\ g[0] = base /\ 1 .. 0 = {}
    OBVIOUS
  <2>2. Carries(g, 0, base, step)
    BY <2>1 DEF Carries
  <2> QED
    BY <2>1, <2>2
<1>2. ASSUME NEW m \in 1 .. n, Runs(m - 1)
      PROVE  Runs(m)
  <2>1. PICK f \in [0 .. (m - 1) -> S] : Carries(f, m - 1, base, step)
    BY <1>2
  <2> DEFINE g == [i \in 0 .. m |-> IF i = m THEN step[m][f[m - 1]] ELSE f[i]]
  <2>2. step[m] \in [S -> S] /\ f[m - 1] \in S
    BY <2>1
  <2>3. step[m][f[m - 1]] \in S
    BY <2>2
  <2>4. g \in [0 .. m -> S]
    BY <2>1, <2>3
  <2>5. /\ g[m] = step[m][f[m - 1]]
        /\ \A i \in 0 .. (m - 1) : g[i] = f[i]
    OBVIOUS
  <2> HIDE DEF g
  <2>6. ASSUME NEW i \in 1 .. m
        PROVE  g[i] = step[i][g[i - 1]]
    <3>1. i - 1 \in 0 .. (m - 1) /\ g[i - 1] = f[i - 1]
      BY <2>5
    <3>2. CASE i = m
      BY <2>5, <3>1, <3>2
    <3>3. CASE i # m
      <4>1. i \in 1 .. (m - 1) /\ g[i] = f[i]
        BY <2>5, <3>3
      <4> QED
        BY <2>1, <3>1, <4>1 DEF Carries
    <3> QED
      BY <3>2, <3>3
  <2>7. g[0] = base
    BY <2>1, <2>5 DEF Carries
  <2>8. Carries(g, m, base, step)
    BY <2>6, <2>7 DEF Carries
  <2> QED
    BY <2>4, <2>8
<1> HIDE DEF Runs
<1>3. Stuck = {}
  <2> SUFFICES ASSUME Stuck # {} PROVE FALSE
    OBVIOUS
  <2>0. Stuck \in SUBSET Nat
    OBVIOUS
  <2>1. PICK m \in Stuck : \A k \in Stuck : m <= k
    <3> HIDE DEF Stuck
    <3> QED
      BY <2>0, LeastPosition
  <2>2. m \in 0 .. n /\ ~Runs(m)
    BY <2>1
  <2>3. m \in 1 .. n
    BY <1>1, <2>2
  <2>4. Runs(m - 1)
    <3>1. m - 1 \in 0 .. n /\ m - 1 \notin Stuck
      BY <2>1, <2>3
    <3> QED
      BY <3>1
  <2> QED
    BY <1>2, <2>2, <2>3, <2>4
<1>4. Runs(n)
  BY <1>3
<1> QED
  BY <1>4 DEF Runs
(* What Append adds to the elements of a sequence. *)
LEMMA AppendRange ==
  ASSUME NEW T, NEW s \in Seq(T), NEW e \in T
  PROVE  ToSet(Append(s, e)) = ToSet(s) \cup {e}
<1>1. /\ Len(s) \in Nat /\ DOMAIN s = 1 .. Len(s)
      /\ DOMAIN Append(s, e) = 1 .. (Len(s) + 1)
      /\ Append(s, e)[Len(s) + 1] = e
      /\ \A i \in 1 .. Len(s) : Append(s, e)[i] = s[i]
  OBVIOUS
<1> QED
  BY <1>1 DEF ToSet

(* The loop of selectedBuyers as a recursive function, and as a step.      *)
KeepStep(s) ==
  [i \in 1 .. Len(s) |-> [q \in Seq(ToSet(s)) |->
     IF Selected(s[i]) THEN Append(q, s[i]) ELSE q]]

KeepRule(s, f) ==
  [i \in 0 .. Len(s) |->
     IF i = 0 THEN <<>>
     ELSE IF Selected(s[i]) THEN Append(f[i - 1], s[i])
     ELSE f[i - 1]]

LEMMA SameFunction ==
  \A D, T : \A f, g \in [D -> T] : (\A i \in D : g[i] = f[i]) => f = g
<1> SUFFICES ASSUME NEW D, NEW T, NEW f \in [D -> T], NEW g \in [D -> T],
                    \A i \in D : g[i] = f[i]
             PROVE  f = g
  BY Zenon
<1> QED
  OBVIOUS

LEMMA KeepExists ==
  ASSUME NEW s, s \in Seq(ToSet(s))
  PROVE  \E f \in [0 .. Len(s) -> Seq(ToSet(s))] : f = KeepRule(s, f)
<1> DEFINE n == Len(s)
           S == Seq(ToSet(s))
<1>1. /\ n \in Nat /\ <<>> \in S
      /\ \A i \in 1 .. n : s[i] \in ToSet(s)
  BY DEF ToSet
<1>2. \A i \in 1 .. n, q \in S : (IF Selected(s[i]) THEN Append(q, s[i]) ELSE q) \in S
  BY <1>1
<1>3. KeepStep(s) \in [1 .. n -> [S -> S]]
  BY <1>2 DEF KeepStep
<1>4. PICK f \in [0 .. n -> S] : Carries(f, n, <<>>, KeepStep(s))
  <2> HIDE DEF n, S
  <2> QED
    BY <1>1, <1>3, LoopComputes
<1>5. /\ f[0] = <<>>
      /\ \A i \in 1 .. n : f[i] = KeepStep(s)[i][f[i - 1]]
  BY <1>4 DEF Carries
<1>6. ASSUME NEW i \in 1 .. n
      PROVE  f[i] = IF Selected(s[i]) THEN Append(f[i - 1], s[i]) ELSE f[i - 1]
  <2>1. f[i - 1] \in S
    BY <1>4
  <2>2. KeepStep(s)[i][f[i - 1]] = IF Selected(s[i]) THEN Append(f[i - 1], s[i]) ELSE f[i - 1]
    BY <2>1 DEF KeepStep
  <2> QED
    BY <1>5, <2>2
<1>7. ASSUME NEW i \in 0 .. n
      PROVE  KeepRule(s, f)[i] = f[i]
  <2>1. KeepRule(s, f)[i] = IF i = 0 THEN <<>>
                            ELSE IF Selected(s[i]) THEN Append(f[i - 1], s[i])
                            ELSE f[i - 1]
    BY Zenon DEF KeepRule
  <2>2. i = 0 \/ i \in 1 .. n
    BY <1>1
  <2> HIDE DEF n
  <2> QED
    BY <1>5, <1>6, <2>1, <2>2, Zenon
<1>8. KeepRule(s, f) \in [0 .. n -> S]
  <2>1. KeepRule(s, f) = [i \in 0 .. n |-> KeepRule(s, f)[i]]
    BY Zenon DEF KeepRule
  <2>2. \A i \in 0 .. n : KeepRule(s, f)[i] \in S
    BY <1>4, <1>7
  <2> HIDE DEF n, S
  <2> QED
    BY <2>1, <2>2, Zenon
<1>9. PICK g : g = KeepRule(s, f)
  OBVIOUS
<1>10. f = g
  <2> DEFINE D == 0 .. n
  <2>1. f \in [D -> S] /\ g \in [D -> S] /\ \A i \in D : g[i] = f[i]
    BY <1>4, <1>7, <1>8, <1>9
  <2>2. \A u, v \in [D -> S] : (\A i \in D : v[i] = u[i]) => u = v
    BY SameFunction, Zenon
  <2>3. f = g
    BY <2>1, <2>2, Zenon
  <2> QED
    BY <2>3
<1> QED
  BY <1>4, <1>9, <1>10

LEMMA SelectionIs ==
  ASSUME NEW l, l.buyers \in Seq(ToSet(l.buyers))
  PROVE  \E f : /\ SelectedBuyers(l) = f[Len(l.buyers)]
                /\ f[0] = <<>>
                /\ \A i \in 1 .. Len(l.buyers) :
                     f[i] = IF Selected(l.buyers[i]) THEN Append(f[i - 1], l.buyers[i])
                            ELSE f[i - 1]
<1> DEFINE s == l.buyers
           kept == CHOOSE f : f = KeepRule(s, f)
<1>1. SelectedBuyers(l) = kept[Len(s)]
  BY DEF SelectedBuyers, KeepRule
<1>2. \E f : f = KeepRule(s, f)
  BY KeepExists
<1>3. kept = KeepRule(s, kept)
  BY <1>2, Zenon
<1> HIDE DEF kept
<1>4. Len(s) \in Nat
  OBVIOUS
<1>5. ASSUME NEW i \in 0 .. Len(s)
      PROVE  kept[i] = IF i = 0 THEN <<>>
                       ELSE IF Selected(s[i]) THEN Append(kept[i - 1], s[i])
                       ELSE kept[i - 1]
  BY <1>3, Zenon DEF KeepRule
<1>6. kept[0] = <<>>
  BY <1>4, <1>5
<1>7. \A i \in 1 .. Len(s) :
        kept[i] = IF Selected(s[i]) THEN Append(kept[i - 1], s[i]) ELSE kept[i - 1]
  BY <1>4, <1>5
<1> QED
  BY <1>1, <1>6, <1>7

LEMMA SelectionKeeps ==
  ASSUME NEW l, l.buyers \in Seq(ToSet(l.buyers))
  PROVE  /\ SelectedBuyers(l) \in Seq(ToSet(l.buyers))
         /\ ToSet(SelectedBuyers(l)) = {b \in ToSet(l.buyers) : Selected(b)}
<1> DEFINE s == l.buyers
           n == Len(s)
           S == Seq(ToSet(s))
           Among(m) == {b \in {s[i] : i \in 1 .. m} : Selected(b)}
<1>1. n \in Nat /\ DOMAIN s = 1 .. n /\ \A i \in 1 .. n : s[i] \in ToSet(s)
  BY DEF ToSet
<1>2. PICK f : /\ SelectedBuyers(l) = f[n]
               /\ f[0] = <<>>
               /\ \A i \in 1 .. n :
                    f[i] = IF Selected(s[i]) THEN Append(f[i - 1], s[i]) ELSE f[i - 1]
  BY SelectionIs
<1> DEFINE Kept(m) == f[m] \in S /\ ToSet(f[m]) = Among(m)
           Wrong == {m \in 0 .. n : ~Kept(m)}
<1>3. Kept(0)
  <2>1. f[0] \in S /\ ToSet(f[0]) = {}
    BY <1>2 DEF ToSet
  <2>2. Among(0) = {}
    OBVIOUS
  <2> QED
    BY <2>1, <2>2
<1>4. ASSUME NEW m \in 1 .. n, Kept(m - 1)
      PROVE  Kept(m)
  <2>1. Among(m) = IF Selected(s[m]) THEN Among(m - 1) \cup {s[m]} ELSE Among(m - 1)
    <3>1. 1 .. m = (1 .. (m - 1)) \cup {m}
      OBVIOUS
    <3> QED
      BY <3>1
  <2>2. CASE Selected(s[m])
    <3>1. f[m] = Append(f[m - 1], s[m]) /\ s[m] \in ToSet(s) /\ f[m - 1] \in S
      BY <1>1, <1>2, <1>4, <2>2
    <3>2. ToSet(f[m]) = ToSet(f[m - 1]) \cup {s[m]}
      BY <3>1, AppendRange
    <3> QED
      BY <1>4, <2>1, <2>2, <3>1, <3>2
  <2>3. CASE ~Selected(s[m])
    BY <1>2, <1>4, <2>1, <2>3
  <2> QED
    BY <2>2, <2>3
<1> HIDE DEF Kept
<1>5. Wrong = {}
  <2> SUFFICES ASSUME Wrong # {} PROVE FALSE
    OBVIOUS
  <2>0. Wrong \in SUBSET Nat
    OBVIOUS
  <2>1. PICK m \in Wrong : \A k \in Wrong : m <= k
    <3> HIDE DEF Wrong
    <3> QED
      BY <2>0, LeastPosition
  <2>2. m \in 0 .. n /\ ~Kept(m)
    BY <2>1
  <2>3. m \in 1 .. n
    BY <1>3, <2>2
  <2>4. Kept(m - 1)
    <3>1. m - 1 \in 0 .. n /\ m - 1 \notin Wrong
      BY <1>1, <2>1, <2>3
    <3> QED
      BY <3>1
  <2> QED
    BY <1>4, <2>2, <2>3, <2>4
<1>6. Kept(n)
  <2>1. n \in 0 .. n /\ n \notin Wrong
    BY <1>1, <1>5
  <2> QED
    BY <2>1
<1>7. Among(n) = {b \in ToSet(s) : Selected(b)}
  BY <1>1 DEF ToSet
<1> QED
  BY <1>2, <1>6, <1>7 DEF Kept

-----------------------------------------------------------------------------
(* The books, and what they say of a report that is still OK. *)
HeardInv == Books /\ OKSoFar

LEMMA InitEstablishes == FanoutInit => FanoutInv
<1> SUFFICES ASSUME FanoutInit PROVE FanoutInv
  OBVIOUS
<1>0. options.manifest \in Manifests
  BY DEF FanoutInit
<1>1. pc = "lookup" /\ heard = <<>> /\ results = <<>> /\ candidates = {} /\ winner = None
  BY DEF FanoutInit
<1>2. DOMAIN heard = {} /\ Offered = {}
  BY <1>1 DEF Offered
<1>3. Books
  BY <1>1, <1>2 DEF Books, ToSet
<1>4. OKSoFar
  BY <1>2 DEF OKSoFar
<1> QED BY <1>0, <1>1, <1>3, <1>4 DEF FanoutInv, BeforeFanout, OnActiveLane, NoWinnerYet, AtEnd

(***************************************************************************)
(* What one more answer a does to the history: the earlier positions keep  *)
(* their standing, and the new one has that of a.                          *)
(***************************************************************************)
LEMMA HeardGrows ==
  ASSUME Books, NEW a \in Answers \cup {None}, heard' = Append(heard, a),
         UNCHANGED <<lane, req, buyers>>
  PROVE  /\ heard' \in Seq(Answers \cup {None})
         /\ Len(heard') = Len(heard) + 1
         /\ DOMAIN heard' = DOMAIN heard \cup {Len(heard) + 1}
         /\ Len(heard) + 1 \notin DOMAIN heard
         /\ heard'[Len(heard) + 1] = a
         /\ \A i \in DOMAIN heard :
              /\ heard'[i] = heard[i]
              /\ Valid(i)' = Valid(i)
              /\ Fine(i)' = Fine(i)
              /\ CandidateOf(i)' = CandidateOf(i)
<1>1. heard \in Seq(Answers \cup {None})
  BY DEF Books
<1>2. /\ heard' \in Seq(Answers \cup {None})
      /\ Len(heard') = Len(heard) + 1
      /\ Len(heard) \in Nat
      /\ DOMAIN heard = 1 .. Len(heard)
      /\ DOMAIN heard' = 1 .. Len(heard) + 1
      /\ heard'[Len(heard) + 1] = a
      /\ \A i \in DOMAIN heard : heard'[i] = heard[i]
  BY <1>1
<1>3. ASSUME NEW i \in DOMAIN heard
      PROVE  /\ Valid(i)' = Valid(i)
             /\ Fine(i)' = Fine(i)
             /\ CandidateOf(i)' = CandidateOf(i)
  <2>1. heard'[i] = heard[i] /\ buyers'[i] = buyers[i]
    BY <1>2
  <2>2. Valid(i)' = Valid(i)
    BY <2>1 DEF Valid, ValidCandidate
  <2> QED BY <2>1, <2>2 DEF Fine, CandidateOf
<1> QED BY <1>2, <1>3

LEMMA SkipStep ==
  ASSUME HeardInv, Skip
  PROVE  HeardInv'
<1>n. PICK n : n = Len(heard) + 1
  OBVIOUS
<1>0. Books /\ OKSoFar
  BY DEF HeardInv
<1>1. /\ heard' = Append(heard, None)
      /\ UNCHANGED <<lane, req, buyers, candidates, ok>>
  BY DEF Skip
<1>2. /\ heard' \in Seq(Answers \cup {None})
      /\ Len(heard') = n
      /\ DOMAIN heard' = DOMAIN heard \cup {n}
      /\ heard'[n] = None
      /\ \A i \in DOMAIN heard :
           Valid(i)' = Valid(i) /\ Fine(i)' = Fine(i) /\ CandidateOf(i)' = CandidateOf(i)
  BY <1>n, <1>0, <1>1, HeardGrows
<1>3. results' \in Seq(ToSet(results')) /\ Len(results') = n
  BY <1>n, <1>0, AppendGrows DEF Skip, Books
<1>4. ~Valid(n)' /\ Fine(n)'
  BY <1>2 DEF Valid, Fine
<1>5. Offered' = Offered
  BY <1>2, <1>4 DEF Offered
<1>6. {CandidateOf(i) : i \in Offered}' = {CandidateOf(i) : i \in Offered}
  BY <1>2, <1>5 DEF Offered
<1>7. Books'
  BY <1>0, <1>1, <1>2, <1>3, <1>6 DEF Books
<1>8. OKSoFar'
  BY <1>0, <1>1, <1>2, <1>4 DEF OKSoFar
<1> QED BY <1>7, <1>8 DEF HeardInv

(* An answer counts as a bid exactly when it is a valid response. *)
LEMMA OutcomeIsBid ==
  ASSUME NEW b, NEW a \in Answers
  PROVE  /\ Outcome(b, a) = "bid" <=> a.kind = "response" /\ ValidCandidate(lane, b, req, a.resp)
         /\ Outcome(b, a) = "no_bid" => a.kind = "no_content"
<1>1. a.kind \in Kinds
  BY FanoutAssumption
<1> QED BY <1>1 DEF Outcome, Kinds, CallErrors

LEMMA CallStep ==
  ASSUME HeardInv, NEW a \in Answers, Call(a)
  PROVE  HeardInv'
<1> DEFINE bid == Outcome(Buyer, a) = "bid"
<1>n. PICK n : n = Len(heard) + 1
  OBVIOUS
<1>0. Books /\ OKSoFar
  BY DEF HeardInv
<1>1. /\ heard' = Append(heard, a)
      /\ UNCHANGED <<lane, req, buyers>>
      /\ results' = Append(results, [buyer |-> Buyer.id, outcome |-> Outcome(Buyer, a)])
      /\ candidates' = IF bid THEN candidates \cup {[buyer |-> Buyer, bid |-> FirstBid(a.resp)]}
                       ELSE candidates
      /\ ok' => ok /\ Outcome(Buyer, a) \in {"bid", "no_bid"}
  BY DEF Call
<1>2. /\ heard' \in Seq(Answers \cup {None})
      /\ Len(heard') = n
      /\ DOMAIN heard' = DOMAIN heard \cup {n}
      /\ n \notin DOMAIN heard
      /\ heard'[n] = a
      /\ \A i \in DOMAIN heard :
           Valid(i)' = Valid(i) /\ Fine(i)' = Fine(i) /\ CandidateOf(i)' = CandidateOf(i)
  BY <1>n, <1>0, <1>1, HeardGrows
<1>3. results' \in Seq(ToSet(results')) /\ Len(results') = n
  BY <1>n, <1>0, <1>1, AppendGrows DEF Books
<1>4. Buyer = buyers[n]
  BY <1>n, <1>0 DEF Books, Buyer
<1>5. Valid(n)' <=> bid
  <2>1. a # None
    BY FanoutAssumption
  <2>2. ValidCandidate(lane, buyers[n], req, a.resp)' <=> ValidCandidate(lane, buyers[n], req, a.resp)
    BY <1>1 DEF ValidCandidate
  <2>3. Valid(n)' <=> a.kind = "response" /\ ValidCandidate(lane, buyers[n], req, a.resp)
    BY <1>1, <1>2, <2>1, <2>2 DEF Valid
  <2> QED BY <1>4, <2>3, OutcomeIsBid
<1>6. CandidateOf(n)' = [buyer |-> Buyer, bid |-> FirstBid(a.resp)]
  BY <1>1, <1>2, <1>4 DEF CandidateOf, FirstBid
<1>7. Outcome(Buyer, a) \in {"bid", "no_bid"} => Fine(n)'
  BY <1>2, <1>5, OutcomeIsBid DEF Fine
<1> HIDE DEF bid
<1>8. Offered' = IF bid THEN Offered \cup {n} ELSE Offered
  BY <1>2, <1>5 DEF Offered
<1>9. candidates' = {CandidateOf(i) : i \in Offered}'
  <2>1. candidates = {CandidateOf(i) : i \in Offered}
    BY <1>0 DEF Books
  <2>2. \A i \in Offered : CandidateOf(i)' = CandidateOf(i)
    BY <1>2 DEF Offered
  <2>3. CASE bid
    BY <1>1, <1>6, <1>8, <2>1, <2>2, <2>3
  <2>4. CASE ~bid
    BY <1>1, <1>8, <2>1, <2>2, <2>4
  <2> QED BY <2>3, <2>4
<1>10. Books'
  BY <1>2, <1>3, <1>9 DEF Books
<1>11. OKSoFar'
  BY <1>0, <1>1, <1>2, <1>7 DEF OKSoFar
<1> QED BY <1>10, <1>11 DEF HeardInv

(***************************************************************************)
(* The other actions leave the history alone; the ends of the run are      *)
(* where the history and the report meet.                                  *)
(***************************************************************************)
LEMMA HeardKept ==
  ASSUME HeardInv, UNCHANGED <<heard, results, candidates>>, ok' => ok,
         heard = <<>> \/ UNCHANGED <<lane, req, buyers>>
  PROVE  HeardInv'
<1>0. Books /\ OKSoFar
  BY DEF HeardInv
<1>1. \A i \in DOMAIN heard :
        Valid(i)' = Valid(i) /\ Fine(i)' = Fine(i) /\ CandidateOf(i)' = CandidateOf(i)
  <2>1. CASE heard = <<>>
    BY <2>1
  <2>2. CASE UNCHANGED <<lane, req, buyers>>
    <3>1. ASSUME NEW i \in DOMAIN heard
          PROVE  Valid(i)' = Valid(i)
      BY <2>2 DEF Valid, ValidCandidate
    <3>2. ASSUME NEW i \in DOMAIN heard
          PROVE  Fine(i)' = Fine(i) /\ CandidateOf(i)' = CandidateOf(i)
      BY <2>2, <3>1 DEF Fine, CandidateOf
    <3> QED BY <3>1, <3>2
  <2> QED BY <2>1, <2>2
<1>2. Offered' = Offered
  BY <1>1 DEF Offered
<1>3. {CandidateOf(i) : i \in Offered}' = {CandidateOf(i) : i \in Offered}
  BY <1>1, <1>2 DEF Offered
<1>4. Books'
  BY <1>0, <1>3 DEF Books
<1>5. OKSoFar'
  BY <1>0, <1>1 DEF OKSoFar
<1> QED BY <1>4, <1>5 DEF HeardInv

LEMMA NextKeeps ==
  ASSUME FanoutInv, [FanoutNext]_fanoutVars
  PROVE  FanoutInv'
<1> DEFINE Flow == BeforeFanout /\ OnActiveLane /\ NoWinnerYet /\ AtEnd
<1>0. HeardInv /\ Flow
  BY DEF FanoutInv, HeardInv
<1> SUFFICES HeardInv' /\ Flow'
  BY DEF FanoutInv, HeardInv
<1> USE DEF BeforeFanout, OnActiveLane, NoWinnerYet, AtEnd
<1>1. CASE NoLane
  BY <1>0, <1>1, HeardKept DEF NoLane, Stop
<1>2. CASE FindLane
  <2>1. HeardInv'
    BY <1>0, <1>2, HeardKept DEF FindLane
  <2>2. lane' # None
    BY <1>0, <1>2, FanoutAssumption DEF FindLane, OfMarket, ToSet
  <2> QED BY <1>0, <1>2, <2>1, <2>2 DEF FindLane
<1>3. CASE Prepare
  <2>1. HeardInv'
    BY <1>0, <1>3, HeardKept DEF Prepare, Stop
  <2> QED BY <1>0, <1>3, <2>1 DEF Prepare, Stop, LaneAllows
<1>4. CASE Skip
  <2>1. HeardInv'
    BY <1>0, <1>4, SkipStep
  <2> QED BY <1>0, <1>4, <2>1 DEF Skip
<1>5. ASSUME NEW a \in Answers, Call(a)
      PROVE  HeardInv' /\ Flow'
  <2>1. HeardInv'
    BY <1>0, <1>5, CallStep
  <2> QED BY <1>0, <1>5, <2>1 DEF Call
<1>6. CASE NoWinner
  BY <1>0, <1>6, HeardKept DEF NoWinner, Stop
<1>7. CASE SelectWinner
  <2>1. HeardInv'
    BY <1>0, <1>7, HeardKept DEF SelectWinner
  <2>2. winner' \in candidates' /\ \A d \in candidates' : SortsBefore(winner, d)'
    BY <1>7 DEF SelectWinner, SortsBefore
  <2>3. Len(heard') = Len(buyers')
    BY <1>0, <1>7 DEF SelectWinner, HeardInv, Books
  <2> QED BY <1>0, <1>7, <2>1, <2>2, <2>3 DEF SelectWinner
<1>8. CASE UNCHANGED fanoutVars
  <2>1. HeardInv'
    BY <1>0, <1>8, HeardKept DEF fanoutVars
  <2> QED BY <1>0, <1>8, <2>1 DEF fanoutVars, SortsBefore
<1> QED BY <1>1, <1>2, <1>3, <1>4, <1>5, <1>6, <1>7, <1>8 DEF FanoutNext, CallBuyer

LEMMA FanoutInvariant == FanoutSpec => []FanoutInv
<1> QED BY InitEstablishes, NextKeeps, PTL DEF FanoutSpec

-----------------------------------------------------------------------------
(* The buyers are those selected on the lane, from the lookup on. *)
SelectionInv ==
  /\ options.manifest \in Manifests
  /\ lane = None => buyers = <<>>
  /\ lane # None =>
       /\ lane \in ToSet(options.manifest)
       /\ buyers \in Seq(ToSet(lane.buyers))
       /\ ToSet(buyers) = {b \in ToSet(lane.buyers) : Selected(b)}

(* Who is selected depends on the options, which never change. *)
LEMMA SameSelected ==
  ASSUME options' = options
  PROVE  \A b : Selected(b)' = Selected(b)
BY Zenon DEF Selected

LEMMA SelectionKept ==
  ASSUME SelectionInv, UNCHANGED <<options, lane, buyers>>
  PROVE  SelectionInv'
<1>1. \A b : Selected(b)' = Selected(b)
  BY SameSelected
<1> QED
  BY <1>1 DEF SelectionInv

LEMMA SelectionMade ==
  ASSUME SelectionInv, FindLane
  PROVE  SelectionInv'
<1>0. \E i \in DOMAIN options.manifest : lane' = options.manifest[i]
  BY Zenon DEF FindLane, OfMarket
<1>1. lane' \in ToSet(options.manifest) /\ options.manifest \in Manifests
  BY <1>0 DEF ToSet, SelectionInv
<1>a. lane' # None /\ lane'.buyers \in Seq(ToSet(lane'.buyers))
  BY <1>1, FanoutAssumption
<1>2. PICK l : l = lane'
  OBVIOUS
<1>3. buyers' = SelectedBuyers(l) /\ l.buyers \in Seq(ToSet(l.buyers))
  BY <1>a, <1>2 DEF FindLane
<1>4. buyers' \in Seq(ToSet(l.buyers)) /\ ToSet(buyers') = {b \in ToSet(l.buyers) : Selected(b)}
  BY <1>3, SelectionKeeps
<1>5. options' = options /\ \A b : Selected(b)' = Selected(b)
  BY SameSelected DEF FindLane
<1> QED
  BY <1>1, <1>a, <1>2, <1>4, <1>5 DEF SelectionInv

LEMMA SelectionInvariant == FanoutSpec => []SelectionInv
<1>1. FanoutInit => SelectionInv
  BY DEF FanoutInit, SelectionInv
<1>2. SelectionInv /\ [FanoutNext]_fanoutVars => SelectionInv'
  <2> SUFFICES ASSUME SelectionInv, [FanoutNext]_fanoutVars PROVE SelectionInv'
    OBVIOUS
  <2>1. CASE FindLane
    BY <2>1, SelectionMade
  <2>2. CASE ~FindLane
    <3>1. UNCHANGED <<options, lane, buyers>>
      BY <2>2 DEF FanoutNext, fanoutVars, NoLane, Prepare, Skip, CallBuyer, Call,
             NoWinner, SelectWinner
    <3> QED
      BY <3>1, SelectionKept
  <2> QED
    BY <2>1, <2>2
<1> QED BY <1>1, <1>2, PTL DEF FanoutSpec

(***************************************************************************)
(* The winner is a bid some buyer made and the validation let pass, and    *)
(* none of those bids sorts before it (RunHarness, harness.go:157-238).    *)
(***************************************************************************)
THEOREM WinnerIsBest == FanoutSpec => []WinnerIsBestCandidate
<1>1. FanoutInv => WinnerIsBestCandidate
  <2> SUFFICES ASSUME FanoutInv, pc = "done", Offered # {}
               PROVE  \E i \in Offered :
                        /\ winner = CandidateOf(i)
                        /\ \A j \in Offered :
                             LET other == FirstBid(heard[j].resp).price
                             IN  \/ winner.bid.price > other
                                 \/ /\ winner.bid.price = other
                                    /\ BuyerRank[winner.buyer.id] <= BuyerRank[buyers[j].id]
    BY DEF WinnerIsBestCandidate, CandidateOf
  <2>1. candidates = {CandidateOf(i) : i \in Offered}
    BY DEF FanoutInv, Books
  <2>2. winner \in candidates /\ \A d \in candidates : SortsBefore(winner, d)
    BY <2>1 DEF FanoutInv, AtEnd
  <2>3. PICK i \in Offered : winner = CandidateOf(i)
    BY <2>1, <2>2
  <2>4. \A j \in Offered : SortsBefore(winner, CandidateOf(j))
    BY <2>1, <2>2
  <2> QED BY <2>3, <2>4 DEF SortsBefore, CandidateOf
<1> QED BY <1>1, FanoutInvariant, PTL

(***************************************************************************)
(* A report that is OK is one of a complete auction: no buyer failed, was  *)
(* refused or answered what the validation stops, and there is a winner    *)
(* (Report.OK, harness.go:108-122).                                        *)
(***************************************************************************)
THEOREM OKIsComplete == FanoutSpec => []OKMeansCompleteAuction
<1>1. FanoutInv /\ SelectionInv => OKMeansCompleteAuction
  <2> SUFFICES ASSUME FanoutInv, SelectionInv, pc = "done", ok
               PROVE  /\ lane # None /\ lane.active
                      /\ winner \in candidates
                      /\ ToSet(buyers) = {b \in ToSet(lane.buyers) : Selected(b)}
                      /\ Len(heard) = Len(buyers)
                      /\ \A i \in DOMAIN heard : Fine(i)
    BY DEF OKMeansCompleteAuction, Fine
  <2>1. lane # None /\ lane.active /\ winner \in candidates /\ Len(heard) = Len(buyers)
    BY DEF FanoutInv, AtEnd
  <2>2. ToSet(buyers) = {b \in ToSet(lane.buyers) : Selected(b)}
    BY <2>1 DEF SelectionInv
  <2> QED BY <2>1, <2>2 DEF FanoutInv, OKSoFar
<1> QED BY <1>1, FanoutInvariant, SelectionInvariant, PTL

-----------------------------------------------------------------------------
(***************************************************************************)
(* The types.  A buyer heard is one of the buyers, so that no more is      *)
(* reported than was asked for, and who competes was selected.             *)
(***************************************************************************)
ReportInv ==
  /\ pc \in {"lookup", "prepare", "fanout", "done"}
  /\ \A i \in DOMAIN results : results[i].outcome \in Outcomes
  /\ Len(results) <= Len(buyers)
  /\ \A c \in candidates : c.buyer \in ToSet(buyers)
  /\ winner \in candidates \cup {None}
  /\ ok \in BOOLEAN

SupplyInv == supply \in {"", "vast", "openrtb"}

(* The buyer whose turn it is, and the report after one more result. *)
LEMMA OneMoreResult ==
  ASSUME SelectionInv, HeardInv, ReportInv, Len(results) < Len(buyers), NEW o \in Outcomes, NEW id,
         UNCHANGED buyers, results' = Append(results, [buyer |-> id, outcome |-> o])
  PROVE  /\ Len(results') <= Len(buyers')
         /\ \A i \in DOMAIN results' : results'[i].outcome \in Outcomes
         /\ Buyer \in ToSet(buyers)
<1>1. results \in Seq(ToSet(results)) /\ Len(results) \in Nat
  BY DEF HeardInv, Books
<1>2. buyers \in Seq(ToSet(buyers)) /\ DOMAIN buyers = 1 .. Len(buyers) /\ Len(buyers) \in Nat
  <2>1. CASE lane = None
    BY <2>1 DEF SelectionInv
  <2>2. CASE lane # None
    BY <2>2 DEF SelectionInv, ToSet
  <2> QED
    BY <2>1, <2>2
<1>3. Len(results') = Len(results) + 1
  BY <1>1
<1>4. Buyer \in ToSet(buyers)
  BY <1>1, <1>2 DEF Buyer, ToSet
<1>5. ASSUME NEW i \in DOMAIN results'
      PROVE  results'[i].outcome \in Outcomes
  BY <1>1 DEF ReportInv
<1> QED
  BY <1>1, <1>2, <1>3, <1>4, <1>5

LEMMA ReportStep ==
  ASSUME FanoutInv, SelectionInv, ReportInv, [FanoutNext]_fanoutVars
  PROVE  ReportInv'
<1>0. BeforeFanout /\ NoWinnerYet /\ HeardInv
  BY DEF FanoutInv, HeardInv
<1> USE DEF ReportInv
<1>1. CASE NoLane
  BY <1>1 DEF NoLane, Stop
<1>2. CASE FindLane
  <2>1. results' = <<>> /\ candidates' = {} /\ winner' = None /\ results = <<>>
    BY <1>0, <1>2 DEF FindLane, BeforeFanout, NoWinnerYet
  <2>2. Len(buyers') \in Nat
    <3>1. SelectionInv'
      BY <1>2, SelectionMade
    <3>2. buyers' = <<>> \/ buyers' \in Seq(ToSet(lane'.buyers))
      BY <3>1 DEF SelectionInv
    <3> QED
      BY <3>2
  <2> QED
    BY <1>2, <2>1, <2>2 DEF FindLane
<1>3. CASE Prepare
  BY <1>3 DEF Prepare, Stop
<1>4. CASE Skip
  <2>1. "skipped" \in Outcomes
    BY DEF Outcomes
  <2> QED
    BY <1>0, <1>4, <2>1, OneMoreResult DEF Skip
<1>5. ASSUME NEW a \in Answers, Call(a)
      PROVE  ReportInv'
  <2>1. PICK o : o = Outcome(Buyer, a)
    OBVIOUS
  <2>2. o \in Outcomes
    BY <2>1, Zenon DEF Outcome, Outcomes
  <2>3. /\ Len(results) < Len(buyers)
        /\ results' = Append(results, [buyer |-> Buyer.id, outcome |-> o])
        /\ candidates' \subseteq candidates \cup {[buyer |-> Buyer, bid |-> FirstBid(a.resp)]}
        /\ candidates \subseteq candidates'
        /\ ok' \in BOOLEAN
        /\ UNCHANGED <<pc, buyers, winner>>
    BY <1>5, <2>1 DEF Call
  <2>4. /\ Len(results') <= Len(buyers')
        /\ \A i \in DOMAIN results' : results'[i].outcome \in Outcomes
        /\ Buyer \in ToSet(buyers)
    BY <1>0, <2>2, <2>3, OneMoreResult
  <2> QED
    BY <2>3, <2>4
<1>6. CASE NoWinner
  BY <1>6 DEF NoWinner, Stop
<1>7. CASE SelectWinner
  BY <1>7 DEF SelectWinner
<1>8. CASE UNCHANGED fanoutVars
  BY <1>8 DEF fanoutVars
<1> QED BY <1>1, <1>2, <1>3, <1>4, <1>5, <1>6, <1>7, <1>8 DEF FanoutNext, CallBuyer

(***************************************************************************)
(* The report has its types: no buyer is reported that was not asked, a    *)
(* candidate is one of the buyers selected on the lane, the winner is a    *)
(* candidate (Report and RunHarness, harness.go:95-238).                   *)
(***************************************************************************)
THEOREM FanoutTypes == FanoutSpec => []FanoutTypeOK
<1>1. FanoutInit => ReportInv /\ SupplyInv
  <2> SUFFICES ASSUME FanoutInit PROVE ReportInv /\ SupplyInv
    OBVIOUS
  <2>1. /\ pc = "lookup" /\ results = <<>> /\ candidates = {} /\ buyers = <<>>
        /\ winner = None /\ ok = TRUE
    BY Zenon DEF FanoutInit
  <2>2. SupplyInv
    BY Zenon DEF FanoutInit, SupplyInv
  <2> QED
    BY <2>1, <2>2 DEF ReportInv
<1>s. SupplyInv /\ [FanoutNext]_fanoutVars => SupplyInv'
  <2>1. [FanoutNext]_fanoutVars => supply' \in {supply, "vast", "openrtb"}
    BY DEF FanoutNext, fanoutVars, NoLane, FindLane, Prepare, Skip, CallBuyer, Call,
           NoWinner, SelectWinner
  <2> QED
    BY <2>1, Zenon DEF SupplyInv
<1>2. FanoutSpec => [](ReportInv /\ SupplyInv)
  BY <1>1, <1>s, FanoutInvariant, SelectionInvariant, ReportStep, PTL DEF FanoutSpec
<1>3. FanoutInv /\ SelectionInv /\ ReportInv /\ SupplyInv => FanoutTypeOK
  <2> SUFFICES ASSUME FanoutInv, SelectionInv, ReportInv, SupplyInv PROVE FanoutTypeOK
    OBVIOUS
  <2>1. ToSet(buyers) \subseteq IF lane = None THEN {} ELSE ToSet(lane.buyers)
    BY DEF SelectionInv, ToSet
  <2>2. results \in Seq(ToSet(results)) /\ Len(heard) = Len(results)
    BY DEF FanoutInv, Books
  <2>3. Len(buyers) \in Nat
    <3>1. buyers = <<>> \/ buyers \in Seq(ToSet(lane.buyers))
      BY DEF SelectionInv
    <3> QED
      BY <3>1
  <2>4. \A i \in DOMAIN results : results[i].outcome \in Outcomes /\ i <= Len(buyers)
    BY <2>2, <2>3 DEF ReportInv
  <2>5. lane # None => lane \in ToSet(options.manifest)
    BY DEF SelectionInv
  <2> QED
    BY <2>1, <2>2, <2>4, <2>5, Zenon DEF ReportInv, SupplyInv, FanoutTypeOK
<1> QED BY <1>2, <1>3, FanoutInvariant, SelectionInvariant, PTL

-----------------------------------------------------------------------------
(***************************************************************************)
(* The lane's terms.  The request the answers are validated against is the *)
(* sample on the terms of the lane, and a supply type is only there with a *)
(* winner.                                                                 *)
(***************************************************************************)
OnTheLane ==
  /\ options.sample \in Samples
  /\ pc = "fanout" \/ heard # <<>> => req = ApplyLane(lane, options.sample)

WinnerStands ==
  /\ pc # "done" => supply = ""
  /\ winner # None => winner \in candidates
  /\ supply = "vast" => winner \in candidates /\ FirstAsksForVAST(req)

TermsInv == OnTheLane /\ WinnerStands

LEMMA TermsInvHolds == FanoutSpec => []TermsInv
<1> USE DEF TermsInv, OnTheLane, WinnerStands
<1>1. FanoutInit => TermsInv
  BY DEF FanoutInit
<1>2. FanoutInv /\ TermsInv /\ [FanoutNext]_fanoutVars => TermsInv'
  <2> SUFFICES ASSUME FanoutInv, TermsInv, [FanoutNext]_fanoutVars
               PROVE  TermsInv'
    OBVIOUS
  <2>0. BeforeFanout /\ NoWinnerYet
    BY DEF FanoutInv
  <2> USE DEF BeforeFanout, NoWinnerYet
  <2>1. CASE NoLane
    BY <2>0, <2>1 DEF NoLane, Stop
  <2>2. CASE FindLane
    BY <2>0, <2>2 DEF FindLane
  <2>3. CASE Prepare
    BY <2>0, <2>3 DEF Prepare, Stop
  <2>4. CASE Skip
    BY <2>0, <2>4 DEF Skip
  <2>5. ASSUME NEW a \in Answers, Call(a)
        PROVE  TermsInv'
    BY <2>0, <2>5 DEF Call
  <2>6. CASE NoWinner
    BY <2>0, <2>6 DEF NoWinner, Stop
  <2>7. CASE SelectWinner
    BY <2>0, <2>7 DEF SelectWinner, FirstAsksForVAST
  <2>8. CASE UNCHANGED fanoutVars
    BY <2>8 DEF fanoutVars
  <2> QED BY <2>1, <2>2, <2>3, <2>4, <2>5, <2>6, <2>7, <2>8 DEF FanoutNext, CallBuyer
<1> QED BY <1>1, <1>2, FanoutInvariant, PTL DEF FanoutSpec

(* A candidate is the first bid of a valid answer to the lane's request. *)
LEMMA CandidateIsValid ==
  ASSUME FanoutInv, TermsInv, NEW c \in candidates
  PROVE  /\ req = ApplyLane(lane, options.sample) /\ options.sample \in Samples
         /\ \E a \in Answers : /\ a.kind = "response"
                              /\ ValidCandidate(lane, c.buyer, req, a.resp)
                              /\ c.bid = FirstBid(a.resp)
<1>1. heard \in Seq(Answers \cup {None}) /\ candidates = {CandidateOf(i) : i \in Offered}
  BY DEF FanoutInv, Books
<1>2. PICK i \in Offered : c = CandidateOf(i)
  BY <1>1
<1>3. i \in DOMAIN heard /\ Valid(i)
  BY <1>2 DEF Offered
<1>4. heard[i] \in Answers
  BY <1>1, <1>3 DEF Valid
<1>5. heard # <<>>
  BY <1>3
<1>6. c.buyer = buyers[i] /\ c.bid = FirstBid(heard[i].resp)
  BY <1>2 DEF CandidateOf
<1> QED
  BY <1>3, <1>4, <1>5, <1>6 DEF TermsInv, OnTheLane, Valid

(* The first bid is one of those ValidateBidResponse looks at. *)
LEMMA FirstBidIsValid ==
  ASSUME NEW r, NEW resp, IsResponse(resp), ValidateBidResponse(r, resp)
  PROVE  \E imp \in ToSet(r.imps) :
           imp.id = FirstBid(resp).impid /\ ValidBid(imp, FirstBid(resp))
<1>1. /\ resp.seatbid \in Seq(ToSet(resp.seatbid))
      /\ \A s \in ToSet(resp.seatbid) : s.bids \in Seq(ToSet(s.bids))
  BY DEF IsResponse
<1>2. /\ resp.seatbid # <<>>
      /\ \A s \in DOMAIN resp.seatbid : resp.seatbid[s].bids # <<>>
      /\ \A p \in Places(resp) :
           \E imp \in ToSet(r.imps) :
             imp.id = BidAt(resp, p).impid /\ ValidBid(imp, BidAt(resp, p))
  BY Zenon DEF ValidateBidResponse
<1>3. 1 \in DOMAIN resp.seatbid
  BY <1>1, <1>2
<1>4. 1 \in DOMAIN resp.seatbid[1].bids
  <2>1. resp.seatbid[1] \in ToSet(resp.seatbid)
    BY <1>3 DEF ToSet
  <2> QED
    BY <1>1, <1>2, <1>3, <2>1
<1>5. <<1, 1>> \in Places(resp)
  BY <1>3, <1>4 DEF Places
<1>6. BidAt(resp, <<1, 1>>) = FirstBid(resp)
  BY DEF BidAt, FirstBid
<1> QED
  BY <1>2, <1>5, <1>6

(* What the first impression of a request on a lane asks for. *)
LEMMA LaneImpression ==
  ASSUME NEW l, NEW s, IsSample(s)
  PROVE  LET r == ApplyLane(l, s)
             imp == r.imps[1]
         IN  /\ imp.floor = l.floor
             /\ imp.pmp = LanePMP(l, s.imps[1].pmp)
             /\ imp.proof = LaneProof(l, LaneTag(l, s.imps[1].tag))
             /\ \A other \in ToSet(r.imps) : other.id = imp.id => other = imp
<1> DEFINE r == ApplyLane(l, s)
           first == s.imps[1]
<1>1. /\ {"cur", "imps", "supply"} \subseteq DOMAIN s
      /\ s.imps \in Seq(ToSet(s.imps))
      /\ 1 \in DOMAIN s.imps
      /\ {"id", "floor", "floorCur", "pmp", "tag", "proof"} \subseteq DOMAIN first
      /\ \A i, j \in DOMAIN s.imps : s.imps[i].id = s.imps[j].id => i = j
  BY DEF IsSample, ToSet
<1>2. /\ DOMAIN r.imps = DOMAIN s.imps
      /\ r.imps[1] = OnLane(l, first)
      /\ \A i \in DOMAIN s.imps : i # 1 => r.imps[i] = s.imps[i]
  BY <1>1 DEF ApplyLane
<1>3. /\ OnLane(l, first).id = first.id
      /\ OnLane(l, first).floor = l.floor
      /\ OnLane(l, first).pmp = LanePMP(l, first.pmp)
      /\ OnLane(l, first).proof = LaneProof(l, LaneTag(l, first.tag))
  BY <1>1 DEF OnLane
<1>4. \A i \in DOMAIN r.imps : r.imps[i].id = s.imps[i].id
  BY <1>2, <1>3
<1>5. \A other \in ToSet(r.imps) : other.id = r.imps[1].id => other = r.imps[1]
  BY <1>1, <1>2, <1>4 DEF ToSet
<1> QED
  BY <1>2, <1>3, <1>5

(***************************************************************************)
(* Whatever the manifest and the answers are, a winner on the lane's       *)
(* impression keeps the lane's terms (applyLaneToRequest and               *)
(* validCandidate, harness.go:261-297 and 436-465).                        *)
(***************************************************************************)
THEOREM TermsAreKept == FanoutSpec => []LaneTermsKept
<1>1. FanoutInv /\ TermsInv => LaneTermsKept
  <2> SUFFICES ASSUME FanoutInv, TermsInv, winner # None, winner.bid.impid = req.imps[1].id
               PROVE  OnTerms(winner)
    BY DEF LaneTermsKept
  <2> DEFINE s == options.sample
             bid == winner.bid
             lanes == req.imps[1]
  <2>1. winner \in candidates
    BY DEF TermsInv, WinnerStands
  <2>2. PICK a \in Answers : /\ a.kind = "response"
                             /\ ValidCandidate(lane, winner.buyer, req, a.resp)
                             /\ bid = FirstBid(a.resp)
    BY <2>1, CandidateIsValid
  <2>3. req = ApplyLane(lane, s) /\ IsSample(s) /\ IsResponse(a.resp)
    BY <2>1, <2>2, CandidateIsValid, FanoutAssumption
  <2>4. ValidateBidResponse(req, a.resp) /\ ProvesIdentity(winner.buyer, bid)
    BY <2>2, Zenon DEF ValidCandidate
  <2>5. PICK imp \in ToSet(req.imps) : imp.id = bid.impid /\ ValidBid(imp, bid)
    BY <2>2, <2>3, <2>4, FirstBidIsValid
  <2>6. /\ lanes.floor = lane.floor
        /\ lanes.pmp = LanePMP(lane, s.imps[1].pmp)
        /\ lanes.proof = LaneProof(lane, LaneTag(lane, s.imps[1].tag))
        /\ imp = lanes
    BY <2>3, <2>5, LaneImpression
  <2>7. /\ \A f \in ListedFloors(lanes) : bid.price >= f
        /\ ValidProof(lanes, bid.ext)
        /\ ListedDeals(lanes) # {} => bid.dealid \in ListedDeals(lanes)
    BY <2>5, <2>6, Zenon DEF ValidBid
  <2>8. bid.price >= lane.floor
    BY <2>6, <2>7 DEF ListedFloors
  <2>9. ASSUME lane.deal # "" PROVE bid.dealid = lane.deal
    <3>1. lanes.pmp = [private |-> TRUE,
                       deals |-> <<[id |-> lane.deal, floor |-> lane.floor, cur |-> lane.cur]>>]
      BY <2>6, <2>9, Zenon DEF LanePMP, Blank
    <3>2. ListedDeals(lanes) = {lane.deal}
      BY <3>1 DEF ListedDeals, ToSet
    <3> QED
      BY <2>7, <3>2
  <2>10. ASSUME lane.id # "" PROVE bid.ext.echo.lane_id = lane.id
    <3>1. lanes.proof.receipt /\ lanes.proof.echo["lane_id"] = lane.id
      BY <2>6 DEF LaneProof
    <3>2. "lane_id" \in EchoedKeys
      BY DEF EchoedKeys
    <3>3. bid.ext.echo["lane_id"] = lanes.proof.echo["lane_id"]
      BY <2>7, <2>10, <3>1, <3>2, Zenon DEF ValidProof
    <3> QED
      BY <3>1, <3>3
  <2>11. bid.ext.identity.buyer_id = winner.buyer.id
    BY <2>4 DEF ProvesIdentity
  <2> QED
    BY <2>8, <2>9, <2>10, <2>11, Zenon DEF OnTerms
<1> QED BY <1>1, FanoutInvariant, TermsInvHolds, PTL

(***************************************************************************)
(* A supply response said to carry VAST carries it, whichever impression   *)
(* the winner bid on (harness.go:481-494).                                 *)
(***************************************************************************)
THEOREM VASTIsCarried == FanoutSpec => []SupplyCarriesVAST
<1>1. FanoutInv /\ TermsInv => SupplyCarriesVAST
  <2> SUFFICES ASSUME FanoutInv, TermsInv, supply = "vast"
               PROVE  ShapeOK(winner.bid.adm.vast)
    BY DEF SupplyCarriesVAST
  <2>1. winner \in candidates /\ FirstAsksForVAST(req)
    BY DEF TermsInv, WinnerStands
  <2>2. PICK a \in Answers : /\ ValidCandidate(lane, winner.buyer, req, a.resp)
                             /\ winner.bid = FirstBid(a.resp)
    BY <2>1, CandidateIsValid
  <2> QED
    BY <2>1, <2>2, Zenon DEF ValidCandidate
<1> QED BY <1>1, FanoutInvariant, TermsInvHolds, PTL
=============================================================================
