------------------------- MODULE CertificationProofs -------------------------
(***************************************************************************)
(* Proofs about Certification: what a good report means, whatever server   *)
(* is certified, with whatever samples and options, and that a bidder that *)
(* deserves a good report gets one.                                        *)
(***************************************************************************)
EXTENDS Certification, EvaluationProofs

CheckNames ==
  {"readyz", "readable", "request_valid", "valid_bid_http", "valid_bid_json",
   "valid_bid_contract", "clean_no_bid", "malformed_rejected"}

Checks == [name : CheckNames, ok : BOOLEAN]

Reports ==
  [ok : BOOLEAN, checks : Seq(Checks), passed : Nat, failed : Nat, ready : BOOLEAN,
   noBidOK : BOOLEAN, malformedOK : BOOLEAN, supported : SUBSET ToSet(Paths)]

(* What Add leaves alone and what it counts. *)
CountsOK(r) == r.passed = Passed(r) /\ r.passed + r.failed = Len(r.checks)

LEMMA AddReport ==
  ASSUME NEW r \in Reports, NEW c \in Checks
  PROVE  /\ Add(r, c) \in Reports
         /\ Add(r, c).ok <=> r.ok /\ c.ok
         /\ Add(r, c).supported = r.supported
         /\ Add(r, c).ready = IF c.name = "readyz" THEN c.ok ELSE r.ready
         /\ Add(r, c).noBidOK = IF c.name = "clean_no_bid" THEN c.ok ELSE r.noBidOK
         /\ Add(r, c).malformedOK = IF c.name = "malformed_rejected" THEN c.ok ELSE r.malformedOK
<1>1. Append(r.checks, c) \in Seq(Checks)
  BY DEF Checks, Reports
<1>2. (r.passed + IF c.ok THEN 1 ELSE 0) \in Nat /\ (r.failed + IF c.ok THEN 0 ELSE 1) \in Nat
  BY DEF Reports
<1> QED
  BY <1>1, <1>2 DEF Add, Reports, Checks

(* The passed checks of a longer list. *)
LEMMA AddCounts ==
  ASSUME NEW r \in Reports, NEW c \in Checks, CountsOK(r)
  PROVE  CountsOK(Add(r, c))
<1> DEFINE s == Add(r, c)
           n == Len(r.checks)
           P == {i \in DOMAIN r.checks : r.checks[i].ok}
           Q == {i \in DOMAIN s.checks : s.checks[i].ok}
<1>1. r.checks \in Seq(Checks) /\ n \in Nat
  BY DEF Reports
<1>2. s.checks = Append(r.checks, c)
  BY DEF Add, Reports
<1>3. Len(s.checks) = n + 1 /\ DOMAIN s.checks = 1 .. n + 1
  BY <1>1, <1>2
<1>4. /\ s.checks[n + 1] = c
      /\ \A i \in 1 .. n : s.checks[i] = r.checks[i]
  BY <1>1, <1>2
<1>5. P \subseteq 1 .. n /\ IsFiniteSet(P) /\ n + 1 \notin P
  <2>1. P \subseteq 1 .. n
    BY <1>1
  <2>2. IsFiniteSet(1 .. n)
    BY <1>1, FS_Interval
  <2> QED
    BY <2>1, <2>2, <1>1, FS_Subset
<1>6. /\ c.ok => Q = P \cup {n + 1}
      /\ ~c.ok => Q = P
  <2>1. \A i : i \in Q <=> i \in 1 .. n + 1 /\ s.checks[i].ok
    BY <1>3
  <2>2. \A i : i \in P <=> i \in 1 .. n /\ r.checks[i].ok
    BY <1>1
  <2>3. \A i : i \in 1 .. n + 1 <=> i \in 1 .. n \/ i = n + 1
    BY <1>1
  <2>4. n + 1 \notin 1 .. n
    BY <1>1
  <2> HIDE DEF s, P, Q, n
  <2>5. \A i : i \in Q <=> i \in P \/ (i = n + 1 /\ c.ok)
    BY <1>4, <2>1, <2>2, <2>3, <2>4
  <2> QED
    BY <2>5
<1>7. /\ c.ok => Cardinality(Q) = Cardinality(P) + 1
      /\ ~c.ok => Cardinality(Q) = Cardinality(P)
  <2>1. Cardinality(P) \in Nat
    BY <1>5, FS_CardinalityType
  <2> HIDE DEF P, Q, n
  <2> QED
    BY <2>1, <1>6, <1>5, FS_AddElement
<1>8. /\ c.ok => s.passed = r.passed + 1 /\ s.failed = r.failed
      /\ ~c.ok => s.passed = r.passed /\ s.failed = r.failed + 1
  <2>1. r.passed \in Nat /\ r.failed \in Nat
    BY DEF Reports
  <2> QED
    BY <2>1 DEF Add, Reports
<1>9. Passed(r) = Cardinality(P) /\ Passed(s) = Cardinality(Q)
  BY DEF Passed
<1>10. r.passed \in Nat /\ r.failed \in Nat
  BY DEF Reports
<1> HIDE DEF s, P, Q
<1>11. s.passed = Passed(s)
  BY <1>7, <1>8, <1>9 DEF CountsOK
<1>12. s.passed + s.failed = Len(s.checks)
  <2>1. r.passed + r.failed = Len(r.checks)
    BY DEF CountsOK
  <2>2. Len(r.checks) \in Nat /\ Len(s.checks) = Len(r.checks) + 1
    BY <1>1, <1>3
  <2>3. CASE c.ok
    BY <2>1, <2>2, <2>3, <1>8, <1>10
  <2>4. CASE ~c.ok
    BY <2>1, <2>2, <2>4, <1>8, <1>10
  <2> QED
    BY <2>3, <2>4
<1> QED
  BY <1>11, <1>12 DEF CountsOK, s

-----------------------------------------------------------------------------
(***************************************************************************)
(* The invariant: a report that is still good is good for all that has     *)
(* been done so far, and as long as no file has changed the first one is   *)
(* there, once it has been read.                                           *)
(***************************************************************************)
Place ==
  /\ pc \in {"ready", "sample", "post", "no_bid", "malformed", "done"}
  /\ next \in 1 .. Len(Paths) + 1
  /\ pc = "ready" => next = 1
  /\ pc = "post" => next <= Len(Paths) /\ sample # Missing
  /\ pc \in {"no_bid", "malformed", "done"} => next = Len(Paths) + 1

Held ==
  /\ changed \in BOOLEAN
  /\ files \in [ToSet(Paths) -> Samples]
  /\ pc = "post" /\ ~changed => files[Paths[next]] # Missing
  /\ report.ok /\ next > 1 /\ ~changed => files[Paths[1]] # Missing

Probed ==
  /\ report.ok /\ pc # "ready" => report.ready
  /\ report.ok => \A i \in 1 .. next - 1 : Paths[i] \in report.supported
  /\ pc \notin {"malformed", "done"} => ~report.noBidOK
  /\ pc # "done" => ~report.malformedOK
  /\ pc = "malformed" /\ report.ok => report.noBidOK
  /\ pc = "done" /\ report.ok =>
       \/ report.noBidOK /\ report.malformedOK
       \/ changed /\ ~report.noBidOK /\ ~report.malformedOK

CertifyInv == Place /\ Held /\ report \in Reports /\ CountsOK(report) /\ Probed

LEMMA PathsFact ==
  /\ Len(Paths) \in Nat \ {0}
  /\ \A i \in 1 .. Len(Paths) : Paths[i] \in ToSet(Paths)
  /\ ToSet(Paths) = {Paths[i] : i \in 1 .. Len(Paths)}
<1>1. Paths \in Seq(ToSet(Paths)) /\ Paths # <<>>
  BY CertificationAssumption
<1>2. Len(Paths) \in Nat /\ DOMAIN Paths = 1 .. Len(Paths)
  BY <1>1
<1>3. Len(Paths) # 0
  BY <1>1
<1>4. ToSet(Paths) = {Paths[i] : i \in DOMAIN Paths}
  BY DEF ToSet
<1> QED
  BY <1>2, <1>3, <1>4

(* One answered sample. *)
LEMMA JudgedReport ==
  ASSUME NEW r \in Reports, NEW label \in ToSet(Paths), NEW a, CountsOK(r)
  PROVE  LET s == Judged(r, label, a) IN
         /\ s \in Reports /\ CountsOK(s)
         /\ s.ok => r.ok /\ label \in s.supported
         /\ r.supported \subseteq s.supported
         /\ s.ready = r.ready /\ s.noBidOK = r.noBidOK /\ s.malformedOK = r.malformedOK
<1> DEFINE c1 == Check("valid_bid_http", a.status = 200)
           c2 == Check("valid_bid_json", TRUE)
           c3 == Check("valid_bid_contract", a.detail = "")
           c4 == Check("valid_bid_json", FALSE)
           http == Add(r, c1)
           json == Add(http, c2)
           contract == Add(json, c3)
           broken == Add(http, c4)
<1>c1. c1 \in Checks /\ (c1.ok <=> a.status = 200) /\ c1.name = "valid_bid_http"
  BY DEF Check, Checks, CheckNames
<1>c2. c2 \in Checks /\ c2.ok /\ c2.name = "valid_bid_json"
  BY DEF Check, Checks, CheckNames
<1>c3. c3 \in Checks /\ (c3.ok <=> a.detail = "") /\ c3.name = "valid_bid_contract"
  BY DEF Check, Checks, CheckNames
<1>c4. c4 \in Checks /\ ~c4.ok /\ c4.name = "valid_bid_json"
  BY DEF Check, Checks, CheckNames
<1> HIDE DEF c1, c2, c3, c4
<1>1. /\ http \in Reports /\ CountsOK(http)
      /\ http.ok <=> r.ok /\ a.status = 200
      /\ http.supported = r.supported
      /\ http.ready = r.ready /\ http.noBidOK = r.noBidOK /\ http.malformedOK = r.malformedOK
  BY <1>c1, AddReport, AddCounts
<1> HIDE DEF http
<1>2. /\ json \in Reports /\ CountsOK(json)
      /\ json.ok <=> http.ok
      /\ json.supported = http.supported
      /\ json.ready = http.ready /\ json.noBidOK = http.noBidOK
      /\ json.malformedOK = http.malformedOK
  BY <1>1, <1>c2, AddReport, AddCounts
<1>3. /\ broken \in Reports /\ CountsOK(broken)
      /\ ~broken.ok
      /\ broken.supported = http.supported
      /\ broken.ready = http.ready /\ broken.noBidOK = http.noBidOK
      /\ broken.malformedOK = http.malformedOK
  BY <1>1, <1>c4, AddReport, AddCounts
<1> HIDE DEF json, broken
<1>4. /\ contract \in Reports /\ CountsOK(contract)
      /\ contract.ok <=> json.ok /\ a.detail = ""
      /\ contract.supported = json.supported
      /\ contract.ready = json.ready /\ contract.noBidOK = json.noBidOK
      /\ contract.malformedOK = json.malformedOK
  BY <1>2, <1>c3, AddReport, AddCounts
<1> HIDE DEF contract
<1>5. Judged(r, label, a) =
        IF a.status = 0 THEN http
        ELSE IF ~a.json THEN broken
        ELSE IF a.detail = "" THEN [contract EXCEPT !.supported = @ \cup {label}]
        ELSE contract
  BY DEF Judged, http, json, broken, contract, c1, c2, c3, c4
<1>6. a.status = 0 => a.status # 200
  OBVIOUS
<1> DEFINE listed == [contract EXCEPT !.supported = @ \cup {label}]
<1>7. /\ listed \in Reports /\ CountsOK(listed)
      /\ label \in listed.supported /\ contract.supported \subseteq listed.supported
      /\ listed.ok = contract.ok /\ listed.ready = contract.ready
      /\ listed.noBidOK = contract.noBidOK /\ listed.malformedOK = contract.malformedOK
  <2>1. listed \in Reports
    BY <1>4 DEF Reports
  <2>2. /\ listed.checks = contract.checks /\ listed.passed = contract.passed
        /\ listed.failed = contract.failed
    BY <1>4 DEF Reports
  <2>3. CountsOK(listed)
    BY <1>4, <2>2 DEF CountsOK, Passed
  <2> QED
    BY <1>4, <2>1, <2>3 DEF Reports
<1> HIDE DEF listed
<1>8. Judged(r, label, a) =
        IF a.status = 0 THEN http ELSE IF ~a.json THEN broken
        ELSE IF a.detail = "" THEN listed ELSE contract
  BY <1>5 DEF listed
<1>9. CASE a.status = 0
  <2>1. Judged(r, label, a) = http
    BY <1>8, <1>9
  <2> QED
    BY <2>1, <1>1, <1>6, <1>9
<1>10. CASE a.status # 0 /\ ~a.json
  <2>1. Judged(r, label, a) = broken
    BY <1>8, <1>10
  <2> QED
    BY <2>1, <1>1, <1>3
<1>11. CASE a.status # 0 /\ a.json /\ a.detail # ""
  <2>1. Judged(r, label, a) = contract
    BY <1>8, <1>11
  <2>2. ~contract.ok
    BY <1>4, <1>11
  <2> QED
    BY <2>1, <2>2, <1>1, <1>2, <1>4
<1>12. CASE a.status # 0 /\ a.json /\ a.detail = ""
  <2>1. Judged(r, label, a) = listed
    BY <1>8, <1>12
  <2>2. listed.ok => r.ok /\ label \in listed.supported
    BY <1>1, <1>2, <1>4, <1>7
  <2>3. r.supported \subseteq listed.supported
    BY <1>1, <1>2, <1>4, <1>7
  <2>4. /\ json.ready = r.ready /\ json.noBidOK = r.noBidOK
        /\ json.malformedOK = r.malformedOK
    BY <1>1, <1>2
  <2>5. /\ listed.ready = json.ready /\ listed.noBidOK = json.noBidOK
        /\ listed.malformedOK = json.malformedOK
    BY <1>4, <1>7
  <2> QED
    BY <2>1, <2>2, <2>3, <2>4, <2>5, <1>7
<1> QED
  BY <1>9, <1>10, <1>11, <1>12
-----------------------------------------------------------------------------
LEMMA CertifyInitInv == CertifyInit => CertifyInv
<1> SUFFICES ASSUME CertifyInit
             PROVE  CertifyInv
  OBVIOUS
<1> USE DEF CertifyInit
<1>1. Place
  BY PathsFact DEF Place
<1>2. Held
  <2>1. situation \in Situations /\ files = situation.files
    OBVIOUS
  <2>2. files \in [ToSet(Paths) -> Samples]
    BY <2>1, CertificationAssumption
  <2>3. changed \in BOOLEAN
    OBVIOUS
  <2>4. pc = "ready" /\ next = 1
    OBVIOUS
  <2> QED
    BY <2>2, <2>3, <2>4 DEF Held
<1>3. EmptyReport \in Reports
  BY DEF EmptyReport, Reports
<1>4. CountsOK(EmptyReport)
  <2>1. {i \in DOMAIN EmptyReport.checks : EmptyReport.checks[i].ok} = {}
    BY DEF EmptyReport
  <2> QED
    BY <2>1, FS_EmptySet DEF CountsOK, Passed, EmptyReport
<1>5. Probed
  BY DEF Probed, EmptyReport
<1> QED
  BY <1>1, <1>2, <1>3, <1>4, <1>5 DEF CertifyInv

LEMMA ChangeInv == ASSUME CertifyInv, Change PROVE CertifyInv'
<1> USE DEF CertifyInv, Change
<1>1. Place' /\ Probed'
  BY DEF Place, Probed
<1>2. Held'
  BY DEF Held
<1>3. (report \in Reports /\ CountsOK(report))'
  BY DEF CountsOK, Passed
<1> QED
  BY <1>1, <1>2, <1>3

LEMMA ProbeReadyInv == ASSUME CertifyInv, ProbeReady PROVE CertifyInv'
<1> USE DEF CertifyInv
<1>1. PICK status : report' = Add(report, Check("readyz", status = 200))
  BY DEF ProbeReady
<1> DEFINE c == Check("readyz", status = 200)
<1>2. c \in Checks /\ c.name = "readyz"
  BY DEF Check, Checks, CheckNames
<1> HIDE DEF c
<1>3. /\ report' \in Reports /\ CountsOK(report)'
      /\ report'.ok <=> report.ok /\ c.ok
      /\ report'.ready = c.ok
      /\ report'.noBidOK = report.noBidOK /\ report'.malformedOK = report.malformedOK
  <2>1. report' = Add(report, c)
    BY <1>1 DEF c
  <2>2. CountsOK(report') <=> CountsOK(report)'
    BY DEF CountsOK, Passed
  <2> QED
    BY <2>1, <2>2, <1>2, AddReport, AddCounts
<1>4. pc = "ready" /\ pc' = "sample" /\ UNCHANGED <<files, changed, next, sample>>
  BY DEF ProbeReady
<1>5. Place'
  BY <1>4 DEF Place
<1>6. next = 1 /\ Held'
  BY <1>4 DEF Place, Held
<1>7. Probed'
  BY <1>3, <1>4, <1>6 DEF Probed
<1> QED
  BY <1>3, <1>5, <1>6, <1>7

(* What the checks of one sample leave of the report. *)
Kept(old, new) ==
  /\ new \in Reports /\ CountsOK(new)
  /\ new.ok => old.ok
  /\ old.supported \subseteq new.supported
  /\ new.ready = old.ready /\ new.noBidOK = old.noBidOK /\ new.malformedOK = old.malformedOK

LEMMA AddKept ==
  ASSUME NEW r \in Reports, CountsOK(r), NEW c \in Checks,
         c.name \notin {"readyz", "clean_no_bid", "malformed_rejected"}
  PROVE  Kept(r, Add(r, c)) /\ (Add(r, c).ok => c.ok)
<1>1. CountsOK(Add(r, c))
  BY AddCounts
<1> QED
  BY <1>1, AddReport DEF Kept

LEMMA ReadSampleInv == ASSUME CertifyInv, ReadSample PROVE CertifyInv'
<1> DEFINE b == files[Paths[next]]
           unreadable == Check("readable", FALSE)
           readable == Check("readable", TRUE)
           wrong == Check("request_valid", FALSE)
           right == Check("request_valid", TRUE)
<1>u. unreadable \in Checks /\ unreadable.name = "readable" /\ ~unreadable.ok
  BY DEF Check, Checks, CheckNames
<1>r. readable \in Checks /\ readable.name = "readable"
  BY DEF Check, Checks, CheckNames
<1>w. wrong \in Checks /\ wrong.name = "request_valid" /\ ~wrong.ok
  BY DEF Check, Checks, CheckNames
<1>1. right \in Checks /\ right.name = "request_valid"
  BY DEF Check, Checks, CheckNames
<1>2. pc = "sample" /\ next \in 1 .. Len(Paths) /\ UNCHANGED <<files, changed>>
  <2>1. next \in 1 .. Len(Paths) + 1
    BY DEF CertifyInv, Place
  <2>2. pc = "sample" /\ next <= Len(Paths) /\ UNCHANGED <<files, changed>>
    BY DEF ReadSample
  <2> QED
    BY <2>1, <2>2, PathsFact
<1>3. report \in Reports /\ CountsOK(report)
  BY DEF CertifyInv
<1>4. CountsOK(report') <=> CountsOK(report)'
  BY DEF CountsOK, Passed
<1>5. ASSUME Kept(report, report'), ~report'.ok, next' = next + 1, pc' = "sample"
      PROVE  CertifyInv'
  <2>1. Place'
    BY <1>2, <1>5 DEF Place, CertifyInv
  <2>2. Held'
    BY <1>2, <1>5 DEF Held, CertifyInv
  <2>3. Probed'
    BY <1>2, <1>5 DEF Probed, CertifyInv, Kept
  <2> QED
    BY <1>4, <1>5, <2>1, <2>2, <2>3 DEF CertifyInv, Kept
<1>6. CASE b = Missing
  <2>1. report' = Add(report, unreadable) /\ next' = next + 1 /\ pc' = pc
    BY <1>6 DEF ReadSample
  <2> HIDE DEF unreadable, b
  <2>2. Kept(report, report') /\ ~report'.ok
    BY <2>1, <1>u, <1>3, AddKept
  <2> QED
    BY <2>1, <2>2, <1>2, <1>5
<1>7. CASE b # Missing /\ ~Decodes(b, "", DefaultAccepted)
  <2>1. report' = Add(Add(report, readable), wrong) /\ next' = next + 1 /\ pc' = pc
    BY <1>7 DEF ReadSample
  <2> HIDE DEF readable, wrong, b
  <2> DEFINE first == Add(report, readable)
  <2>2. Kept(report, first)
    BY <1>r, <1>3, AddKept
  <2>3. first \in Reports /\ CountsOK(first)
    BY <2>2 DEF Kept
  <2> HIDE DEF first
  <2>4. Kept(first, Add(first, wrong)) /\ ~Add(first, wrong).ok
    BY <1>w, <2>3, AddKept
  <2>5. Kept(report, report') /\ ~report'.ok
    BY <2>1, <2>2, <2>4 DEF Kept, first
  <2> QED
    BY <2>1, <2>5, <1>2, <1>5
<1>8. CASE b # Missing /\ Decodes(b, "", DefaultAccepted)
  <2>1. /\ report' = Add(Add(report, readable), right)
        /\ next' = next /\ pc' = "post" /\ sample' = b
    BY <1>8 DEF ReadSample
  <2>2. sample' # Missing /\ files[Paths[next]] # Missing
    BY <2>1, <1>8
  <2> HIDE DEF readable, right, b
  <2> DEFINE first == Add(report, readable)
  <2>3. Kept(report, first)
    BY <1>r, <1>3, AddKept
  <2>4. first \in Reports /\ CountsOK(first)
    BY <2>3 DEF Kept
  <2> HIDE DEF first
  <2>5. Kept(first, Add(first, right))
    BY <1>1, <2>4, AddKept
  <2>6. Kept(report, report')
    BY <2>1, <2>3, <2>5 DEF Kept, first
  <2>7. Place'
    BY <2>1, <2>2, <1>2 DEF Place, CertifyInv
  <2>8. Held'
    BY <2>1, <2>2, <2>6, <1>2 DEF Held, CertifyInv, Kept
  <2>9. Probed'
    BY <2>1, <2>6, <1>2 DEF Probed, CertifyInv, Kept
  <2> QED
    BY <1>4, <2>6, <2>7, <2>8, <2>9 DEF CertifyInv, Kept
<1> QED
  BY <1>6, <1>7, <1>8

LEMMA PostSampleInv == ASSUME CertifyInv, PostSample PROVE CertifyInv'
<1>1. PICK a : report' = Judged(report, Paths[next], a)
  BY DEF PostSample
<1>2. /\ pc = "post" /\ pc' = "sample" /\ next' = next + 1
      /\ next \in 1 .. Len(Paths) /\ UNCHANGED <<files, changed, sample>>
  BY DEF PostSample, CertifyInv, Place
<1>3. Paths[next] \in ToSet(Paths)
  BY <1>2, PathsFact
<1>4. report \in Reports /\ CountsOK(report)
  BY DEF CertifyInv
<1>5. CountsOK(report') <=> CountsOK(report)'
  BY DEF CountsOK, Passed
<1>6. Kept(report, report') /\ (report'.ok => Paths[next] \in report'.supported)
  BY <1>1, <1>3, <1>4, JudgedReport DEF Kept
<1>7. Place'
  BY <1>2 DEF Place, CertifyInv
<1>8. Held'
  BY <1>2, <1>6, PathsFact DEF Held, CertifyInv, Kept
<1>9. Probed'
  <2>1. ASSUME report'.ok, NEW i \in 1 .. next' - 1
        PROVE  Paths[i] \in report'.supported
    <3>1. CASE i = next
      BY <3>1, <2>1, <1>6
    <3>2. CASE i # next
      <4>1. i \in 1 .. next - 1
        BY <3>2, <1>2, PathsFact
      <4> QED
        BY <4>1, <2>1, <1>6 DEF Probed, CertifyInv, Kept
    <3> QED
      BY <3>1, <3>2
  <2> QED
    BY <2>1, <1>2, <1>6 DEF Probed, CertifyInv, Kept
<1> QED
  BY <1>5, <1>6, <1>7, <1>8, <1>9 DEF CertifyInv, Kept

LEMMA ReadAgainInv == ASSUME CertifyInv, ReadAgain PROVE CertifyInv'
<1>1. /\ pc = "sample" /\ UNCHANGED <<files, changed, next, report>>
      /\ next = Len(Paths) + 1 /\ next > 1
  BY PathsFact DEF ReadAgain, CertifyInv, Place
<1>2. \/ pc' = "done" /\ files[Paths[1]] = Missing
      \/ pc' = "no_bid"
  BY DEF ReadAgain
<1>3. (report \in Reports /\ CountsOK(report))'
  BY <1>1 DEF CertifyInv, CountsOK, Passed
<1>4. Place'
  BY <1>1, <1>2 DEF Place, CertifyInv
<1>5. Held'
  BY <1>1, <1>2 DEF Held, CertifyInv
<1>6. Probed'
  BY <1>1, <1>2 DEF Probed, Held, CertifyInv
<1> QED
  BY <1>3, <1>4, <1>5, <1>6 DEF CertifyInv

LEMMA ProbeNoBidInv == ASSUME CertifyInv, ProbeNoBid PROVE CertifyInv'
<1>1. PICK a : report' = Add(report, Check("clean_no_bid", a.status = 204))
  BY DEF ProbeNoBid
<1> DEFINE c == Check("clean_no_bid", a.status = 204)
<1>2. c \in Checks /\ c.name = "clean_no_bid"
  BY DEF Check, Checks, CheckNames
<1>3. pc = "no_bid" /\ pc' = "malformed" /\ UNCHANGED <<files, changed, next>>
  BY DEF ProbeNoBid
<1>4. CountsOK(report') <=> CountsOK(report)'
  BY DEF CountsOK, Passed
<1>5. /\ report' \in Reports /\ CountsOK(report')
      /\ report'.ok <=> report.ok /\ c.ok
      /\ report'.supported = report.supported /\ report'.ready = report.ready
      /\ report'.noBidOK = c.ok /\ report'.malformedOK = report.malformedOK
  <2>1. report' = Add(report, c)
    BY <1>1
  <2> HIDE DEF c
  <2> QED
    BY <2>1, <1>2, AddReport, AddCounts DEF CertifyInv
<1> HIDE DEF c
<1>6. Place' /\ Held'
  BY <1>3, <1>5 DEF Place, Held, CertifyInv
<1>7. Probed'
  BY <1>3, <1>5 DEF Probed, CertifyInv
<1> QED
  BY <1>4, <1>5, <1>6, <1>7 DEF CertifyInv

LEMMA ProbeMalformedInv == ASSUME CertifyInv, ProbeMalformed PROVE CertifyInv'
<1>1. PICK a : report' = Add(report, Check("malformed_rejected", a.status = 400))
  BY DEF ProbeMalformed
<1> DEFINE c == Check("malformed_rejected", a.status = 400)
<1>2. c \in Checks /\ c.name = "malformed_rejected"
  BY DEF Check, Checks, CheckNames
<1>3. pc = "malformed" /\ pc' = "done" /\ UNCHANGED <<files, changed, next>>
  BY DEF ProbeMalformed
<1>4. CountsOK(report') <=> CountsOK(report)'
  BY DEF CountsOK, Passed
<1>5. /\ report' \in Reports /\ CountsOK(report')
      /\ report'.ok <=> report.ok /\ c.ok
      /\ report'.supported = report.supported /\ report'.ready = report.ready
      /\ report'.noBidOK = report.noBidOK /\ report'.malformedOK = c.ok
  <2>1. report' = Add(report, c)
    BY <1>1
  <2> HIDE DEF c
  <2> QED
    BY <2>1, <1>2, AddReport, AddCounts DEF CertifyInv
<1> HIDE DEF c
<1>6. Place' /\ Held'
  BY <1>3, <1>5 DEF Place, Held, CertifyInv
<1>7. Probed'
  BY <1>3, <1>5 DEF Probed, CertifyInv
<1> QED
  BY <1>4, <1>5, <1>6, <1>7 DEF CertifyInv

LEMMA CertifyStepInv == CertifyInv /\ [CertifyNext]_certifyVars => CertifyInv'
<1> SUFFICES ASSUME CertifyInv, [CertifyNext]_certifyVars
             PROVE  CertifyInv'
  OBVIOUS
<1>1. CASE UNCHANGED certifyVars
  BY <1>1 DEF certifyVars, CertifyInv, Place, Held, Probed, CountsOK, Passed
<1>2. CASE CertifyNext
  BY <1>2, ChangeInv, ProbeReadyInv, ReadSampleInv, PostSampleInv, ReadAgainInv,
     ProbeNoBidInv, ProbeMalformedInv DEF CertifyNext
<1> QED
  BY <1>1, <1>2

LEMMA CertifyInvHolds == CertifySpec => []CertifyInv
  BY CertifyInitInv, CertifyStepInv, PTL DEF CertifySpec

(* Type correctness, with the counters of the report. *)
THEOREM CertificationTypes == CertifySpec => []CertifyTypeOK
<1>1. CertifyInv => CertifyTypeOK
  BY DEF CertifyInv, CertifyTypeOK, Place, Held, Reports, CountsOK
<1> QED
  BY <1>1, CertifyInvHolds, PTL

(***************************************************************************)
(* What a good report says, for every list of samples, every tool, every   *)
(* server and wherever in the run a file changes.                          *)
(***************************************************************************)
THEOREM GoodReports == CertifySpec => []GoodReportsAreComplete
<1>1. CertifyInv => GoodReportsAreComplete
  <2> SUFFICES ASSUME CertifyInv, pc = "done", report.ok
               PROVE  /\ report.ready
                      /\ report.supported = ToSet(Paths)
                      /\ \/ report.noBidOK /\ report.malformedOK
                         \/ changed /\ ~report.noBidOK /\ ~report.malformedOK
    BY DEF GoodReportsAreComplete
  <2>1. \A i \in 1 .. Len(Paths) : Paths[i] \in report.supported
    BY PathsFact DEF CertifyInv, Place, Probed
  <2>2. report.supported = ToSet(Paths)
    BY <2>1, PathsFact DEF CertifyInv, Reports
  <2> QED
    BY <2>2 DEF CertifyInv, Probed
<1> QED
  BY <1>1, CertifyInvHolds, PTL

-----------------------------------------------------------------------------
(***************************************************************************)
(* Loading.  A bidder that has started keeps what it has loaded, and what  *)
(* it has loaded was accepted by validateCampaign and then compiled.       *)
(***************************************************************************)
LoadedInv ==
  /\ situation \in Situations
  /\ cfg # None =>
       situation.setting # None /\ Loads(situation.setting) /\ cfg = Load(situation.setting)

LEMMA LoadedInvHolds == CertifySpec => []LoadedInv
<1>1. CertifyInit => LoadedInv
  BY DEF CertifyInit, LoadedInv
<1>2. LoadedInv /\ [CertifyNext]_certifyVars => LoadedInv'
  <2>1. [CertifyNext]_certifyVars => situation' = situation /\ cfg' = cfg
    BY Zenon DEF CertifyNext, certifyVars, Change, ProbeReady, ReadSample, PostSample,
       ReadAgain, ProbeNoBid, ProbeMalformed
  <2> QED
    BY <2>1 DEF LoadedInv
<1> QED
  BY <1>1, <1>2, PTL DEF CertifySpec

LEMMA StatedIsNotBlank ==
  ASSUME NEW env, NEW file, NEW default, ~Blank(default)
  PROVE  ~Blank(Stated(env, file, default))
BY Zenon DEF Stated, Blank

(* The two normalizers agree, so what is supported is a media type. *)
LEMMA SameMedia == \A m : NormalMedia(m) = NormalizeToken(m)
BY Zenon DEF NormalMedia, NormalizeToken

LEMMA LoadedMedia ==
  ASSUME NEW c, ValidCampaign(c)
  PROVE  {NormalizeToken(m) : m \in ToSet(c.media)} \subseteq MediaTypes
<1>1. {NormalMedia(m) : m \in ToSet(c.media)} \subseteq SupportedMedia
  BY Zenon DEF ValidCampaign
<1>2. SupportedMedia = MediaTypes
  BY DEF SupportedMedia, MediaTypes
<1> QED
  BY <1>1, <1>2, SameMedia

(* Compiling keeps a creative's media type among its campaign's. *)
LEMMA CompiledCampaign ==
  ASSUME NEW c, NEW seat, ~Blank(seat), WrittenCampaign(c), ValidCampaign(c)
  PROVE  CampaignAdmitted(Compile(c, seat)) /\ Compile(c, seat).media \subseteq MediaTypes
<1> DEFINE d == Compile(c, seat)
<1>1. /\ d.id = c.id
      /\ d.seat = Stated(c.seat, seat, seat)
      /\ d.price = c.price
      /\ d.media = StringSet(c.media)
      /\ d.creatives = [k \in DOMAIN c.creatives |->
                          [c.creatives[k] EXCEPT !.media = NormalizeToken(c.creatives[k].media)]]
  BY DEF Compile, WrittenCampaign
<1>2. d.price \in Nat \ {0}
  <2>1. c.price > 0
    BY Zenon DEF ValidCampaign
  <2> QED
    BY <1>1, <2>1 DEF WrittenCampaign
<1>3. ASSUME NEW k \in DOMAIN d.creatives
      PROVE  LET cr == d.creatives[k] IN
             /\ ~Blank(cr.id)
             /\ cr.media \in d.media
             /\ cr.adomain # <<>>
             /\ {cr.duration, cr.w, cr.h} \subseteq Nat
  <2> DEFINE cr == c.creatives[k]
  <2>1. k \in DOMAIN c.creatives
    BY <1>1
  <2>2. d.creatives[k] = [cr EXCEPT !.media = NormalizeToken(cr.media)]
    BY <1>1, <2>1
  <2>3. /\ d.creatives[k].media = NormalizeToken(cr.media)
        /\ \A x \in {"id", "adomain", "duration", "w", "h"} : d.creatives[k][x] = cr[x]
    BY <2>1, <2>2 DEF WrittenCampaign
  <2>4. ValidCreative(c, cr)
    BY <2>1, Zenon DEF ValidCampaign
  <2>5. /\ cr.adomain # <<>>
        /\ ~Blank(cr.id)
        /\ {cr.duration, cr.w, cr.h} \subseteq Nat
        /\ NormalizeToken(cr.media) \in {NormalizeToken(m) : m \in ToSet(c.media)}
    <3>1. NormalMedia(cr.media) \in {NormalMedia(m) : m \in ToSet(c.media)}
      BY <2>4, Zenon DEF ValidCreative
    <3>2. NormalizeToken(cr.media) \in {NormalizeToken(m) : m \in ToSet(c.media)}
      BY <3>1, SameMedia
    <3> QED
      BY <2>4, <3>2, Zenon DEF ValidCreative, Blank
  <2>7. NormalizeToken(cr.media) # ""
    <3>1. NormalizeToken(cr.media) \in MediaTypes
      BY <2>5, LoadedMedia
    <3> QED
      BY <3>1, Zenon DEF MediaTypes
  <2>8. NormalizeToken(cr.media) \in StringSet(c.media)
    BY <2>5, <2>7, Zenon DEF StringSet
  <2> QED
    BY <1>1, <2>3, <2>5, <2>8
<1>4. d.creatives \in Seq(ToSet(d.creatives))
  <2>1. DOMAIN c.creatives = 1 .. Len(c.creatives) /\ Len(c.creatives) \in Nat
    BY DEF WrittenCampaign
  <2>2. DOMAIN d.creatives = 1 .. Len(c.creatives)
    BY <1>1, <2>1
  <2>3. d.creatives \in [1 .. Len(c.creatives) -> ToSet(d.creatives)]
    BY <1>1, <2>2 DEF ToSet
  <2> QED
    BY <2>1, <2>3
<1>5. ~Blank(d.id)
  BY <1>1, Zenon DEF ValidCampaign, Blank
<1>6. ~Blank(d.seat)
  BY <1>1, StatedIsNotBlank
<1>7. d.media \subseteq MediaTypes
  <2>1. StringSet(c.media) \subseteq {NormalizeToken(m) : m \in ToSet(c.media)}
    BY Zenon DEF StringSet
  <2> QED
    BY <1>1, <2>1, LoadedMedia
<1> QED
  BY <1>2, <1>3, <1>4, <1>5, <1>6, <1>7 DEF CampaignAdmitted

(* What is loaded is what the engine counts on. *)
LEMMA LoadedAreAdmitted ==
  ASSUME LoadedInv
  PROVE  LoadedCampaignsAdmitted
<1> SUFFICES ASSUME cfg # None, NEW i \in DOMAIN cfg.campaigns
             PROVE  CampaignAdmitted(cfg.campaigns[i]) /\ cfg.campaigns[i].media \subseteq MediaTypes
  BY DEF LoadedCampaignsAdmitted
<1> DEFINE s == situation.setting
           cs == s.file.campaigns
           seat == Stated(s.env.seat, s.file.seat, DefaultSeat)
<1>1. /\ cfg.campaigns = [j \in DOMAIN cs |-> Compile(cs[j], seat)]
      /\ Loads(s) /\ s # None
  BY DEF LoadedInv, Load
<1>2. i \in DOMAIN cs /\ cfg.campaigns[i] = Compile(cs[i], seat)
  BY <1>1
<1>3. ValidCampaign(cs[i])
  BY <1>1, <1>2, Zenon DEF Loads
<1>4. WrittenCampaign(cs[i])
  BY <1>1, <1>2, CertificationAssumption DEF LoadedInv
<1>5. ~Blank(seat)
  <2>1. ~Blank(DefaultSeat)
    BY ConfigAssumption, Zenon DEF Blank
  <2> QED
    BY <2>1, StatedIsNotBlank
<1> QED
  BY <1>2, <1>3, <1>4, <1>5, CompiledCampaign

(***************************************************************************)
(* Every campaign of a bidder that has started is one the engine can bid   *)
(* with: what BiddingAssumption assumes of campaigns holds of those that   *)
(* are loaded, whatever the file says, and they have none but the media    *)
(* types of requests.                                                      *)
(***************************************************************************)
THEOREM LoadedCampaigns == CertifySpec => []LoadedCampaignsAdmitted
<1> QED
  BY LoadedAreAdmitted, LoadedInvHolds, PTL

-----------------------------------------------------------------------------
(***************************************************************************)
(* The careful bidder.  What its callers send it is admitted, decoded and  *)
(* answered with a bid that passes; the probe's floor is above its prices; *)
(* and the malformed body is refused as such.                              *)
(***************************************************************************)
CarefulRun ==
  /\ cfg # None /\ ~changed /\ ~lost
  /\ Ready(cfg)
  /\ ToolFits
  /\ \A p \in ToSet(Paths) : BidsCarefully(files[p])
  /\ Len(files[Paths[1]].imps) = 1
  /\ \A i \in DOMAIN cfg.campaigns : cfg.campaigns[i].price < ProbeFloor

LEMMA WordsAreTrimmed ==
  /\ \A t : Trim(Trim(t)) = Trim(t)
  /\ \A w : Trim(Word(w)) = Word(w) /\ Word(w) # Empty
  /\ Trim(Empty) = Empty
BY DEF Trim, Word, Empty

LEMMA AcceptedIsKnown ==
  ASSUME NEW s, NEW v \in Accepted(s)
  PROVE  ~Blank(v)
BY Zenon DEF Accepted, DefaultAccepted, Blank

LEMMA CarefulAuthorized ==
  ASSUME LoadedInv, CarefulRun, NEW e
  PROVE  Authorized(cfg, CertifyCall(tool, e, 0), e, 0)
<1> DEFINE call == CertifyCall(tool, e, 0)
           request == IF Trim(e.id) = Empty THEN Word("cert_request") ELSE Trim(e.id)
           auction == IF Trim(e.tid) = Empty THEN request ELSE Trim(e.tid)
<1>1. /\ tool.token = cfg.token /\ tool.secret = cfg.secret
      /\ cfg.requireAuth => cfg.token # Empty /\ PlainToken(cfg.token)
      /\ cfg.requireSignature => cfg.secret # Empty
  BY Zenon DEF CarefulRun, ToolFits, Ready, CredentialsReady
<1>2. /\ call.auth = IF tool.token = Empty THEN Empty ELSE Prefixed(Unprefixed(tool.token))
      /\ tool.secret # Empty =>
           /\ call.request = request /\ call.auction = auction
           /\ call.sig = BuyerSigned(tool.secret, 0, auction, request, e.content)
  BY DEF CertifyCall
<1>3. /\ Trim(request) = request /\ request # Empty
      /\ Trim(auction) = auction /\ auction # Empty
  BY WordsAreTrimmed
<1> HIDE DEF call, request, auction
<1>4. BearerOK(cfg, call)
  <2> SUFFICES ASSUME cfg.requireAuth PROVE Trim(call.auth) = Prefixed(cfg.token)
    BY <1>1 DEF BearerOK
  <2>1. Unprefixed(cfg.token) = cfg.token
    BY <1>1, Zenon DEF PlainToken, Unprefixed, HasPrefix
  <2>2. call.auth = Prefixed(cfg.token)
    BY <1>1, <1>2, <2>1
  <2>3. Prefixed(cfg.token).pad = FALSE
    BY <1>1 DEF PlainToken, Prefixed
  <2>4. Prefixed(cfg.token) = [words |-> Prefixed(cfg.token).words, pad |-> Prefixed(cfg.token).pad]
    BY DEF Prefixed
  <2> QED
    BY <2>2, <2>3, <2>4 DEF Trim
<1>5. ASSUME cfg.requireSignature PROVE SignatureOK(cfg, call, e, 0)
  <2>1. /\ call.request = request /\ call.auction = auction
        /\ call.sig = BuyerSigned(cfg.secret, 0, auction, request, e.content)
        /\ cfg.secret # Empty
    BY <1>1, <1>2, <1>5
  <2>2. /\ call.sig.scheme = "buyer" /\ call.sig.time = 0 /\ call.sig.hash = e.content
        /\ call.sig.mac = <<cfg.secret, 0, auction, request, e.content>>
    BY <2>1 DEF BuyerSigned
  <2>3. cfg.skew \in Nat
    <3>1. cfg.skew = Skew(situation.setting)
      BY DEF LoadedInv, CarefulRun, Load
    <3> QED
      BY <3>1, CertificationAssumption DEF LoadedInv, CarefulRun
  <2>4. Fresh(cfg, call.sig, 0)
    BY <2>2, <2>3 DEF Fresh
  <2>5. Empty \notin {Trim(call.auction), Trim(call.request)}
    BY <2>1, <1>3
  <2>6. call.sig.mac =
          <<cfg.secret, call.sig.time, Trim(call.auction), Trim(call.request), e.content>>
    BY <2>1, <2>2, <1>3
  <2> QED
    BY <2>1, <2>2, <2>4, <2>5, <2>6 DEF SignatureOK
<1> QED
  BY <1>4, <1>5 DEF Authorized, call

(* What is admitted: every body that decodes. *)
LEMMA CarefulAdmitted ==
  ASSUME LoadedInv, CarefulRun,
         NEW b, WrittenBody(b), b.parses, ValidBody(Normal(b))
  PROVE  Outcome(cfg, CertifyCall(tool, EnvelopeOf(b), 0), EnvelopeOf(b), 0) = "admitted"
<1> DEFINE e == EnvelopeOf(b)
           call == CertifyCall(tool, e, 0)
           version == CertifiedVersion(tool)
<1>1. ~Blank(b.id)
  BY ValidNormal
<1>2. /\ e.id = Word(b.id) /\ e.tid = Empty
      /\ e.sound = Decodes(b, version, cfg.accepted)
      /\ e.hints.rootHints = b.rootHints /\ e.hints.extHints = b.extHints
  BY <1>1 DEF EnvelopeOf
<1>3. /\ call.version = version
      /\ call.buyer = tool.buyer /\ call.seat = tool.seat
      /\ call.request \in {Empty, e.id} /\ call.auction \in {Empty, e.id}
  BY <1>2, WordsAreTrimmed DEF CertifyCall
<1>4. Authorized(cfg, call, e, 0)
  BY CarefulAuthorized
<1>5. /\ Classify(version) \in cfg.accepted
      /\ tool.buyer \in {"", cfg.buyer} /\ tool.seat \in {"", cfg.seat}
  BY Zenon DEF CarefulRun, ToolFits
<1>6. cfg.accepted = Accepted(situation.setting)
  BY DEF LoadedInv, CarefulRun, Load
<1>7. ~Blank(Classify(version))
  BY <1>5, <1>6, AcceptedIsKnown
<1> HIDE DEF e, call, version
<1>8. Detected(version, b) \in cfg.accepted /\ cfg.accepted # {}
  BY <1>5, <1>7, AnnouncedVersion
<1>9. Detected(version, e.hints) = Detected(version, b)
  BY <1>2, Zenon DEF Detected
<1>10. VersionAccepted(cfg.accepted, call.version, e.hints) /\ VersionAccepted(cfg.accepted, version, b)
  BY <1>3, <1>8, <1>9 DEF VersionAccepted
<1>11. e.sound
  BY <1>2, <1>10 DEF Decodes
<1>12. HeadersMatch(cfg, call, e)
  <2>1. AuctionId(e) = e.id
    BY <1>2, WordsAreTrimmed DEF AuctionId
  <2>2. Trim(call.request) \in {Empty, e.id} /\ Trim(call.auction) \in {Empty, e.id}
    BY <1>2, <1>3, WordsAreTrimmed
  <2> QED
    BY <1>3, <1>5, <2>1, <2>2, Zenon DEF HeadersMatch
<1> QED
  BY <1>4, <1>10, <1>11, <1>12, Zenon DEF Outcome, e, call


(* The answers of a bidder that is served at its endpoint. *)
LEMMA CarefulAnswers ==
  ASSUME CarefulRun, NEW b, NEW a \in Answers(b)
  PROVE  LET out  == Outcome(cfg, CertifyCall(tool, EnvelopeOf(b), 0), EnvelopeOf(b), 0)
             best == BestPairs(Decoded(b), cfg.campaigns)
         IN  /\ out = "malformed" => a.status = 400
             /\ out = "admitted" /\ best = {} => a.status = 204
             /\ out = "admitted" /\ best # {} =>
                  \E p \in best :
                    /\ a.status = 200 /\ a.json
                    /\ a.detail =
                         Detail(Decoded(b), ResponseFor(cfg, Decoded(b), Candidate(Decoded(b), p[1], p[2])))
<1>1. cfg # None /\ Route(CertifiedEndpoint(situation.setting.env).path) = "openrtb"
  BY Zenon DEF CarefulRun, ToolFits
<1>2. a \in BidderAnswers(b)
  BY <1>1, Zenon DEF Answers
<1> DEFINE out == Outcome(cfg, CertifyCall(tool, EnvelopeOf(b), 0), EnvelopeOf(b), 0)
           view == Decoded(b)
           best == BestPairs(view, cfg.campaigns)
           says(p) == Detail(view, ResponseFor(cfg, view, Candidate(view, p[1], p[2])))
           answered == CASE out = "unauthorized" -> {Rejected(401)}
                         [] out \in {"malformed", "clearledger_header_mismatch"} -> {Rejected(400)}
                         [] out = "admitted" ->
                              IF best = {} THEN {NoContent}
                              ELSE {[status |-> 200, json |-> TRUE, detail |-> says(p)] : p \in best}
<1>3. a \in answered
  BY <1>1, <1>2, Zenon DEF BidderAnswers
<1> HIDE DEF out, view, best, says
<1>4. Rejected(400).status = 400 /\ NoContent.status = 204
  BY DEF Rejected, NoContent
<1>5. out = "malformed" => a = Rejected(400)
  BY <1>3
<1>6. out = "admitted" /\ best = {} => a = NoContent
  BY <1>3
<1>7. ASSUME out = "admitted", best # {}
      PROVE  \E p \in best : a = [status |-> 200, json |-> TRUE, detail |-> says(p)]
  BY <1>3, <1>7
<1>8. ASSUME out = "admitted", best # {}
      PROVE  \E p \in best : a.status = 200 /\ a.json /\ a.detail = says(p)
  BY <1>7, <1>8
<1> QED
  BY <1>4, <1>5, <1>6, <1>8 DEF out, view, best, says

Fine(a) == a.status = 200 /\ a.json /\ a.detail = ""

(* A sample is answered with a bid the validator passes. *)
LEMMA CarefulSampleAnswered ==
  ASSUME LoadedInv, CarefulRun, NEW b, WrittenBody(b), BidsCarefully(b), NEW a \in Answers(b)
  PROVE  Fine(a)
<1> DEFINE view == Decoded(b)
           best == BestPairs(view, cfg.campaigns)
<1>1. b.parses /\ ValidBody(Normal(b))
  BY Zenon DEF BidsCarefully, Decodes
<1>2. best # {} /\ \A p \in best : Careful(cfg, Candidate(view, p[1], p[2]))
  BY Zenon DEF BidsCarefully
<1>3. PICK p \in best :
        /\ a.status = 200 /\ a.json
        /\ a.detail = Detail(view, ResponseFor(cfg, view, Candidate(view, p[1], p[2])))
  BY <1>1, <1>2, CarefulAdmitted, CarefulAnswers
<1>4. RequestAdmitted(view)
  BY <1>1, DecodedIsAdmitted
<1> HIDE DEF view
<1>5. /\ p[1] \in ToSet(view.imps) /\ p[2] \in ToSet(cfg.campaigns)
      /\ Eligible(view, p[1], p[2])
  BY DEF BestPairs, EligiblePairs
<1>6. CampaignAdmitted(p[2]) /\ EngineAdmitted(cfg)
  <2>1. ~Blank(cfg.buyer)
    <3>1. cfg.buyer = Stated(situation.setting.env.buyer, situation.setting.file.buyer, DefaultBuyer)
      BY DEF LoadedInv, CarefulRun, Load
    <3>2. ~Blank(DefaultBuyer)
      BY ConfigAssumption, Zenon DEF Blank
    <3> QED
      BY <3>1, <3>2, StatedIsNotBlank
  <2> QED
    BY <1>5, <2>1, LoadedAreAdmitted DEF ToSet, LoadedCampaignsAdmitted, CarefulRun, EngineAdmitted
<1>7. PICK imp, c : imp = p[1] /\ c = p[2]
  OBVIOUS
<1> DEFINE cand == Candidate(view, imp, c)
<1>8. ValidBid(imp, BidFor(cfg, cand))
  BY <1>2, <1>4, <1>5, <1>6, <1>7, CarefulBid DEF RequestImp
<1>9. cand.imp = imp /\ cand.campaign = c /\ ~Blank(c.seat)
  BY <1>6, <1>7 DEF Candidate, CampaignAdmitted
<1>10. view.cur # {} => Currency \in view.cur
  BY <1>5, Zenon DEF Eligible, CurrencyAccepted
<1> HIDE DEF cand
<1>11. ValidateBidResponse(view, ResponseFor(cfg, view, cand))
  BY <1>5, <1>7, <1>8, <1>9, <1>10, ResponsePasses
<1>12. Detail(view, ResponseFor(cfg, view, cand)) = ""
  BY <1>11, Zenon DEF Detail
<1>13. a.detail = Detail(view, ResponseFor(cfg, view, cand))
  BY <1>3, <1>7, Zenon DEF cand
<1> QED
  BY <1>3, <1>12, <1>13, Zenon DEF Fine

(* The no-bid probe: the floor of the only impression is above every price. *)
LEMMA CarefulProbeAnswered ==
  ASSUME LoadedInv, CarefulRun,
         NEW b, WrittenBody(b), b.parses, ValidBody(Normal(b)), Len(b.imps) = 1,
         NEW a \in Answers(WithFloor(b))
  PROVE  a.status = 204
<1> DEFINE w == WithFloor(b)
           imp == b.imps[1]
           raised == [imp EXCEPT !.floor = ProbeFloor]
<1>1. DOMAIN b = BodyFields /\ b.imps \in Seq(ToSet(b.imps)) /\ DOMAIN b.imps = {1}
  <2>1. DOMAIN b = BodyFields /\ b.imps \in Seq(ToSet(b.imps))
    BY DEF WrittenBody
  <2>2. DOMAIN b.imps = 1 .. 1
    BY <2>1, LenProperties
  <2> QED
    BY <2>1, <2>2
<1>2. /\ DOMAIN w = BodyFields
      /\ w.imps = [b.imps EXCEPT ![1] = raised]
      /\ \A k \in BodyFields \ {"imps"} : w[k] = b[k]
  <2>1. b.imps # <<>>
    BY ValidNormal
  <2>2. w = [b EXCEPT !.imps[1].floor = ProbeFloor]
    BY <2>1, Zenon DEF WithFloor
  <2>3. w = [b EXCEPT !.imps = [b.imps EXCEPT ![1] = raised]]
    BY <2>2
  <2> HIDE DEF w, raised
  <2> QED
    BY <1>1, <2>3 DEF BodyFields
<1>3. WrittenImp(imp) /\ WrittenImp(raised) /\ raised.floor = ProbeFloor
      /\ \A k \in ImpFields \ {"floor"} : raised[k] = imp[k]
  <2>1. WrittenImp(imp)
    BY <1>1 DEF WrittenBody
  <2>2. /\ DOMAIN raised = ImpFields /\ raised.floor = ProbeFloor
        /\ \A k \in ImpFields \ {"floor"} : raised[k] = imp[k]
    BY <2>1 DEF WrittenImp, ImpFields
  <2>3. ProbeFloor \in Int
    BY CertificationAssumption
  <2>4. /\ raised.objects = imp.objects /\ raised.placement = imp.placement
        /\ raised.plcmt = imp.plcmt /\ raised.extFloors = imp.extFloors
        /\ raised.extCurs = imp.extCurs /\ raised.pmp = imp.pmp /\ raised.native = imp.native
    BY <2>2 DEF ImpFields
  <2> HIDE DEF imp, raised
  <2> QED
    BY <2>1, <2>2, <2>3, <2>4 DEF WrittenImp
<1> HIDE DEF raised, w
<1>4. DOMAIN w.imps = {1} /\ w.imps[1] = raised
  BY <1>1, <1>2
<1>5. WrittenBody(w)
  <2>1. w.imps \in Seq(ToSet(w.imps))
    <3>1. w.imps \in [1 .. 1 -> {raised}]
      BY <1>1, <1>2
    <3> QED
      BY <3>1, SeqOverRange
  <2>2. w.rootHints = b.rootHints /\ w.extHints = b.extHints
    BY <1>2 DEF BodyFields
  <2> QED
    BY <1>2, <1>3, <1>4, <2>1, <2>2 DEF WrittenBody
<1>6. w.id = b.id /\ w.tmax = b.tmax /\ w.supplies = b.supplies /\ w.parses = b.parses
  BY <1>2 DEF BodyFields
<1> DEFINE read == NormalImp(raised)
<1>7. /\ ValidImp(read) /\ read.floor = ProbeFloor
  <2> DEFINE was == NormalImp(imp)
  <2>1. /\ raised.floorCur = imp.floorCur /\ raised.extCurs = imp.extCurs
        /\ raised.native = imp.native /\ raised.placement = imp.placement
        /\ raised.plcmt = imp.plcmt
    BY <1>3 DEF ImpFields
  <2>2. NormalCur(raised) = NormalCur(imp)
    BY <2>1 DEF NormalCur
  <2>3. NormalFloor(raised) = ProbeFloor /\ ProbeFloor \in Nat
    BY <1>3, CertificationAssumption DEF NormalFloor
  <2>4. /\ WrittenImp(was) /\ was.floorCur = NormalCur(imp)
        /\ was.native = NormalNative(imp.native)
        /\ was.placement = EitherOf(imp.placement, imp.plcmt)
        /\ was.plcmt = EitherOf(imp.plcmt, imp.placement)
        /\ \A k \in ImpFields \ {"floor", "floorCur", "native", "placement", "plcmt"} :
             was[k] = imp[k]
    BY <1>3, NormalImpFields
  <2>5. /\ read.floor = ProbeFloor /\ read.floorCur = NormalCur(imp)
        /\ read.native = NormalNative(imp.native)
        /\ read.placement = EitherOf(imp.placement, imp.plcmt)
        /\ read.plcmt = EitherOf(imp.plcmt, imp.placement)
        /\ \A k \in ImpFields \ {"floor", "floorCur", "native", "placement", "plcmt"} :
             read[k] = raised[k]
    BY <1>3, <2>1, <2>2, <2>3, NormalImpFields
  <2>6. ValidImp(was)
    BY <1>1, ValidNormal
  <2> HIDE DEF was, read, imp
  <2>7. \A k \in ImpFields \ {"floor", "media"} : read[k] = was[k]
    <3> TAKE k \in ImpFields \ {"floor", "media"}
    <3>1. CASE k \in {"floorCur", "native", "placement", "plcmt"}
      BY <3>1, <2>4, <2>5
    <3>2. CASE k \notin {"floorCur", "native", "placement", "plcmt"}
      BY <3>2, <1>3, <2>4, <2>5
    <3> QED
      BY <3>1, <3>2
  <2> QED
    BY <2>3, <2>4, <2>5, <2>6, <2>7, ValidUpToFloor
<1>8. ValidBody(Normal(w))
  <2>1. w.imps # <<>>
    BY <1>4
  <2>2. ~Blank(b.id) /\ b.tmax >= 0 /\ Cardinality(b.supplies) = 1
    BY ValidNormal
  <2>3. \A i, j \in DOMAIN w.imps : w.imps[i].id = w.imps[j].id => i = j
    BY <1>4
  <2>4. \A i \in DOMAIN w.imps : ValidImp(NormalImp(w.imps[i]))
    BY <1>4, <1>7
  <2> HIDE DEF read
  <2> QED
    BY <1>5, <1>6, <2>1, <2>2, <2>3, <2>4, ValidNormal
<1> DEFINE view == Decoded(w)
<1>9. \A i \in ToSet(view.imps) : i.floor = ProbeFloor
  <2>1. view.imps = [i \in DOMAIN w.imps |-> Typed(NormalImp(w.imps[i]))]
    BY <1>5, DecodedFields
  <2>2. ToSet(view.imps) = {Typed(read)}
    <3> HIDE DEF view, read
    <3>1. DOMAIN view.imps = {1} /\ view.imps[1] = Typed(read)
      BY <1>4, <2>1 DEF read
    <3> QED
      BY <3>1 DEF ToSet
  <2>3. Typed(read).floor = read.floor
    BY <1>4, <1>5, NormalImpOfBody DEF ImpFields
  <2> QED
    BY <1>7, <2>2, <2>3
<1> HIDE DEF view
<1>10. BestPairs(view, cfg.campaigns) = {}
  <2> SUFFICES ASSUME NEW i \in ToSet(view.imps), NEW c \in ToSet(cfg.campaigns),
                      Eligible(view, i, c)
               PROVE  FALSE
    BY DEF BestPairs, EligiblePairs
  <2>1. c.price >= i.floor
    BY Zenon DEF Eligible, MeetsFloor
  <2>2. c.price < ProbeFloor
    BY DEF CarefulRun, ToSet
  <2>3. c.price \in Nat
    BY LoadedAreAdmitted DEF ToSet, LoadedCampaignsAdmitted, CarefulRun, CampaignAdmitted
  <2> QED
    BY <1>9, <2>1, <2>2, <2>3, CertificationAssumption
<1>11. Outcome(cfg, CertifyCall(tool, EnvelopeOf(w), 0), EnvelopeOf(w), 0) = "admitted"
  BY <1>5, <1>6, <1>8, CarefulAdmitted
<1> QED
  BY <1>10, <1>11, CarefulAnswers DEF view, w

(* The malformed body decodes for nobody. *)
LEMMA BadBodyAnswered ==
  ASSUME LoadedInv, CarefulRun, NEW a \in Answers(BadBody)
  PROVE  a.status = 400
<1> DEFINE e == EnvelopeOf(BadBody)
<1>1. Normal(BadBody).imps = <<>>
  BY DEF Normal, BadBody
<1>2. ~Decodes(BadBody, CertifiedVersion(tool), cfg.accepted)
  BY <1>1, Zenon DEF Decodes, ValidBody
<1>3. ~e.sound
  BY <1>2 DEF EnvelopeOf
<1>4. Authorized(cfg, CertifyCall(tool, e, 0), e, 0)
  BY CarefulAuthorized
<1> HIDE DEF e
<1>5. Outcome(cfg, CertifyCall(tool, e, 0), e, 0) = "malformed"
  BY <1>3, <1>4, Zenon DEF Outcome
<1> QED
  BY <1>5, CarefulAnswers DEF e


-----------------------------------------------------------------------------
(* A run with those premises is good so far, and what it posts next is     *)
(* what the bidder can answer.                                             *)
OnItsWay ==
  CarefulRun =>
    /\ report.ok
    /\ pc = "post" => sample = files[Paths[next]]
    /\ pc = "no_bid" => sample = WithFloor(files[Paths[1]])
    /\ pc = "malformed" => sample = BadBody

(* One more passed check leaves a good report good. *)
LEMMA GoodCheck ==
  ASSUME NEW r \in Reports, r.ok, NEW name \in CheckNames, NEW good \in BOOLEAN, good
  PROVE  LET s == Add(r, Check(name, good)) IN s \in Reports /\ s.ok
<1> DEFINE c == Check(name, good)
<1>1. c \in Checks /\ c.ok
  BY DEF Check, Checks
<1> HIDE DEF c
<1> QED
  BY <1>1, AddReport DEF c

LEMMA GoodJudgement ==
  ASSUME NEW r \in Reports, r.ok, NEW label, NEW a, Fine(a)
  PROVE  Judged(r, label, a).ok
<1> DEFINE http == Add(r, Check("valid_bid_http", a.status = 200))
           json == Add(http, Check("valid_bid_json", TRUE))
           contract == Add(json, Check("valid_bid_contract", a.detail = ""))
<1>1. a.status = 200 /\ a.json /\ a.detail = ""
  BY Zenon DEF Fine
<1>2. {"valid_bid_http", "valid_bid_json", "valid_bid_contract"} \subseteq CheckNames
  BY DEF CheckNames
<1>3. http \in Reports /\ http.ok
  BY <1>1, <1>2, GoodCheck
<1> HIDE DEF http
<1>4. json \in Reports /\ json.ok
  BY <1>2, <1>3, GoodCheck
<1> HIDE DEF json
<1>5. contract \in Reports /\ contract.ok
  BY <1>1, <1>2, <1>4, GoodCheck
<1>6. Judged(r, label, a) = [contract EXCEPT !.supported = @ \cup {label}]
  <2>1. a.status = 200
    BY <1>1, Zenon
  <2>2. a.status # 0
    BY <2>1
  <2> QED
    BY <1>1, <2>2, Zenon DEF Judged, http, json, contract
<1> HIDE DEF contract
<1> QED
  BY <1>5, <1>6 DEF Reports

LEMMA SameRun ==
  ASSUME UNCHANGED <<situation, tool, cfg, files, changed>>, lost => lost'
  PROVE  CarefulRun' => CarefulRun
BY Zenon DEF CarefulRun, BidsCarefully, ToolFits

LEMMA CarefulFiles ==
  ASSUME CertifyInv, CarefulRun, NEW i \in 1 .. Len(Paths)
  PROVE  LET b == files[Paths[i]] IN
         /\ b # Missing /\ WrittenBody(b) /\ BidsCarefully(b)
         /\ b.parses /\ ValidBody(Normal(b)) /\ Decodes(b, "", DefaultAccepted)
<1> DEFINE b == files[Paths[i]]
<1>1. b \in Samples /\ BidsCarefully(b)
  BY PathsFact DEF CertifyInv, Held, CarefulRun
<1> HIDE DEF b
<1>2. b # Missing /\ Decodes(b, "", DefaultAccepted)
  BY <1>1, Zenon DEF BidsCarefully
<1>3. b.parses /\ ValidBody(Normal(b))
  BY <1>2, Zenon DEF Decodes
<1>4. WrittenBody(b)
  BY <1>1, <1>2, CertificationAssumption
<1> QED
  BY <1>1, <1>2, <1>3, <1>4, Zenon DEF b

LEMMA OnItsWayStep ==
  LoadedInv /\ CertifyInv /\ OnItsWay /\ [CertifyNext]_certifyVars => OnItsWay'
<1> SUFFICES ASSUME LoadedInv, CertifyInv, OnItsWay, [CertifyNext]_certifyVars, CarefulRun'
             PROVE  /\ report'.ok
                    /\ pc' = "post" => sample' = files'[Paths[next']]
                    /\ pc' = "no_bid" => sample' = WithFloor(files'[Paths[1]])
                    /\ pc' = "malformed" => sample' = BadBody
  BY DEF OnItsWay
<1>1. ~Change
  BY DEF Change, CarefulRun
<1>2. UNCHANGED <<situation, tool, cfg, files, changed>>
  BY <1>1, Zenon DEF CertifyNext, certifyVars, ProbeReady, ReadSample, PostSample, ReadAgain,
     ProbeNoBid, ProbeMalformed
<1>l. ~lost' /\ (lost => lost')
  <2>1. ~lost'
    BY DEF CarefulRun
  <2>2. lost => lost'
    BY <1>1, Zenon DEF CertifyNext, certifyVars, ProbeReady, ReadSample, PostSample, ReadAgain,
       ProbeNoBid, ProbeMalformed
  <2> QED
    BY <2>1, <2>2
<1>3. /\ CarefulRun /\ report.ok /\ report \in Reports
      /\ pc = "post" => sample = files[Paths[next]]
      /\ pc = "no_bid" => sample = WithFloor(files[Paths[1]])
      /\ pc = "malformed" => sample = BadBody
  BY <1>2, <1>l, SameRun DEF OnItsWay, CertifyInv
<1>f. /\ files[Paths[1]] # Missing /\ WrittenBody(files[Paths[1]])
      /\ files[Paths[1]].parses /\ ValidBody(Normal(files[Paths[1]]))
  <2>1. 1 \in 1 .. Len(Paths)
    BY PathsFact
  <2> QED
    BY <1>3, <2>1, CarefulFiles, Zenon
<1>4. CASE UNCHANGED certifyVars
  BY <1>3, <1>4 DEF certifyVars
<1>5. CASE ProbeReady
  <2>1. PICK status \in {0, 200} :
          report' = Add(report, Check("readyz", status = 200)) /\ lost' = (lost \/ status = 0)
    BY <1>3, <1>5 DEF ProbeReady, CarefulRun
  <2>4. status = 200
    BY <1>l, <2>1
  <2>2. "readyz" \in CheckNames
    BY DEF CheckNames
  <2>3. report'.ok
    BY <1>3, <2>1, <2>2, <2>4, GoodCheck
  <2> QED
    BY <1>5, <2>3 DEF ProbeReady
<1>6. CASE ReadSample
  <2>1. next \in 1 .. Len(Paths)
    <3>1. next <= Len(Paths)
      BY <1>6, Zenon DEF ReadSample
    <3>2. next \in 1 .. Len(Paths) + 1
      BY DEF CertifyInv, Place
    <3> QED
      BY <3>1, <3>2, PathsFact
  <2>2. files[Paths[next]] # Missing /\ Decodes(files[Paths[next]], "", DefaultAccepted)
    BY <1>3, <2>1, CarefulFiles, Zenon
  <2>3. /\ report' = Add(Add(report, Check("readable", TRUE)), Check("request_valid", TRUE))
        /\ pc' = "post" /\ sample' = files[Paths[next]] /\ next' = next
    BY <1>6, <2>2, Zenon DEF ReadSample
  <2>4. "readable" \in CheckNames /\ "request_valid" \in CheckNames
    BY DEF CheckNames
  <2>5. report'.ok
    <3> DEFINE first == Add(report, Check("readable", TRUE))
    <3>1. first \in Reports /\ first.ok
      BY <1>3, <2>4, GoodCheck
    <3> HIDE DEF first
    <3> QED
      BY <2>3, <2>4, <3>1, GoodCheck DEF first
  <2> QED
    BY <1>2, <2>3, <2>5
<1>7. CASE PostSample
  <2>1. /\ pc = "post" /\ pc' = "sample"
        /\ \E a \in Answers(sample) : \E got \in Received(a) :
             report' = Judged(report, Paths[next], got) /\ lost' = (lost \/ got # a)
    BY <1>7, Zenon DEF PostSample
  <2>2. PICK a \in Answers(sample) : report' = Judged(report, Paths[next], a)
    BY <2>1, <1>l, Zenon
  <2>3. next \in 1 .. Len(Paths)
    BY <2>1, PathsFact DEF CertifyInv, Place
  <2>4. WrittenBody(sample) /\ BidsCarefully(sample)
    BY <1>3, <2>1, <2>3, CarefulFiles
  <2>5. Fine(a)
    BY <1>3, <2>2, <2>4, CarefulSampleAnswered
  <2> QED
    BY <1>3, <2>1, <2>2, <2>5, GoodJudgement
<1>8. CASE ReadAgain
  BY <1>2, <1>3, <1>8, <1>f DEF ReadAgain
<1>9. CASE ProbeNoBid
  <2>1. PICK a \in Answers(sample) : report' = Add(report, Check("clean_no_bid", a.status = 204))
    BY <1>9, <1>l, Zenon DEF ProbeNoBid
  <2>2. sample = WithFloor(files[Paths[1]])
    BY <1>3, <1>9 DEF ProbeNoBid
  <2>4. Len(files[Paths[1]].imps) = 1
    BY <1>3 DEF CarefulRun
  <2>5. a.status = 204
    BY <1>3, <1>f, <2>1, <2>2, <2>4, CarefulProbeAnswered
  <2>6. "clean_no_bid" \in CheckNames
    BY DEF CheckNames
  <2>7. report'.ok
    BY <1>3, <2>1, <2>5, <2>6, GoodCheck
  <2> QED
    BY <1>9, <2>7 DEF ProbeNoBid
<1>10. CASE ProbeMalformed
  <2>1. PICK a \in Answers(sample) :
          report' = Add(report, Check("malformed_rejected", a.status = 400))
    <3>1. PICK a \in Answers(sample) : \E got \in Received(a) :
            /\ report' = Add(report, Check("malformed_rejected", got.status = 400))
            /\ lost' = (lost \/ got # a)
      BY <1>10 DEF ProbeMalformed
    <3>2. PICK got \in Received(a) :
            /\ report' = Add(report, Check("malformed_rejected", got.status = 400))
            /\ lost' = (lost \/ got # a)
      BY <3>1
    <3>3. got = a
      BY <1>l, <3>2
    <3>4. report' = Add(report, Check("malformed_rejected", a.status = 400))
      BY <3>2, <3>3
    <3> QED
      BY <3>4
  <2>2. a.status = 400
    BY <1>3, <1>10, <2>1, BadBodyAnswered DEF ProbeMalformed
  <2>3. "malformed_rejected" \in CheckNames
    BY DEF CheckNames
  <2>4. report'.ok
    BY <1>3, <2>1, <2>2, <2>3, GoodCheck
  <2> QED
    BY <1>10, <2>4 DEF ProbeMalformed
<1> QED
  BY <1>1, <1>4, <1>5, <1>6, <1>7, <1>8, <1>9, <1>10, Zenon DEF CertifyNext

(***************************************************************************)
(* A bidder that deserves a good report gets one: for every setting, file  *)
(* list and set of options that meet the premises of CarefulBidderPasses   *)
(* (certify.Run, certify.go:80-196).                                       *)
(***************************************************************************)
THEOREM CarefulBidders == CertifySpec => []CarefulBidderPasses
<1>1. CertifyInit => OnItsWay
  BY DEF CertifyInit, OnItsWay, EmptyReport
<1>2. OnItsWay => CarefulBidderPasses
  BY Zenon DEF OnItsWay, CarefulRun, CarefulBidderPasses
<1> QED
  BY <1>1, <1>2, OnItsWayStep, LoadedInvHolds, CertifyInvHolds, PTL DEF CertifySpec

=============================================================================
