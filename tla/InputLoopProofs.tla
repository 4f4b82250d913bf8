--------------------------- MODULE InputLoopProofs ---------------------------
(***************************************************************************)
(* The keyboard, the G0 button and what the Mac is told of them, for every *)
(* set of keys, mapping tables and learning tokens and every length of the *)
(* times.                                                                  *)
(***************************************************************************)
EXTENDS InputLoop, SequenceTheorems, TLAPS

\* What an accepted table sends is a report.
TableSends == \A m \in table : m.output \in Output

(***************************************************************************)
(* The router: a report that is not neutral is of a key; there is neither  *)
(* while a shortcut is learned, and no report while G0 is held alone.      *)
(***************************************************************************)
ReportHasKey(r)  == r.report # Neutral => r.key # NoKey
QuietLearning(r) == r.learning # NoToken => r.key = NoKey /\ r.report = Neutral
QuietG0(r)       == r.g0 /\ ~r.chord => r.report = Neutral
Sound(r)         == r \in Router /\ ReportHasKey(r) /\ QuietLearning(r) /\ QuietG0(r)

\* The router's key is down, and the Mac knows the router's report or none.
KeyIsDown  == router.key # NoKey => router.key \in down
HostIsTold == host # Neutral => hidUp /\ host = router.report

(***************************************************************************)
(* G0: a press that has not stopped the microphone has not changed the     *)
(* intent; the guard is armed only when the recording is old enough.       *)
(***************************************************************************)
UnspentPress == sampled /\ ~stopped => acted = 0
ArmedIsOld   == guard.armed => young = StableRelease
SinceIsYoung == guard.tracking => guard.since <= young

IInv == /\ TypeOK /\ TableSends /\ Sound(router) /\ KeyIsDown /\ HostIsTold /\ EffectsFit
        /\ UnspentPress /\ OnePressOneChange /\ ArmedIsOld /\ SinceIsYoung

-----------------------------------------------------------------------------
(***************************************************************************)
(* A sequence of at most n effects of the given kinds whose reports, after *)
(* the report h, go to neutral before they go to a key, and end with g.    *)
(***************************************************************************)
Freed(s, h, i) ==
    \/ /\ h = Neutral
       /\ \A j \in Reports(s) : j < i => s[j].report = Neutral
    \/ \E k \in Reports(s) :
          /\ k < i /\ s[k].report = Neutral
          /\ \A j \in Reports(s) : k < j /\ j < i => s[j].report = Neutral

EndsWith(s, h, g) ==
    IF Reports(s) = {} THEN g = h
    ELSE \E i \in Reports(s) : s[i].report = g /\ \A j \in Reports(s) : j <= i

Orderly(s, n, kinds, h, g) ==
    /\ s \in Seq(Effects) /\ Len(s) <= n
    /\ \A i \in 1..Len(s) : s[i].kind \in kinds
    /\ \A i \in Reports(s) : s[i].report = Neutral \/ Freed(s, h, i)
    /\ EndsWith(s, h, g)

\* Nothing is asked for.
LEMMA NothingAsked ==
    ASSUME NEW h, NEW n \in Nat, NEW kinds
    PROVE  Orderly(<<>>, n, kinds, h, h)
BY EmptySeq DEF Orderly, Reports, EndsWith, Freed

LEMMA ReportTypes ==
    /\ Neutral \in Report
    /\ \A u \in Usage : Typed(u) \in Report /\ Typed(u) # Neutral
    /\ \A o \in Output : Sends(o) \in Report /\ Sends(o) # Neutral
BY DEF Report, Neutral, Typed, Sends

\* One report, of a key after neutral or neutral after anything.
LEMMA OneReport ==
    ASSUME NEW h, NEW g \in Report, h = Neutral \/ g = Neutral
    PROVE  Orderly(<<Hid(g)>>, 1, {"hid"}, h, g)
<1> DEFINE s == <<Hid(g)>>
<1>1. Hid(g) \in Effects /\ Hid(g).kind = "hid" /\ Hid(g).report = g
  BY DEF Hid, Effects
<1>2. s \in Seq(Effects) /\ Len(s) = 1 /\ DOMAIN s = {1} /\ s[1] = Hid(g)
  BY <1>1
<1> HIDE DEF s
<1>3. Reports(s) = {1}
  BY <1>1, <1>2 DEF Reports
<1>4. Freed(s, Neutral, 1)
  BY <1>3 DEF Freed
<1>5. EndsWith(s, h, g)
  BY <1>1, <1>2, <1>3 DEF EndsWith
<1>6. Orderly(s, 1, {"hid"}, h, g)
  BY <1>1, <1>2, <1>3, <1>4, <1>5 DEF Orderly
<1> QED BY <1>6 DEF s

\* One effect that is no report.
LEMMA OneEffect ==
    ASSUME NEW e \in Effects, e.kind # "hid", NEW h
    PROVE  Orderly(<<e>>, 1, {e.kind}, h, h)
<1> DEFINE s == <<e>>
<1>1. s \in Seq(Effects) /\ Len(s) = 1 /\ DOMAIN s = {1} /\ s[1] = e
  OBVIOUS
<1> HIDE DEF s
<1>2. Reports(s) = {}
  BY <1>1 DEF Reports
<1>3. Orderly(s, 1, {e.kind}, h, h)
  BY <1>1, <1>2 DEF Orderly, EndsWith
<1> QED BY <1>3 DEF s

\* What is asked for after what was asked for before.
LEMMA OneAfterAnother ==
    ASSUME NEW s, NEW t, NEW m \in Nat, NEW n \in Nat, NEW ks, NEW kt,
           NEW a, NEW b, NEW c,
           Orderly(s, m, ks, a, b), Orderly(t, n, kt, b, c)
    PROVE  Orderly(s \o t, m + n, ks \union kt, a, c)
<1> DEFINE r == s \o t
<1>1. s \in Seq(Effects) /\ t \in Seq(Effects) /\ Len(s) \in Nat /\ Len(t) \in Nat
  BY DEF Orderly
<1>2. /\ r \in Seq(Effects) /\ Len(r) = Len(s) + Len(t)
      /\ \A i \in 1..Len(s) + Len(t) : r[i] = IF i <= Len(s) THEN s[i] ELSE t[i - Len(s)]
  BY <1>1, ConcatProperties, Zenon
<1> HIDE DEF r
<1>3. /\ \A i \in 1..Len(s) : i \in 1..Len(r) /\ r[i] = s[i]
      /\ \A i \in 1..Len(t) : i + Len(s) \in 1..Len(r) /\ r[i + Len(s)] = t[i]
  <2>1. ASSUME NEW i \in 1..Len(t) PROVE i + Len(s) \in 1..Len(r) /\ r[i + Len(s)] = t[i]
    <3>1. i + Len(s) \in 1..Len(s) + Len(t) /\ ~(i + Len(s) <= Len(s))
      BY <1>1
    <3>2. (i + Len(s)) - Len(s) = i
      BY <1>1
    <3> QED BY <3>1, <3>2, <1>2
  <2> QED BY <1>1, <1>2, <2>1
<1>4. \A i \in 1..Len(r) : i \in 1..Len(s) \/ \E j \in 1..Len(t) : i = j + Len(s)
  <2>1. ASSUME NEW i \in 1..Len(r), i \notin 1..Len(s) PROVE i - Len(s) \in 1..Len(t) /\ i = (i - Len(s)) + Len(s)
    BY <1>1, <1>2, <2>1
  <2> QED BY <2>1
<1>5. /\ \A i \in Reports(s) : i \in Reports(r) /\ r[i].report = s[i].report /\ i <= Len(s) /\ i \in Nat
      /\ \A i \in Reports(t) : i + Len(s) \in Reports(r) /\ r[i + Len(s)].report = t[i].report /\ i \in Nat /\ i > 0
      /\ \A i \in Reports(r) : i \in Reports(s) \/ \E j \in Reports(t) : i = j + Len(s)
  <2>1. \A i \in Reports(s) : i \in Reports(r) /\ r[i].report = s[i].report /\ i <= Len(s) /\ i \in Nat
    BY <1>1, <1>2, <1>3 DEF Reports
  <2>2. ASSUME NEW i \in Reports(t)
        PROVE  i + Len(s) \in Reports(r) /\ r[i + Len(s)].report = t[i].report /\ i \in Nat /\ i > 0
    <3>1. i \in 1..Len(t) /\ t[i].kind = "hid"
      BY <1>1 DEF Reports
    <3>2. i + Len(s) \in 1..Len(r) /\ r[i + Len(s)] = t[i]
      BY <1>3, <3>1
    <3>3. i + Len(s) \in Reports(r)
      BY <1>2, <3>1, <3>2 DEF Reports
    <3>4. i \in Nat /\ i > 0
      BY <1>1, <3>1
    <3> QED BY <3>2, <3>3, <3>4
  <2>3. ASSUME NEW i \in Reports(r)
        PROVE  i \in Reports(s) \/ \E j \in Reports(t) : i = j + Len(s)
    <3>1. CASE i \in 1..Len(s)
      BY <1>1, <1>3, <3>1 DEF Reports
    <3>2. CASE i \notin 1..Len(s)
      <4>1. PICK j \in 1..Len(t) : i = j + Len(s)
        BY <1>2, <1>4, <3>2 DEF Reports
      <4>2. j \in Reports(t)
        BY <1>1, <1>3, <4>1 DEF Reports
      <4> QED BY <4>1, <4>2
    <3> QED BY <3>1, <3>2
  <2> QED BY <2>1, <2>2, <2>3
<1>6. \A i \in 1..Len(r) : r[i].kind \in ks \union kt
  BY <1>3, <1>4 DEF Orderly
<1>7. EndsWith(r, a, c)
  <2>1. CASE Reports(t) = {}
    <3>1. c = b /\ \A i \in Reports(r) : i \in Reports(s)
      BY <1>5, <2>1 DEF Orderly, EndsWith
    <3> QED BY <1>5, <3>1 DEF Orderly, EndsWith
  <2>2. CASE Reports(t) # {}
    <3>1. PICK i \in Reports(t) : t[i].report = c /\ \A j \in Reports(t) : j <= i
      BY <2>2 DEF Orderly, EndsWith
    <3>2. \A j \in Reports(r) : j <= i + Len(s)
      BY <1>1, <1>5, <3>1
    <3> QED BY <1>5, <3>1, <3>2 DEF EndsWith
  <2> QED BY <2>1, <2>2
<1>8. ASSUME NEW i \in Reports(s), Freed(s, a, i) PROVE Freed(r, a, i)
  <2>1. \A j \in Reports(r) : j < i => j \in Reports(s)
    BY <1>1, <1>5
  <2>2. CASE a = Neutral /\ \A j \in Reports(s) : j < i => s[j].report = Neutral
    BY <1>5, <2>1, <2>2 DEF Freed
  <2>3. CASE \E k \in Reports(s) :
                /\ k < i /\ s[k].report = Neutral
                /\ \A j \in Reports(s) : k < j /\ j < i => s[j].report = Neutral
    BY <1>5, <2>1, <2>3 DEF Freed
  <2> QED BY <1>8, <2>2, <2>3 DEF Freed
<1>9. ASSUME NEW i \in Reports(t), Freed(t, b, i) PROVE Freed(r, a, i + Len(s))
  <2>1. CASE \E k \in Reports(t) :
                /\ k < i /\ t[k].report = Neutral
                /\ \A j \in Reports(t) : k < j /\ j < i => t[j].report = Neutral
    <3>1. PICK k \in Reports(t) :
                /\ k < i /\ t[k].report = Neutral
                /\ \A j \in Reports(t) : k < j /\ j < i => t[j].report = Neutral
      BY <2>1
    <3>2. ASSUME NEW j \in Reports(r), k + Len(s) < j, j < i + Len(s)
          PROVE  r[j].report = Neutral
      <4>1. PICK w \in Reports(t) : j = w + Len(s)
        BY <1>1, <1>5, <3>2
      <4>2. k < w /\ w < i
        BY <1>1, <1>5, <3>2, <4>1
      <4> QED BY <1>5, <3>1, <4>1, <4>2
    <3>3. k + Len(s) \in Reports(r) /\ k + Len(s) < i + Len(s) /\ r[k + Len(s)].report = Neutral
      BY <1>1, <1>5, <3>1
    <3> QED BY <3>2, <3>3 DEF Freed
  <2>2. CASE b = Neutral /\ \A j \in Reports(t) : j < i => t[j].report = Neutral
    <3>1. CASE Reports(s) = {}
      <4>1. a = Neutral
        BY <2>2, <3>1 DEF Orderly, EndsWith
      <4>2. ASSUME NEW j \in Reports(r), j < i + Len(s) PROVE r[j].report = Neutral
        <5>1. PICK w \in Reports(t) : j = w + Len(s)
          BY <1>5, <3>1, <4>2
        <5>2. w < i
          BY <1>1, <1>5, <4>2, <5>1
        <5> QED BY <1>5, <2>2, <5>1, <5>2
      <4> QED BY <4>1, <4>2 DEF Freed
    <3>2. CASE Reports(s) # {}
      <4>1. PICK k \in Reports(s) : s[k].report = Neutral /\ \A j \in Reports(s) : j <= k
        BY <2>2, <3>2 DEF Orderly, EndsWith
      <4>2. ASSUME NEW j \in Reports(r), k < j, j < i + Len(s)
            PROVE  r[j].report = Neutral
        <5>1. PICK w \in Reports(t) : j = w + Len(s)
          BY <1>1, <1>5, <4>1, <4>2
        <5>2. w < i
          BY <1>1, <1>5, <4>2, <5>1
        <5> QED BY <1>5, <2>2, <5>1, <5>2
      <4>3. k \in Reports(r) /\ k < i + Len(s) /\ r[k].report = Neutral
        BY <1>1, <1>5, <4>1
      <4> QED BY <4>2, <4>3 DEF Freed
    <3> QED BY <3>1, <3>2
  <2> QED BY <1>9, <2>1, <2>2 DEF Freed
<1>10. \A i \in Reports(r) : r[i].report = Neutral \/ Freed(r, a, i)
  <2>1. \A i \in Reports(s) : s[i].report = Neutral \/ Freed(s, a, i)
    BY DEF Orderly
  <2>2. \A i \in Reports(t) : t[i].report = Neutral \/ Freed(t, b, i)
    BY DEF Orderly
  <2> QED BY <2>1, <2>2, <1>5, <1>8, <1>9
<1>11. Len(r) <= m + n
  BY <1>1, <1>2 DEF Orderly
<1>12. Orderly(r, m + n, ks \union kt, a, c)
  BY <1>2, <1>6, <1>7, <1>10, <1>11 DEF Orderly
<1> QED BY <1>12 DEF r

\* An orderly sequence is orderly for a host that has no key.
LEMMA OrderlyAfterNeutral ==
    ASSUME NEW s, NEW n, NEW kinds, NEW h, NEW g, Orderly(s, n, kinds, h, g)
    PROVE  \A i \in Reports(s) : s[i].report = Neutral \/ Freed(s, Neutral, i)
BY DEF Orderly, Freed

\* It is what ReportsAlternate requires.
LEMMA OrderlyKeysApart ==
    ASSUME NEW h \in Report, NEW s \in Seq(Effects),
           \A i \in Reports(s) : s[i].report = Neutral \/ Freed(s, h, i)
    PROVE  KeysApart(<<Hid(h)>> \o s)
<1> DEFINE f == <<Hid(h)>>
           r == f \o s
<1>1. f \in Seq(Effects) /\ Len(f) = 1 /\ f[1] = Hid(h)
  BY DEF Hid, Effects
<1> HIDE DEF f
<1>2. /\ r \in Seq(Effects) /\ Len(r) = 1 + Len(s)
      /\ \A i \in 1..1 + Len(s) : r[i] = IF i <= 1 THEN f[i] ELSE s[i - 1]
  <2>1. /\ r \in Seq(Effects) /\ Len(r) = Len(f) + Len(s)
        /\ \A i \in 1..Len(f) + Len(s) : r[i] = IF i <= Len(f) THEN f[i] ELSE s[i - Len(f)]
    BY <1>1, ConcatProperties, Zenon
  <2> QED BY <1>1, <2>1
<1> HIDE DEF r
<1>3. r[1].report = h /\ \A i \in 1..Len(s) : r[i + 1] = s[i] /\ i + 1 \in 1..Len(r)
  BY <1>1, <1>2 DEF Hid
<1>4. \A i \in Reports(s) : i + 1 \in Reports(r) /\ r[i + 1].report = s[i].report /\ i \in Nat \ {0}
  BY <1>2, <1>3 DEF Reports
<1>5. \A i \in Reports(r) : i = 1 \/ \E j \in Reports(s) : i = j + 1
  <2>1. ASSUME NEW i \in Reports(r), i # 1 PROVE i - 1 \in Reports(s) /\ i = (i - 1) + 1
    BY <1>2, <2>1 DEF Reports
  <2> QED BY <2>1
<1>6. ASSUME NEW i \in Reports(r), NEW j \in Reports(r),
             r[i].report # Neutral, r[j].report # Neutral, i < j
      PROVE  \E k \in Reports(r) : i < k /\ k < j /\ r[k].report = Neutral
  <2>1. PICK v \in Reports(s) : j = v + 1
    BY <1>2, <1>5, <1>6 DEF Reports
  <2>2. Freed(s, h, v)
    BY <1>4, <1>6, <2>1
  <2>3. CASE i = 1
    <3>1. PICK k \in Reports(s) : k < v /\ s[k].report = Neutral
      BY <1>3, <1>6, <2>2, <2>3 DEF Freed
    <3> QED BY <1>4, <2>1, <2>3, <3>1
  <2>4. CASE i # 1
    <3>1. PICK u \in Reports(s) : i = u + 1
      BY <1>5, <2>4
    <3>2. u < v /\ s[u].report # Neutral
      BY <1>4, <1>6, <2>1, <3>1
    <3>3. PICK k \in Reports(s) :
              /\ k < v /\ s[k].report = Neutral
              /\ \A w \in Reports(s) : k < w /\ w < v => s[w].report = Neutral
      BY <2>2, <3>2 DEF Freed
    <3>4. u < k
      BY <1>4, <3>2, <3>3
    <3> QED BY <1>4, <2>1, <3>1, <3>3, <3>4
  <2> QED BY <2>3, <2>4
<1> QED BY <1>6 DEF KeysApart, r, f

\* A shorter sequence of fewer kinds will do.
LEMMA OrderlyWithin ==
    ASSUME NEW s, NEW m \in Nat, NEW n \in Nat, NEW few, NEW many, NEW h, NEW g,
           Orderly(s, m, few, h, g), m <= n, few \subseteq many
    PROVE  Orderly(s, n, many, h, g)
BY DEF Orderly

-----------------------------------------------------------------------------
(***************************************************************************)
(* What every operation of the router answers: a sound router, and effects *)
(* that are orderly from the report before to the report after.  While a   *)
(* shortcut is learned there is one effect at most, and no toggle.         *)
(***************************************************************************)
Answers(res, n, kinds, r) ==
    /\ Sound(res.router)
    /\ Orderly(res.effects, n, kinds, r.report, res.router.report)
    /\ r.learning # NoToken =>
          Orderly(res.effects, 1, kinds \ {"toggle"}, Neutral, Neutral)

\* The clocks start and restart within their types.
LEMMA TimesFit ==
    0 \in 0..ShortPress + 1 /\ 0 \in 0..LearnTimeout /\ LearnTimeout \in 0..LearnTimeout
BY RouterAssumption

\* What the parts of an answer change, and what they leave.
LEMMA RouterFields ==
    ASSUME NEW r, r \in Router
    PROVE  /\ Released(r) \in Router
           /\ Released(r).key = NoKey /\ Released(r).report = Neutral
           /\ Released(r).learning = r.learning
           /\ Released(r).g0 = r.g0 /\ Released(r).chord = r.chord
           /\ G0Forgotten(r) \in Router /\ ~G0Forgotten(r).g0
           /\ G0Forgotten(r).key = r.key /\ G0Forgotten(r).report = r.report
           /\ G0Forgotten(r).learning = r.learning
           /\ NotLearning(r) \in Router /\ NotLearning(r).learning = NoToken
           /\ NotLearning(r).key = r.key /\ NotLearning(r).report = r.report
           /\ r.report \in Report
<1>1. /\ Released(r) \in Router
      /\ Released(r).key = NoKey /\ Released(r).report = Neutral
      /\ Released(r).learning = r.learning
      /\ Released(r).g0 = r.g0 /\ Released(r).chord = r.chord
  BY ReportTypes DEF Released, Router
<1>2. /\ G0Forgotten(r) \in Router /\ ~G0Forgotten(r).g0
      /\ G0Forgotten(r).key = r.key /\ G0Forgotten(r).report = r.report
      /\ G0Forgotten(r).learning = r.learning
  BY TimesFit DEF G0Forgotten, Router
<1>3. /\ NotLearning(r) \in Router /\ NotLearning(r).learning = NoToken
      /\ NotLearning(r).key = r.key /\ NotLearning(r).report = r.report
  BY TimesFit DEF NotLearning, Router
<1> QED BY <1>1, <1>2, <1>3 DEF Released, Router

\* A release is neutral after whatever was reported.
LEMMA ReleaseIsOrderly ==
    ASSUME NEW r, r \in Router
    PROVE  /\ Orderly(ReleaseEffects(r), 1, {"hid"}, r.report, Neutral)
           /\ r.report = Neutral => ReleaseEffects(r) = <<>>
BY NothingAsked, OneReport, ReportTypes DEF ReleaseEffects

LEMMA EffectTypes ==
    /\ \A t \in Token : /\ Learned(t) \in Effects /\ Learned(t).kind = "learned"
                        /\ Cancelled(t) \in Effects /\ Cancelled(t).kind = "cancelled"
    /\ \A k \in {"feedback", "not_mapped", "toggle", "control_lost"} :
          Effect(k) \in Effects /\ Effect(k).kind = k
BY DEF Learned, Cancelled, Effect, Effects

\* A router that stays as it is and asks for nothing.
LEMMA NothingAnswered ==
    ASSUME NEW r, Sound(r), NEW n \in Nat, NEW kinds
    PROVE  Answers(Result(r, <<>>), n, kinds, r)
BY NothingAsked DEF Answers, Result

\* The end of a learning request, with an effect that is no report.
LEMMA Stopped ==
    ASSUME NEW r, Sound(r), NEW e \in Effects, e.kind \notin {"hid", "toggle"}
    PROVE  /\ Answers(StopLearning(r, e), 1, {e.kind}, r)
           /\ StopLearning(r, e).router.key = r.key
<1> DEFINE f == G0Forgotten(NotLearning(r))
<1>1. /\ f \in Router /\ f.key = r.key /\ f.report = r.report
      /\ ~f.g0 /\ f.learning = NoToken
  BY RouterFields DEF Sound
<1> HIDE DEF f
<1>2. StopLearning(r, e).router = f /\ StopLearning(r, e).effects = <<e>>
  BY DEF StopLearning, Result, f
<1>3. Orderly(<<e>>, 1, {e.kind}, r.report, r.report)
  BY OneEffect
<1>4. Orderly(<<e>>, 1, {e.kind} \ {"toggle"}, Neutral, Neutral)
  <2>1. {e.kind} \ {"toggle"} = {e.kind}
    OBVIOUS
  <2> QED BY <2>1, OneEffect
<1>5. Sound(f)
  BY <1>1 DEF Sound, ReportHasKey, QuietLearning, QuietG0
<1> QED BY <1>1, <1>2, <1>3, <1>4, <1>5 DEF Answers

LEMMA LearningAnswers ==
    ASSUME NEW r, Sound(r), NEW t \in Token
    PROVE  /\ Answers(BeginLearning(r, t), 1, {"hid"}, r)
           /\ BeginLearning(r, t).router.key = NoKey
           /\ Answers(CancelLearning(r, t), 1, {"cancelled"}, r)
           /\ CancelLearning(r, t).router.key = r.key
<1> DEFINE b == BeginLearning(r, t)
<1>1. /\ b.router \in Router /\ b.router.key = NoKey /\ b.router.report = Neutral
      /\ ~b.router.g0 /\ b.effects = ReleaseEffects(r)
  <2> DEFINE f == G0Forgotten(Released(r))
  <2>1. f \in Router /\ f.key = NoKey /\ f.report = Neutral /\ ~f.g0
    BY RouterFields DEF Sound
  <2> HIDE DEF f
  <2>2. /\ b.router = [f EXCEPT !.learning = t, !.left = LearnTimeout]
        /\ b.effects = ReleaseEffects(r)
    BY DEF BeginLearning, Result, f
  <2> QED BY <2>1, <2>2, TimesFit DEF Router
<1>2. Answers(b, 1, {"hid"}, r)
  BY <1>1, ReleaseIsOrderly, OrderlyWithin
     DEF Answers, Sound, ReportHasKey, QuietLearning, QuietG0
<1>3. ASSUME NEW k \in Token, r.learning = k
      PROVE  /\ Answers(StopLearning(r, Cancelled(k)), 1, {"cancelled"}, r)
             /\ StopLearning(r, Cancelled(k)).router.key = r.key
  BY <1>3, Stopped, EffectTypes
<1>4. Answers(Result(r, <<>>), 1, {"cancelled"}, r)
  BY NothingAnswered
<1>5. Result(r, <<>>).router = r
  BY DEF Result
<1>6. r.learning \in Token \union {NoToken}
  BY DEF Sound, Router
<1> QED BY <1>1, <1>2, <1>3, <1>4, <1>5, <1>6 DEF CancelLearning

LEMMA PollAnswers ==
    ASSUME NEW r, Sound(r)
    PROVE  /\ Answers(PollLearning(r), 1, {"cancelled"}, r)
           /\ PollLearning(r).router.key = r.key
<1>1. ASSUME r.learning # NoToken
      PROVE  /\ Answers(StopLearning(r, Cancelled(r.learning)), 1, {"cancelled"}, r)
             /\ StopLearning(r, Cancelled(r.learning)).router.key = r.key
  <2>1. r.learning \in Token
    BY <1>1 DEF Sound, Router
  <2> QED BY <2>1, Stopped, EffectTypes
<1>2. Answers(Result(r, <<>>), 1, {"cancelled"}, r)
  BY NothingAnswered
<1> QED BY <1>1, <1>2 DEF PollLearning, Result

\* A sound router that is released, and more.
LEMMA ReleasedAnswers ==
    ASSUME NEW r, Sound(r), NEW r2, Sound(r2), r2.report = Neutral
    PROVE  Answers(Result(r2, ReleaseEffects(r)), 1, {"hid"}, r)
<1>1. Orderly(ReleaseEffects(r), 1, {"hid"}, r.report, Neutral)
  BY ReleaseIsOrderly DEF Sound
<1>2. ASSUME r.learning # NoToken
      PROVE  Orderly(ReleaseEffects(r), 1, {"hid"} \ {"toggle"}, Neutral, Neutral)
  BY <1>2, <1>1, OrderlyWithin DEF Sound, QuietLearning
<1> QED BY <1>1, <1>2 DEF Answers, Result

LEMMA G0DownAnswers ==
    ASSUME NEW r, Sound(r)
    PROVE  /\ Answers(G0Down(r), 1, {"hid"}, r)
           /\ G0Down(r).router.key \in {NoKey, r.key}
<1> DEFINE f == Released(r)
           p == [f EXCEPT !.g0 = TRUE, !.chord = FALSE, !.held = 0]
<1>1. f \in Router /\ f.key = NoKey /\ f.report = Neutral
  BY RouterFields DEF Sound
<1> HIDE DEF f
<1>2. p \in Router /\ p.key = NoKey /\ p.report = Neutral
  BY <1>1, TimesFit DEF Router
<1>3. Sound(p)
  BY <1>2 DEF Sound, ReportHasKey, QuietLearning, QuietG0
<1> HIDE DEF p
<1>4. Answers(Result(p, ReleaseEffects(r)), 1, {"hid"}, r)
  BY <1>2, <1>3, ReleasedAnswers
<1>5. Answers(Result(r, <<>>), 1, {"hid"}, r)
  BY NothingAnswered
<1> QED BY <1>2, <1>4, <1>5 DEF G0Down, Result, p, f

LEMMA KeyUpAnswers ==
    ASSUME NEW r, Sound(r), NEW u \in Usage
    PROVE  /\ Answers(KeyUp(r, u), 1, {"hid"}, r)
           /\ KeyUp(r, u).router.key \in {NoKey, r.key} \ {u}
<1>1. Released(r).key = NoKey /\ Released(r).report = Neutral /\ Released(r) \in Router
  BY RouterFields DEF Sound
<1>2. Sound(Released(r))
  BY <1>1 DEF Sound, ReportHasKey, QuietLearning, QuietG0
<1>3. Answers(Result(Released(r), ReleaseEffects(r)), 1, {"hid"}, r)
  BY <1>1, <1>2, ReleasedAnswers
<1>4. Answers(Result(r, <<>>), 1, {"hid"}, r)
  BY NothingAnswered
<1> QED BY <1>1, <1>3, <1>4, RouterAssumption DEF KeyUp, Result, Sound, QuietLearning

LEMMA BleAnswers ==
    ASSUME NEW r, Sound(r)
    PROVE  /\ Answers(BleAuthenticated(r), 1, {"hid"}, r)
           /\ Answers(BleDisconnected(r), 2, {"hid", "control_lost"}, r)
           /\ BleAuthenticated(r).router.key = NoKey
           /\ BleDisconnected(r).router.key = NoKey
<1> DEFINE f == G0Forgotten(Released(r))
           d == G0Forgotten(NotLearning(Released(r)))
           e == Effect("control_lost")
<1>1. /\ f \in Router /\ f.key = NoKey /\ f.report = Neutral /\ ~f.g0
      /\ d \in Router /\ d.key = NoKey /\ d.report = Neutral /\ ~d.g0
  BY RouterFields DEF Sound
<1> HIDE DEF f, d
<1>2. Sound(f) /\ Sound(d)
  BY <1>1 DEF Sound, ReportHasKey, QuietLearning, QuietG0
<1>3. Orderly(<<Hid(Neutral)>>, 1, {"hid"}, r.report, Neutral)
  BY OneReport, ReportTypes
<1>4. Answers(BleAuthenticated(r), 1, {"hid"}, r)
  <2>1. Orderly(<<Hid(Neutral)>>, 1, {"hid"} \ {"toggle"}, Neutral, Neutral)
    <3>1. Orderly(<<Hid(Neutral)>>, 1, {"hid"}, Neutral, Neutral)
      BY OneReport, ReportTypes
    <3> QED BY <3>1, OrderlyWithin
  <2> QED BY <1>1, <1>2, <1>3, <2>1 DEF Answers, BleAuthenticated, Result, f
<1>5. e \in Effects /\ e.kind = "control_lost"
  BY EffectTypes
<1> HIDE DEF e
<1>6. Orderly(<<e>>, 1, {"control_lost"}, Neutral, Neutral)
  BY <1>5, OneEffect
<1>7. Orderly(ReleaseEffects(r) \o <<e>>, 1 + 1, {"hid"} \union {"control_lost"}, r.report, Neutral)
  BY <1>6, ReleaseIsOrderly, OneAfterAnother DEF Sound
<1>8. ASSUME r.learning # NoToken
      PROVE  Orderly(ReleaseEffects(r) \o <<e>>, 1, {"hid", "control_lost"} \ {"toggle"},
                     Neutral, Neutral)
  <2>1. r.report = Neutral /\ ReleaseEffects(r) = <<>>
    BY <1>8, ReleaseIsOrderly DEF Sound, QuietLearning
  <2>2. ReleaseEffects(r) \o <<e>> = <<e>>
    BY <2>1, <1>5
  <2> QED BY <1>6, <2>1, <2>2, OrderlyWithin
<1>9. 1 + 1 = 2 /\ {"hid"} \union {"control_lost"} = {"hid", "control_lost"}
  OBVIOUS
<1>10. /\ BleDisconnected(r).router = d
       /\ BleDisconnected(r).effects = ReleaseEffects(r) \o <<e>>
  BY DEF BleDisconnected, Result, d, e
<1>11. Answers(BleDisconnected(r), 2, {"hid", "control_lost"}, r)
  BY <1>1, <1>2, <1>7, <1>8, <1>9, <1>10 DEF Answers
<1> QED BY <1>1, <1>4, <1>10, <1>11 DEF BleAuthenticated, Result, f

\* What a mapping sends is an output.
LEMMA MappedSends ==
    ASSUME NEW tbl, \A m \in tbl : m.output \in Output, NEW g0, NEW u,
           Mapped(tbl, g0, u) # {}
    PROVE  (CHOOSE o \in Mapped(tbl, g0, u) : TRUE) \in Output
<1>1. Mapped(tbl, g0, u) \subseteq Output
  BY DEF Mapped
<1> QED BY <1>1

\* A key that is pressed: what was held is released, then its report, then more.
LEMMA PressedAnswers ==
    ASSUME NEW r, Sound(r), r.learning = NoToken, NEW u \in Usage,
           NEW g \in Report, g # Neutral,
           NEW more, NEW n \in Nat, NEW kinds, Orderly(more, n, kinds, g, g)
    PROVE  /\ Answers(Pressed(r, u, g, more), n + 2, {"hid"} \union kinds, r)
           /\ Pressed(r, u, g, more).router.key = u
<1> DEFINE p == [r EXCEPT !.key = u, !.report = g, !.chord = @ \/ r.g0]
           s == ReleaseEffects(r) \o <<Hid(g)>>
<1>1. p \in Router /\ p.key = u /\ p.report = g /\ p.learning = NoToken /\ (p.g0 => p.chord)
  BY DEF Sound, Router
<1>2. Sound(p)
  BY <1>1, RouterAssumption DEF Sound, ReportHasKey, QuietLearning, QuietG0
<1>3. Orderly(<<Hid(g)>>, 1, {"hid"}, Neutral, g)
  BY OneReport
<1>4. Orderly(s, 1 + 1, {"hid"} \union {"hid"}, r.report, g)
  BY <1>3, ReleaseIsOrderly, OneAfterAnother DEF Sound
<1> HIDE DEF s
<1>5. Orderly(s \o more, (1 + 1) + n, ({"hid"} \union {"hid"}) \union kinds, r.report, g)
  BY <1>4, OneAfterAnother
<1>6. (1 + 1) + n = n + 2 /\ ({"hid"} \union {"hid"}) \union kinds = {"hid"} \union kinds
  OBVIOUS
<1>7. Orderly(s \o more, n + 2, {"hid"} \union kinds, r.report, g)
  BY <1>5, <1>6
<1> HIDE DEF p
<1>8. Pressed(r, u, g, more).router = p /\ Pressed(r, u, g, more).effects = s \o more
  BY DEF Pressed, Result, p, s
<1> QED BY <1>1, <1>2, <1>7, <1>8 DEF Answers

\* Fewer effects of fewer kinds will do.
LEMMA AnswersWithin ==
    ASSUME NEW res, NEW m \in Nat, NEW n \in Nat, NEW few, NEW many, NEW r,
           Answers(res, m, few, r), m <= n, few \subseteq many
    PROVE  Answers(res, n, many, r)
BY OrderlyWithin DEF Answers

KeyDownKinds == {"hid", "feedback", "not_mapped", "learned"}

LEMMA KeyDownAnswers ==
    ASSUME NEW r, Sound(r), NEW u \in Usage,
           NEW tbl, \A m \in tbl : m.output \in Output
    PROVE  /\ Answers(KeyDown(r, u, tbl), 3, KeyDownKinds, r)
           /\ KeyDown(r, u, tbl).router.key \in {NoKey, r.key, u}
<1> DEFINE res == KeyDown(r, u, tbl)
<1>1. CASE r.learning # NoToken
  <2>1. r.learning \in Token
    BY <1>1 DEF Sound, Router
  <2>2. /\ Answers(StopLearning(r, Learned(r.learning)), 1, {"learned"}, r)
        /\ StopLearning(r, Learned(r.learning)).router.key = r.key
    BY <2>1, Stopped, EffectTypes
  <2>3. Answers(StopLearning(r, Learned(r.learning)), 3, KeyDownKinds, r)
    BY <2>2, AnswersWithin DEF KeyDownKinds
  <2> QED BY <1>1, <2>2, <2>3 DEF KeyDown
<1>2. CASE r.learning = NoToken /\ r.key = u
  <2>1. Answers(Result(r, <<>>), 3, KeyDownKinds, r)
    BY NothingAnswered
  <2> QED BY <1>2, <2>1 DEF KeyDown, Result
<1>3. CASE r.learning = NoToken /\ r.key # u /\ Mapped(tbl, r.g0, u) # {}
  <2> DEFINE o == CHOOSE o \in Mapped(tbl, r.g0, u) : TRUE
             p == Pressed(r, u, Sends(o), <<Effect("feedback")>>)
  <2>1. o \in Output
    BY <1>3, MappedSends
  <2> HIDE DEF o
  <2>2. Orderly(<<Effect("feedback")>>, 1, {"feedback"}, Sends(o), Sends(o))
    BY EffectTypes, OneEffect
  <2>3. Answers(p, 1 + 2, {"hid"} \union {"feedback"}, r) /\ p.router.key = u
    BY <1>3, <2>1, <2>2, PressedAnswers, ReportTypes
  <2>4. Answers(p, 3, KeyDownKinds, r)
    BY <2>3, AnswersWithin DEF KeyDownKinds
  <2>5. KeyDown(r, u, tbl) = p
    BY <1>3 DEF KeyDown, o
  <2> QED BY <2>3, <2>4, <2>5
<1>4. CASE r.learning = NoToken /\ r.key # u /\ Mapped(tbl, r.g0, u) = {} /\ r.g0
  <2> DEFINE f == Released(r)
             p == [f EXCEPT !.chord = TRUE]
             e == Effect("not_mapped")
             s == ReleaseEffects(r) \o <<e>>
  <2>1. f \in Router /\ f.key = NoKey /\ f.report = Neutral
    BY RouterFields DEF Sound
  <2> HIDE DEF f
  <2>2. p \in Router /\ p.key = NoKey /\ p.report = Neutral
    BY <2>1 DEF Router
  <2>3. Sound(p)
    BY <2>2 DEF Sound, ReportHasKey, QuietLearning, QuietG0
  <2>4. Orderly(<<e>>, 1, {"not_mapped"}, Neutral, Neutral)
    BY EffectTypes, OneEffect
  <2>5. Orderly(s, 1 + 1, {"hid"} \union {"not_mapped"}, r.report, Neutral)
    BY <2>4, ReleaseIsOrderly, OneAfterAnother DEF Sound
  <2>6. Orderly(s, 3, KeyDownKinds, r.report, Neutral)
    BY <2>5, OrderlyWithin DEF KeyDownKinds
  <2> HIDE DEF p, s
  <2>7. res.router = p /\ res.effects = s
    BY <1>4 DEF KeyDown, Result, p, s, f
  <2> QED BY <1>4, <2>2, <2>3, <2>6, <2>7 DEF Answers
<1>5. CASE r.learning = NoToken /\ r.key # u /\ Mapped(tbl, r.g0, u) = {} /\ ~r.g0
  <2> DEFINE p == Pressed(r, u, Typed(u), <<>>)
  <2>1. Orderly(<<>>, 0, {}, Typed(u), Typed(u))
    BY NothingAsked
  <2>2. Typed(u) \in Report /\ Typed(u) # Neutral
    BY ReportTypes
  <2>3. Answers(p, 0 + 2, {"hid"} \union {}, r) /\ p.router.key = u
    <3>1. r.learning = NoToken
      BY <1>5
    <3>2. ASSUME NEW g \in Report, g # Neutral, NEW n \in Nat, NEW more, NEW kinds,
                 Orderly(more, n, kinds, g, g)
          PROVE  /\ Answers(Pressed(r, u, g, more), n + 2, {"hid"} \union kinds, r)
                 /\ Pressed(r, u, g, more).router.key = u
      BY <3>1, <3>2, PressedAnswers
    <3>3. Orderly(<<>>, 0, {}, Typed(u), Typed(u)) =>
          /\ Answers(Pressed(r, u, Typed(u), <<>>), 0 + 2, {"hid"} \union {}, r)
          /\ Pressed(r, u, Typed(u), <<>>).router.key = u
      BY <2>2, <3>2
    <3> QED BY <2>1, <3>3
  <2>4. Answers(p, 3, KeyDownKinds, r)
    BY <2>3, AnswersWithin DEF KeyDownKinds
  <2> QED BY <1>5, <2>3, <2>4 DEF KeyDown
<1> QED BY <1>1, <1>2, <1>3, <1>4, <1>5

\* A shortcut's three effects, one after another.
LEMMA ThreeInARow ==
    ASSUME NEW x, NEW y, NEW z
    PROVE  (<<x>> \o <<y>>) \o <<z>> = <<x, y, z>>
<1> DEFINE S == {x, y, z}
           a == <<x>>
           b == <<y>>
           c == <<z>>
           ab == a \o b
           all == <<x, y, z>>
<1>1. /\ a \in Seq(S) /\ b \in Seq(S) /\ c \in Seq(S) /\ all \in Seq(S)
      /\ Len(a) = 1 /\ Len(b) = 1 /\ Len(c) = 1 /\ Len(all) = 3
      /\ a[1] = x /\ b[1] = y /\ c[1] = z /\ all[1] = x /\ all[2] = y /\ all[3] = z
  OBVIOUS
<1> HIDE DEF S, a, b, c, all
<1>2. /\ ab \in Seq(S) /\ Len(ab) = Len(a) + Len(b)
      /\ \A i \in 1..Len(a) + Len(b) : ab[i] = IF i <= Len(a) THEN a[i] ELSE b[i - Len(a)]
  BY <1>1, ConcatProperties, Zenon
<1> HIDE DEF ab
<1>3. ab \in Seq(S) /\ Len(ab) = 2 /\ ab[1] = x /\ ab[2] = y
  BY <1>1, <1>2
<1>4. /\ ab \o c \in Seq(S) /\ Len(ab \o c) = Len(ab) + Len(c)
      /\ \A i \in 1..Len(ab) + Len(c) :
            (ab \o c)[i] = IF i <= Len(ab) THEN ab[i] ELSE c[i - Len(ab)]
  BY <1>1, <1>3, ConcatProperties, Zenon
<1>5. Len(ab \o c) = 3 /\ \A i \in 1..3 : (ab \o c)[i] = all[i]
  BY <1>1, <1>3, <1>4
<1>6. ab \o c = all
  BY <1>1, <1>4, <1>5, SeqEqual
<1> QED BY <1>6 DEF ab, a, b, c, all

G0UpKinds(mayToggle) ==
    {"hid", "feedback", "learned"} \union (IF mayToggle THEN {"toggle"} ELSE {})

\* G0 alone: the shortcut and its neutral report, then the toggle.
LEMMA ShortPressIsOrderly ==
    ASSUME NEW r, NEW tbl, \A m \in tbl : m.output \in Output, NEW mayToggle \in BOOLEAN
    PROVE  Orderly(ShortPressEffects(r, tbl, mayToggle), 4, G0UpKinds(mayToggle),
                   Neutral, Neutral)
<1> DEFINE o == CHOOSE o \in Mapped(tbl, TRUE, NoKey) : TRUE
           f == Effect("feedback")
           s == IF Mapped(tbl, TRUE, NoKey) = {} THEN <<>>
                ELSE <<Hid(Sends(o)), f, Hid(Neutral)>>
           t == IF mayToggle THEN <<Effect("toggle")>> ELSE <<>>
           kt == IF mayToggle THEN {"toggle"} ELSE {}
<1>1. Orderly(s, 3, {"hid", "feedback"}, Neutral, Neutral)
  <2>1. CASE Mapped(tbl, TRUE, NoKey) = {}
    BY <2>1, NothingAsked
  <2>2. CASE Mapped(tbl, TRUE, NoKey) # {}
    <3>1. o \in Output
      BY <2>2, MappedSends
    <3> HIDE DEF o
    <3>2. f \in Effects /\ f.kind = "feedback"
      BY EffectTypes
    <3> HIDE DEF f
    <3>3. Orderly(<<Hid(Sends(o))>>, 1, {"hid"}, Neutral, Sends(o))
      BY <3>1, OneReport, ReportTypes
    <3>4. Orderly(<<f>>, 1, {"feedback"}, Sends(o), Sends(o))
      BY <3>2, OneEffect
    <3>5. Orderly(<<Hid(Neutral)>>, 1, {"hid"}, Sends(o), Neutral)
      BY OneReport, ReportTypes
    <3> DEFINE a == <<Hid(Sends(o))>> \o <<f>>
    <3>6. Orderly(a, 1 + 1, {"hid"} \union {"feedback"}, Neutral, Sends(o))
      BY <3>3, <3>4, OneAfterAnother
    <3> HIDE DEF a
    <3>7. Orderly(a \o <<Hid(Neutral)>>, (1 + 1) + 1,
                  ({"hid"} \union {"feedback"}) \union {"hid"}, Neutral, Neutral)
      BY <3>5, <3>6, OneAfterAnother
    <3>8. a \o <<Hid(Neutral)>> = <<Hid(Sends(o)), f, Hid(Neutral)>>
      BY Zenon, ThreeInARow DEF a
    <3>9. Orderly(<<Hid(Sends(o)), f, Hid(Neutral)>>, 3, {"hid", "feedback"}, Neutral, Neutral)
      <4>1. /\ (1 + 1) + 1 = 3
            /\ ({"hid"} \union {"feedback"}) \union {"hid"} = {"hid", "feedback"}
        OBVIOUS
      <4> QED BY <3>7, <3>8, <4>1
    <3> QED BY <2>2, <3>9 DEF o
  <2> QED BY <2>1, <2>2
<1>2. Orderly(t, 1, kt, Neutral, Neutral)
  BY NothingAsked, EffectTypes, OneEffect
<1> HIDE DEF s, t, kt
<1>3. Orderly(s \o t, 3 + 1, {"hid", "feedback"} \union kt, Neutral, Neutral)
  BY <1>1, <1>2, OneAfterAnother
<1>4. Orderly(s \o t, 4, G0UpKinds(mayToggle), Neutral, Neutral)
  BY <1>3, OrderlyWithin DEF G0UpKinds, kt
<1>5. ShortPressEffects(r, tbl, mayToggle) = s \o t
  BY DEF ShortPressEffects, s, t
<1> QED BY <1>4, <1>5

LEMMA G0UpAnswers ==
    ASSUME NEW r, Sound(r), NEW mayToggle \in BOOLEAN,
           NEW tbl, \A m \in tbl : m.output \in Output
    PROVE  /\ Answers(G0Up(r, tbl, mayToggle), 4, G0UpKinds(mayToggle), r)
           /\ G0Up(r, tbl, mayToggle).router.key = r.key
<1> DEFINE f == G0Forgotten(r)
<1>1. f \in Router /\ ~f.g0 /\ f.key = r.key /\ f.report = r.report /\ f.learning = r.learning
  BY RouterFields DEF Sound
<1>2. Sound(f)
  BY <1>1 DEF Sound, ReportHasKey, QuietLearning, QuietG0
<1>3. CASE ~r.g0
  <2>1. Answers(Result(r, <<>>), 4, G0UpKinds(mayToggle), r)
    BY NothingAnswered
  <2> QED BY <1>3, <2>1 DEF G0Up, Result
<1>4. CASE r.g0 /\ r.learning # NoToken
  <2>1. r.learning \in Token
    BY <1>4 DEF Sound, Router
  <2>2. /\ Answers(StopLearning(r, Learned(r.learning)), 1, {"learned"}, r)
        /\ StopLearning(r, Learned(r.learning)).router.key = r.key
    BY <2>1, Stopped, EffectTypes
  <2>3. Answers(StopLearning(r, Learned(r.learning)), 4, G0UpKinds(mayToggle), r)
    BY <2>2, AnswersWithin DEF G0UpKinds
  <2> QED BY <1>4, <2>2, <2>3 DEF G0Up
<1>5. CASE r.g0 /\ r.learning = NoToken /\ ~r.chord /\ r.held <= ShortPress
  <2> DEFINE p == Lifted(r, tbl)
             s == ShortPressEffects(r, tbl, mayToggle)
  <2>1. r.report = Neutral
    BY <1>5 DEF Sound, QuietG0
  <2>2. p \in Router /\ ~p.g0 /\ p.key = r.key /\ p.report = Neutral /\ p.learning = NoToken
    <3> HIDE DEF f
    <3>1. p = f \/ p = [f EXCEPT !.report = Neutral]
      BY DEF Lifted, f
    <3> QED BY <1>1, <1>5, <2>1, <3>1, ReportTypes DEF Router
  <2>3. Sound(p)
    BY <2>2 DEF Sound, ReportHasKey, QuietLearning, QuietG0
  <2>4. Orderly(s, 4, G0UpKinds(mayToggle), Neutral, Neutral)
    BY ShortPressIsOrderly
  <2>5. G0Up(r, tbl, mayToggle).router = p /\ G0Up(r, tbl, mayToggle).effects = s
    BY <1>5 DEF G0Up, Result
  <2> QED BY <1>5, <2>1, <2>2, <2>3, <2>4, <2>5 DEF Answers
<1>6. CASE r.g0 /\ r.learning = NoToken /\ ~(~r.chord /\ r.held <= ShortPress)
  <2>1. Orderly(<<>>, 4, G0UpKinds(mayToggle), r.report, r.report)
    BY NothingAsked
  <2>2. G0Up(r, tbl, mayToggle).router = f /\ G0Up(r, tbl, mayToggle).effects = <<>>
    BY <1>6 DEF G0Up, Result
  <2> QED BY <1>1, <1>2, <1>6, <2>1, <2>2 DEF Answers
<1> QED BY <1>3, <1>4, <1>5, <1>6

-----------------------------------------------------------------------------
(***************************************************************************)
(* What the loop does with an answer.                                      *)
(***************************************************************************)
Intents == {"muted", "live"}

EffectsOK == /\ Sound(router) /\ host \in Report /\ intent \in Intents
             /\ \A i \in DOMAIN out : out[i] \in Effects
             /\ HostIsTold /\ EffectsFit

\* A step that is as ReportsAreOrderly requires.
StepIsOrderly ==
    /\ hidUp => KeysApart(<<Hid(host)>> \o out')
    /\ router.learning # NoToken =>
          /\ ~Has(out', "toggle")
          /\ \A i \in Reports(out') : out'[i].report = Neutral

\* No effect is dropped.
LEMMA KeptAll ==
    ASSUME NEW s \in Seq(Effects), Len(s) <= MaxEffects
    PROVE  Kept(s) = s
<1>1. AtMost(Len(s), MaxEffects) = Len(s)
  BY DEF AtMost, MaxEffects
<1>2. SubSeq(s, 1, Len(s)) = s
  BY SubSeqFull
<1> QED BY <1>1, <1>2 DEF Kept

\* The report the Mac is left with.
LEMMA LastReport ==
    ASSUME NEW s, NEW n, NEW kinds, NEW h, NEW g, Orderly(s, n, kinds, h, g), Reports(s) # {}
    PROVE  s[Max(Reports(s))].report = g
<1>1. PICK i \in Reports(s) : s[i].report = g /\ \A j \in Reports(s) : j <= i
  BY DEF Orderly, EndsWith
<1>2. \A j \in Reports(s) : j \in Nat
  BY DEF Orderly, Reports
<1>3. Max(Reports(s)) = i
  BY <1>1, <1>2 DEF Max
<1> QED BY <1>1, <1>3

\* A step without effects.
LEMMA SilentStep ==
    ASSUME host \in Report, out' = <<>>
    PROVE  /\ StepIsOrderly /\ EffectsFit'
           /\ \A i \in DOMAIN out' : out'[i] \in Effects
<1>1. out' \in Seq(Effects) /\ Reports(out') = {} /\ Len(out') = 0 /\ DOMAIN out' = {}
  BY DEF Reports
<1>2. KeysApart(<<Hid(host)>> \o out')
  BY <1>1, OrderlyKeysApart
<1> QED BY <1>1, <1>2 DEF StepIsOrderly, EffectsFit, MaxEffects, Has

LEMMA NoEffectStep ==
    ASSUME EffectsOK, NoEffect, hidUp' = hidUp
    PROVE  EffectsOK' /\ StepIsOrderly
BY SilentStep DEF EffectsOK, NoEffect, HostIsTold

\* A step that applies an answer of the router.
LEMMA AppliedStep ==
    ASSUME EffectsOK, NEW res, NEW n \in 0..4, NEW kinds, Answers(res, n, kinds, router),
           NEW before \in Intents, Apply(res, before), hidUp' = hidUp
    PROVE  /\ EffectsOK' /\ StepIsOrderly
           /\ "toggle" \notin kinds /\ "control_lost" \notin kinds => intent' = before
<1>1. /\ Orderly(res.effects, n, kinds, router.report, res.router.report)
      /\ Sound(res.router) /\ res.router.report \in Report /\ router.report \in Report
  BY DEF Answers, Sound, Router, EffectsOK
<1>2. /\ res.effects \in Seq(Effects) /\ Len(res.effects) <= 4
      /\ \A i \in DOMAIN res.effects : res.effects[i].kind \in kinds
  BY <1>1 DEF Orderly
<1>3. Kept(res.effects) = res.effects
  BY <1>2, KeptAll DEF MaxEffects
<1>4. /\ router' = res.router /\ out' = res.effects
      /\ host' = HostAfter(res.effects) /\ intent' = IntentAfter(res.effects, before)
  BY <1>3 DEF Apply
<1>5. host' = IF hidUp /\ Reports(res.effects) # {} THEN res.router.report ELSE host
  BY <1>1, <1>4, LastReport DEF HostAfter
<1>6. Reports(res.effects) = {} => res.router.report = router.report
  BY <1>1 DEF Orderly, EndsWith
<1>7. HostIsTold' /\ host' \in Report
  BY <1>1, <1>4, <1>5, <1>6 DEF HostIsTold, EffectsOK
<1>8. intent' \in Intents
  BY <1>4 DEF IntentAfter, Intents
<1>9. (\A i \in DOMAIN out' : out'[i] \in Effects) /\ EffectsFit'
  BY <1>2, <1>4 DEF EffectsFit, MaxEffects
<1>10. EffectsOK'
  BY <1>1, <1>4, <1>7, <1>8, <1>9 DEF EffectsOK
<1>11. hidUp => KeysApart(<<Hid(host)>> \o out')
  <2>1. \A i \in Reports(res.effects) :
           res.effects[i].report = Neutral \/ Freed(res.effects, router.report, i)
    BY <1>1 DEF Orderly
  <2>2. \A i \in Reports(res.effects) :
           res.effects[i].report = Neutral \/ Freed(res.effects, Neutral, i)
    BY <1>1, OrderlyAfterNeutral
  <2>3. host = Neutral \/ host = router.report
    BY DEF EffectsOK, HostIsTold
  <2>4. \A i \in Reports(res.effects) :
           res.effects[i].report = Neutral \/ Freed(res.effects, host, i)
    BY <2>1, <2>2, <2>3
  <2> QED BY <1>2, <1>4, <2>4, OrderlyKeysApart DEF EffectsOK
<1>12. ASSUME router.learning # NoToken
       PROVE  /\ ~Has(out', "toggle")
              /\ \A i \in Reports(out') : out'[i].report = Neutral
  <2>1. Orderly(res.effects, 1, kinds \ {"toggle"}, Neutral, Neutral)
    BY <1>12 DEF Answers
  <2>3. ~Has(res.effects, "toggle")
    BY <2>1, <1>2 DEF Orderly, Has
  <2>4. ASSUME NEW i \in Reports(res.effects) PROVE res.effects[i].report = Neutral
    <3>1. \A j \in Reports(res.effects) : j = 1
      BY <1>2, <2>1 DEF Orderly, Reports
    <3> QED BY <2>1, <3>1 DEF Orderly, EndsWith
  <2> QED BY <1>4, <2>3, <2>4
<1>13. "toggle" \notin kinds /\ "control_lost" \notin kinds => intent' = before
  BY <1>2, <1>4 DEF IntentAfter, Has
<1> QED BY <1>10, <1>11, <1>12, <1>13 DEF StepIsOrderly

-----------------------------------------------------------------------------
(***************************************************************************)
(* The invariant in parts.                                                 *)
(***************************************************************************)
LoopTypes ==
    /\ hidUp \in BOOLEAN /\ disc \in BOOLEAN /\ auth \in BOOLEAN /\ lastAuth \in BOOLEAN
    /\ pc \in {"turn", "commands", "button", "keys", "releases", "events",
               "poll", "disconnect", "auth", "intent"}

G0Flags ==
    /\ sampled \in BOOLEAN /\ ignored \in BOOLEAN
    /\ pairing \in BOOLEAN /\ stopped \in BOOLEAN

G0Times == guard \in Guard /\ acted \in 0..2 /\ young \in 0..StableRelease

KeyTypes == table \in {ToSet(c) : c \in Candidates} \union {{}} /\ down \subseteq Usage

G0Inv == G0Flags /\ G0Times /\ UnspentPress /\ OnePressOneChange /\ ArmedIsOld /\ SinceIsYoung

KeyInv == KeyTypes /\ TableSends /\ KeyIsDown

LEMMA InvariantParts == IInv <=> LoopTypes /\ EffectsOK /\ G0Inv /\ KeyInv
BY DEF IInv, TypeOK, LoopTypes, EffectsOK, G0Inv, KeyInv, G0Flags, G0Times, KeyTypes, Sound, Intents

LEMMA InvariantPartsPrime == IInv' <=> LoopTypes' /\ EffectsOK' /\ G0Inv' /\ KeyInv'
BY DEF IInv, TypeOK, LoopTypes, EffectsOK, G0Inv, KeyInv, G0Flags, G0Times, KeyTypes, Sound, Intents

LEMMA InitIInv == Init => IInv
<1> SUFFICES ASSUME Init PROVE IInv
  OBVIOUS
<1>1. LoopTypes
  BY DEF Init, LoopTypes
<1>2. Sound(router)
  BY RouterAssumption, TimesFit, ReportTypes
     DEF Init, Idle, Sound, Router, ReportHasKey, QuietLearning, QuietG0
<1>3. EffectsOK
  BY <1>2, ReportTypes DEF Init, EffectsOK, Intents, HostIsTold, EffectsFit, MaxEffects
<1>4. G0Inv
  <2>1. StableRelease \in Nat /\ 0 \in 0..StableRelease /\ StableRelease \in 0..StableRelease
    BY LoopAssumption
  <2>2. [armed |-> FALSE, tracking |-> FALSE, since |-> 0] \in Guard
    BY <2>1 DEF Guard
  <2>3. G0Flags
    BY DEF Init, G0Flags
  <2>5. G0Times
    <3>1. guard \in Guard
      BY <2>2, Zenon DEF Init
    <3>2. young \in 0..StableRelease /\ acted \in 0..2
      BY <2>1 DEF Init
    <3> QED BY <3>1, <3>2 DEF G0Times
  <2>4. UnspentPress /\ OnePressOneChange /\ ArmedIsOld /\ SinceIsYoung
    BY <2>1 DEF Init, UnspentPress, OnePressOneChange, ArmedIsOld, SinceIsYoung
  <2> QED BY <2>3, <2>4, <2>5 DEF G0Inv
<1>5. KeyInv
  BY DEF Init, KeyInv, KeyTypes, TableSends, KeyIsDown, Idle
<1> QED BY <1>1, <1>3, <1>4, <1>5, InvariantParts

-----------------------------------------------------------------------------
(***************************************************************************)
(* The effects: what the Mac holds is what the router reports.             *)
(***************************************************************************)
\* Time passes.
LEMMA AgedIsSound ==
    ASSUME NEW r, Sound(r), NEW d \in Nat
    PROVE  /\ Sound(Aged(r, d))
           /\ Aged(r, d).report = r.report /\ Aged(r, d).key = r.key
           /\ Aged(r, d).learning = r.learning
<1> DEFINE a == Aged(r, d)
<1>1. /\ a.key = r.key /\ a.report = r.report /\ a.learning = r.learning
      /\ a.g0 = r.g0 /\ a.chord = r.chord
  BY DEF Sound, Aged, Router
<1>2. a \in Router
  <2>1. /\ r.held \in 0..ShortPress + 1 /\ r.left \in 0..LearnTimeout
        /\ ShortPress \in Nat /\ LearnTimeout \in Nat
    BY RouterAssumption DEF Sound, Router
  <2>2. /\ (IF ~r.g0 THEN 0 ELSE IF r.held + d > ShortPress THEN ShortPress + 1
                             ELSE r.held + d) \in 0..ShortPress + 1
        /\ (IF d > r.left THEN 0 ELSE r.left - d) \in 0..LearnTimeout
    BY <2>1
  <2> QED BY <2>2 DEF Sound, Aged, Router
<1> QED BY <1>1, <1>2 DEF Sound, ReportHasKey, QuietLearning, QuietG0

LEMMA EffectsStep ==
    ASSUME IInv, Next
    PROVE  EffectsOK' /\ StepIsOrderly
<1>1. EffectsOK /\ TableSends /\ Sound(router) /\ LoopTypes /\ G0Flags
  BY InvariantParts DEF EffectsOK, KeyInv, G0Inv
<1>2. host \in Report /\ intent \in Intents
  BY <1>1 DEF EffectsOK
<1>3. CASE BleHost
  <2>1. /\ out' = <<>> /\ router' = router /\ intent' = intent
        /\ host' \in {host, Neutral} /\ (host' # Neutral => host' = host /\ (hidUp => hidUp'))
    BY <1>1, <1>3 DEF BleHost, LinkUp, LinkAuthenticated, LinkDown, LoopTypes
  <2>2. HostIsTold' /\ host' \in Report
    BY <1>1, <1>2, <2>1, ReportTypes DEF EffectsOK, HostIsTold
  <2> QED BY <1>1, <1>2, <2>1, <2>2, SilentStep DEF EffectsOK
<1>4. ASSUME NEW d \in 0..Turn, TurnStart(d) PROVE EffectsOK' /\ StepIsOrderly
  <2>1. /\ out' = <<>> /\ router' = Aged(router, d) /\ host' = host /\ intent' = intent
        /\ hidUp' = hidUp
    BY <1>4 DEF TurnStart, linkVars
  <2>2. d \in Nat
    BY LoopAssumption
  <2>3. Sound(router') /\ router'.report = router.report
    BY <1>1, <2>1, <2>2, AgedIsSound
  <2> QED BY <1>1, <1>2, <2>1, <2>3, SilentStep DEF EffectsOK, HostIsTold
<1>5. CASE Command
  <2>1. ASSUME NEW t \in Token, Apply(BeginLearning(router, t), intent)
        PROVE  EffectsOK' /\ StepIsOrderly
    BY <1>1, <1>2, <1>5, <2>1, LearningAnswers, AppliedStep DEF Command, linkVars
  <2>2. ASSUME NEW t \in Token, Apply(CancelLearning(router, t), intent)
        PROVE  EffectsOK' /\ StepIsOrderly
    BY <1>1, <1>2, <1>5, <2>2, LearningAnswers, AppliedStep DEF Command, linkVars
  <2> QED BY <1>1, <1>5, <2>1, <2>2, NoEffectStep DEF Command, linkVars
<1>6. CASE CommandsDone \/ KeysDone
  BY <1>1, <1>6, NoEffectStep DEF CommandsDone, KeysDone, linkVars
<1>7. ASSUME NEW pressed \in BOOLEAN, NEW prompt \in BOOLEAN, Button(pressed, prompt)
      PROVE  EffectsOK' /\ StepIsOrderly
  <2>1. hidUp' = hidUp
    BY <1>7 DEF Button, linkVars
  <2>2. ASSUME Apply(G0Down(router), "muted") PROVE EffectsOK' /\ StepIsOrderly
    BY <1>1, <2>1, <2>2, G0DownAnswers, AppliedStep DEF Intents
  <2>3. ASSUME Apply(G0Up(router, table, ~stopped), intent) PROVE EffectsOK' /\ StepIsOrderly
    <3>1. Answers(G0Up(router, table, ~stopped), 4, G0UpKinds(~stopped), router)
      BY <1>1, G0UpAnswers DEF TableSends
    <3> QED BY <1>1, <1>2, <2>1, <2>3, <3>1, AppliedStep
  <2>4. NoEffect \/ Apply(G0Down(router), "muted") \/ Apply(G0Up(router, table, ~stopped), intent)
    BY <1>7 DEF Button, PressButton, ReleaseButton
  <2> QED BY <1>1, <2>1, <2>2, <2>3, <2>4, NoEffectStep
<1>8. CASE Keyboard \/ OtherIntent
  <2>1. /\ out' = <<>> /\ router' = router /\ host' = host /\ hidUp' = hidUp
        /\ intent' \in Intents
    BY <1>2, <1>8 DEF Keyboard, OtherIntent, linkVars, Intents
  <2> QED BY <1>1, <1>2, <2>1, SilentStep DEF EffectsOK, HostIsTold
<1>9. ASSUME NEW u \in Usage, KeyEvent(u) PROVE EffectsOK' /\ StepIsOrderly
  <2>1. hidUp' = hidUp
    BY <1>9 DEF KeyEvent, linkVars
  <2>2. ASSUME Apply(KeyDown(router, u, table), intent) PROVE EffectsOK' /\ StepIsOrderly
    <3>1. Answers(KeyDown(router, u, table), 3, KeyDownKinds, router)
      BY <1>1, KeyDownAnswers DEF TableSends
    <3> QED BY <1>1, <1>2, <2>1, <2>2, <3>1, AppliedStep
  <2>3. ASSUME Apply(KeyUp(router, u), intent) PROVE EffectsOK' /\ StepIsOrderly
    BY <1>1, <1>2, <2>1, <2>3, KeyUpAnswers, AppliedStep
  <2> QED BY <1>9, <2>2, <2>3 DEF KeyEvent
<1>10. CASE Poll
  <2>1. Answers(PollLearning(router), 1, {"cancelled"}, router)
    BY <1>1, PollAnswers
  <2> QED BY <1>1, <1>2, <1>10, <2>1, AppliedStep DEF Poll, linkVars
<1>11. CASE TakeDisconnectEvent
  <2>1. ASSUME Apply(BleDisconnected(router), intent) PROVE EffectsOK' /\ StepIsOrderly
    BY <1>1, <1>2, <1>11, <2>1, BleAnswers, AppliedStep DEF TakeDisconnectEvent
  <2> QED BY <1>1, <1>11, <2>1, NoEffectStep DEF TakeDisconnectEvent
<1>12. CASE SampleAuth
  <2>1. ASSUME Apply(BleAuthenticated(router), intent) PROVE EffectsOK' /\ StepIsOrderly
    BY <1>1, <1>2, <1>12, <2>1, BleAnswers, AppliedStep DEF SampleAuth, linkVars
  <2> QED BY <1>1, <1>12, <2>1, NoEffectStep DEF SampleAuth, linkVars
<1> QED
  BY <1>3, <1>4, <1>5, <1>6, <1>7, <1>8, <1>9, <1>10, <1>11, <1>12 DEF Next, MainTask

-----------------------------------------------------------------------------
(***************************************************************************)
(* The keys that are down, and the mappings.                               *)
(***************************************************************************)
\* An accepted table sends reports; a rejected one changes nothing.
LEMMA AcceptedTable ==
    ASSUME KeyTypes, TableSends, NEW c \in Candidates,
           table' = ReplaceMappings(table, c, Capacity)
    PROVE  table' \in {ToSet(d) : d \in Candidates} \union {{}} /\ TableSends'
<1>1. c \in Seq(Mapping)
  BY LoopAssumption
<1>2. CASE ValidTable(c, Capacity)
  <2>1. table' = {c[i] : i \in DOMAIN c}
    BY <1>2 DEF ReplaceMappings, ToSet, Range
  <2>2. ASSUME NEW i \in DOMAIN c PROVE c[i].output \in Output
    <3>1. c[i] \in Mapping /\ i \in DOMAIN c
      BY <1>1
    <3>2. c[i].output # NoKey
      BY <1>2, <3>1 DEF ValidTable
    <3> QED BY <3>1, <3>2 DEF Mapping
  <2> QED BY <1>2, <2>1, <2>2 DEF TableSends, ReplaceMappings
<1>3. CASE ~ValidTable(c, Capacity)
  BY <1>3 DEF ReplaceMappings, KeyTypes, TableSends
<1> QED BY <1>2, <1>3

LEMMA KeyStep ==
    ASSUME IInv, Next
    PROVE  KeyInv'
<1>1. KeyInv /\ Sound(router)
  BY InvariantParts DEF EffectsOK
<1> USE DEF KeyInv, KeyTypes, KeyIsDown
<1>2. ASSUME UNCHANGED <<table, down>>, router'.key \in {NoKey, router.key} PROVE KeyInv'
  BY <1>1, <1>2 DEF TableSends
<1>3. CASE BleHost
  BY <1>2, <1>3 DEF BleHost
<1>4. ASSUME NEW d \in 0..Turn, TurnStart(d) PROVE KeyInv'
  <2>1. d \in Nat
    BY LoopAssumption
  <2> QED BY <1>1, <1>2, <1>4, <2>1, AgedIsSound DEF TurnStart
<1>5. CASE Command
  <2>1. ASSUME NEW t \in Token, Apply(BeginLearning(router, t), intent), UNCHANGED table
        PROVE  KeyInv'
    BY <1>1, <1>2, <1>5, <2>1, LearningAnswers DEF Command, Apply
  <2>2. ASSUME NEW t \in Token, Apply(CancelLearning(router, t), intent), UNCHANGED table
        PROVE  KeyInv'
    BY <1>1, <1>2, <1>5, <2>2, LearningAnswers DEF Command, Apply
  <2>3. ASSUME NEW c \in Candidates, table' = ReplaceMappings(table, c, Capacity), NoEffect
        PROVE  KeyInv'
    <3>1. router' = router /\ down' = down
      BY <1>5, <2>3 DEF Command, NoEffect
    <3> QED BY <1>1, <2>3, <3>1, AcceptedTable
  <2> QED BY <1>5, <2>1, <2>2, <2>3 DEF Command
<1>6. CASE CommandsDone \/ KeysDone
  BY <1>2, <1>6 DEF CommandsDone, KeysDone, NoEffect
<1>7. ASSUME NEW pressed \in BOOLEAN, NEW prompt \in BOOLEAN, Button(pressed, prompt)
      PROVE  KeyInv'
  <2>1. NoEffect \/ Apply(G0Down(router), "muted") \/ Apply(G0Up(router, table, ~stopped), intent)
    BY <1>7 DEF Button, PressButton, ReleaseButton
  <2>2. stopped \in BOOLEAN
    BY InvariantParts DEF G0Inv, G0Flags
  <2>3. /\ G0Down(router).router.key \in {NoKey, router.key}
        /\ G0Up(router, table, ~stopped).router.key = router.key
    BY <1>1, <2>2, G0DownAnswers, G0UpAnswers DEF TableSends
  <2> QED BY <1>2, <1>7, <2>1, <2>3 DEF Button, Apply, NoEffect
<1>8. CASE Keyboard \/ OtherIntent
  BY <1>2, <1>8 DEF Keyboard, OtherIntent
<1>9. ASSUME NEW u \in Usage, KeyEvent(u) PROVE KeyInv'
  <2>1. ASSUME down' = down \union {u}, Apply(KeyDown(router, u, table), intent) PROVE KeyInv'
    <3>1. router'.key \in {NoKey, router.key, u}
      BY <1>1, <2>1, KeyDownAnswers DEF TableSends, Apply
    <3> QED BY <1>1, <1>9, <2>1, <3>1 DEF KeyEvent, TableSends
  <2>2. ASSUME down' = down \ {u}, Apply(KeyUp(router, u), intent) PROVE KeyInv'
    <3>1. router'.key \in {NoKey, router.key} \ {u}
      BY <1>1, <2>2, KeyUpAnswers DEF Apply
    <3> QED BY <1>1, <1>9, <2>2, <3>1 DEF KeyEvent, TableSends
  <2> QED BY <1>9, <2>1, <2>2 DEF KeyEvent
<1>10. CASE Poll
  BY <1>1, <1>2, <1>10, PollAnswers DEF Poll, Apply
<1>11. CASE TakeDisconnectEvent
  BY <1>1, <1>2, <1>11, BleAnswers DEF TakeDisconnectEvent, Apply, NoEffect
<1>12. CASE SampleAuth
  BY <1>1, <1>2, <1>12, BleAnswers DEF SampleAuth, Apply, NoEffect
<1> QED
  BY <1>3, <1>4, <1>5, <1>6, <1>7, <1>8, <1>9, <1>10, <1>11, <1>12 DEF Next, MainTask

-----------------------------------------------------------------------------
(***************************************************************************)
(* The G0 button.                                                          *)
(***************************************************************************)
\* The guard before and after a recording.
LEMMA StopTypes ==
    /\ RecordingStarted \in Guard /\ StopConsumed \in Guard
    /\ ~RecordingStarted.armed /\ RecordingStarted.since = 0
    /\ ~StopConsumed.armed /\ ~StopConsumed.tracking
<1>1. StableRelease \in Nat /\ 0 \in 0..StableRelease
  BY LoopAssumption
<1> QED BY <1>1 DEF RecordingStarted, StopConsumed, Guard

\* The guard is armed only when it has tracked the button for long enough.
LEMMA GuardObserves ==
    ASSUME NEW g \in Guard, NEW released \in BOOLEAN
    PROVE  /\ Observe(g, released) \in Guard
           /\ Observe(g, released).armed =>
                 g.armed \/ (g.tracking /\ g.since >= StableRelease)
           /\ Observe(g, released).tracking =>
                 \/ Observe(g, released).since = 0
                 \/ Observe(g, released).since = g.since /\ g.tracking
<1>3. [g EXCEPT !.armed = (g.since >= StableRelease)] \in Guard
  <2>1. (g.since >= StableRelease) \in BOOLEAN
    OBVIOUS
  <2> DEFINE old == g.since >= StableRelease
  <2> HIDE DEF old
  <2>2. [g EXCEPT !.armed = old] \in Guard
    BY <2>1 DEF Guard, old
  <2> QED BY <2>2 DEF old
<1> QED BY <1>3, StopTypes DEF Observe, Guard

\* What a pass of the button branch leaves of G0: a press, a release, or neither.
LEMMA ButtonStep ==
    ASSUME IInv, NEW pressed \in BOOLEAN, NEW prompt \in BOOLEAN, Button(pressed, prompt)
    PROVE  /\ G0Inv'
           /\ sampled' /\ intent = "live" /\ intent' = "muted" => young = StableRelease
<1>1. G0Flags /\ G0Times /\ EffectsOK /\ TableSends /\ intent \in Intents /\ Sound(router)
      /\ UnspentPress /\ OnePressOneChange /\ ArmedIsOld /\ SinceIsYoung
  BY InvariantParts DEF KeyInv, G0Inv, EffectsOK
<1>2. StableRelease \in Nat /\ young \in 0..StableRelease /\ acted \in 0..1
  BY <1>1, LoopAssumption DEF G0Times, OnePressOneChange
<1>3. hidUp' = hidUp /\ sampled' = pressed
  BY DEF Button, linkVars
<1>4. PICK g : g = Observe(guard, ~pressed)
  OBVIOUS
<1>5. /\ g \in Guard /\ (g.armed => young = StableRelease)
      /\ g.tracking => g.since <= young
  <2>1. (~pressed) \in BOOLEAN /\ guard \in Guard /\ guard.since \in 0..StableRelease
    BY <1>1 DEF G0Times, Guard
  <2>2. /\ g \in Guard
        /\ g.armed => guard.armed \/ (guard.tracking /\ guard.since >= StableRelease)
        /\ g.tracking => g.since = 0 \/ (g.since = guard.since /\ guard.tracking)
    BY <1>4, <2>1, GuardObserves
  <2>3. g.armed => young = StableRelease
    BY <1>1, <1>2, <2>1, <2>2 DEF ArmedIsOld, SinceIsYoung
  <2>4. g.tracking => g.since <= young
    BY <1>1, <1>2, <2>1, <2>2 DEF SinceIsYoung
  <2> QED BY <2>2, <2>3, <2>4
<1>6. CASE pressed /\ ~sampled
  <2>1. PressButton(prompt, g) /\ young' = young
    BY <1>4, <1>6 DEF Button
  <2>2. G0Flags'
    BY <1>1, <1>3, <2>1 DEF PressButton, G0Flags
  <2>3. guard' = g \/ guard' = StopConsumed
    BY <2>1 DEF PressButton
  <2>4. acted' \in 0..1
    BY <2>1 DEF PressButton
  <2>5. G0Times'
    BY <1>2, <1>5, <2>1, <2>3, <2>4, StopTypes DEF G0Times
  <2>6. ~stopped' => acted' = 0
    BY <1>1, <2>1 DEF PressButton, Intents
  <2>7. UnspentPress' /\ OnePressOneChange'
    BY <2>4, <2>6 DEF UnspentPress, OnePressOneChange
  <2>8. ArmedIsOld'
    BY <1>5, <2>1, <2>3, StopTypes DEF ArmedIsOld
  <2>9. SinceIsYoung'
    BY <1>5, <2>1, <2>3, StopTypes DEF SinceIsYoung
  <2>10. ~g.armed /\ intent = "live" => intent' = intent
    BY <2>1 DEF PressButton, NoEffect
  <2> QED BY <1>5, <2>2, <2>5, <2>7, <2>8, <2>9, <2>10 DEF G0Inv
<1>7. CASE ~pressed /\ sampled
  <2>1. /\ ReleaseButton(g)
        /\ acted' = IF intent' # intent THEN acted + 1 ELSE acted
        /\ young' = IF intent = "muted" /\ intent' = "live" THEN 0 ELSE young
    BY <1>4, <1>7 DEF Button
  <2>2. ASSUME stopped PROVE intent' = intent
    <3>1. ASSUME Apply(G0Up(router, table, ~stopped), intent) PROVE intent' = intent
      <4>1. (~stopped) \in BOOLEAN /\ ~(~stopped)
        BY <2>2
      <4>2. Answers(G0Up(router, table, ~stopped), 4, G0UpKinds(~stopped), router)
        BY <1>1, <4>1, G0UpAnswers DEF TableSends
      <4>3. "toggle" \notin G0UpKinds(~stopped) /\ "control_lost" \notin G0UpKinds(~stopped)
        BY <4>1 DEF G0UpKinds
      <4> QED BY <1>1, <1>3, <3>1, <4>2, <4>3, AppliedStep
    <3> QED BY <2>1, <3>1 DEF ReleaseButton, NoEffect
  <2>3. ~stopped => acted = 0
    BY <1>1, <1>7 DEF UnspentPress
  <2>4. acted' \in 0..1
    BY <1>2, <2>1, <2>2, <2>3
  <2>5. guard' = IF intent = "muted" /\ intent' = "live" THEN RecordingStarted ELSE g
    BY <2>1 DEF ReleaseButton, NoEffect
  <2>6. G0Flags'
    BY <1>1, <1>3, <2>1 DEF ReleaseButton, G0Flags
  <2>7. G0Times'
    BY <1>2, <1>5, <2>1, <2>4, <2>5, StopTypes DEF G0Times
  <2>8. UnspentPress' /\ OnePressOneChange'
    BY <1>3, <1>7, <2>4 DEF UnspentPress, OnePressOneChange
  <2>9. ArmedIsOld'
    BY <1>5, <2>1, <2>5, StopTypes DEF ArmedIsOld
  <2>10. SinceIsYoung'
    BY <1>5, <2>1, <2>5, StopTypes DEF SinceIsYoung
  <2> QED BY <1>3, <1>7, <2>6, <2>7, <2>8, <2>9, <2>10 DEF G0Inv
<1>8. CASE pressed <=> sampled
  <2>1. guard' = g /\ NoEffect /\ UNCHANGED <<ignored, pairing, stopped, acted, young>>
    BY <1>4, <1>8 DEF Button, history
  <2>2. sampled' = sampled
    BY <1>1, <1>3, <1>8 DEF G0Flags
  <2>3. G0Flags'
    BY <1>1, <2>1, <2>2 DEF G0Flags
  <2>4. G0Times'
    BY <1>1, <1>5, <2>1 DEF G0Times
  <2>5. UnspentPress' /\ OnePressOneChange'
    BY <1>1, <2>1, <2>2 DEF UnspentPress, OnePressOneChange
  <2>6. ArmedIsOld'
    BY <1>5, <2>1 DEF ArmedIsOld
  <2>7. SinceIsYoung'
    BY <1>5, <2>1 DEF SinceIsYoung
  <2>8. intent' = intent
    BY <2>1 DEF NoEffect
  <2> QED BY <2>3, <2>4, <2>5, <2>6, <2>7, <2>8 DEF G0Inv
<1>9. sampled \in BOOLEAN
  BY <1>1 DEF G0Flags
<1> QED BY <1>6, <1>7, <1>8, <1>9

LEMMA G0Step ==
    ASSUME IInv, Next
    PROVE  G0Inv'
<1>1. G0Inv
  BY InvariantParts
<1>2. ASSUME UNCHANGED <<g0Vars, history>> PROVE G0Inv'
  BY <1>1, <1>2
     DEF g0Vars, history, G0Inv, G0Flags, G0Times, UnspentPress, OnePressOneChange, ArmedIsOld, SinceIsYoung
<1>3. ASSUME NEW d \in 0..Turn, TurnStart(d) PROVE G0Inv'
  <2>1. d \in Nat /\ StableRelease \in Nat
    BY LoopAssumption
  <2>2. /\ guard' = [guard EXCEPT !.since = IF guard.tracking
                                          THEN AtMost(guard.since + d, StableRelease) ELSE 0]
        /\ young' = AtMost(young + d, StableRelease)
        /\ UNCHANGED <<sampled, ignored, pairing, stopped, acted>>
    BY <1>3 DEF TurnStart
  <2>3. /\ guard \in Guard /\ young \in 0..StableRelease /\ guard.since \in 0..StableRelease
        /\ guard.armed => young = StableRelease
        /\ guard.tracking => guard.since <= young
    BY <1>1 DEF G0Inv, G0Times, Guard, ArmedIsOld, SinceIsYoung
  <2>4. /\ young' \in 0..StableRelease /\ young' >= young
        /\ AtMost(guard.since + d, StableRelease) \in 0..StableRelease
        /\ guard.since <= young => AtMost(guard.since + d, StableRelease) <= young'
    BY <2>1, <2>2, <2>3 DEF AtMost
  <2>5. /\ guard'.armed = guard.armed /\ guard'.tracking = guard.tracking
        /\ guard'.since = IF guard.tracking THEN AtMost(guard.since + d, StableRelease) ELSE 0
        /\ guard' \in Guard
    BY <2>1, <2>2, <2>3, <2>4 DEF Guard
  <2>6. G0Flags' /\ G0Times'
    BY <1>1, <2>2, <2>4, <2>5 DEF G0Inv, G0Flags, G0Times
  <2>7. UnspentPress' /\ OnePressOneChange'
    BY <1>1, <2>2 DEF G0Inv, UnspentPress, OnePressOneChange
  <2>8. ArmedIsOld' /\ SinceIsYoung'
    BY <2>1, <2>3, <2>4, <2>5 DEF ArmedIsOld, SinceIsYoung
  <2> QED BY <2>6, <2>7, <2>8 DEF G0Inv
<1>4. CASE BleHost \/ Command \/ CommandsDone \/ Keyboard \/ KeysDone \/ Poll
  BY <1>2, <1>4 DEF BleHost, Command, CommandsDone, Keyboard, KeysDone, Poll
<1>5. CASE TakeDisconnectEvent \/ SampleAuth \/ OtherIntent
  BY <1>2, <1>5 DEF TakeDisconnectEvent, SampleAuth, OtherIntent
<1>6. ASSUME NEW u \in Usage, KeyEvent(u) PROVE G0Inv'
  BY <1>2, <1>6 DEF KeyEvent
<1> QED BY <1>3, <1>4, <1>5, <1>6, ButtonStep DEF Next, MainTask

LEMMA LoopStep ==
    ASSUME IInv, Next
    PROVE  LoopTypes'
<1>1. LoopTypes
  BY InvariantParts
<1> USE DEF LoopTypes, Goto, linkVars
<1>2. CASE BleHost
  BY <1>1, <1>2 DEF BleHost, LinkUp, LinkAuthenticated, LinkDown
<1>3. ASSUME NEW d \in 0..Turn, TurnStart(d) PROVE LoopTypes'
  BY <1>1, <1>3 DEF TurnStart
<1>4. CASE Command \/ CommandsDone \/ Keyboard \/ KeysDone \/ Poll
  BY <1>1, <1>4 DEF Command, CommandsDone, Keyboard, KeysDone, Poll
<1>5. CASE TakeDisconnectEvent \/ SampleAuth \/ OtherIntent
  BY <1>1, <1>5 DEF TakeDisconnectEvent, SampleAuth, OtherIntent
<1>6. ASSUME NEW u \in Usage, KeyEvent(u) PROVE LoopTypes'
  BY <1>1, <1>6 DEF KeyEvent
<1>7. ASSUME NEW pressed \in BOOLEAN, NEW prompt \in BOOLEAN, Button(pressed, prompt)
      PROVE  LoopTypes'
  BY <1>1, <1>7 DEF Button
<1> QED BY <1>2, <1>3, <1>4, <1>5, <1>6, <1>7 DEF Next, MainTask

-----------------------------------------------------------------------------
(***************************************************************************)
(* The theorems.                                                           *)
(***************************************************************************)
LEMMA NextIInv ==
    ASSUME IInv, [Next]_vars
    PROVE  IInv'
<1>1. CASE Next
  BY <1>1, EffectsStep, KeyStep, G0Step, LoopStep, InvariantPartsPrime
<1>2. CASE UNCHANGED vars
  BY <1>2
     DEF vars, linkVars, g0Vars, history, effected, IInv, TypeOK, TableSends, Sound, ReportHasKey,
         QuietLearning, QuietG0, KeyIsDown, HostIsTold, EffectsFit, UnspentPress,
         OnePressOneChange, ArmedIsOld, SinceIsYoung
<1> QED BY <1>1, <1>2

LEMMA Invariance == Spec => []IInv
BY InitIInv, NextIInv, PTL DEF Spec

\* Whatever is learned, remapped, reconnected or pressed on top, the Mac holds
\* no key that nobody presses, and no effect is dropped for want of room.
THEOREM NoKeySticks == Spec => []InputInvariant
<1>1. IInv => InputInvariant
  <2> SUFFICES ASSUME IInv PROVE InputInvariant
    OBVIOUS
  <2>1. NoStuckKey
    BY DEF IInv, NoStuckKey, HostIsTold, Sound, ReportHasKey, KeyIsDown
  <2> QED BY <2>1 DEF IInv, InputInvariant
<1> QED BY Invariance, <1>1, PTL

\* From its press to its release, G0 changes the intent at most once.
THEOREM OneChangeAPress == Spec => []OnePressOneChange
<1>1. IInv => OnePressOneChange
  BY DEF IInv
<1> QED BY Invariance, <1>1, PTL

\* The Mac is told of a key only after neutral, and of none while a shortcut
\* is learned, which toggles nothing either.
THEOREM KeysComeApart == Spec => ReportsAreOrderly
<1>1. IInv /\ [Next]_vars =>
        [hidUp => KeysApart(<<Hid(host)>> \o out')]_vars
  BY EffectsStep DEF StepIsOrderly
<1>2. IInv /\ [Next]_vars =>
        [router.learning # NoToken =>
          /\ ~Has(out', "toggle")
          /\ \A i \in Reports(out') : out'[i].report = Neutral]_vars
  BY EffectsStep DEF StepIsOrderly
<1> QED BY Invariance, <1>1, <1>2, PTL DEF Spec, ReportsAreOrderly, ReportsAlternate, LearningIsSilent

\* A press stops a recording only once the button was up for StableRelease
\* since the release that started it.
THEOREM BounceIsIgnored == Spec => BounceNeverStops
<1>1. ASSUME IInv, Next, pc = "button", sampled', intent = "live", intent' = "muted"
      PROVE  young >= StableRelease
  <2>1. PICK pressed \in BOOLEAN, prompt \in BOOLEAN : Button(pressed, prompt)
    BY <1>1 DEF Next, MainTask, BleHost, TurnStart, Command, CommandsDone, Keyboard, KeyEvent,
                KeysDone, Poll, TakeDisconnectEvent, SampleAuth, OtherIntent, Goto
  <2>2. young = StableRelease /\ StableRelease \in Nat
    BY <1>1, <2>1, ButtonStep, LoopAssumption
  <2> QED BY <2>2
<1>2. IInv /\ [Next]_vars =>
        [pc = "button" /\ sampled' /\ intent = "live" /\ intent' = "muted"
           => young >= StableRelease]_vars
  BY <1>1
<1> QED BY Invariance, <1>2, PTL DEF Spec, BounceNeverStops
=============================================================================
