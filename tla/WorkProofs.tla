----------------------------- MODULE WorkProofs -----------------------------
(***************************************************************************)
(* Proofs about the components that people and models work in: tickets,    *)
(* the inspection of the quality of calls, labelling tasks, communication  *)
(* agents, the long-running jobs of the AI suite, and chats with the hubs  *)
(* of their sockets.                                                       *)
(***************************************************************************)
EXTENDS MCServices, FiniteSetTheorems, SequenceTheorems, WellFoundedInduction, TLAPS


-----------------------------------------------------------------------------
(***************************************************************************)
(* Quality inspection. First what the sums of a score are: every set of    *)
(* natural numbers has a least one, so the recursion over a list of rules  *)
(* is defined, and whatever every step keeps holds at its end.             *)
(***************************************************************************)
LEMMA Least == \A T \in SUBSET Nat : T # {} => \E m \in T : \A k \in T : m <= k
<1> SUFFICES ASSUME NEW T \in SUBSET Nat, T # {} PROVE \E m \in T : \A k \in T : m <= k
    OBVIOUS
<1>1. PICK m \in T : \A k \in T : ~(<<k, m>> \in OpToRel(<, Nat))
    BY NatLessThanWellFounded, WFMin
<1>2. ASSUME NEW k \in T PROVE m <= k
    <2>1. <<k, m>> \in Nat \X Nat
        OBVIOUS
    <2>2. ~(k < m)
        BY <1>1, <2>1 DEF OpToRel
    <2> QED
        BY <2>2
<1> QED
    BY <1>2

\* The partial sums of which Total is the last.
PartialSums(s, numbers, n) ==
    s[0] = 0 /\ s[n] = Total(numbers, n) /\ \A i \in 1..n : s[i] = s[i - 1] + numbers[i]

LEMMA SumSteps ==
    ASSUME NEW n \in Nat, NEW S \in {Nat, Int}, NEW numbers \in [1..n -> S]
    PROVE  \E s \in [0..n -> S] : PartialSums(s, numbers, n)
<1> DEFINE Recursion(g, m) == [i \in 0..m |-> IF i = 0 THEN 0 ELSE g[i - 1] + numbers[i]]
           Undefined == {m \in 0..n : ~ \E g : g = Recursion(g, m)}
<1>1. Undefined = {}
    <2> SUFFICES ASSUME Undefined # {} PROVE FALSE
        OBVIOUS
    <2>0. Undefined \in SUBSET Nat
        OBVIOUS
    <2>1. PICK m \in Undefined : \A k \in Undefined : m <= k
        BY <2>0, Least
    <2>2. CASE m = 0
        <3>1. [i \in 0..0 |-> 0] = Recursion([i \in 0..0 |-> 0], 0)
            OBVIOUS
        <3> QED
            BY <2>1, <2>2, <3>1
    <2>3. CASE m # 0
        <3>0. m \in 0..n /\ m - 1 \in 0..n /\ ~(m <= m - 1)
            BY <2>1, <2>3
        <3>1. m - 1 \in 0..n /\ m - 1 \notin Undefined
            <4> HIDE DEF Undefined
            <4> QED
                BY <2>1, <3>0
        <3>2. PICK g : g = Recursion(g, m - 1)
            BY <3>1
        <3>3. PICK h : h = [i \in 0..m |-> IF i = m THEN g[m - 1] + numbers[m] ELSE g[i]]
            OBVIOUS
        <3>4. ASSUME NEW i \in 0..m PROVE h[i] = IF i = 0 THEN 0 ELSE h[i - 1] + numbers[i]
            BY <2>1, <2>3, <3>2, <3>3
        <3>5. h = Recursion(h, m)
            BY <3>3, <3>4
        <3> QED
            BY <2>1, <3>5
    <2> QED
        BY <2>2, <2>3
<1>2. PICK s : s = Recursion(s, n) /\ s[n] = Total(numbers, n)
    <2>1. \E g : g = Recursion(g, n)
        <3>1. n \in 0..n /\ n \notin Undefined
            <4> HIDE DEF Undefined
            <4> QED
                BY <1>1
        <3> QED
            BY <3>1
    <2> QED
        BY <2>1 DEF Total
<1>3. s[0] = 0 /\ \A i \in 1..n : s[i] = s[i - 1] + numbers[i]
    BY <1>2
<1>a. 0 \in S /\ \A a, b \in S : a + b \in S
    OBVIOUS
<1>4. \A i \in 0..n : s[i] \in S
    <2> DEFINE Wrong == {i \in 0..n : s[i] \notin S}
    <2> SUFFICES ASSUME Wrong # {} PROVE FALSE
        OBVIOUS
    <2>0. Wrong \in SUBSET Nat
        OBVIOUS
    <2>1. PICK m \in Wrong : \A k \in Wrong : m <= k
        BY <2>0, Least
    <2>z. m \in 0..n /\ m # 0 /\ ~(m <= m - 1)
        BY <1>3, <1>a, <2>1
    <2>2. m # 0 /\ m - 1 \notin Wrong /\ m - 1 \in 0..n
        <3>1. m - 1 \in 0..n
            BY <2>z
        <3> HIDE DEF Wrong
        <3> QED
            BY <2>1, <2>z, <3>1
    <2>3. m \in 1..n /\ s[m - 1] \in S /\ numbers[m] \in S
        BY <2>1, <2>2
    <2>4. s[m] = s[m - 1] + numbers[m]
        BY <1>3, <2>3
    <2> QED
        BY <1>a, <2>1, <2>3, <2>4
<1>5. s \in [0..n -> S]
    BY <1>2, <1>4
<1> QED
    BY <1>2, <1>3, <1>5 DEF PartialSums

\* If no number is more than c times the other, neither is the total.
LEMMA TotalsCompare ==
    ASSUME NEW n \in Nat, NEW x \in [1..n -> Nat], NEW y \in [1..n -> Nat], NEW c \in Nat
    PROVE  /\ Total(x, n) \in Nat
           /\ (\A i \in 1..n : x[i] <= c * y[i]) => Total(x, n) <= c * Total(y, n)
           /\ (\A i \in 1..n : c * y[i] <= x[i]) => c * Total(y, n) <= Total(x, n)
<1>1. PICK s \in [0..n -> Nat] : PartialSums(s, x, n)
    BY SumSteps
<1>2. PICK t \in [0..n -> Nat] : PartialSums(t, y, n)
    BY SumSteps
<1>3. /\ s[0] = 0 /\ s[n] = Total(x, n) /\ \A i \in 1..n : s[i] = s[i - 1] + x[i]
      /\ t[0] = 0 /\ t[n] = Total(y, n) /\ \A i \in 1..n : t[i] = t[i - 1] + y[i]
    BY <1>1, <1>2 DEF PartialSums
<1>d. \A a, b \in Nat : c * (a + b) = c * a + c * b /\ c * a \in Nat
    OBVIOUS
<1>e. \A a, b, p, q \in Nat : a <= p /\ b <= q => a + b <= p + q
    OBVIOUS
<1>4. ASSUME \A i \in 1..n : x[i] <= c * y[i] PROVE s[n] <= c * t[n]
    <2> DEFINE Wrong == {i \in 0..n : ~(s[i] <= c * t[i])}
    <2>1. Wrong = {}
        <3> SUFFICES ASSUME Wrong # {} PROVE FALSE
            OBVIOUS
        <3>0. Wrong \in SUBSET Nat
            OBVIOUS
        <3>1. PICK m \in Wrong : \A k \in Wrong : m <= k
            BY <3>0, Least
        <3>2. m # 0
            BY <1>3, <3>1
        <3>3. m \in 1..n /\ m - 1 \in 0..n /\ m - 1 \notin Wrong
            BY <3>1, <3>2
        <3>4. s[m - 1] <= c * t[m - 1] /\ x[m] <= c * y[m]
            BY <1>4, <3>3
        <3>5. c * t[m] = c * t[m - 1] + c * y[m]
            BY <1>3, <1>d, <3>3
        <3>6. s[m] = s[m - 1] + x[m]
            BY <1>3, <3>3
        <3>7. c * t[m - 1] \in Nat /\ c * y[m] \in Nat /\ s[m - 1] \in Nat /\ x[m] \in Nat
            BY <1>d, <3>3
        <3>8. s[m - 1] + x[m] <= c * t[m - 1] + c * y[m]
            BY <1>e, <3>4, <3>7
        <3> QED
            BY <3>1, <3>5, <3>6, <3>8
    <2>2. n \in 0..n /\ n \notin Wrong
        <3> HIDE DEF Wrong
        <3> QED
            BY <2>1
    <2> QED
        BY <2>2
<1>5. ASSUME \A i \in 1..n : c * y[i] <= x[i] PROVE c * t[n] <= s[n]
    <2> DEFINE Wrong == {i \in 0..n : ~(c * t[i] <= s[i])}
    <2>1. Wrong = {}
        <3> SUFFICES ASSUME Wrong # {} PROVE FALSE
            OBVIOUS
        <3>0. Wrong \in SUBSET Nat
            OBVIOUS
        <3>1. PICK m \in Wrong : \A k \in Wrong : m <= k
            BY <3>0, Least
        <3>2. m # 0
            BY <1>3, <3>1
        <3>3. m \in 1..n /\ m - 1 \in 0..n /\ m - 1 \notin Wrong
            BY <3>1, <3>2
        <3>4. c * t[m - 1] <= s[m - 1] /\ c * y[m] <= x[m]
            BY <1>5, <3>3
        <3>5. c * t[m] = c * t[m - 1] + c * y[m]
            BY <1>3, <1>d, <3>3
        <3>6. s[m] = s[m - 1] + x[m]
            BY <1>3, <3>3
        <3>7. c * t[m - 1] \in Nat /\ c * y[m] \in Nat /\ s[m - 1] \in Nat /\ x[m] \in Nat
            BY <1>d, <3>3
        <3>8. c * t[m - 1] + c * y[m] <= s[m - 1] + x[m]
            BY <1>e, <3>4, <3>7
        <3> QED
            BY <3>1, <3>5, <3>6, <3>8
    <2>2. n \in 0..n /\ n \notin Wrong
        <3> HIDE DEF Wrong
        <3> QED
            BY <2>1
    <2> QED
        BY <2>2
<1> QED
    BY <1>3, <1>4, <1>5

VerdictRec == [passed : BOOLEAN, score : 0..100]

LEMMA VerdictsTyped ==
    ASSUME NEW rule, NEW t, NEW answer \in -2..100 PROVE evaluateRule(rule, t, answer) \in VerdictRec
<1>1. ASSUME NEW p \in BOOLEAN PROVE Verdict(p) \in VerdictRec
    BY DEF Verdict, VerdictRec
<1>2. evaluateKeywordRule(rule.config, t) \in VerdictRec
    BY <1>1 DEF evaluateKeywordRule, containsIgnoreCase
<1>3. evaluateRegexRule(rule.config, t) \in VerdictRec
    <2>1. CASE rule.config.require = "no_match" /\ rule.config.pattern \in t.phrases
        BY <2>1 DEF evaluateRegexRule, Verdict, VerdictRec
    <2>2. CASE rule.config.require = "no_match" /\ rule.config.pattern \notin t.phrases
        BY <2>2 DEF evaluateRegexRule, Verdict, VerdictRec
    <2>3. CASE rule.config.require # "no_match" /\ rule.config.pattern \in t.phrases
        BY <2>3 DEF evaluateRegexRule, Verdict, VerdictRec
    <2>4. CASE rule.config.require # "no_match" /\ rule.config.pattern \notin t.phrases
        BY <2>4 DEF evaluateRegexRule, Verdict, VerdictRec
    <2> QED
        BY <2>1, <2>2, <2>3, <2>4
<1>4. evaluateSilenceRule(rule.config, t) \in VerdictRec
    BY <1>1 DEF evaluateSilenceRule
<1>5. evaluateSpeedRule(rule.config, t) \in VerdictRec
    BY <1>1 DEF evaluateSpeedRule
<1>6. evaluateInterruptionRule(rule.config, t) \in VerdictRec
    <2>1. (t.interruptions <= OrDefault(rule.config.max, 3)) \in BOOLEAN
        OBVIOUS
    <2> QED
        BY <1>1, <2>1, Zenon DEF evaluateInterruptionRule
<1>7. evaluateEnergyRule(rule.config, t) \in VerdictRec
    BY <1>1 DEF evaluateEnergyRule
<1>8. evaluateDurationRule(rule.config, t) \in VerdictRec
    BY <1>1 DEF evaluateDurationRule, Within
<1>9. evaluateEntityRule(rule.config, t) \in VerdictRec
    BY <1>1 DEF evaluateEntityRule
<1>10. evaluateRoleRule(rule.config, t) \in VerdictRec
    BY <1>1 DEF evaluateRoleRule
<1>11. evaluateAbnormalHangupRule(t) \in VerdictRec
    <2>1. [passed |-> TRUE, score |-> 80] \in VerdictRec
        BY DEF VerdictRec
    <2>2. Verdict(TRUE) \in VerdictRec /\ Verdict(FALSE) \in VerdictRec
        BY <1>1
    <2> QED
        BY <2>1, <2>2, Zenon DEF evaluateAbnormalHangupRule
<1>12. evaluateLLMRule(rule.config, answer) \in VerdictRec
    <2>1. CASE answer \in {-2, -1}
        BY <1>1, <2>1 DEF evaluateLLMRule
    <2>2. CASE answer \in 0..100
        <3>1. evaluateLLMRule(rule.config, answer)
                 = [passed |-> answer >= OrDefault(rule.config.threshold, 60), score |-> answer]
            <4>1. answer # -2 /\ answer # -1
                BY <2>2
            <4> QED
                BY <4>1, Zenon DEF evaluateLLMRule
        <3>2. (answer >= OrDefault(rule.config.threshold, 60)) \in BOOLEAN
            OBVIOUS
        <3> QED
            BY <2>2, <3>1, <3>2 DEF VerdictRec
    <2> QED
        BY <2>1, <2>2
<1> QED
    BY <1>1, <1>2, <1>3, <1>4, <1>5, <1>6, <1>7, <1>8, <1>9, <1>10, <1>11, <1>12
    DEF evaluateRule, RuleTypes

\* A mean lies between the least and the greatest of what it is the mean of.
Mean(r) ==
    ~r.negative /\ r.details # {} /\ r.num > 0 =>
        /\ \E v \in r.details : r.num <= v.score * r.den
        /\ \E v \in r.details : v.score * r.den <= r.num

SchemeRec == [rule : RuleIds, weight : Int]

\* Whatever the weights, nothing is divided by zero.
LEMMA WeighTyped ==
    ASSUME NEW list \in Seq(SchemeRec), NEW places \in SUBSET DOMAIN list,
           NEW verdicts \in [places -> VerdictRec]
    PROVE  LET w == Weigh(list, verdicts) IN w.num \in Int /\ w.den \in Nat /\ w.den > 0
<1> DEFINE n == Len(list)
           x == Points(list, verdicts)
           y == Weights(list, verdicts)
<1>1. n \in Nat /\ DOMAIN list = 1..n /\ \A i \in 1..n : list[i] \in SchemeRec
    BY LenProperties, ElementOfSeq
<1> HIDE DEF n
<1>2. \A i \in 1..n : list[i].weight \in Int
    BY <1>1 DEF SchemeRec
<1>3. DOMAIN verdicts = places /\ \A i \in places : verdicts[i].score \in 0..100
    BY DEF VerdictRec
<1>4. y \in [1..n -> Int]
    BY <1>1, <1>2 DEF Weights
<1>5. x \in [1..n -> Int]
    <2>1. \A i \in places : verdicts[i].score * list[i].weight \in Int
        <3>1. \A a \in 0..100, w \in Int : a * w \in Int
            OBVIOUS
        <3> QED
            BY <1>1, <1>2, <1>3, <3>1
    <2> QED
        BY <1>1, <1>3, <2>1 DEF Points
<1> HIDE DEF x, y
<1>6. Total(x, n) \in Int /\ Total(y, n) \in Int
    <2>1. PICK s \in [0..n -> Int] : PartialSums(s, x, n)
        BY <1>1, <1>5, SumSteps
    <2>2. PICK t \in [0..n -> Int] : PartialSums(t, y, n)
        BY <1>1, <1>4, SumSteps
    <2> QED
        BY <1>1, <2>1, <2>2 DEF PartialSums
<1>7. Weigh(list, verdicts) = IF Total(y, n) > 0 THEN [num |-> Total(x, n), den |-> Total(y, n)]
                              ELSE [num |-> 0, den |-> 1]
    BY DEF Weigh, x, y, n
<1> QED
    BY <1>6, <1>7

LEMMA WeighIsMean ==
    ASSUME NEW list \in Seq(SchemeRec), NEW places \in SUBSET DOMAIN list,
           NEW verdicts \in [places -> VerdictRec],
           NEW r, r.num = Weigh(list, verdicts).num, r.den = Weigh(list, verdicts).den,
           r.details = {verdicts[i] : i \in DOMAIN verdicts},
           \A i \in places : list[i].weight >= 0
    PROVE  Mean(r)
<1> DEFINE n == Len(list)
           x == Points(list, verdicts)
           y == Weights(list, verdicts)
<1>1. n \in Nat /\ DOMAIN list = 1..n /\ places \subseteq 1..n
      /\ \A i \in places : list[i].weight \in Nat
    <2>1. n \in Nat /\ DOMAIN list = 1..n /\ \A i \in 1..n : list[i] \in SchemeRec
        BY LenProperties, ElementOfSeq
    <2> HIDE DEF n
    <2>2. \A i \in places : list[i].weight \in Int
        BY <2>1 DEF SchemeRec
    <2> QED
        BY <2>1, <2>2
<1> HIDE DEF n
<1>v. \A i \in places : verdicts[i].score \in 0..100
    <2>1. \A e \in VerdictRec : e.score \in 0..100
        BY DEF VerdictRec
    <2> QED
        BY <2>1
<1>w. \A i \in places : verdicts[i].score \in Nat /\ 100 - verdicts[i].score \in Nat
    <2>1. \A a \in 0..100 : a \in Nat /\ 100 - a \in Nat
        OBVIOUS
    <2> QED
        BY <1>v, <2>1
<1>2. /\ \A i \in places : verdicts[i].score \in 0..100 /\ verdicts[i].score * list[i].weight \in Nat
      /\ DOMAIN verdicts = places
    <2>2. \A a \in 0..100, w \in Nat : a * w \in Nat
        OBVIOUS
    <2>3. \A i \in places : verdicts[i].score \in 0..100 /\ list[i].weight \in Nat
        BY <1>1, <1>v
    <2> QED
        BY <2>2, <2>3
<1>3. x \in [1..n -> Nat]
    BY <1>1, <1>2 DEF Points
<1>4. y \in [1..n -> Nat]
    BY <1>1, <1>2 DEF Weights
<1>5. \A i \in 1..n : /\ i \in places => x[i] = verdicts[i].score * list[i].weight /\ y[i] = list[i].weight
                      /\ i \notin places => x[i] = 0 /\ y[i] = 0
    BY <1>1, <1>2 DEF Points, Weights
<1> HIDE DEF x, y, n
<1>6. /\ Total(x, n) \in Nat /\ Total(y, n) \in Nat
      /\ \A c \in Nat : /\ (\A i \in 1..n : x[i] <= c * y[i]) => Total(x, n) <= c * Total(y, n)
                        /\ (\A i \in 1..n : c * y[i] <= x[i]) => c * Total(y, n) <= Total(x, n)
    BY <1>1, <1>3, <1>4, TotalsCompare
<1>7. Weigh(list, verdicts) = IF Total(y, n) > 0 THEN [num |-> Total(x, n), den |-> Total(y, n)]
                              ELSE [num |-> 0, den |-> 1]
    BY DEF Weigh, x, y, n
<1>8. CASE ~(Total(y, n) > 0)
    BY <1>7, <1>8 DEF Mean
<1>9. CASE Total(y, n) > 0
    <2>1. r.num = Total(x, n) /\ r.den = Total(y, n)
        BY <1>7, <1>9
    <2>2. ASSUME places # {}
          PROVE  /\ \E v \in r.details : Total(x, n) <= v.score * Total(y, n)
                 /\ \E v \in r.details : v.score * Total(y, n) <= Total(x, n)
        <3> DEFINE Marks == {verdicts[i].score : i \in places}
                   Others == {100 - verdicts[i].score : i \in places}
        <3>0. Marks \in SUBSET Nat /\ Marks # {} /\ Others \in SUBSET Nat /\ Others # {}
            BY <1>w, <2>2
        <3>o. \A a, b \in 0..100 : 100 - a <= 100 - b => b <= a
            OBVIOUS
        <3>1. PICK l \in Marks : \A k \in Marks : l <= k
            BY <3>0, Least
        <3>2. PICK h \in Others : \A k \in Others : h <= k
            BY <3>0, Least
        <3>3. PICK lo \in places : \A i \in places : verdicts[lo].score <= verdicts[i].score
            <4>1. PICK lo \in places : l = verdicts[lo].score
                BY <3>1
            <4>2. ASSUME NEW i \in places PROVE l <= verdicts[i].score
                BY <3>1
            <4> QED
                BY <4>1, <4>2
        <3>4. PICK hi \in places : \A i \in places : verdicts[i].score <= verdicts[hi].score
            <4>1. PICK hi \in places : h = 100 - verdicts[hi].score
                BY <3>2
            <4>2. ASSUME NEW i \in places PROVE verdicts[i].score <= verdicts[hi].score
                <5>1. h <= 100 - verdicts[i].score
                    BY <3>2
                <5> QED
                    <6>1. verdicts[hi].score \in 0..100 /\ verdicts[i].score \in 0..100
                        BY <1>v, <4>1
                    <6> QED
                        BY <4>1, <5>1, <6>1, <3>o
            <4> QED
                BY <4>2
        <3> HIDE DEF Marks, Others
        <3>m. \A a, b \in 0..100, w \in Nat : a <= b => a * w <= b * w
            OBVIOUS
        <3>5. ASSUME NEW i \in 1..n PROVE /\ x[i] <= verdicts[hi].score * y[i]
                                          /\ verdicts[lo].score * y[i] <= x[i]
            <4>1. CASE i \in places
                <5>1. /\ verdicts[i].score \in 0..100 /\ list[i].weight \in Nat
                      /\ verdicts[hi].score \in 0..100 /\ verdicts[lo].score \in 0..100
                    BY <1>1, <1>2, <4>1
                <5>2. /\ verdicts[i].score * list[i].weight <= verdicts[hi].score * list[i].weight
                      /\ verdicts[lo].score * list[i].weight <= verdicts[i].score * list[i].weight
                    BY <3>3, <3>4, <3>m, <4>1, <5>1
                <5> QED
                    BY <1>5, <4>1, <5>2
            <4>2. CASE i \notin places
                <5>1. x[i] = 0 /\ y[i] = 0 /\ verdicts[hi].score \in Nat /\ verdicts[lo].score \in Nat
                    BY <1>w, <1>5, <3>3, <3>4, <4>2
                <5> QED
                    BY <5>1
            <4> QED
                BY <4>1, <4>2
        <3>6. verdicts[hi].score \in Nat /\ verdicts[lo].score \in Nat
              /\ verdicts[hi] \in r.details /\ verdicts[lo] \in r.details
            BY <1>2, <1>w, <3>3, <3>4
        <3> QED
            BY <1>6, <3>5, <3>6
    <2>3. r.details # {} => places # {}
        BY <1>2
    <2> QED
        BY <1>6, <1>9, <2>1, <2>2, <2>3 DEF Mean
<1> QED
    BY <1>8, <1>9
(***************************************************************************)
(* Tickets. What a request holds is a row, or the copy of one, that is as  *)
(* consistent as those in the table; unless another request is at the      *)
(* ticket too, writing it leaves the course of the statuses alone.         *)
(***************************************************************************)
Desk == [table : {"ticket"}, id : TicketIds, row : Ticket, insert : BOOLEAN]
        \cup [table : {"template"}, id : TemplateIds, row : TicketTemplate, insert : BOOLEAN]

SoundTicket(r) ==
    /\ r.status \in {"resolved", "closed"} => r.resolved
    /\ r.template \in everPublished \cup {NoTemplate}

DeskOK(e) ==
    e.table = "ticket" =>
        /\ SoundTicket(e.row)
        /\ e.id \in overlapped \/ ~Outside(tickets[e.id], e.row)

TicketInv ==
    /\ tickets \in [TicketIds -> Ticket \cup {NoRow}]
    /\ templates \in [TemplateIds -> TicketTemplate \cup {NoRow}]
    /\ comments \subseteq Ids(tickets)
    /\ clerk \in [Clerks -> Desk \cup {AtDesk}]
    /\ everPublished \subseteq TemplateIds /\ overlapped \subseteq TicketIds
    /\ misled \subseteq overlapped
    /\ \A i \in Ids(templates) : templates[i].online = "published" => i \in everPublished
    /\ \A i \in Ids(tickets) : SoundTicket(tickets[i])
    /\ \A w \in Clerks : DeskOK(clerk[w])
    /\ \A w \in Clerks : \A v \in Clerks \ {w} :
          clerk[w].table = "ticket" /\ Holds(v, "ticket", clerk[w].id) => clerk[w].id \in overlapped

LEMMA NextTicket == TicketInv /\ [TicketNext]_ticketVars => TicketInv'
<1> SUFFICES ASSUME TicketInv, [TicketNext]_ticketVars PROVE TicketInv'
    OBVIOUS
<1> USE TicketAssumption
<1>0. /\ tickets \in [TicketIds -> Ticket \cup {NoRow}]
      /\ templates \in [TemplateIds -> TicketTemplate \cup {NoRow}]
      /\ comments \subseteq Ids(tickets)
      /\ clerk \in [Clerks -> Desk \cup {AtDesk}]
      /\ everPublished \subseteq TemplateIds /\ overlapped \subseteq TicketIds
      /\ misled \subseteq overlapped
      /\ \A i \in Ids(templates) : templates[i].online = "published" => i \in everPublished
      /\ \A i \in Ids(tickets) : i \in TicketIds /\ tickets[i] \in Ticket /\ SoundTicket(tickets[i])
      /\ \A i \in Ids(templates) : i \in TemplateIds /\ templates[i] \in TicketTemplate
      /\ \A w \in Clerks : DeskOK(clerk[w])
    BY DEF TicketInv, Ids
<1>o. ASSUME NEW w \in Clerks, NEW v \in Clerks \ {w},
             clerk[w].table = "ticket", Holds(v, "ticket", clerk[w].id)
      PROVE  clerk[w].id \in overlapped
    BY <1>o DEF TicketInv
<1>a. AtDesk.table = "none" /\ AtDesk.id = "none"
    BY DEF AtDesk
<1>k. ASSUME NEW e \in Desk \cup {AtDesk}
      PROVE  /\ e.table \in {"ticket", "template", "none"}
             /\ e.table = "ticket" => e.id \in TicketIds /\ e.row \in Ticket /\ e \in Desk
             /\ e.table = "template" => e.id \in TemplateIds /\ e.row \in TicketTemplate /\ e \in Desk
             /\ e.table = "none" => e = AtDesk
    BY DEF Desk, AtDesk
\* A request has read, and decided what to write.
<1>d. ASSUME NEW w \in Clerks, NEW table, NEW id, NEW row, NEW insert, Decide(w, table, id, row, insert),
             [table |-> table, id |-> id, row |-> row, insert |-> insert] \in Desk,
             table = "ticket" => SoundTicket(row) /\ (id \in overlapped' \/ ~Outside(tickets[id], row))
      PROVE  TicketInv'
    <2>1. PICK new : new = [table |-> table, id |-> id, row |-> row, insert |-> insert]
        OBVIOUS
    <2>2. /\ new \in Desk /\ new.table = table /\ new.id = id /\ new.row = row
        BY <1>d, <2>1
    <2>3. /\ clerk[w] = AtDesk /\ clerk' = [clerk EXCEPT ![w] = new]
          /\ overlapped' = IF table = "ticket" /\ \E v \in Clerks : Holds(v, table, id)
                           THEN overlapped \cup {id} ELSE overlapped
          /\ UNCHANGED <<tickets, templates, comments, everPublished, misled>>
        BY <1>d, <2>1 DEF Decide, ticketTables
    <2>4. /\ clerk' \in [Clerks -> Desk \cup {AtDesk}] /\ clerk'[w] = new
          /\ \A v \in Clerks \ {w} : clerk'[v] = clerk[v]
        BY <1>0, <2>2, <2>3
    <2>5. overlapped \subseteq overlapped' /\ overlapped' \subseteq TicketIds
        BY <1>0, <1>k, <2>2, <2>3
    <2>6. ASSUME NEW v \in Clerks PROVE DeskOK(clerk[v])'
        <3>1. CASE v = w
            BY <1>d, <2>2, <2>3, <2>4, <3>1 DEF DeskOK, SoundTicket
        <3>2. CASE v # w
            BY <1>0, <2>3, <2>4, <2>5, <3>2 DEF DeskOK, SoundTicket
        <3> QED
            BY <3>1, <3>2
    <2>7. ASSUME NEW u \in Clerks, NEW v \in Clerks \ {u}, clerk'[u].table = "ticket",
                 clerk'[v].table = "ticket", clerk'[v].id = clerk'[u].id
          PROVE  clerk'[u].id \in overlapped'
        <3>1. CASE u # w /\ v # w
            BY <1>o, <2>4, <2>5, <2>7, <3>1 DEF Holds
        <3>2. CASE u = w
            BY <2>2, <2>3, <2>4, <2>7, <3>2 DEF Holds
        <3>3. CASE v = w
            BY <2>2, <2>3, <2>4, <2>7, <3>3 DEF Holds
        <3> QED
            BY <3>1, <3>2, <3>3
    <2>8. \A i \in Ids(tickets') : SoundTicket(tickets[i])'
        BY <1>0, <2>3 DEF SoundTicket
    <2> QED
        BY <1>0, <2>3, <2>4, <2>5, <2>6, <2>7, <2>8 DEF TicketInv, Holds
<1>1. ASSUME NEW w \in Clerks, NEW id \in TicketIds, NEW t \in Tenants,
             NEW m \in TemplateIds \cup {NoTemplate}, CreateTicket(w, t, id, m)
      PROVE  TicketInv'
    <2>1. PICK row : row = [tenant |-> t, status |-> "open", assignee |-> Nobody,
                            template |-> m, resolved |-> FALSE]
        OBVIOUS
    <2>2. row \in Ticket /\ row.status = "open" /\ row.template = m
        BY <2>1 DEF Ticket, TicketStatus
    <2>3. [table |-> "ticket", id |-> id, row |-> row, insert |-> TRUE] \in Desk
        BY <2>2 DEF Desk
    <2>4. SoundTicket(row)
        BY <1>0, <1>1, <2>2 DEF SoundTicket, CreateTicket, PublishedTemplate
    <2>5. ~Outside(tickets[id], row)
        BY <1>0, <1>1 DEF CreateTicket, FreshId, Outside, Ids
    <2> QED
        BY <1>1, <1>d, <2>1, <2>3, <2>4, <2>5 DEF CreateTicket
\* A copy of a row of the table, changed.
<1>2. ASSUME NEW w \in Clerks, NEW id \in Ids(tickets), NEW row \in Ticket, SoundTicket(row),
             row.status = tickets[id].status \/ row.status \in validTransitions[tickets[id].status],
             Decide(w, "ticket", id, row, FALSE)
      PROVE  TicketInv'
    <2>1. [table |-> "ticket", id |-> id, row |-> row, insert |-> FALSE] \in Desk
        BY <1>0 DEF Desk
    <2>2. ~Outside(tickets[id], row)
        BY <1>2 DEF Outside
    <2> QED
        BY <1>2, <1>d, <2>1, <2>2
<1>3. ASSUME NEW w \in Clerks, NEW id \in TicketIds, UpdateTicket(w, id) PROVE TicketInv'
    BY <1>0, <1>2, <1>3 DEF UpdateTicket
<1>4. ASSUME NEW w \in Clerks, NEW id \in TicketIds, NEW a \in Assignees, AssignTicket(w, id, a)
      PROVE  TicketInv'
    <2>1. id \in Ids(tickets) /\ tickets[id] \in Ticket /\ SoundTicket(tickets[id])
        BY <1>0, <1>4 DEF AssignTicket
    <2>2. PICK row : row = [tickets[id] EXCEPT !.assignee = a]
        OBVIOUS
    <2>3. row \in Ticket /\ row.status = tickets[id].status /\ SoundTicket(row)
        BY <2>1, <2>2 DEF Ticket, SoundTicket
    <2> QED
        BY <1>2, <1>4, <2>1, <2>2, <2>3 DEF AssignTicket
<1>5. ASSUME NEW w \in Clerks, NEW id \in TicketIds, NEW new \in TicketStatus, Transition(w, id, new)
      PROVE  TicketInv'
    <2>1. id \in Ids(tickets) /\ tickets[id] \in Ticket /\ SoundTicket(tickets[id])
          /\ new \in validTransitions[tickets[id].status]
        BY <1>0, <1>5 DEF Transition
    <2>2. PICK row : row = [tickets[id] EXCEPT !.status = new, !.resolved = tickets[id].resolved \/ new = "resolved"]
        OBVIOUS
    <2>3. row \in Ticket /\ row.status = new /\ row.template = tickets[id].template
          /\ row.resolved = (tickets[id].resolved \/ new = "resolved")
        BY <2>1, <2>2 DEF Ticket
    <2>4. new = "closed" => tickets[id].status = "resolved"
        BY <2>1 DEF validTransitions, Ticket, TicketStatus
    <2>5. SoundTicket(row)
        BY <2>1, <2>3, <2>4 DEF SoundTicket
    <2> QED
        BY <1>2, <1>5, <2>1, <2>2, <2>3, <2>5 DEF Transition
<1>6. ASSUME NEW w \in Clerks, NEW id \in TemplateIds, NEW row \in TicketTemplate, NEW insert \in BOOLEAN,
             Decide(w, "template", id, row, insert)
      PROVE  TicketInv'
    <2>1. [table |-> "template", id |-> id, row |-> row, insert |-> insert] \in Desk
        BY DEF Desk
    <2> QED
        BY <1>6, <1>d, <2>1
<1>7. ASSUME NEW w \in Clerks, NEW id \in TemplateIds, NEW t \in Tenants, CreateTemplate(w, t, id)
      PROVE  TicketInv'
    <2>1. [tenant |-> t, online |-> "draft"] \in TicketTemplate
        BY DEF TicketTemplate, OnlineStatus
    <2> QED
        BY <1>6, <1>7, <2>1 DEF CreateTemplate
<1>8. ASSUME NEW w \in Clerks, NEW id \in TemplateIds, NEW online \in OnlineStatus, Rewrite(w, id, online)
      PROVE  TicketInv'
    <2>1. id \in Ids(templates) /\ templates[id] \in TicketTemplate
        BY <1>0, <1>8 DEF Rewrite
    <2>2. [templates[id] EXCEPT !.online = online] \in TicketTemplate
        BY <2>1 DEF TicketTemplate
    <2> QED
        BY <1>6, <1>8, <2>2 DEF Rewrite
<1>9. ASSUME NEW w \in Clerks, NEW id \in TemplateIds,
             PublishTemplate(w, id) \/ Offline(w, id) \/ UpdateTemplate(w, id)
      PROVE  TicketInv'
    <2>1. UpdateTemplate(w, id) => templates[id].online \in OnlineStatus
        BY <1>0 DEF UpdateTemplate, TicketTemplate
    <2> QED
        BY <1>8, <1>9, <2>1 DEF PublishTemplate, Offline, UpdateTemplate, OnlineStatus
<1>10. ASSUME NEW w \in Clerks, WriteTicket(w) PROVE TicketInv'
    <2>0. PICK e : e = clerk[w]
        OBVIOUS
    <2>1. e.table = "ticket" /\ e.id \in TicketIds /\ e.row \in Ticket /\ DeskOK(e) /\ SoundTicket(e.row)
        BY <1>0, <1>k, <1>10, <2>0 DEF WriteTicket, DeskOK
    <2>2. /\ tickets' = Put(tickets, e)
          /\ misled' = IF Outside(tickets[e.id], e.row) THEN misled \cup {e.id} ELSE misled
          /\ clerk' = [clerk EXCEPT ![w] = AtDesk]
          /\ UNCHANGED <<templates, comments, everPublished, overlapped>>
        BY <1>10, <2>0 DEF WriteTicket
    <2>3. /\ clerk' \in [Clerks -> Desk \cup {AtDesk}] /\ clerk'[w] = AtDesk
          /\ \A v \in Clerks \ {w} : clerk'[v] = clerk[v]
        BY <1>0, <2>2
    <2>4. /\ tickets' \in [TicketIds -> Ticket \cup {NoRow}]
          /\ tickets'[e.id] \in {e.row, tickets[e.id]}
          /\ \A i \in TicketIds \ {e.id} : tickets'[i] = tickets[i]
          /\ Ids(tickets) \subseteq Ids(tickets') /\ Ids(tickets') \subseteq TicketIds
        BY <1>0, <2>1, <2>2 DEF Put, Inserted, Updated, Ids
    <2>5. misled' \subseteq overlapped'
        BY <1>0, <2>1, <2>2 DEF DeskOK
    <2>6. ASSUME NEW v \in Clerks PROVE DeskOK(clerk[v])'
        <3>1. CASE v = w
            BY <1>a, <2>3, <3>1 DEF DeskOK
        <3>2. CASE v # w /\ clerk[v].table = "ticket" /\ clerk[v].id = e.id
            <4>1. e.id \in overlapped
                BY <1>o, <2>0, <2>1, <3>2 DEF Holds
            <4> QED
                BY <1>0, <2>2, <2>3, <3>2, <4>1 DEF DeskOK, SoundTicket
        <3>3. CASE v # w /\ clerk[v].table = "ticket" /\ clerk[v].id # e.id
            <4>1. tickets'[clerk[v].id] = tickets[clerk[v].id]
                BY <1>0, <1>k, <2>4, <3>3
            <4> QED
                BY <1>0, <2>2, <2>3, <3>3, <4>1 DEF DeskOK, SoundTicket
        <3>4. CASE v # w /\ clerk[v].table # "ticket"
            BY <2>3, <3>4 DEF DeskOK
        <3> QED
            BY <3>1, <3>2, <3>3, <3>4
    <2>7. ASSUME NEW i \in Ids(tickets') PROVE SoundTicket(tickets[i])'
        <3>1. SoundTicket(tickets'[i])
            BY <1>0, <2>1, <2>4 DEF Ids
        <3> QED
            BY <2>2, <3>1 DEF SoundTicket
    <2>8. ASSUME NEW u \in Clerks, NEW v \in Clerks \ {u}, clerk'[u].table = "ticket",
                 clerk'[v].table = "ticket", clerk'[v].id = clerk'[u].id
          PROVE  clerk'[u].id \in overlapped'
        BY <1>a, <1>o, <2>2, <2>3, <2>8 DEF Holds
    <2> QED
        BY <1>0, <2>2, <2>3, <2>4, <2>5, <2>6, <2>7, <2>8 DEF TicketInv, Holds
<1>11. ASSUME NEW w \in Clerks, WriteTemplate(w) PROVE TicketInv'
    <2>0. PICK e : e = clerk[w]
        OBVIOUS
    <2>1. e.table = "template" /\ e.id \in TemplateIds /\ e.row \in TicketTemplate
        BY <1>0, <1>k, <1>11, <2>0 DEF WriteTemplate
    <2>2. /\ templates' = Put(templates, e)
          /\ everPublished' = IF e.row.online = "published" THEN everPublished \cup {e.id}
                              ELSE everPublished
          /\ clerk' = [clerk EXCEPT ![w] = AtDesk]
          /\ UNCHANGED <<tickets, comments, overlapped, misled>>
        BY <1>11, <2>0 DEF WriteTemplate
    <2>3. /\ clerk' \in [Clerks -> Desk \cup {AtDesk}] /\ clerk'[w] = AtDesk
          /\ \A v \in Clerks \ {w} : clerk'[v] = clerk[v]
        BY <1>0, <2>2
    <2>4. /\ templates' \in [TemplateIds -> TicketTemplate \cup {NoRow}]
          /\ templates'[e.id] \in {e.row, templates[e.id]}
          /\ \A i \in TemplateIds \ {e.id} : templates'[i] = templates[i]
        BY <1>0, <2>1, <2>2 DEF Put, Inserted, Updated
    <2>5. everPublished \subseteq everPublished' /\ everPublished' \subseteq TemplateIds
        BY <1>0, <2>1, <2>2
    <2>6. \A i \in Ids(templates') : templates'[i].online = "published" => i \in everPublished'
        BY <1>0, <2>1, <2>2, <2>4, <2>5 DEF Ids
    <2>7. /\ \A v \in Clerks : DeskOK(clerk[v])'
          /\ \A i \in Ids(tickets') : SoundTicket(tickets[i])'
        BY <1>0, <1>a, <2>2, <2>3, <2>5 DEF DeskOK, SoundTicket
    <2>8. ASSUME NEW u \in Clerks, NEW v \in Clerks \ {u}, clerk'[u].table = "ticket",
                 clerk'[v].table = "ticket", clerk'[v].id = clerk'[u].id
          PROVE  clerk'[u].id \in overlapped'
        BY <1>a, <1>o, <2>2, <2>3, <2>8 DEF Holds
    <2> QED
        BY <1>0, <2>2, <2>3, <2>4, <2>5, <2>6, <2>7, <2>8 DEF TicketInv, Holds
<1>12. ASSUME NEW w \in Clerks, TicketRequestFails(w) PROVE TicketInv'
    <2>1. /\ clerk' = [clerk EXCEPT ![w] = AtDesk]
          /\ UNCHANGED <<tickets, templates, comments, everPublished, overlapped, misled>>
        BY <1>12 DEF TicketRequestFails, ticketTables, ticketHistory
    <2>2. /\ clerk' \in [Clerks -> Desk \cup {AtDesk}] /\ clerk'[w] = AtDesk
          /\ \A v \in Clerks \ {w} : clerk'[v] = clerk[v]
        BY <1>0, <2>1
    <2>3. /\ \A v \in Clerks : DeskOK(clerk[v])'
          /\ \A i \in Ids(tickets') : SoundTicket(tickets[i])'
        BY <1>0, <1>a, <2>1, <2>2 DEF DeskOK, SoundTicket
    <2>4. ASSUME NEW u \in Clerks, NEW v \in Clerks \ {u}, clerk'[u].table = "ticket",
                 clerk'[v].table = "ticket", clerk'[v].id = clerk'[u].id
          PROVE  clerk'[u].id \in overlapped'
        BY <1>a, <1>o, <2>1, <2>2, <2>4 DEF Holds
    <2> QED
        BY <1>0, <2>1, <2>2, <2>3, <2>4 DEF TicketInv, Holds
<1>13. ASSUME NEW id \in TicketIds, AddComment(id) \/ UNCHANGED ticketVars PROVE TicketInv'
    <2>1. /\ comments' \subseteq Ids(tickets)
          /\ UNCHANGED <<tickets, templates, clerk, everPublished, overlapped, misled>>
        BY <1>0, <1>13 DEF AddComment, ticketHistory, ticketVars, ticketTables
    <2>2. /\ \A v \in Clerks : DeskOK(clerk[v])'
          /\ \A i \in Ids(tickets') : SoundTicket(tickets[i])'
        BY <1>0, <2>1 DEF DeskOK, SoundTicket
    <2> QED
        BY <1>0, <1>o, <2>1, <2>2 DEF TicketInv, Holds
<1>14. CASE UNCHANGED ticketVars
    <2>1. UNCHANGED <<comments, tickets, templates, clerk, everPublished, overlapped, misled>>
        BY <1>14 DEF ticketHistory, ticketVars, ticketTables
    <2>2. /\ \A v \in Clerks : DeskOK(clerk[v])'
          /\ \A i \in Ids(tickets') : SoundTicket(tickets[i])'
        BY <1>0, <2>1 DEF DeskOK, SoundTicket
    <2> QED
        BY <1>0, <1>o, <2>1, <2>2 DEF TicketInv, Holds
<1> QED
    BY <1>1, <1>3, <1>4, <1>5, <1>7, <1>9, <1>10, <1>11, <1>12, <1>13, <1>14 DEF TicketNext, TicketRequest

LEMMA InitTicket == TicketInit => TicketInv
<1> SUFFICES ASSUME TicketInit PROVE TicketInv
    OBVIOUS
<1>1. AtDesk.table = "none"
    BY DEF AtDesk
<1> QED
    BY <1>1 DEF TicketInit, TicketInv, DeskOK, Ids

(* TicketInv holds in every reachable state: rows and the copies in progress *)
(* have their resolved_at and a template that was published once.            *)
THEOREM TicketInvariant == ServicesSpec => []TicketInv
<1>1. ServicesInit => TicketInv
    BY InitTicket DEF ServicesInit
<1>2. [ServicesNext]_servicesVars => [TicketNext]_ticketVars
    BY DEF ServicesNext, servicesVars
<1>3. TicketInv /\ [ServicesNext]_servicesVars => TicketInv'
    BY <1>2, NextTicket
<1> QED
    BY <1>1, <1>3, PTL DEF ServicesSpec

\* A result as it is stored and as it is held: reviewed only with a note of
\* the appeal and a reviewer, and a mean unless it was reviewed.
SoundResult(r) ==
    /\ r \in QAResult /\ r.den > 0
    /\ r.status # "reviewed" => Mean(r)
    /\ r.status \in {"appealed", "reviewed"} => r.appealNote
    /\ r.status = "reviewed" => r.reviewer

ExamRec == [at : {"scheme", "insert", "update", "idle"}, id : SchemeIds \cup ResultIds \cup {"none"},
            row : SchemeLists \cup QAResult \cup {NoRow}]

ExamOK(e) ==
    /\ e.at = "scheme" => e.row \in SchemeLists
    /\ e.at = "insert" => SoundResult(e.row) /\ e.row.status = "completed"
    /\ e.at = "update" =>
          /\ e.id \in Ids(qaResults) /\ SoundResult(e.row)
          /\ e.id \in doubled \/ /\ qaResults[e.id].status = "completed" /\ e.row.status = "appealed"
                              \/ /\ qaResults[e.id].status = "appealed" /\ e.row.status = "reviewed"
    /\ e.at = "idle" => e = Unoccupied

QaInv ==
    /\ qaRules \in [RuleIds -> Bodies \cup {NoRow}]
    /\ qaSchemes \in [SchemeIds -> SchemeLists \cup {NoRow}]
    /\ qaResults \in [ResultIds -> QAResult \cup {NoRow}]
    /\ examiner \in [Examiners -> ExamRec]
    /\ doubled \subseteq ResultIds /\ unreviewed \subseteq doubled
    /\ \A i \in Ids(qaResults) : SoundResult(qaResults[i])
    /\ \A x \in Examiners : ExamOK(examiner[x])
    /\ \A x \in Examiners : \A y \in Examiners \ {x} :
          examiner[x].at = "update" /\ examiner[y].at = "update" /\ examiner[x].id = examiner[y].id =>
              examiner[x].id \in doubled

LEMMA NextQa == QaInv /\ [QaNext]_qaVars => QaInv'
<1> SUFFICES ASSUME QaInv, [QaNext]_qaVars PROVE QaInv'
    OBVIOUS
<1> USE QaAssumption
<1>0. /\ qaRules \in [RuleIds -> Bodies \cup {NoRow}]
      /\ qaSchemes \in [SchemeIds -> SchemeLists \cup {NoRow}]
      /\ qaResults \in [ResultIds -> QAResult \cup {NoRow}]
      /\ examiner \in [Examiners -> ExamRec]
      /\ doubled \subseteq ResultIds /\ unreviewed \subseteq doubled
      /\ \A i \in Ids(qaResults) : i \in ResultIds /\ SoundResult(qaResults[i])
      /\ \A x \in Examiners : ExamOK(examiner[x])
    BY DEF QaInv, Ids
<1>o. ASSUME NEW x \in Examiners, NEW y \in Examiners \ {x},
             examiner[x].at = "update", examiner[y].at = "update", examiner[x].id = examiner[y].id
      PROVE  examiner[x].id \in doubled
    BY <1>o DEF QaInv
<1>u. Unoccupied \in ExamRec /\ Unoccupied.at = "idle"
    BY DEF Unoccupied, ExamRec
\* Only tables of rules and schemes change.
<1>t. ASSUME qaRules' \in [RuleIds -> Bodies \cup {NoRow}],
             qaSchemes' \in [SchemeIds -> SchemeLists \cup {NoRow}], UNCHANGED qaRest
      PROVE  QaInv'
    <2>1. UNCHANGED <<qaResults, examiner, doubled, unreviewed>>
        BY <1>t DEF qaRest
    <2>2. \A x \in Examiners : ExamOK(examiner[x])'
        BY <1>0, <2>1 DEF ExamOK
    <2>3. \A i \in Ids(qaResults') : SoundResult(qaResults'[i])
        BY <1>0, <2>1
    <2> QED
        BY <1>0, <1>o, <1>t, <2>1, <2>2, <2>3 DEF QaInv
\* A request goes on, with the results as they are.
<1>s. ASSUME NEW x \in Examiners, NEW e \in ExamRec, examiner' = [examiner EXCEPT ![x] = e],
             UNCHANGED <<qaRules, qaSchemes, qaResults, unreviewed>>,
             doubled \subseteq doubled', doubled' \subseteq ResultIds,
             ExamOK(e)',
             \A y \in Examiners \ {x} :
                 e.at = "update" /\ examiner[y].at = "update" /\ e.id = examiner[y].id => e.id \in doubled'
      PROVE  QaInv'
    <2>1. /\ examiner' \in [Examiners -> ExamRec] /\ examiner'[x] = e
          /\ \A y \in Examiners \ {x} : examiner'[y] = examiner[y]
        BY <1>0, <1>s
    <2>2. ASSUME NEW y \in Examiners PROVE ExamOK(examiner[y])'
        <3>1. CASE y = x
            BY <1>s, <2>1, <3>1
        <3>2. CASE y # x
            BY <1>0, <1>s, <2>1, <3>2 DEF ExamOK
        <3> QED
            BY <3>1, <3>2
    <2>3. ASSUME NEW y \in Examiners, NEW z \in Examiners \ {y}, examiner'[y].at = "update",
                 examiner'[z].at = "update", examiner'[y].id = examiner'[z].id
          PROVE  examiner'[y].id \in doubled'
        <3>1. CASE y = x
            BY <1>s, <2>1, <2>3, <3>1
        <3>2. CASE z = x
            BY <1>s, <2>1, <2>3, <3>2
        <3>3. CASE y # x /\ z # x
            BY <1>o, <1>s, <2>1, <2>3, <3>3
        <3> QED
            BY <3>1, <3>2, <3>3
    <2>4. \A i \in Ids(qaResults') : SoundResult(qaResults'[i])
        BY <1>0, <1>s
    <2>5. unreviewed' \subseteq doubled'
        BY <1>0, <1>s
    <2> QED
        BY <1>0, <1>s, <2>1, <2>2, <2>3, <2>4, <2>5 DEF QaInv
<1>i. ASSUME NEW x \in Examiners, examiner' = [examiner EXCEPT ![x] = Unoccupied],
             UNCHANGED <<qaRules, qaSchemes, qaResults, doubled, unreviewed>>
      PROVE  QaInv'
    <2>1. ExamOK(Unoccupied)'
        BY <1>u DEF ExamOK, Unoccupied
    <2> QED
        BY <1>0, <1>i, <1>s, <1>u, <2>1
\* The row of result i is written by x, who is done.
<1>w. ASSUME NEW x \in Examiners, NEW i \in ResultIds, NEW row, SoundResult(row),
             qaResults' = [qaResults EXCEPT ![i] = row],
             examiner' = [examiner EXCEPT ![x] = Unoccupied],
             UNCHANGED <<qaRules, qaSchemes, doubled>>, unreviewed' \subseteq doubled,
             \A y \in Examiners \ {x} : examiner[y].at = "update" /\ examiner[y].id = i => i \in doubled
      PROVE  QaInv'
    <2>1. /\ examiner' \in [Examiners -> ExamRec] /\ examiner'[x] = Unoccupied
          /\ \A y \in Examiners \ {x} : examiner'[y] = examiner[y]
        BY <1>0, <1>u, <1>w
    <2>2. /\ row \in QAResult /\ row # NoRow
          /\ qaResults' \in [ResultIds -> QAResult \cup {NoRow}] /\ qaResults'[i] = row
          /\ \A j \in ResultIds \ {i} : qaResults'[j] = qaResults[j]
          /\ Ids(qaResults') = Ids(qaResults) \cup {i}
        BY <1>0, <1>w DEF Ids, SoundResult
    <2>3. ASSUME NEW y \in Examiners PROVE ExamOK(examiner[y])'
        <3>1. CASE y = x
            BY <1>u, <2>1, <3>1 DEF ExamOK
        <3>2. CASE y # x /\ ~(examiner[y].at = "update" /\ examiner[y].id = i)
            <4>1. examiner[y].at = "update" => /\ examiner[y].id \in Ids(qaResults')
                                               /\ qaResults'[examiner[y].id] = qaResults[examiner[y].id]
                BY <1>0, <2>2, <3>2 DEF ExamOK
            <4> QED
                BY <1>0, <1>w, <2>1, <3>2, <4>1 DEF ExamOK
        <3>3. CASE y # x /\ examiner[y].at = "update" /\ examiner[y].id = i
            <4>1. i \in doubled' /\ i \in Ids(qaResults') /\ SoundResult(examiner[y].row)
                BY <1>0, <1>w, <2>2, <3>3 DEF ExamOK
            <4> QED
                BY <2>1, <3>3, <4>1 DEF ExamOK
        <3> QED
            BY <3>1, <3>2, <3>3
    <2>4. ASSUME NEW y \in Examiners, NEW z \in Examiners \ {y}, examiner'[y].at = "update",
                 examiner'[z].at = "update", examiner'[y].id = examiner'[z].id
          PROVE  examiner'[y].id \in doubled'
        BY <1>o, <1>u, <1>w, <2>1, <2>4
    <2>5. \A j \in Ids(qaResults') : SoundResult(qaResults'[j])
        BY <1>0, <1>w, <2>2 DEF Ids
    <2> QED
        BY <1>0, <1>w, <2>1, <2>2, <2>3, <2>4, <2>5 DEF QaInv
<1>1. ASSUME NEW r \in RuleIds, NEW b \in RuleBodies[r], CreateRule(r, b) \/ UpdateRule(r, b) PROVE QaInv'
    <2>1. b \in Bodies
        BY DEF Bodies
    <2>2. qaRules' \in [RuleIds -> Bodies \cup {NoRow}] /\ UNCHANGED <<qaSchemes, qaRest>>
        BY <1>0, <1>1, <2>1 DEF CreateRule, UpdateRule, Inserted, Updated
    <2> QED
        BY <1>0, <1>t, <2>2
<1>2. ASSUME NEW r \in RuleIds, DeleteRule(r) PROVE QaInv'
    <2>1. qaRules' \in [RuleIds -> Bodies \cup {NoRow}] /\ UNCHANGED <<qaSchemes, qaRest>>
        BY <1>0, <1>2 DEF DeleteRule, Deleted
    <2> QED
        BY <1>0, <1>t, <2>1
<1>3. ASSUME NEW s \in SchemeIds, NEW l \in SchemeLists, CreateScheme(s, l) \/ UpdateScheme(s, l) PROVE QaInv'
    <2>1. /\ qaSchemes' \in {qaSchemes, [qaSchemes EXCEPT ![s] = l]}
          /\ UNCHANGED <<qaRules, qaRest>>
        BY <1>3 DEF CreateScheme, UpdateScheme, Inserted, Updated
    <2>2. qaSchemes' \in [SchemeIds -> SchemeLists \cup {NoRow}]
        BY <1>0, <2>1
    <2> QED
        BY <1>0, <1>t, <2>1, <2>2
<1>4. ASSUME NEW s \in SchemeIds, DeleteScheme(s) PROVE QaInv'
    <2>1. qaSchemes' \in [SchemeIds -> SchemeLists \cup {NoRow}] /\ UNCHANGED <<qaRules, qaRest>>
        BY <1>0, <1>4 DEF DeleteScheme, Deleted
    <2> QED
        BY <1>0, <1>t, <2>1
<1>5. ASSUME NEW x \in Examiners, NEW s \in SchemeIds, ReadScheme(x, s) PROVE QaInv'
    <2>1. PICK e : e = [at |-> "scheme", id |-> s, row |-> qaSchemes[s]]
        OBVIOUS
    <2>2. qaSchemes[s] \in SchemeLists
        BY <1>0, <1>5 DEF ReadScheme, Ids
    <2>3. e \in ExamRec /\ e.at = "scheme" /\ e.row \in SchemeLists
        BY <2>1, <2>2 DEF ExamRec
    <2>4. ExamOK(e)'
        BY <2>3 DEF ExamOK
    <2>5. /\ examiner' = [examiner EXCEPT ![x] = e]
          /\ UNCHANGED <<qaRules, qaSchemes, qaResults, doubled, unreviewed>>
        BY <1>5, <2>1 DEF ReadScheme, Moves
    <2> QED
        BY <1>0, <1>s, <2>3, <2>4, <2>5
<1>6. ASSUME NEW x \in Examiners, NEW t \in Transcripts, NEW a \in LlmAnswers, RunInspection(x, t, a)
      PROVE  QaInv'
    <2>0. PICK list : list = examiner[x].row
        OBVIOUS
    <2>1. list \in SchemeLists /\ list \in Seq(SchemeRec)
        BY <1>0, <1>6, <2>0 DEF RunInspection, ExamOK, SchemeRec
    <2>2. PICK places : places = {j \in DOMAIN list : list[j].rule \in Ids(qaRules)}
        OBVIOUS
    <2>3. PICK verdicts : verdicts = [i \in places |-> evaluateRule(qaRules[list[i].rule], t, a)]
        OBVIOUS
    <2>4. verdicts \in [places -> VerdictRec] /\ places \in SUBSET DOMAIN list /\ DOMAIN verdicts = places
        BY <2>2, <2>3, VerdictsTyped
    <2>5. PICK r : r = [num |-> Weigh(list, verdicts).num, den |-> Weigh(list, verdicts).den,
                        details |-> {verdicts[i] : i \in DOMAIN verdicts},
                        status |-> "completed", appealNote |-> FALSE, reviewer |-> FALSE,
                        negative |-> \E i \in DOMAIN verdicts : list[i].weight < 0]
        OBVIOUS
    <2>6. /\ r.num = Weigh(list, verdicts).num /\ r.den = Weigh(list, verdicts).den
          /\ r.details = {verdicts[i] : i \in DOMAIN verdicts} /\ r.status = "completed"
        BY <2>5
    <2>7. r.num \in Int /\ r.den \in Nat /\ r.den > 0
        BY <2>1, <2>4, <2>6, WeighTyped
    <2>m. Mean(r)
        <3>1. CASE r.negative
            BY <3>1 DEF Mean
        <3>2. CASE ~r.negative
            <4>1. \A i \in places : list[i].weight \in Int
                <5>1. DOMAIN list = 1..Len(list) /\ \A i \in 1..Len(list) : list[i] \in SchemeRec
                    BY <2>1, LenProperties, ElementOfSeq
                <5> QED
                    BY <2>4, <5>1 DEF SchemeRec
            <4>2. \A i \in places : list[i].weight >= 0
                BY <2>4, <2>5, <3>2, <4>1
            <4> QED
                BY <2>1, <2>4, <2>6, <4>2, WeighIsMean
        <3>3. r.negative \in BOOLEAN
            BY <2>5
        <3> QED
            BY <3>1, <3>2, <3>3
    <2>8. r.details \in SUBSET [passed : BOOLEAN, score : 0..100]
        BY <2>4, <2>6 DEF VerdictRec
    <2>9. r \in QAResult
        BY <2>5, <2>7, <2>8 DEF QAResult, QAResultStatus
    <2>10. SoundResult(r)
        BY <2>6, <2>7, <2>9, <2>m DEF SoundResult
    <2>11. PICK e : e = [at |-> "insert", id |-> "none", row |-> r]
        OBVIOUS
    <2>12. e \in ExamRec /\ e.at = "insert" /\ e.row = r
        BY <2>9, <2>11 DEF ExamRec
    <2>13. ExamOK(e)'
        BY <2>6, <2>10, <2>12 DEF ExamOK
    <2>14. /\ examiner' = [examiner EXCEPT ![x] = e]
           /\ UNCHANGED <<qaRules, qaSchemes, qaResults, doubled, unreviewed>>
        <3>1. verdicts = [i \in {j \in DOMAIN list : list[j].rule \in Ids(qaRules)} |->
                             evaluateRule(qaRules[list[i].rule], t, a)]
            BY <2>2, <2>3
        <3>2. /\ Moves(x, "insert", "none", r)
              /\ UNCHANGED <<qaResults, doubled, unreviewed>>
            BY <1>6, <2>0, <2>5, <3>1, Zenon DEF RunInspection
        <3> QED
            BY <2>11, <3>2 DEF Moves
    <2> QED
        BY <1>0, <1>s, <2>12, <2>13, <2>14
<1>7. ASSUME NEW x \in Examiners, NEW i \in ResultIds, InsertResult(x, i) PROVE QaInv'
    <2>0. PICK row : row = examiner[x].row
        OBVIOUS
    <2>1. SoundResult(row)
        BY <1>0, <1>7, <2>0 DEF InsertResult, ExamOK
    <2>2. /\ qaResults' = [qaResults EXCEPT ![i] = row] /\ examiner' = [examiner EXCEPT ![x] = Unoccupied]
          /\ UNCHANGED <<qaRules, qaSchemes, doubled, unreviewed>>
        BY <1>7, <2>0 DEF InsertResult, Inserted, Moves, Unoccupied
    <2>3. \A y \in Examiners : examiner[y].at = "update" => examiner[y].id # i
        BY <1>0, <1>7 DEF InsertResult, ExamOK, Ids
    <2> QED
        BY <1>0, <1>w, <2>1, <2>2, <2>3
\* An appeal or a review has read the row and found its status right.
<1>8. ASSUME NEW x \in Examiners, NEW i \in Ids(qaResults), NEW row, SoundResult(row), ReadResult(x, i, row),
             \/ qaResults[i].status = "completed" /\ row.status = "appealed"
             \/ qaResults[i].status = "appealed" /\ row.status = "reviewed"
      PROVE  QaInv'
    <2>1. PICK e : e = [at |-> "update", id |-> i, row |-> row]
        OBVIOUS
    <2>2. i \in ResultIds /\ row \in QAResult
        BY <1>0, <1>8 DEF SoundResult
    <2>3. e \in ExamRec /\ e.at = "update" /\ e.id = i /\ e.row = row
        BY <2>1, <2>2 DEF ExamRec
    <2>4. /\ examiner' = [examiner EXCEPT ![x] = e]
          /\ UNCHANGED <<qaRules, qaSchemes, qaResults, unreviewed>>
          /\ doubled' = IF \E y \in Examiners : examiner[y].at = "update" /\ examiner[y].id = i
                        THEN doubled \cup {i} ELSE doubled
        BY <1>8, <2>1 DEF ReadResult, Moves
    <2>5. ExamOK(e)'
        BY <1>8, <2>3, <2>4 DEF ExamOK
    <2>6. doubled \subseteq doubled' /\ doubled' \subseteq ResultIds
          /\ \A y \in Examiners : examiner[y].at = "update" /\ examiner[y].id = i => i \in doubled'
        BY <1>0, <2>2, <2>4
    <2> QED
        BY <1>s, <2>3, <2>4, <2>5, <2>6
<1>9. ASSUME NEW x \in Examiners, NEW i \in ResultIds, Appeal(x, i) PROVE QaInv'
    <2>1. i \in Ids(qaResults) /\ qaResults[i].status = "completed" /\ SoundResult(qaResults[i])
        BY <1>0, <1>9 DEF Appeal
    <2>2. PICK old : old = qaResults[i]
        OBVIOUS
    <2>3. PICK row : row = [old EXCEPT !.status = "appealed", !.appealNote = TRUE]
        OBVIOUS
    <2>4. /\ row \in QAResult /\ row.status = "appealed" /\ row.appealNote /\ row.num = old.num
          /\ row.den = old.den /\ row.details = old.details /\ row.negative = old.negative
        BY <2>1, <2>2, <2>3 DEF SoundResult, QAResult, QAResultStatus
    <2>5. SoundResult(row)
        BY <2>1, <2>2, <2>4 DEF SoundResult, Mean
    <2> QED
        BY <1>8, <1>9, <2>1, <2>2, <2>3, <2>4, <2>5 DEF Appeal
<1>10. ASSUME NEW x \in Examiners, NEW i \in ResultIds, NEW n \in NewScores, Review(x, i, n) PROVE QaInv'
    <2>1. i \in Ids(qaResults) /\ qaResults[i].status = "appealed" /\ SoundResult(qaResults[i])
        BY <1>0, <1>10 DEF Review
    <2>2. PICK old : old = qaResults[i]
        OBVIOUS
    <2>3. PICK row : row = [old EXCEPT !.status = "reviewed", !.reviewer = TRUE, !.num = n, !.den = 1]
        OBVIOUS
    <2>4. /\ row \in QAResult /\ row.status = "reviewed" /\ row.appealNote = old.appealNote
          /\ row.reviewer /\ row.den = 1
        BY <2>1, <2>2, <2>3 DEF SoundResult, QAResult, QAResultStatus
    <2>5. SoundResult(row)
        BY <2>1, <2>2, <2>4 DEF SoundResult
    <2> QED
        BY <1>8, <1>10, <2>1, <2>2, <2>3, <2>4, <2>5 DEF Review
<1>11. ASSUME NEW x \in Examiners, UpdateResult(x) PROVE QaInv'
    <2>0. PICK e, i : e = examiner[x] /\ i = e.id
        OBVIOUS
    <2>1. e.at = "update" /\ ExamOK(e) /\ i \in Ids(qaResults) /\ i \in ResultIds /\ SoundResult(e.row)
        BY <1>0, <1>11, <2>0 DEF UpdateResult, ExamOK
    <2>2. /\ qaResults' = [qaResults EXCEPT ![i] = e.row] /\ examiner' = [examiner EXCEPT ![x] = Unoccupied]
          /\ UNCHANGED <<qaRules, qaSchemes, doubled>>
          /\ unreviewed' = IF qaResults[i].status = "reviewed" /\ e.row.status # "reviewed"
                           THEN unreviewed \cup {i} ELSE unreviewed
        BY <1>11, <2>0, <2>1 DEF UpdateResult, Updated, Moves, Unoccupied, Ids
    <2>3. unreviewed' \subseteq doubled
        BY <1>0, <2>0, <2>1, <2>2 DEF ExamOK
    <2>4. \A y \in Examiners \ {x} : examiner[y].at = "update" /\ examiner[y].id = i => i \in doubled
        BY <1>o, <2>0, <2>1
    <2> QED
        BY <1>w, <2>1, <2>2, <2>3, <2>4
<1>12. ASSUME NEW x \in Examiners, QaRequestFails(x) PROVE QaInv'
    BY <1>12, <1>i DEF QaRequestFails
<1>13. CASE UNCHANGED qaVars
    BY <1>0, <1>13, <1>t DEF qaVars, qaRest
<1> QED
    BY <1>1, <1>2, <1>3, <1>4, <1>5, <1>6, <1>7, <1>9, <1>10, <1>11, <1>12, <1>13 DEF QaNext

LEMMA InitQa == QaInit => QaInv
<1> SUFFICES ASSUME QaInit PROVE QaInv
    OBVIOUS
<1>1. Unoccupied \in ExamRec /\ Unoccupied.at = "idle"
    BY DEF Unoccupied, ExamRec
<1> QED
    BY <1>1 DEF QaInit, QaInv, ExamOK, Ids

(* QaInv holds in every reachable state: results, stored and held, are sound. *)
THEOREM QaInvariant == ServicesSpec => []QaInv
<1>1. ServicesInit => QaInv
    BY InitQa DEF ServicesInit
<1>2. [ServicesNext]_servicesVars => [QaNext]_qaVars
    BY DEF ServicesNext, servicesVars
<1>3. QaInv /\ [ServicesNext]_servicesVars => QaInv'
    BY <1>2, NextQa
<1> QED
    BY <1>1, <1>3, PTL DEF ServicesSpec

(* Every kind of rule answers all or nothing, but for the hangup rule, which *)
(* passes some calls with less, and the language model, whose own score is   *)
(* compared with a threshold.                                                *)
LEMMA VerdictsOfRules ==
    ASSUME NEW rule \in SampleRules, NEW t, NEW answer \in SampleAnswers
    PROVE  LET v == evaluateRule(rule, t, answer)
           IN  \/ v = [passed |-> TRUE, score |-> 100]
               \/ v = [passed |-> FALSE, score |-> 0]
               \/ rule.type = "abnormal_hangup" /\ v = [passed |-> TRUE, score |-> 80]
               \/ /\ rule.type = "llm" /\ ~Unreadable(rule.config) /\ answer >= 0
                  /\ v.passed <=> answer >= OrDefault(rule.config.threshold, 60)
                  /\ v.score = answer
<1> DEFINE Full == [passed |-> TRUE, score |-> 100]
           Zero == [passed |-> FALSE, score |-> 0]
           cfg == rule.config
           Judged == [passed |-> answer >= OrDefault(cfg.threshold, 60), score |-> answer]
<1>1. ASSUME NEW p \in BOOLEAN PROVE Verdict(p) \in {Full, Zero}
    BY <1>1 DEF Verdict
<1>2. /\ evaluateKeywordRule(cfg, t) \in {Full, Zero} /\ evaluateRegexRule(cfg, t) \in {Full, Zero}
      /\ evaluateSilenceRule(cfg, t) \in {Full, Zero} /\ evaluateInterruptionRule(cfg, t) \in {Full, Zero}
    <2>1. evaluateKeywordRule(cfg, t) \in {Full, Zero}
        BY <1>1 DEF evaluateKeywordRule
    <2>2. evaluateRegexRule(cfg, t) \in {Full, Zero}
        <3>1. CASE cfg.pattern \in t.phrases
            BY <3>1 DEF evaluateRegexRule, Verdict
        <3>2. CASE cfg.pattern \notin t.phrases
            <4>1. (cfg.pattern \in t.phrases) = FALSE
                BY <3>2
            <4> QED
                BY <1>1, <4>1 DEF evaluateRegexRule
        <3> QED
            BY <3>1, <3>2
    <2>3. evaluateSilenceRule(cfg, t) \in {Full, Zero}
        BY <1>1 DEF evaluateSilenceRule
    <2>4. evaluateInterruptionRule(cfg, t) \in {Full, Zero}
        <3>1. CASE t.interruptions <= OrDefault(cfg.max, 3)
            BY <3>1 DEF evaluateInterruptionRule, Verdict
        <3>2. CASE ~(t.interruptions <= OrDefault(cfg.max, 3))
            <4>1. (t.interruptions <= OrDefault(cfg.max, 3)) = FALSE
                BY <3>2
            <4> QED
                BY <1>1, <4>1 DEF evaluateInterruptionRule
        <3> QED
            BY <3>1, <3>2
    <2> QED
        BY <2>1, <2>2, <2>3, <2>4
<1>3. /\ evaluateSpeedRule(cfg, t) \in {Full, Zero} /\ evaluateEnergyRule(cfg, t) \in {Full, Zero}
      /\ evaluateDurationRule(cfg, t) \in {Full, Zero} /\ evaluateEntityRule(cfg, t) \in {Full, Zero}
      /\ evaluateRoleRule(cfg, t) \in {Full, Zero}
    <2>1. evaluateSpeedRule(cfg, t) \in {Full, Zero}
        BY <1>1 DEF evaluateSpeedRule
    <2>2. evaluateEnergyRule(cfg, t) \in {Full, Zero}
        BY <1>1 DEF evaluateEnergyRule
    <2>3. evaluateDurationRule(cfg, t) \in {Full, Zero}
        BY <1>1 DEF evaluateDurationRule, Within
    <2>4. evaluateEntityRule(cfg, t) \in {Full, Zero}
        BY <1>1 DEF evaluateEntityRule
    <2>5. evaluateRoleRule(cfg, t) \in {Full, Zero}
        BY <1>1 DEF evaluateRoleRule
    <2> QED
        BY <2>1, <2>2, <2>3, <2>4, <2>5
<1>4. evaluateAbnormalHangupRule(t) \in {Full, Zero, [passed |-> TRUE, score |-> 80]}
    BY <1>1 DEF evaluateAbnormalHangupRule
<1>5. evaluateLLMRule(cfg, answer) \in {Full, Zero} \/ (answer >= 0 /\ evaluateLLMRule(cfg, answer) = Judged)
    <2>1. answer \in Int /\ (answer = -2 \/ answer = -1 \/ answer >= 0)
        BY DEF SampleAnswers
    <2>2. CASE answer = -2 \/ answer = -1
        BY <1>1, <2>2 DEF evaluateLLMRule
    <2>3. CASE answer >= 0
        <3>1. answer # -2 /\ answer # -1
            BY <2>1, <2>3
        <3>2. evaluateLLMRule(cfg, answer) = Judged
            BY <3>1, Zenon DEF evaluateLLMRule
        <3> QED
            BY <2>3, <3>2
    <2> QED
        BY <2>1, <2>2, <2>3
<1>6. Verdict(TRUE) = Full /\ Verdict(FALSE) = Zero
    BY DEF Verdict
<1>7. CASE rule.type = "abnormal_hangup"
    <2>1. evaluateRule(rule, t, answer) = evaluateAbnormalHangupRule(t)
        BY <1>7 DEF evaluateRule, RuleTypes
    <2> QED
        BY <1>4, <1>7, <2>1
<1>8. CASE rule.type \notin RuleTypes
    BY <1>6, <1>8 DEF evaluateRule, RuleTypes
<1>9. CASE rule.type \in RuleTypes \ {"abnormal_hangup"} /\ Unreadable(rule.config)
    <2>1. rule.type # "abnormal_hangup" /\ rule.type \in RuleTypes
        BY <1>9
    <2>2. evaluateRule(rule, t, answer) = Verdict(FALSE)
        <3> HIDE DEF cfg
        <3> QED
            BY <1>9, <2>1 DEF evaluateRule
    <2> QED
        BY <1>6, <2>2
<1>10. CASE rule.type \in RuleTypes \ {"abnormal_hangup", "llm"} /\ ~Unreadable(rule.config)
    <2> HIDE DEF Full, Zero, cfg
    <2>1. evaluateRule(rule, t, answer) \in {Full, Zero}
        BY <1>2, <1>3, <1>10 DEF evaluateRule, RuleTypes, cfg
    <2> QED
        BY <2>1 DEF Full, Zero
<1>11. CASE rule.type = "llm" /\ ~Unreadable(rule.config)
    <2> HIDE DEF Full, Zero, Judged
    <2>1. evaluateRule(rule, t, answer) = evaluateLLMRule(cfg, answer)
        BY <1>11 DEF evaluateRule, RuleTypes
    <2>2. CASE evaluateLLMRule(cfg, answer) \in {Full, Zero}
        BY <2>1, <2>2 DEF Full, Zero
    <2>3. CASE answer >= 0 /\ evaluateLLMRule(cfg, answer) = Judged
        <3>1. Judged.score = answer /\ (Judged.passed <=> answer >= OrDefault(cfg.threshold, 60))
            BY DEF Judged
        <3> QED
            BY <1>11, <2>1, <2>3, <3>1
    <2> QED
        BY <1>5, <2>2, <2>3
<1> QED
    BY <1>7, <1>8, <1>9, <1>10, <1>11 DEF RuleTypes

(* So a verdict that fails a call scores it below every verdict of the same  *)
(* rule that passes one.                                                     *)
LEMMA FailuresScoreLess == RulesRank
<1> SUFFICES ASSUME NEW rule \in SampleRules, NEW v \in SampleVerdicts(rule), NEW w \in SampleVerdicts(rule),
                    ~v.passed, w.passed
             PROVE  v.score < w.score
    BY DEF RulesRank
<1>1. PICK t \in SampleTranscripts, a \in SampleAnswers : v = evaluateRule(rule, t, a)
    BY DEF SampleVerdicts
<1>2. PICK u \in SampleTranscripts, b \in SampleAnswers : w = evaluateRule(rule, u, b)
    BY DEF SampleVerdicts
<1>3. a \in Int /\ b \in Int /\ a <= 100
    BY DEF SampleAnswers
<1>4. CASE rule.type = "llm" /\ ~Unreadable(rule.config)
    <2>1. PICK limit \in Int : limit = OrDefault(rule.config.threshold, 60) /\ limit > 0 /\ limit <= 100
        BY <1>4, SampleAssumption DEF OrDefault
    <2>2. v.score = 0 \/ (a < limit /\ v.score = a)
        BY <1>1, <1>3, <2>1, VerdictsOfRules
    <2>3. w.score = 100 \/ (b >= limit /\ w.score = b)
        BY <1>2, <1>3, <1>4, <2>1, VerdictsOfRules
    <2> QED
        BY <1>3, <2>1, <2>2, <2>3
<1>5. CASE ~(rule.type = "llm" /\ ~Unreadable(rule.config))
    <2>1. v.score = 0
        BY <1>1, <1>5, VerdictsOfRules
    <2>2. w.score \in {80, 100}
        BY <1>2, <1>5, VerdictsOfRules
    <2> QED
        BY <2>1, <2>2
<1> QED
    BY <1>4, <1>5

-----------------------------------------------------------------------------
(* For any number of clerks and examiners, any rules, lists, weights and     *)
(* transcripts: a resolved ticket has its time, a ticket's template was      *)
(* published once, statuses jump only where requests overlapped; a score     *)
(* nobody reviewed lies between its verdicts unless a rule it is made of has *)
(* a negative weight, and failing scores less than passing; reviews answer   *)
(* appeals, and are lost only to requests that met.                          *)
THEOREM CaseworkIsSafe == ServicesSpec => []CaseworkSafe
<1>1. TicketInv => TicketTypeOK /\ ResolvedHasTime /\ TemplateWasPublished /\ JumpsOnlyWhereOverlapped
    <2> SUFFICES ASSUME TicketInv
                 PROVE  TicketTypeOK /\ ResolvedHasTime /\ TemplateWasPublished /\ JumpsOnlyWhereOverlapped
        OBVIOUS
    <2>1. TicketTypeOK
        BY DEF TicketInv, TicketTypeOK, Desk
    <2> QED
        BY <2>1 DEF TicketInv, SoundTicket, ResolvedHasTime, TemplateWasPublished, JumpsOnlyWhereOverlapped
<1>2. QaInv => QaTypeOK /\ ScoreIsMean /\ FailingScoresLess /\ ReviewAnswersAppeal /\ ReviewStands
    <2> SUFFICES ASSUME QaInv
                 PROVE  QaTypeOK /\ ScoreIsMean /\ FailingScoresLess /\ ReviewAnswersAppeal /\ ReviewStands
        OBVIOUS
    <2>1. QaTypeOK
        BY DEF QaInv, QaTypeOK, ExamRec, ExamOK, SoundResult
    <2>2. ScoreIsMean
        BY DEF QaInv, ScoreIsMean, SoundResult, Mean
    <2>3. FailingScoresLess
        BY FailuresScoreLess DEF FailingScoresLess
    <2> QED
        BY <2>1, <2>2, <2>3 DEF QaInv, SoundResult, ReviewAnswersAppeal, ReviewStands
<1>3. TicketInv /\ QaInv => CaseworkSafe
    BY <1>1, <1>2 DEF CaseworkSafe
<1> QED
    BY <1>3, TicketInvariant, QaInvariant, PTL

-----------------------------------------------------------------------------
(***************************************************************************)
(* Labelling tasks. Where no two requests met at a task, a copy of it is   *)
(* the row that is stored, and the count of labels is behind the results   *)
(* by the one submission that has inserted and not yet counted.            *)
(***************************************************************************)

\* What a stored status may become through a row: a final one does not go on.
GoesOn(old, new) ==
    /\ old = "completed" => new = "completed"
    /\ old = "cancelled" => new \in {"completed", "cancelled"}

CopyOK(c) ==
    c # AtPause =>
        LET k == c.task
        IN  /\ tasks[k] # NoRow
            /\ c.row.labeled + (IF c.at = "count" THEN 1 ELSE 0) <= Stored(k)
            /\ k \notin crossed /\ c.at # "write" =>
                  c.row = tasks[k] /\ c.row.status \notin {"completed", "cancelled"}
            /\ k \notin crossed /\ c.at = "write" =>
                  /\ c.row.labeled = tasks[k].labeled /\ c.row.total = tasks[k].total
                  /\ GoesOn(tasks[k].status, c.row.status)
            /\ k \notin crossed \cup unseen /\ c.at = "insert" => results[k][c.item] = 0

LabelsOf(k) ==
    /\ tasks[k] = NoRow => Stored(k) = 0
    /\ tasks[k] # NoRow => tasks[k].labeled <= Stored(k)
    /\ k \notin crossed \cup unseen => \A i \in Items : results[k][i] <= 1
    /\ tasks[k] # NoRow /\ k \notin crossed \cup halved =>
          /\ Stored(k) = tasks[k].labeled
                + (IF \E a \in Annotators : On(a, k) /\ labelling[a].at = "count" THEN 1 ELSE 0)
          /\ tasks[k].labeled > 0 /\ tasks[k].labeled >= tasks[k].total => tasks[k].status = "completed"

AnnInv ==
    /\ tasks \in [TaskIds -> AnnotationTask \cup {NoRow}]
    /\ results \in [TaskIds -> [Items -> 0..MaxResults]]
    /\ labelling \in [Annotators -> Copies \cup {AtPause}]
    /\ crossed \cup halved \cup unseen \cup revived \subseteq TaskIds
    /\ revived \subseteq crossed
    /\ \A a \in Annotators : CopyOK(labelling[a])
    /\ \A k \in TaskIds : LabelsOf(k)
    /\ \A a, b \in Annotators :
          labelling[a] # AtPause /\ On(b, labelling[a].task) => labelling[a].task \in crossed \/ a = b

\* A result more in an item is a result more in its task.
LEMMA StoredTyped ==
    ASSUME NEW k \in TaskIds, results \in [TaskIds -> [Items -> 0..MaxResults]]
    PROVE  /\ IsFiniteSet({e \in Items \X (1..MaxResults) : e[2] <= results[k][e[1]]})
           /\ Stored(k) \in Nat
<1>1. IsFiniteSet(Items \X (1..MaxResults))
    <2>1. IsFiniteSet(Items) /\ IsFiniteSet(1..MaxResults)
        BY AnnotationAssumption, FS_Interval
    <2> QED
        BY <2>1, FS_Product
<1>2. IsFiniteSet({e \in Items \X (1..MaxResults) : e[2] <= results[k][e[1]]})
    BY <1>1, FS_Subset
<1> QED
    BY <1>2, FS_CardinalityType DEF Stored

LEMMA StoredGrows ==
    ASSUME NEW k \in TaskIds, NEW i \in Items, results \in [TaskIds -> [Items -> 0..MaxResults]],
           results[k][i] < MaxResults, results' = [results EXCEPT ![k][i] = results[k][i] + 1]
    PROVE  /\ results' \in [TaskIds -> [Items -> 0..MaxResults]]
           /\ results'[k][i] = results[k][i] + 1
           /\ Stored(k)' = Stored(k) + 1
           /\ \A l \in TaskIds \ {k} : Stored(l)' = Stored(l) /\ results'[l] = results[l]
           /\ \A j \in Items \ {i} : results'[k][j] = results[k][j]
<1> USE AnnotationAssumption
<1>1. PICK n \in Nat : n = results[k][i] /\ n < MaxResults
    OBVIOUS
<1>2. /\ results' \in [TaskIds -> [Items -> 0..MaxResults]]
      /\ results'[k][i] = n + 1
      /\ \A j \in Items \ {i} : results'[k][j] = results[k][j]
      /\ \A l \in TaskIds \ {k} : results'[l] = results[l]
    BY <1>1
<1>3. \A l \in TaskIds \ {k} : Stored(l)' = Stored(l)
    BY <1>2 DEF Stored
<1>4. PICK old : old = {e \in Items \X (1..MaxResults) : e[2] <= results[k][e[1]]}
    OBVIOUS
<1>5. PICK new : new = {e \in Items \X (1..MaxResults) : e[2] <= results'[k][e[1]]}
    OBVIOUS
<1>6. <<i, n + 1>> \in Items \X (1..MaxResults) /\ <<i, n + 1>> \notin old
    BY <1>1, <1>4
<1>7. ASSUME NEW j \in Items, NEW m \in 1..MaxResults
      PROVE  m <= results'[k][j] <=> m <= results[k][j] \/ <<j, m>> = <<i, n + 1>>
    <2>1. CASE j = i
        BY <1>1, <1>2, <2>1
    <2>2. CASE j # i
        BY <1>2, <2>2
    <2> QED
        BY <2>1, <2>2
<1>8. ASSUME NEW e \in Items \X (1..MaxResults) PROVE e \in new <=> e \in old \/ e = <<i, n + 1>>
    <2>1. PICK j \in Items, m \in 1..MaxResults : e = <<j, m>>
        OBVIOUS
    <2>2. e[1] = j /\ e[2] = m
        BY <2>1
    <2> QED
        BY <1>4, <1>5, <1>7, <2>1, <2>2
<1>9. new = old \cup {<<i, n + 1>>}
    BY <1>4, <1>5, <1>6, <1>8
<1>10. IsFiniteSet(old) /\ Stored(k) = Cardinality(old) /\ Stored(k)' = Cardinality(new)
    BY <1>4, <1>5, StoredTyped DEF Stored
<1>11. Stored(k)' = Stored(k) + 1
    BY <1>6, <1>9, <1>10, FS_AddElement
<1> QED
    BY <1>1, <1>2, <1>3, <1>11

LEMMA NextAnnotation == AnnInv /\ [AnnotationNext]_annotationVars => AnnInv'
<1> SUFFICES ASSUME AnnInv, [AnnotationNext]_annotationVars PROVE AnnInv'
    OBVIOUS
<1> USE AnnotationAssumption
<1>0. /\ tasks \in [TaskIds -> AnnotationTask \cup {NoRow}]
      /\ results \in [TaskIds -> [Items -> 0..MaxResults]]
      /\ labelling \in [Annotators -> Copies \cup {AtPause}]
      /\ crossed \cup halved \cup unseen \cup revived \subseteq TaskIds
      /\ revived \subseteq crossed
      /\ \A a \in Annotators : CopyOK(labelling[a])
      /\ \A k \in TaskIds : LabelsOf(k)
    BY DEF AnnInv
<1>u. ASSUME NEW a \in Annotators, NEW b \in Annotators, labelling[a] # AtPause, labelling[b] # AtPause,
             labelling[b].task = labelling[a].task, labelling[a].task \notin crossed
      PROVE  a = b
    BY <1>u DEF AnnInv, On
<1>k. ASSUME NEW c \in Copies \cup {AtPause}
      PROVE  /\ c = AtPause <=> c.at = "pause"
             /\ c # AtPause => /\ c \in Copies /\ c.at \in {"look", "insert", "count", "write"}
                               /\ c.task \in TaskIds /\ c.row \in AnnotationTask
                               /\ c.at # "write" => c.item \in Items
    BY DEF Copies, AtPause
<1>r. ASSUME NEW r \in AnnotationTask
      PROVE  /\ r.total \in Int /\ r.total \in Totals /\ r.labeled \in Nat
             /\ r.status \in AnnotationTaskStatus /\ r # NoRow
    BY DEF AnnotationTask
<1>s. \A k \in TaskIds : Stored(k) \in Nat
    BY <1>0, StoredTyped
<1>f. UNCHANGED results => \A k \in TaskIds : Stored(k)' = Stored(k)
    BY DEF Stored
\* A request reads, goes on or leaves; no row and no result changes.
<1>m. ASSUME NEW a \in Annotators, NEW h \in Copies \cup {AtPause}, labelling' = [labelling EXCEPT ![a] = h],
             UNCHANGED <<tasks, results, revived>>, h.at # "count", CopyOK(h)',
             crossed \subseteq crossed', unseen \subseteq unseen', halved \subseteq halved',
             crossed' \cup unseen' \cup halved' \subseteq TaskIds,
             labelling[a].at = "count" => labelling[a].task \in halved',
             h # AtPause => \A b \in Annotators \ {a} : On(b, h.task) => h.task \in crossed'
      PROVE  AnnInv'
    <2>1. /\ labelling' \in [Annotators -> Copies \cup {AtPause}]
          /\ labelling'[a] = h /\ \A b \in Annotators \ {a} : labelling'[b] = labelling[b]
        BY <1>0, <1>m
    <2>2. ASSUME NEW b \in Annotators PROVE CopyOK(labelling[b])'
        <3>1. CASE b = a
            BY <1>m, <2>1, <3>1 DEF CopyOK
        <3>2. CASE b # a /\ labelling[b] # AtPause
            <4>1. PICK k \in TaskIds : k = labelling[b].task
                BY <1>0, <1>k, <3>2
            <4>2. Stored(k)' = Stored(k)
                BY <1>f, <1>m
            <4> QED
                BY <1>0, <1>m, <2>1, <3>2, <4>1, <4>2 DEF CopyOK
        <3> QED
            BY <2>1, <3>1, <3>2 DEF CopyOK
    <2>3. ASSUME NEW k \in TaskIds PROVE LabelsOf(k)'
        <3>1. Stored(k)' = Stored(k)
            BY <1>f, <1>m
        <3>2. ASSUME k \notin halved'
              PROVE  (\E b \in Annotators : On(b, k)' /\ labelling'[b].at = "count")
                        <=> \E b \in Annotators : On(b, k) /\ labelling[b].at = "count"
            BY <1>m, <2>1, <3>2 DEF On
        <3>3. LabelsOf(k)
            BY <1>0
        <3> QED
            BY <1>m, <3>1, <3>2, <3>3 DEF LabelsOf
    <2>4. ASSUME NEW b \in Annotators, NEW c \in Annotators, labelling'[b] # AtPause, labelling'[c] # AtPause,
                 labelling'[c].task = labelling'[b].task, labelling'[b].task \notin crossed'
          PROVE  b = c
        BY <1>m, <1>u, <2>1, <2>4 DEF On
    <2> QED
        BY <1>0, <1>m, <2>1, <2>2, <2>3, <2>4 DEF AnnInv, On
\* It leaves, or goes on with what it holds.
<1>1. ASSUME NEW a \in Annotators, NEW k \in TaskIds, NEW h \in Copies, tasks[k] # NoRow,
             h.at \in {"look", "write"}, h.task = k, h.row.labeled = tasks[k].labeled,
             h.row.total = tasks[k].total,
             h.at = "look" => h.row = tasks[k] /\ h.row.status \notin {"completed", "cancelled"},
             h.at = "write" => GoesOn(tasks[k].status, h.row.status),
             ReadTask(a, k, h)
      PROVE  AnnInv'
    <2>1. /\ labelling[a] = AtPause /\ labelling' = [labelling EXCEPT ![a] = h]
          /\ crossed' = IF \E b \in Annotators : On(b, k) THEN crossed \cup {k} ELSE crossed
          /\ UNCHANGED <<tasks, results, halved, unseen, revived>>
        BY <1>1 DEF ReadTask
    <2>2. CopyOK(h)'
        <3>1. Stored(k)' = Stored(k) /\ tasks[k].labeled <= Stored(k) /\ tasks[k].labeled \in Nat
            BY <1>0, <1>1, <1>f, <1>r, <2>1 DEF LabelsOf
        <3> QED
            BY <1>1, <2>1, <3>1 DEF CopyOK, Stored
    <2>3. /\ crossed \subseteq crossed' /\ crossed' \cup unseen' \cup halved' \subseteq TaskIds
          /\ \A b \in Annotators \ {a} : On(b, h.task) => h.task \in crossed'
          /\ labelling[a].at # "count" /\ h.at # "count"
        BY <1>0, <1>1, <2>1 DEF AtPause
    <2> QED
        BY <1>1, <1>m, <2>1, <2>2, <2>3
<1>2. ASSUME NEW a \in Annotators, NEW k \in TaskIds, NEW status \in {"in_progress", "completed", "cancelled"},
             tasks[k] # NoRow => GoesOn(tasks[k].status, status), SetStatus(a, k, status)
      PROVE  AnnInv'
    <2>1. PICK row : row = [tasks[k] EXCEPT !.status = status]
        OBVIOUS
    <2>2. PICK h : h = [at |-> "write", task |-> k, row |-> row]
        OBVIOUS
    <2>3. tasks[k] # NoRow /\ tasks[k] \in AnnotationTask /\ ReadTask(a, k, h)
        BY <1>0, <1>2, <2>1, <2>2 DEF SetStatus, ReadTask, Ids
    <2>4. /\ row \in AnnotationTask /\ row.labeled = tasks[k].labeled /\ row.total = tasks[k].total
          /\ row.status = status
        BY <2>1, <2>3 DEF AnnotationTask, AnnotationTaskStatus
    <2>5. h \in Copies /\ h.at = "write" /\ h.task = k /\ h.row = row
        BY <2>2, <2>4 DEF Copies
    <2> QED
        BY <1>1, <1>2, <2>3, <2>4, <2>5
<1>3. ASSUME NEW a \in Annotators, NEW k \in TaskIds, StartTask(a, k) \/ CompleteTask(a, k) \/ CancelTask(a, k)
      PROVE  AnnInv'
    BY <1>2, <1>3 DEF StartTask, CompleteTask, CancelTask, Final, GoesOn
<1>4. ASSUME NEW a \in Annotators, NEW k \in TaskIds, NEW i \in Items, SubmitAnnotation(a, k, i)
      PROVE  AnnInv'
    <2>1. PICK h : h = [at |-> "look", task |-> k, row |-> tasks[k], item |-> i]
        OBVIOUS
    <2>2. /\ tasks[k] # NoRow /\ tasks[k] \in AnnotationTask /\ ReadTask(a, k, h)
          /\ tasks[k].status \notin {"completed", "cancelled"}
        BY <1>0, <1>4, <2>1 DEF SubmitAnnotation, Final, ReadTask, Ids
    <2>3. h \in Copies /\ h.at = "look" /\ h.task = k /\ h.row = tasks[k]
        BY <2>1, <2>2 DEF Copies
    <2> QED
        BY <1>1, <2>2, <2>3
<1>5. ASSUME NEW a \in Annotators, NEW at \in {"look", "insert"}, labelling[a].at = "look",
             labelling' = [labelling EXCEPT ![a].at = at],
             UNCHANGED <<tasks, results, crossed, halved, revived>>,
             unseen \subseteq unseen', unseen' \subseteq TaskIds,
             \/ labelling[a].task \in unseen'
             \/ results[labelling[a].task][labelling[a].item] = 0
      PROVE  AnnInv'
    <2>1. PICK h : h = [labelling[a] EXCEPT !.at = at]
        OBVIOUS
    <2>2. labelling[a] \in [at : {"look", "insert", "count"}, task : TaskIds, row : AnnotationTask, item : Items]
        BY <1>0, <1>5 DEF Copies, AtPause
    <2>3. /\ h \in [at : {"look", "insert", "count"}, task : TaskIds, row : AnnotationTask, item : Items]
          /\ h.at = at /\ h.task = labelling[a].task /\ h.row = labelling[a].row
          /\ h.item = labelling[a].item
        BY <2>1, <2>2
    <2>4. h \in Copies /\ labelling' = [labelling EXCEPT ![a] = h] /\ labelling[a] # AtPause
        BY <1>0, <1>5, <1>k, <2>1, <2>3 DEF Copies
    <2>5. CopyOK(h)'
        <3>1. PICK k \in TaskIds : k = h.task
            BY <2>3
        <3>2. Stored(k)' = Stored(k)
            BY <1>5, <1>f
        <3>3. /\ tasks[k] # NoRow /\ h.row.labeled + 0 <= Stored(k)
              /\ k \notin crossed => h.row = tasks[k] /\ h.row.status \notin {"completed", "cancelled"}
            BY <1>0, <1>5, <2>3, <2>4, <3>1 DEF CopyOK
        <3>4. k \notin unseen' => results[k][h.item] = 0
            BY <1>5, <2>3, <3>1
        <3> QED
            BY <1>5, <2>3, <3>1, <3>2, <3>3, <3>4 DEF CopyOK
    <2>6. \A b \in Annotators \ {a} : On(b, h.task) => h.task \in crossed'
        BY <1>5, <1>u, <2>3, <2>4 DEF On
    <2> QED
        BY <1>0, <1>5, <1>m, <2>3, <2>4, <2>5, <2>6
<1>6. ASSUME NEW a \in Annotators, labelling' = [labelling EXCEPT ![a] = AtPause],
             UNCHANGED <<tasks, results, crossed, unseen, revived>>,
             halved \subseteq halved', halved' \subseteq TaskIds,
             labelling[a].at = "count" => labelling[a].task \in halved'
      PROVE  AnnInv'
    <2>1. CopyOK(AtPause)' /\ AtPause.at # "count"
        BY DEF CopyOK, AtPause
    <2> QED
        BY <1>0, <1>6, <1>m, <2>1
<1>7. ASSUME NEW a \in Annotators, GetByTaskAndIndex(a) PROVE AnnInv'
    <2>1. /\ labelling[a].at = "look"
          /\ labelling[a].task \in TaskIds /\ labelling[a].item \in Items
          /\ UNCHANGED <<tasks, results, crossed, halved, revived>>
        BY <1>0, <1>7, <1>k DEF GetByTaskAndIndex, AtPause
    <2>2. CASE results[labelling[a].task][labelling[a].item] = 0 /\ Move(a, "insert") /\ UNCHANGED unseen
        BY <1>0, <1>5, <2>1, <2>2 DEF Move
    <2>3. CASE Leave(a) /\ UNCHANGED unseen
        BY <1>0, <1>6, <2>1, <2>3 DEF Leave
    <2>4. CASE Move(a, "insert") /\ unseen' = unseen \cup {labelling[a].task}
        BY <1>0, <1>5, <2>1, <2>4 DEF Move
    <2> QED
        BY <1>7, <2>2, <2>3, <2>4 DEF GetByTaskAndIndex
<1>8. ASSUME NEW a \in Annotators, AnnotationFails(a) PROVE AnnInv'
    <2>1. labelling[a].task \in TaskIds
        BY <1>0, <1>8, <1>k DEF AnnotationFails
    <2>2. /\ labelling' = [labelling EXCEPT ![a] = AtPause]
          /\ UNCHANGED <<tasks, results, crossed, unseen, revived>>
          /\ halved' = IF labelling[a].at = "count" THEN halved \cup {labelling[a].task} ELSE halved
        BY <1>8 DEF AnnotationFails, Leave
    <2> QED
        BY <1>0, <1>6, <2>1, <2>2
<1>9. ASSUME NEW k \in TaskIds, NEW total \in Totals, CreateAnnotationTask(k, total) PROVE AnnInv'
    <2>1. PICK new \in AnnotationTask : new = [total |-> total, labeled |-> 0, status |-> "pending"]
        BY DEF AnnotationTask, AnnotationTaskStatus
    <2>2. /\ tasks[k] = NoRow /\ tasks' = [tasks EXCEPT ![k] = new]
          /\ UNCHANGED <<results, labelling, crossed, halved, unseen, revived>>
        BY <1>9, <2>1 DEF CreateAnnotationTask, Inserted, annotationHistory
    <2>3. /\ tasks' \in [TaskIds -> AnnotationTask \cup {NoRow}] /\ tasks'[k] = new
          /\ new.labeled = 0 /\ new.status = "pending" /\ new # NoRow
          /\ \A l \in TaskIds \ {k} : tasks'[l] = tasks[l]
        BY <1>0, <1>r, <2>1, <2>2
    <2>4. ASSUME NEW b \in Annotators PROVE ~On(b, k) /\ CopyOK(labelling[b])'
        <3>1. ~On(b, k)
            BY <1>0, <2>2 DEF On, CopyOK
        <3>2. labelling[b] # AtPause => labelling[b].task \in TaskIds \ {k}
            BY <1>0, <1>k, <3>1 DEF On
        <3>3. CASE labelling[b] # AtPause
            <4>1. PICK l \in TaskIds \ {k} : l = labelling[b].task
                BY <3>2, <3>3
            <4>2. Stored(l)' = Stored(l) /\ tasks'[l] = tasks[l]
                BY <1>f, <2>2, <2>3
            <4> QED
                BY <1>0, <2>2, <3>1, <4>1, <4>2 DEF CopyOK
        <3> QED
            BY <2>2, <3>1, <3>3 DEF CopyOK
    <2>5. ASSUME NEW l \in TaskIds PROVE LabelsOf(l)'
        <3>1. Stored(l)' = Stored(l) /\ LabelsOf(l) /\ Stored(l) \in Nat
            BY <1>0, <1>f, <1>s, <2>2
        <3>2. CASE l = k
            BY <2>2, <2>3, <2>4, <3>1, <3>2 DEF LabelsOf, On
        <3>3. CASE l # k
            BY <2>2, <2>3, <3>1, <3>3 DEF LabelsOf, On
        <3> QED
            BY <3>2, <3>3
    <2> QED
        BY <1>0, <1>u, <2>2, <2>3, <2>4, <2>5 DEF AnnInv, On
<1>10. ASSUME NEW a \in Annotators, InsertAnnotation(a) PROVE AnnInv'
    <2>1. labelling[a].at = "insert"
        BY <1>10 DEF InsertAnnotation
    <2>2. labelling[a] \in [at : {"look", "insert", "count"}, task : TaskIds, row : AnnotationTask, item : Items]
        BY <1>0, <2>1 DEF Copies, AtPause
    <2>3. PICK k \in TaskIds, i \in Items : k = labelling[a].task /\ i = labelling[a].item
        BY <2>2
    <2>4. PICK h : h = [labelling[a] EXCEPT !.at = "count"]
        OBVIOUS
    <2>5. /\ h \in [at : {"look", "insert", "count"}, task : TaskIds, row : AnnotationTask, item : Items]
          /\ h.at = "count" /\ h.task = k /\ h.row = labelling[a].row
        BY <2>2, <2>3, <2>4
    <2>6. /\ h \in Copies /\ labelling' = [labelling EXCEPT ![a] = h] /\ labelling[a] # AtPause
          /\ UNCHANGED <<tasks, crossed, halved, unseen, revived>>
        BY <1>0, <1>10, <1>k, <2>1, <2>4, <2>5 DEF Copies, InsertAnnotation, Move, annotationHistory
    <2>7. /\ labelling' \in [Annotators -> Copies \cup {AtPause}]
          /\ labelling'[a] = h /\ \A b \in Annotators \ {a} : labelling'[b] = labelling[b]
        BY <1>0, <2>6
    <2>8. results[k][i] < MaxResults /\ results' = [results EXCEPT ![k][i] = results[k][i] + 1]
        BY <1>10, <2>3 DEF InsertAnnotation
    <2>9. /\ results' \in [TaskIds -> [Items -> 0..MaxResults]]
          /\ results'[k][i] = results[k][i] + 1
          /\ Stored(k)' = Stored(k) + 1 /\ Stored(k) \in Nat
          /\ \A l \in TaskIds \ {k} : Stored(l)' = Stored(l) /\ results'[l] = results[l]
          /\ \A j \in Items \ {i} : results'[k][j] = results[k][j]
        BY <1>0, <1>s, <2>8, StoredGrows
    <2>10. /\ tasks[k] # NoRow /\ labelling[a].row.labeled <= Stored(k) /\ labelling[a].row.labeled \in Nat
           /\ k \notin crossed => labelling[a].row = tasks[k]
                                  /\ labelling[a].row.status \notin {"completed", "cancelled"}
           /\ k \notin crossed \cup unseen => results[k][i] = 0
        BY <1>0, <1>r, <2>1, <2>2, <2>3, <2>6, <2>9 DEF CopyOK
    <2>11. k \notin crossed => \A b \in Annotators \ {a} : ~On(b, k)
        BY <1>u, <2>3, <2>6 DEF On
    <2>12. ASSUME NEW b \in Annotators PROVE CopyOK(labelling[b])'
        <3>1. CASE b = a
            BY <2>5, <2>6, <2>7, <2>9, <2>10, <3>1 DEF CopyOK
        <3>2. CASE b # a /\ labelling[b] # AtPause
            <4>1. PICK l \in TaskIds : l = labelling[b].task
                BY <1>0, <1>k, <3>2
            <4>2. labelling[b].row.labeled \in Nat
                BY <1>0, <1>k, <1>r, <3>2
            <4>3. Stored(l) \in Nat /\ Stored(l) <= Stored(l)'
                BY <1>s, <2>9
            <4>4. labelling[b].row.labeled + (IF labelling[b].at = "count" THEN 1 ELSE 0) <= Stored(l)'
                <5>1. PICK n \in {0, 1} : n = IF labelling[b].at = "count" THEN 1 ELSE 0
                    OBVIOUS
                <5>2. labelling[b].row.labeled + n <= Stored(l)
                    BY <1>0, <3>2, <4>1, <5>1 DEF CopyOK
                <5>3. Stored(l)' \in Nat
                    BY <2>9, <4>3
                <5>4. labelling[b].row.labeled + n <= Stored(l)'
                    BY <4>2, <4>3, <5>2, <5>3
                <5> QED
                    BY <5>1, <5>4
            <4>5. l = k => k \in crossed
                BY <2>11, <3>2, <4>1 DEF On
            <4> QED
                BY <1>0, <2>6, <2>7, <2>9, <3>2, <4>1, <4>4, <4>5 DEF CopyOK
        <3> QED
            BY <2>7, <3>1, <3>2 DEF CopyOK
    <2>13. ASSUME NEW l \in TaskIds PROVE LabelsOf(l)'
        <3>1. CASE l = k
            <4>1. tasks[k].labeled \in Nat /\ tasks[k].labeled <= Stored(k)
                BY <1>0, <1>r, <2>10 DEF LabelsOf
            <4>2. k \notin crossed \cup unseen => \A j \in Items : results'[k][j] <= 1
                BY <1>0, <2>9, <2>10 DEF LabelsOf
            <4>3. k \notin crossed =>
                      /\ ~\E b \in Annotators : On(b, k) /\ labelling[b].at = "count"
                      /\ \E b \in Annotators : On(b, k)' /\ labelling'[b].at = "count"
                BY <1>k, <2>1, <2>5, <2>6, <2>7, <2>11 DEF On
            <4> QED
                BY <1>0, <2>6, <2>9, <2>10, <3>1, <4>1, <4>2, <4>3 DEF LabelsOf
        <3>2. CASE l # k
            <4>1. (\E b \in Annotators : On(b, l)' /\ labelling'[b].at = "count")
                     <=> \E b \in Annotators : On(b, l) /\ labelling[b].at = "count"
                BY <2>3, <2>5, <2>7, <3>2 DEF On
            <4>2. Stored(l)' = Stored(l) /\ results'[l] = results[l] /\ LabelsOf(l)
                BY <1>0, <2>9, <3>2
            <4> QED
                BY <2>6, <4>1, <4>2 DEF LabelsOf
        <3> QED
            BY <3>1, <3>2
    <2>14. ASSUME NEW b \in Annotators, NEW c \in Annotators, labelling'[b] # AtPause, labelling'[c] # AtPause,
                  labelling'[c].task = labelling'[b].task, labelling'[b].task \notin crossed
           PROVE  b = c
        BY <1>u, <2>3, <2>5, <2>6, <2>7, <2>14
    <2> QED
        BY <1>0, <2>6, <2>7, <2>9, <2>12, <2>13, <2>14 DEF AnnInv, On
<1>c. ASSUME NEW row \in AnnotationTask
      PROVE  /\ CountedUp(row) \in AnnotationTask
             /\ CountedUp(row).labeled = row.labeled + 1 /\ CountedUp(row).total = row.total
             /\ row.labeled + 1 >= row.total => CountedUp(row).status = "completed"
    <2>1. PICK n \in Nat : n = row.labeled + 1
        BY <1>r
    <2>2. PICK st : st = CASE n >= row.total -> "completed"
                           [] n < row.total /\ row.status = "pending" -> "in_progress"
                           [] OTHER -> row.status
        OBVIOUS
    <2>3. CountedUp(row) = [row EXCEPT !.labeled = n, !.status = st]
        BY <2>1, <2>2 DEF CountedUp, AnnotationTask
    <2>4. /\ st \in AnnotationTaskStatus /\ (n >= row.total => st = "completed")
        <3>1. CASE n >= row.total
            BY <1>r, <2>1, <2>2, <3>1 DEF AnnotationTaskStatus
        <3>2. CASE ~(n >= row.total) /\ row.status = "pending"
            BY <1>r, <2>1, <2>2, <3>2 DEF AnnotationTaskStatus
        <3>3. CASE ~(n >= row.total) /\ row.status # "pending"
            BY <1>r, <2>1, <2>2, <3>3
        <3> QED
            BY <3>1, <3>2, <3>3
    <2> QED
        BY <2>1, <2>3, <2>4 DEF AnnotationTask
<1>11. ASSUME NEW a \in Annotators, UpdateTask(a) PROVE AnnInv'
    <2>0. labelling[a].at \in {"count", "write"}
        BY <1>11 DEF UpdateTask
    <2>1. PICK k \in TaskIds, row \in AnnotationTask : k = labelling[a].task /\ row = labelling[a].row
        BY <1>0, <1>k, <2>0
    <2>2. PICK new : new = IF labelling[a].at = "count" THEN CountedUp(row) ELSE row
        OBVIOUS
    <2>3. /\ labelling[a] # AtPause /\ tasks[k] # NoRow /\ tasks[k] \in AnnotationTask
          /\ labelling' = [labelling EXCEPT ![a] = AtPause]
          /\ UNCHANGED <<results, crossed, halved, unseen>>
        BY <1>0, <1>11, <1>k, <2>0, <2>1 DEF CopyOK, UpdateTask, Leave
    <2>4. /\ new \in AnnotationTask /\ new # NoRow
        BY <1>c, <1>r, <2>2
    <2>5. /\ tasks' = [tasks EXCEPT ![k] = new]
          /\ revived' = IF \/ tasks[k].status = "completed" /\ new.status # "completed"
                           \/ tasks[k].status = "cancelled" /\ new.status \in {"pending", "in_progress"}
                        THEN revived \cup {k} ELSE revived
        BY <1>11, <2>1, <2>2, <2>3 DEF UpdateTask, Updated
    <2>6. /\ tasks' \in [TaskIds -> AnnotationTask \cup {NoRow}] /\ tasks'[k] = new
          /\ \A l \in TaskIds \ {k} : tasks'[l] = tasks[l]
        BY <1>0, <2>4, <2>5
    <2>7. /\ labelling' \in [Annotators -> Copies \cup {AtPause}]
          /\ labelling'[a] = AtPause /\ \A b \in Annotators \ {a} : labelling'[b] = labelling[b]
        BY <1>0, <2>3
    <2>8. /\ CopyOK(labelling[a]) /\ LabelsOf(k) /\ Stored(k) \in Nat
          /\ row.labeled \in Nat /\ row.total \in Int
          /\ tasks[k].labeled \in Nat /\ tasks[k].total \in Int /\ new.labeled \in Nat
        BY <1>0, <1>r, <1>s, <2>3, <2>4
    <2>9. new.labeled <= Stored(k)
        BY <1>c, <2>0, <2>1, <2>2, <2>3, <2>8 DEF CopyOK
    <2>10. k \notin crossed => \A b \in Annotators \ {a} : ~On(b, k)
        BY <1>u, <2>1, <2>3 DEF On
    <2>11. revived' \subseteq crossed
        <3>1. ASSUME k \notin crossed PROVE revived' = revived
            <4>1. CASE labelling[a].at = "count"
                BY <2>1, <2>3, <2>5, <2>8, <3>1, <4>1 DEF CopyOK
            <4>2. CASE labelling[a].at = "write"
                BY <2>1, <2>2, <2>3, <2>5, <2>8, <3>1, <4>2 DEF CopyOK, GoesOn
            <4> QED
                BY <2>0, <4>1, <4>2
        <3> QED
            BY <1>0, <2>5, <3>1
    <2>12. ASSUME NEW b \in Annotators PROVE CopyOK(labelling[b])'
        <3>1. CASE b = a
            BY <2>7, <3>1 DEF CopyOK
        <3>2. CASE b # a /\ labelling[b] # AtPause
            <4>1. PICK l \in TaskIds : l = labelling[b].task
                BY <1>0, <1>k, <3>2
            <4>2. Stored(l)' = Stored(l)
                BY <1>f, <2>3
            <4>3. l = k => k \in crossed
                BY <2>10, <3>2, <4>1 DEF On
            <4>4. tasks'[l] # NoRow /\ (l \notin crossed => tasks'[l] = tasks[l])
                BY <1>0, <2>4, <2>6, <3>2, <4>1, <4>3 DEF CopyOK
            <4> QED
                BY <1>0, <2>3, <2>7, <3>2, <4>1, <4>2, <4>4 DEF CopyOK
        <3> QED
            BY <2>7, <3>1, <3>2 DEF CopyOK
    <2>13. ASSUME NEW l \in TaskIds PROVE LabelsOf(l)'
        <3>0. Stored(l)' = Stored(l) /\ results'[l] = results[l] /\ LabelsOf(l)
            BY <1>0, <1>f, <2>3
        <3>1. CASE l = k
            <4>1. ASSUME k \notin crossed \cup halved
                  PROVE  /\ Stored(k) = new.labeled
                         /\ new.labeled > 0 /\ new.labeled >= new.total => new.status = "completed"
                         /\ ~\E b \in Annotators : On(b, k)' /\ labelling'[b].at = "count"
                <5>1. ~\E b \in Annotators : On(b, k)' /\ labelling'[b].at = "count"
                    BY <2>7, <2>10, <4>1 DEF On
                <5>2. CASE labelling[a].at = "count"
                    <6>1. Stored(k) = tasks[k].labeled + 1 /\ row = tasks[k]
                        BY <2>1, <2>3, <2>8, <4>1, <5>2 DEF LabelsOf, CopyOK, On
                    <6>2. new.labeled = row.labeled + 1 /\ new.total = row.total
                          /\ (row.labeled + 1 >= row.total => new.status = "completed")
                        BY <1>c, <2>2, <5>2
                    <6> QED
                        BY <2>8, <5>1, <6>1, <6>2
                <5>3. CASE labelling[a].at = "write"
                    <6>1. ~\E b \in Annotators : On(b, k) /\ labelling[b].at = "count"
                        BY <2>10, <4>1, <5>3
                    <6>2. Stored(k) = tasks[k].labeled
                        BY <2>3, <2>8, <4>1, <6>1 DEF LabelsOf
                    <6>3. new = row /\ row.labeled = tasks[k].labeled /\ row.total = tasks[k].total
                          /\ GoesOn(tasks[k].status, row.status)
                        BY <2>1, <2>2, <2>3, <2>8, <4>1, <5>3 DEF CopyOK
                    <6>4. tasks[k].labeled > 0 /\ tasks[k].labeled >= tasks[k].total => tasks[k].status = "completed"
                        BY <2>3, <2>8, <4>1 DEF LabelsOf
                    <6> QED
                        BY <5>1, <6>2, <6>3, <6>4 DEF GoesOn
                <5> QED
                    BY <2>0, <5>2, <5>3
            <4> QED
                BY <2>3, <2>4, <2>6, <2>8, <2>9, <3>0, <3>1, <4>1 DEF LabelsOf
        <3>2. CASE l # k
            <4>1. (\E b \in Annotators : On(b, l)' /\ labelling'[b].at = "count")
                     <=> \E b \in Annotators : On(b, l) /\ labelling[b].at = "count"
                BY <2>1, <2>7, <3>2 DEF On
            <4> QED
                BY <2>3, <2>6, <3>0, <3>2, <4>1 DEF LabelsOf
        <3> QED
            BY <3>1, <3>2
    <2>14. ASSUME NEW b \in Annotators, NEW c \in Annotators, labelling'[b] # AtPause, labelling'[c] # AtPause,
                  labelling'[c].task = labelling'[b].task, labelling'[b].task \notin crossed
           PROVE  b = c
        BY <1>u, <2>7, <2>14
    <2>15. crossed' \cup halved' \cup unseen' \cup revived' \subseteq TaskIds
        BY <1>0, <2>3, <2>11
    <2> QED
        BY <1>0, <2>3, <2>6, <2>7, <2>11, <2>12, <2>13, <2>14, <2>15 DEF AnnInv, On
<1>12. CASE UNCHANGED annotationVars
    <2>1. UNCHANGED <<tasks, results, labelling, crossed, halved, unseen, revived>>
        BY <1>12 DEF annotationVars, annotationHistory
    <2>2. \A k \in TaskIds : Stored(k)' = Stored(k)
        BY <1>f, <2>1
    <2>3. \A k \in TaskIds : LabelsOf(k)'
        BY <1>0, <2>1, <2>2 DEF LabelsOf, On
    <2>4. \A a \in Annotators : CopyOK(labelling[a])'
        BY <1>0, <2>1 DEF CopyOK, Stored
    <2> QED
        BY <1>0, <1>u, <2>1, <2>3, <2>4 DEF AnnInv, On
<1> QED
    BY <1>3, <1>4, <1>7, <1>8, <1>9, <1>10, <1>11, <1>12 DEF AnnotationNext

LEMMA InitAnnotation == AnnotationInit => AnnInv
<1> SUFFICES ASSUME AnnotationInit PROVE AnnInv
    OBVIOUS
<1> USE AnnotationAssumption
<1>1. results \in [TaskIds -> [Items -> 0..MaxResults]]
    BY DEF AnnotationInit
<1>2. ASSUME NEW k \in TaskIds PROVE Stored(k) = 0
    <2>1. {e \in Items \X (1..MaxResults) : e[2] <= results[k][e[1]]} = {}
        BY DEF AnnotationInit
    <2> QED
        BY <2>1, FS_EmptySet DEF Stored
<1>3. \A k \in TaskIds : LabelsOf(k)
    BY <1>2 DEF LabelsOf, AnnotationInit
<1> QED
    BY <1>1, <1>3 DEF AnnotationInit, AnnInv, CopyOK, On

(* AnnInv holds in every reachable state: a task never counts a label that *)
(* is not stored, and misses none where no two requests met.               *)
THEOREM AnnotationInvariant == ServicesSpec => []AnnInv
<1>1. ServicesInit => AnnInv
    BY InitAnnotation DEF ServicesInit
<1>2. [ServicesNext]_servicesVars => [AnnotationNext]_annotationVars
    BY DEF ServicesNext, servicesVars
<1>3. AnnInv /\ [ServicesNext]_servicesVars => AnnInv'
    BY <1>2, NextAnnotation
<1> QED
    BY <1>1, <1>3, PTL DEF ServicesSpec

-----------------------------------------------------------------------------
(***************************************************************************)
(* Communication agents. Where no two turns of a session met, the row a    *)
(* turn holds is the one stored, or is one turn ahead of it at its end.    *)
(***************************************************************************)
FreshSession(r) == r.status = "active" /\ r.count = 0 /\ r.transcript = 0

TurnOK(h) ==
    h # Silent =>
        LET s == h.sess
        IN  /\ h.at = "start" => commSessions[s] = NoRow /\ FreshSession(h.row)
            /\ h.at # "start" => commSessions[s] # NoRow
            /\ h.at \in {"reply", "add"} /\ h.row.status = "active" => h.row.count <= MaxTurns
            /\ h.at \in {"judge", "transfer"} => h.row.status = "active" /\ h.row.count <= MaxTurns
            /\ h.at = "end" => h.row.status = "active"
            /\ s \notin entwined /\ h.at \in {"reply", "add", "judge", "transfer"} =>
                  h.row = commSessions[s]
            /\ s \notin entwined /\ h.at = "end" => h.row = WithTurn(commSessions[s])

SessionOK(s) ==
    /\ commSessions[s] = NoRow => replied[s] = 0 /\ s \notin ended /\ s \notin entwined
    /\ commSessions[s] # NoRow =>
          /\ commSessions[s].status = "active" => commSessions[s].count <= MaxTurns
          /\ s \in ended /\ s \notin entwined \cup unwritten => commSessions[s].status # "active"
          /\ s \notin entwined \cup unwritten => replied[s] = commSessions[s].transcript

CommInv ==
    /\ agents \subseteq Tenants
    /\ commSessions \in [CommSessions -> CommAgentSession \cup {NoRow}]
    /\ turn \in [Turns -> Held \cup {Silent}]
    /\ replied \in [CommSessions -> Nat]
    /\ ended \cup entwined \cup unwritten \cup reawoken \subseteq CommSessions
    /\ reawoken \subseteq entwined
    /\ \A q \in Turns : TurnOK(turn[q])
    /\ \A s \in CommSessions : SessionOK(s)
    /\ \A p, q \in Turns :
          turn[p] # Silent /\ In(q, turn[p].sess) => turn[p].sess \in entwined \/ p = q

LEMMA NextComm == CommInv /\ [CommNext]_commVars => CommInv'
<1> SUFFICES ASSUME CommInv, [CommNext]_commVars PROVE CommInv'
    OBVIOUS
<1> USE CommAgentsAssumption
<1>0. /\ agents \subseteq Tenants
      /\ commSessions \in [CommSessions -> CommAgentSession \cup {NoRow}]
      /\ turn \in [Turns -> Held \cup {Silent}]
      /\ replied \in [CommSessions -> Nat]
      /\ ended \cup entwined \cup unwritten \cup reawoken \subseteq CommSessions
      /\ reawoken \subseteq entwined
      /\ \A q \in Turns : TurnOK(turn[q])
      /\ \A s \in CommSessions : SessionOK(s)
    BY DEF CommInv
<1>u. ASSUME NEW p \in Turns, NEW q \in Turns, turn[p] # Silent, turn[q] # Silent,
             turn[q].sess = turn[p].sess, turn[p].sess \notin entwined
      PROVE  p = q
    BY <1>u DEF CommInv, In
<1>k. ASSUME NEW h \in Held \cup {Silent}
      PROVE  /\ h = Silent <=> h.at = "silent"
             /\ h # Silent => /\ h \in Held /\ h.at \in TurnSteps /\ h.sess \in CommSessions
                              /\ h.row \in CommAgentSession
    BY DEF Held, Silent, TurnSteps
<1>r. ASSUME NEW r \in CommAgentSession
      PROVE  /\ r.tenant \in Tenants /\ r.status \in AgentSessionStatus
             /\ r.count \in 0..(MaxTurns + 1) /\ r.transcript \in Nat /\ r # NoRow
    BY DEF CommAgentSession
<1>h. ASSUME NEW at \in TurnSteps, NEW s \in CommSessions, NEW row \in CommAgentSession, NEW h,
             h = [at |-> at, sess |-> s, row |-> row]
      PROVE  /\ h \in Held \cup {Silent} /\ h.at = at /\ h.sess = s /\ h.row = row
             /\ h # Silent
    BY <1>h DEF Held, Silent, TurnSteps
\* A request begins, goes on or leaves; no session changes.
<1>m. ASSUME NEW q \in Turns, NEW h \in Held \cup {Silent}, turn' = [turn EXCEPT ![q] = h],
             UNCHANGED <<agents, commSessions, replied, ended, unwritten, reawoken>>,
             entwined \subseteq entwined', entwined' \subseteq CommSessions,
             \A s \in entwined' : commSessions[s] # NoRow,
             TurnOK(h)',
             h # Silent => \A p \in Turns \ {q} : In(p, h.sess) => h.sess \in entwined'
      PROVE  CommInv'
    <2>1. /\ turn' \in [Turns -> Held \cup {Silent}]
          /\ turn'[q] = h /\ \A p \in Turns \ {q} : turn'[p] = turn[p]
        BY <1>0, <1>m
    <2>2. ASSUME NEW p \in Turns PROVE TurnOK(turn[p])'
        <3>1. CASE p = q
            BY <1>m, <2>1, <3>1 DEF TurnOK
        <3>2. CASE p # q
            BY <1>0, <1>m, <2>1, <3>2 DEF TurnOK
        <3> QED
            BY <3>1, <3>2
    <2>3. ASSUME NEW s \in CommSessions PROVE SessionOK(s)'
        BY <1>0, <1>m DEF SessionOK
    <2>4. ASSUME NEW p \in Turns, NEW o \in Turns, turn'[p] # Silent, turn'[o] # Silent,
                 turn'[o].sess = turn'[p].sess, turn'[p].sess \notin entwined'
          PROVE  p = o
        BY <1>m, <1>u, <2>1, <2>4 DEF In
    <2> QED
        BY <1>0, <1>m, <2>1, <2>2, <2>3, <2>4 DEF CommInv, In
\* A request goes on in its session, or leaves.
<1>g. ASSUME NEW q \in Turns, NEW h \in Held \cup {Silent}, turn' = [turn EXCEPT ![q] = h],
             turn[q] # Silent, h # Silent => h.sess = turn[q].sess,
             UNCHANGED <<agents, commSessions, replied, ended, entwined, unwritten, reawoken>>,
             TurnOK(h)'
      PROVE  CommInv'
    <2>1. \A s \in entwined : commSessions[s] # NoRow
        BY <1>0 DEF SessionOK
    <2>2. h # Silent => \A p \in Turns \ {q} : In(p, h.sess) => h.sess \in entwined'
        BY <1>g, <1>u DEF In
    <2> QED
        BY <1>0, <1>g, <1>m, <2>1, <2>2
\* It writes the session, and the histories tell.
<1>s. ASSUME NEW q \in Turns, NEW s \in CommSessions, NEW h \in Held \cup {Silent},
             turn[q] # Silent, turn[q].sess = s, turn' = [turn EXCEPT ![q] = h],
             h # Silent => h.sess = s, TurnOK(h)',
             commSessions' \in [CommSessions -> CommAgentSession \cup {NoRow}], commSessions'[s] # NoRow,
             \A r \in CommSessions \ {s} : commSessions'[r] = commSessions[r],
             replied' \in [CommSessions -> Nat], \A r \in CommSessions \ {s} : replied'[r] = replied[r],
             ended \subseteq ended', ended' \subseteq ended \cup {s},
             unwritten \subseteq unwritten', unwritten' \subseteq unwritten \cup {s},
             reawoken' \subseteq entwined, SessionOK(s)',
             UNCHANGED <<agents, entwined>>
      PROVE  CommInv'
    <2>1. /\ turn' \in [Turns -> Held \cup {Silent}]
          /\ turn'[q] = h /\ \A p \in Turns \ {q} : turn'[p] = turn[p]
        BY <1>0, <1>s
    <2>2. ASSUME NEW p \in Turns PROVE TurnOK(turn[p])'
        <3>1. CASE p = q
            BY <1>s, <2>1, <3>1 DEF TurnOK
        <3>2. CASE p # q /\ turn[p] # Silent /\ turn[p].sess = s
            <4>1. s \in entwined /\ commSessions[s] # NoRow
                BY <1>0, <1>s, <1>u, <3>2 DEF SessionOK
            <4> QED
                BY <1>0, <1>s, <2>1, <3>2, <4>1 DEF TurnOK
        <3>3. CASE p # q /\ (turn[p] = Silent \/ turn[p].sess # s)
            <4>1. turn[p] # Silent => turn[p].sess \in CommSessions \ {s}
                BY <1>0, <1>k, <3>3
            <4> QED
                BY <1>0, <1>s, <2>1, <3>3, <4>1 DEF TurnOK
        <3> QED
            BY <3>1, <3>2, <3>3
    <2>3. ASSUME NEW r \in CommSessions PROVE SessionOK(r)'
        <3>1. CASE r = s
            BY <1>s, <3>1
        <3>2. CASE r # s
            BY <1>0, <1>s, <3>2 DEF SessionOK
        <3> QED
            BY <3>1, <3>2
    <2>4. ASSUME NEW p \in Turns, NEW o \in Turns, turn'[p] # Silent, turn'[o] # Silent,
                 turn'[o].sess = turn'[p].sess, turn'[p].sess \notin entwined'
          PROVE  p = o
        BY <1>s, <1>u, <2>1, <2>4
    <2>5. ended' \cup entwined' \cup unwritten' \cup reawoken' \subseteq CommSessions
        BY <1>0, <1>s
    <2> QED
        BY <1>0, <1>s, <2>1, <2>2, <2>3, <2>4, <2>5 DEF CommInv, In
<1>1. ASSUME NEW q \in Turns, NEW t \in Tenants, NEW s \in CommSessions, ReadSession(q, t, s)
      PROVE  CommInv'
    <2>1. PICK h : h = [at |-> "reply", sess |-> s, row |-> commSessions[s]]
        OBVIOUS
    <2>2. /\ turn[q] = Silent /\ commSessions[s] # NoRow /\ turn' = [turn EXCEPT ![q] = h]
          /\ entwined' = IF \E p \in Turns : In(p, s) THEN entwined \cup {s} ELSE entwined
          /\ UNCHANGED <<agents, commSessions, replied, ended, unwritten, reawoken>>
        BY <1>1, <2>1 DEF ReadSession, Owns, Ids, Hold
    <2>3. commSessions[s] \in CommAgentSession
        BY <1>0, <2>2
    <2>4. /\ h \in Held \cup {Silent} /\ h.at = "reply" /\ h.sess = s /\ h.row = commSessions[s]
        BY <1>h, <2>1, <2>3 DEF TurnSteps
    <2>5. TurnOK(h)'
        BY <1>0, <2>2, <2>3, <2>4 DEF TurnOK, SessionOK
    <2>6. /\ entwined \subseteq entwined' /\ entwined' \subseteq CommSessions
          /\ \A r \in entwined' : commSessions[r] # NoRow
          /\ \A p \in Turns \ {q} : In(p, h.sess) => h.sess \in entwined'
        BY <1>0, <2>2, <2>4 DEF SessionOK
    <2> QED
        BY <1>m, <2>2, <2>4, <2>5, <2>6
<1>2. ASSUME NEW q \in Turns, NEW t \in Tenants, NEW s \in CommSessions, OpenSession(q, t, s)
      PROVE  CommInv'
    <2>1. PICK new \in CommAgentSession :
              new = [tenant |-> t, status |-> "active", count |-> 0, transcript |-> 0]
        <3>1. 0 \in 0..(MaxTurns + 1) /\ 0 \in Nat /\ "active" \in AgentSessionStatus
            BY DEF AgentSessionStatus
        <3> QED
            BY <3>1 DEF CommAgentSession
    <2>2. PICK h : h = [at |-> "start", sess |-> s, row |-> new]
        OBVIOUS
    <2>3. /\ turn[q] = Silent /\ commSessions[s] = NoRow /\ turn' = [turn EXCEPT ![q] = h]
          /\ ~\E p \in Turns : In(p, s)
          /\ UNCHANGED <<agents, commSessions, replied, ended, entwined, unwritten, reawoken>>
        BY <1>0, <1>2, <2>1, <2>2 DEF OpenSession, Ids, Hold, commHistory
    <2>4. /\ h \in Held \cup {Silent} /\ h.at = "start" /\ h.sess = s /\ h.row = new
        BY <1>h, <2>2 DEF TurnSteps
    <2>5. TurnOK(h)'
        BY <2>1, <2>3, <2>4 DEF TurnOK, FreshSession
    <2>6. /\ \A r \in entwined : commSessions[r] # NoRow
          /\ \A p \in Turns \ {q} : In(p, h.sess) => h.sess \in entwined'
        BY <1>0, <2>3, <2>4 DEF SessionOK
    <2> QED
        BY <1>0, <1>m, <2>3, <2>4, <2>5, <2>6
<1>3. ASSUME NEW q \in Turns, StartSession(q) PROVE CommInv'
    <2>0. turn[q].at = "start"
        BY <1>3 DEF StartSession
    <2>1. PICK s \in CommSessions, row \in CommAgentSession : s = turn[q].sess /\ row = turn[q].row
        BY <1>0, <1>k, <2>0
    <2>2. PICK h : h = [turn[q] EXCEPT !.at = "reply"]
        OBVIOUS
    <2>3. turn[q] # Silent /\ turn[q] \in Held /\ commSessions[s] = NoRow /\ FreshSession(row)
        BY <1>0, <1>k, <2>0, <2>1 DEF TurnOK
    <2>4. /\ h \in Held \cup {Silent} /\ h.at = "reply" /\ h.sess = s /\ h.row = row
        BY <2>1, <2>2, <2>3 DEF Held, TurnSteps
    <2>5. /\ commSessions' = [commSessions EXCEPT ![s] = row] /\ turn' = [turn EXCEPT ![q] = h]
          /\ UNCHANGED <<agents, replied, ended, entwined, unwritten, reawoken>>
        BY <1>3, <2>1, <2>2 DEF StartSession, Inserted, Go, commHistory
    <2>6. /\ commSessions' \in [CommSessions -> CommAgentSession \cup {NoRow}]
          /\ commSessions'[s] = row /\ row # NoRow
          /\ \A r \in CommSessions \ {s} : commSessions'[r] = commSessions[r]
        BY <1>0, <1>r, <2>5
    <2>7. TurnOK(h)' /\ SessionOK(s)'
        BY <1>0, <2>3, <2>4, <2>5, <2>6 DEF TurnOK, SessionOK, FreshSession
    <2> QED
        BY <1>0, <1>s, <2>1, <2>3, <2>4, <2>5, <2>6, <2>7
<1>4. ASSUME NEW q \in Turns, GenerateReply(q) PROVE CommInv'
    <2>1. PICK h : h = [turn[q] EXCEPT !.at = "add"]
        OBVIOUS
    <2>2. /\ turn[q].at = "reply" /\ turn' = [turn EXCEPT ![q] = h]
          /\ UNCHANGED <<agents, commSessions, replied, ended, entwined, unwritten, reawoken>>
        BY <1>4, <2>1 DEF GenerateReply, Go, commHistory
    <2>3. turn[q] # Silent /\ turn[q] \in Held
        BY <1>0, <1>k, <2>2
    <2>4. h \in Held \cup {Silent} /\ h.at = "add" /\ h.sess = turn[q].sess /\ h.row = turn[q].row
        BY <2>1, <2>3 DEF Held, TurnSteps
    <2>5. TurnOK(h)'
        BY <1>0, <2>2, <2>3, <2>4 DEF TurnOK
    <2> QED
        BY <1>g, <2>2, <2>3, <2>4, <2>5
<1>5. ASSUME NEW q \in Turns, ShouldTransfer(q) PROVE CommInv'
    <2>0. /\ turn[q].at = "judge"
          /\ UNCHANGED <<agents, commSessions, replied, ended, entwined, unwritten, reawoken>>
        BY <1>5 DEF ShouldTransfer, commHistory
    <2>1. turn[q] # Silent /\ turn[q] \in Held
        BY <1>0, <1>k, <2>0
    <2>2. CASE turn' = [turn EXCEPT ![q] = Silent]
        BY <1>g, <2>0, <2>1, <2>2 DEF TurnOK
    <2>3. CASE turn' = [turn EXCEPT ![q].at = "transfer"]
        <3>1. PICK h : h = [turn[q] EXCEPT !.at = "transfer"]
            OBVIOUS
        <3>2. /\ h \in Held \cup {Silent} /\ h.at = "transfer" /\ h.sess = turn[q].sess
              /\ h.row = turn[q].row
            BY <2>1, <3>1 DEF Held, TurnSteps
        <3>3. TurnOK(h)'
            BY <1>0, <2>0, <2>1, <3>2 DEF TurnOK
        <3> QED
            BY <1>g, <2>0, <2>1, <2>3, <3>1, <3>2, <3>3
    <2> QED
        BY <1>5, <2>2, <2>3 DEF ShouldTransfer, Return, Go
<1>6. ASSUME NEW q \in Turns, turn[q] # Silent, turn' = [turn EXCEPT ![q] = Silent],
             UNCHANGED <<agents, commSessions, replied, ended, entwined, unwritten, reawoken>>
      PROVE  CommInv'
    BY <1>6, <1>g DEF TurnOK
<1>7. ASSUME NEW q \in Turns, TurnFails(q) PROVE CommInv'
    BY <1>6, <1>7 DEF TurnFails, Return, commHistory
\* The UPDATE of a session with what a request has made of its row.
<1>v. ASSUME NEW s \in CommSessions, NEW row \in CommAgentSession, commSessions[s] # NoRow,
             UpdateCommSession(s, row), row.status = "active" /\ s \notin entwined => commSessions[s].status = "active"
      PROVE  /\ commSessions' \in [CommSessions -> CommAgentSession \cup {NoRow}]
             /\ commSessions'[s] = row /\ row # NoRow
             /\ \A r \in CommSessions \ {s} : commSessions'[r] = commSessions[r]
             /\ reawoken' \subseteq entwined
    <2>1. commSessions' = [commSessions EXCEPT ![s] = row]
        BY <1>v DEF UpdateCommSession, Updated
    <2>2. reawoken' \subseteq entwined
        BY <1>0, <1>v DEF UpdateCommSession
    <2> QED
        BY <1>0, <1>r, <2>1, <2>2
\* One turn more.
<1>t. ASSUME NEW row \in CommAgentSession, row.count <= MaxTurns
      PROVE  /\ WithTurn(row) \in CommAgentSession
             /\ WithTurn(row).count = row.count + 1
             /\ WithTurn(row).transcript = row.transcript + 1
             /\ WithTurn(row).status = row.status
    <2>1. /\ row.count \in 0..(MaxTurns + 1) /\ row.transcript \in Nat
        BY <1>r
    <2>2. row.count + 1 \in 0..(MaxTurns + 1) /\ row.transcript + 1 \in Nat
        BY <1>t, <2>1
    <2>3. WithTurn(row) = [row EXCEPT !.count = row.count + 1, !.transcript = row.transcript + 1]
        BY DEF WithTurn, CommAgentSession
    <2> QED
        BY <2>2, <2>3 DEF CommAgentSession
<1>8. ASSUME NEW q \in Turns, AddTurn(q) PROVE CommInv'
    <2>0. /\ turn[q].at = "add"
          /\ UNCHANGED <<agents, ended, entwined, unwritten>>
        BY <1>8 DEF AddTurn
    <2>1. PICK s \in CommSessions, row \in CommAgentSession : s = turn[q].sess /\ row = turn[q].row
        BY <1>0, <1>k, <2>0
    <2>2. /\ turn[q] # Silent /\ turn[q] \in Held /\ commSessions[s] # NoRow
          /\ row.status = "active" => row.count <= MaxTurns
          /\ s \notin entwined => row = commSessions[s]
        BY <1>0, <1>k, <2>0, <2>1 DEF TurnOK
    <2>3. ASSUME row.status = "active", row.count < MaxTurns, UpdateCommSession(s, WithTurn(row)),
                 Hold(q, "judge", s, WithTurn(row)), replied' = [replied EXCEPT ![s] = replied[s] + 1]
          PROVE  CommInv'
        <3>1. PICK new \in CommAgentSession : /\ new = WithTurn(row) /\ new.status = "active"
                                              /\ new.count = row.count + 1 /\ new.count <= MaxTurns
                                              /\ new.transcript = row.transcript + 1
            BY <1>r, <1>t, <2>1, <2>2, <2>3
        <3>2. /\ commSessions' \in [CommSessions -> CommAgentSession \cup {NoRow}]
              /\ commSessions'[s] = new /\ new # NoRow
              /\ \A r \in CommSessions \ {s} : commSessions'[r] = commSessions[r]
              /\ reawoken' \subseteq entwined
            BY <1>v, <2>1, <2>2, <2>3, <3>1
        <3>3. PICK h : h = [at |-> "judge", sess |-> s, row |-> new]
            OBVIOUS
        <3>4. /\ h \in Held \cup {Silent} /\ h.at = "judge" /\ h.sess = s /\ h.row = new
              /\ turn' = [turn EXCEPT ![q] = h]
            BY <1>h, <2>3, <3>1, <3>3 DEF TurnSteps, Hold
        <3>5. TurnOK(h)'
            BY <2>0, <3>1, <3>2, <3>4 DEF TurnOK
        <3>6. /\ replied' \in [CommSessions -> Nat] /\ replied'[s] = replied[s] + 1
              /\ \A r \in CommSessions \ {s} : replied'[r] = replied[r]
            BY <1>0, <2>3
        <3>7. SessionOK(s)'
            BY <1>0, <2>0, <2>2, <2>3, <3>1, <3>2, <3>6 DEF SessionOK
        <3> QED
            BY <1>s, <2>0, <2>1, <2>2, <3>2, <3>4, <3>5, <3>6, <3>7
    <2>4. ASSUME row.status = "active", row.count >= MaxTurns, Hold(q, "end", s, WithTurn(row)),
                 UNCHANGED <<commSessions, replied, reawoken>>
          PROVE  CommInv'
        <3>1. PICK new \in CommAgentSession : new = WithTurn(row) /\ new.status = "active"
            BY <1>t, <2>1, <2>2, <2>4
        <3>2. PICK h : h = [at |-> "end", sess |-> s, row |-> new]
            OBVIOUS
        <3>3. /\ h \in Held \cup {Silent} /\ h.at = "end" /\ h.sess = s /\ h.row = new
              /\ turn' = [turn EXCEPT ![q] = h]
            BY <1>h, <2>4, <3>1, <3>2 DEF TurnSteps, Hold
        <3>4. s \notin entwined => h.row = WithTurn(commSessions[s])
            BY <2>2, <3>1, <3>3
        <3>5. TurnOK(h)'
            BY <2>0, <2>2, <2>4, <3>1, <3>3, <3>4 DEF TurnOK, WithTurn
        <3> QED
            BY <1>g, <2>0, <2>1, <2>2, <2>4, <3>3, <3>5
    <2>5. CASE Return(q) /\ UNCHANGED <<commSessions, replied, reawoken>>
        BY <1>6, <2>0, <2>2, <2>5 DEF Return
    <2>6. replied' = [replied EXCEPT ![s] = @ + 1] <=> replied' = [replied EXCEPT ![s] = replied[s] + 1]
        OBVIOUS
    <2> QED
        BY <1>8, <2>1, <2>3, <2>4, <2>5, <2>6 DEF AddTurn
<1>9. ASSUME NEW q \in Turns, NEW status \in {"completed", "transferred"},
             turn[q].at = (IF status = "completed" THEN "end" ELSE "transfer"),
             EndSession(q, turn[q].sess, status)
      PROVE  CommInv'
    <2>1. PICK s \in CommSessions, row \in CommAgentSession : s = turn[q].sess /\ row = turn[q].row
        BY <1>0, <1>9, <1>k
    <2>2. /\ turn[q] # Silent /\ commSessions[s] # NoRow
          /\ commSessions[s] \in CommAgentSession
          /\ turn[q].at = "end" /\ s \notin entwined => row = WithTurn(commSessions[s])
          /\ turn[q].at # "end" /\ s \notin entwined => row = commSessions[s]
        BY <1>0, <1>9, <1>k, <2>1 DEF TurnOK
    <2>3. PICK counted \in {0, 1} : /\ counted = (IF turn[q].at = "end" THEN 1 ELSE 0)
                                    /\ replied' = [replied EXCEPT ![s] = replied[s] + counted]
        BY <1>9, <2>1 DEF EndSession
    <2>4. /\ ended' = ended \cup {s} /\ turn' = [turn EXCEPT ![q] = Silent]
          /\ UNCHANGED <<agents, entwined>>
        BY <1>9, <2>1 DEF EndSession, Return
    <2>5. /\ replied' \in [CommSessions -> Nat] /\ replied'[s] = replied[s] + counted
          /\ \A r \in CommSessions \ {s} : replied'[r] = replied[r]
        BY <1>0, <2>3
    <2>6. TurnOK(Silent)'
        BY DEF TurnOK
    <2>7. PICK new : new = [row EXCEPT !.status = status]
        OBVIOUS
    <2>8. CASE UpdateCommSession(s, new) /\ UNCHANGED unwritten
        <3>1. /\ new \in CommAgentSession /\ new.status = status /\ new.transcript = row.transcript
            BY <2>1, <2>7 DEF CommAgentSession, AgentSessionStatus
        <3>2. /\ commSessions' \in [CommSessions -> CommAgentSession \cup {NoRow}]
              /\ commSessions'[s] = new /\ new # NoRow
              /\ \A r \in CommSessions \ {s} : commSessions'[r] = commSessions[r]
              /\ reawoken' \subseteq entwined
            BY <1>v, <2>2, <2>8, <3>1
        <3>3. s \notin entwined => row.transcript = commSessions[s].transcript + counted
            <4>1. commSessions[s].transcript \in Nat
                BY <1>r, <2>2
            <4>2. WithTurn(commSessions[s]).transcript = commSessions[s].transcript + 1
                BY <2>2 DEF WithTurn, CommAgentSession
            <4> QED
                BY <2>2, <2>3, <4>1, <4>2
        <3>4. SessionOK(s)'
            BY <1>0, <2>2, <2>4, <2>5, <2>8, <3>1, <3>2, <3>3 DEF SessionOK
        <3> QED
            BY <1>s, <2>1, <2>2, <2>4, <2>5, <2>6, <2>8, <3>2, <3>4
    <2>9. CASE unwritten' = unwritten \cup {s} /\ UNCHANGED <<commSessions, reawoken>>
        <3>1. SessionOK(s)'
            BY <1>0, <2>2, <2>4, <2>9 DEF SessionOK
        <3> QED
            BY <1>0, <1>s, <2>1, <2>2, <2>4, <2>5, <2>6, <2>9, <3>1
    <2> QED
        BY <1>9, <2>1, <2>7, <2>8, <2>9 DEF EndSession
<1>10. ASSUME agents' \subseteq Tenants,
              UNCHANGED <<commSessions, turn, replied, ended, entwined, unwritten, reawoken>>
       PROVE  CommInv'
    BY <1>0, <1>10, <1>u DEF CommInv, TurnOK, SessionOK, In
<1>11. ASSUME NEW t \in Tenants, CreateCommAgent(t) \/ DeleteCommAgent(t) PROVE CommInv'
    BY <1>0, <1>10, <1>11 DEF CreateCommAgent, DeleteCommAgent, commHistory
<1>12. CASE UNCHANGED commVars
    BY <1>0, <1>10, <1>12 DEF commVars, commHistory
<1>13. ASSUME NEW q \in Turns, \/ turn[q].at = "end" /\ EndSession(q, turn[q].sess, "completed")
                               \/ turn[q].at = "transfer" /\ EndSession(q, turn[q].sess, "transferred")
       PROVE  CommInv'
    BY <1>9, <1>13
<1> QED
    BY <1>1, <1>2, <1>3, <1>4, <1>5, <1>7, <1>8, <1>11, <1>12, <1>13 DEF CommNext

LEMMA InitComm == CommInit => CommInv
<1> SUFFICES ASSUME CommInit PROVE CommInv
    OBVIOUS
<1> QED
    BY CommAgentsAssumption DEF CommInit, CommInv, TurnOK, SessionOK, In

(* CommInv holds in every reachable state: what a turn holds is the stored *)
(* session, or one turn ahead of it, where no two turns met.               *)
THEOREM CommInvariant == ServicesSpec => []CommInv
<1>1. ServicesInit => CommInv
    BY InitComm DEF ServicesInit
<1>2. [ServicesNext]_servicesVars => [CommNext]_commVars
    BY DEF ServicesNext, servicesVars
<1>3. CommInv /\ [ServicesNext]_servicesVars => CommInv'
    BY <1>2, NextComm
<1> QED
    BY <1>1, <1>3, PTL DEF ServicesSpec

-----------------------------------------------------------------------------
(***************************************************************************)
(* Analyses, voices and exams. Where no two requests met at an analysis,   *)
(* the row one holds is the one stored.                                    *)
(***************************************************************************)
JobOK(h) ==
    /\ h.at \in {"mark", "mine", "complete"} =>
          /\ analyses[h.id] # NoRow
          /\ h.id \notin shared => h.row = analyses[h.id]
    /\ h.at = "train" => cloning[h.id] > 0

AnalysisOK(a) ==
    /\ a \in worked => analyses[a] # NoRow
    /\ a \in worked \ shared => analyses[a].result
    /\ analyses[a] # NoRow /\ analyses[a].status = "running" =>
          a \in abandoned \/ \E w \in JobWorkers : worker[w].at \in {"mine", "complete"} /\ worker[w].id = a

VoiceOK(v) ==
    voices[v] # NoRow =>
        /\ voices[v].status = "training" => cloning[v] > 0
        /\ cloning[v] > 0 => \/ voices[v].status = "training" \/ v \in unmarked
                             \/ \E w \in JobWorkers : worker[w].at = "train" /\ worker[w].id = v

ExamGraded(e) ==
    /\ courses[e.course] # NoRow
    /\ e.passed <=> e.of > 0 /\ 100 * e.score >= courses[e.course].pass * e.of

JobsInv ==
    /\ analyses \in [Analyses -> AnalysisTask \cup {NoRow}]
    /\ voices \in [Voices -> VoiceProfile \cup {NoRow}]
    /\ cloning \in [Voices -> 0..MaxJobs]
    /\ courses \in [Courses -> Course \cup {NoRow}]
    /\ exams \subseteq Exam
    /\ worker \in [JobWorkers -> WorkHeld \cup {Workless}]
    /\ worked \cup shared \cup abandoned \subseteq Analyses
    /\ unmarked \subseteq Voices
    /\ \A w \in JobWorkers : JobOK(worker[w])
    /\ \A a \in Analyses : AnalysisOK(a)
    /\ \A v \in Voices : VoiceOK(v)
    /\ \A e \in exams : ExamGraded(e)
    /\ \A u, w \in JobWorkers :
          worker[u].at \in {"mark", "mine", "complete"} /\ WorksOn(w, worker[u].id) =>
              worker[u].id \in shared \/ u = w

LEMMA GradeExact ==
    \A score \in Int, of \in Int, pass \in Int :
        Passes(score, of, pass) <=> of > 0 /\ 100 * score >= pass * of
<1>1. \A n \in Int, d \in Nat \ {0} : /\ n \div d \in Int
                                      /\ d * (n \div d) <= n /\ n < d * (n \div d) + d
    OBVIOUS
<1>2. \A d \in Nat \ {0}, p \in Int, q \in Int : p <= q => d * p <= d * q
    OBVIOUS
<1>3. \A d \in Nat \ {0}, p \in Int, q \in Int : q + 1 <= p => d * q + d <= d * p
    OBVIOUS
<1> SUFFICES ASSUME NEW score \in Int, NEW of \in Int, NEW pass \in Int, of > 0
             PROVE  (score * 100) \div of >= pass <=> 100 * score >= pass * of
    BY DEF Passes
<1>4. PICK q \in Int : q = (score * 100) \div of
    BY <1>1
<1>5. of * q <= 100 * score /\ 100 * score < of * q + of
    BY <1>1, <1>4
<1>6. CASE q >= pass
    BY <1>2, <1>4, <1>5, <1>6
<1>7. CASE q < pass
    BY <1>3, <1>4, <1>5, <1>7
<1> QED
    BY <1>4, <1>6, <1>7

LEMMA NextJobs == JobsInv /\ [JobsNext]_jobVars => JobsInv'
<1> SUFFICES ASSUME JobsInv, [JobsNext]_jobVars PROVE JobsInv'
    OBVIOUS
<1> USE AiJobsAssumption
<1>0. /\ analyses \in [Analyses -> AnalysisTask \cup {NoRow}]
      /\ voices \in [Voices -> VoiceProfile \cup {NoRow}]
      /\ cloning \in [Voices -> 0..MaxJobs]
      /\ courses \in [Courses -> Course \cup {NoRow}]
      /\ exams \subseteq Exam
      /\ worker \in [JobWorkers -> WorkHeld \cup {Workless}]
      /\ worked \cup shared \cup abandoned \subseteq Analyses
      /\ unmarked \subseteq Voices
      /\ \A w \in JobWorkers : JobOK(worker[w])
      /\ \A a \in Analyses : AnalysisOK(a)
      /\ \A v \in Voices : VoiceOK(v)
      /\ \A e \in exams : ExamGraded(e)
    BY DEF JobsInv
<1>u. ASSUME NEW u \in JobWorkers, NEW w \in JobWorkers,
             worker[u].at \in {"mark", "mine", "complete"}, WorksOn(w, worker[u].id),
             worker[u].id \notin shared
      PROVE  u = w
    BY <1>u DEF JobsInv
<1>k. ASSUME NEW h \in WorkHeld \cup {Workless}
      PROVE  /\ h.at \in {"mark", "mine", "complete"} => h.id \in Analyses /\ h.row \in AnalysisTask
             /\ h.at \in {"clone", "train"} => h.id \in Voices
             /\ h.at \in {"mark", "mine", "complete", "clone", "train", "rest"}
             /\ h = Workless <=> h.at = "rest"
    BY DEF WorkHeld, Workless
<1>l. Workless.at = "rest"
    BY DEF Workless
\* A request takes up something, or goes on, at a table that stays as it is.
<1>w. ASSUME NEW w \in JobWorkers, NEW h \in WorkHeld \cup {Workless}, worker' = [worker EXCEPT ![w] = h]
      PROVE  /\ worker' \in [JobWorkers -> WorkHeld \cup {Workless}]
             /\ worker'[w] = h /\ \A u \in JobWorkers \ {w} : worker'[u] = worker[u]
    BY <1>0, <1>w
<1>e. UNCHANGED <<courses, exams>> => \A e \in exams' : ExamGraded(e)'
    BY <1>0 DEF ExamGraded
\* What no request can disturb: rows that only change where nothing is held.
<1>1. ASSUME NEW a \in Analyses, NEW type \in {"known", "unsupported"}, CreateAnalysis(a, type)
      PROVE  JobsInv'
    <2>1. PICK new \in AnalysisTask : new = [type |-> type, result |-> FALSE, status |-> "pending"]
        BY DEF AnalysisTask
    <2>2. /\ analyses[a] = NoRow /\ analyses' = [analyses EXCEPT ![a] = new]
          /\ UNCHANGED <<voices, cloning, courses, exams, worker, worked, shared, abandoned, unmarked>>
        BY <1>1, <2>1 DEF CreateAnalysis, Inserted, jobHistory
    <2>3. analyses' \in [Analyses -> AnalysisTask \cup {NoRow}] /\ new.status = "pending" /\ new # NoRow
        BY <1>0, <2>1, <2>2
    <2>4. \A w \in JobWorkers : JobOK(worker[w])'
        BY <1>0, <1>k, <2>2 DEF JobOK
    <2>5. ASSUME NEW b \in Analyses PROVE AnalysisOK(b)'
        BY <1>0, <2>2, <2>3 DEF AnalysisOK
    <2> QED
        BY <1>0, <1>e, <1>u, <2>2, <2>3, <2>4, <2>5 DEF JobsInv, VoiceOK, WorksOn
<1>2. ASSUME NEW v \in Voices, CreateVoice(v) \/ DeleteVoice(v) PROVE JobsInv'
    <2>1. PICK new \in VoiceProfile \cup {NoRow} :
             /\ new # NoRow => new.status = "pending" /\ cloning[v] = 0
             /\ voices' = [voices EXCEPT ![v] = new]
        BY <1>2 DEF CreateVoice, DeleteVoice, Inserted, Deleted, VoiceProfile, VoiceProfileStatus
    <2>2. UNCHANGED <<analyses, cloning, courses, exams, worker, worked, shared, abandoned, unmarked>>
        BY <1>2 DEF CreateVoice, DeleteVoice, jobHistory
    <2>3. voices' \in [Voices -> VoiceProfile \cup {NoRow}]
        BY <1>0, <2>1
    <2>4. \A u \in Voices : VoiceOK(u)'
        BY <1>0, <2>1, <2>2, <2>3 DEF VoiceOK
    <2> QED
        BY <1>0, <1>e, <1>u, <2>2, <2>3, <2>4 DEF JobsInv, JobOK, AnalysisOK, WorksOn
<1>3. ASSUME NEW w \in JobWorkers, NEW a \in Analyses, GetAnalysis(w, a) PROVE JobsInv'
    <2>1. PICK h : h = [at |-> "mark", id |-> a, row |-> analyses[a]]
        OBVIOUS
    <2>2. /\ worker[w] = Workless /\ worker' = [worker EXCEPT ![w] = h] /\ analyses[a] # NoRow
          /\ shared' = IF \E v \in JobWorkers : WorksOn(v, a) THEN shared \cup {a} ELSE shared
          /\ UNCHANGED <<analyses, voices, cloning, courses, exams, worked, abandoned, unmarked>>
        BY <1>3, <2>1 DEF GetAnalysis, SetAbout, Ids
    <2>3. h \in WorkHeld \cup {Workless} /\ h.at = "mark" /\ h.id = a /\ h.row = analyses[a]
        BY <1>0, <2>1, <2>2 DEF WorkHeld
    <2>4. /\ worker' \in [JobWorkers -> WorkHeld \cup {Workless}]
          /\ worker'[w] = h /\ \A u \in JobWorkers \ {w} : worker'[u] = worker[u]
        BY <1>w, <2>2, <2>3
    <2>5. shared \subseteq shared' /\ shared' \subseteq Analyses
        BY <1>0, <2>2
    <2>6. ASSUME NEW u \in JobWorkers PROVE JobOK(worker[u])'
        <3>1. CASE u = w
            BY <2>2, <2>3, <2>4, <3>1 DEF JobOK
        <3>2. CASE u # w
            BY <1>0, <2>2, <2>4, <2>5, <3>2 DEF JobOK
        <3> QED
            BY <3>1, <3>2
    <2>7. ASSUME NEW u \in JobWorkers, NEW v \in JobWorkers, worker'[u].at \in {"mark", "mine", "complete"},
                 worker'[v].at \in {"mark", "mine", "complete"}, worker'[v].id = worker'[u].id,
                 worker'[u].id \notin shared'
          PROVE  u = v
        <3>1. CASE u # w /\ v # w
            BY <1>u, <2>4, <2>5, <2>7, <3>1 DEF WorksOn
        <3>2. CASE u = w /\ v # w
            BY <2>2, <2>3, <2>4, <2>7, <3>2 DEF WorksOn
        <3>3. CASE u # w /\ v = w
            BY <2>2, <2>3, <2>4, <2>7, <3>3 DEF WorksOn
        <3> QED
            BY <3>1, <3>2, <3>3
    <2>8. ASSUME NEW b \in Analyses PROVE AnalysisOK(b)'
        BY <1>0, <1>l, <2>2, <2>4, <2>5 DEF AnalysisOK
    <2>9. ASSUME NEW v \in Voices PROVE VoiceOK(v)'
        BY <1>0, <1>l, <2>2, <2>4 DEF VoiceOK
    <2> QED
        BY <1>0, <1>e, <2>2, <2>4, <2>5, <2>6, <2>7, <2>8, <2>9 DEF JobsInv, WorksOn
\* A request that works on an analysis goes on with a row, stored or not, or leaves.
<1>4. ASSUME NEW w \in JobWorkers, NEW h \in WorkHeld \cup {Workless}, NEW row \in AnalysisTask,
             worker[w].at \in {"mark", "mine", "complete"}, worker' = [worker EXCEPT ![w] = h],
             \/ /\ h.at \in {"mine", "complete"} /\ h.id = worker[w].id /\ h.row = row
             \/ h = Workless,
             \/ h # Workless \/ worker[w].id \in abandoned'
             \/ worker[w].at = "mark" /\ UNCHANGED analyses
             \/ row.status # "running" /\ analyses' = Updated(analyses, worker[w].id, row),
             \/ UNCHANGED analyses /\ (worker[w].id \notin shared => row = analyses[worker[w].id])
             \/ analyses' = Updated(analyses, worker[w].id, row),
             worker[w].id \notin shared /\ worker[w].row.result => row.result,
             abandoned \subseteq abandoned', abandoned' \subseteq Analyses,
             \/ UNCHANGED worked
             \/ worked' = worked \cup {worker[w].id} /\ row.result,
             UNCHANGED <<voices, cloning, courses, exams, shared, unmarked>>
      PROVE  JobsInv'
    <2>1. PICK a \in Analyses : a = worker[w].id
        BY <1>0, <1>4, <1>k
    <2>2. /\ analyses[a] # NoRow /\ (a \notin shared => worker[w].row = analyses[a])
        BY <1>0, <1>4, <2>1 DEF JobOK
    <2>3. /\ worker' \in [JobWorkers -> WorkHeld \cup {Workless}]
          /\ worker'[w] = h /\ \A u \in JobWorkers \ {w} : worker'[u] = worker[u]
        BY <1>w, <1>4
    <2>4. /\ analyses' \in [Analyses -> AnalysisTask \cup {NoRow}]
          /\ \A b \in Analyses \ {a} : analyses'[b] = analyses[b]
          /\ analyses'[a] # NoRow
          /\ UNCHANGED analyses \/ analyses'[a] = row
          /\ a \notin shared => analyses'[a] = row
        BY <1>0, <1>4, <2>1, <2>2 DEF Updated
    <2>5. ASSUME NEW u \in JobWorkers PROVE JobOK(worker[u])'
        <3>1. CASE u = w
            BY <1>4, <1>l, <2>1, <2>3, <2>4, <3>1 DEF JobOK
        <3>2. CASE u # w
            BY <1>0, <1>4, <1>k, <1>u, <2>1, <2>3, <2>4, <3>2 DEF JobOK, WorksOn
        <3> QED
            BY <3>1, <3>2
    <2>6. ASSUME NEW b \in Analyses PROVE AnalysisOK(b)'
        <3>1. CASE b = a
            <4>1. a \in worked' => a \in worked \/ row.result
                BY <1>4, <2>1
            <4>2. a \in worked' \ shared' => analyses'[a].result
                BY <1>0, <1>4, <2>1, <2>2, <2>4, <4>1 DEF AnalysisOK
            <4>3. ASSUME analyses'[a].status = "running", a \notin abandoned'
                  PROVE  \E v \in JobWorkers : worker'[v].at \in {"mine", "complete"} /\ worker'[v].id = a
                <5>1. CASE h # Workless
                    BY <1>4, <2>1, <2>3, <5>1
                <5>2. CASE h = Workless /\ worker[w].at = "mark" /\ UNCHANGED analyses
                    <6>1. PICK v \in JobWorkers : worker[v].at \in {"mine", "complete"} /\ worker[v].id = a
                        BY <1>0, <1>4, <2>2, <4>3, <5>2 DEF AnalysisOK
                    <6> QED
                        BY <2>3, <5>2, <6>1
                <5>3. CASE row.status # "running" /\ analyses' = Updated(analyses, a, row)
                    BY <1>0, <2>2, <4>3, <5>3 DEF Updated
                <5> QED
                    BY <1>4, <2>1, <2>4, <4>3, <5>1, <5>2, <5>3
            <4> QED
                BY <1>4, <2>4, <3>1, <4>2, <4>3 DEF AnalysisOK
        <3>2. CASE b # a
            BY <1>0, <1>4, <2>1, <2>3, <2>4, <3>2 DEF AnalysisOK
        <3> QED
            BY <3>1, <3>2
    <2>7. ASSUME NEW v \in Voices PROVE VoiceOK(v)'
        BY <1>0, <1>4, <2>3 DEF VoiceOK
    <2>8. ASSUME NEW u \in JobWorkers, NEW v \in JobWorkers, worker'[u].at \in {"mark", "mine", "complete"},
                 worker'[v].at \in {"mark", "mine", "complete"}, worker'[v].id = worker'[u].id,
                 worker'[u].id \notin shared'
          PROVE  u = v
        BY <1>4, <1>l, <1>u, <2>1, <2>3, <2>8 DEF WorksOn
    <2>9. worked' \subseteq Analyses
        BY <1>0, <1>4, <2>1
    <2> QED
        BY <1>0, <1>e, <1>4, <2>3, <2>4, <2>5, <2>6, <2>7, <2>8, <2>9 DEF JobsInv, WorksOn
<1>5. ASSUME NEW w \in JobWorkers, MarkRunning(w) PROVE JobsInv'
    <2>1. PICK row : row = [worker[w].row EXCEPT !.status = "running"]
        OBVIOUS
    <2>2. PICK h : h = [worker[w] EXCEPT !.row = row, !.at = "mine"]
        OBVIOUS
    <2>3. /\ worker[w].at = "mark" /\ analyses' = Updated(analyses, worker[w].id, row)
          /\ worker' = [worker EXCEPT ![w] = h]
          /\ UNCHANGED <<voices, cloning, courses, exams, worked, shared, abandoned, unmarked>>
        BY <1>0, <1>5, <2>1, <2>2 DEF MarkRunning, UpdateAnalysis, Doing
    <2>4. row \in AnalysisTask /\ row.result = worker[w].row.result
        BY <1>0, <1>k, <2>1, <2>3 DEF AnalysisTask
    <2>5. h \in WorkHeld /\ h.at = "mine" /\ h.id = worker[w].id /\ h.row = row
        <3>1. worker[w] \in [at : {"mark", "mine", "complete"}, id : Analyses, row : AnalysisTask]
            BY <1>0, <2>3 DEF WorkHeld, Workless
        <3>2. /\ h \in [at : {"mark", "mine", "complete"}, id : Analyses, row : AnalysisTask]
              /\ h.at = "mine" /\ h.id = worker[w].id /\ h.row = row
            BY <2>2, <2>4, <3>1
        <3> QED
            BY <3>2 DEF WorkHeld
    <2>6. h # Workless
        BY <1>l, <2>5
    <2> QED
        BY <1>0, <1>4, <2>3, <2>4, <2>5, <2>6
<1>6. ASSUME NEW w \in JobWorkers, MineTranscripts(w) PROVE JobsInv'
    <2>1. /\ worker[w].at = "mine" /\ worker[w].row \in AnalysisTask
          /\ UNCHANGED <<analyses, voices, cloning, courses, exams, worked, shared, unmarked>>
          /\ worker[w].id \notin shared => worker[w].row = analyses[worker[w].id]
        BY <1>0, <1>6, <1>k DEF MineTranscripts, Doing, JobOK
    <2>2. CASE worker' = [worker EXCEPT ![w].at = "complete"] /\ UNCHANGED abandoned
        <3>1. PICK h : h = [worker[w] EXCEPT !.at = "complete"]
            OBVIOUS
        <3>2. h \in WorkHeld /\ h.at = "complete" /\ h.id = worker[w].id /\ h.row = worker[w].row
            BY <1>0, <2>1, <3>1 DEF WorkHeld, Workless
        <3>3. worker' = [worker EXCEPT ![w] = h] /\ h # Workless
            BY <1>0, <1>l, <2>2, <3>1, <3>2
        <3> QED
            BY <1>0, <1>4, <2>1, <2>2, <3>2, <3>3
    <2>3. CASE worker' = [worker EXCEPT ![w] = Workless] /\ abandoned' = abandoned \cup {worker[w].id}
        BY <1>0, <1>4, <1>k, <2>1, <2>3
    <2> QED
        BY <1>6, <2>2, <2>3 DEF MineTranscripts, Lay
<1>7. ASSUME NEW w \in JobWorkers, Complete(w) PROVE JobsInv'
    <2>1. PICK row : row = [worker[w].row EXCEPT !.status = "completed", !.result = TRUE]
        OBVIOUS
    <2>2. /\ worker[w].at = "complete" /\ analyses' = Updated(analyses, worker[w].id, row)
          /\ worker' = [worker EXCEPT ![w] = Workless] /\ worked' = worked \cup {worker[w].id}
          /\ UNCHANGED <<voices, cloning, courses, exams, shared, abandoned, unmarked>>
        BY <1>7, <2>1 DEF Complete, Doing, Lay
    <2>3. row \in AnalysisTask /\ row.result /\ row.status = "completed"
        <3>1. worker[w].row \in AnalysisTask
            BY <1>0, <1>k, <2>2
        <3> QED
            BY <2>1, <3>1 DEF AnalysisTask
    <2> QED
        BY <1>0, <1>4, <2>2, <2>3
\* A request that works on a voice.
<1>8. ASSUME NEW w \in JobWorkers, NEW h \in WorkHeld \cup {Workless},
             worker[w].at \in {"clone", "train", "rest"}, worker' = [worker EXCEPT ![w] = h],
             h.at \in {"clone", "train", "rest"}, h.at = "train" => cloning'[h.id] > 0,
             cloning' \in [Voices -> 0..MaxJobs], voices' \in [Voices -> VoiceProfile \cup {NoRow}],
             unmarked \subseteq unmarked', unmarked' \subseteq Voices,
             \A v \in Voices : cloning[v] <= cloning'[v],
             \A v \in Voices : VoiceOK(v)',
             UNCHANGED <<analyses, courses, exams, worked, shared, abandoned>>
      PROVE  JobsInv'
    <2>1. /\ worker' \in [JobWorkers -> WorkHeld \cup {Workless}]
          /\ worker'[w] = h /\ \A u \in JobWorkers \ {w} : worker'[u] = worker[u]
        BY <1>w, <1>8
    <2>2. ASSUME NEW u \in JobWorkers PROVE JobOK(worker[u])'
        <3>1. CASE u = w
            BY <1>8, <2>1, <3>1 DEF JobOK
        <3>2. CASE u # w
            <4>1. worker[u].at = "train" => worker[u].id \in Voices
                BY <1>0, <1>k
            <4> QED
                BY <1>0, <1>8, <2>1, <3>2, <4>1 DEF JobOK
        <3> QED
            BY <3>1, <3>2
    <2>3. ASSUME NEW a \in Analyses PROVE AnalysisOK(a)'
        BY <1>0, <1>8, <2>1 DEF AnalysisOK
    <2>4. ASSUME NEW u \in JobWorkers, NEW v \in JobWorkers, worker'[u].at \in {"mark", "mine", "complete"},
                 worker'[v].at \in {"mark", "mine", "complete"}, worker'[v].id = worker'[u].id,
                 worker'[u].id \notin shared'
          PROVE  u = v
        BY <1>8, <1>u, <2>1, <2>4 DEF WorksOn
    <2> QED
        BY <1>0, <1>8, <1>e, <2>1, <2>2, <2>3, <2>4 DEF JobsInv, WorksOn
<1>9. ASSUME NEW w \in JobWorkers, NEW v \in Voices, GetVoice(w, v) PROVE JobsInv'
    <2>1. PICK h : h = [at |-> "clone", id |-> v]
        OBVIOUS
    <2>2. /\ h \in WorkHeld /\ h.at = "clone" /\ worker[w].at = "rest" /\ worker' = [worker EXCEPT ![w] = h]
          /\ UNCHANGED <<analyses, voices, cloning, courses, exams, worked, shared, abandoned, unmarked>>
        BY <1>9, <1>l, <2>1 DEF GetVoice, SetAbout, WorkHeld, jobHistory
    <2>3. \A u \in Voices : VoiceOK(u)'
        BY <1>0, <1>w, <2>2 DEF VoiceOK
    <2>4. /\ cloning' \in [Voices -> 0..MaxJobs] /\ \A u \in Voices : cloning[u] <= cloning'[u]
          /\ voices' \in [Voices -> VoiceProfile \cup {NoRow}]
          /\ unmarked \subseteq unmarked' /\ unmarked' \subseteq Voices
        BY <1>0, <2>2
    <2> QED
        BY <1>8, <2>2, <2>3, <2>4
<1>10. ASSUME NEW w \in JobWorkers, StartCloneTraining(w) PROVE JobsInv'
    <2>1. PICK h : h = [worker[w] EXCEPT !.at = "train"]
        OBVIOUS
    <2>2. PICK v \in Voices : v = worker[w].id
        BY <1>0, <1>10, <1>k DEF StartCloneTraining, Doing
    <2>3. /\ worker[w].at = "clone" /\ worker' = [worker EXCEPT ![w] = h]
          /\ cloning[v] < MaxJobs /\ cloning' = [cloning EXCEPT ![v] = cloning[v] + 1]
          /\ UNCHANGED <<analyses, voices, courses, exams, worked, shared, abandoned, unmarked>>
        BY <1>0, <1>10, <2>1, <2>2 DEF StartCloneTraining, Doing, jobHistory
    <2>4. h \in WorkHeld /\ h.at = "train" /\ h.id = v
        BY <1>0, <2>1, <2>2, <2>3 DEF WorkHeld, Workless
    <2>5. /\ cloning' \in [Voices -> 0..MaxJobs] /\ cloning'[v] > 0
          /\ \A u \in Voices : cloning[u] <= cloning'[u]
          /\ \A u \in Voices \ {v} : cloning'[u] = cloning[u]
        BY <1>0, <2>3
    <2>6. ASSUME NEW u \in Voices PROVE VoiceOK(u)'
        <3>1. CASE u = v
            BY <1>0, <1>w, <2>3, <2>4, <2>5, <3>1 DEF VoiceOK
        <3>2. CASE u # v
            BY <1>0, <1>w, <2>3, <2>4, <2>5, <3>2 DEF VoiceOK
        <3> QED
            BY <3>1, <3>2
    <2> QED
        BY <1>0, <1>8, <2>3, <2>4, <2>5, <2>6
<1>11. ASSUME NEW w \in JobWorkers, StartTraining(w) PROVE JobsInv'
    <2>1. PICK new \in VoiceProfile : new = [status |-> "training"]
        BY DEF VoiceProfile, VoiceProfileStatus
    <2>2. PICK v \in Voices : v = worker[w].id
        BY <1>0, <1>11, <1>k DEF StartTraining, Doing
    <2>3. /\ worker[w].at = "train" /\ worker' = [worker EXCEPT ![w] = Workless]
          /\ voices' = Updated(voices, v, new)
          /\ UNCHANGED <<analyses, cloning, courses, exams, worked, shared, abandoned, unmarked>>
        BY <1>11, <2>1, <2>2 DEF StartTraining, Doing, Lay, jobHistory
    <2>4. /\ voices' \in [Voices -> VoiceProfile \cup {NoRow}]
          /\ voices'[v] = NoRow \/ voices'[v].status = "training"
          /\ \A u \in Voices \ {v} : voices'[u] = voices[u]
          /\ cloning[v] > 0
        BY <1>0, <2>1, <2>2, <2>3 DEF Updated, JobOK
    <2>5. ASSUME NEW u \in Voices PROVE VoiceOK(u)'
        <3>1. CASE u = v
            BY <2>3, <2>4, <3>1 DEF VoiceOK
        <3>2. CASE u # v
            BY <1>0, <1>w, <2>2, <2>3, <2>4, <3>2 DEF VoiceOK
        <3> QED
            BY <3>1, <3>2
    <2>6. /\ cloning' \in [Voices -> 0..MaxJobs] /\ \A u \in Voices : cloning[u] <= cloning'[u]
          /\ unmarked \subseteq unmarked' /\ unmarked' \subseteq Voices
        BY <1>0, <2>3
    <2> QED
        BY <1>8, <1>l, <2>3, <2>4, <2>5, <2>6
<1>12. ASSUME NEW w \in JobWorkers, WorkFails(w) PROVE JobsInv'
    <2>1. /\ worker' = [worker EXCEPT ![w] = Workless]
          /\ UNCHANGED <<analyses, voices, cloning, courses, exams, worked, shared>>
          /\ abandoned' = IF worker[w].at \in {"mine", "complete"}
                          THEN abandoned \cup {worker[w].id} ELSE abandoned
          /\ unmarked' = IF worker[w].at = "train" THEN unmarked \cup {worker[w].id} ELSE unmarked
        BY <1>12 DEF WorkFails, Lay, Doing
    <2>2. CASE worker[w].at \in {"mark", "mine", "complete"}
        BY <1>0, <1>4, <1>k, <2>1, <2>2 DEF JobOK
    <2>3. CASE worker[w].at \in {"clone", "train", "rest"}
        <3>1. /\ unmarked \subseteq unmarked' /\ unmarked' \subseteq Voices /\ UNCHANGED abandoned
              /\ worker[w].at = "train" => worker[w].id \in unmarked'
            BY <1>0, <1>k, <2>1, <2>3
        <3>2. \A v \in Voices : VoiceOK(v)'
            BY <1>0, <1>w, <2>1, <3>1 DEF VoiceOK
        <3>3. /\ cloning' \in [Voices -> 0..MaxJobs] /\ \A u \in Voices : cloning[u] <= cloning'[u]
              /\ voices' \in [Voices -> VoiceProfile \cup {NoRow}]
            BY <1>0, <2>1
        <3> QED
            BY <1>8, <1>l, <2>1, <2>3, <3>1, <3>2, <3>3
    <2> QED
        BY <1>0, <1>k, <2>2, <2>3
\* Courses and exams.
<1>13. ASSUME UNCHANGED <<analyses, voices, cloning, worker, worked, shared, abandoned, unmarked>>,
              courses' \in [Courses -> Course \cup {NoRow}], exams' \subseteq Exam,
              \A e \in exams' : ExamGraded(e)'
       PROVE  JobsInv'
    BY <1>0, <1>13, <1>u DEF JobsInv, JobOK, AnalysisOK, VoiceOK, WorksOn
<1>14. ASSUME NEW c \in Courses, NEW new \in Course, courses' = [courses EXCEPT ![c] = new],
              courses[c] = NoRow \/ new.pass = courses[c].pass,
              UNCHANGED <<analyses, voices, cloning, exams, worker, worked, shared, abandoned, unmarked>>
       PROVE  JobsInv'
    <2>1. courses' \in [Courses -> Course \cup {NoRow}]
        BY <1>0, <1>14
    <2>2. ASSUME NEW e \in exams PROVE ExamGraded(e)'
        BY <1>0, <1>14, <2>1 DEF ExamGraded, Exam
    <2> QED
        BY <1>0, <1>13, <1>14, <2>1, <2>2
<1>15. ASSUME NEW c \in Courses, NEW pass \in PassScores, CreateCourse(c, pass) PROVE JobsInv'
    <2>1. [pass |-> pass, status |-> "draft"] \in Course
        BY <1>15 DEF CreateCourse, Course
    <2> QED
        BY <1>14, <1>15, <2>1 DEF CreateCourse, Inserted, jobHistory
<1>16. ASSUME NEW c \in Courses, PublishCourse(c) PROVE JobsInv'
    <2>1. PICK new : new = [courses[c] EXCEPT !.status = "published"]
        OBVIOUS
    <2>2. courses[c] \in Course /\ courses' = [courses EXCEPT ![c] = new]
        BY <1>0, <1>16, <2>1 DEF PublishCourse, Updated, Ids
    <2>3. new \in Course /\ new.pass = courses[c].pass
        BY <2>1, <2>2 DEF Course
    <2> QED
        BY <1>14, <1>16, <2>2, <2>3 DEF PublishCourse, jobHistory
<1>17. ASSUME NEW c \in Courses, NEW score \in Scores, NEW of \in Scores, SubmitExam(c, score, of)
       PROVE  JobsInv'
    <2>1. PICK new : new = [course |-> c, score |-> score, of |-> of,
                            passed |-> Passes(score, of, courses[c].pass)]
        OBVIOUS
    <2>2. /\ courses[c] \in Course /\ courses[c] # NoRow /\ exams' = exams \cup {new}
          /\ UNCHANGED <<analyses, voices, cloning, courses, worker, worked, shared, abandoned, unmarked>>
        BY <1>0, <1>17, <2>1 DEF SubmitExam, Ids, jobHistory
    <2>3. score \in Int /\ of \in Int /\ courses[c].pass \in Int
        <3>1. courses[c].pass \in 1..100
            BY <2>2 DEF Course
        <3>2. score \in Int /\ of \in Int
            BY Zenon
        <3> QED
            BY <3>1, <3>2
    <2>4. Passes(score, of, courses[c].pass) <=> of > 0 /\ 100 * score >= courses[c].pass * of
        BY <2>3, GradeExact
    <2>5. /\ new.course = c /\ new.score = score /\ new.of = of
          /\ new.passed = Passes(score, of, courses[c].pass)
        BY <2>1
    <2>6. new \in Exam
        <3>1. Passes(score, of, courses[c].pass) \in BOOLEAN
            BY DEF Passes
        <3> QED
            BY <2>1, <3>1 DEF Exam
    <2>7. ExamGraded(new)
        BY <2>2, <2>4, <2>5 DEF ExamGraded
    <2>8. \A e \in exams' : ExamGraded(e)'
        BY <1>0, <2>2, <2>7 DEF ExamGraded
    <2> QED
        BY <1>0, <1>13, <2>2, <2>6, <2>8
<1>18. CASE UNCHANGED jobVars
    BY <1>0, <1>13, <1>18, <1>e DEF jobVars, jobHistory
<1> QED
    BY <1>1, <1>2, <1>3, <1>5, <1>6, <1>7, <1>9, <1>10, <1>11, <1>12, <1>15, <1>16, <1>17, <1>18
    DEF JobsNext

LEMMA InitJobs == JobsInit => JobsInv
<1> SUFFICES ASSUME JobsInit PROVE JobsInv
    OBVIOUS
<1>1. Workless.at = "rest"
    BY DEF Workless
<1>2. \A w \in JobWorkers : worker[w] = Workless
    BY DEF JobsInit
<1>3. /\ \A w \in JobWorkers : JobOK(worker[w])
      /\ \A u, w \in JobWorkers : ~ WorksOn(w, worker[u].id)
    BY <1>1, <1>2 DEF JobOK, WorksOn
<1>4. (\A a \in Analyses : AnalysisOK(a)) /\ \A v \in Voices : VoiceOK(v)
    BY AiJobsAssumption DEF JobsInit, AnalysisOK, VoiceOK
<1> QED
    BY <1>3, <1>4, AiJobsAssumption DEF JobsInit, JobsInv

(* JobsInv holds in every reachable state: the row a request holds is the   *)
(* stored one where no two met, and an exam keeps the course it was         *)
(* graded by.                                                               *)
THEOREM JobsInvariant == ServicesSpec => []JobsInv
<1>1. ServicesInit => JobsInv
    BY InitJobs DEF ServicesInit
<1>2. [ServicesNext]_servicesVars => [JobsNext]_jobVars
    BY DEF ServicesNext, servicesVars
<1>3. JobsInv /\ [ServicesNext]_servicesVars => JobsInv'
    BY <1>2, NextJobs
<1> QED
    BY <1>1, <1>3, PTL DEF ServicesSpec

(* Where conversations are labelled, led and analysed: labels counted are   *)
(* stored, an item is labelled twice and a final task goes on only where    *)
(* requests met or a query failed, a session that is over stays over and    *)
(* keeps its replies unless its turns overlapped or its end was not stored, *)
(* a running analysis is worked on or was given up, results stay, a voice   *)
(* in training is at the provider, and grades are exact.                    *)
THEOREM AiWorkIsSafe == ServicesSpec => []AiWorkSafe
<1>1. AnnInv => /\ AnnotationTypeOK /\ CountedAreStored /\ TwiceOnlyWhereUnseen
                /\ RevivedOnlyWhereCrossed /\ LabelledIsCompleted
    <2> SUFFICES ASSUME AnnInv
                 PROVE  /\ AnnotationTypeOK /\ CountedAreStored /\ TwiceOnlyWhereUnseen
                        /\ RevivedOnlyWhereCrossed /\ LabelledIsCompleted
        OBVIOUS
    <2> USE AnnotationAssumption
    <2>0. /\ tasks \in [TaskIds -> AnnotationTask \cup {NoRow}]
          /\ results \in [TaskIds -> [Items -> 0..MaxResults]]
          /\ labelling \in [Annotators -> Copies \cup {AtPause}]
          /\ \A a \in Annotators : CopyOK(labelling[a])
          /\ \A k \in TaskIds : LabelsOf(k)
        BY DEF AnnInv
    <2>1. AnnotationTypeOK
        <3>1. ASSUME NEW a \in Annotators, labelling[a] # AtPause PROVE labelling[a].task \in Ids(tasks)
            <4>1. labelling[a].task \in TaskIds
                BY <2>0, <3>1 DEF Copies
            <4> QED
                BY <2>0, <3>1, <4>1 DEF CopyOK, Ids
        <3> QED
            BY <2>0, <3>1 DEF AnnInv, AnnotationTypeOK
    <2>2. CountedAreStored
        BY <2>0 DEF CountedAreStored, LabelsOf, Ids
    <2>3. TwiceOnlyWhereUnseen
        <3> SUFFICES ASSUME NEW k \in TaskIds, NEW i \in Items, results[k][i] > 1, k \notin crossed \cup unseen
                     PROVE  FALSE
            BY DEF TwiceOnlyWhereUnseen
        <3>1. results[k][i] <= 1 /\ results[k][i] \in Nat
            BY <2>0 DEF LabelsOf
        <3> QED
            BY <3>1
    <2>4. LabelledIsCompleted
        <3> SUFFICES ASSUME NEW k \in Ids(tasks) \ (crossed \cup halved), \A a \in Annotators : ~On(a, k),
                            Stored(k) > 0, Stored(k) >= tasks[k].total
                     PROVE  tasks[k].status = "completed"
            BY DEF LabelledIsCompleted
        <3>1. k \in TaskIds /\ tasks[k] # NoRow /\ tasks[k] \in AnnotationTask
            BY <2>0 DEF Ids
        <3>2. tasks[k].labeled \in Nat
            BY <3>1 DEF AnnotationTask
        <3>3. Stored(k) = tasks[k].labeled + 0
            BY <2>0, <3>1 DEF LabelsOf
        <3> QED
            BY <2>0, <3>1, <3>2, <3>3 DEF LabelsOf
    <2> QED
        BY <2>1, <2>2, <2>3, <2>4 DEF AnnInv, RevivedOnlyWhereCrossed
<1>2. CommInv => /\ CommTypeOK /\ ActiveWithinLimit /\ ReopenedOnlyWhereEntwined
                 /\ ToldEndIsStored /\ RepliesAreKept
    <2> SUFFICES ASSUME CommInv
                 PROVE  /\ CommTypeOK /\ ActiveWithinLimit /\ ReopenedOnlyWhereEntwined
                        /\ ToldEndIsStored /\ RepliesAreKept
        OBVIOUS
    <2>1. CommTypeOK
        BY DEF CommInv, CommTypeOK
    <2>2. \A s \in CommSessions : SessionOK(s)
        BY DEF CommInv
    <2>3. ToldEndIsStored
        BY <2>2 DEF CommInv, SessionOK, ToldEndIsStored
    <2> QED
        BY <2>1, <2>2, <2>3
        DEF CommInv, SessionOK, ActiveWithinLimit, ReopenedOnlyWhereEntwined, RepliesAreKept, Ids
<1>3. JobsInv => JobsTypeOK /\ RunningIsWorkedOn /\ ResultsStay /\ TrainedAtProvider /\ GradesAreExact
    <2> SUFFICES ASSUME JobsInv
                 PROVE  JobsTypeOK /\ RunningIsWorkedOn /\ ResultsStay /\ TrainedAtProvider /\ GradesAreExact
        OBVIOUS
    <2>1. JobsTypeOK
        BY DEF JobsInv, JobsTypeOK
    <2>2. /\ \A a \in Analyses : AnalysisOK(a)
          /\ \A v \in Voices : VoiceOK(v)
          /\ \A e \in exams : ExamGraded(e)
        BY DEF JobsInv
    <2>3. RunningIsWorkedOn /\ ResultsStay
        BY <2>2 DEF JobsInv, AnalysisOK, RunningIsWorkedOn, ResultsStay, WorksOn, Ids
    <2>4. TrainedAtProvider /\ GradesAreExact
        BY <2>2 DEF JobsInv, VoiceOK, ExamGraded, TrainedAtProvider, GradesAreExact, Doing, Ids
    <2> QED
        BY <2>1, <2>3, <2>4
<1>4. AnnInv /\ CommInv /\ JobsInv => AiWorkSafe
    BY <1>1, <1>2, <1>3 DEF AiWorkSafe
<1> QED
    BY <1>4, AnnotationInvariant, CommInvariant, JobsInvariant, PTL


-----------------------------------------------------------------------------
(* Hubs. A connection that is open is on the map under its key, and nowhere  *)
(* else; whom a broadcast has still to reach is on the map, because the      *)
(* broadcast holds the read lock; and each event for an open connection is   *)
(* in its channel, at its peer, dropped, or in a broadcast under way.        *)
HubClient == Client \cup {NoClient}

HubShape ==
    /\ clients \in [HubKeys -> SUBSET Sockets]
    /\ conns \in [Sockets -> HubClient]
    /\ casts \in [Sources -> [n : 0..MaxCasts, todo : SUBSET Sockets]]
    /\ arrived \in [Sockets -> Seq(Nat)]
    /\ dropped \in [Sockets -> SUBSET Nat] /\ due \in [Sockets -> SUBSET Nat]
    /\ alerts \in Nat /\ castCount \in Nat /\ alerts <= castCount /\ castCount <= MaxCasts

OnMap(c) == \E k \in HubKeys : c \in clients[k]

SocketOK(c) ==
    /\ conns[c].at = "none" =>
          conns[c] = NoClient /\ arrived[c] = <<>> /\ dropped[c] = {} /\ due[c] = {}
    /\ conns[c].at = "open" => conns[c].key \in HubKeys /\ c \in clients[conns[c].key]
    /\ conns[c].chanClosed => conns[c].at = "left"
    /\ \A k \in HubKeys : c \in clients[k] =>
          conns[c].key = k /\ conns[c].at \in {"open", "leaving"}
    /\ \A b \in Sources : c \in casts[b].todo => casts[b].n # 0 /\ OnMap(c)
    /\ Len(conns[c].send) <= SendCap
    /\ conns[c].at = "open" =>
          due[c] = Got(c) \cup Coming(c) \cup dropped[c]

HubInv == HubShape /\ \A c \in Sockets : SocketOK(c)

RangeOf(s) == {s[i] : i \in DOMAIN s}

LEMMA RangesOfQueues ==
    ASSUME NEW S, NEW s \in Seq(S), NEW t \in Seq(S)
    PROVE  /\ RangeOf(s \o t) = RangeOf(s) \cup RangeOf(t)
           /\ \A e \in S : RangeOf(Append(s, e)) = RangeOf(s) \cup {e}
           /\ s # <<>> => RangeOf(s) = RangeOf(Tail(s)) \cup {Head(s)}
<1>1. RangeOf(s \o t) = RangeOf(s) \cup RangeOf(t)
    <2>1. /\ s \o t \in Seq(S) /\ Len(s \o t) = Len(s) + Len(t)
          /\ \A i \in 1..Len(s) : (s \o t)[i] = s[i]
          /\ \A i \in 1..Len(t) : (s \o t)[Len(s) + i] = t[i]
        OBVIOUS
    <2>2. DOMAIN s = 1..Len(s) /\ DOMAIN t = 1..Len(t) /\ DOMAIN (s \o t) = 1..(Len(s) + Len(t))
        BY <2>1
    <2>3. ASSUME NEW x \in RangeOf(s \o t) PROVE x \in RangeOf(s) \cup RangeOf(t)
        <3>1. PICK i \in 1..(Len(s) + Len(t)) : x = (s \o t)[i]
            BY <2>2, <2>3 DEF RangeOf
        <3>2. CASE i <= Len(s)
            BY <2>1, <2>2, <3>1, <3>2 DEF RangeOf
        <3>3. CASE i > Len(s)
            <4>1. PICK j \in 1..Len(t) : i = Len(s) + j
                <5>1. i - Len(s) \in 1..Len(t) /\ i = Len(s) + (i - Len(s))
                    BY <3>1, <3>3
                <5> QED
                    BY <5>1
            <4> QED
                BY <2>1, <2>2, <3>1, <4>1 DEF RangeOf
        <3> QED
            BY <3>1, <3>2, <3>3
    <2>4. ASSUME NEW x \in RangeOf(s) PROVE x \in RangeOf(s \o t)
        <3>1. PICK i \in 1..Len(s) : x = s[i]
            BY <2>2, <2>4 DEF RangeOf
        <3>2. i \in 1..(Len(s) + Len(t))
            OBVIOUS
        <3> QED
            BY <2>1, <2>2, <3>1, <3>2 DEF RangeOf
    <2>5. ASSUME NEW x \in RangeOf(t) PROVE x \in RangeOf(s \o t)
        <3>1. PICK i \in 1..Len(t) : x = t[i]
            BY <2>2, <2>5 DEF RangeOf
        <3>2. Len(s) + i \in 1..(Len(s) + Len(t))
            OBVIOUS
        <3> QED
            BY <2>1, <2>2, <3>1, <3>2 DEF RangeOf
    <2> QED
        BY <2>3, <2>4, <2>5
<1>2. ASSUME NEW e \in S PROVE RangeOf(Append(s, e)) = RangeOf(s) \cup {e}
    <2>1. /\ DOMAIN Append(s, e) = 1..(Len(s) + 1) /\ DOMAIN s = 1..Len(s)
          /\ \A i \in 1..Len(s) : Append(s, e)[i] = s[i]
          /\ Append(s, e)[Len(s) + 1] = e
        OBVIOUS
    <2>2. \A i \in 1..(Len(s) + 1) : i \in 1..Len(s) \/ i = Len(s) + 1
        OBVIOUS
    <2>3. Len(s) + 1 \in 1..(Len(s) + 1) /\ \A i \in 1..Len(s) : i \in 1..(Len(s) + 1)
        OBVIOUS
    <2> QED
        BY <2>1, <2>2, <2>3, Zenon DEF RangeOf
<1>3. ASSUME s # <<>> PROVE RangeOf(s) = RangeOf(Tail(s)) \cup {Head(s)}
    <2>1. /\ DOMAIN Tail(s) = 1..(Len(s) - 1) /\ DOMAIN s = 1..Len(s) /\ Len(s) >= 1
          /\ \A i \in 1..(Len(s) - 1) : Tail(s)[i] = s[i + 1]
          /\ s[1] = Head(s)
        BY <1>3
    <2>2. ASSUME NEW x \in RangeOf(s) PROVE x \in RangeOf(Tail(s)) \cup {Head(s)}
        <3>1. PICK i \in 1..Len(s) : x = s[i]
            BY <2>1, <2>2 DEF RangeOf
        <3>2. CASE i = 1
            BY <2>1, <3>1, <3>2
        <3>3. CASE i # 1
            <4>1. i - 1 \in 1..(Len(s) - 1) /\ (i - 1) + 1 = i
                BY <3>3
            <4>2. Tail(s)[i - 1] = s[i]
                BY <2>1, <4>1
            <4> QED
                BY <2>1, <3>1, <4>1, <4>2 DEF RangeOf
        <3> QED
            BY <3>2, <3>3
    <2>3. ASSUME NEW x \in RangeOf(Tail(s)) PROVE x \in RangeOf(s)
        <3>1. PICK i \in 1..(Len(s) - 1) : x = Tail(s)[i]
            BY <2>1, <2>3 DEF RangeOf
        <3>2. i + 1 \in 1..Len(s)
            BY <2>1
        <3> QED
            BY <2>1, <3>1, <3>2 DEF RangeOf
    <2>4. Head(s) \in RangeOf(s)
        <3>1. 1 \in 1..Len(s)
            BY <2>1
        <3> QED
            BY <2>1, <3>1 DEF RangeOf
    <2> QED
        BY <2>2, <2>3, <2>4
<1> QED
    BY <1>1, <1>2, <1>3

LEMMA HubFacts ==
    ASSUME HubInv, NEW c \in Sockets
    PROVE  /\ SocketOK(c)
           /\ conns[c] \in HubClient
           /\ conns[c] = [at |-> conns[c].at, key |-> conns[c].key, send |-> conns[c].send,
                          chanClosed |-> conns[c].chanClosed, reader |-> conns[c].reader,
                          peer |-> conns[c].peer]
           /\ conns[c].at \in {"none", "open", "leaving", "left"}
           /\ conns[c].at # "none" => conns[c] \in Client
           /\ conns[c].send \in Seq(Nat) /\ arrived[c] \in Seq(Nat)
           /\ conns[c].send \in Seq(1..MaxCasts)
           /\ Got(c) = RangeOf(arrived[c]) \cup RangeOf(conns[c].send)
<1>1. SocketOK(c) /\ conns[c] \in HubClient /\ arrived[c] \in Seq(Nat)
    BY DEF HubInv, HubShape
<1>2. conns[c].send \in Seq(1..MaxCasts) /\ conns[c].at \in {"none", "open", "leaving", "left"}
    <2>1. CASE conns[c] \in Client
        BY <2>1 DEF Client
    <2>2. CASE conns[c] = NoClient
        <3>1. conns[c].send = <<>> /\ conns[c].at = "none"
            BY <2>2 DEF NoClient
        <3> QED
            BY <3>1
    <2> QED
        BY <1>1, <2>1, <2>2 DEF HubClient
<1>3. conns[c] = [at |-> conns[c].at, key |-> conns[c].key, send |-> conns[c].send,
                  chanClosed |-> conns[c].chanClosed, reader |-> conns[c].reader,
                  peer |-> conns[c].peer]
    BY <1>1 DEF HubClient, Client, NoClient
<1>4. conns[c].send \in Seq(Nat)
    <2>1. PICK T : T = 1..MaxCasts
        OBVIOUS
    <2>2. conns[c].send \in Seq(T) /\ \A x \in T : x \in Nat
        BY <1>2, <2>1
    <2> QED
        BY <2>2
<1>5. Got(c) = RangeOf(arrived[c]) \cup RangeOf(conns[c].send)
    <2>1. RangeOf(arrived[c] \o conns[c].send) = RangeOf(arrived[c]) \cup RangeOf(conns[c].send)
        BY <1>1, <1>4, RangesOfQueues
    <2> QED
        BY <2>1 DEF Got, RangeOf
<1>6. conns[c].at # "none" => conns[c] \in Client
    BY <1>1 DEF HubClient, NoClient
<1> QED
    BY <1>1, <1>2, <1>3, <1>4, <1>5, <1>6

\* A socket that a step leaves alone.
LEMMA OtherSockets ==
    ASSUME HubInv, NEW d \in Sockets,
           conns'[d] = conns[d] /\ arrived'[d] = arrived[d] /\ dropped'[d] = dropped[d] /\ due'[d] = due[d],
           \A k \in HubKeys : d \in clients'[k] <=> d \in clients[k],
           \A b \in Sources : d \in casts'[b].todo <=> d \in casts[b].todo,
           \A b \in Sources : d \in casts[b].todo => casts'[b].n = casts[b].n
    PROVE  SocketOK(d)'
<1>1. SocketOK(d)
    BY HubFacts
<1>2. Got(d)' = Got(d)
    BY DEF Got
<1>3. Coming(d)' = Coming(d)
    BY DEF Coming
<1>4. OnMap(d)' <=> OnMap(d)
    BY DEF OnMap
<1> QED
    BY <1>1, <1>2, <1>3, <1>4 DEF SocketOK

\* Its reader, its peer or its writer gone, nothing else.
LEMMA SocketFades ==
    ASSUME HubInv, NEW c \in Sockets, NEW new, conns' = [conns EXCEPT ![c] = new],
           new \in HubClient, new # NoClient, new.at # "none", conns[c].at # "none",
           new.at = conns[c].at \/ (conns[c].at = "open" /\ new.at = "leaving"),
           new.key = conns[c].key, new.send = conns[c].send, new.chanClosed = conns[c].chanClosed,
           UNCHANGED <<clients, casts, arrived, dropped, due, alerts, castCount>>
    PROVE  HubInv'
<1>0. SocketOK(c) /\ conns \in [Sockets -> HubClient]
    BY HubFacts DEF HubInv, HubShape
<1>1. conns'[c] = new /\ \A d \in Sockets \ {c} : conns'[d] = conns[d]
    BY <1>0
<1>2. HubShape'
    BY <1>0 DEF HubInv, HubShape
<1>3. ASSUME NEW d \in Sockets, d # c PROVE SocketOK(d)'
    BY <1>1, <1>3, OtherSockets
<1>4. Got(c)' = Got(c) /\ Coming(c)' = Coming(c) /\ (OnMap(c)' <=> OnMap(c))
    <2>1. Got(c)' = Got(c)
        <3>1. conns'[c].send = conns[c].send /\ arrived'[c] = arrived[c]
            BY <1>1
        <3> QED
            BY <3>1 DEF Got
    <2>2. Coming(c)' = Coming(c)
        BY DEF Coming
    <2>3. OnMap(c)' <=> OnMap(c)
        BY DEF OnMap
    <2> QED
        BY <2>1, <2>2, <2>3
<1>5. SocketOK(c)'
    BY <1>0, <1>1, <1>4 DEF SocketOK
<1> QED
    BY <1>2, <1>3, <1>5 DEF HubInv

\* While a broadcast holds the lock the map stays as it is; so nobody is to be
\* reached when it changes.
LEMMA NobodyDue ==
    ASSUME HubInv, ~ReadLocked
    PROVE  \A b \in Sources : casts[b].todo = {}
<1> SUFFICES ASSUME NEW b \in Sources, NEW c \in casts[b].todo PROVE FALSE
    OBVIOUS
<1>1. c \in Sockets
    BY DEF HubInv, HubShape
<1>2. SocketOK(c)
    BY <1>1, HubFacts
<1>3. casts[b].n # 0
    BY <1>2 DEF SocketOK
<1> QED
    BY <1>3 DEF ReadLocked

LEMMA Connects ==
    ASSUME HubInv, NEW c \in Sockets, NEW k \in HubKeys, Connect(c, k)
    PROVE  HubInv'
<1>0. /\ SocketOK(c) /\ conns \in [Sockets -> HubClient] /\ clients \in [HubKeys -> SUBSET Sockets]
      /\ conns[c].at = "none" /\ UNCHANGED <<casts, arrived, dropped, due, alerts, castCount>>
    BY HubFacts DEF HubInv, HubShape, Connect
<1>1. PICK new : new = [at |-> "open", key |-> k, send |-> <<>>, chanClosed |-> FALSE,
                        reader |-> TRUE, peer |-> "up"]
    OBVIOUS
<1>2. conns' = [conns EXCEPT ![c] = new]
    <2>1. [NoClient EXCEPT !.at = "open", !.key = k, !.reader = TRUE] = new
        <3>1. PICK j : j = CHOOSE x \in HubKeys : TRUE
            OBVIOUS
        <3>2. NoClient = [at |-> "none", key |-> j, send |-> <<>>, chanClosed |-> FALSE,
                          reader |-> FALSE, peer |-> "up"]
            BY <3>1 DEF NoClient
        <3>3. PICK y : y = [NoClient EXCEPT !.at = "open", !.key = k, !.reader = TRUE]
            OBVIOUS
        <3>4. /\ y.at = "open" /\ y.key = k /\ y.send = <<>> /\ y.reader = TRUE /\ y.peer = "up"
              /\ y.chanClosed = FALSE
            BY <3>2, <3>3
        <3>5. y = [at |-> y.at, key |-> y.key, send |-> y.send, chanClosed |-> y.chanClosed,
                   reader |-> y.reader, peer |-> y.peer]
            BY <3>2, <3>3
        <3> QED
            BY <1>1, <3>3, <3>4, <3>5
    <2> QED
        BY <2>1 DEF Connect
<1>3. new \in HubClient
    <2>1. <<>> \in Seq(1..MaxCasts)
        OBVIOUS
    <2> QED
        BY <1>1, <2>1 DEF HubClient, Client
<1>4. clients' = [clients EXCEPT ![k] = clients[k] \cup {c}] /\ \A b \in Sources : casts[b].todo = {}
    BY NobodyDue DEF Connect, Register
<1>5. HubShape'
    BY <1>0, <1>2, <1>3, <1>4 DEF HubInv, HubShape
<1>6. ASSUME NEW d \in Sockets, d # c PROVE SocketOK(d)'
    BY <1>0, <1>2, <1>4, <1>6, OtherSockets
<1>7. conns'[c] = new /\ c \in clients'[k] /\ \A j \in HubKeys : c \in clients'[j] => j = k
    BY <1>0, <1>2, <1>4 DEF SocketOK
<1>8. Got(c)' = {} /\ Coming(c)' = {}
    <2>1. Got(c)' = RangeOf(<<>> \o <<>>)
        BY <1>0, <1>1, <1>7 DEF Got, RangeOf, SocketOK
    <2>2. RangeOf(<<>> \o <<>>) = {}
        BY DEF RangeOf
    <2> QED
        BY <1>0, <1>4, <2>1, <2>2 DEF Coming
<1>9. SocketOK(c)'
    <2>1. dropped'[c] = {} /\ due'[c] = {} /\ Len(new.send) = 0
        BY <1>0, <1>1 DEF SocketOK
    <2>2. \A b \in Sources : casts'[b].todo = {}
        BY <1>0, <1>4
    <2> QED
        BY <1>1, <1>7, <1>8, <2>1, <2>2, HubAssumption DEF SocketOK
<1> QED
    BY <1>5, <1>6, <1>9 DEF HubInv

LEMMA Broadcasts ==
    ASSUME HubInv, NEW b \in Sources, NEW k \in HubKeys, BeginCast(b, k),
           alerts' \in Nat, alerts' <= alerts + 1
    PROVE  HubInv'
<1>0. /\ conns \in [Sockets -> HubClient] /\ clients \in [HubKeys -> SUBSET Sockets]
      /\ casts \in [Sources -> [n : 0..MaxCasts, todo : SUBSET Sockets]]
      /\ due \in [Sockets -> SUBSET Nat]
      /\ castCount \in Nat /\ alerts \in Nat /\ alerts <= castCount
      /\ UNCHANGED <<clients, conns, arrived, dropped>>
    BY DEF HubInv, HubShape, BeginCast
<1>1. PICK m : m = castCount + 1
    OBVIOUS
<1>2. /\ castCount' = m /\ m \in Nat /\ m # 0 /\ m <= MaxCasts /\ castCount < MaxCasts
      /\ casts[b].n = 0
      /\ casts' = [casts EXCEPT ![b] = [n |-> m, todo |-> clients[k]]]
    BY <1>0, <1>1, HubAssumption DEF BeginCast
<1>3. due' = [c \in Sockets |-> IF conns[c].at = "open" /\ conns[c].key = k THEN due[c] \cup {m} ELSE due[c]]
    BY <1>1, <1>2 DEF BeginCast
<1>4. HubShape'
    <2>1. casts' \in [Sources -> [n : Nat, todo : SUBSET Sockets]]
        BY <1>0, <1>2
    <2>2. due' \in [Sockets -> SUBSET Nat]
        BY <1>0, <1>2, <1>3
    <2>3. alerts' <= castCount'
        BY <1>0, <1>1, <1>2
    <2> QED
        BY <1>0, <1>2, <2>1, <2>2, <2>3 DEF HubInv, HubShape
<1>5. ASSUME NEW c \in Sockets PROVE SocketOK(c)'
    <2>0. SocketOK(c)
        BY HubFacts
    <2>1. c \notin casts[b].todo
        BY <1>2, <2>0 DEF SocketOK
    <2>2. /\ casts'[b].n = m /\ casts'[b].todo = clients[k]
          /\ \A x \in Sources \ {b} : casts'[x] = casts[x]
        BY <1>0, <1>2
    <2>3. CASE c \notin clients[k]
        <3>1. due'[c] = due[c]
            BY <1>3, <2>0, <2>3 DEF SocketOK
        <3>2. \A x \in Sources : c \in casts'[x].todo <=> c \in casts[x].todo
            BY <2>1, <2>2, <2>3
        <3>3. \A x \in Sources : c \in casts[x].todo => casts'[x].n = casts[x].n
            BY <2>1, <2>2
        <3> QED
            BY <1>0, <3>1, <3>2, <3>3, OtherSockets
    <2>4. CASE c \in clients[k]
        <3>1. Got(c)' = Got(c) /\ OnMap(c)'
            BY <1>0, <2>4 DEF Got, OnMap
        <3>2. Coming(c)' = Coming(c) \cup {m}
            <4>1. \A x \in Sources : c \in casts'[x].todo => x = b \/ c \in casts[x].todo
                BY <2>2
            <4>2. \A x \in Sources : c \in casts[x].todo => x # b /\ casts'[x] = casts[x]
                BY <2>1, <2>2
            <4> QED
                BY <2>2, <2>4, <4>1, <4>2 DEF Coming
        <3>3. conns[c].at = "open" => due'[c] = due[c] \cup {m}
            BY <1>3, <2>0, <2>4 DEF SocketOK
        <3>4. \A x \in Sources : c \in casts'[x].todo => casts'[x].n # 0
            BY <1>2, <2>0, <2>2 DEF SocketOK
        <3>5. conns[c].at # "none"
            BY <2>0, <2>4 DEF SocketOK
        <3> QED
            BY <1>0, <2>0, <3>1, <3>2, <3>3, <3>4, <3>5 DEF SocketOK
    <2> QED
        BY <2>3, <2>4
<1> QED
    BY <1>4, <1>5 DEF HubInv

LEMMA Sends ==
    ASSUME HubInv, NEW b \in Sources, NEW c \in Sockets, SendOne(b, c)
    PROVE  HubInv'
<1>0. /\ conns \in [Sockets -> HubClient]
      /\ casts \in [Sources -> [n : 0..MaxCasts, todo : SUBSET Sockets]]
      /\ dropped \in [Sockets -> SUBSET Nat]
      /\ SocketOK(c) /\ conns[c] \in HubClient /\ conns[c].send \in Seq(1..MaxCasts)
      /\ conns[c].send \in Seq(Nat)
      /\ c \in casts[b].todo /\ UNCHANGED <<hubKind, clients, arrived, due, alerts, castCount>>
    BY HubFacts DEF HubInv, HubShape, SendOne
<1>1. casts[b].n \in 0..MaxCasts /\ casts[b].n # 0 /\ casts[b].todo \subseteq Sockets
    BY <1>0 DEF SocketOK
<1>2. PICK m : m = casts[b].n
    OBVIOUS
<1>3. m \in 1..MaxCasts /\ m \in Nat
    BY <1>1, <1>2, HubAssumption
<1>4. /\ casts' = [casts EXCEPT ![b] = [casts[b] EXCEPT !.todo = casts[b].todo \ {c}]]
      /\ casts'[b].n = m /\ casts'[b].todo = casts[b].todo \ {c}
      /\ \A x \in Sources \ {b} : casts'[x] = casts[x]
      /\ casts' \in [Sources -> [n : 0..MaxCasts, todo : SUBSET Sockets]]
    BY <1>0, <1>1, <1>2 DEF SendOne
<1>5. conns[c].at # "none" /\ conns[c] \in Client
    <2>1. conns[c].at # "none"
        BY <1>0 DEF SocketOK, OnMap
    <2> QED
        BY <2>1, HubFacts
<1>6. /\ \A x \in Sources : casts'[x].n = casts[x].n
      /\ \A x \in Sources : \A d \in Sockets \ {c} : d \in casts'[x].todo <=> d \in casts[x].todo
      /\ \A x \in Sources : casts'[x].todo \subseteq casts[x].todo
    BY <1>2, <1>4
<1>7. Coming(c)' \subseteq Coming(c) /\ Coming(c) \subseteq Coming(c)' \cup {m} /\ m \in Coming(c)
    <2>1. \A x \in Sources \ {b} : c \in casts'[x].todo <=> c \in casts[x].todo
        BY <1>4
    <2> QED
        BY <1>0, <1>2, <1>6, <2>1 DEF Coming
<1>8. CASE Len(conns[c].send) >= SendCap
    <2>1. conns' = conns /\ dropped' = [dropped EXCEPT ![c] = dropped[c] \cup {m}]
        BY <1>2, <1>8 DEF SendOne
    <2>2. dropped' \in [Sockets -> SUBSET Nat] /\ dropped'[c] = dropped[c] \cup {m}
          /\ \A d \in Sockets \ {c} : dropped'[d] = dropped[d]
        BY <1>0, <1>3, <2>1
    <2>3. HubShape'
        BY <1>0, <1>4, <2>1, <2>2 DEF HubInv, HubShape
    <2>4. ASSUME NEW d \in Sockets, d # c PROVE SocketOK(d)'
        BY <1>0, <1>6, <2>1, <2>2, <2>4, OtherSockets
    <2>5. Got(c)' = Got(c) /\ (OnMap(c)' <=> OnMap(c))
        BY <1>0, <2>1 DEF Got, OnMap
    <2>6. SocketOK(c)'
        BY <1>0, <1>5, <1>6, <1>7, <2>1, <2>2, <2>5 DEF SocketOK
    <2> QED
        BY <2>3, <2>4, <2>6 DEF HubInv
<1>9. CASE ~(Len(conns[c].send) >= SendCap)
    <2>1. PICK new : new = [conns[c] EXCEPT !.send = Append(conns[c].send, m)]
        OBVIOUS
    <2>2. conns' = [conns EXCEPT ![c] = new] /\ dropped' = dropped
        BY <1>2, <1>9, <2>1 DEF SendOne
    <2>3. Append(conns[c].send, m) \in Seq(1..MaxCasts)
          /\ Len(Append(conns[c].send, m)) = Len(conns[c].send) + 1
        BY <1>0, <1>3
    <2>4. /\ new \in HubClient /\ new.send = Append(conns[c].send, m) /\ new.at = conns[c].at
          /\ new.key = conns[c].key /\ new.chanClosed = conns[c].chanClosed
        BY <1>5, <2>1, <2>3 DEF Client, HubClient
    <2>5. conns' \in [Sockets -> HubClient] /\ conns'[c] = new
          /\ \A d \in Sockets \ {c} : conns'[d] = conns[d]
        BY <1>0, <2>2, <2>4
    <2>6. HubShape'
        BY <1>0, <1>4, <2>2, <2>5 DEF HubInv, HubShape
    <2>7. ASSUME NEW d \in Sockets, d # c PROVE SocketOK(d)'
        BY <1>0, <1>6, <2>2, <2>5, <2>7, OtherSockets
    <2>8. Got(c)' = Got(c) \cup {m} /\ (OnMap(c)' <=> OnMap(c))
        <3>0. PICK a, q : a = arrived[c] /\ q = Append(conns[c].send, m)
            OBVIOUS
        <3>1. a \in Seq(Nat) /\ q \in Seq(Nat)
            BY <1>0, <1>3, <3>0, HubFacts
        <3>2. Got(c)' = RangeOf(a \o q)
            BY <1>0, <2>4, <2>5, <3>0 DEF Got, RangeOf
        <3>6. RangeOf(a \o q) = RangeOf(a) \cup RangeOf(q)
            BY <3>1, RangesOfQueues
        <3>3. Got(c)' = RangeOf(arrived[c]) \cup RangeOf(Append(conns[c].send, m))
            BY <3>0, <3>2, <3>6
        <3>4. RangeOf(Append(conns[c].send, m)) = RangeOf(conns[c].send) \cup {m}
            BY <1>0, <1>3, RangesOfQueues
        <3>5. Got(c) = RangeOf(arrived[c]) \cup RangeOf(conns[c].send)
            BY HubFacts
        <3> QED
            BY <1>0, <3>3, <3>4, <3>5 DEF OnMap
    <2>9. Len(new.send) <= SendCap
        <3>1. Len(conns[c].send) \in Nat
            BY <1>0
        <3> QED
            BY <1>9, <2>3, <2>4, <3>1, HubAssumption
    <2>10. SocketOK(c)'
        BY <1>0, <1>5, <1>6, <1>7, <2>2, <2>4, <2>5, <2>8, <2>9 DEF SocketOK
    <2> QED
        BY <2>6, <2>7, <2>10 DEF HubInv
<1> QED
    BY <1>8, <1>9

LEMMA CastEnds ==
    ASSUME HubInv, NEW b \in Sources, EndCast(b)
    PROVE  HubInv'
<1>1. /\ casts \in [Sources -> [n : 0..MaxCasts, todo : SUBSET Sockets]] /\ casts[b].todo = {}
      /\ casts' = [casts EXCEPT ![b] = [n |-> 0, todo |-> {}]]
      /\ UNCHANGED <<hubKind, clients, conns, arrived, dropped, due, alerts, castCount>>
    BY DEF HubInv, HubShape, EndCast, NoCast
<1>2. casts' \in [Sources -> [n : 0..MaxCasts, todo : SUBSET Sockets]]
    BY <1>1, HubAssumption
<1>3. /\ \A x \in Sources : casts'[x].todo = casts[x].todo
      /\ \A x \in Sources : \A d \in casts[x].todo : casts'[x].n = casts[x].n
    BY <1>1
<1>4. HubShape'
    BY <1>1, <1>2 DEF HubInv, HubShape
<1>5. ASSUME NEW d \in Sockets PROVE SocketOK(d)'
    BY <1>1, <1>3, OtherSockets
<1> QED
    BY <1>4, <1>5 DEF HubInv

LEMMA Writes ==
    ASSUME HubInv, NEW c \in Sockets, WriteMessage(c)
    PROVE  HubInv'
<1>0. /\ conns \in [Sockets -> HubClient] /\ arrived \in [Sockets -> Seq(Nat)]
      /\ SocketOK(c) /\ conns[c].send \in Seq(1..MaxCasts) /\ conns[c].send \in Seq(Nat)
      /\ conns[c].at = "open" /\ conns[c].send # <<>> /\ conns[c] \in Client
      /\ UNCHANGED <<clients, casts, dropped, due, alerts, castCount>>
    BY HubFacts DEF HubInv, HubShape, WriteMessage
<1>1. PICK h, t : h = Head(conns[c].send) /\ t = Tail(conns[c].send)
    OBVIOUS
<1>2. h \in Nat /\ t \in Seq(1..MaxCasts) /\ t \in Seq(Nat) /\ Len(t) = Len(conns[c].send) - 1
      /\ Len(conns[c].send) \in Nat
    <2>1. PICK T, q : T = 1..MaxCasts /\ q = conns[c].send
        OBVIOUS
    <2>2. q \in Seq(T) /\ q # <<>> /\ \A x \in T : x \in Nat
        BY <1>0, <2>1
    <2>3. h = Head(q) /\ t = Tail(q)
        BY <1>1, <2>1
    <2>4. Head(q) \in T
        BY <2>2
    <2>5. Tail(q) \in Seq(T) /\ Len(Tail(q)) = Len(q) - 1 /\ Len(q) \in Nat
        BY <2>2
    <2>6. t \in Seq(Nat)
        BY <2>2, <2>3, <2>5
    <2> QED
        BY <2>1, <2>2, <2>3, <2>4, <2>5, <2>6
<1>3. PICK new : new = [conns[c] EXCEPT !.send = t]
    OBVIOUS
<1>4. conns' = [conns EXCEPT ![c] = new] /\ arrived' = [arrived EXCEPT ![c] = Append(arrived[c], h)]
    BY <1>1, <1>3 DEF WriteMessage
<1>5. /\ new \in HubClient /\ new.send = t /\ new.at = "open"
      /\ new.key = conns[c].key /\ new.chanClosed = conns[c].chanClosed
    BY <1>0, <1>2, <1>3 DEF Client, HubClient
<1>6. /\ conns' \in [Sockets -> HubClient] /\ conns'[c] = new
      /\ \A d \in Sockets \ {c} : conns'[d] = conns[d]
    BY <1>0, <1>4, <1>5
<1>7. /\ arrived' \in [Sockets -> Seq(Nat)] /\ arrived'[c] = Append(arrived[c], h)
      /\ \A d \in Sockets \ {c} : arrived'[d] = arrived[d]
    <2>1. arrived[c] \in Seq(Nat) /\ Append(arrived[c], h) \in Seq(Nat)
        BY <1>0, <1>2
    <2> QED
        BY <1>0, <1>4, <2>1
<1>8. HubShape'
    BY <1>0, <1>6, <1>7 DEF HubInv, HubShape
<1>9. ASSUME NEW d \in Sockets, d # c PROVE SocketOK(d)'
    BY <1>0, <1>6, <1>7, <1>9, OtherSockets
<1>10. Got(c)' = Got(c)
    <2>0. PICK a, q : a = arrived[c] /\ q = Append(a, h)
        OBVIOUS
    <2>1. a \in Seq(Nat) /\ q \in Seq(Nat)
        BY <1>0, <1>2, <2>0
    <2>2. Got(c)' = RangeOf(q \o t)
        BY <1>5, <1>6, <1>7, <2>0 DEF Got, RangeOf
    <2>3. RangeOf(q \o t) = RangeOf(q) \cup RangeOf(t)
        BY <1>2, <2>1, RangesOfQueues
    <2>4. RangeOf(q) = RangeOf(a) \cup {h}
        BY <1>2, <2>0, <2>1, RangesOfQueues
    <2>5. RangeOf(conns[c].send) = RangeOf(t) \cup {h}
        BY <1>0, <1>1, RangesOfQueues
    <2>6. Got(c) = RangeOf(arrived[c]) \cup RangeOf(conns[c].send)
        BY HubFacts
    <2> QED
        BY <2>0, <2>2, <2>3, <2>4, <2>5, <2>6
<1>11. (OnMap(c)' <=> OnMap(c)) /\ Coming(c)' = Coming(c)
    BY <1>0 DEF OnMap, Coming
<1>12. Len(t) <= SendCap
    BY <1>0, <1>2, HubAssumption DEF SocketOK
<1>13. SocketOK(c)'
    BY <1>0, <1>5, <1>6, <1>10, <1>11, <1>12 DEF SocketOK
<1> QED
    BY <1>8, <1>9, <1>13 DEF HubInv

LEMMA Unregisters ==
    ASSUME HubInv, NEW c \in Sockets, Unregister(c)
    PROVE  HubInv'
<1>0. /\ conns \in [Sockets -> HubClient] /\ clients \in [HubKeys -> SUBSET Sockets]
      /\ SocketOK(c) /\ conns[c].at = "leaving" /\ conns[c] \in Client
      /\ \A b \in Sources : casts[b].todo = {}
      /\ UNCHANGED <<casts, arrived, dropped, due, alerts, castCount>>
    BY HubFacts, NobodyDue DEF HubInv, HubShape, Unregister
<1>1. PICK k : k = conns[c].key
    OBVIOUS
<1>2. clients' = [clients EXCEPT ![k] = clients[k] \ {c}]
    BY <1>1 DEF Unregister
<1>3. \A j \in HubKeys : c \in clients[j] => j = k
    BY <1>0, <1>1 DEF SocketOK
<1>4. /\ clients' \in [HubKeys -> SUBSET Sockets]
      /\ \A j \in HubKeys : clients'[j] \subseteq clients[j] /\ clients[j] \subseteq clients'[j] \cup {c}
      /\ \A j \in HubKeys : c \notin clients'[j]
    BY <1>0, <1>2, <1>3
<1>5. PICK new : new = [[conns[c] EXCEPT !.at = "left"] EXCEPT !.chanClosed = TRUE]
    OBVIOUS
<1>6. conns' = [conns EXCEPT ![c] = new]
    BY <1>0, <1>5 DEF Unregister
<1>7. new \in HubClient /\ new.at = "left" /\ new.send = conns[c].send
    BY <1>0, <1>5 DEF Client, HubClient
<1>8. /\ conns' \in [Sockets -> HubClient] /\ conns'[c] = new
      /\ \A d \in Sockets \ {c} : conns'[d] = conns[d]
    BY <1>0, <1>6, <1>7
<1>9. HubShape'
    BY <1>0, <1>4, <1>8 DEF HubInv, HubShape
<1>10. ASSUME NEW d \in Sockets, d # c PROVE SocketOK(d)'
    <2>1. \A j \in HubKeys : d \in clients'[j] <=> d \in clients[j]
        BY <1>4, <1>10
    <2> QED
        BY <1>0, <1>8, <1>10, <2>1, OtherSockets
<1>11. SocketOK(c)'
    <2>1. \A b \in Sources : c \notin casts'[b].todo
        BY <1>0
    <2> QED
        BY <1>0, <1>4, <1>7, <1>8, <2>1 DEF SocketOK
<1> QED
    BY <1>9, <1>10, <1>11 DEF HubInv

LEMMA NextHub == HubInv /\ [HubNext]_hubVars => HubInv'
<1> SUFFICES ASSUME HubInv, [HubNext]_hubVars PROVE HubInv'
    OBVIOUS
<1>0. alerts \in Nat
    BY DEF HubInv, HubShape
<1>1. ASSUME NEW c \in Sockets, NEW k \in HubKeys, AgentServeWS(c, k) \/ ImServeWS(c, k) \/ TranscriptServeWS(c, k)
      PROVE  HubInv'
    BY <1>1, Connects DEF AgentServeWS, ImServeWS, TranscriptServeWS
<1>2. ASSUME NEW c \in Sockets, NEW k \in HubKeys, ReadMessage(c, k)
      PROVE  HubInv'
    <2>1. c \in Sources /\ BeginCast(c, k) /\ alerts' = alerts
        BY <1>2 DEF ReadMessage, Sources
    <2> QED
        BY <1>0, <2>1, Broadcasts
<1>3. ASSUME NEW c \in Sockets, PeerLeaves(c) \/ ReaderEnds(c) \/ WriteFails(c)
      PROVE  HubInv'
    <2>0. conns[c] \in HubClient /\ SocketOK(c)
          /\ UNCHANGED <<clients, casts, arrived, dropped, due, alerts, castCount>>
        BY <1>3, HubFacts DEF PeerLeaves, ReaderEnds, WriteFails
    <2>1. conns[c].at # "none"
        <3>1. conns[c].at = "none" => ~conns[c].reader
            BY <2>0 DEF SocketOK, NoClient
        <3> QED
            BY <1>3, <3>1 DEF PeerLeaves, ReaderEnds, WriteFails
    <2>2. conns[c] \in Client
        BY <2>1, HubFacts
    <2>3. CASE PeerLeaves(c)
        <3>1. PICK new : new = [conns[c] EXCEPT !.peer = "gone"]
            OBVIOUS
        <3>2. conns' = [conns EXCEPT ![c] = new]
            BY <2>3, <3>1 DEF PeerLeaves
        <3>3. /\ new \in HubClient /\ new.at = conns[c].at /\ new.key = conns[c].key
              /\ new.send = conns[c].send /\ new.chanClosed = conns[c].chanClosed
            BY <2>2, <3>1 DEF Client, HubClient
        <3>4. new # NoClient
            BY <2>1, <3>3 DEF NoClient
        <3> QED
            BY <2>0, <2>1, <3>2, <3>3, <3>4, SocketFades
    <2>4. CASE ReaderEnds(c)
        <3>1. PICK new : new = [conns[c] EXCEPT !.reader = FALSE]
            OBVIOUS
        <3>2. conns' = [conns EXCEPT ![c] = new]
            BY <2>4, <3>1 DEF ReaderEnds
        <3>3. /\ new \in HubClient /\ new.at = conns[c].at /\ new.key = conns[c].key
              /\ new.send = conns[c].send /\ new.chanClosed = conns[c].chanClosed
            BY <2>2, <3>1 DEF Client, HubClient
        <3>4. new # NoClient
            BY <2>1, <3>3 DEF NoClient
        <3> QED
            BY <2>0, <2>1, <3>2, <3>3, <3>4, SocketFades
    <2>5. CASE WriteFails(c)
        <3>1. PICK new : new = [conns[c] EXCEPT !.at = "leaving"]
            OBVIOUS
        <3>2. conns' = [conns EXCEPT ![c] = new] /\ conns[c].at = "open"
            BY <2>5, <3>1 DEF WriteFails
        <3>3. /\ new \in HubClient /\ new.at = "leaving" /\ new.key = conns[c].key
              /\ new.send = conns[c].send /\ new.chanClosed = conns[c].chanClosed
            BY <2>2, <3>1 DEF Client, HubClient
        <3>4. new # NoClient
            BY <2>1, <3>3 DEF NoClient
        <3> QED
            BY <2>0, <2>1, <3>2, <3>3, <3>4, SocketFades
    <2> QED
        BY <1>3, <2>3, <2>4, <2>5
<1>4. ASSUME NEW c \in Sockets, WriteMessage(c) \/ Unregister(c)
      PROVE  HubInv'
    BY <1>4, Writes, Unregisters
<1>5. ASSUME NEW b \in Casters, NEW k \in HubKeys, SendToAgent(b, k) \/ BroadcastEvent(b, k)
      PROVE  HubInv'
    <2>1. b \in Sources /\ BeginCast(b, k) /\ alerts' = alerts
        BY <1>5 DEF SendToAgent, BroadcastEvent, Sources
    <2> QED
        BY <1>0, <2>1, Broadcasts
<1>6. ASSUME NEW b \in Casters, NEW k \in HubKeys, NEW word \in BOOLEAN, TranscriptBroadcast(b, k, word)
      PROVE  HubInv'
    <2>1. b \in Sources /\ BeginCast(b, k) /\ alerts' \in {alerts + 0, alerts + 1}
        BY <1>6 DEF TranscriptBroadcast, Sources
    <2> QED
        BY <1>0, <2>1, Broadcasts
<1>7. ASSUME NEW b \in Sources, EndCast(b) \/ \E c \in Sockets : SendOne(b, c)
      PROVE  HubInv'
    BY <1>7, CastEnds, Sends
<1>8. CASE UNCHANGED hubVars
    <2>1. HubShape'
        BY <1>8 DEF hubVars, HubInv, HubShape
    <2>2. ASSUME NEW d \in Sockets PROVE SocketOK(d)'
        BY <1>8, OtherSockets DEF hubVars
    <2> QED
        BY <2>1, <2>2 DEF HubInv
<1> QED
    BY <1>1, <1>2, <1>3, <1>4, <1>5, <1>6, <1>7, <1>8 DEF HubNext

LEMMA InitHub == HubInit => HubInv
<1> SUFFICES ASSUME HubInit PROVE HubInv
    OBVIOUS
<1>1. /\ \A c \in Sockets : conns[c] = NoClient /\ arrived[c] = <<>> /\ dropped[c] = {} /\ due[c] = {}
      /\ \A k \in HubKeys : clients[k] = {}
      /\ \A b \in Sources : casts[b] = [n |-> 0, todo |-> {}]
    BY DEF HubInit, NoCast
<1>2. HubShape
    <2>1. NoClient \in HubClient /\ <<>> \in Seq(Nat) /\ [n |-> 0, todo |-> {}] \in [n : 0..MaxCasts, todo : SUBSET Sockets]
        BY HubAssumption DEF HubClient
    <2> QED
        BY <2>1, HubAssumption DEF HubInit, HubShape, NoCast
<1>3. NoClient.at = "none" /\ NoClient.chanClosed = FALSE /\ NoClient.send = <<>>
    BY DEF NoClient
<1>4. ASSUME NEW c \in Sockets PROVE SocketOK(c)
    <2>1. Len(<<>>) <= SendCap
        BY HubAssumption
    <2> QED
        BY <1>1, <1>3, <2>1 DEF SocketOK
<1> QED
    BY <1>2, <1>4 DEF HubInv

(* HubInv holds in every reachable state.                                    *)
THEOREM HubInvariant == ServicesSpec => []HubInv
<1>1. ServicesInit => HubInv
    BY InitHub DEF ServicesInit
<1>2. [ServicesNext]_servicesVars => [HubNext]_hubVars
    BY DEF ServicesNext, servicesVars
<1>3. HubInv /\ [ServicesNext]_servicesVars => HubInv'
    BY <1>2, NextHub
<1> QED
    BY <1>1, <1>3, PTL DEF ServicesSpec

LEMMA HubsAreSafe == HubInv => HubTypeOK /\ NoSendOnClosed /\ EveryClientReached
<1> SUFFICES ASSUME HubInv PROVE HubTypeOK /\ NoSendOnClosed /\ EveryClientReached
    OBVIOUS
<1>1. HubTypeOK
    <2>1. \A c \in Sockets : conns[c].at \in {"none", "open", "leaving", "left"} /\ Len(conns[c].send) <= SendCap
        BY HubFacts DEF SocketOK
    <2> QED
        BY <2>1, HubAssumption DEF HubInv, HubShape, HubTypeOK
<1>2. NoSendOnClosed
    <2> SUFFICES ASSUME NEW b \in Sources, NEW c \in casts[b].todo PROVE ~conns[c].chanClosed
        BY DEF NoSendOnClosed
    <2>1. c \in Sockets
        BY DEF HubInv, HubShape
    <2>2. SocketOK(c)
        BY <2>1, HubFacts
    <2>3. PICK k \in HubKeys : c \in clients[k]
        BY <2>2 DEF SocketOK, OnMap
    <2>4. conns[c].at \in {"open", "leaving"}
        BY <2>2, <2>3 DEF SocketOK
    <2> QED
        BY <2>2, <2>4 DEF SocketOK
<1>3. EveryClientReached
    BY HubFacts DEF SocketOK, EveryClientReached
<1> QED
    BY <1>1, <1>2, <1>3

-----------------------------------------------------------------------------
(* Chats. Copies in hand have the shape of stored sessions, and what can be  *)
(* written too late is counted in advance: who is about to close a session,  *)
(* to give an agent one more, or to add a message.                           *)
ChatJob == [at : {"idle", "channel", "config", "create", "message", "mail", "route", "count",
                  "assign", "close"},
            id : Channels \cup Sessions \cup {NoRow},
            copy : IMChannel \cup SocialChannelConfig \cup IMSession \cup {NoRow},
            agent : ChatAgents \cup {NoAgent}, left : SUBSET ChatAgents,
            via : {"none", "widget", "mail", "social"}]

Shaped(r) ==
    /\ r.status = "waiting" => r.agent = NoAgent
    /\ r.status = "active" => r.agent # NoAgent
    /\ r.ended <=> r.status = "closed"

ChatShape ==
    /\ channels \in [Channels -> IMChannel \cup {NoRow}]
    /\ social \in [Channels -> SocialChannelConfig \cup {NoRow}]
    /\ sessions \in [Sessions -> IMSession \cup {NoRow}]
    /\ \A s \in Sessions : sessions[s] # NoRow => Shaped(sessions[s])
    /\ chats \in [ChatRequests -> ChatJob]
    /\ closes \in [Sessions -> Nat] /\ reopened \in [Sessions -> Nat] /\ late \in [Sessions -> Nat]
    /\ chatCount \in 0..MaxChats

IsThere(s) == s \in Sessions /\ sessions[s] # NoRow
IsClosed(s) == sessions[s] # NoRow /\ sessions[s].status = "closed"

\* What a request holds at each of its places.
ChatJobOK(x) ==
    /\ x.at = "channel" => x.id \in Channels /\ x.copy \in IMChannel
    /\ x.at = "config" => x.id \in Channels /\ x.copy \in SocialChannelConfig
    /\ x.at = "create" => x.copy \in IMChannel
    /\ x.at \in {"message", "mail", "route", "count", "assign", "close"} => IsThere(x.id)
    /\ x.at \in {"count", "assign", "close"} =>
          x.copy \in IMSession /\ Shaped(x.copy) /\ x.copy.status # "closed"
    /\ x.at \in {"count", "assign"} => x.agent \in ChatAgents

Closing(s) == About(s, {"close"})
Messaging(s) == About(s, {"message", "mail"})
Assigning(a) == {w \in ChatRequests : chats[w].at = "assign" /\ chats[w].agent = a}

CountsOK(s) ==
    /\ closes[s] + Cardinality(Closing(s)) <= W * (1 + reopened[s])
    /\ ~IsClosed(s) => closes[s] <= W * reopened[s] /\ late[s] <= (W - 1) * closes[s]
    /\ IsClosed(s) => late[s] + Cardinality(Messaging(s)) <= (W - 1) * closes[s]

SlotsOK(a) ==
    /\ IsFiniteSet(ActiveOf(a))
    /\ Cardinality(ActiveOf(a)) + Cardinality(Assigning(a)) < MaxChatSlots + W

ChatInv ==
    /\ ChatShape
    /\ \A w \in ChatRequests : ChatJobOK(chats[w])
    /\ \A s \in Sessions : CountsOK(s)
    /\ \A a \in ChatAgents : SlotsOK(a)

\* A part of a finite set, a part of it with one more, and one without a member.
LEMMA OneMoreOrLess ==
    ASSUME NEW S, IsFiniteSet(S), NEW T
    PROVE  /\ T \subseteq S => IsFiniteSet(T) /\ Cardinality(T) <= Cardinality(S)
           /\ \A s : T \subseteq S \cup {s} => IsFiniteSet(T) /\ Cardinality(T) <= Cardinality(S) + 1
           /\ \A s \in S : T \subseteq S /\ s \notin T => Cardinality(T) + 1 <= Cardinality(S)
           /\ Cardinality(S) \in Nat /\ (T \subseteq S => Cardinality(T) \in Nat)
<1>1. ASSUME NEW U, IsFiniteSet(U), T \subseteq U
      PROVE  IsFiniteSet(T) /\ Cardinality(T) <= Cardinality(U)
    BY <1>1, FS_Subset
<1>2. ASSUME NEW s, T \subseteq S \cup {s}
      PROVE  IsFiniteSet(T) /\ Cardinality(T) <= Cardinality(S) + 1
    <2>1. PICK U : U = S \cup {s}
        OBVIOUS
    <2>2. IsFiniteSet(U) /\ Cardinality(U) = (IF s \in S THEN Cardinality(S) ELSE Cardinality(S) + 1)
        BY <2>1, FS_AddElement
    <2>3. IsFiniteSet(T) /\ Cardinality(T) <= Cardinality(U)
        BY <1>1, <1>2, <2>1, <2>2
    <2>4. Cardinality(S) \in Nat /\ Cardinality(T) \in Nat /\ Cardinality(U) \in Nat
        BY <2>2, <2>3, FS_CardinalityType
    <2> QED
        BY <2>2, <2>3, <2>4
<1>3. ASSUME NEW s \in S, T \subseteq S, s \notin T
      PROVE  Cardinality(T) + 1 <= Cardinality(S)
    <2>1. PICK U : U = S \ {s}
        OBVIOUS
    <2>2. IsFiniteSet(U) /\ Cardinality(U) = Cardinality(S) - 1
        BY <2>1, FS_RemoveElement
    <2>3. IsFiniteSet(T) /\ Cardinality(T) <= Cardinality(U)
        BY <1>1, <1>3, <2>1, <2>2
    <2>4. Cardinality(S) \in Nat /\ Cardinality(T) \in Nat /\ Cardinality(U) \in Nat
        BY <2>2, <2>3, FS_CardinalityType
    <2> QED
        BY <2>2, <2>3, <2>4
<1>4. Cardinality(S) \in Nat /\ (T \subseteq S => Cardinality(T) \in Nat)
    BY <1>1, FS_CardinalityType
<1> QED
    BY <1>1, <1>2, <1>3, <1>4

LEMMA ManyRequests ==
    /\ W \in Nat /\ W >= 1
    /\ \A T : T \subseteq ChatRequests =>
          IsFiniteSet(T) /\ Cardinality(T) \in Nat /\ Cardinality(T) <= W
    /\ \A T, w : T \subseteq ChatRequests /\ w \in ChatRequests \ T => Cardinality(T) <= W - 1
<1>1. IsFiniteSet(ChatRequests) /\ ChatRequests # {}
    BY ChatAssumption
<1>2. ASSUME NEW T, T \subseteq ChatRequests
      PROVE  IsFiniteSet(T) /\ Cardinality(T) \in Nat /\ Cardinality(T) <= W
    BY <1>1, <1>2, FS_Subset, FS_CardinalityType DEF W
<1>3. ASSUME NEW T, NEW w, T \subseteq ChatRequests, w \in ChatRequests \ T
      PROVE  Cardinality(T) <= W - 1
    <2>1. PICK U : U = T \cup {w}
        OBVIOUS
    <2>2. IsFiniteSet(T) /\ U \subseteq ChatRequests /\ Cardinality(U) <= W /\ Cardinality(T) \in Nat
        BY <1>2, <1>3, <2>1
    <2>3. Cardinality(U) = Cardinality(T) + 1
        BY <1>3, <2>1, <2>2, FS_AddElement
    <2> QED
        BY <1>1, <2>2, <2>3, FS_CardinalityType DEF W
<1>4. W \in Nat /\ W >= 1
    <2>1. PICK w : w \in ChatRequests
        BY <1>1
    <2>2. {} \subseteq ChatRequests /\ Cardinality({}) = 0
        BY FS_EmptySet
    <2>3. 0 <= W - 1 /\ W \in Nat
        BY <1>1, <1>3, <2>1, <2>2, FS_CardinalityType DEF W
    <2> QED
        BY <2>3
<1> QED
    BY <1>2, <1>3, <1>4

LEMMA ChatFacts ==
    ASSUME ChatInv
    PROVE  /\ channels \in [Channels -> IMChannel \cup {NoRow}]
           /\ social \in [Channels -> SocialChannelConfig \cup {NoRow}]
           /\ sessions \in [Sessions -> IMSession \cup {NoRow}]
           /\ chats \in [ChatRequests -> ChatJob]
           /\ \A s \in Sessions : /\ closes[s] \in Nat /\ reopened[s] \in Nat /\ late[s] \in Nat
                                  /\ CountsOK(s)
                                  /\ IsThere(s) => sessions[s] \in IMSession /\ Shaped(sessions[s])
           /\ \A w \in ChatRequests : chats[w] \in ChatJob /\ ChatJobOK(chats[w])
           /\ \A s : Closing(s) \subseteq ChatRequests /\ Messaging(s) \subseteq ChatRequests
           /\ \A a : Assigning(a) \subseteq ChatRequests
           /\ NoRow \notin IMSession /\ NoRow \notin IMChannel /\ NoRow \notin SocialChannelConfig
           /\ chatCount \in 0..MaxChats /\ MaxChats \in Nat
BY ChatAssumption DEF ChatInv, ChatShape, Closing, Messaging, About, Assigning, IsThere

\* The products of the bounds.
LEMMA Products ==
    /\ \A m, r \in Nat : m * r \in Nat /\ m * (1 + r) = m * r + m /\ m * (1 + (1 + r)) = m * r + m + m
    /\ \A m, r \in Nat : m >= 1 => (m - 1) * r \in Nat /\ (m - 1) * (1 + r) = (m - 1) * r + (m - 1)
<1>1. \A m, r \in Nat : m * r \in Nat
    OBVIOUS
<1>2. \A m, r \in Nat : m * (1 + r) = m * r + m
    OBVIOUS
<1>3. \A m, r \in Nat : m * (1 + (1 + r)) = m * r + m + m
    <2> SUFFICES ASSUME NEW m \in Nat, NEW r \in Nat PROVE m * (1 + (1 + r)) = m * r + m + m
        OBVIOUS
    <2>1. PICK q \in Nat : q = 1 + r
        OBVIOUS
    <2>2. m * (1 + q) = m * q + m /\ m * q = m * r + m
        BY <1>2, <2>1
    <2> QED
        BY <1>1, <2>1, <2>2
<1>4. ASSUME NEW m \in Nat, NEW r \in Nat, m >= 1
      PROVE  (m - 1) * r \in Nat /\ (m - 1) * (1 + r) = (m - 1) * r + (m - 1)
    <2>1. PICK p \in Nat : p = m - 1
        BY <1>4
    <2> QED
        BY <1>1, <1>2, <2>1
<1> QED
    BY <1>1, <1>2, <1>3, <1>4

\* One request moved: who is where.
LEMMA ChatMoves ==
    ASSUME ChatInv, NEW w \in ChatRequests, NEW new, new \in ChatJob, Chat(w, new)
    PROVE  /\ chats' \in [ChatRequests -> ChatJob] /\ chats'[w] = new
           /\ \A v \in ChatRequests \ {w} : chats'[v] = chats[v]
           /\ \A s : /\ Closing(s)' \subseteq Closing(s) \cup {w} /\ Messaging(s)' \subseteq Messaging(s) \cup {w}
                     /\ (new.at = "close" /\ new.id = s) \/ w \notin Closing(s)'
                     /\ (new.at \in {"message", "mail"} /\ new.id = s) \/ w \notin Messaging(s)'
                     /\ Closing(s)' \subseteq ChatRequests /\ Messaging(s)' \subseteq ChatRequests
           /\ \A a : /\ Assigning(a)' \subseteq Assigning(a) \cup {w}
                     /\ (new.at = "assign" /\ new.agent = a) \/ w \notin Assigning(a)'
                     /\ Assigning(a)' \subseteq ChatRequests
<1>1. /\ chats' \in [ChatRequests -> ChatJob] /\ chats'[w] = new
      /\ \A v \in ChatRequests \ {w} : chats'[v] = chats[v]
    BY ChatFacts DEF Chat
<1>2. ASSUME NEW s
      PROVE  /\ Closing(s)' \subseteq Closing(s) \cup {w} /\ Messaging(s)' \subseteq Messaging(s) \cup {w}
             /\ (new.at = "close" /\ new.id = s) \/ w \notin Closing(s)'
             /\ (new.at \in {"message", "mail"} /\ new.id = s) \/ w \notin Messaging(s)'
             /\ Closing(s)' \subseteq ChatRequests /\ Messaging(s)' \subseteq ChatRequests
    BY <1>1 DEF Closing, Messaging, About
<1>3. ASSUME NEW a
      PROVE  /\ Assigning(a)' \subseteq Assigning(a) \cup {w}
             /\ (new.at = "assign" /\ new.agent = a) \/ w \notin Assigning(a)'
             /\ Assigning(a)' \subseteq ChatRequests
    BY <1>1 DEF Assigning
<1> QED
    BY <1>1, <1>2, <1>3

\* Rows are never deleted, so that what a request holds stays good.
LEMMA JobsKeep ==
    ASSUME ChatInv, NEW w \in ChatRequests, NEW new, new \in ChatJob, Chat(w, new),
           ChatJobOK(new)', \A s : IsThere(s) => IsThere(s)'
    PROVE  \A v \in ChatRequests : ChatJobOK(chats[v])'
<1>1. ASSUME NEW v \in ChatRequests, v # w PROVE ChatJobOK(chats[v])'
    <2>1. PICK x : x = chats[v]
        OBVIOUS
    <2>2. chats'[v] = x /\ ChatJobOK(x)
        BY <1>1, <2>1, ChatMoves, ChatFacts
    <2>3. ChatJobOK(x)'
        BY <2>2 DEF ChatJobOK
    <2> QED
        BY <2>2, <2>3 DEF ChatJobOK, IsThere
<1>2. ChatJobOK(chats[w])'
    BY ChatMoves DEF ChatJobOK, IsThere
<1> QED
    BY <1>1, <1>2

\* A session nobody closes, opens or writes to, though somebody may begin to
\* close it or to send while it is open.
LEMMA CountsKeep ==
    ASSUME ChatInv, NEW s \in Sessions,
           closes'[s] = closes[s] /\ reopened'[s] = reopened[s] /\ late'[s] = late[s],
           IsClosed(s)' <=> IsClosed(s),
           Closing(s)' \subseteq ChatRequests, Messaging(s)' \subseteq ChatRequests,
           IsClosed(s) => Closing(s)' \subseteq Closing(s) /\ Messaging(s)' \subseteq Messaging(s)
    PROVE  CountsOK(s)'
<1>1. CountsOK(s) /\ closes[s] \in Nat /\ reopened[s] \in Nat /\ late[s] \in Nat
    BY ChatFacts
<1>2. W \in Nat /\ W >= 1 /\ W' = W
    BY ManyRequests DEF W
<1>3. /\ Cardinality(Closing(s)') \in Nat /\ Cardinality(Closing(s)') <= W
      /\ Cardinality(Messaging(s)') \in Nat
    BY ManyRequests
<1>4. W * reopened[s] \in Nat /\ W * (1 + reopened[s]) = W * reopened[s] + W
    BY <1>1, <1>2, Products
<1>5. CASE ~IsClosed(s)
    <2>1. closes'[s] + Cardinality(Closing(s)') <= W * (1 + reopened'[s])
        BY <1>1, <1>2, <1>3, <1>4, <1>5 DEF CountsOK
    <2> QED
        BY <1>1, <1>2, <1>5, <2>1 DEF CountsOK
<1>6. CASE IsClosed(s)
    <2>1. /\ Cardinality(Closing(s)') <= Cardinality(Closing(s)) /\ Cardinality(Closing(s)) \in Nat
          /\ Cardinality(Messaging(s)') <= Cardinality(Messaging(s)) /\ Cardinality(Messaging(s)) \in Nat
        <3>1. Closing(s) \subseteq ChatRequests /\ Messaging(s) \subseteq ChatRequests
            BY ChatFacts
        <3> QED
            BY <1>6, <3>1, ManyRequests, FS_Subset
    <2>2. closes'[s] + Cardinality(Closing(s)') <= W * (1 + reopened'[s])
        BY <1>1, <1>2, <1>3, <1>4, <2>1 DEF CountsOK
    <2>3. (W - 1) * closes[s] \in Nat
        BY <1>1, <1>2, Products
    <2>4. late'[s] + Cardinality(Messaging(s)') <= (W - 1) * closes'[s]
        BY <1>1, <1>3, <1>6, <2>1, <2>3 DEF CountsOK
    <2> QED
        BY <1>2, <1>6, <2>2, <2>4 DEF CountsOK
<1> QED
    BY <1>5, <1>6

LEMMA SlotsKeep ==
    ASSUME ChatInv, NEW a \in ChatAgents, ActiveOf(a)' \subseteq ActiveOf(a),
           Assigning(a)' \subseteq ChatRequests,
           \/ Assigning(a)' \subseteq Assigning(a)
           \/ Cardinality(ActiveOf(a)) < MaxChatSlots
    PROVE  SlotsOK(a)'
<1>1. IsFiniteSet(ActiveOf(a)) /\ Cardinality(ActiveOf(a)) + Cardinality(Assigning(a)) < MaxChatSlots + W
    BY DEF ChatInv, SlotsOK
<1>2. W \in Nat /\ W >= 1 /\ W' = W /\ MaxChatSlots \in Nat
    BY ManyRequests, ChatAssumption DEF W
<1>3. IsFiniteSet(ActiveOf(a)') /\ Cardinality(ActiveOf(a)') <= Cardinality(ActiveOf(a))
      /\ Cardinality(ActiveOf(a)') \in Nat /\ Cardinality(ActiveOf(a)) \in Nat
    BY <1>1, FS_Subset, FS_CardinalityType
<1>4. Cardinality(Assigning(a)') \in Nat /\ Cardinality(Assigning(a)') <= W
    BY ManyRequests
<1>5. CASE Assigning(a)' \subseteq Assigning(a)
    <2>1. Assigning(a) \subseteq ChatRequests
        BY ChatFacts
    <2>2. Cardinality(Assigning(a)') <= Cardinality(Assigning(a)) /\ Cardinality(Assigning(a)) \in Nat
        BY <1>5, <2>1, ManyRequests, FS_Subset
    <2> QED
        BY <1>1, <1>2, <1>3, <1>4, <2>2 DEF SlotsOK
<1>6. CASE Cardinality(ActiveOf(a)) < MaxChatSlots
    BY <1>2, <1>3, <1>4, <1>6 DEF SlotsOK
<1> QED
    BY <1>5, <1>6

\* Steps that leave the sessions and their histories alone.
LEMMA SessionsStay ==
    ASSUME ChatInv, NEW w \in ChatRequests, NEW new, new \in ChatJob, ChatJobOK(new), Chat(w, new),
           UNCHANGED <<sessions, closes, reopened, late>>,
           channels' \in [Channels -> IMChannel \cup {NoRow}],
           social' \in [Channels -> SocialChannelConfig \cup {NoRow}],
           chatCount' \in 0..MaxChats,
           new.at = "assign" => Cardinality(ActiveOf(new.agent)) < MaxChatSlots,
           new.at \in {"close", "message", "mail"} => ~IsClosed(new.id)
    PROVE  ChatInv'
<1>1. ChatShape'
    BY ChatMoves DEF ChatInv, ChatShape
<1>2. ASSUME NEW v \in ChatRequests PROVE ChatJobOK(chats[v])'
    <2>1. \A s : IsThere(s) => IsThere(s)'
        BY DEF IsThere
    <2>2. ChatJobOK(new)'
        BY DEF ChatJobOK, IsThere
    <2> QED
        BY <2>1, <2>2, JobsKeep
<1>3. ASSUME NEW s \in Sessions PROVE CountsOK(s)'
    <2>1. IsClosed(s)' <=> IsClosed(s)
        BY DEF IsClosed
    <2>2. Closing(s)' \subseteq ChatRequests /\ Messaging(s)' \subseteq ChatRequests
        BY ChatMoves
    <2>3. IsClosed(s) => Closing(s)' \subseteq Closing(s) /\ Messaging(s)' \subseteq Messaging(s)
        BY ChatMoves
    <2> QED
        BY <2>1, <2>2, <2>3, CountsKeep
<1>4. ASSUME NEW a \in ChatAgents PROVE SlotsOK(a)'
    <2>1. ActiveOf(a)' \subseteq ActiveOf(a)
        BY DEF ActiveOf, Ids
    <2>2. Assigning(a)' \subseteq ChatRequests
        BY ChatMoves
    <2>3. Assigning(a)' \subseteq Assigning(a) \/ Cardinality(ActiveOf(a)) < MaxChatSlots
        BY ChatMoves
    <2> QED
        BY <2>1, <2>2, <2>3, SlotsKeep
<1> QED
    BY <1>1, <1>2, <1>3, <1>4 DEF ChatInv

LEMMA TablesOnly ==
    ASSUME ChatInv, UNCHANGED <<sessions, chats, closes, reopened, late>>,
           channels' \in [Channels -> IMChannel \cup {NoRow}],
           social' \in [Channels -> SocialChannelConfig \cup {NoRow}],
           chatCount' \in 0..MaxChats
    PROVE  ChatInv'
<1>1. ChatShape'
    BY DEF ChatInv, ChatShape
<1>2. ASSUME NEW v \in ChatRequests PROVE ChatJobOK(chats[v])'
    BY ChatFacts DEF ChatJobOK, IsThere
<1>3. ASSUME NEW s \in Sessions PROVE CountsOK(s)'
    <2>1. /\ IsClosed(s)' <=> IsClosed(s)
          /\ Closing(s)' = Closing(s) /\ Messaging(s)' = Messaging(s)
        BY DEF IsClosed, Closing, Messaging, About
    <2> QED
        BY <2>1, CountsKeep, ChatFacts
<1>4. ASSUME NEW a \in ChatAgents PROVE SlotsOK(a)'
    <2>1. ActiveOf(a)' = ActiveOf(a) /\ Assigning(a)' = Assigning(a)
        BY DEF ActiveOf, Assigning, Ids
    <2> QED
        BY <2>1, SlotsKeep, ChatFacts
<1> QED
    BY <1>1, <1>2, <1>3, <1>4 DEF ChatInv

\* A row inserted or written as a whole.
LEMMA RowStored ==
    ASSUME ChatInv, NEW s \in Sessions, NEW row, row \in IMSession, Shaped(row),
           sessions' = [sessions EXCEPT ![s] = row]
    PROVE  /\ sessions' \in [Sessions -> IMSession \cup {NoRow}] /\ sessions'[s] = row /\ row # NoRow
           /\ \A r \in Sessions \ {s} : sessions'[r] = sessions[r]
           /\ \A r \in Sessions : sessions'[r] # NoRow => Shaped(sessions'[r])
           /\ \A r : (IsThere(r) => IsThere(r)') /\ IsThere(s)'
           /\ \A r \in Sessions \ {s} : IsClosed(r)' <=> IsClosed(r)
           /\ IsClosed(s)' <=> row.status = "closed"
           /\ \A a : /\ row.status # "active" => ActiveOf(a)' \subseteq ActiveOf(a)
                     /\ a # row.agent => ActiveOf(a)' \subseteq ActiveOf(a)
                     /\ ActiveOf(a)' \subseteq ActiveOf(a) \cup {s}
<1>1. /\ sessions' \in [Sessions -> IMSession \cup {NoRow}] /\ sessions'[s] = row /\ row # NoRow
      /\ \A r \in Sessions \ {s} : sessions'[r] = sessions[r]
    BY ChatFacts
<1>2. \A r \in Sessions : sessions'[r] # NoRow => Shaped(sessions'[r])
    <2> SUFFICES ASSUME NEW r \in Sessions, sessions'[r] # NoRow PROVE Shaped(sessions'[r])
        OBVIOUS
    <2>1. CASE r = s
        BY <1>1, <2>1
    <2>2. CASE r # s
        BY <1>1, <2>2, ChatFacts DEF IsThere
    <2> QED
        BY <2>1, <2>2
<1>3. \A r : (IsThere(r) => IsThere(r)') /\ IsThere(s)'
    BY <1>1 DEF IsThere
<1>4. /\ \A r \in Sessions \ {s} : IsClosed(r)' <=> IsClosed(r)
      /\ IsClosed(s)' <=> row.status = "closed"
    BY <1>1 DEF IsClosed
<1>5. \A a : /\ row.status # "active" => ActiveOf(a)' \subseteq ActiveOf(a)
             /\ a # row.agent => ActiveOf(a)' \subseteq ActiveOf(a)
             /\ ActiveOf(a)' \subseteq ActiveOf(a) \cup {s}
    BY <1>1, ChatFacts DEF ActiveOf, Ids
<1> QED
    BY <1>1, <1>2, <1>3, <1>4, <1>5

LEMMA SessionCreated ==
    ASSUME ChatInv, NEW w \in ChatRequests, NEW new, new \in ChatJob, Chat(w, new),
           NEW s \in Sessions, sessions[s] = NoRow,
           NEW row, row \in IMSession, Shaped(row), row.status = "waiting",
           sessions' = [sessions EXCEPT ![s] = row],
           new.at \in {"idle", "mail", "message", "route"}, new.at # "idle" => new.id = s,
           UNCHANGED <<channels, social, closes, reopened, late, chatCount>>
    PROVE  ChatInv'
<1>1. ChatShape'
    BY ChatMoves, RowStored DEF ChatInv, ChatShape
<1>2. ASSUME NEW v \in ChatRequests PROVE ChatJobOK(chats[v])'
    <2>1. \A r : IsThere(r) => IsThere(r)'
        BY RowStored
    <2>2. ChatJobOK(new)'
        <3>1. IsThere(s)'
            BY RowStored
        <3> QED
            BY <3>1 DEF ChatJobOK
    <2> QED
        BY <2>1, <2>2, JobsKeep
<1>3. ASSUME NEW r \in Sessions PROVE CountsOK(r)'
    <2>1. IsClosed(r)' <=> IsClosed(r)
        BY RowStored DEF IsClosed
    <2>2. IsClosed(r) => r # s
        BY DEF IsClosed
    <2>3. Closing(r)' \subseteq ChatRequests /\ Messaging(r)' \subseteq ChatRequests
        BY ChatMoves
    <2>4. IsClosed(r) => Closing(r)' \subseteq Closing(r) /\ Messaging(r)' \subseteq Messaging(r)
        BY <2>2, ChatMoves
    <2> QED
        BY <2>1, <2>3, <2>4, CountsKeep
<1>4. ASSUME NEW a \in ChatAgents PROVE SlotsOK(a)'
    <2>1. ActiveOf(a)' \subseteq ActiveOf(a)
        BY RowStored
    <2>2. Assigning(a)' \subseteq ChatRequests /\ Assigning(a)' \subseteq Assigning(a)
        BY ChatMoves
    <2> QED
        BY <2>1, <2>2, SlotsKeep
<1> QED
    BY <1>1, <1>2, <1>3, <1>4 DEF ChatInv

LEMMA RoutingJobs ==
    /\ NoChat \in ChatJob /\ NoChat.at = "idle"
    /\ \A s \in Sessions : \A grouped : /\ Routing(s, grouped) \in ChatJob
                                        /\ Routing(s, grouped).at \in {"idle", "route"}
                                        /\ Routing(s, grouped).at = "route" => Routing(s, grouped).id = s
<1>1. NoChat \in ChatJob /\ NoChat.at = "idle"
    BY DEF NoChat, ChatJob
<1>2. ASSUME NEW s \in Sessions, NEW grouped
      PROVE  /\ Routing(s, grouped) \in ChatJob
             /\ Routing(s, grouped).at \in {"idle", "route"}
             /\ Routing(s, grouped).at = "route" => Routing(s, grouped).id = s
    <2>1. PICK y : y = [NoChat EXCEPT !.at = "route", !.id = s, !.left = ChatAgents]
        OBVIOUS
    <2>2. y \in ChatJob /\ y.at = "route" /\ y.id = s
        BY <2>1 DEF NoChat, ChatJob
    <2>3. Routing(s, grouped) = y \/ Routing(s, grouped) = NoChat
        BY <2>1 DEF Routing
    <2> QED
        BY <1>1, <2>2, <2>3
<1> QED
    BY <1>1, <1>2

\* A row with an agent is written over whatever is stored: an open session has
\* one more, a closed one is open again, and one request has written.
LEMMA Assigned ==
    ASSUME ChatInv, NEW w \in ChatRequests, Assign(w)
    PROVE  ChatInv'
<1>0. PICK x : x = chats[w]
    OBVIOUS
<1>1. /\ x \in ChatJob /\ x.at = "assign" /\ x.id \in Sessions /\ sessions[x.id] # NoRow
      /\ x.copy \in IMSession /\ Shaped(x.copy) /\ x.copy.status # "closed" /\ x.agent \in ChatAgents
      /\ x.agent # NoAgent
    BY <1>0, ChatFacts, ChatAssumption DEF ChatJobOK, IsThere, Assign
<1>2. PICK s : s = x.id
    OBVIOUS
<1>3. PICK row : row = [x.copy EXCEPT !.agent = x.agent, !.status = "active"]
    OBVIOUS
<1>4. /\ row \in IMSession /\ row.status = "active" /\ row.agent = x.agent /\ Shaped(row)
    <2>1. row \in IMSession /\ row.status = "active" /\ row.agent = x.agent /\ row.ended = x.copy.ended
        BY <1>1, <1>3 DEF IMSession
    <2> QED
        BY <1>1, <2>1 DEF Shaped
<1>5. /\ s \in Sessions /\ sessions' = [sessions EXCEPT ![s] = row] /\ Chat(w, NoChat)
      /\ reopened' = IF IsClosed(s) THEN [reopened EXCEPT ![s] = reopened[s] + 1] ELSE reopened
      /\ UNCHANGED <<channels, social, closes, late, chatCount>>
    BY <1>0, <1>1, <1>2, <1>3 DEF Assign, UpdateSession, Updated, IsClosed
<1>6. NoChat \in ChatJob /\ NoChat.at = "idle"
    BY DEF NoChat, ChatJob
<1>7. PICK new : new = NoChat
    OBVIOUS
<1>8. new \in ChatJob /\ new.at = "idle" /\ Chat(w, new)
    BY <1>5, <1>6, <1>7
<1>9. /\ \A r \in Sessions \ {s} : reopened'[r] = reopened[r]
      /\ reopened'[s] = IF IsClosed(s) THEN reopened[s] + 1 ELSE reopened[s]
      /\ reopened' \in [Sessions -> Nat]
    BY <1>5 DEF ChatInv, ChatShape
<1>10. ChatShape'
    BY <1>4, <1>5, <1>8, <1>9, ChatMoves, RowStored DEF ChatInv, ChatShape
<1>11. ASSUME NEW v \in ChatRequests PROVE ChatJobOK(chats[v])'
    <2>1. \A r : IsThere(r) => IsThere(r)'
        BY <1>4, <1>5, RowStored
    <2>2. ChatJobOK(new)'
        BY <1>8 DEF ChatJobOK
    <2> QED
        BY <1>8, <2>1, <2>2, JobsKeep
<1>12. \A r : Closing(r)' \subseteq Closing(r) /\ Messaging(r)' \subseteq Messaging(r)
              /\ Closing(r)' \subseteq ChatRequests /\ Messaging(r)' \subseteq ChatRequests
    BY <1>8, ChatMoves
<1>13. ASSUME NEW r \in Sessions, r # s PROVE CountsOK(r)'
    BY <1>4, <1>5, <1>9, <1>12, <1>13, RowStored, CountsKeep
<1>14. CountsOK(s)'
    <2>0. /\ CountsOK(s) /\ closes[s] \in Nat /\ reopened[s] \in Nat /\ late[s] \in Nat
          /\ closes'[s] = closes[s] /\ late'[s] = late[s]
        BY <1>5, ChatFacts
    <2>1. ~IsClosed(s)'
        BY <1>4, <1>5, RowStored
    <2>2. W \in Nat /\ W >= 1 /\ W' = W
        BY ManyRequests DEF W
    <2>3. /\ Cardinality(Closing(s)') \in Nat /\ Cardinality(Closing(s)) \in Nat
          /\ Cardinality(Closing(s)') <= Cardinality(Closing(s)) /\ Cardinality(Messaging(s)) \in Nat
        BY <1>12, ChatFacts, ManyRequests, FS_Subset
    <2>4. /\ W * reopened[s] \in Nat /\ W * (1 + reopened[s]) = W * reopened[s] + W
          /\ W * (1 + (1 + reopened[s])) = W * reopened[s] + W + W
          /\ (W - 1) * closes[s] \in Nat
        BY <2>0, <2>2, Products
    <2>5. CASE IsClosed(s)
        <3>1. reopened'[s] = 1 + reopened[s]
            BY <1>9, <2>0, <2>5
        <3>a. closes[s] + Cardinality(Closing(s)) <= W * reopened[s] + W
            BY <2>0, <2>4 DEF CountsOK
        <3>b. W * reopened'[s] = W * reopened[s] + W /\ W * (1 + reopened'[s]) = W * reopened[s] + W + W
            BY <2>4, <3>1
        <3>2. closes[s] <= W * reopened'[s] /\ closes[s] + Cardinality(Closing(s)') <= W * (1 + reopened'[s])
            <4>1. PICK p \in Nat : p = W * reopened[s]
                BY <2>4
            <4> QED
                BY <2>0, <2>2, <2>3, <3>a, <3>b, <4>1
        <3>3. late[s] <= (W - 1) * closes[s]
            BY <2>0, <2>3, <2>4, <2>5 DEF CountsOK
        <3> QED
            BY <2>0, <2>1, <2>2, <3>2, <3>3 DEF CountsOK
    <2>6. CASE ~IsClosed(s)
        <3>1. reopened'[s] = reopened[s]
            BY <1>9, <2>6
        <3>2. closes[s] + Cardinality(Closing(s)') <= W * (1 + reopened'[s])
            <4>1. PICK p \in Nat : p = W * reopened[s]
                BY <2>4
            <4>2. closes[s] + Cardinality(Closing(s)) <= p + W /\ W * (1 + reopened'[s]) = p + W
                BY <2>0, <2>4, <3>1, <4>1 DEF CountsOK
            <4> QED
                BY <2>0, <2>2, <2>3, <4>1, <4>2
        <3> QED
            BY <2>0, <2>1, <2>2, <2>6, <3>1, <3>2 DEF CountsOK
    <2> QED
        BY <2>5, <2>6
<1>15. ASSUME NEW a \in ChatAgents PROVE SlotsOK(a)'
    <2>1. Assigning(a)' \subseteq ChatRequests /\ Assigning(a)' \subseteq Assigning(a) /\ w \notin Assigning(a)'
        BY <1>8, ChatMoves
    <2>2. CASE a # x.agent
        <3>1. ActiveOf(a)' \subseteq ActiveOf(a)
            BY <1>4, <1>5, <2>2, RowStored
        <3> QED
            BY <2>1, <3>1, SlotsKeep
    <2>3. CASE a = x.agent
        <3>1. ActiveOf(a)' \subseteq ActiveOf(a) \cup {s}
            BY <1>4, <1>5, RowStored
        <3>2. w \in Assigning(a) /\ Assigning(a) \subseteq ChatRequests
            BY <1>0, <1>1, <2>3 DEF Assigning
        <3>3. /\ IsFiniteSet(ActiveOf(a))
              /\ Cardinality(ActiveOf(a)) + Cardinality(Assigning(a)) < MaxChatSlots + W
            BY DEF ChatInv, SlotsOK
        <3>4. /\ IsFiniteSet(ActiveOf(a)') /\ Cardinality(ActiveOf(a)') <= Cardinality(ActiveOf(a)) + 1
              /\ Cardinality(ActiveOf(a)) \in Nat
            BY <3>1, <3>3, OneMoreOrLess
        <3>5. IsFiniteSet(Assigning(a))
            BY <3>2, ManyRequests
        <3>6. Cardinality(Assigning(a)') + 1 <= Cardinality(Assigning(a)) /\ Cardinality(Assigning(a)) \in Nat
            BY <2>1, <3>2, <3>5, OneMoreOrLess
        <3>7. /\ Cardinality(Assigning(a)') \in Nat /\ Cardinality(ActiveOf(a)') \in Nat
              /\ MaxChatSlots \in Nat /\ W \in Nat /\ W' = W
            BY <2>1, <3>4, ManyRequests, ChatAssumption, FS_CardinalityType DEF W
        <3> QED
            BY <3>3, <3>4, <3>6, <3>7 DEF SlotsOK
    <2> QED
        BY <2>2, <2>3
<1> QED
    BY <1>10, <1>11, <1>13, <1>14, <1>15 DEF ChatInv

LEMMA SessionClosed ==
    ASSUME ChatInv, NEW w \in ChatRequests, ClosedBy(w)
    PROVE  ChatInv'
<1>0. PICK x : x = chats[w]
    OBVIOUS
<1>1. /\ x \in ChatJob /\ x.at = "close" /\ x.id \in Sessions /\ sessions[x.id] # NoRow
      /\ x.copy \in IMSession
    BY <1>0, ChatFacts DEF ChatJobOK, IsThere, ClosedBy
<1>2. PICK s : s = x.id
    OBVIOUS
<1>3. PICK row : row = [[x.copy EXCEPT !.status = "closed"] EXCEPT !.ended = TRUE]
    OBVIOUS
<1>4. row \in IMSession /\ row.status = "closed" /\ Shaped(row)
    <2>1. row \in IMSession /\ row.status = "closed" /\ row.ended
        BY <1>1, <1>3 DEF IMSession
    <2> QED
        BY <2>1 DEF Shaped
<1>5. /\ s \in Sessions /\ sessions' = [sessions EXCEPT ![s] = row] /\ Chat(w, NoChat)
      /\ closes' = [closes EXCEPT ![s] = closes[s] + 1]
      /\ UNCHANGED <<channels, social, reopened, late, chatCount>>
    BY <1>0, <1>1, <1>2, <1>3 DEF ClosedBy, UpdateSession, Updated
<1>6. NoChat \in ChatJob /\ NoChat.at = "idle"
    BY DEF NoChat, ChatJob
<1>7. PICK new : new = NoChat
    OBVIOUS
<1>8. new \in ChatJob /\ new.at = "idle" /\ Chat(w, new)
    BY <1>5, <1>6, <1>7
<1>9. /\ \A r \in Sessions \ {s} : closes'[r] = closes[r]
      /\ closes'[s] = closes[s] + 1 /\ closes' \in [Sessions -> Nat]
    BY <1>5 DEF ChatInv, ChatShape
<1>10. ChatShape'
    BY <1>4, <1>5, <1>8, <1>9, ChatMoves, RowStored DEF ChatInv, ChatShape
<1>11. ASSUME NEW v \in ChatRequests PROVE ChatJobOK(chats[v])'
    <2>1. \A r : IsThere(r) => IsThere(r)'
        BY <1>4, <1>5, RowStored
    <2>2. ChatJobOK(new)'
        BY <1>8 DEF ChatJobOK
    <2> QED
        BY <1>8, <2>1, <2>2, JobsKeep
<1>12. \A r : Closing(r)' \subseteq Closing(r) /\ Messaging(r)' \subseteq Messaging(r)
              /\ Closing(r)' \subseteq ChatRequests /\ Messaging(r)' \subseteq ChatRequests
              /\ w \notin Closing(r)' /\ w \notin Messaging(r)'
    BY <1>8, ChatMoves
<1>13. ASSUME NEW r \in Sessions, r # s PROVE CountsOK(r)'
    BY <1>4, <1>5, <1>9, <1>12, <1>13, RowStored, CountsKeep
<1>14. CountsOK(s)'
    <2>0. /\ CountsOK(s) /\ closes[s] \in Nat /\ reopened[s] \in Nat /\ late[s] \in Nat
          /\ reopened'[s] = reopened[s] /\ late'[s] = late[s] /\ IsClosed(s)'
        BY <1>4, <1>5, ChatFacts, RowStored
    <2>1. W \in Nat /\ W >= 1 /\ W' = W
        BY ManyRequests DEF W
    <2>2. Closing(s) \subseteq ChatRequests /\ Messaging(s) \subseteq ChatRequests /\ w \in Closing(s)
        BY <1>0, <1>1, <1>2, ChatFacts DEF Closing, About
    <2>3. Cardinality(Closing(s)') + 1 <= Cardinality(Closing(s)) /\ Cardinality(Closing(s)) \in Nat
          /\ Cardinality(Closing(s)') \in Nat
        <3>1. IsFiniteSet(Closing(s)) /\ Cardinality(Closing(s)') \in Nat
            BY <1>12, <2>2, ManyRequests
        <3> QED
            BY <1>12, <2>2, <3>1, OneMoreOrLess
    <2>4. /\ Cardinality(Messaging(s)') <= Cardinality(Messaging(s)) /\ Cardinality(Messaging(s)) \in Nat
          /\ Cardinality(Messaging(s)') \in Nat
        BY <1>12, <2>2, ManyRequests, FS_Subset
    <2>5. Cardinality(Messaging(s)') <= W - 1
        BY <1>12, ManyRequests
    <2>6. /\ W * reopened[s] \in Nat /\ W * (1 + reopened[s]) = W * reopened[s] + W
          /\ (W - 1) * closes[s] \in Nat /\ (W - 1) * (1 + closes[s]) = (W - 1) * closes[s] + (W - 1)
        BY <2>0, <2>1, Products
    <2>7. closes'[s] = 1 + closes[s]
        BY <1>9, <2>0
    <2>8. closes'[s] + Cardinality(Closing(s)') <= W * (1 + reopened[s])
        <3>1. PICK p \in Nat : p = W * reopened[s]
            BY <2>6
        <3>2. closes[s] + Cardinality(Closing(s)) <= p + W /\ W * (1 + reopened[s]) = p + W
            BY <2>0, <2>6, <3>1 DEF CountsOK
        <3> QED
            BY <2>0, <2>1, <2>3, <2>7, <3>1, <3>2
    <2>9. late[s] + Cardinality(Messaging(s)') <= (W - 1) * closes'[s]
        BY <2>0, <2>1, <2>4, <2>5, <2>6, <2>7 DEF CountsOK
    <2> QED
        BY <2>0, <2>1, <2>8, <2>9 DEF CountsOK
<1>15. ASSUME NEW a \in ChatAgents PROVE SlotsOK(a)'
    <2>1. Assigning(a)' \subseteq ChatRequests /\ Assigning(a)' \subseteq Assigning(a)
        BY <1>8, ChatMoves
    <2>2. ActiveOf(a)' \subseteq ActiveOf(a)
        BY <1>4, <1>5, RowStored
    <2> QED
        BY <2>1, <2>2, SlotsKeep
<1> QED
    BY <1>10, <1>11, <1>13, <1>14, <1>15 DEF ChatInv

LEMMA MessageInserted ==
    ASSUME ChatInv, NEW w \in ChatRequests, InsertMessage(w)
    PROVE  ChatInv'
<1>0. PICK x : x = chats[w]
    OBVIOUS
<1>1. /\ x \in ChatJob /\ x.at \in {"message", "mail"} /\ x.id \in Sessions /\ sessions[x.id] # NoRow
    BY <1>0, ChatFacts DEF ChatJobOK, IsThere, InsertMessage
<1>2. PICK s : s = x.id
    OBVIOUS
<1>3. PICK new : new = IF x.at = "mail" THEN Routing(s, x.copy.grouped) ELSE NoChat
    OBVIOUS
<1>4. /\ s \in Sessions /\ Chat(w, new)
      /\ late' = IF IsClosed(s) THEN [late EXCEPT ![s] = late[s] + 1] ELSE late
      /\ UNCHANGED <<channels, social, sessions, closes, reopened, chatCount>>
    BY <1>0, <1>1, <1>2, <1>3 DEF InsertMessage, IsClosed
<1>5. new \in ChatJob /\ new.at \in {"idle", "route"} /\ (new.at = "route" => new.id = s)
    BY <1>3, <1>4, RoutingJobs
<1>6. /\ \A r \in Sessions \ {s} : late'[r] = late[r]
      /\ late'[s] = IF IsClosed(s) THEN late[s] + 1 ELSE late[s]
      /\ late' \in [Sessions -> Nat]
    BY <1>4 DEF ChatInv, ChatShape
<1>7. ChatShape'
    BY <1>4, <1>5, <1>6, ChatMoves DEF ChatInv, ChatShape
<1>8. ASSUME NEW v \in ChatRequests PROVE ChatJobOK(chats[v])'
    <2>1. \A r : IsThere(r) => IsThere(r)'
        BY <1>4 DEF IsThere
    <2>2. ChatJobOK(new)'
        BY <1>1, <1>2, <1>4, <1>5 DEF ChatJobOK, IsThere
    <2> QED
        BY <1>4, <1>5, <2>1, <2>2, JobsKeep
<1>9. \A r : Closing(r)' \subseteq Closing(r) /\ Messaging(r)' \subseteq Messaging(r)
             /\ Closing(r)' \subseteq ChatRequests /\ Messaging(r)' \subseteq ChatRequests
             /\ w \notin Messaging(r)'
    BY <1>4, <1>5, ChatMoves
<1>10. \A r : IsClosed(r)' <=> IsClosed(r)
    BY <1>4 DEF IsClosed
<1>11. ASSUME NEW r \in Sessions, r # s \/ ~IsClosed(s) PROVE CountsOK(r)'
    BY <1>4, <1>6, <1>9, <1>10, <1>11, CountsKeep
<1>12. ASSUME IsClosed(s) PROVE CountsOK(s)'
    <2>0. /\ CountsOK(s) /\ closes[s] \in Nat /\ reopened[s] \in Nat /\ late[s] \in Nat
          /\ closes'[s] = closes[s] /\ reopened'[s] = reopened[s] /\ late'[s] = late[s] + 1 /\ IsClosed(s)'
        BY <1>4, <1>6, <1>10, <1>12, ChatFacts
    <2>1. W \in Nat /\ W >= 1 /\ W' = W
        BY ManyRequests DEF W
    <2>2. Closing(s) \subseteq ChatRequests /\ Messaging(s) \subseteq ChatRequests /\ w \in Messaging(s)
        BY <1>0, <1>1, <1>2, ChatFacts DEF Messaging, About
    <2>3. Cardinality(Messaging(s)') + 1 <= Cardinality(Messaging(s)) /\ Cardinality(Messaging(s)) \in Nat
          /\ Cardinality(Messaging(s)') \in Nat
        <3>1. IsFiniteSet(Messaging(s)) /\ Cardinality(Messaging(s)') \in Nat
            BY <1>9, <2>2, ManyRequests
        <3> QED
            BY <1>9, <2>2, <3>1, OneMoreOrLess
    <2>4. /\ Cardinality(Closing(s)') <= Cardinality(Closing(s)) /\ Cardinality(Closing(s)) \in Nat
          /\ Cardinality(Closing(s)') \in Nat
        BY <1>9, <2>2, ManyRequests, FS_Subset
    <2>5. W * reopened[s] \in Nat /\ W * (1 + reopened[s]) = W * reopened[s] + W /\ (W - 1) * closes[s] \in Nat
        BY <2>0, <2>1, Products
    <2>6. closes[s] + Cardinality(Closing(s)') <= W * (1 + reopened[s])
        <3>1. PICK p \in Nat : p = W * reopened[s]
            BY <2>5
        <3>2. closes[s] + Cardinality(Closing(s)) <= p + W /\ W * (1 + reopened[s]) = p + W
            BY <2>0, <2>5, <3>1 DEF CountsOK
        <3> QED
            BY <2>0, <2>1, <2>4, <3>1, <3>2
    <2>7. late'[s] + Cardinality(Messaging(s)') <= (W - 1) * closes[s]
        BY <1>12, <2>0, <2>3, <2>5 DEF CountsOK
    <2> QED
        BY <2>0, <2>1, <2>6, <2>7 DEF CountsOK
<1>13. ASSUME NEW a \in ChatAgents PROVE SlotsOK(a)'
    <2>1. Assigning(a)' \subseteq ChatRequests /\ Assigning(a)' \subseteq Assigning(a)
        BY <1>4, <1>5, ChatMoves
    <2>2. ActiveOf(a)' = ActiveOf(a)
        BY <1>4 DEF ActiveOf, Ids
    <2> QED
        BY <2>1, <2>2, SlotsKeep
<1> QED
    BY <1>7, <1>8, <1>11, <1>12, <1>13 DEF ChatInv

LEMMA NewSessions ==
    ASSUME ChatAssumption, NEW ch \in IMChannel, NEW t \in Tenants, NEW customer \in BOOLEAN
    PROVE  /\ NewSession(ch, t, customer) \in IMSession /\ Shaped(NewSession(ch, t, customer))
           /\ NewSession(ch, t, customer).status = "waiting"
<1>1. ch.grouped \in BOOLEAN
    BY DEF IMChannel
<1>2. PICK row : row = NewSession(ch, t, customer)
    OBVIOUS
<1>3. row \in IMSession /\ row.status = "waiting" /\ row.agent = NoAgent /\ row.ended = FALSE
    BY <1>1, <1>2 DEF NewSession, IMSession
<1> QED
    BY <1>2, <1>3 DEF Shaped

\* A goroutine begins with a copy of the row it has read.
LEMMA JobBegins ==
    ASSUME ChatInv, NEW w \in ChatRequests, NEW at \in {"channel", "config", "close", "message"},
           NEW id \in Channels \cup Sessions,
           NEW copy \in IMChannel \cup SocialChannelConfig \cup IMSession,
           ChatRead(w, at, id, copy), UNCHANGED <<channels, social, sessions, messages, history>>,
           at = "channel" => id \in Channels /\ copy \in IMChannel,
           at = "config" => id \in Channels /\ copy \in SocialChannelConfig,
           at \in {"close", "message"} => IsThere(id) /\ ~IsClosed(id) /\ copy = sessions[id]
    PROVE  ChatInv'
<1>1. PICK new : new = [NoChat EXCEPT !.at = at, !.id = id, !.copy = copy]
    OBVIOUS
<1>2. new \in ChatJob /\ new.at = at /\ new.id = id /\ new.copy = copy
    BY <1>1 DEF NoChat, ChatJob
<1>3. ChatJobOK(new)
    BY <1>2, ChatFacts DEF ChatJobOK, IsThere, IsClosed
<1>4. Chat(w, new) /\ chatCount' \in 0..MaxChats
    BY <1>1, ChatFacts DEF ChatRead, NewChat
<1>5. /\ UNCHANGED <<sessions, closes, reopened, late>>
      /\ channels' \in [Channels -> IMChannel \cup {NoRow}]
      /\ social' \in [Channels -> SocialChannelConfig \cup {NoRow}]
    BY ChatFacts DEF history
<1> QED
    BY <1>2, <1>3, <1>4, <1>5, SessionsStay

LEMMA ChatBegins ==
    ASSUME ChatInv, NEW w \in ChatRequests, ChatBegin(w)
    PROVE  ChatInv'
<1>1. ASSUME NEW c \in Channels, ReadChannel(w, c) PROVE ChatInv'
    <2>1. channels[c] \in IMChannel /\ c \in Channels /\ ChatRead(w, "channel", c, channels[c])
          /\ UNCHANGED <<channels, social, sessions, messages, history>>
        BY <1>1, ChatFacts DEF ReadChannel, Ids
    <2>2. PICK copy \in IMChannel : copy = channels[c]
        BY <2>1
    <2> QED
        BY <2>1, <2>2, JobBegins
<1>2. ASSUME NEW c \in Channels, ReadConfig(w, c) PROVE ChatInv'
    <2>1. social[c] \in SocialChannelConfig /\ c \in Channels /\ ChatRead(w, "config", c, social[c])
          /\ UNCHANGED <<channels, social, sessions, messages, history>>
        BY <1>2, ChatFacts DEF ReadConfig, Ids
    <2>2. PICK copy \in SocialChannelConfig : copy = social[c]
        BY <2>1
    <2> QED
        BY <2>1, <2>2, JobBegins
<1>3. ASSUME NEW c \in Channels, NEW via \in {"widget", "mail", "social"}, ReadChannelFor(w, c, via)
      PROVE  ChatInv'
    <2>1. channels[c] \in IMChannel
        BY <1>3, ChatFacts DEF ReadChannelFor, Ids
    <2>2. PICK new : new = [NoChat EXCEPT !.at = "create", !.id = c, !.copy = channels[c], !.via = via]
        OBVIOUS
    <2>3. new \in ChatJob /\ new.at = "create" /\ new.copy = channels[c]
        BY <2>1, <2>2 DEF NoChat, ChatJob
    <2>4. ChatJobOK(new)
        BY <2>1, <2>3 DEF ChatJobOK
    <2>5. Chat(w, new) /\ chatCount' \in 0..MaxChats
        BY <1>3, <2>2, ChatFacts DEF ReadChannelFor, NewChat
    <2>6. /\ UNCHANGED <<sessions, closes, reopened, late>>
          /\ channels' \in [Channels -> IMChannel \cup {NoRow}]
          /\ social' \in [Channels -> SocialChannelConfig \cup {NoRow}]
        BY <1>3, ChatFacts DEF ReadChannelFor, history
    <2> QED
        BY <2>3, <2>4, <2>5, <2>6, SessionsStay
<1>4. ASSUME NEW s \in Sessions, CloseSession(w, s) \/ SendMessage(w, s) PROVE ChatInv'
    <2>1. PICK at \in {"close", "message"} : ChatRead(w, at, s, sessions[s])
        BY <1>4 DEF CloseSession, SendMessage
    <2>2. /\ sessions[s] \in IMSession /\ IsThere(s) /\ ~IsClosed(s)
          /\ UNCHANGED <<channels, social, sessions, messages, history>>
        BY <1>4, ChatFacts DEF CloseSession, SendMessage, Ids, IsThere, IsClosed
    <2>3. PICK copy \in IMSession : copy = sessions[s]
        BY <2>2
    <2> QED
        BY <2>1, <2>2, <2>3, JobBegins
<1>5. ASSUME NEW s \in Sessions, NEW a \in ChatAgents, TransferSession(w, s, a) PROVE ChatInv'
    <2>1. /\ IsThere(s) /\ sessions[s] \in IMSession /\ Shaped(sessions[s])
          /\ sessions[s].status = "active"
        BY <1>5, ChatFacts DEF TransferSession, Ids, IsThere
    <2>2. PICK copy \in IMSession : copy = sessions[s]
        BY <2>1
    <2>3. PICK new : new = [NoChat EXCEPT !.at = "count", !.id = s, !.agent = a, !.copy = copy]
        OBVIOUS
    <2>4. new \in ChatJob /\ new.at = "count" /\ new.id = s /\ new.agent = a /\ new.copy = copy
        BY <2>3 DEF NoChat, ChatJob
    <2>5. ChatJobOK(new)
        BY <2>1, <2>2, <2>4 DEF ChatJobOK
    <2>6. Chat(w, new) /\ chatCount' \in 0..MaxChats
        BY <1>5, <2>2, <2>3, ChatFacts DEF TransferSession, NewChat
    <2>7. /\ UNCHANGED <<sessions, closes, reopened, late>>
          /\ channels' \in [Channels -> IMChannel \cup {NoRow}]
          /\ social' \in [Channels -> SocialChannelConfig \cup {NoRow}]
        BY <1>5, ChatFacts DEF TransferSession, history
    <2> QED
        BY <2>4, <2>5, <2>6, <2>7, SessionsStay
<1> QED
    BY <1>1, <1>2, <1>3, <1>4, <1>5 DEF ChatBegin

LEMMA ChatSteps ==
    ASSUME ChatInv, NEW w \in ChatRequests, ChatStep(w)
    PROVE  ChatInv'
<1>0. PICK x : x = chats[w]
    OBVIOUS
<1>x. x \in ChatJob /\ ChatJobOK(x) /\ NoChat \in ChatJob /\ NoChat.at = "idle" /\ ChatJobOK(NoChat)
    BY <1>0, ChatFacts, RoutingJobs DEF ChatJobOK
<1>t. /\ channels \in [Channels -> IMChannel \cup {NoRow}]
      /\ social \in [Channels -> SocialChannelConfig \cup {NoRow}]
      /\ chatCount \in 0..MaxChats
    BY ChatFacts
\* The request goes on or ends, and nothing else happens.
<1>q. ASSUME NEW new \in ChatJob, ChatJobOK(new), Chat(w, new), new.at \notin {"assign", "close", "message", "mail"},
             UNCHANGED <<channels, social, sessions, messages, history, chatCount>>
      PROVE  ChatInv'
    BY <1>q, <1>t, SessionsStay DEF history
<1>1. ASSUME NEW grouped \in BOOLEAN, NEW status \in {"active", "disabled"}, UpdateChannel(w, grouped, status)
      PROVE  ChatInv'
    <2>1. x.id \in Channels /\ x.copy \in IMChannel
        BY <1>0, <1>1, <1>x DEF ChatJobOK, UpdateChannel
    <2>2. PICK row : row = [[x.copy EXCEPT !.grouped = grouped] EXCEPT !.status = status]
        OBVIOUS
    <2>3. row \in IMChannel
        BY <2>1, <2>2 DEF IMChannel
    <2>4. channels' = Updated(channels, x.id, row) /\ Chat(w, NoChat)
          /\ UNCHANGED <<social, sessions, closes, reopened, late, chatCount>>
        BY <1>0, <1>1, <2>2 DEF UpdateChannel, history
    <2>5. channels' \in [Channels -> IMChannel \cup {NoRow}]
        BY <1>t, <2>1, <2>3, <2>4 DEF Updated
    <2> QED
        BY <1>x, <1>t, <2>4, <2>5, SessionsStay
<1>2. CASE UpdateConfig(w) \/ MarkVerified(w)
    <2>1. x.id \in Channels /\ x.copy \in SocialChannelConfig
        BY <1>0, <1>2, <1>x DEF ChatJobOK, UpdateConfig, MarkVerified
    <2>2. PICK row \in {[x.copy EXCEPT !.secret = chatCount], [x.copy EXCEPT !.isVerified = TRUE]} :
              social' = Updated(social, x.id, row)
        BY <1>0, <1>2 DEF UpdateConfig, MarkVerified
    <2>3. row \in SocialChannelConfig
        BY <1>t, <2>1, <2>2 DEF SocialChannelConfig
    <2>4. Chat(w, NoChat) /\ UNCHANGED <<channels, sessions, closes, reopened, late, chatCount>>
        BY <1>2 DEF UpdateConfig, MarkVerified, history
    <2>5. social' \in [Channels -> SocialChannelConfig \cup {NoRow}]
        BY <1>t, <2>1, <2>2, <2>3 DEF Updated
    <2> QED
        BY <1>x, <1>t, <2>4, <2>5, SessionsStay
<1>3. ASSUME NEW s \in Sessions, NEW t \in Tenants, NEW b \in BOOLEAN, CreateSession(w, s, t, b) PROVE ChatInv'
    <2>1. x.copy \in IMChannel /\ sessions[s] = NoRow
        BY <1>0, <1>3, <1>x DEF ChatJobOK, CreateSession
    <2>2. PICK row, new : row = NewSession(x.copy, t, b) /\ new = Routing(s, x.copy.grouped)
        OBVIOUS
    <2>3. row \in IMSession /\ Shaped(row) /\ row.status = "waiting"
        BY <2>1, <2>2, NewSessions, ChatAssumption
    <2>4. /\ sessions' = [sessions EXCEPT ![s] = row] /\ Chat(w, new)
          /\ UNCHANGED <<channels, social, closes, reopened, late, chatCount>>
        BY <1>0, <1>3, <2>2 DEF CreateSession, Inserted, history
    <2>5. new \in ChatJob /\ new.at \in {"idle", "route"} /\ (new.at = "route" => new.id = s)
        BY <2>2, RoutingJobs
    <2> QED
        BY <2>1, <2>3, <2>4, <2>5, SessionCreated
<1>4. ASSUME NEW s \in Sessions, NEW t \in Tenants, NEW b \in BOOLEAN, ProcessInbound(w, s, t, b) PROVE ChatInv'
    <2>1. x.copy \in IMChannel /\ sessions[s] = NoRow
        BY <1>0, <1>4, <1>x DEF ChatJobOK, ProcessInbound
    <2>2. PICK row : row = NewSession(x.copy, t, FALSE)
        OBVIOUS
    <2>3. row \in IMSession /\ Shaped(row) /\ row.status = "waiting"
        BY <2>1, <2>2, NewSessions, ChatAssumption
    <2>4. /\ sessions' = [sessions EXCEPT ![s] = row] /\ sessions'[s] = row
          /\ UNCHANGED <<channels, social, closes, reopened, late, chatCount>>
        BY <1>0, <1>4, <2>2, ChatFacts DEF ProcessInbound, Inserted, history
    <2>5. PICK new \in {[NoChat EXCEPT !.at = "mail", !.id = s, !.copy = row], NoChat} : Chat(w, new)
        BY <1>4, <2>4 DEF ProcessInbound
    <2>6. new \in ChatJob /\ new.at \in {"idle", "mail"} /\ (new.at = "mail" => new.id = s)
        <3>1. PICK y : y = [NoChat EXCEPT !.at = "mail", !.id = s, !.copy = row]
            OBVIOUS
        <3>2. y \in ChatJob /\ y.at = "mail" /\ y.id = s
            BY <2>3, <3>1 DEF NoChat, ChatJob
        <3> QED
            BY <1>x, <2>5, <3>1, <3>2
    <2> QED
        BY <2>1, <2>3, <2>4, <2>5, <2>6, SessionCreated
<1>5. ASSUME NEW s \in Sessions, ProcessInboundMessage(w, s) PROVE ChatInv'
    <2>1. x.copy \in IMChannel /\ sessions[s] = NoRow /\ x.copy.tenant \in Tenants
        BY <1>0, <1>5, <1>x DEF ChatJobOK, ProcessInboundMessage, IMChannel
    <2>2. PICK row : row = NewSession(x.copy, x.copy.tenant, FALSE)
        OBVIOUS
    <2>3. row \in IMSession /\ Shaped(row) /\ row.status = "waiting"
        BY <2>1, <2>2, NewSessions, ChatAssumption
    <2>4. /\ sessions' = [sessions EXCEPT ![s] = row] /\ sessions'[s] = row
          /\ UNCHANGED <<channels, social, closes, reopened, late, chatCount>>
        BY <1>0, <1>5, <2>2, ChatFacts DEF ProcessInboundMessage, Inserted, history
    <2>5. PICK new : new = [NoChat EXCEPT !.at = "message", !.id = s, !.copy = row] /\ Chat(w, new)
        BY <1>5, <2>4 DEF ProcessInboundMessage
    <2>6. new \in ChatJob /\ new.at = "message" /\ new.id = s
        BY <2>3, <2>5 DEF NoChat, ChatJob
    <2> QED
        BY <2>1, <2>3, <2>4, <2>5, <2>6, SessionCreated
<1>6. ASSUME NEW a \in ChatAgents, SkipMember(w, a) PROVE ChatInv'
    <2>1. PICK new : new = [x EXCEPT !.left = x.left \ {a}]
        OBVIOUS
    <2>2. new \in ChatJob /\ new.at = x.at /\ new.id = x.id /\ x.at = "route"
        BY <1>0, <1>6, <1>x, <2>1 DEF ChatJob, SkipMember
    <2>3. ChatJobOK(new)
        BY <1>x, <2>2 DEF ChatJobOK
    <2>4. Chat(w, new)
        BY <1>0, <1>6, <2>1 DEF SkipMember
    <2> QED
        BY <1>6, <1>q, <2>2, <2>3, <2>4 DEF SkipMember
<1>7. ASSUME NEW a \in ChatAgents, AssignAgent(w, a) PROVE ChatInv'
    <2>0. x.at = "route" /\ sessions[x.id].status = "waiting" /\ IsThere(x.id) /\ x.id \in Sessions
        BY <1>0, <1>7, <1>x DEF AssignAgent, ChatJobOK, IsThere
    <2>1. PICK row : row = sessions[x.id]
        OBVIOUS
    <2>2. row \in IMSession /\ Shaped(row) /\ row.status = "waiting"
        BY <2>0, <2>1, ChatFacts
    <2>3. PICK new : new = [x EXCEPT !.at = "count", !.left = x.left \ {a}, !.agent = a, !.copy = row]
        OBVIOUS
    <2>4. new \in ChatJob /\ new.at = "count" /\ new.id = x.id /\ new.agent = a /\ new.copy = row
        BY <1>x, <2>2, <2>3 DEF ChatJob
    <2>5. ChatJobOK(new)
        BY <2>0, <2>2, <2>4 DEF ChatJobOK
    <2>6. Chat(w, new)
        BY <1>0, <1>7, <2>1, <2>3 DEF AssignAgent
    <2> QED
        BY <1>7, <1>q, <2>4, <2>5, <2>6 DEF AssignAgent
<1>8. CASE RouteEnds(w) \/ ChatFails(w)
    BY <1>8, <1>x, <1>q DEF RouteEnds, ChatFails
<1>9. CASE CountActiveByAgent(w)
    <2>0. x.at = "count" /\ UNCHANGED <<channels, social, sessions, messages, history, chatCount>>
        BY <1>0, <1>9 DEF CountActiveByAgent
    <2>1. CASE Cardinality(ActiveOf(x.agent)) < MaxChatSlots
        <3>1. PICK new : new = [x EXCEPT !.at = "assign"]
            OBVIOUS
        <3>2. new \in ChatJob /\ new.at = "assign" /\ new.id = x.id /\ new.agent = x.agent /\ new.copy = x.copy
            BY <1>x, <3>1 DEF ChatJob
        <3>3. ChatJobOK(new)
            BY <1>x, <2>0, <3>2 DEF ChatJobOK
        <3>4. Chat(w, new)
            BY <1>0, <1>9, <2>1, <3>1 DEF CountActiveByAgent
        <3> QED
            BY <1>t, <2>0, <2>1, <3>2, <3>3, <3>4, SessionsStay DEF history
    <2>2. CASE ~(Cardinality(ActiveOf(x.agent)) < MaxChatSlots)
        <3>1. PICK new : new = [x EXCEPT !.at = "route", !.agent = NoAgent]
            OBVIOUS
        <3>2. new \in ChatJob /\ new.at = "route" /\ new.id = x.id
            BY <1>x, <3>1 DEF ChatJob
        <3>3. ChatJobOK(new)
            BY <1>x, <2>0, <3>2 DEF ChatJobOK
        <3>4. Chat(w, new)
            BY <1>0, <1>9, <2>2, <3>1 DEF CountActiveByAgent
        <3> QED
            BY <1>q, <2>0, <3>2, <3>3, <3>4
    <2> QED
        BY <2>1, <2>2
<1>10. CASE Assign(w) \/ ClosedBy(w) \/ InsertMessage(w)
    BY <1>10, Assigned, SessionClosed, MessageInserted
<1> QED
    BY <1>1, <1>2, <1>3, <1>4, <1>5, <1>6, <1>7, <1>8, <1>9, <1>10 DEF ChatStep

LEMMA NextChats == ChatInv /\ [ChatNext]_chatVars => ChatInv'
<1> SUFFICES ASSUME ChatInv, [ChatNext]_chatVars PROVE ChatInv'
    OBVIOUS
<1>1. ASSUME NEW c \in Channels, NEW t \in Tenants, NEW grouped \in BOOLEAN, CreateChannel(t, c, grouped)
      PROVE  ChatInv'
    <2>1. channels' \in [Channels -> IMChannel \cup {NoRow}] /\ chatCount' \in 0..MaxChats
        BY <1>1, ChatFacts DEF CreateChannel, Inserted, IMChannel, NewChat
    <2>2. UNCHANGED <<social, sessions, chats, closes, reopened, late>>
        BY <1>1 DEF CreateChannel, history
    <2> QED
        BY <2>1, <2>2, TablesOnly, ChatFacts
<1>2. ASSUME NEW c \in Channels, CreateConfig(c) \/ DeleteConfig(c) PROVE ChatInv'
    <2>0. chatCount' = chatCount + 1 /\ chatCount' \in 0..MaxChats
        BY <1>2, ChatFacts DEF CreateConfig, DeleteConfig, NewChat
    <2>1. PICK row \in SocialChannelConfig \cup {NoRow} : social' = [social EXCEPT ![c] = row]
        <3>1. CASE CreateConfig(c)
            <4>1. PICK m \in 0..MaxChats : m = chatCount'
                BY <2>0
            <4>2. [secret |-> m, isVerified |-> FALSE] \in SocialChannelConfig
                BY <4>1 DEF SocialChannelConfig
            <4>3. social' = [social EXCEPT ![c] = [secret |-> m, isVerified |-> FALSE]]
                BY <3>1, <4>1 DEF CreateConfig, Inserted
            <4> QED
                BY <4>2, <4>3
        <3>2. CASE DeleteConfig(c)
            BY <3>2 DEF DeleteConfig, Deleted
        <3> QED
            BY <1>2, <3>1, <3>2
    <2>2. social' \in [Channels -> SocialChannelConfig \cup {NoRow}]
        BY <2>1, ChatFacts
    <2>3. UNCHANGED <<channels, sessions, chats, closes, reopened, late>>
        BY <1>2 DEF CreateConfig, DeleteConfig, history
    <2> QED
        BY <2>0, <2>2, <2>3, TablesOnly, ChatFacts
<1>3. ASSUME NEW w \in ChatRequests, ChatBegin(w) \/ ChatStep(w) PROVE ChatInv'
    BY <1>3, ChatBegins, ChatSteps
<1>4. CASE UNCHANGED chatVars
    BY <1>4, TablesOnly, ChatFacts DEF chatVars
<1> QED
    BY <1>1, <1>2, <1>3, <1>4 DEF ChatNext

LEMMA InitChats == ChatInit => ChatInv
<1> SUFFICES ASSUME ChatInit PROVE ChatInv
    OBVIOUS
<1>1. ChatShape
    BY RoutingJobs, ChatAssumption DEF ChatInit, ChatShape
<1>2. ASSUME NEW w \in ChatRequests PROVE ChatJobOK(chats[w])
    BY RoutingJobs DEF ChatInit, ChatJobOK
<1>3. /\ \A s : Closing(s) = {} /\ Messaging(s) = {}
      /\ \A a : Assigning(a) = {} /\ ActiveOf(a) = {}
    BY RoutingJobs DEF ChatInit, Closing, Messaging, About, Assigning, ActiveOf, Ids
<1>4. W \in Nat /\ W >= 1 /\ Cardinality({}) = 0 /\ IsFiniteSet({})
    BY ManyRequests, FS_EmptySet
<1>5. ASSUME NEW s \in Sessions PROVE CountsOK(s)
    <2>1. ~IsClosed(s) /\ closes[s] = 0 /\ reopened[s] = 0 /\ late[s] = 0
        BY DEF ChatInit, IsClosed
    <2>2. W * reopened[s] = 0 /\ W * (1 + reopened[s]) = W /\ (W - 1) * closes[s] = 0
        BY <1>4, <2>1
    <2>3. Cardinality(Closing(s)) = 0
        BY <1>3, <1>4
    <2> QED
        BY <1>4, <2>1, <2>2, <2>3 DEF CountsOK
<1>6. ASSUME NEW a \in ChatAgents PROVE SlotsOK(a)
    BY <1>3, <1>4, ChatAssumption DEF SlotsOK
<1> QED
    BY <1>1, <1>2, <1>5, <1>6 DEF ChatInv

(* ChatInv holds in every reachable state.                                   *)
THEOREM ChatInvariant == ServicesSpec => []ChatInv
<1>1. ServicesInit => ChatInv
    BY InitChats DEF ServicesInit
<1>2. [ServicesNext]_servicesVars => [ChatNext]_chatVars
    BY DEF ServicesNext, servicesVars
<1>3. ChatInv /\ [ServicesNext]_servicesVars => ChatInv'
    BY <1>2, NextChats
<1> QED
    BY <1>1, <1>3, PTL DEF ServicesSpec

(* For any number of sockets, keys, broadcasts and capacities no event for   *)
(* an open connection goes astray and none is sent on a closed channel; for  *)
(* any number of requests at once, agents, channels and sessions, stale      *)
(* copies keep the columns of a session in agreement, and agents' slots, the *)
(* hooks of a close and late messages exceed what is meant by no more than   *)
(* the requests under way allow.                                             *)
THEOREM ChatsAreSafe == ServicesSpec => []ChatsSafe
<1>1. ChatInv => ChatTypeOK /\ SessionShape /\ SlotsOvershoot /\ ClosesBounded /\ LateMessagesBounded
    <2> SUFFICES ASSUME ChatInv
                 PROVE  ChatTypeOK /\ SessionShape /\ SlotsOvershoot /\ ClosesBounded /\ LateMessagesBounded
        OBVIOUS
    <2>1. ChatTypeOK
        BY ChatFacts DEF ChatTypeOK, ChatJob
    <2>2. SessionShape
        BY ChatFacts DEF SessionShape, Ids, IsThere, Shaped
    <2>3. SlotsOvershoot
        BY DEF ChatInv, SlotsOK, SlotsOvershoot, Assigning
    <2>4. ClosesBounded
        BY DEF ChatInv, CountsOK, ClosesBounded, Closing
    <2>5. LateMessagesBounded
        <3> SUFFICES ASSUME NEW s \in Sessions PROVE late[s] <= (W - 1) * closes[s]
            BY DEF LateMessagesBounded
        <3>1. CountsOK(s) /\ late[s] \in Nat /\ closes[s] \in Nat /\ Messaging(s) \subseteq ChatRequests
            BY ChatFacts
        <3>2. Cardinality(Messaging(s)) \in Nat /\ W \in Nat /\ W >= 1
            BY <3>1, ManyRequests
        <3>3. (W - 1) * closes[s] \in Nat
            BY <3>1, <3>2, Products
        <3> QED
            BY <3>1, <3>2, <3>3 DEF CountsOK
    <2> QED
        BY <2>1, <2>2, <2>3, <2>4, <2>5
<1>2. HubInv /\ ChatInv => ChatsSafe
    BY <1>1, HubsAreSafe DEF ChatsSafe
<1> QED
    BY <1>2, HubInvariant, ChatInvariant, PTL

===============================================================================
