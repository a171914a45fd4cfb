------------------------- MODULE QualityInspection -------------------------
(***************************************************************************)
(* QualityInspectionService: rules, schemes (weighted lists of rules), the *)
(* inspection of a transcript with a scheme, and the appeal and the review *)
(* of its result. An examiner is one request; it reads rows one after the  *)
(* other, while others change or delete them, and writes the whole result  *)
(* row. is_active of rules and schemes is stored but never consulted, and  *)
(* AutoInspect (after a call) always stops: transcriptFor returns "".      *)
(***************************************************************************)
EXTENDS Tenancy, QualityRules

CONSTANTS
    RuleIds, SchemeIds, ResultIds,
    Examiners,      \* requests in progress
    RuleBodies,     \* rule id -> the rules [type, config] it may be given
    SchemeLists,    \* sequences of [rule, weight] a scheme may have: any weights
    Transcripts,
    LlmAnswers,     \* what the provider may answer, see evaluateLLMRule
    NewScores,      \* scores a reviewer may give
    SampleRules, SampleTranscripts  \* what FailingScoresLess compares

QAResultStatus == {"completed", "appealed", "reviewed"}
\* score: a fraction; details: the verdicts; reviewer: whether one is set;
\* negative: whether a rule weighed less than nothing (history).
QAResult == [num : Int, den : Nat, details : SUBSET [passed : BOOLEAN, score : 0..100],
             status : QAResultStatus, appealNote : BOOLEAN, reviewer : BOOLEAN,
             negative : BOOLEAN]

ASSUME QaAssumption ==
    /\ NoRow \notin RuleIds \cup SchemeIds \cup ResultIds \cup QAResult
    /\ IsFiniteSet(Examiners)
    /\ DOMAIN RuleBodies = RuleIds
    /\ SchemeLists \subseteq Seq([rule : RuleIds, weight : Int])
    /\ LlmAnswers \subseteq -2..100
    /\ NewScores \subseteq Int
\* A threshold above the highest answer, 100, would rank no two calls.
ASSUME SampleAssumption ==
    \A rule \in SampleRules : rule.type = "llm" /\ ~Unreadable(rule.config) =>
        rule.config.threshold \in Int /\ rule.config.threshold <= 100

VARIABLES
    qaRules, qaSchemes, qaResults,
    examiner,
    doubled,        \* results two requests worked on at a time (history)
    unreviewed      \* results that lost a review (history)

qaVars == <<qaRules, qaSchemes, qaResults, examiner, doubled, unreviewed>>

Bodies == UNION {RuleBodies[r] : r \in RuleIds}
Unoccupied == [at |-> "idle", id |-> "none", row |-> NoRow]

QaInit ==
    /\ qaRules = [r \in RuleIds |-> NoRow]
    /\ qaSchemes = [s \in SchemeIds |-> NoRow]
    /\ qaResults = [i \in ResultIds |-> NoRow]
    /\ examiner = [x \in Examiners |-> Unoccupied]
    /\ doubled = {} /\ unreviewed = {}

qaRest == <<qaResults, examiner, doubled, unreviewed>>

-----------------------------------------------------------------------------
\* Rules and schemes. Their updates read the row first, which decides whether
\* there is something to update; the columns not given keep their values.

CreateRule(r, b) ==
    /\ qaRules[r] = NoRow /\ b \in RuleBodies[r] /\ b.type \in RuleTypes
    /\ qaRules' = Inserted(qaRules, r, b)
    /\ UNCHANGED <<qaSchemes, qaRest>>

\* The type of a rule does not change; its new configuration is not parsed.
UpdateRule(r, b) ==
    /\ r \in Ids(qaRules) /\ b \in RuleBodies[r] /\ b.type = qaRules[r].type
    /\ qaRules' = Updated(qaRules, r, b)
    /\ UNCHANGED <<qaSchemes, qaRest>>

\* The schemes that list the rule are not looked at.
DeleteRule(r) ==
    /\ r \in Ids(qaRules)
    /\ qaRules' = Deleted(qaRules, r)
    /\ UNCHANGED <<qaSchemes, qaRest>>

\* The rules of the list are not looked up. The weights are not checked: the
\* "0-100" of SchemeRuleWeight is a comment.
CreateScheme(s, list) ==
    /\ qaSchemes[s] = NoRow
    /\ qaSchemes' = Inserted(qaSchemes, s, list)
    /\ UNCHANGED <<qaRules, qaRest>>

UpdateScheme(s, list) ==
    /\ s \in Ids(qaSchemes)
    /\ qaSchemes' = Updated(qaSchemes, s, list)
    /\ UNCHANGED <<qaRules, qaRest>>

DeleteScheme(s) ==
    /\ s \in Ids(qaSchemes)
    /\ qaSchemes' = Deleted(qaSchemes, s)
    /\ UNCHANGED <<qaRules, qaRest>>

-----------------------------------------------------------------------------
\* RunInspection: the scheme is read, then its rules, then the result is
\* inserted.

Moves(x, at, id, row) ==
    /\ examiner' = [examiner EXCEPT ![x] = [at |-> at, id |-> id, row |-> row]]
    /\ UNCHANGED <<qaRules, qaSchemes>>

ReadScheme(x, s) ==
    /\ examiner[x] = Unoccupied
    /\ s \in Ids(qaSchemes)
    /\ Moves(x, "scheme", s, qaSchemes[s])
    /\ UNCHANGED <<qaResults, doubled, unreviewed>>

\* What each place of the list adds to the two sums of the mean.
Points(list, verdicts) ==
    [i \in DOMAIN list |-> IF i \in DOMAIN verdicts THEN verdicts[i].score * list[i].weight ELSE 0]
Weights(list, verdicts) ==
    [i \in DOMAIN list |-> IF i \in DOMAIN verdicts THEN list[i].weight ELSE 0]

\* Mutant: the weights of rules that are not there any more are divided by
\* the number of rules instead.
MutantWeigh(list, verdicts) ==
    [num |-> Total(Points(list, verdicts), Len(list)), den |-> Cardinality(DOMAIN verdicts)]

\* The weighted mean of the verdicts, a score of 0 where no weight is left or
\* the negative ones outweigh the others.
Weigh(list, verdicts) ==
    LET den == Total(Weights(list, verdicts), Len(list))
    IN  IF den > 0 THEN [num |-> Total(Points(list, verdicts), Len(list)), den |-> den]
        ELSE [num |-> 0, den |-> 1]

\* The rules that still exist are evaluated, the others skipped.
RunInspection(x, t, answer) ==
    LET list == examiner[x].row
        verdicts == [i \in {j \in DOMAIN list : list[j].rule \in Ids(qaRules)} |->
                        evaluateRule(qaRules[list[i].rule], t, answer)]
        score == Weigh(list, verdicts)
    IN  /\ examiner[x].at = "scheme"
        /\ Moves(x, "insert", "none",
               [num |-> score.num, den |-> score.den, details |-> {verdicts[i] : i \in DOMAIN verdicts},
                status |-> "completed", appealNote |-> FALSE, reviewer |-> FALSE,
                negative |-> \E i \in DOMAIN verdicts : list[i].weight < 0])
        /\ UNCHANGED <<qaResults, doubled, unreviewed>>

InsertResult(x, i) ==
    /\ examiner[x].at = "insert"
    /\ qaResults[i] = NoRow
    /\ qaResults' = Inserted(qaResults, i, examiner[x].row)
    /\ Moves(x, "idle", "none", NoRow)
    /\ UNCHANGED <<doubled, unreviewed>>

-----------------------------------------------------------------------------
\* Appeal and Review read the result, check its status, and write the row.

ReadResult(x, i, row) ==
    /\ examiner[x] = Unoccupied
    /\ Moves(x, "update", i, row)
    /\ doubled' = IF \E y \in Examiners : examiner[y].at = "update" /\ examiner[y].id = i
                    THEN doubled \cup {i} ELSE doubled
    /\ UNCHANGED <<qaResults, unreviewed>>

\* Mutant: any result can be appealed.
MutantAppeal(x, i) ==
    /\ i \in Ids(qaResults)
    /\ ReadResult(x, i, [qaResults[i] EXCEPT !.status = "appealed", !.appealNote = TRUE])

Appeal(x, i) ==
    /\ i \in Ids(qaResults) /\ qaResults[i].status = "completed"
    /\ ReadResult(x, i, [qaResults[i] EXCEPT !.status = "appealed", !.appealNote = TRUE])

\* Mutant: a result can be reviewed without an appeal.
MutantReview(x, i, score) ==
    /\ i \in Ids(qaResults) /\ qaResults[i].status # "reviewed"
    /\ ReadResult(x, i, [qaResults[i] EXCEPT !.status = "reviewed", !.reviewer = TRUE,
                                            !.num = score, !.den = 1])

\* The new score is stored as it is given.
Review(x, i, score) ==
    /\ i \in Ids(qaResults) /\ qaResults[i].status = "appealed"
    /\ ReadResult(x, i, [qaResults[i] EXCEPT !.status = "reviewed", !.reviewer = TRUE,
                                            !.num = score, !.den = 1])

\* Mutant: an UPDATE writes the status alone.
MutantUpdateResult(x) ==
    LET i == examiner[x].id IN
    /\ examiner[x].at = "update"
    /\ qaResults' = Updated(qaResults, i, [qaResults[i] EXCEPT !.status = examiner[x].row.status,
                          !.num = examiner[x].row.num, !.den = examiner[x].row.den])
    /\ unreviewed' = IF qaResults[i].status = "reviewed" /\ qaResults'[i].status # "reviewed"
                     THEN unreviewed \cup {i} ELSE unreviewed
    /\ Moves(x, "idle", "none", NoRow)
    /\ UNCHANGED doubled

UpdateResult(x) ==
    LET i == examiner[x].id IN
    /\ examiner[x].at = "update"
    /\ qaResults' = Updated(qaResults, i, examiner[x].row)
    /\ unreviewed' = IF qaResults[i].status = "reviewed" /\ examiner[x].row.status # "reviewed"
                     THEN unreviewed \cup {i} ELSE unreviewed
    /\ Moves(x, "idle", "none", NoRow)
    /\ UNCHANGED doubled

\* The statement fails, or the server stops before it.
QaRequestFails(x) ==
    /\ examiner[x] # Unoccupied
    /\ examiner' = [examiner EXCEPT ![x] = Unoccupied]
    /\ UNCHANGED <<qaRules, qaSchemes, qaResults, doubled, unreviewed>>

QaNext ==
    \/ \E r \in RuleIds : (\E b \in RuleBodies[r] : CreateRule(r, b) \/ UpdateRule(r, b))
                          \/ DeleteRule(r)
    \/ \E s \in SchemeIds : (\E l \in SchemeLists : CreateScheme(s, l) \/ UpdateScheme(s, l))
                            \/ DeleteScheme(s)
    \/ \E x \in Examiners :
          \/ \E s \in SchemeIds : ReadScheme(x, s)
          \/ \E t \in Transcripts, a \in LlmAnswers : RunInspection(x, t, a)
          \/ \E i \in ResultIds : InsertResult(x, i) \/ Appeal(x, i)
                                  \/ \E n \in NewScores : Review(x, i, n)
          \/ UpdateResult(x) \/ QaRequestFails(x)

QaSpec == QaInit /\ [][QaNext]_qaVars

-----------------------------------------------------------------------------
QaTypeOK ==
    /\ qaRules \in [RuleIds -> Bodies \cup {NoRow}]
    /\ qaSchemes \in [SchemeIds -> SchemeLists \cup {NoRow}]
    /\ \A i \in Ids(qaResults) : qaResults[i] \in QAResult /\ qaResults[i].den > 0
    /\ \A x \in Examiners :
          \/ examiner[x] = Unoccupied
          \/ examiner[x].at = "scheme" /\ examiner[x].row \in SchemeLists
          \/ examiner[x].at \in {"insert", "update"} /\ examiner[x].row \in QAResult
    /\ doubled \subseteq ResultIds /\ unreviewed \subseteq ResultIds

\* A score that no reviewer set lies between the worst and the best verdict of
\* its details, whichever rules were deleted between the reads: the weights of
\* the missing rules are left out of both sums. Weights are stored as they are
\* sent, and the one thing that breaks the mean is a negative weight of a rule
\* that was evaluated; such a rule that is deleted does no harm.
ScoreIsMean ==
    \A i \in Ids(qaResults) :
        LET r == qaResults[i] IN
        r.status # "reviewed" /\ ~r.negative /\ r.details # {} /\ r.num > 0 =>
            /\ \E v \in r.details : r.num <= v.score * r.den
            /\ \E v \in r.details : v.score * r.den <= r.num

\* No rule gives a call that fails it as many points as a call that passes it,
\* whatever its configuration leaves out and also when the language model has
\* no answer: the mean ranks calls as the verdicts do.
SampleAnswers == {-2, -1, 0, 59, 60, 100}
SampleVerdicts(rule) == {evaluateRule(rule, t, a) : t \in SampleTranscripts, a \in SampleAnswers}
RulesRank ==
    \A rule \in SampleRules : \A v, w \in SampleVerdicts(rule) :
        ~v.passed /\ w.passed => v.score < w.score
FailingScoresLess == Ids(qaRules) # {} => RulesRank

\* A reviewed result was appealed and names its reviewer, whatever rows were
\* written over each other: an appeal and a review each write all columns.
ReviewAnswersAppeal ==
    \A i \in Ids(qaResults) :
        qaResults[i].status = "reviewed" => qaResults[i].appealNote /\ qaResults[i].reviewer

\* A review is lost only to a request that overlapped another on the result:
\* a result that is reviewed cannot be appealed again.
ReviewStands == unreviewed \subseteq doubled
=============================================================================
