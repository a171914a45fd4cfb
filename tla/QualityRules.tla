---------------------------- MODULE QualityRules ----------------------------
(***************************************************************************)
(* The rules of quality inspection (domain/ai/service_phase9.go): what     *)
(* each kind of rule says of a transcript. A transcript is what the rules  *)
(* can see of it: the phrases it contains (of all, and of its last line),  *)
(* its length and its markers [silence:..s], [speed:..wpm], [duration:..s],*)
(* [energy:..], [interruption] and [hangup:abnormal]. Numbers are          *)
(* integers. InvalidConfig is a configuration that is not the rule's JSON  *)
(* (or, for a regex, not a pattern).                                       *)
(***************************************************************************)
EXTENDS Integers, Sequences, FiniteSets, FiniteSetsExt, SequencesExt

InvalidConfig == [invalid |-> TRUE]
Unreadable(cfg) == "invalid" \in DOMAIN cfg

\* The sum of the first n values of a sequence of numbers.
Total(numbers, n) ==
    LET sum[i \in 0..n] == IF i = 0 THEN 0 ELSE sum[i - 1] + numbers[i]
    IN  sum[n]

Verdict(passed) == [passed |-> passed, score |-> IF passed THEN 100 ELSE 0]

\* The empty phrase is contained in nothing.
containsIgnoreCase(phrases, phrase) == phrase # "" /\ phrase \in phrases

\* require: "present" (any of the keywords), "absent" (none); any other word
\* requires nothing.
evaluateKeywordRule(cfg, t) ==
    LET found == \E k \in cfg.keywords : containsIgnoreCase(t.phrases, k)
    IN  Verdict(CASE cfg.require = "present" -> found
                  [] cfg.require = "absent" -> ~found
                  [] OTHER -> TRUE)

evaluateRegexRule(cfg, t) ==
    LET matched == cfg.pattern \in t.phrases
    IN  Verdict(IF cfg.require = "no_match" THEN ~matched ELSE matched)

OrDefault(x, default) == IF x <= 0 THEN default ELSE x

evaluateSilenceRule(cfg, t) ==
    Verdict(\A s \in t.silences : s <= OrDefault(cfg.max, 5))

\* A limit that is 0 (or absent) is no limit.
Within(cfg, tooMuch, tooLittle) == ~(cfg.max > 0 /\ tooMuch) /\ ~(cfg.min > 0 /\ tooLittle)

\* The first speed marker counts; without one the speed is the number of
\* characters per minute of the first duration marker; without both the rule
\* passes.
evaluateSpeedRule(cfg, t) ==
    LET timed == t.durations # <<>> /\ Head(t.durations) > 0
        \* speed = words / minutes, as a fraction of 60 seconds
        words == IF t.speeds # <<>> THEN Head(t.speeds) ELSE t.length * 60
        time == IF t.speeds # <<>> THEN 1 ELSE Head(t.durations)
    IN  Verdict(\/ t.speeds = <<>> /\ ~timed
                \/ Within(cfg, words > cfg.max * time, words < cfg.min * time))

evaluateInterruptionRule(cfg, t) == Verdict(t.interruptions <= OrDefault(cfg.max, 3))

\* The peak must not be above, the mean not below; no marker: passed.
evaluateEnergyRule(cfg, t) ==
    LET sum == Total(t.energies, Len(t.energies))
    IN  Verdict(\/ t.energies = <<>>
                \/ Within(cfg, \E i \in DOMAIN t.energies : t.energies[i] > cfg.max,
                               sum < cfg.min * Len(t.energies)))

\* No marker: a call of 0 seconds.
evaluateDurationRule(cfg, t) ==
    LET duration == IF t.durations = <<>> THEN 0 ELSE Head(t.durations)
    IN  Verdict(Within(cfg, duration > cfg.max, duration < cfg.min))

\* All entities are required unless the rule says "any". An entity is found
\* by its pattern or, where it has none, as a keyword.
evaluateEntityRule(cfg, t) ==
    LET found == {e \in cfg.entities : containsIgnoreCase(t.phrases, e)}
    IN  Verdict(IF cfg.require = "any" THEN found # {} ELSE found = cfg.entities)

evaluateRoleRule(cfg, t) ==
    Verdict(/\ cfg.greeting => "greeting" \in t.phrases
            /\ cfg.closing => "closing" \in t.phrases
            /\ \A p \in cfg.required : containsIgnoreCase(t.phrases, p))

\* The configuration is not read; a call that ends without a closing phrase
\* passes with a lower score.
evaluateAbnormalHangupRule(t) ==
    IF t.abnormal THEN Verdict(FALSE)
    ELSE IF "closing" \in t.lastLine THEN Verdict(TRUE)
    ELSE [passed |-> TRUE, score |-> 80]

\* Mutant: a threshold of 0 is not replaced.
MutantEvaluateLLMRule(cfg, answer) ==
    CASE answer = -2 -> Verdict(TRUE)
      [] answer = -1 -> Verdict(FALSE)
      [] OTHER -> [passed |-> answer >= cfg.threshold, score |-> answer]

\* answer: the score the model gives, -1 for an error, -2 where no provider
\* is set.
evaluateLLMRule(cfg, answer) ==
    CASE answer = -2 -> Verdict(TRUE)
      [] answer = -1 -> Verdict(FALSE)
      [] OTHER -> [passed |-> answer >= OrDefault(cfg.threshold, 60), score |-> answer]

RuleTypes == {"keyword", "regex", "silence", "speed", "interruption", "energy",
              "duration", "entity", "role", "abnormal_hangup", "llm"}

evaluateRule(rule, t, answer) ==
    IF rule.type = "abnormal_hangup" THEN evaluateAbnormalHangupRule(t)
    ELSE IF rule.type \notin RuleTypes THEN Verdict(TRUE)
    ELSE IF Unreadable(rule.config) THEN Verdict(FALSE)
    ELSE CASE rule.type = "keyword" -> evaluateKeywordRule(rule.config, t)
           [] rule.type = "regex" -> evaluateRegexRule(rule.config, t)
           [] rule.type = "silence" -> evaluateSilenceRule(rule.config, t)
           [] rule.type = "speed" -> evaluateSpeedRule(rule.config, t)
           [] rule.type = "interruption" -> evaluateInterruptionRule(rule.config, t)
           [] rule.type = "energy" -> evaluateEnergyRule(rule.config, t)
           [] rule.type = "duration" -> evaluateDurationRule(rule.config, t)
           [] rule.type = "entity" -> evaluateEntityRule(rule.config, t)
           [] rule.type = "role" -> evaluateRoleRule(rule.config, t)
           [] rule.type = "llm" -> evaluateLLMRule(rule.config, answer)
=============================================================================
