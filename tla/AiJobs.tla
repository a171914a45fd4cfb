------------------------------- MODULE AiJobs -------------------------------
(***************************************************************************)
(* The long-running jobs of the AI suite and its training courses.         *)
(*                                                                         *)
(* A conversation analysis is marked running, handed to the model and      *)
(* completed with its result by one request, which writes its copy of the  *)
(* task twice. The training of a voice is started at the provider and then *)
(* the profile is marked; MarkReady is called by nothing. Exams are graded *)
(* by the pass score of their course. Each row is read by tenant and id,   *)
(* so one tenant is enough; names, texts and answers are left out. The row *)
(* of a course changes in its status only: reading and publishing it, or   *)
(* reading it and grading an exam, are one step.                           *)
(***************************************************************************)
EXTENDS Tenancy

CONSTANTS
    JobWorkers,     \* requests in progress
    Analyses,
    Voices,
    Courses,
    PassScores,     \* what a course can ask for
    Scores,         \* what an exam can say was reached, or could be
    MaxJobs,        \* bound: trainings started at the provider for a voice
    MaxExams        \* bound: exams handed in

AnalysisTask == [type : {"known", "unsupported"}, result : BOOLEAN,
                 status : {"pending", "running", "completed"}]
VoiceProfileStatus == {"pending", "training"}
VoiceProfile == [status : VoiceProfileStatus]
Course == [pass : 1..100, status : {"draft", "published"}]

ASSUME AiJobsAssumption ==
    /\ IsFiniteSet(JobWorkers)
    /\ NoRow \notin Analyses \cup Voices \cup Courses
    /\ NoRow \notin AnalysisTask \cup VoiceProfile \cup Course
    /\ PassScores \subseteq Int /\ Scores \subseteq Int
    /\ MaxJobs \in Nat /\ MaxExams \in Nat

VARIABLES
    analyses,
    voices,
    cloning,        \* trainings the provider was asked for, of each voice (external)
    courses,
    exams,
    worker,         \* what each request is doing
    worked,         \* analyses that were completed (history)
    shared,         \* analyses two requests worked on at a time (history)
    abandoned,      \* analyses a request gave up once they were running (history)
    unmarked        \* voices whose training was started and not marked (history)

jobHistory == <<worked, shared, abandoned, unmarked>>
jobVars == <<analyses, voices, cloning, courses, exams, worker, jobHistory>>

Exam == [course : Courses, score : Scores, of : Scores, passed : BOOLEAN]

Workless == [at |-> "rest"]
WorkHeld == [at : {"mark", "mine", "complete"}, id : Analyses, row : AnalysisTask]
            \cup [at : {"clone", "train"}, id : Voices]

Doing(w, at) == worker[w].at = at
SetAbout(w, taken) == worker[w] = Workless /\ worker' = [worker EXCEPT ![w] = taken]
Lay(w) == worker' = [worker EXCEPT ![w] = Workless]

JobsInit ==
    /\ analyses = [a \in Analyses |-> NoRow]
    /\ voices = [v \in Voices |-> NoRow]
    /\ cloning = [v \in Voices |-> 0]
    /\ courses = [c \in Courses |-> NoRow]
    /\ exams = {}
    /\ worker = [w \in JobWorkers |-> Workless]
    /\ worked = {} /\ shared = {} /\ abandoned = {} /\ unmarked = {}

-----------------------------------------------------------------------------
\* Conversation analysis.

CreateAnalysis(a, type) ==
    /\ analyses[a] = NoRow
    /\ analyses' = Inserted(analyses, a, [type |-> type, result |-> FALSE, status |-> "pending"])
    /\ UNCHANGED <<voices, cloning, courses, exams, worker, jobHistory>>

WorksOn(w, a) == worker[w].at \in {"mark", "mine", "complete"} /\ worker[w].id = a

\* RunConversationAnalysis: a task is run whatever its status is.
GetAnalysis(w, a) ==
    /\ a \in Ids(analyses)
    /\ SetAbout(w, [at |-> "mark", id |-> a, row |-> analyses[a]])
    /\ shared' = IF \E v \in JobWorkers : WorksOn(v, a) THEN shared \cup {a} ELSE shared
    /\ UNCHANGED <<analyses, voices, cloning, courses, exams, worked, abandoned, unmarked>>

\* UPDATE of the status and the result with those of the copy.
UpdateAnalysis(w, row, at) ==
    /\ analyses' = Updated(analyses, worker[w].id, row)
    /\ worker' = [worker EXCEPT ![w].row = row, ![w].at = at]
    /\ UNCHANGED <<voices, cloning, courses, exams, shared, abandoned, unmarked>>

\* Mutant: a task that is run again starts with no result.
MutantMarkRunning(w) ==
    /\ Doing(w, "mark")
    /\ UpdateAnalysis(w, [worker[w].row EXCEPT !.status = "running", !.result = FALSE], "mine")
    /\ UNCHANGED worked

\* A task that is run again keeps the result it had.
MarkRunning(w) ==
    /\ Doing(w, "mark")
    /\ UpdateAnalysis(w, [worker[w].row EXCEPT !.status = "running"], "mine")
    /\ UNCHANGED worked

\* A type there is no miner for, or a model that fails, ends the request: the
\* task stays running.
MineTranscripts(w) ==
    /\ Doing(w, "mine")
    /\ \/ /\ worker[w].row.type = "known"
          /\ worker' = [worker EXCEPT ![w].at = "complete"]
          /\ UNCHANGED abandoned
       \/ /\ Lay(w)
          /\ abandoned' = abandoned \cup {worker[w].id}
    /\ UNCHANGED <<analyses, voices, cloning, courses, exams, worked, shared, unmarked>>

\* Mutant: the status is forgotten.
MutantComplete(w) ==
    /\ Doing(w, "complete")
    /\ analyses' = Updated(analyses, worker[w].id, [worker[w].row EXCEPT !.result = TRUE])
    /\ Lay(w)
    /\ worked' = worked \cup {worker[w].id}
    /\ UNCHANGED <<voices, cloning, courses, exams, shared, abandoned, unmarked>>

Complete(w) ==
    /\ Doing(w, "complete")
    /\ analyses' = Updated(analyses, worker[w].id,
                       [worker[w].row EXCEPT !.status = "completed", !.result = TRUE])
    /\ Lay(w)
    /\ worked' = worked \cup {worker[w].id}
    /\ UNCHANGED <<voices, cloning, courses, exams, shared, abandoned, unmarked>>

-----------------------------------------------------------------------------
\* Voices.

CreateVoice(v) ==
    /\ voices[v] = NoRow /\ cloning[v] = 0
    /\ voices' = Inserted(voices, v, [status |-> "pending"])
    /\ UNCHANGED <<analyses, cloning, courses, exams, worker, jobHistory>>

DeleteVoice(v) ==
    /\ v \in Ids(voices)
    /\ voices' = Deleted(voices, v)
    /\ UNCHANGED <<analyses, cloning, courses, exams, worker, jobHistory>>

\* The profile is read whatever its status is, and written back with nothing
\* changed but the status: that is all a worker has to remember.
GetVoice(w, v) ==
    /\ v \in Ids(voices)
    /\ SetAbout(w, [at |-> "clone", id |-> v])
    /\ UNCHANGED <<analyses, voices, cloning, courses, exams, jobHistory>>

\* The provider starts the job; its id is kept in memory only, as no column is
\* written with it.
StartCloneTraining(w) ==
    /\ Doing(w, "clone")
    /\ LET v == worker[w].id
       IN  cloning[v] < MaxJobs /\ cloning' = [cloning EXCEPT ![v] = @ + 1]
    /\ worker' = [worker EXCEPT ![w].at = "train"]
    /\ UNCHANGED <<analyses, voices, courses, exams, jobHistory>>

\* Mutant: the profile is marked before the provider is asked.
MutantStartTraining(w) ==
    /\ Doing(w, "clone")
    /\ voices' = Updated(voices, worker[w].id, [status |-> "training"])
    /\ Lay(w)
    /\ UNCHANGED <<analyses, cloning, courses, exams, jobHistory>>

StartTraining(w) ==
    /\ Doing(w, "train")
    /\ voices' = Updated(voices, worker[w].id, [status |-> "training"])
    /\ Lay(w)
    /\ UNCHANGED <<analyses, cloning, courses, exams, jobHistory>>

\* A statement or a call of a provider fails, or the server stops.
WorkFails(w) ==
    /\ worker[w] # Workless
    /\ Lay(w)
    /\ abandoned' = IF worker[w].at \in {"mine", "complete"}
                    THEN abandoned \cup {worker[w].id} ELSE abandoned
    /\ unmarked' = IF Doing(w, "train") THEN unmarked \cup {worker[w].id} ELSE unmarked
    /\ UNCHANGED <<analyses, voices, cloning, courses, exams, worked, shared>>

-----------------------------------------------------------------------------
\* Training courses.

\* Mutant: the pass score is not checked.
MutantCreateCourse(c, pass) ==
    /\ courses[c] = NoRow
    /\ courses' = Inserted(courses, c, [pass |-> pass, status |-> "draft"])
    /\ UNCHANGED <<analyses, voices, cloning, exams, worker, jobHistory>>

CreateCourse(c, pass) ==
    /\ courses[c] = NoRow
    /\ pass \in 1..100
    /\ courses' = Inserted(courses, c, [pass |-> pass, status |-> "draft"])
    /\ UNCHANGED <<analyses, voices, cloning, exams, worker, jobHistory>>

PublishCourse(c) ==
    /\ c \in Ids(courses)
    /\ courses' = Updated(courses, c, [courses[c] EXCEPT !.status = "published"])
    /\ UNCHANGED <<analyses, voices, cloning, exams, worker, jobHistory>>

\* Mutant: more than the pass score is needed.
MutantPasses(score, of, pass) == of > 0 /\ (score * 100) \div of > pass

\* Integer division: what is below the pass score by less than a point fails.
\* The two divisions differ below zero, where neither passes.
Passes(score, of, pass) == of > 0 /\ (score * 100) \div of >= pass

\* Exams of a draft are taken, and so is a second exam of an agent.
SubmitExam(c, score, of) ==
    /\ c \in Ids(courses)
    /\ Cardinality(exams) < MaxExams
    /\ exams' = exams \cup {[course |-> c, score |-> score, of |-> of,
                             passed |-> Passes(score, of, courses[c].pass)]}
    /\ UNCHANGED <<analyses, voices, cloning, courses, worker, jobHistory>>

JobsNext ==
    \/ \E a \in Analyses, type \in {"known", "unsupported"} : CreateAnalysis(a, type)
    \/ \E v \in Voices : CreateVoice(v) \/ DeleteVoice(v)
    \/ \E w \in JobWorkers :
          \/ \E a \in Analyses : GetAnalysis(w, a)
          \/ \E v \in Voices : GetVoice(w, v)
          \/ MarkRunning(w) \/ MineTranscripts(w) \/ Complete(w)
          \/ StartCloneTraining(w) \/ StartTraining(w) \/ WorkFails(w)
    \/ \E c \in Courses : \/ \E pass \in PassScores : CreateCourse(c, pass)
                          \/ PublishCourse(c)
                          \/ \E score, of \in Scores : SubmitExam(c, score, of)

JobsSpec == JobsInit /\ [][JobsNext]_jobVars

-----------------------------------------------------------------------------
\* Type correctness: a course asks for 1 to 100 per cent.
JobsTypeOK ==
    /\ analyses \in [Analyses -> AnalysisTask \cup {NoRow}]
    /\ voices \in [Voices -> VoiceProfile \cup {NoRow}]
    /\ cloning \in [Voices -> 0..MaxJobs]
    /\ courses \in [Courses -> Course \cup {NoRow}]
    /\ exams \subseteq Exam
    /\ \A w \in JobWorkers : worker[w] = Workless \/ worker[w] \in WorkHeld
    /\ worked \cup shared \cup abandoned \subseteq Analyses
    /\ unmarked \subseteq Voices

\* An analysis that is running is being worked on, or was given up by a model
\* that failed or a server that stopped: no order of two runs leaves it so.
RunningIsWorkedOn ==
    \A a \in Ids(analyses) :
        analyses[a].status = "running" => a \in abandoned \/ \E w \in JobWorkers : WorksOn(w, a)

\* A result is not lost, though tasks are run again and given up: only a run
\* that read the task before another completed it overwrites its result.
ResultsStay ==
    \A a \in worked \ shared : analyses[a] # NoRow /\ analyses[a].result

\* A voice in training was handed to the provider, and one that was is in
\* training, is about to be, or was left by a request that failed in between.
TrainedAtProvider ==
    \A v \in Ids(voices) :
        /\ voices[v].status = "training" => cloning[v] > 0
        /\ cloning[v] > 0 => \/ voices[v].status = "training" \/ v \in unmarked
                             \/ \E w \in JobWorkers : Doing(w, "train") /\ worker[w].id = v

\* An exam is passed exactly when the share of its points reaches the share
\* the course asks for: the integer division rounds nobody up or down over it.
GradesAreExact ==
    \A e \in exams : e.passed <=> e.of > 0 /\ 100 * e.score >= courses[e.course].pass * e.of
=============================================================================
