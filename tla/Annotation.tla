----------------------------- MODULE Annotation -----------------------------
(***************************************************************************)
(* Labelling tasks (AnnotationService). A task counts the items labelled   *)
(* and is completed by the submission that reaches its total. Each request *)
(* reads the task, and a submission also looks whether its item has a      *)
(* result and inserts one, before the copy of the task is written back     *)
(* with its count and its status. Names, labels and texts are left out;    *)
(* no handler deletes a task, and none checks whose task it is.            *)
(***************************************************************************)
EXTENDS Tenancy

CONSTANTS
    Annotators,     \* requests in progress
    TaskIds,
    Items,          \* indices a submission can have: any number is taken
    Totals,         \* what total_items can be: any number is taken
    MaxResults      \* bound: results of one item

AnnotationTaskStatus == {"pending", "in_progress", "completed", "cancelled"}
AnnotationTask == [total : Totals, labeled : Nat, status : AnnotationTaskStatus]

ASSUME AnnotationAssumption ==
    /\ IsFiniteSet(Annotators) /\ IsFiniteSet(Items)
    /\ NoRow \notin TaskIds \cup AnnotationTask
    /\ Totals \subseteq Int
    /\ MaxResults \in Nat

VARIABLES
    tasks,
    results,        \* how many results each item of each task has
    labelling,      \* what each request is doing
    crossed,        \* tasks two requests worked on at a time (history)
    halved,         \* tasks of which a submission was only half stored (history)
    unseen,         \* tasks where a result was looked for in vain (history)
    revived         \* tasks that left a final status (history)

annotationHistory == <<crossed, halved, unseen, revived>>
annotationVars == <<tasks, results, labelling, annotationHistory>>

\* What a request holds: the copy of the task it read, the item it labels.
AtPause == [at |-> "pause"]
Copies == [at : {"look", "insert", "count"}, task : TaskIds, row : AnnotationTask, item : Items]
          \cup [at : {"write"}, task : TaskIds, row : AnnotationTask]

On(a, k) == labelling[a] # AtPause /\ labelling[a].task = k

AnnotationInit ==
    /\ tasks = [k \in TaskIds |-> NoRow]
    /\ results = [k \in TaskIds |-> [i \in Items |-> 0]]
    /\ labelling = [a \in Annotators |-> AtPause]
    /\ crossed = {} /\ halved = {} /\ unseen = {} /\ revived = {}

\* Results of a task.
Stored(k) == Cardinality({e \in Items \X (1..MaxResults) : e[2] <= results[k][e[1]]})

-----------------------------------------------------------------------------
\* Mutant: the new task has no status.
MutantCreateAnnotationTask(k, total) ==
    /\ tasks[k] = NoRow
    /\ tasks' = Inserted(tasks, k, [total |-> total, labeled |-> 0, status |-> ""])
    /\ UNCHANGED <<results, labelling, annotationHistory>>

\* total_items is what the body says, a total of none included.
CreateAnnotationTask(k, total) ==
    /\ tasks[k] = NoRow
    /\ tasks' = Inserted(tasks, k, [total |-> total, labeled |-> 0, status |-> "pending"])
    /\ UNCHANGED <<results, labelling, annotationHistory>>

\* A request reads the task.
ReadTask(a, k, taken) ==
    /\ k \in Ids(tasks)
    /\ labelling[a] = AtPause
    /\ labelling' = [labelling EXCEPT ![a] = taken]
    /\ crossed' = IF \E b \in Annotators : On(b, k) THEN crossed \cup {k} ELSE crossed
    /\ UNCHANGED <<tasks, results, halved, unseen, revived>>

SetStatus(a, k, status) ==
    ReadTask(a, k, [at |-> "write", task |-> k, row |-> [tasks[k] EXCEPT !.status = status]])

Final(k) == tasks[k] # NoRow /\ tasks[k].status \in {"completed", "cancelled"}

\* Mutant: the status is not looked at.
MutantStartTask(a, k) == SetStatus(a, k, "in_progress")

StartTask(a, k) == ~Final(k) /\ SetStatus(a, k, "in_progress")

\* Whatever the status is, cancelled included.
CompleteTask(a, k) == SetStatus(a, k, "completed")

CancelTask(a, k) ==
    /\ k \in Ids(tasks)
    /\ tasks[k].status # "completed"
    /\ SetStatus(a, k, "cancelled")

SubmitAnnotation(a, k, i) ==
    /\ ~Final(k)
    /\ ReadTask(a, k, [at |-> "look", task |-> k, row |-> tasks[k], item |-> i])

-----------------------------------------------------------------------------
Move(a, at) == labelling' = [labelling EXCEPT ![a].at = at]
Leave(a) == labelling' = [labelling EXCEPT ![a] = AtPause]

\* Mutant: an item may be labelled again.
MutantGetByTaskAndIndex(a) ==
    /\ labelling[a].at = "look"
    /\ Move(a, "insert")
    /\ UNCHANGED <<tasks, results, annotationHistory>>

\* An item with a result is refused; the error of the query is dropped, and
\* an item that could not be looked for is as good as one without a result.
GetByTaskAndIndex(a) ==
    /\ labelling[a].at = "look"
    /\ LET k == labelling[a].task  n == results[k][labelling[a].item]
       IN  \/ /\ n = 0
              /\ Move(a, "insert")
              /\ UNCHANGED unseen
           \/ /\ n > 0
              /\ Leave(a)
              /\ UNCHANGED unseen
           \/ /\ n > 0                      \* the query fails
              /\ Move(a, "insert")
              /\ unseen' = unseen \cup {k}
    /\ UNCHANGED <<tasks, results, crossed, halved, revived>>

\* Mutant: an error of the INSERT is dropped as that of the query is.
MutantInsertAnnotation(a) ==
    /\ labelling[a].at = "insert"
    /\ Move(a, "count")
    /\ \/ UNCHANGED results
       \/ LET k == labelling[a].task  i == labelling[a].item
          IN  results[k][i] < MaxResults /\ results' = [results EXCEPT ![k][i] = @ + 1]
    /\ UNCHANGED <<tasks, annotationHistory>>

\* No key makes the results of an item unique.
InsertAnnotation(a) ==
    /\ labelling[a].at = "insert"
    /\ LET k == labelling[a].task  i == labelling[a].item
       IN  results[k][i] < MaxResults /\ results' = [results EXCEPT ![k][i] = @ + 1]
    /\ Move(a, "count")
    /\ UNCHANGED <<tasks, annotationHistory>>

\* Mutant: a task is completed by the submission after its last.
MutantCountedUp(row) ==
    LET n == row.labeled + 1
    IN  [row EXCEPT !.labeled = n,
                    !.status = CASE n > row.total -> "completed"
                                 [] n <= row.total /\ @ = "pending" -> "in_progress"
                                 [] OTHER -> @]

\* The copy counts one more: it is completed when it reaches the total.
CountedUp(row) ==
    LET n == row.labeled + 1
    IN  [row EXCEPT !.labeled = n,
                    !.status = CASE n >= row.total -> "completed"
                                 [] n < row.total /\ @ = "pending" -> "in_progress"
                                 [] OTHER -> @]

\* UPDATE of the count and the status with those of the copy.
UpdateTask(a) ==
    /\ labelling[a].at \in {"count", "write"}
    /\ LET k == labelling[a].task
           new == IF labelling[a].at = "count" THEN CountedUp(labelling[a].row)
                  ELSE labelling[a].row
           old == tasks[k].status
       IN  /\ tasks' = Updated(tasks, k, new)
           /\ revived' = IF \/ old = "completed" /\ new.status # "completed"
                            \/ old = "cancelled" /\ new.status \in {"pending", "in_progress"}
                         THEN revived \cup {k} ELSE revived
    /\ Leave(a)
    /\ UNCHANGED <<results, crossed, halved, unseen>>

\* A statement fails, or the server stops: a result that is in is not taken back.
AnnotationFails(a) ==
    /\ labelling[a] # AtPause
    /\ halved' = IF labelling[a].at = "count" THEN halved \cup {labelling[a].task} ELSE halved
    /\ Leave(a)
    /\ UNCHANGED <<tasks, results, crossed, unseen, revived>>

AnnotationNext ==
    \/ \E k \in TaskIds, total \in Totals : CreateAnnotationTask(k, total)
    \/ \E a \in Annotators :
          \/ \E k \in TaskIds : \/ StartTask(a, k) \/ CompleteTask(a, k) \/ CancelTask(a, k)
                                \/ \E i \in Items : SubmitAnnotation(a, k, i)
          \/ GetByTaskAndIndex(a) \/ InsertAnnotation(a) \/ UpdateTask(a)
          \/ AnnotationFails(a)

AnnotationSpec == AnnotationInit /\ [][AnnotationNext]_annotationVars

-----------------------------------------------------------------------------
\* Type correctness of the tasks, their results and the requests.
AnnotationTypeOK ==
    /\ tasks \in [TaskIds -> AnnotationTask \cup {NoRow}]
    /\ results \in [TaskIds -> [Items -> 0..MaxResults]]
    /\ \A a \in Annotators : /\ labelling[a] = AtPause \/ labelling[a] \in Copies
                             /\ labelling[a] # AtPause => labelling[a].task \in Ids(tasks)
    /\ crossed \cup halved \cup unseen \cup revived \subseteq TaskIds

\* A task never counts a label that is not stored, whatever copies of it are
\* written in whatever order: the result is inserted before it is counted.
CountedAreStored == \A k \in Ids(tasks) : tasks[k].labeled <= Stored(k)

\* An item has two results only where two requests worked on the task at a
\* time or the first result was looked for in vain: no key stops the second.
TwiceOnlyWhereUnseen ==
    \A k \in TaskIds : (\E i \in Items : results[k][i] > 1) => k \in crossed \cup unseen

\* A completed or cancelled task goes on only where a copy read before was
\* written after.
RevivedOnlyWhereCrossed == revived \subseteq crossed

\* Where requests came one at a time and none stopped half way, a task whose
\* labels reach its total is completed: the count misses none.
LabelledIsCompleted ==
    \A k \in Ids(tasks) \ (crossed \cup halved) :
        /\ \A a \in Annotators : ~On(a, k)
        /\ Stored(k) > 0 /\ Stored(k) >= tasks[k].total
        => tasks[k].status = "completed"
=============================================================================
