------------------------------ MODULE Annotate ------------------------------
(***************************************************************************)
(* The comment and the labels that CI runs leave on a pull request         *)
(* (scripts/ci/annotate_release_gate.py). Runs overlap, people comment,    *)
(* and any request may fail.                                               *)
(***************************************************************************)
EXTENDS Integers, FiniteSets, Functions

CONSTANTS Jobs,         \* CI jobs that annotate one pull request
          Reports,      \* what such a job may be started with, see Report
          Catalog,      \* reason codes that have a label
          PageSize,     \* comments in GitHub's answer
          MaxComments   \* bound: comments ever made

VARIABLES comments,    \* GitHub: id -> body, of the comments that are there
          written,     \* number of comments ever made; ids count them
          repoLabels,  \* GitHub: labels of the repository
          prLabels,    \* and of the pull request
          job,         \* job -> its run
          blind        \* history: a comment was created by a run that could not know of another
vars == <<comments, written, repoLabels, prLabels, job, blind>>

\* The result of the stage in the environment, what a status file says instead, whether
\* badges are shown and comment and labels asked for, and the codes of the reasons.
Report == [result : {"success", "failure", "skipped", ""}, extra : {"", "pass", "fail"},
           badges : BOOLEAN, upsert : BOOLEAN, sync : BOOLEAN, codes : SUBSET STRING]

\* stage_status_from_env
StageStatus(result) ==
  CASE result = "success" -> "pass" [] result = "failure" -> "fail"
    [] result = "skipped" -> "warn" [] OTHER -> "unknown"

\* collect_stage_statuses
Status(r) == IF ~r.badges THEN "unknown" ELSE IF r.extra # "" THEN r.extra ELSE StageStatus(r.result)

\* build_comment. What people write has no marker.
Body(r) == [status |-> Status(r), codes |-> r.codes]
Talk    == [status |-> "talk", codes |-> {}]

Idle == [pc |-> "idle"]

Init ==
  /\ comments = <<>> /\ written = 0 /\ repoLabels = {} /\ prLabels = {}
  /\ job = [j \in Jobs |-> Idle] /\ blind = FALSE

labels == <<repoLabels, prLabels>>

Marked == {i \in DOMAIN comments : comments[i] # Talk}

\* The first page: the oldest comments.
Page == {i \in DOMAIN comments : Cardinality({k \in DOMAIN comments : k < i}) < PageSize}

NewComment(body) == /\ written < MaxComments /\ written' = written + 1
                    /\ comments' = [i \in DOMAIN comments \cup {written'} |->
                                      IF i = written' THEN body ELSE comments[i]]

-----------------------------------------------------------------------------
\* People comment, and delete comments.
Comment == NewComment(Talk) /\ UNCHANGED <<labels, job, blind>>

Delete(i) ==
  /\ i \in DOMAIN comments /\ comments' = Restrict(comments, DOMAIN comments \ {i})
  /\ UNCHANGED <<written, labels, job, blind>>

-----------------------------------------------------------------------------
Goto(j, pc) == job' = [job EXCEPT ![j].pc = pc]

\* main: the report and the file are made; a comment only with a token and a number.
Start(j, r) ==
  /\ job[j] = Idle
  /\ job' = [job EXCEPT ![j] = [pc |-> IF r.upsert THEN "list" ELSE "labels", report |-> r,
                                target |-> 0, todo |-> IF r.sync THEN r.codes \cap Catalog ELSE {}]]
  /\ UNCHANGED <<comments, written, labels, blind>>

\* Variant of Found: the run looks at the oldest comment only.
FoundFirst(page) == {i \in page : comments[i] # Talk /\ \A k \in page : i <= k}

\* The comments of the page that have the marker.
Found(page) == page \cap Marked

\* upsert_comment: the comments are listed, the first with the marker is taken.
List(j) ==
  /\ job[j].pc = "list"
  /\ \E i \in Found(Page) \cup {0} :
       /\ \A k \in Found(Page) : i # 0 /\ i <= k
       /\ job' = [job EXCEPT ![j].pc = "write", ![j].target = i]
  /\ UNCHANGED <<comments, written, labels, blind>>

\* and replaced, if it is still there, or one made.
Write(j) ==
  /\ job[j].pc = "write" /\ Goto(j, "labels")
  /\ LET i == job[j].target
         body == Body(job[j].report)
     IN  IF i = 0
         THEN /\ NewComment(body)
              /\ blind' = \/ blind \/ \E k \in Jobs \ {j} : job[k].pc = "write" /\ job[k].target = 0
                          \/ Cardinality(DOMAIN comments) >= PageSize
         ELSE /\ comments' = IF i \in DOMAIN comments THEN [comments EXCEPT ![i] = body] ELSE comments
              /\ UNCHANGED <<written, blind>>
  /\ UNCHANGED labels

\* sync_labels: each label that is wanted is updated, or created if it is not there.
\* A label that another run creates first ends it.
SyncLabel(j, c) ==
  /\ job[j].pc = "labels" /\ c \in job[j].todo
  /\ IF c \in repoLabels THEN job' = [job EXCEPT ![j].todo = @ \ {c}] ELSE Goto(j, "create")
  /\ UNCHANGED <<comments, written, labels, blind>>

Create(j, c) ==
  /\ job[j].pc = "create" /\ c \in job[j].todo
  /\ IF c \in repoLabels THEN job' = [job EXCEPT ![j] = Idle]
     ELSE job' = [job EXCEPT ![j].pc = "labels", ![j].todo = @ \ {c}]
  /\ repoLabels' = repoLabels \cup {c}
  /\ UNCHANGED <<comments, written, prLabels, blind>>

\* Then they are put on the pull request; none is ever taken off. GitHub makes those
\* that are not there.
Attach(j) ==
  /\ job[j].pc = "labels" /\ job[j].todo = {}
  /\ LET wanted == IF job[j].report.sync THEN job[j].report.codes \cap Catalog ELSE {}
     IN  prLabels' = prLabels \cup wanted /\ repoLabels' = repoLabels \cup wanted
  /\ job' = [job EXCEPT ![j] = Idle]
  /\ UNCHANGED <<comments, written, blind>>

\* A request fails. main goes on with the labels after a comment, and ends after a label;
\* one that could not be updated is passed over.
Fail(j) ==
  /\ job[j].pc # "idle"
  /\ \/ job[j].pc \in {"list", "write"} /\ Goto(j, "labels")
     \/ job[j].pc \in {"create", "labels"} /\ job' = [job EXCEPT ![j] = Idle]
     \/ job[j].pc = "labels" /\ \E c \in job[j].todo : job' = [job EXCEPT ![j].todo = @ \ {c}]
  /\ UNCHANGED <<comments, written, labels, blind>>

-----------------------------------------------------------------------------
Next ==
  \/ Comment \/ \E i \in 1..MaxComments : Delete(i)
  \/ \E j \in Jobs : \/ List(j) \/ Write(j) \/ Attach(j) \/ Fail(j)
                     \/ \E r \in Reports : Start(j, r)
                     \/ \E c \in Catalog : SyncLabel(j, c) \/ Create(j, c)

Spec == Init /\ [][Next]_vars

-----------------------------------------------------------------------------
\* There is one comment of the gate, however many runs there were and wherever they
\* failed, unless one was made while another run was about to, or beyond the first page
\* (annotate_release_gate.py:166-184; docs/ops/PR-VISIBILITY.md:9: "a single comment").
SingleComment == ~blind => Cardinality(Marked) <= 1
=============================================================================
