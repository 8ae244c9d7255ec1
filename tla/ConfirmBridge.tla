---------------------------- MODULE ConfirmBridge ----------------------------
(* A merge or a rename dialogue in the browser.  The engine runs on a worker *)
(* thread and asks through WebConfirmBridge.ask; each request is a thread of *)
(* its own that polls for the question and perhaps submits an answer.  They  *)
(* share three events and two fields and hold no lock, so every access to    *)
(* one of these is a step: a thread is what it has still to do.              *)
(*                                                                           *)
(* A client is a window of a browser: it makes one request after another,    *)
(* and answers from the page it shows.  A double click is two clients that   *)
(* show the same page.  Questions are numbered in the order they are asked.  *)
EXTENDS Naturals, Sequences, FiniteSets

CONSTANTS
  Client,       \* windows that show the dialogue
  Worker,       \* the worker thread
  MaxQuestions  \* bound: questions of one dialogue

ASSUME DialogueAssumption == Worker \notin Client /\ MaxQuestions \in Nat

VARIABLES
  questionReady,  \* _question_ready
  answerReady,    \* _answer_ready
  done,           \* _done
  question,       \* _question: its number, 0 before the first
  answer,         \* _answer
  kind,           \* the engine that runs, "merge" or "rename"
  todo,           \* thread -> what it has still to do
  page,           \* client -> the question it shows
  found,          \* client -> the question its request has polled
  taken,          \* history: the answers the engine has accepted, in order
  clickers        \* history: the clients that have answered anything

events == <<questionReady, answerReady, done>>
fields == <<question, answer>>
windows == <<page, found, clickers>>
vars == <<events, fields, kind, todo, windows, taken>>

NoPage == 0

\* `shown`: the page a person answered from.  `polled`: the question pending
\* when the request arrived, which a merge's token is issued for.
Answer(shown, polled) == [shown |-> shown, polled |-> polled]

Init ==
  /\ questionReady = FALSE /\ answerReady = FALSE /\ done = FALSE
  /\ question = 0 /\ answer = Answer(NoPage, 0)
  /\ kind \in {"merge", "rename"}
  /\ todo = [t \in Client \cup {Worker} |-> <<>>]
  /\ page = [c \in Client |-> NoPage]
  /\ found = [c \in Client |-> 0]
  /\ taken = <<>>
  /\ clickers = {}

----------------------------------------------------------------------------
(* What the threads do, in order.                                            *)

\* MUTANT of Ask: the old answer is put away after the question is announced.
AskClearsLast ==
  <<"storeQuestion", "setQuestion", "clearAnswer", "waitAnswer",
    "clearQuestion", "takeAnswer">>

Ask ==
  <<"storeQuestion", "clearAnswer", "setQuestion", "waitAnswer",
    "clearQuestion", "takeAnswer">>

\* MUTANT of Finish: pollers are woken before `done` is set.
FinishWakesFirst == <<"setQuestion", "setDone">>

Finish == <<"setDone", "setQuestion">>

\* GET /step: is_done and poll_question.
Get == <<"isDone", "waitQuestion", "readDone", "readQuestion", "show">>

\* MUTANT of Post: the question is withdrawn after the worker is woken.
PostClearsLast ==
  <<"waitQuestion", "readDone", "readQuestion", "checkDone",
    "storeAnswer", "setAnswer", "clearQuestion", "redirect">>

\* MUTANT of Post: the question is left to the worker to withdraw.
PostLeavesQuestion ==
  <<"waitQuestion", "readDone", "readQuestion", "checkDone",
    "storeAnswer", "setAnswer", "redirect">>

\* MUTANT of Post: the worker is woken before there is an answer.
PostStoresLast ==
  <<"waitQuestion", "readDone", "readQuestion", "checkDone",
    "clearQuestion", "setAnswer", "storeAnswer", "redirect">>

\* POST /answer: poll_question and submit_answer.
Post ==
  <<"waitQuestion", "readDone", "readQuestion", "checkDone",
    "storeAnswer", "clearQuestion", "setAnswer", "redirect">>

At(t, step) == todo[t] # <<>> /\ Head(todo[t]) = step

Continue(t) == todo' = [todo EXCEPT ![t] = Tail(@)]

\* An exception, or an early return.
Leave(t) == todo' = [todo EXCEPT ![t] = <<>>]

----------------------------------------------------------------------------
(* The events and the fields.                                                *)

SetQuestionReady(t) ==
  /\ At(t, "setQuestion") /\ Continue(t)
  /\ questionReady' = TRUE
  /\ UNCHANGED <<answerReady, done, fields, kind, windows, taken>>

ClearQuestionReady(t) ==
  /\ At(t, "clearQuestion") /\ Continue(t)
  /\ questionReady' = FALSE
  /\ UNCHANGED <<answerReady, done, fields, kind, windows, taken>>

SetAnswerReady(t) ==
  /\ At(t, "setAnswer") /\ Continue(t)
  /\ answerReady' = TRUE
  /\ UNCHANGED <<questionReady, done, fields, kind, windows, taken>>

ClearAnswerReady(t) ==
  /\ At(t, "clearAnswer") /\ Continue(t)
  /\ answerReady' = FALSE
  /\ UNCHANGED <<questionReady, done, fields, kind, windows, taken>>

SetDone(t) ==
  /\ At(t, "setDone") /\ Continue(t)
  /\ done' = TRUE
  /\ UNCHANGED <<questionReady, answerReady, fields, kind, windows, taken>>

StoreQuestion(t) ==
  /\ At(t, "storeQuestion") /\ Continue(t)
  /\ question' = question + 1
  /\ UNCHANGED <<events, answer, kind, windows, taken>>

StoreAnswer(t) ==
  /\ At(t, "storeAnswer") /\ Continue(t)
  /\ answer' = Answer(page[t], found[t])
  /\ UNCHANGED <<events, question, kind, windows, taken>>

----------------------------------------------------------------------------
(* The worker.                                                               *)

\* The engine asks on, or returns or raises.
RunEngine ==
  /\ todo[Worker] = <<>> /\ ~done
  /\ \E next \in {Ask, Finish} :
       /\ next = Ask => question < MaxQuestions
       /\ todo' = [todo EXCEPT ![Worker] = next]
  /\ UNCHANGED <<events, fields, kind, windows, taken>>

WaitAnswer ==
  /\ At(Worker, "waitAnswer") /\ answerReady
  /\ Continue(Worker)
  /\ UNCHANGED <<events, fields, kind, windows, taken>>

\* commit_resolution raises on a token with another group's id; two questions may
\* have one id, as those about what refers to one dropped object have, and which
\* do is left open.  A rename takes whatever it is told.
TakeAnswer ==
  /\ At(Worker, "takeAnswer")
  /\ \/ /\ kind = "merge" /\ answer.polled # question
        /\ todo' = [todo EXCEPT ![Worker] = Finish] /\ UNCHANGED taken
     \/ Continue(Worker) /\ taken' = Append(taken, answer)
  /\ UNCHANGED <<events, fields, kind, windows>>

WorkerStep ==
  \/ StoreQuestion(Worker) \/ ClearAnswerReady(Worker) \/ SetQuestionReady(Worker)
  \/ WaitAnswer \/ ClearQuestionReady(Worker) \/ TakeAnswer
  \/ RunEngine \/ SetDone(Worker)

----------------------------------------------------------------------------
(* The requests.  A client that gets no question shows a page without one.   *)

ShowNothing(c) == page' = [page EXCEPT ![c] = NoPage]

Look(c) ==
  /\ todo[c] = <<>>
  /\ todo' = [todo EXCEPT ![c] = Get]
  /\ UNCHANGED <<events, fields, kind, windows, taken>>

\* From a page that shows a question.
Click(c) ==
  /\ todo[c] = <<>> /\ page[c] # NoPage
  /\ todo' = [todo EXCEPT ![c] = Post]
  /\ clickers' = clickers \cup {c}
  /\ UNCHANGED <<events, fields, kind, page, found, taken>>

\* Each look at the three events: going on, or leaving without a question.
Test(c, step, goOn) ==
  /\ At(c, step)
  /\ IF goOn THEN Continue(c) /\ UNCHANGED page ELSE Leave(c) /\ ShowNothing(c)
  /\ UNCHANGED <<events, fields, kind, found, clickers, taken>>

IsDone(c) == Test(c, "isDone", ~done)

\* False: the timeout has passed.
WaitQuestion(c) == Test(c, "waitQuestion", questionReady)

ReadDone(c) == Test(c, "readDone", ~done)

CheckDone(c) == Test(c, "checkDone", ~done)

ReadQuestion(c) ==
  /\ At(c, "readQuestion") /\ Continue(c)
  /\ found' = [found EXCEPT ![c] = question]
  /\ UNCHANGED <<events, fields, kind, page, clickers, taken>>

Show(c) ==
  /\ At(c, "show") /\ Continue(c)
  /\ page' = [page EXCEPT ![c] = found[c]]
  /\ UNCHANGED <<events, fields, kind, found, clickers, taken>>

Redirect(c) ==
  /\ At(c, "redirect") /\ Continue(c)
  /\ ShowNothing(c)
  /\ UNCHANGED <<events, fields, kind, found, clickers, taken>>

RequestStep(c) ==
  \/ IsDone(c) \/ WaitQuestion(c) \/ ReadDone(c) \/ ReadQuestion(c) \/ Show(c)
  \/ CheckDone(c) \/ StoreAnswer(c) \/ ClearQuestionReady(c) \/ SetAnswerReady(c)
  \/ Redirect(c)

Next == \/ WorkerStep
        \/ \E c \in Client : Look(c) \/ Click(c) \/ RequestStep(c)

\* Threads that can go on do; whether anybody looks or clicks is up to people.
Fairness == WF_vars(WorkerStep) /\ \A c \in Client : WF_vars(RequestStep(c))

Spec == Init /\ [][Next]_vars /\ Fairness

----------------------------------------------------------------------------
(* Properties.                                                               *)

\* Types, and bridge.py:67 "assert self._answer is not None": the worker
\* never gets as far as the assertion without an answer.
TypeOK ==
  /\ {questionReady, answerReady, done} \subseteq BOOLEAN
  /\ question \in 0 .. MaxQuestions
  /\ answer \in [shown : 0 .. MaxQuestions, polled : 0 .. MaxQuestions]
  /\ page \in [Client -> 0 .. MaxQuestions] /\ found \in [Client -> 0 .. MaxQuestions]
  /\ Len(taken) <= question
  /\ At(Worker, "takeAnswer") => answer # Answer(NoPage, 0)

\* The worker and the browser never wait for each other: while the worker has
\* no answer its question can be polled, or an answer is on its way, whatever
\* the requests of however many windows do to the events.
NoLostWakeup ==
  At(Worker, "waitAnswer") /\ ~answerReady =>
    questionReady \/ \E c \in Client : At(c, "setAnswer")

\* bridge.py:11 "lets the worker thread continue": an answer submitted by the
\* only window that answers takes the dialogue past its question.
AnswersMoveOn ==
  \A c \in Client, n \in 1 .. MaxQuestions :
    clickers = {c} /\ At(c, "storeAnswer") /\ question = n
      ~> question > n \/ Len(taken) = n \/ done \/ clickers # {c}

\* As long as the answers come from one window, with or without others that
\* only look on, each question gets the answer that was chosen on its page.
AnswersWereChosen ==
  Cardinality(clickers) <= 1 => \A i \in DOMAIN taken : taken[i] = Answer(i, i)

\* bridge.py:86 "racing to read a stale `self._question`": and
\* that window never shows a question that has been answered.
NoStalePage ==
  \A c \in Client :
    clickers \subseteq {c} /\ todo[c] = <<>> /\ page[c] # NoPage => page[c] > Len(taken)
=============================================================================
