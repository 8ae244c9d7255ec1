------------------------ MODULE ConfirmBridgeProofs ------------------------
(* For any number of windows and of questions: the worker and the browser    *)
(* never wait for each other, the engine never goes on without an answer,    *)
(* and as long as one window answers, each question gets the answer that was *)
(* chosen on its page and no page shows a question that has been answered.   *)
EXTENDS ConfirmBridge, FiniteSetTheorems, TLAPS

----------------------------------------------------------------------------
(* What a thread can have still to do: the rests of Ask and of Finish, of    *)
(* Get and of Post, each under the name of the step that comes next.         *)

Clearing == <<"clearAnswer", "setQuestion", "waitAnswer", "clearQuestion", "takeAnswer">>
Announcing == <<"setQuestion", "waitAnswer", "clearQuestion", "takeAnswer">>
Waiting == <<"waitAnswer", "clearQuestion", "takeAnswer">>
Withdrawing == <<"clearQuestion", "takeAnswer">>
Taking == <<"takeAnswer">>
Waking == <<"setQuestion">>

GetWaits == <<"waitQuestion", "readDone", "readQuestion", "show">>
GetLooks == <<"readDone", "readQuestion", "show">>
GetReads == <<"readQuestion", "show">>
GetShows == <<"show">>

PostLooks ==
  <<"readDone", "readQuestion", "checkDone", "storeAnswer", "clearQuestion",
    "setAnswer", "redirect">>
PostReads ==
  <<"readQuestion", "checkDone", "storeAnswer", "clearQuestion", "setAnswer", "redirect">>
PostChecks == <<"checkDone", "storeAnswer", "clearQuestion", "setAnswer", "redirect">>
PostStores == <<"storeAnswer", "clearQuestion", "setAnswer", "redirect">>
PostWithdraws == <<"clearQuestion", "setAnswer", "redirect">>
PostWakes == <<"setAnswer", "redirect">>
PostLeaves == <<"redirect">>

\* Between the question and the answer that the engine takes.
Asking == {Clearing, Announcing, Waiting, Withdrawing, Taking}

\* What a request of somebody who only looks on has still to do.
Looking == {Get, GetWaits, GetLooks, GetReads, GetShows, <<>>}

\* The part of a submission that has not reached the worker.
Submitting ==
  {Post, PostLooks, PostReads, PostChecks, PostStores, PostWithdraws, PostWakes}

WorkerTodo == Asking \cup {Ask, Finish, Waking, <<>>}
ClientTodo == Looking \cup Submitting \cup {PostLeaves}

Shape ==
  /\ todo \in [Client \cup {Worker} -> WorkerTodo \cup ClientTodo]
  /\ todo[Worker] \in WorkerTodo
  /\ \A c \in Client : todo[c] \in ClientTodo

Answers == [shown : 0 .. MaxQuestions, polled : 0 .. MaxQuestions]

Types ==
  /\ questionReady \in BOOLEAN /\ answerReady \in BOOLEAN /\ done \in BOOLEAN
  /\ question \in 0 .. MaxQuestions /\ answer \in Answers
  /\ page \in [Client -> 0 .. MaxQuestions] /\ found \in [Client -> 0 .. MaxQuestions]
  /\ taken \in Seq(Answers)
  /\ clickers \subseteq Client /\ IsFiniteSet(clickers)

\* No answer without a question of its own.
Counted ==
  /\ Len(taken) <= question
  /\ todo[Worker] \in Asking => Len(taken) < question
  /\ todo[Worker] = Ask => question < MaxQuestions

\* A submission knows the page it answers from, and nobody is told of an
\* answer that was not stored.
Stored ==
  /\ \A c \in Client : todo[c] \in Submitting => page[c] # NoPage
  /\ answerReady => answer.shown # NoPage
  /\ todo[Worker] \in {Withdrawing, Taking} => answer.shown # NoPage
  /\ \A c \in Client : todo[c] \in {PostWithdraws, PostWakes} => answer.shown # NoPage

TypeInv == Shape /\ Types /\ Counted /\ Stored

LookersLook == \A c \in Client \ clickers : todo[c] \in Looking

OneClicker == \A c, d \in clickers : c = d

\* The worker's question can be answered.
Offered == todo[Worker] = Waiting /\ ~answerReady

\* The worker among windows of which one answers.
WorkerInStep ==
  /\ Len(taken) = IF todo[Worker] \in Asking THEN question - 1 ELSE question
  /\ \A i \in DOMAIN taken : taken[i] = Answer(i, i)
  /\ done => todo[Worker] \in {Waking, <<>>}
  /\ todo[Worker] = Waking => done
  /\ questionReady => done \/ todo[Worker] = Waiting
  /\ todo[Worker] = Announcing => ~answerReady
  /\ todo[Worker] = Waiting /\ answerReady =>
       answer = Answer(question, question) /\ ~questionReady
  /\ todo[Worker] \in {Withdrawing, Taking} => answer = Answer(question, question)

\* The window that answers.
WindowInStep(c) ==
  /\ page[c] # NoPage /\ todo[c] # PostLeaves => Offered /\ page[c] = question
  /\ todo[c] = GetLooks => done \/ Offered
  /\ todo[c] \in {GetReads, GetShows} => Offered
  /\ todo[c] \in {GetShows, PostChecks, PostStores} => found[c] = question
  /\ todo[c] \in {PostWithdraws, PostWakes} => answer = Answer(question, question)
  /\ todo[c] = PostWakes => ~questionReady

InStep ==
  /\ LookersLook
  /\ OneClicker => WorkerInStep
  /\ \A c \in Client : clickers \subseteq {c} => WindowInStep(c)

----
\* From each rest to the next.
WorkerGoesOn(step, before, after) ==
  \/ step = "storeQuestion" /\ before = Ask /\ after = Clearing
  \/ step = "clearAnswer" /\ before = Clearing /\ after = Announcing
  \/ step = "setQuestion" /\ before = Announcing /\ after = Waiting
  \/ step = "waitAnswer" /\ before = Waiting /\ after = Withdrawing
  \/ step = "clearQuestion" /\ before = Withdrawing /\ after = Taking
  \/ step = "takeAnswer" /\ before = Taking /\ after = <<>>
  \/ step = "setDone" /\ before = Finish /\ after = Waking
  \/ step = "setQuestion" /\ before = Waking /\ after = <<>>

GetGoesOn(step, before, after) ==
  \/ step = "isDone" /\ before = Get /\ after = GetWaits
  \/ step = "waitQuestion" /\ before = GetWaits /\ after = GetLooks
  \/ step = "readDone" /\ before = GetLooks /\ after = GetReads
  \/ step = "readQuestion" /\ before = GetReads /\ after = GetShows
  \/ step = "show" /\ before = GetShows /\ after = <<>>

PostGoesOn(step, before, after) ==
  \/ step = "waitQuestion" /\ before = Post /\ after = PostLooks
  \/ step = "readDone" /\ before = PostLooks /\ after = PostReads
  \/ step = "readQuestion" /\ before = PostReads /\ after = PostChecks
  \/ step = "checkDone" /\ before = PostChecks /\ after = PostStores
  \/ step = "storeAnswer" /\ before = PostStores /\ after = PostWithdraws
  \/ step = "clearQuestion" /\ before = PostWithdraws /\ after = PostWakes
  \/ step = "setAnswer" /\ before = PostWakes /\ after = PostLeaves
  \/ step = "redirect" /\ before = PostLeaves /\ after = <<>>

LEMMA WorkerPath ==
  ASSUME NEW s \in WorkerTodo, s # <<>>
  PROVE  WorkerGoesOn(Head(s), s, Tail(s))
<1>1. CASE s = Ask
    BY <1>1 DEF WorkerGoesOn, Ask, Clearing
<1>2. CASE s = Clearing
    BY <1>2 DEF WorkerGoesOn, Clearing, Announcing
<1>3. CASE s = Announcing
    BY <1>3 DEF WorkerGoesOn, Announcing, Waiting
<1>4. CASE s = Waiting
    BY <1>4 DEF WorkerGoesOn, Waiting, Withdrawing
<1>5. CASE s = Withdrawing
    BY <1>5 DEF WorkerGoesOn, Withdrawing, Taking
<1>6. CASE s = Taking
    BY <1>6 DEF WorkerGoesOn, Taking
<1>7. CASE s = Finish
    BY <1>7 DEF WorkerGoesOn, Finish, Waking
<1>8. CASE s = Waking
    BY <1>8 DEF WorkerGoesOn, Waking
<1>. QED
    BY <1>1, <1>2, <1>3, <1>4, <1>5, <1>6, <1>7, <1>8 DEF WorkerTodo, Asking

LEMMA GetPath ==
  ASSUME NEW s \in Looking, s # <<>>
  PROVE  GetGoesOn(Head(s), s, Tail(s))
<1>1. CASE s = Get
    BY <1>1 DEF GetGoesOn, Get, GetWaits
<1>2. CASE s = GetWaits
    BY <1>2 DEF GetGoesOn, GetWaits, GetLooks
<1>3. CASE s = GetLooks
    BY <1>3 DEF GetGoesOn, GetLooks, GetReads
<1>4. CASE s = GetReads
    BY <1>4 DEF GetGoesOn, GetReads, GetShows
<1>5. CASE s = GetShows
    BY <1>5 DEF GetGoesOn, GetShows
<1>. QED
    BY <1>1, <1>2, <1>3, <1>4, <1>5 DEF Looking

LEMMA PostPath ==
  ASSUME NEW s \in Submitting \cup {PostLeaves}, s # <<>>
  PROVE  PostGoesOn(Head(s), s, Tail(s))
<1>1. CASE s = Post
    BY <1>1 DEF PostGoesOn, Post, PostLooks
<1>2. CASE s = PostLooks
    BY <1>2 DEF PostGoesOn, PostLooks, PostReads
<1>3. CASE s = PostReads
    BY <1>3 DEF PostGoesOn, PostReads, PostChecks
<1>4. CASE s = PostChecks
    BY <1>4 DEF PostGoesOn, PostChecks, PostStores
<1>5. CASE s = PostStores
    BY <1>5 DEF PostGoesOn, PostStores, PostWithdraws
<1>6. CASE s = PostWithdraws
    BY <1>6 DEF PostGoesOn, PostWithdraws, PostWakes
<1>7. CASE s = PostWakes
    BY <1>7 DEF PostGoesOn, PostWakes, PostLeaves
<1>8. CASE s = PostLeaves
    BY <1>8 DEF PostGoesOn, PostLeaves
<1>. QED
    BY <1>1, <1>2, <1>3, <1>4, <1>5, <1>6, <1>7, <1>8 DEF Submitting

\* No two of the rests are the same.
LEMMA WorkerRests ==
  /\ Ask \notin {Clearing, Announcing, Waiting, Withdrawing, Taking, Finish, Waking, <<>>}
  /\ Clearing \notin {Announcing, Waiting, Withdrawing, Taking, Finish, Waking, <<>>}
  /\ Announcing \notin {Waiting, Withdrawing, Taking, Finish, Waking, <<>>}
  /\ Waiting \notin {Withdrawing, Taking, Finish, Waking, <<>>}
  /\ Withdrawing \notin {Taking, Finish, Waking, <<>>}
  /\ Taking \notin {Finish, Waking, <<>>}
  /\ Finish \notin {Waking, <<>>}
  /\ Waking \notin {<<>>}
  BY DEF Ask, Clearing, Announcing, Waiting, Withdrawing, Taking, Finish, Waking

LEMMA ClientRests ==
  /\ Get \notin {GetWaits, GetLooks, GetReads, GetShows, Post, PostLooks, PostReads,
       PostChecks, PostStores, PostWithdraws, PostWakes, PostLeaves, <<>>}
  /\ GetWaits \notin {GetLooks, GetReads, GetShows, Post, PostLooks, PostReads, PostChecks,
       PostStores, PostWithdraws, PostWakes, PostLeaves, <<>>}
  /\ GetLooks \notin {GetReads, GetShows, Post, PostLooks, PostReads, PostChecks,
       PostStores, PostWithdraws, PostWakes, PostLeaves, <<>>}
  /\ GetReads \notin {GetShows, Post, PostLooks, PostReads, PostChecks, PostStores,
       PostWithdraws, PostWakes, PostLeaves, <<>>}
  /\ GetShows \notin {Post, PostLooks, PostReads, PostChecks, PostStores, PostWithdraws,
       PostWakes, PostLeaves, <<>>}
  /\ Post \notin {PostLooks, PostReads, PostChecks, PostStores, PostWithdraws, PostWakes,
       PostLeaves, <<>>}
  /\ PostLooks \notin {PostReads, PostChecks, PostStores, PostWithdraws, PostWakes,
       PostLeaves, <<>>}
  /\ PostReads \notin {PostChecks, PostStores, PostWithdraws, PostWakes, PostLeaves, <<>>}
  /\ PostChecks \notin {PostStores, PostWithdraws, PostWakes, PostLeaves, <<>>}
  /\ PostStores \notin {PostWithdraws, PostWakes, PostLeaves, <<>>}
  /\ PostWithdraws \notin {PostWakes, PostLeaves, <<>>}
  /\ PostWakes \notin {PostLeaves, <<>>}
  /\ PostLeaves \notin {<<>>}
  BY DEF Get, GetWaits, GetLooks, GetReads, GetShows, Post, PostLooks, PostReads, PostChecks,
     PostStores, PostWithdraws, PostWakes, PostLeaves

----------------------------------------------------------------------------
(* Steps.                                                                    *)

\* The steps of the worker change what the worker has to do, and those of a
\* request what that window has to do.
LEMMA WorkerMoves ==
  ASSUME Shape, NEW rest \in WorkerTodo, todo' = [todo EXCEPT ![Worker] = rest]
  PROVE  /\ Shape'
         /\ todo'[Worker] = rest
         /\ \A c \in Client : todo'[c] = todo[c]
  BY DialogueAssumption DEF Shape

LEMMA ClientMoves ==
  ASSUME Shape, NEW c \in Client, NEW rest \in ClientTodo, todo' = [todo EXCEPT ![c] = rest]
  PROVE  /\ Shape'
         /\ todo'[c] = rest /\ todo'[Worker] = todo[Worker]
         /\ \A d \in Client \ {c} : todo'[d] = todo[d]
  BY DialogueAssumption DEF Shape

LEMMA WorkerAt ==
  ASSUME Shape, NEW step, At(Worker, step)
  PROVE  WorkerGoesOn(step, todo[Worker], Tail(todo[Worker]))
  BY WorkerPath DEF Shape, At

\* The worker goes from one rest to the next.
LEMMA WorkerContinues ==
  ASSUME Shape, NEW step, At(Worker, step), Continue(Worker)
  PROVE  /\ Shape'
         /\ \A c \in Client : todo'[c] = todo[c]
         /\ WorkerGoesOn(step, todo[Worker], todo'[Worker])
<1>1. /\ todo[Worker] \in WorkerTodo /\ todo[Worker] # <<>>
      /\ Head(todo[Worker]) = step
      /\ todo' = [todo EXCEPT ![Worker] = Tail(todo[Worker])]
    BY DEF Shape, At, Continue
<1>2. WorkerGoesOn(step, todo[Worker], Tail(todo[Worker]))
    BY <1>1, WorkerPath
<1>3. Tail(todo[Worker]) \in WorkerTodo
    BY <1>2 DEF WorkerGoesOn, WorkerTodo, Asking
<1>. QED
    BY <1>1, <1>2, <1>3, WorkerMoves

\* And so does a request.
LEMMA ClientContinues ==
  ASSUME Shape, NEW c \in Client, NEW step, At(c, step), Continue(c)
  PROVE  /\ Shape'
         /\ todo'[Worker] = todo[Worker]
         /\ \A d \in Client \ {c} : todo'[d] = todo[d]
         /\ GetGoesOn(step, todo[c], todo'[c]) \/ PostGoesOn(step, todo[c], todo'[c])
<1>1. /\ todo[c] \in ClientTodo /\ todo[c] # <<>>
      /\ Head(todo[c]) = step
      /\ todo' = [todo EXCEPT ![c] = Tail(todo[c])]
    BY DEF Shape, At, Continue
<1>2. GetGoesOn(step, todo[c], Tail(todo[c])) \/ PostGoesOn(step, todo[c], Tail(todo[c]))
    BY <1>1, GetPath, PostPath DEF ClientTodo
<1>3. Tail(todo[c]) \in ClientTodo
    BY <1>2 DEF GetGoesOn, PostGoesOn, ClientTodo, Looking, Submitting
<1>. QED
    BY <1>1, <1>2, <1>3, ClientMoves

\* A look at the events goes on, or leaves with a page without a question.
GoesOn(c) ==
  \/ todo[c] = Get /\ todo'[c] = GetWaits
  \/ todo[c] = GetWaits /\ todo'[c] = GetLooks /\ questionReady
  \/ todo[c] = GetLooks /\ todo'[c] = GetReads /\ ~done
  \/ todo[c] = Post /\ todo'[c] = PostLooks
  \/ todo[c] = PostLooks /\ todo'[c] = PostReads
  \/ todo[c] = PostChecks /\ todo'[c] = PostStores

LEMMA LookAtEvents ==
  ASSUME Shape, NEW c \in Client, IsDone(c) \/ WaitQuestion(c) \/ ReadDone(c) \/ CheckDone(c)
  PROVE  /\ Shape' /\ todo'[Worker] = todo[Worker]
         /\ \A d \in Client \ {c} : todo'[d] = todo[d]
         /\ UNCHANGED <<events, fields, found, clickers, taken>>
         /\ \/ GoesOn(c) /\ UNCHANGED page
            \/ todo'[c] = <<>> /\ page' = [page EXCEPT ![c] = NoPage]
<1>1. UNCHANGED <<events, fields, found, clickers, taken>>
    BY DEF IsDone, WaitQuestion, ReadDone, CheckDone, Test
<1>2. CASE IF WaitQuestion(c) THEN questionReady ELSE ~done
  <2>1. PICK step :
           /\ At(c, step) /\ Continue(c) /\ UNCHANGED page
           /\ step \in {"isDone", "waitQuestion", "readDone", "checkDone"}
           /\ step = "waitQuestion" => questionReady
           /\ step = "readDone" => ~done
      BY <1>2 DEF IsDone, WaitQuestion, ReadDone, CheckDone, Test
  <2>2. /\ Shape' /\ todo'[Worker] = todo[Worker]
        /\ \A d \in Client \ {c} : todo'[d] = todo[d]
        /\ GetGoesOn(step, todo[c], todo'[c]) \/ PostGoesOn(step, todo[c], todo'[c])
      BY <2>1, ClientContinues
  <2>3. GoesOn(c)
      BY <2>1, <2>2 DEF GetGoesOn, PostGoesOn, GoesOn
  <2>. QED
      BY <1>1, <2>1, <2>2, <2>3
<1>3. CASE Leave(c) /\ ShowNothing(c)
  <2>1. <<>> \in ClientTodo
      BY DEF ClientTodo, Looking
  <2>. QED
      BY <1>1, <1>3, <2>1, ClientMoves DEF Leave, ShowNothing
<1>. QED
    BY <1>2, <1>3 DEF IsDone, WaitQuestion, ReadDone, CheckDone, Test

----------------------------------------------------------------------------
(* Types.                                                                    *)

LEMMA WorkerKeepsTypes ==
  ASSUME TypeInv, WorkerStep
  PROVE  TypeInv'
<1>. USE DEF TypeInv, events, fields, windows
<1>1. CASE StoreQuestion(Worker)
  <2>1. /\ Shape' /\ \A c \in Client : todo'[c] = todo[c]
        /\ todo[Worker] = Ask /\ todo'[Worker] = Clearing
      BY <1>1, WorkerContinues DEF StoreQuestion, WorkerGoesOn
  <2>2. /\ question' = question + 1 /\ question < MaxQuestions
        /\ UNCHANGED <<events, answer, windows, taken>>
      BY <1>1, <2>1 DEF StoreQuestion, Counted
  <2>3. Types' /\ Counted'
      BY <2>1, <2>2, DialogueAssumption, WorkerRests DEF Types, Counted
  <2>4. Stored'
      BY <2>1, <2>2, WorkerRests DEF Stored
  <2>. QED
      BY <2>1, <2>3, <2>4
<1>2. CASE \/ ClearAnswerReady(Worker) \/ SetQuestionReady(Worker) \/ WaitAnswer
           \/ ClearQuestionReady(Worker) \/ SetDone(Worker)
  <2>1. PICK step :
           /\ At(Worker, step) /\ Continue(Worker)
           /\ step \notin {"storeQuestion", "takeAnswer"}
           /\ step = "waitAnswer" => answerReady
      BY <1>2
      DEF ClearAnswerReady, SetQuestionReady, WaitAnswer, ClearQuestionReady, SetDone
  <2>2. /\ UNCHANGED <<fields, windows, taken>>
        /\ answerReady' = answerReady \/ answerReady' = FALSE
        /\ questionReady' \in {questionReady, TRUE, FALSE}
        /\ done' = done \/ done' = TRUE
      BY <1>2
      DEF ClearAnswerReady, SetQuestionReady, WaitAnswer, ClearQuestionReady, SetDone
  <2>3. /\ Shape' /\ \A c \in Client : todo'[c] = todo[c]
        /\ WorkerGoesOn(step, todo[Worker], todo'[Worker])
      BY <2>1, WorkerContinues
  <2>4. /\ todo'[Worker] \in Asking => todo[Worker] \in Asking
        /\ todo'[Worker] # Ask
        /\ todo'[Worker] \in {Withdrawing, Taking} => todo[Worker] = Withdrawing \/ answerReady
      BY <2>1, <2>3, WorkerRests DEF WorkerGoesOn, Asking
  <2>5. Types' /\ Counted'
      BY <2>2, <2>4 DEF Types, Counted
  <2>6. Stored'
      BY <2>2, <2>3, <2>4 DEF Stored
  <2>. QED
      BY <2>3, <2>5, <2>6
<1>3. CASE TakeAnswer
  <2>1. todo[Worker] = Taking
      BY <1>3, WorkerPath DEF TakeAnswer, At, Shape, WorkerGoesOn
  <2>2. /\ Shape' /\ \A c \in Client : todo'[c] = todo[c]
        /\ todo'[Worker] \in {<<>>, Finish}
    <3>1. \/ At(Worker, "takeAnswer") /\ Continue(Worker)
          \/ todo' = [todo EXCEPT ![Worker] = Finish]
        BY <1>3 DEF TakeAnswer
    <3>2. Finish \in WorkerTodo
        BY DEF WorkerTodo
    <3>. QED
        BY <3>1, <3>2, WorkerContinues, WorkerMoves DEF WorkerGoesOn
  <2>3. /\ UNCHANGED <<events, fields, windows>>
        /\ taken' = taken \/ taken' = Append(taken, answer)
      BY <1>3 DEF TakeAnswer
  <2>4. /\ taken' \in Seq(Answers) /\ Len(taken') <= question
        /\ todo'[Worker] \notin Asking /\ todo'[Worker] # Ask
    <3>1. Len(taken) < question
        BY <2>1 DEF Counted, Asking
    <3>2. todo'[Worker] \notin Asking /\ todo'[Worker] # Ask
        BY <2>2, WorkerRests DEF Asking
    <3>3. taken' \in Seq(Answers) /\ Len(taken') <= Len(taken) + 1
        BY <2>3 DEF Types
    <3>. QED
        BY <3>1, <3>2, <3>3 DEF Types
  <2>5. Types' /\ Counted'
      BY <2>3, <2>4 DEF Types, Counted
  <2>6. Stored'
      BY <2>2, <2>3, WorkerRests DEF Stored
  <2>. QED
      BY <2>2, <2>5, <2>6
<1>4. CASE RunEngine
  <2>1. PICK rest \in {Ask, Finish} :
           /\ todo' = [todo EXCEPT ![Worker] = rest]
           /\ rest = Ask => question < MaxQuestions
      BY <1>4 DEF RunEngine
  <2>2. /\ Shape' /\ todo'[Worker] = rest
        /\ \A c \in Client : todo'[c] = todo[c]
    <3>1. rest \in WorkerTodo
        BY DEF WorkerTodo
    <3>. QED
        BY <2>1, <3>1, WorkerMoves
  <2>3. UNCHANGED <<events, fields, windows, taken>>
      BY <1>4 DEF RunEngine
  <2>4. Types' /\ Counted'
    <3>1. todo'[Worker] \notin Asking /\ (todo'[Worker] = Ask => question < MaxQuestions)
        BY <2>1, <2>2, WorkerRests DEF Asking
    <3>. QED
        BY <2>3, <3>1 DEF Types, Counted
  <2>5. Stored'
      BY <2>1, <2>2, <2>3, WorkerRests DEF Stored
  <2>. QED
      BY <2>2, <2>4, <2>5
<1>. QED
    BY <1>1, <1>2, <1>3, <1>4 DEF WorkerStep

LEMMA ClientKeepsTypes ==
  ASSUME TypeInv, NEW c \in Client, Look(c) \/ Click(c) \/ RequestStep(c)
  PROVE  TypeInv'
<1>. USE DEF TypeInv, events, fields, windows
<1>1. UNCHANGED <<done, question, taken>>
    BY DEF Look, Click, RequestStep, IsDone, WaitQuestion, ReadDone, CheckDone, Test, ReadQuestion,
       Show, StoreAnswer, ClearQuestionReady, SetAnswerReady, Redirect
<1>2. ASSUME Shape', todo'[Worker] = todo[Worker], Types', Stored'
      PROVE  TypeInv'
    BY <1>1, <1>2 DEF Counted
<1>3. CASE Look(c) \/ Click(c)
  <2>1. /\ UNCHANGED <<questionReady, answerReady, answer, page, found>>
        /\ clickers' = clickers \/ clickers' = clickers \cup {c}
      BY <1>3 DEF Look, Click
  <2>2. PICK rest \in ClientTodo :
           /\ todo' = [todo EXCEPT ![c] = rest]
           /\ rest = Post => page[c] # NoPage
           /\ rest \in {Get, Post}
    <3>1. Get \in ClientTodo /\ Post \in ClientTodo /\ Get # Post
        BY ClientRests DEF ClientTodo, Looking, Submitting
    <3>2. CASE Look(c)
        BY <3>1, <3>2 DEF Look
    <3>3. CASE Click(c)
        BY <3>1, <3>3 DEF Click
    <3>. QED
        BY <1>3, <3>2, <3>3
  <2>3. /\ Shape' /\ todo'[c] = rest /\ todo'[Worker] = todo[Worker]
        /\ \A d \in Client \ {c} : todo'[d] = todo[d]
      BY <2>2, ClientMoves
  <2>4. Types'
    <3>1. IsFiniteSet(clickers \cup {c})
        BY FS_AddElement DEF Types
    <3>. QED
        BY <1>1, <2>1, <3>1 DEF Types
  <2>5. Stored'
      BY <2>1, <2>2, <2>3, ClientRests DEF Stored, Submitting
  <2>. QED
      BY <1>2, <2>3, <2>4, <2>5
<1>4. CASE IsDone(c) \/ WaitQuestion(c) \/ ReadDone(c) \/ CheckDone(c)
  <2>1. /\ Shape' /\ todo'[Worker] = todo[Worker]
        /\ \A d \in Client \ {c} : todo'[d] = todo[d]
        /\ UNCHANGED <<events, fields, found, clickers, taken>>
        /\ \/ GoesOn(c) /\ UNCHANGED page
           \/ todo'[c] = <<>> /\ page' = [page EXCEPT ![c] = NoPage]
      BY <1>4, LookAtEvents
  <2>2. Types'
      BY <2>1, DialogueAssumption DEF Types, NoPage
  <2>3. /\ todo'[c] \in Submitting => todo[c] \in Submitting /\ UNCHANGED page
        /\ todo'[c] \notin {PostWithdraws, PostWakes}
        /\ \A d \in Client \ {c} : page'[d] = page[d]
      BY <2>1, ClientRests DEF GoesOn, Submitting, Types
  <2>4. Stored'
      BY <2>1, <2>3 DEF Stored
  <2>. QED
      BY <1>2, <2>1, <2>2, <2>4
<1>5. CASE ReadQuestion(c) \/ Show(c) \/ Redirect(c)
  <2>1. PICK step : /\ At(c, step) /\ Continue(c)
                    /\ step \in {"readQuestion", "show", "redirect"}
                    /\ step = "readQuestion" => UNCHANGED page
      BY <1>5 DEF ReadQuestion, Show, Redirect
  <2>2. /\ Shape' /\ todo'[Worker] = todo[Worker]
        /\ \A d \in Client \ {c} : todo'[d] = todo[d]
        /\ GetGoesOn(step, todo[c], todo'[c]) \/ PostGoesOn(step, todo[c], todo'[c])
      BY <2>1, ClientContinues
  <2>3. UNCHANGED <<questionReady, answerReady, answer, clickers>>
      BY <1>5 DEF ReadQuestion, Show, Redirect
  <2>4. /\ page' \in [Client -> 0 .. MaxQuestions]
        /\ \A d \in Client \ {c} : page'[d] = page[d]
      BY <1>5, DialogueAssumption DEF ReadQuestion, Show, Redirect, ShowNothing, NoPage, Types
  <2>5. found' \in [Client -> 0 .. MaxQuestions]
      BY <1>5 DEF ReadQuestion, Show, Redirect, Types
  <2>6. Types'
      BY <1>1, <2>3, <2>4, <2>5 DEF Types
  <2>7. /\ todo'[c] \in Submitting => todo[c] \in Submitting /\ UNCHANGED page
        /\ todo'[c] \notin {PostWithdraws, PostWakes}
      BY <2>1, <2>2, ClientRests DEF GetGoesOn, PostGoesOn, Submitting
  <2>8. Stored'
      BY <2>2, <2>3, <2>4, <2>7 DEF Stored
  <2>. QED
      BY <1>2, <2>2, <2>6, <2>8
<1>6. CASE StoreAnswer(c)
  <2>1. /\ Shape' /\ todo'[Worker] = todo[Worker]
        /\ \A d \in Client \ {c} : todo'[d] = todo[d]
        /\ todo[c] = PostStores /\ todo'[c] = PostWithdraws
      BY <1>6, ClientContinues DEF StoreAnswer, GetGoesOn, PostGoesOn
  <2>2. /\ UNCHANGED <<questionReady, answerReady, page, found, clickers>>
        /\ answer' = [shown |-> page[c], polled |-> found[c]]
      BY <1>6 DEF StoreAnswer, Answer
  <2>3. Types'
      BY <1>1, <2>2 DEF Types, Answers
  <2>4. answer'.shown # NoPage /\ page[c] # NoPage
      BY <2>1, <2>2 DEF Stored, Submitting
  <2>5. Stored'
      BY <2>1, <2>2, <2>4 DEF Stored
  <2>. QED
      BY <1>2, <2>1, <2>3, <2>5
<1>7. CASE ClearQuestionReady(c) \/ SetAnswerReady(c)
  <2>1. PICK step \in {"clearQuestion", "setAnswer"} : At(c, step) /\ Continue(c)
      BY <1>7 DEF ClearQuestionReady, SetAnswerReady
  <2>2. /\ Shape' /\ todo'[Worker] = todo[Worker]
        /\ \A d \in Client \ {c} : todo'[d] = todo[d]
        /\ \/ todo[c] = PostWithdraws /\ todo'[c] = PostWakes
           \/ todo[c] = PostWakes /\ todo'[c] = PostLeaves
      BY <2>1, ClientContinues DEF GetGoesOn, PostGoesOn
  <2>3. /\ UNCHANGED <<answer, page, found, clickers>>
        /\ questionReady' \in {questionReady, FALSE} /\ answerReady' \in {answerReady, TRUE}
      BY <1>7 DEF ClearQuestionReady, SetAnswerReady
  <2>4. Types'
      BY <1>1, <2>3 DEF Types
  <2>5. answer.shown # NoPage /\ page[c] # NoPage
      BY <2>2 DEF Stored, Submitting
  <2>6. Stored'
      BY <2>2, <2>3, <2>5, ClientRests DEF Stored, Submitting
  <2>. QED
      BY <1>2, <2>2, <2>4, <2>6
<1>. QED
    BY <1>3, <1>4, <1>5, <1>6, <1>7 DEF RequestStep

\* What every thread has still to do, and what the fields then hold.
THEOREM TypeInvariant == Spec => []TypeInv
<1>1. Init => TypeInv
  <2>. SUFFICES ASSUME Init
                PROVE  TypeInv
      OBVIOUS
  <2>1. /\ todo \in [Client \cup {Worker} -> WorkerTodo \cup ClientTodo]
        /\ todo[Worker] = <<>> /\ \A c \in Client : todo[c] = <<>>
        /\ <<>> \in WorkerTodo /\ <<>> \in ClientTodo
      BY DEF Init, WorkerTodo, ClientTodo, Looking
  <2>2. Types
    <3>1. 0 \in 0 .. MaxQuestions
        BY DialogueAssumption
    <3>2. /\ answer \in Answers /\ question \in 0 .. MaxQuestions
          /\ page \in [Client -> 0 .. MaxQuestions] /\ found \in [Client -> 0 .. MaxQuestions]
        BY <3>1 DEF Init, Answers, Answer, NoPage
    <3>3. taken \in Seq(Answers)
        BY DEF Init
    <3>4. clickers \subseteq Client /\ IsFiniteSet(clickers)
        BY FS_EmptySet DEF Init
    <3>5. questionReady \in BOOLEAN /\ answerReady \in BOOLEAN /\ done \in BOOLEAN
        BY Zenon DEF Init
    <3>. QED
        BY <3>2, <3>3, <3>4, <3>5 DEF Types
  <2>3. <<>> \notin Asking /\ <<>> # Ask /\ <<>> \notin Submitting
      BY WorkerRests, ClientRests DEF Asking, Submitting
  <2>4. Len(taken) = 0 /\ question = 0 /\ ~answerReady
      BY DEF Init
  <2>5. <<>> \notin {Withdrawing, Taking} /\ <<>> \notin {PostWithdraws, PostWakes}
      BY <2>3 DEF Asking, Submitting
  <2>6. Shape /\ Counted
      BY <2>1, <2>3, <2>4 DEF Shape, Counted
  <2>7. Stored
      BY <2>1, <2>3, <2>4, <2>5 DEF Stored
  <2>. QED
      BY <2>2, <2>6, <2>7 DEF TypeInv
<1>2. TypeInv /\ [Next]_vars => TypeInv'
  <2>. SUFFICES ASSUME TypeInv, [Next]_vars
                PROVE  TypeInv'
      OBVIOUS
  <2>1. CASE UNCHANGED vars
      BY <2>1 DEF vars, events, fields, windows, TypeInv, Shape, Types, Counted, Stored
  <2>. QED
      BY <2>1, WorkerKeepsTypes, ClientKeepsTypes DEF Next
<1>. QED
    BY <1>1, <1>2, PTL DEF Spec

\* bridge.py:67: the engine never goes on without an answer, and it never
\* has more answers than it has asked questions, for any number of windows
\* and questions.
THEOREM TypesHold == Spec => []TypeOK
<1>1. TypeInv => TypeOK
  <2>. SUFFICES ASSUME TypeInv
                PROVE  TypeOK
      OBVIOUS
  <2>1. At(Worker, "takeAnswer") => answer # Answer(NoPage, 0)
    <3>. SUFFICES ASSUME At(Worker, "takeAnswer")
                  PROVE  answer # Answer(NoPage, 0)
        OBVIOUS
    <3>1. todo[Worker] = Taking
        BY WorkerAt DEF TypeInv, WorkerGoesOn
    <3>. QED
        BY <3>1 DEF TypeInv, Stored, Answer
  <2>. QED
      BY <2>1 DEF TypeInv, Types, Counted, Answers, TypeOK
<1>. QED
    BY <1>1, TypeInvariant, PTL

----------------------------------------------------------------------------
(* Nobody waits for ever.                                                    *)

\* The two places where the order of a thread's steps matters: the worker
\* waits right after it has announced its question, and an answer that has
\* withdrawn the question wakes the worker next.
LEMMA Waits ==
  /\ \A s \in WorkerTodo : s # <<>> /\ Head(s) = "waitAnswer" <=> s = Waiting
  /\ \A s \in ClientTodo : s # <<>> /\ Head(s) = "setAnswer" <=> s = PostWakes
<1>1. ASSUME NEW s \in WorkerTodo, s # <<>>, Head(s) = "waitAnswer"
      PROVE  s = Waiting
    BY <1>1, WorkerPath DEF WorkerGoesOn
<1>2. ASSUME NEW s \in ClientTodo, s # <<>>, Head(s) = "setAnswer"
      PROVE  s = PostWakes
    BY <1>2, GetPath, PostPath DEF ClientTodo, GetGoesOn, PostGoesOn
<1>3. /\ Waiting # <<>> /\ Head(Waiting) = "waitAnswer"
      /\ PostWakes # <<>> /\ Head(PostWakes) = "setAnswer"
    BY DEF Waiting, PostWakes
<1>. QED
    BY <1>1, <1>2, <1>3

\* A worker that has just come to wait has just announced its question.
LEMMA WorkerKeepsAwake ==
  ASSUME Shape, NoLostWakeup, WorkerStep
  PROVE  NoLostWakeup'
<1>1. CASE TakeAnswer \/ RunEngine
  <2>1. \/ At(Worker, "takeAnswer") /\ Continue(Worker)
        \/ \E rest \in {Ask, Finish} : todo' = [todo EXCEPT ![Worker] = rest]
      BY <1>1 DEF TakeAnswer, RunEngine
  <2>2. Ask \in WorkerTodo /\ Finish \in WorkerTodo
      BY DEF WorkerTodo
  <2>3. Shape' /\ todo'[Worker] # Waiting
      BY <2>1, <2>2, WorkerContinues, WorkerMoves, WorkerRests DEF WorkerGoesOn
  <2>4. At(Worker, "waitAnswer")' => todo'[Worker] = Waiting
      BY <2>3, Waits DEF At, Shape
  <2>. QED
      BY <2>3, <2>4 DEF NoLostWakeup
<1>2. ASSUME NEW step, At(Worker, step), Continue(Worker), step = "setQuestion" => questionReady'
      PROVE  NoLostWakeup'
  <2>1. Shape' /\ WorkerGoesOn(step, todo[Worker], todo'[Worker])
      BY <1>2, WorkerContinues
  <2>2. todo'[Worker] = Waiting => questionReady'
      BY <1>2, <2>1, WorkerRests DEF WorkerGoesOn
  <2>3. At(Worker, "waitAnswer")' => todo'[Worker] = Waiting
      BY <2>1, Waits DEF At, Shape
  <2>. QED
      BY <2>2, <2>3 DEF NoLostWakeup
<1>. QED
    BY <1>1, <1>2
    DEF WorkerStep, StoreQuestion, ClearAnswerReady, SetQuestionReady, WaitAnswer,
        ClearQuestionReady, SetDone

\* A window withdraws the question only on its way to wake the worker.
LEMMA ClientKeepsAwake ==
  ASSUME Shape, Shape', NoLostWakeup, NEW c \in Client, Look(c) \/ Click(c) \/ RequestStep(c)
  PROVE  NoLostWakeup'
<1>1. /\ todo'[Worker] = todo[Worker]
      /\ \A d \in Client \ {c} : todo'[d] = todo[d]
    BY DialogueAssumption
    DEF Look, Click, RequestStep, IsDone, WaitQuestion, ReadDone, CheckDone, Test, ReadQuestion,
        Show, StoreAnswer, ClearQuestionReady, SetAnswerReady, Redirect, Continue, Leave, Shape
<1>2. SUFFICES ASSUME At(Worker, "waitAnswer"), ~answerReady'
               PROVE  questionReady' \/ \E d \in Client : At(d, "setAnswer")'
    BY <1>1 DEF NoLostWakeup, At
<1>3. CASE SetAnswerReady(c)
    BY <1>2, <1>3 DEF SetAnswerReady
<1>4. CASE ClearQuestionReady(c)
  <2>1. todo'[c] = PostWakes
      BY <1>4, ClientContinues DEF ClearQuestionReady, GetGoesOn, PostGoesOn
  <2>. QED
      BY <2>1, Waits DEF At, Shape
<1>5. CASE ~SetAnswerReady(c) /\ ~ClearQuestionReady(c)
  <2>1. UNCHANGED <<questionReady, answerReady>> /\ ~At(c, "setAnswer")
      BY <1>5 DEF Look, Click, RequestStep, IsDone, WaitQuestion, ReadDone, CheckDone, Test,
           ReadQuestion, Show, StoreAnswer, Redirect, At, events
  <2>2. questionReady \/ \E d \in Client \ {c} : At(d, "setAnswer")
      BY <1>2, <2>1 DEF NoLostWakeup
  <2>. QED
      BY <1>1, <2>1, <2>2 DEF At
<1>. QED
    BY <1>3, <1>4, <1>5

\* With any number of windows a worker that waits has its question on offer or
\* an answer on the way (bridge.py: ask and submit_answer).
THEOREM NeverBothWait == Spec => []NoLostWakeup
<1>1. Init => NoLostWakeup
    BY DialogueAssumption DEF Init, NoLostWakeup, At
<1>2. TypeInv /\ TypeInv' /\ NoLostWakeup /\ [Next]_vars => NoLostWakeup'
  <2>. SUFFICES ASSUME TypeInv, TypeInv', NoLostWakeup, [Next]_vars
                PROVE  NoLostWakeup'
      OBVIOUS
  <2>1. CASE UNCHANGED vars
      BY <2>1 DEF vars, events, NoLostWakeup, At
  <2>. QED
      BY <2>1, WorkerKeepsAwake, ClientKeepsAwake DEF Next, TypeInv
<1>. QED
    BY <1>1, <1>2, TypeInvariant, PTL DEF Spec

----------------------------------------------------------------------------
(* One window answers.                                                       *)

\* Nothing the worker does is possible while its question can be answered.
LEMMA WorkerStaysPut ==
  ASSUME Shape, WorkerStep
  PROVE  ~Offered
<1>. SUFFICES ASSUME Offered
              PROVE  FALSE
    OBVIOUS
<1>1. PICK step : At(Worker, step) /\ step # "waitAnswer"
    BY WorkerRests
    DEF Offered, WorkerStep, StoreQuestion, ClearAnswerReady, SetQuestionReady, WaitAnswer,
        ClearQuestionReady, SetDone, TakeAnswer, RunEngine
<1>. QED
    BY <1>1, WorkerAt, WorkerRests DEF Offered, WorkerGoesOn

\* When the worker moves, the window that answers shows no question.
LEMMA WorkerKeepsWindow ==
  ASSUME TypeInv, NEW c \in Client, WindowInStep(c), WorkerStep, todo'[c] = todo[c]
  PROVE  WindowInStep(c)'
<1>1. ~Offered
    BY WorkerStaysPut DEF TypeInv
<1>2. /\ UNCHANGED <<page, found>>
      /\ done => done'
    BY DEF WorkerStep, StoreQuestion, ClearAnswerReady, SetQuestionReady, WaitAnswer,
           ClearQuestionReady, SetDone, TakeAnswer, RunEngine, events, windows
<1>3. page[c] = NoPage \/ todo[c] = PostLeaves
    BY <1>1 DEF WindowInStep
<1>4. todo[c] \notin Submitting /\ todo[c] \notin {GetReads, GetShows}
    BY <1>1, <1>3, ClientRests DEF WindowInStep, TypeInv, Stored, Submitting
<1>5. todo[c] = GetLooks => done
    BY <1>1 DEF WindowInStep
<1>. QED
    BY <1>2, <1>3, <1>4, <1>5, ClientRests DEF WindowInStep, Submitting

LEMMA WorkerKeepsWorker ==
  ASSUME TypeInv, WorkerInStep, WorkerStep
  PROVE  WorkerInStep'
<1>. USE DEF events, fields, windows
<1>1. ASSUME NEW step, At(Worker, step), Continue(Worker)
      PROVE  WorkerGoesOn(step, todo[Worker], todo'[Worker])
    BY <1>1, WorkerContinues DEF TypeInv
<1>2. CASE StoreQuestion(Worker)
  <2>1. todo[Worker] = Ask /\ todo'[Worker] = Clearing
      BY <1>1, <1>2 DEF StoreQuestion, WorkerGoesOn
  <2>2. question' = question + 1 /\ UNCHANGED <<events, answer, taken>>
      BY <1>2 DEF StoreQuestion
  <2>3. Len(taken') = question' - 1 /\ todo'[Worker] \in Asking
      BY <2>1, <2>2, WorkerRests DEF WorkerInStep, Asking, TypeInv, Types
  <2>. QED
      BY <2>1, <2>2, <2>3, WorkerRests DEF WorkerInStep
<1>3. CASE ClearAnswerReady(Worker)
  <2>1. todo[Worker] = Clearing /\ todo'[Worker] = Announcing
      BY <1>1, <1>3 DEF ClearAnswerReady, WorkerGoesOn
  <2>2. ~answerReady' /\ UNCHANGED <<questionReady, done, fields, taken>>
      BY <1>3 DEF ClearAnswerReady
  <2>. QED
      BY <2>1, <2>2, WorkerRests DEF WorkerInStep, Asking
<1>4. CASE SetQuestionReady(Worker)
  <2>1. \/ todo[Worker] = Announcing /\ todo'[Worker] = Waiting
        \/ todo[Worker] = Waking /\ todo'[Worker] = <<>>
      BY <1>1, <1>4 DEF SetQuestionReady, WorkerGoesOn
  <2>2. UNCHANGED <<answerReady, done, fields, taken>>
      BY <1>4 DEF SetQuestionReady
  <2>. QED
      BY <2>1, <2>2, WorkerRests DEF WorkerInStep, Asking
<1>5. CASE WaitAnswer
  <2>1. todo[Worker] = Waiting /\ todo'[Worker] = Withdrawing
      BY <1>1, <1>5 DEF WaitAnswer, WorkerGoesOn
  <2>2. answerReady /\ UNCHANGED <<events, fields, taken>>
      BY <1>5 DEF WaitAnswer
  <2>. QED
      BY <2>1, <2>2, WorkerRests DEF WorkerInStep, Asking
<1>6. CASE ClearQuestionReady(Worker)
  <2>1. todo[Worker] = Withdrawing /\ todo'[Worker] = Taking
      BY <1>1, <1>6 DEF ClearQuestionReady, WorkerGoesOn
  <2>2. ~questionReady' /\ UNCHANGED <<answerReady, done, fields, taken>>
      BY <1>6 DEF ClearQuestionReady
  <2>. QED
      BY <2>1, <2>2, WorkerRests DEF WorkerInStep, Asking
<1>7. CASE TakeAnswer
  <2>1. todo[Worker] = Taking
      BY <1>7, WorkerAt DEF TakeAnswer, TypeInv, WorkerGoesOn
  <2>2. answer = Answer(question, question) /\ Len(taken) = question - 1
      BY <2>1 DEF WorkerInStep, Asking
  <2>3. taken' = Append(taken, answer) /\ Continue(Worker) /\ UNCHANGED <<events, fields>>
      BY <1>7, <2>2 DEF TakeAnswer, Answer
  <2>4. todo'[Worker] = <<>>
      BY <1>1, <1>7, <2>1, <2>3, WorkerRests DEF TakeAnswer, WorkerGoesOn
  <2>5. /\ Len(taken') = question
        /\ \A i \in DOMAIN taken' : taken'[i] = Answer(i, i)
      BY <2>2, <2>3 DEF WorkerInStep, TypeInv, Types
  <2>. QED
      BY <2>1, <2>3, <2>4, <2>5, WorkerRests DEF WorkerInStep, Asking
<1>8. CASE RunEngine
  <2>1. todo[Worker] = <<>> /\ ~done /\ todo'[Worker] \in {Ask, Finish}
      BY <1>8 DEF RunEngine, TypeInv, Shape
  <2>2. UNCHANGED <<events, fields, taken>>
      BY <1>8 DEF RunEngine
  <2>. QED
      BY <2>1, <2>2, WorkerRests DEF WorkerInStep, Asking
<1>9. CASE SetDone(Worker)
  <2>1. todo[Worker] = Finish /\ todo'[Worker] = Waking
      BY <1>1, <1>9 DEF SetDone, WorkerGoesOn
  <2>2. done' /\ UNCHANGED <<questionReady, answerReady, fields, taken>>
      BY <1>9 DEF SetDone
  <2>. QED
      BY <2>1, <2>2, WorkerRests DEF WorkerInStep, Asking
<1>. QED
    BY <1>2, <1>3, <1>4, <1>5, <1>6, <1>7, <1>8, <1>9 DEF WorkerStep

\* A window that has not answered anything only reads.
LEMMA LookerKeeps ==
  ASSUME TypeInv, NEW c \in Client, Look(c) \/ Click(c) \/ RequestStep(c),
         todo[c] \in Looking, c \notin clickers'
  PROVE  /\ UNCHANGED <<events, fields, clickers, taken>>
         /\ todo'[Worker] = todo[Worker] /\ todo'[c] \in Looking
         /\ \A d \in Client \ {c} : todo'[d] = todo[d] /\ page'[d] = page[d] /\ found'[d] = found[d]
<1>. USE DEF events, fields, windows
<1>1. Shape /\ ~Click(c)
    BY DEF TypeInv, Click
<1>2. CASE Look(c)
    BY <1>1, <1>2, ClientMoves DEF Look, ClientTodo, Looking
<1>3. CASE IsDone(c) \/ WaitQuestion(c) \/ ReadDone(c) \/ CheckDone(c)
  <2>1. /\ todo'[Worker] = todo[Worker]
        /\ \A d \in Client \ {c} : todo'[d] = todo[d]
        /\ UNCHANGED <<events, fields, found, clickers, taken>>
        /\ \/ GoesOn(c) /\ UNCHANGED page
           \/ todo'[c] = <<>> /\ page' = [page EXCEPT ![c] = NoPage]
      BY <1>1, <1>3, LookAtEvents
  <2>2. todo'[c] \in Looking
      BY <2>1, ClientRests DEF GoesOn, Looking
  <2>3. \A d \in Client \ {c} : page'[d] = page[d]
      BY <2>1 DEF TypeInv, Types
  <2>. QED
      BY <2>1, <2>2, <2>3
<1>4. ASSUME NEW step, At(c, step), Continue(c)
      PROVE  /\ todo'[Worker] = todo[Worker] /\ todo'[c] \in Looking
             /\ step \notin {"storeAnswer", "clearQuestion", "setAnswer", "redirect"}
             /\ \A d \in Client \ {c} : todo'[d] = todo[d]
    BY <1>1, <1>4, ClientContinues, ClientRests DEF GetGoesOn, PostGoesOn, Looking
<1>5. CASE ReadQuestion(c) \/ Show(c)
  <2>1. /\ UNCHANGED <<events, fields, clickers, taken>>
        /\ \A d \in Client \ {c} : page'[d] = page[d] /\ found'[d] = found[d]
      BY <1>5 DEF ReadQuestion, Show, TypeInv, Types
  <2>. QED
      BY <1>4, <1>5, <2>1 DEF ReadQuestion, Show
<1>6. CASE StoreAnswer(c) \/ ClearQuestionReady(c) \/ SetAnswerReady(c) \/ Redirect(c)
    BY <1>4, <1>6 DEF StoreAnswer, ClearQuestionReady, SetAnswerReady, Redirect
<1>. QED
    BY <1>1, <1>2, <1>3, <1>5, <1>6 DEF RequestStep

\* The window that answers: it shows a question only while the question can
\* be answered, and what it stores is the answer to that question.
LEMMA ClickerKeeps ==
  ASSUME TypeInv, WorkerInStep, NEW c \in Client, WindowInStep(c),
         Look(c) \/ Click(c) \/ RequestStep(c)
  PROVE  WorkerInStep' /\ WindowInStep(c)'
<1>. USE DEF events, fields, windows
<1>1. Shape /\ UNCHANGED <<question, done, taken>> /\ todo'[Worker] = todo[Worker]
    BY DialogueAssumption
    DEF Look, Click, RequestStep, IsDone, WaitQuestion, ReadDone, CheckDone, Test, ReadQuestion,
        Show, StoreAnswer, ClearQuestionReady, SetAnswerReady, Redirect, Continue, Leave, TypeInv,
        Shape
<1>2. todo[c] \in Submitting => Offered /\ page[c] = question
    BY <1>1, ClientRests DEF TypeInv, Stored, Submitting, WindowInStep
<1>3. ASSUME UNCHANGED <<questionReady, answerReady, answer>>
      PROVE  WorkerInStep' /\ (Offered => Offered')
    BY <1>1, <1>3 DEF WorkerInStep, Offered
<1>4. ASSUME NEW step, At(c, step), Continue(c)
      PROVE  GetGoesOn(step, todo[c], todo'[c]) \/ PostGoesOn(step, todo[c], todo'[c])
    BY <1>1, <1>4, ClientContinues
<1>5. CASE Look(c) \/ Click(c)
  <2>1. /\ UNCHANGED <<questionReady, answerReady, answer, page, found>>
        /\ todo[c] = <<>> /\ todo'[c] \in {Get, Post}
      BY <1>1, <1>5 DEF Look, Click, Shape
  <2>. QED
      BY <1>1, <1>3, <2>1, ClientRests DEF WindowInStep
<1>6. CASE IsDone(c) \/ WaitQuestion(c) \/ ReadDone(c) \/ CheckDone(c)
  <2>1. /\ UNCHANGED <<events, fields, found, clickers, taken>>
        /\ \/ GoesOn(c) /\ UNCHANGED page
           \/ todo'[c] = <<>> /\ page' = [page EXCEPT ![c] = NoPage]
      BY <1>1, <1>6, LookAtEvents
  <2>2. CASE GoesOn(c) /\ UNCHANGED page
    <3>1. todo[c] # PostLeaves /\ (questionReady => done \/ Offered)
        BY <2>2, ClientRests DEF GoesOn, WorkerInStep, Offered
    <3>2. todo'[c] = PostStores => found[c] = question
        BY <2>2, ClientRests DEF GoesOn, WindowInStep
    <3>. QED
        BY <1>1, <1>3, <2>1, <2>2, <3>1, <3>2, ClientRests DEF GoesOn, WindowInStep
  <2>3. CASE todo'[c] = <<>> /\ page' = [page EXCEPT ![c] = NoPage]
    <3>1. page'[c] = NoPage
        BY <2>3 DEF TypeInv, Types
    <3>. QED
        BY <1>1, <1>3, <2>1, <2>3, <3>1, ClientRests DEF WindowInStep
  <2>. QED
      BY <2>1, <2>2, <2>3
<1>7. CASE ReadQuestion(c)
  <2>1. /\ UNCHANGED <<questionReady, answerReady, answer, page>>
        /\ found'[c] = question
      BY <1>7 DEF ReadQuestion, TypeInv, Types
  <2>2. \/ todo[c] = GetReads /\ todo'[c] = GetShows
        \/ todo[c] = PostReads /\ todo'[c] = PostChecks
      BY <1>4, <1>7 DEF ReadQuestion, GetGoesOn, PostGoesOn
  <2>. QED
      BY <1>1, <1>3, <2>1, <2>2, ClientRests DEF WindowInStep
<1>8. CASE Show(c)
  <2>1. todo[c] = GetShows /\ todo'[c] = <<>>
      BY <1>4, <1>8 DEF Show, GetGoesOn, PostGoesOn
  <2>2. /\ UNCHANGED <<questionReady, answerReady, answer, found>>
        /\ page'[c] = question
      BY <1>8, <2>1 DEF Show, TypeInv, Types, WindowInStep
  <2>. QED
      BY <1>1, <1>3, <2>1, <2>2, ClientRests DEF WindowInStep
<1>9. CASE Redirect(c)
  <2>1. todo'[c] = <<>>
      BY <1>4, <1>9 DEF Redirect, GetGoesOn, PostGoesOn
  <2>2. /\ UNCHANGED <<questionReady, answerReady, answer, found>>
        /\ page'[c] = NoPage
      BY <1>9 DEF Redirect, ShowNothing, TypeInv, Types
  <2>. QED
      BY <1>1, <1>3, <2>1, <2>2, ClientRests DEF WindowInStep
<1>10. CASE StoreAnswer(c)
  <2>1. todo[c] = PostStores /\ todo'[c] = PostWithdraws
      BY <1>4, <1>10 DEF StoreAnswer, GetGoesOn, PostGoesOn
  <2>2. Offered /\ page[c] = question /\ found[c] = question
      BY <1>2, <2>1 DEF Submitting, WindowInStep
  <2>3. /\ UNCHANGED <<questionReady, answerReady, page, found>>
        /\ answer' = Answer(question, question)
      BY <1>10, <2>2 DEF StoreAnswer
  <2>4. WorkerInStep' /\ Offered'
      BY <1>1, <2>2, <2>3, WorkerRests DEF WorkerInStep, Offered
  <2>. QED
      BY <1>1, <2>1, <2>2, <2>3, <2>4, ClientRests DEF WindowInStep
<1>11. CASE ClearQuestionReady(c)
  <2>1. todo[c] = PostWithdraws /\ todo'[c] = PostWakes
      BY <1>4, <1>11 DEF ClearQuestionReady, GetGoesOn, PostGoesOn
  <2>2. ~questionReady' /\ UNCHANGED <<answerReady, answer, page, found>>
      BY <1>11 DEF ClearQuestionReady
  <2>3. Offered /\ page[c] = question /\ answer = Answer(question, question)
      BY <1>2, <2>1 DEF Submitting, WindowInStep
  <2>4. WorkerInStep' /\ Offered'
      BY <1>1, <2>2, <2>3 DEF WorkerInStep, Offered
  <2>. QED
      BY <1>1, <2>1, <2>2, <2>3, <2>4, ClientRests DEF WindowInStep
<1>12. CASE SetAnswerReady(c)
  <2>1. todo[c] = PostWakes /\ todo'[c] = PostLeaves
      BY <1>4, <1>12 DEF SetAnswerReady, GetGoesOn, PostGoesOn
  <2>2. answerReady' /\ UNCHANGED <<questionReady, answer, page, found>>
      BY <1>12 DEF SetAnswerReady
  <2>3. Offered /\ answer = Answer(question, question) /\ ~questionReady
      BY <1>2, <2>1 DEF Submitting, WindowInStep
  <2>4. WorkerInStep'
      BY <1>1, <2>2, <2>3, WorkerRests DEF WorkerInStep, Offered
  <2>. QED
      BY <2>1, <2>4, ClientRests DEF WindowInStep
<1>. QED
    BY <1>5, <1>6, <1>7, <1>8, <1>9, <1>10, <1>11, <1>12 DEF RequestStep

LEMMA InStepStep ==
  ASSUME TypeInv, InStep, [Next]_vars
  PROVE  InStep'
<1>. USE DEF events, fields, windows
<1>1. CASE UNCHANGED vars
    BY <1>1
    DEF vars, InStep, LookersLook, OneClicker, WorkerInStep, WindowInStep, Offered
<1>2. CASE WorkerStep
  <2>1. UNCHANGED <<page, found, clickers>>
      BY <1>2
      DEF WorkerStep, StoreQuestion, ClearAnswerReady, SetQuestionReady, WaitAnswer,
          ClearQuestionReady, SetDone, TakeAnswer, RunEngine
  <2>2. \A c \in Client : todo'[c] = todo[c]
      BY <1>2, DialogueAssumption
      DEF WorkerStep, StoreQuestion, ClearAnswerReady, SetQuestionReady, WaitAnswer,
          ClearQuestionReady, SetDone, TakeAnswer, RunEngine, Continue, TypeInv, Shape
  <2>3. LookersLook'
      BY <2>1, <2>2 DEF InStep, LookersLook
  <2>4. OneClicker' => WorkerInStep'
      BY <1>2, <2>1, WorkerKeepsWorker DEF InStep, OneClicker
  <2>5. \A c \in Client : clickers' \subseteq {c} => WindowInStep(c)'
      BY <1>2, <2>1, <2>2, WorkerKeepsWindow DEF InStep
  <2>. QED
      BY <2>3, <2>4, <2>5 DEF InStep
<1>3. ASSUME NEW c \in Client, Look(c) \/ Click(c) \/ RequestStep(c)
      PROVE  InStep'
  <2>1. /\ clickers \subseteq clickers' /\ clickers' \subseteq clickers \cup {c}
        /\ \A d \in Client \ {c} : todo'[d] = todo[d]
      BY <1>3
      DEF Look, Click, RequestStep, IsDone, WaitQuestion, ReadDone, CheckDone, Test, ReadQuestion,
          Show, StoreAnswer, ClearQuestionReady, SetAnswerReady, Redirect, Continue, Leave,
          TypeInv, Shape
  <2>2. CASE c \in clickers'
    <3>1. LookersLook'
        BY <2>1, <2>2 DEF InStep, LookersLook
    <3>2. ASSUME OneClicker'
          PROVE  WorkerInStep' /\ WindowInStep(c)'
      <4>1. clickers \subseteq {c} /\ OneClicker
          BY <2>1, <2>2, <3>2 DEF OneClicker
      <4>. QED
          BY <1>3, <4>1, ClickerKeeps DEF InStep
    <3>3. ASSUME NEW d \in Client, clickers' \subseteq {d}
          PROVE  WindowInStep(d)'
      <4>1. d = c /\ OneClicker'
          BY <2>2, <3>3 DEF OneClicker
      <4>. QED
          BY <3>2, <4>1
    <3>. QED
        BY <3>1, <3>2, <3>3 DEF InStep
  <2>3. CASE c \notin clickers'
    <3>1. todo[c] \in Looking
        BY <2>1, <2>3 DEF InStep, LookersLook
    <3>2. /\ UNCHANGED <<events, fields, clickers, taken>>
          /\ todo'[Worker] = todo[Worker] /\ todo'[c] \in Looking
          /\ \A d \in Client \ {c} : page'[d] = page[d] /\ found'[d] = found[d]
        BY <1>3, <2>3, <3>1, LookerKeeps
    <3>3. LookersLook'
        BY <2>1, <3>2 DEF InStep, LookersLook
    <3>4. OneClicker' => WorkerInStep'
        BY <3>2 DEF InStep, OneClicker, WorkerInStep
    <3>5. ASSUME NEW d \in Client, clickers' \subseteq {d}
          PROVE  WindowInStep(d)'
      <4>1. WindowInStep(d) /\ clickers \subseteq {d}
          BY <3>2, <3>5 DEF InStep
      <4>2. CASE d = c
        <5>1. OneClicker
            BY <4>1 DEF OneClicker
        <5>. QED
            BY <1>3, <4>1, <4>2, <5>1, ClickerKeeps DEF InStep
      <4>3. CASE d # c
          BY <2>1, <3>2, <4>1, <4>3 DEF WindowInStep, Offered
      <4>. QED
          BY <4>2, <4>3
    <3>. QED
        BY <3>3, <3>4, <3>5 DEF InStep
  <2>. QED
      BY <2>2, <2>3
<1>. QED
    BY <1>1, <1>2, <1>3 DEF Next

\* The worker and the window that answers stay in step.
THEOREM StayInStep == Spec => []InStep
<1>1. Init => InStep
  <2>. SUFFICES ASSUME Init
                PROVE  InStep
      OBVIOUS
  <2>1. /\ todo[Worker] = <<>> /\ \A c \in Client : todo[c] = <<>>
        /\ \A c \in Client : page[c] = NoPage
        /\ ~questionReady /\ ~answerReady /\ ~done /\ question = 0 /\ taken = <<>>
      BY DEF Init
  <2>2. LookersLook
      BY <2>1 DEF LookersLook, Looking
  <2>3. WorkerInStep
      BY <2>1, WorkerRests DEF WorkerInStep, Asking
  <2>4. \A c \in Client : WindowInStep(c)
      BY <2>1, ClientRests DEF WindowInStep
  <2>. QED
      BY <2>2, <2>3, <2>4 DEF InStep
<1>2. TypeInv /\ InStep /\ [Next]_vars => InStep'
    BY InStepStep
<1>. QED
    BY <1>1, <1>2, TypeInvariant, PTL DEF Spec

\* bridge.py, submit_answer and ask: as long as the answers come from one
\* window, with or without others that look on, the engine gets for each
\* question the answer that was chosen on the page that showed it.
THEOREM EachGetsItsOwn == Spec => []AnswersWereChosen
<1>1. TypeInv /\ InStep => AnswersWereChosen
  <2>. SUFFICES ASSUME TypeInv, InStep, Cardinality(clickers) <= 1
                PROVE  \A i \in DOMAIN taken : taken[i] = Answer(i, i)
      BY DEF AnswersWereChosen
  <2>1. IsFiniteSet(clickers)
      BY DEF TypeInv, Types
  <2>2. OneClicker
    <3>. SUFFICES ASSUME NEW c \in clickers, NEW d \in clickers
                  PROVE  c = d
        BY DEF OneClicker
    <3>1. /\ IsFiniteSet(clickers \ {c}) /\ IsFiniteSet((clickers \ {c}) \ {d})
          /\ Cardinality(clickers \ {c}) = Cardinality(clickers) - 1
        BY <2>1, FS_RemoveElement
    <3>2. d \in clickers \ {c} =>
            Cardinality((clickers \ {c}) \ {d}) = Cardinality(clickers \ {c}) - 1
        BY <3>1, FS_RemoveElement
    <3>3. Cardinality(clickers) \in Nat /\ Cardinality((clickers \ {c}) \ {d}) \in Nat
        BY <2>1, <3>1, FS_CardinalityType
    <3>. QED
        BY <3>1, <3>2, <3>3
  <2>. QED
      BY <2>2 DEF InStep, WorkerInStep
<1>. QED
    BY <1>1, TypeInvariant, StayInStep, PTL

\* bridge.py:86: and that window never shows a question that has been
\* answered.
THEOREM PagesStayFresh == Spec => []NoStalePage
<1>1. TypeInv /\ InStep => NoStalePage
  <2>. SUFFICES ASSUME TypeInv, InStep, NEW c \in Client, clickers \subseteq {c},
                       todo[c] = <<>>, page[c] # NoPage
                PROVE  page[c] > Len(taken)
      BY DEF NoStalePage
  <2>1. Offered /\ page[c] = question
      BY ClientRests DEF InStep, WindowInStep
  <2>2. OneClicker
      BY DEF OneClicker
  <2>3. Len(taken) = question - 1
      BY <2>1, <2>2 DEF InStep, WorkerInStep, Offered, Asking
  <2>. QED
      BY <2>1, <2>3 DEF TypeInv, Types
<1>. QED
    BY <1>1, TypeInvariant, StayInStep, PTL

=====
