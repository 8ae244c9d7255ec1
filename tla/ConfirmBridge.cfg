CONSTANTS
  Client = {w1, w2}
  Worker = worker
  MaxQuestions = 3
SPECIFICATION Spec
INVARIANTS TypeOK NoLostWakeup AnswersWereChosen NoStalePage
PROPERTIES AnswersMoveOn
