CONSTANTS
  Tool = {t1, t2}
  Save = {}
  Close = {c1}
  Worker = {w1, w2, w3}
  None = None
  Env = {"crash", "junk", "cancel", "force", "expire", "abort"}
SPECIFICATION Spec
SYMMETRY Symmetry
INVARIANT HandleIsCounted
INVARIANT OneConversation
INVARIANT AnswerUsedOnce
INVARIANT OwnAnswerUnlessAbandoned
INVARIANT CancelNeverCompletes
INVARIANT AnswersAreFinal
PROPERTY LostOnlyWhileOpening
PROPERTY QueueSpec
CHECK_DEADLOCK FALSE
