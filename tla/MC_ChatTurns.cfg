SPECIFICATION TurnsSpec
CONSTANTS
  Callbacks = {c1, c2}
  Turns = {t1, t2}
  MaxTurns = 2
  MaxRestarts = 1
INVARIANTS OneAgentPerChat
PROPERTIES CallbacksAreSettled OutsideIsAnswered
CHECK_DEADLOCK FALSE
