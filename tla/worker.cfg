SPECIFICATION FairSpec
CONSTANTS
    Tasks = {t1, t2}
    Limit = 1
    Faults = {"shutdown", "lostAnswer"}
INVARIANTS Inv CounterExact LimitRespected AnswerTruthful
PROPERTIES EveryTaskAnswered
CHECK_DEADLOCK FALSE
