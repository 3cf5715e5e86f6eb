------------------------ MODULE MC_ControllerRuntime ------------------------
EXTENDS ControllerRuntime

MCKeys == {"k1"}
MCOneWorker == {"w1"}
MCTwoWorkers == {"w1", "w2"}
MCOutcomes == {"Skip", "Completed", "Retry", "Child"}
MCRetryOutcomes == {"Completed", "Retry"}
MCChildOutcomes == {"Skip", "Completed"}
MCChildRetry == {"Retry"}
====
