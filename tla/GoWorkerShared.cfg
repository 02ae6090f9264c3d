\* Two tasks, three connections; fair goroutines.
CONSTANTS
    t1 = t1  t2 = t2
    Tasks = {t1, t2}
    Main = Main
    Registration = Registration
    MaxStreams = 3
    BackoffBase = 2
    BackoffMax = 7
SPECIFICATION FairSpec
CHECK_DEADLOCK FALSE
INVARIANTS StreamUse AnsweredOnce
PROPERTY Reconnects
