SPECIFICATION FairLockSpec
CONSTANTS
    Threads = {t1, t2, t3}
    Methods = {"Get", "Put", "Metrics", "Close"}
    NoThread = NoThread
PROPERTY CloseReturns
CHECK_DEADLOCK FALSE
