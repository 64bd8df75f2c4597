CONSTANTS
    Users = {u1, u2}
    Threads = {t1, t2}
    Items = {i1, i2, i3}
    Works = {w1, w2}
    NoUser = NoUser
    NoThread = NoThread
    NoItem = NoItem
    NoWork = NoWork
SPECIFICATION FairSpec
PROPERTIES
    CallbacksStay
    ImplementsQueue
    ItemsGetDone
    StopReturns
