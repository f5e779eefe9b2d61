SPECIFICATION Spec
CONSTANTS
    Tasks = {t1, t2, t3, t4}
    Main = t1
INVARIANT
    ContinuesWhereItLeft
