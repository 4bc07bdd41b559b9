SPECIFICATION NumberedSpec
CONSTANTS
    t1 = t1
    t2 = t2
    Null = 0
    UF = {1, 2, 3, 4}
    Task = {t1, t2}
    Reload = TRUE
PROPERTIES
    CallsReturn
