SPECIFICATION SpiderSpec
CONSTANTS
    Getters = {t1, t2}
    Keys <- ServiceKeys
    Offered <- ServiceLifetimes
    Needs <- ServiceNeeds
    MaxRegs = 2
    MaxObjs = 2
    Nobody = Nobody
PROPERTIES
    OneInstance
    CallsEnd
CHECK_DEADLOCK FALSE
