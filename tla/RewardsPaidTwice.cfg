\* A transfer is made and its answer is lost.
SPECIFICATION Spec
CONSTANTS
    r1 = r1  r2 = r2  r3 = r3  k1 = k1  k2 = k2
    Rewards = {r1}
    Keys = {k1}
    KeyOf <- MCKeyOf
    Prize <- MCPrize
    DailyLimit = 2
    MaxRetries = 2
    Workers = {"a"}
    Operated = {"MANUAL_REVIEW", "FAILED"}
    MaxManual = 1
    Faults = {"transfer"}
    NoClaim = NoClaim
INVARIANTS PaidAtMostOnce
