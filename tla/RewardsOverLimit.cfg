\* An operator retries a reward twice.
SPECIFICATION Spec
CONSTANTS
    r1 = r1  r2 = r2  r3 = r3  k1 = k1  k2 = k2
    Rewards = {r1, r2}
    Keys = {k1}
    KeyOf <- MCKeyOf
    Prize <- MCPrize
    DailyLimit = 2
    MaxRetries = 2
    Workers = {"a"}
    Operated = {"MANUAL_REVIEW", "FAILED", "DAILY_LIMIT_REACHED"}
    MaxManual = 2
    Faults = {}
    NoClaim = NoClaim
INVARIANTS DailyLimitHolds
