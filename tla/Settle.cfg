\* One worker, a gateway that fails and loses answers, an operator; and when batches run.
SPECIFICATION SettleSpec
CONSTANTS
    r1 = r1  r2 = r2  r3 = r3  k1 = k1  k2 = k2
    Rewards = {r1, r2}
    Keys = {k1}
    KeyOf <- MCKeyOf
    Prize <- MCPrize
    DailyLimit = 3
    MaxRetries = 3
    Workers = {"a"}
    Operated = {"MANUAL_REVIEW", "FAILED"}
    MaxManual = 2
    Faults = {"transfer", "submit"}
    NoClaim = NoClaim
    Due = {"d1", "d2"}
    MaxCrashes = 1
INVARIANTS SentAddsUp
PROPERTIES RewardSettles WorkIsProcessed
