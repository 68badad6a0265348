CONSTANTS
    Banks <- TwoBanks
    Clients <- Everyone
    REFRESHSCHEDULE = 2
    RtgBanks <- OneRtgBank
    RtgCrosses = 0
    ChipRun = 1
    RtgRun = 1
    Arrivals <- BeforeGrants
    b1 = b1
SPECIFICATION Spec
INVARIANTS BankRules WordsInTime
PROPERTY SlotRules
