\* Two chapters, three numbers, two runs, two renumbers; a crash and two failures anywhere.
CONSTANTS
    NBooks = 2
    Places = {1, 2, 3}
    Maps <- OnlyChain
    Numberings <- FirstAtOne
    Runs = {r1, r2}
    NoRun = NoRun
    MaxJournals = 2
    MaxCrashes = 1
    MaxFaults = 2
SPECIFICATION LiveSpec
INVARIANTS EveryFileOnce NoSecondRow 
PROPERTIES StrayKept Atomic JournalFinishes
