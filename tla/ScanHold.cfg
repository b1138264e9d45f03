\* Three callers of a scan and three holders.
CONSTANTS
    Callers = {c1, c2, c3}
    Holders = {h1, h2, h3}
SPECIFICATION ScanLiveSpec
INVARIANTS HoldExcludesScan
PROPERTIES Serves NobodyWaitsForGood
