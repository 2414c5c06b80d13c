SPECIFICATION FairSpec
CONSTANTS
    Components <- McComponents
    Versions = {v1, v2}
    Requests <- McRequests
    HaveClang = FALSE
    PackageManager = "rpm"
    MaxFaults = 2
    NoLink = NoLink
INVARIANTS TypeOK LinkedIsComplete ExitZeroMeansUsable
PROPERTIES OnlyRelinkBreaks RerunsRepair
