SPECIFICATION Spec
CONSTANTS
    Families = {"V4", "V6"}
    Width <- MCWidth
    Bad = Bad
    Entries <- MCEntries
    IpFiles <- MCIpFiles
    Ips <- MCIps
    Readers = {r1}
INVARIANTS
    IpTypeOK
    SplitIsExact
    LookupsRespectEarlierWrites
