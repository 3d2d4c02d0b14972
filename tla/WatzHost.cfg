CONSTANTS
    Builds = {"2021", "2.4.1", "2.4.1 openssl"}
    ClientBuilds = {"2.4.1"}
    MaxRuns = 4
SPECIFICATION Spec
INVARIANTS  NothingLeft StatusIsTheGuests
 
