\* Two windows, a bundle of priors and a fault.
SPECIFICATION FairSpec
CONSTANTS
    BoardKey <- Site
    Sensors = {"s1", "s2", "cti.taxii"}
    TauMax = 1000
    Rho <- MostOfIt
    Bundles <- OneBundle
    MaxBundles = 1
    MaxFaults = 1
    Outcomes <- WindowOutcomes
    Waterline = 1
    MaxWindows = 2
INVARIANTS Reinforced PriorsModest DiversityWitnessed FramesBacked
PROPERTIES InOrder Fades
CHECK_DEADLOCK FALSE
