CONSTANTS
    Calls = {c1, c2}
    MaxActive = 1
    Nobody = Nobody
SPECIFICATION FairSpec
CHECK_DEADLOCK FALSE
INVARIANTS AckedWriteWhole HelpersBounded DisposedMeansQuiet
PROPERTIES FileDisposeSettles OperationSettles
