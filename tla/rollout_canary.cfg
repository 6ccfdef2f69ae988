\* One image deployed twice; the secret and the surroundings do not matter.
SPECIFICATION Spec
CONSTANTS
    MaxVersion = 0
    HeadOf <- OneMigration
    MaxRotations = 0
    Malformed = {}
    Fallback = None
    None = None
    MaxRuns = 2
INVARIANT
    NoTrafficYet
