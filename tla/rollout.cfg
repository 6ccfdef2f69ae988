\* Two images, the second with a migration, and two deployments; the secret is
\* rotated twice, the first time to a value that is no connection string.
SPECIFICATION FairSpec
CONSTANTS
    MaxVersion = 1
    HeadOf <- OneMigration
    MaxRotations = 2
    Malformed = {1}
    Fallback = 0
    None = None
    MaxRuns = 2
INVARIANTS
    MigratedFirst
    NoPartialWeight
PROPERTIES
    SchemaMovesSafely
    GreenGainsInSteps
    RotationHeals
