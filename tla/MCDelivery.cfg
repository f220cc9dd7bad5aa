SPECIFICATION Spec
CHECK_DEADLOCK FALSE
CONSTANTS
    Templates <- MCTemplates
    SourceTemplate = "s"
    DeploymentTemplates = {"d", "e"}
    DeploymentContents <- MCContents
    FirstDeployment = "d"
    FirstContents <- MCContents
    None = None
    MaxSuccessfulRuns = 1
    MaxFailedRuns = 1
    MaxRev = 2
    MaxDeps = 4
    Scenarios <- MCScenarios
INVARIANTS
    TypeOK
    BlueprintIsRight
    ReportedIsDeployed
    NoForgottenDeployment
PROPERTIES
    OrphansAreUnused
    Converges
