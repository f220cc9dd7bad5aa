SPECIFICATION Spec
CONSTANTS
    Templates <- MCTemplates
    SourceTemplate = "s"
    DeploymentTemplates = {"d", "e"}
    DeploymentContents <- MCCompletion
    FirstDeployment = "d"
    FirstContents <- MCCompletion
    None = None
    MaxSuccessfulRuns = 1
    MaxFailedRuns = 1
    MaxRev = 2
    MaxDeps = 4
    Scenarios = {{"push"}}
INVARIANT
    InputIsDeployed
