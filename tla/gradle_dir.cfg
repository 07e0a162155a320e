CONSTANTS
    n1 = n1  v1 = v1  v2 = v2  g1 = g1  sr = sr  a1 = a1  srfe = srfe  c1 = c1
    fe = fe  core = core  sub = sub  tools = tools
    None = None  Absent = Absent  Null = Null
    Names <- MCNames
    Groups <- MCGroups
    ToolGroups <- MCToolGroups
    Artifacts <- MCArtifacts
    Classifiers <- MCClassifiers
    Scopes <- MCScopes
    Configs <- MCConfigs
    Inputs <- MCInputs
    PathNames <- MCPathNames
    FeDir = fe
    RootGroup = sr
    RootArtifact = srfe
    PomDataSet <- PomsToolsDir
    GradleDataSet <- GradlesToolsDir
SPECIFICATION MainSpec
INVARIANTS
    PairsCompared
