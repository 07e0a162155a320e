CONSTANTS
    n1 = n1  n2 = n2  v1 = v1  v2 = v2
    g1 = g1  kt = kt  a1 = a1  c1 = c1
    None = None  Absent = Absent  Null = Null
    Names <- MCNames
    Groups <- MCGroups
    ToolGroups <- MCToolGroups
    Artifacts <- MCArtifacts
    Classifiers <- MCClassifiers
    Scopes <- MCScopes
    Configs <- MCConfigs
    Inputs <- InputsGradleProps
SPECIFICATION Spec
INVARIANTS
    GradlePlaceholderResolved
