SPECIFICATION LauncherSpec
CONSTANTS
    Clis = {p1, p2}
    Leaves = {l1, l2}
    MaxVersion = 3
    Serial = TRUE
    Reverts = FALSE
    secretsYaml = "secrets.yaml"
    tfYaml = "tf.yaml"
    Files = {"secrets.yaml", "tf.yaml"}
    Default = "secrets.yaml"
    Sorted <- MCSorted
    Scenarios <- MCScenarios
INVARIANTS
    TypeOK
    ConfigIsCurrent
    InputsAreCurrent
    VerdictTrue
    FiledIsFound
    PveAgree
