CONSTANTS
    None = None
    writer1 = writer1
    writer2 = writer2
    reader = reader
    endpoint = endpoint
    api_token = api_token
    password = password
    v1 = v1
    v2 = v2
    integrations = integrations
    services = services
    secretsYaml = secretsYaml
    integrationsYaml = integrationsYaml
    Writers = {writer1}
    Readers = {reader}
    Keys = {endpoint, api_token, password}
    Trees = {integrations, services}
    Files = {secretsYaml, integrationsYaml}
    Values = {v1, v2}
    ValuesOf <- MCValuesOf
    TreeOf <- MCTreeOf
    Routes <- MCRoutes
    Default = secretsYaml
    Main = secretsYaml
    TfFile = integrationsYaml
    Checked = {secretsYaml, integrationsYaml}
    Saved <- MCSaved
    Endpoint = v1
    MaxLitter = 1
    MaxJobs = 2
SPECIFICATION Spec
INVARIANTS TypeOK TokenWorks CheckSeesPlaintext
PROPERTY AllOrNothing
CHECK_DEADLOCK FALSE
