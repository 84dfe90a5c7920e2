CONSTANTS
    Text <- Texts
    Place <- Alphabet
    Queries = {"", "db"}
    Contains <- Found
    NoText = ""
    None = None
    NotAList = NotAList
    Namespaces <- TwoNamespaces
    FirstNamespace = "a"
    DeployedIn <- Deployed
    ServicesIn <- Serving
    Names = {"web"}
    Ready = {"0/1", "1/1"}
    Running = "Running"
    NotAvailable = "N/A"
    TRUEText = "true"
    FALSEText = "false"
    Undefined = "undefined"
    MaxInspectors <- OneInspector
    MaxUnused = 1
    MaxLate = 1
    ServiceNames = {"a", "b"}
    Scores = {5, 20, 40}
    NoScore = NoScore
    Gauges <- TwoGauges
    Clusters <- TwoClusters
    Exchanges <- OneCall
SPECIFICATION ConsoleSpec
INVARIANTS ConsoleTypeOK RowsOfNamespace RowsTellInspectors ShownIsCurrent OwnCreationShown OwnServicesOffered ScoresAreCurrent
PROPERTIES HeadTellsOrder GraphSettles
