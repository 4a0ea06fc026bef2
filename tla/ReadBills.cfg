SPECIFICATION Spec
CONSTANTS
    k1 = k1
    k2 = k2
    k3 = k3
    x1 = x1
    x2 = x2
    x3 = x3
    Keys = {k1, k2, k3}
    ManifestKeys = {k1, k2}
    Page <- Pages
    MaxChecked = 2
    Reports = {x1, x2, x3}
    Of <- Parts
    Records = 2
    OpenRecords <- NotInvoiced
    Month = 1
    Since = 1
    MaxTime = 2
INVARIANTS
    PipelineIsSound
    NothingLeftBehind
    MissHasCause
PROPERTIES
    Returns
    ImplementsImport
