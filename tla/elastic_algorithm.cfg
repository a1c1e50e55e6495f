SPECIFICATION ElasticSpec
CONSTANTS
    a1 = a1
    a2 = a2
    a3 = a3
    Identifiers = {a1, a2, a3}
    Types <- TwoTypes
    Settings <- FewSettings
    Removable = {a1, a2, a3}
    Edits = {"add", "delete", "type", "toggle"}
SYMMETRY AccountSymmetry
PROPERTIES KeepsQuota
