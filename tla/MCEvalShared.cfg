\* The controller and `longrun evaluate` at the same time: edits, rebases, evidence of either kind.
CONSTANTS
    controller = controller
    owner = owner
    functional = functional
    checked = checked
    Controller = controller
    Owners <- Everyone
    Criteria <- OneCriterion
    OwnerJudged = {}
    DeterministicOnly = {}
    Items <- UncheckedItems
    CheckItem <- NoChecks
    MaxRevision = 2
    MaxVersion = 2
    MaxRecords = 1
    MaxEvaluations = 1
SPECIFICATION Spec
INVARIANTS
    PassIsEvidenced
PROPERTIES
    PassedOnFoundedVerdict
