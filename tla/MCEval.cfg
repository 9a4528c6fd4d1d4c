\* The controller alone, two evaluations with an edit between them; a check settles one criterion.
CONSTANTS
    controller = controller
    owner = owner
    functional = functional
    checked = checked
    Controller = controller
    Owners = {}
    Criteria <- TwoCriteria
    OwnerJudged = {}
    DeterministicOnly <- CheckedCriterion
    Items <- CheckedItems
    CheckItem <- ChecksOfChecked
    MaxRevision = 2
    MaxVersion = 1
    MaxRecords = 1
    MaxEvaluations = 2
SPECIFICATION Spec
INVARIANTS
    TypeOK
    VerdictsAreAccepted
