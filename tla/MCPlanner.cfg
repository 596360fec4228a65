SPECIFICATION Spec
CONSTANTS
    Inputs <- MCInputs
    NoMenu = NoMenu
    NoTime = NoTime
    Pending = Pending
    Refused = Refused
INVARIANTS TypeOK PlannersAgree PlanIsSigned SelectedEntryBound
CHECK_DEADLOCK FALSE
