CONSTANTS
    Plans = {p1}
    PlanFormats = {"cargo"}
    PlanAttempts = 2
    PlanClockSkew = TRUE
    MaxPlanReplays = 1
    MaxTransitions = 2
SPECIFICATION PlanSpec
INVARIANT PublishedUnderAdmission
CHECK_DEADLOCK FALSE
