\* An incident nobody was assigned is closed above the threshold.
SPECIFICATION Spec
CONSTANTS
    Requests = {q1}
    Approvals = {a1}
    Technicians = {t1}
    Nobody = Nobody
    NoApproval = NoApproval
    Costs = {1, 2, 3}
    Threshold = 1
SYMMETRY Symmetry
INVARIANT ApprovalReturnsToTheTechnician
