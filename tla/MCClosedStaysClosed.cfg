\* A request holds a copy read before another closes the incident.
SPECIFICATION Spec
CONSTANTS
    Requests = {q1, q2}
    Approvals = {a1}
    Technicians = {t1}
    Nobody = Nobody
    NoApproval = NoApproval
    Costs = {1, 2, 3}
    Threshold = 1
SYMMETRY Symmetry
PROPERTY ClosedStaysClosed
