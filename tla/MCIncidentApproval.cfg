\* Two requests open at once; costs below, above and far above the threshold.
SPECIFICATION Spec
CONSTANTS
    Requests = {q1, q2}
    Approvals = {a1, a2}
    Technicians = {t1}
    Nobody = Nobody
    NoApproval = NoApproval
    Costs = {1, 2, 3}
    Threshold = 1
SYMMETRY Symmetry
INVARIANTS OverThresholdWasAnswered OneQuestionAtATime
