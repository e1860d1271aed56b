SPECIFICATION Spec
CONSTANTS Jobs <- MCJobs
INVARIANTS StaysVerified SameBehaviour
CHECK_DEADLOCK FALSE
