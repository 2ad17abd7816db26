CONSTANT Jobs <- AllJobs
SPECIFICATION Spec
INVARIANTS PassRestoresHost FailureLeavesKnown FailureReported
