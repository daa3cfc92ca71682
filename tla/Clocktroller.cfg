SPECIFICATION Spec
INVARIANT NeverTerminates AtMostOneInstructionAfterStop
PROPERTY QuietAfterWait KillEndsTheLoop FailureReleasesWait
