SPECIFICATION Spec
INVARIANT BucketIsSingleBit
CHECK_DEADLOCK FALSE
