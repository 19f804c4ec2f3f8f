SPECIFICATION Spec
INVARIANT HitStaysHit
CHECK_DEADLOCK FALSE
