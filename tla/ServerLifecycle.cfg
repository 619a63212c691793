SPECIFICATION Spec
INVARIANT TimeoutsNeedStarvation
