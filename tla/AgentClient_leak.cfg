SPECIFICATION Spec
INVARIANT NoLeakOnError
