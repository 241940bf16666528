SPECIFICATION Spec
INVARIANT ConnectedOnlyAfterInitOK
