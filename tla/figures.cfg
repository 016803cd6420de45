SPECIFICATION Spec
CONSTANT
  Sessions <- AllSessions
INVARIANT TypeOK
INVARIANT AllOrNothing
INVARIANT OthersAsLabelled
INVARIANT OneInvocation
PROPERTY NothingOverwritten
