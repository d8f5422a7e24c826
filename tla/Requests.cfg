SPECIFICATION RequestsSpec
CONSTANTS
  Nil = Nil
  Refused = Refused
  MaxInt = 9
  Conversations <- MCConversations
  Plans <- MCPlans
  SchemaOf <- MCSchemaOf
  Arguments <- MCArguments
INVARIANTS PlanHonoured RequestFaithful StillAccepted EstimateAgrees SchemaFaithful
