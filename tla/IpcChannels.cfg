SPECIFICATION LiveSpec
CONSTANTS
    Channel = {a}
    MaxRequest = 2
    MaxListen = 2
    MaxThrow = 1
INVARIANTS TypeOK HandlersAreAnswered AnswersAreTrue CancelIsDelivered SubscriptionsFollow
PROPERTY CallsSettle
CHECK_DEADLOCK FALSE
