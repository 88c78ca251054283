SPECIFICATION Spec
CONSTANTS
  File <- Files
  Cert <- Certs
  Moment = {2, 3, 4, 6, 10}
INVARIANTS Confluent Idempotent NothingTwice WebCurrent
