SPECIFICATION ExchangeSpec
CONSTANTS
  KeyPaths = {"rsa1", "rsa2", "tiny"}
  Inputs <- MCInputs
  KeySize <- MCKeySize
  Overhead = 2
  Lengths = {4, 5}
INVARIANTS ExchangeInv StrongestSourceWins FilesNeverPanic FittingKeysDeliver AnswerVerifies
