\* The server with the authorization interceptor and no middlewares but
\* those a caller may Use or Add; one Add call.
CONSTANTS
  Alphabet = {1, 2}
  MaxLen = 1
  MW = {m1, rec}
  NoMW = NoMW
  MaxAdds = 1
  Rec = rec
  Skip <- MCSkip
  UnaryInts <- MCAuthOnly
  StreamInts <- MCNoInts
  Tokens <- MCTokens
SPECIFICATION ServerSpec
INVARIANT MissingCredentialsRejected
