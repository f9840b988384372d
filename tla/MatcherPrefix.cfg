\* Selectors and operations of up to two bytes over two byte values (the
\* empty selector is "*"), two middleware lists, one of them holding
\* Recovery, two Add calls: enough for nested prefixes like "a" and "ab",
\* and for Recovery among the defaults or selected.  Request logging,
\* language and authorization (skipping operation "1") are installed for
\* unary calls and streams; requests carry every form of credentials, every
\* kind of token, and have or lack the language and X-Request-ID headers.
CONSTANTS
  Alphabet = {1, 2}
  MaxLen = 2
  MW = {m1, rec}
  NoMW = NoMW
  MaxAdds = 2
  Rec = rec
  Skip <- MCSkip
  UnaryInts <- MCUnaryInts
  StreamInts <- MCStreamInts
  Tokens <- MCTokens
SPECIFICATION ServerSpec
INVARIANT LongestPrefixChosen
INVARIANT RecoveredUnderDefaults
INVARIANT AuthBeforeHandler
