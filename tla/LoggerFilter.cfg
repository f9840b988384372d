\* The App's logging set-up: a Filter at Info level with one filtered key
\* (pw), one filtered value (sec) and a FilterFunc dropping logs that
\* mention dr, over the std logger; the Helper's message key is pw, so its
\* messages are masked.  Lists of up to three words include odd ones.
CONSTANTS
  msg = msg  pw = pw  sec = sec  dr = dr  w = w
  Words <- MCWords
  MsgKey = msg
  HelperKey = pw
  FilterKeys = {pw}
  FilterValues = {sec}
  FilterLvl = 1
  DropWords = {dr}
  Fuzzy = Fuzzy
  Unpaired = Unpaired
  NoLine = NoLine
  MaxKv = 3
SPECIFICATION Spec
INVARIANT FilteredAsPairs
\* A Fatal variant ends the process with os.Exit(1): no step follows.
CHECK_DEADLOCK FALSE
