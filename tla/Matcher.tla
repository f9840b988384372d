------------------------------ MODULE Matcher -------------------------------
(***************************************************************************)
(* The middleware matcher of src/middleware/matcher.go: Use sets the       *)
(* default middlewares, Add registers middlewares for an exact operation   *)
(* or, with a trailing "*", for an operation prefix, and Matcher(op)       *)
(* returns the defaults followed by those of the exact selector or of the  *)
(* first prefix, in the descending order Add keeps, that op starts with.   *)
(*                                                                         *)
(* middleware.Chain, which nests the middlewares Matcher returns around a  *)
(* handler, is an operator here; GrpcServer serves requests through both.  *)
(*                                                                         *)
(* Strings are sequences over a small alphabet of byte values; a list of   *)
(* middlewares passed to one call is a single value of MW.                 *)
(***************************************************************************)
EXTENDS Naturals, Sequences, FiniteSets, TLC, SequencesExt

CONSTANTS
  Alphabet,   \* byte values, a set of naturals
  MaxLen,     \* longest selector and operation
  MW,         \* middleware lists
  NoMW,       \* no entry in the match map / no defaults
  MaxAdds     \* bound on Add calls

ASSUME Alphabet \subseteq Nat /\ MaxLen \in Nat /\ NoMW \notin MW

Str == BoundedSeq(Alphabet, MaxLen)

VARIABLES
  prefix,      \* m.prefix
  defaults,    \* m.defaults
  match,       \* m.match, NoMW where a key is absent
  adds         \* Add calls made

vars == <<prefix, defaults, match, adds>>

\* Go's string comparison a < b: bytewise, a proper prefix first.
RECURSIVE StrLess(_, _)
StrLess(a, b) ==
  CASE b = <<>>                                  -> FALSE
    [] a = <<>>                                  -> TRUE
    [] Head(a) # Head(b)                         -> Head(a) < Head(b)
    [] OTHER                                     -> StrLess(Tail(a), Tail(b))

\* Mutant: the prefixes sorted ascending (m.prefix[i] < m.prefix[j]).
SortPrefixesAscending(p) == SortSeq(p, LAMBDA a, b : StrLess(a, b))

\* sort.Slice(m.prefix, func(i, j) bool { return m.prefix[i] > m.prefix[j] })
SortPrefixes(p) == SortSeq(p, LAMBDA a, b : StrLess(b, a))

\* NewMatcher
Init ==
  /\ prefix = <<>>
  /\ defaults = NoMW
  /\ match = [s \in Str |-> NoMW]
  /\ adds = 0

Use(ms) ==
  /\ defaults' = ms
  /\ UNCHANGED <<prefix, match, adds>>

\* Add(selector, ms...): sel is the selector without its trailing "*",
\* wild whether it had one.
Add(sel, wild, ms) ==
  /\ adds < MaxAdds
  /\ adds' = adds + 1
  /\ prefix' = IF wild THEN SortPrefixes(Append(prefix, sel)) ELSE prefix
  /\ match' = [match EXCEPT ![sel] = ms]
  /\ UNCHANGED defaults

-----------------------------------------------------------------------------
\* Indices of m.prefix whose entry op starts with, and the first of them.
Matching(op) == {i \in 1 .. Len(prefix) : IsPrefix(prefix[i], op)}
FirstMatching(op) == CHOOSE i \in Matching(op) : \A j \in Matching(op) : i <= j

\* Matcher(operation): the defaults, then the lists of the exact selector
\* or else of the first matching prefix.
MatcherOf(op) ==
  (IF defaults # NoMW THEN <<defaults>> ELSE <<>>)
  \o CASE match[op] # NoMW       -> <<match[op]>>
       [] Matching(op) # {}      -> <<match[prefix[FirstMatching(op)]]>>
       [] OTHER                  -> <<>>

\* Mutant: Chain's loop run upwards, so that the last middleware is outermost.
ChainAscending(m, handler) == Reverse(m) \o handler

\* middleware.Chain(m...)(handler): for i from len(m)-1 down to 0,
\* handler = m[i](handler); a handler is its layers, outermost first.
RECURSIVE ChainFrom(_, _, _)
ChainFrom(m, i, handler) ==
  IF i = 0 THEN handler ELSE ChainFrom(m, i - 1, <<m[i]>> \o handler)
Chain(m, handler) == ChainFrom(m, Len(m), handler)

Next ==
  \/ \E ms \in MW : Use(ms)
  \/ \E sel \in Str, wild \in BOOLEAN, ms \in MW : Add(sel, wild, ms)

Spec == Init /\ [][Next]_vars

-----------------------------------------------------------------------------
\* The longest prefix selector op starts with.
Longest(op) ==
  LET ps == {p \in ToSet(prefix) : IsPrefix(p, op)}
  IN CHOOSE p \in ps : \A q \in ps : Len(q) <= Len(p)

\* When no exact selector matches, Matcher uses the longest registered
\* prefix op starts with, which is what Add's descending sort is for
\* ("/foo/bar" before "/foo").
LongestPrefixChosen ==
  \A op \in Str :
    match[op] = NoMW /\ Matching(op) # {}
      => prefix[FirstMatching(op)] = Longest(op)

=============================================================================
