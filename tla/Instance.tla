------------------------------ MODULE Instance ------------------------------
(***************************************************************************)
(* Instance.Equal of src/endpoint/instance.go, with its side effect: it    *)
(* sorts both instances' Endpoints slices in place.  The state is a        *)
(* receiver x, an argument y (the interface{} o) and the last result.      *)
(*                                                                         *)
(* Endpoint URIs are numbers, ordered as sort.Strings orders the strings  *)
(* they stand for.  Metadata is a Go map: a function whose domain is the  *)
(* set of keys present; reading a missing key yields "".                   *)
(***************************************************************************)
EXTENDS Naturals, Sequences, FiniteSets, TLC, SequencesExt

CONSTANTS
  Ids, Names, Versions,   \* scalar fields
  MetaKeys, MetaValues,   \* metadata keys and values; MetaValues contains ""
  Endpoints,              \* endpoint URIs, a set of naturals
  MaxEndpoints,           \* longest Endpoints slice
  TypedNilArg,            \* may o hold a nil *Instance?
  NilPtr,                 \* a nil *Instance
  NilIface,               \* a nil interface{}
  Other,                  \* an interface{} holding a value of another type
  None, Panic             \* no call yet; the call panicked

ASSUME "" \in MetaValues /\ Endpoints \subseteq Nat /\ MaxEndpoints \in Nat

Metadata == UNION {[keys -> MetaValues] : keys \in SUBSET MetaKeys}

Instances == [id : Ids, name : Names, version : Versions,
              metadata : Metadata, endpoints : BoundedSeq(Endpoints, MaxEndpoints)]

Receivers == Instances \cup {NilPtr}
Args == Instances \cup {NilIface, Other} \cup (IF TypedNilArg THEN {NilPtr} ELSE {})

VARIABLES x, y, result

vars == <<x, y, result>>

\* m[k] on a Go map: the zero value "" for a missing key.
Lookup(m, k) == IF k \in DOMAIN m THEN m[k] ELSE ""

\* sort.Strings
SortStrings(s) == SortSeq(s, LAMBDA a, b : a < b)

\* Mutant: the metadata length test (lines 48-50) left out.
SameFieldsNoMetaLen(i, t) ==
  LET si == SortStrings(i.endpoints)
      st == SortStrings(t.endpoints)
  IN /\ Len(i.endpoints) = Len(t.endpoints)
     /\ \A j \in 1 .. Len(si) : si[j] = st[j]
     /\ \A k \in DOMAIN i.metadata : i.metadata[k] = Lookup(t.metadata, k)
     /\ i.id = t.id /\ i.name = t.name /\ i.version = t.version

\* Lines 36-58, reached with two non-nil instances.
SameFields(i, t) ==
  LET si == SortStrings(i.endpoints)
      st == SortStrings(t.endpoints)
  IN /\ Len(i.endpoints) = Len(t.endpoints)
     /\ \A j \in 1 .. Len(si) : si[j] = st[j]
     /\ Cardinality(DOMAIN i.metadata) = Cardinality(DOMAIN t.metadata)
     /\ \A k \in DOMAIN i.metadata : i.metadata[k] = Lookup(t.metadata, k)
     /\ i.id = t.id /\ i.name = t.name /\ i.version = t.version

\* Equal(o interface{}): o == nil holds only for a nil interface, so a nil
\* *Instance passes the nil tests and the type assertion, and t.Endpoints
\* then dereferences it.
Equal(i, o) ==
  CASE i = NilPtr /\ o = NilIface                   -> TRUE
    [] i = NilPtr /\ o # NilIface                   -> FALSE
    [] i \in Instances /\ o \in {NilIface, Other}   -> FALSE
    [] i \in Instances /\ o = NilPtr                -> Panic
    [] i \in Instances /\ o \in Instances           -> SameFields(i, o)

\* Equal reaches sort.Strings (lines 40-41) only with two instances whose
\* slices have the same length.
Sorts(i, o) ==
  i \in Instances /\ o \in Instances /\ Len(i.endpoints) = Len(o.endpoints)

Init == x \in Receivers /\ y \in Args /\ result = None

CallEqual ==
  /\ result' = Equal(x, y)
  /\ x' = IF Sorts(x, y) THEN [x EXCEPT !.endpoints = SortStrings(@)] ELSE x
  /\ y' = IF Sorts(x, y) THEN [y EXCEPT !.endpoints = SortStrings(@)] ELSE y

Spec == Init /\ [][CallEqual]_vars

-----------------------------------------------------------------------------
(* The equality spec section 3 defines: scalar fields equal, metadata      *)
(* equal as sets of pairs, endpoints equal as sets.                        *)
SpecEqual(i, t) ==
  /\ i.id = t.id /\ i.name = t.name /\ i.version = t.version
  /\ i.metadata = t.metadata
  /\ ToSet(i.endpoints) = ToSet(t.endpoints)

\* Instances without an empty metadata value or a repeated endpoint.
WellFormed(i) ==
  /\ "" \notin Range(i.metadata)
  /\ Len(i.endpoints) = Cardinality(ToSet(i.endpoints))

BothInstances == x \in Instances /\ y \in Instances /\ result \in BOOLEAN

\* On well-formed instances Equal, the sorting included, decides exactly the
\* equality of spec section 3, whatever the order of endpoints.
EqualAgreesWithSpec ==
  BothInstances /\ WellFormed(x) /\ WellFormed(y) => result = SpecEqual(x, y)

=============================================================================
