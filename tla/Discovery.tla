----------------------------- MODULE Discovery ------------------------------
(***************************************************************************)
(* Registry.GetService of src/endpoint/etcd/etcd.go against a store that   *)
(* several writers share: registering processes, and (spec section 4.1)    *)
(* misbehaving writers that put a record under another service's key or a  *)
(* value that does not decode.                                             *)
(*                                                                         *)
(* A key {namespace}/{name}/{id} is the pair <<name, id>>; service names   *)
(* are strings, sequences of byte values, so that one name can be a        *)
(* prefix of another.  A value is the decoded name field, or Bad.          *)
(***************************************************************************)
EXTENDS Naturals, Sequences, FiniteSets, SequencesExt

CONSTANTS
  Names,      \* service names, a set of sequences of naturals
  Ids,        \* instance ids
  Bad,        \* a value unmarshal rejects
  Absent,     \* no key
  NotCalled,  \* GetService not called yet for this name
  ErrStore,   \* kv.Get failed
  ErrDecode,  \* unmarshal failed on some record
  MaxWrites   \* bound on Put and Delete calls

Keys == Names \X Ids
Values == Names \cup {Bad}
Records == Keys \X Names     \* <<key, decoded name>>

VARIABLES
  store,   \* key -> value, Absent where the key is missing
  got,     \* name -> the last result of GetService(name)
  seen,    \* history: name -> the store that call read
  writes   \* Put and Delete calls made

vars == <<store, got, seen, writes>>

\* The key's service-name segment starts with the string of the prefix
\* fmt.Sprintf("%s/%s", namespace, name) (etcd's WithPrefix).
UnderPrefix(name, k) == IsPrefix(name, k[1])

\* Mutant: Get without clientv3.WithPrefix() reads the one key
\* "{namespace}/{name}", which no Register ever writes.
ReadNoPrefix(name) == {}

\* kv.Get(ctx, key, clientv3.WithPrefix()): the keys present under it.
Read(name) == {k \in Keys : store[k] # Absent /\ UnderPrefix(name, k)}

\* Mutant: an undecodable record appended (as a nil *Instance) instead of
\* failing the call.
ResolveAppendUndecoded(name) ==
  {<<k, store[k]>> : k \in {k \in Read(name) : store[k] \in {name, Bad}}}

\* Lines 74-85: the first record that fails to decode fails the call;
\* records whose decoded name is not the query are skipped.
Resolve(name) ==
  IF \E k \in Read(name) : store[k] = Bad
    THEN ErrDecode
    ELSE {<<k, store[k]>> : k \in {k \in Read(name) : store[k] = name}}

Init ==
  /\ store = [k \in Keys |-> Absent]
  /\ got = [n \in Names |-> NotCalled]
  /\ seen = [n \in Names |-> store]
  /\ writes = 0

\* A Put under key k with value v, by Register (v = k[1]) or by a
\* misbehaving writer.
Put(k, v) ==
  /\ writes < MaxWrites
  /\ writes' = writes + 1
  /\ store' = [store EXCEPT ![k] = v]
  /\ UNCHANGED <<got, seen>>

\* Deregister's Delete, or the expiry of the key's lease.
Delete(k) ==
  /\ writes < MaxWrites
  /\ store[k] # Absent
  /\ writes' = writes + 1
  /\ store' = [store EXCEPT ![k] = Absent]
  /\ UNCHANGED <<got, seen>>

\* GetService(ctx, name), lines 69-86.
GetService(name) ==
  /\ got' = [got EXCEPT ![name] = Resolve(name)]
  /\ seen' = [seen EXCEPT ![name] = store]
  /\ UNCHANGED <<store, writes>>

\* GetService when r.kv.Get returns an error (lines 71-74).
GetServiceFails(name) ==
  /\ got' = [got EXCEPT ![name] = ErrStore]
  /\ seen' = [seen EXCEPT ![name] = store]
  /\ UNCHANGED <<store, writes>>

Next ==
  \/ \E k \in Keys, v \in Values : Put(k, v)
  \/ \E k \in Keys : Delete(k)
  \/ \E n \in Names : GetService(n) \/ GetServiceFails(n)

Spec == Init /\ [][Next]_vars

-----------------------------------------------------------------------------
Results == {NotCalled, ErrStore, ErrDecode}

TypeOK ==
  /\ store \in [Keys -> Values \cup {Absent}]
  /\ got \in [Names -> Results \cup SUBSET Records]
  /\ seen \in [Names -> [Keys -> Values \cup {Absent}]]
  /\ writes \in 0 .. MaxWrites

\* A successful GetService(n) returns every instance registered under
\* {namespace}/{n}/ with a record of service n in the store when it read.
GetServiceComplete ==
  \A n \in Names : got[n] \notin Results =>
    \A i \in Ids : seen[n][<<n, i>>] = n => <<<<n, i>>, n>> \in got[n]

=============================================================================
