--------------------------- MODULE MCDatabaseKeys ---------------------------
(***************************************************************************)
(* Checks the key builders of DatabaseKeys against the reference order    *)
(* and prefix definitions, for every pair of rows drawn from small sets:  *)
(* three type names, one a prefix of the others and one ending in '_'     *)
(* (Go type names may contain '_'), ids and field values that contain '_' *)
(* bytes, zero values, values of one and two rlp bytes, and 255.  The     *)
(* state is the pair of rows.                                             *)
(***************************************************************************)
EXTENDS DatabaseKeys, TLC

VARIABLES a, b

\* Type names "A", "AB" and "A_", ids "C", "BC" and "_C", the index tag "x".
TypeNames == {<<65>>, <<65, 66>>, <<65, Underscore>>}
Ids       == {<<67>>, <<66, 67>>, <<Underscore, 67>>}
Tag       == <<120>>

Uint(v) == [kind |-> "uint", v |-> v]
Bool(v) == [kind |-> "bool", v |-> v]

\* A non-unique index over two uint fields and a bool field.
ValueTuples ==
  {<<Uint(x), Uint(y), Bool(z)>> : x, y \in {0, 1, 95, 128, 255}, z \in BOOLEAN}

Rows == [typeName: TypeNames, id: Ids, values: ValueTuples]

Init == a \in Rows /\ b \in Rows
Next == UNCHANGED <<a, b>>

\* The row as the struct pointer the caller saves; its index field is "x".
Object(r) ==
  [valid |-> TRUE, ptr |-> TRUE, kind |-> "struct", tagsOk |-> TRUE,
   fields |-> [f \in {"x"} |-> [fieldValue |-> r.values]]]

FieldValues(r) == GetFieldInfo("x", Object(r)).info.fieldValue

IndexKey(r)  == TypeNameFieldName(r.typeName, Tag)
StoredKey(r) == FieldValueToByte(IndexKey(r), FieldValues(r))
QueryKey(r)  == IndexKey(r) \o GetFieldValue(FieldValues(r))

(***************************************************************************)
(* Row keys never collide: idKey of two different (type name, id) pairs   *)
(* differ (idKey, lines 8-15).  The separator "__" is not escaped, so a  *)
(* type name ending in '_' or an id starting with '_' can shift it.       *)
(***************************************************************************)
IdKeysInjective ==
  IdKey(a.id, a.typeName) = IdKey(b.id, b.typeName)
    => a.id = b.id /\ a.typeName = b.typeName

(***************************************************************************)
(* Index keys never collide: the fieldValueToByte keys of rows with       *)
(* different type names or field values differ (lines 84-96).             *)
(***************************************************************************)
FieldKeysInjective ==
  StoredKey(a) = StoredKey(b) => a.typeName = b.typeName /\ a.values = b.values

(***************************************************************************)
(* A lookup finds the row it was built from: the prefix getFieldValue      *)
(* builds from a row's values (lines 49-67) is a prefix of the key        *)
(* fieldValueToByte stored for that row.                                  *)
(***************************************************************************)
QueryKeyPrefixesStoredKey == HasPrefix(StoredKey(a), QueryKey(a))

(***************************************************************************)
(* The range a non-unique lookup scans, [prefix, getNonUniqueEnd(prefix)) *)
(* (lines 77-82), holds exactly the stored keys that have the prefix.     *)
(***************************************************************************)
NonUniqueRangeIsPrefix ==
  LET q == QueryKey(b)
  IN  InRange(StoredKey(a), q, GetNonUniqueEnd(q)) <=> HasPrefix(StoredKey(a), q)
=============================================================================
