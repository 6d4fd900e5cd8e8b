---------------------------- MODULE DatabaseKeys ----------------------------
(***************************************************************************)
(* How the database builds its keys (src/database/keys.go): a row's key    *)
(* typeName__id, a non-unique index key typeName__tag__v1__v2... with each *)
(* field value RLP-encoded, the prefix a lookup uses, and the end of the  *)
(* key range that holds every key with a given prefix.                    *)
(*                                                                         *)
(* A key is a sequence of bytes 0..255; '_' is byte 95.  A field value is *)
(* an unsigned integer below 256 or a boolean, encoded as rlp does.       *)
(***************************************************************************)
EXTENDS Integers, Sequences, SequencesExt

Underscore == 95
Sep == <<Underscore, Underscore>>

\* A byte is 8 bits wide: arithmetic on it wraps.
Byte(x) == x % 256

\* rlp.EncodeToBytes of a uint below 256 or of a bool.
RlpEncode(val) ==
  CASE val.kind = "bool" -> IF val.v THEN <<1>> ELSE <<128>>
    [] val.v = 0         -> <<128>>
    [] val.v < 128       -> <<val.v>>
    [] OTHER             -> <<129, val.v>>

\* The zero value of a field (isZero): 0 or false.
IsZero(val) == IF val.kind = "bool" THEN ~val.v ELSE val.v = 0

(***************************************************************************)
(* A Go value handed to the database, as reflection sees it: valid,       *)
(* whether it is a pointer, the kind of what it holds (through the        *)
(* pointer), whether extractObjectTagInfo parses its struct tags, and the *)
(* indexed fields those tags declare (field name -> fieldInfo).           *)
(***************************************************************************)
FieldInfoResult(err, info) == [err |-> err, info |-> info]
NoFieldInfo == [fieldValue |-> <<>>]

(***************************************************************************)
(* getFieldInfo (lines 17-36): a value that is not a struct, directly or  *)
(* through a pointer, is ErrBadType; a pointer is dereferenced; a tag     *)
(* error and an unknown field are returned as errors.                     *)
(***************************************************************************)
GetFieldInfo(fieldName, value) ==
  CASE ~value.valid \/ value.kind # "struct" -> FieldInfoResult("ErrBadType", NoFieldInfo)
    [] ~value.tagsOk                         -> FieldInfoResult("ErrBadTag", NoFieldInfo)
    [] fieldName \notin DOMAIN value.fields  -> FieldInfoResult("ErrNotFound", NoFieldInfo)
    [] OTHER -> FieldInfoResult("none", value.fields[fieldName])

\* idKey (lines 8-15): typeName__id.
IdKey(id, typeName) == typeName \o Sep \o id

\* typeNameFieldName (lines 69-75): typeName__fieldName.
TypeNameFieldName(typeName, tagName) == typeName \o Sep \o tagName

\* Mutant: the loop stops one value short.
FieldValueToByteDropsLast(key, values) ==
  key \o FlattenSeq([i \in 1..(Len(values) - 1) |-> Sep \o RlpEncode(values[i])])

\* fieldValueToByte (lines 84-96): key__v1__v2..., every value encoded.
FieldValueToByte(key, values) ==
  key \o FlattenSeq([i \in 1..Len(values) |-> Sep \o RlpEncode(values[i])])

\* Mutant: the lookup's values appended without separators.
GetFieldValueNoSep(values) ==
  LET stops == {i \in 1..Len(values) : values[i].kind # "bool" /\ IsZero(values[i])}
      n     == IF stops = {} THEN Len(values) ELSE Min(stops) - 1
  IN  FlattenSeq([i \in 1..n |-> RlpEncode(values[i])])

(***************************************************************************)
(* getFieldValue (lines 49-67): __v1__v2... for a lookup, stopping before  *)
(* the first zero value that is not a boolean.                            *)
(***************************************************************************)
GetFieldValue(values) ==
  LET stops == {i \in 1..Len(values) : values[i].kind # "bool" /\ IsZero(values[i])}
      n     == IF stops = {} THEN Len(values) ELSE Min(stops) - 1
  IN  FieldValueToByte(<<>>, SubSeq(values, 1, n))

\* getNonUniqueEnd (lines 77-82): the key with its last byte incremented.
GetNonUniqueEnd(key) == [key EXCEPT ![Len(key)] = Byte(@ + 1)]

(***************************************************************************)
(* Reference definitions: the byte-wise order the store sorts keys by,    *)
(* and what "has the prefix" means.                                       *)
(***************************************************************************)
RECURSIVE KeyLess(_, _)
KeyLess(a, b) ==
  IF b = <<>> THEN FALSE
  ELSE IF a = <<>> THEN TRUE
  ELSE IF Head(a) # Head(b) THEN Head(a) < Head(b)
  ELSE KeyLess(Tail(a), Tail(b))

HasPrefix(key, prefix) ==
  Len(prefix) <= Len(key) /\ SubSeq(key, 1, Len(prefix)) = prefix

\* A key lies in the range [lo, hi) that a lookup scans.
InRange(key, lo, hi) == ~KeyLess(key, lo) /\ KeyLess(key, hi)
=============================================================================
