-------------------------------- MODULE PyValues --------------------------------
(***************************************************************************)
(* The Python values that the serializer and the processors walk: texts,   *)
(* None, and containers with an identity. A container is written where it  *)
(* first occurs; "ref" is a container that is met again inside of itself.  *)
(* Items have a key, which is "" in a list and may be falsy in a mapping.  *)
(***************************************************************************)
EXTENDS Integers, Sequences, FiniteSets, SequencesExt

CONSTANT None       \* Python's None, where it stands for itself

Str(s) == [kind |-> "text", is |-> s]
NoneValue == [kind |-> "none"]
Ref(id) == [kind |-> "ref", id |-> id]
Item(key, value) == [key |-> key, value |-> value]
Container(kind, id, items) == [kind |-> kind, id |-> id, items |-> items]

(* A string "k=v&k=v": of each piece its key, its value, and how many      *)
(* pieces its own "=" make of it.                                          *)
Pair(key, value, pieces) == [key |-> key, value |-> value, pieces |-> pieces]
Pairs(pairs) == [kind |-> "pairs", pairs |-> pairs]

HasId(v) == v.kind \notin {"text", "none", "pairs"}
Cycle == Str("<...>")

Or(a, b) == IF a # None THEN a ELSE b

-----------------------------------------------------------------------------
(* Dictionaries are functions from their keys; {} is <<>>. *)

Get(dict, key, default) == IF key \in DOMAIN dict THEN dict[key] ELSE default
Put(dict, key, value) ==
    [k \in DOMAIN dict \cup {key} |-> IF k = key THEN value ELSE dict[k]]
SetDefault(dict, key, value) == IF key \in DOMAIN dict THEN dict ELSE Put(dict, key, value)
Update(dict, other) ==
    [k \in DOMAIN dict \cup DOMAIN other |-> IF k \in DOMAIN other THEN other[k] ELSE dict[k]]

=============================================================================
