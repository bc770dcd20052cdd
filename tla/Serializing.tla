------------------------------ MODULE Serializing ------------------------------
(***************************************************************************)
(* raven.utils.serializer: transform() makes JSON-safe values of local     *)
(* variables, message parameters and extra data. The manager remembers the *)
(* containers it is inside of, in context; the depth is counted by         *)
(* recurse(); containers are cut at list_max_length.                       *)
(***************************************************************************)
EXTENDS PyValues

CONSTANTS
    MaxDepth,       \* max_depth of recurse()
    ListMax         \* list_max_length of the client, at least 1

ASSUME SerializingAssumption == MaxDepth \in Nat \ {0} /\ ListMax \in Nat \ {0}

(* A plausible slip: a value that fails stays in context. *)
StayOnError(context, v) == IF v.kind = "breaks" THEN context ELSE context \ {v.id}

(* transform() removes the value from context however it ends. *)
Leave(context, v) == context \ {v.id}

(* itertools.takewhile over enumerate() *)
Taken(items) == SubSeq(items, 1, Min({Len(items), ListMax}))

RECURSIVE Transform(_, _, _)

(* BaseSerializer.recurse(): at max_depth the representation is what is    *)
(* transformed.                                                            *)
Recurse(v, depth, context) ==
    IF depth + 1 >= MaxDepth THEN [out |-> Str("repr"), context |-> context]
    ELSE Transform(v, depth + 1, context)

SerializeItems(items, depth, context) ==
    FoldLeft(LAMBDA acc, item :
                LET inner == Recurse(item.value, depth, acc.context)
                IN  [out |-> Append(acc.out, Item(item.key, inner.out)),
                     context |-> inner.context],
             [out |-> <<>>, context |-> context], Taken(items))

(* The serializer that can() take the value: lists, tuples, sets ("list"), *)
(* dicts and namedtuples ("map"), objects with a __sentry__(), texts; a    *)
(* serializer that raises ("breaks": its __sentry__(), a dict that changes *)
(* under the loop) is replaced by the name of the type, and what no        *)
(* serializer takes ("other") by its repr().                               *)
Serialize(v, depth, context) ==
    CASE v.kind \in {"list", "map"} ->
            LET items == SerializeItems(v.items, depth, context)
            IN  [out |-> Container(v.kind, v.id, items.out), context |-> items.context]
      [] v.kind = "sentry" -> Recurse(v.items[1].value, depth, context)
      [] v.kind = "breaks" ->
            [out |-> Str("type"), context |-> SerializeItems(v.items, depth, context).context]
      [] v.kind = "other" -> [out |-> Str("repr"), context |-> context]
      [] OTHER -> [out |-> v, context |-> context]

Transform(v, depth, context) ==
    IF ~ HasId(v) THEN [out |-> v, context |-> context]
    ELSE IF v.id \in context THEN [out |-> Cycle, context |-> context]
    ELSE LET inner == Serialize(v, depth, context \cup {v.id})
         IN  [out |-> inner.out, context |-> Leave(inner.context, v)]

(* The module's transform(): a manager of its own for each call. *)
TransformCall(v) == Transform(v, 0, {})

=============================================================================
