------------------------------- MODULE ValueChecks -------------------------------
(***************************************************************************)
(* The recursive functions that an event's values go through, over values  *)
(* of bounded size: an input is chosen in ValueInit and one step computes  *)
(* the result. They are apart from EventCalls because no theorem can be    *)
(* about them.                                                             *)
(***************************************************************************)
EXTENDS EventProperties, Serializing, Sanitizing

(* Inputs. *)

SeqUpTo(S, n) == UNION {[1..k -> S] : k \in 0..n}

Items(keys, values) == {Item(k, v) : k \in keys, v \in values}

(* Values to serialize: containers in containers, that may be shared, be   *)
(* inside of themselves or of what is inside of them, or fail. `around` are *)
(* the containers that the value is in; one more around it all is what it  *)
(* takes to reach MaxDepth, one less to meet what is cyclic before.        *)
Inner(around) ==
    LET refs == {Ref(id) : id \in around \cup {1}}
    IN  {Container(kind, 1, items) : kind \in {"list", "breaks"},
            items \in SeqUpTo(Items({""}, {Str("a"), NoneValue} \cup refs), 1)}
        \cup {Container("other", 1, <<>>)}
        \cup {Container("sentry", 1, <<Item("", v)>>) : v \in {Str("a")} \cup refs}
Outer(around) ==
    LET inner == Inner(around \cup {2})
    IN  {Container("list", 2, items) :
            items \in SeqUpTo(Items({""}, inner \cup {Str("a"), Ref(2)}), 2)}
        \cup {Container("sentry", 2, <<Item("", v)>>) : v \in inner}
Values(around) ==
    {Container("list", 3, items) :
        items \in {<<Item("", v), Item("", w)>> :
                      v \in Inner(around \cup {3}), w \in Inner(around \cup {3})}
                  \cup {<<Item("", v), Item("", v), Item("", Str("a"))>> :
                           v \in Outer(around \cup {3})}}
Serializations ==
    [do : {"serialize"},
     value : Values({}) \cup {Container("map", 4, <<Item("name", v)>>) : v \in Values({4})}]

Keys == {"password", "custom", "name", "Cookie"}
Texts == {Str("plain"), Str("card"), NoneValue}
PairLists == {Pairs(<<Pair(k, v, n), Pair("password", "plain", 2)>>) :
                k \in {"name", "custom"}, v \in {"plain", "card"}, n \in {1, 2, 3}}
InnerData ==
    {Container("map", 1, items) :
        items \in SeqUpTo(Items({"password", "name"}, {Str("plain"), Str("card"), Ref(2)}), 1)}
    \cup {Container("list", 1, items) :
             items \in SeqUpTo(Items({""}, {Str("plain"), Str("card"), Ref(2)}), 1)}
    \cup {Container("other", 1, <<>>)}
OuterData ==
    {Container("map", 2, items) :
        items \in SeqUpTo(Items(Keys, Texts \cup InnerData), 1)
                  \cup {<<Item(k, v), Item("name", v)>> : k \in Keys, v \in InnerData}}
    \cup {Container("list", 2, <<Item("", v), Item("", v)>>) : v \in InnerData \cup Texts}
    \cup Texts
Headers == {Container("map", 2, <<Item("Cookie", v), Item("name", w)>>) : v \in PairLists, w \in Texts}
Sanitizings ==
    [do : {"sanitize"}, processor : Processors, place : Places, value : OuterData]
    \cup [do : {"sanitize"}, processor : Processors, place : HttpPlaces, value : PairLists]
    \cup [do : {"sanitize"}, processor : Processors, place : {"headers"}, value : Headers]

-----------------------------------------------------------------------------

ValueInit ==
    /\ input \in Serializations \/ input \in Sanitizings
    /\ result = None

SerializeValue == Asked("serialize") /\ Answer(TransformCall(input.value))
SanitizeValue ==
    Asked("sanitize") /\ Answer(ProcessTwice(input.processor, input.place, input.value))

ValueNext == SerializeValue \/ SanitizeValue

-----------------------------------------------------------------------------
(* Properties. *)

(* transform() ends with a JSON-safe value that is no deeper than max_depth *)
(* and no wider than list_max_length, in which whatever was cyclic has been *)
(* cut, and leaves its context of containers empty, whatever is cyclic,     *)
(* shared or fails: what an item is turned into depends on the item and on  *)
(* what it is inside of, not on what came before.                           *)
RECURSIVE Safe(_, _)
Safe(v, depth) ==
    /\ v.kind \in {"list", "map", "text", "none"}
    /\ v.kind \in {"list", "map"} =>
         /\ depth >= 1 /\ Len(v.items) <= ListMax
         /\ \A i \in DOMAIN v.items : Safe(v.items[i].value, depth - 1)

Serialized ==
    Answered("serialize") =>
        /\ result.context = {}
        /\ Safe(result.out, MaxDepth)
        /\ \A i \in DOMAIN result.out.items :
              result.out.items[i].value =
                  Recurse(input.value.items[i].value, 0, {input.value.id}).out

(* The leaves of a value, each with the keys it is under. *)
Unsplit(value) == [kind |-> "unsplit", is |-> value]
RECURSIVE Leaves(_, _)
Leaves(v, keys) ==
    CASE v.kind \in {"list", "map"} ->
            UNION {Leaves(v.items[i].value, keys \cup {v.items[i].key}) : i \in DOMAIN v.items}
      [] v.kind = "pairs" ->
            {<<keys \cup {p.key}, IF p.pieces = 2 THEN Str(p.value) ELSE Unsplit(p.value)>> :
                p \in ToSet(v.pairs)}
      [] v.kind = "ref" -> {<<keys, Cycle>>}
      [] OTHER -> {<<keys, v>>}

(* Of the exceptions' frames, the request and the extra data, nothing but   *)
(* the mask is left under a key that is looked for, or of a card number,    *)
(* and all else is as it was (varmap(), SanitizeKeysProcessor). The request *)
(* belongs to the context and is changed in place: the next event of the    *)
(* context finds it masked and has the same (Client.build_msg()).           *)
(* Not so, for all that the docstring of SanitizePasswordsProcessor says:   *)
(* a piece of a cookie or a query string without just one "=" stays as it   *)
(* is, and so do the frames of a message, which process() does not look at; *)
(* headers that are None or whose Cookie is no text raise.                  *)
Masked ==
    Answered("sanitize") =>
        LET p == input.processor
            looked(leaf) == leaf[1] \cap SensitiveKeys(p) # {}
            card(leaf) == p = "SanitizePasswords" /\ leaf[2].kind = "text" /\ leaf[2].is = "card"
            unsplit(leaf) == leaf[2].kind = "unsplit"
            before == Leaves(input.value, {})
            after == Leaves(result.once, {})
            raises == input.value.kind = "none"
                      \/ /\ input.place = "headers" /\ input.value.kind = "map"
                         /\ \E item \in ToSet(input.value.items) :
                               item.key = "Cookie" /\ item.value.kind \notin {"text", "pairs"}
        IN  p \in Sanitizers /\ input.place \in HttpPlaces \cup {"vars", "extra"} /\ ~ raises =>
                /\ \A leaf \in after :
                      looked(leaf) \/ card(leaf) =>
                          leaf[2] \in {Mask, NoneValue} \/ (unsplit(leaf) /\ leaf \in before)
                /\ \A leaf \in before :
                      unsplit(leaf) \/ ~ (looked(leaf) \/ card(leaf)) => leaf \in after
                /\ \A leaf \in after : leaf[2] \notin {Mask, NoneValue} => leaf \in before
                /\ result.again = result.once
=============================================================================
