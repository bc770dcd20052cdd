------------------------------- MODULE Sanitizing -------------------------------
(***************************************************************************)
(* raven.processors and varmap(): what a processor does to a value, by the *)
(* place of the event the value is in. The keys that a processor looks for *)
(* are those that contain one of its words; a text "card" matches          *)
(* VALUES_RE.                                                              *)
(***************************************************************************)
EXTENDS PyValues

Processors == {"RemovePostData", "RemoveStackLocals", "SanitizeKeys", "SanitizePasswords"}
Sanitizers == {"SanitizeKeys", "SanitizePasswords"}

(* Where a value may be: the request's fields, the variables of a frame of *)
(* an exception ("vars") or of the stack of a message ("stack"), the extra *)
(* data, the tags.                                                         *)
HttpPlaces == {"data", "cookies", "headers", "env", "query_string"}
Places == HttpPlaces \cup {"url", "vars", "stack", "extra", "tags"}

Mask == Str("********")
Gone == [kind |-> "gone"]

(* sanitize_keys of the client and KEYS *)
SensitiveKeys(processor) == IF processor = "SanitizeKeys" THEN {"custom"} ELSE {"password"}

Sanitize(processor, key, v) ==
    LET byKey == IF v.kind # "none" /\ key \in SensitiveKeys(processor) THEN Mask ELSE v
    IN  IF processor = "SanitizePasswords" /\ byKey = Str("card") THEN Mask ELSE byKey

(* varmap() adds what it enters to its context and deletes it in the end. *)
Delete(context, v) == context \ {v.id}

RECURSIVE Varmap(_, _, _, _)

(* The elements of a list have the name of the list; what func() leaves of *)
(* a mapping is walked by its keys; namedtuples, sets and other objects    *)
(* ("other") are values as a whole.                                        *)
VarmapItems(processor, name, v, context) ==
    FoldLeft(LAMBDA acc, item :
                LET key == IF v.kind = "list" THEN name ELSE item.key
                    inner == Varmap(processor, key, item.value, acc.context)
                IN  [out |-> Append(acc.out, Item(item.key, inner.out)),
                     context |-> inner.context],
             [out |-> <<>>, context |-> context], v.items)

Walked(processor, name, v) ==
    v.kind = "list" \/ (v.kind = "map" /\ Sanitize(processor, name, v) = v)

Varmap(processor, name, v, context) ==
    IF ~ HasId(v) THEN [out |-> Sanitize(processor, name, v), context |-> context]
    ELSE IF v.id \in context
    THEN [out |-> Sanitize(processor, name, Cycle), context |-> context]
    ELSE IF ~ Walked(processor, name, v)
    THEN [out |-> Sanitize(processor, name, v), context |-> Delete(context \cup {v.id}, v)]
    ELSE LET items == VarmapItems(processor, name, v, context \cup {v.id})
         IN  [out |-> Container(v.kind, v.id, items.out),
              context |-> Delete(items.context, v)]

SanitizeAll(processor, v) == Varmap(processor, "", v, {}).out

(* _sanitize_keyvals() leaves a piece alone that is not of the form k=v. *)
SanitizeKeyvals(processor, v) ==
    Pairs([i \in DOMAIN v.pairs |->
             LET pair == v.pairs[i]
             IN  IF pair.pieces = 2
                 THEN [pair EXCEPT !.value = Sanitize(processor, pair.key, Str(@)).is]
                 ELSE pair])

(* A plausible slip: the cookies of the headers are left as they are. *)
CookieAsIs(processor, item) == item

(* Only a text can be split; a cookie without "=" is left alone. *)
SanitizeCookie(processor, item) ==
    CASE item.key = "Cookie" /\ item.value.kind = "pairs" ->
            Item("Cookie", SanitizeKeyvals(processor, item.value))
      [] item.key = "Cookie" /\ item.value.kind \notin {"text", "pairs"} -> Item("Cookie", Str("AttributeError"))
      [] OTHER -> item

(* filter_http() of one field; 'Cookie' in None raises TypeError. *)
FilterHttp(processor, place, v) ==
    IF v.kind = "pairs" THEN SanitizeKeyvals(processor, v)
    ELSE LET mapped == SanitizeAll(processor, v)
         IN  IF place # "headers" THEN mapped
             ELSE IF mapped.kind = "none" THEN Str("TypeError")
             ELSE IF mapped.kind # "map" THEN mapped
             ELSE [mapped EXCEPT !.items =
                     [i \in DOMAIN @ |-> SanitizeCookie(processor, @[i])]]

(* Processor.process(): the stacktraces of the values of an exception, the *)
(* request and the extra data. The stack of a message, the tags and the    *)
(* breadcrumbs, which are added later, are none of its business.           *)
Process(processor, place, v) ==
    IF processor = "RemovePostData" THEN IF place = "data" THEN Gone ELSE v
    ELSE IF processor = "RemoveStackLocals" THEN IF place = "vars" THEN Gone ELSE v
    ELSE IF place \in HttpPlaces THEN FilterHttp(processor, place, v)
    ELSE IF place \in {"vars", "extra"} THEN SanitizeAll(processor, v) ELSE v

(* The request is changed in place and belongs to the context: the next    *)
(* event of the context gives it to the processors once more.              *)
ProcessTwice(processor, place, v) ==
    LET once == Process(processor, place, v)
    IN  [once |-> once,
         again |-> IF once = Gone THEN Gone
                   ELSE Process(processor, place, IF place \in HttpPlaces THEN once ELSE v)]

=============================================================================
