----------------------------- MODULE PayloadProofs -----------------------------
(***************************************************************************)
(* Proofs about what an event carries, of all inputs: the values that      *)
(* build_msg() takes from the call, the context and the client, and the    *)
(* crumbs of HTTP requests, log calls, hooked libraries and queries, after *)
(* any number of calls.                                                    *)
(***************************************************************************)
EXTENDS EventProofs

-----------------------------------------------------------------------------
(* What an event says *)

(* Two dictionaries say the same of a key. *)
Agree(a, b, k) ==
    /\ k \in DOMAIN a <=> k \in DOMAIN b
    /\ k \in DOMAIN b => a[k] = b[k]

(* What they agree on they have in common. *)
LEMMA AgreeOn ==
    ASSUME NEW a, NEW b, NEW k, Agree(a, b, k)
    PROVE  /\ \A c : Agree(b, c, k) => Agree(a, c, k)
           /\ \A x : Get(a, k, x) = Get(b, k, x)
           /\ Truthy(a, k) = Truthy(b, k)
  <1>1. (k \in DOMAIN a <=> k \in DOMAIN b) /\ (k \in DOMAIN b => a[k] = b[k])
    BY DEF Agree
  <1>2. \A c : Agree(b, c, k) => Agree(a, c, k)
    BY <1>1 DEF Agree
  <1>3. \A x : Get(a, k, x) = Get(b, k, x)
    BY <1>1 DEF Get
  <1>4. Truthy(a, k) <=> Truthy(b, k)
    BY <1>1 DEF Truthy
  <1>5. Truthy(a, k) \in BOOLEAN /\ Truthy(b, k) \in BOOLEAN
    BY Zenon DEF Truthy
  <1> QED BY <1>2, <1>3, <1>4, <1>5, Zenon

(* Putting a key says nothing of the others. *)
LEMMA PutSays ==
    ASSUME NEW d, NEW key, NEW v
    PROVE  /\ \A k : k # key => Agree(Put(d, key, v), d, k)
           /\ key \in DOMAIN Put(d, key, v) /\ Put(d, key, v)[key] = v
  BY DEF Put, Agree

(* Nothing else is put, *)
LEMMA PutIfSays ==
    ASSUME NEW test, NEW d, NEW key, NEW v
    PROVE  /\ \A k : k # key => Agree(PutIf(test, d, key, v), d, k)
           /\ test => key \in DOMAIN PutIf(test, d, key, v) /\ PutIf(test, d, key, v)[key] = v
           /\ ~ test => PutIf(test, d, key, v) = d
  <1>1. CASE test
    BY <1>1 DEF PutIf, Put, Agree
  <1>2. CASE ~ test
    BY <1>2, Zenon DEF PutIf, Agree
  <1> QED BY <1>1, <1>2

(* and nothing else is given a default. *)
LEMMA DefaultSays ==
    ASSUME NEW d, NEW key, NEW v
    PROVE  /\ \A k : k # key => Agree(SetDefault(d, key, v), d, k)
           /\ key \in DOMAIN SetDefault(d, key, v)
           /\ key \in DOMAIN d => SetDefault(d, key, v) = d
           /\ key \notin DOMAIN d => SetDefault(d, key, v)[key] = v
  <1>1. CASE key \notin DOMAIN d
    BY <1>1 DEF SetDefault, Put, Agree
  <1>2. CASE key \in DOMAIN d
    BY <1>2, Zenon DEF SetDefault, Agree
  <1> QED BY <1>1, <1>2

(* Of two dictionaries, what the other one says is said. *)
LEMMA UpdateSays ==
    ASSUME NEW d, NEW other, NEW k
    PROVE  /\ DOMAIN Update(d, other) = DOMAIN d \cup DOMAIN other
           /\ k \in DOMAIN other => Agree(Update(d, other), other, k)
           /\ k \notin DOMAIN other => Agree(Update(d, other), d, k)
  BY DEF Update, Agree

(* What the data and the context, and what they leave open, say. *)
LEMMA BaseSays ==
    ASSUME NEW context, NEW data, NEW k
    PROVE  /\ k \in DOMAIN data => Agree(Base(context, data), data, k)
           /\ k \notin DOMAIN data /\ k \in DOMAIN context => Agree(Base(context, data), context, k)
           /\ k \notin DOMAIN data /\ k \notin DOMAIN context =>
                 IF k \in {"tags", "extra"}
                 THEN k \in DOMAIN Base(context, data) /\ Base(context, data)[k] = <<>>
                 ELSE k \notin DOMAIN Base(context, data)
           /\ {"tags", "extra"} \subseteq DOMAIN Base(context, data)
  <1> DEFINE merged == Update(context, data)
             tagged == SetDefault(merged, "tags", <<>>)
             base == SetDefault(tagged, "extra", <<>>)
  <1>1. Base(context, data) = base
    BY Zenon DEF Base
  <1>4. /\ DOMAIN merged = DOMAIN context \cup DOMAIN data
        /\ k \in DOMAIN data => Agree(merged, data, k)
        /\ k \notin DOMAIN data => Agree(merged, context, k)
    BY UpdateSays
  <1> HIDE DEF merged
  <1>6. /\ k # "tags" => Agree(tagged, merged, k)
        /\ "tags" \in DOMAIN tagged
        /\ "tags" \in DOMAIN merged => tagged = merged
        /\ "tags" \notin DOMAIN merged => tagged["tags"] = <<>>
    BY DefaultSays, Zenon
  <1> HIDE DEF tagged
  <1>7. /\ k # "extra" => Agree(base, tagged, k)
        /\ Agree(base, tagged, "tags")
        /\ "extra" \in DOMAIN base
        /\ "extra" \in DOMAIN tagged => base = tagged
        /\ "extra" \notin DOMAIN tagged => base["extra"] = <<>>
    <2>1. "tags" # "extra"
      OBVIOUS
    <2> QED BY <2>1, DefaultSays, Zenon
  <1> HIDE DEF base
  <1>8. k \in DOMAIN merged => Agree(base, merged, k)
    <2>1. k \in DOMAIN merged => Agree(tagged, merged, k)
      BY <1>6 DEF Agree
    <2>2. k \in DOMAIN tagged => Agree(base, tagged, k)
      BY <1>7 DEF Agree
    <2> QED BY <2>1, <2>2 DEF Agree
  <1>9. k \notin DOMAIN merged =>
           IF k \in {"tags", "extra"} THEN k \in DOMAIN base /\ base[k] = <<>>
           ELSE k \notin DOMAIN base
    BY <1>6, <1>7 DEF Agree
  <1>10. {"tags", "extra"} \subseteq DOMAIN base
    BY <1>6, <1>7 DEF Agree
  <1>11. k \in DOMAIN data => Agree(base, data, k)
    BY <1>4, <1>8, AgreeOn, Zenon
  <1>12. k \notin DOMAIN data /\ k \in DOMAIN context => Agree(base, context, k)
    <2>1. k \in DOMAIN context => k \in DOMAIN merged
      BY <1>4
    <2> QED BY <1>4, <1>8, <2>1, AgreeOn, Zenon
  <1>13. k \notin DOMAIN data /\ k \notin DOMAIN context => k \notin DOMAIN merged
    BY <1>4
  <1> QED BY <1>1, <1>9, <1>10, <1>11, <1>12, <1>13, Zenon

(* Three dictionaries, one of which is there, merged. *)
OrEmpty(dict) == Or(dict, <<>>)
MergeIs(merged, client, own, call) ==
    /\ DOMAIN merged = DOMAIN client \cup DOMAIN OrEmpty(own) \cup DOMAIN OrEmpty(call)
    /\ \A k \in DOMAIN merged :
          merged[k] = IF k \in DOMAIN OrEmpty(call) THEN OrEmpty(call)[k]
                      ELSE IF k \in DOMAIN OrEmpty(own) THEN OrEmpty(own)[k] ELSE client[k]

(* merge_dicts() takes the last that says anything. *)
LEMMA MergeSays ==
    ASSUME NEW client, client # None, NEW own, NEW call
    PROVE  MergeIs(Merge(Merge(Merge(<<>>, client), own), call), client, own, call)
  <1> DEFINE one == Merge(<<>>, client)
             two == Merge(one, own)
             three == Merge(two, call)
  <1>1. DOMAIN one = DOMAIN client /\ \A k \in DOMAIN client : one[k] = client[k]
    BY DEF Merge, Update
  <1> HIDE DEF one
  <1>2. \A out, dict : /\ DOMAIN Merge(out, dict) = DOMAIN out \cup DOMAIN OrEmpty(dict)
                       /\ \A k \in DOMAIN Merge(out, dict) :
                             Merge(out, dict)[k] =
                                 IF k \in DOMAIN OrEmpty(dict) THEN OrEmpty(dict)[k] ELSE out[k]
    <2> TAKE out, dict
    <2>1. CASE dict = None
      BY <2>1 DEF Merge, OrEmpty, Or
    <2>2. CASE dict # None
      BY <2>2 DEF Merge, OrEmpty, Or, Update
    <2> QED BY <2>1, <2>2
  <1>3. /\ DOMAIN two = DOMAIN one \cup DOMAIN OrEmpty(own)
        /\ \A k \in DOMAIN two :
              two[k] = IF k \in DOMAIN OrEmpty(own) THEN OrEmpty(own)[k] ELSE one[k]
    BY <1>2
  <1> HIDE DEF two
  <1>4. /\ DOMAIN three = DOMAIN two \cup DOMAIN OrEmpty(call)
        /\ \A k \in DOMAIN three :
              three[k] = IF k \in DOMAIN OrEmpty(call) THEN OrEmpty(call)[k] ELSE two[k]
    BY <1>2
  <1> HIDE DEF three
  <1>5. MergeIs(three, client, own, call)
    BY <1>1, <1>3, <1>4 DEF MergeIs
  <1> QED BY <1>5 DEF three, two, one

(* What build_msg() says, of what the data and the context say. *)
Automatic(client, event, base) ==
    client.autoLogStacks /\ event # "Exception" /\ "exception" \notin DOMAIN base
Stacked(client, event, base, call) ==
    LET stack == Get(call, "stack", None)
    IN  \/ "stacktrace" \in DOMAIN base
        \/ IF stack = None THEN Automatic(client, event, base) ELSE stack # FALSE
Built(msg, client, event, base, call) ==
    /\ "tags" \in DOMAIN msg /\ msg["tags"] = Tags(client, base, call)
    /\ "extra" \in DOMAIN msg /\ msg["extra"] = Extra(client, base, call)
    /\ "site" \notin DOMAIN msg
    /\ "level" \in DOMAIN msg
    /\ msg["level"] = Or(Get(base, "level", None), Or(Get(call, "level", None), "error"))
    /\ client.release # None => "release" \in DOMAIN msg /\ msg["release"] = client.release
    /\ Agree(msg, base, "user")
    /\ "stacktrace" \in DOMAIN msg <=> Stacked(client, event, base, call)
    /\ "transaction" \in DOMAIN msg <=>
          \/ "transaction" \in DOMAIN base
          \/ client.transaction # None /\ Get(msg, "culprit", None) = None
    /\ "breadcrumbs" \in DOMAIN msg =>
          msg["breadcrumbs"] = IF "breadcrumbs" \in DOMAIN base THEN base["breadcrumbs"]
                               ELSE client.crumbs

(* The event's own findings give way to what is there. *)
LEMMA CapturedSays ==
    ASSUME NEW event \in {"Exception", "Message", "Query"}, NEW call, NEW base
    PROVE  LET captured == Update(Capture(event, call), base)
           IN  /\ \A k : k \in DOMAIN base => Agree(captured, base, k)
               /\ \A k \in {"tags", "extra", "site", "server_name", "release", "environment", "user",
                            "stacktrace", "transaction", "culprit", "breadcrumbs"} :
                     Agree(captured, base, k)
               /\ "exception" \in DOMAIN captured <=>
                     event = "Exception" \/ "exception" \in DOMAIN base
               /\ "level" \notin DOMAIN base =>
                     /\ "level" \in DOMAIN captured <=> event = "Exception"
                     /\ event = "Exception" => captured["level"] = Get(call, "level", "error")
  <1> DEFINE found == Capture(event, call)
             captured == Update(found, base)
             level == Get(call, "level", "error")
             text == Or(Get(call, "formatted", None), "event")
  <1>1. CASE event = "Exception"
    <2> HIDE DEF level
    <2>1. found = [level |-> level, exception |-> "event"]
      BY <1>1 DEF Capture, level
    <2>2. DOMAIN found = {"level", "exception"} /\ found["level"] = level
      BY <2>1
    <2> HIDE DEF found
    <2> QED BY <1>1, <2>2 DEF Update, Agree, level, found
  <1>2. CASE event = "Message"
    <2> HIDE DEF text
    <2>1. found = Put([message |-> text], "sentry.interfaces.Message", "event")
      BY <1>2 DEF Capture, text
    <2>2. DOMAIN found = {"message", "sentry.interfaces.Message"}
      BY <2>1 DEF Put
    <2> HIDE DEF found
    <2> QED BY <1>2, <2>2 DEF Update, Agree, found
  <1>3. CASE event = "Query"
    <2>1. found = Put(<<>>, "sentry.interfaces.Query", "event")
      BY <1>3 DEF Capture
    <2>2. DOMAIN found = {"sentry.interfaces.Query"}
      BY <2>1 DEF Put
    <2> HIDE DEF found
    <2> QED BY <1>3, <2>2 DEF Update, Agree, found
  <1> QED BY <1>1, <1>2, <1>3

(* A stack of its own. *)
StackAsked(client, data, call) ==
    IF Get(call, "stack", None) = None
    THEN client.autoLogStacks /\ "exception" \notin DOMAIN data
    ELSE Get(call, "stack", None) # FALSE

(* The stack is there when the call or the data ask for it. *)
LEMMA StackSays ==
    ASSUME NEW client, NEW data, NEW call, client.autoLogStacks \in BOOLEAN
    PROVE  /\ \A k : k # "stacktrace" => Agree(WithStack(client, data, call), data, k)
           /\ "stacktrace" \in DOMAIN WithStack(client, data, call) <=>
                 "stacktrace" \in DOMAIN data \/ StackAsked(client, data, call)
  <1> DEFINE asked == Get(call, "stack", None)
             stack == IF asked = None /\ "exception" \notin DOMAIN data
                      THEN client.autoLogStacks ELSE asked
             new == WithStack(client, data, call)
             put == Put(data, "stacktrace", "event")
  <1>1. new = IF stack \in {None, FALSE} \/ "stacktrace" \in DOMAIN data THEN data ELSE put
    BY Zenon DEF WithStack
  <1>2. stack \in {None, FALSE} <=>
           ~ (IF asked = None THEN client.autoLogStacks /\ "exception" \notin DOMAIN data
              ELSE asked # FALSE)
    BY NoneAssumption, Zenon
  <1>3. /\ \A k : k # "stacktrace" => Agree(put, data, k) /\ Agree(data, data, k)
        /\ "stacktrace" \in DOMAIN put
    BY DEF Put, Agree
  <1> HIDE DEF stack, put, new, asked
  <1>4. CASE stack \in {None, FALSE} \/ "stacktrace" \in DOMAIN data
    BY <1>1, <1>2, <1>3, <1>4, Zenon DEF new, asked, StackAsked
  <1>5. CASE ~ (stack \in {None, FALSE} \/ "stacktrace" \in DOMAIN data)
    BY <1>1, <1>2, <1>3, <1>5, Zenon DEF new, asked, StackAsked
  <1> QED BY <1>4, <1>5

(* The defaults are for what is missing. *)
LEMMA DefaultsSay ==
    ASSUME NEW client, NEW data, NEW call
    PROVE  LET full == WithDefaults(client, data, call)
           IN  /\ \A k : k \notin {"level", "server_name", "release", "environment"} =>
                            Agree(full, data, k)
               /\ full["level"] = IF Truthy(data, "level") THEN data["level"]
                                  ELSE Or(Get(call, "level", None), "error")
               /\ "level" \in DOMAIN full
               /\ client.release # None =>
                     "release" \in DOMAIN full /\ full["release"] = client.release
  <1> DEFINE value == Or(Get(call, "level", None), "error")
             level == PutIf(~ Truthy(data, "level"), data, "level", value)
             name == PutIf(~ Truthy(data, "server_name"), level, "server_name", "client")
             release == PutIf(client.release # None, name, "release", client.release)
             full == PutIf(client.environment # None, release, "environment", client.environment)
  <1>1. WithDefaults(client, data, call) = full
    BY Zenon DEF WithDefaults
  <1>2. /\ \A k : k # "level" => Agree(level, data, k)
        /\ ~ Truthy(data, "level") => "level" \in DOMAIN level /\ level["level"] = value
        /\ Truthy(data, "level") => "level" \in DOMAIN level /\ level["level"] = data["level"]
    <2> HIDE DEF value
    <2>1. Truthy(data, "level") => "level" \in DOMAIN data
      BY DEF Truthy
    <2> QED BY <2>1 DEF PutIf, Put, Agree
  <1> HIDE DEF value, level
  <1>3. \A k : k # "server_name" => Agree(name, level, k)
    BY PutIfSays, Zenon
  <1> HIDE DEF name
  <1>4. /\ \A k : k # "release" => Agree(release, name, k)
        /\ client.release # None => "release" \in DOMAIN release /\ release["release"] = client.release
    BY DEF PutIf, Put, Agree
  <1> HIDE DEF release
  <1>5. \A k : k # "environment" => Agree(full, release, k)
    BY PutIfSays, Zenon
  <1> HIDE DEF full
  <1>6. \A k : k \notin {"level", "server_name", "release", "environment"} => Agree(full, data, k)
    <2> TAKE k
    <2>1. SUFFICES ASSUME k \notin {"level", "server_name", "release", "environment"}
                   PROVE  Agree(full, data, k)
      OBVIOUS
    <2>2. Agree(full, release, k) /\ Agree(release, name, k) /\ Agree(name, level, k)
          /\ Agree(level, data, k)
      BY <1>2, <1>3, <1>4, <1>5, <2>1
    <2> QED BY <2>2, AgreeOn, Zenon
  <1>7. Agree(full, level, "level")
    <2>1. Agree(full, release, "level") /\ Agree(release, name, "level")
          /\ Agree(name, level, "level")
      BY <1>3, <1>4, <1>5
    <2> QED BY <2>1, AgreeOn, Zenon
  <1>8. Agree(full, release, "release")
    BY <1>5
  <1>9. "level" \in DOMAIN full /\ full["level"] = IF Truthy(data, "level") THEN data["level"]
                                                   ELSE value
    BY <1>2, <1>7 DEF Agree
  <1>10. client.release # None => "release" \in DOMAIN full /\ full["release"] = client.release
    BY <1>4, <1>8 DEF Agree
  <1> QED BY <1>1, <1>6, <1>9, <1>10, Zenon DEF value

(* All that is put last: the tags, extra info and what names the event. *)
Finished(client, full, tags, extra, print, text) ==
    LET cut == [key \in DOMAIN full \ {"site"} |-> full[key]]
        tagged == Put(Put(cut, "tags", tags), "extra", extra)
        named == WithCulprit(client, tagged, Get(full, "culprit", None))
        marked == PutIf(print # None, named, "fingerprint", print)
        texted == SetDefault(marked, "message", text)
    IN  IF client.crumbs = None THEN texted
        ELSE SetDefault(texted, "breadcrumbs", client.crumbs)

(* What is left of build_msg() keeps what the event says. *)
LEMMA RestSays ==
    ASSUME NEW client, NEW full, NEW tags, NEW extra, NEW print, NEW text, NEW msg,
           msg = Finished(client, full, tags, extra, print, text)
    PROVE  /\ \A k \in {"level", "release", "user", "stacktrace"} : Agree(msg, full, k)
           /\ "site" \notin DOMAIN msg
           /\ "tags" \in DOMAIN msg /\ msg["tags"] = tags
           /\ "extra" \in DOMAIN msg /\ msg["extra"] = extra
           /\ "transaction" \in DOMAIN msg <=>
                 \/ "transaction" \in DOMAIN full
                 \/ client.transaction # None /\ Get(msg, "culprit", None) = None
           /\ "breadcrumbs" \in DOMAIN full => Agree(msg, full, "breadcrumbs")
           /\ "breadcrumbs" \in DOMAIN msg /\ "breadcrumbs" \notin DOMAIN full =>
                 msg["breadcrumbs"] = client.crumbs
  <1> DEFINE cut == [key \in DOMAIN full \ {"site"} |-> full[key]]
             labelled == Put(cut, "tags", tags)
             tagged == Put(labelled, "extra", extra)
             culprit == Get(full, "culprit", None)
             named == WithCulprit(client, tagged, culprit)
             marked == PutIf(print # None, named, "fingerprint", print)
             texted == SetDefault(marked, "message", text)
             crumbed == SetDefault(texted, "breadcrumbs", client.crumbs)
  <1>1. msg = IF client.crumbs = None THEN texted ELSE crumbed
    BY Zenon DEF Finished
  <1>2. (\A k : k # "site" => Agree(cut, full, k)) /\ "site" \notin DOMAIN cut
    BY DEF Agree
  <1> HIDE DEF cut
  <1>3. /\ \A k : k # "tags" => Agree(labelled, cut, k)
        /\ "tags" \in DOMAIN labelled /\ labelled["tags"] = tags
    BY DEF Put, Agree
  <1> HIDE DEF labelled
  <1>4. /\ \A k : k # "extra" => Agree(tagged, labelled, k)
        /\ "extra" \in DOMAIN tagged /\ tagged["extra"] = extra
    BY DEF Put, Agree
  <1> HIDE DEF tagged
  <1>5. /\ \A k : k \notin {"culprit", "transaction"} => Agree(named, tagged, k)
        /\ culprit # None => Agree(named, tagged, "transaction") /\ Get(named, "culprit", None) = culprit
        /\ culprit = None =>
              /\ Agree(named, tagged, "culprit")
              /\ "transaction" \in DOMAIN named <=>
                    "transaction" \in DOMAIN tagged \/ client.transaction # None
    BY DEF WithCulprit, PutIf, Put, Agree, Get
  <1> HIDE DEF named
  <1>6. \A k : k # "fingerprint" => Agree(marked, named, k)
    BY DEF PutIf, Put, Agree
  <1> HIDE DEF marked
  <1>7. \A k : k # "message" => Agree(texted, marked, k)
    BY DefaultSays, Zenon
  <1> HIDE DEF texted
  <1>8. /\ \A k : k # "breadcrumbs" => Agree(crumbed, texted, k)
        /\ "breadcrumbs" \in DOMAIN texted => crumbed = texted
        /\ "breadcrumbs" \notin DOMAIN texted => crumbed["breadcrumbs"] = client.crumbs
    BY DefaultSays, Zenon
  <1> HIDE DEF crumbed
  <1>9. /\ \A k : k # "breadcrumbs" => Agree(msg, texted, k)
        /\ "breadcrumbs" \in DOMAIN texted => msg = texted
        /\ "breadcrumbs" \in DOMAIN msg /\ "breadcrumbs" \notin DOMAIN texted =>
              msg["breadcrumbs"] = client.crumbs
    BY <1>1, <1>8, Zenon DEF Agree
  <1>10. \A k : k \notin {"breadcrumbs", "message", "fingerprint"} => Agree(msg, named, k)
    <2> TAKE k
    <2>1. SUFFICES ASSUME k \notin {"breadcrumbs", "message", "fingerprint"}
                   PROVE  Agree(msg, named, k)
      OBVIOUS
    <2>2. Agree(msg, texted, k) /\ Agree(texted, marked, k) /\ Agree(marked, named, k)
      BY <1>6, <1>7, <1>9, <2>1
    <2> QED BY <2>2, AgreeOn, Zenon
  <1>11. \A k : k \notin {"tags", "extra", "site"} => Agree(tagged, full, k)
    <2> TAKE k
    <2>1. SUFFICES ASSUME k \notin {"tags", "extra", "site"}
                   PROVE  Agree(tagged, full, k)
      OBVIOUS
    <2>2. Agree(tagged, labelled, k) /\ Agree(labelled, cut, k) /\ Agree(cut, full, k)
      BY <1>2, <1>3, <1>4, <2>1
    <2> QED BY <2>2, AgreeOn, Zenon
  <1>12. \A k \in {"level", "release", "user", "stacktrace"} : Agree(msg, full, k)
    <2> TAKE k \in {"level", "release", "user", "stacktrace"}
    <2>1. Agree(msg, named, k) /\ Agree(named, tagged, k) /\ Agree(tagged, full, k)
      BY <1>5, <1>10, <1>11
    <2> QED BY <2>1, AgreeOn, Zenon
  <1>13. \A k \in {"tags", "extra", "site"} : Agree(msg, tagged, k)
    <2> TAKE k \in {"tags", "extra", "site"}
    <2>1. Agree(msg, named, k) /\ Agree(named, tagged, k)
      BY <1>5, <1>10
    <2> QED BY <2>1, AgreeOn, Zenon
  <1>14. "tags" \in DOMAIN tagged /\ tagged["tags"] = tags
    BY <1>3, <1>4 DEF Agree
  <1>15. "site" \notin DOMAIN tagged
    BY <1>2, <1>3, <1>4 DEF Agree
  <1>16. /\ "site" \notin DOMAIN msg
         /\ "tags" \in DOMAIN msg /\ msg["tags"] = tags
         /\ "extra" \in DOMAIN msg /\ msg["extra"] = extra
    BY <1>4, <1>13, <1>14, <1>15 DEF Agree
  <1>17. "transaction" \in DOMAIN msg <=>
            \/ "transaction" \in DOMAIN full
            \/ client.transaction # None /\ Get(msg, "culprit", None) = None
    <2>1. Agree(msg, named, "transaction") /\ Agree(msg, named, "culprit")
      BY <1>10
    <2>2. Agree(tagged, full, "transaction") /\ Agree(tagged, full, "culprit")
      BY <1>11
    <2>3. Get(msg, "culprit", None) = Get(named, "culprit", None)
      BY <2>1 DEF Agree, Get
    <2>4. Get(tagged, "culprit", None) = culprit
      BY <2>2 DEF Agree, Get
    <2>5. /\ "transaction" \in DOMAIN msg <=> "transaction" \in DOMAIN named
          /\ "transaction" \in DOMAIN tagged <=> "transaction" \in DOMAIN full
      BY <2>1, <2>2 DEF Agree
    <2>6. CASE culprit # None
      <3>1. "transaction" \in DOMAIN named <=> "transaction" \in DOMAIN tagged
        BY <1>5, <2>6 DEF Agree
      <3> QED BY <1>5, <2>3, <2>5, <2>6, <3>1, Zenon
    <2>7. CASE culprit = None
      <3>1. Agree(named, tagged, "culprit")
        BY <1>5, <2>7
      <3>2. Get(named, "culprit", None) = Get(tagged, "culprit", None)
        BY <3>1 DEF Agree, Get
      <3> QED BY <1>5, <2>3, <2>4, <2>5, <2>7, <3>2, Zenon
    <2> QED BY <2>6, <2>7
  <1>18. Agree(texted, full, "breadcrumbs")
    <2>1. Agree(texted, marked, "breadcrumbs") /\ Agree(marked, named, "breadcrumbs")
          /\ Agree(named, tagged, "breadcrumbs") /\ Agree(tagged, full, "breadcrumbs")
      BY <1>5, <1>6, <1>7, <1>11
    <2> QED BY <2>1, AgreeOn, Zenon
  <1>19. /\ "breadcrumbs" \in DOMAIN full => Agree(msg, full, "breadcrumbs")
         /\ "breadcrumbs" \in DOMAIN msg /\ "breadcrumbs" \notin DOMAIN full =>
               msg["breadcrumbs"] = client.crumbs
    BY <1>9, <1>18, Zenon DEF Agree
  <1> QED BY <1>12, <1>16, <1>17, <1>19, Zenon

(* So build_msg() says that. *)
LEMMA BuildMsgSays ==
    ASSUME NEW client, client.autoLogStacks \in BOOLEAN, NEW context, NEW data, NEW call,
           NEW event \in {"Exception", "Message", "Query"},
           {"tags", "extra"} \subseteq DOMAIN Base(context, data)
    PROVE  Built(BuildMsg(client, context, event, data, call), client, event,
                 Base(context, data), call)
  <1> DEFINE base == Base(context, data)
             captured == Update(Capture(event, call), base)
             stacked == WithStack(client, captured, call)
             full == WithDefaults(client, stacked, call)
             culprit == Get(base, "culprit", None)
             print == Get(call, "fingerprint", None)
             text == Get(call, "message", "event")
             tags == Tags(client, full, call)
             extra == Extra(client, full, call)
             msg == BuildMsg(client, context, event, data, call)
  <1> HIDE DEF base
  <1>2. /\ \A k : k \in DOMAIN base => Agree(captured, base, k)
        /\ \A k \in {"tags", "extra", "site", "server_name", "release", "environment", "user",
                     "stacktrace", "transaction", "culprit", "breadcrumbs"} :
              Agree(captured, base, k)
        /\ "exception" \in DOMAIN captured <=> event = "Exception" \/ "exception" \in DOMAIN base
        /\ "level" \notin DOMAIN base =>
              /\ "level" \in DOMAIN captured <=> event = "Exception"
              /\ event = "Exception" => captured["level"] = Get(call, "level", "error")
    BY CapturedSays, Zenon
  <1> HIDE DEF captured
  <1>3. /\ \A k : k # "stacktrace" => Agree(stacked, captured, k)
        /\ "stacktrace" \in DOMAIN stacked <=>
              "stacktrace" \in DOMAIN captured \/ StackAsked(client, captured, call)
    BY StackSays
  <1> HIDE DEF stacked
  <1>4. /\ \A k : k \notin {"level", "server_name", "release", "environment"} =>
                     Agree(full, stacked, k)
        /\ full["level"] = IF Truthy(stacked, "level") THEN stacked["level"]
                           ELSE Or(Get(call, "level", None), "error")
        /\ "level" \in DOMAIN full
        /\ client.release # None => "release" \in DOMAIN full /\ full["release"] = client.release
    BY DefaultsSay, Zenon
  <1>5. \A k \in {"tags", "extra", "site", "user", "transaction", "culprit", "breadcrumbs"} :
           Agree(full, base, k)
    <2> HIDE DEF full
    <2> TAKE k \in {"tags", "extra", "site", "user", "transaction", "culprit", "breadcrumbs"}
    <2>1. Agree(full, stacked, k) /\ Agree(stacked, captured, k) /\ Agree(captured, base, k)
      BY <1>2, <1>3, <1>4
    <2> QED BY <2>1, AgreeOn, Zenon
  <1>6. tags = Tags(client, base, call) /\ extra = Extra(client, base, call)
    <2> HIDE DEF full
    <2>1. /\ full["tags"] = base["tags"] /\ full["extra"] = base["extra"]
          /\ Agree(full, base, "site")
      BY <1>5 DEF base, Agree
    <2>2. Get(full, "site", None) = Get(base, "site", None)
      BY <2>1 DEF Agree, Get
    <2> QED BY <2>1, <2>2, Zenon DEF Tags, Extra
  <1>7. culprit = Get(full, "culprit", None)
    <2> HIDE DEF full
    <2>1. Agree(full, base, "culprit")
      BY <1>5
    <2> QED BY <2>1 DEF Agree, Get, culprit
  <1>8. full["level"] = Or(Get(base, "level", None), Or(Get(call, "level", None), "error"))
    <2> DEFINE value == Or(Get(call, "level", None), "error")
    <2> HIDE DEF full
    <2>1. Agree(stacked, captured, "level")
      BY <1>3
    <2>2. full["level"] = IF "level" \in DOMAIN captured /\ captured["level"] # None
                          THEN captured["level"] ELSE value
      BY <1>4, <2>1, Zenon DEF Truthy, Agree
    <2>3. CASE "level" \in DOMAIN base
      <3>1. "level" \in DOMAIN captured /\ captured["level"] = base["level"]
        BY <1>2, <2>3 DEF Agree
      <3>2. Get(base, "level", None) = base["level"]
        BY <2>3 DEF Get
      <3> HIDE DEF value
      <3> QED BY <2>2, <3>1, <3>2, Zenon DEF Or, value
    <2>4. CASE "level" \notin DOMAIN base /\ event # "Exception"
      <3>1. "level" \notin DOMAIN captured
        BY <1>2, <2>4
      <3>2. Get(base, "level", None) = None
        BY <2>4 DEF Get
      <3> HIDE DEF value
      <3> QED BY <2>2, <3>1, <3>2, Zenon DEF Or, value
    <2>5. CASE "level" \notin DOMAIN base /\ event = "Exception"
      <3>1. "level" \in DOMAIN captured /\ captured["level"] = Get(call, "level", "error")
        BY <1>2, <2>5
      <3>2. Get(base, "level", None) = None
        BY <2>5 DEF Get
      <3>3. Get(call, "level", "error") # None => value = Get(call, "level", "error")
        BY DEF Get, Or
      <3> HIDE DEF value
      <3> QED BY <2>2, <3>1, <3>2, <3>3, Zenon DEF Or, value
    <2> QED BY <2>3, <2>4, <2>5
  <1>9. "stacktrace" \in DOMAIN full <=> Stacked(client, event, base, call)
    <2> HIDE DEF full
    <2>1. Agree(full, stacked, "stacktrace") /\ Agree(captured, base, "stacktrace")
      BY <1>2, <1>4
    <2> QED BY <1>2, <1>3, <2>1, Zenon DEF Agree, Stacked, StackAsked, Automatic
  <1> HIDE DEF full, print, text, tags, extra, culprit
  <1>1. msg = Finished(client, full, tags, extra, print, text)
    BY <1>7, Zenon DEF BuildMsg, Finished, base, captured, stacked, full, culprit, print, text,
                       tags, extra
  <1> HIDE DEF msg
  <1>10. /\ \A k \in {"level", "release", "user", "stacktrace"} : Agree(msg, full, k)
         /\ "site" \notin DOMAIN msg
         /\ "tags" \in DOMAIN msg /\ msg["tags"] = tags
         /\ "extra" \in DOMAIN msg /\ msg["extra"] = extra
         /\ "transaction" \in DOMAIN msg <=>
               \/ "transaction" \in DOMAIN full
               \/ client.transaction # None /\ Get(msg, "culprit", None) = None
         /\ "breadcrumbs" \in DOMAIN full => Agree(msg, full, "breadcrumbs")
         /\ "breadcrumbs" \in DOMAIN msg /\ "breadcrumbs" \notin DOMAIN full =>
               msg["breadcrumbs"] = client.crumbs
    BY <1>1, RestSays
  <1>11. /\ Agree(msg, full, "level") /\ Agree(msg, full, "release") /\ Agree(msg, full, "user")
         /\ Agree(msg, full, "stacktrace") /\ Agree(full, base, "user")
         /\ Agree(full, base, "transaction") /\ Agree(full, base, "breadcrumbs")
    BY <1>5, <1>10
  <1>12. Agree(msg, base, "user")
    BY <1>11, AgreeOn, Zenon
  <1>13. "level" \in DOMAIN msg /\ msg["level"] = full["level"]
    BY <1>4, <1>11 DEF Agree
  <1>14. client.release # None => "release" \in DOMAIN msg /\ msg["release"] = client.release
    BY <1>4, <1>11 DEF Agree
  <1>15. "stacktrace" \in DOMAIN msg <=> "stacktrace" \in DOMAIN full
    BY <1>11 DEF Agree
  <1>16. "transaction" \in DOMAIN full <=> "transaction" \in DOMAIN base
    BY <1>11 DEF Agree
  <1>17. "breadcrumbs" \in DOMAIN msg =>
            msg["breadcrumbs"] = IF "breadcrumbs" \in DOMAIN base THEN base["breadcrumbs"]
                                 ELSE client.crumbs
    BY <1>10, <1>11 DEF Agree
  <1>18. Built(msg, client, event, base, call)
    BY <1>6, <1>8, <1>9, <1>10, <1>12, <1>13, <1>14, <1>15, <1>16, <1>17, Zenon DEF Built
  <1> QED BY <1>18, Zenon DEF msg, base

(* What an event says, whatever an integration has added to its tags. *)
TagsGrow(new, old) ==
    /\ DOMAIN old \subseteq DOMAIN new /\ DOMAIN new \subseteq DOMAIN old \cup {"site", "region"}
    /\ \A k \in DOMAIN old : new[k] = old[k]
Told(r, client, event, base, call) ==
    /\ TagsGrow(r["tags"], Tags(client, base, call))
    /\ r["extra"] = Extra(client, base, call)
    /\ "site" \notin DOMAIN r
    /\ r["level"] = Or(Get(base, "level", None), Or(Get(call, "level", None), "error"))
    /\ client.release # None => r["release"] = client.release
    /\ Agree(r, base, "user")
    /\ "stacktrace" \in DOMAIN r <=> Stacked(client, event, base, call)
    /\ "transaction" \in DOMAIN r <=>
          \/ "transaction" \in DOMAIN base
          \/ client.transaction # None /\ Get(r, "culprit", None) = None
    /\ "breadcrumbs" \in DOMAIN r =>
          r["breadcrumbs"] = IF "breadcrumbs" \in DOMAIN base THEN base["breadcrumbs"]
                             ELSE client.crumbs

(* A tag more, or none, *)
LEMMA TagsGrowOne ==
    ASSUME NEW tags, NEW key \in {"site", "region"}, NEW v
    PROVE  TagsGrow(SetDefault(tags, key, v), tags) /\ TagsGrow(tags, tags)
  BY DEF TagsGrow, SetDefault, Put

(* and again. *)
LEMMA TagsGrowTwice ==
    ASSUME NEW a, NEW b, NEW c, TagsGrow(a, b), TagsGrow(b, c)
    PROVE  TagsGrow(a, c)
  BY DEF TagsGrow

(* A tag more; a release and an environment where there is none. *)
LEMMA ToldWithTag ==
    ASSUME NEW msg, NEW client, NEW event, NEW base, NEW call,
           Built(msg, client, event, base, call), NEW key \in {"site", "region"}, NEW v
    PROVE  LET tagged == [msg EXCEPT !["tags"] = SetDefault(@, key, v)]
           IN  /\ Told(msg, client, event, base, call)
               /\ Told(tagged, client, event, base, call)
               /\ Told(SetDefault(SetDefault(tagged, "release", None), "environment", None),
                       client, event, base, call)
  <1> DEFINE tags == SetDefault(msg["tags"], key, v)
             tagged == [msg EXCEPT !["tags"] = SetDefault(@, key, v)]
             released == SetDefault(tagged, "release", None)
             new == SetDefault(released, "environment", None)
  <1>1. /\ "tags" \in DOMAIN msg /\ msg["tags"] = Tags(client, base, call)
        /\ "extra" \in DOMAIN msg /\ msg["extra"] = Extra(client, base, call)
        /\ "site" \notin DOMAIN msg
        /\ "level" \in DOMAIN msg
        /\ msg["level"] = Or(Get(base, "level", None), Or(Get(call, "level", None), "error"))
        /\ client.release # None => "release" \in DOMAIN msg /\ msg["release"] = client.release
        /\ Agree(msg, base, "user")
        /\ "stacktrace" \in DOMAIN msg <=> Stacked(client, event, base, call)
        /\ "transaction" \in DOMAIN msg <=>
              \/ "transaction" \in DOMAIN base
              \/ client.transaction # None /\ Get(msg, "culprit", None) = None
        /\ "breadcrumbs" \in DOMAIN msg =>
              msg["breadcrumbs"] = IF "breadcrumbs" \in DOMAIN base THEN base["breadcrumbs"]
                                   ELSE client.crumbs
    BY Zenon DEF Built
  <1>2. TagsGrow(tags, Tags(client, base, call)) /\ TagsGrow(msg["tags"], Tags(client, base, call))
    <2> HIDE DEF tags
    <2>1. TagsGrow(tags, msg["tags"]) /\ TagsGrow(msg["tags"], msg["tags"])
      BY TagsGrowOne DEF tags
    <2> QED BY <1>1, <2>1
  <1>3. Told(msg, client, event, base, call)
    BY <1>1, <1>2, Zenon DEF Told
  <1>4. /\ DOMAIN tagged = DOMAIN msg /\ tagged["tags"] = tags
        /\ \A k \in DOMAIN msg : k # "tags" => tagged[k] = msg[k]
    <2> HIDE DEF tags
    <2>1. tagged = [msg EXCEPT !["tags"] = tags]
      BY DEF tags
    <2> QED BY <1>1, <2>1
  <1> HIDE DEF tags, tagged
  <1>5. \A k : k # "tags" => Agree(tagged, msg, k)
    BY <1>4, Zenon DEF Agree
  <1>6. Agree(tagged, msg, "culprit") /\ Agree(tagged, msg, "level") /\ Agree(tagged, msg, "user")
        /\ Agree(tagged, msg, "extra") /\ Agree(tagged, msg, "site")
        /\ Agree(tagged, msg, "release") /\ Agree(tagged, msg, "stacktrace")
        /\ Agree(tagged, msg, "transaction") /\ Agree(tagged, msg, "breadcrumbs")
    BY <1>5
  <1>7. /\ \A k : k # "release" => Agree(released, tagged, k)
        /\ "release" \in DOMAIN tagged => released = tagged
    BY DefaultSays, Zenon
  <1> HIDE DEF released
  <1>8. /\ \A k : k # "environment" => Agree(new, released, k)
    BY DefaultSays, Zenon
  <1> HIDE DEF new
  <1>9. \A k : k \notin {"release", "environment"} => Agree(new, tagged, k)
    <2> TAKE k
    <2>1. SUFFICES ASSUME k \notin {"release", "environment"}
                   PROVE  Agree(new, tagged, k)
      OBVIOUS
    <2>2. Agree(new, released, k) /\ Agree(released, tagged, k)
      BY <1>7, <1>8, <2>1
    <2> QED BY <2>2, AgreeOn, Zenon
  <1>10. Agree(new, released, "release")
    BY <1>8
  <1>11. ASSUME NEW r, r["tags"] = tags,
                Agree(r, msg, "culprit") /\ Agree(r, msg, "user")
                /\ Agree(r, msg, "extra") /\ Agree(r, msg, "site") /\ Agree(r, msg, "stacktrace")
                /\ Agree(r, msg, "transaction") /\ Agree(r, msg, "breadcrumbs"),
                r["level"] = msg["level"],
                client.release # None => r["release"] = client.release
         PROVE  Told(r, client, event, base, call)
    <2>1. Agree(r, base, "user")
      BY <1>1, <1>11, AgreeOn, Zenon
    <2>2. /\ r["extra"] = msg["extra"] /\ "site" \notin DOMAIN r
          /\ "stacktrace" \in DOMAIN r <=> "stacktrace" \in DOMAIN msg
          /\ "transaction" \in DOMAIN r <=> "transaction" \in DOMAIN msg
          /\ "breadcrumbs" \in DOMAIN r <=> "breadcrumbs" \in DOMAIN msg
          /\ "breadcrumbs" \in DOMAIN r => r["breadcrumbs"] = msg["breadcrumbs"]
      BY <1>1, <1>11 DEF Agree
    <2>3. Get(r, "culprit", None) = Get(msg, "culprit", None)
      BY <1>11 DEF Agree, Get
    <2> QED BY <1>1, <1>2, <1>11, <2>1, <2>2, <2>3, Zenon DEF Told
  <1>12. Told(tagged, client, event, base, call)
    <2>1. client.release # None => tagged["release"] = client.release
      BY <1>1, <1>6 DEF Agree
    <2>2. tagged["level"] = msg["level"]
      BY <1>1, <1>6 DEF Agree
    <2> QED BY <1>4, <1>6, <1>11, <2>1, <2>2
  <1>13. Told(new, client, event, base, call)
    <2>1. /\ Agree(new, tagged, "culprit") /\ Agree(new, tagged, "user")
          /\ Agree(new, tagged, "extra") /\ Agree(new, tagged, "site")
          /\ Agree(new, tagged, "stacktrace") /\ Agree(new, tagged, "transaction")
          /\ Agree(new, tagged, "breadcrumbs") /\ Agree(new, tagged, "level")
          /\ Agree(new, tagged, "tags")
      BY <1>9
    <2>2. new["tags"] = tags /\ new["level"] = msg["level"]
      BY <1>1, <1>4, <1>6, <2>1 DEF Agree
    <2>3. client.release # None => new["release"] = client.release
      <3>1. "release" \in DOMAIN tagged => new["release"] = tagged["release"]
        BY <1>7, <1>10 DEF Agree
      <3> QED BY <1>1, <1>6, <3>1 DEF Agree
    <2>4. Agree(new, msg, "culprit") /\ Agree(new, msg, "user")
          /\ Agree(new, msg, "extra") /\ Agree(new, msg, "site")
          /\ Agree(new, msg, "stacktrace") /\ Agree(new, msg, "transaction")
          /\ Agree(new, msg, "breadcrumbs")
      BY <1>6, <2>1, AgreeOn, Zenon
    <2> QED BY <1>11, <2>2, <2>3, <2>4
  <1> QED BY <1>3, <1>12, <1>13 DEF tagged, new, released

(* What reaches build_msg() as the data of the call. *)
Sent(web, data, template) ==
    CASE web = "none" -> data
      [] web = "django" -> DjangoData(data, TRUE, template)
      [] web = "lambda" -> LambdaData(data, TRUE, TRUE, FALSE)
      [] web = "tornado" -> TornadoData(data)

(* Integrations leave the data of the call alone, but for what they read themselves. *)
SentIs(sent, web, data) ==
    /\ \A k \in {"tags", "site", "level", "exception", "stacktrace", "transaction", "breadcrumbs"} :
          Agree(sent, data, k)
    /\ IF web = "tornado" /\ "extra" \notin DOMAIN data
       THEN "extra" \in DOMAIN sent /\ sent["extra"] = <<>>
       ELSE Agree(sent, data, "extra")
    /\ web = "none" => Agree(sent, data, "user")
    /\ web # "none" => "user" \in DOMAIN sent
    /\ web = "django" => sent["user"] = Or(Get(data, "user", None), "request")
    /\ web = "tornado" => sent["user"] = Get(data, "user", "request")
    /\ web = "lambda" => sent["user"] = "lambda"

(* All integrations do so. *)
LEMMA SentSays ==
    ASSUME NEW web \in {"none", "django", "lambda", "tornado"}, NEW data, NEW template \in BOOLEAN
    PROVE  SentIs(Sent(web, data, template), web, data)
  <1> DEFINE sent == Sent(web, data, template)
  <1>1. CASE web = "none"
    <2>1. sent = data
      BY <1>1 DEF Sent
    <2> HIDE DEF sent
    <2>2. \A k : Agree(sent, data, k)
      BY <2>1, Zenon DEF Agree
    <2>3. SentIs(sent, web, data)
      BY <1>1, <2>2 DEF SentIs
    <2> QED BY <2>3 DEF sent
  <1>2. CASE web = "lambda"
    <2> DEFINE request == PutIf(TRUE, data, "request", "lambda")
               known == PutIf(TRUE, request, "user", "lambda")
    <2>1. sent = known
      BY <1>2, Zenon DEF Sent, LambdaData
    <2>2. \A k : k # "request" => Agree(request, data, k)
      BY DEF PutIf, Put, Agree
    <2> HIDE DEF sent, request
    <2>3. /\ \A k : k # "user" => Agree(known, request, k)
          /\ "user" \in DOMAIN known /\ known["user"] = "lambda"
      BY DEF PutIf, Put, Agree
    <2> HIDE DEF known
    <2>4. \A k \in {"tags", "site", "level", "exception", "stacktrace", "transaction",
                    "breadcrumbs", "extra"} : Agree(sent, data, k)
      BY <2>1, <2>2, <2>3 DEF Agree
    <2>5. SentIs(sent, web, data)
      BY <1>2, <2>1, <2>3, <2>4 DEF SentIs
    <2> QED BY <2>5 DEF sent
  <1>3. CASE web = "tornado"
    <2> DEFINE own == [request |-> "request", user |-> "request", extra |-> <<>>]
    <2>1. sent = Update(own, data)
      BY <1>3, Zenon DEF Sent, TornadoData
    <2>2. /\ DOMAIN own = {"request", "user", "extra"} /\ own["user"] = "request"
          /\ own["extra"] = <<>>
      OBVIOUS
    <2> HIDE DEF sent, own
    <2>3. \A k : k \in DOMAIN data \/ k \notin DOMAIN own => Agree(sent, data, k)
      BY <2>1 DEF Update, Agree
    <2>4. /\ "extra" \notin DOMAIN data => "extra" \in DOMAIN sent /\ sent["extra"] = <<>>
          /\ "user" \in DOMAIN sent
          /\ "user" \notin DOMAIN data => sent["user"] = "request"
      BY <2>1, <2>2 DEF Update
    <2>5. sent["user"] = Get(data, "user", "request")
      BY <2>3, <2>4 DEF Agree, Get
    <2>6. \A k \in {"tags", "site", "level", "exception", "stacktrace", "transaction",
                    "breadcrumbs"} : Agree(sent, data, k)
      BY <2>2, <2>3
    <2>7. SentIs(sent, web, data)
      BY <1>3, <2>3, <2>4, <2>5, <2>6 DEF SentIs
    <2> QED BY <2>7 DEF sent
  <1>4. CASE web = "django"
    <2> DEFINE user == PutIf(~ Truthy(data, "user"), data, "user", "request")
               request == Put(user, "request", "request")
               shown == Put(request, "template", "template")
               failed == Put(shown, "culprit", "template")
    <2>1. sent = IF template THEN failed ELSE request
      BY <1>4, Zenon DEF Sent, DjangoData
    <2>2. \A k : k # "user" => Agree(user, data, k)
      BY DEF PutIf, Put, Agree
    <2>3. "user" \in DOMAIN user /\ user["user"] = Or(Get(data, "user", None), "request")
      BY DEF PutIf, Put, Truthy, Or, Get
    <2> HIDE DEF sent, user
    <2>4. \A k : k # "request" => Agree(request, user, k)
      BY DEF Put, Agree
    <2> HIDE DEF request
    <2>5. \A k : k # "template" => Agree(shown, request, k)
      BY DEF Put, Agree
    <2> HIDE DEF shown
    <2>6. \A k : k # "culprit" => Agree(failed, shown, k)
      BY DEF Put, Agree
    <2> HIDE DEF failed
    <2>7. \A k : k \notin {"request", "template", "culprit"} => Agree(sent, user, k)
      BY <2>1, <2>4, <2>5, <2>6 DEF Agree
    <2>8. "user" \in DOMAIN sent /\ sent["user"] = Or(Get(data, "user", None), "request")
      BY <2>3, <2>7 DEF Agree
    <2>9. \A k \in {"tags", "site", "level", "exception", "stacktrace", "transaction",
                    "breadcrumbs", "extra"} : Agree(sent, data, k)
      BY <2>2, <2>7 DEF Agree
    <2>10. SentIs(sent, web, data)
      BY <1>4, <2>8, <2>9 DEF SentIs
    <2> QED BY <2>10 DEF sent
  <1> QED BY <1>1, <1>2, <1>3, <1>4

(* The event of a call, whatever the integration. *)
EventOfCall(call) ==
    CASE call.web = "none" ->
            BuildMsg(call.client, call.context, call.event, call.data, call.call)
      [] call.web = "django" ->
            DjangoCapture(call.client, call.context, call.event, call.data,
                          call.call, TRUE, call.template, "Site")
      [] call.web = "lambda" ->
            LambdaCapture(call.client, call.context, call.event, call.data,
                          call.call, TRUE, TRUE, FALSE)
      [] call.web = "tornado" ->
            BuildMsg(call.client, call.context, call.event, TornadoData(call.data), call.call)

(* So an event says that, with or without an integration. *)
LEMMA EventIsTold ==
    ASSUME NEW in, in.client.autoLogStacks \in BOOLEAN,
           in.event \in {"Exception", "Message", "Query"},
           in.web \in {"none", "django", "lambda", "tornado"}
    PROVE  Told(EventOfCall(in), in.client, in.event,
                Base(in.context, Sent(in.web, in.data, in.template)), in.call)
  <1> DEFINE client == in.client
             context == in.context
             event == in.event
             call == in.call
             sent == Sent(in.web, in.data, in.template)
             base == Base(context, sent)
             msg == BuildMsg(client, context, event, sent, call)
             site == [msg EXCEPT !["tags"] = SetDefault(@, "site", "Site")]
             region == [msg EXCEPT !["tags"] = SetDefault(@, "region", "lambda")]
             full == SetDefault(SetDefault(region, "release", None), "environment", None)
  <1>1. Built(msg, client, event, base, call)
    <2>1. {"tags", "extra"} \subseteq DOMAIN Base(context, sent)
      BY BaseSays
    <2> HIDE DEF client, context, event, call, sent
    <2> QED BY <2>1, BuildMsgSays DEF client, event
  <1>2. EventOfCall(in) \in {msg, site, full}
    <2>1. CASE in.web = "none" \/ in.web = "tornado"
      <3>1. EventOfCall(in) = msg
        BY <2>1 DEF EventOfCall, Sent
      <3> QED BY <3>1, Zenon
    <2>2. CASE in.web = "lambda"
      <3>1. EventOfCall(in) = full
        BY <2>2 DEF EventOfCall, Sent, LambdaCapture, LambdaBuildMsg
      <3> QED BY <3>1, Zenon
    <2>3. CASE in.web = "django"
      <3>1. EventOfCall(in) = IF client.site # None \/ "Site" = None THEN msg ELSE site
        BY <2>3 DEF EventOfCall, Sent, DjangoCapture, DjangoBuildMsg
      <3> QED BY <3>1, Zenon
    <2> QED BY <2>1, <2>2, <2>3
  <1> HIDE DEF msg, client, event, base, call
  <1>3. /\ Told(msg, client, event, base, call)
        /\ Told(site, client, event, base, call)
    BY <1>1, ToldWithTag
  <1>4. Told(full, client, event, base, call)
    BY <1>1, ToldWithTag
  <1> HIDE DEF site, full
  <1>5. Told(EventOfCall(in), client, event, base, call)
    BY <1>2, <1>3, <1>4, Zenon
  <1> QED BY <1>5 DEF client, event, base, call, context, sent

(* What the data name, and else the context, is what the base says. *)
LEMMA BaseIs ==
    ASSUME NEW in, NEW sent, SentIs(sent, in.web, in.data)
    PROVE  LET base == Base(in.context, sent)
               from(k) == IF Given(in.data, k) THEN in.data[k] ELSE Get(in.context, k, None)
               named(k) == Given(in.data, k) \/ Given(in.context, k)
           IN  /\ named("exception") <=> "exception" \in DOMAIN base
               /\ named("stacktrace") <=> "stacktrace" \in DOMAIN base
               /\ named("transaction") <=> "transaction" \in DOMAIN base
               /\ named("breadcrumbs") <=> "breadcrumbs" \in DOMAIN base
               /\ named("breadcrumbs") => base["breadcrumbs"] = from("breadcrumbs")
               /\ Get(base, "site", None) = from("site")
               /\ Get(base, "level", None) = from("level")
               /\ in.web # "none" \/ Given(in.data, "user") => Agree(base, sent, "user")
  <1> DEFINE base == Base(in.context, sent)
             from(k) == IF Given(in.data, k) THEN in.data[k] ELSE Get(in.context, k, None)
             named(k) == Given(in.data, k) \/ Given(in.context, k)
  <1>1. ASSUME NEW k \in {"site", "level", "exception", "stacktrace", "transaction", "breadcrumbs"}
        PROVE  /\ named(k) <=> k \in DOMAIN base
               /\ named(k) => base[k] = from(k)
               /\ Get(base, k, None) = from(k)
    <2>1. Agree(sent, in.data, k) /\ k \notin {"tags", "extra"}
      BY DEF SentIs
    <2>2. k \in DOMAIN sent <=> k \in DOMAIN in.data
      BY <2>1 DEF Agree
    <2>3. CASE k \in DOMAIN in.data
      <3>1. Agree(base, sent, k)
        BY <2>2, <2>3, BaseSays
      <3> HIDE DEF base
      <3>2. k \in DOMAIN base /\ base[k] = in.data[k]
        BY <2>1, <2>3, <3>1 DEF Agree
      <3> QED BY <2>3, <3>2 DEF Given, Get
    <2>4. CASE k \notin DOMAIN in.data /\ k \in DOMAIN in.context
      <3>1. Agree(base, in.context, k)
        BY <2>2, <2>4, BaseSays
      <3> HIDE DEF base
      <3>2. k \in DOMAIN base /\ base[k] = in.context[k]
        BY <2>4, <3>1 DEF Agree
      <3> QED BY <2>4, <3>2 DEF Given, Get
    <2>5. CASE k \notin DOMAIN in.data /\ k \notin DOMAIN in.context
      <3>1. k \notin DOMAIN base
        BY <2>1, <2>2, <2>5, BaseSays
      <3> HIDE DEF base
      <3> QED BY <2>5, <3>1 DEF Given, Get
    <2> QED BY <2>3, <2>4, <2>5
  <1>2. in.web # "none" \/ Given(in.data, "user") => Agree(base, sent, "user")
    <2>1. in.web # "none" \/ Given(in.data, "user") => "user" \in DOMAIN sent
      BY DEF SentIs, Given, Agree
    <2>2. "user" \in DOMAIN sent => Agree(base, sent, "user")
      BY BaseSays, Zenon
    <2> QED BY <2>1, <2>2
  <1> HIDE DEF base, from, named
  <1>3. /\ named("exception") <=> "exception" \in DOMAIN base
        /\ named("stacktrace") <=> "stacktrace" \in DOMAIN base
        /\ named("transaction") <=> "transaction" \in DOMAIN base
        /\ named("breadcrumbs") <=> "breadcrumbs" \in DOMAIN base
        /\ named("breadcrumbs") => base["breadcrumbs"] = from("breadcrumbs")
        /\ Get(base, "site", None) = from("site")
        /\ Get(base, "level", None) = from("level")
    BY <1>1
  <1> QED BY <1>2, <1>3, Zenon DEF base, from, named

(* The tags and the extra info that the base says are the data's own, and else the context's. *)
OwnOf(in, field) ==
    IF Given(in.data, field) THEN OrEmpty(Get(in.data, field, None))
    ELSE IF in.web = "tornado" /\ field = "extra" THEN <<>>
    ELSE OrEmpty(Get(in.context, field, None))

(* The tags and the extra of the base are those. *)
LEMMA OwnIs ==
    ASSUME NEW in, NEW sent, SentIs(sent, in.web, in.data), NEW field \in {"tags", "extra"}
    PROVE  OrEmpty(Base(in.context, sent)[field]) = OwnOf(in, field)
  <1> DEFINE base == Base(in.context, sent)
  <1>0. OrEmpty(<<>>) = <<>> /\ OrEmpty(None) = <<>>
    BY DEF OrEmpty, Or
  <1>1. CASE field \in DOMAIN in.data
    <2>1. Agree(sent, in.data, field)
      BY <1>1 DEF SentIs
    <2>2. Agree(base, sent, field)
      BY <1>1, <2>1, BaseSays DEF Agree
    <2> HIDE DEF base
    <2>3. base[field] = in.data[field]
      BY <1>1, <2>1, <2>2 DEF Agree
    <2> QED BY <1>1, <2>3 DEF OwnOf, Given, Get, base
  <1>2. CASE field \notin DOMAIN in.data /\ in.web = "tornado" /\ field = "extra"
    <2>1. field \in DOMAIN sent /\ sent[field] = <<>>
      BY <1>2 DEF SentIs
    <2>2. Agree(base, sent, field)
      BY <2>1, BaseSays
    <2> HIDE DEF base
    <2>3. base[field] = <<>>
      BY <2>1, <2>2 DEF Agree
    <2> QED BY <1>0, <1>2, <2>3 DEF OwnOf, Given, base
  <1>3. CASE field \notin DOMAIN in.data /\ ~ (in.web = "tornado" /\ field = "extra")
    <2>1. field \notin DOMAIN sent
      BY <1>3 DEF SentIs, Agree
    <2>2. CASE field \in DOMAIN in.context
      <3>1. Agree(base, in.context, field)
        BY <2>1, <2>2, BaseSays
      <3> HIDE DEF base
      <3>2. base[field] = in.context[field]
        BY <2>2, <3>1 DEF Agree
      <3> QED BY <1>3, <2>2, <3>2, Zenon DEF OwnOf, Given, Get, base
    <2>3. CASE field \notin DOMAIN in.context
      <3>1. base[field] = <<>>
        BY <2>1, <2>3, BaseSays
      <3> HIDE DEF base
      <3> QED BY <1>0, <1>3, <2>3, <3>1, Zenon DEF OwnOf, Given, Get, base
    <2> QED BY <2>2, <2>3
  <1> QED BY <1>1, <1>2, <1>3

(* Client, base and call, by precedence. *)
LEMMA MergedSays ==
    ASSUME BuildInput, input.do = "build", NEW sent, SentIs(sent, input.web, input.data),
           Told(result, input.client, input.event, Base(input.context, sent), input.call)
    PROVE  /\ MergedOf("tags") /\ MergedOf("extra")
           /\ LET from(k) == IF Given(input.data, k) THEN input.data[k]
                             ELSE Get(input.context, k, None)
                  tagged == \E dict \in {input.data, input.context, input.call} :
                               Given(Or(Get(dict, "tags", None), <<>>), "site")
                  site == Or(from("site"), input.client.site)
              IN  site # None /\ ~ tagged /\ ~ Given(input.client.tags, "site") =>
                      result["tags"]["site"] = site
  <1> DEFINE base == Base(input.context, sent)
             client == input.client
             call(field) == Get(input.call, field, None)
             tags == Merge(Merge(Merge(<<>>, client.tags), base["tags"]), call("tags"))
             extra == Merge(Merge(Merge(<<>>, client.extra), base["extra"]), call("extra"))
             site == Or(Get(base, "site", None), client.site)
             with == SetDefault(tags, "site", site)
             all == Tags(client, base, input.call)
             from(k) == IF Given(input.data, k) THEN input.data[k] ELSE Get(input.context, k, None)
             tagged == \E dict \in {input.data, input.context, input.call} :
                          Given(Or(Get(dict, "tags", None), <<>>), "site")
  <1>1. MergeIs(tags, client.tags, base["tags"], call("tags"))
        /\ MergeIs(extra, client.extra, base["extra"], call("extra"))
    <2>1. client.tags # None /\ client.extra # None
      BY DEF BuildInput
    <2> HIDE DEF base, client, call
    <2> QED BY <2>1, MergeSays
  <1>2. OrEmpty(base["tags"]) = OwnOf(input, "tags") /\ OrEmpty(base["extra"]) = OwnOf(input, "extra")
    BY OwnIs
  <1>3. Get(base, "site", None) = from("site")
    BY BaseIs
  <1>4. all = IF site = None THEN tags ELSE with
    BY Zenon DEF Tags
  <1>5. /\ TagsGrow(result["tags"], all)
        /\ result["extra"] = extra
    BY Zenon DEF Told, Extra
  <1> HIDE DEF base, all, tags, extra, call
  <1>6. TagsGrow(with, tags) /\ TagsGrow(tags, tags)
    <2> HIDE DEF site
    <2> QED BY TagsGrowOne
  <1>7. site # None /\ "site" \notin DOMAIN tags => "site" \in DOMAIN all /\ all["site"] = site
    <2> HIDE DEF site, with
    <2>1. "site" \in DOMAIN with /\ ("site" \notin DOMAIN tags => with["site"] = site)
      BY DefaultSays DEF with
    <2> QED BY <1>4, <2>1
  <1> HIDE DEF with, site
  <1>8. TagsGrow(all, tags)
    BY <1>4, <1>6
  <1>9. TagsGrow(result["tags"], tags)
    BY <1>5, <1>8, TagsGrowTwice
  <1>10. MergedOf("tags")
    <2> DEFINE own == OwnOf(input, "tags")
    <2>1. own = IF Given(input.data, "tags") THEN OrEmpty(Get(input.data, "tags", None))
                ELSE IF input.web = "tornado" /\ "tags" = "extra" THEN <<>>
                ELSE OrEmpty(Get(input.context, "tags", None))
      BY Zenon DEF OwnOf
    <2>2. "tags" = "tags" /\ "tags" # "extra"
      OBVIOUS
    <2> HIDE DEF own
    <2> DEFINE mine == call("tags")
               merged == result["tags"]
               named == DOMAIN OrEmpty(mine) \cup DOMAIN own \cup DOMAIN client.tags
    <2>3. /\ named \subseteq DOMAIN merged
          /\ DOMAIN merged \subseteq named \cup {"site", "region"}
          /\ \A key \in named :
                merged[key] = IF key \in DOMAIN OrEmpty(mine) THEN OrEmpty(mine)[key]
                              ELSE IF key \in DOMAIN own THEN own[key] ELSE client.tags[key]
      <3> HIDE DEF mine, merged
      <3>1. MergeIs(tags, client.tags, base["tags"], mine) /\ TagsGrow(merged, tags)
            /\ OrEmpty(base["tags"]) = own
        BY <1>1, <1>2, <1>9 DEF mine, merged, own
      <3>2. DOMAIN tags = named
        BY <3>1 DEF MergeIs
      <3>3. \A k \in named : tags[k] = IF k \in DOMAIN OrEmpty(mine) THEN OrEmpty(mine)[k]
                                  ELSE IF k \in DOMAIN own THEN own[k] ELSE client.tags[k]
        BY <3>1, <3>2, Zenon DEF MergeIs
      <3> HIDE DEF named
      <3>4. \A k \in named : merged[k] = tags[k]
        BY <3>1, <3>2, Zenon DEF TagsGrow
      <3> QED BY <3>1, <3>2, <3>3, <3>4, Zenon DEF TagsGrow
    <2> QED BY <2>1, <2>2, <2>3, Zenon DEF MergedOf, Given, OrEmpty, call, client
  <1>11. MergedOf("extra")
    <2> DEFINE own == OwnOf(input, "extra")
    <2>1. own = IF Given(input.data, "extra") THEN OrEmpty(Get(input.data, "extra", None))
                ELSE IF input.web = "tornado" /\ "extra" = "extra" THEN <<>>
                ELSE OrEmpty(Get(input.context, "extra", None))
      BY Zenon DEF OwnOf
    <2>2. "extra" = "extra" /\ "extra" # "tags"
      OBVIOUS
    <2> HIDE DEF own
    <2> DEFINE mine == call("extra")
               merged == result["extra"]
               named == DOMAIN OrEmpty(mine) \cup DOMAIN own \cup DOMAIN client.extra
    <2>3. /\ named \subseteq DOMAIN merged
          /\ DOMAIN merged \subseteq named \cup {}
          /\ \A key \in named :
                merged[key] = IF key \in DOMAIN OrEmpty(mine) THEN OrEmpty(mine)[key]
                              ELSE IF key \in DOMAIN own THEN own[key] ELSE client.extra[key]
      <3> HIDE DEF mine, merged
      <3>1. MergeIs(merged, client.extra, base["extra"], mine)
            /\ OrEmpty(base["extra"]) = own
        BY <1>1, <1>2, <1>5 DEF mine, merged, own
      <3>2. DOMAIN merged = named
        BY <3>1 DEF MergeIs
      <3> QED BY <3>1, <3>2, Zenon DEF MergeIs
    <2> QED BY <2>1, <2>2, <2>3, Zenon DEF MergedOf, Given, OrEmpty, call, client
  <1>12. site # None /\ ~ tagged /\ ~ Given(client.tags, "site") => result["tags"]["site"] = site
    <2>1. SUFFICES ASSUME site # None, ~ tagged, ~ Given(client.tags, "site")
                   PROVE  result["tags"]["site"] = site
      OBVIOUS
    <2>2. /\ "site" \notin DOMAIN OrEmpty(Get(input.data, "tags", None))
          /\ "site" \notin DOMAIN OrEmpty(Get(input.context, "tags", None))
          /\ "site" \notin DOMAIN OrEmpty(call("tags"))
          /\ "site" \notin DOMAIN client.tags
      BY <2>1, Zenon DEF Given, OrEmpty, call
    <2>3. "site" \notin DOMAIN OwnOf(input, "tags")
      BY <2>2 DEF OwnOf
    <2>4. "site" \notin DOMAIN tags
      BY <1>1, <1>2, <2>2, <2>3 DEF MergeIs
    <2> QED BY <1>5, <1>7, <2>1, <2>4 DEF TagsGrow
  <1>13. site = Or(from("site"), client.site)
    BY <1>3, Zenon DEF site
  <1> QED BY <1>10, <1>11, <1>12, <1>13, Zenon DEF tagged, from, client

(* An event takes each value from where it is most specific. *)
LEMMA EventIsPrecise ==
    ASSUME BuildInput, input.do = "build", result = EventOfCall(input)
    PROVE  Precedence
  <1> DEFINE sent == Sent(input.web, input.data, input.template)
             base == Base(input.context, sent)
             client == input.client
             data == input.data
             context == input.context
             from(k) == IF Given(data, k) THEN data[k] ELSE Get(context, k, None)
             named(k) == Given(data, k) \/ Given(context, k)
             tagged == \E dict \in {data, context, input.call} :
                          Given(Or(Get(dict, "tags", None), <<>>), "site")
             site == Or(from("site"), client.site)
             stack == Get(input.call, "stack", None)
             automatic == client.autoLogStacks /\ input.event # "Exception" /\ ~ named("exception")
  <1>1. SentIs(sent, input.web, data)
    BY SentSays DEF BuildInput
  <1>2. Told(result, client, input.event, base, input.call)
    BY EventIsTold DEF BuildInput
  <1> HIDE DEF sent
  <1>3. /\ MergedOf("tags") /\ MergedOf("extra")
        /\ site # None /\ ~ tagged /\ ~ Given(client.tags, "site") =>
              result["tags"]["site"] = site
    BY <1>1, <1>2, MergedSays
  <1>4. /\ named("exception") <=> "exception" \in DOMAIN base
        /\ named("stacktrace") <=> "stacktrace" \in DOMAIN base
        /\ named("transaction") <=> "transaction" \in DOMAIN base
        /\ named("breadcrumbs") <=> "breadcrumbs" \in DOMAIN base
        /\ named("breadcrumbs") => base["breadcrumbs"] = from("breadcrumbs")
        /\ Get(base, "level", None) = from("level")
        /\ input.web # "none" \/ Given(data, "user") => Agree(base, sent, "user")
    BY <1>1, BaseIs
  <1> HIDE DEF base, named, from, site, tagged, client, data, context
  <1>5. /\ ~ Given(result, "site")
        /\ result["level"] = Or(from("level"), Or(Get(input.call, "level", None), "error"))
        /\ client.release # None => result["release"] = client.release
    BY <1>2, <1>4, Zenon DEF Told, Given
  <1>6. Agree(result, base, "user")
    BY <1>2, Zenon DEF Told
  <1>7. /\ input.web = "none" /\ Given(data, "user") => result["user"] = data["user"]
        /\ input.web = "django" => result["user"] = Or(Get(data, "user", None), "request")
        /\ input.web = "tornado" => result["user"] = Get(data, "user", "request")
        /\ input.web = "lambda" => result["user"] = "lambda"
    <2>1. input.web # "none" \/ Given(data, "user") => result["user"] = sent["user"]
      <3>1. input.web # "none" \/ Given(data, "user") => "user" \in DOMAIN sent
        BY <1>1 DEF SentIs, Given, Agree
      <3> QED BY <1>4, <1>6, <3>1 DEF Agree
    <2> QED BY <1>1, <2>1 DEF SentIs, Given, Agree
  <1>8. Given(result, "stacktrace")
        <=> named("stacktrace") \/ (IF stack = None THEN automatic ELSE stack # FALSE)
    BY <1>2, <1>4, Zenon DEF Told, Stacked, Automatic, Given
  <1>9. /\ Given(result, "transaction")
           <=> \/ named("transaction")
               \/ client.transaction # None /\ Get(result, "culprit", None) = None
        /\ Given(result, "breadcrumbs") =>
              result["breadcrumbs"] =
                  IF named("breadcrumbs") THEN from("breadcrumbs") ELSE client.crumbs
    BY <1>2, <1>4, Zenon DEF Told, Given
  <1> QED BY <1>3, <1>5, <1>7, <1>8, <1>9, Zenon
             DEF Precedence, named, from, site, tagged, client, data, context

BuildKept ==
    Answered("build") => BuildInput /\ result = EventOfCall(input)

(* So for the step that builds it. *)
LEMMA BuildStep ==
    ASSUME BuildInput, BuildKept, [Next]_vars
    PROVE  BuildKept'
  <1>1. input' = input
    BY InputStays
  <1>2. CASE input.do # "build" \/ UNCHANGED vars
    BY <1>1, <1>2 DEF BuildKept, BuildInput, Answered, vars
  <1>3. CASE input.do = "build" /\ BuildEvent
    <2>1. result' = EventOfCall(input)
      BY <1>3, Zenon DEF BuildEvent, Answer, EventOfCall
    <2> QED BY <1>1, <2>1, Zenon DEF BuildKept, BuildInput
  <1> QED BY <1>2, <1>3, Questions DEF Next

-----------------------------------------------------------------------------
(* Log calls *)

(* What ProcessRecord() merges. *)
Merged(call) ==
    Update(Update(Sources(call.kwargs, "kwargs"), Sources(call.extra, "extra")),
           Sources(IF call.args = "mapping" THEN {"key"} ELSE {}, "args"))
Crumb(call) ==
    [data |-> Restrict(Merged(call), DOMAIN Merged(call) \ {"exc_info"}),
     message |-> IF call.formats THEN "formatted" ELSE "msg"]
IsCall(call) ==
    call = [formats |-> call.formats, args |-> call.args, kwargs |-> call.kwargs,
            extra |-> call.extra, raised |-> call.raised, crumb |-> call.crumb]

(* The call that a processor has been at. *)
LEMMA RecordProcessed ==
    ASSUME NEW call, IsCall(call), NEW new, new = ProcessRecord(call)
    PROVE  /\ IsCall(new) /\ new.args = call.args /\ new.kwargs = call.kwargs
           /\ call.extra = None => new.extra = {} /\ new.raised = TRUE
           /\ call.extra # None =>
                 new.extra = call.extra /\ new.raised = FALSE /\ new.crumb = Crumb(call)
  <1> DEFINE yes == TRUE
             no == FALSE
             crumb == Crumb(call)
             nothing == {}
             one == [call EXCEPT !.extra = nothing, !.raised = yes]
             two == [call EXCEPT !.raised = no, !.crumb = crumb]
  <1>1. new = IF call.extra = None THEN one ELSE two
    BY Zenon DEF ProcessRecord, Crumb, Merged
  <1> HIDE DEF yes, no, crumb, nothing
  <1>2. call = [formats |-> call.formats, args |-> call.args, kwargs |-> call.kwargs,
                extra |-> call.extra, raised |-> call.raised, crumb |-> call.crumb]
    BY DEF IsCall
  <1> DEFINE bare == [call EXCEPT !.extra = nothing]
             calm == [call EXCEPT !.raised = no]
  <1>7. bare = [formats |-> call.formats, args |-> call.args, kwargs |-> call.kwargs,
                extra |-> nothing, raised |-> call.raised, crumb |-> call.crumb]
    BY <1>2
  <1>8. calm = [formats |-> call.formats, args |-> call.args, kwargs |-> call.kwargs,
                extra |-> call.extra, raised |-> no, crumb |-> call.crumb]
    BY <1>2
  <1>9. one = [bare EXCEPT !.raised = yes] /\ two = [calm EXCEPT !.crumb = crumb]
    OBVIOUS
  <1> HIDE DEF bare, calm, one, two
  <1>3. one = [formats |-> call.formats, args |-> call.args, kwargs |-> call.kwargs,
               extra |-> nothing, raised |-> yes, crumb |-> call.crumb]
    BY <1>7, <1>9
  <1>4. two = [formats |-> call.formats, args |-> call.args, kwargs |-> call.kwargs,
               extra |-> call.extra, raised |-> no, crumb |-> crumb]
    BY <1>8, <1>9
  <1>5. /\ IsCall(one) /\ one.args = call.args /\ one.kwargs = call.kwargs
        /\ one.extra = nothing /\ one.raised = yes
    BY <1>3 DEF IsCall
  <1>6. /\ IsCall(two) /\ two.args = call.args /\ two.kwargs = call.kwargs
        /\ two.extra = call.extra /\ two.raised = no /\ two.crumb = crumb
    BY <1>4 DEF IsCall
  <1> QED BY <1>1, <1>5, <1>6, Zenon DEF yes, no, crumb, nothing

(* The most specific source of each key. *)
LEMMA MergedIs ==
    ASSUME NEW call
    PROVE  LET data == Crumb(call).data
           IN  /\ "exc_info" \notin DOMAIN data
               /\ "key" \in DOMAIN data <=> call.args = "mapping" \/ "key" \in call.kwargs \cup call.extra
               /\ call.args = "mapping" => data["key"] = "args"
               /\ call.args # "mapping" /\ "key" \in call.extra => data["key"] = "extra"
  <1> DEFINE kwargs == Sources(call.kwargs, "kwargs")
             extra == Sources(call.extra, "extra")
             two == Update(kwargs, extra)
             keys == IF call.args = "mapping" THEN {"key"} ELSE {}
             args == Sources(keys, "args")
             all == Update(two, args)
             data == Restrict(all, DOMAIN all \ {"exc_info"})
  <1>1. Crumb(call).data = data
    BY DEF Crumb, Merged
  <1>2. /\ DOMAIN two = call.kwargs \cup call.extra
        /\ \A k \in call.extra : two[k] = "extra"
    BY DEF Update, Sources
  <1> HIDE DEF two
  <1>3. DOMAIN args = keys /\ \A k \in keys : args[k] = "args"
    BY DEF Sources
  <1> HIDE DEF args
  <1>4. /\ DOMAIN all = DOMAIN two \cup keys
        /\ \A k \in keys : all[k] = "args"
        /\ \A k \in DOMAIN two : k \notin keys => all[k] = two[k]
    BY <1>3 DEF Update
  <1> HIDE DEF all
  <1>5. DOMAIN data = DOMAIN all \ {"exc_info"} /\ \A k \in DOMAIN data : data[k] = all[k]
    BY DEF Restrict
  <1> HIDE DEF data
  <1>6. "key" # "exc_info"
    OBVIOUS
  <1>7. /\ "exc_info" \notin DOMAIN data
        /\ "key" \in DOMAIN data <=> call.args = "mapping" \/ "key" \in call.kwargs \cup call.extra
        /\ call.args = "mapping" => data["key"] = "args"
        /\ call.args # "mapping" /\ "key" \in call.extra => data["key"] = "extra"
    BY <1>2, <1>4, <1>5, <1>6
  <1> QED BY <1>1, <1>7, Zenon

(* What came of the call. *)
CallKept(call, r) ==
    LET extra == IF call.extra = None THEN {} ELSE call.extra
        data == Last(r).crumb.data
    IN  /\ Last(r).raised = FALSE
        /\ (Len(r) > 1) = (call.extra = None)
        /\ "exc_info" \notin DOMAIN data
        /\ "key" \in DOMAIN data <=> call.args = "mapping" \/ "key" \in call.kwargs \cup extra
        /\ call.args = "mapping" => data["key"] = "args"
        /\ call.args # "mapping" /\ "key" \in extra => data["key"] = "extra"

(* A call is processed so. *)
LEMMA CallProcessed ==
    ASSUME NEW call, IsCall(call), NEW first, first = ProcessRecord(call), NEW r,
           r = IF first.raised THEN <<first, ProcessRecord(first)>> ELSE <<first>>
    PROVE  CallKept(call, r)
  <1>1. /\ IsCall(first) /\ first.args = call.args /\ first.kwargs = call.kwargs
        /\ call.extra = None => first.extra = {} /\ first.raised = TRUE
        /\ call.extra # None =>
              first.extra = call.extra /\ first.raised = FALSE /\ first.crumb = Crumb(call)
    BY RecordProcessed, Zenon
  <1>2. CASE call.extra = None
    <2> DEFINE second == ProcessRecord(first)
               data == second.crumb.data
    <2>1. {} # None
      BY NoneAssumption
    <2>2. second.raised = FALSE /\ second.crumb = Crumb(first)
      BY <1>1, <1>2, <2>1, RecordProcessed, Zenon
    <2>3. r = <<first, second>>
      BY <1>1, <1>2, Zenon
    <2> HIDE DEF second
    <2>4. Last(r) = second /\ Len(r) = 2
      BY <2>3 DEF Last
    <2>5. (Len(r) > 1) = TRUE
      BY <2>4
    <2>6. /\ "exc_info" \notin DOMAIN data
          /\ "key" \in DOMAIN data
                <=> first.args = "mapping" \/ "key" \in first.kwargs \cup first.extra
          /\ first.args = "mapping" => data["key"] = "args"
      BY <2>2, MergedIs, Zenon
    <2>7. "key" \notin {}
      OBVIOUS
    <2>8. call.extra = None <=> TRUE
      BY <1>2
    <2> HIDE DEF data
    <2>9. /\ Last(r).raised = FALSE /\ Last(r).crumb.data = data
      BY <2>2, <2>4 DEF data
    <2> QED BY <1>1, <1>2, <2>5, <2>6, <2>7, <2>8, <2>9, Zenon DEF CallKept
  <1>3. CASE call.extra # None
    <2> DEFINE data == first.crumb.data
    <2>1. first.raised = FALSE /\ first.crumb = Crumb(call)
      BY <1>1, <1>3, Zenon
    <2>2. r = <<first>>
      BY <2>1, Zenon
    <2>3. Last(r) = first /\ Len(r) = 1
      BY <2>2 DEF Last
    <2>4. (Len(r) > 1) = FALSE
      BY <2>3
    <2>5. /\ "exc_info" \notin DOMAIN data
          /\ "key" \in DOMAIN data <=> call.args = "mapping" \/ "key" \in call.kwargs \cup call.extra
          /\ call.args = "mapping" => data["key"] = "args"
          /\ call.args # "mapping" /\ "key" \in call.extra => data["key"] = "extra"
      BY <2>1, MergedIs, Zenon
    <2>6. Last(r).raised = FALSE /\ Last(r).crumb.data = data
      BY <2>1, <2>3
    <2> HIDE DEF data
    <2>7. (call.extra = None) = FALSE
      BY <1>3
    <2> QED BY <1>3, <2>4, <2>5, <2>6, <2>7, Zenon DEF CallKept
  <1> QED BY <1>2, <1>3

(* So for the step that processes it. *)
LEMMA RecordStep ==
    ASSUME CrumbInput, LogCallsRecorded, [Next]_vars
    PROVE  LogCallsRecorded'
  <1>1. input' = input
    BY InputStays
  <1>2. CASE input.do # "record" \/ UNCHANGED vars
    BY <1>1, <1>2 DEF LogCallsRecorded, Answered, vars
  <1>3. CASE input.do = "record" /\ ProcessLog
    <2> DEFINE call == input.call
    <2>1. result' = IF ProcessRecord(call).raised
                    THEN <<ProcessRecord(call), ProcessRecord(ProcessRecord(call))>>
                    ELSE <<ProcessRecord(call)>>
      BY <1>3, Zenon DEF ProcessLog, Answer
    <2>2. IsCall(call)
      <3>1. call \in LogCall
        BY <1>3 DEF CrumbInput
      <3> HIDE DEF call
      <3> QED BY <3>1 DEF LogCall, IsCall
    <2>3. CallKept(call, result')
      BY <2>1, <2>2, CallProcessed
    <2> QED BY <1>1, <2>3, Zenon DEF LogCallsRecorded, CallKept
  <1> QED BY <1>2, <1>3, Questions DEF Next

-----------------------------------------------------------------------------
(* Queries *)

(* A sequence is a function from its places. *)
LEMMA ListIs ==
    ASSUME NEW n \in Nat, NEW f, f = [i \in 1..n |-> f[i]]
    PROVE  Len(f) = n /\ DOMAIN f = 1..n
  <1>1. f \in [1..n -> {f[i] : i \in 1..n}]
    OBVIOUS
  <1> QED BY <1>1

(* What the processor of a query raises over, and what it fills. *)
MessageKept(holes, percent, params, r) ==
    IF r.raises
    THEN /\ percent # None /\ params.kind # "none" /\ params.of # <<>>
         /\ percent.doubled => params.kind = "dict"
    ELSE /\ Len(r.filled) \in {0, Len(holes)}
         /\ params.kind = "dict" /\ params.of # <<>> =>
               /\ Len(r.filled) = Len(holes)
               /\ \A h, k \in DOMAIN r.filled :
                     holes[h] = holes[k] => r.filled[h] = r.filled[k]
         /\ params.kind = "sequence" /\ Len(params.of) = Len(holes) =>
               Len(r.filled) = Len(holes)

(* format_sql() shows a parameter for each hole, if it can. *)
LEMMA ShownIs ==
    ASSUME NEW holes, IsList(holes), NEW params, NEW shown, shown = FormatSql(holes, params),
           params.kind = "sequence" => IsList(params.of)
    PROVE  /\ params.kind = "dict" /\ params.of # <<>> =>
                 /\ Len(shown) = Len(holes)
                 /\ \A h, k \in DOMAIN shown : holes[h] = holes[k] => shown[h] = shown[k]
           /\ params.kind = "sequence" => Len(shown) = Len(params.of)
           /\ params.kind = "none" \/ params.of = <<>> => Len(shown) = 0
  <1>1. ASSUME params.kind = "dict", params.of # <<>>
        PROVE  /\ Len(shown) = Len(holes)
               /\ \A h, k \in DOMAIN shown : holes[h] = holes[k] => shown[h] = shown[k]
    <2> DEFINE n == Len(holes)
               at(i) == Shown(IF holes[i] \in DOMAIN params.of THEN params.of[holes[i]] ELSE None)
    <2>1. shown = [i \in DOMAIN holes |-> at(i)]
      BY <1>1, Zenon DEF FormatSql
    <2>2. n \in Nat /\ DOMAIN holes = 1..n
      BY DEF IsList
    <2>3. \A h, k \in DOMAIN holes : holes[h] = holes[k] => at(h) = at(k)
      BY Zenon
    <2> HIDE DEF n, at
    <2>4. shown = [i \in 1..n |-> shown[i]] /\ DOMAIN shown = 1..n
      BY <2>1, <2>2
    <2>5. Len(shown) = n
      BY <2>2, <2>4, ListIs
    <2>6. \A h, k \in DOMAIN shown : holes[h] = holes[k] => shown[h] = shown[k]
      BY <2>1, <2>3
    <2> QED BY <2>5, <2>6, Zenon DEF n
  <1>2. ASSUME params.kind = "sequence"
        PROVE  Len(shown) = Len(params.of)
    <2> DEFINE n == Len(params.of)
               at(i) == Shown(params.of[i])
    <2>1. shown = [i \in DOMAIN params.of |-> at(i)]
      BY <1>2, Zenon DEF FormatSql
    <2>2. n \in Nat /\ DOMAIN params.of = 1..n
      BY <1>2 DEF IsList
    <2> HIDE DEF n, at
    <2>3. shown = [i \in 1..n |-> shown[i]]
      BY <2>1, <2>2
    <2> QED BY <2>2, <2>3, ListIs DEF n
  <1>3. ASSUME params.kind = "none" \/ params.of = <<>>
        PROVE  Len(shown) = 0
    <2>1. Len(<<>>) = 0
      OBVIOUS
    <2>2. CASE params.kind = "sequence"
      BY <1>2, <1>3, <2>1, <2>2, Zenon
    <2>3. CASE params.kind # "sequence"
      <3>1. ~ (params.kind = "dict" /\ params.of # <<>>)
        BY <1>3
      <3>2. shown = <<>>
        BY <2>3, <3>1, Zenon DEF FormatSql
      <3> QED BY <2>1, <3>2
    <2> QED BY <2>2, <2>3
  <1> QED BY <1>1, <1>2, <1>3, Zenon

(* The crumb of a query. *)
LEMMA MessageIs ==
    ASSUME NEW holes, IsList(holes), NEW percent, NEW params,
           params.kind = "sequence" => IsList(params.of)
    PROVE  MessageKept(holes, percent, params, SqlMessage(holes, percent, params))
  <1> DEFINE r == SqlMessage(holes, percent, params)
             shown == FormatSql(holes, params)
             n == Len(shown)
             raises == SqlRaises(percent, params, n)
             filled == IF n = Len(holes) THEN shown ELSE <<>>
  <1>1. r.raises = raises /\ r.filled = filled
    <2>1. r = [raises |-> raises, filled |-> filled]
      BY Zenon DEF SqlMessage
    <2> HIDE DEF r, raises, filled
    <2> QED BY <2>1
  <1>2. /\ params.kind = "dict" /\ params.of # <<>> =>
              /\ n = Len(holes)
              /\ \A h, k \in DOMAIN shown : holes[h] = holes[k] => shown[h] = shown[k]
        /\ params.kind = "sequence" => n = Len(params.of)
        /\ params.kind = "none" \/ params.of = <<>> => n = 0
    <2>1. \A given : given = shown =>
             /\ params.kind = "dict" /\ params.of # <<>> =>
                   /\ Len(given) = Len(holes)
                   /\ \A h, k \in DOMAIN given : holes[h] = holes[k] => given[h] = given[k]
             /\ params.kind = "sequence" => Len(given) = Len(params.of)
             /\ params.kind = "none" \/ params.of = <<>> => Len(given) = 0
      BY ShownIs
    <2> HIDE DEF shown
    <2> QED BY <2>1, Zenon
  <1> HIDE DEF r, shown
  <1>3. ASSUME raises
        PROVE  /\ percent # None /\ params.kind # "none" /\ params.of # <<>>
               /\ percent.doubled => params.kind = "dict"
    <2>1. n > 0 \/ (params.kind = "dict" /\ params.of # <<>>)
      BY <1>3, Zenon DEF SqlRaises, StopsAt
    <2>2. 0 > 0 <=> FALSE
      OBVIOUS
    <2>3. params.kind # "none" /\ params.of # <<>>
      <3>1. "dict" # "none"
        OBVIOUS
      <3> QED BY <1>2, <2>1, <2>2, <3>1, Zenon
    <2>4. percent # None /\ (percent.doubled => params.kind = "dict")
      BY <1>3, Zenon DEF SqlRaises
    <2> QED BY <2>3, <2>4
  <1> HIDE DEF raises
  <1>4. /\ Len(filled) \in {0, Len(holes)}
        /\ n = Len(holes) => filled = shown
    <2>1. Len(<<>>) = 0
      OBVIOUS
    <2> QED BY <2>1
  <1>5. /\ params.kind = "dict" /\ params.of # <<>> =>
              /\ Len(filled) = Len(holes)
              /\ \A h, k \in DOMAIN filled : holes[h] = holes[k] => filled[h] = filled[k]
        /\ params.kind = "sequence" /\ Len(params.of) = Len(holes) => Len(filled) = Len(holes)
    <2> HIDE DEF filled
    <2> QED BY <1>2, <1>4, Zenon
  <1> HIDE DEF filled
  <1> QED BY <1>1, <1>3, <1>4, <1>5, Zenon DEF MessageKept, r

(* The crumbs of a query. *)
QueryKept(query, r) ==
    /\ Len(r) = IF ~ query.many THEN 1 ELSE IF query.iterator THEN 0 ELSE Len(query.params)
    /\ \A i \in DOMAIN r : MessageKept(query.holes, query.percent, query.params[i], r[i])

(* record_sql() does so. *)
LEMMA QueryRecorded ==
    ASSUME NEW query, IsList(query.holes), IsList(query.params), Len(query.params) >= 1,
           \A i \in DOMAIN query.params :
              query.params[i].kind = "sequence" => IsList(query.params[i].of),
           NEW r, r = RecordSql(query)
    PROVE  QueryKept(query, r)
  <1> DEFINE shown(i) == SqlMessage(query.holes, query.percent, query.params[i])
             n == Len(query.params)
  <1>1. n \in Nat /\ DOMAIN query.params = 1..n
    BY DEF IsList
  <1>2. /\ Len(r) = IF ~ query.many THEN 1 ELSE IF query.iterator THEN 0 ELSE n
        /\ \A i \in DOMAIN r : r[i] = shown(i) /\ i \in DOMAIN query.params
    <2>1. CASE ~ query.many
      <3>1. r = <<shown(1)>>
        BY <2>1, Zenon DEF RecordSql
      <3>2. 1 \in DOMAIN query.params
        BY <1>1
      <3> HIDE DEF shown
      <3> QED BY <2>1, <3>1, <3>2
    <2>2. CASE query.many /\ query.iterator
      <3>1. r = <<>>
        BY <2>2, Zenon DEF RecordSql
      <3> QED BY <2>2, <3>1
    <2>3. CASE query.many /\ ~ query.iterator
      <3>1. r = [i \in 1..n |-> shown(i)]
        BY <1>1, <2>3, Zenon DEF RecordSql
      <3> HIDE DEF shown, n
      <3>2. r = [i \in 1..n |-> r[i]] /\ DOMAIN r = 1..n /\ \A i \in 1..n : r[i] = shown(i)
        BY <3>1
      <3>3. Len(r) = n
        BY <1>1, <3>2, ListIs
      <3>4. n = Len(query.params) /\ DOMAIN query.params = 1..n
        BY <1>1 DEF n
      <3> QED BY <2>3, <3>2, <3>3, <3>4
    <2> QED BY <2>1, <2>2, <2>3
  <1>3. ASSUME NEW i \in DOMAIN r
        PROVE  MessageKept(query.holes, query.percent, query.params[i], r[i])
    <2> DEFINE params == query.params[i]
    <2>1. r[i] = shown(i) /\ (params.kind = "sequence" => IsList(params.of))
      BY <1>2, Zenon
    <2>2. MessageKept(query.holes, query.percent, params, shown(i))
      <3> HIDE DEF params
      <3> QED BY <2>1, MessageIs, Zenon DEF params
    <2> QED BY <2>1, <2>2, Zenon
  <1> QED BY <1>2, <1>3, Zenon DEF QueryKept

(* So for the step that records it. *)
LEMMA QueryStep ==
    ASSUME CrumbInput, QueriesRecorded, [Next]_vars
    PROVE  QueriesRecorded'
  <1>1. input' = input
    BY InputStays
  <1>2. CASE input.do # "query" \/ UNCHANGED vars
    BY <1>1, <1>2 DEF QueriesRecorded, Answered, vars
  <1>3. CASE input.do = "query" /\ RunQuery
    <2>1. result' = RecordSql(input)
      BY <1>3, Zenon DEF RunQuery, Answer
    <2>2. /\ IsList(input.holes) /\ IsList(input.params) /\ Len(input.params) >= 1
          /\ \A i \in DOMAIN input.params :
                input.params[i].kind = "sequence" => IsList(input.params[i].of)
      BY <1>3, Zenon DEF CrumbInput
    <2>3. QueryKept(input, result')
      BY <2>1, <2>2, QueryRecorded, Zenon
    <2> QED BY <1>1, <2>3, Zenon DEF QueriesRecorded, QueryKept, MessageKept
  <1> QED BY <1>2, <1>3, Questions DEF Next

-----------------------------------------------------------------------------
(* Hooks *)

KnownLibraries == {"requests", "httplib"}
(* What urllib3 logs below WARNING is dropped. *)
Quieted(ignored) ==
    "urllib3" \in DOMAIN ignored /\ (ignored["urllib3"] = 30 \/ ignored["urllib3"] = None)
IsHooks(s) ==
    s = [hooked |-> s.hooked, order |-> s.order, ignored |-> s.ignored, raised |-> s.raised]
OrderKept(s) ==
    /\ IsSeq(s.order) /\ s.hooked \subseteq KnownLibraries /\ s.raised \in BOOLEAN
    /\ \A i, j \in 1..Len(s.order) : s.order[i] = s.order[j] => i = j
    /\ \A i \in 1..Len(s.order) : s.order[i] \in s.hooked
    /\ \A library \in s.hooked : \E i \in 1..Len(s.order) : s.order[i] = library
    /\ "requests" \in s.hooked => Quieted(s.ignored)

(* What one library changes. *)
LibraryHooked(new, s, library) ==
    /\ IsHooks(new) /\ OrderKept(new)
    /\ new.raised <=> s.raised \/ library \notin KnownLibraries
    /\ s.hooked \subseteq new.hooked /\ new.hooked \subseteq s.hooked \cup {library}
    /\ ~ s.raised /\ library \in KnownLibraries => library \in new.hooked
    /\ new.ignored \in {s.ignored, Put(s.ignored, "urllib3", 30)}

(* One library more. *)
LEMMA HookKeeps ==
    ASSUME NEW s, IsHooks(s), OrderKept(s), NEW library
    PROVE  LibraryHooked(HookLibrary(s, library), s, library)
  <1> DEFINE new == HookLibrary(s, library)
             yes == TRUE
             failed == [s EXCEPT !.raised = yes]
             hooked == s.hooked \cup {library}
             order == Append(s.order, library)
             ignored == IF library = "requests" THEN Put(s.ignored, "urllib3", 30) ELSE s.ignored
             done == [s EXCEPT !.hooked = hooked, !.order = order, !.ignored = ignored]
  <1>1. new = IF s.raised \/ library \notin KnownLibraries THEN failed
              ELSE IF library \in s.hooked THEN s ELSE done
    BY DEF HookLibrary, KnownLibraries, IgnoreLogger
  <1> HIDE DEF new, yes, hooked, order, ignored
  <1>2. s = [hooked |-> s.hooked, order |-> s.order, ignored |-> s.ignored, raised |-> s.raised]
    BY DEF IsHooks
  <1>3. /\ IsSeq(s.order) /\ s.hooked \subseteq KnownLibraries /\ s.raised \in BOOLEAN
        /\ \A i, j \in 1..Len(s.order) : s.order[i] = s.order[j] => i = j
        /\ \A i \in 1..Len(s.order) : s.order[i] \in s.hooked
        /\ \A l \in s.hooked : \E i \in 1..Len(s.order) : s.order[i] = l
        /\ "requests" \in s.hooked => Quieted(s.ignored)
    BY DEF OrderKept
  <1>4. CASE s.raised \/ library \notin KnownLibraries
    <2>1. new = failed
      BY <1>1, <1>4
    <2>2. new = [hooked |-> s.hooked, order |-> s.order, ignored |-> s.ignored, raised |-> yes]
      BY <1>2, <2>1
    <2>3. /\ new.hooked = s.hooked /\ new.order = s.order /\ new.ignored = s.ignored
          /\ new.raised = yes
      BY <2>2
    <2>4. IsHooks(new)
      BY <2>2, <2>3 DEF IsHooks
    <2>7. yes \in BOOLEAN
      BY DEF yes
    <2>5. OrderKept(new)
      BY <1>3, <2>3, <2>7, Zenon DEF OrderKept
    <2>6. new.raised
      BY <2>3 DEF yes
    <2> QED BY <1>4, <2>3, <2>4, <2>5, <2>6, Zenon DEF LibraryHooked, new
  <1>5. CASE ~ s.raised /\ library \in KnownLibraries /\ library \in s.hooked
    <2>1. new = s
      BY <1>1, <1>5
    <2> QED BY <1>5, <2>1, Zenon DEF LibraryHooked, new
  <1>6. CASE ~ s.raised /\ library \in KnownLibraries /\ library \notin s.hooked
    <2>1. new = done
      BY <1>1, <1>6
    <2> DEFINE one == [s EXCEPT !.hooked = hooked]
               two == [one EXCEPT !.order = order]
    <2>2. one = [hooked |-> hooked, order |-> s.order, ignored |-> s.ignored, raised |-> s.raised]
      BY <1>2
    <2>3. done = [two EXCEPT !.ignored = ignored]
      OBVIOUS
    <2> HIDE DEF one, done
    <2>4. two = [hooked |-> hooked, order |-> order, ignored |-> s.ignored, raised |-> s.raised]
      BY <2>2
    <2> HIDE DEF two
    <2>5. new = [hooked |-> hooked, order |-> order, ignored |-> ignored, raised |-> s.raised]
      BY <2>1, <2>3, <2>4
    <2>6. /\ new.hooked = hooked /\ new.order = order /\ new.ignored = ignored
          /\ new.raised = s.raised
      BY <2>5
    <2>7. IsHooks(new)
      BY <2>5, <2>6 DEF IsHooks
    <2>8. /\ IsSeq(order) /\ Len(s.order) \in Nat /\ Len(order) = Len(s.order) + 1
          /\ order[Len(s.order) + 1] = library
          /\ \A i \in 1..Len(s.order) : order[i] = s.order[i]
      BY <1>3, Grown DEF order
    <2>9. /\ \A i, j \in 1..Len(order) : order[i] = order[j] => i = j
          /\ \A i \in 1..Len(order) : order[i] \in hooked
          /\ \A l \in hooked : \E i \in 1..Len(order) : order[i] = l
      <3>1. \A i \in 1..Len(order) : i = Len(s.order) + 1 \/ i \in 1..Len(s.order)
        BY <2>8
      <3>2. Len(s.order) + 1 \in 1..Len(order) /\ 1..Len(s.order) \subseteq 1..Len(order)
        BY <2>8
      <3>3. \A i \in 1..Len(s.order) : order[i] # library
        BY <1>3, <1>6, <2>8
      <3>4. \A i, j \in 1..Len(order) : order[i] = order[j] => i = j
        <4> TAKE i, j \in 1..Len(order)
        <4>1. i = Len(s.order) + 1 \/ i \in 1..Len(s.order)
          BY <3>1
        <4>2. j = Len(s.order) + 1 \/ j \in 1..Len(s.order)
          BY <3>1
        <4> QED BY <1>3, <2>8, <3>3, <4>1, <4>2
      <3>5. \A i \in 1..Len(order) : order[i] \in hooked
        <4> TAKE i \in 1..Len(order)
        <4>1. i = Len(s.order) + 1 \/ i \in 1..Len(s.order)
          BY <3>1
        <4> QED BY <1>3, <2>8, <4>1 DEF hooked
      <3>6. \A l \in hooked : \E i \in 1..Len(order) : order[i] = l
        <4> TAKE l \in hooked
        <4>1. CASE l = library
          BY <2>8, <3>2, <4>1
        <4>2. CASE l \in s.hooked
          BY <1>3, <2>8, <3>2, <4>2
        <4> QED BY <4>1, <4>2 DEF hooked
      <3> QED BY <3>4, <3>5, <3>6
    <2>10. hooked \subseteq KnownLibraries
      BY <1>3, <1>6 DEF hooked
    <2>14. "requests" \in hooked => Quieted(ignored)
      <3>1. CASE library = "requests"
        <4>1. ignored = Put(s.ignored, "urllib3", 30)
          BY <3>1, Zenon DEF ignored
        <4> QED BY <4>1 DEF Quieted, Put
      <3>2. CASE library # "requests"
        <4>1. ignored = s.ignored
          BY <3>2, Zenon DEF ignored
        <4>2. "requests" \in hooked => "requests" \in s.hooked
          BY <3>2 DEF hooked
        <4> QED BY <1>3, <4>1, <4>2, Zenon
      <3> QED BY <3>1, <3>2
    <2>11. OrderKept(new)
      BY <1>3, <2>6, <2>8, <2>9, <2>10, <2>14, Zenon DEF OrderKept
    <2>12. s.hooked \subseteq hooked /\ hooked \subseteq s.hooked \cup {library} /\ library \in hooked
      BY DEF hooked
    <2>13. ignored \in {s.ignored, Put(s.ignored, "urllib3", 30)}
      BY Zenon DEF ignored
    <2> QED BY <1>6, <2>6, <2>7, <2>11, <2>12, <2>13, Zenon DEF LibraryHooked, new
  <1> QED BY <1>4, <1>5, <1>6

(* What has come of the calls of hook_libraries() so far. *)
IsHooking(r) ==
    r = [s |-> r.s, call |-> r.call, done |-> r.done, raised |-> r.raised, crumb |-> r.crumb]
Unknown(libraries) == \E i \in DOMAIN libraries : libraries[i] \notin KnownLibraries
Hooking(in, r) ==
    LET s == r.s
        libraries == in.libraries
        asked(library) == \E c \in 1..2 : \E i \in DOMAIN libraries[c] : libraries[c][i] = library
        known == \A c \in 1..2 : ~ Unknown(libraries[c])
    IN  /\ IsHooking(r) /\ IsHooks(s) /\ OrderKept(s)
        /\ r.call \in 1..3 /\ r.done \in Nat
        /\ r.call <= 2 => r.done <= Len(libraries[r.call])
        /\ r.call <= 2 => (s.raised <=> \E i \in 1..r.done : libraries[r.call][i] \notin KnownLibraries)
        /\ IsSeq(r.raised) /\ Len(r.raised) = r.call - 1
        /\ \A c \in 1..(r.call - 1) : r.raised[c] <=> Unknown(libraries[c])
        /\ \A library \in s.hooked : asked(library)
        /\ known => \A c \in 1..2 : \A i \in DOMAIN libraries[c] :
                       c < r.call \/ (c = r.call /\ i <= r.done) => libraries[c][i] \in s.hooked
        /\ in.ignore = "never" => \A k \in DOMAIN s.ignored : s.ignored[k] = 30
        /\ r.call = 3 => r.crumb = RecordLog(in.handlers, s.ignored, "urllib3", in.level)
        /\ r.call = 3 /\ in.ignore = "last" => "urllib3" \in DOMAIN s.ignored
                                               /\ s.ignored["urllib3"] = None

IsHookCall(in) ==
    /\ in.libraries \in [1..2 -> Seq(STRING)] /\ in.level \in Nat
    /\ in.ignore \in {"never", "first", "between", "last"}
    /\ in.handlers \in Seq(BOOLEAN)

(* When both calls are over, the libraries are hooked. *)
LEMMA HookingShows ==
    ASSUME NEW in, IsHookCall(in), NEW r, Hooking(in, r), r.call = 3
    PROVE  LET known == {"requests", "httplib"}
               asked == ToSet(in.libraries[1]) \cup ToSet(in.libraries[2])
               order == r.s.order
           IN  /\ IsInjective(order)
               /\ asked \subseteq known => ToSet(order) = asked
               /\ \A call \in 1..2 :
                     r.raised[call] <=> ~ (ToSet(in.libraries[call]) \subseteq known)
               /\ in.ignore = "last" \/ TRUE \in ToSet(in.handlers) => ~ r.crumb
               /\ "requests" \in ToSet(order) /\ in.level < 30 => ~ r.crumb
               /\ in.level >= 30 /\ in.ignore = "never" /\ in.handlers = <<>> => r.crumb
  <1> DEFINE asked == ToSet(in.libraries[1]) \cup ToSet(in.libraries[2])
             order == r.s.order
             ignored == r.s.ignored
             libraries == in.libraries
  <1>1. \A c \in 1..2 : /\ libraries[c] \in Seq(STRING)
                        /\ ToSet(libraries[c]) = {libraries[c][i] : i \in DOMAIN libraries[c]}
    BY DEF IsHookCall, ToSet
  <1>2. /\ DOMAIN order = 1..Len(order)
        /\ ToSet(order) = {order[i] : i \in DOMAIN order}
    <2>1. IsSeq(order)
      BY DEF Hooking, OrderKept
    <2> HIDE DEF order
    <2> QED BY <2>1 DEF IsSeq, ToSet
  <1>3. IsInjective(order)
    BY <1>2, Zenon DEF Hooking, OrderKept, IsInjective
  <1>4. ASSUME asked \subseteq KnownLibraries
        PROVE  ToSet(order) = asked
    <2>1. \A c \in 1..2 : ~ Unknown(libraries[c])
      <3> TAKE c \in 1..2
      <3>1. c = 1 \/ c = 2
        OBVIOUS
      <3>2. ToSet(libraries[c]) \subseteq KnownLibraries
        BY <1>4, <3>1
      <3> QED BY <1>1, <3>2 DEF Unknown
    <2>2. \A c \in 1..2 : \A i \in DOMAIN libraries[c] : libraries[c][i] \in r.s.hooked
      <3> TAKE c \in 1..2
      <3> TAKE i \in DOMAIN libraries[c]
      <3>1. c < 3
        OBVIOUS
      <3> QED BY <2>1, <3>1, Zenon DEF Hooking
    <2>3. \A library \in r.s.hooked :
             \E c \in 1..2 : \E i \in DOMAIN libraries[c] : libraries[c][i] = library
      BY Zenon DEF Hooking
    <2>4. \A x : x \in ToSet(order) <=> x \in r.s.hooked
      <3>1. /\ \A i \in 1..Len(order) : order[i] \in r.s.hooked
            /\ \A library \in r.s.hooked : \E i \in 1..Len(order) : order[i] = library
        BY Zenon DEF Hooking, OrderKept
      <3> HIDE DEF order
      <3> QED BY <1>2, <3>1
    <2>5. \A x : x \in asked <=> \E c \in 1..2 : \E i \in DOMAIN libraries[c] : libraries[c][i] = x
      <3> TAKE x
      <3>1. x \in asked <=> x \in ToSet(libraries[1]) \/ x \in ToSet(libraries[2])
        OBVIOUS
      <3>2. \A c \in 1..2 :
               x \in ToSet(libraries[c]) <=> \E i \in DOMAIN libraries[c] : libraries[c][i] = x
        BY <1>1
      <3> HIDE DEF asked, libraries
      <3>3. CASE \E c \in 1..2 : x \in ToSet(libraries[c])
        BY <3>1, <3>2, <3>3
      <3>4. CASE ~ \E c \in 1..2 : x \in ToSet(libraries[c])
        BY <3>1, <3>2, <3>4
      <3> QED BY <3>3, <3>4
    <2>6. \A x : x \in ToSet(order) <=> x \in asked
      <3> TAKE x
      <3>1. CASE x \in r.s.hooked
        BY <2>3, <2>4, <2>5, <3>1, Zenon
      <3>2. CASE x \notin r.s.hooked
        <4>1. \A c \in 1..2 : \A i \in DOMAIN libraries[c] : libraries[c][i] # x
          BY <2>2, <3>2
        <4> QED BY <2>4, <2>5, <3>2, <4>1, Zenon
      <3> QED BY <3>1, <3>2
    <2> HIDE DEF asked, order
    <2> QED BY <2>6
  <1>5. ASSUME NEW c \in 1..2
        PROVE  r.raised[c] <=> ~ (ToSet(libraries[c]) \subseteq KnownLibraries)
    <2>1. c \in 1..(r.call - 1)
      OBVIOUS
    <2>2. r.raised[c] <=> Unknown(libraries[c])
      BY <2>1 DEF Hooking
    <2>3. Unknown(libraries[c]) <=> ~ (ToSet(libraries[c]) \subseteq KnownLibraries)
      BY <1>1 DEF Unknown
    <2> QED BY <2>2, <2>3
  <1>6. r.crumb = RecordLog(in.handlers, ignored, "urllib3", in.level)
    BY DEF Hooking
  <1>7. in.ignore = "last" \/ TRUE \in ToSet(in.handlers) => ~ r.crumb
    BY <1>6, Zenon DEF RecordLog, Ignores, Hooking
  <1>8. in.level >= 30 /\ in.ignore = "never" /\ in.handlers = <<>> => r.crumb
    <2>1. SUFFICES ASSUME in.level >= 30, in.ignore = "never", in.handlers = <<>>
                   PROVE  r.crumb
      OBVIOUS
    <2>2. \A k \in DOMAIN ignored : ignored[k] = 30
      BY <2>1 DEF Hooking
    <2>3. TRUE \notin ToSet(in.handlers)
      BY <2>1 DEF ToSet
    <2>4. 30 # None /\ ~ (in.level < 30)
      BY <2>1, NoneAssumption DEF IsHookCall
    <2> HIDE DEF ignored
    <2>5. ~ Ignores(ignored, "urllib3", in.level)
      BY <2>2, <2>4, Zenon DEF Ignores
    <2> QED BY <1>6, <2>3, <2>5, Zenon DEF RecordLog
  <1>9. "requests" \in ToSet(order) /\ in.level < 30 => ~ r.crumb
    <2>1. SUFFICES ASSUME "requests" \in ToSet(order), in.level < 30
                   PROVE  ~ r.crumb
      OBVIOUS
    <2>2. \A i \in 1..Len(order) : order[i] \in r.s.hooked
      BY Zenon DEF Hooking, OrderKept
    <2>3. "requests" \in r.s.hooked
      <3> HIDE DEF order
      <3> QED BY <1>2, <2>1, <2>2
    <2>4. Quieted(ignored)
      BY <2>3, Zenon DEF Hooking, OrderKept
    <2>5. Ignores(ignored, "urllib3", in.level)
      BY <2>1, <2>4, Zenon DEF Quieted, Ignores
    <2> QED BY <1>6, <2>5, Zenon DEF RecordLog
  <1> QED BY <1>3, <1>4, <1>5, <1>7, <1>8, <1>9, Zenon DEF KnownLibraries

(* ignore_logger() changes what is ignored only. *)
LEMMA IgnoringKeeps ==
    ASSUME NEW s, IsHooks(s), OrderKept(s), NEW when
    PROVE  LET new == Ignoring(s, when)
           IN  /\ IsHooks(new) /\ OrderKept(new)
               /\ new.hooked = s.hooked /\ new.raised = s.raised
               /\ input.ignore # when => new.ignored = s.ignored
               /\ input.ignore = when =>
                     "urllib3" \in DOMAIN new.ignored /\ new.ignored["urllib3"] = None
  <1> DEFINE new == Ignoring(s, when)
             ignored == Put(s.ignored, "urllib3", None)
  <1>1. CASE input.ignore # when
    <2>1. new = s
      BY <1>1, Zenon DEF Ignoring
    <2> QED BY <1>1, <2>1, Zenon
  <1>2. CASE input.ignore = when
    <2>1. new = [s EXCEPT !.ignored = ignored]
      BY <1>2 DEF Ignoring, IgnoreLogger
    <2>2. s = [hooked |-> s.hooked, order |-> s.order, ignored |-> s.ignored, raised |-> s.raised]
      BY DEF IsHooks
    <2>3. "urllib3" \in DOMAIN ignored /\ ignored["urllib3"] = None
      BY DEF Put
    <2> HIDE DEF new, ignored
    <2>4. new = [hooked |-> s.hooked, order |-> s.order, ignored |-> ignored, raised |-> s.raised]
      BY <2>1, <2>2
    <2>5. /\ new.hooked = s.hooked /\ new.order = s.order /\ new.ignored = ignored
          /\ new.raised = s.raised
      BY <2>4
    <2>6. IsHooks(new) /\ OrderKept(new)
      <3>1. IsHooks(new)
        BY <2>4, <2>5 DEF IsHooks
      <3>2. OrderKept(new)
        <4>1. Quieted(ignored)
          BY <2>3, Zenon DEF Quieted
        <4> QED BY <2>5, <4>1, Zenon DEF OrderKept
      <3> QED BY <3>1, <3>2
    <2> QED BY <1>2, <2>3, <2>5, <2>6, Zenon DEF new
  <1> QED BY <1>1, <1>2

HooksGoing == Answered("hook") => Hooking(input, result)

(* Before the first call, *)
LEMMA HookBegins ==
    ASSUME IsHookCall(input), HookFirst
    PROVE  Hooking(input, result')
  <1> DEFINE s == Ignoring(HookNothing, "first")
             new == [s |-> s, call |-> 1, done |-> 0, raised |-> <<>>, crumb |-> None]
             libraries == input.libraries
  <1>1. result' = new
    BY Zenon DEF HookFirst, Answer
  <1>2. IsHooks(HookNothing) /\ OrderKept(HookNothing)
    <2> DEFINE no == FALSE
               nothing == HookNothing
    <2>1. nothing = [hooked |-> {}, order |-> <<>>, ignored |-> <<>>, raised |-> no]
      BY Zenon DEF HookNothing
    <2>2. no \in BOOLEAN
      OBVIOUS
    <2>3. IsSeq(<<>>) /\ Len(<<>>) = 0 /\ 1..0 = {}
      <3>1. <<>> \in Seq({})
        OBVIOUS
      <3> QED BY <3>1 DEF IsSeq
    <2> HIDE DEF no, nothing
    <2>4. /\ nothing.hooked = {} /\ nothing.order = <<>> /\ nothing.ignored = <<>>
          /\ nothing.raised = no
      BY <2>1
    <2>5. IsHooks(nothing)
      BY <2>1, <2>4 DEF IsHooks
    <2>6. OrderKept(nothing)
      BY <2>2, <2>3, <2>4, SMT DEF OrderKept
    <2> QED BY <2>5, <2>6 DEF nothing
  <1>3. /\ IsHooks(s) /\ OrderKept(s) /\ s.hooked = {} /\ s.raised = FALSE
        /\ input.ignore # "first" => s.ignored = <<>>
    <2>1. HookNothing.hooked = {} /\ HookNothing.ignored = <<>>
      BY DEF HookNothing
    <2>2. HookNothing.raised = FALSE
      BY Zenon DEF HookNothing
    <2> QED BY <1>2, <2>1, <2>2, IgnoringKeeps, Zenon
  <1> HIDE DEF s
  <1>4. /\ new.s = s /\ new.call = 1 /\ new.done = 0 /\ new.raised = <<>> /\ new.crumb = None
        /\ new = [s |-> new.s, call |-> new.call, done |-> new.done, raised |-> new.raised,
                  crumb |-> new.crumb]
    OBVIOUS
  <1> HIDE DEF new
  <1>5. /\ 1 \in 1..3 /\ 0 \in Nat /\ 1 # 3 /\ 1..0 = {} /\ 1 - 1 = 0
        /\ IsSeq(<<>>) /\ Len(<<>>) = 0 /\ DOMAIN <<>> = {}
    <2>1. <<>> \in Seq({})
      OBVIOUS
    <2> QED BY <2>1 DEF IsSeq
  <1>6. 0 <= Len(libraries[1])
    <2>1. libraries[1] \in Seq(STRING)
      BY DEF IsHookCall
    <2> QED BY <2>1
  <1>7. /\ new.call \in 1..3 /\ new.done \in Nat /\ IsSeq(new.raised)
        /\ new.call = 1 /\ new.call # 3 /\ new.done = 0 /\ 1..new.done = {}
        /\ 1..(new.call - 1) = {} /\ Len(new.raised) = new.call - 1
        /\ new.done <= Len(libraries[new.call])
    BY <1>4, <1>5, <1>6
  <1>8. \A c \in 1..2 : \A i \in DOMAIN libraries[c] : ~ (c < new.call \/ (c = new.call /\ i <= new.done))
    <2> TAKE c \in 1..2
    <2>1. libraries[c] \in Seq(STRING)
      BY DEF IsHookCall
    <2> QED BY <1>7, <2>1
  <1>9. input.ignore = "never" => \A k \in DOMAIN s.ignored : s.ignored[k] = 30
    BY <1>3, <1>5
  <1>10. IsHooking(new)
    BY <1>4, Zenon DEF IsHooking
  <1>11. new.s.hooked = {} /\ ~ new.s.raised
    BY <1>3, <1>4
  <1>12. \A x : x \notin {}
    OBVIOUS
  <1>13. Hooking(input, new)
    BY <1>3, <1>4, <1>7, <1>8, <1>9, <1>10, <1>11, <1>12, Zenon DEF Hooking
  <1> QED BY <1>1, <1>13

(* after each library *)
LEMMA HookGoesOn ==
    ASSUME IsHookCall(input), Hooking(input, result), HookNext
    PROVE  Hooking(input, result')
  <1> DEFINE r == result
             c == r.call
             done == r.done + 1
             libraries == input.libraries
             library == libraries[c][done]
             s == HookLibrary(r.s, library)
             once == [r EXCEPT !.s = s]
             new == [once EXCEPT !.done = done]
  <1>1. r.call <= 2 /\ r.done < Len(libraries[r.call])
    BY DEF HookNext
  <1>2. result' = [r EXCEPT !.s = s, !.done = done]
    BY DEF HookNext, Answer
  <1>3. result' = new
    BY <1>2
  <1>4. /\ IsHooking(r) /\ IsHooks(r.s) /\ OrderKept(r.s)
        /\ r.call \in 1..3 /\ r.done \in Nat /\ IsSeq(r.raised) /\ Len(r.raised) = r.call - 1
        /\ \A d \in 1..(r.call - 1) : r.raised[d] <=> Unknown(libraries[d])
    BY Zenon DEF Hooking
  <1>5. LibraryHooked(s, r.s, library)
    BY <1>4, HookKeeps
  <1>6. /\ IsHooks(s) /\ OrderKept(s) /\ r.s.hooked \subseteq s.hooked
        /\ s.hooked \subseteq r.s.hooked \cup {library}
        /\ s.raised <=> r.s.raised \/ library \notin KnownLibraries
        /\ ~ r.s.raised /\ library \in KnownLibraries => library \in s.hooked
        /\ s.ignored \in {r.s.ignored, Put(r.s.ignored, "urllib3", 30)}
    BY <1>5, Zenon DEF LibraryHooked
  <1> HIDE DEF s
  <1>7. r = [s |-> r.s, call |-> r.call, done |-> r.done, raised |-> r.raised, crumb |-> r.crumb]
    BY <1>4, Zenon DEF IsHooking
  <1> HIDE DEF done
  <1>8. once = [s |-> s, call |-> r.call, done |-> r.done, raised |-> r.raised, crumb |-> r.crumb]
    BY <1>7
  <1> HIDE DEF once
  <1>9. new = [s |-> s, call |-> r.call, done |-> done, raised |-> r.raised, crumb |-> r.crumb]
    BY <1>8
  <1> HIDE DEF new
  <1>10. /\ new.s = s /\ new.call = c /\ new.done = done /\ new.raised = r.raised
         /\ IsHooking(new)
    BY <1>9 DEF IsHooking
  <1>11. c \in 1..2 /\ libraries[c] \in Seq(STRING) /\ done \in 1..Len(libraries[c])
         /\ done \in Nat /\ done = r.done + 1 /\ c # 3 /\ done <= Len(libraries[c])
    BY <1>1, <1>4 DEF IsHookCall, done
  <1>12. s.raised <=> \E i \in 1..done : libraries[c][i] \notin KnownLibraries
    <2>1. r.s.raised <=> \E i \in 1..r.done : libraries[c][i] \notin KnownLibraries
      BY <1>1, Zenon DEF Hooking
    <2>2. \A i : i \in 1..done <=> i \in 1..r.done \/ i = done
      BY <1>4, <1>11
    <2> QED BY <1>6, <2>1, <2>2, Zenon DEF library
  <1>13. \A l \in s.hooked : \E d \in 1..2 : \E i \in DOMAIN libraries[d] : libraries[d][i] = l
    <2> TAKE l \in s.hooked
    <2>1. CASE l \in r.s.hooked
      BY <2>1, Zenon DEF Hooking
    <2>2. CASE l = library
      <3>1. done \in DOMAIN libraries[c]
        BY <1>11
      <3> QED BY <1>11, <2>2, <3>1, Zenon DEF library
    <2> QED BY <1>6, <2>1, <2>2
  <1>14. ASSUME \A d \in 1..2 : ~ Unknown(libraries[d]), NEW d \in 1..2, NEW i \in DOMAIN libraries[d],
                d < new.call \/ (d = new.call /\ i <= new.done)
         PROVE  libraries[d][i] \in s.hooked
    <2>1. CASE d < r.call \/ (d = r.call /\ i <= r.done)
      <3>1. libraries[d][i] \in r.s.hooked
        BY <1>14, <2>1, Zenon DEF Hooking
      <3> QED BY <1>6, <3>1
    <2>2. CASE d = c /\ i = done
      <3>1. library \in KnownLibraries
        BY <1>14, <2>2 DEF Unknown
      <3>2. ~ r.s.raised
        <4>1. r.s.raised <=> \E j \in 1..r.done : libraries[c][j] \notin KnownLibraries
          BY <1>1, Zenon DEF Hooking
        <4>2. 1..r.done \subseteq DOMAIN libraries[c]
          BY <1>4, <1>11
        <4>3. ~ Unknown(libraries[c])
          BY <1>11, <1>14
        <4> QED BY <4>1, <4>2, <4>3 DEF Unknown
      <3> QED BY <1>6, <2>2, <3>1, <3>2
    <2>3. i \in Nat
      <3>1. libraries[d] \in Seq(STRING)
        BY DEF IsHookCall
      <3> QED BY <3>1
    <2> QED BY <1>4, <1>10, <1>11, <1>14, <2>1, <2>2, <2>3
  <1>15. input.ignore = "never" => \A k \in DOMAIN s.ignored : s.ignored[k] = 30
    <2>1. input.ignore = "never" => \A k \in DOMAIN r.s.ignored : r.s.ignored[k] = 30
      BY Zenon DEF Hooking
    <2> QED BY <1>6, <2>1 DEF Put
  <1>16. new.call # 3
    BY <1>10, <1>11
  <1>17. /\ new.call \in 1..3 /\ new.done \in Nat /\ IsSeq(new.raised)
         /\ Len(new.raised) = new.call - 1
         /\ \A d \in 1..(new.call - 1) : new.raised[d] <=> Unknown(libraries[d])
    BY <1>4, <1>10, <1>11, Zenon
  <1>18. Hooking(input, new)
    BY <1>6, <1>10, <1>11, <1>12, <1>13, <1>14, <1>15, <1>16, <1>17, Zenon DEF Hooking
  <1> QED BY <1>3, <1>18

(* and after each call. *)
LEMMA HookReturns ==
    ASSUME IsHookCall(input), Hooking(input, result), HookReturn
    PROVE  Hooking(input, result')
  <1> DEFINE r == result
             c == r.call
             libraries == input.libraries
             no == FALSE
             calm == [r.s EXCEPT !.raised = no]
             when == IF c = 1 THEN "between" ELSE "last"
             s == Ignoring(calm, when)
             raised == Append(r.raised, r.s.raised)
             crumb == IF c = 1 THEN None
                      ELSE RecordLog(input.handlers, s.ignored, "urllib3", input.level)
             next == c + 1
             new == [s |-> s, call |-> next, done |-> 0, raised |-> raised, crumb |-> crumb]
  <1>1. c <= 2 /\ r.done = Len(libraries[c])
    BY DEF HookReturn
  <1>2. result' = new
    BY Zenon DEF HookReturn, Answer
  <1>3. /\ IsHooks(r.s) /\ OrderKept(r.s)
        /\ r.call \in 1..3 /\ r.done \in Nat /\ IsSeq(r.raised) /\ Len(r.raised) = r.call - 1
        /\ \A d \in 1..(r.call - 1) : r.raised[d] <=> Unknown(libraries[d])
    BY Zenon DEF Hooking
  <1>4. IsHooks(calm) /\ OrderKept(calm) /\ calm.hooked = r.s.hooked /\ calm.raised = no
        /\ calm.ignored = r.s.ignored
    <2>1. r.s = [hooked |-> r.s.hooked, order |-> r.s.order, ignored |-> r.s.ignored,
                 raised |-> r.s.raised]
      BY <1>3 DEF IsHooks
    <2>2. no \in BOOLEAN
      OBVIOUS
    <2> HIDE DEF no
    <2>3. calm = [hooked |-> r.s.hooked, order |-> r.s.order, ignored |-> r.s.ignored,
                  raised |-> no]
      BY <2>1
    <2> HIDE DEF calm
    <2>4. /\ calm.hooked = r.s.hooked /\ calm.order = r.s.order /\ calm.ignored = r.s.ignored
          /\ calm.raised = no
      BY <2>3
    <2>5. IsHooks(calm)
      BY <2>3, <2>4 DEF IsHooks
    <2>6. OrderKept(calm)
      BY <1>3, <2>2, <2>4, Zenon DEF OrderKept
    <2> QED BY <2>4, <2>5, <2>6
  <1> HIDE DEF calm
  <1>5. /\ IsHooks(s) /\ OrderKept(s) /\ s.hooked = r.s.hooked /\ ~ s.raised
        /\ input.ignore # when => s.ignored = r.s.ignored
        /\ input.ignore = when =>
              "urllib3" \in DOMAIN s.ignored /\ s.ignored["urllib3"] = None
    <2> HIDE DEF when, r
    <2>1. /\ IsHooks(s) /\ OrderKept(s) /\ s.hooked = calm.hooked /\ s.raised = calm.raised
          /\ input.ignore # when => s.ignored = calm.ignored
          /\ input.ignore = when =>
                "urllib3" \in DOMAIN s.ignored /\ s.ignored["urllib3"] = None
      BY <1>4, IgnoringKeeps, Zenon
    <2> QED BY <1>4, <2>1, Zenon
  <1> HIDE DEF s
  <1>6. /\ new.s = s /\ new.call = next /\ new.done = 0 /\ new.raised = raised /\ new.crumb = crumb
        /\ IsHooking(new)
    <2> HIDE DEF next, raised, crumb
    <2> QED BY DEF IsHooking
  <1> HIDE DEF new
  <1>7. c \in 1..2 /\ libraries[c] \in Seq(STRING) /\ next \in 1..3 /\ next - 1 = c /\ 0 \in Nat
    BY <1>1, <1>3 DEF IsHookCall
  <1>8. /\ IsSeq(raised) /\ Len(raised) = c /\ raised[c] = r.s.raised
        /\ \A d \in 1..(c - 1) : raised[d] = r.raised[d]
    <2>1. /\ IsSeq(raised) /\ Len(raised) = Len(r.raised) + 1
          /\ raised[Len(r.raised) + 1] = r.s.raised
          /\ \A d \in 1..Len(r.raised) : raised[d] = r.raised[d]
      BY <1>3, Grown
    <2>2. Len(r.raised) = c - 1 /\ c - 1 + 1 = c
      BY <1>3, <1>7
    <2> HIDE DEF raised, c, r
    <2> QED BY <2>1, <2>2, Zenon
  <1> HIDE DEF raised
  <1>9. \A d \in 1..c : raised[d] <=> Unknown(libraries[d])
    <2>1. r.s.raised <=> Unknown(libraries[c])
      <3>1. r.s.raised <=> \E i \in 1..r.done : libraries[c][i] \notin KnownLibraries
        BY <1>1, Zenon DEF Hooking
      <3>2. DOMAIN libraries[c] = 1..r.done
        BY <1>1, <1>7
      <3> QED BY <3>1, <3>2, Zenon DEF Unknown
    <2> TAKE d \in 1..c
    <2>2. d = c \/ d \in 1..(c - 1)
      BY <1>7
    <2>3. CASE d = c
      BY <1>8, <2>1, <2>3, Zenon
    <2>4. CASE d \in 1..(c - 1)
      BY <1>3, <1>8, <2>4, Zenon
    <2> QED BY <2>2, <2>3, <2>4
  <1>10. \A l \in s.hooked : \E d \in 1..2 : \E i \in DOMAIN libraries[d] : libraries[d][i] = l
    BY <1>5, Zenon DEF Hooking
  <1>11. ASSUME \A d \in 1..2 : ~ Unknown(libraries[d]), NEW d \in 1..2, NEW i \in DOMAIN libraries[d],
                d < new.call \/ (d = new.call /\ i <= new.done)
         PROVE  libraries[d][i] \in s.hooked
    <2>1. libraries[d] \in Seq(STRING)
      BY DEF IsHookCall
    <2>2. d < r.call \/ (d = r.call /\ i <= r.done)
      BY <1>1, <1>6, <1>7, <1>11, <2>1
    <2> QED BY <1>5, <1>11, <2>2, Zenon DEF Hooking
  <1>12. input.ignore = "never" => \A k \in DOMAIN s.ignored : s.ignored[k] = 30
    BY <1>5 DEF Hooking
  <1>13. new.call <= 2 => /\ new.done <= Len(libraries[new.call])
                          /\ new.s.raised <=>
                               \E i \in 1..new.done : libraries[new.call][i] \notin KnownLibraries
    <2>1. new.call <= 2 => libraries[new.call] \in Seq(STRING)
      BY <1>6, <1>7 DEF IsHookCall
    <2>2. 1..new.done = {}
      BY <1>6
    <2> QED BY <1>5, <1>6, <2>1, <2>2
  <1>14. /\ new.call = 3 => new.crumb = RecordLog(input.handlers, s.ignored, "urllib3", input.level)
         /\ new.call = 3 /\ input.ignore = "last" =>
               "urllib3" \in DOMAIN s.ignored /\ s.ignored["urllib3"] = None
    <2>1. new.call = 3 => c # 1
      BY <1>6
    <2>2. c # 1 => when = "last"
      OBVIOUS
    <2> QED BY <1>5, <1>6, <2>1, <2>2, Zenon DEF crumb
  <1>15. /\ new.call \in 1..3 /\ new.done \in Nat /\ IsSeq(new.raised)
         /\ Len(new.raised) = new.call - 1
         /\ \A d \in 1..(new.call - 1) : new.raised[d] <=> Unknown(libraries[d])
    <2> HIDE DEF next
    <2> QED BY <1>6, <1>7, <1>8, <1>9, Zenon
  <1>16. Hooking(input, new)
    BY <1>5, <1>6, <1>10, <1>11, <1>12, <1>13, <1>14, <1>15, Zenon DEF Hooking
  <1> QED BY <1>2, <1>16

(* So for every step, *)
LEMMA HookStep ==
    ASSUME CrumbInput, HooksGoing, [Next]_vars
    PROVE  HooksGoing'
  <1>1. input' = input
    BY InputStays
  <1>2. CASE input.do # "hook" \/ UNCHANGED vars
    BY <1>1, <1>2 DEF HooksGoing, Answered, vars
  <1>3. CASE input.do = "hook" /\ (HookFirst \/ HookNext \/ HookReturn)
    <2>1. IsHookCall(input)
      BY <1>3, Zenon DEF CrumbInput, IsHookCall
    <2>2. CASE HookFirst
      BY <1>1, <2>1, <2>2, HookBegins, Zenon DEF HooksGoing
    <2>3. CASE HookNext
      <3>1. Hooking(input, result)
        BY <2>3, Zenon DEF HookNext, Going, HooksGoing, Answered
      <3> QED BY <1>1, <2>1, <2>3, <3>1, HookGoesOn, Zenon DEF HooksGoing
    <2>4. CASE HookReturn
      <3>1. Hooking(input, result)
        BY <2>4, Zenon DEF HookReturn, Going, HooksGoing, Answered
      <3> QED BY <1>1, <2>1, <2>4, <3>1, HookReturns, Zenon DEF HooksGoing
    <2> QED BY <1>3, <2>2, <2>3, <2>4
  <1> QED BY <1>2, <1>3, Questions DEF Next

(* and that is what is promised. *)
LEMMA HooksShow ==
    ASSUME CrumbInput, HooksGoing
    PROVE  LibrariesHooked
  <1>1. SUFFICES ASSUME Answered("hook"), result.call = 3
                 PROVE  LibrariesHooked
    BY Zenon DEF LibrariesHooked
  <1>2. IsHookCall(input)
    BY <1>1, Zenon DEF CrumbInput, IsHookCall, Answered
  <1>3. Hooking(input, result)
    BY <1>1, Zenon DEF HooksGoing
  <1> QED BY <1>1, <1>2, <1>3, HookingShows, Zenon DEF LibrariesHooked

-----------------------------------------------------------------------------
(* Connections *)

(* A connection, field by field. *)
Connection(d, w, st, u, a, o, c, e) ==
    [dict |-> d, waiting |-> w, status |-> st, url |-> u, answer |-> a, overlap |-> o,
     crumbs |-> c, event |-> e]
IsConnection(s) ==
    s = Connection(s.dict, s.waiting, s.status, s.url, s.answer, s.overlap, s.crumbs, s.event)

(* Its fields. *)
LEMMA ConnectionHas ==
    ASSUME NEW d, NEW w, NEW st, NEW u, NEW a, NEW o, NEW c, NEW e, NEW s,
           s = Connection(d, w, st, u, a, o, c, e)
    PROVE  /\ IsConnection(s) /\ s.dict = d /\ s.waiting = w /\ s.status = st /\ s.url = u
           /\ s.answer = a /\ s.overlap = o /\ s.crumbs = c /\ s.event = e
  BY DEF Connection, IsConnection

(* putrequest(), field by field, *)
LEMMA PutRequestIs ==
    ASSUME NEW s, IsConnection(s), NEW url
    PROVE  LET n == Len(s.status) + 1
               crumb == [request |-> n, url |-> url, status |-> "absent", processor |-> TRUE]
           IN  PutRequest(s, url) =
                  Connection(n, IF s.waiting = 0 THEN n ELSE s.waiting,
                             Append(s.status, "absent"), Append(s.url, url),
                             Append(s.answer, "absent"), s.overlap \/ s.waiting # 0,
                             Append(s.crumbs, crumb), s.event)
  <1> DEFINE n == Len(s.status) + 1
             crumb == [request |-> n, url |-> url, status |-> "absent", processor |-> TRUE]
             waiting == IF s.waiting = 0 THEN n ELSE s.waiting
             status == Append(s.status, "absent")
             urls == Append(s.url, url)
             answer == Append(s.answer, "absent")
             overlap == s.overlap \/ s.waiting # 0
             crumbs == Append(s.crumbs, crumb)
             s1 == [s EXCEPT !.dict = n]
             s2 == [s1 EXCEPT !.status = status]
             s3 == [s2 EXCEPT !.url = urls]
             s4 == [s3 EXCEPT !.answer = answer]
             s5 == [s4 EXCEPT !.waiting = waiting]
             s6 == [s5 EXCEPT !.overlap = overlap]
             s7 == [s6 EXCEPT !.crumbs = crumbs]
             new == [s EXCEPT !.dict = n, !.status = status, !.url = urls, !.answer = answer,
                              !.waiting = waiting, !.overlap = overlap, !.crumbs = crumbs]
  <1>1. PutRequest(s, url) = new
    BY Zenon DEF PutRequest
  <1> HIDE DEF n, crumb, waiting, status, urls, answer, overlap, crumbs
  <1>2. new = s7
    OBVIOUS
  <1> HIDE DEF new
  <1>3. s = Connection(s.dict, s.waiting, s.status, s.url, s.answer, s.overlap, s.crumbs, s.event)
    BY DEF IsConnection
  <1>4. s1 = Connection(n, s.waiting, s.status, s.url, s.answer, s.overlap, s.crumbs, s.event)
    BY <1>3 DEF Connection
  <1> HIDE DEF s1
  <1>5. s2 = Connection(n, s.waiting, status, s.url, s.answer, s.overlap, s.crumbs, s.event)
    BY <1>4 DEF Connection
  <1> HIDE DEF s2
  <1>6. s3 = Connection(n, s.waiting, status, urls, s.answer, s.overlap, s.crumbs, s.event)
    BY <1>5 DEF Connection
  <1> HIDE DEF s3
  <1>7. s4 = Connection(n, s.waiting, status, urls, answer, s.overlap, s.crumbs, s.event)
    BY <1>6 DEF Connection
  <1> HIDE DEF s4
  <1>8. s5 = Connection(n, waiting, status, urls, answer, s.overlap, s.crumbs, s.event)
    BY <1>7 DEF Connection
  <1> HIDE DEF s5
  <1>9. s6 = Connection(n, waiting, status, urls, answer, overlap, s.crumbs, s.event)
    BY <1>8 DEF Connection
  <1> HIDE DEF s6
  <1>10. s7 = Connection(n, waiting, status, urls, answer, overlap, crumbs, s.event)
    BY <1>9 DEF Connection
  <1> HIDE DEF s7
  <1> QED BY <1>1, <1>2, <1>10, Zenon DEF n, crumb, waiting, status, urls, answer, overlap, crumbs

(* and getresponse(). *)
LEMMA GetResponseIs ==
    ASSUME NEW s, IsConnection(s), NEW answer
    PROVE  LET new == GetResponse(s, answer)
           IN  IF s.waiting = 0 THEN new = s
               ELSE IF answer = "fails"
               THEN new = Connection(s.dict, 0, s.status, s.url, s.answer, s.overlap, s.crumbs, s.event)
               ELSE new = Connection(s.dict, 0,
                              [s.status EXCEPT ![s.dict] = IF @ = "absent" THEN answer ELSE @], s.url,
                              [s.answer EXCEPT ![s.waiting] = answer], s.overlap, s.crumbs, s.event)
  <1> DEFINE new == GetResponse(s, answer)
             status == [s.status EXCEPT ![s.dict] = IF @ = "absent" THEN answer ELSE @]
             answers == [s.answer EXCEPT ![s.waiting] = answer]
             s1 == [s EXCEPT !.waiting = 0]
             s2 == [s1 EXCEPT !.answer = answers]
             s3 == [s2 EXCEPT !.status = status]
             full == [s EXCEPT !.waiting = 0, !.answer[s.waiting] = answer,
                               !.status[s.dict] = IF @ = "absent" THEN answer ELSE @]
  <1>1. new = IF s.waiting = 0 THEN s ELSE IF answer = "fails" THEN s1 ELSE full
    BY Zenon DEF GetResponse
  <1>3. s = Connection(s.dict, s.waiting, s.status, s.url, s.answer, s.overlap, s.crumbs, s.event)
    BY DEF IsConnection
  <1>2. full = s3
    OBVIOUS
  <1> HIDE DEF new, full, status, answers
  <1>4. s1 = Connection(s.dict, 0, s.status, s.url, s.answer, s.overlap, s.crumbs, s.event)
    BY <1>3 DEF Connection
  <1> HIDE DEF s1
  <1>5. s2 = Connection(s.dict, 0, s.status, s.url, answers, s.overlap, s.crumbs, s.event)
    BY <1>4 DEF Connection
  <1> HIDE DEF s2
  <1>6. s3 = Connection(s.dict, 0, status, s.url, answers, s.overlap, s.crumbs, s.event)
    BY <1>5 DEF Connection
  <1> HIDE DEF s3
  <1> QED BY <1>1, <1>2, <1>4, <1>6, Zenon DEF new, status, answers

(* A crumb, and what it will say once its processor has run. *)
CrumbOf(request, url, status, processor) ==
    [request |-> request, url |-> url, status |-> status, processor |-> processor]
Says(s, crumb) == IF crumb.processor THEN s.status[crumb.request] ELSE crumb.status

(* The requests of a connection have numbers, *)
Numbered(s) ==
    /\ IsConnection(s)
    /\ IsSeq(s.status) /\ IsSeq(s.url) /\ IsSeq(s.answer) /\ IsSeq(s.crumbs)
    /\ Len(s.url) = Len(s.status) /\ Len(s.answer) = Len(s.status)
    /\ s.dict \in 0..Len(s.status) /\ s.waiting \in 0..Len(s.status) /\ s.overlap \in BOOLEAN
    /\ \A n \in 1..Len(s.status) : s.status[n] \in {"absent", "200", "500"}
(* what was answered is what their dictionaries have, *)
Answers(s) ==
    /\ s.waiting # 0 => s.answer[s.waiting] = "absent"
    /\ ~ s.overlap => /\ s.waiting # 0 => s.dict = s.waiting
                      /\ \A n \in 1..Len(s.status) : s.status[n] = s.answer[n]
(* each crumb is of one of them, and what it said with an earlier event was so then, *)
IsCrumb(s, crumb) ==
    /\ crumb = CrumbOf(crumb.request, crumb.url, crumb.status, crumb.processor)
    /\ crumb.request \in 1..Len(s.status) /\ crumb.url = s.url[crumb.request]
    /\ crumb.processor \in BOOLEAN
Fits(s, crumb, early) ==
    ~ crumb.processor =>
        /\ crumb.status = None => s.answer[crumb.request] # "200" /\ crumb.request # s.waiting
        /\ ~ s.overlap /\ crumb.status # None => crumb.status \in {s.answer[crumb.request], "absent"}
        /\ crumb.status = "absent" => early
Crumbed(s, early) ==
    \A i \in 1..Len(s.crumbs) : IsCrumb(s, s.crumbs[i]) /\ Fits(s, s.crumbs[i], early)
(* each has a crumb, *)
Covered(s) == \A n \in 1..Len(s.status) : \E i \in 1..Len(s.crumbs) : s.crumbs[i].request = n
(* and where two crumbs are of one request, of a session, they say the same of its success. *)
Alike(s, i, j) ==
    LET request == s.crumbs[i].request
    IN  /\ j = i + 1 /\ request # s.waiting /\ request # s.dict
        /\ s.answer[request] = "200" =>
              Says(s, s.crumbs[i]) = "200" /\ Says(s, s.crumbs[j]) = "200"
Paired(s) ==
    \A i, j \in 1..Len(s.crumbs) : i < j /\ s.crumbs[i].request = s.crumbs[j].request => Alike(s, i, j)
HttpHeld(s, early) ==
    Numbered(s) /\ Answers(s) /\ Crumbed(s, early) /\ Covered(s) /\ Paired(s)

(* What putrequest() adds. *)
PutAdds(new, s, url) ==
    LET n == Len(s.status) + 1
        k == Len(s.crumbs) + 1
    IN  /\ IsConnection(new) /\ new.dict = n /\ new.waiting = (IF s.waiting = 0 THEN n ELSE s.waiting)
        /\ new.overlap <=> s.overlap \/ s.waiting # 0
        /\ IsSeq(new.status) /\ Len(new.status) = n /\ new.status[n] = "absent"
        /\ IsSeq(new.url) /\ Len(new.url) = n /\ new.url[n] = url
        /\ IsSeq(new.answer) /\ Len(new.answer) = n /\ new.answer[n] = "absent"
        /\ \A m \in 1..Len(s.status) : /\ new.status[m] = s.status[m] /\ new.url[m] = s.url[m]
                                       /\ new.answer[m] = s.answer[m]
        /\ IsSeq(new.crumbs) /\ Len(new.crumbs) = k
        /\ new.crumbs[k] = CrumbOf(n, url, "absent", TRUE)
        /\ \A i \in 1..Len(s.crumbs) : new.crumbs[i] = s.crumbs[i]
        /\ new.overlap \in BOOLEAN

(* It does, *)
LEMMA PutAddsOne ==
    ASSUME NEW s, Numbered(s), NEW url
    PROVE  PutAdds(PutRequest(s, url), s, url)
  <1> DEFINE new == PutRequest(s, url)
             n == Len(s.status) + 1
             crumb == [request |-> n, url |-> url, status |-> "absent", processor |-> TRUE]
             waiting == IF s.waiting = 0 THEN n ELSE s.waiting
             status == Append(s.status, "absent")
             urls == Append(s.url, url)
             answer == Append(s.answer, "absent")
             overlap == s.overlap \/ s.waiting # 0
             crumbs == Append(s.crumbs, crumb)
  <1>1. /\ IsConnection(s) /\ IsSeq(s.status) /\ IsSeq(s.url) /\ IsSeq(s.answer) /\ IsSeq(s.crumbs)
        /\ Len(s.url) = Len(s.status) /\ Len(s.answer) = Len(s.status)
    BY Zenon DEF Numbered
  <1>2. new = Connection(n, waiting, status, urls, answer, overlap, crumbs, s.event)
    BY <1>1, PutRequestIs
  <1>3. /\ IsSeq(status) /\ Len(status) = n /\ status[n] = "absent"
        /\ \A m \in 1..Len(s.status) : status[m] = s.status[m]
    BY <1>1, Grown
  <1>4. /\ IsSeq(urls) /\ Len(urls) = n /\ urls[n] = url
        /\ \A m \in 1..Len(s.status) : urls[m] = s.url[m]
    BY <1>1, Grown
  <1>5. /\ IsSeq(answer) /\ Len(answer) = n /\ answer[n] = "absent"
        /\ \A m \in 1..Len(s.status) : answer[m] = s.answer[m]
    BY <1>1, Grown
  <1> HIDE DEF crumb
  <1>6. /\ IsSeq(crumbs) /\ Len(crumbs) = Len(s.crumbs) + 1 /\ crumbs[Len(s.crumbs) + 1] = crumb
        /\ \A i \in 1..Len(s.crumbs) : crumbs[i] = s.crumbs[i]
    BY <1>1, Grown
  <1>7. crumb = CrumbOf(n, url, "absent", TRUE) /\ overlap \in BOOLEAN
    BY Zenon DEF crumb, CrumbOf
  <1> HIDE DEF new, n, waiting, status, urls, answer, overlap, crumbs
  <1>8. /\ IsConnection(new) /\ new.dict = n /\ new.waiting = waiting /\ new.status = status
        /\ new.url = urls /\ new.answer = answer /\ new.overlap = overlap /\ new.crumbs = crumbs
    BY <1>2, ConnectionHas
  <1>9. PutAdds(new, s, url)
    BY <1>3, <1>4, <1>5, <1>6, <1>7, <1>8, Zenon DEF PutAdds, n, waiting, overlap
  <1> QED BY <1>9 DEF new

(* and keeps the rest. *)
LEMMA PutKeeps ==
    ASSUME NEW s, NEW early \in BOOLEAN, HttpHeld(s, early), NEW url, NEW new, PutAdds(new, s, url)
    PROVE  HttpHeld(new, early)
  <1> DEFINE N == Len(s.status)
             K == Len(s.crumbs)
  <1>1. /\ IsSeq(s.status) /\ IsSeq(s.crumbs) /\ s.dict \in 0..N /\ s.waiting \in 0..N
        /\ \A n \in 1..N : s.status[n] \in {"absent", "200", "500"}
    BY Zenon DEF HttpHeld, Numbered
  <1>2. N \in Nat /\ K \in Nat
    BY <1>1, Grown
  <1>3. /\ IsConnection(new) /\ new.dict = N + 1
        /\ new.waiting = (IF s.waiting = 0 THEN N + 1 ELSE s.waiting)
        /\ new.overlap <=> s.overlap \/ s.waiting # 0
        /\ IsSeq(new.status) /\ Len(new.status) = N + 1 /\ new.status[N + 1] = "absent"
        /\ IsSeq(new.url) /\ Len(new.url) = N + 1 /\ new.url[N + 1] = url
        /\ IsSeq(new.answer) /\ Len(new.answer) = N + 1 /\ new.answer[N + 1] = "absent"
        /\ \A m \in 1..N : /\ new.status[m] = s.status[m] /\ new.url[m] = s.url[m]
                           /\ new.answer[m] = s.answer[m]
        /\ IsSeq(new.crumbs) /\ Len(new.crumbs) = K + 1
        /\ new.crumbs[K + 1] = CrumbOf(N + 1, url, "absent", TRUE)
        /\ \A i \in 1..K : new.crumbs[i] = s.crumbs[i]
        /\ new.overlap \in BOOLEAN
    BY Zenon DEF PutAdds
  <1>4. /\ \A m \in 1..(N + 1) : m \in 1..N \/ m = N + 1
        /\ 1..N \subseteq 1..(N + 1) /\ N + 1 \in 1..(N + 1) /\ N + 1 \notin 1..N /\ N + 1 # 0
        /\ \A i \in 1..(K + 1) : i \in 1..K \/ i = K + 1
        /\ 1..K \subseteq 1..(K + 1) /\ K + 1 \in 1..(K + 1)
        /\ 0..N \subseteq 0..(N + 1) /\ N + 1 \in 0..(N + 1)
    BY <1>2
  <1>5. \A i \in 1..K : IsCrumb(s, s.crumbs[i]) /\ Fits(s, s.crumbs[i], early)
    BY Zenon DEF HttpHeld, Crumbed
  <1> DEFINE last == new.crumbs[K + 1]
  <1>6. last.request = N + 1 /\ last.url = url /\ last.processor = TRUE
        /\ last = CrumbOf(last.request, last.url, last.status, last.processor)
    <2>1. last = CrumbOf(N + 1, url, "absent", TRUE)
      BY <1>3, Zenon
    <2>2. /\ CrumbOf(N + 1, url, "absent", TRUE).request = N + 1
          /\ CrumbOf(N + 1, url, "absent", TRUE).url = url
          /\ CrumbOf(N + 1, url, "absent", TRUE).status = "absent"
      BY DEF CrumbOf
    <2>3. CrumbOf(N + 1, url, "absent", TRUE).processor = TRUE
      <3> DEFINE yes == TRUE
                 crumb == CrumbOf(N + 1, url, "absent", yes)
      <3>1. crumb = [request |-> N + 1, url |-> url, status |-> "absent", processor |-> yes]
        BY Zenon DEF CrumbOf
      <3> HIDE DEF yes, crumb
      <3>2. crumb.processor = yes
        BY <3>1
      <3> QED BY <3>2, Zenon DEF yes, crumb
    <2> QED BY <2>1, <2>2, <2>3, Zenon
  <1> HIDE DEF last, N, K
  <1>7. Numbered(new)
    <2>1. \A n \in 1..(N + 1) : new.status[n] \in {"absent", "200", "500"}
      BY <1>1, <1>3, <1>4
    <2>2. new.dict \in 0..(N + 1) /\ new.waiting \in 0..(N + 1)
      BY <1>1, <1>3, <1>4
    <2> QED BY <1>3, <2>1, <2>2, Zenon DEF Numbered
  <1>8. Answers(new)
    <2>1. new.waiting # 0 => new.answer[new.waiting] = "absent"
      <3>1. CASE s.waiting = 0
        BY <1>3, <3>1
      <3>2. CASE s.waiting # 0
        <4>1. s.answer[s.waiting] = "absent"
          BY <3>2, Zenon DEF HttpHeld, Answers
        <4>2. s.waiting \in 1..N
          BY <1>1, <1>2, <3>2
        <4> QED BY <1>3, <3>2, <4>1, <4>2
      <3> QED BY <3>1, <3>2
    <2>2. ASSUME ~ new.overlap
          PROVE  /\ new.waiting # 0 => new.dict = new.waiting
                 /\ \A n \in 1..(N + 1) : new.status[n] = new.answer[n]
      <3>1. ~ s.overlap /\ s.waiting = 0
        BY <1>3, <2>2
      <3>2. \A n \in 1..N : s.status[n] = s.answer[n]
        BY <3>1, Zenon DEF HttpHeld, Answers, N
      <3> QED BY <1>3, <1>4, <3>1, <3>2
    <2> QED BY <1>3, <2>1, <2>2, Zenon DEF Answers
  <1>9. Crumbed(new, early)
    <2>1. ASSUME NEW i \in 1..K
          PROVE  IsCrumb(new, s.crumbs[i]) /\ Fits(new, s.crumbs[i], early)
      <3> DEFINE crumb == s.crumbs[i]
      <3>1. /\ crumb = CrumbOf(crumb.request, crumb.url, crumb.status, crumb.processor)
            /\ crumb.request \in 1..N /\ crumb.url = s.url[crumb.request] /\ crumb.processor \in BOOLEAN
        BY <1>5, Zenon DEF IsCrumb, N
      <3>2. Fits(s, crumb, early)
        BY <1>5
      <3> HIDE DEF crumb
      <3>3. crumb.request # s.waiting => crumb.request # new.waiting
        BY <1>3, <1>4, <3>1
      <3>4. new.answer[crumb.request] = s.answer[crumb.request] /\ (~ new.overlap => ~ s.overlap)
        BY <1>3, <3>1
      <3>5. IsCrumb(new, crumb)
        BY <1>3, <1>4, <3>1, Zenon DEF IsCrumb
      <3>6. Fits(new, crumb, early)
        BY <3>2, <3>3, <3>4, Zenon DEF Fits
      <3> QED BY <3>5, <3>6 DEF crumb
    <2>2. IsCrumb(new, last) /\ Fits(new, last, early)
      <3>1. IsCrumb(new, last)
        BY <1>3, <1>4, <1>6, Zenon DEF IsCrumb
      <3>2. Fits(new, last, early)
        BY <1>6, Zenon DEF Fits
      <3> QED BY <3>1, <3>2
    <2>3. ASSUME NEW i \in 1..(K + 1)
          PROVE  IsCrumb(new, new.crumbs[i]) /\ Fits(new, new.crumbs[i], early)
      <3>1. CASE i \in 1..K
        BY <1>3, <2>1, <3>1, Zenon
      <3>2. CASE i = K + 1
        BY <2>2, <3>2, Zenon DEF last
      <3> QED BY <1>4, <3>1, <3>2
    <2> QED BY <1>3, <2>3, Zenon DEF Crumbed
  <1>10. Covered(new)
    <2>1. \A n \in 1..N : \E i \in 1..K : s.crumbs[i].request = n
      BY Zenon DEF HttpHeld, Covered, N, K
    <2>2. ASSUME NEW n \in 1..(N + 1)
          PROVE  \E i \in 1..(K + 1) : new.crumbs[i].request = n
      <3>1. CASE n \in 1..N
        BY <1>3, <1>4, <2>1, <3>1
      <3>2. CASE n = N + 1
        BY <1>4, <1>6, <3>2 DEF last
      <3> QED BY <1>4, <3>1, <3>2
    <2> QED BY <1>3, <2>2, Zenon DEF Covered
  <1>11. Paired(new)
    <2>1. ASSUME NEW i \in 1..(K + 1), NEW j \in 1..(K + 1), i < j,
                 new.crumbs[i].request = new.crumbs[j].request
          PROVE  Alike(new, i, j)
      <3>1. i \in 1..K
        BY <1>2, <2>1
      <3>2. \A l \in 1..K : new.crumbs[l].request \in 1..N
        BY <1>3, <1>5, Zenon DEF IsCrumb, N
      <3>3. j \in 1..K
        <4>1. j # K + 1
          BY <1>4, <1>6, <2>1, <3>1, <3>2 DEF last
        <4> QED BY <1>4, <4>1
      <3>4. Alike(s, i, j)
        BY <1>3, <2>1, <3>1, <3>3, Zenon DEF HttpHeld, Paired, K
      <3> DEFINE request == s.crumbs[i].request
      <3>5. /\ j = i + 1 /\ request # s.waiting /\ request # s.dict
            /\ s.answer[request] = "200" =>
                  Says(s, s.crumbs[i]) = "200" /\ Says(s, s.crumbs[j]) = "200"
        BY <3>4, Zenon DEF Alike
      <3>6. /\ request \in 1..N /\ s.crumbs[j].request \in 1..N
            /\ new.crumbs[i] = s.crumbs[i] /\ new.crumbs[j] = s.crumbs[j]
        BY <1>3, <3>1, <3>2, <3>3
      <3>7. new.crumbs[i].request = request
        BY <3>6
      <3>8. Says(new, s.crumbs[i]) = Says(s, s.crumbs[i]) /\ Says(new, s.crumbs[j]) = Says(s, s.crumbs[j])
        BY <1>3, <3>6, Zenon DEF Says
      <3> HIDE DEF request
      <3>9. request # new.waiting /\ request # new.dict /\ new.answer[request] = s.answer[request]
        BY <1>3, <1>4, <3>5, <3>6
      <3> QED BY <3>5, <3>6, <3>7, <3>8, <3>9, Zenon DEF Alike
    <2> QED BY <1>3, <2>1, Zenon DEF Paired
  <1> QED BY <1>7, <1>8, <1>9, <1>10, <1>11 DEF HttpHeld

(* What getresponse() changes: the request that waits is answered, and the *)
(* dictionary of the connection has a status then.                         *)
Responds(new, s, answer) ==
    /\ IsConnection(new) /\ new.dict = s.dict /\ new.waiting = 0 /\ new.url = s.url
    /\ new.overlap = s.overlap /\ new.crumbs = s.crumbs
    /\ IsSeq(new.status) /\ Len(new.status) = Len(s.status)
    /\ IsSeq(new.answer) /\ Len(new.answer) = Len(s.answer)
    /\ \A n \in 1..Len(s.status) :
          /\ new.status[n] = IF answer # "fails" /\ s.waiting # 0 /\ n = s.dict /\ s.status[n] = "absent"
                             THEN answer ELSE s.status[n]
          /\ new.answer[n] = IF answer # "fails" /\ s.waiting # 0 /\ n = s.waiting THEN answer
                             ELSE s.answer[n]

(* Another value in a sequence. *)
Changed(s, n, x) == [s EXCEPT ![n] = x]

(* The rest of it stays. *)
LEMMA ChangedOne ==
    ASSUME NEW s, IsSeq(s), NEW n, NEW x, NEW new, new = Changed(s, n, x)
    PROVE  /\ IsSeq(new) /\ Len(new) = Len(s)
           /\ \A i \in 1..Len(s) : new[i] = IF i = n THEN x ELSE s[i]
  <1>1. PICK S : s \in Seq(S)
    BY DEF IsSeq
  <1>2. s \in Seq(S) /\ DOMAIN s = 1..Len(s) /\ Len(s) \in Nat
    BY <1>1
  <1>3. s \in [1..Len(s) -> S \cup {x}]
    BY <1>2
  <1>6. new = [s EXCEPT ![n] = x]
    BY DEF Changed
  <1>4. new \in [1..Len(s) -> S \cup {x}]
    BY <1>3, <1>6
  <1>5. new \in Seq(S \cup {x}) /\ Len(new) = Len(s)
    BY <1>2, <1>4
  <1> QED BY <1>3, <1>5, <1>6 DEF IsSeq

(* It does, *)
LEMMA ResponseIs ==
    ASSUME NEW s, Numbered(s), NEW answer
    PROVE  Responds(GetResponse(s, answer), s, answer)
  <1> DEFINE new == GetResponse(s, answer)
             shown == IF s.status[s.dict] = "absent" THEN answer ELSE s.status[s.dict]
             status == [s.status EXCEPT ![s.dict] = IF @ = "absent" THEN answer ELSE @]
             answers == [s.answer EXCEPT ![s.waiting] = answer]
  <1>1. /\ IsConnection(s) /\ IsSeq(s.status) /\ IsSeq(s.answer)
        /\ Len(s.answer) = Len(s.status)
    BY Zenon DEF Numbered
  <1>2. IF s.waiting = 0 THEN new = s
        ELSE IF answer = "fails"
        THEN new = Connection(s.dict, 0, s.status, s.url, s.answer, s.overlap, s.crumbs, s.event)
        ELSE new = Connection(s.dict, 0, status, s.url, answers, s.overlap, s.crumbs, s.event)
    BY <1>1, GetResponseIs
  <1>3. status = [s.status EXCEPT ![s.dict] = shown]
    OBVIOUS
  <1>4. /\ IsSeq(status) /\ Len(status) = Len(s.status)
        /\ \A n \in 1..Len(s.status) :
              status[n] = IF n = s.dict /\ s.status[n] = "absent" THEN answer ELSE s.status[n]
    <2>1. /\ IsSeq(status) /\ Len(status) = Len(s.status)
          /\ \A n \in 1..Len(s.status) : status[n] = IF n = s.dict THEN shown ELSE s.status[n]
      <3> DEFINE old == s.status
                 n == s.dict
      <3>1. status = Changed(old, n, shown) /\ IsSeq(old)
        BY <1>1, <1>3 DEF Changed
      <3> HIDE DEF shown, status, old, n
      <3>2. /\ IsSeq(status) /\ Len(status) = Len(old)
            /\ \A i \in 1..Len(old) : status[i] = IF i = n THEN shown ELSE old[i]
        BY <3>1, ChangedOne
      <3> QED BY <3>2, Zenon DEF old, n
    <2> HIDE DEF status
    <2> QED BY <2>1
  <1>5. /\ IsSeq(answers) /\ Len(answers) = Len(s.answer)
        /\ \A n \in 1..Len(s.answer) : answers[n] = IF n = s.waiting THEN answer ELSE s.answer[n]
    <2> DEFINE old == s.answer
               n == s.waiting
    <2>1. answers = Changed(old, n, answer) /\ IsSeq(old)
      BY <1>1 DEF Changed
    <2> HIDE DEF answers, old, n
    <2>2. /\ IsSeq(answers) /\ Len(answers) = Len(old)
          /\ \A i \in 1..Len(old) : answers[i] = IF i = n THEN answer ELSE old[i]
      BY <2>1, ChangedOne
    <2> QED BY <2>2, Zenon DEF old, n
  <1> HIDE DEF new, status, answers
  <1>6. CASE s.waiting = 0
    <2>1. new = s
      BY <1>2, <1>6
    <2> QED BY <1>1, <1>6, <2>1, Zenon DEF Responds, new
  <1>7. CASE s.waiting # 0 /\ answer = "fails"
    <2>1. new = Connection(s.dict, 0, s.status, s.url, s.answer, s.overlap, s.crumbs, s.event)
      BY <1>2, <1>7
    <2>2. /\ IsConnection(new) /\ new.dict = s.dict /\ new.waiting = 0 /\ new.status = s.status
          /\ new.url = s.url /\ new.answer = s.answer /\ new.overlap = s.overlap
          /\ new.crumbs = s.crumbs
      BY <2>1, ConnectionHas
    <2> QED BY <1>1, <1>7, <2>2, Zenon DEF Responds, new
  <1>8. CASE s.waiting # 0 /\ answer # "fails"
    <2>1. new = Connection(s.dict, 0, status, s.url, answers, s.overlap, s.crumbs, s.event)
      BY <1>2, <1>8
    <2>2. /\ IsConnection(new) /\ new.dict = s.dict /\ new.waiting = 0 /\ new.status = status
          /\ new.url = s.url /\ new.answer = answers /\ new.overlap = s.overlap
          /\ new.crumbs = s.crumbs
      BY <2>1, ConnectionHas
    <2> QED BY <1>1, <1>4, <1>5, <1>8, <2>2, Zenon DEF Responds, new
  <1> QED BY <1>6, <1>7, <1>8

(* and keeps the rest. *)
LEMMA ResponseKeeps ==
    ASSUME NEW s, NEW early \in BOOLEAN, HttpHeld(s, early), NEW answer \in {"200", "500", "fails"},
           NEW new, Responds(new, s, answer)
    PROVE  HttpHeld(new, early)
  <1> DEFINE N == Len(s.status)
             K == Len(s.crumbs)
             given(n) == answer # "fails" /\ s.waiting # 0 /\ n = s.waiting
             told(n) == answer # "fails" /\ s.waiting # 0 /\ n = s.dict /\ s.status[n] = "absent"
  <1>1. /\ IsSeq(s.status) /\ IsSeq(s.url) /\ IsSeq(s.crumbs) /\ s.dict \in 0..N /\ s.waiting \in 0..N
        /\ Len(s.url) = N /\ Len(s.answer) = N /\ s.overlap \in BOOLEAN
        /\ \A n \in 1..N : s.status[n] \in {"absent", "200", "500"}
    BY Zenon DEF HttpHeld, Numbered
  <1>2. N \in Nat /\ K \in Nat /\ (s.waiting # 0 => s.waiting \in 1..N) /\ 0 \in 0..N
    BY <1>1, Grown
  <1>3. /\ IsConnection(new) /\ new.dict = s.dict /\ new.waiting = 0 /\ new.url = s.url
        /\ new.overlap = s.overlap /\ new.crumbs = s.crumbs
        /\ IsSeq(new.status) /\ Len(new.status) = N /\ IsSeq(new.answer) /\ Len(new.answer) = N
        /\ \A n \in 1..N : /\ new.status[n] = IF told(n) THEN answer ELSE s.status[n]
                           /\ new.answer[n] = IF given(n) THEN answer ELSE s.answer[n]
    BY <1>1, Zenon DEF Responds
  <1>4. /\ s.waiting # 0 => s.answer[s.waiting] = "absent"
        /\ ~ s.overlap => /\ s.waiting # 0 => s.dict = s.waiting
                          /\ \A n \in 1..N : s.status[n] = s.answer[n]
    BY Zenon DEF HttpHeld, Answers
  <1>5. \A i \in 1..K : IsCrumb(s, s.crumbs[i]) /\ Fits(s, s.crumbs[i], early)
    BY Zenon DEF HttpHeld, Crumbed
  <1> HIDE DEF N, K
  <1>6. Numbered(new)
    <2>1. \A n \in 1..N : new.status[n] \in {"absent", "200", "500"}
      BY <1>1, <1>3
    <2> QED BY <1>1, <1>2, <1>3, <2>1, Zenon DEF Numbered
  <1>7. Answers(new)
    <2>1. ASSUME ~ s.overlap, NEW n \in 1..N
          PROVE  new.status[n] = new.answer[n]
      BY <1>2, <1>3, <1>4, <2>1
    <2> QED BY <1>3, <2>1, Zenon DEF Answers
  <1>8. Crumbed(new, early)
    <2>1. ASSUME NEW i \in 1..K
          PROVE  IsCrumb(new, s.crumbs[i]) /\ Fits(new, s.crumbs[i], early)
      <3> DEFINE crumb == s.crumbs[i]
      <3>1. /\ crumb = CrumbOf(crumb.request, crumb.url, crumb.status, crumb.processor)
            /\ crumb.request \in 1..N /\ crumb.url = s.url[crumb.request] /\ crumb.processor \in BOOLEAN
        BY <1>5, Zenon DEF IsCrumb, N
      <3>2. Fits(s, crumb, early)
        BY <1>5
      <3> HIDE DEF crumb
      <3>3. IsCrumb(new, crumb)
        BY <1>3, <3>1, Zenon DEF IsCrumb
      <3>4. crumb.request # 0
        BY <3>1
      <3>5. ASSUME ~ crumb.processor
            PROVE  /\ crumb.status = None =>
                        new.answer[crumb.request] # "200" /\ crumb.request # new.waiting
                   /\ ~ new.overlap /\ crumb.status # None =>
                        crumb.status \in {new.answer[crumb.request], "absent"}
                   /\ crumb.status = "absent" => early
        <4>1. /\ crumb.status = None => s.answer[crumb.request] # "200" /\ crumb.request # s.waiting
              /\ ~ s.overlap /\ crumb.status # None =>
                    crumb.status \in {s.answer[crumb.request], "absent"}
              /\ crumb.status = "absent" => early
          BY <3>2, <3>5, Zenon DEF Fits
        <4>2. CASE given(crumb.request)
          <5>1. s.answer[crumb.request] = "absent" /\ crumb.request = s.waiting
            BY <1>4, <4>2
          <5> QED BY <1>3, <4>1, <5>1, Zenon
        <4>3. CASE ~ given(crumb.request)
          <5>1. new.answer[crumb.request] = s.answer[crumb.request]
            BY <1>3, <3>1, <4>3, Zenon
          <5> QED BY <1>3, <3>4, <4>1, <5>1, Zenon
        <4> QED BY <4>2, <4>3
      <3>6. Fits(new, crumb, early)
        BY <3>5, Zenon DEF Fits
      <3> QED BY <3>3, <3>6 DEF crumb
    <2> QED BY <1>3, <2>1, Zenon DEF Crumbed, K
  <1>9. Covered(new)
    BY <1>3, Zenon DEF HttpHeld, Covered, N
  <1>10. Paired(new)
    <2>1. ASSUME NEW i \in 1..K, NEW j \in 1..K, i < j, s.crumbs[i].request = s.crumbs[j].request
          PROVE  Alike(new, i, j)
      <3> DEFINE request == s.crumbs[i].request
      <3>1. Alike(s, i, j)
        BY <2>1, Zenon DEF HttpHeld, Paired, K
      <3>2. /\ j = i + 1 /\ request # s.waiting /\ request # s.dict
            /\ s.answer[request] = "200" =>
                  Says(s, s.crumbs[i]) = "200" /\ Says(s, s.crumbs[j]) = "200"
        BY <3>1, Zenon DEF Alike
      <3>3. request \in 1..N
        BY <1>5, Zenon DEF IsCrumb, N
      <3>4. request = s.crumbs[j].request
        BY <2>1
      <3> HIDE DEF request
      <3>5. request # 0
        BY <3>3
      <3>6. new.status[request] = s.status[request] /\ new.answer[request] = s.answer[request]
        BY <1>3, <3>2, <3>3, Zenon
      <3>7. Says(new, s.crumbs[i]) = Says(s, s.crumbs[i]) /\ Says(new, s.crumbs[j]) = Says(s, s.crumbs[j])
        BY <3>4, <3>6, Zenon DEF Says, request
      <3> QED BY <1>3, <3>2, <3>5, <3>6, <3>7, Zenon DEF Alike, request
    <2> QED BY <1>3, <2>1, Zenon DEF Paired, K
  <1> QED BY <1>6, <1>7, <1>8, <1>9, <1>10 DEF HttpHeld

(* The fields of a crumb. *)
LEMMA CrumbHas ==
    ASSUME NEW request, NEW url, NEW status, NEW processor, NEW crumb,
           crumb = CrumbOf(request, url, status, processor)
    PROVE  /\ crumb.request = request /\ crumb.url = url /\ crumb.status = status
           /\ crumb.processor = processor
           /\ crumb = CrumbOf(crumb.request, crumb.url, crumb.status, crumb.processor)
  BY DEF CrumbOf

(* A crumb whose processor has run. *)
Processed(s, crumb) ==
    IF crumb.processor
    THEN [crumb EXCEPT !.status = s.status[crumb.request], !.processor = FALSE] ELSE crumb

(* It says what it would have said. *)
LEMMA ProcessedIs ==
    ASSUME NEW s, NEW crumb, IsCrumb(s, crumb)
    PROVE  Processed(s, crumb) = CrumbOf(crumb.request, crumb.url, Says(s, crumb), FALSE)
  <1> DEFINE no == FALSE
             told == s.status[crumb.request]
             one == [crumb EXCEPT !.status = told]
             two == [crumb EXCEPT !.status = told, !.processor = no]
  <1>1. crumb = CrumbOf(crumb.request, crumb.url, crumb.status, crumb.processor)
        /\ crumb.processor \in BOOLEAN
    BY Zenon DEF IsCrumb
  <1>2. CASE crumb.processor
    <2>1. Processed(s, crumb) = two /\ Says(s, crumb) = told
      BY <1>2, Zenon DEF Processed, Says
    <2> HIDE DEF no, told
    <2>2. two = [one EXCEPT !.processor = no]
      OBVIOUS
    <2> HIDE DEF two
    <2>3. one = CrumbOf(crumb.request, crumb.url, told, crumb.processor)
      BY <1>1 DEF CrumbOf
    <2> HIDE DEF one
    <2>4. two = CrumbOf(crumb.request, crumb.url, told, no)
      BY <2>2, <2>3 DEF CrumbOf
    <2> QED BY <2>1, <2>4, Zenon DEF no
  <1>3. CASE ~ crumb.processor
    <2>1. Processed(s, crumb) = crumb /\ Says(s, crumb) = crumb.status
      BY <1>3, Zenon DEF Processed, Says
    <2>2. crumb.processor = FALSE
      BY <1>1, <1>3
    <2> QED BY <1>1, <2>1, <2>2, Zenon
  <1> QED BY <1>2, <1>3

(* What get_buffer() does. *)
Presents(new, s) ==
    LET K == Len(s.crumbs)
    IN  /\ IsConnection(new) /\ new.dict = s.dict /\ new.waiting = s.waiting
        /\ new.status = s.status /\ new.url = s.url /\ new.answer = s.answer
        /\ new.overlap = s.overlap /\ IsSeq(new.crumbs) /\ Len(new.crumbs) = K
        /\ \A i \in 1..K : new.crumbs[i] =
              CrumbOf(s.crumbs[i].request, s.crumbs[i].url, Says(s, s.crumbs[i]), FALSE)
        /\ DOMAIN new.event =
              {i \in 1..K : i = 1 \/ Considered(new.crumbs[i - 1]) # Considered(new.crumbs[i])}
        /\ \A i \in DOMAIN new.event : new.event[i] = new.crumbs[i]

(* It does, *)
LEMMA EventPresents ==
    ASSUME NEW s, NEW early, HttpHeld(s, early)
    PROVE  Presents(EventOf(s), s)
  <1> DEFINE K == Len(s.crumbs)
             sent == [i \in DOMAIN s.crumbs |-> Processed(s, s.crumbs[i])]
             shown == {i \in DOMAIN sent : i = 1 \/ Considered(sent[i - 1]) # Considered(sent[i])}
             event == [i \in shown |-> sent[i]]
             one == [s EXCEPT !.crumbs = sent]
             new == [s EXCEPT !.crumbs = sent, !.event = event]
  <1>1. EventOf(s) = new
    BY Zenon DEF EventOf, Processed
  <1>2. IsConnection(s) /\ IsSeq(s.crumbs)
    BY Zenon DEF HttpHeld, Numbered
  <1>3. K \in Nat /\ DOMAIN s.crumbs = 1..K
    BY <1>2, Grown
  <1>4. DOMAIN sent = 1..K /\ IsSeq(sent) /\ Len(sent) = K
        /\ \A i \in 1..K : sent[i] = Processed(s, s.crumbs[i])
    <2>1. sent \in [1..K -> {Processed(s, s.crumbs[i]) : i \in 1..K}]
      BY <1>3
    <2>2. sent \in Seq({Processed(s, s.crumbs[i]) : i \in 1..K}) /\ Len(sent) = K
      BY <1>3, <2>1
    <2> QED BY <1>3, <2>2 DEF IsSeq
  <1> HIDE DEF sent, K
  <1>5. \A i \in 1..K : sent[i] =
           CrumbOf(s.crumbs[i].request, s.crumbs[i].url, Says(s, s.crumbs[i]), FALSE)
    <2> TAKE i \in 1..K
    <2>1. IsCrumb(s, s.crumbs[i])
      BY Zenon DEF HttpHeld, Crumbed, K
    <2> QED BY <1>4, <2>1, ProcessedIs, Zenon
  <1>6. /\ DOMAIN event =
              {i \in 1..K : i = 1 \/ Considered(sent[i - 1]) # Considered(sent[i])}
        /\ \A i \in DOMAIN event : event[i] = sent[i]
    BY <1>4
  <1> HIDE DEF event
  <1>7. new = [one EXCEPT !.event = event]
    OBVIOUS
  <1>8. s = Connection(s.dict, s.waiting, s.status, s.url, s.answer, s.overlap, s.crumbs, s.event)
    BY <1>2 DEF IsConnection
  <1> HIDE DEF new
  <1>9. one = Connection(s.dict, s.waiting, s.status, s.url, s.answer, s.overlap, sent, s.event)
    BY <1>8 DEF Connection
  <1> HIDE DEF one
  <1>10. new = Connection(s.dict, s.waiting, s.status, s.url, s.answer, s.overlap, sent, event)
    BY <1>7, <1>9 DEF Connection
  <1>11. /\ IsConnection(new) /\ new.dict = s.dict /\ new.waiting = s.waiting
         /\ new.status = s.status /\ new.url = s.url /\ new.answer = s.answer
         /\ new.overlap = s.overlap /\ new.crumbs = sent /\ new.event = event
    BY <1>10, ConnectionHas
  <1>12. Presents(new, s)
    BY <1>4, <1>5, <1>6, <1>11, Zenon DEF Presents, K
  <1> QED BY <1>1, <1>12

(* and the event says what happened to each request. *)
LEMMA EventKeeps ==
    ASSUME NEW s, NEW early \in BOOLEAN, HttpHeld(s, early), NEW new, Presents(new, s)
    PROVE  HttpHeld(new, TRUE) /\ HttpCrumbs(new, early)
  <1> DEFINE N == Len(s.status)
             K == Len(s.crumbs)
  <1>1. /\ IsSeq(s.status) /\ IsSeq(s.url) /\ IsSeq(s.answer) /\ IsSeq(s.crumbs)
        /\ s.dict \in 0..N /\ s.waiting \in 0..N
        /\ Len(s.url) = N /\ Len(s.answer) = N /\ s.overlap \in BOOLEAN
        /\ \A n \in 1..N : s.status[n] \in {"absent", "200", "500"}
    BY Zenon DEF HttpHeld, Numbered
  <1>2. N \in Nat /\ K \in Nat /\ DOMAIN s.url = 1..N
    BY <1>1, Grown
  <1>3. /\ IsConnection(new) /\ new.dict = s.dict /\ new.waiting = s.waiting
        /\ new.status = s.status /\ new.url = s.url /\ new.answer = s.answer
        /\ new.overlap = s.overlap /\ IsSeq(new.crumbs) /\ Len(new.crumbs) = K
        /\ \A i \in 1..K : new.crumbs[i] =
              CrumbOf(s.crumbs[i].request, s.crumbs[i].url, Says(s, s.crumbs[i]), FALSE)
        /\ DOMAIN new.event =
              {i \in 1..K : i = 1 \/ Considered(new.crumbs[i - 1]) # Considered(new.crumbs[i])}
        /\ \A i \in DOMAIN new.event : new.event[i] = new.crumbs[i]
    BY Zenon DEF Presents
  <1>4. \A i \in 1..K : IsCrumb(s, s.crumbs[i]) /\ Fits(s, s.crumbs[i], early)
    BY Zenon DEF HttpHeld, Crumbed
  <1> HIDE DEF N, K
  <1>5. ASSUME NEW i \in 1..K
        PROVE  /\ new.crumbs[i].request = s.crumbs[i].request
               /\ new.crumbs[i].url = s.crumbs[i].url
               /\ new.crumbs[i].status = Says(s, s.crumbs[i])
               /\ new.crumbs[i].processor = FALSE
               /\ new.crumbs[i] = CrumbOf(new.crumbs[i].request, new.crumbs[i].url,
                                          new.crumbs[i].status, new.crumbs[i].processor)
    <2> DEFINE crumb == new.crumbs[i]
               request == s.crumbs[i].request
               url == s.crumbs[i].url
               says == Says(s, s.crumbs[i])
               no == FALSE
    <2>1. crumb = CrumbOf(request, url, says, no)
      BY <1>3, Zenon
    <2> HIDE DEF crumb, request, url, says, no
    <2>2. /\ crumb.request = request /\ crumb.url = url /\ crumb.status = says
          /\ crumb.processor = no
          /\ crumb = CrumbOf(crumb.request, crumb.url, crumb.status, crumb.processor)
      BY <2>1, CrumbHas
    <2> QED BY <2>2, Zenon DEF crumb, request, url, says, no
  <1>6. ASSUME NEW i \in 1..K
        PROVE  /\ s.crumbs[i].request \in 1..N /\ s.crumbs[i].url = s.url[s.crumbs[i].request]
               /\ s.crumbs[i].processor \in BOOLEAN
    BY <1>4, Zenon DEF IsCrumb, N
  <1>7. ASSUME NEW i \in 1..K
        PROVE  LET crumb == s.crumbs[i]
                   answer == s.answer[crumb.request]
               IN  /\ Says(s, crumb) = None => answer # "200" /\ crumb.request # s.waiting
                   /\ ~ s.overlap /\ Says(s, crumb) # None =>
                         Says(s, crumb) = answer \/ (early /\ Says(s, crumb) = "absent")
    <2> DEFINE crumb == s.crumbs[i]
               answer == s.answer[crumb.request]
    <2>1. CASE crumb.processor
      <3>1. Says(s, crumb) = s.status[crumb.request]
        BY <2>1, Zenon DEF Says
      <3>2. None \notin {"absent", "200", "500"}
        BY NoneAssumption
      <3>3. Says(s, crumb) # None
        BY <1>1, <1>6, <3>1, <3>2
      <3>4. ~ s.overlap => s.status[crumb.request] = answer
        BY <1>6, Zenon DEF HttpHeld, Answers, N
      <3> QED BY <3>1, <3>3, <3>4, Zenon
    <2>2. CASE ~ crumb.processor
      <3>1. Says(s, crumb) = crumb.status
        BY <2>2, Zenon DEF Says
      <3>2. /\ crumb.status = None => answer # "200" /\ crumb.request # s.waiting
            /\ ~ s.overlap /\ crumb.status # None => crumb.status \in {answer, "absent"}
            /\ crumb.status = "absent" => early
        BY <1>4, <2>2, Zenon DEF Fits
      <3> QED BY <3>1, <3>2, Zenon
    <2> QED BY <2>1, <2>2, Zenon
  <1>8. ASSUME NEW i \in 1..K, NEW j \in 1..K, i < j, s.crumbs[i].request = s.crumbs[j].request
        PROVE  LET request == s.crumbs[i].request
               IN  /\ j = i + 1 /\ request # s.waiting /\ request # s.dict
                   /\ s.answer[request] = "200" =>
                         Says(s, s.crumbs[i]) = "200" /\ Says(s, s.crumbs[j]) = "200"
    <2>1. Alike(s, i, j)
      BY <1>8, Zenon DEF HttpHeld, Paired, K
    <2> QED BY <2>1, Zenon DEF Alike
  <1>9. HttpHeld(new, TRUE)
    <2>1. Numbered(new)
      BY <1>1, <1>3, Zenon DEF Numbered, N
    <2>2. Answers(new)
      BY <1>3, Zenon DEF HttpHeld, Answers
    <2>3. Crumbed(new, TRUE)
      <3>1. ASSUME NEW i \in 1..K
            PROVE  IsCrumb(new, new.crumbs[i]) /\ Fits(new, new.crumbs[i], TRUE)
        <4>1. FALSE \in BOOLEAN
          OBVIOUS
        <4>2. IsCrumb(new, new.crumbs[i])
          BY <1>3, <1>5, <1>6, <4>1, Zenon DEF IsCrumb, N
        <4>3. Fits(new, new.crumbs[i], TRUE)
          BY <1>3, <1>5, <1>7, Zenon DEF Fits
        <4> QED BY <4>2, <4>3
      <3> QED BY <1>3, <3>1, Zenon DEF Crumbed
    <2>4. Covered(new)
      <3>1. \A n \in 1..N : \E i \in 1..K : s.crumbs[i].request = n
        BY Zenon DEF HttpHeld, Covered, N, K
      <3>2. \A n \in 1..N : \E i \in 1..K : new.crumbs[i].request = n
        <4> TAKE n \in 1..N
        <4>1. PICK i \in 1..K : s.crumbs[i].request = n
          BY <3>1
        <4>2. new.crumbs[i].request = n
          BY <1>5, <4>1
        <4> QED BY <4>2
      <3> QED BY <1>3, <3>2, Zenon DEF Covered, N
    <2>5. Paired(new)
      <3>1. ASSUME NEW i \in 1..K, NEW j \in 1..K, i < j,
                   new.crumbs[i].request = new.crumbs[j].request
            PROVE  Alike(new, i, j)
        <4>1. s.crumbs[i].request = s.crumbs[j].request
          BY <1>5, <3>1, Zenon
        <4>2. /\ Says(new, new.crumbs[i]) = Says(s, s.crumbs[i])
              /\ Says(new, new.crumbs[j]) = Says(s, s.crumbs[j])
          BY <1>5, Zenon DEF Says
        <4>3. new.crumbs[i].request = s.crumbs[i].request
          BY <1>5
        <4> QED BY <1>3, <1>8, <3>1, <4>1, <4>2, <4>3, Zenon DEF Alike
      <3> QED BY <1>3, <3>1, Zenon DEF Paired
    <2> QED BY <2>1, <2>2, <2>3, <2>4, <2>5 DEF HttpHeld
  <1>10. ASSUME NEW n \in 1..N
         PROVE  \E i \in DOMAIN new.event : new.event[i].url = new.url[n]
    <2> DEFINE same == {i \in 1..K : new.crumbs[i].url = s.url[n]}
               i == Min(same)
    <2>1. \E k \in 1..K : s.crumbs[k].request = n
      BY Zenon DEF HttpHeld, Covered, N, K
    <2>2. same # {} /\ same \subseteq Nat
      <3>1. PICK k \in 1..K : s.crumbs[k].request = n
        BY <2>1
      <3>2. new.crumbs[k].url = s.url[n]
        BY <1>5, <1>6, <3>1
      <3> QED BY <3>2
    <2> HIDE DEF same
    <2>3. i \in same /\ \A k \in same : i <= k
      BY <2>2, MinIs
    <2> HIDE DEF i
    <2>4. i \in 1..K /\ new.crumbs[i].url = s.url[n]
      BY <2>3 DEF same
    <2>5. i = 1 \/ Considered(new.crumbs[i - 1]) # Considered(new.crumbs[i])
      <3>1. SUFFICES ASSUME i # 1
                     PROVE  Considered(new.crumbs[i - 1]) # Considered(new.crumbs[i])
        OBVIOUS
      <3>2. i - 1 \in 1..K /\ i - 1 \in Nat /\ i \in Nat /\ ~ (i <= i - 1)
        BY <1>2, <2>4, <3>1
      <3>3. new.crumbs[i - 1].url # s.url[n]
        BY <2>3, <3>2 DEF same
      <3> QED BY <2>4, <3>3 DEF Considered
    <2>6. i \in DOMAIN new.event
      BY <1>3, <2>4, <2>5
    <2> QED BY <1>3, <2>4, <2>6
  <1>11. ASSUME NEW n \in 1..N, new.answer[n] = "200", NEW i \in DOMAIN new.event,
                NEW j \in DOMAIN new.event, new.event[i].request = n, new.event[j].request = n
         PROVE  i = j
    <2>1. ASSUME NEW k \in DOMAIN new.event, NEW l \in DOMAIN new.event, k < l,
                 new.event[k].request = n, new.event[l].request = n
          PROVE  FALSE
      <3>1. k \in 1..K /\ l \in 1..K /\ (l = 1 \/ Considered(new.crumbs[l - 1]) # Considered(new.crumbs[l]))
        BY <1>3
      <3>2. s.crumbs[k].request = n /\ s.crumbs[l].request = n
        BY <1>3, <1>5, <2>1, <3>1
      <3>3. l = k + 1 /\ Says(s, s.crumbs[k]) = "200" /\ Says(s, s.crumbs[l]) = "200"
        <4>1. s.answer[s.crumbs[k].request] = "200"
          BY <1>3, <1>11, <3>2
        <4> QED BY <1>8, <2>1, <3>1, <3>2, <4>1
      <3>4. new.crumbs[k].url = s.url[n] /\ new.crumbs[l].url = s.url[n]
        BY <1>5, <1>6, <3>1, <3>2
      <3>5. Considered(new.crumbs[k]) = Considered(new.crumbs[l])
        BY <1>5, <3>1, <3>3, <3>4 DEF Considered
      <3>6. l - 1 = k /\ l # 1
        BY <1>2, <3>1, <3>3
      <3> QED BY <3>1, <3>5, <3>6
    <2>2. i \in 1..K /\ j \in 1..K
      BY <1>3
    <2>3. i < j \/ j < i \/ i = j
      BY <1>2, <2>2
    <2> QED BY <1>11, <2>1, <2>3
  <1>12. ASSUME NEW i \in DOMAIN new.event
         PROVE  LET crumb == new.event[i]
                    answer == new.answer[crumb.request]
                IN  /\ crumb.status = None => answer # "200"
                    /\ ~ new.overlap /\ crumb.status # None =>
                          crumb.status = answer \/ (early /\ crumb.status = "absent")
    <2>1. i \in 1..K /\ new.event[i] = new.crumbs[i]
      BY <1>3
    <2>2. new.crumbs[i].request = s.crumbs[i].request /\ new.crumbs[i].status = Says(s, s.crumbs[i])
      BY <1>5, <2>1
    <2> QED BY <1>3, <1>7, <2>1, <2>2, Zenon
  <1>13. HttpCrumbs(new, early)
    <2>1. DOMAIN new.url = 1..N
      BY <1>2, <1>3
    <2>2. \A n \in 1..N : new.answer[n] = "200" =>
             \A i, j \in {k \in DOMAIN new.event : new.event[k].request = n} : i = j
      BY <1>11
    <2> QED BY <1>10, <1>12, <2>1, <2>2, Zenon DEF HttpCrumbs
  <1> QED BY <1>9, <1>13

(* A session has a connection of its own, *)
LEMMA OwnKeeps ==
    ASSUME NEW s, NEW early, HttpHeld(s, early), NEW own, own = [s EXCEPT !.dict = 0, !.waiting = 0]
    PROVE  /\ HttpHeld(own, early) /\ own.dict = 0 /\ own.waiting = 0 /\ own.status = s.status
           /\ own.url = s.url /\ own.answer = s.answer /\ own.overlap = s.overlap
           /\ own.crumbs = s.crumbs
  <1> DEFINE N == Len(s.status)
             K == Len(s.crumbs)
  <1>1. /\ IsConnection(s) /\ IsSeq(s.status) /\ IsSeq(s.url) /\ IsSeq(s.answer) /\ IsSeq(s.crumbs)
        /\ Len(s.url) = N /\ Len(s.answer) = N /\ s.overlap \in BOOLEAN
        /\ \A n \in 1..N : s.status[n] \in {"absent", "200", "500"}
    BY Zenon DEF HttpHeld, Numbered
  <1>2. /\ IsConnection(own) /\ own.dict = 0 /\ own.waiting = 0 /\ own.status = s.status
        /\ own.url = s.url /\ own.answer = s.answer /\ own.overlap = s.overlap
        /\ own.crumbs = s.crumbs
    <2> DEFINE one == [s EXCEPT !.dict = 0]
    <2>1. own = [one EXCEPT !.waiting = 0]
      OBVIOUS
    <2>2. s = Connection(s.dict, s.waiting, s.status, s.url, s.answer, s.overlap, s.crumbs, s.event)
      BY <1>1 DEF IsConnection
    <2>3. one = Connection(0, s.waiting, s.status, s.url, s.answer, s.overlap, s.crumbs, s.event)
      BY <2>2 DEF Connection
    <2> HIDE DEF one
    <2>4. own = Connection(0, 0, s.status, s.url, s.answer, s.overlap, s.crumbs, s.event)
      BY <2>1, <2>3 DEF Connection
    <2> QED BY <2>4, ConnectionHas
  <1>3. 0 \in 0..N
    BY <1>1, Grown
  <1>4. \A i \in 1..K : IsCrumb(s, s.crumbs[i]) /\ Fits(s, s.crumbs[i], early)
    BY Zenon DEF HttpHeld, Crumbed
  <1>5. \A i \in 1..K : s.crumbs[i].request # 0
    <2> TAKE i \in 1..K
    <2>1. s.crumbs[i].request \in 1..N
      BY <1>4, Zenon DEF IsCrumb
    <2> HIDE DEF N
    <2> QED BY <2>1
  <1> HIDE DEF N, K
  <1>6. Numbered(own)
    BY <1>1, <1>2, <1>3, Zenon DEF Numbered, N
  <1>7. Answers(own)
    BY <1>2, Zenon DEF HttpHeld, Answers
  <1>8. Crumbed(own, early)
    <2>1. ASSUME NEW i \in 1..K
          PROVE  IsCrumb(own, s.crumbs[i]) /\ Fits(own, s.crumbs[i], early)
      <3>1. IsCrumb(own, s.crumbs[i])
        BY <1>2, <1>4, Zenon DEF IsCrumb
      <3>2. Fits(own, s.crumbs[i], early)
        BY <1>2, <1>4, <1>5, Zenon DEF Fits
      <3> QED BY <3>1, <3>2
    <2> QED BY <1>2, <2>1, Zenon DEF Crumbed, K
  <1>9. Covered(own)
    BY <1>2, Zenon DEF HttpHeld, Covered
  <1>10. Paired(own)
    <2>1. ASSUME NEW i \in 1..K, NEW j \in 1..K, i < j, s.crumbs[i].request = s.crumbs[j].request
          PROVE  Alike(own, i, j)
      <3>1. Alike(s, i, j)
        BY <2>1, Zenon DEF HttpHeld, Paired, K
      <3>2. \A crumb : Says(own, crumb) = Says(s, crumb)
        BY <1>2 DEF Says
      <3> QED BY <1>2, <1>5, <3>1, <3>2, Zenon DEF Alike
    <2> QED BY <1>2, <2>1, Zenon DEF Paired, K
  <1> QED BY <1>2, <1>6, <1>7, <1>8, <1>9, <1>10 DEF HttpHeld

(* and when that is over, the hook of requests adds another crumb. *)
Finishes(new, s, old, answer) ==
    LET N == Len(s.status)
        K == Len(s.crumbs)
    IN  /\ IsConnection(new) /\ new.dict = old.dict /\ new.waiting = old.waiting
        /\ new.status = s.status /\ new.url = s.url /\ new.answer = s.answer
        /\ new.overlap = s.overlap /\ IsSeq(new.crumbs) /\ Len(new.crumbs) = K + 1
        /\ \A i \in 1..K : new.crumbs[i] = s.crumbs[i]
        /\ new.crumbs[K + 1] =
              CrumbOf(N, s.url[N], IF answer = "200" THEN answer ELSE None, FALSE)

(* It does. *)
LEMMA SessionFinishes ==
    ASSUME NEW s, Numbered(s), NEW old, NEW answer, NEW done, done = RecordRequest(s, answer)
    PROVE  Finishes([done EXCEPT !.dict = old.dict, !.waiting = old.waiting], s, old, answer)
  <1> DEFINE n == Len(s.status)
             no == FALSE
             status == IF answer = "200" THEN answer ELSE None
             crumb == [request |-> n, url |-> s.url[n], processor |-> no, status |-> status]
             crumbs == Append(s.crumbs, crumb)
             dict == old.dict
             waiting == old.waiting
             one == [done EXCEPT !.dict = dict]
             new == [done EXCEPT !.dict = dict, !.waiting = waiting]
  <1>1. done = [s EXCEPT !.crumbs = crumbs]
    BY Zenon DEF RecordRequest
  <1>2. IsConnection(s) /\ IsSeq(s.crumbs)
    BY Zenon DEF Numbered
  <1>3. s = Connection(s.dict, s.waiting, s.status, s.url, s.answer, s.overlap, s.crumbs, s.event)
    BY <1>2 DEF IsConnection
  <1>4. crumb = CrumbOf(n, s.url[n], status, FALSE)
    <2> HIDE DEF no, status, n
    <2>1. crumb = CrumbOf(n, s.url[n], status, no)
      BY DEF CrumbOf
    <2> QED BY <2>1, Zenon DEF no
  <1> HIDE DEF crumb
  <1>5. /\ IsSeq(crumbs) /\ Len(crumbs) = Len(s.crumbs) + 1 /\ crumbs[Len(s.crumbs) + 1] = crumb
        /\ \A i \in 1..Len(s.crumbs) : crumbs[i] = s.crumbs[i]
    BY <1>2, Grown
  <1> HIDE DEF crumbs, dict, waiting
  <1>6. done = Connection(s.dict, s.waiting, s.status, s.url, s.answer, s.overlap, crumbs, s.event)
    BY <1>1, <1>3 DEF Connection
  <1>7. new = [one EXCEPT !.waiting = waiting]
    OBVIOUS
  <1> HIDE DEF new
  <1>8. one = Connection(dict, s.waiting, s.status, s.url, s.answer, s.overlap, crumbs, s.event)
    BY <1>6 DEF Connection
  <1> HIDE DEF one
  <1>9. new = Connection(dict, waiting, s.status, s.url, s.answer, s.overlap, crumbs, s.event)
    BY <1>7, <1>8 DEF Connection
  <1>10. /\ IsConnection(new) /\ new.dict = dict /\ new.waiting = waiting
         /\ new.status = s.status /\ new.url = s.url /\ new.answer = s.answer
         /\ new.overlap = s.overlap /\ new.crumbs = crumbs
    BY <1>9, ConnectionHas
  <1>11. Finishes(new, s, old, answer)
    BY <1>4, <1>5, <1>10, Zenon DEF Finishes, dict, waiting, n, status
  <1> QED BY <1>11 DEF new, dict, waiting

(* What a session adds. *)
SessionAdds(new, s, url, answer) ==
    LET N == Len(s.status)
        K == Len(s.crumbs)
        told == IF answer = "fails" THEN "absent" ELSE answer
    IN  /\ IsConnection(new) /\ new.dict = s.dict /\ new.waiting = s.waiting
        /\ new.overlap <=> s.overlap
        /\ new.overlap \in BOOLEAN
        /\ IsSeq(new.status) /\ Len(new.status) = N + 1 /\ new.status[N + 1] = told
        /\ IsSeq(new.url) /\ Len(new.url) = N + 1 /\ new.url[N + 1] = url
        /\ IsSeq(new.answer) /\ Len(new.answer) = N + 1 /\ new.answer[N + 1] = told
        /\ \A m \in 1..N : /\ new.status[m] = s.status[m] /\ new.url[m] = s.url[m]
                           /\ new.answer[m] = s.answer[m]
        /\ IsSeq(new.crumbs) /\ Len(new.crumbs) = K + 2
        /\ \A i \in 1..K : new.crumbs[i] = s.crumbs[i]
        /\ new.crumbs[K + 1] = CrumbOf(N + 1, url, "absent", TRUE)
        /\ new.crumbs[K + 2] =
              CrumbOf(N + 1, url, IF answer = "200" THEN answer ELSE None, FALSE)

(* It does, *)
LEMMA SessionIs ==
    ASSUME NEW s, NEW early \in BOOLEAN, HttpHeld(s, early), NEW url,
           NEW answer \in {"200", "500", "fails"}
    PROVE  SessionAdds(SessionSend(s, url, answer), s, url, answer)
  <1> DEFINE N == Len(s.status)
             K == Len(s.crumbs)
             own == [s EXCEPT !.dict = 0, !.waiting = 0]
             put == PutRequest(own, url)
             got == GetResponse(put, answer)
             done == RecordRequest(got, answer)
             new == [done EXCEPT !.dict = s.dict, !.waiting = s.waiting]
             told == IF answer = "fails" THEN "absent" ELSE answer
  <1>1. SessionSend(s, url, answer) = new
    BY Zenon DEF SessionSend
  <1>2. /\ HttpHeld(own, early) /\ own.dict = 0 /\ own.waiting = 0 /\ own.status = s.status
        /\ own.url = s.url /\ own.answer = s.answer /\ own.overlap = s.overlap
        /\ own.crumbs = s.crumbs
    BY OwnKeeps
  <1> HIDE DEF own
  <1>3. PutAdds(put, own, url)
    BY <1>2, PutAddsOne, Zenon DEF HttpHeld
  <1> HIDE DEF put
  <1>4. HttpHeld(put, early)
    BY <1>2, <1>3, PutKeeps
  <1>5. Responds(got, put, answer)
    BY <1>4, ResponseIs, Zenon DEF HttpHeld
  <1> HIDE DEF got
  <1>6. HttpHeld(got, early)
    BY <1>4, <1>5, ResponseKeeps
  <1>7. Finishes(new, got, s, answer)
    <2>1. Numbered(got)
      BY <1>6, Zenon DEF HttpHeld
    <2> QED BY <2>1, SessionFinishes, Zenon
  <1> HIDE DEF new
  <1>8. IsSeq(s.status) /\ IsSeq(s.crumbs)
    BY Zenon DEF HttpHeld, Numbered
  <1>9. N \in Nat /\ K \in Nat
    BY <1>8, Grown
  <1>10. /\ put.dict = N + 1 /\ put.waiting = N + 1 /\ (put.overlap <=> s.overlap)
         /\ put.overlap \in BOOLEAN
         /\ IsSeq(put.status) /\ Len(put.status) = N + 1 /\ put.status[N + 1] = "absent"
         /\ IsSeq(put.url) /\ Len(put.url) = N + 1 /\ put.url[N + 1] = url
         /\ IsSeq(put.answer) /\ Len(put.answer) = N + 1 /\ put.answer[N + 1] = "absent"
         /\ \A m \in 1..N : /\ put.status[m] = s.status[m] /\ put.url[m] = s.url[m]
                            /\ put.answer[m] = s.answer[m]
         /\ IsSeq(put.crumbs) /\ Len(put.crumbs) = K + 1
         /\ put.crumbs[K + 1] = CrumbOf(N + 1, url, "absent", TRUE)
         /\ \A i \in 1..K : put.crumbs[i] = s.crumbs[i]
    <2>1. own.dict = 0 /\ own.waiting = 0
      BY <1>2
    <2>2. /\ own.status = s.status /\ own.crumbs = s.crumbs
          /\ own.url = s.url /\ own.answer = s.answer /\ own.overlap = s.overlap
      BY <1>2
    <2>3. /\ put.dict = Len(own.status) + 1 /\ put.waiting = Len(own.status) + 1
          /\ (put.overlap <=> own.overlap) /\ put.overlap \in BOOLEAN
          /\ IsSeq(put.status) /\ Len(put.status) = Len(own.status) + 1
          /\ put.status[Len(own.status) + 1] = "absent"
          /\ IsSeq(put.url) /\ Len(put.url) = Len(own.status) + 1
          /\ put.url[Len(own.status) + 1] = url
          /\ IsSeq(put.answer) /\ Len(put.answer) = Len(own.status) + 1
          /\ put.answer[Len(own.status) + 1] = "absent"
      BY <1>3, <2>1, Zenon DEF PutAdds
    <2>4. \A m \in 1..Len(own.status) : /\ put.status[m] = own.status[m]
                                        /\ put.url[m] = own.url[m]
                                        /\ put.answer[m] = own.answer[m]
      BY <1>3, Zenon DEF PutAdds
    <2>5. /\ IsSeq(put.crumbs) /\ Len(put.crumbs) = Len(own.crumbs) + 1
          /\ put.crumbs[Len(own.crumbs) + 1] = CrumbOf(Len(own.status) + 1, url, "absent", TRUE)
          /\ \A i \in 1..Len(own.crumbs) : put.crumbs[i] = own.crumbs[i]
      BY <1>3, Zenon DEF PutAdds
    <2>6. /\ put.dict = N + 1 /\ put.waiting = N + 1 /\ put.overlap \in BOOLEAN
          /\ IsSeq(put.status) /\ Len(put.status) = N + 1 /\ put.status[N + 1] = "absent"
          /\ IsSeq(put.url) /\ Len(put.url) = N + 1 /\ put.url[N + 1] = url
          /\ IsSeq(put.answer) /\ Len(put.answer) = N + 1 /\ put.answer[N + 1] = "absent"
      BY <2>2, <2>3
    <2>7. \A m \in 1..N : /\ put.status[m] = s.status[m] /\ put.url[m] = s.url[m]
                          /\ put.answer[m] = s.answer[m]
      BY <2>2, <2>4
    <2>8. /\ IsSeq(put.crumbs) /\ Len(put.crumbs) = K + 1
          /\ put.crumbs[K + 1] = CrumbOf(N + 1, url, "absent", TRUE)
          /\ \A i \in 1..K : put.crumbs[i] = s.crumbs[i]
      BY <2>2, <2>5
    <2>9. put.overlap <=> s.overlap
      BY <2>2, <2>3, Zenon
    <2> QED BY <2>6, <2>7, <2>8, <2>9
  <1>11. /\ got.url = put.url /\ got.overlap = put.overlap /\ got.crumbs = put.crumbs
         /\ IsSeq(got.status) /\ Len(got.status) = N + 1
         /\ IsSeq(got.answer) /\ Len(got.answer) = N + 1
         /\ \A n \in 1..(N + 1) :
               /\ got.status[n] = IF answer # "fails" /\ put.waiting # 0 /\ n = put.dict
                                     /\ put.status[n] = "absent"
                                  THEN answer ELSE put.status[n]
               /\ got.answer[n] = IF answer # "fails" /\ put.waiting # 0 /\ n = put.waiting THEN answer
                                  ELSE put.answer[n]
    BY <1>5, <1>10, Zenon DEF Responds
  <1> HIDE DEF N, K
  <1>12. /\ N + 1 \in 1..(N + 1) /\ N + 1 # 0 /\ 1..N \subseteq 1..(N + 1) /\ N + 1 \notin 1..N
         /\ K + 1 + 1 = K + 2 /\ K + 1 \in 1..(K + 1) /\ 1..K \subseteq 1..(K + 1)
    BY <1>9
  <1>13. got.status[N + 1] = told /\ got.answer[N + 1] = told
    BY <1>10, <1>11, <1>12, Zenon
  <1>14. \A m \in 1..N : got.status[m] = s.status[m] /\ got.answer[m] = s.answer[m]
    <2> TAKE m \in 1..N
    <2>1. m \in 1..(N + 1) /\ m # N + 1
      BY <1>12
    <2> QED BY <1>10, <1>11, <2>1, Zenon
  <1>15. /\ IsConnection(new) /\ new.dict = s.dict /\ new.waiting = s.waiting
         /\ new.status = got.status /\ new.url = got.url /\ new.answer = got.answer
         /\ new.overlap = got.overlap /\ IsSeq(new.crumbs) /\ Len(new.crumbs) = K + 2
         /\ \A i \in 1..(K + 1) : new.crumbs[i] = got.crumbs[i]
         /\ new.crumbs[K + 2] =
               CrumbOf(N + 1, got.url[N + 1], IF answer = "200" THEN answer ELSE None, FALSE)
    <2>1. Len(got.status) = N + 1 /\ Len(got.crumbs) = K + 1
      BY <1>10, <1>11
    <2> QED BY <1>7, <1>12, <2>1, Zenon DEF Finishes
  <1>16. /\ \A i \in 1..K : new.crumbs[i] = s.crumbs[i]
         /\ new.crumbs[K + 1] = CrumbOf(N + 1, url, "absent", TRUE)
    <2>1. \A i \in 1..K : new.crumbs[i] = got.crumbs[i] /\ got.crumbs[i] = s.crumbs[i]
      BY <1>10, <1>11, <1>12, <1>15
    <2>2. new.crumbs[K + 1] = got.crumbs[K + 1]
      BY <1>12, <1>15
    <2> QED BY <1>10, <1>11, <2>1, <2>2, Zenon
  <1>17. SessionAdds(new, s, url, answer)
    <2>1. /\ IsConnection(new) /\ new.dict = s.dict /\ new.waiting = s.waiting
          /\ (new.overlap <=> s.overlap) /\ new.overlap \in BOOLEAN
          /\ IsSeq(new.status) /\ Len(new.status) = N + 1 /\ new.status[N + 1] = told
          /\ IsSeq(new.url) /\ Len(new.url) = N + 1 /\ new.url[N + 1] = url
          /\ IsSeq(new.answer) /\ Len(new.answer) = N + 1 /\ new.answer[N + 1] = told
      BY <1>10, <1>11, <1>13, <1>15, Zenon
    <2>2. \A m \in 1..N : /\ new.status[m] = s.status[m] /\ new.url[m] = s.url[m]
                          /\ new.answer[m] = s.answer[m]
      BY <1>10, <1>11, <1>14, <1>15
    <2>3. new.crumbs[K + 2] =
             CrumbOf(N + 1, url, IF answer = "200" THEN answer ELSE None, FALSE)
      BY <1>10, <1>11, <1>15, Zenon
    <2> QED BY <1>15, <1>16, <2>1, <2>2, <2>3, Zenon DEF SessionAdds, N, K
  <1> QED BY <1>1, <1>17

(* and keeps the rest. *)
LEMMA SessionKeeps ==
    ASSUME NEW s, NEW early \in BOOLEAN, HttpHeld(s, early), NEW url,
           NEW answer \in {"200", "500", "fails"}, NEW new, SessionAdds(new, s, url, answer)
    PROVE  HttpHeld(new, early)
  <1> DEFINE N == Len(s.status)
             K == Len(s.crumbs)
             told == IF answer = "fails" THEN "absent" ELSE answer
             status == IF answer = "200" THEN answer ELSE None
  <1>1. /\ IsSeq(s.status) /\ IsSeq(s.crumbs) /\ s.dict \in 0..N /\ s.waiting \in 0..N
        /\ \A n \in 1..N : s.status[n] \in {"absent", "200", "500"}
    BY Zenon DEF HttpHeld, Numbered
  <1>2. N \in Nat /\ K \in Nat
    BY <1>1, Grown
  <1>3. /\ IsConnection(new) /\ new.dict = s.dict /\ new.waiting = s.waiting
        /\ new.overlap <=> s.overlap
        /\ new.overlap \in BOOLEAN
        /\ IsSeq(new.status) /\ Len(new.status) = N + 1 /\ new.status[N + 1] = told
        /\ IsSeq(new.url) /\ Len(new.url) = N + 1 /\ new.url[N + 1] = url
        /\ IsSeq(new.answer) /\ Len(new.answer) = N + 1 /\ new.answer[N + 1] = told
        /\ \A m \in 1..N : /\ new.status[m] = s.status[m] /\ new.url[m] = s.url[m]
                           /\ new.answer[m] = s.answer[m]
        /\ IsSeq(new.crumbs) /\ Len(new.crumbs) = K + 2
        /\ \A i \in 1..K : new.crumbs[i] = s.crumbs[i]
        /\ new.crumbs[K + 1] = CrumbOf(N + 1, url, "absent", TRUE)
        /\ new.crumbs[K + 2] = CrumbOf(N + 1, url, status, FALSE)
    BY Zenon DEF SessionAdds
  <1>4. /\ \A m \in 1..(N + 1) : m \in 1..N \/ m = N + 1
        /\ 1..N \subseteq 1..(N + 1) /\ N + 1 \in 1..(N + 1) /\ N + 1 \notin 1..N
        /\ N + 1 \notin 0..N /\ 0..N \subseteq 0..(N + 1)
        /\ \A i \in 1..(K + 2) : i \in 1..K \/ i = K + 1 \/ i = K + 2
        /\ 1..K \subseteq 1..(K + 2) /\ K + 1 \in 1..(K + 2) /\ K + 2 \in 1..(K + 2)
        /\ K + 2 = K + 1 + 1
    BY <1>2
  <1>5. \A i \in 1..K : IsCrumb(s, s.crumbs[i]) /\ Fits(s, s.crumbs[i], early)
    BY Zenon DEF HttpHeld, Crumbed
  <1> DEFINE hook == new.crumbs[K + 1]
             last == new.crumbs[K + 2]
             yes == TRUE
             no == FALSE
  <1>6. /\ hook.request = N + 1 /\ hook.url = url /\ hook.processor = TRUE
        /\ hook = CrumbOf(hook.request, hook.url, hook.status, hook.processor)
    <2> DEFINE n == N + 1
    <2>1. hook = CrumbOf(n, url, "absent", yes)
      BY <1>3, Zenon
    <2> HIDE DEF hook, yes, n
    <2>2. /\ hook.request = n /\ hook.url = url /\ hook.processor = yes
          /\ hook = CrumbOf(hook.request, hook.url, hook.status, hook.processor)
      BY <2>1, CrumbHas
    <2> QED BY <2>2, Zenon DEF yes, n
  <1>7. /\ last.request = N + 1 /\ last.url = url /\ last.processor = FALSE /\ last.status = status
        /\ last = CrumbOf(last.request, last.url, last.status, last.processor)
    <2> DEFINE n == N + 1
    <2>1. last = CrumbOf(n, url, status, no)
      BY <1>3, Zenon
    <2> HIDE DEF last, no, n, status
    <2>2. /\ last.request = n /\ last.url = url /\ last.processor = no /\ last.status = status
          /\ last = CrumbOf(last.request, last.url, last.status, last.processor)
      BY <2>1, CrumbHas
    <2> QED BY <2>2, Zenon DEF no, n
  <1> HIDE DEF hook, last, N, K, yes, no
  <1>8. Numbered(new)
    <2>1. \A n \in 1..(N + 1) : new.status[n] \in {"absent", "200", "500"}
      BY <1>1, <1>3, <1>4
    <2>2. new.dict \in 0..(N + 1) /\ new.waiting \in 0..(N + 1)
      BY <1>1, <1>3, <1>4
    <2> QED BY <1>3, <2>1, <2>2, Zenon DEF Numbered
  <1>9. Answers(new)
    <2>1. new.waiting # 0 => new.answer[new.waiting] = "absent"
      <3>1. SUFFICES ASSUME s.waiting # 0
                     PROVE  new.answer[s.waiting] = "absent"
        BY <1>3
      <3>2. s.answer[s.waiting] = "absent"
        BY <3>1, Zenon DEF HttpHeld, Answers
      <3>3. s.waiting \in 1..N
        BY <1>1, <1>2, <3>1
      <3> QED BY <1>3, <3>2, <3>3
    <2>2. ASSUME ~ new.overlap
          PROVE  /\ new.waiting # 0 => new.dict = new.waiting
                 /\ \A n \in 1..(N + 1) : new.status[n] = new.answer[n]
      <3>1. /\ s.waiting # 0 => s.dict = s.waiting
            /\ \A n \in 1..N : s.status[n] = s.answer[n]
        BY <1>3, <2>2, Zenon DEF HttpHeld, Answers, N
      <3> QED BY <1>3, <1>4, <3>1
    <2> QED BY <1>3, <2>1, <2>2, Zenon DEF Answers
  <1>10. Crumbed(new, early)
    <2>1. ASSUME NEW i \in 1..K
          PROVE  IsCrumb(new, s.crumbs[i]) /\ Fits(new, s.crumbs[i], early)
      <3> DEFINE crumb == s.crumbs[i]
      <3>1. /\ crumb = CrumbOf(crumb.request, crumb.url, crumb.status, crumb.processor)
            /\ crumb.request \in 1..N /\ crumb.url = s.url[crumb.request] /\ crumb.processor \in BOOLEAN
        BY <1>5, Zenon DEF IsCrumb, N
      <3>2. Fits(s, crumb, early)
        BY <1>5
      <3> HIDE DEF crumb
      <3>3. new.answer[crumb.request] = s.answer[crumb.request] /\ (~ new.overlap => ~ s.overlap)
        BY <1>3, <3>1
      <3>4. IsCrumb(new, crumb)
        BY <1>3, <1>4, <3>1, Zenon DEF IsCrumb
      <3>5. Fits(new, crumb, early)
        BY <1>3, <3>2, <3>3, Zenon DEF Fits
      <3> QED BY <3>4, <3>5 DEF crumb
    <2>2. IsCrumb(new, hook) /\ Fits(new, hook, early)
      <3>1. IsCrumb(new, hook)
        BY <1>3, <1>4, <1>6, Zenon DEF IsCrumb
      <3>2. Fits(new, hook, early)
        BY <1>6, Zenon DEF Fits
      <3> QED BY <3>1, <3>2
    <2>3. IsCrumb(new, last) /\ Fits(new, last, early)
      <3>1. IsCrumb(new, last)
        <4>1. FALSE \in BOOLEAN
          OBVIOUS
        <4> QED BY <1>3, <1>4, <1>7, <4>1, Zenon DEF IsCrumb
      <3>2. None \notin {"absent", "200", "500"} /\ "absent" # "200"
        BY NoneAssumption
      <3>3. new.waiting # N + 1
        BY <1>1, <1>3, <1>4
      <3>4. status = None => told # "200"
        BY <3>2
      <3>5. status # None => status = told
        OBVIOUS
      <3>6. status # "absent"
        BY <3>2
      <3> HIDE DEF status, told
      <3>7. Fits(new, last, early)
        BY <1>3, <1>7, <3>3, <3>4, <3>5, <3>6, Zenon DEF Fits
      <3> QED BY <3>1, <3>7
    <2>4. ASSUME NEW i \in 1..(K + 2)
          PROVE  IsCrumb(new, new.crumbs[i]) /\ Fits(new, new.crumbs[i], early)
      <3>1. CASE i \in 1..K
        BY <1>3, <2>1, <3>1, Zenon
      <3>2. CASE i = K + 1
        BY <2>2, <3>2, Zenon DEF hook
      <3>3. CASE i = K + 2
        BY <2>3, <3>3, Zenon DEF last
      <3> QED BY <1>4, <3>1, <3>2, <3>3
    <2> QED BY <1>3, <2>4, Zenon DEF Crumbed
  <1>11. Covered(new)
    <2>1. \A n \in 1..N : \E i \in 1..K : s.crumbs[i].request = n
      BY Zenon DEF HttpHeld, Covered, N, K
    <2>2. ASSUME NEW n \in 1..(N + 1)
          PROVE  \E i \in 1..(K + 2) : new.crumbs[i].request = n
      <3>1. CASE n \in 1..N
        BY <1>3, <1>4, <2>1, <3>1
      <3>2. CASE n = N + 1
        BY <1>4, <1>6, <3>2 DEF hook
      <3> QED BY <1>4, <3>1, <3>2
    <2> QED BY <1>3, <2>2, Zenon DEF Covered
  <1>12. Paired(new)
    <2>1. ASSUME NEW i \in 1..(K + 2), NEW j \in 1..(K + 2), i < j,
                 new.crumbs[i].request = new.crumbs[j].request
          PROVE  Alike(new, i, j)
      <3>1. \A l \in 1..K : new.crumbs[l].request \in 1..N
        BY <1>3, <1>5, Zenon DEF IsCrumb, N
      <3>2. new.crumbs[K + 1].request = N + 1 /\ new.crumbs[K + 2].request = N + 1
        BY <1>6, <1>7 DEF hook, last
      <3>3. CASE i \in 1..K
        <4>1. j \in 1..K
          <5>1. j # K + 1 /\ j # K + 2
            BY <1>4, <2>1, <3>1, <3>2, <3>3
          <5> QED BY <1>4, <5>1
        <4>2. Alike(s, i, j)
          BY <1>3, <2>1, <3>3, <4>1, Zenon DEF HttpHeld, Paired, K
        <4> DEFINE request == s.crumbs[i].request
        <4>3. /\ j = i + 1 /\ request # s.waiting /\ request # s.dict
              /\ s.answer[request] = "200" =>
                    Says(s, s.crumbs[i]) = "200" /\ Says(s, s.crumbs[j]) = "200"
          BY <4>2, Zenon DEF Alike
        <4>4. /\ request \in 1..N /\ s.crumbs[j].request \in 1..N
              /\ new.crumbs[i] = s.crumbs[i] /\ new.crumbs[j] = s.crumbs[j]
          BY <1>3, <3>1, <3>3, <4>1
        <4>5. new.crumbs[i].request = request
          BY <4>4
        <4>6. /\ Says(new, s.crumbs[i]) = Says(s, s.crumbs[i])
              /\ Says(new, s.crumbs[j]) = Says(s, s.crumbs[j])
          BY <1>3, <4>4, Zenon DEF Says
        <4> HIDE DEF request
        <4>7. new.answer[request] = s.answer[request]
          BY <1>3, <4>4
        <4> QED BY <1>3, <4>3, <4>4, <4>5, <4>6, <4>7, Zenon DEF Alike
      <3>4. CASE i \notin 1..K
        <4>1. i = K + 1 /\ j = K + 2
          BY <1>2, <1>4, <2>1, <3>4
        <4>2. N + 1 # new.waiting /\ N + 1 # new.dict
          BY <1>1, <1>3, <1>4
        <4>3. Says(new, hook) = told /\ Says(new, last) = status
          BY <1>3, <1>6, <1>7, Zenon DEF Says
        <4>4. told = "200" => status = "200"
          OBVIOUS
        <4> HIDE DEF told, status
        <4>5. new.crumbs[i] = hook /\ new.crumbs[j] = last /\ j = i + 1
          BY <1>4, <4>1 DEF hook, last
        <4> QED BY <1>3, <1>6, <4>2, <4>3, <4>4, <4>5, Zenon DEF Alike
      <3> QED BY <3>3, <3>4
    <2> QED BY <1>3, <2>1, Zenon DEF Paired
  <1> QED BY <1>8, <1>9, <1>10, <1>11, <1>12 DEF HttpHeld

(* Nothing has been requested over a new connection. *)
LEMMA ConnectionStarts == HttpHeld(NewConnection, FALSE)
  <1> DEFINE s == NewConnection
             no == FALSE
             none == <<>>
  <1>1. s = Connection(0, 0, none, none, none, no, none, none)
    BY Zenon DEF NewConnection, Connection
  <1>2. IsSeq(none) /\ Len(none) = 0
    <2>1. none \in Seq({})
      OBVIOUS
    <2> QED BY <2>1 DEF IsSeq
  <1>3. no \in BOOLEAN
    OBVIOUS
  <1> HIDE DEF s, no, none
  <1>4. /\ IsConnection(s) /\ s.dict = 0 /\ s.waiting = 0 /\ s.status = none /\ s.url = none
        /\ s.answer = none /\ s.overlap = no /\ s.crumbs = none
    BY <1>1, ConnectionHas
  <1>5. 0 \in 0..0 /\ 1..0 = {}
    OBVIOUS
  <1>6. Numbered(s)
    BY <1>2, <1>3, <1>4, <1>5, Zenon DEF Numbered
  <1>7. Answers(s)
    BY <1>2, <1>4, <1>5, Zenon DEF Answers
  <1>8. Crumbed(s, FALSE)
    BY <1>2, <1>4, <1>5, Zenon DEF Crumbed
  <1>9. Covered(s)
    BY <1>2, <1>4, <1>5, Zenon DEF Covered
  <1>10. Paired(s)
    BY <1>2, <1>4, <1>5, Zenon DEF Paired
  <1> QED BY <1>6, <1>7, <1>8, <1>9, <1>10, Zenon DEF HttpHeld, s

(* One of the calls. *)
LEMMA HttpKeeps ==
    ASSUME NEW s, NEW early \in BOOLEAN, HttpHeld(s, early), NEW op \in HttpOp
    PROVE  /\ HttpHeld(Http(s, op), early \/ op.do = "event")
           /\ op.do = "event" => HttpCrumbs(Http(s, op), early)
  <1> DEFINE new == Http(s, op)
  <1>1. Numbered(s)
    BY Zenon DEF HttpHeld
  <1>2. \/ op.do = "put"
        \/ op.do = "response" /\ op.answer \in {"200", "500", "fails"}
        \/ op.do = "session" /\ op.answer \in {"200", "500", "fails"}
        \/ op.do = "event"
    BY DEF HttpOp
  <1>3. CASE op.do = "put"
    <2>1. new = PutRequest(s, op.url) /\ op.do # "event"
      BY <1>3 DEF Http
    <2> HIDE DEF new
    <2>2. PutAdds(new, s, op.url)
      BY <1>1, <2>1, PutAddsOne, Zenon
    <2>3. HttpHeld(new, early)
      BY <2>2, PutKeeps
    <2> QED BY <2>1, <2>3, Zenon DEF new
  <1>4. CASE op.do = "response" /\ op.answer \in {"200", "500", "fails"}
    <2>1. new = GetResponse(s, op.answer) /\ op.do # "event"
      BY <1>4 DEF Http
    <2> HIDE DEF new
    <2>2. Responds(new, s, op.answer)
      BY <1>1, <2>1, ResponseIs, Zenon
    <2>3. HttpHeld(new, early)
      BY <1>4, <2>2, ResponseKeeps
    <2> QED BY <2>1, <2>3, Zenon DEF new
  <1>5. CASE op.do = "session" /\ op.answer \in {"200", "500", "fails"}
    <2>1. new = SessionSend(s, op.url, op.answer) /\ op.do # "event"
      BY <1>5 DEF Http
    <2> HIDE DEF new
    <2>2. SessionAdds(new, s, op.url, op.answer)
      BY <1>5, <2>1, SessionIs, Zenon
    <2>3. HttpHeld(new, early)
      BY <1>5, <2>2, SessionKeeps
    <2> QED BY <2>1, <2>3, Zenon DEF new
  <1>6. CASE op.do = "event"
    <2>1. new = EventOf(s)
      BY <1>6 DEF Http
    <2> HIDE DEF new
    <2>2. Presents(new, s)
      BY <2>1, EventPresents, Zenon
    <2>3. HttpHeld(new, TRUE) /\ HttpCrumbs(new, early)
      BY <2>2, EventKeeps
    <2>4. early \/ op.do = "event" <=> TRUE
      BY <1>6
    <2> QED BY <1>6, <2>3, <2>4, Zenon DEF new
  <1> QED BY <1>2, <1>3, <1>4, <1>5, <1>6

(* Whether an event was among the first of the calls. *)
Early(ops, k) == \E i \in 1..k : ops[i].do = "event"

(* A connection after the first of the calls. *)
HttpDone(ops, r) ==
    /\ r.done \in 0..Len(ops)
    /\ HttpHeld(r.s, Early(ops, r.done))
    /\ r.done > 0 /\ ops[r.done].do = "event" => HttpCrumbs(r.s, Early(ops, r.done - 1))
HttpGoing == Answered("http") => HttpDone(input.ops, result)

(* So for every step, *)
LEMMA HttpStep ==
    ASSUME CrumbInput, HttpGoing, [Next]_vars
    PROVE  HttpGoing'
  <1>1. input' = input
    BY InputStays
  <1>2. CASE input.do # "http" \/ UNCHANGED vars
    BY <1>1, <1>2 DEF HttpGoing, Answered, vars
  <1>3. ASSUME input.do = "http"
        PROVE  input.ops \in Seq(HttpOp) /\ Len(input.ops) \in Nat
    BY <1>3 DEF CrumbInput
  <1>4. CASE HttpFirst
    <2> DEFINE new == [s |-> NewConnection, done |-> 0]
               ops == input.ops
    <2>1. result' = new /\ input.do = "http"
      BY <1>4, Zenon DEF HttpFirst, Answer, Asked
    <2>2. new.s = NewConnection /\ new.done = 0
      BY Zenon
    <2>3. Len(ops) \in Nat
      BY <1>3, <2>1
    <2> HIDE DEF new, ops
    <2>4. Early(ops, 0) <=> FALSE
      BY DEF Early
    <2>5. 0 \in 0..Len(ops) /\ ~ (0 > 0)
      BY <2>3
    <2>6. HttpHeld(new.s, Early(ops, 0))
      <3>1. Early(ops, 0) = FALSE
        BY <2>4, Zenon DEF Early
      <3> QED BY <2>2, <3>1, ConnectionStarts, Zenon
    <2>7. HttpDone(ops, new)
      BY <2>2, <2>5, <2>6, Zenon DEF HttpDone
    <2> QED BY <1>1, <2>1, <2>7, Zenon DEF HttpGoing, ops
  <1>5. CASE HttpNext
    <2> DEFINE ops == input.ops
               s == result.s
               k == result.done
               op == ops[k + 1]
               new == [s |-> Http(s, op), done |-> k + 1]
               early == Early(ops, k)
    <2>1. /\ result' = new /\ input.do = "http" /\ result # None /\ k < Len(ops)
      BY <1>5, Zenon DEF HttpNext, Answer, Going
    <2>2. /\ k \in 0..Len(ops) /\ HttpHeld(s, early)
      BY <2>1, Zenon DEF HttpGoing, HttpDone, Answered
    <2>3. ops \in Seq(HttpOp) /\ Len(ops) \in Nat
      BY <1>3, <2>1
    <2> HIDE DEF ops, s, k
    <2>4. k \in Nat /\ k + 1 \in 1..Len(ops) /\ k + 1 \in 0..Len(ops) /\ k + 1 - 1 = k
      BY <2>1, <2>2, <2>3
    <2>5. op \in HttpOp
      BY <2>3, <2>4
    <2>6. early \in BOOLEAN
      BY Zenon DEF Early
    <2> HIDE DEF op, early
    <2>7. /\ HttpHeld(Http(s, op), early \/ op.do = "event")
          /\ op.do = "event" => HttpCrumbs(Http(s, op), early)
      BY <2>2, <2>5, <2>6, HttpKeeps
    <2>8. Early(ops, k + 1) <=> early \/ op.do = "event"
      <3>1. 1..(k + 1) = 1..k \cup {k + 1}
        BY <2>4
      <3>2. Early(ops, k + 1) <=> \E i \in 1..(k + 1) : ops[i].do = "event"
        BY Zenon DEF Early
      <3>3. early <=> \E i \in 1..k : ops[i].do = "event"
        BY Zenon DEF early, Early
      <3>4. op = ops[k + 1]
        BY DEF op
      <3> QED BY <3>1, <3>2, <3>3, <3>4
    <2>9. Early(ops, k + 1) = (early \/ op.do = "event")
      BY <2>8, Zenon DEF Early
    <2>10. new.s = Http(s, op) /\ new.done = k + 1
      BY Zenon
    <2> HIDE DEF new
    <2>11. HttpHeld(new.s, Early(ops, new.done))
      BY <2>7, <2>9, <2>10, Zenon
    <2>12. ops[new.done].do = "event" => HttpCrumbs(new.s, Early(ops, new.done - 1))
      <3>1. new.done - 1 = k /\ ops[new.done] = op
        BY <2>4, <2>10 DEF op
      <3>2. Early(ops, new.done - 1) = early
        BY <3>1, Zenon DEF early
      <3> QED BY <2>7, <2>10, <3>1, <3>2, Zenon
    <2>13. new.done \in 0..Len(ops)
      BY <2>4, <2>10
    <2>14. HttpDone(ops, new)
      BY <2>11, <2>12, <2>13, Zenon DEF HttpDone
    <2> QED BY <1>1, <2>1, <2>14, Zenon DEF HttpGoing, ops
  <1> QED BY <1>2, <1>4, <1>5, Questions DEF Next

(* and for the event that an operation asked for. *)
LEMMA HttpShows ==
    ASSUME HttpGoing
    PROVE  RequestsRecorded
  BY Zenon DEF HttpGoing, HttpDone, RequestsRecorded, Early

-----------------------------------------------------------------------------
(* Every behaviour *)

(* What is inductive about an event: its answer is that of the function. *)
PayloadInv == BuildInput /\ BuildKept

(* Precedence in every state, whatever dictionaries the client, the        *)
(* context, the data and the call have, with and without an integration:   *)
(* each value is of the most specific source that has one (build_msg(),    *)
(* capture(), and the integrations that add to the data).                  *)
THEOREM MostSpecificWins == Spec => []Precedence
  <1>1. Init => PayloadInv
    <2>1. SUFFICES ASSUME Init
                   PROVE  PayloadInv
      OBVIOUS
    <2>2. ~ Answered("build")
      BY <2>1, Unanswered
    <2> QED BY <2>1, <2>2, Zenon DEF PayloadInv, BuildKept, Init
  <1>2. PayloadInv /\ [Next]_vars => PayloadInv'
    BY BuildStep, InputsStay DEF PayloadInv
  <1>3. PayloadInv => Precedence
    <2>1. CASE ~ Answered("build")
      BY <2>1, Zenon DEF Precedence
    <2>2. CASE Answered("build")
      <3>1. input.do = "build"
        BY <2>2 DEF Answered
      <3> QED BY <2>2, <3>1, EventIsPrecise, Zenon DEF PayloadInv, BuildKept
    <2> QED BY <2>1, <2>2
  <1> QED BY <1>1, <1>2, <1>3, PTL DEF Spec

(* What is inductive about crumbs: each is of a request that was begun,    *)
(* and what its dictionary has is what was answered, unless requests have  *)
(* overlapped; a library is hooked once; and of log calls and queries the  *)
(* answer is that of the function.                                         *)
CrumbInv == CrumbInput /\ HttpGoing /\ LogCallsRecorded /\ HooksGoing /\ QueriesRecorded

(* CrumbsFaithful in every state, after any number of requests, sessions   *)
(* and events, in any order (the hooks of httplib and requests), for log   *)
(* calls, hooked libraries and queries of any size.                        *)
THEOREM CrumbsSayWhatHappened == Spec => []CrumbsFaithful
  <1>1. Init => CrumbInv
    <2>1. SUFFICES ASSUME Init
                   PROVE  CrumbInv
      OBVIOUS
    <2>2. \A what : ~ Answered(what)
      BY <2>1, Unanswered
    <2>3. CrumbInput
      BY <2>1, Zenon DEF Init
    <2>4. HttpGoing /\ LogCallsRecorded /\ HooksGoing /\ QueriesRecorded
      BY <2>2, Zenon DEF HttpGoing, LogCallsRecorded, HooksGoing, QueriesRecorded
    <2> QED BY <2>3, <2>4 DEF CrumbInv
  <1>2. CrumbInv /\ [Next]_vars => CrumbInv'
    <2>1. SUFFICES ASSUME CrumbInv, [Next]_vars
                   PROVE  CrumbInv'
      OBVIOUS
    <2>2. CrumbInput /\ HttpGoing /\ LogCallsRecorded /\ HooksGoing /\ QueriesRecorded
      BY <2>1 DEF CrumbInv
    <2>3. CrumbInput'
      BY <2>1, <2>2, InputsStay
    <2>4. HttpGoing' /\ LogCallsRecorded'
      BY <2>1, <2>2, HttpStep, RecordStep
    <2>5. HooksGoing' /\ QueriesRecorded'
      BY <2>1, <2>2, HookStep, QueryStep
    <2> QED BY <2>3, <2>4, <2>5 DEF CrumbInv
  <1>3. CrumbInv => CrumbsFaithful
    <2>1. SUFFICES ASSUME CrumbInv
                   PROVE  CrumbsFaithful
      OBVIOUS
    <2>2. CrumbInput /\ HttpGoing /\ LogCallsRecorded /\ HooksGoing /\ QueriesRecorded
      BY <2>1 DEF CrumbInv
    <2>3. RequestsRecorded
      BY <2>2, HttpShows
    <2>4. LibrariesHooked
      BY <2>2, HooksShow
    <2> QED BY <2>2, <2>3, <2>4 DEF CrumbsFaithful
  <1> QED BY <1>1, <1>2, <1>3, PTL DEF Spec
=============================================================================
