------------------------------ MODULE Natives ------------------------------
(***************************************************************************)
(* The 14 natives a plugin can call (src/src/natives.cpp): how each reads  *)
(* its parameters, in which order it checks them, what it asks of Paho and *)
(* what it changes when it fails.                                          *)
(*                                                                         *)
(* AMXX passes params[0] as the size of the arguments and the cells behind *)
(* it.  A plugin compiled against an older include file passes fewer cells *)
(* than the native knows: what lies behind them belongs to the caller and  *)
(* can be anything, so that a frame is the number of arguments and a cell  *)
(* for every parameter, the missing ones too.                              *)
(*                                                                         *)
(* The managers are seen from outside here (MqttClientMgr and              *)
(* ConnectOptionMgr have their inside): which handles and indices resolve, *)
(* and what was stored for them.                                           *)
(***************************************************************************)
EXTENDS Integers, Sequences, FiniteSets

CONSTANTS MaxHandle,    \* bound: clients ever created
          MaxIndex,     \* MAX_INDEX, 10000 in the code
          MaxForwards,  \* bound: callbacks set at a time
          Unset         \* an option that was not set

ASSUME NativesAssumption == MaxHandle \in Nat /\ MaxIndex \in Nat /\ MaxForwards \in Nat

\* Cells that a plugin passes, or that lie behind those it passes: numbers, and
\* addresses that stand for the string or the value they point to.
Handles  == 0..(MaxHandle + 1)
Indices  == 0..(MaxIndex + 1)
Texts    == {"", "text"}
Flags    == {0, 1}
QosCells == -1..3
Names    == 0..4

Kinds == {"connected", "message", "connectionLost", "disconnected"}

NoForward == <<>>
NoRequest == [op |-> "none"]
Nothing   == [native |-> "none"]

VARIABLES
    clients,      \* the handles that resolve, with the signature of each forward
    nextHandle,
    options,      \* the indices that resolve, with what was set
    call, reply   \* the call that is returning, and what came of it

stored == <<clients, nextHandle, options>>
vars   == <<stored, call, reply>>

Settings == [user : Texts \cup {Unset}, password : Texts \cup {Unset},
             cleanStart : BOOLEAN \cup {Unset}, expiry : Flags \cup {Unset}]

Signatures == {NoForward, <<"cell">>, <<"cell", "string">>, <<"cell", "cell">>,
               <<"cell", "string", "string">>}

TypeOK ==
    /\ DOMAIN clients \subseteq 1..(nextHandle - 1)
    /\ \A h \in DOMAIN clients : clients[h] \in [Kinds -> Signatures]
    /\ nextHandle \in 1..(MaxHandle + 1)
    /\ DOMAIN options \subseteq 1..MaxIndex
    /\ \A i \in DOMAIN options : options[i] \in Settings

Init ==
    /\ clients = [h \in {} |-> <<>>]
    /\ nextHandle = 1
    /\ options = [i \in {} |-> <<>>]
    /\ call = Nothing
    /\ reply = Nothing

With(f, x, y) == [z \in DOMAIN f \cup {x} |-> IF z = x THEN y ELSE f[z]]
Without(f, x) == [z \in DOMAIN f \ {x} |-> f[z]]

-----------------------------------------------------------------------------
(* The shape of a native: checks in order, then one attempt.               *)

Check(fails, error) == [fails |-> fails, error |-> error]

TooFew(n, required) == Check(n < required, "arguments")
NoClient(h)         == Check(h \notin DOMAIN clients, "client")
NoOptions(i)        == Check(i \notin DOMAIN options, "options")
EmptyTopic(text)    == Check(text = "", "topic")
BadQos(qos)         == Check(qos < 0 \/ qos > 2, "qos")

FirstError(checks) ==
    LET failed == {i \in DOMAIN checks : checks[i].fails}
    IN IF failed = {} THEN "none"
       ELSE checks[CHOOSE i \in failed : \A j \in failed : i <= j].error

Reply(error, value, request) ==
    reply' = [error |-> error, value |-> value, request |-> request]

Fails(error) == Reply(error, 0, NoRequest) /\ UNCHANGED stored

Returns(value) == Reply("none", value, NoRequest)

\* A call of native with n arguments: the first check that fails is reported
\* and nothing else happens, otherwise attempt does.
Native(native, n, params, checks, attempt) ==
    /\ call' = [native |-> native, count |-> n, params |-> params]
    /\ LET error == FirstError(checks) IN
       IF error = "none" THEN attempt ELSE Fails(error)

\* The plugin goes on; natives do not call natives.
Return ==
    /\ call # Nothing
    /\ call' = Nothing
    /\ reply' = Nothing
    /\ UNCHANGED stored

\* Paho takes the request or throws, and the exception is reported.
Submit(request) ==
    \/ Reply("none", 1, request) /\ UNCHANGED stored
    \/ Fails("exception")

\* Mutant: the parameter is read although the caller did not pass it.
ReadAlways(n, position, cell, default) == cell

\* A parameter that plugins compiled before it was added do not pass.
Optional(n, position, cell, default) == IF n >= position THEN cell ELSE default

-----------------------------------------------------------------------------
(* Clients.                                                                *)

NextHandle(n) == n + 1

\* make returns the next handle, or throws: too many clients, or Paho refuses
\* to construct one.
mqtt_create(n) ==
    Native("mqtt_create", n, <<>>, <<TooFew(n, 2)>>,
        \/ /\ nextHandle <= MaxHandle
           /\ clients' = With(clients, nextHandle, [k \in Kinds |-> NoForward])
           /\ nextHandle' = NextHandle(nextHandle)
           /\ Returns(nextHandle)
           /\ UNCHANGED options
        \/ Fails("exception"))

\* A handle that does not resolve is not an error here.
mqtt_destroy(n, h) ==
    Native("mqtt_destroy", n, <<h>>, <<TooFew(n, 1)>>,
        /\ clients' = Without(clients, h)
        /\ Returns(1)
        /\ UNCHANGED <<nextHandle, options>>)

\* ConnectOptionMgr::destroy is called whether Paho throws or not.
mqtt_connect(n, h, i) ==
    Native("mqtt_connect", n, <<h, i>>, <<TooFew(n, 2), NoClient(h), NoOptions(i)>>,
        \E error \in {"none", "exception"} :
            /\ options' = Without(options, i)
            /\ IF error = "none"
               THEN Reply(error, 1, [op |-> "connect", client |-> h, options |-> options[i]])
               ELSE Reply(error, 0, NoRequest)
            /\ UNCHANGED <<clients, nextHandle>>)

\* MqttClient::disconnect handles what Paho throws, so the native succeeds.
mqtt_disconnect(n, h) ==
    Native("mqtt_disconnect", n, <<h>>, <<TooFew(n, 1), NoClient(h)>>,
        /\ Reply("none", 1, [op |-> "disconnect", client |-> h])
        /\ UNCHANGED stored)

\* The flag is MqttClient's; here it can have either value.
mqtt_is_connect(n, h) ==
    Native("mqtt_is_connect", n, <<h>>, <<TooFew(n, 1), NoClient(h)>>,
        /\ \E connected \in {0, 1} : Returns(connected)
        /\ UNCHANGED stored)

-----------------------------------------------------------------------------
(* Topics.                                                                 *)

mqtt_subscribe(n, h, topic, cell) ==
    LET qos == Optional(n, 3, cell, 0) IN
    Native("mqtt_subscribe", n, <<h, topic, cell>>,
        <<TooFew(n, 2), NoClient(h), EmptyTopic(topic), BadQos(qos)>>,
        Submit([op |-> "subscribe", client |-> h, topic |-> topic, qos |-> qos]))

mqtt_unsubscribe(n, h, topic) ==
    Native("mqtt_unsubscribe", n, <<h, topic>>,
        <<TooFew(n, 2), NoClient(h), EmptyTopic(topic)>>,
        Submit([op |-> "unsubscribe", client |-> h, topic |-> topic]))

\* The data may be empty.
mqtt_publish(n, h, topic, data, flag, cell) ==
    LET retained == Optional(n, 4, flag # 0, FALSE)
        qos      == Optional(n, 5, cell, 0) IN
    Native("mqtt_publish", n, <<h, topic, data, flag, cell>>,
        <<TooFew(n, 3), NoClient(h), EmptyTopic(topic), BadQos(qos)>>,
        Submit([op |-> "publish", client |-> h, topic |-> topic, data |-> data,
                retained |-> retained, qos |-> qos]))

-----------------------------------------------------------------------------
(* Callbacks.                                                              *)

\* Mutant: message callbacks are registered as before the topic was added.
SignatureBeforeTopics(k) ==
    IF k = "connected" THEN <<"cell">> ELSE
    IF k = "disconnected" THEN <<"cell", "cell">> ELSE <<"cell", "string">>

\* The parameters with which each native registers its forward.
Signature(k) ==
    CASE k = "connected"      -> <<"cell">>
      [] k = "message"        -> <<"cell", "string", "string">>
      [] k = "connectionLost" -> <<"cell", "string">>
      [] k = "disconnected"   -> <<"cell", "cell">>

\* Mutant: the id is stored before it is compared with -1.
StoredUnchecked(h, k, forward) == [clients EXCEPT ![h][k] = forward]

\* A registration that failed leaves the callback there was.
Stored(h, k, forward) ==
    IF forward = NoForward THEN clients ELSE [clients EXCEPT ![h][k] = forward]

\* mqtt_set_connected_callback and its three sisters: AMXX registers the forward,
\* or returns -1 if the plugin has no such function.
mqtt_set_callback(k, n, h) ==
    Native("mqtt_set_callback", n, <<h>>, <<TooFew(n, 2), NoClient(h)>>,
        \E forward \in {Signature(k), NoForward} :
            /\ clients' = Stored(h, k, forward)
            /\ IF forward = NoForward THEN Reply("callback", 0, NoRequest) ELSE Returns(1)
            /\ UNCHANGED <<nextHandle, options>>)

-----------------------------------------------------------------------------
(* Connection options.                                                     *)

\* makeIndex finds the smallest free index, or throws.
mqtt_create_connect_options(n) ==
    Native("mqtt_create_connect_options", n, <<>>, <<>>,
        LET free == 1..MaxIndex \ DOMAIN options IN
        IF free = {} THEN Fails("exception")
        ELSE LET i == CHOOSE j \in free : \A m \in free : j <= m IN
             /\ options' = With(options, i, [user |-> Unset, password |-> Unset,
                                             cleanStart |-> Unset, expiry |-> Unset])
             /\ Returns(i)
             /\ UNCHANGED <<clients, nextHandle>>)

\* MqttConnectOptionNames, which counts from 0.
OptionNames == <<"user", "password", "cleanStart", "expiry">>

\* The third cell is an address in every case: of a string, or of a number.
ValueAt(field, text, number) ==
    CASE field \in {"user", "password"} -> text
      [] field = "cleanStart" -> number > 0
      [] field = "expiry" -> number

mqtt_set_options(n, i, name, text, number) ==
    Native("mqtt_set_options", n, <<i, name, text, number>>,
        <<TooFew(n, 3), NoOptions(i), Check(name + 1 \notin DOMAIN OptionNames, "name")>>,
        LET field == OptionNames[name + 1] IN
        /\ options' = [options EXCEPT ![i][field] = ValueAt(field, text, number)]
        /\ Returns(1)
        /\ UNCHANGED <<clients, nextHandle>>)

-----------------------------------------------------------------------------
ForwardsSet == {s \in (DOMAIN clients) \X Kinds : clients[s[1]][s[2]] # NoForward}

ClientNatives ==
    \E n \in 0..2 :
        \/ mqtt_create(n)
        \/ \E h \in Handles :
               \/ mqtt_destroy(n, h)
               \/ \E i \in Indices : mqtt_connect(n, h, i)
               \/ mqtt_disconnect(n, h)
               \/ mqtt_is_connect(n, h)

TopicNatives ==
    \E h \in Handles, topic \in Texts :
        \/ \E n \in 0..3, qos \in QosCells : mqtt_subscribe(n, h, topic, qos)
        \/ \E n \in 0..2 : mqtt_unsubscribe(n, h, topic)
        \/ \E n \in 0..5, data \in {"text"}, flag \in Flags, qos \in QosCells :
               mqtt_publish(n, h, topic, data, flag, qos)

CallbackNatives ==
    \E n \in 0..2, h \in Handles, k \in Kinds :
        /\ <<h, k>> \in ForwardsSet \/ Cardinality(ForwardsSet) < MaxForwards
        /\ mqtt_set_callback(k, n, h)

OptionNatives ==
    \/ mqtt_create_connect_options(0)
    \/ \E n \in 0..3, i \in Indices, name \in Names, text \in {"text"}, number \in Flags :
           mqtt_set_options(n, i, name, text, number)

\* The game thread runs one native at a time.
Next ==
    \/ /\ call = Nothing
       /\ ClientNatives \/ TopicNatives \/ CallbackNatives \/ OptionNatives
    \/ Return

Spec == Init /\ [][Next]_vars

-----------------------------------------------------------------------------
(* What MqttClient.inc promises.                                           *)

\* What the include file of today passes for the parameters that a plugin leaves out.
Completed(c) ==
    LET defaults == CASE c.native = "mqtt_subscribe" -> [i \in {3} |-> 0]
                      [] c.native = "mqtt_publish"   -> [i \in {4, 5} |-> 0]
                      [] OTHER -> <<>>
    IN [i \in DOMAIN c.params |->
           IF i > c.count /\ i \in DOMAIN defaults THEN defaults[i] ELSE c.params[i]]

Required == [mqtt_connect |-> 2, mqtt_disconnect |-> 1, mqtt_subscribe |-> 2,
             mqtt_unsubscribe |-> 2, mqtt_publish |-> 3]

\* The request that a call stands for, and whether it may be made.
Meant(c) ==
    LET p == Completed(c) IN
    CASE c.native = "mqtt_connect" ->
            [op |-> "connect", client |-> p[1], options |-> options[p[2]]]
      [] c.native = "mqtt_disconnect" -> [op |-> "disconnect", client |-> p[1]]
      [] c.native = "mqtt_subscribe" ->
            [op |-> "subscribe", client |-> p[1], topic |-> p[2], qos |-> p[3]]
      [] c.native = "mqtt_unsubscribe" ->
            [op |-> "unsubscribe", client |-> p[1], topic |-> p[2]]
      [] c.native = "mqtt_publish" ->
            [op |-> "publish", client |-> p[1], topic |-> p[2], data |-> p[3],
             retained |-> p[4] = 1, qos |-> p[5]]

Legal(c) ==
    LET p == Completed(c) IN
    /\ c.count >= Required[c.native]
    /\ p[1] \in DOMAIN clients
    /\ c.native = "mqtt_connect" => p[2] \in DOMAIN options
    /\ c.native \in {"mqtt_subscribe", "mqtt_unsubscribe", "mqtt_publish"} => p[2] # ""
    /\ c.native = "mqtt_subscribe" => p[3] \in 0..2
    /\ c.native = "mqtt_publish" => p[5] \in 0..2

\* Whatever lies behind the arguments of an old plugin, a call asks Paho for
\* exactly what the same call with the defaults of MqttClient.inc means, if
\* that is legal and Paho does not throw, and for nothing otherwise.
RequestsAsDocumented ==
    [][call'.native \in DOMAIN Required =>
           IF Legal(call')
           THEN reply'.error = "exception" \/ reply'.request = Meant(call')
           ELSE reply'.error # "none" /\ reply'.request = NoRequest]_vars

\* A call that reports an error leaves every client, callback and option as it
\* was; only a connect that Paho refuses consumes its options.
FailedCallChangesNothing ==
    [][call' # Nothing /\ reply'.error # "none" =>
           /\ UNCHANGED <<clients, nextHandle>>
           /\ options' = IF call'.native = "mqtt_connect" /\ reply'.error = "exception"
                         THEN Without(options, call'.params[2]) ELSE options]_vars

\* What ExecuteCallback passes to the forward of each kind.
Passed == [connected |-> <<"cell">>, message |-> <<"cell", "string", "string">>,
           connectionLost |-> <<"cell", "string">>, disconnected |-> <<"cell", "cell">>]

\* A forward is run with the parameters it was registered with: natives.cpp
\* registers it and CallbackDispatcher.cpp runs it, and nothing but a plugin's
\* crash would tell that they differ.
ForwardsFit ==
    \A h \in DOMAIN clients, k \in Kinds : clients[h][k] \in {NoForward, Passed[k]}
=============================================================================
