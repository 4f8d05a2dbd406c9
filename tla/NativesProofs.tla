--------------------------- MODULE NativesProofs ---------------------------
(***************************************************************************)
(* Theorems about the natives for every number of clients, indices and     *)
(* callbacks.                                                              *)
(*                                                                         *)
(* Every native is a list of checks and an attempt.  The first lemmas say  *)
(* what a list of checks lets through; then each theorem has one lemma for *)
(* each native, or for each group that needs the same argument.            *)
(***************************************************************************)
EXTENDS Natives, WellFoundedInduction, TLAPS

LEMMA LeastElement ==
    ASSUME NEW S \in SUBSET Nat, S # {}
    PROVE  \E n \in S : \A m \in S : n <= m
  <1> DEFINE R == OpToRel(<, Nat)
  <1>1. PICK n \in S : \A m \in S : ~(<<m, n>> \in R)
    <2>1. IsWellFoundedOn(R, Nat)
      BY NatLessThanWellFounded
    <2> HIDE DEF R
    <2> QED  BY <2>1, WFMin
  <1>2. \A m \in S : <<m, n>> \in R <=> m < n
    BY DEF OpToRel
  <1> HIDE DEF R
  <1>3. \A m \in S : ~(m < n)
    BY <1>1, <1>2
  <1> QED  BY <1>3

-----------------------------------------------------------------------------
(* The checks.                                                             *)

Errors == {"arguments", "client", "options", "topic", "qos", "name"}

\* The first check that fails is reported, and none if none fails.
LEMMA FirstErrorIsAnError ==
    ASSUME NEW k \in Nat, NEW checks, DOMAIN checks = 1..k,
           \A i \in 1..k : checks[i].error \in Errors
    PROVE  IF \A i \in 1..k : ~checks[i].fails
           THEN FirstError(checks) = "none"
           ELSE FirstError(checks) \in Errors
  <1> DEFINE failed == {i \in DOMAIN checks : checks[i].fails}
  <1>1. failed \in SUBSET Nat
    OBVIOUS
  <1>2. CASE failed = {}
    BY <1>2 DEF FirstError
  <1>3. CASE failed # {}
    <2> DEFINE First(i) == \A j \in failed : i <= j
    <2>1. \E i \in failed : First(i)
      <3> HIDE DEF failed
      <3> QED  BY <1>1, <1>3, LeastElement
    <2>2. FirstError(checks) = checks[CHOOSE i \in failed : First(i)].error
      BY <1>3 DEF FirstError
    <2> HIDE DEF First
    <2>3. (CHOOSE i \in failed : First(i)) \in 1..k
      BY <2>1
    <2>4. FirstError(checks) \in Errors
      <3> HIDE DEF failed
      <3> QED  BY <2>2, <2>3
    <2> QED  BY <1>3, <2>4
  <1> QED  BY <1>2, <1>3

\* The fields of a check.
LEMMA CheckFields ==
    ASSUME NEW a \in BOOLEAN, NEW e \in Errors
    PROVE  (Check(a, e).fails <=> a) /\ Check(a, e).error \in Errors
  BY DEF Check

LEMMA OneCheck ==
    ASSUME NEW a \in BOOLEAN,
           NEW e1 \in Errors
    PROVE  IF ~a
           THEN FirstError(<<Check(a, e1)>>) = "none"
           ELSE FirstError(<<Check(a, e1)>>) \in Errors
  <1> DEFINE checks == <<Check(a, e1)>>
             P(i) == ~checks[i].fails
             Q(i) == checks[i].error \in Errors
  <1>1. DOMAIN checks = 1..1
    OBVIOUS
  <1>2. (P(1) <=> ~a) /\ Q(1)
    <2>1. checks[1] = Check(a, e1)
      OBVIOUS
    <2> HIDE DEF checks
    <2> QED  BY <2>1, CheckFields
  <1> HIDE DEF P, Q
  <1>3. (\A i \in 1..1 : P(i)) <=> P(1)
    OBVIOUS
  <1>4. \A i \in 1..1 : Q(i)
    BY <1>2
  <1>5. IF \A i \in 1..1 : P(i)
        THEN FirstError(checks) = "none" ELSE FirstError(checks) \in Errors
    <2> HIDE DEF checks
    <2> QED  BY <1>1, <1>4, FirstErrorIsAnError DEF P, Q
  <1> HIDE DEF checks
  <1>6. IF ~a THEN FirstError(checks) = "none" ELSE FirstError(checks) \in Errors
    BY <1>2, <1>3, <1>5
  <1> QED  BY <1>6 DEF checks

LEMMA TwoChecks ==
    ASSUME NEW a \in BOOLEAN, NEW b \in BOOLEAN,
           NEW e1 \in Errors, NEW e2 \in Errors
    PROVE  IF ~a /\ ~b
           THEN FirstError(<<Check(a, e1), Check(b, e2)>>) = "none"
           ELSE FirstError(<<Check(a, e1), Check(b, e2)>>) \in Errors
  <1> DEFINE checks == <<Check(a, e1), Check(b, e2)>>
             P(i) == ~checks[i].fails
             Q(i) == checks[i].error \in Errors
  <1>1. DOMAIN checks = 1..2
    OBVIOUS
  <1>2. (P(1) <=> ~a) /\ Q(1)
    <2>1. checks[1] = Check(a, e1)
      OBVIOUS
    <2> HIDE DEF checks
    <2> QED  BY <2>1, CheckFields
  <1>3. (P(2) <=> ~b) /\ Q(2)
    <2>1. checks[2] = Check(b, e2)
      OBVIOUS
    <2> HIDE DEF checks
    <2> QED  BY <2>1, CheckFields
  <1> HIDE DEF P, Q
  <1>4. (\A i \in 1..2 : P(i)) <=> P(1) /\ P(2)
    OBVIOUS
  <1>5. \A i \in 1..2 : Q(i)
    BY <1>2, <1>3
  <1>6. IF \A i \in 1..2 : P(i)
        THEN FirstError(checks) = "none" ELSE FirstError(checks) \in Errors
    <2> HIDE DEF checks
    <2> QED  BY <1>1, <1>5, FirstErrorIsAnError DEF P, Q
  <1> HIDE DEF checks
  <1>7. IF ~a /\ ~b THEN FirstError(checks) = "none" ELSE FirstError(checks) \in Errors
    BY <1>2, <1>3, <1>4, <1>6
  <1> QED  BY <1>7 DEF checks

LEMMA ThreeChecks ==
    ASSUME NEW a \in BOOLEAN, NEW b \in BOOLEAN, NEW c \in BOOLEAN,
           NEW e1 \in Errors, NEW e2 \in Errors, NEW e3 \in Errors
    PROVE  IF ~a /\ ~b /\ ~c
           THEN FirstError(<<Check(a, e1), Check(b, e2), Check(c, e3)>>) = "none"
           ELSE FirstError(<<Check(a, e1), Check(b, e2), Check(c, e3)>>) \in Errors
  <1> DEFINE checks == <<Check(a, e1), Check(b, e2), Check(c, e3)>>
             P(i) == ~checks[i].fails
             Q(i) == checks[i].error \in Errors
  <1>1. DOMAIN checks = 1..3
    OBVIOUS
  <1>2. (P(1) <=> ~a) /\ Q(1)
    <2>1. checks[1] = Check(a, e1)
      OBVIOUS
    <2> HIDE DEF checks
    <2> QED  BY <2>1, CheckFields
  <1>3. (P(2) <=> ~b) /\ Q(2)
    <2>1. checks[2] = Check(b, e2)
      OBVIOUS
    <2> HIDE DEF checks
    <2> QED  BY <2>1, CheckFields
  <1>4. (P(3) <=> ~c) /\ Q(3)
    <2>1. checks[3] = Check(c, e3)
      OBVIOUS
    <2> HIDE DEF checks
    <2> QED  BY <2>1, CheckFields
  <1> HIDE DEF P, Q
  <1>5. (\A i \in 1..3 : P(i)) <=> P(1) /\ P(2) /\ P(3)
    OBVIOUS
  <1>6. \A i \in 1..3 : Q(i)
    BY <1>2, <1>3, <1>4
  <1>7. IF \A i \in 1..3 : P(i)
        THEN FirstError(checks) = "none" ELSE FirstError(checks) \in Errors
    <2> HIDE DEF checks
    <2> QED  BY <1>1, <1>6, FirstErrorIsAnError DEF P, Q
  <1> HIDE DEF checks
  <1>8. IF ~a /\ ~b /\ ~c THEN FirstError(checks) = "none" ELSE FirstError(checks) \in Errors
    BY <1>2, <1>3, <1>4, <1>5, <1>7
  <1> QED  BY <1>8 DEF checks

LEMMA FourChecks ==
    ASSUME NEW a \in BOOLEAN, NEW b \in BOOLEAN, NEW c \in BOOLEAN, NEW d \in BOOLEAN,
           NEW e1 \in Errors, NEW e2 \in Errors, NEW e3 \in Errors, NEW e4 \in Errors
    PROVE  IF ~a /\ ~b /\ ~c /\ ~d
           THEN FirstError(<<Check(a, e1), Check(b, e2), Check(c, e3), Check(d, e4)>>) = "none"
           ELSE FirstError(<<Check(a, e1), Check(b, e2), Check(c, e3), Check(d, e4)>>) \in Errors
  <1> DEFINE checks == <<Check(a, e1), Check(b, e2), Check(c, e3), Check(d, e4)>>
             P(i) == ~checks[i].fails
             Q(i) == checks[i].error \in Errors
  <1>1. DOMAIN checks = 1..4
    OBVIOUS
  <1>2. (P(1) <=> ~a) /\ Q(1)
    <2>1. checks[1] = Check(a, e1)
      OBVIOUS
    <2> HIDE DEF checks
    <2> QED  BY <2>1, CheckFields
  <1>3. (P(2) <=> ~b) /\ Q(2)
    <2>1. checks[2] = Check(b, e2)
      OBVIOUS
    <2> HIDE DEF checks
    <2> QED  BY <2>1, CheckFields
  <1>4. (P(3) <=> ~c) /\ Q(3)
    <2>1. checks[3] = Check(c, e3)
      OBVIOUS
    <2> HIDE DEF checks
    <2> QED  BY <2>1, CheckFields
  <1>5. (P(4) <=> ~d) /\ Q(4)
    <2>1. checks[4] = Check(d, e4)
      OBVIOUS
    <2> HIDE DEF checks
    <2> QED  BY <2>1, CheckFields
  <1> HIDE DEF P, Q
  <1>6. (\A i \in 1..4 : P(i)) <=> P(1) /\ P(2) /\ P(3) /\ P(4)
    OBVIOUS
  <1>7. \A i \in 1..4 : Q(i)
    BY <1>2, <1>3, <1>4, <1>5
  <1>8. IF \A i \in 1..4 : P(i)
        THEN FirstError(checks) = "none" ELSE FirstError(checks) \in Errors
    <2> HIDE DEF checks
    <2> QED  BY <1>1, <1>7, FirstErrorIsAnError DEF P, Q
  <1> HIDE DEF checks
  <1>9. IF ~a /\ ~b /\ ~c /\ ~d THEN FirstError(checks) = "none" ELSE FirstError(checks) \in Errors
    BY <1>2, <1>3, <1>4, <1>5, <1>6, <1>8
  <1> QED  BY <1>9 DEF checks

-----------------------------------------------------------------------------
(* Requests: what each native asks of Paho, and what it was told.          *)

\* The cells that the include file of today would have passed for a publish.
LEMMA PublishCompleted ==
    ASSUME NEW n \in Int, NEW h, NEW topic, NEW data, NEW flag, NEW cell,
           NEW c, c = [native |-> "mqtt_publish", count |-> n,
                       params |-> <<h, topic, data, flag, cell>>]
    PROVE  /\ Completed(c)[1] = h
           /\ Completed(c)[2] = topic
           /\ Completed(c)[3] = data
           /\ Completed(c)[4] = Optional(n, 4, flag, 0)
           /\ Completed(c)[5] = Optional(n, 5, cell, 0)
  <1> DEFINE defaults == [i \in {4, 5} |-> 0]
  <1>1. Completed(c) = [i \in 1..5 |-> IF i > n /\ i \in {4, 5} THEN 0
                                       ELSE <<h, topic, data, flag, cell>>[i]]
    BY DEF Completed
  <1> QED  BY <1>1 DEF Optional

LEMMA SubscribeCompleted ==
    ASSUME NEW n \in Int, NEW h, NEW topic, NEW cell,
           NEW c, c = [native |-> "mqtt_subscribe", count |-> n, params |-> <<h, topic, cell>>]
    PROVE  /\ Completed(c)[1] = h
           /\ Completed(c)[2] = topic
           /\ Completed(c)[3] = Optional(n, 3, cell, 0)
  <1>1. Completed(c) = [i \in 1..3 |-> IF i > n /\ i \in {3} THEN 0
                                       ELSE <<h, topic, cell>>[i]]
    BY DEF Completed
  <1> QED  BY <1>1 DEF Optional

\* What RequestsAsDocumented says of a step.
Documented ==
    call'.native \in DOMAIN Required =>
        IF Legal(call')
        THEN reply'.error = "exception" \/ reply'.request = Meant(call')
        ELSE reply'.error # "none" /\ reply'.request = NoRequest

LEMMA PublishDocumented ==
    ASSUME NEW n \in Int, NEW h, NEW topic, NEW data, NEW flag \in Flags, NEW cell \in QosCells,
           mqtt_publish(n, h, topic, data, flag, cell)
    PROVE  Documented
  <1> DEFINE c        == [native |-> "mqtt_publish", count |-> n,
                          params |-> <<h, topic, data, flag, cell>>]
             retained == Optional(n, 4, flag # 0, FALSE)
             qos      == Optional(n, 5, cell, 0)
             a1       == n < 3
             a2       == h \notin DOMAIN clients
             a3       == topic = ""
             a4       == qos < 0 \/ qos > 2
             error    == FirstError(<<TooFew(n, 3), NoClient(h), EmptyTopic(topic), BadQos(qos)>>)
             request  == [op |-> "publish", client |-> h, topic |-> topic, data |-> data,
                          retained |-> retained, qos |-> qos]
  <1>1. /\ call' = c
        /\ IF error = "none" THEN Submit(request) ELSE Fails(error)
    BY DEF mqtt_publish, Native
  <1>2. IF ~a1 /\ ~a2 /\ ~a3 /\ ~a4 THEN error = "none" ELSE error \in Errors
    <2>1. error = FirstError(<<Check(a1, "arguments"), Check(a2, "client"),
                               Check(a3, "topic"), Check(a4, "qos")>>)
      BY DEF TooFew, NoClient, EmptyTopic, BadQos
    <2>2. a1 \in BOOLEAN /\ a2 \in BOOLEAN /\ a3 \in BOOLEAN /\ a4 \in BOOLEAN
      OBVIOUS
    <2>3. /\ "arguments" \in Errors /\ "client" \in Errors
          /\ "topic" \in Errors /\ "qos" \in Errors
      BY DEF Errors
    <2> HIDE DEF a1, a2, a3, a4, error
    <2> QED  BY <2>1, <2>2, <2>3, FourChecks
  <1>3. /\ Completed(c)[1] = h
        /\ Completed(c)[2] = topic
        /\ Completed(c)[3] = data
        /\ Completed(c)[4] = Optional(n, 4, flag, 0)
        /\ Completed(c)[5] = qos
    BY PublishCompleted
  <1>4. qos \in Int
    BY DEF Optional, QosCells
  <1>5. retained <=> Optional(n, 4, flag, 0) = 1
    BY DEF Optional, Flags
  <1>6. retained \in BOOLEAN
    BY DEF Optional
  <1>7. Legal(c) <=> ~a1 /\ ~a2 /\ ~a3 /\ ~a4
    <2>1. Legal(c) <=> n >= 3 /\ h \in DOMAIN clients /\ topic # "" /\ qos \in 0..2
      <3> HIDE DEF qos
      <3> QED  BY <1>3 DEF Legal, Required
    <2>2. n >= 3 <=> ~a1
      OBVIOUS
    <2>3. qos \in 0..2 <=> ~a4
      <3> HIDE DEF qos
      <3> QED  BY <1>4
    <2>4. (h \in DOMAIN clients <=> ~a2) /\ (topic # "" <=> ~a3)
      OBVIOUS
    <2> HIDE DEF a1, a2, a3, a4, c, qos
    <2> QED  BY <2>1, <2>2, <2>3, <2>4, Zenon
  <1>8. Meant(c) = [request EXCEPT !.retained = (Optional(n, 4, flag, 0) = 1)]
    <2> HIDE DEF qos
    <2> QED  BY <1>3 DEF Meant
  <1>9. Meant(c) = request
    <2> HIDE DEF qos, retained
    <2> QED  BY <1>5, <1>6, <1>8
  <1> HIDE DEF a1, a2, a3, a4, error, request, c
  <1>10. IF Legal(c) THEN reply'.error = "exception" \/ reply'.request = Meant(c)
                     ELSE reply'.error # "none" /\ reply'.request = NoRequest
    <2>1. CASE error = "none"
      <3>1. Legal(c)
        BY <1>2, <1>7, <2>1 DEF Errors
      <3>2. Submit(request)
        BY <1>1, <2>1
      <3> QED  BY <1>9, <3>1, <3>2 DEF Submit, Reply, Fails
    <2>2. CASE error # "none"
      <3>1. ~Legal(c)
        BY <1>2, <1>7, <2>2
      <3> QED  BY <1>1, <2>2, <3>1 DEF Fails, Reply
    <2> QED  BY <2>1, <2>2
  <1> QED  BY <1>1, <1>10 DEF Documented

LEMMA SubscribeDocumented ==
    ASSUME NEW n \in Int, NEW h, NEW topic, NEW cell \in QosCells,
           mqtt_subscribe(n, h, topic, cell)
    PROVE  Documented
  <1> DEFINE c       == [native |-> "mqtt_subscribe", count |-> n, params |-> <<h, topic, cell>>]
             qos     == Optional(n, 3, cell, 0)
             a1      == n < 2
             a2      == h \notin DOMAIN clients
             a3      == topic = ""
             a4      == qos < 0 \/ qos > 2
             error   == FirstError(<<TooFew(n, 2), NoClient(h), EmptyTopic(topic), BadQos(qos)>>)
             request == [op |-> "subscribe", client |-> h, topic |-> topic, qos |-> qos]
  <1>1. /\ call' = c
        /\ IF error = "none" THEN Submit(request) ELSE Fails(error)
    BY DEF mqtt_subscribe, Native
  <1>2. IF ~a1 /\ ~a2 /\ ~a3 /\ ~a4 THEN error = "none" ELSE error \in Errors
    <2>1. error = FirstError(<<Check(a1, "arguments"), Check(a2, "client"),
                               Check(a3, "topic"), Check(a4, "qos")>>)
      BY DEF TooFew, NoClient, EmptyTopic, BadQos
    <2>2. a1 \in BOOLEAN /\ a2 \in BOOLEAN /\ a3 \in BOOLEAN /\ a4 \in BOOLEAN
      OBVIOUS
    <2>3. /\ "arguments" \in Errors /\ "client" \in Errors
          /\ "topic" \in Errors /\ "qos" \in Errors
      BY DEF Errors
    <2> HIDE DEF a1, a2, a3, a4, error
    <2> QED  BY <2>1, <2>2, <2>3, FourChecks
  <1>3. /\ Completed(c)[1] = h
        /\ Completed(c)[2] = topic
        /\ Completed(c)[3] = qos
    BY SubscribeCompleted
  <1>4. qos \in Int
    BY DEF Optional, QosCells
  <1>5. Legal(c) <=> ~a1 /\ ~a2 /\ ~a3 /\ ~a4
    <2>1. Legal(c) <=> n >= 2 /\ h \in DOMAIN clients /\ topic # "" /\ qos \in 0..2
      <3> HIDE DEF qos
      <3> QED  BY <1>3 DEF Legal, Required
    <2>2. n >= 2 <=> ~a1
      OBVIOUS
    <2>3. qos \in 0..2 <=> ~a4
      <3> HIDE DEF qos
      <3> QED  BY <1>4
    <2>4. (h \in DOMAIN clients <=> ~a2) /\ (topic # "" <=> ~a3)
      OBVIOUS
    <2> HIDE DEF a1, a2, a3, a4, c, qos
    <2> QED  BY <2>1, <2>2, <2>3, <2>4, Zenon
  <1>6. Meant(c) = request
    <2> HIDE DEF qos
    <2> QED  BY <1>3 DEF Meant
  <1> HIDE DEF a1, a2, a3, a4, error, request, c
  <1>7. CASE error = "none"
    <2>1. Legal(c) /\ Submit(request)
      BY <1>1, <1>2, <1>5, <1>7 DEF Errors
    <2> QED  BY <1>1, <1>6, <2>1 DEF Submit, Reply, Fails, Documented
  <1>8. CASE error # "none"
    <2>1. ~Legal(c)
      BY <1>2, <1>5, <1>8
    <2> QED  BY <1>1, <1>8, <2>1 DEF Fails, Reply, Documented
  <1> QED  BY <1>7, <1>8

LEMMA UnsubscribeDocumented ==
    ASSUME NEW n \in Int, NEW h, NEW topic, mqtt_unsubscribe(n, h, topic)
    PROVE  Documented
  <1> DEFINE c       == [native |-> "mqtt_unsubscribe", count |-> n, params |-> <<h, topic>>]
             a1      == n < 2
             a2      == h \notin DOMAIN clients
             a3      == topic = ""
             error   == FirstError(<<TooFew(n, 2), NoClient(h), EmptyTopic(topic)>>)
             request == [op |-> "unsubscribe", client |-> h, topic |-> topic]
  <1>1. /\ call' = c
        /\ IF error = "none" THEN Submit(request) ELSE Fails(error)
    BY DEF mqtt_unsubscribe, Native
  <1>2. IF ~a1 /\ ~a2 /\ ~a3 THEN error = "none" ELSE error \in Errors
    <2>1. error = FirstError(<<Check(a1, "arguments"), Check(a2, "client"), Check(a3, "topic")>>)
      BY DEF TooFew, NoClient, EmptyTopic
    <2>2. a1 \in BOOLEAN /\ a2 \in BOOLEAN /\ a3 \in BOOLEAN
      OBVIOUS
    <2>3. "arguments" \in Errors /\ "client" \in Errors /\ "topic" \in Errors
      BY DEF Errors
    <2> HIDE DEF a1, a2, a3, error
    <2> QED  BY <2>1, <2>2, <2>3, ThreeChecks
  <1>3. Completed(c)[1] = h /\ Completed(c)[2] = topic
    <2>1. Completed(c) = [i \in 1..2 |-> <<h, topic>>[i]]
      BY DEF Completed
    <2> QED  BY <2>1
  <1>4. Legal(c) <=> ~a1 /\ ~a2 /\ ~a3
    <2>1. Legal(c) <=> n >= 2 /\ h \in DOMAIN clients /\ topic # ""
      BY <1>3 DEF Legal, Required
    <2>2. n >= 2 <=> ~a1
      OBVIOUS
    <2>3. (h \in DOMAIN clients <=> ~a2) /\ (topic # "" <=> ~a3)
      OBVIOUS
    <2> HIDE DEF a1, a2, a3, c
    <2> QED  BY <2>1, <2>2, <2>3, Zenon
  <1>5. Meant(c) = request
    BY <1>3 DEF Meant
  <1> HIDE DEF a1, a2, a3, error, request, c
  <1>6. CASE error = "none"
    <2>1. Legal(c) /\ Submit(request)
      BY <1>1, <1>2, <1>4, <1>6 DEF Errors
    <2> QED  BY <1>1, <1>5, <2>1 DEF Submit, Reply, Fails, Documented
  <1>7. CASE error # "none"
    <2>1. ~Legal(c)
      BY <1>2, <1>4, <1>7
    <2> QED  BY <1>1, <1>7, <2>1 DEF Fails, Reply, Documented
  <1> QED  BY <1>6, <1>7

\* What the checks of a connect let through, which two theorems need.
LEMMA ConnectChecks ==
    ASSUME NEW n \in Int, NEW h, NEW i
    PROVE  LET error == FirstError(<<TooFew(n, 2), NoClient(h), NoOptions(i)>>)
           IN  IF n >= 2 /\ h \in DOMAIN clients /\ i \in DOMAIN options
               THEN error = "none" ELSE error \in Errors
  <1> DEFINE a1    == n < 2
             a2    == h \notin DOMAIN clients
             a3    == i \notin DOMAIN options
             error == FirstError(<<TooFew(n, 2), NoClient(h), NoOptions(i)>>)
  <1>1. error = FirstError(<<Check(a1, "arguments"), Check(a2, "client"), Check(a3, "options")>>)
    BY DEF TooFew, NoClient, NoOptions
  <1>2. a1 \in BOOLEAN /\ a2 \in BOOLEAN /\ a3 \in BOOLEAN
    OBVIOUS
  <1>3. "arguments" \in Errors /\ "client" \in Errors /\ "options" \in Errors
    BY DEF Errors
  <1>4. IF ~a1 /\ ~a2 /\ ~a3 THEN error = "none" ELSE error \in Errors
    <2> HIDE DEF a1, a2, a3, error
    <2> QED  BY <1>1, <1>2, <1>3, ThreeChecks
  <1>5. n >= 2 <=> ~a1
    OBVIOUS
  <1>6. (h \in DOMAIN clients <=> ~a2) /\ (i \in DOMAIN options <=> ~a3)
    OBVIOUS
  <1>7. IF n >= 2 /\ h \in DOMAIN clients /\ i \in DOMAIN options
        THEN error = "none" ELSE error \in Errors
    <2> HIDE DEF a1, a2, a3, error
    <2> QED  BY <1>4, <1>5, <1>6
  <1> QED  BY <1>7

LEMMA ConnectDocumented ==
    ASSUME NEW n \in Int, NEW h, NEW i, mqtt_connect(n, h, i)
    PROVE  Documented
  <1> DEFINE c       == [native |-> "mqtt_connect", count |-> n, params |-> <<h, i>>]
             error   == FirstError(<<TooFew(n, 2), NoClient(h), NoOptions(i)>>)
             request == [op |-> "connect", client |-> h, options |-> options[i]]
  <1>1. /\ call' = c
        /\ IF error = "none"
           THEN \/ Reply("none", 1, request)
                \/ Reply("exception", 0, NoRequest)
           ELSE Fails(error)
    BY DEF mqtt_connect, Native
  <1>2. IF n >= 2 /\ h \in DOMAIN clients /\ i \in DOMAIN options
        THEN error = "none" ELSE error \in Errors
    BY ConnectChecks
  <1>3. Completed(c)[1] = h /\ Completed(c)[2] = i
    <2>1. Completed(c) = [j \in 1..2 |-> <<h, i>>[j]]
      BY DEF Completed
    <2> QED  BY <2>1
  <1>4. Legal(c) <=> n >= 2 /\ h \in DOMAIN clients /\ i \in DOMAIN options
    BY <1>3 DEF Legal, Required
  <1>5. Meant(c) = request
    BY <1>3 DEF Meant
  <1> HIDE DEF error, request, c
  <1>6. CASE error = "none"
    <2>1. Legal(c)
      BY <1>2, <1>4, <1>6 DEF Errors
    <2> QED  BY <1>1, <1>5, <1>6, <2>1 DEF Reply, Documented
  <1>7. CASE error # "none"
    <2>1. ~Legal(c)
      BY <1>2, <1>4, <1>7
    <2> QED  BY <1>1, <1>7, <2>1 DEF Fails, Reply, Documented
  <1> QED  BY <1>6, <1>7

LEMMA DisconnectDocumented ==
    ASSUME NEW n \in Int, NEW h, mqtt_disconnect(n, h)
    PROVE  Documented
  <1> DEFINE c       == [native |-> "mqtt_disconnect", count |-> n, params |-> <<h>>]
             a1      == n < 1
             a2      == h \notin DOMAIN clients
             error   == FirstError(<<TooFew(n, 1), NoClient(h)>>)
             request == [op |-> "disconnect", client |-> h]
  <1>1. /\ call' = c
        /\ IF error = "none" THEN Reply("none", 1, request) ELSE Fails(error)
    BY DEF mqtt_disconnect, Native
  <1>2. IF ~a1 /\ ~a2 THEN error = "none" ELSE error \in Errors
    <2>1. error = FirstError(<<Check(a1, "arguments"), Check(a2, "client")>>)
      BY DEF TooFew, NoClient
    <2>2. a1 \in BOOLEAN /\ a2 \in BOOLEAN
      OBVIOUS
    <2>3. "arguments" \in Errors /\ "client" \in Errors
      BY DEF Errors
    <2> HIDE DEF a1, a2, error
    <2> QED  BY <2>1, <2>2, <2>3, TwoChecks
  <1>3. Completed(c)[1] = h
    <2>1. Completed(c) = [j \in 1..1 |-> <<h>>[j]]
      BY DEF Completed
    <2> QED  BY <2>1
  <1>4. Legal(c) <=> ~a1 /\ ~a2
    <2>1. Legal(c) <=> n >= 1 /\ h \in DOMAIN clients
      BY <1>3 DEF Legal, Required
    <2>2. n >= 1 <=> ~a1
      OBVIOUS
    <2>3. h \in DOMAIN clients <=> ~a2
      OBVIOUS
    <2> HIDE DEF a1, a2, c
    <2> QED  BY <2>1, <2>2, <2>3, Zenon
  <1>5. Meant(c) = request
    BY <1>3 DEF Meant
  <1> HIDE DEF a1, a2, error, request, c
  <1>6. CASE error = "none"
    <2>1. Legal(c)
      BY <1>2, <1>4, <1>6 DEF Errors
    <2> QED  BY <1>1, <1>5, <1>6, <2>1 DEF Reply, Documented
  <1>7. CASE error # "none"
    <2>1. ~Legal(c)
      BY <1>2, <1>4, <1>7
    <2> QED  BY <1>1, <1>7, <2>1 DEF Fails, Reply, Documented
  <1> QED  BY <1>6, <1>7

\* The other natives ask Paho for nothing.
LEMMA OtherCallsDocumented ==
    ASSUME call'.native \notin {"mqtt_connect", "mqtt_disconnect", "mqtt_subscribe",
                                "mqtt_unsubscribe", "mqtt_publish"}
    PROVE  Documented
  <1>1. DOMAIN Required = {"mqtt_connect", "mqtt_disconnect", "mqtt_subscribe",
                           "mqtt_unsubscribe", "mqtt_publish"}
    BY DEF Required
  <1> QED  BY <1>1 DEF Documented

\* RequestsAsDocumented (natives.cpp against MqttClient.inc): the cells that an
\* old plugin did not pass never reach Paho, every request is the one that the
\* include file describes, and an illegal call asks for nothing.
THEOREM OldPluginsAsDocumented == Spec => RequestsAsDocumented
  <1>1. [Next]_vars => [Documented]_vars
    <2> SUFFICES ASSUME Next PROVE Documented
      OBVIOUS
    <2>1. ASSUME NEW n \in Int, NEW h,
                 mqtt_create(n) \/ mqtt_destroy(n, h) \/ mqtt_is_connect(n, h)
          PROVE  Documented
      <3>1. call'.native \in {"mqtt_create", "mqtt_destroy", "mqtt_is_connect"}
        BY <2>1 DEF mqtt_create, mqtt_destroy, mqtt_is_connect, Native
      <3> QED  BY <3>1, OtherCallsDocumented
    <2>2. ASSUME ClientNatives PROVE Documented
      <3>1. PICK n \in Int :
                \/ mqtt_create(n)
                \/ \E h \in Handles :
                       \/ mqtt_destroy(n, h)
                       \/ \E i \in Indices : mqtt_connect(n, h, i)
                       \/ mqtt_disconnect(n, h)
                       \/ mqtt_is_connect(n, h)
        BY <2>2 DEF ClientNatives
      <3> QED  BY <2>1, <3>1, ConnectDocumented, DisconnectDocumented
    <2>3. ASSUME TopicNatives PROVE Documented
      <3>1. 0..3 \subseteq Int /\ 0..2 \subseteq Int /\ 0..5 \subseteq Int
        OBVIOUS
      <3> QED
        BY <2>3, <3>1, PublishDocumented, SubscribeDocumented, UnsubscribeDocumented
        DEF TopicNatives
    <2>4. ASSUME CallbackNatives PROVE Documented
      <3>1. call'.native = "mqtt_set_callback"
        BY <2>4 DEF CallbackNatives, mqtt_set_callback, Native
      <3> QED  BY <3>1, OtherCallsDocumented
    <2>5. ASSUME OptionNatives PROVE Documented
      <3>1. call'.native \in {"mqtt_create_connect_options", "mqtt_set_options"}
        <4>1. ASSUME mqtt_create_connect_options(0) PROVE call'.native = "mqtt_create_connect_options"
          BY <4>1 DEF mqtt_create_connect_options, Native
        <4>2. ASSUME NEW n, NEW i, NEW name, NEW text, NEW number,
                     mqtt_set_options(n, i, name, text, number)
              PROVE  call'.native = "mqtt_set_options"
          BY <4>2 DEF mqtt_set_options, Native
        <4> QED  BY <2>5, <4>1, <4>2 DEF OptionNatives
      <3> QED  BY <3>1, OtherCallsDocumented
    <2>6. ASSUME Return PROVE Documented
      <3>1. call'.native = "none"
        BY <2>6 DEF Return, Nothing
      <3> QED  BY <3>1, OtherCallsDocumented
    <2> QED  BY <2>2, <2>3, <2>4, <2>5, <2>6 DEF Next
  <1>2. [Documented]_vars => [call'.native \in DOMAIN Required =>
                                 IF Legal(call')
                                 THEN reply'.error = "exception" \/ reply'.request = Meant(call')
                                 ELSE reply'.error # "none" /\ reply'.request = NoRequest]_vars
    BY DEF Documented
  <1> QED  BY <1>1, <1>2, PTL DEF Spec, RequestsAsDocumented

-----------------------------------------------------------------------------
(* Failures.                                                               *)

\* What FailedCallChangesNothing says of a step.
Kept ==
    call' # Nothing /\ reply'.error # "none" =>
        /\ UNCHANGED <<clients, nextHandle>>
        /\ options' = IF call'.native = "mqtt_connect" /\ reply'.error = "exception"
                      THEN Without(options, call'.params[2]) ELSE options

LEMMA ErrorsDiffer == "none" \notin Errors /\ "exception" \notin Errors
  BY DEF Errors

LEMMA SucceedsOrKeeps ==
    ASSUME call'.native # "mqtt_connect", UNCHANGED stored \/ reply'.error = "none"
    PROVE  Kept
  BY DEF Kept, stored

LEMMA ConnectKeeps ==
    ASSUME NEW n \in Int, NEW h, NEW i, mqtt_connect(n, h, i)
    PROVE  Kept
  <1> DEFINE c     == [native |-> "mqtt_connect", count |-> n, params |-> <<h, i>>]
             error == FirstError(<<TooFew(n, 2), NoClient(h), NoOptions(i)>>)
  <1>1. /\ call' = c
        /\ IF error = "none"
           THEN /\ UNCHANGED <<clients, nextHandle>>
                /\ options' = Without(options, i)
                /\ reply'.error \in {"none", "exception"}
           ELSE Fails(error)
    BY DEF mqtt_connect, Native, Reply
  <1>2. error # "exception"
    BY ConnectChecks DEF Errors
  <1>3. c.native = "mqtt_connect" /\ c.params[2] = i
    OBVIOUS
  <1> HIDE DEF c, error
  <1> QED  BY <1>1, <1>2, <1>3 DEF Kept, Fails, Reply, stored

LEMMA ClientNativesKeep ==
    ASSUME NEW n \in Int, NEW h,
           mqtt_create(n) \/ mqtt_destroy(n, h) \/ mqtt_disconnect(n, h) \/ mqtt_is_connect(n, h)
    PROVE  Kept
  <1>1. call'.native \in {"mqtt_create", "mqtt_destroy", "mqtt_disconnect", "mqtt_is_connect"}
    BY DEF mqtt_create, mqtt_destroy, mqtt_disconnect, mqtt_is_connect, Native
  <1>2. CASE mqtt_create(n)
    BY <1>1, <1>2, SucceedsOrKeeps DEF mqtt_create, Native, Fails, Returns, Reply
  <1>3. CASE mqtt_destroy(n, h)
    BY <1>1, <1>3, SucceedsOrKeeps DEF mqtt_destroy, Native, Fails, Returns, Reply
  <1>4. CASE mqtt_disconnect(n, h)
    BY <1>1, <1>4, SucceedsOrKeeps DEF mqtt_disconnect, Native, Fails, Returns, Reply
  <1>5. CASE mqtt_is_connect(n, h)
    BY <1>1, <1>5, SucceedsOrKeeps DEF mqtt_is_connect, Native, Fails, Returns, Reply
  <1> QED  BY <1>2, <1>3, <1>4, <1>5

LEMMA TopicNativesStoreNothing ==
    ASSUME TopicNatives
    PROVE  call'.native # "mqtt_connect" /\ (UNCHANGED stored)
  <1>1. ASSUME NEW n, NEW h, NEW topic, NEW cell, mqtt_subscribe(n, h, topic, cell)
        PROVE  call'.native = "mqtt_subscribe" /\ (UNCHANGED stored)
    BY <1>1 DEF mqtt_subscribe, Native, Submit, Fails
  <1>2. ASSUME NEW n, NEW h, NEW topic, mqtt_unsubscribe(n, h, topic)
        PROVE  call'.native = "mqtt_unsubscribe" /\ (UNCHANGED stored)
    BY <1>2 DEF mqtt_unsubscribe, Native, Submit, Fails
  <1>3. ASSUME NEW n, NEW h, NEW topic, NEW data, NEW flag, NEW cell,
               mqtt_publish(n, h, topic, data, flag, cell)
        PROVE  call'.native = "mqtt_publish" /\ (UNCHANGED stored)
    BY <1>3 DEF mqtt_publish, Native, Submit, Fails
  <1> QED  BY <1>1, <1>2, <1>3 DEF TopicNatives

LEMMA TopicNativesKeep ==
    ASSUME TopicNatives
    PROVE  Kept
  BY TopicNativesStoreNothing, SucceedsOrKeeps

LEMMA CallbackNativesKeep ==
    ASSUME NEW n \in Int, NEW h, NEW k, mqtt_set_callback(k, n, h)
    PROVE  Kept
  <1>1. call'.native = "mqtt_set_callback"
    BY DEF mqtt_set_callback, Native
  <1>2. UNCHANGED stored \/ reply'.error = "none"
    BY DEF mqtt_set_callback, Native, Stored, Fails, Returns, Reply, stored
  <1> QED  BY <1>1, <1>2, SucceedsOrKeeps

LEMMA OptionNativesKeep ==
    ASSUME OptionNatives
    PROVE  Kept
  <1>1. ASSUME mqtt_create_connect_options(0) PROVE Kept
    <2>1. call'.native = "mqtt_create_connect_options"
      BY <1>1 DEF mqtt_create_connect_options, Native
    <2>2. UNCHANGED stored \/ reply'.error = "none"
      BY <1>1 DEF mqtt_create_connect_options, Native, Fails, Returns, Reply
    <2> QED  BY <2>1, <2>2, SucceedsOrKeeps
  <1>2. ASSUME NEW n, NEW i, NEW name, NEW text, NEW number,
               mqtt_set_options(n, i, name, text, number)
        PROVE  Kept
    <2>1. call'.native = "mqtt_set_options"
      BY <1>2 DEF mqtt_set_options, Native
    <2>2. UNCHANGED stored \/ reply'.error = "none"
      BY <1>2 DEF mqtt_set_options, Native, Fails, Returns, Reply
    <2> QED  BY <2>1, <2>2, SucceedsOrKeeps
  <1> QED  BY <1>1, <1>2 DEF OptionNatives

\* FailedCallChangesNothing (natives.cpp): no native stores a part of its work
\* and then reports an error.
THEOREM FailuresChangeNothing == Spec => FailedCallChangesNothing
  <1>1. [Next]_vars => [Kept]_vars
    <2> SUFFICES ASSUME Next PROVE Kept
      OBVIOUS
    <2>1. ASSUME ClientNatives PROVE Kept
      <3>1. PICK n \in Int :
                \/ mqtt_create(n)
                \/ \E h \in Handles :
                       \/ mqtt_destroy(n, h)
                       \/ \E i \in Indices : mqtt_connect(n, h, i)
                       \/ mqtt_disconnect(n, h)
                       \/ mqtt_is_connect(n, h)
        BY <2>1 DEF ClientNatives
      <3> QED  BY <3>1, ClientNativesKeep, ConnectKeeps
    <2>2. ASSUME CallbackNatives PROVE Kept
      <3>1. PICK n \in Int, h \in Handles, k \in Kinds : mqtt_set_callback(k, n, h)
        BY <2>2 DEF CallbackNatives
      <3> QED  BY <3>1, CallbackNativesKeep
    <2>3. ASSUME Return PROVE Kept
      BY <2>3 DEF Return, Kept
    <2> QED  BY <2>1, <2>2, <2>3, TopicNativesKeep, OptionNativesKeep DEF Next
  <1>2. [Kept]_vars => [call' # Nothing /\ reply'.error # "none" =>
                            /\ UNCHANGED <<clients, nextHandle>>
                            /\ options' = IF call'.native = "mqtt_connect"
                                             /\ reply'.error = "exception"
                                          THEN Without(options, call'.params[2])
                                          ELSE options]_vars
    BY DEF Kept
  <1> QED  BY <1>1, <1>2, PTL DEF Spec, FailedCallChangesNothing

-----------------------------------------------------------------------------
(* What is stored.                                                         *)

Inv == TypeOK /\ ForwardsFit

\* The signature with which natives.cpp registers a forward is the one with
\* which CallbackDispatcher.cpp runs it.
LEMMA SignatureFits ==
    \A k \in Kinds : Signature(k) = Passed[k] /\ Passed[k] \in Signatures
  <1>1. /\ Signature("connected") = <<"cell">>
        /\ Signature("message") = <<"cell", "string", "string">>
        /\ Signature("connectionLost") = <<"cell", "string">>
        /\ Signature("disconnected") = <<"cell", "cell">>
    BY DEF Signature
  <1>2. /\ Passed["connected"] = <<"cell">>
        /\ Passed["message"] = <<"cell", "string", "string">>
        /\ Passed["connectionLost"] = <<"cell", "string">>
        /\ Passed["disconnected"] = <<"cell", "cell">>
    BY DEF Passed
  <1> QED  BY <1>1, <1>2 DEF Kinds, Signatures

\* The conjuncts of Inv about clients, and those about options.
ClientsFit ==
    /\ nextHandle \in 1..(MaxHandle + 1)
    /\ DOMAIN clients \subseteq 1..(nextHandle - 1)
    /\ \A h \in DOMAIN clients : clients[h] \in [Kinds -> Signatures]
    /\ \A h \in DOMAIN clients, k \in Kinds : clients[h][k] \in {NoForward, Passed[k]}

OptionsFit ==
    /\ DOMAIN options \subseteq 1..MaxIndex
    /\ \A i \in DOMAIN options : options[i] \in Settings

LEMMA InvParts == Inv <=> ClientsFit /\ OptionsFit
  BY DEF Inv, TypeOK, ForwardsFit, ClientsFit, OptionsFit

LEMMA InvUnchanged == Inv /\ UNCHANGED stored => Inv'
  BY DEF Inv, TypeOK, ForwardsFit, stored

LEMMA CreateFits ==
    ASSUME ClientsFit, nextHandle <= MaxHandle,
           clients' = With(clients, nextHandle, [k \in Kinds |-> NoForward]),
           nextHandle' = NextHandle(nextHandle)
    PROVE  ClientsFit'
  <1>1. nextHandle' \in 1..(MaxHandle + 1) /\ nextHandle' = nextHandle + 1
    BY NativesAssumption DEF ClientsFit, NextHandle
  <1>2. DOMAIN clients' = DOMAIN clients \cup {nextHandle}
    BY DEF With
  <1>3. DOMAIN clients' \subseteq 1..(nextHandle' - 1)
    BY <1>1, <1>2 DEF ClientsFit
  <1>4. \A h \in DOMAIN clients' :
            clients'[h] = IF h = nextHandle THEN [k \in Kinds |-> NoForward] ELSE clients[h]
    BY <1>2 DEF With
  <1>5. NoForward \in Signatures
    BY DEF Signatures
  <1>6. \A h \in DOMAIN clients' :
            /\ clients'[h] \in [Kinds -> Signatures]
            /\ \A k \in Kinds : clients'[h][k] \in {NoForward, Passed[k]}
    BY <1>2, <1>4, <1>5 DEF ClientsFit
  <1> QED  BY <1>1, <1>3, <1>6 DEF ClientsFit

LEMMA DestroyFits ==
    ASSUME NEW h, ClientsFit, clients' = Without(clients, h), UNCHANGED nextHandle
    PROVE  ClientsFit'
  BY DEF ClientsFit, Without

LEMMA CallbackFits ==
    ASSUME NEW h, NEW k \in Kinds, NEW forward \in {Signature(k), NoForward}, ClientsFit,
           clients' = Stored(h, k, forward), UNCHANGED nextHandle
    PROVE  ClientsFit'
  <1>1. CASE clients' = clients
    BY <1>1 DEF ClientsFit
  <1>2. CASE clients' # clients
    <2>1. clients' = [clients EXCEPT ![h][k] = Passed[k]]
      BY <1>2, SignatureFits DEF Stored
    <2>2. DOMAIN clients' = DOMAIN clients
      BY <2>1
    <2>3. \A g \in DOMAIN clients :
              clients'[g] = IF g = h THEN [clients[g] EXCEPT ![k] = Passed[k]] ELSE clients[g]
      BY <2>1
    <2>4. ASSUME NEW g \in DOMAIN clients
          PROVE  /\ clients'[g] \in [Kinds -> Signatures]
                 /\ \A j \in Kinds : clients'[g][j] \in {NoForward, Passed[j]}
      <3>1. /\ clients[g] \in [Kinds -> Signatures]
            /\ \A j \in Kinds : clients[g][j] \in {NoForward, Passed[j]}
        BY DEF ClientsFit
      <3>2. Passed[k] \in Signatures
        BY SignatureFits
      <3>3. CASE g # h
        BY <2>3, <3>1, <3>3
      <3>4. CASE g = h
        <4>1. clients'[g] = [clients[g] EXCEPT ![k] = Passed[k]]
          BY <2>3, <3>4
        <4>2. clients'[g] \in [Kinds -> Signatures]
          BY <3>1, <3>2, <4>1
        <4>3. \A j \in Kinds : clients'[g][j] = IF j = k THEN Passed[k] ELSE clients[g][j]
          BY <3>1, <4>1
        <4> QED  BY <3>1, <4>2, <4>3
      <3> QED  BY <3>3, <3>4
    <2> QED  BY <2>2, <2>4 DEF ClientsFit
  <1> QED  BY <1>1, <1>2

\* A new index is free and within MAX_INDEX.
LEMMA OptionsCreateFits ==
    ASSUME OptionsFit, mqtt_create_connect_options(0)
    PROVE  OptionsFit' /\ UNCHANGED <<clients, nextHandle>>
  <1> DEFINE free     == 1..MaxIndex \ DOMAIN options
             First(i) == \A j \in free : i <= j
             fresh    == CHOOSE i \in free : First(i)
             settings == [user |-> Unset, password |-> Unset,
                          cleanStart |-> Unset, expiry |-> Unset]
  <1>1. FirstError(<<>>) = "none"
    BY DEF FirstError
  <1>2. IF free = {} THEN Fails("exception")
        ELSE options' = With(options, fresh, settings) /\ UNCHANGED <<clients, nextHandle>>
    BY <1>1 DEF mqtt_create_connect_options, Native
  <1>3. CASE free = {}
    BY <1>2, <1>3 DEF Fails, stored, OptionsFit
  <1>4. CASE free # {}
    <2>1. free \in SUBSET Nat
      BY NativesAssumption
    <2>2. fresh \in 1..MaxIndex
      <3>1. \E i \in free : First(i)
        <4> HIDE DEF free
        <4> QED  BY <1>4, <2>1, LeastElement
      <3> HIDE DEF First
      <3>2. fresh \in free
        BY <3>1
      <3> QED  BY <3>2
    <2>3. settings \in Settings
      BY DEF Settings
    <2>4. options' = With(options, fresh, settings) /\ UNCHANGED <<clients, nextHandle>>
      BY <1>2, <1>4
    <2> HIDE DEF fresh, settings
    <2>5. /\ DOMAIN options' = DOMAIN options \cup {fresh}
          /\ \A i \in DOMAIN options' :
                 options'[i] = IF i = fresh THEN settings ELSE options[i]
      BY <2>4 DEF With
    <2> QED  BY <2>2, <2>3, <2>4, <2>5 DEF OptionsFit
  <1> QED  BY <1>3, <1>4

\* An option keeps the type that its name gives it.
LEMMA SetOneOption ==
    ASSUME NEW set \in Settings, NEW text \in Texts, NEW number \in Flags
    PROVE  /\ [set EXCEPT !["user"] = text] \in Settings
           /\ [set EXCEPT !["password"] = text] \in Settings
           /\ [set EXCEPT !["cleanStart"] = (number > 0)] \in Settings
           /\ [set EXCEPT !["expiry"] = number] \in Settings
  <1> DEFINE positive == number > 0
             T == Texts \cup {Unset}
             B == BOOLEAN \cup {Unset}
             F == Flags \cup {Unset}
  <1>1. positive \in B /\ text \in T /\ number \in F
    OBVIOUS
  <1>2. Settings = [user : T, password : T, cleanStart : B, expiry : F]
    BY DEF Settings
  <1> HIDE DEF positive, T, B, F
  <1>3. [set EXCEPT !["user"] = text] \in Settings
    BY <1>1, <1>2
  <1>4. [set EXCEPT !["password"] = text] \in Settings
    BY <1>1, <1>2
  <1>5. [set EXCEPT !["cleanStart"] = positive] \in Settings
    BY <1>1, <1>2
  <1>6. [set EXCEPT !["expiry"] = number] \in Settings
    BY <1>1, <1>2
  <1> QED  BY <1>3, <1>4, <1>5, <1>6 DEF positive

\* The value that is written has the type of the option with that name.
LEMMA SetOptionsFits ==
    ASSUME OptionsFit, NEW n \in Int, NEW i, NEW name \in Names, NEW text \in Texts,
           NEW number \in Flags, mqtt_set_options(n, i, name, text, number)
    PROVE  OptionsFit' /\ UNCHANGED <<clients, nextHandle>>
  <1> DEFINE a1    == n < 3
             a2    == i \notin DOMAIN options
             a3    == name + 1 \notin DOMAIN OptionNames
             error == FirstError(<<TooFew(n, 3), NoOptions(i), Check(a3, "name")>>)
             field == OptionNames[name + 1]
             value == ValueAt(field, text, number)
  <1>1. IF ~a1 /\ ~a2 /\ ~a3 THEN error = "none" ELSE error \in Errors
    <2>1. error = FirstError(<<Check(a1, "arguments"), Check(a2, "options"), Check(a3, "name")>>)
      BY DEF TooFew, NoOptions
    <2>2. a1 \in BOOLEAN /\ a2 \in BOOLEAN /\ a3 \in BOOLEAN
      OBVIOUS
    <2>3. "arguments" \in Errors /\ "options" \in Errors /\ "name" \in Errors
      BY DEF Errors
    <2> HIDE DEF a1, a2, a3, error
    <2> QED  BY <2>1, <2>2, <2>3, ThreeChecks
  <1>2. IF error = "none"
        THEN options' = [options EXCEPT ![i][field] = value] /\ UNCHANGED <<clients, nextHandle>>
        ELSE UNCHANGED stored
    BY DEF mqtt_set_options, Native, Fails
  <1>3. CASE error # "none"
    BY <1>2, <1>3 DEF stored, OptionsFit
  <1>4. CASE error = "none"
    <2>1. i \in DOMAIN options /\ name + 1 \in 1..4
      <3>1. ~a2 /\ ~a3
        <4> HIDE DEF a1, a2, a3, error
        <4> QED  BY <1>1, <1>4, ErrorsDiffer
      <3> QED  BY <3>1 DEF OptionNames
    <2>2. options[i] \in Settings
      BY <2>1 DEF OptionsFit
    <2>3. \/ field = "user" /\ value = text
          \/ field = "password" /\ value = text
          \/ field = "cleanStart" /\ value = (number > 0)
          \/ field = "expiry" /\ value = number
      <3>1. field \in {"user", "password", "cleanStart", "expiry"}
        BY <2>1 DEF OptionNames
      <3> HIDE DEF field
      <3>2. CASE field = "user"
        BY <3>2 DEF ValueAt
      <3>3. CASE field = "password"
        BY <3>3 DEF ValueAt
      <3>4. CASE field = "cleanStart"
        BY <3>4 DEF ValueAt
      <3>5. CASE field = "expiry"
        BY <3>5 DEF ValueAt
      <3> QED  BY <3>1, <3>2, <3>3, <3>4, <3>5
    <2>4. /\ UNCHANGED <<clients, nextHandle>>
          /\ DOMAIN options' = DOMAIN options
          /\ \A j \in DOMAIN options :
                 options'[j] = IF j = i THEN [options[i] EXCEPT ![field] = value] ELSE options[j]
      <3>1. options' = [options EXCEPT ![i][field] = value] /\ UNCHANGED <<clients, nextHandle>>
        BY <1>2, <1>4
      <3> HIDE DEF field, value
      <3> QED  BY <3>1
    <2>5. [options[i] EXCEPT ![field] = value] \in Settings
      <3> HIDE DEF field, value
      <3> QED  BY <2>2, <2>3, SetOneOption
    <2> HIDE DEF field, value
    <2> QED  BY <2>4, <2>5 DEF OptionsFit
  <1> QED  BY <1>3, <1>4

LEMMA ClientNativesFit ==
    ASSUME Inv, NEW n \in Int, NEW h, NEW i,
           \/ mqtt_create(n) \/ mqtt_destroy(n, h) \/ mqtt_connect(n, h, i)
           \/ mqtt_disconnect(n, h) \/ mqtt_is_connect(n, h)
    PROVE  Inv'
  <1>1. ClientsFit /\ OptionsFit
    BY InvParts
  <1>2. CASE UNCHANGED stored
    BY <1>2, InvUnchanged
  <1>3. CASE mqtt_create(n)
    <2>1. \/ UNCHANGED stored
          \/ /\ nextHandle <= MaxHandle
             /\ clients' = With(clients, nextHandle, [k \in Kinds |-> NoForward])
             /\ nextHandle' = NextHandle(nextHandle)
             /\ UNCHANGED options
      BY <1>3 DEF mqtt_create, Native, Fails
    <2>2. UNCHANGED stored \/ (ClientsFit' /\ UNCHANGED options)
      BY <1>1, <2>1, CreateFits
    <2> QED  BY <1>1, <1>2, <2>2, InvParts DEF OptionsFit, Inv, TypeOK, ForwardsFit, ClientsFit
  <1>4. CASE mqtt_destroy(n, h)
    <2>1. \/ UNCHANGED stored
          \/ clients' = Without(clients, h) /\ UNCHANGED <<nextHandle, options>>
      BY <1>4 DEF mqtt_destroy, Native, Fails
    <2>2. UNCHANGED stored \/ (ClientsFit' /\ UNCHANGED options)
      BY <1>1, <2>1, DestroyFits
    <2> QED  BY <1>1, <1>2, <2>2, InvParts DEF OptionsFit, Inv, TypeOK, ForwardsFit, ClientsFit
  <1>5. CASE mqtt_connect(n, h, i)
    <2>1. UNCHANGED stored \/ (options' = Without(options, i) /\ UNCHANGED <<clients, nextHandle>>)
      BY <1>5 DEF mqtt_connect, Native, Fails
    <2>2. CASE options' = Without(options, i) /\ UNCHANGED <<clients, nextHandle>>
      <3>1. OptionsFit'
        BY <1>1, <2>2 DEF OptionsFit, Without
      <3>2. ClientsFit'
        BY <1>1, <2>2 DEF ClientsFit
      <3> QED  BY <3>1, <3>2 DEF Inv, TypeOK, ForwardsFit, ClientsFit, OptionsFit
    <2> QED  BY <1>2, <2>1, <2>2
  <1>6. CASE mqtt_disconnect(n, h) \/ mqtt_is_connect(n, h)
    BY <1>2, <1>6 DEF mqtt_disconnect, mqtt_is_connect, Native, Fails
  <1> QED  BY <1>3, <1>4, <1>5, <1>6

LEMMA InvPreserved ==
    ASSUME Inv, [Next]_vars
    PROVE  Inv'
  <1>1. ClientsFit /\ OptionsFit
    BY InvParts
  <1>2. ASSUME ClientsFit', OptionsFit' PROVE Inv'
    BY <1>2 DEF Inv, TypeOK, ForwardsFit, ClientsFit, OptionsFit
  <1>3. CASE UNCHANGED stored
    BY <1>3, InvUnchanged
  <1>4. ASSUME ClientNatives PROVE Inv'
    <2>1. PICK n \in Int :
              \/ mqtt_create(n)
              \/ \E h \in Handles :
                     \/ mqtt_destroy(n, h)
                     \/ \E i \in Indices : mqtt_connect(n, h, i)
                     \/ mqtt_disconnect(n, h)
                     \/ mqtt_is_connect(n, h)
      BY <1>4 DEF ClientNatives
    <2> QED  BY <2>1, ClientNativesFit
  <1>5. ASSUME TopicNatives PROVE Inv'
    <2>1. UNCHANGED stored
      BY <1>5, TopicNativesStoreNothing
    <2> QED  BY <1>3, <2>1
  <1>6. ASSUME CallbackNatives PROVE Inv'
    <2>1. PICK n \in Int, h \in Handles, k \in Kinds : mqtt_set_callback(k, n, h)
      BY <1>6 DEF CallbackNatives
    <2>2. \/ UNCHANGED stored
          \/ \E forward \in {Signature(k), NoForward} :
                 clients' = Stored(h, k, forward) /\ UNCHANGED <<nextHandle, options>>
      BY <2>1 DEF mqtt_set_callback, Native, Fails
    <2>3. UNCHANGED stored \/ (ClientsFit' /\ UNCHANGED options)
      BY <1>1, <2>2, CallbackFits
    <2>4. CASE ClientsFit' /\ UNCHANGED options
      <3>1. OptionsFit'
        BY <1>1, <2>4 DEF OptionsFit
      <3> QED  BY <1>2, <2>4, <3>1
    <2> QED  BY <1>3, <2>3, <2>4
  <1>7. ASSUME OptionNatives PROVE Inv'
    <2>1. OptionsFit' /\ UNCHANGED <<clients, nextHandle>>
      <3>1. 0..3 \subseteq Int /\ {"text"} \subseteq Texts
        BY DEF Texts
      <3> QED  BY <1>1, <1>7, <3>1, OptionsCreateFits, SetOptionsFits DEF OptionNatives
    <2>2. ClientsFit'
      BY <1>1, <2>1 DEF ClientsFit
    <2> QED  BY <1>2, <2>1, <2>2
  <1>8. ASSUME Return \/ UNCHANGED vars PROVE Inv'
    BY <1>3, <1>8 DEF Return, vars
  <1> QED  BY <1>4, <1>5, <1>6, <1>7, <1>8 DEF Next

\* What is stored keeps its types, and every forward the signature of its kind.
THEOREM InvHolds == Spec => []Inv
  <1>1. Init => Inv
    BY NativesAssumption DEF Init, Inv, TypeOK, ForwardsFit
  <1> QED  BY <1>1, InvPreserved, PTL DEF Spec

\* Type correctness: handles are below the next one, indices within MAX_INDEX,
\* and every option and every callback has the type that its name gives it.
THEOREM TypeCorrect == Spec => []TypeOK
  <1>1. Inv => TypeOK
    BY DEF Inv
  <1> QED  BY <1>1, InvHolds, PTL

\* ForwardsFit (natives.cpp and CallbackDispatcher.cpp): a forward is only ever
\* run with the parameters it was registered with.
THEOREM CallbacksFit == Spec => []ForwardsFit
  <1>1. Inv => ForwardsFit
    BY DEF Inv
  <1> QED  BY <1>1, InvHolds, PTL
=============================================================================
