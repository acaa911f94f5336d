--------------------------- MODULE HTTPClientProofs ---------------------------
(***************************************************************************)
(* What holds of MXHTTPClient for every set of requests and every number   *)
(* of tries: the types, that a request completes once, that none waits for *)
(* a network that is there, and that a canceled one is not woken.          *)
(***************************************************************************)
EXTENDS HTTPClient, SequenceTheorems, TLAPS

\* How many tries a request has had, by what it waits for.
Tries == \A r \in Request :
            /\ stage[r] \in {"delayed", "waiting"} => numberOfTries[r] < MaxSends
            /\ stage[r] = "new" \/ (stage[r] = "token" /\ ~plain[r]) => numberOfTries[r] = 0
            /\ stage[r] = "token" \/ ~plain[r] => numberOfTries[r] <= MaxSends

IInv == TypeOK /\ Tries /\ Once /\ NoneStranded

-----------------------------------------------------------------------------
LEMMA Popped ==
    ASSUME NEW s \in Seq(Request), s # <<>>
    PROVE  /\ Tail(s) \in Seq(Request)
           /\ Head(s) \in Request /\ Head(s) = s[1] /\ 1 \in DOMAIN s
           /\ \A i \in DOMAIN Tail(s) : i + 1 \in DOMAIN s /\ Tail(s)[i] = s[i + 1]
           /\ \A i \in DOMAIN s : i # 1 => i - 1 \in DOMAIN Tail(s)
           /\ DOMAIN s \subseteq Nat /\ DOMAIN Tail(s) \subseteq Nat
<1>1. Len(s) \in Nat \ {0} /\ DOMAIN s = 1..Len(s)
  OBVIOUS
<1>2. /\ Tail(s) \in Seq(Request) /\ Head(s) \in Request /\ Head(s) = s[1]
      /\ Len(Tail(s)) = Len(s) - 1
      /\ \A i \in 1..Len(Tail(s)) : Tail(s)[i] = s[i + 1]
  BY HeadTailProperties
<1>3. DOMAIN Tail(s) = 1..(Len(s) - 1)
  BY <1>2
<1> QED
  BY <1>1, <1>2, <1>3

LEMMA Pushed ==
    ASSUME NEW s \in Seq(Request), NEW r \in Request
    PROVE  /\ Append(s, r) \in Seq(Request) /\ Append(s, r) # <<>>
           /\ DOMAIN s \subseteq Nat
           /\ DOMAIN Append(s, r) = DOMAIN s \cup {Len(s) + 1}
           /\ Len(s) + 1 \notin DOMAIN s
           /\ Append(s, r)[Len(s) + 1] = r
           /\ \A i \in DOMAIN s : Append(s, r)[i] = s[i]
BY AppendProperties

LEMMA Removed ==
    ASSUME reachabilityObservers \in Seq(Request), NEW k \in DOMAIN reachabilityObservers
    PROVE  /\ Without(k) \in Seq(Request)
           /\ DOMAIN reachabilityObservers \subseteq Nat
           /\ \A i \in DOMAIN Without(k) :
                 \E j \in DOMAIN reachabilityObservers \ {k} :
                     /\ Without(k)[i] = reachabilityObservers[j]
                     /\ i = IF j < k THEN j ELSE j - 1
           /\ \A j \in DOMAIN reachabilityObservers \ {k} :
                 LET i == IF j < k THEN j ELSE j - 1
                 IN  i \in DOMAIN Without(k) /\ Without(k)[i] = reachabilityObservers[j]
<1> DEFINE s == reachabilityObservers
           n == Len(s)
           a == SubSeq(s, 1, k - 1)
           b == SubSeq(s, k + 1, n)
<1>1. n \in Nat /\ DOMAIN s = 1..n /\ k \in 1..n
  OBVIOUS
<1>2. a \in Seq(Request) /\ Len(a) = k - 1 /\ \A i \in 1..(k - 1) : a[i] = s[i]
  <2>1. \A i \in 1..(k - 1) : s[i] \in Request
    BY <1>1
  <2> QED
    BY <1>1, <2>1, SubSeqProperties
<1>3. b \in Seq(Request) /\ Len(b) = n - k /\ \A i \in 1..(n - k) : b[i] = s[k + i]
  <2>1. \A i \in (k + 1)..n : s[i] \in Request
    BY <1>1
  <2>2. /\ b \in Seq(Request)
        /\ Len(b) = IF k + 1 <= n THEN n - (k + 1) + 1 ELSE 0
        /\ \A i \in 1..(n - (k + 1) + 1) : b[i] = s[k + 1 + i - 1]
    BY <1>1, <2>1, SubSeqProperties
  <2> HIDE DEF b
  <2>3. n - (k + 1) + 1 = n - k /\ \A i \in 1..(n - k) : k + 1 + i - 1 = k + i
    BY <1>1
  <2> QED
    BY <1>1, <2>2, <2>3
<1> HIDE DEF a, b
<1>4. /\ a \o b \in Seq(Request) /\ Len(a \o b) = n - 1
      /\ \A i \in 1..(n - 1) : (a \o b)[i] = IF i < k THEN s[i] ELSE s[i + 1]
  <2>1. /\ a \o b \in Seq(Request)
        /\ Len(a \o b) = Len(a) + Len(b)
        /\ \A i \in 1..(Len(a) + Len(b)) :
              (a \o b)[i] = IF i <= Len(a) THEN a[i] ELSE b[i - Len(a)]
    BY <1>2, <1>3, ConcatProperties
  <2>2. Len(a) + Len(b) = n - 1
    BY <1>1, <1>2, <1>3
  <2>3. ASSUME NEW i \in 1..(n - 1)
        PROVE  (a \o b)[i] = IF i < k THEN s[i] ELSE s[i + 1]
    <3>1. CASE i < k
      BY <1>1, <1>2, <2>1, <2>2, <3>1
    <3>2. CASE ~(i < k)
      <4>1. i - (k - 1) \in 1..(n - k) /\ k + (i - (k - 1)) = i + 1 /\ ~(i <= k - 1)
        BY <1>1, <3>2
      <4>2. (a \o b)[i] = b[i - (k - 1)]
        BY <1>2, <2>1, <2>2, <4>1
      <4> QED
        BY <1>3, <3>2, <4>1, <4>2
    <3> QED
      BY <3>1, <3>2
  <2> QED
    BY <2>1, <2>2, <2>3
<1>5. Without(k) = a \o b
  BY DEF Without, a, b
<1>6. DOMAIN Without(k) = 1..(n - 1) /\ Without(k) \in Seq(Request)
  <2>1. Without(k) \in Seq(Request) /\ Len(Without(k)) = n - 1
    BY <1>4, <1>5
  <2> HIDE DEF n, s
  <2> QED
    BY <2>1
<1>7. \A i \in 1..(n - 1) : Without(k)[i] = IF i < k THEN s[i] ELSE s[i + 1]
  BY <1>4, <1>5
<1> HIDE DEF s, n
<1>8. ASSUME NEW i \in DOMAIN Without(k)
      PROVE  \E j \in 1..n \ {k} : /\ Without(k)[i] = s[j]
                                   /\ i = IF j < k THEN j ELSE j - 1
  <2>1. CASE i < k
    BY <1>1, <1>6, <1>7, <2>1
  <2>2. CASE ~(i < k)
    <3>1. i + 1 \in 1..n \ {k} /\ ~(i + 1 < k) /\ i = (i + 1) - 1 /\ i \in 1..(n - 1)
      BY <1>1, <1>6, <2>2
    <3> QED
      BY <1>7, <2>2, <3>1
  <2> QED
    BY <2>1, <2>2
<1>9. ASSUME NEW j \in 1..n \ {k}
      PROVE  LET i == IF j < k THEN j ELSE j - 1
             IN  i \in DOMAIN Without(k) /\ Without(k)[i] = s[j]
  <2>1. CASE j < k
    BY <1>1, <1>6, <1>7, <2>1
  <2>2. CASE ~(j < k)
    <3>1. j - 1 \in 1..(n - 1) /\ ~(j - 1 < k) /\ (j - 1) + 1 = j
      BY <1>1, <2>2
    <3> QED
      BY <1>6, <1>7, <2>2, <3>1
  <2> QED
    BY <2>1, <2>2
<1>10. DOMAIN s \subseteq Nat
  BY <1>1
<1>11. \A i \in DOMAIN Without(k) : \E j \in DOMAIN s \ {k} :
          /\ Without(k)[i] = s[j]
          /\ i = IF j < k THEN j ELSE j - 1
  BY <1>1, <1>8
<1>12. \A j \in DOMAIN s \ {k} :
          LET i == IF j < k THEN j ELSE j - 1
          IN  i \in DOMAIN Without(k) /\ Without(k)[i] = s[j]
  BY <1>1, <1>9
<1> QED
  BY <1>6, <1>10, <1>11, <1>12 DEF s

-----------------------------------------------------------------------------
LEMMA InitInv == Init => IInv
BY Bounds DEF Init, IInv, TypeOK, Tries, Once, NoneStranded, Stage

\* What sending and completing do to the types.
LEMMA SendTyped ==
    ASSUME TypeOK, NEW r \in Request, numberOfTries[r] <= MaxSends, Send(r)
    PROVE  stage' \in [Request -> Stage] /\ numberOfTries' \in [Request -> 0..(MaxSends + 1)]
<1>1. numberOfTries[r] + 1 \in 0..(MaxSends + 1)
  BY Bounds DEF TypeOK
<1> QED
  BY <1>1 DEF TypeOK, Stage, Send

LEMMA CompleteTyped ==
    ASSUME TypeOK, NEW r \in Request, Complete(r)
    PROVE  /\ stage' \in [Request -> Stage] /\ completed' \in [Request -> Nat]
           /\ wrapped' \in [Request -> Nat] /\ owed' \in Nat
BY DEF TypeOK, Stage, Complete

\* Steps of requests that are neither over nor waiting for the network, and that
\* stay so, keep what is said of those that are.
LEMMA OnceKept ==
    ASSUME Once, UNCHANGED <<canceled, completed, reachabilityObservers>>,
           \A q \in Request : /\ stage'[q] = "done" <=> stage[q] = "done"
                              /\ stage'[q] = "dropped" <=> stage[q] = "dropped"
                              /\ stage'[q] = "waiting" <=> stage[q] = "waiting"
    PROVE  Once'
BY DEF Once

LEMMA ChainKept ==
    ASSUME NoneStranded, UNCHANGED <<wrapped, reachabilityObservers, reachable, owed>>,
           \A q \in Request : stage[q] \in {"sent", "delayed"} =>
                                  stage'[q] \in {"sent", "delayed"}
    PROVE  NoneStranded'
BY DEF NoneStranded

\* Making a request, and its token.
LEMMA TokenInv ==
    ASSUME IInv, NEW r \in Request, Make(r) \/ TokenAnswered(r)
    PROVE  IInv'
<1> USE Bounds DEF IInv, network
<1>1. CASE Make(r)
  <2>1. numberOfTries[r] = 0 /\ stage[r] = "new"
    BY <1>1 DEF Make, Tries
  <2>2. TypeOK'
    <3>1. CASE Send(r)
      <4>1. numberOfTries[r] <= MaxSends
        BY <2>1
      <4>2. plain' \in [Request -> BOOLEAN]
        BY <1>1 DEF Make, TypeOK
      <4> QED
        BY <1>1, <3>1, <4>1, <4>2, SendTyped DEF Make, TypeOK
    <3>2. CASE stage' = [stage EXCEPT ![r] = "token"] /\ UNCHANGED <<numberOfTries, plain>>
      BY <1>1, <3>2 DEF Make, TypeOK, Stage
    <3> QED
      BY <1>1, <3>1, <3>2 DEF Make
  <2>3. Tries'
    BY <1>1, <2>1 DEF TypeOK, Tries, Make, Send
  <2>4. /\ \A q \in Request : stage'[q] = stage[q] \/ (q = r /\ stage'[q] \in {"token", "sent"})
        /\ UNCHANGED <<canceled, wrapped, completed, network>>
    <3>1. UNCHANGED <<canceled, wrapped, completed, network>>
      BY <1>1 DEF Make
    <3>2. \/ stage' = [stage EXCEPT ![r] = "token"]
          \/ stage' = [stage EXCEPT ![r] = "sent"]
      BY <1>1 DEF Make, Send
    <3> QED
      BY <3>1, <3>2 DEF TypeOK
  <2>5. Once'
    <3>1. UNCHANGED <<canceled, completed, reachabilityObservers>>
      BY <2>4
    <3>2. \A q \in Request : /\ stage'[q] = "done" <=> stage[q] = "done"
                             /\ stage'[q] = "dropped" <=> stage[q] = "dropped"
                             /\ stage'[q] = "waiting" <=> stage[q] = "waiting"
      BY <2>1, <2>4
    <3> QED
      BY <3>1, <3>2, OnceKept
  <2>6. NoneStranded'
    BY <2>1, <2>4 DEF TypeOK, NoneStranded
  <2> QED
    BY <2>2, <2>3, <2>5, <2>6
<1>2. CASE TokenGiven(r)
  <2>1. numberOfTries[r] <= MaxSends /\ (~plain[r] => numberOfTries[r] = 0)
    BY <1>2 DEF TokenGiven, Tries
  <2>2. TypeOK'
    BY <1>2, <2>1, SendTyped DEF TypeOK, TokenGiven
  <2>3. Tries'
    BY <1>2, <2>1 DEF TypeOK, Tries, TokenGiven, Send
  <2>4. \A q \in Request : \/ stage'[q] = stage[q]
                           \/ stage[q] = "token" /\ stage'[q] = "sent"
    BY <1>2 DEF TypeOK, TokenGiven, Send
  <2>5. UNCHANGED <<canceled, wrapped, completed, network>>
    BY <1>2 DEF TokenGiven
  <2>6. Once' /\ NoneStranded'
    BY <2>4, <2>5, OnceKept, ChainKept
  <2> QED
    BY <2>2, <2>3, <2>6
<1>3. CASE TokenRefused(r)
  <2>1. TypeOK'
    BY <1>3, CompleteTyped DEF TypeOK, TokenRefused
  <2>2. Tries'
    BY <1>3 DEF TypeOK, Tries, TokenRefused, Complete
  <2>3. Once'
    BY <1>3 DEF TypeOK, Once, TokenRefused, Complete
  <2>4. NoneStranded'
    BY <1>3 DEF TypeOK, NoneStranded, TokenRefused, Complete
  <2> QED
    BY <2>1, <2>2, <2>3, <2>4
<1> QED
  BY <1>1, <1>2, <1>3 DEF TokenAnswered

LEMMA CancelInv == ASSUME IInv, NEW r \in Request, Cancel(r) PROVE IInv'
<1> USE DEF IInv, network, Cancel
<1>1. TypeOK'
  BY DEF TypeOK
<1>2. Tries' /\ Once' /\ NoneStranded'
  BY DEF TypeOK, Tries, Once, NoneStranded
<1> QED
  BY <1>1, <1>2

\* The end of a try: a request that waits for the network waits for one that
\* is down.
LEMMA AnsweredInv == ASSUME IInv, NEW r \in Request, Answered(r) \/ Retry(r) PROVE IInv'
<1> USE Bounds DEF IInv, network
<1>1. CASE Ends(r)
  <2>1. TypeOK'
    BY <1>1, CompleteTyped DEF TypeOK, Ends
  <2>2. Tries'
    BY <1>1 DEF TypeOK, Tries, Ends, Complete
  <2>3. Once'
    BY <1>1 DEF TypeOK, Once, Ends, Complete
  <2>4. NoneStranded'
    <3>1. CASE wrapped[r] > 0
      BY <1>1, <3>1 DEF NoneStranded, Ends, Complete
    <3>2. CASE ~(wrapped[r] > 0)
      <4>1. \A q \in Request : q # r => stage'[q] = stage[q] /\ wrapped'[q] = wrapped[q]
        BY <1>1 DEF TypeOK, Ends, Complete
      <4> QED
        BY <1>1, <3>2, <4>1 DEF NoneStranded, Ends, Complete
    <3> QED
      BY <3>1, <3>2
  <2> QED
    BY <2>1, <2>2, <2>3, <2>4
<1>2. CASE TokenUnknown(r)
  <2>1. TypeOK'
    BY <1>2 DEF TypeOK, Stage, TokenUnknown
  <2>2. Tries'
    BY <1>2 DEF TypeOK, Tries, TokenUnknown
  <2>3. Once'
    BY <1>2 DEF TypeOK, Once, TokenUnknown
  <2>4. NoneStranded'
    <3>1. CASE wrapped[r] > 0
      BY <1>2, <3>1 DEF NoneStranded, TokenUnknown
    <3>2. CASE ~(wrapped[r] > 0)
      <4>1. \A q \in Request : q # r => stage'[q] = stage[q] /\ wrapped'[q] = wrapped[q]
        BY <1>2 DEF TypeOK, TokenUnknown
      <4> QED
        BY <1>2, <3>2, <4>1 DEF NoneStranded, TokenUnknown
    <3> QED
      BY <3>1, <3>2
  <2> QED
    BY <2>1, <2>2, <2>3, <2>4
<1>3. CASE Limited(r)
  <2>1. TypeOK'
    BY <1>3 DEF TypeOK, Stage, Limited
  <2>2. Tries'
    BY <1>3 DEF TypeOK, Tries, Limited
  <2>4. \A q \in Request : \/ stage'[q] = stage[q]
                           \/ stage[q] = "sent" /\ stage'[q] = "delayed"
    BY <1>3 DEF TypeOK, Limited
  <2>5. UNCHANGED <<canceled, wrapped, completed, network>>
    BY <1>3 DEF Limited
  <2>6. Once' /\ NoneStranded'
    BY <2>4, <2>5, OnceKept, ChainKept
  <2> QED
    BY <2>1, <2>2, <2>6
<1>4. CASE Retry(r)
  <2>1. numberOfTries[r] < MaxSends
    BY <1>4 DEF Retry, Tries
  <2>2. TypeOK'
    BY <1>4, <2>1, SendTyped DEF TypeOK, Retry
  <2>3. Tries'
    BY <1>4, <2>1 DEF TypeOK, Tries, Retry, Send
  <2>4. \A q \in Request : \/ stage'[q] = stage[q]
                           \/ stage[q] = "delayed" /\ stage'[q] = "sent"
    BY <1>4 DEF TypeOK, Retry, Send
  <2>5. UNCHANGED <<canceled, wrapped, completed, network>>
    BY <1>4 DEF Retry
  <2>6. Once' /\ NoneStranded'
    BY <2>4, <2>5, OnceKept, ChainKept
  <2> QED
    BY <2>2, <2>3, <2>6
<1>5. CASE NoResponse(r) /\ reachable
  <2>0. /\ stage[r] = "sent" /\ stage' = [stage EXCEPT ![r] = "delayed"]
        /\ numberOfTries[r] < MaxTries
        /\ UNCHANGED <<numberOfTries, canceled, plain, wrapped, completed, network>>
    BY <1>5 DEF NoResponse, MayRetry, TypeOK
  <2>1. TypeOK'
    BY <2>0 DEF TypeOK, Stage
  <2>2. Tries'
    BY <2>0 DEF TypeOK, Tries
  <2>4. \A q \in Request : \/ stage'[q] = stage[q]
                           \/ stage[q] = "sent" /\ stage'[q] = "delayed"
    BY <2>0 DEF TypeOK
  <2>5. Once' /\ NoneStranded'
    BY <2>0, <2>4, OnceKept, ChainKept
  <2> QED
    BY <2>1, <2>2, <2>5
<1>6. CASE NoResponse(r) /\ ~reachable
  <2>0. /\ stage[r] = "sent" /\ stage' = [stage EXCEPT ![r] = "waiting"]
        /\ reachabilityObservers' = Append(reachabilityObservers, r)
        /\ numberOfTries[r] < MaxTries
        /\ UNCHANGED <<numberOfTries, canceled, plain, wrapped, completed, reachable, owed>>
    BY <1>6 DEF NoResponse, MayRetry, TypeOK
  <2>1. TypeOK'
    BY <2>0, Pushed DEF TypeOK, Stage
  <2>2. Tries'
    BY <2>0 DEF TypeOK, Tries
  <2>3. Once'
    <3>1. \A i \in DOMAIN reachabilityObservers : reachabilityObservers[i] # r
      BY <2>0 DEF Once
    <3> DEFINE s == reachabilityObservers
               n == Len(s) + 1
    <3>3. /\ DOMAIN Append(s, r) = DOMAIN s \cup {n} /\ n \notin DOMAIN s
          /\ Append(s, r)[n] = r /\ \A i \in DOMAIN s : Append(s, r)[i] = s[i]
      BY Pushed DEF TypeOK
    <3>4. ASSUME NEW q \in Request
          PROVE  /\ completed'[q] = IF stage'[q] = "done" THEN 1 ELSE 0
                 /\ stage'[q] = "dropped" => canceled'[q]
      BY <2>0 DEF Once, TypeOK
    <3> HIDE DEF n
    <3>5. ASSUME NEW q \in Request, NEW i \in DOMAIN Append(s, r), NEW j \in DOMAIN Append(s, r),
                 Append(s, r)[i] = q, Append(s, r)[j] = q
          PROVE  i = j
      BY <3>1, <3>3, <3>5 DEF Once
    <3>6. ASSUME NEW q \in Request
          PROVE  stage'[q] = "waiting" <=> \E i \in DOMAIN Append(s, r) : Append(s, r)[i] = q
      <4>1. CASE q = r
        BY <2>0, <3>3, <4>1 DEF TypeOK
      <4>2. CASE q # r
        <5>1. stage'[q] = stage[q]
          BY <2>0, <4>2 DEF TypeOK
        <5> QED
          BY <3>3, <4>2, <5>1 DEF Once
      <4> QED
        BY <4>1, <4>2
    <3> QED
      BY <2>0, <3>4, <3>5, <3>6 DEF Once
  <2>4. NoneStranded'
    BY <1>6, <2>0 DEF NoneStranded
  <2> QED
    BY <2>1, <2>2, <2>3, <2>4
<1> QED
  BY <1>1, <1>2, <1>3, <1>4, <1>5, <1>6 DEF Answered, NoResponse

LEMMA NetworkInv == ASSUME IInv, NEW up \in BOOLEAN, NetworkChanges(up) PROVE IInv'
<1> USE DEF IInv, request, NetworkChanges
<1>1. TypeOK' /\ Tries' /\ Once'
  BY DEF TypeOK, Tries, Once
<1>2. NoneStranded'
  BY DEF NoneStranded
<1> QED
  BY <1>1, <1>2

\* The request that is woken is out, and will wake the next.
LEMMA WakeInv == ASSUME IInv, WakeNext PROVE IInv'
<1> USE Bounds DEF IInv, request
<1>1. CASE ~MayWake
  <2>1. /\ UNCHANGED <<stage, numberOfTries, canceled, plain, wrapped, completed,
                       reachabilityObservers, reachable>>
        /\ owed' = 0 /\ owed > 0
    BY <1>1 DEF WakeNext
  <2> QED
    BY <1>1, <2>1 DEF TypeOK, Tries, Once, NoneStranded, MayWake
<1>2. CASE MayWake
  <2>1. /\ First \in Request /\ First = reachabilityObservers[1]
        /\ 1 \in DOMAIN reachabilityObservers
        /\ reachable' = reachable
        /\ reachabilityObservers' = Tail(reachabilityObservers)
        /\ owed > 0 /\ UNCHANGED <<canceled, plain, completed>>
    BY <1>2, Popped DEF WakeNext, MayWake, First, TypeOK
  <2>2. stage[First] = "waiting" /\ numberOfTries[First] < MaxSends
    BY <2>1 DEF Once, Tries, TypeOK
  <2>3. \/ /\ ~canceled[First] /\ Send(First)
           /\ wrapped' = [wrapped EXCEPT ![First] = @ + 1] /\ owed' = owed - 1
        \/ /\ canceled[First] /\ stage' = [stage EXCEPT ![First] = "dropped"]
           /\ UNCHANGED <<numberOfTries, wrapped, owed>>
    BY <1>2 DEF WakeNext
  <2>4. TypeOK'
    <3>1. reachabilityObservers' \in Seq(Request)
      BY <1>2, <2>1, Popped DEF TypeOK, MayWake
    <3>2. CASE canceled[First]
      BY <2>1, <2>3, <3>1, <3>2 DEF TypeOK, Stage
    <3>3. CASE ~canceled[First]
      <4>1. /\ Send(First) /\ owed' = owed - 1
            /\ wrapped' = [wrapped EXCEPT ![First] = @ + 1]
        BY <2>3, <3>3
      <4>2. numberOfTries[First] <= MaxSends
        BY <2>1, <2>2 DEF TypeOK
      <4>3. stage' \in [Request -> Stage] /\ numberOfTries' \in [Request -> 0..(MaxSends + 1)]
        BY <2>1, <4>1, <4>2, SendTyped
      <4>4. owed' \in Nat /\ wrapped' \in [Request -> Nat]
        BY <2>1, <4>1 DEF TypeOK
      <4> QED
        BY <2>1, <3>1, <4>3, <4>4 DEF TypeOK
    <3> QED
      BY <3>2, <3>3
  <2>5. Tries'
    <3>1. CASE canceled[First]
      <4>1. stage' = [stage EXCEPT ![First] = "dropped"]
            /\ UNCHANGED <<numberOfTries, wrapped>>
        BY <2>3, <3>1
      <4> QED
        BY <2>1, <4>1 DEF TypeOK, Tries
    <3>2. CASE ~canceled[First]
      <4>1. Send(First) /\ wrapped' = [wrapped EXCEPT ![First] = @ + 1]
        BY <2>3, <3>2
      <4>2. /\ stage'[First] = "sent" /\ numberOfTries'[First] = numberOfTries[First] + 1
            /\ wrapped'[First] = wrapped[First] + 1
        BY <2>1, <4>1 DEF TypeOK, Send
      <4>3. ASSUME NEW q \in Request, q # First
            PROVE  /\ stage'[q] = stage[q] /\ numberOfTries'[q] = numberOfTries[q]
                   /\ wrapped'[q] = wrapped[q]
        BY <2>1, <4>1, <4>3 DEF TypeOK, Send
      <4>4. stage'[First] = "sent" /\ numberOfTries'[First] \in Nat /\ numberOfTries'[First] <= MaxSends
        BY <2>1, <2>2, <4>2 DEF TypeOK
      <4>5. ASSUME NEW q \in Request
            PROVE  /\ stage'[q] \in {"delayed", "waiting"} => numberOfTries'[q] < MaxSends
                   /\ stage'[q] = "new" \/ (stage'[q] = "token" /\ ~plain'[q])
                      => numberOfTries'[q] = 0
                   /\ stage'[q] = "token" \/ ~plain'[q] => numberOfTries'[q] <= MaxSends
        <5>1. CASE q = First
          BY <4>4, <5>1
        <5>2. CASE q # First
          BY <2>1, <4>3, <5>2 DEF Tries
        <5> QED
          BY <5>1, <5>2
      <4> QED
        BY <4>5 DEF Tries
    <3> QED
      BY <3>1, <3>2
  <2>6. Once'
    <3>1. ASSUME NEW r \in Request PROVE /\ completed'[r] = IF stage'[r] = "done" THEN 1 ELSE 0
                                         /\ stage'[r] = "dropped" => canceled'[r]
      BY <2>1, <2>2, <2>3 DEF TypeOK, Once, Send
    <3>2. ASSUME NEW r \in Request, NEW i \in DOMAIN reachabilityObservers',
                 NEW j \in DOMAIN reachabilityObservers',
                 reachabilityObservers'[i] = r, reachabilityObservers'[j] = r
          PROVE  i = j
      <4>1. /\ i + 1 \in DOMAIN reachabilityObservers /\ j + 1 \in DOMAIN reachabilityObservers
            /\ reachabilityObservers[i + 1] = r /\ reachabilityObservers[j + 1] = r
            /\ i \in Nat /\ j \in Nat
        BY <1>2, <2>1, <3>2, Popped DEF TypeOK, MayWake
      <4>2. i + 1 = j + 1
        BY <4>1 DEF Once
      <4> QED
        BY <4>1, <4>2
    <3>3. ASSUME NEW r \in Request
          PROVE  stage'[r] = "waiting" <=> \E i \in DOMAIN reachabilityObservers' :
                                              reachabilityObservers'[i] = r
      <4>1. stage'[r] = "waiting" <=> stage[r] = "waiting" /\ r # First
        BY <2>1, <2>2, <2>3 DEF TypeOK, Send
      <4>2. ASSUME NEW i \in DOMAIN reachabilityObservers', reachabilityObservers'[i] = r
            PROVE  stage[r] = "waiting" /\ r # First
        <5>1. /\ i + 1 \in DOMAIN reachabilityObservers /\ reachabilityObservers[i + 1] = r
              /\ i \in Nat /\ i # 0
          BY <1>2, <2>1, <4>2, Popped DEF TypeOK, MayWake
        <5> QED
          BY <2>1, <5>1 DEF Once
      <4>3. ASSUME stage[r] = "waiting", r # First
            PROVE  \E i \in DOMAIN reachabilityObservers' : reachabilityObservers'[i] = r
        <5>1. PICK j \in DOMAIN reachabilityObservers : reachabilityObservers[j] = r
          BY <4>3 DEF Once
        <5>2. j # 1 /\ j \in Nat
          BY <1>2, <2>1, <4>3, <5>1, Popped DEF TypeOK, MayWake
        <5>3. /\ j - 1 \in DOMAIN Tail(reachabilityObservers)
              /\ Tail(reachabilityObservers)[j - 1] = reachabilityObservers[(j - 1) + 1]
          BY <1>2, <5>1, <5>2, Popped DEF TypeOK, MayWake
        <5>4. (j - 1) + 1 = j
          BY <5>2
        <5> QED
          BY <2>1, <5>1, <5>3, <5>4
      <4> QED
        BY <4>1, <4>2, <4>3
    <3> QED
      BY <3>1, <3>2, <3>3 DEF Once
  <2>7. NoneStranded'
    BY <2>1, <2>2, <2>3 DEF TypeOK, NoneStranded, Send
  <2> QED
    BY <2>4, <2>5, <2>6, <2>7
<1> QED
  BY <1>1, <1>2

LEMMA GiveUpInv == ASSUME IInv, NEW r \in Request, GiveUp(r) PROVE IInv'
<1> USE Bounds DEF IInv
<1>1. PICK k \in DOMAIN reachabilityObservers :
          /\ reachabilityObservers[k] = r /\ reachabilityObservers' = Without(k)
  BY DEF GiveUp
<1>2. /\ stage[r] = "waiting" /\ Complete(r) /\ owed = 0
      /\ UNCHANGED <<numberOfTries, canceled, plain, reachable>>
  BY <1>1 DEF GiveUp, Once
<1>0. /\ Without(k) \in Seq(Request)
      /\ DOMAIN reachabilityObservers \subseteq Nat
      /\ \A i \in DOMAIN Without(k) :
            \E x \in DOMAIN reachabilityObservers \ {k} :
                /\ Without(k)[i] = reachabilityObservers[x]
                /\ i = IF x < k THEN x ELSE x - 1
      /\ \A x \in DOMAIN reachabilityObservers \ {k} :
            \E i \in DOMAIN Without(k) : Without(k)[i] = reachabilityObservers[x]
  <2>1. reachabilityObservers \in Seq(Request)
    BY DEF TypeOK
  <2>2. ASSUME NEW x \in DOMAIN reachabilityObservers \ {k}
        PROVE  \E i \in DOMAIN Without(k) : Without(k)[i] = reachabilityObservers[x]
    <3> DEFINE i == IF x < k THEN x ELSE x - 1
    <3>1. i \in DOMAIN Without(k) /\ Without(k)[i] = reachabilityObservers[x]
      BY <2>1, Removed
    <3> QED
      BY <3>1
  <2> QED
    BY <2>1, <2>2, Removed
<1>3. TypeOK'
  <2>1. reachabilityObservers' \in Seq(Request)
    BY <1>1, <1>0
  <2>2. /\ stage' \in [Request -> Stage] /\ completed' \in [Request -> Nat]
        /\ wrapped' \in [Request -> Nat] /\ owed' \in Nat
    BY <1>2, CompleteTyped
  <2> QED
    BY <1>2, <2>1, <2>2 DEF TypeOK
<1>4. Tries'
  BY <1>2 DEF TypeOK, Tries, Complete
<1>5. Once'
  <2>1. ASSUME NEW q \in Request PROVE /\ completed'[q] = IF stage'[q] = "done" THEN 1 ELSE 0
                                       /\ stage'[q] = "dropped" => canceled'[q]
    <3>1. /\ canceled' = canceled
          /\ q = r => stage'[q] = "done" /\ completed'[q] = completed[q] + 1
          /\ q # r => stage'[q] = stage[q] /\ completed'[q] = completed[q]
      BY <1>2 DEF TypeOK, Complete
    <3>2. q = r => completed[q] = 0
      BY <1>2 DEF Once
    <3> QED
      BY <3>1, <3>2 DEF Once
  <2>2. ASSUME NEW q \in Request, NEW i \in DOMAIN Without(k), NEW j \in DOMAIN Without(k),
               Without(k)[i] = q, Without(k)[j] = q
        PROVE  i = j
    <3>1. PICK x \in DOMAIN reachabilityObservers : /\ reachabilityObservers[x] = q
                                                    /\ i = IF x < k THEN x ELSE x - 1
      BY <1>0, <2>2
    <3>2. PICK y \in DOMAIN reachabilityObservers : /\ reachabilityObservers[y] = q
                                                    /\ j = IF y < k THEN y ELSE y - 1
      BY <1>0, <2>2
    <3>3. x = y
      BY <3>1, <3>2 DEF Once
    <3> QED
      BY <3>1, <3>2, <3>3
  <2>3. ASSUME NEW q \in Request
        PROVE  stage'[q] = "waiting" <=> \E i \in DOMAIN Without(k) : Without(k)[i] = q
    <3>1. stage'[q] = "waiting" <=> stage[q] = "waiting" /\ q # r
      BY <1>2 DEF TypeOK, Complete
    <3>2. ASSUME NEW i \in DOMAIN Without(k), Without(k)[i] = q
          PROVE  stage[q] = "waiting" /\ q # r
      <4>1. PICK x \in DOMAIN reachabilityObservers \ {k} : reachabilityObservers[x] = q
        BY <1>0, <3>2
      <4> QED
        BY <1>1, <4>1 DEF Once
    <3>3. ASSUME stage[q] = "waiting", q # r
          PROVE  \E i \in DOMAIN Without(k) : Without(k)[i] = q
      <4>1. PICK x \in DOMAIN reachabilityObservers : reachabilityObservers[x] = q
        BY <3>3 DEF Once
      <4>2. x \in DOMAIN reachabilityObservers \ {k}
        BY <1>1, <3>3, <4>1
      <4> QED
        BY <1>0, <4>1, <4>2
    <3> QED
      BY <3>1, <3>2, <3>3
  <2> QED
    BY <1>1, <2>1, <2>2, <2>3 DEF Once
<1>6. NoneStranded'
  <2>1. CASE wrapped[r] > 0
    BY <1>2, <2>1 DEF NoneStranded, Complete, TypeOK
  <2>2. CASE ~(wrapped[r] > 0)
    <3>1. reachabilityObservers # <<>>
      BY <1>1
    <3>2. \A q \in Request : stage[q] \in {"sent", "delayed"} =>
              stage'[q] = stage[q] /\ wrapped'[q] = wrapped[q]
      BY <1>2 DEF Complete, TypeOK
    <3> QED
      BY <1>2, <3>1, <3>2 DEF NoneStranded
  <2> QED
    BY <2>1, <2>2
<1> QED
  BY <1>3, <1>4, <1>5, <1>6

LEMMA NextInv == IInv /\ [Next]_vars => IInv'
<1> SUFFICES ASSUME IInv, [Next]_vars PROVE IInv'
  OBVIOUS
<1>1. CASE UNCHANGED vars
  BY <1>1 DEF vars, request, network, IInv, TypeOK, Tries, Once, NoneStranded
<1> QED
  BY <1>1, TokenInv, CancelInv, AnsweredInv, NetworkInv, WakeInv, GiveUpInv DEF Next

\* The types of the client's state, for all requests and numbers of tries; a
\* request is sent at most once more than the tries allow, for a new token.
THEOREM ClientTyped == Spec => []TypeOK
BY InitInv, NextInv, PTL DEF Spec, IInv

\* A request completes once, whichever of its retries, timers and observers
\* comes first, and waits for the network in one place.
THEOREM CompletesOnce == Spec => []Once
BY InitInv, NextInv, PTL DEF Spec, IInv

\* The chain of wake-ups does not break: requests wait for a network that is
\* there only behind one that was woken and is still out.
THEOREM ChainUnbroken == Spec => []NoneStranded
BY InitInv, NextInv, PTL DEF Spec, IInv

\* A request that is canceled while it waits for the network is not sent.
THEOREM NotWoken == Spec => CanceledNotWoken
<1> DEFINE Kept == \A r \in Request : stage[r] = "waiting" /\ canceled[r]
                                         => stage'[r] \in {"waiting", "done", "dropped"}
<1>1. IInv /\ [Next]_vars => [Kept]_vars
  <2> SUFFICES ASSUME IInv, Next, NEW q \in Request, stage[q] = "waiting", canceled[q]
               PROVE  stage'[q] \in {"waiting", "done", "dropped"}
    OBVIOUS
  <2> USE DEF IInv, TypeOK, network, request
  <2>1. ASSUME NEW r \in Request, Make(r) \/ Cancel(r) \/ TokenAnswered(r) \/ Retry(r) \/ GiveUp(r)
        PROVE  stage'[q] \in {"waiting", "done", "dropped"}
    BY <2>1 DEF Make, Cancel, TokenAnswered, TokenGiven, TokenRefused, Retry, GiveUp, Send, Complete
  <2>2. ASSUME NEW r \in Request, Answered(r)
        PROVE  stage'[q] \in {"waiting", "done", "dropped"}
    BY <2>2 DEF Answered, Ends, TokenUnknown, Limited, NoResponse, Complete
  <2>3. ASSUME NEW up \in BOOLEAN, NetworkChanges(up)
        PROVE  stage'[q] \in {"waiting", "done", "dropped"}
    BY <2>3 DEF NetworkChanges
  <2>4. CASE WakeNext
    BY <2>4 DEF WakeNext, Send
  <2> QED
    BY <2>1, <2>2, <2>3, <2>4 DEF Next
<1> QED
  BY <1>1, InitInv, NextInv, PTL DEF Spec, CanceledNotWoken
=============================================================================
