-------------------------- MODULE RapUdpLinkProofs --------------------------
(***************************************************************************)
(* Theorems about RapUdpLink, for any threads, operations, configuration,  *)
(* number of transaction ids, of calls and of mishaps.                     *)
(***************************************************************************)
EXTENDS RapUdpLink, RapLinkProofs

-----------------------------------------------------------------------------
(* What the network does to a queue.                                        *)

LEMMA RemovedOne ==
    ASSUME NEW T, NEW q \in Seq(T), NEW i \in DOMAIN q
    PROVE  /\ S!RemoveAt(q, i) \in Seq(T)
           /\ Len(S!RemoveAt(q, i)) = Len(q) - 1
           /\ \A j \in 1 .. Len(q) - 1 :
                 S!RemoveAt(q, i)[j] = IF j < i THEN q[j] ELSE q[j + 1]
<1> DEFINE u == SubSeq(q, 1, i - 1)
           v == SubSeq(q, i + 1, Len(q))
<1>1. i \in 1 .. Len(q) /\ Len(q) \in Nat
  OBVIOUS
<1>2. /\ u \in Seq(T) /\ Len(u) = i - 1
      /\ \A j \in 1 .. i - 1 : u[j] = q[j]
  BY <1>1
<1>3. /\ v \in Seq(T) /\ Len(v) = Len(q) - i
      /\ \A j \in 1 .. Len(q) - i : v[j] = q[i + j]
  BY <1>1
<1> HIDE DEF u, v
<1>4. /\ u \o v \in Seq(T) /\ Len(u \o v) = Len(q) - 1
      /\ \A j \in 1 .. Len(q) - 1 :
            (u \o v)[j] = IF j <= i - 1 THEN u[j] ELSE v[j - (i - 1)]
  <2>1. /\ u \o v \in Seq(T) /\ Len(u \o v) = Len(u) + Len(v)
        /\ \A j \in 1 .. Len(u) + Len(v) :
              (u \o v)[j] = IF j <= Len(u) THEN u[j] ELSE v[j - Len(u)]
    BY <1>2, <1>3, ConcatProperties
  <2>2. Len(u) = i - 1 /\ Len(u) + Len(v) = Len(q) - 1
    BY <1>1, <1>2, <1>3
  <2> QED
    BY <2>1, <2>2
<1>5. ASSUME NEW j \in 1 .. Len(q) - 1
      PROVE  (u \o v)[j] = IF j < i THEN q[j] ELSE q[j + 1]
  <2>1. CASE j < i
    <3>1. j <= i - 1 /\ j \in 1 .. i - 1
      BY <1>1, <2>1
    <3> QED
      BY <1>2, <1>4, <2>1, <3>1
  <2>2. CASE j >= i
    <3>1. j - (i - 1) \in 1 .. Len(q) - i /\ i + (j - (i - 1)) = j + 1
      BY <1>1, <2>2
    <3>2. ~(j <= i - 1) /\ ~(j < i)
      BY <1>1, <2>2
    <3>3. (u \o v)[j] = v[j - (i - 1)] /\ v[j - (i - 1)] = q[i + (j - (i - 1))]
      BY <1>3, <1>4, <3>1, <3>2
    <3> QED
      BY <3>1, <3>2, <3>3
  <2>3. j < i \/ j >= i
    BY <1>1
  <2> QED
    BY <2>1, <2>2, <2>3
<1> QED
  BY <1>4, <1>5 DEF u, v, S!RemoveAt

\* A datagram less, a copy more, or the same ones in another order.
Fewer(q, r) ==
    /\ Len(r) = Len(q) - 1
    /\ Range(r) \subseteq Range(q)
    /\ \E x \in Range(q) : Range(q) = Range(r) \cup {x}

More(q, r) == Len(r) = Len(q) + 1 /\ Range(r) = Range(q)

Reordered(q, r) == Len(q) >= 2 /\ Len(r) = Len(q) /\ Range(r) = Range(q)

LEMMA Loses ==
    ASSUME NEW T, NEW q \in Seq(T), NEW r \in WithoutOne(q)
    PROVE  r \in Seq(T) /\ Fewer(q, r)
<1>1. PICK i \in DOMAIN q : r = S!RemoveAt(q, i)
  BY DEF WithoutOne
<1>2. /\ r \in Seq(T) /\ Len(r) = Len(q) - 1
      /\ \A j \in 1 .. Len(q) - 1 : r[j] = IF j < i THEN q[j] ELSE q[j + 1]
  BY <1>1, RemovedOne
<1>3. /\ DOMAIN q = 1 .. Len(q) /\ DOMAIN r = 1 .. Len(q) - 1
      /\ Len(q) \in Nat /\ i \in 1 .. Len(q)
  BY <1>2
<1>4. Range(r) \subseteq Range(q)
  BY <1>2, <1>3 DEF Range
<1>5. ASSUME NEW k \in DOMAIN q, k # i
      PROVE  q[k] \in Range(r)
  <2>1. CASE k < i
    BY <1>2, <1>3, <2>1 DEF Range
  <2>2. CASE k > i
    <3>1. k - 1 \in 1 .. Len(q) - 1 /\ ~(k - 1 < i) /\ k - 1 + 1 = k
      BY <1>3, <2>2
    <3>2. r[k - 1] = q[k]
      BY <1>2, <3>1
    <3> QED
      BY <1>3, <3>1, <3>2 DEF Range
  <2> QED
    BY <1>3, <1>5, <2>1, <2>2
<1>6. q[i] \in Range(q) /\ Range(q) = Range(r) \cup {q[i]}
  BY <1>4, <1>5 DEF Range
<1> QED
  BY <1>2, <1>4, <1>6 DEF Fewer

LEMMA Copies ==
    ASSUME NEW T, NEW q \in Seq(T), NEW r \in WithCopy(q)
    PROVE  r \in Seq(T) /\ More(q, r)
<1>1. PICK i \in DOMAIN q, j \in 1 .. Len(q) + 1 : r = S!InsertAt(q, j, q[i])
  BY DEF WithCopy
<1> DEFINE u == SubSeq(q, 1, j - 1)
           v == SubSeq(q, j, Len(q))
           w == u \o <<q[i]>>
<1>2. i \in 1 .. Len(q) /\ Len(q) \in Nat /\ q[i] \in T
  OBVIOUS
<1>3. /\ u \in Seq(T) /\ Len(u) = j - 1
      /\ \A k \in 1 .. j - 1 : u[k] = q[k]
  BY <1>2
<1>4. /\ v \in Seq(T) /\ Len(v) = Len(q) - j + 1
      /\ \A k \in 1 .. Len(q) - j + 1 : v[k] = q[j + k - 1]
  BY <1>2
<1> HIDE DEF u, v
<1>5. /\ w \in Seq(T) /\ Len(w) = j /\ w[j] = q[i]
      /\ \A k \in 1 .. j - 1 : w[k] = q[k]
  <2>1. <<q[i]>> \in Seq(T) /\ Len(<<q[i]>>) = 1 /\ <<q[i]>>[1] = q[i]
    BY <1>2
  <2>2. PICK e \in Seq(T) : e = <<q[i]>> /\ Len(e) = 1 /\ e[1] = q[i]
    BY <2>1, Zenon
  <2>3. /\ u \o e \in Seq(T) /\ Len(u \o e) = j /\ (u \o e)[j] = e[1]
        /\ \A k \in 1 .. j - 1 : (u \o e)[k] = u[k]
    BY <1>3, <2>2
  <2> QED
    BY <1>3, <2>2, <2>3, Zenon
<1>6. r = w \o v
  BY <1>1 DEF u, v, S!InsertAt
<1> HIDE DEF w
<1>7. /\ r \in Seq(T) /\ Len(r) = Len(q) + 1 /\ r[j] = q[i]
      /\ \A k \in 1 .. j - 1 : r[k] = q[k]
      /\ \A k \in j + 1 .. Len(q) + 1 : r[k] = q[k - 1]
  <2>1. r \in Seq(T) /\ Len(r) = Len(q) + 1
    <3>1. w \o v \in Seq(T) /\ Len(w \o v) = Len(w) + Len(v)
      BY <1>4, <1>5, ConcatProperties
    <3> QED
      BY <1>2, <1>4, <1>5, <1>6, <3>1
  <2>2. \A k \in 1 .. Len(q) + 1 : r[k] = IF k <= j THEN w[k] ELSE v[k - j]
    BY <1>2, <1>4, <1>5, <1>6, ConcatProperties
  <2>3. \A k \in j + 1 .. Len(q) + 1 : v[k - j] = q[k - 1]
    <3> SUFFICES ASSUME NEW k \in j + 1 .. Len(q) + 1 PROVE v[k - j] = q[k - 1]
      OBVIOUS
    <3>1. k - j \in 1 .. Len(q) - j + 1 /\ j + (k - j) - 1 = k - 1
      BY <1>2
    <3> QED
      BY <1>4, <3>1
  <2>4. r[j] = q[i] /\ \A k \in 1 .. j - 1 : r[k] = q[k]
    BY <1>2, <1>5, <2>2
  <2>5. ASSUME NEW k \in j + 1 .. Len(q) + 1
        PROVE  r[k] = q[k - 1]
    <3>1. k \in 1 .. Len(q) + 1 /\ ~(k <= j)
      BY <1>2
    <3> QED
      BY <2>2, <2>3, <3>1
  <2> QED
    BY <2>1, <2>4, <2>5
<1>8. DOMAIN r = 1 .. Len(q) + 1 /\ DOMAIN q = 1 .. Len(q)
  BY <1>7
<1>9. Range(r) \subseteq Range(q)
  <2> SUFFICES ASSUME NEW k \in DOMAIN r PROVE r[k] \in Range(q)
    BY DEF Range
  <2>1. CASE k < j
    BY <1>2, <1>7, <1>8, <2>1 DEF Range
  <2>2. CASE k = j
    BY <1>2, <1>7, <1>8, <2>2 DEF Range
  <2>3. CASE k > j
    BY <1>2, <1>7, <1>8, <2>3 DEF Range
  <2> QED
    BY <1>2, <1>8, <2>1, <2>2, <2>3
<1>10. Range(q) \subseteq Range(r)
  <2> SUFFICES ASSUME NEW k \in DOMAIN q PROVE q[k] \in Range(r)
    BY DEF Range
  <2>1. CASE k < j
    BY <1>2, <1>7, <1>8, <2>1 DEF Range
  <2>2. CASE k >= j
    <3>1. k + 1 \in j + 1 .. Len(q) + 1 /\ k + 1 \in DOMAIN r
      BY <1>8, <2>2
    <3>2. r[k + 1] = q[k]
      BY <1>2, <1>7, <1>8, <3>1
    <3> QED
      BY <3>1, <3>2 DEF Range
  <2> QED
    BY <1>2, <1>8, <2>1, <2>2
<1> QED
  BY <1>7, <1>9, <1>10 DEF More

LEMMA Overtakes ==
    ASSUME NEW T, NEW q \in Seq(T), NEW r \in WithOvertaking(q)
    PROVE  r \in Seq(T) /\ Reordered(q, r)
<1>1. PICK i \in 2 .. Len(q) : r = <<q[i]>> \o S!RemoveAt(q, i)
  BY DEF WithOvertaking
<1> DEFINE p == S!RemoveAt(q, i)
<1>2. i \in DOMAIN q /\ Len(q) >= 2 /\ Len(q) \in Nat /\ q[i] \in T
  OBVIOUS
<1>3. p \in WithoutOne(q)
  BY <1>2 DEF WithoutOne
<1>4. /\ p \in Seq(T) /\ Len(p) = Len(q) - 1
      /\ \A j \in 1 .. Len(q) - 1 : p[j] = IF j < i THEN q[j] ELSE q[j + 1]
  BY <1>2, RemovedOne
<1>5. Range(p) \subseteq Range(q)
  BY <1>3, Loses DEF Fewer
<1> HIDE DEF p
<1>6. /\ r \in Seq(T) /\ Len(r) = Len(q) /\ r[1] = q[i]
      /\ \A j \in 2 .. Len(q) : r[j] = p[j - 1]
  <2>1. r = <<q[i]>> \o p
    BY <1>1 DEF p
  <2> QED
    BY <1>2, <1>4, <2>1
<1>7. DOMAIN r = 1 .. Len(q) /\ DOMAIN q = 1 .. Len(q) /\ DOMAIN p = 1 .. Len(q) - 1
  BY <1>4, <1>6
<1>8. Range(r) \subseteq Range(q)
  <2> SUFFICES ASSUME NEW j \in DOMAIN r PROVE r[j] \in Range(q)
    BY DEF Range
  <2>1. CASE j = 1
    BY <1>2, <1>6, <2>1 DEF Range
  <2>2. CASE j # 1
    <3>1. j \in 2 .. Len(q) /\ j - 1 \in DOMAIN p
      BY <1>2, <1>7, <2>2
    <3> QED
      BY <1>5, <1>6, <3>1 DEF Range
  <2> QED
    BY <2>1, <2>2
<1>9. Range(q) \subseteq Range(r)
  <2> SUFFICES ASSUME NEW k \in DOMAIN q PROVE q[k] \in Range(r)
    BY DEF Range
  <2>1. CASE k = i
    BY <1>2, <1>6, <1>7, <2>1 DEF Range
  <2>2. CASE k < i
    <3>1. k \in 1 .. Len(q) - 1 /\ k + 1 \in 2 .. Len(q)
      BY <1>2, <1>7, <2>2
    <3>2. r[k + 1] = q[k]
      BY <1>4, <1>6, <2>2, <3>1
    <3> QED
      BY <1>7, <3>1, <3>2 DEF Range
  <2>3. CASE k > i
    <3>1. k - 1 \in 1 .. Len(q) - 1 /\ ~(k - 1 < i) /\ k \in 2 .. Len(q)
      BY <1>2, <1>7, <2>3
    <3>2. r[k] = p[k - 1] /\ p[k - 1] = q[k]
      BY <1>4, <1>6, <3>1
    <3> QED
      BY <1>7, <3>2 DEF Range
  <2> QED
    BY <1>2, <1>7, <2>1, <2>2, <2>3
<1> QED
  BY <1>2, <1>6, <1>8, <1>9 DEF Reordered

-----------------------------------------------------------------------------
(* Type correctness.                                                        *)

LEMMA MishapCounted ==
    ASSUME UdpTypeOK, NEW m \in Mishaps, Happens(m)
    PROVE  /\ mishaps' \in [Mishaps -> 0 .. MaxMishaps]
           /\ mishaps'[m] = mishaps[m] + 1
           /\ \A n \in Mishaps : n # m => mishaps'[n] = mishaps[n]
<1>1. mishaps \in [Mishaps -> 0 .. MaxMishaps] /\ MaxMishaps \in Nat
  BY MishapsAssumption DEF UdpTypeOK
<1>2. \A n \in {"lose", "copy_command", "copy_response", "overtake", "corrupt"} :
         mishaps[n] \in Nat /\ mishaps[n] <= MaxMishaps
  BY <1>1 DEF Mishaps
<1>3. mishaps[m] < MaxMishaps
  BY <1>1, <1>2 DEF Happens, SoFar, Mishaps
<1> QED
  BY <1>1, <1>2, <1>3 DEF Happens, Mishaps

\* What the network may do to the two queues.
LEMMA MishapEffect ==
    ASSUME UdpTypeOK, NetworkMishap
    PROVE  /\ UNCHANGED <<clientVars, serverVars, socket_error>>
           /\ mishaps' \in [Mishaps -> 0 .. MaxMishaps]
           /\ c2s' \in Seq(CallNumbers) /\ s2c' \in Seq(Response)
           /\ Range(c2s') \subseteq Range(c2s)
           /\ Range(s2c') \subseteq Range(s2c)
           /\ \/ /\ mishaps'["copy_command"] = mishaps["copy_command"]
                 /\ mishaps'["copy_response"] = mishaps["copy_response"]
                 /\ \/ Fewer(c2s, c2s') /\ s2c' = s2c
                    \/ Fewer(s2c, s2c') /\ c2s' = c2s
                    \/ Reordered(c2s, c2s') /\ s2c' = s2c
                    \/ Reordered(s2c, s2c') /\ c2s' = c2s
              \/ /\ mishaps'["copy_command"] = mishaps["copy_command"] + 1
                 /\ mishaps'["copy_response"] = mishaps["copy_response"]
                 /\ More(c2s, c2s') /\ s2c' = s2c
              \/ /\ mishaps'["copy_command"] = mishaps["copy_command"]
                 /\ mishaps'["copy_response"] = mishaps["copy_response"] + 1
                 /\ More(s2c, s2c') /\ c2s' = c2s
<1>1. c2s \in Seq(CallNumbers) /\ s2c \in Seq(Response)
  BY DEF UdpTypeOK, TypeOK
<1>2. UNCHANGED <<clientVars, serverVars, socket_error>>
  BY DEF NetworkMishap
<1>3. {"lose", "overtake", "copy_command", "copy_response"} \subseteq Mishaps
  BY DEF Mishaps
<1>4. CASE Happens("lose") /\ c2s' \in WithoutOne(c2s) /\ UNCHANGED s2c
  BY <1>1, <1>2, <1>3, <1>4, MishapCounted, Loses DEF Fewer
<1>5. CASE Happens("lose") /\ s2c' \in WithoutOne(s2c) /\ UNCHANGED c2s
  BY <1>1, <1>2, <1>3, <1>5, MishapCounted, Loses DEF Fewer
<1>6. CASE Happens("copy_command") /\ c2s' \in WithCopy(c2s) /\ UNCHANGED s2c
  BY <1>1, <1>2, <1>3, <1>6, MishapCounted, Copies DEF More
<1>7. CASE Happens("copy_response") /\ s2c' \in WithCopy(s2c) /\ UNCHANGED c2s
  BY <1>1, <1>2, <1>3, <1>7, MishapCounted, Copies DEF More
<1>8. CASE Happens("overtake") /\ c2s' \in WithOvertaking(c2s) /\ UNCHANGED s2c
  BY <1>1, <1>2, <1>3, <1>8, MishapCounted, Overtakes DEF Reordered
<1>9. CASE Happens("overtake") /\ s2c' \in WithOvertaking(s2c) /\ UNCHANGED c2s
  BY <1>1, <1>2, <1>3, <1>9, MishapCounted, Overtakes DEF Reordered
<1> QED
  BY <1>4, <1>5, <1>6, <1>7, <1>8, <1>9 DEF NetworkMishap

LEMMA PoppedType ==
    ASSUME NEW T, NEW q \in Seq(T), q # <<>>
    PROVE  /\ Popped(q) \in Seq(T) /\ Len(Popped(q)) = Len(q) - 1
           /\ Head(q) \in T /\ Range(q) = Range(Popped(q)) \cup {Head(q)}
           /\ Head(q) = q[1] /\ 1 \in DOMAIN q
           /\ \A i \in DOMAIN Popped(q) :
                 i + 1 \in DOMAIN q /\ Popped(q)[i] = q[i + 1]
<1>1. /\ Popped(q) \in Seq(T) /\ Len(Popped(q)) = Len(q) - 1 /\ Len(q) \in Nat
      /\ Head(q) = q[1] /\ Len(q) > 0 /\ Head(q) \in T
      /\ \A i \in DOMAIN Popped(q) :
            i + 1 \in DOMAIN q /\ Popped(q)[i] = q[i + 1]
  BY DEF Popped
<1>2. DOMAIN q = 1 .. Len(q) /\ DOMAIN Popped(q) = 1 .. Len(q) - 1
  BY <1>1
<1>3. \A i \in DOMAIN q : q[i] = q[1] \/ q[i] \in Range(Popped(q))
  <2> SUFFICES ASSUME NEW i \in DOMAIN q, i # 1 PROVE q[i] \in Range(Popped(q))
    OBVIOUS
  <2>1. i - 1 \in DOMAIN Popped(q) /\ i - 1 + 1 = i
    BY <1>1, <1>2
  <2>2. Popped(q)[i - 1] = q[i]
    BY <1>1, <2>1
  <2> QED
    BY <2>1, <2>2 DEF Range
<1>4. Range(Popped(q)) \subseteq Range(q) /\ q[1] \in Range(q)
  BY <1>1, <1>2 DEF Range
<1>5. Range(q) = Range(Popped(q)) \cup {Head(q)}
  BY <1>1, <1>3, <1>4 DEF Range
<1> QED
  BY <1>1, <1>2, <1>5

\* A queue may lose some of what is in it.
LEMMA QueuesTyped ==
    ASSUME TypeOK, Numbered, UNCHANGED <<clientVars, serverVars>>,
           c2s' \in Seq(CallNumbers), s2c' \in Seq(Response),
           Range(c2s') \subseteq Range(c2s), Range(s2c') \subseteq Range(s2c)
    PROVE  TypeOK' /\ Numbered'
<1>1. TypeOK'
  BY DEF TypeOK, clientVars, serverVars
<1>2. \A i \in DOMAIN c2s' : \E j \in DOMAIN c2s : c2s'[i] = c2s[j]
  BY DEF Range
<1>3. \A i \in DOMAIN s2c' : \E j \in DOMAIN s2c : s2c'[i] = s2c[j]
  BY DEF Range
<1>4. Numbered'
  BY <1>2, <1>3 DEF Numbered, clientVars, serverVars
<1> QED
  BY <1>1, <1>4

\* A call ends without an answer, and may take a response with it.
LEMMA CallFailsTyped ==
    ASSUME TypeOK, Numbered, NEW t \in Threads, NEW kind \in Outcomes,
           pc[t] # "idle",
           result' = [result EXCEPT ![cur[t]] = Ended(kind)],
           pc' = [pc EXCEPT ![t] = "idle"],
           s2c' = s2c \/ (s2c # <<>> /\ s2c' = Popped(s2c)),
           UNCHANGED <<cur, next_txn_id, calls, c2s, serverVars>>
    PROVE  TypeOK' /\ Numbered'
<1>1. Ended(kind) \in Result
  BY EndedType
<1>2. /\ result' \in Seq(Result) /\ Len(result') = Len(result)
      /\ pc' \in [Threads -> {"idle", "send", "recv"}]
      /\ \A u \in Threads : pc'[u] # "idle" => cur[u] # 0
  BY <1>1, EndCallTyped
<1>3. /\ s2c' \in Seq(Response)
      /\ \A i \in DOMAIN s2c' : \E j \in DOMAIN s2c : s2c'[i] = s2c[j]
  <2>1. s2c \in Seq(Response)
    BY DEF TypeOK
  <2>2. CASE s2c' = s2c
    BY <2>1, <2>2
  <2>3. CASE s2c # <<>> /\ s2c' = Popped(s2c)
    BY <2>1, <2>3, PoppedType
  <2> QED
    BY <2>2, <2>3
<1>4. TypeOK'
  BY <1>2, <1>3 DEF TypeOK, serverVars
<1>5. Numbered'
  BY <1>2, <1>3 DEF Numbered, serverVars
<1> QED
  BY <1>4, <1>5

LEMMA WorkerThrowsTyped ==
    ASSUME TypeOK, Numbered, WorkerThrows
    PROVE  TypeOK' /\ Numbered'
<1>1. TypeOK'
  BY DEF TypeOK, WorkerThrows, clientVars
<1>2. worker # "handle" /\ cmd = 0 /\ Len(calls) \in Nat
  BY DEF WorkerThrows, Numbered, TypeOK
<1>3. Numbered'
  BY <1>2 DEF WorkerThrows, clientVars, Numbered, NoResponse
<1> QED
  BY <1>1, <1>3

LEMMA UdpInitTyped == UdpInit => UdpTypeOK /\ Numbered
<1> SUFFICES ASSUME UdpInit PROVE UdpTypeOK /\ Numbered
  OBVIOUS
<1>1. TypeOK /\ Numbered
  BY InitTyped DEF UdpInit
<1>2. mishaps = [m \in Mishaps |-> 0] /\ socket_error = FALSE
  BY DEF UdpInit
<1>3. mishaps \in [Mishaps -> 0 .. MaxMishaps]
  BY <1>2, MishapsAssumption
<1>4. socket_error \in BOOLEAN
  BY <1>2
<1> QED
  BY <1>1, <1>3, <1>4 DEF UdpTypeOK

LEMMA StepUdpTyped ==
    ASSUME UdpTypeOK, Numbered, [UdpNext]_udpVars
    PROVE  UdpTypeOK' /\ Numbered'
<1>1. TypeOK /\ socket_error \in BOOLEAN /\ mishaps \in [Mishaps -> 0 .. MaxMishaps]
  BY DEF UdpTypeOK
<1>2. CASE NetworkMishap
  BY <1>1, <1>2, MishapEffect, QueuesTyped DEF UdpTypeOK
<1>3. CASE PortUnreachable
  <2>1. c2s \in Seq(CallNumbers) /\ s2c \in Seq(Response)
    BY <1>1 DEF TypeOK
  <2>2. c2s' \in Seq(CallNumbers) /\ Range(c2s') \subseteq Range(c2s)
    BY <1>3, <2>1, PoppedType DEF PortUnreachable
  <2>3. TypeOK' /\ Numbered'
    BY <1>1, <1>3, <2>1, <2>2, QueuesTyped DEF PortUnreachable
  <2> QED
    BY <1>1, <1>3, <2>3 DEF PortUnreachable, UdpTypeOK
<1>4. ASSUME NEW t \in Threads, RecvCorrupted(t)
      PROVE  UdpTypeOK' /\ Numbered'
  <2>1. "undecodable" \in Outcomes /\ "corrupt" \in Mishaps
    BY DEF Outcomes, Mishaps
  <2>2. TypeOK' /\ Numbered'
    BY <1>1, <1>4, <2>1, CallFailsTyped DEF RecvCorrupted
  <2>3. mishaps' \in [Mishaps -> 0 .. MaxMishaps]
    BY <1>4, <2>1, MishapCounted DEF RecvCorrupted
  <2> QED
    BY <1>1, <1>4, <2>2, <2>3 DEF RecvCorrupted, UdpTypeOK
<1>5. ASSUME NEW t \in Threads, TransportFails(t)
      PROVE  UdpTypeOK' /\ Numbered'
  <2>1. "error" \in Outcomes
    BY DEF Outcomes
  <2>2. TypeOK' /\ Numbered'
    BY <1>1, <1>5, <2>1, CallFailsTyped DEF TransportFails
  <2> QED
    BY <1>1, <1>5, <2>2 DEF TransportFails, UdpTypeOK
<1>6. CASE WorkerThrows
  <2>1. TypeOK' /\ Numbered'
    BY <1>1, <1>6, WorkerThrowsTyped
  <2> QED
    BY <1>1, <1>6, <2>1 DEF WorkerThrows, UdpTypeOK
<1>7. ASSUME UNCHANGED <<socket_error, mishaps>>, TypeOK', Numbered'
      PROVE  UdpTypeOK' /\ Numbered'
  BY <1>1, <1>7 DEF UdpTypeOK
<1>8. ASSUME UNCHANGED <<socket_error, mishaps>>,
             NEW t \in Threads, (\E op \in Ops : Begin(t, op)) \/ ThreadStep(t)
      PROVE  UdpTypeOK' /\ Numbered'
  BY <1>1, <1>7, <1>8, BeginTyped, RefuseTyped, SendTyped, RecvTyped DEF ThreadStep
<1>9. CASE UNCHANGED <<socket_error, mishaps>> /\ (WorkerStep \/ RequestStop)
  BY <1>1, <1>7, <1>9, WorkerRecvTyped, WorkerStopTyped, WorkerDecodeThrowsTyped,
     WorkerHandleTyped, WorkerSendTyped, RequestStopTyped DEF WorkerStep
<1>10. CASE UNCHANGED udpVars
  BY <1>1, <1>7, <1>10, StepTyped DEF udpVars
<1> QED
  BY <1>2, <1>3, <1>4, <1>5, <1>6, <1>8, <1>9, <1>10 DEF UdpNext

-----------------------------------------------------------------------------
(* Answers and transaction ids.                                             *)

\* Responses may get lost and commands may do anything.
LEMMA TruthfulQueues ==
    ASSUME Truthful, UNCHANGED <<calls, performed>>, AnswerIsTheTargets',
           Range(s2c') \subseteq Range(s2c), resp' \in {resp, NoResponse}
    PROVE  Truthful'
<1>1. \A i \in DOMAIN s2c' : \E j \in DOMAIN s2c : s2c'[i] = s2c[j]
  BY DEF Range
<1> QED
  BY <1>1 DEF Truthful

LEMMA CallFailsTruthful ==
    ASSUME TypeOK, Numbered, Truthful, NEW t \in Threads,
           NEW kind \in Outcomes \ {"ack", "nak"}, pc[t] # "idle",
           result' = [result EXCEPT ![cur[t]] = Ended(kind)],
           UNCHANGED <<calls, performed>>
    PROVE  AnswerIsTheTargets'
<1>1. Ended(kind) \in Result
  BY EndedType
<1>2. TrueFor(cur[t], Ended(kind))
  BY DEF TrueFor, Ended
<1> QED
  BY <1>1, <1>2, EndCallTruthful

LEMMA StepUdpTruthful ==
    ASSUME UdpTypeOK, Numbered, Truthful, [UdpNext]_udpVars
    PROVE  Truthful'
<1>1. TypeOK /\ s2c \in Seq(Response)
  BY DEF UdpTypeOK, TypeOK
<1>2. ASSUME UNCHANGED <<calls, result, performed>>
      PROVE  AnswerIsTheTargets'
  BY <1>2 DEF Truthful, AnswerIsTheTargets
<1>3. CASE NetworkMishap
  <2>1. UNCHANGED <<calls, result, performed, resp>>
    BY <1>3, MishapEffect DEF clientVars, serverVars
  <2> QED
    BY <1>2, <1>3, <2>1, MishapEffect, TruthfulQueues
<1>4. CASE PortUnreachable \/ WorkerThrows
  <2>1. UNCHANGED <<calls, result, performed, s2c>> /\ resp' \in {resp, NoResponse}
    BY <1>4 DEF PortUnreachable, WorkerThrows, clientVars, serverVars
  <2> QED
    BY <1>2, <2>1, TruthfulQueues
<1>5. ASSUME NEW t \in Threads, RecvCorrupted(t)
      PROVE  Truthful'
  <2>1. "undecodable" \in Outcomes \ {"ack", "nak"}
    BY DEF Outcomes
  <2>2. /\ UNCHANGED <<calls, performed, resp>> /\ pc[t] # "idle"
        /\ result' = [result EXCEPT ![cur[t]] = Ended("undecodable")]
    BY <1>5 DEF RecvCorrupted, serverVars
  <2>3. AnswerIsTheTargets'
    BY <1>1, <2>1, <2>2, CallFailsTruthful
  <2>4. Range(s2c') \subseteq Range(s2c)
    BY <1>1, <1>5, PoppedType DEF RecvCorrupted
  <2> QED
    BY <2>2, <2>3, <2>4, TruthfulQueues
<1>6. ASSUME NEW t \in Threads, TransportFails(t)
      PROVE  Truthful'
  <2>1. "error" \in Outcomes \ {"ack", "nak"}
    BY DEF Outcomes
  <2>2. /\ UNCHANGED <<calls, performed, resp, s2c>> /\ pc[t] # "idle"
        /\ result' = [result EXCEPT ![cur[t]] = Ended("error")]
    BY <1>6 DEF TransportFails, serverVars
  <2>3. AnswerIsTheTargets'
    BY <1>1, <2>1, <2>2, CallFailsTruthful
  <2> QED
    BY <2>2, <2>3, TruthfulQueues
<1>7. ASSUME NEW t \in Threads, Send(t)
      PROVE  Truthful'
  BY <1>7, TruthfulFrame DEF Send, serverVars
<1>8. ASSUME NEW t \in Threads, (\E op \in Ops : Begin(t, op)) \/ ThreadStep(t)
      PROVE  Truthful'
  BY <1>1, <1>7, <1>8, BeginTruthful, FailTruthful, RecvTruthful DEF ThreadStep
<1>9. CASE WorkerRecv \/ WorkerStop \/ WorkerDecodeThrows \/ RequestStop
           \/ UNCHANGED udpVars
  BY <1>9, TruthfulFrame DEF WorkerRecv, WorkerStop, WorkerDecodeThrows,
     RequestStop, udpVars, vars, clientVars, serverVars
<1>10. CASE WorkerStep \/ RequestStop
  BY <1>1, <1>9, <1>10, WorkerHandleTruthful, WorkerSendTruthful DEF WorkerStep
<1> QED
  BY <1>3, <1>4, <1>5, <1>6, <1>8, <1>9, <1>10 DEF UdpNext

LEMMA StepUdpStamped ==
    ASSUME UdpTypeOK, Numbered, Stamped, [UdpNext]_udpVars
    PROVE  Stamped'
<1>1. TypeOK
  BY DEF UdpTypeOK
<1>2. CASE UNCHANGED <<calls, next_txn_id>>
  BY <1>2 DEF Stamped
<1>3. ASSUME NEW t \in Threads, NEW op \in Ops, Begin(t, op)
      PROVE  Stamped'
  BY <1>1, <1>3, BeginStamped
<1>4. CASE NetworkMishap \/ PortUnreachable \/ WorkerThrows
  BY <1>2, <1>4 DEF NetworkMishap, PortUnreachable, WorkerThrows, clientVars
<1>5. ASSUME NEW t \in Threads, RecvCorrupted(t) \/ TransportFails(t) \/ ThreadStep(t)
      PROVE  Stamped'
  BY <1>2, <1>5 DEF RecvCorrupted, TransportFails, ThreadStep, Refuse, Send, Recv
<1>6. CASE WorkerStep \/ RequestStop \/ UNCHANGED udpVars
  BY <1>2, <1>6 DEF WorkerStep, WorkerRecv, WorkerStop, WorkerDecodeThrows,
     WorkerHandle, WorkerSend, RequestStop, udpVars, vars, clientVars
<1> QED
  BY <1>3, <1>4, <1>5, <1>6 DEF UdpNext

\* A response with the id of the call is the call's own, or is a round of ids away.
LEMMA SameIdOrARound ==
    ASSUME UdpTypeOK, Numbered, Truthful, Stamped
    PROVE  OwnOrARoundAway
<1> SUFFICES ASSUME NEW c \in DOMAIN result, result[c].kind \in {"ack", "nak"},
                    result[c].from - c < TxnMod, c - result[c].from < TxnMod
             PROVE  result[c].from = c
  <2>1. \A c \in DOMAIN result : c \in Int /\ result[c].from \in Int
    <3>1. result \in Seq(Result) /\ \A r \in Result : r.from \in Int
      BY DEF UdpTypeOK, TypeOK, Result
    <3> QED
      BY <3>1
  <2> QED
    BY <2>1, BoundsAssumption DEF OwnOrARoundAway
<1> DEFINE f == result[c].from
<1>1. TypeOK /\ TxnMod \in Nat \ {0}
  BY BoundsAssumption DEF UdpTypeOK
<1>2. /\ calls[f].txn = calls[c].txn
      /\ [call |-> f, ok |-> result[c].kind = "ack", data |-> result[c].data]
            \in Range(performed)
  BY DEF Truthful, AnswerIsTheTargets
<1>3. f \in 1 .. Len(calls)
  BY <1>1, <1>2, PerformedAreCalls
<1>4. /\ DOMAIN calls = 1 .. Len(calls) /\ DOMAIN result = 1 .. Len(calls)
      /\ Len(calls) \in Nat
  BY <1>1, CallTyped DEF TypeOK
<1> HIDE DEF f
<1>5. (f - 1) % TxnMod = (c - 1) % TxnMod /\ f - 1 \in Nat /\ c - 1 \in Nat
  BY <1>2, <1>3, <1>4 DEF Stamped
<1>6. f - c < TxnMod /\ c - f < TxnMod
  BY DEF f
<1>7. CASE c <= f
  <2>1. c - 1 <= f - 1 /\ (f - 1) - (c - 1) < TxnMod
    BY <1>3, <1>4, <1>6, <1>7
  <2>2. f - 1 = c - 1
    BY <1>1, <1>5, <2>1, ModApart
  <2> QED
    BY <1>3, <1>4, <2>2 DEF f
<1>8. CASE f <= c
  <2>1. f - 1 <= c - 1 /\ (c - 1) - (f - 1) < TxnMod
    BY <1>3, <1>4, <1>6, <1>8
  <2>2. c - 1 = f - 1
    BY <1>1, <1>5, <2>1, ModApart
  <2> QED
    BY <1>3, <1>4, <2>2 DEF f
<1>9. c <= f \/ f <= c
  BY <1>3, <1>4
<1> QED
  BY <1>7, <1>8, <1>9

-----------------------------------------------------------------------------
(* Nothing is in the pipeline twice, except for the copies.                 *)

Frames == Len(performed) + (IF cmd = 0 THEN 0 ELSE 1) + Len(c2s)

LEMMA PipelineFinite ==
    ASSUME TypeOK, Numbered
    PROVE  /\ InPipeline \subseteq 1 .. Len(calls) /\ Len(calls) \in Nat
           /\ IsFiniteSet(InPipeline) /\ Cardinality(InPipeline) \in Nat
           /\ Frames \in Nat
<1>1. Len(calls) \in Nat /\ Frames \in Nat
  BY DEF TypeOK, Frames
<1>2. InPipeline \subseteq 1 .. Len(calls)
  BY FrameNumbers DEF InPipeline, Range
<1>3. IsFiniteSet(InPipeline)
  <2>1. IsFiniteSet(1 .. Len(calls))
    BY <1>1, FS_Interval
  <2> QED
    BY <1>2, <2>1, FS_Subset
<1> QED
  BY <1>1, <1>2, <1>3, FS_CardinalityType

\* Nobody starts to send, and the pipeline keeps what is in it.
LEMMA PipelineStays ==
    ASSUME UdpTypeOK, Numbered, Unrepeated, UNCHANGED <<calls, cur>>,
           \A t \in Threads : pc'[t] \in {pc[t], "idle"},
           InPipeline' = InPipeline, Frames' = Frames,
           mishaps'["copy_command"] = mishaps["copy_command"]
    PROVE  Unrepeated'
<1>1. \A t \in Threads : pc'[t] # "idle" => pc'[t] = pc[t]
  OBVIOUS
<1> QED
  BY <1>1 DEF Unrepeated, Frames

\* One datagram or command is no more.
LEMMA PipelineLoses ==
    ASSUME UdpTypeOK, Numbered, Unrepeated, UNCHANGED <<calls, cur, pc>>,
           InPipeline' \subseteq InPipeline, NEW x,
           InPipeline \subseteq InPipeline' \cup {x}, Frames' = Frames - 1,
           mishaps'["copy_command"] = mishaps["copy_command"]
    PROVE  Unrepeated'
<1>1. /\ IsFiniteSet(InPipeline) /\ Cardinality(InPipeline) \in Nat
      /\ Frames \in Nat /\ mishaps["copy_command"] \in Nat
  BY PipelineFinite DEF UdpTypeOK, Mishaps
<1>2. IsFiniteSet(InPipeline') /\ Cardinality(InPipeline') \in Nat
  BY <1>1, FS_Subset, FS_CardinalityType
<1>3. /\ IsFiniteSet(InPipeline' \cup {x})
      /\ Cardinality(InPipeline' \cup {x}) <= Cardinality(InPipeline') + 1
  <2>1. /\ IsFiniteSet(InPipeline' \cup {x})
        /\ \/ Cardinality(InPipeline' \cup {x}) = Cardinality(InPipeline')
           \/ Cardinality(InPipeline' \cup {x}) = Cardinality(InPipeline') + 1
    BY <1>2, FS_AddElement
  <2> QED
    BY <1>2, <2>1
<1>4. Cardinality(InPipeline) <= Cardinality(InPipeline' \cup {x})
  BY <1>3, FS_Subset
<1>5. Cardinality(InPipeline' \cup {x}) \in Nat
  BY <1>3, FS_CardinalityType
<1>6. Frames <= Cardinality(InPipeline) + mishaps["copy_command"]
  BY DEF Unrepeated, Frames
<1>7. Frames' <= Cardinality(InPipeline') + mishaps'["copy_command"]
  BY <1>1, <1>2, <1>3, <1>4, <1>5, <1>6
<1> QED
  BY <1>7 DEF Unrepeated, Frames

LEMMA BeginUnrepeated ==
    ASSUME UdpTypeOK, Numbered, Unrepeated, NEW t \in Threads, NEW op \in Ops,
           Begin(t, op), UNCHANGED mishaps
    PROVE  Unrepeated'
<1> DEFINE n == Len(calls)
<1>1. TypeOK
  BY DEF UdpTypeOK
<1>2. /\ n \in Nat /\ \A c \in 1 .. n : calls'[c] = calls[c]
      /\ calls'[n + 1].thread = t
  <2>1. calls' = Append(calls, [thread |-> t, op |-> op, txn |-> next_txn_id])
    BY DEF Begin
  <2>2. calls \in Seq(Call) /\ n \in Nat
    BY <1>1 DEF TypeOK
  <2>3. /\ calls'[n + 1] = [thread |-> t, op |-> op, txn |-> next_txn_id]
        /\ \A c \in 1 .. n : calls'[c] = calls[c]
    BY <2>1, <2>2
  <2> QED
    BY <2>2, <2>3
<1>3. /\ cur' = [cur EXCEPT ![t] = n + 1] /\ pc' = [pc EXCEPT ![t] = "send"]
      /\ UNCHANGED <<c2s, cmd, performed>>
  BY DEF Begin, serverVars
<1>4. InPipeline' = InPipeline /\ Frames' = Frames
  BY <1>3 DEF InPipeline, Frames
<1>5. InPipeline \subseteq 1 .. n
  BY <1>1, PipelineFinite
<1>6. cur \in [Threads -> 0 .. MaxCalls] /\ pc \in [Threads -> {"idle", "send", "recv"}]
  BY <1>1 DEF TypeOK
<1> HIDE DEF n
<1>7. ASSUME NEW u \in Threads, pc'[u] # "idle"
      PROVE  calls'[cur'[u]].thread = u
  <2>1. CASE u = t
    BY <1>2, <1>3, <1>6, <2>1
  <2>2. CASE u # t
    <3>1. pc[u] # "idle" /\ cur'[u] = cur[u]
      BY <1>3, <1>6, <1>7, <2>2
    <3>2. cur[u] \in 1 .. n
      BY <1>1, <3>1, CurrentCall DEF n
    <3> QED
      BY <1>2, <3>1, <3>2 DEF Unrepeated
  <2> QED
    BY <2>1, <2>2
<1>8. ASSUME NEW u \in Threads, pc'[u] = "send"
      PROVE  cur'[u] \notin InPipeline'
  <2>1. CASE u = t
    <3>1. cur'[u] = n + 1 /\ n + 1 \notin 1 .. n
      BY <1>2, <1>3, <1>6, <2>1
    <3> QED
      BY <1>4, <1>5, <3>1
  <2>2. CASE u # t
    BY <1>3, <1>4, <1>6, <1>8, <2>2 DEF Unrepeated
  <2> QED
    BY <2>1, <2>2
<1> QED
  BY <1>4, <1>7, <1>8 DEF Unrepeated, Frames

LEMMA SendUnrepeated ==
    ASSUME UdpTypeOK, Numbered, Unrepeated, NEW t \in Threads, Send(t),
           UNCHANGED mishaps
    PROVE  Unrepeated'
<1>1. TypeOK /\ cur[t] \in 1 .. Len(calls) /\ pc[t] = "send"
  BY CurrentCall DEF UdpTypeOK, Send
<1>2. /\ UNCHANGED <<calls, cur, cmd, performed>>
      /\ pc' = [pc EXCEPT ![t] = "recv"] /\ c2s' = Append(c2s, cur[t])
  BY DEF Send, Pushed, serverVars
<1>3. c2s \in Seq(CallNumbers) /\ pc \in [Threads -> {"idle", "send", "recv"}]
  BY <1>1 DEF TypeOK
<1>4. /\ Len(c2s') = Len(c2s) + 1 /\ DOMAIN c2s' = 1 .. Len(c2s) + 1
      /\ DOMAIN c2s = 1 .. Len(c2s) /\ c2s'[Len(c2s) + 1] = cur[t]
      /\ \A i \in 1 .. Len(c2s) : c2s'[i] = c2s[i] /\ Len(c2s) \in Nat
  BY <1>2, <1>3
<1>5. Range(c2s') = Range(c2s) \cup {cur[t]}
  BY <1>3, <1>4 DEF Range
<1>6. InPipeline' = InPipeline \cup {cur[t]} /\ cur[t] \notin InPipeline
  BY <1>1, <1>2, <1>5 DEF InPipeline, Unrepeated
<1>7. /\ IsFiniteSet(InPipeline) /\ Cardinality(InPipeline) \in Nat
      /\ Frames \in Nat /\ mishaps["copy_command"] \in Nat
  BY <1>1, PipelineFinite DEF UdpTypeOK, Mishaps
<1>8. Cardinality(InPipeline') = Cardinality(InPipeline) + 1
  BY <1>6, <1>7, FS_AddElement
<1>9. Frames' = Frames + 1
  <2>1. Len(performed) \in Nat /\ Len(c2s) \in Nat
    BY <1>1 DEF TypeOK
  <2>2. /\ performed' = performed /\ cmd' = cmd /\ Len(c2s') = Len(c2s) + 1
    BY <1>2, <1>4
  <2>3. CASE cmd = 0
    BY <2>1, <2>2, <2>3 DEF Frames
  <2>4. CASE cmd # 0
    BY <2>1, <2>2, <2>4 DEF Frames
  <2> QED
    BY <2>3, <2>4
<1>10. Frames' <= Cardinality(InPipeline') + mishaps'["copy_command"]
  <2>1. Frames <= Cardinality(InPipeline) + mishaps["copy_command"]
    BY DEF Unrepeated, Frames
  <2> QED
    BY <1>7, <1>8, <1>9, <2>1
<1>11. ASSUME NEW u \in Threads, pc'[u] # "idle"
       PROVE  /\ calls'[cur'[u]].thread = u
              /\ pc'[u] = "send" => cur'[u] \notin InPipeline'
  <2>1. pc[u] # "idle" /\ calls[cur[u]].thread = u /\ calls[cur[t]].thread = t
    BY <1>1, <1>2, <1>3, <1>11 DEF Unrepeated
  <2>2. pc'[u] = "send" => u # t /\ pc[u] = "send"
    BY <1>2, <1>3
  <2> QED
    BY <1>2, <1>6, <2>1, <2>2 DEF Unrepeated
<1> QED
  BY <1>10, <1>11 DEF Unrepeated, Frames

\* The commands in their queue change as the network will.
LEMMA MishapUnrepeated ==
    ASSUME UdpTypeOK, Numbered, Unrepeated, NetworkMishap
    PROVE  Unrepeated'
<1>1. TypeOK /\ UNCHANGED <<calls, cur, pc, cmd, performed>>
  BY MishapEffect DEF UdpTypeOK, clientVars, serverVars
<1>2. /\ Len(performed) \in Nat /\ Len(c2s) \in Nat /\ Frames \in Nat
      /\ Cardinality(InPipeline) \in Nat /\ mishaps["copy_command"] \in Nat
  BY <1>1, PipelineFinite DEF UdpTypeOK, TypeOK, Mishaps
<1>3. CASE /\ mishaps'["copy_command"] = mishaps["copy_command"]
           /\ Range(c2s') = Range(c2s) /\ Len(c2s') = Len(c2s)
  <2>1. InPipeline' = InPipeline /\ Frames' = Frames
    BY <1>1, <1>3 DEF InPipeline, Frames
  <2> QED
    BY <1>1, <1>3, <2>1, PipelineStays
<1>4. CASE /\ mishaps'["copy_command"] = mishaps["copy_command"]
           /\ Fewer(c2s, c2s')
  <2>1. PICK x \in Range(c2s) : Range(c2s) = Range(c2s') \cup {x}
    BY <1>4 DEF Fewer
  <2>2. /\ InPipeline' \subseteq InPipeline
        /\ InPipeline \subseteq InPipeline' \cup {x}
    BY <1>1, <2>1 DEF InPipeline
  <2>3. Frames' = Frames - 1
    BY <1>1, <1>2, <1>4 DEF Fewer, Frames
  <2> QED
    BY <1>1, <1>4, <2>2, <2>3, PipelineLoses
<1>5. CASE /\ mishaps'["copy_command"] = mishaps["copy_command"] + 1
           /\ More(c2s, c2s')
  <2>1. InPipeline' = InPipeline /\ Frames' = Frames + 1
    <3>1. performed' = performed /\ cmd' = cmd
      BY <1>1
    <3>2. Len(c2s') = Len(c2s) + 1 /\ Range(c2s') = Range(c2s)
      BY <1>5 DEF More
    <3>3. InPipeline' = InPipeline
      BY <3>1, <3>2 DEF InPipeline
    <3>4. CASE cmd = 0
      BY <1>2, <3>1, <3>2, <3>3, <3>4 DEF Frames
    <3>5. CASE cmd # 0
      BY <1>2, <3>1, <3>2, <3>3, <3>5 DEF Frames
    <3> QED
      BY <3>4, <3>5
  <2>2. Frames <= Cardinality(InPipeline) + mishaps["copy_command"]
    BY DEF Unrepeated, Frames
  <2>3. Frames' <= Cardinality(InPipeline') + mishaps'["copy_command"]
    BY <1>2, <1>5, <2>1, <2>2
  <2> QED
    BY <1>1, <2>1, <2>3 DEF Unrepeated, Frames
<1> QED
  BY <1>3, <1>4, <1>5, MishapEffect DEF Reordered

LEMMA WorkerUnrepeated ==
    ASSUME UdpTypeOK, Numbered, Unrepeated, UNCHANGED mishaps,
           WorkerRecv \/ WorkerStop \/ WorkerHandle
    PROVE  Unrepeated'
<1>1. TypeOK /\ UNCHANGED <<calls, cur, pc>>
  BY DEF UdpTypeOK, WorkerRecv, WorkerStop, WorkerHandle, clientVars
<1>2. Len(performed) \in Nat /\ c2s \in Seq(CallNumbers) /\ Len(c2s) \in Nat
  BY <1>1 DEF TypeOK
<1>3. CASE WorkerRecv
  <2>1. /\ cmd = 0 /\ cmd' = Head(c2s) /\ c2s' = Popped(c2s) /\ c2s # <<>>
        /\ UNCHANGED performed
    BY <1>3 DEF WorkerRecv, Numbered
  <2>2. /\ Range(c2s) = Range(c2s') \cup {cmd'} /\ Len(c2s') = Len(c2s) - 1
        /\ cmd' \in CallNumbers
    BY <1>2, <2>1, PoppedType
  <2>3. cmd' # 0
    BY <2>2 DEF CallNumbers
  <2>4. InPipeline' = InPipeline /\ Frames' = Frames
    BY <1>2, <2>1, <2>2, <2>3 DEF InPipeline, Frames
  <2> QED
    BY <1>1, <2>4, PipelineStays
<1>4. CASE WorkerStop
  <2>1. cmd' = 0 /\ UNCHANGED <<c2s, performed>>
    BY <1>4 DEF WorkerStop
  <2>2. CASE cmd = 0
    <3>1. InPipeline' = InPipeline /\ Frames' = Frames
      BY <2>1, <2>2 DEF InPipeline, Frames
    <3> QED
      BY <1>1, <3>1, PipelineStays
  <2>3. CASE cmd # 0
    <3>1. /\ InPipeline' \subseteq InPipeline
          /\ InPipeline \subseteq InPipeline' \cup {cmd}
      BY <2>1, <2>3 DEF InPipeline
    <3>2. Frames' = Frames - 1
      BY <1>2, <2>1, <2>3 DEF Frames
    <3> QED
      BY <1>1, <3>1, <3>2, PipelineLoses
  <2> QED
    BY <2>2, <2>3
<1>5. CASE WorkerHandle
  <2>1. /\ cmd # 0 /\ cmd' = 0 /\ performed' = Append(performed, resp')
        /\ UNCHANGED c2s /\ resp'.call = cmd
    BY <1>5 DEF WorkerHandle, Numbered
  <2>2. TypeOK' /\ performed \in Seq(Response) /\ resp' \in Response
    <3>1. TypeOK' /\ performed \in Seq(Response)
      BY <1>1, <1>5, WorkerHandleTyped DEF TypeOK
    <3>2. resp' # NoResponse
      BY <2>1 DEF NoResponse
    <3> QED
      BY <3>1, <3>2 DEF TypeOK
  <2>3. /\ Len(performed') = Len(performed) + 1
        /\ DOMAIN performed = 1 .. Len(performed)
        /\ DOMAIN performed' = 1 .. Len(performed) + 1
        /\ performed'[Len(performed) + 1] = resp'
        /\ \A i \in 1 .. Len(performed) : performed'[i] = performed[i]
    BY <2>1, <2>2
  <2>4. Range(performed') = Range(performed) \cup {resp'}
    BY <1>2, <2>3 DEF Range
  <2>5. InPipeline' = InPipeline
    BY <2>1, <2>4 DEF InPipeline
  <2>6. Frames' = Frames
    BY <1>2, <2>1, <2>3 DEF Frames
  <2> QED
    BY <1>1, <2>5, <2>6, PipelineStays
<1> QED
  BY <1>3, <1>4, <1>5

LEMMA StepUnrepeated ==
    ASSUME UdpTypeOK, Numbered, Unrepeated, [UdpNext]_udpVars
    PROVE  Unrepeated'
<1>1. TypeOK /\ c2s \in Seq(CallNumbers) /\ Len(performed) \in Nat
  BY DEF UdpTypeOK, TypeOK
<1>2. ASSUME UNCHANGED <<calls, cur, c2s, cmd, performed>>,
             \A t \in Threads : pc'[t] \in {pc[t], "idle"},
             mishaps'["copy_command"] = mishaps["copy_command"]
      PROVE  Unrepeated'
  <2>1. InPipeline' = InPipeline /\ Frames' = Frames
    BY <1>2 DEF InPipeline, Frames
  <2> QED
    BY <1>2, <2>1, PipelineStays
<1>3. CASE PortUnreachable
  <2>1. /\ c2s # <<>> /\ c2s' = Popped(c2s)
        /\ UNCHANGED <<calls, cur, pc, cmd, performed, mishaps>>
    BY <1>3 DEF PortUnreachable, clientVars, serverVars
  <2>2. /\ Range(c2s) = Range(c2s') \cup {Head(c2s)} /\ Len(c2s') = Len(c2s) - 1
        /\ Len(c2s) \in Nat
    BY <1>1, <2>1, PoppedType
  <2>3. /\ InPipeline' \subseteq InPipeline
        /\ InPipeline \subseteq InPipeline' \cup {Head(c2s)}
    BY <2>1, <2>2 DEF InPipeline
  <2>4. Frames' = Frames - 1
    BY <1>1, <2>1, <2>2 DEF Frames
  <2> QED
    BY <2>1, <2>3, <2>4, PipelineLoses
<1>4. ASSUME NEW t \in Threads, RecvCorrupted(t)
      PROVE  Unrepeated'
  <2>1. /\ UNCHANGED <<calls, cur, c2s, cmd, performed>>
        /\ pc' = [pc EXCEPT ![t] = "idle"]
    BY <1>4 DEF RecvCorrupted, serverVars
  <2>2. "corrupt" \in Mishaps /\ "copy_command" \in Mishaps /\ Happens("corrupt")
    BY <1>4 DEF RecvCorrupted, Mishaps
  <2>3. mishaps'["copy_command"] = mishaps["copy_command"]
    BY <2>2, MishapCounted
  <2>4. \A u \in Threads : pc'[u] \in {pc[u], "idle"}
    BY <1>1, <2>1 DEF TypeOK
  <2> QED
    BY <1>2, <2>1, <2>3, <2>4
<1>5. ASSUME NEW t \in Threads, TransportFails(t) \/ (UNCHANGED mishaps /\ (Refuse(t) \/ Recv(t)))
      PROVE  Unrepeated'
  <2>1. /\ UNCHANGED <<calls, cur, c2s, cmd, performed, mishaps>>
        /\ pc' = [pc EXCEPT ![t] = "idle"]
    BY <1>5 DEF TransportFails, Refuse, Recv, serverVars
  <2>2. \A u \in Threads : pc'[u] \in {pc[u], "idle"}
    BY <1>1, <2>1 DEF TypeOK
  <2> QED
    BY <1>2, <2>1, <2>2
<1>6. CASE \/ WorkerThrows
           \/ UNCHANGED mishaps /\ (WorkerDecodeThrows \/ WorkerSend \/ RequestStop)
           \/ UNCHANGED udpVars
  <2>1. UNCHANGED <<calls, cur, pc, c2s, cmd, performed, mishaps>>
    BY <1>6 DEF WorkerThrows, WorkerDecodeThrows, WorkerSend, RequestStop,
       udpVars, vars, clientVars, serverVars
  <2> QED
    BY <1>2, <2>1
<1> QED
  BY <1>3, <1>4, <1>5, <1>6, MishapUnrepeated, BeginUnrepeated, SendUnrepeated,
     WorkerUnrepeated DEF UdpNext, ThreadStep, WorkerStep

\* A sequence has no more members than places.
LEMMA RangeCard ==
    ASSUME NEW T, NEW q \in Seq(T)
    PROVE  IsFiniteSet(Range(q)) /\ Cardinality(Range(q)) <= Len(q)
<1>1. Len(q) \in Nat /\ DOMAIN q = 1 .. Len(q)
  OBVIOUS
<1>2. IsFiniteSet(1 .. Len(q)) /\ Cardinality(1 .. Len(q)) = Len(q)
  BY <1>1, FS_Interval
<1>3. q \in Surjection(1 .. Len(q), Range(q))
  BY <1>1 DEF Surjection, Range
<1> QED
  BY <1>2, <1>3, FS_Surjection

LEMMA UnrepeatedMeansCopies ==
    ASSUME UdpTypeOK, Numbered, Unrepeated
    PROVE  RepeatsAreCopies
<1> DEFINE carried == {p.call : p \in Range(performed)}
           held == {cmd} \ {0}
<1>1. /\ TypeOK /\ c2s \in Seq(CallNumbers) /\ performed \in Seq(Response)
      /\ cmd \in Nat /\ mishaps["copy_command"] \in Nat
  BY DEF UdpTypeOK, TypeOK, Mishaps
<1>2. /\ IsFiniteSet(Range(c2s)) /\ Cardinality(Range(c2s)) <= Len(c2s)
      /\ Cardinality(Range(c2s)) \in Nat /\ Len(c2s) \in Nat
  BY <1>1, RangeCard, FS_CardinalityType
<1>3. /\ IsFiniteSet(held)
      /\ Cardinality(held) = IF cmd = 0 THEN 0 ELSE 1
  <2>1. CASE cmd = 0
    <3>1. held = {}
      BY <2>1
    <3> QED
      BY <2>1, <3>1, FS_EmptySet
  <2>2. CASE cmd # 0
    <3>1. held = {cmd}
      BY <2>2
    <3> QED
      BY <2>2, <3>1, FS_Singleton
  <2> QED
    BY <2>1, <2>2
<1>4. /\ IsFiniteSet(InPipeline) /\ Cardinality(InPipeline) \in Nat
      /\ carried \subseteq InPipeline
  BY <1>1, PipelineFinite DEF InPipeline
<1>5. IsFiniteSet(carried) /\ Cardinality(carried) \in Nat
  BY <1>4, FS_Subset, FS_CardinalityType
<1> HIDE DEF carried, held
<1>6. InPipeline = (Range(c2s) \cup held) \cup carried
  BY DEF InPipeline, carried, held
<1>7. /\ IsFiniteSet(Range(c2s) \cup held)
      /\ Cardinality(Range(c2s) \cup held)
           <= Cardinality(Range(c2s)) + Cardinality(held)
  <2>1. /\ IsFiniteSet(Range(c2s) \cup held)
        /\ Cardinality(Range(c2s) \cup held)
             = Cardinality(Range(c2s)) + Cardinality(held)
                 - Cardinality(Range(c2s) \cap held)
    BY <1>2, <1>3, FS_Union
  <2>2. Cardinality(Range(c2s) \cap held) \in Nat /\ Cardinality(held) \in Nat
    BY <1>2, <1>3, FS_Intersection, FS_CardinalityType
  <2> QED
    BY <1>2, <2>1, <2>2
<1>8. Cardinality(InPipeline)
        <= Cardinality(Range(c2s) \cup held) + Cardinality(carried)
  <2>1. Cardinality((Range(c2s) \cup held) \cup carried)
          = Cardinality(Range(c2s) \cup held) + Cardinality(carried)
              - Cardinality((Range(c2s) \cup held) \cap carried)
    BY <1>5, <1>7, FS_Union
  <2>2. /\ Cardinality((Range(c2s) \cup held) \cap carried) \in Nat
        /\ Cardinality(Range(c2s) \cup held) \in Nat
    BY <1>5, <1>7, FS_Intersection, FS_CardinalityType
  <2> QED
    BY <1>5, <1>6, <2>1, <2>2
<1>9. Len(performed) + (IF cmd = 0 THEN 0 ELSE 1) + Len(c2s)
        <= Cardinality(InPipeline) + mishaps["copy_command"]
  BY DEF Unrepeated
<1>10. /\ Cardinality(held) \in Nat /\ Cardinality(Range(c2s) \cup held) \in Nat
       /\ Len(performed) \in Nat
  BY <1>1, <1>3, <1>7, FS_CardinalityType
<1>11. Len(performed) - Cardinality(carried) <= mishaps["copy_command"]
  BY <1>1, <1>2, <1>3, <1>4, <1>5, <1>7, <1>8, <1>9, <1>10
<1> QED
  BY <1>11 DEF RepeatsAreCopies, carried

-----------------------------------------------------------------------------
(* A single thread stays in step with the server.                           *)

\* OnTheWay, of any queues and hands.
Count(q, k, r, s) ==
    Len(q) + (IF k = 0 THEN 0 ELSE 1) + (IF r = NoResponse THEN 0 ELSE 1) + Len(s)

LEMMA CountParts ==
    ASSUME NEW q \in Seq(CallNumbers), NEW k, NEW r, NEW s \in Seq(Response)
    PROVE  /\ Count(q, k, r, s) \in Nat
           /\ Count(q, k, r, s) = 0 <=> q = <<>> /\ k = 0 /\ r = NoResponse /\ s = <<>>
           /\ Count(q, k, r, s) <= 1 =>
                 /\ Count(q, k, r, s) # 1 => Count(q, k, r, s) = 0
                 /\ q # <<>> => Len(q) = 1 /\ k = 0 /\ r = NoResponse /\ s = <<>>
                 /\ k # 0 => q = <<>> /\ r = NoResponse /\ s = <<>>
                 /\ r # NoResponse => q = <<>> /\ k = 0 /\ s = <<>>
                 /\ s # <<>> => Len(s) = 1 /\ q = <<>> /\ k = 0 /\ r = NoResponse
<1>1. /\ Len(q) \in Nat /\ Len(s) \in Nat
      /\ q = <<>> <=> Len(q) = 0
      /\ s = <<>> <=> Len(s) = 0
  OBVIOUS
<1> DEFINE a == IF k = 0 THEN 0 ELSE 1
           b == IF r = NoResponse THEN 0 ELSE 1
<1>2. /\ a \in 0 .. 1 /\ b \in 0 .. 1
      /\ a = 0 <=> k = 0
      /\ b = 0 <=> r = NoResponse
  OBVIOUS
<1>3. Count(q, k, r, s) = Len(q) + a + b + Len(s)
  BY DEF Count
<1> DEFINE m == Len(q)
           n == Len(s)
<1> HIDE DEF a, b, m, n
<1>4. m \in Nat /\ n \in Nat /\ Count(q, k, r, s) = m + a + b + n
  BY <1>1, <1>3 DEF m, n
<1>5. /\ m + a + b + n \in Nat
      /\ m + a + b + n = 0 <=> m = 0 /\ a = 0 /\ b = 0 /\ n = 0
      /\ m + a + b + n <= 1 =>
            /\ m + a + b + n # 1 => m + a + b + n = 0
            /\ m # 0 => m = 1 /\ a = 0 /\ b = 0 /\ n = 0
            /\ a # 0 => m = 0 /\ b = 0 /\ n = 0
            /\ b # 0 => m = 0 /\ a = 0 /\ n = 0
            /\ n # 0 => n = 1 /\ m = 0 /\ a = 0 /\ b = 0
  BY <1>2, <1>4
<1>6. /\ m = 0 <=> q = <<>>
      /\ n = 0 <=> s = <<>>
      /\ m = 1 => Len(q) = 1
      /\ n = 1 => Len(s) = 1
  BY <1>1 DEF m, n
<1> QED
  BY <1>2, <1>4, <1>5, <1>6, Zenon

\* InStep, for the only thread.
InStepOf(t) ==
    /\ PerformedInOrder
    /\ \A c \in DOMAIN result : result[c].from \in {0, c}
    /\ OnTheWay <= 1
    /\ OnTheWay = 1 \/ socket_error => pc[t] = "recv"
    /\ socket_error => OnTheWay = 0
    /\ \A i \in DOMAIN c2s : c2s[i] = cur[t]
    /\ cmd # 0 => cmd = cur[t]
    /\ resp # NoResponse => resp.call = cur[t]
    /\ \A i \in DOMAIN s2c : s2c[i].call = cur[t]
    /\ pc[t] = "send" \/ c2s # <<>> \/ cmd # 0 =>
          \A i \in DOMAIN performed : performed[i].call < cur[t]

NoCopies == mishaps["copy_command"] + mishaps["copy_response"] = 0

LEMMA OfOnlyThread ==
    ASSUME InStep, OneThread, NoCopies, NEW t \in Threads
    PROVE  InStepOf(t)
BY DEF InStep, InStepUnlessCopied, OneThread, NoCopies, InStepOf

LEMMA OnlyThreadsIsAll ==
    ASSUME OneThread, NEW t \in Threads, InStepOf(t)'
    PROVE  InStep'
<1>1. \A u \in Threads : u = t
  BY DEF OneThread
<1> QED
  BY <1>1 DEF InStep, InStepUnlessCopied, InStepOf

\* Without a thread there are no calls.
LEMMA NoThreadNoCall ==
    ASSUME Threads = {}, TypeOK', Numbered'
    PROVE  InStep'
<1>1. calls' \in Seq(Call) /\ Call = {}
  BY DEF TypeOK, Call
<1>2. Len(calls') = 0
  <2>1. Len(calls') \in Nat
    BY <1>1
  <2>2. ASSUME Len(calls') # 0
        PROVE  FALSE
    <3>1. 1 \in DOMAIN calls'
      BY <1>1, <2>1, <2>2
    <3> QED
      BY <1>1, <3>1
  <2> QED
    BY <2>2
<1>3. Len(result') = 0 /\ result' \in Seq(Result) /\ cmd' = 0
  BY <1>2 DEF Numbered, TypeOK
<1>4. /\ c2s' \in Seq(CallNumbers) /\ s2c' \in Seq(Response)
      /\ performed' \in Seq(Response) /\ resp' \in Response \cup {NoResponse}
  BY DEF TypeOK
<1>5. \A x \in CallNumbers : ~(x <= 0)
  BY DEF CallNumbers
<1>6. \A r \in Response : ~(r.call <= 0)
  BY <1>5 DEF Response
<1>7. DOMAIN c2s' = {} /\ DOMAIN s2c' = {} /\ DOMAIN performed' = {}
  BY <1>2, <1>4, <1>5, <1>6 DEF Numbered
<1>8. resp' = NoResponse
  BY <1>2, <1>4, <1>6 DEF Numbered
<1>9. c2s' = <<>> /\ s2c' = <<>> /\ DOMAIN result' = {}
  BY <1>3, <1>4, <1>7
<1>10. OnTheWay' = 0
  BY <1>3, <1>8, <1>9 DEF OnTheWay
<1> QED
  BY <1>7, <1>9, <1>10 DEF InStep, InStepUnlessCopied, PerformedInOrder

\* What is on its way before and after a step.
LEMMA OnTheWayParts ==
    ASSUME UdpTypeOK, Numbered, OnTheWay <= 1
    PROVE  /\ OnTheWay \in {0, 1}
           /\ OnTheWay = 0 <=>
                 c2s = <<>> /\ cmd = 0 /\ resp = NoResponse /\ s2c = <<>>
           /\ c2s # <<>> => Len(c2s) = 1 /\ cmd = 0 /\ resp = NoResponse /\ s2c = <<>>
           /\ cmd # 0 => c2s = <<>> /\ resp = NoResponse /\ s2c = <<>>
           /\ resp # NoResponse => c2s = <<>> /\ cmd = 0 /\ s2c = <<>>
           /\ s2c # <<>> => Len(s2c) = 1 /\ c2s = <<>> /\ cmd = 0 /\ resp = NoResponse
<1>1. c2s \in Seq(CallNumbers) /\ s2c \in Seq(Response)
  BY DEF UdpTypeOK, TypeOK
<1>2. OnTheWay = Count(c2s, cmd, resp, s2c)
  BY DEF OnTheWay, Count
<1> QED
  BY <1>1, <1>2, CountParts

\* Nobody does anything to a call, and datagrams may get lost.
LEMMA LessOnTheWay ==
    ASSUME UdpTypeOK, NEW t, InStepOf(t),
           UNCHANGED <<pc, cur, calls, result, performed>>,
           Range(c2s') \subseteq Range(c2s), c2s' \in Seq(CallNumbers),
           cmd' \in {cmd, 0}, resp' \in {resp, NoResponse},
           Range(s2c') \subseteq Range(s2c),
           OnTheWay' <= OnTheWay, OnTheWay' \in Nat, OnTheWay \in {0, 1},
           socket_error' => OnTheWay' = 0 /\ pc[t] = "recv"
    PROVE  InStepOf(t)'
<1>1. \A i \in DOMAIN c2s' : \E j \in DOMAIN c2s : c2s'[i] = c2s[j]
  BY DEF Range
<1>2. \A i \in DOMAIN s2c' : \E j \in DOMAIN s2c : s2c'[i] = s2c[j]
  BY DEF Range
<1>3. c2s' # <<>> => c2s # <<>>
  <2>1. c2s' # <<>> => 1 \in DOMAIN c2s'
    OBVIOUS
  <2>2. c2s = <<>> => DOMAIN c2s = {}
    OBVIOUS
  <2> QED
    BY <1>1, <2>1, <2>2
<1>4. OnTheWay' <= 1 /\ (OnTheWay' = 1 => OnTheWay = 1)
  OBVIOUS
<1>5. PerformedInOrder'
  BY DEF InStepOf, PerformedInOrder, Before
<1>6. cmd' # 0 => cmd # 0 /\ cmd' = cmd
  OBVIOUS
<1>7. resp' # NoResponse => resp' = resp
  OBVIOUS
<1> QED
  BY <1>1, <1>2, <1>3, <1>4, <1>5, <1>6, <1>7 DEF InStepOf

\* A call ends with nothing left on its way.
LEMMA CallEndsInStep ==
    ASSUME UdpTypeOK, Numbered, UdpTypeOK', NEW t \in Threads, InStepOf(t),
           \A c \in DOMAIN result' :
              c \in DOMAIN result /\ result'[c].from \in {result[c].from, 0, c},
           pc' = [pc EXCEPT ![t] = "idle"],
           UNCHANGED <<cur, calls, performed>>,
           c2s' = <<>>, cmd' = 0, resp' = NoResponse, s2c' = <<>>, ~socket_error'
    PROVE  InStepOf(t)'
<1>1. OnTheWay' = 0
  BY DEF OnTheWay
<1>2. PerformedInOrder'
  BY DEF InStepOf, PerformedInOrder, Before
<1>3. ASSUME NEW c \in DOMAIN result'
      PROVE  result'[c].from \in {0, c}
  BY DEF InStepOf
<1>4. pc'[t] = "idle"
  BY DEF UdpTypeOK, TypeOK
<1>5. DOMAIN c2s' = {} /\ DOMAIN s2c' = {}
  OBVIOUS
<1> QED
  BY <1>1, <1>2, <1>3, <1>4, <1>5 DEF InStepOf

LEMMA BeginInStep ==
    ASSUME UdpTypeOK, Numbered, NEW t \in Threads, InStepOf(t),
           NEW op \in Ops, Begin(t, op), UNCHANGED socket_error
    PROVE  InStepOf(t)'
<1> DEFINE n == Len(calls)
<1>1. TypeOK
  BY DEF UdpTypeOK
<1>2. /\ n \in Nat /\ DOMAIN result' = 1 .. n + 1 /\ DOMAIN result = 1 .. n
      /\ \A c \in 1 .. n : calls'[c] = calls[c] /\ result'[c] = result[c]
      /\ result'[n + 1] = Ended("pending") /\ pc[t] = "idle" /\ pc'[t] = "send"
      /\ cur'[t] = n + 1
  BY <1>1, BeginAppends
<1>3. UNCHANGED <<c2s, s2c, cmd, resp, performed>>
  BY DEF Begin, serverVars
<1>4. OnTheWay # 1 /\ OnTheWay <= 1 /\ ~socket_error
  BY <1>2 DEF InStepOf
<1>5. c2s = <<>> /\ cmd = 0 /\ resp = NoResponse /\ s2c = <<>> /\ OnTheWay = 0
  BY <1>4, OnTheWayParts
<1>6. OnTheWay' = 0
  BY <1>3, <1>5 DEF OnTheWay
<1>7. \A i \in DOMAIN performed : performed[i].call \in 1 .. n
  BY <1>1, FrameNumbers
<1> HIDE DEF n
<1>8. PerformedInOrder'
  BY <1>2, <1>3, <1>7 DEF InStepOf, PerformedInOrder, Before
<1>9. \A i \in DOMAIN performed' : performed'[i].call < cur'[t]
  BY <1>2, <1>3, <1>7
<1>10. \A c \in DOMAIN result' : result'[c].from \in {0, c}
  <2>1. \A c \in 1 .. n + 1 : c \in 1 .. n \/ c = n + 1
    BY <1>2
  <2> QED
    BY <1>2, <2>1 DEF InStepOf, Ended
<1>11. DOMAIN c2s' = {} /\ DOMAIN s2c' = {}
  BY <1>3, <1>5
<1> QED
  BY <1>3, <1>4, <1>5, <1>6, <1>8, <1>9, <1>10, <1>11 DEF InStepOf

LEMMA SendInStep ==
    ASSUME UdpTypeOK, Numbered, NEW t \in Threads, InStepOf(t), Send(t),
           UNCHANGED socket_error
    PROVE  InStepOf(t)'
<1>1. TypeOK /\ cur[t] \in 1 .. Len(calls) /\ pc[t] = "send"
  BY CurrentCall DEF UdpTypeOK, Send
<1>2. OnTheWay # 1 /\ OnTheWay <= 1 /\ ~socket_error
  BY <1>1 DEF InStepOf
<1>3. c2s = <<>> /\ cmd = 0 /\ resp = NoResponse /\ s2c = <<>>
  BY <1>2, OnTheWayParts
<1>4. /\ UNCHANGED <<cur, calls, result, s2c, cmd, resp, performed>>
      /\ pc'[t] = "recv" /\ c2s' = <<cur[t]>>
  BY <1>1, <1>3 DEF Send, Pushed, serverVars, TypeOK
<1>5. OnTheWay' = 1
  BY <1>3, <1>4 DEF OnTheWay
<1>6. PerformedInOrder'
  BY <1>4 DEF InStepOf, PerformedInOrder, Before
<1>7. DOMAIN s2c' = {} /\ \A i \in DOMAIN c2s' : c2s'[i] = cur'[t]
  BY <1>3, <1>4
<1> QED
  BY <1>1, <1>2, <1>3, <1>4, <1>5, <1>6, <1>7 DEF InStepOf

\* A response or an error ends the call.
LEMMA ReceiveInStep ==
    ASSUME UdpTypeOK, Numbered, UdpTypeOK', NEW t \in Threads, InStepOf(t),
           \/ (Refuse(t) \/ Recv(t)) /\ UNCHANGED socket_error
           \/ RecvCorrupted(t)
           \/ TransportFails(t)
    PROVE  InStepOf(t)'
<1>1. OnTheWay <= 1 /\ TypeOK /\ s2c \in Seq(Response)
  BY DEF InStepOf, UdpTypeOK, TypeOK
<1>5. ASSUME NEW r, r.from \in {0, cur[t]}, result' = [result EXCEPT ![cur[t]] = r]
      PROVE  \A c \in DOMAIN result' :
                c \in DOMAIN result /\ result'[c].from \in {result[c].from, 0, c}
  <2> SUFFICES ASSUME NEW c \in DOMAIN result'
               PROVE  c \in DOMAIN result /\ result'[c].from \in {result[c].from, 0, c}
    OBVIOUS
  <2>1. c \in DOMAIN result /\ (result'[c] = result[c] \/ (c = cur[t] /\ result'[c] = r))
    BY <1>5 DEF UdpTypeOK, TypeOK
  <2> QED
    BY <1>5, <2>1
<1>2. CASE Refuse(t) /\ UNCHANGED socket_error
  <2>1. OnTheWay # 1 /\ ~socket_error /\ pc[t] # "idle"
    BY <1>2 DEF InStepOf, Refuse
  <2>2. c2s = <<>> /\ cmd = 0 /\ resp = NoResponse /\ s2c = <<>>
    BY <1>1, <2>1, OnTheWayParts
  <2>3. \A c \in DOMAIN result' :
           c \in DOMAIN result /\ result'[c].from \in {result[c].from, 0, c}
    <3>1. Ended("refused").from = 0
      BY DEF Ended
    <3> QED
      BY <1>2, <1>5, <3>1 DEF Refuse
  <2> QED
    BY <1>2, <2>1, <2>2, <2>3, CallEndsInStep DEF Refuse, serverVars
<1>3. CASE (Recv(t) /\ UNCHANGED socket_error) \/ RecvCorrupted(t)
  <2>1. /\ pc[t] # "idle" /\ s2c # <<>> /\ s2c' = Popped(s2c)
        /\ UNCHANGED <<cur, calls, performed, c2s, cmd, resp, socket_error>>
        /\ pc' = [pc EXCEPT ![t] = "idle"]
    BY <1>3 DEF Recv, RecvCorrupted, serverVars
  <2>2. Len(s2c) = 1 /\ c2s = <<>> /\ cmd = 0 /\ resp = NoResponse /\ OnTheWay # 0
    BY <1>1, <2>1, OnTheWayParts
  <2>3. s2c' = <<>> /\ Head(s2c) = s2c[1] /\ 1 \in DOMAIN s2c
    <3>1. s2c' \in Seq(Response) /\ Len(s2c') = 0
      BY <1>1, <2>1, <2>2, PoppedType
    <3>2. s2c' = <<>>
      BY <3>1
    <3> QED
      BY <1>1, <2>1, <3>2, PoppedType
  <2>4. Head(s2c).call = cur[t] /\ ~socket_error
    BY <2>2, <2>3 DEF InStepOf
  <2>5. \A c \in DOMAIN result' :
           c \in DOMAIN result /\ result'[c].from \in {result[c].from, 0, c}
    <3>1. CASE Recv(t)
      <4> DEFINE r == [kind |-> Judge(cur[t], Head(s2c)), from |-> Head(s2c).call,
                       data |-> Head(s2c).data]
      <4>1. result' = [result EXCEPT ![cur[t]] = r] /\ r.from = cur[t]
        BY <2>4, <3>1 DEF Recv
      <4> HIDE DEF r
      <4> QED
        BY <1>5, <4>1
    <3>2. CASE RecvCorrupted(t)
      <4>1. Ended("undecodable").from = 0
        BY DEF Ended
      <4> QED
        BY <1>5, <3>2, <4>1 DEF RecvCorrupted
    <3> QED
      BY <1>3, <3>1, <3>2
  <2> QED
    BY <2>1, <2>2, <2>3, <2>4, <2>5, CallEndsInStep
<1>4. CASE TransportFails(t)
  <2>1. OnTheWay = 0 /\ pc[t] # "idle"
    BY <1>4 DEF TransportFails, InStepOf
  <2>2. c2s = <<>> /\ cmd = 0 /\ resp = NoResponse /\ s2c = <<>>
    BY <1>1, <2>1, OnTheWayParts
  <2>3. \A c \in DOMAIN result' :
           c \in DOMAIN result /\ result'[c].from \in {result[c].from, 0, c}
    <3>1. Ended("error").from = 0
      BY DEF Ended
    <3> QED
      BY <1>4, <1>5, <3>1 DEF TransportFails
  <2> QED
    BY <1>4, <2>1, <2>2, <2>3, CallEndsInStep DEF TransportFails, serverVars
<1> QED
  BY <1>2, <1>3, <1>4

LEMMA WorkerInStep ==
    ASSUME UdpTypeOK, Numbered, UdpTypeOK', NEW t \in Threads, InStepOf(t),
           UNCHANGED socket_error, WorkerRecv \/ WorkerHandle
    PROVE  InStepOf(t)'
<1>1. OnTheWay <= 1 /\ TypeOK /\ c2s \in Seq(CallNumbers)
  BY DEF InStepOf, UdpTypeOK, TypeOK
<1>2. UNCHANGED <<pc, cur, calls, result, s2c>>
  BY DEF WorkerRecv, WorkerHandle, clientVars
<1>3. CASE WorkerRecv
  <2>1. /\ c2s # <<>> /\ cmd' = Head(c2s) /\ c2s' = Popped(c2s)
        /\ UNCHANGED <<resp, performed>>
    BY <1>3 DEF WorkerRecv
  <2>2. Len(c2s) = 1 /\ resp = NoResponse /\ s2c = <<>> /\ OnTheWay = 1
    BY <1>1, <2>1, OnTheWayParts
  <2>3. c2s' = <<>> /\ cmd' = c2s[1] /\ 1 \in DOMAIN c2s /\ cmd' \in CallNumbers
    <3>1. c2s' \in Seq(CallNumbers) /\ Len(c2s') = 0
      BY <1>1, <2>1, <2>2, PoppedType
    <3>2. c2s' = <<>>
      BY <3>1
    <3> QED
      BY <1>1, <2>1, <3>2, PoppedType
  <2>4. cmd' = cur[t] /\ cmd' # 0
    BY <2>2, <2>3 DEF InStepOf, CallNumbers
  <2>5. OnTheWay' = 1 /\ DOMAIN c2s' = {} /\ DOMAIN s2c' = {}
    BY <1>2, <2>1, <2>2, <2>3, <2>4 DEF OnTheWay
  <2>6. PerformedInOrder'
    BY <1>2, <2>1 DEF InStepOf, PerformedInOrder, Before
  <2>7. /\ pc[t] = "recv" /\ ~socket_error
        /\ \A i \in DOMAIN performed : performed[i].call < cur[t]
    BY <2>1, <2>2 DEF InStepOf
  <2> QED
    BY <1>2, <2>1, <2>2, <2>4, <2>5, <2>6, <2>7 DEF InStepOf
<1>4. CASE WorkerHandle
  <2>1. /\ cmd # 0 /\ cmd' = 0 /\ performed' = Append(performed, resp')
        /\ UNCHANGED c2s /\ resp'.call = cmd
    BY <1>4 DEF WorkerHandle, Numbered
  <2>2. performed \in Seq(Response) /\ resp' \in Response
    <3>1. resp' # NoResponse
      BY <2>1 DEF NoResponse
    <3> QED
      BY <1>1, <3>1 DEF UdpTypeOK, TypeOK
  <2>3. c2s = <<>> /\ resp = NoResponse /\ s2c = <<>> /\ OnTheWay = 1
    BY <1>1, <2>1, OnTheWayParts
  <2>4. /\ cmd = cur[t] /\ pc[t] = "recv" /\ ~socket_error
        /\ \A i \in DOMAIN performed : performed[i].call < cur[t]
    BY <2>1, <2>3 DEF InStepOf
  <2>5. OnTheWay' = 1 /\ DOMAIN c2s' = {} /\ DOMAIN s2c' = {}
    <3>1. resp' # NoResponse
      BY <2>1 DEF NoResponse
    <3> QED
      BY <1>2, <2>1, <2>3, <3>1 DEF OnTheWay
  <2>6. /\ DOMAIN performed = 1 .. Len(performed) /\ Len(performed) \in Nat
        /\ DOMAIN performed' = 1 .. Len(performed) + 1
        /\ performed'[Len(performed) + 1].call = cur[t]
        /\ \A i \in 1 .. Len(performed) : performed'[i] = performed[i]
    BY <2>1, <2>2, <2>4
  <2>7. PerformedInOrder'
    <3> SUFFICES ASSUME NEW i \in DOMAIN performed', NEW j \in DOMAIN performed', i < j
                 PROVE  Before(performed[i].call, performed[j].call)'
      BY DEF PerformedInOrder
    <3>1. i \in DOMAIN performed /\ performed'[i] = performed[i]
      BY <2>6
    <3>2. CASE j \in DOMAIN performed
      BY <1>2, <2>6, <3>1, <3>2 DEF InStepOf, PerformedInOrder, Before
    <3>3. CASE j = Len(performed) + 1
      BY <2>4, <2>6, <3>1, <3>3 DEF Before
    <3> QED
      BY <2>6, <3>2, <3>3
  <2> QED
    BY <1>2, <2>1, <2>3, <2>4, <2>5, <2>7 DEF InStepOf
<1> QED
  BY <1>3, <1>4

LEMMA WorkerSendInStep ==
    ASSUME UdpTypeOK, Numbered, UdpTypeOK', NEW t \in Threads, InStepOf(t),
           UNCHANGED socket_error, WorkerSend
    PROVE  InStepOf(t)'
<1>1. OnTheWay <= 1 /\ resp # NoResponse
  BY DEF InStepOf, WorkerSend, Numbered
<1>2. /\ UNCHANGED <<pc, cur, calls, result, c2s, cmd, performed>>
      /\ \/ s2c' = s2c /\ resp' = resp
         \/ s2c' = Append(s2c, resp) /\ resp' = NoResponse
  BY DEF WorkerSend, Pushed, clientVars
<1>3. c2s = <<>> /\ cmd = 0 /\ s2c = <<>> /\ OnTheWay = 1 /\ OnTheWay \in {0, 1}
  BY <1>1, OnTheWayParts
<1>4. resp.call = cur[t] /\ pc[t] = "recv" /\ ~socket_error
  BY <1>1, <1>3 DEF InStepOf
<1>5. /\ OnTheWay' = 1
      /\ \A i \in DOMAIN s2c' : s2c'[i].call = cur[t]
      /\ resp' # NoResponse => resp'.call = cur[t]
  <2>1. CASE s2c' = s2c /\ resp' = resp
    BY <1>2, <1>3, <1>4, <2>1 DEF OnTheWay
  <2>2. CASE s2c' = Append(s2c, resp) /\ resp' = NoResponse
    <3>1. s2c' = <<resp>>
      BY <1>3, <2>2
    <3>2. OnTheWay' = 0 + 0 + 0 + Len(s2c')
      BY <1>2, <1>3, <2>2 DEF OnTheWay
    <3> QED
      BY <1>4, <2>2, <3>1, <3>2
  <2> QED
    BY <1>2, <2>1, <2>2
<1>6. PerformedInOrder'
  BY <1>2 DEF InStepOf, PerformedInOrder, Before
<1>7. DOMAIN c2s' = {}
  BY <1>2, <1>3
<1> QED
  BY <1>2, <1>3, <1>4, <1>5, <1>6, <1>7 DEF InStepOf

LEMMA MishapInStep ==
    ASSUME UdpTypeOK, Numbered, UdpTypeOK', NEW t \in Threads, InStepOf(t),
           NetworkMishap, NoCopies'
    PROVE  InStepOf(t)'
<1>1. OnTheWay <= 1 /\ c2s \in Seq(CallNumbers) /\ s2c \in Seq(Response)
  BY DEF InStepOf, UdpTypeOK, TypeOK
<1>2. /\ UNCHANGED <<pc, cur, calls, result, cmd, resp, performed, socket_error>>
      /\ c2s' \in Seq(CallNumbers) /\ s2c' \in Seq(Response)
      /\ Range(c2s') \subseteq Range(c2s) /\ Range(s2c') \subseteq Range(s2c)
  BY MishapEffect DEF clientVars, serverVars
<1>3. mishaps["copy_command"] \in Nat /\ mishaps["copy_response"] \in Nat
  BY DEF UdpTypeOK, Mishaps
<1>4. ~Reordered(c2s, c2s') /\ ~Reordered(s2c, s2c')
  <2>1. Len(c2s) \in {0, 1}
    <3>1. c2s = <<>> \/ Len(c2s) = 1
      BY <1>1, OnTheWayParts
    <3> QED
      BY <3>1
  <2>2. Len(s2c) \in {0, 1}
    <3>1. s2c = <<>> \/ Len(s2c) = 1
      BY <1>1, OnTheWayParts
    <3> QED
      BY <3>1
  <2>3. \A n \in {0, 1} : ~(n >= 2)
    OBVIOUS
  <2>4. ~(Len(c2s) >= 2) /\ ~(Len(s2c) >= 2)
    BY <2>1, <2>2, <2>3
  <2> QED
    BY <2>4, Zenon DEF Reordered
<1>5. \/ Fewer(c2s, c2s') /\ s2c' = s2c
      \/ Fewer(s2c, s2c') /\ c2s' = c2s
  BY <1>3, <1>4, MishapEffect DEF NoCopies
<1>6. OnTheWay' = OnTheWay - 1
  <2>1. \/ Len(c2s') = Len(c2s) - 1 /\ Len(s2c') = Len(s2c)
        \/ Len(s2c') = Len(s2c) - 1 /\ Len(c2s') = Len(c2s)
    BY <1>5 DEF Fewer
  <2> DEFINE a == IF cmd = 0 THEN 0 ELSE 1
             b == IF resp = NoResponse THEN 0 ELSE 1
  <2>2. a \in Nat /\ b \in Nat /\ Len(c2s) \in Nat /\ Len(s2c) \in Nat
    BY <1>1
  <2>3. /\ OnTheWay = Len(c2s) + a + b + Len(s2c)
        /\ OnTheWay' = Len(c2s') + a + b + Len(s2c')
    BY <1>2 DEF OnTheWay
  <2> HIDE DEF a, b
  <2> QED
    BY <2>1, <2>2, <2>3
<1>7. OnTheWay' = Count(c2s', cmd', resp', s2c') /\ OnTheWay' \in Nat
  <2>1. OnTheWay' = Count(c2s', cmd', resp', s2c')
    BY DEF OnTheWay, Count
  <2> QED
    BY <1>2, <2>1, CountParts
<1>8. OnTheWay = 1 /\ OnTheWay' = 0 /\ OnTheWay \in {0, 1}
  BY <1>1, <1>6, <1>7, OnTheWayParts
<1>9. pc[t] = "recv"
  BY <1>8 DEF InStepOf
<1> QED
  BY <1>2, <1>8, <1>9, LessOnTheWay

\* A command or a response is no more, or nothing changes at all.
LEMMA DropInStep ==
    ASSUME UdpTypeOK, Numbered, UdpTypeOK', NEW t \in Threads, InStepOf(t),
           \/ PortUnreachable
           \/ WorkerThrows
           \/ /\ WorkerStop \/ WorkerDecodeThrows \/ RequestStop
              /\ UNCHANGED socket_error
           \/ UNCHANGED udpVars
    PROVE  InStepOf(t)'
<1>1. OnTheWay <= 1 /\ c2s \in Seq(CallNumbers) /\ c2s' \in Seq(CallNumbers)
  BY DEF InStepOf, UdpTypeOK, TypeOK
<1>2. s2c \in Seq(Response) /\ OnTheWay \in {0, 1}
  BY <1>1, OnTheWayParts DEF UdpTypeOK, TypeOK
<1>3. CASE PortUnreachable
  <2>1. /\ UNCHANGED <<pc, cur, calls, result, performed, cmd, resp, s2c>>
        /\ c2s # <<>> /\ c2s' = Popped(c2s)
    BY <1>3 DEF PortUnreachable, clientVars, serverVars
  <2>2. Len(c2s) = 1 /\ cmd = 0 /\ resp = NoResponse /\ s2c = <<>> /\ OnTheWay = 1
    BY <1>1, <2>1, OnTheWayParts
  <2>3. Len(c2s') = 0 /\ Range(c2s') \subseteq Range(c2s)
    BY <1>1, <2>1, <2>2, PoppedType
  <2>4. OnTheWay' = 0
    BY <2>1, <2>2, <2>3 DEF OnTheWay
  <2>5. pc[t] = "recv"
    BY <2>2 DEF InStepOf
  <2> QED
    BY <1>1, <1>2, <2>1, <2>2, <2>3, <2>4, <2>5, LessOnTheWay
<1>4. CASE \/ WorkerThrows
           \/ /\ WorkerStop \/ WorkerDecodeThrows \/ RequestStop
              /\ UNCHANGED socket_error
           \/ UNCHANGED udpVars
  <2>1. /\ UNCHANGED <<pc, cur, calls, result, performed, c2s, s2c, socket_error>>
        /\ cmd' \in {cmd, 0} /\ resp' \in {resp, NoResponse}
    BY <1>4 DEF WorkerThrows, WorkerStop, WorkerDecodeThrows, RequestStop,
       udpVars, vars, clientVars, serverVars
  <2>2. OnTheWay' \in Nat /\ OnTheWay' <= OnTheWay
    <3> DEFINE a(k) == IF k = 0 THEN 0 ELSE 1
               b(r) == IF r = NoResponse THEN 0 ELSE 1
    <3>1. /\ OnTheWay = Len(c2s) + a(cmd) + b(resp) + Len(s2c)
          /\ OnTheWay' = Len(c2s) + a(cmd') + b(resp') + Len(s2c)
      BY <2>1 DEF OnTheWay
    <3>2. /\ a(cmd) \in Nat /\ a(cmd') \in Nat /\ a(cmd') <= a(cmd)
          /\ b(resp) \in Nat /\ b(resp') \in Nat /\ b(resp') <= b(resp)
      BY <2>1
    <3>3. Len(c2s) \in Nat /\ Len(s2c) \in Nat
      BY <1>1, <1>2
    <3> HIDE DEF a, b
    <3> QED
      BY <3>1, <3>2, <3>3
  <2>3. socket_error' => OnTheWay' = 0 /\ pc[t] = "recv"
    BY <1>2, <2>1, <2>2 DEF InStepOf
  <2> QED
    BY <1>1, <1>2, <2>1, <2>2, <2>3, LessOnTheWay
<1> QED
  BY <1>3, <1>4

LEMMA StepInStep ==
    ASSUME UdpTypeOK, Numbered, UdpTypeOK', Numbered', InStep, [UdpNext]_udpVars
    PROVE  InStep'
<1>1. CASE ~OneThread \/ ~NoCopies'
  BY <1>1 DEF InStep, OneThread, NoCopies
<1>2. CASE Threads = {}
  BY <1>2, NoThreadNoCall DEF UdpTypeOK
<1>3. ASSUME OneThread, NoCopies', NEW t \in Threads
      PROVE  InStep'
  <2>1. NoCopies
    <3>1. /\ mishaps["copy_command"] \in Nat /\ mishaps["copy_response"] \in Nat
          /\ mishaps'["copy_command"] >= mishaps["copy_command"]
          /\ mishaps'["copy_response"] >= mishaps["copy_response"]
      <4>1. mishaps["copy_command"] \in Nat /\ mishaps["copy_response"] \in Nat
        BY DEF UdpTypeOK, Mishaps
      <4>2. CASE UNCHANGED mishaps
        BY <4>1, <4>2
      <4>3. CASE NetworkMishap
        BY <4>1, <4>3, MishapEffect
      <4>4. CASE \E u \in Threads : RecvCorrupted(u)
        <5>1. Happens("corrupt")
          BY <4>4 DEF RecvCorrupted
        <5>2. {"corrupt", "copy_command", "copy_response"} \subseteq Mishaps
          BY DEF Mishaps
        <5> QED
          BY <4>1, <5>1, <5>2, MishapCounted
      <4>5. UNCHANGED mishaps \/ NetworkMishap \/ \E u \in Threads : RecvCorrupted(u)
        BY DEF UdpNext, PortUnreachable, TransportFails, WorkerThrows, udpVars
      <4> QED
        BY <4>2, <4>3, <4>4, <4>5
    <3>2. mishaps'["copy_command"] \in Nat /\ mishaps'["copy_response"] \in Nat
      BY DEF UdpTypeOK, Mishaps
    <3> QED
      BY <1>3, <3>1, <3>2 DEF NoCopies
  <2>2. InStepOf(t)
    BY <1>3, <2>1, OfOnlyThread
  <2>3. \A u \in Threads : u = t
    BY <1>3 DEF OneThread
  <2>4. InStepOf(t)'
    BY <1>3, <2>2, <2>3, MishapInStep, DropInStep, ReceiveInStep, BeginInStep,
       SendInStep, WorkerInStep, WorkerSendInStep
       DEF UdpNext, ThreadStep, WorkerStep
  <2> QED
    BY <1>3, <2>4, OnlyThreadsIsAll
<1> QED
  BY <1>1, <1>2, <1>3

-----------------------------------------------------------------------------
(* Together.                                                                *)

LEMMA UdpInitInv == UdpInit => UdpInv
<1> SUFFICES ASSUME UdpInit PROVE UdpInv
  OBVIOUS
<1>1. /\ Init /\ UdpTypeOK /\ Numbered
      /\ mishaps["copy_command"] \in Nat /\ socket_error = FALSE
  BY UdpInitTyped DEF UdpInit, UdpTypeOK, Mishaps
<1>2. /\ c2s = <<>> /\ s2c = <<>> /\ performed = <<>> /\ result = <<>>
      /\ cmd = 0 /\ resp = NoResponse /\ pc = [t \in Threads |-> "idle"]
  BY <1>1 DEF Init
<1>3. /\ DOMAIN c2s = {} /\ DOMAIN s2c = {} /\ DOMAIN performed = {}
      /\ DOMAIN result = {} /\ OnTheWay = 0
  BY <1>2 DEF OnTheWay
<1>4. Truthful /\ Stamped
  BY <1>1, InitTruthful, InitStamped
<1>5. Unrepeated
  <2>1. Frames = 0 /\ Cardinality(InPipeline) \in Nat
    BY <1>1, <1>2, PipelineFinite DEF Frames, UdpTypeOK
  <2>2. Frames <= Cardinality(InPipeline) + mishaps["copy_command"]
    BY <1>1, <2>1
  <2> QED
    BY <1>2, <2>2 DEF Unrepeated, Frames
<1>6. InStep
  BY <1>1, <1>2, <1>3 DEF InStep, InStepUnlessCopied, PerformedInOrder
<1> QED
  BY <1>1, <1>4, <1>5, <1>6 DEF UdpInv

\* The invariant of the link over UDP (RegisterTarget.h:138-156,
\* ServerAdapter.h:78-106, SyncUdpTransport.cpp:26-81): whatever the network does
\* to the datagrams and however the server ends, the answers are the target's, the
\* ids count the calls, the server repeats nothing by itself, and a single thread
\* stays in step with it.
THEOREM UdpInvariant == UdpSpec => []UdpInv
<1>1. UdpInit => UdpInv
  BY UdpInitInv
<1>2. UdpInv /\ [UdpNext]_udpVars => UdpInv'
  BY StepUdpTyped, StepUdpTruthful, StepUdpStamped, StepUnrepeated, StepInStep
     DEF UdpInv
<1> QED
  BY <1>1, <1>2, PTL DEF UdpSpec

\* A response that a call takes as its own carries what the target did for a
\* command of the same id and type, whatever the network does
\* (RegisterTarget.h:140-153, ServerAdapter.h:85-105).
THEOREM AnswersOverUdp == UdpSpec => []AnswerIsTheTargets
<1>1. UdpInv => AnswerIsTheTargets
  BY DEF UdpInv, Truthful
<1> QED
  BY <1>1, UdpInvariant, PTL

\* A call is answered by its own response or by that of a call a full round of
\* transaction ids away (RegisterTarget.h:143, 157-160).
THEOREM OwnOrRound == UdpSpec => []OwnOrARoundAway
<1>1. UdpInv => OwnOrARoundAway
  BY SameIdOrARound DEF UdpInv
<1> QED
  BY <1>1, UdpInvariant, PTL

\* The server carries out a command once more at most for every copy the network
\* made of a command (ServerAdapter.h:80-106).
THEOREM OnlyCopiesRepeat == UdpSpec => []RepeatsAreCopies
<1>1. UdpInv => RepeatsAreCopies
  BY UnrepeatedMeansCopies DEF UdpInv
<1> QED
  BY <1>1, UdpInvariant, PTL

\* While no datagram has been copied, a single thread takes only responses to its
\* current call, and its commands are carried out in order and at most once
\* (RegisterTarget.h:138-156).
THEOREM StaysInStep == UdpSpec => []InStepUnlessCopied
<1>1. UdpInv => InStepUnlessCopied
  BY DEF UdpInv, InStep, InStepUnlessCopied
<1> QED
  BY <1>1, UdpInvariant, PTL
=============================================================================
