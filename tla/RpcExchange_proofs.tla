--------------------------- MODULE RpcExchange_proofs ---------------------------
(***************************************************************************)
(* Theorems of RpcExchange.  The facts about sequences come first; the     *)
(* invariants then speak of the sets of calls that are under way.          *)
(***************************************************************************)
EXTENDS RpcExchange, SequenceTheorems, TLAPS

Sorted(s, f) == \A i, j \in DOMAIN s : i <= j => f[s[i]] <= f[s[j]]

LEMMA SubSeqFacts ==
  ASSUME NEW S, NEW s \in Seq(S), NEW m \in Nat \ {0}, NEW n \in Nat,
         m <= n + 1, n <= Len(s)
  PROVE  LET t == SubSeq(s, m, n) IN
         /\ t \in Seq(S) /\ Len(t) = n - m + 1 /\ DOMAIN t = 1..n - m + 1
         /\ \A i \in 1..n - m + 1 : t[i] = s[i + m - 1]
<1>1. \A i \in m..n : s[i] \in S
  BY ElementOfSeq, LenProperties
<1>2. m \in Int /\ n \in Int
  OBVIOUS
<1>3. /\ SubSeq(s, m, n) \in Seq(S)
      /\ Len(SubSeq(s, m, n)) = IF m <= n THEN n - m + 1 ELSE 0
      /\ \A i \in 1..n - m + 1 : SubSeq(s, m, n)[i] = s[m + i - 1]
  BY <1>1, <1>2, SubSeqProperties
<1> QED
  BY <1>3, LenProperties

\* What a data event brings, and what it leaves.
LEMMA CutSeq ==
  ASSUME NEW S, NEW s \in Seq(S), NEW n \in 0..Len(s)
  PROVE  LET first == SubSeq(s, 1, n)  rest == SubSeq(s, n + 1, Len(s)) IN
         /\ first \in Seq(S) /\ rest \in Seq(S) /\ Len(first) = n /\ Len(rest) = Len(s) - n
         /\ \A i \in 1..n : first[i] = s[i]
         /\ \A i \in 1..Len(s) - n : rest[i] = s[i + n]
         /\ Elements(first) \subseteq Elements(s) /\ Elements(rest) \subseteq Elements(s)
         /\ n >= 1 => Head(first) = Head(s) /\ Head(s) = s[1] /\ Head(s) \in Elements(first)
         /\ IsInjective(s) => /\ IsInjective(first) /\ IsInjective(rest)
                              /\ Elements(first) \cap Elements(rest) = {}
<1> DEFINE first == SubSeq(s, 1, n)  rest == SubSeq(s, n + 1, Len(s))
<1>1. Len(s) \in Nat /\ DOMAIN s = 1..Len(s) /\ \A i \in 1..Len(s) : s[i] \in S
  BY LenProperties, ElementOfSeq
<1>2. /\ first \in Seq(S) /\ Len(first) = n
      /\ \A i \in 1..n : first[i] = s[i]
  <2>1. first \in Seq(S) /\ Len(first) = n - 1 + 1 /\ \A i \in 1..n - 1 + 1 : first[i] = s[i + 1 - 1]
    BY <1>1, SubSeqFacts
  <2> QED
    BY <1>1, <2>1
<1>3. /\ rest \in Seq(S) /\ Len(rest) = Len(s) - n
      /\ \A i \in 1..Len(s) - n : rest[i] = s[i + n]
  <2> DEFINE m == n + 1
  <2>1. m \in Nat \ {0} /\ m <= Len(s) + 1
    BY <1>1
  <2> HIDE DEF m
  <2>2. /\ SubSeq(s, m, Len(s)) \in Seq(S)
        /\ Len(SubSeq(s, m, Len(s))) = Len(s) - m + 1
        /\ \A i \in 1..Len(s) - m + 1 : SubSeq(s, m, Len(s))[i] = s[i + m - 1]
    BY <1>1, <2>1, SubSeqFacts
  <2>3. /\ rest \in Seq(S) /\ Len(rest) = Len(s) - (n + 1) + 1
        /\ \A i \in 1..Len(s) - (n + 1) + 1 : rest[i] = s[i + (n + 1) - 1]
    BY <2>2, Zenon DEF m
  <2> HIDE DEF rest
  <2>4. n \in Nat /\ Len(s) - (n + 1) + 1 = Len(s) - n
    BY <1>1
  <2>5. ASSUME NEW i \in 1..Len(s) - n PROVE rest[i] = s[i + n]
    <3>1. rest[i] = s[i + (n + 1) - 1]
      BY <2>3, <2>4, Zenon
    <3>2. i + (n + 1) - 1 = i + n
      BY <1>1, <2>4
    <3> QED
      BY <3>1, <3>2, Zenon
  <2>6. rest \in Seq(S) /\ Len(rest) = Len(s) - n
    BY <2>3, <2>4
  <2> QED
    BY <2>5, <2>6
<1> HIDE DEF first, rest
<1>4. DOMAIN first = 1..n /\ DOMAIN rest = 1..Len(s) - n
  BY <1>2, <1>3, LenProperties
<1>5. Elements(first) \subseteq Elements(s) /\ Elements(rest) \subseteq Elements(s)
  <2>1. \A i \in DOMAIN first : i \in DOMAIN s /\ first[i] = s[i]
    BY <1>1, <1>2, <1>4
  <2>2. ASSUME NEW i \in DOMAIN rest PROVE i + n \in DOMAIN s /\ rest[i] = s[i + n]
    <3>1. i \in 1..Len(s) - n
      BY <1>4
    <3>2. i + n \in 1..Len(s)
      BY <1>1, <3>1
    <3> QED
      BY <1>1, <1>3, <3>1, <3>2, Zenon
  <2> QED
    BY <2>1, <2>2 DEF Elements
<1>6. ASSUME n >= 1
      PROVE  Head(first) = Head(s) /\ Head(s) = s[1] /\ Head(s) \in Elements(first)
  BY <1>1, <1>2, <1>4, <1>6 DEF Elements
<1>7. ASSUME IsInjective(s)
      PROVE  /\ IsInjective(first) /\ IsInjective(rest)
             /\ Elements(first) \cap Elements(rest) = {}
  <2>1. IsInjective(first)
    BY <1>1, <1>2, <1>4, <1>7 DEF IsInjective
  <2>2. IsInjective(rest)
    <3> SUFFICES ASSUME NEW i \in 1..Len(s) - n, NEW j \in 1..Len(s) - n, rest[i] = rest[j]
                 PROVE  i = j
      BY <1>4 DEF IsInjective
    <3>1. i + n \in DOMAIN s /\ j + n \in DOMAIN s /\ s[i + n] = s[j + n]
      BY <1>1, <1>3
    <3>2. i + n = j + n
      BY <1>7, <3>1 DEF IsInjective
    <3> QED
      BY <1>1, <3>2
  <2>3. ASSUME NEW i \in DOMAIN first, NEW j \in DOMAIN rest PROVE first[i] # rest[j]
    <3>1. i \in DOMAIN s /\ j + n \in DOMAIN s /\ first[i] = s[i] /\ rest[j] = s[j + n] /\ i # j + n
      BY <1>1, <1>2, <1>3, <1>4
    <3> QED
      BY <1>7, <3>1 DEF IsInjective
  <2> QED
    BY <2>1, <2>2, <2>3 DEF Elements
<1> QED
  BY <1>2, <1>3, <1>5, <1>6, <1>7 DEF first, rest

LEMMA CutSorted ==
  ASSUME NEW S, NEW s \in Seq(S), NEW n \in 0..Len(s), NEW f, Sorted(s, f)
  PROVE  Sorted(SubSeq(s, 1, n), f) /\ Sorted(SubSeq(s, n + 1, Len(s)), f)
<1> DEFINE first == SubSeq(s, 1, n)  rest == SubSeq(s, n + 1, Len(s))
<1>1. /\ first \in Seq(S) /\ rest \in Seq(S) /\ Len(first) = n /\ Len(rest) = Len(s) - n
      /\ \A i \in 1..n : first[i] = s[i]
      /\ \A i \in 1..Len(s) - n : rest[i] = s[i + n]
  BY CutSeq
<1> HIDE DEF first, rest
<1>2. DOMAIN s = 1..Len(s) /\ DOMAIN first = 1..n /\ DOMAIN rest = 1..Len(s) - n /\ Len(s) \in Nat
  BY <1>1, LenProperties
<1>3. Sorted(first, f)
  BY <1>1, <1>2 DEF Sorted
<1>4. Sorted(rest, f)
  <2> SUFFICES ASSUME NEW i \in 1..Len(s) - n, NEW j \in 1..Len(s) - n, i <= j
               PROVE  f[rest[i]] <= f[rest[j]]
    BY <1>2 DEF Sorted
  <2>1. i + n \in DOMAIN s /\ j + n \in DOMAIN s /\ i + n <= j + n
    BY <1>2
  <2> QED
    BY <1>1, <2>1 DEF Sorted
<1> QED
  BY <1>3, <1>4 DEF first, rest

\* What is written comes last.
LEMMA AppendSeq ==
  ASSUME NEW S, NEW s \in Seq(S), NEW e \in S
  PROVE  LET t == Append(s, e) IN
         /\ t \in Seq(S) /\ Elements(t) = Elements(s) \cup {e}
         /\ IsInjective(s) /\ e \notin Elements(s) => IsInjective(t)
<1> DEFINE t == Append(s, e)
<1>1. /\ t \in Seq(S) /\ Len(t) = Len(s) + 1
      /\ \A i \in 1..Len(s) : t[i] = s[i]
      /\ t[Len(s) + 1] = e
  BY AppendProperties
<1> HIDE DEF t
<1>2. DOMAIN s = 1..Len(s) /\ DOMAIN t = 1..Len(s) + 1 /\ Len(s) \in Nat
  BY <1>1, LenProperties
<1>3. Elements(t) = Elements(s) \cup {e}
  BY <1>1, <1>2 DEF Elements
<1>4. IsInjective(s) /\ e \notin Elements(s) => IsInjective(t)
  BY <1>1, <1>2 DEF Elements, IsInjective
<1> QED
  BY <1>1, <1>3, <1>4 DEF t

LEMMA AppendSorted ==
  ASSUME NEW S, NEW s \in Seq(S), NEW e \in S, NEW f, Sorted(s, f),
         \A r \in Elements(s) : f[r] <= f[e], f[e] \in Nat
  PROVE  Sorted(Append(s, e), f)
<1> DEFINE t == Append(s, e)
<1>1. /\ t \in Seq(S) /\ Len(t) = Len(s) + 1
      /\ \A i \in 1..Len(s) : t[i] = s[i]
      /\ t[Len(s) + 1] = e
  BY AppendProperties
<1> HIDE DEF t
<1>2. DOMAIN s = 1..Len(s) /\ DOMAIN t = 1..Len(s) + 1 /\ Len(s) \in Nat
  BY <1>1, LenProperties
<1>3. Sorted(t, f)
  BY <1>1, <1>2 DEF Elements, Sorted
<1> QED
  BY <1>3 DEF t

\* A connection that is lost leaves what it had carried behind.
LEMMA ConcatSeq ==
  ASSUME NEW S, NEW s \in Seq(S), NEW u \in Seq(S)
  PROVE  LET t == s \o u IN
         /\ t \in Seq(S) /\ Elements(t) = Elements(s) \cup Elements(u)
         /\ IsInjective(s) /\ IsInjective(u) /\ Elements(s) \cap Elements(u) = {} => IsInjective(t)
<1> DEFINE t == s \o u
<1>1. /\ t \in Seq(S) /\ Len(t) = Len(s) + Len(u)
      /\ \A i \in 1..Len(s) + Len(u) : t[i] = IF i <= Len(s) THEN s[i] ELSE u[i - Len(s)]
  BY ConcatProperties
<1> HIDE DEF t
<1>2. /\ Len(s) \in Nat /\ Len(u) \in Nat
      /\ DOMAIN s = 1..Len(s) /\ DOMAIN u = 1..Len(u) /\ DOMAIN t = 1..Len(s) + Len(u)
  BY <1>1, LenProperties
<1>3. \A i \in DOMAIN s : i \in DOMAIN t /\ t[i] = s[i]
  BY <1>1, <1>2
<1>4. \A i \in DOMAIN u : i + Len(s) \in DOMAIN t /\ t[i + Len(s)] = u[i]
  BY <1>1, <1>2
<1>5. \A i \in DOMAIN t : i \in DOMAIN s \/ (i > Len(s) /\ i - Len(s) \in DOMAIN u /\ t[i] = u[i - Len(s)])
  BY <1>1, <1>2
<1>6. Elements(t) = Elements(s) \cup Elements(u)
  BY <1>3, <1>4, <1>5 DEF Elements
<1>7. ASSUME IsInjective(s), IsInjective(u), Elements(s) \cap Elements(u) = {}
      PROVE  IsInjective(t)
  <2> SUFFICES ASSUME NEW i \in DOMAIN t, NEW j \in DOMAIN t, t[i] = t[j] PROVE i = j
    BY DEF IsInjective
  <2>1. CASE i \in DOMAIN s /\ j \in DOMAIN s
    BY <1>3, <1>7, <2>1 DEF IsInjective
  <2>2. CASE i \notin DOMAIN s /\ j \notin DOMAIN s
    <3>1. i - Len(s) = j - Len(s)
      BY <1>5, <1>7, <2>2 DEF IsInjective
    <3> QED
      BY <1>2, <3>1
  <2>3. CASE i \in DOMAIN s /\ j \notin DOMAIN s
    BY <1>3, <1>5, <1>7, <2>3 DEF Elements
  <2>4. CASE i \notin DOMAIN s /\ j \in DOMAIN s
    BY <1>3, <1>5, <1>7, <2>4 DEF Elements
  <2> QED
    BY <2>1, <2>2, <2>3, <2>4
<1> QED
  BY <1>1, <1>6, <1>7 DEF t

LEMMA ConcatSorted ==
  ASSUME NEW S, NEW s \in Seq(S), NEW u \in Seq(S), NEW f, Sorted(s, f), Sorted(u, f),
         \A a \in Elements(s), b \in Elements(u) : f[a] <= f[b]
  PROVE  Sorted(s \o u, f)
<1> DEFINE t == s \o u
<1>1. /\ t \in Seq(S) /\ Len(t) = Len(s) + Len(u)
      /\ \A i \in 1..Len(s) + Len(u) : t[i] = IF i <= Len(s) THEN s[i] ELSE u[i - Len(s)]
  BY ConcatProperties
<1> HIDE DEF t
<1>2. /\ Len(s) \in Nat /\ Len(u) \in Nat
      /\ DOMAIN s = 1..Len(s) /\ DOMAIN u = 1..Len(u) /\ DOMAIN t = 1..Len(s) + Len(u)
  BY <1>1, LenProperties
<1>3. SUFFICES ASSUME NEW i \in DOMAIN t, NEW j \in DOMAIN t, i <= j PROVE f[t[i]] <= f[t[j]]
  BY DEF Sorted, t
<1>4. CASE j \in DOMAIN s
  BY <1>1, <1>2, <1>3, <1>4 DEF Sorted
<1>5. CASE i \notin DOMAIN s
  <2>1. /\ i - Len(s) \in DOMAIN u /\ j - Len(s) \in DOMAIN u /\ i - Len(s) <= j - Len(s)
        /\ t[i] = u[i - Len(s)] /\ t[j] = u[j - Len(s)]
    BY <1>1, <1>2, <1>3, <1>5
  <2> QED
    BY <2>1 DEF Sorted
<1>6. CASE i \in DOMAIN s /\ j \notin DOMAIN s
  <2>1. t[i] = s[i] /\ j - Len(s) \in DOMAIN u /\ t[j] = u[j - Len(s)]
    BY <1>1, <1>2, <1>6
  <2> QED
    BY <1>6, <2>1 DEF Elements
<1> QED
  BY <1>4, <1>5, <1>6

-----------------------------------------------------------------------------
\* The calls on their way to the helper, and the one that waits for the channel.
Coming == Elements(requests) \cup Elements(strays)
Opening == {opener} \ {NoRequest}

\* A call is in one place, once: on its way, or executed and perhaps being
\* answered.
Placed ==
    /\ IsInjective(requests) /\ IsInjective(strays) /\ IsInjective(responses)
    /\ Elements(requests) \cap Elements(strays) = {}
    /\ Coming \cap executed = {}
    /\ Elements(responses) \cup Opening \subseteq executed
    /\ Elements(responses) \cap Opening = {}

\* Whoever is under way is in the pool and somebody waits; only registers are
\* answered, and only who has been executed is resolved.
Pooled ==
    /\ \A r \in Coming \cup executed : call[r] \in {"waiting", "sent", "resolved"}
    /\ \A r \in Coming \cup Elements(responses) \cup Opening :
            r \in polReqs /\ call[r] # "resolved"
    /\ \A r \in Requests : call[r] = "sent" => api[r] = "report"
    /\ \A r \in Elements(responses) : api[r] = "register"
    /\ \A r \in Requests : call[r] = "resolved" => r \in executed

\* As long as no late request has come in, the entry is not ahead of the requests
\* that are still to come.
Ports ==
    /\ port >= 1 /\ registered <= port /\ \A r \in Requests : asPort[r] <= port
    /\ \A r \in executed : api[r] = "register" => order = "late" \/ registered >= asPort[r]
    /\ order # "late" =>
            Sorted(requests, asPort) /\ \A r \in Elements(requests) : registered <= asPort[r]
    /\ order = "kept" =>
            /\ Sorted(strays, asPort) /\ \A r \in Elements(strays) : registered <= asPort[r]
            /\ \A a \in Elements(strays), b \in Elements(requests) : asPort[a] <= asPort[b]

\* The channel goes to a port the requester has had.
Directed == channel # "none" => chanPort >= 1 /\ chanPort <= port

IInv == TypeOK /\ Placed /\ Pooled /\ Ports /\ Directed /\ SurvivesSteady

LEMMA InitInv == Init => IInv
<1> SUFFICES ASSUME Init PROVE IInv
  OBVIOUS
<1>1. TypeOK
  BY EmptySeq DEF Init, TypeOK, Api
<1>2. Elements(requests) = {} /\ Elements(strays) = {} /\ Elements(responses) = {}
  BY DEF Init, Elements
<1>3. Sorted(requests, asPort) /\ Sorted(strays, asPort)
  BY DEF Init, Sorted
<1>4. Placed
  BY <1>2 DEF Init, Placed, Coming, Opening, IsInjective
<1>5. Pooled
  BY <1>2 DEF Init, Pooled, Coming, Opening
<1>6. Ports /\ Directed /\ SurvivesSteady
  BY <1>2, <1>3 DEF Init, Ports, Directed, SurvivesSteady
<1> QED
  BY <1>1, <1>4, <1>5, <1>6 DEF IInv

-----------------------------------------------------------------------------
\* What the helper does with a request.
LEMMA HandleTypes ==
  ASSUME TypeOK, NEW r \in Requests, Handle(r)
  PROVE  /\ registered' \in Nat /\ reports' \in Seq(Requests) /\ responses' \in Seq(Requests)
         /\ channel' \in {"none", "connecting", "retrying", "up", "dead"}
         /\ chanPort' \in Nat /\ opener' \in Requests \cup {NoRequest}
         /\ opener' # NoRequest => channel' \in {"connecting", "retrying"}
         /\ alive' \in BOOLEAN
         /\ executed' \subseteq Requests /\ refused' \subseteq Requests /\ forgotten' \subseteq Requests
<1> USE DEF TypeOK
<1>1. Known(r) \in Nat
  BY DEF Known
<1>2. reports' \in Seq(Requests)
  <2> DEFINE t == Append(reports, r)
  <2>1. t \in Seq(Requests) /\ t # <<>>
    <3>1. Append(reports, r) \in Seq(Requests)
      BY AppendProperties
    <3>2. Append(reports, r) # <<>>
      <4>1. Len(Append(reports, r)) # 0
        BY AppendProperties, LenProperties
      <4>2. Len(<<>>) = 0
        BY EmptySeq
      <4> QED
        BY <4>1, <4>2, Zenon
    <3> QED
      BY <3>1, <3>2
  <2> HIDE DEF t
  <2>2. Tail(t) \in Seq(Requests)
    BY <2>1, HeadTailProperties
  <2>3. Kept(t) \in Seq(Requests)
    BY <2>1, <2>2 DEF Kept
  <2>4. reports' \in {Kept(t), reports}
    BY DEF Handle, t
  <2> QED
    BY <2>3, <2>4
<1>3. Append(responses, r) \in Seq(Requests)
  BY AppendProperties
<1>4. registered' \in Nat /\ executed' \subseteq Requests /\ refused' \subseteq Requests
  BY <1>1 DEF Handle
<1>5. CASE ~Parsed(r) \/ Known(r) = 0
  BY <1>2, <1>4, <1>5 DEF Handle, chanVars
<1>6. CASE ~(~Parsed(r) \/ Known(r) = 0) /\ channel = "none"
  BY <1>1, <1>2, <1>4, <1>6 DEF Handle
<1>7. CASE ~(~Parsed(r) \/ Known(r) = 0) /\ channel # "none"
  BY <1>2, <1>3, <1>4, <1>7 DEF Handle, chanVars, Respond
<1> QED
  BY <1>5, <1>6, <1>7

LEMMA HandleEffect ==
  ASSUME TypeOK, NEW r \in Requests, Handle(r)
  PROVE  /\ executed' \in {executed, executed \cup {r}}
         /\ \/ UNCHANGED <<responses, opener>>
            \/ /\ responses' = Append(responses, r) /\ opener' = opener
               /\ api[r] = "register" /\ r \in executed'
            \/ /\ opener' = r /\ r \in executed' /\ UNCHANGED responses
         /\ registered' = Known(r)
         /\ registered' = IF api[r] = "register" THEN asPort[r] ELSE registered
         /\ \/ UNCHANGED <<channel, chanPort>>
            \/ channel' = "connecting" /\ chanPort' = registered' /\ registered' # 0
<1>1. executed' \in {executed, executed \cup {r}}
  BY DEF Handle
<1>2. /\ registered' = Known(r)
      /\ registered' = IF api[r] = "register" THEN asPort[r] ELSE registered
  BY DEF Handle, Known
<1>3. CASE ~Parsed(r) \/ Known(r) = 0
  BY <1>1, <1>2, <1>3 DEF Handle, chanVars
<1>4. CASE Parsed(r) /\ Known(r) # 0 /\ channel = "none"
  <2>1. opener = NoRequest
    BY <1>4 DEF TypeOK
  <2> QED
    BY <1>1, <1>2, <1>4, <2>1 DEF Handle
<1>5. CASE Parsed(r) /\ Known(r) # 0 /\ channel # "none"
  <2>1. UNCHANGED <<channel, chanPort, opener>>
    BY <1>5 DEF Handle, chanVars
  <2>2. \/ UNCHANGED responses
        \/ responses' = Append(responses, r) /\ api[r] = "register" /\ r \in executed'
    BY <1>5 DEF Handle, Respond
  <2> QED
    BY <1>1, <1>2, <2>1, <2>2
<1> QED
  BY <1>3, <1>4, <1>5

LEMMA ReceivedTypes ==
  ASSUME TypeOK, NEW batch \in Seq(Requests), batch # <<>>, Received(batch)
  PROVE  /\ registered' \in Nat /\ reports' \in Seq(Requests) /\ responses' \in Seq(Requests)
         /\ channel' \in {"none", "connecting", "retrying", "up", "dead"}
         /\ chanPort' \in Nat /\ opener' \in Requests \cup {NoRequest}
         /\ opener' # NoRequest => channel' \in {"connecting", "retrying"}
         /\ alive' \in BOOLEAN
         /\ executed' \subseteq Requests /\ refused' \subseteq Requests /\ forgotten' \subseteq Requests
<1>1. CASE Len(batch) = 1
  BY <1>1, HandleTypes, HeadTailProperties DEF Received
<1>2. CASE Len(batch) # 1
  BY <1>2, LenProperties, ElementOfSeq DEF TypeOK, Received, Elements, store, chanVars
<1> QED
  BY <1>1, <1>2

LEMMA NothingThere ==
  <<>> \in Seq(Requests) /\ Elements(<<>>) = {} /\ IsInjective(<<>>)
  BY EmptySeq DEF Elements, IsInjective

LEMMA SortedAlike ==
  ASSUME NEW s, NEW f, NEW g, Sorted(s, f), \A e \in Elements(s) : f[e] = g[e]
  PROVE  Sorted(s, g)
  BY DEF Sorted, Elements

LEMMA AllCalls ==
  ASSUME TypeOK
  PROVE  /\ Elements(requests) \subseteq Requests /\ Elements(strays) \subseteq Requests
         /\ Elements(responses) \subseteq Requests
<1>1. ASSUME NEW s \in Seq(Requests) PROVE Elements(s) \subseteq Requests
  BY LenProperties, ElementOfSeq DEF Elements
<1> QED
  BY <1>1 DEF TypeOK

-----------------------------------------------------------------------------
\* Every step keeps the invariant.
LEMMA AskInv ==
  ASSUME IInv, NEW r \in Requests, NEW a \in Apis, Ask(r, a)
  PROVE  IInv'
<1> USE DEF IInv
<1>1. r \notin Coming \cup executed \cup Elements(responses) \cup Opening
  BY DEF Ask, Placed, Pooled
<1>2. /\ api' = [api EXCEPT ![r] = a] /\ asPort' = [asPort EXCEPT ![r] = port]
      /\ UNCHANGED <<port, listening, strays, order, responses, store, chanVars, alive, histVars, bounds>>
  BY DEF Ask
<1>3. a \in Api
  BY ApisAssumption
<1> DEFINE Others == Elements(requests) \cup Elements(strays)
<1>4. \A e \in Others : e # r /\ e \in Requests /\ asPort[e] = asPort'[e]
  BY <1>1, <1>2, AllCalls DEF TypeOK, Coming
<1>5. CASE ~linked
  <2>1. /\ call' = [call EXCEPT ![r] = "failed"]
        /\ UNCHANGED <<polReqs, requests, written, linked>>
    BY <1>5 DEF Ask
  <2>2. TypeOK'
    BY <1>2, <1>3, <2>1 DEF TypeOK, store, chanVars, histVars, bounds
  <2>3. Placed' /\ Pooled'
    BY <1>1, <1>2, <2>1 DEF TypeOK, Placed, Pooled, Coming, Opening, store, chanVars, histVars
  <2>4. Sorted(requests, asPort) => Sorted(requests, asPort')
    BY <1>4, SortedAlike
  <2>5. Sorted(strays, asPort) => Sorted(strays, asPort')
    BY <1>4, SortedAlike
  <2>6. Ports'
    BY <1>1, <1>2, <1>4, <2>1, <2>4, <2>5 DEF TypeOK, Ports, store, histVars
  <2>7. Directed' /\ SurvivesSteady'
    BY <1>1, <1>2 DEF TypeOK, Directed, SurvivesSteady, chanVars, histVars, bounds
  <2> QED
    BY <2>2, <2>3, <2>6, <2>7
<1>6. CASE linked
  <2>1. /\ call' = [call EXCEPT ![r] = IF a = "report" THEN "sent" ELSE "waiting"]
        /\ polReqs' = polReqs \cup {r}
        /\ requests' = Append(requests, r)
        /\ written' = (IF a = "report" THEN Append(written, r) ELSE written)
        /\ UNCHANGED linked
    BY <1>6 DEF Ask
  <2>2. /\ requests' \in Seq(Requests) /\ Elements(requests') = Elements(requests) \cup {r}
        /\ IsInjective(requests')
    BY <1>1, <2>1, AppendSeq DEF TypeOK, Placed, Coming
  <2>3. written' \in Seq(Requests)
    BY <2>1, AppendSeq DEF TypeOK
  <2>4. TypeOK'
    BY <1>2, <1>3, <2>1, <2>2, <2>3 DEF TypeOK, store, chanVars, histVars, bounds
  <2>5. Placed' /\ Pooled'
    BY <1>1, <1>2, <2>1, <2>2 DEF TypeOK, Placed, Pooled, Coming, Opening, store, chanVars, histVars
  <2>6. Sorted(requests, asPort) => Sorted(requests, asPort')
    BY <1>4, SortedAlike
  <2>7. Sorted(strays, asPort) => Sorted(strays, asPort')
    BY <1>4, SortedAlike
  <2>8. Sorted(requests, asPort') => Sorted(requests', asPort')
    <3>1. asPort'[r] = port /\ port \in Nat /\ \A e \in Elements(requests) : asPort'[e] <= port
      BY <1>2, <1>4 DEF TypeOK, Ports
    <3> QED
      BY <2>1, <3>1, AppendSorted DEF TypeOK
  <2>9. Ports'
    BY <1>1, <1>2, <1>4, <2>1, <2>2, <2>6, <2>7, <2>8 DEF TypeOK, Ports, store, histVars
  <2>10. Directed' /\ SurvivesSteady'
    BY <1>1, <1>2 DEF TypeOK, Directed, SurvivesSteady, chanVars, histVars, bounds
  <2> QED
    BY <2>4, <2>5, <2>9, <2>10
<1> QED
  BY <1>5, <1>6 DEF TypeOK

LEMMA AnsweredInv ==
  ASSUME IInv, NEW n \in DOMAIN responses, Answered(n)
  PROVE  IInv'
<1> DEFINE r == Head(responses)
<1> USE DEF IInv
<1>1. /\ n \in 0..Len(responses) /\ n >= 1
      /\ responses \in Seq(Requests) /\ IsInjective(responses)
  BY LenProperties DEF TypeOK, Placed
<1>2. /\ responses' = SubSeq(responses, n + 1, Len(responses))
      /\ call' = IF r \in polReqs /\ call[r] = "waiting" THEN [call EXCEPT ![r] = "resolved"] ELSE call
      /\ polReqs' = polReqs \ {r}
      /\ forgotten' = forgotten \cup {responses[i] : i \in 2..n}
      /\ UNCHANGED <<api, port, listening, asPort, written, linkVars, store, chanVars, alive,
                     executed, refused, bounds>>
  BY DEF Answered
<1>3. /\ responses' \in Seq(Requests) /\ IsInjective(responses')
      /\ Elements(responses') \subseteq Elements(responses)
      /\ r \in Elements(responses) /\ r \notin Elements(responses')
  BY <1>1, <1>2, CutSeq
<1>4. r \in Requests /\ forgotten' \subseteq Requests
  <2>1. r \in Requests
    BY <1>3, AllCalls
  <2>2. \A i \in 2..n : responses[i] \in Requests
    BY <1>1, ElementOfSeq, LenProperties
  <2> QED
    BY <1>2, <2>1, <2>2 DEF TypeOK
<1> HIDE DEF r
<1>5. TypeOK'
  BY <1>2, <1>3, <1>4 DEF TypeOK, linkVars, store, chanVars, bounds
<1>6. Placed' /\ Pooled'
  BY <1>2, <1>3, <1>4 DEF TypeOK, Placed, Pooled, Coming, Opening, linkVars, store, chanVars
<1>7. Ports' /\ Directed' /\ SurvivesSteady'
  BY <1>2 DEF Ports, Directed, SurvivesSteady, linkVars, store, chanVars, bounds
<1> QED
  BY <1>5, <1>6, <1>7

\* What empties the channel, or leaves it alone.
LEMMA DropInv ==
  ASSUME IInv, responses' \in {responses, <<>>},
         UNCHANGED <<call, api, polReqs, port, asPort, requests, strays, order, written, store,
                     executed, refused>>,
         opener' \in {opener, NoRequest}, channel' # "none" => channel # "none",
         UNCHANGED chanPort
  PROVE  Placed' /\ Pooled' /\ Ports' /\ Directed' /\ responses' \in Seq(Requests)
<1>1. /\ responses' \in Seq(Requests) /\ IsInjective(responses')
      /\ Elements(responses') \subseteq Elements(responses)
  BY NothingThere DEF IInv, TypeOK, Placed
<1>2. Placed' /\ Pooled'
  BY <1>1 DEF IInv, Placed, Pooled, Coming, Opening
<1>3. Ports' /\ Directed'
  BY DEF IInv, Ports, Directed, store
<1> QED
  BY <1>1, <1>2, <1>3

LEMMA ListenerInv == ASSUME IInv, CloseListener \/ OpenListener PROVE IInv'
<1> USE DEF IInv
<1>1. CASE CloseListener
  <2>1. Placed' /\ Pooled' /\ Ports' /\ Directed' /\ responses' \in Seq(Requests)
    BY <1>1, DropInv DEF CloseListener, linkVars
  <2>2. TypeOK'
    BY <1>1, <2>1, AllCalls DEF CloseListener, TypeOK, linkVars, store, bounds
  <2>3. SurvivesSteady'
    BY <1>1 DEF CloseListener, SurvivesSteady
  <2> QED
    BY <2>1, <2>2, <2>3
<1>2. CASE OpenListener
  <2>1. TypeOK'
    BY <1>2 DEF OpenListener, TypeOK, linkVars, store, chanVars, histVars, bounds
  <2>2. Placed' /\ Pooled'
    BY <1>2 DEF OpenListener, Placed, Pooled, Coming, Opening, linkVars, chanVars, histVars
  <2>3. Ports' /\ Directed' /\ SurvivesSteady'
    BY <1>2 DEF OpenListener, TypeOK, Ports, Directed, SurvivesSteady, linkVars, store, chanVars,
                histVars
  <2> QED
    BY <2>1, <2>2, <2>3
<1> QED
  BY <1>1, <1>2

LEMMA ReportsInv == ASSUME IInv, ClearReports \/ Relinked PROVE IInv'
<1> USE DEF IInv
<1>1. TypeOK'
  BY NothingThere
  DEF ClearReports, Relinked, TypeOK, reqVars, linkVars, chanVars, histVars, bounds, store
<1>2. Placed' /\ Pooled'
  BY DEF ClearReports, Relinked, Placed, Pooled, Coming, Opening, reqVars, linkVars, chanVars,
         histVars
<1>3. Ports' /\ Directed' /\ SurvivesSteady'
  BY DEF ClearReports, Relinked, Ports, Directed, SurvivesSteady, reqVars, linkVars, chanVars,
         histVars, bounds, store
<1> QED
  BY <1>1, <1>2, <1>3

LEMMA ChannelInv ==
  ASSUME IInv, ChannelRefused \/ ChannelRetries \/ ChannelReset \/ Release
  PROVE  IInv'
<1> USE DEF IInv
<1>1. Placed' /\ Pooled' /\ Ports' /\ Directed' /\ responses' \in Seq(Requests)
  BY DropInv DEF ChannelRefused, ChannelRetries, ChannelReset, Release, reqVars, linkVars, chanVars,
                 histVars
<1>2. CASE ChannelRefused
  <2>1. TypeOK'
    BY <1>2 DEF TypeOK, ChannelRefused, reqVars, linkVars, store, chanVars, histVars, bounds
  <2>2. SurvivesSteady'
    BY <1>2 DEF ChannelRefused, Reachable, TypeOK, SurvivesSteady, Directed, Ports, reqVars, chanVars
  <2> QED
    BY <1>1, <2>1, <2>2
<1>3. CASE ChannelRetries \/ ChannelReset
  <2>1. /\ channel' \in {"retrying", "dead"}
        /\ channel' = "dead" => opener = NoRequest
        /\ alive' \in BOOLEAN
        /\ forgotten' = forgotten \cup Elements(responses)
        /\ UNCHANGED <<reqVars, linkVars, store, chanPort, opener, executed, refused, bounds>>
    BY <1>3 DEF ChannelRetries, ChannelReset, TypeOK
  <2>2. TypeOK'
    BY <1>1, <2>1, AllCalls DEF TypeOK, reqVars, linkVars, store, bounds
  <2>3. SurvivesSteady'
    BY <2>1 DEF SurvivesSteady
  <2> QED
    BY <1>1, <2>2, <2>3
<1>4. CASE Release
  <2>1. /\ releases' = releases + 1 /\ channel' = "none" /\ opener' = NoRequest
        /\ UNCHANGED <<reqVars, linkVars, store, chanPort, executed, refused, losses>>
    BY <1>4 DEF Release
  <2>2. alive' \in BOOLEAN
    BY <1>4 DEF Release
  <2>3. forgotten' \subseteq Requests
    BY <1>4, AllCalls DEF Release, TypeOK
  <2>4. TypeOK'
    BY <1>1, <2>1, <2>2, <2>3 DEF TypeOK, reqVars, linkVars, store
  <2>5. SurvivesSteady'
    BY <2>1 DEF TypeOK, SurvivesSteady
  <2> QED
    BY <1>1, <2>4, <2>5
<1> QED
  BY <1>2, <1>3, <1>4

LEMMA ChannelUpInv == ASSUME IInv, ChannelUp PROVE IInv'
<1> USE DEF IInv
<1>1. /\ alive /\ channel \in {"connecting", "retrying"} /\ Reachable
      /\ channel' = "up" /\ opener' = NoRequest
      /\ UNCHANGED <<reqVars, linkVars, store, chanPort, executed, refused, bounds>>
  BY DEF ChannelUp
<1>2. CASE opener = NoRequest
  <2>1. UNCHANGED <<responses, alive, forgotten>>
    BY <1>2 DEF ChannelUp
  <2>2. Placed' /\ Pooled' /\ Ports' /\ Directed' /\ responses' \in Seq(Requests)
    BY <1>1, <2>1, DropInv DEF reqVars, linkVars
  <2>3. TypeOK'
    BY <1>1, <2>1 DEF TypeOK, reqVars, linkVars, store, bounds
  <2>4. SurvivesSteady'
    BY <1>1, <2>1 DEF SurvivesSteady, reqVars, bounds
  <2> QED
    BY <2>2, <2>3, <2>4
<1>3. CASE opener # NoRequest
  <2>1. opener \in Requests /\ opener \in executed /\ Respond(opener, "up")
    BY <1>3 DEF ChannelUp, TypeOK, Placed, Opening
  <2>2. CASE UNCHANGED responses
    <3>1. Placed' /\ Pooled' /\ Ports' /\ Directed' /\ responses' \in Seq(Requests)
      BY <1>1, <2>2, DropInv DEF reqVars, linkVars
    <3>2. alive' \in BOOLEAN /\ forgotten' \subseteq Requests
      BY <2>1 DEF Respond, Writable, TypeOK
    <3>3. TypeOK'
      BY <1>1, <3>1, <3>2 DEF TypeOK, reqVars, linkVars, store, bounds
    <3>4. alive' = alive \/ api[opener] = "basal"
      BY <2>1 DEF Respond, Writable
    <3>5. SurvivesSteady'
      BY <1>1, <2>1, <3>4 DEF SurvivesSteady, reqVars, bounds
    <3> QED
      BY <3>1, <3>3, <3>5
  <2>3. CASE responses' = Append(responses, opener) /\ api[opener] = "register" /\ UNCHANGED <<alive, forgotten>>
    <3>1. opener \notin Elements(responses)
      BY <2>1, RequestsAssumption DEF Placed, Opening
    <3>2. /\ responses' \in Seq(Requests) /\ Elements(responses') = Elements(responses) \cup {opener}
          /\ IsInjective(responses')
      BY <2>1, <2>3, <3>1, AppendSeq DEF TypeOK, Placed
    <3>3. TypeOK'
      BY <1>1, <2>3, <3>2 DEF TypeOK, reqVars, linkVars, store, bounds
    <3>4. Placed' /\ Pooled'
      BY <1>1, <1>3, <2>1, <2>3, <3>2 DEF Placed, Pooled, Coming, Opening, reqVars, linkVars
    <3>5. Ports' /\ Directed' /\ SurvivesSteady'
      BY <1>1, <2>3
      DEF Ports, Directed, SurvivesSteady, reqVars, linkVars, store, bounds
    <3> QED
      BY <3>3, <3>4, <3>5
  <2> QED
    BY <2>1, <2>2, <2>3 DEF Respond, Writable
<1> QED
  BY <1>2, <1>3

-----------------------------------------------------------------------------
\* The first call of a data event is the only one that is handled.
LEMMA ReceivedEffect ==
  ASSUME TypeOK, alive, NEW batch \in Seq(Requests), NEW r \in Requests, r = Head(batch),
         Received(batch)
  PROVE  /\ executed' \in {executed, executed \cup {r}}
         /\ \/ UNCHANGED <<responses, opener>>
            \/ /\ responses' = Append(responses, r) /\ opener' = opener
               /\ api[r] = "register" /\ r \in executed'
            \/ /\ opener' = r /\ r \in executed' /\ UNCHANGED responses
         /\ registered' = registered \/ registered' = asPort[r]
         /\ api[r] = "register" /\ r \in executed' => r \in executed \/ registered' = asPort[r]
         /\ \/ UNCHANGED <<channel, chanPort>>
            \/ channel' = "connecting" /\ chanPort' = registered' /\ registered' # 0
         /\ alive' \/ channel' \in {"retrying", "dead"} \/ (r \in executed' /\ api[r] = "basal")
<1>1. CASE Len(batch) = 1
  <2>1. Handle(r)
    BY <1>1 DEF Received
  <2>2. alive' \/ channel' \in {"retrying", "dead"} \/ (r \in executed' /\ api[r] = "basal")
    <3>1. CASE ~Parsed(r) \/ Known(r) = 0 \/ channel = "none"
      BY <2>1, <3>1 DEF Handle
    <3>2. CASE ~(~Parsed(r) \/ Known(r) = 0 \/ channel = "none")
      BY <2>1, <3>2 DEF Handle, Respond, Writable, TypeOK, chanVars
    <3> QED
      BY <3>1, <3>2
  <2> QED
    BY <2>1, <2>2, HandleEffect
<1>2. CASE Len(batch) # 1
  BY <1>2 DEF Received, store, chanVars
<1> QED
  BY <1>1, <1>2

LEMMA HandledInv ==
  ASSUME IInv, NEW r \in Coming, r \in Requests,
         IsInjective(requests'), IsInjective(strays'),
         Elements(requests') \cap Elements(strays') = {},
         Coming' \subseteq Coming \ {r},
         UNCHANGED <<call, api, polReqs>>, responses' \in Seq(Requests),
         executed' \in {executed, executed \cup {r}},
         \/ UNCHANGED <<responses, opener>>
         \/ /\ responses' = Append(responses, r) /\ opener' = opener
            /\ api[r] = "register" /\ r \in executed'
         \/ opener' = r /\ r \in executed' /\ UNCHANGED responses
  PROVE  Placed' /\ Pooled'
<1> USE DEF IInv
<1>1. r \notin executed /\ r \notin Elements(responses) /\ r \notin Opening /\ r # NoRequest
  BY RequestsAssumption DEF Placed
<1>2. CASE responses' = Append(responses, r) /\ opener' = opener /\ api[r] = "register" /\ r \in executed'
  <2>1. Elements(responses') = Elements(responses) \cup {r} /\ IsInjective(responses')
    BY <1>1, <1>2, AppendSeq DEF TypeOK, Placed
  <2>2. Placed'
    BY <1>1, <1>2, <2>1 DEF Placed, Opening
  <2>3. Pooled'
    BY <1>1, <1>2, <2>1 DEF Pooled, Opening
  <2> QED
    BY <2>2, <2>3
<1>3. CASE UNCHANGED responses /\ (opener' = opener \/ (opener' = r /\ r \in executed'))
  <2>1. Opening' \subseteq Opening \cup {r} /\ (r \in Opening' => r \in executed')
    BY <1>1, <1>3 DEF Opening
  <2>2. Placed'
    BY <1>1, <1>3, <2>1 DEF Placed
  <2>3. Pooled'
    BY <1>1, <1>3, <2>1 DEF Pooled
  <2> QED
    BY <2>2, <2>3
<1> QED
  BY <1>2, <1>3

LEMMA FirstIsLeast ==
  ASSUME NEW S, NEW s \in Seq(S), s # <<>>, NEW f, Sorted(s, f)
  PROVE  \A e \in Elements(s) : f[Head(s)] <= f[e]
<1>1. DOMAIN s = 1..Len(s) /\ Len(s) \in Nat /\ Len(s) >= 1 /\ Head(s) = s[1]
  BY LenProperties, EmptySeq, HeadTailProperties
<1> QED
  BY <1>1 DEF Elements, Sorted

LEMMA DeliverInv == ASSUME IInv, NEW n \in DOMAIN requests, Deliver(n) PROVE IInv'
<1> DEFINE r == Head(requests)
           batch == SubSeq(requests, 1, n)
<1> USE DEF IInv
<1>1. n \in 0..Len(requests) /\ n >= 1 /\ requests # <<>> /\ requests \in Seq(Requests)
  BY LenProperties, EmptySeq DEF TypeOK
<1>2. /\ alive /\ Received(batch)
      /\ requests' = SubSeq(requests, n + 1, Len(requests))
      /\ order' = IF strays # <<>> /\ order = "kept" THEN "passed" ELSE order
      /\ UNCHANGED <<reqVars, linked, strays, bounds>>
  BY DEF Deliver
<1>3. /\ requests' \in Seq(Requests) /\ batch \in Seq(Requests) /\ batch # <<>>
      /\ r = Head(batch) /\ r \in Elements(requests) /\ r \in Requests
      /\ Elements(requests') \subseteq Elements(requests) \ {r}
      /\ IsInjective(requests')
  <2>1. /\ batch \in Seq(Requests) /\ Len(batch) = n /\ requests' \in Seq(Requests)
        /\ Elements(batch) \subseteq Elements(requests)
        /\ Elements(requests') \subseteq Elements(requests)
        /\ Head(batch) = Head(requests) /\ Head(requests) \in Elements(batch)
        /\ IsInjective(requests') /\ Elements(batch) \cap Elements(requests') = {}
    BY <1>1, <1>2, CutSeq DEF Placed
  <2> HIDE DEF batch
  <2>2. batch # <<>>
    BY <1>1, <2>1, EmptySeq
  <2> QED
    BY <2>1, <2>2, AllCalls
<1>4. Sorted(requests, asPort) => /\ Sorted(requests', asPort)
                                 /\ \A e \in Elements(requests) : asPort[r] <= asPort[e]
  BY <1>1, <1>2, CutSorted, FirstIsLeast
<1> HIDE DEF r, batch
<1>5. /\ executed' \in {executed, executed \cup {r}}
      /\ \/ UNCHANGED <<responses, opener>>
         \/ /\ responses' = Append(responses, r) /\ opener' = opener
            /\ api[r] = "register" /\ r \in executed'
         \/ /\ opener' = r /\ r \in executed' /\ UNCHANGED responses
      /\ registered' = registered \/ registered' = asPort[r]
      /\ api[r] = "register" /\ r \in executed' => r \in executed \/ registered' = asPort[r]
      /\ \/ UNCHANGED <<channel, chanPort>>
         \/ channel' = "connecting" /\ chanPort' = registered' /\ registered' # 0
      /\ alive' \/ channel' \in {"retrying", "dead"} \/ (r \in executed' /\ api[r] = "basal")
  BY <1>2, <1>3, ReceivedEffect
<1>6. TypeOK'
  BY <1>2, <1>3, ReceivedTypes DEF TypeOK, reqVars, bounds
<1>7. Placed' /\ Pooled'
  <2>1. Elements(requests) \cap Elements(strays) = {}
    BY DEF Placed
  <2>2. Coming' \subseteq Coming \ {r} /\ r \in Coming
    BY <1>2, <1>3, <2>1 DEF Coming
  <2>3. Elements(requests') \cap Elements(strays') = {}
    BY <1>2, <1>3, <2>1
  <2>4. IsInjective(strays') /\ UNCHANGED <<call, api, polReqs>> /\ responses' \in Seq(Requests)
    BY <1>2, <1>6 DEF Placed, reqVars, TypeOK
  <2> QED
    BY <1>3, <1>5, <2>2, <2>3, <2>4, HandledInv
<1>8. registered' \in Nat /\ registered' <= port /\ registered \in Nat /\ asPort[r] \in Nat
  <2>1. registered \in Nat /\ registered <= port /\ asPort[r] \in Nat /\ asPort[r] <= port
    BY <1>3 DEF Ports, TypeOK
  <2> QED
    BY <1>5, <2>1
<1>9. Ports'
  <2>1. order # "late" => registered <= asPort[r] /\ registered <= registered'
    BY <1>3, <1>5, <1>8 DEF Ports
  <2>2. ASSUME NEW e \in executed', api[e] = "register", order # "late"
        PROVE  registered' >= asPort[e]
    <3>1. CASE e \in executed
      <4>1. registered >= asPort[e] /\ asPort[e] \in Nat
        BY <2>2, <3>1 DEF Ports, TypeOK
      <4> QED
        BY <1>8, <2>1, <2>2, <4>1
    <3>2. CASE e \notin executed
      <4>1. e = r
        BY <1>5, <3>2
      <4> QED
        BY <1>5, <1>8, <2>2, <3>2, <4>1
    <3> QED
      BY <3>1, <3>2
  <2>3. order # "late" => /\ Sorted(requests', asPort)
                         /\ \A e \in Elements(requests') : registered' <= asPort[e]
    BY <1>3, <1>4, <1>5, <1>8 DEF Ports
  <2>4. order' = "late" <=> order = "late"
    BY <1>2
  <2>5. order' = "kept" => strays' = <<>>
    BY <1>2
  <2>6. Sorted(<<>>, asPort)
    BY DEF Sorted
  <2> QED
    BY <1>2, <1>8, <2>2, <2>3, <2>4, <2>5, <2>6, NothingThere DEF Ports, reqVars
<1>10. Directed'
  BY <1>2, <1>5, <1>8 DEF Directed, reqVars
<1>11. SurvivesSteady'
  BY <1>2, <1>5 DEF SurvivesSteady, reqVars
<1> QED
  BY <1>6, <1>7, <1>9, <1>10, <1>11

LEMMA DeliverStrayInv == ASSUME IInv, NEW n \in DOMAIN strays, DeliverStray(n) PROVE IInv'
<1> DEFINE r == Head(strays)
           batch == SubSeq(strays, 1, n)
<1> USE DEF IInv
<1>1. n \in 0..Len(strays) /\ n >= 1 /\ strays # <<>> /\ strays \in Seq(Requests)
  BY LenProperties, EmptySeq DEF TypeOK
<1>2. /\ alive /\ Received(batch)
      /\ strays' = SubSeq(strays, n + 1, Len(strays))
      /\ order' = IF order = "passed" THEN "late" ELSE order
      /\ UNCHANGED <<reqVars, linked, requests, bounds>>
  BY DEF DeliverStray
<1>3. /\ strays' \in Seq(Requests) /\ batch \in Seq(Requests) /\ batch # <<>>
      /\ r = Head(batch) /\ r \in Elements(strays) /\ r \in Requests
      /\ Elements(strays') \subseteq Elements(strays) \ {r}
      /\ IsInjective(strays')
  <2>1. /\ batch \in Seq(Requests) /\ Len(batch) = n /\ strays' \in Seq(Requests)
        /\ Elements(batch) \subseteq Elements(strays)
        /\ Elements(strays') \subseteq Elements(strays)
        /\ Head(batch) = Head(strays) /\ Head(strays) \in Elements(batch)
        /\ IsInjective(strays') /\ Elements(batch) \cap Elements(strays') = {}
    BY <1>1, <1>2, CutSeq DEF Placed
  <2> HIDE DEF batch
  <2>2. batch # <<>>
    BY <1>1, <2>1, EmptySeq
  <2> QED
    BY <2>1, <2>2, AllCalls
<1>4. Sorted(strays, asPort) => /\ Sorted(strays', asPort)
                               /\ \A e \in Elements(strays) : asPort[r] <= asPort[e]
  BY <1>1, <1>2, CutSorted, FirstIsLeast
<1> HIDE DEF r, batch
<1>5. /\ executed' \in {executed, executed \cup {r}}
      /\ \/ UNCHANGED <<responses, opener>>
         \/ /\ responses' = Append(responses, r) /\ opener' = opener
            /\ api[r] = "register" /\ r \in executed'
         \/ /\ opener' = r /\ r \in executed' /\ UNCHANGED responses
      /\ registered' = registered \/ registered' = asPort[r]
      /\ api[r] = "register" /\ r \in executed' => r \in executed \/ registered' = asPort[r]
      /\ \/ UNCHANGED <<channel, chanPort>>
         \/ channel' = "connecting" /\ chanPort' = registered' /\ registered' # 0
      /\ alive' \/ channel' \in {"retrying", "dead"} \/ (r \in executed' /\ api[r] = "basal")
  BY <1>2, <1>3, ReceivedEffect
<1>6. TypeOK'
  BY <1>2, <1>3, ReceivedTypes DEF TypeOK, reqVars, bounds
<1>7. Placed' /\ Pooled'
  <2>1. Elements(requests) \cap Elements(strays) = {}
    BY DEF Placed
  <2>2. Coming' \subseteq Coming \ {r} /\ r \in Coming
    BY <1>2, <1>3, <2>1 DEF Coming
  <2>3. Elements(requests') \cap Elements(strays') = {}
    BY <1>2, <1>3, <2>1
  <2>4. IsInjective(requests') /\ UNCHANGED <<call, api, polReqs>> /\ responses' \in Seq(Requests)
    BY <1>2, <1>6 DEF Placed, reqVars, TypeOK
  <2> QED
    BY <1>3, <1>5, <2>2, <2>3, <2>4, HandledInv
<1>8. registered' \in Nat /\ registered' <= port /\ registered \in Nat /\ asPort[r] \in Nat
  <2>1. registered \in Nat /\ registered <= port /\ asPort[r] \in Nat /\ asPort[r] <= port
    BY <1>3 DEF Ports, TypeOK
  <2> QED
    BY <1>5, <2>1
<1>9. Ports'
  <2>1. CASE order = "kept"
    <3>1. registered <= asPort[r] /\ registered <= registered'
      BY <1>3, <1>5, <1>8, <2>1 DEF Ports
    <3>2. ASSUME NEW e \in executed', api[e] = "register" PROVE registered' >= asPort[e]
      <4>1. CASE e \in executed
        <5>1. registered >= asPort[e] /\ asPort[e] \in Nat
          BY <2>1, <3>2, <4>1 DEF Ports, TypeOK
        <5> QED
          BY <1>8, <3>1, <5>1
      <4>2. CASE e \notin executed
        <5>1. e = r
          BY <1>5, <4>2
        <5> QED
          BY <1>5, <1>8, <3>2, <4>2, <5>1
      <4> QED
        BY <4>1, <4>2
    <3>3. \A e \in Elements(strays) : registered' <= asPort[e]
      BY <1>4, <1>5, <2>1 DEF Ports
    <3>4. \A e \in Elements(requests) : registered' <= asPort[e]
      BY <1>3, <1>5, <2>1 DEF Ports
    <3>5. order' = "kept"
      BY <1>2, <2>1
    <3> QED
      BY <1>2, <1>3, <1>4, <1>8, <2>1, <3>2, <3>3, <3>4, <3>5 DEF Ports, reqVars
  <2>2. CASE order # "kept"
    <3>1. order' = "late"
      BY <1>2, <2>2 DEF TypeOK
    <3> QED
      BY <1>2, <1>8, <3>1 DEF Ports, reqVars
  <2> QED
    BY <2>1, <2>2
<1>10. Directed'
  BY <1>2, <1>5, <1>8 DEF Directed, reqVars
<1>11. SurvivesSteady'
  BY <1>2, <1>5 DEF SurvivesSteady, reqVars
<1> QED
  BY <1>6, <1>7, <1>9, <1>10, <1>11

LEMMA LinkLostInv == ASSUME IInv, LinkLost PROVE IInv'
<1> USE DEF IInv
<1>1. PICK n \in 0..Len(requests) :
        /\ strays' = strays \o SubSeq(requests, 1, n)
        /\ forgotten' = forgotten \cup {requests[i] : i \in n + 1..Len(requests)}
  BY DEF LinkLost
<1> DEFINE carried == SubSeq(requests, 1, n)
<1>2. /\ requests' = <<>> /\ linked' = FALSE /\ losses' = losses + 1
      /\ UNCHANGED <<reqVars, order, responses, store, chanVars, alive, executed, refused, releases>>
  BY DEF LinkLost
<1>3. /\ carried \in Seq(Requests) /\ IsInjective(carried)
      /\ Elements(carried) \subseteq Elements(requests)
      /\ Sorted(requests, asPort) => Sorted(carried, asPort)
  BY CutSeq, CutSorted DEF TypeOK, Placed
<1>4. strays' = strays \o carried
  BY <1>1
<1> HIDE DEF carried
<1>5. /\ strays' \in Seq(Requests)
      /\ Elements(strays') = Elements(strays) \cup Elements(carried)
      /\ IsInjective(strays')
  BY <1>3, <1>4, ConcatSeq DEF TypeOK, Placed
<1>6. TypeOK'
  <2>1. \A i \in n + 1..Len(requests) : requests[i] \in Requests
    BY ElementOfSeq, LenProperties DEF TypeOK
  <2>2. forgotten' \subseteq Requests
    BY <1>1, <2>1 DEF TypeOK
  <2> QED
    <3>1. requests' \in Seq(Requests) /\ strays' \in Seq(Requests)
      BY <1>2, <1>5, NothingThere
    <3>2. linked' \in BOOLEAN /\ losses' \in Nat /\ releases' \in Nat
      <4>1. losses \in Nat /\ releases \in Nat
        BY DEF TypeOK
      <4>2. linked' = FALSE /\ losses' = losses + 1 /\ releases' = releases
        BY <1>2
      <4>3. linked' \in BOOLEAN
        BY <4>2, Zenon
      <4>4. losses' \in Nat /\ releases' \in Nat
        BY <4>1, <4>2
      <4> QED
        BY <4>3, <4>4
    <3>3. UNCHANGED <<call, api, polReqs, port, listening, asPort, written, order, responses,
                      registered, reports, channel, chanPort, opener, alive, executed, refused>>
      BY <1>2 DEF reqVars, store, chanVars
    <3> HIDE DEF IInv
    <3>4. TypeOK
      BY DEF IInv
    <3> QED
      BY <2>2, <3>1, <3>2, <3>3, <3>4 DEF TypeOK
<1>7. Placed' /\ Pooled'
  BY <1>2, <1>3, <1>5, NothingThere DEF Placed, Pooled, Coming, Opening, reqVars, chanVars
<1>8. Ports'
  <2>1. Sorted(requests', asPort)
    BY <1>2 DEF Sorted
  <2>2. order = "kept" => Sorted(strays', asPort)
    BY <1>3, <1>4, ConcatSorted DEF TypeOK, Ports
  <2> QED
    BY <1>2, <1>3, <1>5, <2>1, <2>2, NothingThere DEF Ports, reqVars, store
<1>9. Directed' /\ SurvivesSteady'
  BY <1>2 DEF Directed, SurvivesSteady, reqVars, chanVars
<1> QED
  BY <1>6, <1>7, <1>8, <1>9

LEMMA InvStep == IInv /\ [Next]_vars => IInv'
<1> SUFFICES ASSUME IInv, [Next]_vars PROVE IInv'
  OBVIOUS
<1>1. CASE UNCHANGED vars
  BY <1>1 DEF vars, reqVars, linkVars, store, chanVars, histVars, bounds, IInv, TypeOK, Placed,
              Pooled, Ports, Directed, SurvivesSteady, Coming, Opening
<1> QED
  BY <1>1, AskInv, AnsweredInv, ListenerInv, DeliverInv, DeliverStrayInv, ReportsInv,
     ChannelUpInv, ChannelInv, LinkLostInv DEF Next

LEMMA Inductive == Spec => []IInv
  BY InitInv, InvStep, PTL DEF Spec

LEMMA OnlyHead ==
  ASSUME TypeOK, alive, NEW s \in Seq(Requests), NEW n \in 0..Len(s), n >= 1,
         Received(SubSeq(s, 1, n))
  PROVE  \E r \in Elements(s) : executed' \in {executed, executed \cup {r}}
<1> DEFINE batch == SubSeq(s, 1, n)
<1>1. /\ batch \in Seq(Requests) /\ Elements(batch) \subseteq Elements(s)
      /\ Head(batch) \in Elements(batch)
  BY CutSeq
<1>2. Elements(batch) \subseteq Requests
  BY <1>1, LenProperties, ElementOfSeq DEF Elements
<1> HIDE DEF batch
<1>3. Received(batch)
  BY DEF batch
<1>4. executed' \in {executed, executed \cup {Head(batch)}}
  BY <1>1, <1>2, <1>3, ReceivedEffect
<1> QED
  BY <1>1, <1>4

-----------------------------------------------------------------------------
\* The order of reports.  Only what is in w has a place in it.
Ordered(s, w) ==
    \A i, j \in DOMAIN s :
        i < j /\ s[i] \in Elements(w) /\ s[j] \in Elements(w) => Precedes(w, s[i], s[j])

Behind(S, T, w) ==
    \A a \in S \cap Elements(w), b \in T \cap Elements(w) : Precedes(w, a, b)

\* s is the end of what is in S, in the order of w.
Latest(s, S, w) ==
    /\ Elements(s) \subseteq S
    /\ \A i, j \in DOMAIN s : i < j => Precedes(w, s[i], s[j])
    /\ \A r \in Elements(s), q \in S : Precedes(w, r, q) => q \in Elements(s)

LEMMA PrecedesOnce ==
  ASSUME NEW S, NEW w \in Seq(S), IsInjective(w), NEW a, NEW b, Precedes(w, a, b)
  PROVE  ~Precedes(w, b, a)
<1> SUFFICES ASSUME Precedes(w, b, a) PROVE FALSE
  OBVIOUS
<1>1. DOMAIN w \subseteq Nat
  BY LenProperties
<1>2. PICK i \in DOMAIN w, j \in DOMAIN w : i < j /\ w[i] = a /\ w[j] = b
  BY DEF Precedes
<1>3. PICK k \in DOMAIN w, l \in DOMAIN w : k < l /\ w[k] = b /\ w[l] = a
  BY DEF Precedes
<1>4. i = l /\ j = k
  BY <1>2, <1>3 DEF IsInjective
<1> QED
  BY <1>1, <1>2, <1>3, <1>4

LEMMA PrecedesGrown ==
  ASSUME NEW S, NEW w \in Seq(S), NEW e \in S, NEW a
  PROVE  /\ a \in Elements(w) => Precedes(Append(w, e), a, e)
         /\ \A b : Precedes(w, a, b) => Precedes(Append(w, e), a, b)
         /\ \A b : Precedes(Append(w, e), a, b) /\ b # e => Precedes(w, a, b)
<1> DEFINE t == Append(w, e)
<1>1. /\ t \in Seq(S) /\ Len(t) = Len(w) + 1
      /\ \A i \in 1..Len(w) : t[i] = w[i]
      /\ t[Len(w) + 1] = e
  BY AppendProperties
<1> HIDE DEF t
<1>2. DOMAIN w = 1..Len(w) /\ DOMAIN t = 1..Len(w) + 1 /\ Len(w) \in Nat
  BY <1>1, LenProperties
<1>3. ASSUME a \in Elements(w) PROVE Precedes(t, a, e)
  <2>1. PICK i \in DOMAIN w : w[i] = a
    BY <1>3 DEF Elements
  <2>2. i \in DOMAIN t /\ Len(w) + 1 \in DOMAIN t /\ i < Len(w) + 1 /\ t[i] = a
    BY <1>1, <1>2, <2>1
  <2> QED
    BY <1>1, <2>2 DEF Precedes
<1>4. ASSUME NEW b, Precedes(w, a, b) PROVE Precedes(t, a, b)
  <2>1. PICK i \in DOMAIN w, j \in DOMAIN w : i < j /\ w[i] = a /\ w[j] = b
    BY <1>4 DEF Precedes
  <2>2. i \in DOMAIN t /\ j \in DOMAIN t /\ t[i] = a /\ t[j] = b
    BY <1>1, <1>2, <2>1
  <2> QED
    BY <2>1, <2>2 DEF Precedes
<1>5. ASSUME NEW b, Precedes(t, a, b), b # e PROVE Precedes(w, a, b)
  <2>1. PICK i \in DOMAIN t, j \in DOMAIN t : i < j /\ t[i] = a /\ t[j] = b
    BY <1>5 DEF Precedes
  <2>2. j # Len(w) + 1
    BY <1>1, <1>5, <2>1
  <2>3. i \in DOMAIN w /\ j \in DOMAIN w /\ w[i] = a /\ w[j] = b
    BY <1>1, <1>2, <2>1, <2>2
  <2> QED
    BY <2>1, <2>3 DEF Precedes
<1> QED
  BY <1>3, <1>4, <1>5 DEF t

LEMMA CutOrdered ==
  ASSUME NEW S, NEW s \in Seq(S), NEW n \in 0..Len(s), NEW w, Ordered(s, w)
  PROVE  /\ Ordered(SubSeq(s, 1, n), w) /\ Ordered(SubSeq(s, n + 1, Len(s)), w)
         /\ n >= 1 => Behind({Head(s)}, Elements(SubSeq(s, n + 1, Len(s))), w)
<1> DEFINE first == SubSeq(s, 1, n)  rest == SubSeq(s, n + 1, Len(s))
<1>1. /\ first \in Seq(S) /\ rest \in Seq(S) /\ Len(first) = n /\ Len(rest) = Len(s) - n
      /\ \A i \in 1..n : first[i] = s[i]
      /\ \A i \in 1..Len(s) - n : rest[i] = s[i + n]
      /\ n >= 1 => Head(s) = s[1]
  BY CutSeq
<1> HIDE DEF first, rest
<1>2. DOMAIN s = 1..Len(s) /\ DOMAIN first = 1..n /\ DOMAIN rest = 1..Len(s) - n /\ Len(s) \in Nat
  BY <1>1, LenProperties
<1>3. Ordered(first, w)
  BY <1>1, <1>2 DEF Ordered
<1>4. Ordered(rest, w)
  <2> SUFFICES ASSUME NEW i \in 1..Len(s) - n, NEW j \in 1..Len(s) - n, i < j,
                      rest[i] \in Elements(w), rest[j] \in Elements(w)
               PROVE  Precedes(w, rest[i], rest[j])
    BY <1>2 DEF Ordered
  <2>1. i + n \in DOMAIN s /\ j + n \in DOMAIN s /\ i + n < j + n
    BY <1>2
  <2>2. rest[i] = s[i + n] /\ rest[j] = s[j + n]
    BY <1>1
  <2> QED
    BY <2>1, <2>2, Zenon DEF Ordered
<1>5. ASSUME n >= 1 PROVE Behind({Head(s)}, Elements(rest), w)
  <2> SUFFICES ASSUME NEW i \in DOMAIN rest, s[1] \in Elements(w), rest[i] \in Elements(w)
               PROVE  Precedes(w, s[1], rest[i])
    BY <1>1, <1>5 DEF Behind, Elements
  <2>1. 1 \in DOMAIN s /\ i + n \in DOMAIN s /\ 1 < i + n /\ rest[i] = s[i + n]
    BY <1>1, <1>2, <1>5
  <2> QED
    BY <2>1, Zenon DEF Ordered
<1> QED
  BY <1>3, <1>4, <1>5 DEF first, rest

LEMMA AppendOrdered ==
  ASSUME NEW S, NEW s \in Seq(S), NEW e \in S, NEW w, Ordered(s, w), Behind(Elements(s), {e}, w)
  PROVE  Ordered(Append(s, e), w)
<1> DEFINE t == Append(s, e)
<1>1. /\ t \in Seq(S) /\ Len(t) = Len(s) + 1
      /\ \A i \in 1..Len(s) : t[i] = s[i]
      /\ t[Len(s) + 1] = e
  BY AppendProperties
<1> HIDE DEF t
<1>2. DOMAIN s = 1..Len(s) /\ DOMAIN t = 1..Len(s) + 1 /\ Len(s) \in Nat
  BY <1>1, LenProperties
<1>3. SUFFICES ASSUME NEW i \in DOMAIN t, NEW j \in DOMAIN t, i < j,
                      t[i] \in Elements(w), t[j] \in Elements(w)
               PROVE  Precedes(w, t[i], t[j])
  BY DEF Ordered, t
<1>4. CASE j \in DOMAIN s
  <2>1. i \in DOMAIN s /\ t[i] = s[i] /\ t[j] = s[j]
    BY <1>1, <1>2, <1>3, <1>4
  <2> QED
    BY <1>3, <1>4, <2>1, Zenon DEF Ordered
<1>5. CASE j \notin DOMAIN s
  <2>1. i \in DOMAIN s /\ t[i] = s[i] /\ t[j] = e
    BY <1>1, <1>2, <1>3, <1>5
  <2>2. s[i] \in Elements(s)
    BY <2>1 DEF Elements
  <2> QED
    BY <1>3, <2>1, <2>2 DEF Behind
<1> QED
  BY <1>4, <1>5

LEMMA ConcatOrdered ==
  ASSUME NEW S, NEW s \in Seq(S), NEW u \in Seq(S), NEW w, Ordered(s, w), Ordered(u, w),
         Behind(Elements(s), Elements(u), w)
  PROVE  Ordered(s \o u, w)
<1> DEFINE t == s \o u
<1>1. /\ t \in Seq(S) /\ Len(t) = Len(s) + Len(u)
      /\ \A i \in 1..Len(s) + Len(u) : t[i] = IF i <= Len(s) THEN s[i] ELSE u[i - Len(s)]
  BY ConcatProperties
<1> HIDE DEF t
<1>2. /\ Len(s) \in Nat /\ Len(u) \in Nat
      /\ DOMAIN s = 1..Len(s) /\ DOMAIN u = 1..Len(u) /\ DOMAIN t = 1..Len(s) + Len(u)
  BY <1>1, LenProperties
<1>3. SUFFICES ASSUME NEW i \in DOMAIN t, NEW j \in DOMAIN t, i < j,
                      t[i] \in Elements(w), t[j] \in Elements(w)
               PROVE  Precedes(w, t[i], t[j])
  BY DEF Ordered, t
<1>4. CASE j \in DOMAIN s
  <2>1. i \in DOMAIN s /\ t[i] = s[i] /\ t[j] = s[j]
    BY <1>1, <1>2, <1>3, <1>4
  <2> QED
    BY <1>3, <1>4, <2>1, Zenon DEF Ordered
<1>5. CASE i \notin DOMAIN s
  <2>1. /\ i - Len(s) \in DOMAIN u /\ j - Len(s) \in DOMAIN u /\ i - Len(s) < j - Len(s)
        /\ t[i] = u[i - Len(s)] /\ t[j] = u[j - Len(s)]
    BY <1>1, <1>2, <1>3, <1>5
  <2> QED
    BY <1>3, <2>1, Zenon DEF Ordered
<1>6. CASE i \in DOMAIN s /\ j \notin DOMAIN s
  <2>1. t[i] = s[i] /\ j - Len(s) \in DOMAIN u /\ t[j] = u[j - Len(s)]
    BY <1>1, <1>2, <1>6
  <2>2. t[i] \in Elements(s) /\ t[j] \in Elements(u)
    BY <1>6, <2>1 DEF Elements
  <2> QED
    BY <1>3, <2>2 DEF Behind
<1> QED
  BY <1>4, <1>5, <1>6

\* A report that follows all the others is the last one.
LEMMA LatestGrown ==
  ASSUME NEW S, NEW s \in Seq(S), NEW r \in S, NEW w \in Seq(S), IsInjective(w),
         NEW T, Latest(s, T, w), \A a \in T : Precedes(w, a, r)
  PROVE  Latest(Append(s, r), T \cup {r}, w)
<1> DEFINE t == Append(s, r)
<1>1. /\ t \in Seq(S) /\ Len(t) = Len(s) + 1
      /\ \A i \in 1..Len(s) : t[i] = s[i]
      /\ t[Len(s) + 1] = r
  BY AppendProperties
<1>2. Elements(t) = Elements(s) \cup {r}
  BY AppendSeq
<1> HIDE DEF t
<1>3. DOMAIN s = 1..Len(s) /\ DOMAIN t = 1..Len(s) + 1 /\ Len(s) \in Nat
  BY <1>1, LenProperties
<1>4. ASSUME NEW i \in DOMAIN t, NEW j \in DOMAIN t, i < j PROVE Precedes(w, t[i], t[j])
  <2>1. CASE j \in DOMAIN s
    <3>1. i \in DOMAIN s /\ t[i] = s[i] /\ t[j] = s[j]
      BY <1>1, <1>3, <1>4, <2>1
    <3> QED
      BY <1>4, <2>1, <3>1, Zenon DEF Latest
  <2>2. CASE j \notin DOMAIN s
    <3>1. i \in DOMAIN s /\ t[i] = s[i] /\ t[j] = r
      BY <1>1, <1>3, <1>4, <2>2
    <3>2. s[i] \in T
      BY <3>1 DEF Latest, Elements
    <3> QED
      BY <3>1, <3>2
  <2> QED
    BY <2>1, <2>2
<1>5. ASSUME NEW a \in Elements(t), NEW q \in T \cup {r}, Precedes(w, a, q)
      PROVE  q \in Elements(t)
  <2>1. CASE q = r
    BY <1>2, <2>1
  <2>2. CASE q \in T /\ a = r
    BY <1>5, <2>2, PrecedesOnce
  <2>3. CASE q \in T /\ a \in Elements(s)
    BY <1>2, <1>5, <2>3 DEF Latest
  <2> QED
    BY <1>2, <2>1, <2>2, <2>3
<1>6. Elements(t) \subseteq T \cup {r}
  BY <1>2 DEF Latest
<1> QED
  BY <1>4, <1>5, <1>6 DEF Latest, t

\* Without its oldest report it still is the end.
LEMMA LatestTail ==
  ASSUME NEW S, NEW t \in Seq(S), t # <<>>, NEW w \in Seq(S), IsInjective(w),
         NEW T, Latest(t, T, w)
  PROVE  Latest(Tail(t), T, w)
<1> DEFINE u == Tail(t)
<1>1. /\ u \in Seq(S) /\ Len(u) = Len(t) - 1
      /\ \A i \in 1..Len(u) : u[i] = t[i + 1]
  BY HeadTailProperties
<1> HIDE DEF u
<1>2. DOMAIN t = 1..Len(t) /\ DOMAIN u = 1..Len(t) - 1 /\ Len(t) \in Nat
  BY <1>1, LenProperties
<1>3. \A i \in DOMAIN u : i + 1 \in DOMAIN t /\ u[i] = t[i + 1]
  BY <1>1, <1>2
<1>4. ASSUME NEW i \in DOMAIN u, NEW j \in DOMAIN u, i < j PROVE Precedes(w, u[i], u[j])
  <2>1. i + 1 < j + 1
    BY <1>2, <1>4
  <2> QED
    BY <1>3, <2>1, Zenon DEF Latest
<1>5. Elements(u) \subseteq Elements(t)
  BY <1>3 DEF Elements
<1>6. ASSUME NEW i \in DOMAIN u, NEW q \in T, Precedes(w, u[i], q) PROVE q \in Elements(u)
  <2>1. u[i] \in Elements(t)
    BY <1>5 DEF Elements
  <2>2. PICK j \in DOMAIN t : q = t[j]
    BY <1>6, <2>1 DEF Latest, Elements
  <2>3. j # 1
    <3>1. CASE j = 1
      <4>1. 1 < i + 1
        BY <1>2
      <4>2. Precedes(w, t[1], t[i + 1])
        BY <1>3, <2>2, <3>1, <4>1, Zenon DEF Latest
      <4> QED
        BY <1>3, <1>6, <2>2, <3>1, <4>2, PrecedesOnce
    <3> QED
      BY <3>1
  <2>4. j - 1 \in DOMAIN u /\ u[j - 1] = t[j]
    BY <1>1, <1>2, <2>3
  <2> QED
    BY <2>2, <2>4 DEF Elements
<1> QED
  BY <1>4, <1>5, <1>6 DEF Latest, Elements, u

-----------------------------------------------------------------------------
Came == executed \cap Elements(written)

\* A report is written once, when it is asked for.
Recorded ==
    /\ IsInjective(written)
    /\ \A r \in Elements(written) : call[r] = "sent" /\ api[r] = "report"
    /\ \A r \in Requests : api[r] = "report" /\ call[r] # "failed" => r \in Elements(written)

\* What is on its way keeps the order in which it was written, and what has come
\* in was written before, until a stray is late.
InOrder ==
    /\ order # "late" =>
            Ordered(requests, written) /\ Behind(executed, Elements(requests), written)
    /\ order = "kept" =>
            /\ Ordered(strays, written) /\ Behind(executed, Elements(strays), written)
            /\ Behind(Elements(strays), Elements(requests), written)

\* What the helper keeps.
LatestKept == order # "late" => Len(reports) <= Keep /\ Latest(reports, Came, written)

OrderInv == Recorded /\ InOrder /\ LatestKept

LEMMA InitOrder == Init => OrderInv
<1> SUFFICES ASSUME Init PROVE OrderInv
  OBVIOUS
<1>1. Elements(<<>>) = {} /\ IsInjective(<<>>) /\ Len(<<>>) = 0 /\ DOMAIN <<>> = {}
  BY NothingThere, EmptySeq
<1>2. Recorded
  BY <1>1 DEF Init, Recorded
<1>3. InOrder
  BY <1>1 DEF Init, InOrder, Ordered, Behind
<1>4. LatestKept
  BY <1>1, BoundsAssumption DEF Init, LatestKept, Latest, Came
<1> QED
  BY <1>2, <1>3, <1>4 DEF OrderInv

LEMMA AskOrder ==
  ASSUME IInv, OrderInv, NEW r \in Requests, NEW a \in Apis, Ask(r, a)
  PROVE  OrderInv'
<1>1. r \notin Coming \cup executed \cup Elements(written)
  BY DEF Ask, IInv, Placed, Pooled, OrderInv, Recorded
<1>2. /\ api' = [api EXCEPT ![r] = a]
      /\ UNCHANGED <<strays, order, reports, executed>>
  BY DEF Ask, store, histVars
<1>3. CASE ~linked
  <2>1. /\ call' = [call EXCEPT ![r] = "failed"]
        /\ UNCHANGED <<requests, written>>
    BY <1>3 DEF Ask
  <2>2. Recorded'
    BY <1>1, <1>2, <2>1 DEF IInv, TypeOK, OrderInv, Recorded
  <2>3. InOrder' /\ LatestKept'
    BY <1>2, <2>1 DEF OrderInv, InOrder, LatestKept, Came
  <2> QED
    BY <2>2, <2>3 DEF OrderInv
<1>4. CASE linked /\ a # "report"
  <2>1. /\ call' = [call EXCEPT ![r] = "waiting"]
        /\ requests' = Append(requests, r)
        /\ UNCHANGED written
    BY <1>4 DEF Ask
  <2>2. Recorded'
    BY <1>1, <1>2, <1>4, <2>1 DEF IInv, TypeOK, OrderInv, Recorded
  <2>3. Elements(requests') = Elements(requests) \cup {r}
    BY <2>1, AppendSeq DEF IInv, TypeOK
  <2>4. Behind(Elements(requests), {r}, written)
    BY <1>1 DEF Behind
  <2>5. Ordered(requests, written) => Ordered(requests', written)
    BY <2>1, <2>4, AppendOrdered DEF IInv, TypeOK
  <2>6. InOrder'
    BY <1>1, <1>2, <2>1, <2>3, <2>5 DEF OrderInv, InOrder, Behind
  <2>7. LatestKept'
    BY <1>2, <2>1 DEF OrderInv, LatestKept, Came
  <2> QED
    BY <2>2, <2>6, <2>7 DEF OrderInv
<1>5. CASE linked /\ a = "report"
  <2>1. /\ call' = [call EXCEPT ![r] = "sent"]
        /\ requests' = Append(requests, r)
        /\ written' = Append(written, r)
    BY <1>5 DEF Ask
  <2>2. /\ written' \in Seq(Requests) /\ Elements(written') = Elements(written) \cup {r}
        /\ IsInjective(written')
    BY <1>1, <2>1, AppendSeq DEF IInv, TypeOK, OrderInv, Recorded
  <2>3. Recorded'
    BY <1>1, <1>2, <1>5, <2>1, <2>2 DEF IInv, TypeOK, OrderInv, Recorded
  <2>4. Elements(requests') = Elements(requests) \cup {r}
    BY <2>1, AppendSeq DEF IInv, TypeOK
  <2>5. /\ \A b \in Elements(written) : Precedes(written', b, r)
        /\ \A b, c : Precedes(written, b, c) => Precedes(written', b, c)
        /\ \A b, c : Precedes(written', b, c) /\ c # r => Precedes(written, b, c)
    BY <2>1, PrecedesGrown DEF IInv, TypeOK
  <2>6. ASSUME NEW s \in Seq(Requests), r \notin Elements(s), Ordered(s, written)
        PROVE  Ordered(s, written')
    <3>1. \A i \in DOMAIN s : s[i] \in Elements(s)
      BY DEF Elements
    <3> QED
      BY <2>2, <2>5, <2>6, <3>1 DEF Ordered
  <2>7. ASSUME NEW U, NEW V, r \notin U, r \notin V, Behind(U, V, written)
        PROVE  Behind(U, V, written') /\ Behind(U, V \cup {r}, written')
    BY <2>2, <2>5, <2>7 DEF Behind
  <2>8. r \notin Elements(requests) /\ r \notin Elements(strays) /\ r \notin executed
    BY <1>1 DEF Coming
  <2>9. Ordered(requests, written) => Ordered(requests', written')
    <3>1. Behind(Elements(requests), {r}, written')
      BY <2>2, <2>5, <2>8 DEF Behind
    <3> QED
      BY <2>1, <2>6, <2>8, <3>1, AppendOrdered DEF IInv, TypeOK
  <2>10. InOrder'
    BY <1>2, <2>4, <2>6, <2>7, <2>8, <2>9 DEF IInv, TypeOK, OrderInv, InOrder
  <2>11. Came' = Came
    BY <1>2, <2>2, <2>8 DEF Came
  <2>12. Latest(reports, Came, written) => Latest(reports, Came, written')
    BY <2>5, <2>8 DEF Latest, Came
  <2>13. LatestKept'
    BY <1>2, <2>11, <2>12 DEF OrderInv, LatestKept
  <2> QED
    BY <2>3, <2>10, <2>13 DEF OrderInv
<1> QED
  BY <1>3, <1>4, <1>5

\* A report that is handled, after all those that came in.
LEMMA HandleOrder ==
  ASSUME IInv, OrderInv, NEW r \in Coming, r \in Requests, Handle(r),
         order # "late", Behind(executed, {r}, written), written' = written
  PROVE  Len(reports') <= Keep /\ Latest(reports', Came', written)
<1>1. Len(reports) <= Keep /\ Latest(reports, Came, written)
  BY DEF OrderInv, LatestKept
<1>2. CASE api[r] = "report"
  <2> DEFINE t == Append(reports, r)
  <2>1. executed' = executed \cup {r} /\ reports' = Kept(t)
    BY <1>2 DEF Handle, Parsed
  <2>2. r \in Elements(written)
    BY <1>2 DEF IInv, Pooled, OrderInv, Recorded
  <2>3. Came' = Came \cup {r} /\ \A b \in Came : Precedes(written, b, r)
    BY <2>1, <2>2 DEF Came, Behind
  <2>4. t \in Seq(Requests) /\ Len(t) = Len(reports) + 1
    BY AppendProperties DEF IInv, TypeOK
  <2>5. Latest(t, Came \cup {r}, written)
    <3>1. reports \in Seq(Requests) /\ written \in Seq(Requests) /\ IsInjective(written)
      BY DEF IInv, TypeOK, OrderInv, Recorded
    <3> HIDE DEF t
    <3> DEFINE T == Came
    <3>2. Latest(reports, T, written) /\ \A b \in T : Precedes(written, b, r)
      BY <1>1, <2>3
    <3> HIDE DEF T
    <3>3. Latest(Append(reports, r), T \cup {r}, written)
      BY <3>1, <3>2, LatestGrown
    <3> QED
      BY <3>3 DEF t, T
  <2> HIDE DEF t
  <2>6. Len(t) \in Nat /\ Len(reports) \in Nat /\ t # <<>>
    <3>1. Len(t) \in Nat /\ Len(reports) \in Nat
      BY <2>4, LenProperties DEF IInv, TypeOK
    <3>2. Len(t) # 0
      BY <2>4, <3>1
    <3> QED
      BY <3>1, <3>2, EmptySeq
  <2>7. CASE Len(t) > Keep
    <3>1. reports' = Tail(t)
      BY <2>1, <2>7 DEF Kept
    <3>2. Len(Tail(t)) = Len(t) - 1
      BY <2>4, <2>6, HeadTailProperties
    <3>3. Len(Tail(t)) <= Keep
      BY <1>1, <2>4, <2>6, <3>2, BoundsAssumption
    <3>4. Latest(Tail(t), Came \cup {r}, written)
      BY <2>4, <2>5, <2>6, LatestTail DEF IInv, TypeOK, OrderInv, Recorded
    <3> QED
      BY <2>3, <3>1, <3>3, <3>4
  <2>8. CASE ~(Len(t) > Keep)
    <3>1. reports' = t
      BY <2>1, <2>8 DEF Kept
    <3>2. Len(t) <= Keep
      BY <2>6, <2>8, BoundsAssumption
    <3> QED
      BY <2>3, <2>5, <3>1, <3>2
  <2> QED
    BY <2>7, <2>8
<1>3. CASE api[r] # "report"
  <2>1. reports' = reports /\ executed' \in {executed, executed \cup {r}}
    BY <1>3 DEF Handle
  <2>2. r \notin Elements(written)
    BY <1>3 DEF OrderInv, Recorded
  <2>3. Came' = Came
    BY <2>1, <2>2 DEF Came
  <2> QED
    BY <1>1, <2>1, <2>3
<1> QED
  BY <1>2, <1>3

LEMMA ReceivedOrder ==
  ASSUME IInv, OrderInv, alive, NEW batch \in Seq(Requests), NEW r \in Coming, r \in Requests,
         r = Head(batch), Received(batch),
         order # "late", Behind(executed, {r}, written), written' = written
  PROVE  Len(reports') <= Keep /\ Latest(reports', Came', written)
<1>1. CASE Len(batch) = 1
  BY <1>1, HandleOrder DEF Received
<1>2. CASE Len(batch) # 1
  BY <1>2 DEF Received, store, Came, OrderInv, LatestKept
<1> QED
  BY <1>1, <1>2

LEMMA DeliverOrder ==
  ASSUME IInv, OrderInv, NEW n \in DOMAIN requests, Deliver(n)
  PROVE  OrderInv'
<1> DEFINE r == Head(requests)
           batch == SubSeq(requests, 1, n)
<1>1. n \in 0..Len(requests) /\ n >= 1 /\ requests \in Seq(Requests)
  BY LenProperties DEF IInv, TypeOK
<1>2. /\ alive /\ Received(batch)
      /\ requests' = SubSeq(requests, n + 1, Len(requests))
      /\ order' = IF strays # <<>> /\ order = "kept" THEN "passed" ELSE order
      /\ UNCHANGED <<call, api, written, strays>>
  BY DEF Deliver, reqVars
<1>3. /\ batch \in Seq(Requests) /\ r = Head(batch) /\ r \in Elements(requests)
      /\ Elements(requests') \subseteq Elements(requests)
  BY <1>1, <1>2, CutSeq
<1>4. Ordered(requests, written) =>
        Ordered(requests', written) /\ Behind({r}, Elements(requests'), written)
  BY <1>1, <1>2, CutOrdered
<1>5. r \in Coming /\ r \in Requests
  BY <1>3, AllCalls DEF IInv, Coming
<1> HIDE DEF r, batch
<1>6. executed' \in {executed, executed \cup {r}}
  BY <1>2, <1>3, <1>5, ReceivedEffect DEF IInv
<1>7. Recorded'
  BY <1>2 DEF OrderInv, Recorded
<1>8. order' # "late" => order # "late"
  BY <1>2
<1>9. InOrder'
  <2>1. order' # "late" =>
            Ordered(requests', written) /\ Behind(executed', Elements(requests'), written)
    BY <1>3, <1>4, <1>6, <1>8 DEF OrderInv, InOrder, Behind
  <2>2. order' = "kept" => strays' = <<>>
    BY <1>2
  <2>3. /\ Ordered(<<>>, written) /\ Behind(executed', {}, written)
        /\ Behind({}, Elements(requests'), written)
    BY EmptySeq DEF Ordered, Behind
  <2> QED
    BY <1>2, <2>1, <2>2, <2>3, NothingThere DEF InOrder
<1>10. LatestKept'
  <2> SUFFICES ASSUME order' # "late"
               PROVE  Len(reports') <= Keep /\ Latest(reports', Came', written)
    BY <1>2 DEF LatestKept
  <2>1. Behind(executed, {r}, written)
    BY <1>3, <1>8 DEF OrderInv, InOrder, Behind
  <2> QED
    BY <1>2, <1>3, <1>5, <1>8, <2>1, ReceivedOrder
<1> QED
  BY <1>7, <1>9, <1>10 DEF OrderInv

LEMMA DeliverStrayOrder ==
  ASSUME IInv, OrderInv, NEW n \in DOMAIN strays, DeliverStray(n)
  PROVE  OrderInv'
<1> DEFINE r == Head(strays)
           batch == SubSeq(strays, 1, n)
<1>1. n \in 0..Len(strays) /\ n >= 1 /\ strays \in Seq(Requests)
  BY LenProperties DEF IInv, TypeOK
<1>2. /\ alive /\ Received(batch)
      /\ strays' = SubSeq(strays, n + 1, Len(strays))
      /\ order' = IF order = "passed" THEN "late" ELSE order
      /\ UNCHANGED <<call, api, written, requests>>
  BY DEF DeliverStray, reqVars
<1>3. /\ batch \in Seq(Requests) /\ r = Head(batch) /\ r \in Elements(strays)
      /\ Elements(strays') \subseteq Elements(strays)
  BY <1>1, <1>2, CutSeq
<1>4. Ordered(strays, written) =>
        Ordered(strays', written) /\ Behind({r}, Elements(strays'), written)
  BY <1>1, <1>2, CutOrdered
<1>5. r \in Coming /\ r \in Requests
  BY <1>3, AllCalls DEF IInv, Coming
<1> HIDE DEF r, batch
<1>6. executed' \in {executed, executed \cup {r}}
  BY <1>2, <1>3, <1>5, ReceivedEffect DEF IInv
<1>7. Recorded'
  BY <1>2 DEF OrderInv, Recorded
<1>8. order' # "late" => order = "kept"
  BY <1>2 DEF IInv, TypeOK
<1>9. ASSUME order = "kept"
      PROVE  /\ Ordered(strays', written) /\ Behind(executed', Elements(strays'), written)
             /\ Behind(executed', Elements(requests), written)
             /\ Behind(Elements(strays'), Elements(requests), written)
  BY <1>3, <1>4, <1>6, <1>9 DEF OrderInv, InOrder, Behind
<1>10. InOrder'
  BY <1>2, <1>8, <1>9 DEF OrderInv, InOrder
<1>11. LatestKept'
  <2> SUFFICES ASSUME order' # "late"
               PROVE  Len(reports') <= Keep /\ Latest(reports', Came', written)
    BY <1>2 DEF LatestKept
  <2>1. Behind(executed, {r}, written)
    BY <1>3, <1>8 DEF OrderInv, InOrder, Behind
  <2> QED
    BY <1>2, <1>3, <1>5, <1>8, <2>1, ReceivedOrder
<1> QED
  BY <1>7, <1>10, <1>11 DEF OrderInv

LEMMA LinkLostOrder == ASSUME IInv, OrderInv, LinkLost PROVE OrderInv'
<1>1. PICK n \in 0..Len(requests) : strays' = strays \o SubSeq(requests, 1, n)
  BY DEF LinkLost
<1> DEFINE carried == SubSeq(requests, 1, n)
<1>2. requests' = <<>> /\ UNCHANGED <<call, api, written, order, reports, executed>>
  BY DEF LinkLost, reqVars, store
<1>3. /\ carried \in Seq(Requests) /\ Elements(carried) \subseteq Elements(requests)
      /\ Ordered(requests, written) => Ordered(carried, written)
  BY CutSeq, CutOrdered DEF IInv, TypeOK
<1>4. strays' = strays \o carried
  BY <1>1
<1> HIDE DEF carried
<1>5. Elements(strays') = Elements(strays) \cup Elements(carried)
  BY <1>3, <1>4, ConcatSeq DEF IInv, TypeOK
<1>6. ASSUME order = "kept"
      PROVE  Ordered(strays', written) /\ Behind(executed, Elements(strays'), written)
  <2>1. /\ Ordered(strays, written) /\ Ordered(carried, written)
        /\ Behind(Elements(strays), Elements(carried), written)
    BY <1>3, <1>6 DEF OrderInv, InOrder, Behind
  <2>2. Ordered(strays', written)
    BY <1>3, <1>4, <2>1, ConcatOrdered DEF IInv, TypeOK
  <2>3. Behind(executed, Elements(strays'), written)
    BY <1>3, <1>5, <1>6 DEF OrderInv, InOrder, Behind
  <2> QED
    BY <2>2, <2>3
<1>7. Ordered(<<>>, written) /\ \A U : Behind(U, {}, written)
  BY EmptySeq DEF Ordered, Behind
<1>8. InOrder'
  BY <1>2, <1>6, <1>7, NothingThere DEF InOrder
<1>9. Recorded' /\ LatestKept'
  BY <1>2 DEF OrderInv, Recorded, LatestKept, Came
<1> QED
  BY <1>8, <1>9 DEF OrderInv

\* What neither asks nor handles changes the order of nothing.
LEMMA OtherOrder ==
  ASSUME OrderInv, reports' \in {reports, <<>>},
         UNCHANGED <<api, written, requests, strays, order, executed>>,
         \A r \in Requests : call'[r] = call[r] \/ (call[r] = "waiting" /\ call'[r] = "resolved"),
         written \in Seq(Requests)
  PROVE  OrderInv'
<1>1. Elements(written) \subseteq Requests
  BY LenProperties, ElementOfSeq DEF Elements
<1>2. Recorded'
  BY <1>1 DEF OrderInv, Recorded
<1>3. InOrder'
  BY DEF OrderInv, InOrder
<1>4. Len(<<>>) <= Keep /\ Latest(<<>>, Came, written)
  BY EmptySeq, NothingThere, BoundsAssumption DEF Latest
<1>5. LatestKept'
  BY <1>4 DEF OrderInv, LatestKept, Came
<1> QED
  BY <1>2, <1>3, <1>5 DEF OrderInv

LEMMA OrderStep == IInv /\ OrderInv /\ [Next]_vars => OrderInv'
<1> SUFFICES ASSUME IInv, OrderInv, [Next]_vars PROVE OrderInv'
  OBVIOUS
<1>1. written \in Seq(Requests)
  BY DEF IInv, TypeOK
<1>2. ASSUME NEW n \in DOMAIN responses, Answered(n) PROVE OrderInv'
  <2>1. UNCHANGED <<api, written, requests, strays, order, reports, executed>>
    BY <1>2 DEF Answered, linkVars, store
  <2>2. \A r \in Requests : call'[r] = call[r] \/ (call[r] = "waiting" /\ call'[r] = "resolved")
    BY <1>2 DEF Answered, IInv, TypeOK
  <2> QED
    BY <1>1, <2>1, <2>2, OtherOrder
<1>3. ASSUME CloseListener \/ OpenListener \/ ClearReports \/ ChannelUp \/ ChannelRefused
             \/ ChannelRetries \/ ChannelReset \/ Release \/ Relinked \/ UNCHANGED vars
      PROVE  OrderInv'
  <2>1. /\ UNCHANGED <<call, api, written, requests, strays, order, executed>>
        /\ reports' \in {reports, <<>>}
    BY <1>3 DEF CloseListener, OpenListener, ClearReports, ChannelUp, ChannelRefused,
                ChannelRetries, ChannelReset, Release, Relinked, vars, reqVars, linkVars, store,
                histVars
  <2> QED
    BY <1>1, <2>1, OtherOrder
<1> QED
  BY <1>2, <1>3, AskOrder, DeliverOrder, DeliverStrayOrder, LinkLostOrder DEF Next

-----------------------------------------------------------------------------
\* The theorems.

\* Every variable keeps its type, and no handler is left waiting for a response
\* channel that nobody is opening.
THEOREM TypeCorrect == Spec => []TypeOK
<1>1. IInv => TypeOK
  BY DEF IInv
<1> QED
  BY <1>1, Inductive, PTL

\* Whatever is lost, coalesced or handled out of order, an answer finds the entry
\* of its call in polReqs and its caller waiting, and there is one answer only.
THEOREM AnswersFindCalls == Spec => []AnswerFindsCall
<1>1. IInv => AnswerFindsCall
  <2> SUFFICES ASSUME IInv, NEW i \in DOMAIN responses, NEW j \in DOMAIN responses
               PROVE  /\ responses[i] \in polReqs /\ call[responses[i]] = "waiting"
                      /\ responses[i] = responses[j] => i = j
    BY DEF AnswerFindsCall
  <2>1. responses[i] \in Elements(responses) /\ responses[i] \in Requests
    BY AllCalls DEF IInv, Elements
  <2>2. responses[i] = responses[j] => i = j
    BY DEF IInv, Placed, IsInjective
  <2>3. /\ responses[i] \in polReqs /\ call[responses[i]] # "resolved"
        /\ call[responses[i]] \in {"waiting", "sent", "resolved"}
        /\ api[responses[i]] = "register"
    BY <2>1 DEF IInv, Placed, Pooled
  <2>4. call[responses[i]] # "sent"
    BY <2>1, <2>3 DEF IInv, Pooled
  <2> QED
    BY <2>2, <2>3, <2>4
<1> QED
  BY <1>1, Inductive, PTL

\* After a register is acknowledged, the manager's entry of the provider never
\* falls behind the port that register told, as long as no earlier request of a
\* lost connection has overtaken a later one.
THEOREM RegisterIsKnown == Spec => []RegisteredAfterAck
<1>1. IInv => RegisteredAfterAck
  BY DEF IInv, Pooled, Ports, RegisteredAfterAck
<1> QED
  BY <1>1, Inductive, PTL

\* The reports the manager holds are the last that have come in, in the order in
\* which the provider wrote them and without a gap, whatever is retried, coalesced
\* or lost, as long as no stray of a lost connection is handled after what its
\* successor carried.
THEOREM ReportsAreLatest == Spec => []ReportsLatest
<1>1. IInv /\ OrderInv => ReportsLatest
  BY DEF OrderInv, LatestKept, Latest, Came, ReportsLatest
<1> QED
  BY <1>1, InitInv, InvStep, InitOrder, OrderStep, PTL DEF Spec

\* With the listener open, the network up, no restart and no API without
\* specification, nothing ends the manager's process.
THEOREM ManagerSurvives == Spec => []SurvivesSteady
<1>1. IInv => SurvivesSteady
  BY DEF IInv
<1> QED
  BY <1>1, Inductive, PTL

\* A call is executed and resolved once at most, and resolved after its execution.
THEOREM ExchangeIsCall == Spec => ImplementsCall
<1> DEFINE asked == {r \in Requests : call[r] \in {"waiting", "sent", "resolved"}}
           resolved == {r \in Requests : call[r] = "resolved"}
<1>1. Init => Call!Init
  BY DEF Init, Call!Init
<1>2. ASSUME IInv, [Next]_vars PROVE [Call!Next]_(Call!vars)
  <2>1. ASSUME UNCHANGED <<call, executed>> PROVE UNCHANGED Call!vars
    BY <2>1 DEF Call!vars
  <2>2. ASSUME NEW r \in Coming, r \in Requests, UNCHANGED call,
               executed' \in {executed, executed \cup {r}}
        PROVE  [Call!Next]_(Call!vars)
    <3>1. r \in asked /\ r \notin executed
      BY <1>2, <2>2 DEF IInv, Placed, Pooled
    <3>2. asked' = asked /\ resolved' = resolved
      BY <2>2
    <3>3. CASE executed' = executed \cup {r}
      <4>1. Call!Execute(r)
        BY <3>1, <3>2, <3>3 DEF Call!Execute
      <4> QED
        BY <2>2, <4>1 DEF Call!Next
    <3> QED
      BY <2>1, <2>2, <3>3
  <2>3. ASSUME NEW r \in Requests, NEW a \in Apis, Ask(r, a) PROVE [Call!Next]_(Call!vars)
    <3>1. UNCHANGED executed /\ call[r] \in {"idle", "failed"}
      BY <2>3 DEF Ask, histVars
    <3>2. CASE linked
      <4>1. call' = [call EXCEPT ![r] = IF a = "report" THEN "sent" ELSE "waiting"]
        BY <2>3, <3>2 DEF Ask
      <4>2. asked' = asked \cup {r} /\ resolved' = resolved /\ r \notin asked
        BY <1>2, <3>1, <4>1 DEF IInv, TypeOK
      <4>3. Call!Ask(r)
        BY <3>1, <4>2 DEF Call!Ask
      <4> QED
        BY <4>3 DEF Call!Next
    <3>3. CASE ~linked
      <4>1. call' = [call EXCEPT ![r] = "failed"]
        BY <2>3, <3>3 DEF Ask
      <4>2. asked' = asked /\ resolved' = resolved
        BY <1>2, <3>1, <4>1 DEF IInv, TypeOK
      <4> QED
        BY <3>1, <4>2 DEF Call!vars
    <3> QED
      BY <3>2, <3>3
  <2>4. ASSUME NEW n \in DOMAIN responses, Answered(n) PROVE [Call!Next]_(Call!vars)
    <3>1. PICK r \in Requests : r = Head(responses) /\ r \in Elements(responses)
      <4>1. n \in 0..Len(responses) /\ n >= 1 /\ responses \in Seq(Requests)
        BY <1>2, LenProperties DEF IInv, TypeOK
      <4>2. responses # <<>>
        BY <4>1, EmptySeq
      <4>3. Head(responses) \in Elements(responses)
        BY <4>1, <4>2, LenProperties, HeadTailProperties DEF Elements
      <4> QED
        BY <1>2, <4>3, AllCalls DEF IInv
    <3>2. /\ UNCHANGED executed
          /\ call' = IF r \in polReqs /\ call[r] = "waiting"
                     THEN [call EXCEPT ![r] = "resolved"] ELSE call
      BY <2>4, <3>1 DEF Answered
    <3>3. r \in executed
      BY <1>2, <3>1 DEF IInv, Placed
    <3>4. CASE r \in polReqs /\ call[r] = "waiting"
      <4>1. asked' = asked /\ resolved' = resolved \cup {r} /\ r \notin resolved
        BY <1>2, <3>1, <3>2, <3>4 DEF IInv, TypeOK
      <4>2. Call!Resolve(r)
        BY <3>2, <3>3, <4>1 DEF Call!Resolve
      <4> QED
        BY <3>1, <4>2 DEF Call!Next
    <3>5. CASE ~(r \in polReqs /\ call[r] = "waiting")
      BY <2>1, <3>2, <3>5
    <3> QED
      BY <3>4, <3>5
  <2>5. ASSUME NEW n \in DOMAIN requests, Deliver(n) PROVE [Call!Next]_(Call!vars)
    <3>1. n \in 0..Len(requests) /\ n >= 1 /\ requests # <<>> /\ requests \in Seq(Requests)
      BY <1>2, LenProperties, EmptySeq DEF IInv, TypeOK
    <3>2. UNCHANGED call /\ \E r \in Elements(requests) : executed' \in {executed, executed \cup {r}}
      BY <1>2, <2>5, <3>1, OnlyHead DEF Deliver, reqVars, IInv
    <3> QED
      BY <1>2, <2>2, <3>2, AllCalls DEF Coming, IInv
  <2>6. ASSUME NEW n \in DOMAIN strays, DeliverStray(n) PROVE [Call!Next]_(Call!vars)
    <3>1. n \in 0..Len(strays) /\ n >= 1 /\ strays # <<>> /\ strays \in Seq(Requests)
      BY <1>2, LenProperties, EmptySeq DEF IInv, TypeOK
    <3>2. UNCHANGED call /\ \E r \in Elements(strays) : executed' \in {executed, executed \cup {r}}
      BY <1>2, <2>6, <3>1, OnlyHead DEF DeliverStray, reqVars, IInv
    <3> QED
      BY <1>2, <2>2, <3>2, AllCalls DEF Coming, IInv
  <2>7. ASSUME CloseListener \/ OpenListener \/ ClearReports \/ ChannelUp \/ ChannelRefused
               \/ ChannelRetries \/ ChannelReset \/ Release \/ LinkLost \/ Relinked
               \/ UNCHANGED vars
        PROVE  UNCHANGED <<call, executed>>
    BY <2>7 DEF CloseListener, OpenListener, ClearReports, ChannelUp, ChannelRefused, ChannelRetries,
                ChannelReset, Release, LinkLost, Relinked, vars, reqVars, histVars
  <2> QED
    BY <1>2, <2>1, <2>3, <2>4, <2>5, <2>6, <2>7 DEF Next
<1> QED
  BY <1>1, <1>2, Inductive, PTL DEF Spec, ImplementsCall, Call!Spec
=============================================================================
