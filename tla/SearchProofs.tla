---------------------------- MODULE SearchProofs ----------------------------
(***************************************************************************)
(* What is proved of the search, for every site.                           *)
(*                                                                         *)
(* In the browser: the results shown are those of the last query, whatever *)
(* is typed and for every index.  The worker and the page come to the      *)
(* state of searching in a fixed order of messages, and from then on what  *)
(* was asked last decides: it is the last query on its way, or its answer  *)
(* is the last one on its way, or it is shown.                             *)
(*                                                                         *)
(* In the build: the scripts that the worker imports are in the site, for  *)
(* any `lang`; and the index says of each page what is on it.  The parser  *)
(* is always at a page whose headings are, one by one, those of its        *)
(* sections, and a section has the texts after its heading's end.          *)
(***************************************************************************)
EXTENDS SearchClient, SearchIndex, SequenceLemmas, FiniteSetTheorems

Texts == UNION {DOMAIN s.texts \cup s.addresses : s \in Sites}
Queries == {QueryMsg(q) : q \in Texts}
Results == {ResultsMsg(DOMAIN Search[s].answers[q].weights) : s \in Sites, q \in Texts}

\* Nothing was searched for yet.
Idle == ~listening /\ asked = NoQuery /\ toWorker = <<>>

\* What was asked last is still to be answered, or the last answer is its.
LastWord ==
  Answered(asked) =>
    \/ toWorker # <<>> /\ Last(toWorker) = QueryMsg(asked)
    \/ toWorker = <<>> /\ toMain # <<>> /\ Last(toMain) = ResultsMsg(Found(asked))
    \/ toWorker = <<>> /\ toMain = <<>> /\ shown = Found(asked)

\* The stages of a page's life.
Starting ==
  /\ worker = "new" /\ toWorker = <<InitMsg>> /\ toMain = <<>>
  /\ ~listening /\ asked = NoQuery
Waiting == worker \in {"loading", "broken"} /\ toMain = <<>> /\ Idle
Configured == worker = "ready" /\ toMain = <<ConfigMsg, AllowMsg>> /\ Idle
Allowed == worker = "ready" /\ toMain = <<AllowMsg>> /\ minSet /\ Idle
Searching ==
  /\ worker = "ready" /\ listening
  /\ toWorker \in Seq(Queries) /\ toMain \in Seq(Results)
  /\ address # NoQuery => asked # NoQuery
  /\ LastWord

IInv ==
  /\ site \in Sites
  /\ address \in site.addresses \cup {NoQuery}
  /\ Starting \/ Waiting \/ Configured \/ Allowed \/ Searching

-----------------------------------------------------------------------------
(* Queues.                                                                 *)

LEMMA TakingOne ==
  ASSUME NEW S, NEW s \in Seq(S), s # <<>>
  PROVE  /\ Head(s) \in S /\ Tail(s) \in Seq(S)
         /\ Tail(s) # <<>> => Last(Tail(s)) = Last(s)
         /\ Tail(s) = <<>> => Last(s) = Head(s)
<1>1. Len(s) \in Nat \ {0} /\ Len(Tail(s)) = Len(s) - 1
  OBVIOUS
<1>2. Head(s) \in S /\ Tail(s) \in Seq(S)
  OBVIOUS
<1>3. Tail(s) # <<>> => Last(Tail(s)) = Last(s)
  <2> SUFFICES ASSUME Tail(s) # <<>> PROVE Tail(s)[Len(Tail(s))] = s[Len(s)]
    BY DEF Last
  <2>1. Len(s) - 1 \in 1 .. Len(Tail(s))
    BY <1>1, <1>2
  <2>2. \A i \in 1 .. Len(Tail(s)) : Tail(s)[i] = s[i + 1]
    BY <1>1
  <2> QED
    BY <1>1, <2>1, <2>2
<1>4. Head(s) = s[1]
  BY <1>1
<1>5. Tail(s) = <<>> => Len(Tail(s)) = 0
  <2>1. Len(<<>>) = 0
    OBVIOUS
  <2> QED
    BY <2>1, Zenon
<1>6. Tail(s) = <<>> => Last(s) = Head(s)
  <2> SUFFICES ASSUME Tail(s) = <<>> PROVE s[Len(s)] = s[1]
    BY <1>4 DEF Last
  <2> QED
    BY <1>1, <1>5
<1> QED
  BY <1>2, <1>3, <1>6

LEMMA AddingOne ==
  ASSUME NEW S, NEW s \in Seq(S), NEW e \in S
  PROVE  Append(s, e) \in Seq(S) /\ Append(s, e) # <<>> /\ Last(Append(s, e)) = e
BY DEF Last

\* Messages are told apart by their kind.
LEMMA Messages ==
  /\ \A msg \in Queries : msg.kind = "query" /\ msg # InitMsg /\ msg = QueryMsg(msg.query)
  /\ \A msg \in Results : msg.kind = "results" /\ msg # AllowMsg /\ msg # ConfigMsg
  /\ ConfigMsg # AllowMsg /\ ConfigMsg.kind # "results" /\ AllowMsg.kind # "results"
  /\ InitMsg.kind # "query"
BY DEF Queries, Results, InitMsg, QueryMsg, ConfigMsg, AllowMsg, ResultsMsg

-----------------------------------------------------------------------------
LEMMA InitIInv == Init => IInv
BY DEF Init, IInv, Starting

\* The query is the last one on its way, if it is not too short.
LEMMA AskedLast ==
  ASSUME IInv, NEW q \in Texts, DoSearch(q), site' = site, toWorker \in Seq(Queries)
  PROVE  toWorker' \in Seq(Queries) /\ LastWord'
<1>1. QueryMsg(q) \in Queries
  BY DEF Queries
<1>2. CASE Short(q)
  BY <1>2 DEF DoSearch, LastWord, Answered, Short
<1>3. CASE ~Short(q)
  <2>1. toWorker' = Append(toWorker, QueryMsg(q)) /\ asked' = q
    BY <1>3 DEF DoSearch
  <2>2. toWorker' \in Seq(Queries) /\ toWorker' # <<>> /\ Last(toWorker)' = QueryMsg(asked)'
    BY <1>1, <2>1, AddingOne DEF QueryMsg
  <2> QED
    BY <2>2 DEF LastWord
<1> QED
  BY <1>2, <1>3

\* Every step from every stage.
LEMMA NextIInv == IInv /\ [Next]_vars => IInv'
<1> SUFFICES ASSUME IInv, [Next]_vars PROVE IInv'
  OBVIOUS
<1>1. CASE UNCHANGED vars
  BY <1>1 DEF vars, mainVars, IInv, Starting, Waiting, Configured, Allowed, Searching, Idle,
              LastWord, Answered, Short, Unanswered, Found
<1>2. CASE \E q \in DOMAIN site.texts : Type(q)
  <2> PICK q \in DOMAIN site.texts : Type(q)
    BY <1>2
  <2>1. site' = site /\ address' = address /\ worker' = worker /\ toMain' = toMain
        /\ listening' = listening /\ minSet' = minSet
    BY DEF Type
  <2>2. q \in Texts /\ q # NoQuery
    BY TextsAssumption DEF IInv, Texts
  <2>3. CASE ~listening
    BY <2>1, <2>3 DEF Type, IInv, Starting, Waiting, Configured, Allowed, Searching, Idle
  <2>4. CASE listening
    <3>1. Searching /\ DoSearch(q)
      BY <2>4 DEF Type, IInv, Starting, Waiting, Configured, Allowed, Idle
    <3>2. toWorker' \in Seq(Queries) /\ LastWord' /\ asked' = q
      BY <2>1, <2>2, <3>1, AskedLast DEF Searching, DoSearch
    <3> QED
      BY <2>1, <2>2, <2>4, <3>1, <3>2 DEF IInv, Searching
  <2> QED
    BY <2>3, <2>4
<1>3. CASE \E q \in DOMAIN site.texts : Paste(q)
  <2>1. UNCHANGED <<site, address, listening, minSet, asked, shown, toWorker, toMain, worker>>
    BY <1>3 DEF Paste
  <2>2. LastWord' = LastWord
    BY <2>1 DEF LastWord, Answered, Short, Unanswered, Found
  <2> QED
    BY <2>1, <2>2 DEF IInv, Starting, Waiting, Configured, Allowed, Searching, Idle
<1>4. CASE OnWorkerMessage
  <2>1. site' = site /\ address' = address /\ worker' = worker /\ toMain # <<>> /\ toMain' = Tail(toMain)
    BY <1>4 DEF OnWorkerMessage
  <2>2. CASE Configured
    <3>1. Head(toMain) = ConfigMsg /\ Tail(toMain) = <<AllowMsg>>
      BY <2>2 DEF Configured
    <3>2. minSet' = TRUE /\ UNCHANGED <<input, listening, asked, shown, toWorker>>
      BY <1>4, <3>1, Messages DEF OnWorkerMessage
    <3> QED
      BY <2>1, <2>2, <3>1, <3>2 DEF IInv, Configured, Allowed, Idle
  <2>3. CASE Allowed
    <3>1. Head(toMain) = AllowMsg /\ Tail(toMain) = <<>>
      BY <2>3 DEF Allowed
    <3>2. InitSearch
      BY <1>4, <3>1, Messages DEF OnWorkerMessage
    <3>3. toWorker \in Seq(Queries) /\ toMain' \in Seq(Results) /\ listening' /\ worker' = "ready"
      BY <2>1, <2>3, <3>1, <3>2 DEF Allowed, Idle, InitSearch
    <3>4. CASE address = NoQuery
      <4>1. asked' = NoQuery /\ toWorker' = toWorker
        BY <2>3, <3>2, <3>4 DEF InitSearch, Allowed, Idle
      <4> QED
        BY <2>1, <3>3, <3>4, <4>1 DEF IInv, Searching, LastWord, Answered
    <3>5. CASE address # NoQuery
      <4>1. DoSearch(address) /\ address \in Texts
        BY <2>3, <3>2, <3>5 DEF InitSearch, Allowed, IInv, Texts
      <4>2. toWorker' \in Seq(Queries) /\ LastWord' /\ asked' = address
        BY <2>1, <3>3, <4>1, AskedLast DEF DoSearch
      <4> QED
        BY <2>1, <3>3, <3>5, <4>2 DEF IInv, Searching
    <3> QED
      BY <3>4, <3>5
  <2>4. CASE Searching
    <3>1. /\ Head(toMain) \in Results /\ Tail(toMain) \in Seq(Results)
          /\ Tail(toMain) # <<>> => Last(Tail(toMain)) = Last(toMain)
          /\ Tail(toMain) = <<>> => Last(toMain) = Head(toMain)
      BY <2>1, <2>4, TakingOne DEF Searching
    <3>2. shown' = Head(toMain).docs /\ UNCHANGED <<input, listening, minSet, asked, toWorker>>
      BY <1>4, <3>1, Messages DEF OnWorkerMessage
    <3>3. Answered(asked)' = Answered(asked) /\ Found(asked)' = Found(asked)
      BY <2>1, <3>2 DEF Answered, Short, Unanswered, Found
    <3>4. LastWord'
      BY <2>1, <2>4, <3>1, <3>2, <3>3 DEF Searching, LastWord, ResultsMsg, Last
    <3> QED
      BY <2>1, <2>4, <3>1, <3>2, <3>4 DEF IInv, Searching
  <2> QED
    BY <2>1, <2>2, <2>3, <2>4 DEF IInv, Starting, Waiting
<1>5. CASE StartLoading
  <2>1. ~Searching
    BY <1>5, Messages, TakingOne DEF StartLoading, Searching
  <2> QED
    BY <1>5, <2>1 DEF StartLoading, mainVars, IInv, Starting, Waiting, Configured, Allowed, Idle
<1>6. CASE Loaded
  BY <1>6 DEF Loaded, mainVars, IInv, Starting, Waiting, Configured, Allowed, Searching, Idle
<1>7. CASE LoadFails
  BY <1>7 DEF LoadFails, mainVars, IInv, Starting, Waiting, Configured, Allowed, Searching, Idle
<1>8. CASE Answer
  <2>1. /\ UNCHANGED mainVars /\ worker' = worker /\ toWorker' = Tail(toWorker)
        /\ toWorker # <<>> /\ Head(toWorker).kind = "query"
    BY <1>8 DEF Answer
  <2>2. Searching
    BY <1>8, <2>1, Messages DEF Answer, IInv, Starting, Waiting, Configured, Allowed, Idle
  <2> DEFINE text == Head(toWorker).query
  <2>3. /\ Head(toWorker) = QueryMsg(text) /\ Tail(toWorker) \in Seq(Queries)
        /\ Tail(toWorker) # <<>> => Last(Tail(toWorker)) = Last(toWorker)
        /\ Tail(toWorker) = <<>> => Last(toWorker) = Head(toWorker)
        /\ text \in Texts
    BY <2>1, <2>2, TakingOne, Messages DEF Searching, Queries, QueryMsg
  <2>4. ResultsMsg(Found(text)) \in Results
    BY <2>3 DEF IInv, Results, Found
  <2>5. toMain' = IF Unanswered(text) THEN toMain ELSE Append(toMain, ResultsMsg(Found(text)))
    BY <1>8 DEF Answer
  <2>6. toMain' \in Seq(Results)
    BY <2>2, <2>4, <2>5 DEF Searching
  <2>7. Answered(asked)' = Answered(asked) /\ Found(asked)' = Found(asked)
    BY <2>1 DEF mainVars, Answered, Short, Unanswered, Found
  <2>8. LastWord'
    <3> SUFFICES ASSUME Answered(asked) PROVE LastWord'
      BY <2>7 DEF LastWord
    <3>1. Last(toWorker) = QueryMsg(asked) /\ ~Unanswered(asked) /\ asked' = asked
      BY <2>1, <2>2 DEF Searching, LastWord, Answered, mainVars
    <3>2. CASE Tail(toWorker) # <<>>
      BY <2>1, <2>3, <3>1, <3>2 DEF LastWord, Last, QueryMsg
    <3>3. CASE Tail(toWorker) = <<>>
      <4>1. text = asked
        BY <2>3, <3>1, <3>3 DEF QueryMsg
      <4>2. toMain' = Append(toMain, ResultsMsg(Found(asked)))
        BY <2>5, <3>1, <4>1
      <4>3. toMain' # <<>> /\ Last(toMain)' = ResultsMsg(Found(asked))
        BY <2>2, <2>4, <4>1, <4>2, AddingOne DEF Searching, Last
      <4> QED
        BY <2>1, <2>7, <3>3, <4>3 DEF LastWord, Last, ResultsMsg
    <3> QED
      BY <3>2, <3>3
  <2> QED
    BY <2>1, <2>2, <2>3, <2>6, <2>8 DEF IInv, Searching, mainVars
<1> QED
  BY <1>1, <1>2, <1>3, <1>4, <1>5, <1>6, <1>7, <1>8 DEF Next

\* With no message on its way, what was asked last is shown.
LEMMA IInvShown == IInv => LatestQueryIsShown
<1> SUFFICES ASSUME IInv, Settled, worker = "ready"
             PROVE  /\ Answered(asked) => shown = Found(asked)
                    /\ address # NoQuery => asked # NoQuery
  BY DEF LatestQueryIsShown
<1>1. Searching
  BY DEF IInv, Settled, Starting, Waiting, Configured, Allowed
<1> QED
  BY <1>1 DEF Searching, LastWord, Settled

(* On every site, for every index and whatever is typed while the index is *)
(* loaded and earlier answers are on their way: once all messages are      *)
(* handled, the results shown are those of the last query searched for.    *)
THEOREM LatestQuery == Spec => []LatestQueryIsShown
<1>1. Init => IInv
  BY InitIInv
<1>2. IInv /\ [Next]_vars => IInv'
  BY NextIInv
<1>3. IInv => LatestQueryIsShown
  BY IInvShown
<1> QED
  BY <1>1, <1>2, <1>3, PTL DEF Spec

-----------------------------------------------------------------------------
(* Languages.                                                              *)

\* The codes that the worker may get, and all that are in the list on the way.
Good == {En} \cup {<<part>> : part \in Supported}
AllCodes == Codes \cup Good

LEMMA DetectedIs ==
  ASSUME NEW code \in Codes
  PROVE  Detected(code) = <<>> \/ Detected(code) \in Good
<1> DEFINE n == Len(code)
           parts == [i \in DOMAIN code |->
                       IF code[i] \in DOMAIN Fallback THEN Fallback[code[i]] ELSE code[i]]
           I == {i \in 1..Len(parts) : parts[i] \in Supported}
<1>1. n \in Nat /\ DOMAIN code = 1..n
  BY LenProperties DEF Codes
<1>2. DOMAIN parts = 1..n
  BY <1>1
<1>3. Len(parts) = n
  <2> DEFINE X == {parts[i] : i \in 1..n}
  <2>1. parts \in [1..n -> X]
    BY <1>1
  <2> HIDE DEF X, parts
  <2>2. parts \in Seq(X)
    BY <1>1, <2>1, SeqDef
  <2> QED
    BY <1>1, <1>2, <2>2, LenProperties
<1> DEFINE first == SelectInSeq(parts, LAMBDA part : part \in Supported)
<1>4. first = (IF I # {} THEN Min(I) ELSE 0) /\ Detected(code) = IF first = 0 THEN <<>> ELSE <<parts[first]>>
  <2>1. first = IF I # {} THEN Min(I) ELSE 0
    BY Zenon DEF SelectInSeq
  <2>2. Detected(code) = IF first = 0 THEN <<>> ELSE <<parts[first]>>
    BY Zenon DEF Detected
  <2> QED
    BY <2>1, <2>2
<1> HIDE DEF parts, first
<1>5. I # {} => Min(I) \in I
  <2>1. I \subseteq Nat
    BY <1>1, <1>3
  <2> HIDE DEF I
  <2> QED
    BY <2>1, MinIn
<1>6. I # {} => Detected(code) \in Good
  <2> SUFFICES ASSUME I # {} PROVE Detected(code) \in Good
    OBVIOUS
  <2>1. Min(I) \in 1..n /\ parts[Min(I)] \in Supported
    BY <1>3, <1>5
  <2>2. Min(I) # 0
    BY <1>1, <2>1
  <2> HIDE DEF I
  <2>3. Detected(code) = <<parts[Min(I)]>>
    BY <1>4, <2>2
  <2> QED
    BY <2>1, <2>3 DEF Good
<1> QED
  BY <1>4, <1>6

(* What the loop still has to settle after the first k codes: each code in *)
(* the list that is not good is one of those behind, and each of them for  *)
(* one place only.                                                         *)
Matched(h, r, value, k) ==
  /\ \A i \in 1..Len(r) : r[i] \notin Good => h[i] \in (k + 1)..Len(value) /\ value[h[i]] = r[i]
  /\ \A i, j \in 1..Len(r) :
       r[i] \notin Good /\ r[j] \notin Good /\ h[i] = h[j] => i = j

Owed(r, value, k) ==
  /\ r \in Seq(AllCodes)
  /\ value # <<>> => r # <<>>
  /\ \E h : Matched(h, r, value, k)

\* A code that was good, or is not in the list, is not missed.
LEMMA OwedLess ==
  ASSUME NEW value \in Seq(Codes), NEW k \in Nat, k + 1 <= Len(value),
         NEW r, Owed(r, value, k),
         value[k + 1] \in Good \/ \A i \in 1..Len(r) : r[i] # value[k + 1]
  PROVE  Owed(r, value, k + 1)
<1> PICK h : Matched(h, r, value, k)
  BY DEF Owed
<1>1. Len(value) \in Nat
  BY LenProperties
<1>2. ASSUME NEW i \in 1..Len(r), r[i] \notin Good
      PROVE  h[i] \in ((k + 1) + 1)..Len(value) /\ value[h[i]] = r[i]
  <2>1. h[i] \in (k + 1)..Len(value) /\ value[h[i]] = r[i]
    BY <1>2 DEF Matched
  <2>2. h[i] # k + 1
    BY <1>2, <2>1
  <2> QED
    BY <1>1, <2>1, <2>2
<1>3. Matched(h, r, value, k + 1)
  BY <1>2 DEF Matched
<1> QED
  BY <1>3 DEF Owed

\* A code taken out is missed once less.
LEMMA OwedWithout ==
  ASSUME NEW value \in Seq(Codes), NEW k \in Nat, k + 1 <= Len(value),
         NEW r, Owed(r, value, k), NEW j \in 1..Len(r), r[j] = value[k + 1],
         NEW t, Without(t, r, j, AllCodes)
  PROVE  t \in Seq(AllCodes) /\ \E h : Matched(h, t, value, k + 1)
<1> PICK h : Matched(h, r, value, k)
  BY DEF Owed
<1>1. Len(value) \in Nat /\ Len(r) \in Nat /\ Len(t) = Len(r) - 1 /\ j \in 1..Len(r)
  BY LenProperties DEF Owed, Without
<1> DEFINE old(i) == IF i < j THEN i ELSE i + 1
           code == value[k + 1]
           g == [i \in 1..Len(t) |-> IF h[old(i)] = k + 1 THEN h[j] ELSE h[old(i)]]
<1>2. ASSUME NEW i \in 1..Len(t)
      PROVE  old(i) \in 1..Len(r) /\ old(i) # j /\ t[i] = r[old(i)]
  BY <1>1, <1>2 DEF Without
<1>3. \A a, b \in 1..Len(t) : old(a) = old(b) => a = b
  BY <1>1
<1> HIDE DEF old
<1>4. ASSUME NEW i \in 1..Len(t), t[i] \notin Good
      PROVE  /\ h[old(i)] \in (k + 1)..Len(value) /\ value[h[old(i)]] = t[i]
             /\ h[old(i)] # h[j] \/ r[j] \in Good
             /\ h[old(i)] = k + 1 => r[j] = t[i]
  BY <1>1, <1>2, <1>4 DEF Matched
<1>5. ASSUME NEW i \in 1..Len(t), t[i] \notin Good
      PROVE  g[i] \in ((k + 1) + 1)..Len(value) /\ value[g[i]] = t[i]
  <2>1. CASE h[old(i)] = k + 1
    <3>1. g[i] = h[j] /\ r[j] = t[i] /\ r[j] \notin Good
      BY <1>4, <1>5, <2>1
    <3>2. h[j] \in (k + 1)..Len(value) /\ value[h[j]] = r[j]
      BY <3>1 DEF Matched
    <3>3. h[j] # k + 1
      BY <1>4, <1>5, <2>1, <3>1
    <3> QED
      BY <1>1, <3>1, <3>2, <3>3
  <2>2. CASE h[old(i)] # k + 1
    BY <1>1, <1>4, <1>5, <2>2
  <2> QED
    BY <2>1, <2>2
<1>6. ASSUME NEW a \in 1..Len(t), NEW b \in 1..Len(t),
             t[a] \notin Good, t[b] \notin Good, g[a] = g[b]
      PROVE  a = b
  <2>1. /\ old(a) \in 1..Len(r) /\ r[old(a)] \notin Good
        /\ old(b) \in 1..Len(r) /\ r[old(b)] \notin Good
    BY <1>2, <1>6
  <2>2. h[old(a)] = h[old(b)] => a = b
    BY <1>3, <2>1 DEF Matched
  <2>3. h[old(a)] = k + 1 => r[j] \notin Good
    BY <1>4, <1>6
  <2>4. h[old(b)] = k + 1 => r[j] \notin Good
    BY <1>4, <1>6
  <2>5. /\ g[a] = IF h[old(a)] = k + 1 THEN h[j] ELSE h[old(a)]
        /\ g[b] = IF h[old(b)] = k + 1 THEN h[j] ELSE h[old(b)]
    OBVIOUS
  <2>6. /\ h[old(a)] # h[j] \/ r[j] \in Good
        /\ h[old(b)] # h[j] \/ r[j] \in Good
    BY <1>4, <1>6
  <2> HIDE DEF g
  <2> QED
    BY <1>6, <2>2, <2>3, <2>4, <2>5, <2>6
<1> HIDE DEF g
<1>7. Matched(g, t, value, k + 1)
  BY <1>5, <1>6 DEF Matched
<1> QED
  BY <1>7 DEF Without

\* A good code put at the end is not missed.
LEMMA OwedAppend ==
  ASSUME NEW t \in Seq(AllCodes), NEW value, NEW k, NEW h, Matched(h, t, value, k),
         NEW good \in Good
  PROVE  Owed(Append(t, good), value, k)
<1> DEFINE u == Append(t, good)
<1>1. good \in AllCodes /\ Len(t) \in Nat
  BY LenProperties DEF AllCodes
<1>2. /\ u \in Seq(AllCodes) /\ Len(u) = Len(t) + 1 /\ u[Len(t) + 1] = good /\ u # <<>>
      /\ \A i \in 1..Len(t) : u[i] = t[i]
  BY <1>1, AppendProperties
<1> HIDE DEF u
<1>3. \A i \in 1..Len(u) : u[i] \notin Good => i \in 1..Len(t)
  BY <1>1, <1>2
<1>4. Matched(h, u, value, k)
  BY <1>2, <1>3 DEF Matched
<1> QED
  BY <1>2, <1>4 DEF Owed, u

\* One round of the loop.
LEMMA SettleOwes ==
  ASSUME NEW value \in Seq(Codes), NEW k \in Nat, k + 1 <= Len(value),
         NEW r, Owed(r, value, k)
  PROVE  Owed(Settle(r, value[k + 1]), value, k + 1)
<1> DEFINE code == value[k + 1]
           found == Detected(code)
           rest == RemoveFirst(r, code)
<1>1. code \in Codes /\ value # <<>>
  <2>1. Len(value) \in Nat /\ k + 1 \in 1..Len(value)
    BY LenProperties
  <2> QED
    BY <2>1, ElementOfSeq, EmptySeq
<1>2. found = <<>> \/ found \in Good
  BY <1>1, DetectedIs
<1>3. r \in Seq(AllCodes) /\ r # <<>>
  BY <1>1 DEF Owed
<1>4. Settle(r, code) = IF code = En \/ found = code THEN r
                        ELSE IF found # <<>> THEN Append(rest, found)
                        ELSE IF Contains(rest, En) THEN rest ELSE Append(rest, En)
  BY DEF Settle
<1> HIDE DEF found, rest
<1>5. CASE code = En \/ found = code
  <2>1. code \in Good
    BY <1>1, <1>2, <1>5 DEF Good, Codes
  <2>2. Owed(r, value, k + 1)
    BY <2>1, OwedLess
  <2> QED
    BY <1>4, <1>5, <2>2
<1>6. CASE ~(code = En \/ found = code)
  <2>1. rest \in Seq(AllCodes) /\ \E h : Matched(h, rest, value, k + 1)
    <3>1. CASE (\A i \in 1..Len(r) : r[i] # code) /\ rest = r
      <4>1. Owed(r, value, k + 1)
        BY <3>1, OwedLess
      <4> QED
        BY <3>1, <4>1 DEF Owed
    <3>2. CASE \E j \in 1..Len(r) : r[j] = code /\ Without(rest, r, j, AllCodes)
      <4> PICK j \in 1..Len(r) : r[j] = code /\ Without(rest, r, j, AllCodes)
        BY <3>2
      <4> QED
        BY OwedWithout
    <3> QED
      BY <1>3, <3>1, <3>2, RemoveFirstIs DEF rest
  <2> PICK h : Matched(h, rest, value, k + 1)
    BY <2>1
  <2>2. En \in Good
    BY DEF Good
  <2>3. \A good \in Good : Owed(Append(rest, good), value, k + 1)
    BY <2>1, OwedAppend
  <2>4. Contains(rest, En) => Owed(rest, value, k + 1)
    <3>1. Contains(rest, En) => rest # <<>>
      BY <2>1 DEF Contains
    <3> QED
      BY <2>1, <3>1 DEF Owed
  <2> QED
    BY <1>2, <1>4, <1>6, <2>2, <2>3, <2>4
<1> QED
  BY <1>5, <1>6

\* The loop as the function that FoldLeft chooses: the list after the codes
\* at the places in s.
LangFold(g, value, S) ==
  g = [s \in SUBSET S |-> IF s = {} THEN value ELSE Settle(g[s \ {Max(s)}], value[Max(s)])]

LEMMA LangChosen ==
  ASSUME NEW value, \E g : LangFold(g, value, DOMAIN value)
  PROVE  \E g : LangFold(g, value, DOMAIN value) /\ LangOption(value) = g[DOMAIN value]
<1>1. LangOption(value) =
        (CHOOSE g : g = [s \in SUBSET DOMAIN value |->
           IF s = {} THEN value ELSE Settle(g[s \ {Max(s)}], value[Max(s)])])[DOMAIN value]
  BY DEF LangOption, FoldLeft, MapThenFoldSet
<1> QED
  BY <1>1 DEF LangFold

LEMMA SettleIn ==
  ASSUME NEW r \in Seq(AllCodes), NEW code \in Codes
  PROVE  Settle(r, code) \in Seq(AllCodes)
<1> DEFINE found == Detected(code)
           rest == RemoveFirst(r, code)
<1>1. found = <<>> \/ found \in AllCodes
  BY DetectedIs DEF AllCodes
<1>2. rest \in Seq(AllCodes)
  BY RemoveFirstIs DEF Without
<1>3. En \in AllCodes
  BY DEF AllCodes, Good
<1>4. Settle(r, code) = IF code = En \/ found = code THEN r
                        ELSE IF found # <<>> THEN Append(rest, found)
                        ELSE IF Contains(rest, En) THEN rest ELSE Append(rest, En)
  BY DEF Settle
<1> HIDE DEF found, rest
<1> QED
  BY <1>1, <1>2, <1>3, <1>4, AppendProperties

LEMMA LangBySteps ==
  ASSUME NEW value \in Seq(Codes)
  PROVE  \E r : /\ r[0] = value /\ r[Len(value)] = LangOption(value)
                /\ \A k \in 1..Len(value) : r[k] = Settle(r[k - 1], value[k])
<1> DEFINE n == Len(value)
           T == Seq(AllCodes)
           step == [p \in Seq(AllCodes) \X Codes |-> Settle(p[1], p[2])]
<1>1. n \in Nat /\ value \in [1..n -> Codes] /\ DOMAIN value = 1..n
  BY LenProperties
<1>2. step \in [T \X Codes -> T] /\ value \in T
  <2>1. value \in Seq(AllCodes)
    BY <1>1, ElementOfSeq DEF AllCodes
  <2>2. \A a \in Seq(AllCodes), b \in Codes : Settle(a, b) \in Seq(AllCodes)
    BY SettleIn
  <2>3. step \in [T \X Codes -> T]
    BY <2>2
  <2> QED
    BY <2>1, <2>3
<1>3. \A a \in T, b \in Codes : step[<<a, b>>] = Settle(a, b)
  OBVIOUS
<1> HIDE DEF n, step, T
<1>4. PICK g : Folds(g, T, value, step, value, n)
  BY <1>1, <1>2, FoldExists
<1>5. \E f : LangFold(f, value, 1..n)
  <2>1. \A s \in SUBSET (1..n) : s # {} => Max(s) \in 1..n /\ s \ {Max(s)} \in SUBSET (1..n)
    BY <1>1, MaxIn
  <2>2. \A s \in SUBSET (1..n) :
          g[s] = IF s = {} THEN value ELSE Settle(g[s \ {Max(s)}], value[Max(s)])
    BY <1>1, <1>3, <1>4, <2>1 DEF Folds
  <2>3. LangFold(g, value, 1..n)
    BY <1>4, <2>2 DEF LangFold, Folds
  <2> QED
    BY <2>3
<1>6. PICK f : LangFold(f, value, 1..n) /\ LangOption(value) = f[1..n]
  BY <1>1, <1>5, LangChosen
<1> DEFINE r == [k \in 0..n |-> f[1..k]]
<1>7. f[{}] = value /\ \A k \in 1..n : f[1..k] = Settle(f[1..(k - 1)], value[k])
  <2>1. \A s \in SUBSET (1..n) :
          f[s] = IF s = {} THEN value ELSE Settle(f[s \ {Max(s)}], value[Max(s)])
    BY <1>6 DEF LangFold
  <2>2. f[{}] = value
    BY <2>1
  <2>3. ASSUME NEW k \in 1..n PROVE f[1..k] = Settle(f[1..(k - 1)], value[k])
    <3>1. 1..k \in SUBSET (1..n) /\ 1..k # {} /\ Max(1..k) = k /\ (1..k) \ {k} = 1..(k - 1)
      BY <1>1, FirstPositions
    <3> QED
      BY <2>1, <3>1
  <2> QED
    BY <2>2, <2>3
<1>8. r[0] = value /\ r[n] = f[1..n]
  BY <1>1, <1>7, FirstPositions
<1>9. \A k \in 1..n : r[k] = Settle(r[k - 1], value[k])
  BY <1>1, <1>7
<1> HIDE DEF r
<1> QED
  BY <1>6, <1>8, <1>9 DEF n

(* For a list of codes of any length: what comes out of the validation of  *)
(* `lang` has codes with a script only, and some if there were any.        *)
LEMMA OnlySupported ==
  ASSUME NEW value \in Seq(Codes)
  PROVE  /\ LangOption(value) \in Seq(AllCodes)
         /\ \A i \in 1..Len(LangOption(value)) : LangOption(value)[i] \in Good
         /\ value # <<>> => LangOption(value) # <<>>
<1> DEFINE n == Len(value)
<1>1. n \in Nat /\ value \in Seq(AllCodes) /\ \A i \in 1..n : value[i] \in Codes
  BY LenProperties, ElementOfSeq DEF AllCodes
<1>2. PICK r : /\ r[0] = value /\ r[n] = LangOption(value)
               /\ \A k \in 1..n : r[k] = Settle(r[k - 1], value[k])
  BY LangBySteps DEF n
<1> HIDE DEF n
<1> DEFINE S == {k \in Nat : Owed(r[k], value, k)}
<1>3. 0 \in S
  <2> DEFINE h == [i \in 1..n |-> i]
  <2>1. Matched(h, value, value, 0)
    BY <1>1 DEF Matched, n
  <2> HIDE DEF h
  <2> QED
    BY <1>1, <1>2, <2>1 DEF Owed
<1>4. ASSUME NEW k \in Nat, k < n, k \in S PROVE k + 1 \in S
  <2>1. k + 1 \in 1..n /\ (k + 1) - 1 = k /\ k + 1 <= n
    BY <1>1, <1>4
  <2>2. r[k + 1] = Settle(r[k], value[k + 1])
    BY <1>2, <2>1
  <2>3. Owed(r[k], value, k) /\ k + 1 <= Len(value)
    BY <1>4, <2>1 DEF n
  <2> QED
    BY <2>2, <2>3, SettleOwes
<1>5. n \in S
  <2> HIDE DEF S
  <2>1. \A k \in 0..n : k \in S
    BY <1>1, <1>3, <1>4, StepsUpTo
  <2> QED
    BY <1>1, <2>1
<1>6. Owed(LangOption(value), value, n)
  BY <1>2, <1>5
<1>7. PICK h : Matched(h, LangOption(value), value, n)
  BY <1>6 DEF Owed
<1>8. (n + 1)..Len(value) = {}
  BY <1>1 DEF n
<1> QED
  BY <1>6, <1>7, <1>8 DEF Matched, Owed

-----------------------------------------------------------------------------
(* Scripts.                                                                *)

ScriptsInv ==
  /\ userLang \in LangValues \cup {NoLang}
  /\ phase # "config" => lang = LangOption(LangSet) /\ (ownClient \/ <<"lunr">> \in scripts)
  /\ phase = "built" => ownClient \/ Copied \subseteq scripts

LEMMA InitScripts == IndexInit => ScriptsInv
BY DEF IndexInit, ScriptsInv

LEMMA NextScripts == ScriptsInv /\ [IndexNext]_indexVars => ScriptsInv'
<1> SUFFICES ASSUME ScriptsInv, [IndexNext]_indexVars PROVE ScriptsInv'
  OBVIOUS
<1>1. CASE /\ UNCHANGED <<configVars, scripts>>
           /\ phase' = phase \/ (phase = "parse" /\ phase' \in {"parse", "index"})
  BY <1>1 DEF ScriptsInv, configVars, LangSet, Copied
<1>2. CASE OnConfig
  BY <1>2 DEF OnConfig, ScriptsInv, LangSet
<1>3. CASE OnPostBuild
  BY <1>3 DEF OnPostBuild, ScriptsInv, configVars, LangSet, Copied
<1>4. ASSUME NEW id, HandleStartHeading(id) PROVE ScriptsInv'
  BY <1>1, <1>4 DEF HandleStartHeading, Fed
<1>5. CASE HandleEndHeading
  BY <1>1, <1>5 DEF HandleEndHeading, Fed
<1>6. CASE HandleOtherTag
  BY <1>1, <1>6 DEF HandleOtherTag, Fed
<1>7. CASE HandleData
  BY <1>1, <1>7 DEF HandleData, Fed
<1>8. CASE AddEntry
  BY <1>1, <1>8 DEF AddEntry
<1>9. CASE UNCHANGED indexVars
  <2>1. UNCHANGED <<indexing, userLang, ownClient, lang, scripts, phase>>
    BY <1>9 DEF indexVars, configVars
  <2> QED
    BY <2>1 DEF ScriptsInv, LangSet, Copied
<1> QED
  BY <1>2, <1>3, <1>4, <1>5, <1>6, <1>7, <1>8, <1>9 DEF IndexNext

\* What the worker imports is copied, but for lunr.js, which is there anyway.
LEMMA ImportedCopied ==
  ASSUME NEW S, lang \in Seq(S)
  PROVE  Imported \subseteq {<<"lunr">>} \cup Copied
<1>1. DOMAIN lang = 1..Len(lang) /\ Len(lang) \in Nat
  BY LenProperties
<1>2. CASE lang = <<>>
  <2>1. Len(<<En>>) = 1 /\ <<En>>[1] = En
    OBVIOUS
  <2> QED
    BY <1>2, <2>1 DEF Imported
<1>3. CASE lang # <<>> /\ Len(lang) > 1
  BY <1>3 DEF Imported, Copied
<1>4. CASE lang # <<>> /\ ~(Len(lang) > 1)
  <2>1. Len(lang) = 1
    BY <1>1, <1>4, EmptySeq
  <2>2. lang[1] # En => ~Contains(lang, En)
    BY <2>1 DEF Contains
  <2>3. lang[1] = En => Imported = {<<"lunr">>}
    BY <1>4 DEF Imported
  <2>4. lang[1] # En => Imported \subseteq {<<"lunr">>} \cup Copied
    BY <1>4, <2>2 DEF Imported, Copied
  <2> QED
    BY <2>3, <2>4
<1> QED
  BY <1>2, <1>3, <1>4

LEMMA ScriptsThere == ScriptsInv => ScriptsAreInSite
<1> SUFFICES ASSUME ScriptsInv, phase = "built", ~ownClient
             PROVE  /\ Imported \subseteq scripts
                    /\ ToSet(lang) \subseteq {En} \cup {<<part>> : part \in Supported}
                    /\ userLang # <<>> => lang # <<>>
  BY DEF ScriptsAreInSite
<1>1. LangSet \in Seq(Codes) /\ (userLang # <<>> => LangSet # <<>>)
  <2>1. <<ThemeLang>> \in Seq(Codes) /\ <<ThemeLang>> # <<>>
    BY CodesAssumption
  <2> QED
    BY <2>1, CodesAssumption DEF ScriptsInv, LangSet
<1>2. /\ lang \in Seq(AllCodes) /\ \A i \in 1..Len(lang) : lang[i] \in Good
      /\ LangSet # <<>> => lang # <<>>
  BY <1>1, OnlySupported DEF ScriptsInv
<1>3. Imported \subseteq scripts
  BY <1>2, ImportedCopied DEF ScriptsInv
<1>4. ToSet(lang) \subseteq Good
  BY <1>2, LenProperties DEF ToSet
<1> QED
  BY <1>1, <1>2, <1>3, <1>4 DEF Good

(* For any setting of the languages, any scripts that come with the plugin *)
(* and any theme: what the worker will import is in the site of a build,   *)
(* and the languages that it gets have scripts.                            *)
THEOREM ScriptsInSite == IndexSpec => []ScriptsAreInSite
BY InitScripts, NextScripts, ScriptsThere, PTL DEF IndexSpec

-----------------------------------------------------------------------------
(* Entries, as sets of what they say.                                      *)

Ids == Listed \cup Unlisted \cup {NoId}
Located == [page : ToSet(Pages), id : Ids, text : Seq(Nat)]

(* A list of entries that says S: once, and each with its text in order.   *)
Says(list, S) ==
  /\ list \in Seq(Located)
  /\ \A i, j \in 1..Len(list) : list[i].page = list[j].page /\ list[i].id = list[j].id => i = j
  /\ \A i \in 1..Len(list) : Ascending(list[i].text)
  /\ {Plain(list[i]) : i \in 1..Len(list)} = S

LEMMA PlainIs ==
  ASSUME NEW e \in Located
  PROVE  Plain(e) = [page |-> e.page, id |-> e.id, text |-> ToSet(e.text)]
BY DEF Plain, Located

LEMMA NothingSaid == Says(<<>>, {})
BY DEF Says

LEMMA OneSaid ==
  ASSUME NEW e \in Located, Ascending(e.text)
  PROVE  Says(<<e>>, {Plain(e)})
<1>1. <<e>> \in Seq(Located) /\ Len(<<e>>) = 1 /\ <<e>>[1] = e /\ 1..1 = {1}
  OBVIOUS
<1> QED
  BY <1>1 DEF Says

LEMMA BothSaid ==
  ASSUME NEW a, NEW A, Says(a, A), NEW b, NEW B, Says(b, B),
         \A x \in A, y \in B : x.page # y.page \/ x.id # y.id
  PROVE  Says(a \o b, A \cup B)
<1> DEFINE c == a \o b
           m == Len(a)
           n == Len(b)
<1>1. a \in Seq(Located) /\ b \in Seq(Located) /\ m \in Nat /\ n \in Nat
  BY LenProperties DEF Says
<1>2. /\ c \in Seq(Located) /\ Len(c) = m + n
      /\ \A i \in 1..(m + n) : c[i] = IF i <= m THEN a[i] ELSE b[i - m]
  BY <1>1, ConcatProperties
<1>3. \A i \in 1..m : a[i] \in Located /\ Plain(a[i]) \in A
  BY <1>1, ElementOfSeq DEF Says
<1>4. \A i \in 1..n : b[i] \in Located /\ Plain(b[i]) \in B
  BY <1>1, ElementOfSeq DEF Says
<1> HIDE DEF c
<1>5. ASSUME NEW i \in 1..(m + n)
      PROVE  \/ i \in 1..m /\ c[i] = a[i]
             \/ i - m \in 1..n /\ c[i] = b[i - m]
  BY <1>1, <1>2
<1>6. ASSUME NEW i \in 1..m, NEW j \in 1..n
      PROVE  a[i].page # b[j].page \/ a[i].id # b[j].id
  <2>1. Plain(a[i]).page = a[i].page /\ Plain(a[i]).id = a[i].id
    BY <1>3, PlainIs
  <2>2. Plain(b[j]).page = b[j].page /\ Plain(b[j]).id = b[j].id
    BY <1>4, PlainIs
  <2> QED
    BY <1>3, <1>4, <2>1, <2>2
<1>7. ASSUME NEW i \in 1..(m + n), NEW j \in 1..(m + n), c[i].page = c[j].page, c[i].id = c[j].id
      PROVE  i = j
  <2>1. CASE i \in 1..m /\ c[i] = a[i] /\ j \in 1..m /\ c[j] = a[j]
    BY <1>7, <2>1 DEF Says
  <2>2. CASE i - m \in 1..n /\ c[i] = b[i - m] /\ j - m \in 1..n /\ c[j] = b[j - m]
    <3>1. i - m = j - m
      BY <1>7, <2>2 DEF Says
    <3> QED
      BY <1>1, <3>1
  <2> QED
    BY <1>5, <1>6, <1>7, <2>1, <2>2
<1>8. \A i \in 1..(m + n) : Ascending(c[i].text)
  BY <1>5 DEF Says
<1>9. {Plain(c[i]) : i \in 1..(m + n)} = A \cup B
  <2>1. \A i \in 1..(m + n) : Plain(c[i]) \in A \cup B
    BY <1>3, <1>4, <1>5
  <2>2. ASSUME NEW x \in A PROVE \E i \in 1..(m + n) : x = Plain(c[i])
    <3> PICK i \in 1..m : x = Plain(a[i])
      BY DEF Says
    <3>1. i \in 1..(m + n) /\ c[i] = a[i]
      BY <1>1, <1>2
    <3> QED
      BY <3>1
  <2>3. ASSUME NEW x \in B PROVE \E i \in 1..(m + n) : x = Plain(c[i])
    <3> PICK i \in 1..n : x = Plain(b[i])
      BY DEF Says
    <3>1. m + i \in 1..(m + n) /\ ~(m + i <= m) /\ (m + i) - m = i
      BY <1>1
    <3>2. c[m + i] = b[i]
      BY <1>2, <3>1
    <3> QED
      BY <3>1, <3>2
  <2> QED
    BY <2>1, <2>2, <2>3
<1> QED
  BY <1>2, <1>7, <1>8, <1>9 DEF Says, c

-----------------------------------------------------------------------------
(* Pages.                                                                  *)

Tokens == {Heading(id) : id \in Ids} \cup {HeadingEnd, Inline, Text}

LEMMA TokensDiffer ==
  /\ \A id : Heading(id).tag = "heading" /\ Heading(id).id = id
  /\ HeadingEnd.tag # "heading" /\ Inline.tag # "heading" /\ Text.tag # "heading"
  /\ HeadingEnd.id = NoId /\ Inline.id = NoId /\ Text.id = NoId
  /\ HeadingEnd # Text /\ Inline # Text /\ Inline # HeadingEnd
  /\ \A id : Heading(id) # HeadingEnd /\ Heading(id) # Text
<1>1. HeadingEnd.tag = "heading end" /\ Inline.tag = "inline" /\ Text.tag = "text"
  BY DEF HeadingEnd, Inline, Text
<1>2. \A id : Heading(id).tag = "heading" /\ Heading(id).id = id
  BY DEF Heading
<1>3. HeadingEnd.id = NoId /\ Inline.id = NoId /\ Text.id = NoId
  BY DEF HeadingEnd, Inline, Text
<1> QED
  BY <1>1, <1>2, <1>3

LEMMA TokenIs ==
  ASSUME NEW t \in Tokens
  PROVE  /\ t.tag = "heading" => t = Heading(t.id) /\ t.id \in Ids
         /\ t.tag # "heading" => t.id = NoId
BY TokensDiffer DEF Tokens

\* The text of the section of heading i: behind the heading, before the next.
Body(page, i) == TextAt(page, Within(page, i) \ Title(page, i))

LEMMA BodyIs ==
  ASSUME NEW page, NEW i
  PROVE  Body(page, i) =
           {j \in DOMAIN page : /\ i < j /\ page[j] = Text
                                /\ ~\E k \in Headings(page) : i < k /\ k <= j
                                /\ \E k \in i..j : page[k] = HeadingEnd}
BY DEF Body, TextAt, Within, Title

\* What one more token changes.
LEMMA PageGrows ==
  ASSUME NEW page \in Seq(Tokens), NEW t \in Tokens
  PROVE  /\ Append(page, t) \in Seq(Tokens) /\ Len(page) \in Nat
         /\ Len(Append(page, t)) = Len(page) + 1
         /\ Append(page, t)[Len(page) + 1] = t
         /\ \A i \in 1..Len(page) : Append(page, t)[i] = page[i]
         /\ DOMAIN page = 1..Len(page) /\ DOMAIN Append(page, t) = 1..(Len(page) + 1)
BY AppendProperties, LenProperties

LEMMA HeadingsGrow ==
  ASSUME NEW page \in Seq(Tokens), NEW t \in Tokens
  PROVE  Headings(Append(page, t)) =
           Headings(page) \cup (IF t.tag = "heading" THEN {Len(page) + 1} ELSE {})
<1> DEFINE more == Append(page, t)
           n == Len(page)
<1>1. /\ n \in Nat /\ more[n + 1] = t /\ \A i \in 1..n : more[i] = page[i]
      /\ DOMAIN page = 1..n /\ DOMAIN more = 1..(n + 1)
  BY PageGrows
<1> HIDE DEF more, n
<1>2. Headings(page) = {i \in 1..n : page[i].tag = "heading"}
  BY <1>1 DEF Headings
<1>3. Headings(more) = {i \in 1..(n + 1) : more[i].tag = "heading"}
  BY <1>1 DEF Headings
<1>4. 1..(n + 1) = (1..n) \cup {n + 1}
  BY <1>1
<1>5. Headings(more) = Headings(page) \cup (IF t.tag = "heading" THEN {n + 1} ELSE {})
  BY <1>1, <1>2, <1>3, <1>4
<1> QED
  BY <1>5 DEF more, n

LEMMA TextGrows ==
  ASSUME NEW page \in Seq(Tokens), NEW t \in Tokens
  PROVE  TextAt(Append(page, t), DOMAIN Append(page, t)) =
           TextAt(page, DOMAIN page) \cup (IF t = Text THEN {Len(page) + 1} ELSE {})
<1> DEFINE more == Append(page, t)
           n == Len(page)
<1>1. /\ n \in Nat /\ more[n + 1] = t /\ \A i \in 1..n : more[i] = page[i]
      /\ DOMAIN page = 1..n /\ DOMAIN more = 1..(n + 1)
  BY PageGrows
<1> HIDE DEF more, n
<1>2. 1..(n + 1) = (1..n) \cup {n + 1}
  BY <1>1
<1>3. TextAt(more, DOMAIN more) =
        TextAt(page, DOMAIN page) \cup (IF t = Text THEN {n + 1} ELSE {})
  BY <1>1, <1>2 DEF TextAt
<1> QED
  BY <1>3 DEF more, n

(* A text belongs to the last heading, once its tag has ended.             *)
LEMMA BodyGrows ==
  ASSUME NEW page \in Seq(Tokens), NEW t \in Tokens, NEW i \in 1..Len(page)
  PROVE  Body(Append(page, t), i) =
           Body(page, i) \cup
             (IF /\ t = Text /\ \A k \in Headings(page) : k <= i
                 /\ \E k \in i..Len(page) : page[k] = HeadingEnd
              THEN {Len(page) + 1} ELSE {})
<1> DEFINE more == Append(page, t)
           n == Len(page)
<1>1. /\ n \in Nat /\ more[n + 1] = t /\ \A k \in 1..n : more[k] = page[k]
      /\ DOMAIN page = 1..n /\ DOMAIN more = 1..(n + 1)
  BY PageGrows
<1>2. Headings(more) = Headings(page) \cup (IF t.tag = "heading" THEN {n + 1} ELSE {})
  BY HeadingsGrow
<1>3. i \in 1..n /\ Headings(page) \subseteq 1..n
  BY <1>1 DEF Headings
<1> HIDE DEF more, n
<1>4. ASSUME NEW j \in 1..n PROVE j \in Body(more, i) <=> j \in Body(page, i)
  <2>1. j \in 1..(n + 1) /\ more[j] = page[j] /\ ~(n + 1 <= j)
    BY <1>1
  <2>2. (\E k \in Headings(more) : i < k /\ k <= j) <=> (\E k \in Headings(page) : i < k /\ k <= j)
    BY <1>2, <2>1
  <2>3. \A k \in i..j : more[k] = page[k]
    BY <1>1, <1>3
  <2> QED
    BY <1>1, <2>1, <2>2, <2>3, BodyIs
<1>5. n + 1 \in Body(more, i) <=>
        /\ t = Text /\ \A k \in Headings(page) : k <= i
        /\ \E k \in i..n : page[k] = HeadingEnd
  <2>1. n + 1 \in 1..(n + 1) /\ i < n + 1
    BY <1>1, <1>3
  <2>2. t = Text => Headings(more) = Headings(page)
    BY <1>2, TokensDiffer
  <2>3. (\E k \in Headings(page) : i < k /\ k <= n + 1) <=> ~(\A k \in Headings(page) : k <= i)
    BY <1>1, <1>3
  <2>4. t = Text => ((\E k \in i..(n + 1) : more[k] = HeadingEnd)
                      <=> (\E k \in i..n : page[k] = HeadingEnd))
    <3>1. \A k \in i..(n + 1) : k \in i..n \/ k = n + 1
      BY <1>1, <1>3
    <3>2. \A k \in i..n : k \in i..(n + 1) /\ more[k] = page[k]
      BY <1>1, <1>3
    <3> QED
      BY <1>1, <3>1, <3>2, TokensDiffer
  <2> QED
    BY <1>1, <2>1, <2>2, <2>3, <2>4, BodyIs
<1>6. Body(page, i) \subseteq 1..n /\ Body(more, i) \subseteq 1..(n + 1)
  BY <1>1, BodyIs
<1>7. n + 1 \notin 1..n /\ 1..(n + 1) = (1..n) \cup {n + 1}
  BY <1>1
<1>8. Body(more, i) =
        Body(page, i) \cup
          (IF /\ t = Text /\ \A k \in Headings(page) : k <= i
              /\ \E k \in i..n : page[k] = HeadingEnd
           THEN {n + 1} ELSE {})
  BY <1>4, <1>5, <1>6, <1>7
<1> QED
  BY <1>8 DEF more, n

LEMMA BodyStays ==
  ASSUME NEW page \in Seq(Tokens), NEW t \in Tokens, t # Text, NEW i \in 1..Len(page)
  PROVE  Body(Append(page, t), i) = Body(page, i)
BY BodyGrows

\* Nothing is behind the last token.
LEMMA BodyOfLast ==
  ASSUME NEW page \in Seq(Tokens)
  PROVE  Body(page, Len(page)) = {}
<1>1. DOMAIN page = 1..Len(page) /\ Len(page) \in Nat
  BY LenProperties
<1> QED
  BY <1>1, BodyIs

-----------------------------------------------------------------------------
(* The entries of a page's sections, one after the other.                  *)

Sectioned == [id : Ids, text : Seq(Nat)]

SectionsFold(g, S) ==
  g = [s \in SUBSET S |-> IF s = {} THEN <<>> ELSE WithSection(g[s \ {Max(s)}], data[Max(s)])]

LEMMA SectionsChosen ==
  ASSUME \E g : SectionsFold(g, DOMAIN data)
  PROVE  \E g : SectionsFold(g, DOMAIN data) /\ SectionEntries = g[DOMAIN data]
<1>1. SectionEntries =
        (CHOOSE g : g = [s \in SUBSET DOMAIN data |->
           IF s = {} THEN <<>> ELSE WithSection(g[s \ {Max(s)}], data[Max(s)])])[DOMAIN data]
  BY DEF SectionEntries, FoldLeft, MapThenFoldSet
<1> QED
  BY <1>1 DEF SectionsFold

LEMMA EntryIn ==
  ASSUME at \in 1..Len(Pages), NEW id \in Ids, NEW text \in Seq(Nat)
  PROVE  /\ Entry(id, text) \in Located
         /\ Entry(id, text).page = Pages[at] /\ Entry(id, text).id = id
         /\ Entry(id, text).text = text
<1>1. Pages[at] \in ToSet(Pages)
  BY PagesAssumption, LenProperties DEF ToSet
<1> QED
  BY <1>1 DEF Entry, Located

LEMMA ShownIn ==
  ASSUME NEW text \in Seq(Nat)
  PROVE  Shown(text) \in Seq(Nat) /\ (Ascending(text) => Ascending(Shown(text)))
BY DEF Shown, Ascending

LEMMA WithSectionIn ==
  ASSUME at \in 1..Len(Pages), NEW list \in Seq(Located), NEW section \in Sectioned
  PROVE  WithSection(list, section) \in Seq(Located)
<1>1. section.id \in Ids /\ section.text \in Seq(Nat)
  BY DEF Sectioned
<1>2. Entry(section.id, Shown(section.text)) \in Located
  BY <1>1, ShownIn, EntryIn
<1> QED
  BY <1>2, AppendProperties DEF WithSection

LEMMA SectionsBySteps ==
  ASSUME at \in 1..Len(Pages), data \in Seq(Sectioned)
  PROVE  \E r : /\ r[0] = <<>> /\ r[Len(data)] = SectionEntries
                /\ \A k \in 1..Len(data) : r[k] = WithSection(r[k - 1], data[k])
<1> DEFINE n == Len(data)
           T == Seq(Located)
           step == [p \in Seq(Located) \X Sectioned |-> WithSection(p[1], p[2])]
<1>1. n \in Nat /\ data \in [1..n -> Sectioned] /\ DOMAIN data = 1..n
  BY LenProperties
<1>2. step \in [T \X Sectioned -> T] /\ <<>> \in T
  <2>1. \A a \in T, b \in Sectioned : WithSection(a, b) \in T
    BY WithSectionIn
  <2> QED
    BY <2>1
<1>3. \A a \in T, b \in Sectioned : step[<<a, b>>] = WithSection(a, b)
  OBVIOUS
<1> HIDE DEF n, step, T
<1>4. PICK g : Folds(g, T, <<>>, step, data, n)
  BY <1>1, <1>2, FoldExists
<1>5. \E f : SectionsFold(f, 1..n)
  <2>1. \A s \in SUBSET (1..n) : s # {} => Max(s) \in 1..n /\ s \ {Max(s)} \in SUBSET (1..n)
    BY <1>1, MaxIn
  <2>2. \A s \in SUBSET (1..n) :
          g[s] = IF s = {} THEN <<>> ELSE WithSection(g[s \ {Max(s)}], data[Max(s)])
    BY <1>1, <1>3, <1>4, <2>1 DEF Folds
  <2>3. SectionsFold(g, 1..n)
    BY <1>4, <2>2 DEF SectionsFold, Folds
  <2> QED
    BY <2>3
<1>6. PICK f : SectionsFold(f, 1..n) /\ SectionEntries = f[1..n]
  BY <1>1, <1>5, SectionsChosen
<1> DEFINE r == [k \in 0..n |-> f[1..k]]
<1>7. f[{}] = <<>> /\ \A k \in 1..n : f[1..k] = WithSection(f[1..(k - 1)], data[k])
  <2>1. \A s \in SUBSET (1..n) :
          f[s] = IF s = {} THEN <<>> ELSE WithSection(f[s \ {Max(s)}], data[Max(s)])
    BY <1>6 DEF SectionsFold
  <2>2. f[{}] = <<>>
    BY <2>1
  <2>3. ASSUME NEW k \in 1..n PROVE f[1..k] = WithSection(f[1..(k - 1)], data[k])
    <3>1. 1..k \in SUBSET (1..n) /\ 1..k # {} /\ Max(1..k) = k /\ (1..k) \ {k} = 1..(k - 1)
      BY <1>1, FirstPositions
    <3> QED
      BY <2>1, <3>1
  <2> QED
    BY <2>2, <2>3
<1>8. r[0] = <<>> /\ r[n] = f[1..n]
  BY <1>1, <1>7, FirstPositions
<1>9. \A k \in 1..n : r[k] = WithSection(r[k - 1], data[k])
  BY <1>1, <1>7
<1> HIDE DEF r
<1> QED
  BY <1>6, <1>8, <1>9 DEF n

\* What the entry of a section says.
SectionSays(section) ==
  [page |-> Pages[at], id |-> section.id, text |-> ToSet(Shown(section.text))]

(* The entries say, of the sections that the table has, what is in them.   *)
LEMMA SectionsSay ==
  ASSUME at \in 1..Len(Pages), data \in Seq(Sectioned),
         \A i \in 1..Len(data) : Ascending(data[i].text),
         \A i, j \in 1..Len(data) :
           FindTocById(data[i].id) /\ data[i].id = data[j].id => i = j
  PROVE  Says(SectionEntries,
              {SectionSays(data[i]) : i \in {j \in 1..Len(data) : FindTocById(data[j].id)}})
<1> DEFINE n == Len(data)
           Said(k) == {SectionSays(data[i]) : i \in {j \in 1..k : FindTocById(data[j].id)}}
<1>1. n \in Nat /\ \A i \in 1..n : data[i] \in Sectioned
  BY LenProperties, ElementOfSeq
<1>2. PICK r : /\ r[0] = <<>> /\ r[n] = SectionEntries
               /\ \A k \in 1..n : r[k] = WithSection(r[k - 1], data[k])
  BY SectionsBySteps DEF n
<1>3. \A i, j \in 1..n : FindTocById(data[i].id) /\ data[i].id = data[j].id => i = j
  OBVIOUS
<1>4. \A i \in 1..n : Ascending(data[i].text)
  OBVIOUS
<1> HIDE DEF n
<1> DEFINE S == {k \in Nat : Says(r[k], Said(k))}
<1>5. 0 \in S
  <2>1. Said(0) = {}
    OBVIOUS
  <2> HIDE DEF Said
  <2> QED
    BY <1>2, <2>1, NothingSaid
<1>6. ASSUME NEW k \in Nat, k < n, k \in S PROVE k + 1 \in S
  <2> DEFINE section == data[k + 1]
             e == Entry(section.id, Shown(section.text))
  <2>1. /\ k + 1 \in 1..n /\ (k + 1) - 1 = k /\ 1..(k + 1) = (1..k) \cup {k + 1}
        /\ 1..k \subseteq 1..n
    BY <1>1, <1>6
  <2>2. r[k + 1] = WithSection(r[k], section) /\ Says(r[k], Said(k))
    BY <1>2, <1>6, <2>1
  <2>3. section.id \in Ids /\ section.text \in Seq(Nat) /\ Ascending(section.text)
    BY <1>1, <1>4, <2>1 DEF Sectioned
  <2>4. CASE ~FindTocById(section.id)
    <3>1. Said(k + 1) = Said(k)
      BY <2>1, <2>4
    <3>2. r[k + 1] = r[k]
      BY <2>2, <2>4 DEF WithSection
    <3> HIDE DEF Said
    <3> QED
      BY <2>2, <3>1, <3>2
  <2>5. CASE FindTocById(section.id)
    <3>1. Said(k + 1) = Said(k) \cup {SectionSays(section)}
      BY <2>1, <2>5
    <3>2. /\ e \in Located /\ Ascending(e.text)
          /\ e.page = Pages[at] /\ e.id = section.id /\ e.text = Shown(section.text)
      BY <2>3, ShownIn, EntryIn
    <3>3. Plain(e) = SectionSays(section)
      BY <3>2, PlainIs DEF SectionSays
    <3>4. Says(<<e>>, {SectionSays(section)})
      BY <3>2, <3>3, OneSaid
    <3>5. \A x \in Said(k) : x.id # section.id
      <4> SUFFICES ASSUME NEW i \in 1..k, FindTocById(data[i].id), data[i].id = section.id PROVE FALSE
        BY DEF SectionSays
      <4>1. i = k + 1
        BY <1>3, <2>1
      <4> QED
        BY <4>1
    <3>6. SectionSays(section).id = section.id
      BY DEF SectionSays
    <3>7. r[k] \in Seq(Located) /\ r[k + 1] = Append(r[k], e)
      BY <2>2, <2>5 DEF WithSection, Says
    <3>8. Append(r[k], e) = r[k] \o <<e>>
      BY <3>2, <3>7
    <3> HIDE DEF Said, e, section
    <3>9. Says(r[k] \o <<e>>, Said(k) \cup {SectionSays(section)})
      BY <2>2, <3>4, <3>5, <3>6, BothSaid
    <3>10. Says(r[k + 1], Said(k + 1))
      BY <3>1, <3>7, <3>8, <3>9
    <3> QED
      BY <3>10
  <2> QED
    BY <2>4, <2>5
<1>7. n \in S
  <2> HIDE DEF S
  <2>1. \A k \in 0..n : k \in S
    BY <1>1, <1>5, <1>6, StepsUpTo
  <2> QED
    BY <1>1, <2>1
<1> QED
  BY <1>2, <1>7 DEF n

-----------------------------------------------------------------------------
(* The parser: its sections begin at the headings of what it has been fed, *)
(* and each has the text of its own.                                       *)

Sections(p) ==
  /\ p \in [1..Len(data) -> 1..Len(html)]
  /\ \A i, j \in 1..Len(data) : i < j => p[i] < p[j]
  /\ Headings(html) = {p[i] : i \in 1..Len(data)}
  /\ \A i \in 1..Len(data) : /\ data[i].id = html[p[i]].id
                             /\ Ascending(data[i].text)
                             /\ ToSet(data[i].text) = Body(html, p[i])
  /\ inHeader => data # <<>>
  /\ data # <<>> => (inHeader <=> \A k \in p[Len(data)]..Len(html) : html[k] # HeadingEnd)

ListedOnce ==
  \A i, j \in Headings(html) : html[i].id \in Listed /\ html[i].id = html[j].id => i = j

ParseInv ==
  /\ html \in Seq(Tokens) /\ data \in Seq(Sectioned) /\ inHeader \in BOOLEAN
  /\ stripped \in Seq(Nat) /\ Ascending(stripped)
  /\ ToSet(stripped) = TextAt(html, DOMAIN html)
  /\ ListedOnce
  /\ \E p : Sections(p)

Fresh == html = <<>> /\ data = <<>> /\ stripped = <<>> /\ inHeader = FALSE

LEMMA FreshParsed == Fresh => ParseInv
<1> SUFFICES ASSUME Fresh PROVE ParseInv
  OBVIOUS
<1>0. html = <<>> /\ data = <<>> /\ stripped = <<>> /\ inHeader = FALSE
  BY DEF Fresh
<1>1. /\ <<>> \in Seq(Tokens) /\ <<>> \in Seq(Sectioned) /\ <<>> \in Seq(Nat)
      /\ Len(<<>>) = 0 /\ DOMAIN <<>> = {} /\ 1..0 = {}
  OBVIOUS
<1>2. Headings(html) = {} /\ TextAt(html, DOMAIN html) = {} /\ ToSet(stripped) = {}
  BY <1>0, <1>1 DEF Headings, TextAt, ToSet
<1>3. Ascending(stripped) /\ ListedOnce
  BY <1>0, <1>1, <1>2 DEF Ascending, ListedOnce
<1> DEFINE p == [i \in {} |-> 0]
<1>4. p \in [1..Len(data) -> 1..Len(html)] /\ {p[i] : i \in 1..Len(data)} = {}
  BY <1>0, <1>1
<1> HIDE DEF p
<1>5. Sections(p)
  BY <1>0, <1>1, <1>2, <1>4 DEF Sections
<1> QED
  BY <1>0, <1>1, <1>2, <1>3, <1>5 DEF ParseInv

\* A text is behind those before.
LEMMA AscendingMore ==
  ASSUME NEW text \in Seq(Nat), Ascending(text), NEW n \in Nat, ToSet(text) \subseteq 1..n
  PROVE  /\ Append(text, n + 1) \in Seq(Nat) /\ Ascending(Append(text, n + 1))
         /\ ToSet(Append(text, n + 1)) = ToSet(text) \cup {n + 1}
<1> DEFINE more == Append(text, n + 1)
           m == Len(text)
<1>1. /\ more \in Seq(Nat) /\ m \in Nat /\ DOMAIN text = 1..m /\ DOMAIN more = 1..(m + 1)
      /\ more[m + 1] = n + 1 /\ \A i \in 1..m : more[i] = text[i]
  BY AppendProperties, LenProperties
<1>2. \A i \in 1..m : text[i] \in 1..n
  BY <1>1 DEF ToSet
<1> HIDE DEF more, m
<1>3. ASSUME NEW i \in 1..(m + 1), NEW j \in 1..(m + 1), i < j PROVE more[i] < more[j]
  <2>1. i \in 1..m /\ (j \in 1..m \/ j = m + 1)
    BY <1>1, <1>3
  <2>2. CASE j \in 1..m
    BY <1>1, <1>3, <2>1, <2>2 DEF Ascending
  <2>3. CASE j = m + 1
    <3>1. more[i] \in 1..n /\ more[j] = n + 1
      BY <1>1, <1>2, <2>1, <2>3
    <3> QED
      BY <3>1
  <2> QED
    BY <2>1, <2>2, <2>3
<1>4. 1..(m + 1) = (1..m) \cup {m + 1}
  BY <1>1
<1>5. ToSet(more) = ToSet(text) \cup {n + 1}
  BY <1>1, <1>4 DEF ToSet
<1> QED
  BY <1>1, <1>3, <1>5 DEF Ascending, more

\* A token that is no heading leaves the headings where they are.
LEMMA SectionsStay ==
  ASSUME ParseInv, NEW t \in Tokens, t.tag # "heading", html' = Append(html, t),
         NEW p, Sections(p), Len(data') = Len(data),
         \A i \in 1..Len(data) : /\ data'[i].id = data[i].id
                                 /\ Ascending(data'[i].text)
                                 /\ ToSet(data'[i].text) = Body(html', p[i]),
         inHeader' <=> inHeader /\ t # HeadingEnd,
         data \in Seq(Sectioned), data' \in Seq(Sectioned)
  PROVE  Sections(p)' /\ ListedOnce'
<1> DEFINE n == Len(html)
           m == Len(data)
<1>1. /\ n \in Nat /\ html'[n + 1] = t /\ \A k \in 1..n : html'[k] = html[k]
      /\ DOMAIN html = 1..n /\ DOMAIN html' = 1..(n + 1) /\ Len(html') = n + 1
  BY PageGrows DEF ParseInv
<1>2. Headings(html') = Headings(html) /\ Headings(html) \subseteq 1..n
  BY <1>1, HeadingsGrow DEF ParseInv, Headings
<1>3. p \in [1..m -> 1..n] /\ m \in Nat /\ 1..n \subseteq 1..(n + 1)
  BY <1>1, LenProperties DEF Sections
<1>4. p \in [1..m -> 1..(n + 1)]
  BY <1>3
<1>5. \A i \in 1..m : data'[i].id = html'[p[i]].id
  BY <1>1, <1>3 DEF Sections
<1>6. (data # <<>>) <=> m # 0
  BY <1>3, EmptySeq
<1>7. (data' # <<>>) <=> m # 0
  BY <1>3, EmptySeq
<1>8. ASSUME data # <<>>
      PROVE  inHeader' <=> \A k \in p[m]..(n + 1) : html'[k] # HeadingEnd
  <2>1. p[m] \in 1..n
    BY <1>3, <1>6, <1>8
  <2>2. \A k \in p[m]..(n + 1) : k \in p[m]..n \/ k = n + 1
    BY <1>1, <2>1
  <2>3. \A k \in p[m]..n : k \in 1..n /\ k \in p[m]..(n + 1)
    BY <1>1, <2>1
  <2>4. n + 1 \in p[m]..(n + 1)
    BY <1>1, <2>1
  <2>5. inHeader <=> \A k \in p[m]..n : html[k] # HeadingEnd
    BY <1>8 DEF Sections
  <2> QED
    BY <1>1, <2>2, <2>3, <2>4, <2>5
<1>9. ListedOnce'
  BY <1>1, <1>2 DEF ListedOnce, ParseInv
<1>10. Sections(p)'
  <2>1. inHeader' => data' # <<>>
    BY <1>6, <1>7 DEF Sections
  <2>2. Len(data') = m /\ Len(html') = n + 1
    BY <1>1
  <2>3. \A i, j \in 1..m : i < j => p[i] < p[j]
    BY DEF Sections
  <2>4. Headings(html') = {p[i] : i \in 1..m}
    BY <1>2 DEF Sections
  <2>5. \A i \in 1..m : /\ data'[i].id = html'[p[i]].id
                        /\ Ascending(data'[i].text)
                        /\ ToSet(data'[i].text) = Body(html', p[i])
    BY <1>5
  <2>6. data' # <<>> => (inHeader' <=> \A k \in p[m]..(n + 1) : html'[k] # HeadingEnd)
    BY <1>6, <1>7, <1>8
  <2> HIDE DEF n, m
  <2> QED
    BY <1>4, <2>1, <2>2, <2>3, <2>4, <2>5, <2>6 DEF Sections
<1> QED
  BY <1>9, <1>10

LEMMA HeadingParsed ==
  ASSUME ParseInv, NEW id \in Ids, HandleStartHeading(id)
  PROVE  ParseInv'
<1> DEFINE t == Heading(id)
           n == Len(html)
           m == Len(data)
           section == [id |-> id, text |-> <<>>]
<1>1. /\ ~inHeader /\ (id = NoId \/ ~Contains(html, t)) /\ html' = Append(html, t)
      /\ data' = Append(data, section) /\ inHeader' = TRUE /\ stripped' = stripped
  BY DEF HandleStartHeading, Fed
<1>2. t \in Tokens /\ t.tag = "heading" /\ t.id = id /\ t # Text
  BY TokensDiffer DEF Tokens
<1>3. /\ n \in Nat /\ html'[n + 1] = t /\ \A k \in 1..n : html'[k] = html[k]
      /\ DOMAIN html = 1..n /\ DOMAIN html' = 1..(n + 1) /\ Len(html') = n + 1
      /\ html' \in Seq(Tokens) /\ \A k \in 1..n : html[k] \in Tokens
  <2>1. html \in Seq(Tokens) /\ \A k \in 1..n : html[k] \in Tokens
    BY ElementOfSeq DEF ParseInv
  <2> QED
    BY <1>1, <1>2, <2>1, PageGrows
<1>4. section \in Sectioned /\ section.id = id /\ section.text = <<>>
  BY DEF Sectioned
<1>5. /\ m \in Nat /\ data' \in Seq(Sectioned) /\ Len(data') = m + 1 /\ data' # <<>>
      /\ data'[m + 1] = section /\ \A i \in 1..m : data'[i] = data[i]
  BY <1>1, <1>4, AppendProperties, LenProperties DEF ParseInv
<1>6. Headings(html') = Headings(html) \cup {n + 1} /\ Headings(html) \subseteq 1..n
  BY <1>1, <1>2, <1>3, HeadingsGrow DEF ParseInv, Headings
<1>7. ToSet(stripped') = TextAt(html', DOMAIN html')
  BY <1>1, <1>2, TextGrows DEF ParseInv
<1>8. ListedOnce'
  <2>1. ASSUME NEW i \in Headings(html), html[i].id = id, id \in Listed PROVE FALSE
    <3>1. html[i] = t
      BY <1>3, <1>6, <2>1, TokenIs DEF Headings
    <3>2. i \in 1..Len(html)
      BY <1>3, <1>6
    <3> HIDE DEF t
    <3>3. Contains(html, t)
      BY <3>1, <3>2 DEF Contains
    <3> QED
      BY <1>1, <2>1, <3>3, IdsAssumption
  <2>2. n + 1 \notin 1..n
    BY <1>3
  <2>3. \A i, j \in Headings(html) : html'[i].id \in Listed /\ html'[i].id = html'[j].id => i = j
    BY <1>3, <1>6 DEF ParseInv, ListedOnce
  <2>4. \A i \in Headings(html) : id \in Listed => html'[i].id # id
    BY <1>3, <1>6, <2>1
  <2>5. html'[n + 1].id = id
    BY <1>2, <1>3
  <2> QED
    BY <1>6, <2>3, <2>4, <2>5 DEF ListedOnce
<1> PICK p : Sections(p)
  BY DEF ParseInv
<1>9. p \in [1..m -> 1..n] /\ \A i, j \in 1..m : i < j => p[i] < p[j]
  BY DEF Sections
<1>10. PICK q : /\ q \in [1..(m + 1) -> 1..(n + 1)] /\ q[m + 1] = n + 1
                /\ \A i \in 1..m : q[i] = p[i]
  <2> DEFINE r == [i \in 1..(m + 1) |-> IF i = m + 1 THEN n + 1 ELSE p[i]]
  <2>1. \A i \in 1..m : p[i] \in 1..(n + 1) /\ i \in 1..(m + 1) /\ i # m + 1
    BY <1>3, <1>5, <1>9
  <2>2. n + 1 \in 1..(n + 1) /\ m + 1 \in 1..(m + 1) /\ 1..(m + 1) = (1..m) \cup {m + 1}
    BY <1>3, <1>5
  <2>3. r \in [1..(m + 1) -> 1..(n + 1)] /\ r[m + 1] = n + 1 /\ \A i \in 1..m : r[i] = p[i]
    BY <2>1, <2>2
  <2> QED
    BY <2>3
<1> HIDE DEF t, section
<1>11. \A i, j \in 1..(m + 1) : i < j => q[i] < q[j]
  <2> SUFFICES ASSUME NEW i \in 1..(m + 1), NEW j \in 1..(m + 1), i < j PROVE q[i] < q[j]
    OBVIOUS
  <2>1. i \in 1..m /\ (j \in 1..m \/ j = m + 1)
    BY <1>5
  <2>2. p[i] \in 1..n
    BY <1>9, <2>1
  <2>3. p[i] < n + 1
    BY <1>3, <2>2
  <2> QED
    BY <1>9, <1>10, <2>1, <2>3
<1>12. Headings(html') = {q[i] : i \in 1..(m + 1)}
  <2>1. 1..(m + 1) = (1..m) \cup {m + 1}
    BY <1>5
  <2>2. Headings(html) = {q[i] : i \in 1..m}
    BY <1>10 DEF Sections
  <2> QED
    BY <1>6, <1>10, <2>1, <2>2
<1>13. ASSUME NEW i \in 1..(m + 1)
       PROVE  /\ data'[i].id = html'[q[i]].id
              /\ Ascending(data'[i].text)
              /\ ToSet(data'[i].text) = Body(html', q[i])
  <2>1. CASE i = m + 1
    <3>1. Ascending(<<>>) /\ ToSet(<<>>) = {}
      BY DEF Ascending, ToSet
    <3>2. Body(html', n + 1) = {}
      BY <1>3, BodyOfLast
    <3> QED
      BY <1>2, <1>3, <1>4, <1>5, <1>10, <2>1, <3>1, <3>2
  <2>2. CASE i \in 1..m
    <3>1. p[i] \in 1..n
      BY <1>9, <2>2
    <3>2. Body(html', p[i]) = Body(html, p[i])
      <4>1. html \in Seq(Tokens)
        BY DEF ParseInv
      <4>2. Body(Append(html, t), p[i]) = Body(html, p[i])
        BY <1>2, <3>1, <4>1, BodyStays
      <4> QED
        BY <1>1, <4>2
    <3>3. data'[i] = data[i] /\ q[i] = p[i] /\ html'[p[i]] = html[p[i]]
      BY <1>3, <1>5, <1>10, <2>2, <3>1
    <3> QED
      BY <2>2, <3>2, <3>3 DEF Sections
  <2> QED
    BY <1>5, <2>1, <2>2
<1>14. \A k \in q[m + 1]..(n + 1) : html'[k] # HeadingEnd
  <2>1. \A k \in (n + 1)..(n + 1) : k = n + 1
    BY <1>3
  <2>2. t # HeadingEnd
    BY TokensDiffer DEF t
  <2> QED
    BY <1>3, <1>10, <2>1, <2>2
<1>15. Sections(q)'
  <2>1. Len(data') = m + 1 /\ Len(html') = n + 1 /\ data' # <<>> /\ inHeader' = TRUE
    BY <1>1, <1>3, <1>5
  <2>2. inHeader' <=> \A k \in q[m + 1]..(n + 1) : html'[k] # HeadingEnd
    BY <1>1, <1>14
  <2> HIDE DEF n, m
  <2> QED
    BY <1>10, <1>11, <1>12, <1>13, <2>1, <2>2 DEF Sections
<1> QED
  BY <1>1, <1>3, <1>5, <1>7, <1>8, <1>15 DEF ParseInv

\* The end of a heading, and a tag that is none.
LEMMA TagParsed ==
  ASSUME ParseInv, NEW t \in {HeadingEnd, Inline}, html' = Append(html, t),
         data' = data, stripped' = stripped, inHeader' = (inHeader /\ t # HeadingEnd)
  PROVE  ParseInv'
<1>1. t \in Tokens /\ t.tag # "heading" /\ t # Text
  BY TokensDiffer DEF Tokens
<1>2. html' \in Seq(Tokens) /\ ToSet(stripped') = TextAt(html', DOMAIN html')
  BY <1>1, PageGrows, TextGrows DEF ParseInv
<1> PICK p : Sections(p)
  BY DEF ParseInv
<1>3. \A i \in 1..Len(data) : Body(html', p[i]) = Body(html, p[i])
  <2> SUFFICES ASSUME NEW i \in 1..Len(data) PROVE Body(html', p[i]) = Body(html, p[i])
    OBVIOUS
  <2>1. p[i] \in 1..Len(html)
    BY DEF Sections
  <2>2. html \in Seq(Tokens)
    BY DEF ParseInv
  <2>3. Body(Append(html, t), p[i]) = Body(html, p[i])
    BY <1>1, <2>1, <2>2, BodyStays
  <2> QED
    BY <2>3
<1>4. Sections(p)' /\ ListedOnce'
  <2>1. \A i \in 1..Len(data) : /\ data'[i].id = data[i].id
                                /\ Ascending(data'[i].text)
                                /\ ToSet(data'[i].text) = Body(html', p[i])
    BY <1>3 DEF Sections
  <2>2. Len(data') = Len(data) /\ data \in Seq(Sectioned) /\ data' \in Seq(Sectioned)
    BY DEF ParseInv
  <2>3. inHeader' <=> inHeader /\ t # HeadingEnd
    OBVIOUS
  <2> QED
    BY <1>1, <2>1, <2>2, <2>3, SectionsStay
<1> QED
  BY <1>2, <1>4 DEF ParseInv

(* A text is the page's, and that of the last section unless it is a title.*)
LEMMA DataParsed ==
  ASSUME ParseInv, HandleData
  PROVE  ParseInv'
<1> DEFINE n == Len(html)
           m == Len(data)
<1>1. /\ html' = Append(html, Text) /\ inHeader' = inHeader
      /\ stripped' = Append(stripped, Len(html'))
      /\ data' = IF data = <<>> \/ inHeader THEN data
                 ELSE [data EXCEPT ![Len(data)].text = Append(@, Len(html'))]
  BY DEF HandleData, Fed
<1>2. Text \in Tokens /\ Text.tag # "heading" /\ Text # HeadingEnd
  BY TokensDiffer DEF Tokens
<1>3. n \in Nat /\ Len(html') = n + 1 /\ DOMAIN html = 1..n /\ html' \in Seq(Tokens)
  BY <1>1, <1>2, PageGrows DEF ParseInv
<1>4. ToSet(stripped) \subseteq 1..n
  BY <1>3 DEF ParseInv, TextAt
<1>5. /\ stripped' \in Seq(Nat) /\ Ascending(stripped')
      /\ ToSet(stripped') = TextAt(html', DOMAIN html')
  <2>1. /\ Append(stripped, n + 1) \in Seq(Nat) /\ Ascending(Append(stripped, n + 1))
        /\ ToSet(Append(stripped, n + 1)) = ToSet(stripped) \cup {n + 1}
    BY <1>3, <1>4, AscendingMore DEF ParseInv
  <2>2. TextAt(html', DOMAIN html') = TextAt(html, DOMAIN html) \cup {n + 1}
    BY <1>1, <1>2, TextGrows DEF ParseInv
  <2> QED
    BY <1>1, <1>3, <2>1, <2>2 DEF ParseInv
<1> PICK p : Sections(p)
  BY DEF ParseInv
<1>6. /\ m \in Nat /\ data \in Seq(Sectioned) /\ (data # <<>> <=> m # 0)
      /\ p \in [1..m -> 1..n] /\ \A i, j \in 1..m : i < j => p[i] < p[j]
      /\ \A i \in 1..m : data[i] \in Sectioned
  BY LenProperties, EmptySeq, ElementOfSeq DEF ParseInv, Sections
<1>7. \A i \in 1..m : Body(html', p[i]) =
          Body(html, p[i]) \cup
            (IF /\ \A k \in Headings(html) : k <= p[i]
                /\ \E k \in p[i]..n : html[k] = HeadingEnd
             THEN {n + 1} ELSE {})
  <2> SUFFICES ASSUME NEW i \in 1..m
               PROVE  Body(html', p[i]) =
                        Body(html, p[i]) \cup
                          (IF /\ \A k \in Headings(html) : k <= p[i]
                              /\ \E k \in p[i]..n : html[k] = HeadingEnd
                           THEN {n + 1} ELSE {})
    OBVIOUS
  <2>1. p[i] \in 1..Len(html)
    BY <1>6
  <2> QED
    BY <1>1, <1>2, <2>1, BodyGrows DEF ParseInv
<1>8. ASSUME NEW i \in 1..m, i # m PROVE ~\A k \in Headings(html) : k <= p[i]
  <2>1. m \in 1..m /\ i < m
    BY <1>6, <1>8
  <2>2. p[i] < p[m] /\ p[i] \in 1..n /\ p[m] \in 1..n
    BY <1>6, <2>1
  <2>3. p[m] \in Headings(html)
    BY <2>1 DEF Sections
  <2>4. ~(p[m] <= p[i])
    BY <1>3, <2>2
  <2> QED
    BY <2>3, <2>4
<1>9. \A i \in 1..m : i # m => Body(html', p[i]) = Body(html, p[i])
  BY <1>7, <1>8
<1>10. CASE data = <<>> \/ inHeader
  <2>1. data' = data
    BY <1>1, <1>10
  <2>2. ASSUME m # 0 PROVE Body(html', p[m]) = Body(html, p[m])
    <3>1. m \in 1..m /\ inHeader
      BY <1>6, <1>10, <2>2
    <3>2. \A k \in p[m]..n : html[k] # HeadingEnd
      BY <1>6, <2>2, <3>1 DEF Sections
    <3> QED
      BY <1>7, <3>1, <3>2
  <2>3. \A i \in 1..m : Body(html', p[i]) = Body(html, p[i])
    BY <1>6, <1>9, <2>2
  <2>4. \A i \in 1..m : /\ data'[i].id = data[i].id
                        /\ Ascending(data'[i].text)
                        /\ ToSet(data'[i].text) = Body(html', p[i])
    BY <2>1, <2>3 DEF Sections
  <2>5. Len(data') = Len(data) /\ data' \in Seq(Sectioned)
    BY <1>6, <2>1
  <2>6. Sections(p)' /\ ListedOnce'
    BY <1>1, <1>2, <1>6, <2>4, <2>5, SectionsStay
  <2> QED
    BY <1>1, <1>3, <1>5, <1>6, <2>5, <2>6 DEF ParseInv
<1>11. CASE ~(data = <<>> \/ inHeader)
  <2> DEFINE text == data[m].text
             section == [data[m] EXCEPT !.text = Append(text, n + 1)]
  <2>1. m \in 1..m /\ m # 0 /\ p[m] \in 1..n
    BY <1>6, <1>11
  <2>2. data' = [data EXCEPT ![m] = section]
    BY <1>1, <1>3, <1>11
  <2>3. text \in Seq(Nat) /\ Ascending(text) /\ ToSet(text) = Body(html, p[m]) /\ data[m].id \in Ids
    BY <1>6, <2>1 DEF Sections, Sectioned
  <2>4. Body(html, p[m]) \subseteq 1..n
    BY <1>3, BodyIs
  <2>5. /\ Append(text, n + 1) \in Seq(Nat) /\ Ascending(Append(text, n + 1))
        /\ ToSet(Append(text, n + 1)) = ToSet(text) \cup {n + 1}
    BY <1>3, <2>3, <2>4, AscendingMore
  <2>6. section \in Sectioned /\ section.id = data[m].id /\ section.text = Append(text, n + 1)
    BY <1>6, <2>1, <2>3, <2>5 DEF Sectioned
  <2>7. \A k \in Headings(html) : k <= p[m]
    <3> SUFFICES ASSUME NEW i \in 1..m PROVE p[i] <= p[m]
      BY DEF Sections
    <3>1. i = m \/ i < m
      BY <1>6
    <3>2. p[i] \in 1..n
      BY <1>6
    <3> QED
      BY <1>3, <1>6, <2>1, <3>1, <3>2
  <2>8. \E k \in p[m]..n : html[k] = HeadingEnd
    BY <1>6, <1>11, <2>1 DEF Sections
  <2>9. Body(html', p[m]) = Body(html, p[m]) \cup {n + 1}
    BY <1>7, <2>1, <2>7, <2>8
  <2> HIDE DEF section, text
  <2>10. /\ data' \in Seq(Sectioned) /\ Len(data') = m
         /\ data'[m] = section /\ \A i \in 1..m : i # m => data'[i] = data[i]
    BY <1>6, <2>1, <2>2, <2>6, ExceptSeq
  <2>11. \A i \in 1..m : /\ data'[i].id = data[i].id
                         /\ Ascending(data'[i].text)
                         /\ ToSet(data'[i].text) = Body(html', p[i])
    <3>1. /\ data'[m].id = data[m].id
          /\ Ascending(data'[m].text)
          /\ ToSet(data'[m].text) = Body(html', p[m])
      BY <2>3, <2>5, <2>6, <2>9, <2>10
    <3>2. ASSUME NEW i \in 1..m, i # m
          PROVE  /\ data'[i].id = data[i].id
                 /\ Ascending(data'[i].text)
                 /\ ToSet(data'[i].text) = Body(html', p[i])
      BY <1>9, <2>10, <3>2 DEF Sections
    <3> QED
      BY <3>1, <3>2
  <2>12. Sections(p)' /\ ListedOnce'
    BY <1>1, <1>2, <1>6, <2>10, <2>11, SectionsStay
  <2> QED
    BY <1>1, <1>3, <1>5, <1>6, <2>10, <2>12 DEF ParseInv
<1> QED
  BY <1>10, <1>11

-----------------------------------------------------------------------------
(* A page that has been fed.                                               *)

Full(text) == IF indexing = "full" THEN text ELSE {}

LEMMA ToSetShown == \A text : ToSet(Shown(text)) = Full(ToSet(text))
BY DEF Shown, Full, ToSet

PageSays(n, page) == [page |-> Pages[n], id |-> NoId, text |-> Full(TextAt(page, DOMAIN page))]
HeadingSays(n, page, i) == [page |-> Pages[n], id |-> page[i].id, text |-> Full(Body(page, i))]
ListedAt(page) ==
  IF indexing = "titles" THEN {} ELSE {i \in Headings(page) : page[i].id \in Listed}

LEMMA PageEntriesAre ==
  ASSUME NEW n, NEW page
  PROVE  PageEntries(n, page) =
           {PageSays(n, page)} \cup {HeadingSays(n, page, i) : i \in ListedAt(page)}
BY DEF PageEntries, PageSays, HeadingSays, ListedAt, Full, Body

\* The table of contents has the sections with a listed id.
LEMMA FoundListed ==
  ASSUME ParseInv, NEW p, Sections(p), NEW i \in 1..Len(data)
  PROVE  /\ p[i] \in DOMAIN html /\ data[i].id = html[p[i]].id
         /\ FindTocById(data[i].id) <=> data[i].id \in Listed
<1>1. p[i] \in DOMAIN html /\ data[i].id = html[p[i]].id
  BY LenProperties DEF ParseInv, Sections
<1> QED
  BY <1>1 DEF FindTocById, Toc

LEMMA SectionsOfPage ==
  ASSUME ParseInv, at \in 1..Len(Pages), indexing # "titles"
  PROVE  Says(SectionEntries, {HeadingSays(at, html, i) : i \in ListedAt(html)})
<1> PICK p : Sections(p)
  BY DEF ParseInv
<1> DEFINE Kept == {j \in 1..Len(data) : FindTocById(data[j].id)}
<1>1. /\ \A i \in 1..Len(data) : p[i] \in DOMAIN html /\ data[i].id = html[p[i]].id
      /\ \A i \in 1..Len(data) : FindTocById(data[i].id) <=> data[i].id \in Listed
  BY FoundListed
<1>2. Headings(html) = {p[i] : i \in 1..Len(data)} /\ Len(data) \in Nat
  BY LenProperties DEF Sections, ParseInv
<1>3. ASSUME NEW i \in 1..Len(data), NEW j \in 1..Len(data),
             FindTocById(data[i].id), data[i].id = data[j].id
      PROVE  i = j
  <2>1. p[i] \in Headings(html) /\ p[j] \in Headings(html)
    BY <1>2
  <2>2. html[p[i]].id \in Listed /\ html[p[i]].id = html[p[j]].id
    BY <1>1, <1>3
  <2>3. p[i] = p[j]
    BY <2>1, <2>2 DEF ParseInv, ListedOnce
  <2>4. p[i] \in 1..Len(html) /\ p[j] \in 1..Len(html) /\ Len(html) \in Nat
    BY LenProperties DEF Sections, ParseInv
  <2>5. ~(i < j) /\ ~(j < i)
    <3>1. (i < j => p[i] < p[j]) /\ (j < i => p[j] < p[i])
      BY DEF Sections
    <3> QED
      BY <2>3, <2>4, <3>1
  <2> QED
    BY <1>2, <2>5
<1>4. \A i \in 1..Len(data) : Ascending(data[i].text)
  BY DEF Sections
<1>5. Says(SectionEntries, {SectionSays(data[i]) : i \in Kept})
  BY <1>3, <1>4, SectionsSay DEF ParseInv
<1>6. \A i \in 1..Len(data) : SectionSays(data[i]) = HeadingSays(at, html, p[i])
  <2> SUFFICES ASSUME NEW i \in 1..Len(data) PROVE SectionSays(data[i]) = HeadingSays(at, html, p[i])
    OBVIOUS
  <2>1. data[i].id = html[p[i]].id /\ ToSet(data[i].text) = Body(html, p[i])
    BY DEF Sections
  <2>2. ToSet(Shown(data[i].text)) = Full(Body(html, p[i]))
    BY <2>1, ToSetShown
  <2> QED
    BY <2>1, <2>2 DEF SectionSays, HeadingSays
<1>7. ListedAt(html) = {p[i] : i \in Kept}
  BY <1>1, <1>2 DEF ListedAt
<1>8. {SectionSays(data[i]) : i \in Kept} = {HeadingSays(at, html, i) : i \in ListedAt(html)}
  BY <1>6, <1>7
<1> QED
  BY <1>5, <1>8

-----------------------------------------------------------------------------
(* The index.                                                              *)

Told == UNION {PageEntries(n, past[n]) : n \in 1..(at - 1)}

EntriesInv ==
  /\ ParseInv
  /\ at \in Nat \ {0} /\ at - 1 <= Len(Pages)
  /\ past \in Seq(Seq(Tokens)) /\ Len(past) = at - 1
  /\ Says(entries, Told)
  /\ phase \in {"index", "built"} => at = Len(Pages) + 1

LEMMA PageAdded ==
  ASSUME EntriesInv, AddEntry
  PROVE  EntriesInv'
<1> DEFINE e == Entry(NoId, Shown(stripped))
           more == IF indexing = "titles" THEN <<>> ELSE SectionEntries
           S == {HeadingSays(at, html, i) : i \in ListedAt(html)}
<1>1. /\ phase = "parse" /\ at <= Len(Pages) /\ inHeader = FALSE
      /\ entries' = Append(entries, e) \o more
      /\ past' = Append(past, html) /\ at' = at + 1
      /\ phase' = IF at = Len(Pages) THEN "index" ELSE "parse"
      /\ html' = <<>> /\ data' = <<>> /\ stripped' = <<>> /\ inHeader' = FALSE
      /\ indexing' = indexing
  BY DEF AddEntry, EntriesInv, ParseInv, configVars
<1>2. Len(Pages) \in Nat /\ at \in 1..Len(Pages)
  BY <1>1, PagesAssumption, LenProperties DEF EntriesInv
<1>3. ParseInv'
  <2>1. Fresh'
    BY <1>1 DEF Fresh
  <2> QED
    BY <2>1, FreshParsed, PTL
<1>4. /\ past' \in Seq(Seq(Tokens)) /\ Len(past') = at
      /\ past'[at] = html /\ \A n \in 1..(at - 1) : past'[n] = past[n]
  <2>1. html \in Seq(Tokens) /\ past \in Seq(Seq(Tokens)) /\ Len(past) = at - 1 /\ (at - 1) + 1 = at
    BY <1>2 DEF EntriesInv, ParseInv
  <2> QED
    BY <1>1, <2>1, AppendProperties
<1>5. Says(<<e>>, {PageSays(at, html)})
  <2>1. stripped \in Seq(Nat) /\ Ascending(stripped) /\ NoId \in Ids
    BY DEF EntriesInv, ParseInv, Ids
  <2>2. Shown(stripped) \in Seq(Nat) /\ Ascending(Shown(stripped))
    BY <2>1, ShownIn
  <2>3. /\ e \in Located /\ e.page = Pages[at] /\ e.id = NoId /\ e.text = Shown(stripped)
    BY <1>2, <2>1, <2>2, EntryIn
  <2>4. ToSet(Shown(stripped)) = Full(TextAt(html, DOMAIN html))
    BY ToSetShown DEF EntriesInv, ParseInv
  <2>5. Plain(e) = PageSays(at, html)
    BY <2>3, <2>4, PlainIs DEF PageSays
  <2> HIDE DEF e
  <2> QED
    BY <2>2, <2>3, <2>5, OneSaid
<1>6. Says(more, S)
  <2>1. CASE indexing = "titles"
    <3>1. S = {}
      BY <2>1 DEF ListedAt
    <3> QED
      BY <2>1, <3>1, NothingSaid
  <2>2. CASE indexing # "titles"
    BY <1>2, <2>2, SectionsOfPage DEF EntriesInv
  <2> QED
    BY <2>1, <2>2
<1>7. \A x \in Told : x.page # Pages[at]
  <2> SUFFICES ASSUME NEW n \in 1..(at - 1), NEW x \in PageEntries(n, past[n]) PROVE x.page # Pages[at]
    BY DEF Told
  <2>1. x.page = Pages[n]
    BY PageEntriesAre DEF PageSays, HeadingSays
  <2>2. DOMAIN Pages = 1..Len(Pages) /\ n \in 1..Len(Pages) /\ n # at
    BY <1>2, PagesAssumption, LenProperties
  <2> QED
    BY <1>2, <2>1, <2>2, PagesAssumption DEF IsInjective
<1>8. PageSays(at, html).page = Pages[at] /\ PageSays(at, html).id = NoId
  BY DEF PageSays
<1>9. \A y \in S : y.page = Pages[at] /\ y.id # NoId
  BY IdsAssumption DEF HeadingSays, ListedAt
<1>10. entries \in Seq(Located) /\ e \in Located
  <2>1. <<e>> \in Seq(Located) /\ <<e>>[1] = e /\ Len(<<e>>) = 1
    BY <1>5 DEF Says
  <2> QED
    BY <2>1, ElementOfSeq DEF EntriesInv, Says
<1>11. Append(entries, e) = entries \o <<e>>
  BY <1>10
<1> HIDE DEF e, more, S
<1>12. Says(entries \o <<e>>, Told \cup {PageSays(at, html)})
  BY <1>5, <1>7, <1>8, BothSaid DEF EntriesInv
<1>13. Says((entries \o <<e>>) \o more, (Told \cup {PageSays(at, html)}) \cup S)
  <2> DEFINE first == entries \o <<e>>
             A == Told \cup {PageSays(at, html)}
  <2>1. \A x \in A, y \in S : x.page # y.page \/ x.id # y.id
    BY <1>7, <1>8, <1>9
  <2>2. Says(first, A)
    BY <1>12
  <2> HIDE DEF first, A
  <2>3. Says(first \o more, A \cup S)
    BY <1>6, <2>1, <2>2, BothSaid
  <2> QED
    BY <2>3 DEF first, A
<1>14. Told' = (Told \cup {PageSays(at, html)}) \cup S
  <2>1. at' - 1 = at /\ 1..at = (1..(at - 1)) \cup {at}
    BY <1>1, <1>2
  <2>2. \A n \in 1..at : PageEntries(n, past[n])' = PageEntries(n, past'[n])
    BY <1>1 DEF PageEntries
  <2>3. Told' = UNION {PageEntries(n, past[n])' : n \in 1..at}
    BY <2>1 DEF Told
  <2>4. Told' = Told \cup PageEntries(at, html)
    BY <1>4, <2>1, <2>2, <2>3 DEF Told
  <2> QED
    BY <2>4, PageEntriesAre DEF S
<1>15. Says(entries', Told')
  BY <1>1, <1>11, <1>13, <1>14
<1>16. Says(entries, Told)'
  BY <1>15 DEF Says
<1> QED
  BY <1>1, <1>2, <1>3, <1>4, <1>16 DEF EntriesInv

LEMMA InitEntries == IndexInit => EntriesInv
<1> SUFFICES ASSUME IndexInit PROVE EntriesInv
  OBVIOUS
<1>1. ParseInv
  BY FreshParsed DEF IndexInit, Fresh
<1>2. Len(Pages) \in Nat
  BY PagesAssumption, LenProperties
<1>3. past = <<>> /\ entries = <<>> /\ at = 1 /\ phase = "config"
  BY DEF IndexInit
<1>4. Told = {}
  BY <1>3 DEF Told
<1> QED
  BY <1>1, <1>2, <1>3, <1>4, NothingSaid DEF EntriesInv

LEMMA NextEntries == EntriesInv /\ [IndexNext]_indexVars => EntriesInv'
<1> SUFFICES ASSUME EntriesInv, [IndexNext]_indexVars PROVE EntriesInv'
  OBVIOUS
<1>1. ASSUME ParseInv', UNCHANGED <<at, past, entries, indexing>>,
             phase' = phase \/ phase' = "parse" \/ (phase = "index" /\ phase' = "built")
      PROVE  EntriesInv'
  <2>1. Told' = Told
    BY <1>1 DEF Told, PageEntries
  <2>2. Says(entries, Told)'
    BY <1>1, <2>1 DEF EntriesInv, Says
  <2> QED
    BY <1>1, <2>2 DEF EntriesInv
<1>2. ASSUME UNCHANGED parserVars PROVE ParseInv'
  <2>1. html' = html /\ data' = data /\ inHeader' = inHeader /\ stripped' = stripped
    BY <1>2 DEF parserVars
  <2> PICK p : Sections(p)
    BY DEF EntriesInv, ParseInv
  <2>2. Sections(p)'
    BY <2>1 DEF Sections
  <2>3. ListedOnce'
    BY <2>1 DEF EntriesInv, ParseInv, ListedOnce
  <2> QED
    BY <2>1, <2>2, <2>3 DEF EntriesInv, ParseInv
<1>3. CASE OnConfig
  BY <1>1, <1>2, <1>3 DEF OnConfig
<1>4. CASE OnPostBuild
  BY <1>1, <1>2, <1>4 DEF OnPostBuild, configVars
<1>5. CASE UNCHANGED indexVars
  <2>1. UNCHANGED <<parserVars, at, past, entries, indexing, phase>>
    BY <1>5 DEF indexVars, configVars
  <2> QED
    BY <1>1, <1>2, <2>1
<1>6. ASSUME NEW id \in Listed \cup Unlisted \cup {NoId}, HandleStartHeading(id) PROVE EntriesInv'
  <2>1. ParseInv'
    BY <1>6, HeadingParsed DEF EntriesInv, Ids
  <2> QED
    BY <1>1, <1>6, <2>1 DEF HandleStartHeading, Fed, configVars
<1>7. CASE HandleEndHeading
  <2>1. /\ html' = Append(html, HeadingEnd) /\ data' = data /\ stripped' = stripped
        /\ inHeader' = (inHeader /\ HeadingEnd # HeadingEnd)
    BY <1>7 DEF HandleEndHeading, Fed
  <2>2. ParseInv'
    BY <2>1, TagParsed DEF EntriesInv
  <2> QED
    BY <1>1, <1>7, <2>2 DEF HandleEndHeading, Fed, configVars
<1>8. CASE HandleOtherTag
  <2>1. /\ html' = Append(html, Inline) /\ data' = data /\ stripped' = stripped
        /\ inHeader' = (inHeader /\ Inline # HeadingEnd)
    BY <1>8, TokensDiffer DEF HandleOtherTag, Fed, EntriesInv, ParseInv
  <2>2. ParseInv'
    BY <2>1, TagParsed DEF EntriesInv
  <2> QED
    BY <1>1, <1>8, <2>2 DEF HandleOtherTag, Fed, configVars
<1>9. CASE HandleData
  <2>1. ParseInv'
    BY <1>9, DataParsed DEF EntriesInv
  <2> QED
    BY <1>1, <1>9, <2>1 DEF HandleData, Fed, configVars
<1>10. CASE AddEntry
  BY <1>10, PageAdded
<1> QED
  BY <1>3, <1>4, <1>5, <1>6, <1>7, <1>8, <1>9, <1>10 DEF IndexNext

LEMMA EntriesShown == EntriesInv => EntriesMatchPages
<1> SUFFICES ASSUME EntriesInv PROVE EntriesMatchPages
  OBVIOUS
<1>1. DOMAIN entries = 1..Len(entries) /\ DOMAIN past = 1..(at - 1) /\ Len(Pages) \in Nat
  BY PagesAssumption, LenProperties DEF EntriesInv, Says
<1>2. {Plain(entries[i]) : i \in DOMAIN entries} = UNION {PageEntries(n, past[n]) : n \in DOMAIN past}
  BY <1>1 DEF EntriesInv, Says, Told
<1>3. /\ \A i, j \in DOMAIN entries :
           entries[i].page = entries[j].page /\ entries[i].id = entries[j].id => i = j
      /\ \A i \in DOMAIN entries : Ascending(entries[i].text)
  BY <1>1 DEF EntriesInv, Says
<1>4. phase \in {"index", "built"} => Len(past) = Len(Pages)
  BY <1>1 DEF EntriesInv
<1> QED
  BY <1>2, <1>3, <1>4 DEF EntriesMatchPages

(* For any pages, headings and options: the index says of each page what   *)
(* is on it, section by section, and nothing else; no two of its entries   *)
(* have one location.                                                      *)
THEOREM EntriesAreThePages == IndexSpec => []EntriesMatchPages
BY InitEntries, NextEntries, EntriesShown, PTL DEF IndexSpec
=============================================================================
