---------------------------- MODULE SearchClient ----------------------------
(***************************************************************************)
(* The search of a built site: the page's main.js and the web worker's     *)
(* worker.js (contrib/search/templates/search), which talk in messages.    *)
(* A turn of either event loop is one action; each direction is a queue.   *)
(* What lunr answers is a constant here; SiteSearch says what it is.       *)
(***************************************************************************)
EXTENDS Integers, Sequences

\* A site has the languages, the separators, the minimal length of queries and
\* the documents of its search_index.json, with or without a built index, a
\* reader's texts for the search box with the clauses they mean, and a bound
\* on the changes of the box.
CONSTANTS
  Sites,
  ScriptsLoad(_), \* whether the scripts of a site's languages are there and load
  Lunr(_)         \* the index of a site and what is answered from it

\* For each text, whether index.search throws, and the weights of what it finds.
Searchable == {s \in Sites : ScriptsLoad(s)}
Search == [s \in Searchable |-> Lunr(s)]

\* What stands for no query is no text.
NoQuery == "no query"
ASSUME TextsAssumption == \A s \in Sites : NoQuery \notin DOMAIN s.texts

ASSUME SearchAssumption == \A s \in Searchable : DOMAIN s.texts \subseteq DOMAIN Search[s].answers

VARIABLES
  site,      \* the site of the page
  address,   \* the q= of the page's address, or NoQuery
  input,     \* what stands in the search box
  listening, \* main.js listens to the keyup events of the box
  minSet,    \* min_search_length has been received
  asked,     \* the box when doSearch last ran, or NoQuery
  shown,     \* the documents of the results shown
  toWorker,  \* messages on their way, oldest first
  toMain,
  worker,    \* "new", "loading", "ready" or "broken"
  keys       \* number of changes of the box

mainVars == <<site, address, input, listening, minSet, asked, shown, keys>>
vars == <<mainVars, toWorker, toMain, worker>>

InitMsg == [kind |-> "init"]
QueryMsg(q) == [kind |-> "query", query |-> q]
ConfigMsg == [kind |-> "config"]
AllowMsg  == [kind |-> "allowSearch"]
ResultsMsg(docs) == [kind |-> "results", docs |-> docs]

Short(q) == Len(q) < site.minLength

\* An empty query is none, and index.search may throw; the documents of the
\* results of search.
Unanswered(text) == text = "" \/ Search[site].answers[text].throws
Found(text) == DOMAIN Search[site].answers[text].weights

-----------------------------------------------------------------------------
Init ==
  /\ site \in Sites
  /\ address \in site.addresses \cup {NoQuery}
  /\ input = NoQuery /\ listening = FALSE /\ minSet = FALSE
  /\ asked = NoQuery /\ shown = {}
  /\ toWorker = <<InitMsg>> /\ toMain = <<>>
  /\ worker = "new" /\ keys = 0

\* doSearch: the worker is asked, or the results of a short query cleared.
DoSearch(q) ==
  /\ asked' = q
  /\ IF Short(q) THEN shown' = {} /\ toWorker' = toWorker
     ELSE shown' = shown /\ toWorker' = Append(toWorker, QueryMsg(q))

Change(q) ==
  /\ keys < site.keys /\ keys' = keys + 1
  /\ q # input /\ input' = q

\* The user types; the last keyup of it finds q in the box.
Type(q) ==
  /\ Change(q)
  /\ IF listening THEN DoSearch(q) ELSE UNCHANGED <<asked, shown, toWorker>>
  /\ UNCHANGED <<site, address, listening, minSet, toMain, worker>>

\* A change without a keyup, by the mouse.
Paste(q) ==
  /\ Change(q)
  /\ UNCHANGED <<site, address, listening, minSet, asked, shown, toWorker, toMain, worker>>

\* initSearch, and doSearch for the query in the page's address, which
\* replaces what was typed while the index was loading.  Without the length
\* doSearch ends in a ReferenceError.
InitSearch ==
  /\ listening' = TRUE
  /\ input' = IF address = NoQuery THEN input ELSE address
  /\ IF address # NoQuery /\ minSet THEN DoSearch(address)
     ELSE UNCHANGED <<asked, shown, toWorker>>

\* onWorkerMessage
OnWorkerMessage ==
  /\ toMain # <<>>
  /\ toMain' = Tail(toMain)
  /\ LET msg == Head(toMain) IN
       \/ /\ msg = AllowMsg
          /\ InitSearch
          /\ UNCHANGED minSet
       \/ /\ msg = ConfigMsg
          /\ minSet' = TRUE
          /\ UNCHANGED <<input, listening, asked, shown, toWorker>>
       \/ /\ msg.kind = "results"
          /\ shown' = msg.docs \* displayResults
          /\ UNCHANGED <<input, listening, minSet, asked, toWorker>>
  /\ UNCHANGED <<site, address, keys, worker>>

-----------------------------------------------------------------------------
\* init: the request for search_index.json.
StartLoading ==
  /\ toWorker # <<>> /\ Head(toWorker) = InitMsg
  /\ toWorker' = Tail(toWorker)
  /\ worker' = "loading"
  /\ UNCHANGED <<mainVars, toMain>>

\* Faulty variant: searching is allowed before the configuration is sent.
LoadedAllowFirst ==
  /\ worker = "loading" /\ site \in Searchable
  /\ worker' = "ready"
  /\ toMain' = toMain \o <<AllowMsg, ConfigMsg>>
  /\ UNCHANGED <<mainVars, toWorker>>

\* onJSONLoaded and, importScripts being synchronous, onScriptsLoaded.
Loaded ==
  /\ worker = "loading" /\ site \in Searchable
  /\ worker' = "ready"
  /\ toMain' = toMain \o <<ConfigMsg, AllowMsg>>
  /\ UNCHANGED <<mainVars, toWorker>>

\* No answer, an answer that is not JSON, or a script that is missing or throws.
LoadFails ==
  /\ worker = "loading"
  /\ worker' = "broken"
  /\ UNCHANGED <<mainVars, toWorker, toMain>>

\* Faulty variant: nothing found, nothing posted.
AnswerIfFound ==
  /\ toWorker # <<>> /\ worker = "ready" /\ Head(toWorker).kind = "query"
  /\ toWorker' = Tail(toWorker)
  /\ LET text == Head(toWorker).query
     IN toMain' = IF Unanswered(text) \/ Found(text) = {} THEN toMain
                  ELSE Append(toMain, ResultsMsg(Found(text)))
  /\ UNCHANGED <<mainVars, worker>>

\* onmessage: search() answers a query, unless it is empty or lunr throws.
Answer ==
  /\ toWorker # <<>> /\ worker = "ready" /\ Head(toWorker).kind = "query"
  /\ toWorker' = Tail(toWorker)
  /\ LET text == Head(toWorker).query
     IN toMain' = IF Unanswered(text) THEN toMain ELSE Append(toMain, ResultsMsg(Found(text)))
  /\ UNCHANGED <<mainVars, worker>>

Next ==
  \/ \E q \in DOMAIN site.texts : Type(q) \/ Paste(q)
  \/ OnWorkerMessage
  \/ StartLoading \/ Loaded \/ LoadFails \/ Answer

Spec == Init /\ [][Next]_vars

\* Both event loops go on; loading ends in one way or the other.
FairSpec ==
  /\ Spec
  /\ WF_vars(OnWorkerMessage)
  /\ WF_vars(StartLoading \/ Loaded \/ LoadFails)
  /\ WF_vars(Answer)

-----------------------------------------------------------------------------
Settled == toWorker = <<>> /\ toMain = <<>>
Answered(q) == q # NoQuery /\ ~Short(q) /\ ~Unanswered(q)

(* Once all messages are handled, the results shown are those of the last  *)
(* query that was searched for, whatever was typed before it and while     *)
(* earlier answers were on their way, and the query in the address was     *)
(* searched for.                                                           *)
LatestQueryIsShown ==
  Settled /\ worker = "ready" =>
    /\ Answered(asked) => shown = Found(asked)
    /\ address # NoQuery => asked # NoQuery

(* What is searched for is answered: again and again, and so when the user *)
(* stops typing, the results shown are those of the last query.            *)
QueriesAreAnswered == []<>(Answered(asked) => shown = Found(asked))

=============================================================================
