------------------------------ MODULE HttpClient ------------------------------
(***************************************************************************)
(* CHttpClient: one request at a time, handed to a worker thread and back  *)
(* by two flags that nothing guards.                                       *)
(*                                                                         *)
(* The main thread is Lua's: it polls update(), whose callback may send    *)
(* the next request.  Neither the flags nor the strings are atomic: a      *)
(* string that is being assigned may be read half-way (Torn), and what the *)
(* worker stores at its end may become visible in any order, unless the    *)
(* machine keeps it (in_order).                                            *)
(***************************************************************************)
EXTENDS Naturals, FiniteSets

CONSTANTS
    Requests,           \* a request's URL, by which its parameters are known, too
    Empty, Torn

ASSUME RequestAssumption == Empty \notin Requests /\ Torn \notin Requests

Strings == Requests \cup {Empty, Torn}
Stores == {"m_errorCode", "m_isHaveNewData", "m_sendingMsg"}

VARIABLES
    m_sendingMsg, m_isHaveNewData,
    m_curUrl,
    m_errorCode,        \* the URL whose result it is
    m_data,             \* the URLs whose answers are in it
    main,               \* where the main thread is
    nested,             \* it sends from HttpBackCall
    request,            \* that it sends
    worker, posted,     \* where the worker is, and the URL that it posts to
    stores,             \* those of its stores that are not visible yet
    in_order,
    owed                \* a request was accepted and HttpBackCall not called since

sending == <<nested, request>>
vars == <<m_sendingMsg, m_isHaveNewData, m_curUrl, m_errorCode, m_data,
          main, sending, worker, posted, stores, in_order, owed>>

Init ==
    /\ m_sendingMsg = FALSE /\ m_isHaveNewData = FALSE
    /\ m_curUrl = Empty
    /\ m_errorCode = Empty /\ m_data = {}
    /\ main = "idle" /\ nested = FALSE /\ request = Empty
    /\ worker = "idle" /\ posted = Empty /\ stores = {}
    /\ in_order \in BOOLEAN
    /\ owed = FALSE

-----------------------------------------------------------------------------
(* The main thread.                                                        *)

\* sendHttpRequest, if it does not ignore the request; from HttpBackCall, too.
Send ==
    /\ main \in {"idle", "callback"} /\ ~m_sendingMsg /\ ~m_isHaveNewData
    /\ m_sendingMsg' = TRUE /\ owed' = TRUE
    /\ request' \in Requests
    /\ nested' = (main = "callback") /\ main' = "url"
    /\ UNCHANGED <<m_isHaveNewData, m_curUrl, m_errorCode, m_data,
                   worker, posted, stores, in_order>>

\* The rest of sendHttpRequest.
SetUrl ==
    /\ main \in {"url", "url_half"}
    /\ IF main = "url"
       THEN m_curUrl' = Torn /\ main' = "url_half" /\ UNCHANGED sending
       ELSE /\ m_curUrl' = request /\ main' = IF nested THEN "callback" ELSE "idle"
            /\ nested' = FALSE /\ request' = Empty
    /\ UNCHANGED <<m_sendingMsg, m_isHaveNewData, m_errorCode, m_data,
                   worker, posted, stores, in_order, owed>>

\* update(), up to the callback.
Update ==
    /\ main = "idle" /\ m_isHaveNewData
    /\ m_isHaveNewData' = FALSE /\ main' = "report"
    /\ UNCHANGED <<m_sendingMsg, m_curUrl, m_errorCode, m_data, sending,
                   worker, posted, stores, in_order, owed>>

Report ==
    /\ main = "report" /\ main' = "callback"
    /\ owed' = FALSE
    /\ UNCHANGED <<m_sendingMsg, m_isHaveNewData, m_curUrl, m_errorCode, m_data, sending,
                   worker, posted, stores, in_order>>

\* HttpBackCall returns, and m_curUrl is emptied.
EndCallback ==
    /\ main = "callback" /\ main' = "wipe"
    /\ m_curUrl' = Empty
    /\ UNCHANGED <<m_sendingMsg, m_isHaveNewData, m_errorCode, m_data, sending,
                   worker, posted, stores, in_order, owed>>

\* Mutant: the answer is left in m_data, which the next is appended to.
EndUpdateKeepsData ==
    /\ main = "wipe" /\ main' = "idle"
    /\ UNCHANGED <<m_sendingMsg, m_isHaveNewData, m_curUrl, m_errorCode, m_data, sending,
                   worker, posted, stores, in_order, owed>>

EndUpdate ==
    /\ main = "wipe" /\ main' = "idle"
    /\ m_data' = {}
    /\ UNCHANGED <<m_sendingMsg, m_isHaveNewData, m_curUrl, m_errorCode, sending,
                   worker, posted, stores, in_order, owed>>

-----------------------------------------------------------------------------
(* The worker.                                                             *)

\* Mutant: it posts each time that it wakes up.
TakeAnyway ==
    /\ worker = "idle" /\ stores = {}
    /\ worker' = "posting" /\ posted' = m_curUrl
    /\ UNCHANGED <<m_sendingMsg, m_isHaveNewData, m_curUrl, m_errorCode, m_data, main,
                   sending, stores, in_order, owed>>

\* It wakes up, and takes what it finds.
Take ==
    /\ worker = "idle" /\ stores = {} /\ m_sendingMsg
    /\ worker' = "posting" /\ posted' = m_curUrl
    /\ UNCHANGED <<m_sendingMsg, m_isHaveNewData, m_curUrl, m_errorCode, m_data, main,
                   sending, stores, in_order, owed>>

\* UrlPostRequire: without a URL nothing is posted and the result is 0; else the answer
\* is appended to m_data, all of it or some or none, before there is a result.
Append ==
    /\ worker = "posting" /\ posted # Empty
    /\ m_data' = m_data \cup {posted}
    /\ UNCHANGED <<m_sendingMsg, m_isHaveNewData, m_curUrl, m_errorCode, main, sending,
                   worker, posted, stores, in_order, owed>>

\* Mutant: the flag of the answer is only raised for one.
PostedWithData ==
    /\ worker = "posting" /\ worker' = "idle"
    /\ stores' = Stores \ (IF m_data = {} THEN {"m_isHaveNewData"} ELSE {})
    /\ UNCHANGED <<m_sendingMsg, m_isHaveNewData, m_curUrl, m_errorCode, m_data, main,
                   sending, posted, in_order, owed>>

Posted ==
    /\ worker = "posting" /\ worker' = "idle"
    /\ stores' = Stores
    /\ UNCHANGED <<m_sendingMsg, m_isHaveNewData, m_curUrl, m_errorCode, m_data, main,
                   sending, posted, in_order, owed>>

\* Mutant: the next request is let in before the answer is announced.
EarlierSwapped ==
    [m_errorCode |-> {}, m_sendingMsg |-> {"m_errorCode"},
     m_isHaveNewData |-> {"m_errorCode", "m_sendingMsg"}]

\* The stores that come before one.
Earlier ==
    [m_errorCode |-> {}, m_isHaveNewData |-> {"m_errorCode"},
     m_sendingMsg |-> {"m_errorCode", "m_isHaveNewData"}]

\* A store of the worker becomes visible.
Store ==
    \E s \in stores :
        /\ in_order => Earlier[s] \cap stores = {}
        /\ stores' = stores \ {s}
        /\ m_errorCode' = IF s = "m_errorCode" THEN posted ELSE m_errorCode
        /\ m_isHaveNewData' = (m_isHaveNewData \/ s = "m_isHaveNewData")
        /\ m_sendingMsg' = (m_sendingMsg /\ s # "m_sendingMsg")
        /\ UNCHANGED <<m_curUrl, m_data, main, sending, worker, posted, in_order, owed>>

-----------------------------------------------------------------------------

Main == SetUrl \/ Update \/ Report \/ EndCallback \/ EndUpdate
Worker == Take \/ Posted \/ Store
Next == Send \/ Main \/ Worker \/ Append

\* The game calls update in each frame, HttpBackCall returns, the worker's thread runs
\* and a post takes no more than the 30 seconds of CURLOPT_TIMEOUT.
Spec == Init /\ [][Next]_vars /\ WF_vars(Main) /\ WF_vars(Worker)

-----------------------------------------------------------------------------
(* Properties.                                                             *)

\* Every variable has its type, and a post is made for a request that was accepted.
TypeOK ==
    /\ {m_sendingMsg, m_isHaveNewData, nested, in_order, owed} \subseteq BOOLEAN
    /\ {m_curUrl, m_errorCode, posted} \cup m_data \subseteq Strings
    /\ request \in Requests \cup {Empty}
    /\ main \in {"idle", "url", "url_half", "report", "callback", "wipe"}
    /\ worker \in {"idle", "posting"} /\ (worker = "posting" => m_sendingMsg)
    /\ stores \subseteq Stores

\* The two flags account for the request that was accepted, until it is answered, and no
\* answer is announced without one.
OneAnswer ==
    in_order =>
        /\ owed => m_sendingMsg \/ m_isHaveNewData \/ main = "report"
        /\ m_isHaveNewData => owed

\* What is reported for a URL is never another request's answer.
NoCrossTalk ==
    in_order /\ main = "report" /\ m_curUrl \in Requests =>
        {m_errorCode} \cup m_data \subseteq {m_curUrl, Empty, Torn}

\* However the stores are seen, a request that was accepted leads to a call of
\* HttpBackCall.
Answered == main = "url" ~> main = "callback" /\ ~owed

===============================================================================
