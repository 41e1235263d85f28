--------------------------- MODULE HttpClient_proofs ---------------------------
(***************************************************************************)
(* HttpClient: as long as the worker's stores are seen in their order, the *)
(* two flags account for each request, and an answer is reported for the   *)
(* URL that it belongs to, for any set of requests.                        *)
(***************************************************************************)
EXTENDS HttpClient, TLAPS

\* The worker has a request that it has not finished with.
Busy == worker = "posting" \/ "m_errorCode" \in stores

\* Its result is there, or is about to be announced.
HasResult == \/ m_isHaveNewData \/ main = "report"
             \/ "m_isHaveNewData" \in stores /\ "m_errorCode" \notin stores

\* Where each flag is in the course of a request.
FlagsOK ==
    /\ "m_errorCode" \in stores => "m_isHaveNewData" \in stores
    /\ "m_isHaveNewData" \in stores => "m_sendingMsg" \in stores
    /\ stores # {} => m_sendingMsg
    /\ m_sendingMsg /\ stores = {} => owed /\ ~m_isHaveNewData /\ main # "report"
    /\ "m_isHaveNewData" \in stores => owed /\ ~m_isHaveNewData /\ main # "report"
    /\ m_isHaveNewData => owed /\ main # "report"
    /\ "m_sendingMsg" \in stores /\ "m_isHaveNewData" \notin stores /\ owed =>
           m_isHaveNewData \/ main = "report"
    /\ main \in {"report", "url", "url_half"} => owed
    /\ owed => m_sendingMsg \/ m_isHaveNewData \/ main = "report"

\* Where m_curUrl is.
UrlOK ==
    /\ nested => main \in {"url", "url_half"}
    /\ main = "url_half" => m_curUrl = Torn
    /\ main = "url" /\ ~nested => m_curUrl = Empty
    /\ main = "wipe" => m_curUrl = Empty
    /\ main = "idle" /\ ~owed => m_curUrl = Empty /\ m_data = {}

\* A request that was not sent from HttpBackCall keeps its URL.
Plain == \/ main \in {"url", "url_half"} /\ ~nested
         \/ main \in {"idle", "report"} /\ m_curUrl \in Requests

Url == IF main \in {"url", "url_half"} THEN request ELSE m_curUrl

\* What the worker does for it is done for its URL, or for what was there before.
DataOK ==
    Plain => /\ m_data \subseteq {Url, Empty, Torn}
             /\ Busy => posted \in {Url, Empty, Torn}
             /\ HasResult => m_errorCode \in {Url, Empty, Torn}

Inv ==
    /\ TypeOK
    /\ worker = "posting" => stores = {}
    /\ in_order => FlagsOK /\ UrlOK /\ DataOK

-----------------------------------------------------------------------------

LEMMA TypeStep ==
    ASSUME Inv, [Next]_vars
    PROVE  TypeOK' /\ (worker = "posting" => stores = {})'
<1> USE DEF TypeOK, Strings, Stores, sending
<1>1. CASE Send
    BY <1>1 DEF Inv, Send
<1>2. CASE SetUrl
    BY <1>2 DEF Inv, SetUrl
<1>3. CASE Update \/ Report \/ EndCallback \/ EndUpdate
    BY <1>3 DEF Inv, Update, Report, EndCallback, EndUpdate
<1>4. CASE Take \/ Posted \/ Append
    BY <1>4 DEF Inv, Take, Posted, Append
<1>5. CASE Store
    BY <1>5 DEF Inv, Store
<1>6. CASE UNCHANGED vars
    BY <1>6 DEF Inv, vars
<1> QED
    BY <1>1, <1>2, <1>3, <1>4, <1>5, <1>6 DEF Next, Main, Worker

LEMMA FlagsStep ==
    ASSUME Inv, [Next]_vars, in_order
    PROVE  FlagsOK'
<1> USE DEF Stores, FlagsOK
<1>1. CASE Send
    BY <1>1 DEF Inv, Send
<1>2. CASE SetUrl
    BY <1>2 DEF Inv, SetUrl
<1>3. CASE Update
    BY <1>3 DEF Inv, Update
<1>4. CASE Report
    BY <1>4 DEF Inv, Report
<1>5. CASE EndCallback
    BY <1>5 DEF Inv, EndCallback
<1>6. CASE EndUpdate
    BY <1>6 DEF Inv, EndUpdate
<1>7. CASE Take
    BY <1>7 DEF Inv, Take
<1>8. CASE Append
    BY <1>8 DEF Inv, Append
<1>9. CASE Posted
    BY <1>9 DEF Inv, Posted, TypeOK
<1>10. CASE Store
    <2> USE DEF Inv, TypeOK, Earlier
    <2>1. PICK s \in stores :
            /\ Earlier[s] \cap stores = {}
            /\ stores' = stores \ {s}
            /\ m_isHaveNewData' = (m_isHaveNewData \/ s = "m_isHaveNewData")
            /\ m_sendingMsg' = (m_sendingMsg /\ s # "m_sendingMsg")
            /\ UNCHANGED <<main, owed>>
        BY <1>10 DEF Store
    <2>2. CASE s = "m_errorCode"
        BY <2>1, <2>2
    <2>3. CASE s = "m_isHaveNewData"
        BY <2>1, <2>3
    <2>4. CASE s = "m_sendingMsg"
        BY <2>1, <2>4
    <2> QED
        BY <2>1, <2>2, <2>3, <2>4
<1>11. CASE UNCHANGED vars
    BY <1>11 DEF Inv, vars
<1> QED
    BY <1>1, <1>2, <1>3, <1>4, <1>5, <1>6, <1>7, <1>8, <1>9, <1>10, <1>11 DEF Next, Main, Worker

LEMMA UrlStep ==
    ASSUME Inv, [Next]_vars, in_order
    PROVE  UrlOK'
<1> USE DEF Strings, Stores, sending, FlagsOK, UrlOK
<1>1. CASE Send
    BY <1>1 DEF Inv, Send
<1>2. CASE SetUrl
    BY <1>2 DEF Inv, SetUrl
<1>3. CASE Update
    BY <1>3 DEF Inv, Update
<1>4. CASE Report
    BY <1>4 DEF Inv, Report
<1>5. CASE EndCallback
    BY <1>5 DEF Inv, EndCallback
<1>6. CASE EndUpdate
    BY <1>6 DEF Inv, EndUpdate
<1>7. CASE Take
    BY <1>7 DEF Inv, Take
<1>8. CASE Append
    BY <1>8 DEF Inv, Append, TypeOK
<1>9. CASE Posted
    BY <1>9 DEF Inv, Posted
<1>10. CASE Store
    BY <1>10 DEF Inv, Store, Earlier
<1>11. CASE UNCHANGED vars
    BY <1>11 DEF Inv, vars
<1> QED
    BY <1>1, <1>2, <1>3, <1>4, <1>5, <1>6, <1>7, <1>8, <1>9, <1>10, <1>11 DEF Next, Main, Worker

LEMMA DataStep ==
    ASSUME Inv, [Next]_vars, in_order
    PROVE  DataOK'
<1> USE DEF TypeOK, Strings, Stores, sending, FlagsOK, UrlOK, DataOK, Plain, Url, Busy, HasResult
<1>1. CASE Send
    BY <1>1 DEF Inv, Send
<1>2. CASE SetUrl
    BY <1>2 DEF Inv, SetUrl
<1>3. CASE Update
    BY <1>3 DEF Inv, Update
<1>4. CASE Report
    BY <1>4 DEF Inv, Report
<1>5. CASE EndCallback
    BY <1>5 DEF Inv, EndCallback
<1>6. CASE EndUpdate
    <2>1. main' = "idle" /\ m_curUrl' = Empty /\ ~nested
        BY <1>6 DEF Inv, EndUpdate
    <2>2. ~Plain'
        BY <2>1, RequestAssumption
    <2> QED
        BY <2>2
<1>7. CASE Take
    BY <1>7 DEF Inv, Take
<1>8. CASE Append
    BY <1>8 DEF Inv, Append
<1>9. CASE Posted
    BY <1>9 DEF Inv, Posted
<1>10. CASE Store
    BY <1>10 DEF Inv, Store, Earlier
<1>11. CASE UNCHANGED vars
    BY <1>11 DEF Inv, vars
<1> QED
    BY <1>1, <1>2, <1>3, <1>4, <1>5, <1>6, <1>7, <1>8, <1>9, <1>10, <1>11 DEF Next, Main, Worker

LEMMA InvInit ==
    ASSUME Init
    PROVE  Inv
<1> USE DEF Init
<1>1. TypeOK
    BY DEF TypeOK, Strings, Stores
<1>2. FlagsOK /\ UrlOK
    BY DEF FlagsOK, UrlOK
<1>3. DataOK
    BY RequestAssumption DEF DataOK, Plain
<1> QED
    BY <1>1, <1>2, <1>3 DEF Inv

LEMMA InvStep ==
    ASSUME Inv, [Next]_vars
    PROVE  Inv'
<1>1. in_order' = in_order
    BY DEF Next, Main, Worker, Send, SetUrl, Update, Report, EndCallback, EndUpdate,
           Take, Posted, Store, Append, vars
<1>2. TypeOK' /\ (worker = "posting" => stores = {})'
    BY TypeStep
<1>3. in_order => FlagsOK' /\ UrlOK' /\ DataOK'
    BY FlagsStep, UrlStep, DataStep
<1> QED
    BY <1>1, <1>2, <1>3 DEF Inv

LEMMA Invariance == Spec => []Inv
<1> QED
    BY InvInit, InvStep, PTL DEF Spec

\* The flags, strings and positions of both threads keep their types, and the worker posts
\* only for a request that sendHttpRequest has accepted.
THEOREM TypeCorrect == Spec => []TypeOK
<1>1. Inv => TypeOK
    BY DEF Inv
<1> QED
    BY <1>1, Invariance, PTL

\* As long as the worker's stores are seen in their order, m_sendingMsg and m_isHaveNewData
\* account for each request until HttpBackCall, and announce no answer without one.
THEOREM OneAnswerHolds == Spec => []OneAnswer
<1>1. Inv => OneAnswer
    BY DEF Inv, FlagsOK, OneAnswer
<1> QED
    BY <1>1, Invariance, PTL

\* As long as the worker's stores are seen in their order, update() never reports one
\* request's result or data for the URL of another, although it wipes and the worker reads
\* m_curUrl without a lock.
THEOREM NoCrossTalkHolds == Spec => []NoCrossTalk
<1>1. Inv => NoCrossTalk
    <2>1. SUFFICES ASSUME Inv, in_order, main = "report", m_curUrl \in Requests
                   PROVE  {m_errorCode} \cup m_data \subseteq {m_curUrl, Empty, Torn}
        BY DEF NoCrossTalk
    <2>2. Plain /\ HasResult /\ Url = m_curUrl
        BY <2>1 DEF Plain, HasResult, Url
    <2> QED
        BY <2>1, <2>2 DEF Inv, DataOK
<1> QED
    BY <1>1, Invariance, PTL

================================================================================
