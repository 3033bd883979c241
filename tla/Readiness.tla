----------------------------- MODULE Readiness -----------------------------
(***************************************************************************)
(* GET /health/ready (app/api/routes/health.py): asyncio.gather runs the   *)
(* checks of app/api/deps.py concurrently, their results come back in the  *)
(* order of the arguments whatever the order in which they complete, and   *)
(* the first exception of a check is raised out of gather at once, while   *)
(* the other checks run on.  One probe.                                    *)
(***************************************************************************)
EXTENDS Naturals, Sequences

Names == <<"postgres", "redis", "litellm">>     \* names, in the order of gather
Check == {Names[i] : i \in DOMAIN Names}

VARIABLES
    service,        \* how each service behaves
    check,          \* where each check is
    result,         \* what it returned
    finished,       \* history: the checks in the order they completed
    response        \* what the route answered, or "none"

vars == <<service, check, result, finished, response>>

NoResponse == [status |-> 0, checks |-> <<>>]
InternalServerError == [status |-> 500, checks |-> <<>>]

Init ==
    /\ service \in [Check -> {"up", "slow", "broken"}]
    /\ check = [c \in Check |-> "asking"]
    /\ result = [c \in Check |-> "none"]
    /\ finished = <<>>
    /\ response = NoResponse

-----------------------------------------------------------------------------
(* A slow service ends as a TimeoutError or as the error the client        *)
(* library makes of its own timeout.                                       *)
Outcome(c) ==
    CASE service[c] = "up"     -> {"ok"}
      [] service[c] = "slow"   -> {"timeout", "connection failed"}
      [] service[c] = "broken" -> {"connection failed"}

Return(c, r) ==
    /\ check' = [check EXCEPT ![c] = "returned"]
    /\ result' = [result EXCEPT ![c] = r]
    /\ finished' = Append(finished, c)
    /\ UNCHANGED <<service, response>>

\* Mutated form: the call of a check has no timeout.
Asked_NoTimeout(c) ==
    /\ check[c] = "asking" /\ c # "redis" /\ service[c] # "slow"
    /\ \E r \in Outcome(c) : Return(c, r)

(* postgres and litellm close what they opened inside the try. *)
Asked(c) ==
    /\ check[c] = "asking" /\ c # "redis"
    /\ \E r \in Outcome(c) : Return(c, r)

(* redis closes its client in the finally, awaiting it. *)
Pinged ==
    /\ check["redis"] = "asking"
    /\ \E r \in Outcome("redis") :
        /\ check' = [check EXCEPT !["redis"] = "closing"]
        /\ result' = [result EXCEPT !["redis"] = r]
    /\ UNCHANGED <<service, finished, response>>

Closed ==
    /\ check["redis"] = "closing"
    /\ Return("redis", result["redis"])

(* Reading the service's URL raises before the try is entered: redis and   *)
(* litellm build their client or its address there.                        *)
UrlRaises(c) ==
    /\ check[c] = "asking" /\ c # "postgres"
    /\ check' = [check EXCEPT ![c] = "raised"]
    /\ UNCHANGED <<service, result, finished, response>>

(* Closing the client may itself raise, whatever the ping gave, and no     *)
(* except clause of the check is left to catch it.                         *)
CloseRaises ==
    /\ check["redis"] = "closing"
    /\ check' = [check EXCEPT !["redis"] = "raised"]
    /\ UNCHANGED <<service, result, finished, response>>

-----------------------------------------------------------------------------
\* Mutated form: the results in the order in which the checks completed.
Results_AsCompleted == [i \in DOMAIN Names |-> result[finished[i]]]

Results == [i \in DOMAIN Names |-> result[Names[i]]]

Respond ==
    /\ response = NoResponse
    /\ \A c \in Check : check[c] = "returned"
    /\ response' = [
            status |-> IF \A i \in DOMAIN Names : Results[i] = "ok" THEN 200 ELSE 503,
            checks |-> [i \in DOMAIN Names |-> <<Names[i], Results[i]>>]]
    /\ UNCHANGED <<service, check, result, finished>>

Crash ==
    /\ response = NoResponse
    /\ \E c \in Check : check[c] = "raised"
    /\ response' = InternalServerError
    /\ UNCHANGED <<service, check, result, finished>>

Next ==
    \/ \E c \in Check : Asked(c) \/ UrlRaises(c)
    \/ Pinged \/ Closed \/ CloseRaises
    \/ Respond \/ Crash

Spec == Init /\ [][Next]_vars

(* Every call of a check has a timeout: libpq's connect_timeout, redis's   *)
(* socket timeouts, httpx's timeout.                                       *)
FairSpec ==
    /\ Spec
    /\ \A c \in Check : WF_vars(Asked(c))
    /\ WF_vars(Pinged) /\ WF_vars(Closed \/ CloseRaises)
    /\ WF_vars(Respond \/ Crash)

-----------------------------------------------------------------------------
(* The row the report shows under a service's name is that service's own,  *)
(* whatever the order in which the checks completed, and the report says   *)
(* 200 only when every service is up.                                      *)
ReportIsTheServices ==
    response.status \in {200, 503} =>
        /\ \A i \in DOMAIN response.checks :
            LET row == response.checks[i]
            IN  row[2] = "ok" <=> service[row[1]] = "up"
        /\ response.status = 200 <=> \A c \in Check : service[c] = "up"

(* A probe is answered: no slow or broken service holds the route.         *)
ProbeIsAnswered == <>(response # NoResponse)
=============================================================================
