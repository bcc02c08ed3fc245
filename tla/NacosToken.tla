------------------------------ MODULE NacosToken ------------------------------
(***************************************************************************)
(* registry/nacos.rs: one NacosRegistry with credentials.  Queries of many *)
(* requests and the refresh task share one token slot; each reads it,      *)
(* sends, waits and stores without holding anything, so the answer to an   *)
(* older login may be stored over a newer token.  Of a token only one      *)
(* thing matters, whether the server still takes it.                       *)
(***************************************************************************)
EXTENDS Naturals, FiniteSets

CONSTANT Callers \* the requests that ask this registry

ASSUME CallersAssumption == IsFiniteSet(Callers) /\ Callers \cap {"refresh", "slot"} = {}

VARIABLES token,   \* the slot: "none", "live" or "dead"
          step,    \* where each query is; of the refresh task: "off", "waiting", "login"
          sent,    \* the token a query has sent
          pending, \* the token in the answer to a login that is under way
          answer,  \* what the last call of each caller returned
          mood     \* of the server: "well" or "ill"

nacosVars == <<token, step, sent, pending, answer, mood>>

Tasks == Callers \cup {"refresh"}
Tokens == {"none", "live", "dead"}

\* The outcomes of a query.
Failures == {"AuthFailed", "Http", "UnexpectedResponse"}
Answers == {"none", "Ok"} \cup Failures

NacosInit ==
  /\ token = "none"
  /\ step = [t \in Tasks |-> IF t = "refresh" THEN "off" ELSE "idle"]
  /\ sent = [c \in Callers |-> "none"]
  /\ pending = [t \in Tasks |-> "none"]
  /\ answer = [c \in Callers |-> "none"]
  /\ mood = "well"

Goes(t, to) == step' = [step EXCEPT ![t] = to]

-----------------------------------------------------------------------------
(* The server *)

Falter == mood' = (IF mood = "well" THEN "ill" ELSE "well") /\ UNCHANGED <<token, step, sent, pending, answer>>

\* Tokens run out: of the live ones, in the slot, in a query or in the answer to a
\* login, some are worth nothing from now on.
Live ==
  {t \in Tasks : pending[t] = "live"} \cup {c \in Callers : sent[c] = "live"}
    \cup IF token = "live" THEN {"slot"} ELSE {}

Aged(t, gone, place) == IF t = "live" /\ place \in gone THEN "dead" ELSE t

Expire ==
  \E gone \in (SUBSET Live) \ {{}} :
    /\ token' = Aged(token, gone, "slot")
    /\ pending' = [t \in Tasks |-> Aged(pending[t], gone, t)]
    /\ sent' = [c \in Callers |-> Aged(sent[c], gone, c)]
    /\ UNCHANGED <<step, answer, mood>>

\* A login the server takes; its answer is on the way.
Issue(t) ==
  /\ step[t] = "login" /\ pending[t] = "none"
  /\ pending' = [pending EXCEPT ![t] = "live"]
  /\ UNCHANGED <<token, step, sent, answer, mood>>

\* Answers to a login that bring no token: an ill server may give any of them.
NoToken(why) == mood = "ill" /\ why \in Failures

-----------------------------------------------------------------------------
(* Mutated form, for checking that the properties can fail. *)

\* A refused query fails: the refresh task will see to the token.
Refused_waits(c) == Goes(c, "idle") /\ answer' = [answer EXCEPT ![c] = "UnexpectedResponse"]

-----------------------------------------------------------------------------
(* authenticate, of a query or of new *)

Authenticated(t, to) ==
  /\ step[t] = "login" /\ pending[t] # "none"
  /\ token' = pending[t]
  /\ pending' = [pending EXCEPT ![t] = "none"]
  /\ Goes(t, to)

\* new: without a first token there is no registry, and the start ends.
New ==
  /\ step["refresh"] = "off"
  /\ token' = "live"
  /\ Goes("refresh", "waiting")
  /\ UNCHANGED <<sent, pending, answer, mood>>

-----------------------------------------------------------------------------
(* get_healthy_instances *)

Return(c, how) == Goes(c, "idle") /\ answer' = [answer EXCEPT ![c] = how]

\* current_token and the request that bears it, if it is not empty.
Ask(c) ==
  /\ step["refresh"] # "off" /\ step[c] = "idle"
  /\ sent' = [sent EXCEPT ![c] = token]
  /\ Goes(c, "asked")
  /\ UNCHANGED <<token, pending, answer, mood>>

\* 401 or 403: authenticate and once more.
Refused(c) == Goes(c, "login") /\ UNCHANGED answer

\* A token that is worth nothing makes it an unexpected status.
ParseInstances(c) ==
  \/ sent[c] = "live" /\ Return(c, "Ok")
  \/ (sent[c] # "live" \/ mood = "ill") /\ Return(c, "UnexpectedResponse")

\* The answer to the first request.
Answered(c) ==
  /\ step[c] = "asked"
  /\ \/ (sent[c] # "live" \/ mood = "ill") /\ Refused(c)
     \/ (sent[c] = "live" \/ mood = "ill") /\ ParseInstances(c)
     \/ mood = "ill" /\ Return(c, "Http")
  /\ sent' = [sent EXCEPT ![c] = "none"]
  /\ UNCHANGED <<token, pending, mood>>

LoginFails(c) ==
  /\ step[c] = "login"
  /\ \E why \in Failures : NoToken(why) /\ Return(c, why)
  /\ pending' = [pending EXCEPT ![c] = "none"]
  /\ UNCHANGED <<token, sent, mood>>

LoggedIn(c) == Authenticated(c, "renewed") /\ UNCHANGED <<sent, answer, mood>>

\* current_token again: another task may have stored between.
AskAgain(c) ==
  /\ step[c] = "renewed"
  /\ sent' = [sent EXCEPT ![c] = token]
  /\ Goes(c, "asked again")
  /\ UNCHANGED <<token, pending, answer, mood>>

\* Whatever it is, the second answer is the last.
AnsweredAgain(c) ==
  /\ step[c] = "asked again"
  /\ ParseInstances(c) \/ (mood = "ill" /\ Return(c, "Http"))
  /\ sent' = [sent EXCEPT ![c] = "none"]
  /\ UNCHANGED <<token, pending, mood>>

\* The request is dropped with its client.
Abandon(c) ==
  /\ step[c] # "idle"
  /\ Goes(c, "idle")
  /\ sent' = [sent EXCEPT ![c] = "none"]
  /\ pending' = [pending EXCEPT ![c] = "none"]
  /\ answer' = [answer EXCEPT ![c] = "none"]
  /\ UNCHANGED <<token, mood>>

Query(c) == Answered(c) \/ Issue(c) \/ LoginFails(c) \/ LoggedIn(c) \/ AskAgain(c) \/ AnsweredAgain(c)

-----------------------------------------------------------------------------
(* start_token_refresh_task *)

Tick ==
  /\ step["refresh"] = "waiting"
  /\ Goes("refresh", "login")
  /\ UNCHANGED <<token, sent, pending, answer, mood>>

Refreshed == Authenticated("refresh", "waiting") /\ UNCHANGED <<sent, answer, mood>>

\* Logged, and left to the next tick.
RefreshFails ==
  /\ step["refresh"] = "login"
  /\ \E why \in Failures : NoToken(why)
  /\ pending' = [pending EXCEPT !["refresh"] = "none"]
  /\ Goes("refresh", "waiting")
  /\ UNCHANGED <<token, sent, answer, mood>>

Refresh == Tick \/ Issue("refresh") \/ Refreshed \/ RefreshFails
=============================================================================
