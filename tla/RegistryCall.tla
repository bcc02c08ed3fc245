----------------------------- MODULE RegistryCall -----------------------------
(***************************************************************************)
(* MultiRegistryResolver::resolve_priority over a Kubernetes registry and, *)
(* behind it, a Nacos registry, both in detail: one request whose call     *)
(* asks the first and falls through to the second, beside other requests,  *)
(* of which only their queries to Nacos count, and the refresh task.  The  *)
(* Nacos server lists instances of the service all the time.               *)
(***************************************************************************)
EXTENDS K8sDiscovery, NacosToken

CONSTANTS Caller,   \* the request whose call is followed
          MaxValues \* bound: values of the three objects during one call

ASSUME CallAssumption == Caller \in Callers /\ MaxValues \in Nat

callVars == <<k8sVars, nacosVars>>

CallInit == K8sInit /\ NacosInit

Resolve ==
  /\ step["refresh"] # "off" /\ step[Caller] = "idle" /\ asking = "idle"
  /\ Start
  /\ answer' = [answer EXCEPT ![Caller] = "none"]
  /\ UNCHANGED <<token, step, sent, pending, mood>>

AskKubernetes == K8sCall /\ UNCHANGED nacosVars

WriteObject ==
  /\ \E s \in Services : Write("service", s)
     \/ \E c \in Cores : Write("core", c)
     \/ \E l \in SliceLists : Write("slices", l)
  /\ Cardinality(moments'.service) + Cardinality(moments'.core) + Cardinality(moments'.slices)
       <= MaxValues
  /\ UNCHANGED nacosVars

HasInstances == asking = "ok" /\ found # {}

UseFound ==
  /\ HasInstances /\ Done
  /\ answer' = [answer EXCEPT ![Caller] = "Ok"]
  /\ UNCHANGED <<token, step, sent, pending, mood>>

\* Empty or failed: the next registry.
FallThrough == asking \in {"ok", "failed"} /\ ~HasInstances /\ Ask(Caller) /\ Done

GiveUp == asking # "idle" /\ Done /\ UNCHANGED nacosVars

Others == Callers \ {Caller}

FollowedCall == AskKubernetes \/ UseFound \/ FallThrough \/ (Query(Caller) /\ UNCHANGED k8sVars)

CallNext ==
  \/ Resolve \/ FollowedCall \/ WriteObject \/ GiveUp
  \/ /\ \/ New \/ Refresh \/ Falter \/ Expire
        \/ Abandon(Caller)
        \/ \E c \in Others : Ask(c) \/ Query(c) \/ Abandon(c)
     /\ UNCHANGED k8sVars

\* Every HTTP call ends, by the client's timeout if need be; requests may come and
\* leave, and the refresh task may never tick again.
CallSpec ==
  /\ CallInit /\ [][CallNext]_callVars
  /\ WF_callVars(FollowedCall)

-----------------------------------------------------------------------------
(* Properties *)

\* From now on the Nacos server is well and no token runs out.
Calm == [][mood = "well" /\ mood' = "well" /\ ~Expire]_callVars

\* However tokens ran out, logins failed or overtook each other before: once Nacos is
\* well, calls end and only finitely many more fail, whatever the cluster and its API
\* server do and whether or not the refresh task ever runs. (An answer to an older
\* login may still be stored over a newer token and fail one more call.)
CallsRecover ==
  <>Calm => /\ []<>(asking = "idle" /\ step[Caller] = "idle")
            /\ <>[][step[Caller] # "idle" /\ step'[Caller] = "idle" =>
                      answer'[Caller] \notin Failures]_callVars
=============================================================================
