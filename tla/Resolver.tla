------------------------------ MODULE Resolver ------------------------------
(***************************************************************************)
(* registry/resolver.rs: one call of MultiRegistryResolver::resolve.       *)
(*                                                                         *)
(* The registries answer one after the other ("Priority") or in any order  *)
(* ("Merge"), each at a moment of its own, while what they hold changes    *)
(* and while they fail and recover.  The resolver keeps no state of its    *)
(* own between calls, so calls do not meet and one at a time is enough.    *)
(***************************************************************************)
EXTENDS Integers, Sequences, FiniteSets, SequencesExt

CONSTANTS Sources,    \* registries.sources: the priority of each, in file order
          Addresses,  \* host:port keys
          Listings,   \* what a registry may hold for the service
          Error,      \* the answer of a registry that fails
          None,       \* no answer yet
          MaxChanges  \* bound: changes of the registries during one call

ASSUME ResolverAssumption ==
  /\ Sources \in Seq(Nat)
  /\ Listings \subseteq Seq(Addresses)
  /\ Error \notin Listings
  /\ None \notin Listings \cup {Error}
  /\ MaxChanges \in Nat

Registry == 1..Len(Sources)
Answers == Listings \cup {Error}

\* A ServiceInstance: the address, with the metadata of the registry it is from.
Instance == [addr : Addresses, from : Registry]

VARIABLES query_mode, \* "Priority" or "Merge", fixed when the resolver is built
          holds,      \* what each registry would answer now
          stage,      \* "idle", "asking", "ok" or "failed"
          next,       \* place of the registry the loop of resolve_priority asks
          replies,    \* answers of this call, None before
          result,     \* the instances of an Ok
          changes,    \* changes of the registries during this call
          moments     \* history: everything a registry held during this call

resolverVars == <<query_mode, holds, stage, next, replies, result, changes, moments>>

-----------------------------------------------------------------------------
(* MultiRegistryResolver::new: a stable sort by priority. *)

Before(c, d) ==
  Sources[c] < Sources[d] \/ (Sources[c] = Sources[d] /\ c < d)

Place(c) == Cardinality({d \in Registry : Before(d, c)}) + 1

\* Mutated form: the list is left as the file has it.
At_unsorted(place) == place

\* The registry at a place of the sorted list.
At(place) == CHOOSE c \in Registry : Place(c) = place

ResolverInit ==
  /\ query_mode \in {"Priority", "Merge"}
  /\ holds \in [Registry -> Answers]
  /\ stage = "idle"
  /\ next = 1
  /\ replies = [c \in Registry |-> None]
  /\ result = <<>>
  /\ changes = 0
  /\ moments = [c \in Registry |-> {}]

-----------------------------------------------------------------------------
(* The call *)

HasInstances(answer) == answer # Error /\ answer # <<>>

Instances(c, answer) == [k \in 1..Len(answer) |-> [addr |-> answer[k], from |-> c]]

Ok(instances) == stage' = "ok" /\ result' = instances

Failed == stage' = "failed" /\ result' = <<>>

Start ==
  /\ stage = "idle"
  /\ next' = 1
  /\ replies' = [c \in Registry |-> None]
  /\ moments' = [c \in Registry |-> {holds[c]}]
  /\ changes' = 0
  /\ IF Sources = <<>> THEN Failed ELSE stage' = "asking" /\ UNCHANGED result
  /\ UNCHANGED <<query_mode, holds>>

\* Mutated form: an error is passed on with `?`, as in build_resolver.
AskNext_propagates ==
  /\ query_mode = "Priority"
  /\ stage = "asking"
  /\ LET c == At(next) IN
       /\ replies' = [replies EXCEPT ![c] = holds[c]]
       /\ IF HasInstances(holds[c])
          THEN Ok(Instances(c, holds[c])) /\ UNCHANGED next
          ELSE /\ next' = next + 1
               /\ IF holds[c] = Error \/ next = Len(Sources) THEN Failed
                  ELSE UNCHANGED <<stage, result>>
  /\ UNCHANGED <<query_mode, holds, changes, moments>>

\* One round of the loop of resolve_priority.
AskNext ==
  /\ query_mode = "Priority"
  /\ stage = "asking"
  /\ LET c == At(next) IN
       /\ replies' = [replies EXCEPT ![c] = holds[c]]
       /\ IF HasInstances(holds[c])
          THEN Ok(Instances(c, holds[c])) /\ UNCHANGED next
          ELSE /\ next' = next + 1
               /\ IF next = Len(Sources) THEN Failed ELSE UNCHANGED <<stage, result>>
  /\ UNCHANGED <<query_mode, holds, changes, moments>>

\* Mutated form: merged lists are only joined.
AddNew_joins(merged, inst) == Append(merged, inst)

\* seen.insert(key): the first entry of an address is kept.
AddNew(merged, inst) ==
  IF \E k \in 1..Len(merged) : merged[k].addr = inst.addr
  THEN merged ELSE Append(merged, inst)

\* The instances of all answers in the order of the futures of join_all.
Collected(answers) ==
  FlattenSeq([place \in Registry |->
    LET c == At(place) IN
    IF answers[c] = Error THEN <<>> ELSE Instances(c, answers[c])])

Merged(answers) == FoldLeft(AddNew, <<>>, Collected(answers))

\* Mutated form: the first list with instances is enough.
Reply_first_wins(c) ==
  /\ query_mode = "Merge"
  /\ stage = "asking"
  /\ replies[c] = None
  /\ replies' = [replies EXCEPT ![c] = holds[c]]
  /\ IF HasInstances(holds[c]) THEN Ok(Instances(c, holds[c]))
     ELSE IF \E d \in Registry : replies'[d] = None THEN UNCHANGED <<stage, result>>
     ELSE Failed
  /\ UNCHANGED <<query_mode, holds, next, changes, moments>>

\* A future of join_all is ready; the last one lets resolve_merge go on.
Reply(c) ==
  /\ query_mode = "Merge"
  /\ stage = "asking"
  /\ replies[c] = None
  /\ replies' = [replies EXCEPT ![c] = holds[c]]
  /\ IF \E d \in Registry : replies'[d] = None THEN UNCHANGED <<stage, result>>
     ELSE IF Merged(replies') = <<>> THEN Failed
     ELSE Ok(Merged(replies'))
  /\ UNCHANGED <<query_mode, holds, next, changes, moments>>

\* The caller has the result, or is dropped while it waits.
Leave ==
  /\ stage # "idle"
  /\ stage' = "idle"
  /\ result' = <<>>
  /\ UNCHANGED <<query_mode, holds, next, replies, changes, moments>>

-----------------------------------------------------------------------------
(* The registries *)

Change(c, answer) ==
  /\ answer # holds[c]
  /\ stage = "asking" => changes < MaxChanges
  /\ holds' = [holds EXCEPT ![c] = answer]
  /\ IF stage = "asking"
     THEN /\ changes' = changes + 1
          /\ moments' = [moments EXCEPT ![c] = @ \cup {answer}]
     ELSE UNCHANGED <<changes, moments>>
  /\ UNCHANGED <<query_mode, stage, next, replies, result>>

Resolve == Start \/ AskNext \/ (\E c \in Registry : Reply(c)) \/ Leave

ResolverNext == Resolve \/ \E c \in Registry, answer \in Answers : Change(c, answer)

ResolverSpec == ResolverInit /\ [][ResolverNext]_resolverVars

-----------------------------------------------------------------------------
(* Properties *)

Entries(seq) == {seq[k] : k \in 1..Len(seq)}

\* a was in what c held at every moment of the call.
HeldThroughout(c, a) ==
  \A answer \in moments[c] : answer # Error /\ a \in Entries(answer)

\* The configured order is honoured although the registries are read at
\* different moments: the instances are those of one registry, and every
\* registry that goes before it had nothing at some moment of the call.
PriorityHonoured ==
  query_mode = "Priority" /\ stage = "ok" =>
    \A inst \in Entries(result), d \in Registry :
      /\ inst.from = result[1].from
      /\ Before(d, inst.from) => \E answer \in moments[d] : ~HasInstances(answer)

\* A registry that fails, or an address that moves from one registry to
\* another, hides nothing more than it must: a call fails only if each
\* registry was without instances at some moment of it.
FailsOnlyIfAllEmpty ==
  stage = "failed" =>
    \A c \in Registry : \E answer \in moments[c] : ~HasInstances(answer)

\* Merging loses no address and invents none, in whatever order the answers
\* come: an address that some registry held throughout is in the result, and
\* whatever is in the result was held by its registry during the call.
MergeKeepsAll ==
  query_mode = "Merge" /\ stage = "ok" =>
    /\ \A c \in Registry, a \in Addresses :
         HeldThroughout(c, a) => \E inst \in Entries(result) : inst.addr = a
    /\ \A inst \in Entries(result) :
         \E answer \in moments[inst.from] : answer # Error /\ inst.addr \in Entries(answer)

\* An address that several registries list is in the result once, with the
\* metadata (its weight among them) of the registry that goes first.
FirstEntryWins ==
  query_mode = "Merge" /\ stage = "ok" =>
    \A k \in 1..Len(result) :
      /\ \A j \in 1..(k - 1) : result[j].addr # result[k].addr
      /\ \A d \in Registry : Before(d, result[k].from) => ~HeldThroughout(d, result[k].addr)
=============================================================================
