-------------------------- MODULE AgentConfigMatch --------------------------
(***************************************************************************)
(* matchAgentConfig (src/agentcfg/fetch.go): one pass over the cached      *)
(* agent configurations that remembers, in three pointers, the best match  *)
(* of each kind, and then a choice among the pointers.                     *)
(*                                                                         *)
(* A pointer into the slice is the index of the element it points to and   *)
(* a nil pointer is 0.  Go's index i of the loop is i - 1 here.            *)
(***************************************************************************)
EXTENDS Integers, Sequences

CONSTANTS
    Names,           \* service names, the empty one included
    Envs,            \* service environments, the empty one included
    Empty,           \* the empty string
    AgentNames,      \* values of agent_name, Empty included
    Etags,           \* values of etag, the sentinel of zeroResult included
    EtagSentinel,    \* EtagSentinel of model.go, "-"
    SettingKeys,     \* keys of the settings
    Unrestricted,    \* UnrestrictedSettings of model.go
    AgentConfigs,    \* the configurations an index may hold
    Queries,         \* the queries agents may send
    MaxLen           \* longest cache looked at

ASSUME EmptyAssumption == Empty \in Names \cap Envs \cap AgentNames
ASSUME EtagAssumption == EtagSentinel \in Etags
ASSUME ConfigsAssumption ==
    AgentConfigs \subseteq [name : Names, env : Envs, agent : AgentNames,
                            etag : Etags, settings : SUBSET SettingKeys]
ASSUME QueriesAssumption ==
    Queries \subseteq [name : Names, env : Envs, insecure : SUBSET AgentNames]
ASSUME MaxLenAssumption == MaxLen \in Nat

VARIABLES
    cfgs,            \* the slice matchAgentConfig is given
    query,           \* the query, insecure being the agent names its prefixes match
    i,               \* next element to look at
    nameConf,        \* the three pointers, 0 for nil
    envConf,
    defaultConf,
    pc,              \* "loop", "pick" or "done"
    result           \* the Source answered

vars == <<cfgs, query, i, nameConf, envConf, defaultConf, pc, result>>

Result == [settings : SUBSET SettingKeys, etag : Etags, agent : AgentNames]

\* Mutant: the empty result without its etag.
ZeroWithoutEtag == [settings |-> {}, etag |-> Empty, agent |-> Empty]

zeroResult == [settings |-> {}, etag |-> EtagSentinel, agent |-> Empty]

ResultOf(c) == [settings |-> c.settings, etag |-> c.etag, agent |-> c.agent]

-----------------------------------------------------------------------------
(* The four ways in which configuration c may answer query q.              *)

Exact(q, c) == c.name = q.name /\ c.env = q.env
NameOnly(q, c) == c.name = q.name /\ c.env = Empty
EnvOnly(q, c) == c.name = Empty /\ c.env = q.env
Default(q, c) == c.name = Empty /\ c.env = Empty

Init ==
    /\ cfgs \in UNION {[1..n -> AgentConfigs] : n \in 0..MaxLen}
    /\ query \in Queries
    /\ i = 1
    /\ nameConf = 0 /\ envConf = 0 /\ defaultConf = 0
    /\ pc = "loop"
    /\ result = zeroResult

\* The head of the loop has an element to look at.
Visiting == pc = "loop" /\ i <= Len(cfgs)

Advance == i' = i + 1 /\ UNCHANGED <<cfgs, query, pc, result>>

\* Mutant: the first branch without its break.
ExactWithoutBreak ==
    /\ Visiting
    /\ Exact(query, cfgs[i])
    /\ nameConf' = i
    /\ UNCHANGED <<envConf, defaultConf>>
    /\ Advance

\* First branch: remember the element and break.
ExactMatch ==
    /\ Visiting
    /\ Exact(query, cfgs[i])
    /\ nameConf' = i
    /\ pc' = "pick"
    /\ UNCHANGED <<cfgs, query, i, envConf, defaultConf, result>>

NameMatch ==
    /\ Visiting
    /\ ~Exact(query, cfgs[i])
    /\ NameOnly(query, cfgs[i])
    /\ nameConf' = i
    /\ UNCHANGED <<envConf, defaultConf>>
    /\ Advance

EnvMatch ==
    /\ Visiting
    /\ ~Exact(query, cfgs[i]) /\ ~NameOnly(query, cfgs[i])
    /\ EnvOnly(query, cfgs[i])
    /\ envConf' = i
    /\ UNCHANGED <<nameConf, defaultConf>>
    /\ Advance

DefaultMatch ==
    /\ Visiting
    /\ ~Exact(query, cfgs[i]) /\ ~NameOnly(query, cfgs[i]) /\ ~EnvOnly(query, cfgs[i])
    /\ Default(query, cfgs[i])
    /\ defaultConf' = i
    /\ UNCHANGED <<nameConf, envConf>>
    /\ Advance

NoMatch ==
    /\ Visiting
    /\ ~Exact(query, cfgs[i]) /\ ~NameOnly(query, cfgs[i])
    /\ ~EnvOnly(query, cfgs[i]) /\ ~Default(query, cfgs[i])
    /\ UNCHANGED <<nameConf, envConf, defaultConf>>
    /\ Advance

LoopEnd ==
    /\ pc = "loop"
    /\ i > Len(cfgs)
    /\ pc' = "pick"
    /\ UNCHANGED <<cfgs, query, i, nameConf, envConf, defaultConf, result>>

\* Mutant: the environment before the name.
PickedEnvFirst ==
    IF envConf # 0 THEN envConf
    ELSE IF nameConf # 0 THEN nameConf
    ELSE defaultConf

\* The pointer the answer is built from, 0 when all three are nil.
Picked ==
    IF nameConf # 0 THEN nameConf
    ELSE IF envConf # 0 THEN envConf
    ELSE defaultConf

Pick ==
    /\ pc = "pick"
    /\ result' = IF Picked = 0 THEN zeroResult ELSE ResultOf(cfgs[Picked])
    /\ pc' = "done"
    /\ UNCHANGED <<cfgs, query, i, nameConf, envConf, defaultConf>>

Next ==
    \/ ExactMatch \/ NameMatch \/ EnvMatch \/ DefaultMatch \/ NoMatch
    \/ LoopEnd
    \/ Pick

Spec == Init /\ [][Next]_vars

-----------------------------------------------------------------------------
(* Properties                                                              *)

\* Every variable has its type; the pointers stay inside the slice.
TypeOK ==
    /\ cfgs \in Seq(AgentConfigs)
    /\ query \in Queries
    /\ i \in 1..Len(cfgs) + 1
    /\ {nameConf, envConf, defaultConf} \subseteq 0..Len(cfgs)
    /\ pc \in {"loop", "pick", "done"}
    /\ result \in Result

\* The positions of the slice that answer the query in each of the four ways.
ExactOnes == {k \in DOMAIN cfgs : Exact(query, cfgs[k])}
NameOnes == {k \in DOMAIN cfgs : NameOnly(query, cfgs[k])}
EnvOnes == {k \in DOMAIN cfgs : EnvOnly(query, cfgs[k])}
DefaultOnes == {k \in DOMAIN cfgs : Default(query, cfgs[k])}

\* The positions of the most specific kind of match that the slice has, in the
\* order of precedence of the comment of matchAgentConfig (fetch.go:56-61).
BestMatches ==
    IF ExactOnes # {} THEN ExactOnes
    ELSE IF NameOnes # {} THEN NameOnes
    ELSE IF EnvOnes # {} THEN EnvOnes
    ELSE DefaultOnes

\* The answer is a configuration of the most specific kind present anywhere in
\* the slice, whatever the order of the slice, although the loop breaks at the
\* first exact match and overwrites its pointers otherwise; the empty result is
\* answered exactly when no configuration matches at all.
MostSpecificWins ==
    pc = "done" =>
        IF BestMatches = {} THEN result = zeroResult
        ELSE \E k \in BestMatches : result = ResultOf(cfgs[k])

\* Among several configurations of the winning kind, which the index does not
\* rule out, the first exact one is answered, and the last one of any other
\* kind: the same cache always gives the same answer.
TieBreak ==
    pc = "done" =>
        \A k \in BestMatches :
            (\A j \in BestMatches :
                IF ExactOnes # {} THEN k <= j ELSE k >= j)
            => result = ResultOf(cfgs[k])

\* What the comment of Query.InsecureAgents says (model.go:63-66): when one of
\* the prefixes matches the agent of the result, the settings answered are only
\* the unrestricted ones.  matchAgentConfig never reads InsecureAgents.
InsecureAgentsRestricted ==
    pc = "done" /\ result.agent \in query.insecure
        => result.settings \subseteq Unrestricted
=============================================================================
