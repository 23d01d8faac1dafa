------------------------------ MODULE MCTyped ------------------------------
(***************************************************************************)
(* An instance of TypedAcquisition.                                        *)
(***************************************************************************)
EXTENDS TypedAcquisition, TLC

CONSTANTS t1, e1, n1, p1, p2, p3, s1, s2, s3, c1, c2, c3, c4, k1

----------------------------------------------------------------------------
(* Capabilities: an ability that a source declares, a restriction that it can hold to *)


Capabilities ==
    ("tools" :> [matcher |-> "Set", evidence |-> FALSE, polarity |-> "Ability"])
    @@ ("quota" :> [matcher |-> "Quantity", evidence |-> FALSE, polarity |-> "Restriction"])

Tools(v) == "tools" :> [kind |-> "Set", v |-> v]
Quota(v) == "quota" :> [kind |-> "Quantity", v |-> v]

----------------------------------------------------------------------------
(* A type, one that refines it, and one that does not *)

Worker == [functions |-> InformationFunction, capabilities |-> Tools({"git", "cc"}),
           affinity |-> AnyTag, workspace |-> "write", network |-> "restricted",
           isolation |-> FALSE, lifecycle |-> {"RESIDENT"}, continuity |-> 0,
           sandbox |-> NoSandbox, anchor |-> NoAnchor, budget |-> 2]
Clerk == [Worker EXCEPT !.capabilities = Tools({"git"}) @@ Quota(1), !.affinity = {"db"}]
Wider == [Worker EXCEPT !.capabilities = Tools({"git", "cc", "ld"})]

worker == <<"worker", 1>>
clerk == <<"clerk", 1>>
wider == <<"wider", 1>>
ThreeTypes == {worker, clerk, wider}
ContractOf == (worker :> Worker @@ clerk :> Clerk @@ wider :> Wider)
BaseOf == (worker :> NoType @@ clerk :> worker @@ wider :> worker)

Hard(capabilities) ==
    [fn |-> "EXPAND", affinity |-> {"db"}, workspace |-> "write", continuity |-> 0,
     capabilities |-> capabilities, network |-> "restricted", isolation |-> FALSE,
     sandbox |-> NoSandbox, anchor |-> NoAnchor, budget |-> 1]

RequirementOf == [t \in Tasks |-> [type |-> worker,
                                   hard |-> Hard(Tools({"git"}) @@ Quota(2))]]
SampleRequirements == {Hard(Tools(tools) @@ Quota(2)) : tools \in {{"git"}, {"cc"}, {"ld"}}}
PlacementOf == [t \in Tasks |-> [partition |-> "p", tags |-> {"db"}, workstream |-> "",
                                 continuity |-> "preferred", ephemeral |-> FALSE]]
Homes == [a \in Agents |-> [partition |-> "p", tags |-> {"db"}, workstream |-> ""]]

----------------------------------------------------------------------------
(* Two sources: one without continuity, with two configurations that tie and one that
   provides too little, and one with continuity, whose configuration is better; a policy
   and a source that nothing uses yet *)

Coarse == [isolation |-> FALSE, workspaces |-> WorkspaceMode, networks |-> NetworkPolicy]

PolicyOf == [p \in Policies |->
    [kind |-> "process", safety |-> [Coarse EXCEPT !.networks = {"restricted"}]]]
Installed == [p \in Policies |-> [kind |-> "process", protocol |-> "v1", safety |-> Coarse]]
Routes == [s \in Sources |-> "v1"]
TheTarget == [kind |-> "process", isolation |-> FALSE]

SourceOf(s, p, modes) ==
    [ref |-> s, policy |-> p, claims |-> {},
     envelope |-> Tools({"git", "cc"}) @@ Quota(2), lifecycle |-> LifecycleMode,
     continuity |-> modes]
ThreeSources == (s1 :> SourceOf(s1, p1, {0}) @@ s2 :> SourceOf(s2, p2, {0, 1})
                 @@ s3 :> SourceOf(s3, p1, {0}))

ConfigOf(c, s, claims) ==
    [ref |-> c, source |-> s, claims |-> claims, lifecycle |-> Inherited,
     continuity |-> Inherited, credentials |-> {}]
FourConfigs ==
    (c1 :> ConfigOf(c1, s1, {}) @@ c2 :> ConfigOf(c2, s2, {}) @@ c3 :> ConfigOf(c3, s1, {})
     @@ c4 :> ConfigOf(c4, s1, {[ref |-> "quota", value |-> [kind |-> "Quantity", v |-> 1]]}))

Opened == {worker, p1, p2, s1, s2, c1, c4}

\* The host of an agent from before typed work, which never ran.
HostsBefore == {[state |-> "WARM", binding |-> NoBinding, used |-> FALSE]}

=============================================================================
