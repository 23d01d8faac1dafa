----------------------------- MODULE MCFrontier -----------------------------
(***************************************************************************)
(* An instance of Frontier for TLC.                                        *)
(***************************************************************************)
EXTENDS Frontier, TLC

CONSTANTS g1, t1, t2, t3, k1, k2, k3, a1, a2, s1, s2

SpecOf(task, workspace, continuity, dependencies) ==
    [task |-> task, affinity |-> {"db"}, workspace |-> workspace, continuity |-> continuity,
     dependencies |-> dependencies]

IntentOf(fn, results, seeds, spec) ==
    [fn |-> fn, results |-> results, seeds |-> seeds, spec |-> spec]

WriterSpec == SpecOf(NoTask, "write", "preferred", {})
ReaderSpec == SpecOf(NoTask, "read_only", "none", {})

\* A task with a chosen identity, and one that has dependencies.
ChosenSpec == SpecOf(t1, "read_only", "required", {})
DependentSpec == SpecOf(NoTask, "write", "none", {t1})

----------------------------------------------------------------------------
(* Root proposes under k1 and k3, the result of t1 carries an intent under k2.  The intents
   differ in function, evidence, seeds (the generation resolves s1 only) and in who
   specifies the task. *)

Sources == (k1 :> NoTask @@ k2 :> t1 @@ k3 :> NoTask)

RootIntents ==
    {IntentOf("EXPAND", {}, {s1}, WriterSpec),
     IntentOf("COMPRESS_POSITIVE", {t1}, {}, ChosenSpec),
     IntentOf("COMPRESS_NEGATIVE", {}, {s2}, WriterSpec),
     IntentOf("EXPAND", {}, {}, DependentSpec)}
ResultIntents == (k2 :> IntentOf("COMPRESS_NEGATIVE", {t2}, {}, NoSpec))
Overrides == {ReaderSpec, ChosenSpec, DependentSpec}
Payload == [g \in Generations |-> {s1}]

----------------------------------------------------------------------------
(* Two revisions of a type, the second derived from the first, and two policies *)

NoCapabilities == <<>>

ContractOf == [ref \in TypeRefs |->
    IF ref[2] = 1
    THEN [functions |-> InformationFunction, capabilities |-> NoCapabilities,
          affinity |-> AnyTag, workspace |-> "write", network |-> "enabled",
          isolation |-> FALSE, lifecycle |-> LifecycleMode, continuity |-> 1,
          sandbox |-> NoSandbox, anchor |-> NoAnchor, budget |-> 2]
    ELSE [functions |-> InformationFunction, capabilities |-> NoCapabilities,
          affinity |-> {"db", "web"}, workspace |-> "read_only", network |-> "restricted",
          isolation |-> FALSE, lifecycle |-> {"RESIDENT"}, continuity |-> 1,
          sandbox |-> "jail", anchor |-> a1, budget |-> 1]]

SecondNarrows == [ref \in TypeRefs |-> IF ref[2] = 1 THEN NoType ELSE <<ref[1], 1>>]

TwoPolicies ==
    {[functions |-> {"EXPAND"}, affinity |-> {"db"}, workspace |-> "write",
      network |-> "restricted", isolation |-> TRUE, continuity |-> 1, sandbox |-> "jail",
      anchor |-> a1, budget |-> 1],
     [functions |-> InformationFunction, affinity |-> AnyTag, workspace |-> "read_only",
      network |-> "disabled", isolation |-> FALSE, continuity |-> 0, sandbox |-> NoSandbox,
      anchor |-> NoAnchor, budget |-> 1]}

DraftOf(kind, ref, network, isolation, sandbox, anchor, budget) ==
    [selector |-> [kind |-> kind, ref |-> ref], capabilities |-> NoCapabilities,
     network |-> network, isolation |-> isolation, sandbox |-> sandbox,
     anchor |-> anchor, budget |-> budget]

TwoDrafts ==
    {DraftOf("Latest", <<"w", 0>>, "disabled", FALSE, NoSandbox, NoAnchor, 2),
     DraftOf("Exact", <<"w", 1>>, "restricted", TRUE, "jail", a2, 1)}

=============================================================================
