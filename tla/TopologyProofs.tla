--------------------------- MODULE TopologyProofs ---------------------------
(***************************************************************************)
(* The topology keeps its promises for any number of partitions, targets,  *)
(* agents and tasks: a release is never refused, work can be taken up,     *)
(* nobody is stuck and no provisioned host is abandoned.                   *)
(*                                                                         *)
(* The inductive invariant TInv says of every row of logical_agents what   *)
(* its state entails.  Its centre is that where an agent is to go is an    *)
(* active partition itself, never one that was merged or retired: merges   *)
(* redirect what is staged, and a partition cannot be retired under an     *)
(* agent that works, since the task of that agent is in it too.            *)
(***************************************************************************)
EXTENDS Topology, TLAPS

-----------------------------------------------------------------------------
(* The inductive invariant *)

Gone == {"unborn", "RETIRED"}
Idle == {"READY", "REVIVING"}
Working == {"ASSIGNED", "DRAINING"}

Made == {p \in Partitions : partition[p].made}

\* What the row r of an agent with the obligation o says, when the partitions in act
\* are active and those in made were created.
RowInv(r, o, act, made) ==
    \* The agent is there; it stands in a partition, and where it is to go is active.
    /\ r \in AgentRow
    /\ r.state \in Gone => r = [Unborn EXCEPT !.state = r.state]
    /\ r.state \notin Gone => r.partition \in made /\ Desired(r) \in act
    \* It works, or it holds no task.
    /\ r.state \in Working <=> r.task # None
    /\ r.executing => r.task # None /\ r.host # None
    \* What is staged for it.
    /\ r.state \in Idle => r.pending = None
    /\ r.state = "DRAINING" => r.pending # None \/ r.retiring
    /\ r.retiring => r.state = "DRAINING" \/ (r.state = "SUSPENDED" /\ o # None)
    \* Its host lives on the target of its partition; a provisioned one belongs to a
    \* typed agent, which only the merge of its partition sends elsewhere.
    /\ r.state \in Idle \cup Working => CanStart(r)
    /\ r.host # None /\ r.host.provisioned => r.bound
    /\ r.bound /\ r.pending # None => r.partition \notin act
    \* It is SUSPENDED for a writer in doubt, whose host is fenced, or for a provisioned
    \* host that its move would abandon.
    /\ o # None => r.state = "SUSPENDED" /\ r.host = None
    /\ r.loose # None => o # None
    /\ r.state = "SUSPENDED" /\ o = None =>
          /\ r.pending # None /\ r.host # None
          /\ r.host.provisioned /\ r.host.used

\* The task of a working agent is its own and, while its partition is active, in it.
Works(a) ==
    agent[a].task # None =>
        /\ task[agent[a].task].state = "LEASED"
        /\ agent[a].partition \in Active => task[agent[a].task].partition = agent[a].partition
        /\ \A b \in Agents \ {a} : agent[b].task # agent[a].task

AgentsInv == \A a \in Agents : RowInv(agent[a], obligation[a], Active, Made)
TasksInv == \A k \in Tasks : Open(k) => task[k].partition \in Active
ListedInv == \A a \in DOMAIN listed : agent[a].state \in {"REVIVING", "RETIRED"}

TInv ==
    /\ TypeOK /\ Active \subseteq Made
    /\ AgentsInv /\ TasksInv /\ ListedInv
    /\ \A a \in Agents : Works(a)

\* What a step does to the row r of an agent, which becomes n: a requested retirement
\* is carried out, and a provisioned host that ran something is not abandoned.
RowStep(r, n) ==
    /\ r.retiring => n.retiring \/ n.state = "RETIRED"
    /\ r.host # None /\ r.host.provisioned /\ r.host.used =>
          \/ n.host = r.host
          \/ r.executing /\ ~n.executing
          \/ n.state = "RETIRED"

-----------------------------------------------------------------------------
(* Rows *)

\* canonical_partition of an active partition is that partition.
LEMMA CanonicalIsActive == ASSUME NEW p \in Active PROVE canonical_partition(p) = p
BY Zenon DEF canonical_partition

LEMMA PartitionFacts ==
    ASSUME TInv
    PROVE  /\ Active \subseteq Made /\ Made \subseteq Partitions /\ None \notin Made
           /\ \A p \in Made : Target[p] \in Targets
           /\ None \notin Targets /\ None \notin Tasks
BY Zenon, TopologyAssumption DEF TInv, Made, Targets

\* A retired agent is gone.
LEMMA RetiredRow ==
    ASSUME NEW r, NEW act, NEW made
    PROVE  RowInv(retire_logical_agent(r), None, act, made) /\ RowStep(r, retire_logical_agent(r))
<1> DEFINE n == retire_logical_agent(r)
<1>1. /\ Unborn \in AgentRow
      /\ Unborn.partition = None /\ Unborn.pending = None /\ Unborn.retiring = FALSE
      /\ Unborn.task = None /\ Unborn.bound = FALSE /\ Unborn.host = None
      /\ Unborn.executing = FALSE /\ Unborn.loose = None
    BY Zenon DEF Unborn, AgentRow
<1>2. n = [Unborn EXCEPT !.state = "RETIRED"]
    BY Zenon DEF retire_logical_agent
<1> HIDE DEF n
<1>3. /\ n \in AgentRow /\ n.state = "RETIRED"
      /\ n.partition = None /\ n.pending = None /\ n.retiring = FALSE /\ n.task = None
      /\ n.bound = FALSE /\ n.host = None /\ n.executing = FALSE /\ n.loose = None
    BY Zenon, <1>1, <1>2 DEF AgentRow
<1>4. n = [Unborn EXCEPT !.state = n.state]
    BY Zenon, <1>2, <1>3
<1>5. RowInv(n, None, act, made) /\ RowStep(r, n)
    BY Zenon, <1>3, <1>4 DEF RowInv, RowStep, Gone, Idle, Working
<1> QED
    BY Zenon, <1>5 DEF n

\* What is true of the rows of the partitions.
Sites(act, made) ==
    /\ act \subseteq made /\ made \subseteq Partitions /\ None \notin made
    /\ \A p \in made : Target[p] \in Targets

LEMMA CutOverFields ==
    ASSUME NEW r \in AgentRow, NEW p \in Partitions
    PROVE  /\ CutOver(r, p) \in AgentRow /\ CutOver(r, p).state = r.state
           /\ CutOver(r, p).partition = p /\ CutOver(r, p).pending = None
           /\ CutOver(r, p).retiring = FALSE /\ CutOver(r, p).task = r.task
           /\ CutOver(r, p).bound = r.bound
           /\ CutOver(r, p).host = IF r.host # None /\ r.host.target # Target[p] THEN None
                                   ELSE r.host
           /\ CutOver(r, p).executing = r.executing /\ CutOver(r, p).loose = r.loose
BY Zenon DEF CutOver, AgentRow

\* commit_partition_cutover of an idle agent, or of one behind a writer in doubt, that
\* abandons no provisioned host.
LEMMA CutOverRow ==
    ASSUME NEW act, NEW made, Sites(act, made), NEW o, NEW r, RowInv(r, o, act, made),
           NEW p \in act, r.state \in Idle \/ (r.state = "SUSPENDED" /\ o # None),
           ~r.retiring, ~cross_target_provisioned_host_requires_closure(r, Target[p])
    PROVE  RowInv(CutOver(r, p), o, act, made) /\ RowStep(r, CutOver(r, p))
<1> DEFINE n == CutOver(r, p)
<1>1. /\ n \in AgentRow /\ n.state = r.state /\ n.partition = p /\ n.pending = None
      /\ n.retiring = FALSE /\ n.task = r.task /\ n.bound = r.bound
      /\ n.host = IF r.host # None /\ r.host.target # Target[p] THEN None ELSE r.host
      /\ n.executing = r.executing /\ n.loose = r.loose
    <2>1. r \in AgentRow /\ p \in Partitions
        BY Zenon DEF RowInv, Sites
    <2> QED
        BY Zenon, <2>1, CutOverFields
<1> HIDE DEF n
<1>2. r.task = None /\ n.state \notin Gone /\ n.state \notin Working /\ p # None /\ p \in made
    BY Zenon, <1>1 DEF RowInv, Idle, Working, Gone, Sites
<1>3. CanStart(n) /\ Desired(n) = p
    BY Zenon, <1>1 DEF CanStart, Desired
<1>4. n.host # None => n.host = r.host
    BY Zenon, <1>1
<1>5. RowInv(n, o, act, made)
    BY Zenon, <1>1, <1>2, <1>3, <1>4 DEF RowInv, Idle, Working, Gone
<1>6. RowStep(r, n)
    BY Zenon, <1>1 DEF RowStep, cross_target_provisioned_host_requires_closure
<1> QED
    BY Zenon, <1>5, <1>6 DEF n

\* What release_agent is given: a row on the target of its partition, with nothing of a
\* writer in doubt.
Releasable(row) ==
    /\ row \in AgentRow /\ row.partition \in Made /\ Desired(row) \in Active
    /\ row.loose = None /\ CanStart(row)
    /\ row.host # None /\ row.host.provisioned => row.bound
    /\ row.bound /\ row.pending # None => row.partition \notin Active

\* release_agent accepts it and leaves it retired, READY, or SUSPENDED with its host.
LEMMA ReleasedRow ==
    ASSUME TInv, NEW row, Releasable(row)
    PROVE  /\ CanRelease(row)
           /\ RowInv(release_agent(row), None, Active, Made)
           /\ RowStep(row, release_agent(row))
           /\ release_agent(row).state \in {"RETIRED", "READY", "SUSPENDED"}
           /\ release_agent(row).state = "SUSPENDED" => row.host # None /\ ~row.retiring
           /\ ~release_agent(row).executing /\ release_agent(row).task = None
<1> DEFINE p == Desired(row)
           n == release_agent(row)
           cut == CutOver(row, p)
           gone == retire_logical_agent(row)
           cross == cross_target_provisioned_host_requires_closure(row, Target[p])
<1>1. /\ p \in Active /\ p \in Made /\ p # None /\ p \in Partitions /\ canonical_partition(p) = p
      /\ Target[p] \in Targets /\ Target[p] # None
    BY Zenon, PartitionFacts, CanonicalIsActive DEF Releasable
<1>2. CanRelease(row)
    <2>1. cross \/ partition_cutover_plan(row, FALSE, Target[p]) = "commit"
        BY Zenon DEF partition_cutover_plan, unsafe_cross_target_execution, Releasable
    <2> QED
        BY Zenon, <1>1, <2>1 DEF CanRelease
<1>3. CASE row.retiring \/ (~cross /\ p \in Ephemeral)
    <2>1. n = gone
        BY Zenon, <1>1, <1>3 DEF release_agent, retire_logical_agent
    <2>2. gone.state = "RETIRED" /\ gone.executing = FALSE /\ gone.task = None
        BY Zenon DEF retire_logical_agent, Unborn
    <2> HIDE DEF n, gone
    <2>3. RowInv(gone, None, Active, Made) /\ RowStep(row, gone)
        BY Zenon, RetiredRow DEF gone
    <2>4. /\ RowInv(n, None, Active, Made) /\ RowStep(row, n) /\ n.state = "RETIRED"
          /\ ~n.executing /\ n.task = None
        BY Zenon, <2>1, <2>2, <2>3
    <2>5. n.state # "SUSPENDED" /\ n.state \in {"RETIRED", "READY", "SUSPENDED"}
        BY Zenon, <2>4
    <2> QED
        BY Zenon, <1>2, <2>4, <2>5 DEF n
<1>4. CASE ~row.retiring /\ cross
    <2>1. n = [row EXCEPT !.state = "SUSPENDED", !.task = None, !.pending = p, !.executing = FALSE]
        BY Zenon, <1>1, <1>4 DEF release_agent
    <2> HIDE DEF n
    <2>2. /\ n \in AgentRow /\ n.state = "SUSPENDED" /\ n.partition = row.partition
          /\ n.pending = p /\ n.retiring = FALSE /\ n.task = None /\ n.bound = row.bound
          /\ n.host = row.host /\ n.executing = FALSE /\ n.loose = None
        BY Zenon, <1>1, <1>4, <2>1 DEF Releasable, AgentRow
    <2>3. /\ row.host # None /\ row.host.target # Target[p]
          /\ row.host.provisioned /\ row.host.used /\ row.bound
        BY Zenon, <1>4 DEF cross_target_provisioned_host_requires_closure, Releasable
    <2>4. row.partition \notin Active
        <3>1. row.partition # p
            BY Zenon, <2>3 DEF Releasable, CanStart
        <3>2. row.pending # None
            BY Zenon, <3>1 DEF Desired
        <3> QED
            BY Zenon, <2>3, <3>2 DEF Releasable
    <2>5. Desired(n) = p
        BY Zenon, <1>1, <2>2 DEF Desired
    <2> HIDE DEF p
    <2>6. RowInv(n, None, Active, Made)
        BY Zenon, <1>1, <2>2, <2>3, <2>4, <2>5 DEF RowInv, Releasable, Gone, Idle, Working
    <2>7. RowStep(row, n)
        BY Zenon, <1>4, <2>2 DEF RowStep
    <2> QED
        BY Zenon, <1>2, <1>4, <2>2, <2>3, <2>6, <2>7 DEF n
<1>5. CASE ~row.retiring /\ ~cross /\ p \notin Ephemeral
    <2>1. n = [cut EXCEPT !.state = "READY", !.task = None, !.executing = FALSE]
        BY Zenon, <1>1, <1>5 DEF release_agent
    <2>2. /\ cut \in AgentRow /\ cut.partition = p /\ cut.pending = None
          /\ cut.retiring = FALSE /\ cut.bound = row.bound
          /\ cut.host = IF row.host # None /\ row.host.target # Target[p] THEN None ELSE row.host
          /\ cut.loose = None
        BY Zenon, <1>1, CutOverFields DEF Releasable
    <2> HIDE DEF n, cut
    <2>3. /\ n \in AgentRow /\ n.state = "READY" /\ n.partition = p /\ n.pending = None
          /\ n.retiring = FALSE /\ n.task = None /\ n.bound = row.bound
          /\ n.host = IF row.host # None /\ row.host.target # Target[p] THEN None ELSE row.host
          /\ n.executing = FALSE /\ n.loose = None
        BY Zenon, <2>1, <2>2 DEF AgentRow
    <2>4. Desired(n) = p /\ CanStart(n)
        BY Zenon, <2>3 DEF Desired, CanStart
    <2>5. n.host # None => n.host = row.host
        BY Zenon, <2>3
    <2>6. RowStep(row, n)
        BY Zenon, <1>5, <2>3 DEF RowStep, cross_target_provisioned_host_requires_closure
    <2> HIDE DEF p, cross
    <2>7. RowInv(n, None, Active, Made)
        BY Zenon, <1>1, <2>3, <2>4, <2>5 DEF RowInv, Releasable, Gone, Idle, Working
    <2> QED
        BY Zenon, <1>2, <2>3, <2>6, <2>7 DEF n
<1> QED
    BY Zenon, <1>3, <1>4, <1>5

\* What else a topology command does to a row r, which becomes n: the task stays and so
\* does the partition of an agent that works; a REVIVING agent is that or retired.
Keeps(r, n) ==
    /\ n.task = r.task
    /\ r.task # None => n.partition = r.partition
    /\ r.state \in {"REVIVING", "RETIRED"} => n.state \in {"REVIVING", "RETIRED"}

\* A row that does not point at a partition outlives it.
LEMMA ShrunkRow ==
    ASSUME NEW act, NEW made, NEW o, NEW r, RowInv(r, o, act, made), NEW p,
           r.state \notin Gone => Desired(r) # p
    PROVE  RowInv(r, o, act \ {p}, made)
<1>1. /\ r.state \notin Gone => Desired(r) \in act \ {p}
      /\ r.bound /\ r.pending # None => r.partition \notin act \ {p}
    BY Zenon DEF RowInv
<1> QED
    BY Zenon, <1>1 DEF RowInv

\* excess_disposition of a member of the pool.
LEMMA ExcessRow ==
    ASSUME NEW act, NEW made, NEW o, NEW r, RowInv(r, o, act, made),
           r.state \in {"READY", "ASSIGNED", "DRAINING", "REVIVING"}
    PROVE  /\ RowInv(excess_disposition(r), o, act, made) /\ RowStep(r, excess_disposition(r))
           /\ Keeps(r, excess_disposition(r))
<1> DEFINE n == excess_disposition(r)
<1>1. o = None
    BY Zenon DEF RowInv
<1>2. CASE r.state \in Idle
    <2>1. r.task = None
        BY Zenon, <1>2 DEF RowInv, Idle, Working
    <2>2. n = retire_logical_agent(r)
        BY Zenon, <1>2, <2>1 DEF excess_disposition, Idle
    <2>3. n.state = "RETIRED" /\ n.task = None
        BY Zenon, <2>2 DEF retire_logical_agent, Unborn
    <2> HIDE DEF n
    <2>4. RowInv(n, o, act, made) /\ RowStep(r, n)
        BY Zenon, <1>1, <2>2, RetiredRow
    <2>5. Keeps(r, n)
        BY Zenon, <2>1, <2>3 DEF Keeps
    <2> QED
        BY Zenon, <2>4, <2>5 DEF n
<1>3. CASE r.state \notin Idle
    <2>1. r.state \in Working /\ r.task # None
        BY Zenon, <1>3 DEF Idle, Working, RowInv
    <2>2. n = [r EXCEPT !.state = "DRAINING", !.retiring = TRUE]
        BY Zenon, <1>3, <2>1 DEF excess_disposition
    <2> HIDE DEF n
    <2>3. /\ n \in AgentRow /\ n.state = "DRAINING" /\ n.partition = r.partition
          /\ n.pending = r.pending /\ n.retiring = TRUE /\ n.task = r.task /\ n.bound = r.bound
          /\ n.host = r.host /\ n.executing = r.executing /\ n.loose = r.loose
        BY Zenon, <2>2 DEF RowInv, AgentRow
    <2>4. Desired(n) = Desired(r) /\ (CanStart(r) => CanStart(n))
        BY Zenon, <2>3 DEF Desired, CanStart
    <2>5. r.state \notin Gone
        BY Zenon, <2>1 DEF Gone, Working
    <2>6. RowInv(n, o, act, made)
        BY Zenon, <1>1, <2>1, <2>3, <2>4, <2>5 DEF RowInv, Gone, Idle, Working
    <2>7. RowStep(r, n) /\ Keeps(r, n)
        BY Zenon, <2>1, <2>3 DEF RowStep, Keeps, Working
    <2> QED
        BY Zenon, <2>6, <2>7 DEF n
<1> QED
    BY Zenon, <1>2, <1>3

\* What plan_move_cutover and merge_partitions may ask of request_partition_cutover.
LEMMA RequestedRow ==
    ASSUME TInv, NEW o, NEW r, RowInv(r, o, Active, Made), NEW t \in Active,
           r.state \in Idle \/ (r.state = "SUSPENDED" /\ o # None), ~r.retiring,
           CanRequest(r, t), r.state \in Idle \/ ~r.bound
    PROVE  /\ RowInv(request_partition_cutover(r, t), o, Active, Made)
           /\ RowStep(r, request_partition_cutover(r, t))
           /\ Keeps(r, request_partition_cutover(r, t))
           /\ request_partition_cutover(r, t).state = r.state
           /\ Desired(request_partition_cutover(r, t)) = t
           /\ r.state \in Idle => request_partition_cutover(r, t).partition = t
<1> DEFINE n == request_partition_cutover(r, t)
<1>1. /\ canonical_partition(t) = t /\ Sites(Active, Made)
      /\ t # None /\ t \in Partitions
    BY Zenon, CanonicalIsActive, PartitionFacts DEF Sites
<1>2. r.task = None /\ r \in AgentRow /\ r.state \notin Gone
    BY Zenon DEF RowInv, Idle, Working, Gone
<1>3. CASE partition_cutover_plan(r, r.task # None, Target[t]) = "stage"
    <2>1. n = [r EXCEPT !.pending = t]
        BY Zenon, <1>1, <1>3 DEF request_partition_cutover
    <2>2. r.state = "SUSPENDED"
        BY Zenon, <1>2, <1>3 DEF partition_cutover_plan
    <2>3. o # None /\ ~r.bound /\ r.state \notin Idle
        BY Zenon, <2>2 DEF Idle
    <2> HIDE DEF n
    <2>4. /\ n \in AgentRow /\ n.state = "SUSPENDED" /\ n.partition = r.partition
          /\ n.pending = t /\ n.retiring = FALSE /\ n.task = None /\ n.bound = FALSE
          /\ n.host = r.host /\ n.executing = r.executing /\ n.loose = r.loose
        BY Zenon, <1>1, <1>2, <2>1, <2>2, <2>3 DEF AgentRow
    <2>5. Desired(n) = t
        BY Zenon, <1>1, <2>4 DEF Desired
    <2>6. RowInv(n, o, Active, Made)
        BY Zenon, <1>2, <2>2, <2>3, <2>4, <2>5 DEF RowInv, Gone, Idle, Working
    <2>7. RowStep(r, n) /\ Keeps(r, n)
        BY Zenon, <1>2, <2>2, <2>4 DEF RowStep, Keeps
    <2> QED
        BY Zenon, <2>2, <2>3, <2>4, <2>5, <2>6, <2>7 DEF n
<1>4. CASE partition_cutover_plan(r, r.task # None, Target[t]) = "commit"
    <2>1. n = CutOver(r, t)
        BY Zenon, <1>1, <1>4 DEF request_partition_cutover
    <2>2. ~cross_target_provisioned_host_requires_closure(r, Target[t])
        BY Zenon, <1>2, <1>4 DEF partition_cutover_plan, unsafe_cross_target_execution
    <2> HIDE DEF n
    <2>3. RowInv(n, o, Active, Made) /\ RowStep(r, n)
        BY Zenon, <1>1, <2>1, <2>2, CutOverRow
    <2>4. n.task = r.task /\ n.partition = t /\ n.state = r.state /\ n.pending = None
        BY Zenon, <1>1, <1>2, <2>1, CutOverFields
    <2> QED
        BY Zenon, <1>2, <2>3, <2>4 DEF n, Keeps, Desired
<1> QED
    BY Zenon, <1>1, <1>3, <1>4 DEF CanRequest

\* plan_move_cutover: a member is drained towards the target or cut over.
LEMMA MovedRow ==
    ASSUME TInv, NEW o, NEW r, RowInv(r, o, Active, Made), NEW t \in Active,
           r.state \in {"READY", "ASSIGNED", "DRAINING", "REVIVING", "SUSPENDED"},
           ~r.retiring, ~r.bound, CanMove(r, t)
    PROVE  RowInv(Moved(r, t), o, Active, Made) /\ RowStep(r, Moved(r, t)) /\ Keeps(r, Moved(r, t))
<1> DEFINE n == Moved(r, t)
<1>1. t # None /\ t \in Partitions
    BY Zenon, PartitionFacts
<1>2. CASE r.task # None
    <2>1. n = [r EXCEPT !.state = "DRAINING", !.pending = t]
        BY Zenon, <1>2 DEF Moved
    <2>2. r.state \in Working /\ r.state \notin Gone /\ o = None
        BY Zenon, <1>2 DEF RowInv, Working, Gone
    <2> HIDE DEF n
    <2>3. /\ n \in AgentRow /\ n.state = "DRAINING" /\ n.partition = r.partition
          /\ n.pending = t /\ n.retiring = FALSE /\ n.task = r.task /\ n.bound = FALSE
          /\ n.host = r.host /\ n.executing = r.executing /\ n.loose = r.loose
        BY Zenon, <1>1, <2>1 DEF RowInv, AgentRow
    <2>4. Desired(n) = t /\ (CanStart(r) => CanStart(n))
        BY Zenon, <1>1, <2>3 DEF Desired, CanStart
    <2>5. RowInv(n, o, Active, Made)
        BY Zenon, <1>1, <1>2, <2>2, <2>3, <2>4 DEF RowInv, Gone, Idle, Working
    <2>6. RowStep(r, n) /\ Keeps(r, n)
        BY Zenon, <2>2, <2>3 DEF RowStep, Keeps, Working
    <2> QED
        BY Zenon, <2>5, <2>6 DEF n
<1>3. CASE r.task = None
    <2>1. r.state \notin Working /\ r.state # "ASSIGNED" /\ r.state # "DRAINING"
        BY Zenon, <1>3 DEF RowInv, Working
    <2>2. r.state \in Idle \/ (r.state = "SUSPENDED" /\ o # None)
        BY Zenon, <2>1 DEF RowInv, Idle
    <2>3. CanRequest(r, t) /\ n = request_partition_cutover(r, t)
        BY Zenon, <1>3, <2>1 DEF CanMove, Moved
    <2> DEFINE cut == request_partition_cutover(r, t)
    <2>4. RowInv(cut, o, Active, Made) /\ RowStep(r, cut) /\ Keeps(r, cut)
        <3>1. r.state \in Idle \/ ~r.bound
            BY Zenon
        <3> QED
            BY SMT, <2>2, <2>3, <3>1, RequestedRow
    <2> HIDE DEF cut
    <2> QED
        BY Zenon, <2>3, <2>4 DEF cut
<1> QED
    BY Zenon, <1>2, <1>3

\* merge_partitions: what is idle in s is cut over to t, everyone else on the way to s
\* or in it is redirected.
LEMMA MergedRow ==
    ASSUME TInv, NEW o, NEW r, RowInv(r, o, Active, Made), NEW s \in Active, NEW t \in Active,
           s # t, CanMerge(r, s, t)
    PROVE  /\ RowInv(Merged(r, s, t), o, Active \ {s}, Made)
           /\ RowStep(r, Merged(r, s, t)) /\ Keeps(r, Merged(r, s, t))
<1> DEFINE row == Redirected(r, s, t)
           n == Merged(r, s, t)
<1>1. t # None /\ t \in Partitions /\ s # None /\ None \notin Made
    BY Zenon, PartitionFacts
<1>2. CASE r.state \in Gone
    <2>1. r.pending = None /\ r.partition = None
        BY Zenon, <1>2 DEF RowInv, Unborn
    <2>2. row = r /\ ~Immediate(r, s)
        BY Zenon, <1>1, <2>1 DEF Redirected, Immediate
    <2>3. n = r
        BY Zenon, <1>1, <2>1, <2>2 DEF Merged
    <2>4. RowInv(r, o, Active \ {s}, Made)
        BY Zenon, <1>2, ShrunkRow
    <2> QED
        BY Zenon, <2>3, <2>4 DEF RowStep, Keeps
<1>3. CASE r.state \in Idle /\ r.partition = s
    <2>1. r.pending = None /\ r.task = None /\ ~r.retiring /\ r.state # "DRAINING"
        BY Zenon, <1>3 DEF RowInv, Idle, Working
    <2>2. row = r /\ Immediate(r, s) /\ Towards(r, t) = t
        BY Zenon, <1>1, <1>3, <2>1 DEF Redirected, Immediate, Towards, Idle
    <2>3. CanRequest(r, t)
        BY Zenon, <2>1, <2>2 DEF CanMerge
    <2> DEFINE cut == request_partition_cutover(r, t)
    <2>4. /\ RowInv(cut, o, Active, Made) /\ RowStep(r, cut) /\ Keeps(r, cut)
          /\ Desired(cut) = t /\ cut.partition = t
        BY Zenon, <1>3, <2>1, <2>3, RequestedRow
    <2>5. n = cut
        BY Zenon, <2>1, <2>2, <2>4 DEF Merged
    <2> HIDE DEF cut, n
    <2>6. RowInv(cut, o, Active \ {s}, Made)
        BY Zenon, <2>4, ShrunkRow
    <2> QED
        BY Zenon, <2>4, <2>5, <2>6 DEF n
<1>4. CASE r.state \notin Gone /\ ~(r.state \in Idle /\ r.partition = s)
    <2>1. ~Immediate(row, s)
        <3>1. r.state = "DRAINING" => r.task # None
            BY Zenon DEF RowInv, Working
        <3>2. row.state = r.state /\ row.task = r.task /\ row.partition = r.partition
            BY Zenon DEF Redirected, RowInv, AgentRow
        <3> QED
            BY Zenon, <1>4, <3>1, <3>2 DEF Immediate, Idle
    <2>2. r.state # "RETIRED"
        BY Zenon, <1>4 DEF Gone
    <2>3. CASE r.pending = s \/ (r.pending = None /\ r.partition = s)
        <3>1. n = [r EXCEPT !.pending = t]
            <4>1. CASE r.pending = s
                <5>1. row = [r EXCEPT !.pending = t]
                    BY Zenon, <2>2, <4>1 DEF Redirected
                <5>2. row.pending = t
                    BY Zenon, <5>1 DEF RowInv, AgentRow
                <5> QED
                    BY Zenon, <1>1, <2>1, <5>1, <5>2 DEF Merged
            <4>2. CASE r.pending = None /\ r.partition = s
                <5>1. row = r
                    BY Zenon, <1>1, <4>2 DEF Redirected
                <5>2. r.state \in {"ASSIGNED", "DRAINING", "SUSPENDED"}
                    BY Zenon, <1>4, <4>2 DEF RowInv, AgentRow, Gone, Idle
                <5> QED
                    BY Zenon, <2>1, <4>2, <5>1, <5>2 DEF Merged
            <4> QED
                BY Zenon, <2>3, <4>1, <4>2
        <3> HIDE DEF n
        <3>2. /\ n \in AgentRow /\ n.state = r.state /\ n.partition = r.partition
              /\ n.pending = t /\ n.retiring = r.retiring /\ n.task = r.task /\ n.bound = r.bound
              /\ n.host = r.host /\ n.executing = r.executing /\ n.loose = r.loose
            BY Zenon, <1>1, <3>1 DEF RowInv, AgentRow
        <3>3. Desired(n) = t /\ (CanStart(r) => CanStart(n)) /\ t \in Active \ {s}
            BY Zenon, <1>1, <3>2 DEF Desired, CanStart
        <3>4. r.state \notin Idle
            BY Zenon, <1>1, <1>4, <2>3 DEF RowInv
        <3>5. r.bound => r.partition \notin Active \ {s}
            BY Zenon, <1>1, <2>3 DEF RowInv
        <3>6. RowInv(n, o, Active \ {s}, Made)
            BY Zenon, <1>1, <1>4, <3>2, <3>3, <3>4, <3>5 DEF RowInv
        <3>7. RowStep(r, n) /\ Keeps(r, n)
            BY Zenon, <3>2 DEF RowStep, Keeps
        <3> QED
            BY Zenon, <3>6, <3>7 DEF n
    <2>4. CASE ~(r.pending = s \/ (r.pending = None /\ r.partition = s))
        <3>1. row = r
            BY Zenon, <2>4 DEF Redirected
        <3>2. n = r
            BY Zenon, <2>1, <2>4, <3>1 DEF Merged
        <3>3. Desired(r) # s
            BY Zenon, <2>4 DEF Desired
        <3>4. RowInv(r, o, Active \ {s}, Made)
            BY Zenon, <3>3, ShrunkRow
        <3> QED
            BY Zenon, <3>2, <3>4 DEF RowStep, Keeps
    <2> QED
        BY Zenon, <2>3, <2>4
<1> QED
    BY Zenon, <1>2, <1>3, <1>4

\* retire_partition: nobody that stands in p works or is SUSPENDED, and what is idle
\* there retires.
LEMMA DepartedRow ==
    ASSUME TInv, NEW o, NEW r, RowInv(r, o, Active, Made), NEW p \in Active,
           r.state # "RETIRED" => r.pending # p /\ (r.partition = p => o = None),
           r.partition = p => r.task = None
    PROVE  /\ RowInv(Departed(r, p), o, Active \ {p}, Made)
           /\ RowStep(r, Departed(r, p)) /\ Keeps(r, Departed(r, p))
<1> DEFINE n == Departed(r, p)
<1>1. p # None
    BY Zenon, PartitionFacts
<1>2. CASE r.partition = p
    <2>1. r.state \notin Gone
        BY Zenon, <1>1, <1>2 DEF RowInv, Unborn
    <2>2. r.state # "RETIRED" /\ r.task = None /\ o = None
        BY Zenon, <1>2, <2>1 DEF Gone
    <2>3. r.state \in Idle
        <3>1. r.state \in Idle \cup Working \cup {"SUSPENDED"}
            BY Zenon, <2>1 DEF RowInv, AgentRow, Gone, Idle, Working
        <3>2. r.state # "SUSPENDED"
            BY Zenon, <1>2, <2>2 DEF RowInv
        <3>3. r.state \notin Working
            BY Zenon, <2>2 DEF RowInv
        <3> QED
            BY Zenon, <3>1, <3>2, <3>3
    <2>4. r.pending = None
        BY Zenon, <2>3 DEF RowInv
    <2>5. n = retire_logical_agent(r)
        BY Zenon, <1>2, <2>3, <2>4 DEF Departed, Departing, Idle
    <2>6. n.state = "RETIRED" /\ n.task = None
        BY Zenon, <2>5 DEF retire_logical_agent, Unborn
    <2> HIDE DEF n
    <2>7. RowInv(n, o, Active \ {p}, Made) /\ RowStep(r, n)
        BY Zenon, <2>2, <2>5, RetiredRow
    <2>8. Keeps(r, n)
        BY Zenon, <2>2, <2>6 DEF Keeps
    <2> QED
        BY Zenon, <2>7, <2>8 DEF n
<1>3. CASE r.partition # p
    <2>1. n = r
        BY Zenon, <1>3 DEF Departed, Departing
    <2>2. r.state \notin Gone => Desired(r) # p
        BY Zenon, <1>3 DEF Desired, Gone
    <2>3. RowInv(r, o, Active \ {p}, Made)
        BY Zenon, <2>2, ShrunkRow
    <2> QED
        BY Zenon, <2>1, <2>3 DEF RowStep, Keeps
<1> QED
    BY Zenon, <1>2, <1>3

-----------------------------------------------------------------------------
(* Steps *)

\* What a step is to show.
TStep == TInv' /\ \A a \in Agents : RowStep(agent[a], agent'[a])

\* A step that does not touch the agents, and closes no partition.
LEMMA RowKept ==
    ASSUME NEW act, NEW made, NEW act2, NEW made2, made \subseteq made2, act \subseteq act2,
           act2 \cap made \subseteq act, NEW o, NEW r, RowInv(r, o, act, made)
    PROVE  RowInv(r, o, act2, made2)
<1>1. r.state \notin Gone => r.partition \in made2 /\ Desired(r) \in act2
    BY Zenon DEF RowInv
<1>2. r.bound /\ r.pending # None => r.partition \notin act2
    <2>1. r.state \in Gone => r.pending = None
        BY Zenon DEF RowInv, Unborn
    <2> QED
        BY Zenon, <2>1 DEF RowInv
<1> QED
    BY Zenon, <1>1, <1>2 DEF RowInv

TaskRow == [state : {"unknown", "QUEUED", "LEASED", "SUSPENDED", "ended"},
            partition : Partitions \cup {None}]

OpenRow(v) == v.state \in {"QUEUED", "LEASED", "SUSPENDED"} => v.partition \in Active

LEMMA SamePartitions == ASSUME UNCHANGED partition PROVE Active' = Active /\ Made' = Made
BY Zenon DEF Active, Made

\* A step that writes the row of one task.
LEMMA OneTask ==
    ASSUME TInv, UNCHANGED partition, NEW k \in Tasks, NEW v \in TaskRow, OpenRow(v),
           task' = [task EXCEPT ![k] = v]
    PROVE  /\ task' \in [Tasks -> TaskRow] /\ TasksInv'
           /\ task'[k] = v /\ \A j \in Tasks \ {k} : task'[j] = task[j]
<1>1. task \in [Tasks -> TaskRow]
    BY Zenon DEF TInv, TypeOK, TaskRow
<1>2. task' \in [Tasks -> TaskRow] /\ task'[k] = v /\ \A j \in Tasks \ {k} : task'[j] = task[j]
    BY Zenon, <1>1
<1>3. TasksInv'
    BY Zenon, <1>2, SamePartitions DEF TInv, TasksInv, Open, OpenRow
<1> QED
    BY Zenon, <1>2, <1>3

\* A step that leaves the tasks alone.
LEMMA NoTask ==
    ASSUME TInv, UNCHANGED <<partition, task>>
    PROVE  task' \in [Tasks -> TaskRow] /\ TasksInv'
<1>1. task \in [Tasks -> TaskRow]
    BY Zenon DEF TInv, TypeOK, TaskRow
<1> QED
    BY Zenon, <1>1, SamePartitions DEF TInv, TasksInv, Open

\* What a step that makes n of the row of a does to the tasks: those of others stay.
Turn(a, n) ==
    /\ \A k \in Tasks : task'[k] = task[k] \/ k = agent[a].task \/ task[k].state # "LEASED"
    /\ n.task # None =>
          /\ n.task = agent[a].task \/ task[n.task].state # "LEASED"
          /\ task'[n.task].state = "LEASED"
          /\ n.partition \in Active => task'[n.task].partition = n.partition

\* What a step may do to the list of candidates for revival.
ListKept ==
    /\ DOMAIN listed' \subseteq DOMAIN listed
    /\ \A b \in DOMAIN listed' : listed'[b] = listed[b]

\* A step that writes the row of one agent, and its obligation.
LEMMA OneAgent ==
    ASSUME TInv, UNCHANGED partition, NEW a \in Agents, NEW n, NEW o \in Tasks \cup {None},
           agent' = [agent EXCEPT ![a] = n], obligation' = [obligation EXCEPT ![a] = o],
           RowInv(n, o, Active, Made), RowStep(agent[a], n), Turn(a, n),
           task' \in [Tasks -> TaskRow], TasksInv', ListKept,
           a \in DOMAIN listed' => n.state \in {"REVIVING", "RETIRED"}
    PROVE  TStep
<1>1. /\ agent \in [Agents -> AgentRow] /\ obligation \in [Agents -> Tasks \cup {None}]
      /\ n \in AgentRow
    BY Zenon DEF TInv, TypeOK, RowInv
<1>2. /\ agent' \in [Agents -> AgentRow] /\ obligation' \in [Agents -> Tasks \cup {None}]
      /\ agent'[a] = n /\ obligation'[a] = o
      /\ \A b \in Agents \ {a} : agent'[b] = agent[b] /\ obligation'[b] = obligation[b]
    BY Zenon, <1>1
<1>3. Active' = Active /\ Made' = Made
    BY Zenon, SamePartitions
<1>4. AgentsInv'
    BY Zenon, <1>2, <1>3 DEF TInv, AgentsInv
<1>5. ListedInv' /\ DOMAIN listed' \subseteq Agents /\ \A b \in DOMAIN listed' : listed'[b] \in Targets
    <2>1. /\ DOMAIN listed \subseteq Agents /\ \A b \in DOMAIN listed : listed[b] \in Targets
          /\ \A b \in DOMAIN listed : agent[b].state \in {"REVIVING", "RETIRED"}
        BY Zenon DEF TInv, TypeOK, ListedInv
    <2> QED
        BY Zenon, <1>2, <2>1 DEF ListKept, ListedInv
<1>6. TypeOK'
    BY Zenon, <1>2, <1>5 DEF TInv, TypeOK, TaskRow
<1>7. ASSUME NEW b \in Agents PROVE Works(b)'
    <2>1. \A c \in Agents : agent[c].task \in Tasks \cup {None}
        BY Zenon, <1>1 DEF AgentRow
    <2>2. CASE b = a
        <3>1. n.task # None => \A c \in Agents \ {a} : agent'[c].task # n.task
            <4> SUFFICES ASSUME n.task # None, NEW c \in Agents \ {a}, agent[c].task = n.task
                         PROVE  FALSE
                BY Zenon, <1>2
            <4>1. Works(c) /\ Works(a)
                BY Zenon DEF TInv
            <4> QED
                BY Zenon, <4>1 DEF Works, Turn
        <3> QED
            BY Zenon, <1>2, <1>3, <2>2, <3>1 DEF Works, Turn
    <2>3. CASE b # a
        <3> SUFFICES ASSUME agent[b].task # None
                     PROVE  /\ task'[agent[b].task].state = "LEASED"
                            /\ agent[b].partition \in Active =>
                                  task'[agent[b].task].partition = agent[b].partition
                            /\ \A c \in Agents \ {b} : agent'[c].task # agent[b].task
            BY Zenon, <1>2, <1>3, <2>3 DEF Works
        <3>1. /\ task[agent[b].task].state = "LEASED"
              /\ agent[b].partition \in Active => task[agent[b].task].partition = agent[b].partition
              /\ \A c \in Agents \ {b} : agent[c].task # agent[b].task
            BY Zenon DEF TInv, Works
        <3>2. agent[b].task \in Tasks /\ agent[b].task # agent[a].task
            BY Zenon, <2>1, <2>3, <3>1
        <3>3. task'[agent[b].task] = task[agent[b].task]
            BY Zenon, <3>1, <3>2 DEF Turn
        <3>4. n.task # agent[b].task
            BY Zenon, <3>1, <3>2 DEF Turn
        <3> QED
            BY Zenon, <1>2, <2>3, <3>1, <3>3, <3>4
    <2> QED
        BY Zenon, <2>2, <2>3
<1>8. \A b \in Agents : RowStep(agent[b], agent'[b])
    BY Zenon, <1>2 DEF RowStep
<1>9. Active' \subseteq Made'
    BY Zenon, <1>3 DEF TInv
<1> QED
    BY Zenon, <1>4, <1>5, <1>6, <1>7, <1>8, <1>9 DEF TStep, TInv

LEMMA RowOf ==
    ASSUME TInv, NEW a \in Agents
    PROVE  /\ RowInv(agent[a], obligation[a], Active, Made) /\ agent[a] \in AgentRow
           /\ agent[a].task \in Tasks \cup {None} /\ Works(a)
           /\ obligation[a] \in Tasks \cup {None}
           /\ obligation = [obligation EXCEPT ![a] = obligation[a]]
<1>1. /\ RowInv(agent[a], obligation[a], Active, Made) /\ Works(a)
      /\ obligation \in [Agents -> Tasks \cup {None}]
    BY Zenon DEF TInv, TypeOK, AgentsInv
<1>2. agent[a] \in AgentRow
    BY Zenon, <1>1 DEF RowInv
<1>3. agent[a].task \in Tasks \cup {None}
    BY Zenon, <1>2 DEF AgentRow
<1>4. obligation[a] \in Tasks \cup {None} /\ obligation = [obligation EXCEPT ![a] = obligation[a]]
    BY Zenon, <1>1
<1> QED
    BY Zenon, <1>1, <1>2, <1>3, <1>4

LEMMA TaskOf ==
    ASSUME TInv, NEW k \in Tasks
    PROVE  /\ task[k] \in TaskRow
           /\ task[k].state \in {"QUEUED", "LEASED", "SUSPENDED"} => task[k].partition \in Active
BY Zenon DEF TInv, TypeOK, TaskRow, TasksInv, Open

\* A working agent of which the end of its attempt leaves this host may be released.
LEMMA WorkingIsReleasable ==
    ASSUME TInv, NEW a \in Agents, agent[a].task # None, NEW host \in HostsAfter(agent[a])
    PROVE  /\ Releasable([agent[a] EXCEPT !.host = host])
           /\ [agent[a] EXCEPT !.host = host].host = host
           /\ [agent[a] EXCEPT !.host = host].retiring = agent[a].retiring
           /\ [agent[a] EXCEPT !.host = host].executing = agent[a].executing
           /\ host = agent[a].host \/ (host = None /\ agent[a].executing)
<1> DEFINE r == agent[a]
           row == [r EXCEPT !.host = host]
<1>1. RowInv(r, obligation[a], Active, Made)
    BY Zenon, RowOf
<1>2. host = r.host \/ (host = None /\ r.executing)
    BY Zenon DEF HostsAfter
<1> HIDE DEF r
<1>3. /\ row \in AgentRow /\ row.partition = r.partition /\ row.pending = r.pending
      /\ row.loose = r.loose /\ row.bound = r.bound /\ row.host = host /\ row.retiring = r.retiring
      /\ row.executing = r.executing
    BY Zenon, <1>1, <1>2 DEF RowInv, AgentRow
<1> HIDE DEF row
<1>4. r.state \in Working /\ r.state \notin Gone /\ r.loose = None
    BY Zenon, <1>1 DEF RowInv, r, Working, Gone
<1>5. Desired(row) = Desired(r) /\ CanStart(row)
    BY Zenon, <1>1, <1>2, <1>3, <1>4 DEF Desired, CanStart, RowInv
<1>6. Releasable(row)
    BY Zenon, <1>1, <1>2, <1>3, <1>4, <1>5 DEF Releasable, RowInv
<1> QED
    BY Zenon, <1>2, <1>3, <1>6 DEF r, row

LEMMA PutRow ==
    ASSUME TInv, NEW k \in Tasks, task[k].state \in {"QUEUED", "LEASED", "SUSPENDED"},
           NEW next \in {"QUEUED", "SUSPENDED", "ended"}
    PROVE  Put(k, next) \in TaskRow /\ OpenRow(Put(k, next))
<1>1. task[k] \in TaskRow /\ task[k].partition \in Active
    BY Zenon, TaskOf
<1> QED
    BY Zenon, <1>1 DEF Put, TaskRow, OpenRow

LEMMA EndAttemptStep ==
    ASSUME TInv, NEW a \in Agents, NEW next \in {"QUEUED", "ended"}, EndAttempt(a, next)
    PROVE  TStep
<1> DEFINE r == agent[a]
           k == agent[a].task
<1>1. PICK host \in HostsAfter(r) : agent' = [agent EXCEPT ![a] = release_agent([r EXCEPT !.host = host])]
    BY Zenon DEF EndAttempt
<1> DEFINE row == [r EXCEPT !.host = host]
           n == release_agent(row)
<1>2. /\ k # None /\ task' = [task EXCEPT ![k] = Put(k, next)]
      /\ UNCHANGED <<partition, obligation, listed>>
    BY Zenon DEF EndAttempt
<1>3. /\ Releasable(row) /\ row.host = host /\ row.retiring = r.retiring
      /\ row.executing = r.executing
      /\ host = r.host \/ (host = None /\ r.executing)
    BY Zenon, <1>2, WorkingIsReleasable
<1>4. /\ RowInv(n, None, Active, Made) /\ RowStep(row, n) /\ ~n.executing /\ n.task = None
    BY Zenon, <1>3, ReleasedRow
<1>5. agent' = [agent EXCEPT ![a] = n]
    BY Zenon, <1>1
<1> HIDE DEF n, row
<1>6. RowStep(r, n)
    BY Zenon, <1>3, <1>4 DEF RowStep
<1>7. /\ k \in Tasks /\ task[k].state = "LEASED" /\ obligation[a] = None /\ r.state \in Working
    <2>1. r.state \in Working
        BY Zenon, <1>2, RowOf DEF RowInv
    <2>2. obligation[a] = None
        BY Zenon, <2>1, RowOf DEF RowInv, Working
    <2> QED
        BY Zenon, <1>2, <2>1, <2>2, RowOf DEF Works
<1>8. Put(k, next) \in TaskRow /\ OpenRow(Put(k, next))
    BY Zenon, <1>7, PutRow
<1>9. /\ task' \in [Tasks -> TaskRow] /\ TasksInv'
      /\ \A j \in Tasks \ {k} : task'[j] = task[j]
    BY Zenon, <1>2, <1>7, <1>8, OneTask
<1>10. Turn(a, n)
    BY Zenon, <1>4, <1>9 DEF Turn
<1>11. ListKept /\ (a \notin DOMAIN listed')
    <2>1. a \notin DOMAIN listed
        BY Zenon, <1>7 DEF TInv, ListedInv, Working
    <2> QED
        BY Zenon, <1>2, <2>1 DEF ListKept
<1>12. obligation' = [obligation EXCEPT ![a] = None] /\ None \in Tasks \cup {None}
    BY Zenon, <1>2, <1>7, RowOf
<1> QED
    BY Zenon, <1>2, <1>4, <1>5, <1>6, <1>9, <1>10, <1>11, <1>12, OneAgent

\* suspend_current: the agent stays where it stands, behind the obligation.
LEMMA SuspendStep ==
    ASSUME TInv, NEW a \in Agents, NEW next \in {"ended", "SUSPENDED"}, suspend_current(a, next)
    PROVE  TStep
<1> DEFINE r == agent[a]
           k == agent[a].task
<1>1. PICK loose \in {None, r.host.target} :
         agent' = [agent EXCEPT ![a] = [r EXCEPT !.state = "SUSPENDED", !.task = None,
                                                 !.executing = FALSE, !.host = None,
                                                 !.loose = loose]]
    BY Zenon DEF suspend_current
<1> DEFINE n == [r EXCEPT !.state = "SUSPENDED", !.task = None, !.executing = FALSE,
                          !.host = None, !.loose = loose]
<1>2. /\ k # None /\ r.executing /\ task' = [task EXCEPT ![k] = Put(k, next)]
      /\ obligation' = [obligation EXCEPT ![a] = k]
      /\ UNCHANGED <<partition, listed>>
    BY Zenon DEF suspend_current
<1>3. /\ RowInv(r, obligation[a], Active, Made) /\ r \in AgentRow /\ k \in Tasks
      /\ task[k].state = "LEASED"
    BY Zenon, <1>2, RowOf DEF Works
<1>4. r.state \in Working /\ r.state \notin Gone /\ loose \in Targets \cup {None}
    <2>1. r.state \in Working /\ r.host # None
        BY Zenon, <1>2, <1>3 DEF RowInv
    <2>2. r.host.target \in Targets
        BY Zenon, <1>3, <2>1 DEF AgentRow, Host
    <2> QED
        BY Zenon, <2>1, <2>2 DEF Working, Gone
<1> HIDE DEF r
<1>5. /\ n \in AgentRow /\ n.state = "SUSPENDED" /\ n.partition = r.partition
      /\ n.pending = r.pending /\ n.retiring = r.retiring /\ n.task = None /\ n.bound = r.bound
      /\ n.host = None /\ n.executing = FALSE
    BY Zenon, <1>3, <1>4 DEF AgentRow
<1>6. agent' = [agent EXCEPT ![a] = n]
    BY Zenon, <1>1 DEF r
<1> HIDE DEF n
<1>7. Desired(n) = Desired(r)
    BY Zenon, <1>5 DEF Desired
<1>8. RowInv(n, k, Active, Made)
    BY Zenon, <1>2, <1>3, <1>4, <1>5, <1>7 DEF RowInv, Gone, Idle, Working
<1>9. RowStep(r, n)
    BY Zenon, <1>2, <1>5 DEF RowStep, r
<1>10. Put(k, next) \in TaskRow /\ OpenRow(Put(k, next))
    BY Zenon, <1>3, PutRow
<1>11. /\ task' \in [Tasks -> TaskRow] /\ TasksInv'
       /\ \A j \in Tasks \ {k} : task'[j] = task[j]
    BY Zenon, <1>2, <1>3, <1>10, OneTask
<1>12. Turn(a, n)
    BY Zenon, <1>5, <1>11 DEF Turn
<1>13. ListKept /\ a \notin DOMAIN listed'
    <2>1. a \notin DOMAIN listed
        BY Zenon, <1>4 DEF TInv, ListedInv, Working, r
    <2> QED
        BY Zenon, <1>2, <2>1 DEF ListKept
<1>14. k \in Tasks \cup {None}
    BY Zenon, <1>3
<1>15. UNCHANGED partition
    BY Zenon, <1>2
<1> HIDE DEF k
<1> QED
    BY Zenon, <1>2, <1>6, <1>8, <1>9, <1>11, <1>12, <1>13, <1>14, <1>15, OneAgent DEF r

\* resolve_escalation: the agent is prepared for revival, or retires.
LEMMA ResolveStep ==
    ASSUME TInv, NEW a \in Agents, NEW next \in {"QUEUED", "ended"}, resolve_escalation(a, next)
    PROVE  TStep
<1> DEFINE r == agent[a]
           k == obligation[a]
           row == [r EXCEPT !.loose = None]
           rel == release_agent(row)
           n == prepare_agent_revival_after_safety(row)
<1>1. /\ k # None /\ agent' = [agent EXCEPT ![a] = n]
      /\ obligation' = [obligation EXCEPT ![a] = None]
      /\ task' = (IF task[k].state = "SUSPENDED" THEN [task EXCEPT ![k] = Put(k, next)] ELSE task)
      /\ UNCHANGED <<partition, listed>>
    BY Zenon DEF resolve_escalation
<1>2. /\ RowInv(r, k, Active, Made) /\ r \in AgentRow /\ k \in Tasks
    BY Zenon, <1>1, RowOf
<1>3. r.state = "SUSPENDED" /\ r.host = None /\ r.state \notin Gone /\ r.task = None
    BY Zenon, <1>1, <1>2 DEF RowInv, Gone, Working
<1> HIDE DEF r
<1>4. /\ row \in AgentRow /\ row.state = r.state /\ row.partition = r.partition
      /\ row.pending = r.pending /\ row.retiring = r.retiring /\ row.bound = r.bound
      /\ row.host = None /\ row.loose = None
    BY Zenon, <1>2, <1>3 DEF AgentRow
<1> HIDE DEF row
<1>5. Desired(row) = Desired(r) /\ CanStart(row)
    BY Zenon, <1>4 DEF Desired, CanStart
<1>6. Releasable(row)
    BY Zenon, <1>2, <1>3, <1>4, <1>5 DEF Releasable, RowInv
<1>7. /\ RowInv(rel, None, Active, Made) /\ RowStep(row, rel)
      /\ rel.state \in {"RETIRED", "READY"} /\ rel.task = None
    BY Zenon, <1>4, <1>6, ReleasedRow
<1>8. n = IF rel.state = "READY" THEN [rel EXCEPT !.state = "REVIVING"] ELSE rel
    BY Zenon DEF prepare_agent_revival_after_safety
<1> HIDE DEF rel, n
<1>9. /\ RowInv(n, None, Active, Made) /\ RowStep(r, n) /\ n.task = None
    <2>1. CASE rel.state # "READY"
        BY Zenon, <1>3, <1>4, <1>7, <1>8, <2>1 DEF RowStep
    <2>2. CASE rel.state = "READY"
        <3>1. n = [rel EXCEPT !.state = "REVIVING"]
            BY Zenon, <1>8, <2>2
        <3>2. /\ n \in AgentRow /\ n.state = "REVIVING" /\ n.partition = rel.partition
              /\ n.pending = rel.pending /\ n.retiring = rel.retiring /\ n.task = rel.task
              /\ n.bound = rel.bound /\ n.host = rel.host /\ n.executing = rel.executing
              /\ n.loose = rel.loose
            BY Zenon, <1>7, <3>1 DEF RowInv, AgentRow
        <3>3. Desired(n) = Desired(rel) /\ (CanStart(rel) => CanStart(n))
            BY Zenon, <3>2 DEF Desired, CanStart
        <3>4. RowInv(n, None, Active, Made)
            BY Zenon, <1>7, <2>2, <3>2, <3>3 DEF RowInv, Gone, Idle, Working
        <3>5. RowStep(r, n)
            BY Zenon, <1>3, <1>4, <1>7, <2>2, <3>2 DEF RowStep
        <3> QED
            BY Zenon, <1>7, <3>2, <3>4, <3>5
    <2> QED
        BY Zenon, <2>1, <2>2
<1>10. /\ task' \in [Tasks -> TaskRow] /\ TasksInv'
       /\ \A j \in Tasks : task'[j] = task[j] \/ task[j].state = "SUSPENDED"
    <2>1. CASE task[k].state = "SUSPENDED"
        <3>1. Put(k, next) \in TaskRow /\ OpenRow(Put(k, next))
            BY Zenon, <1>2, <2>1, PutRow
        <3> QED
            BY Zenon, <1>1, <1>2, <2>1, <3>1, OneTask
    <2>2. CASE task[k].state # "SUSPENDED"
        BY Zenon, <1>1, <2>2, NoTask
    <2> QED
        BY Zenon, <2>1, <2>2
<1>11. Turn(a, n)
    BY Zenon, <1>9, <1>10 DEF Turn
<1>12. ListKept /\ a \notin DOMAIN listed'
    <2>1. a \notin DOMAIN listed
        BY Zenon, <1>3 DEF TInv, ListedInv, r
    <2> QED
        BY Zenon, <1>1, <2>1 DEF ListKept
<1>13. UNCHANGED partition /\ None \in Tasks \cup {None}
    BY Zenon, <1>1
<1> HIDE DEF k
<1> QED
    BY Zenon, <1>1, <1>9, <1>10, <1>11, <1>12, <1>13, OneAgent DEF r

\* An agent that may be claimed, READY or just born, with its host for the task.
Fit(row, p) ==
    /\ row \in AgentRow /\ row.partition = p /\ row.pending = None /\ row.retiring = FALSE
    /\ row.executing = FALSE /\ row.loose = None /\ CanStart(row)
    /\ row.host # None /\ row.host.provisioned => row.bound

\* claim_selected.
LEMMA ClaimStep ==
    ASSUME TInv, NEW a \in Agents, NEW k \in Tasks, NEW row, Claimable(k), Claim(k, a, row),
           agent[a].state \in {"READY", "unborn"}, Fit(row, task[k].partition),
           agent[a].host # None /\ agent[a].host.used => row.host = agent[a].host
    PROVE  TStep
<1> DEFINE n == [row EXCEPT !.state = "ASSIGNED", !.task = k]
           v == [task[k] EXCEPT !.state = "LEASED"]
           p == task[k].partition
<1>1. /\ task' = [task EXCEPT ![k] = v] /\ agent' = [agent EXCEPT ![a] = n]
      /\ UNCHANGED <<partition, obligation, listed>>
    BY Zenon DEF Claim
<1>2. /\ task[k] \in TaskRow /\ task[k].state = "QUEUED" /\ p \in Active /\ p \in Made /\ k # None
    BY Zenon, TaskOf, PartitionFacts DEF Claimable
<1>3. v \in TaskRow /\ v.state = "LEASED" /\ v.partition = p
    BY Zenon, <1>2 DEF TaskRow
<1> HIDE DEF v, p
<1>4. /\ n \in AgentRow /\ n.state = "ASSIGNED" /\ n.partition = p /\ n.pending = None
      /\ n.retiring = FALSE /\ n.task = k /\ n.bound = row.bound /\ n.host = row.host
      /\ n.executing = FALSE /\ n.loose = None
    BY Zenon DEF Fit, AgentRow, p
<1> HIDE DEF n
<1>5. obligation[a] = None /\ a \notin DOMAIN listed /\ agent[a].task = None
    <2>1. obligation[a] = None /\ agent[a].task = None
        BY Zenon, RowOf DEF RowInv, Working
    <2> QED
        BY Zenon, <2>1 DEF TInv, ListedInv
<1>6. Desired(n) = p /\ CanStart(n)
    BY Zenon, <1>4 DEF Desired, CanStart, Fit, p
<1>7. RowInv(n, None, Active, Made)
    BY Zenon, <1>2, <1>4, <1>6 DEF RowInv, Gone, Idle, Working, Fit
<1>8. RowStep(agent[a], n)
    <2>1. agent[a].retiring = FALSE
        BY Zenon, RowOf DEF RowInv, AgentRow
    <2> QED
        BY Zenon, <1>4, <2>1 DEF RowStep
<1>9. OpenRow(v)
    BY Zenon, <1>2, <1>3 DEF OpenRow
<1>10. /\ task' \in [Tasks -> TaskRow] /\ TasksInv'
       /\ task'[k] = v /\ \A j \in Tasks \ {k} : task'[j] = task[j]
    BY Zenon, <1>1, <1>3, <1>9, OneTask
<1>11. Turn(a, n)
    <2>1. task[k].state # "LEASED"
        BY Zenon, <1>2
    <2> QED
        BY Zenon, <1>3, <1>4, <1>10, <2>1 DEF Turn
<1>12. ListKept /\ a \notin DOMAIN listed' /\ UNCHANGED partition /\ None \in Tasks \cup {None}
    BY Zenon, <1>1, <1>5 DEF ListKept
<1>13. obligation' = [obligation EXCEPT ![a] = None]
    BY Zenon, <1>1, <1>5, RowOf
<1> QED
    BY Zenon, <1>1, <1>7, <1>8, <1>10, <1>11, <1>12, <1>13, OneAgent

\* claim_next and the two acquisitions.
LEMMA ClaimsStep ==
    ASSUME TInv, NEW a \in Agents, NEW k \in Tasks,
           \/ claim_next(k, a) \/ acquire_typed_task_existing(k, a)
           \/ acquire_typed_task_new_agent(k, a)
    PROVE  TStep
<1> DEFINE r == agent[a]
           p == task[k].partition
<1>1. Claimable(k) => p \in Active /\ p \in Made /\ p \in Partitions /\ Target[p] \in Targets
    BY Zenon, PartitionFacts DEF Claimable
<1>2. /\ r \in AgentRow /\ RowInv(r, obligation[a], Active, Made)
    BY Zenon, RowOf
<1>3. ASSUME r.state = "READY", r.partition = p PROVE Fit(r, p)
    BY Zenon, <1>2, <1>3 DEF RowInv, Fit, Idle, Working, AgentRow
<1>4. CASE claim_next(k, a)
    <2>1. Claimable(k) /\ Claim(k, a, r) /\ r.state = "READY" /\ r.partition = p
        BY Zenon, <1>4 DEF claim_next
    <2>2. r.state \in {"READY", "unborn"}
        BY Zenon, <2>1
    <2> QED
        BY Zenon, <1>3, <2>1, <2>2, ClaimStep
<1>5. CASE acquire_typed_task_existing(k, a)
    <2> DEFINE row == [r EXCEPT !.host = Reserved(r.host, Target[p])]
    <2>1. /\ Claimable(k) /\ Claim(k, a, row) /\ r.state = "READY" /\ r.partition = p /\ r.bound
          /\ r.host # None => r.host.target = Target[p]
        BY Zenon, <1>5 DEF acquire_typed_task_existing
    <2>2. /\ Reserved(r.host, Target[p]) \in Host
          /\ Reserved(r.host, Target[p]).target = Target[p]
          /\ r.host # None /\ r.host.used => Reserved(r.host, Target[p]) = r.host
        <3>1. r.host \in Host \cup {None}
            BY Zenon, <1>2 DEF AgentRow
        <3> QED
            BY Zenon, <1>1, <2>1, <3>1 DEF Reserved, Host
    <2>3. Fit(r, p)
        BY Zenon, <1>3, <2>1
    <2> HIDE DEF r, p
    <2>4. /\ row \in AgentRow /\ row.state = r.state /\ row.partition = r.partition
          /\ row.pending = r.pending /\ row.retiring = r.retiring /\ row.bound = r.bound
          /\ row.executing = r.executing /\ row.loose = r.loose
          /\ row.host = Reserved(r.host, Target[p])
        BY Zenon, <1>2, <2>2 DEF AgentRow
    <2> HIDE DEF row
    <2>5. Fit(row, p)
        BY Zenon, <2>1, <2>2, <2>3, <2>4 DEF Fit, CanStart
    <2>6. r.host # None /\ r.host.used => row.host = r.host
        BY Zenon, <2>2, <2>4
    <2>7. r.state \in {"READY", "unborn"}
        BY Zenon, <2>1
    <2> QED
        BY Zenon, <2>1, <2>5, <2>6, <2>7, ClaimStep DEF r, p
<1>6. CASE acquire_typed_task_new_agent(k, a)
    <2> DEFINE born == birth_agent(p, TRUE)
               row == [born EXCEPT !.host = Reserved(None, Target[p])]
    <2>1. /\ Claimable(k) /\ Claim(k, a, row) /\ r.state = "unborn"
        BY Zenon, <1>6 DEF acquire_typed_task_new_agent
    <2>2. /\ Reserved(None, Target[p]) \in Host /\ Reserved(None, Target[p]).target = Target[p]
        BY Zenon, <1>1, <2>1 DEF Reserved, Host
    <2>3. /\ born \in AgentRow /\ born.partition = p /\ born.pending = None
          /\ born.retiring = FALSE /\ born.executing = FALSE /\ born.loose = None
          /\ born.bound = TRUE
        BY Zenon, <1>1, <2>1 DEF birth_agent, Unborn, AgentRow
    <2>4. r.host = None
        BY Zenon, <1>2, <2>1 DEF RowInv, Gone, Unborn
    <2> HIDE DEF r, p, born
    <2>5. /\ row \in AgentRow /\ row.partition = p /\ row.pending = None
          /\ row.retiring = FALSE /\ row.executing = FALSE /\ row.loose = None
          /\ row.bound = TRUE /\ row.host = Reserved(None, Target[p])
        BY Zenon, <2>2, <2>3 DEF AgentRow
    <2> HIDE DEF row
    <2>6. Fit(row, p)
        BY Zenon, <2>2, <2>5 DEF Fit, CanStart
    <2>7. r.state \in {"READY", "unborn"}
        BY Zenon, <2>1
    <2> QED
        BY Zenon, <2>1, <2>4, <2>6, <2>7, ClaimStep DEF r, p
<1> QED
    BY Zenon, <1>4, <1>5, <1>6

\* bind_logical_agent_type.
LEMMA BindStep == ASSUME TInv, NEW a \in Agents, bind_logical_agent_type(a) PROVE TStep
<1> DEFINE r == agent[a]
           n == [r EXCEPT !.bound = TRUE]
<1>1. /\ r.state = "READY" /\ r.task = None /\ agent' = [agent EXCEPT ![a] = n]
      /\ UNCHANGED <<partition, task, obligation, listed>>
    BY Zenon DEF bind_logical_agent_type
<1>2. /\ r \in AgentRow /\ RowInv(r, obligation[a], Active, Made)
      /\ obligation[a] \in Tasks \cup {None} /\ obligation = [obligation EXCEPT ![a] = obligation[a]]
    BY Zenon, RowOf
<1> HIDE DEF r
<1>3. /\ n \in AgentRow /\ n.state = "READY" /\ n.partition = r.partition
      /\ n.pending = r.pending /\ n.retiring = r.retiring /\ n.task = None /\ n.bound = TRUE
      /\ n.host = r.host /\ n.executing = r.executing /\ n.loose = r.loose
    BY Zenon, <1>1, <1>2 DEF AgentRow
<1> HIDE DEF n
<1>4. Desired(n) = Desired(r) /\ (CanStart(r) => CanStart(n))
    BY Zenon, <1>3 DEF Desired, CanStart
<1>5. RowInv(n, obligation[a], Active, Made)
    BY Zenon, <1>1, <1>2, <1>3, <1>4 DEF RowInv, Gone, Idle, Working
<1>6. RowStep(r, n) /\ Turn(a, n)
    BY Zenon, <1>1, <1>3 DEF RowStep, Turn
<1>7. ListKept /\ a \notin DOMAIN listed' /\ UNCHANGED partition
    <2>1. a \notin DOMAIN listed
        BY Zenon, <1>1 DEF TInv, ListedInv, r
    <2> QED
        BY Zenon, <1>1, <2>1 DEF ListKept
<1>8. task' \in [Tasks -> TaskRow] /\ TasksInv'
    BY Zenon, <1>1, NoTask
<1>9. obligation' = [obligation EXCEPT ![a] = obligation[a]]
    BY Zenon, <1>1, <1>2
<1> QED
    BY Zenon, <1>1, <1>2, <1>5, <1>6, <1>7, <1>8, <1>9, OneAgent DEF r

\* create_execution: the host of the attempt, on the target of the partition.
LEMMA CreateStep == ASSUME TInv, NEW a \in Agents, create_execution(a) PROVE TStep
<1> DEFINE r == agent[a]
           h == [target |-> Target[r.partition], provisioned |-> r.host # None /\ r.host.provisioned,
                 used |-> TRUE]
           n == [r EXCEPT !.executing = TRUE, !.host = h]
<1>1. /\ r.task # None /\ CanStart(r) /\ agent' = [agent EXCEPT ![a] = n]
      /\ UNCHANGED <<partition, task, obligation, listed>>
    BY Zenon DEF create_execution
<1>2. /\ r \in AgentRow /\ RowInv(r, obligation[a], Active, Made) /\ Works(a)
      /\ obligation[a] \in Tasks \cup {None} /\ obligation = [obligation EXCEPT ![a] = obligation[a]]
    BY Zenon, RowOf
<1>3. r.state \in Working /\ r.state \notin Gone /\ obligation[a] = None /\ r.host \in Host \cup {None}
    BY Zenon, <1>1, <1>2 DEF RowInv, Working, Gone, AgentRow
<1>4. r.partition \in Made /\ Target[r.partition] \in Targets
    BY Zenon, <1>2, <1>3, PartitionFacts DEF RowInv
<1> HIDE DEF r
<1>5. /\ h \in Host /\ h.target = Target[r.partition]
      /\ h.provisioned => r.host # None /\ r.host.provisioned
      /\ r.host # None /\ r.host.provisioned /\ r.host.used => h = r.host
    <2>1. h \in Host
        <3>1. (r.host # None /\ r.host.provisioned) \in BOOLEAN
            BY Zenon
        <3> QED
            BY Zenon, <1>4, <3>1 DEF Host
    <2>2. h.target = Target[r.partition] /\ (h.provisioned => r.host # None /\ r.host.provisioned)
        BY Zenon
    <2>3. ASSUME r.host # None, r.host.provisioned, r.host.used PROVE h = r.host
        <3>1. r.host \in Host /\ r.host.target = Target[r.partition]
            BY Zenon, <1>1, <1>3, <2>3 DEF CanStart
        <3> QED
            BY Zenon, <2>3, <3>1 DEF Host
    <2> QED
        BY Zenon, <2>1, <2>2, <2>3
<1> HIDE DEF h
<1>6. /\ n \in AgentRow /\ n.state = r.state /\ n.partition = r.partition
      /\ n.pending = r.pending /\ n.retiring = r.retiring /\ n.task = r.task /\ n.bound = r.bound
      /\ n.host = h /\ n.executing = TRUE /\ n.loose = r.loose
    BY Zenon, <1>2, <1>5 DEF AgentRow
<1> HIDE DEF n
<1>7. Desired(n) = Desired(r) /\ CanStart(n)
    BY Zenon, <1>5, <1>6 DEF Desired, CanStart
<1>8. h # None
    BY Zenon, <1>5, NullAssumption
<1>9. RowInv(n, obligation[a], Active, Made)
    BY Zenon, <1>1, <1>2, <1>3, <1>5, <1>6, <1>7, <1>8 DEF RowInv, Gone, Idle, Working
<1>10. RowStep(r, n)
    BY Zenon, <1>5, <1>6 DEF RowStep
<1>11. Turn(a, n)
    BY Zenon, <1>1, <1>2, <1>6 DEF Works, Turn, r
<1>12. ListKept /\ a \notin DOMAIN listed' /\ UNCHANGED partition
    <2>1. a \notin DOMAIN listed
        BY Zenon, <1>3 DEF TInv, ListedInv, r, Working
    <2> QED
        BY Zenon, <1>1, <2>1 DEF ListKept
<1>13. task' \in [Tasks -> TaskRow] /\ TasksInv'
    BY Zenon, <1>1, NoTask
<1>14. obligation' = [obligation EXCEPT ![a] = obligation[a]]
    BY Zenon, <1>1, <1>2
<1> QED
    BY Zenon, <1>1, <1>2, <1>9, <1>10, <1>11, <1>12, <1>13, <1>14, OneAgent DEF r

\* revive_agent: the candidate is still REVIVING.
LEMMA ReviveStep == ASSUME TInv, NEW a \in Agents, revive_agent(a) PROVE TStep
<1> DEFINE r == agent[a]
           n == [r EXCEPT !.state = "READY"]
<1>1. /\ a \in DOMAIN listed /\ r.state # "RETIRED" /\ agent' = [agent EXCEPT ![a] = n]
      /\ listed' = [b \in DOMAIN listed \ {a} |-> listed[b]]
      /\ UNCHANGED <<partition, task, obligation>>
    BY Zenon DEF revive_agent, CanRevive
<1>2. /\ r \in AgentRow /\ RowInv(r, obligation[a], Active, Made) /\ Works(a)
      /\ obligation[a] \in Tasks \cup {None} /\ obligation = [obligation EXCEPT ![a] = obligation[a]]
    BY Zenon, RowOf
<1>3. r.state = "REVIVING" /\ r.task = None
    <2>1. r.state = "REVIVING"
        BY Zenon, <1>1 DEF TInv, ListedInv
    <2> QED
        BY Zenon, <1>2, <2>1 DEF RowInv, Working
<1> HIDE DEF r
<1>4. /\ n \in AgentRow /\ n.state = "READY" /\ n.partition = r.partition
      /\ n.pending = r.pending /\ n.retiring = r.retiring /\ n.task = None /\ n.bound = r.bound
      /\ n.host = r.host /\ n.executing = r.executing /\ n.loose = r.loose
    BY Zenon, <1>2, <1>3 DEF AgentRow
<1> HIDE DEF n
<1>5. Desired(n) = Desired(r) /\ (CanStart(r) => CanStart(n))
    BY Zenon, <1>4 DEF Desired, CanStart
<1>6. RowInv(n, obligation[a], Active, Made)
    BY Zenon, <1>2, <1>3, <1>4, <1>5 DEF RowInv, Gone, Idle, Working
<1>7. RowStep(r, n) /\ Turn(a, n)
    BY Zenon, <1>1, <1>4 DEF RowStep, Turn
<1>8. DOMAIN listed' = DOMAIN listed \ {a} /\ \A b \in DOMAIN listed \ {a} : listed'[b] = listed[b]
    BY Zenon, <1>1
<1>9. ListKept /\ a \notin DOMAIN listed' /\ UNCHANGED partition
    BY Zenon, <1>1, <1>8 DEF ListKept
<1>10. task' \in [Tasks -> TaskRow] /\ TasksInv'
    BY Zenon, <1>1, NoTask
<1>11. obligation' = [obligation EXCEPT ![a] = obligation[a]]
    BY Zenon, <1>1, <1>2
<1> QED
    BY Zenon, <1>1, <1>2, <1>6, <1>7, <1>9, <1>10, <1>11, OneAgent DEF r

\* Steps that write no agent.
LEMMA NoAgent ==
    ASSUME TInv, UNCHANGED <<agent, obligation>>, Made \subseteq Made', Active \subseteq Active',
           Active' \cap Made \subseteq Active, Active' \subseteq Made',
           partition' \in [Partitions -> [made : BOOLEAN, active : BOOLEAN,
                                          capacity : Nat,
                                          into : Partitions \cup {None}]],
           task' \in [Tasks -> TaskRow], TasksInv',
           \A k \in Tasks : task'[k] = task[k] \/ task[k].state # "LEASED",
           DOMAIN listed' \subseteq Agents, ListedInv', \A a \in DOMAIN listed' : listed'[a] \in Targets
    PROVE  TStep
<1>1. TypeOK'
    BY Zenon DEF TInv, TypeOK, TaskRow
<1>2. AgentsInv'
    BY Zenon, RowKept DEF TInv, AgentsInv
<1>3. ASSUME NEW a \in Agents PROVE Works(a)'
    <2>1. agent[a].task # None => agent[a].task \in Tasks
        BY Zenon, RowOf
    <2>2. agent[a].state \in Gone => agent[a].task = None
        BY Zenon, RowOf DEF RowInv, Gone, Working
    <2>3. agent[a].task # None => agent[a].partition \in Made
        BY Zenon, <2>2, RowOf DEF RowInv
    <2> QED
        BY Zenon, <2>1, <2>3 DEF TInv, Works
<1>4. \A a \in Agents : RowStep(agent[a], agent'[a])
    BY Zenon DEF RowStep
<1> QED
    BY Zenon, <1>1, <1>2, <1>3, <1>4 DEF TStep, TInv

\* upsert_partition and resize_partition.
LEMMA PartitionsStep ==
    ASSUME TInv, NEW p \in Partitions, NEW c \in 0 .. MaxCapacity,
           upsert_partition(p, c) \/ resize_partition(p, c)
    PROVE  TStep
<1> DEFINE Row == [made : BOOLEAN, active : BOOLEAN, capacity : Nat,
                   into : Partitions \cup {None}]
<1>1. /\ UNCHANGED <<agent, task, obligation, listed>>
    BY Zenon DEF upsert_partition, resize_partition
<1>2. partition \in [Partitions -> Row] /\ c \in Nat
    BY TopologyAssumption DEF TInv, TypeOK
<1>3. /\ partition' \in [Partitions -> Row]
      /\ \A q \in Partitions \ {p} : partition'[q] = partition[q]
      /\ \/ ~partition[p].made /\ partition'[p].made /\ partition'[p].active
         \/ partition'[p].made = partition[p].made /\ partition'[p].active = partition[p].active
    <2>1. CASE upsert_partition(p, c)
        BY Zenon, <1>2, <2>1 DEF upsert_partition
    <2>2. CASE resize_partition(p, c)
        BY Zenon, <1>2, <2>2 DEF resize_partition
    <2> QED
        BY Zenon, <2>1, <2>2
<1>4. Active \subseteq Made
    BY Zenon DEF TInv
<1>5. /\ Made \subseteq Made' /\ Active \subseteq Active' /\ Active' \cap Made \subseteq Active
      /\ Active' \subseteq Made'
    BY Zenon, <1>3, <1>4 DEF Active, Made
<1>6. task' \in [Tasks -> TaskRow] /\ TasksInv'
    BY Zenon, <1>1, <1>5 DEF TInv, TypeOK, TaskRow, TasksInv, Open
<1>7. /\ DOMAIN listed' \subseteq Agents /\ ListedInv'
      /\ \A a \in DOMAIN listed' : listed'[a] \in Targets
    BY Zenon, <1>1 DEF TInv, TypeOK, ListedInv
<1> QED
    BY Zenon, <1>1, <1>3, <1>5, <1>6, <1>7, NoAgent

\* submit_batch and cancel_task.
LEMMA TasksStep ==
    ASSUME TInv, NEW k \in Tasks, (\E p \in Partitions : submit_batch(k, p)) \/ cancel_task(k)
    PROVE  TStep
<1>1. UNCHANGED <<partition, agent, obligation, listed>>
    BY Zenon DEF submit_batch, cancel_task
<1>2. PICK v \in TaskRow : /\ OpenRow(v) /\ task' = [task EXCEPT ![k] = v]
                           /\ task[k].state # "LEASED"
    <2>1. ASSUME NEW p \in Partitions, submit_batch(k, p)
          PROVE  \E v \in TaskRow : /\ OpenRow(v) /\ task' = [task EXCEPT ![k] = v]
                                    /\ task[k].state # "LEASED"
        <3> DEFINE v == [state |-> "QUEUED", partition |-> p]
        <3>1. p \in Active /\ task' = [task EXCEPT ![k] = v] /\ task[k].state = "unknown"
            BY Zenon, <2>1 DEF submit_batch
        <3>2. v \in TaskRow /\ OpenRow(v)
            BY Zenon, <3>1 DEF TaskRow, OpenRow
        <3>3. task[k].state # "LEASED"
            BY Zenon, <3>1
        <3> QED
            BY Zenon, <3>1, <3>2, <3>3
    <2>2. CASE cancel_task(k)
        <3>1. /\ task[k].state \in {"QUEUED", "SUSPENDED"} /\ task' = [task EXCEPT ![k] = Put(k, "ended")]
            BY Zenon, <2>2 DEF cancel_task
        <3>2. Put(k, "ended") \in TaskRow /\ OpenRow(Put(k, "ended")) /\ task[k].state # "LEASED"
            BY Zenon, <3>1, PutRow
        <3> QED
            BY Zenon, <3>1, <3>2
    <2> QED
        BY Zenon, <2>1, <2>2
<1>3. /\ task' \in [Tasks -> TaskRow] /\ TasksInv'
      /\ \A j \in Tasks \ {k} : task'[j] = task[j]
    BY Zenon, <1>1, <1>2, OneTask
<1>4. Active' = Active /\ Made' = Made
    BY Zenon, <1>1, SamePartitions
<1>5. /\ DOMAIN listed' \subseteq Agents /\ ListedInv'
      /\ \A a \in DOMAIN listed' : listed'[a] \in Targets
    BY Zenon, <1>1 DEF TInv, TypeOK, ListedInv
<1>6. partition' \in [Partitions -> [made : BOOLEAN, active : BOOLEAN, capacity : Nat,
                                     into : Partitions \cup {None}]]
    BY Zenon, <1>1 DEF TInv, TypeOK
<1>7. Active \subseteq Made
    BY Zenon DEF TInv
<1> QED
    BY Zenon, <1>1, <1>2, <1>3, <1>4, <1>5, <1>6, <1>7, NoAgent

\* revive_eligible_agents lists the candidates, or gives up.
LEMMA ListStep ==
    ASSUME TInv, ListRevivable \/ \E a \in Agents : ReviveRefused(a)
    PROVE  TStep
<1>1. UNCHANGED <<partition, agent, task, obligation>>
    BY Zenon DEF ListRevivable, ReviveRefused
<1>2. /\ DOMAIN listed' \subseteq Agents /\ ListedInv'
      /\ \A a \in DOMAIN listed' : listed'[a] \in Targets
    <2>1. CASE \E a \in Agents : ReviveRefused(a)
        <3>1. DOMAIN listed' = {}
            BY <2>1 DEF ReviveRefused
        <3> QED
            BY Zenon, <3>1 DEF ListedInv
    <2>2. CASE ListRevivable
        <3> DEFINE found == {a \in Agents : agent[a].state = "REVIVING" /\ agent[a].partition \in Active}
        <3>1. listed' = [a \in found |-> Target[agent[a].partition]]
            BY Zenon, <2>2 DEF ListRevivable
        <3>2. \A a \in found : /\ a \in Agents /\ agent'[a].state \in {"REVIVING", "RETIRED"}
                               /\ Target[agent[a].partition] \in Targets
            BY Zenon, <1>1, PartitionFacts
        <3> HIDE DEF found
        <3> QED
            BY Zenon, <3>1, <3>2 DEF ListedInv
    <2> QED
        BY Zenon, <2>1, <2>2
<1>3. Active' = Active /\ Made' = Made
    BY Zenon, <1>1, SamePartitions
<1>4. task' \in [Tasks -> TaskRow] /\ TasksInv'
    BY Zenon, <1>1, NoTask
<1>5. partition' \in [Partitions -> [made : BOOLEAN, active : BOOLEAN, capacity : Nat,
                                     into : Partitions \cup {None}]]
    BY Zenon, <1>1 DEF TInv, TypeOK
<1>6. Active \subseteq Made
    BY Zenon DEF TInv
<1> QED
    BY Zenon, <1>1, <1>2, <1>3, <1>4, <1>5, <1>6, NoAgent

\* A topology command: it writes the rows of many agents, and may close a partition.
LEMMA AllAgents ==
    ASSUME TInv, UNCHANGED <<obligation, listed>>, Made' = Made, Active' \subseteq Active,
           partition' \in [Partitions -> [made : BOOLEAN, active : BOOLEAN,
                                          capacity : Nat,
                                          into : Partitions \cup {None}]],
           agent' = [a \in Agents |-> agent'[a]],
           \A a \in Agents : /\ RowInv(agent'[a], obligation[a], Active', Made')
                             /\ RowStep(agent[a], agent'[a]) /\ Keeps(agent[a], agent'[a]),
           task' \in [Tasks -> TaskRow], TasksInv',
           \A k \in Tasks : /\ task'[k].state = task[k].state
                            /\ task[k].partition \in Active' => task'[k].partition = task[k].partition
    PROVE  TStep
<1>1. \A a \in Agents : agent'[a] \in AgentRow
    BY Zenon DEF RowInv
<1>2. agent' \in [Agents -> AgentRow]
    BY Zenon, <1>1
<1>3. TypeOK'
    BY Zenon, <1>2 DEF TInv, TypeOK, TaskRow
<1>4. AgentsInv'
    BY Zenon DEF AgentsInv
<1>5. ListedInv'
    BY Zenon DEF TInv, TypeOK, ListedInv, Keeps
<1>6. ASSUME NEW a \in Agents PROVE Works(a)'
    <2>1. agent[a].task # None => agent[a].task \in Tasks
        BY Zenon, RowOf
    <2>2. /\ agent'[a].task = agent[a].task
          /\ agent[a].task # None => agent'[a].partition = agent[a].partition
          /\ \A b \in Agents : agent'[b].task = agent[b].task
        BY Zenon DEF Keeps
    <2>3. ASSUME agent'[a].task # None
          PROVE  /\ task'[agent'[a].task].state = "LEASED"
                 /\ agent'[a].partition \in Active' =>
                       task'[agent'[a].task].partition = agent'[a].partition
                 /\ \A b \in Agents \ {a} : agent'[b].task # agent'[a].task
        <3>1. /\ task[agent[a].task].state = "LEASED"
              /\ agent[a].partition \in Active => task[agent[a].task].partition = agent[a].partition
              /\ \A b \in Agents \ {a} : agent[b].task # agent[a].task
            BY Zenon, <2>2, <2>3 DEF TInv, Works
        <3>2. PICK k \in Tasks : k = agent[a].task
            BY Zenon, <2>1, <2>2, <2>3
        <3>3. /\ task'[k].state = task[k].state
              /\ task[k].partition \in Active' => task'[k].partition = task[k].partition
            BY Zenon
        <3>4. agent'[a].task = k /\ agent'[a].partition = agent[a].partition
            BY Zenon, <2>2, <2>3, <3>2
        <3> QED
            BY Zenon, <2>2, <3>1, <3>2, <3>3, <3>4
    <2> QED
        BY Zenon, <2>3 DEF Works
<1>7. \A a \in Agents : RowStep(agent[a], agent'[a])
    BY Zenon
<1>8. Active' \subseteq Made'
    BY Zenon DEF TInv
<1> QED
    BY Zenon, <1>3, <1>4, <1>5, <1>6, <1>7, <1>8 DEF TStep, TInv

\* The tasks and the partitions do not change.
LEMMA AgentsOnly ==
    ASSUME TInv, UNCHANGED <<partition, task, obligation, listed>>,
           agent' = [a \in Agents |-> agent'[a]],
           \A a \in Agents : /\ RowInv(agent'[a], obligation[a], Active, Made)
                             /\ RowStep(agent[a], agent'[a]) /\ Keeps(agent[a], agent'[a])
    PROVE  TStep
<1>1. Active' = Active /\ Made' = Made
    BY Zenon, SamePartitions
<1>2. task' \in [Tasks -> TaskRow] /\ TasksInv'
    BY Zenon, NoTask
<1>3. partition' \in [Partitions -> [made : BOOLEAN, active : BOOLEAN, capacity : Nat,
                                     into : Partitions \cup {None}]]
    BY Zenon DEF TInv, TypeOK
<1> QED
    BY Zenon, <1>1, <1>2, <1>3, AllAgents

\* The row stays as it is.
LEMMA SameRow == ASSUME NEW r PROVE RowStep(r, r) /\ Keeps(r, r)
BY Zenon DEF RowStep, Keeps

\* reconcile_pool gives birth to an agent.
LEMMA BornRow ==
    ASSUME TInv, NEW p \in Active, NEW o, NEW r, RowInv(r, o, Active, Made), r.state = "unborn"
    PROVE  /\ RowInv(birth_agent(p, FALSE), o, Active, Made)
           /\ RowStep(r, birth_agent(p, FALSE)) /\ Keeps(r, birth_agent(p, FALSE))
<1> DEFINE n == birth_agent(p, FALSE)
<1>1. p \in Partitions /\ p \in Made
    BY Zenon, PartitionFacts
<1>2. /\ n \in AgentRow /\ n.state = "READY" /\ n.partition = p /\ n.pending = None
      /\ n.retiring = FALSE /\ n.task = None /\ n.bound = FALSE /\ n.host = None
      /\ n.executing = FALSE /\ n.loose = None
    BY Zenon, <1>1 DEF birth_agent, Unborn, AgentRow
<1>3. r.task = None /\ r.host = None /\ r.retiring = FALSE
    BY Zenon DEF RowInv, Gone, Unborn
<1>4. o = None
    BY Zenon DEF RowInv
<1> HIDE DEF n
<1>5. Desired(n) = p /\ CanStart(n)
    BY Zenon, <1>2 DEF Desired, CanStart
<1>6. RowInv(n, o, Active, Made)
    BY Zenon, <1>1, <1>2, <1>4, <1>5 DEF RowInv, Gone, Idle, Working
<1>7. RowStep(r, n) /\ Keeps(r, n)
    BY Zenon, <1>2, <1>3 DEF RowStep, Keeps
<1> QED
    BY Zenon, <1>6, <1>7 DEF n

\* reconcile_pool: nobody is DRAINING without a task, so no idle drain is released.
LEMMA ReconcileStep == ASSUME TInv, reconcile_pool PROVE TStep
<1> DEFINE idle == {a \in Agents : /\ agent[a].state = "DRAINING" /\ agent[a].task = None
                                   /\ agent[a].pending # None /\ ~agent[a].retiring}
           rows == [a \in Agents |-> IF a \in idle THEN release_agent(agent[a]) ELSE agent[a]]
<1>1. UNCHANGED <<partition, task, obligation, listed>>
    BY Zenon DEF reconcile_pool
<1>2. PICK surplus \in SUBSET UNION {Members(rows, p) : p \in Active},
           home \in [{a \in Agents : rows[a].state = "unborn"} -> Active \cup {None}] :
        agent' = [a \in Agents |->
                     IF a \in DOMAIN home /\ home[a] # None THEN birth_agent(home[a], FALSE)
                     ELSE IF a \in surplus THEN excess_disposition(rows[a]) ELSE rows[a]]
    BY Zenon DEF reconcile_pool
<1>3. idle = {}
    <2>1. ASSUME NEW a \in Agents, agent[a].state = "DRAINING" PROVE agent[a].task # None
        BY Zenon, <2>1, RowOf DEF RowInv, Working
    <2> QED
        BY Zenon, <2>1
<1>4. \A a \in Agents : rows[a] = agent[a]
    BY Zenon, <1>3
<1>5. /\ \A a \in surplus : agent[a].state \in {"READY", "ASSIGNED", "DRAINING", "REVIVING"}
      /\ \A a \in DOMAIN home : agent[a].state = "unborn" /\ home[a] \in Active \cup {None}
    <2>1. ASSUME NEW a \in surplus
          PROVE  agent[a].state \in {"READY", "ASSIGNED", "DRAINING", "REVIVING"}
        <3>1. PICK p \in Active : a \in Members(rows, p)
            BY Zenon
        <3>2. a \in Agents /\ rows[a].state \in {"READY", "ASSIGNED", "DRAINING", "REVIVING"}
            BY Zenon, <3>1 DEF Members
        <3> QED
            BY Zenon, <1>4, <3>2
    <2>2. ASSUME NEW a \in DOMAIN home
          PROVE  agent[a].state = "unborn" /\ home[a] \in Active \cup {None}
        <3>1. a \in Agents /\ rows[a].state = "unborn" /\ home[a] \in Active \cup {None}
            BY Zenon
        <3> QED
            BY Zenon, <1>4, <3>1
    <2> QED
        BY Zenon, <2>1, <2>2
<1> HIDE DEF idle, rows
<1>6. ASSUME NEW a \in Agents
      PROVE  /\ RowInv(agent'[a], obligation[a], Active, Made)
             /\ RowStep(agent[a], agent'[a]) /\ Keeps(agent[a], agent'[a])
    <2>1. RowInv(agent[a], obligation[a], Active, Made) /\ rows[a] = agent[a]
        BY Zenon, <1>4, RowOf
    <2>2. CASE a \in DOMAIN home /\ home[a] # None
        <3>1. agent'[a] = birth_agent(home[a], FALSE) /\ home[a] \in Active
            BY Zenon, <1>2, <1>5, <2>2
        <3> QED
            BY Zenon, <1>5, <2>1, <2>2, <3>1, BornRow
    <2>3. CASE ~(a \in DOMAIN home /\ home[a] # None) /\ a \in surplus
        <3>1. agent'[a] = excess_disposition(agent[a])
            BY Zenon, <1>2, <2>1, <2>3
        <3>2. agent[a].state \in {"READY", "ASSIGNED", "DRAINING", "REVIVING"}
            BY Zenon, <1>5, <2>3
        <3>3. /\ RowInv(excess_disposition(agent[a]), obligation[a], Active, Made)
              /\ RowStep(agent[a], excess_disposition(agent[a]))
              /\ Keeps(agent[a], excess_disposition(agent[a]))
            BY ONLY <2>1, <3>2, ExcessRow, Zenon
        <3> QED
            BY Zenon, <3>1, <3>3
    <2>4. CASE ~(a \in DOMAIN home /\ home[a] # None) /\ a \notin surplus
        <3>1. agent'[a] = agent[a]
            BY Zenon, <1>2, <2>1, <2>4
        <3> QED
            BY Zenon, <2>1, <3>1, SameRow
    <2> QED
        BY Zenon, <2>2, <2>3, <2>4
<1>7. agent' = [a \in Agents |-> agent'[a]]
    BY Zenon, <1>2
<1> QED
    BY Zenon, <1>1, <1>6, <1>7, AgentsOnly

\* move_capacity.
LEMMA MoveStep ==
    ASSUME TInv, NEW s \in Partitions, NEW t \in Partitions, NEW count \in 1 .. MaxCapacity,
           move_capacity(s, t, count)
    PROVE  TStep
<1> DEFINE Row == [made : BOOLEAN, active : BOOLEAN, capacity : Nat,
                   into : Partitions \cup {None}]
           members == {a \in Agents :
                       /\ Desired(agent[a]) = s
                       /\ agent[a].state \in {"READY", "ASSIGNED", "DRAINING", "REVIVING", "SUSPENDED"}
                       /\ ~agent[a].retiring /\ ~agent[a].bound}
<1>1. /\ s # t /\ s \in Active /\ t \in Active
      /\ count <= partition[s].capacity
      /\ partition' = [partition EXCEPT ![s].capacity = @ - count, ![t].capacity = @ + count]
      /\ UNCHANGED <<task, obligation, listed>>
    BY Zenon DEF move_capacity
<1>2. PICK chosen \in SUBSET members :
        /\ \A a \in chosen : CanMove(agent[a], t)
        /\ agent' = [a \in Agents |-> IF a \in chosen THEN Moved(agent[a], t) ELSE agent[a]]
    BY Zenon DEF move_capacity, FirstBy, kSubset
<1>3. partition \in [Partitions -> Row] /\ MaxCapacity \in Nat
    BY Zenon, TopologyAssumption DEF TInv, TypeOK
<1>4. /\ partition' \in [Partitions -> Row]
      /\ \A q \in Partitions : /\ partition'[q].made = partition[q].made
                               /\ partition'[q].active = partition[q].active
    <2>1. /\ partition[s] \in Row /\ partition[t] \in Row
          /\ partition[s].capacity - count \in Nat
          /\ partition[t].capacity + count \in Nat
        BY <1>1, <1>3
    <2>2. /\ [partition[s] EXCEPT !.capacity = @ - count] \in Row
          /\ [partition[t] EXCEPT !.capacity = @ + count] \in Row
        BY Zenon, <2>1
    <2>3. /\ partition'[s] = [partition[s] EXCEPT !.capacity = @ - count]
          /\ partition'[t] = [partition[t] EXCEPT !.capacity = @ + count]
          /\ \A q \in Partitions \ {s, t} : partition'[q] = partition[q]
          /\ partition' = [q \in Partitions |-> partition'[q]]
        BY Zenon, <1>1, <1>3
    <2>4. /\ partition'[s].made = partition[s].made /\ partition'[s].active = partition[s].active
          /\ partition'[t].made = partition[t].made /\ partition'[t].active = partition[t].active
        BY Zenon, <2>1, <2>3
    <2>5. ASSUME NEW q \in Partitions PROVE partition'[q] \in Row
        <3>1. partition'[s] \in Row /\ partition'[t] \in Row
            BY Zenon, <2>2, <2>3
        <3>2. partition[q] \in Row
            BY Zenon, <1>3
        <3> HIDE DEF Row
        <3> QED
            BY Zenon, <2>3, <3>1, <3>2
    <2> QED
        BY Zenon, <2>3, <2>4, <2>5
<1>5. Active' = Active /\ Made' = Made
    BY Zenon, <1>4 DEF Active, Made
<1>6. ASSUME NEW a \in Agents
      PROVE  /\ RowInv(agent'[a], obligation[a], Active', Made')
             /\ RowStep(agent[a], agent'[a]) /\ Keeps(agent[a], agent'[a])
    <2>1. RowInv(agent[a], obligation[a], Active, Made)
        BY Zenon, RowOf
    <2>2. CASE a \in chosen
        <3>1. agent'[a] = Moved(agent[a], t) /\ CanMove(agent[a], t)
            BY Zenon, <1>2, <2>2
        <3>2. /\ agent[a].state \in {"READY", "ASSIGNED", "DRAINING", "REVIVING", "SUSPENDED"}
              /\ ~agent[a].retiring /\ ~agent[a].bound
            BY Zenon, <2>2
        <3>3. t \in Active
            BY Zenon, <1>1
        <3>4. /\ RowInv(Moved(agent[a], t), obligation[a], Active, Made)
              /\ RowStep(agent[a], Moved(agent[a], t)) /\ Keeps(agent[a], Moved(agent[a], t))
            BY ONLY TInv, <2>1, <3>1, <3>2, <3>3, MovedRow, Zenon
        <3> QED
            BY Zenon, <1>5, <3>1, <3>4
    <2>3. CASE a \notin chosen
        <3>1. agent'[a] = agent[a]
            BY Zenon, <1>2, <2>3
        <3> QED
            BY Zenon, <1>5, <2>1, <3>1, SameRow
    <2> QED
        BY Zenon, <2>2, <2>3
<1>7. agent' = [a \in Agents |-> agent'[a]]
    BY Zenon, <1>2
<1>8. task' \in [Tasks -> TaskRow] /\ TasksInv'
    BY Zenon, <1>1, <1>5 DEF TInv, TypeOK, TaskRow, TasksInv, Open
<1> QED
    BY Zenon, <1>1, <1>4, <1>5, <1>6, <1>7, <1>8, AllAgents

\* merge_partitions: the open tasks follow.
LEMMA MergeStep ==
    ASSUME TInv, NEW s \in Partitions, NEW t \in Partitions, merge_partitions(s, t)
    PROVE  TStep
<1> DEFINE Row == [made : BOOLEAN, active : BOOLEAN, capacity : Nat,
                   into : Partitions \cup {None}]
<1>1. /\ s # t /\ s \in Active /\ t \in Active
      /\ \A a \in Agents : CanMerge(agent[a], s, t)
      /\ agent' = [a \in Agents |-> Merged(agent[a], s, t)]
      /\ task' = [k \in Tasks |-> IF Open(k) /\ task[k].partition = s
                                  THEN [task[k] EXCEPT !.partition = t] ELSE task[k]]
      /\ partition' = [partition EXCEPT
                          ![s] = [@ EXCEPT !.active = FALSE, !.capacity = 0, !.into = t],
                          ![t].capacity = @ + partition[s].capacity]
      /\ UNCHANGED <<obligation, listed>>
    BY Zenon DEF merge_partitions
<1>2. partition \in [Partitions -> Row] /\ task \in [Tasks -> TaskRow]
    BY Zenon DEF TInv, TypeOK, TaskRow
<1>3. /\ partition' \in [Partitions -> Row]
      /\ \A q \in Partitions : partition'[q].made = partition[q].made
      /\ ~partition'[s].active
      /\ \A q \in Partitions \ {s} : partition'[q].active = partition[q].active
    <2>1. /\ partition[s] \in Row /\ partition[t] \in Row
          /\ partition[t].capacity + partition[s].capacity \in Nat
          /\ 0 \in Nat
        BY <1>1, <1>2
    <2>2. /\ [partition[s] EXCEPT !.active = FALSE, !.capacity = 0, !.into = t] \in Row
          /\ [partition[t] EXCEPT !.capacity = @ + partition[s].capacity] \in Row
        BY Zenon, <2>1
    <2>3. /\ partition'[s] = [partition[s] EXCEPT !.active = FALSE, !.capacity = 0, !.into = t]
          /\ partition'[t] = [partition[t] EXCEPT !.capacity = @ + partition[s].capacity]
          /\ \A q \in Partitions \ {s, t} : partition'[q] = partition[q]
          /\ partition' = [q \in Partitions |-> partition'[q]]
        BY Zenon, <1>1, <1>2
    <2>4. /\ partition'[s].made = partition[s].made /\ ~partition'[s].active
          /\ partition'[t].made = partition[t].made /\ partition'[t].active = partition[t].active
        BY Zenon, <2>1, <2>3
    <2>5. \A q \in Partitions : partition'[q] \in Row
        BY Zenon, <1>2, <2>2, <2>3
    <2> QED
        BY Zenon, <2>3, <2>4, <2>5
<1>4. Active' = Active \ {s} /\ Made' = Made
    BY Zenon, <1>3 DEF Active, Made
<1>5. ASSUME NEW a \in Agents
      PROVE  /\ RowInv(agent'[a], obligation[a], Active', Made')
             /\ RowStep(agent[a], agent'[a]) /\ Keeps(agent[a], agent'[a])
    <2>1. RowInv(agent[a], obligation[a], Active, Made)
        BY Zenon, RowOf
    <2>2. agent'[a] = Merged(agent[a], s, t) /\ CanMerge(agent[a], s, t)
        BY Zenon, <1>1
    <2> QED
        BY Zenon, <1>1, <1>4, <2>1, <2>2, MergedRow
<1>6. ASSUME NEW k \in Tasks
      PROVE  /\ task'[k] \in TaskRow /\ task'[k].state = task[k].state
             /\ task[k].partition \in Active' => task'[k].partition = task[k].partition
             /\ Open(k) => task'[k].partition \in Active'
    <2>1. task[k] \in TaskRow
        BY Zenon, <1>2
    <2>2. Open(k) => task[k].partition \in Active
        BY Zenon DEF TInv, TasksInv
    <2>3. CASE Open(k) /\ task[k].partition = s
        <3>1. task'[k] = [task[k] EXCEPT !.partition = t]
            BY Zenon, <1>1, <2>3
        <3>2. task'[k] \in TaskRow /\ task'[k].state = task[k].state /\ task'[k].partition = t
            BY Zenon, <2>1, <3>1 DEF TaskRow
        <3>3. s \notin Active' /\ t \in Active'
            BY Zenon, <1>1, <1>4
        <3> QED
            BY ONLY <2>3, <3>2, <3>3, Zenon
    <2>4. CASE ~(Open(k) /\ task[k].partition = s)
        <3>1. task'[k] = task[k]
            BY Zenon, <1>1, <2>4
        <3> QED
            BY Zenon, <1>4, <2>1, <2>2, <2>4, <3>1
    <2> QED
        BY Zenon, <2>3, <2>4
<1>7. task' \in [Tasks -> TaskRow]
    BY Zenon, <1>1, <1>6
<1>8. TasksInv'
    BY Zenon, <1>6 DEF TasksInv, Open
<1>9. agent' = [a \in Agents |-> agent'[a]] /\ Active' \subseteq Active
    BY Zenon, <1>1, <1>4
<1> QED
    BY Zenon, <1>1, <1>3, <1>4, <1>5, <1>6, <1>7, <1>8, <1>9, AllAgents

\* retire_partition: it has no open task, so no agent works in it.
LEMMA RetireStep == ASSUME TInv, NEW p \in Partitions, retire_partition(p) PROVE TStep
<1> DEFINE Row == [made : BOOLEAN, active : BOOLEAN, capacity : Nat,
                   into : Partitions \cup {None}]
<1>1. /\ p \in Active /\ \A k \in Tasks : Open(k) => task[k].partition # p
      /\ \A a \in Agents : agent[a].state # "RETIRED" =>
            agent[a].pending # p /\ (agent[a].partition = p => obligation[a] = None)
      /\ agent' = [a \in Agents |-> Departed(agent[a], p)]
      /\ partition' = [partition EXCEPT ![p].active = FALSE, ![p].capacity = 0]
      /\ UNCHANGED <<task, obligation, listed>>
    BY Zenon DEF retire_partition
<1>2. partition \in [Partitions -> Row] /\ 0 \in Nat /\ task \in [Tasks -> TaskRow]
    BY TopologyAssumption DEF TInv, TypeOK, TaskRow
<1>3. /\ partition' \in [Partitions -> Row]
      /\ \A q \in Partitions : partition'[q].made = partition[q].made
      /\ ~partition'[p].active
      /\ \A q \in Partitions \ {p} : partition'[q].active = partition[q].active
    BY Zenon, <1>1, <1>2
<1>4. Active' = Active \ {p} /\ Made' = Made
    BY Zenon, <1>3 DEF Active, Made
<1>5. ASSUME NEW a \in Agents
      PROVE  /\ RowInv(agent'[a], obligation[a], Active', Made')
             /\ RowStep(agent[a], agent'[a]) /\ Keeps(agent[a], agent'[a])
    <2>1. /\ RowInv(agent[a], obligation[a], Active, Made)
          /\ agent[a].task # None => agent[a].task \in Tasks
        BY Zenon, RowOf
    <2>2. agent[a].partition = p => agent[a].task = None
        <3>1. SUFFICES ASSUME agent[a].partition = p, agent[a].task # None PROVE FALSE
            BY Zenon
        <3>2. /\ task[agent[a].task].state = "LEASED"
              /\ task[agent[a].task].partition = p
            BY Zenon, <1>1, <3>1 DEF TInv, Works
        <3>3. Open(agent[a].task)
            BY Zenon, <3>2 DEF Open
        <3> QED
            BY Zenon, <1>1, <2>1, <3>1, <3>2, <3>3
    <2>3. agent'[a] = Departed(agent[a], p)
        BY Zenon, <1>1
    <2>4. agent[a].state # "RETIRED" =>
              agent[a].pending # p /\ (agent[a].partition = p => obligation[a] = None)
        BY Zenon, <1>1
    <2>5. p \in Active
        BY Zenon, <1>1
    <2>6. /\ RowInv(Departed(agent[a], p), obligation[a], Active \ {p}, Made)
          /\ RowStep(agent[a], Departed(agent[a], p)) /\ Keeps(agent[a], Departed(agent[a], p))
        BY ONLY TInv, <2>1, <2>2, <2>4, <2>5, DepartedRow, Zenon
    <2> QED
        BY Zenon, <1>4, <2>3, <2>6
<1>6. TasksInv'
    BY Zenon, <1>1, <1>4 DEF TInv, TasksInv, Open
<1>7. agent' = [a \in Agents |-> agent'[a]] /\ Active' \subseteq Active
      /\ task' \in [Tasks -> TaskRow] /\ UNCHANGED task
    BY Zenon, <1>1, <1>2, <1>4
<1> QED
    BY Zenon, <1>1, <1>3, <1>4, <1>5, <1>6, <1>7, AllAgents

-----------------------------------------------------------------------------
(* The theorems *)

\* One step of any operation.
LEMMA TopologyStep == ASSUME TInv, Next PROVE TStep
<1>1. CASE \E p \in Partitions, n \in 0 .. MaxCapacity : upsert_partition(p, n) \/ resize_partition(p, n)
    BY Zenon, <1>1, PartitionsStep
<1>2. CASE reconcile_pool
    BY Zenon, <1>2, ReconcileStep
<1>3. CASE \E s, t \in Partitions : \/ \E n \in 1 .. MaxCapacity : move_capacity(s, t, n)
                                    \/ merge_partitions(s, t)
    BY Zenon, <1>3, MoveStep, MergeStep
<1>4. CASE \E p \in Partitions : retire_partition(p) \/ \E k \in Tasks : submit_batch(k, p)
    BY Zenon, <1>4, RetireStep, TasksStep
<1>5. CASE \E k \in Tasks, a \in Agents : \/ claim_next(k, a)
                                          \/ acquire_typed_task_existing(k, a)
                                          \/ acquire_typed_task_new_agent(k, a)
    BY Zenon, <1>5, ClaimsStep
<1>6. CASE \E a \in Agents : \/ bind_logical_agent_type(a)
                             \/ create_execution(a)
                             \/ \E next \in {"QUEUED", "ended"} : EndAttempt(a, next)
                             \/ \E next \in {"ended", "SUSPENDED"} : suspend_current(a, next)
                             \/ \E next \in {"QUEUED", "ended"} : resolve_escalation(a, next)
                             \/ revive_agent(a)
                             \/ ReviveRefused(a)
    <2>1. PICK a \in Agents : \/ bind_logical_agent_type(a)
                              \/ create_execution(a)
                              \/ \E next \in {"QUEUED", "ended"} : EndAttempt(a, next)
                              \/ \E next \in {"ended", "SUSPENDED"} : suspend_current(a, next)
                              \/ \E next \in {"QUEUED", "ended"} : resolve_escalation(a, next)
                              \/ revive_agent(a)
                              \/ ReviveRefused(a)
        BY Zenon, <1>6
    <2>2. CASE \E next \in {"QUEUED", "ended"} : EndAttempt(a, next)
        BY Zenon, <2>2, EndAttemptStep
    <2>3. CASE \E next \in {"ended", "SUSPENDED"} : suspend_current(a, next)
        BY Zenon, <2>3, SuspendStep
    <2>4. CASE \E next \in {"QUEUED", "ended"} : resolve_escalation(a, next)
        BY Zenon, <2>4, ResolveStep
    <2>5. CASE bind_logical_agent_type(a) \/ create_execution(a) \/ revive_agent(a) \/ ReviveRefused(a)
        BY Zenon, <2>5, BindStep, CreateStep, ReviveStep, ListStep
    <2> QED
        BY Zenon, <2>1, <2>2, <2>3, <2>4, <2>5
<1>7. CASE (\E k \in Tasks : cancel_task(k)) \/ ListRevivable
    BY Zenon, <1>7, TasksStep, ListStep
<1> QED
    BY Zenon, <1>1, <1>2, <1>3, <1>4, <1>5, <1>6, <1>7 DEF Next

\* A step that writes nothing.
LEMMA TopologyStutters == ASSUME TInv, UNCHANGED vars PROVE TStep
<1>1. UNCHANGED <<partition, task, obligation, listed>> /\ agent' = agent
    BY Zenon DEF vars
<1>2. \A a \in Agents : RowInv(agent[a], obligation[a], Active, Made)
    BY Zenon DEF TInv, AgentsInv
<1>3. agent = [a \in Agents |-> agent[a]]
    BY Zenon DEF TInv, TypeOK
<1> QED
    BY Zenon, <1>1, <1>2, <1>3, SameRow, AgentsOnly

\* The inductive invariant of the topology: what the state of every agent entails about
\* its partition, its staged move, its task, its host and its obligation holds after any
\* sequence of upserts, resizes, moves, merges, retirements, reconciliations, claims,
\* ends of attempts, confirmations and revivals.
THEOREM TopologyInvariant == Spec => []TInv
<1>1. Init => TInv
    <2> SUFFICES ASSUME Init PROVE TInv
        BY Zenon
    <2>1. /\ partition = [p \in Partitions |->
                            [made |-> p \in Configured, active |-> p \in Configured,
                             capacity |-> 0, into |-> None]]
          /\ agent = [a \in Agents |-> Unborn]
          /\ task = [k \in Tasks |-> [state |-> "unknown", partition |-> None]]
          /\ obligation = [a \in Agents |-> None]
          /\ listed = << >>
        BY Zenon DEF Init
    <2>2. 0 \in Nat
        BY TopologyAssumption
    <2>3. DOMAIN listed = {}
        BY <2>1
    <2>4. /\ Unborn \in AgentRow /\ Unborn.state = "unborn"
          /\ Unborn.partition = None /\ Unborn.pending = None /\ Unborn.retiring = FALSE
          /\ Unborn.task = None /\ Unborn.bound = FALSE /\ Unborn.host = None
          /\ Unborn.executing = FALSE /\ Unborn.loose = None
        BY Zenon DEF Unborn, AgentRow
    <2>5. Unborn = [Unborn EXCEPT !.state = Unborn.state]
        BY Zenon DEF Unborn
    <2>6. \A act, made : RowInv(Unborn, None, act, made)
        BY Zenon, <2>4, <2>5 DEF RowInv, Gone, Idle, Working
    <2>7. AgentsInv
        BY Zenon, <2>1, <2>6 DEF AgentsInv
    <2>8. TasksInv /\ ListedInv /\ Active \subseteq Made /\ \A a \in Agents : Works(a)
        <3>1. TasksInv
            BY Zenon, <2>1 DEF TasksInv, Open
        <3>2. Active \subseteq Made
            BY Zenon, <2>1 DEF Active, Made
        <3>3. ListedInv
            BY Zenon, <2>3 DEF ListedInv
        <3>4. \A a \in Agents : agent[a].task = None
            BY Zenon, <2>1, <2>4
        <3> QED
            BY Zenon, <3>1, <3>2, <3>3, <3>4 DEF Works
    <2>9. TypeOK
        <3>1. partition \in [Partitions -> [made : BOOLEAN, active : BOOLEAN,
                                            capacity : Nat,
                                            into : Partitions \cup {None}]]
            <4>1. ASSUME NEW p \in Partitions
                  PROVE  [made |-> p \in Configured, active |-> p \in Configured,
                          capacity |-> 0, into |-> None] \in
                             [made : BOOLEAN, active : BOOLEAN, capacity : Nat,
                              into : Partitions \cup {None}]
                BY <2>2
            <4> QED
                BY Zenon, <2>1, <4>1
        <3>2. /\ agent \in [Agents -> AgentRow] /\ obligation \in [Agents -> Tasks \cup {None}]
            BY Zenon, <2>1, <2>4
        <3>3. task \in [Tasks -> [state : {"unknown", "QUEUED", "LEASED", "SUSPENDED", "ended"},
                                  partition : Partitions \cup {None}]]
            BY Zenon, <2>1
        <3> QED
            BY Zenon, <2>3, <3>1, <3>2, <3>3 DEF TypeOK
    <2> QED
        BY Zenon, <2>7, <2>8, <2>9 DEF TInv
<1>2. TInv /\ [Next]_vars => TInv'
    BY Zenon, TopologyStep, TopologyStutters DEF TStep
<1> QED
    BY <1>1, <1>2, PTL DEF Spec

\* No topology command makes an end of an attempt fail, nor the discharge of a writer
\* obligation: release_agent and prepare_agent_revival_after_safety find an active
\* destination and a plan that commits, for any number of partitions and agents.
THEOREM ReleaseIsNeverRefused == Spec => []ReleaseNeverRefused
<1>1. ASSUME TInv, NEW a \in Agents, agent[a].task # None, NEW host \in HostsAfter(agent[a])
      PROVE  CanRelease([agent[a] EXCEPT !.host = host])
    BY Zenon, <1>1, WorkingIsReleasable, ReleasedRow
<1>2. ASSUME TInv, NEW a \in Agents, obligation[a] # None
      PROVE  CanPrepareRevival([agent[a] EXCEPT !.loose = None])
    <2> DEFINE r == agent[a]
               row == [r EXCEPT !.loose = None]
    <2>1. RowInv(r, obligation[a], Active, Made) /\ r \in AgentRow
        BY Zenon, <1>2, RowOf
    <2>2. r.state = "SUSPENDED" /\ r.host = None /\ r.state \notin Gone
        BY Zenon, <1>2, <2>1 DEF RowInv, Gone
    <2> HIDE DEF r
    <2>3. /\ row \in AgentRow /\ row.partition = r.partition /\ row.pending = r.pending
          /\ row.bound = r.bound /\ row.host = None /\ row.loose = None
        BY <2>1, <2>2 DEF AgentRow
    <2> HIDE DEF row
    <2>4. Desired(row) = Desired(r) /\ CanStart(row) /\ Desired(r) \in Active
        BY Zenon, <2>1, <2>2, <2>3 DEF Desired, CanStart, RowInv
    <2>5. Releasable(row)
        BY Zenon, <2>1, <2>2, <2>3, <2>4 DEF Releasable, RowInv
    <2>6. CanRelease(row)
        BY Zenon, <1>2, <2>5, ReleasedRow
    <2>7. canonical_partition(Desired(row)) # None
        BY Zenon, <1>2, <2>4, CanonicalIsActive, PartitionFacts
    <2> QED
        BY Zenon, <2>6, <2>7 DEF CanPrepareRevival, row, r
<1>3. TInv => ReleaseNeverRefused
    BY Zenon, <1>1, <1>2 DEF ReleaseNeverRefused
<1> QED
    BY <1>3, TopologyInvariant, PTL

\* Open tasks are in active partitions, agents that may be claimed stand in one with
\* nothing staged, and no claimed agent lives on a target other than its partition's.
THEOREM WorkStaysPlaced == Spec => []WorkIsPlaced
<1>1. ASSUME TInv, NEW a \in Agents
      PROVE  /\ agent[a].state \in {"READY", "REVIVING"} =>
                   /\ agent[a].partition \in Active
                   /\ agent[a].pending = None /\ ~agent[a].retiring
             /\ agent[a].state \in {"READY", "REVIVING", "ASSIGNED", "DRAINING"} => CanStart(agent[a])
    <2> DEFINE r == agent[a]
    <2>1. RowInv(r, obligation[a], Active, Made)
        BY Zenon, <1>1, RowOf
    <2> HIDE DEF r
    <2>2. r.state \in {"READY", "REVIVING"} =>
              r.partition \in Active /\ r.pending = None /\ ~r.retiring
        BY Zenon, <2>1 DEF RowInv, Idle, Gone, Desired
    <2>3. r.state \in {"READY", "REVIVING", "ASSIGNED", "DRAINING"} => CanStart(r)
        BY Zenon, <2>1 DEF RowInv, Idle, Working
    <2> QED
        BY Zenon, <2>2, <2>3 DEF r
<1>2. TInv => WorkIsPlaced
    BY Zenon, <1>1 DEF TInv, TasksInv, WorkIsPlaced
<1> QED
    BY <1>2, TopologyInvariant, PTL

\* DRAINING agents work and have somewhere to go, SUSPENDED ones wait for a writer or
\* for their host, and a retirement that was requested is never taken back.
THEOREM NobodyIsEverStuck == Spec => NobodyIsStuck
<1>1. TInv => \A a \in Agents :
                 /\ agent[a].state = "DRAINING" =>
                       agent[a].task # None /\ (agent[a].pending # None \/ agent[a].retiring)
                 /\ agent[a].state = "SUSPENDED" /\ obligation[a] = None =>
                       agent[a].pending # None /\ agent[a].host # None /\ agent[a].host.used
    <2> SUFFICES ASSUME TInv, NEW a \in Agents
                 PROVE  /\ agent[a].state = "DRAINING" =>
                              agent[a].task # None /\ (agent[a].pending # None \/ agent[a].retiring)
                        /\ agent[a].state = "SUSPENDED" /\ obligation[a] = None =>
                              agent[a].pending # None /\ agent[a].host # None /\ agent[a].host.used
        BY Zenon
    <2>1. RowInv(agent[a], obligation[a], Active, Made)
        BY Zenon, RowOf
    <2> QED
        BY Zenon, <2>1 DEF RowInv, Working
<1>2. TInv /\ [Next]_vars =>
        [\A a \in Agents :
            agent[a].retiring => agent'[a].retiring \/ agent'[a].state = "RETIRED"]_vars
    BY Zenon, TopologyStep DEF TStep, RowStep
<1> QED
    BY <1>1, <1>2, TopologyInvariant, PTL DEF Spec, NobodyIsStuck

\* A provisioned host that ran something leaves its agent only at the end of the attempt
\* that used it, or when the agent retires.
THEOREM NoHostIsAbandoned == Spec => HostNeverAbandoned
<1>1. TInv /\ [Next]_vars =>
        [\A a \in Agents :
            (agent[a].host # None /\ agent[a].host.provisioned /\ agent[a].host.used) =>
               \/ agent'[a].host = agent[a].host
               \/ agent[a].executing /\ ~agent'[a].executing
               \/ agent'[a].state = "RETIRED"]_vars
    BY Zenon, TopologyStep DEF TStep, RowStep
<1> QED
    BY <1>1, TopologyInvariant, PTL DEF Spec, HostNeverAbandoned
=============================================================================
